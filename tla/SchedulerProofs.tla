-------------------------- MODULE SchedulerProofs --------------------------
(***************************************************************************)
(* Proofs about Scheduler, for every number of tasks, semaphores and       *)
(* priorities, every frame length and quantum, and every guest program.    *)
(***************************************************************************)
EXTENDS Scheduler, SequenceTheorems, NaturalFacts, TLAPS

(***************************************************************************)
(* What the slice loop keeps about its own counters.                       *)
(***************************************************************************)
LoopInv ==
  /\ phase = "run" => executed < Slice /\ framebuffer_submitted = FALSE
  /\ phase = "account" /\ framebuffer_submitted => executed > 0
  /\ phase = "pick" /\ framebuffer_submitted => remaining_cycles = 0

CoreLoop == LoopOK /\ FrameAccounting /\ LoopInv
CoreInv  == TypeOK /\ FrameAccounting /\ LoopInv

-----------------------------------------------------------------------------
(* The helpers on contexts.                                                *)

\* Ageing the deadlines changes nothing but the time left of a delay.
LEMMA ElapseType ==
  ASSUME NEW cs \in Seq(Context), NEW n \in Nat
  PROVE  /\ Elapse(cs, n) \in Seq(Context)
         /\ Len(Elapse(cs, n)) = Len(cs)
         /\ DOMAIN Elapse(cs, n) = DOMAIN cs
         /\ \A i \in DOMAIN cs :
              /\ Elapse(cs, n)[i].cpu = cs[i].cpu
              /\ Elapse(cs, n)[i].at = cs[i].at
              /\ Elapse(cs, n)[i].wait = AgedWait(cs[i].wait, n)
<1>1. DOMAIN cs = 1..Len(cs) /\ Len(cs) \in Nat
  OBVIOUS
<1>2. ASSUME NEW i \in DOMAIN cs
      PROVE  [cs[i] EXCEPT !.wait = AgedWait(cs[i].wait, n)] \in Context
  <2>1. cs[i] \in Context
    BY <1>2
  <2>2. AgedWait(cs[i].wait, n) \in Wait
    BY <2>1 DEF AgedWait, UntilCycle, Wait, Context
  <2>3. QED
    BY <2>1, <2>2 DEF Context
<1>3. Elapse(cs, n) \in [1..Len(cs) -> Context]
  BY <1>1, <1>2 DEF Elapse
<1>4. \A i \in DOMAIN cs : cs[i] \in Context
  OBVIOUS
<1>5. QED
  BY <1>1, <1>3, <1>4 DEF Elapse, Context

\* Looking at a context changes at most its wait.
LEMMA PolledType ==
  ASSUME NEW cs \in Seq(Context), NEW i \in DOMAIN cs
  PROVE  /\ Polled(cs, i) \in Seq(Context)
         /\ Len(Polled(cs, i)) = Len(cs)
         /\ DOMAIN Polled(cs, i) = DOMAIN cs
         /\ \A j \in DOMAIN cs : j # i => Polled(cs, i)[j] = cs[j]
         /\ Polled(cs, i)[i].cpu = cs[i].cpu
         /\ Polled(cs, i)[i].at = cs[i].at
         /\ Polled(cs, i)[i].wait = IF Satisfied(cs[i].wait) THEN NoWait ELSE cs[i].wait
<1>1. cs[i] \in Context /\ NoWait \in Wait
  BY DEF NoWait, Wait
<1>2. [cs[i] EXCEPT !.wait = NoWait] \in Context
  BY <1>1 DEF Context
<1> DEFINE free == [cs[i] EXCEPT !.wait = NoWait]
           new  == [cs EXCEPT ![i] = free]
<1>3. free \in Context /\ free.cpu = cs[i].cpu /\ free.at = cs[i].at /\ free.wait = NoWait
  BY <1>1, <1>2 DEF Context
<1>4. /\ new \in Seq(Context) /\ Len(new) = Len(cs) /\ DOMAIN new = DOMAIN cs
      /\ new[i] = free
      /\ \A j \in DOMAIN cs : j # i => new[j] = cs[j]
  <2> HIDE DEF free
  <2> QED BY <1>3
<1>5. Polled(cs, i) = IF Satisfied(cs[i].wait) THEN new ELSE cs
  BY DEF Polled
<1>6. QED
  <2> HIDE DEF free, new
  <2> QED BY <1>3, <1>4, <1>5

-----------------------------------------------------------------------------
(* What an SDK call does to the slice, whatever it did to the contexts.    *)

LEMMA SdkCallCore ==
  ASSUME CoreInv, phase = "run",
         NEW cs \in Seq(Context), Len(cs) >= Len(contexts),
         NEW sub \in BOOLEAN, SdkCall(cs, sub)
  PROVE  /\ CoreLoop'
         /\ phase' \in {"run", "account"} /\ executed' > 0
         /\ Len(contexts') = Len(cs)
<1> USE SchedulerAssumption
<1> DEFINE aged   == Elapse(cs, 1)
           polled == IF sub THEN aged ELSE Polled(aged, scheduler_cursor)
<1>1. scheduler_cursor \in DOMAIN cs
  BY DEF CoreInv, TypeOK, LoopOK, InSlice
<1>2. /\ aged \in Seq(Context) /\ Len(aged) = Len(cs)
      /\ scheduler_cursor \in DOMAIN aged
  BY <1>1, ElapseType
<1>3. polled \in Seq(Context) /\ Len(polled) = Len(cs)
  <2> HIDE DEF aged
  <2> QED BY <1>2, PolledType
<1>4. /\ contexts' = polled
      /\ executed' = executed + 1
      /\ frame_cycles' = frame_cycles + 1
      /\ framebuffer_submitted' = sub
      /\ phase' = IF SliceEnds(polled, sub) THEN "account" ELSE AfterUnits(1)
      /\ UNCHANGED loopVars
  BY DEF SdkCall
<1>5. /\ contexts' \in Seq(Context) /\ Len(contexts') = Len(cs)
      /\ phase' = "run" => sub = FALSE /\ executed + 1 < Slice
      /\ phase' \in {"run", "account"}
  <2> HIDE DEF polled
  <2> QED BY <1>3, <1>4 DEF SliceEnds, AfterUnits
<1> HIDE DEF polled, aged
<1>6. /\ executed + 1 <= Slice /\ Slice <= remaining_cycles /\ Slice' = Slice
      /\ Slice \in Nat /\ executed \in Nat
  BY <1>4 DEF CoreInv, TypeOK, LoopOK, LoopInv, InSlice, loopVars, Slice
<1>7. LoopOK'
  BY <1>4, <1>5, <1>6 DEF CoreInv, TypeOK, LoopOK, FrameAccounting, InSlice, loopVars
<1>8. FrameAccounting' /\ LoopInv'
  BY <1>4, <1>5, <1>6 DEF CoreInv, TypeOK, LoopOK, LoopInv, FrameAccounting, InSlice, loopVars
<1>9. QED
  BY <1>4, <1>5, <1>6, <1>7, <1>8 DEF CoreLoop

\* A handler that changed the contexts and then failed.
LEMMA SdkFaultCore ==
  ASSUME CoreInv, phase = "run",
         NEW cs \in Seq(Context), Len(cs) >= Len(contexts), SdkFault(cs)
  PROVE  CoreLoop' /\ phase' = "failed"
<1> USE SchedulerAssumption
<1>1. QED
  BY DEF SdkFault, CoreLoop, CoreInv, TypeOK, LoopOK, FrameAccounting, LoopInv,
         InSlice, loopVars

\* Changing one field of one context leaves a sequence of contexts.
LEMMA ReplaceType ==
  ASSUME NEW cs \in Seq(Context), NEW c \in DOMAIN cs, NEW d \in Context
  PROVE  /\ [cs EXCEPT ![c] = d] \in Seq(Context)
         /\ Len([cs EXCEPT ![c] = d]) = Len(cs)
OBVIOUS

LEMMA UpdateWait ==
  ASSUME NEW cs \in Seq(Context), NEW c \in DOMAIN cs, NEW w \in Wait
  PROVE  /\ [cs EXCEPT ![c].wait = w] \in Seq(Context)
         /\ Len([cs EXCEPT ![c].wait = w]) = Len(cs)
<1>1. cs[c] \in Context
  OBVIOUS
<1>2. [cs[c] EXCEPT !.wait = w] \in Context
  BY <1>1 DEF Context
<1>3. QED
  BY <1>2, ReplaceType

LEMMA UpdateCpu ==
  ASSUME NEW cs \in Seq(Context), NEW c \in DOMAIN cs
  PROVE  /\ [cs EXCEPT ![c].cpu = "stopped"] \in Seq(Context)
         /\ Len([cs EXCEPT ![c].cpu = "stopped"]) = Len(cs)
<1>1. cs[c] \in Context
  OBVIOUS
<1>2. [cs[c] EXCEPT !.cpu = "stopped"] \in Context
  BY <1>1 DEF Context
<1>3. QED
  BY <1>2, ReplaceType

LEMMA UpdateAt ==
  ASSUME NEW cs \in Seq(Context), NEW c \in DOMAIN cs, NEW a \in {"code", "waveout_write"}
  PROVE  /\ [cs EXCEPT ![c].at = a] \in Seq(Context)
         /\ Len([cs EXCEPT ![c].at = a]) = Len(cs)
<1>1. cs[c] \in Context
  OBVIOUS
<1>2. [cs[c] EXCEPT !.at = a] \in Context
  BY <1>1 DEF Context
<1>3. QED
  BY <1>2, ReplaceType

\* A deferred waveout_write changes two fields of the caller.
LEMMA DeferredType ==
  ASSUME NEW cs \in Seq(Context), NEW c \in DOMAIN cs
  PROVE  /\ [cs EXCEPT ![c].wait = AudioWrite, ![c].at = "waveout_write"] \in Seq(Context)
         /\ Len([cs EXCEPT ![c].wait = AudioWrite, ![c].at = "waveout_write"]) = Len(cs)
<1> DEFINE d == [cs[c] EXCEPT !.wait = AudioWrite, !.at = "waveout_write"]
<1>1. cs[c] \in Context
  OBVIOUS
<1>2. d \in Context
  BY <1>1 DEF Context, AudioWrite, Wait
<1>3. [cs EXCEPT ![c].wait = AudioWrite, ![c].at = "waveout_write"] = [cs EXCEPT ![c] = d]
  OBVIOUS
<1>4. QED
  <2> HIDE DEF d
  <2> QED BY <1>2, <1>3, ReplaceType

\* DeleteTask and SemPost give some of the contexts another field value.
LEMMA ChosenType ==
  ASSUME NEW cs \in Seq(Context), NEW S
  PROVE  /\ [i \in DOMAIN cs |-> IF i \in S THEN [cs[i] EXCEPT !.cpu = "stopped"]
                                 ELSE cs[i]] \in Seq(Context)
         /\ Len([i \in DOMAIN cs |-> IF i \in S THEN [cs[i] EXCEPT !.cpu = "stopped"]
                                     ELSE cs[i]]) = Len(cs)
         /\ [i \in DOMAIN cs |-> IF i \in S THEN [cs[i] EXCEPT !.wait = NoWait]
                                 ELSE cs[i]] \in Seq(Context)
         /\ Len([i \in DOMAIN cs |-> IF i \in S THEN [cs[i] EXCEPT !.wait = NoWait]
                                     ELSE cs[i]]) = Len(cs)
<1>1. \A i \in DOMAIN cs :
        /\ cs[i] \in Context
        /\ [cs[i] EXCEPT !.cpu = "stopped"] \in Context
        /\ [cs[i] EXCEPT !.wait = NoWait] \in Context
  <2>1. \A c \in Context : /\ [c EXCEPT !.cpu = "stopped"] \in Context
                          /\ [c EXCEPT !.wait = NoWait] \in Context
    BY DEF Context, NoWait, Wait
  <2>2. QED
    BY <2>1
<1>2. DOMAIN cs = 1..Len(cs) /\ Len(cs) \in Nat
  OBVIOUS
<1>3. \A f : f \in [1..Len(cs) -> Context] => f \in Seq(Context) /\ Len(f) = Len(cs)
  BY <1>2
<1> DEFINE f == [i \in DOMAIN cs |-> IF i \in S THEN [cs[i] EXCEPT !.cpu = "stopped"]
                                     ELSE cs[i]]
           g == [i \in DOMAIN cs |-> IF i \in S THEN [cs[i] EXCEPT !.wait = NoWait]
                                     ELSE cs[i]]
<1>4. f \in [1..Len(cs) -> Context] /\ g \in [1..Len(cs) -> Context]
  BY <1>1, <1>2
<1>5. QED
  <2> HIDE DEF f, g
  <2>1. f \in Seq(Context) /\ Len(f) = Len(cs) /\ g \in Seq(Context) /\ Len(g) = Len(cs)
    BY <1>3, <1>4
  <2>2. QED
    BY <2>1 DEF f, g

-----------------------------------------------------------------------------
(* The first invariant: types, the frame's accounting, the slice counters. *)

LEMMA CoreInit == Init => CoreInv
<1> USE SchedulerAssumption
<1> SUFFICES ASSUME Init PROVE CoreInv
  OBVIOUS
<1>1. contexts \in Seq(Context) /\ Len(contexts) = 1
  BY DEF Init, Context, NoWait, Wait
<1>2. SemaphoresOK
  BY DEF Init, SemaphoresOK, Handles, NoSemaphore
<1>3. AudioOK
  BY DEF Init, AudioOK
<1>4. LoopOK /\ FrameAccounting /\ LoopInv
  <2>1. /\ scheduler_cursor = 1 /\ phase = "host" /\ remaining_cycles = 0
        /\ executed = 0 /\ idle_contexts = 0 /\ context_count = 1
        /\ frame_cycles = 0 /\ framebuffer_submitted = FALSE
    BY DEF Init
  <2>2. remaining_cycles \in 0..FrameCycles /\ executed \in 0..FrameCycles
        /\ frame_cycles \in 0..FrameCycles
    BY <2>1
  <2>3. scheduler_cursor \in Nat \ {0} /\ context_count \in Nat \ {0}
        /\ idle_contexts \in Nat
    BY <2>1
  <2>4. ~InSlice /\ phase \in {"host", "pick", "run", "spin", "account", "failed", "closed"}
    BY <2>1 DEF InSlice
  <2>5. framebuffer_submitted \in BOOLEAN
    BY <2>1
  <2>6. LoopOK
    BY <1>1, <2>2, <2>3, <2>4, <2>5 DEF LoopOK
  <2>7. FrameAccounting
    BY <2>1, <2>4 DEF FrameAccounting
  <2>8. LoopInv
    BY <2>1 DEF LoopInv
  <2>9. QED
    BY <2>6, <2>7, <2>8
<1>5. QED
  BY <1>2, <1>3, <1>4 DEF CoreInv, TypeOK

LEMMA CoreNext == CoreInv /\ [Next]_vars => CoreInv'
<1> USE SchedulerAssumption
<1> SUFFICES ASSUME CoreInv, [Next]_vars PROVE CoreInv'
  OBVIOUS
<1>0. /\ LoopOK /\ SemaphoresOK /\ AudioOK /\ FrameAccounting /\ LoopInv /\ TypeOK
      /\ contexts \in Seq(Context) /\ Len(contexts) \in Nat
  BY DEF CoreInv, TypeOK, LoopOK
<1>e. InSlice => scheduler_cursor \in DOMAIN contexts
  BY <1>0 DEF LoopOK
<1>a. ASSUME CoreLoop', SemaphoresOK', AudioOK' PROVE CoreInv'
  BY <1>a DEF CoreLoop, CoreInv, TypeOK
<1>b. UNCHANGED semVars => SemaphoresOK'
  BY <1>0 DEF semVars, SemaphoresOK
<1>c. UNCHANGED audioVars => AudioOK'
  BY <1>0 DEF audioVars, AudioOK
<1>d. ASSUME phase = "run", SdkCall(contexts, FALSE) \/ SdkCall(contexts, TRUE)
             \/ SdkFault(contexts)
      PROVE  CoreLoop'
  <2>1. contexts \in Seq(Context) /\ Len(contexts) >= Len(contexts)
    BY <1>0
  <2>2. TRUE \in BOOLEAN /\ FALSE \in BOOLEAN
    OBVIOUS
  <2>3. ASSUME NEW sub \in BOOLEAN, SdkCall(contexts, sub) PROVE CoreLoop'
    BY <1>d, <2>1, <2>3, SdkCallCore
  <2>4. ASSUME SdkFault(contexts) PROVE CoreLoop'
    BY <1>d, <2>1, <2>4, SdkFaultCore
  <2>5. QED
    BY <1>d, <2>2, <2>3, <2>4
<1>1. CASE TickBegin
  <2>1. CoreLoop'
    <3>1. /\ phase' = "pick" /\ framebuffer_submitted' = FALSE
          /\ remaining_cycles' = FrameCycles /\ idle_contexts' = 0 /\ frame_cycles' = 0
          /\ UNCHANGED <<contexts, scheduler_cursor, context_count, executed>>
      BY <1>1 DEF TickBegin
    <3>2. remaining_cycles' \in 0..FrameCycles /\ frame_cycles' \in 0..FrameCycles
          /\ idle_contexts' \in Nat
          /\ frame_cycles' + remaining_cycles' = FrameCycles
      BY <3>1
    <3>a. framebuffer_submitted' \in BOOLEAN
      BY <3>1
    <3>3. LoopOK'
      BY <1>0, <3>1, <3>2, <3>a DEF LoopOK, InSlice
    <3>4. FrameAccounting' /\ LoopInv'
      BY <3>1, <3>2 DEF FrameAccounting, LoopInv, InSlice
    <3>5. QED
      BY <3>3, <3>4 DEF CoreLoop
  <2>2. QED
    BY <1>1, <2>1, <1>a, <1>b, <1>c DEF TickBegin
<1>2. CASE SliceBegin
  <2>1. PickCursor \in DOMAIN contexts /\ PickCursor \in Nat \ {0}
    BY <1>0 DEF PickCursor, LoopOK
  <2>2. Polled(contexts, PickCursor) \in Seq(Context)
        /\ Len(Polled(contexts, PickCursor)) = Len(contexts)
    BY <1>0, <2>1, PolledType
  <2>3. /\ scheduler_cursor' = PickCursor /\ context_count' = Len(contexts)
        /\ executed' = 0 /\ contexts' = Polled(contexts, PickCursor)
        /\ phase' \in {"run", "account"} /\ phase = "pick" /\ remaining_cycles > 0
        /\ UNCHANGED <<remaining_cycles, idle_contexts, frame_cycles, framebuffer_submitted>>
    BY <1>2 DEF SliceBegin
  <2>4. PickCursor <= Len(contexts) /\ Slice' \in Nat /\ Slice' > 0
    BY <1>0, <2>1, <2>3 DEF Slice, LoopOK
  <2>5. CoreLoop'
    BY <1>0, <2>1, <2>2, <2>3, <2>4
       DEF CoreLoop, LoopOK, FrameAccounting, LoopInv, InSlice
  <2>6. QED
    BY <1>2, <2>5, <1>a, <1>b, <1>c DEF SliceBegin
<1>3. CASE InstructionBlock \/ BreakBlock
  <2>1. PICK n \in 1..(Slice - executed) :
          /\ executed' = executed + n
          /\ frame_cycles' = frame_cycles + n
          /\ contexts' \in { Elapse(contexts, n),
                 [Elapse(contexts, n) EXCEPT ![scheduler_cursor].cpu = "stopped"] }
          /\ phase' \in {"run", "spin", "account"}
          /\ phase' = "run" => executed + n < Slice
          /\ phase = "run"
          /\ UNCHANGED <<semVars, loopVars, framebuffer_submitted, audioVars>>
    BY <1>3 DEF InstructionBlock, BreakBlock, AfterUnits, Running
  <2>2. Slice \in Nat /\ executed \in Nat /\ n \in Nat /\ n >= 1
        /\ Slice <= remaining_cycles /\ Slice' = Slice
    BY <1>0, <2>1 DEF LoopOK, Slice, loopVars
  <2>3. /\ Elapse(contexts, n) \in Seq(Context)
        /\ Len(Elapse(contexts, n)) = Len(contexts)
        /\ scheduler_cursor \in DOMAIN Elapse(contexts, n)
    <3>1. scheduler_cursor \in DOMAIN contexts
      BY <1>e, <2>1 DEF InSlice
    <3>2. QED
      BY <1>0, <2>2, <3>1, ElapseType
  <2>5. contexts' \in Seq(Context) /\ Len(contexts') = Len(contexts)
    <3> DEFINE aged == Elapse(contexts, n)
    <3>1. contexts' = aged \/ contexts' = [aged EXCEPT ![scheduler_cursor].cpu = "stopped"]
      BY <2>1
    <3> HIDE DEF aged
    <3>2. aged \in Seq(Context) /\ Len(aged) = Len(contexts) /\ scheduler_cursor \in DOMAIN aged
      BY <2>3 DEF aged
    <3>3. [aged EXCEPT ![scheduler_cursor].cpu = "stopped"] \in Seq(Context)
          /\ Len([aged EXCEPT ![scheduler_cursor].cpu = "stopped"]) = Len(aged)
      BY <3>2, UpdateCpu
    <3>4. QED
      BY <3>1, <3>2, <3>3
  <2>6. /\ executed' \in 0..FrameCycles /\ frame_cycles' \in 0..FrameCycles
        /\ executed' <= Slice' /\ executed' > 0
        /\ frame_cycles' + remaining_cycles' = FrameCycles + executed'
    <3>1. /\ frame_cycles + remaining_cycles = FrameCycles + executed
          /\ remaining_cycles \in 0..FrameCycles /\ frame_cycles \in Nat
          /\ remaining_cycles' = remaining_cycles
      BY <1>0, <2>1 DEF LoopOK, FrameAccounting, InSlice, loopVars
    <3>2. QED
      BY <2>1, <2>2, <3>1
  <2>7. LoopOK'
    BY <1>0, <2>1, <2>2, <2>5, <2>6 DEF LoopOK, InSlice, loopVars
  <2>8. FrameAccounting' /\ LoopInv'
    BY <1>0, <2>1, <2>2, <2>6 DEF FrameAccounting, LoopInv, InSlice
  <2>9. QED
    BY <2>1, <2>7, <2>8, <1>a, <1>b, <1>c DEF CoreLoop
<1>4. CASE UnknownInstruction
  <2>1. CASE Active.policy = "stop"
    <3>1. CoreLoop'
      BY <1>0, <1>4, <2>1
         DEF UnknownInstruction, CoreLoop, LoopOK, FrameAccounting, LoopInv, InSlice, loopVars
    <3>2. QED
      BY <1>4, <3>1, <1>a, <1>b, <1>c DEF UnknownInstruction
  <2>2. CASE Active.policy # "stop"
    <3>1. /\ executed' = executed + 1
          /\ frame_cycles' = frame_cycles + 1
          /\ contexts' = Elapse(contexts, 1)
          /\ phase' \in {"run", "account"} /\ phase = "run"
          /\ phase' = "run" => executed + 1 < Slice
          /\ UNCHANGED <<semVars, loopVars, framebuffer_submitted, audioVars>>
      BY <1>4, <2>2 DEF UnknownInstruction, AfterUnits, Running
    <3>2. contexts' \in Seq(Context) /\ Len(contexts') = Len(contexts)
      BY <1>0, <3>1, ElapseType
    <3>3. Slice \in Nat /\ executed \in Nat /\ executed < Slice
          /\ Slice <= remaining_cycles /\ Slice' = Slice
      BY <1>0, <3>1 DEF LoopOK, LoopInv, Slice, loopVars
    <3>4. CoreLoop'
      BY <1>0, <3>1, <3>2, <3>3
         DEF CoreLoop, LoopOK, FrameAccounting, LoopInv, InSlice, loopVars
    <3>5. QED
      BY <3>1, <3>4, <1>a, <1>b, <1>c
  <2>3. QED
    BY <2>1, <2>2
<1>5. CASE TaskReturn
  <2>1. /\ contexts' \in Seq(Context) /\ Len(contexts') = Len(contexts)
        /\ phase = "run" /\ phase' = "account"
        /\ UNCHANGED <<semVars, loopVars, executed, frame_cycles,
                       framebuffer_submitted, audioVars>>
    BY <1>0, <1>e, <1>5, UpdateCpu DEF TaskReturn, InSlice
  <2>2. Slice' = Slice
    BY <2>1 DEF Slice, loopVars
  <2>3. CoreLoop'
    BY <1>0, <2>1, <2>2
       DEF CoreLoop, LoopOK, FrameAccounting, LoopInv, InSlice, loopVars
  <2>4. QED
    BY <2>1, <2>3, <1>a, <1>b, <1>c
<1>6. CASE RunError \/ HostStop
  <2>1. /\ phase' \in {"failed", "closed"}
        /\ UNCHANGED <<contexts, semVars, loopVars, executed, frame_cycles,
                       framebuffer_submitted, audioVars>>
    BY <1>6 DEF RunError, HostStop
  <2>2. CoreLoop'
    BY <1>0, <2>1
       DEF CoreLoop, LoopOK, FrameAccounting, LoopInv, InSlice, loopVars
  <2>3. QED
    BY <2>1, <2>2, <1>a, <1>b, <1>c
<1>7. CASE OtherCall \/ SubmitFrame
  BY <1>7, <1>a, <1>b, <1>c, <1>d DEF OtherCall, SubmitFrame, Calling
<1>8. CASE StopSelf
  <2> DEFINE cs == [contexts EXCEPT ![scheduler_cursor].cpu = "stopped"]
  <2>0. phase = "run" /\ SdkCall(cs, FALSE)
    BY <1>8 DEF StopSelf, Calling
  <2>3. cs \in Seq(Context) /\ Len(cs) >= Len(contexts)
    <3>1. scheduler_cursor \in DOMAIN contexts
      BY <1>e, <2>0 DEF InSlice
    <3>2. cs \in Seq(Context) /\ Len(cs) = Len(contexts)
      BY <1>0, <3>1, UpdateCpu
    <3> HIDE DEF cs
    <3>3. QED
      BY <1>0, <3>2
  <2>1. CoreLoop'
    <3> HIDE DEF cs
    <3> QED BY <2>0, <2>3, SdkCallCore
  <2>2. QED
    BY <1>8, <2>1, <1>a, <1>b, <1>c DEF StopSelf
<1>9. CASE CreateTask
  <2>1. PICK p \in Priorities :
          SdkCall(IF Len(contexts) <= MaxTasks
                  THEN Append(contexts, NewTask(p)) ELSE contexts, FALSE)
    BY <1>9 DEF CreateTask
  <2> DEFINE cs == IF Len(contexts) <= MaxTasks
                   THEN Append(contexts, NewTask(p)) ELSE contexts
  <2>2. NewTask(p) \in Context
    BY DEF NewTask, Context, NoWait, Wait
  <2>3. cs \in Seq(Context) /\ Len(cs) >= Len(contexts)
    BY <1>0, <2>2
  <2>4. phase = "run" /\ UNCHANGED <<semVars, audioVars>>
    BY <1>9 DEF CreateTask, Calling
  <2>5. CoreLoop'
    <3> HIDE DEF cs
    <3>1. SdkCall(cs, FALSE)
      BY <2>1 DEF cs
    <3>2. QED
      BY <2>3, <2>4, <3>1, SdkCallCore
  <2>6. QED
    BY <2>4, <2>5, <1>a, <1>b, <1>c
<1>10. CASE DeleteTask
  <2>1. PICK p \in Priorities :
          SdkCall([i \in DOMAIN contexts |->
                     IF i \in Deleted(p) THEN [contexts[i] EXCEPT !.cpu = "stopped"]
                     ELSE contexts[i]], FALSE)
    BY <1>10 DEF DeleteTask
  <2>2. phase = "run" /\ UNCHANGED <<semVars, audioVars>>
    BY <1>10 DEF DeleteTask, Calling
  <2> DEFINE cs == [i \in DOMAIN contexts |->
                     IF i \in Deleted(p) THEN [contexts[i] EXCEPT !.cpu = "stopped"]
                     ELSE contexts[i]]
  <2>5. cs \in Seq(Context) /\ Len(cs) >= Len(contexts)
    <3>1. cs \in Seq(Context) /\ Len(cs) = Len(contexts)
      BY <1>0, ChosenType
    <3> HIDE DEF cs
    <3> QED BY <1>0, <3>1
  <2>6. SdkCall(cs, FALSE)
    BY <2>1
  <2>3. CoreLoop'
    <3> HIDE DEF cs
    <3> QED BY <2>2, <2>5, <2>6, SdkCallCore
  <2>4. QED
    BY <2>2, <2>3, <1>a, <1>b, <1>c
<1>11. CASE SemCreate
  <2>1. phase = "run" /\ CoreLoop'
    BY <1>11, <1>d DEF SemCreate, Calling
  <2>2. SemaphoresOK'
    BY <1>0, <1>11 DEF SemCreate, SemaphoresOK, Handles, NoSemaphore
  <2>3. QED
    BY <1>11, <2>1, <2>2, <1>a, <1>c DEF SemCreate
<1>12. ASSUME NEW h \in Handles, SemPend(h) PROVE CoreInv'
  <2> DEFINE cs == IF semaphores[h] = 0
                   THEN [contexts EXCEPT ![scheduler_cursor].wait = Semaphore(h)]
                   ELSE contexts
  <2>1. phase = "run" /\ (SdkCall(cs, FALSE) \/ SdkFault(cs))
    BY <1>12 DEF SemPend, Calling
  <2>2. Semaphore(h) \in Wait
    BY DEF Semaphore, Wait, Handles
  <2>3. cs \in Seq(Context) /\ Len(cs) >= Len(contexts)
    <3> DEFINE new == [contexts EXCEPT ![scheduler_cursor].wait = Semaphore(h)]
    <3>1. scheduler_cursor \in DOMAIN contexts
      BY <1>e, <2>1 DEF InSlice
    <3>2. new \in Seq(Context) /\ Len(new) = Len(contexts)
      BY <1>0, <2>2, <3>1, UpdateWait
    <3> HIDE DEF new
    <3>3. cs = new \/ cs = contexts
      BY DEF new
    <3> HIDE DEF cs
    <3>4. QED
      BY <1>0, <3>2, <3>3
  <2>4. CoreLoop'
    <3> HIDE DEF cs
    <3> QED BY <2>1, <2>3, SdkCallCore, SdkFaultCore
  <2>5. SemaphoresOK'
    <3>1. semaphores[h] \in {NoSemaphore} \cup (0..MaxCount)
      BY <1>0 DEF SemaphoresOK
    <3>2. semaphores[h] > 0 => semaphores[h] - 1 \in 0..MaxCount
      BY <3>1 DEF NoSemaphore
    <3>3. /\ next_semaphore_handle' = next_semaphore_handle
          /\ \/ semaphores' = semaphores
             \/ /\ semaphores[h] > 0
                /\ semaphores' = [semaphores EXCEPT ![h] = semaphores[h] - 1]
      BY <1>12 DEF SemPend
    <3>4. QED
      BY <1>0, <3>2, <3>3 DEF SemaphoresOK
  <2>6. QED
    BY <1>12, <2>4, <2>5, <1>a, <1>c DEF SemPend
<1>13. ASSUME NEW h \in Handles, SemPost(h) PROVE CoreInv'
  <2> DEFINE woken == [i \in DOMAIN contexts |->
                         IF i \in Woken(h) THEN [contexts[i] EXCEPT !.wait = NoWait]
                         ELSE contexts[i]]
             cs == IF semaphores[h] = NoSemaphore THEN contexts ELSE woken
  <2>1. phase = "run" /\ SdkCall(cs, FALSE)
    BY <1>13 DEF SemPost, Calling
  <2>2. cs \in Seq(Context) /\ Len(cs) >= Len(contexts)
    <3>1. woken \in Seq(Context) /\ Len(woken) = Len(contexts)
      BY <1>0, ChosenType
    <3> HIDE DEF woken
    <3> QED BY <1>0, <3>1
  <2>3. CoreLoop'
    <3> HIDE DEF cs
    <3> QED BY <2>1, <2>2, SdkCallCore
  <2>4. SemaphoresOK'
    <3>1. semaphores[h] \in 0..(MaxCount - 1) => semaphores[h] + 1 \in 0..MaxCount
      OBVIOUS
    <3>2. /\ next_semaphore_handle' = next_semaphore_handle
          /\ \/ semaphores' = semaphores
             \/ /\ semaphores[h] \in 0..(MaxCount - 1)
                /\ semaphores' = [semaphores EXCEPT ![h] = semaphores[h] + 1]
      BY <1>13 DEF SemPost
    <3>3. QED
      BY <1>0, <3>1, <3>2 DEF SemaphoresOK
  <2>5. QED
    BY <1>13, <2>3, <2>4, <1>a, <1>c DEF SemPost
<1>14. ASSUME NEW h \in Handles, SemDel(h) PROVE CoreInv'
  <2>1. phase = "run" /\ CoreLoop'
    BY <1>14, <1>d DEF SemDel, Calling
  <2>2. SemaphoresOK'
    BY <1>0, <1>14 DEF SemDel, SemaphoresOK, Handles, NoSemaphore
  <2>3. QED
    BY <1>14, <2>1, <2>2, <1>a, <1>c DEF SemDel
<1>15. CASE Delay
  <2>1. PICK n \in 0..MaxDelay :
          SdkCall(IF n = 0 THEN contexts
                  ELSE [contexts EXCEPT ![scheduler_cursor].wait = UntilCycle(n)], FALSE)
    BY <1>15 DEF Delay
  <2>2. phase = "run" /\ UNCHANGED <<semVars, audioVars>>
    BY <1>15 DEF Delay, Calling
  <2>3. UntilCycle(n) \in Wait
    BY DEF UntilCycle, Wait
  <2> DEFINE cs == IF n = 0 THEN contexts
                   ELSE [contexts EXCEPT ![scheduler_cursor].wait = UntilCycle(n)]
  <2>6. cs \in Seq(Context) /\ Len(cs) >= Len(contexts)
    <3> DEFINE new == [contexts EXCEPT ![scheduler_cursor].wait = UntilCycle(n)]
    <3>1. scheduler_cursor \in DOMAIN contexts
      BY <1>e, <2>2 DEF InSlice
    <3>2. new \in Seq(Context) /\ Len(new) = Len(contexts)
      BY <1>0, <2>3, <3>1, UpdateWait
    <3> HIDE DEF new
    <3>3. cs = new \/ cs = contexts
      BY DEF new
    <3> HIDE DEF cs
    <3>4. QED
      BY <1>0, <3>2, <3>3
  <2>7. SdkCall(cs, FALSE)
    BY <2>1
  <2>4. CoreLoop'
    <3> HIDE DEF cs
    <3> QED BY <2>2, <2>6, <2>7, SdkCallCore
  <2>5. QED
    BY <2>2, <2>4, <1>a, <1>b, <1>c
<1>16. CASE WaveoutWrite
  <2>1. /\ phase = "run" /\ UNCHANGED <<semVars, audible>>
        /\ \/ queued' = queued \/ queued' = queued + 1
           \/ ~CanWrite /\ queued' = queued - 1
    BY <1>16 DEF WaveoutWrite
  <2> DEFINE wr == [contexts EXCEPT ![scheduler_cursor].at = "code"]
             df == [contexts EXCEPT ![scheduler_cursor].wait = AudioWrite,
                                    ![scheduler_cursor].at = "waveout_write"]
             rt == [contexts EXCEPT ![scheduler_cursor].at = "waveout_write"]
  <2>2. SdkCall(wr, FALSE) \/ SdkCall(df, FALSE) \/ SdkCall(rt, FALSE)
    BY <1>16 DEF WaveoutWrite
  <2>0. scheduler_cursor \in DOMAIN contexts
    BY <1>e, <2>1 DEF InSlice
  <2>3. wr \in Seq(Context) /\ Len(wr) = Len(contexts)
        /\ rt \in Seq(Context) /\ Len(rt) = Len(contexts)
    BY <1>0, <2>0, UpdateAt
  <2>4. df \in Seq(Context) /\ Len(df) = Len(contexts)
    BY <1>0, <2>0, DeferredType
  <2>5. CoreLoop'
    <3> HIDE DEF wr, df, rt
    <3>1. FALSE \in BOOLEAN /\ Len(contexts) >= Len(contexts)
      BY <1>0
    <3>2. ASSUME SdkCall(wr, FALSE) PROVE CoreLoop'
      BY <2>1, <2>3, <3>1, <3>2, SdkCallCore
    <3>3. ASSUME SdkCall(df, FALSE) PROVE CoreLoop'
      BY <2>1, <2>4, <3>1, <3>3, SdkCallCore
    <3>4. ASSUME SdkCall(rt, FALSE) PROVE CoreLoop'
      BY <2>1, <2>3, <3>1, <3>4, SdkCallCore
    <3>5. QED
      BY <2>2, <3>2, <3>3, <3>4
  <2>6. AudioOK'
    <3>1. ~CanWrite => queued >= 1
      BY <1>0 DEF CanWrite, AudioOK
    <3>2. QED
      BY <1>0, <2>1, <3>1 DEF AudioOK
  <2>7. QED
    BY <2>1, <2>5, <2>6, <1>a, <1>b
<1>17. CASE AudioControl
  <2>1. phase = "run" /\ CoreLoop' /\ UNCHANGED semVars /\ AudioOK'
    BY <1>0, <1>17, <1>d DEF AudioControl, Calling, AudioOK
  <2>2. QED
    BY <2>1, <1>a, <1>b
<1>18. CASE DrainAudio
  <2>1. AudioOK'
    BY <1>0, <1>18 DEF DrainAudio, AudioOK
  <2>2. CoreLoop'
    BY <1>0, <1>18
       DEF DrainAudio, CoreLoop, LoopOK, FrameAccounting, LoopInv, InSlice, loopVars, Slice
  <2>3. QED
    BY <1>18, <2>1, <2>2, <1>a, <1>b DEF DrainAudio
<1>19. CASE SliceEnd
  <2>1. /\ phase = "account" /\ phase' = "pick"
        /\ scheduler_cursor' = NextCursor
        /\ remaining_cycles' = remaining_cycles - ChargedCycles
        /\ frame_cycles' = frame_cycles + SkippedCycles
        /\ contexts' = Elapse(contexts, SkippedCycles)
        /\ executed' = 0
        /\ UNCHANGED <<semVars, context_count, framebuffer_submitted, audioVars>>
    BY <1>19 DEF SliceEnd
  <2>2. /\ Slice \in Nat /\ executed <= Slice /\ Slice <= remaining_cycles
        /\ remaining_cycles \in Nat /\ executed \in Nat
    BY <1>0, <2>1 DEF LoopOK, InSlice, Slice
  <2>3. /\ SkippedCycles \in Nat /\ ChargedCycles \in 0..remaining_cycles
        /\ ChargedCycles = SkippedCycles + executed
        /\ framebuffer_submitted => ChargedCycles = remaining_cycles
    BY <2>2 DEF SkippedCycles, ChargedCycles, IdleCycles, AllIdle
  <2>4. contexts' \in Seq(Context) /\ Len(contexts') = Len(contexts)
    BY <1>0, <2>1, <2>3, ElapseType
  <2>5. idle_contexts' \in Nat /\ scheduler_cursor' \in Nat \ {0}
    BY <1>0, <1>19, <2>1 DEF SliceEnd, LoopOK, NextCursor
  <2>6. CoreLoop'
    BY <1>0, <2>1, <2>2, <2>3, <2>4, <2>5
       DEF CoreLoop, LoopOK, FrameAccounting, LoopInv, InSlice
  <2>7. QED
    BY <2>1, <2>6, <1>a, <1>b, <1>c
<1>20. CASE TickEnd
  <2>1. /\ phase = "pick" /\ phase' = "host" /\ remaining_cycles = 0
        /\ framebuffer_submitted' = TRUE
        /\ UNCHANGED <<semVars, loopVars, executed, frame_cycles, audioVars>>
    BY <1>20 DEF TickEnd
  <2>2. contexts' \in Seq(Context) /\ Len(contexts') >= 1
    <3>0. PICK n \in 1..Len(contexts) : \E at \in [1..n -> Kept] :
            contexts' = [i \in 1..n |-> contexts[at[i]]]
      BY <1>20 DEF TickEnd, Retain
    <3>1. PICK at \in [1..n -> Kept] : contexts' = [i \in 1..n |-> contexts[at[i]]]
      BY <3>0
    <3>2. Kept \subseteq DOMAIN contexts
      BY <1>0 DEF Kept, Tasks, LoopOK
    <3>3. \A i \in 1..n : contexts[at[i]] \in Context
      BY <1>0, <3>2
    <3>4. QED
      BY <1>0, <3>1, <3>3
  <2>3. CoreLoop'
    BY <1>0, <2>1, <2>2
       DEF CoreLoop, LoopOK, FrameAccounting, LoopInv, InSlice, loopVars
  <2>4. QED
    BY <2>1, <2>3, <1>a, <1>b, <1>c
<1>21. CASE UNCHANGED vars
  <2>1. CoreLoop'
    BY <1>0, <1>21
       DEF CoreLoop, LoopOK, FrameAccounting, LoopInv, InSlice, loopVars, vars, Slice
  <2>2. QED
    BY <1>21, <2>1, <1>a, <1>b, <1>c DEF vars
<1>22. QED
  BY <1>1, <1>2, <1>3, <1>4, <1>5, <1>6, <1>7, <1>8, <1>9, <1>10, <1>11, <1>12, <1>13,
     <1>14, <1>15, <1>16, <1>17, <1>18, <1>19, <1>20, <1>21
     DEF Next, Tick, SliceStep, SemaphoreCall

\* Every reachable state is well typed and accounts for the frame's time.
LEMMA CoreInvariant == Spec => []CoreInv
<1>1. QED
  BY CoreInit, CoreNext, PTL DEF Spec

\* The unsigned arithmetic of tick never underflows and the scheduler's index is
\* in range, for every instance.
THEOREM TypeCorrect == Spec => []TypeOK
<1>1. CoreInv => TypeOK
  BY DEF CoreInv
<1>2. QED
  BY <1>1, CoreInvariant, PTL

\* A frame is FrameCycles long, for every instance.
THEOREM FrameAccountingHolds == Spec => []FrameAccounting
<1>1. CoreInv => FrameAccounting
  BY DEF CoreInv
<1>2. QED
  BY <1>1, CoreInvariant, PTL

(***************************************************************************)
(* What Scheduler promises to contexts that wait: the one that executes    *)
(* waits for nothing, no wakeup is lost, and time passes idle only when    *)
(* nobody could have run.                                                  *)
(***************************************************************************)

-----------------------------------------------------------------------------
(* A post finds somebody to wake.                                         *)

\* post_semaphore finds somebody to wake whenever somebody waits: the main
\* program, or the first of the tasks with the least priority number.
LEMMA SomeoneWoken ==
  ASSUME CoreInv, NEW h \in Handles, Waiters(h) # {}
  PROVE  Woken(h) # {}
<1>1. contexts \in Seq(Context) /\ Waiters(h) \subseteq DOMAIN contexts
      /\ \A i \in Waiters(h) : contexts[i].prio \in Nat /\ i \in Nat
  <2>1. contexts \in Seq(Context) /\ Waiters(h) \subseteq DOMAIN contexts
    BY DEF CoreInv, TypeOK, LoopOK, Waiters
  <2>2. \A c \in Context : c.prio \in Nat
    BY DEF Context
  <2>3. \A i \in DOMAIN contexts : contexts[i] \in Context /\ i \in Nat
    BY <2>1
  <2>4. QED
    BY <2>1, <2>2, <2>3
<1>2. CASE 1 \in Waiters(h)
  BY <1>2 DEF Woken
<1>3. CASE 1 \notin Waiters(h)
  <2>1. PICK p \in {contexts[i].prio : i \in Waiters(h)} :
          \A q \in {contexts[i].prio : i \in Waiters(h)} : p <= q
    BY <1>1, LeastNatural
  <2> DEFINE First == {i \in Waiters(h) : contexts[i].prio = p}
  <2>2. PICK i \in First : \A j \in First : i <= j
    <3>1. First \subseteq Nat /\ First # {}
      BY <1>1, <2>1
    <3> HIDE DEF First
    <3>2. QED
      BY <3>1, LeastNatural
  <2>3. p \in Nat
    BY <1>1, <2>1
  <2>4. ASSUME NEW j \in Waiters(h)
        PROVE  \/ j # 1 /\ contexts[i].prio < contexts[j].prio
               \/ j # 1 /\ contexts[i].prio = contexts[j].prio /\ i <= j
    <3>1. contexts[i].prio = p /\ contexts[j].prio \in Nat /\ p <= contexts[j].prio
      BY <1>1, <2>1, <2>2
    <3>2. j # 1
      BY <1>3
    <3>3. QED
      BY <2>2, <2>3, <3>1, <3>2
  <2>5. QED
    BY <2>2, <2>4 DEF Woken
<1>4. QED
  BY <1>2, <1>3

-----------------------------------------------------------------------------
(* What an SDK call leaves behind.                                         *)

\* Whatever the handler made of the contexts (cs), the cost of the call and the
\* look at the caller change only waits, and the slice goes on only with a
\* caller that does not wait.
LEMMA SdkCallEffect ==
  ASSUME CoreInv, phase = "run",
         NEW cs \in Seq(Context), Len(cs) >= Len(contexts),
         NEW sub \in BOOLEAN, SdkCall(cs, sub)
  PROVE  /\ phase' \in {"run", "account"} /\ executed' > 0
         /\ scheduler_cursor' = scheduler_cursor
         /\ phase' = "run" => contexts'[scheduler_cursor].wait.kind = "none"
         /\ DOMAIN contexts' = DOMAIN cs
         /\ \A i \in DOMAIN cs :
              /\ contexts'[i].cpu = cs[i].cpu
              /\ contexts'[i].at = cs[i].at
              /\ \/ contexts'[i].wait = AgedWait(cs[i].wait, 1)
                 \/ /\ i = scheduler_cursor /\ sub = FALSE
                    /\ Satisfied(AgedWait(cs[i].wait, 1))
                    /\ contexts'[i].wait = NoWait
         /\ sub = FALSE =>
              ~Satisfied(contexts'[scheduler_cursor].wait)
<1> DEFINE aged   == Elapse(cs, 1)
           polled == IF sub THEN aged ELSE Polled(aged, scheduler_cursor)
<1>0. phase' \in {"run", "account"} /\ executed' > 0
  BY SdkCallCore
<1>1. scheduler_cursor \in DOMAIN cs
  BY DEF CoreInv, TypeOK, LoopOK, InSlice
<1>2. /\ aged \in Seq(Context)
      /\ DOMAIN aged = DOMAIN cs
      /\ \A i \in DOMAIN cs :
           /\ aged[i].cpu = cs[i].cpu /\ aged[i].at = cs[i].at
           /\ aged[i].wait = AgedWait(cs[i].wait, 1)
  BY ElapseType
<1>3. /\ contexts' = polled
      /\ phase' = IF SliceEnds(polled, sub) THEN "account" ELSE AfterUnits(1)
      /\ scheduler_cursor' = scheduler_cursor
  BY DEF SdkCall, loopVars
<1>4. ~Satisfied(NoWait)
  BY DEF Satisfied, NoWait
<1>5. /\ DOMAIN polled = DOMAIN cs
      /\ \A i \in DOMAIN cs :
           /\ polled[i].cpu = aged[i].cpu /\ polled[i].at = aged[i].at
           /\ \/ polled[i].wait = aged[i].wait
              \/ /\ i = scheduler_cursor /\ sub = FALSE
                 /\ Satisfied(aged[i].wait)
                 /\ polled[i].wait = NoWait
      /\ sub = FALSE => ~Satisfied(polled[scheduler_cursor].wait)
  <2> HIDE DEF aged
  <2>1. CASE sub = TRUE
    BY <1>2, <2>1
  <2>2. CASE sub = FALSE
    <3> DEFINE ps == Polled(aged, scheduler_cursor)
    <3>1. /\ DOMAIN ps = DOMAIN aged
          /\ \A j \in DOMAIN aged : j # scheduler_cursor => ps[j] = aged[j]
          /\ ps[scheduler_cursor].cpu = aged[scheduler_cursor].cpu
          /\ ps[scheduler_cursor].at = aged[scheduler_cursor].at
          /\ ps[scheduler_cursor].wait = IF Satisfied(aged[scheduler_cursor].wait)
                                         THEN NoWait ELSE aged[scheduler_cursor].wait
      BY <1>1, <1>2, PolledType
    <3>2. polled = ps
      BY <2>2
    <3> HIDE DEF ps, polled
    <3>3. QED
      BY <1>1, <1>2, <1>4, <2>2, <3>1, <3>2
  <2>3. QED
    BY <2>1, <2>2
<1>6. phase' = "run" => contexts'[scheduler_cursor].wait.kind = "none"
  <2> HIDE DEF polled
  <2> QED BY <1>3 DEF SliceEnds
<1>7. QED
  <2> HIDE DEF aged, polled
  <2> QED BY <1>0, <1>2, <1>3, <1>5, <1>6

-----------------------------------------------------------------------------
(* The handlers, by what they do to the waits.                             *)

\* No more than MAX_GUEST_TASKS tasks are made beside the main program.
WithinLimit(cs) == Len(cs) > Len(contexts) => Len(cs) <= MaxTasks + 1

\* cs keeps the wait and the place of every context, and stops, resumes and
\* wakes nobody; a new task waits for nothing.
Untouched(cs) ==
  /\ cs \in Seq(Context) /\ Len(cs) >= Len(contexts)
  /\ \A i \in DOMAIN contexts :
       /\ i \in DOMAIN cs
       /\ cs[i].wait = contexts[i].wait /\ cs[i].at = contexts[i].at
       /\ contexts[i].cpu = "stopped" => cs[i].cpu = "stopped"
  /\ WithinLimit(cs)
  /\ \A i \in DOMAIN cs \ DOMAIN contexts : cs[i].wait = NoWait /\ cs[i].at = "code"

\* cs differs from an untouched one at most in the caller's wait, which is w.
Waiting(cs, w) ==
  /\ cs \in Seq(Context) /\ Len(cs) = Len(contexts) /\ DOMAIN cs = DOMAIN contexts
  /\ scheduler_cursor \in DOMAIN cs
  /\ \A i \in DOMAIN contexts :
       /\ cs[i].at = contexts[i].at /\ cs[i].cpu = contexts[i].cpu
       /\ cs[i].wait = IF i = scheduler_cursor THEN w ELSE contexts[i].wait

PlainCall ==
  \/ OtherCall \/ SubmitFrame \/ StopSelf \/ CreateTask \/ DeleteTask
  \/ SemCreate \/ AudioControl \/ \E h \in Handles : SemDel(h)

LEMMA ActiveInRange ==
  ASSUME CoreInv, phase \in {"run", "account"}
  PROVE  /\ scheduler_cursor \in DOMAIN contexts /\ contexts \in Seq(Context)
         /\ Active \in Context
BY DEF CoreInv, TypeOK, LoopOK, InSlice, Active

LEMMA PlainCallEffect ==
  ASSUME CoreInv, PlainCall
  PROVE  /\ phase = "run" /\ Active.at = "code"
         /\ \E cs : /\ Untouched(cs)
                    /\ SdkCall(cs, FALSE) \/ SdkCall(cs, TRUE) \/ SdkFault(cs)
<1>1. phase = "run" /\ Active.at = "code"
  BY DEF PlainCall, OtherCall, SubmitFrame, StopSelf, CreateTask, DeleteTask,
         SemCreate, AudioControl, SemDel, Calling
<1>2. scheduler_cursor \in DOMAIN contexts /\ contexts \in Seq(Context)
  BY <1>1, ActiveInRange
<1>3. Untouched(contexts)
  BY <1>2 DEF Untouched, WithinLimit
<1>4. CASE OtherCall \/ SubmitFrame \/ SemCreate \/ AudioControl \/ \E h \in Handles : SemDel(h)
  <2>1. SdkCall(contexts, FALSE) \/ SdkCall(contexts, TRUE) \/ SdkFault(contexts)
    BY <1>4 DEF OtherCall, SubmitFrame, SemCreate, AudioControl, SemDel
  <2>2. QED
    BY <1>1, <1>3, <2>1
<1>5. CASE StopSelf
  <2> DEFINE cs == [contexts EXCEPT ![scheduler_cursor].cpu = "stopped"]
  <2>1. SdkCall(cs, FALSE)
    BY <1>5 DEF StopSelf
  <2>2. cs \in Seq(Context) /\ Len(cs) = Len(contexts)
    BY <1>2, UpdateCpu
  <2>3. \A c \in Context : LET d == [c EXCEPT !.cpu = "stopped"]
                           IN d.wait = c.wait /\ d.at = c.at /\ d.cpu = "stopped"
    BY DEF Context
  <2>4. \A i \in DOMAIN contexts :
          /\ cs[i] = IF i = scheduler_cursor THEN [contexts[i] EXCEPT !.cpu = "stopped"]
                     ELSE contexts[i]
          /\ contexts[i] \in Context
    BY <1>2
  <2>5. \A i \in DOMAIN contexts :
          /\ cs[i].wait = contexts[i].wait /\ cs[i].at = contexts[i].at
          /\ contexts[i].cpu = "stopped" => cs[i].cpu = "stopped"
    <3> HIDE DEF cs
    <3> QED BY <2>3, <2>4
  <2>6. Untouched(cs)
    <3> HIDE DEF cs
    <3> QED BY <1>2, <2>2, <2>5 DEF Untouched, WithinLimit
  <2>7. QED
    <3> HIDE DEF cs
    <3> QED BY <1>1, <2>1, <2>6
<1>6. CASE CreateTask
  <2>1. PICK p \in Priorities :
          SdkCall(IF Len(contexts) <= MaxTasks
                  THEN Append(contexts, NewTask(p)) ELSE contexts, FALSE)
    BY <1>6 DEF CreateTask
  <2>2. NewTask(p) \in Context /\ NewTask(p).wait = NoWait /\ NewTask(p).at = "code"
    BY SchedulerAssumption DEF NewTask, Context, NoWait, Wait
  <2> DEFINE new == Append(contexts, NewTask(p))
  <2>3. /\ new \in Seq(Context) /\ Len(new) = Len(contexts) + 1
        /\ \A i \in DOMAIN contexts : i \in DOMAIN new /\ new[i] = contexts[i]
        /\ \A i \in DOMAIN new \ DOMAIN contexts : new[i] = NewTask(p)
    BY <1>2, <2>2
  <2>4. Len(contexts) <= MaxTasks => Untouched(new)
    <3> HIDE DEF new
    <3>1. Len(contexts) <= MaxTasks => Len(new) <= MaxTasks + 1
      BY <1>2, <2>3, SchedulerAssumption
    <3>2. QED
      BY <1>2, <2>2, <2>3, <3>1 DEF Untouched, WithinLimit
  <2>5. (Len(contexts) <= MaxTasks /\ SdkCall(new, FALSE)) \/ SdkCall(contexts, FALSE)
    BY <2>1
  <2>6. QED
    <3> HIDE DEF new
    <3> QED BY <1>1, <1>3, <2>4, <2>5
<1>7. CASE DeleteTask
  <2>1. PICK p \in Priorities :
          SdkCall([i \in DOMAIN contexts |->
                     IF i \in Deleted(p) THEN [contexts[i] EXCEPT !.cpu = "stopped"]
                     ELSE contexts[i]], FALSE)
    BY <1>7 DEF DeleteTask
  <2> DEFINE cs == [i \in DOMAIN contexts |->
                     IF i \in Deleted(p) THEN [contexts[i] EXCEPT !.cpu = "stopped"]
                     ELSE contexts[i]]
  <2>2. cs \in Seq(Context) /\ Len(cs) = Len(contexts)
    BY <1>2, ChosenType
  <2>3. \A c \in Context : LET d == [c EXCEPT !.cpu = "stopped"]
                           IN d.wait = c.wait /\ d.at = c.at /\ d.cpu = "stopped"
    BY DEF Context
  <2>4. \A i \in DOMAIN contexts :
          /\ cs[i] = [contexts[i] EXCEPT !.cpu = "stopped"] \/ cs[i] = contexts[i]
          /\ contexts[i] \in Context
    BY <1>2
  <2>5. \A i \in DOMAIN contexts :
          /\ cs[i].wait = contexts[i].wait /\ cs[i].at = contexts[i].at
          /\ contexts[i].cpu = "stopped" => cs[i].cpu = "stopped"
    <3> HIDE DEF cs
    <3> QED BY <2>3, <2>4
  <2>6. SdkCall(cs, FALSE)
    BY <2>1
  <2>7. Untouched(cs)
    <3> HIDE DEF cs
    <3> QED BY <1>2, <2>2, <2>5 DEF Untouched, WithinLimit
  <2>8. QED
    <3> HIDE DEF cs
    <3> QED BY <1>1, <2>6, <2>7
<1>8. QED
  BY <1>4, <1>5, <1>6, <1>7 DEF PlainCall

LEMMA SetWait ==
  ASSUME NEW w \in Wait, contexts \in Seq(Context), scheduler_cursor \in DOMAIN contexts
  PROVE  Waiting([contexts EXCEPT ![scheduler_cursor].wait = w], w)
<1> DEFINE cs == [contexts EXCEPT ![scheduler_cursor].wait = w]
<1>1. cs \in Seq(Context) /\ Len(cs) = Len(contexts)
  BY UpdateWait
<1>2. \A c \in Context : LET d == [c EXCEPT !.wait = w]
                         IN d.wait = w /\ d.at = c.at /\ d.cpu = c.cpu
  BY DEF Context
<1>3. /\ DOMAIN cs = DOMAIN contexts
      /\ \A i \in DOMAIN contexts :
           /\ cs[i] = IF i = scheduler_cursor THEN [contexts[i] EXCEPT !.wait = w]
                      ELSE contexts[i]
           /\ contexts[i] \in Context
  OBVIOUS
<1>4. QED
  <2> HIDE DEF cs
  <2>1. Waiting(cs, w)
    BY <1>1, <1>2, <1>3 DEF Waiting
  <2>2. QED
    BY <2>1 DEF cs

LEMMA SemPendEffect ==
  ASSUME CoreInv, NEW h \in Handles, SemPend(h)
  PROVE  /\ phase = "run" /\ Active.at = "code"
         /\ \E cs : /\ \/ semaphores[h] # 0 /\ cs = contexts
                       \/ semaphores[h] = 0 /\ Waiting(cs, Semaphore(h))
                    /\ SdkCall(cs, FALSE) \/ SdkFault(cs)
<1>1. phase = "run" /\ Active.at = "code"
  BY DEF SemPend, Calling
<1>2. scheduler_cursor \in DOMAIN contexts /\ contexts \in Seq(Context)
  BY <1>1, ActiveInRange
<1>3. Semaphore(h) \in Wait
  BY SchedulerAssumption DEF Semaphore, Wait, Handles
<1> DEFINE new == [contexts EXCEPT ![scheduler_cursor].wait = Semaphore(h)]
           cs == IF semaphores[h] = 0 THEN new ELSE contexts
<1>4. Waiting(new, Semaphore(h))
  BY <1>2, <1>3, SetWait
<1>5. SdkCall(cs, FALSE) \/ SdkFault(cs)
  BY DEF SemPend
<1>6. \/ semaphores[h] # 0 /\ cs = contexts
      \/ semaphores[h] = 0 /\ cs = new
  OBVIOUS
<1>7. QED
  <2> HIDE DEF new, cs
  <2> QED BY <1>1, <1>4, <1>5, <1>6

LEMMA DelayEffect ==
  ASSUME CoreInv, Delay
  PROVE  /\ phase = "run" /\ Active.at = "code"
         /\ \E cs : /\ cs = contexts \/ \E n \in Nat : Waiting(cs, UntilCycle(n))
                    /\ SdkCall(cs, FALSE)
<1>1. phase = "run" /\ Active.at = "code"
  BY DEF Delay, Calling
<1>2. scheduler_cursor \in DOMAIN contexts /\ contexts \in Seq(Context)
  BY <1>1, ActiveInRange
<1>3. PICK n \in 0..MaxDelay :
          SdkCall(IF n = 0 THEN contexts
                  ELSE [contexts EXCEPT ![scheduler_cursor].wait = UntilCycle(n)], FALSE)
  BY DEF Delay
<1>4. UntilCycle(n) \in Wait /\ n \in Nat
  BY SchedulerAssumption DEF UntilCycle, Wait
<1> DEFINE new == [contexts EXCEPT ![scheduler_cursor].wait = UntilCycle(n)]
<1>5. Waiting(new, UntilCycle(n))
  BY <1>2, <1>4, SetWait
<1>6. SdkCall(new, FALSE) \/ SdkCall(contexts, FALSE)
  BY <1>3
<1>7. QED
  <2> HIDE DEF new
  <2> QED BY <1>1, <1>4, <1>5, <1>6

LEMMA SemPostEffect ==
  ASSUME CoreInv, NEW h \in Handles, SemPost(h)
  PROVE  /\ phase = "run" /\ Active.at = "code"
         /\ \E cs \in Seq(Context) :
              /\ Len(cs) = Len(contexts) /\ DOMAIN cs = DOMAIN contexts
              /\ \A i \in DOMAIN contexts :
                   /\ cs[i].at = contexts[i].at /\ cs[i].cpu = contexts[i].cpu
                   /\ \/ cs[i].wait = contexts[i].wait
                      \/ /\ contexts[i].wait = Semaphore(h) /\ i \in Woken(h)
                         /\ cs[i].wait = NoWait
              /\ SdkCall(cs, FALSE)
<1>1. phase = "run" /\ Active.at = "code"
  BY DEF SemPost, Calling
<1>2. contexts \in Seq(Context)
  BY <1>1, ActiveInRange
<1> DEFINE new == [i \in DOMAIN contexts |->
                     IF i \in Woken(h) THEN [contexts[i] EXCEPT !.wait = NoWait]
                     ELSE contexts[i]]
           cs == IF semaphores[h] = NoSemaphore THEN contexts ELSE new
<1>3. new \in Seq(Context) /\ Len(new) = Len(contexts)
  BY <1>2, ChosenType
<1>4. \A c \in Context : LET d == [c EXCEPT !.wait = NoWait]
                         IN d.wait = NoWait /\ d.at = c.at /\ d.cpu = c.cpu
  BY DEF Context
<1>5. /\ DOMAIN new = DOMAIN contexts
      /\ \A i \in DOMAIN contexts :
           /\ new[i] = IF i \in Woken(h) THEN [contexts[i] EXCEPT !.wait = NoWait]
                       ELSE contexts[i]
           /\ contexts[i] \in Context
           /\ i \in Woken(h) => contexts[i].wait = Semaphore(h)
  BY <1>2 DEF Woken, Waiters
<1>6. SdkCall(cs, FALSE)
  BY DEF SemPost
<1>7. cs = contexts \/ cs = new
  OBVIOUS
<1> HIDE DEF new, cs
<1>8. \A i \in DOMAIN contexts :
        /\ new[i].at = contexts[i].at /\ new[i].cpu = contexts[i].cpu
        /\ \/ new[i].wait = contexts[i].wait
           \/ contexts[i].wait = Semaphore(h) /\ i \in Woken(h) /\ new[i].wait = NoWait
  BY <1>4, <1>5
<1>9. QED
  BY <1>1, <1>2, <1>3, <1>5, <1>6, <1>7, <1>8

LEMMA WriteEffect ==
  ASSUME CoreInv, WaveoutWrite
  PROVE  /\ phase = "run"
         /\ \E cs \in Seq(Context) :
              /\ Len(cs) = Len(contexts) /\ DOMAIN cs = DOMAIN contexts
              /\ SdkCall(cs, FALSE)
              /\ \A i \in DOMAIN contexts :
                   /\ cs[i].cpu = contexts[i].cpu
                   /\ i # scheduler_cursor => cs[i] = contexts[i]
              /\ \/ /\ CanWrite
                    /\ cs[scheduler_cursor].at = "code"
                    /\ cs[scheduler_cursor].wait = Active.wait
                 \/ /\ ~CanWrite /\ queued' = queued
                    /\ cs[scheduler_cursor].at = "waveout_write"
                    /\ cs[scheduler_cursor].wait = AudioWrite
                 \/ /\ ~CanWrite /\ AsyncPlayer
                    /\ cs[scheduler_cursor].at = "waveout_write"
                    /\ cs[scheduler_cursor].wait = Active.wait
<1>1. phase = "run"
  BY DEF WaveoutWrite
<1>2. scheduler_cursor \in DOMAIN contexts /\ contexts \in Seq(Context) /\ Active \in Context
  BY <1>1, ActiveInRange
<1>3. \A c \in Context, a \in {"code", "waveout_write"} :
        /\ LET d == [c EXCEPT !.at = a]
           IN  d.at = a /\ d.wait = c.wait /\ d.cpu = c.cpu
        /\ LET d == [c EXCEPT !.wait = AudioWrite, !.at = a]
           IN  d.at = a /\ d.wait = AudioWrite /\ d.cpu = c.cpu
  BY DEF Context
<1> DEFINE wr == [contexts EXCEPT ![scheduler_cursor].at = "code"]
           df == [contexts EXCEPT ![scheduler_cursor].wait = AudioWrite,
                                  ![scheduler_cursor].at = "waveout_write"]
           rt == [contexts EXCEPT ![scheduler_cursor].at = "waveout_write"]
           Rest(cs) == /\ cs \in Seq(Context) /\ Len(cs) = Len(contexts)
                       /\ DOMAIN cs = DOMAIN contexts
                       /\ \A i \in DOMAIN contexts :
                            i # scheduler_cursor => cs[i] = contexts[i]
<1>4. /\ wr[scheduler_cursor] = [Active EXCEPT !.at = "code"]
      /\ rt[scheduler_cursor] = [Active EXCEPT !.at = "waveout_write"]
      /\ df[scheduler_cursor] = [Active EXCEPT !.wait = AudioWrite, !.at = "waveout_write"]
  BY <1>2 DEF Active
<1>5. Rest(wr) /\ Rest(rt)
  BY <1>2, UpdateAt
<1>6. Rest(df)
  BY <1>2, DeferredType
<1>7. \/ CanWrite /\ SdkCall(wr, FALSE)
      \/ ~CanWrite /\ queued' = queued /\ SdkCall(df, FALSE)
      \/ ~CanWrite /\ AsyncPlayer /\ SdkCall(rt, FALSE)
  BY DEF WaveoutWrite
<1> HIDE DEF wr, df, rt
<1>8. /\ wr[scheduler_cursor].at = "code" /\ wr[scheduler_cursor].wait = Active.wait
      /\ wr[scheduler_cursor].cpu = Active.cpu
      /\ rt[scheduler_cursor].at = "waveout_write" /\ rt[scheduler_cursor].wait = Active.wait
      /\ rt[scheduler_cursor].cpu = Active.cpu
      /\ df[scheduler_cursor].at = "waveout_write" /\ df[scheduler_cursor].wait = AudioWrite
      /\ df[scheduler_cursor].cpu = Active.cpu
  BY <1>2, <1>3, <1>4
<1>9. \A cs : Rest(cs) /\ cs[scheduler_cursor].cpu = Active.cpu =>
              \A i \in DOMAIN contexts : cs[i].cpu = contexts[i].cpu
  BY <1>2 DEF Active
<1>10. CASE CanWrite /\ SdkCall(wr, FALSE)
  BY <1>1, <1>5, <1>8, <1>9, <1>10
<1>11. CASE ~CanWrite /\ queued' = queued /\ SdkCall(df, FALSE)
  BY <1>1, <1>6, <1>8, <1>9, <1>11
<1>12. CASE ~CanWrite /\ AsyncPlayer /\ SdkCall(rt, FALSE)
  BY <1>1, <1>5, <1>8, <1>9, <1>12
<1>13. QED
  BY <1>7, <1>10, <1>11, <1>12

SdkAction == PlainCall \/ SemaphoreCall \/ Delay \/ WaveoutWrite

\* A handler leaves the contexts as cs: it keeps or adds to them, and then the
\* call is accounted for or fails.
Called(cs) ==
  /\ cs \in Seq(Context) /\ Len(cs) >= Len(contexts) /\ WithinLimit(cs)
  /\ SdkCall(cs, FALSE) \/ SdkCall(cs, TRUE) \/ SdkFault(cs)

LEMMA SdkActionCalls ==
  ASSUME CoreInv, SdkAction
  PROVE  phase = "run" /\ \E cs : Called(cs)
<1>0. contexts \in Seq(Context) /\ Len(contexts) \in Nat
  BY DEF CoreInv, TypeOK, LoopOK
<1>1. CASE PlainCall
  <2>1. PICK cs : /\ Untouched(cs)
                  /\ SdkCall(cs, FALSE) \/ SdkCall(cs, TRUE) \/ SdkFault(cs)
    BY <1>1, PlainCallEffect
  <2>2. Called(cs)
    BY <2>1 DEF Untouched, Called
  <2>3. QED
    BY <1>1, <2>2, PlainCallEffect
<1>2. CASE \E h \in Handles : SemPend(h)
  <2>1. PICK h \in Handles : SemPend(h)
    BY <1>2
  <2>2. PICK cs : /\ cs = contexts \/ Waiting(cs, Semaphore(h))
                  /\ SdkCall(cs, FALSE) \/ SdkFault(cs)
    BY <2>1, SemPendEffect
  <2>a. cs \in Seq(Context) /\ Len(cs) >= Len(contexts)
    BY <1>0, <2>2 DEF Waiting
  <2>b. WithinLimit(cs)
    BY <1>0, <2>2 DEF Waiting, WithinLimit
  <2>3. Called(cs)
    BY <2>2, <2>a, <2>b DEF Called
  <2>4. QED
    BY <2>1, <2>3, SemPendEffect
<1>3. CASE \E h \in Handles : SemPost(h)
  <2>1. PICK h \in Handles : SemPost(h)
    BY <1>3
  <2>2. PICK cs \in Seq(Context) : Len(cs) = Len(contexts) /\ SdkCall(cs, FALSE)
    BY <2>1, SemPostEffect
  <2>a. Len(cs) >= Len(contexts) /\ WithinLimit(cs)
    BY <1>0, <2>2 DEF WithinLimit
  <2>3. Called(cs)
    BY <2>2, <2>a DEF Called
  <2>4. QED
    BY <2>1, <2>3, SemPostEffect
<1>4. CASE Delay
  <2>1. PICK cs : /\ cs = contexts \/ \E n \in Nat : Waiting(cs, UntilCycle(n))
                  /\ SdkCall(cs, FALSE)
    BY <1>4, DelayEffect
  <2>a. cs \in Seq(Context) /\ Len(cs) >= Len(contexts)
    BY <1>0, <2>1 DEF Waiting
  <2>b. WithinLimit(cs)
    BY <1>0, <2>1 DEF Waiting, WithinLimit
  <2>2. Called(cs)
    BY <2>1, <2>a, <2>b DEF Called
  <2>3. QED
    BY <1>4, <2>2, DelayEffect
<1>5. CASE WaveoutWrite
  <2>1. PICK cs \in Seq(Context) : Len(cs) = Len(contexts) /\ SdkCall(cs, FALSE)
    BY <1>5, WriteEffect
  <2>a. Len(cs) >= Len(contexts) /\ WithinLimit(cs)
    BY <1>0, <2>1 DEF WithinLimit
  <2>2. Called(cs)
    BY <2>1, <2>a DEF Called
  <2>3. QED
    BY <1>5, <2>2, WriteEffect
<1>6. QED
  BY <1>1, <1>2, <1>3, <1>4, <1>5 DEF SdkAction, SemaphoreCall, PlainCall

\* Every SDK call ends in the checks of run_active_cpu_slice, or in an error.
LEMMA SdkActionEffect ==
  ASSUME CoreInv, SdkAction
  PROVE  /\ phase = "run"
         /\ \/ phase' = "failed"
            \/ /\ phase' \in {"run", "account"} /\ executed' > 0
               /\ scheduler_cursor' = scheduler_cursor
               /\ phase' = "run" => contexts'[scheduler_cursor].wait.kind = "none"
<1>1. phase = "run" /\ \E cs : Called(cs)
  BY SdkActionCalls
<1>2. PICK cs : Called(cs)
  BY <1>1
<1>3. ASSUME NEW sub \in BOOLEAN, SdkCall(cs, sub)
      PROVE  /\ phase' \in {"run", "account"} /\ executed' > 0
             /\ scheduler_cursor' = scheduler_cursor
             /\ phase' = "run" => contexts'[scheduler_cursor].wait.kind = "none"
  BY <1>1, <1>2, <1>3, SdkCallEffect DEF Called
<1>4. TRUE \in BOOLEAN /\ FALSE \in BOOLEAN
  OBVIOUS
<1>5. SdkFault(cs) => phase' = "failed"
  BY DEF SdkFault
<1>6. QED
  BY <1>1, <1>2, <1>3, <1>4, <1>5 DEF Called

-----------------------------------------------------------------------------
(* The context that executes waits for nothing.                            *)

LEMMA AgedKind ==
  ASSUME NEW w \in Wait, NEW n \in Nat
  PROVE  /\ AgedWait(w, n).kind = w.kind
         /\ w.kind # "until" => AgedWait(w, n) = w
         /\ AgedWait(w, n) \in Wait
BY DEF AgedWait, UntilCycle, Wait

\* Steps in which time passes and at most the active context is stopped.
LEMMA ElapseWaits ==
  ASSUME contexts \in Seq(Context), NEW n \in Nat,
         \/ contexts' = Elapse(contexts, n)
         \/ contexts' = [Elapse(contexts, n) EXCEPT ![scheduler_cursor].cpu = "stopped"]
  PROVE  /\ DOMAIN contexts' = DOMAIN contexts
         /\ \A i \in DOMAIN contexts :
              /\ contexts'[i].wait = AgedWait(contexts[i].wait, n)
              /\ contexts'[i].at = contexts[i].at
              /\ contexts[i].cpu = "stopped" => contexts'[i].cpu = "stopped"
<1> DEFINE aged == Elapse(contexts, n)
<1>1. /\ aged \in Seq(Context) /\ DOMAIN aged = DOMAIN contexts
      /\ \A i \in DOMAIN contexts :
           /\ aged[i].wait = AgedWait(contexts[i].wait, n)
           /\ aged[i].at = contexts[i].at /\ aged[i].cpu = contexts[i].cpu
  BY ElapseType
<1>2. \A c \in Context : LET d == [c EXCEPT !.cpu = "stopped"]
                         IN d.wait = c.wait /\ d.at = c.at /\ d.cpu = "stopped"
  BY DEF Context
<1>3. contexts' = aged \/ contexts' = [aged EXCEPT ![scheduler_cursor].cpu = "stopped"]
  OBVIOUS
<1> HIDE DEF aged
<1>4. /\ DOMAIN contexts' = DOMAIN aged
      /\ \A i \in DOMAIN aged :
           /\ aged[i] \in Context
           /\ contexts'[i] = aged[i] \/ contexts'[i] = [aged[i] EXCEPT !.cpu = "stopped"]
  BY <1>1, <1>3
<1>5. ASSUME NEW i \in DOMAIN contexts
      PROVE  /\ contexts'[i].wait = AgedWait(contexts[i].wait, n)
             /\ contexts'[i].at = contexts[i].at
             /\ contexts[i].cpu = "stopped" => contexts'[i].cpu = "stopped"
  <2>1. aged[i] \in Context
        /\ (contexts'[i] = aged[i] \/ contexts'[i] = [aged[i] EXCEPT !.cpu = "stopped"])
    BY <1>1, <1>4
  <2>2. /\ contexts'[i].wait = aged[i].wait /\ contexts'[i].at = aged[i].at
        /\ contexts'[i].cpu = "stopped" \/ contexts'[i].cpu = aged[i].cpu
    BY <1>2, <2>1
  <2>3. QED
    BY <1>1, <2>2
<1>6. QED
  BY <1>1, <1>4, <1>5

\* The instructions of a slice.
LEMMA InstructionEffect ==
  ASSUME CoreInv, InstructionBlock \/ BreakBlock \/ UnknownInstruction
  PROVE  /\ phase = "run" /\ Active.at = "code"
         /\ UNCHANGED <<semVars, scheduler_cursor, queued, audible>>
         /\ DOMAIN contexts' = DOMAIN contexts
         /\ \E n \in Nat :
              /\ frame_cycles' = frame_cycles + n
              /\ \A i \in DOMAIN contexts :
                   /\ contexts'[i].wait = AgedWait(contexts[i].wait, n)
                   /\ contexts'[i].at = contexts[i].at
                   /\ contexts[i].cpu = "stopped" => contexts'[i].cpu = "stopped"
         /\ phase' \in {"failed", "spin"} \/ executed' > 0
<1>1. phase = "run" /\ Active.at = "code"
      /\ UNCHANGED <<semVars, scheduler_cursor, queued, audible>>
  BY DEF InstructionBlock, BreakBlock, UnknownInstruction, Running, loopVars, audioVars
<1>2. contexts \in Seq(Context)
  BY <1>1, ActiveInRange
<1>3. \/ phase' = "failed" /\ contexts' = contexts /\ frame_cycles' = frame_cycles
      \/ \E n \in Nat : /\ executed' > 0 /\ frame_cycles' = frame_cycles + n
                        /\ \/ contexts' = Elapse(contexts, n)
                           \/ contexts' = [Elapse(contexts, n) EXCEPT
                                             ![scheduler_cursor].cpu = "stopped"]
  <2>1. Slice \in Nat /\ executed \in Nat
    BY <1>1, SchedulerAssumption DEF CoreInv, TypeOK, LoopOK, Slice
  <2>2. CASE InstructionBlock \/ BreakBlock
    <3>1. PICK n \in 1..(Slice - executed) :
            /\ executed' = executed + n /\ frame_cycles' = frame_cycles + n
            /\ \/ contexts' = Elapse(contexts, n)
               \/ contexts' = [Elapse(contexts, n) EXCEPT ![scheduler_cursor].cpu = "stopped"]
      BY <2>2 DEF InstructionBlock, BreakBlock
    <3>2. n \in Nat /\ executed' > 0
      BY <2>1, <3>1
    <3>3. QED
      BY <3>1, <3>2
  <2>3. CASE UnknownInstruction
    <3>1. \/ phase' = "failed" /\ contexts' = contexts /\ frame_cycles' = frame_cycles
          \/ /\ executed' = executed + 1 /\ frame_cycles' = frame_cycles + 1
             /\ contexts' = Elapse(contexts, 1)
      BY <2>3 DEF UnknownInstruction
    <3>2. 1 \in Nat /\ executed + 1 > 0
      BY <2>1
    <3>3. QED
      BY <3>1, <3>2
  <2>4. QED
    BY <2>2, <2>3
<1>4. CASE phase' = "failed" /\ contexts' = contexts /\ frame_cycles' = frame_cycles
  <2>1. \A i \in DOMAIN contexts : contexts[i].wait = AgedWait(contexts[i].wait, 0)
    <3>1. \A c \in Context : c.wait = AgedWait(c.wait, 0)
      BY DEF Context, Wait, AgedWait, UntilCycle
    <3>2. QED
      BY <1>2, <3>1
  <2>2. 0 \in Nat /\ frame_cycles' = frame_cycles + 0
    BY <1>4 DEF CoreInv, TypeOK, LoopOK
  <2>3. QED
    BY <1>1, <1>4, <2>1, <2>2
<1>5. CASE \E n \in Nat : /\ executed' > 0 /\ frame_cycles' = frame_cycles + n
                          /\ \/ contexts' = Elapse(contexts, n)
                             \/ contexts' = [Elapse(contexts, n) EXCEPT
                                               ![scheduler_cursor].cpu = "stopped"]
  <2>1. PICK n \in Nat : /\ executed' > 0 /\ frame_cycles' = frame_cycles + n
                         /\ \/ contexts' = Elapse(contexts, n)
                            \/ contexts' = [Elapse(contexts, n) EXCEPT
                                              ![scheduler_cursor].cpu = "stopped"]
    BY <1>5
  <2>2. QED
    BY <1>1, <1>2, <2>1, ElapseWaits
<1>6. QED
  BY <1>3, <1>4, <1>5

LEMMA ActiveNext == CoreInv /\ ActiveNeverWaits /\ [Next]_vars => ActiveNeverWaits'
<1> SUFFICES ASSUME CoreInv, ActiveNeverWaits, [Next]_vars, phase' = "run"
             PROVE  contexts'[scheduler_cursor'].wait.kind = "none"
  BY DEF ActiveNeverWaits, Active
<1>1. CASE SliceBegin
  BY <1>1 DEF SliceBegin
<1>2. CASE InstructionBlock \/ BreakBlock \/ UnknownInstruction
  <2>1. /\ scheduler_cursor \in DOMAIN contexts /\ contexts[scheduler_cursor].wait \in Wait
        /\ contexts[scheduler_cursor].wait.kind = "none"
        /\ scheduler_cursor' = scheduler_cursor
    <3>1. phase = "run" /\ scheduler_cursor' = scheduler_cursor
      BY <1>2, InstructionEffect
    <3>2. scheduler_cursor \in DOMAIN contexts /\ contexts[scheduler_cursor] \in Context
      BY <3>1, ActiveInRange DEF Active
    <3>3. QED
      BY <3>1, <3>2 DEF ActiveNeverWaits, Active, Context
  <2>2. PICK n \in Nat :
          contexts'[scheduler_cursor].wait = AgedWait(contexts[scheduler_cursor].wait, n)
    BY <1>2, <2>1, InstructionEffect
  <2>3. QED
    BY <2>1, <2>2, AgedKind
<1>3. CASE SdkAction
  BY <1>3, SdkActionEffect
<1>4. CASE DrainAudio \/ UNCHANGED vars
  <2>1. phase = "run" /\ UNCHANGED <<contexts, scheduler_cursor>>
    BY <1>4 DEF DrainAudio, vars, loopVars
  <2>2. QED
    BY <2>1 DEF ActiveNeverWaits, Active
<1>5. CASE TickBegin \/ TaskReturn \/ RunError \/ SliceEnd \/ TickEnd \/ HostStop
  BY <1>5 DEF TickBegin, TaskReturn, RunError, SliceEnd, TickEnd, HostStop
<1>6. QED
  BY <1>1, <1>2, <1>3, <1>4, <1>5
     DEF Next, Tick, SliceStep, SdkAction, PlainCall, SemaphoreCall

\* set_active_wait never overwrites a wait that is still to be satisfied.
THEOREM ActiveNeverWaitsHolds == Spec => []ActiveNeverWaits
<1>1. Init => ActiveNeverWaits
  BY DEF Init, ActiveNeverWaits
<1>2. QED
  BY <1>1, ActiveNext, CoreInvariant, PTL DEF Spec

-----------------------------------------------------------------------------
(* No lost wakeup.  What makes it inductive: only handles that were given   *)
(* out are waited for, so a new semaphore starts without waiters.          *)

HasWaiter(cs, h) == \E i \in DOMAIN cs : cs[i].wait = Semaphore(h)

WakeInv ==
  \A h \in Handles :
    /\ HasWaiter(contexts, h) => semaphores[h] <= 0 /\ h < next_semaphore_handle
    /\ h >= next_semaphore_handle => semaphores[h] = NoSemaphore

\* The time a slice's end adds is no negative amount.
LEMMA SliceEndSkips ==
  ASSUME CoreInv, SliceEnd
  PROVE  SkippedCycles \in Nat /\ contexts' = Elapse(contexts, SkippedCycles)
<1>1. phase = "account" /\ contexts' = Elapse(contexts, SkippedCycles)
  BY DEF SliceEnd
<1>2. Slice \in Nat /\ executed <= Slice /\ Slice <= remaining_cycles
      /\ remaining_cycles \in Nat /\ executed \in Nat
  BY <1>1, SchedulerAssumption DEF CoreInv, TypeOK, LoopOK, InSlice, Slice
<1>3. QED
  BY <1>1, <1>2 DEF SkippedCycles, IdleCycles

LEMMA AgedSemaphore ==
  ASSUME NEW w \in Wait, NEW n \in Nat, NEW h \in Handles, AgedWait(w, n) = Semaphore(h)
  PROVE  w = Semaphore(h)
BY AgedKind DEF Semaphore

LEMMA WaitTypes ==
  ASSUME NEW cs \in Seq(Context)
  PROVE  \A i \in DOMAIN cs : cs[i].wait \in Wait
<1>1. \A c \in Context : c.wait \in Wait
  BY DEF Context
<1>2. QED
  BY <1>1

\* The waiters after an SDK call are waiters its handler left.
LEMMA CallWaiters ==
  ASSUME CoreInv, phase = "run",
         NEW cs \in Seq(Context), Len(cs) >= Len(contexts),
         SdkCall(cs, FALSE) \/ SdkCall(cs, TRUE) \/ SdkFault(cs),
         NEW h \in Handles, HasWaiter(contexts, h)'
  PROVE  HasWaiter(cs, h)
<1>1. PICK i \in DOMAIN contexts' : contexts'[i].wait = Semaphore(h)
  BY DEF HasWaiter
<1>2. CASE SdkFault(cs)
  BY <1>1, <1>2 DEF SdkFault, HasWaiter
<1>3. ASSUME NEW sub \in BOOLEAN, SdkCall(cs, sub) PROVE HasWaiter(cs, h)
  <2>1. i \in DOMAIN cs
        /\ (contexts'[i].wait = AgedWait(cs[i].wait, 1) \/ contexts'[i].wait = NoWait)
    BY <1>1, <1>3, SdkCallEffect
  <2>2. cs[i].wait \in Wait
    BY <2>1, WaitTypes
  <2>3. NoWait # Semaphore(h)
    BY DEF NoWait, Semaphore
  <2>4. cs[i].wait = Semaphore(h)
    BY <1>1, <2>1, <2>2, <2>3, AgedSemaphore
  <2>5. QED
    BY <2>1, <2>4 DEF HasWaiter
<1>4. TRUE \in BOOLEAN /\ FALSE \in BOOLEAN
  OBVIOUS
<1>5. QED
  BY <1>2, <1>3, <1>4

LEMMA UntouchedWaiters ==
  ASSUME NEW cs, Untouched(cs), NEW h \in Handles, HasWaiter(cs, h)
  PROVE  HasWaiter(contexts, h)
<1>1. PICK i \in DOMAIN cs : cs[i].wait = Semaphore(h)
  BY DEF HasWaiter
<1>2. NoWait # Semaphore(h)
  BY DEF NoWait, Semaphore
<1>3. QED
  BY <1>1, <1>2 DEF Untouched, HasWaiter

LEMMA PlainCallWaiters ==
  ASSUME CoreInv, PlainCall, NEW h \in Handles, HasWaiter(contexts, h)'
  PROVE  HasWaiter(contexts, h)
<1>1. PICK cs : /\ Untouched(cs)
                /\ SdkCall(cs, FALSE) \/ SdkCall(cs, TRUE) \/ SdkFault(cs)
  BY PlainCallEffect
<1>2. phase = "run" /\ cs \in Seq(Context) /\ Len(cs) >= Len(contexts)
  BY <1>1, PlainCallEffect DEF Untouched
<1>3. HasWaiter(cs, h)
  BY <1>1, <1>2, CallWaiters
<1>4. QED
  BY <1>1, <1>3, UntouchedWaiters

\* Every step but a SemPend leaves no waiter that was not there.
LEMMA NoNewWaiter ==
  ASSUME CoreInv, [Next]_vars, \A k \in Handles : ~SemPend(k),
         NEW h \in Handles, HasWaiter(contexts, h)'
  PROVE  HasWaiter(contexts, h)
<1>0. contexts \in Seq(Context) /\ Len(contexts) \in Nat
  BY DEF CoreInv, TypeOK, LoopOK
<1>1. PICK i \in DOMAIN contexts' : contexts'[i].wait = Semaphore(h)
  BY DEF HasWaiter
<1>2. CASE UNCHANGED contexts
  BY <1>1, <1>2 DEF HasWaiter
<1>3. ASSUME NEW n \in Nat, i \in DOMAIN contexts,
             contexts'[i].wait = AgedWait(contexts[i].wait, n)
      PROVE  HasWaiter(contexts, h)
  BY <1>0, <1>1, <1>3, WaitTypes, AgedSemaphore DEF HasWaiter
<1>4. CASE SliceBegin
  <2>1. PickCursor \in DOMAIN contexts
    BY <1>0, SchedulerAssumption DEF PickCursor, CoreInv, TypeOK, LoopOK
  <2>2. contexts' = Polled(contexts, PickCursor)
    BY <1>4 DEF SliceBegin
  <2>3. i \in DOMAIN contexts /\ (contexts'[i].wait = contexts[i].wait
                                  \/ contexts'[i].wait = NoWait)
    BY <1>0, <1>1, <2>1, <2>2, PolledType
  <2>4. NoWait # Semaphore(h)
    BY DEF NoWait, Semaphore
  <2>5. QED
    BY <1>1, <2>3, <2>4 DEF HasWaiter
<1>5. CASE InstructionBlock \/ BreakBlock \/ UnknownInstruction
  BY <1>1, <1>3, <1>5, InstructionEffect
<1>6. CASE TaskReturn
  <2>1. scheduler_cursor \in DOMAIN contexts
        /\ contexts' = [contexts EXCEPT ![scheduler_cursor].cpu = "stopped"]
    BY <1>6, ActiveInRange DEF TaskReturn
  <2>2. \A c \in Context : [c EXCEPT !.cpu = "stopped"].wait = c.wait
    BY DEF Context
  <2>3. i \in DOMAIN contexts /\ contexts'[i].wait = contexts[i].wait
    BY <1>0, <1>1, <2>1, <2>2
  <2>4. QED
    BY <1>1, <2>3 DEF HasWaiter
<1>7. CASE PlainCall
  BY <1>7, PlainCallWaiters
<1>8. CASE \E k \in Handles : SemPost(k)
  <2>1. PICK k \in Handles : SemPost(k)
    BY <1>8
  <2>2. phase = "run"
    BY <2>1, SemPostEffect
  <2>3. PICK cs \in Seq(Context) :
          /\ Len(cs) = Len(contexts) /\ DOMAIN cs = DOMAIN contexts
          /\ \A j \in DOMAIN contexts :
               cs[j].wait = contexts[j].wait \/ cs[j].wait = NoWait
          /\ SdkCall(cs, FALSE)
    BY <2>1, SemPostEffect
  <2>4. HasWaiter(cs, h)
    <3>1. Len(cs) >= Len(contexts)
      BY <1>0, <2>3
    <3>2. QED
      BY <2>2, <2>3, <3>1, CallWaiters
  <2>5. NoWait # Semaphore(h)
    BY DEF NoWait, Semaphore
  <2>6. QED
    BY <2>3, <2>4, <2>5 DEF HasWaiter
<1>9. CASE Delay
  <2>1. PICK cs : /\ cs = contexts \/ \E n \in Nat : Waiting(cs, UntilCycle(n))
                  /\ SdkCall(cs, FALSE)
    BY <1>9, DelayEffect
  <2>2. phase = "run"
    BY <1>9, DelayEffect
  <2>3. cs \in Seq(Context) /\ Len(cs) >= Len(contexts)
    BY <1>0, <2>1 DEF Waiting
  <2>4. HasWaiter(cs, h)
    BY <2>1, <2>2, <2>3, CallWaiters
  <2>5. \A n \in Nat : UntilCycle(n) # Semaphore(h)
    BY DEF UntilCycle, Semaphore
  <2>6. QED
    BY <2>1, <2>4, <2>5 DEF HasWaiter, Waiting
<1>10. CASE WaveoutWrite
  <2>1. phase = "run"
    BY <1>10, WriteEffect
  <2>2. PICK cs \in Seq(Context) :
          /\ Len(cs) = Len(contexts) /\ DOMAIN cs = DOMAIN contexts
          /\ SdkCall(cs, FALSE)
          /\ \A j \in DOMAIN contexts : j # scheduler_cursor => cs[j] = contexts[j]
          /\ cs[scheduler_cursor].wait \in {Active.wait, AudioWrite}
    BY <1>10, WriteEffect
  <2>3. HasWaiter(cs, h)
    <3>1. Len(cs) >= Len(contexts)
      BY <1>0, <2>2
    <3>2. QED
      BY <2>1, <2>2, <3>1, CallWaiters
  <2>4. AudioWrite # Semaphore(h)
    BY DEF AudioWrite, Semaphore
  <2>5. QED
    BY <2>2, <2>3, <2>4 DEF HasWaiter, Active
<1>11. CASE SliceEnd
  <2>1. SkippedCycles \in Nat /\ contexts' = Elapse(contexts, SkippedCycles)
    BY <1>11, SliceEndSkips
  <2>2. i \in DOMAIN contexts
        /\ contexts'[i].wait = AgedWait(contexts[i].wait, SkippedCycles)
    BY <1>0, <1>1, <2>1, ElapseType
  <2>3. QED
    BY <1>3, <2>1, <2>2
<1>12. CASE TickEnd
  <2>0. PICK n \in 1..Len(contexts) : \E at \in [1..n -> Kept] :
          contexts' = [j \in 1..n |-> contexts[at[j]]]
    BY <1>12 DEF TickEnd, Retain
  <2>1. PICK at \in [1..n -> Kept] : contexts' = [j \in 1..n |-> contexts[at[j]]]
    BY <2>0
  <2>2. Kept \subseteq DOMAIN contexts
    BY <1>0 DEF Kept, Tasks, CoreInv, TypeOK, LoopOK
  <2>3. i \in 1..n /\ contexts'[i] = contexts[at[i]] /\ at[i] \in DOMAIN contexts
    BY <1>1, <2>1, <2>2
  <2>4. QED
    BY <1>1, <2>3 DEF HasWaiter
<1>13. TickBegin \/ RunError \/ HostStop \/ DrainAudio \/ UNCHANGED vars => UNCHANGED contexts
  BY DEF TickBegin, RunError, HostStop, DrainAudio, vars
<1>14. QED
  BY <1>2, <1>4, <1>5, <1>6, <1>7, <1>8, <1>9, <1>10, <1>11, <1>12, <1>13
     DEF Next, Tick, SliceStep, SemaphoreCall, PlainCall

LEMMA WakeNext == CoreInv /\ WakeInv /\ [Next]_vars => WakeInv'
<1> SUFFICES ASSUME CoreInv, WakeInv, [Next]_vars, NEW h \in Handles
             PROVE  /\ HasWaiter(contexts, h)' =>
                         semaphores'[h] <= 0 /\ h < next_semaphore_handle'
                    /\ h >= next_semaphore_handle' => semaphores'[h] = NoSemaphore
  BY DEF WakeInv
<1>0. /\ semaphores \in [Handles -> {NoSemaphore} \cup (0..MaxCount)]
      /\ next_semaphore_handle \in Nat /\ h \in Nat
      /\ contexts \in Seq(Context) /\ Len(contexts) \in Nat
      /\ HasWaiter(contexts, h) => semaphores[h] <= 0 /\ h < next_semaphore_handle
      /\ h >= next_semaphore_handle => semaphores[h] = NoSemaphore
  BY SchedulerAssumption DEF CoreInv, TypeOK, LoopOK, SemaphoresOK, WakeInv, Handles
<1>1. (\A k \in Handles : ~SemPend(k)) /\ HasWaiter(contexts, h)' => HasWaiter(contexts, h)
  BY NoNewWaiter
<1>2. CASE SemCreate
  <2>1. /\ next_semaphore_handle' = next_semaphore_handle + 1
        /\ next_semaphore_handle \in Handles
        /\ \E n \in 0..MaxCount :
             semaphores' = [semaphores EXCEPT ![next_semaphore_handle] = n]
    <3>1. /\ next_semaphore_handle' = next_semaphore_handle + 1
          /\ next_semaphore_handle <= MaxHandle
          /\ \E n \in 0..MaxCount :
               semaphores' = [semaphores EXCEPT ![next_semaphore_handle] = n]
      BY <1>2 DEF SemCreate
    <3>2. next_semaphore_handle >= 1
      BY SchedulerAssumption DEF CoreInv, TypeOK, SemaphoresOK
    <3>3. next_semaphore_handle \in Handles
      BY <1>0, <3>1, <3>2, SchedulerAssumption DEF Handles
    <3>4. QED
      BY <3>1, <3>3
  <2>2. HasWaiter(contexts, h)' => HasWaiter(contexts, h)
    <3>1. PlainCall
      BY <1>2 DEF PlainCall
    <3>2. QED
      BY <3>1, PlainCallWaiters
  <2>3. h # next_semaphore_handle => semaphores'[h] = semaphores[h]
    BY <1>0, <2>1
  <2>4. QED
    BY <1>0, <2>1, <2>2, <2>3
<1>3. ASSUME NEW k \in Handles, SemPend(k)
      PROVE  /\ HasWaiter(contexts, h)' =>
                  semaphores'[h] <= 0 /\ h < next_semaphore_handle'
             /\ h >= next_semaphore_handle' => semaphores'[h] = NoSemaphore
  <2>1. /\ next_semaphore_handle' = next_semaphore_handle
        /\ semaphores' = IF semaphores[k] > 0
                         THEN [semaphores EXCEPT ![k] = @ - 1] ELSE semaphores
    BY <1>3 DEF SemPend
  <2>2. PICK cs : /\ \/ semaphores[k] # 0 /\ cs = contexts
                     \/ semaphores[k] = 0 /\ Waiting(cs, Semaphore(k))
                  /\ SdkCall(cs, FALSE) \/ SdkFault(cs)
    BY <1>3, SemPendEffect
  <2>3. phase = "run" /\ cs \in Seq(Context) /\ Len(cs) >= Len(contexts)
    <3>1. phase = "run"
      BY <1>3, SemPendEffect
    <3>2. cs = contexts \/ Waiting(cs, Semaphore(k))
      BY <2>2
    <3>3. QED
      BY <1>0, <3>1, <3>2 DEF Waiting
  <2>4. HasWaiter(contexts, h)' => HasWaiter(cs, h)
    BY <2>2, <2>3, CallWaiters
  <2>5. HasWaiter(cs, h) => HasWaiter(contexts, h) \/ (h = k /\ semaphores[k] = 0)
    <3>1. Semaphore(k) = Semaphore(h) => h = k
      BY DEF Semaphore
    <3>2. QED
      BY <2>2, <3>1 DEF HasWaiter, Waiting
  <2>6. semaphores[k] \in Int /\ semaphores[h] \in Int
        /\ semaphores'[h] = IF h = k /\ semaphores[k] > 0
                            THEN semaphores[h] - 1 ELSE semaphores[h]
    BY <1>0, <2>1 DEF NoSemaphore
  <2>7. HasWaiter(contexts, h)' => semaphores'[h] <= 0 /\ h < next_semaphore_handle'
    <3>1. CASE HasWaiter(contexts, h)
      BY <1>0, <2>1, <2>6, <3>1
    <3>2. CASE h = k /\ semaphores[k] = 0
      BY <1>0, <2>1, <2>6, <3>2 DEF NoSemaphore
    <3>3. QED
      BY <2>4, <2>5, <3>1, <3>2
  <2>8. h >= next_semaphore_handle' => semaphores'[h] = NoSemaphore
    BY <1>0, <2>1, <2>6 DEF NoSemaphore
  <2>9. QED
    BY <2>7, <2>8
<1>4. ASSUME NEW k \in Handles, SemPost(k)
      PROVE  /\ HasWaiter(contexts, h)' =>
                  semaphores'[h] <= 0 /\ h < next_semaphore_handle'
             /\ h >= next_semaphore_handle' => semaphores'[h] = NoSemaphore
  <2>1. /\ next_semaphore_handle' = next_semaphore_handle
        /\ semaphores' = IF Woken(k) = {} /\ semaphores[k] \in 0..(MaxCount - 1)
                         THEN [semaphores EXCEPT ![k] = @ + 1] ELSE semaphores
    BY <1>4 DEF SemPost
  <2>2. HasWaiter(contexts, h)' => HasWaiter(contexts, h)
    <3>1. phase = "run"
      BY <1>4, SemPostEffect
    <3>2. PICK cs \in Seq(Context) :
            /\ Len(cs) = Len(contexts) /\ DOMAIN cs = DOMAIN contexts
            /\ \A j \in DOMAIN contexts :
                 cs[j].wait = contexts[j].wait \/ cs[j].wait = NoWait
            /\ SdkCall(cs, FALSE)
      BY <1>4, SemPostEffect
    <3>3. Len(cs) >= Len(contexts)
      BY <1>0, <3>2
    <3>4. HasWaiter(contexts, h)' => HasWaiter(cs, h)
      BY <3>1, <3>2, <3>3, CallWaiters
    <3>5. NoWait # Semaphore(h)
      BY DEF NoWait, Semaphore
    <3>6. QED
      BY <3>2, <3>4, <3>5 DEF HasWaiter
  <2>3. Woken(k) = {} => ~HasWaiter(contexts, k)
    <3>1. Woken(k) = {} => Waiters(k) = {}
      BY SomeoneWoken
    <3>2. QED
      BY <3>1 DEF HasWaiter, Waiters
  <2>4. /\ semaphores[h] \in Int
        /\ \/ semaphores'[h] = semaphores[h]
           \/ /\ h = k /\ Woken(k) = {} /\ semaphores[k] >= 0
    BY <1>0, <2>1 DEF NoSemaphore
  <2>5. semaphores[h] >= 0 => h < next_semaphore_handle
    BY <1>0, <2>4 DEF NoSemaphore
  <2>6. QED
    BY <1>0, <2>1, <2>2, <2>3, <2>4, <2>5
<1>5. ASSUME NEW k \in Handles, SemDel(k)
      PROVE  /\ HasWaiter(contexts, h)' =>
                  semaphores'[h] <= 0 /\ h < next_semaphore_handle'
             /\ h >= next_semaphore_handle' => semaphores'[h] = NoSemaphore
  <2>1. /\ next_semaphore_handle' = next_semaphore_handle
        /\ semaphores' = [semaphores EXCEPT ![k] = NoSemaphore]
    BY <1>5 DEF SemDel
  <2>2. HasWaiter(contexts, h)' => HasWaiter(contexts, h)
    <3>1. PlainCall
      BY <1>5 DEF PlainCall
    <3>2. QED
      BY <3>1, PlainCallWaiters
  <2>3. semaphores'[h] = NoSemaphore \/ semaphores'[h] = semaphores[h]
    BY <1>0, <2>1
  <2>4. NoSemaphore <= 0
    BY DEF NoSemaphore
  <2>5. QED
    BY <1>0, <2>1, <2>2, <2>3, <2>4
<1>6. CASE /\ UNCHANGED semVars
           /\ \A k \in Handles : ~SemPend(k)
  BY <1>0, <1>1, <1>6 DEF semVars
<1>7. \/ UNCHANGED semVars /\ \A k \in Handles : ~SemPend(k)
      \/ SemCreate
      \/ \E k \in Handles : SemPend(k) \/ SemPost(k) \/ SemDel(k)
  BY DEF Next, Tick, SliceStep, SemaphoreCall, TickBegin, SliceBegin, InstructionBlock,
         BreakBlock, UnknownInstruction, TaskReturn, RunError, OtherCall, SubmitFrame,
         StopSelf, CreateTask, DeleteTask, Delay, WaveoutWrite, AudioControl, SliceEnd,
         TickEnd, DrainAudio, HostStop, vars
<1>8. QED
  BY <1>2, <1>3, <1>4, <1>5, <1>6, <1>7

\* A semaphore with a token has no waiter, whatever the tasks do.
THEOREM NoLostWakeupHolds == Spec => []NoLostWakeup
<1>1. Init => WakeInv
  <2>1. ASSUME Init, NEW h \in Handles PROVE ~HasWaiter(contexts, h) /\ semaphores[h] = NoSemaphore
    <3>1. \A i \in DOMAIN contexts : contexts[i].wait = NoWait
      BY <2>1 DEF Init
    <3>2. NoWait # Semaphore(h)
      BY DEF NoWait, Semaphore
    <3>3. QED
      BY <2>1, <3>1, <3>2 DEF Init, HasWaiter
  <2>2. QED
    BY <2>1 DEF WakeInv
<1>2. WakeInv => NoLostWakeup
  BY DEF WakeInv, HasWaiter, NoLostWakeup
<1>3. QED
  BY <1>1, <1>2, WakeNext, CoreInvariant, PTL DEF Spec

-----------------------------------------------------------------------------
(* Time passes idle only when every context is blocked.  What makes it     *)
(* inductive: the idle_contexts positions just before the cursor, counted  *)
(* round the end of the sequence, are those of blocked contexts.           *)

InWindow(i) ==
  \/ i < scheduler_cursor /\ i >= scheduler_cursor - idle_contexts
  \/ i >= scheduler_cursor - idle_contexts + Len(contexts)

WindowBlocked ==
  /\ idle_contexts < Len(contexts)
  /\ \A i \in DOMAIN contexts : InWindow(i) => Blocked(contexts[i])

WindowInv ==
  /\ phase = "pick" =>
       WindowBlocked /\ (idle_contexts > 0 => scheduler_cursor <= Len(contexts))
  /\ phase \in {"run", "account"} /\ executed = 0 =>
       context_count = Len(contexts) /\ WindowBlocked
  /\ phase = "account" /\ executed = 0 => Blocked(Active)

\* Nobody but the guest and the host's player touches the queue, and with a
\* player an audio wait counts as blocked whatever is queued.
LEMMA BlockedStable ==
  ASSUME UNCHANGED <<queued, audible>> \/ AsyncPlayer = TRUE, NEW c, Blocked(c)
  PROVE  Blocked(c)'
BY DEF Blocked, CanWrite

\* The cursor moves one place on a circle of n contexts and the window behind
\* it grows by the context it leaves.
LEMMA WindowGrows ==
  ASSUME NEW i \in Nat, NEW n \in Nat, NEW cursor \in Nat, NEW k \in Nat,
         NEW next \in Nat,
         i >= 1, i <= n, cursor >= 1, cursor <= n,
         \/ cursor = n /\ next = 1
         \/ cursor # n /\ next = cursor + 1,
         \/ i < next /\ i >= next - (k + 1)
         \/ i >= next - (k + 1) + n
  PROVE  \/ i = cursor
         \/ i < cursor /\ i >= cursor - k
         \/ i >= cursor - k + n
OBVIOUS

\* A window of all contexts but one, and that one, are all contexts.
LEMMA WindowFull ==
  ASSUME NEW i \in Nat, NEW n \in Nat, NEW cursor \in Nat, NEW k \in Nat,
         i >= 1, i <= n, cursor >= 1, cursor <= n, k + 1 >= n
  PROVE  \/ i = cursor
         \/ i < cursor /\ i >= cursor - k
         \/ i >= cursor - k + n
OBVIOUS

LEMMA WindowNext == CoreInv /\ WindowInv /\ [Next]_vars => WindowInv'
<1> SUFFICES ASSUME CoreInv, WindowInv, [Next]_vars PROVE WindowInv'
  OBVIOUS
<1>0. /\ contexts \in Seq(Context) /\ Len(contexts) \in Nat /\ Len(contexts) >= 1
      /\ DOMAIN contexts = 1..Len(contexts)
      /\ scheduler_cursor \in Nat /\ scheduler_cursor >= 1
      /\ idle_contexts \in Nat /\ executed \in Nat /\ context_count \in Nat
      /\ phase \in {"run", "account"} =>
           scheduler_cursor <= context_count /\ context_count <= Len(contexts)
  BY DEF CoreInv, TypeOK, LoopOK, InSlice
<1>1. CASE TickBegin
  <2>1. phase' = "pick" /\ idle_contexts' = 0 /\ UNCHANGED <<contexts, scheduler_cursor>>
    BY <1>1 DEF TickBegin
  <2>2. \A i \in DOMAIN contexts' : ~InWindow(i)'
    BY <1>0, <2>1 DEF InWindow
  <2>3. WindowBlocked' /\ ~(idle_contexts' > 0)
    BY <1>0, <2>1, <2>2 DEF WindowBlocked
  <2>4. QED
    BY <2>1, <2>3 DEF WindowInv
<1>2. CASE SliceBegin
  <2>1. /\ phase = "pick" /\ phase' \in {"run", "account"}
        /\ scheduler_cursor' = PickCursor /\ context_count' = Len(contexts)
        /\ contexts' = Polled(contexts, PickCursor)
        /\ phase' = IF /\ contexts'[PickCursor].wait.kind = "none"
                       /\ contexts'[PickCursor].cpu = "running"
                    THEN "run" ELSE "account"
        /\ UNCHANGED <<idle_contexts, queued, audible>>
    BY <1>2 DEF SliceBegin, audioVars
  <2>2. PickCursor \in DOMAIN contexts /\ PickCursor \in Nat
    BY <1>0 DEF PickCursor
  <2>3. /\ contexts' \in Seq(Context)
        /\ Len(contexts') = Len(contexts) /\ DOMAIN contexts' = DOMAIN contexts
        /\ \A j \in DOMAIN contexts : j # PickCursor => contexts'[j] = contexts[j]
        /\ contexts'[PickCursor].wait = IF Satisfied(contexts[PickCursor].wait)
                                        THEN NoWait ELSE contexts[PickCursor].wait
    BY <1>0, <2>1, <2>2, PolledType
  <2>4. /\ WindowBlocked
        /\ idle_contexts > 0 => PickCursor = scheduler_cursor
    BY <1>0, <2>1 DEF WindowInv, PickCursor
  <2>5. ASSUME NEW i \in DOMAIN contexts, InWindow(i)'
        PROVE  i # PickCursor /\ InWindow(i)
    <3>1. \/ i < PickCursor /\ i >= PickCursor - idle_contexts
          \/ i >= PickCursor - idle_contexts + Len(contexts)
      BY <2>1, <2>3, <2>5 DEF InWindow
    <3>2. idle_contexts < Len(contexts) /\ i \in Nat /\ i <= Len(contexts)
      BY <1>0, <2>4 DEF WindowBlocked
    <3>3. idle_contexts > 0
      BY <1>0, <2>2, <3>1, <3>2
    <3>4. QED
      BY <1>0, <2>2, <2>4, <3>1, <3>2, <3>3 DEF InWindow
  <2>6. WindowBlocked'
    <3>1. idle_contexts' < Len(contexts')
      BY <2>1, <2>3, <2>4 DEF WindowBlocked
    <3>2. ASSUME NEW i \in DOMAIN contexts', InWindow(i)' PROVE Blocked(contexts[i])'
      <4>1. contexts'[i] = contexts[i] /\ Blocked(contexts[i])
        BY <2>3, <2>4, <2>5, <3>2 DEF WindowBlocked
      <4>2. Blocked(contexts'[i])
        BY <4>1
      <4>3. QED
        BY <2>1, <4>2, BlockedStable DEF Blocked, CanWrite
    <3>3. QED
      BY <3>1, <3>2 DEF WindowBlocked
  <2>7. phase' = "account" => Blocked(Active)'
    <3>1. SUFFICES ASSUME phase' = "account" PROVE Blocked(contexts'[PickCursor])
      BY <2>1 DEF Active, Blocked, CanWrite
    <3>2. contexts'[PickCursor] \in Context
      BY <2>2, <2>3
    <3>3. /\ contexts'[PickCursor].wait.kind \in {"none", "audio", "semaphore", "until"}
          /\ contexts'[PickCursor].wait.arg \in Nat
          /\ contexts'[PickCursor].cpu \in {"running", "stopped"}
      BY <3>2 DEF Context, Wait
    <3>4. contexts'[PickCursor].wait.kind # "none" \/ contexts'[PickCursor].cpu = "stopped"
      BY <2>1, <3>1, <3>3
    <3>5. ~Satisfied(contexts'[PickCursor].wait)
      BY <2>3 DEF Satisfied, NoWait
    <3>6. QED
      BY <3>3, <3>4, <3>5 DEF Blocked, Satisfied
  <2>8. QED
    BY <2>1, <2>3, <2>6, <2>7 DEF WindowInv
<1>3. CASE TaskReturn
  <2>1. /\ phase = "run" /\ phase' = "account"
        /\ contexts' = [contexts EXCEPT ![scheduler_cursor].cpu = "stopped"]
        /\ UNCHANGED <<scheduler_cursor, idle_contexts, context_count, executed,
                       queued, audible>>
    BY <1>3 DEF TaskReturn, loopVars, audioVars
  <2>2. scheduler_cursor \in DOMAIN contexts
    BY <2>1, ActiveInRange
  <2>3. /\ Len(contexts') = Len(contexts) /\ DOMAIN contexts' = DOMAIN contexts
        /\ \A j \in DOMAIN contexts : j # scheduler_cursor => contexts'[j] = contexts[j]
        /\ contexts'[scheduler_cursor] = [contexts[scheduler_cursor] EXCEPT !.cpu = "stopped"]
    <3>1. Len(contexts') = Len(contexts)
      BY <1>0, <2>1, <2>2, UpdateCpu
    <3>2. QED
      BY <1>0, <2>1, <2>2, <3>1
  <2>4. contexts'[scheduler_cursor].cpu = "stopped"
    <3>1. \A c \in Context : [c EXCEPT !.cpu = "stopped"].cpu = "stopped"
      BY DEF Context
    <3>2. QED
      BY <1>0, <2>2, <2>3, <3>1
  <2>5. Blocked(Active)'
    BY <2>1, <2>4 DEF Blocked, Active
  <2>6. executed = 0 => WindowBlocked'
    <3>1. SUFFICES ASSUME executed = 0 PROVE WindowBlocked'
      OBVIOUS
    <3>2. WindowBlocked
      BY <2>1, <3>1 DEF WindowInv
    <3>3. ASSUME NEW i \in DOMAIN contexts', InWindow(i)' PROVE Blocked(contexts[i])'
      <4>1. CASE i = scheduler_cursor
        BY <2>1, <2>5, <4>1 DEF Active
      <4>2. CASE i # scheduler_cursor
        <5>1. InWindow(i)
          BY <2>1, <2>3, <3>3 DEF InWindow
        <5>2. contexts'[i] = contexts[i] /\ Blocked(contexts[i])
          BY <2>3, <3>2, <3>3, <4>2, <5>1 DEF WindowBlocked
        <5>3. QED
          BY <2>1, <5>2 DEF Blocked, CanWrite
      <4>3. QED
        BY <4>1, <4>2
    <3>4. QED
      BY <2>1, <2>3, <3>2, <3>3 DEF WindowBlocked
  <2>7. executed = 0 => context_count = Len(contexts)
    BY <2>1 DEF WindowInv
  <2>8. QED
    BY <2>1, <2>3, <2>5, <2>6, <2>7 DEF WindowInv, Active
<1>4. CASE SliceEnd
  <2>1. /\ phase = "account" /\ phase' = "pick"
        /\ scheduler_cursor' = NextCursor
        /\ idle_contexts' = IF executed > 0 \/ AllIdle THEN 0 ELSE idle_contexts + 1
        /\ contexts' = Elapse(contexts, SkippedCycles)
        /\ UNCHANGED <<framebuffer_submitted, queued, audible>>
    BY <1>4 DEF SliceEnd, audioVars
  <2>2. SkippedCycles \in Nat
    BY <1>4, SliceEndSkips
  <2>3. /\ Len(contexts') = Len(contexts) /\ DOMAIN contexts' = DOMAIN contexts
        /\ \A i \in DOMAIN contexts :
             /\ contexts'[i].cpu = contexts[i].cpu
             /\ contexts'[i].wait = AgedWait(contexts[i].wait, SkippedCycles)
    BY <1>0, <2>1, <2>2, ElapseType
  <2>4. CASE executed > 0 \/ AllIdle
    <3>1. idle_contexts' = 0 /\ scheduler_cursor' \in Nat /\ scheduler_cursor' >= 1
      BY <1>0, <2>1, <2>4 DEF NextCursor
    <3>2. \A i \in DOMAIN contexts' : ~InWindow(i)'
      BY <1>0, <2>3, <3>1 DEF InWindow
    <3>3. WindowBlocked' /\ ~(idle_contexts' > 0)
      BY <1>0, <2>3, <3>1, <3>2 DEF WindowBlocked
    <3>4. QED
      BY <2>1, <3>3 DEF WindowInv
  <2>5. CASE executed = 0 /\ ~AllIdle
    <3>1. /\ idle_contexts' = idle_contexts + 1
          /\ context_count = Len(contexts) /\ WindowBlocked /\ Blocked(Active)
          /\ idle_contexts + 1 < context_count
          /\ framebuffer_submitted = FALSE
      <4>1. idle_contexts' = idle_contexts + 1 /\ idle_contexts + 1 < context_count
        BY <1>0, <2>1, <2>5 DEF AllIdle
      <4>2. context_count = Len(contexts) /\ WindowBlocked /\ Blocked(Active)
        BY <2>1, <2>5 DEF WindowInv
      <4>3. framebuffer_submitted = FALSE
        BY <1>0, <2>1, <2>5 DEF CoreInv, TypeOK, LoopOK, LoopInv
      <4>4. QED
        BY <4>1, <4>2, <4>3
    <3>2. SkippedCycles = 0
      BY <2>5, <3>1 DEF SkippedCycles, IdleCycles
    <3>3. ASSUME NEW i \in DOMAIN contexts, Blocked(contexts[i])
          PROVE  Blocked(contexts[i])'
      <4>1. contexts[i].wait \in Wait
        BY <1>0, WaitTypes
      <4>2. AgedWait(contexts[i].wait, 0).kind = contexts[i].wait.kind
            /\ AgedWait(contexts[i].wait, 0).arg = contexts[i].wait.arg
        BY <4>1 DEF AgedWait, UntilCycle, Wait
      <4>3. /\ contexts'[i].cpu = contexts[i].cpu
            /\ contexts'[i].wait.kind = contexts[i].wait.kind
            /\ contexts'[i].wait.arg = contexts[i].wait.arg
        BY <2>3, <3>2, <4>2
      <4>4. Blocked(contexts'[i])
        BY <3>3, <4>3 DEF Blocked
      <4>5. QED
        BY <2>1, <4>4 DEF Blocked, CanWrite
    <3>4. scheduler_cursor <= Len(contexts)
      BY <1>0, <2>1, <3>1
    <3>5. \/ scheduler_cursor = Len(contexts) /\ scheduler_cursor' = 1
          \/ scheduler_cursor # Len(contexts) /\ scheduler_cursor' = scheduler_cursor + 1
      <4>1. scheduler_cursor <= context_count /\ context_count = Len(contexts)
        BY <1>0, <2>1, <3>1
      <4>2. CASE scheduler_cursor >= context_count
        <5>1. scheduler_cursor = context_count
          <6>1. scheduler_cursor \in Nat /\ context_count \in Nat
            BY <1>0
          <6>2. QED
            BY <4>1, <4>2, <6>1
        <5>2. scheduler_cursor' = 1
          BY <2>1, <4>2 DEF NextCursor
        <5>3. QED
          BY <4>1, <5>1, <5>2, Zenon
      <4>3. CASE ~(scheduler_cursor >= context_count)
        <5>1. scheduler_cursor # context_count
          BY <1>0, <4>3
        <5>2. scheduler_cursor' = scheduler_cursor + 1
          BY <2>1, <4>3 DEF NextCursor
        <5>3. QED
          BY <4>1, <5>1, <5>2, Zenon
      <4>4. QED
        BY <4>2, <4>3
    <3>6. scheduler_cursor' \in Nat
      <4>1. scheduler_cursor \in Nat
        BY <1>0
      <4>2. scheduler_cursor' = 1 \/ scheduler_cursor' = scheduler_cursor + 1
        BY <3>5
      <4>3. QED
        BY <4>1, <4>2
    <3>7. ASSUME NEW i \in DOMAIN contexts, InWindow(i)'
          PROVE  i = scheduler_cursor \/ InWindow(i)
      <4>1. \/ i < scheduler_cursor' /\ i >= scheduler_cursor' - (idle_contexts + 1)
            \/ i >= scheduler_cursor' - (idle_contexts + 1) + Len(contexts)
        BY <2>3, <3>1, <3>7 DEF InWindow
      <4>2. i \in Nat /\ i >= 1 /\ i <= Len(contexts)
        BY <1>0
      <4>3. scheduler_cursor \in Nat /\ scheduler_cursor >= 1 /\ idle_contexts \in Nat
            /\ Len(contexts) \in Nat
        BY <1>0
      <4>4. \/ i = scheduler_cursor
            \/ i < scheduler_cursor /\ i >= scheduler_cursor - idle_contexts
            \/ i >= scheduler_cursor - idle_contexts + Len(contexts)
        BY <3>4, <3>5, <3>6, <4>1, <4>2, <4>3, WindowGrows
      <4>5. QED
        BY <4>4 DEF InWindow
    <3>8. WindowBlocked'
      <4>1. ASSUME NEW i \in DOMAIN contexts', InWindow(i)' PROVE Blocked(contexts[i])'
        <5>1. i \in DOMAIN contexts /\ (i = scheduler_cursor \/ InWindow(i))
          BY <2>3, <3>7, <4>1
        <5>2. Blocked(contexts[i])
          BY <3>1, <5>1 DEF WindowBlocked, Active
        <5>3. QED
          BY <3>3, <5>1, <5>2
      <4>2. QED
        BY <1>0, <2>3, <3>1, <4>1 DEF WindowBlocked
    <3>9. scheduler_cursor' <= Len(contexts')
      <4>1. Len(contexts) \in Nat /\ Len(contexts) >= 1 /\ scheduler_cursor \in Nat
            /\ Len(contexts') = Len(contexts)
        BY <1>0, <2>3
      <4>2. QED
        BY <3>4, <3>5, <4>1
    <3>10. QED
      BY <2>1, <3>8, <3>9 DEF WindowInv
  <2>6. QED
    BY <1>0, <2>4, <2>5
<1>5. CASE InstructionBlock \/ BreakBlock \/ UnknownInstruction
  <2>1. phase' \in {"failed", "spin"} \/ executed' > 0
    BY <1>5, InstructionEffect
  <2>2. phase' # "pick"
    BY <1>5 DEF InstructionBlock, BreakBlock, UnknownInstruction, AfterUnits
  <2>3. QED
    BY <2>1, <2>2 DEF WindowInv
<1>6. CASE SdkAction
  BY <1>6, SdkActionEffect DEF WindowInv
<1>7. CASE RunError \/ TickEnd \/ HostStop
  BY <1>7 DEF RunError, TickEnd, HostStop, WindowInv
<1>8. CASE DrainAudio \/ UNCHANGED vars
  <2>1. /\ UNCHANGED <<contexts, scheduler_cursor, idle_contexts, context_count,
                       phase, executed>>
        /\ UNCHANGED <<queued, audible>> \/ AsyncPlayer = TRUE \/ phase = "host"
    BY <1>8, SchedulerAssumption DEF DrainAudio, vars, loopVars, audioVars
  <2>2. CASE phase = "host"
    BY <2>1, <2>2 DEF WindowInv
  <2>3. CASE phase # "host"
    <3>1. \A c : Blocked(c) => Blocked(c)'
      BY <2>1, <2>3, BlockedStable
    <3>2. WindowBlocked => WindowBlocked'
      BY <2>1, <3>1 DEF WindowBlocked, InWindow
    <3>3. Blocked(Active) => Blocked(Active)'
      BY <2>1, <3>1 DEF Active
    <3>4. QED
      BY <2>1, <3>2, <3>3 DEF WindowInv
  <2>4. QED
    BY <2>2, <2>3
<1>9. QED
  BY <1>1, <1>2, <1>3, <1>4, <1>5, <1>6, <1>7, <1>8
     DEF Next, Tick, SliceStep, SdkAction, PlainCall, SemaphoreCall

\* A whole slice of emulated time passes idle only when no context could have
\* used it.
THEOREM IdleOnlyWhenBlockedHolds == Spec => []IdleOnlyWhenBlocked
<1>1. Init => WindowInv
  BY DEF Init, WindowInv
<1>2. CoreInv /\ WindowInv => IdleOnlyWhenBlocked
  <2> SUFFICES ASSUME CoreInv, WindowInv, phase = "account", AllIdle,
                      NEW i \in DOMAIN contexts
               PROVE  Blocked(contexts[i])
    BY DEF IdleOnlyWhenBlocked
  <2>1. /\ context_count = Len(contexts) /\ WindowBlocked /\ Blocked(Active)
        /\ idle_contexts + 1 >= context_count
    BY DEF WindowInv, AllIdle
  <2>2. /\ Len(contexts) \in Nat /\ i \in Nat /\ i >= 1 /\ i <= Len(contexts)
        /\ scheduler_cursor \in Nat /\ scheduler_cursor >= 1 /\ idle_contexts \in Nat
        /\ scheduler_cursor <= Len(contexts)
    <3>1. /\ contexts \in Seq(Context) /\ context_count <= Len(contexts)
          /\ scheduler_cursor <= context_count
          /\ scheduler_cursor \in Nat \ {0} /\ idle_contexts \in Nat
          /\ context_count \in Nat
      BY DEF CoreInv, TypeOK, LoopOK, InSlice
    <3>2. Len(contexts) \in Nat /\ i \in Nat /\ i >= 1 /\ i <= Len(contexts)
      BY <3>1
    <3>3. QED
      BY <3>1, <3>2, <2>1
  <2>3. idle_contexts + 1 >= Len(contexts)
    BY <2>1
  <2>4. i = scheduler_cursor \/ InWindow(i)
    BY <2>2, <2>3, WindowFull DEF InWindow
  <2>5. QED
    BY <2>1, <2>4 DEF WindowBlocked, Active
<1>3. QED
  BY <1>1, <1>2, WindowNext, CoreInvariant, PTL DEF Spec

-----------------------------------------------------------------------------
(* Only a post ends a wait for a semaphore.                                *)

\* What the handler left of such a wait, the rest of the call leaves too.
LEMMA CallKeepsWait ==
  ASSUME CoreInv, phase = "run",
         NEW cs \in Seq(Context), Len(cs) >= Len(contexts),
         SdkCall(cs, FALSE) \/ SdkCall(cs, TRUE) \/ SdkFault(cs),
         NEW i \in DOMAIN cs, cs[i].wait.kind = "semaphore"
  PROVE  contexts'[i].wait = cs[i].wait
<1>1. cs[i].wait \in Wait
  BY WaitTypes
<1>2. AgedWait(cs[i].wait, 1) = cs[i].wait /\ ~Satisfied(cs[i].wait)
  BY <1>1, AgedKind DEF Satisfied
<1>3. CASE SdkFault(cs)
  BY <1>3 DEF SdkFault
<1>4. ASSUME NEW sub \in BOOLEAN, SdkCall(cs, sub)
      PROVE  contexts'[i].wait = cs[i].wait
  BY <1>2, <1>4, SdkCallEffect
<1>5. TRUE \in BOOLEAN /\ FALSE \in BOOLEAN
  OBVIOUS
<1>6. QED
  BY <1>3, <1>4, <1>5

LEMMA SemWaitStep ==
  ASSUME CoreInv, ActiveNeverWaits, [Next]_vars, ~TickEnd,
         NEW i \in DOMAIN contexts, contexts[i].wait.kind = "semaphore"
  PROVE  \/ contexts'[i].wait = contexts[i].wait
         \/ SemPost(contexts[i].wait.arg)
<1>0. contexts \in Seq(Context) /\ Len(contexts) \in Nat /\ contexts[i].wait \in Wait
  BY WaitTypes DEF CoreInv, TypeOK, LoopOK
<1>1. \A n \in Nat : AgedWait(contexts[i].wait, n) = contexts[i].wait
  BY <1>0, AgedKind
<1>2. ~Satisfied(contexts[i].wait)
  BY DEF Satisfied
<1>3. phase = "run" => i # scheduler_cursor
  BY DEF ActiveNeverWaits, Active
<1>4. ASSUME phase = "run",
             NEW cs \in Seq(Context), Len(cs) >= Len(contexts),
             SdkCall(cs, FALSE) \/ SdkCall(cs, TRUE) \/ SdkFault(cs),
             i \in DOMAIN cs, cs[i].wait = contexts[i].wait
      PROVE  contexts'[i].wait = contexts[i].wait
  BY <1>4, CallKeepsWait
<1>5. CASE SliceBegin
  <2>1. PickCursor \in DOMAIN contexts
    BY <1>0, SchedulerAssumption DEF PickCursor, CoreInv, TypeOK, LoopOK
  <2>2. contexts' = Polled(contexts, PickCursor)
    BY <1>5 DEF SliceBegin
  <2>3. QED
    BY <1>0, <1>2, <2>1, <2>2, PolledType
<1>6. CASE InstructionBlock \/ BreakBlock \/ UnknownInstruction
  BY <1>1, <1>6, InstructionEffect
<1>7. CASE TaskReturn
  <2>1. scheduler_cursor \in DOMAIN contexts
        /\ contexts' = [contexts EXCEPT ![scheduler_cursor].cpu = "stopped"]
        /\ i # scheduler_cursor
    BY <1>3, <1>7, ActiveInRange DEF TaskReturn
  <2>2. QED
    BY <1>0, <2>1
<1>8. CASE PlainCall
  <2>1. PICK cs : /\ Untouched(cs)
                  /\ SdkCall(cs, FALSE) \/ SdkCall(cs, TRUE) \/ SdkFault(cs)
    BY <1>8, PlainCallEffect
  <2>2. phase = "run"
    BY <1>8, PlainCallEffect
  <2>3. QED
    BY <1>4, <2>1, <2>2 DEF Untouched
<1>9. ASSUME NEW h \in Handles, SemPend(h)
      PROVE  contexts'[i].wait = contexts[i].wait
  <2>1. phase = "run"
    BY <1>9, SemPendEffect
  <2>2. PICK cs : /\ cs = contexts \/ Waiting(cs, Semaphore(h))
                  /\ SdkCall(cs, FALSE) \/ SdkFault(cs)
    BY <1>9, SemPendEffect
  <2>3. /\ cs \in Seq(Context) /\ Len(cs) >= Len(contexts)
        /\ i \in DOMAIN cs /\ cs[i].wait = contexts[i].wait
    BY <1>0, <1>3, <2>1, <2>2 DEF Waiting
  <2>4. QED
    BY <1>4, <2>1, <2>2, <2>3
<1>10. ASSUME NEW h \in Handles, SemPost(h)
       PROVE  contexts'[i].wait = contexts[i].wait \/ SemPost(contexts[i].wait.arg)
  <2>1. phase = "run"
    BY <1>10, SemPostEffect
  <2>2. PICK cs \in Seq(Context) :
          /\ Len(cs) = Len(contexts) /\ DOMAIN cs = DOMAIN contexts
          /\ cs[i].wait = contexts[i].wait \/ contexts[i].wait = Semaphore(h)
          /\ SdkCall(cs, FALSE)
    BY <1>10, SemPostEffect
  <2>3. CASE cs[i].wait = contexts[i].wait
    <3>1. Len(cs) >= Len(contexts)
      BY <1>0, <2>2
    <3>2. QED
      BY <1>4, <2>1, <2>2, <2>3, <3>1
  <2>4. CASE contexts[i].wait = Semaphore(h)
    <3>1. contexts[i].wait.arg = h
      BY <2>4 DEF Semaphore
    <3>2. QED
      BY <1>10, <3>1
  <2>5. QED
    BY <2>2, <2>3, <2>4
<1>11. CASE Delay
  <2>1. phase = "run"
    BY <1>11, DelayEffect
  <2>2. PICK cs : /\ cs = contexts \/ \E n \in Nat : Waiting(cs, UntilCycle(n))
                  /\ SdkCall(cs, FALSE)
    BY <1>11, DelayEffect
  <2>3. /\ cs \in Seq(Context) /\ Len(cs) >= Len(contexts)
        /\ i \in DOMAIN cs /\ cs[i].wait = contexts[i].wait
    BY <1>0, <1>3, <2>1, <2>2 DEF Waiting
  <2>4. QED
    BY <1>4, <2>1, <2>2, <2>3
<1>12. CASE WaveoutWrite
  <2>1. phase = "run"
    BY <1>12, WriteEffect
  <2>2. PICK cs \in Seq(Context) :
          /\ Len(cs) = Len(contexts) /\ DOMAIN cs = DOMAIN contexts
          /\ SdkCall(cs, FALSE)
          /\ \A j \in DOMAIN contexts : j # scheduler_cursor => cs[j] = contexts[j]
    BY <1>12, WriteEffect
  <2>3. cs[i].wait = contexts[i].wait /\ Len(cs) >= Len(contexts)
    BY <1>0, <1>3, <2>1, <2>2
  <2>4. QED
    BY <1>4, <2>1, <2>2, <2>3
<1>13. CASE SliceEnd
  <2>1. SkippedCycles \in Nat /\ contexts' = Elapse(contexts, SkippedCycles)
    BY <1>13, SliceEndSkips
  <2>2. QED
    BY <1>0, <1>1, <2>1, ElapseType
<1>14. TickBegin \/ RunError \/ HostStop \/ DrainAudio \/ UNCHANGED vars => UNCHANGED contexts
  BY DEF TickBegin, RunError, HostStop, DrainAudio, vars
<1>15. QED
  BY <1>5, <1>6, <1>7, <1>8, <1>9, <1>10, <1>11, <1>12, <1>13, <1>14
     DEF Next, Tick, SliceStep, SemaphoreCall, PlainCall

\* No deadline, no audio space, no deletion of the semaphore and no scheduling
\* ends a wait in pend_semaphore.
THEOREM SemWaitEndsByPostHolds == Spec => SemWaitEndsByPost
<1>1. CoreInv /\ ActiveNeverWaits /\ [Next]_vars =>
        [\A i \in DOMAIN contexts :
           /\ contexts[i].wait.kind = "semaphore"
           /\ ~TickEnd
           => \/ contexts'[i].wait = contexts[i].wait
              \/ SemPost(contexts[i].wait.arg)]_vars
  BY SemWaitStep
<1>2. QED
  BY <1>1, CoreInvariant, ActiveNeverWaitsHolds, PTL DEF Spec, SemWaitEndsByPost

-----------------------------------------------------------------------------
(* A deferred waveout_write is repeated.  What makes it inductive: a context *)
(* at the call waits for nothing else, and one that stopped waiting is the   *)
(* active one, which executes nothing before the call.                       *)

Retrying(c) == c.at = "waveout_write" /\ c.wait.kind = "none" /\ c.cpu = "running"

WriteInv ==
  /\ \A i \in DOMAIN contexts :
       /\ contexts[i].wait.kind = "audio" => contexts[i].at = "waveout_write"
       /\ contexts[i].at = "waveout_write" => contexts[i].wait.kind \in {"none", "audio"}
       /\ ~AsyncPlayer /\ Retrying(contexts[i]) =>
            phase \in {"run", "failed"} /\ i = scheduler_cursor
  /\ ~AsyncPlayer /\ phase = "run" /\ Active.at = "waveout_write" => CanWrite

\* What one context keeps of WriteInv when its place and the kind of its wait
\* stay and nobody resumes it.
LEMMA PlaceKept ==
  ASSUME WriteInv, NEW j \in DOMAIN contexts, NEW d,
         d.at = contexts[j].at, d.wait.kind = contexts[j].wait.kind,
         contexts[j].cpu = "stopped" => d.cpu = "stopped",
         contexts[j].cpu \in {"running", "stopped"}
  PROVE  /\ d.wait.kind = "audio" => d.at = "waveout_write"
         /\ d.at = "waveout_write" => d.wait.kind \in {"none", "audio"}
         /\ ~AsyncPlayer /\ Retrying(d) =>
              phase \in {"run", "failed"} /\ j = scheduler_cursor
BY DEF WriteInv, Retrying

LEMMA CpuTypes ==
  ASSUME NEW cs \in Seq(Context)
  PROVE  \A i \in DOMAIN cs : /\ cs[i].cpu \in {"running", "stopped"}
                              /\ cs[i].at \in {"code", "waveout_write"}
<1>1. \A c \in Context : c.cpu \in {"running", "stopped"} /\ c.at \in {"code", "waveout_write"}
  BY DEF Context
<1>2. QED
  BY <1>1

\* The handler left cs with the caller, and whom it changed, at no waveout_write.
Settled(cs) ==
  /\ cs \in Seq(Context) /\ Len(cs) >= Len(contexts)
  /\ cs[scheduler_cursor].at = "code"
  /\ \A i \in DOMAIN cs :
       \/ cs[i].at = "code" /\ cs[i].wait.kind # "audio"
       \/ /\ i \in DOMAIN contexts /\ i # scheduler_cursor
          /\ cs[i].at = contexts[i].at /\ cs[i].wait = contexts[i].wait
          /\ contexts[i].cpu = "stopped" => cs[i].cpu = "stopped"

LEMMA SettledCall ==
  ASSUME CoreInv, WriteInv, phase = "run", NEW cs, Settled(cs),
         SdkCall(cs, FALSE) \/ SdkCall(cs, TRUE) \/ SdkFault(cs)
  PROVE  WriteInv'
<1>0. contexts \in Seq(Context) /\ cs \in Seq(Context) /\ Len(cs) >= Len(contexts)
  BY DEF Settled, CoreInv, TypeOK, LoopOK
<1>1. scheduler_cursor' = scheduler_cursor /\ phase' \in {"run", "account", "failed"}
  BY SdkCallEffect, <1>0 DEF SdkCall, SdkFault, loopVars, AfterUnits
<1>2. /\ DOMAIN contexts' = DOMAIN cs
      /\ \A i \in DOMAIN cs :
           /\ contexts'[i].cpu = cs[i].cpu /\ contexts'[i].at = cs[i].at
           /\ \/ contexts'[i].wait.kind = cs[i].wait.kind
              \/ i = scheduler_cursor /\ contexts'[i].wait.kind = "none"
  <2>1. CASE SdkFault(cs)
    BY <2>1 DEF SdkFault
  <2>2. ASSUME NEW sub \in BOOLEAN, SdkCall(cs, sub)
        PROVE  /\ DOMAIN contexts' = DOMAIN cs
               /\ \A i \in DOMAIN cs :
                    /\ contexts'[i].cpu = cs[i].cpu /\ contexts'[i].at = cs[i].at
                    /\ \/ contexts'[i].wait.kind = cs[i].wait.kind
                       \/ i = scheduler_cursor /\ contexts'[i].wait.kind = "none"
    <3>1. \A i \in DOMAIN cs : AgedWait(cs[i].wait, 1).kind = cs[i].wait.kind
      BY <1>0, WaitTypes, AgedKind
    <3>2. NoWait.kind = "none"
      BY DEF NoWait
    <3>3. QED
      BY <1>0, <2>2, <3>1, <3>2, SdkCallEffect
  <2>3. TRUE \in BOOLEAN /\ FALSE \in BOOLEAN
    OBVIOUS
  <2>4. QED
    BY <2>1, <2>2, <2>3
<1>3. ASSUME NEW i \in DOMAIN contexts'
      PROVE  /\ contexts'[i].wait.kind = "audio" => contexts'[i].at = "waveout_write"
             /\ contexts'[i].at = "waveout_write" => contexts'[i].wait.kind \in {"none", "audio"}
             /\ ~AsyncPlayer => ~Retrying(contexts'[i])
  <2>1. i \in DOMAIN cs
    BY <1>2
  <2>2. CASE cs[i].at = "code" /\ cs[i].wait.kind # "audio"
    BY <1>2, <2>1, <2>2 DEF Retrying
  <2>3. CASE /\ i \in DOMAIN contexts /\ i # scheduler_cursor
             /\ cs[i].at = contexts[i].at /\ cs[i].wait = contexts[i].wait
             /\ contexts[i].cpu = "stopped" => cs[i].cpu = "stopped"
    <3>1. /\ contexts'[i].at = contexts[i].at
          /\ contexts'[i].wait.kind = contexts[i].wait.kind
          /\ contexts[i].cpu = "stopped" => contexts'[i].cpu = "stopped"
          /\ contexts[i].cpu \in {"running", "stopped"}
      BY <1>0, <1>2, <2>1, <2>3, CpuTypes
    <3>2. QED
      BY <2>3, <3>1, PlaceKept
  <2>4. QED
    BY <2>1, <2>2, <2>3 DEF Settled
<1>4. phase' = "run" => contexts'[scheduler_cursor'].at = "code"
  <2>1. scheduler_cursor \in DOMAIN contexts
    BY ActiveInRange
  <2>2. scheduler_cursor \in DOMAIN cs
    BY <1>0, <2>1
  <2>3. QED
    BY <1>1, <1>2, <2>2 DEF Settled
<1>5. QED
  BY <1>1, <1>3, <1>4 DEF WriteInv, Active, Retrying

\* Every SDK call but waveout_write is made elsewhere and leaves the others be.
LEMMA CallsSettle ==
  ASSUME CoreInv, WriteInv, ActiveNeverWaits, PlainCall \/ SemaphoreCall \/ Delay
  PROVE  /\ phase = "run"
         /\ \E cs : /\ Settled(cs)
                    /\ SdkCall(cs, FALSE) \/ SdkCall(cs, TRUE) \/ SdkFault(cs)
<1>0. contexts \in Seq(Context) /\ Len(contexts) \in Nat
  BY DEF CoreInv, TypeOK, LoopOK
<1>1. phase = "run" /\ Active.at = "code"
  BY PlainCallEffect, SemPendEffect, SemPostEffect, DelayEffect
     DEF SemaphoreCall, PlainCall
<1>2. scheduler_cursor \in DOMAIN contexts /\ Active.wait.kind = "none"
  BY <1>1, ActiveInRange DEF ActiveNeverWaits
<1>3. ASSUME NEW cs, Untouched(cs) PROVE Settled(cs)
  <2>1. NoWait.kind # "audio"
    BY DEF NoWait
  <2>2. cs[scheduler_cursor].at = "code" /\ cs[scheduler_cursor].wait.kind = "none"
    BY <1>1, <1>2, <1>3 DEF Untouched, Active
  <2>3. QED
    BY <1>3, <2>1, <2>2 DEF Untouched, Settled
<1>4. ASSUME NEW cs, NEW w, Waiting(cs, w), w.kind # "audio" PROVE Settled(cs)
  <2>1. cs[scheduler_cursor].at = "code" /\ cs[scheduler_cursor].wait.kind # "audio"
    BY <1>1, <1>2, <1>4 DEF Waiting, Active
  <2>2. QED
    BY <1>0, <1>4, <2>1 DEF Waiting, Settled
<1>5. Settled(contexts)
  <2>1. Untouched(contexts)
    BY <1>0 DEF Untouched, WithinLimit
  <2>2. QED
    BY <1>3, <2>1
<1>6. CASE PlainCall
  BY <1>1, <1>3, <1>6, PlainCallEffect
<1>7. ASSUME NEW h \in Handles, SemPend(h)
      PROVE  \E cs : Settled(cs) /\ (SdkCall(cs, FALSE) \/ SdkFault(cs))
  <2>1. Semaphore(h).kind # "audio"
    BY DEF Semaphore
  <2>2. PICK cs : /\ cs = contexts \/ Waiting(cs, Semaphore(h))
                  /\ SdkCall(cs, FALSE) \/ SdkFault(cs)
    BY <1>7, SemPendEffect
  <2>3. QED
    BY <1>4, <1>5, <2>1, <2>2
<1>8. ASSUME NEW h \in Handles, SemPost(h)
      PROVE  \E cs : Settled(cs) /\ SdkCall(cs, FALSE)
  <2>1. PICK cs \in Seq(Context) :
          /\ Len(cs) = Len(contexts) /\ DOMAIN cs = DOMAIN contexts
          /\ \A i \in DOMAIN contexts :
               /\ cs[i].at = contexts[i].at /\ cs[i].cpu = contexts[i].cpu
               /\ \/ cs[i].wait = contexts[i].wait
                  \/ contexts[i].wait = Semaphore(h) /\ cs[i].wait = NoWait
          /\ SdkCall(cs, FALSE)
    BY <1>8, SemPostEffect
  <2>2. Semaphore(h).kind = "semaphore" /\ NoWait.kind = "none"
    BY DEF Semaphore, NoWait
  <2>3. \A i \in DOMAIN contexts :
          contexts[i].wait = Semaphore(h) => contexts[i].at = "code"
    BY <1>0, <2>2, CpuTypes DEF WriteInv
  <2>4. cs[scheduler_cursor].at = "code" /\ cs[scheduler_cursor].wait.kind = "none"
    BY <1>1, <1>2, <2>1, <2>2 DEF Active
  <2>5. \A i \in DOMAIN cs :
          \/ cs[i].at = "code" /\ cs[i].wait.kind # "audio"
          \/ /\ i \in DOMAIN contexts /\ i # scheduler_cursor
             /\ cs[i].at = contexts[i].at /\ cs[i].wait = contexts[i].wait
             /\ contexts[i].cpu = "stopped" => cs[i].cpu = "stopped"
    BY <2>1, <2>2, <2>3, <2>4
  <2>6. Settled(cs)
    BY <1>0, <2>1, <2>4, <2>5 DEF Settled
  <2>7. QED
    BY <2>1, <2>6
<1>9. CASE Delay
  <2>1. \A n \in Nat : UntilCycle(n).kind # "audio"
    BY DEF UntilCycle
  <2>2. PICK cs : /\ cs = contexts \/ \E n \in Nat : Waiting(cs, UntilCycle(n))
                  /\ SdkCall(cs, FALSE)
    BY <1>9, DelayEffect
  <2>3. QED
    BY <1>1, <1>4, <1>5, <2>1, <2>2
<1>10. QED
  BY <1>1, <1>6, <1>7, <1>8, <1>9 DEF SemaphoreCall, PlainCall

LEMMA WriteNext == CoreInv /\ ActiveNeverWaits /\ WriteInv /\ [Next]_vars => WriteInv'
<1> SUFFICES ASSUME CoreInv, ActiveNeverWaits, WriteInv, [Next]_vars PROVE WriteInv'
  OBVIOUS
<1>0. /\ contexts \in Seq(Context) /\ Len(contexts) \in Nat
      /\ \A i \in DOMAIN contexts : contexts[i].cpu \in {"running", "stopped"}
  BY CpuTypes DEF CoreInv, TypeOK, LoopOK
<1>1. CASE SliceBegin
  <2> DEFINE c == PickCursor
  <2>1. /\ c \in DOMAIN contexts
        /\ phase = "pick" /\ scheduler_cursor' = c
        /\ contexts' = Polled(contexts, c)
        /\ phase' = IF contexts'[c].wait.kind = "none" /\ contexts'[c].cpu = "running"
                    THEN "run" ELSE "account"
        /\ queued' = queued /\ audible' = audible
    BY <1>0, <1>1, SchedulerAssumption
       DEF SliceBegin, PickCursor, audioVars, CoreInv, TypeOK, LoopOK
  <2> HIDE DEF c
  <2>2. /\ DOMAIN contexts' = DOMAIN contexts
        /\ \A j \in DOMAIN contexts : j # c => contexts'[j] = contexts[j]
        /\ contexts'[c].cpu = contexts[c].cpu /\ contexts'[c].at = contexts[c].at
        /\ contexts'[c].wait = IF Satisfied(contexts[c].wait) THEN NoWait
                               ELSE contexts[c].wait
    BY <1>0, <2>1, PolledType
  <2>3. NoWait.kind = "none"
    BY DEF NoWait
  <2>4. \A i \in DOMAIN contexts :
          /\ contexts'[i].wait.kind = "audio" => contexts'[i].at = "waveout_write"
          /\ contexts'[i].at = "waveout_write" => contexts'[i].wait.kind \in {"none", "audio"}
    BY <2>2, <2>3 DEF WriteInv
  <2>5. ASSUME ~AsyncPlayer, NEW i \in DOMAIN contexts, Retrying(contexts'[i])
        PROVE  phase' = "run" /\ i = c
    <3>1. i = c
      BY <2>1, <2>2, <2>5 DEF WriteInv
    <3>2. QED
      BY <2>1, <2>5, <3>1 DEF Retrying
  <2>6. ASSUME ~AsyncPlayer, phase' = "run", contexts'[c].at = "waveout_write"
        PROVE  CanWrite
    <3>1. contexts[c].at = "waveout_write" /\ contexts[c].cpu = "running"
          /\ contexts[c].wait.kind \in {"none", "audio"}
      BY <1>0, <2>1, <2>2, <2>6 DEF WriteInv
    <3>2. contexts[c].wait.kind = "audio"
      BY <2>1, <2>6, <3>1 DEF WriteInv, Retrying
    <3>3. Satisfied(contexts[c].wait)
      BY <2>1, <2>2, <2>6, <3>2
    <3>4. QED
      BY <3>2, <3>3 DEF Satisfied
  <2>7. CanWrite' <=> CanWrite
    BY <2>1 DEF CanWrite
  <2>8. QED
    BY <2>1, <2>2, <2>4, <2>5, <2>6, <2>7 DEF WriteInv, Active
<1>2. CASE InstructionBlock \/ BreakBlock \/ UnknownInstruction
  <2>1. /\ phase = "run" /\ Active.at = "code"
        /\ scheduler_cursor' = scheduler_cursor
        /\ DOMAIN contexts' = DOMAIN contexts
    BY <1>2, InstructionEffect
  <2>2. PICK n \in Nat : \A i \in DOMAIN contexts :
          /\ contexts'[i].wait = AgedWait(contexts[i].wait, n)
          /\ contexts'[i].at = contexts[i].at
          /\ contexts[i].cpu = "stopped" => contexts'[i].cpu = "stopped"
    BY <1>2, InstructionEffect
  <2>3. \A i \in DOMAIN contexts : contexts'[i].wait.kind = contexts[i].wait.kind
    BY <1>0, <2>2, WaitTypes, AgedKind
  <2>4. scheduler_cursor \in DOMAIN contexts
    BY <2>1, ActiveInRange
  <2>5. \A i \in DOMAIN contexts :
          /\ contexts'[i].wait.kind = "audio" => contexts'[i].at = "waveout_write"
          /\ contexts'[i].at = "waveout_write" => contexts'[i].wait.kind \in {"none", "audio"}
          /\ ~AsyncPlayer /\ Retrying(contexts'[i]) => i = scheduler_cursor
    BY <1>0, <2>2, <2>3, PlaceKept
  <2>6. contexts'[scheduler_cursor].at = "code"
    BY <2>1, <2>2, <2>4 DEF Active
  <2>7. QED
    BY <2>1, <2>5, <2>6 DEF WriteInv, Active, Retrying
<1>3. CASE TaskReturn
  <2>1. /\ phase = "run" /\ Active.at = "code" /\ phase' = "account"
        /\ scheduler_cursor' = scheduler_cursor
        /\ contexts' = [contexts EXCEPT ![scheduler_cursor].cpu = "stopped"]
    BY <1>3 DEF TaskReturn, loopVars
  <2>2. scheduler_cursor \in DOMAIN contexts
    BY <2>1, ActiveInRange
  <2>3. \A c \in Context : LET d == [c EXCEPT !.cpu = "stopped"]
                           IN d.wait = c.wait /\ d.at = c.at /\ d.cpu = "stopped"
    BY DEF Context
  <2>4. /\ DOMAIN contexts' = DOMAIN contexts
        /\ \A i \in DOMAIN contexts :
             /\ contexts[i] \in Context
             /\ contexts'[i] = IF i = scheduler_cursor
                               THEN [contexts[i] EXCEPT !.cpu = "stopped"] ELSE contexts[i]
    BY <1>0, <2>1, <2>2
  <2>5. \A i \in DOMAIN contexts :
          /\ contexts'[i].wait = contexts[i].wait /\ contexts'[i].at = contexts[i].at
          /\ contexts[i].cpu = "stopped" => contexts'[i].cpu = "stopped"
          /\ i = scheduler_cursor => contexts'[i].at = "code"
    BY <2>1, <2>3, <2>4 DEF Active
  <2>6. \A i \in DOMAIN contexts :
          /\ contexts'[i].wait.kind = "audio" => contexts'[i].at = "waveout_write"
          /\ contexts'[i].at = "waveout_write" => contexts'[i].wait.kind \in {"none", "audio"}
          /\ ~AsyncPlayer /\ Retrying(contexts'[i]) => i = scheduler_cursor
    BY <1>0, <2>5, PlaceKept
  <2>7. QED
    BY <2>1, <2>4, <2>5, <2>6 DEF WriteInv, Retrying
<1>4. CASE PlainCall \/ SemaphoreCall \/ Delay
  BY <1>4, CallsSettle, SettledCall
<1>5. CASE WaveoutWrite
  <2>1. phase = "run" /\ scheduler_cursor \in DOMAIN contexts
    BY <1>5, WriteEffect, ActiveInRange
  <2>2. PICK cs \in Seq(Context) :
          /\ Len(cs) = Len(contexts) /\ DOMAIN cs = DOMAIN contexts
          /\ SdkCall(cs, FALSE)
          /\ \A i \in DOMAIN contexts :
               /\ cs[i].cpu = contexts[i].cpu
               /\ i # scheduler_cursor => cs[i] = contexts[i]
          /\ \/ /\ CanWrite
                /\ cs[scheduler_cursor].at = "code"
                /\ cs[scheduler_cursor].wait = Active.wait
             \/ /\ ~CanWrite /\ queued' = queued
                /\ cs[scheduler_cursor].at = "waveout_write"
                /\ cs[scheduler_cursor].wait = AudioWrite
             \/ /\ ~CanWrite /\ AsyncPlayer
                /\ cs[scheduler_cursor].at = "waveout_write"
                /\ cs[scheduler_cursor].wait = Active.wait
    BY <1>5, WriteEffect
  <2>3. Active.wait.kind = "none" /\ AudioWrite.kind = "audio" /\ NoWait.kind = "none"
    BY <2>1 DEF ActiveNeverWaits, AudioWrite, NoWait
  <2>4. CASE CanWrite /\ cs[scheduler_cursor].at = "code"
             /\ cs[scheduler_cursor].wait = Active.wait
    <3>1. Settled(cs)
      BY <1>0, <2>1, <2>2, <2>3, <2>4 DEF Settled
    <3>2. QED
      BY <2>1, <2>2, <3>1, SettledCall
  <2>5. CASE cs[scheduler_cursor].at = "waveout_write"
    <3>0. Len(cs) >= Len(contexts) /\ FALSE \in BOOLEAN
      BY <1>0, <2>2
    <3>1. /\ phase' \in {"run", "account"}
          /\ scheduler_cursor' = scheduler_cursor
          /\ phase' = "run" => contexts'[scheduler_cursor].wait.kind = "none"
          /\ DOMAIN contexts' = DOMAIN contexts
          /\ \A i \in DOMAIN contexts :
               /\ contexts'[i].cpu = contexts[i].cpu
               /\ contexts'[i].at = cs[i].at
               /\ \/ contexts'[i].wait = AgedWait(cs[i].wait, 1)
                  \/ /\ i = scheduler_cursor
                     /\ Satisfied(AgedWait(cs[i].wait, 1))
                     /\ contexts'[i].wait = NoWait
      BY <2>1, <2>2, <3>0, SdkCallEffect
    <3>2. \A i \in DOMAIN contexts : AgedWait(cs[i].wait, 1).kind = cs[i].wait.kind
      BY <2>2, WaitTypes, AgedKind
    <3>3. \A i \in DOMAIN contexts : i # scheduler_cursor =>
            /\ contexts'[i].at = contexts[i].at /\ contexts'[i].cpu = contexts[i].cpu
            /\ contexts'[i].wait.kind = contexts[i].wait.kind
      BY <2>2, <3>1, <3>2
    <3>4. \A i \in DOMAIN contexts : i # scheduler_cursor =>
            /\ contexts'[i].wait.kind = "audio" => contexts'[i].at = "waveout_write"
            /\ contexts'[i].at = "waveout_write" => contexts'[i].wait.kind \in {"none", "audio"}
            /\ ~AsyncPlayer => ~Retrying(contexts'[i])
      BY <1>0, <3>3, PlaceKept
    <3>5. contexts'[scheduler_cursor].at = "waveout_write"
          /\ contexts'[scheduler_cursor].wait.kind \in {"none", "audio"}
      BY <2>1, <2>2, <2>3, <2>5, <3>1, <3>2
    <3>6. ASSUME ~AsyncPlayer PROVE contexts'[scheduler_cursor].wait.kind # "none"
      <4>1. ~CanWrite /\ cs[scheduler_cursor].wait = AudioWrite
        BY <2>2, <2>5, <3>6
      <4>2. ~Satisfied(AgedWait(AudioWrite, 1))
        BY <2>3, <3>2, <4>1, <2>1 DEF Satisfied
      <4>3. QED
        BY <2>1, <2>3, <3>1, <3>2, <4>1, <4>2
    <3>7. QED
      BY <3>1, <3>4, <3>5, <3>6 DEF WriteInv, Retrying
  <2>6. QED
    BY <2>2, <2>4, <2>5
<1>6. CASE SliceEnd
  <2>1. SkippedCycles \in Nat /\ contexts' = Elapse(contexts, SkippedCycles)
        /\ phase = "account" /\ phase' = "pick"
    BY <1>6, SliceEndSkips DEF SliceEnd
  <2>2. /\ DOMAIN contexts' = DOMAIN contexts
        /\ \A i \in DOMAIN contexts :
             /\ contexts'[i].cpu = contexts[i].cpu /\ contexts'[i].at = contexts[i].at
             /\ contexts'[i].wait = AgedWait(contexts[i].wait, SkippedCycles)
    BY <1>0, <2>1, ElapseType
  <2>3. \A i \in DOMAIN contexts : contexts'[i].wait.kind = contexts[i].wait.kind
    BY <1>0, <2>1, <2>2, WaitTypes, AgedKind
  <2>4. \A i \in DOMAIN contexts :
          /\ contexts'[i].wait.kind = "audio" => contexts'[i].at = "waveout_write"
          /\ contexts'[i].at = "waveout_write" => contexts'[i].wait.kind \in {"none", "audio"}
          /\ ~AsyncPlayer => ~Retrying(contexts'[i])
    BY <1>0, <2>1, <2>2, <2>3, PlaceKept
  <2>5. QED
    BY <2>1, <2>2, <2>4 DEF WriteInv
<1>7. CASE TickEnd
  <2>0. PICK n \in 1..Len(contexts) : \E at \in [1..n -> Kept] :
          contexts' = [j \in 1..n |-> contexts[at[j]]]
    BY <1>7 DEF TickEnd, Retain
  <2>1. PICK at \in [1..n -> Kept] : contexts' = [j \in 1..n |-> contexts[at[j]]]
    BY <2>0
  <2>2. Kept \subseteq DOMAIN contexts
    BY <1>0 DEF Kept, Tasks, CoreInv, TypeOK, LoopOK
  <2>3. \A i \in DOMAIN contexts' : \E j \in DOMAIN contexts : contexts'[i] = contexts[j]
    BY <2>1, <2>2
  <2>4. phase = "pick" /\ phase' = "host"
    BY <1>7 DEF TickEnd
  <2>5. QED
    BY <2>3, <2>4 DEF WriteInv
<1>8. CASE TickBegin \/ RunError \/ HostStop \/ DrainAudio \/ UNCHANGED vars
  <2>1. /\ UNCHANGED <<contexts, scheduler_cursor, audible>>
        /\ \/ phase' = phase
           \/ phase # "failed" /\ phase # "run" /\ phase' # "run"
           \/ phase = "run" /\ phase' = "failed"
        /\ queued' = queued \/ queued' = queued - 1
    BY <1>8 DEF TickBegin, RunError, HostStop, DrainAudio, vars, loopVars, audioVars
  <2>2. CanWrite => CanWrite'
    BY <2>1, SchedulerAssumption DEF CanWrite, CoreInv, TypeOK, AudioOK
  <2>3. QED
    BY <2>1, <2>2 DEF WriteInv, Active
<1>9. QED
  BY <1>1, <1>2, <1>3, <1>4, <1>5, <1>6, <1>7, <1>8
     DEF Next, Tick, SliceStep, SdkAction, PlainCall, SemaphoreCall

\* A context that waits for queue space is still at its waveout_write, and with
\* no player of its own it goes on only when the call will be accepted.
THEOREM DeferredWriteRetriedHolds == Spec => []DeferredWriteRetried
<1>1. Init => WriteInv
  <2>1. NoWait.kind = "none"
    BY DEF NoWait
  <2>2. QED
    BY <2>1 DEF Init, WriteInv, Retrying
<1>2. WriteInv => DeferredWriteRetried
  BY DEF WriteInv, DeferredWriteRetried
<1>3. QED
  BY <1>1, <1>2, WriteNext, CoreInvariant, ActiveNeverWaitsHolds, PTL DEF Spec

-----------------------------------------------------------------------------
(* A call of tick makes progress with every step.                          *)

InFrame == phase \in {"pick", "run", "spin", "account"}

\* What is left to do in a frame: units of the frame, units of the slice,
\* contexts that may still be found idle, and the parts of the slice.
Work ==
  << remaining_cycles, FrameCycles - executed, Len(contexts) - idle_contexts,
     IF phase = "pick" THEN 2 ELSE IF phase = "account" THEN 0 ELSE 1 >>

RoundInv ==
  /\ phase \in {"host", "pick"} => executed = 0
  /\ InFrame => idle_contexts < Len(contexts)
  /\ InSlice => remaining_cycles > 0

LEMMA WorkType ==
  ASSUME CoreInv, RoundInv, InFrame
  PROVE  Work \in Quads
<1>1. /\ remaining_cycles \in Nat /\ FrameCycles \in Nat /\ executed \in 0 .. FrameCycles
      /\ Len(contexts) \in Nat /\ idle_contexts \in Nat /\ idle_contexts < Len(contexts)
  BY SchedulerAssumption DEF CoreInv, TypeOK, LoopOK, RoundInv
<1> DEFINE rank == IF phase = "pick" THEN 2 ELSE IF phase = "account" THEN 0 ELSE 1
<1>2. rank \in Nat
  OBVIOUS
<1> HIDE DEF rank
<1>3. FrameCycles - executed \in Nat /\ Len(contexts) - idle_contexts \in Nat
  BY <1>1
<1>4. Work = <<remaining_cycles, FrameCycles - executed, Len(contexts) - idle_contexts, rank>>
  BY DEF Work, rank
<1>5. QED
  BY <1>1, <1>2, <1>3, <1>4 DEF Quads

\* The four ways in which there is less to do.
LEMMA LessWork ==
  ASSUME CoreInv, CoreInv',
         \/ remaining_cycles' < remaining_cycles
         \/ remaining_cycles' = remaining_cycles /\ executed' > executed
         \/ /\ remaining_cycles' = remaining_cycles /\ executed' = executed
            /\ Len(contexts') - idle_contexts' < Len(contexts) - idle_contexts
         \/ /\ remaining_cycles' = remaining_cycles /\ executed' = executed
            /\ Len(contexts') - idle_contexts' = Len(contexts) - idle_contexts
            /\ \/ phase = "pick" /\ phase' \in {"run", "account"}
               \/ phase = "run" /\ phase' = "account"
  PROVE  Descends(Work', Work)
<1>1. /\ FrameCycles \in Nat /\ executed \in 0 .. FrameCycles /\ executed' \in 0 .. FrameCycles
      /\ FrameCycles' = FrameCycles
  BY SchedulerAssumption DEF CoreInv, TypeOK, LoopOK
<1>2. CASE remaining_cycles' < remaining_cycles
  <2>1. 1 \in DOMAIN Work /\ Work'[1] < Work[1] /\ \A m \in 1 .. 1 - 1 : Work'[m] = Work[m]
    BY <1>2 DEF Work
  <2>2. QED
    BY <2>1 DEF Descends
<1>3. CASE remaining_cycles' = remaining_cycles /\ executed' > executed
  <2> DEFINE left == FrameCycles - executed
  <2>a. left' < left
    <3>1. \A n, a, b \in Int : b > a => n - b < n - a
      OBVIOUS
    <3>2. FrameCycles \in Int /\ executed \in Int /\ executed' \in Int
      BY <1>1
    <3>3. QED
      BY <1>3, <3>1, <3>2
  <2> HIDE DEF left
  <2>1. 2 \in DOMAIN Work /\ Work'[2] < Work[2] /\ \A m \in 1 .. 2 - 1 : Work'[m] = Work[m]
    <3>1. Work[2] = left /\ Work'[2] = left' /\ Work[1] = Work'[1] /\ 2 \in DOMAIN Work
      BY <1>3 DEF Work, left
    <3>2. QED
      BY <2>a, <3>1
  <2>2. QED
    BY <2>1 DEF Descends
<1>4. CASE /\ remaining_cycles' = remaining_cycles /\ executed' = executed
           /\ Len(contexts') - idle_contexts' < Len(contexts) - idle_contexts
  <2>1. 3 \in DOMAIN Work /\ Work'[3] < Work[3] /\ \A m \in 1 .. 3 - 1 : Work'[m] = Work[m]
    BY <1>1, <1>4 DEF Work
  <2>2. QED
    BY <2>1 DEF Descends
<1>5. CASE /\ remaining_cycles' = remaining_cycles /\ executed' = executed
           /\ Len(contexts') - idle_contexts' = Len(contexts) - idle_contexts
           /\ \/ phase = "pick" /\ phase' \in {"run", "account"}
              \/ phase = "run" /\ phase' = "account"
  <2>1. 4 \in DOMAIN Work /\ Work'[4] < Work[4] /\ \A m \in 1 .. 4 - 1 : Work'[m] = Work[m]
    BY <1>1, <1>5 DEF Work
  <2>2. QED
    BY <2>1 DEF Descends
<1>6. QED
  BY <1>2, <1>3, <1>4, <1>5

\* A step of a slice executes something, ends the slice or fails.
LEMMA SliceStepProgress ==
  ASSUME CoreInv, CoreInv', SliceStep
  PROVE  /\ phase = "run" /\ UNCHANGED loopVars
         /\ Len(contexts') >= Len(contexts)
         /\ Len(contexts') > Len(contexts) => Len(contexts') <= MaxTasks + 1
         /\ \/ phase' = "failed"
            \/ phase' \in {"run", "spin", "account"} /\ executed' > executed
            \/ phase' = "account" /\ executed' = executed /\ Len(contexts') = Len(contexts)
<1>1. /\ executed \in Nat /\ contexts \in Seq(Context) /\ contexts' \in Seq(Context)
      /\ Len(contexts) \in Nat /\ Slice \in Nat
  BY SchedulerAssumption DEF CoreInv, TypeOK, LoopOK, Slice
<1>2. CASE InstructionBlock \/ BreakBlock \/ UnknownInstruction
  <2>1. phase = "run" /\ DOMAIN contexts' = DOMAIN contexts
    BY <1>2, InstructionEffect
  <2>2. Len(contexts') = Len(contexts)
    BY <1>1, <2>1
  <2>3. UNCHANGED loopVars
    BY <1>2 DEF InstructionBlock, BreakBlock, UnknownInstruction
  <2>4. CASE InstructionBlock \/ BreakBlock
    <3>1. PICK n \in 1 .. (Slice - executed) :
            /\ executed' = executed + n
            /\ phase' \in {"run", "spin", "account"}
      BY <2>4 DEF InstructionBlock, BreakBlock, AfterUnits
    <3>2. executed' > executed
      BY <1>1, <3>1
    <3>3. QED
      BY <1>1, <2>1, <2>2, <2>3, <3>1, <3>2
  <2>5. CASE UnknownInstruction
    <3>1. \/ phase' = "failed"
          \/ executed' = executed + 1 /\ phase' \in {"run", "account"}
      BY <2>5 DEF UnknownInstruction, AfterUnits
    <3>2. QED
      BY <1>1, <2>1, <2>2, <2>3, <3>1
  <2>6. QED
    BY <1>2, <2>4, <2>5
<1>3. CASE TaskReturn
  <2>1. Len(contexts') = Len(contexts)
    BY <1>1, <1>3 DEF TaskReturn
  <2>2. QED
    BY <1>1, <1>3, <2>1 DEF TaskReturn
<1>4. CASE RunError
  BY <1>1, <1>4 DEF RunError
<1>5. CASE SdkAction
  <2>1. phase = "run"
    BY <1>5, SdkActionCalls
  <2>2. PICK cs : Called(cs)
    BY <1>5, SdkActionCalls
  <2>3. CASE SdkFault(cs)
    BY <1>1, <2>1, <2>2, <2>3 DEF SdkFault, Called, WithinLimit
  <2>4. ASSUME NEW sub \in BOOLEAN, SdkCall(cs, sub)
        PROVE  /\ UNCHANGED loopVars /\ Len(contexts') = Len(cs)
               /\ phase' \in {"run", "account"} /\ executed' = executed + 1
    <3>1. cs \in Seq(Context) /\ Len(cs) >= Len(contexts)
      BY <2>2 DEF Called
    <3>2. Len(contexts') = Len(cs) /\ phase' \in {"run", "account"}
      BY <2>1, <2>4, <3>1, SdkCallCore
    <3>3. QED
      BY <2>4, <3>2 DEF SdkCall
  <2>5. SdkCall(cs, TRUE) \/ SdkCall(cs, FALSE) \/ SdkFault(cs)
    BY <2>2 DEF Called
  <2>6. /\ Len(cs) >= Len(contexts) /\ TRUE \in BOOLEAN /\ FALSE \in BOOLEAN
        /\ Len(cs) > Len(contexts) => Len(cs) <= MaxTasks + 1
    BY <2>2 DEF Called, WithinLimit
  <2>7. CASE SdkCall(cs, TRUE) \/ SdkCall(cs, FALSE)
    <3>1. /\ UNCHANGED loopVars /\ Len(contexts') = Len(cs)
          /\ phase' \in {"run", "account"} /\ executed' = executed + 1
      BY <2>4, <2>6, <2>7
    <3>2. QED
      BY <1>1, <2>1, <2>6, <3>1
  <2>8. QED
    BY <2>3, <2>5, <2>7
<1>6. QED
  BY <1>2, <1>3, <1>4, <1>5 DEF SliceStep, SdkAction, PlainCall, SemaphoreCall

LEMMA SliceBeginProgress ==
  ASSUME CoreInv, RoundInv, SliceBegin
  PROVE  /\ Len(contexts') = Len(contexts) /\ executed' = executed
         /\ remaining_cycles' = remaining_cycles /\ idle_contexts' = idle_contexts
         /\ phase = "pick" /\ phase' \in {"run", "account"}
<1>1. PickCursor \in DOMAIN contexts /\ contexts \in Seq(Context)
  BY DEF CoreInv, TypeOK, LoopOK, PickCursor
<1>2. Len(Polled(contexts, PickCursor)) = Len(contexts)
  BY <1>1, PolledType
<1>3. QED
  BY <1>2 DEF SliceBegin, RoundInv

\* The end of a slice charges what was executed, a slice when everybody was
\* idle, or one more context is known to be idle.
LEMMA SliceEndProgress ==
  ASSUME CoreInv, RoundInv, SliceEnd
  PROVE  /\ phase' = "pick" /\ executed' = 0
         /\ Len(contexts') = Len(contexts) /\ idle_contexts' < Len(contexts)
         /\ \/ remaining_cycles' < remaining_cycles
            \/ /\ remaining_cycles' = remaining_cycles /\ executed' = executed
               /\ idle_contexts' = idle_contexts + 1
<1>1. /\ phase = "account" /\ contexts \in Seq(Context) /\ Len(contexts) \in Nat
      /\ remaining_cycles \in Nat /\ Quantum \in Nat \ {0} /\ executed \in Nat
      /\ idle_contexts \in Nat /\ context_count \in Nat /\ context_count <= Len(contexts)
      /\ context_count > 0
      /\ executed <= Slice /\ SkippedCycles \in Nat
      /\ framebuffer_submitted => executed > 0
      /\ framebuffer_submitted \in BOOLEAN /\ FrameCycles \in Nat
  <2>1. phase = "account" /\ executed <= Slice /\ Slice <= remaining_cycles
        /\ remaining_cycles \in Nat /\ executed \in Nat /\ Slice \in Nat
    BY SchedulerAssumption DEF SliceEnd, CoreInv, TypeOK, LoopOK, InSlice, Slice
  <2>2. SkippedCycles \in Nat
    BY <2>1 DEF SkippedCycles, IdleCycles
  <2>3. QED
    BY <2>1, <2>2, SchedulerAssumption
       DEF CoreInv, TypeOK, LoopOK, LoopInv, InSlice
<1>2. Len(contexts') = Len(contexts)
  BY <1>1, ElapseType DEF SliceEnd
<1>3. phase' = "pick" /\ executed' = 0 /\ remaining_cycles' = remaining_cycles - ChargedCycles
      /\ idle_contexts' = IF executed > 0 \/ AllIdle THEN 0 ELSE idle_contexts + 1
  BY DEF SliceEnd
<1>4. CASE executed > 0
  <2>1. ChargedCycles > 0 /\ ChargedCycles \in Nat
    BY <1>1, <1>4 DEF ChargedCycles, IdleCycles, AllIdle, Slice
  <2>2. QED
    BY <1>1, <1>2, <1>3, <1>4, <2>1
<1>5. CASE executed = 0 /\ AllIdle
  <2>1. remaining_cycles > 0
    BY <1>1, <1>5 DEF RoundInv, InSlice
  <2>2. ChargedCycles > 0 /\ ChargedCycles \in Nat
    BY <1>1, <1>5, <2>1 DEF ChargedCycles, IdleCycles, Slice
  <2>3. QED
    BY <1>1, <1>2, <1>3, <1>5, <2>2
<1>6. CASE executed = 0 /\ ~AllIdle
  <2>1. ChargedCycles = 0
    BY <1>1, <1>6 DEF ChargedCycles, IdleCycles
  <2>2. idle_contexts + 1 < context_count
    BY <1>1, <1>6 DEF AllIdle
  <2>3. QED
    BY <1>1, <1>2, <1>3, <1>6, <2>1, <2>2
<1>7. QED
  BY <1>1, <1>4, <1>5, <1>6

LEMMA RoundInit == Init => RoundInv
  BY DEF Init, RoundInv, InFrame, InSlice

LEMMA RoundNext == CoreInv /\ RoundInv /\ [Next]_vars => RoundInv'
<1> SUFFICES ASSUME CoreInv, RoundInv, [Next]_vars PROVE RoundInv'
  OBVIOUS
<1>a. CoreInv'
  BY CoreNext
<1>b. /\ Len(contexts) \in Nat /\ Len(contexts') \in Nat /\ Len(contexts) >= 1
      /\ idle_contexts \in Nat
  BY <1>a DEF CoreInv, TypeOK, LoopOK
<1>1. CASE TickBegin
  BY <1>1, <1>b, SchedulerAssumption DEF TickBegin, RoundInv, InFrame, InSlice
<1>2. CASE SliceBegin
  <2>1. remaining_cycles > 0
    BY <1>2 DEF SliceBegin
  <2>2. QED
    BY <1>2, <2>1, SliceBeginProgress DEF RoundInv, InFrame, InSlice
<1>3. CASE SliceStep
  <2>1. phase' \in {"failed", "run", "spin", "account"}
    BY <1>3, <1>a, SliceStepProgress
  <2>2. /\ idle_contexts' = idle_contexts /\ remaining_cycles' = remaining_cycles
        /\ Len(contexts') >= Len(contexts) /\ phase = "run"
    BY <1>3, <1>a, SliceStepProgress DEF loopVars
  <2>3. QED
    BY <1>b, <2>1, <2>2 DEF RoundInv, InFrame, InSlice
<1>4. CASE SliceEnd
  BY <1>4, <1>b, SliceEndProgress DEF RoundInv, InFrame, InSlice
<1>5. CASE TickEnd
  BY <1>5 DEF TickEnd, RoundInv, InFrame, InSlice
<1>6. CASE DrainAudio
  BY <1>6 DEF DrainAudio, RoundInv, InFrame, InSlice, loopVars
<1>7. CASE HostStop
  BY <1>7 DEF HostStop, RoundInv, InFrame, InSlice
<1>8. CASE UNCHANGED vars
  BY <1>8 DEF vars, RoundInv, InFrame, InSlice, loopVars
<1>9. QED
  BY <1>1, <1>2, <1>3, <1>4, <1>5, <1>6, <1>7, <1>8 DEF Next, Tick

\* What a step of tick leaves to do is less than before, and TickEnd, the only
\* step of its loop that does not, ends the call.
LEMMA TickStep ==
  ASSUME CoreInv, RoundInv, Tick, phase # "host"
  PROVE  phase' \in {"host", "failed"} \/ Descends(Work', Work)
<1>a. CoreInv'
  BY CoreNext DEF Next
<1>b. /\ Len(contexts) \in Nat /\ Len(contexts') \in Nat
      /\ idle_contexts \in Nat /\ executed \in Nat /\ executed' \in Nat
  BY <1>a DEF CoreInv, TypeOK, LoopOK
<1>1. CASE TickBegin
  BY <1>1 DEF TickBegin
<1>2. CASE SliceBegin
  <2>1. /\ remaining_cycles' = remaining_cycles /\ executed' = executed
        /\ Len(contexts') - idle_contexts' = Len(contexts) - idle_contexts
        /\ phase = "pick" /\ phase' \in {"run", "account"}
    BY <1>2, SliceBeginProgress
  <2>2. QED
    BY <1>a, <2>1, LessWork
<1>3. CASE SliceStep
  <2>1. /\ phase = "run"
        /\ idle_contexts' = idle_contexts /\ remaining_cycles' = remaining_cycles
        /\ \/ phase' = "failed"
           \/ phase' \in {"run", "spin", "account"} /\ executed' > executed
           \/ phase' = "account" /\ executed' = executed /\ Len(contexts') = Len(contexts)
    BY <1>3, <1>a, SliceStepProgress DEF loopVars
  <2>2. QED
    BY <1>a, <2>1, LessWork
<1>4. CASE SliceEnd
  <2>1. /\ phase' = "pick" /\ executed' = 0 /\ Len(contexts') = Len(contexts)
        /\ \/ remaining_cycles' < remaining_cycles
           \/ /\ remaining_cycles' = remaining_cycles /\ executed' = executed
              /\ idle_contexts' = idle_contexts + 1
    BY <1>4, SliceEndProgress
  <2>2. idle_contexts' = idle_contexts + 1 =>
          Len(contexts') - idle_contexts' < Len(contexts) - idle_contexts
    BY <1>b, <2>1
  <2>3. QED
    BY <1>a, <2>1, <2>2, LessWork
<1>5. CASE TickEnd
  BY <1>5 DEF TickEnd
<1>6. QED
  BY <1>1, <1>2, <1>3, <1>4, <1>5 DEF Tick

\* A call of tick cannot go on for ever inside its own loop: each step of it
\* returns to the host, fails, or leaves less of the frame to do, in an order
\* in which nothing goes on descending (LeastQuad).  A context that is blocked,
\* a call that repeats and a round in which everybody is idle all use up
\* something; only the loop a BREAK leads to is outside of it, for there tick
\* takes no further step.  A player that drains the queue meanwhile neither
\* adds work nor takes any.
THEOREM FrameProgress ==
  Spec => [][/\ Tick /\ phase # "host" =>
                  \/ phase' \in {"host", "failed"}
                  \/ Work \in Quads /\ Work' \in Quads /\ Descends(Work', Work)
             /\ DrainAudio => Work' = Work]_vars
<1> DEFINE Progress == Tick /\ phase # "host" =>
                         \/ phase' \in {"host", "failed"}
                         \/ Work \in Quads /\ Work' \in Quads /\ Descends(Work', Work)
           Step == Progress /\ (DrainAudio => Work' = Work)
<1>1. Init => RoundInv
  BY RoundInit
<1>2. CoreInv /\ RoundInv /\ [Next]_vars => RoundInv'
  BY RoundNext
<1>3. CoreInv /\ RoundInv => (InFrame => Work \in Quads)
  BY WorkType
<1>4. CoreInv /\ RoundInv /\ (InFrame => Work \in Quads) /\ (InFrame => Work \in Quads)'
        /\ [Next]_vars => [Step]_vars
  <2>0. DrainAudio => Work' = Work
    BY DEF DrainAudio, Work, loopVars
  <2> SUFFICES ASSUME CoreInv, RoundInv, InFrame => Work \in Quads,
                      (InFrame => Work \in Quads)', Next, Tick, phase # "host",
                      phase' \notin {"host", "failed"}
               PROVE  Work \in Quads /\ Work' \in Quads /\ Descends(Work', Work)
    BY <2>0
  <2>1. CoreInv' /\ RoundInv'
    BY CoreNext, RoundNext
  <2>2. InFrame /\ InFrame'
    <3>1. phase \in {"pick", "run", "account"}
      <4>1. CASE SliceStep
        BY <2>1, <4>1, SliceStepProgress
      <4>2. QED
        BY <4>1 DEF Tick, TickBegin, SliceBegin, SliceEnd, TickEnd
    <3>2. phase' \in {"pick", "run", "spin", "account"}
      <4>1. CASE SliceStep
        BY <2>1, <4>1, SliceStepProgress
      <4>2. QED
        BY <4>1 DEF Tick, TickBegin, SliceBegin, SliceEnd, TickEnd
    <3>3. QED
      BY <3>1, <3>2 DEF InFrame
  <2>3. QED
    BY <2>2, TickStep
<1>5. Spec => []CoreInv
  BY CoreInvariant
<1>6. QED
  BY <1>1, <1>2, <1>3, <1>4, <1>5, PTL DEF Spec

-----------------------------------------------------------------------------
(* The turn of a context comes.                                            *)

\* How many slices end, at most, before the scheduler looks at place i.
Distance(i) ==
  IF i >= scheduler_cursor THEN i - scheduler_cursor
  ELSE MaxTasks + 1 - scheduler_cursor + i

RingInv == Len(contexts) <= MaxTasks + 1 /\ scheduler_cursor <= MaxTasks + 1

LEMMA RingNext == CoreInv /\ RingInv /\ [Next]_vars => RingInv'
<1> SUFFICES ASSUME CoreInv, RingInv, [Next]_vars PROVE RingInv'
  OBVIOUS
<1>a. CoreInv'
  BY CoreNext
<1>b. /\ Len(contexts) \in Nat /\ Len(contexts') \in Nat /\ Len(contexts) >= 1
      /\ scheduler_cursor \in Nat /\ context_count \in Nat /\ MaxTasks \in Nat
      /\ scheduler_cursor' \in Nat
  BY <1>a, SchedulerAssumption DEF CoreInv, TypeOK, LoopOK
<1>1. CASE SliceStep
  <2>1. /\ scheduler_cursor' = scheduler_cursor
        /\ Len(contexts') >= Len(contexts)
        /\ Len(contexts') > Len(contexts) => Len(contexts') <= MaxTasks + 1
    BY <1>1, <1>a, SliceStepProgress DEF loopVars
  <2>2. QED
    BY <1>b, <2>1 DEF RingInv
<1>2. CASE SliceBegin
  <2>1. PickCursor \in DOMAIN contexts /\ contexts \in Seq(Context)
    BY DEF CoreInv, TypeOK, LoopOK, PickCursor
  <2>2. Len(contexts') = Len(contexts)
    BY <1>2, <2>1, PolledType DEF SliceBegin
  <2>3. scheduler_cursor' <= Len(contexts)
    BY <1>2, <1>b, <2>1 DEF SliceBegin
  <2>4. QED
    BY <1>b, <2>2, <2>3 DEF RingInv
<1>3. CASE SliceEnd
  <2>1. SkippedCycles \in Nat /\ contexts \in Seq(Context)
    <3>1. executed <= Slice /\ Slice <= remaining_cycles /\ Slice \in Nat
          /\ remaining_cycles \in Nat /\ executed \in Nat
      BY <1>3, SchedulerAssumption DEF SliceEnd, CoreInv, TypeOK, LoopOK, InSlice, Slice
    <3>2. QED
      BY <3>1 DEF SkippedCycles, IdleCycles, CoreInv, TypeOK, LoopOK
  <2>2. Len(contexts') = Len(contexts)
    BY <1>3, <2>1, ElapseType DEF SliceEnd
  <2>3. scheduler_cursor' = NextCursor /\ context_count <= Len(contexts)
    BY <1>3 DEF SliceEnd, CoreInv, TypeOK, LoopOK, InSlice
  <2>4. scheduler_cursor' <= MaxTasks + 1
    BY <1>b, <2>3 DEF RingInv, NextCursor
  <2>5. QED
    BY <2>2, <2>4 DEF RingInv
<1>4. CASE TickEnd
  <2>1. PICK n \in 1..Len(contexts) : \E at \in [1..n -> Kept] :
          contexts' = [i \in 1..n |-> contexts[at[i]]]
    BY <1>4 DEF TickEnd, Retain
  <2>2. Len(contexts') = n
    BY <2>1, <1>b
  <2>3. QED
    BY <1>4, <1>b, <2>2 DEF RingInv, TickEnd, loopVars
<1>5. CASE TickBegin
  BY <1>5 DEF TickBegin, RingInv
<1>6. CASE DrainAudio \/ HostStop \/ UNCHANGED vars
  BY <1>6 DEF DrainAudio, HostStop, vars, loopVars, RingInv
<1>7. QED
  BY <1>1, <1>2, <1>3, <1>4, <1>5, <1>6 DEF Next, Tick

\* On a circle of n places with room for m: the step from cursor to the next
\* place comes nearer to every other place of the circle.
LEMMA NextIsNearer ==
  ASSUME NEW i \in Nat, NEW n \in Nat, NEW m \in Nat, NEW cursor \in Nat, NEW next \in Nat,
         i >= 1, i <= n, n <= m, cursor >= 1, cursor <= n, i # cursor,
         next = IF cursor >= n THEN 1 ELSE cursor + 1
  PROVE  (IF i >= next THEN i - next ELSE m - next + i)
           < (IF i >= cursor THEN i - cursor ELSE m - cursor + i)
OBVIOUS

\* A cursor past the last place goes back to the first, and comes nearer too.
LEMMA BackIsNearer ==
  ASSUME NEW i \in Nat, NEW n \in Nat, NEW m \in Nat, NEW cursor \in Nat, NEW next \in Nat,
         i >= 1, i <= n, cursor >= 1, cursor <= m,
         next = IF cursor > n THEN 1 ELSE cursor
  PROVE  (IF i >= next THEN i - next ELSE m - next + i)
           <= (IF i >= cursor THEN i - cursor ELSE m - cursor + i)
OBVIOUS

\* A context that is not blocked executes when it is looked at.
LEMMA LookedAt ==
  ASSUME CoreInv, SliceBegin, ~Blocked(contexts[PickCursor])
  PROVE  phase' = "run"
<1>1. PickCursor \in DOMAIN contexts /\ contexts \in Seq(Context)
  BY DEF CoreInv, TypeOK, LoopOK, PickCursor
<1> DEFINE c == contexts[PickCursor]
<1>2. /\ contexts'[PickCursor].cpu = c.cpu
      /\ contexts'[PickCursor].wait = IF Satisfied(c.wait) THEN NoWait ELSE c.wait
  BY <1>1, PolledType DEF SliceBegin
<1>3. c \in Context /\ c.wait \in Wait /\ c.cpu \in {"running", "stopped"}
  <2>1. c \in Context
    BY <1>1
  <2> HIDE DEF c
  <2>2. QED
    BY <2>1 DEF Context
<1>4. c.cpu = "running"
  BY <1>3 DEF Blocked
<1>5. contexts'[PickCursor].wait.kind = "none"
  <2>1. NoWait.kind = "none"
    BY DEF NoWait
  <2>2. c.wait.kind = "none" \/ Satisfied(c.wait)
    <3> HIDE DEF c
    <3>1. /\ c.wait.kind # "semaphore"
          /\ ~(c.wait.kind = "until" /\ c.wait.arg > 0)
          /\ ~(c.wait.kind = "audio" /\ ~CanWrite)
      BY DEF Blocked, c
    <3>2. c.wait.kind \in {"none", "semaphore", "until", "audio"}
          /\ (c.wait.kind = "until" => c.wait.arg \in Nat)
      BY <1>3 DEF Wait
    <3>3. QED
      BY <3>1, <3>2 DEF Satisfied
  <2>3. QED
    BY <1>2, <2>1, <2>2
<1>6. QED
  BY <1>2, <1>4, <1>5 DEF SliceBegin

\* The turn of every context comes, and it executes if it can.  While the
\* scheduler walks over the places, a slice that ends at another place comes
\* nearer to place i, and nothing else moves the scheduler away from it: not a
\* task that is made, not one that is reaped at the end of a frame.  When it is
\* there and the context is not blocked, the context executes.  With
\* FrameProgress, and as long as tick goes on being called, this is why no task
\* starves; that it goes on is a matter of fairness.
THEOREM TurnComes ==
  Spec => [][\A i \in DOMAIN contexts :
               /\ SliceEnd /\ scheduler_cursor # i /\ i <= context_count
                    => Distance(i)' < Distance(i)
               /\ ~SliceEnd => Distance(i)' <= Distance(i)
               /\ SliceBegin /\ scheduler_cursor' = i /\ ~Blocked(contexts[i])
                    => phase' = "run"]_vars
<1> DEFINE Comes(i) ==
             /\ SliceEnd /\ scheduler_cursor # i /\ i <= context_count
                  => Distance(i)' < Distance(i)
             /\ ~SliceEnd => Distance(i)' <= Distance(i)
             /\ SliceBegin /\ scheduler_cursor' = i /\ ~Blocked(contexts[i])
                  => phase' = "run"
           Step == \A i \in DOMAIN contexts : Comes(i)
<1>1. Init => RingInv
  BY SchedulerAssumption DEF Init, RingInv
<1>2. CoreInv /\ RingInv /\ [Next]_vars => [Step]_vars
  <2> SUFFICES ASSUME CoreInv, RingInv, Next, NEW i \in DOMAIN contexts
               PROVE  Comes(i)
    OBVIOUS
  <2>1. /\ i \in Nat /\ i >= 1 /\ i <= Len(contexts) /\ Len(contexts) \in Nat
        /\ scheduler_cursor \in Nat /\ scheduler_cursor >= 1
        /\ context_count \in Nat /\ MaxTasks \in Nat
    BY SchedulerAssumption DEF CoreInv, TypeOK, LoopOK
  <2> DEFINE room == MaxTasks + 1
  <2>0. room \in Nat
    BY <2>1
  <2>a. Distance(i) = IF i >= scheduler_cursor THEN i - scheduler_cursor
                      ELSE room - scheduler_cursor + i
    BY <2>1 DEF Distance, room
  <2>b. scheduler_cursor' \in Nat
    BY CoreNext DEF CoreInv, TypeOK, LoopOK
  <2>c. Distance(i)' = IF i >= scheduler_cursor' THEN i - scheduler_cursor'
                       ELSE room - scheduler_cursor' + i
    BY <2>1, <2>b DEF Distance, room
  <2> HIDE DEF room
  <2>2. ASSUME SliceEnd, scheduler_cursor # i, i <= context_count
        PROVE  Distance(i)' < Distance(i)
    <3>1. /\ scheduler_cursor <= context_count /\ context_count <= MaxTasks + 1
          /\ scheduler_cursor' = IF scheduler_cursor >= context_count THEN 1
                                 ELSE scheduler_cursor + 1
      BY <2>1, <2>2 DEF SliceEnd, NextCursor, CoreInv, TypeOK, LoopOK, InSlice, RingInv
    <3>2. scheduler_cursor' \in Nat
      BY <2>1, <3>1
    <3>3. context_count <= room
      BY <3>1 DEF room
    <3>4. (IF i >= scheduler_cursor' THEN i - scheduler_cursor' ELSE room - scheduler_cursor' + i)
            < (IF i >= scheduler_cursor THEN i - scheduler_cursor ELSE room - scheduler_cursor + i)
      BY <2>0, <2>1, <2>2, <3>1, <3>2, <3>3, NextIsNearer
    <3>5. QED
      BY <2>a, <2>c, <3>4
  <2>3. ASSUME ~SliceEnd PROVE Distance(i)' <= Distance(i)
    <3>1. CASE SliceBegin
      <4>1. scheduler_cursor <= MaxTasks + 1 /\ scheduler_cursor' = PickCursor
            /\ scheduler_cursor' \in Nat
        BY <2>1, <3>1 DEF SliceBegin, RingInv, PickCursor
      <4>2. scheduler_cursor <= room
        BY <4>1 DEF room
      <4>3. scheduler_cursor' = IF scheduler_cursor > Len(contexts) THEN 1 ELSE scheduler_cursor
        BY <4>1 DEF PickCursor
      <4>4. (IF i >= scheduler_cursor' THEN i - scheduler_cursor' ELSE room - scheduler_cursor' + i)
              <= (IF i >= scheduler_cursor THEN i - scheduler_cursor
                  ELSE room - scheduler_cursor + i)
        BY <2>0, <2>1, <4>1, <4>2, <4>3, BackIsNearer
      <4>5. QED
        BY <2>a, <2>c, <4>4
    <3>2. CASE ~SliceBegin
      <4>1. scheduler_cursor' = scheduler_cursor
        <5>1. CASE SliceStep
          BY <5>1, CoreNext, SliceStepProgress DEF loopVars
        <5>2. QED
          BY <2>3, <3>2, <5>1
             DEF Next, Tick, TickBegin, TickEnd, DrainAudio, HostStop, loopVars
      <4>2. Distance(i) \in Int
        BY <2>1 DEF Distance
      <4>3. QED
        BY <4>1, <4>2 DEF Distance
    <3>3. QED
      BY <3>1, <3>2
  <2>4. ASSUME SliceBegin, scheduler_cursor' = i, ~Blocked(contexts[i]) PROVE phase' = "run"
    BY <2>4, LookedAt DEF SliceBegin
  <2>5. QED
    BY <2>2, <2>3, <2>4
<1>3. QED
  BY <1>1, <1>2, RingNext, CoreInvariant, PTL DEF Spec

-----------------------------------------------------------------------------
(* Delays end at their deadline.                                           *)

\* The emulated time that a step takes; a frame counts its own from zero.
Elapsed == IF phase = "host" THEN 0 ELSE frame_cycles' - frame_cycles

\* What a step makes of a delay: it is shorter by the time that passed, or it
\* has ended and that much time has passed.
Shortened(old, new) ==
  \/ new = AgedWait(old, Elapsed)
  \/ new = NoWait /\ old.arg <= Elapsed

\* A handler leaves the delays of the others alone.
LEMMA OthersDelay ==
  ASSUME CoreInv, SdkAction,
         NEW i \in DOMAIN contexts, i # scheduler_cursor, contexts[i].wait.kind = "until"
  PROVE  \E cs : Called(cs) /\ i \in DOMAIN cs /\ cs[i].wait = contexts[i].wait
<1>0. contexts \in Seq(Context) /\ Len(contexts) \in Nat
  BY DEF CoreInv, TypeOK, LoopOK
<1>1. CASE PlainCall
  <2>1. PICK cs : /\ Untouched(cs)
                  /\ SdkCall(cs, FALSE) \/ SdkCall(cs, TRUE) \/ SdkFault(cs)
    BY <1>1, PlainCallEffect
  <2>2. QED
    BY <2>1 DEF Untouched, Called
<1>2. CASE \E h \in Handles : SemPend(h)
  <2>1. PICK h \in Handles : SemPend(h)
    BY <1>2
  <2>2. PICK cs : /\ cs = contexts \/ Waiting(cs, Semaphore(h))
                  /\ SdkCall(cs, FALSE) \/ SdkFault(cs)
    BY <2>1, SemPendEffect
  <2>3. /\ cs \in Seq(Context) /\ Len(cs) = Len(contexts)
        /\ i \in DOMAIN cs /\ cs[i].wait = contexts[i].wait
    BY <1>0, <2>2 DEF Waiting
  <2>4. Called(cs)
    <3>1. Len(cs) >= Len(contexts) /\ WithinLimit(cs)
      BY <1>0, <2>2, <2>3 DEF WithinLimit
    <3>2. QED
      BY <1>0, <2>2, <2>3, <3>1 DEF Called
  <2>5. QED
    BY <2>3, <2>4
<1>3. CASE \E h \in Handles : SemPost(h)
  <2>1. PICK h \in Handles : SemPost(h)
    BY <1>3
  <2>2. PICK cs \in Seq(Context) :
          /\ Len(cs) = Len(contexts) /\ DOMAIN cs = DOMAIN contexts
          /\ cs[i].wait = contexts[i].wait \/ contexts[i].wait = Semaphore(h)
          /\ SdkCall(cs, FALSE)
    BY <2>1, SemPostEffect
  <2>3. contexts[i].wait # Semaphore(h)
    BY DEF Semaphore
  <2>4. Called(cs)
    <3>1. Len(cs) >= Len(contexts) /\ WithinLimit(cs)
      BY <1>0, <2>2 DEF WithinLimit
    <3>2. QED
      BY <1>0, <2>2, <3>1 DEF Called
  <2>5. QED
    BY <2>2, <2>3, <2>4
<1>4. CASE Delay
  <2>1. PICK cs : /\ cs = contexts \/ \E n \in Nat : Waiting(cs, UntilCycle(n))
                  /\ SdkCall(cs, FALSE)
    BY <1>4, DelayEffect
  <2>2. /\ cs \in Seq(Context) /\ Len(cs) = Len(contexts)
        /\ i \in DOMAIN cs /\ cs[i].wait = contexts[i].wait
    BY <1>0, <2>1 DEF Waiting
  <2>3. Called(cs)
    <3>1. Len(cs) >= Len(contexts) /\ WithinLimit(cs)
      BY <1>0, <2>1, <2>2 DEF WithinLimit
    <3>2. QED
      BY <1>0, <2>1, <2>2, <3>1 DEF Called
  <2>4. QED
    BY <2>2, <2>3
<1>5. CASE WaveoutWrite
  <2>1. PICK cs \in Seq(Context) :
          /\ Len(cs) = Len(contexts) /\ DOMAIN cs = DOMAIN contexts
          /\ SdkCall(cs, FALSE)
          /\ \A j \in DOMAIN contexts : j # scheduler_cursor => cs[j] = contexts[j]
    BY <1>5, WriteEffect
  <2>2. Called(cs)
    <3>1. Len(cs) >= Len(contexts) /\ WithinLimit(cs)
      BY <1>0, <2>1 DEF WithinLimit
    <3>2. QED
      BY <1>0, <2>1, <3>1 DEF Called
  <2>3. QED
    BY <2>1, <2>2
<1>6. QED
  BY <1>1, <1>2, <1>3, <1>4, <1>5 DEF SdkAction, SemaphoreCall, PlainCall

LEMMA DeadlineStep ==
  ASSUME CoreInv, ActiveNeverWaits, [Next]_vars, ~TickEnd,
         NEW i \in DOMAIN contexts, contexts[i].wait.kind = "until"
  PROVE  Shortened(contexts[i].wait, contexts'[i].wait)
<1>0. /\ contexts \in Seq(Context) /\ contexts[i].wait \in Wait
      /\ frame_cycles \in Nat /\ contexts[i].wait.arg \in Nat
  BY WaitTypes DEF CoreInv, TypeOK, LoopOK, Wait
<1>1. AgedWait(contexts[i].wait, 0) = contexts[i].wait
  <2>1. \A w \in Wait : AgedWait(w, 0) = w
    BY DEF AgedWait, UntilCycle, Wait
  <2>2. QED
    BY <1>0, <2>1
<1>2. phase = "run" => i # scheduler_cursor
  BY DEF ActiveNeverWaits, Active
<1>3. ASSUME contexts'[i].wait = contexts[i].wait,
             phase = "host" \/ frame_cycles' = frame_cycles
      PROVE  Shortened(contexts[i].wait, contexts'[i].wait)
  BY <1>0, <1>1, <1>3 DEF Shortened, Elapsed
<1>4. ASSUME NEW n \in Nat, contexts'[i].wait = AgedWait(contexts[i].wait, n),
             frame_cycles' = frame_cycles + n, phase # "host"
      PROVE  Shortened(contexts[i].wait, contexts'[i].wait)
  <2>1. Elapsed = n
    BY <1>0, <1>4 DEF Elapsed
  <2>2. QED
    BY <1>4, <2>1 DEF Shortened
<1>5. CASE SliceBegin
  <2>1. PickCursor \in DOMAIN contexts
    BY <1>0, SchedulerAssumption DEF PickCursor, CoreInv, TypeOK, LoopOK
  <2>2. contexts' = Polled(contexts, PickCursor) /\ frame_cycles' = frame_cycles
        /\ phase = "pick"
    BY <1>5 DEF SliceBegin
  <2>3. CASE contexts'[i].wait = contexts[i].wait
    BY <1>3, <2>2, <2>3
  <2>4. CASE contexts'[i].wait # contexts[i].wait
    <3>1. Satisfied(contexts[i].wait) /\ contexts'[i].wait = NoWait
      BY <1>0, <2>1, <2>2, <2>4, PolledType
    <3>2. contexts[i].wait.arg = 0
      BY <3>1 DEF Satisfied
    <3>3. Elapsed = 0
      BY <1>0, <2>2 DEF Elapsed
    <3>4. QED
      BY <3>1, <3>2, <3>3 DEF Shortened
  <2>5. QED
    BY <2>3, <2>4
<1>6. CASE InstructionBlock \/ BreakBlock \/ UnknownInstruction
  <2>1. phase = "run"
    BY <1>6, InstructionEffect
  <2>2. PICK n \in Nat : /\ frame_cycles' = frame_cycles + n
                         /\ contexts'[i].wait = AgedWait(contexts[i].wait, n)
    BY <1>6, InstructionEffect
  <2>3. QED
    BY <1>4, <2>1, <2>2
<1>7. CASE TaskReturn
  <2>1. /\ scheduler_cursor \in DOMAIN contexts
        /\ contexts' = [contexts EXCEPT ![scheduler_cursor].cpu = "stopped"]
        /\ i # scheduler_cursor /\ frame_cycles' = frame_cycles
    BY <1>2, <1>7, ActiveInRange DEF TaskReturn
  <2>2. contexts'[i].wait = contexts[i].wait
    BY <1>0, <2>1
  <2>3. QED
    BY <1>3, <2>1, <2>2
<1>8. CASE SdkAction
  <2>1. phase = "run"
    BY <1>8, SdkActionCalls
  <2>2. PICK cs : Called(cs) /\ i \in DOMAIN cs /\ cs[i].wait = contexts[i].wait
    BY <1>2, <1>8, <2>1, OthersDelay
  <2>3. CASE SdkFault(cs)
    BY <1>3, <2>2, <2>3 DEF SdkFault
  <2>4. ASSUME NEW sub \in BOOLEAN, SdkCall(cs, sub)
        PROVE  Shortened(contexts[i].wait, contexts'[i].wait)
    <3>1. cs \in Seq(Context) /\ Len(cs) >= Len(contexts)
      BY <2>2 DEF Called
    <3>2. \/ contexts'[i].wait = AgedWait(cs[i].wait, 1)
          \/ i = scheduler_cursor
      BY <2>1, <2>2, <2>4, <3>1, SdkCallEffect
    <3>3. frame_cycles' = frame_cycles + 1
      BY <2>4 DEF SdkCall
    <3>4. QED
      BY <1>2, <1>4, <2>1, <2>2, <3>2, <3>3
  <2>5. TRUE \in BOOLEAN /\ FALSE \in BOOLEAN
    OBVIOUS
  <2>6. QED
    BY <2>2, <2>3, <2>4, <2>5 DEF Called
<1>9. CASE SliceEnd
  <2>1. /\ SkippedCycles \in Nat /\ contexts' = Elapse(contexts, SkippedCycles)
        /\ frame_cycles' = frame_cycles + SkippedCycles /\ phase # "host"
    BY <1>9, SliceEndSkips DEF SliceEnd
  <2>2. contexts'[i].wait = AgedWait(contexts[i].wait, SkippedCycles)
    BY <1>0, <2>1, ElapseType
  <2>3. QED
    BY <1>4, <2>1, <2>2
<1>10. CASE TickBegin \/ RunError \/ HostStop \/ DrainAudio \/ UNCHANGED vars
  <2>1. contexts' = contexts /\ (phase = "host" \/ frame_cycles' = frame_cycles)
    BY <1>10 DEF TickBegin, RunError, HostStop, DrainAudio, vars
  <2>2. QED
    BY <1>3, <2>1
<1>11. QED
  BY <1>5, <1>6, <1>7, <1>8, <1>9, <1>10
     DEF Next, Tick, SliceStep, SdkAction, SemaphoreCall, PlainCall

\* OSTimeDly, delay_ms and udelay last as long as was asked for, in emulated
\* time: whichever way time passes (instructions, the cost of a call, an idle
\* slice, the rest of a submitted frame), every delay is shortened by what the
\* frame is charged, none by more or less, none ends before its deadline, and no
\* call of another context makes it end or begin anew.
THEOREM DeadlineKept ==
  Spec => [][\A i \in DOMAIN contexts :
               /\ contexts[i].wait.kind = "until"
               /\ ~TickEnd
               => Shortened(contexts[i].wait, contexts'[i].wait)]_vars
<1>1. CoreInv /\ ActiveNeverWaits /\ [Next]_vars =>
        [\A i \in DOMAIN contexts :
           /\ contexts[i].wait.kind = "until"
           /\ ~TickEnd
           => Shortened(contexts[i].wait, contexts'[i].wait)]_vars
  BY DeadlineStep
<1>2. QED
  BY <1>1, CoreInvariant, ActiveNeverWaitsHolds, PTL DEF Spec

=============================================================================
