# A TLA+ verification project for DingooEmu

DingooEmu runs Dingoo A320 programs (`.app`) on a host. A Rust core
(`crates/dingooemu-core`) interprets or compiles MIPS code and answers the
firmware's SDK calls itself; two frontends drive it frame by frame: a standalone
window (`crates/dingooemu`) and a libretro core (`crates/dingooemu-libretro`).
This directory holds TLA+ specifications of the parts whose correctness depends
on sequences and interleavings, the TLC models that check them, and TLAPS proofs
of the properties that matter most. Paths below are relative to the repository;
`emulator.rs` is `crates/dingooemu-core/src/emulator.rs`.

To check: `tlc -config MCX.cfg MCX.tla` for each run below, `tlapm XProofs.tla`
for each proof module.

## 1. The system

| component | state | operations | interacts with |
|---|---|---|---|
| Frame loop and guest scheduler (`emulator.rs` `tick`, `run_task_slice`, `run_active_cpu_slice`) | main `cpu` and `main_wait`, `tasks`, `semaphores`, `scheduler_cursor`, `cycle_count`, `framebuffer_submitted` | one frame: slices of at most 4,096 cycles (`TASK_QUANTUM_CYCLES`), round robin over the main program and the tasks; idle time; reaping of stopped tasks | calls the SDK handlers and the block cache; called by both frontends once per frame |
| SDK calls (`emulator/sdk_hle/*`) | the scheduler's, the audio device's, the heap's | about 150 handlers: tasks, semaphores, delays, audio, files, GUI, input, time, memory, printf | run inside a slice, between two blocks |
| Guest heap (`memory.rs`) | `heap_ptr`, `allocations`, `free_blocks` | `malloc`, `free`, `realloc` | SDK calls, GUI messages, resources |
| Guest audio device (`audio.rs`) | queue, device, volume, a virtual queue while fast-forwarding | open, write, mute, volume, drain | `waveout_write` blocks on it; drained by the frontend or a rodio player |
| Asynchronous audio of the libretro core (`audio_output.rs`, `api.rs`) | `STATE` (registered, enabled, samples) under a Mutex, `ASYNC_AUDIO_REGISTERED` | register, unregister, enqueue, callback, set_state | three threads: emulation, the frontend's audio thread, the thread that calls `set_state` |
| Guest files and saves (`emulator.rs` 1433-1860, `sdk_hle/files.rs`) | open files with data, position and dirty flag; searches; the save directory | open, read, write, seek, close, flush, find | flushed on close, reset, unload |
| Save states and reset (`emulator.rs` 568-715, `save_state.rs`) | everything of the emulator | serialize, unserialize, reset | the libretro core's slots; rewinding |
| Block cache and JIT (`emulator.rs` 944-988, `jit.rs`) | direct-mapped decoded blocks, heat, compiled code, a compile budget per frame | look up, compile, execute, clear | must be cleared when guest code changes (load, cheats, cache calls) |
| CPU (`cpu.rs`) | registers, pc, running flag, policy for unknown instructions | one instruction | every block |
| GUI and input (`sdk_hle/gui.rs`, `sdk_hle/input.rs`, `input.rs`) | the key last reported, key edges, message buffers | poll, dispatch, callback | heap, frontend |
| Cheats (`cheats.rs`) | slots | set, apply at the start of a frame | memory, block cache |
| Libretro lifecycle and diagnostics (`api.rs`, `callbacks.rs`, `diagnostics.rs`, `logger.rs`) | the one `EMULATOR`, callback pointers, a diagnostic session | load, run, reset, serialize, unload, deinit | everything |
| Loader, video, standalone window, scripts | - | parsing, pixels, window | - |

What is hard in this code:

* contexts (main program and tasks) interleave at slices and at blocking SDK
  calls; the scheduler's counters are taken before a slice and used after it;
* a wait ends by somebody else's call, by time or by the host's player, and a
  deferred `waveout_write` is repeated;
* tasks stop, but stay in the vector with their wait until the frame ends;
* the heap's lists after long sequences of malloc, free and realloc;
* three threads share the asynchronous audio queue, and the frontend may call
  back at any time, also after the callbacks were taken back;
* dirty file data and everything that may happen before it is flushed;
* cached and compiled code against code that changes.

`PROJECT.json` lists every hazard at its line with the properties that cover it,
or with a note why none does.

What makes each component correct:

* scheduler: every call of `tick` ends and lasts exactly one frame of emulated
  time; every context that can run does; nothing is lost between post and pend;
  time passes idle only when nobody can use it; no unsigned counter wraps;
* heap: live and free blocks tile the heap; a request fails only when it fits
  nowhere; data survives every call;
* asynchronous audio: the queue is short, has only the newest frames, is empty
  while the callback is off; each frame heard is newer than the one before;
* files: what the guest wrote and closed is on disk; what is dirty reaches the
  disk on close, reset and unload; a failed flush loses nothing;
* save states: a rejected state changes nothing (not modelled: it is no step);
  a loaded one is the saved one, with what belongs to the host put back;
* block cache: what executes is what is in memory since the last invalidation;
* GUI: every press the guest can see is reported once, and a refused allocation
  loses none.

## 2. The models

### Scheduler (`Scheduler.tla`, `MCScheduler.tla`)

The frame loop with every SDK call that blocks, wakes, creates or stops a
context. The guest is any program: which instruction or call comes next is a
free choice, so the properties hold for all guest programs within the bounds.

| model | code |
|---|---|
| `contexts[1]`, `contexts[i + 2]` | `cpu` with `main_wait`, `tasks[i]` |
| `scheduler_cursor` | `scheduler_cursor + 1` (sequences start at 1) |
| one unit of time | one instruction or SDK call, `CPU_CYCLES_PER_INSTRUCTION` cycles |
| `wait` of kind `until`, `arg` | the deadline minus `cycle_count`: a countdown, so the absolute clock needs no bound |
| `phase` | where `tick` is: `host` (not called), `pick` (top of the loop), `run` (in a slice), `spin` (asking a stopped cpu for blocks), `account` (after a slice), `failed` (returned an error), `closed` |
| `TickBegin`, `SliceBegin`, `SliceEnd`, `TickEnd` | the sections of `tick` and `run_task_slice` |
| `InstructionBlock`, `BreakBlock`, `UnknownInstruction`, `RunError` | a decoded block and how it may end |
| `SdkCall(cs, submitted)` | the code after every SDK call: its cost, then the checks that end the slice, in their order |
| `SemPend`, `SemPost`, ... | one handler each; `SdkFault` is a handler that changed the state and then failed to write its result to guest memory |
| `WaveoutWrite`, `DrainAudio` | the deferred write and the player; three outcomes because a player on its own thread may make room between the handler's check and the scheduler's look at the new wait |

What an instruction computes is abstracted away; a block is a number of
instructions. A handler that has no effect on this state is `OtherCall`.

### Heap (`HeapUnits.tla`, `HeapSpec.tla`, `Heap.tla`, `MCHeap.tla`, `HeapProofs.tla`)

`HeapSpec` is the promise: a map from live pointers to the data of their blocks;
a request gets the lowest place where it fits and fails only if it fits nowhere.
What the guest asked for (the function and its arguments, `request`) and what it
is answered (`result`) are part of the state of both modules from the call until
the call returns (`Return`); the code has them in the argument and result
registers. So every answer is tied to its request: a failure answered to a request
that fits, a block given out twice, or a failed `realloc` that drops the old block
is no step of `HeapSpec`, not even as some other call of the guest, and since each
call changes `request`, a call that should have had an effect does not pass for
a stutter either. The guest writes to memory between its calls.
`Heap` is the code: bump pointer, allocation map and sorted free list, with the
two loops of `free` (merging neighbours, giving back to the bump pointer) as
steps of their own. `Heap` implements `HeapSpec` by the refinement mapping
`blocks <- Blocks`, the words of RAM in each live block (`KeepsPromise`); request
and result are mapped to themselves, and the loops of `free` are stutters.
Addresses are counted in words because every size is rounded to four bytes;
requests stay in bytes, with the rounding and its overflow (`Valid`, `Words`).
Words of RAM that the guest writes are those of blocks it holds: what a guest
does to memory it does not own is not a property of the heap.

### Asynchronous audio (`AsyncAudio.tla`, `MCAsyncAudio.tla`)

Each section under the Mutex is one step, so the calls of the three threads
interleave between them: `Unregister`, `Unload`, `Load`, `Register`, `Ask`,
`Answered`, `RetroRun` on the emulation thread, `CallbackBegin`, `CallbackTake`,
`CallbackDeliver` on the audio thread, `SetStateBegin`, `SetEnabled` on the
third. The frontend is external, modelled from the libretro interface as
`api.rs` uses it: it accepts or refuses the callbacks, calls the ones it holds
whenever it likes, may call `set_state` before it answered, and a call it has
begun may arrive after the core took the callbacks back. It does not run two
callbacks at once. The unit is one frame of audio: what `retro_run` produces
and what one callback takes.

### Guest files (`GuestFiles.tla`, `MCGuestFiles.tla`)

| model | code |
|---|---|
| `open_files`, `next_file_handle` | the same; a file's `save_path` is its name, `NoPath` for `None` |
| `disk` | the save directory: a file's bytes, or `Missing` |
| `Bundled` | the resources of the `.app` and the host files beside it |
| `Open` | `fopen`, `fsys_fopenW` and `dl_res_open` with all the mode handling of `open_guest_file` and `open_save_file`; `readable` says whether `fs::read` works |
| `Read`, `Write`, `Seek`, `Close`, `CloseResource` | one file call each, by any guest program in any order |
| `FlushAll`, `Flush` | `flush_save_files`, one handle per step in any order (a `HashMap`'s), so a crash can come in between |
| `Written`, `NotWritten` | `fs::write` succeeds, changes nothing, or leaves a first part of the new data |
| `saved` | the frontend's save state: it survives a session |
| `session` | `off` (no emulator), `run`, or the operation whose flush loop runs |
| `current`, `unsaved` | not in the code: the handles whose file no other handle has written since they were opened or last written, and the handles whose write failed and was logged |

Both frontends are one model: `Reset`, `Unload`, `Serialize` and `Unserialize`
belong to the libretro core, `Exit` to the standalone program. A session of the
model may mix them, which only adds behaviours. A call that fails while it copies
to or from guest memory changes nothing here, and neither does an error of
`tick`, so neither needs a step. `dl_res_close` removes any handle, also that of
a modified save file, and writes nothing (`CloseResource`).

### The code caches (`CodeCache.tla`, `MCCodeCache.tla`)

The block cache of `emulator.rs`, and the JIT's table of compiled blocks with
its direct-mapped front, around the loop of a slice. What an instruction computes
is left to the next model; here a word of code is `plain`, a `memory` access
(which native code may have to leave) or a `branch`.

| model | code |
|---|---|
| `blocks` | `instruction_blocks`, direct-mapped by the low bits of the word address |
| `entries`, `fast`, `module`, `compiled`, `budget` | `JitEngine`: `entries`, `fast_entries`, the compiler and its module, `compiled_block_count`, `compile_budget` |
| `phase`, `call` | where `run_cached_instruction_block` is: `native` (in `execute_compiled` and the chain), `lookup`, `compile` (in `JitEngine::execute`), `interpret` |
| `EnterBlock`, `NativeMissing`, `NativeTooLong`, `NativeZero`, `NativeRun` | a call of `execute_compiled` by its outcome; `NativeRun` goes on with the next block unless `JitChainExitRequired` |
| `EnsureInstructionBlock` | `ensure_instruction_block` with `fetch_instruction_block` and its boundaries |
| `Decline` ... `CompileAndRun` | `JitEngine::execute` by its outcome; its two own look-ups find nothing after `execute_compiled` found nothing |
| `Interpret` | the interpreter's loop over the cached block |
| `DispatchHook`, `IcacheInvalidateAll` | an SDK call; `__icache_invalidate_all` clears the caches |
| `SetCheat`, `ClearCheats`, `Reset`, `UnserializeState`, `SetJitEnabled`, `BeginFrame` | the host between two frames; `BeginFrame` refills the budget and applies the cheats |
| `written`, `fresh`, `missed` | not in the code: code changed without an invalidation, no frame since the host changed the code, stops executed as plain code |

Two contexts have one slice each per frame, and a context goes on at any address
(`Resume`): where the scheduler left it is the scheduler's business. Guest stores
change the code at the addresses `Stores`, cheats at `Patched`. A store of the
guest that no `__icache_invalidate_all` follows leaves stale blocks behind, as on
the real processor, and so does a cheat that is applied again over what the
guest wrote; `written` remembers both, and `Coherent` says that nothing else is
ever stale.

### Compiled code (`Words.tla`, `AddressSpace.tla`, `Mips.tla`, `Lowering.tla`, `MCLowering.tla`)

`Mips` is the interpreter: one instruction as a function of registers, memory,
pc and the branch state, with the address space of `AddressSpace` (RAM, the
framebuffer and its aliases, translation of KSEG0 and KSEG1). `Lowering` is what
`lower_block` emits: registers kept in values and written back when dirty, direct
accesses to RAM and the framebuffer, an exit for every other access, branches with
their delay slot. Both run the same block from the same state, one instruction
per step; at every exit they are compared.

| model | code |
|---|---|
| `native.values`, `native.dirty` | `LoweringState`: a value per register that was read or written, and whether memory has it |
| `RegisterStep`, `MemoryStep`, `BailOut`, `BranchStep`, `EndBlock` | one turn of `lower_block`'s loop, by instruction |
| `LoweredPlace` | the address arithmetic of the emitted accesses |
| `exit` | the pc stored and the count returned by the emitted function |
| `cpu`, `Step` | `Cpu::execute`, with its delayed branches |

Words have four bytes of `Base` values. The bitwise operators and the shifts are
constants with their ranges assumed, so that the modules say nothing of a number
of bits except where the code does. `MADD` and `MSUB` read their operands
unsigned, because the code does. `SYSCALL`, `BREAK`, `TEQ` and unknown
instructions only end a block. An access to a peripheral has no effect in `Mips`:
the block leaves before it.

### The libretro session (`Frontend.tla`, `MCFrontend.tla`)

| model | code |
|---|---|
| `wanted`, `updated` | the frontend's option values and `GET_VARIABLE_UPDATE` |
| `loaded` | `EMULATOR` is `Some` |
| `input`, `counters` | `set_buttons` with `swap_ab`; the JIT's diagnostic counters |
| `session`, `reporting`, `registered` | `diagnostics.rs`: the session, `ENABLED`; `DIAGNOSTIC_AUDIO_BUFFER_REGISTERED` of `api.rs` |
| `memory.box`, `mapped` | where RAM is in the host, and the pointer in the memory map |
| `memory.pressed` | not in the code: the keys whose press the window's callback heard last |
| `Replace`, `Restart` | `reset` and `unserialize_state` (copy into the RAM that is there), then `apply_core_options` |
| `LoadGame`, `LoadGameFails`, `UnloadGame`, `Run`, `Reset`, `Serialize`, `Unserialize`, `ChangeOption` | the calls of `api.rs`, and the frontend's user |
| `OpenGuiKeyMsg`, `CreateWindow`, `SetFocus`, `GuiExec`, `GuiExecWithoutMemory` | the handlers of `gui.rs`; the last one is a `GUI_Exec` for which the guest's heap refuses one of the two buffers |

The two options stand for two classes: those that a save state contains
(`swap_ab`, volume, key repeat, instruction policy) and those it does not
(diagnostics, CPU engine). The guest's calls stand between two calls of the
frontend. The frontend answers every query for an option. A reset that fails, a
rejected save state and `retro_load_game` without a game change nothing and are
no steps.

## 3. The runs

| run | what it asks | size |
|---|---|---|
| `scheduler_safety` | do the safety properties hold, with BREAK and with every blocking call? | 2 tasks of 2 priorities, 1 semaphore, frames of 3 units, quantum 2 |
| `scheduler_liveness` | does every frame end, every context that can run get a slice, every delay end? | the same with one priority, a host player that drains at any time, no BREAK |
| `scheduler_break` | does a frame end when the guest executes BREAK? (it does not) | 1 task |
| `scheduler_post` | does a post reach a live waiter? (not always) | 2 tasks |
| `scheduler_policy` | does `--unknown-instruction-policy stop` hold for every context? (it does not) | 1 task |
| `heap` | are blocks tiled and coalesced, and is each request answered as in `HeapSpec`? | 6 words of heap, sizes 0, 4, 5, 12 and 38 of a 40-value `u32`, two data values |
| `guest_files` | are handles fresh, clean files on the disk, and all files written or reported by a flush? | 2 handles, a save file and a bundled one, at most 2 bytes |
| `guest_files_exit` | are files flushed when the standalone program stops? (they are not) | the same |
| `async_audio` | is the queue bounded, fresh and obedient, and is each delivery newer than the last? | queue of 3 (the source's limit), 7 frames |
| `code_cache` | do the caches agree with each other and with the code, is no stop run through, does every frame end? | 6 words of code, 2 block slots, a fast front of 1 slot, a table of 2, budget 1, quantum 3 |
| `lowering` | does a compiled block leave the machine as the interpreter does, for every instruction? | words of 8 bits, 4 registers with `HI` and `LO`, RAM of 8, 7962 blocks from 6 states |
| `frontend` | do the options hold, are keys pressed and released in turn, do pointers stay valid? | 2 buttons, 2 windows |

Why the bounds suffice. Two tasks and the main program give three contexts: the
least number at which a post has a choice, round robin can starve somebody, and
a reaped task shifts another below the cursor. A frame of 3 units with quantum 2
has a full slice and a short last one. A delay of 2 outlives a slice. One
semaphore suffices because no handler touches two; `MaxCount = 1` makes the
saturation at `u32::MAX` happen. Six words of heap hold three blocks with gaps,
so that a block can be freed between two free ones (merging on both sides), a
free block can be taken whole or in part, and `realloc` can be refused; size 5
needs rounding, 38 overflows in it. Seven frames fill the queue of three,
overflow it and let a second content follow the first.

Two handles can be two of the same save file or one of each kind, and a write of
one byte value suffices because contents differ by their length: what is on the
disk, the first part of it, and what a handle holds are told apart by it. A third
handle adds no new pair.

Six words of code hold two blocks that end at a stop, an import, and blocks that
start inside another; with two slots and a fast front of one, every collision
happens, a table of two is full while a third block is hot, and a budget of one
is used up within a frame. Quantum 3 is a block and a part of one. The image has
a store in the middle of the first block, which the guest or a cheat may turn into
a branch and back.

Words of eight bits (`Base = 4`) put every boundary within reach of a few
registers: signs, carries, the wrap of pc, the first and last byte of RAM and of
the framebuffer, an access that runs over its end, an access below an alias. The
blocks have every instruction of the JIT in three forms of operands (different,
equal, R0 and the link register), alone, after each of seven prefixes that leave
a value dirty, a pair or a loaded value in the register cache, and every branch with seven
kinds of delay slots. Longer blocks repeat what a step finds: it sees the
registers, the register cache and one instruction.

The buttons of `frontend` are the two that an option exchanges, so that a held
button becomes another one; a third would only add priorities, for which the
proof does not need a bound.

Deadlock is not checked in `lowering`, where a block that returned is over. It
is not checked in the scheduler's runs because a model in phase
`failed` or `closed` really has stopped; everywhere else it is checked.

### Fairness

In the scheduler only `Tick` is fair (`FairSpec`). `tick` is a loop on one thread, nothing it
waits for is held by another thread, and both frontends call it again once per
frame until they close, which the model allows at any time. No guest call, no
drain of the audio queue and no frontend call is assumed to happen: a program
whose contexts all wait for ever is a behaviour of the model, and `FrameEnds`
holds of it. In `CodeCache` the steps within a frame are fair (`WF_vars(Run)`): they
are one loop on one thread, and no frame need ever begin. The other
specifications state no fairness: nothing is promised about when they go on.

### Mutants

Every property of a passing run is paired in `PROJECT.json` with a mutated
definition (written beside the true one, with the prefix `Mut`) under which TLC
finds the property violated: a slice not limited by the frame, a priority rule
that forgets the main program, a free list that forgets the rest of a block, a
`realloc` that frees the old block although it has no new one, a queue that drops
the newest frame, a callback that leaves the frame it took in the queue, a
cleared JIT that keeps its fast front, a block that does not end before the
startup check, an access compared with the framebuffer by its first byte only, a
reset that forgets the options.

### Findings

The violation runs show where the code does something other than what the
repository says of it:

* `scheduler_break`: BREAK clears the running flag inside a block; the slice
  loop looks at the flag only after an SDK call, so it asks a stopped cpu for
  empty blocks for ever and `tick` does not return. (When a block is compiled,
  the flag is not looked at and the program goes on past BREAK.) `FrameEnds`
  holds in `scheduler_liveness`, where the guest does not execute BREAK.
* `scheduler_post`: a deleted task keeps its wait until the end of the frame,
  and a post in that frame may be spent on it.
* `scheduler_policy`: a guest task's cpu is created with the default policy.
* `guest_files_exit`: the standalone manual says that modified files are flushed
  when the emulator stops. `Emulator::stop` does that, but nobody calls it: the
  program leaves its loop and `main` returns.

## 4. The proofs

TLAPS proves, for every value of the constants that the `ASSUME`s allow:

| module | theorems |
|---|---|
| `SchedulerProofs` | `TypeCorrect` (with the scheduler's index in range and no counter below zero), `FrameAccountingHolds`, `ActiveNeverWaitsHolds`, `NoLostWakeupHolds`, `IdleOnlyWhenBlockedHolds`, `SemWaitEndsByPostHolds`, `DeferredWriteRetriedHolds`, `DeadlineKept`, `FrameProgress`, `TurnComes` |
| `GuestFilesProofs` | `TypeCorrect`, `HandlesAreFreshHolds`, `CleanIsOnDiskHolds`, `FlushedAtEndHolds` |
| `AsyncAudioProofs` | `TypeCorrect`, `OffMeansEmptyHolds`, `QueueIsLatestHolds`, `FrontendDecidesHolds`, `HeardInOrderHolds` |
| `FrontendProofs` | `TypeCorrect`, `OptionsInForceHolds`, `KeyMessagesAlternateHolds`, `PointersStableHolds` |
| `CodeCacheProofs` | `TypeCorrect`, `CachesAgreeHolds`, `CoherentHolds`, `NothingSkippedHolds`, `FrameProgress` |
| `LoweringProofs` | `LoweringTypeOK`, `ExitAgreesHolds`, `AccessAgreesHolds`, `CandidateAgreesHolds` |
| `HeapProofs` | `TypeCorrect`, `TiledHolds`, `CoalescedHolds`, `Refinement` (`Spec => KeepsPromise`) |
| `NaturalFacts` | lemmas that the others use: `LeastNatural` (a set of natural numbers has a least element), `LeastQuad` (nothing goes on descending for ever), `QuotientUnique` (there is one quotient and remainder) |

With these, every invariant and every safety action property of a passing run
is a theorem.

Scheduler. `SchedulerAssumption` says that the bounds are natural numbers and
that frame, quantum, audio limit and the largest count are positive; nothing
more is used. `CoreInv` is the type invariant together with `FrameAccounting`
and `LoopInv`: neither is inductive alone, since that a slice never exceeds what
is left of the frame needs the accounting and the accounting needs the slice's
bound. Every SDK call goes through `SdkCall`, so `SdkCallCore` proves its effect
once and the step of each handler only shows that it hands over well-typed
contexts. `WakeInv` (no token where there is a waiter) is inductive above
`CoreInv` and `ActiveNeverWaits`: a pend sets a wait only at zero, and a post
that finds a waiter wakes one (`SomeoneWoken`, which needs that a set of
priorities has a least element). `IdleOnlyWhenBlocked` needs
`WindowInv`: during a round in which nobody executed, the contexts the cursor
has passed, a window of length `idle_contexts` that ends before the cursor and
may wrap around, are all blocked, and no SDK call can have happened that would
unblock one. That is why comparing with a stale `context_count` is harmless: a
count can only become stale in a slice that executed something, and such a
slice empties the window.

`SemWaitEndsByPost` is an action property: the lemmas on the handlers say of each
what it does to the waits (`Untouched`, `Waiting`, `SemPostEffect`), the caller is
known to wait for nothing, and ageing and polling leave a semaphore wait alone
(`CallKeepsWait`, `SliceEndSkips`); so only the post that wakes a context ends its
wait. `DeferredWriteRetried` needs `WriteInv`, which speaks of every context and
not only of the active one: who waits for queue space is at its call, and, without
a player of its own, whoever is at its call and waits for nothing will be accepted
(`Retrying`), since nobody else has had a turn between the look that cleared the
wait and the repeated call. With such a player the second half is false, and TLC
shows how: the player makes the room that ends a wait in the last unit of a slice,
and another context takes it before the next one; the property says so.

That frames end and that no task starves is liveness, of which TLAPS proves the
part that is not fairness. `FrameProgress`: as long as a call of `tick` goes on,
each of its steps makes `Work` smaller in the lexicographic order, `Work` being the
units left of the frame, those left of the slice, the contexts that may still be
found idle, and the part of the slice. `LeastQuad` says that this cannot go on for
ever. `RoundInv` is what it needs: a round never counts as many idle contexts as
there are, and a slice only begins while the frame lasts. `TurnComes`: the
`Distance` of the scheduler to a place shrinks with every slice that ends elsewhere
and grows with no other step, although tasks are made and reaped meanwhile and the
next index is taken modulo a count from before the slice; and a context that is not
blocked when the scheduler is there executes. `DeadlineKept` is the counterpart for
delays: a step shortens every delay by exactly the time that the frame is charged
for it, and ends none that has more left than that; the handlers of the other
contexts leave it alone (`OthersDelay`), and the caller itself waits for nothing.
What is left to fairness, and to TLC, is that the steps are taken.

Asynchronous audio. `IInv` adds to the properties that what waits in the queue
and what the audio thread holds is newer than all that was heard (`Newer`), from
which `HeardInOrder`, a property of each delivering step, follows at once, and
what is known while the emulation thread is between registering and the
frontend's answer (`Asking`).

Guest files. `GuestFilesAssumption` says what the sets of names and contents
are. `IInv` adds two parts: during a flush of all files every handle that is no
longer pending is clean or among the failed ones (`LoopInv`), and outside one
nothing is pending; and the handles of a save state lie below the counter saved
with them (`SavedFresh`), without which loading a state could make a later open
replace an open file. `FlushedAtEnd` then follows from `LoopInv` and
`CleanIsOnDisk` when nothing is pending.

Frontend. `FrontendAssumption` says that the exchanged buttons are buttons, that
the buttons with a key are a sequence of them, and that `None` is none of them nor
a diagnostic session. The four properties are not inductive because a save
state outlives the emulator it was made of: `IInv` adds that the guest's keys and
the reported key agree in the save state as well (`SavedInv`), and that they agree
also while nothing is loaded (`HeldInv`), since a load starts from there. That a
key code is always one of the GUI's keys needs `LeastNatural`, which follows from
the library's order on finite sets.

Code caches. `CacheAssumption` says that the addresses named are addresses, that
sizes and limits are positive and that a block is shorter than the code; hooks,
image, targets, stores and patches are arbitrary. One idea carries the proof:
whatever a cache holds is `Sound`, that is, it was read from the guest's code and
has changed only where `written` says so, and it holds no boundary after its
first word. `FetchedSound` shows it of a block that is fetched, `PartSound` of
what is compiled of one, `StaysSound` that a marked change keeps it. `IInv` adds
what the steps of a call rely on: a block that is being compiled is not in the
table yet (`Cold`), so that the front need not be told of anything else; the
block of the call is still in its slot (`Cached`); a chain has not arrived at a
stop; an entry with a function has not used up its empty exits; and a host that
has just changed code finds empty caches (`FreshInv`), without which the cheats
of the next frame would make them stale. `FrameProgress` is the counterpart of the
scheduler's: the slice of the task, the instructions left, those that a chain of
compiled blocks may still complete and the part of the call descend with each
step, since only a chain has completed something before the call returns
(`ChainInv`) and every other way to run a block uses at least one instruction.

Compiled code. `WordAssumption`, `SpaceAssumption` and `MipsAssumption` say that
the bitwise operators and shifts have words as values, that the segments fit in
the address space, that no two mappings of the framebuffer overlap, that RAM and
a mapping hold at least a word, and that a word is a whole number of jump
regions, so that `J` and `JAL` keep the upper part of the pc. That both sides
use the same bitwise operators is part of the model; that they agree is then a
statement about everything else. `Follows` is the simulation while the emitted
code runs: the values held and the registers in memory together are the
interpreter's registers (`Agrees`), memory is the same, and the interpreter has
done as many instructions. `LoweringInv` adds the agreement at the exit. The
steps have a lemma each (`RegisterAgrees`, `MemoryAgrees`, `BranchAgrees`), and
these rest on facts about words: wrapping may be put off to the end of a sum
(`WrapAdd`), the low word of a product does not depend on signs
(`SignedProduct`), bytes merged by the unaligned accesses are a word
(`MergeTypes`, `ScaledRemainder`), and both sides find the same place for an
address (`LocateAgrees`), the emitted code by trying the mappings one by one and
the interpreter by looking an address up, which is the same because no address
is in two mappings (`OneAlias`). A branch is compiled with its delay slot:
`BranchThenDelay` shows that the emitted order (condition and link first, then
the slot) is that of the interpreter's two steps.

Heap. `HeapAssumption` says that RAM ends after the heap begins, that requests are
`u32` values and that RAM is zeroed with a legal word. `Layout` says of a free
list, a map of live blocks and a bump pointer that the list is sorted, nothing
overlaps, nothing is above the pointer and everything below it is covered; it is
stated of these three values and not of the variables, so that the parts of the
calls are lemmas of their own: `TakeWhole`, `TakePart` and `TakeTop` of malloc,
`Give`, `Merge` and `Trim` of free, `Split` of realloc. A realloc that shrinks is
`Split` and `Give`, one that grows is an allocation and `Give`. `Layout` does not
say that free blocks do not touch: `Progress` adds how far the loops of free have
come. When a call begins no two free blocks touch, so only the freed block and the
one before it can touch their successors; every pair before `index` is separate,
and the trimming loop, once it has removed a block, finds no other at the bump
pointer. `FoundIsLowest` is where the refinement needs all of this: a free run of n
words below the bump pointer lies within one free block, since free blocks that do
not touch are parted by a live one; so the first block that is large enough is the
lowest place. `MallocKept`, `FreeKept` and `ReallocKept` show that a call of `Heap`
is the same call of `HeapSpec`, and `CallKept` that it is so for the request that
was recorded. The library's facts on sequences and intervals are cited;
`PlaceFacts`, that `partition_point` separates the addresses below the freed one
from the others, needs `LeastNatural`.

Only model-checked: the liveness properties (`FrameEnds`, `StarvationFree`,
`DelayEnds`, and the `FrameEnds` of `CodeCache`), since fairness and `ENABLED` are
beyond the provers. `StopFlushes` and the other properties of the runs that expect
a violation do not hold and have no theorem. What a bitwise operator computes is
left to TLC as well: the proofs assume its range and nothing more.

## 5. What is not modelled

* Cranelift: `Lowering` models the code that `jit.rs` asks for, and takes its
  instructions to do what they say. Whether a compilation fails is a free choice.
* The diagnostic counters of the JIT and the text of diagnostics and logs.
* Errors of a fetch or of an access (`RunError` in `Scheduler` stands for both),
  and the peripherals behind `Elsewhere`: the image converter and the register
  stubs are functions of one access.
* The application parser, pixel conversion, the window and the resampler: pure
  functions or host I/O, covered by unit tests.
* The audio device beyond what `waveout_write` depends on.
* File searches, the resolution of host paths, and the heap copy that
  `dl_res_get_data` may keep.
* The encoding and the header checks of save states: a rejected state is no step.
  What a state keeps is modelled per component: open files, code caches, input,
  GUI and options.
* The parser of cheats, and rules on registers, which touch no cache.
* `kbd_get_status` and the repeat counters: pure functions of the last frames.
* Calls that compile within a frame are bounded by the budget only between two
  clears of the JIT: `clear` refills it. The manual of the libretro core says one
  block per frame (`docs/RetroArch-Core.md`, "CPU engine") where the code has
  `MAX_COMPILES_PER_FRAME = 4`; `MaxCompiles` is a constant here.

## 6. Plan

Done: `Scheduler`, `AsyncAudio`, `GuestFiles`, `Frontend`, `CodeCache`, `Heap` and
`Lowering` with proofs, the heap with its refinement of `HeapSpec`. What would
follow, in this order:

1. The composition of `Scheduler` with `CodeCache`: contexts that go on where
   they were.
2. File searches and relative save paths in `GuestFiles`.
