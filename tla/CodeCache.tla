------------------------------ MODULE CodeCache ------------------------------
(***************************************************************************)
(* The caches between the guest's code and its execution: the direct-      *)
(* mapped cache of instruction blocks (emulator.rs), and the JIT's table   *)
(* of compiled blocks with its fast direct-mapped front (jit.rs).  A frame *)
(* gives a slice to the main context and one to a task; the slice calls    *)
(* SDK hooks and runs blocks, natively where a compiled block exists and   *)
(* in the interpreter otherwise.  Code changes under the caches: the guest *)
(* stores into it and calls __icache_invalidate_all, cheats patch it.      *)
(***************************************************************************)
EXTENDS Integers, Sequences, FiniteSets, SequencesExt, Functions

CONSTANTS
    N,                  \* words of code, addressed modulo N
    Hooks,              \* addresses of SDK imports
    Entry, InitCheck,   \* AppMain and its startup check
    Return,             \* TASK_RETURN_ADDRESS
    Image,              \* the code loaded
    Targets,            \* where branches and hooks may go
    Stores, Patched,    \* addresses the guest stores to, and cheats patch
    NewKinds,           \* what they put there
    Slots, FastSlots, MaxBlockLen, MinCompiledLen, HotThreshold, MaxEntries,
    MaxZeroExits, MaxCompiles, Quantum,
    None

Addresses == 0 .. N - 1
\* A memory access may leave RAM, which native code cannot follow.
Kinds == {"plain", "memory", "branch"}
Contexts == {"main", "task"}

ASSUME CacheAssumption ==
    /\ N \in Nat \ {0}
    /\ {Entry, InitCheck, Return} \subseteq Addresses
    /\ Hooks \cup Targets \cup Stores \cup Patched \subseteq Addresses
    /\ Image \in [Addresses -> Kinds] /\ NewKinds \subseteq Kinds
    /\ {Slots, FastSlots, MinCompiledLen, HotThreshold, MaxEntries, MaxZeroExits,
        MaxCompiles, Quantum} \subseteq Nat \ {0}
    /\ MaxBlockLen \in 1 .. N - 1
    /\ None \notin [content : Seq(Kinds), module : {0, 1}]

VARIABLES
    code,
    blocks,     \* instruction_blocks: per slot, start and content (<<>>: len is 0)
    entries,    \* JitEngine.entries: hits, failed, zero exits and block by start
    fast,       \* JitEngine.fast_entries: start and block per slot
    module,     \* the compiler's module (named 0 and 1 in turn), or None
    compiled,   \* compiled_block_count is not zero
    enabled,
    budget,     \* compile_budget
    cheats,     \* the enabled rules: what they write where
    cpu,        \* pc and branch_delay of the context that runs
    active,     \* and which it is
    args,       \* app_main_args_initialized
    remaining,  \* instructions left in the slice
    phase,
    call,       \* run_cached_instruction_block: block_start, completed_total, attempted
    written,    \* history: code the guest changed since the caches were cleared
    fresh,      \* history: no frame since the host changed the code or a cheat
    missed      \* history: stops that were executed as plain code

jit == <<entries, fast, module, compiled, enabled, budget>>
guest == <<code, cpu, args>>
frame == <<active, remaining, phase, call>>
history == <<written, fresh, missed>>
vars == <<blocks, jit, guest, cheats, frame, history>>

(***************************************************************************)
(* Blocks of code.                                                         *)
(***************************************************************************)
Plus(a, n) == (a + n) % N
Boundaries == Hooks \cup {Entry, InitCheck, Return}

MutNoBoundaryAtInitCheck(a) == a \in Boundaries \ {InitCheck}

IsInstructionBlockBoundary(a) == a \in Boundaries

\* The stops: what the loop of a slice does before it runs an instruction.
HasStop(a, context, initialized) ==
    \/ a \in Hooks \cup {Return}
    \/ context = "main" /\ (a = InitCheck \/ (a = Entry /\ ~initialized))

BlockLen(s) ==
    CHOOSE n \in 1 .. MaxBlockLen :
        /\ \A k \in 1 .. n - 1 : ~IsInstructionBlockBoundary(Plus(s, k))
        /\ n = MaxBlockLen \/ IsInstructionBlockBoundary(Plus(s, n))
Fetched(s) == [start |-> s, content |-> [k \in 1 .. BlockLen(s) |-> code[Plus(s, k - 1)]]]

BlockSlot(s) == s % Slots
FastSlot(s) == s % FastSlots

\* A branch is compiled with its delay slot, when the block holds one that is
\* neither a branch nor a memory access; an unsupported branch ends the block
\* before it.
CandidateInstructionCount(b) ==
    IF "branch" \notin Range(b) THEN Len(b)
    ELSE LET k == SelectInSeq(b, LAMBDA kind : kind = "branch")
         IN  IF k < Len(b) /\ b[k + 1] = "plain" THEN k + 1 ELSE k - 1

(***************************************************************************)
(* The compiled blocks.                                                    *)
(***************************************************************************)
NewEntry == [hits |-> 0, failed |-> FALSE, zero_exits |-> 0, block |-> None]
NoFast == [slot \in 0 .. FastSlots - 1 |-> [start |-> 0, block |-> None]]
NoBlocks == [slot \in 0 .. Slots - 1 |-> [start |-> 0, content |-> <<>>]]

EntryOf(s) == IF s \in DOMAIN entries THEN entries[s] ELSE NewEntry
With(s, entry) == [a \in DOMAIN entries \cup {s} |-> IF a = s THEN entry ELSE entries[a]]

FastHit(s) == fast[FastSlot(s)].start = s
FindBlock(s) == IF FastHit(s) THEN fast[FastSlot(s)].block ELSE EntryOf(s).block
Available == enabled /\ module # None
FastWith(s, block) == [fast EXCEPT ![FastSlot(s)] = [start |-> s, block |-> block]]

\* What native code may complete: all of the block, or what comes before an
\* access that leaves RAM.
Completions(b) == {Len(b)} \cup {k \in 0 .. Len(b) - 1 : b[k + 1] = "memory"}
NativeNext(s, b, k) ==
    {Plus(s, k)} \cup (IF k = Len(b) /\ "branch" \in Range(b) THEN Targets ELSE {})

(***************************************************************************)
(* Effects shared by the ways to run a block.                              *)
(***************************************************************************)
\* The guest may have changed one word of code on the way.
Effects(kinds) ==
    \/ UNCHANGED <<code, written>>
    \/ /\ "memory" \in kinds
       /\ \E a \in Stores, kind \in NewKinds :
             /\ kind # code[a]
             /\ code' = [code EXCEPT ![a] = kind]
             /\ written' = written \cup {a}

\* The first instruction of the call had its stop handled, no other had.
Passed(s, k, first) ==
    missed' = missed \cup
        {a \in {Plus(s, o) : o \in (IF first THEN 1 ELSE 0) .. k - 1} : HasStop(a, active, args)}

ReturnWith(done) ==
    /\ remaining' = remaining - done
    /\ phase' = "slice"
    /\ call' = [start |-> 0, done |-> 0, attempted |-> FALSE]

GoTo(p) ==
    /\ phase' = p
    /\ UNCHANGED <<call, remaining>>

MoveTo(pc, delay) == cpu' = [pc |-> pc, delay |-> delay]

MutClearJitKeepsFast ==
    /\ entries' = [a \in {} |-> NewEntry]
    /\ IF compiled /\ module # None THEN module' \in {1 - module, None} ELSE module' = module
    /\ compiled' = FALSE
    /\ budget' = MaxCompiles
    /\ UNCHANGED <<enabled, fast>>

\* JitEngine.clear: the module is replaced when it owns a function.
ClearJit ==
    /\ entries' = [a \in {} |-> NewEntry]
    /\ fast' = NoFast
    /\ IF compiled /\ module # None THEN module' \in {1 - module, None} ELSE module' = module
    /\ compiled' = FALSE
    /\ budget' = MaxCompiles
    /\ UNCHANGED enabled

MutClearOnlyJit ==
    /\ blocks' = blocks
    /\ ClearJit
    /\ written' = {}

ClearInstructionCache ==
    /\ blocks' = NoBlocks
    /\ ClearJit
    /\ written' = {}

(***************************************************************************)
(* The host: before and between frames.                                    *)
(***************************************************************************)
Init ==
    /\ blocks = NoBlocks
    /\ entries = [a \in {} |-> NewEntry]
    /\ fast = NoFast
    /\ module \in {0, None}
    /\ compiled = FALSE
    /\ enabled = TRUE
    /\ budget = MaxCompiles
    /\ written = {}
    /\ fresh = TRUE
    /\ code = Image
    /\ cpu = [pc |-> 0, delay |-> FALSE]
    /\ args = FALSE
    /\ cheats = [a \in {} |-> "plain"]
    /\ active = "main"
    /\ remaining = 0
    /\ phase = "host"
    /\ call = [start |-> 0, done |-> 0, attempted |-> FALSE]
    /\ missed = {}

AtHost == phase = "host"

\* from_app_with_path: another emulator takes this one's place.
Replacement ==
    /\ blocks' = NoBlocks
    /\ entries' = [a \in {} |-> NewEntry]
    /\ fast' = NoFast
    /\ module' \in {0, None}
    /\ compiled' = FALSE
    /\ enabled' = TRUE
    /\ budget' = MaxCompiles
    /\ written' = {}
    /\ fresh' = TRUE

SetJitEnabled ==
    /\ AtHost
    /\ enabled' \in BOOLEAN
    /\ UNCHANGED <<code, blocks, entries, fast, module, compiled, budget, cheats, cpu, args,
                   frame, history>>

\* set_cheat and set_parsed_cheat with an accepted rule; a disabled one is
\* kept and has no effect.
SetCheat ==
    /\ AtHost
    /\ \E a \in Patched, kind \in NewKinds :
          \/ cheats' = [b \in DOMAIN cheats \cup {a} |-> IF b = a THEN kind ELSE cheats[b]]
          \/ cheats' = [b \in DOMAIN cheats \ {a} |-> cheats[b]]
    /\ ClearInstructionCache
    /\ fresh' = TRUE
    /\ UNCHANGED <<guest, frame, missed>>

ClearCheats ==
    /\ AtHost
    /\ cheats' = [a \in {} |-> "plain"]
    /\ ClearInstructionCache
    /\ fresh' = TRUE
    /\ UNCHANGED <<guest, frame, missed>>

\* The emulator is replaced, the cheats are kept.
Reset ==
    /\ AtHost
    /\ Replacement
    /\ code' = Image
    /\ args' = FALSE
    /\ UNCHANGED <<cpu, cheats, frame, missed>>

\* A state saved just before is loaded.
UnserializeState ==
    /\ AtHost
    /\ Replacement
    /\ UNCHANGED <<guest, cheats, frame, missed>>

\* A context goes on where its last slice left it: anywhere in the code, in a
\* delay slot too.
Resume(context, words) ==
    /\ \E pc \in Addresses, delay \in BOOLEAN :
          /\ delay => words[Plus(pc, N - 1)] = "branch"
          /\ MoveTo(pc, delay)
    /\ active' = context
    /\ remaining' = Quantum
    /\ phase' = "slice"

\* tick, up to its first slice.  A cheat that undoes a store of the guest
\* changes code like the store did.
BeginFrame ==
    /\ AtHost
    /\ budget' = MaxCompiles
    /\ code' = [a \in Addresses |-> IF a \in DOMAIN cheats THEN cheats[a] ELSE code[a]]
    /\ written' = written \cup {a \in DOMAIN cheats : cheats[a] # code[a] /\ ~fresh}
    /\ fresh' = FALSE
    /\ Resume("main", code')
    /\ UNCHANGED <<blocks, entries, fast, module, compiled, enabled, cheats, args, call, missed>>

(***************************************************************************)
(* A slice.                                                                *)
(***************************************************************************)
InSlice == phase = "slice" /\ remaining # 0 /\ cpu.pc # Return
SliceOver == phase = "slice" /\ (remaining = 0 \/ cpu.pc = Return)

NextSlice ==
    /\ SliceOver
    /\ IF active = "main"
       THEN Resume("task", code)
       ELSE /\ active' = "main" /\ remaining' = 0 /\ phase' = "host"
            /\ MoveTo(0, FALSE)
    /\ UNCHANGED <<blocks, jit, code, args, cheats, call, history>>

\* A hook takes one instruction and goes on where it wants.  When the context
\* waits, stops or shows a frame the slice ends, and a call to be made again
\* stays where it is.
Dispatch(invalidates) ==
    /\ InSlice
    /\ cpu.pc \in Hooks
    /\ \E pc \in Targets \cup {cpu.pc}, done \in {1, remaining} :
          /\ pc = cpu.pc => done = remaining
          /\ MoveTo(pc, cpu.delay)
          /\ remaining' = remaining - done
    /\ IF invalidates THEN ClearInstructionCache
       ELSE UNCHANGED <<blocks, jit, written>>
    /\ UNCHANGED <<code, args, cheats, active, phase, call, fresh, missed>>
DispatchHook == Dispatch(FALSE)
IcacheInvalidateAll == Dispatch(TRUE)

\* run_cached_instruction_block begins; the start-up stops were handled.
EnterBlock ==
    /\ InSlice
    /\ cpu.pc \notin Hooks
    /\ args' = (args \/ (active = "main" /\ cpu.pc = Entry))
    /\ call' = [start |-> cpu.pc, done |-> 0, attempted |-> FALSE]
    /\ phase' = IF cpu.delay THEN "lookup" ELSE "native"
    /\ UNCHANGED <<blocks, jit, code, cpu, cheats, active, remaining, history>>

(***************************************************************************)
(* JitEngine.execute_compiled, and the loop that chains compiled blocks.   *)
(***************************************************************************)
Found == FindBlock(cpu.pc)
Limit == remaining - call.done
AtNative == phase = "native"

MutStopChainReturns(done, attempted) == ReturnWith(done)

StopChain(done, attempted) ==
    IF done # 0 THEN ReturnWith(done)
    ELSE /\ phase' = "lookup"
         /\ call' = [call EXCEPT !.attempted = attempted]
         /\ UNCHANGED remaining

NativeMissing ==
    /\ AtNative
    /\ ~Available \/ Found = None
    /\ StopChain(call.done, call.attempted)
    /\ UNCHANGED <<blocks, jit, guest, cheats, active, history>>

NativeTooLong ==
    /\ AtNative
    /\ Available /\ Found # None
    /\ Len(Found.content) > Limit
    /\ fast' = FastWith(cpu.pc, Found)
    /\ StopChain(call.done, TRUE)
    /\ UNCHANGED <<blocks, entries, module, compiled, enabled, budget, guest, cheats, active,
                   history>>

\* The first access left RAM.  A block that does so again and again is given up.
GivesUp(entry) == entry.zero_exits >= MaxZeroExits
Counted(entry) ==
    LET one == [entry EXCEPT !.zero_exits = @ + 1]
    IN  IF GivesUp(one) THEN [one EXCEPT !.block = None, !.failed = TRUE] ELSE one

NativeZero ==
    /\ AtNative
    /\ Available /\ Found # None
    /\ Len(Found.content) <= Limit
    /\ 0 \in Completions(Found.content)
    /\ entries' = [entries EXCEPT ![cpu.pc] = Counted(@)]
    /\ fast' = FastWith(cpu.pc, Counted(EntryOf(cpu.pc)).block)
    /\ StopChain(call.done, TRUE)
    /\ UNCHANGED <<blocks, module, compiled, enabled, budget, guest, cheats, active, history>>

JitChainExitRequired(pc) == HasStop(pc, active, args)

NativeRun ==
    /\ AtNative
    /\ Available /\ Found # None
    /\ Len(Found.content) <= Limit
    /\ \E k \in Completions(Found.content) \ {0}, pc \in Addresses :
          /\ pc \in NativeNext(cpu.pc, Found.content, k)
          /\ MoveTo(pc, FALSE)
          /\ Effects({Found.content[o] : o \in 1 .. k})
          /\ Passed(cpu.pc, k, call.done = 0)
          /\ IF call.done + k >= remaining \/ JitChainExitRequired(pc)
             THEN ReturnWith(call.done + k)
             ELSE /\ call' = [call EXCEPT !.done = @ + k, !.attempted = TRUE]
                  /\ UNCHANGED <<phase, remaining>>
    /\ entries' = [entries EXCEPT ![cpu.pc].zero_exits = 0]
    /\ fast' = FastWith(cpu.pc, Found)
    /\ UNCHANGED <<blocks, module, compiled, enabled, budget, args, cheats, active, fresh>>

(***************************************************************************)
(* The block cache.                                                        *)
(***************************************************************************)
Cached(s) == blocks[BlockSlot(s)].content # <<>> /\ blocks[BlockSlot(s)].start = s

EnsureInstructionBlock ==
    /\ phase = "lookup"
    /\ blocks' = IF Cached(call.start) THEN blocks
                 ELSE [blocks EXCEPT ![BlockSlot(call.start)] = Fetched(call.start)]
    /\ GoTo(IF cpu.delay \/ call.attempted THEN "interpret" ELSE "compile")
    /\ UNCHANGED <<jit, guest, cheats, active, history>>

Content == blocks[BlockSlot(call.start)].content

(***************************************************************************)
(* JitEngine.execute.  It is reached only when execute_compiled found no   *)
(* block, so that its own two look-ups find none either.                   *)
(***************************************************************************)
AtCompile == phase = "compile"
Known == call.start \in DOMAIN entries

MutNeverFull == FALSE

Full == Cardinality(DOMAIN entries) >= MaxEntries
Eligible == AtCompile /\ Available /\ (Known \/ ~Full) /\ ~EntryOf(call.start).failed
Hit(entry) == [entry EXCEPT !.hits = IF @ = HotThreshold THEN @ ELSE @ + 1]
Counting == Hit(EntryOf(call.start))
Hot == Counting.hits >= HotThreshold /\ budget # 0

Refuse ==
    /\ GoTo("interpret")
    /\ UNCHANGED <<blocks, fast, module, compiled, enabled, guest, cheats, active, history>>

Decline ==
    /\ AtCompile
    /\ ~Eligible
    /\ Refuse
    /\ UNCHANGED <<entries, budget>>

StayCold ==
    /\ Eligible
    /\ ~Hot
    /\ entries' = With(call.start, Counting)
    /\ Refuse
    /\ UNCHANGED budget

TooShort ==
    /\ Eligible
    /\ Hot
    /\ CandidateInstructionCount(Content) < MinCompiledLen
    /\ entries' = With(call.start, [Counting EXCEPT !.failed = TRUE])
    /\ Refuse
    /\ UNCHANGED budget

Compilable == Eligible /\ Hot /\ CandidateInstructionCount(Content) >= MinCompiledLen

CompileFails ==
    /\ Compilable
    /\ budget' = budget - 1
    /\ entries' = With(call.start, [Counting EXCEPT !.failed = TRUE])
    /\ Refuse

Native ==
    [content |-> SubSeq(Content, 1, CandidateInstructionCount(Content)), module |-> module]

Compile ==
    /\ Compilable
    /\ budget' = budget - 1
    /\ entries' = With(call.start, [Counting EXCEPT !.block = Native])
    /\ fast' = FastWith(call.start, Native)
    /\ compiled' = TRUE
    /\ UNCHANGED <<blocks, module, enabled, args, cheats, active, fresh>>

\* The new block is run at once, unless it is too long or leaves RAM first.
CompileOnly ==
    /\ Compile
    /\ Len(Native.content) > remaining \/ 0 \in Completions(Native.content)
    /\ GoTo("interpret")
    /\ UNCHANGED <<code, cpu, written, missed>>

CompileAndRun ==
    /\ Compile
    /\ Len(Native.content) <= remaining
    /\ \E k \in Completions(Native.content) \ {0}, pc \in Addresses :
          /\ pc \in NativeNext(call.start, Native.content, k)
          /\ MoveTo(pc, FALSE)
          /\ Effects({Native.content[o] : o \in 1 .. k})
          /\ Passed(call.start, k, TRUE)
          /\ ReturnWith(k)

(***************************************************************************)
(* The interpreter runs the cached block until the end, the limit or a     *)
(* jump; the delay slot of a taken branch may be the next block's start.   *)
(***************************************************************************)
InDelaySlot(k) == IF k = 1 THEN cpu.delay ELSE Content[k - 1] = "branch"
Longest == IF Len(Content) < remaining THEN Len(Content) ELSE remaining

Interpret ==
    /\ phase = "interpret"
    /\ \E k \in 1 .. Longest, pc \in Addresses, delay \in BOOLEAN :
          /\ \/ InDelaySlot(k) /\ pc \in Targets \ {Plus(call.start, k)} /\ ~delay
             \/ /\ k = Longest /\ pc = Plus(call.start, k)
                /\ delay => Content[k] = "branch" /\ ~(k = 1 /\ cpu.delay)
          /\ cpu.delay /\ (k > 1 \/ pc = Plus(call.start, 1)) => Plus(call.start, 1) \in Targets
          /\ MoveTo(pc, delay)
          /\ Effects({Content[o] : o \in 1 .. k})
          /\ Passed(call.start, k, TRUE)
          /\ ReturnWith(k)
    /\ UNCHANGED <<blocks, jit, args, cheats, active, fresh>>

(***************************************************************************)
(* The specification.                                                      *)
(***************************************************************************)
Host == SetJitEnabled \/ SetCheat \/ ClearCheats \/ Reset \/ UnserializeState \/ BeginFrame
Run ==
    \/ NextSlice \/ DispatchHook \/ IcacheInvalidateAll \/ EnterBlock
    \/ NativeMissing \/ NativeTooLong \/ NativeZero \/ NativeRun
    \/ EnsureInstructionBlock
    \/ Decline \/ StayCold \/ TooShort \/ CompileFails \/ CompileOnly \/ CompileAndRun
    \/ Interpret
Next == Host \/ Run

\* A frame is run by one thread, which is never suspended for ever.
Spec == Init /\ [][Next]_vars /\ WF_vars(Run)

(***************************************************************************)
(* Properties                                                              *)
(***************************************************************************)
Blocks == [content : UNION {[1 .. n -> Kinds] : n \in 1 .. MaxBlockLen}, module : {0, 1}]

\* The caches keep to their sizes, an entry is given up in time and the slice
\* is never overdrawn.
TypeOK ==
    /\ code \in [Addresses -> Kinds]
    /\ \A slot \in 0 .. Slots - 1 :
          /\ blocks[slot].start \in Addresses
          /\ Len(blocks[slot].content) <= MaxBlockLen
          /\ Range(blocks[slot].content) \subseteq Kinds
    /\ DOMAIN entries \subseteq Addresses
    /\ \A s \in DOMAIN entries :
          entries[s] \in [hits : 0 .. HotThreshold, failed : BOOLEAN,
                          zero_exits : 0 .. MaxZeroExits, block : Blocks \cup {None}]
    /\ Cardinality(DOMAIN entries) <= MaxEntries
    /\ fast \in [0 .. FastSlots - 1 -> [start : Addresses, block : Blocks \cup {None}]]
    /\ module \in {0, 1, None} /\ compiled \in BOOLEAN /\ enabled \in BOOLEAN
    /\ budget \in 0 .. MaxCompiles
    /\ cheats \in UNION {[s -> Kinds] : s \in SUBSET Patched}
    /\ cpu \in [pc : Addresses, delay : BOOLEAN]
    /\ active \in Contexts /\ args \in BOOLEAN
    /\ remaining \in 0 .. Quantum
    /\ phase \in {"host", "slice", "native", "lookup", "compile", "interpret"}
    /\ call \in [start : Addresses, done : 0 .. Quantum, attempted : BOOLEAN]
    /\ written \subseteq Addresses /\ missed \subseteq Addresses /\ fresh \in BOOLEAN

\* The fast front of the JIT's table never says anything else than the table:
\* neither a block that was given up nor one that another start has replaced.
\* Every function kept belongs to the module that is alive, and a block given
\* up is not compiled again.
CachesAgree ==
    /\ \A s \in Addresses : FastHit(s) => fast[FastSlot(s)].block = EntryOf(s).block
    /\ \A s \in DOMAIN entries :
          entries[s].block # None =>
              /\ compiled
              /\ entries[s].block.module = module
              /\ ~entries[s].failed
              /\ entries[s].hits = HotThreshold

\* Cached code is the guest's code, except for the words that changed since
\* the caches were last cleared: a new cheat, a reset or a loaded state leaves
\* nothing of the old code in any cache.
SameCode(s, content) ==
    \A k \in 1 .. Len(content) : content[k] = code[Plus(s, k - 1)] \/ Plus(s, k - 1) \in written
Coherent ==
    /\ \A slot \in 0 .. Slots - 1 : SameCode(blocks[slot].start, blocks[slot].content)
    /\ \A s \in DOMAIN entries :
          entries[s].block # None => SameCode(s, entries[s].block.content)

\* No SDK import, task return or start-up stop is run through as plain code,
\* whether by a cached block, a compiled block or a chain of compiled blocks.
NothingSkipped == missed = {}

\* Every frame ends: whatever the caches hold, whichever block falls back, a
\* slice is used up.
FrameEnds == ~AtHost ~> AtHost
=============================================================================
