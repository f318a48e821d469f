# Verification of PCem for macOS

PCem emulates a PC: a CPU loop, an interrupt controller, timers and a large set of
devices run in one *emulation thread*; a 3dfx Voodoo card adds a FIFO thread and
render threads; the macOS application drives all of it from its main thread.  This
directory holds TLA+ models of the parts where order, concurrency or stale state decide
whether the emulation is right, TLC configurations that check them on small instances,
and proofs, checked by TLAPS, for instances of every size.

All paths below are relative to `src/src/` of the repository.  `PROJECT.json` maps each
definition to the lines it stands for, each property to a run, and each hazard of the
code to the properties that would catch it.

## 1. Inventory

| Component | State | Operations | Interacts with | What is hard |
|---|---|---|---|---|
| Device timers (`timer.c`, `timer.h`) | a doubly linked list of `pc_timer_t` ordered by 32-bit stamps, `timer_target`, `tsc` | add, set delay, advance, disable, process, reset | every device (calls and callbacks), the three CPU loops, which look only at `timer_target` | callbacks change the list inside `timer_process`; stamps wrap; a target that may be stale; the last timer's expiry |
| Interrupt controllers (`pic.c`) | per chip: requests, in-service, mask, blocking mask, level lines, initialisation; `pic_intpending`, `pic_current` | raise, lower, program (ICW, OCW, ELCR), acknowledge, reset | devices, guest ports, CPU loops, which look only at `pic_intpending` | cached values; the cascade; requests lost or out of order; starvation |
| Voodoo FIFO (`vid_voodoo_fifo.c`, `vid_voodoo.c`, `_reg.c`, `_display.c`) | ring of entries, read and write index, `voodoo_busy`, `swap_pending`, `swap_count`, `flush` | queue, flush, wake, carry out, swap buffers, retrace | emulation thread, FIFO thread, render threads, timers | a lock-free ring; lost wake-ups; two threads waiting on each other |
| Voodoo render threads, texture cache (`vid_voodoo_render.c`, `vid_voodoo_texture.c`) | parameter ring with one read index per thread, reference counts of cached textures | queue a triangle, draw, look up, replace a texture | FIFO thread | replacing a texture still being read; the slowest thread bounds the ring |
| macOS bridge (`mac/pcem_bridge.m`) | `emu_running`, `emu_done_event`, `pause`, `blit_mutex`, the main queue | boot, pause, reset, settings, stop, quit, power-off | main thread, emulation threads, SwiftUI | sticky events; a flag shared by old and new threads; sleeping instead of waiting |
| Code cache (`386_dynarec.c`, `codegen_block.c`, `mem.c`) | blocks, free list, per-page dirty masks, evict list | compile, look up, write to code, evict | CPU loop, memory writes | self-modifying code; lists that must stay consistent |
| Interval timer (`pit.c`) | counter modes, latches, reload | load, latch, gate, expire | timers, interrupt controller, speaker, DMA | order of reload, gate and expiry |
| CPU interpreters and segments (`386.c`, `808x.c`, `x86seg.c`, ...) | registers, descriptors | the instruction set | everything | the instruction set is data; the loops' tests are in the timer and PIC models |
| Machine assembly and main loop (`pc.c`, `model.c`, `device.c`, `io.c`) | tables of devices and port handlers | build, reset, close | everything | order of construction |
| Other register-level devices (`dma.c`, `rtc.c`, `keyboard_at.c`, `serial.c`, `pci.c`, ...) | registers, small queues | ports and callbacks | timers, interrupts | each its own protocol |
| Disk, CD, SCSI (`fdc.c`, `ide.c`, `scsi*.c`) | command state machines, buffers | commands, data, interrupts | timers, interrupts, images | long command sequences |
| Video cards, blit thread (`video.c`, `vid_*.c`) | registers, frame buffers; S3, Matrox, Mach64 and others with a FIFO thread each | register writes, drawing | timers, main thread | the same kind of hand-over as the Voodoo's |
| Sound, configuration, threads, user interfaces, vendored code | | | | not control logic of this program, or not its own |

What makes each right, in one sentence: **timers** - no timer is served later than a slice
of the CPU loop allows and the list is never broken; **PIC** - what the CPU reads instead of
asking the chips is never stale, no request is lost and none is answered out of turn but
where the code lets it be; **Voodoo FIFO** - commands take effect in order, a read sees them
drawn, nobody waits for ever; **bridge** - a machine that is stopped does not run on, one
that runs has a thread, a power-off is acted on; **render threads** - an entry of the
texture cache is not decoded anew while a triangle that uses it waits, and nobody sleeps
over work; **code cache** - no block is run that was compiled from bytes since overwritten;
**PIT** - the output changes when the counter's mode says.

## 2. Modules

| Module | Role |
|---|---|
| `TimerService` | abstract: deadlines as distances, a set of armed timers, no list, no wrapping |
| `PcTimer` | detailed: `timer.c` and `timer.h` as they are; `Implements == Service!Spec` |
| `TimerServiceProofs`, `PcTimerProofs` | their theorems |
| `Pic`, `MCPic`, `PicProofs` | the two 8259s with the CPU loops' tests; values for TLC; theorems |
| `Pit`, `MCPit`, `PitProofs` | a counter of the 8253 over a device timer that is served late |
| `CommandStream` | abstract: what a Voodoo card promises to guest software |
| `VoodooFifo`, `VoodooFifoProofs` | detailed: ring, threads, waking, swaps; `Implements == Stream!Spec`; theorems |
| `VoodooRender`, `MCVoodooRender`, `VoodooRenderProofs` | detailed: the ring of triangles, the render threads, the texture cache; values for TLC; theorems |
| `CodeCache`, `MCCodeCache`, `CodeCacheProofs` | the recompiler's blocks, lists, masks and memory, and the ways a write takes |
| `EmuLifecycle`, `EmuLifecycleProofs` | the bridge's main thread against the emulation threads; theorems |

No module uses a RECURSIVE operator.  The components meet at interfaces that one module
promises and the next assumes:

- `Pit` assumes of its timer what `TimerService` shows of every timer, service with a
  bounded delay (`Late`), and raises line 0, which `Pic` takes as one of its inputs;
- `VoodooFifo` counts unfinished triangles and waits until there is none; `VoodooRender` is
  that count in full, and `IdleMeansDrawn` is what the wait may rely on;
- `CodeCache` is what `exec386_dynarec` does between two looks at `timer_target`, the
  slice of `PcTimer` with `Exec386 = FALSE`.

### Plan

Done: 1 timers, 2 interrupt controllers, 3 Voodoo FIFO, 4 the bridge's life cycle,
5 render threads and texture cache, 6 code cache, 7 interval timer.  Left, in this order:

8. The settings sheet in `EmuLifecycle`.  Section 6 lists what the code does; which of it is
   meant has to be said before a property can be (hazard at `mac/pcem_bridge.m:1150`).
9. The serial port's interrupt line with `pic_current` across a reset (`pic.c:359`).
10. Paging changes in `CodeCache`: `Maps` as a variable, with `flushmmucache`.
11. FIFO threads of the other video cards, against a `CommandStream` without reads.

Theorems left: none of the invariants, action properties and refinements above; what the
next modules state is to be proved with them.

## 3. How the modules correspond to the code

**TimerService and PcTimer.** `list` holds the links and the enabled flags, `ts` the
stamps, `target` and `tsc` the globals; `timer_enable`'s walk is one action per node
(`WalkInsert`, `WalkAppend`, `WalkOn`), its beginning is part of the caller (`Add`,
`SetDelay`, `Advance`).  A turn of `timer_process` is `Fire`, the callback is any device
calls up to `Return`, its end is `Settle`.  Device code runs while the machine is built
(`boot`), inside instructions (`cpu`) and in callbacks.  The three CPU loops differ only in
when they look at `timer_target`:

- `exec386` computes a slice from `timer_target` and looks at its end (`Exec386 = TRUE`);
- `exec386_dynarec` looks after every 5 us of blocks (`Exec386 = FALSE`, `Period` cycles);
- `execx86` looks after every bus cycle (`Period = 1`).

`Poll` is `timer_process` called from a port write (XT-class keyboard controllers,
`pit_set_using_timer`), without a look at the target.  A cycle of the model is a cycle of
the TSC.  The fractional half of a stamp only rounds a delay up by a cycle and is part of
the choice of the delay.  `Permanent` are the timers whose callback always re-arms them, at
least the sound poll and the keyboard's or the video card's; a device that is not there is
a timer that is never started.  `timer_enable` has one caller outside `timer.h`
(`vid_pc200.c`), for a stamp of zero while the machine is built: `SetDelay` with no delay.

Delays may be zero, and are in the code.  A callback may advance its own timer by nothing
(`Advance(0)`): `pit.c:297` does for one half of a square wave of length 1, the video cards
for a display line without a blank part.  Device code may set a timer to go off at once
(`SetDelay(t, 0)`): `scsi_cd.c:1034` and `:1139`, `vid_pc1640.c:43` and `:50`,
`timer_add`.  Two assumptions keep `timer_process` from going round for ever, and both are
the callers' doing: a timer does not advance by nothing twice running (`still`: the other
half of the period is not nothing), and in one call of `timer_process` callbacks set a timer
to go off at once but once (`kicked`: a device's command is carried out once).

`timer.h` asks the CPU loops to call `timer_process` as soon as the TSC reaches
`timer_target`.  `execx86` does (theorem `BusLoopHonoursTarget`).  `exec386` fixes its slice
before the instructions that may arm an earlier timer, and runs past the target; how late a
timer can then be is what `BoundedLateness` bounds.

**Pic.** A chip is a record; masks are sets of lines.  `Update` is `pic_updatepending`, a
part of every handler that calls it and of no other.  `Interrupt386` and `Boundary808x` are
the ends of an instruction in the two families of loops; `execx86` takes `takeint`, which it
worked out one instruction earlier.  `picinterrupt` looks at the cascade before it looks at
the master's lines 0 and 1 (`pic.c:406`), and not at what is in service.  The order within a
chip is kept by its being called only with `pic_intpending` set; between the chips it is not
in one case, with IRQ 1 in service and 0 and 8 requested: line 0 sets `pic_intpending`, and
8 is answered.  `PriorityKept` says exactly that, so that any other case would violate it.
`RequestKept` likewise names the one way a request is lost for a reason of its own: the edge
acknowledge of slave line c clears line c of the master too (`pic.c:419`).  Vectors and OCW3,
which only decide what a read returns, NMI and the trap flag are left out.  `clearpic` has no
caller.

**Pit.** One counter: they share no state, and `nr` says which of the four it is, since the
gate belongs to the speaker, the request to the tick, and so on.  `c` is the counter's part of
`PIT`, `port` what the guest's reads and writes have come to (`rl` for the latched and
`wm`, `rm` for the pending bytes).  `on` and `due` are the device timer: `Tick` lets a tick of
the PIT's clock go by, down to `-Late`, and `Fire` is `pit_over` when it is due.  `Clock` is
`pit_clock` of a counter another one clocks, `SetUsing` is `pit_set_using_timer`, and the rest
are the port handlers, `pit_load` being part of the write that completes a count.  A byte has
`Base` values, a count `Base * Base`; `count` is an int and wraps at `Modulus`.

**VoodooFifo.** Every action is one access, or one group of accesses with no other thread's
effect in between, to the state shared by the threads.  `cpu` and `fifo` are the two program
counters.  Nothing in `voodoo_queue_command` orders the stores of an entry's value, of its
type and of the write index, and the application is built for arm64 (`project.yml:16`, at
the repository's root), so they become visible in any order: `QueueStore` shows the entry or
the index, `QueueTear` a type before its value, `QueueAdvance` the rest.  A value other than
its own is that of an earlier entry; of all values only bit 0 of `swapbufferCMD` decides
anything here.  What an entry's own stores do not touch is seen in the order it is done,
before the emulation thread goes on; the FIFO thread's two stores, which give a slot back,
may change places without harm since four slots are always spare.  `wake_timer` and the
retrace are timers of the emulation thread, so they expire only while it runs the guest
(`cpu = "run"`), never while it waits.  A wait on `fifo_not_full_event` gives up after a
millisecond and is left out.  Entries are kinds: a register write, a pixel, and the commands
`tri`, `fill`, `nop`, `swapNow`, `swapVsync`. `TRIPLE_BUFFER` is read at each swap and may
be anything then, but the guest does not switch it off while a swap is pending: the code
then forgets that swap, and `swap_count` stays one too high.  2D entries, CMDFIFO mode, SLI
and the Banshee are left out; triangles and texture writes go on in `VoodooRender`.

Two facts the passing run leaves to be known.  A command stored between the FIFO thread's
last look at the ring (`Drained`) and the store that says it is no longer busy (`Done`)
wakes nobody: the guest's next write or its polling does, which is why `PolledRuns` is about
a guest that polls.  And the FIFO thread may catch up with the index and find nothing written
there: `fatal()`, the run `voodoo_store`.  The liveness properties and the proofs go on up to
then.

**VoodooRender.** The FIFO thread's part is `voodoo_queue_triangle`, from the wait for room
(`HaveRoom`, `NoRoom`, `PassThread`, `AwaitThread`, `ThreadMadeRoom`, `LookAgain`) through
the texture's entry (`Hit`, `Miss`, `Fill`, `Used`) to the ring (`Put`, `Index`, `Copy`,
`Nudge`), the wait for idle threads (`Idle`, `NotIdle`) and `voodoo_tex_writel`
(`WriteTexture`, `Poke`).  A render thread is `render_thread`, one action per access to what
the FIFO thread also accesses.  `owed` is the difference of `refcount` and a thread's
`refcount_r`, all the code ever asks of them. The copy of a triangle's parameters and the
step of the index (`vid_voodoo_render.c:1633`, `:1635`) are plain stores as well: `Put` is
both, or `Index` shows the index first and `Copy` the triangle after it.  A thread that draws
in between draws what was in the slot before; if that had another entry, the wrong one is
counted: `misread` remembers it, and from then on the counts are off for good, so that
`CountsAgree` and `FilledUnused`, and nothing else, are stated of behaviours without it.  The
contents of textures are reduced to whether texture memory was written since (`stale`).  A
texture is what the cache's own test tells apart (`vid_voodoo_texture.c:135`, `:154`): base
address, size and the checksum of a palette. Whether two textures that agree in these have
the same pixels is not asked. There is one texture unit; the second has a cache of its
own.  `Compared` and `Awaited` are the threads whose counts `voodoo_use_texture` and
`flush_texture_cache` look at, as they stand in the code:

- with four threads `voodoo_use_texture` compares two counts (`vid_voodoo_texture.c:171`):
  with `Count = 4` TLC finds an entry replaced under a thread that is still to draw with it,
  and `FilledUnused` is proved for one and two threads only;
- the pages of a texture are marked one at a time from its first byte, so that one that starts
  inside a page leaves its last page unmarked and is not given up when that is written.
  `AlignedCoherent` speaks of textures that start at a page;
- the idle wait (`vid_voodoo_render.h:321`) wakes threads that have nothing to draw and then
  finds one of them busy; nothing makes it end, and no liveness is stated of it.

**CodeCache.** `at` is where `exec_recompiler` is; it is one thread, so an action is a stretch
between two places where the guest can write memory, or a round of a loop.  The
masks of a page and of a block are sets of bytes, those of lines closed under `WholeLines`.
`Find`, `Check1`, `Check2`, `Invalidate`, `WalkEnds`, `Refine`, `Recompile` and `Run` are the
look-up of a block and the flush it may start; `StartCompile` to `AbortCompile` the
recompilation, `StartMark` to `AbortMark` the first, interpreted pass.  A write is
`WriteWatched` (the page's handler), `WriteDirect` (`writelookup2`) or `WriteFirst`
(`addwritelookup`).  Two ghosts remember what is true of a block's code: `stale`, overwritten
in a way its page saw, and `unseen`, overwritten otherwise.  The hash and the tree (which of
several right blocks is found), the evict list (which page is flushed) and the random victim
of the allocator are choices.  Paging does not change, so that the first instruction of a
block is always fetched again when it is recompiled; a fault there, which aborts a
compilation before it has marked a page (`codegen_block.c:622`, `:371`), is left out.  A block
may end after any of its instructions (`Within`), as the limits of `exec_recompiler` have
it.  What the code does and the model therefore has:

- a page is watched only if a block starts in it or is being compiled in it
  (`mem.c:417`), see `code_cache_stale`;
- `mem_flush_write_page` gives up only direct views at the same distance from their page as
  the one it is called with (`mem.c:189`);
- `mem_invalidate_range` sets `dirty_mask` and not `byte_dirty_mask` (`BusMaster`);
- the second page of a block is not protected while it is compiled;
- a block recompiled for another top of the FPU's stack forgets the memory it has (`lost`):
  deleting it frees only what `head_mem_block` points to, and with enough of such chunks
  `codegen_allocator_allocate` searches for ever;
- `codegen_reset` clears a block's address before it calls `delete_block`, and empties the lists
  of all pages itself.

Two oddities below the model's level: `byte_mask` at `386_dynarec.c:326` does not depend on
the address, so that a block masked byte by byte may be missed (`Miss` allows it, and a second
block is made for its address), and index 0 of the evict list stands for no page and for a
page (`mem.c:913`).

**EmuLifecycle.** `ui` is the main thread inside one of the bridge's functions (they do not
overlap: AppKit calls them one after another), `thr` the emulation threads, one more for
each boot.  `StopCallback` is the block `stop_emulation_now` queues when a guest powers
itself off; `ShutDown` is the menu's, which asks nobody (`PCemMacApp.swift:441`).  The
ten-second limit of `emu_thread_stop` is taken to be enough for a call of `runpc`, and its
wait not to be woken without a cause, since that branch of `thread_wait_event` has no loop
(`wx-thread.c:197`); the sleep of 100 ms in a reset is not taken to be enough.

## 4. Runs

| Run | What it shows | Instance |
|---|---|---|
| `timer_service` | target early, lateness bounded, interpreter never spins, list never empty | 3 timers (2 permanent), `exec386` |
| `pc_timer` | list well linked, one chain, in order; refinement of `TimerService`; permanent timers are called again | 3 timers, dynarec slices of 2, stamps modulo 16 |
| `pic_at` | cached values, priority within and between the chips, kept requests | lines 0 and 1 of the master, 8 and 14 of the slave, one shared, one level line |
| `pic_xt` | with `execx86`'s own test the timer tick is not starved | 3 lines, one shared |
| `pit` | a counter's timer follows it, a stopped count reads back, two bytes are of one moment, the tick goes on | each of the 4 counters, all modes, counts below 4 |
| `voodoo_fifo` | order, completeness of reads, swap count; refinement of `CommandStream`; nobody waits for ever; a polling guest's commands run | ring of 3, 1 triangle, 4 kinds of entry, stores in any order |
| `voodoo_store` | *violation*: an entry is read before it is written | ring of 3, a register and a triangle |
| `voodoo_render` | counts, texture cache and idle wait right without a lock; room comes, no thread is forgotten, no wake-up is lost | 2 threads, ring of 2, 2 overlapping textures, 1 entry, index before copy |
| `code_cache` | blocks in one place, memory not freed twice, no overwritten block run; nor one with a single way into it that changed in any way | 2 blocks, 2 chunks, dirty list of 1, 2 pages |
| `code_cache_stale` | *violation*: a block is run whose second page was overwritten unseen | 2 blocks, 2 pages of 2 lines |
| `emu_first` | first stop joins, a running machine has a thread, power-offs are acted on | 3 threads, 2 queued power-offs |
| `emu_stop` | *violation*: a later stop does not wait | 2 threads, 1 power-off |

**Bounds and why they are enough.**  *Timers*: three are the fewest with which a timer goes
in at the head, in the middle and at the end, and a callback meets two others; time stamps
wrap many times, since nothing bounds how long the machine runs.  The delays and instruction
lengths are those at which a deadline can be met, missed and overtaken. *PIC*: the four AT
lines put two on each chip; with 0 and 1 on the master there is one that can be in service
above the cascade and one that can be requested above that, and 6, which is level-sensitive
and masked or not, is the master's line of 14's number.  *PIT*: a byte of two values makes a
count of two bytes run out in a few ticks and still be read and written byte by byte; every
mode, with the high byte or both, a timer served on time or one tick late.  *Voodoo FIFO*: a
ring of three slots and a limit of two is filled, drained and wrapped around, and its
indexes, modulo 6, wrap as well.  The kinds are those that differ in what they wait for and
in whom they make wait: pixels, triangles and both swaps; `reg`, `nop` and `fill` take steps
that these take too, and the proofs have them all.  *Render threads*: two threads can be at
different triangles of a full ring of two, each with one of two textures that share pages,
fight for the one entry of the cache and wrap indexes and counts modulo 4; the only address
written lies on the page they share.  With one entry a triangle read too early is never
counted for another, and two entries are too many states: what can go wrong with several,
and that nothing else does, is the proof's part.  *Code cache*: two blocks of which one spans
both pages of one line, the other has an immediate operand, more blocks than the dirty list
holds and as many chunks as blocks, so that free blocks, chunks and the dirty list all run
out.  *Bridge*: three threads are an old one that has not seen its end, a new one and one
more; `boots` counts to two because only the first stop differs from later ones.  For all of
these but the liveness and refinement properties the theorems of section 5 say that the size
does not matter.

`CHECK_DEADLOCK FALSE` stands in the configurations of `EmuLifecycle`, since the
application may quit and then nothing happens any more, and in those of `CodeCache`, since
the allocator waits for a chunk it can free and, when only forgotten chunks are left, there
is none: the program then loops for ever, which in the model is a state without successor.

**Fairness and why the code gives it.**  `PcTimer`: the emulation thread runs, so
`timer.c`'s own steps are weakly fair; an instruction or a callback makes finitely many
timer calls, so that `Run`, `Advance` and `Return` - interrupted by such calls over and
over, hence strong - happen in the end.  `Pic`: `execx86` goes on to the end of the next
instruction; strong fairness for an interrupt waiting to be taken says that the guest does
not put `MOV SS` or a prefix at every such moment.  `Pit`: time goes on (`Tick`) and
`timer_process` calls what is due (`Fire`, what `PermanentFires` shows of the timers below
it).  `VoodooFifo`: threads are scheduled and the render threads draw; the two timers are
strong because they expire only while the guest runs.  `VoodooRender`: the host runs the
FIFO thread and every render thread, each weakly fair as a whole; which of its steps a thread
takes is never a choice.  Nothing is assumed about what the guest does.  `EmuLifecycle`: the
main thread returns from its functions and comes back to its queue; emulation threads are
scheduled, and the blit mutex is not withheld from one of them for ever.

### What the violations say

- `voodoo_store` - the switch over an entry's type ends in `fatal("Unknown fifo entry")`.  The
  index moves on, the FIFO thread, awake and waiting for nothing else, reads it, and the slot
  still shows the `FIFO_INVALID` it was given back with.  Every other entry is known:
  `UnknownIsUnwritten` proves that this needs the index, the type and one entry in the ring.
- `code_cache_stale` - `codegen.h` says that a page is watched from the moment it first has a
  block, so that every write to it sets a dirty bit.  `addwritelookup` asks only for blocks
  that start in the page (`pages[].block`).  A page in which a block only ends is written
  directly from its second write on, and the block is run with the old code.
- `emu_stop` - `emu_done_event` is never reset, so the second and later stops wait for
  nothing and close devices under a thread that may still run.

## 5. Proofs

All theorems hold for every value of the constants that satisfies the module's named
assumption, which TLC evaluates in the runs above.

**TimerServiceProofs** - `TypeCorrect`, `TargetEarly`, `LatenessBounded`, `InterpreterRuns`,
`ListNeverEmpties`, `BusLoopHonoursTarget`.  The inductive invariant `Ind` joins the
properties with what they need: while the CPU runs, no deadline is further behind than the
slice has already run (`CpuPhase`), nothing is overdue while the machine is built
(`BootPhase`), permanent timers are armed except in their own callback (`PermanentArmed`).
Without the last, `timer_process` would return from an empty list without a look at the
target, and no bound would hold.  `NextSlice` is the lemma about the remainder with which a
fixed slice is topped up.  `ServiceEnds` and `ServiceBounded` are about the loop of
`timer_process`, which goes on while a timer is due although callbacks arm timers: `Turns`,
the turns a timer can still have in this call, falls with each turn and never rises.  A timer
has two for each cycle it is behind, because it may advance by nothing but not twice
running, and two more while no callback has set it to go off at once; and since no timer is
further behind than `LateBound`, none is called more than `2 * LateBound + 4` times.  What
this rests on are the two assumptions on callbacks of section 3, not on delays being at
least a cycle, which they are not.

**PcTimerProofs** - `ListWellLinked`, `ListOneChain`, `ListOrdered`, `PcTypeCorrect`,
`KeepsPromises`, for any number of timers, any delays and any width of a stamp. `LinkInd`
keeps the links mutual through every operation, so the `fatal()` calls of `timer.c` are
unreachable: one lemma per list operation (`UnlinkedOK`, `LinkedBeforeOK`, `LinkedAfterOK`,
`BeheadedOK`, `EnableOK`) and one per group of actions; it says where `timer_enable`'s walk
stands.  `PcInv` adds what the refinement needs.  The whole invariant of the abstract service,
seen through an instance of `TimerServiceProofs`, is a part of it, and kept because each
step maps to one of the service: its `BoundedLateness` keeps every stamp within half the
range of a stamp from now, so that the signed difference of two wrapped stamps (`StampInv`)
orders their deadlines (`StampsCompare`).  `ChainInv`: the timers of the list have ranks,
which go up by one along the links and do not go down in deadline, and a walk has only
passed timers that expire first.  Ranks do what an induction along the list would:
`ListOneChain` follows by counting them, and a timer taken out or put in shifts those behind
it.  `KeepsPromises` is then one lemma per operation (`RearmMaps` ... `ResetMaps`): adding,
disabling and re-arming a timer, a walk's end, an instruction, `Fire` and `Settle` are the
service's own steps, a step of a walk none. Because the service is implemented its promises
hold of `timer.c`'s own data: `TargetIsFirst` (no stamp on the list is before
`timer_target`), `StampsStayNear` (every stamp is within the bounds in which comparing them
is sound) and `HeadNeverLost` (`timer_remove_head` never reads through a null head), each
stated over stamps and links alone; `TurnsEnd` says that `timer_process` ends, zero delays
or not, with the same bound.

**PicProofs** - `PicTypeCorrect`, `MasksFollow`, `CacheExact`, `AnswersInOrder`,
`RequestsKept`, from the invariant `InStep`, which is closed under every port write on
either chip.  `AnswersInOrder` has the exception of `pic.c:406` in its statement, and proves
that there is no other: with the cascade blocked, only line 0 or 1 of the master can have
set `pic_intpending`.  `RequestsKept` has that of `pic.c:419`.  `TickServedNext` is the part
of `Line0Served` that needs no fairness: line 0 cannot be made a level, and on an XT the
next acknowledge answers it.

**PitProofs** - `PitTypeCorrect`, `TimerFollowsCounter`, `StoppedReadsBack`,
`BytesOfOneMoment`, for any width of a byte.  `TimerFollows` is not inductive: that a counter
gets its timer back when its gate opens or its clock returns depends on `enabled` having
followed the gate, and on a counter without a count (`disabled`) being started by the next
one.  `Follows` says so.  `StoppedReadsBack` needs bounds on what is shown (`PitFit`): the
count written back when a timer stops must survive the wrap of an int. `ChangesAreNear` is
the part of `TicksGoOn` without fairness: a counter with a timer, which by `TimerFollows` is
one that counts, changes its output within a full count and the lateness of timers.  The
counter whose clock can be switched is left out: its timer is set for whatever `count`
holds, and TLC finds that below zero (mode 3 clocked past it in steps of two) and above a
full count (what mode 3 shows is twice what is left).

**VoodooFifoProofs** - `FifoTypeCorrect`, `ReadsSeeAll`, `RingNeverOverruns`, for any ring
size and any number of entries.  The invariant relates the indexes to the guest's program
counter: at most `Limit` entries lie between them, only the guest moves the write index,
only the FIFO thread the read index, and a flush that has seen them equal stays so. All of
this and what follows holds for stores that become visible in any order.
`UnknownIsUnwritten` says what can go wrong because of it: the FIFO thread meets an unknown
entry only when it has caught up with an index that was moved on over one entry not shown
yet. The invariant, `KnownInv`, is that every entry between the indexes is written, or is
the one on its way; that the FIFO thread has the oldest one in hand; and that it waits for a
retrace only with a swap in hand.  `CommandsInOrder` is the whole refinement: what the
abstract stream still has to do is the segment of the ring between the indexes, less the
entry whose effect is already out.  The lemmas about segments say that it loses its head when
an entry takes effect, gains an element when the write index moves on, and is the same when
a slot is stored into, torn, mended or given back; one step per action then maps `Next` to a
step of `CommandStream` or to a stutter. `SwapsAreComing` counts: a sequence loses or gains
one swap as an entry takes effect or is written (`AppendCounts`, `TailCounts`), and without
a third buffer a swap is pending only while the FIFO thread waits for it (`SwapInv`):
otherwise a swap that begins could leave the queue without anything becoming pending.
`WaitsAreFinite` and `FlushDrains` are what the liveness of `voodoo_fifo` rests on besides
scheduling, for any ring and any order of the stores.  While the emulation thread is held by
a full FIFO or in `voodoo_flush`, every step of the FIFO thread decreases `Distance`,
fourteen times the entries queued plus how far it is with the one in hand.  That includes a
FIFO thread asleep until a retrace that cannot come, since the held thread does not run
timers: `flush`, which stays set until the FIFO is empty (`Flushing`), lets it swap without
one.  Once the FIFO is empty nothing adds to the triangles the flush still waits for.

**VoodooRenderProofs** - `RenderTypeCorrect`, `CountsAreWaiting`, `CachedIsCurrent`,
`FilledUnused`, `IdleHasDrawn`, for any number of slots, entries and textures and, but for
`FilledUnused`, one, two or four threads.  `IInv` adds to the properties: a thread never has
more than `Slots` triangles queued, and one less once room was found for the triangle in
hand (`Ring`), without which two waiting triangles could share a slot and be counted once;
the pages marked for a cached texture stay marked (`PresentCovers`); what is about to be
written is no longer cached (`Evicted`), although an idle wait may lie between the look-up
and the write; and what an idle wait returns to (`InHand`).  The lemmas about the ring
(`QueuedIs`, `SlotWraps`, `BehindGrows`, `BehindShrinks`) do the arithmetic of wrapped
indexes once: the slots of the waiting triangles gain one when one is queued and lose one,
the oldest, when it is drawn. A triangle whose index is seen before its parameters (`Index`)
is counted from then on, under the entry it is going to have (`Copied`).  Only a thread that
draws it at that moment, in a slot that named another entry, breaks the counts, which is
what `misread` excepts from `CountsAreWaiting` and `FilledUnused`; everything else is proved
with it.  That `FilledUnused` has one or two threads as its hypothesis is the code's doing:
`vid_voodoo_texture.c:171` compares two counts. `WakeUpsKept` is for any number of threads:
each event is reset by the thread about to sleep on it, after its test and not under a lock,
and yet a render thread asleep with triangles queued has its event set or is about to be
nudged, with `Queued = 1 < WakeBelow`; and while the FIFO thread waits for a render thread,
that thread's ring is full, or it is about to signal room.

**CodeCacheProofs** - `CacheTypeCorrect`, `BlocksInOnePlace`, `ChunksNeverTwice`,
`OverwrittenIsMarked`, `OverwrittenNeverRuns`, `RunsWhatWasLookedUp`, for any number of
blocks, pages and chunks and any code short enough for the masks.  `CacheInv` has a part
about each block (`Sound`) - where it is (`Placed`), what its masks cover (`Masked`: at
least what its translation was made from, and nothing outside the two pages in whose lists
it is, or a flush would clear dirty bits it does not know of), and that what was overwritten
shows (`StaleMarked`) - a part about where `exec_recompiler` is (`Control`: the block in
hand has the address wanted, or was given up by the flush its own look-up started; once past
a check its masks are clean, which only holds because a flush of one page clears no more
than that page) and one about memory (`Memory`).  Most steps leave all but one block alone:
the lemma about `Untouched` blocks carries `Sound` over, and each action's proof is about
the block it moves. `ChangedNeverRuns` is the counterpart of the violation
`code_cache_stale`, and proves what the run `code_cache` checks as `OneWayNeverStale`: code
that lies in one page, and that page is written through one view, is never run after it was
changed, whichever path the write took. Nothing is assumed of the rest of the machine: other
blocks may cross pages, into this one too, other pages may have many views, and a bus master
may write anywhere; of its transfers only those into blocks masked byte by byte are
excepted, which `mem_invalidate_range` does not mark.  `SeenInv` is its invariant: a page in
which a block starts is not written directly through its own view (`DirectSeen`), the
compiler announces the page it is about to put a block in (`Announced`), and a block
overwritten unseen waits in the dirty list to be made anew (`UnseenWaits`).

**EmuLifecycleProofs** - `LifeTypeCorrect`, `FirstJoins` and
`RunningHasThread`, for any number of threads and power-offs.  The invariant says that
before the first stop there is at most one thread and the event is set only after it ended.
`StopsEnd` is the part of `PowerOffStops` without fairness: whoever waits in `emu_thread_stop`
has the event set already or a thread left that will set it, and nobody boots meanwhile.

**Only model-checked**: liveness (`PermanentFires`, `Line0Served`, `TicksGoOn`,
`QueueReturns`, `FlushReturns`, `PolledRuns`, `RoomComes`, `NoneForgotten`,
`PowerOffStops`), since the prover does not handle fairness.  The part that is not about
scheduling is proved of most: of `PermanentFires` by `TurnsEnd`, of `Line0Served` by
`TickServedNext`, of `TicksGoOn` by `ChangesAreNear`, of `PowerOffStops` by `StopsEnd`, of
`QueueReturns` and `FlushReturns` by `WaitsAreFinite` and `FlushDrains`, of `RoomComes` and
`NoneForgotten` by `WakeUpsKept`.  Every invariant, action property and refinement of a
passing run is proved.

## 6. Not modelled

The table in `PROJECT.json` gives each component's status.  Beyond what section 3 names:
the instruction set and generated code (data, not control); the cards and devices whose
handlers are arithmetic on registers and pixels, by far the largest part of the repository;
the disk, CD and SCSI command machines, each a development of its own; real time (the
reset's sleep, the retrace's rate); sound and fonts; parsing and file I/O; vendored code.

**The settings sheet.**  What the bridge does, read from the code:

- `settings_begin_edit` asks for `emu_running` only when the sheet opens (its comment: "Only
  valid while no machine is running"), and the Machine menu still boots while it is open
  (`PCemMacApp.swift`).  `settings_apply` then changes the globals of the machine that runs,
  without pausing it, and saves them to the file being edited;
- a cancelled edit leaves the edited machine's settings in the globals, and whatever saves the
  configuration next writes them to the current machine's file;
- `settings_cancel` and the end of `settings_apply` clear `pause`, the user's own included.

Neither the bridge nor the user interface says which of them is to prevent this, so there
is no statement of the repository to check the code against.

**PIT oddities** met on the way and not stated as properties: in mode 2 a count stopped by
its gate reads back one more than it showed, and in mode 3 whatever `count` last held
(`StopKeepsCount` leaves both modes out); a count latched sets `rm` to both bytes whatever
the access mode, and clears `thit`, so that modes 4 and 5 strobe again; `pit_clock` in mode 3
steps over zero for an odd count; `count` is not what it says while a timer runs; the test
`(val >> 7) == 3` at `pit.c:388` is about a byte and can never hold.
