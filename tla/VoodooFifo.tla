----------------------------- MODULE VoodooFifo -----------------------------
(***************************************************************************)
(* The command FIFO of one 3dfx Voodoo card (vid_voodoo.c, _fifo.c, _reg.c, *)
(* _display.c): the emulation thread, which runs the guest, writes commands *)
(* into a ring buffer and runs the card's timers (wake_timer, the retrace); *)
(* the FIFO thread carries the commands out.  No lock and no barrier guards *)
(* the ring: on the arm64 host of this program the stores of an entry's     *)
(* value, of its type and of the index become visible in any order.  Only   *)
(* the swap counters have a mutex, so a critical section is one step here.  *)
(*                                                                         *)
(* Every wait for fifo_not_full_event gives up after a millisecond, so that *)
(* event decides nothing but how long a wait lasts and is left out.  The    *)
(* render threads are a count of unfinished triangles.  The card has no     *)
(* SLI partner and CMDFIFO mode is off.                                     *)
(***************************************************************************)
EXTENDS Integers, Sequences, FiniteSets

CONSTANTS
  Size,        (* FIFO_SIZE                                                  *)
  Limit,       (* FIFO_FULL: that many entries, FIFO_SIZE - 4                *)
  Late,        (* more entries than this wake the FIFO thread: 0xe000        *)
  Modulus,     (* 2^32: the indexes are ints, and wrap                       *)
  Kinds,       (* the commands the guest writes                              *)
  MaxDrawing   (* room in the render threads' queues                         *)

Swaps == {"swapNow", "swapVsync"}      \* SST_swapbufferCMD, bit 0 clear or set
Commands == Swaps \cup {"tri", "fill", "nop"}  \* writes that may wake the FIFO thread
AllKinds == Commands \cup {"reg", "fb"}  \* other registers, pixels
Invalid == "invalid"                   \* FIFO_INVALID

ASSUME VoodooFifoAssumption ==
  /\ Size \in Nat /\ Limit \in Nat /\ Late \in Nat
  /\ 0 < Late /\ Late < Limit /\ Limit < Size
  /\ Modulus \in Nat /\ Size < Modulus /\ Modulus % Size = 0
  /\ Kinds \subseteq AllKinds
  /\ MaxDrawing \in Nat \ {0}

VARIABLES
  slot,     (* fifo[]: the kind of each entry                               *)
  wr, rd,   (* fifo_write_idx, fifo_read_idx                                *)
  cpu,      (* where the emulation thread is                                *)
  hand,     (* the command it is writing                                    *)
  flush,
  timer,    (* wake_timer is enabled                                        *)
  wake,     (* wake_fifo_thread is set                                      *)
  busy,     (* voodoo_busy                                                  *)
  fifo,     (* where the FIFO thread is                                     *)
  cur,      (* the kind of the entry it is working on                       *)
  drawing,  (* triangles handed to the render threads and not drawn         *)
  pending,  (* swap_pending                                                 *)
  swaps,    (* swap_count                                                   *)
  triple    (* swapbufferCMD waits for an earlier swap, in its TRIPLE_BUFFER  *)
            (* branch, before it begins its own                              *)

ring == <<slot, wr>>
guest == <<cpu, hand, flush>>
thread == <<rd, busy, fifo, cur>>
swap == <<pending, swaps>>
vars == <<ring, guest, timer, wake, thread, drawing, swap, triple>>

-----------------------------------------------------------------------------
Entries == (wr - rd) % Modulus
Empty == wr = rd
Full == Entries >= Limit

Entry(i) == slot[i % Size]

Init ==
  /\ slot = [i \in 0..Size - 1 |-> Invalid]
  /\ wr = 0 /\ rd = 0
  /\ cpu = "run" /\ hand = Invalid /\ flush = FALSE
  /\ timer = FALSE /\ wake = FALSE
  /\ busy = FALSE /\ fifo = "sleep" /\ cur = Invalid
  /\ drawing = 0
  /\ pending = FALSE /\ swaps = 0 /\ triple = FALSE

-----------------------------------------------------------------------------
(* The emulation thread. *)

\* voodoo_writel, up to voodoo_queue_command: a buffer swap is counted here.
Write(k) ==
  /\ cpu = "run"
  /\ cpu' = "queue" /\ hand' = k
  /\ swaps' = IF k \in Swaps THEN swaps + 1 ELSE swaps
  /\ UNCHANGED <<ring, flush, timer, wake, thread, drawing, pending, triple>>

\* voodoo_queue_command finds the FIFO full, waits a little ...
QueueFull ==
  /\ cpu = "queue" /\ Full
  /\ cpu' = "nudge"
  /\ UNCHANGED <<ring, hand, flush, timer, wake, thread, drawing, swap, triple>>

\* ... and wakes the FIFO thread before it looks again ...
QueueNudge ==
  /\ cpu = "nudge"
  /\ wake' = TRUE /\ cpu' = "queue"
  /\ UNCHANGED <<ring, hand, flush, timer, thread, drawing, swap, triple>>

Advance == wr' = (wr + 1) % Modulus

\* The entry the index has been moved on from.
Last == (wr - 1) % Modulus
StoreLast(k) == slot' = [slot EXCEPT ![Last % Size] = k]

\* ... or there is room: the entry is written, the index not moved on yet, or the
\* other way round ...
QueueStore ==
  /\ cpu = "queue" /\ ~Full
  /\ \/ cpu' = "stored" /\ slot' = [slot EXCEPT ![wr % Size] = hand] /\ UNCHANGED wr
     \/ cpu' = "indexed" /\ Advance /\ UNCHANGED slot
  /\ UNCHANGED <<hand, flush, timer, wake, thread, drawing, swap, triple>>

\* ... and an entry that comes after the index may show its type before its value.  Of
\* the values, that of an earlier entry and its own, only bit 0 of swapbufferCMD makes a
\* difference here.
QueueTear ==
  /\ cpu = "indexed" /\ hand \in Swaps
  /\ cpu' = "torn"
  /\ \E k \in Swaps \ {hand} : StoreLast(k)
  /\ UNCHANGED <<wr, hand, flush, timer, wake, thread, drawing, swap, triple>>

\* All of it is written.  (A torn entry may have been carried out by now, and its type
\* been cleared again.)
QueueAdvance ==
  /\ cpu \in {"stored", "indexed", "torn"}
  /\ IF cpu = "indexed" \/ (cpu = "torn" /\ Entry(Last) # Invalid) THEN StoreLast(hand)
     ELSE UNCHANGED slot
  /\ IF cpu = "stored" THEN Advance ELSE UNCHANGED wr
  /\ timer' = (timer \/ (wr' - rd) % Modulus > Late)
  /\ cpu' = IF hand \in Commands THEN "posted" ELSE "run"
  /\ hand' = Invalid
  /\ UNCHANGED <<flush, wake, thread, drawing, swap, triple>>

\* Back in voodoo_writel: an idle FIFO thread is woken, in a while.
Posted ==
  /\ cpu = "posted"
  /\ timer' = (timer \/ ~busy) /\ cpu' = "run"
  /\ UNCHANGED <<ring, hand, flush, wake, thread, drawing, swap, triple>>

\* (Mutant: reading the status register wakes nobody.)
ReadStatusSilent ==
  /\ cpu = "run"
  /\ UNCHANGED <<ring, guest, timer, wake, thread, drawing, swap, triple>>

\* A read of the status register.
ReadStatus ==
  /\ cpu = "run"
  /\ timer' = (timer \/ ~busy)
  /\ UNCHANGED <<ring, guest, wake, thread, drawing, swap, triple>>

\* voodoo_flush, and the same lines in the frame buffer reads: the FIFO is to
\* be emptied ...
FlushBegin ==
  /\ cpu = "run"
  /\ cpu' = "flush" /\ flush' = TRUE
  /\ UNCHANGED <<ring, hand, timer, wake, thread, drawing, swap, triple>>

FlushWait ==
  /\ cpu = "flush" /\ ~Empty
  /\ cpu' = "flushnudge"
  /\ UNCHANGED <<ring, hand, flush, timer, wake, thread, drawing, swap, triple>>

FlushNudge ==
  /\ cpu = "flushnudge"
  /\ wake' = TRUE /\ cpu' = "flush"
  /\ UNCHANGED <<ring, hand, flush, timer, thread, drawing, swap, triple>>

FlushEmpty ==
  /\ cpu = "flush" /\ Empty
  /\ cpu' = "idle"
  /\ UNCHANGED <<ring, hand, flush, timer, wake, thread, drawing, swap, triple>>

\* (Mutant: drawing is not waited for.)
FlushDoneEarly ==
  /\ cpu = "idle"
  /\ cpu' = "read" /\ flush' = FALSE
  /\ UNCHANGED <<ring, hand, timer, wake, thread, drawing, swap, triple>>

\* ... and drawing to end, before the card is read.
FlushDone ==
  /\ cpu = "idle" /\ drawing = 0
  /\ cpu' = "read" /\ flush' = FALSE
  /\ UNCHANGED <<ring, hand, timer, wake, thread, drawing, swap, triple>>

Read ==
  /\ cpu = "read" /\ cpu' = "run"
  /\ UNCHANGED <<ring, hand, flush, timer, wake, thread, drawing, swap, triple>>

\* voodoo_wake_timer
WakeTimer ==
  /\ cpu = "run" /\ timer
  /\ timer' = FALSE /\ wake' = TRUE
  /\ UNCHANGED <<ring, guest, thread, drawing, swap, triple>>

Decremented(n) == IF n > 0 THEN n - 1 ELSE n

\* voodoo_callback at the vertical retrace, the swap interval over.
Vsync ==
  /\ cpu = "run" /\ pending
  /\ pending' = FALSE /\ swaps' = Decremented(swaps)
  /\ wake' = TRUE
  /\ UNCHANGED <<ring, guest, timer, thread, drawing, triple>>

\* A write to fbiInit1 that ends a video reset.
VideoReset ==
  /\ cpu = "run" /\ swaps' = 0
  /\ UNCHANGED <<ring, guest, timer, wake, thread, drawing, pending, triple>>

-----------------------------------------------------------------------------
(* The FIFO thread. *)

Sleep ==
  /\ fifo = "sleep" /\ wake
  /\ fifo' = "woken"
  /\ UNCHANGED <<ring, guest, timer, wake, rd, busy, cur, drawing, swap, triple>>

Wake ==
  /\ fifo = "woken"
  /\ wake' = FALSE /\ busy' = TRUE /\ fifo' = "drain"
  /\ UNCHANGED <<ring, guest, timer, rd, cur, drawing, swap, triple>>

\* The switch on the type of the next entry; pixels wait for the triangles.
Fetch ==
  /\ fifo = "drain" /\ ~Empty
  /\ cur' = Entry(rd)
  /\ fifo' = IF cur' = Invalid THEN "fatal" ELSE IF cur' = "fb" THEN "fbwait" ELSE "exec"
  /\ UNCHANGED <<ring, guest, timer, wake, rd, busy, drawing, swap, triple>>

FbWait ==
  /\ fifo = "fbwait" /\ drawing = 0
  /\ fifo' = "exec"
  /\ UNCHANGED <<ring, guest, timer, wake, rd, busy, cur, drawing, swap, triple>>

\* A register or a pixel is written, nopCMD clears the pixel counters, or fastfillCMD
\* waits for the triangles and fills.
ExecWrite ==
  /\ fifo = "exec" /\ cur \in {"reg", "nop", "fb", "fill"}
  /\ cur = "fill" => drawing = 0
  /\ fifo' = "retire"
  /\ UNCHANGED <<ring, guest, timer, wake, rd, busy, cur, drawing, swap, triple>>

\* A triangle is queued for the render threads, when they have room.
ExecTriangle ==
  /\ fifo = "exec" /\ cur = "tri" /\ drawing < MaxDrawing
  /\ drawing' = drawing + 1
  /\ fifo' = "retire"
  /\ UNCHANGED <<ring, guest, timer, wake, rd, busy, cur, swap, triple>>

\* swapbufferCMD at once ...
ExecSwapNow ==
  /\ fifo = "exec" /\ cur = "swapNow" /\ drawing = 0
  /\ swaps' = Decremented(swaps)
  /\ fifo' = "retire"
  /\ UNCHANGED <<ring, guest, timer, wake, rd, busy, cur, drawing, pending, triple>>

\* ... or at the retrace.  With a third buffer, which the guest may switch on and off in
\* fbiInit2, the thread goes on, and a swap waits only for an earlier one that is still
\* pending.  (The guest does not switch it off while one is: the code would forget it.)
ExecSwapVsync ==
  /\ fifo = "exec" /\ cur = "swapVsync" /\ drawing = 0
  /\ triple' = pending /\ pending' = TRUE
  /\ \/ fifo' = "swap"
     \/ fifo' = "retire" /\ ~pending
  /\ UNCHANGED <<ring, guest, timer, wake, rd, busy, cur, drawing, swaps>>

\* voodoo_wait_for_swap_complete returns to swapbufferCMD, which has its own swap
\* pending now if it waited for an earlier one.
Swapped == fifo' = "retire" /\ pending' = triple /\ triple' = FALSE

\* voodoo_wait_for_swap_complete: the swap is over ...
SwapOver ==
  /\ fifo = "swap" /\ ~pending
  /\ Swapped
  /\ UNCHANGED <<ring, guest, timer, wake, rd, busy, cur, drawing, swaps>>

\* ... or the thread sleeps until it is woken ...
SwapSleep ==
  /\ fifo = "swap" /\ pending
  /\ fifo' = "swapsleep"
  /\ UNCHANGED <<ring, guest, timer, wake, rd, busy, cur, drawing, swap, triple>>

SwapWake ==
  /\ fifo = "swapsleep" /\ wake
  /\ fifo' = "swapwoken"
  /\ UNCHANGED <<ring, guest, timer, wake, rd, busy, cur, drawing, swap, triple>>

SwapReset ==
  /\ fifo = "swapwoken"
  /\ wake' = FALSE /\ fifo' = "swaplock"
  /\ UNCHANGED <<ring, guest, timer, rd, busy, cur, drawing, swap, triple>>

\* (Mutants: one of the two reasons is forgotten.)
SkipVsyncFlush == pending /\ flush
SkipVsyncFull == Full

\* ... and swaps without waiting for the retrace if the emulation thread needs room
\* in the FIFO, or needs it empty.
SkipVsync == (pending /\ flush) \/ Full

\* (Mutant: the swap that skips the retrace is not counted.)
SwapLockUncounted ==
  /\ fifo = "swaplock"
  /\ IF SkipVsync THEN Swapped ELSE fifo' = "swap" /\ UNCHANGED <<pending, triple>>
  /\ UNCHANGED <<ring, guest, timer, wake, rd, busy, cur, drawing, swaps>>

SwapLock ==
  /\ fifo = "swaplock"
  /\ IF SkipVsync
     THEN swaps' = Decremented(swaps) /\ Swapped
     ELSE fifo' = "swap" /\ UNCHANGED <<swap, triple>>
  /\ UNCHANGED <<ring, guest, timer, wake, rd, busy, cur, drawing>>

\* (Mutant: pixels follow a triangle without waiting for it.)
AlikeAll(k, l) == l # Invalid

\* The entry is done; the same case goes on with the next one if it is alike.
Alike(k, l) == k = l \/ ({k, l} \subseteq Commands \cup {"reg"})

Retire ==
  /\ fifo = "retire"
  /\ slot' = [slot EXCEPT ![rd % Size] = Invalid]
  /\ rd' = (rd + 1) % Modulus
  /\ IF wr # rd' /\ Alike(cur, Entry(rd'))
     THEN fifo' = "exec" /\ cur' = Entry(rd')
     ELSE fifo' = "drain" /\ cur' = Invalid
  /\ UNCHANGED <<wr, guest, timer, wake, busy, drawing, swap, triple>>

Drained ==
  /\ fifo = "drain" /\ Empty
  /\ fifo' = "done"
  /\ UNCHANGED <<ring, guest, timer, wake, rd, busy, cur, drawing, swap, triple>>

Done ==
  /\ fifo = "done"
  /\ busy' = FALSE /\ fifo' = "sleep"
  /\ UNCHANGED <<ring, guest, timer, wake, rd, cur, drawing, swap, triple>>

\* A render thread finishes a triangle.
Rendered ==
  /\ drawing > 0 /\ drawing' = drawing - 1
  /\ UNCHANGED <<ring, guest, timer, wake, thread, swap, triple>>

-----------------------------------------------------------------------------
Calls == QueueFull \/ QueueNudge \/ QueueStore \/ QueueTear \/ QueueAdvance \/ Posted
         \/ FlushWait \/ FlushNudge \/ FlushEmpty \/ FlushDone \/ Read

Guest == (\E k \in Kinds : Write(k)) \/ ReadStatus \/ FlushBegin
         \/ WakeTimer \/ Vsync \/ VideoReset

FifoThread == Sleep \/ Wake \/ Fetch \/ FbWait
              \/ ExecWrite \/ ExecTriangle \/ ExecSwapNow \/ ExecSwapVsync
              \/ SwapOver \/ SwapSleep \/ SwapWake \/ SwapReset \/ SwapLock
              \/ Retire \/ Drained \/ Done

Next == Calls \/ Guest \/ FifoThread \/ Rendered

Spec == Init /\ [][Next]_vars

\* The threads run.  The timers run again and again while the guest does, so an
\* enabled wake_timer expires and a retrace comes; nothing is assumed of the guest.
FairSpec ==
  /\ Spec
  /\ WF_vars(Calls) /\ WF_vars(FifoThread) /\ WF_vars(Rendered)
  /\ SF_vars(WakeTimer) /\ SF_vars(Vsync)

-----------------------------------------------------------------------------
FifoPcs == {"sleep", "woken", "drain", "fbwait", "exec", "swap", "swapsleep",
            "swapwoken", "swaplock", "retire", "done", "fatal"}

CpuPcs == {"run", "queue", "nudge", "stored", "indexed", "torn", "posted", "flush",
           "flushnudge", "idle", "read"}

\* The state is well typed; swap_count is never negative.
TypeOK ==
  /\ slot \in [0..Size - 1 -> AllKinds \cup {Invalid}]
  /\ wr \in 0..Modulus - 1 /\ rd \in 0..Modulus - 1
  /\ cpu \in CpuPcs /\ hand \in Kinds \cup {Invalid} /\ flush \in BOOLEAN
  /\ timer \in BOOLEAN /\ wake \in BOOLEAN /\ busy \in BOOLEAN
  /\ fifo \in FifoPcs /\ cur \in AllKinds \cup {Invalid}
  /\ drawing \in 0..MaxDrawing
  /\ pending \in BOOLEAN /\ swaps \in Nat /\ triple \in BOOLEAN

\* When the guest reads the card, every command it wrote has been carried out and
\* drawn, although voodoo_flush looks only at the two indexes and then at the
\* render threads; and a pixel is never written while a triangle is being drawn.
NothingUndrawn ==
  /\ cpu = "read" => Empty /\ drawing = 0
  /\ fifo = "exec" /\ cur = "fb" => drawing = 0

\* The ring as it is meant: the index has been moved on for an entry still on its way.
Written ==
  IF cpu \in {"indexed", "torn"} THEN [slot EXCEPT ![Last % Size] = hand] ELSE slot

\* The commands not yet carried out, oldest first.
Todo ==
  LET first == IF fifo = "retire" THEN rd + 1 ELSE rd
  IN  [i \in 1..(wr - first) % Modulus |-> Written[(first + i - 1) % Size]]

\* Buffer swaps the guest has asked for and not got: being written, in the FIFO and
\* not begun, or begun and pending.
Outstanding ==
  LET begun == fifo \in {"swap", "swapsleep", "swapwoken", "swaplock"} /\ ~triple
      queued == {i \in 1..Len(Todo) : Todo[i] \in Swaps /\ (begun => i > 1)}
  IN  (IF cpu \in {"queue", "nudge", "stored"} /\ hand \in Swaps THEN 1 ELSE 0)
      + Cardinality(queued) + (IF pending THEN 1 ELSE 0)

\* swap_count, which guests poll until it is low enough, never counts a swap that
\* is not coming, whichever of the two threads completes a swap.
SwapsComing == swaps <= Outstanding

\* Commands take effect in order, each once, at the right time, although the host may
\* show the FIFO thread an entry's index first, its type next and its value last.
Stream == INSTANCE CommandStream WITH
  todo <- Todo, guest <- IF cpu = "read" THEN "reads" ELSE "writes",
  Triangles <- {"tri"}, Waiting <- Swaps \cup {"fb", "fill"}

Implements == Stream!Spec

\* The emulation thread gets out of voodoo_queue_command, full FIFO or not, even when
\* the FIFO thread waits for a retrace that only the emulation thread can bring (unless
\* fatal() has ended the program).
QueueReturns == cpu = "queue" ~> cpu = "run" \/ fifo = "fatal"

\* And so it does out of voodoo_flush.
FlushReturns == cpu = "flush" ~> cpu = "read" \/ fifo = "fatal"

\* voodoo_wake_fifo_thread: "Don't wake FIFO thread immediately ... Instead, wait a
\* short while".  A guest that writes no more but goes on polling the status register
\* sees its commands carried out.  (One that does not may wait for ever: a command
\* written between Drained and Done finds voodoo_busy set and wakes nobody.)
PolledRuns == WF_vars(ReadStatus) /\ <>[](cpu = "run") => []<>(Empty \/ fifo = "fatal")

\* voodoo_fifo_thread's fatal("Unknown fifo entry"): an entry between the indexes has a
\* known type.
EntryKnown == fifo # "fatal"
=============================================================================
