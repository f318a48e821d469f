---------------------------- MODULE VoodooRender ----------------------------
(***************************************************************************)
(* The render threads of a 3dfx Voodoo card and its cache of decoded        *)
(* textures (vid_voodoo_render.c, .h, vid_voodoo_texture.c).                *)
(*                                                                         *)
(* The FIFO thread of VoodooFifo puts triangles into params_buffer, a ring  *)
(* with one writer and a reader per render thread: every thread draws every *)
(* triangle, each its own lines of it.  A triangle names an entry of the    *)
(* texture cache.  No lock guards the ring or the cache: an entry counts    *)
(* the triangles that were queued with it (refcount) and, thread by thread, *)
(* those drawn (refcount_r), and is free when the counts agree.  The code   *)
(* only ever compares the two counts, so their difference stands for them.  *)
(*                                                                         *)
(* One texture unit is modelled.  A texture is what the cache tells apart:  *)
(* an address, a size and the checksum of a palette; what was decoded is    *)
(* reduced to whether texture memory has been written since.  Addresses do  *)
(* not wrap.  The code has no barrier: on a host with a weak memory order, as *)
(* arm64, the index may be seen to move before the triangle is there to be     *)
(* read (Index).  All other stores are seen in the order they are made.        *)
(***************************************************************************)
EXTENDS Integers, FiniteSets

CONSTANTS
  Count,      (* render_threads: 1, 2 or 4                                    *)
  Slots,      (* PARAM_SIZE                                                   *)
  WakeBelow,  (* fewer queued triangles than this wake the threads: 4         *)
  RoomAbove,  (* more than this and a thread that drew one says so:           *)
              (* PARAM_SIZE - 10                                              *)
  Modulus,    (* 2^32: the indexes and the counts are ints, and wrap          *)
  Size,       (* TEX_CACHE_MAX                                                *)
  Textures, NoTexture,
  Start, End, (* where a texture lies in texture memory, End excluded         *)
  Page,       (* 1 << TEX_DIRTY_SHIFT                                         *)
  Addresses   (* where the guest writes texture memory                        *)

Threads == 0..Count - 1
Entries == 0..Size - 1

ASSUME VoodooRenderAssumption ==
  /\ Count \in {1, 2, 4}
  /\ Slots \in Nat \ {0} /\ Modulus \in Nat /\ Slots < Modulus /\ Modulus % Slots = 0
  /\ WakeBelow \in 2..Slots
  /\ RoomAbove \in 0..Slots - 1 /\ RoomAbove < Slots - 1
  /\ Size \in Nat \ {0}
  /\ NoTexture \notin Textures
  /\ Start \in [Textures -> Nat] /\ End \in [Textures -> Nat]
  /\ Page \in Nat \ {0}
  /\ Addresses \subseteq Nat

VARIABLES
  ring,     (* params_buffer: the cache entry each triangle uses              *)
  wr, rd,   (* params_write_idx, params_read_idx                              *)
  fifo,     (* where the FIFO thread is                                       *)
  job,      (* what it is doing: a texture, an entry, an address, a count ... *)
  base,     (* texture_cache: the texture of each entry, NoTexture if evicted *)
  owed,     (* refcount - refcount_r of each entry and thread                 *)
  last,     (* texture_last_removed                                           *)
  present,  (* texture_present: the pages that hold cached textures           *)
  stale,    (* entries whose texture has been written since it was decoded    *)
  wake,     (* wake_render_thread                                             *)
  room,     (* render_not_full_event                                          *)
  busy,     (* render_voodoo_busy                                             *)
  at,       (* where each render thread is                                    *)
  misread   (* a triangle was counted that had been in another's slot        *)

texture == <<base, last, present, stale>>
threads == <<rd, busy, at, misread>>
events == <<wake, room>>
vars == <<ring, wr, fifo, job, texture, owed, events, threads>>

-----------------------------------------------------------------------------
(* The ring. *)

Queued(t) == (wr - rd[t]) % Modulus      \* PARAM_ENTRIES
Full(t) == Queued(t) >= Slots
Empty(t) == rd[t] = wr
Slot(i) == i % Slots

\* What the FIFO thread has in hand.
NoJob == [tex |-> NoTexture, entry |-> 0, addr |-> 0, n |-> 0, then |-> "ready"]

Init ==
  /\ ring = [s \in 0..Slots - 1 |-> 0]
  /\ wr = 0 /\ rd = [t \in Threads |-> 0]
  /\ fifo = "ready" /\ job = NoJob
  /\ base = [e \in Entries |-> NoTexture]
  /\ owed = [e \in Entries |-> [t \in Threads |-> 0]]
  /\ last = 0 /\ present = {} /\ stale = {}
  /\ wake = [t \in Threads |-> FALSE] /\ room = [t \in Threads |-> FALSE]
  /\ busy = [t \in Threads |-> FALSE] /\ at = [t \in Threads |-> "stop"]
  /\ misread = FALSE

-----------------------------------------------------------------------------
(* The FIFO thread: voodoo_queue_triangle. *)

Step(from, to) == fifo = from /\ fifo' = to

\* A triangle command: the card's registers say which texture is current.
QueueTriangle(x) ==
  /\ Step("ready", "room")
  /\ job' = [NoJob EXCEPT !.tex = x]
  /\ UNCHANGED <<ring, wr, texture, owed, events, threads>>

AnyFull == \E t \in Threads : Full(t)

\* There is room for it, or the events are reset ...
HaveRoom ==
  /\ Step("room", "find") /\ ~AnyFull
  /\ UNCHANGED <<ring, wr, job, texture, owed, events, threads>>

NoRoom ==
  /\ Step("room", "full") /\ AnyFull
  /\ room' = [t \in Threads |-> FALSE]
  /\ UNCHANGED <<ring, wr, job, texture, owed, wake, threads>>

\* ... and each thread whose queue is still full is waited for, without a timeout.
PassThread ==
  /\ fifo = "full" /\ job.n \in Threads /\ ~Full(job.n)
  /\ job' = [job EXCEPT !.n = @ + 1]
  /\ UNCHANGED <<ring, wr, fifo, texture, owed, events, threads>>

\* (Mutant: every thread is waited for.)
AwaitAny ==
  /\ Step("full", "await") /\ job.n \in Threads
  /\ UNCHANGED <<ring, wr, job, texture, owed, events, threads>>

AwaitThread ==
  /\ Step("full", "await") /\ job.n \in Threads /\ Full(job.n)
  /\ UNCHANGED <<ring, wr, job, texture, owed, events, threads>>

ThreadMadeRoom ==
  /\ Step("await", "full") /\ room[job.n]
  /\ job' = [job EXCEPT !.n = @ + 1]
  /\ UNCHANGED <<ring, wr, texture, owed, events, threads>>

LookAgain ==
  /\ Step("full", "room") /\ job.n = Count
  /\ job' = [job EXCEPT !.n = 0]
  /\ UNCHANGED <<ring, wr, texture, owed, events, threads>>

-----------------------------------------------------------------------------
(* The FIFO thread: voodoo_use_texture. *)

\* refcount++, and the entry's number goes into the triangle.
Refer(e) ==
  /\ owed' = [owed EXCEPT ![e] = [t \in Threads |-> (owed[e][t] + 1) % Modulus]]
  /\ job' = [NoJob EXCEPT !.entry = e]

\* (Mutant: a triangle that finds its texture in the cache is not counted.)
HitUncounted(e) ==
  /\ Step("find", "put") /\ base[e] = job.tex
  /\ job' = [NoJob EXCEPT !.entry = e]
  /\ UNCHANGED <<ring, wr, texture, owed, events, threads>>

\* The texture is in the cache ...
Hit(e) ==
  /\ Step("find", "put") /\ base[e] = job.tex
  /\ Refer(e)
  /\ UNCHANGED <<ring, wr, texture, events, threads>>

\* ... or an unused entry is searched for.
Miss ==
  /\ Step("find", "probe") /\ \A e \in Entries : base[e] # job.tex
  /\ UNCHANGED <<ring, wr, job, texture, owed, events, threads>>

\* The threads whose counts that search compares.
Compared == {0} \cup IF Count = 1 THEN {} ELSE {1}

\* (Mutant: only the first thread's count is compared.)
UnusedFirst(e) == owed[e][0] = 0

Unused(e) == \A t \in Compared : owed[e][t] = 0

Probed == (last + 1) % Size

\* (Mutant: only the page of the first byte is marked.)
PagesFirst(x) == {Start[x] \div Page}

\* The pages marked for texture x: from its first byte on, a page at a time.
Pages(x) == {a \div Page : a \in {b \in Start[x]..End[x] : (b - Start[x]) % Page = 0}}

\* The texture is decoded into the entry.
Fill ==
  /\ Step("probe", "put") /\ Unused(Probed)
  /\ last' = Probed
  /\ base' = [base EXCEPT ![Probed] = job.tex]
  /\ present' = present \cup Pages(job.tex)
  /\ stale' = stale \ {Probed}
  /\ Refer(Probed)
  /\ UNCHANGED <<ring, wr, events, threads>>

\* The next entry is tried; after the last one the FIFO thread waits for idle threads.
Used ==
  /\ fifo = "probe" /\ ~Unused(Probed)
  /\ last' = Probed
  /\ IF job.n + 1 = Size
     THEN fifo' = "idle" /\ job' = [job EXCEPT !.n = 0, !.then = "probe"]
     ELSE UNCHANGED fifo /\ job' = [job EXCEPT !.n = @ + 1]
  /\ UNCHANGED <<ring, wr, base, present, stale, owed, events, threads>>

-----------------------------------------------------------------------------
(* The FIFO thread: the rest of voodoo_queue_triangle. *)

\* The triangle is copied and the index moves.  Nobody reads the slot before that, so
\* these are one step ...
Put ==
  /\ Step("put", "nudge")
  /\ ring' = [ring EXCEPT ![Slot(wr)] = job.entry]
  /\ wr' = (wr + 1) % Modulus
  /\ job' = NoJob
  /\ UNCHANGED <<texture, owed, events, threads>>

\* ... unless the index is seen to move first.
Index ==
  /\ Step("put", "indexed")
  /\ wr' = (wr + 1) % Modulus
  /\ UNCHANGED <<ring, job, texture, owed, events, threads>>

LastSlot == Slot(wr + Modulus - 1)

\* The ring once the triangle that is being copied is there.
Copied == IF fifo = "indexed" THEN [ring EXCEPT ![LastSlot] = job.entry] ELSE ring

Copy ==
  /\ Step("indexed", "nudge")
  /\ ring' = [ring EXCEPT ![LastSlot] = job.entry]
  /\ job' = NoJob
  /\ UNCHANGED <<wr, texture, owed, events, threads>>

\* (Mutant: only the first thread's triangles are counted.)
FewQueuedFirst == Queued(0) < WakeBelow

FewQueued == \E t \in Threads : Queued(t) < WakeBelow

\* voodoo_wake_render_thread.
WakeAll == wake' = [t \in Threads |-> TRUE]

Nudge ==
  /\ Step("nudge", "ready")
  /\ IF FewQueued THEN WakeAll ELSE UNCHANGED wake
  /\ UNCHANGED <<ring, wr, job, texture, owed, room, threads>>

-----------------------------------------------------------------------------
(* The FIFO thread: voodoo_wait_for_render_thread_idle. *)

\* (Mutant: a thread that is not busy is taken to have drawn everything.)
AllIdleBusyOnly == \A t \in Threads : ~busy[t]

AllIdle == \A t \in Threads : Empty(t) /\ ~busy[t]

\* A pixel is written or read, or the emulation thread flushes the card.
AccessPixels ==
  /\ Step("ready", "idle") /\ UNCHANGED job
  /\ UNCHANGED <<ring, wr, texture, owed, events, threads>>

Idle ==
  /\ Step("idle", job.then) /\ AllIdle
  /\ job' = [job EXCEPT !.then = "ready"]
  /\ UNCHANGED <<ring, wr, texture, owed, events, threads>>

\* The wait for an event gives up after a millisecond.
NotIdle ==
  /\ Step("idle", "idle") /\ ~AllIdle
  /\ WakeAll
  /\ UNCHANGED <<ring, wr, job, texture, owed, room, threads>>

-----------------------------------------------------------------------------
(* The FIFO thread: voodoo_tex_writel and flush_texture_cache. *)

RoundDown(a) == a - (a % Page)
RoundUp(a) == RoundDown(a + Page - 1)

\* The cached textures that may hold address a.
Dirtied(a) == {e \in Entries : /\ base[e] # NoTexture
                               /\ a \in RoundDown(Start[base[e]])..RoundUp(End[base[e]]) - 1}

\* The threads whose counts flush_texture_cache compares.
Awaited == {0} \cup IF Count = 2 THEN {1} ELSE {}

SurvivingPages(gone) == UNION {Pages(base[e]) : e \in {f \in Entries \ gone : base[f] # NoTexture}}

WriteTexture(a) ==
  /\ fifo = "ready"
  /\ IF a \div Page \in present
     THEN LET gone == Dirtied(a)
          IN  /\ present' = SurvivingPages(gone)
              /\ base' = [e \in Entries |-> IF e \in gone THEN NoTexture ELSE base[e]]
              /\ fifo' = IF \E e \in gone, t \in Awaited : owed[e][t] # 0
                         THEN "idle" ELSE "poke"
     ELSE fifo' = "poke" /\ UNCHANGED <<present, base>>
  /\ job' = [NoJob EXCEPT !.addr = a, !.then = IF fifo' = "idle" THEN "poke" ELSE "ready"]
  /\ UNCHANGED <<ring, wr, last, stale, owed, events, threads>>

Poke ==
  /\ Step("poke", "ready") /\ job' = NoJob
  /\ stale' = stale \cup {e \in Entries : /\ base[e] # NoTexture
                                          /\ job.addr \in Start[base[e]]..End[base[e]] - 1}
  /\ UNCHANGED <<ring, wr, base, last, present, owed, events, threads>>

-----------------------------------------------------------------------------
(* A render thread: render_thread and voodoo_triangle.  A step reads or writes *)
(* one thing the FIFO thread writes or reads; what lies between is its own.     *)

Goes(t, from, to) == at[t] = from /\ at' = [at EXCEPT ![t] = to]

fifoSide == <<ring, wr, fifo, job, texture>>

\* The wait ends and the event is reset; one set in between would be lost, but the
\* queue is looked at after that.
WakeUp(t) ==
  /\ Goes(t, "sleep", "test") /\ wake[t]
  /\ wake' = [wake EXCEPT ![t] = FALSE]
  /\ busy' = [busy EXCEPT ![t] = TRUE]
  /\ UNCHANGED <<fifoSide, owed, room, rd, misread>>

\* The triangle at rd is drawn; only then is its texture counted as drawn.  Read before it
\* was copied, it is the one that was in its slot.
Draw(t) ==
  /\ Goes(t, "test", "advance") /\ ~Empty(t)
  /\ owed' = [owed EXCEPT ![ring[Slot(rd[t])]][t] = (@ - 1) % Modulus]
  /\ misread' = (misread \/ ring[Slot(rd[t])] # Copied[Slot(rd[t])])
  /\ UNCHANGED <<fifoSide, events, rd, busy>>

Advance(t) ==
  /\ Goes(t, "advance", "signal")
  /\ rd' = [rd EXCEPT ![t] = (@ + 1) % Modulus]
  /\ UNCHANGED <<fifoSide, owed, events, busy, misread>>

ManyQueued(t) == Queued(t) > RoomAbove

Signal(t) ==
  /\ Goes(t, "signal", "test")
  /\ room' = [room EXCEPT ![t] = @ \/ ManyQueued(t)]
  /\ UNCHANGED <<fifoSide, owed, wake, rd, busy, misread>>

NothingLeft(t) ==
  /\ Goes(t, "test", "stop") /\ Empty(t)
  /\ UNCHANGED <<fifoSide, owed, events, rd, busy, misread>>

\* (Mutant: the wake-up event is reset after the queue was found empty.)
StopResets(t) ==
  /\ Goes(t, "stop", "sleep")
  /\ busy' = [busy EXCEPT ![t] = FALSE]
  /\ room' = [room EXCEPT ![t] = TRUE] /\ wake' = [wake EXCEPT ![t] = FALSE]
  /\ UNCHANGED <<fifoSide, owed, rd, misread>>

\* A new thread, or one that has drawn all there was, waits again.  (It is idle before
\* it says that there is room; were the FIFO thread to reset that in between, it would
\* only be told of the room once more.)
Stop(t) ==
  /\ Goes(t, "stop", "sleep")
  /\ busy' = [busy EXCEPT ![t] = FALSE]
  /\ room' = [room EXCEPT ![t] = TRUE]
  /\ UNCHANGED <<fifoSide, owed, wake, rd, misread>>

-----------------------------------------------------------------------------
\* What the FIFO thread does once it has taken a command.
FifoWorks ==
  \/ HaveRoom \/ NoRoom \/ PassThread \/ AwaitThread \/ ThreadMadeRoom \/ LookAgain
  \/ \E e \in Entries : Hit(e)
  \/ Miss \/ Fill \/ Used
  \/ Put \/ Index \/ Copy \/ Nudge
  \/ Idle \/ NotIdle \/ Poke

Render(t) ==
  \/ WakeUp(t) \/ Draw(t) \/ Advance(t) \/ Signal(t)
  \/ NothingLeft(t) \/ Stop(t)

Next ==
  \/ \E x \in Textures : QueueTriangle(x)
  \/ AccessPixels
  \/ \E a \in Addresses : WriteTexture(a)
  \/ FifoWorks
  \/ \E t \in Threads : Render(t)

Spec == Init /\ [][Next]_vars

\* The host runs every thread.  That does not make an idle wait end: its loop wakes
\* threads that have nothing to draw, and finds one of them busy for it.
Fairness == WF_vars(FifoWorks) /\ \A t \in Threads : WF_vars(Render(t))

FairSpec == Spec /\ Fairness

-----------------------------------------------------------------------------
TypeOK ==
  /\ ring \in [0..Slots - 1 -> Entries]
  /\ wr \in 0..Modulus - 1 /\ rd \in [Threads -> 0..Modulus - 1]
  /\ fifo \in {"ready", "room", "full", "await", "find", "probe", "put", "indexed", "nudge",
              "idle", "poke"}
  /\ job \in [tex : Textures \cup {NoTexture}, entry : Entries, addr : Nat, n : Nat,
             then : {"ready", "probe", "poke"}]
  /\ base \in [Entries -> Textures \cup {NoTexture}] /\ last \in Entries
  /\ present \subseteq Nat /\ stale \subseteq Entries
  /\ owed \in [Entries -> [Threads -> 0..Modulus - 1]]
  /\ wake \in [Threads -> BOOLEAN] /\ room \in [Threads -> BOOLEAN]
  /\ busy \in [Threads -> BOOLEAN]
  /\ at \in [Threads -> {"sleep", "test", "advance", "signal", "stop"}]
  /\ misread \in BOOLEAN
  /\ fifo = "await" => job.n \in Threads

\* How many triangles a thread has still to draw: the one at its read index is done
\* with its texture before the index moves.
Undrawn(t) == Queued(t) - IF at[t] = "advance" THEN 1 ELSE 0

\* The slots of those triangles.
Waiting(t) == {Slot(wr + Modulus - i) : i \in 1..Undrawn(t)}

\* Unless a thread has counted a triangle by what was in its slot before, the counts of an
\* entry differ by the triangles that use it and are not drawn, the one being queued
\* included: an entry is never given up too soon, nor for ever kept.
CountsAgree ==
  ~misread =>
    \A e \in Entries, t \in Threads :
      owed[e][t] = Cardinality({s \in Waiting(t) : Copied[s] = e})
                   + IF fifo = "put" /\ job.entry = e THEN 1 ELSE 0

\* A cached texture that starts on a page boundary is what texture memory holds,
\* whatever shares its pages; in one that does not, the last page may go unmarked.
AlignedCoherent ==
  \A e \in stale : base[e] # NoTexture => Start[base[e]] % Page # 0

\* When voodoo_wait_for_render_thread_idle returns, no thread has a triangle to draw,
\* so that the pixels read or overwritten next are final.
IdleMeansDrawn ==
  [][fifo = "idle" /\ fifo' # "idle" => \A t \in Threads : Empty(t) /\ at[t] # "advance"]_vars

\* A render thread that is about to sleep, or sleeps, with triangles queued is woken.
SleepersWoken ==
  \A t \in Threads : at[t] \in {"stop", "sleep"} /\ ~Empty(t) =>
                       wake[t] \/ (fifo \in {"indexed", "nudge"} /\ Queued(t) = 1)

\* A thread the FIFO thread waits for has said that there is room, or has enough
\* triangles left to say so.
AwaitedGoesOn ==
  fifo = "await" => \/ room[job.n]
                    \/ IF at[job.n] = "signal" THEN ManyQueued(job.n) ELSE Full(job.n)

\* No wake-up is lost in either direction, whatever happens between two steps of a
\* thread: both events are reset by the thread that waits for them, without a lock.
NobodyStuck == SleepersWoken /\ AwaitedGoesOn

\* A triangle that finds the ring full is queued in the end: the wait for room has no
\* timeout, and the event it waits for is reset while the threads are drawing.
RoomComes == fifo = "room" ~> fifo = "find"

\* No render thread sleeps on queued triangles for ever, although the threads are woken
\* only when one of them has few left, and reset that event before they look.
NoneForgotten == \A t \in Threads : (at[t] = "sleep" /\ ~Empty(t)) ~> at[t] = "test"
=============================================================================
