-------------------------- MODULE VoodooFifoProofs --------------------------
(***************************************************************************)
(* Proofs about VoodooFifo, for every size of the ring buffer and every index *)
(* width, whatever the order in which the stores of an entry and of the index *)
(* become visible: the ring never fills beyond FIFO_FULL, a read of the card *)
(* sees all that was written before it, VoodooFifo implements CommandStream, *)
(* swap_count counts only swaps that are coming, fatal() can only come of    *)
(* the entry that is just being written, and a wait of the emulation thread  *)
(* gets shorter with every step of the FIFO thread.                          *)
(***************************************************************************)
EXTENDS VoodooFifo, TLAPS, SequenceTheorems, FiniteSetTheorems

\* The FIFO thread is carrying out the entry at fifo_read_idx.
Working == fifo \in {"fbwait", "exec", "swap", "swapsleep", "swapwoken", "swaplock", "retire"}

\* Between the test of FIFO_FULL and the index moving on only the other thread
\* moves an index, and that makes room; between the test of FIFO_EMPTY and the
\* read no thread moves any.
RingInv ==
  /\ Entries <= Limit
  /\ cpu = "stored" => Entries < Limit
  /\ cpu \in {"idle", "read"} => Empty
  /\ Working => ~Empty

DrawInv ==
  /\ cpu = "read" => drawing = 0
  /\ fifo \in {"exec", "retire"} /\ cur = "fb" => drawing = 0
  /\ fifo \in {"swap", "swapsleep", "swapwoken", "swaplock"} => cur # "fb"

IInv == TypeOK /\ RingInv /\ DrawInv

\* The numbers are numbers.
LEMMA Constants ==
  /\ Size \in Nat \ {0} /\ Limit \in Nat \ {0} /\ Late \in Nat /\ Modulus \in Nat
  /\ Limit < Size /\ Size < Modulus /\ MaxDrawing \in Nat \ {0}
  /\ Kinds \subseteq AllKinds
BY VoodooFifoAssumption

\* Wrapping indexes: differences and successors.
LEMMA Wrap ==
  ASSUME NEW M \in Nat \ {0}, NEW w \in 0..M - 1, NEW r \in 0..M - 1
  PROVE  /\ (w - r) % M = IF w >= r THEN w - r ELSE w - r + M
         /\ (w + 1) % M = IF w = M - 1 THEN 0 ELSE w + 1
         /\ (w - r) % M = 0 <=> w = r
BY SMTT(60)

\* FIFO_ENTRIES and FIFO_EMPTY agree.
LEMMA EntriesAre ==
  ASSUME TypeOK
  PROVE  /\ Entries = IF wr >= rd THEN wr - rd ELSE wr - rd + Modulus
         /\ Entries \in 0..Modulus - 1
         /\ Empty <=> Entries = 0
<1>1. Modulus \in Nat \ {0} /\ wr \in 0..Modulus - 1 /\ rd \in 0..Modulus - 1
  BY Constants DEF TypeOK
<1>2. Entries = IF wr >= rd THEN wr - rd ELSE wr - rd + Modulus
  BY <1>1, Wrap DEF Entries
<1> QED
  BY <1>1, <1>2 DEF Empty

\* The writer moves on, with room for one more.
LEMMA AdvanceAddsOne ==
  ASSUME TypeOK, Entries < Limit, Advance, UNCHANGED rd
  PROVE  wr' \in 0..Modulus - 1 /\ Entries' = Entries + 1 /\ ~Empty'
<1>1. Modulus \in Nat \ {0} /\ wr \in 0..Modulus - 1 /\ rd \in 0..Modulus - 1
      /\ Limit \in Nat /\ Limit < Modulus - 1
  BY Constants DEF TypeOK
<1>2. wr' = IF wr = Modulus - 1 THEN 0 ELSE wr + 1
  BY <1>1, Wrap DEF Advance
<1>3. wr' \in 0..Modulus - 1
  BY <1>1, <1>2
<1>4. Entries' = IF wr' >= rd THEN wr' - rd ELSE wr' - rd + Modulus
  BY <1>1, <1>3, Wrap DEF Entries
<1>5. Entries = IF wr >= rd THEN wr - rd ELSE wr - rd + Modulus
  BY EntriesAre
<1> QED
  BY <1>1, <1>2, <1>3, <1>4, <1>5 DEF Empty

\* The reader moves on from an entry.
LEMMA RetireTakesOne ==
  ASSUME TypeOK, ~Empty, rd' = (rd + 1) % Modulus, UNCHANGED wr
  PROVE  rd' \in 0..Modulus - 1 /\ Entries' = Entries - 1
<1>1. Modulus \in Nat \ {0} /\ wr \in 0..Modulus - 1 /\ rd \in 0..Modulus - 1
  BY Constants DEF TypeOK
<1>2. rd' = IF rd = Modulus - 1 THEN 0 ELSE rd + 1
  BY <1>1, Wrap
<1>3. rd' \in 0..Modulus - 1
  BY <1>1, <1>2
<1>4. Entries' = IF wr >= rd' THEN wr - rd' ELSE wr - rd' + Modulus
  BY <1>1, <1>3, Wrap DEF Entries
<1>5. Entries = IF wr >= rd THEN wr - rd ELSE wr - rd + Modulus
  BY EntriesAre
<1> QED
  BY <1>1, <1>2, <1>3, <1>4, <1>5 DEF Empty

\* swap_count stays a natural number.
LEMMA DecrementedNat == \A n \in Nat : Decremented(n) \in Nat
BY DEF Decremented

\* An index falls on an entry of the ring.
LEMMA EntryTyped ==
  ASSUME NEW i \in Int, slot \in [0..Size - 1 -> AllKinds \cup {Invalid}]
  PROVE  i % Size \in 0..Size - 1 /\ Entry(i) \in AllKinds \cup {Invalid}
<1>1. i % Size \in 0..Size - 1
  BY Constants
<1> QED
  BY <1>1 DEF Entry

-----------------------------------------------------------------------------
\* The card starts with an empty ring and an idle thread.
LEMMA InitInv == Init => IInv
<1> SUFFICES ASSUME Init PROVE IInv
  OBVIOUS
<1>1. TypeOK
  <2>1. slot \in [0..Size - 1 -> AllKinds \cup {Invalid}]
    BY DEF Init
  <2>2. wr \in 0..Modulus - 1 /\ rd \in 0..Modulus - 1 /\ drawing \in 0..MaxDrawing
        /\ swaps \in Nat
    BY Constants DEF Init
  <2> QED
    BY <2>1, <2>2 DEF Init, TypeOK, CpuPcs, FifoPcs
<1>2. Entries = 0 /\ Empty
  BY <1>1, EntriesAre DEF Init, Empty
<1> QED
  BY <1>1, <1>2, Constants DEF IInv, RingInv, DrawInv, Working, Init

\* The emulation thread's steps keep the types.
LEMMA CallsType == IInv /\ Calls => TypeOK'
<1> SUFFICES ASSUME IInv, Calls PROVE TypeOK'
  OBVIOUS
<1> USE DEF CpuPcs, guest, thread, swap, ring
<1>1. CASE QueueFull \/ QueueNudge \/ Posted \/ FlushWait \/ FlushNudge
           \/ FlushEmpty \/ FlushDone \/ Read
  BY <1>1 DEF QueueFull, QueueNudge, Posted, FlushWait, FlushNudge, FlushEmpty,
              FlushDone, Read, IInv, TypeOK
<1>2. CASE QueueStore
  <2>1. slot' \in [0..Size - 1 -> AllKinds \cup {Invalid}]
    BY <1>2, Constants DEF QueueStore, IInv, TypeOK
  <2>2. wr' \in 0..Modulus - 1
    BY <1>2, AdvanceAddsOne, EntriesAre, Constants
    DEF QueueStore, Full, IInv, TypeOK
  <2> QED
    BY <1>2, <2>1, <2>2 DEF QueueStore, IInv, TypeOK
<1>3. CASE QueueTear
  <2>1. slot' \in [0..Size - 1 -> AllKinds \cup {Invalid}]
    BY <1>3 DEF QueueTear, StoreLast, Swaps, Commands, AllKinds, IInv, TypeOK
  <2> QED
    BY <1>3, <2>1 DEF QueueTear, IInv, TypeOK
<1>4. CASE QueueAdvance
  <2>1. slot' \in [0..Size - 1 -> AllKinds \cup {Invalid}]
    BY <1>4, Constants DEF QueueAdvance, StoreLast, IInv, TypeOK
  <2>2. wr' \in 0..Modulus - 1
    BY <1>4, AdvanceAddsOne DEF QueueAdvance, IInv, RingInv, TypeOK
  <2>3. timer' \in BOOLEAN
    <3> DEFINE late == (wr' - rd) % Modulus > Late
    <3>1. timer' = (timer \/ late)
      BY <1>4 DEF QueueAdvance
    <3> HIDE DEF late
    <3> QED
      BY <3>1, Zenon
  <2> QED
    BY <1>4, <2>1, <2>2, <2>3 DEF QueueAdvance, IInv, TypeOK
<1> QED
  BY <1>1, <1>2, <1>3, <1>4 DEF Calls

\* The ring is lengthened only when there is room; a read waits until it is empty and
\* nothing is drawn.
LEMMA CallsStep == IInv /\ Calls => IInv'
<1> SUFFICES ASSUME IInv, Calls PROVE IInv'
  OBVIOUS
<1> USE DEF guest, thread, swap, ring, Working
<1>1. TypeOK'
  BY CallsType
<1>2. DrawInv'
  BY DEF Calls, QueueFull, QueueNudge, QueueStore, QueueTear, QueueAdvance, Posted, FlushWait,
         FlushNudge, FlushEmpty, FlushDone, Read, DrawInv, IInv
<1>3. CASE QueueFull \/ QueueNudge \/ Posted \/ FlushWait \/ FlushNudge
           \/ FlushEmpty \/ FlushDone \/ Read
  <2>1. UNCHANGED <<wr, rd, fifo>> /\ Entries' = Entries /\ (Empty' <=> Empty)
    BY <1>3 DEF QueueFull, QueueNudge, Posted, FlushWait, FlushNudge, FlushEmpty,
                FlushDone, Read, Entries, Empty
  <2>2. RingInv'
    BY <1>3, <2>1 DEF QueueFull, QueueNudge, Posted, FlushWait, FlushNudge,
                      FlushEmpty, FlushDone, Read, IInv, RingInv
  <2> QED
    BY <1>1, <1>2, <2>2 DEF IInv
<1>4. CASE QueueStore
  <2>1. Entries < Limit /\ Entries \in Nat
    BY <1>4, EntriesAre, Constants DEF QueueStore, Full, IInv
  <2>2. CASE cpu' = "stored"
    <3>1. Entries' = Entries /\ (Empty' <=> Empty)
      BY <1>4, <2>2 DEF QueueStore, Entries, Empty
    <3> QED
      BY <1>1, <1>2, <1>4, <2>1, <2>2, <3>1, Constants DEF QueueStore, IInv, RingInv
  <2>3. CASE Advance /\ cpu' = "indexed"
    <3>1. Entries' = Entries + 1 /\ ~Empty'
      BY <1>4, <2>1, <2>3, AdvanceAddsOne DEF QueueStore, IInv
    <3> QED
      BY <1>1, <1>2, <1>4, <2>1, <2>3, <3>1, Constants DEF QueueStore, IInv, RingInv
  <2> QED
    BY <1>4, <2>2, <2>3 DEF QueueStore
<1>5. CASE QueueAdvance
  <2>1. CASE cpu = "stored"
    <3>1. Entries < Limit /\ Entries \in Nat
      BY <2>1, EntriesAre, Constants DEF IInv, RingInv
    <3>2. Entries' = Entries + 1 /\ ~Empty'
      BY <1>5, <2>1, <3>1, AdvanceAddsOne DEF QueueAdvance, IInv
    <3> QED
      BY <1>1, <1>2, <1>5, <3>1, <3>2, Constants DEF QueueAdvance, IInv, RingInv
  <2>2. CASE cpu # "stored"
    <3>1. Entries' = Entries /\ (Empty' <=> Empty)
      BY <1>5, <2>2 DEF QueueAdvance, Entries, Empty
    <3> QED
      BY <1>1, <1>2, <1>5, <2>2, <3>1 DEF QueueAdvance, IInv, RingInv
  <2> QED
    BY <2>1, <2>2
<1>6. CASE QueueTear
  <2>1. Entries' = Entries /\ (Empty' <=> Empty)
    BY <1>6 DEF QueueTear, Entries, Empty
  <2> QED
    BY <1>1, <1>2, <1>6, <2>1 DEF QueueTear, IInv, RingInv
<1> QED
  BY <1>3, <1>4, <1>5, <1>6 DEF Calls

\* What the guest and the timers start touches neither index.
LEMMA GuestStep == IInv /\ Guest => IInv'
<1> SUFFICES ASSUME IInv, Guest PROVE IInv'
  OBVIOUS
<1> USE DEF guest, thread, swap, ring, Working
<1>1. UNCHANGED <<wr, rd, fifo, cur, drawing>> /\ Entries' = Entries /\ (Empty' <=> Empty)
  BY DEF Guest, Write, ReadStatus, FlushBegin, WakeTimer, Vsync, VideoReset, Entries, Empty
<1>2. TypeOK'
  <2> USE DEF IInv, TypeOK, CpuPcs
  <2>1. ASSUME NEW k \in Kinds, Write(k) PROVE TypeOK'
    BY <2>1 DEF Write
  <2>2. CASE ReadStatus
    BY <2>2 DEF ReadStatus
  <2>3. CASE FlushBegin
    BY <2>3 DEF FlushBegin
  <2>4. CASE WakeTimer
    BY <2>4 DEF WakeTimer
  <2>5. CASE Vsync
    BY <2>5, DecrementedNat DEF Vsync
  <2>6. CASE VideoReset
    BY <2>6 DEF VideoReset
  <2> QED
    BY <2>1, <2>2, <2>3, <2>4, <2>5, <2>6 DEF Guest
<1>3. RingInv' /\ DrawInv'
  BY <1>1 DEF Guest, Write, ReadStatus, FlushBegin, WakeTimer, Vsync, VideoReset,
              IInv, RingInv, DrawInv
<1> QED
  BY <1>2, <1>3 DEF IInv

\* The FIFO thread lets go of an entry it has.
LEMMA RetireStep == IInv /\ Retire => IInv'
<1> SUFFICES ASSUME IInv, Retire PROVE IInv'
  OBVIOUS
<1> USE DEF guest, thread, swap, ring, Working
<1>1. ~Empty /\ Entries \in Nat /\ Limit \in Nat
  BY EntriesAre, Constants DEF Retire, IInv, RingInv
<1>2. rd' \in 0..Modulus - 1 /\ Entries' = Entries - 1
  BY <1>1, RetireTakesOne DEF Retire, IInv
<1>3. slot' \in [0..Size - 1 -> AllKinds \cup {Invalid}]
  BY EntryTyped DEF Retire, IInv, TypeOK
<1>4. Entry(rd') \in AllKinds \cup {Invalid}
  BY <1>2, EntryTyped, Constants DEF IInv, TypeOK
<1>5. TypeOK'
  BY <1>2, <1>3, <1>4 DEF Retire, IInv, TypeOK, FifoPcs
<1>6. RingInv'
  BY <1>1, <1>2 DEF Retire, IInv, RingInv, Empty
<1>7. DrawInv'
  BY DEF Retire, Alike, Commands, Swaps, IInv, DrawInv
<1> QED
  BY <1>5, <1>6, <1>7 DEF IInv

\* The FIFO thread's other steps; a triangle starts only while an entry is held, so
\* not during a read.
LEMMA ThreadStep == IInv /\ FifoThread => IInv'
<1> SUFFICES ASSUME IInv, FifoThread PROVE IInv'
  OBVIOUS
<1> USE DEF guest, thread, swap, ring, Working
<1>1. CASE Retire
  BY <1>1, RetireStep
<1>2. CASE Fetch
  <2>1. Entry(rd) \in AllKinds \cup {Invalid}
    BY EntryTyped, Constants DEF IInv, TypeOK
  <2>2. Entries' = Entries /\ (Empty' <=> Empty) /\ ~Empty
    BY <1>2 DEF Fetch, Entries, Empty
  <2>3. TypeOK'
    BY <1>2, <2>1 DEF Fetch, IInv, TypeOK, FifoPcs
  <2>4. RingInv' /\ DrawInv'
    BY <1>2, <2>2 DEF Fetch, IInv, RingInv, DrawInv
  <2> QED
    BY <2>3, <2>4 DEF IInv
<1>3. CASE FifoThread /\ ~Retire /\ ~Fetch
  <2> USE DEF Sleep, Wake, FbWait, ExecWrite, ExecTriangle, ExecSwapNow, ExecSwapVsync,
              SwapOver, SwapSleep, SwapWake, SwapReset, SwapLock, Drained, Done,
              FifoThread, Swapped
  <2>1. UNCHANGED <<cpu, wr, rd, cur>> /\ Entries' = Entries /\ (Empty' <=> Empty)
    BY <1>3 DEF Entries, Empty
  <2>2. TypeOK'
    <3> USE DEF IInv, TypeOK, FifoPcs
    <3>1. CASE Sleep \/ Wake \/ FbWait \/ ExecWrite \/ Drained \/ Done
      BY <3>1
    <3>2. CASE ExecTriangle
      BY <3>2, Constants
    <3>3. CASE ExecSwapNow
      BY <3>3, DecrementedNat
    <3>6. CASE ExecSwapVsync
      BY <3>6
    <3>4. CASE SwapOver \/ SwapSleep \/ SwapWake \/ SwapReset
      BY <3>4
    <3>5. CASE SwapLock
      BY <3>5, DecrementedNat
    <3> QED
      BY <1>3, <3>1, <3>2, <3>3, <3>4, <3>5, <3>6
  <2>3. RingInv'
    BY <1>3, <2>1 DEF IInv, RingInv
  <2>4. DrawInv'
    <3>1. CASE ExecTriangle
      <4>1. cpu # "read"
        BY <3>1 DEF IInv, RingInv
      <4> QED
        BY <2>1, <3>1, <4>1 DEF DrawInv
    <3>2. CASE Sleep \/ Wake \/ FbWait \/ ExecWrite \/ Drained \/ Done
      BY <2>1, <3>2 DEF IInv, DrawInv
    <3>3. CASE ExecSwapNow \/ ExecSwapVsync
      BY <2>1, <3>3 DEF IInv, DrawInv
    <3>4. CASE SwapOver \/ SwapSleep \/ SwapWake \/ SwapReset \/ SwapLock
      <4>1. drawing' = drawing /\ cur # "fb"
        BY <3>4 DEF IInv, DrawInv
      <4> QED
        BY <2>1, <4>1 DEF IInv, DrawInv
    <3> QED
      BY <1>3, <3>1, <3>2, <3>3, <3>4
  <2> QED
    BY <2>2, <2>3, <2>4 DEF IInv
<1> QED
  BY <1>1, <1>2, <1>3

\* Drawing only ends.
LEMMA RenderedStep == IInv /\ Rendered => IInv'
<1> SUFFICES ASSUME IInv, Rendered PROVE IInv'
  OBVIOUS
<1> USE DEF guest, thread, swap, ring, Working, Rendered
<1>1. Entries' = Entries /\ (Empty' <=> Empty)
  BY DEF Entries, Empty
<1>2. TypeOK'
  BY Constants DEF IInv, TypeOK
<1>3. RingInv' /\ DrawInv'
  BY <1>1 DEF IInv, RingInv, DrawInv
<1> QED
  BY <1>2, <1>3 DEF IInv

\* A stuttering step changes nothing.
LEMMA StutterStep == IInv /\ UNCHANGED vars => IInv'
<1> SUFFICES ASSUME IInv, UNCHANGED vars PROVE IInv'
  OBVIOUS
<1> USE DEF vars, guest, thread, swap, ring, Working
<1>1. Entries' = Entries /\ (Empty' <=> Empty)
  BY DEF Entries, Empty
<1> QED
  BY <1>1 DEF IInv, TypeOK, RingInv, DrawInv

-----------------------------------------------------------------------------
\* The inductive invariant of the command FIFO holds always.
THEOREM FifoInvariance == Spec => []IInv
<1>1. Init => IInv
  BY InitInv
<1>2. IInv /\ [Next]_vars => IInv'
  BY CallsStep, GuestStep, ThreadStep, RenderedStep, StutterStep DEF Next
<1> QED
  BY <1>1, <1>2, PTL DEF Spec

\* The state is well typed; swap_count is never negative although two threads
\* decrement it.
THEOREM FifoTypeCorrect == Spec => []TypeOK
<1>1. IInv => TypeOK
  BY DEF IInv
<1> QED
  BY <1>1, FifoInvariance, PTL

\* A read of the card sees every command carried out and every triangle drawn, and
\* pixels are written only when nothing is being drawn.
THEOREM ReadsSeeAll == Spec => []NothingUndrawn
<1>1. IInv => NothingUndrawn
  BY DEF IInv, RingInv, DrawInv, NothingUndrawn
<1> QED
  BY <1>1, FifoInvariance, PTL

\* The ring buffer never holds more than FIFO_FULL entries, so an entry being
\* written is never one that is still to be read.
THEOREM RingNeverOverruns == Spec => [](Entries <= Limit)
<1>1. IInv => Entries <= Limit
  BY DEF IInv, RingInv
<1> QED
  BY <1>1, FifoInvariance, PTL

-----------------------------------------------------------------------------
(* What the ring holds. *)

Swapping == fifo \in {"swap", "swapsleep", "swapwoken", "swaplock"}

\* One of the same entry's values taken for the other.
Same(k, l) == k = l \/ {k, l} \subseteq Swaps

\* An entry between the indexes is a command, but for one that the index passed before
\* it was written; all others are FIFO_INVALID, but for one written before the index
\* passes it.  The thread has the oldest one in hand.
KnownInv ==
  /\ cpu \in {"queue", "nudge", "stored", "indexed", "torn"} => hand \in Kinds
  /\ cpu = "stored" => Entry(wr) = hand
  /\ cpu = "indexed" => ~Empty /\ Entry(Last) = Invalid
  /\ cpu = "torn" => hand \in Swaps /\ (Empty \/ Entry(Last) \in Swaps)
  /\ \A i \in 0..Entries - 1 : Entry(rd + i) \in AllKinds \/ (cpu = "indexed" /\ i = Entries - 1)
  /\ \A i \in Entries..Size - 1 : Entry(rd + i) = Invalid \/ (cpu = "stored" /\ i = Entries)
  /\ Working => cur \in AllKinds /\ Same(cur, Entry(rd))
  /\ Swapping => cur = "swapVsync" /\ drawing = 0
  /\ triple => Swapping

\* A remainder is the only number that is one.
LEMMA Remainder ==
  ASSUME NEW d \in Nat \ {0}, NEW x \in Int, NEW q \in Int, NEW r \in 0..d - 1, x = d * q + r
  PROVE  x % d = r
<1> DEFINE p == x \div d
           m == x % d
<1>1. p \in Int /\ m \in 0..d - 1 /\ x = d * p + m OBVIOUS
<1> HIDE DEF p, m
<1>2. ASSUME p + 1 <= q PROVE FALSE
  <2>1. d * (p + 1) <= d * q BY <1>1, <1>2
  <2>2. d * (p + 1) = d * p + d BY <1>1
  <2>3. d * p \in Int /\ d * q \in Int BY <1>1
  <2>4. QED BY <1>1, <2>1, <2>2, <2>3
<1>3. ASSUME q + 1 <= p PROVE FALSE
  <2>1. d * (q + 1) <= d * p BY <1>1, <1>3
  <2>2. d * (q + 1) = d * q + d OBVIOUS
  <2>3. d * p \in Int /\ d * q \in Int BY <1>1
  <2>4. QED BY <1>1, <2>1, <2>2, <2>3
<1>4. p = q BY <1>1, <1>2, <1>3
<1>5. d * p = d * q /\ d * q \in Int BY <1>1, <1>4
<1>6. m = r BY <1>1, <1>5
<1>7. QED BY <1>6 DEF m

\* One entry less is ahead of the reader's next index.
LEMMA Ahead ==
  ASSUME NEW w \in 0..Modulus - 1, NEW r \in 0..Modulus - 1, w # r
  PROVE  (w - (r + 1)) % Modulus = ((w - r) % Modulus) - 1
<1>1. Modulus \in Nat \ {0} BY Constants
<1>2. (w - r) % Modulus = IF w >= r THEN w - r ELSE w - r + Modulus BY <1>1, Wrap
<1>3. CASE w > r
  <2>1. w - (r + 1) = Modulus * 0 + (w - r - 1) /\ w - r - 1 \in 0..Modulus - 1 BY <1>1, <1>3
  <2>2. (w - (r + 1)) % Modulus = w - r - 1 BY <1>1, <2>1, Remainder
  <2>3. QED BY <1>2, <1>3, <2>2
<1>4. CASE w < r
  <2>1. w - (r + 1) = Modulus * (-1) + (w - r - 1 + Modulus) /\ w - r - 1 + Modulus \in 0..Modulus - 1
    BY <1>1, <1>4
  <2>2. (w - (r + 1)) % Modulus = w - r - 1 + Modulus BY <1>1, <2>1, Remainder
  <2>3. QED BY <1>1, <1>2, <1>4, <2>2
<1>5. w > r \/ w < r BY <1>1
<1>6. QED BY <1>3, <1>4, <1>5, Zenon

\* The ring goes evenly into the range of its indexes.
LEMMA SizeWraps ==
  ASSUME NEW x \in Nat
  PROVE  (x % Size) \in 0..Size - 1 /\ (x + Modulus) % Size = x % Size
<1> DEFINE k == Modulus \div Size
           p == x \div Size
           r == x % Size
<1>1. Size \in Nat \ {0} /\ Modulus \in Nat BY Constants
<1>2. k \in Int /\ Modulus = Size * k
  <2>1. k \in Int /\ Modulus = Size * k + (Modulus % Size) BY <1>1
  <2> HIDE DEF k
  <2>2. Modulus % Size = 0 /\ Size * k \in Int BY <1>1, <2>1, VoodooFifoAssumption
  <2>3. QED BY <2>1, <2>2
<1>3. p \in Int /\ r \in 0..Size - 1 /\ x = Size * p + r BY <1>1
<1> HIDE DEF k, p, r
<1>4. x + Modulus = Size * (p + k) + r
  <2>1. Size * (p + k) = Size * p + Size * k BY <1>1, <1>2, <1>3
  <2>2. Size * p \in Int /\ Size * k \in Int BY <1>1, <1>2, <1>3
  <2>3. QED BY <1>1, <1>2, <1>3, <2>1, <2>2
<1>5. (x + Modulus) % Size = r
  <2>1. x + Modulus \in Int /\ p + k \in Int BY <1>1, <1>2, <1>3
  <2>2. QED BY <1>1, <1>3, <1>4, <2>1, Remainder
<1>6. QED BY <1>3, <1>5 DEF r

\* Once round the ring is the same slot again.
LEMMA SizeOnce ==
  ASSUME NEW x \in Nat
  PROVE  (x + Size) % Size = x % Size
<1> DEFINE q == x \div Size
           r == x % Size
<1>1. Size \in Nat \ {0} BY Constants
<1>2. q \in Int /\ r \in 0..Size - 1 /\ x = Size * q + r BY <1>1
<1> HIDE DEF q, r
<1>3. x + Size = Size * (q + 1) + r
  <2>1. Size * (q + 1) = Size * q + Size /\ Size * q \in Int BY <1>1, <1>2
  <2>2. QED BY <1>1, <1>2, <2>1
<1>4. x + Size \in Int /\ q + 1 \in Int BY <1>1, <1>2
<1>5. (x + Size) % Size = r BY <1>1, <1>2, <1>3, <1>4, Remainder
<1>6. QED BY <1>5 DEF r

\* Entries less than a ring apart have slots of their own.
LEMMA SizeApart ==
  ASSUME NEW x \in Nat, NEW y \in Nat, x < y, y - x < Size
  PROVE  x % Size # y % Size
<1> DEFINE p == x \div Size
           q == y \div Size
           r == x % Size
           s == y % Size
<1>1. Size \in Nat \ {0} BY Constants
<1>2. /\ p \in Int /\ r \in 0..Size - 1 /\ x = Size * p + r
      /\ q \in Int /\ s \in 0..Size - 1 /\ y = Size * q + s
  BY <1>1
<1> HIDE DEF p, q, r, s
<1>3. ASSUME r = s PROVE FALSE
  <2>1. Size * p \in Int /\ Size * q \in Int BY <1>1, <1>2
  <2>2. CASE q <= p
    <3>1. Size * q <= Size * p BY <1>1, <1>2, <2>2
    <3>2. QED BY <1>2, <1>3, <2>1, <3>1
  <2>3. CASE p + 1 <= q
    <3>1. Size * (p + 1) <= Size * q BY <1>1, <1>2, <2>3
    <3>2. Size * (p + 1) = Size * p + Size BY <1>1, <1>2
    <3>3. QED BY <1>1, <1>2, <1>3, <2>1, <3>1, <3>2
  <2>4. QED BY <1>2, <2>2, <2>3
<1>4. QED BY <1>3 DEF r, s

\* The slot that is written next follows those of the entries, and is none of them.
LEMMA WriteSlot ==
  ASSUME TypeOK, Entries < Size
  PROVE  /\ wr % Size = (rd + Entries) % Size
         /\ \A i \in 0..Entries - 1 : (rd + i) % Size # wr % Size
<1>1. /\ Modulus \in Nat /\ Size \in Nat /\ wr \in 0..Modulus - 1 /\ rd \in 0..Modulus - 1
      /\ wr \in Nat /\ rd \in Nat
  BY Constants DEF TypeOK
<1>2. Entries \in Nat /\ Entries = IF wr >= rd THEN wr - rd ELSE wr - rd + Modulus
  BY <1>1, EntriesAre
<1>3. wr % Size = (rd + Entries) % Size
  <2>1. CASE wr >= rd
    <3>1. rd + Entries = wr BY <1>1, <1>2, <2>1
    <3>2. QED BY <3>1
  <2>2. CASE wr < rd
    <3>1. rd + Entries = wr + Modulus BY <1>1, <1>2, <2>2
    <3>2. QED BY <1>1, <3>1, SizeWraps
  <2>3. QED BY <1>1, <2>1, <2>2
<1>4. ASSUME NEW i \in 0..Entries - 1 PROVE (rd + i) % Size # (rd + Entries) % Size
  <2>1. rd + i \in Nat /\ rd + Entries \in Nat /\ rd + i < rd + Entries
        /\ (rd + Entries) - (rd + i) < Size
    BY <1>1, <1>2
  <2>2. QED BY <2>1, SizeApart
<1>5. QED BY <1>3, <1>4

\* The entry the index was last moved on from is the newest one.
LEMMA LastSlot ==
  ASSUME TypeOK
  PROVE  /\ Last \in 0..Modulus - 1 /\ Last % Size \in 0..Size - 1
         /\ ~Empty => Last % Size = (rd + (Entries - 1)) % Size
         /\ Empty => Last % Size = (rd + (Size - 1)) % Size
<1>1. /\ Modulus \in Nat \ {0} /\ Size \in Nat \ {0} /\ Size < Modulus
      /\ wr \in 0..Modulus - 1 /\ rd \in 0..Modulus - 1
  BY Constants DEF TypeOK
<1>2. Last = IF wr = 0 THEN Modulus - 1 ELSE wr - 1
  <2>1. CASE wr = 0
    <3>1. wr - 1 = Modulus * (-1) + (Modulus - 1) /\ Modulus - 1 \in 0..Modulus - 1 BY <1>1, <2>1
    <3>2. (wr - 1) % Modulus = Modulus - 1 BY <1>1, <3>1, Remainder
    <3>3. QED BY <2>1, <3>2 DEF Last
  <2>2. CASE wr # 0
    <3>1. wr - 1 = Modulus * 0 + (wr - 1) /\ wr - 1 \in 0..Modulus - 1 BY <1>1, <2>2
    <3>2. (wr - 1) % Modulus = wr - 1 BY <1>1, <3>1, Remainder
    <3>3. QED BY <2>2, <3>2 DEF Last
  <2>3. QED BY <2>1, <2>2
<1>3. Last \in 0..Modulus - 1 /\ Last \in Nat BY <1>1, <1>2
<1>4. Entries \in Nat /\ Entries = (IF wr >= rd THEN wr - rd ELSE wr - rd + Modulus)
      /\ (Empty <=> Entries = 0)
  BY <1>1, EntriesAre
<1>5. ASSUME ~Empty PROVE Last % Size = (rd + (Entries - 1)) % Size
  <2>1. CASE rd + (Entries - 1) = Last BY <2>1
  <2>2. CASE rd + (Entries - 1) = Last + Modulus BY <1>3, <2>2, SizeWraps
  <2>3. rd + (Entries - 1) = Last \/ rd + (Entries - 1) = Last + Modulus BY <1>1, <1>2, <1>4, <1>5
  <2>4. QED BY <2>1, <2>2, <2>3
<1>6. ASSUME Empty PROVE Last % Size = (rd + (Size - 1)) % Size
  <2>1. wr = rd BY <1>6 DEF Empty
  <2>2. \A x \in Nat : (x + Size) % Size = x % Size BY SizeOnce
  <2>3. CASE wr # 0
    <3>1. rd + (Size - 1) = Last + Size BY <1>1, <1>2, <2>1, <2>3
    <3>2. QED BY <1>3, <2>2, <3>1
  <2>4. CASE wr = 0
    <3>1. rd + (Size - 1) = Size - 1 /\ Size - 1 \in Nat
          /\ Last + Size = (Size - 1) + Modulus
      BY <1>1, <1>2, <2>1, <2>4
    <3>2. ((Size - 1) + Modulus) % Size = (Size - 1) % Size BY <3>1, SizeWraps
    <3>3. (Last + Size) % Size = Last % Size BY <1>3, <2>2
    <3>4. QED BY <3>1, <3>2, <3>3
  <2>5. QED BY <2>3, <2>4
<1>7. Last % Size \in 0..Size - 1 BY <1>3, SizeWraps
<1>8. QED BY <1>3, <1>5, <1>6, <1>7

\* Moving the index on leaves it one behind the new one.
LEMMA LastAdvanced ==
  ASSUME TypeOK, Advance
  PROVE  Last' = wr
<1>1. Modulus \in Nat \ {0} /\ wr \in 0..Modulus - 1 BY Constants DEF TypeOK
<1>2. wr' = IF wr = Modulus - 1 THEN 0 ELSE wr + 1 BY <1>1, Wrap DEF Advance
<1>3. CASE wr = Modulus - 1
  <2>1. wr' - 1 = Modulus * (-1) + wr BY <1>1, <1>2, <1>3
  <2>2. wr' - 1 \in Int BY <1>1, <1>2
  <2>3. QED BY <1>1, <2>1, <2>2, Remainder DEF Last
<1>4. CASE wr # Modulus - 1
  <2>1. wr' - 1 = Modulus * 0 + wr BY <1>1, <1>2, <1>4
  <2>2. wr' - 1 \in Int BY <1>1, <1>2
  <2>3. QED BY <1>1, <2>1, <2>2, Remainder DEF Last
<1>5. QED BY <1>3, <1>4

\* No kind is FIFO_INVALID.
LEMMA KindsKnown == Invalid \notin AllKinds /\ Swaps \subseteq AllKinds
BY DEF Invalid, AllKinds, Commands, Swaps

\* The entry at the read index is one, unless it is on its way.
LEMMA InHand ==
  ASSUME IInv, KnownInv, ~Empty
  PROVE  /\ Entry(rd) \in AllKinds \/ (cpu = "indexed" /\ Entries = 1)
         /\ Working => Entry(rd) \in AllKinds
<1>1. Entries \in Nat /\ Entries > 0 /\ rd \in Int
  BY EntriesAre, Constants DEF IInv, TypeOK
<1>2. Entry(rd + 0) \in AllKinds \/ (cpu = "indexed" /\ 0 = Entries - 1) BY <1>1 DEF KnownInv
<1>3. rd + 0 = rd BY <1>1
<1>4. Working => Entry(rd) \in AllKinds
  BY KindsKnown DEF KnownInv, Same
<1>5. QED BY <1>1, <1>2, <1>3, <1>4

\* At first nothing is in the ring.
LEMMA InitKnown == Init => KnownInv
<1> SUFFICES ASSUME Init PROVE KnownInv
  OBVIOUS
<1>1. Entries = 0 /\ rd = 0 BY InitInv, EntriesAre DEF IInv, Init, Empty
<1>2. 0..Entries - 1 = {} BY <1>1
<1>3. \A i \in 0..Size - 1 : Entry(rd + i) = Invalid
  <2> TAKE i \in 0..Size - 1
  <2>1. rd + i \in Int BY <1>1, Constants
  <2>2. (rd + i) % Size \in 0..Size - 1 BY <2>1, Constants
  <2>3. QED BY <2>2 DEF Init, Entry
<1>4. QED BY <1>1, <1>2, <1>3 DEF Init, KnownInv, Working, Swapping

\* The ring's parts, and what the emulation thread leaves alone.
LEMMA CallsFacts ==
  ASSUME IInv, Calls
  PROVE  /\ UNCHANGED <<rd, fifo, cur, drawing, triple, pending, swaps>>
         /\ TypeOK /\ Limit \in Nat /\ Size \in Nat \ {0} /\ Limit < Size
         /\ Entries \in Nat /\ Entries <= Limit /\ rd \in Nat
         /\ slot \in [0..Size - 1 -> AllKinds \cup {Invalid}]
         /\ wr \in Nat /\ (wr % Size) \in 0..Size - 1 /\ Last % Size \in 0..Size - 1
<1>1. UNCHANGED <<rd, fifo, cur, drawing, triple, pending, swaps>>
  BY DEF Calls, QueueFull, QueueNudge, QueueStore, QueueTear, QueueAdvance, Posted, FlushWait,
         FlushNudge, FlushEmpty, FlushDone, Read, thread, swap
<1>2. TypeOK /\ Entries \in Nat /\ wr \in Nat /\ rd \in Nat /\ Entries <= Limit
  BY Constants, EntriesAre DEF IInv, RingInv, TypeOK
<1>3. QED BY <1>1, <1>2, Constants, SizeWraps, LastSlot DEF TypeOK

\* An entry is stored before the index passes it ...
LEMMA StoreKnown == IInv /\ KnownInv /\ QueueStore /\ cpu' = "stored" => KnownInv'
<1> SUFFICES ASSUME IInv, KnownInv, QueueStore, cpu' = "stored" PROVE KnownInv'
  OBVIOUS
<1> USE DEF Working, Swapping
<1>1. /\ UNCHANGED <<rd, fifo, cur, drawing, triple>>
      /\ TypeOK /\ Limit \in Nat /\ Size \in Nat \ {0} /\ Limit < Size
      /\ Entries \in Nat /\ rd \in Nat /\ (wr % Size) \in 0..Size - 1
      /\ slot \in [0..Size - 1 -> AllKinds \cup {Invalid}]
  BY CallsFacts DEF Calls
<1>2. /\ cpu = "queue" /\ wr' = wr /\ hand' = hand /\ hand \in Kinds
      /\ slot' = [slot EXCEPT ![wr % Size] = hand] /\ ~(Entries >= Limit)
  BY DEF QueueStore, KnownInv, Full
<1>3. Entries' = Entries /\ Entries < Limit /\ Entries < Size BY <1>1, <1>2 DEF Entries
<1>4. \A i \in 0..Entries - 1 : slot'[(rd + i) % Size] = Entry(rd + i)
  <2> TAKE i \in 0..Entries - 1
  <2>1. (rd + i) % Size # wr % Size BY <1>1, <1>3, WriteSlot
  <2>2. rd + i \in Nat BY <1>1
  <2>3. (rd + i) % Size \in 0..Size - 1 BY <2>2, SizeWraps
  <2>4. QED BY <1>1, <1>2, <2>1, <2>3 DEF Entry
<1>5. \A i \in Entries..Size - 1 : i # Entries => slot'[(rd + i) % Size] = Entry(rd + i)
  <2> SUFFICES ASSUME NEW i \in Entries..Size - 1, i # Entries
               PROVE  slot'[(rd + i) % Size] = Entry(rd + i)
    OBVIOUS
  <2>1. /\ rd + Entries \in Nat /\ rd + i \in Nat /\ rd + Entries < rd + i
        /\ (rd + i) - (rd + Entries) < Size
    BY <1>1
  <2>2. (rd + Entries) % Size # (rd + i) % Size BY <2>1, SizeApart
  <2>3. wr % Size = (rd + Entries) % Size BY <1>1, <1>3, WriteSlot
  <2>4. (rd + i) % Size \in 0..Size - 1 BY <2>1, SizeWraps
  <2>5. QED BY <1>1, <1>2, <2>2, <2>3, <2>4 DEF Entry
<1>6. Entry(wr)' = hand BY <1>1, <1>2 DEF Entry
<1>7. Working' => cur' \in AllKinds /\ Same(cur', Entry(rd)')
  <2>1. CASE Working
    <3>1. Entries > 0 BY <1>1, <2>1, EntriesAre DEF IInv, RingInv
    <3>2. rd + 0 = rd /\ 0 \in 0..Entries - 1 BY <1>1, <3>1
    <3>3. Entry(rd)' = Entry(rd) BY <1>1, <1>4, <3>2 DEF Entry
    <3>4. QED BY <1>1, <2>1, <3>3 DEF KnownInv, Same
  <2>2. QED BY <1>1, <2>1
<1>8. \A i \in 0..Entries' - 1 : Entry(rd + i)' \in AllKinds
  <2>1. \A i \in 0..Entries - 1 : Entry(rd + i) \in AllKinds BY <1>2 DEF KnownInv
  <2>2. QED BY <1>1, <1>3, <1>4, <2>1 DEF Entry
<1>9. \A i \in Entries'..Size - 1 : Entry(rd + i)' = Invalid \/ i = Entries'
  <2>1. \A i \in Entries..Size - 1 : Entry(rd + i) = Invalid BY <1>2 DEF KnownInv
  <2>2. QED BY <1>1, <1>3, <1>5, <2>1 DEF Entry
<1>10. QED BY <1>1, <1>2, <1>6, <1>7, <1>8, <1>9 DEF KnownInv

\* ... or the index first.
LEMMA IndexKnown == IInv /\ KnownInv /\ QueueStore /\ cpu' = "indexed" => KnownInv'
<1> SUFFICES ASSUME IInv, KnownInv, QueueStore, cpu' = "indexed" PROVE KnownInv'
  OBVIOUS
<1> USE DEF Working, Swapping
<1>1. /\ UNCHANGED <<rd, fifo, cur, drawing, triple>>
      /\ TypeOK /\ Limit \in Nat /\ Size \in Nat \ {0} /\ Limit < Size
      /\ Entries \in Nat /\ rd \in Nat
  BY CallsFacts DEF Calls
<1>2. /\ cpu = "queue" /\ Advance /\ hand' = hand /\ hand \in Kinds
      /\ slot' = slot /\ ~(Entries >= Limit)
  BY DEF QueueStore, KnownInv, Full
<1>3. Entries' = Entries + 1 /\ ~Empty' /\ Entries < Size BY <1>1, <1>2, AdvanceAddsOne
<1>4. Last' = wr /\ wr % Size = (rd + Entries) % Size BY <1>1, <1>2, <1>3, LastAdvanced, WriteSlot
<1>5. Entry(rd + Entries) = Invalid BY <1>1, <1>2, <1>3 DEF KnownInv
<1>6. Entry(Last)' = Invalid BY <1>2, <1>4, <1>5 DEF Entry
<1>7. \A i \in 0..Entries' - 1 : Entry(rd + i)' \in AllKinds \/ i = Entries' - 1
  <2>1. \A i \in 0..Entries' - 1 : i \in 0..Entries - 1 \/ i = Entries' - 1 BY <1>1, <1>3
  <2>2. QED BY <1>1, <1>2, <2>1 DEF KnownInv, Entry
<1>8. \A i \in Entries'..Size - 1 : Entry(rd + i)' = Invalid
  <2>1. \A i \in Entries'..Size - 1 : i \in Entries..Size - 1 BY <1>1, <1>3
  <2>2. QED BY <1>1, <1>2, <2>1 DEF KnownInv, Entry
<1>9. Working' => cur' \in AllKinds /\ Same(cur', Entry(rd)')
  BY <1>1, <1>2 DEF KnownInv, Same, Entry
<1>10. QED BY <1>1, <1>2, <1>3, <1>6, <1>7, <1>8, <1>9 DEF KnownInv

\* A store into the entry the index has passed touches no other one.
LEMMA LastAlone ==
  ASSUME TypeOK, Entries < Size, Entries > 0, UNCHANGED rd,
         NEW k, slot' = [slot EXCEPT ![Last % Size] = k]
  PROVE  /\ slot'[(rd + (Entries - 1)) % Size] = k /\ (Last % Size) \in 0..Size - 1
         /\ \A i \in 0..Size - 1 : i # Entries - 1 => slot'[(rd + i) % Size] = Entry(rd + i)
<1>1. /\ Size \in Nat \ {0} /\ Entries \in Nat /\ rd \in Nat /\ ~Empty
      /\ slot \in [0..Size - 1 -> AllKinds \cup {Invalid}]
  BY Constants, EntriesAre DEF TypeOK
<1>2. Last % Size = (rd + (Entries - 1)) % Size /\ (Last % Size) \in 0..Size - 1
  BY <1>1, LastSlot
<1>3. ASSUME NEW i \in 0..Size - 1, i # Entries - 1
      PROVE  (rd + i) % Size # Last % Size
  <2>1. rd + i \in Nat /\ rd + (Entries - 1) \in Nat BY <1>1
  <2>2. CASE i < Entries - 1
    <3>1. rd + i < rd + (Entries - 1) /\ (rd + (Entries - 1)) - (rd + i) < Size BY <1>1, <2>2
    <3>2. QED BY <1>2, <2>1, <3>1, SizeApart
  <2>3. CASE i > Entries - 1
    <3>1. rd + (Entries - 1) < rd + i /\ (rd + i) - (rd + (Entries - 1)) < Size BY <1>1, <2>3
    <3>2. QED BY <1>2, <2>1, <3>1, SizeApart
  <2>4. QED BY <1>1, <1>3, <2>2, <2>3
<1>4. slot'[(rd + (Entries - 1)) % Size] = k BY <1>1, <1>2
<1>5. ASSUME NEW i \in 0..Size - 1, i # Entries - 1
      PROVE  slot'[(rd + i) % Size] = Entry(rd + i)
  <2>1. rd + i \in Nat BY <1>1
  <2>2. (rd + i) % Size \in 0..Size - 1 BY <2>1, SizeWraps
  <2>3. (rd + i) % Size # Last % Size BY <1>3, <1>5
  <2>4. QED BY <1>1, <2>2, <2>3 DEF Entry
<1>6. QED BY <1>2, <1>4, <1>5

\* The entry the index has passed comes, in part or whole.
LEMMA LateKnown ==
  ASSUME IInv, KnownInv, Entries > 0, UNCHANGED <<wr, rd, fifo, cur, drawing, triple>>,
         NEW k \in AllKinds, slot' = [slot EXCEPT ![Last % Size] = k],
         cpu \in {"indexed", "torn"}, cpu = "torn" => k \in Swaps
  PROVE  /\ Entries' = Entries /\ (Empty' <=> Empty) /\ Entry(Last)' = k
         /\ \A i \in 0..Entries - 1 : Entry(rd + i)' \in AllKinds
         /\ \A i \in Entries..Size - 1 : Entry(rd + i)' = Invalid
         /\ Working' => cur' \in AllKinds /\ Same(cur', Entry(rd)')
<1> USE DEF Working
<1>1. /\ TypeOK /\ Entries \in Nat /\ Size \in Nat \ {0} /\ Entries < Size /\ rd \in Nat
      /\ ~Empty
  BY Constants, EntriesAre DEF IInv, RingInv, TypeOK
<1>2. Entries' = Entries /\ (Empty' <=> Empty) /\ Last' = Last BY DEF Entries, Empty, Last
<1>3. /\ slot'[(rd + (Entries - 1)) % Size] = k
      /\ \A i \in 0..Size - 1 : i # Entries - 1 => slot'[(rd + i) % Size] = Entry(rd + i)
      /\ Last % Size = (rd + (Entries - 1)) % Size
  BY <1>1, LastAlone, LastSlot
<1>4. Entry(Last)' = k BY <1>2, <1>3 DEF Entry
<1>5. \A i \in 0..Entries - 1 : Entry(rd + i)' \in AllKinds
  <2> TAKE i \in 0..Entries - 1
  <2>1. CASE i = Entries - 1 BY <1>3, <2>1 DEF Entry
  <2>2. CASE i # Entries - 1
    <3>1. i \in 0..Size - 1 BY <1>1
    <3>2. Entry(rd + i)' = Entry(rd + i) BY <1>3, <2>2, <3>1 DEF Entry
    <3>3. Entry(rd + i) \in AllKinds BY <2>2 DEF KnownInv
    <3>4. QED BY <3>2, <3>3
  <2>3. QED BY <2>1, <2>2
<1>6. \A i \in Entries..Size - 1 : Entry(rd + i)' = Invalid
  <2> TAKE i \in Entries..Size - 1
  <2>1. i \in 0..Size - 1 /\ i # Entries - 1 BY <1>1
  <2>2. Entry(rd + i)' = Entry(rd + i) BY <1>3, <2>1 DEF Entry
  <2>3. Entry(rd + i) = Invalid BY DEF KnownInv
  <2>4. QED BY <2>2, <2>3
<1>7. ASSUME Working PROVE Same(cur, Entry(rd)')
  <2>1. rd + 0 = rd /\ 0 \in 0..Size - 1 BY <1>1
  <2>2. CASE Entries = 1
    <3>1. Entry(Last) = Entry(rd)
      <4>1. rd + (Entries - 1) = rd BY <1>1, <2>2
      <4>2. QED BY <1>3, <4>1 DEF Entry
    <3>2. cpu = "torn" BY <1>7, <3>1, KindsKnown, InHand, <1>1 DEF KnownInv
    <3>3. cur \in Swaps BY <1>1, <1>7, <3>1, <3>2 DEF KnownInv, Same
    <3>4. Entry(rd)' = k
      <4>1. rd + (Entries - 1) = rd BY <1>1, <2>2
      <4>2. QED BY <1>3, <4>1 DEF Entry
    <3>5. QED BY <3>2, <3>3, <3>4 DEF Same
  <2>3. CASE Entries # 1
    <3>1. 0 # Entries - 1 BY <1>1, <2>3
    <3>2. slot'[(rd + 0) % Size] = Entry(rd + 0) BY <1>3, <2>1, <3>1
    <3>3. Entry(rd)' = Entry(rd) BY <2>1, <3>2 DEF Entry
    <3>4. QED BY <1>7, <3>3 DEF KnownInv, Same
  <2>4. QED BY <2>2, <2>3
<1>8. Working' => cur' \in AllKinds /\ Same(cur', Entry(rd)')
  <2>1. Same(cur, Entry(rd)') <=> Same(cur', Entry(rd)') BY DEF Same
  <2>2. QED BY <1>7, <2>1 DEF KnownInv
<1>9. QED BY <1>2, <1>4, <1>5, <1>6, <1>8

\* The last store of an entry, and the call ends.
LEMMA AdvanceKnown == IInv /\ KnownInv /\ QueueAdvance => KnownInv'
<1> SUFFICES ASSUME IInv, KnownInv, QueueAdvance PROVE KnownInv'
  OBVIOUS
<1> USE DEF Working, Swapping
<1>1. /\ UNCHANGED <<rd, fifo, cur, drawing, triple>>
      /\ TypeOK /\ Limit \in Nat /\ Size \in Nat \ {0} /\ Limit < Size
      /\ Entries \in Nat /\ Entries <= Limit /\ rd \in Nat
  BY CallsFacts DEF Calls
<1>2. /\ cpu \in {"stored", "indexed", "torn"} /\ cpu' \in {"posted", "run"}
      /\ hand \in Kinds /\ hand \in AllKinds
  BY Constants DEF QueueAdvance, KnownInv
<1>4. CASE cpu = "stored"
  <2>1. slot' = slot /\ Advance BY <1>4 DEF QueueAdvance
  <2>2. Entries < Limit /\ Entries < Size BY <1>1, <1>4 DEF IInv, RingInv
  <2>3. Entries' = Entries + 1 BY <1>1, <2>1, <2>2, AdvanceAddsOne
  <2>4. Entry(rd + Entries) = hand
    <3>1. wr % Size = (rd + Entries) % Size BY <1>1, <2>2, WriteSlot
    <3>2. QED BY <1>4, <3>1 DEF KnownInv, Entry
  <2>5. \A i \in 0..Entries' - 1 : Entry(rd + i)' \in AllKinds
    <3>1. \A i \in 0..Entries' - 1 : i \in 0..Entries - 1 \/ i = Entries BY <1>1, <2>3
    <3>2. QED BY <1>1, <1>2, <1>4, <2>1, <2>4, <3>1 DEF KnownInv, Entry
  <2>6. \A i \in Entries'..Size - 1 : Entry(rd + i)' = Invalid
    <3>1. \A i \in Entries'..Size - 1 : i \in Entries..Size - 1 /\ i # Entries BY <1>1, <2>3
    <3>2. QED BY <1>1, <2>1, <3>1 DEF KnownInv, Entry
  <2>7. Working' => cur' \in AllKinds /\ Same(cur', Entry(rd)')
    BY <1>1, <2>1 DEF KnownInv, Same, Entry
  <2>8. QED BY <1>1, <1>2, <2>5, <2>6, <2>7 DEF KnownInv
<1>5. CASE cpu # "stored" /\ ~Empty
  <2>1. Entry(Last) = Invalid <=> cpu = "indexed"
    BY <1>2, <1>5, KindsKnown DEF KnownInv
  <2>2. /\ cpu \in {"indexed", "torn"} /\ slot' = [slot EXCEPT ![Last % Size] = hand]
        /\ wr' = wr
    BY <1>2, <1>5, <2>1 DEF QueueAdvance, StoreLast
  <2>3. Entries > 0 BY <1>1, <1>5, EntriesAre
  <2>4. cpu = "torn" => hand \in Swaps BY DEF KnownInv
  <2>5. /\ Entries' = Entries
        /\ \A i \in 0..Entries - 1 : Entry(rd + i)' \in AllKinds
        /\ \A i \in Entries..Size - 1 : Entry(rd + i)' = Invalid
        /\ Working' => cur' \in AllKinds /\ Same(cur', Entry(rd)')
    BY <1>1, <1>2, <2>2, <2>3, <2>4, LateKnown
  <2>6. QED BY <1>1, <1>2, <2>5 DEF KnownInv
<1>6. CASE cpu # "stored" /\ Empty
  <2>1. cpu = "torn" /\ Entries = 0 BY <1>1, <1>2, <1>6, EntriesAre DEF KnownInv
  <2>2. Entry(Last) = Invalid
    <3>1. Last % Size = (rd + (Size - 1)) % Size BY <1>1, <1>6, LastSlot
    <3>2. Entry(rd + (Size - 1)) = Invalid
      <4>1. Size - 1 \in Entries..Size - 1 BY <1>1, <2>1
      <4>2. QED BY <2>1, <4>1 DEF KnownInv
    <3>3. QED BY <3>1, <3>2 DEF Entry
  <2>3. slot' = slot /\ wr' = wr BY <2>1, <2>2 DEF QueueAdvance
  <2>4. Entries' = Entries BY <1>1, <2>3 DEF Entries
  <2>5. /\ \A i \in 0..Entries' - 1 : Entry(rd + i)' \in AllKinds
        /\ \A i \in Entries'..Size - 1 : Entry(rd + i)' = Invalid
        /\ Working' => cur' \in AllKinds /\ Same(cur', Entry(rd)')
    BY <1>1, <2>1, <2>3, <2>4 DEF KnownInv, Same, Entry
  <2>6. QED BY <1>1, <1>2, <2>5 DEF KnownInv
<1>7. QED BY <1>4, <1>5, <1>6

\* The type comes before the value.
LEMMA TearKnown == IInv /\ KnownInv /\ QueueTear => KnownInv'
<1> SUFFICES ASSUME IInv, KnownInv, QueueTear PROVE KnownInv'
  OBVIOUS
<1> USE DEF Working, Swapping
<1>1. /\ UNCHANGED <<rd, fifo, cur, drawing, triple>>
      /\ TypeOK /\ Entries \in Nat /\ rd \in Nat
  BY CallsFacts DEF Calls
<1>2. PICK k \in Swaps \ {hand} : StoreLast(k) BY DEF QueueTear
<1>3. /\ cpu = "indexed" /\ cpu' = "torn" /\ UNCHANGED <<wr, hand>> /\ hand \in Swaps
      /\ slot' = [slot EXCEPT ![Last % Size] = k] /\ k \in AllKinds /\ hand \in Kinds
  BY <1>2, KindsKnown DEF QueueTear, StoreLast, KnownInv
<1>4. Entries > 0 BY <1>1, <1>3, EntriesAre DEF KnownInv
<1>5. /\ Entries' = Entries /\ Entry(Last)' = k
      /\ \A i \in 0..Entries - 1 : Entry(rd + i)' \in AllKinds
      /\ \A i \in Entries..Size - 1 : Entry(rd + i)' = Invalid
      /\ Working' => cur' \in AllKinds /\ Same(cur', Entry(rd)')
  BY <1>1, <1>3, <1>4, LateKnown
<1>6. QED BY <1>1, <1>2, <1>3, <1>5 DEF KnownInv

\* The emulation thread's steps.
LEMMA CallsKnown == IInv /\ KnownInv /\ Calls => KnownInv'
<1> SUFFICES ASSUME IInv, KnownInv, Calls PROVE KnownInv'
  OBVIOUS
<1>1. CASE QueueStore
  <2>1. cpu' = "stored" \/ cpu' = "indexed" BY <1>1 DEF QueueStore
  <2>2. QED BY <1>1, <2>1, StoreKnown, IndexKnown
<1>2. CASE QueueTear BY <1>2, TearKnown
<1>3. CASE QueueAdvance BY <1>3, AdvanceKnown
<1>4. CASE QueueFull \/ QueueNudge \/ Posted \/ FlushWait \/ FlushNudge
           \/ FlushEmpty \/ FlushDone \/ Read
  <2> USE DEF guest, thread, swap, ring, Working, Swapping
  <2>1. UNCHANGED <<slot, wr, hand, rd, fifo, cur, drawing, triple>> /\ Entries' = Entries
        /\ Last' = Last
    BY <1>4 DEF QueueFull, QueueNudge, Posted, FlushWait, FlushNudge, FlushEmpty,
                FlushDone, Read, Entries, Last
  <2>2. /\ cpu \notin {"stored", "indexed", "torn"} /\ cpu' \notin {"stored", "indexed", "torn"}
        /\ cpu' \in {"queue", "nudge"} => cpu \in {"queue", "nudge"}
    BY <1>4 DEF QueueFull, QueueNudge, Posted, FlushWait, FlushNudge, FlushEmpty,
                FlushDone, Read
  <2>3. QED BY <2>1, <2>2 DEF KnownInv, Entry, Same
<1>5. QED BY <1>1, <1>2, <1>3, <1>4 DEF Calls

\* The guest's steps outside of voodoo_queue_command store nothing.
LEMMA GuestKnown == KnownInv /\ Guest => KnownInv'
<1> SUFFICES ASSUME KnownInv, Guest PROVE KnownInv'
  OBVIOUS
<1> USE DEF guest, thread, swap, ring, Working, Swapping
<1>1. UNCHANGED <<slot, wr, rd, fifo, cur, drawing, triple>> /\ Entries' = Entries
  BY DEF Guest, Write, ReadStatus, FlushBegin, WakeTimer, Vsync, VideoReset, Entries
<1>2. /\ cpu \notin {"stored", "indexed", "torn"} /\ cpu' \notin {"stored", "indexed", "torn"}
      /\ cpu' \in {"queue", "nudge"} => hand' \in Kinds
  BY DEF Guest, Write, ReadStatus, FlushBegin, WakeTimer, Vsync, VideoReset, KnownInv
<1>3. QED BY <1>1, <1>2 DEF KnownInv, Entry, Same

\* The entry let go of is the only one that becomes FIFO_INVALID: those behind it are
\* found where they were.
LEMMA RetireKeeps ==
  ASSUME IInv, Retire
  PROVE  /\ Entries > 0 /\ Entries' = Entries - 1
         /\ \A i \in Nat : (rd' + i) % Size = (rd + 1 + i) % Size
         /\ \A i \in 1..Size - 1 : slot'[(rd + i) % Size] = Entry(rd + i)
<1> USE DEF Working
<1>1. /\ TypeOK /\ ~Empty /\ Entries \in Nat /\ Entries > 0 /\ Entries < Size /\ Size \in Nat \ {0}
      /\ Modulus \in Nat /\ rd \in Nat /\ rd \in 0..Modulus - 1
  BY EntriesAre, Constants DEF Retire, IInv, RingInv, TypeOK
<1>2. Entries' = Entries - 1
  BY <1>1, RetireTakesOne DEF Retire
<1>3. slot' = [slot EXCEPT ![rd % Size] = Invalid] /\ slot \in [0..Size - 1 -> AllKinds \cup {Invalid}]
  BY <1>1 DEF Retire, TypeOK
<1>4. \A i \in Nat : (rd' + i) % Size = (rd + 1 + i) % Size
  <2>1. rd' = IF rd = Modulus - 1 THEN 0 ELSE rd + 1 BY <1>1, Wrap DEF Retire
  <2>2. TAKE i \in Nat
  <2>3. CASE rd = Modulus - 1
    <3>1. rd' + i = i /\ rd + 1 + i = i + Modulus BY <1>1, <2>1, <2>2, <2>3
    <3>2. QED BY <2>2, <3>1, SizeWraps
  <2>4. CASE rd # Modulus - 1 BY <1>1, <2>1, <2>4
  <2>5. QED BY <2>3, <2>4
<1>5. \A i \in 1..Size - 1 : slot'[(rd + i) % Size] = Entry(rd + i)
  <2> TAKE i \in 1..Size - 1
  <2>1. rd + i \in Nat /\ rd < rd + i /\ (rd + i) - rd < Size BY <1>1
  <2>2. rd % Size # (rd + i) % Size BY <1>1, <2>1, SizeApart
  <2>3. (rd + i) % Size \in 0..Size - 1 BY <2>1, SizeWraps
  <2>4. QED BY <1>3, <2>2, <2>3 DEF Entry
<1>6. QED BY <1>1, <1>2, <1>4, <1>5

\* The next entry is taken up where it is.
LEMMA RetireKnown == IInv /\ KnownInv /\ Retire => KnownInv'
<1> SUFFICES ASSUME IInv, KnownInv, Retire PROVE KnownInv'
  OBVIOUS
<1> USE DEF guest, thread, swap, ring, Working, Swapping
<1>1. /\ TypeOK /\ ~Empty /\ Entries \in Nat /\ Entries > 0 /\ Entries < Size /\ Size \in Nat \ {0}
      /\ Modulus \in Nat /\ rd \in Nat /\ rd \in 0..Modulus - 1 /\ Entries <= Limit
      /\ slot \in [0..Size - 1 -> AllKinds \cup {Invalid}]
  BY EntriesAre, Constants DEF Retire, IInv, RingInv, TypeOK
<1>2. /\ Entries' = Entries - 1 /\ UNCHANGED <<wr, cpu, hand, drawing, triple>>
      /\ Last' = Last /\ ~triple
  BY <1>1, RetireTakesOne DEF Retire, Last, KnownInv
<1>3. slot' = [slot EXCEPT ![rd % Size] = Invalid] /\ (rd % Size) \in 0..Size - 1
  BY <1>1, SizeWraps DEF Retire
<1>4. /\ \A i \in Nat : (rd' + i) % Size = (rd + 1 + i) % Size
      /\ \A i \in 1..Size - 1 : slot'[(rd + i) % Size] = Entry(rd + i)
  BY RetireKeeps
<1>5. \A i \in Nat : i + 1 < Size => slot'[(rd' + i) % Size] = Entry(rd + (i + 1))
  <2> SUFFICES ASSUME NEW i \in Nat, i + 1 < Size PROVE slot'[(rd' + i) % Size] = Entry(rd + (i + 1))
    OBVIOUS
  <2>1. i + 1 \in 1..Size - 1 /\ rd + 1 + i = rd + (i + 1) BY <1>1
  <2>2. (rd' + i) % Size = (rd + (i + 1)) % Size BY <1>4, <2>1
  <2>3. slot'[(rd + (i + 1)) % Size] = Entry(rd + (i + 1)) BY <1>4, <2>1
  <2>4. QED BY <2>2, <2>3 DEF Entry
<1>6. \A i \in 0..Entries' - 1 : Entry(rd + i)' \in AllKinds \/ (cpu' = "indexed" /\ i = Entries' - 1)
  <2> TAKE i \in 0..Entries' - 1
  <2>1. i \in Nat /\ i + 1 < Size /\ i + 1 \in 0..Entries - 1
        /\ (i + 1 = Entries - 1 => i = Entries' - 1)
    BY <1>1, <1>2
  <2>2. slot'[(rd' + i) % Size] = Entry(rd + (i + 1)) BY <1>5, <2>1
  <2>3. Entry(rd + (i + 1)) \in AllKinds \/ (cpu = "indexed" /\ i + 1 = Entries - 1)
    BY <2>1 DEF KnownInv
  <2>4. QED BY <1>2, <2>1, <2>2, <2>3 DEF Entry
<1>7. \A i \in Entries'..Size - 1 : Entry(rd + i)' = Invalid \/ (cpu' = "stored" /\ i = Entries')
  <2> TAKE i \in Entries'..Size - 1
  <2>1. CASE i = Size - 1
    <3>1. rd + 1 + i = rd + Size /\ i \in Nat BY <1>1, <2>1
    <3>2. (rd' + i) % Size = (rd + Size) % Size BY <1>4, <3>1
    <3>3. (rd + Size) % Size = rd % Size BY <1>1, SizeOnce
    <3>4. slot'[rd % Size] = Invalid BY <1>1, <1>3
    <3>5. QED BY <3>2, <3>3, <3>4 DEF Entry
  <2>2. CASE i # Size - 1
    <3>1. i \in Nat /\ i + 1 < Size /\ i + 1 \in Entries..Size - 1
          /\ (i + 1 = Entries => i = Entries')
      BY <1>1, <1>2, <2>2
    <3>2. slot'[(rd' + i) % Size] = Entry(rd + (i + 1)) BY <1>5, <3>1
    <3>3. Entry(rd + (i + 1)) = Invalid \/ (cpu = "stored" /\ i + 1 = Entries)
      BY <3>1 DEF KnownInv
    <3>4. QED BY <1>2, <3>1, <3>2, <3>3 DEF Entry
  <2>3. QED BY <2>1, <2>2
<1>8. Working' => cur' \in AllKinds /\ Same(cur', Entry(rd)')
  <2>1. CASE Working'
    <3>1. wr # rd' /\ cur' = Entry(rd') /\ Alike(cur, cur') BY <2>1 DEF Retire
    <3>2. Entries # 1
      <4>1. rd' \in 0..Modulus - 1 /\ wr \in 0..Modulus - 1 /\ Modulus \in Nat \ {0}
        BY <1>1, Constants, RetireTakesOne DEF Retire, TypeOK
      <4>2. Entries' = (wr - rd') % Modulus BY <1>2 DEF Entries
      <4>3. (wr - rd') % Modulus # 0
        <5>1. PICK n \in 0..Modulus - 1 : n = rd' BY <4>1
        <5>2. ((wr - n) % Modulus = 0) <=> wr = n BY <4>1, Wrap
        <5>3. QED BY <3>1, <5>1, <5>2
      <4>4. QED BY <1>1, <1>2, <4>2, <4>3
    <3>3. rd' \in Nat BY <1>1, RetireTakesOne, Constants DEF Retire
    <3>4. rd' % Size = (rd + 1) % Size
      <4>1. (rd' + 0) % Size = (rd + 1 + 0) % Size BY <1>4
      <4>2. rd' + 0 = rd'
        <5>1. PICK n \in Nat : n = rd' BY <3>3
        <5>2. n + 0 = n OBVIOUS
        <5>3. QED BY <5>1, <5>2
      <4>3. rd + 1 + 0 = rd + 1 BY <1>1
      <4>4. QED BY <4>1, <4>2, <4>3
    <3>5. 1 \in 1..Size - 1 BY <1>1, <3>2
    <3>6. slot'[rd' % Size] = Entry(rd + 1) /\ Entry(rd') = Entry(rd + 1)
      BY <1>4, <3>4, <3>5 DEF Entry
    <3>7. cur' \in AllKinds
      <4>1. cur \in AllKinds BY DEF Retire, KnownInv
      <4>2. QED BY <3>1, <4>1 DEF Alike, AllKinds
    <3>8. QED BY <3>1, <3>6, <3>7 DEF Entry, Same
  <2>2. QED BY <2>1
<1>9. cpu = "stored" => Entry(wr)' = hand'
  <2>1. rd % Size # wr % Size
    <3>1. 0 \in 0..Entries - 1 /\ rd + 0 = rd BY <1>1
    <3>2. QED BY <1>1, <3>1, WriteSlot
  <2>2. wr \in Nat BY <1>1 DEF TypeOK
  <2>3. (wr % Size) \in 0..Size - 1 BY <2>2, SizeWraps
  <2>4. QED BY <1>1, <1>2, <1>3, <2>1, <2>3 DEF Entry, KnownInv
<1>10. cpu \in {"indexed", "torn"} /\ Entries # 1 => ~Empty' /\ Entry(Last)' = Entry(Last)
  <2> SUFFICES ASSUME cpu \in {"indexed", "torn"}, Entries # 1
               PROVE  ~Empty' /\ Entry(Last)' = Entry(Last)
    OBVIOUS
  <2>1. rd' \in 0..Modulus - 1 /\ wr' \in 0..Modulus - 1
    BY <1>1, RetireTakesOne, Constants DEF Retire, TypeOK
  <2>2. ~Empty'
    <3>0. Entries' # 0 BY <1>1, <1>2
    <3>1. (wr' - rd') % Modulus # 0 BY <3>0 DEF Entries
    <3>2. PICK n \in 0..Modulus - 1, m \in 0..Modulus - 1 : n = rd' /\ m = wr' BY <2>1
    <3>3. ((m - n) % Modulus = 0) <=> m = n BY Constants, Wrap
    <3>4. QED BY <3>1, <3>2, <3>3 DEF Empty
  <2>3. Last % Size # rd % Size
    <3>1. Last % Size = (rd + (Entries - 1)) % Size BY <1>1, LastSlot
    <3>2. rd \in Nat /\ rd + (Entries - 1) \in Nat /\ rd < rd + (Entries - 1)
          /\ (rd + (Entries - 1)) - rd < Size
      BY <1>1
    <3>3. QED BY <3>1, <3>2, SizeApart
  <2>4. Last % Size \in 0..Size - 1 BY <1>1, LastSlot
  <2>5. QED BY <1>1, <1>2, <1>3, <2>2, <2>3, <2>4 DEF Entry
<1>11. cpu = "indexed" => Entries # 1
  <2> SUFFICES ASSUME cpu = "indexed", Entries = 1 PROVE FALSE
    OBVIOUS
  <2>1. Last % Size = (rd + (Entries - 1)) % Size BY <1>1, LastSlot
  <2>2. rd + (Entries - 1) = rd BY <1>1
  <2>3. Entry(rd) = Invalid BY <2>1, <2>2 DEF Entry, KnownInv
  <2>4. Entry(rd) \in AllKinds BY <1>1, InHand DEF Retire
  <2>5. QED BY <2>3, <2>4, KindsKnown
<1>12. cpu = "torn" => Empty' \/ Entry(Last)' \in Swaps
  <2>1. CASE cpu = "torn" /\ Entries = 1
    <3>1. rd' \in 0..Modulus - 1 /\ wr' \in 0..Modulus - 1 /\ Modulus \in Nat \ {0}
      BY <1>1, RetireTakesOne, Constants DEF Retire, TypeOK
    <3>2. (wr' - rd') % Modulus = 0 BY <1>1, <1>2, <2>1 DEF Entries
    <3>3. Empty'
      <4>1. PICK n \in 0..Modulus - 1, m \in 0..Modulus - 1 : n = rd' /\ m = wr' BY <3>1
      <4>2. ((m - n) % Modulus = 0) <=> m = n BY <3>1, Wrap
      <4>3. QED BY <3>2, <4>1, <4>2 DEF Empty
    <3>4. QED BY <3>3
  <2>2. CASE cpu = "torn" /\ Entries # 1 BY <1>1, <1>10, <2>2 DEF KnownInv
  <2>3. QED BY <2>1, <2>2
<1>13. fifo' \in {"exec", "drain"} BY DEF Retire
<1>14. cpu = "indexed" => ~Empty' /\ Entry(Last)' = Invalid BY <1>10, <1>11 DEF KnownInv
<1>15. QED BY <1>2, <1>6, <1>7, <1>8, <1>9, <1>12, <1>13, <1>14 DEF KnownInv

\* The FIFO thread's steps.
LEMMA ThreadKnown == IInv /\ KnownInv /\ FifoThread => KnownInv'
<1> SUFFICES ASSUME IInv, KnownInv, FifoThread PROVE KnownInv'
  OBVIOUS
<1> USE DEF guest, thread, swap, ring, Working, Swapping
<1>1. CASE Retire BY <1>1, RetireKnown
<1>2. CASE Fetch
  <2>1. Entry(rd) \in AllKinds \/ (cpu = "indexed" /\ Entries = 1) BY <1>2, InHand DEF Fetch
  <2>2. /\ UNCHANGED <<slot, wr, rd, cpu, hand, drawing, triple>> /\ Entries' = Entries
        /\ Last' = Last /\ (Empty' <=> Empty) /\ cur' = Entry(rd)
        /\ fifo' = IF cur' = Invalid THEN "fatal" ELSE IF cur' = "fb" THEN "fbwait" ELSE "exec"
        /\ fifo = "drain" /\ ~triple
    BY <1>2 DEF Fetch, Entries, Last, Empty, KnownInv
  <2>3. Entry(rd) \in AllKinds \cup {Invalid} BY EntryTyped, Constants DEF IInv, TypeOK
  <2>5. Working' => cur' \in AllKinds /\ Same(cur', Entry(rd)') BY <2>2, <2>3 DEF Same, Entry
  <2>6. QED BY <2>2, <2>5 DEF KnownInv, Entry
<1>3. CASE FifoThread /\ ~Retire /\ ~Fetch
  <2> USE DEF Sleep, Wake, FbWait, ExecWrite, ExecTriangle, ExecSwapNow, ExecSwapVsync,
              SwapOver, SwapSleep, SwapWake, SwapReset, SwapLock, Drained, Done,
              FifoThread, Swapped
  <2>1. UNCHANGED <<slot, wr, rd, cpu, hand, cur>> /\ Entries' = Entries /\ Last' = Last
        /\ (Empty' <=> Empty)
    BY <1>3 DEF Entries, Last, Empty
  <2>2. Working' => Working BY <1>3
  <2>3. Swapping' => cur' = "swapVsync" /\ drawing' = 0 BY <1>3 DEF KnownInv
  <2>4. triple' => Swapping' BY <1>3 DEF KnownInv
  <2>5. QED BY <2>1, <2>2, <2>3, <2>4 DEF KnownInv, Entry, Same
<1>4. QED BY <1>1, <1>2, <1>3

\* A triangle is drawn, or nothing happens.
LEMMA RenderedKnown == IInv /\ KnownInv /\ (Rendered \/ UNCHANGED vars) => KnownInv'
<1> SUFFICES ASSUME IInv, KnownInv, Rendered \/ UNCHANGED vars PROVE KnownInv'
  OBVIOUS
<1> USE DEF vars, guest, thread, swap, ring, Working, Swapping
<1>1. UNCHANGED <<slot, wr, rd, cpu, hand, cur, fifo, triple>> /\ Entries' = Entries
      /\ Last' = Last /\ (Empty' <=> Empty) /\ (Swapping => drawing' = drawing)
  BY DEF Rendered, Entries, Last, Empty, KnownInv
<1>2. QED BY <1>1 DEF KnownInv, Entry, Same

\* The stronger invariant.
LEMMA KnownStep == IInv /\ KnownInv /\ [Next]_vars => KnownInv'
BY CallsKnown, GuestKnown, ThreadKnown, RenderedKnown DEF Next

\* fatal("Unknown fifo entry") can only come of one entry: the newest, when it is also the
\* oldest and the index passed it before it was written.
OnlyUnwritten == [][fifo # "fatal" /\ fifo' = "fatal" => cpu = "indexed" /\ Entries = 1]_vars

\* The FIFO thread meets FIFO_INVALID only in the entry that is on its way, after the index:
\* a host that keeps the stores in order never comes to fatal().
THEOREM UnknownIsUnwritten == Spec => OnlyUnwritten
<1>1. Init => KnownInv BY InitKnown
<1>2. IInv /\ KnownInv /\ [Next]_vars => KnownInv' BY KnownStep
<1>3. IInv /\ KnownInv /\ [Next]_vars =>
        [fifo # "fatal" /\ fifo' = "fatal" => cpu = "indexed" /\ Entries = 1]_vars
  <2> SUFFICES ASSUME IInv, KnownInv, Next, fifo # "fatal", fifo' = "fatal"
               PROVE  cpu = "indexed" /\ Entries = 1
    OBVIOUS
  <2>1. Fetch
    BY DEF Next, Calls, QueueFull, QueueNudge, QueueStore, QueueTear, QueueAdvance, Posted, FlushWait,
       FlushNudge, FlushEmpty, FlushDone, Read, Guest, Write, ReadStatus, FlushBegin, WakeTimer,
       Vsync, VideoReset, FifoThread, Sleep, Wake, FbWait, ExecWrite, ExecTriangle, ExecSwapNow,
       ExecSwapVsync, SwapOver, SwapSleep, SwapWake, SwapReset, SwapLock, Swapped, Retire, Drained,
       Done, Rendered, thread
  <2>2. ~Empty /\ Entry(rd) = Invalid BY <2>1 DEF Fetch
  <2>3. QED BY <2>2, InHand, KindsKnown
<1> QED BY <1>1, <1>2, <1>3, FifoInvariance, PTL DEF Spec, OnlyUnwritten

-----------------------------------------------------------------------------
(* The commands in order: VoodooFifo implements CommandStream. *)

\* n entries of a ring s from index f on.
Segment(s, f, n) == [i \in 1..n |-> s[(f + i - 1) % Size]]

\* A segment is a sequence.
LEMMA SegmentSeq ==
  ASSUME NEW S, NEW s \in [0..Size - 1 -> S], NEW f \in Nat, NEW n \in Nat
  PROVE  Segment(s, f, n) \in Seq(S) /\ Len(Segment(s, f, n)) = n
<1>1. \A i \in 1..n : s[(f + i - 1) % Size] \in S
  <2> TAKE i \in 1..n
  <2>1. f + i - 1 \in Nat OBVIOUS
  <2>2. (f + i - 1) % Size \in 0..Size - 1 BY <2>1, SizeWraps
  <2>3. QED BY <2>2
<1>2. QED BY <1>1 DEF Segment

\* Without its first entry ...
LEMMA SegmentTail ==
  ASSUME NEW S, NEW s \in [0..Size - 1 -> S], NEW f \in Nat, NEW n \in Nat \ {0}
  PROVE  /\ Segment(s, f, n) # << >> /\ Head(Segment(s, f, n)) = s[f % Size]
         /\ Tail(Segment(s, f, n)) = Segment(s, f + 1, n - 1)
<1> DEFINE q == Segment(s, f, n)
           r == Segment(s, f + 1, n - 1)
<1>1. q \in Seq(S) /\ Len(q) = n BY SegmentSeq
<1>2. r \in Seq(S) /\ Len(r) = n - 1
  <2>1. f + 1 \in Nat /\ n - 1 \in Nat OBVIOUS
  <2>2. QED BY SMTT(30), <2>1, SegmentSeq
<1>3. q # << >> BY <1>1
<1>4. q[1] = s[f % Size]
  <2>1. 1 \in 1..n /\ f + 1 - 1 = f OBVIOUS
  <2>2. QED BY <2>1 DEF Segment
<1>5. \A i \in 1..n - 1 : r[i] = q[i + 1]
  <2> TAKE i \in 1..n - 1
  <2>1. i + 1 \in 1..n /\ f + 1 + i - 1 = f + (i + 1) - 1 OBVIOUS
  <2>2. QED BY <2>1 DEF Segment
<1> HIDE DEF q, r
<1>6. /\ Tail(q) \in Seq(S) /\ Len(Tail(q)) = n - 1
      /\ \A i \in 1..n - 1 : Tail(q)[i] = q[i + 1]
  BY <1>1, <1>3, HeadTailProperties
<1>7. Tail(q) = r
  <2>1. Len(Tail(q)) = Len(r) /\ \A i \in 1..Len(Tail(q)) : Tail(q)[i] = r[i] BY <1>2, <1>5, <1>6
  <2>2. QED BY <1>2, <1>6, <2>1, SeqEqual
<1>8. Head(q) = q[1] BY <1>1, <1>3
<1>9. QED BY <1>3, <1>4, <1>7, <1>8 DEF q, r

\* ... and with one more.
LEMMA SegmentAppend ==
  ASSUME NEW S, NEW s \in [0..Size - 1 -> S], NEW f \in Nat, NEW n \in Nat, NEW k \in S,
         s[(f + n) % Size] = k
  PROVE  Segment(s, f, n + 1) = Append(Segment(s, f, n), k)
<1> DEFINE q == Segment(s, f, n)
           r == Segment(s, f, n + 1)
<1>1. q \in Seq(S) /\ Len(q) = n BY SegmentSeq
<1>2. r \in Seq(S) /\ Len(r) = n + 1 BY SegmentSeq
<1>3. \A i \in 1..n : r[i] = q[i] BY DEF Segment
<1>4. r[n + 1] = k
  <2>1. n + 1 \in 1..n + 1 /\ f + (n + 1) - 1 = f + n OBVIOUS
  <2>2. QED BY <2>1 DEF Segment
<1> HIDE DEF q, r
<1>5. /\ Append(q, k) \in Seq(S) /\ Len(Append(q, k)) = n + 1
      /\ \A i \in 1..n : Append(q, k)[i] = q[i]
      /\ Append(q, k)[n + 1] = k
  BY <1>1, AppendProperties
<1>6. \A i \in 1..n + 1 : r[i] = Append(q, k)[i]
  <2>1. \A i \in 1..n + 1 : i \in 1..n \/ i = n + 1 OBVIOUS
  <2>2. QED BY <1>3, <1>4, <1>5, <2>1
<1>7. QED BY <1>2, <1>5, <1>6, SeqEqual DEF q, r

\* An entry that the index has passed is on its way.
Coming == cpu \in {"indexed", "torn"}

\* The ring as it is meant is a ring.
LEMMA WrittenIs ==
  ASSUME TypeOK
  PROVE  /\ Written \in [0..Size - 1 -> AllKinds \cup {Invalid}]
         /\ ~Coming => Written = slot
         /\ Coming => Written = [slot EXCEPT ![Last % Size] = hand]
         /\ \A n \in 0..Size - 1 : Written[n] = IF Coming /\ n = Last % Size THEN hand ELSE slot[n]
<1>1. /\ slot \in [0..Size - 1 -> AllKinds \cup {Invalid}] /\ hand \in AllKinds \cup {Invalid}
      /\ (Last % Size) \in 0..Size - 1
  BY Constants, LastSlot DEF TypeOK
<1>2. /\ ~Coming => Written = slot
      /\ Coming => Written = [slot EXCEPT ![Last % Size] = hand]
  BY DEF Written, Coming
<1>3. QED BY <1>1, <1>2

\* And after a step.
LEMMA WrittenNext ==
  TypeOK' => /\ (Written \in [0..Size - 1 -> AllKinds \cup {Invalid}])'
             /\ (~Coming => Written = slot)'
             /\ (Coming => Written = [slot EXCEPT ![Last % Size] = hand])'
             /\ (\A n \in 0..Size - 1 : Written[n] = IF Coming /\ n = Last % Size THEN hand ELSE slot[n])'
<1>1. TypeOK => /\ Written \in [0..Size - 1 -> AllKinds \cup {Invalid}]
                /\ ~Coming => Written = slot
                /\ Coming => Written = [slot EXCEPT ![Last % Size] = hand]
                /\ \A n \in 0..Size - 1 : Written[n] = IF Coming /\ n = Last % Size THEN hand ELSE slot[n]
  BY WrittenIs
<1>2. QED BY <1>1, PTL

\* What is left to do are the entries between the indexes, but for the one just done.
LEMMA TodoIs ==
  ASSUME TypeOK, fifo = "retire" => ~Empty
  PROVE  /\ fifo # "retire" => Todo = Segment(Written, rd, Entries)
         /\ fifo = "retire" => Todo = Segment(Written, rd + 1, Entries - 1)
<1>1. wr \in 0..Modulus - 1 /\ rd \in 0..Modulus - 1 BY DEF TypeOK
<1>2. fifo = "retire" => (wr - (rd + 1)) % Modulus = Entries - 1 BY <1>1, Ahead DEF Entries, Empty
<1>3. QED BY <1>2 DEF Todo, Segment, Entries

\* What is left to do, after the step.
LEMMA TodoNext ==
  ASSUME TypeOK', fifo' = "retire" => ~Empty'
  PROVE  /\ fifo' # "retire" => Todo' = Segment(Written', rd', Entries')
         /\ fifo' = "retire" => Todo' = Segment(Written', rd' + 1, Entries' - 1)
<1>1. wr' \in 0..Modulus - 1 /\ rd' \in 0..Modulus - 1 BY DEF TypeOK
<1>2. fifo' = "retire" => (wr' - (rd' + 1)) % Modulus = Entries' - 1 BY <1>1, Ahead DEF Entries, Empty
<1>3. QED BY <1>2 DEF Todo, Segment, Entries

\* A step that leaves the ring alone, and neither completes an entry nor lets go of one.
LEMMA TodoSame ==
  ASSUME UNCHANGED <<wr, rd>>, Written' = Written, (fifo = "retire")' <=> fifo = "retire"
  PROVE  Todo' = Todo
BY DEF Todo

\* The ring is as before if the entries are, and the call to voodoo_queue_command.
LEMMA WrittenSame ==
  ASSUME UNCHANGED <<slot, wr>>, UNCHANGED <<cpu, hand>> \/ (~Coming /\ ~Coming')
  PROVE  Written' = Written
BY DEF Written, Coming, Last

\* Storing an entry adds nothing yet ...
LEMMA StoreMaps ==
  ASSUME IInv, IInv', QueueStore, cpu' = "stored"
  PROVE  Todo' = Todo
<1> USE DEF guest, thread, swap
<1>1. /\ TypeOK /\ TypeOK' /\ (fifo = "retire" => ~Empty)
      /\ (fifo' = "retire" => ~Empty')
  BY DEF IInv, RingInv, Working
<1>2. /\ wr' = wr /\ rd' = rd /\ fifo' = fifo /\ Entries' = Entries
      /\ slot' = [slot EXCEPT ![wr % Size] = hand] /\ Entries < Limit
      /\ Written = slot /\ Written' = slot'
  <2>1. /\ wr' = wr /\ rd' = rd /\ fifo' = fifo
        /\ slot' = [slot EXCEPT ![wr % Size] = hand] /\ ~(Entries >= Limit)
    BY DEF QueueStore, Full
  <2>2. Entries \in Nat BY <1>1, EntriesAre, Constants
  <2>3. Written = slot /\ Written' = slot' BY DEF QueueStore, Written
  <2>4. QED BY <2>1, <2>2, <2>3, Constants DEF Entries
<1>3. Size \in Nat /\ Limit \in Nat /\ Limit < Size /\ Entries \in Nat /\ rd \in Nat
      /\ (fifo = "retire" => Entries > 0)
  BY <1>1, EntriesAre, Constants DEF TypeOK
<1>4. \A i \in 0..Entries - 1 : slot'[(rd + i) % Size] = slot[(rd + i) % Size]
  <2>1. Entries < Size BY <1>2, <1>3
  <2>2. QED BY <1>1, <1>2, <2>1, WriteSlot
<1>5. Segment(slot', rd, Entries) = Segment(slot, rd, Entries)
  <2>1. \A i \in 1..Entries : slot'[(rd + i - 1) % Size] = slot[(rd + i - 1) % Size]
    <3> TAKE i \in 1..Entries
    <3>1. i - 1 \in 0..Entries - 1 /\ rd + (i - 1) = rd + i - 1 BY <1>3
    <3>2. QED BY <1>4, <3>1
  <2>2. QED BY <2>1 DEF Segment
<1>6. fifo = "retire" => Segment(slot', rd + 1, Entries - 1) = Segment(slot, rd + 1, Entries - 1)
  <2>1. \A i \in 1..Entries - 1 : slot'[(rd + 1 + i - 1) % Size] = slot[(rd + 1 + i - 1) % Size]
    <3> TAKE i \in 1..Entries - 1
    <3>1. i \in 0..Entries - 1 /\ rd + i = rd + 1 + i - 1 BY <1>3
    <3>2. QED BY <1>4, <3>1
  <2>2. QED BY <2>1 DEF Segment
<1>7. QED BY <1>1, <1>2, <1>5, <1>6, TodoIs, TodoNext

\* ... until the index moves on, before the entry is written or after.
LEMMA AdvanceMaps ==
  ASSUME IInv, IInv', KnownInv,
         (QueueStore /\ cpu' = "indexed") \/ (QueueAdvance /\ cpu = "stored")
  PROVE  hand \in Kinds /\ cpu \in {"queue", "stored"} /\ cpu' # "read" /\ Todo' = Append(Todo, hand)
<1> USE DEF guest, thread, swap
<1>1. /\ TypeOK /\ TypeOK' /\ (fifo = "retire" => ~Empty)
      /\ (fifo' = "retire" => ~Empty')
  BY DEF IInv, RingInv, Working
<1>2. /\ cpu \in {"queue", "stored"} /\ cpu' # "read" /\ hand \in Kinds /\ slot' = slot
      /\ rd' = rd /\ fifo' = fifo /\ Advance /\ Written = slot
  BY DEF QueueStore, QueueAdvance, KnownInv, Written
<1>3. /\ Size \in Nat /\ Limit \in Nat /\ Limit < Size /\ Entries \in Nat /\ rd \in Nat
      /\ (fifo = "retire" => Entries > 0) /\ Kinds \subseteq AllKinds
      /\ slot \in [0..Size - 1 -> AllKinds \cup {Invalid}]
      /\ wr \in Nat /\ (wr % Size) \in 0..Size - 1
  <2>1. /\ Size \in Nat /\ Limit \in Nat /\ Limit < Size /\ Entries \in Nat /\ rd \in Nat
        /\ (fifo = "retire" => Entries > 0) /\ Kinds \subseteq AllKinds /\ wr \in Nat
    BY <1>1, EntriesAre, Constants DEF TypeOK
  <2>2. QED BY <1>1, <2>1, SizeWraps DEF TypeOK
<1>4. Entries < Limit
  <2>1. CASE cpu = "stored" BY <2>1 DEF IInv, RingInv
  <2>2. CASE QueueStore BY <1>3, <2>2 DEF QueueStore, Full
  <2>3. QED BY <2>1, <2>2
<1>5. Entries' = Entries + 1 /\ Last' = wr BY <1>1, <1>2, <1>4, AdvanceAddsOne, LastAdvanced
<1>6. Entries < Size BY <1>3, <1>4
<1>7. wr % Size = (rd + Entries) % Size /\ \A i \in 0..Entries - 1 : (rd + i) % Size # wr % Size
  BY <1>1, <1>6, WriteSlot
<1> DEFINE S == AllKinds \cup {Invalid}
           W == Written'
<1>8. /\ W \in [0..Size - 1 -> S] /\ hand \in S /\ W[(rd + Entries) % Size] = hand
      /\ \A i \in 0..Entries - 1 : W[(rd + i) % Size] = Written[(rd + i) % Size]
  <2>1. CASE QueueStore /\ cpu' = "indexed"
    <3>1. W = [slot EXCEPT ![wr % Size] = hand] BY <1>2, <1>5, <2>1 DEF Written, QueueStore
    <3>2. hand \in S BY <1>2, <1>3
    <3>3. W \in [0..Size - 1 -> S] /\ W[wr % Size] = hand BY <1>3, <3>1, <3>2
    <3>4. ASSUME NEW i \in 0..Entries - 1 PROVE W[(rd + i) % Size] = Written[(rd + i) % Size]
      <4>1. (rd + i) % Size # wr % Size BY <1>7
      <4>2. rd + i \in Nat BY <1>3
      <4>3. (rd + i) % Size \in 0..Size - 1 BY <4>2, SizeWraps
      <4>4. QED BY <1>2, <1>3, <3>1, <4>1, <4>3
    <3>5. QED BY <1>7, <3>2, <3>3, <3>4
  <2>2. CASE QueueAdvance /\ cpu = "stored"
    <3>1. W = slot BY <1>2, <2>2 DEF Written, QueueAdvance
    <3>2. slot[wr % Size] = hand BY <2>2 DEF KnownInv, Entry
    <3>3. QED BY <1>2, <1>3, <1>7, <3>1, <3>2
  <2>3. QED BY <2>1, <2>2
<1> HIDE DEF S, W
<1>9. CASE fifo # "retire"
  <2>1. rd \in Nat /\ Entries \in Nat BY <1>3
  <2>2. Segment(W, rd, Entries + 1) = Append(Segment(W, rd, Entries), hand)
    BY ZenonT(60), <1>8, <2>1, SegmentAppend
  <2>3. Segment(W, rd, Entries) = Segment(Written, rd, Entries)
    <3>1. \A i \in 1..Entries : W[(rd + i - 1) % Size] = Written[(rd + i - 1) % Size]
      <4> TAKE i \in 1..Entries
      <4>1. i - 1 \in 0..Entries - 1 /\ rd + (i - 1) = rd + i - 1 BY <1>3
      <4>2. QED BY <1>8, <4>1
    <3>2. QED BY <3>1 DEF Segment
  <2>4. Todo = Segment(Written, rd, Entries) /\ Todo' = Segment(W, rd, Entries + 1)
    BY <1>1, <1>2, <1>5, <1>9, TodoIs, TodoNext DEF W
  <2>5. QED BY <1>2, <2>2, <2>3, <2>4
<1>10. CASE fifo = "retire"
  <2>1. rd + 1 \in Nat /\ Entries - 1 \in Nat /\ rd + 1 + (Entries - 1) = rd + Entries
        /\ Entries - 1 + 1 = Entries /\ Entries + 1 - 1 = Entries
    BY <1>3, <1>10
  <2>2. W[(rd + 1 + (Entries - 1)) % Size] = hand BY <1>8, <2>1
  <2>3. Segment(W, rd + 1, Entries - 1 + 1) = Append(Segment(W, rd + 1, Entries - 1), hand)
    BY ZenonT(60), <1>8, <2>1, <2>2, SegmentAppend
  <2>4. Todo = Segment(Written, rd + 1, Entries - 1) /\ Todo' = Segment(W, rd + 1, Entries)
    BY <1>1, <1>2, <1>5, <1>10, <2>1, TodoIs, TodoNext DEF W
  <2>5. Segment(W, rd + 1, Entries - 1) = Segment(Written, rd + 1, Entries - 1)
    <3>1. \A i \in 1..Entries - 1 : W[(rd + 1 + i - 1) % Size] = Written[(rd + 1 + i - 1) % Size]
      <4> TAKE i \in 1..Entries - 1
      <4>1. i \in 0..Entries - 1 /\ rd + i = rd + 1 + i - 1 BY <1>3
      <4>2. QED BY <1>8, <4>1
    <3>2. QED BY <3>1 DEF Segment
  <2>6. QED BY <1>2, <2>1, <2>3, <2>4, <2>5
<1>11. QED BY <1>2, <1>9, <1>10

\* The entry that the index has passed comes: it was counted before.
LEMMA ComeMaps ==
  ASSUME IInv, IInv', KnownInv, QueueTear \/ (QueueAdvance /\ cpu # "stored")
  PROVE  Todo' = Todo
<1> USE DEF guest, thread, swap
<1>1. /\ TypeOK /\ TypeOK' /\ UNCHANGED <<wr, rd, fifo>> /\ Coming
      /\ (fifo = "retire" => ~Empty)
  BY DEF QueueTear, QueueAdvance, Coming, IInv, RingInv, Working
<1>2. /\ slot \in [0..Size - 1 -> AllKinds \cup {Invalid}] /\ (Last % Size) \in 0..Size - 1
      /\ Last' = Last /\ Written = [slot EXCEPT ![Last % Size] = hand]
  BY <1>1, LastSlot, WrittenIs DEF TypeOK, Last
<1>3. CASE QueueTear
  <2>1. PICK k \in Swaps \ {hand} : slot' = [slot EXCEPT ![Last % Size] = k]
    BY <1>3 DEF QueueTear, StoreLast
  <2>2. Written' = [slot' EXCEPT ![Last % Size] = hand] BY <1>2, <1>3 DEF QueueTear, Written
  <2>3. Written' = Written BY <1>2, <2>1, <2>2
  <2>4. QED BY <1>1, <2>3, TodoSame
<1>4. CASE QueueAdvance /\ ~Empty
  <2>1. Entry(Last) = Invalid <=> cpu = "indexed" BY <1>1, <1>4, KindsKnown DEF KnownInv, Coming
  <2>2. slot' = Written BY <1>1, <1>2, <1>4, <2>1 DEF QueueAdvance, StoreLast, Coming
  <2>3. Written' = slot' BY <1>4 DEF QueueAdvance, Written
  <2>4. QED BY <1>1, <2>2, <2>3, TodoSame
<1>5. CASE Empty
  <2>1. (wr - rd) % Modulus = 0 /\ fifo # "retire" BY <1>1, <1>5, EntriesAre DEF Entries
  <2>2. Todo = << >> /\ Todo' = << >>
    <3>1. 1..(wr - rd) % Modulus = {} BY <2>1
    <3>2. QED BY <1>1, <2>1, <3>1 DEF Todo
  <2>3. QED BY <2>2
<1>6. QED BY <1>3, <1>4, <1>5

\* What it has in hand is the oldest entry, or as good as.
LEMMA HeadSame ==
  ASSUME IInv, KnownInv, Working
  PROVE  Same(cur, Written[rd % Size])
<1>1. /\ TypeOK /\ ~Empty /\ rd \in Nat BY Constants DEF IInv, RingInv, TypeOK
<1>2. (rd % Size) \in 0..Size - 1 BY <1>1, SizeWraps
<1>3. Written[rd % Size] = IF Coming /\ rd % Size = Last % Size THEN hand ELSE Entry(rd)
  BY <1>1, <1>2, WrittenIs DEF Entry
<1>4. Same(cur, Entry(rd)) /\ Entry(rd) \in AllKinds BY <1>1, InHand DEF KnownInv
<1>5. CASE Coming /\ rd % Size = Last % Size
  <2>1. Entry(Last) = Entry(rd) BY <1>5 DEF Entry
  <2>2. cpu = "torn" BY <1>4, <1>5, <2>1, KindsKnown DEF KnownInv, Coming
  <2>3. hand \in Swaps /\ Entry(rd) \in Swaps BY <1>1, <2>1, <2>2 DEF KnownInv
  <2>4. cur \in Swaps BY <1>4, <2>3 DEF Same
  <2>5. QED BY <1>3, <1>5, <2>3, <2>4 DEF Same
<1>6. QED BY <1>3, <1>4, <1>5

\* The thread has an entry in hand, and completes it.
LEMMA ExecMaps ==
  ASSUME IInv, IInv', KnownInv, UNCHANGED <<slot, wr, rd, cpu, hand>>,
         Working, fifo # "retire", fifo' = "retire"
  PROVE  Todo # << >> /\ Same(cur, Head(Todo)) /\ Todo' = Tail(Todo)
<1>1. /\ TypeOK /\ TypeOK' /\ ~Empty /\ ~Empty' /\ Entries' = Entries /\ Written' = Written
  BY WrittenSame DEF IInv, RingInv, Working, Entries, Empty
<1>2. /\ Entries \in Nat \ {0} /\ rd \in Nat
      /\ Written \in [0..Size - 1 -> AllKinds \cup {Invalid}]
  BY <1>1, EntriesAre, Constants, WrittenIs DEF TypeOK
<1>3. Todo = Segment(Written, rd, Entries) /\ Todo' = Segment(Written, rd + 1, Entries - 1)
  BY <1>1, TodoIs, TodoNext
<1>4. Same(cur, Written[rd % Size]) BY <1>1, HeadSame
<1>5. QED BY <1>2, <1>3, <1>4, SegmentTail

\* It then lets go of it.
LEMMA RetireMaps ==
  ASSUME IInv, IInv', Retire
  PROVE  Todo' = Todo
<1>1. /\ TypeOK /\ TypeOK' /\ ~Empty /\ fifo = "retire" /\ fifo' # "retire"
      /\ rd \in Nat /\ rd' \in Nat /\ Size \in Nat \ {0} /\ Entries < Size
  BY Constants, EntriesAre DEF IInv, RingInv, Working, Retire, TypeOK
<1>2. /\ Entries > 0 /\ Entries' = Entries - 1 /\ Entries \in Nat
      /\ \A i \in Nat : (rd' + i) % Size = (rd + 1 + i) % Size
      /\ \A i \in 1..Size - 1 : slot'[(rd + i) % Size] = Entry(rd + i)
  BY <1>1, RetireKeeps, EntriesAre, Constants
<1>3. Todo = Segment(Written, rd + 1, Entries - 1) /\ Todo' = Segment(Written', rd', Entries - 1)
  BY <1>1, <1>2, TodoIs, TodoNext
<1>4. \A i \in 1..Entries - 1 : Written'[(rd + i) % Size] = Written[(rd + i) % Size]
  <2> TAKE i \in 1..Entries - 1
  <2>1. i \in 1..Size - 1 /\ rd + i \in Nat BY <1>1, <1>2
  <2>2. (rd + i) % Size \in 0..Size - 1 BY <2>1, SizeWraps
  <2>3. /\ Last' = Last /\ hand' = hand /\ (Coming' <=> Coming)
    BY DEF Retire, Last, Coming, guest
  <2>4. \A n \in 0..Size - 1 :
          /\ Written[n] = IF Coming /\ n = Last % Size THEN hand ELSE slot[n]
          /\ Written'[n] = IF Coming' /\ n = Last' % Size THEN hand' ELSE slot'[n]
    BY <1>1, WrittenIs, WrittenNext
  <2>5. slot'[(rd + i) % Size] = slot[(rd + i) % Size] BY <1>2, <2>1 DEF Entry
  <2>6. QED BY <2>2, <2>3, <2>4, <2>5
<1>5. \A i \in 1..Entries - 1 :
        Written'[(rd' + i - 1) % Size] = Written[(rd + 1 + i - 1) % Size]
  <2> TAKE i \in 1..Entries - 1
  <2>1. i - 1 \in Nat /\ rd' + (i - 1) = rd' + i - 1 /\ rd + 1 + (i - 1) = rd + i
        /\ rd + 1 + i - 1 = rd + i
    BY <1>1, <1>2
  <2>2. (rd' + i - 1) % Size = (rd + i) % Size BY <1>2, <2>1
  <2>3. QED BY <1>4, <2>1, <2>2
<1>6. QED BY <1>3, <1>5 DEF Segment

\* Every step is one of CommandStream, or none.
LEMMA StepMaps ==
  ASSUME IInv, IInv', KnownInv, [Next]_vars
  PROVE  [Stream!Next]_<<Todo, drawing, IF cpu = "read" THEN "reads" ELSE "writes">>
<1> DEFINE serves == IF cpu = "read" THEN "reads" ELSE "writes"
<1>1. (fifo = "retire" => ~Empty) /\ drawing \in 0..MaxDrawing /\ MaxDrawing \in Nat
  BY Constants DEF IInv, RingInv, Working, TypeOK
<1> USE DEF ring, guest, thread, swap
<1>2. CASE (QueueStore /\ cpu' = "stored") \/ QueueTear \/ (QueueAdvance /\ cpu # "stored")
  <2>1. Todo' = Todo BY <1>2, StoreMaps, ComeMaps
  <2>2. UNCHANGED <<drawing, serves>> BY <1>2 DEF QueueStore, QueueTear, QueueAdvance
  <2>3. QED BY <2>1, <2>2
<1>3. CASE (QueueStore /\ cpu' # "stored") \/ (QueueAdvance /\ cpu = "stored")
  <2>1. hand \in Kinds /\ cpu \in {"queue", "stored"} /\ cpu' # "read" /\ Todo' = Append(Todo, hand)
    <3>1. QueueStore /\ cpu' # "stored" => cpu' = "indexed" BY DEF QueueStore
    <3>2. QED BY <1>3, <3>1, AdvanceMaps
  <2>2. drawing' = drawing BY <1>3 DEF QueueStore, QueueAdvance
  <2>3. Stream!Submit(hand) BY <2>1, <2>2 DEF Stream!Submit
  <2>4. QED BY <2>1, <2>3 DEF Stream!Next
<1>4. CASE QueueFull \/ QueueNudge \/ Posted \/ FlushWait \/ FlushNudge \/ FlushEmpty
  <2>1. UNCHANGED <<slot, wr, rd, fifo, drawing, serves>>
    BY <1>4 DEF QueueFull, QueueNudge, Posted, FlushWait, FlushNudge, FlushEmpty
  <2>9. ~Coming /\ ~Coming'
    BY <1>4 DEF QueueFull, QueueNudge, Posted, FlushWait, FlushNudge, FlushEmpty, Coming
  <2>2. Todo' = Todo BY <2>1, <2>9, TodoSame, WrittenSame
  <2>3. QED BY <2>1, <2>2
<1>5. CASE FlushDone
  <2>1. /\ UNCHANGED <<slot, wr, rd, fifo, drawing>> /\ drawing = 0
        /\ cpu = "idle" /\ cpu' = "read"
    BY <1>5 DEF FlushDone
  <2>2. Todo' = Todo BY <2>1, TodoSame, WrittenSame DEF Coming
  <2>3. Todo = << >>
    <3>1. TypeOK /\ Empty /\ fifo # "retire" BY <2>1 DEF IInv, RingInv, Working
    <3>2. Entries = 0 BY <3>1, EntriesAre
    <3>3. Todo = Segment(Written, rd, 0) BY <3>1, <3>2, TodoIs
    <3>4. QED BY <3>3 DEF Segment
  <2>4. Stream!Read BY <2>1, <2>2, <2>3 DEF Stream!Read
  <2>5. QED BY <2>4 DEF Stream!Next
<1>6. CASE Read
  <2>1. /\ UNCHANGED <<slot, wr, rd, fifo, drawing>> /\ cpu = "read" /\ cpu' = "run"
    BY <1>6 DEF Read
  <2>2. Todo' = Todo BY <2>1, TodoSame, WrittenSame DEF Coming
  <2>3. Stream!ReadDone BY <2>1, <2>2 DEF Stream!ReadDone
  <2>4. QED BY <2>3 DEF Stream!Next
<1>7. CASE Guest
  <2>1. UNCHANGED <<slot, wr, rd, fifo, drawing>> /\ cpu # "read" /\ cpu' # "read"
        /\ ~Coming /\ ~Coming'
    BY <1>7 DEF Guest, Write, ReadStatus, FlushBegin, WakeTimer, Vsync, VideoReset, Coming
  <2>2. Todo' = Todo BY <2>1, TodoSame, WrittenSame
  <2>3. QED BY <2>1, <2>2
<1>8. CASE Retire
  <2>1. Todo' = Todo BY <1>8, RetireMaps
  <2>2. UNCHANGED <<drawing, serves>> BY <1>8 DEF Retire
  <2>3. QED BY <2>1, <2>2
<1>9. CASE FifoThread /\ ~Retire /\ fifo' # "retire"
  <2> USE DEF Sleep, Wake, Fetch, FbWait, ExecWrite, ExecTriangle, ExecSwapNow,
              ExecSwapVsync, SwapOver, SwapSleep, SwapWake, SwapReset, SwapLock, Drained,
              Done, FifoThread, Swapped
  <2>1. UNCHANGED <<slot, wr, rd, cpu, hand, drawing>> /\ fifo # "retire" BY <1>9
  <2>2. Todo' = Todo BY <1>9, <2>1, TodoSame, WrittenSame
  <2>3. QED BY <2>1, <2>2
<1>10. CASE FifoThread /\ ~Retire /\ fifo' = "retire"
  <2>1. UNCHANGED <<slot, wr, rd, cpu, hand>> /\ Working /\ fifo # "retire"
    BY <1>10 DEF FifoThread, Sleep, Wake, Fetch, FbWait, ExecWrite, ExecTriangle,
         ExecSwapNow, ExecSwapVsync, SwapOver, SwapSleep, SwapWake, SwapReset, SwapLock,
         Drained, Done, Working
  <2>2. Todo # << >> /\ Same(cur, Head(Todo)) /\ Todo' = Tail(Todo) BY <1>10, <2>1, ExecMaps
  <2>3. /\ drawing' = IF cur = "tri" THEN drawing + 1 ELSE drawing
        /\ cur \in Swaps \cup {"fb", "fill"} => drawing = 0
        /\ drawing' <= MaxDrawing
    <3>1. CASE ExecWrite
      BY <1>1, <3>1 DEF ExecWrite, Swaps, IInv, DrawInv
    <3>2. CASE ExecTriangle BY <1>1, <3>2 DEF ExecTriangle, Swaps
    <3>3. CASE ExecSwapNow \/ ExecSwapVsync BY <1>1, <3>3 DEF ExecSwapNow, ExecSwapVsync
    <3>4. CASE SwapOver \/ SwapLock
      <4>1. Swapping /\ drawing' = drawing BY <3>4 DEF SwapOver, SwapLock, Swapping
      <4>2. QED BY <1>1, <4>1 DEF KnownInv
    <3>5. QED
      BY <1>10, <3>1, <3>2, <3>3, <3>4
      DEF FifoThread, Sleep, Wake, Fetch, FbWait, SwapSleep, SwapWake, SwapReset, Drained, Done
  <2>9. (Head(Todo) = "tri" <=> cur = "tri")
        /\ (Head(Todo) \in Swaps \cup {"fb", "fill"} <=> cur \in Swaps \cup {"fb", "fill"})
    BY <2>2 DEF Same, Swaps
  <2>4. Stream!Execute BY <2>1, <2>2, <2>3, <2>9 DEF Stream!Execute
  <2>5. QED BY <2>4 DEF Stream!Next
<1>11. CASE Rendered
  <2>1. UNCHANGED <<slot, wr, rd, fifo, cpu, hand>> BY <1>11 DEF Rendered
  <2>2. Todo' = Todo BY <2>1, TodoSame, WrittenSame
  <2>3. Stream!Rendered BY <1>11, <2>1, <2>2 DEF Rendered, Stream!Rendered
  <2>4. QED BY <2>3 DEF Stream!Next
<1>12. CASE UNCHANGED vars
  <2>1. UNCHANGED <<slot, wr, rd, fifo, cpu, hand, drawing>> BY <1>12 DEF vars
  <2>2. Todo' = Todo BY <2>1, TodoSame, WrittenSame
  <2>3. QED BY <2>1, <2>2
<1>13. QED
  BY <1>2, <1>3, <1>4, <1>5, <1>6, <1>7, <1>8, <1>9, <1>10, <1>11, <1>12 DEF Next, Calls

\* Commands take effect one at a time and in the order written, and a read of the card
\* sees all that was written before: neither the two threads, nor the order in which the
\* host shows an entry and the index, nor the wrapping ring, nor a skipped retrace changes
\* that (until fatal() ends the program).
THEOREM CommandsInOrder == Spec => Implements
<1>1. Init => KnownInv BY InitKnown
<1>2. IInv /\ KnownInv /\ [Next]_vars => KnownInv' BY KnownStep
<1>3. Init => Stream!Init
  <2> SUFFICES ASSUME Init PROVE Stream!Init OBVIOUS
  <2>1. TypeOK /\ Empty /\ fifo = "sleep" /\ cpu = "run" /\ drawing = 0
    BY InitInv DEF IInv, Init, Empty
  <2>2. Todo = Segment(Written, rd, 0) BY <2>1, EntriesAre, TodoIs
  <2>3. QED BY <2>1, <2>2 DEF Segment, Stream!Init
<1>4. IInv /\ IInv' /\ KnownInv /\ [Next]_vars =>
        [Stream!Next]_<<Todo, drawing, IF cpu = "read" THEN "reads" ELSE "writes">>
  BY StepMaps
<1> QED BY <1>1, <1>2, <1>3, <1>4, FifoInvariance, PTL DEF Spec, Implements, Stream!Spec

-----------------------------------------------------------------------------
(* The swap count. *)

\* Where the swaps are in a sequence of commands, the first left out or not.
SwapsOf(s, b) == {i \in 1..Len(s) : s[i] \in Swaps /\ (b => i > 1)}

One(b) == IF b THEN 1 ELSE 0

\* There are finitely many.
LEMMA SwapsFinite ==
  ASSUME NEW S, NEW s \in Seq(S), NEW b \in BOOLEAN
  PROVE  IsFiniteSet(SwapsOf(s, b)) /\ Cardinality(SwapsOf(s, b)) \in Nat
<1>1. Len(s) \in Nat OBVIOUS
<1>2. IsFiniteSet(1..Len(s)) BY <1>1, FS_Interval
<1>3. SwapsOf(s, b) \subseteq 1..Len(s) BY DEF SwapsOf
<1>4. QED BY <1>2, <1>3, FS_Subset, FS_CardinalityType

\* A command at the end counts if it is a swap.
LEMMA AppendCounts ==
  ASSUME NEW S, NEW s \in Seq(S), NEW b \in BOOLEAN, NEW k \in S, b => s # << >>
  PROVE  Cardinality(SwapsOf(Append(s, k), b)) = Cardinality(SwapsOf(s, b)) + One(k \in Swaps)
<1> DEFINE n == Len(s)
           q == Append(s, k)
           A == SwapsOf(s, b)
<1>1. n \in Nat /\ (b => n > 0) OBVIOUS
<1>2. /\ q \in Seq(S) /\ Len(q) = n + 1
      /\ \A i \in 1..n : q[i] = s[i]
      /\ q[n + 1] = k
  BY AppendProperties
<1>3. IsFiniteSet(A) /\ Cardinality(A) \in Nat BY SwapsFinite
<1>4. n + 1 \notin A BY <1>1 DEF SwapsOf
<1>5. SwapsOf(q, b) = IF k \in Swaps THEN A \cup {n + 1} ELSE A
  <2>1. \A i : i \in 1..n + 1 <=> i \in 1..n \/ i = n + 1 BY <1>1
  <2>2. b => n + 1 > 1 BY <1>1
  <2> HIDE DEF n, q
  <2>3. SwapsOf(q, b) = {i \in 1..n + 1 : q[i] \in Swaps /\ (b => i > 1)} BY <1>2 DEF SwapsOf
  <2>4. A = {i \in 1..n : s[i] \in Swaps /\ (b => i > 1)} BY DEF SwapsOf, n
  <2>5. QED BY <1>2, <2>1, <2>2, <2>3, <2>4
<1> HIDE DEF A, n, q
<1>6. Cardinality(A \cup {n + 1}) = Cardinality(A) + 1 BY <1>3, <1>4, FS_AddElement
<1>7. QED BY <1>3, <1>5, <1>6 DEF One, A, q

\* The first counts if it is a swap, unless it is left out.
LEMMA TailCounts ==
  ASSUME NEW S, NEW s \in Seq(S), NEW b \in BOOLEAN, s # << >>
  PROVE  Cardinality(SwapsOf(s, b)) =
           Cardinality(SwapsOf(Tail(s), FALSE)) + One(Head(s) \in Swaps /\ ~b)
<1> DEFINE n == Len(s)
           t == Tail(s)
           A == SwapsOf(s, TRUE)
           B == SwapsOf(t, FALSE)
           f == [i \in B |-> i + 1]
<1>1. n \in Nat /\ n > 0 /\ Head(s) = s[1] OBVIOUS
<1>2. t \in Seq(S) /\ Len(t) = n - 1 /\ \A i \in 1..n - 1 : t[i] = s[i + 1]
  BY HeadTailProperties
<1>3. IsFiniteSet(A) /\ Cardinality(A) \in Nat BY SwapsFinite
<1>4. IsFiniteSet(B) /\ Cardinality(B) \in Nat BY <1>2, SwapsFinite
<1>5. \A i \in B : i \in 1..n - 1 /\ i + 1 \in A BY <1>1, <1>2 DEF SwapsOf
<1>6. \A j \in A : j \in 2..n /\ j - 1 \in B BY <1>1, <1>2 DEF SwapsOf
<1>7. SwapsOf(s, FALSE) = IF Head(s) \in Swaps THEN A \cup {1} ELSE A
  <2>1. \A i \in 1..n : i > 1 \/ i = 1 BY <1>1
  <2>2. 1 \in 1..n BY <1>1
  <2>3. QED BY <1>1, <2>1, <2>2 DEF SwapsOf
<1>8. 1 \notin A BY DEF SwapsOf
<1> HIDE DEF A, B, n, t
<1>9. f \in Bijection(B, A)
  <2>1. f \in [B -> A] BY <1>5
  <2>2. \A x, y \in B : f[x] = f[y] => x = y BY <1>5
  <2>3. \A j \in A : \E i \in B : f[i] = j
    <3> TAKE j \in A
    <3>1. j - 1 \in B /\ f[j - 1] = j BY <1>6
    <3>2. QED BY <3>1
  <2>4. QED BY <2>1, <2>2, <2>3 DEF Bijection, Injection, IsInjective, Surjection
<1>10. Cardinality(A) = Cardinality(B)
  <2>1. ExistsBijection(B, A) BY <1>9 DEF ExistsBijection
  <2>2. QED BY <1>3, <1>4, <2>1, FS_Bijection
<1>11. Cardinality(A \cup {1}) = Cardinality(A) + 1 BY <1>3, <1>8, FS_AddElement
<1>12. CASE b
  <2>1. One(Head(s) \in Swaps /\ ~b) = 0 /\ SwapsOf(s, b) = A BY <1>12 DEF One, A, SwapsOf
  <2>2. Cardinality(SwapsOf(s, b)) = Cardinality(B) /\ Cardinality(B) + 0 = Cardinality(B)
    BY <1>4, <1>10, <2>1
  <2>3. QED BY <2>1, <2>2, Zenon DEF B, t
<1>13. CASE ~b
  <2>1. One(Head(s) \in Swaps /\ ~b) = One(Head(s) \in Swaps) BY <1>13 DEF One
  <2>2. SwapsOf(s, b) = SwapsOf(s, FALSE) BY <1>13 DEF SwapsOf
  <2>3. Cardinality(SwapsOf(s, FALSE)) = Cardinality(A) + One(Head(s) \in Swaps)
    <3>1. CASE Head(s) \in Swaps
      <4>1. One(Head(s) \in Swaps) = 1 /\ SwapsOf(s, FALSE) = A \cup {1} BY <1>7, <3>1 DEF One
      <4>2. QED BY <1>11, <4>1
    <3>2. CASE Head(s) \notin Swaps
      <4>1. One(Head(s) \in Swaps) = 0 /\ SwapsOf(s, FALSE) = A BY <1>7, <3>2 DEF One
      <4>2. Cardinality(A) = Cardinality(A) + 0 BY <1>3
      <4>3. QED BY <4>1, <4>2, Zenon
    <3>3. QED BY <3>1, <3>2
  <2>4. QED BY <1>10, <2>1, <2>2, <2>3, Zenon DEF B, t
<1>14. QED BY <1>12, <1>13

Writing == cpu \in {"queue", "nudge", "stored"} /\ hand \in Swaps
Begun == Swapping /\ ~triple
Queued == Cardinality(SwapsOf(Todo, Begun))

\* What is coming, part by part, now and after a step.
LEMMA OutstandingIs ==
  /\ Outstanding = One(Writing) + Queued + One(pending)
  /\ Outstanding' = One(Writing') + Queued' + One(pending')
BY DEF Outstanding, Queued, SwapsOf, Begun, Swapping, Writing, One

\* What is left is a sequence of entries, the first a swap while the FIFO thread
\* waits for one.
TodoKnown ==
  /\ Todo \in Seq(AllKinds \cup {Invalid}) /\ Queued \in Nat
  /\ Swapping => Todo # << >> /\ Head(Todo) \in Swaps

\* What is left to do is a sequence of known entries.
LEMMA TodoSeq == IInv /\ KnownInv => TodoKnown
<1> SUFFICES ASSUME IInv, KnownInv PROVE TodoKnown
  OBVIOUS
<1> DEFINE S == AllKinds \cup {Invalid}
<1>1. /\ TypeOK /\ (fifo = "retire" => ~Empty) /\ (Working => ~Empty)
  BY DEF IInv, RingInv, Working
<1>2. /\ Entries \in Nat /\ rd \in Nat /\ (~Empty => Entries > 0)
  BY <1>1, EntriesAre, Constants DEF TypeOK
<1>3. Written \in [0..Size - 1 -> S] BY <1>1, WrittenIs
<1> HIDE DEF S
<1>4. ASSUME fifo # "retire" PROVE Todo \in Seq(S)
  <2>1. Todo = Segment(Written, rd, Entries) BY <1>1, <1>4, TodoIs
  <2>2. QED BY <1>2, <1>3, <2>1, SegmentSeq
<1>5. ASSUME fifo = "retire" PROVE Todo \in Seq(S)
  <2>1. Todo = Segment(Written, rd + 1, Entries - 1) /\ rd + 1 \in Nat /\ Entries - 1 \in Nat
    BY <1>1, <1>2, <1>5, TodoIs
  <2>2. QED BY <1>3, <2>1, SegmentSeq
<1>6. Todo \in Seq(S) BY <1>4, <1>5, Zenon
<1>7. Begun \in BOOLEAN BY DEF Begun, Swapping
<1>8. Queued \in Nat BY <1>6, <1>7, SwapsFinite DEF Queued
<1>9. ASSUME Swapping PROVE Todo # << >> /\ Head(Todo) \in Swaps
  <2>1. Working /\ fifo # "retire" /\ cur \in Swaps
    BY <1>9 DEF Swapping, Working, KnownInv, Swaps
  <2>2. Entries \in Nat \ {0} BY <1>1, <1>2, <2>1
  <2>3. Todo = Segment(Written, rd, Entries) BY <1>1, <2>1, TodoIs
  <2>4. Todo # << >> /\ Head(Todo) = Written[rd % Size] BY <1>2, <1>3, <2>2, <2>3, SegmentTail
  <2>5. Same(cur, Written[rd % Size]) BY <2>1, HeadSame
  <2>6. QED BY <2>1, <2>4, <2>5 DEF Same
<1>10. QED BY <1>6, <1>8, <1>9 DEF S, TodoKnown

\* So it is after a step.
LEMMA TodoSeqNext == IInv' /\ KnownInv' => TodoKnown'
BY TodoSeq, PTL

\* The parts are numbers.
LEMMA Parts ==
  ASSUME IInv, IInv', KnownInv, KnownInv'
  PROVE  /\ Outstanding = One(Writing) + Queued + One(pending)
         /\ Outstanding' = One(Writing') + Queued' + One(pending')
         /\ Queued \in Nat /\ Queued' \in Nat
         /\ One(Writing) \in 0..1 /\ One(Writing') \in 0..1
         /\ One(pending) \in 0..1 /\ One(pending') \in 0..1
         /\ (pending => pending') => One(pending) <= One(pending')
         /\ (Writing <=> Writing') => One(Writing') = One(Writing)
<1>1. Queued \in Nat BY TodoSeq DEF TodoKnown
<1>2. Queued' \in Nat BY TodoSeqNext DEF TodoKnown
<1>3. \A b \in BOOLEAN : One(b) \in 0..1 BY DEF One
<1>4. /\ (pending => pending') => One(pending) <= One(pending')
      /\ (Writing <=> Writing') => One(Writing') = One(Writing)
  BY DEF One
<1>5. One(Writing) \in 0..1 /\ One(Writing') \in 0..1 /\ One(pending) \in 0..1 /\ One(pending') \in 0..1
  BY DEF One
<1>6. QED BY <1>1, <1>2, <1>4, <1>5, OutstandingIs, Zenon

\* The count follows what is coming.
LEMMA Balance ==
  ASSUME SwapsComing, swaps \in Nat, Outstanding \in Nat, Outstanding' \in Nat,
         \/ swaps' = 0
         \/ swaps' = swaps /\ Outstanding' >= Outstanding
         \/ swaps' = Decremented(swaps) /\ Outstanding' + 1 >= Outstanding
         \/ swaps' = swaps + 1 /\ Outstanding' = Outstanding + 1
  PROVE  SwapsComing'
<1>1. \A n, o, m, u \in Nat :
        /\ n <= o
        /\ \/ m = 0
           \/ m = n /\ u >= o
           \/ m = Decremented(n) /\ u + 1 >= o
           \/ m = n + 1 /\ u = o + 1
        => m <= u
  BY DEF Decremented
<1>2. swaps' \in Nat
  <2>1. Decremented(swaps) \in Nat /\ swaps + 1 \in Nat /\ 0 \in Nat BY DecrementedNat
  <2>2. QED BY <2>1, Zenon
<1>3. QED BY <1>1, <1>2 DEF SwapsComing

\* At first nothing is counted.
LEMMA InitSwaps == Init => SwapsComing
<1> SUFFICES ASSUME Init PROVE SwapsComing
  OBVIOUS
<1>1. IInv /\ KnownInv BY InitInv, InitKnown
<1>2. Queued \in Nat BY <1>1, TodoSeq DEF TodoKnown
<1>3. swaps = 0 /\ ~pending /\ ~Writing BY DEF Init, Writing
<1>4. One(Writing) = 0 /\ One(pending) = 0 BY <1>3 DEF One
<1>5. Outstanding = 0 + Queued + 0 BY <1>4, OutstandingIs
<1>6. QED BY <1>2, <1>3, <1>5 DEF SwapsComing

\* A step that neither completes an entry nor begins a swap: what is left stays.
LEMMA KeptSwaps ==
  ASSUME IInv, IInv', KnownInv, KnownInv', SwapsComing,
         Todo' = Todo, Begun' <=> Begun, Writing' <=> Writing,
         \/ swaps' = swaps /\ (pending => pending')
         \/ swaps' = 0
         \/ swaps' = Decremented(swaps)
  PROVE  SwapsComing'
<1>1. Queued' = Queued
  <2>1. Begun' = Begun BY DEF Begun, Swapping
  <2>2. QED BY <2>1 DEF Queued, SwapsOf
<1> DEFINE o == Outstanding
           u == Outstanding'
           n == Queued
           w == One(Writing)
           p == One(pending)
           r == One(pending')
<1>2. o = w + n + p /\ u = w + n + r /\ n \in Nat /\ w \in 0..1 /\ p \in 0..1 /\ r \in 0..1
      /\ ((pending => pending') => p <= r)
  <2>1. One(Writing') = One(Writing) BY Parts
  <2>2. QED BY <1>1, <2>1, Parts, Zenon
<1>3. swaps \in Nat BY DEF IInv, TypeOK
<1> HIDE DEF o, u, n, w, p, r
<1>4. o \in Nat /\ u \in Nat /\ u + 1 >= o /\ (p <= r => u >= o) BY <1>2
<1>5. (pending => pending') => u >= o BY <1>2, <1>4, Zenon
<1>6. QED BY <1>3, <1>4, <1>5, Balance DEF o, u

\* Completing an entry takes it from what is left, if it is a swap that was not begun.
LEMMA CompletedSwaps ==
  ASSUME IInv, IInv', KnownInv, UNCHANGED <<slot, wr, rd, cpu, hand>>,
         Working, fifo # "retire", fifo' = "retire"
  PROVE  /\ Queued = Queued' + One(cur \in Swaps /\ ~Begun)
         /\ Writing' <=> Writing
<1>1. Todo # << >> /\ (Head(Todo) \in Swaps <=> cur \in Swaps) /\ Todo' = Tail(Todo)
  BY ExecMaps DEF Same
<1>2. Begun' = FALSE /\ Begun \in BOOLEAN BY DEF Begun, Swapping
<1>3. Todo \in Seq(AllKinds \cup {Invalid}) BY TodoSeq DEF TodoKnown
<1>4. Queued' = Cardinality(SwapsOf(Tail(Todo), FALSE)) BY <1>1, <1>2 DEF Queued, SwapsOf
<1>5. Queued = Cardinality(SwapsOf(Tail(Todo), FALSE)) + One(Head(Todo) \in Swaps /\ ~Begun)
  BY <1>1, <1>2, <1>3, TailCounts DEF Queued
<1>6. One(Head(Todo) \in Swaps /\ ~Begun) = One(cur \in Swaps /\ ~Begun) BY <1>1 DEF One
<1>7. QED BY <1>4, <1>5, <1>6 DEF Writing

\* Beginning a swap with none pending takes it from what is left: it is pending.
LEMMA BegunSwaps ==
  ASSUME IInv, IInv', KnownInv, KnownInv', UNCHANGED <<slot, wr, rd, cpu, hand>>,
         fifo = "exec", fifo' = "swap", ~triple', cur \in Swaps
  PROVE  Queued = Queued' + 1
<1>1. Todo' = Todo BY TodoSame, WrittenSame
<1>2. Begun = FALSE /\ Begun' = TRUE BY DEF Begun, Swapping
<1>3. Todo \in Seq(AllKinds \cup {Invalid}) BY TodoSeq DEF TodoKnown
<1>4. Todo # << >> /\ Head(Todo) \in Swaps
  <2>1. Swapping' BY DEF Swapping
  <2>2. QED BY <1>1, <2>1, TodoSeqNext DEF TodoKnown
<1> DEFINE c == Cardinality(SwapsOf(Tail(Todo), FALSE))
<1>5. Queued = c + One(Head(Todo) \in Swaps /\ ~FALSE)
  <2>1. Queued = Cardinality(SwapsOf(Todo, FALSE)) BY <1>2 DEF Queued
  <2>2. QED BY <1>3, <1>4, <2>1, TailCounts
<1>6. Queued' = c + One(Head(Todo) \in Swaps /\ ~TRUE)
  <2>1. Queued' = Cardinality(SwapsOf(Todo, TRUE)) BY <1>1, <1>2 DEF Queued, SwapsOf
  <2>2. QED BY <1>3, <1>4, <2>1, TailCounts
<1>7. One(Head(Todo) \in Swaps /\ ~FALSE) = 1 /\ One(Head(Todo) \in Swaps /\ ~TRUE) = 0
  BY <1>4 DEF One
<1>8. c \in Nat
  <2>1. Tail(Todo) \in Seq(AllKinds \cup {Invalid}) BY <1>3, <1>4, HeadTailProperties
  <2>2. QED BY <2>1, SwapsFinite
<1> HIDE DEF c
<1>9. QED BY <1>5, <1>6, <1>7, <1>8

\* swap_count and what is coming stay in step through every step.
LEMMA StepSwaps ==
  ASSUME IInv, IInv', KnownInv, KnownInv', SwapsComing, [Next]_vars
  PROVE  SwapsComing'
<1> USE DEF ring, guest, thread, swap
<1> DEFINE o == Outstanding
           u == Outstanding'
           n == Queued
           m == Queued'
<1>1. /\ o = One(Writing) + n + One(pending) /\ u = One(Writing') + m + One(pending')
      /\ n \in Nat /\ m \in Nat /\ swaps \in Nat
      /\ One(Writing) \in 0..1 /\ One(Writing') \in 0..1
      /\ One(pending) \in 0..1 /\ One(pending') \in 0..1
  BY Parts DEF IInv, TypeOK
<1>2. One(TRUE) = 1 /\ One(FALSE) = 0 /\ One(Writing) = (IF Writing THEN 1 ELSE 0)
      /\ One(Writing') = (IF Writing' THEN 1 ELSE 0)
      /\ One(pending) = (IF pending THEN 1 ELSE 0)
      /\ One(pending') = (IF pending' THEN 1 ELSE 0)
  BY DEF One
<1>3. o \in Nat /\ u \in Nat BY <1>1
<1>4. SwapsComing OBVIOUS
<1> HIDE DEF o, u, n, m
<1>5. CASE \E k \in Kinds : Write(k)
  <2>1. PICK k \in Kinds : Write(k) BY <1>5
  <2>2. /\ UNCHANGED <<slot, wr, rd, fifo, triple, pending>> /\ cpu = "run"
        /\ cpu' = "queue" /\ hand' = k
        /\ swaps' = IF k \in Swaps THEN swaps + 1 ELSE swaps
    BY <2>1 DEF Write
  <2>3. Todo' = Todo /\ Begun' = Begun BY <2>2, TodoSame, WrittenSame DEF Begun, Swapping, Coming
  <2>4. m = n BY <2>3 DEF m, n, Queued, SwapsOf
  <2>5. ~Writing /\ (Writing' <=> k \in Swaps) BY <2>2 DEF Writing
  <2>6. CASE k \in Swaps
    <3>1. swaps' = swaps + 1 /\ u = o + 1 BY <1>1, <1>2, <2>2, <2>4, <2>5, <2>6
    <3>2. QED BY <1>1, <1>3, <1>4, <3>1, Balance DEF o, u
  <2>7. CASE k \notin Swaps
    <3>1. swaps' = swaps /\ u >= o BY <1>1, <1>2, <2>2, <2>4, <2>5, <2>7
    <3>2. QED BY <1>1, <1>3, <1>4, <3>1, Balance DEF o, u
  <2>8. QED BY <2>6, <2>7
<1>6. CASE (QueueStore /\ cpu' # "stored") \/ (QueueAdvance /\ cpu = "stored")
  <2>1. hand \in Kinds /\ cpu \in {"queue", "stored"} /\ Todo' = Append(Todo, hand)
    <3>1. QueueStore /\ cpu' # "stored" => cpu' = "indexed" BY DEF QueueStore
    <3>2. QED BY <1>6, <3>1, AdvanceMaps
  <2>2. UNCHANGED <<fifo, triple, pending, swaps>> /\ cpu' \in {"indexed", "posted", "run"}
    BY <1>6 DEF QueueStore, QueueAdvance
  <2>3. Begun' = Begun /\ Begun \in BOOLEAN BY <2>2 DEF Begun, Swapping
  <2>4. Todo \in Seq(AllKinds \cup {Invalid}) /\ (Begun => Todo # << >>)
    BY TodoSeq DEF TodoKnown, Begun
  <2>5. m = n + One(hand \in Swaps)
    <3>1. m = Cardinality(SwapsOf(Append(Todo, hand), Begun)) BY <2>1, <2>3 DEF m, Queued, SwapsOf
    <3>2. hand \in AllKinds \cup {Invalid} BY <2>1, Constants
    <3>3. QED BY <2>3, <2>4, <3>1, <3>2, AppendCounts DEF n, Queued
  <2>6. ~Writing' /\ (Writing <=> hand \in Swaps) BY <2>1, <2>2 DEF Writing
  <2>7. One(hand \in Swaps) = One(Writing) BY <2>6 DEF One
  <2>8. swaps' = swaps /\ u >= o BY <1>1, <1>2, <2>2, <2>5, <2>6, <2>7
  <2>9. QED BY <1>1, <1>3, <1>4, <2>8, Balance DEF o, u
<1>7. CASE (QueueStore /\ cpu' = "stored") \/ QueueTear \/ (QueueAdvance /\ cpu # "stored")
  <2>1. Todo' = Todo BY <1>7, StoreMaps, ComeMaps
  <2>2. /\ UNCHANGED <<fifo, triple, pending, swaps>>
        /\ \/ cpu = "queue" /\ cpu' = "stored" /\ hand' = hand
           \/ cpu \in {"indexed", "torn"} /\ cpu' \in {"torn", "posted", "run"}
    BY <1>7 DEF QueueStore, QueueTear, QueueAdvance
  <2>3. (Begun' <=> Begun) /\ (Writing' <=> Writing) BY <2>2 DEF Begun, Swapping, Writing
  <2>4. QED BY <2>1, <2>2, <2>3, KeptSwaps
<1>8. CASE QueueFull \/ QueueNudge \/ Posted \/ FlushWait \/ FlushNudge \/ FlushEmpty
           \/ FlushDone \/ Read \/ ReadStatus \/ FlushBegin \/ WakeTimer \/ Vsync \/ VideoReset
           \/ Rendered \/ UNCHANGED vars
  <2> USE DEF QueueFull, QueueNudge, Posted, FlushWait, FlushNudge, FlushEmpty, FlushDone,
              Read, ReadStatus, FlushBegin, WakeTimer, Vsync, VideoReset, Rendered, vars
  <2>1. UNCHANGED <<slot, wr, rd, fifo, triple>>
        /\ (UNCHANGED <<cpu, hand>> \/ (~Coming /\ ~Coming'))
    BY <1>8 DEF Coming
  <2>2. Todo' = Todo /\ (Begun' <=> Begun) BY <2>1, TodoSame, WrittenSame DEF Begun, Swapping
  <2>3. Writing' <=> Writing BY <1>8 DEF Writing
  <2>4. \/ swaps' = swaps /\ pending' = pending
        \/ swaps' = 0
        \/ swaps' = Decremented(swaps)
    BY <1>8
  <2>5. QED BY <2>2, <2>3, <2>4, KeptSwaps
<1>9. CASE Retire
  <2>1. Todo' = Todo BY <1>9, RetireMaps
  <2>2. /\ UNCHANGED <<cpu, hand, triple, pending, swaps>>
        /\ fifo = "retire" /\ fifo' \in {"exec", "drain"}
    BY <1>9 DEF Retire
  <2>3. (Begun' <=> Begun) /\ (Writing' <=> Writing) BY <2>2 DEF Begun, Swapping, Writing
  <2>4. QED BY <2>1, <2>2, <2>3, KeptSwaps
<1>10. CASE FifoThread /\ ~Retire /\ fifo' # "retire" /\ ~(ExecSwapVsync /\ ~pending)
  <2> USE DEF Sleep, Wake, Fetch, FbWait, ExecWrite, ExecTriangle, ExecSwapNow,
              ExecSwapVsync, SwapOver, SwapSleep, SwapWake, SwapReset, SwapLock, Drained,
              Done, FifoThread, Swapped
  <2>1. UNCHANGED <<slot, wr, rd, cpu, hand, swaps>> /\ fifo # "retire" /\ (pending => pending')
        /\ (UNCHANGED pending \/ (pending /\ pending'))
    BY <1>10
  <2>2. Todo' = Todo BY <1>10, <2>1, TodoSame, WrittenSame
  <2>3. Begun' <=> Begun
    <3>1. CASE ExecSwapVsync
      <4>1. ~Swapping /\ triple' = pending /\ pending BY <1>10, <3>1 DEF Swapping
      <4>2. QED BY <4>1 DEF Begun
    <3>2. CASE ~ExecSwapVsync
      <4>1. triple' = triple /\ (Swapping' <=> Swapping) BY <1>10, <3>2 DEF Swapping
      <4>2. QED BY <4>1 DEF Begun
    <3>3. QED BY <3>1, <3>2
  <2>4. Writing' <=> Writing BY <2>1 DEF Writing
  <2>5. QED BY <2>1, <2>2, <2>3, <2>4, KeptSwaps
<1>11. CASE ExecSwapVsync /\ ~pending /\ fifo' # "retire"
  <2>1. /\ UNCHANGED <<slot, wr, rd, cpu, hand, swaps>> /\ ~pending /\ ~triple'
        /\ fifo = "exec" /\ fifo' = "swap" /\ cur = "swapVsync" /\ pending'
    BY <1>11 DEF ExecSwapVsync
  <2>2. n = m + 1
    <3>1. cur \in Swaps BY <2>1 DEF Swaps
    <3>2. QED BY <2>1, <3>1, BegunSwaps DEF n, m
  <2>3. Writing' <=> Writing BY <2>1 DEF Writing
  <2>4. swaps' = swaps /\ u >= o BY <1>1, <1>2, <2>1, <2>2, <2>3
  <2>5. QED BY <1>1, <1>3, <1>4, <2>4, Balance DEF o, u
<1>12. CASE FifoThread /\ ~Retire /\ fifo' = "retire"
  <2>1. UNCHANGED <<slot, wr, rd, cpu, hand>> /\ Working /\ fifo # "retire"
    BY <1>12 DEF FifoThread, Sleep, Wake, Fetch, FbWait, ExecWrite, ExecTriangle,
         ExecSwapNow, ExecSwapVsync, SwapOver, SwapSleep, SwapWake, SwapReset, SwapLock,
         Drained, Done, Working
  <2>2. n = m + One(cur \in Swaps /\ ~Begun) /\ (Writing' <=> Writing)
    BY <1>12, <2>1, CompletedSwaps DEF n, m
  <2>3. One(Writing') = One(Writing) BY <2>2 DEF One
  <2>4. CASE ExecWrite \/ ExecTriangle
    <3>1. cur \notin Swaps /\ swaps' = swaps /\ pending' = pending
      BY <2>4 DEF ExecWrite, ExecTriangle, Swaps
    <3>2. One(cur \in Swaps /\ ~Begun) = 0 BY <3>1 DEF One
    <3>3. u >= o BY <1>1, <2>2, <2>3, <3>1, <3>2
    <3>4. QED BY <1>1, <1>3, <1>4, <3>1, <3>3, Balance DEF o, u
  <2>5. CASE ExecSwapNow
    <3>1. swaps' = Decremented(swaps) /\ pending' = pending BY <2>5 DEF ExecSwapNow
    <3>2. One(cur \in Swaps /\ ~Begun) \in 0..1 BY DEF One
    <3>3. u + 1 >= o BY <1>1, <2>2, <2>3, <3>1, <3>2
    <3>4. QED BY <1>1, <1>3, <1>4, <3>1, <3>3, Balance DEF o, u
  <2>6. CASE ExecSwapVsync
    <3>1. swaps' = swaps /\ ~pending /\ pending' BY <1>12, <2>6 DEF ExecSwapVsync
    <3>2. One(cur \in Swaps /\ ~Begun) \in 0..1 BY DEF One
    <3>3. u >= o BY <1>1, <1>2, <2>2, <2>3, <3>1, <3>2
    <3>4. QED BY <1>1, <1>3, <1>4, <3>1, <3>3, Balance DEF o, u
  <2>7. CASE SwapOver \/ SwapLock
    <3>1. /\ Swapping /\ pending' = triple
          /\ \/ swaps' = swaps /\ ~pending
             \/ swaps' = Decremented(swaps)
      BY <1>12, <2>7 DEF SwapOver, SwapLock, Swapped, Swapping
    <3>2. cur \in Swaps BY <3>1 DEF KnownInv, Swaps
    <3>3. (cur \in Swaps /\ ~Begun) <=> triple BY <3>1, <3>2 DEF Begun, IInv, TypeOK
    <3>4. One(cur \in Swaps /\ ~Begun) = One(pending') BY <3>1, <3>3 DEF One
    <3>5. u = One(Writing) + n BY <1>1, <2>2, <2>3, <3>4
    <3>6. u + 1 >= o /\ (~pending => u >= o) BY <1>1, <1>2, <3>5
    <3>7. QED BY <1>1, <1>3, <1>4, <3>1, <3>6, Balance DEF o, u
  <2>8. QED
    BY <1>12, <2>4, <2>5, <2>6, <2>7
    DEF FifoThread, Sleep, Wake, Fetch, FbWait, SwapSleep, SwapWake, SwapReset, Drained, Done
<1>13. QED
  BY <1>5, <1>6, <1>7, <1>8, <1>9, <1>10, <1>11, <1>12 DEF Next, Calls, Guest, FifoThread

\* swap_count never counts a swap that is not coming: not when the retrace and the FIFO
\* thread complete swaps side by side, nor when the thread gives up waiting, nor across a
\* video reset.
THEOREM SwapsAreComing == Spec => []SwapsComing
<1>1. Init => KnownInv BY InitKnown
<1>2. IInv /\ KnownInv /\ [Next]_vars => KnownInv' BY KnownStep
<1>3. Init => SwapsComing BY InitSwaps
<1>4. IInv /\ IInv' /\ KnownInv /\ KnownInv' /\ SwapsComing /\ [Next]_vars => SwapsComing'
  BY StepSwaps
<1> QED BY <1>1, <1>2, <1>3, <1>4, FifoInvariance, PTL DEF Spec

-----------------------------------------------------------------------------
(* The emulation thread's waits. *)

\* The emulation thread waits for room in the FIFO, or for it to be empty.
Held ==
  \/ cpu \in {"queue", "nudge"} /\ Full
  \/ cpu \in {"flush", "flushnudge"} /\ ~Empty

\* How far the FIFO thread still is from an empty FIFO: the entries, and how far it is
\* with the one in hand.
Stage ==
  CASE fifo = "done" -> 13 [] fifo = "sleep" -> 12 [] fifo = "woken" -> 11 [] fifo = "drain" -> 10
    [] fifo = "fbwait" -> 9 [] fifo = "exec" -> 8
    [] fifo = "swap" -> IF pending THEN 7 ELSE 3
    [] fifo = "swapsleep" -> 6 [] fifo = "swapwoken" -> 5 [] fifo = "swaplock" -> 4
    [] fifo = "retire" -> 2 [] fifo = "fatal" -> 1

Distance == 14 * Entries + Stage

\* While the emulation thread waits, nothing moves the FIFO thread but towards its end.
WaitsShorten == [][Held /\ Held' => (UNCHANGED thread /\ Distance' = Distance) \/ Distance' < Distance]_vars

\* voodoo_flush sets flush before it looks at the FIFO, and until it is empty.
Flushing == cpu \in {"flush", "flushnudge"} => flush

\* Stages are numbers.
LEMMA StageNat == TypeOK => Stage \in 1..13
BY DEF TypeOK, FifoPcs, Stage

\* A step that leaves ring, FIFO thread and swap alone leaves the distance.
LEMMA Stays ==
  ASSUME UNCHANGED <<wr, rd, fifo, pending>>
  PROVE  Distance' = Distance
BY DEF Distance, Entries, Stage

\* Fewer entries, or as many and a later stage.
LEMMA Shorter ==
  \A n \in Nat : \A m \in Nat, s \in Int, t \in Int :
    (m = n /\ t < s) \/ (m = n - 1 /\ t < s + 14) => 14 * m + t < 14 * n + s
OBVIOUS

\* A step of the FIFO thread on the same entry.
LEMMA Nearer ==
  ASSUME TypeOK, UNCHANGED <<wr, rd>>, Stage' \in Int, Stage' < Stage
  PROVE  Distance' < Distance
<1>1. Entries' = Entries BY DEF Entries
<1>2. Entries \in Nat /\ Stage \in Int BY EntriesAre, StageNat, Constants
<1>3. Distance = 14 * Entries + Stage /\ Distance' = 14 * Entries' + Stage' BY DEF Distance
<1>4. Stage' < Stage /\ Stage' \in Int OBVIOUS
<1>5. QED BY <1>1, <1>2, <1>3, <1>4, Shorter

\* The FIFO thread's step while the emulation thread waits.
LEMMA ThreadNearer ==
  ASSUME IInv, Flushing, FifoThread, Held
  PROVE  Distance' < Distance
<1>1. TypeOK /\ Limit \in Nat \ {0} BY Constants DEF IInv
<1>2. ~Empty BY <1>1, EntriesAre DEF Held, Full
<1> USE DEF Stage
<1>3. CASE Sleep \/ Wake BY <1>1, <1>3, Nearer DEF Sleep, Wake, ring
<1>4. CASE Fetch \/ FbWait BY <1>1, <1>4, Nearer DEF Fetch, FbWait, ring
<1>5. CASE ExecWrite \/ ExecTriangle \/ ExecSwapNow
  BY <1>1, <1>5, Nearer DEF ExecWrite, ExecTriangle, ExecSwapNow, ring
<1>6. CASE ExecSwapVsync BY <1>1, <1>6, Nearer DEF ExecSwapVsync, ring
<1>7. CASE SwapOver \/ SwapSleep \/ SwapWake \/ SwapReset
  BY <1>1, <1>7, Nearer DEF SwapOver, SwapSleep, SwapWake, SwapReset, Swapped, ring, swap
<1>8. CASE SwapLock
  <2>1. CASE SkipVsync BY <1>1, <1>8, <2>1, Nearer DEF SwapLock, Swapped, ring
  <2>2. CASE ~SkipVsync
    <3>1. ~pending BY <2>2 DEF SkipVsync, Held, Flushing
    <3>2. QED BY <1>1, <1>8, <2>2, <3>1, Nearer DEF SwapLock, ring, swap
  <2>3. QED BY <2>1, <2>2
<1>9. CASE Retire
  <2>1. fifo = "retire" /\ fifo' \in {"exec", "drain"} BY <1>9 DEF Retire
  <2>2. Entries' = Entries - 1 /\ Entries \in Nat
    BY <1>1, <1>2, <1>9, RetireTakesOne, EntriesAre, Constants DEF Retire
  <2>3. Stage = 2 /\ (Stage' = 8 \/ Stage' = 10)
    <3>1. Stage = 2 BY <2>1
    <3>2. CASE fifo' = "exec" BY <3>1, <3>2
    <3>3. CASE fifo' = "drain" BY <3>1, <3>3
    <3>4. QED BY <2>1, <3>2, <3>3
  <2>4. Distance = 14 * Entries + Stage /\ Distance' = 14 * Entries' + Stage' BY DEF Distance
  <2> HIDE DEF Stage
  <2>5. Entries' \in Nat BY <1>1, <1>2, <2>2, EntriesAre, Constants
  <2>6. Stage \in Int /\ Stage' \in Int /\ Stage' < Stage + 14 BY <2>3
  <2>7. QED BY <2>2, <2>4, <2>5, <2>6, Shorter
<1>10. CASE Drained \/ Done BY <1>1, <1>2, <1>10, Nearer DEF Drained, Done, ring
<1>11. QED BY <1>3, <1>4, <1>5, <1>6, <1>7, <1>8, <1>9, <1>10 DEF FifoThread

\* Every other step, while it waits on.
LEMMA OtherStays ==
  ASSUME Held, Held', Calls \/ Guest \/ Rendered \/ UNCHANGED vars
  PROVE  UNCHANGED thread /\ Distance' = Distance
<1>1. ~Guest
  BY DEF Held, Guest, Write, ReadStatus, FlushBegin, WakeTimer, Vsync, VideoReset
<1>2. UNCHANGED <<ring, thread, pending>>
  <2>1. CASE Calls
    BY <2>1 DEF Calls, QueueFull, QueueNudge, QueueStore, QueueTear, QueueAdvance, Posted, FlushWait, FlushNudge,
       FlushEmpty, FlushDone, Read, Held, swap
  <2>2. CASE Rendered \/ UNCHANGED vars BY <2>2 DEF Rendered, vars, swap
  <2>3. QED BY <1>1, <2>1, <2>2
<1>3. QED BY <1>2, Stays DEF ring, thread

\* No wait of the emulation thread goes round in circles: while it is held by a full FIFO
\* or in voodoo_flush, each step of the FIFO thread brings it nearer to an empty FIFO,
\* even one that waits for a retrace, which cannot come now - the emulation thread's wake
\* of the FIFO thread leads to the swap without it - and nothing takes it further away.
THEOREM WaitsAreFinite == Spec => WaitsShorten
<1>1. Init => Flushing BY DEF Init, Flushing
<1>2. Flushing /\ [Next]_vars => Flushing'
  <2> SUFFICES ASSUME Flushing, [Next]_vars PROVE Flushing' OBVIOUS
  <2>1. CASE Calls
    BY <2>1 DEF Flushing, Calls, QueueFull, QueueNudge, QueueStore, QueueTear, QueueAdvance, Posted, FlushWait,
       FlushNudge, FlushEmpty, FlushDone, Read
  <2>2. CASE Guest
    BY <2>2 DEF Flushing, Guest, Write, ReadStatus, FlushBegin, WakeTimer, Vsync, VideoReset, guest
  <2>3. CASE FifoThread \/ Rendered \/ UNCHANGED vars
    <3>1. UNCHANGED guest
      BY <2>3 DEF FifoThread, Sleep, Wake, Fetch, FbWait, ExecWrite, ExecTriangle, ExecSwapNow,
         ExecSwapVsync, SwapOver, SwapSleep, SwapWake, SwapReset, SwapLock, Retire, Drained, Done,
         Rendered, vars
    <3>2. QED BY <3>1 DEF Flushing, guest
  <2>4. QED BY <2>1, <2>2, <2>3 DEF Next
<1>3. IInv /\ Flushing /\ [Next]_vars =>
        [Held /\ Held' => (UNCHANGED thread /\ Distance' = Distance) \/ Distance' < Distance]_vars
  BY ThreadNearer, OtherStays DEF Next
<1>4. QED BY <1>1, <1>2, <1>3, FifoInvariance, PTL DEF Spec, WaitsShorten

\* Once voodoo_flush has seen the FIFO empty, no triangle is added to those it waits for.
DrawingEnds == [][cpu = "idle" /\ cpu' = "idle" => drawing' <= drawing]_vars

\* The last wait of voodoo_flush, for the render threads, ends with the triangles there
\* are: the FIFO thread, not stopped by anything, finds nothing to queue another one from.
THEOREM FlushDrains == Spec => DrawingEnds
<1>1. ASSUME IInv, [Next]_vars, cpu = "idle", cpu' = "idle" PROVE drawing' <= drawing
  <2>1. drawing \in Int /\ Empty /\ fifo # "exec"
    BY <1>1, Constants DEF IInv, TypeOK, RingInv, Working
  <2>2. CASE Calls \/ Guest \/ FifoThread \/ UNCHANGED vars
    <3>1. drawing' = drawing
      BY <1>1, <2>1, <2>2
         DEF Calls, QueueFull, QueueNudge, QueueStore, QueueTear, QueueAdvance, Posted, FlushWait, FlushNudge,
         FlushEmpty, FlushDone, Read, Guest, Write, ReadStatus, FlushBegin, WakeTimer, Vsync, VideoReset,
         FifoThread, Sleep, Wake, Fetch, FbWait, ExecWrite, ExecTriangle, ExecSwapNow,
         ExecSwapVsync, SwapOver, SwapSleep, SwapWake, SwapReset, SwapLock, Retire, Drained, Done, vars
    <3>2. QED BY <2>1, <3>1
  <2>3. CASE Rendered BY <2>1, <2>3 DEF Rendered
  <2>4. QED BY <1>1, <2>2, <2>3 DEF Next
<1>2. IInv /\ [Next]_vars => [cpu = "idle" /\ cpu' = "idle" => drawing' <= drawing]_vars
  BY <1>1
<1>3. QED BY <1>2, FifoInvariance, PTL DEF Spec, DrawingEnds
=============================================================================
