-------------------------------- MODULE Pit --------------------------------
(***************************************************************************)
(* pit.c: the 8253's counters.  A counter does not count: it starts a device *)
(* timer for the time its next output change is due, and works out what it  *)
(* would show when the guest reads it.  A counter that another's output     *)
(* clocks (PCjr, the PS/2's watchdog) does count, and the PCjr's can be     *)
(* switched from one to the other.                                         *)
(*                                                                         *)
(* The counters share no state: the module is of one, and which of them it  *)
(* is decides what happens to it.  Time is in ticks of the PIT's clock; the  *)
(* device timer is served late by a bounded time (TimerService).  A byte    *)
(* has Base values.  What a status byte says is left out.                   *)
(***************************************************************************)
EXTENDS Integers

CONSTANTS
  Counters,  (* which counters there are                                      *)
  Base,      (* 2^8                                                           *)
  Modulus,   (* 2^32: count is an int                                         *)
  Late,      (* how late, in ticks, a timer is served                         *)
  Words,     (* the modes and access modes of the control words written       *)
  Bytes      (* the bytes written to a counter                                *)

Wrap == Base * Base
Modes == 0..5
Access == 1..3          \* the low byte, the high byte, both
AllCounters == {"tick", "refresh", "speaker", "watchdog"}

ASSUME PitAssumption ==
  /\ Counters \subseteq AllCounters
  /\ Base \in Nat \ {0, 1} /\ Late \in Nat
  /\ Modulus \in Nat /\ Modulus % 2 = 0 /\ Modulus > 4 * Wrap
  /\ Words \subseteq [m : Modes, rw : Access]
  /\ Bytes \subseteq 0..Base - 1

VARIABLES
  nr,       (* the counter                                                    *)
  c,        (* what it counts                                                 *)
  port,     (* how far the guest has come with writing and reading it         *)
  request   (* tick: IRQ 0 is requested (line 0 of pic.pend)                   *)

vars == <<nr, c, port, request>>

-----------------------------------------------------------------------------
(* The count. *)

Length(d) == IF d.l = 0 THEN Wrap ELSE d.l
Limited(n, low, high) == IF n < low THEN low ELSE IF n > high THEN high ELSE n

\* pit_read_timer: what the counter shows.  A timer that is overdue has nothing left.
Timing(d) == d.using /\ ~(d.m = 3 /\ ~d.gate) /\ d.on
Shown(d) ==
  IF Timing(d)
  THEN LET read == Limited(Limited(d.due, 0, Modulus) + (IF d.m = 2 THEN 1 ELSE 0), 0, Wrap)
       IN  IF d.m = 3 THEN 2 * read ELSE read
  ELSE IF d.m = 2 THEN d.count + 1 ELSE d.count

\* (Mutant: the count is not dumped.)
StoppedOnly(d) == IF d.using /\ d.on THEN [d EXCEPT !.on = FALSE, !.due = 0] ELSE d

\* pit_dump_and_disable_timer.
Stopped(d) ==
  IF d.using /\ d.on THEN [d EXCEPT !.count = Shown(d) % Modulus, !.on = FALSE, !.due = 0] ELSE d

\* (Mutant: the timer runs on.)
SettledOn(d) == [d EXCEPT !.running = d.enabled /\ d.using /\ ~d.disabled]

\* The end of pit_load, pit_set_gate_no_timer and pit_over.
Settled(d) ==
  LET e == [d EXCEPT !.running = d.enabled /\ d.using /\ ~d.disabled]
  IN  IF e.running THEN e ELSE Stopped(e)

\* As a delay: a negative count is a time gone by.
Signed(n) == IF 2 * n < Modulus THEN n ELSE n - Modulus

\* timer_set_delay_u64, if the counter has a timer.
Timed(d, n) == IF d.using THEN [d EXCEPT !.on = TRUE, !.due = n] ELSE d

\* The start of a count: its length, when the output changes next, and the output.
Begun(d, n) ==
  [Timed(d, n) EXCEPT !.count = IF d.m = 2 THEN Length(d) - 1 ELSE Length(d),
                      !.out = d.m \in {2, 3}, !.thit = FALSE]
Half(n) == (n + 1) \div 2

-----------------------------------------------------------------------------
(* pit_load, pit_set_gate_no_timer and pit_over, by mode. *)

\* A new length starts the count if it is the first since the control word, in mode
\* 0 always, in mode 4 also when the strobe is over; otherwise it counts from the
\* next period on.
Starts(d) == CASE d.m = 0 -> TRUE
               [] d.m \in {2, 3} -> d.initial
               [] d.m = 4 -> d.initial \/ d.thit
               [] OTHER -> FALSE

Loaded(d) ==
  LET e == [d EXCEPT !.newcount = (d.m = 4 /\ ~Starts(d)), !.disabled = FALSE]
      n == CASE d.m = 2 -> Length(d) - 1 [] d.m = 3 -> Half(Length(d)) [] OTHER -> Length(d)
      f == IF Starts(d) THEN Begun(e, n) ELSE e
  IN  Settled([f EXCEPT !.initial = FALSE, !.enabled = IF d.m \in {1, 5} THEN TRUE ELSE d.gate])

\* The gate holds modes 0 and 4, triggers 1 and 5, and does both to 2 and 3.
Gated(d, gate) ==
  LET rising == gate /\ ~d.gate
      n == IF d.m = 3 THEN Half(Length(d)) ELSE Length(d)
      e == IF d.m \in {0, 4} THEN (IF d.running THEN d ELSE Timed(d, n))
           ELSE IF rising THEN Begun(d, n) ELSE d
      on == IF d.m \in {1, 5} THEN d.enabled \/ rising ELSE gate
  IN  IF d.disabled THEN [d EXCEPT !.gate = gate]
      ELSE Settled([e EXCEPT !.enabled = on, !.gate = gate])

\* timer_advance_u64: the next output change is due so long after this one was.  (What
\* the code adds to count meanwhile is left out: with a timer it is no count of anything.)
Advanced(d, n) ==
  IF d.using THEN [d EXCEPT !.on = TRUE, !.due = @ + n] ELSE [d EXCEPT !.count = (@ + n) % Modulus]

Overrun(d) == Advanced(d, Wrap - 1)

\* The count is over.
Over(d) ==
  IF d.disabled THEN Overrun(d)
  ELSE Settled(
    CASE d.m \in {0, 1} -> [Overrun(d) EXCEPT !.out = @ \/ ~d.thit, !.thit = TRUE]
      [] d.m = 2 -> [Advanced(d, Length(d)) EXCEPT !.out = TRUE]
      [] d.m = 3 -> [Advanced(d, IF d.out THEN Length(d) \div 2 ELSE Half(Length(d))) EXCEPT !.out = ~@]
      [] d.m = 4 /\ d.newcount -> [Advanced(d, Length(d)) EXCEPT !.out = @ \/ ~d.thit, !.newcount = FALSE]
      [] OTHER -> [Overrun(d) EXCEPT !.out = @ \/ ~d.thit, !.thit = TRUE])

\* (Mutant: the rate generator's output does not go low.)
PulsesStrobes(d) == ~d.disabled /\ d.m \in {4, 5} /\ ~d.thit

\* ... with a pulse, output low and high again.
Pulses(d) == ~d.disabled /\ (d.m = 2 \/ (d.m \in {4, 5} /\ ~d.thit))

\* pit_irq0_timer: a rising output requests the interrupt, a falling one withdraws it.
\* The other counters' outputs go elsewhere.
Becomes(d, pulse) ==
  /\ c' = d
  /\ request' = CASE nr # "tick" -> FALSE
                  [] nr = "tick" /\ (pulse \/ (d.out /\ ~c.out)) -> TRUE
                  [] nr = "tick" /\ c.out /\ ~d.out -> FALSE
                  [] OTHER -> request

-----------------------------------------------------------------------------
Init ==
  /\ nr \in Counters
  /\ c = [l |-> Wrap - 1, m |-> 0, count |-> 0, on |-> FALSE, due |-> 0,
          gate |-> nr \in {"tick", "refresh"}, using |-> nr # "watchdog",
          thit |-> nr \in {"tick", "watchdog"}, out |-> FALSE, running |-> FALSE, enabled |-> FALSE,
          newcount |-> FALSE, initial |-> FALSE, disabled |-> nr = "watchdog"]
  /\ port = [rl |-> "begun", rm |-> 0, wm |-> 0, reread |-> FALSE, latched |-> FALSE, status |-> FALSE]
  /\ request = FALSE

\* Time passes ...
Tick ==
  /\ c.on /\ c.due > -Late
  /\ c' = [c EXCEPT !.due = @ - 1]
  /\ UNCHANGED <<nr, port, request>>

\* ... and timer_process calls the timer that is due.
Fire ==
  /\ c.on /\ c.due <= 0
  /\ Becomes(Over([c EXCEPT !.on = FALSE]), Pulses(c))
  /\ UNCHANGED <<nr, port>>

\* Another counter's output clocks this one: the tick's rises the PCjr's, its falls
\* the watchdog.
Clock ==
  /\ nr \in {"refresh", "watchdog"} /\ ~c.using /\ ~c.thit /\ c.enabled
  /\ LET d == [c EXCEPT !.count = (@ - (IF c.m = 3 THEN 2 ELSE 1)) % Modulus]
     IN  IF d.count = 0 THEN Becomes(Over(d), Pulses(d)) ELSE Becomes(d, FALSE)
  /\ UNCHANGED <<nr, port>>

\* The gate: software has the speaker's, the tick's output opens the watchdog's.
SetGate(gate) ==
  /\ nr = "speaker" \/ (nr = "watchdog" /\ gate)
  /\ Becomes(Gated(c, gate), FALSE)
  /\ UNCHANGED <<nr, port>>

\* pit_set_using_timer, on the PCjr's counter 1.
Switched(using) ==
  LET running == c.enabled /\ using /\ ~c.disabled
      count == IF c.using /\ ~using THEN Shown(c) % Modulus ELSE c.count
      begins == ~c.using /\ running
  IN  [c EXCEPT !.count = count, !.running = running, !.using = using,
                !.on = begins \/ (c.on /\ running),
                !.due = IF begins THEN Signed(count) ELSE IF running THEN @ ELSE 0]

SetUsing(using) ==
  /\ nr = "refresh" /\ ~(c.on /\ c.due <= 0)      \* timer_process has been called
  /\ c' = Switched(using)
  /\ UNCHANGED <<nr, port, request>>

-----------------------------------------------------------------------------
(* pit_write and pit_read. *)

\* A control word.
WriteControl(w) ==
  /\ Becomes([c EXCEPT !.m = w.m, !.initial = TRUE, !.out = w.m # 0, !.disabled = TRUE,
                       !.thit = FALSE], FALSE)
  /\ port' = [port EXCEPT !.rm = w.rw, !.wm = w.rw, !.reread = TRUE]
  /\ UNCHANGED nr

\* (Mutant: a latch between two bytes does not start with the first again.)
LatchOnly ==
  /\ port' = [port EXCEPT !.rl = "new", !.reread = FALSE, !.latched = TRUE]
  /\ c' = [c EXCEPT !.thit = FALSE]
  /\ UNCHANGED <<nr, request>>

\* The latch command.
Latch ==
  /\ port' = [port EXCEPT !.rl = "new", !.rm = 3, !.reread = FALSE, !.latched = TRUE]
  /\ c' = [c EXCEPT !.thit = FALSE]
  /\ UNCHANGED <<nr, request>>

\* The 8254's read-back command, for the count and for the status.
ReadBack(count, status) ==
  /\ count \/ status
  /\ port' = [port EXCEPT !.rl = IF count THEN "again" ELSE @, !.status = @ \/ status]
  /\ UNCHANGED <<nr, c, request>>

\* A byte of the count's length; the last one loads it.
WriteByte(v) ==
  LET high == c.l \div Base
      low == c.l % Base
      l == CASE port.wm = 1 -> v [] port.wm = 2 -> v * Base
             [] port.wm = 0 -> low + v * Base [] port.wm = 3 -> high * Base + v
      d == [c EXCEPT !.l = l]
  IN  /\ IF port.wm = 3 THEN c' = d /\ UNCHANGED request ELSE Becomes(Loaded(d), FALSE)
      /\ port' = [port EXCEPT !.wm = CASE @ = 0 -> 3 [] @ = 3 -> 0 [] OTHER -> @]
      /\ UNCHANGED nr

\* A byte read: the status if one is waiting, else the next byte of the count.
ReadStatus ==
  /\ port.status /\ port' = [port EXCEPT !.status = FALSE]
  /\ UNCHANGED <<nr, c, request>>

ReadByte ==
  LET fresh == port.reread /\ ~port.latched
      low == port.rm = 3
  IN  /\ ~port.status
      /\ port' = [port EXCEPT !.rl = IF low THEN "begun" ELSE IF fresh THEN "new" ELSE @,
                              !.reread = ~low \/ (@ /\ ~fresh),
                              !.latched = @ /\ low,
                              !.rm = CASE @ = 3 -> 0 [] @ = 0 -> 3 [] OTHER -> @]
      /\ UNCHANGED <<nr, c, request>>

\* The processor takes the interrupt (Pic).
Taken ==
  /\ nr = "tick" /\ request /\ request' = FALSE
  /\ UNCHANGED <<nr, c, port>>

Next ==
  \/ Tick \/ Fire \/ Clock
  \/ \E b \in BOOLEAN : SetGate(b) \/ SetUsing(b)
  \/ \E w \in Words : WriteControl(w)
  \/ Latch \/ (\E x, y \in BOOLEAN : ReadBack(x, y))
  \/ \E v \in Bytes : WriteByte(v)
  \/ ReadStatus \/ ReadByte \/ Taken

Spec == Init /\ [][Next]_vars

\* Time goes on, and so does timer_process.
FairSpec == Spec /\ WF_vars(Tick) /\ WF_vars(Fire)

-----------------------------------------------------------------------------
Counter ==
  [l : 0..Wrap - 1, m : Modes, count : 0..Modulus - 1, on : BOOLEAN, due : Int,
   gate : BOOLEAN, using : BOOLEAN, thit : BOOLEAN, out : BOOLEAN, running : BOOLEAN,
   enabled : BOOLEAN, newcount : BOOLEAN, initial : BOOLEAN, disabled : BOOLEAN]

TypeOK ==
  /\ nr \in Counters /\ c \in Counter /\ request \in BOOLEAN
  /\ port \in [rl : {"new", "begun", "again"}, rm : 0..3, wm : 0..3, reread : BOOLEAN, latched : BOOLEAN,
               status : BOOLEAN]

\* No timer is left behind by a counter that is held, stopped or clocked, and one that
\* counts has its timer: it is started again wherever it was stopped.  (Modes 1 and 5
\* wait for their trigger without.)
TimerFollows ==
  /\ c.on => c.using /\ c.running
  /\ c.running /\ ~c.disabled /\ c.m \in {0, 2, 3, 4} => c.on

\* pit_dump_and_disable_timer: "This should be used when stopping a PIT timer, to ensure
\* the correct value can be read back".  It is in modes 0 and 4; in mode 2 the value
\* read back is one more, in mode 3 whatever count last was.
StopKeepsCount ==
  [][c.on /\ ~c'.on /\ ~c.disabled /\ c.m \notin {2, 3} => Shown(c') = Shown(c)]_vars

\* The two bytes of a count are of one moment, however the commands and the reads are
\* mixed; only the read-back command takes a new count between them.
ReadsAgree == port.rm = 0 => port.rl # "new" /\ (port.latched \/ ~port.reread)

\* The tick that a guest keeps its time by does not die: whatever is written, latched
\* and read, a counter in mode 2 or 3 that is running requests interrupt after interrupt.
TicksGoOn ==
  <>[](nr = "tick" /\ c.running /\ ~c.disabled /\ c.m \in {2, 3}) => []<>request
=============================================================================
