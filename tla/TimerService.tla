---------------------------- MODULE TimerService ----------------------------
(***************************************************************************)
(* What timer.c promises to the devices and to the CPU loops of PCem,       *)
(* without the linked list and without 32-bit time stamps.                  *)
(*                                                                         *)
(* A device timer (pc_timer_t) is armed or not; an armed timer has a        *)
(* deadline, kept here as the CPU cycles LEFT until then: negative once it  *)
(* is overdue.  wake is the same distance for timer_target, the only thing  *)
(* a CPU loop looks at.  Everything runs in one thread, the emulation       *)
(* thread: a device arms or disarms timers while an instruction runs        *)
(* (pc = "cpu"), inside a timer callback (pc = "callback") or while the     *)
(* machine is being built (pc = "boot").                                    *)
(*                                                                         *)
(* Three CPU loops exist; each runs for a slice of cycles and then compares *)
(* timer_target with the TSC.  The slice of exec386, the 386 interpreter,   *)
(* lasts until timer_target as it was when the slice began; that of         *)
(* exec386_dynarec is five microseconds, whatever timer_target is; the 808x *)
(* loop looks after every bus cycle, which is a slice of one.               *)
(***************************************************************************)
EXTENDS Integers

CONSTANTS
  Timers,     (* every pc_timer_t of the machine                              *)
  Permanent,  (* those whose callback always re-arms them: sound_poll_timer,  *)
              (* the keyboard's send_delay_timer, the video card's timer      *)
  MaxDelay,   (* the longest delay a device asks for, in cycles               *)
  MaxStep,    (* the most cycles one instruction or one block takes           *)
  Exec386,    (* TRUE: exec386; FALSE: exec386_dynarec or execx86 ...         *)
  Period,     (* ... with slices of that many cycles: 5 us, or 1              *)
  NoTimer

ASSUME TimerServiceAssumption ==
  /\ Permanent \subseteq Timers /\ Permanent # {}
  /\ MaxDelay \in Nat \ {0}
  /\ MaxStep \in Nat \ {0}
  /\ Exec386 \in BOOLEAN
  /\ Period \in Nat \ {0}
  /\ NoTimer \notin Timers

VARIABLES
  live,   (* timers timer_add has initialised since the last timer_reset *)
  armed,  (* the enabled timers                                          *)
  left,   (* cycles until each armed timer's deadline                    *)
  wake,   (* cycles until timer_target                                   *)
  slice,  (* what is left of the CPU loop's slice                        *)
  pc,
  cur,    (* the timer whose callback is running                         *)
  still,  (* in timer_process: timers whose last advance was by nothing  *)
  kicked  (* ... and those a callback has set to go off at once          *)

rearmVars == <<still, kicked>>
vars == <<live, armed, left, wake, slice, pc, cur, still, kicked>>

Pcs == {"boot", "cpu", "process", "callback", "crash"}

-----------------------------------------------------------------------------
Init ==
  /\ live = {} /\ armed = {}
  /\ left = [t \in Timers |-> 0]
  /\ wake = 0 /\ slice = 0
  /\ pc = "boot" /\ cur = NoTimer
  /\ still = {} /\ kicked = {}

\* Device code may run: it may start and stop timers.
DevicesRun == pc \in {"boot", "cpu", "callback"}

\* (Mutant: timer_target is set only for the first timer of an empty list.)
ArmLeavesTarget(t, d) ==
  /\ armed' = armed \cup {t}
  /\ left' = [left EXCEPT ![t] = d]
  /\ wake' = IF armed \subseteq {t} THEN d ELSE wake

\* timer_enable: the timer joins the armed ones; timer_target follows only when
\* the new timer is the first to expire.
Arm(t, d) ==
  /\ armed' = armed \cup {t}
  /\ left' = [left EXCEPT ![t] = d]
  /\ wake' = IF \A u \in armed \ {t} : d <= left[u] THEN d ELSE wake

\* timer_add, which also starts the timer when start is set (zero delay).
Add(t, start) ==
  /\ pc = "boot" /\ t \notin live
  /\ t \in Permanent => start
  /\ live' = live \cup {t}
  /\ IF start THEN Arm(t, 0) ELSE UNCHANGED <<armed, left, wake>>
  /\ UNCHANGED <<slice, pc, cur, rearmVars>>

\* timer_set_delay_u64, for no delay at all too: scsi_cd.c sets its timer to what is
\* left over after whole milliseconds, from the callback of an IDE or SCSI host too.
\* No guest code runs in timer_process, so a callback does this once per command.
SetDelay(t, d) ==
  /\ DevicesRun /\ t \in live \ Permanent
  /\ pc = "callback" /\ d = 0 => t \notin kicked
  /\ kicked' = IF pc = "callback" /\ d = 0 THEN kicked \cup {t} ELSE kicked
  /\ still' = still \ {t}
  /\ Arm(t, d)
  /\ UNCHANGED <<live, slice, pc, cur>>

\* timer_disable: timer_target is left as it was.
Disable(t) ==
  /\ DevicesRun /\ t \in live \ Permanent
  /\ armed' = armed \ {t}
  /\ left' = IF t = cur THEN left ELSE [left EXCEPT ![t] = 0]
  /\ UNCHANGED <<live, wake, slice, pc, cur, rearmVars>>

\* timer_advance_u64, in the timer's own callback: the next deadline is counted
\* from the one that just expired.  No callback advances a deadline it has set anew.
\* Half a period may be nothing (pit.c:297, a square wave of length 1; a display line
\* without a blank part), both halves may not.
Advance(d) ==
  /\ pc = "callback" /\ cur \notin armed /\ left[cur] <= 0
  /\ d = 0 => cur \notin still
  /\ still' = IF d = 0 THEN still \cup {cur} ELSE still \ {cur}
  /\ Arm(cur, left[cur] + d)
  /\ UNCHANGED <<live, slice, pc, cur, kicked>>

\* (Mutant: a self-rearming device's callback forgets to.)
ReturnUnarmed ==
  /\ pc = "callback"
  /\ pc' = "process" /\ cur' = NoTimer
  /\ left' = IF cur \in armed THEN left ELSE [left EXCEPT ![cur] = 0]
  /\ UNCHANGED <<live, armed, wake, slice, rearmVars>>

\* The callback returns into timer_process.
Return ==
  /\ pc = "callback"
  /\ cur \in Permanent => cur \in armed
  /\ pc' = "process" /\ cur' = NoTimer
  /\ left' = IF cur \in armed THEN left ELSE [left EXCEPT ![cur] = 0]
  /\ UNCHANGED <<live, armed, wake, slice, rearmVars>>

-----------------------------------------------------------------------------
\* (Mutants: the period is one cycle short, or a whole instruction too long.)
TopOfLoopShort(w, over) == IF Exec386 THEN w ELSE ((over - 1) % Period) + 1
TopOfLoopLong(w, over) == IF Exec386 THEN w + 1 + MaxStep ELSE ((over - 1) % Period) + 1

\* The next slice, the last one having ended over cycles past (over <= 0): exec386's
\* cycle_period, or the cycles the other loops add (more than once if a block took
\* longer than a period).
TopOfLoop(w, over) == IF Exec386 THEN w + 1 ELSE ((over - 1) % Period) + 1

\* The machine is built and the CPU loop is entered.
StartMachine ==
  /\ pc = "boot" /\ Permanent \subseteq live
  /\ pc' = "cpu" /\ slice' = TopOfLoop(wake, 0)
  /\ UNCHANGED <<live, armed, left, wake, cur, rearmVars>>

\* The loop compares timer_target with the TSC and calls timer_process, which
\* returns at once when the list is empty.
Due(w) == w <= 0 /\ armed # {}

\* An instruction (a block, a bus cycle) ends after c cycles; only if the slice is
\* used up does the loop look at timer_target.
Run(c) ==
  /\ pc = "cpu"
  /\ left' = [t \in Timers |-> IF t \in armed THEN left[t] - c ELSE left[t]]
  /\ wake' = wake - c
  /\ pc' = IF slice - c <= 0 /\ Due(wake - c) THEN "process" ELSE "cpu"
  /\ slice' = IF slice - c <= 0 /\ ~Due(wake - c)
              THEN TopOfLoop(wake - c, slice - c) ELSE slice - c
  /\ UNCHANGED <<live, armed, cur, rearmVars>>

\* The keyboard controllers of XT-class machines and pit_set_using_timer call
\* timer_process from a port write, without looking at timer_target.
Poll ==
  /\ pc = "cpu" /\ armed # {}
  /\ pc' = "process"
  /\ UNCHANGED <<live, armed, left, wake, slice, cur, rearmVars>>

\* timer_process takes the first due timer off the list and calls it.  Taking
\* the last timer off dereferences a null timer_head.
Fire(t) ==
  /\ pc = "process" /\ t \in armed
  /\ left[t] <= 0 /\ \A u \in armed : left[t] <= left[u]
  /\ armed' = armed \ {t} /\ cur' = t
  /\ pc' = IF armed = {t} THEN "crash" ELSE "callback"
  /\ UNCHANGED <<live, left, wake, slice, rearmVars>>

\* timer_process returns: nothing is due, timer_target is the first deadline.  The
\* caller goes on with its slice, or with the next one if that was used up.
Settle ==
  /\ pc = "process" /\ \A t \in armed : left[t] > 0
  /\ IF armed = {}
     THEN pc' = "crash" /\ UNCHANGED <<wake, slice>>
     ELSE /\ \E t \in armed : (\A u \in armed : left[t] <= left[u]) /\ wake' = left[t]
          /\ slice' = IF slice <= 0 THEN TopOfLoop(wake', slice) ELSE slice
          /\ pc' = "cpu"
  /\ still' = {} /\ kicked' = {}
  /\ UNCHANGED <<live, armed, left, cur>>

\* timer_reset, from resetpchard: the old devices are gone.
Reset ==
  /\ pc = "cpu"
  /\ live' = {} /\ armed' = {} /\ left' = [t \in Timers |-> 0]
  /\ wake' = 0 /\ slice' = 0 /\ pc' = "boot"
  /\ UNCHANGED <<cur, rearmVars>>

Next ==
  \/ \E t \in Timers, start \in BOOLEAN : Add(t, start)
  \/ \E t \in Timers, d \in 0..MaxDelay : SetDelay(t, d)
  \/ \E t \in Timers : Disable(t)
  \/ \E d \in 0..MaxDelay : Advance(d)
  \/ Return
  \/ StartMachine
  \/ \E c \in 1..MaxStep : Run(c)
  \/ Poll
  \/ \E t \in Timers : Fire(t)
  \/ Settle
  \/ Reset

Spec == Init /\ [][Next]_vars

-----------------------------------------------------------------------------
\* The state is well typed; only armed timers and the running one have time left.
TypeOK ==
  /\ live \subseteq Timers /\ armed \subseteq live
  /\ left \in [Timers -> Int]
  /\ wake \in Int /\ slice \in Int
  /\ pc \in Pcs
  /\ cur \in Timers \cup {NoTimer}
  /\ still \subseteq Timers /\ kicked \subseteq Timers
  /\ pc = "callback" => cur \in live

\* timer_target is never later than any enabled timer's deadline, although
\* timer_disable leaves it alone and timer_enable updates it only at the head.
WakeNeverLate == \A t \in armed : wake <= left[t]

\* How overdue a timer may get before timer_process runs its callback: the rest of
\* a slice begun before the timer was armed, and the block that ends it.
LongestSlice == IF Exec386 THEN MaxDelay + 1 ELSE Period
LateBound == MaxStep + LongestSlice - 1

\* No timer waits longer than that, and none lies more than MaxDelay ahead, so
\* the deadlines compared with one another span at most LateBound + MaxDelay.
BoundedLateness ==
  \A t \in armed \cup ({cur} \ {NoTimer}) : -LateBound <= left[t] /\ left[t] <= MaxDelay

\* A CPU loop always runs an instruction per slice: in exec386 the slice computed
\* from timer_target is never empty, so its outer loop cannot spin.
SliceRuns == pc = "cpu" => slice >= 1

\* With two timers that re-arm themselves timer_remove_head never empties the list.
NeverEmpty == (\E p, q \in Permanent : p # q) => pc # "crash"

\* timer.h: the CPU calls timer_process when the TSC matches or exceeds
\* timer_target; stated as: no instruction starts past timer_target.
TargetHonoured == pc = "cpu" => wake >= 0
=============================================================================
