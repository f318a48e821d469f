------------------------- MODULE TimerServiceProofs -------------------------
(***************************************************************************)
(* Proofs about TimerService, for any set of timers, any longest delay, any *)
(* longest step and any of the CPU loops.                                   *)
(*                                                                         *)
(* WakeNeverLate is inductive with the types alone.  The bound on lateness  *)
(* is not: it needs to know how the slice still to run relates to the       *)
(* deadlines (CpuPhase), and that the permanent timers are armed whenever   *)
(* no callback of theirs is running (PermanentArmed), since an empty list   *)
(* makes timer_process return without looking at timer_target.              *)
(***************************************************************************)
EXTENDS TimerService, TLAPS

\* The permanent timers are armed, except before timer_add and in their callback.
PermanentArmed ==
  /\ pc = "boot" => Permanent \cap live \subseteq armed
  /\ pc \in {"cpu", "process"} => Permanent \subseteq armed
  /\ pc = "callback" => Permanent \ {cur} \subseteq armed

\* A timer is running exactly in its callback (or the list was emptied by it).
CurPhase ==
  /\ pc = "callback" => cur # NoTimer
  /\ pc \in {"boot", "cpu", "process"} => cur = NoTimer

\* Nothing is overdue while the machine is built.
BootPhase == pc = "boot" => wake >= 0 /\ \A t \in armed : left[t] >= 0

\* While the CPU runs, nothing is further behind than the slice has already run.
CpuPhase ==
  pc = "cpu" => /\ slice >= 1 /\ wake >= slice - LongestSlice
                /\ \A t \in armed : left[t] >= slice - LongestSlice

Ind ==
  /\ TypeOK /\ WakeNeverLate /\ wake <= MaxDelay /\ slice <= LongestSlice
  /\ BoundedLateness /\ PermanentArmed /\ CurPhase /\ BootPhase /\ CpuPhase

\* The assumptions on the constants, as facts the provers can cite.
LEMMA ConstantFacts ==
  /\ Permanent \subseteq Timers /\ Permanent # {}
  /\ MaxDelay \in Nat /\ MaxDelay > 0 /\ MaxStep \in Nat /\ MaxStep > 0
  /\ Exec386 \in BOOLEAN /\ Period \in Nat /\ Period > 0 /\ NoTimer \notin Timers
BY TimerServiceAssumption

\* The bounds are those of some loop.
LEMMA LoopFacts ==
  /\ LongestSlice \in Nat /\ LongestSlice >= 1
  /\ LateBound \in Nat /\ LateBound = MaxStep + LongestSlice - 1
BY ConstantFacts DEF LongestSlice, LateBound

\* The slice a loop begins with is never empty, and no longer than LongestSlice; in
\* exec386 it ends at most a cycle after timer_target.
LEMMA NextSlice ==
  ASSUME NEW w \in Int, 0 <= w, w <= MaxDelay, NEW over \in Int
  PROVE  /\ TopOfLoop(w, over) \in Int
         /\ 1 <= TopOfLoop(w, over) /\ TopOfLoop(w, over) <= LongestSlice
<1>1. CASE Exec386
  BY <1>1, ConstantFacts DEF TopOfLoop, LongestSlice
<1>2. CASE ~Exec386
  <2>1. (over - 1) % Period \in 0..Period - 1
    BY ConstantFacts
  <2>2. TopOfLoop(w, over) = ((over - 1) % Period) + 1 /\ LongestSlice = Period
    BY <1>2 DEF TopOfLoop, LongestSlice
  <2> HIDE DEF TopOfLoop
  <2> QED
    BY <2>1, <2>2, ConstantFacts
<1> QED
  BY <1>1, <1>2, ConstantFacts

\* Arming a timer no further ahead than MaxDelay, and not overdue beyond the
\* bound, keeps timer_target early and every armed deadline in range.
LEMMA ArmPreserves ==
  ASSUME Ind, NEW t \in live, NEW d \in Int, -LateBound <= d, d <= MaxDelay, Arm(t, d)
  PROVE  /\ armed' \subseteq live /\ left' \in [Timers -> Int] /\ wake' \in Int
         /\ \A u \in armed' : wake' <= left'[u]
         /\ wake' <= MaxDelay
         /\ \A u \in armed' : -LateBound <= left'[u] /\ left'[u] <= MaxDelay
         /\ \A u \in Timers : u # t => left'[u] = left[u]
         /\ left'[t] = d /\ armed \subseteq armed'
         /\ wake' = wake \/ wake' = d
<1>1. t \in Timers /\ live \subseteq Timers
  BY DEF Ind, TypeOK
<1>2. left' \in [Timers -> Int] /\ left'[t] = d /\ \A u \in Timers : u # t => left'[u] = left[u]
  BY <1>1 DEF Ind, TypeOK, Arm
<1>3. armed' \subseteq live /\ armed \subseteq armed' /\ armed' = armed \cup {t}
  BY DEF Ind, TypeOK, Arm
<1>4. wake' \in Int /\ (wake' = wake \/ wake' = d)
  BY DEF Ind, TypeOK, Arm
<1>5. \A u \in armed' : wake' <= left'[u]
  <2>1. CASE \A u \in armed \ {t} : d <= left[u]
    BY <2>1, <1>1, <1>2, <1>3 DEF Arm
  <2>2. CASE ~ \A u \in armed \ {t} : d <= left[u]
    <3>1. PICK v \in armed \ {t} : ~ (d <= left[v])
      BY <2>2
    <3>2. wake' = wake /\ wake <= left[v] /\ left[v] \in Int /\ wake \in Int
      BY <2>2, <1>1 DEF Arm, Ind, TypeOK, WakeNeverLate
    <3>3. wake' <= d
      BY <3>1, <3>2
    <3> QED
      BY <3>2, <3>3, <1>1, <1>2, <1>3 DEF Ind, TypeOK, WakeNeverLate
  <2> QED
    BY <2>1, <2>2
<1> QED
  BY <1>1, <1>2, <1>3, <1>4, <1>5, ConstantFacts, LoopFacts DEF Ind, BoundedLateness, TypeOK

\* No step puts anything but a timer among those re-armed without a delay.
LEMMA RearmTypes ==
  ASSUME Ind, Next
  PROVE  still' \subseteq Timers /\ kicked' \subseteq Timers
<1>1. still \subseteq Timers /\ kicked \subseteq Timers /\ (pc = "callback" => cur \in Timers)
  BY DEF Ind, TypeOK
<1>2. CASE \E d \in 0..MaxDelay : Advance(d)
  BY <1>1, <1>2 DEF Advance
<1>3. CASE \E t \in Timers, d \in 0..MaxDelay : SetDelay(t, d)
  BY <1>1, <1>3 DEF SetDelay
<1>4. CASE Settle
  BY <1>4 DEF Settle
<1>5. QED
  BY <1>1, <1>2, <1>3, <1>4
     DEF Next, Add, Disable, Return, StartMachine, Run, Poll, Fire, Reset, rearmVars

\* The initial state satisfies the invariant.
LEMMA InitInd == Init => Ind
BY ConstantFacts, LoopFacts DEF Init, Ind, TypeOK, Pcs, WakeNeverLate, BoundedLateness,
   PermanentArmed, CurPhase, BootPhase, CpuPhase

\* Device code, wherever it runs, keeps the invariant.
LEMMA DeviceStep ==
  ASSUME Ind,
         \/ \E t \in Timers, start \in BOOLEAN : Add(t, start)
         \/ \E t \in Timers, d \in 0..MaxDelay : SetDelay(t, d)
         \/ \E t \in Timers : Disable(t)
         \/ \E d \in 0..MaxDelay : Advance(d)
  PROVE  Ind'
<1>r. still' \subseteq Timers /\ kicked' \subseteq Timers
  BY RearmTypes DEF Next
<1> USE ConstantFacts, LoopFacts, <1>r
<1>0. -LateBound <= 0 /\ LateBound \in Int
  OBVIOUS
<1>1. ASSUME NEW t \in Timers, NEW start \in BOOLEAN, Add(t, start)
      PROVE  Ind'
  <2>1. CASE ~start
    BY <1>1, <2>1 DEF Add, Ind, TypeOK, Pcs, WakeNeverLate, BoundedLateness,
       PermanentArmed, CurPhase, BootPhase, CpuPhase
  <2>2. CASE start
    <3>1. pc = "boot" /\ pc' = "boot" /\ cur' = cur /\ cur = NoTimer /\ slice' = slice
          /\ live' = live \cup {t} /\ Arm(t, 0)
      BY <1>1, <2>2 DEF Add, Ind, CurPhase
    <3>2. armed' = armed \cup {t} /\ left' = [left EXCEPT ![t] = 0] /\ (wake' = wake \/ wake' = 0)
      BY <3>1 DEF Arm
    <3>3. \A u \in armed : 0 <= left[u] /\ wake <= left[u] /\ wake >= 0
      BY <3>1 DEF Ind, BootPhase, WakeNeverLate
    <3>4. wake' \in Int /\ wake' >= 0 /\ wake' <= MaxDelay /\ \A u \in armed' : wake' <= left'[u]
      <4>1. wake' = 0
        BY <3>1, <3>3 DEF Arm, Ind, TypeOK
      <4> QED
        BY <4>1, <3>2, <3>3 DEF Ind, TypeOK
    <3> QED
      BY <3>1, <3>2, <3>3, <3>4, <1>0 DEF Ind, TypeOK, Pcs, WakeNeverLate, BoundedLateness,
         PermanentArmed, CurPhase, BootPhase, CpuPhase
  <2> QED
    BY <2>1, <2>2
<1>2. ASSUME NEW t \in Timers, NEW d \in 0..MaxDelay, SetDelay(t, d)
      PROVE  Ind'
  <2>1. t \in live /\ d \in Int /\ -LateBound <= d /\ d <= MaxDelay /\ d >= 0 /\ Arm(t, d)
        /\ UNCHANGED <<live, slice, pc, cur>> /\ t \notin Permanent
        /\ pc \in {"boot", "cpu", "callback"}
    BY <1>2, <1>0 DEF SetDelay, DevicesRun
  <2>2. /\ armed' \subseteq live /\ left' \in [Timers -> Int] /\ wake' \in Int
        /\ \A u \in armed' : wake' <= left'[u]
        /\ wake' <= MaxDelay
        /\ \A u \in armed' : -LateBound <= left'[u] /\ left'[u] <= MaxDelay
        /\ \A u \in Timers : u # t => left'[u] = left[u]
        /\ left'[t] = d /\ armed \subseteq armed'
        /\ wake' = wake \/ wake' = d
    BY <2>1, ArmPreserves
  <2>3. armed' = armed \cup {t}
    BY <2>1 DEF Arm
  <2>4. TypeOK' /\ WakeNeverLate' /\ wake' <= MaxDelay /\ slice' <= LongestSlice /\ CurPhase' /\ PermanentArmed'
    BY <2>1, <2>2 DEF Ind, TypeOK, Pcs, WakeNeverLate, CurPhase, PermanentArmed
  <2>5. BoundedLateness'
    BY <2>1, <2>2, <1>0 DEF Ind, TypeOK, BoundedLateness
  <2>6. BootPhase' /\ CpuPhase'
    BY <2>1, <2>2, <2>3 DEF Ind, TypeOK, BootPhase, CpuPhase
  <2> QED
    BY <2>4, <2>5, <2>6 DEF Ind
<1>3. ASSUME NEW t \in Timers, Disable(t)
      PROVE  Ind'
  BY <1>3 DEF Disable, DevicesRun, Ind, TypeOK, Pcs, WakeNeverLate, BoundedLateness,
     PermanentArmed, CurPhase, BootPhase, CpuPhase
<1>4. ASSUME NEW d \in 0..MaxDelay, Advance(d)
      PROVE  Ind'
  <2>1. cur \in live /\ cur # NoTimer /\ cur \in Timers /\ left[cur] \in Int /\ pc = "callback"
        /\ UNCHANGED <<live, slice, pc, cur>>
    BY <1>4 DEF Advance, Ind, TypeOK, CurPhase
  <2>2. -LateBound <= left[cur] + d /\ left[cur] + d <= MaxDelay /\ left[cur] + d \in Int
        /\ Arm(cur, left[cur] + d)
    BY <1>4, <2>1, <1>0 DEF Advance, Ind, BoundedLateness
  <2>3. /\ armed' \subseteq live /\ left' \in [Timers -> Int] /\ wake' \in Int
        /\ \A u \in armed' : wake' <= left'[u]
        /\ wake' <= MaxDelay
        /\ \A u \in armed' : -LateBound <= left'[u] /\ left'[u] <= MaxDelay
        /\ left'[cur] = left[cur] + d /\ armed \subseteq armed'
    BY <2>1, <2>2, ArmPreserves
  <2> QED
    BY <2>1, <2>2, <2>3, <1>0 DEF Ind, TypeOK, Pcs, WakeNeverLate, BoundedLateness,
       PermanentArmed, CurPhase, BootPhase, CpuPhase
<1> QED
  BY <1>1, <1>2, <1>3, <1>4 DEF Ind

\* The CPU running keeps the invariant: the slice bounds how late a timer gets.
LEMMA RunStep ==
  ASSUME Ind, NEW c \in 1..MaxStep, Run(c)
  PROVE  Ind'
<1>r. still' \subseteq Timers /\ kicked' \subseteq Timers
  BY RearmTypes DEF Next
<1> USE ConstantFacts, LoopFacts, <1>r
<1>1. /\ pc = "cpu" /\ cur = NoTimer /\ cur' = cur /\ live' = live /\ armed' = armed
      /\ Permanent \subseteq armed /\ armed # {}
      /\ wake' = wake - c /\ wake \in Int /\ slice \in Int /\ c >= 1 /\ c <= MaxStep /\ c \in Int
      /\ armed \subseteq Timers
  BY DEF Run, Ind, TypeOK, PermanentArmed, CurPhase
<1>2. \A t \in armed : left'[t] = left[t] - c /\ left[t] \in Int
  BY <1>1 DEF Run, Ind, TypeOK
<1>3. pc' \in {"cpu", "process"} /\ left' \in [Timers -> Int]
  BY <1>1 DEF Run, Ind, TypeOK
<1>4. CASE slice - c <= 0 /\ ~Due(wake - c)
  <2>1. wake - c > 0 /\ wake - c <= MaxDelay /\ slice' = TopOfLoop(wake - c, slice - c)
    BY <1>1, <1>4 DEF Run, Due, Ind
  <2>2. slice' \in Int /\ 1 <= slice' /\ slice' <= LongestSlice
    BY <1>1, <2>1, NextSlice
  <2>3. \A t \in armed : left'[t] > 0
    BY <1>1, <1>2, <2>1 DEF Ind, WakeNeverLate
  <2> QED
    BY <1>1, <1>2, <1>3, <2>1, <2>2, <2>3 DEF Ind, TypeOK, Pcs, WakeNeverLate, BoundedLateness,
       PermanentArmed, CurPhase, BootPhase, CpuPhase
<1>5. CASE ~(slice - c <= 0 /\ ~Due(wake - c))
  <2>1. slice' = slice - c /\ (pc' = "cpu" => slice' >= 1)
    BY <1>1, <1>5 DEF Run
  <2>2. TypeOK' /\ WakeNeverLate' /\ wake' <= MaxDelay /\ slice' <= LongestSlice
        /\ PermanentArmed' /\ CurPhase' /\ BootPhase'
    BY <1>1, <1>2, <1>3, <2>1 DEF Ind, TypeOK, Pcs, WakeNeverLate, PermanentArmed, CurPhase, BootPhase
  <2>3. BoundedLateness' /\ CpuPhase'
    BY <1>1, <1>2, <2>1 DEF Ind, TypeOK, BoundedLateness, CpuPhase
  <2> QED
    BY <2>2, <2>3 DEF Ind
<1> QED
  BY <1>4, <1>5

\* timer_process and the machine's start and reset keep the invariant.
LEMMA ProcessStep ==
  ASSUME Ind, Return \/ StartMachine \/ Poll \/ (\E t \in Timers : Fire(t)) \/ Settle \/ Reset
  PROVE  Ind'
<1>r. still' \subseteq Timers /\ kicked' \subseteq Timers
  BY RearmTypes DEF Next
<1> USE ConstantFacts, LoopFacts, <1>r
<1>1. CASE Return
  BY <1>1 DEF Return, Ind, TypeOK, Pcs, WakeNeverLate, BoundedLateness,
     PermanentArmed, CurPhase, BootPhase, CpuPhase
<1>2. CASE StartMachine
  <2>1. pc = "boot" /\ pc' = "cpu" /\ slice' = TopOfLoop(wake, 0) /\ Permanent \subseteq armed
        /\ UNCHANGED <<live, armed, left, wake, cur>> /\ wake \in Int /\ wake >= 0 /\ wake <= MaxDelay
    BY <1>2 DEF StartMachine, Ind, TypeOK, PermanentArmed, BootPhase
  <2>2. slice' \in Int /\ 1 <= slice' /\ slice' <= LongestSlice
    BY <2>1, NextSlice
  <2> QED
    BY <2>1, <2>2 DEF Ind, TypeOK, Pcs, WakeNeverLate, BoundedLateness,
       PermanentArmed, CurPhase, BootPhase, CpuPhase
<1>6. CASE Poll
  BY <1>6 DEF Poll, Ind, TypeOK, Pcs, WakeNeverLate, BoundedLateness,
     PermanentArmed, CurPhase, BootPhase, CpuPhase
<1>3. ASSUME NEW t \in Timers, Fire(t)
      PROVE  Ind'
  BY <1>3 DEF Fire, Ind, TypeOK, Pcs, WakeNeverLate, BoundedLateness,
     PermanentArmed, CurPhase, BootPhase, CpuPhase
<1>4. CASE Settle
  <2>1. pc = "process" /\ armed # {} /\ cur = NoTimer /\ UNCHANGED <<live, armed, left, cur>>
        /\ \A t \in armed : left[t] > 0 /\ left[t] \in Int /\ left[t] <= MaxDelay
    BY <1>4 DEF Settle, Ind, TypeOK, PermanentArmed, CurPhase, BoundedLateness
  <2>2. PICK t \in armed : (\A u \in armed : left[t] <= left[u]) /\ wake' = left[t]
    BY <1>4, <2>1 DEF Settle
  <2>3. slice' = (IF slice <= 0 THEN TopOfLoop(wake', slice) ELSE slice) /\ pc' = "cpu"
    BY <1>4, <2>1 DEF Settle
  <2>4. wake' \in Int /\ 0 < wake' /\ wake' <= MaxDelay /\ slice \in Int /\ slice <= LongestSlice
    BY <2>1, <2>2 DEF Ind, TypeOK
  <2>5. slice' \in Int /\ 1 <= slice' /\ slice' <= LongestSlice
    BY <2>3, <2>4, NextSlice
  <2> QED
    BY <2>1, <2>2, <2>3, <2>4, <2>5 DEF Ind, TypeOK, Pcs, WakeNeverLate, BoundedLateness,
       PermanentArmed, CurPhase, BootPhase, CpuPhase
<1>5. CASE Reset
  BY <1>5 DEF Reset, Ind, TypeOK, Pcs, WakeNeverLate, BoundedLateness,
     PermanentArmed, CurPhase, BootPhase, CpuPhase
<1> QED
  BY <1>1, <1>2, <1>3, <1>4, <1>5, <1>6

\* The invariant holds in every state.
THEOREM Invariance == Spec => []Ind
<1>1. Ind /\ [Next]_vars => Ind'
  <2>1. Ind /\ UNCHANGED vars => Ind'
    BY DEF vars, Ind, TypeOK, Pcs, WakeNeverLate, BoundedLateness,
       PermanentArmed, CurPhase, BootPhase, CpuPhase
  <2> QED
    BY <2>1, DeviceStep, RunStep, ProcessStep DEF Next
<1> QED
  BY InitInd, <1>1, PTL DEF Spec

\* Type correctness of the abstract timer service.
THEOREM TypeCorrect == Spec => []TypeOK
BY Invariance, PTL DEF Ind

\* timer_target never lies after an enabled timer's deadline (timer.h: it is the
\* "timestamp of nearest enabled timer"), whatever devices arm and disarm.
THEOREM TargetEarly == Spec => []WakeNeverLate
BY Invariance, PTL DEF Ind

\* No timer is served later than LateBound nor lies further ahead than MaxDelay: the
\* span of the deadlines timer_enable compares, hence that half of the 32-bit range
\* suffices when LateBound + MaxDelay is less than it.
THEOREM LatenessBounded == Spec => []BoundedLateness
BY Invariance, PTL DEF Ind

\* A CPU loop that looks at timer_target always executes an instruction before it
\* looks again, so none of them can spin.
THEOREM InterpreterRuns == Spec => []SliceRuns
<1>1. Ind => SliceRuns
  BY DEF Ind, CpuPhase, SliceRuns
<1> QED
  BY <1>1, Invariance, PTL

\* timer_remove_head never dereferences a null list head in a machine that has two
\* timers whose callbacks re-arm them.
THEOREM ListNeverEmpties == Spec => []NeverEmpty
<1>1. Init => NeverEmpty
  BY DEF Init, NeverEmpty
<1>2. Ind /\ NeverEmpty /\ [Next]_vars => NeverEmpty'
  <2> SUFFICES ASSUME Ind, NeverEmpty, [Next]_vars, NEW p \in Permanent, NEW q \in Permanent, p # q
               PROVE  pc' # "crash"
    BY DEF NeverEmpty
  <2>0. pc # "crash"
    BY DEF NeverEmpty
  <2>1. CASE \E t \in Timers : Fire(t)
    BY <2>1 DEF Ind, PermanentArmed, Fire
  <2>2. CASE Settle
    BY <2>2 DEF Ind, PermanentArmed, Settle
  <2>3. CASE UNCHANGED vars
    BY <2>0, <2>3 DEF vars
  <2> QED
    BY <2>0, <2>1, <2>2, <2>3 DEF Next, Add, SetDelay, Disable, Advance, Return, StartMachine, Run, Poll, Reset
<1> QED
  BY <1>1, <1>2, Invariance, PTL DEF Spec

\* A loop whose slices last one cycle (execx86, which looks at timer_target after
\* every bus cycle) never starts another one past timer_target.
THEOREM BusLoopHonoursTarget ==
  ASSUME ~Exec386, Period = 1
  PROVE  Spec => []TargetHonoured
<1>1. Ind => TargetHonoured
  BY DEF Ind, TypeOK, CpuPhase, TargetHonoured, LongestSlice
<1> QED
  BY <1>1, Invariance, PTL

-----------------------------------------------------------------------------
(* The loop of timer_process. *)

\* timer_process is at work: it has not returned to the CPU loop.
Serving == pc \in {"process", "callback"}

\* How many cycles timer t is behind, counting the present one.
Behind(t) == IF t \in armed \/ t = cur THEN 1 - left[t] ELSE 0

\* How often timer_process may still turn to timer t: twice for every cycle it is behind,
\* since every other advance may be by nothing, and twice more if a callback may still
\* set it to go off at once.  A turn begun, or an advance by nothing, is one gone.
Turns(t) ==
  (IF Behind(t) > 0
   THEN 2 * Behind(t) - (IF t \in armed THEN 0 ELSE 1) - (IF t \in still THEN 1 ELSE 0)
   ELSE 0)
  + (IF t \in kicked THEN 0 ELSE 2)

\* Nothing a callback does gives any timer more turns, and each turn uses one up.
TurnsShorten ==
  [][Serving /\ Serving' => \A t \in Timers : /\ Turns(t)' <= Turns(t)
                                             /\ cur' = t /\ cur # t => Turns(t)' < Turns(t)]_vars

\* timer_process turns to no timer more than 2 * LateBound + 4 times.
TurnsBounded == Serving => \A t \in Timers : Turns(t) \in 0..2 * LateBound + 4

\* Every step that can happen inside timer_process, a device's included.
LEMMA TurnsFewer ==
  ASSUME Ind, Serving, Serving', [Next]_vars, NEW t \in Timers
  PROVE  Turns(t)' <= Turns(t) /\ (cur' = t /\ cur # t => Turns(t)' < Turns(t))
<1>1. /\ left \in [Timers -> Int] /\ left[t] \in Int /\ armed \subseteq Timers
      /\ cur \in Timers \cup {NoTimer} /\ (pc = "callback" => cur \in Timers)
      /\ (pc = "process" => cur = NoTimer) /\ NoTimer \notin Timers
  BY ConstantFacts DEF Ind, TypeOK, CurPhase
<1>2. CASE \E u \in Timers, d \in 0..MaxDelay : SetDelay(u, d)
  <2>1. PICK u \in Timers, d \in 0..MaxDelay : SetDelay(u, d) BY <1>2
  <2>2. /\ d \in Int /\ d >= 0 /\ cur' = cur /\ armed' = armed \cup {u}
        /\ left' = [left EXCEPT ![u] = d] /\ still' = still \ {u}
        /\ d = 0 => u \notin kicked /\ kicked' = kicked \cup {u}
        /\ d > 0 => kicked' = kicked
    BY <2>1, ConstantFacts DEF SetDelay, Arm, Serving, DevicesRun
  <2>3. left'[t] = IF t = u THEN d ELSE left[t] BY <1>1, <2>2
  <2>4. Turns(t)' <= Turns(t)
    <3>1. CASE t = u BY <1>1, <2>2, <2>3, <3>1 DEF Turns, Behind
    <3>2. CASE t # u BY <1>1, <2>2, <2>3, <3>2 DEF Turns, Behind
    <3>3. QED BY <3>1, <3>2
  <2>5. QED BY <2>2, <2>4
<1>3. CASE \E u \in Timers : Disable(u)
  <2>1. PICK u \in Timers : Disable(u) BY <1>3
  <2>2. /\ cur' = cur /\ armed' = armed \ {u} /\ still' = still /\ kicked' = kicked
        /\ left' = (IF u = cur THEN left ELSE [left EXCEPT ![u] = 0])
    BY <2>1 DEF Disable, rearmVars
  <2>3. left'[t] = IF t = u /\ u # cur THEN 0 ELSE left[t] BY <1>1, <2>2
  <2>4. QED BY <1>1, <2>2, <2>3 DEF Turns, Behind
<1>4. CASE \E d \in 0..MaxDelay : Advance(d)
  BY <1>1, <1>4 DEF Serving, Advance, Arm, Turns, Behind
<1>5. CASE Return
  BY <1>1, <1>5 DEF Serving, Return, Turns, Behind, rearmVars
<1>6. CASE \E u \in Timers : Fire(u)
  BY <1>1, <1>6 DEF Serving, Fire, Turns, Behind, rearmVars
<1>7. CASE UNCHANGED vars
  BY <1>1, <1>7 DEF vars, Turns, Behind
<1>8. QED
  BY <1>2, <1>3, <1>4, <1>5, <1>6, <1>7
     DEF Next, Serving, Add, StartMachine, Run, Poll, Settle, Reset

\* timer_process comes to an end: its loop goes on while a timer is due, and callbacks
\* re-arm their own timers, in the past and by nothing too, and start and stop one another,
\* at once too; but none of this makes any timer due more often than it was when the loop
\* began, as long as not both halves of a period are nothing and a command is done once.
THEOREM ServiceEnds == Spec => TurnsShorten
<1>1. Ind /\ [Next]_vars =>
        [Serving /\ Serving' => \A t \in Timers : /\ Turns(t)' <= Turns(t)
                                                 /\ cur' = t /\ cur # t => Turns(t)' < Turns(t)]_vars
  BY TurnsFewer
<1>2. QED BY <1>1, Invariance, PTL DEF Spec, TurnsShorten

\* How soon it ends: no timer's callback is run more than 2 * LateBound + 4 times by one
\* call.
THEOREM ServiceBounded == Spec => []TurnsBounded
<1>1. Ind => TurnsBounded
  BY LoopFacts, ConstantFacts DEF Ind, TypeOK, CurPhase, BoundedLateness, TurnsBounded, Turns, Behind, Serving
<1>2. QED BY <1>1, Invariance, PTL
=============================================================================
