------------------------- MODULE EmuLifecycleProofs -------------------------
(***************************************************************************)
(* For any number of emulation threads and queued power-offs: stopping the  *)
(* first machine joins its thread, and a machine that the application takes *)
(* to be running has a thread to run it.                                    *)
(***************************************************************************)
EXTENDS EmuLifecycle, TLAPS

\* Before the first boot there is nothing; after it there is one thread, and the
\* event is set only when that thread is gone.
OneLife ==
  /\ boots = 0 => /\ \A t \in Threads : thr[t] = "none"
                  /\ ~done /\ ~running /\ ui \notin {"join", "flush"}
  /\ boots = 1 => /\ \A t, u \in Threads : thr[t] # "none" /\ thr[u] # "none" => t = u
                  /\ done => \A t \in Threads : thr[t] = "none"
  /\ ui = "flush" => done

Life == TypeOK /\ OneLife /\ HasThread

\* The first machine's flush, from the two facts that OneLife keeps.
LEMMA LifeJoins == Life => FirstStopJoins
BY DEF Life, OneLife, TypeOK, FirstStopJoins, Dead

\* The application starts with nothing running.
LEMMA InitLife == Init => Life
<1> SUFFICES ASSUME Init PROVE Life
  OBVIOUS
<1>1. TypeOK
  <2>1. thr \in [Threads -> {"none", "top", "ready", "core", "leaving"}]
    BY DEF Init
  <2>2. /\ stops \in 0..MaxStops /\ boots \in 0..2
        /\ running = FALSE /\ done = FALSE /\ pause = FALSE
    BY EmuLifecycleAssumption DEF Init
  <2>3. ui = "idle" /\ goal = "stop"
    BY DEF Init
  <2>4. QED BY <2>1, <2>2, <2>3 DEF TypeOK
<1>2. OneLife /\ HasThread
  BY DEF Init, OneLife, HasThread
<1>3. QED
  BY <1>1, <1>2 DEF Life

\* An emulation thread's step: it leaves only when emu_running is clear.
LEMMA ThreadLife ==
  ASSUME Life, NEW t \in Threads, Thread(t) \/ PowerOff(t)
  PROVE  Life'
<1> USE DEF Life, At
<1>1. CASE Loop(t)
  <2>1. TypeOK'   BY <1>1 DEF Loop, TypeOK, main
  <2>2. OneLife'  BY <1>1 DEF Loop, OneLife, TypeOK, main
  <2>3. HasThread'  BY <1>1 DEF Loop, HasThread, TypeOK, main
  <2>4. QED BY <2>1, <2>2, <2>3
<1>2. CASE StartBlit(t)
  <2>1. TypeOK'   BY <1>2 DEF StartBlit, TypeOK, main
  <2>2. OneLife'  BY <1>2 DEF StartBlit, OneLife, TypeOK, main
  <2>3. HasThread'  BY <1>2 DEF StartBlit, HasThread, TypeOK, main
  <2>4. QED BY <2>1, <2>2, <2>3
<1>3. CASE EndBlit(t)
  <2>1. TypeOK'   BY <1>3 DEF EndBlit, TypeOK, main
  <2>2. OneLife'  BY <1>3 DEF EndBlit, OneLife, TypeOK, main
  <2>3. HasThread'  BY <1>3 DEF EndBlit, HasThread, TypeOK, main
  <2>4. QED BY <2>1, <2>2, <2>3
<1>4. CASE Leave(t)
  <2>1. TypeOK'   BY <1>4 DEF Leave, TypeOK, main
  <2>2. OneLife'  BY <1>4 DEF Leave, OneLife, TypeOK, main
  <2>3. HasThread'  BY <1>4 DEF Leave, HasThread
  <2>4. QED BY <2>1, <2>2, <2>3
<1>5. CASE Die(t)
  <2>1. TypeOK'   BY <1>5 DEF Die, TypeOK, main
  <2>2. OneLife'  BY <1>5 DEF Die, OneLife, TypeOK, main
  <2>3. HasThread'  BY <1>5 DEF Die, HasThread, TypeOK, main
  <2>4. QED BY <2>1, <2>2, <2>3
<1>6. CASE PowerOff(t)
  <2>1. TypeOK'   BY <1>6, EmuLifecycleAssumption DEF PowerOff, TypeOK, main, machine
  <2>2. OneLife' /\ HasThread'  BY <1>6 DEF PowerOff, OneLife, HasThread, main, machine
  <2>3. QED BY <2>1, <2>2
<1>7. QED BY <1>1, <1>2, <1>3, <1>4, <1>5, <1>6 DEF Thread

\* The main thread gets past its wait only with the event set, and boots with
\* emu_running clear.
LEMMA UiLife == ASSUME Life, Ui PROVE Life'
<1> USE DEF Life
<1>1. CASE Join \/ Flush \/ Return
  <2>1. TypeOK'   BY <1>1 DEF Join, Flush, Return, TypeOK, machine
  <2>2. OneLife' /\ HasThread'
    BY <1>1 DEF Join, Flush, Return, OneLife, HasThread, TypeOK, machine
  <2>3. QED BY <2>1, <2>2
<1>2. CASE Boot
  <2>1. PICK t \in Threads : thr[t] = "none" /\ thr' = [thr EXCEPT ![t] = "top"]
    BY <1>2 DEF Boot
  <2>2. TypeOK'     BY <1>2, <2>1 DEF Boot, TypeOK
  <2>3. HasThread'  BY <2>1 DEF HasThread, TypeOK
  <2>4. OneLife'    BY <1>2, <2>1 DEF Boot, OneLife, TypeOK
  <2>5. QED BY <2>2, <2>3, <2>4
<1>3. CASE ResetEnd
  <2>1. TypeOK'   BY <1>3 DEF ResetEnd, TypeOK, machine
  <2>2. OneLife' /\ HasThread'  BY <1>3 DEF ResetEnd, OneLife, HasThread, machine
  <2>3. QED BY <2>1, <2>2
<1>4. QED BY <1>1, <1>2, <1>3 DEF Ui

\* What starts on the main thread starts from idle; a stop clears emu_running.
LEMMA UserLife == ASSUME Life, StopCallback \/ User PROVE Life'
<1> USE DEF Life
<1>1. CASE UseConfig \/ ShutDown \/ Quit \/ StopCallback
  <2>1. TypeOK'
    <3>1. /\ thr' = thr /\ done' = done /\ pause' = pause /\ boots' = boots
          /\ running' = FALSE /\ goal' \in {"boot", "stop", "quit"}
          /\ ui' \in {"join", "boot", "stop", "quit"}
      BY <1>1 DEF UseConfig, ShutDown, Quit, StopCallback, Stop, machine
    <3>2. stops' \in 0..MaxStops
      BY <1>1, EmuLifecycleAssumption DEF UseConfig, ShutDown, Quit, StopCallback, TypeOK
    <3>3. QED BY <3>1, <3>2 DEF TypeOK
  <2>2. OneLife' /\ HasThread'
    BY <1>1 DEF UseConfig, ShutDown, Quit, StopCallback, Stop, OneLife, HasThread, TypeOK, machine
  <2>3. QED BY <2>1, <2>2
<1>2. CASE ResetBegin
  <2>1. TypeOK'   BY <1>2 DEF ResetBegin, TypeOK, machine
  <2>2. OneLife' /\ HasThread'  BY <1>2 DEF ResetBegin, OneLife, HasThread, machine
  <2>3. QED BY <2>1, <2>2
<1>3. CASE \E p \in BOOLEAN : SetPause(p)
  <2>1. TypeOK'   BY <1>3 DEF SetPause, TypeOK, machine, main
  <2>2. OneLife' /\ HasThread'  BY <1>3 DEF SetPause, OneLife, HasThread, machine, main
  <2>3. QED BY <2>1, <2>2
<1>4. QED BY <1>1, <1>2, <1>3 DEF User

\* The inductive invariant of the bridge.
THEOREM LifeInvariance == Spec => []Life
<1>1. Life /\ [Next]_vars => Life'
  <2> SUFFICES ASSUME Life, [Next]_vars PROVE Life'
    OBVIOUS
  <2>1. CASE Next
    BY <2>1, ThreadLife, UiLife, UserLife DEF Next
  <2>2. CASE UNCHANGED vars
    BY <2>2 DEF vars, main, machine, Life, TypeOK, OneLife, HasThread
  <2>3. QED BY <2>1, <2>2
<1>2. QED BY InitLife, <1>1, PTL DEF Spec

\* The bridge's state and the emulation threads' stay within their kinds.
THEOREM LifeTypeCorrect == Spec => []TypeOK
BY LifeInvariance, PTL DEF Life

\* Stopping the first machine joins its thread before state is saved and devices
\* are closed, whatever pauses, resets and power-offs came before.
THEOREM FirstJoins == Spec => []FirstStopJoins
BY LifeInvariance, LifeJoins, PTL

\* emu_running is never set without a thread that reads it.
THEOREM RunningHasThread == Spec => []HasThread
<1>1. Life => HasThread
  BY DEF Life
<1>2. QED BY LifeInvariance, <1>1, PTL

\* Whoever waits in emu_thread_stop waits for something to come: emu_running is clear, and
\* either the event is set or a thread is there that will see it and set it.
WaitEnds == ui = "join" => ~running /\ (done \/ \E t \in Threads : ~Dead(t))

\* emu_thread_stop never waits for nobody: the machine it stops has a thread, a thread sets
\* the event before it is gone, whatever pauses and resets there were, and meanwhile nobody
\* boots another machine or takes the event back.
THEOREM StopsEnd == Spec => []WaitEnds
<1>1. Init => WaitEnds BY DEF Init, WaitEnds
<1>2. ASSUME Life, WaitEnds, [Next]_vars PROVE WaitEnds'
  <2>1. CASE \E t \in Threads : Thread(t) \/ PowerOff(t)
    <3>1. PICK t \in Threads : Thread(t) \/ PowerOff(t) BY <2>1
    <3>2. CASE Die(t) BY <1>2, <3>2 DEF Die, WaitEnds, main
    <3>3. CASE Loop(t) \/ StartBlit(t) \/ EndBlit(t) \/ Leave(t)
      <4>1. thr'[t] # "none" /\ running' = running /\ ui' = ui /\ done' = done
        <5>1. thr \in [Threads -> {"none", "top", "ready", "core", "leaving"}]
          BY <1>2 DEF Life, TypeOK
        <5>2. CASE Loop(t) BY <5>1, <5>2 DEF Loop, main
        <5>3. CASE StartBlit(t) BY <5>1, <5>3 DEF StartBlit, main
        <5>4. CASE EndBlit(t) BY <5>1, <5>4 DEF EndBlit, main
        <5>5. CASE Leave(t) BY <5>1, <5>5 DEF Leave, main
        <5>6. QED BY <3>3, <5>2, <5>3, <5>4, <5>5
      <4>2. QED BY <1>2, <4>1 DEF WaitEnds, Dead
    <3>4. CASE PowerOff(t) BY <1>2, <3>4 DEF PowerOff, WaitEnds, Dead, main, machine
    <3>5. QED BY <3>1, <3>2, <3>3, <3>4 DEF Thread
  <2>2. CASE Ui BY <1>2, <2>2 DEF Ui, Join, Flush, Return, Boot, ResetEnd, WaitEnds, Life, TypeOK
  <2>3. CASE StopCallback \/ UseConfig \/ ShutDown \/ Quit
    BY <1>2, <2>3 DEF StopCallback, UseConfig, ShutDown, Quit, Stop, WaitEnds, Dead, Life, TypeOK,
                           HasThread, machine
  <2>4. CASE ResetBegin \/ \E p \in BOOLEAN : SetPause(p)
    BY <1>2, <2>4 DEF ResetBegin, SetPause, WaitEnds, Dead, machine, main
  <2>5. CASE UNCHANGED vars BY <1>2, <2>5 DEF vars, machine, main, WaitEnds, Dead
  <2>6. QED BY <1>2, <2>1, <2>2, <2>3, <2>4, <2>5 DEF Next, User
<1>3. QED BY <1>1, <1>2, LifeInvariance, PTL DEF Spec
=============================================================================
