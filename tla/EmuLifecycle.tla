---------------------------- MODULE EmuLifecycle ----------------------------
(***************************************************************************)
(* mac/pcem_bridge.m: how the native macOS application boots, pauses,       *)
(* resets, stops and leaves a machine.  The bridge's functions all run on   *)
(* the main thread, one after the other (ui); the machine runs in an        *)
(* emulation thread, one more for every boot.  A guest that powers itself   *)
(* off queues a callback to the main thread.                                *)
(*                                                                         *)
(* The ten seconds emu_thread_stop waits at most are taken to be enough     *)
(* for a call of runpc, and that wait not to be woken without a cause (its   *)
(* branch of thread_wait_event has no loop); the 100 ms of a reset are not.  *)
(***************************************************************************)
EXTENDS Integers

CONSTANTS
  MaxThreads,  (* bound: emulation threads alive at once  *)
  MaxStops     (* bound: power-offs queued to the main thread *)

ASSUME EmuLifecycleAssumption == MaxThreads \in Nat \ {0} /\ MaxStops \in Nat \ {0}

Threads == 1..MaxThreads

VARIABLES
  thr,      (* where each emulation thread is: "none" before and after its life *)
  running,  (* emu_running                                                    *)
  done,     (* emu_done_event is set                                          *)
  pause,
  stops,    (* stop callbacks in the main queue                               *)
  ui,       (* where the main thread is                                       *)
  goal,     (* what it stops the machine for: "boot", "stop" or "quit"        *)
  boots     (* machines booted so far; 2 stands for more than one             *)

machine == <<thr, done>>
main == <<ui, goal, boots>>
vars == <<machine, running, pause, stops, main>>

Init ==
  /\ thr = [t \in Threads |-> "none"]
  /\ running = FALSE /\ done = FALSE /\ pause = FALSE
  /\ stops = 0 /\ ui = "idle" /\ goal = "stop" /\ boots = 0

-----------------------------------------------------------------------------
(* emu_thread_proc. *)

\* Thread t is there, and the application has not quit.
At(t, where) == ui # "gone" /\ thr[t] = where

\* The loop looks at emu_running and then at pause, and waits while paused ...
Loop(t) ==
  /\ At(t, "top") /\ running /\ ~pause
  /\ thr' = [thr EXCEPT ![t] = "ready"]
  /\ UNCHANGED <<running, done, pause, stops, main>>

\* ... runs the machine for a while in runpc, under the blit mutex ...
StartBlit(t) ==
  /\ At(t, "ready") /\ \A u \in Threads : thr[u] # "core"
  /\ thr' = [thr EXCEPT ![t] = "core"]
  /\ UNCHANGED <<running, done, pause, stops, main>>

EndBlit(t) ==
  /\ At(t, "core")
  /\ thr' = [thr EXCEPT ![t] = "top"]
  /\ UNCHANGED <<running, done, pause, stops, main>>

\* ... and ends once it has seen emu_running cleared.
Leave(t) ==
  /\ At(t, "top") /\ ~running
  /\ thr' = [thr EXCEPT ![t] = "leaving"]
  /\ UNCHANGED <<running, done, pause, stops, main>>

\* (Mutant: the event is not set.)
DieSilently(t) ==
  /\ At(t, "leaving")
  /\ thr' = [thr EXCEPT ![t] = "none"]
  /\ UNCHANGED <<running, done, pause, stops, main>>

Die(t) ==
  /\ At(t, "leaving")
  /\ done' = TRUE /\ thr' = [thr EXCEPT ![t] = "none"]
  /\ UNCHANGED <<running, pause, stops, main>>

\* stop_emulation_now: the guest writes to its chip set's power register.
PowerOff(t) ==
  /\ At(t, "core") /\ stops < MaxStops
  /\ stops' = stops + 1
  /\ UNCHANGED <<machine, running, pause, main>>

-----------------------------------------------------------------------------
(* The main thread. *)

\* emu_thread_stop begins, for g; it does nothing when nothing runs.
Stop(g) ==
  /\ goal' = g
  /\ running' = FALSE
  /\ ui' = IF running THEN "join" ELSE g

\* (Mutant: the wait is left out.)
JoinAtOnce ==
  /\ ui = "join" /\ ui' = "flush"
  /\ UNCHANGED <<machine, running, pause, stops, goal, boots>>

\* emu_thread_stop waits for the thread; nobody ever resets the event ...
Join ==
  /\ ui = "join" /\ done
  /\ ui' = "flush"
  /\ UNCHANGED <<machine, running, pause, stops, goal, boots>>

\* ... and saves the state and closes the devices.
Flush ==
  /\ ui = "flush" /\ ui' = goal
  /\ UNCHANGED <<machine, running, pause, stops, goal, boots>>

\* pcem_bridge_stop and pcem_bridge_quit return.
Return ==
  /\ ui \in {"stop", "quit"}
  /\ ui' = IF ui = "stop" THEN "idle" ELSE "gone"
  /\ UNCHANGED <<machine, running, pause, stops, goal, boots>>

\* pcem_bridge_use_config, _stop (the callback of a power-off) and _quit.
UseConfig ==
  /\ ui = "idle" /\ Stop("boot")
  /\ UNCHANGED <<machine, pause, stops, boots>>

StopCallback ==
  /\ ui = "idle" /\ stops > 0
  /\ stops' = stops - 1 /\ Stop("stop")
  /\ UNCHANGED <<machine, pause, boots>>

\* The user shuts the machine down.
ShutDown ==
  /\ ui = "idle" /\ Stop("stop")
  /\ UNCHANGED <<machine, pause, stops, boots>>

Quit ==
  /\ ui = "idle" /\ Stop("quit")
  /\ UNCHANGED <<machine, pause, stops, boots>>

\* (Mutant: a thread that is still alive is taken to be the new one.)
BootReuses ==
  /\ ui = "boot"
  /\ running' = TRUE /\ ui' = "idle"
  /\ thr' = IF \E t \in Threads : thr[t] # "none" THEN thr ELSE [thr EXCEPT ![1] = "top"]
  /\ boots' = IF boots = 0 THEN 1 ELSE 2
  /\ UNCHANGED <<done, pause, stops, goal>>

\* use_config goes on: load the configuration, boot, emu_thread_start.
Boot ==
  /\ ui = "boot"
  /\ running' = TRUE /\ ui' = "idle"
  /\ \E t \in Threads : thr[t] = "none" /\ thr' = [thr EXCEPT ![t] = "top"]
  /\ boots' = IF boots = 0 THEN 1 ELSE 2
  /\ UNCHANGED <<done, pause, stops, goal>>

\* pcem_bridge_reset and settings_apply: pause, sleep, reset the core, go on.
ResetBegin ==
  /\ ui = "idle"
  /\ pause' = TRUE /\ ui' = "reset"
  /\ UNCHANGED <<machine, running, stops, goal, boots>>

ResetEnd ==
  /\ ui = "reset"
  /\ pause' = FALSE /\ ui' = "idle"
  /\ UNCHANGED <<machine, running, stops, goal, boots>>

\* pcem_bridge_pause, settings_begin and settings_cancel.
SetPause(p) ==
  /\ ui = "idle" /\ pause' = p
  /\ UNCHANGED <<machine, running, stops, main>>

Thread(t) == Loop(t) \/ StartBlit(t) \/ EndBlit(t) \/ Leave(t) \/ Die(t)
Ui == Join \/ Flush \/ Return \/ Boot \/ ResetEnd
User == UseConfig \/ ShutDown \/ Quit \/ ResetBegin \/ \E p \in BOOLEAN : SetPause(p)

Next ==
  \/ \E t \in Threads : Thread(t) \/ PowerOff(t)
  \/ Ui \/ StopCallback \/ User

Spec == Init /\ [][Next]_vars

\* The main thread returns from its functions and serves its queue again and again
\* between the user's doings; an emulation thread is not suspended.
FairSpec ==
  /\ Spec
  /\ WF_vars(Ui) /\ SF_vars(StopCallback)
  /\ \A t \in Threads : WF_vars(Leave(t)) /\ WF_vars(Die(t)) /\ WF_vars(EndBlit(t))
                        /\ WF_vars(Loop(t)) /\ SF_vars(StartBlit(t))

-----------------------------------------------------------------------------
Dead(t) == thr[t] = "none"

\* The state is well typed.
TypeOK ==
  /\ thr \in [Threads -> {"none", "top", "ready", "core", "leaving"}]
  /\ running \in BOOLEAN /\ done \in BOOLEAN /\ pause \in BOOLEAN
  /\ stops \in 0..MaxStops /\ boots \in 0..2
  /\ ui \in {"idle", "join", "flush", "boot", "stop", "quit", "reset", "gone"}
  /\ goal \in {"boot", "stop", "quit"}

\* When the first machine is stopped, its thread has ended before the state is saved
\* and the devices are closed under it.
FirstStopJoins == ui = "flush" /\ boots = 1 => \A t \in Threads : Dead(t)

\* emu_thread_stop: "join the thread, flush state to disk"; stated as: whenever
\* state is flushed and devices are closed, no emulation thread runs the machine.
StopJoins == ui = "flush" => \A t \in Threads : thr[t] # "core"

\* A machine the application takes to be running has a thread that will run it.
HasThread == running => \E t \in Threads : thr[t] \in {"top", "ready", "core"}

\* A guest that powers itself off is stopped, and the main thread gets back to the
\* launcher, or the application has quit.
PowerOffStops == stops > 0 ~> (ui = "idle" /\ ~running) \/ ui = "gone"
=============================================================================
