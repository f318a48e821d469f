------------------------------ MODULE PcTimer ------------------------------
(***************************************************************************)
(* timer.c and timer.h as they are: a doubly linked list of pc_timer_t,     *)
(* ordered by time stamps that wrap (32 bits in the code, Modulus here),    *)
(* walked one node at a time by timer_enable, and emptied from its head by  *)
(* timer_process.  The fractional half of a time stamp only decides whether *)
(* a delay is rounded up by one cycle, so it is part of the choice of the   *)
(* delay.  The CPU loops are those of TimerService, which this module       *)
(* implements.                                                              *)
(***************************************************************************)
EXTENDS Integers, FiniteSets

CONSTANTS Timers, Permanent, MaxDelay, MaxStep, Exec386, Period, NoTimer,
          Modulus   (* 2^32: time stamps are uint32_t *)

VARIABLES
  list,     (* timer_head, and the next, prev and enabled members         *)
  ts,       (* ts_integer                                                 *)
  target,   (* timer_target                                               *)
  tsc,      (* (uint32_t)tsc                                              *)
  slice, live, pc, cur,
  node,     (* timer_enable's timer_node ...                              *)
  adding,   (* ... its argument ...                                       *)
  ret,      (* ... and where it returns to                                *)
  still,    (* as in TimerService, what callbacks have re-armed without   *)
  kicked    (* a delay since timer_process was called                     *)

cpuVars == <<slice, live, cur>>
walkVars == <<node, adding, ret>>
rearmVars == <<still, kicked>>
vars == <<list, ts, target, tsc, slice, live, pc, cur, node, adding, ret, still, kicked>>

\* (int32_t)x
Signed(x) == LET u == x % Modulus IN IF 2 * u < Modulus THEN u ELSE u - Modulus

\* (Mutant: time stamps are compared as plain numbers.)
ExpiresUnsigned(a, b) == a <= b

\* TIMER_LESS_THAN and its _VAL forms: "expires before", ties included.
Expires(a, b) == Signed(a - b) <= 0

Service == INSTANCE TimerService WITH
  armed <- IF pc = "crash" THEN {} ELSE {t \in live : list.on[t]},
  left  <- [t \in Timers |-> IF t = cur \/ (t \in live /\ list.on[t]) THEN Signed(ts[t] - tsc) ELSE 0],
  wake  <- IF pc = "walk" /\ node = list.head /\ Expires(ts[adding], ts[node])
           THEN Signed(ts[adding] - tsc) ELSE Signed(target - tsc),
  pc    <- IF pc = "walk" THEN ret ELSE pc

ASSUME PcTimerAssumption ==
  /\ Service!TimerServiceAssumption
  /\ Modulus \in Nat /\ 2 * (Service!LateBound + MaxDelay) < Modulus

-----------------------------------------------------------------------------
(* The list. *)

EmptyList == [head |-> NoTimer,
              next |-> [t \in Timers |-> NoTimer],
              prev |-> [t \in Timers |-> NoTimer],
              on   |-> [t \in Timers |-> FALSE]]

\* The memset of timer_add.
Cleared(l, t) == [l EXCEPT !.next[t] = NoTimer, !.prev[t] = NoTimer, !.on[t] = FALSE]

\* (Mutant: the successor keeps its link to the timer taken out.)
UnlinkedOneWay(l, t) ==
  [head |-> IF l.prev[t] = NoTimer THEN l.next[t] ELSE l.head,
   next |-> [u \in Timers |-> IF u = t THEN NoTimer
                              ELSE IF u = l.prev[t] THEN l.next[t] ELSE l.next[u]],
   prev |-> [l.prev EXCEPT ![t] = NoTimer],
   on   |-> [l.on EXCEPT ![t] = FALSE]]

\* timer_disable of an enabled timer.
Unlinked(l, t) ==
  [head |-> IF l.prev[t] = NoTimer THEN l.next[t] ELSE l.head,
   next |-> [u \in Timers |-> IF u = t THEN NoTimer
                              ELSE IF u = l.prev[t] THEN l.next[t] ELSE l.next[u]],
   prev |-> [u \in Timers |-> IF u = t THEN NoTimer
                              ELSE IF u = l.next[t] THEN l.prev[t] ELSE l.prev[u]],
   on   |-> [l.on EXCEPT ![t] = FALSE]]

\* (Mutant: the node before the new timer still points past it.)
LinkedBeforeBypassed(l, t, n) ==
  [head |-> IF l.prev[n] = NoTimer THEN t ELSE l.head,
   next |-> [l.next EXCEPT ![t] = n],
   prev |-> [u \in Timers |-> IF u = t THEN l.prev[n] ELSE IF u = n THEN t ELSE l.prev[u]],
   on   |-> l.on]

\* timer_enable puts t in front of node n ...
LinkedBefore(l, t, n) ==
  [head |-> IF l.prev[n] = NoTimer THEN t ELSE l.head,
   next |-> [u \in Timers |-> IF u = t THEN n ELSE IF u = l.prev[n] THEN t ELSE l.next[u]],
   prev |-> [u \in Timers |-> IF u = t THEN l.prev[n] ELSE IF u = n THEN t ELSE l.prev[u]],
   on   |-> l.on]

\* (Mutant: the last node is not given its successor.)
LinkedAfterOneWay(l, t, n) == [l EXCEPT !.prev[t] = n]

\* ... or behind the last node.
LinkedAfter(l, t, n) ==
  [head |-> l.head,
   next |-> [l.next EXCEPT ![n] = t],
   prev |-> [l.prev EXCEPT ![t] = n],
   on   |-> l.on]

\* timer_remove_head, when the list has a second timer.
Beheaded(l) ==
  LET h == l.head
      second == l.next[h]
  IN  [head |-> second,
       next |-> [l.next EXCEPT ![h] = NoTimer],
       prev |-> [l.prev EXCEPT ![h] = NoTimer, ![second] = NoTimer],
       on   |-> [l.on EXCEPT ![h] = FALSE]]

\* The fatal() checks: an enabled timer that is in no list, a disabled one that is.
LostTimer(l, t) == IF l.on[t]
                   THEN l.next[t] = NoTimer /\ l.prev[t] = NoTimer /\ t # l.head
                   ELSE l.next[t] # NoTimer \/ l.prev[t] # NoTimer

-----------------------------------------------------------------------------
Init ==
  /\ list = EmptyList
  /\ ts = [t \in Timers |-> 0]
  /\ target = 0 /\ tsc = 0 /\ slice = 0
  /\ live = {} /\ pc = "boot" /\ cur = NoTimer
  /\ node = NoTimer /\ adding = NoTimer /\ ret = "boot"
  /\ still = {} /\ kicked = {}

\* timer_enable up to its loop, from list l.
Enable(l, t, stamp) ==
  LET l1 == IF l.on[t] THEN Unlinked(l, t) ELSE l
      l2 == [l1 EXCEPT !.on[t] = TRUE]
  IN  /\ ts' = [ts EXCEPT ![t] = stamp]
      /\ IF LostTimer(l, t)
         THEN pc' = "fatal" /\ list' = l /\ UNCHANGED <<target, walkVars>>
         ELSE IF l2.head = NoTimer
         THEN list' = [l2 EXCEPT !.head = t] /\ target' = stamp /\ UNCHANGED <<pc, walkVars>>
         ELSE /\ list' = l2 /\ pc' = "walk"
              /\ node' = l2.head /\ adding' = t /\ ret' = pc
              /\ UNCHANGED target

EnableDone == pc' = ret /\ node' = NoTimer /\ adding' = NoTimer /\ ret' = "boot"

\* The loop of timer_enable: the timer goes in front of the first node it
\* expires before ...
WalkInsert ==
  /\ pc = "walk" /\ Expires(ts[adding], ts[node])
  /\ list' = LinkedBefore(list, adding, node)
  /\ target' = IF list.prev[node] = NoTimer THEN ts[adding] ELSE target
  /\ EnableDone /\ UNCHANGED <<ts, tsc, cpuVars, rearmVars>>

\* ... or behind the last one ...
WalkAppend ==
  /\ pc = "walk" /\ ~Expires(ts[adding], ts[node]) /\ list.next[node] = NoTimer
  /\ list' = LinkedAfter(list, adding, node)
  /\ EnableDone /\ UNCHANGED <<ts, target, tsc, cpuVars, rearmVars>>

\* ... or the next node is looked at.
WalkOn ==
  /\ pc = "walk" /\ ~Expires(ts[adding], ts[node]) /\ list.next[node] # NoTimer
  /\ node' = list.next[node]
  /\ UNCHANGED <<list, ts, target, tsc, cpuVars, pc, adding, ret, rearmVars>>

-----------------------------------------------------------------------------
(* Device code: the same calls as in TimerService. *)

DevicesRun == pc \in {"boot", "cpu", "callback"}

Add(t, start) ==
  /\ pc = "boot" /\ t \notin live
  /\ t \in Permanent => start
  /\ live' = live \cup {t}
  /\ IF start
     THEN Enable(Cleared(list, t), t, tsc)
     ELSE /\ list' = Cleared(list, t) /\ ts' = [ts EXCEPT ![t] = 0]
          /\ UNCHANGED <<target, pc, walkVars>>
  /\ UNCHANGED <<tsc, slice, cur, rearmVars>>

SetDelay(t, d) ==
  /\ DevicesRun /\ t \in live \ Permanent
  /\ pc = "callback" /\ d = 0 => t \notin kicked
  /\ kicked' = IF pc = "callback" /\ d = 0 THEN kicked \cup {t} ELSE kicked
  /\ still' = still \ {t}
  /\ Enable(list, t, (tsc + d) % Modulus)
  /\ UNCHANGED <<tsc, cpuVars>>

Disable(t) ==
  /\ DevicesRun /\ t \in live \ Permanent
  /\ list.on[t]
  /\ IF LostTimer(list, t) THEN pc' = "fatal" /\ UNCHANGED list
     ELSE list' = Unlinked(list, t) /\ UNCHANGED pc
  /\ UNCHANGED <<ts, target, tsc, cpuVars, walkVars, rearmVars>>

Advance(d) ==
  /\ pc = "callback" /\ ~list.on[cur] /\ Expires(ts[cur], tsc)
  /\ d = 0 => cur \notin still
  /\ still' = IF d = 0 THEN still \cup {cur} ELSE still \ {cur}
  /\ Enable(list, cur, (ts[cur] + d) % Modulus)
  /\ UNCHANGED <<tsc, cpuVars, kicked>>

Return ==
  /\ pc = "callback"
  /\ cur \in Permanent => list.on[cur]
  /\ pc' = "process" /\ cur' = NoTimer
  /\ UNCHANGED <<list, ts, target, tsc, slice, live, walkVars, rearmVars>>

-----------------------------------------------------------------------------
(* The CPU loops and timer_process. *)

TopOfLoop(tgt, now, over) ==
  IF Exec386 THEN Signed(tgt - now) + 1 ELSE ((over - 1) % Period) + 1

StartMachine ==
  /\ pc = "boot" /\ Permanent \subseteq live
  /\ pc' = "cpu" /\ slice' = TopOfLoop(target, tsc, 0)
  /\ UNCHANGED <<list, ts, target, tsc, live, cur, walkVars, rearmVars>>

\* The loop looks at timer_target; timer_process would return at once from no list.
Due(now) == Expires(target, now) /\ list.head # NoTimer

\* The slice goes on, or it is used up and timer_target is looked at.
Run(c) ==
  /\ pc = "cpu"
  /\ tsc' = (tsc + c) % Modulus
  /\ pc' = IF slice - c <= 0 /\ Due(tsc') THEN "process" ELSE "cpu"
  /\ slice' = IF slice - c <= 0 /\ ~Due(tsc')
              THEN TopOfLoop(target, tsc', slice - c) ELSE slice - c
  /\ UNCHANGED <<list, ts, target, live, cur, walkVars, rearmVars>>

\* timer_process called from a port write.
Poll ==
  /\ pc = "cpu" /\ list.head # NoTimer
  /\ pc' = "process"
  /\ UNCHANGED <<list, ts, target, tsc, slice, live, cur, walkVars, rearmVars>>

\* timer_process, one turn of its loop: the head is due ...
Fire ==
  /\ pc = "process" /\ list.head # NoTimer /\ Expires(ts[list.head], tsc)
  /\ cur' = list.head
  /\ IF list.next[list.head] = NoTimer
     THEN pc' = "crash" /\ list' = [list EXCEPT !.head = NoTimer]
     ELSE pc' = "callback" /\ list' = Beheaded(list)
  /\ UNCHANGED <<ts, target, tsc, slice, live, walkVars, rearmVars>>

\* (Mutant: timer_target is not read back.)
SettleKeepsTarget ==
  /\ pc = "process"
  /\ IF list.head = NoTimer
     THEN pc' = "crash" /\ UNCHANGED slice
     ELSE /\ ~Expires(ts[list.head], tsc)
          /\ slice' = (IF slice <= 0 THEN TopOfLoop(target, tsc, slice) ELSE slice)
          /\ pc' = "cpu"
  /\ UNCHANGED <<list, ts, target, tsc, live, cur, walkVars>>
  /\ still' = {} /\ kicked' = {}

\* ... or it is not (or is gone), and timer_target is read from it.
Settle ==
  /\ pc = "process"
  /\ IF list.head = NoTimer
     THEN pc' = "crash" /\ UNCHANGED <<target, slice>>
     ELSE /\ ~Expires(ts[list.head], tsc)
          /\ target' = ts[list.head]
          /\ slice' = (IF slice <= 0 THEN TopOfLoop(target', tsc, slice) ELSE slice)
          /\ pc' = "cpu"
  /\ still' = {} /\ kicked' = {}
  /\ UNCHANGED <<list, ts, tsc, live, cur, walkVars>>

\* timer_reset drops the list; the timers in it keep their links and flags.
Reset ==
  /\ pc = "cpu"
  /\ target' = 0 /\ tsc' = 0 /\ list' = [list EXCEPT !.head = NoTimer]
  /\ live' = {} /\ slice' = 0 /\ pc' = "boot"
  /\ UNCHANGED <<ts, cur, walkVars, rearmVars>>

Next ==
  \/ \E t \in Timers, start \in BOOLEAN : Add(t, start)
  \/ \E t \in Timers, d \in 0..MaxDelay : SetDelay(t, d)
  \/ \E t \in Timers : Disable(t)
  \/ \E d \in 0..MaxDelay : Advance(d)
  \/ Return
  \/ StartMachine
  \/ \E c \in 1..MaxStep : Run(c)
  \/ Poll \/ Fire \/ Settle \/ Reset
  \/ WalkInsert \/ WalkAppend \/ WalkOn

Spec == Init /\ [][Next]_vars

\* The emulation thread keeps executing: timer.c's own steps and the callbacks'
\* returns do not stop, and an instruction or callback makes finitely many timer
\* calls, so Run and Return, though interrupted by them, are taken in the end.
Fairness ==
  /\ WF_vars(WalkInsert \/ WalkAppend \/ WalkOn \/ Fire \/ Settle)
  /\ SF_vars(\E c \in 1..MaxStep : Run(c))
  /\ SF_vars(\E d \in 0..MaxDelay : Advance(d))
  /\ SF_vars(Return)

FairSpec == Spec /\ Fairness

-----------------------------------------------------------------------------
TypeOK ==
  /\ list \in [head : Timers \cup {NoTimer}, next : [Timers -> Timers \cup {NoTimer}],
              prev : [Timers -> Timers \cup {NoTimer}], on : [Timers -> BOOLEAN]]
  /\ ts \in [Timers -> 0..Modulus - 1] /\ target \in 0..Modulus - 1 /\ tsc \in 0..Modulus - 1
  /\ slice \in Int /\ live \subseteq Timers
  /\ pc \in {"boot", "cpu", "process", "callback", "walk", "crash", "fatal"}
  /\ cur \in Timers \cup {NoTimer}
  /\ node \in Timers \cup {NoTimer} /\ adding \in Timers \cup {NoTimer}
  /\ ret \in {"boot", "cpu", "callback"}
  /\ still \subseteq Timers /\ kicked \subseteq Timers
  /\ pc = "callback" => cur \in live
  /\ pc = "walk" => adding \in live /\ node \in live

\* The timers that should be in the list: timer_enable links the one it is adding last.
Listed == {t \in live : list.on[t]} \ {adding}

\* The links of list l agree with one another and join exactly the timers of L.
WellLinked(l, L) ==
  /\ l.head \in L \cup {NoTimer}
  /\ \A t \in L :
       /\ l.next[t] \in L \cup {NoTimer} /\ l.prev[t] \in L \cup {NoTimer}
       /\ l.next[t] # NoTimer => l.prev[l.next[t]] = t
       /\ l.prev[t] # NoTimer => l.next[l.prev[t]] = t
       /\ l.prev[t] = NoTimer <=> t = l.head

\* Every link is mutual, only enabled timers are linked, only the head has no
\* predecessor; so neither fatal() of timer.c can be reached.
Linked ==
  pc # "crash" =>
    /\ WellLinked(list, Listed)
    /\ \A t \in live \ Listed : list.next[t] = NoTimer /\ list.prev[t] = NoTimer
    /\ pc # "fatal"

\* The list is one chain from the head through all the enabled timers.
OneChain ==
  pc # "crash" =>
    \E f \in [1..Cardinality(Listed) -> Listed] :
      /\ \A t \in Listed : \E i \in DOMAIN f : f[i] = t
      /\ list.head = IF Listed = {} THEN NoTimer ELSE f[1]
      /\ \A i \in DOMAIN f :
           list.next[f[i]] = IF i = Cardinality(Listed) THEN NoTimer ELSE f[i + 1]

\* Neighbours are in deadline order, seen from now, although the walk only compares
\* their wrapping time stamps with one another.
Ordered ==
  \A t \in Listed :
    list.next[t] # NoTimer => Signed(ts[t] - tsc) <= Signed(ts[list.next[t]] - tsc)

\* A self-rearming timer's callback is always run again while the machine runs, and
\* timer_process always returns.
PermanentFires == \A p \in Permanent : pc = "cpu" ~> (cur = p \/ pc = "boot")

Implements == Service!Spec
=============================================================================
