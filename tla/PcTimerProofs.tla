--------------------------- MODULE PcTimerProofs ---------------------------
(***************************************************************************)
(* Proofs about PcTimer, for any number of timers, any delays and any width*)
(* of a time stamp.  The doubly linked list stays well linked through every*)
(* operation of timer.c, so its fatal() checks never fire while devices use*)
(* only timers that timer_add has initialised since the last timer_reset;  *)
(* the list is one chain in deadline order; and timer.c does what          *)
(* TimerService promises, step by step.                                    *)
(***************************************************************************)
EXTENDS PcTimer, TLAPS, FiniteSetTheorems, FunctionTheorems

Lists == [head : Timers \cup {NoTimer}, next : [Timers -> Timers \cup {NoTimer}],
          prev : [Timers -> Timers \cup {NoTimer}], on : [Timers -> BOOLEAN]]

\* Assumptions the proofs use.
LEMMA Constants == NoTimer \notin Timers /\ Permanent \subseteq Timers
BY PcTimerAssumption DEF Service!TimerServiceAssumption

\* timer_disable's unlinking.
LEMMA UnlinkedOK ==
  ASSUME NEW l \in Lists, NEW L \in SUBSET Timers, WellLinked(l, L), NEW t \in L
  PROVE  /\ Unlinked(l, t) \in Lists
         /\ WellLinked(Unlinked(l, t), L \ {t})
         /\ Unlinked(l, t).next[t] = NoTimer /\ Unlinked(l, t).prev[t] = NoTimer
         /\ \A u \in Timers \ L : /\ Unlinked(l, t).next[u] = l.next[u]
                                  /\ Unlinked(l, t).prev[u] = l.prev[u]
         /\ \A u \in Timers : u # t => Unlinked(l, t).on[u] = l.on[u]
<1> USE Constants
<1> DEFINE nx == [u \in Timers |-> IF u = t THEN NoTimer
                              ELSE IF u = l.prev[t] THEN l.next[t] ELSE l.next[u]]
           pv == [u \in Timers |-> IF u = t THEN NoTimer
                              ELSE IF u = l.next[t] THEN l.prev[t] ELSE l.prev[u]]
           hd == IF l.prev[t] = NoTimer THEN l.next[t] ELSE l.head
           m  == Unlinked(l, t)
<1>1. m.head = hd /\ m.next = nx /\ m.prev = pv /\ m.on = [l.on EXCEPT ![t] = FALSE]
  BY DEF Unlinked
<1>2. l.next \in [Timers -> Timers \cup {NoTimer}] /\ l.prev \in [Timers -> Timers \cup {NoTimer}]
      /\ l.on \in [Timers -> BOOLEAN] /\ l.head \in Timers \cup {NoTimer}
  BY DEF Lists
<1>3. m \in Lists
  <2>1. nx \in [Timers -> Timers \cup {NoTimer}] /\ pv \in [Timers -> Timers \cup {NoTimer}]
        /\ hd \in Timers \cup {NoTimer} /\ [l.on EXCEPT ![t] = FALSE] \in [Timers -> BOOLEAN]
    BY <1>2
  <2> QED
    BY <2>1 DEF Lists, Unlinked
<1>4. \A u \in Timers \ L : nx[u] = l.next[u] /\ pv[u] = l.prev[u]
  BY <1>2 DEF WellLinked
<1>5. hd \in (L \ {t}) \cup {NoTimer}
  BY <1>2 DEF WellLinked
<1>6. ASSUME NEW u \in L \ {t}
      PROVE  /\ nx[u] \in (L \ {t}) \cup {NoTimer} /\ pv[u] \in (L \ {t}) \cup {NoTimer}
             /\ nx[u] # NoTimer => pv[nx[u]] = u
             /\ pv[u] # NoTimer => nx[pv[u]] = u
             /\ pv[u] = NoTimer <=> u = hd
  BY <1>2 DEF WellLinked
<1> HIDE DEF m, nx, pv, hd
<1>7. WellLinked(m, L \ {t})
  BY <1>1, <1>5, <1>6 DEF WellLinked
<1>8. nx[t] = NoTimer /\ pv[t] = NoTimer /\ \A u \in Timers : u # t => m.on[u] = l.on[u]
  BY <1>1, <1>2 DEF nx, pv
<1> QED
  BY <1>1, <1>3, <1>4, <1>7, <1>8 DEF m

\* timer_enable's insertion in front of a node.
LEMMA LinkedBeforeOK ==
  ASSUME NEW l \in Lists, NEW L \in SUBSET Timers, WellLinked(l, L),
         NEW t \in Timers \ L, NEW n \in L
  PROVE  /\ LinkedBefore(l, t, n) \in Lists
         /\ WellLinked(LinkedBefore(l, t, n), L \cup {t})
         /\ \A u \in (Timers \ L) \ {t} : /\ LinkedBefore(l, t, n).next[u] = l.next[u]
                                          /\ LinkedBefore(l, t, n).prev[u] = l.prev[u]
         /\ LinkedBefore(l, t, n).on = l.on
BY Constants DEF Lists, LinkedBefore, WellLinked

\* timer_enable's insertion behind the last node.
LEMMA LinkedAfterOK ==
  ASSUME NEW l \in Lists, NEW L \in SUBSET Timers, WellLinked(l, L),
         NEW t \in Timers \ L, NEW n \in L, l.next[n] = NoTimer, l.next[t] = NoTimer
  PROVE  /\ LinkedAfter(l, t, n) \in Lists
         /\ WellLinked(LinkedAfter(l, t, n), L \cup {t})
         /\ \A u \in (Timers \ L) \ {t} : /\ LinkedAfter(l, t, n).next[u] = l.next[u]
                                          /\ LinkedAfter(l, t, n).prev[u] = l.prev[u]
         /\ LinkedAfter(l, t, n).on = l.on
BY Constants DEF Lists, LinkedAfter, WellLinked

\* timer_remove_head, when there is a second timer.
LEMMA BeheadedOK ==
  ASSUME NEW l \in Lists, NEW L \in SUBSET Timers, WellLinked(l, L),
         l.head # NoTimer, l.next[l.head] # NoTimer
  PROVE  /\ Beheaded(l) \in Lists
         /\ WellLinked(Beheaded(l), L \ {l.head})
         /\ Beheaded(l).next[l.head] = NoTimer /\ Beheaded(l).prev[l.head] = NoTimer
         /\ \A u \in Timers \ L : /\ Beheaded(l).next[u] = l.next[u]
                                  /\ Beheaded(l).prev[u] = l.prev[u]
         /\ Beheaded(l).on = [l.on EXCEPT ![l.head] = FALSE]
BY Constants DEF Lists, Beheaded, WellLinked

-----------------------------------------------------------------------------
\* Where control is, timer_enable's loop counted as part of its caller.
At == IF pc = "walk" THEN ret ELSE pc

\* The timers of live that list l has enabled.
OnIn(l, lv) == {t \in lv : l.on[t]}

\* A list whose links join L and leave the other live timers alone.
Sound(l, L, lv) ==
  WellLinked(l, L) /\ \A t \in lv \ L : l.next[t] = NoTimer /\ l.prev[t] = NoTimer

WalkPhase ==
  IF pc = "walk"
  THEN adding \in live /\ list.on[adding] /\ node \in Listed /\ ret \in {"boot", "cpu", "callback"}
  ELSE adding = NoTimer /\ node = NoTimer

CurPhase ==
  /\ cur \in live \cup {NoTimer}
  /\ At \in {"boot", "cpu", "process"} => cur = NoTimer
  /\ At = "callback" => cur # NoTimer

LinkInd ==
  /\ list \in Lists /\ live \subseteq Timers
  /\ pc \in {"boot", "cpu", "process", "callback", "walk", "crash"}
  /\ pc # "crash" => Sound(list, Listed, live)
  /\ WalkPhase /\ CurPhase

\* timer_enable up to its loop: whatever sound list it starts from, it does not
\* reach a fatal() and leaves a sound list, the timer linked or still to link.
LEMMA EnableOK ==
  ASSUME NEW lv \in SUBSET Timers, NEW l \in Lists, NEW t \in lv, NEW stamp,
         Sound(l, OnIn(l, lv), lv), Enable(l, t, stamp), live' = lv,
         pc \in {"boot", "cpu", "callback"}, adding = NoTimer, node = NoTimer
  PROVE  /\ list' \in Lists
         /\ Sound(list', Listed', lv)
         /\ WalkPhase'
         /\ pc' = pc \/ (pc' = "walk" /\ ret' = pc)
<1> USE Constants
<1> DEFINE L  == OnIn(l, lv)
           l1 == IF l.on[t] THEN Unlinked(l, t) ELSE l
           l2 == [l1 EXCEPT !.on[t] = TRUE]
<1>1. ~LostTimer(l, t)
  BY DEF LostTimer, Sound, WellLinked, OnIn
<1>2. /\ l1 \in Lists /\ WellLinked(l1, L \ {t})
      /\ \A u \in lv \ (L \ {t}) : l1.next[u] = NoTimer /\ l1.prev[u] = NoTimer
      /\ \A u \in Timers : u # t => l1.on[u] = l.on[u]
  <2>1. CASE l.on[t]
    <3>1. L \in SUBSET Timers /\ t \in L /\ WellLinked(l, L) /\ l1 = Unlinked(l, t)
      BY <2>1 DEF OnIn, Sound
    <3> HIDE DEF L, l1
    <3>2. /\ l1 \in Lists /\ WellLinked(l1, L \ {t})
          /\ l1.next[t] = NoTimer /\ l1.prev[t] = NoTimer
          /\ \A u \in Timers \ L : l1.next[u] = l.next[u] /\ l1.prev[u] = l.prev[u]
          /\ \A u \in Timers : u # t => l1.on[u] = l.on[u]
      BY <3>1, UnlinkedOK
    <3> QED
      BY <3>2 DEF Sound, L
  <2>2. CASE ~l.on[t]
    <3>1. t \notin L /\ l1 = l /\ L \ {t} = L
      BY <2>2 DEF OnIn
    <3> QED
      BY <3>1 DEF Sound
  <2> QED
    BY <2>1, <2>2
<1> HIDE DEF l1
<1>3. /\ l2 \in Lists /\ l2.head = l1.head /\ l2.next = l1.next /\ l2.prev = l1.prev
      /\ l2.on[t] = TRUE /\ \A u \in Timers : u # t => l2.on[u] = l.on[u]
  BY <1>2 DEF Lists
<1>4. WellLinked(l2, L \ {t}) /\ \A u \in lv \ (L \ {t}) : l2.next[u] = NoTimer /\ l2.prev[u] = NoTimer
  BY <1>2, <1>3 DEF WellLinked
<1>5. IF l2.head = NoTimer
      THEN list' = [l2 EXCEPT !.head = t] /\ UNCHANGED <<pc, walkVars>>
      ELSE list' = l2 /\ pc' = "walk" /\ node' = l2.head /\ adding' = t /\ ret' = pc
  BY <1>1 DEF Enable, l1
<1> HIDE DEF l2
<1>6. OnIn(l2, lv) = L \cup {t}
  BY <1>3 DEF OnIn
<1>7. CASE l2.head = NoTimer
  <2>1. list' \in Lists /\ list'.head = t /\ list'.next = l2.next /\ list'.prev = l2.prev /\ list'.on = l2.on
        /\ adding' = NoTimer /\ node' = NoTimer /\ pc' = pc
    BY <1>3, <1>5, <1>7 DEF Lists, walkVars
  <2>2. Listed' = L \cup {t}
    BY <1>6, <2>1 DEF Listed, OnIn
  <2>3. l2.next[t] = NoTimer /\ l2.prev[t] = NoTimer
    BY <1>4
  <2>4. L \subseteq Timers
    BY DEF OnIn
  <2> HIDE DEF L
  <2>5. ASSUME NEW u \in L \ {t}
        PROVE  /\ l2.next[u] \in (L \cup {t}) \cup {NoTimer} /\ l2.prev[u] \in (L \cup {t}) \cup {NoTimer}
               /\ l2.next[u] # NoTimer => l2.prev[l2.next[u]] = u
               /\ l2.prev[u] # NoTimer /\ l2.next[l2.prev[u]] = u
               /\ u # t
    BY <1>4, <1>7, <2>4 DEF WellLinked
  <2>6. WellLinked(list', L \cup {t})
    BY <2>1, <2>3, <2>5 DEF WellLinked
  <2> QED
    BY <1>4, <2>1, <2>2, <2>6 DEF Sound, WalkPhase
<1>8. CASE l2.head # NoTimer
  <2>1. list' = l2 /\ pc' = "walk" /\ node' = l2.head /\ adding' = t /\ ret' = pc
    BY <1>5, <1>8
  <2>2. Listed' = L \ {t}
    BY <1>6, <2>1 DEF Listed, OnIn
  <2>3. l2.head \in L \ {t}
    BY <1>4, <1>8 DEF WellLinked
  <2> QED
    BY <1>3, <1>4, <2>1, <2>2, <2>3 DEF Sound, WalkPhase
<1> QED
  BY <1>7, <1>8

\* Outside timer_enable's loop every enabled live timer is in the list.
LEMMA ListedOutsideWalk ==
  ASSUME LinkInd, pc # "walk"
  PROVE  Listed = OnIn(list, live) /\ adding = NoTimer /\ node = NoTimer
BY Constants DEF LinkInd, WalkPhase, Listed, OnIn

\* Device calls outside callbacks' own re-arming.
LEMMA DeviceCalls ==
  ASSUME LinkInd,
         \/ \E t \in Timers, start \in BOOLEAN : Add(t, start)
         \/ \E t \in Timers, d \in 0..MaxDelay : SetDelay(t, d)
         \/ \E d \in 0..MaxDelay : Advance(d)
  PROVE  LinkInd'
<1> USE Constants
<1>0. pc \in {"boot", "cpu", "callback"} /\ pc # "walk" /\ pc # "crash" /\ list \in Lists /\ live \subseteq Timers
      /\ Sound(list, OnIn(list, live), live) /\ adding = NoTimer /\ node = NoTimer
  BY ListedOutsideWalk DEF LinkInd, Add, SetDelay, Advance, DevicesRun
<1>1. ASSUME NEW t \in Timers, NEW start \in BOOLEAN, Add(t, start)
      PROVE  LinkInd'
  <2> DEFINE lv == live \cup {t}
             l  == Cleared(list, t)
  <2>1. pc = "boot" /\ t \notin live /\ live' = lv /\ cur' = cur /\ cur = NoTimer
    BY <1>1 DEF Add, LinkInd, CurPhase, At
  <2>2. l \in Lists /\ l.head = list.head
        /\ l.next[t] = NoTimer /\ l.prev[t] = NoTimer /\ ~l.on[t]
        /\ \A u \in Timers : u # t => l.next[u] = list.next[u] /\ l.prev[u] = list.prev[u] /\ l.on[u] = list.on[u]
    BY <1>0 DEF Cleared, Lists
  <2> HIDE DEF l
  <2>3. OnIn(l, lv) = OnIn(list, live) /\ lv \in SUBSET Timers
    BY <1>0, <2>1, <2>2 DEF OnIn
  <2>4. WellLinked(l, OnIn(list, live))
    <3> DEFINE L == OnIn(list, live)
    <3>1. L \subseteq live /\ WellLinked(list, L)
      BY <1>0 DEF OnIn, Sound
    <3> HIDE DEF L
    <3>2. WellLinked(l, L)
      BY <1>0, <2>1, <2>2, <3>1 DEF WellLinked
    <3> QED
      BY <3>2 DEF L
  <2>5. Sound(l, OnIn(l, lv), lv)
    BY <1>0, <2>1, <2>2, <2>3, <2>4 DEF Sound, OnIn
  <2>6. CASE start
    <3>1. Enable(l, t, tsc)
      BY <1>1, <2>6 DEF Add, l
    <3>2. list' \in Lists /\ Sound(list', Listed', lv) /\ WalkPhase' /\ (pc' = pc \/ (pc' = "walk" /\ ret' = pc))
      BY <1>0, <2>1, <2>2, <2>3, <2>5, <3>1, EnableOK
    <3> QED
      BY <2>1, <2>3, <3>2 DEF LinkInd, CurPhase, At
  <2>7. CASE ~start
    <3>1. list' = l /\ pc' = pc /\ UNCHANGED walkVars
      BY <1>1, <2>7 DEF Add, l
    <3>2. Listed' = OnIn(l, lv)
      BY <1>0, <2>1, <2>3, <3>1 DEF Listed, OnIn, walkVars
    <3> QED
      BY <1>0, <2>1, <2>2, <2>3, <2>5, <3>1, <3>2 DEF LinkInd, WalkPhase, CurPhase, At, walkVars
  <2> QED
    BY <2>6, <2>7
<1>2. ASSUME NEW t \in live, NEW stamp, Enable(list, t, stamp), UNCHANGED cpuVars
      PROVE  LinkInd'
  <2>1. live' = live /\ cur' = cur
    BY <1>2 DEF cpuVars
  <2>2. list' \in Lists /\ Sound(list', Listed', live) /\ WalkPhase' /\ (pc' = pc \/ (pc' = "walk" /\ ret' = pc))
    BY <1>0, <1>2, <2>1, EnableOK
  <2> QED
    BY <1>0, <2>1, <2>2 DEF LinkInd, CurPhase, At
<1>3. ASSUME NEW t \in Timers, NEW d \in 0..MaxDelay, SetDelay(t, d)
      PROVE  LinkInd'
  BY <1>2, <1>3 DEF SetDelay
<1>4. ASSUME NEW d \in 0..MaxDelay, Advance(d)
      PROVE  LinkInd'
  <2>1. cur \in live
    BY <1>4 DEF Advance, LinkInd, CurPhase, At
  <2> QED
    BY <1>2, <1>4, <2>1 DEF Advance
<1> QED
  BY <1>1, <1>3, <1>4

\* timer_disable unlinks the timer and leaves timer_target alone.
LEMMA DisableStep ==
  ASSUME LinkInd, NEW t \in Timers, Disable(t)
  PROVE  LinkInd'
<1> USE Constants
<1> DEFINE L == OnIn(list, live)
<1>1. pc \in {"boot", "cpu", "callback"} /\ t \in live /\ list.on[t] /\ UNCHANGED <<cpuVars, walkVars>>
      /\ Listed = L /\ adding = NoTimer /\ node = NoTimer
      /\ list \in Lists /\ live \subseteq Timers /\ Sound(list, L, live)
  BY ListedOutsideWalk DEF LinkInd, Disable, DevicesRun
<1>2. t \in L /\ L \in SUBSET Timers /\ WellLinked(list, L) /\ L \subseteq live
  BY <1>1 DEF OnIn, Sound
<1>3. ~LostTimer(list, t)
  BY <1>1, <1>2 DEF LostTimer, WellLinked
<1>4. list' = Unlinked(list, t) /\ pc' = pc
  BY <1>3 DEF Disable
<1>5. /\ list' \in Lists /\ WellLinked(list', L \ {t})
      /\ list'.next[t] = NoTimer /\ list'.prev[t] = NoTimer
      /\ \A u \in Timers \ L : list'.next[u] = list.next[u] /\ list'.prev[u] = list.prev[u]
      /\ \A u \in Timers : u # t => list'.on[u] = list.on[u]
  <2> HIDE DEF L
  <2> QED
    BY <1>1, <1>2, <1>4, UnlinkedOK
<1>6. list'.on[t] = FALSE
  BY <1>1, <1>4 DEF Unlinked, Lists
<1>7. Listed' = L \ {t}
  BY <1>1, <1>5, <1>6 DEF Listed, OnIn, cpuVars, walkVars
<1>8. Sound(list', L \ {t}, live)
  BY <1>1, <1>2, <1>5 DEF Sound
<1> QED
  BY <1>1, <1>4, <1>5, <1>7, <1>8 DEF LinkInd, WalkPhase, CurPhase, At, cpuVars, walkVars

\* The loop of timer_enable links the timer at whatever node it stops.
LEMMA WalkStep ==
  ASSUME LinkInd, WalkInsert \/ WalkAppend \/ WalkOn
  PROVE  LinkInd'
<1> USE Constants
<1> DEFINE L == Listed
<1>1. pc = "walk" /\ live' = live /\ cur' = cur /\ slice' = slice
      /\ adding \in live /\ list.on[adding] /\ node \in L /\ ret \in {"boot", "cpu", "callback"}
      /\ list \in Lists /\ live \subseteq Timers /\ Sound(list, L, live)
      /\ L \in SUBSET Timers /\ L \subseteq live /\ adding \in Timers \ L /\ node # NoTimer
  BY DEF LinkInd, WalkPhase, WalkInsert, WalkAppend, WalkOn, cpuVars, Listed
<1>2. WellLinked(list, L) /\ list.next[adding] = NoTimer /\ list.prev[adding] = NoTimer
  BY <1>1 DEF Sound
<1>3. ASSUME list' \in Lists, WellLinked(list', L \cup {adding}), list'.on = list.on, EnableDone,
             \A u \in (Timers \ L) \ {adding} : list'.next[u] = list.next[u] /\ list'.prev[u] = list.prev[u]
      PROVE  LinkInd'
  <2>1. Listed' = L \cup {adding}
    BY <1>1, <1>3 DEF Listed, EnableDone
  <2>2. Sound(list', L \cup {adding}, live)
    BY <1>1, <1>3 DEF Sound
  <2> QED
    BY <1>1, <1>3, <2>1, <2>2 DEF LinkInd, WalkPhase, CurPhase, At, EnableDone
<1>4. CASE WalkInsert
  <2>1. list' = LinkedBefore(list, adding, node) /\ EnableDone
    BY <1>4 DEF WalkInsert
  <2>2. /\ list' \in Lists /\ WellLinked(list', L \cup {adding}) /\ list'.on = list.on
          /\ \A u \in (Timers \ L) \ {adding} : list'.next[u] = list.next[u] /\ list'.prev[u] = list.prev[u]
    <3> HIDE DEF L
    <3> DEFINE m == LinkedBefore(list, adding, node)
    <3>1. list \in Lists /\ L \in SUBSET Timers /\ WellLinked(list, L) /\ adding \in Timers \ L
          /\ node \in L /\ list.next[adding] = NoTimer
      BY <1>1, <1>2
    <3>2. /\ m \in Lists /\ WellLinked(m, L \cup {adding}) /\ m.on = list.on
          /\ \A u \in (Timers \ L) \ {adding} : m.next[u] = list.next[u] /\ m.prev[u] = list.prev[u]
      BY <3>1, LinkedBeforeOK, SMTT(30)
    <3> QED
      BY <2>1, <3>2
  <2> QED
    BY <1>3, <2>1, <2>2
<1>5. CASE WalkAppend
  <2>1. list' = LinkedAfter(list, adding, node) /\ EnableDone /\ list.next[node] = NoTimer
    BY <1>5 DEF WalkAppend
  <2>2. /\ list' \in Lists /\ WellLinked(list', L \cup {adding}) /\ list'.on = list.on
          /\ \A u \in (Timers \ L) \ {adding} : list'.next[u] = list.next[u] /\ list'.prev[u] = list.prev[u]
    <3> HIDE DEF L
    <3> DEFINE m == LinkedAfter(list, adding, node)
    <3>1. list \in Lists /\ L \in SUBSET Timers /\ WellLinked(list, L) /\ adding \in Timers \ L
          /\ node \in L /\ list.next[adding] = NoTimer /\ list.next[node] = NoTimer
      BY <1>1, <1>2, <2>1
    <3>2. /\ m \in Lists /\ WellLinked(m, L \cup {adding}) /\ m.on = list.on
          /\ \A u \in (Timers \ L) \ {adding} : m.next[u] = list.next[u] /\ m.prev[u] = list.prev[u]
      BY <3>1, LinkedAfterOK, SMTT(30)
    <3> QED
      BY <2>1, <3>2
  <2> QED
    BY <1>3, <2>1, <2>2
<1>6. CASE WalkOn
  <2>1. node' = list.next[node] /\ node' # NoTimer /\ UNCHANGED <<list, pc, adding, ret>>
    BY <1>6 DEF WalkOn
  <2>2. node' \in L /\ Listed' = L
    BY <1>1, <1>2, <2>1 DEF WellLinked, Listed
  <2> QED
    BY <1>1, <2>1, <2>2 DEF LinkInd, WalkPhase, CurPhase, At
<1> QED
  BY <1>4, <1>5, <1>6

\* timer_process, the CPU loop and timer_reset.
LEMMA LoopStep ==
  ASSUME LinkInd, Return \/ StartMachine \/ Poll \/ (\E c \in 1..MaxStep : Run(c)) \/ Fire \/ Settle \/ Reset
  PROVE  LinkInd'
<1> USE Constants
<1>1. CASE Return \/ StartMachine \/ Poll \/ (\E c \in 1..MaxStep : Run(c)) \/ Settle
  <2>1. UNCHANGED <<list, live, walkVars>> /\ pc \in {"callback", "boot", "cpu", "process"}
        /\ pc' \in {"boot", "cpu", "process", "crash"} /\ (cur' = cur \/ cur' = NoTimer)
        /\ (pc' # "crash" => cur' = NoTimer)
    BY <1>1 DEF Return, StartMachine, Poll, Run, Settle, LinkInd, CurPhase, At
  <2>2. Listed' = Listed
    BY <2>1 DEF Listed, walkVars
  <2> QED
    BY <2>1, <2>2 DEF LinkInd, WalkPhase, CurPhase, At, walkVars
<1>2. CASE Fire
  <2> DEFINE L == OnIn(list, live)
             h == list.head
  <2>1. pc = "process" /\ h # NoTimer /\ cur' = h /\ live' = live /\ UNCHANGED walkVars
        /\ Listed = L /\ adding = NoTimer /\ node = NoTimer
        /\ list \in Lists /\ live \subseteq Timers /\ Sound(list, L, live)
    BY <1>2, ListedOutsideWalk DEF LinkInd, Fire
  <2>2. h \in L /\ h \in live /\ L \in SUBSET Timers /\ L \subseteq live /\ WellLinked(list, L)
    BY <2>1 DEF Sound, WellLinked, OnIn
  <2>3. CASE list.next[h] = NoTimer
    <3>1. pc' = "crash" /\ list' = [list EXCEPT !.head = NoTimer]
      BY <1>2, <2>3 DEF Fire
    <3>2. list' \in Lists
      BY <2>1, <3>1 DEF Lists
    <3> QED
      BY <2>1, <2>2, <3>1, <3>2 DEF LinkInd, WalkPhase, CurPhase, At, walkVars
  <2>4. CASE list.next[h] # NoTimer
    <3>1. pc' = "callback" /\ list' = Beheaded(list)
      BY <1>2, <2>4 DEF Fire
    <3>2. /\ list' \in Lists /\ WellLinked(list', L \ {h})
          /\ list'.next[h] = NoTimer /\ list'.prev[h] = NoTimer
          /\ \A u \in Timers \ L : list'.next[u] = list.next[u] /\ list'.prev[u] = list.prev[u]
          /\ list'.on = [list.on EXCEPT ![h] = FALSE]
      <4> HIDE DEF L
      <4> DEFINE m == Beheaded(list)
      <4>1. list \in Lists /\ L \in SUBSET Timers /\ WellLinked(list, L)
            /\ list.head # NoTimer /\ list.next[list.head] # NoTimer
        BY <2>1, <2>2, <2>4
      <4>2. /\ m \in Lists /\ WellLinked(m, L \ {h})
            /\ m.next[h] = NoTimer /\ m.prev[h] = NoTimer
            /\ \A u \in Timers \ L : m.next[u] = list.next[u] /\ m.prev[u] = list.prev[u]
            /\ m.on = [list.on EXCEPT ![h] = FALSE]
        BY <4>1, BeheadedOK
      <4> QED
        BY <3>1, <4>2
    <3>3. Listed' = L \ {h}
      BY <2>1, <2>2, <3>2 DEF Listed, OnIn, walkVars, Lists
    <3>4. Sound(list', L \ {h}, live)
      BY <2>1, <2>2, <3>2 DEF Sound
    <3> QED
      BY <2>1, <2>2, <3>1, <3>2, <3>3, <3>4 DEF LinkInd, WalkPhase, CurPhase, At, walkVars
  <2> QED
    BY <2>3, <2>4
<1>3. CASE Reset
  <2>1. list' \in Lists /\ list'.head = NoTimer /\ live' = {} /\ pc' = "boot" /\ cur' = NoTimer
        /\ adding' = NoTimer /\ node' = NoTimer
    BY <1>3 DEF Reset, LinkInd, Lists, WalkPhase, CurPhase, At, walkVars
  <2>2. Listed' = {}
    BY <2>1 DEF Listed
  <2> QED
    BY <2>1, <2>2 DEF LinkInd, Sound, WellLinked, WalkPhase, CurPhase, At
<1> QED
  BY <1>1, <1>2, <1>3

-----------------------------------------------------------------------------
\* At first no timer is linked.
LEMMA InitLinks == Init => LinkInd
BY Constants DEF Init, EmptyList, LinkInd, Lists, Sound, WellLinked, Listed, WalkPhase, CurPhase, At

\* The link invariant is kept.
LEMMA StepLinks == LinkInd /\ [Next]_vars => LinkInd'
<1>1. LinkInd /\ UNCHANGED vars => LinkInd'
  BY DEF vars, LinkInd, Sound, WellLinked, Listed, WalkPhase, CurPhase, At
<1> QED
  BY <1>1, DeviceCalls, DisableStep, WalkStep, LoopStep DEF Next

\* The link invariant holds in every state.
THEOREM LinkInvariance == Spec => []LinkInd
BY InitLinks, StepLinks, PTL DEF Spec

\* The list's links always agree with the enabled flags, so neither fatal() in
\* timer_enable and timer_disable is ever reached.
THEOREM ListWellLinked == Spec => []Linked
<1>1. LinkInd => Linked
  BY DEF LinkInd, Linked, Sound
<1> QED
  BY <1>1, LinkInvariance, PTL

-----------------------------------------------------------------------------
(* The wrapping comparison. *)

\* The modulus is positive, and the deadlines span less than half of it.
LEMMA ModulusFacts ==
  /\ Modulus \in Nat /\ Modulus > 0 /\ MaxDelay \in Nat
  /\ Service!LateBound \in Nat /\ 2 * (Service!LateBound + MaxDelay) < Modulus
BY PcTimerAssumption DEF Service!TimerServiceAssumption, Service!LateBound, Service!LongestSlice

\* Quotient and remainder.
LEMMA DivMod ==
  ASSUME NEW m \in Nat, m > 0, NEW a \in Int
  PROVE  a % m \in 0..m - 1 /\ (a \div m) \in Int /\ a = m * (a \div m) + (a % m)
OBVIOUS

\* The remainder is unique.
LEMMA Remainder ==
  ASSUME NEW m \in Nat, m > 0, NEW r \in 0..m - 1, NEW k \in Int
  PROVE  (m * k + r) % m = r
BY SMTT(60)

\* TIMER_LESS_THAN on wrapped time stamps decides the order of the deadlines they
\* stand for, when these are less than half the range of a stamp apart.
LEMMA WrapOrder ==
  ASSUME NEW a \in Int, NEW b \in Int, 2 * (a - b) < Modulus, 2 * (b - a) < Modulus
  PROVE  Expires(a % Modulus, b % Modulus) <=> a <= b
<1>1. PICK k \in Int : /\ (a % Modulus) - (b % Modulus) = Modulus * k + (a - b)
                       /\ a % Modulus \in Int /\ b % Modulus \in Int
  <2>1. a = Modulus * (a \div Modulus) + (a % Modulus) /\ b = Modulus * (b \div Modulus) + (b % Modulus)
        /\ (a \div Modulus) \in Int /\ (b \div Modulus) \in Int /\ a % Modulus \in Int /\ b % Modulus \in Int
    BY ModulusFacts, DivMod
  <2>2. (a % Modulus) - (b % Modulus) = Modulus * ((b \div Modulus) - (a \div Modulus)) + (a - b)
    BY <2>1, ModulusFacts
  <2> QED
    BY <2>1, <2>2
<1>2. CASE a >= b
  <2>1. ((a % Modulus) - (b % Modulus)) % Modulus = a - b
    BY <1>1, <1>2, ModulusFacts, Remainder
  <2> QED
    BY <2>1, <1>2, ModulusFacts DEF Expires, Signed
<1>3. CASE a < b
  <2>1. (a % Modulus) - (b % Modulus) = Modulus * (k - 1) + (a - b + Modulus)
    BY <1>1, ModulusFacts
  <2>2. ((a % Modulus) - (b % Modulus)) % Modulus = a - b + Modulus
    BY <2>1, <1>3, ModulusFacts, Remainder
  <2> QED
    BY <2>2, <1>3, ModulusFacts DEF Expires, Signed
<1> QED
  BY <1>2, <1>3

\* With deadlines in the range BoundedLateness gives, timer_enable's comparisons are
\* those of the abstract service, wherever the 32-bit TSC stands.
THEOREM StampsCompare ==
  ASSUME NEW now \in Int,
         NEW x \in -Service!LateBound..MaxDelay, NEW y \in -Service!LateBound..MaxDelay
  PROVE  Expires((now + x) % Modulus, (now + y) % Modulus) <=> x <= y
<1>1. 2 * ((now + x) - (now + y)) < Modulus /\ 2 * ((now + y) - (now + x)) < Modulus
  BY ModulusFacts
<1> QED
  BY <1>1, WrapOrder, ModulusFacts
-----------------------------------------------------------------------------
(* Signed distances between wrapping stamps. *)

\* Multiples of the modulus.
LEMMA Multiples ==
  ASSUME NEW k \in Int, NEW q \in Int
  PROVE  /\ Modulus * k \in Int /\ Modulus * q \in Int
         /\ Modulus * (k - q) = Modulus * k - Modulus * q
         /\ Modulus * (k + q) = Modulus * k + Modulus * q
         /\ Modulus * (k - 1) = Modulus * k - Modulus
         /\ Modulus * (k + 1) = Modulus * k + Modulus
         /\ k - q \in Int /\ k + q \in Int /\ k - 1 \in Int /\ k + 1 \in Int
BY ModulusFacts

\* Division with remainder.
LEMMA Division ==
  ASSUME NEW x \in Int
  PROVE  \E q \in Int, u \in 0..Modulus - 1 : x = Modulus * q + u /\ (x % Modulus) = u
<1>1. /\ x % Modulus \in 0..Modulus - 1 /\ (x \div Modulus) \in Int
      /\ x = Modulus * (x \div Modulus) + (x % Modulus)
  BY ModulusFacts, DivMod
<1> QED
  BY <1>1

\* Signed(x) is the number next to zero that is x up to multiples of the modulus.
LEMMA SignedIs ==
  ASSUME NEW x \in Int, NEW y \in Int, NEW k \in Int, x = Modulus * k + y,
         -Modulus <= 2 * y, 2 * y < Modulus
  PROVE  Signed(x) = y
<1> USE ModulusFacts
<1>1. CASE y >= 0
  <2>1. y \in 0..Modulus - 1
    BY <1>1
  <2>2. (x % Modulus) = y
    BY <2>1, Remainder
  <2> QED
    BY <2>2 DEF Signed
<1>2. CASE y < 0
  <2>1. x = Modulus * (k - 1) + (y + Modulus) /\ y + Modulus \in 0..Modulus - 1 /\ k - 1 \in Int
    BY <1>2, Multiples
  <2>2. PICK j \in Int, z \in 0..Modulus - 1 : j = k - 1 /\ z = y + Modulus /\ x = Modulus * j + z
    BY <2>1
  <2>5. \A r \in 0..Modulus - 1, i \in Int : (Modulus * i + r) % Modulus = r
    BY ModulusFacts, Remainder
  <2>6. ((Modulus * j + z) % Modulus) = z
    BY <2>2, <2>5, Zenon
  <2>4. (x % Modulus) = y + Modulus
    BY <2>2, <2>6, Zenon
  <2>3. ~ (2 * (y + Modulus) < Modulus)
    OBVIOUS
  <2> QED
    BY <2>4, <2>3 DEF Signed
<1> QED
  BY <1>1, <1>2

\* There is one.
LEMMA SignedRange ==
  ASSUME NEW x \in Int
  PROVE  /\ Signed(x) \in Int /\ -Modulus <= 2 * Signed(x) /\ 2 * Signed(x) < Modulus
         /\ \E k \in Int : x = Modulus * k + Signed(x)
<1> USE ModulusFacts
<1>1. PICK q \in Int, u \in 0..Modulus - 1 : x = Modulus * q + u /\ (x % Modulus) = u
  BY Division
<1>2. CASE 2 * u < Modulus
  <2>1. Signed(x) = u
    BY <1>1, <1>2 DEF Signed
  <2>2. u \in Int /\ -Modulus <= 2 * u /\ 2 * u < Modulus
    BY <1>2
  <2> QED
    BY <1>1, <2>1, <2>2, Zenon
<1>3. CASE ~ (2 * u < Modulus)
  <2>1. Signed(x) = u - Modulus
    BY <1>1, <1>3 DEF Signed
  <2>2. x = Modulus * (q + 1) + (u - Modulus) /\ q + 1 \in Int
    BY <1>1, Multiples
  <2>3. PICK j \in Int : x = Modulus * j + (u - Modulus)
    BY <2>2
  <2>4. u - Modulus \in Int /\ -Modulus <= 2 * (u - Modulus) /\ 2 * (u - Modulus) < Modulus
    BY <1>3
  <2> DEFINE D == u - Modulus
  <2>5. Signed(x) = D /\ D \in Int /\ -Modulus <= 2 * D /\ 2 * D < Modulus /\ x = Modulus * j + D
    BY <2>1, <2>3, <2>4, Zenon
  <2> HIDE DEF D
  <2> QED
    BY <2>5
<1> QED
  BY <1>2, <1>3

\* A stamp moved by d is d further away.
LEMMA Shifted ==
  ASSUME NEW s \in Int, NEW now \in Int, NEW d \in Int,
         -Modulus <= 2 * (Signed(s - now) + d), 2 * (Signed(s - now) + d) < Modulus
  PROVE  /\ Signed(((s + d) % Modulus) - now) = Signed(s - now) + d
         /\ ((s + d) % Modulus) \in 0..Modulus - 1
<1>1. PICK k \in Int : s - now = Modulus * k + Signed(s - now)
  BY SignedRange
<1>2. Signed(s - now) \in Int
  BY SignedRange
<1>3. PICK q \in Int, u \in 0..Modulus - 1 : s + d = Modulus * q + u /\ ((s + d) % Modulus) = u
  <2>1. s + d \in Int
    OBVIOUS
  <2> QED
    BY <2>1, Division, Zenon
<1>4. u - now = Modulus * (k - q) + (Signed(s - now) + d) /\ k - q \in Int /\ u - now \in Int
  <2> DEFINE A == Modulus * k
             B == Modulus * q
             C == Modulus * (k - q)
             D == Signed(s - now)
  <2>1. A \in Int /\ B \in Int /\ C = A - B /\ k - q \in Int
    BY Multiples
  <2>2. s - now = A + D /\ s + d = B + u /\ D \in Int /\ u \in Int
    BY <1>1, <1>2, <1>3
  <2> HIDE DEF A, B, C, D
  <2>3. u - now = C + (D + d) /\ u - now \in Int
    BY <2>1, <2>2
  <2> QED
    BY <2>1, <2>3 DEF C, D
<1>5. Signed(u - now) = Signed(s - now) + d
  BY <1>2, <1>4, SignedIs
<1> QED
  BY <1>3, <1>5

\* When the TSC moves on by c, a stamp is c nearer.
LEMMA Nearer ==
  ASSUME NEW s \in Int, NEW now \in Int, NEW c \in Int,
         -Modulus <= 2 * (Signed(s - now) - c), 2 * (Signed(s - now) - c) < Modulus
  PROVE  /\ Signed(s - ((now + c) % Modulus)) = Signed(s - now) - c
         /\ ((now + c) % Modulus) \in 0..Modulus - 1
<1>1. PICK k \in Int : s - now = Modulus * k + Signed(s - now)
  BY SignedRange
<1>2. Signed(s - now) \in Int
  BY SignedRange
<1>3. PICK q \in Int, u \in 0..Modulus - 1 : now + c = Modulus * q + u /\ ((now + c) % Modulus) = u
  <2>1. now + c \in Int
    OBVIOUS
  <2> QED
    BY <2>1, Division, Zenon
<1>4. s - u = Modulus * (k + q) + (Signed(s - now) - c) /\ k + q \in Int /\ s - u \in Int
  <2> DEFINE A == Modulus * k
             B == Modulus * q
             C == Modulus * (k + q)
             D == Signed(s - now)
  <2>1. A \in Int /\ B \in Int /\ C = A + B /\ k + q \in Int
    BY Multiples
  <2>2. s - now = A + D /\ now + c = B + u /\ D \in Int /\ u \in Int
    BY <1>1, <1>2, <1>3
  <2> HIDE DEF A, B, C, D
  <2>3. s - u = C + (D - c) /\ s - u \in Int
    BY <2>1, <2>2
  <2> QED
    BY <2>1, <2>3 DEF C, D
<1>5. Signed(s - u) = Signed(s - now) - c
  BY <1>2, <1>4, SignedIs
<1> QED
  BY <1>3, <1>5

\* The order of two stamps is that of their distances from now.
LEMMA ExpiresByDistance ==
  ASSUME NEW a \in Int, NEW b \in Int, NEW now \in Int,
         Signed(a - now) \in -Service!LateBound..MaxDelay,
         Signed(b - now) \in -Service!LateBound..MaxDelay
  PROVE  Expires(a, b) <=> Signed(a - now) <= Signed(b - now)
<1>1. PICK k \in Int : a - now = Modulus * k + Signed(a - now)
  BY SignedRange
<1>2. PICK m \in Int : b - now = Modulus * m + Signed(b - now)
  BY SignedRange
<1> DEFINE x == Signed(a - now)
           y == Signed(b - now)
<1>3. x \in Int /\ y \in Int /\ -Modulus <= 2 * (x - y) /\ 2 * (x - y) < Modulus
  BY ModulusFacts
<1> HIDE DEF x, y
<1>4. a - b = Modulus * (k - m) + (x - y) /\ k - m \in Int /\ a - b \in Int /\ x - y \in Int
  <2>1. a - now = Modulus * k + x /\ b - now = Modulus * m + y
    BY <1>1, <1>2 DEF x, y
  <2> DEFINE A == Modulus * k
             B == Modulus * m
             C == Modulus * (k - m)
  <2>2. A \in Int /\ B \in Int /\ C = A - B /\ k - m \in Int
    BY Multiples
  <2>3. a - now = A + x /\ b - now = B + y
    BY <2>1
  <2> HIDE DEF A, B, C
  <2>4. a - b = C + (x - y) /\ a - b \in Int /\ x - y \in Int
    BY <1>3, <2>2, <2>3
  <2> QED
    BY <2>2, <2>4 DEF C
<1>5. Signed(a - b) = x - y
  BY <1>3, <1>4, SignedIs
<1>6. Expires(a, b) <=> x <= y
  BY <1>3, <1>5 DEF Expires
<1> QED
  BY <1>6 DEF x, y

\* No distance at all.
LEMMA SignedZero == Signed(0) = 0
<1>1. 0 = Modulus * 0 + 0 /\ -Modulus <= 2 * 0 /\ 2 * 0 < Modulus
  BY ModulusFacts
<1> QED
  BY <1>1, SignedIs

-----------------------------------------------------------------------------
(* The list as one chain: r ranks its timers from 1, the head, to n, the last. *)

Chain(l, L, r, n) ==
  /\ n \in Nat /\ r \in [Timers -> Int]
  /\ \A t \in L : r[t] \in 1..n
  /\ \A t, u \in L : r[t] = r[u] => t = u
  /\ \A i \in 1..n : \E t \in L : r[t] = i
  /\ \A t \in L : IF l.next[t] = NoTimer THEN r[t] = n
                  ELSE l.next[t] \in L /\ r[l.next[t]] = r[t] + 1
  /\ IF l.head = NoTimer THEN L = {} ELSE l.head \in L /\ r[l.head] = 1

\* Only the head and the links of the timers in the list matter.
LEMMA ChainSame ==
  ASSUME NEW l, NEW m, NEW L \in SUBSET Timers, NEW r, NEW n, Chain(l, L, r, n),
         m.head = l.head, \A t \in L : m.next[t] = l.next[t]
  PROVE  Chain(m, L, r, n)
BY DEF Chain

\* A list of one.
LEMMA ChainOfOne ==
  ASSUME NEW l, NEW t \in Timers, l.head = t, l.next[t] = NoTimer
  PROVE  Chain(l, {t}, [u \in Timers |-> 1], 1)
BY Constants DEF Chain

\* A timer taken out leaves a chain, and the others in their order.
LEMMA ChainWithout ==
  ASSUME NEW l \in Lists, NEW L \in SUBSET Timers, WellLinked(l, L),
         NEW r, NEW n, Chain(l, L, r, n), NEW t \in L
  PROVE  \E s, m : /\ Chain(Unlinked(l, t), L \ {t}, s, m)
                   /\ \A u, v \in L \ {t} : s[u] < s[v] => r[u] < r[v]
<1> USE Constants
<1> DEFINE K  == L \ {t}
           nx == [u \in Timers |-> IF u = t THEN NoTimer
                              ELSE IF u = l.prev[t] THEN l.next[t] ELSE l.next[u]]
           hd == IF l.prev[t] = NoTimer THEN l.next[t] ELSE l.head
           k  == Unlinked(l, t)
           s  == [u \in Timers |-> IF r[u] > r[t] THEN r[u] - 1 ELSE r[u]]
<1>1. k.head = hd /\ k.next = nx
  BY DEF Unlinked
<1>2. /\ l.next \in [Timers -> Timers \cup {NoTimer}] /\ l.prev \in [Timers -> Timers \cup {NoTimer}]
      /\ l.head \in Timers \cup {NoTimer} /\ r \in [Timers -> Int] /\ n \in Nat /\ n >= 1
      /\ n - 1 \in Nat /\ r[t] \in 1..n
  BY DEF Lists, Chain
<1>3. \A u \in L : /\ r[u] \in 1..n
                   /\ l.next[u] = NoTimer => r[u] = n
                   /\ l.next[u] # NoTimer => l.next[u] \in L /\ r[l.next[u]] = r[u] + 1 /\ l.prev[l.next[u]] = u
                   /\ l.prev[u] # NoTimer => l.prev[u] \in L /\ l.next[l.prev[u]] = u
                   /\ l.prev[u] = NoTimer <=> u = l.head
  BY DEF Chain, WellLinked
<1>4. \A u, v \in L : r[u] = r[v] => u = v
  BY DEF Chain
<1>5. \A i \in 1..n : \E u \in L : r[u] = i
  BY DEF Chain
<1>6. l.head \in L /\ l.head # NoTimer /\ r[l.head] = 1
  BY DEF Chain
<1>7. s \in [Timers -> Int] /\ \A u \in Timers : s[u] = IF r[u] > r[t] THEN r[u] - 1 ELSE r[u]
  BY <1>2
<1> HIDE DEF s
<1>8. \A u \in K : s[u] \in 1..n - 1
  BY <1>2, <1>3, <1>4, <1>7
<1>9. \A u, v \in K : /\ s[u] = s[v] => u = v
                      /\ s[u] < s[v] => r[u] < r[v]
  <2> SUFFICES ASSUME NEW u \in K, NEW v \in K
               PROVE  (s[u] = s[v] => u = v) /\ (s[u] < s[v] => r[u] < r[v])
    OBVIOUS
  <2>1. r[u] # r[t] /\ r[v] # r[t] /\ r[u] \in Int /\ r[v] \in Int /\ r[t] \in Int
    BY <1>2, <1>4
  <2> QED
    BY <1>4, <1>7, <2>1
<1>10. \A i \in 1..n - 1 : \E u \in K : s[u] = i
  <2> SUFFICES ASSUME NEW i \in 1..n - 1 PROVE \E u \in K : s[u] = i
    OBVIOUS
  <2>1. CASE i < r[t]
    <3>1. PICK u \in L : r[u] = i
      BY <1>2, <1>5
    <3> QED
      BY <1>2, <1>7, <2>1, <3>1
  <2>2. CASE i >= r[t]
    <3>1. PICK u \in L : r[u] = i + 1
      BY <1>2, <1>5
    <3> QED
      BY <1>2, <1>7, <2>2, <3>1
  <2> QED
    BY <1>2, <2>1, <2>2
<1>11. ASSUME NEW u \in K
       PROVE  IF nx[u] = NoTimer THEN s[u] = n - 1 ELSE nx[u] \in K /\ s[nx[u]] = s[u] + 1
  <2>0. u \in Timers /\ u # t /\ u \in L
    OBVIOUS
  <2>1. CASE u = l.prev[t]
    <3>1. nx[u] = l.next[t] /\ l.next[u] = t /\ r[t] = r[u] + 1
      BY <1>3, <2>0, <2>1
    <3>2. s[u] = r[u]
      BY <1>2, <1>7, <2>0, <3>1
    <3>3. CASE l.next[t] = NoTimer
      BY <1>3, <3>1, <3>2, <3>3, <1>2
    <3>4. CASE l.next[t] # NoTimer
      <4>1. l.next[t] \in L /\ r[l.next[t]] = r[t] + 1 /\ l.next[t] # t
        BY <1>2, <1>3, <3>4
      <4> QED
        BY <1>2, <1>7, <3>1, <3>2, <3>4, <4>1
    <3> QED
      BY <3>3, <3>4
  <2>2. CASE u # l.prev[t]
    <3>1. nx[u] = l.next[u] /\ l.next[u] # t
      BY <1>3, <2>0, <2>2
    <3>2. r[u] # r[t] /\ r[u] \in 1..n
      BY <1>3, <1>4, <2>0
    <3>3. CASE l.next[u] = NoTimer
      BY <1>2, <1>3, <1>7, <2>0, <3>1, <3>2, <3>3
    <3>4. CASE l.next[u] # NoTimer
      <4>1. l.next[u] \in K /\ r[l.next[u]] = r[u] + 1 /\ r[l.next[u]] # r[t]
        BY <1>3, <1>4, <2>0, <3>1, <3>4
      <4> QED
        BY <1>2, <1>7, <2>0, <3>1, <3>2, <3>4, <4>1
    <3> QED
      BY <3>3, <3>4
  <2> QED
    BY <2>1, <2>2
<1>12. IF hd = NoTimer THEN K = {} ELSE hd \in K /\ s[hd] = 1
  <2>1. CASE l.prev[t] = NoTimer
    <3>1. t = l.head /\ r[t] = 1 /\ hd = l.next[t]
      BY <1>3, <1>6, <2>1
    <3>2. CASE hd = NoTimer
      <4>1. n = 1
        BY <1>3, <3>1, <3>2
      <4> QED
        BY <1>3, <1>4, <3>1, <3>2, <4>1
    <3>3. CASE hd # NoTimer
      <4>1. hd \in L /\ r[hd] = 2 /\ hd # t
        BY <1>3, <3>1, <3>3
      <4> QED
        BY <1>7, <3>1, <3>3, <4>1
    <3> QED
      BY <3>2, <3>3
  <2>2. CASE l.prev[t] # NoTimer
    <3>1. hd = l.head /\ t # l.head /\ hd # NoTimer /\ hd \in K /\ r[hd] = 1
      BY <1>3, <1>6, <2>2
    <3> QED
      BY <1>2, <1>7, <3>1
  <2> QED
    BY <2>1, <2>2
<1>13. Chain(k, K, s, n - 1)
  <2> HIDE DEF k, K, nx, hd
  <2> QED
    BY <1>1, <1>2, <1>7, <1>8, <1>9, <1>10, <1>11, <1>12 DEF Chain
<1> QED
  <2> HIDE DEF k
  <2>1. \E q, m : Chain(k, L \ {t}, q, m) /\ \A u, v \in L \ {t} : q[u] < q[v] => r[u] < r[v]
    BY <1>9, <1>13
  <2> QED
    BY <2>1 DEF k

\* timer_remove_head takes the head out like timer_disable would.
LEMMA BeheadedIs ==
  ASSUME NEW l \in Lists, NEW L \in SUBSET Timers, WellLinked(l, L),
         l.head # NoTimer, l.next[l.head] # NoTimer
  PROVE  /\ Beheaded(l).head = Unlinked(l, l.head).head
         /\ \A t \in L : Beheaded(l).next[t] = Unlinked(l, l.head).next[t]
BY Constants DEF Lists, Beheaded, Unlinked, WellLinked

\* A timer put in front of a node takes that node's rank.
LEMMA ChainBefore ==
  ASSUME NEW l \in Lists, NEW L \in SUBSET Timers, WellLinked(l, L),
         NEW r, NEW n, Chain(l, L, r, n), NEW t \in Timers \ L, NEW p \in L
  PROVE  \E s, m : /\ Chain(LinkedBefore(l, t, p), L \cup {t}, s, m)
                   /\ \A u, v \in L : s[u] < s[v] => r[u] < r[v]
                   /\ \A u \in L : /\ s[u] < s[t] => r[u] < r[p]
                                   /\ s[t] < s[u] => r[p] <= r[u]
<1> USE Constants
<1> DEFINE K  == L \cup {t}
           k  == LinkedBefore(l, t, p)
           nx == [u \in Timers |-> IF u = t THEN p ELSE IF u = l.prev[p] THEN t ELSE l.next[u]]
           hd == IF l.prev[p] = NoTimer THEN t ELSE l.head
           s  == [u \in Timers |-> IF u = t THEN r[p] ELSE IF r[u] >= r[p] THEN r[u] + 1 ELSE r[u]]
<1>1. k.head = hd /\ k.next = nx
  BY DEF LinkedBefore
<1>2. /\ l.next \in [Timers -> Timers \cup {NoTimer}] /\ l.prev \in [Timers -> Timers \cup {NoTimer}]
      /\ l.head \in Timers \cup {NoTimer} /\ r \in [Timers -> Int] /\ n \in Nat
      /\ n + 1 \in Nat /\ r[p] \in 1..n
  BY DEF Lists, Chain
<1>3. \A u \in L : /\ r[u] \in 1..n
                   /\ l.next[u] = NoTimer => r[u] = n
                   /\ l.next[u] # NoTimer => l.next[u] \in L /\ r[l.next[u]] = r[u] + 1 /\ l.prev[l.next[u]] = u
                   /\ l.prev[u] # NoTimer => l.prev[u] \in L /\ l.next[l.prev[u]] = u
                   /\ l.prev[u] = NoTimer <=> u = l.head
  BY DEF Chain, WellLinked
<1>4. \A u, v \in L : r[u] = r[v] => u = v
  BY DEF Chain
<1>5. \A i \in 1..n : \E u \in L : r[u] = i
  BY DEF Chain
<1>6. l.head \in L /\ l.head # NoTimer /\ r[l.head] = 1
  BY DEF Chain
<1>7. s \in [Timers -> Int] /\ s[t] = r[p]
      /\ \A u \in L : s[u] = IF r[u] >= r[p] THEN r[u] + 1 ELSE r[u]
  BY <1>2
<1> HIDE DEF s
<1>8. \A u \in K : s[u] \in 1..n + 1
  BY <1>2, <1>3, <1>7
<1>9. /\ \A u, v \in L : (s[u] = s[v] => u = v) /\ (s[u] < s[v] => r[u] < r[v])
      /\ \A u \in L : /\ s[u] # s[t]
                      /\ s[u] < s[t] => r[u] < r[p]
                      /\ s[t] < s[u] => r[p] <= r[u]
  BY <1>2, <1>3, <1>4, <1>7
<1>10. \A i \in 1..n + 1 : \E u \in K : s[u] = i
  <2> SUFFICES ASSUME NEW i \in 1..n + 1 PROVE \E u \in K : s[u] = i
    OBVIOUS
  <2>1. CASE i < r[p]
    <3>1. PICK u \in L : r[u] = i
      BY <1>2, <1>5, <2>1
    <3> QED
      BY <1>2, <1>7, <2>1, <3>1
  <2>2. CASE i > r[p]
    <3>1. PICK u \in L : r[u] = i - 1
      BY <1>2, <1>5, <2>2
    <3> QED
      BY <1>2, <1>7, <2>2, <3>1
  <2>3. CASE i = r[p]
    BY <1>7, <2>3
  <2> QED
    BY <1>2, <2>1, <2>2, <2>3
<1>11. ASSUME NEW u \in K
       PROVE  IF nx[u] = NoTimer THEN s[u] = n + 1 ELSE nx[u] \in K /\ s[nx[u]] = s[u] + 1
  <2>1. CASE u = t
    BY <1>2, <1>7, <2>1
  <2>2. CASE u # t /\ u = l.prev[p]
    <3>1. u \in L /\ nx[u] = t /\ l.next[u] = p /\ r[p] = r[u] + 1
      BY <1>3, <2>2
    <3> QED
      BY <1>2, <1>7, <3>1
  <2>3. CASE u # t /\ u # l.prev[p]
    <3>1. u \in L /\ nx[u] = l.next[u] /\ l.next[u] # p
      BY <1>3, <2>3
    <3>2. CASE l.next[u] = NoTimer
      BY <1>2, <1>3, <1>7, <3>1, <3>2
    <3>3. CASE l.next[u] # NoTimer
      <4>1. l.next[u] \in L /\ r[l.next[u]] = r[u] + 1 /\ r[l.next[u]] # r[p] /\ r[u] \in Int
        BY <1>3, <1>4, <3>1, <3>3
      <4> QED
        BY <1>2, <1>7, <3>1, <3>3, <4>1
    <3> QED
      BY <3>2, <3>3
  <2> QED
    BY <2>1, <2>2, <2>3
<1>12. hd # NoTimer /\ hd \in K /\ s[hd] = 1
  <2>1. CASE l.prev[p] = NoTimer
    BY <1>3, <1>6, <1>7, <2>1
  <2>2. CASE l.prev[p] # NoTimer
    <3>1. hd = l.head /\ p # l.head /\ r[p] # 1
      BY <1>3, <1>4, <1>6, <2>2
    <3> QED
      BY <1>2, <1>6, <1>7, <3>1
  <2> QED
    BY <2>1, <2>2
<1>13. Chain(k, K, s, n + 1)
  <2>1. \A u, v \in K : s[u] = s[v] => u = v
    BY <1>9
  <2> HIDE DEF k, K, nx, hd
  <2> QED
    BY <1>1, <1>2, <1>7, <1>8, <1>10, <1>11, <1>12, <2>1 DEF Chain
<1> QED
  <2> HIDE DEF k
  <2>1. \E q, m : /\ Chain(k, L \cup {t}, q, m)
                  /\ \A u, v \in L : q[u] < q[v] => r[u] < r[v]
                  /\ \A u \in L : /\ q[u] < q[t] => r[u] < r[p]
                                  /\ q[t] < q[u] => r[p] <= r[u]
    BY <1>9, <1>13
  <2> QED
    BY <2>1 DEF k

\* A timer put behind the last node comes last.
LEMMA ChainAfter ==
  ASSUME NEW l \in Lists, NEW L \in SUBSET Timers, WellLinked(l, L),
         NEW r, NEW n, Chain(l, L, r, n), NEW t \in Timers \ L, NEW p \in L,
         l.next[p] = NoTimer, l.next[t] = NoTimer
  PROVE  \E s, m : /\ Chain(LinkedAfter(l, t, p), L \cup {t}, s, m)
                   /\ \A u, v \in L : s[u] < s[v] => r[u] < r[v]
                   /\ \A u \in L : s[u] < s[t] /\ r[u] <= r[p]
<1> USE Constants
<1> DEFINE K == L \cup {t}
           k == LinkedAfter(l, t, p)
           s == [r EXCEPT ![t] = n + 1]
<1>1. k.head = l.head /\ k.next = [l.next EXCEPT ![p] = t]
  BY DEF LinkedAfter
<1>2. /\ l.next \in [Timers -> Timers \cup {NoTimer}] /\ r \in [Timers -> Int] /\ n \in Nat
      /\ l.head \in L /\ l.head # NoTimer /\ r[l.head] = 1 /\ r[p] = n /\ n + 1 \in Nat
  BY DEF Lists, Chain
<1>3. \A u \in L : /\ r[u] \in 1..n
                   /\ l.next[u] = NoTimer => r[u] = n
                   /\ l.next[u] # NoTimer => l.next[u] \in L /\ r[l.next[u]] = r[u] + 1
  BY DEF Chain
<1>4. \A u, v \in L : r[u] = r[v] => u = v
  BY DEF Chain
<1>5. \A i \in 1..n : \E u \in L : r[u] = i
  BY DEF Chain
<1>6. s \in [Timers -> Int] /\ s[t] = n + 1 /\ \A u \in L : s[u] = r[u]
  BY <1>2
<1> HIDE DEF s
<1>7. \A u \in K : s[u] \in 1..n + 1
  BY <1>2, <1>3, <1>6
<1>8. \A u, v \in K : s[u] = s[v] => u = v
  BY <1>2, <1>3, <1>4, <1>6
<1>9. \A i \in 1..n + 1 : \E u \in K : s[u] = i
  BY <1>2, <1>5, <1>6
<1>10. \A u \in K : IF k.next[u] = NoTimer THEN s[u] = n + 1
                    ELSE k.next[u] \in K /\ s[k.next[u]] = s[u] + 1
  BY <1>1, <1>2, <1>3, <1>4, <1>6
<1>11. Chain(k, K, s, n + 1)
  <2> HIDE DEF k, K
  <2>1. k.head # NoTimer /\ k.head \in K /\ s[k.head] = 1
    BY <1>1, <1>2, <1>6 DEF K
  <2> QED
    BY <1>2, <1>6, <1>7, <1>8, <1>9, <1>10, <2>1 DEF Chain
<1>12. /\ \A u, v \in L : s[u] < s[v] => r[u] < r[v]
       /\ \A u \in L : s[u] < s[t] /\ r[u] <= r[p]
  BY <1>2, <1>3, <1>6
<1> QED
  <2> HIDE DEF k
  <2>1. \E q, m : /\ Chain(k, L \cup {t}, q, m)
                  /\ \A u, v \in L : q[u] < q[v] => r[u] < r[v]
                  /\ \A u \in L : q[u] < q[t] /\ r[u] <= r[p]
    BY <1>11, <1>12
  <2> QED
    BY <2>1 DEF k

-----------------------------------------------------------------------------
(* What PcTimer's state says of TimerService. *)

ArmedNow == IF pc = "crash" THEN {} ELSE {t \in live : list.on[t]}

LeftNow == [t \in Timers |-> IF t = cur \/ (t \in live /\ list.on[t]) THEN Signed(ts[t] - tsc) ELSE 0]

WakeNow == IF pc = "walk" /\ node = list.head /\ Expires(ts[adding], ts[node])
           THEN Signed(ts[adding] - tsc) ELSE Signed(target - tsc)

Promised == INSTANCE TimerServiceProofs WITH armed <- ArmedNow, left <- LeftNow, wake <- WakeNow, pc <- At

\* Time stamps are time stamps.
StampInv == ts \in [Timers -> 0..Modulus - 1] /\ target \in 0..Modulus - 1 /\ tsc \in 0..Modulus - 1

\* The chain is in the order of the deadlines, and timer_enable's loop has only gone
\* past timers that expire before the one it is adding.
SortedBy(r) ==
  /\ \A t, u \in Listed : r[t] < r[u] => LeftNow[t] <= LeftNow[u]
  /\ pc = "walk" => \A t \in Listed : r[t] < r[node] => LeftNow[t] < LeftNow[adding]

ChainInv ==
  IF pc = "crash" THEN \A t \in Listed : list.next[t] = NoTimer
  ELSE \E r, n : Chain(list, Listed, r, n) /\ SortedBy(r)

PcInv == LinkInd /\ StampInv /\ ChainInv /\ Promised!Ind

\* The abstract proofs' assumption, and what the two instances share.
LEMMA PromisedConstants ==
  /\ Promised!TimerServiceAssumption
  /\ Promised!LateBound = Service!LateBound /\ Promised!LongestSlice = Service!LongestSlice
BY PcTimerAssumption DEF Promised!TimerServiceAssumption, Service!TimerServiceAssumption,
   Promised!LateBound, Service!LateBound, Promised!LongestSlice, Service!LongestSlice

\* A step of the one instance is a step of the other.
LEMMA SameService ==
  /\ Promised!Init => Service!Init
  /\ [Promised!Next]_Promised!vars => [Service!Next]_Service!vars
BY DEF Promised!Init, Service!Init, Promised!vars, Service!vars,
   Promised!Next, Service!Next, Promised!Add, Service!Add, Promised!Arm, Service!Arm,
   Promised!SetDelay, Service!SetDelay, Promised!Disable, Service!Disable,
   Promised!Advance, Service!Advance, Promised!Return, Service!Return,
   Promised!StartMachine, Service!StartMachine, Promised!Run, Service!Run,
   Promised!Due, Service!Due, Promised!TopOfLoop, Service!TopOfLoop, Promised!Poll, Service!Poll,
   Promised!Fire, Service!Fire, Promised!Settle, Service!Settle, Promised!Reset, Service!Reset,
   Promised!DevicesRun, Service!DevicesRun, Promised!rearmVars, Service!rearmVars,
   ArmedNow, LeftNow, WakeNow, At

\* The abstract invariant is kept by the steps that refine.
LEMMA PromisedStep == Promised!Ind /\ [Promised!Next]_Promised!vars => Promised!Ind'
<1>1. Promised!Ind /\ UNCHANGED Promised!vars => Promised!Ind'
  BY DEF Promised!vars, Promised!Ind, Promised!TypeOK, Promised!Pcs, Promised!WakeNeverLate,
     Promised!BoundedLateness, Promised!PermanentArmed, Promised!CurPhase, Promised!BootPhase,
     Promised!CpuPhase
<1> QED
  BY <1>1, PromisedConstants, Promised!DeviceStep, Promised!RunStep, Promised!ProcessStep
     DEF Promised!Next

\* In range: the distances of the enabled timers, of the running one and of timer_target.
LEMMA Distances ==
  ASSUME PcInv
  PROVE  /\ Service!LateBound \in Nat /\ MaxDelay \in Nat
         /\ LeftNow \in [Timers -> Int]
         /\ \A t \in live : list.on[t] \/ t = cur => LeftNow[t] = Signed(ts[t] - tsc)
         /\ pc # "crash" => \A t \in live : list.on[t] \/ t = cur => LeftNow[t] \in -Service!LateBound..MaxDelay
         /\ \A t \in Timers : ts[t] \in 0..Modulus - 1
         /\ tsc \in 0..Modulus - 1 /\ target \in 0..Modulus - 1
         /\ Signed(target - tsc) \in Int /\ WakeNow \in Int /\ live \subseteq Timers
         /\ WakeNow <= MaxDelay /\ slice \in Int
<1>1. LeftNow \in [Timers -> Int] /\ live \subseteq Timers /\ WakeNow \in Int /\ WakeNow <= MaxDelay
      /\ slice \in Int
  BY DEF PcInv, Promised!Ind, Promised!TypeOK, LinkInd
<1>2. Service!LateBound \in Nat /\ MaxDelay \in Nat
  BY ModulusFacts
<1>3. \A t \in live : list.on[t] \/ t = cur => LeftNow[t] = Signed(ts[t] - tsc)
  BY <1>1 DEF LeftNow
<1>4. pc # "crash" => \A t \in live : list.on[t] \/ t = cur => LeftNow[t] \in -Service!LateBound..MaxDelay
  <2> SUFFICES ASSUME pc # "crash", NEW t \in live, list.on[t] \/ t = cur
               PROVE  LeftNow[t] \in -Service!LateBound..MaxDelay
    OBVIOUS
  <2>1. t \in ArmedNow \cup ({cur} \ {NoTimer})
    BY <1>1, Constants DEF ArmedNow
  <2>2. -Promised!LateBound <= LeftNow[t] /\ LeftNow[t] <= MaxDelay
    BY <2>1 DEF PcInv, Promised!Ind, Promised!BoundedLateness
  <2> QED
    BY <1>1, <1>2, <2>2, PromisedConstants
<1>5. (\A t \in Timers : ts[t] \in 0..Modulus - 1) /\ tsc \in 0..Modulus - 1 /\ target \in 0..Modulus - 1
  BY DEF PcInv, StampInv
<1>6. Signed(target - tsc) \in Int
  BY <1>5, ModulusFacts, SignedRange
<1> QED
  BY <1>1, <1>2, <1>3, <1>4, <1>5, <1>6

\* timer_enable, up to its loop, arms the timer: if the loop is still to run, the first
\* look at the head already decides what becomes of timer_target.
LEMMA EnableMaps ==
  ASSUME PcInv, pc \in {"boot", "cpu", "callback"},
         NEW t \in Timers, NEW l \in Lists, NEW stamp \in 0..Modulus - 1,
         NEW d \in -Service!LateBound..MaxDelay, Signed(stamp - tsc) = d,
         Sound(l, Listed, live \cup {t}), OnIn(l, live \cup {t}) = Listed, l.head = list.head,
         \A u \in Listed : l.next[u] = list.next[u],
         \A u \in Timers : u # t => l.on[u] = list.on[u],
         Enable(l, t, stamp), live' = live \cup {t}, UNCHANGED <<tsc, cur>>
  PROVE  StampInv' /\ ChainInv' /\ Promised!Arm(t, d) /\ At' = At
<1> USE Constants
<1> DEFINE L  == Listed
           K  == L \ {t}
           l1 == IF l.on[t] THEN Unlinked(l, t) ELSE l
           l2 == [l1 EXCEPT !.on[t] = TRUE]
<1>0. /\ PcInv /\ LinkInd /\ L \in SUBSET Timers /\ L \subseteq live /\ live \subseteq Timers
      /\ pc # "walk" /\ pc # "crash" /\ list \in Lists
      /\ L = {u \in live : list.on[u]} /\ adding = NoTimer /\ node = NoTimer
      /\ t \in L <=> l.on[t]
  BY ListedOutsideWalk DEF PcInv, LinkInd, OnIn, Listed
<1>1. PICK r, n : Chain(list, L, r, n) /\ \A u, v \in L : r[u] < r[v] => LeftNow[u] <= LeftNow[v]
  BY <1>0 DEF PcInv, ChainInv, SortedBy
<1>2. WellLinked(l, L)
  BY DEF Sound
<1>3. Chain(l, L, r, n)
  <2> HIDE DEF L
  <2> QED
    BY <1>0, <1>1, ChainSame DEF L
<1>4. /\ l1 \in Lists /\ \A u \in Timers : u # t => l1.on[u] = l.on[u]
      /\ l1.next[t] = NoTimer /\ l1.prev[t] = NoTimer
      /\ \E s, m : Chain(l1, K, s, m) /\ \A u, v \in K : s[u] < s[v] => r[u] < r[v]
  <2>1. CASE l.on[t]
    <3>1. t \in L /\ l1 = Unlinked(l, t) /\ L \in SUBSET Timers /\ WellLinked(l, L)
      BY <1>0, <1>2, <2>1
    <3> HIDE DEF L, K, l1
    <3> DEFINE m == Unlinked(l, t)
    <3>2. \A M \in SUBSET Timers : WellLinked(l, M) /\ t \in M =>
             /\ m \in Lists /\ m.next[t] = NoTimer /\ m.prev[t] = NoTimer
             /\ \A u \in Timers : u # t => m.on[u] = l.on[u]
      BY ZenonT(60), UnlinkedOK
    <3>3. \A M \in SUBSET Timers : WellLinked(l, M) /\ t \in M /\ Chain(l, M, r, n) =>
             \E s, k : Chain(m, M \ {t}, s, k) /\ \A u, v \in M \ {t} : s[u] < s[v] => r[u] < r[v]
      BY ChainWithout
    <3> HIDE DEF m
    <3>4. /\ m \in Lists /\ m.next[t] = NoTimer /\ m.prev[t] = NoTimer
          /\ \A u \in Timers : u # t => m.on[u] = l.on[u]
      BY <3>1, <3>2, Zenon
    <3>5. \E s, k : Chain(m, L \ {t}, s, k) /\ \A u, v \in L \ {t} : s[u] < s[v] => r[u] < r[v]
      BY <1>3, <3>1, <3>3, Zenon
    <3>6. l1 = m
      BY <3>1 DEF m
    <3> QED
      BY <3>4, <3>5, <3>6 DEF K
  <2>2. CASE ~l.on[t]
    <3>1. t \notin L /\ l1 = l /\ K = L
      BY <1>0, <2>2
    <3>2. l.next[t] = NoTimer /\ l.prev[t] = NoTimer
      BY <3>1 DEF Sound
    <3>3. Chain(l1, K, r, n) /\ \A u, v \in K : r[u] < r[v] => r[u] < r[v]
      BY <1>3, <3>1
    <3> HIDE DEF L, K, l1
    <3> QED
      BY <3>1, <3>2, <3>3
  <2> QED
    BY <2>1, <2>2
<1> HIDE DEF l1
<1>5. /\ l2 \in Lists /\ l2.head = l1.head /\ l2.next = l1.next /\ l2.on[t] = TRUE
      /\ \A u \in Timers : u # t => l2.on[u] = list.on[u]
  BY <1>4 DEF Lists
<1>6. ~LostTimer(l, t)
  BY <1>0, <1>2 DEF LostTimer, Sound, WellLinked
<1>7. /\ ts' = [ts EXCEPT ![t] = stamp]
      /\ IF l2.head = NoTimer
         THEN list' = [l2 EXCEPT !.head = t] /\ target' = stamp /\ UNCHANGED <<pc, walkVars>>
         ELSE list' = l2 /\ pc' = "walk" /\ node' = l2.head /\ adding' = t /\ ret' = pc /\ UNCHANGED target
  BY <1>6 DEF Enable, l1
<1> HIDE DEF l2
<1>8. PICK s, m : Chain(l2, K, s, m) /\ \A u, v \in K : s[u] < s[v] => r[u] < r[v]
  <2> HIDE DEF K
  <2>1. PICK s, m : Chain(l1, K, s, m) /\ \A u, v \in K : s[u] < s[v] => r[u] < r[v]
    BY <1>4
  <2>2. K \in SUBSET Timers
    BY <1>0 DEF K
  <2>3. Chain(l2, K, s, m)
    BY <1>5, <2>1, <2>2, ChainSame
  <2> QED
    BY <2>1, <2>3
<1>9. list'.on = l2.on /\ ts' \in [Timers -> 0..Modulus - 1] /\ StampInv'
  BY <1>0, <1>5, <1>7 DEF PcInv, StampInv, Lists
<1>10. pc' # "crash" /\ At' = At
  BY <1>0, <1>7 DEF At
<1>11. ArmedNow' = ArmedNow \cup {t} /\ ArmedNow = L
  BY <1>0, <1>5, <1>9, <1>10 DEF ArmedNow
<1>12. LeftNow' = [LeftNow EXCEPT ![t] = d]
  <2>1. LeftNow' \in [Timers -> Int] /\ LeftNow \in [Timers -> Int]
    <3>1. \A u \in Timers : Signed(ts'[u] - tsc') \in Int
      BY <1>9, SignedRange, ModulusFacts DEF StampInv
    <3> QED
      BY <3>1, <1>0, Distances DEF LeftNow
  <2>2. LeftNow'[t] = d
    BY <1>5, <1>7, <1>9 DEF LeftNow, PcInv, StampInv
  <2>3. \A u \in Timers : u # t => LeftNow'[u] = LeftNow[u]
    BY <1>5, <1>7, <1>9 DEF LeftNow, PcInv, StampInv
  <2> QED
    BY <2>1, <2>2, <2>3
<1>13. CASE l2.head = NoTimer
  <2>1. K = {}
    BY <1>8, <1>13 DEF Chain
  <2>2. list'.head = t /\ list'.next = l2.next /\ l2.next[t] = NoTimer /\ pc' = pc /\ adding' = NoTimer
        /\ target' = stamp
    BY <1>0, <1>4, <1>5, <1>7, <1>13 DEF Lists, walkVars
  <2>3. Listed' = {t}
    BY <1>0, <1>5, <1>9, <2>1, <2>2 DEF Listed
  <2>4. Chain(list', {t}, [u \in Timers |-> 1], 1)
    BY <2>2, ChainOfOne
  <2>5. SortedBy([u \in Timers |-> 1])'
    BY <2>2, <2>3, <1>0 DEF SortedBy
  <2>6. \E q, k : Chain(list', Listed', q, k) /\ SortedBy(q)'
    BY <2>3, <2>4, <2>5
  <2>7. ChainInv'
    BY <1>10, <2>6 DEF ChainInv
  <2>8. WakeNow' = d
    BY <1>0, <2>2 DEF WakeNow
  <2>9. \A u \in ArmedNow \ {t} : d <= LeftNow[u]
    BY <1>11, <2>1
  <2> QED
    BY <1>9, <1>10, <1>11, <1>12, <2>7, <2>8, <2>9 DEF Promised!Arm
<1>14. CASE l2.head # NoTimer
  <2> DEFINE h == l2.head
  <2>1. list' = l2 /\ pc' = "walk" /\ node' = h /\ adding' = t /\ ret' = pc /\ target' = target
    BY <1>7, <1>14
  <2>2. Listed' = K
    BY <1>0, <1>5, <2>1 DEF Listed
  <2>3. h \in K /\ s[h] = 1 /\ \A u \in K : s[u] \in Int /\ s[u] >= 1 /\ (u # h => s[h] < s[u])
    BY <1>8, <1>14 DEF Chain
  <2> HIDE DEF h
  <2>4. \A u, v \in K : s[u] < s[v] => LeftNow'[u] <= LeftNow'[v]
    BY <1>0, <1>1, <1>8, <1>12 DEF LeftNow
  <2>5. \A u \in K : ~ (s[u] < s[h])
    BY <2>3
  <2>6. ChainInv'
    <3>1. Chain(list', Listed', s, m) /\ SortedBy(s)'
      BY <1>8, <2>1, <2>2, <2>4, <2>5 DEF SortedBy
    <3> QED
      BY <1>10, <3>1 DEF ChainInv
  <2>7. \A u \in K : LeftNow[u] \in Int /\ LeftNow[h] <= LeftNow[u]
    <3>1. LeftNow \in [Timers -> Int] /\ h \in Timers
      BY <1>0, <2>3, Distances
    <3>2. \A u \in K : u # h => LeftNow[h] <= LeftNow[u]
      BY <1>0, <1>1, <1>8, <2>3
    <3> QED
      BY <1>0, <3>1, <3>2
  <2>8. LeftNow[h] \in -Service!LateBound..MaxDelay /\ LeftNow[h] = Signed(ts[h] - tsc)
        /\ ts[h] \in Int /\ tsc \in Int /\ ts'[t] = stamp /\ ts'[h] = ts[h] /\ stamp \in Int
    <3>1. h \in live /\ list.on[h] /\ h # t /\ h \in Timers
      BY <1>0, <2>3
    <3> QED
      BY <1>0, <1>7, <3>1, Distances, ModulusFacts DEF PcInv, StampInv
  <2>9. Expires(ts'[t], ts'[h]) <=> d <= LeftNow[h]
    BY <2>8, ExpiresByDistance
  <2>10. (\A u \in ArmedNow \ {t} : d <= LeftNow[u]) <=> d <= LeftNow[h]
    BY <1>11, <2>3, <2>7, ModulusFacts
  <2>11. list'.head = h
    BY <2>1 DEF h
  <2>12. WakeNow = Signed(target - tsc)
    BY <1>0 DEF WakeNow
  <2>13. WakeNow' = IF d <= LeftNow[h] THEN d ELSE WakeNow
    BY <2>1, <2>8, <2>9, <2>11, <2>12 DEF WakeNow
  <2> QED
    BY <1>9, <1>10, <1>11, <1>12, <2>6, <2>10, <2>13 DEF Promised!Arm
<1> QED
  BY <1>13, <1>14

\* What does not touch the list, the live timers or a stamp leaves the chain as it is,
\* as long as it moves no deadline against the others.
LEMMA ChainKept ==
  ASSUME ChainInv, pc # "crash", pc # "walk", pc' \notin {"crash", "walk"},
         list' = list, Listed' = Listed,
         \A t, u \in Listed : LeftNow[t] <= LeftNow[u] => LeftNow'[t] <= LeftNow'[u]
  PROVE  ChainInv'
<1>1. PICK r, n : Chain(list, Listed, r, n) /\ SortedBy(r)
  BY DEF ChainInv
<1>2. SortedBy(r)'
  BY <1>1 DEF SortedBy
<1> QED
  BY <1>1, <1>2 DEF ChainInv

\* timer_add.
LEMMA AddMaps ==
  ASSUME PcInv, NEW t \in Timers, NEW start \in BOOLEAN, Add(t, start)
  PROVE  Promised!Add(t, start) /\ StampInv' /\ ChainInv'
<1> USE Constants
<1> DEFINE l == Cleared(list, t)
<1>1. /\ LinkInd /\ list \in Lists /\ live \subseteq Timers /\ pc = "boot" /\ t \notin live
      /\ cur = NoTimer /\ cur' = cur /\ live' = live \cup {t} /\ tsc' = tsc /\ slice' = slice
      /\ adding = NoTimer /\ node = NoTimer /\ Listed = OnIn(list, live) /\ Sound(list, Listed, live)
      /\ (t \in Permanent => start) /\ At = "boot"
  BY ListedOutsideWalk DEF PcInv, LinkInd, CurPhase, At, Add
<1>2. /\ l \in Lists /\ l.head = list.head
      /\ l.next[t] = NoTimer /\ l.prev[t] = NoTimer /\ ~l.on[t]
      /\ \A u \in Timers : u # t => l.next[u] = list.next[u] /\ l.prev[u] = list.prev[u] /\ l.on[u] = list.on[u]
  BY <1>1 DEF Cleared, Lists
<1>r. UNCHANGED rearmVars
  BY DEF Add
<1>3. CASE start
  <2>1. Enable(l, t, tsc)
    BY <1>1, <1>3 DEF Add
  <2> HIDE DEF l
  <2>2. OnIn(l, live \cup {t}) = Listed /\ t \notin Listed /\ Listed \subseteq live
    BY <1>1, <1>2 DEF OnIn
  <2>3. WellLinked(l, Listed)
    <3> DEFINE L == Listed
    <3>1. L \subseteq Timers /\ t \notin L /\ WellLinked(list, L)
      BY <1>1, <2>2 DEF Sound
    <3> HIDE DEF L
    <3>2. WellLinked(l, L)
      BY <1>2, <3>1 DEF WellLinked
    <3> QED
      BY <3>2 DEF L
  <2>4. Sound(l, Listed, live \cup {t})
    BY <1>1, <1>2, <2>2, <2>3 DEF Sound
  <2>5. tsc \in 0..Modulus - 1 /\ tsc - tsc = 0 /\ 0 \in -Service!LateBound..MaxDelay
    BY ModulusFacts DEF PcInv, StampInv
  <2>6. Signed(tsc - tsc) = 0
    BY <2>5, SignedZero
  <2>7. \A u \in Listed : l.next[u] = list.next[u]
    BY <1>1, <1>2, <2>2
  <2>8. StampInv' /\ ChainInv' /\ Promised!Arm(t, 0) /\ At' = At
    BY ZenonT(60), <1>1, <1>2, <2>1, <2>2, <2>4, <2>5, <2>6, <2>7, EnableMaps
  <2> QED
    BY <1>1, <1>3, <1>r, <2>8 DEF Promised!Add, rearmVars, Promised!rearmVars
<1>4. CASE ~start
  <2>1. list' = l /\ ts' = [ts EXCEPT ![t] = 0] /\ UNCHANGED <<target, pc, walkVars>>
    BY <1>1, <1>4 DEF Add
  <2> HIDE DEF l
  <2>2. StampInv'
    BY <1>1, <2>1, ModulusFacts DEF PcInv, StampInv
  <2>3. Listed' = Listed /\ Listed \subseteq live /\ ArmedNow' = ArmedNow
    BY <1>1, <1>2, <2>1 DEF Listed, OnIn, ArmedNow, walkVars
  <2>4. LeftNow' = LeftNow
    <3>1. \A u \in Timers : u # t => ts'[u] = ts[u]
      BY <2>1 DEF PcInv, StampInv
    <3> QED
      BY <1>1, <1>2, <2>1, <3>1 DEF LeftNow
  <2>5. WakeNow' = WakeNow /\ At' = At
    BY <1>1, <2>1 DEF WakeNow, At
  <2>6. ChainInv'
    <3>1. PICK r, n : Chain(list, Listed, r, n) /\ SortedBy(r)
      BY <1>1 DEF PcInv, ChainInv
    <3>2. \A u \in Listed : list'.next[u] = list.next[u]
      BY <1>1, <1>2, <2>1, <2>3
    <3>3. Chain(list', Listed, r, n)
      <4> DEFINE L == Listed
                 m == list'
      <4>1. L \in SUBSET Timers /\ Chain(list, L, r, n) /\ m.head = list.head
            /\ \A u \in L : m.next[u] = list.next[u]
        BY <1>1, <1>2, <2>1, <2>3, <3>1, <3>2
      <4> HIDE DEF L, m
      <4>2. Chain(m, L, r, n)
        BY <4>1, ChainSame
      <4> QED
        BY <4>2 DEF L, m
    <3>4. SortedBy(r)'
      BY <1>1, <2>1, <2>3, <2>4, <3>1 DEF SortedBy
    <3> QED
      BY <1>1, <2>1, <2>3, <3>3, <3>4 DEF ChainInv
  <2> QED
    BY <1>1, <1>4, <1>r, <2>2, <2>3, <2>4, <2>5, <2>6 DEF Promised!Add, rearmVars, Promised!rearmVars
<1> QED
  BY <1>3, <1>4

\* timer_set_delay_u64 and timer_advance_u64, through timer_enable.
LEMMA RearmMaps ==
  ASSUME PcInv, pc \in {"boot", "cpu", "callback"}, NEW t \in live,
         NEW stamp \in 0..Modulus - 1, NEW d \in -Service!LateBound..MaxDelay,
         Signed(stamp - tsc) = d, Enable(list, t, stamp), UNCHANGED <<tsc, cpuVars>>
  PROVE  StampInv' /\ ChainInv' /\ Promised!Arm(t, d) /\ At' = At
<1>1. /\ LinkInd /\ list \in Lists /\ t \in Timers /\ live \cup {t} = live /\ live' = live /\ cur' = cur /\ tsc' = tsc
      /\ Listed = OnIn(list, live) /\ Sound(list, Listed, live)
  BY ListedOutsideWalk DEF PcInv, LinkInd, cpuVars
<1> QED
  BY <1>1, EnableMaps

\* timer_set_delay_u64.
LEMMA SetDelayMaps ==
  ASSUME PcInv, NEW t \in Timers, NEW d \in 0..MaxDelay, SetDelay(t, d)
  PROVE  Promised!SetDelay(t, d) /\ StampInv' /\ ChainInv'
<1>1. /\ pc \in {"boot", "cpu", "callback"} /\ t \in live \ Permanent /\ (pc = "callback" /\ d = 0 => t \notin kicked)
      /\ kicked' = (IF pc = "callback" /\ d = 0 THEN kicked \cup {t} ELSE kicked) /\ still' = still \ {t}
      /\ Enable(list, t, (tsc + d) % Modulus) /\ UNCHANGED <<tsc, cpuVars>> /\ At = pc
  BY DEF SetDelay, DevicesRun, At
<1>2. tsc \in Int /\ d \in -Service!LateBound..MaxDelay /\ d \in Int /\ tsc - tsc = 0
      /\ -Modulus <= 2 * (0 + d) /\ 2 * (0 + d) < Modulus
  BY ModulusFacts DEF PcInv, StampInv
<1>3. PICK stamp \in 0..Modulus - 1 : stamp = (tsc + d) % Modulus /\ Signed(stamp - tsc) = d
  <2>1. Signed(tsc - tsc) = 0
    BY <1>2, SignedZero
  <2>2. /\ Signed(((tsc + d) % Modulus) - tsc) = Signed(tsc - tsc) + d
        /\ ((tsc + d) % Modulus) \in 0..Modulus - 1
    BY <1>2, <2>1, Shifted
  <2>3. Signed(tsc - tsc) + d = d
    BY <1>2, <2>1
  <2> QED
    BY <2>2, <2>3
<1>4. StampInv' /\ ChainInv' /\ Promised!Arm(t, d) /\ At' = At
  BY <1>1, <1>2, <1>3, RearmMaps
<1> QED
  BY <1>1, <1>4 DEF Promised!SetDelay, Promised!DevicesRun, cpuVars

\* timer_advance_u64.
LEMMA AdvanceMaps ==
  ASSUME PcInv, NEW d \in 0..MaxDelay, Advance(d)
  PROVE  Promised!Advance(d) /\ StampInv' /\ ChainInv'
<1> USE Constants
<1> DEFINE e == LeftNow[cur]
<1>1. /\ pc = "callback" /\ ~list.on[cur] /\ Expires(ts[cur], tsc) /\ At = pc
      /\ Enable(list, cur, (ts[cur] + d) % Modulus) /\ UNCHANGED <<tsc, cpuVars, kicked>>
      /\ (d = 0 => cur \notin still) /\ still' = (IF d = 0 THEN still \cup {cur} ELSE still \ {cur})
      /\ cur \in live /\ cur # NoTimer /\ live \subseteq Timers
  BY DEF Advance, At, PcInv, LinkInd, CurPhase
<1>2. e = Signed(ts[cur] - tsc) /\ e \in -Service!LateBound..MaxDelay
      /\ ts[cur] \in Int /\ tsc \in Int
  <2>1. cur \in Timers
    BY <1>1
  <2> QED
    BY <1>1, <2>1, Distances, ModulusFacts
<1>3. e <= 0
  BY <1>1, <1>2 DEF Expires
<1> HIDE DEF e
<1>4. e + d \in -Service!LateBound..MaxDelay /\ e \in Int /\ d \in Int
      /\ -Modulus <= 2 * (e + d) /\ 2 * (e + d) < Modulus
  BY <1>2, <1>3, ModulusFacts
<1>5. PICK stamp \in 0..Modulus - 1 : stamp = (ts[cur] + d) % Modulus /\ Signed(stamp - tsc) = e + d
  <2>1. /\ Signed(((ts[cur] + d) % Modulus) - tsc) = Signed(ts[cur] - tsc) + d
        /\ ((ts[cur] + d) % Modulus) \in 0..Modulus - 1
    BY <1>2, <1>4, Shifted
  <2> QED
    BY <1>2, <2>1
<1>6. StampInv' /\ ChainInv' /\ Promised!Arm(cur, e + d) /\ At' = At
  BY <1>1, <1>4, <1>5, RearmMaps
<1>7. cur \notin ArmedNow
  BY <1>1 DEF ArmedNow
<1> QED
  BY <1>1, <1>3, <1>6, <1>7 DEF Promised!Advance, cpuVars, e

\* timer_disable.
LEMMA DisableMaps ==
  ASSUME PcInv, NEW t \in Timers, Disable(t)
  PROVE  Promised!Disable(t) /\ StampInv' /\ ChainInv'
<1> USE Constants
<1> DEFINE L == Listed
           m == Unlinked(list, t)
<1>1. /\ LinkInd /\ list \in Lists /\ live \subseteq Timers /\ pc \in {"boot", "cpu", "callback"}
      /\ t \in live \ Permanent /\ list.on[t] /\ UNCHANGED <<ts, target, tsc, cpuVars, walkVars, rearmVars>>
      /\ adding = NoTimer /\ node = NoTimer /\ L = OnIn(list, live) /\ Sound(list, L, live) /\ At = pc
  BY ListedOutsideWalk DEF PcInv, LinkInd, Disable, DevicesRun, At
<1>2. t \in L /\ L \in SUBSET Timers /\ WellLinked(list, L) /\ L \subseteq live
  BY <1>1 DEF OnIn, Sound
<1>3. ~LostTimer(list, t)
  BY <1>1, <1>2 DEF LostTimer, WellLinked
<1>4. list' = m /\ pc' = pc
  BY <1>3 DEF Disable
<1>5. PICK r, n : Chain(list, L, r, n) /\ SortedBy(r)
  BY <1>1 DEF PcInv, ChainInv
<1> HIDE DEF L, m
<1>6. m.on = [list.on EXCEPT ![t] = FALSE]
  BY DEF m, Unlinked
<1>7. PICK s, k : Chain(m, L \ {t}, s, k) /\ \A u, v \in L \ {t} : s[u] < s[v] => r[u] < r[v]
  <2>1. \A M \in SUBSET Timers : WellLinked(list, M) /\ t \in M /\ Chain(list, M, r, n) =>
             \E q, j : Chain(m, M \ {t}, q, j) /\ \A u, v \in M \ {t} : q[u] < q[v] => r[u] < r[v]
    <3>1. list \in Lists
      BY <1>1
    <3>2. QED
      BY ZenonT(60), <3>1, ChainWithout DEF m
  <2> QED
    BY <1>2, <1>5, <2>1, Zenon
<1>8. Listed' = L \ {t} /\ ArmedNow' = ArmedNow \ {t} /\ ArmedNow = L
  BY <1>1, <1>2, <1>4, <1>6 DEF Listed, OnIn, ArmedNow, cpuVars, walkVars, Lists
<1>9. StampInv' /\ At' = At /\ WakeNow' = WakeNow
  BY <1>1, <1>4 DEF PcInv, StampInv, At, WakeNow, walkVars
<1>10. LeftNow' = IF t = cur THEN LeftNow ELSE [LeftNow EXCEPT ![t] = 0]
  <2>1. LeftNow' \in [Timers -> Int] /\ LeftNow \in [Timers -> Int]
    <3>1. \A u \in Timers : Signed(ts'[u] - tsc') \in Int
      BY <1>9, SignedRange, ModulusFacts DEF StampInv
    <3> QED
      BY <3>1, Distances DEF LeftNow
  <2>2. \A u \in Timers : u # t => LeftNow'[u] = LeftNow[u]
    BY <1>1, <1>4, <1>6 DEF LeftNow, cpuVars, Lists
  <2>3. LeftNow'[t] = IF t = cur THEN LeftNow[t] ELSE 0
    BY <1>1, <1>4, <1>6 DEF LeftNow, cpuVars, Lists
  <2> QED
    BY <2>1, <2>2, <2>3
<1>11. \A u, v \in L \ {t} : s[u] < s[v] => LeftNow'[u] <= LeftNow'[v]
  <2>1. \A u \in L \ {t} : u \in Timers /\ LeftNow'[u] = LeftNow[u]
    BY <1>2, <1>10, Distances
  <2> QED
    BY <1>5, <1>7, <2>1 DEF SortedBy, L
<1>12. ChainInv'
  <2>1. SortedBy(s)'
    BY <1>1, <1>4, <1>8, <1>11 DEF SortedBy
  <2> QED
    BY <1>1, <1>4, <1>7, <1>8, <2>1 DEF ChainInv
<1> QED
  BY <1>1, <1>8, <1>9, <1>10, <1>12 DEF Promised!Disable, Promised!DevicesRun, cpuVars, rearmVars, Promised!rearmVars

\* timer_enable's loop: nothing the abstract service knows of.
LEMMA WalkMaps ==
  ASSUME PcInv, WalkInsert \/ WalkAppend \/ WalkOn
  PROVE  UNCHANGED Promised!vars /\ StampInv' /\ ChainInv'
<1> USE Constants
<1> DEFINE L == Listed
           a == adding
<1>1. /\ pc = "walk" /\ UNCHANGED <<ts, tsc, cpuVars>> /\ a \in live /\ list.on[a] /\ node \in L
      /\ ret \in {"boot", "cpu", "callback"} /\ list \in Lists /\ live \subseteq Timers /\ Sound(list, L, live)
      /\ L \in SUBSET Timers /\ L \subseteq live /\ a \in Timers \ L /\ node # NoTimer
      /\ (\A u \in L : list.on[u]) /\ ArmedNow = L \cup {a}
  BY DEF PcInv, LinkInd, WalkPhase, WalkInsert, WalkAppend, WalkOn, Listed, ArmedNow
<1>r. UNCHANGED rearmVars
  BY DEF WalkInsert, WalkAppend, WalkOn
<1>2. WellLinked(list, L) /\ list.next[a] = NoTimer /\ list.prev[a] = NoTimer
  BY <1>1 DEF Sound
<1>3. PICK r, n : Chain(list, L, r, n) /\ SortedBy(r)
  BY <1>1 DEF PcInv, ChainInv
<1>4. \A u \in L \cup {a} : /\ LeftNow[u] \in -Service!LateBound..MaxDelay /\ LeftNow[u] \in Int
                            /\ LeftNow[u] = Signed(ts[u] - tsc) /\ ts[u] \in Int
  BY <1>1, Distances, ModulusFacts
<1>5. Expires(ts[a], ts[node]) <=> LeftNow[a] <= LeftNow[node]
  <2>1. tsc \in Int
    BY ModulusFacts DEF PcInv, StampInv
  <2>2. PICK x \in Int, y \in Int : x = ts[a] /\ y = ts[node]
    BY <1>1, <1>4
  <2>3. Signed(x - tsc) = LeftNow[a] /\ Signed(y - tsc) = LeftNow[node]
    BY <1>1, <1>4, <2>2
  <2> QED
    BY <1>1, <1>4, <2>1, <2>2, <2>3, ExpiresByDistance
<1>6. \A u \in L : r[u] \in Int /\ r[u] >= 1
  BY <1>3 DEF Chain
<1>7. list.head # NoTimer /\ list.head \in L /\ r[list.head] = 1
  BY <1>1, <1>3 DEF Chain
<1>8. list.prev[node] = NoTimer <=> node = list.head
  BY <1>1, <1>2 DEF WellLinked
<1> HIDE DEF L
<1>9. ASSUME list'.on = list.on, At' = At, pc' # "crash"
      PROVE  /\ ArmedNow' = ArmedNow /\ LeftNow' = LeftNow /\ live' = live /\ slice' = slice /\ cur' = cur
  BY <1>1, <1>9 DEF ArmedNow, LeftNow, cpuVars
<1>10. ASSUME EnableDone, list'.on = list.on
       PROVE  At' = At /\ pc' \in {"boot", "cpu", "callback"} /\ Listed' = L \cup {a}
  BY <1>1, <1>10 DEF EnableDone, At, Listed, L, cpuVars
<1>11. CASE WalkInsert
  <2> DEFINE m == LinkedBefore(list, adding, node)
  <2>1. list' = m /\ EnableDone /\ Expires(ts[a], ts[node])
        /\ target' = IF list.prev[node] = NoTimer THEN ts[a] ELSE target
    BY <1>11 DEF WalkInsert
  <2>2. m.on = list.on
    BY DEF LinkedBefore
  <2>3. PICK s, k : /\ Chain(m, L \cup {a}, s, k)
                    /\ \A u, v \in L : s[u] < s[v] => r[u] < r[v]
                    /\ \A u \in L : /\ s[u] < s[a] => r[u] < r[node]
                                    /\ s[a] < s[u] => r[node] <= r[u]
    <3>1. \A M \in SUBSET Timers, x \in Timers, y \in Timers :
             WellLinked(list, M) /\ Chain(list, M, r, n) /\ x \notin M /\ y \in M =>
               \E s, k : /\ Chain(LinkedBefore(list, x, y), M \cup {x}, s, k)
                         /\ \A u, v \in M : s[u] < s[v] => r[u] < r[v]
                         /\ \A u \in M : /\ s[u] < s[x] => r[u] < r[y]
                                         /\ s[x] < s[u] => r[y] <= r[u]
      <4> SUFFICES ASSUME NEW M \in SUBSET Timers, NEW x \in Timers, NEW y \in Timers,
                          WellLinked(list, M), Chain(list, M, r, n), x \notin M, y \in M
                   PROVE  \E s, k : /\ Chain(LinkedBefore(list, x, y), M \cup {x}, s, k)
                                    /\ \A u, v \in M : s[u] < s[v] => r[u] < r[v]
                                    /\ \A u \in M : /\ s[u] < s[x] => r[u] < r[y]
                                                    /\ s[x] < s[u] => r[y] <= r[u]
        OBVIOUS
      <4>1. x \in Timers \ M /\ list \in Lists
        BY <1>1
      <4> QED
        BY <4>1, ChainBefore
    <3>2. a \in Timers /\ node \in Timers
      BY <1>1
    <3> QED
      BY <1>1, <1>2, <1>3, <3>1, <3>2, Zenon DEF m
  <2> HIDE DEF m
  <2>4. /\ At' = At /\ pc' \in {"boot", "cpu", "callback"} /\ Listed' = L \cup {a}
        /\ ArmedNow' = ArmedNow /\ LeftNow' = LeftNow /\ live' = live /\ slice' = slice /\ cur' = cur
    BY <1>9, <1>10, <2>1, <2>2
  <2>5. WakeNow' = WakeNow
    BY <1>1, <1>8, <2>1, <2>4 DEF WakeNow
  <2>6. StampInv'
    BY <1>1, <2>1, ModulusFacts DEF PcInv, StampInv
  <2>7. \A u \in L : /\ r[u] < r[node] => LeftNow[u] <= LeftNow[a]
                     /\ r[node] <= r[u] => LeftNow[a] <= LeftNow[u]
    <3> SUFFICES ASSUME NEW u \in L
                 PROVE  /\ r[u] < r[node] => LeftNow[u] <= LeftNow[a]
                        /\ r[node] <= r[u] => LeftNow[a] <= LeftNow[u]
      OBVIOUS
    <3>1. r[u] < r[node] => LeftNow[u] < LeftNow[a]
      BY <1>1, <1>3 DEF SortedBy, L
    <3>2. LeftNow[a] <= LeftNow[node]
      BY <1>5, <2>1
    <3>3. r[node] < r[u] => LeftNow[node] <= LeftNow[u]
      BY <1>1, <1>3 DEF SortedBy, L
    <3>4. r[node] = r[u] => node = u
      BY <1>1, <1>3 DEF Chain
    <3>5. /\ LeftNow[u] \in Int /\ LeftNow[a] \in Int /\ LeftNow[node] \in Int
          /\ r[u] \in Int /\ r[node] \in Int
      BY <1>1, <1>4, <1>6
    <3> QED
      BY <3>1, <3>2, <3>3, <3>4, <3>5
  <2>8. \A u, v \in L \cup {a} : s[u] < s[v] => LeftNow[u] <= LeftNow[v]
    <3>1. \A u, v \in L : s[u] < s[v] => LeftNow[u] <= LeftNow[v]
      BY <1>3, <2>3 DEF SortedBy, L
    <3>2. \A u \in L : /\ s[u] < s[a] => LeftNow[u] <= LeftNow[a]
                       /\ s[a] < s[u] => LeftNow[a] <= LeftNow[u]
      BY <2>3, <2>7
    <3>3. LeftNow[a] <= LeftNow[a]
      BY <1>4
    <3> QED
      BY <3>1, <3>2, <3>3
  <2>9. SortedBy(s)'
    BY <2>4, <2>8 DEF SortedBy
  <2>10. ChainInv'
    BY <2>1, <2>3, <2>4, <2>9 DEF ChainInv
  <2> QED
    BY <1>r, <2>4, <2>5, <2>6, <2>10 DEF Promised!vars, rearmVars
<1>12. CASE WalkAppend
  <2> DEFINE m == LinkedAfter(list, adding, node)
  <2>1. list' = m /\ EnableDone /\ ~Expires(ts[a], ts[node]) /\ target' = target /\ list.next[node] = NoTimer
    BY <1>12 DEF WalkAppend
  <2>2. m.on = list.on
    BY DEF LinkedAfter
  <2>3. PICK s, k : /\ Chain(m, L \cup {a}, s, k)
                    /\ \A u, v \in L : s[u] < s[v] => r[u] < r[v]
                    /\ \A u \in L : s[u] < s[a] /\ r[u] <= r[node]
    <3>1. \A M \in SUBSET Timers, x \in Timers, y \in Timers :
             WellLinked(list, M) /\ Chain(list, M, r, n) /\ x \notin M /\ y \in M
             /\ list.next[x] = NoTimer /\ list.next[y] = NoTimer =>
               \E s, k : /\ Chain(LinkedAfter(list, x, y), M \cup {x}, s, k)
                         /\ \A u, v \in M : s[u] < s[v] => r[u] < r[v]
                         /\ \A u \in M : s[u] < s[x] /\ r[u] <= r[y]
      <4> SUFFICES ASSUME NEW M \in SUBSET Timers, NEW x \in Timers, NEW y \in Timers,
                          WellLinked(list, M), Chain(list, M, r, n), x \notin M, y \in M,
                          list.next[x] = NoTimer, list.next[y] = NoTimer
                   PROVE  \E s, k : /\ Chain(LinkedAfter(list, x, y), M \cup {x}, s, k)
                                    /\ \A u, v \in M : s[u] < s[v] => r[u] < r[v]
                                    /\ \A u \in M : s[u] < s[x] /\ r[u] <= r[y]
        OBVIOUS
      <4>1. x \in Timers \ M /\ list \in Lists
        BY <1>1
      <4> QED
        BY <4>1, ChainAfter
    <3>2. a \in Timers /\ node \in Timers
      BY <1>1
    <3> QED
      BY <1>1, <1>2, <1>3, <2>1, <3>1, <3>2, Zenon DEF m
  <2> HIDE DEF m
  <2>4. /\ At' = At /\ pc' \in {"boot", "cpu", "callback"} /\ Listed' = L \cup {a}
        /\ ArmedNow' = ArmedNow /\ LeftNow' = LeftNow /\ live' = live /\ slice' = slice /\ cur' = cur
    BY <1>9, <1>10, <2>1, <2>2
  <2>5. WakeNow' = WakeNow
    BY <1>1, <2>1, <2>4 DEF WakeNow
  <2>6. StampInv'
    BY <1>1, <2>1 DEF PcInv, StampInv
  <2>7. \A u \in L : LeftNow[u] <= LeftNow[a]
    <3> SUFFICES ASSUME NEW u \in L PROVE LeftNow[u] <= LeftNow[a]
      OBVIOUS
    <3>1. ~ (LeftNow[a] <= LeftNow[node])
      BY <1>5, <2>1
    <3>2. r[u] < r[node] => LeftNow[u] <= LeftNow[node]
      BY <1>1, <1>3 DEF SortedBy, L
    <3>3. r[u] = r[node] => u = node
      BY <1>1, <1>3 DEF Chain
    <3>4. /\ LeftNow[u] \in Int /\ LeftNow[a] \in Int /\ LeftNow[node] \in Int
          /\ r[u] \in Int /\ r[node] \in Int /\ r[u] <= r[node]
      BY <1>1, <1>4, <1>6, <2>3
    <3> QED
      BY <3>1, <3>2, <3>3, <3>4
  <2>8. \A u, v \in L \cup {a} : s[u] < s[v] => LeftNow[u] <= LeftNow[v]
    <3>1. \A u, v \in L : s[u] < s[v] => LeftNow[u] <= LeftNow[v]
      BY <1>3, <2>3 DEF SortedBy, L
    <3>2. LeftNow[a] <= LeftNow[a]
      BY <1>4
    <3>3. \A u \in L : s[u] \in Int /\ s[a] \in Int /\ s[u] < s[a]
      BY <1>1, <2>3 DEF Chain
    <3>4. \A u \in L : ~ (s[a] < s[u])
      BY <3>3
    <3> QED
      BY <2>7, <3>1, <3>2, <3>4
  <2>9. SortedBy(s)'
    BY <2>4, <2>8 DEF SortedBy
  <2>10. ChainInv'
    BY <2>1, <2>3, <2>4, <2>9 DEF ChainInv
  <2> QED
    BY <1>r, <2>4, <2>5, <2>6, <2>10 DEF Promised!vars, rearmVars
<1>13. CASE WalkOn
  <2>1. /\ node' = list.next[node] /\ node' # NoTimer /\ ~Expires(ts[a], ts[node])
        /\ UNCHANGED <<list, pc, adding, ret, target>>
    BY <1>13 DEF WalkOn
  <2>2. At' = At /\ Listed' = L
    BY <1>1, <2>1 DEF At, Listed, L, cpuVars
  <2>3. ArmedNow' = ArmedNow /\ LeftNow' = LeftNow /\ live' = live /\ slice' = slice /\ cur' = cur
    BY <1>1, <1>9, <2>1, <2>2
  <2>4. node' \in L /\ r[node'] = r[node] + 1
    BY <1>1, <1>3, <2>1 DEF Chain
  <2>5. node' # list.head
    <3>1. r[node] \in Int /\ r[node] >= 1
      BY <1>1, <1>6
    <3> QED
      BY <1>7, <2>4, <3>1
  <2>6. WakeNow' = WakeNow
    BY <1>1, <2>1, <2>5 DEF WakeNow
  <2>7. StampInv'
    BY <1>1, <2>1 DEF PcInv, StampInv
  <2>8. ASSUME NEW u \in L, r[u] < r[node'] PROVE LeftNow[u] < LeftNow[a]
    <3>1. LeftNow[node] < LeftNow[a]
      BY <1>1, <1>4, <1>5, <2>1
    <3>2. CASE r[u] = r[node]
      <4>1. u = node
        BY <1>1, <1>3, <3>2 DEF Chain
      <4> QED
        BY <3>1, <4>1
    <3>3. CASE r[u] < r[node]
      BY <1>1, <1>3, <3>3 DEF SortedBy, L
    <3>4. r[u] \in Int /\ r[node] \in Int
      BY <1>1, <1>6
    <3> QED
      BY <2>4, <2>8, <3>2, <3>3, <3>4
  <2>9. SortedBy(r)'
    <3>1. \A u, v \in L : r[u] < r[v] => LeftNow[u] <= LeftNow[v]
      BY <1>3 DEF SortedBy, L
    <3> QED
      BY <2>1, <2>2, <2>3, <2>8, <3>1 DEF SortedBy
  <2>10. ChainInv'
    BY <1>1, <1>3, <2>1, <2>2, <2>9 DEF ChainInv
  <2> QED
    BY <1>r, <2>2, <2>3, <2>6, <2>7, <2>10 DEF Promised!vars, rearmVars
<1> QED
  BY <1>11, <1>12, <1>13

\* timer_process is entered or left, or the machine is started: the list stays.
LEMMA ControlMaps ==
  ASSUME PcInv, Return \/ StartMachine \/ Poll
  PROVE  [Promised!Next]_Promised!vars /\ StampInv' /\ ChainInv'
<1> USE Constants
<1>1. /\ UNCHANGED <<list, ts, target, tsc, live, walkVars>> /\ pc \in {"boot", "cpu", "callback"} /\ At = pc
      /\ pc' \in {"cpu", "process"} /\ At' = pc' /\ (cur' = cur \/ (pc = "callback" /\ cur' = NoTimer))
      /\ list \in Lists /\ live \subseteq Timers /\ cur \in live \cup {NoTimer}
      /\ (pc = "callback" => cur # NoTimer)
      /\ Sound(list, Listed, live) /\ Listed = OnIn(list, live)
  BY ListedOutsideWalk DEF Return, StartMachine, Poll, PcInv, LinkInd, CurPhase, At
<1>r. UNCHANGED Promised!rearmVars
  BY DEF Return, StartMachine, Poll, rearmVars, Promised!rearmVars
<1>2. StampInv' /\ Listed' = Listed /\ ArmedNow' = ArmedNow /\ WakeNow' = WakeNow /\ ArmedNow = Listed
  BY <1>1 DEF PcInv, StampInv, Listed, ArmedNow, WakeNow, walkVars, OnIn
<1>3. \A t \in Listed : LeftNow'[t] = LeftNow[t]
  BY <1>1 DEF LeftNow, Listed
<1>4. ChainInv'
  BY <1>1, <1>2, <1>3, ChainKept DEF PcInv
<1>5. CASE Return
  <2>1. pc = "callback" /\ pc' = "process" /\ cur' = NoTimer /\ slice' = slice /\ cur \in live
        /\ (cur \in Permanent => list.on[cur]) /\ (cur \in ArmedNow <=> list.on[cur])
    BY <1>1, <1>5 DEF Return, ArmedNow
  <2>2. LeftNow' = IF cur \in ArmedNow THEN LeftNow ELSE [LeftNow EXCEPT ![cur] = 0]
    <3>1. \A u \in Timers : LeftNow'[u] = IF u = cur /\ ~list.on[cur] THEN 0 ELSE LeftNow[u]
      BY <1>1, <2>1 DEF LeftNow
    <3>2. LeftNow' \in [Timers -> Int]
      <4>1. \A u \in Timers : Signed(ts'[u] - tsc') \in Int
        BY <1>2, SignedRange, ModulusFacts DEF StampInv
      <4> QED
        BY <4>1 DEF LeftNow
    <3> QED
      BY <1>1, <2>1, <3>1, <3>2, Distances
  <2>3. Promised!Return
    BY <1>1, <1>2, <1>r, <2>1, <2>2 DEF Promised!Return, Promised!rearmVars
  <2> QED
    BY <1>2, <1>4, <2>3 DEF Promised!Next
<1>6. CASE StartMachine
  <2>1. LeftNow' = LeftNow
    BY <1>1, <1>6 DEF LeftNow, StartMachine
  <2>2. WakeNow = Signed(target - tsc)
    BY <1>1 DEF WakeNow
  <2>3. Promised!StartMachine
    BY <1>1, <1>2, <1>6, <1>r, <2>1, <2>2
       DEF StartMachine, Promised!StartMachine, TopOfLoop, Promised!TopOfLoop, Promised!rearmVars
  <2> QED
    BY <1>2, <1>4, <2>3 DEF Promised!Next
<1>7. CASE Poll
  <2>1. LeftNow' = LeftNow
    BY <1>1, <1>7 DEF LeftNow, Poll
  <2>2. ArmedNow # {}
    BY <1>1, <1>2, <1>7 DEF Poll, Sound, WellLinked
  <2>3. Promised!Poll
    BY <1>1, <1>2, <1>7, <1>r, <2>1, <2>2 DEF Poll, Promised!Poll, Promised!rearmVars
  <2> QED
    BY <1>2, <1>4, <2>3 DEF Promised!Next
<1> QED
  BY <1>5, <1>6, <1>7

\* An instruction or a block runs: every distance shrinks by as much.
LEMMA RunMaps ==
  ASSUME PcInv, NEW c \in 1..MaxStep, Run(c)
  PROVE  Promised!Run(c) /\ StampInv' /\ ChainInv'
<1> USE Constants
<1>1. /\ pc = "cpu" /\ At = "cpu" /\ cur = NoTimer /\ cur' = cur /\ tsc' = (tsc + c) % Modulus
      /\ UNCHANGED <<list, ts, target, live, walkVars>> /\ pc' \in {"cpu", "process"} /\ At' = pc'
      /\ list \in Lists /\ live \subseteq Timers
      /\ Sound(list, Listed, live) /\ Listed = OnIn(list, live) /\ ArmedNow = Listed /\ ArmedNow' = ArmedNow
      /\ Listed' = Listed
  BY ListedOutsideWalk DEF Run, PcInv, LinkInd, CurPhase, At, ArmedNow, OnIn, Listed, walkVars
<1>2. /\ slice \in Int /\ slice >= 1 /\ c \in Int /\ c >= 1 /\ c <= MaxStep /\ MaxStep \in Int /\ MaxDelay \in Int
      /\ Service!LongestSlice \in Int /\ Service!LateBound = MaxStep + Service!LongestSlice - 1
      /\ Service!LateBound \in Nat
      /\ WakeNow >= slice - Service!LongestSlice
      /\ \A t \in ArmedNow : LeftNow[t] >= slice - Service!LongestSlice
  <2>1. slice >= 1 /\ WakeNow >= slice - Service!LongestSlice
        /\ \A t \in ArmedNow : LeftNow[t] >= slice - Service!LongestSlice
    BY <1>1, PromisedConstants DEF PcInv, Promised!Ind, Promised!CpuPhase
  <2>2. MaxStep \in Int /\ MaxDelay \in Int /\ Service!LongestSlice \in Int /\ c \in Int /\ c <= MaxStep /\ c >= 1
        /\ Service!LateBound = MaxStep + Service!LongestSlice - 1
    BY PcTimerAssumption DEF Service!TimerServiceAssumption, Service!LateBound, Service!LongestSlice
  <2> QED
    BY <2>1, <2>2, Distances
<1>3. ASSUME NEW x \in Int, x >= slice - Service!LongestSlice, x <= MaxDelay
      PROVE  -Modulus <= 2 * (x - c) /\ 2 * (x - c) < Modulus
  BY <1>2, <1>3, ModulusFacts
<1>4. tsc \in Int /\ target \in Int /\ \A t \in Timers : ts[t] \in Int
  BY ModulusFacts DEF PcInv, StampInv
<1>5. WakeNow = Signed(target - tsc) /\ WakeNow \in Int /\ WakeNow <= MaxDelay
  BY <1>1, Distances DEF WakeNow
<1>6. Signed(target - tsc') = Signed(target - tsc) - c /\ tsc' \in 0..Modulus - 1
  <2>1. -Modulus <= 2 * (Signed(target - tsc) - c) /\ 2 * (Signed(target - tsc) - c) < Modulus
    BY <1>2, <1>3, <1>5
  <2>2. /\ Signed(target - ((tsc + c) % Modulus)) = Signed(target - tsc) - c
        /\ ((tsc + c) % Modulus) \in 0..Modulus - 1
    BY <1>2, <1>4, <2>1, Nearer
  <2> QED
    BY <1>1, <2>2
<1>7. WakeNow' = WakeNow - c
  BY <1>1, <1>5, <1>6 DEF WakeNow
<1>8. \A t \in ArmedNow : LeftNow'[t] = LeftNow[t] - c /\ LeftNow[t] \in Int
  <2> SUFFICES ASSUME NEW t \in ArmedNow PROVE LeftNow'[t] = LeftNow[t] - c /\ LeftNow[t] \in Int
    OBVIOUS
  <2>1. t \in live /\ t \in Timers /\ list.on[t] /\ ts[t] \in Int
    BY <1>1, <1>4 DEF ArmedNow
  <2>2. LeftNow[t] = Signed(ts[t] - tsc) /\ LeftNow[t] \in Int /\ LeftNow[t] <= MaxDelay
    <3>1. LeftNow[t] \in -Service!LateBound..MaxDelay
      BY <1>1, <2>1, Distances
    <3> QED
      BY <2>1, <3>1, <1>2, Distances
  <2>3. -Modulus <= 2 * (Signed(ts[t] - tsc) - c) /\ 2 * (Signed(ts[t] - tsc) - c) < Modulus
    BY <1>2, <1>3, <2>2
  <2>4. Signed(ts[t] - ((tsc + c) % Modulus)) = Signed(ts[t] - tsc) - c
    <3>1. PICK s \in Int : s = ts[t]
      BY <2>1
    <3> QED
      BY <1>2, <1>4, <2>3, <3>1, Nearer
  <2>5. LeftNow'[t] = Signed(ts[t] - tsc')
    BY <1>1, <2>1 DEF LeftNow
  <2> QED
    BY <1>1, <2>2, <2>4, <2>5
<1>9. LeftNow' = [t \in Timers |-> IF t \in ArmedNow THEN LeftNow[t] - c ELSE LeftNow[t]]
  <2>1. \A t \in Timers : LeftNow'[t] = IF t \in ArmedNow THEN LeftNow[t] - c ELSE LeftNow[t]
    <3>1. \A t \in Timers : t \notin ArmedNow => LeftNow'[t] = 0 /\ LeftNow[t] = 0
      BY <1>1 DEF LeftNow, ArmedNow
    <3> QED
      BY <1>8, <3>1
  <2>2. LeftNow' = [t \in Timers |-> LeftNow'[t]]
    BY DEF LeftNow
  <2> QED
    BY <2>1, <2>2
<1>10. StampInv'
  BY <1>1, <1>6 DEF PcInv, StampInv
<1>11. ChainInv'
  <2>1. \A t, u \in Listed : LeftNow[t] <= LeftNow[u] => LeftNow'[t] <= LeftNow'[u]
    BY <1>1, <1>2, <1>8
  <2> QED
    BY <1>1, <2>1, ChainKept DEF PcInv
<1>12. Due(tsc') <=> Promised!Due(WakeNow - c)
  <2>1. Expires(target, tsc') <=> WakeNow - c <= 0
    BY <1>5, <1>6 DEF Expires
  <2>2. list.head # NoTimer <=> ArmedNow # {}
    <3>1. PICK r, n : Chain(list, Listed, r, n)
      BY <1>1 DEF PcInv, ChainInv
    <3> QED
      BY <1>1, <3>1 DEF Chain
  <2> QED
    BY <2>1, <2>2 DEF Due, Promised!Due
<1>13. TopOfLoop(target, tsc', slice - c) = Promised!TopOfLoop(WakeNow - c, slice - c)
  BY <1>5, <1>6 DEF TopOfLoop, Promised!TopOfLoop
<1>14. Promised!Run(c)
  <2>1. /\ pc' = IF slice - c <= 0 /\ Due(tsc') THEN "process" ELSE "cpu"
        /\ slice' = IF slice - c <= 0 /\ ~Due(tsc')
                    THEN TopOfLoop(target, tsc', slice - c) ELSE slice - c
        /\ UNCHANGED Promised!rearmVars
    BY DEF Run, rearmVars, Promised!rearmVars
  <2> QED
    BY <1>1, <1>7, <1>9, <1>12, <1>13, <2>1 DEF Promised!Run, Promised!rearmVars
<1> QED
  BY <1>10, <1>11, <1>14

\* timer_process takes the head off: it is the first timer to expire.
LEMMA FireMaps ==
  ASSUME PcInv, Fire
  PROVE  Promised!Fire(list.head) /\ StampInv' /\ ChainInv'
<1> USE Constants
<1> DEFINE L == Listed
           h == list.head
<1>1. /\ pc = "process" /\ At = "process" /\ h # NoTimer /\ Expires(ts[h], tsc) /\ cur' = h
      /\ UNCHANGED <<ts, target, tsc, slice, live, walkVars>> /\ pc' \in {"crash", "callback"} /\ At' = pc'
      /\ list \in Lists /\ live \subseteq Timers /\ cur = NoTimer
      /\ Sound(list, L, live) /\ L = OnIn(list, live) /\ ArmedNow = L /\ adding = NoTimer
  BY ListedOutsideWalk DEF Fire, PcInv, LinkInd, CurPhase, At, ArmedNow, OnIn
<1>r. UNCHANGED Promised!rearmVars
  BY DEF Fire, rearmVars, Promised!rearmVars
<1>2. h \in L /\ h \in live /\ L \in SUBSET Timers /\ L \subseteq live /\ WellLinked(list, L) /\ h \in Timers
      /\ list.on[h]
  BY <1>1 DEF Sound, WellLinked, OnIn
<1>3. PICK r, n : Chain(list, L, r, n) /\ SortedBy(r)
  BY <1>1 DEF PcInv, ChainInv
<1> HIDE DEF L
<1>4. \A u \in L : r[u] \in 1..n /\ (r[u] = 1 => u = h) /\ r[h] = 1 /\ n \in Nat
  BY <1>1, <1>2, <1>3 DEF Chain
<1>5. \A u \in L : LeftNow[h] <= LeftNow[u] /\ LeftNow[u] \in Int
  <2>1. LeftNow \in [Timers -> Int]
    BY Distances
  <2>2. \A u \in L : u # h => r[h] < r[u]
    BY <1>4
  <2>3. \A u \in L : u # h => LeftNow[h] <= LeftNow[u]
    BY <1>2, <1>3, <2>2 DEF SortedBy, L
  <2> QED
    BY <1>2, <2>1, <2>3
<1>6. LeftNow[h] <= 0
  BY <1>1, <1>2, Distances DEF Expires
<1>7. StampInv' /\ WakeNow' = WakeNow
  BY <1>1 DEF PcInv, StampInv, WakeNow
<1>8. ASSUME \A u \in Timers : u # h => (list'.on[u] = list.on[u])
      PROVE  LeftNow' = LeftNow
  BY <1>1, <1>2, <1>8 DEF LeftNow
<1>9. CASE list.next[h] = NoTimer
  <2>1. pc' = "crash" /\ list' = [list EXCEPT !.head = NoTimer]
    BY <1>1, <1>9 DEF Fire
  <2>2. list'.on = list.on /\ list'.next = list.next
    BY <1>1, <2>1 DEF Lists
  <2>3. L = {h}
    <3>1. n = 1
      BY <1>2, <1>3, <1>4, <1>9 DEF Chain
    <3> QED
      BY <1>2, <1>4, <3>1
  <2>4. Listed' = L
    BY <1>1, <2>2 DEF Listed, L, walkVars
  <2>5. ChainInv'
    BY <1>9, <2>1, <2>2, <2>3, <2>4 DEF ChainInv
  <2>6. ArmedNow' = {} /\ LeftNow' = LeftNow
    BY <1>8, <2>1, <2>2 DEF ArmedNow
  <2> QED
    BY <1>1, <1>2, <1>5, <1>6, <1>7, <1>r, <2>1, <2>3, <2>5, <2>6
       DEF Promised!Fire, Promised!rearmVars
<1>10. CASE list.next[h] # NoTimer
  <2> DEFINE m == Beheaded(list)
             k == Unlinked(list, h)
  <2>1. pc' = "callback" /\ list' = m
    BY <1>1, <1>10 DEF Fire
  <2>2. m.on = [list.on EXCEPT ![h] = FALSE]
    BY DEF Beheaded
  <2>3. m.head = k.head /\ \A u \in L : m.next[u] = k.next[u]
    <3>1. \A M \in SUBSET Timers : WellLinked(list, M) =>
            m.head = k.head /\ \A u \in M : m.next[u] = k.next[u]
      BY <1>1, <1>10, BeheadedIs
    <3> HIDE DEF m, k
    <3> QED
      BY <1>2, <3>1, Zenon
  <2>4. \E s, j : Chain(k, L \ {h}, s, j) /\ \A u, v \in L \ {h} : s[u] < s[v] => r[u] < r[v]
    <3>1. \A M \in SUBSET Timers, t \in Timers : WellLinked(list, M) /\ t \in M /\ Chain(list, M, r, n) =>
             \E s, j : Chain(Unlinked(list, t), M \ {t}, s, j) /\ \A u, v \in M \ {t} : s[u] < s[v] => r[u] < r[v]
      BY <1>1, ChainWithout
    <3> QED
      BY <1>2, <1>3, <3>1, Zenon
  <2> HIDE DEF m, k
  <2>5. PICK s, j : Chain(k, L \ {h}, s, j) /\ \A u, v \in L \ {h} : s[u] < s[v] => r[u] < r[v]
    BY <2>4
  <2>6. Chain(m, L \ {h}, s, j)
    <3> DEFINE K == L \ {h}
    <3>1. K \in SUBSET Timers /\ m.head = k.head /\ \A u \in K : m.next[u] = k.next[u]
      BY <1>2, <2>3
    <3>2. Chain(k, K, s, j)
      BY <2>5
    <3> HIDE DEF K
    <3>3. Chain(m, K, s, j)
      BY <3>1, <3>2, ChainSame
    <3> QED
      BY <3>3 DEF K
  <2>7. Listed' = L \ {h} /\ ArmedNow' = L \ {h}
    <3>1. \A u \in live : list'.on[u] <=> (list.on[u] /\ u # h)
      BY <1>1, <2>1, <2>2 DEF Lists
    <3> QED
      BY <1>1, <2>1, <3>1 DEF Listed, ArmedNow, OnIn, walkVars
  <2>8. LeftNow' = LeftNow
    <3>1. \A u \in Timers : u # h => (list'.on[u] = list.on[u])
      BY <1>1, <2>1, <2>2 DEF Lists
    <3> QED
      BY <1>8, <3>1
  <2>9. SortedBy(s)'
    BY <1>3, <2>1, <2>5, <2>7, <2>8 DEF SortedBy, L
  <2>10. ChainInv'
    BY <2>1, <2>6, <2>7, <2>9 DEF ChainInv
  <2>11. L # {h}
    BY <1>2, <1>3, <1>10, <1>4 DEF Chain
  <2> QED
    BY <1>1, <1>2, <1>5, <1>6, <1>7, <1>r, <2>1, <2>7, <2>8, <2>10, <2>11
       DEF Promised!Fire, Promised!rearmVars
<1> QED
  BY <1>9, <1>10

\* timer_process returns: the head's deadline is the first one.
LEMMA SettleMaps ==
  ASSUME PcInv, Settle
  PROVE  Promised!Settle /\ StampInv' /\ ChainInv'
<1> USE Constants
<1> DEFINE L == Listed
           h == list.head
<1>1. /\ pc = "process" /\ At = "process" /\ UNCHANGED <<list, ts, tsc, live, cur, walkVars>>
      /\ pc' \in {"crash", "cpu"} /\ At' = pc' /\ list \in Lists /\ live \subseteq Timers /\ cur = NoTimer
      /\ L = OnIn(list, live) /\ ArmedNow = L /\ Listed' = L /\ L \subseteq live
  BY ListedOutsideWalk DEF Settle, PcInv, LinkInd, CurPhase, At, ArmedNow, OnIn, Listed, walkVars
<1>r. still' = {} /\ kicked' = {}
  BY DEF Settle
<1>2. PICK r, n : Chain(list, L, r, n) /\ SortedBy(r)
  BY <1>1 DEF PcInv, ChainInv
<1> HIDE DEF L
<1>3. LeftNow' = LeftNow
  BY <1>1 DEF LeftNow
<1>4. CASE h = NoTimer
  <2>1. pc' = "crash" /\ UNCHANGED <<target, slice>>
    BY <1>4 DEF Settle
  <2>2. L = {}
    BY <1>2, <1>4 DEF Chain
  <2>3. ChainInv' /\ StampInv' /\ WakeNow' = WakeNow /\ ArmedNow' = ArmedNow
    BY <1>1, <2>1, <2>2 DEF ChainInv, PcInv, StampInv, WakeNow, ArmedNow
  <2> QED
    BY <1>1, <1>3, <1>r, <2>1, <2>2, <2>3 DEF Promised!Settle
<1>5. CASE h # NoTimer
  <2>1. /\ ~Expires(ts[h], tsc) /\ target' = ts[h] /\ pc' = "cpu"
        /\ slice' = (IF slice <= 0 THEN TopOfLoop(target', tsc, slice) ELSE slice)
    BY <1>5 DEF Settle
  <2>2. h \in L /\ h \in live /\ h \in Timers /\ list.on[h] /\ \A u \in L : u # h => r[h] < r[u]
    BY <1>1, <1>2, <1>5 DEF Chain, OnIn
  <2>3. LeftNow \in [Timers -> Int] /\ LeftNow[h] = Signed(ts[h] - tsc)
    BY <2>2, Distances
  <2>4. \A u \in L : LeftNow[h] <= LeftNow[u] /\ LeftNow[u] \in Int
    <3>1. \A u \in L : u # h => LeftNow[h] <= LeftNow[u]
      BY <1>2, <2>2 DEF SortedBy, L
    <3> QED
      BY <1>1, <2>2, <2>3, <3>1
  <2>5. \A u \in L : LeftNow[u] > 0
    <3>1. LeftNow[h] > 0
      BY <2>1, <2>2, <2>3 DEF Expires
    <3> QED
      BY <2>2, <2>4, <3>1
  <2>6. WakeNow' = LeftNow[h]
    BY <1>1, <2>1, <2>3 DEF WakeNow
  <2>7. slice' = (IF slice <= 0 THEN Promised!TopOfLoop(WakeNow', slice) ELSE slice)
    BY <1>1, <2>1, <2>3, <2>6 DEF TopOfLoop, Promised!TopOfLoop
  <2>8. StampInv' /\ ArmedNow' = ArmedNow
    BY <1>1, <2>1, <2>2 DEF PcInv, StampInv, ArmedNow
  <2>9. ChainInv'
    <3>1. SortedBy(r)'
      BY <1>1, <1>2, <1>3, <2>1 DEF SortedBy, L
    <3> QED
      BY <1>1, <1>2, <2>1, <3>1 DEF ChainInv
  <2> QED
    BY <1>1, <1>3, <1>r, <2>1, <2>2, <2>4, <2>5, <2>6, <2>7, <2>8, <2>9 DEF Promised!Settle
<1> QED
  BY <1>4, <1>5

\* timer_reset.
LEMMA ResetMaps ==
  ASSUME PcInv, Reset
  PROVE  Promised!Reset /\ StampInv' /\ ChainInv'
<1> USE Constants
<1>1. /\ pc = "cpu" /\ At = "cpu" /\ cur = NoTimer /\ cur' = NoTimer /\ target' = 0 /\ tsc' = 0 /\ ts' = ts
      /\ live' = {} /\ slice' = 0 /\ pc' = "boot" /\ At' = "boot" /\ list'.head = NoTimer
  BY DEF Reset, PcInv, LinkInd, CurPhase, At, Lists
<1>r. UNCHANGED Promised!rearmVars
  BY DEF Reset, rearmVars, Promised!rearmVars
<1>2. StampInv'
  BY <1>1, ModulusFacts DEF PcInv, StampInv
<1>3. Listed' = {} /\ ArmedNow' = {}
  BY <1>1 DEF Listed, ArmedNow
<1>4. LeftNow' = [t \in Timers |-> 0]
  BY <1>1 DEF LeftNow
<1>5. WakeNow' = 0
  <2>1. Signed(0 - 0) = 0
    BY SignedZero
  <2> QED
    BY <1>1, <2>1 DEF WakeNow
<1>6. ChainInv'
  <2>1. Chain(list', Listed', [t \in Timers |-> 0], 0)
    BY <1>1, <1>3 DEF Chain
  <2>2. SortedBy([t \in Timers |-> 0])'
    BY <1>1, <1>3 DEF SortedBy
  <2> QED
    BY <1>1, <2>1, <2>2 DEF ChainInv
<1> QED
  BY <1>1, <1>2, <1>3, <1>4, <1>5, <1>6, <1>r DEF Promised!Reset, Promised!rearmVars

\* At first there is no list.
LEMMA InitMaps == Init => Promised!Init /\ StampInv /\ ChainInv
<1> SUFFICES ASSUME Init PROVE Promised!Init /\ StampInv /\ ChainInv
  OBVIOUS
<1>1. /\ live = {} /\ pc = "boot" /\ cur = NoTimer /\ slice = 0 /\ target = 0 /\ tsc = 0 /\ At = "boot"
      /\ list.head = NoTimer /\ ts = [t \in Timers |-> 0]
  BY DEF Init, EmptyList, At
<1>r. still = {} /\ kicked = {}
  BY DEF Init
<1>2. StampInv
  BY <1>1, ModulusFacts DEF StampInv
<1>3. Listed = {} /\ ArmedNow = {}
  BY <1>1 DEF Listed, ArmedNow
<1>4. LeftNow = [t \in Timers |-> 0]
  BY <1>1, Constants DEF LeftNow
<1>5. WakeNow = 0
  <2>1. Signed(0 - 0) = 0
    BY SignedZero
  <2> QED
    BY <1>1, <2>1 DEF WakeNow
<1>6. ChainInv
  <2>1. Chain(list, Listed, [t \in Timers |-> 0], 0)
    BY <1>1, <1>3 DEF Chain
  <2>2. SortedBy([t \in Timers |-> 0])
    BY <1>1, <1>3 DEF SortedBy
  <2> QED
    BY <1>1, <2>1, <2>2 DEF ChainInv
<1> QED
  BY <1>1, <1>2, <1>3, <1>4, <1>5, <1>6, <1>r DEF Promised!Init

\* Every step of timer.c is a step of the service, or one it does not see.
LEMMA StepMaps ==
  ASSUME PcInv, [Next]_vars
  PROVE  [Promised!Next]_Promised!vars /\ StampInv' /\ ChainInv'
<1>1. ASSUME NEW t \in Timers, NEW start \in BOOLEAN, Add(t, start)
      PROVE  Promised!Next /\ StampInv' /\ ChainInv'
  BY <1>1, AddMaps DEF Promised!Next
<1>2. ASSUME NEW t \in Timers, NEW d \in 0..MaxDelay, SetDelay(t, d)
      PROVE  Promised!Next /\ StampInv' /\ ChainInv'
  BY <1>2, SetDelayMaps DEF Promised!Next
<1>3. ASSUME NEW t \in Timers, Disable(t)
      PROVE  Promised!Next /\ StampInv' /\ ChainInv'
  BY <1>3, DisableMaps DEF Promised!Next
<1>4. ASSUME NEW d \in 0..MaxDelay, Advance(d)
      PROVE  Promised!Next /\ StampInv' /\ ChainInv'
  BY <1>4, AdvanceMaps DEF Promised!Next
<1>5. ASSUME NEW c \in 1..MaxStep, Run(c)
      PROVE  Promised!Next /\ StampInv' /\ ChainInv'
  BY <1>5, RunMaps DEF Promised!Next
<1>6. CASE Fire
  <2>1. list.head \in Timers
    BY <1>6 DEF Fire, PcInv, LinkInd, Lists
  <2> QED
    BY <1>6, <2>1, FireMaps DEF Promised!Next
<1>7. CASE Settle
  BY <1>7, SettleMaps DEF Promised!Next
<1>8. CASE Reset
  BY <1>8, ResetMaps DEF Promised!Next
<1>9. CASE UNCHANGED vars
  <2>1. UNCHANGED Promised!vars
    BY <1>9 DEF vars, Promised!vars, ArmedNow, LeftNow, WakeNow, At
  <2>2. StampInv' /\ ChainInv'
    BY ZenonT(60), <1>9 DEF vars, PcInv, StampInv, ChainInv, SortedBy, Listed, LeftNow
  <2> QED
    BY <2>1, <2>2
<1> QED
  BY <1>1, <1>2, <1>3, <1>4, <1>5, <1>6, <1>7, <1>8, <1>9, ControlMaps, WalkMaps DEF Next

\* The whole invariant: the links, the stamps, the chain, and what the service promises.
THEOREM PcInvariance == Spec => []PcInv
<1>1. Init => PcInv
  <2>1. Promised!Init => Promised!Ind
    BY PromisedConstants, Promised!InitInd
  <2> QED
    BY <2>1, InitMaps, InitLinks DEF PcInv
<1>2. PcInv /\ [Next]_vars => PcInv'
  <2>1. PcInv /\ [Next]_vars => LinkInd'
    BY StepLinks DEF PcInv
  <2> QED
    BY <2>1, StepMaps, PromisedStep DEF PcInv
<1> QED
  BY <1>1, <1>2, PTL DEF Spec

\* timer.c and timer.h do what TimerService promises: a linked list, walked a node at a
\* time and compared by wrapping stamps, fires and arms like a set of deadlines.
THEOREM KeepsPromises == Spec => Implements
<1>1. Init => Service!Init
  BY InitMaps, SameService
<1>2. PcInv /\ [Next]_vars => [Service!Next]_Service!vars
  BY StepMaps, SameService
<1> QED
  BY <1>1, <1>2, PcInvariance, PTL DEF Spec, Implements, Service!Spec

\* timer_enable returns to a place it can be called from.
RetOK == ret \in {"boot", "cpu", "callback"}

\* Where timer_enable returns to is where it was called.
LEMMA RetStep == RetOK /\ [Next]_vars => RetOK'
<1> SUFFICES ASSUME RetOK, [Next]_vars PROVE RetOK'
  OBVIOUS
<1>1. ASSUME NEW l, NEW t, NEW stamp, Enable(l, t, stamp), pc \in {"boot", "cpu", "callback"}
      PROVE  RetOK'
  BY <1>1 DEF Enable, RetOK, walkVars
<1>2. ASSUME NEW t \in Timers, NEW start \in BOOLEAN, Add(t, start)
      PROVE  RetOK'
  BY <1>1, <1>2 DEF Add, RetOK, walkVars
<1>3. ASSUME NEW t \in Timers, NEW d \in 0..MaxDelay, SetDelay(t, d)
      PROVE  RetOK'
  BY <1>1, <1>3 DEF SetDelay, DevicesRun
<1>4. ASSUME NEW d \in 0..MaxDelay, Advance(d)
      PROVE  RetOK'
  BY <1>1, <1>4 DEF Advance
<1> QED
  BY <1>2, <1>3, <1>4 DEF RetOK, Next, vars, walkVars, Disable, Return, StartMachine, Run, Poll, Fire,
     Settle, Reset, WalkInsert, WalkAppend, WalkOn, EnableDone

\* Type correctness of timer.c's data.
THEOREM PcTypeCorrect == Spec => []TypeOK
<1>1. PcInv /\ RetOK => TypeOK
  <2> SUFFICES ASSUME PcInv, RetOK PROVE TypeOK
    OBVIOUS
  <2>1. slice \in Int
    BY Distances
  <2>2. still \subseteq Timers /\ kicked \subseteq Timers
    BY DEF PcInv, Promised!Ind, Promised!TypeOK
  <2> QED
    BY <2>1, <2>2 DEF PcInv, LinkInd, StampInv, WalkPhase, CurPhase, At, Lists, TypeOK, Listed, RetOK
<1>2. Init => RetOK
  BY DEF Init, RetOK
<1> QED
  BY <1>1, <1>2, RetStep, PcInvariance, PTL DEF Spec

\* Neighbours in the list are in deadline order, seen from now, although timer_enable
\* compares only their wrapping stamps with one another, maybe long before.
THEOREM ListOrdered == Spec => []Ordered
<1>1. PcInv => Ordered
  <2> SUFFICES ASSUME PcInv, NEW t \in Listed, list.next[t] # NoTimer
               PROVE  Signed(ts[t] - tsc) <= Signed(ts[list.next[t]] - tsc)
    BY DEF Ordered
  <2>1. PICK r, n : Chain(list, Listed, r, n) /\ SortedBy(r)
    BY DEF PcInv, ChainInv
  <2>2. list.next[t] \in Listed /\ r[list.next[t]] = r[t] + 1 /\ r[t] \in Int
    BY <2>1 DEF Chain
  <2>3. LeftNow[t] <= LeftNow[list.next[t]]
    BY <2>1, <2>2 DEF SortedBy
  <2>4. \A u \in Listed : LeftNow[u] = Signed(ts[u] - tsc)
    BY Distances DEF Listed
  <2> QED
    BY <2>2, <2>3, <2>4
<1> QED
  BY <1>1, PcInvariance, PTL

\* f lists the timers of L by rank.
Enumerates(f, L, r, n) ==
  /\ f \in [1..n -> L]
  /\ \A t \in L : \E i \in 1..n : f[i] = t
  /\ \A i \in 1..n : r[f[i]] = i

\* A chain has as many timers as its last one's rank.
LEMMA ChainLength ==
  ASSUME NEW l, NEW L \in SUBSET Timers, NEW r, NEW n, Chain(l, L, r, n)
  PROVE  n \in Nat /\ Cardinality(L) = n /\ \E f : Enumerates(f, L, r, n)
<1> DEFINE f == [i \in 1..n |-> CHOOSE t \in L : r[t] = i]
<1>1. n \in Nat /\ \A i \in 1..n : f[i] \in L /\ r[f[i]] = i
  BY DEF Chain
<1>2. f \in [1..n -> L]
  BY <1>1
<1> HIDE DEF f
<1>3. \A t \in L : r[t] \in 1..n /\ f[r[t]] = t
  BY <1>1 DEF Chain
<1>4. f \in Bijection(1..n, L)
  <2>1. f \in Injection(1..n, L)
    BY <1>1, <1>2, Fun_IsInj
  <2>2. f \in Surjection(1..n, L)
    BY <1>2, <1>3, Fun_IsSurj
  <2> QED
    BY <2>1, <2>2, Fun_IsBij
<1>5. Cardinality(L) = n
  <2>1. ExistsBijection(1..n, L)
    BY <1>4 DEF ExistsBijection
  <2>2. IsFiniteSet(1..n) /\ Cardinality(1..n) = n
    BY <1>1, FS_Interval
  <2> QED
    BY <2>1, <2>2, FS_Bijection
<1>6. Enumerates(f, L, r, n)
  BY <1>1, <1>2, <1>3 DEF Enumerates
<1> QED
  BY <1>1, <1>5, <1>6

\* From the head the links go through every enabled timer once, and end: no timer is
\* lost behind another, and no walk of the list is endless.
THEOREM ListOneChain == Spec => []OneChain
<1>1. PcInv => OneChain
  <2> SUFFICES ASSUME PcInv, pc # "crash" PROVE OneChain
    BY DEF OneChain
  <2> DEFINE L == Listed
  <2>1. PICK r, n : Chain(list, L, r, n)
    BY DEF PcInv, ChainInv
  <2>2. L \in SUBSET Timers
    BY DEF PcInv, LinkInd, Listed
  <2> HIDE DEF L
  <2>3. n \in Nat /\ Cardinality(L) = n /\ \E f : Enumerates(f, L, r, n)
    BY <2>1, <2>2, ChainLength
  <2>4. PICK f : Enumerates(f, L, r, n)
    BY <2>3
  <2>5. /\ f \in [1..n -> L]
        /\ \A t \in L : \E i \in 1..n : f[i] = t
        /\ \A i \in 1..n : r[f[i]] = i
    BY <2>4 DEF Enumerates
  <2>6. DOMAIN f = 1..n
    BY <2>5
  <2>7. /\ \A t \in L : r[t] \in 1..n
        /\ \A t, u \in L : r[t] = r[u] => t = u
        /\ \A t \in L : IF list.next[t] = NoTimer THEN r[t] = n
                        ELSE list.next[t] \in L /\ r[list.next[t]] = r[t] + 1
        /\ IF list.head = NoTimer THEN L = {} ELSE list.head \in L /\ r[list.head] = 1
    BY <2>1 DEF Chain
  <2>8. \A i \in 1..n : f[i] \in L
    BY <2>5
  <2>9. list.head = IF L = {} THEN NoTimer ELSE f[1]
    <3>1. CASE list.head = NoTimer
      BY <2>7, <3>1
    <3>2. CASE list.head # NoTimer
      <4>1. list.head \in L /\ r[list.head] = 1 /\ 1 \in 1..n
        BY <2>7, <3>2
      <4>2. f[1] \in L /\ r[f[1]] = 1
        BY <2>5, <2>8, <4>1
      <4> QED
        BY <2>7, <4>1, <4>2
    <3> QED
      BY <3>1, <3>2
  <2>10. \A i \in 1..n : list.next[f[i]] = IF i = n THEN NoTimer ELSE f[i + 1]
    <3> SUFFICES ASSUME NEW i \in 1..n PROVE list.next[f[i]] = IF i = n THEN NoTimer ELSE f[i + 1]
      OBVIOUS
    <3> DEFINE t == f[i]
    <3>1. t \in L /\ r[t] = i
      BY <2>5, <2>8
    <3> HIDE DEF t
    <3>2. CASE list.next[t] = NoTimer
      <4>1. i = n
        BY <2>7, <3>1, <3>2
      <4> QED
        BY <3>2, <4>1 DEF t
    <3>3. CASE list.next[t] # NoTimer
      <4>1. list.next[t] \in L /\ r[list.next[t]] = i + 1
        BY <2>7, <3>1, <3>3
      <4>2. i + 1 \in 1..n /\ i # n
        <5>1. r[list.next[t]] \in 1..n
          BY <2>7, <4>1
        <5>2. n \in Nat
          BY <2>3
        <5> QED
          BY <4>1, <5>1, <5>2
      <4>3. f[i + 1] \in L /\ r[f[i + 1]] = i + 1
        BY <2>5, <2>8, <4>2
      <4>4. list.next[t] = f[i + 1]
        BY <2>7, <4>1, <4>3
      <4> QED
        BY <4>2, <4>4 DEF t
    <3> QED
      BY <3>2, <3>3
  <2>11. \E g \in [1..Cardinality(L) -> L] :
          /\ \A t \in L : \E i \in DOMAIN g : g[i] = t
          /\ list.head = IF L = {} THEN NoTimer ELSE g[1]
          /\ \A i \in DOMAIN g : list.next[g[i]] = IF i = Cardinality(L) THEN NoTimer ELSE g[i + 1]
    <3>1. /\ f \in [1..Cardinality(L) -> L]
          /\ \A t \in L : \E i \in DOMAIN f : f[i] = t
          /\ list.head = IF L = {} THEN NoTimer ELSE f[1]
          /\ \A i \in DOMAIN f : list.next[f[i]] = IF i = Cardinality(L) THEN NoTimer ELSE f[i + 1]
      <4>1. Cardinality(L) = n
        BY <2>3
      <4> QED
        BY <2>5, <2>6, <2>9, <2>10, <4>1
    <3> QED
      BY <3>1, Zenon
  <2> QED
    BY <2>11 DEF OneChain, L
<1> QED
  BY <1>1, PcInvariance, PTL

-----------------------------------------------------------------------------
(* What the service promises, of timer.c's own data. *)

\* timer_target's stamp is not behind any enabled timer's, but while timer_enable is
\* still looking for a timer's place.
TargetFirst ==
  pc \notin {"walk", "crash"} =>
    \A t \in Listed : Signed(target - tsc) <= Signed(ts[t] - tsc)

\* An enabled timer's stamp, and the running timer's, are near enough to the TSC for the
\* comparisons of 32-bit stamps.
StampsNear ==
  pc # "crash" =>
    \A t \in Listed \cup ({cur} \ {NoTimer}) :
      -Service!LateBound <= Signed(ts[t] - tsc) /\ Signed(ts[t] - tsc) <= MaxDelay

\* timer_head is not null when timer_remove_head has taken a timer off.
HeadLeft == (\E p, q \in Permanent : p # q) => pc # "crash"

\* What the invariant says of them.
LEMMA InvPromises == PcInv => TargetFirst /\ StampsNear
<1> SUFFICES ASSUME PcInv PROVE TargetFirst /\ StampsNear OBVIOUS
<1>1. Promised!WakeNeverLate /\ Promised!BoundedLateness /\ Promised!LateBound = Service!LateBound
  BY PromisedConstants DEF PcInv, Promised!Ind
<1>2. \A t \in Listed : t \in Timers /\ t \in live /\ list.on[t] /\ LeftNow[t] = Signed(ts[t] - tsc)
  BY DEF PcInv, LinkInd, Listed, LeftNow
<1>3. TargetFirst
  BY <1>1, <1>2 DEF TargetFirst, Promised!WakeNeverLate, ArmedNow, WakeNow
<1>4. StampsNear
  <2> SUFFICES ASSUME pc # "crash", NEW t \in Listed \cup ({cur} \ {NoTimer})
               PROVE  -Service!LateBound <= Signed(ts[t] - tsc) /\ Signed(ts[t] - tsc) <= MaxDelay
    BY DEF StampsNear
  <2>1. t \in ArmedNow \cup ({cur} \ {NoTimer}) BY <1>2 DEF ArmedNow
  <2>2. LeftNow[t] = Signed(ts[t] - tsc)
    BY <1>2 DEF PcInv, LinkInd, Promised!Ind, Promised!TypeOK, LeftNow
  <2>3. QED BY <1>1, <2>1, <2>2 DEF Promised!BoundedLateness
<1>5. QED BY <1>3, <1>4

\* timer_target, the moment the CPU loops look for timers, is never behind an enabled
\* timer's deadline, although both are wrapping stamps, timer_disable leaves it alone and
\* timer_enable moves it for a new head only.
THEOREM TargetIsFirst == Spec => []TargetFirst
BY InvPromises, PcInvariance, PTL

\* No enabled timer is later, and none is further ahead, than the bounds of the service
\* say, in the stamps of timer.c.
THEOREM StampsStayNear == Spec => []StampsNear
BY InvPromises, PcInvariance, PTL

\* timer_remove_head never reads through a null timer_head in a machine with two timers
\* that re-arm themselves.
THEOREM HeadNeverLost == Spec => []HeadLeft
<1>1. Init => Promised!Init BY InitMaps
<1>2. PcInv /\ [Next]_vars => [Promised!Next]_Promised!vars BY StepMaps
<1>3. Spec => Promised!Spec BY <1>1, <1>2, PcInvariance, PTL DEF Spec, Promised!Spec
<1>4. Promised!Spec => []Promised!NeverEmpty BY PromisedConstants, Promised!ListNeverEmpties
<1>5. Promised!NeverEmpty => HeadLeft BY DEF Promised!NeverEmpty, HeadLeft, At
<1>6. QED BY <1>3, <1>4, <1>5, PTL

\* The loop of timer_process ends, over the list and its stamps as it does over deadlines:
\* each turn uses one up, nothing a callback does adds one, and there are not many.
THEOREM TurnsEnd == Spec => Promised!TurnsShorten /\ []Promised!TurnsBounded
<1>1. Init => Promised!Init BY InitMaps
<1>2. PcInv /\ [Next]_vars => [Promised!Next]_Promised!vars BY StepMaps
<1>3. Spec => Promised!Spec BY <1>1, <1>2, PcInvariance, PTL DEF Spec, Promised!Spec
<1>4. Promised!Spec => Promised!TurnsShorten BY PromisedConstants, Promised!ServiceEnds
<1>5. Promised!Spec => []Promised!TurnsBounded BY PromisedConstants, Promised!ServiceBounded
<1>6. QED BY <1>3, <1>4, <1>5, PTL
=============================================================================
