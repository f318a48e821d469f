-------------------------- MODULE VoodooRenderProofs --------------------------
(***************************************************************************)
(* VoodooRender.tla for any size of the ring, of the texture cache and of the *)
(* textures: the counts of a texture are those of the triangles that wait for *)
(* it, an entry is filled when none does (with one or two render threads),    *)
(* what is cached is what texture memory holds, and an idle card has drawn.   *)
(***************************************************************************)
EXTENDS VoodooRender, TLAPS, FiniteSetTheorems

\* The FIFO thread has made sure of room for the triangle in hand.
Reserving == fifo \in {"find", "probe", "put"} \/ (fifo = "idle" /\ job.then = "probe")

Ring ==
  \A t \in Threads :
    /\ Queued(t) <= Slots /\ (Reserving => Queued(t) < Slots)
    /\ at[t] = "advance" => Queued(t) > 0

\* What an idle wait returns to is for that wait only, and a triangle that is being
\* queued has a texture.
InHand ==
  /\ fifo # "idle" => job.then = "ready"
  /\ fifo \in {"room", "full", "await", "find", "probe"} \/ (fifo = "idle" /\ job.then = "probe") =>
       job.tex \in Textures

PresentCovers == \A e \in Entries : base[e] # NoTexture => Pages(base[e]) \subseteq present

\* The cache holds no texture that is about to be written, but for one that starts
\* inside a page.
AboutToPoke == fifo = "poke" \/ (fifo = "idle" /\ job.then = "poke")

Evicted ==
  AboutToPoke =>
    \A e \in Entries :
      base[e] # NoTexture /\ job.addr \in Start[base[e]]..End[base[e]] - 1 => Start[base[e]] % Page # 0

IInv ==
  /\ TypeOK /\ Ring /\ InHand /\ CountsAgree
  /\ PresentCovers /\ Evicted /\ AlignedCoherent

\* The slots of the u triangles queued last, when w is the index to write at.
Behind(w, u) == {Slot(w + Modulus - i) : i \in 1..u}
Using(e, t) == {s \in Waiting(t) : Copied[s] = e}

-----------------------------------------------------------------------------
\* The assumptions.
LEMMA Constants ==
  /\ Slots \in Nat \ {0} /\ Modulus \in Nat /\ Slots < Modulus /\ Modulus % Slots = 0
  /\ Size \in Nat \ {0} /\ Page \in Nat \ {0} /\ Count \in {1, 2, 4}
  /\ NoTexture \notin Textures /\ Addresses \subseteq Nat
  /\ Start \in [Textures -> Nat] /\ End \in [Textures -> Nat]
BY VoodooRenderAssumption

\* A remainder is the only number that is one.
LEMMA Remainder ==
  ASSUME NEW d \in Nat \ {0}, NEW x \in Int, NEW q \in Int, NEW r \in 0..d - 1, x = d * q + r
  PROVE  x % d = r
<1> DEFINE p == x \div d
           m == x % d
<1>1. p \in Int /\ m \in 0..d - 1 /\ x = d * p + m OBVIOUS
<1> HIDE DEF p, m
<1>2. ASSUME p + 1 <= q PROVE FALSE
  <2>1. d * (p + 1) <= d * q BY <1>1, <1>2
  <2>2. d * (p + 1) = d * p + d BY <1>1
  <2>3. d * p \in Int /\ d * q \in Int BY <1>1
  <2>4. QED BY <1>1, <2>1, <2>2, <2>3
<1>3. ASSUME q + 1 <= p PROVE FALSE
  <2>1. d * (q + 1) <= d * p BY <1>1, <1>3
  <2>2. d * (q + 1) = d * q + d OBVIOUS
  <2>3. d * p \in Int /\ d * q \in Int BY <1>1
  <2>4. QED BY <1>1, <2>1, <2>2, <2>3
<1>4. p = q BY <1>1, <1>2, <1>3
<1>5. d * p = d * q /\ d * q \in Int BY <1>1, <1>4
<1>6. m = r BY <1>1, <1>5
<1>7. QED BY <1>6 DEF m

\* Wrapping indexes and counts.
LEMMA Wrap ==
  ASSUME NEW w \in 0..Modulus - 1, NEW r \in 0..Modulus - 1
  PROVE  /\ (w - r) % Modulus = IF w >= r THEN w - r ELSE w - r + Modulus
         /\ (w + 1) % Modulus = IF w = Modulus - 1 THEN 0 ELSE w + 1
         /\ w > 0 => (w - 1) % Modulus = w - 1
<1>1. Modulus \in Nat \ {0} BY Constants
<1>2. (w - r) % Modulus = IF w >= r THEN w - r ELSE w - r + Modulus
  <2>1. CASE w >= r
    <3>1. w - r = Modulus * 0 + (w - r) /\ w - r \in 0..Modulus - 1 BY <1>1, <2>1
    <3>2. QED BY <1>1, <2>1, <3>1, Remainder
  <2>2. CASE w < r
    <3>1. w - r = Modulus * (-1) + (w - r + Modulus) /\ w - r + Modulus \in 0..Modulus - 1 BY <1>1, <2>2
    <3>2. (w - r) % Modulus = w - r + Modulus BY <1>1, <3>1, Remainder
    <3>3. QED BY <2>2, <3>2
  <2>3. QED BY <1>1, <2>1, <2>2
<1>3. (w + 1) % Modulus = IF w = Modulus - 1 THEN 0 ELSE w + 1
  <2>1. CASE w = Modulus - 1
    <3>1. w + 1 = Modulus * 1 + 0 BY <1>1, <2>1
    <3>2. QED BY <1>1, <2>1, <3>1, Remainder
  <2>2. CASE w # Modulus - 1
    <3>1. w + 1 = Modulus * 0 + (w + 1) /\ w + 1 \in 0..Modulus - 1 BY <1>1, <2>2
    <3>2. QED BY <1>1, <2>2, <3>1, Remainder
  <2>3. QED BY <2>1, <2>2
<1>4. ASSUME w > 0 PROVE (w - 1) % Modulus = w - 1
  <2>1. w - 1 = Modulus * 0 + (w - 1) /\ w - 1 \in 0..Modulus - 1 BY <1>1, <1>4
  <2>2. QED BY <1>1, <2>1, Remainder
<1>5. QED BY <1>2, <1>3, <1>4

\* The ring goes evenly into the range of its indexes.
LEMMA SlotWraps ==
  ASSUME NEW x \in Nat
  PROVE  Slot(x) \in 0..Slots - 1 /\ Slot(x + Modulus) = Slot(x)
<1> DEFINE k == Modulus \div Slots
           p == x \div Slots
           r == x % Slots
<1>1. Slots \in Nat \ {0} /\ Modulus \in Nat BY Constants
<1>2. k \in Int /\ Modulus = Slots * k
  <2>1. k \in Int /\ Modulus = Slots * k + (Modulus % Slots) BY <1>1
  <2> HIDE DEF k
  <2>2. Modulus % Slots = 0 /\ Slots * k \in Int BY <1>1, <2>1, Constants
  <2>3. QED BY <2>1, <2>2
<1>3. p \in Int /\ r \in 0..Slots - 1 /\ x = Slots * p + r BY <1>1
<1> HIDE DEF k, p, r
<1>4. x + Modulus = Slots * (p + k) + r
  <2>1. Slots * (p + k) = Slots * p + Slots * k BY <1>1, <1>2, <1>3
  <2>2. Slots * p \in Int /\ Slots * k \in Int BY <1>1, <1>2, <1>3
  <2>3. QED BY <1>1, <1>2, <1>3, <2>1, <2>2
<1>5. (x + Modulus) % Slots = r
  <2>1. x + Modulus \in Int /\ p + k \in Int BY <1>1, <1>2, <1>3
  <2>2. QED BY <1>1, <1>3, <1>4, <2>1, Remainder
<1>6. QED BY <1>3, <1>5 DEF Slot, r

\* Triangles less than a ring apart have slots of their own.
LEMMA SlotsApart ==
  ASSUME NEW x \in Nat, NEW y \in Nat, x < y, y - x < Slots
  PROVE  Slot(x) # Slot(y)
<1> DEFINE p == x \div Slots
           q == y \div Slots
           r == x % Slots
           s == y % Slots
<1>1. Slots \in Nat \ {0} BY Constants
<1>2. /\ p \in Int /\ r \in 0..Slots - 1 /\ x = Slots * p + r
      /\ q \in Int /\ s \in 0..Slots - 1 /\ y = Slots * q + s
  BY <1>1
<1> HIDE DEF p, q, r, s
<1>3. ASSUME r = s PROVE FALSE
  <2>1. Slots * p \in Int /\ Slots * q \in Int BY <1>1, <1>2
  <2>2. CASE q <= p
    <3>1. Slots * q <= Slots * p BY <1>1, <1>2, <2>2
    <3>2. QED BY <1>2, <1>3, <2>1, <3>1
  <2>3. CASE p + 1 <= q
    <3>1. Slots * (p + 1) <= Slots * q BY <1>1, <1>2, <2>3
    <3>2. Slots * (p + 1) = Slots * p + Slots BY <1>1, <1>2
    <3>3. QED BY <1>1, <1>2, <1>3, <2>1, <3>1, <3>2
  <2>4. QED BY <1>2, <2>2, <2>3
<1>4. QED BY <1>3 DEF Slot, r, s

\* A triangle is queued ...
LEMMA BehindGrows ==
  ASSUME NEW w \in 0..Modulus - 1, NEW u \in 0..Slots - 1
  PROVE  /\ Behind((w + 1) % Modulus, u + 1) = Behind(w, u) \cup {Slot(w)}
         /\ Slot(w) \notin Behind(w, u)
<1> DEFINE v == (w + 1) % Modulus
<1>1. /\ Slots \in Nat \ {0} /\ Modulus \in Nat \ {0} /\ Slots < Modulus /\ w \in Nat /\ u \in Nat
      /\ v = IF w = Modulus - 1 THEN 0 ELSE w + 1
  BY Constants, Wrap
<1> HIDE DEF v
<1>2. \A i \in 1..u + 1 : Slot(v + Modulus - i) = Slot(w + Modulus - (i - 1))
  <2> SUFFICES ASSUME NEW i \in 1..u + 1 PROVE Slot(v + Modulus - i) = Slot(w + Modulus - (i - 1))
    OBVIOUS
  <2>1. CASE w = Modulus - 1
    <3>1. v + Modulus - i \in Nat /\ w + Modulus - (i - 1) = (v + Modulus - i) + Modulus
      BY <1>1, <2>1
    <3>2. QED BY <3>1, SlotWraps
  <2>2. CASE w # Modulus - 1
    <3>1. v + Modulus - i = w + Modulus - (i - 1) BY <1>1, <2>2
    <3>2. QED BY <3>1
  <2>3. QED BY <2>1, <2>2
<1>3. Slot(w + Modulus - (1 - 1)) = Slot(w)
  <2>1. w + Modulus - (1 - 1) = w + Modulus BY <1>1
  <2>2. QED BY <1>1, <2>1, SlotWraps
<1>4. ASSUME NEW s PROVE s \in Behind(v, u + 1) <=> s \in Behind(w, u) \/ s = Slot(w)
  <2>1. ASSUME s \in Behind(v, u + 1) PROVE s \in Behind(w, u) \/ s = Slot(w)
    <3>1. PICK i \in 1..u + 1 : s = Slot(v + Modulus - i) BY <2>1 DEF Behind
    <3>2. s = Slot(w + Modulus - (i - 1)) BY <1>2, <3>1
    <3>3. CASE i = 1 BY <1>3, <3>2, <3>3
    <3>4. CASE i # 1
      <4>1. i - 1 \in 1..u BY <1>1, <3>4
      <4>2. QED BY <3>2, <4>1 DEF Behind
    <3>5. QED BY <3>3, <3>4
  <2>2. ASSUME s \in Behind(w, u) PROVE s \in Behind(v, u + 1)
    <3>1. PICK i \in 1..u : s = Slot(w + Modulus - i) BY <2>2 DEF Behind
    <3>2. i + 1 \in 1..u + 1 /\ (i + 1) - 1 = i BY <1>1
    <3>3. s = Slot(v + Modulus - (i + 1)) BY <1>2, <3>1, <3>2
    <3>4. QED BY <3>2, <3>3 DEF Behind
  <2>3. Slot(w) \in Behind(v, u + 1)
    <3>1. 1 \in 1..u + 1 BY <1>1
    <3>2. Slot(v + Modulus - 1) = Slot(w) BY <1>2, <1>3, <3>1
    <3>3. QED BY <3>1, <3>2 DEF Behind
  <2>4. QED BY <2>1, <2>2, <2>3
<1>5. Slot(w) \notin Behind(w, u)
  <2> SUFFICES ASSUME NEW i \in 1..u, Slot(w) = Slot(w + Modulus - i) PROVE FALSE BY DEF Behind
  <2>1. /\ w + Modulus - i \in Nat /\ w + Modulus \in Nat /\ w + Modulus - i < w + Modulus
        /\ (w + Modulus) - (w + Modulus - i) < Slots
    BY <1>1
  <2>2. Slot(w + Modulus) = Slot(w) BY <1>1, SlotWraps
  <2>3. QED BY <2>1, <2>2, SlotsApart
<1>6. QED BY <1>4, <1>5 DEF v

\* ... and the one queued longest ago is drawn.
LEMMA BehindShrinks ==
  ASSUME NEW w \in 0..Modulus - 1, NEW u \in 1..Slots
  PROVE  /\ Behind(w, u - 1) = Behind(w, u) \ {Slot(w + Modulus - u)}
         /\ Slot(w + Modulus - u) \in Behind(w, u)
<1>1. Slots \in Nat \ {0} /\ Modulus \in Nat \ {0} /\ Slots < Modulus /\ w \in Nat /\ u \in Nat
  BY Constants
<1>2. \A i \in 1..u - 1 : Slot(w + Modulus - i) # Slot(w + Modulus - u)
  <2> SUFFICES ASSUME NEW i \in 1..u - 1 PROVE Slot(w + Modulus - i) # Slot(w + Modulus - u) OBVIOUS
  <2>1. /\ w + Modulus - u \in Nat /\ w + Modulus - i \in Nat /\ w + Modulus - u < w + Modulus - i
        /\ (w + Modulus - i) - (w + Modulus - u) < Slots
    BY <1>1
  <2>2. QED BY <2>1, SlotsApart
<1>3. \A i : i \in 1..u <=> i \in 1..u - 1 \/ i = u BY <1>1
<1>4. QED BY <1>2, <1>3 DEF Behind

-----------------------------------------------------------------------------
\* What the FIFO thread has in hand.
Jobs == [tex : Textures \cup {NoTexture}, entry : Entries, addr : Nat, n : Nat,
         then : {"ready", "probe", "poke"}]

\* The triangle in hand is a job, whatever of it is filled in.
LEMMA JobsAre ==
  /\ NoJob \in Jobs /\ NoJob.then = "ready"
  /\ \A x \in Textures : [NoJob EXCEPT !.tex = x] \in Jobs /\ [NoJob EXCEPT !.tex = x].then = "ready"
                         /\ [NoJob EXCEPT !.tex = x].tex = x
  /\ \A e \in Entries : /\ [NoJob EXCEPT !.entry = e] \in Jobs
                        /\ [NoJob EXCEPT !.entry = e].then = "ready"
                        /\ [NoJob EXCEPT !.entry = e].entry = e
  /\ \A x \in Textures \cup {NoTexture}, e \in Entries :
       LET j == [NoJob EXCEPT !.tex = x, !.entry = e]
       IN  j \in Jobs /\ j.then = "ready" /\ j.tex = x /\ j.entry = e
<1>1. 0 \in Entries /\ Addresses \subseteq Nat BY Constants DEF Entries
<1>2. NoJob = [tex |-> NoTexture, entry |-> 0, addr |-> 0, n |-> 0, then |-> "ready"]
  BY DEF NoJob
<1>3. NoJob \in Jobs /\ NoJob.then = "ready" BY <1>1, <1>2 DEF Jobs
<1>4. \A x \in Textures : [NoJob EXCEPT !.tex = x] \in Jobs /\ [NoJob EXCEPT !.tex = x].then = "ready"
                          /\ [NoJob EXCEPT !.tex = x].tex = x
  BY <1>1, <1>2 DEF Jobs
<1>5. \A e \in Entries : /\ [NoJob EXCEPT !.entry = e] \in Jobs
                         /\ [NoJob EXCEPT !.entry = e].then = "ready"
                         /\ [NoJob EXCEPT !.entry = e].entry = e
  BY <1>1, <1>2 DEF Jobs
<1>6. \A x \in Textures \cup {NoTexture}, e \in Entries :
        LET j == [NoJob EXCEPT !.tex = x, !.entry = e]
        IN  j \in Jobs /\ j.then = "ready" /\ j.tex = x /\ j.entry = e
  BY <1>1, <1>2 DEF Jobs
<1>7. QED BY <1>3, <1>4, <1>5, <1>6

\* PARAM_ENTRIES.
LEMMA QueuedIs ==
  ASSUME TypeOK, NEW t \in Threads
  PROVE  /\ Queued(t) = IF wr >= rd[t] THEN wr - rd[t] ELSE wr - rd[t] + Modulus
         /\ Queued(t) \in 0..Modulus - 1 /\ (Empty(t) <=> Queued(t) = 0)
<1>1. wr \in 0..Modulus - 1 /\ rd[t] \in 0..Modulus - 1 /\ Modulus \in Nat
  BY Constants DEF TypeOK
<1>2. Queued(t) = IF wr >= rd[t] THEN wr - rd[t] ELSE wr - rd[t] + Modulus
  BY <1>1, Wrap DEF Queued
<1>3. QED BY <1>1, <1>2 DEF Empty

\* The triangles that wait have slots, and one of the ring's is left when there is room.
LEMMA WaitingIs ==
  ASSUME TypeOK, NEW t \in Threads
  PROVE  /\ Waiting(t) = Behind(wr, Undrawn(t))
         /\ \A e : IsFiniteSet(Using(e, t)) /\ Cardinality(Using(e, t)) \in Nat
<1>1. Slots \in Nat \ {0} BY Constants
<1>2. Waiting(t) = Behind(wr, Undrawn(t)) BY DEF Waiting, Behind
<1>3. Waiting(t) \subseteq 0..Slots - 1
  <2> SUFFICES ASSUME NEW i \in 1..Undrawn(t) PROVE Slot(wr + Modulus - i) \in 0..Slots - 1
    BY DEF Waiting
  <2>1. wr + Modulus - i \in Int BY Constants DEF TypeOK
  <2>2. QED BY <1>1, <2>1 DEF Slot
<1>4. IsFiniteSet(0..Slots - 1)
  BY <1>1, FS_Interval
<1>5. ASSUME NEW e PROVE IsFiniteSet(Using(e, t)) /\ Cardinality(Using(e, t)) \in Nat
  <2>1. Using(e, t) \subseteq 0..Slots - 1 BY <1>3 DEF Using
  <2>2. QED BY <1>4, <2>1, FS_Subset, FS_CardinalityType
<1>6. QED BY <1>2, <1>5

\* A thread with room has a free slot.
LEMMA RoomLeft ==
  ASSUME TypeOK, NEW t \in Threads, Undrawn(t) \in 0..Slots - 1, NEW e
  PROVE  Cardinality(Using(e, t)) < Slots
<1>1. Slots \in Nat \ {0} /\ wr \in 0..Modulus - 1 /\ wr \in Nat BY Constants DEF TypeOK
<1>2. Waiting(t) = Behind(wr, Undrawn(t)) /\ IsFiniteSet(Using(e, t)) BY WaitingIs
<1>3. Slot(wr) \notin Waiting(t) /\ Slot(wr) \in 0..Slots - 1
  BY <1>1, <1>2, BehindGrows, SlotWraps
<1>4. \A i \in Int : Slot(i) \in 0..Slots - 1 BY <1>1 DEF Slot
<1>5. Using(e, t) \subseteq (0..Slots - 1) \ {Slot(wr)}
  <2> SUFFICES ASSUME NEW i \in 1..Undrawn(t) PROVE Slot(wr + Modulus - i) \in 0..Slots - 1
    BY <1>3 DEF Using, Waiting
  <2>1. wr + Modulus - i \in Int BY <1>1, Constants
  <2>2. QED BY <1>4, <2>1
<1>6. IsFiniteSet(0..Slots - 1) /\ Cardinality(0..Slots - 1) = Slots
  <2>1. 0 \in Int /\ Slots - 1 \in Int /\ 0 <= Slots - 1 BY <1>1
  <2>2. Cardinality(0..Slots - 1) = (Slots - 1) - 0 + 1 BY <2>1, FS_Interval
  <2>3. QED BY <1>1, <2>1, <2>2, FS_Interval
<1>7. /\ IsFiniteSet((0..Slots - 1) \ {Slot(wr)})
      /\ Cardinality((0..Slots - 1) \ {Slot(wr)}) = Slots - 1
  BY <1>3, <1>6, FS_RemoveElement
<1>8. Cardinality(Using(e, t)) <= Slots - 1 BY <1>5, <1>7, FS_Subset
<1>9. Cardinality(Using(e, t)) \in Nat BY <1>2, FS_CardinalityType
<1>10. QED BY <1>1, <1>8, <1>9

\* How many triangles a thread has to draw.
LEMMA UndrawnIs ==
  ASSUME TypeOK, Ring, NEW t \in Threads
  PROVE  /\ Undrawn(t) \in 0..Slots /\ (Reserving => Undrawn(t) \in 0..Slots - 1)
         /\ at[t] # "advance" => Undrawn(t) = Queued(t)
<1>1. Queued(t) \in Nat BY QueuedIs, Constants
<1>2. Slots \in Nat BY Constants
<1>3. CASE at[t] = "advance"
  <2>1. Undrawn(t) = Queued(t) - 1 BY <1>3 DEF Undrawn
  <2>2. QED BY <1>1, <1>2, <1>3, <2>1 DEF Ring
<1>4. CASE at[t] # "advance"
  <2>1. Undrawn(t) = Queued(t) BY <1>1, <1>4 DEF Undrawn
  <2>2. QED BY <1>1, <1>2, <1>4, <2>1 DEF Ring
<1>5. QED BY <1>3, <1>4

\* Steps that move no index.
LEMMA StillWaiting ==
  ASSUME NEW t \in Threads, UNCHANGED <<wr, rd>>, (at[t] = "advance")' <=> at[t] = "advance"
  PROVE  Queued(t)' = Queued(t) /\ Undrawn(t)' = Undrawn(t) /\ Waiting(t)' = Waiting(t)
<1>1. Queued(t)' = Queued(t) BY DEF Queued
<1>2. Undrawn(t)' = Undrawn(t) BY <1>1 DEF Undrawn
<1>3. QED BY <1>1, <1>2 DEF Waiting

\* Counts of references that a step leaves alone.
LEMMA StillCounts ==
  ASSUME CountsAgree, UNCHANGED <<ring, wr, rd, owed, misread>>,
         \A t \in Threads : (at[t] = "advance")' <=> at[t] = "advance",
         (fifo \notin {"put", "indexed"} /\ fifo' \notin {"put", "indexed"}) \/ UNCHANGED <<fifo, job>>
  PROVE  CountsAgree'
<1>1. \A t \in Threads : Waiting(t)' = Waiting(t) BY StillWaiting
<1>2. Copied' = Copied BY DEF Copied, LastSlot
<1>3. QED BY <1>1, <1>2 DEF CountsAgree

\* The triangle drawn is taken out of the queue.
LEMMA AdvanceQueued ==
  ASSUME IInv, NEW t \in Threads, Advance(t)
  PROVE  /\ Queued(t) \in Nat /\ Queued(t) > 0 /\ Queued(t)' = Queued(t) - 1
         /\ \A u \in Threads : u # t => Queued(u)' = Queued(u) /\ Empty(u)' = Empty(u)
<1>1. /\ TypeOK /\ Ring /\ wr \in 0..Modulus - 1 /\ wr' = wr /\ at[t] = "advance"
      /\ rd' = [rd EXCEPT ![t] = (rd[t] + 1) % Modulus]
      /\ rd[t] \in 0..Modulus - 1 /\ rd \in [Threads -> 0..Modulus - 1] /\ Modulus \in Nat \ {0}
  <2>1. TypeOK /\ Ring BY DEF IInv
  <2>2. wr \in 0..Modulus - 1 /\ rd \in [Threads -> 0..Modulus - 1] BY <2>1 DEF TypeOK
  <2>3. wr' = wr /\ at[t] = "advance" /\ rd' = [rd EXCEPT ![t] = (rd[t] + 1) % Modulus]
    BY <2>2 DEF Advance, Goes, fifoSide
  <2>4. QED BY <2>1, <2>2, <2>3, Constants
<1>2. /\ rd'[t] = (IF rd[t] = Modulus - 1 THEN 0 ELSE rd[t] + 1) /\ rd'[t] \in 0..Modulus - 1
      /\ \A u \in Threads : u # t => rd'[u] = rd[u]
  <2> DEFINE n == (rd[t] + 1) % Modulus
  <2>1. n = (IF rd[t] = Modulus - 1 THEN 0 ELSE rd[t] + 1) /\ n \in 0..Modulus - 1
    BY <1>1, Wrap
  <2>2. rd' = [rd EXCEPT ![t] = n] BY <1>1
  <2> HIDE DEF n
  <2>3. QED BY <1>1, <2>1, <2>2
<1>3. Queued(t) \in Nat /\ Queued(t) = (IF wr >= rd[t] THEN wr - rd[t] ELSE wr - rd[t] + Modulus)
  BY <1>1, QueuedIs
<1>4. Queued(t) > 0 BY <1>1 DEF Ring
<1>5. Queued(t)' = IF wr >= rd'[t] THEN wr - rd'[t] ELSE wr - rd'[t] + Modulus
  <2>1. Queued(t)' = (wr - rd'[t]) % Modulus BY <1>1 DEF Queued
  <2>2. QED BY <1>1, <1>2, <2>1, Wrap
<1>6. Queued(t)' = Queued(t) - 1 BY <1>1, <1>2, <1>3, <1>4, <1>5
<1>7. \A u \in Threads : u # t => Queued(u)' = Queued(u) /\ Empty(u)' = Empty(u)
  BY <1>1, <1>2 DEF Queued, Empty
<1>8. QED BY <1>3, <1>4, <1>6, <1>7

\* ... and one put in makes each thread's queue longer.
LEMMA PutQueued ==
  ASSUME IInv, Put \/ Index, NEW t \in Threads
  PROVE  Queued(t) \in Nat /\ Queued(t) < Slots /\ Queued(t)' = Queued(t) + 1
<1>1. /\ wr' = (wr + 1) % Modulus /\ rd' = rd /\ TypeOK /\ Queued(t) < Slots
      /\ Slots \in Nat /\ Modulus \in Nat /\ Slots < Modulus
  BY Constants DEF Put, Index, Step, threads, IInv, Ring, Reserving
<1>2. /\ Queued(t) = (IF wr >= rd[t] THEN wr - rd[t] ELSE wr - rd[t] + Modulus)
      /\ rd[t] \in 0..Modulus - 1 /\ wr \in 0..Modulus - 1
  BY <1>1, QueuedIs DEF TypeOK
<1>3. wr' = (IF wr = Modulus - 1 THEN 0 ELSE wr + 1) /\ wr' \in 0..Modulus - 1
  BY <1>1, <1>2, Wrap
<1>4. Queued(t)' = IF wr' >= rd[t] THEN wr' - rd[t] ELSE wr' - rd[t] + Modulus
  <2>1. Queued(t)' = (wr' - rd[t]) % Modulus BY <1>1 DEF Queued
  <2>2. QED BY <1>2, <1>3, <2>1, Wrap
<1>5. QED BY <1>1, <1>2, <1>3, <1>4

-----------------------------------------------------------------------------
\* What a cached texture covers.
LEMMA PagesTyped == ASSUME NEW x \in Textures PROVE Pages(x) \subseteq Nat
<1> SUFFICES ASSUME NEW b \in Start[x]..End[x] PROVE b \div Page \in Nat BY DEF Pages
<1> DEFINE q == b \div Page
<1>1. Start[x] \in Nat /\ Page \in Nat \ {0} BY Constants
<1>2. b \in Nat BY <1>1, Constants
<1>3. q \in Int /\ b % Page \in 0..Page - 1 /\ b = Page * q + (b % Page) BY <1>1, <1>2
<1> HIDE DEF q
<1>4. ASSUME q <= -1 PROVE FALSE
  <2>1. Page * q <= Page * (-1) BY <1>1, <1>3, <1>4
  <2>2. Page * q \in Int /\ Page * (-1) = -Page BY <1>1, <1>3
  <2>3. QED BY <1>1, <1>2, <1>3, <2>1, <2>2
<1>5. q \in Nat BY <1>3, <1>4
<1>6. QED BY <1>5 DEF q

\* The page of an address is that of a multiple of the page size.
LEMMA PageStarts ==
  ASSUME NEW s \in Nat, s % Page = 0, NEW a \in Nat, s <= a
  PROVE  LET b == Page * (a \div Page)
         IN  b \in s..a /\ (b - s) % Page = 0 /\ b \div Page = a \div Page
<1> DEFINE q == a \div Page
           p == s \div Page
<1>1. Page \in Nat \ {0} BY Constants
<1>2. q \in Int /\ a % Page \in 0..Page - 1 /\ a = Page * q + (a % Page) BY <1>1
<1>3. p \in Int /\ s = Page * p
  <2>1. p \in Int /\ s = Page * p + (s % Page) BY <1>1
  <2> HIDE DEF p
  <2>2. Page * p \in Int BY <1>1, <2>1
  <2>3. QED BY <2>1, <2>2
<1> HIDE DEF q, p
<1>4. Page * q \in Int /\ Page * p \in Int BY <1>1, <1>2, <1>3
<1>5. ASSUME q < p PROVE FALSE
  <2>1. Page * (q + 1) <= Page * p BY <1>1, <1>2, <1>3, <1>5
  <2>2. Page * (q + 1) = Page * q + Page BY <1>1, <1>2
  <2>3. QED BY <1>1, <1>2, <1>3, <1>4, <2>1, <2>2
<1>6. Page * p <= Page * q BY <1>1, <1>2, <1>3, <1>5
<1>7. Page * q \in s..a BY <1>1, <1>2, <1>3, <1>4, <1>6
<1>8. (Page * q - s) % Page = 0
  <2>1. Page * (q - p) = Page * q - Page * p BY <1>1, <1>2, <1>3
  <2>2. Page * q - s = Page * (q - p) + 0 /\ Page * q - s \in Int BY <1>3, <1>4, <2>1
  <2>3. q - p \in Int /\ 0 \in 0..Page - 1 BY <1>1, <1>2, <1>3
  <2> HIDE DEF q
  <2>4. QED BY <1>1, <2>2, <2>3, Remainder
<1>9. (Page * q) \div Page = q
  <2> DEFINE m == (Page * q) \div Page
             r == (Page * q) % Page
  <2>1. m \in Int /\ r \in 0..Page - 1 /\ Page * q = Page * m + r BY <1>1, <1>4
  <2>2. r = 0
    <3>1. Page * q = Page * q + 0 BY <1>4
    <3>2. QED BY <1>1, <1>2, <1>4, <3>1, Remainder
  <2> HIDE DEF m, r
  <2>3. Page * m \in Int BY <1>1, <2>1
  <2>4. Page * q = Page * m BY <2>1, <2>2, <2>3
  <2>5. ASSUME m + 1 <= q PROVE FALSE
    <3>1. Page * (m + 1) <= Page * q BY <1>1, <1>2, <2>1, <2>5
    <3>2. Page * (m + 1) = Page * m + Page BY <1>1, <2>1
    <3>3. QED BY <1>1, <2>3, <2>4, <3>1, <3>2
  <2>6. ASSUME q + 1 <= m PROVE FALSE
    <3>1. Page * (q + 1) <= Page * m BY <1>1, <1>2, <2>1, <2>6
    <3>2. Page * (q + 1) = Page * q + Page BY <1>1, <1>2
    <3>3. QED BY <1>1, <1>4, <2>4, <3>1, <3>2
  <2>7. m = q BY <1>2, <2>1, <2>5, <2>6
  <2>8. QED BY <2>7 DEF m
<1>10. QED BY <1>7, <1>8, <1>9 DEF q

\* So the page of an address of an aligned texture is one that was marked for it.
LEMMA AlignedPages ==
  ASSUME NEW x \in Textures, Start[x] % Page = 0, NEW a \in Start[x]..End[x] - 1
  PROVE  a \div Page \in Pages(x)
<1> DEFINE b == Page * (a \div Page)
<1>1. Start[x] \in Nat /\ End[x] \in Nat BY Constants
<1>2. a \in Nat /\ Start[x] <= a BY <1>1
<1>3. b \in Start[x]..a /\ (b - Start[x]) % Page = 0 /\ b \div Page = a \div Page
  BY <1>1, <1>2, PageStarts
<1> HIDE DEF b
<1>4. b \in Start[x]..End[x] BY <1>1, <1>2, <1>3
<1>5. QED BY <1>3, <1>4 DEF Pages

\* flush_texture_cache looks at whole pages, and so at every address of a texture.
LEMMA DirtiedAll ==
  ASSUME NEW x \in Textures, NEW a \in Start[x]..End[x] - 1
  PROVE  a \in RoundDown(Start[x])..RoundUp(End[x]) - 1
<1>1. Start[x] \in Nat /\ End[x] \in Nat /\ Page \in Nat \ {0} BY Constants
<1>2. Start[x] % Page \in 0..Page - 1 BY <1>1
<1>3. End[x] + Page - 1 \in Int /\ (End[x] + Page - 1) % Page \in 0..Page - 1 BY <1>1
<1>4. RoundDown(Start[x]) \in Int /\ RoundDown(Start[x]) <= Start[x] BY <1>1, <1>2 DEF RoundDown
<1>5. RoundUp(End[x]) \in Int /\ RoundUp(End[x]) >= End[x] BY <1>1, <1>3 DEF RoundUp, RoundDown
<1>6. QED BY <1>1, <1>4, <1>5

-----------------------------------------------------------------------------
\* At first nothing is queued and nothing cached.
LEMMA InitInv == Init => IInv
<1> SUFFICES ASSUME Init PROVE IInv OBVIOUS
<1>1. TypeOK
  <2>1. 0 \in Entries /\ 0 \in 0..Modulus - 1 BY Constants DEF Entries
  <2>2. ring \in [0..Slots - 1 -> Entries] /\ rd \in [Threads -> 0..Modulus - 1] /\ wr \in 0..Modulus - 1
    BY <2>1 DEF Init
  <2>3. base \in [Entries -> Textures \cup {NoTexture}]
        /\ owed \in [Entries -> [Threads -> 0..Modulus - 1]]
    BY <2>1 DEF Init
  <2>4. job \in Jobs BY <2>1 DEF Init, NoJob, Jobs
  <2>5. QED BY <2>1, <2>2, <2>3, <2>4 DEF Init, TypeOK, Jobs
<1>2. fifo = "ready" /\ job.then = "ready" BY DEF Init, NoJob
<1>3. \A t \in Threads : Queued(t) = 0 /\ Undrawn(t) = 0
  <2> SUFFICES ASSUME NEW t \in Threads PROVE Queued(t) = 0 /\ Undrawn(t) = 0 OBVIOUS
  <2>1. Queued(t) = 0
    <3>1. Empty(t) BY DEF Init, Empty
    <3>2. QED BY <1>1, <3>1, QueuedIs
  <2>2. at[t] # "advance" BY DEF Init
  <2>3. Undrawn(t) = Queued(t) - 0 BY <2>2 DEF Undrawn
  <2>4. QED BY <2>1, <2>3
<1>4. Ring
  <2>1. Slots \in Nat \ {0} /\ ~Reserving BY <1>2, Constants DEF Reserving
  <2>2. \A t \in Threads : at[t] # "advance" BY DEF Init
  <2>3. QED BY <1>3, <2>1, <2>2 DEF Ring
<1>5. CountsAgree
  <2> SUFFICES ASSUME NEW e \in Entries, NEW t \in Threads
      PROVE  owed[e][t] = Cardinality({s \in Waiting(t) : Copied[s] = e})
                          + IF fifo = "put" /\ job.entry = e THEN 1 ELSE 0
    BY DEF CountsAgree
  <2>1. Waiting(t) = {} BY <1>3 DEF Waiting
  <2>2. owed[e][t] = 0 BY DEF Init
  <2>3. {s \in Waiting(t) : Copied[s] = e} = {} BY <2>1
  <2>4. Cardinality({}) = 0 BY FS_EmptySet
  <2>5. QED BY <1>2, <2>2, <2>3, <2>4
<1>6. InHand /\ PresentCovers /\ Evicted /\ AlignedCoherent
  BY <1>2 DEF Init, InHand, PresentCovers, Evicted, AboutToPoke, AlignedCoherent
<1>7. QED BY <1>1, <1>4, <1>5, <1>6 DEF IInv

\* Steps of the FIFO thread that leave ring, counts and cache alone.
LEMMA QuietStep ==
  ASSUME IInv, UNCHANGED <<ring, wr, rd, at, owed, misread, base, present, stale>>,
         fifo \notin {"put", "indexed"} /\ fifo' \notin {"put", "indexed"},
         Reserving' => Reserving \/ \A t \in Threads : ~Full(t),
         AboutToPoke' => AboutToPoke /\ job'.addr = job.addr,
         TypeOK', InHand'
  PROVE  IInv'
<1>1. CountsAgree' BY StillCounts DEF IInv
<1>2. Ring'
  <2> SUFFICES ASSUME NEW t \in Threads
      PROVE  (Queued(t) <= Slots /\ (Reserving => Queued(t) < Slots) /\ (at[t] = "advance" => Queued(t) > 0))'
    BY DEF Ring
  <2>1. Queued(t)' = Queued(t) /\ at' = at BY StillWaiting
  <2>2. Queued(t) \in Nat /\ Slots \in Nat BY QueuedIs, Constants DEF IInv
  <2>3. ~Full(t) => Queued(t) < Slots BY <2>2 DEF Full
  <2>4. QED BY <2>1, <2>3 DEF IInv, Ring
<1>3. PresentCovers' /\ Evicted' /\ AlignedCoherent'
  BY DEF IInv, PresentCovers, Evicted, AlignedCoherent
<1>4. QED BY <1>1, <1>2, <1>3 DEF IInv

\* Waiting for room.
LEMMA RoomSteps ==
  ASSUME IInv,
         \/ \E x \in Textures : QueueTriangle(x)
         \/ HaveRoom \/ NoRoom \/ PassThread \/ AwaitThread \/ ThreadMadeRoom \/ LookAgain
         \/ Miss \/ Used \/ Nudge \/ AccessPixels \/ Idle \/ NotIdle
  PROVE  IInv'
<1>1. TypeOK /\ InHand /\ job \in Jobs /\ job.n \in Nat /\ job.then \in {"ready", "probe", "poke"}
      /\ fifo \in {"ready", "room", "full", "await", "find", "probe", "put", "indexed", "nudge", "idle", "poke"}
  BY DEF IInv, TypeOK, Jobs
<1>2. 0 \in Nat /\ job.n + 1 \in Nat BY <1>1
<1>3. /\ \A n \in Nat : /\ [job EXCEPT !.n = n] \in Jobs /\ [job EXCEPT !.n = n].then = job.then
                        /\ [job EXCEPT !.n = n].tex = job.tex
      /\ \A n \in Nat : /\ [job EXCEPT !.n = n, !.then = "probe"] \in Jobs
                        /\ [job EXCEPT !.n = n, !.then = "probe"].then = "probe"
                        /\ [job EXCEPT !.n = n, !.then = "probe"].tex = job.tex
      /\ [job EXCEPT !.then = "ready"] \in Jobs /\ [job EXCEPT !.then = "ready"].then = "ready"
      /\ [job EXCEPT !.then = "ready"].tex = job.tex /\ [job EXCEPT !.then = "ready"].addr = job.addr
  BY <1>1 DEF Jobs
<1>4. Probed \in Entries BY Constants DEF TypeOK, IInv, Probed, Entries
<1> DEFINE Quiet == /\ UNCHANGED <<ring, wr, rd, at, owed, misread, base, present, stale>>
                    /\ fifo \notin {"put", "indexed"} /\ fifo' \notin {"put", "indexed"}
                    /\ (Reserving' => Reserving \/ \A t \in Threads : ~Full(t))
                    /\ (AboutToPoke' => AboutToPoke /\ job'.addr = job.addr)
                    /\ TypeOK' /\ InHand'
<1>5. ASSUME NEW x \in Textures, QueueTriangle(x) PROVE Quiet
  <2>1. job' \in Jobs /\ job'.then = "ready" /\ job'.tex \in Textures BY <1>1, <1>5, JobsAre DEF QueueTriangle
  <2>2. QED BY <1>1, <1>5, <2>1 DEF QueueTriangle, Step, texture, events, threads, Reserving, AboutToPoke, TypeOK, InHand, Jobs
<1>6. ASSUME HaveRoom PROVE Quiet
  BY <1>1, <1>6 DEF HaveRoom, AnyFull, Step, texture, events, threads, Reserving, AboutToPoke, TypeOK, InHand, Jobs
<1>7. ASSUME NoRoom PROVE Quiet
  BY <1>1, <1>7 DEF NoRoom, Step, texture, events, threads, Reserving, AboutToPoke, TypeOK, InHand, Jobs
<1>8. ASSUME PassThread PROVE Quiet
  <2>1. job' \in Jobs /\ job'.then = job.then /\ job'.tex = job.tex BY <1>2, <1>8, <1>3 DEF PassThread
  <2>2. QED BY <1>1, <1>8, <2>1 DEF PassThread, texture, events, threads, Reserving, AboutToPoke, TypeOK, InHand, Jobs
<1>9. ASSUME AwaitThread PROVE Quiet
  BY <1>1, <1>9 DEF AwaitThread, Step, texture, events, threads, Reserving, AboutToPoke, TypeOK, InHand, Jobs
<1>10. ASSUME ThreadMadeRoom PROVE Quiet
  <2>1. job' \in Jobs /\ job'.then = job.then /\ job'.tex = job.tex BY <1>2, <1>10, <1>3 DEF ThreadMadeRoom
  <2>2. QED BY <1>1, <1>10, <2>1 DEF ThreadMadeRoom, Step, texture, events, threads, Reserving, AboutToPoke, TypeOK, InHand, Jobs
<1>11. ASSUME LookAgain PROVE Quiet
  <2>1. job' \in Jobs /\ job'.then = job.then /\ job'.tex = job.tex BY <1>2, <1>11, <1>3 DEF LookAgain
  <2>2. QED BY <1>1, <1>11, <2>1 DEF LookAgain, Step, texture, events, threads, Reserving, AboutToPoke, TypeOK, InHand, Jobs
<1>12. ASSUME Miss PROVE Quiet
  BY <1>1, <1>12 DEF Miss, Step, texture, events, threads, Reserving, AboutToPoke, TypeOK, InHand, Jobs
<1>13. ASSUME Used PROVE Quiet
  <2>1. CASE job.n + 1 = Size
    <3>1. fifo' = "idle" /\ job' = [job EXCEPT !.n = 0, !.then = "probe"] BY <1>13, <2>1 DEF Used
    <3>2. job' \in Jobs /\ job'.then = "probe" /\ job'.tex = job.tex BY <1>2, <1>3, <3>1
    <3>3. QED BY <1>1, <1>4, <1>13, <3>1, <3>2 DEF Used, events, threads, Reserving, AboutToPoke, TypeOK, InHand, Jobs
  <2>2. CASE job.n + 1 # Size
    <3>1. fifo' = fifo /\ job' = [job EXCEPT !.n = job.n + 1] BY <1>13, <2>2 DEF Used
    <3>2. job' \in Jobs /\ job'.then = job.then /\ job'.tex = job.tex BY <1>2, <1>3, <3>1
    <3>3. QED BY <1>1, <1>4, <1>13, <3>1, <3>2 DEF Used, events, threads, Reserving, AboutToPoke, TypeOK, InHand, Jobs
  <2>3. QED BY <2>1, <2>2
<1>14. ASSUME Nudge PROVE Quiet
  <2>1. wake' \in [Threads -> BOOLEAN] BY <1>1, <1>14 DEF Nudge, WakeAll, TypeOK
  <2>2. QED BY <1>1, <1>14, <2>1 DEF Nudge, Step, texture, threads, Reserving, AboutToPoke, TypeOK, InHand, Jobs
<1>15. ASSUME AccessPixels PROVE Quiet
  BY <1>1, <1>15 DEF AccessPixels, Step, texture, events, threads, Reserving, AboutToPoke, TypeOK, InHand, Jobs
<1>16. ASSUME Idle PROVE Quiet
  <2>1. job' \in Jobs /\ job'.then = "ready" /\ job'.addr = job.addr /\ job'.tex = job.tex
    BY <1>16, <1>3 DEF Idle
  <2>2. fifo = "idle" /\ fifo' = job.then BY <1>16 DEF Idle, Step
  <2>3. QED BY <1>1, <1>16, <2>1, <2>2 DEF Idle, texture, events, threads, Reserving, AboutToPoke, TypeOK, InHand, Jobs
<1>17. ASSUME NotIdle PROVE Quiet
  <2>1. wake' \in [Threads -> BOOLEAN] BY <1>17 DEF NotIdle, WakeAll
  <2>2. QED BY <1>1, <1>17, <2>1 DEF NotIdle, Step, texture, threads, Reserving, AboutToPoke, TypeOK, InHand, Jobs
<1>18. Quiet BY <1>5, <1>6, <1>7, <1>8, <1>9, <1>10, <1>11, <1>12, <1>13, <1>14, <1>15, <1>16, <1>17
<1>19. QED BY <1>18, QuietStep

-----------------------------------------------------------------------------
\* A triangle in hand counts for its texture's entry, for every thread.
LEMMA ReferCounts ==
  ASSUME IInv, NEW e \in Entries, Refer(e), fifo \in {"find", "probe"}, fifo' = "put",
         UNCHANGED <<ring, wr, rd, at, misread>>
  PROVE  /\ CountsAgree' /\ Ring' /\ owed' \in [Entries -> [Threads -> 0..Modulus - 1]]
         /\ job' \in Jobs /\ job'.then = "ready" /\ job'.entry = e
<1>1. job' \in Jobs /\ job'.then = "ready" /\ job'.entry = e
  <2>1. job' = [NoJob EXCEPT !.entry = e] BY DEF Refer
  <2>2. job.tex \in Textures \cup {NoTexture} BY DEF IInv, TypeOK
  <2>3. QED BY <2>1, <2>2, JobsAre
<1>2. /\ owed' = [owed EXCEPT ![e] = [t \in Threads |-> (owed[e][t] + 1) % Modulus]]
      /\ owed \in [Entries -> [Threads -> 0..Modulus - 1]]
  BY DEF Refer, IInv, TypeOK
<1>3. \A t \in Threads : (owed[e][t] + 1) % Modulus \in 0..Modulus - 1
  <2>1. \A t \in Threads : owed[e][t] \in 0..Modulus - 1 BY <1>2
  <2>2. QED BY <2>1, Wrap, Constants
<1>4. owed' \in [Entries -> [Threads -> 0..Modulus - 1]] BY <1>2, <1>3
<1>5. \A f \in Entries, t \in Threads :
        owed'[f][t] = IF f = e THEN (owed[f][t] + 1) % Modulus ELSE owed[f][t]
  BY <1>2
<1>6. ASSUME ~misread, NEW f \in Entries, NEW t \in Threads
      PROVE  owed'[f][t] = Cardinality({s \in Waiting(t)' : Copied'[s] = f})
                           + IF fifo' = "put" /\ job'.entry = f THEN 1 ELSE 0
  <2>1. Waiting(t)' = Waiting(t) BY StillWaiting
  <2>2. owed[f][t] = Cardinality(Using(f, t)) + 0
    BY <1>6 DEF IInv, CountsAgree, Using
  <2>3. Cardinality(Using(f, t)) < Slots /\ Cardinality(Using(f, t)) \in Nat
    <3>1. Undrawn(t) \in 0..Slots - 1 BY UndrawnIs DEF IInv, Reserving
    <3>2. QED BY <3>1, RoomLeft, WaitingIs DEF IInv
  <2>4. owed[f][t] = Cardinality(Using(f, t)) /\ owed[f][t] \in 0..Modulus - 1 /\ owed[f][t] # Modulus - 1
    BY <1>2, <2>2, <2>3, Constants
  <2>5. (owed[f][t] + 1) % Modulus = owed[f][t] + 1 BY <2>4, Wrap
  <2>6. owed'[f][t] = Cardinality(Using(f, t)) + IF f = e THEN 1 ELSE 0
    BY <1>5, <2>3, <2>4, <2>5
  <2>7. {s \in Waiting(t)' : Copied'[s] = f} = Using(f, t) BY <2>1 DEF Using, Copied
  <2>8. QED BY <1>1, <2>6, <2>7
<1>7. CountsAgree' BY <1>6 DEF CountsAgree
<1>8. Ring'
  <2>1. \A t \in Threads : Queued(t)' = Queued(t) BY StillWaiting
  <2>2. QED BY <2>1 DEF IInv, Ring, Reserving
<1>9. QED BY <1>1, <1>4, <1>7, <1>8

\* The texture is in the cache.
LEMMA HitStep == ASSUME IInv, NEW e \in Entries, Hit(e) PROVE IInv'
<1>1. /\ fifo = "find" /\ fifo' = "put" /\ Refer(e)
      /\ ring' = ring /\ wr' = wr /\ rd' = rd /\ at' = at /\ base' = base /\ last' = last
      /\ present' = present /\ stale' = stale /\ wake' = wake /\ room' = room /\ busy' = busy
      /\ misread' = misread
  BY DEF Hit, Step, texture, events, threads
<1>2. /\ CountsAgree' /\ Ring' /\ owed' \in [Entries -> [Threads -> 0..Modulus - 1]]
      /\ job' \in Jobs /\ job'.then = "ready"
  BY <1>1, ReferCounts
<1>3. TypeOK' BY <1>1, <1>2 DEF IInv, TypeOK, Jobs
<1>4. InHand' /\ PresentCovers' /\ Evicted' /\ AlignedCoherent'
  BY <1>1, <1>2 DEF IInv, InHand, PresentCovers, Evicted, AboutToPoke, AlignedCoherent
<1>5. QED BY <1>2, <1>3, <1>4 DEF IInv

\* The texture replaces another.
LEMMA FillStep == ASSUME IInv, Fill PROVE IInv'
<1>1. /\ fifo = "probe" /\ fifo' = "put" /\ Refer(Probed) /\ last' = Probed
      /\ base' = [base EXCEPT ![Probed] = job.tex]
      /\ present' = present \cup Pages(job.tex) /\ stale' = stale \ {Probed}
      /\ ring' = ring /\ wr' = wr /\ rd' = rd /\ at' = at
      /\ wake' = wake /\ room' = room /\ busy' = busy /\ misread' = misread
  BY DEF Fill, Step, events, threads
<1>2. Probed \in Entries BY Constants DEF TypeOK, IInv, Probed, Entries
<1>3. job.tex \in Textures BY <1>1 DEF IInv, InHand
<1> HIDE DEF Probed
<1>4. /\ CountsAgree' /\ Ring' /\ owed' \in [Entries -> [Threads -> 0..Modulus - 1]]
      /\ job' \in Jobs /\ job'.then = "ready"
  BY <1>1, <1>2, ReferCounts
<1>5. TypeOK'
  <2>1. present' \subseteq Nat BY <1>1, <1>3, PagesTyped DEF IInv, TypeOK
  <2>2. base' \in [Entries -> Textures \cup {NoTexture}]
    BY <1>1, <1>3 DEF IInv, TypeOK
  <2>3. stale' \subseteq Entries BY <1>1 DEF IInv, TypeOK
  <2>4. QED BY <1>1, <1>2, <1>4, <2>1, <2>2, <2>3 DEF IInv, TypeOK, Jobs
<1>6. \A e \in Entries : base'[e] = IF e = Probed THEN job.tex ELSE base[e]
  BY <1>1 DEF IInv, TypeOK
<1>7. InHand' /\ Evicted' BY <1>1, <1>4 DEF InHand, Evicted, AboutToPoke
<1>8. PresentCovers' BY <1>1, <1>6 DEF IInv, PresentCovers
<1>9. AlignedCoherent' BY <1>1, <1>6 DEF IInv, AlignedCoherent, TypeOK
<1>10. QED BY <1>4, <1>5, <1>7, <1>8, <1>9 DEF IInv

\* The slot of the triangle queued last.
LEMMA LastIs ==
  ASSUME NEW w \in 0..Modulus - 1
  PROVE  Slot(((w + 1) % Modulus) + Modulus - 1) = Slot(w) /\ Slot(w + Modulus - 1) \in 0..Slots - 1
<1>1. w \in Nat /\ Modulus \in Nat \ {0} /\ w + Modulus - 1 \in Nat BY Constants
<1>2. (w + 1) % Modulus = IF w = Modulus - 1 THEN 0 ELSE w + 1 BY Wrap
<1>3. CASE w = Modulus - 1
  <2>1. ((w + 1) % Modulus) + Modulus - 1 = w BY <1>1, <1>2, <1>3
  <2>2. QED BY <1>1, <2>1, SlotWraps
<1>4. CASE w # Modulus - 1
  <2>1. ((w + 1) % Modulus) + Modulus - 1 = w + Modulus BY <1>1, <1>2, <1>4
  <2>2. QED BY <1>1, <2>1, SlotWraps
<1>5. QED BY <1>3, <1>4

\* The triangle in hand becomes the last of the ring, there to be read or not yet.
LEMMA PutStep == ASSUME IInv, Put \/ Index PROVE IInv'
<1>1. /\ fifo = "put" /\ fifo' \in {"indexed", "nudge"}
      /\ wr' = (wr + 1) % Modulus /\ owed' = owed
      /\ rd' = rd /\ at' = at /\ base' = base /\ last' = last /\ misread' = misread
      /\ present' = present /\ stale' = stale /\ wake' = wake /\ room' = room /\ busy' = busy
  BY DEF Put, Index, Step, texture, events, threads
<1>2. /\ TypeOK /\ Ring /\ CountsAgree /\ InHand /\ Reserving /\ wr \in 0..Modulus - 1 /\ wr \in Nat
      /\ Modulus \in Nat /\ Slots \in Nat \ {0} /\ Slots < Modulus /\ job \in Jobs
      /\ job.entry \in Entries /\ ring \in [0..Slots - 1 -> Entries]
  BY <1>1, Constants DEF IInv, TypeOK, Reserving, Jobs
<1>3. wr' = (IF wr = Modulus - 1 THEN 0 ELSE wr + 1) /\ wr' \in 0..Modulus - 1
  BY <1>1, <1>2, Wrap
<1>4. Slot(wr) \in 0..Slots - 1 BY <1>2, SlotWraps
<1>5. Copied' = [ring EXCEPT ![Slot(wr)] = job.entry]
  <2>1. CASE Put BY <2>1 DEF Put, Step, Copied
  <2>2. CASE Index
    <3>1. LastSlot' = Slot(wr) BY <1>1, <1>2, LastIs DEF LastSlot
    <3>2. fifo' = "indexed" /\ ring' = ring /\ job' = job BY <2>2 DEF Index, Step
    <3>3. QED BY <3>1, <3>2 DEF Copied
  <2>3. QED BY <2>1, <2>2
<1>6. TypeOK'
  <2>1. ring' \in [0..Slots - 1 -> Entries] /\ job' \in Jobs
    <3>1. CASE Put BY <1>2, <3>1, JobsAre DEF Put
    <3>2. CASE Index BY <1>2, <3>2 DEF Index
    <3>3. QED BY <3>1, <3>2
  <2>2. QED BY <1>1, <1>2, <1>3, <2>1 DEF TypeOK, Jobs
<1>7. \A t \in Threads : Queued(t)' = Queued(t) + 1 /\ Queued(t) < Slots BY PutQueued
<1>8. \A t \in Threads : Queued(t) \in Nat /\ Undrawn(t) \in 0..Slots - 1
  BY <1>2, QueuedIs, UndrawnIs
<1>9. Ring'
  <2>1. ~Reserving' BY <1>1 DEF Reserving
  <2>2. QED BY <1>1, <1>2, <1>7, <1>8, <2>1 DEF Ring
<1>10. ASSUME ~misread, NEW e \in Entries, NEW t \in Threads
       PROVE  owed'[e][t] = Cardinality({s \in Waiting(t)' : Copied'[s] = e})
                            + IF fifo' = "put" /\ job'.entry = e THEN 1 ELSE 0
  <2>1. Undrawn(t)' = Undrawn(t) + 1
    BY <1>1, <1>7, <1>8 DEF Undrawn
  <2>2. Waiting(t)' = Behind(wr', Undrawn(t)') BY <1>6, WaitingIs DEF Waiting, Behind
  <2>3. Waiting(t) = Behind(wr, Undrawn(t)) BY <1>2, WaitingIs
  <2>4. Waiting(t)' = Waiting(t) \cup {Slot(wr)} /\ Slot(wr) \notin Waiting(t)
    BY <1>1, <1>2, <1>8, <2>1, <2>2, <2>3, BehindGrows
  <2>5. \A s \in Waiting(t) : s \in 0..Slots - 1
    <3> SUFFICES ASSUME NEW i \in 1..Undrawn(t) PROVE Slot(wr + Modulus - i) \in 0..Slots - 1
      BY DEF Waiting
    <3>1. wr + Modulus - i \in Int BY <1>2
    <3>2. QED BY <1>2, <3>1 DEF Slot
  <2>6. Copied = ring BY <1>1 DEF Copied
  <2>7. Copied'[Slot(wr)] = job.entry /\ \A s \in Waiting(t) : Copied'[s] = Copied[s]
    BY <1>2, <1>4, <1>5, <2>4, <2>5, <2>6
  <2>8. {s \in Waiting(t)' : Copied'[s] = e} = Using(e, t) \cup (IF job.entry = e THEN {Slot(wr)} ELSE {})
    BY <2>4, <2>7 DEF Using
  <2>9. IsFiniteSet(Using(e, t)) /\ Cardinality(Using(e, t)) \in Nat /\ Slot(wr) \notin Using(e, t)
    BY <1>2, <2>4, WaitingIs DEF Using
  <2>10. Cardinality(Using(e, t) \cup {Slot(wr)}) = Cardinality(Using(e, t)) + 1
    BY <2>9, FS_AddElement
  <2>11. Cardinality({s \in Waiting(t)' : Copied'[s] = e})
           = Cardinality(Using(e, t)) + IF job.entry = e THEN 1 ELSE 0
    <3>1. CASE job.entry = e BY <2>8, <2>10, <3>1
    <3>2. CASE job.entry # e
      <4>1. {s \in Waiting(t)' : Copied'[s] = e} = Using(e, t) BY <2>8, <3>2
      <4>2. QED BY <2>9, <3>2, <4>1
    <3>3. QED BY <3>1, <3>2
  <2>12. owed[e][t] = Cardinality(Using(e, t)) + IF job.entry = e THEN 1 ELSE 0
    BY <1>1, <1>2, <1>10 DEF CountsAgree, Using
  <2>13. QED BY <1>1, <2>9, <2>11, <2>12
<1>11. CountsAgree' BY <1>1, <1>10 DEF CountsAgree
<1>12. InHand'
  <2>1. job' = NoJob \/ job' = job BY DEF Put, Index
  <2>2. job'.then = "ready" BY <1>1, <1>2, <2>1, JobsAre DEF InHand
  <2>3. QED BY <1>1, <2>2 DEF InHand
<1>13. PresentCovers' /\ Evicted' /\ AlignedCoherent'
  BY <1>1 DEF IInv, PresentCovers, Evicted, AboutToPoke, AlignedCoherent
<1>14. QED BY <1>6, <1>9, <1>11, <1>12, <1>13 DEF IInv

\* ... and then it is there.
LEMMA CopyStep == ASSUME IInv, Copy PROVE IInv'
<1>1. /\ fifo = "indexed" /\ fifo' = "nudge" /\ ring' = [ring EXCEPT ![LastSlot] = job.entry]
      /\ wr' = wr /\ job' = NoJob /\ owed' = owed /\ misread' = misread
      /\ rd' = rd /\ at' = at /\ base' = base /\ last' = last
      /\ present' = present /\ stale' = stale /\ wake' = wake /\ room' = room /\ busy' = busy
  BY DEF Copy, Step, texture, events, threads
<1>2. TypeOK /\ Ring /\ CountsAgree /\ wr \in 0..Modulus - 1 BY DEF IInv, TypeOK
<1>3. TypeOK'
  <2>1. LastSlot \in 0..Slots - 1 BY <1>2, LastIs DEF LastSlot
  <2>2. ring' \in [0..Slots - 1 -> Entries] BY <1>1, <1>2, <2>1 DEF TypeOK
  <2>3. job' \in Jobs BY <1>1, JobsAre
  <2>4. QED BY <1>1, <1>2, <2>2, <2>3 DEF TypeOK, Jobs
<1>4. CountsAgree'
  <2>1. \A t \in Threads : Waiting(t)' = Waiting(t) BY <1>1, StillWaiting
  <2>2. Copied' = Copied BY <1>1 DEF Copied
  <2>3. QED BY <1>1, <1>2, <2>1, <2>2 DEF CountsAgree
<1>5. Ring'
  <2>1. \A t \in Threads : Queued(t)' = Queued(t) BY <1>1, StillWaiting
  <2>2. ~Reserving' BY <1>1 DEF Reserving
  <2>3. QED BY <1>1, <1>2, <2>1, <2>2 DEF Ring
<1>6. InHand' /\ PresentCovers' /\ Evicted' /\ AlignedCoherent'
  BY <1>1, JobsAre DEF IInv, InHand, PresentCovers, Evicted, AboutToPoke, AlignedCoherent
<1>7. QED BY <1>3, <1>4, <1>5, <1>6 DEF IInv

-----------------------------------------------------------------------------
\* Texture memory is written: first the cached textures that may hold the address go.
LEMMA WriteTextureStep == ASSUME IInv, NEW a \in Addresses, WriteTexture(a) PROVE IInv'
<1> DEFINE gone == Dirtied(a)
           there == a \div Page \in present
<1>1. /\ fifo = "ready" /\ ring' = ring /\ wr' = wr /\ rd' = rd /\ at' = at /\ last' = last
      /\ stale' = stale /\ owed' = owed /\ wake' = wake /\ room' = room /\ busy' = busy
      /\ misread' = misread
      /\ job' = [NoJob EXCEPT !.addr = a, !.then = IF fifo' = "idle" THEN "poke" ELSE "ready"]
      /\ fifo' \in {"idle", "poke"}
  BY DEF WriteTexture, events, threads
<1>2. /\ present' = IF there THEN SurvivingPages(gone) ELSE present
      /\ base' = IF there THEN [e \in Entries |-> IF e \in gone THEN NoTexture ELSE base[e]] ELSE base
  BY DEF WriteTexture
<1>3. /\ job' \in Jobs /\ job'.addr = a
      /\ fifo' # "idle" => job'.then = "ready"
      /\ fifo' = "idle" => job'.then = "poke"
  <2> DEFINE h == IF fifo' = "idle" THEN "poke" ELSE "ready"
  <2>1. job' = [NoJob EXCEPT !.addr = a, !.then = h] /\ h \in {"ready", "poke"} BY <1>1
  <2> HIDE DEF h
  <2>2. job' \in Jobs /\ job'.addr = a /\ job'.then = h
    <3>1. 0 \in Entries /\ a \in Nat BY Constants DEF Entries
    <3>2. QED BY <2>1, <3>1 DEF NoJob, Jobs
  <2>3. QED BY <2>2 DEF h
<1>4. base \in [Entries -> Textures \cup {NoTexture}] BY DEF IInv, TypeOK
<1>5. /\ base' \in [Entries -> Textures \cup {NoTexture}]
      /\ \A e \in Entries : base'[e] = IF there /\ e \in gone THEN NoTexture ELSE base[e]
  BY <1>2, <1>4
<1>6. \A e \in Entries : base[e] # NoTexture => base[e] \in Textures /\ Pages(base[e]) \subseteq present
  BY <1>4 DEF IInv, PresentCovers
<1>7. TypeOK'
  <2>1. present \subseteq Nat BY DEF IInv, TypeOK
  <2>2. SurvivingPages(gone) \subseteq Nat BY <1>6, PagesTyped DEF SurvivingPages
  <2>3. present' \subseteq Nat BY <1>2, <2>1, <2>2
  <2>4. QED BY <1>1, <1>3, <1>5, <2>3 DEF IInv, TypeOK, Jobs
<1>8. PresentCovers'
  <2> SUFFICES ASSUME NEW e \in Entries, base'[e] # NoTexture PROVE Pages(base'[e]) \subseteq present'
    BY DEF PresentCovers
  <2>1. base'[e] = base[e] /\ base[e] # NoTexture /\ (there => e \notin gone) BY <1>5
  <2>2. CASE there
    <3>1. Pages(base[e]) \subseteq SurvivingPages(gone) BY <2>1, <2>2 DEF SurvivingPages
    <3>2. QED BY <1>2, <2>1, <2>2, <3>1
  <2>3. CASE ~there
    BY <1>2, <1>6, <2>1, <2>3
  <2>4. QED BY <2>2, <2>3
<1>9. Evicted'
  <2> SUFFICES ASSUME NEW e \in Entries, base'[e] # NoTexture, a \in Start[base'[e]]..End[base'[e]] - 1
      PROVE  Start[base'[e]] % Page # 0
    BY <1>3 DEF Evicted
  <2>1. base'[e] = base[e] /\ base[e] # NoTexture /\ (there => e \notin gone) BY <1>5
  <2>2. base[e] \in Textures /\ a \in Start[base[e]]..End[base[e]] - 1 BY <1>6, <2>1
  <2>3. e \in gone BY <2>1, <2>2, DirtiedAll DEF Dirtied
  <2>4. ~there BY <2>1, <2>3
  <2>5. a \div Page \notin Pages(base[e]) BY <1>6, <2>1, <2>4
  <2>6. QED BY <2>1, <2>2, <2>5, AlignedPages
<1>10. AlignedCoherent' BY <1>1, <1>5 DEF IInv, AlignedCoherent, TypeOK
<1>11. InHand'
  <2>1. fifo' \notin {"room", "full", "await", "find", "probe"} BY <1>1
  <2>2. QED BY <1>3, <2>1 DEF InHand
<1>12. CountsAgree' BY <1>1, StillCounts DEF IInv
<1>13. Ring'
  <2>1. \A t \in Threads : Queued(t)' = Queued(t) BY <1>1, StillWaiting
  <2>2. ~Reserving' BY <1>1, <1>3 DEF Reserving
  <2>3. QED BY <1>1, <2>1, <2>2 DEF IInv, Ring
<1>14. QED BY <1>7, <1>8, <1>9, <1>10, <1>11, <1>12, <1>13 DEF IInv

\* The write itself.
LEMMA PokeStep == ASSUME IInv, Poke PROVE IInv'
<1>1. /\ fifo = "poke" /\ fifo' = "ready" /\ job' = NoJob
      /\ ring' = ring /\ wr' = wr /\ rd' = rd /\ at' = at /\ last' = last /\ base' = base
      /\ present' = present /\ owed' = owed /\ wake' = wake /\ room' = room /\ busy' = busy
      /\ misread' = misread
      /\ stale' = stale \cup {e \in Entries : /\ base[e] # NoTexture
                                              /\ job.addr \in Start[base[e]]..End[base[e]] - 1}
  BY DEF Poke, Step, events, threads
<1>2. TypeOK'
  <2>1. job' \in Jobs BY <1>1, JobsAre
  <2>2. stale' \subseteq Entries BY <1>1 DEF IInv, TypeOK
  <2>3. QED BY <1>1, <2>1, <2>2 DEF IInv, TypeOK, Jobs
<1>3. AlignedCoherent'
  BY <1>1 DEF IInv, AlignedCoherent, Evicted, AboutToPoke
<1>4. InHand' /\ PresentCovers' /\ Evicted'
  BY <1>1, JobsAre DEF IInv, InHand, PresentCovers, Evicted, AboutToPoke
<1>5. CountsAgree' BY <1>1, StillCounts DEF IInv
<1>6. Ring'
  <2>1. \A t \in Threads : Queued(t)' = Queued(t) BY <1>1, StillWaiting
  <2>2. ~Reserving' BY <1>1 DEF Reserving
  <2>3. QED BY <1>1, <2>1, <2>2 DEF IInv, Ring
<1>7. QED BY <1>2, <1>3, <1>4, <1>5, <1>6 DEF IInv

-----------------------------------------------------------------------------
\* Steps of a render thread that draw nothing and move no index.
LEMMA IdlingStep ==
  ASSUME IInv, NEW t \in Threads, WakeUp(t) \/ Signal(t) \/ NothingLeft(t) \/ Stop(t)
  PROVE  IInv'
<1>1. /\ ring' = ring /\ wr' = wr /\ fifo' = fifo /\ job' = job /\ base' = base /\ last' = last
      /\ present' = present /\ stale' = stale /\ owed' = owed /\ rd' = rd /\ misread' = misread
  BY DEF WakeUp, Signal, NothingLeft, Stop, fifoSide, texture
<1>2. /\ wake' \in [Threads -> BOOLEAN] /\ busy' \in [Threads -> BOOLEAN]
      /\ at' \in [Threads -> {"sleep", "test", "advance", "signal", "stop"}]
      /\ \A u \in Threads : (at[u] = "advance")' <=> at[u] = "advance"
  BY DEF WakeUp, Signal, NothingLeft, Stop, Goes, events, IInv, TypeOK
<1>3. room' \in [Threads -> BOOLEAN]
  <2> DEFINE full == ManyQueued(t)
  <2>1. room \in [Threads -> BOOLEAN] /\ full \in BOOLEAN BY DEF IInv, TypeOK, ManyQueued
  <2>2. room' = room \/ room' = [room EXCEPT ![t] = @ \/ full] \/ room' = [room EXCEPT ![t] = TRUE]
    BY DEF WakeUp, Signal, NothingLeft, Stop, events
  <2> HIDE DEF full
  <2>3. QED BY <2>1, <2>2
<1>4. TypeOK' BY <1>1, <1>2, <1>3 DEF IInv, TypeOK
<1>5. CountsAgree' BY <1>1, <1>2, StillCounts DEF IInv
<1>6. Ring'
  <2>1. \A u \in Threads : Queued(u)' = Queued(u) BY <1>1 DEF Queued
  <2>2. Reserving' <=> Reserving BY <1>1 DEF Reserving
  <2>3. QED BY <1>2, <2>1, <2>2 DEF IInv, Ring
<1>7. InHand' /\ PresentCovers' /\ Evicted' /\ AlignedCoherent'
  BY <1>1 DEF IInv, InHand, PresentCovers, Evicted, AboutToPoke, AlignedCoherent
<1>8. QED BY <1>4, <1>5, <1>6, <1>7 DEF IInv

\* A triangle is drawn, and counted as drawn before the index moves past it.
LEMMA DrawStep == ASSUME IInv, NEW t \in Threads, Draw(t) PROVE IInv'
<1> DEFINE d == Slot(rd[t])
           k == ring[d]
<1>1. /\ at[t] = "test" /\ at' = [at EXCEPT ![t] = "advance"] /\ ~Empty(t)
      /\ owed' = [owed EXCEPT ![k][t] = (owed[k][t] - 1) % Modulus]
      /\ ring' = ring /\ wr' = wr /\ fifo' = fifo /\ job' = job /\ base' = base /\ last' = last
      /\ present' = present /\ stale' = stale /\ rd' = rd
      /\ wake' = wake /\ room' = room /\ busy' = busy
      /\ misread' = (misread \/ k # Copied[d])
  BY DEF Draw, Goes, fifoSide, texture, events
<1>2. /\ TypeOK /\ Ring /\ CountsAgree /\ wr \in 0..Modulus - 1 /\ wr \in Nat
      /\ rd[t] \in 0..Modulus - 1 /\ rd[t] \in Nat
      /\ Modulus \in Nat /\ Slots \in Nat \ {0} /\ Slots < Modulus
      /\ ring \in [0..Slots - 1 -> Entries] /\ owed \in [Entries -> [Threads -> 0..Modulus - 1]]
      /\ at \in [Threads -> {"sleep", "test", "advance", "signal", "stop"}]
  BY Constants DEF IInv, TypeOK
<1>3. d \in 0..Slots - 1 /\ k \in Entries BY <1>2, SlotWraps
<1>4. Queued(t) \in 1..Slots /\ Undrawn(t) = Queued(t)
      /\ Queued(t) = (IF wr >= rd[t] THEN wr - rd[t] ELSE wr - rd[t] + Modulus)
  <2>1. Queued(t) \in Nat /\ Queued(t) # 0 BY <1>1, <1>2, QueuedIs
  <2>2. Queued(t) <= Slots BY <1>2 DEF Ring
  <2>3. QED BY <1>1, <1>2, <2>1, <2>2, QueuedIs, UndrawnIs
<1>5. d = Slot(wr + Modulus - Queued(t))
  <2>1. CASE wr >= rd[t]
    <3>1. wr + Modulus - Queued(t) = rd[t] + Modulus BY <1>2, <1>4, <2>1
    <3>2. QED BY <1>2, <3>1, SlotWraps
  <2>2. CASE wr < rd[t]
    <3>1. wr + Modulus - Queued(t) = rd[t] BY <1>2, <1>4, <2>2
    <3>2. QED BY <3>1
  <2>3. QED BY <1>2, <2>1, <2>2
<1> HIDE DEF d, k
<1>6. Queued(t)' = Queued(t) /\ Undrawn(t)' = Undrawn(t) - 1
  <2>1. Queued(t)' = Queued(t) BY <1>1 DEF Queued
  <2>2. at'[t] = "advance" BY <1>1, <1>2
  <2>3. QED BY <1>4, <2>1, <2>2 DEF Undrawn
<1>7. Waiting(t)' = Waiting(t) \ {d} /\ d \in Waiting(t)
  <2>1. Waiting(t)' = Behind(wr, Undrawn(t) - 1) BY <1>1, <1>6 DEF Waiting, Behind
  <2>2. Waiting(t) = Behind(wr, Undrawn(t)) BY DEF Waiting, Behind
  <2>3. Undrawn(t) \in 1..Slots BY <1>4
  <2>4. QED BY ZenonT(60), <1>2, <1>4, <1>5, <2>1, <2>2, <2>3, BehindShrinks
<1>8. ASSUME ~misread' PROVE Copied[d] = k BY <1>1, <1>8 DEF d, k
<1>9. ASSUME ~misread'
      PROVE  /\ owed[k][t] > 0 /\ owed[k][t] \in 0..Modulus - 1
             /\ (owed[k][t] - 1) % Modulus = owed[k][t] - 1
  <2>1. d \in Using(k, t) BY <1>7, <1>8, <1>9 DEF Using
  <2>2. IsFiniteSet(Using(k, t)) /\ Cardinality(Using(k, t)) \in Nat BY <1>2, WaitingIs
  <2>3. Cardinality(Using(k, t)) # 0 BY <2>1, <2>2, FS_EmptySet
  <2>4. owed[k][t] = Cardinality(Using(k, t)) + IF fifo = "put" /\ job.entry = k THEN 1 ELSE 0
    BY <1>1, <1>2, <1>3, <1>9 DEF CountsAgree, Using
  <2>5. owed[k][t] > 0 /\ owed[k][t] \in 0..Modulus - 1 BY <1>2, <1>3, <2>2, <2>3, <2>4
  <2>6. QED BY <2>5, Wrap
<1>10. /\ owed' \in [Entries -> [Threads -> 0..Modulus - 1]]
       /\ \A e \in Entries, u \in Threads :
            owed'[e][u] = IF e = k /\ u = t THEN (owed[e][u] - 1) % Modulus ELSE owed[e][u]
  <2> DEFINE n == (owed[k][t] - 1) % Modulus
  <2>1. n \in 0..Modulus - 1
    <3>1. owed[k][t] \in 0..Modulus - 1 BY <1>2, <1>3
    <3>2. \A v \in 0..Modulus - 1 : (v - 1) % Modulus \in 0..Modulus - 1
      <4>1. Modulus \in Nat \ {0} BY <1>2
      <4>2. QED BY <4>1
    <3>3. QED BY <3>1, <3>2
  <2>2. owed' = [owed EXCEPT ![k][t] = n] BY <1>1
  <2> HIDE DEF n
  <2>3. \A e \in Entries, u \in Threads :
          owed'[e][u] = IF e = k /\ u = t THEN n ELSE owed[e][u]
    BY <1>2, <1>3, <2>2
  <2>4. owed' \in [Entries -> [Threads -> 0..Modulus - 1]] BY <1>2, <1>3, <2>1, <2>2
  <2>5. QED BY <2>3, <2>4 DEF n
<1>11. ASSUME ~misread', NEW e \in Entries, NEW u \in Threads
       PROVE  owed'[e][u] = Cardinality({s \in Waiting(u)' : Copied'[s] = e})
                            + IF fifo' = "put" /\ job'.entry = e THEN 1 ELSE 0
  <2>1. owed[e][u] = Cardinality(Using(e, u)) + IF fifo = "put" /\ job.entry = e THEN 1 ELSE 0
    BY <1>1, <1>2, <1>11 DEF CountsAgree, Using
  <2>2. IsFiniteSet(Using(e, u)) /\ Cardinality(Using(e, u)) \in Nat BY <1>2, WaitingIs
  <2> Copied' = Copied BY <1>1 DEF Copied, LastSlot
  <2>3. CASE u # t
    <3>1. (at[u] = "advance")' <=> at[u] = "advance" BY <1>1, <1>2, <2>3
    <3>2. Waiting(u)' = Waiting(u) BY <1>1, <3>1, StillWaiting
    <3>3. {s \in Waiting(u)' : Copied'[s] = e} = Using(e, u) BY <1>1, <3>2 DEF Using
    <3>4. QED BY <1>1, <1>10, <2>1, <2>3, <3>3
  <2>4. CASE u = t /\ e # k
    <3>1. {s \in Waiting(u)' : Copied'[s] = e} = Using(e, u) BY <1>7, <1>8, <1>11, <2>4 DEF Using
    <3>2. QED BY <1>1, <1>10, <2>1, <2>4, <3>1
  <2>5. CASE u = t /\ e = k
    <3>1. {s \in Waiting(u)' : Copied'[s] = e} = Using(e, u) \ {d} /\ d \in Using(e, u)
      BY <1>7, <1>8, <1>11, <2>5 DEF Using
    <3>2. Cardinality(Using(e, u) \ {d}) = Cardinality(Using(e, u)) - 1
      BY <2>2, <3>1, FS_RemoveElement
    <3>3. owed'[e][u] = owed[e][u] - 1 BY <1>9, <1>10, <1>11, <2>5
    <3>4. Cardinality({s \in Waiting(u)' : Copied'[s] = e}) = Cardinality(Using(e, u)) - 1
      BY <3>1, <3>2
    <3>5. QED BY <1>1, <2>1, <2>2, <3>3, <3>4
  <2>6. QED BY <2>3, <2>4, <2>5
<1>12. CountsAgree' BY <1>11 DEF CountsAgree
<1>13. TypeOK' BY <1>1, <1>2, <1>10 DEF TypeOK
<1>14. Ring'
  <2>1. \A u \in Threads : Queued(u)' = Queued(u) BY <1>1 DEF Queued
  <2>2. Reserving' <=> Reserving BY <1>1 DEF Reserving
  <2>3. \A u \in Threads : u # t => at'[u] = at[u] BY <1>1, <1>2
  <2>4. Queued(t) > 0 BY <1>4
  <2>5. QED BY <1>2, <2>1, <2>2, <2>3, <2>4 DEF Ring
<1>15. InHand' /\ PresentCovers' /\ Evicted' /\ AlignedCoherent'
  BY <1>1 DEF IInv, InHand, PresentCovers, Evicted, AboutToPoke, AlignedCoherent
<1>16. QED BY <1>12, <1>13, <1>14, <1>15 DEF IInv

\* A render thread moves on to its next triangle.
LEMMA AdvanceStep == ASSUME IInv, NEW t \in Threads, Advance(t) PROVE IInv'
<1>1. /\ at[t] = "advance" /\ at' = [at EXCEPT ![t] = "signal"]
      /\ rd' = [rd EXCEPT ![t] = (rd[t] + 1) % Modulus]
      /\ ring' = ring /\ wr' = wr /\ fifo' = fifo /\ job' = job /\ base' = base /\ last' = last
      /\ present' = present /\ stale' = stale /\ owed' = owed
      /\ wake' = wake /\ room' = room /\ busy' = busy /\ misread' = misread
  BY DEF Advance, Goes, fifoSide, texture, events
<1>2. /\ TypeOK /\ Ring /\ CountsAgree /\ wr \in 0..Modulus - 1
      /\ rd[t] \in 0..Modulus - 1 /\ rd \in [Threads -> 0..Modulus - 1]
      /\ Modulus \in Nat \ {0} /\ Slots \in Nat
      /\ at \in [Threads -> {"sleep", "test", "advance", "signal", "stop"}]
  BY Constants DEF IInv, TypeOK
<1>3. /\ rd'[t] = (IF rd[t] = Modulus - 1 THEN 0 ELSE rd[t] + 1) /\ rd'[t] \in 0..Modulus - 1
      /\ rd' \in [Threads -> 0..Modulus - 1] /\ \A u \in Threads : u # t => rd'[u] = rd[u]
  <2> DEFINE n == (rd[t] + 1) % Modulus
  <2>1. n = (IF rd[t] = Modulus - 1 THEN 0 ELSE rd[t] + 1) /\ n \in 0..Modulus - 1
    BY <1>2, Wrap
  <2>2. rd' = [rd EXCEPT ![t] = n] BY <1>1
  <2> HIDE DEF n
  <2>3. QED BY <1>2, <2>1, <2>2
<1>4. Queued(t) \in Nat /\ Queued(t) > 0 /\ Queued(t)' = Queued(t) - 1 BY AdvanceQueued
<1>5. \A u \in Threads : at'[u] = IF u = t THEN "signal" ELSE at[u] BY <1>1, <1>2
<1>6. ASSUME NEW u \in Threads PROVE Waiting(u)' = Waiting(u)
  <2>1. Undrawn(u)' = Undrawn(u)
    <3>1. CASE u = t
      <4>1. Undrawn(t) = Queued(t) - 1 BY <1>1 DEF Undrawn
      <4>2. Undrawn(t)' = Queued(t)' - 0 BY <1>5 DEF Undrawn
      <4>3. QED BY <1>4, <3>1, <4>1, <4>2
    <3>2. CASE u # t
      <4>1. Queued(u)' = Queued(u) BY <1>1, <1>3, <3>2 DEF Queued
      <4>2. QED BY <1>5, <3>2, <4>1 DEF Undrawn
    <3>3. QED BY <3>1, <3>2
  <2>2. QED BY <1>1, <2>1 DEF Waiting
<1>7. CountsAgree' BY <1>1, <1>2, <1>6 DEF CountsAgree, Copied, LastSlot
<1>8. TypeOK' BY <1>1, <1>2, <1>3 DEF TypeOK
<1>9. Ring'
  <2>1. \A u \in Threads : u # t => Queued(u)' = Queued(u) BY <1>1, <1>3 DEF Queued
  <2>2. Reserving' <=> Reserving BY <1>1 DEF Reserving
  <2>3. Queued(t)' <= Slots /\ (Reserving => Queued(t)' < Slots)
    <3>1. Queued(t) <= Slots /\ (Reserving => Queued(t) < Slots) BY <1>2 DEF Ring
    <3>2. QED BY <1>2, <1>4, <3>1
  <2>4. QED BY <1>2, <1>5, <2>1, <2>2, <2>3 DEF Ring
<1>10. InHand' /\ PresentCovers' /\ Evicted' /\ AlignedCoherent'
  BY <1>1 DEF IInv, InHand, PresentCovers, Evicted, AboutToPoke, AlignedCoherent
<1>11. QED BY <1>7, <1>8, <1>9, <1>10 DEF IInv

-----------------------------------------------------------------------------
\* Every step keeps the invariant.
LEMMA StepInv == IInv /\ [Next]_vars => IInv'
<1> SUFFICES ASSUME IInv, [Next]_vars PROVE IInv' OBVIOUS
<1>1. CASE \E x \in Textures : QueueTriangle(x) BY <1>1, RoomSteps
<1>2. CASE AccessPixels BY <1>2, RoomSteps
<1>3. CASE \E a \in Addresses : WriteTexture(a) BY <1>3, WriteTextureStep
<1>4. CASE FifoWorks
  BY <1>4, RoomSteps, HitStep, FillStep, PutStep, CopyStep, PokeStep DEF FifoWorks
<1>5. CASE \E t \in Threads : Render(t)
  BY <1>5, IdlingStep, DrawStep, AdvanceStep DEF Render
<1>6. CASE UNCHANGED vars
  <2>1. /\ ring' = ring /\ wr' = wr /\ fifo' = fifo /\ job' = job /\ base' = base /\ last' = last
        /\ present' = present /\ stale' = stale /\ owed' = owed /\ rd' = rd /\ at' = at
        /\ wake' = wake /\ room' = room /\ busy' = busy /\ misread' = misread
    BY <1>6 DEF vars, texture, events, threads
  <2>2. CountsAgree' BY <2>1, StillCounts DEF IInv
  <2>3. TypeOK' BY <2>1 DEF IInv, TypeOK
  <2>4. Ring'
    <3>1. \A t \in Threads : Queued(t)' = Queued(t) BY <2>1 DEF Queued
    <3>2. QED BY <2>1, <3>1 DEF IInv, Ring, Reserving
  <2>5. InHand' /\ PresentCovers' /\ Evicted' /\ AlignedCoherent'
    BY <2>1 DEF IInv, InHand, PresentCovers, Evicted, AboutToPoke, AlignedCoherent
  <2>6. QED BY <2>2, <2>3, <2>4, <2>5 DEF IInv
<1>7. QED BY <1>1, <1>2, <1>3, <1>4, <1>5, <1>6 DEF Next

\* The inductive invariant holds in every behaviour, for any number of render threads
\* and any mix of triangles, textures and writes.
THEOREM RenderInvariance == Spec => []IInv
<1>1. QED BY InitInv, StepInv, PTL DEF Spec

\* Every variable keeps its type: the index of an entry is one of the cache's, the wait
\* for room is for one of the threads.
THEOREM RenderTypeCorrect == Spec => []TypeOK
<1>1. IInv => TypeOK BY DEF IInv
<1>2. QED BY <1>1, RenderInvariance, PTL

\* Until a thread counts a triangle by what was in its slot before, refcount and refcount_r of an
\* entry differ by the triangles that use it and wait, the wrapping of the counts
\* notwithstanding: nothing is lost or counted twice, although no lock is held
\* (voodoo_use_texture, render_thread).
THEOREM CountsAreWaiting == Spec => []CountsAgree
<1>1. IInv => CountsAgree BY DEF IInv
<1>2. QED BY <1>1, RenderInvariance, PTL

\* What is cached of a texture that starts on a page boundary is what texture memory
\* holds: voodoo_tex_writel finds every entry to give up through texture_present.
THEOREM CachedIsCurrent == Spec => []AlignedCoherent
<1>1. IInv => AlignedCoherent BY DEF IInv
<1>2. QED BY <1>1, RenderInvariance, PTL

\* A texture is decoded into an entry that nothing waits for.
LEMMA FillsUnused ==
  ASSUME Count \in {1, 2}, IInv, ~misread, Fill, NEW t \in Threads, NEW s \in Waiting(t)
  PROVE  Probed \in Entries /\ ring[s] # Probed
<1>1. Probed \in Entries BY Constants DEF TypeOK, IInv, Probed, Entries
<1>2. t \in Compared
  <2>1. CASE Count = 1 BY <2>1 DEF Compared, Threads
  <2>2. CASE Count = 2 BY <2>2 DEF Compared, Threads
  <2>3. QED BY <2>1, <2>2
<1>3. owed[Probed][t] = 0 /\ fifo = "probe" BY <1>2 DEF Fill, Unused, Step
<1> HIDE DEF Probed
<1>4. owed[Probed][t] = Cardinality(Using(Probed, t)) + 0 BY <1>1, <1>3 DEF IInv, CountsAgree, Using
<1>5. IsFiniteSet(Using(Probed, t)) /\ Cardinality(Using(Probed, t)) \in Nat BY WaitingIs DEF IInv
<1>6. Cardinality(Using(Probed, t)) = 0 BY <1>3, <1>4, <1>5
<1>7. Using(Probed, t) = {} BY <1>5, <1>6, FS_EmptySet
<1>8. QED BY <1>1, <1>3, <1>7 DEF Using, Copied

\* A decoded texture stays in its entry until every thread has drawn every triangle
\* queued with it, unless a thread has counted one by what was in its slot before.
UnusedWhenFilled ==
  [][\A e \in Entries :
       base'[e] \notin {base[e], NoTexture} /\ ~misread =>
         \A t \in Threads : \A s \in Waiting(t) : ring[s] # e]_vars

\* With one or two render threads, and until a thread counts a triangle by what was in its
\* slot before, voodoo_use_texture decodes a texture only into an entry that no waiting
\* triangle uses.
THEOREM FilledUnused == ASSUME Count \in {1, 2} PROVE Spec => UnusedWhenFilled
<1> DEFINE Safe == \A e \in Entries :
                     base'[e] \notin {base[e], NoTexture} /\ ~misread =>
                       \A t \in Threads : \A s \in Waiting(t) : ring[s] # e
<1>1. ASSUME IInv, Fill PROVE Safe
  <2>1. \A e \in Entries : base'[e] # base[e] => e = Probed BY <1>1 DEF Fill, IInv, TypeOK
  <2>2. ~misread => \A t \in Threads : \A s \in Waiting(t) : ring[s] # Probed BY <1>1, FillsUnused
  <2>3. QED BY <2>1, <2>2
<1>2. ASSUME IInv, NEW a \in Addresses, WriteTexture(a) PROVE Safe
  <2>1. \A e \in Entries : base'[e] \in {base[e], NoTexture}
    BY <1>2 DEF WriteTexture, IInv, TypeOK
  <2>2. QED BY <2>1
<1>3. ASSUME [Next]_vars, ~Fill, ~(\E a \in Addresses : WriteTexture(a)) PROVE base' = base
  <2>1. CASE FifoWorks
    BY <1>3, <2>1 DEF FifoWorks, HaveRoom, NoRoom, PassThread, AwaitThread, ThreadMadeRoom, LookAgain,
       Hit, Miss, Used, Put, Index, Copy, Nudge, Idle, NotIdle, Poke, texture
  <2>2. CASE \E t \in Threads : Render(t)
    BY <2>2 DEF Render, WakeUp, Draw, Advance, Signal, NothingLeft, Stop, fifoSide, texture
  <2>3. CASE (\E x \in Textures : QueueTriangle(x)) \/ AccessPixels
    BY <2>3 DEF QueueTriangle, AccessPixels, texture
  <2>4. CASE UNCHANGED vars BY <2>4 DEF vars, texture
  <2>5. QED BY <1>3, <2>1, <2>2, <2>3, <2>4 DEF Next
<1>4. ASSUME IInv, [Next]_vars PROVE Safe
  <2>1. CASE base' = base BY <2>1
  <2>2. QED BY <1>1, <1>2, <1>3, <1>4, <2>1
<1>5. IInv /\ [Next]_vars => [Safe]_vars BY <1>4
<1>6. QED BY <1>5, RenderInvariance, PTL DEF Spec, UnusedWhenFilled

\* When voodoo_wait_for_render_thread_idle returns, every thread has drawn every
\* triangle.
THEOREM IdleHasDrawn == Spec => IdleMeansDrawn
<1> DEFINE Drawn == fifo = "idle" /\ fifo' # "idle" =>
                      \A t \in Threads : Empty(t) /\ at[t] # "advance"
<1>1. ASSUME [Next]_vars, fifo = "idle", fifo' # "idle" PROVE Idle
  <2>1. CASE FifoWorks
    BY <1>1, <2>1 DEF FifoWorks, HaveRoom, NoRoom, PassThread, AwaitThread, ThreadMadeRoom, LookAgain,
       Hit, Miss, Fill, Used, Put, Index, Copy, Nudge, NotIdle, Poke, Step
  <2>2. CASE \E t \in Threads : Render(t)
    BY <1>1, <2>2 DEF Render, WakeUp, Draw, Advance, Signal, NothingLeft, Stop, fifoSide
  <2>3. CASE (\E x \in Textures : QueueTriangle(x)) \/ AccessPixels \/ \E a \in Addresses : WriteTexture(a)
    BY <1>1, <2>3 DEF QueueTriangle, AccessPixels, WriteTexture, Step
  <2>4. CASE UNCHANGED vars BY <1>1, <2>4 DEF vars
  <2>5. QED BY <1>1, <2>1, <2>2, <2>3, <2>4 DEF Next
<1>2. ASSUME IInv, [Next]_vars PROVE Drawn
  <2> SUFFICES ASSUME fifo = "idle", fifo' # "idle", NEW t \in Threads
               PROVE  Empty(t) /\ at[t] # "advance"
    OBVIOUS
  <2>1. AllIdle BY <1>1, <1>2 DEF Idle
  <2>2. Empty(t) BY <2>1 DEF AllIdle
  <2>3. Queued(t) = 0 BY <1>2, <2>2, QueuedIs DEF IInv
  <2>4. QED BY <1>2, <2>2, <2>3 DEF IInv, Ring
<1>3. IInv /\ [Next]_vars => [Drawn]_vars BY <1>2
<1>4. QED BY <1>3, RenderInvariance, PTL DEF Spec, IdleMeansDrawn

-----------------------------------------------------------------------------
(* No wake-up is lost. *)

\* The FIFO thread at work, but for queueing a triangle and waking the threads after it.
LEMMA FifoStuck ==
  ASSUME IInv, NobodyStuck, ~Put, ~Index, ~Nudge,
         \/ FifoWorks \/ AccessPixels
         \/ (\E x \in Textures : QueueTriangle(x)) \/ \E a \in Addresses : WriteTexture(a)
  PROVE  NobodyStuck'
<1>1. UNCHANGED <<wr, rd, at>> /\ fifo # "nudge" /\ (fifo = "indexed" => fifo' = "nudge")
      /\ (wake' = wake \/ WakeAll) /\ (fifo' = "await" => AwaitThread)
  BY DEF FifoWorks, HaveRoom, NoRoom, PassThread, AwaitThread, ThreadMadeRoom, LookAgain, Hit, Miss,
     Fill, Used, Copy, Idle, NotIdle, Poke, AccessPixels, QueueTriangle, WriteTexture, Step, threads, events,
     IInv, TypeOK
<1>2. \A t \in Threads : Queued(t)' = Queued(t) /\ (Empty(t)' <=> Empty(t))
  BY <1>1 DEF Queued, Empty
<1>3. SleepersWoken'
  <2>1. \A t \in Threads : wake[t] => wake'[t] BY <1>1 DEF WakeAll
  <2>2. QED BY <1>1, <1>2, <2>1 DEF NobodyStuck, SleepersWoken
<1>4. AwaitedGoesOn'
  <2> SUFFICES ASSUME fifo' = "await", NEW n \in Threads, n = job.n PROVE Full(n)' /\ ManyQueued(n)'
    BY <1>1 DEF AwaitThread, AwaitedGoesOn, Full, ManyQueued, Queued
  <2>1. Queued(n)' = Queued(n) /\ Queued(n) \in Nat /\ Queued(n) >= Slots
    BY <1>1, <1>2, QueuedIs, Constants DEF IInv, Full, AwaitThread
  <2>2. Queued(n) > RoomAbove BY <2>1, VoodooRenderAssumption
  <2>3. QED BY <2>1, <2>2 DEF Full, ManyQueued
<1>5. QED BY <1>3, <1>4 DEF NobodyStuck

\* A triangle is queued for every thread, and the threads are woken if one of them had
\* none.
LEMMA PutStuck == ASSUME IInv, NobodyStuck, Put \/ Index PROVE NobodyStuck'
<1>1. /\ fifo = "put" /\ fifo' \in {"indexed", "nudge"} /\ at' = at /\ wake' = wake /\ rd' = rd
  BY DEF Put, Index, Step, threads, events
<1>2. SleepersWoken'
  <2> SUFFICES ASSUME NEW t \in Threads, at[t] \in {"stop", "sleep"}, ~wake[t]
      PROVE  Queued(t)' = 1
    BY <1>1 DEF SleepersWoken
  <2>1. Empty(t) BY <1>1 DEF NobodyStuck, SleepersWoken
  <2>2. Queued(t) = 0 BY <2>1, QueuedIs DEF IInv
  <2>3. QED BY <2>2, PutQueued
<1>3. QED BY <1>1, <1>2 DEF NobodyStuck, AwaitedGoesOn

\* Waking the render threads wakes whoever sleeps.
LEMMA NudgeStuck == ASSUME IInv, NobodyStuck, Nudge PROVE NobodyStuck'
<1>1. /\ fifo = "nudge" /\ fifo' = "ready" /\ UNCHANGED <<wr, rd, at>>
      /\ (FewQueued => WakeAll) /\ (~FewQueued => wake' = wake)
  BY DEF Nudge, Step, threads
<1>2. \A t \in Threads : Empty(t)' <=> Empty(t) BY <1>1 DEF Empty
<1>3. SleepersWoken'
  <2> SUFFICES ASSUME NEW t \in Threads, at[t] \in {"stop", "sleep"}, ~Empty(t) PROVE wake'[t]
    BY <1>1, <1>2 DEF SleepersWoken
  <2>1. CASE FewQueued BY <1>1, <2>1 DEF WakeAll
  <2>2. CASE ~FewQueued
    <3>1. WakeBelow \in 2..Slots /\ Slots \in Nat BY VoodooRenderAssumption
    <3>2. Queued(t) # 1 BY <2>2, <3>1 DEF FewQueued
    <3>3. QED BY <1>1, <2>2, <3>2 DEF NobodyStuck, SleepersWoken
  <2>3. QED BY <2>1, <2>2
<1>4. QED BY <1>1, <1>3 DEF NobodyStuck, AwaitedGoesOn

\* A render thread looks at its queue after it has reset its event, and after the last
\* triangle; it has to say that there is room while it still has many.
LEMMA RenderStuck == ASSUME IInv, NobodyStuck, NEW t \in Threads, Render(t) PROVE NobodyStuck'
<1>1. /\ wr' = wr /\ fifo' = fifo /\ job' = job
      /\ at \in [Threads -> {"sleep", "test", "advance", "signal", "stop"}]
      /\ wake \in [Threads -> BOOLEAN] /\ room \in [Threads -> BOOLEAN]
  BY DEF Render, WakeUp, Draw, Advance, Signal, NothingLeft, Stop, fifoSide, IInv, TypeOK
<1>2. ASSUME NEW u \in Threads, u # t
      PROVE  at'[u] = at[u] /\ wake'[u] = wake[u] /\ room'[u] = room[u]
  BY <1>1, <1>2 DEF Render, WakeUp, Draw, Advance, Signal, NothingLeft, Stop, Goes, events
<1>3. ASSUME NEW u \in Threads, u # t \/ ~Advance(t)
      PROVE  Queued(u)' = Queued(u) /\ (Empty(u)' <=> Empty(u))
  <2>1. CASE Advance(t) BY <1>3, <2>1, AdvanceQueued
  <2>2. CASE ~Advance(t)
    <3>1. rd' = rd BY <2>2 DEF Render, WakeUp, Draw, Signal, NothingLeft, Stop, threads
    <3>2. QED BY <1>1, <3>1 DEF Queued, Empty
  <2>3. QED BY <2>1, <2>2
<1>4. SleepersWoken'
  <2> SUFFICES ASSUME NEW u \in Threads, at'[u] \in {"stop", "sleep"}, ~Empty(u)'
               PROVE  wake'[u] \/ (fifo' \in {"indexed", "nudge"} /\ Queued(u)' = 1)
    BY DEF SleepersWoken
  <2>1. CASE u # t BY <1>1, <1>2, <1>3, <2>1 DEF NobodyStuck, SleepersWoken
  <2>2. CASE u = t
    <3>1. NothingLeft(t) \/ Stop(t)
      BY <1>1, <2>2 DEF Render, WakeUp, Draw, Advance, Signal, Goes
    <3>2. ~Advance(t) BY <1>1, <3>1 DEF NothingLeft, Stop, Advance, Goes
    <3>3. ~Empty(t) /\ Queued(t)' = Queued(t) BY <1>3, <2>2, <3>2
    <3>4. Stop(t) BY <3>1, <3>3 DEF NothingLeft
    <3>5. QED BY <1>1, <2>2, <3>3, <3>4 DEF Stop, Goes, NobodyStuck, SleepersWoken
  <2>3. QED BY <2>1, <2>2
<1>5. AwaitedGoesOn'
  <2> SUFFICES ASSUME fifo = "await", NEW n \in Threads, n = job.n, ~room'[n]
               PROVE  IF at'[n] = "signal" THEN ManyQueued(n)' ELSE Full(n)'
    BY <1>1 DEF AwaitedGoesOn, Full, ManyQueued, Queued, IInv, TypeOK
  <2>1. IF at[n] = "signal" THEN ManyQueued(n) ELSE Full(n)
    <3>1. room[n] => room'[n]
      BY <1>1, <1>2 DEF Render, WakeUp, Draw, Advance, Signal, NothingLeft, Stop, events
    <3>2. QED BY <3>1 DEF NobodyStuck, AwaitedGoesOn
  <2>2. CASE n # t BY <1>2, <1>3, <2>1, <2>2 DEF Full, ManyQueued
  <2>3. CASE n = t /\ (WakeUp(t) \/ Draw(t))
    <3>1. at[t] # "signal" /\ at'[t] # "signal" BY <1>1, <2>3 DEF WakeUp, Draw, Goes
    <3>2. ~Advance(t) BY <1>1, <2>3 DEF WakeUp, Draw, Advance, Goes
    <3>3. QED BY <1>3, <2>1, <2>3, <3>1, <3>2 DEF Full
  <2>4. CASE n = t /\ Advance(t)
    <3>1. at[t] = "advance" /\ at'[t] = "signal" BY <1>1, <2>4 DEF Advance, Goes
    <3>2. Queued(t) \in Nat /\ Queued(t)' = Queued(t) - 1 BY <2>4, AdvanceQueued
    <3>3. Queued(t) >= Slots BY <2>1, <2>4, <3>1 DEF Full
    <3>4. Queued(t)' > RoomAbove BY <3>2, <3>3, VoodooRenderAssumption
    <3>5. QED BY <2>4, <3>1, <3>4 DEF ManyQueued
  <2>5. CASE n = t /\ Signal(t)
    <3>1. ManyQueued(t) BY <2>1, <2>5 DEF Signal, Goes
    <3>2. QED BY <1>1, <2>5, <3>1 DEF Signal
  <2>6. CASE n = t /\ NothingLeft(t)
    <3>1. Full(t) /\ Empty(t) BY <2>1, <2>6 DEF NothingLeft, Goes
    <3>2. Queued(t) = 0 /\ Slots \in Nat \ {0} BY <3>1, QueuedIs, Constants DEF IInv
    <3>3. QED BY <3>1, <3>2 DEF Full
  <2>7. CASE n = t /\ Stop(t) BY <1>1, <2>7 DEF Stop
  <2>8. QED BY <2>2, <2>3, <2>4, <2>5, <2>6, <2>7 DEF Render
<1>6. QED BY <1>4, <1>5 DEF NobodyStuck

\* The events of the parameter ring lose no wake-up: a render thread that sleeps on
\* triangles, or is about to, has been or will be woken, and one that voodoo_queue_triangle
\* waits for will set render_not_full_event.
THEOREM WakeUpsKept == Spec => []NobodyStuck
<1>1. Init => NobodyStuck
  BY DEF Init, NobodyStuck, SleepersWoken, AwaitedGoesOn, Empty
<1>2. ASSUME IInv, NobodyStuck, [Next]_vars PROVE NobodyStuck'
  <2>1. CASE Put \/ Index BY <1>2, <2>1, PutStuck
  <2>2. CASE Nudge BY <1>2, <2>2, NudgeStuck
  <2>3. CASE \E t \in Threads : Render(t) BY <1>2, <2>3, RenderStuck
  <2>4. CASE UNCHANGED vars
    BY <1>2, <2>4 DEF vars, threads, events, NobodyStuck, SleepersWoken, AwaitedGoesOn, Empty, Queued,
       Full, ManyQueued
  <2>5. QED BY <1>2, <2>1, <2>2, <2>3, <2>4, FifoStuck DEF Next
<1>3. IInv /\ NobodyStuck /\ [Next]_vars => NobodyStuck' BY <1>2
<1>4. QED BY <1>1, <1>3, RenderInvariance, PTL DEF Spec
=============================================================================
