------------------------------ MODULE PicProofs ------------------------------
(***************************************************************************)
(* Pic.tla for every choice of lines, masks and ICWs, on an AT and on an XT: *)
(* the registers and the cached pic_intpending stay in step, so picinterrupt *)
(* always finds an interrupt that may be delivered, and no request is lost.  *)
(***************************************************************************)
EXTENDS Pic, TLAPS

\* The inductive invariant: everything the chips cache follows from what they hold.
InStep == TypeOK /\ MaskFollowsService /\ CachedPending

\* A chip as pic_updatepending may find it: mask2 follows what is in service.
MasterFit(m) == m \in Chip8259 /\ m.mask2 = Blocked(m.ins)
SlaveFit(s) == s \in Chip8259 /\ (s.mask2 = Blocked(s.ins) \/ s.ins = {})

-----------------------------------------------------------------------------
\* The loops over c find the first line of any set that has one.
LEMMA LowestIs ==
  ASSUME NEW S \in SUBSET Bits, S # {}
  PROVE  Lowest(S) \in S /\ \A d \in S : Lowest(S) <= d
<1>1. \E c \in S : \A d \in S : c <= d
  <2>1. CASE 0 \in S BY <2>1 DEF Bits
  <2>2. CASE 0 \notin S /\ 1 \in S BY <2>2 DEF Bits
  <2>3. CASE {0, 1} \cap S = {} /\ 2 \in S BY <2>3 DEF Bits
  <2>4. CASE {0, 1, 2} \cap S = {} /\ 3 \in S BY <2>4 DEF Bits
  <2>5. CASE {0, 1, 2, 3} \cap S = {} /\ 4 \in S BY <2>5 DEF Bits
  <2>6. CASE {0, 1, 2, 3, 4} \cap S = {} /\ 5 \in S BY <2>6 DEF Bits
  <2>7. CASE {0, 1, 2, 3, 4, 5} \cap S = {} /\ 6 \in S BY <2>7 DEF Bits
  <2>8. CASE {0, 1, 2, 3, 4, 5, 6} \cap S = {}
    <3>1. \A d \in S : d = 7 BY <2>8 DEF Bits
    <3>2. QED BY <3>1
  <2>9. QED BY <2>1, <2>2, <2>3, <2>4, <2>5, <2>6, <2>7, <2>8
<1>2. QED BY <1>1 DEF Lowest

\* pic_updatepending brings everything that is cached back in step.
LEMMA UpdateInStep ==
  ASSUME NEW m, MasterFit(m), NEW s, SlaveFit(s), Update(m, s)
  PROVE  /\ pic' \in Chip8259 /\ pic2' \in Chip8259 /\ pic_intpending' \in BOOLEAN
         /\ MaskFollowsService' /\ CachedPending'
         /\ pic'.pend \ {2} = m.pend \ {2} /\ pic2' = s
         /\ ~AT => pic' = m
<1>1. pic' = Cascaded(m, s) /\ pic2' = s /\ pic_intpending' = Pending(pic', s)
  BY DEF Update
<1>2. /\ Cascaded(m, s) \in Chip8259
      /\ Cascaded(m, s).mask2 = m.mask2 /\ Cascaded(m, s).ins = m.ins
      /\ Cascaded(m, s).pend \ {2} = m.pend \ {2}
      /\ ~AT => Cascaded(m, s) = m
      /\ AT => (2 \in Cascaded(m, s).pend <=> Requests(s) # {})
  BY DEF Cascaded, MasterFit, Chip8259, Bits
<1>3. Pending(pic', s) \in BOOLEAN
  BY DEF Pending
<1>4. QED
  BY <1>1, <1>2, <1>3 DEF MasterFit, SlaveFit, MaskFollowsService, CachedPending

\* pic_updatepending itself loses nothing: what is held is what it was given.
LEMMA UpdateHolds ==
  ASSUME NEW m \in Chip8259, NEW s, Update(m, s)
  PROVE  Held' = (IF AT THEN m.pend \ {2} ELSE m.pend) \cup {c + 8 : c \in s.pend}
<1>1. pic' = Cascaded(m, s) /\ pic2' = s
  BY DEF Update
<1>2. /\ Cascaded(m, s).pend \ {2} = m.pend \ {2}
      /\ ~AT => Cascaded(m, s) = m
  BY DEF Cascaded, Chip8259
<1>3. QED BY <1>1, <1>2 DEF Held

\* Ending a service and starting one both recompute mask2.
LEMMA ServiceFits ==
  ASSUME NEW p \in Chip8259, NEW c \in Bits
  PROVE  /\ MasterFit(Ended(p, c)) /\ Ended(p, c).pend = p.pend
         /\ MasterFit(Taken(p, c))
         /\ Taken(p, c).pend = (IF c \in p.level THEN p.pend ELSE p.pend \ {c})
         /\ MasterFit(EndedFirst(Taken(p, c))) /\ EndedFirst(Taken(p, c)).pend = Taken(p, c).pend
<1>1. \A q \in Chip8259, d \in Bits : MasterFit(Ended(q, d)) /\ Ended(q, d).pend = q.pend
  BY DEF Ended, MasterFit, Chip8259, Blocked
<1>2. /\ MasterFit(Taken(p, c)) /\ Taken(p, c).ins # {}
      /\ Taken(p, c).pend = (IF c \in p.level THEN p.pend ELSE p.pend \ {c})
  BY DEF Taken, MasterFit, Chip8259, Blocked
<1>3. Lowest(Taken(p, c).ins) \in Bits
  BY <1>2, LowestIs DEF MasterFit, Chip8259
<1>4. QED
  BY <1>1, <1>2, <1>3 DEF EndedFirst, MasterFit

-----------------------------------------------------------------------------
\* Power-on.
LEMMA InitInStep == Init => InStep
<1> SUFFICES ASSUME Init PROVE InStep OBVIOUS
<1>1. PowerOn \in Chip8259 BY DEF PowerOn, Chip8259, Bits
<1>2. pic \in Chip8259 /\ pic2 \in Chip8259
  BY <1>1 DEF Init, Chip8259, All, PowerOn
<1>3. pic.ins = {} /\ pic.mask2 = {} /\ pic.pend = {} /\ pic2.ins = {} /\ pic2.pend = {}
  BY DEF Init, PowerOn
<1>4. Blocked({}) = {} BY DEF Blocked
<1>5. MaskFollowsService BY <1>3, <1>4 DEF MaskFollowsService
<1>6. CachedPending BY <1>3 DEF CachedPending, Pending, Requests, Init
<1>7. QED BY <1>2, <1>5, <1>6 DEF InStep, TypeOK, Init

\* Devices raising and withdrawing requests: only picintc takes one away, its own.
LEMMA DeviceStep ==
  ASSUME PicAssumption, InStep, NEW n \in Irqs, Picint(n) \/ Picintlevel(n) \/ Picintc(n)
  PROVE  InStep' /\ \A r \in Held \ Held' : Picintc(n) /\ Routed(n) = r
<1> USE DEF InStep, TypeOK
<1>1. MasterFit(pic) /\ SlaveFit(pic2)
  BY DEF MasterFit, SlaveFit, MaskFollowsService
<1>2. /\ MasterLine(n) \subseteq Bits /\ SlaveLine(n) \subseteq Bits
      /\ Routed(n) \in 0..15 /\ Shared \subseteq 0..15
  BY DEF PicAssumption, MasterLine, SlaveLine, Routed, Bits
<1>3. /\ MasterFit(Raised(pic, MasterLine(n))) /\ SlaveFit(Raised(pic2, SlaveLine(n)))
      /\ MasterFit(Dropped(pic, MasterLine(n))) /\ SlaveFit(Dropped(pic2, SlaveLine(n)))
  BY <1>1, <1>2 DEF MasterFit, SlaveFit, Chip8259, Raised, Dropped
<1>4. CASE Picint(n)
  <2>1. pic_current' = pic_current /\ iflag' = iflag /\ takeint' = takeint
    BY <1>4 DEF Picint, cpu
  <2>2. Update(Raised(pic, MasterLine(n)), Raised(pic2, SlaveLine(n)))
    BY <1>4 DEF Picint
  <2>3. Held \subseteq Held'
    BY <1>3, <2>2, UpdateHolds DEF MasterFit, Held, Raised, Chip8259
  <2>4. QED BY <1>3, <2>1, <2>2, <2>3, UpdateInStep
<1>5. CASE Picintlevel(n)
  <2>1. pic_current' \subseteq 0..15 /\ iflag' = iflag /\ takeint' = takeint
    BY <1>2, <1>5 DEF Picintlevel, cpu
  <2>2. \/ Update(pic, pic2)
        \/ Update(Raised(pic, MasterLine(n)), Raised(pic2, SlaveLine(n)))
    BY <1>5 DEF Picintlevel
  <2>3. Held \subseteq Held'
    BY <1>1, <1>3, <2>2, UpdateHolds DEF MasterFit, Held, Raised, Chip8259
  <2>4. QED BY <1>1, <1>3, <2>1, <2>2, <2>3, UpdateInStep
<1>6. CASE Picintc(n)
  <2>1. pic_current' \subseteq 0..15 /\ iflag' = iflag /\ takeint' = takeint
    BY <1>6 DEF Picintc, cpu
  <2>2. Update(Dropped(pic, MasterLine(n)), Dropped(pic2, SlaveLine(n)))
    BY <1>6 DEF Picintc
  <2>3. Held' = (IF AT THEN (pic.pend \ MasterLine(n)) \ {2} ELSE pic.pend \ MasterLine(n))
                \cup {c + 8 : c \in pic2.pend \ SlaveLine(n)}
    BY <1>3, <2>2, UpdateHolds DEF MasterFit, Dropped, Chip8259
  <2>4. \A r \in Held \ Held' : Routed(n) = r
    BY <2>3 DEF Held, MasterLine, SlaveLine
  <2>5. QED BY <1>3, <1>6, <2>1, <2>2, <2>4, UpdateInStep
<1>7. QED BY <1>4, <1>5, <1>6

\* A port write that ends in pic_updatepending, whichever chip it is for.
LEMMA WriteInStep ==
  ASSUME InStep, NEW x \in Chips, NEW p, MasterFit(p), p.pend = Chip(x).pend, UpdateWith(x, p),
         UNCHANGED <<pic_current, cpu>>
  PROVE  InStep' /\ Held \subseteq Held'
<1>1. MasterFit(pic) /\ SlaveFit(pic2) /\ SlaveFit(p)
  BY DEF InStep, TypeOK, MasterFit, SlaveFit, MaskFollowsService
<1>2. Update(p, pic2) \/ Update(pic, p)
  BY DEF UpdateWith
<1>3. pic_current' = pic_current /\ iflag' = iflag /\ takeint' = takeint
  BY DEF cpu
<1>4. Held \subseteq Held'
  <2>1. pic \in Chip8259 /\ p \in Chip8259 BY <1>1 DEF MasterFit
  <2>2. CASE x = "pic"
    <3>1. Update(p, pic2) /\ p.pend = pic.pend BY <2>2 DEF UpdateWith, Chip
    <3>2. QED BY <2>1, <3>1, UpdateHolds DEF Held
  <2>3. CASE x # "pic"
    <3>1. Update(pic, p) /\ p.pend = pic2.pend BY <2>3 DEF UpdateWith, Chip
    <3>2. QED BY <2>1, <3>1, UpdateHolds DEF Held
  <2>4. QED BY <2>2, <2>3
<1>5. QED BY <1>1, <1>2, <1>3, <1>4, UpdateInStep DEF InStep, TypeOK

\* A port write that leaves requests, masks and service as they were.
LEMMA QuietInStep ==
  ASSUME InStep, NEW x \in Chips, NEW p \in Chip8259, Becomes(x, p),
         p.pend = Chip(x).pend, p.ins = Chip(x).ins, p.mask = Chip(x).mask,
         p.mask2 = Chip(x).mask2, UNCHANGED <<pic_intpending, pic_current, cpu>>
  PROVE  InStep' /\ Held \subseteq Held'
<1>1. /\ pic'.pend = pic.pend /\ pic'.ins = pic.ins /\ pic'.mask = pic.mask /\ pic'.mask2 = pic.mask2
      /\ pic2'.pend = pic2.pend /\ pic2'.ins = pic2.ins
      /\ pic2'.mask = pic2.mask /\ pic2'.mask2 = pic2.mask2
      /\ pic' \in Chip8259 /\ pic2' \in Chip8259
  BY DEF Becomes, Chip, Chips, InStep, TypeOK
<1>2. pic_intpending' = pic_intpending /\ pic_current' = pic_current /\ iflag' = iflag /\ takeint' = takeint
  BY DEF cpu
<1>3. Requests(pic)' = Requests(pic) /\ Requests(pic2)' = Requests(pic2)
  BY <1>1 DEF Requests
<1>4. Pending(pic, pic2)' <=> Pending(pic, pic2)
  BY <1>1, <1>3 DEF Pending
<1>5. QED
  BY <1>1, <1>2, <1>3, <1>4 DEF InStep, TypeOK, MaskFollowsService, CachedPending, Held

\* The guest's port writes.
LEMMA GuestStep ==
  ASSUME PicAssumption, InStep, NEW x \in Chips,
         \/ \E i \in Icw1 : WriteIcw1(x, i)
         \/ \E auto \in BOOLEAN : WriteIcw(x, auto)
         \/ \E mask \in Masks : WriteMask(x, mask)
         \/ \E c \in Bits : SpecificEoi(x, c)
         \/ Eoi(x)
         \/ \E S \in SUBSET Elcr : WriteElcr(x, S)
  PROVE  InStep' /\ Held \subseteq Held'
<1>1. Chip(x) \in Chip8259
  BY DEF Chip, InStep, TypeOK
<1>2. ASSUME NEW i \in Icw1, WriteIcw1(x, i) PROVE InStep' /\ Held \subseteq Held'
  <2> DEFINE q == [Chip(x) EXCEPT !.mask = {}, !.mask2 = {}, !.icw = 1, !.icw1 = i, !.ins = {}]
  <2>1. i \in [ic4 : BOOLEAN, sngl : BOOLEAN] BY DEF PicAssumption
  <2>2. q \in Chip8259 /\ q.ins = {} /\ q.mask2 = {} /\ q.pend = Chip(x).pend
    <3> DEFINE cleared == [Chip(x) EXCEPT !.mask = {}, !.mask2 = {}, !.ins = {}]
               started(r, k, j) == [r EXCEPT !.icw = k, !.icw1 = j]
    <3>1. cleared \in Chip8259 /\ cleared.ins = {} /\ cleared.mask2 = {} /\ cleared.pend = Chip(x).pend
      BY <1>1 DEF Chip8259
    <3>2. q = started(cleared, 1, i)
      BY <1>1 DEF Chip8259
    <3>3. \A r \in Chip8259, k \in 0..3, j \in [ic4 : BOOLEAN, sngl : BOOLEAN] :
            /\ started(r, k, j) \in Chip8259 /\ started(r, k, j).pend = r.pend
            /\ started(r, k, j).ins = r.ins /\ started(r, k, j).mask2 = r.mask2
      BY DEF Chip8259
    <3>4. 1 \in 0..3 OBVIOUS
    <3> HIDE DEF cleared, started, q
    <3>5. QED BY <2>1, <3>1, <3>2, <3>3, <3>4
  <2>3. UpdateWith(x, q) /\ UNCHANGED <<pic_current, cpu>> BY <1>2 DEF WriteIcw1
  <2> HIDE DEF q
  <2>4. Blocked({}) = {} BY DEF Blocked
  <2>5. MasterFit(q) BY <2>2, <2>4 DEF MasterFit
  <2>6. QED BY <2>2, <2>3, <2>5, WriteInStep
<1>3. ASSUME NEW auto \in BOOLEAN, WriteIcw(x, auto) PROVE InStep' /\ Held \subseteq Held'
  <2> DEFINE p == Chip(x)
             next == CASE p.icw = 1 -> IF p.icw1.sngl THEN 3 ELSE 2
                       [] p.icw = 2 -> IF p.icw1.ic4 THEN 3 ELSE 0
                       [] OTHER -> 0
             q == [p EXCEPT !.icw = next, !.icw4 = IF p.icw = 3 THEN auto ELSE @]
  <2>1. next \in 0..3 OBVIOUS
  <2>2. Becomes(x, q) /\ UNCHANGED <<pic_intpending, pic_current, cpu>>
    BY <1>3 DEF WriteIcw
  <2> HIDE DEF next
  <2>3. q \in Chip8259 /\ q.pend = p.pend /\ q.ins = p.ins /\ q.mask = p.mask /\ q.mask2 = p.mask2
    BY <1>1, <2>1 DEF Chip8259
  <2> HIDE DEF q
  <2>4. QED BY <2>2, <2>3, QuietInStep
<1>4. ASSUME NEW mask \in Masks, WriteMask(x, mask) PROVE InStep' /\ Held \subseteq Held'
  <2> DEFINE q == [Chip(x) EXCEPT !.mask = mask]
  <2>1. mask \in SUBSET Bits BY DEF PicAssumption
  <2>2. q \in Chip8259 /\ q.ins = Chip(x).ins /\ q.mask2 = Chip(x).mask2 /\ q.pend = Chip(x).pend
    BY <1>1, <2>1 DEF Chip8259
  <2>3. x = "pic" \/ x = "pic2" BY DEF Chips
  <2>4. UpdateWith(x, q) /\ UNCHANGED <<pic_current, cpu>> BY <1>4 DEF WriteMask
  <2>5. pic_current' = pic_current /\ iflag' = iflag /\ takeint' = takeint BY <2>4 DEF cpu
  <2> HIDE DEF q
  <2>6. MasterFit(pic) /\ SlaveFit(pic2)
    BY DEF InStep, TypeOK, MasterFit, SlaveFit, MaskFollowsService
  <2>7. CASE x = "pic"
    <3>1. MasterFit(q) /\ Update(q, pic2) /\ q.pend = pic.pend
      BY <2>2, <2>4, <2>6, <2>7 DEF MasterFit, Chip, UpdateWith
    <3>2. Held \subseteq Held' BY <2>2, <3>1, UpdateHolds DEF Held
    <3>3. QED BY <2>5, <2>6, <3>1, <3>2, UpdateInStep DEF InStep, TypeOK
  <2>8. CASE x = "pic2"
    <3>1. SlaveFit(q) /\ Update(pic, q) /\ q.pend = pic2.pend
      BY <2>2, <2>4, <2>6, <2>8 DEF SlaveFit, Chip, UpdateWith
    <3>2. Held \subseteq Held' BY <2>6, <3>1, UpdateHolds DEF Held, MasterFit
    <3>3. QED BY <2>5, <2>6, <3>1, <3>2, UpdateInStep DEF InStep, TypeOK
  <2>9. QED BY <2>3, <2>7, <2>8
<1>5. ASSUME NEW c \in Bits, SpecificEoi(x, c) PROVE InStep' /\ Held \subseteq Held'
  <2>1. MasterFit(Ended(Chip(x), c)) /\ Ended(Chip(x), c).pend = Chip(x).pend
    BY <1>1, ServiceFits
  <2>2. QED BY <1>5, <2>1, WriteInStep DEF SpecificEoi
<1>6. CASE Eoi(x)
  <2>1. Chip(x).ins # {} /\ Chip(x).ins \in SUBSET Bits BY <1>1, <1>6 DEF Eoi, Chip8259
  <2>2. Lowest(Chip(x).ins) \in Bits BY <2>1, LowestIs
  <2>3. MasterFit(EndedFirst(Chip(x))) /\ EndedFirst(Chip(x)).pend = Chip(x).pend
    BY <1>1, <2>1, <2>2, ServiceFits DEF EndedFirst
  <2>4. QED BY <1>6, <2>3, WriteInStep DEF Eoi
<1>7. ASSUME NEW S \in SUBSET Elcr, WriteElcr(x, S) PROVE InStep' /\ Held \subseteq Held'
  <2> DEFINE lines == S \cap (IF x = "pic" THEN 3..7 ELSE {1, 2, 3, 4, 6, 7})
             q == [Chip(x) EXCEPT !.level = lines]
  <2>1. lines \in SUBSET Bits BY DEF PicAssumption
  <2>2. Becomes(x, q) /\ UNCHANGED <<pic_intpending, pic_current, cpu>>
    BY <1>7 DEF WriteElcr
  <2> HIDE DEF lines
  <2>3. /\ q \in Chip8259 /\ q.pend = Chip(x).pend /\ q.ins = Chip(x).ins
        /\ q.mask = Chip(x).mask /\ q.mask2 = Chip(x).mask2
    BY <1>1, <2>1 DEF Chip8259
  <2> HIDE DEF q
  <2>4. QED BY <2>2, <2>3, QuietInStep
<1>8. QED BY <1>2, <1>3, <1>4, <1>5, <1>6, <1>7

-----------------------------------------------------------------------------
\* picinterrupt's answer lies before whatever its chip has in service: it is the
\* first request, blocked or not, and at least one request is not blocked.
LEMMA AnswerFits ==
  ASSUME InStep
  PROVE  /\ PriorityKept
         /\ FromSlave /\ Answer # None => Answer - 8 \in Bits
         /\ ~FromSlave /\ Answer # None => Answer \in Bits
         /\ FromSlave => Answer # None
<1> USE DEF InStep, TypeOK
<1>1. MasterChoice \in SUBSET Bits /\ SlaveChoice \in SUBSET Bits
  BY DEF MasterChoice, SlaveChoice, Chip8259
<1>2. CASE FromSlave
  <2>1. Requests(pic2) # {}
    BY <1>2 DEF FromSlave, MasterChoice, CachedPending
  <2>2. PICK r \in Bits : r \in SlaveChoice /\ r \notin pic2.mask2
    BY <2>1 DEF Requests, SlaveChoice, Chip8259
  <2>3. Answer = 8 + Lowest(SlaveChoice)
    BY <1>2, <2>2 DEF Answer
  <2>4. Lowest(SlaveChoice) \in Bits /\ Lowest(SlaveChoice) <= r
    BY <1>1, <2>2, LowestIs
  <2>5. Answer - 8 \in Bits /\ Answer \notin Bits /\ Answer # None /\ Answer - 8 <= r
    BY <2>2, <2>3, <2>4 DEF Bits, None
  <2>6. \A i \in pic2.ins : r < i
    BY <2>2 DEF MaskFollowsService, Blocked, Chip8259, Bits
  <2>7. \A i \in pic2.ins : Answer - 8 < i
    BY <2>2, <2>5, <2>6 DEF Bits, Chip8259
  <2>8. ASSUME pic_intpending, 2 \in Blocked(pic.ins)
        PROVE  Requests(pic) \cap {0, 1} # {}
    <3>1. pic.mask2 = Blocked(pic.ins) /\ Requests(pic) # {}
      BY <2>8 DEF MaskFollowsService, CachedPending, Pending
    <3>2. PICK j \in Bits : j \in Requests(pic) /\ j \notin Blocked(pic.ins)
      BY <3>1 DEF Requests, Chip8259
    <3>3. PICK i \in Bits : i \in pic.ins /\ i <= 2
      BY <2>8 DEF Blocked, Chip8259
    <3>4. j < i BY <3>2, <3>3 DEF Blocked, Bits
    <3>5. j \in {0, 1} BY <3>3, <3>4 DEF Bits
    <3>6. QED BY <3>2, <3>5
  <2>9. QED BY <1>2, <2>5, <2>7, <2>8 DEF PriorityKept
<1>3. CASE ~FromSlave
  <2>1. MasterChoice # {} => Lowest(MasterChoice) \in Bits
    BY <1>1, LowestIs
  <2>2. Answer # None => Answer \in Bits
    BY <1>3, <2>1 DEF Answer
  <2>3. ASSUME pic_intpending
        PROVE  Answer # None /\ Answer \in Bits /\ \A i \in pic.ins : Answer < i
    <3>1. ~(AT /\ 2 \notin pic.mask \cup pic.mask2 /\ Requests(pic2) # {})
      BY <1>3 DEF FromSlave, MasterChoice, CachedPending
    <3>2. Requests(pic) # {}
      BY <2>3, <3>1 DEF CachedPending, Pending
    <3>3. PICK r \in Bits : r \in MasterChoice /\ r \notin pic.mask2
      BY <3>2 DEF Requests, MasterChoice, Chip8259
    <3>4. Lowest(MasterChoice) \in Bits /\ Lowest(MasterChoice) <= r
      BY <1>1, <3>3, LowestIs
    <3>5. Answer = Lowest(MasterChoice)
      BY <1>3, <3>3 DEF Answer
    <3>6. Answer # None
      BY <3>4, <3>5 DEF Bits, None
    <3>7. \A i \in pic.ins : r < i
      BY <3>3 DEF MaskFollowsService, Blocked, Chip8259, Bits
    <3>8. \A i \in pic.ins : Answer < i
      BY <3>3, <3>4, <3>5, <3>7 DEF Bits, Chip8259
    <3>9. QED BY <3>4, <3>5, <3>6, <3>8
  <2>4. QED BY <1>3, <2>2, <2>3 DEF PriorityKept
<1>4. QED BY <1>2, <1>3

\* What an acknowledge does to the chips: they stay in step, and apart from the
\* cascade's only the edges named by the answer are taken off.
LEMMA AcknowledgeStep ==
  ASSUME InStep, Picinterrupt
  PROVE  /\ pic' \in Chip8259 /\ pic2' \in Chip8259 /\ pic_intpending' \in BOOLEAN
         /\ MaskFollowsService' /\ CachedPending'
         /\ \A n \in Held \ Held' : Answer # None /\ EdgeAnswer /\ Answer \in {n, n + 8}
<1> USE DEF InStep, TypeOK
<1>1. MasterFit(pic) /\ SlaveFit(pic2)
  BY DEF MasterFit, SlaveFit, MaskFollowsService
<1>2. CASE Answer = None
  <2>1. pic' = pic /\ pic2' = pic2 /\ pic_intpending' = pic_intpending
    BY <1>2 DEF Picinterrupt
  <2>2. Held' = Held BY <2>1 DEF Held
  <2>3. MaskFollowsService' /\ CachedPending'
    BY <2>1 DEF MaskFollowsService, CachedPending, Pending, Requests
  <2>4. QED BY <2>1, <2>2, <2>3
<1>3. CASE Answer # None /\ FromSlave
  <2> DEFINE c == Answer - 8
             s == Taken(pic2, c)
             s1 == IF pic2.icw4 THEN EndedFirst(s) ELSE s
             ins == pic.ins \cup {2}
             m == [pic EXCEPT !.pend = IF c \in pic2.level THEN @ ELSE @ \ {c},
                              !.ins = ins, !.mask2 = Blocked(ins)]
  <2>1. c \in Bits BY <1>3, AnswerFits
  <2>2. Update(m, s1) BY <1>3 DEF Picinterrupt
  <2>3. /\ MasterFit(m)
        /\ m.pend = (IF c \in pic2.level THEN pic.pend ELSE pic.pend \ {c})
    <3>1. ins \in SUBSET Bits /\ Blocked(ins) \in SUBSET Bits
      BY DEF Chip8259, Blocked, Bits
    <3> HIDE DEF ins
    <3>2. QED BY <3>1 DEF MasterFit, Chip8259
  <2>4. MasterFit(s1) /\ s1.pend = (IF c \in pic2.level THEN pic2.pend ELSE pic2.pend \ {c})
    BY <2>1, ServiceFits
  <2>5. SlaveFit(s1) BY <2>4 DEF MasterFit, SlaveFit
  <2>6. Answer \notin Bits /\ Answer = c + 8
    BY <2>1, AnswerFits DEF Bits, Answer, FromSlave, None
  <2> HIDE DEF c, m, s1
  <2>7. /\ pic' \in Chip8259 /\ pic2' \in Chip8259 /\ pic_intpending' \in BOOLEAN
        /\ MaskFollowsService' /\ CachedPending'
        /\ pic'.pend \ {2} = m.pend \ {2} /\ pic2' = s1
    BY <2>2, <2>3, <2>5, UpdateInStep
  <2>8. ASSUME NEW n \in Held \ Held'
        PROVE  EdgeAnswer /\ Answer \in {n, n + 8}
    <3>1. c \notin pic2.level
      BY <1>3, <2>3, <2>4, <2>7, <2>8 DEF Held, FromSlave
    <3>2. n = c \/ n = c + 8
      BY <1>3, <2>3, <2>4, <2>7, <2>8 DEF Held, FromSlave
    <3>3. EdgeAnswer BY <2>1, <2>6, <3>1 DEF EdgeAnswer, Bits
    <3>4. QED BY <2>6, <3>2, <3>3
  <2>9. QED BY <1>3, <2>7, <2>8
<1>4. CASE Answer # None /\ ~FromSlave
  <2> DEFINE m == Taken(pic, Answer)
             m1 == IF pic.icw4 THEN EndedFirst(m) ELSE m
  <2>1. Answer \in Bits BY <1>4, AnswerFits
  <2>2. Update(m1, pic2) BY <1>4 DEF Picinterrupt
  <2>3. /\ MasterFit(m1)
        /\ m1.pend = (IF Answer \in pic.level THEN pic.pend ELSE pic.pend \ {Answer})
    BY <2>1, ServiceFits
  <2> HIDE DEF m1
  <2>4. /\ pic' \in Chip8259 /\ pic2' \in Chip8259 /\ pic_intpending' \in BOOLEAN
        /\ MaskFollowsService' /\ CachedPending'
        /\ pic'.pend \ {2} = m1.pend \ {2} /\ pic2' = pic2
        /\ ~AT => pic' = m1
    BY <1>1, <2>2, <2>3, UpdateInStep
  <2>5. ASSUME NEW n \in Held \ Held'
        PROVE  EdgeAnswer /\ Answer = n
    <3>1. Answer \notin pic.level /\ n = Answer
      BY <2>3, <2>4, <2>5 DEF Held
    <3>2. QED BY <2>1, <3>1 DEF EdgeAnswer
  <2>6. QED BY <1>4, <2>4, <2>5
<1>5. QED BY <1>2, <1>3, <1>4

-----------------------------------------------------------------------------
\* The CPU loops and the reset.
LEMMA CpuStep ==
  ASSUME InStep,
         \/ Interrupt386
         \/ \E noint \in BOOLEAN : Boundary808x(noint)
         \/ \E f \in BOOLEAN : SetFlag(f)
         \/ RepStops
  PROVE  InStep'
<1> USE DEF InStep, TypeOK
<1>1. CASE Interrupt386
  <2>1. pic_current' = pic_current /\ iflag' = iflag /\ takeint' = takeint
    BY <1>1 DEF Interrupt386, cpu
  <2>2. Picinterrupt BY <1>1 DEF Interrupt386
  <2>3. QED BY <2>1, <2>2, AcknowledgeStep
<1>2. ASSUME NEW noint \in BOOLEAN, Boundary808x(noint) PROVE InStep'
  <2>1. pic_current' = pic_current /\ iflag' \in BOOLEAN /\ takeint' \in BOOLEAN
    BY <1>2 DEF Boundary808x
  <2>2. Picinterrupt \/ UNCHANGED <<pic, pic2, pic_intpending>>
    BY <1>2 DEF Boundary808x
  <2>3. CASE Picinterrupt BY <2>1, <2>3, AcknowledgeStep
  <2>4. CASE UNCHANGED <<pic, pic2, pic_intpending>>
    BY <2>1, <2>4 DEF MaskFollowsService, CachedPending, Pending, Requests
  <2>5. QED BY <2>2, <2>3, <2>4
<1>3. ASSUME (\E f \in BOOLEAN : SetFlag(f)) \/ RepStops PROVE InStep'
  <2>1. /\ pic' = pic /\ pic2' = pic2 /\ pic_intpending' = pic_intpending
        /\ pic_current' = pic_current /\ iflag' \in BOOLEAN /\ takeint' \in BOOLEAN
    BY <1>3 DEF SetFlag, RepStops
  <2>2. MaskFollowsService' BY <2>1 DEF MaskFollowsService
  <2>3. CachedPending' BY <2>1 DEF CachedPending, Pending, Requests
  <2>4. QED BY <2>1, <2>2, <2>3
<1>4. QED BY <1>1, <1>2, <1>3

\* pic_reset, though it leaves the slave its old mask2.
LEMMA ResetStep == ASSUME InStep, PcReset PROVE InStep'
<1> USE DEF InStep, TypeOK
<1>1. /\ pic' \in Chip8259 /\ pic2' \in Chip8259
      /\ pic'.pend = {} /\ pic2'.pend = {} /\ pic'.ins = {} /\ pic2'.ins = {} /\ pic'.mask2 = {}
  <2> DEFINE emptied(p) == [p EXCEPT !.pend = {}, !.ins = {}, !.level = {}]
             masked(p, S, k) == [p EXCEPT !.mask = S, !.icw = k]
  <2>1. \A p \in Chip8259 : emptied(p) \in Chip8259 /\ emptied(p).pend = {} /\ emptied(p).ins = {}
    BY DEF Chip8259
  <2>2. \A p \in Chip8259, S \in SUBSET Bits, k \in 0..3 :
          /\ masked(p, S, k) \in Chip8259
          /\ masked(p, S, k).ins = p.ins /\ masked(p, S, k).pend = p.pend
    BY DEF Chip8259
  <2>3. /\ pic2' = masked(emptied(pic2), All, 0)
        /\ pic' = [masked(emptied(pic), All, 0) EXCEPT !.mask2 = {}]
    BY DEF PcReset, Chip8259
  <2>4. 0 \in 0..3 /\ All \in SUBSET Bits BY DEF All
  <2> HIDE DEF emptied, masked
  <2>5. \A p \in Chip8259 : /\ masked(emptied(p), All, 0) \in Chip8259
                            /\ masked(emptied(p), All, 0).ins = {}
                            /\ masked(emptied(p), All, 0).pend = {}
    BY <2>1, <2>2, <2>4
  <2>6. pic2' \in Chip8259 /\ pic2'.pend = {} /\ pic2'.ins = {}
    BY <2>3, <2>5
  <2>7. pic' \in Chip8259 /\ pic'.pend = {} /\ pic'.ins = {} /\ pic'.mask2 = {}
    BY <2>3, <2>5 DEF Chip8259
  <2>8. QED BY <2>6, <2>7
<1>2. pic_intpending' = FALSE /\ iflag' = FALSE /\ takeint' = takeint /\ pic_current' = pic_current
  BY DEF PcReset
<1>3. Blocked({}) = {} BY DEF Blocked
<1>4. MaskFollowsService' BY <1>1, <1>3 DEF MaskFollowsService
<1>5. CachedPending' BY <1>1, <1>2 DEF CachedPending, Pending, Requests
<1>6. QED BY <1>1, <1>2, <1>4, <1>5

\* What a step of the system does to requests: this is RequestKept, for one step.
LEMMA StepInStep ==
  ASSUME InStep, [Next]_vars
  PROVE  /\ InStep'
         /\ \A n \in Held \ Held' :
              \/ PcReset
              \/ \E d \in Irqs : Routed(d) = n /\ Picintc(d)
              \/ Acknowledges /\ EdgeAnswer /\ Answer \in {n, n + 8}
<1>1. ASSUME NEW n \in Irqs, Picint(n) \/ Picintlevel(n) \/ Picintc(n)
      PROVE  InStep' /\ \A r \in Held \ Held' : \E d \in Irqs : Routed(d) = r /\ Picintc(d)
  BY <1>1, PicAssumption, DeviceStep
<1>2. ASSUME NEW x \in Chips,
             \/ \E i \in Icw1 : WriteIcw1(x, i)
             \/ \E auto \in BOOLEAN : WriteIcw(x, auto)
             \/ \E mask \in Masks : WriteMask(x, mask)
             \/ \E c \in Bits : SpecificEoi(x, c)
             \/ Eoi(x)
             \/ \E S \in SUBSET Elcr : WriteElcr(x, S)
      PROVE  InStep' /\ Held \subseteq Held'
  BY <1>2, PicAssumption, GuestStep
<1>3. ASSUME Interrupt386
      PROVE  \A n \in Held \ Held' : Acknowledges /\ EdgeAnswer /\ Answer \in {n, n + 8}
  <2>1. Picinterrupt BY <1>3 DEF Interrupt386
  <2>2. Acknowledges BY <1>3 DEF Acknowledges
  <2>3. QED BY <2>1, <2>2, AcknowledgeStep
<1>4. ASSUME NEW noint \in BOOLEAN, Boundary808x(noint)
      PROVE  \A n \in Held \ Held' : Acknowledges /\ EdgeAnswer /\ Answer \in {n, n + 8}
  <2>1. CASE takeint /\ ~noint
    <3>1. Picinterrupt /\ noint = FALSE BY <1>4, <2>1 DEF Boundary808x
    <3>2. Acknowledges BY <1>4, <2>1, <3>1 DEF Acknowledges
    <3>3. QED BY <3>1, <3>2, AcknowledgeStep
  <2>2. CASE ~(takeint /\ ~noint)
    <3>1. pic' = pic /\ pic2' = pic2 BY <1>4, <2>2 DEF Boundary808x
    <3>2. Held' = Held BY <3>1 DEF Held
    <3>3. QED BY <3>2
  <2>3. QED BY <2>1, <2>2
<1>5. ASSUME (\E f \in BOOLEAN : SetFlag(f)) \/ RepStops PROVE Held' = Held
  BY <1>5 DEF SetFlag, RepStops, Held
<1>6. CASE Next
  BY <1>1, <1>2, <1>3, <1>4, <1>5, <1>6, CpuStep, ResetStep DEF Next
<1>7. CASE UNCHANGED vars
  <2>1. /\ pic' = pic /\ pic2' = pic2 /\ pic_intpending' = pic_intpending
        /\ pic_current' = pic_current /\ iflag' = iflag /\ takeint' = takeint
    BY <1>7 DEF vars
  <2>2. Held' = Held BY <2>1 DEF Held
  <2>3. InStep'
    BY <2>1 DEF InStep, TypeOK, MaskFollowsService, CachedPending, Pending, Requests
  <2>4. QED BY <2>2, <2>3
<1>8. QED BY <1>6, <1>7

\* The invariant holds in every behaviour.
THEOREM InStepAlways == Spec => []InStep
<1>1. Init => InStep BY InitInStep
<1>2. InStep /\ [Next]_vars => InStep' BY StepInStep
<1>3. QED BY <1>1, <1>2, PTL DEF Spec

\* The registers of both chips hold lines and flags of their own, whatever is written.
THEOREM PicTypeCorrect == Spec => []TypeOK
BY InStepAlways, PTL DEF InStep

\* pic_update_mask has always been called when it had to be.
THEOREM MasksFollow == Spec => []MaskFollowsService
BY InStepAlways, PTL DEF InStep

\* The cached pic_intpending and cascade line are never stale.
THEOREM CacheExact == Spec => []CachedPending
BY InStepAlways, PTL DEF InStep

\* An interrupt the 386 loops were told of exists, it comes before everything its own
\* chip has in service, and if it is the slave's and the cascade is blocked by what the
\* master has in service, then line 0 or 1 of the master was there to be delivered.
THEOREM AnswersInOrder == Spec => []PriorityKept
<1>1. InStep => PriorityKept BY AnswerFits
<1>2. QED BY <1>1, InStepAlways, PTL

\* No request is lost but by its device, a machine reset, the acknowledge that answers
\* it, or the acknowledge of the slave's line of the same number (pic.c:419).
THEOREM RequestsKept == Spec => RequestKept
<1>1. InStep /\ [Next]_vars =>
        [\A n \in Held \ Held' :
           \/ PcReset
           \/ \E d \in Irqs : Routed(d) = n /\ Picintc(d)
           \/ Acknowledges /\ EdgeAnswer /\ Answer \in {n, n + 8}]_vars
  BY StepInStep
<1>2. QED BY <1>1, InStepAlways, PTL DEF Spec, RequestKept

-----------------------------------------------------------------------------
(* The timer tick of an XT. *)

\* The tick's line is an edge: no register makes it level sensitive.
TickIsEdge == 0 \notin pic.level

\* One acknowledge is enough for the tick: whatever else is requested or in service, and
\* however old takeint is, the one that finds line 0 requested takes it off.
TickIsNext ==
  [][0 \in MasterChoice /\ takeint /\ Boundary808x(FALSE) => 0 \notin pic'.pend]_vars

\* No step gives line 0 a level: pic_elcr1_write leaves out the first three lines.
LEMMA EdgeKept == InStep /\ TickIsEdge /\ [Next]_vars => TickIsEdge'
<1> SUFFICES ASSUME InStep, TickIsEdge, [Next]_vars PROVE TickIsEdge' OBVIOUS
<1>1. pic \in Chip8259 /\ pic2 \in Chip8259 BY DEF InStep, TypeOK
<1>2. ASSUME NEW m \in Chip8259, NEW s, Update(m, s), 0 \notin m.level PROVE TickIsEdge'
  BY <1>2 DEF Update, Cascaded, TickIsEdge, Chip8259
<1>3. ASSUME NEW p \in Chip8259, NEW c \in Bits
      PROVE  /\ Ended(p, c) \in Chip8259 /\ Ended(p, c).level = p.level
             /\ Taken(p, c) \in Chip8259 /\ Taken(p, c).level = p.level
  BY DEF Ended, Taken, Chip8259, Blocked
<1>4. ASSUME NEW p \in Chip8259 PROVE EndedFirst(p) \in Chip8259 /\ EndedFirst(p).level = p.level
  <2>1. p.ins \in SUBSET Bits BY DEF Chip8259
  <2>2. QED BY <1>3, <2>1, LowestIs DEF EndedFirst
<1>5. CASE \E n \in Irqs : Picint(n) \/ Picintlevel(n) \/ Picintc(n)
  <2>1. \A S : /\ Raised(pic, S \cap Bits) \in Chip8259 /\ Raised(pic, S \cap Bits).level = pic.level
               /\ Dropped(pic, S \cap Bits) \in Chip8259 /\ Dropped(pic, S \cap Bits).level = pic.level
    BY <1>1 DEF Raised, Dropped, Chip8259
  <2>2. QED BY <1>1, <1>2, <1>5, <2>1 DEF Picint, Picintlevel, Picintc, MasterLine, TickIsEdge
<1>6. CASE \E x \in Chips, i \in Icw1 : WriteIcw1(x, i)
  <2>1. PICK x \in Chips, i \in Icw1 : WriteIcw1(x, i) BY <1>6
  <2> DEFINE q == [pic EXCEPT !.mask = {}, !.mask2 = {}, !.icw = 1, !.icw1 = i, !.ins = {}]
  <2>2. q \in Chip8259 /\ q.level = pic.level
    <3>1. i \in [ic4 : BOOLEAN, sngl : BOOLEAN] /\ 1 \in 0..3 BY PicAssumption
    <3>2. QED BY <1>1, <3>1 DEF Chip8259
  <2>3. (\E s : Update(q, s)) \/ \E s : Update(pic, s)
    BY <2>1 DEF WriteIcw1, UpdateWith, Chip, Chips
  <2> HIDE DEF q
  <2>4. QED BY <1>1, <1>2, <2>2, <2>3 DEF TickIsEdge
<1>7. CASE \E x \in Chips, auto \in BOOLEAN : WriteIcw(x, auto)
  BY <1>1, <1>7 DEF WriteIcw, Becomes, Chip, Chips, TickIsEdge, Chip8259
<1>8. CASE \E x \in Chips, mask \in Masks : WriteMask(x, mask)
  <2>1. PICK x \in Chips, mask \in Masks : WriteMask(x, mask) BY <1>8
  <2> DEFINE q == [pic EXCEPT !.mask = mask]
  <2>2. q \in Chip8259 /\ q.level = pic.level BY <1>1, PicAssumption DEF Chip8259
  <2>3. (\E s : Update(q, s)) \/ \E s : Update(pic, s)
    BY <2>1 DEF WriteMask, UpdateWith, Chip, Chips
  <2> HIDE DEF q
  <2>4. QED BY <1>1, <1>2, <2>2, <2>3 DEF TickIsEdge
<1>9. CASE \E x \in Chips : (\E c \in Bits : SpecificEoi(x, c)) \/ Eoi(x)
  <2>1. (\E c \in Bits : \E s : Update(Ended(pic, c), s)) \/ (\E s : Update(EndedFirst(pic), s)) \/ \E s : Update(pic, s)
    BY <1>9 DEF SpecificEoi, Eoi, UpdateWith, Chip, Chips
  <2>2. QED BY <1>1, <1>2, <1>3, <1>4, <2>1 DEF TickIsEdge
<1>10. CASE \E x \in Chips, S \in SUBSET Elcr : WriteElcr(x, S)
  BY <1>1, <1>10 DEF WriteElcr, Becomes, Chip, Chips, TickIsEdge, Chip8259
<1>11. CASE Picinterrupt
  <2>1. CASE Answer = None BY <1>11, <2>1 DEF Picinterrupt, TickIsEdge
  <2>2. CASE Answer # None /\ FromSlave
    <3>1. SlaveChoice # {} /\ SlaveChoice \in SUBSET Bits BY <1>1, <2>2 DEF Answer, SlaveChoice, Chip8259
    <3> DEFINE c == Lowest(SlaveChoice)
    <3>2. c \in Bits /\ Answer = 8 + c BY <3>1, <2>2, LowestIs DEF Answer
    <3> DEFINE m == [pic EXCEPT !.pend = IF c \in pic2.level THEN @ ELSE @ \ {c},
                            !.ins = pic.ins \cup {2}, !.mask2 = Blocked(pic.ins \cup {2})]
    <3>3. m \in Chip8259 /\ m.level = pic.level
      <4> HIDE DEF c
      <4>1. Blocked(pic.ins \cup {2}) \in SUBSET Bits /\ 2 \in Bits BY DEF Blocked, Bits
      <4>2. pic.pend \in SUBSET Bits /\ pic.ins \in SUBSET Bits BY <1>1 DEF Chip8259
      <4>3. (IF c \in pic2.level THEN pic.pend ELSE pic.pend \ {c}) \in SUBSET Bits
            /\ pic.ins \cup {2} \in SUBSET Bits BY <4>1, <4>2
      <4>4. QED BY <1>1, <4>1, <4>3 DEF Chip8259
    <3>4. \E s : Update(m, s)
      <4> HIDE DEF c
      <4>1. Answer - 8 = c BY <3>2 DEF Bits
      <4>2. QED BY <1>11, <2>2, <4>1 DEF Picinterrupt
    <3> HIDE DEF m
    <3>5. QED BY <1>2, <3>3, <3>4 DEF TickIsEdge
  <2>3. CASE Answer # None /\ ~FromSlave
    <3>1. MasterChoice # {} /\ MasterChoice \in SUBSET Bits BY <1>1, <2>3 DEF Answer, MasterChoice, Chip8259
    <3>2. Answer \in Bits BY <3>1, <2>3, LowestIs DEF Answer
    <3>3. (\E s : Update(EndedFirst(Taken(pic, Answer)), s)) \/ \E s : Update(Taken(pic, Answer), s)
      BY <1>11, <2>3 DEF Picinterrupt
    <3>4. QED BY <1>1, <1>2, <1>3, <1>4, <3>2, <3>3 DEF TickIsEdge
  <2>4. QED BY <2>1, <2>2, <2>3
<1>12. CASE pic' = pic BY <1>12 DEF TickIsEdge
<1>13. CASE PcReset BY <1>1, <1>13 DEF PcReset, TickIsEdge, Chip8259
<1>14. CASE Interrupt386 BY <1>11, <1>14 DEF Interrupt386
<1>15. CASE \E noint \in BOOLEAN : Boundary808x(noint) BY <1>11, <1>12, <1>15 DEF Boundary808x
<1>16. CASE (\E f \in BOOLEAN : SetFlag(f)) \/ RepStops \/ UNCHANGED vars
  BY <1>12, <1>16 DEF SetFlag, RepStops, vars
<1>17. QED
  BY <1>5, <1>6, <1>7, <1>8, <1>9, <1>10, <1>13, <1>14, <1>15, <1>16 DEF Next

\* On an XT the timer tick waits for one acknowledge at most: of all the requests it is
\* answered first, for its line comes first and is an edge.
THEOREM TickServedNext == ASSUME ~AT PROVE Spec => TickIsNext
<1>1. Init => TickIsEdge BY DEF Init, PowerOn, TickIsEdge
<1>2. ASSUME InStep, TickIsEdge, 0 \in MasterChoice, takeint, Boundary808x(FALSE)
      PROVE  0 \notin pic'.pend
  <2>1. pic \in Chip8259 /\ pic2 \in Chip8259 /\ MasterChoice \in SUBSET Bits
    BY <1>2 DEF InStep, TypeOK, Chip8259, MasterChoice
  <2>2. Answer = 0 /\ ~FromSlave /\ Answer # None
    <3>1. Lowest(MasterChoice) \in MasterChoice /\ Lowest(MasterChoice) <= 0
      BY <1>2, <2>1, LowestIs
    <3>2. Lowest(MasterChoice) = 0
      <4> HIDE DEF MasterChoice
      <4>1. \A x \in Bits : x <= 0 => x = 0 BY DEF Bits
      <4>2. QED BY <2>1, <3>1, <4>1
    <3>3. QED BY <1>2, <3>2 DEF Answer, FromSlave, None
  <2>3. 0 \notin Taken(pic, 0).pend BY <1>2, <2>1 DEF Taken, TickIsEdge, Chip8259
  <2>4. EndedFirst(Taken(pic, 0)).pend = Taken(pic, 0).pend
    <3>1. 0 \in Bits BY DEF Bits
    <3>2. QED BY <2>1, <3>1, ServiceFits
  <2>5. Picinterrupt BY <1>2 DEF Boundary808x
  <2>6. (\E s : Update(EndedFirst(Taken(pic, 0)), s)) \/ \E s : Update(Taken(pic, 0), s)
    BY <2>2, <2>5 DEF Picinterrupt
  <2>7. QED BY <2>3, <2>4, <2>6 DEF Update, Cascaded
<1>3. InStep /\ TickIsEdge /\ [Next]_vars =>
        [0 \in MasterChoice /\ takeint /\ Boundary808x(FALSE) => 0 \notin pic'.pend]_vars
  BY <1>2
<1>4. QED BY <1>1, <1>3, EdgeKept, InStepAlways, PTL DEF Spec, TickIsNext
=============================================================================
