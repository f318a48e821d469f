-------------------------------- MODULE Pic --------------------------------
(***************************************************************************)
(* pic.c: the two 8259 interrupt controllers, the slave on line 2 of the    *)
(* master, and the CPU loops that ask them for an interrupt.  Bit masks are *)
(* sets of lines 0..7; a request is named by its IRQ number 0..15; vectors  *)
(* are left out, an acknowledge returns the IRQ.                            *)
(*                                                                         *)
(* Three parties act in any order, all in the emulation thread: devices     *)
(* raise and withdraw requests, the guest programs the chips through their  *)
(* ports, and the CPU acknowledges.  The 386 loops look at pic_intpending   *)
(* after every instruction or block; the 8086 loop has a test of its own,   *)
(* takeint, made one instruction early and without pic_intpending.          *)
(***************************************************************************)
EXTENDS Integers

CONSTANTS
  AT,      (* AT || romset == ROM_XI8088: there is a slave                    *)
  Cpu386,  (* TRUE: exec386, exec386_dynarec; FALSE: execx86                  *)
  Irqs,    (* the lines devices drive ...                                     *)
  Shared,  (* ... and those of them driven through picintlevel: serial, SCSI  *)
  Masks,   (* the values the guest writes to a mask register                  *)
  Elcr,    (* the lines it may make level sensitive                           *)
  Icw1     (* the low bits of the ICW1s it writes: [ic4, sngl]                *)

Bits == 0..7
All == Bits

ASSUME PicAssumption ==
  /\ AT \in BOOLEAN /\ Cpu386 \in BOOLEAN
  /\ Irqs \subseteq (IF AT THEN 0..15 ELSE Bits)
  /\ Shared \subseteq Irqs
  /\ Masks \subseteq SUBSET Bits /\ Elcr \subseteq Bits
  /\ Icw1 \subseteq [ic4 : BOOLEAN, sngl : BOOLEAN]

VARIABLES
  pic, pic2,       (* pend, ins, mask, mask2, level_sensitive, icw, icw1, icw4 *)
  pic_intpending,
  pic_current,     (* the lines picintlevel holds raised                       *)
  iflag, takeint   (* execx86 only                                             *)

cpu == <<iflag, takeint>>
vars == <<pic, pic2, pic_intpending, pic_current, iflag, takeint>>

-----------------------------------------------------------------------------
\* pic_update_mask: the first line in service blocks itself and all behind it.
Blocked(ins) == {c \in Bits : \E i \in ins : i <= c}

\* (Mutant: what is in service does not hold requests back.)
RequestsUnblocked(p) == p.pend \ p.mask

\* The requests a chip passes on.
Requests(p) == (p.pend \ p.mask) \ p.mask2

\* pic_updatepending: line 2 of the master follows the slave's requests ...
Cascaded(m, s) ==
  IF ~AT THEN m
  ELSE [m EXCEPT !.pend = IF Requests(s) # {} THEN @ \cup {2} ELSE @ \ {2}]

\* ... and pic_intpending tells whether anything is left to deliver.
Pending(m, s) ==
  \/ Requests(m) # {}
  \/ AT /\ 2 \notin m.mask \cup m.mask2 /\ Requests(s) # {}

Update(m, s) ==
  /\ pic' = Cascaded(m, s) /\ pic2' = s
  /\ pic_intpending' = Pending(pic', s)

\* (Mutant: the loop counts down.)
Highest(S) == CHOOSE c \in S : \A d \in S : c >= d
Lowest(S) == CHOOSE c \in S : \A d \in S : c <= d

\* (Mutant: the blocking mask is not worked out again.)
EndedOnly(p, c) == [p EXCEPT !.ins = @ \ {c}]

\* A non-specific EOI, or an automatic one: the first line in service is done.
Ended(p, c) == LET left == p.ins \ {c} IN [p EXCEPT !.ins = left, !.mask2 = Blocked(left)]
EndedFirst(p) == IF p.ins = {} THEN p ELSE Ended(p, Lowest(p.ins))

\* (Mutant: a level request is taken off like an edge.)
TakenAsEdge(p, c) ==
  LET ins == p.ins \cup {c}
  IN  [p EXCEPT !.pend = @ \ {c}, !.ins = ins, !.mask2 = Blocked(ins)]

\* A chip takes line c into service; an edge request is then gone.
Taken(p, c) ==
  LET ins == p.ins \cup {c}
  IN  [p EXCEPT !.pend = IF c \in p.level THEN @ ELSE @ \ {c},
                !.ins = ins, !.mask2 = Blocked(ins)]

\* Line 2 of an AT belongs to the cascade: its devices sit on line 9.
Routed(n) == IF AT /\ n = 2 THEN 9 ELSE n

Raised(p, S) == [p EXCEPT !.pend = @ \cup S]
Dropped(p, S) == [p EXCEPT !.pend = @ \ S]
MasterLine(n) == {Routed(n)} \cap Bits
SlaveLine(n) == {c \in Bits : c + 8 = Routed(n)}

-----------------------------------------------------------------------------
PowerOn == [pend |-> {}, ins |-> {}, mask |-> {}, mask2 |-> {}, level |-> {},
            icw |-> 0, icw1 |-> [ic4 |-> FALSE, sngl |-> FALSE], icw4 |-> FALSE]

Init ==
  /\ pic = [PowerOn EXCEPT !.mask = All] /\ pic2 = [PowerOn EXCEPT !.mask = All]
  /\ pic_intpending = FALSE /\ pic_current = {}
  /\ iflag = FALSE /\ takeint = FALSE

\* Devices: picint raises an edge (a device may repeat it) ...
Picint(n) ==
  /\ n \in Irqs \ Shared
  /\ Update(Raised(pic, MasterLine(n)), Raised(pic2, SlaveLine(n)))
  /\ UNCHANGED <<pic_current, cpu>>

\* ... picintlevel raises a line unless it is up already ...
Picintlevel(n) ==
  /\ n \in Shared
  /\ IF Routed(n) \in pic_current THEN Update(pic, pic2)
     ELSE Update(Raised(pic, MasterLine(n)), Raised(pic2, SlaveLine(n)))
  /\ pic_current' = pic_current \cup {Routed(n)}
  /\ UNCHANGED cpu

\* ... and picintc withdraws either.
Picintc(n) ==
  /\ n \in Irqs
  /\ pic_current' = pic_current \ {Routed(n)}
  /\ Update(Dropped(pic, MasterLine(n)), Dropped(pic2, SlaveLine(n)))
  /\ UNCHANGED cpu

-----------------------------------------------------------------------------
(* pic_write and pic2_write. *)

\* The chips the guest can reach, and what a write to one of them leaves.
Chips == IF AT THEN {"pic", "pic2"} ELSE {"pic"}
Chip(x) == IF x = "pic" THEN pic ELSE pic2
Becomes(x, p) == IF x = "pic" THEN pic' = p /\ UNCHANGED pic2 ELSE pic2' = p /\ UNCHANGED pic
UpdateWith(x, p) == IF x = "pic" THEN Update(p, pic2) ELSE Update(pic, p)

\* ICW1 forgets what is in service and unmasks every line; requests stay.
WriteIcw1(x, i) ==
  /\ x \in Chips
  /\ UpdateWith(x, [Chip(x) EXCEPT !.mask = {}, !.mask2 = {}, !.icw = 1, !.icw1 = i, !.ins = {}])
  /\ UNCHANGED <<pic_current, cpu>>

\* The data port, by how far the initialisation has come: ICW2, ICW3, ICW4 ...
WriteIcw(x, auto) ==
  LET p == Chip(x) IN
  /\ x \in Chips /\ p.icw # 0
  /\ Becomes(x, [p EXCEPT !.icw = CASE p.icw = 1 -> IF p.icw1.sngl THEN 3 ELSE 2
                                    [] p.icw = 2 -> IF p.icw1.ic4 THEN 3 ELSE 0
                                    [] OTHER -> 0,
                          !.icw4 = IF p.icw = 3 THEN auto ELSE @])
  /\ UNCHANGED <<pic_intpending, pic_current, cpu>>

\* (Mutant: the new mask does not reach pic_intpending.)
WriteMaskOnly(x, mask) ==
  /\ x \in Chips /\ Chip(x).icw = 0
  /\ Becomes(x, [Chip(x) EXCEPT !.mask = mask])
  /\ UNCHANGED <<pic_intpending, pic_current, cpu>>

\* ... and the mask when it is over.
WriteMask(x, mask) ==
  /\ x \in Chips /\ Chip(x).icw = 0
  /\ UpdateWith(x, [Chip(x) EXCEPT !.mask = mask])
  /\ UNCHANGED <<pic_current, cpu>>

\* A specific EOI, for any line, and a non-specific one, which does nothing when
\* no line is in service.
SpecificEoi(x, c) ==
  /\ x \in Chips
  /\ UpdateWith(x, Ended(Chip(x), c))
  /\ UNCHANGED <<pic_current, cpu>>

Eoi(x) ==
  /\ x \in Chips /\ Chip(x).ins # {}
  /\ UpdateWith(x, EndedFirst(Chip(x)))
  /\ UNCHANGED <<pic_current, cpu>>

\* pic_elcrx_write: some lines cannot be made level sensitive.
WriteElcr(x, S) ==
  /\ x \in Chips
  /\ Becomes(x, [Chip(x) EXCEPT !.level = S \cap (IF x = "pic" THEN 3..7 ELSE {1, 2, 3, 4, 6, 7})])
  /\ UNCHANGED <<pic_intpending, pic_current, cpu>>

-----------------------------------------------------------------------------
(* The CPU. *)

\* picinterrupt's choice.  A request on the cascade goes first, even before lines
\* 0 and 1, and no line is left out for being blocked.
MasterChoice == pic.pend \ pic.mask
SlaveChoice == pic2.pend \ pic2.mask
FromSlave == AT /\ 2 \in MasterChoice
None == 16
Answer ==
  IF FromSlave THEN (IF SlaveChoice = {} THEN None ELSE 8 + Lowest(SlaveChoice))
  ELSE IF MasterChoice = {} THEN None ELSE Lowest(MasterChoice)

\* picinterrupt itself.  Acknowledging an edge on slave line c also clears the
\* master's request of the same number; the automatic EOI ends one chip's service.
Picinterrupt ==
  IF Answer = None THEN UNCHANGED <<pic, pic2, pic_intpending>>
  ELSE IF FromSlave
  THEN LET c == Answer - 8
           s == Taken(pic2, c)
           ins == pic.ins \cup {2}
           m == [pic EXCEPT !.pend = IF c \in pic2.level THEN @ ELSE @ \ {c},
                            !.ins = ins, !.mask2 = Blocked(ins)]
       IN  Update(m, IF pic2.icw4 THEN EndedFirst(s) ELSE s)
  ELSE LET m == Taken(pic, Answer)
       IN  Update(IF pic.icw4 THEN EndedFirst(m) ELSE m, pic2)

\* exec386 and exec386_dynarec, with interrupts enabled (the guest's choice).
Interrupt386 ==
  /\ Cpu386 /\ pic_intpending
  /\ Picinterrupt /\ UNCHANGED <<pic_current, cpu>>

\* execx86, at the end of an instruction: an interrupt is taken if the previous
\* instruction left one to take, unless this one holds interrupts off; then the
\* question is asked again.  Taking one clears the interrupt flag.
Boundary808x(noint) ==
  LET takes == takeint /\ ~noint IN
  /\ ~Cpu386
  /\ IF takes THEN Picinterrupt ELSE UNCHANGED <<pic, pic2, pic_intpending>>
  /\ iflag' = (iflag /\ ~(takes /\ Answer # None))
  /\ takeint' = (iflag' /\ pic'.pend \ pic'.mask # {})
  /\ UNCHANGED pic_current

\* STI, CLI, IRET, POPF.
SetFlag(f) ==
  /\ ~Cpu386 /\ iflag' = f
  /\ UNCHANGED <<pic, pic2, pic_intpending, pic_current, takeint>>

\* A repeated string instruction stops for an interrupt.
RepStops ==
  /\ ~Cpu386 /\ iflag /\ MasterChoice # {} /\ takeint' = TRUE
  /\ UNCHANGED <<pic, pic2, pic_intpending, pic_current, iflag>>

\* pic_reset, from pc_reset: the slave's mask2 and the lines picintlevel holds
\* are not touched, and neither are icw1 and icw4.  The CPU is reset too.
PcReset ==
  /\ pic' = [pic EXCEPT !.pend = {}, !.ins = {}, !.mask = All, !.mask2 = {}, !.icw = 0, !.level = {}]
  /\ pic2' = [pic2 EXCEPT !.pend = {}, !.ins = {}, !.mask = All, !.icw = 0, !.level = {}]
  /\ pic_intpending' = FALSE
  /\ iflag' = FALSE
  /\ UNCHANGED <<pic_current, takeint>>

Next ==
  \/ \E n \in Irqs : Picint(n) \/ Picintlevel(n) \/ Picintc(n)
  \/ \E x \in Chips :
       \/ \E i \in Icw1 : WriteIcw1(x, i)
       \/ \E auto \in BOOLEAN : WriteIcw(x, auto)
       \/ \E mask \in Masks : WriteMask(x, mask)
       \/ \E c \in Bits : SpecificEoi(x, c)
       \/ Eoi(x)
       \/ \E S \in SUBSET Elcr : WriteElcr(x, S)
  \/ Interrupt386
  \/ \E noint \in BOOLEAN : Boundary808x(noint)
  \/ \E f \in BOOLEAN : SetFlag(f)
  \/ RepStops
  \/ PcReset

Spec == Init /\ [][Next]_vars

\* execx86 goes on executing instructions, and the guest does not hold interrupts off
\* (MOV SS, a prefix) at every single one that has an interrupt to take.
FairSpec ==
  /\ Spec
  /\ WF_vars(Boundary808x(FALSE))
  /\ SF_vars(takeint /\ Boundary808x(FALSE))

-----------------------------------------------------------------------------
Chip8259 ==
  [pend : SUBSET Bits, ins : SUBSET Bits, mask : SUBSET Bits, mask2 : SUBSET Bits,
   level : SUBSET Bits, icw : 0..3, icw1 : [ic4 : BOOLEAN, sngl : BOOLEAN], icw4 : BOOLEAN]

TypeOK ==
  /\ pic \in Chip8259 /\ pic2 \in Chip8259
  /\ pic_intpending \in BOOLEAN /\ iflag \in BOOLEAN /\ takeint \in BOOLEAN
  /\ pic_current \subseteq 0..15

\* mask2 is kept in step with the lines in service through every way of ending one;
\* only pic_reset leaves an old mask2 behind, in a slave that services nothing.
MaskFollowsService ==
  /\ pic.mask2 = Blocked(pic.ins)
  /\ pic2.mask2 = Blocked(pic2.ins) \/ pic2.ins = {}

\* What the CPU loops read instead of asking the chips is never stale: pic_intpending
\* is set exactly when a request can be delivered, and the master's line 2 is
\* pending exactly when the slave has one to pass on.
CachedPending ==
  /\ pic_intpending <=> Pending(pic, pic2)
  /\ AT => (2 \in pic.pend <=> Requests(pic2) # {})

\* picinterrupt looks neither at mask2 nor at what is in service, and yet, called
\* with pic_intpending set, it always has an interrupt to return, and one that
\* comes before everything its own chip has in service.  The chips together keep to
\* the order but in one case: it answers the slave, which lines 0 to 2 of the master
\* in service should hold back, while line 0 or 1 of the master waits to be delivered
\* (pic.c:406 looks at the cascade first).
PriorityKept ==
  pic_intpending =>
    /\ Answer # None
    /\ Answer \in Bits => \A i \in pic.ins : Answer < i
    /\ Answer \notin Bits =>
         /\ \A i \in pic2.ins : Answer - 8 < i
         /\ 2 \in Blocked(pic.ins) => Requests(pic) \cap {0, 1} # {}

\* Every request but the cascade's, by IRQ number.
Held == (IF AT THEN pic.pend \ {2} ELSE pic.pend) \cup {c + 8 : c \in pic2.pend}
Acknowledges == Interrupt386 \/ (takeint /\ Boundary808x(FALSE))
EdgeAnswer == IF Answer \in Bits THEN Answer \notin pic.level ELSE Answer - 8 \notin pic2.level

\* A request, once raised, is lost only when the device withdraws it, the machine is
\* reset, or the CPU acknowledges it and it was an edge.  Masking it, EOIs and the
\* ICWs do not lose it.  The code has one more way: acknowledging slave line c
\* clears line c of the master too (pic.c:419), IRQ 14 the floppy's IRQ 6.
RequestKept ==
  [][\A n \in Held \ Held' :
       \/ PcReset
       \/ \E d \in Irqs : Routed(d) = n /\ Picintc(d)
       \/ Acknowledges /\ EdgeAnswer /\ Answer \in {n, n + 8}]_vars

\* On an 8086 machine the timer tick, line 0, is not starved: it does not wait for
\* ever, unmasked, while the guest goes on taking interrupts, although other lines are
\* raised again and again and takeint is asked one instruction before it is used.
Line0Served == ~(<>[](0 \in MasterChoice) /\ []<>takeint)
=============================================================================
