----------------------------- MODULE CodeCache -----------------------------
(***************************************************************************)
(* The recompiler's cache of translated code (codegen_block.c,             *)
(* codegen_allocator.c, exec_recompiler in 386_dynarec.c) and the pages of  *)
(* mem.c that tell it what the guest has overwritten.                      *)
(*                                                                         *)
(* A code block is a run of instructions at one address.  It is interpreted *)
(* and marked the first time, recompiled the second and run from then on.   *)
(* A page remembers which of its lines and bytes were written (dirty); a    *)
(* block's masks say which lines it covers, or which bytes once writes      *)
(* beside its code have cost it a recompilation.  A block whose masks meet  *)
(* dirty ones when it is looked up moves to the dirty list, from where it   *)
(* is recompiled or, oldest first, given up.                                *)
(*                                                                         *)
(* Writes reach the dirty masks through page_lookup; a view of memory (a    *)
(* page of linear addresses) in writelookup2 is written directly.           *)
(*                                                                         *)
(* Everything runs in the emulation thread: a step is a stretch of code     *)
(* between two places where the guest can write memory, or one round of a   *)
(* loop.  Paging is fixed, so that a block's first instruction, fetched     *)
(* when it was marked, can be fetched again when it is recompiled; each     *)
(* block needs one chunk of executable memory; hash, tree and evict list    *)
(* only decide which of the right blocks is found or given up, and are a    *)
(* choice here.                                                            *)
(***************************************************************************)
EXTENDS Integers, Sequences, FiniteSets

CONSTANTS
  Blocks,       (* the code blocks                                            *)
  MaxDirty,     (* DIRTY_LIST_MAX_SIZE                                        *)
  Chunks,       (* MEM_BLOCK_NR                                               *)
  LineSize,     (* 1 << PAGE_MASK_SHIFT                                       *)
  PageSize,
  PageCount,
  Maps,         (* the physical page behind each view                         *)
  Entries,      (* where the guest starts to execute                          *)
  Opcodes,      (* the bytes the instructions at an entry are read from, ...  *)
  Immediates,   (* ... those of their immediate operands ...                  *)
  Reach,        (* ... and how far an interpreted block is taken to reach     *)
  BusMastering, (* whether the machine has a bus-mastering disk controller    *)
  NoEntry, NoBlock

Pages == 0..PageCount - 1
Bytes == 0..PageCount * PageSize - 1
Views == DOMAIN Maps
PageOf(x) == x \div PageSize
LineOf(x) == x \div LineSize
WholeLines(S) == {y \in Bytes : \E x \in S : LineOf(x) = LineOf(y)}
PageBytes(p) == {x \in Bytes : PageOf(x) = p}

ASSUME CodeCacheAssumption ==
  /\ MaxDirty \in Nat \ {0} /\ Chunks \in Nat \ {0}
  /\ LineSize \in Nat \ {0} /\ PageCount \in Nat \ {0}
  /\ PageSize \in Nat \ {0} /\ PageSize % LineSize = 0
  /\ \A v \in Views : v \in Nat /\ Maps[v] \in Pages
  /\ \A p \in Pages : p \in Views /\ Maps[p] = p       \* where code is executed
  /\ Entries \subseteq Bytes /\ NoEntry \notin Entries /\ NoBlock \notin Blocks
  /\ BusMastering \in BOOLEAN
  /\ Opcodes \in [Entries -> SUBSET Bytes]
  /\ Immediates \in [Entries -> SUBSET Bytes]
  /\ Reach \in [Entries -> SUBSET Bytes]
  \* A block goes forward, and ends in the page after its first at the latest.
  /\ \A e \in Entries : /\ e \in Opcodes[e]
                        /\ Opcodes[e] \cup Immediates[e] \subseteq Reach[e]
                        /\ \A x \in Reach[e] : PageOf(x) \in {PageOf(e), PageOf(e) + 1}

VARIABLES
  at,        (* where exec_recompiler is                                      *)
  cur,       (* the block in hand, or block_current; NoBlock                  *)
  want,      (* the address to execute                                        *)
  flush,     (* the page codegen_check_flush is walking                       *)
  entry,     (* pc, phys: NoEntry is BLOCK_PC_INVALID                         *)
  free,      (* block_free_list                                               *)
  dirtyList, (* block_dirty_list, the youngest first                          *)
  first,     (* pages[].block: the blocks that start in a page                *)
  second,    (* pages[].block_2: the blocks that end in it                    *)
  mask,      (* page_mask, as the bytes it stands for                         *)
  mask2,     (* page_mask2                                                    *)
  compiled,  (* blocks with CODEBLOCK_WAS_RECOMPILED                          *)
  byByte,    (* ... with CODEBLOCK_BYTE_MASK                                  *)
  noImm,     (* ... with CODEBLOCK_NO_IMMEDIATES                              *)
  fixedTop,  (* ... with CODEBLOCK_STATIC_TOP                                 *)
  holds,     (* ... with a head_mem_block                                     *)
  lost,      (* blocks that own a chunk they have forgotten                   *)
  chunks,    (* how many chunks are free                                      *)
  recomp,    (* recomp_page; none is -1                                       *)
  dirty,     (* dirty_mask, as the bytes of its lines                         *)
  dirtyByte, (* byte_dirty_mask                                               *)
  direct,    (* the views in writelookup2                                     *)
  watched,   (* the views in page_lookup                                      *)
  stale,     (* ghost: blocks whose code was overwritten through its page     *)
  unseen     (* ghost: ... in a way their masks do not show                   *)

lookup == <<at, cur, want, flush>>
lists == <<entry, free, dirtyList, first, second>>
masks == <<mask, mask2>>
flags == <<compiled, byByte, noImm, fixedTop>>
memory == <<holds, lost, chunks>>
written == <<dirty, dirtyByte>>
paths == <<direct, watched>>
ghosts == <<stale, unseen>>
vars == <<lookup, lists, masks, flags, memory, recomp, written, paths, ghosts>>

-----------------------------------------------------------------------------
(* What a block covers. *)

\* max_block_size: a block masked byte by byte ends in the line after its first.
Within(b, S) == {x \in S : b \in byByte => LineOf(x) \in {LineOf(entry[b]), LineOf(entry[b]) + 1}}

\* The bytes its translation was made from.
Body(b) == Within(b, Opcodes[entry[b]] \cup IF b \in noImm THEN {} ELSE Immediates[entry[b]])

\* The bytes that count as the block's first part: those in its first page, or line.
FirstPart(b) ==
  {x \in Bytes : IF b \in byByte THEN LineOf(x) = LineOf(entry[b]) ELSE PageOf(x) = PageOf(entry[b])}

\* The page of the second part, phys_2.
SecondPage(b) == IF b \in byByte THEN ((LineOf(entry[b]) + 1) * LineSize) \div PageSize
                                 ELSE PageOf(entry[b]) + 1

\* codegen_mark_code_present: what recompiling the block marks.
Marked(b) == IF b \in byByte THEN Body(b) ELSE WholeLines(Body(b))

DirtyOf(b) == IF b \in byByte THEN dirtyByte ELSE dirty

MustFlush(b) == mask[b] \cap DirtyOf(b) # {}
MustFlush2(b) == mask2[b] \cap DirtyOf(b) # {}

Valid == {b \in Blocks : entry[b] # NoEntry}
InDirtyList(b) == \E i \in 1..Len(dirtyList) : dirtyList[i] = b

\* block_dirty_list_remove: the list without a block that is in it at most once.
Without(q, b) ==
  LET k == CHOOSE k \in 1..Len(q) : q[k] = b
  IN  IF \E i \in 1..Len(q) : q[i] = b
      THEN [j \in 1..Len(q) - 1 |-> q[IF j < k THEN j ELSE j + 1]]
      ELSE q

Init ==
  /\ at = "ready" /\ cur = NoBlock /\ want = NoEntry /\ flush = 0
  /\ entry = [b \in Blocks |-> NoEntry] /\ free = Blocks /\ dirtyList = << >>
  /\ first = [p \in Pages |-> {}] /\ second = [p \in Pages |-> {}]
  /\ mask = [b \in Blocks |-> {}] /\ mask2 = [b \in Blocks |-> {}]
  /\ compiled = {} /\ byByte = {} /\ noImm = {} /\ fixedTop = {}
  /\ holds = {} /\ lost = {} /\ chunks = Chunks /\ recomp = -1
  /\ dirty = {} /\ dirtyByte = {} /\ direct = {} /\ watched = {}
  /\ stale = {} /\ unseen = {}

-----------------------------------------------------------------------------
(* mem.c: writes and the ways they take. *)

\* (Mutant: a view written directly stays so.)
UnwatchLookup(ps, away) ==
  /\ watched' = {v \in watched : Maps[v] \notin ps}
  /\ UNCHANGED direct

\* mem_flush_write_page for the pages ps: their watched views are forgotten, and the
\* direct ones as far away from them as the view given is from its page.
Unwatch(ps, away) ==
  /\ watched' = {v \in watched : Maps[v] \notin ps}
  /\ direct' = {v \in direct : \A p \in ps : Maps[v] - v # away[p]}

AsExecuted == [p \in Pages |-> 0]         \* the view the page is executed through
FromZero == [p \in Pages |-> p]           \* view 0, whatever the page

GuestRuns == at \in {"ready", "marking", "compiling"}

\* The blocks translated from a byte.
Made(x) == {b \in compiled : x \in Body(b)}

\* (Mutant: only the lines are noted.)
NoteLines(x) ==
  /\ dirty' = dirty \cup WholeLines({x})
  /\ stale' = stale \cup Made(x)
  /\ UNCHANGED <<dirtyByte, unseen>>

\* mem_write_ramb_page: the page takes note.
Note(x) ==
  /\ dirty' = dirty \cup WholeLines({x})
  /\ dirtyByte' = dirtyByte \cup {x}
  /\ stale' = stale \cup Made(x)
  /\ UNCHANGED unseen

\* The guest changes a byte through a view that is watched ...
WriteWatched(v, x) ==
  /\ GuestRuns /\ v \in watched /\ Maps[v] = PageOf(x)
  /\ Note(x)
  /\ UNCHANGED <<lookup, lists, masks, flags, memory, recomp, paths>>

\* ... through one written directly (the block being compiled may have yet to read the
\* byte, and does not count) ...
WriteDirect(v, x) ==
  /\ GuestRuns /\ v \in direct /\ Maps[v] = PageOf(x)
  /\ unseen' = unseen \cup (Made(x) \ {cur})
  /\ UNCHANGED <<lookup, lists, masks, flags, memory, recomp, written, paths, stale>>

\* ... or through neither: addwritelookup decides how the next write will go.
WriteFirst(v, x) ==
  /\ GuestRuns /\ v \notin watched \cup direct /\ Maps[v] = PageOf(x)
  /\ IF first[Maps[v]] # {} \/ Maps[v] = recomp
     THEN watched' = watched \cup {v} /\ UNCHANGED direct
     ELSE direct' = direct \cup {v} /\ UNCHANGED watched
  /\ Note(x)
  /\ UNCHANGED <<lookup, lists, masks, flags, memory, recomp>>

\* The lookup of a view is replaced by another's, or flushed with all the others.
Forget(v) ==
  /\ GuestRuns /\ v \in watched \cup direct
  /\ watched' = watched \ {v} /\ direct' = direct \ {v}
  /\ UNCHANGED <<lookup, lists, masks, flags, memory, recomp, written, ghosts>>

\* A bus-master disk writes memory: mem_invalidate_range.
BusMaster(x) ==
  /\ GuestRuns /\ BusMastering
  /\ dirty' = dirty \cup WholeLines({x})
  /\ stale' = stale \cup (Made(x) \ byByte)
  /\ unseen' = unseen \cup ((Made(x) \cap byByte) \ {cur})
  /\ UNCHANGED <<lookup, lists, masks, flags, memory, recomp, dirtyByte, paths>>

-----------------------------------------------------------------------------
(* Lists and memory of blocks. *)

\* remove_from_block_list; a block without a mask is in no list.
Listed(b) == mask[b] # {}

\* (Mutant: the list of the second page keeps the block.)
UnlistFirst(b) ==
  IF Listed(b)
  THEN /\ first' = [first EXCEPT ![PageOf(entry[b])] = @ \ {b}]
       /\ Unwatch({p \in Pages : p = PageOf(entry[b]) /\ first'[p] = {}}, FromZero)
       /\ UNCHANGED second
  ELSE UNCHANGED <<first, second, paths>>

Unlist(b) ==
  LET one == PageOf(entry[b])
      two == {p \in Pages : b \in second[p]}
  IN  IF Listed(b)
      THEN /\ first' = [first EXCEPT ![one] = @ \ {b}]
           /\ second' = [p \in Pages |-> second[p] \ {b}]
           /\ Unwatch({p \in {one} : first'[p] = {}} \cup {p \in two : second'[p] = {}}, FromZero)
      ELSE UNCHANGED <<first, second, paths>>

\* (Mutant: the block goes on pointing to its memory.)
ReleaseKept(b) ==
  /\ chunks' = chunks + (IF b \in holds THEN 1 ELSE 0)
  /\ UNCHANGED <<holds, lost>>

\* codegen_allocator_free, if the block has memory.
Release(b) ==
  /\ holds' = holds \ {b}
  /\ chunks' = chunks + (IF b \in holds THEN 1 ELSE 0)
  /\ UNCHANGED lost

\* (Mutant: a free block keeps its address, and may be found.)
DiscardFindable(bs) ==
  /\ free' = free \cup bs
  /\ UNCHANGED entry
  /\ compiled' = compiled \ bs /\ byByte' = byByte \ bs
  /\ noImm' = noImm \ bs /\ fixedTop' = fixedTop \ bs
  /\ stale' = stale \ bs /\ unseen' = unseen \ bs

\* block_free_list_add for the blocks bs.
Discard(bs) ==
  /\ free' = free \cup bs
  /\ entry' = [b \in Blocks |-> IF b \in bs THEN NoEntry ELSE entry[b]]
  /\ compiled' = compiled \ bs /\ byByte' = byByte \ bs
  /\ noImm' = noImm \ bs /\ fixedTop' = fixedTop \ bs
  /\ stale' = stale \ bs /\ unseen' = unseen \ bs

\* delete_block.
Delete(b) ==
  /\ IF InDirtyList(b)
     THEN dirtyList' = Without(dirtyList, b) /\ UNCHANGED <<first, second, paths>>
     ELSE Unlist(b) /\ UNCHANGED dirtyList
  /\ Release(b) /\ Discard({b})

-----------------------------------------------------------------------------
(* codegen_check_flush. *)

Walking == {"walk1", "walk2", "purge"}

Affected ==
  LET one == {b \in first[flush] : MustFlush(b)}
  IN  IF one # {} THEN one ELSE {b \in second[flush] : MustFlush2(b)}

\* invalidate_block and block_dirty_list_add: the list has a limit, and the oldest
\* block is given up for the new one.
Invalidate(b) ==
  /\ at \in Walking /\ b \in Affected
  /\ Unlist(b) /\ Release(b)
  /\ LET longer == <<b>> \o dirtyList
     IN  IF Len(longer) > MaxDirty
         THEN /\ dirtyList' = SubSeq(longer, 1, Len(longer) - 1)
              /\ Discard({longer[Len(longer)]})
         ELSE dirtyList' = longer /\ UNCHANGED <<free, entry, flags, ghosts>>
  /\ UNCHANGED <<lookup, masks, recomp, written>>

\* The flush may have given up the block it was done for.
GivenUp == entry[cur] = NoEntry

\* The walk is over, and what was written counts no more.
WalkEnds ==
  /\ at \in Walking /\ Affected = {}
  /\ dirty' = dirty \ PageBytes(flush) /\ dirtyByte' = dirtyByte \ PageBytes(flush)
  /\ at' = CASE at = "purge" -> "purged"
             [] at # "purge" /\ GivenUp -> "mark"
             [] at = "walk1" /\ ~GivenUp -> "check2"
             [] at = "walk2" /\ ~GivenUp -> "decide"
  /\ flush' = 0
  /\ UNCHANGED <<cur, want, lists, masks, flags, memory, recomp, paths, ghosts>>

-----------------------------------------------------------------------------
(* exec_recompiler: looking a block up. *)

Back == at' = "ready" /\ cur' = NoBlock /\ want' = NoEntry

\* A block for the address is found.  (Its translation may be for another processor
\* mode, its hash slot may be another address's: one that is there may be missed.)
Find(e, b) ==
  /\ at = "ready" /\ entry[b] = e
  /\ at' = "check1" /\ cur' = b /\ want' = e
  /\ UNCHANGED <<flush, lists, masks, flags, memory, recomp, written, paths, ghosts>>

Miss(e) ==
  /\ at = "ready"
  /\ at' = "mark" /\ cur' = NoBlock /\ want' = e
  /\ UNCHANGED <<flush, lists, masks, flags, memory, recomp, written, paths, ghosts>>

\* Either part may have been written.
Check1 ==
  /\ at = "check1"
  /\ IF MustFlush(cur) THEN at' = "walk1" /\ flush' = PageOf(entry[cur])
                       ELSE at' = "check2" /\ UNCHANGED flush
  /\ UNCHANGED <<cur, want, lists, masks, flags, memory, recomp, written, paths, ghosts>>

\* (Mutant: the first page is flushed for the second part.)
Check2FirstPage ==
  /\ at = "check2"
  /\ IF MustFlush2(cur) THEN at' = "walk2" /\ flush' = PageOf(entry[cur])
                        ELSE at' = "decide" /\ UNCHANGED flush
  /\ UNCHANGED <<cur, want, lists, masks, flags, memory, recomp, written, paths, ghosts>>

Check2 ==
  /\ at = "check2"
  /\ IF MustFlush2(cur) THEN at' = "walk2" /\ flush' = SecondPage(cur)
                        ELSE at' = "decide" /\ UNCHANGED flush
  /\ UNCHANGED <<cur, want, lists, masks, flags, memory, recomp, written, paths, ghosts>>

Untranslated ==
  compiled' = compiled \ {cur} /\ stale' = stale \ {cur} /\ unseen' = unseen \ {cur}

\* A block of the dirty list is recompiled, more finely than before.
Refine ==
  /\ at = "decide" /\ InDirtyList(cur)
  /\ at' = "compile" /\ Untranslated
  /\ IF cur \in byByte THEN noImm' = noImm \cup {cur} /\ UNCHANGED byByte
                       ELSE byByte' = byByte \cup {cur} /\ UNCHANGED noImm
  /\ UNCHANGED <<cur, want, flush, lists, masks, fixedTop, memory, recomp, written, paths>>

\* A block that was only marked is recompiled, and so is one that was compiled for
\* another top of the FPU's stack.
Recompile ==
  /\ at = "decide" /\ ~InDirtyList(cur)
  /\ \/ cur \notin compiled /\ UNCHANGED fixedTop
     \/ cur \in compiled \cap fixedTop /\ fixedTop' = fixedTop \ {cur}
  /\ at' = "compile" /\ Untranslated
  /\ UNCHANGED <<cur, want, flush, lists, masks, byByte, noImm, memory, recomp, written, paths>>

Run ==
  /\ at = "decide" /\ ~InDirtyList(cur) /\ cur \in compiled
  /\ Back
  /\ UNCHANGED <<flush, lists, masks, flags, memory, recomp, written, paths, ghosts>>

-----------------------------------------------------------------------------
(* Recompiling. *)

\* codegen_block_start_recompile: a page without blocks becomes watched ...
StartCompile ==
  /\ at = "compile" /\ at' = "alloc"
  /\ LET p == PageOf(want)
     IN  IF first[p] = {} THEN Unwatch({p}, AsExecuted) ELSE UNCHANGED paths
  /\ UNCHANGED <<cur, want, flush, lists, masks, flags, memory, recomp, written, ghosts>>

\* ... and the block gets memory.  What it held before stays its own, in no list.  The
\* instructions are read and marked one by one, each before it is executed.
Translate ==
  /\ at = "alloc" /\ chunks > 0 /\ at' = "compiling"
  /\ chunks' = chunks - 1 /\ holds' = holds \cup {cur}
  /\ lost' = lost \cup ({cur} \cap holds)
  /\ compiled' = compiled \cup {cur} /\ recomp' = PageOf(want)
  /\ mask' = [mask EXCEPT ![cur] = Marked(cur) \cap FirstPart(cur)]
  /\ mask2' = [mask2 EXCEPT ![cur] = Marked(cur) \ FirstPart(cur)]
  /\ stale' = stale \ {cur} /\ unseen' = unseen \ {cur}
  /\ UNCHANGED <<cur, want, flush, lists, byByte, noImm, fixedTop, written, paths>>

\* codegen_allocator_allocate: a chunk's owner is given up, unless it is the block that
\* wants the memory.
Reclaim(b) ==
  /\ at = "alloc" /\ chunks = 0
  /\ b \in Valid \cap (holds \cup lost) /\ b # cur
  /\ Delete(b)
  /\ UNCHANGED <<lookup, masks, recomp, written>>

\* add_to_block_list for the block in hand, once it is in no list.
Enlist(one, two) ==
  LET p == PageOf(want)
      q == IF mask2'[cur] = {} THEN {} ELSE {SecondPage(cur)}
  IN  /\ first' = [one EXCEPT ![p] = @ \cup {cur}]
      /\ second' = [r \in Pages |-> two[r] \cup (IF r \in q THEN {cur} ELSE {})]

\* codegen_block_end_recompile: the block goes to the lists of its pages.  A second
\* page without second parts is to become watched.
EndCompile ==
  /\ at = "compiling" /\ Back /\ recomp' = -1
  /\ dirtyList' = Without(dirtyList, cur)
  /\ UNCHANGED masks
  /\ LET one == [p \in Pages |-> first[p] \ {cur}]
         two == [p \in Pages |-> second[p] \ {cur}]
         left == {p \in Pages : cur \in first[p] /\ one[p] = {}}
                 \cup {p \in Pages : cur \in second[p] /\ two[p] = {}}
         next == {p \in Pages : mask2[cur] # {} /\ p = SecondPage(cur) /\ two[p] = {}}
     IN  /\ Enlist(one, two)
         /\ watched' = {v \in watched : Maps[v] \notin left \cup next}
         /\ direct' = {v \in direct : /\ \A p \in left : Maps[v] - v # p
                                      /\ next # {} => Maps[v] # v}
  /\ fixedTop' \in {fixedTop, fixedTop \ {cur}}     \* without or with FPU instructions
  /\ UNCHANGED <<flush, entry, free, compiled, byByte, noImm, memory, written, ghosts>>

\* An instruction faults: codegen_block_remove.
AbortCompile ==
  /\ at = "compiling" /\ Back /\ recomp' = -1
  /\ Delete(cur)
  /\ UNCHANGED <<flush, masks, written>>

-----------------------------------------------------------------------------
(* Interpreting and marking a new block. *)

StartMark ==
  /\ at = "mark" /\ at' = "get"
  /\ LET p == PageOf(want)
     IN  IF first[p] = {} THEN Unwatch({p}, AsExecuted) ELSE UNCHANGED paths
  /\ UNCHANGED <<cur, want, flush, lists, masks, flags, memory, recomp, written, ghosts>>

\* block_free_list_get: a free block, or the oldest of the dirty list ...
Take(b) ==
  /\ at \in {"get", "purged"} /\ b \in free
  /\ at' = "marking" /\ cur' = b /\ recomp' = PageOf(want)
  /\ free' = free \ {b} /\ entry' = [entry EXCEPT ![b] = want]
  /\ mask' = [mask EXCEPT ![b] = {}] /\ mask2' = [mask2 EXCEPT ![b] = {}]
  /\ fixedTop' = fixedTop \cup {b}
  /\ UNCHANGED <<want, flush, dirtyList, first, second, compiled, byByte, noImm,
                 memory, written, paths, ghosts>>

ReuseOldest ==
  /\ at = "get" /\ free = {} /\ dirtyList # << >>
  /\ dirtyList' = SubSeq(dirtyList, 1, Len(dirtyList) - 1)
  /\ Discard({dirtyList[Len(dirtyList)]})
  /\ UNCHANGED <<lookup, first, second, masks, memory, recomp, written, paths>>

\* ... or, when a written page has been flushed, if the evict list leads to one, any
\* block but the last one opened.
Purge(p) ==
  /\ at = "get" /\ free = {} /\ dirtyList = << >>
  /\ dirty \cap PageBytes(p) # {}
  /\ at' = "purge" /\ flush' = p
  /\ UNCHANGED <<cur, want, lists, masks, flags, memory, recomp, written, paths, ghosts>>

DeleteRandom(b) ==
  /\ at = "purged" \/ (at = "get" /\ dirtyList = << >>)
  /\ free = {} /\ b \in Valid
  /\ Delete(b)
  /\ UNCHANGED <<lookup, masks, recomp, written>>

\* codegen_block_end.
EndMark ==
  /\ at = "marking" /\ Back /\ recomp' = -1
  /\ LET reached == WholeLines(Within(cur, Reach[want]))
     IN  /\ mask' = [mask EXCEPT ![cur] = reached \cap FirstPart(cur)]
         /\ mask2' = [mask2 EXCEPT ![cur] = reached \ FirstPart(cur)]
  /\ Enlist(first, second)
  /\ LET next == {p \in Pages : mask2'[cur] # {} /\ p = SecondPage(cur) /\ second[p] = {}}
     IN  Unwatch(next, AsExecuted)
  /\ UNCHANGED <<flush, entry, free, dirtyList, flags, memory, written, ghosts>>

AbortMark ==
  /\ at = "marking" /\ Back /\ recomp' = -1
  /\ Delete(cur)
  /\ UNCHANGED <<flush, masks, written>>

\* The processor is reset: codegen_reset.
Reset ==
  /\ GuestRuns /\ Back
  /\ Discard(Blocks) /\ dirtyList' = << >>
  /\ first' = [p \in Pages |-> {}] /\ second' = [p \in Pages |-> {}]
  /\ mask' = [b \in Blocks |-> {}] /\ mask2' = [b \in Blocks |-> {}]
  /\ chunks' = chunks + Cardinality(holds) /\ holds' = {} /\ UNCHANGED lost
  /\ direct' = {} /\ watched' = {}
  /\ UNCHANGED <<flush, recomp, written>>

-----------------------------------------------------------------------------
Guest ==
  \/ \E v \in Views, x \in Bytes : WriteWatched(v, x) \/ WriteDirect(v, x) \/ WriteFirst(v, x)
  \/ \E v \in Views : Forget(v)
  \/ \E x \in Bytes : BusMaster(x)
  \/ Reset

Lookup ==
  \/ \E e \in Entries : (\E b \in Blocks : Find(e, b)) \/ Miss(e)
  \/ Check1 \/ Check2 \/ Refine \/ Recompile \/ Run

Walk == (\E b \in Blocks : Invalidate(b)) \/ WalkEnds

Compile == StartCompile \/ Translate \/ (\E b \in Blocks : Reclaim(b)) \/ EndCompile \/ AbortCompile

Mark ==
  \/ StartMark \/ EndMark \/ AbortMark \/ ReuseOldest
  \/ \E b \in Blocks : Take(b) \/ DeleteRandom(b)
  \/ \E p \in Pages : Purge(p)

Next == Guest \/ Lookup \/ Walk \/ Compile \/ Mark

Spec == Init /\ [][Next]_vars

-----------------------------------------------------------------------------
TypeOK ==
  /\ at \in {"ready", "check1", "walk1", "check2", "walk2", "decide", "compile", "alloc",
             "compiling", "mark", "get", "purge", "purged", "marking"}
  /\ cur \in Blocks \cup {NoBlock} /\ want \in Entries \cup {NoEntry} /\ flush \in Pages
  /\ entry \in [Blocks -> Entries \cup {NoEntry}] /\ free \subseteq Blocks
  /\ dirtyList \in Seq(Blocks) /\ Len(dirtyList) <= MaxDirty
  /\ first \in [Pages -> SUBSET Blocks] /\ second \in [Pages -> SUBSET Blocks]
  /\ mask \in [Blocks -> SUBSET Bytes] /\ mask2 \in [Blocks -> SUBSET Bytes]
  /\ compiled \subseteq Blocks /\ byByte \subseteq Blocks
  /\ noImm \subseteq Blocks /\ fixedTop \subseteq Blocks
  /\ holds \subseteq Blocks /\ lost \subseteq Blocks /\ chunks \in 0..Chunks
  /\ recomp \in Pages \cup {-1}
  /\ dirty \subseteq Bytes /\ dirtyByte \subseteq Bytes
  /\ direct \subseteq Views /\ watched \subseteq Views
  /\ stale \subseteq Blocks /\ unseen \subseteq Blocks

InPages(b) == entry[b] # NoEntry /\ b \in first[PageOf(entry[b])]
Open(b) == at = "marking" /\ b = cur

\* Every block is in one place: free, in the dirty list once, in the lists of its pages
\* or being marked; the checks of codegen_block.c that call fatal() all find it so.
OnePlace ==
  \A b \in Blocks :
    /\ Cardinality({i \in 1..Len(dirtyList) : dirtyList[i] = b}) + (IF b \in free THEN 1 ELSE 0)
       + (IF InPages(b) THEN 1 ELSE 0) + (IF Open(b) THEN 1 ELSE 0) = 1
    /\ b \in free <=> entry[b] = NoEntry
    /\ \A p \in Pages : b \in first[p] => p = PageOf(entry[b])
    /\ \A p \in Pages : b \in second[p] => InPages(b) /\ p = SecondPage(b)

\* What Run runs (a block compiled for another top of the stack is recompiled instead).
AboutToRun == at = "decide" /\ ~InDirtyList(cur) /\ cur \in compiled

\* A block runs only with its memory still its own and for the address it was looked
\* up for, although the flush its lookup starts may have given it up.
RunsOwnCode == AboutToRun => cur \in holds /\ cur \notin free /\ entry[cur] = want

\* A block whose code has been overwritten is marked so, or has been evicted.
StaleIsMarked ==
  \A b \in stale \cap compiled :
    \/ MustFlush(b) \/ MustFlush2(b)
    \/ InDirtyList(b) /\ ~(at = "compiling" /\ b = cur)

\* codegen.h: "When a codeblock is about to be executed, the code masks are compared
\* with the dirty masks ... all affected blocks are evicted".  No block is run that was
\* translated from bytes its page saw overwritten since.
EvictedBeforeRun == AboutToRun => cur \notin stale

\* codegen.h: "when a page first has a codeblock generated, it is evicted from the
\* writelookup and added to the page_lookup ... each write will go through the
\* mem_write_ram*_page() functions".  No block is run that was translated from bytes
\* that have changed.
NeverStale == AboutToRun => cur \notin stale \cup unseen

\* There is one way into the code at e: it lies in one page, and that page is written
\* through the view it is executed through only.
OneWay(e) ==
  /\ \A x \in Opcodes[e] \cup Immediates[e] : PageOf(x) = PageOf(e)
  /\ \A v \in Views : Maps[v] = PageOf(e) => v = PageOf(e)

\* ... which is kept for code with one way into it, unless a bus master may have written
\* behind the byte masks (mem_invalidate_range marks lines only).
OneWayNeverStale ==
  AboutToRun /\ OneWay(want) /\ ~(BusMastering /\ cur \in byByte) => cur \notin stale \cup unseen

\* No chunk of executable memory is given back twice.
ChunksAgree == chunks + Cardinality(holds) <= Chunks
=============================================================================
