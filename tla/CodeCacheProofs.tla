--------------------------- MODULE CodeCacheProofs ---------------------------
(***************************************************************************)
(* CodeCache.tla for any number of blocks, chunks and pages, any line and     *)
(* page size and any code: blocks stay in one place, no chunk of memory is    *)
(* given back twice, and a block whose code its page saw overwritten is       *)
(* evicted before it would be run - and every block whose code has changed,   *)
(* if there is only one way into its code.                                   *)
(***************************************************************************)
EXTENDS CodeCache, TLAPS, FiniteSetTheorems, SequenceTheorems

\* Sequences without repetition.
Has(q, c) == \E i \in 1..Len(q) : q[i] = c
NoTwice(q) == \A i, j \in 1..Len(q) : q[i] = q[j] => i = j

\* Where exec_recompiler has a block in hand that it looked up, and whose address it
\* still has.
Walked == {"walk1", "walk2"}
Found == {"check1", "check2", "decide", "compile", "alloc", "compiling"}

\* Being recompiled more finely than its masks say.
Refining(b) == at \in {"compile", "alloc"} /\ b = cur /\ InDirtyList(b)

\* A translation that may be run, now or when its recompilation ends.
Live(b) == b \in compiled /\ (~InDirtyList(b) \/ (at = "compiling" /\ b = cur))

\* A block is in one place, and in the lists of its pages when it is in none other.
Placed(b) ==
  /\ b \in free <=> entry[b] = NoEntry
  /\ \A p \in Pages : b \in first[p] => entry[b] # NoEntry /\ p = PageOf(entry[b])
  /\ \A p \in Pages : b \in second[p] => InPages(b) /\ p = SecondPage(b)
  /\ InPages(b) => ~InDirtyList(b) /\ ~Open(b)
  /\ InDirtyList(b) => entry[b] # NoEntry /\ ~Open(b)
  /\ entry[b] # NoEntry /\ ~InDirtyList(b) /\ ~Open(b) =>
       /\ InPages(b)
       /\ mask2[b] # {} /\ ~(at = "compiling" /\ b = cur) => b \in second[SecondPage(b)]

\* What the masks say of a block.
Masked(b) ==
  /\ b \in compiled => entry[b] # NoEntry
  /\ entry[b] # NoEntry /\ ~Open(b) => entry[b] \in mask[b]
  /\ entry[b] # NoEntry /\ ~Open(b) /\ ~Refining(b) =>
       mask[b] \subseteq PageBytes(PageOf(entry[b])) /\ mask2[b] \subseteq PageBytes(SecondPage(b))
  /\ Live(b) => b \in holds /\ Marked(b) \subseteq mask[b] \cup mask2[b]

StaleMarked(b) ==
  b \in stale /\ b \in compiled =>
    \/ MustFlush(b) \/ MustFlush2(b)
    \/ InDirtyList(b) /\ ~(at = "compiling" /\ b = cur)

\* What holds of every block.
Sound(b) == Placed(b) /\ Masked(b) /\ StaleMarked(b)

\* Where exec_recompiler is, and what it holds there.
Control ==
  /\ at \in Found => cur \in Blocks /\ want \in Entries /\ entry[cur] = want
  /\ at \in Walked => cur \in Blocks /\ want \in Entries /\ entry[cur] \in {want, NoEntry}
  /\ at = "marking" => cur \in Blocks /\ want \in Entries /\ entry[cur] = want /\ cur \notin compiled
  /\ at \in {"mark", "get", "purge", "purged"} => want \in Entries
  /\ at = "walk1" => flush = PageOf(want)
  /\ at = "walk2" /\ ~GivenUp => flush = SecondPage(cur)
  /\ at \in {"check2", "decide"} \/ (at = "walk2" /\ ~GivenUp) => ~MustFlush(cur) \/ InDirtyList(cur)
  /\ at = "decide" => ~MustFlush2(cur) \/ InDirtyList(cur)

Memory == IsFiniteSet(holds) /\ ChunksAgree

CacheInv ==
  TypeOK /\ NoTwice(dirtyList) /\ (\A b \in Blocks : Sound(b)) /\ Control /\ Memory

\* A step that does nothing to a block, and nothing to what is known of its code.
Untouched(b) ==
  /\ entry'[b] = entry[b] /\ mask'[b] = mask[b] /\ mask2'[b] = mask2[b]
  /\ b \in free' <=> b \in free
  /\ \A p \in Pages : (b \in first'[p] <=> b \in first[p]) /\ (b \in second'[p] <=> b \in second[p])
  /\ InDirtyList(b)' <=> InDirtyList(b)
  /\ b \in compiled' <=> b \in compiled
  /\ b \in byByte' <=> b \in byByte
  /\ b \in noImm' <=> b \in noImm
  /\ b \in holds => b \in holds'
  /\ Open(b)' <=> Open(b)
  /\ (at = "compiling" /\ b = cur)' <=> (at = "compiling" /\ b = cur)
  /\ Refining(b) => Refining(b)'

Unwritten(b) ==
  /\ dirty \subseteq dirty' /\ dirtyByte \subseteq dirtyByte'
  /\ b \in stale' => b \in stale

-----------------------------------------------------------------------------
\* The quotient is the only number whose multiple is that near below.
LEMMA Quotient ==
  ASSUME NEW d \in Nat \ {0}, NEW x \in Nat, NEW q \in Int, d * q <= x, x < d * q + d
  PROVE  x \div d = q
<1> DEFINE p == x \div d
           r == x % d
<1>1. p \in Int /\ r \in 0..d - 1 /\ x = d * p + r
  OBVIOUS
<1> HIDE DEF p, r
<1>2. ASSUME q <= p - 1 PROVE FALSE
  <2>1. d * q <= d * (p - 1) BY <1>1, <1>2
  <2>2. d * (p - 1) = d * p - d BY <1>1
  <2>3. d * q \in Int /\ d * p \in Int BY <1>1
  <2>4. QED BY <1>1, <2>1, <2>2, <2>3
<1>3. ASSUME p <= q - 1 PROVE FALSE
  <2>1. d * p <= d * (q - 1) BY <1>1, <1>3
  <2>2. d * (q - 1) = d * q - d BY <1>1
  <2>3. d * q \in Int /\ d * p \in Int BY <1>1
  <2>4. QED BY <1>1, <2>1, <2>2, <2>3
<1>4. p = q BY <1>1, <1>2, <1>3
<1>5. QED BY <1>4 DEF p

\* What a quotient is.
LEMMA Between ==
  ASSUME NEW d \in Nat \ {0}, NEW x \in Nat
  PROVE  x \div d \in Nat /\ d * (x \div d) <= x /\ x < d * (x \div d) + d
<1> DEFINE p == x \div d
           r == x % d
<1>1. p \in Int /\ r \in 0..d - 1 /\ x = d * p + r
  OBVIOUS
<1> HIDE DEF p, r
<1>2. ASSUME p <= -1 PROVE FALSE
  <2>1. d * p <= d * (-1) BY <1>1, <1>2
  <2>2. QED BY <1>1, <2>1
<1>3. d * p \in Int BY <1>1
<1>4. p \in Nat /\ d * p <= x /\ x < d * p + d BY <1>1, <1>2, <1>3
<1>5. QED BY <1>4 DEF p

\* The next line is in the same page or in the next.
LEMMA NextQuotient ==
  ASSUME NEW k \in Nat \ {0}, NEW n \in Nat
  PROVE  (n + 1) \div k \in {n \div k, (n \div k) + 1}
<1> DEFINE q == n \div k
<1>1. q \in Nat /\ k * q <= n /\ n < k * q + k BY Between
<1> HIDE DEF q
<1>2. k * (q + 1) = k * q + k /\ k * q \in Nat BY <1>1
<1>3. CASE n + 1 < k * q + k
  <2>1. (n + 1) \div k = q BY <1>1, <1>2, <1>3, Quotient
  <2>2. QED BY <2>1 DEF q
<1>4. CASE n + 1 = k * q + k
  <2>1. n + 1 < k * (q + 1) + k /\ k * (q + 1) <= n + 1 /\ n + 1 \in Nat /\ q + 1 \in Int BY <1>1, <1>2, <1>4
  <2>2. (n + 1) \div k = q + 1 BY <2>1, Quotient
  <2>3. QED BY <2>2 DEF q
<1>5. QED BY <1>1, <1>2, <1>3, <1>4

-----------------------------------------------------------------------------
\* Removing a block from the dirty list, and removing its oldest.
LEMMA WithoutIs ==
  ASSUME NEW S, NEW q \in Seq(S), NoTwice(q), NEW b
  PROVE  /\ Without(q, b) \in Seq(S) /\ Len(Without(q, b)) <= Len(q) /\ NoTwice(Without(q, b))
         /\ \A c : Has(Without(q, b), c) <=> Has(q, c) /\ c # b
<1>1. Len(q) \in Nat /\ \A i \in 1..Len(q) : q[i] \in S
  BY ElementOfSeq, LenProperties
<1>2. CASE ~Has(q, b)
  <2>1. Without(q, b) = q BY <1>2 DEF Without, Has
  <2>2. QED BY <1>1, <1>2, <2>1 DEF Has
<1>3. CASE Has(q, b)
  <2> DEFINE k == CHOOSE k \in 1..Len(q) : q[k] = b
             n == Len(q) - 1
             at_(j) == IF j < k THEN j ELSE j + 1
             w == [j \in 1..n |-> q[at_(j)]]
  <2>1. k \in 1..Len(q) /\ q[k] = b BY <1>3 DEF Has
  <2>2. Without(q, b) = w BY <1>3 DEF Without, Has
  <2> HIDE DEF k
  <2>3. n \in Nat /\ \A j \in 1..n : at_(j) \in 1..Len(q) /\ at_(j) # k
    BY <1>1, <2>1
  <2>4. w \in Seq(S) /\ Len(w) = n
    <3>1. w \in [1..n -> S] BY <1>1, <2>3
    <3>2. w \in Seq(S) BY <2>3, <3>1, SeqDef
    <3>3. DOMAIN w = 1..n OBVIOUS
    <3> HIDE DEF w, n
    <3>4. QED BY <2>3, <3>2, <3>3, LenProperties
  <2>5. NoTwice(w)
    <3> SUFFICES ASSUME NEW i \in 1..n, NEW j \in 1..n, w[i] = w[j] PROVE i = j
      BY <2>4 DEF NoTwice
    <3>1. q[at_(i)] = q[at_(j)] OBVIOUS
    <3>2. at_(i) = at_(j) BY <2>3, <3>1 DEF NoTwice
    <3>3. QED BY <1>1, <2>1, <3>2
  <2>6. ASSUME NEW c PROVE Has(w, c) <=> Has(q, c) /\ c # b
    <3>1. ASSUME Has(w, c) PROVE Has(q, c) /\ c # b
      <4>1. PICK j \in 1..n : w[j] = c BY <2>4, <3>1 DEF Has
      <4>2. q[at_(j)] = c /\ at_(j) \in 1..Len(q) /\ at_(j) # k BY <2>3, <4>1
      <4> HIDE DEF at_
      <4>3. c # b BY <2>1, <4>2 DEF NoTwice
      <4>4. QED BY <4>2, <4>3 DEF Has
    <3>2. ASSUME Has(q, c), c # b PROVE Has(w, c)
      <4>1. PICK i \in 1..Len(q) : q[i] = c BY <3>2 DEF Has
      <4>2. i # k BY <2>1, <3>2, <4>1
      <4>3. CASE i < k
        <5>1. i \in 1..n /\ at_(i) = i BY <1>1, <2>1, <4>3
        <5>2. w[i] = c BY <4>1, <5>1
        <5>3. QED BY <2>4, <5>1, <5>2 DEF Has
      <4>4. CASE i > k
        <5>1. i - 1 \in 1..n /\ at_(i - 1) = i BY <1>1, <2>1, <4>4
        <5>2. w[i - 1] = c BY <4>1, <5>1
        <5>3. QED BY <2>4, <5>1, <5>2 DEF Has
      <4>5. QED BY <2>1, <4>2, <4>3, <4>4
    <3>3. QED BY <3>1, <3>2
  <2> HIDE DEF w
  <2>7. Len(w) <= Len(q) BY <1>1, <2>4
  <2>8. QED BY <2>2, <2>4, <2>5, <2>6, <2>7
<1>4. QED BY <1>2, <1>3

\* The list without its oldest block.
LEMMA OldestGone ==
  ASSUME NEW S, NEW q \in Seq(S), NoTwice(q), q # << >>
  PROVE  LET w == SubSeq(q, 1, Len(q) - 1)
         IN  /\ w \in Seq(S) /\ Len(w) = Len(q) - 1 /\ NoTwice(w) /\ q[Len(q)] \in S
             /\ Has(q, q[Len(q)])
             /\ \A c : Has(w, c) <=> Has(q, c) /\ c # q[Len(q)]
<1> DEFINE w == SubSeq(q, 1, Len(q) - 1)
           n == Len(q)
<1>1. n \in Nat /\ n > 0 /\ \A i \in 1..n : q[i] \in S
  BY EmptySeq, ElementOfSeq, LenProperties
<1>2. w \in Seq(S) /\ Len(w) = n - 1 /\ \A i \in 1..n - 1 : w[i] = q[i]
  <2>1. 1 \in 1..n + 1 /\ n - 1 \in 1 - 1..n /\ (n - 1) - 1 + 1 = n - 1 BY <1>1
  <2>2. /\ w \in Seq(S) /\ Len(w) = IF 1 <= n - 1 THEN (n - 1) - 1 + 1 ELSE 0
        /\ \A i \in 1..(n - 1) - 1 + 1 : w[i] = q[1 + i - 1]
    BY <2>1, SubSeqProperties
  <2>3. \A i \in 1..n - 1 : 1 + i - 1 = i OBVIOUS
  <2>4. QED BY <1>1, <2>1, <2>2, <2>3
<1> HIDE DEF w
<1>3. NoTwice(w) /\ q[n] \in S /\ Has(q, q[n])
  BY <1>1, <1>2 DEF NoTwice, Has
<1>4. \A c : Has(w, c) <=> Has(q, c) /\ c # q[n]
  BY <1>1, <1>2 DEF NoTwice, Has
<1>5. QED BY <1>2, <1>3, <1>4 DEF w

\* The list with a new block in front.
LEMMA YoungestAdded ==
  ASSUME NEW S, NEW q \in Seq(S), NoTwice(q), NEW b \in S, ~Has(q, b)
  PROVE  LET w == <<b>> \o q
         IN  /\ w \in Seq(S) /\ Len(w) = Len(q) + 1 /\ NoTwice(w) /\ w # << >>
             /\ Has(w, b) /\ (q # << >> => w[Len(w)] # b)
             /\ \A c : Has(w, c) <=> Has(q, c) \/ c = b
<1> DEFINE w == <<b>> \o q
           n == Len(q)
<1>1. n \in Nat /\ (q # << >> => n > 0) /\ \A i \in 1..n : q[i] \in S
  BY EmptySeq, ElementOfSeq, LenProperties
<1>2. w \in Seq(S) /\ Len(w) = n + 1 /\ w[1] = b /\ \A i \in 1..n : w[i + 1] = q[i]
  <2>1. <<b>> \in Seq(S) /\ Len(<<b>>) = 1 /\ <<b>>[1] = b OBVIOUS
  <2>2. QED BY <1>1, <2>1, ConcatProperties
<1> HIDE DEF w
<1>3. \A i \in 2..n + 1 : i - 1 \in 1..n /\ w[i] = q[i - 1]
  BY <1>1, <1>2
<1>4. NoTwice(w)
  <2> SUFFICES ASSUME NEW i \in 1..n + 1, NEW j \in 1..n + 1, w[i] = w[j] PROVE i = j
    BY <1>2 DEF NoTwice
  <2>1. \A k \in 2..n + 1 : w[k] # b BY <1>3 DEF Has
  <2>2. CASE i = 1 \/ j = 1
    <3>1. i \notin 2..n + 1 /\ j \notin 2..n + 1 BY <1>2, <2>1, <2>2
    <3>2. QED BY <1>1, <3>1
  <2>3. CASE i # 1 /\ j # 1
    <3>1. i \in 2..n + 1 /\ j \in 2..n + 1 BY <1>1, <2>3
    <3>2. i - 1 \in 1..n /\ j - 1 \in 1..n /\ q[i - 1] = q[j - 1] BY <1>3, <3>1
    <3>3. i - 1 = j - 1 BY <3>2 DEF NoTwice
    <3>4. QED BY <1>1, <3>3
  <2>4. QED BY <2>2, <2>3
<1>5. Has(w, b) /\ w # << >> /\ (q # << >> => w[Len(w)] # b)
  BY <1>1, <1>2, <1>3, EmptySeq DEF Has
<1>6. \A c : Has(w, c) <=> Has(q, c) \/ c = b
  <2> SUFFICES ASSUME NEW c PROVE Has(w, c) <=> Has(q, c) \/ c = b OBVIOUS
  <2>1. ASSUME Has(w, c), c # b PROVE Has(q, c)
    <3>1. PICK i \in 1..n + 1 : w[i] = c BY <1>2, <2>1 DEF Has
    <3>2. i \in 2..n + 1 BY <1>1, <1>2, <2>1, <3>1
    <3>3. QED BY <1>3, <3>1, <3>2 DEF Has
  <2>2. ASSUME Has(q, c) PROVE Has(w, c)
    <3>1. PICK i \in 1..n : q[i] = c BY <2>2 DEF Has
    <3>2. i + 1 \in 1..n + 1 /\ w[i + 1] = c BY <1>1, <1>2, <3>1
    <3>3. QED BY <1>2, <3>2 DEF Has
  <2>3. QED BY <1>5, <2>1, <2>2
<1>7. QED BY <1>2, <1>4, <1>5, <1>6 DEF w

-----------------------------------------------------------------------------
\* Lines and pages.
LEMMA Units ==
  /\ LineSize \in Nat \ {0} /\ PageSize \in Nat \ {0} /\ PageCount \in Nat \ {0}
  /\ PageSize \div LineSize \in Nat \ {0} /\ PageSize = LineSize * (PageSize \div LineSize)
<1>1. /\ LineSize \in Nat \ {0} /\ PageSize \in Nat \ {0} /\ PageCount \in Nat \ {0}
      /\ PageSize % LineSize = 0
  BY CodeCacheAssumption
<1>2. PageSize \div LineSize \in Nat BY <1>1, Between
<1>3. PageSize = LineSize * (PageSize \div LineSize) + (PageSize % LineSize) BY <1>1
<1>4. LineSize * (PageSize \div LineSize) = PageSize BY <1>1, <1>2, <1>3
<1>5. PageSize \div LineSize # 0 BY <1>1, <1>4
<1>6. QED BY <1>1, <1>2, <1>4, <1>5

\* Pages are made of whole lines.
LEMMA Nested ==
  ASSUME NEW k \in Nat \ {0}, PageSize = LineSize * k, NEW x \in Nat
  PROVE  PageOf(x) = LineOf(x) \div k /\ PageOf(x * LineSize) = x \div k
<1> LineSize \in Nat \ {0} /\ PageSize \in Nat \ {0} BY CodeCacheAssumption
<1>1. \A q \in Nat : (LineSize * k) * q = PageSize * q /\ PageSize * q \in Nat OBVIOUS
<1>2. x \div PageSize = (x \div LineSize) \div k
  <2> DEFINE n == x \div LineSize
             q == n \div k
  <2>1. n \in Nat /\ LineSize * n <= x /\ x < LineSize * n + LineSize BY Between
  <2> HIDE DEF n
  <2>2. q \in Nat /\ k * q <= n /\ n < k * q + k BY <2>1, Between
  <2> HIDE DEF q
  <2>3. k * q \in Nat /\ n + 1 <= k * q + k BY <2>1, <2>2
  <2>4. LineSize * (k * q) <= LineSize * n BY <2>1, <2>2, <2>3
  <2>5. LineSize * (n + 1) <= LineSize * (k * q + k) BY <2>1, <2>3
  <2>6. LineSize * (n + 1) = LineSize * n + LineSize BY <2>1
  <2>7. LineSize * (k * q) = (LineSize * k) * q /\ LineSize * (k * q + k) = (LineSize * k) * q + LineSize * k BY <2>2
  <2>8. PageSize * q <= x /\ x < PageSize * q + PageSize
    <3>1. LineSize * n \in Int BY <2>1
    <3>2. LineSize * (k * q) = PageSize * q /\ LineSize * (k * q + k) = PageSize * q + PageSize BY <1>1, <2>2, <2>7
    <3>3. QED BY <1>1, <2>1, <2>2, <2>4, <2>5, <2>6, <3>1, <3>2
  <2>9. x \div PageSize = q BY <2>2, <2>8, Quotient
  <2>10. QED BY <2>9 DEF n, q
<1>3. (x * LineSize) \div PageSize = x \div k
  <2> DEFINE q == x \div k
  <2>1. q \in Nat /\ k * q <= x /\ x + 1 <= k * q + k BY Between
  <2> HIDE DEF q
  <2>2. LineSize * (k * q) <= LineSize * x /\ LineSize * (x + 1) <= LineSize * (k * q + k) BY <2>1
  <2>3. LineSize * (x + 1) = LineSize * x + LineSize /\ x * LineSize = LineSize * x BY <2>1
  <2>4. LineSize * (k * q) = (LineSize * k) * q /\ LineSize * (k * q + k) = (LineSize * k) * q + LineSize * k BY <2>1
  <2>5. PageSize * q <= x * LineSize /\ x * LineSize < PageSize * q + PageSize
    <3>1. LineSize * x \in Int BY <2>1
    <3>2. LineSize * (k * q) = PageSize * q /\ LineSize * (k * q + k) = PageSize * q + PageSize BY <1>1, <2>1, <2>4
    <3>3. QED BY <1>1, <2>1, <2>2, <2>3, <3>1, <3>2
  <2>6. x * LineSize \in Nat OBVIOUS
  <2>7. (x * LineSize) \div PageSize = q BY <2>1, <2>5, <2>6, Quotient
  <2>8. QED BY <2>7 DEF q
<1>4. QED BY <1>2, <1>3 DEF PageOf, LineOf

\* A block's lines lie in its page or begin the next one.
LEMMA Geometry ==
  ASSUME NEW e \in Bytes, NEW x \in Bytes
  PROVE  /\ PageOf(x) \in Pages
         /\ LineOf(x) = LineOf(e) => PageOf(x) = PageOf(e)
         /\ LineOf(x) = LineOf(e) + 1 => /\ PageOf(x) \in {PageOf(e), PageOf(e) + 1}
                                         /\ PageOf(x) = ((LineOf(e) + 1) * LineSize) \div PageSize
<1> DEFINE k == PageSize \div LineSize
<1>1. k \in Nat \ {0} /\ PageSize = LineSize * k /\ LineSize \in Nat \ {0} /\ PageSize \in Nat \ {0}
      /\ PageCount \in Nat \ {0}
  BY Units
<1>2. e \in Nat /\ x \in Nat /\ x < PageCount * PageSize
  <2>1. PageCount * PageSize \in Nat BY <1>1
  <2>2. QED BY <2>1 DEF Bytes
<1> HIDE DEF k
<1>3. PageOf(x) \in Pages
  <2> DEFINE q == x \div PageSize
  <2>1. q \in Nat /\ PageSize * q <= x BY <1>1, <1>2, Between
  <2> HIDE DEF q
  <2>2. ASSUME q >= PageCount PROVE FALSE
    <3>1. PageSize * PageCount <= PageSize * q BY <1>1, <2>1, <2>2
    <3>2. PageSize * PageCount = PageCount * PageSize /\ PageSize * q \in Int /\ PageCount * PageSize \in Int
      BY <1>1, <2>1
    <3>3. QED BY <1>2, <2>1, <3>1, <3>2
  <2>3. q \in 0..PageCount - 1 BY <1>1, <2>1, <2>2
  <2>4. QED BY <2>3 DEF q, PageOf, Pages
<1>4. LineOf(e) \in Nat /\ LineOf(x) \in Nat
  BY <1>1, <1>2, Between DEF LineOf
<1>5. PageOf(e) = LineOf(e) \div k /\ PageOf(x) = LineOf(x) \div k
  BY <1>1, <1>2, Nested
<1>6. ((LineOf(e) + 1) * LineSize) \div PageSize = (LineOf(e) + 1) \div k
  <2>1. LineOf(e) + 1 \in Nat BY <1>4
  <2>2. PageOf((LineOf(e) + 1) * LineSize) = (LineOf(e) + 1) \div k BY <1>1, <2>1, Nested
  <2>3. QED BY <2>2 DEF PageOf
<1>7. (LineOf(e) + 1) \div k \in {LineOf(e) \div k, (LineOf(e) \div k) + 1}
  BY <1>1, <1>4, NextQuotient
<1>8. QED BY <1>3, <1>5, <1>6, <1>7

\* Where a block's bytes lie: in two lines when it is masked byte by byte, else in two pages.
Spans(b, S) ==
  \A x \in S : IF b \in byByte THEN LineOf(x) \in {LineOf(entry[b]), LineOf(entry[b]) + 1}
                             ELSE PageOf(x) \in {PageOf(entry[b]), PageOf(entry[b]) + 1}

\* The two parts of what a block covers lie in its two pages.
LEMMA PartsLie ==
  ASSUME NEW b, entry[b] \in Entries, NEW S \in SUBSET Bytes, Spans(b, S)
  PROVE  /\ S \cap FirstPart(b) \subseteq PageBytes(PageOf(entry[b]))
         /\ S \ FirstPart(b) \subseteq PageBytes(SecondPage(b))
<1> DEFINE e == entry[b]
<1>1. e \in Bytes BY CodeCacheAssumption
<1> HIDE DEF e
<1>2. ASSUME b \in byByte, NEW x \in S
      PROVE  /\ LineOf(x) = LineOf(e) => PageOf(x) = PageOf(e)
             /\ LineOf(x) # LineOf(e) => PageOf(x) = ((LineOf(e) + 1) * LineSize) \div PageSize
  <2>1. x \in Bytes /\ LineOf(x) \in {LineOf(e), LineOf(e) + 1} BY <1>2 DEF Spans, e
  <2>2. QED BY <1>1, <2>1, Geometry
<1>3. CASE b \in byByte
  BY <1>2, <1>3 DEF FirstPart, SecondPage, PageBytes, e
<1>4. CASE b \notin byByte
  BY <1>4 DEF Spans, FirstPart, SecondPage, PageBytes
<1>5. QED BY <1>3, <1>4

\* A block's code, and what marking it covers.
LEMMA Covers ==
  ASSUME NEW b, entry[b] \in Entries
  PROVE  /\ Body(b) \in SUBSET Bytes /\ Marked(b) \in SUBSET Bytes
         /\ Body(b) \subseteq Marked(b) /\ entry[b] \in Body(b) /\ Spans(b, Marked(b))
         /\ LET reached == WholeLines(Within(b, Reach[entry[b]]))
            IN  reached \in SUBSET Bytes /\ entry[b] \in reached /\ Spans(b, reached)
<1> DEFINE e == entry[b]
           R == Within(b, Reach[e])
<1>1. /\ e \in Bytes /\ Reach[e] \in SUBSET Bytes
      /\ e \in Opcodes[e] /\ Opcodes[e] \cup Immediates[e] \subseteq Reach[e]
      /\ \A x \in Reach[e] : PageOf(x) \in {PageOf(e), PageOf(e) + 1}
  BY CodeCacheAssumption
<1>2. /\ R \in SUBSET Bytes /\ e \in R /\ Spans(b, R)
      /\ Body(b) \subseteq R /\ e \in Body(b)
  BY <1>1 DEF Body, Within, Spans
<1> HIDE DEF e, R
<1>3. ASSUME NEW T \in SUBSET R
      PROVE  /\ WholeLines(T) \in SUBSET Bytes /\ T \subseteq WholeLines(T)
             /\ Spans(b, WholeLines(T))
  <2>1. WholeLines(T) \in SUBSET Bytes /\ T \subseteq WholeLines(T) BY <1>2 DEF WholeLines
  <2>2. ASSUME NEW x \in WholeLines(T)
        PROVE  IF b \in byByte THEN LineOf(x) \in {LineOf(entry[b]), LineOf(entry[b]) + 1}
                               ELSE PageOf(x) \in {PageOf(entry[b]), PageOf(entry[b]) + 1}
    <3>1. PICK y \in T : LineOf(y) = LineOf(x) BY DEF WholeLines
    <3>2. x \in Bytes /\ y \in Bytes /\ y \in R BY <1>2, <2>1
    <3>3. PageOf(x) = PageOf(y) BY <3>1, <3>2, Geometry
    <3>4. QED BY <1>2, <3>1, <3>2, <3>3 DEF Spans
  <2>3. QED BY <2>1, <2>2 DEF Spans
<1>4. Marked(b) = Body(b) \/ Marked(b) = WholeLines(Body(b))
  BY DEF Marked
<1>5. Spans(b, Body(b)) BY <1>2 DEF Spans
<1>6. /\ Body(b) \in SUBSET R /\ R \in SUBSET R
      /\ WholeLines(R) = WholeLines(Within(b, Reach[entry[b]])) /\ e = entry[b]
  BY <1>2 DEF e, R
<1>7. /\ Body(b) \in SUBSET Bytes /\ Marked(b) \in SUBSET Bytes
      /\ Body(b) \subseteq Marked(b) /\ e \in Body(b) /\ Spans(b, Marked(b))
  <2>1. CASE Marked(b) = Body(b) BY <1>2, <1>5, <1>6, <2>1
  <2>2. CASE Marked(b) = WholeLines(Body(b)) BY <1>2, <1>3, <1>6, <2>2
  <2>3. QED BY <1>4, <2>1, <2>2
<1>8. WholeLines(R) \in SUBSET Bytes /\ e \in WholeLines(R) /\ Spans(b, WholeLines(R))
  BY <1>2, <1>3, <1>6
<1>9. QED BY <1>6, <1>7, <1>8

\* What an untouched block was, it is.
LEMMA SameBlock ==
  ASSUME NEW b, entry'[b] = entry[b], b \in byByte' <=> b \in byByte, b \in noImm' <=> b \in noImm
  PROVE  /\ Body(b)' = Body(b) /\ FirstPart(b)' = FirstPart(b)
         /\ SecondPage(b)' = SecondPage(b) /\ Marked(b)' = Marked(b)
<1>1. Body(b)' = Body(b) BY DEF Body, Within
<1>2. FirstPart(b)' = FirstPart(b) BY DEF FirstPart
<1>3. SecondPage(b)' = SecondPage(b) BY DEF SecondPage
<1>4. Marked(b)' = Marked(b) BY <1>1 DEF Marked
<1>5. QED BY <1>1, <1>2, <1>3, <1>4

\* A block with a second part has a second page.
LEMMA SecondIsPage ==
  ASSUME NEW b, Masked(b), entry[b] # NoEntry, ~Open(b), ~Refining(b), mask2[b] # {}
  PROVE  SecondPage(b) \in Pages
<1>1. PICK x \in Bytes : PageOf(x) = SecondPage(b)
  BY DEF Masked, PageBytes
<1>2. QED BY <1>1, Geometry

\* A step that leaves a block alone leaves its place and its masks right.
LEMMA SoundKept ==
  ASSUME NEW b \in Blocks, Placed(b), Masked(b), Untouched(b), entry[b] \in Entries \cup {NoEntry}
  PROVE  Placed(b)' /\ Masked(b)'
<1>1. /\ FirstPart(b)' = FirstPart(b) /\ SecondPage(b)' = SecondPage(b) /\ Marked(b)' = Marked(b)
  BY SameBlock DEF Untouched
<1>2. PageOf(entry[b])' = PageOf(entry[b]) /\ PageBytes(PageOf(entry[b]))' = PageBytes(PageOf(entry[b]))
      /\ PageBytes(SecondPage(b))' = PageBytes(SecondPage(b))
  BY <1>1 DEF Untouched
<1>3. entry[b] # NoEntry => PageOf(entry[b]) \in Pages
  <2>1. Entries \subseteq Bytes BY CodeCacheAssumption
  <2>2. QED BY <2>1, Geometry
<1>4. InPages(b)' <=> InPages(b)
  BY <1>3 DEF InPages, Untouched
<1>5. Placed(b)'
  <2>1. (b \in free <=> entry[b] = NoEntry)' BY DEF Placed, Untouched
  <2>2. (\A p \in Pages : b \in first[p] => entry[b] # NoEntry /\ p = PageOf(entry[b]))'
    BY DEF Placed, Untouched
  <2>3. (\A p \in Pages : b \in second[p] => InPages(b) /\ p = SecondPage(b))'
    BY <1>1, <1>4 DEF Placed, Untouched
  <2>4. (InPages(b) => ~InDirtyList(b) /\ ~Open(b))' /\ (InDirtyList(b) => entry[b] # NoEntry /\ ~Open(b))'
    BY <1>4 DEF Placed, Untouched
  <2>5. ASSUME entry'[b] # NoEntry /\ ~InDirtyList(b)' /\ ~Open(b)'
        PROVE  InPages(b)' /\ (mask2[b] # {} /\ ~(at = "compiling" /\ b = cur) => b \in second[SecondPage(b)])'
    <3>1. entry[b] # NoEntry /\ ~InDirtyList(b) /\ ~Open(b) BY <2>5 DEF Untouched
    <3>2. InPages(b)' BY <1>4, <3>1 DEF Placed
    <3>3. ASSUME mask2'[b] # {}, ~(at = "compiling" /\ b = cur)' PROVE b \in second'[SecondPage(b)']
      <4>1. b \in second[SecondPage(b)] BY <3>1, <3>3 DEF Placed, Untouched
      <4>2. ~Refining(b) BY <3>1 DEF Refining
      <4>3. SecondPage(b) \in Pages BY <3>1, <3>3, <4>2, SecondIsPage DEF Untouched
      <4>4. QED BY <1>1, <4>1, <4>3 DEF Untouched
    <3>4. QED BY <3>2, <3>3
  <2>6. QED BY <2>1, <2>2, <2>3, <2>4, <2>5 DEF Placed
<1>6. Masked(b)'
  <2>1. Live(b)' => Live(b) BY DEF Live, Untouched
  <2>2. QED BY <1>1, <1>2, <2>1 DEF Masked, Untouched
<1>7. QED BY <1>5, <1>6

\* ... and, if it clears nothing, still marked.
LEMMA StaleKept ==
  ASSUME NEW b \in Blocks, StaleMarked(b), Untouched(b), Unwritten(b)
  PROVE  StaleMarked(b)'
<1>1. MustFlush(b) => MustFlush(b)'
  BY DEF MustFlush, DirtyOf, Untouched, Unwritten
<1>2. MustFlush2(b) => MustFlush2(b)'
  BY DEF MustFlush2, DirtyOf, Untouched, Unwritten
<1>3. QED BY <1>1, <1>2 DEF StaleMarked, Untouched, Unwritten

-----------------------------------------------------------------------------
\* Looking up: steps that change nothing but where exec_recompiler is.
Spots ==
  {"ready", "check1", "walk1", "check2", "walk2", "decide", "compile", "alloc",
   "compiling", "mark", "get", "purge", "purged", "marking"}

LookupTyped ==
  at \in Spots /\ cur \in Blocks \cup {NoBlock} /\ want \in Entries \cup {NoEntry} /\ flush \in Pages

\* A step that moves no block.
LEMMA CalmStep ==
  ASSUME CacheInv, UNCHANGED <<lists, masks, flags, memory, recomp, written, ghosts>>,
         {at, at'} \cap {"marking", "compiling"} = {},
         at \in {"compile", "alloc"} => at' \in {"compile", "alloc"} /\ cur' = cur,
         LookupTyped', direct' \subseteq direct, watched' \subseteq watched
  PROVE  TypeOK' /\ NoTwice(dirtyList)' /\ (\A b \in Blocks : Sound(b)') /\ Memory'
<1>1. /\ entry' = entry /\ free' = free /\ dirtyList' = dirtyList /\ first' = first /\ second' = second
      /\ mask' = mask /\ mask2' = mask2 /\ compiled' = compiled /\ byByte' = byByte /\ noImm' = noImm
      /\ fixedTop' = fixedTop /\ holds' = holds /\ lost' = lost /\ chunks' = chunks
      /\ dirty' = dirty /\ dirtyByte' = dirtyByte /\ stale' = stale /\ unseen' = unseen /\ recomp' = recomp
  BY DEF lists, masks, flags, memory, written, ghosts
<1>2. TypeOK' BY <1>1 DEF CacheInv, TypeOK, LookupTyped, Spots
<1>3. NoTwice(dirtyList)' /\ Memory' BY <1>1 DEF CacheInv, NoTwice, Memory, ChunksAgree
<1>4. ASSUME NEW b \in Blocks PROVE Sound(b)'
  <2>1. Untouched(b) BY <1>1 DEF Untouched, InDirtyList, Open, Refining
  <2>2. Unwritten(b) BY <1>1 DEF Unwritten
  <2>3. entry[b] \in Entries \cup {NoEntry} BY DEF CacheInv, TypeOK
  <2>4. QED BY <2>1, <2>2, <2>3, SoundKept, StaleKept DEF CacheInv, Sound
<1>5. QED BY <1>2, <1>3, <1>4

\* The look-up of a block, up to what becomes of it.
LEMMA LookupStep ==
  ASSUME CacheInv,
         \/ \E e \in Entries : (\E b \in Blocks : Find(e, b)) \/ Miss(e)
         \/ Check1 \/ Check2 \/ Run \/ StartCompile \/ StartMark
         \/ \E p \in Pages : Purge(p)
  PROVE  CacheInv'
<1> DEFINE Calm == /\ UNCHANGED <<lists, masks, flags, memory, recomp, written, ghosts>>
                   /\ {at, at'} \cap {"marking", "compiling"} = {}
                   /\ at \in {"compile", "alloc"} => at' \in {"compile", "alloc"} /\ cur' = cur
                   /\ LookupTyped' /\ direct' \subseteq direct /\ watched' \subseteq watched
<1>1. /\ LookupTyped /\ Control /\ 0 \in Pages
      /\ \A b \in Blocks : entry[b] \in Entries => PageOf(entry[b]) \in Pages
  <2>1. Entries \subseteq Bytes BY CodeCacheAssumption
  <2>2. 0 \in Pages BY Units DEF Pages
  <2>3. QED BY <2>1, <2>2, Geometry DEF CacheInv, TypeOK, LookupTyped, Spots
<1>3. ASSUME NEW e \in Entries, NEW b \in Blocks, Find(e, b) PROVE Calm /\ Control'
  <2>1. Calm BY <1>1, <1>3 DEF Find, LookupTyped, paths, Spots
  <2>2. Control' BY <1>3 DEF Find, Control, lists, Found, Walked
  <2>3. QED BY <2>1, <2>2
<1>4. ASSUME NEW e \in Entries, Miss(e) PROVE Calm /\ Control'
  <2>1. Calm BY <1>1, <1>4 DEF Miss, LookupTyped, paths, Spots
  <2>2. Control' BY <1>4 DEF Miss, Control, lists, Found, Walked
  <2>3. QED BY <2>1, <2>2
<1>5. ASSUME Check1 PROVE Calm /\ Control'
  <2>0. cur \in Blocks /\ want \in Entries /\ entry[cur] = want BY <1>1, <1>5 DEF Check1, Control, Found
  <2>1. Calm BY <1>1, <1>5, <2>0 DEF Check1, LookupTyped, paths, Spots
  <2>2. Control'
    <3>1. /\ entry' = entry /\ mask' = mask /\ byByte' = byByte /\ dirty' = dirty
          /\ dirtyByte' = dirtyByte /\ mask2' = mask2 /\ cur' = cur /\ want' = want
      BY <1>5 DEF Check1, lists, masks, flags, written
    <3>2. MustFlush(cur)' = MustFlush(cur) BY <3>1 DEF MustFlush, DirtyOf
    <3>3. QED BY <1>5, <2>0, <3>1, <3>2 DEF Check1, Control, Found, Walked
  <2>3. QED BY <2>1, <2>2
<1>6. ASSUME Check2 PROVE Calm /\ Control'
  <2>0. /\ cur \in Blocks /\ want \in Entries /\ entry[cur] = want
        /\ ~MustFlush(cur) \/ InDirtyList(cur)
    BY <1>1, <1>6 DEF Check2, Control, Found
  <2>1. MustFlush2(cur) => SecondPage(cur) \in Pages
    <3>1. MustFlush2(cur) => mask2[cur] # {} BY DEF MustFlush2
    <3>2. Masked(cur) /\ entry[cur] # NoEntry /\ ~Open(cur) /\ ~Refining(cur)
      BY <1>6, <2>0, CodeCacheAssumption DEF CacheInv, Sound, Open, Refining, Check2
    <3>3. QED BY <3>1, <3>2, SecondIsPage
  <2>2. Calm BY <1>1, <1>6, <2>1 DEF Check2, LookupTyped, paths, Spots
  <2>3. Control'
    <3>1. /\ entry' = entry /\ mask' = mask /\ byByte' = byByte /\ dirty' = dirty
          /\ dirtyByte' = dirtyByte /\ mask2' = mask2 /\ cur' = cur /\ want' = want
          /\ dirtyList' = dirtyList
      BY <1>6 DEF Check2, lists, masks, flags, written
    <3>2. /\ MustFlush(cur)' = MustFlush(cur) /\ MustFlush2(cur)' = MustFlush2(cur)
          /\ SecondPage(cur)' = SecondPage(cur) /\ InDirtyList(cur)' = InDirtyList(cur)
      BY <3>1 DEF MustFlush, MustFlush2, DirtyOf, SecondPage, InDirtyList
    <3>3. QED BY <1>6, <2>0, <3>1, <3>2 DEF Check2, Control, Found, Walked
  <2>4. QED BY <2>2, <2>3
<1>7. ASSUME Run PROVE Calm /\ Control'
  <2>1. Calm BY <1>1, <1>7 DEF Run, Back, LookupTyped, paths, Spots
  <2>2. Control' BY <1>7 DEF Run, Back, Control, Found, Walked
  <2>3. QED BY <2>1, <2>2
<1>8. ASSUME StartCompile PROVE Calm /\ Control'
  <2>1. Calm BY <1>1, <1>8 DEF StartCompile, LookupTyped, paths, Spots, Unwatch
  <2>2. Control' BY <1>1, <1>8 DEF StartCompile, Control, lists, Found, Walked
  <2>3. QED BY <2>1, <2>2
<1>9. ASSUME StartMark PROVE Calm /\ Control'
  <2>1. Calm BY <1>1, <1>9 DEF StartMark, LookupTyped, paths, Spots, Unwatch
  <2>2. Control' BY <1>1, <1>9 DEF StartMark, Control, lists, Found, Walked
  <2>3. QED BY <2>1, <2>2
<1>10. ASSUME NEW p \in Pages, Purge(p) PROVE Calm /\ Control'
  <2>1. Calm BY <1>1, <1>10 DEF Purge, LookupTyped, paths, Spots
  <2>2. Control' BY <1>1, <1>10 DEF Purge, Control, lists, Found, Walked
  <2>3. QED BY <2>1, <2>2
<1>11. Calm /\ Control' BY <1>3, <1>4, <1>5, <1>6, <1>7, <1>8, <1>9, <1>10
<1>12. QED BY <1>11, CalmStep DEF CacheInv

-----------------------------------------------------------------------------
\* Writes: a page that notes one marks every translation made from the byte.
Noted(x) ==
  /\ UNCHANGED <<lookup, lists, masks, flags, memory, recomp>>
  /\ dirty \subseteq dirty' /\ dirtyByte \subseteq dirtyByte' /\ x \in dirty'
  /\ dirty' \subseteq Bytes /\ dirtyByte' \subseteq Bytes
  /\ stale' \subseteq stale \cup Made(x)
  /\ \A b \in stale' \ stale : b \in byByte => x \in dirtyByte'
  /\ unseen' \subseteq Blocks
  /\ direct' \subseteq Views /\ watched' \subseteq Views

\* A write that the page takes note of.
LEMMA NotedStep ==
  ASSUME CacheInv, GuestRuns, NEW x \in Bytes, Noted(x)
  PROVE  CacheInv'
<1>1. /\ at' = at /\ cur' = cur /\ want' = want /\ flush' = flush
      /\ entry' = entry /\ free' = free /\ dirtyList' = dirtyList /\ first' = first /\ second' = second
      /\ mask' = mask /\ mask2' = mask2 /\ compiled' = compiled /\ byByte' = byByte /\ noImm' = noImm
      /\ fixedTop' = fixedTop /\ holds' = holds /\ lost' = lost /\ chunks' = chunks /\ recomp' = recomp
  BY DEF Noted, lookup, lists, masks, flags, memory
<1>2. stale' \subseteq Blocks
  BY DEF Noted, Made, CacheInv, TypeOK
<1>3. TypeOK' BY <1>1, <1>2 DEF CacheInv, TypeOK, Noted
<1>4. NoTwice(dirtyList)' /\ Memory' BY <1>1 DEF CacheInv, NoTwice, Memory, ChunksAgree
<1>5. ASSUME NEW b \in Blocks PROVE Sound(b)'
  <2>1. Sound(b) /\ entry[b] \in Entries \cup {NoEntry} BY DEF CacheInv, TypeOK
  <2>2. Untouched(b) BY <1>1 DEF Untouched, InDirtyList, Open, Refining
  <2>3. Placed(b)' /\ Masked(b)' BY <2>1, <2>2, SoundKept DEF Sound
  <2>4. CASE b \in stale
    <3>1. Unwritten(b) BY <2>4 DEF Unwritten, Noted
    <3>2. QED BY <2>1, <2>2, <2>3, <3>1, StaleKept DEF Sound
  <2>5. CASE b \notin stale
    <3> SUFFICES ASSUME b \in stale', b \in compiled', ~(InDirtyList(b) /\ ~(at = "compiling" /\ b = cur))
        PROVE  MustFlush(b)' \/ MustFlush2(b)'
      BY <1>1, <2>3 DEF Sound, StaleMarked, InDirtyList
    <3>1. b \in compiled /\ x \in Body(b) /\ (b \in byByte => x \in dirtyByte') /\ x \in dirty'
      BY <2>5 DEF Noted, Made
    <3>2. entry[b] \in Entries BY <2>1, <3>1 DEF Sound, Masked
    <3>3. Live(b) BY <3>1 DEF Live
    <3>4. x \in mask[b] \cup mask2[b] BY <2>1, <3>1, <3>2, <3>3, Covers DEF Sound, Masked
    <3>5. QED BY <1>1, <3>1, <3>4 DEF MustFlush, MustFlush2, DirtyOf
  <2>6. QED BY <2>4, <2>5
<1>6. Control'
  <2>1. at \notin Walked /\ at \notin {"check2", "decide", "walk1", "walk2"} BY DEF GuestRuns, Walked
  <2>2. QED BY <1>1, <2>1 DEF CacheInv, Control
<1>7. QED BY <1>3, <1>4, <1>5, <1>6 DEF CacheInv

\* The guest's writes.
LEMMA GuestStep ==
  ASSUME CacheInv,
         \/ \E v \in Views, x \in Bytes : WriteWatched(v, x) \/ WriteDirect(v, x) \/ WriteFirst(v, x)
         \/ \E v \in Views : Forget(v)
         \/ \E x \in Bytes : BusMaster(x)
  PROVE  CacheInv'
<1>1. \A x \in Bytes : x \in WholeLines({x}) /\ WholeLines({x}) \subseteq Bytes /\ Made(x) \subseteq Blocks
  BY DEF WholeLines, Made, CacheInv, TypeOK
<1>2. ASSUME NEW v \in Views, NEW x \in Bytes, WriteWatched(v, x) \/ WriteFirst(v, x)
      PROVE  CacheInv'
  <2>1. GuestRuns /\ Note(x) BY <1>2 DEF WriteWatched, WriteFirst
  <2>2. UNCHANGED <<lookup, lists, masks, flags, memory, recomp>> BY <1>2 DEF WriteWatched, WriteFirst
  <2>3. direct' \subseteq Views /\ watched' \subseteq Views
    BY <1>2 DEF WriteWatched, WriteFirst, paths, CacheInv, TypeOK
  <2>4. Noted(x) BY <1>1, <2>1, <2>2, <2>3 DEF Noted, Note, CacheInv, TypeOK
  <2>5. QED BY <2>1, <2>4, NotedStep
<1>3. ASSUME NEW x \in Bytes, BusMaster(x) PROVE CacheInv'
  <2>1. Noted(x)
    <3>1. UNCHANGED <<lookup, lists, masks, flags, memory, recomp>> /\ dirtyByte' = dirtyByte
          /\ direct' = direct /\ watched' = watched
      BY <1>3 DEF BusMaster, paths
    <3>2. /\ dirty' = dirty \cup WholeLines({x}) /\ stale' = stale \cup (Made(x) \ byByte)
          /\ unseen' = unseen \cup ((Made(x) \cap byByte) \ {cur})
      BY <1>3 DEF BusMaster
    <3>3. QED BY <1>1, <3>1, <3>2 DEF Noted, CacheInv, TypeOK
  <2>2. QED BY <1>3, <2>1, NotedStep DEF BusMaster
<1>4. ASSUME NEW v \in Views, (\E x \in Bytes : WriteDirect(v, x)) \/ Forget(v)
      PROVE  CacheInv'
  <2>1. /\ at' = at /\ cur' = cur /\ want' = want /\ flush' = flush
        /\ entry' = entry /\ free' = free /\ dirtyList' = dirtyList /\ first' = first /\ second' = second
        /\ mask' = mask /\ mask2' = mask2 /\ compiled' = compiled /\ byByte' = byByte /\ noImm' = noImm
        /\ fixedTop' = fixedTop /\ holds' = holds /\ lost' = lost /\ chunks' = chunks /\ recomp' = recomp
        /\ dirty' = dirty /\ dirtyByte' = dirtyByte /\ stale' = stale
    BY <1>4 DEF WriteDirect, Forget, lookup, lists, masks, flags, memory, written, ghosts
  <2>2. unseen' \subseteq Blocks /\ direct' \subseteq Views /\ watched' \subseteq Views
    BY <1>1, <1>4 DEF WriteDirect, Forget, paths, ghosts, CacheInv, TypeOK
  <2>3. TypeOK' BY <2>1, <2>2 DEF CacheInv, TypeOK
  <2>4. NoTwice(dirtyList)' /\ Memory' BY <2>1 DEF CacheInv, NoTwice, Memory, ChunksAgree
  <2>5. ASSUME NEW b \in Blocks PROVE Sound(b)'
    <3>1. Sound(b) /\ entry[b] \in Entries \cup {NoEntry} BY DEF CacheInv, TypeOK
    <3>2. Untouched(b) /\ Unwritten(b) BY <2>1 DEF Untouched, Unwritten, InDirtyList, Open, Refining
    <3>3. QED BY <3>1, <3>2, SoundKept, StaleKept DEF Sound
  <2>6. Control'
    <3>1. at \notin {"check2", "decide", "walk1", "walk2"} BY <1>4 DEF WriteDirect, Forget, GuestRuns
    <3>2. QED BY <2>1, <3>1 DEF CacheInv, Control, Walked
  <2>7. QED BY <2>3, <2>4, <2>5, <2>6 DEF CacheInv
<1>5. QED BY <1>2, <1>3, <1>4

\* A walk ends when no block of the page is left that what was written affects.
LEMMA WalkEndsStep == ASSUME CacheInv, WalkEnds PROVE CacheInv'
<1>1. /\ at \in Walking /\ Affected = {} /\ flush \in Pages
      /\ dirty' = dirty \ PageBytes(flush) /\ dirtyByte' = dirtyByte \ PageBytes(flush)
      /\ cur' = cur /\ want' = want /\ flush' = 0
      /\ entry' = entry /\ free' = free /\ dirtyList' = dirtyList /\ first' = first /\ second' = second
      /\ mask' = mask /\ mask2' = mask2 /\ compiled' = compiled /\ byByte' = byByte /\ noImm' = noImm
      /\ fixedTop' = fixedTop /\ holds' = holds /\ lost' = lost /\ chunks' = chunks /\ recomp' = recomp
      /\ direct' = direct /\ watched' = watched /\ stale' = stale /\ unseen' = unseen
  BY DEF WalkEnds, lists, masks, flags, memory, paths, ghosts, CacheInv, TypeOK
<1>2. /\ \A b \in first[flush] : ~MustFlush(b)
      /\ \A b \in second[flush] : ~MustFlush2(b)
  BY <1>1 DEF Affected
<1>3. at' \in {"purged", "mark", "check2", "decide"} /\ at \in {"walk1", "walk2", "purge"}
  BY <1>1 DEF WalkEnds, Walking
<1>4. TypeOK'
  <2>1. 0 \in Pages BY Units DEF Pages
  <2>2. QED BY <1>1, <1>3, <2>1 DEF CacheInv, TypeOK
<1>5. NoTwice(dirtyList)' /\ Memory' BY <1>1 DEF CacheInv, NoTwice, Memory, ChunksAgree
<1>6. ASSUME NEW b \in Blocks PROVE Sound(b)'
  <2>1. Sound(b) /\ entry[b] \in Entries \cup {NoEntry} BY DEF CacheInv, TypeOK
  <2>2. Untouched(b) BY <1>1, <1>3 DEF Untouched, InDirtyList, Open, Refining
  <2>3. Placed(b)' /\ Masked(b)' BY <2>1, <2>2, SoundKept DEF Sound
  <2>4. StaleMarked(b)'
    <3> SUFFICES ASSUME b \in stale, b \in compiled, ~InDirtyList(b)
        PROVE  MustFlush(b)' \/ MustFlush2(b)'
      BY <1>1, <1>3 DEF StaleMarked, InDirtyList
    <3>1. entry[b] \in Entries /\ entry[b] # NoEntry /\ ~Open(b) /\ ~Refining(b)
      BY <1>3, <2>1 DEF Sound, Masked, Open, Refining
    <3>2. /\ InPages(b) /\ mask2[b] # {} => b \in second[SecondPage(b)]
          /\ InPages(b)
          /\ mask[b] \subseteq PageBytes(PageOf(entry[b])) /\ mask2[b] \subseteq PageBytes(SecondPage(b))
      BY <1>3, <2>1, <3>1 DEF Sound, Placed, Masked
    <3>3. MustFlush(b) \/ MustFlush2(b)
      BY <2>1 DEF Sound, StaleMarked
    <3>4. DirtyOf(b)' = DirtyOf(b) \ PageBytes(flush)
      BY <1>1 DEF DirtyOf
    <3>5. \A p : p # flush => PageBytes(p) \cap PageBytes(flush) = {}
      BY DEF PageBytes
    <3>6. CASE MustFlush(b)
      <4>1. PageOf(entry[b]) # flush BY <1>2, <3>2, <3>6 DEF InPages
      <4>2. mask[b] \cap PageBytes(flush) = {} BY <3>2, <3>5, <4>1
      <4>3. QED BY <1>1, <3>4, <3>6, <4>2 DEF MustFlush
    <3>7. CASE MustFlush2(b)
      <4>1. mask2[b] # {} BY <3>7 DEF MustFlush2
      <4>2. SecondPage(b) # flush BY <1>2, <3>2, <3>7, <4>1
      <4>3. mask2[b] \cap PageBytes(flush) = {} BY <3>2, <3>5, <4>2
      <4>4. QED BY <1>1, <3>4, <3>7, <4>3 DEF MustFlush2
    <3>8. QED BY <3>3, <3>6, <3>7
  <2>5. QED BY <2>3, <2>4 DEF Sound
<1>7. Control'
  <2>1. \A b \in Blocks : /\ MustFlush(b)' => MustFlush(b)
                          /\ MustFlush2(b)' => MustFlush2(b)
    BY <1>1 DEF MustFlush, MustFlush2, DirtyOf
  <2>2. InDirtyList(cur)' = InDirtyList(cur) BY <1>1 DEF InDirtyList
  <2>3. CASE at = "purge"
    <3>1. at' = "purged" BY <2>3 DEF WalkEnds
    <3>2. QED BY <1>1, <2>3, <3>1 DEF CacheInv, Control, Found, Walked
  <2>4. CASE at # "purge" /\ GivenUp
    <3>1. at' = "mark" BY <1>3, <2>4 DEF WalkEnds
    <3>2. QED BY <1>1, <1>3, <2>4, <3>1 DEF CacheInv, Control, Found, Walked
  <2>5. CASE at # "purge" /\ ~GivenUp
    <3>1. at \in {"walk1", "walk2"} /\ at' = (IF at = "walk1" THEN "check2" ELSE "decide")
      BY <1>3, <2>5 DEF WalkEnds
    <3>2. /\ cur \in Blocks /\ want \in Entries /\ entry[cur] = want /\ want # NoEntry
          /\ at = "walk1" => flush = PageOf(want)
          /\ at = "walk2" => flush = SecondPage(cur) /\ (~MustFlush(cur) \/ InDirtyList(cur))
      BY <2>5, <3>1 DEF CacheInv, Control, Walked, GivenUp
    <3>3. ~InDirtyList(cur) => /\ cur \in first[PageOf(want)]
                               /\ mask2[cur] # {} => cur \in second[SecondPage(cur)]
      <4>1. ~Open(cur) /\ at # "compiling" BY <1>3 DEF Open
      <4>2. Placed(cur) BY <3>2 DEF CacheInv, Sound
      <4>3. QED BY <3>2, <4>1, <4>2 DEF Placed, InPages
    <3>4. at = "walk1" => ~MustFlush(cur) \/ InDirtyList(cur)
      BY <1>2, <3>2, <3>3
    <3>5. at = "walk2" => ~MustFlush2(cur) \/ InDirtyList(cur)
      BY <1>2, <3>2, <3>3 DEF MustFlush2
    <3>6. MustFlush(cur)' => MustFlush(cur)
      BY <1>1 DEF MustFlush, DirtyOf
    <3>7. MustFlush2(cur)' => MustFlush2(cur)
      BY <1>1 DEF MustFlush2, DirtyOf
    <3>8. QED BY <1>1, <2>2, <3>1, <3>2, <3>4, <3>5, <3>6, <3>7 DEF Control, Found, Walked
  <2>6. QED BY <2>3, <2>4, <2>5
<1>8. QED BY <1>4, <1>5, <1>6, <1>7 DEF CacheInv

-----------------------------------------------------------------------------
\* Blocks that a step leaves alone, and blocks that it frees.
LEMMA Kept ==
  ASSUME CacheInv, NEW b \in Blocks, Untouched(b), Unwritten(b)
  PROVE  Sound(b)'
<1>1. Sound(b) /\ entry[b] \in Entries \cup {NoEntry} BY DEF CacheInv, TypeOK
<1>2. QED BY <1>1, SoundKept, StaleKept DEF Sound

\* A free block.
LEMMA FreeIsSound ==
  ASSUME NEW b \in Blocks, entry'[b] = NoEntry, b \in free', b \notin compiled', ~InDirtyList(b)',
         \A p \in Pages : b \notin first'[p] /\ b \notin second'[p]
  PROVE  Sound(b)'
<1>1. ~InPages(b)' BY DEF InPages
<1>2. Placed(b)' BY <1>1 DEF Placed
<1>3. Masked(b)' BY DEF Masked, Live
<1>4. StaleMarked(b)' BY DEF StaleMarked
<1>5. QED BY <1>2, <1>3, <1>4 DEF Sound

\* At first every block is free.
LEMMA InitInv == Init => CacheInv
<1> SUFFICES ASSUME Init PROVE CacheInv OBVIOUS
<1>1. TypeOK
  <2>1. 0 \in Pages BY Units DEF Pages
  <2>2. Chunks \in 0..Chunks /\ MaxDirty \in Nat BY CodeCacheAssumption
  <2>3. << >> \in Seq(Blocks) /\ Len(<< >>) = 0 OBVIOUS
  <2>4. dirtyList \in Seq(Blocks) /\ Len(dirtyList) <= MaxDirty BY <2>2, <2>3 DEF Init
  <2>5. QED BY <2>1, <2>2, <2>4 DEF Init, TypeOK
<1>2. Len(dirtyList) = 0 BY DEF Init
<1>3. NoTwice(dirtyList) BY <1>2 DEF NoTwice
<1>4. ASSUME NEW b \in Blocks PROVE Sound(b)
  <2>1. /\ entry[b] = NoEntry /\ b \in free /\ b \notin compiled
        /\ \A p \in Pages : b \notin first[p] /\ b \notin second[p]
    BY DEF Init
  <2>2. ~InDirtyList(b) BY <1>2 DEF InDirtyList
  <2>3. QED BY <2>1, <2>2 DEF Sound, Placed, InPages, Masked, Live, StaleMarked
<1>5. Control BY DEF Init, Control, Found, Walked
<1>6. Memory
  <2>1. holds = {} /\ chunks = Chunks /\ Chunks \in Nat BY CodeCacheAssumption DEF Init
  <2>2. QED BY <2>1, FS_EmptySet DEF Memory, ChunksAgree
<1>7. QED BY <1>1, <1>3, <1>4, <1>5, <1>6 DEF CacheInv

\* Taking a block out of the lists of its pages.
LEMMA UnlistIs ==
  ASSUME CacheInv, NEW b \in Blocks, entry[b] # NoEntry, ~InDirtyList(b), Unlist(b)
  PROVE  /\ first' \in [Pages -> SUBSET Blocks] /\ second' \in [Pages -> SUBSET Blocks]
         /\ direct' \subseteq Views /\ watched' \subseteq Views
         /\ \A p \in Pages : b \notin first'[p] /\ b \notin second'[p]
         /\ \A c \in Blocks : c # b =>
              \A p \in Pages : (c \in first'[p] <=> c \in first[p]) /\ (c \in second'[p] <=> c \in second[p])
<1>1. /\ first \in [Pages -> SUBSET Blocks] /\ second \in [Pages -> SUBSET Blocks]
      /\ direct \subseteq Views /\ watched \subseteq Views
      /\ Placed(b) /\ Masked(b)
  BY DEF CacheInv, TypeOK, Sound
<1>2. \A p \in Pages : /\ b \in first[p] => p = PageOf(entry[b]) /\ InPages(b)
                       /\ b \in second[p] => InPages(b)
  BY <1>1 DEF Placed, InPages
<1>3. CASE Listed(b)
  <2>1. /\ first' = [first EXCEPT ![PageOf(entry[b])] = @ \ {b}]
        /\ second' = [p \in Pages |-> second[p] \ {b}]
        /\ direct' \subseteq direct /\ watched' \subseteq watched
    BY <1>3 DEF Unlist, Unwatch
  <2>2. QED BY <1>1, <1>2, <2>1
<1>4. CASE ~Listed(b)
  <2>1. first' = first /\ second' = second /\ direct' = direct /\ watched' = watched
    BY <1>4 DEF Unlist, paths
  <2>2. ~InPages(b)
    <3>1. Open(b) BY <1>1, <1>4 DEF Masked, Listed
    <3>2. QED BY <1>1, <3>1 DEF Placed
  <2>3. QED BY <1>1, <1>2, <2>1, <2>2
<1>5. QED BY <1>3, <1>4

\* Giving a block's memory back.
LEMMA ReleaseIs ==
  ASSUME CacheInv, NEW b \in Blocks, Release(b)
  PROVE  /\ holds' \subseteq Blocks /\ lost' \subseteq Blocks /\ chunks' \in 0..Chunks /\ Memory'
         /\ \A c \in Blocks : c # b /\ c \in holds => c \in holds'
<1>1. /\ holds' = holds \ {b} /\ chunks' = chunks + (IF b \in holds THEN 1 ELSE 0) /\ lost' = lost
      /\ holds \subseteq Blocks /\ lost \subseteq Blocks /\ chunks \in 0..Chunks /\ Chunks \in Nat
      /\ IsFiniteSet(holds) /\ chunks + Cardinality(holds) <= Chunks
  BY CodeCacheAssumption DEF Release, CacheInv, TypeOK, Memory, ChunksAgree
<1>2. /\ IsFiniteSet(holds \ {b}) /\ Cardinality(holds \ {b}) \in Nat
      /\ Cardinality(holds \ {b}) = IF b \in holds THEN Cardinality(holds) - 1 ELSE Cardinality(holds)
  BY <1>1, FS_RemoveElement, FS_CardinalityType
<1>3. Cardinality(holds) \in Nat BY <1>1, FS_CardinalityType
<1>4. chunks' \in 0..Chunks /\ chunks' + Cardinality(holds \ {b}) <= Chunks
  BY <1>1, <1>2, <1>3
<1>5. QED BY <1>1, <1>2, <1>4 DEF Memory, ChunksAgree

\* Deleting a block frees it and touches no other.
LEMMA DeleteIs ==
  ASSUME CacheInv, NEW b \in Blocks, entry[b] # NoEntry, Delete(b), UNCHANGED <<masks, written>>,
         LookupTyped', recomp' \in Pages \cup {-1},
         UNCHANGED lookup \/ (cur = b /\ at' = "ready" /\ cur' = NoBlock)
  PROVE  /\ TypeOK' /\ NoTwice(dirtyList)' /\ (\A c \in Blocks : Sound(c)') /\ Memory'
         /\ \A c \in Blocks : c # b => entry'[c] = entry[c]
<1>1. /\ free' = free \cup {b} /\ entry' = [c \in Blocks |-> IF c \in {b} THEN NoEntry ELSE entry[c]]
      /\ compiled' = compiled \ {b} /\ byByte' = byByte \ {b} /\ noImm' = noImm \ {b}
      /\ fixedTop' = fixedTop \ {b} /\ stale' = stale \ {b} /\ unseen' = unseen \ {b}
      /\ mask' = mask /\ mask2' = mask2 /\ dirty' = dirty /\ dirtyByte' = dirtyByte
  BY DEF Delete, Discard, masks, written
<1>2. /\ holds' \subseteq Blocks /\ lost' \subseteq Blocks /\ chunks' \in 0..Chunks /\ Memory'
      /\ \A c \in Blocks : c # b /\ c \in holds => c \in holds'
  <2>1. Release(b) BY DEF Delete
  <2>2. QED BY <2>1, ReleaseIs
<1>3. /\ dirtyList' \in Seq(Blocks) /\ Len(dirtyList') <= MaxDirty /\ NoTwice(dirtyList')
      /\ ~InDirtyList(b)'
      /\ \A c \in Blocks : c # b => (InDirtyList(c)' <=> InDirtyList(c))
  <2>1. dirtyList \in Seq(Blocks) /\ Len(dirtyList) <= MaxDirty /\ NoTwice(dirtyList) /\ MaxDirty \in Nat
    BY CodeCacheAssumption DEF CacheInv, TypeOK
  <2>2. ASSUME InDirtyList(b) PROVE <1>3
    <3>1. dirtyList' = Without(dirtyList, b) BY <2>2 DEF Delete
    <3>2. /\ dirtyList' \in Seq(Blocks) /\ Len(dirtyList') <= Len(dirtyList) /\ NoTwice(dirtyList')
          /\ \A c : Has(dirtyList', c) <=> Has(dirtyList, c) /\ c # b
      BY <2>1, <3>1, WithoutIs
    <3>3. Len(dirtyList') \in Nat /\ Len(dirtyList) \in Nat BY <2>1, <3>2, LenProperties
    <3>4. \A c : (InDirtyList(c) <=> Has(dirtyList, c)) /\ (InDirtyList(c)' <=> Has(dirtyList', c))
      BY DEF InDirtyList, Has
    <3>5. Len(dirtyList') <= MaxDirty BY <2>1, <3>2, <3>3
    <3>6. QED BY <3>2, <3>4, <3>5
  <2>3. ASSUME ~InDirtyList(b) PROVE <1>3
    <3>1. dirtyList' = dirtyList BY <2>3 DEF Delete
    <3>2. QED BY <2>1, <2>3, <3>1 DEF InDirtyList
  <2>4. QED BY <2>2, <2>3
<1>4. /\ first' \in [Pages -> SUBSET Blocks] /\ second' \in [Pages -> SUBSET Blocks]
      /\ direct' \subseteq Views /\ watched' \subseteq Views
      /\ \A p \in Pages : b \notin first'[p] /\ b \notin second'[p]
      /\ \A c \in Blocks : c # b =>
           \A p \in Pages : (c \in first'[p] <=> c \in first[p]) /\ (c \in second'[p] <=> c \in second[p])
  <2>1. ASSUME InDirtyList(b) PROVE <1>4
    <3>1. first' = first /\ second' = second /\ direct' = direct /\ watched' = watched
      BY <2>1 DEF Delete, paths
    <3>2. ~InPages(b) /\ Placed(b) BY <2>1 DEF CacheInv, Sound, Placed
    <3>3. \A p \in Pages : b \notin first[p] /\ b \notin second[p] BY <3>2 DEF Placed, InPages
    <3>4. QED BY <3>1, <3>3 DEF CacheInv, TypeOK
  <2>2. ASSUME ~InDirtyList(b) PROVE <1>4
    <3>1. Unlist(b) BY <2>2 DEF Delete
    <3>2. QED BY <2>2, <3>1, UnlistIs
  <2>3. QED BY <2>1, <2>2
<1>5. TypeOK'
  BY <1>1, <1>2, <1>3, <1>4 DEF CacheInv, TypeOK, LookupTyped, Spots
<1>6. ASSUME NEW c \in Blocks PROVE Sound(c)'
  <2>1. CASE c = b
    BY <1>1, <1>3, <1>4, <2>1, FreeIsSound
  <2>2. CASE c # b
    <3>1. /\ Open(c)' <=> Open(c)
          /\ (at = "compiling" /\ c = cur)' <=> (at = "compiling" /\ c = cur)
          /\ Refining(c) => Refining(c)'
      BY <1>3, <2>2 DEF Open, Refining, lookup
    <3>2. Untouched(c) BY <1>1, <1>2, <1>3, <1>4, <2>2, <3>1 DEF Untouched
    <3>3. Unwritten(c) BY <1>1 DEF Unwritten
    <3>4. QED BY <3>2, <3>3, Kept
  <2>3. QED BY <2>1, <2>2
<1>7. \A c \in Blocks : c # b => entry'[c] = entry[c] BY <1>1
<1>8. QED BY <1>2, <1>3, <1>5, <1>6, <1>7

\* A faulting instruction gives the block in hand up; a chunk, or a block, is taken from
\* another.
LEMMA DeleteSteps ==
  ASSUME CacheInv,
         AbortCompile \/ AbortMark \/ \E b \in Blocks : Reclaim(b) \/ DeleteRandom(b)
  PROVE  CacheInv'
<1>1. LookupTyped /\ Control /\ recomp \in Pages \cup {-1} /\ NoEntry \notin Entries
  BY CodeCacheAssumption DEF CacheInv, TypeOK, LookupTyped, Spots
<1>2. ASSUME AbortCompile \/ AbortMark PROVE CacheInv'
  <2>1. /\ at \in {"compiling", "marking"} /\ at' = "ready" /\ cur' = NoBlock /\ want' = NoEntry
        /\ flush' = flush /\ recomp' = -1 /\ Delete(cur) /\ UNCHANGED <<masks, written>>
    BY <1>2 DEF AbortCompile, AbortMark, Back
  <2>2. cur \in Blocks /\ entry[cur] # NoEntry
    BY <1>1, <2>1 DEF Control, Found
  <2>3. LookupTyped' BY <1>1, <2>1 DEF LookupTyped, Spots
  <2>4. TypeOK' /\ NoTwice(dirtyList)' /\ (\A c \in Blocks : Sound(c)') /\ Memory'
    BY <2>1, <2>2, <2>3, DeleteIs
  <2>5. Control' BY <2>1 DEF Control, Found, Walked
  <2>6. QED BY <2>4, <2>5 DEF CacheInv
<1>3. ASSUME NEW b \in Blocks, Reclaim(b) \/ DeleteRandom(b) PROVE CacheInv'
  <2>1. /\ UNCHANGED <<masks, written>> /\ UNCHANGED lookup /\ recomp' = recomp /\ Delete(b)
        /\ entry[b] # NoEntry /\ ((at = "alloc" /\ b # cur) \/ at \in {"get", "purged"})
    BY <1>3 DEF Reclaim, DeleteRandom, Valid
  <2>2. LookupTyped' BY <1>1, <2>1 DEF LookupTyped, Spots, lookup
  <2>3. /\ TypeOK' /\ NoTwice(dirtyList)' /\ (\A c \in Blocks : Sound(c)') /\ Memory'
        /\ \A c \in Blocks : c # b => entry'[c] = entry[c]
    BY <1>1, <2>1, <2>2, DeleteIs
  <2>4. Control' BY <1>1, <2>1, <2>3 DEF Control, Found, Walked, lookup
  <2>5. QED BY <2>3, <2>4 DEF CacheInv
<1>4. QED BY <1>2, <1>3

-----------------------------------------------------------------------------
\* The dirty list gives its oldest block up, and takes a block of the page that a flush
\* walks.
LEMMA ReuseOldestStep == ASSUME CacheInv, ReuseOldest PROVE CacheInv'
<1> DEFINE d == dirtyList[Len(dirtyList)]
<1>1. /\ at = "get" /\ dirtyList # << >>
      /\ dirtyList' = SubSeq(dirtyList, 1, Len(dirtyList) - 1)
      /\ at' = at /\ cur' = cur /\ want' = want /\ flush' = flush
      /\ first' = first /\ second' = second /\ mask' = mask /\ mask2' = mask2
      /\ holds' = holds /\ lost' = lost /\ chunks' = chunks /\ recomp' = recomp
      /\ dirty' = dirty /\ dirtyByte' = dirtyByte /\ direct' = direct /\ watched' = watched
  BY DEF ReuseOldest, lookup, masks, memory, written, paths
<1>2. /\ free' = free \cup {d} /\ entry' = [c \in Blocks |-> IF c \in {d} THEN NoEntry ELSE entry[c]]
      /\ compiled' = compiled \ {d} /\ byByte' = byByte \ {d} /\ noImm' = noImm \ {d}
      /\ fixedTop' = fixedTop \ {d} /\ stale' = stale \ {d} /\ unseen' = unseen \ {d}
  BY DEF ReuseOldest, Discard
<1>3. dirtyList \in Seq(Blocks) /\ Len(dirtyList) <= MaxDirty /\ NoTwice(dirtyList) /\ MaxDirty \in Nat
  BY CodeCacheAssumption DEF CacheInv, TypeOK
<1>4. /\ dirtyList' \in Seq(Blocks) /\ Len(dirtyList') = Len(dirtyList) - 1 /\ NoTwice(dirtyList')
      /\ d \in Blocks /\ Has(dirtyList, d)
      /\ \A c : Has(dirtyList', c) <=> Has(dirtyList, c) /\ c # d
  BY <1>1, <1>3, OldestGone
<1>5. Len(dirtyList') <= MaxDirty
  <2>1. Len(dirtyList) \in Nat BY <1>3, LenProperties
  <2>2. QED BY <1>3, <1>4, <2>1
<1>6. \A c : (InDirtyList(c) <=> Has(dirtyList, c)) /\ (InDirtyList(c)' <=> Has(dirtyList', c))
  BY DEF InDirtyList, Has
<1> HIDE DEF d
<1>7. TypeOK'
  BY <1>1, <1>2, <1>4, <1>5 DEF CacheInv, TypeOK
<1>8. NoTwice(dirtyList)' /\ Memory'
  BY <1>1, <1>4 DEF CacheInv, NoTwice, Memory, ChunksAgree
<1>9. ASSUME NEW c \in Blocks PROVE Sound(c)'
  <2>1. CASE c = d
    <3>1. Placed(c) /\ InDirtyList(c) BY <1>4, <1>6, <2>1 DEF CacheInv, Sound
    <3>2. \A p \in Pages : c \notin first[p] /\ c \notin second[p] BY <3>1 DEF Placed, InPages
    <3>3. QED BY <1>1, <1>2, <1>4, <1>6, <2>1, <3>2, FreeIsSound
  <2>2. CASE c # d
    <3>1. InDirtyList(c)' <=> InDirtyList(c) BY <1>4, <1>6, <2>2
    <3>2. Untouched(c) BY <1>1, <1>2, <2>2, <3>1 DEF Untouched, Open, Refining
    <3>3. Unwritten(c) BY <1>1, <1>2 DEF Unwritten
    <3>4. QED BY <3>2, <3>3, Kept
  <2>3. QED BY <2>1, <2>2
<1>10. Control'
  BY <1>1 DEF CacheInv, Control, Found, Walked
<1>11. QED BY <1>7, <1>8, <1>9, <1>10 DEF CacheInv

\* invalidate_block.
LEMMA InvalidateStep == ASSUME CacheInv, NEW b \in Blocks, Invalidate(b) PROVE CacheInv'
<1> DEFINE longer == <<b>> \o dirtyList
           d == longer[Len(longer)]
           gone == IF Len(longer) > MaxDirty THEN {d} ELSE {}
<1>1. /\ at \in Walking /\ Unlist(b) /\ Release(b)
      /\ at' = at /\ cur' = cur /\ want' = want /\ flush' = flush
      /\ mask' = mask /\ mask2' = mask2 /\ recomp' = recomp
      /\ dirty' = dirty /\ dirtyByte' = dirtyByte
  BY DEF Invalidate, lookup, masks, written
<1>2. Placed(b) /\ Masked(b) /\ InPages(b)
  <2>1. Placed(b) /\ Masked(b) /\ flush \in Pages BY DEF CacheInv, TypeOK, Sound
  <2>2. b \in first[flush] \/ b \in second[flush] BY DEF Invalidate, Affected
  <2>3. QED BY <2>1, <2>2 DEF Placed, InPages
<1>3. entry[b] # NoEntry /\ ~InDirtyList(b) /\ ~Open(b)
  BY <1>2 DEF Placed, InPages
<1>4. /\ first' \in [Pages -> SUBSET Blocks] /\ second' \in [Pages -> SUBSET Blocks]
      /\ direct' \subseteq Views /\ watched' \subseteq Views
      /\ \A p \in Pages : b \notin first'[p] /\ b \notin second'[p]
      /\ \A c \in Blocks : c # b =>
           \A p \in Pages : (c \in first'[p] <=> c \in first[p]) /\ (c \in second'[p] <=> c \in second[p])
  BY <1>1, <1>3, UnlistIs
<1>5. /\ holds' \subseteq Blocks /\ lost' \subseteq Blocks /\ chunks' \in 0..Chunks /\ Memory'
      /\ \A c \in Blocks : c # b /\ c \in holds => c \in holds'
  BY <1>1, ReleaseIs
<1>6. /\ dirtyList \in Seq(Blocks) /\ Len(dirtyList) \in Nat /\ Len(dirtyList) <= MaxDirty
      /\ NoTwice(dirtyList) /\ MaxDirty \in Nat \ {0}
  BY CodeCacheAssumption, LenProperties DEF CacheInv, TypeOK
<1>7. \A c : (InDirtyList(c) <=> Has(dirtyList, c)) /\ (InDirtyList(c)' <=> Has(dirtyList', c))
  BY DEF InDirtyList, Has
<1>8. /\ longer \in Seq(Blocks) /\ Len(longer) = Len(dirtyList) + 1 /\ NoTwice(longer) /\ longer # << >>
      /\ Has(longer, b) /\ (dirtyList # << >> => d # b)
      /\ \A c : Has(longer, c) <=> Has(dirtyList, c) \/ c = b
  BY <1>3, <1>6, <1>7, YoungestAdded
<1>9. /\ dirtyList' \in Seq(Blocks) /\ Len(dirtyList') <= MaxDirty /\ NoTwice(dirtyList')
      /\ gone \subseteq Blocks /\ b \notin gone
      /\ \A c : Has(dirtyList', c) <=> (Has(dirtyList, c) \/ c = b) /\ c \notin gone
      /\ \A c \in gone : Has(dirtyList, c)
  <2>1. CASE Len(longer) > MaxDirty
    <3>1. dirtyList' = SubSeq(longer, 1, Len(longer) - 1) BY <2>1 DEF Invalidate
    <3>2. /\ dirtyList' \in Seq(Blocks) /\ Len(dirtyList') = Len(longer) - 1 /\ NoTwice(dirtyList')
          /\ d \in Blocks /\ Has(longer, d)
          /\ \A c : Has(dirtyList', c) <=> Has(longer, c) /\ c # d
      BY <1>8, <3>1, OldestGone
    <3>3. dirtyList # << >>
      <4>1. Len(dirtyList) # 0 BY <1>6, <1>8, <2>1
      <4>2. QED BY <4>1, EmptySeq
    <3>4. Len(dirtyList') <= MaxDirty BY <1>6, <1>8, <3>2
    <3>5. gone = {d} BY <2>1
    <3> HIDE DEF d, longer, gone
    <3>6. QED BY <1>8, <3>2, <3>3, <3>4, <3>5
  <2>2. CASE ~(Len(longer) > MaxDirty)
    <3>1. dirtyList' = longer BY <2>2 DEF Invalidate
    <3>2. Len(longer) <= MaxDirty BY <1>6, <1>8, <2>2
    <3>3. gone = {} BY <2>2
    <3> HIDE DEF d, longer, gone
    <3>4. QED BY <1>8, <3>1, <3>2, <3>3
  <2>3. QED BY <2>1, <2>2
<1>10. /\ free' = free \cup gone
       /\ \A c \in Blocks : entry'[c] = IF c \in gone THEN NoEntry ELSE entry[c]
       /\ entry' \in [Blocks -> Entries \cup {NoEntry}]
       /\ compiled' = compiled \ gone /\ byByte' = byByte \ gone /\ noImm' = noImm \ gone
       /\ fixedTop' = fixedTop \ gone /\ stale' = stale \ gone /\ unseen' = unseen \ gone
  <2>0. entry \in [Blocks -> Entries \cup {NoEntry}] BY DEF CacheInv, TypeOK
  <2>1. CASE Len(longer) > MaxDirty
    <3>1. gone = {d} /\ Discard({d}) BY <2>1 DEF Invalidate
    <3> HIDE DEF gone, d
    <3>2. QED BY <2>0, <3>1 DEF Discard
  <2>2. CASE ~(Len(longer) > MaxDirty)
    <3>1. gone = {} /\ UNCHANGED <<free, entry, flags, ghosts>> BY <2>2 DEF Invalidate
    <3> HIDE DEF gone
    <3>2. QED BY <2>0, <3>1 DEF flags, ghosts
  <2>3. QED BY <2>1, <2>2
<1> HIDE DEF gone, d, longer
<1>11. TypeOK'
  BY <1>1, <1>4, <1>5, <1>9, <1>10 DEF CacheInv, TypeOK
<1>12. at \in {"walk1", "walk2", "purge"} BY <1>1 DEF Walking
<1>13. ASSUME NEW c \in Blocks PROVE Sound(c)'
  <2>1. CASE c \in gone
    <3>1. Placed(c) /\ InDirtyList(c) /\ c # b BY <1>7, <1>9, <2>1 DEF CacheInv, Sound
    <3>2. \A p \in Pages : c \notin first'[p] /\ c \notin second'[p] BY <1>4, <3>1 DEF Placed, InPages
    <3>3. QED BY <1>7, <1>9, <1>10, <2>1, <3>2, FreeIsSound
  <2>2. CASE c \notin gone /\ c # b
    <3>1. InDirtyList(c)' <=> InDirtyList(c) BY <1>7, <1>9, <2>2
    <3>2. Untouched(c) BY <1>1, <1>4, <1>5, <1>10, <2>2, <3>1 DEF Untouched, Open, Refining
    <3>3. Unwritten(c) BY <1>1, <1>10 DEF Unwritten
    <3>4. QED BY <3>2, <3>3, Kept
  <2>3. CASE c = b
    <3>1. /\ entry'[b] = entry[b] /\ InDirtyList(b)' /\ (b \in free' <=> b \in free)
          /\ (b \in compiled' <=> b \in compiled) /\ (b \in byByte' <=> b \in byByte)
          /\ (b \in noImm' <=> b \in noImm) /\ mask'[b] = mask[b] /\ mask2'[b] = mask2[b]
      BY <1>1, <1>7, <1>9, <1>10
    <3>2. SecondPage(b)' = SecondPage(b) BY <3>1, SameBlock
    <3>3. ~Open(b)' /\ at' # "compiling" /\ ~Refining(b) /\ entry[b] \in Entries
      BY <1>1, <1>3, <1>12 DEF Open, Refining, CacheInv, TypeOK
    <3>4. PageOf(entry[b]) \in Pages
      <4>1. entry[b] \in Bytes BY <3>3, CodeCacheAssumption
      <4>2. QED BY <4>1, Geometry
    <3>5. ~InPages(b)' BY <1>4, <3>1, <3>4 DEF InPages
    <3>6. Placed(b)' BY <1>2, <1>3, <1>4, <3>1, <3>3, <3>5 DEF Placed
    <3>7. PageBytes(PageOf(entry[b]))' = PageBytes(PageOf(entry[b])) /\ PageBytes(SecondPage(b))' = PageBytes(SecondPage(b))
      BY <3>1, <3>2
    <3>8. Masked(b)' BY <1>2, <1>3, <3>1, <3>3, <3>7 DEF Masked, Live
    <3>9. StaleMarked(b)' BY <3>1, <3>3 DEF StaleMarked
    <3>10. QED BY <2>3, <3>6, <3>8, <3>9 DEF Sound
  <2>4. QED BY <2>1, <2>2, <2>3
<1>14. Control'
  <2>0. Control BY DEF CacheInv
  <2>1. CASE at = "purge"
    BY <1>1, <2>0, <2>1 DEF Control, Found, Walked
  <2>2. CASE at \in Walked
    <3>1. cur \in Blocks /\ want \in Entries /\ entry[cur] \in {want, NoEntry} BY <2>0, <2>2 DEF Control
    <3>2. entry'[cur] \in {want, NoEntry} BY <1>10, <3>1
    <3>3. ASSUME at = "walk2", ~GivenUp'
          PROVE  flush' = SecondPage(cur)' /\ (~MustFlush(cur)' \/ InDirtyList(cur)')
      <4>1. entry'[cur] # NoEntry /\ cur' = cur BY <1>1, <3>3 DEF GivenUp
      <4>2. cur \notin gone /\ entry'[cur] = entry[cur] BY <1>10, <3>1, <4>1
      <4>3. /\ mask'[cur] = mask[cur] /\ (cur \in byByte' <=> cur \in byByte) /\ (cur \in noImm' <=> cur \in noImm)
        BY <1>1, <1>10, <4>2
      <4>4. SecondPage(cur)' = SecondPage(cur) BY <1>1, <4>2, <4>3 DEF SecondPage
      <4>5. MustFlush(cur)' <=> MustFlush(cur) BY <1>1, <4>1, <4>3 DEF MustFlush, DirtyOf
      <4>6. InDirtyList(cur) => InDirtyList(cur)'
        <5>1. InDirtyList(cur)' <=> Has(dirtyList', cur) BY <1>1, <1>7 DEF InDirtyList, Has
        <5>2. QED BY <1>7, <1>9, <4>2, <5>1
      <4>7. ~GivenUp BY <4>1, <4>2 DEF GivenUp
      <4>8. QED BY <1>1, <2>0, <3>3, <4>4, <4>5, <4>6, <4>7 DEF Control
    <3>4. QED BY <1>1, <1>12, <2>0, <2>2, <3>1, <3>2, <3>3 DEF Control, Found, Walked
  <2>3. QED BY <1>12, <2>1, <2>2 DEF Walked
<1>15. QED BY <1>5, <1>9, <1>11, <1>13, <1>14 DEF CacheInv, NoTwice

-----------------------------------------------------------------------------
\* The processor is reset: every block is free.
LEMMA ResetStep == ASSUME CacheInv, Reset PROVE CacheInv'
<1>1. /\ at' = "ready" /\ cur' = NoBlock /\ want' = NoEntry /\ flush' = flush
      /\ free' = free \cup Blocks /\ entry' = [b \in Blocks |-> NoEntry]
      /\ compiled' = compiled \ Blocks /\ byByte' = byByte \ Blocks /\ noImm' = noImm \ Blocks
      /\ fixedTop' = fixedTop \ Blocks /\ stale' = stale \ Blocks /\ unseen' = unseen \ Blocks
      /\ dirtyList' = << >> /\ first' = [p \in Pages |-> {}] /\ second' = [p \in Pages |-> {}]
      /\ mask' = [b \in Blocks |-> {}] /\ mask2' = [b \in Blocks |-> {}]
      /\ chunks' = chunks + Cardinality(holds) /\ holds' = {} /\ lost' = lost
      /\ direct' = {} /\ watched' = {} /\ recomp' = recomp /\ dirty' = dirty /\ dirtyByte' = dirtyByte
  BY DEF Reset, Back, Discard, written
<1>2. chunks' \in 0..Chunks /\ Memory'
  <2>1. /\ chunks \in 0..Chunks /\ Chunks \in Nat /\ chunks + Cardinality(holds) <= Chunks
        /\ Cardinality(holds) \in Nat
    BY FS_CardinalityType, CodeCacheAssumption DEF CacheInv, TypeOK, Memory, ChunksAgree
  <2>2. IsFiniteSet(holds') /\ Cardinality(holds') = 0 BY <1>1, FS_EmptySet
  <2>3. chunks' \in 0..Chunks /\ chunks' + 0 <= Chunks BY <1>1, <2>1
  <2>4. QED BY <2>2, <2>3 DEF Memory, ChunksAgree
<1>3. dirtyList' \in Seq(Blocks) /\ Len(dirtyList') = 0 /\ MaxDirty \in Nat
  BY <1>1, CodeCacheAssumption
<1>4. TypeOK'
  <2>1. Len(dirtyList') <= MaxDirty BY <1>3
  <2>2. QED BY <1>1, <1>2, <1>3, <2>1 DEF CacheInv, TypeOK
<1>5. NoTwice(dirtyList)' BY <1>3 DEF NoTwice
<1>6. ASSUME NEW b \in Blocks PROVE Sound(b)'
  <2>1. ~InDirtyList(b)' BY <1>3 DEF InDirtyList
  <2>2. QED BY <1>1, <2>1, FreeIsSound
<1>7. Control' BY <1>1 DEF Control, Found, Walked
<1>8. QED BY <1>2, <1>4, <1>5, <1>6, <1>7 DEF CacheInv

\* Recompiling starts: the block in hand has no translation, and the lists have what
\* they had.
LEMMA RecompileStep == ASSUME CacheInv, Refine \/ Recompile PROVE CacheInv'
<1>1. /\ at = "decide" /\ at' = "compile" /\ cur' = cur /\ want' = want /\ flush' = flush
      /\ entry' = entry /\ free' = free /\ dirtyList' = dirtyList /\ first' = first /\ second' = second
      /\ mask' = mask /\ mask2' = mask2 /\ compiled' = compiled \ {cur}
      /\ stale' = stale \ {cur} /\ unseen' = unseen \ {cur}
      /\ holds' = holds /\ lost' = lost /\ chunks' = chunks /\ recomp' = recomp
      /\ dirty' = dirty /\ dirtyByte' = dirtyByte /\ direct' = direct /\ watched' = watched
  BY DEF Refine, Recompile, Untranslated, lists, masks, memory, written, paths
<1>2. /\ byByte' \in {byByte, byByte \cup {cur}} /\ noImm' \in {noImm, noImm \cup {cur}}
      /\ fixedTop' \in {fixedTop, fixedTop \ {cur}}
      /\ ~InDirtyList(cur) => byByte' = byByte /\ noImm' = noImm
  BY DEF Refine, Recompile
<1>3. cur \in Blocks /\ want \in Entries /\ entry[cur] = want /\ want # NoEntry
  BY <1>1, CodeCacheAssumption DEF CacheInv, Control, Found
<1>4. TypeOK' BY <1>1, <1>2, <1>3 DEF CacheInv, TypeOK
<1>5. NoTwice(dirtyList)' /\ Memory' BY <1>1 DEF CacheInv, NoTwice, Memory, ChunksAgree
<1>6. Control' BY <1>1, <1>3 DEF Control, Found, Walked
<1>7. \A c : InDirtyList(c)' <=> InDirtyList(c) BY <1>1 DEF InDirtyList
<1>8. ASSUME NEW c \in Blocks PROVE Sound(c)'
  <2>1. CASE c # cur
    <3>1. Untouched(c) BY <1>1, <1>2, <1>7, <2>1 DEF Untouched, Open, Refining
    <3>2. Unwritten(c) BY <1>1 DEF Unwritten
    <3>3. QED BY <3>1, <3>2, Kept
  <2>2. CASE c = cur
    <3>1. Placed(c) /\ Masked(c) BY DEF CacheInv, Sound
    <3>2. ~Open(c) /\ ~Open(c)' /\ ~Refining(c) /\ at # "compiling" /\ at' # "compiling" /\ c \notin compiled'
      BY <1>1, <2>2 DEF Open, Refining
    <3>3. (InDirtyList(c) => Refining(c)') /\ (InPages(c)' <=> InPages(c))
      BY <1>1, <1>7, <2>2 DEF Refining, InPages
    <3>4. ~InDirtyList(c) => SecondPage(c)' = SecondPage(c)
      BY <1>1, <1>2, <2>2, SameBlock
    <3>5. InDirtyList(c) => \A p \in Pages : c \notin second[p]
      BY <3>1 DEF Placed
    <3>6. Placed(c)'
      <4>1. CASE InDirtyList(c)
        BY <1>1, <1>7, <3>1, <3>2, <3>3, <3>5, <4>1 DEF Placed
      <4>2. CASE ~InDirtyList(c)
        BY <1>1, <1>7, <3>1, <3>2, <3>3, <3>4, <4>2 DEF Placed
      <4>3. QED BY <4>1, <4>2
    <3>7. Masked(c)'
      <4>1. ~Live(c)' BY <3>2 DEF Live
      <4>2. CASE InDirtyList(c)
        BY <1>1, <3>1, <3>2, <3>3, <4>1, <4>2 DEF Masked
      <4>3. CASE ~InDirtyList(c)
        <5>1. PageBytes(PageOf(entry[c]))' = PageBytes(PageOf(entry[c])) /\ PageBytes(SecondPage(c))' = PageBytes(SecondPage(c))
          BY <1>1, <3>4, <4>3
        <5>2. QED BY <1>1, <3>1, <3>2, <4>1, <5>1 DEF Masked
      <4>4. QED BY <4>2, <4>3
    <3>8. StaleMarked(c)' BY <3>2 DEF StaleMarked
    <3>9. QED BY <3>6, <3>7, <3>8 DEF Sound
  <2>3. QED BY <2>1, <2>2
<1>9. QED BY <1>4, <1>5, <1>6, <1>8 DEF CacheInv

\* The translation is made, and its masks with it.
LEMMA TranslateStep == ASSUME CacheInv, Translate PROVE CacheInv'
<1>1. /\ at = "alloc" /\ at' = "compiling" /\ cur' = cur /\ want' = want /\ flush' = flush
      /\ chunks > 0 /\ chunks' = chunks - 1 /\ holds' = holds \cup {cur}
      /\ lost' = lost \cup ({cur} \cap holds)
      /\ compiled' = compiled \cup {cur} /\ recomp' = PageOf(want)
      /\ mask' = [mask EXCEPT ![cur] = Marked(cur) \cap FirstPart(cur)]
      /\ mask2' = [mask2 EXCEPT ![cur] = Marked(cur) \ FirstPart(cur)]
      /\ stale' = stale \ {cur} /\ unseen' = unseen \ {cur}
      /\ entry' = entry /\ free' = free /\ dirtyList' = dirtyList /\ first' = first /\ second' = second
      /\ byByte' = byByte /\ noImm' = noImm /\ fixedTop' = fixedTop
      /\ dirty' = dirty /\ dirtyByte' = dirtyByte /\ direct' = direct /\ watched' = watched
  BY DEF Translate, lists, written, paths
<1>2. cur \in Blocks /\ want \in Entries /\ entry[cur] = want /\ want # NoEntry
  BY <1>1, CodeCacheAssumption DEF CacheInv, Control, Found
<1>3. /\ Marked(cur) \in SUBSET Bytes /\ want \in Marked(cur) /\ want \in Bytes
      /\ Spans(cur, Marked(cur))
  BY <1>2, Covers
<1>4. /\ Marked(cur) \cap FirstPart(cur) \subseteq PageBytes(PageOf(entry[cur]))
      /\ Marked(cur) \ FirstPart(cur) \subseteq PageBytes(SecondPage(cur))
  BY <1>2, <1>3, PartsLie
<1>5. PageOf(want) \in Pages BY <1>3, Geometry
<1>6. chunks' \in 0..Chunks /\ Memory'
  <2>1. /\ chunks \in 0..Chunks /\ Chunks \in Nat /\ chunks + Cardinality(holds) <= Chunks
        /\ IsFiniteSet(holds)
    BY CodeCacheAssumption DEF CacheInv, TypeOK, Memory, ChunksAgree
  <2>2. /\ IsFiniteSet(holds \cup {cur}) /\ Cardinality(holds) \in Nat
        /\ Cardinality(holds \cup {cur}) = IF cur \in holds THEN Cardinality(holds) ELSE Cardinality(holds) + 1
    BY <2>1, FS_AddElement, FS_CardinalityType
  <2>3. chunks' \in 0..Chunks /\ chunks' + Cardinality(holds \cup {cur}) <= Chunks
    BY <1>1, <2>1, <2>2
  <2>4. QED BY <1>1, <2>2, <2>3 DEF Memory, ChunksAgree
<1>7. TypeOK'
  <2> DEFINE m1 == Marked(cur) \cap FirstPart(cur)
             m2 == Marked(cur) \ FirstPart(cur)
  <2>1. m1 \in SUBSET Bytes /\ m2 \in SUBSET Bytes BY <1>3
  <2>2. mask' = [mask EXCEPT ![cur] = m1] /\ mask2' = [mask2 EXCEPT ![cur] = m2] BY <1>1
  <2> HIDE DEF m1, m2
  <2>3. mask' \in [Blocks -> SUBSET Bytes] /\ mask2' \in [Blocks -> SUBSET Bytes]
    BY <2>1, <2>2 DEF CacheInv, TypeOK
  <2>4. QED BY <1>1, <1>2, <1>5, <1>6, <2>3 DEF CacheInv, TypeOK
<1>8. NoTwice(dirtyList)' BY <1>1 DEF CacheInv, NoTwice
<1>9. Control' BY <1>1, <1>2 DEF Control, Found, Walked
<1>10. \A c : InDirtyList(c)' <=> InDirtyList(c) BY <1>1 DEF InDirtyList
<1>11. mask \in [Blocks -> SUBSET Bytes] /\ mask2 \in [Blocks -> SUBSET Bytes] BY DEF CacheInv, TypeOK
<1>12. ASSUME NEW c \in Blocks PROVE Sound(c)'
  <2>1. CASE c # cur
    <3>1. mask'[c] = mask[c] /\ mask2'[c] = mask2[c] BY <1>1, <1>11, <2>1
    <3>2. Untouched(c) BY <1>1, <1>10, <2>1, <3>1 DEF Untouched, Open, Refining
    <3>3. Unwritten(c) BY <1>1 DEF Unwritten
    <3>4. QED BY <3>2, <3>3, Kept
  <2>2. CASE c = cur
    <3>1. Placed(cur) BY <1>2 DEF CacheInv, Sound
    <3>2. ~Open(cur) /\ ~Open(cur)' /\ cur \in holds' /\ cur \notin stale' /\ (at = "compiling" /\ cur = cur)'
      BY <1>1 DEF Open
    <3>3. /\ SecondPage(cur)' = SecondPage(cur) /\ Marked(cur)' = Marked(cur)
          /\ InPages(cur)' <=> InPages(cur)
      BY <1>1 DEF SecondPage, Marked, Body, Within, WholeLines, InPages
    <3>4. Placed(cur)'
      BY <1>1, <1>10, <3>1, <3>2, <3>3 DEF Placed
    <3>5. mask'[cur] = Marked(cur) \cap FirstPart(cur) /\ mask2'[cur] = Marked(cur) \ FirstPart(cur)
      BY <1>1, <1>2, <1>11
    <3>6. want \in mask'[cur]
      BY <1>2, <1>3, <3>5 DEF FirstPart
    <3>7. PageBytes(PageOf(entry[cur]))' = PageBytes(PageOf(entry[cur]))
          /\ PageBytes(SecondPage(cur))' = PageBytes(SecondPage(cur))
      BY <1>1, <3>3
    <3>8. Masked(cur)'
      <4>1. mask'[cur] \cup mask2'[cur] = Marked(cur) BY <3>5
      <4>2. QED BY <1>1, <1>2, <1>4, <3>2, <3>3, <3>5, <3>6, <3>7, <4>1 DEF Masked
    <3>9. StaleMarked(cur)' BY <1>1, <3>2 DEF StaleMarked
    <3>10. QED BY <1>1, <2>2, <3>4, <3>8, <3>9 DEF Sound
  <2>3. QED BY <2>1, <2>2
<1>13. QED BY <1>6, <1>7, <1>8, <1>9, <1>12 DEF CacheInv

\* The block in hand goes to the lists of its pages, its translation made.
LEMMA EndCompileStep == ASSUME CacheInv, EndCompile PROVE CacheInv'
<1>1. /\ at = "compiling" /\ at' = "ready" /\ cur' = NoBlock /\ want' = NoEntry /\ flush' = flush
      /\ recomp' = -1 /\ dirtyList' = Without(dirtyList, cur)
      /\ mask' = mask /\ mask2' = mask2 /\ entry' = entry /\ free' = free
      /\ compiled' = compiled /\ byByte' = byByte /\ noImm' = noImm
      /\ holds' = holds /\ lost' = lost /\ chunks' = chunks
      /\ dirty' = dirty /\ dirtyByte' = dirtyByte /\ stale' = stale /\ unseen' = unseen
      /\ fixedTop' \subseteq fixedTop /\ watched' \subseteq watched /\ direct' \subseteq direct
  BY DEF EndCompile, Back, masks, memory, written, ghosts
<1>2. cur \in Blocks /\ want \in Entries /\ entry[cur] = want /\ want # NoEntry
  BY <1>1, CodeCacheAssumption DEF CacheInv, Control, Found
<1>3. first \in [Pages -> SUBSET Blocks] /\ second \in [Pages -> SUBSET Blocks]
  BY DEF CacheInv, TypeOK
<1>4. PageOf(want) \in Pages
  <2>1. want \in Bytes BY <1>2, CodeCacheAssumption
  <2>2. QED BY <2>1, Geometry
<1>5. /\ first' \in [Pages -> SUBSET Blocks] /\ second' \in [Pages -> SUBSET Blocks]
      /\ \A p \in Pages : first'[p] = (first[p] \ {cur}) \cup (IF p = PageOf(want) THEN {cur} ELSE {})
      /\ \A p \in Pages : second'[p] = (second[p] \ {cur})
                                       \cup (IF mask2[cur] # {} /\ p = SecondPage(cur) THEN {cur} ELSE {})
  <2> DEFINE one == [p \in Pages |-> first[p] \ {cur}]
             two == [p \in Pages |-> second[p] \ {cur}]
             q == IF mask2'[cur] = {} THEN {} ELSE {SecondPage(cur)}
  <2>1. /\ first' = [one EXCEPT ![PageOf(want)] = one[PageOf(want)] \cup {cur}]
        /\ second' = [r \in Pages |-> two[r] \cup (IF r \in q THEN {cur} ELSE {})]
    BY DEF EndCompile, Enlist
  <2>2. \A r : r \in q <=> mask2[cur] # {} /\ r = SecondPage(cur) BY <1>1
  <2> HIDE DEF q
  <2>3. /\ one \in [Pages -> SUBSET Blocks] /\ \A p \in Pages : one[p] = first[p] \ {cur}
        /\ two \in [Pages -> SUBSET Blocks] /\ \A p \in Pages : two[p] = second[p] \ {cur}
    BY <1>3
  <2> HIDE DEF one, two
  <2>4. QED BY <1>2, <1>4, <2>1, <2>2, <2>3
<1>6. PICK d \in Blocks : d = cur BY <1>2
<1>7. /\ dirtyList' \in Seq(Blocks) /\ Len(dirtyList') <= MaxDirty /\ NoTwice(dirtyList')
      /\ ~InDirtyList(d)'
      /\ \A c \in Blocks : c # d => (InDirtyList(c)' <=> InDirtyList(c))
  <2>1. dirtyList \in Seq(Blocks) /\ Len(dirtyList) <= MaxDirty /\ NoTwice(dirtyList) /\ MaxDirty \in Nat
    BY CodeCacheAssumption DEF CacheInv, TypeOK
  <2>2. /\ dirtyList' \in Seq(Blocks) /\ Len(dirtyList') <= Len(dirtyList) /\ NoTwice(dirtyList')
        /\ \A c : Has(dirtyList', c) <=> Has(dirtyList, c) /\ c # cur
    BY <1>1, <2>1, WithoutIs
  <2>3. Len(dirtyList') \in Nat /\ Len(dirtyList) \in Nat BY <2>1, <2>2, LenProperties
  <2>4. \A c : (InDirtyList(c) <=> Has(dirtyList, c)) /\ (InDirtyList(c)' <=> Has(dirtyList', c))
    BY DEF InDirtyList, Has
  <2>5. ~InDirtyList(d)' BY <1>6, <2>2, <2>4
  <2>6. Len(dirtyList') <= MaxDirty BY <2>1, <2>2, <2>3
  <2>7. QED BY <1>6, <2>2, <2>4, <2>5, <2>6
<1>8. TypeOK' BY <1>1, <1>5, <1>7 DEF CacheInv, TypeOK
<1>9. NoTwice(dirtyList)' /\ Memory' BY <1>1, <1>7 DEF CacheInv, NoTwice, Memory, ChunksAgree
<1>10. Control' BY <1>1 DEF Control, Found, Walked
<1>11. ASSUME NEW c \in Blocks PROVE Sound(c)'
  <2>1. CASE c # cur
    <3>1. \A p \in Pages : (c \in first'[p] <=> c \in first[p]) /\ (c \in second'[p] <=> c \in second[p])
      BY <1>5, <2>1
    <3>2. Untouched(c) BY <1>1, <1>7, <1>6, <2>1, <3>1 DEF Untouched, Open, Refining
    <3>3. Unwritten(c) BY <1>1 DEF Unwritten
    <3>4. QED BY <3>2, <3>3, Kept
  <2>2. CASE c = cur
    <3>1. Placed(c) /\ Masked(c) /\ StaleMarked(c) BY DEF CacheInv, Sound
    <3>2. ~Open(c) /\ ~Refining(c) /\ ~Open(c)' /\ ~Refining(c)' /\ at' # "compiling" /\ entry[c] = want
      BY <1>1, <1>2, <2>2 DEF Open, Refining
    <3>3. SecondPage(c)' = SecondPage(c) /\ Marked(c)' = Marked(c)
      BY <1>1 DEF SecondPage, Marked, Body, Within, WholeLines
    <3>4. InPages(c)' /\ ~InDirtyList(c)'
      BY <1>1, <1>2, <1>4, <1>5, <1>7, <1>6, <2>2 DEF InPages
    <3>5. \A p \in Pages : /\ c \in first'[p] => p = PageOf(want)
                           /\ c \in second'[p] <=> mask2[c] # {} /\ p = SecondPage(c)
      BY <1>5, <2>2
    <3>6. mask2[c] # {} => SecondPage(c) \in Pages
      BY <1>2, <2>2, <3>1, <3>2, SecondIsPage
    <3>7. Placed(c)'
      <4>1. (c \in free <=> entry[c] = NoEntry)' BY <1>1, <3>1 DEF Placed
      <4>2. (\A p \in Pages : c \in first[p] => entry[c] # NoEntry /\ p = PageOf(entry[c]))'
        BY <1>1, <1>2, <3>2, <3>5
      <4>3. (\A p \in Pages : c \in second[p] => InPages(c) /\ p = SecondPage(c))'
        BY <3>3, <3>4, <3>5
      <4>4. (mask2[c] # {} /\ ~(at = "compiling" /\ c = cur) => c \in second[SecondPage(c)])'
        BY <1>1, <3>3, <3>5, <3>6
      <4>5. QED BY <3>2, <3>4, <4>1, <4>2, <4>3, <4>4 DEF Placed
    <3>8. PageBytes(PageOf(entry[c]))' = PageBytes(PageOf(entry[c]))
          /\ PageBytes(SecondPage(c))' = PageBytes(SecondPage(c))
      BY <1>1, <3>3
    <3>9. Live(c)' => Live(c) BY <1>1, <2>2 DEF Live
    <3>10. Masked(c)'
      BY <1>1, <3>1, <3>2, <3>3, <3>8, <3>9 DEF Masked
    <3>11. StaleMarked(c)'
      <4>1. c \in stale /\ c \in compiled => MustFlush(c) \/ MustFlush2(c)
        BY <1>1, <2>2, <3>1 DEF StaleMarked
      <4>2. (MustFlush(c)' <=> MustFlush(c)) /\ (MustFlush2(c)' <=> MustFlush2(c))
        BY <1>1 DEF MustFlush, MustFlush2, DirtyOf
      <4>3. QED BY <1>1, <4>1, <4>2 DEF StaleMarked
    <3>12. QED BY <3>7, <3>10, <3>11 DEF Sound
  <2>3. QED BY <2>1, <2>2
<1>12. QED BY <1>8, <1>9, <1>10, <1>11 DEF CacheInv

-----------------------------------------------------------------------------
\* A free block is taken to be marked.
LEMMA TakeStep == ASSUME CacheInv, NEW b \in Blocks, Take(b) PROVE CacheInv'
<1>1. /\ at \in {"get", "purged"} /\ b \in free /\ at' = "marking" /\ cur' = b /\ recomp' = PageOf(want)
      /\ free' = free \ {b} /\ entry' = [entry EXCEPT ![b] = want]
      /\ mask' = [mask EXCEPT ![b] = {}] /\ mask2' = [mask2 EXCEPT ![b] = {}]
      /\ fixedTop' = fixedTop \cup {b} /\ want' = want /\ flush' = flush
      /\ dirtyList' = dirtyList /\ first' = first /\ second' = second
      /\ compiled' = compiled /\ byByte' = byByte /\ noImm' = noImm
      /\ holds' = holds /\ lost' = lost /\ chunks' = chunks
      /\ dirty' = dirty /\ dirtyByte' = dirtyByte /\ direct' = direct /\ watched' = watched
      /\ stale' = stale /\ unseen' = unseen
  BY DEF Take, memory, written, paths, ghosts
<1>2. want \in Entries /\ want # NoEntry
  BY <1>1, CodeCacheAssumption DEF CacheInv, Control
<1>3. PageOf(want) \in Pages
  <2>1. want \in Bytes BY <1>2, CodeCacheAssumption
  <2>2. QED BY <2>1, Geometry
<1>4. /\ entry \in [Blocks -> Entries \cup {NoEntry}]
      /\ mask \in [Blocks -> SUBSET Bytes] /\ mask2 \in [Blocks -> SUBSET Bytes]
  BY DEF CacheInv, TypeOK
<1>5. Placed(b) /\ Masked(b) /\ entry[b] = NoEntry /\ b \notin compiled /\ ~InDirtyList(b)
  BY <1>1 DEF CacheInv, Sound, Placed, Masked
<1>6. \A c : InDirtyList(c)' <=> InDirtyList(c) BY <1>1 DEF InDirtyList
<1>7. TypeOK'
  BY <1>1, <1>2, <1>3, <1>4 DEF CacheInv, TypeOK
<1>8. NoTwice(dirtyList)' /\ Memory' BY <1>1 DEF CacheInv, NoTwice, Memory, ChunksAgree
<1>9. Control'
  <2>1. entry'[b] = want BY <1>1, <1>4
  <2>2. QED BY <1>1, <1>2, <1>5, <2>1 DEF Control, Found, Walked
<1>10. ASSUME NEW c \in Blocks PROVE Sound(c)'
  <2>1. CASE c # b
    <3>1. entry'[c] = entry[c] /\ mask'[c] = mask[c] /\ mask2'[c] = mask2[c] BY <1>1, <1>4, <2>1
    <3>2. Untouched(c) BY <1>1, <1>6, <2>1, <3>1 DEF Untouched, Open, Refining
    <3>3. Unwritten(c) BY <1>1 DEF Unwritten
    <3>4. QED BY <3>2, <3>3, Kept
  <2>2. CASE c = b
    <3>1. Open(b)' /\ ~InDirtyList(b)' /\ entry'[b] = want /\ b \notin free' /\ b \notin compiled'
      BY <1>1, <1>4, <1>5, <1>6 DEF Open
    <3>2. \A p \in Pages : b \notin first'[p] /\ b \notin second'[p]
      BY <1>1, <1>5 DEF Placed, InPages
    <3>3. ~InPages(b)' BY <1>3, <3>1, <3>2 DEF InPages
    <3>4. Placed(b)' BY <1>2, <3>1, <3>2, <3>3 DEF Placed
    <3>5. Masked(b)' BY <3>1 DEF Masked, Live
    <3>6. StaleMarked(b)' BY <3>1 DEF StaleMarked
    <3>7. QED BY <2>2, <3>4, <3>5, <3>6 DEF Sound
  <2>3. QED BY <2>1, <2>2
<1>11. QED BY <1>7, <1>8, <1>9, <1>10 DEF CacheInv

\* The block that was marked goes to the lists of its pages.
LEMMA EndMarkStep == ASSUME CacheInv, EndMark PROVE CacheInv'
<1> DEFINE reached == WholeLines(Within(cur, Reach[want]))
           m1 == reached \cap FirstPart(cur)
           m2 == reached \ FirstPart(cur)
<1>1. /\ at = "marking" /\ at' = "ready" /\ cur' = NoBlock /\ want' = NoEntry /\ flush' = flush
      /\ recomp' = -1 /\ mask' = [mask EXCEPT ![cur] = m1] /\ mask2' = [mask2 EXCEPT ![cur] = m2]
      /\ entry' = entry /\ free' = free /\ dirtyList' = dirtyList
      /\ compiled' = compiled /\ byByte' = byByte /\ noImm' = noImm /\ fixedTop' = fixedTop
      /\ holds' = holds /\ lost' = lost /\ chunks' = chunks
      /\ dirty' = dirty /\ dirtyByte' = dirtyByte /\ stale' = stale /\ unseen' = unseen
      /\ watched' \subseteq watched /\ direct' \subseteq direct
  BY DEF EndMark, Back, Unwatch, flags, memory, written, ghosts
<1>2. cur \in Blocks /\ want \in Entries /\ entry[cur] = want /\ want # NoEntry /\ cur \notin compiled
  BY <1>1, CodeCacheAssumption DEF CacheInv, Control
<1>3. reached \in SUBSET Bytes /\ want \in reached /\ want \in Bytes /\ Spans(cur, reached)
  BY <1>2, Covers
<1> HIDE DEF reached
<1>4. m1 \subseteq PageBytes(PageOf(want)) /\ m2 \subseteq PageBytes(SecondPage(cur))
  BY <1>2, <1>3, PartsLie
<1>5. m1 \in SUBSET Bytes /\ m2 \in SUBSET Bytes /\ want \in m1
  BY <1>2, <1>3 DEF FirstPart
<1>6. PageOf(want) \in Pages /\ (m2 # {} => SecondPage(cur) \in Pages)
  <2>1. PageOf(want) \in Pages BY <1>3, Geometry
  <2>2. ASSUME m2 # {} PROVE SecondPage(cur) \in Pages
    <3>1. PICK x \in Bytes : PageOf(x) = SecondPage(cur) BY <1>4, <2>2 DEF PageBytes
    <3>2. QED BY <3>1, Geometry
  <2>3. QED BY <2>1, <2>2
<1> HIDE DEF m1, m2
<1>7. /\ mask \in [Blocks -> SUBSET Bytes] /\ mask2 \in [Blocks -> SUBSET Bytes]
      /\ first \in [Pages -> SUBSET Blocks] /\ second \in [Pages -> SUBSET Blocks]
  BY DEF CacheInv, TypeOK
<1>8. /\ mask' \in [Blocks -> SUBSET Bytes] /\ mask2' \in [Blocks -> SUBSET Bytes]
      /\ mask'[cur] = m1 /\ mask2'[cur] = m2
      /\ \A c \in Blocks : c # cur => mask'[c] = mask[c] /\ mask2'[c] = mask2[c]
  BY <1>1, <1>2, <1>5, <1>7
<1>9. /\ first' \in [Pages -> SUBSET Blocks] /\ second' \in [Pages -> SUBSET Blocks]
      /\ \A p \in Pages : first'[p] = first[p] \cup (IF p = PageOf(want) THEN {cur} ELSE {})
      /\ \A p \in Pages : second'[p] = second[p] \cup (IF m2 # {} /\ p = SecondPage(cur) THEN {cur} ELSE {})
  <2> DEFINE q == IF mask2'[cur] = {} THEN {} ELSE {SecondPage(cur)}
  <2>1. /\ first' = [first EXCEPT ![PageOf(want)] = first[PageOf(want)] \cup {cur}]
        /\ second' = [r \in Pages |-> second[r] \cup (IF r \in q THEN {cur} ELSE {})]
    BY DEF EndMark, Enlist
  <2>2. \A r : r \in q <=> m2 # {} /\ r = SecondPage(cur) BY <1>8
  <2> HIDE DEF q
  <2>3. QED BY <1>2, <1>6, <1>7, <2>1, <2>2
<1>10. TypeOK' BY <1>1, <1>8, <1>9 DEF CacheInv, TypeOK
<1>11. NoTwice(dirtyList)' /\ Memory' BY <1>1 DEF CacheInv, NoTwice, Memory, ChunksAgree
<1>12. Control' BY <1>1 DEF Control, Found, Walked
<1>13. \A c : InDirtyList(c)' <=> InDirtyList(c) BY <1>1 DEF InDirtyList
<1>14. ASSUME NEW c \in Blocks PROVE Sound(c)'
  <2>1. CASE c # cur
    <3>1. \A p \in Pages : (c \in first'[p] <=> c \in first[p]) /\ (c \in second'[p] <=> c \in second[p])
      BY <1>9, <2>1
    <3>2. Untouched(c) BY <1>1, <1>8, <1>13, <2>1, <3>1 DEF Untouched, Open, Refining
    <3>3. Unwritten(c) BY <1>1 DEF Unwritten
    <3>4. QED BY <3>2, <3>3, Kept
  <2>2. CASE c = cur
    <3>1. Placed(c) /\ Open(c) BY <1>1, <2>2 DEF CacheInv, Sound, Open
    <3>2. ~Open(c)' /\ ~Refining(c)' /\ at' # "compiling" /\ c \notin compiled' /\ entry'[c] = want
      BY <1>1, <1>2, <2>2 DEF Open, Refining
    <3>3. SecondPage(c)' = SecondPage(c)
      BY <1>1 DEF SecondPage
    <3>4. \A p \in Pages : c \notin first[p] /\ c \notin second[p]
      BY <1>2, <2>2, <3>1 DEF Placed, InPages
    <3>5. InPages(c)' /\ ~InDirtyList(c)'
      <4>1. ~InDirtyList(c) BY <3>1 DEF Placed
      <4>2. c \in first'[PageOf(want)] BY <1>6, <1>9, <2>2
      <4>3. QED BY <1>2, <1>13, <3>2, <4>1, <4>2 DEF InPages
    <3>6. \A p \in Pages : /\ c \in first'[p] => p = PageOf(want)
                           /\ c \in second'[p] <=> m2 # {} /\ p = SecondPage(c)
      BY <1>9, <2>2, <3>4
    <3>7. Placed(c)'
      <4>1. (c \in free <=> entry[c] = NoEntry)' BY <1>1, <3>1 DEF Placed
      <4>2. (\A p \in Pages : c \in first[p] => entry[c] # NoEntry /\ p = PageOf(entry[c]))'
        BY <1>2, <3>2, <3>6
      <4>3. (\A p \in Pages : c \in second[p] => InPages(c) /\ p = SecondPage(c))'
        BY <3>3, <3>5, <3>6
      <4>4. (mask2[c] # {} /\ ~(at = "compiling" /\ c = cur) => c \in second[SecondPage(c)])'
        BY <1>6, <1>8, <2>2, <3>3, <3>6
      <4>5. QED BY <3>2, <3>5, <4>1, <4>2, <4>3, <4>4 DEF Placed
    <3>8. Masked(c)'
      <4>1. PageBytes(PageOf(entry[c]))' = PageBytes(PageOf(want)) /\ PageBytes(SecondPage(c))' = PageBytes(SecondPage(c))
        BY <3>2, <3>3
      <4>2. QED BY <1>4, <1>5, <1>8, <2>2, <3>2, <4>1 DEF Masked, Live
    <3>9. StaleMarked(c)' BY <3>2 DEF StaleMarked
    <3>10. QED BY <3>7, <3>8, <3>9 DEF Sound
  <2>3. QED BY <2>1, <2>2
<1>15. QED BY <1>10, <1>11, <1>12, <1>14 DEF CacheInv

-----------------------------------------------------------------------------
\* Every step keeps the invariant.
LEMMA StepInv == CacheInv /\ [Next]_vars => CacheInv'
<1> SUFFICES ASSUME CacheInv, [Next]_vars PROVE CacheInv' OBVIOUS
<1>1. CASE Guest BY <1>1, GuestStep, ResetStep DEF Guest
<1>2. CASE Lookup BY <1>2, LookupStep, RecompileStep DEF Lookup
<1>3. CASE Walk BY <1>3, InvalidateStep, WalkEndsStep DEF Walk
<1>4. CASE Compile
  BY <1>4, LookupStep, TranslateStep, DeleteSteps, EndCompileStep DEF Compile
<1>5. CASE Mark
  BY <1>5, LookupStep, EndMarkStep, DeleteSteps, ReuseOldestStep, TakeStep DEF Mark
<1>6. CASE UNCHANGED vars
  <2>1. /\ UNCHANGED <<lookup, lists, masks, flags, memory, recomp, written, paths, ghosts>>
    BY <1>6 DEF vars
  <2>2. /\ at' = at /\ cur' = cur /\ want' = want /\ flush' = flush
        /\ entry' = entry /\ free' = free /\ dirtyList' = dirtyList /\ first' = first /\ second' = second
        /\ mask' = mask /\ mask2' = mask2 /\ compiled' = compiled /\ byByte' = byByte /\ noImm' = noImm
        /\ fixedTop' = fixedTop /\ holds' = holds /\ lost' = lost /\ chunks' = chunks /\ recomp' = recomp
        /\ dirty' = dirty /\ dirtyByte' = dirtyByte /\ direct' = direct /\ watched' = watched
        /\ stale' = stale /\ unseen' = unseen
    BY <2>1 DEF lookup, lists, masks, flags, memory, written, paths, ghosts
  <2>3. TypeOK' BY <2>2 DEF CacheInv, TypeOK
  <2>4. NoTwice(dirtyList)' /\ Memory' BY <2>2 DEF CacheInv, NoTwice, Memory, ChunksAgree
  <2>5. ASSUME NEW b \in Blocks PROVE Sound(b)'
    <3>1. Untouched(b) /\ Unwritten(b) BY <2>2 DEF Untouched, Unwritten, InDirtyList, Open, Refining
    <3>2. QED BY <3>1, Kept
  <2>6. Control'
    <3>1. /\ SecondPage(cur)' = SecondPage(cur) /\ GivenUp' = GivenUp /\ InDirtyList(cur)' = InDirtyList(cur)
          /\ MustFlush(cur)' = MustFlush(cur) /\ MustFlush2(cur)' = MustFlush2(cur)
      BY <2>2 DEF SecondPage, GivenUp, InDirtyList, MustFlush, MustFlush2, DirtyOf
    <3>2. QED BY <2>2, <3>1 DEF CacheInv, Control
  <2>7. QED BY <2>3, <2>4, <2>5, <2>6 DEF CacheInv
<1>7. QED BY <1>1, <1>2, <1>3, <1>4, <1>5, <1>6 DEF Next

\* The inductive invariant holds in every behaviour, whatever the guest writes and
\* wherever it executes.
THEOREM CacheInvariance == Spec => []CacheInv
<1>1. QED BY InitInv, StepInv, PTL DEF Spec

\* Every variable keeps its type: the dirty list its length (DIRTY_LIST_MAX_SIZE), the
\* count of free chunks its range.
THEOREM CacheTypeCorrect == Spec => []TypeOK
<1>1. CacheInv => TypeOK BY DEF CacheInv
<1>2. QED BY <1>1, CacheInvariance, PTL

\* No chunk of executable memory is given back twice (delete_block, invalidate_block and
\* codegen_reset all give back what head_mem_block points to).
THEOREM ChunksNeverTwice == Spec => []ChunksAgree
<1>1. CacheInv => ChunksAgree BY DEF CacheInv, Memory
<1>2. QED BY <1>1, CacheInvariance, PTL

\* A block whose code its page saw overwritten is marked by its masks, or has been
\* evicted to the dirty list.
THEOREM OverwrittenIsMarked == Spec => []StaleIsMarked
<1>1. ASSUME CacheInv PROVE StaleIsMarked
  <2> SUFFICES ASSUME NEW b \in stale \cap compiled
               PROVE  \/ MustFlush(b) \/ MustFlush2(b)
                      \/ InDirtyList(b) /\ ~(at = "compiling" /\ b = cur)
    BY DEF StaleIsMarked
  <2>1. b \in Blocks BY <1>1 DEF CacheInv, TypeOK
  <2>2. StaleMarked(b) BY <1>1, <2>1 DEF CacheInv, Sound
  <2>3. QED BY <2>2 DEF StaleMarked
<1>2. QED BY <1>1, CacheInvariance, PTL

\* exec_recompiler never runs a block whose code its page saw overwritten: the checks of
\* its masks come first, and nothing between them and the run clears what was written.
THEOREM OverwrittenNeverRuns == Spec => []EvictedBeforeRun
<1>1. ASSUME CacheInv, AboutToRun PROVE cur \notin stale
  <2>1. at = "decide" /\ ~InDirtyList(cur) /\ cur \in compiled /\ cur \in Blocks
    BY <1>1 DEF AboutToRun, CacheInv, Control, Found
  <2>2. ~MustFlush(cur) /\ ~MustFlush2(cur)
    BY <1>1, <2>1 DEF CacheInv, Control
  <2>3. StaleMarked(cur) BY <1>1, <2>1 DEF CacheInv, Sound
  <2>4. QED BY <2>1, <2>2, <2>3 DEF StaleMarked
<1>2. CacheInv => EvictedBeforeRun BY <1>1 DEF EvictedBeforeRun
<1>3. QED BY <1>2, CacheInvariance, PTL

\* A block is run with its memory still its own, and at the address it was looked up for,
\* although the flush of its own lookup may have given blocks up.
THEOREM RunsWhatWasLookedUp == Spec => []RunsOwnCode
<1>1. ASSUME CacheInv, AboutToRun PROVE cur \in holds /\ cur \notin free /\ entry[cur] = want
  <2>1. /\ at = "decide" /\ ~InDirtyList(cur) /\ cur \in compiled /\ cur \in Blocks
        /\ want \in Entries /\ entry[cur] = want
    BY <1>1 DEF AboutToRun, CacheInv, Control, Found
  <2>2. Placed(cur) /\ Masked(cur) BY <1>1, <2>1 DEF CacheInv, Sound
  <2>3. cur \in holds BY <2>1, <2>2 DEF Masked, Live
  <2>4. want # NoEntry BY <2>1, CodeCacheAssumption
  <2>5. cur \notin free BY <2>1, <2>2, <2>4 DEF Placed
  <2>6. QED BY <2>1, <2>3, <2>5
<1>2. CacheInv => RunsOwnCode BY <1>1 DEF RunsOwnCode
<1>3. QED BY <1>2, CacheInvariance, PTL

\* Every block is free, in the dirty list once, in the lists of its pages or being
\* marked, and in one of these only: no call of fatal() in codegen_block.c is reached.
THEOREM BlocksInOnePlace == Spec => []OnePlace
<1>1. ASSUME CacheInv, NEW b \in Blocks
      PROVE  /\ Cardinality({i \in 1..Len(dirtyList) : dirtyList[i] = b}) + (IF b \in free THEN 1 ELSE 0)
                + (IF InPages(b) THEN 1 ELSE 0) + (IF Open(b) THEN 1 ELSE 0) = 1
             /\ b \in free <=> entry[b] = NoEntry
             /\ \A p \in Pages : b \in first[p] => p = PageOf(entry[b])
             /\ \A p \in Pages : b \in second[p] => InPages(b) /\ p = SecondPage(b)
  <2> DEFINE at_ == {i \in 1..Len(dirtyList) : dirtyList[i] = b}
  <2>1. Placed(b) /\ NoTwice(dirtyList) BY <1>1 DEF CacheInv, Sound
  <2>2. Cardinality(at_) = IF InDirtyList(b) THEN 1 ELSE 0
    <3>1. CASE InDirtyList(b)
      <4>1. PICK i \in 1..Len(dirtyList) : dirtyList[i] = b BY <3>1 DEF InDirtyList
      <4>2. at_ = {i} BY <2>1, <4>1 DEF NoTwice
      <4>3. Cardinality({i}) = 1 BY FS_Singleton
      <4>4. QED BY <3>1, <4>2, <4>3
    <3>2. CASE ~InDirtyList(b)
      <4>1. at_ = {} BY <3>2 DEF InDirtyList
      <4>2. QED BY <3>2, <4>1, FS_EmptySet
    <3>3. QED BY <3>1, <3>2
  <2> HIDE DEF at_
  <2>3. /\ Open(b) => b \notin free /\ ~InDirtyList(b) /\ ~InPages(b)
        /\ InPages(b) => b \notin free /\ ~InDirtyList(b)
        /\ InDirtyList(b) => b \notin free
        /\ b \in free \/ InPages(b) \/ InDirtyList(b) \/ Open(b)
    <3>1. Open(b) => entry[b] # NoEntry
      BY <1>1, CodeCacheAssumption DEF CacheInv, Control, Open
    <3>2. InPages(b) => entry[b] # NoEntry BY DEF InPages
    <3>3. QED BY <2>1, <3>1, <3>2 DEF Placed
  <2>4. Cardinality(at_) + (IF b \in free THEN 1 ELSE 0)
          + (IF InPages(b) THEN 1 ELSE 0) + (IF Open(b) THEN 1 ELSE 0) = 1
    BY <2>2, <2>3
  <2>5. QED BY <2>1, <2>4 DEF Placed, at_
<1>2. CacheInv => OnePlace BY <1>1 DEF OnePlace
<1>3. QED BY <1>2, CacheInvariance, PTL

-----------------------------------------------------------------------------
\* Where the page of the address wanted has been made sure of.
Preparing == {"alloc", "compiling", "get", "purge", "purged", "marking"}

\* The pages in which code begins.
CodePages == {PageOf(e) : e \in Entries}

\* A block that no write can pass by: there is one way into its code, and no bus master
\* meets its masks of bytes.
Guarded(b) == OneWay(entry[b]) /\ ~(BusMastering /\ b \in byByte)
Making(b) == at \in {"compile", "alloc", "compiling"} /\ b = cur

\* A page of code that is written directly has no block, and will not get one before it
\* is made sure of; a page in which a block is being made is announced in recomp_page; and
\* a guarded block overwritten unseen waits in the dirty list to be recompiled from new.
DirectSeen == \A v \in direct \cap CodePages : first[v] = {} /\ ~(at \in Preparing /\ v = PageOf(want))
Announced == at \in {"compiling", "marking"} => recomp = PageOf(want)
UnseenWaits ==
  \A b \in unseen : entry[b] # NoEntry /\ (Guarded(b) => InDirtyList(b) /\ ~Making(b))
SeenInv == DirectSeen /\ Announced /\ UnseenWaits

\* A page of code is its own view.
LEMMA OwnView == \A p \in CodePages : p \in Pages /\ p \in Nat /\ Maps[p] = p
<1> SUFFICES ASSUME NEW e \in Entries
             PROVE  PageOf(e) \in Pages /\ PageOf(e) \in Nat /\ Maps[PageOf(e)] = PageOf(e)
  BY DEF CodePages
<1>1. PageOf(e) \in Pages BY CodeCacheAssumption, Geometry
<1>2. QED BY <1>1, CodeCacheAssumption

\* Taking views out of the lookups, and blocks out of the lists, leaves the pages
\* written directly without blocks.
LEMMA DirectKept ==
  ASSUME DirectSeen, direct' \subseteq direct,
         \A p \in Pages : first'[p] \subseteq first[p],
         at' \in Preparing => at \in Preparing /\ want' = want
  PROVE  DirectSeen'
<1> SUFFICES ASSUME NEW v \in direct' \cap CodePages
             PROVE  first'[v] = {} /\ ~(at' \in Preparing /\ v = PageOf(want'))
  BY DEF DirectSeen, PageOf
<1>1. v \in direct \cap CodePages /\ v \in Pages BY OwnView
<1>2. first[v] = {} /\ ~(at \in Preparing /\ v = PageOf(want)) BY <1>1 DEF DirectSeen
<1>3. first'[v] = {} BY <1>1, <1>2
<1>4. QED BY <1>2, <1>3

\* The blocks overwritten unseen still wait, while they keep their address and their
\* masks and none of them leaves the dirty list but to be recompiled.
LEMMA UnseenKept ==
  ASSUME UnseenWaits,
         \A c \in unseen' : /\ c \in unseen /\ entry'[c] = entry[c] /\ (c \in byByte' <=> c \in byByte)
                            /\ InDirtyList(c) /\ ~Making(c) => InDirtyList(c)'
                            /\ Making(c)' => Making(c)
  PROVE  UnseenWaits'
<1> SUFFICES ASSUME NEW c \in unseen'
             PROVE  entry'[c] # NoEntry /\ (Guarded(c)' => InDirtyList(c)' /\ ~Making(c)')
  BY DEF UnseenWaits
<1>1. c \in unseen /\ entry'[c] = entry[c] /\ (c \in byByte' <=> c \in byByte) OBVIOUS
<1>2. Guarded(c)' => Guarded(c) BY <1>1 DEF Guarded, OneWay
<1>3. entry[c] # NoEntry /\ (Guarded(c) => InDirtyList(c) /\ ~Making(c)) BY <1>1 DEF UnseenWaits
<1>4. QED BY <1>1, <1>2, <1>3

\* A watched page becomes one that is not written directly.
LEMMA Watches ==
  ASSUME NEW p \in Pages, Unwatch({p}, AsExecuted)
  PROVE  direct' \cap CodePages = {}
<1>1. \A v \in CodePages : Maps[v] - v = 0 BY OwnView
<1>2. AsExecuted[p] = 0 BY DEF AsExecuted
<1>3. QED BY <1>1, <1>2 DEF Unwatch

\* What deleting a block does to the pages and to the blocks overwritten unseen.
LEMMA DeleteShrinks ==
  ASSUME CacheInv, NEW b \in Blocks, Delete(b)
  PROVE  /\ direct' \subseteq direct /\ \A p \in Pages : first'[p] \subseteq first[p]
         /\ unseen' = unseen \ {b} /\ b \notin unseen'
         /\ \A c : c # b /\ InDirtyList(c) => InDirtyList(c)'
         /\ \A c \in unseen' : c # b /\ entry'[c] = entry[c] /\ (c \in byByte' <=> c \in byByte)
<1>1. first \in [Pages -> SUBSET Blocks] BY DEF CacheInv, TypeOK
<1>2. /\ unseen' = unseen \ {b} /\ b \notin unseen'
      /\ \A c \in unseen' : c # b /\ entry'[c] = entry[c] /\ (c \in byByte' <=> c \in byByte)
  <2>1. /\ unseen' = unseen \ {b} /\ byByte' = byByte \ {b}
        /\ entry' = [c \in Blocks |-> IF c \in {b} THEN NoEntry ELSE entry[c]]
    BY DEF Delete, Discard
  <2>2. unseen \subseteq Blocks BY DEF CacheInv, TypeOK
  <2>3. QED BY <2>1, <2>2
<1>3. CASE InDirtyList(b)
  <2>1. first' = first /\ direct' = direct /\ dirtyList' = Without(dirtyList, b)
    BY <1>3 DEF Delete, paths
  <2>2. \A c : Has(dirtyList', c) <=> Has(dirtyList, c) /\ c # b
    BY <2>1, WithoutIs DEF CacheInv, TypeOK
  <2>3. \A c : (InDirtyList(c) <=> Has(dirtyList, c)) /\ (InDirtyList(c)' <=> Has(dirtyList', c))
    BY DEF InDirtyList, Has
  <2>4. QED BY <1>2, <2>1, <2>2, <2>3
<1>4. CASE ~InDirtyList(b)
  <2>1. dirtyList' = dirtyList /\ Unlist(b) BY <1>4 DEF Delete
  <2>2. direct' \subseteq direct /\ \A p \in Pages : first'[p] \subseteq first[p]
    <3>1. CASE Listed(b) BY <1>1, <2>1, <3>1 DEF Unlist, Unwatch
    <3>2. CASE ~Listed(b) BY <2>1, <3>2 DEF Unlist, paths
    <3>3. QED BY <3>1, <3>2
  <2>3. QED BY <1>2, <2>1, <2>2 DEF InDirtyList
<1>5. QED BY <1>3, <1>4

\* Deleting a block.
LEMMA DeleteSeen ==
  ASSUME CacheInv, SeenInv,
         AbortCompile \/ AbortMark \/ \E b \in Blocks : Reclaim(b) \/ DeleteRandom(b)
  PROVE  SeenInv'
<1>1. ASSUME AbortCompile \/ AbortMark PROVE SeenInv'
  <2>1. at \in {"compiling", "marking"} /\ at' = "ready" /\ cur \in Blocks /\ Delete(cur)
    BY <1>1 DEF AbortCompile, AbortMark, Back, CacheInv, Control, Found
  <2>2. DirectSeen' BY <2>1, DeleteShrinks, DirectKept DEF SeenInv, Preparing
  <2>3. UnseenWaits' BY <2>1, DeleteShrinks, UnseenKept DEF SeenInv, Making
  <2>4. QED BY <2>1, <2>2, <2>3 DEF SeenInv, Announced
<1>2. ASSUME NEW b \in Blocks, Reclaim(b) \/ DeleteRandom(b) PROVE SeenInv'
  <2>1. /\ Delete(b) /\ at' = at /\ cur' = cur /\ want' = want /\ recomp' = recomp
        /\ at \in {"alloc", "purged", "get"}
    BY <1>2 DEF Reclaim, DeleteRandom, lookup
  <2>2. DirectSeen' BY <2>1, DeleteShrinks, DirectKept DEF SeenInv
  <2>3. UnseenWaits' BY <2>1, DeleteShrinks, UnseenKept DEF SeenInv, Making
  <2>4. QED BY <2>1, <2>2, <2>3 DEF SeenInv, Announced
<1>3. QED BY <1>1, <1>2

\* The guest writes memory: a page with blocks, or with one in the making, is watched.
LEMMA GuestSeen ==
  ASSUME CacheInv, SeenInv, Guest
  PROVE  SeenInv'
<1>1. ASSUME NEW v \in Views, NEW x \in Bytes, WriteWatched(v, x) PROVE SeenInv'
  <2>1. /\ at' = at /\ cur' = cur /\ want' = want /\ recomp' = recomp /\ direct' = direct
        /\ first' = first /\ dirtyList' = dirtyList /\ unseen' = unseen
        /\ entry' = entry /\ byByte' = byByte
    BY <1>1 DEF WriteWatched, Note, lookup, lists, flags, paths
  <2>2. UnseenWaits' BY <2>1, UnseenKept DEF SeenInv, Making, InDirtyList
  <2>3. QED BY <2>1, <2>2 DEF SeenInv, DirectSeen, Announced
<1>2. ASSUME NEW v \in Views, NEW x \in Bytes, WriteDirect(v, x) PROVE SeenInv'
  <2>1. /\ at' = at /\ cur' = cur /\ want' = want /\ recomp' = recomp /\ direct' = direct
        /\ first' = first /\ dirtyList' = dirtyList /\ unseen' = unseen \cup (Made(x) \ {cur})
        /\ entry' = entry /\ byByte' = byByte
        /\ v \in direct /\ v \in Views /\ PageOf(x) = Maps[v]
    BY <1>2 DEF WriteDirect, lookup, lists, flags, paths
  <2>2. ASSUME NEW b \in Made(x) \ {cur} PROVE entry[b] # NoEntry /\ (Guarded(b) => InDirtyList(b))
    <3>1. b \in Blocks /\ b \in compiled /\ x \in Body(b) /\ b # cur
      BY DEF Made, CacheInv, TypeOK
    <3>2. Placed(b) /\ Masked(b) /\ entry[b] \in Entries \cup {NoEntry}
      BY <3>1 DEF CacheInv, Sound, TypeOK
    <3>3. entry[b] # NoEntry /\ entry[b] \in Entries BY <3>1, <3>2 DEF Masked
    <3>4. x \in Opcodes[entry[b]] \cup Immediates[entry[b]] BY <3>1 DEF Body, Within
    <3>5. ASSUME Guarded(b) PROVE InDirtyList(b)
      <4>1. PageOf(entry[b]) = v BY <2>1, <3>4, <3>5 DEF Guarded, OneWay
      <4>2. v \in CodePages BY <3>3, <4>1 DEF CodePages
      <4>3. ~InPages(b) BY <2>1, <4>1, <4>2 DEF SeenInv, DirectSeen, InPages
      <4>4. ~Open(b) BY <3>1 DEF Open
      <4>5. QED BY <3>2, <3>3, <4>3, <4>4 DEF Placed
    <3>6. QED BY <3>3, <3>5
  <2>3. ASSUME NEW b \in unseen' PROVE entry'[b] # NoEntry /\ (Guarded(b)' => InDirtyList(b)' /\ ~Making(b)')
    <3>1. (Guarded(b)' <=> Guarded(b)) /\ (InDirtyList(b)' <=> InDirtyList(b)) /\ (Making(b)' <=> Making(b))
      BY <2>1 DEF Guarded, InDirtyList, Making
    <3>2. CASE b \in unseen BY <2>1, <3>1, <3>2 DEF SeenInv, UnseenWaits
    <3>3. CASE b \in Made(x) \ {cur}
      <4>1. ~Making(b) BY <3>3 DEF Making
      <4>2. QED BY <2>1, <2>2, <3>1, <3>3, <4>1
    <3>4. QED BY <2>1, <3>2, <3>3
  <2>4. UnseenWaits' BY <2>3 DEF UnseenWaits
  <2>5. QED BY <2>1, <2>4 DEF SeenInv, DirectSeen, Announced
<1>3. ASSUME NEW v \in Views, NEW x \in Bytes, WriteFirst(v, x) PROVE SeenInv'
  <2>1. /\ at' = at /\ cur' = cur /\ want' = want /\ recomp' = recomp
        /\ first' = first /\ dirtyList' = dirtyList /\ unseen' = unseen
        /\ entry' = entry /\ byByte' = byByte
        /\ at \in {"ready", "marking", "compiling"}
        /\ direct' = direct \/ (direct' = direct \cup {v} /\ first[Maps[v]] = {} /\ Maps[v] # recomp)
    BY <1>3 DEF WriteFirst, Note, GuestRuns, lookup, lists, flags
  <2>2. at \in Preparing => recomp = PageOf(want)
    BY <2>1 DEF SeenInv, Announced, Preparing
  <2>3. DirectSeen' BY <2>1, <2>2, OwnView DEF SeenInv, DirectSeen
  <2>4. UnseenWaits' BY <2>1, UnseenKept DEF SeenInv, Making, InDirtyList
  <2>5. QED BY <2>1, <2>3, <2>4 DEF SeenInv, Announced
<1>4. ASSUME NEW v \in Views, Forget(v) PROVE SeenInv'
  <2>1. /\ at' = at /\ cur' = cur /\ want' = want /\ recomp' = recomp /\ direct' \subseteq direct
        /\ first' = first /\ dirtyList' = dirtyList /\ unseen' = unseen
        /\ entry' = entry /\ byByte' = byByte
    BY <1>4 DEF Forget, lookup, lists, flags, ghosts
  <2>2. UnseenWaits' BY <2>1, UnseenKept DEF SeenInv, Making, InDirtyList
  <2>3. QED BY <2>1, <2>2 DEF SeenInv, DirectSeen, Announced
<1>5. ASSUME NEW x \in Bytes, BusMaster(x) PROVE SeenInv'
  <2>1. /\ at' = at /\ cur' = cur /\ want' = want /\ recomp' = recomp /\ direct' = direct
        /\ first' = first /\ dirtyList' = dirtyList /\ entry' = entry /\ byByte' = byByte
        /\ unseen' = unseen \cup ((Made(x) \cap byByte) \ {cur}) /\ BusMastering
    BY <1>5 DEF BusMaster, lookup, lists, flags, paths
  <2>2. ASSUME NEW b \in unseen' PROVE entry'[b] # NoEntry /\ (Guarded(b)' => InDirtyList(b)' /\ ~Making(b)')
    <3>1. (Guarded(b)' <=> Guarded(b)) /\ (InDirtyList(b)' <=> InDirtyList(b)) /\ (Making(b)' <=> Making(b))
      BY <2>1 DEF Guarded, InDirtyList, Making
    <3>2. CASE b \in unseen BY <2>1, <3>1, <3>2 DEF SeenInv, UnseenWaits
    <3>3. CASE b \in Made(x) \cap byByte
      <4>1. b \in Blocks /\ b \in compiled BY <3>3 DEF Made, CacheInv, TypeOK
      <4>2. entry[b] # NoEntry BY <4>1 DEF CacheInv, Sound, Masked
      <4>3. ~Guarded(b) BY <2>1, <3>3 DEF Guarded
      <4>4. QED BY <2>1, <3>1, <4>2, <4>3
    <3>4. QED BY <2>1, <3>2, <3>3
  <2>3. UnseenWaits' BY <2>2 DEF UnseenWaits
  <2>4. QED BY <2>1, <2>3 DEF SeenInv, DirectSeen, Announced
<1>6. ASSUME Reset PROVE SeenInv'
  <2>1. at' = "ready" /\ direct' = {} /\ unseen' = unseen \ Blocks
    BY <1>6 DEF Reset, Back, Discard
  <2>2. unseen' = {} BY <2>1 DEF CacheInv, TypeOK
  <2>3. QED BY <2>1, <2>2 DEF SeenInv, DirectSeen, Announced, UnseenWaits
<1>7. QED BY <1>1, <1>2, <1>3, <1>4, <1>5, <1>6 DEF Guest

\* Looking a block up: one whose code was overwritten unseen is recompiled.
LEMMA LookupSeen == ASSUME CacheInv, SeenInv, Lookup PROVE SeenInv'
<1>1. /\ first' = first /\ direct' = direct /\ dirtyList' = dirtyList /\ unseen' \subseteq unseen
      /\ entry' = entry
      /\ byByte' = byByte \/ (byByte' = byByte \cup {cur} /\ cur \notin unseen')
  BY DEF Lookup, Find, Miss, Check1, Check2, Refine, Recompile, Run, Untranslated, lists, flags, paths,
     ghosts
<1>2. at' \in {"check1", "mark", "walk1", "check2", "walk2", "decide", "compile", "ready"}
  BY DEF Lookup, Find, Miss, Check1, Check2, Refine, Recompile, Run, Back
<1>3. at' = "compile" => cur' \notin unseen'
  BY DEF Lookup, Find, Miss, Check1, Check2, Refine, Recompile, Run, Back, Untranslated
<1>4. DirectSeen' BY <1>1, <1>2, DirectKept DEF SeenInv, Preparing
<1>5. UnseenWaits' BY <1>1, <1>2, <1>3, UnseenKept DEF SeenInv, Making, InDirtyList
<1>6. QED BY <1>2, <1>4, <1>5 DEF SeenInv, Announced

\* The flush of a page.
LEMMA WalkSeen == ASSUME CacheInv, SeenInv, Walk PROVE SeenInv'
<1>1. ASSUME NEW b \in Blocks, Invalidate(b) PROVE SeenInv'
  <2>1. /\ at' = at /\ cur' = cur /\ want' = want /\ at \in {"walk1", "walk2", "purge"}
        /\ b \in Affected /\ Unlist(b)
    BY <1>1 DEF Invalidate, lookup, Walking
  <2>2. direct' \subseteq direct /\ \A p \in Pages : first'[p] \subseteq first[p]
    <3>1. first \in [Pages -> SUBSET Blocks] BY DEF CacheInv, TypeOK
    <3>2. CASE Listed(b) BY <2>1, <3>1, <3>2 DEF Unlist, Unwatch
    <3>3. CASE ~Listed(b) BY <2>1, <3>3 DEF Unlist, paths
    <3>4. QED BY <3>2, <3>3
  <2>3. DirectSeen' BY <2>1, <2>2, DirectKept DEF SeenInv
  <2>4. ~Has(dirtyList, b)
    <3>1. InPages(b) /\ Placed(b)
      <4>1. flush \in Pages /\ Placed(b) BY DEF CacheInv, TypeOK, Sound
      <4>2. b \in first[flush] \/ b \in second[flush] BY <2>1 DEF Affected
      <4>3. QED BY <4>1, <4>2 DEF Placed, InPages
    <3>2. QED BY <3>1 DEF Placed, InDirtyList, Has
  <2> DEFINE longer == <<b>> \o dirtyList
  <2>5. /\ longer \in Seq(Blocks) /\ NoTwice(longer) /\ longer # << >>
        /\ \A c : Has(longer, c) <=> Has(dirtyList, c) \/ c = b
    BY <2>4, YoungestAdded DEF CacheInv, TypeOK
  <2> DEFINE oldest == longer[Len(longer)]
  <2>6. \/ /\ dirtyList' = SubSeq(longer, 1, Len(longer) - 1) /\ unseen' = unseen \ {oldest}
           /\ byByte' = byByte \ {oldest}
           /\ entry' = [c \in Blocks |-> IF c \in {oldest} THEN NoEntry ELSE entry[c]]
        \/ dirtyList' = longer /\ unseen' = unseen /\ entry' = entry /\ byByte' = byByte
    BY <1>1 DEF Invalidate, Discard, flags, ghosts
  <2> HIDE DEF oldest, longer
  <2>7. \A c \in unseen' : c \in unseen /\ (Has(dirtyList, c) => Has(dirtyList', c))
    <3>1. LET w == SubSeq(longer, 1, Len(longer) - 1)
          IN  \A c : Has(w, c) <=> Has(longer, c) /\ c # oldest
      BY <2>5, OldestGone DEF oldest
    <3>2. QED BY <2>5, <2>6, <3>1
  <2>8. \A c : (InDirtyList(c) <=> Has(dirtyList, c)) /\ (InDirtyList(c)' <=> Has(dirtyList', c))
    BY DEF InDirtyList, Has
  <2>9. UnseenWaits'
    <3>1. unseen \subseteq Blocks BY DEF CacheInv, TypeOK
    <3>2. \A c \in unseen' : entry'[c] = entry[c] /\ (c \in byByte' <=> c \in byByte) BY <2>6, <3>1
    <3>3. \A c : Making(c)' <=> Making(c) BY <2>1 DEF Making
    <3>4. QED BY <2>7, <2>8, <3>2, <3>3, UnseenKept DEF SeenInv
  <2>10. QED BY <2>1, <2>3, <2>9 DEF SeenInv, Announced
<1>2. ASSUME WalkEnds PROVE SeenInv'
  <2>1. /\ cur' = cur /\ want' = want /\ direct' = direct /\ first' = first /\ dirtyList' = dirtyList
        /\ unseen' = unseen /\ at \in {"walk1", "walk2", "purge"} /\ entry' = entry /\ byByte' = byByte
    BY <1>2 DEF WalkEnds, lists, flags, paths, ghosts, Walking
  <2>2. (at' = "purged" /\ at = "purge") \/ at' \in {"mark", "check2", "decide"}
    BY <1>2, <2>1 DEF WalkEnds
  <2>3. DirectSeen' BY <2>1, <2>2, DirectKept DEF SeenInv, Preparing
  <2>4. UnseenWaits' BY <2>1, <2>2, UnseenKept DEF SeenInv, Making, InDirtyList
  <2>5. QED BY <2>1, <2>2, <2>3, <2>4 DEF SeenInv, Announced
<1>3. QED BY <1>1, <1>2 DEF Walk

\* A page in which a block is to be made becomes a watched one.
LEMMA StartSeen == ASSUME CacheInv, SeenInv, StartCompile \/ StartMark PROVE SeenInv'
<1>1. /\ at \in {"compile", "mark"} /\ at' \in {"alloc", "get"} /\ (at' = "alloc" => at = "compile")
      /\ cur' = cur /\ want' = want /\ first' = first /\ dirtyList' = dirtyList /\ unseen' = unseen
      /\ entry' = entry /\ byByte' = byByte
      /\ IF first[PageOf(want)] = {} THEN Unwatch({PageOf(want)}, AsExecuted) ELSE direct' = direct
  BY DEF StartCompile, StartMark, lists, flags, paths, ghosts
<1>2. PageOf(want) \in Pages /\ PageOf(want) \in CodePages
  <2>1. want \in Entries BY <1>1 DEF CacheInv, Control, Found
  <2>2. QED BY <2>1, OwnView DEF CodePages
<1>3. DirectSeen'
  <2>1. CASE first[PageOf(want)] = {}
    <3>1. direct' \cap CodePages = {} BY <1>1, <1>2, <2>1, Watches
    <3>2. QED BY <3>1 DEF DirectSeen
  <2>2. CASE first[PageOf(want)] # {}
    <3>1. direct' = direct /\ PageOf(want) \notin direct BY <1>1, <1>2, <2>2 DEF SeenInv, DirectSeen
    <3>2. QED BY <1>1, <3>1 DEF SeenInv, DirectSeen
  <2>3. QED BY <2>1, <2>2
<1>4. UnseenWaits' BY <1>1, UnseenKept DEF SeenInv, Making, InDirtyList
<1>5. QED BY <1>1, <1>3, <1>4 DEF SeenInv, Announced

\* A block is translated, or taken to be marked.
LEMMA MakeSeen ==
  ASSUME CacheInv, SeenInv,
         Translate \/ (\E b \in Blocks : Take(b)) \/ ReuseOldest \/ \E p \in Pages : Purge(p)
  PROVE  SeenInv'
<1>1. CASE Translate
  <2>1. /\ at = "alloc" /\ at' = "compiling" /\ want' = want /\ cur' = cur /\ first' = first
        /\ dirtyList' = dirtyList /\ recomp' = PageOf(want) /\ unseen' = unseen \ {cur} /\ direct' = direct
        /\ entry' = entry /\ byByte' = byByte
    BY <1>1 DEF Translate, lists, paths
  <2>2. DirectSeen' BY <2>1, DirectKept DEF SeenInv, Preparing
  <2>3. UnseenWaits' BY <2>1, UnseenKept DEF SeenInv, Making, InDirtyList
  <2>4. QED BY <2>1, <2>2, <2>3 DEF SeenInv, Announced
<1>2. ASSUME NEW b \in Blocks, Take(b) PROVE SeenInv'
  <2>1. /\ at \in {"get", "purged"} /\ at' = "marking" /\ want' = want /\ first' = first
        /\ dirtyList' = dirtyList /\ recomp' = PageOf(want) /\ unseen' = unseen /\ direct' = direct
        /\ b \in free /\ entry' = [entry EXCEPT ![b] = want] /\ byByte' = byByte
    BY <1>2 DEF Take, ghosts, paths
  <2>2. DirectSeen' BY <2>1, DirectKept DEF SeenInv, Preparing
  <2>3. UnseenWaits'
    <3>1. unseen \subseteq Blocks /\ entry \in [Blocks -> Entries \cup {NoEntry}] /\ Placed(b)
      BY DEF CacheInv, TypeOK, Sound
    <3>2. b \notin unseen BY <2>1, <3>1 DEF Placed, SeenInv, UnseenWaits
    <3>3. \A c \in unseen' : c \in unseen /\ entry'[c] = entry[c] BY <2>1, <3>1, <3>2
    <3>4. QED BY <2>1, <3>3, UnseenKept DEF SeenInv, Making, InDirtyList
  <2>4. QED BY <2>1, <2>2, <2>3 DEF SeenInv, Announced
<1>3. CASE ReuseOldest
  <2> DEFINE oldest == dirtyList[Len(dirtyList)]
  <2>1. /\ at = "get" /\ at' = at /\ want' = want /\ first' = first /\ direct' = direct
        /\ dirtyList # << >> /\ dirtyList' = SubSeq(dirtyList, 1, Len(dirtyList) - 1)
        /\ unseen' = unseen \ {oldest} /\ byByte' = byByte \ {oldest} /\ cur' = cur
        /\ entry' = [c \in Blocks |-> IF c \in {oldest} THEN NoEntry ELSE entry[c]]
    BY <1>3 DEF ReuseOldest, Discard, lookup, paths
  <2> HIDE DEF oldest
  <2>2. \A c : Has(dirtyList', c) <=> Has(dirtyList, c) /\ c # oldest
    BY <2>1, OldestGone DEF CacheInv, TypeOK, oldest
  <2>3. \A c : (InDirtyList(c) <=> Has(dirtyList, c)) /\ (InDirtyList(c)' <=> Has(dirtyList', c))
    BY DEF InDirtyList, Has
  <2>4. UnseenWaits'
    <3>1. unseen \subseteq Blocks BY DEF CacheInv, TypeOK
    <3>2. \A c \in unseen' : c \in unseen /\ c # oldest /\ entry'[c] = entry[c] /\ (c \in byByte' <=> c \in byByte)
      BY <2>1, <3>1
    <3>3. \A c : Making(c)' <=> Making(c) BY <2>1 DEF Making
    <3>4. QED BY <2>2, <2>3, <3>2, <3>3, UnseenKept DEF SeenInv
  <2>5. DirectSeen' BY <2>1, DirectKept DEF SeenInv
  <2>6. QED BY <2>1, <2>4, <2>5 DEF SeenInv, Announced
<1>4. ASSUME NEW p \in Pages, Purge(p) PROVE SeenInv'
  <2>1. /\ at = "get" /\ at' = "purge" /\ want' = want /\ first' = first /\ direct' = direct
        /\ dirtyList' = dirtyList /\ unseen' = unseen /\ entry' = entry /\ byByte' = byByte
    BY <1>4 DEF Purge, lists, flags, paths, ghosts
  <2>2. DirectSeen' BY <2>1, DirectKept DEF SeenInv, Preparing
  <2>3. UnseenWaits' BY <2>1, UnseenKept DEF SeenInv, Making, InDirtyList
  <2>4. QED BY <2>1, <2>2, <2>3 DEF SeenInv, Announced
<1>5. QED BY <1>1, <1>2, <1>3, <1>4

\* The block that was made joins the blocks of its page, which is not written directly.
LEMMA EndSeen == ASSUME CacheInv, SeenInv, EndCompile \/ EndMark PROVE SeenInv'
<1>1. /\ at \in {"compiling", "marking"} /\ at' = "ready" /\ direct' \subseteq direct /\ unseen' = unseen
      /\ dirtyList' \in {dirtyList, Without(dirtyList, cur)}
      /\ at = "marking" => dirtyList' = dirtyList
      /\ entry' = entry /\ byByte' = byByte
  BY DEF EndCompile, EndMark, Back, Unwatch, flags, ghosts
<1>2. \A p \in Pages : first'[p] \subseteq first[p] \cup (IF p = PageOf(want) THEN {cur} ELSE {})
  <2>1. CASE EndCompile
    <3> DEFINE one == [p \in Pages |-> first[p] \ {cur}]
    <3>1. first' = [one EXCEPT ![PageOf(want)] = @ \cup {cur}] BY <2>1 DEF EndCompile, Enlist
    <3>2. QED BY <3>1
  <2>2. CASE EndMark
    <3>1. first' = [first EXCEPT ![PageOf(want)] = @ \cup {cur}] BY <2>2 DEF EndMark, Enlist
    <3>2. first \in [Pages -> SUBSET Blocks] BY DEF CacheInv, TypeOK
    <3>3. QED BY <3>1, <3>2
  <2>3. QED BY <2>1, <2>2
<1>3. DirectSeen'
  <2> SUFFICES ASSUME NEW v \in direct' \cap CodePages PROVE first'[v] = {}
    BY <1>1 DEF DirectSeen, Preparing
  <2>1. v \in direct \cap CodePages /\ v \in Pages BY <1>1, OwnView
  <2>2. first[v] = {} /\ v # PageOf(want) BY <1>1, <2>1 DEF SeenInv, DirectSeen, Preparing
  <2>3. QED BY <1>2, <2>1, <2>2
<1>4. UnseenWaits'
  <2>1. ASSUME NEW b \in unseen, InDirtyList(b), ~Making(b) PROVE InDirtyList(b)'
    <3>1. CASE dirtyList' = dirtyList BY <2>1, <3>1 DEF InDirtyList
    <3>2. CASE dirtyList' = Without(dirtyList, cur) /\ at = "compiling"
      <4>1. \A c : Has(dirtyList', c) <=> Has(dirtyList, c) /\ c # cur
        BY <3>2, WithoutIs DEF CacheInv, TypeOK
      <4>2. QED BY <2>1, <3>2, <4>1 DEF Making, InDirtyList, Has
    <3>3. QED BY <1>1, <3>1, <3>2
  <2>2. \A b : ~Making(b)' BY <1>1 DEF Making
  <2>3. QED BY <1>1, <2>1, <2>2, UnseenKept DEF SeenInv
<1>5. QED BY <1>1, <1>3, <1>4 DEF SeenInv, Announced

\* Every step.
LEMMA StepSeen == CacheInv /\ SeenInv /\ [Next]_vars => SeenInv'
<1> SUFFICES ASSUME CacheInv, SeenInv, [Next]_vars PROVE SeenInv' OBVIOUS
<1>1. CASE Guest BY <1>1, GuestSeen
<1>2. CASE Lookup BY <1>2, LookupSeen
<1>3. CASE Walk BY <1>3, WalkSeen
<1>4. CASE Compile BY <1>4, StartSeen, MakeSeen, DeleteSeen, EndSeen DEF Compile
<1>5. CASE Mark BY <1>5, StartSeen, MakeSeen, DeleteSeen, EndSeen DEF Mark
<1>6. CASE UNCHANGED vars
  <2>1. /\ at' = at /\ cur' = cur /\ want' = want /\ recomp' = recomp /\ direct' = direct
        /\ first' = first /\ dirtyList' = dirtyList /\ unseen' = unseen
        /\ entry' = entry /\ byByte' = byByte
    BY <1>6 DEF vars, lookup, lists, flags, paths, ghosts
  <2>2. UnseenWaits' BY <2>1, UnseenKept DEF SeenInv, Making, InDirtyList
  <2>3. QED BY <2>1, <2>2 DEF SeenInv, DirectSeen, Announced
<1>7. QED BY <1>1, <1>2, <1>3, <1>4, <1>5, <1>6 DEF Next

\* codegen.h's promise, where the code keeps it: of whatever the guest and a bus master
\* write, exec_recompiler never runs a block whose code has changed, if that code lies in
\* one page written only through the view it is executed through and, on a machine with a
\* bus-mastering disk controller, is still masked by lines.
THEOREM ChangedNeverRuns == Spec => []OneWayNeverStale
<1>1. Init => SeenInv
  BY DEF Init, SeenInv, DirectSeen, Announced, UnseenWaits
<1>2. CacheInv /\ SeenInv /\ EvictedBeforeRun /\ RunsOwnCode => OneWayNeverStale
  <2> SUFFICES ASSUME SeenInv, EvictedBeforeRun, RunsOwnCode, AboutToRun, OneWay(want),
                      ~(BusMastering /\ cur \in byByte)
               PROVE  cur \notin stale \cup unseen
    BY DEF OneWayNeverStale
  <2>1. cur \notin stale BY DEF EvictedBeforeRun
  <2>2. Guarded(cur) BY DEF RunsOwnCode, Guarded
  <2>3. cur \notin unseen BY <2>2 DEF AboutToRun, SeenInv, UnseenWaits
  <2>4. QED BY <2>1, <2>3
<1>3. QED BY <1>1, <1>2, StepSeen, CacheInvariance, OverwrittenNeverRuns, RunsWhatWasLookedUp, PTL DEF Spec
=============================================================================
