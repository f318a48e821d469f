------------------------------ MODULE PitProofs ------------------------------
(***************************************************************************)
(* Pit.tla for every width of a byte, every set of control words and any     *)
(* lateness: the device timer of a counter runs when its mode, gate and      *)
(* clock say so, what a stopped counter last showed can be read back, and    *)
(* the two bytes of a read are of one moment.                               *)
(***************************************************************************)
EXTENDS Pit, TLAPS

\* What TimerFollows rests on: unless a control word waits for its count, the counter is
\* running if it is enabled and has a timer, and in the modes that the gate holds it is
\* enabled if the gate is open.  A counter without a count starts with the next one.
Follows(d) ==
  /\ d.on => d.using /\ d.running
  /\ ~d.disabled /\ d.m \in {0, 2, 3, 4} /\ d.running => d.on
  /\ ~d.disabled => (d.running <=> d.enabled /\ d.using)
  /\ ~d.disabled /\ d.m \in {2, 3, 4} => (d.enabled <=> d.gate)
  /\ ~d.disabled /\ d.m = 0 /\ d.enabled => d.gate
  /\ d.disabled => d.initial \/ d.m = 0

\* Counters that differ in what they show and in their output only.
Alike(x, d) ==
  /\ x.l = d.l /\ x.m = d.m /\ x.gate = d.gate /\ x.using = d.using
  /\ x.enabled = d.enabled /\ x.initial = d.initial /\ x.disabled = d.disabled

Fit(d) == d \in Counter /\ Follows(d)

-----------------------------------------------------------------------------
\* A length is two bytes: what is left of the one not written and the one written.
LEMMA BytesOfLength ==
  ASSUME NEW B \in Nat, B > 1, NEW l \in 0..B * B - 1, NEW v \in 0..B - 1
  PROVE  /\ v \in 0..B * B - 1 /\ v * B \in 0..B * B - 1
         /\ (l % B) + v * B \in 0..B * B - 1
         /\ (l \div B) * B + v \in 0..B * B - 1
<1>1. l \in Int /\ l % B \in 0..B - 1 /\ l \div B \in Int /\ l = B * (l \div B) + (l % B)
  OBVIOUS
<1> DEFINE q == l \div B
           r == l % B
<1>2. q \in Int /\ r \in 0..B - 1 /\ l = B * q + r
  BY <1>1
<1> HIDE DEF q, r
<1>3. q >= 0 /\ q <= B - 1
  <2>1. ASSUME q <= -1 PROVE FALSE
    <3>1. B * q <= B * (-1) BY <2>1, <1>2
    <3>2. QED BY <3>1, <1>2
  <2>2. ASSUME q >= B PROVE FALSE
    <3>1. B * q >= B * B BY <2>2, <1>2
    <3>2. QED BY <3>1, <1>2
  <2>3. QED BY <2>1, <2>2, <1>2
<1>4. \A k \in 0..B - 1 : k * B >= 0 /\ k * B <= B * B - B
  <2> TAKE k \in 0..B - 1
  <2>1. k * B <= (B - 1) * B OBVIOUS
  <2>2. (B - 1) * B = B * B - B OBVIOUS
  <2>3. k * B >= 0 OBVIOUS
  <2>4. QED BY <2>1, <2>2, <2>3
<1>5. v * B \in Int /\ q * B \in Int /\ B * B \in Int
  BY <1>2
<1>6. v <= B * B - 1
  <2>1. B * B >= B OBVIOUS
  <2>2. QED BY <2>1, <1>5
<1>7. v * B \in 0..B * B - 1 /\ r + v * B \in 0..B * B - 1 /\ q * B + v \in 0..B * B - 1
  BY <1>2, <1>3, <1>4, <1>5
<1>8. QED
  BY <1>6, <1>7 DEF q, r

-----------------------------------------------------------------------------
\* The count's constants.
LEMMA Sizes ==
  /\ Base \in Nat /\ Base > 1 /\ Wrap \in Nat /\ Wrap >= 4 /\ Wrap = Base * Base
  /\ Modulus \in Nat /\ Modulus > 4 * Wrap
<1>1. Base \in Nat /\ Base > 1 BY PitAssumption
<1>2. Base * Base \in Nat /\ Base * Base >= 2 * Base BY <1>1
<1>3. QED BY <1>1, <1>2, PitAssumption DEF Wrap

\* What a counter that is being timed shows is between 0 and twice a full count, and
\* outside of modes 2 and 3 a timed count can be stored as it is.
LEMMA ShownIs ==
  ASSUME NEW d \in Counter
  PROVE  /\ Shown(d) \in Int
         /\ d.m \notin {2, 3} => Shown(d) \in 0..Modulus - 1
<1> DEFINE n == Limited(Limited(d.due, 0, Modulus), 0, Wrap)
           n2 == Limited(Limited(d.due, 0, Modulus) + 1, 0, Wrap)
<1>1. d.due \in Int /\ d.count \in 0..Modulus - 1 BY DEF Counter
<1>2. n \in 0..Wrap /\ n2 \in 0..Wrap
  BY <1>1, Sizes DEF Limited
<1>3. Limited(d.due, 0, Modulus) + 0 = Limited(d.due, 0, Modulus)
  BY <1>1, Sizes DEF Limited
<1>4. Shown(d) = IF Timing(d) THEN (IF d.m = 3 THEN 2 * n ELSE IF d.m = 2 THEN n2 ELSE n)
                 ELSE IF d.m = 2 THEN d.count + 1 ELSE d.count
  BY <1>3 DEF Shown
<1> HIDE DEF n, n2
<1>5. QED BY <1>1, <1>2, <1>4, Sizes

\* A remainder is a count.
LEMMA Remainder == \A n \in Int : n % Modulus \in 0..Modulus - 1
BY Sizes

\* Stopping a timer.
LEMMA StoppedIs ==
  ASSUME NEW d \in Counter
  PROVE  /\ Stopped(d) \in Counter
         /\ \/ Stopped(d) = d /\ ~(d.using /\ d.on)
            \/ /\ d.using /\ d.on
               /\ Stopped(d) = [d EXCEPT !.count = Shown(d) % Modulus, !.on = FALSE, !.due = 0]
<1>1. Shown(d) % Modulus \in 0..Modulus - 1
  BY ShownIs, Remainder
<1>2. \A k \in 0..Modulus - 1 : [d EXCEPT !.count = k, !.on = FALSE, !.due = 0] \in Counter
  <2> TAKE k \in 0..Modulus - 1
  <2>1. 0 \in Int /\ FALSE \in BOOLEAN OBVIOUS
  <2>2. [d EXCEPT !.count = k] \in Counter BY DEF Counter
  <2> QED BY <2>1, <2>2 DEF Counter
<1>3. QED BY <1>1, <1>2 DEF Stopped

\* The end of every handler: the counter is running if it may, else its timer is stopped.
LEMMA SettledIs ==
  ASSUME NEW d \in Counter
  PROVE  /\ Settled(d) \in Counter
         /\ Settled(d).running <=> d.enabled /\ d.using /\ ~d.disabled
         /\ Settled(d).on <=> d.on /\ (Settled(d).running \/ ~d.using)
         /\ Alike(Settled(d), d)
<1> DEFINE e == [d EXCEPT !.running = d.enabled /\ d.using /\ ~d.disabled]
<1>1. /\ e \in Counter /\ (e.running <=> d.enabled /\ d.using /\ ~d.disabled)
      /\ e.on = d.on /\ Alike(e, d)
  BY DEF Counter, Alike
<1>2. Settled(d) = IF e.running THEN e ELSE Stopped(e)
  BY DEF Settled
<1> HIDE DEF e
<1>3. Stopped(e) \in Counter
  BY <1>1, StoppedIs
<1>4. /\ Stopped(e).running = e.running /\ (Stopped(e).on <=> e.on /\ ~e.using)
      /\ Alike(Stopped(e), e)
  <2>1. CASE Stopped(e) = e /\ ~(e.using /\ e.on) BY <2>1, <1>1 DEF Counter, Alike
  <2>2. CASE e.using /\ e.on /\ Stopped(e) = [e EXCEPT !.count = Shown(e) % Modulus, !.on = FALSE, !.due = 0]
    BY <2>2, <1>1 DEF Counter, Alike
  <2>3. QED BY <2>1, <2>2, <1>1, StoppedIs
<1>5. CASE e.running
  BY <1>1, <1>2, <1>5 DEF Alike, Counter
<1>6. CASE ~e.running
  <2>1. Settled(d) = Stopped(e) BY <1>2, <1>6
  <2>2. e.using = d.using /\ d.using \in BOOLEAN /\ d.on \in BOOLEAN BY <1>1 DEF Alike, Counter
  <2>3. Alike(Stopped(e), d) BY <1>1, <1>4 DEF Alike
  <2>4. QED BY <1>1, <1>3, <1>4, <1>6, <2>1, <2>2, <2>3
<1>7. QED BY <1>5, <1>6

\* Starting and advancing a timer changes nothing but the timer and the count.
LEMMA TimedIs ==
  ASSUME NEW d \in Counter, NEW n \in Int
  PROVE  /\ Timed(d, n) \in Counter /\ Alike(Timed(d, n), d)
         /\ Timed(d, n).running = d.running /\ (Timed(d, n).on <=> d.on \/ d.using)
BY DEF Timed, Counter, Alike

\* timer_advance_u64 keeps everything but the timer.
LEMMA AdvancedIs ==
  ASSUME NEW d \in Counter, NEW n \in Int
  PROVE  /\ Advanced(d, n) \in Counter /\ Alike(Advanced(d, n), d)
         /\ Advanced(d, n).running = d.running /\ (Advanced(d, n).on <=> d.on \/ d.using)
<1>1. d.due + n \in Int /\ (d.count + n) % Modulus \in 0..Modulus - 1
  BY Remainder DEF Counter
<1>2. CASE d.using
  <2>1. Advanced(d, n) = [d EXCEPT !.on = TRUE, !.due = d.due + n] BY <1>2 DEF Advanced, Counter
  <2>2. QED BY <1>1, <1>2, <2>1 DEF Counter, Alike
<1>3. CASE ~d.using
  <2>1. Advanced(d, n) = [d EXCEPT !.count = (d.count + n) % Modulus] BY <1>3 DEF Advanced, Counter
  <2>2. QED BY <1>1, <1>3, <2>1 DEF Counter, Alike
<1>4. QED BY <1>2, <1>3

\* The lengths a mode counts.
LEMMA Lengths ==
  ASSUME NEW d \in Counter
  PROVE  /\ Length(d) \in 1..Wrap
         /\ Half(Length(d)) \in Int /\ Length(d) \div 2 \in Int /\ Wrap - 1 \in Int
BY Sizes DEF Counter, Length, Half

\* A count that begins has its timer.
LEMMA BegunIs ==
  ASSUME NEW d \in Counter, NEW n \in Int
  PROVE  /\ Begun(d, n) \in Counter /\ Alike(Begun(d, n), d)
         /\ Begun(d, n).running = d.running /\ (Begun(d, n).on <=> d.on \/ d.using)
<1> DEFINE e == Timed(d, n)
           k == IF d.m = 2 THEN Length(d) - 1 ELSE Length(d)
           high == d.m \in {2, 3}
<1>1. e \in Counter /\ Alike(e, d) /\ e.running = d.running /\ (e.on <=> d.on \/ d.using)
  BY TimedIs
<1>2. k \in 0..Modulus - 1 /\ high \in BOOLEAN
  BY Lengths, Sizes
<1>3. Begun(d, n) = [e EXCEPT !.count = k, !.out = high, !.thit = FALSE]
  BY DEF Begun
<1> HIDE DEF e, k, high
<1>4. Begun(d, n) \in Counter
  BY <1>1, <1>2, <1>3 DEF Counter
<1>5. Alike(Begun(d, n), e) /\ Begun(d, n).running = e.running /\ Begun(d, n).on = e.on
  BY <1>1, <1>3 DEF Counter, Alike
<1>6. Alike(Begun(d, n), d)
  BY <1>1, <1>5 DEF Alike
<1>7. QED BY <1>1, <1>4, <1>5, <1>6

\* Loading a length, whatever the mode and however many lengths came before.
LEMMA LoadedFit ==
  ASSUME NEW d, Fit(d)
  PROVE  Fit(Loaded(d)) /\ (~d.disabled /\ d.on => Loaded(d).on)
<1> DEFINE late == d.m = 4 /\ ~Starts(d)
           e == [d EXCEPT !.newcount = late, !.disabled = FALSE]
           n == CASE d.m = 2 -> Length(d) - 1 [] d.m = 3 -> Half(Length(d)) [] OTHER -> Length(d)
           f == IF Starts(d) THEN Begun(e, n) ELSE e
           on == IF d.m \in {1, 5} THEN TRUE ELSE d.gate
           g == [f EXCEPT !.initial = FALSE, !.enabled = on]
<1> d \in Counter BY DEF Fit
<1>1. late \in BOOLEAN /\ n \in Int /\ on \in BOOLEAN
  <2>1. late \in BOOLEAN OBVIOUS
  <2>2. Length(d) \in Int /\ Length(d) - 1 \in Int /\ Half(Length(d)) \in Int BY Lengths, Sizes
  <2>3. n \in Int BY <2>2
  <2>4. on \in BOOLEAN BY DEF Counter
  <2>5. QED BY <2>1, <2>3, <2>4
<1>2. /\ e \in Counter /\ e.m = d.m /\ e.gate = d.gate /\ e.using = d.using
      /\ e.on = d.on /\ e.running = d.running /\ ~e.disabled
  BY <1>1 DEF Counter
<1>3. Loaded(d) = Settled(g)
  BY DEF Loaded
<1> HIDE DEF e, n, on
<1>4. /\ f \in Counter /\ f.m = d.m /\ f.gate = d.gate /\ f.using = d.using /\ ~f.disabled
      /\ f.on <=> d.on \/ (Starts(d) /\ d.using)
  BY <1>1, <1>2, BegunIs DEF Alike
<1> HIDE DEF f
<1>5. /\ g \in Counter /\ g.m = d.m /\ g.gate = d.gate /\ g.using = d.using /\ ~g.disabled
      /\ (g.on <=> f.on) /\ g.enabled = on /\ ~g.initial
  BY <1>1, <1>4 DEF Counter
<1> HIDE DEF g
<1>6. /\ Settled(g) \in Counter /\ Alike(Settled(g), g)
      /\ Settled(g).running <=> g.enabled /\ g.using
      /\ Settled(g).on <=> g.on /\ (Settled(g).running \/ ~g.using)
  BY <1>5, SettledIs
<1>7. on <=> (d.m \in {1, 5} \/ d.gate)
  BY DEF on, Counter
<1>8. d.using \in BOOLEAN /\ d.gate \in BOOLEAN /\ d.on \in BOOLEAN
  BY DEF Counter
<1>9. d.m \in {0, 2, 3, 4} /\ ~Starts(d) => d.m # 0 /\ ~d.initial
  BY DEF Starts
<1>10. Follows(Settled(g))
  BY <1>4, <1>5, <1>6, <1>7, <1>8, <1>9 DEF Follows, Fit, Alike
<1>11. ~d.disabled /\ d.on => Settled(g).on
  BY <1>4, <1>5, <1>6, <1>7, <1>8 DEF Follows, Fit, Counter, Modes
<1>12. QED BY <1>3, <1>6, <1>10, <1>11 DEF Fit

\* Opening, closing or pulsing the gate.
LEMMA GatedFit ==
  ASSUME NEW d, Fit(d), NEW gate \in BOOLEAN
  PROVE  Fit(Gated(d, gate))
<1> DEFINE rising == gate /\ ~d.gate
           n == IF d.m = 3 THEN Half(Length(d)) ELSE Length(d)
           e == IF d.m \in {0, 4} THEN (IF d.running THEN d ELSE Timed(d, n))
                ELSE IF rising THEN Begun(d, n) ELSE d
           on == IF d.m \in {1, 5} THEN d.enabled \/ rising ELSE gate
           g == [e EXCEPT !.enabled = on, !.gate = gate]
<1> d \in Counter BY DEF Fit
<1>1. n \in Int /\ on \in BOOLEAN
  BY Lengths DEF Counter
<1>2. Gated(d, gate) = IF d.disabled THEN [d EXCEPT !.gate = gate] ELSE Settled(g)
  BY DEF Gated
<1>3. CASE d.disabled
  <2>1. [d EXCEPT !.gate = gate] \in Counter BY DEF Counter
  <2>2. Follows([d EXCEPT !.gate = gate]) BY <1>3 DEF Fit, Follows, Counter
  <2>3. QED BY <1>2, <1>3, <2>1, <2>2 DEF Fit
<1>4. CASE ~d.disabled
  <2>1. d.running <=> d.enabled /\ d.using
    BY <1>4 DEF Fit, Follows
  <2> HIDE DEF n
  <2>2. /\ e \in Counter /\ Alike(e, d)
        /\ d.m \in {0, 4} => (e.on <=> d.on \/ (d.using /\ ~d.running))
        /\ d.m \notin {0, 4} => (e.on <=> d.on \/ (d.using /\ rising))
    <3>1. /\ Timed(d, n) \in Counter /\ Alike(Timed(d, n), d) /\ (Timed(d, n).on <=> d.on \/ d.using)
          /\ Begun(d, n) \in Counter /\ Alike(Begun(d, n), d) /\ (Begun(d, n).on <=> d.on \/ d.using)
          /\ Alike(d, d)
      BY <1>1, TimedIs, BegunIs DEF Alike
    <3>2. d.running \in BOOLEAN /\ d.on \in BOOLEAN BY DEF Counter
    <3>3. CASE d.m \in {0, 4} BY <3>1, <3>2, <3>3
    <3>4. CASE d.m \notin {0, 4} /\ rising BY <3>1, <3>2, <3>4
    <3>5. CASE d.m \notin {0, 4} /\ ~rising BY <3>1, <3>2, <3>5
    <3>6. QED BY <3>3, <3>4, <3>5
  <2> HIDE DEF e, on
  <2>3. /\ g \in Counter /\ g.m = d.m /\ g.gate = gate /\ g.using = d.using /\ ~g.disabled
        /\ g.on = e.on /\ g.enabled = on
    BY ZenonT(60), <1>1, <1>4, <2>2 DEF Counter, Alike
  <2> HIDE DEF g
  <2>4. /\ Settled(g) \in Counter /\ Alike(Settled(g), g)
        /\ Settled(g).running <=> g.enabled /\ g.using
        /\ Settled(g).on <=> g.on /\ (Settled(g).running \/ ~g.using)
    BY <2>3, SettledIs
  <2>5. on <=> IF d.m \in {1, 5} THEN d.enabled \/ rising ELSE gate
    BY DEF on, Counter
  <2>6. d.using \in BOOLEAN /\ d.gate \in BOOLEAN /\ d.on \in BOOLEAN /\ d.enabled \in BOOLEAN
        /\ d.m \in 0..5
    BY DEF Counter, Modes
  <2>7. Follows(Settled(g))
    BY <1>4, <2>1, <2>2, <2>3, <2>4, <2>5, <2>6 DEF Follows, Fit, Alike
  <2>8. QED BY <1>2, <1>4, <2>4, <2>7 DEF Fit
<1>5. QED BY <1>3, <1>4

\* The end of a count: the timer has expired, or there is none.
Expired(d) ==
  /\ d \in Counter /\ ~d.on
  /\ d.using => d.running
  /\ ~d.disabled => (d.running <=> d.enabled /\ d.using)
  /\ ~d.disabled /\ d.m \in {2, 3, 4} => (d.enabled <=> d.gate)
  /\ ~d.disabled /\ d.m = 0 /\ d.enabled => d.gate
  /\ d.disabled => d.initial \/ d.m = 0

\* pit_over.
LEMMA OverFit ==
  ASSUME NEW d, Expired(d)
  PROVE  /\ Fit(Over(d)) /\ (Over(d).on <=> d.using)
<1> d \in Counter BY DEF Expired
<1>1. \A n \in Int : /\ Advanced(d, n) \in Counter /\ Alike(Advanced(d, n), d)
                     /\ Advanced(d, n).running = d.running /\ (Advanced(d, n).on <=> d.using)
  BY AdvancedIs DEF Expired
<1>2. Wrap - 1 \in Int /\ Length(d) \in Int /\ Half(Length(d)) \in Int /\ Length(d) \div 2 \in Int
  BY Lengths
<1>3. CASE d.disabled
  <2>1. Over(d) = Advanced(d, Wrap - 1) BY <1>3 DEF Over, Overrun
  <2>2. QED BY <1>1, <1>2, <1>3, <2>1 DEF Fit, Follows, Expired, Alike
<1>4. CASE ~d.disabled
  <2> DEFINE After(x) == x \in Counter /\ Alike(x, d) /\ x.running = d.running /\ (x.on <=> d.using)
             high == d.out \/ ~d.thit
             o == Overrun(d)
             one == Advanced(d, Length(d))
             half == Advanced(d, IF d.out THEN Length(d) \div 2 ELSE Half(Length(d)))
             x == CASE d.m \in {0, 1} -> [o EXCEPT !.out = @ \/ ~d.thit, !.thit = TRUE]
                    [] d.m = 2 -> [one EXCEPT !.out = TRUE]
                    [] d.m = 3 -> [half EXCEPT !.out = ~@]
                    [] d.m = 4 /\ d.newcount -> [one EXCEPT !.out = @ \/ ~d.thit, !.newcount = FALSE]
                    [] OTHER -> [o EXCEPT !.out = @ \/ ~d.thit, !.thit = TRUE]
  <2>1. Over(d) = Settled(x)
    BY <1>4 DEF Over
  <2>2. After(o) /\ After(one) /\ After(half)
    BY <1>1, <1>2 DEF Overrun
  <2>3. \A a \in Counter : After(a) =>
          /\ After([a EXCEPT !.out = @ \/ ~d.thit, !.thit = TRUE])
          /\ After([a EXCEPT !.out = TRUE]) /\ After([a EXCEPT !.out = ~@])
          /\ After([a EXCEPT !.out = @ \/ ~d.thit, !.newcount = FALSE])
    <3> TAKE a \in Counter
    <3> HAVE After(a)
    <3> DEFINE b(v) == [a EXCEPT !.out = v]
    <3>1. ASSUME NEW v \in BOOLEAN
          PROVE  After(b(v)) /\ After([a EXCEPT !.out = v, !.thit = TRUE])
                 /\ After([a EXCEPT !.out = v, !.newcount = FALSE])
      <4>1. After(b(v)) BY DEF Counter, Alike
      <4>2. After([a EXCEPT !.out = v, !.thit = TRUE]) BY DEF Counter, Alike
      <4>3. After([a EXCEPT !.out = v, !.newcount = FALSE]) BY DEF Counter, Alike
      <4> HIDE DEF After
      <4>4. QED BY <4>1, <4>2, <4>3
    <3>2. (a.out \/ ~d.thit) \in BOOLEAN /\ (~a.out) \in BOOLEAN
      OBVIOUS
    <3>3. /\ [a EXCEPT !.out = @ \/ ~d.thit, !.thit = TRUE] = [a EXCEPT !.out = a.out \/ ~d.thit, !.thit = TRUE]
          /\ [a EXCEPT !.out = ~@] = [a EXCEPT !.out = ~a.out]
          /\ [a EXCEPT !.out = @ \/ ~d.thit, !.newcount = FALSE]
             = [a EXCEPT !.out = a.out \/ ~d.thit, !.newcount = FALSE]
      BY DEF Counter
    <3> HIDE DEF After
    <3>4. QED BY <3>1, <3>2, <3>3
  <2> HIDE DEF o, one, half
  <2>4. x \in Counter /\ Alike(x, d) /\ x.running = d.running /\ (x.on <=> d.using)
    <3>1. /\ After([o EXCEPT !.out = @ \/ ~d.thit, !.thit = TRUE])
          /\ After([one EXCEPT !.out = TRUE]) /\ After([half EXCEPT !.out = ~@])
          /\ After([one EXCEPT !.out = @ \/ ~d.thit, !.newcount = FALSE])
      BY <2>2, <2>3
    <3> HIDE DEF After
    <3>2. After(x) BY <3>1
    <3>3. QED BY <3>2 DEF After
  <2> HIDE DEF x
  <2>5. /\ Settled(x) \in Counter /\ Alike(Settled(x), x)
        /\ Settled(x).running <=> x.enabled /\ x.using /\ ~x.disabled
        /\ Settled(x).on <=> x.on /\ (Settled(x).running \/ ~x.using)
    BY <2>4, SettledIs
  <2>6. d.using \in BOOLEAN
    BY DEF Counter
  <2>7. Follows(Settled(x)) /\ (Settled(x).on <=> d.using)
    BY <1>4, <2>4, <2>5, <2>6 DEF Follows, Expired, Alike
  <2>8. QED BY <2>1, <2>5, <2>7 DEF Fit
<1>5. QED BY <1>3, <1>4

\* Stopping a counter outside of modes 2 and 3 keeps what it showed.
LEMMA SettledShows ==
  ASSUME NEW d \in Counter, d.m \notin {2, 3}, d.on, d.using, ~Settled(d).on
  PROVE  Shown(Settled(d)) = Shown(d)
<1> DEFINE e == [d EXCEPT !.running = d.enabled /\ d.using /\ ~d.disabled]
<1>1. /\ e \in Counter /\ e.on = d.on /\ e.using = d.using /\ e.m = d.m /\ e.gate = d.gate
      /\ e.due = d.due /\ e.count = d.count
  BY DEF Counter
<1>2. Settled(d) = IF e.running THEN e ELSE Stopped(e)
  BY DEF Settled
<1> HIDE DEF e
<1>3. Settled(d) = [e EXCEPT !.count = Shown(e) % Modulus, !.on = FALSE, !.due = 0]
  BY <1>1, <1>2 DEF Stopped
<1>4. Shown(e) = Shown(d)
  BY <1>1 DEF Shown, Timing
<1>5. Shown(d) % Modulus = Shown(d)
  <2>1. Shown(d) \in 0..Modulus - 1 BY ShownIs
  <2>2. \A k \in 0..Modulus - 1 : k % Modulus = k BY Sizes
  <2>3. QED BY <2>1, <2>2
<1>6. /\ Settled(d).count = Shown(d) /\ ~Settled(d).on /\ Settled(d).m = d.m
  BY <1>1, <1>3, <1>4, <1>5 DEF Counter
<1>7. QED BY <1>6 DEF Shown, Timing

\* Closing the gate keeps what is shown.
LEMMA GatedShows ==
  ASSUME NEW d, Fit(d), NEW gate \in BOOLEAN, ~d.disabled, d.m \notin {2, 3}, d.on, ~Gated(d, gate).on
  PROVE  Shown(Gated(d, gate)) = Shown(d)
<1> DEFINE rising == gate /\ ~d.gate
           n == IF d.m = 3 THEN Half(Length(d)) ELSE Length(d)
           e == IF d.m \in {0, 4} THEN (IF d.running THEN d ELSE Timed(d, n))
                ELSE IF rising THEN Begun(d, n) ELSE d
           on == IF d.m \in {1, 5} THEN d.enabled \/ rising ELSE gate
           g == [e EXCEPT !.enabled = on, !.gate = gate]
<1>1. d \in Counter /\ d.using /\ d.running /\ d.enabled
  BY DEF Fit, Follows
<1>2. Gated(d, gate) = Settled(g)
  BY DEF Gated
<1>3. n \in Int /\ on \in BOOLEAN
  BY <1>1, Lengths DEF Counter
<1>4. d.m \in {0, 1, 4, 5}
  BY <1>1 DEF Counter, Modes
<1>5. CASE d.m \in {0, 4}
  <2>1. e = d BY <1>1, <1>5
  <2>2. /\ g \in Counter /\ g.m = d.m /\ g.on = d.on /\ g.using = d.using
        /\ g.due = d.due /\ g.count = d.count
    BY ZenonT(60), <1>1, <1>3, <2>1 DEF Counter
  <2> HIDE DEF g
  <2>3. Shown(g) = Shown(d)
    <3>1. d.m # 3 /\ d.m # 2 /\ Timing(g) = Timing(d) BY <1>1, <1>5, <2>2 DEF Timing
    <3>2. QED BY <2>2, <3>1 DEF Shown
  <2>4. QED BY <1>1, <1>2, <1>5, <2>2, <2>3, SettledShows
<1>6. CASE d.m \in {1, 5}
  <2>1. e \in Counter /\ Alike(e, d) /\ e.on
    BY <1>1, <1>3, <1>6, BegunIs DEF Alike
  <2> HIDE DEF e
  <2>2. on BY <1>1, <1>6
  <2>3. g \in Counter /\ g.enabled /\ g.using /\ ~g.disabled /\ g.on
    BY ZenonT(60), <1>1, <1>3, <2>1, <2>2 DEF Counter, Alike
  <2> HIDE DEF g
  <2>4. Settled(g).on BY <2>3, SettledIs
  <2>5. QED BY <1>2, <2>4
<1>7. QED BY <1>4, <1>5, <1>6

\* Changing over to or from the other counter's clock.
LEMMA SwitchedFit ==
  ASSUME Fit(c), NEW using \in BOOLEAN
  PROVE  /\ Fit(Switched(using))
         /\ ~c.disabled /\ c.m \notin {2, 3} /\ c.on /\ ~Switched(using).on
              => Shown(Switched(using)) = Shown(c)
<1> DEFINE running == c.enabled /\ using /\ ~c.disabled
           count == IF c.using /\ ~using THEN Shown(c) % Modulus ELSE c.count
           begins == ~c.using /\ running
           on == begins \/ (c.on /\ running)
           due == IF begins THEN Signed(count) ELSE IF running THEN c.due ELSE 0
           g == [c EXCEPT !.count = count, !.running = running, !.using = using, !.on = on, !.due = due]
<1>1. c \in Counter /\ Follows(c) BY DEF Fit
<1>2. Switched(using) = g
  BY <1>1 DEF Switched, Counter
<1>3. running \in BOOLEAN /\ on \in BOOLEAN
  BY <1>1 DEF Counter
<1>4. count \in 0..Modulus - 1
  BY <1>1, ShownIs, Remainder DEF Counter
<1>5. due \in Int
  BY <1>1, <1>4, Sizes DEF Signed, Counter
<1>6. (running <=> c.enabled /\ using /\ ~c.disabled) /\ (on <=> running /\ (c.on \/ ~c.using))
  BY <1>3
<1>7. ~using => on = FALSE
  BY <1>6, <1>3
<1>8. c.using /\ ~using /\ c.m \notin {2, 3} => count = Shown(c)
  <2>1. c.m \notin {2, 3} => Shown(c) \in 0..Modulus - 1 BY <1>1, ShownIs
  <2>2. \A k \in 0..Modulus - 1 : k % Modulus = k BY Sizes
  <2>3. QED BY <2>1, <2>2
<1> HIDE DEF running, count, on, due
<1>9. /\ g \in Counter /\ g.running = running /\ g.using = using /\ g.on = on /\ g.count = count
      /\ g.enabled = c.enabled /\ g.m = c.m /\ g.gate = c.gate /\ g.initial = c.initial
      /\ g.disabled = c.disabled
  BY ZenonT(60), <1>1, <1>3, <1>4, <1>5 DEF Counter
<1> HIDE DEF g
<1>10. Follows(g)
  BY <1>1, <1>3, <1>6, <1>9 DEF Follows, Counter
<1>11. ASSUME ~c.disabled, c.m \notin {2, 3}, c.on, ~g.on PROVE Shown(g) = Shown(c)
  <2>1. c.using /\ c.enabled BY <1>1, <1>11 DEF Follows
  <2>2. ~using BY <1>6, <1>9, <1>11, <2>1
  <2>3. QED BY <1>8, <1>9, <1>11, <2>1, <2>2 DEF Shown, Timing
<1>12. QED BY <1>2, <1>9, <1>10, <1>11 DEF Fit

-----------------------------------------------------------------------------
\* The counter, what it last showed, and the guest's way through the two bytes.
PitFit == TypeOK /\ Follows(c) /\ ReadsAgree
Keeps == c.on /\ ~c'.on /\ ~c.disabled /\ c.m \notin {2, 3} => Shown(c') = Shown(c)

\* Power-on.
LEMMA InitPitFit == Init => PitFit
<1> SUFFICES ASSUME Init PROVE PitFit OBVIOUS
<1>1. c \in Counter
  <2>1. Wrap - 1 \in 0..Wrap - 1 /\ 0 \in 0..Modulus - 1 /\ 0 \in Modes BY Sizes DEF Modes
  <2>2. QED BY <2>1 DEF Init, Counter
<1>2. Follows(c) BY DEF Init, Follows
<1>3. TypeOK
  <2>1. nr \in Counters /\ request \in BOOLEAN BY DEF Init
  <2>2. port \in [rl : {"new", "begun", "again"}, rm : 0..3, wm : 0..3, reread : BOOLEAN,
                 latched : BOOLEAN, status : BOOLEAN]
    BY DEF Init
  <2>3. QED BY <1>1, <2>1, <2>2 DEF TypeOK
<1>4. ReadsAgree BY DEF Init, ReadsAgree
<1>5. QED BY <1>2, <1>3, <1>4 DEF PitFit

\* Time, the timer and the other counters' clocks.
LEMMA CountStep ==
  ASSUME PitFit, Tick \/ Fire \/ Clock
  PROVE  PitFit' /\ Keeps
<1>1. c \in Counter /\ Fit(c) BY DEF PitFit, TypeOK, Fit
<1>2. ASSUME Fit(c'), nr' = nr, port' = port, request' \in BOOLEAN PROVE PitFit'
  BY <1>2 DEF PitFit, TypeOK, ReadsAgree, Fit
<1>3. CASE Tick
  <2>1. c' = [c EXCEPT !.due = c.due - 1] /\ nr' = nr /\ port' = port /\ request' = request
    BY <1>1, <1>3 DEF Tick, Counter
  <2>2. c' \in Counter /\ c'.on = c.on /\ Alike(c', c) /\ c'.running = c.running
    BY <1>1, <2>1 DEF Counter, Alike
  <2>3. Fit(c') BY <1>1, <2>2 DEF Fit, Follows, Alike
  <2>4. QED BY <1>2, <2>1, <2>2, <2>3 DEF PitFit, TypeOK, Keeps
<1>4. CASE Fire
  <2> DEFINE d == [c EXCEPT !.on = FALSE]
  <2>1. c.on /\ Becomes(Over(d), Pulses(c)) /\ nr' = nr /\ port' = port
    BY <1>4 DEF Fire
  <2>2. d \in Counter /\ ~d.on /\ Alike(d, c) /\ d.running = c.running
    BY <1>1 DEF Counter, Alike
  <2> HIDE DEF d
  <2>3. Expired(d) /\ d.using
    BY <1>1, <2>1, <2>2 DEF Expired, Fit, Follows, Alike
  <2>4. Fit(Over(d)) /\ Over(d).on BY <2>3, OverFit
  <2>5. c' = Over(d) /\ request' \in BOOLEAN
    BY <2>1 DEF Becomes, PitFit, TypeOK
  <2>6. QED BY <1>2, <2>1, <2>4, <2>5 DEF Keeps
<1>5. CASE Clock
  <2> DEFINE d == [c EXCEPT !.count = (@ - (IF c.m = 3 THEN 2 ELSE 1)) % Modulus]
             n == (c.count - (IF c.m = 3 THEN 2 ELSE 1)) % Modulus
  <2>0. d = [c EXCEPT !.count = n] BY <1>1 DEF Counter
  <2>1. /\ ~c.using /\ nr' = nr /\ port' = port
        /\ IF d.count = 0 THEN Becomes(Over(d), Pulses(d)) ELSE Becomes(d, FALSE)
    BY <1>5 DEF Clock
  <2>2. n \in 0..Modulus - 1 BY <1>1, Remainder DEF Counter
  <2> HIDE DEF n
  <2>3. d \in Counter /\ d.on = c.on /\ Alike(d, c) /\ d.running = c.running
    BY <1>1, <2>0, <2>2 DEF Counter, Alike
  <2> HIDE DEF d
  <2>4. Fit(d) BY <1>1, <2>3 DEF Fit, Follows, Alike
  <2>5. ~c.on BY <1>1, <2>1 DEF Fit, Follows
  <2>6. Expired(d) BY <1>1, <2>1, <2>3, <2>5 DEF Expired, Fit, Follows, Alike
  <2>7. Fit(Over(d)) BY <2>6, OverFit
  <2>8. c' \in {d, Over(d)} /\ request' \in BOOLEAN
    BY <2>1 DEF Becomes, PitFit, TypeOK
  <2>9. QED BY <1>2, <2>1, <2>4, <2>5, <2>7, <2>8 DEF Keeps
<1>6. QED BY <1>3, <1>4, <1>5

\* The gate and the change of clocks.
LEMMA GateStep ==
  ASSUME PitFit, NEW b \in BOOLEAN, SetGate(b) \/ SetUsing(b)
  PROVE  PitFit' /\ Keeps
<1>1. c \in Counter /\ Fit(c) BY DEF PitFit, TypeOK, Fit
<1>2. ASSUME Fit(c'), nr' = nr, port' = port, request' \in BOOLEAN PROVE PitFit'
  BY <1>2 DEF PitFit, TypeOK, ReadsAgree, Fit
<1>3. CASE SetGate(b)
  <2>1. c' = Gated(c, b) /\ nr' = nr /\ port' = port /\ request' \in BOOLEAN
    BY <1>3 DEF SetGate, Becomes, PitFit, TypeOK
  <2>2. QED BY <1>1, <1>2, <2>1, GatedFit, GatedShows DEF Keeps
<1>4. CASE SetUsing(b)
  <2>1. c' = Switched(b) /\ nr' = nr /\ port' = port /\ request' = request
    BY <1>4 DEF SetUsing
  <2>2. QED BY <1>1, <1>2, <2>1, SwitchedFit DEF Keeps, PitFit, TypeOK
<1>5. QED BY <1>3, <1>4

\* What the guest writes.
LEMMA WriteStep ==
  ASSUME PitFit, (\E w \in Words : WriteControl(w)) \/ (\E v \in Bytes : WriteByte(v))
  PROVE  PitFit' /\ Keeps
<1>1. c \in Counter /\ Fit(c) /\ port \in [rl : {"new", "begun", "again"}, rm : 0..3, wm : 0..3,
                                          reread : BOOLEAN, latched : BOOLEAN, status : BOOLEAN]
  BY DEF PitFit, TypeOK, Fit
<1>2. ASSUME NEW w \in Words, WriteControl(w) PROVE PitFit' /\ Keeps
  <2>1. w.m \in Modes /\ w.rw \in 1..3 BY PitAssumption DEF Access
  <2> DEFINE low == w.m # 0
             d == [c EXCEPT !.m = w.m, !.initial = TRUE, !.out = low, !.disabled = TRUE, !.thit = FALSE]
  <2>2. c' = d /\ request' \in BOOLEAN /\ nr' = nr
        /\ port' = [port EXCEPT !.rm = w.rw, !.wm = w.rw, !.reread = TRUE]
    BY <1>2 DEF WriteControl, Becomes, PitFit, TypeOK
  <2>3. low \in BOOLEAN OBVIOUS
  <2> HIDE DEF low
  <2>4. d \in Counter /\ d.on = c.on /\ d.using = c.using /\ d.running = c.running /\ d.disabled /\ d.initial
    BY <1>1, <2>1, <2>3 DEF Counter
  <2> HIDE DEF d
  <2>5. Fit(d) BY <1>1, <2>4 DEF Fit, Follows
  <2>6. port' \in [rl : {"new", "begun", "again"}, rm : 0..3, wm : 0..3, reread : BOOLEAN,
                   latched : BOOLEAN, status : BOOLEAN] /\ port'.rm # 0
    <3>1. \A rm, wm \in 0..3, reread \in BOOLEAN :
            LET p == [port EXCEPT !.rm = rm, !.wm = wm, !.reread = reread]
            IN  p \in [rl : {"new", "begun", "again"}, rm : 0..3, wm : 0..3, reread : BOOLEAN,
                       latched : BOOLEAN, status : BOOLEAN] /\ p.rm = rm
      BY <1>1
    <3>2. w.rw \in 0..3 /\ w.rw # 0 BY <2>1
    <3>3. QED BY <2>2, <3>1, <3>2
  <2>7. QED BY <2>2, <2>4, <2>5, <2>6 DEF PitFit, TypeOK, ReadsAgree, Keeps, Fit
<1>3. ASSUME NEW v \in Bytes, WriteByte(v) PROVE PitFit' /\ Keeps
  <2> DEFINE l == CASE port.wm = 1 -> v [] port.wm = 2 -> v * Base
                    [] port.wm = 0 -> (c.l % Base) + v * Base [] port.wm = 3 -> (c.l \div Base) * Base + v
             d == [c EXCEPT !.l = l]
  <2>1. l \in 0..Wrap - 1
    <3>1. v \in 0..Base - 1 /\ c.l \in 0..Base * Base - 1
      BY <1>1, PitAssumption DEF Counter, Wrap
    <3>2. /\ v \in 0..Wrap - 1 /\ v * Base \in 0..Wrap - 1
          /\ (c.l % Base) + v * Base \in 0..Wrap - 1 /\ (c.l \div Base) * Base + v \in 0..Wrap - 1
      BY <3>1, Sizes, BytesOfLength
    <3>3. port.wm \in {0, 1, 2, 3} BY <1>1
    <3>4. QED BY <3>2, <3>3
  <2>2. /\ nr' = nr /\ request' \in BOOLEAN /\ c' \in {d, Loaded(d)}
        /\ port' = [port EXCEPT !.wm = CASE @ = 0 -> 3 [] @ = 3 -> 0 [] OTHER -> @]
    BY <1>3 DEF WriteByte, Becomes, PitFit, TypeOK
  <2> HIDE DEF l
  <2>3. /\ d \in Counter /\ d.on = c.on /\ d.running = c.running /\ d.m = c.m /\ d.gate = c.gate
        /\ d.using = c.using /\ d.enabled = c.enabled /\ d.initial = c.initial /\ d.disabled = c.disabled
    BY <1>1, <2>1 DEF Counter
  <2> HIDE DEF d
  <2>4. Fit(d) BY <1>1, <2>3 DEF Fit, Follows
  <2>5. Fit(c') /\ Keeps BY <2>2, <2>3, <2>4, LoadedFit DEF Keeps
  <2>6. /\ port' \in [rl : {"new", "begun", "again"}, rm : 0..3, wm : 0..3, reread : BOOLEAN,
                      latched : BOOLEAN, status : BOOLEAN]
        /\ port'.rl = port.rl /\ port'.rm = port.rm /\ port'.reread = port.reread
        /\ port'.latched = port.latched
    <3> DEFINE wm == CASE port.wm = 0 -> 3 [] port.wm = 3 -> 0 [] OTHER -> port.wm
    <3>1. port' = [port EXCEPT !.wm = wm] BY <1>1, <2>2
    <3>2. wm \in 0..3 BY <1>1
    <3> HIDE DEF wm
    <3>3. QED BY <1>1, <3>1, <3>2
  <2>7. QED BY <2>2, <2>5, <2>6 DEF PitFit, TypeOK, ReadsAgree, Fit
<1>4. QED BY <1>2, <1>3

\* What the guest latches, reads and answers.
LEMMA ReadStep ==
  ASSUME PitFit, Latch \/ (\E x, y \in BOOLEAN : ReadBack(x, y)) \/ ReadStatus \/ ReadByte \/ Taken
  PROVE  PitFit' /\ Keeps
<1> DEFINE Ports == [rl : {"new", "begun", "again"}, rm : 0..3, wm : 0..3, reread : BOOLEAN,
                     latched : BOOLEAN, status : BOOLEAN]
<1>1. c \in Counter /\ Fit(c) /\ port \in Ports
  BY DEF PitFit, TypeOK, Fit
<1>2. nr' = nr /\ request' \in BOOLEAN /\ c'.on = c.on /\ Fit(c')
  <2>1. CASE Latch
    <3>1. c' = [c EXCEPT !.thit = FALSE] /\ nr' = nr /\ request' = request BY <2>1 DEF Latch
    <3>2. c' \in Counter /\ c'.on = c.on /\ Alike(c', c) /\ c'.running = c.running
      BY <1>1, <3>1 DEF Counter, Alike
    <3>3. QED BY <1>1, <3>1, <3>2 DEF Fit, Follows, Alike, PitFit, TypeOK
  <2>2. CASE (\E x, y \in BOOLEAN : ReadBack(x, y)) \/ ReadStatus \/ ReadByte \/ Taken
    BY <1>1, <2>2 DEF ReadBack, ReadStatus, ReadByte, Taken, PitFit, TypeOK
  <2>3. QED BY <2>1, <2>2
<1>3. port' \in Ports /\ ReadsAgree'
  <2>1. CASE Latch
    <3>1. port' = [port EXCEPT !.rl = "new", !.rm = 3, !.reread = FALSE, !.latched = TRUE]
      BY <2>1 DEF Latch
    <3>2. \A rl \in {"new", "begun", "again"}, rm \in 0..3, reread, latched \in BOOLEAN :
            LET p == [port EXCEPT !.rl = rl, !.rm = rm, !.reread = reread, !.latched = latched]
            IN  p \in Ports /\ p.rm = rm
      BY <1>1
    <3>3. "new" \in {"new", "begun", "again"} /\ 3 \in 0..3 OBVIOUS
    <3> HIDE DEF Ports
    <3>4. port' \in Ports /\ port'.rm = 3 BY <3>1, <3>2, <3>3
    <3>5. QED BY <3>4 DEF ReadsAgree
  <2>2. ASSUME NEW x \in BOOLEAN, NEW y \in BOOLEAN, ReadBack(x, y)
        PROVE  port' \in Ports /\ ReadsAgree'
    <3>1. PICK rl \in {"new", "begun", "again"}, s \in BOOLEAN :
            port' = [port EXCEPT !.rl = rl, !.status = s] /\ (rl = port.rl \/ rl = "again")
      <4>1. port' = [port EXCEPT !.rl = IF x THEN "again" ELSE port.rl, !.status = port.status \/ y]
        BY <1>1, <2>2 DEF ReadBack
      <4>2. (port.status \/ y) \in BOOLEAN /\ (IF x THEN "again" ELSE port.rl) \in {"new", "begun", "again"}
        BY <1>1
      <4>3. QED BY <4>1, <4>2
    <3>2. QED BY <1>1, <3>1 DEF PitFit, ReadsAgree
  <2>3. CASE ReadStatus BY <1>1, <2>3 DEF ReadStatus, PitFit, ReadsAgree
  <2>4. CASE ReadByte
    <3> DEFINE fresh == port.reread /\ ~port.latched
               low == port.rm = 3
               rl == IF low THEN "begun" ELSE IF fresh THEN "new" ELSE port.rl
               reread == ~low \/ (port.reread /\ ~fresh)
               latched == port.latched /\ low
               rm == CASE port.rm = 3 -> 0 [] port.rm = 0 -> 3 [] OTHER -> port.rm
    <3>1. port' = [port EXCEPT !.rl = rl, !.reread = reread, !.latched = latched, !.rm = rm]
      BY <1>1, <2>4 DEF ReadByte
    <3>2. rl \in {"new", "begun", "again"} /\ reread \in BOOLEAN /\ latched \in BOOLEAN /\ rm \in 0..3
      BY <1>1
    <3>3. rm = 0 => rl # "new" /\ (latched \/ ~reread)
      BY <1>1
    <3> HIDE DEF rl, reread, latched, rm
    <3>4. QED BY <1>1, <3>1, <3>2, <3>3 DEF ReadsAgree
  <2>5. CASE Taken BY <1>1, <2>5 DEF Taken, PitFit, ReadsAgree
  <2>6. QED BY <2>1, <2>2, <2>3, <2>4, <2>5
<1>4. QED BY <1>2, <1>3 DEF PitFit, TypeOK, Fit, Keeps

\* Every step keeps the invariant and what stopped counters show.
LEMMA StepPitFit == ASSUME PitFit, [Next]_vars PROVE PitFit' /\ Keeps
<1>1. CASE Next
  BY <1>1, CountStep, GateStep, WriteStep, ReadStep DEF Next
<1>2. CASE UNCHANGED vars
  <2>1. nr' = nr /\ c' = c /\ port' = port /\ request' = request BY <1>2 DEF vars
  <2>2. QED BY <2>1 DEF PitFit, TypeOK, ReadsAgree, Keeps, Follows
<1>3. QED BY <1>1, <1>2

\* The inductive invariant of a counter.
THEOREM PitInvariance == Spec => []PitFit
<1>1. PitFit /\ [Next]_vars => PitFit' BY StepPitFit
<1>2. QED BY InitPitFit, <1>1, PTL DEF Spec

\* Lengths stay within two bytes and counts within an int, whatever is written.
THEOREM PitTypeCorrect == Spec => []TypeOK
BY PitInvariance, PTL DEF PitFit

\* A counter that is held, stopped or clocked has no timer, one that counts has its own.
THEOREM TimerFollowsCounter == Spec => []TimerFollows
<1>1. PitFit => TimerFollows BY DEF PitFit, Follows, TimerFollows
<1>2. QED BY <1>1, PitInvariance, PTL

\* In modes 0, 1, 4 and 5 a stopped count reads back as what it last was.
THEOREM StoppedReadsBack == Spec => StopKeepsCount
<1>1. PitFit /\ [Next]_vars =>
        [c.on /\ ~c'.on /\ ~c.disabled /\ c.m \notin {2, 3} => Shown(c') = Shown(c)]_vars
  BY StepPitFit DEF Keeps
<1>2. QED BY <1>1, PitInvariance, PTL DEF Spec, StopKeepsCount

\* The second byte of a read belongs to the first.
THEOREM BytesOfOneMoment == Spec => []ReadsAgree
BY PitInvariance, PTL DEF PitFit

-----------------------------------------------------------------------------
(* When the output changes next. *)

\* A counter's next output change is a full count ahead at most, and no later than its
\* timer is ever served.
InReach(d) == d.on => -Late <= d.due /\ d.due <= Wrap

\* That of every counter but the one whose clock can be switched: its timer is set for what
\* count holds, which may be below zero or above a full count by then.
NextChangeNear == nr # "refresh" => InReach(c)

\* The end of every handler.
LEMMA SettledNear ==
  ASSUME NEW d \in Counter, InReach(d)
  PROVE  InReach(Settled(d))
<1> DEFINE run == d.enabled /\ d.using /\ ~d.disabled
           e == [d EXCEPT !.running = run]
<1>1. e \in Counter /\ e.on = d.on /\ e.due = d.due
  <2>1. run \in BOOLEAN OBVIOUS
  <2> HIDE DEF run
  <2>2. QED BY <2>1 DEF Counter
<1>2. Settled(d) \in {e, Stopped(e)} BY DEF Settled
<1> HIDE DEF e
<1>3. InReach(e) BY <1>1 DEF InReach
<1>4. Stopped(e) = e \/ ~Stopped(e).on
  <2>1. CASE Stopped(e) = [e EXCEPT !.count = Shown(e) % Modulus, !.on = FALSE, !.due = 0]
    BY <1>1, <2>1 DEF Counter
  <2>2. QED BY <1>1, <2>1, StoppedIs
<1>5. CASE ~Stopped(e).on BY <1>2, <1>3, <1>5 DEF InReach
<1>6. QED BY <1>2, <1>3, <1>4, <1>5

\* A timer that is started, alone or with a count.
LEMMA BegunNear ==
  ASSUME NEW d \in Counter, InReach(d), NEW n \in 0..Wrap
  PROVE  InReach(Timed(d, n)) /\ InReach(Begun(d, n))
<1>1. Late \in Nat /\ Wrap \in Nat BY PitAssumption, Sizes
<1>2. Timed(d, n) \in Counter BY TimedIs
<1>3. InReach(Timed(d, n))
  <2>1. CASE d.using
    <3>1. Timed(d, n).due = n BY <2>1 DEF Timed, Counter
    <3>2. QED BY <1>1, <3>1 DEF InReach
  <2>2. CASE ~d.using BY <2>2 DEF Timed
  <2>3. QED BY <2>1, <2>2
<1>4. Begun(d, n).on = Timed(d, n).on /\ Begun(d, n).due = Timed(d, n).due
  BY <1>2 DEF Begun, Counter
<1>5. QED BY <1>3, <1>4 DEF InReach

\* The times timers are started for and advanced by.
LEMMA SpansNear ==
  ASSUME NEW d \in Counter
  PROVE  /\ Length(d) \in 1..Wrap /\ Length(d) - 1 \in 0..Wrap /\ Half(Length(d)) \in 0..Wrap
         /\ Length(d) \div 2 \in 0..Wrap /\ Wrap - 1 \in 0..Wrap
<1>1. Length(d) \in 1..Wrap BY Lengths
<1>2. Wrap \in Nat /\ Wrap >= 4 BY Sizes
<1>3. \A k \in 1..Wrap : k - 1 \in 0..Wrap /\ (k + 1) \div 2 \in 0..Wrap /\ k \div 2 \in 0..Wrap
  BY <1>2
<1>4. QED BY <1>1, <1>2, <1>3 DEF Half

\* pit_load.
LEMMA LoadedNear ==
  ASSUME NEW d \in Counter, InReach(d)
  PROVE  InReach(Loaded(d))
<1> DEFINE late == d.m = 4 /\ ~Starts(d)
           e == [d EXCEPT !.newcount = late, !.disabled = FALSE]
           n == CASE d.m = 2 -> Length(d) - 1 [] d.m = 3 -> Half(Length(d)) [] OTHER -> Length(d)
           f == IF Starts(d) THEN Begun(e, n) ELSE e
           on == IF d.m \in {1, 5} THEN TRUE ELSE d.gate
           g == [f EXCEPT !.initial = FALSE, !.enabled = on]
<1>1. late \in BOOLEAN /\ on \in BOOLEAN /\ n \in 0..Wrap
  <2>1. late \in BOOLEAN /\ on \in BOOLEAN BY DEF Counter
  <2>2. Wrap \in Nat BY Sizes
  <2>3. n \in 0..Wrap BY <2>2, SpansNear
  <2>4. QED BY <2>1, <2>3
<1>2. e \in Counter /\ e.on = d.on /\ e.due = d.due BY <1>1 DEF Counter
<1>3. Loaded(d) = Settled(g) BY DEF Loaded
<1> HIDE DEF e, n, on
<1>4. InReach(e) /\ n \in Int BY <1>1, <1>2 DEF InReach
<1>5. f \in Counter /\ InReach(f) BY <1>1, <1>2, <1>4, BegunIs, BegunNear
<1> HIDE DEF f
<1>6. g \in Counter /\ g.on = f.on /\ g.due = f.due BY <1>1, <1>5 DEF Counter
<1> HIDE DEF g
<1>7. InReach(g) BY <1>5, <1>6 DEF InReach
<1>8. QED BY <1>3, <1>6, <1>7, SettledNear

\* pit_set_gate_no_timer.
LEMMA GatedNear ==
  ASSUME NEW d \in Counter, InReach(d), NEW gate \in BOOLEAN
  PROVE  InReach(Gated(d, gate))
<1> DEFINE rising == gate /\ ~d.gate
           n == IF d.m = 3 THEN Half(Length(d)) ELSE Length(d)
           e == IF d.m \in {0, 4} THEN (IF d.running THEN d ELSE Timed(d, n))
                ELSE IF rising THEN Begun(d, n) ELSE d
           on == IF d.m \in {1, 5} THEN d.enabled \/ rising ELSE gate
           g == [e EXCEPT !.enabled = on, !.gate = gate]
<1>1. n \in 0..Wrap /\ on \in BOOLEAN
  <2>1. on \in BOOLEAN BY DEF Counter
  <2>2. Wrap \in Nat BY Sizes
  <2>3. n \in 0..Wrap BY <2>2, SpansNear
  <2>4. QED BY <2>1, <2>3
<1>2. Gated(d, gate) = IF d.disabled THEN [d EXCEPT !.gate = gate] ELSE Settled(g)
  BY DEF Gated
<1>3. [d EXCEPT !.gate = gate].on = d.on /\ [d EXCEPT !.gate = gate].due = d.due BY DEF Counter
<1>4. CASE d.disabled BY <1>2, <1>3, <1>4 DEF InReach
<1> HIDE DEF n, on
<1>5. e \in Counter /\ InReach(e) BY <1>1, TimedIs, BegunIs, BegunNear
<1> HIDE DEF e
<1>6. g \in Counter /\ g.on = e.on /\ g.due = e.due BY <1>1, <1>5 DEF Counter
<1> HIDE DEF g
<1>7. InReach(g) BY <1>5, <1>6 DEF InReach
<1>8. CASE ~d.disabled BY <1>2, <1>6, <1>7, <1>8, SettledNear
<1>9. QED BY <1>4, <1>8

\* pit_over, called by a timer that is due or by a clock.
LEMMA OverNear ==
  ASSUME NEW d \in Counter, ~d.on, d.using => -Late <= d.due /\ d.due <= 0
  PROVE  InReach(Over(d))
<1>1. \A n \in 0..Wrap : Advanced(d, n) \in Counter /\ InReach(Advanced(d, n))
  <2> TAKE n \in 0..Wrap
  <2>1. n \in Int /\ n >= 0 /\ n <= Wrap /\ Wrap \in Nat /\ Late \in Nat /\ d.due \in Int
    BY Sizes, PitAssumption DEF Counter
  <2>2. CASE d.using
    <3>1. Advanced(d, n).due = d.due + n BY <2>2 DEF Advanced, Counter
    <3>2. -Late <= d.due + n /\ d.due + n <= Wrap
      <4>1. -Late <= d.due /\ d.due <= 0 BY <2>2
      <4>2. \A x, y, w, m \in Int : m <= x /\ x <= 0 /\ y >= 0 /\ y <= w => m <= x + y /\ x + y <= w
        OBVIOUS
      <4>3. -Late \in Int /\ Wrap \in Int BY <2>1
      <4>4. QED BY <2>1, <4>1, <4>2, <4>3
    <3>3. Advanced(d, n) \in Counter BY <2>1, AdvancedIs
    <3>4. QED BY <3>1, <3>2, <3>3 DEF InReach
  <2>3. CASE ~d.using
    <3>1. Advanced(d, n) \in Counter /\ (Advanced(d, n).on <=> d.on \/ d.using) BY <2>1, AdvancedIs
    <3>2. ~Advanced(d, n).on BY <2>3, <3>1
    <3>3. QED BY <3>1, <3>2 DEF InReach
  <2>4. QED BY <2>2, <2>3
<1>2. /\ Wrap - 1 \in 0..Wrap /\ Length(d) \in 0..Wrap
      /\ Half(Length(d)) \in 0..Wrap /\ Length(d) \div 2 \in 0..Wrap
  BY SpansNear, Sizes
<1>3. CASE d.disabled BY <1>1, <1>2, <1>3 DEF Over, Overrun
<1>4. CASE ~d.disabled
  <2> DEFINE Near(x) == x \in Counter /\ InReach(x)
             o == Overrun(d)
             one == Advanced(d, Length(d))
             half == Advanced(d, IF d.out THEN Length(d) \div 2 ELSE Half(Length(d)))
             x == CASE d.m \in {0, 1} -> [o EXCEPT !.out = @ \/ ~d.thit, !.thit = TRUE]
                    [] d.m = 2 -> [one EXCEPT !.out = TRUE]
                    [] d.m = 3 -> [half EXCEPT !.out = ~@]
                    [] d.m = 4 /\ d.newcount -> [one EXCEPT !.out = @ \/ ~d.thit, !.newcount = FALSE]
                    [] OTHER -> [o EXCEPT !.out = @ \/ ~d.thit, !.thit = TRUE]
  <2>1. Over(d) = Settled(x) BY <1>4 DEF Over
  <2>2. Near(o) /\ Near(one) /\ Near(half) BY <1>1, <1>2 DEF Overrun
  <2>3. \A a \in Counter : Near(a) =>
          /\ Near([a EXCEPT !.out = @ \/ ~d.thit, !.thit = TRUE])
          /\ Near([a EXCEPT !.out = TRUE]) /\ Near([a EXCEPT !.out = ~@])
          /\ Near([a EXCEPT !.out = @ \/ ~d.thit, !.newcount = FALSE])
    <3> TAKE a \in Counter
    <3> HAVE Near(a)
    <3>1. ASSUME NEW v \in BOOLEAN
          PROVE  Near([a EXCEPT !.out = v]) /\ Near([a EXCEPT !.out = v, !.thit = TRUE])
                 /\ Near([a EXCEPT !.out = v, !.newcount = FALSE])
      <4>1. Near([a EXCEPT !.out = v]) BY DEF Counter, InReach
      <4>2. Near([a EXCEPT !.out = v, !.thit = TRUE]) BY DEF Counter, InReach
      <4>3. Near([a EXCEPT !.out = v, !.newcount = FALSE]) BY DEF Counter, InReach
      <4> HIDE DEF Near
      <4>4. QED BY <4>1, <4>2, <4>3
    <3>2. (a.out \/ ~d.thit) \in BOOLEAN /\ (~a.out) \in BOOLEAN OBVIOUS
    <3>3. /\ [a EXCEPT !.out = @ \/ ~d.thit, !.thit = TRUE] = [a EXCEPT !.out = a.out \/ ~d.thit, !.thit = TRUE]
          /\ [a EXCEPT !.out = ~@] = [a EXCEPT !.out = ~a.out]
          /\ [a EXCEPT !.out = @ \/ ~d.thit, !.newcount = FALSE]
             = [a EXCEPT !.out = a.out \/ ~d.thit, !.newcount = FALSE]
      BY DEF Counter
    <3> HIDE DEF Near
    <3>4. QED BY <3>1, <3>2, <3>3
  <2> HIDE DEF o, one, half
  <2>4. Near(x)
    <3>1. /\ Near([o EXCEPT !.out = @ \/ ~d.thit, !.thit = TRUE])
          /\ Near([one EXCEPT !.out = TRUE]) /\ Near([half EXCEPT !.out = ~@])
          /\ Near([one EXCEPT !.out = @ \/ ~d.thit, !.newcount = FALSE])
      BY <2>2, <2>3
    <3> HIDE DEF Near
    <3>2. QED BY <3>1
  <2> HIDE DEF x
  <2>5. QED BY <2>1, <2>4, SettledNear
<1>5. QED BY <1>3, <1>4

\* Every step.
LEMMA NearStep ==
  ASSUME PitFit, NextChangeNear, [Next]_vars
  PROVE  NextChangeNear'
<1>1. c \in Counter /\ Follows(c) /\ Late \in Nat BY PitAssumption DEF PitFit, TypeOK
<1>2. SUFFICES ASSUME nr # "refresh", nr' = nr PROVE InReach(c')
  BY DEF NextChangeNear, Next, vars, Tick, Fire, Clock, SetGate, SetUsing, WriteControl, Latch, ReadBack,
         WriteByte, ReadStatus, ReadByte, Taken
<1>3. InReach(c) BY <1>2 DEF NextChangeNear
<1>4. CASE Tick
  <2>1. c'.on = c.on /\ c'.due = c.due - 1 /\ c.due \in Int BY <1>1, <1>4 DEF Tick, Counter
  <2>2. QED BY <1>1, <1>3, <1>4, <2>1, Sizes DEF Tick, InReach
<1>5. CASE Fire
  <2> DEFINE d == [c EXCEPT !.on = FALSE]
  <2>1. c.on /\ c.due <= 0 /\ c' = Over(d) BY <1>5 DEF Fire, Becomes
  <2>2. d \in Counter /\ ~d.on /\ d.due = c.due BY <1>1 DEF Counter
  <2> HIDE DEF d
  <2>3. QED BY <1>3, <2>1, <2>2, OverNear DEF InReach
<1>6. CASE Clock
  <2> DEFINE n == (c.count - (IF c.m = 3 THEN 2 ELSE 1)) % Modulus
             d == [c EXCEPT !.count = n]
  <2>1. ~c.using /\ c' \in {d, Over(d)} BY <1>1, <1>6 DEF Clock, Becomes, Counter
  <2>2. n \in 0..Modulus - 1 BY <1>1, Remainder DEF Counter
  <2> HIDE DEF n
  <2>3. d \in Counter /\ ~d.on /\ ~d.using BY <1>1, <2>1, <2>2 DEF Counter, Follows
  <2> HIDE DEF d
  <2>4. CASE c' = d BY <2>3, <2>4 DEF InReach
  <2>5. QED BY <2>1, <2>3, <2>4, OverNear
<1>7. CASE \E b \in BOOLEAN : SetGate(b)
  BY <1>1, <1>3, <1>7, GatedNear DEF SetGate, Becomes
<1>8. CASE \E b \in BOOLEAN : SetUsing(b) BY <1>2, <1>8 DEF SetUsing
<1>9. CASE \E w \in Words : WriteControl(w)
  <2>1. c'.on = c.on /\ c'.due = c.due BY <1>1, <1>9 DEF WriteControl, Becomes, Counter
  <2>2. QED BY <1>3, <2>1 DEF InReach
<1>10. CASE \E v \in Bytes : WriteByte(v)
  <2>1. PICK v \in Bytes : WriteByte(v) BY <1>10
  <2> DEFINE l == CASE port.wm = 1 -> v [] port.wm = 2 -> v * Base
                    [] port.wm = 0 -> (c.l % Base) + v * Base [] port.wm = 3 -> (c.l \div Base) * Base + v
             d == [c EXCEPT !.l = l]
  <2>2. c' \in {d, Loaded(d)} BY <2>1 DEF WriteByte, Becomes
  <2>3. l \in 0..Wrap - 1
    <3>1. v \in 0..Base - 1 /\ c.l \in 0..Base * Base - 1 BY <1>1, PitAssumption DEF Counter, Wrap
    <3>2. /\ v \in 0..Wrap - 1 /\ v * Base \in 0..Wrap - 1
          /\ (c.l % Base) + v * Base \in 0..Wrap - 1 /\ (c.l \div Base) * Base + v \in 0..Wrap - 1
      BY <3>1, Sizes, BytesOfLength
    <3>3. port.wm \in {0, 1, 2, 3} BY DEF PitFit, TypeOK
    <3>4. QED BY <3>2, <3>3
  <2> HIDE DEF l
  <2>4. d \in Counter /\ d.on = c.on /\ d.due = c.due BY <1>1, <2>3 DEF Counter
  <2> HIDE DEF d
  <2>5. InReach(d) BY <1>3, <2>4 DEF InReach
  <2>6. QED BY <2>2, <2>4, <2>5, LoadedNear
<1>11. CASE Latch
  <2>1. c'.on = c.on /\ c'.due = c.due BY <1>1, <1>11 DEF Latch, Counter
  <2>2. QED BY <1>3, <2>1 DEF InReach
<1>12. CASE (\E x, y \in BOOLEAN : ReadBack(x, y)) \/ ReadStatus \/ ReadByte \/ Taken \/ UNCHANGED vars
  BY <1>3, <1>12 DEF ReadBack, ReadStatus, ReadByte, Taken, vars
<1>13. QED
  BY <1>4, <1>5, <1>6, <1>7, <1>8, <1>9, <1>10, <1>11, <1>12 DEF Next

\* A counter that has a timer (TimerFollows: one that counts) changes its output within a
\* full count and the lateness of timers, whatever was written and gated meanwhile, though a
\* timer is advanced from when it was due and not from when it was served.
THEOREM ChangesAreNear == Spec => []NextChangeNear
<1>1. Init => NextChangeNear BY DEF Init, NextChangeNear, InReach
<1>2. PitFit /\ NextChangeNear /\ [Next]_vars => NextChangeNear' BY NearStep
<1>3. QED BY <1>1, <1>2, PitInvariance, PTL DEF Spec
=============================================================================
