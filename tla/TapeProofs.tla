----------------------------- MODULE TapeProofs -----------------------------
(***************************************************************************)
(* The tape for every chain, buffer, queue, catch-up and number of faults: *)
(* no movement is missing in what a viewer got since its last hello and    *)
(* none comes twice, and none goes out before its lane or the hold.        *)
(*                                                                         *)
(* The argument follows the frames. The buffer is a run of the chain's     *)
(* busy blocks that reaches as far as what was released; each frame in a    *)
(* stream's queue takes up where the one before it ends, the first where    *)
(* the tape ends; and what is released next takes up where the last ends.  *)
(***************************************************************************)
EXTENDS Tape, FiniteSetTheorems, SequenceTheorems, WellFoundedInduction, TLAPS

(* m's next busy block is n, and nothing was left out from a through b.    *)
Follows(m, n) == m < n /\ \A k \in Busy : ~(m < k /\ k < n)
Gapless(a, b) == a <= b /\ \A k \in Busy : ~(a < k /\ k <= b)

(* Busy blocks in order, and such a run with every one in between.         *)
Ordered(s) == \A i, j \in DOMAIN s : i < j => s[i] < s[j]
Run(s) ==
  /\ s \in Seq(Busy) /\ Ordered(s)
  /\ \A k \in Busy : s # <<>> /\ s[1] <= k /\ k <= s[Len(s)] => \E i \in DOMAIN s : s[i] = k

(* What was trimmed ends before the run begins, or within its first block. *)
Meets(through, s) ==
  s # <<>> => through <= s[1] /\ \A k \in Busy : ~(through < k /\ k < s[1])

(* A frame's movements in chain order; only its first block may be cut.    *)
GoodBlocks(bs) ==
  /\ bs \in Seq(Message)
  /\ \A i \in DOMAIN bs : bs[i].skip < Moves[bs[i].n]
  /\ \A i \in DOMAIN bs : i > 1 => bs[i].skip = 0 /\ Follows(bs[i - 1].n, bs[i].n)

Frames == [event : {"hello", "block"}, id : {Null} \cup Busy, blocks : Seq(Message)]

GoodFrame(f) ==
  /\ f \in Frames
  /\ GoodBlocks(f.blocks)
  /\ IF f.blocks = <<>> THEN f.id = Null /\ f.event = "hello"
                        ELSE f.id = f.blocks[Len(f.blocks)].n
  /\ f.event = "block" => Len(f.blocks) = 1 /\ f.blocks[1].skip = 0

(* A frame after one that ended the tape at p, Null if it showed nothing.  *)
Fits(p, f) == f.event = "hello" \/ p = Null \/ Follows(p, f.id)

GoodChunk(c) ==
  /\ \A j \in DOMAIN c : GoodFrame(c[j])
  /\ \A j \in DOMAIN c : j > 1 => Fits(c[j - 1].id, c[j])

TakesUp(p, c) == c # <<>> => Fits(p, c[1])
EndOf(p, c) == IF c = <<>> THEN p ELSE c[Len(c)].id

(* What the viewer has: a tape without a gap that ends with the newest      *)
(* block, unless the last hello was empty and it begins again.             *)
Viewers == [last : {Null} \cup Busy, newest : {Null} \cup Busy,
            kept : Nat, tape : Seq(Busy \X Nat)]

GoodViewer(v) ==
  /\ v \in Viewers
  /\ v.kept <= Len(v.tape)
  /\ \A k \in (v.kept + 1)..(Len(v.tape) - 1) : v.tape[k + 1] = NextMove(v.tape[k])
  /\ IF v.newest = Null THEN v.kept = Len(v.tape)
     ELSE /\ v.newest = v.last /\ v.kept < Len(v.tape)
          /\ v.tape[Len(v.tape)] = <<v.newest, Moves[v.newest]>>

(* The buffer is a run that reaches what was released.                     *)
BufferInv ==
  /\ Run(buffer) /\ trimmed \in -1..MaxBlock
  /\ Meets(trimmed, buffer)
  /\ lastReleased # Null =>
       Gapless(IF buffer = <<>> THEN trimmed ELSE buffer[Len(buffer)], lastReleased)

(* The next block published takes up where a stream ends.                  *)
Caught(p) == lastReleased # Null /\ p # Null => Gapless(p, lastReleased)

(* The frames on their way to the viewer: where each chunk takes up.       *)
Positions(q) == [1..(Len(q) + 1) -> {Null} \cup Busy]

Threads(at, q, p) ==
  /\ at[1] = p
  /\ \A i \in DOMAIN q : GoodChunk(q[i]) /\ TakesUp(at[i], q[i]) /\ at[i + 1] = EndOf(at[i], q[i])

StreamInv ==
  /\ conn \in {"closed", "open", "ended"} /\ (conn = "closed" => queue = <<>>)
  /\ queue \in Seq(Seq(Frames)) /\ Len(queue) <= HighWater
  /\ \E at \in Positions(queue) :
       Threads(at, queue, viewer.newest) /\ (conn = "open" => Caught(at[Len(queue) + 1]))

(* Between its two queries a cycle holds a target nothing was released      *)
(* past, and the movements up to it have their lane or were held.          *)
CycleInv ==
  /\ cursor \in 0..MaxBlock /\ icursor \in -1..MaxBlock /\ aged \in -1..MaxBlock
  /\ lanes \in BOOLEAN
  /\ lastReleased \in {Null} \cup 0..MaxBlock
  /\ tailer \in [at : {"idle", "reseed", "publish"}, to : {Null} \cup 0..MaxBlock]
  /\ tailer.at = "idle" => tailer = Idle
  /\ tailer.at # "idle" => tailer.to \in 0..cursor /\ (lanes => tailer.to <= icursor \/ tailer.to <= aged)
  /\ tailer.at = "publish" => lastReleased # Null /\ lastReleased < tailer.to

TapeInv == CycleInv /\ BufferInv /\ StreamInv /\ GoodViewer(viewer)

-----------------------------------------------------------------------------
(* What holds at 0 and is handed on from each number to the next holds up  *)
(* to n.                                                                   *)
LEMMA HandedOn ==
  ASSUME NEW n \in Nat, NEW S, 0 \in S, \A i \in 1..n : i - 1 \in S => i \in S
  PROVE  \A i \in 0..n : i \in S
<1> DEFINE bad == {i \in 0..n : i \notin S}
<1>1. SUFFICES ASSUME bad # {} PROVE FALSE
  OBVIOUS
<1>2. bad \in SUBSET Nat
  OBVIOUS
<1> HIDE DEF bad
<1>3. PICK m \in bad : \A k \in bad : ~ (<<k, m>> \in OpToRel(<, Nat))
  BY <1>1, <1>2, NatLessThanWellFounded, WFMin
<1>4. m \in 0..n /\ m \notin S
  BY <1>3 DEF bad
<1>5. m \in 1..n /\ m - 1 \notin S
  BY <1>4
<1>6. m - 1 \in bad
  BY <1>5 DEF bad
<1>7. <<m - 1, m>> \in OpToRel(<, Nat)
  BY <1>5 DEF OpToRel
<1>8. QED BY <1>3, <1>6, <1>7

(* A function of 0..n may be defined by its first value and a step.        *)
Unfolded(g, n, a, step) == g[0] = a /\ \A i \in 1..n : g[i] = step[<<i, g[i - 1]>>]

LEMMA Unfolding ==
  ASSUME NEW n \in Nat, NEW V, NEW a \in V, NEW step \in [(1..n) \X V -> V]
  PROVE  \E g \in [0..n -> V] : Unfolded(g, n, a, step)
<1> DEFINE S == {m \in 0..n : \E g \in [0..m -> V] : Unfolded(g, m, a, step)}
<1>1. 0 \in S
  <2> DEFINE g == [i \in 0..0 |-> a]
  <2>1. g \in [0..0 -> V] /\ Unfolded(g, 0, a, step)
    BY DEF Unfolded
  <2>2. 0 \in 0..n
    OBVIOUS
  <2> HIDE DEF g
  <2>3. QED BY <2>1, <2>2
<1>2. ASSUME NEW m \in 1..n, m - 1 \in S PROVE m \in S
  <2>1. PICK g \in [0..(m - 1) -> V] : Unfolded(g, m - 1, a, step)
    BY <1>2
  <2> DEFINE h == [i \in 0..m |-> IF i = m THEN step[<<m, g[m - 1]>>] ELSE g[i]]
  <2>2. g[m - 1] \in V /\ <<m, g[m - 1]>> \in (1..n) \X V
    OBVIOUS
  <2>3. step[<<m, g[m - 1]>>] \in V
    BY <2>2
  <2>4. h \in [0..m -> V]
    BY <2>3
  <2>5. \A i \in 0..m : h[i] = IF i = m THEN step[<<m, g[m - 1]>>] ELSE g[i]
    OBVIOUS
  <2> HIDE DEF h
  <2>6. h[0] = a
    BY <2>1, <2>5 DEF Unfolded
  <2>7. ASSUME NEW i \in 1..m PROVE h[i] = step[<<i, h[i - 1]>>]
    <3>1. h[i - 1] = g[i - 1]
      BY <2>5
    <3>2. CASE i = m
      BY <2>5, <3>1, <3>2
    <3>3. CASE i # m
      <4>1. i \in 1..(m - 1) /\ i \in 0..m
        BY <3>3
      <4>2. h[i] = g[i]
        BY <2>5, <3>3, <4>1
      <4>3. g[i] = step[<<i, g[i - 1]>>]
        BY <2>1, <4>1 DEF Unfolded
      <4>4. QED BY <3>1, <4>2, <4>3
    <3>4. QED BY <3>2, <3>3
  <2>8. Unfolded(h, m, a, step)
    BY <2>6, <2>7 DEF Unfolded
  <2>9. m \in 0..n
    OBVIOUS
  <2>10. QED BY <2>4, <2>8, <2>9
<1>3. \A i \in 0..n : i \in S
  <2> HIDE DEF S
  <2>1. QED BY <1>1, <1>2, HandedOn
<1>4. n \in S
  BY <1>3
<1>5. QED BY <1>4

(* A nonempty set of numbers up to a bound has a greatest one.             *)
LEMMA Greatest ==
  ASSUME NEW n \in Int, NEW S, S # {}, \A x \in S : x \in Int /\ x <= n
  PROVE  Max(S) \in S /\ \A x \in S : x <= Max(S)
<1> DEFINE down == {n - x : x \in S}
<1>1. down \in SUBSET Nat /\ down # {}
  OBVIOUS
<1> HIDE DEF down
<1>2. PICK d \in down : \A k \in down : ~ (<<k, d>> \in OpToRel(<, Nat))
  BY <1>1, NatLessThanWellFounded, WFMin
<1>3. \A k \in down : ~ (k < d)
  BY <1>1, <1>2 DEF OpToRel
<1>4. PICK x \in S : d = n - x
  BY <1>2 DEF down
<1>5. ASSUME NEW y \in S PROVE x >= y
  <2>1. n - y \in down
    BY DEF down
  <2>2. ~ (n - y < n - x) /\ x \in Int /\ y \in Int
    BY <1>3, <1>4, <2>1
  <2>3. QED BY <2>2
<1>6. Max(S) \in S /\ \A y \in S : Max(S) >= y
  BY <1>5 DEF Max
<1>7. QED BY <1>6

(* A nonempty set of natural numbers has a least one.                      *)
LEMMA LeastOf ==
  ASSUME NEW S \in SUBSET Nat, S # {}
  PROVE  Min(S) \in S /\ \A x \in S : Min(S) <= x
<1>1. PICK b \in S : \A c \in S : ~ (<<c, b>> \in OpToRel(<, Nat))
  BY NatLessThanWellFounded, WFMin
<1>2. \A c \in S : ~ (c < b)
  BY <1>1 DEF OpToRel
<1>3. \A c \in S : c >= b
  BY <1>2
<1>4. Min(S) \in S /\ \A c \in S : c >= Min(S)
  BY <1>3 DEF Min
<1>5. QED BY <1>4

-----------------------------------------------------------------------------
(* filter: what Among keeps, and that it keeps the order.                  *)
LEMMA AmongUnfolds ==
  ASSUME NEW s \in Seq(Int), NEW some
  PROVE  \E f : /\ f = [i \in 0..Len(s) |-> IF i = 0 THEN <<>>
                         ELSE f[i - 1] \o (IF s[i] \in some THEN <<s[i]>> ELSE <<>>)]
                /\ Among(s, some) = f[Len(s)]
<1> DEFINE step == [p \in (1..Len(s)) \X Seq(Int) |->
                      p[2] \o (IF s[p[1]] \in some THEN <<s[p[1]]>> ELSE <<>>)]
<1>1. step \in [(1..Len(s)) \X Seq(Int) -> Seq(Int)]
  OBVIOUS
<1>2. <<>> \in Seq(Int) /\ Len(s) \in Nat
  OBVIOUS
<1>3. PICK g \in [0..Len(s) -> Seq(Int)] : Unfolded(g, Len(s), <<>>, step)
  <2> HIDE DEF step
  <2>1. QED BY <1>1, <1>2, Unfolding
<1>4. g = [i \in 0..Len(s) |-> IF i = 0 THEN <<>>
             ELSE g[i - 1] \o (IF s[i] \in some THEN <<s[i]>> ELSE <<>>)]
  <2>1. ASSUME NEW i \in 1..Len(s)
        PROVE  g[i] = g[i - 1] \o (IF s[i] \in some THEN <<s[i]>> ELSE <<>>)
    <3>0. i - 1 \in 0..Len(s)
      BY <1>2
    <3>1. <<i, g[i - 1]>> \in (1..Len(s)) \X Seq(Int)
      BY <3>0
    <3>2. g[i] = step[<<i, g[i - 1]>>]
      BY <1>3 DEF Unfolded
    <3>3. QED BY <3>1, <3>2
  <2>2. g[0] = <<>>
    BY <1>3 DEF Unfolded
  <2>3. \A i \in 0..Len(s) : i = 0 \/ i \in 1..Len(s)
    BY <1>2
  <2>4. \A i \in 0..Len(s) : g[i] = IF i = 0 THEN <<>>
           ELSE g[i - 1] \o (IF s[i] \in some THEN <<s[i]>> ELSE <<>>)
    BY <2>1, <2>2, <2>3
  <2> HIDE DEF step
  <2>5. QED BY <2>4
<1> DEFINE f == CHOOSE h : h = [i \in 0..Len(s) |-> IF i = 0 THEN <<>>
                     ELSE h[i - 1] \o (IF s[i] \in some THEN <<s[i]>> ELSE <<>>)]
<1>5. f = [i \in 0..Len(s) |-> IF i = 0 THEN <<>>
             ELSE f[i - 1] \o (IF s[i] \in some THEN <<s[i]>> ELSE <<>>)]
  BY <1>4
<1>6. Among(s, some) = f[Len(s)]
  BY DEF Among
<1>7. QED BY <1>5, <1>6

LEMMA Appended ==
  ASSUME NEW V, NEW w \in Seq(V), NEW x \in V
  PROVE  /\ w \o <<x>> \in Seq(V) /\ Len(w \o <<x>>) = Len(w) + 1
         /\ \A j \in 1..Len(w) : (w \o <<x>>)[j] = w[j]
         /\ (w \o <<x>>)[Len(w) + 1] = x
         /\ w \o <<>> = w
OBVIOUS

(* The blocks among the first i of s that were asked for, in order.        *)
Kept(w, s, i, some) ==
  /\ w \in Seq(Int) /\ Ordered(w)
  /\ \A j \in DOMAIN w : w[j] \in some /\ \E k \in 1..i : s[k] = w[j]
  /\ \A k \in 1..i : s[k] \in some => \E j \in DOMAIN w : w[j] = s[k]

LEMMA KeptStep ==
  ASSUME NEW s \in Seq(Int), Ordered(s), NEW some, NEW i \in 1..Len(s),
         NEW w, Kept(w, s, i - 1, some)
  PROVE  Kept(w \o (IF s[i] \in some THEN <<s[i]>> ELSE <<>>), s, i, some)
<1>1. /\ w \in Seq(Int) /\ Ordered(w) /\ s[i] \in Int
      /\ \A j \in DOMAIN w : w[j] \in some /\ \E k \in 1..(i - 1) : s[k] = w[j]
      /\ \A k \in 1..(i - 1) : s[k] \in some => \E j \in DOMAIN w : w[j] = s[k]
  BY DEF Kept
<1>2. CASE s[i] \notin some
  <2>1. w \o (IF s[i] \in some THEN <<s[i]>> ELSE <<>>) = w
    BY <1>1, <1>2
  <2>2. \A k \in 1..i : s[k] \in some => k \in 1..(i - 1)
    BY <1>2
  <2>3. \A k \in 1..(i - 1) : k \in 1..i
    OBVIOUS
  <2>4. QED BY <1>1, <2>1, <2>2, <2>3 DEF Kept
<1>3. CASE s[i] \in some
  <2> DEFINE v == w \o <<s[i]>>
  <2>1. /\ v \in Seq(Int) /\ Len(v) = Len(w) + 1 /\ Len(w) \in Nat
        /\ \A j \in 1..Len(w) : v[j] = w[j]
        /\ v[Len(w) + 1] = s[i]
    BY <1>1, Appended
  <2>2. DOMAIN v = 1..(Len(w) + 1) /\ DOMAIN w = 1..Len(w)
    BY <1>1, <2>1
  <2>3. w \o (IF s[i] \in some THEN <<s[i]>> ELSE <<>>) = v
    BY <1>3
  <2> HIDE DEF v
  <2>4. \A j \in DOMAIN w : w[j] < s[i]
    <3>1. TAKE j \in DOMAIN w
    <3>2. PICK k \in 1..(i - 1) : s[k] = w[j]
      BY <1>1
    <3>3. s[k] < s[i]
      BY <3>2 DEF Ordered
    <3>4. QED BY <3>2, <3>3
  <2>5. Ordered(v)
    <3>1. SUFFICES ASSUME NEW a \in DOMAIN v, NEW b \in DOMAIN v, a < b
                   PROVE  v[a] < v[b]
      BY DEF Ordered
    <3>2. a \in 1..Len(w)
      BY <2>1, <2>2, <3>1
    <3>3. CASE b = Len(w) + 1
      BY <2>1, <2>2, <2>4, <3>2, <3>3
    <3>4. CASE b # Len(w) + 1
      <4>1. b \in 1..Len(w)
        BY <2>1, <2>2, <3>4
      <4>2. QED BY <1>1, <2>1, <2>2, <3>1, <3>2, <4>1 DEF Ordered
    <3>5. QED BY <3>3, <3>4
  <2>6. \A j \in DOMAIN v : v[j] \in some /\ \E k \in 1..i : s[k] = v[j]
    <3>1. TAKE j \in DOMAIN v
    <3>2. CASE j = Len(w) + 1
      BY <1>3, <2>1, <3>2
    <3>3. CASE j # Len(w) + 1
      <4>1. j \in 1..Len(w)
        BY <2>1, <2>2, <3>3
      <4>2. PICK k \in 1..(i - 1) : s[k] = w[j]
        BY <1>1, <2>2, <4>1
      <4>3. k \in 1..i
        BY <4>2
      <4>4. QED BY <1>1, <2>1, <2>2, <4>1, <4>2, <4>3
    <3>4. QED BY <3>2, <3>3
  <2>7. \A k \in 1..i : s[k] \in some => \E j \in DOMAIN v : v[j] = s[k]
    <3>1. SUFFICES ASSUME NEW k \in 1..i, s[k] \in some PROVE \E j \in DOMAIN v : v[j] = s[k]
      OBVIOUS
    <3>2. CASE k = i
      <4>1. Len(w) + 1 \in DOMAIN v
        BY <2>1, <2>2
      <4>2. QED BY <2>1, <3>2, <4>1
    <3>3. CASE k # i
      <4>1. k \in 1..(i - 1)
        BY <3>3
      <4>2. PICK j \in DOMAIN w : w[j] = s[k]
        BY <1>1, <3>1, <4>1
      <4>3. j \in DOMAIN v /\ v[j] = w[j]
        BY <2>1, <2>2
      <4>4. QED BY <4>2, <4>3
    <3>4. QED BY <3>2, <3>3
  <2>8. QED BY <2>1, <2>3, <2>5, <2>6, <2>7 DEF Kept
<1>4. QED BY <1>2, <1>3

LEMMA AmongKeeps ==
  ASSUME NEW s \in Seq(Int), Ordered(s), NEW some
  PROVE  Kept(Among(s, some), s, Len(s), some)
<1>1. PICK f : /\ f = [i \in 0..Len(s) |-> IF i = 0 THEN <<>>
                         ELSE f[i - 1] \o (IF s[i] \in some THEN <<s[i]>> ELSE <<>>)]
               /\ Among(s, some) = f[Len(s)]
  BY AmongUnfolds
<1>2. Len(s) \in Nat
  OBVIOUS
<1> DEFINE S == {i \in 0..Len(s) : Kept(f[i], s, i, some)}
<1>3. 0 \in S
  <2>1. f[0] = <<>>
    BY <1>1, <1>2
  <2>2. Kept(<<>>, s, 0, some)
    BY DEF Kept, Ordered
  <2>3. QED BY <1>2, <2>1, <2>2
<1>4. ASSUME NEW i \in 1..Len(s), i - 1 \in S PROVE i \in S
  <2>0. i \in 0..Len(s) /\ i # 0
    BY <1>2
  <2>1. f[i] = f[i - 1] \o (IF s[i] \in some THEN <<s[i]>> ELSE <<>>)
    BY <1>1, <2>0, Zenon
  <2>2. Kept(f[i], s, i, some)
    BY <1>4, <2>1, KeptStep
  <2>3. QED BY <1>2, <2>2
<1>5. \A i \in 0..Len(s) : i \in S
  <2> HIDE DEF S
  <2>1. QED BY <1>2, <1>3, <1>4, HandedOn
<1>6. QED BY <1>1, <1>2, <1>5

-----------------------------------------------------------------------------
(* Runs of busy blocks.                                                    *)
LEMMA BusyBlocks == Busy \subseteq 1..MaxBlock /\ \A n \in Busy : Moves[n] \in Nat \ {0}
BY MovesAssumption DEF Busy, Blocks

LEMMA SeqTyped ==
  ASSUME NEW w \in Seq(Int), NEW V, \A j \in DOMAIN w : w[j] \in V
  PROVE  w \in Seq(V)
<1>1. w \in [1..Len(w) -> V] /\ Len(w) \in Nat
  OBVIOUS
<1>2. QED BY <1>1

LEMMA Listed ==
  ASSUME NEW n \in Nat, NEW V, NEW w \in [1..n -> V]
  PROVE  w \in Seq(V) /\ Len(w) = n /\ DOMAIN w = 1..n
OBVIOUS

(* What a query of a range returns: every busy block of it, in order.      *)
LEMMA InRangeIs ==
  ASSUME NEW a \in Int, NEW b \in Int
  PROVE  /\ Run(InRange(a, b))
         /\ \A i \in DOMAIN InRange(a, b) : a < InRange(a, b)[i] /\ InRange(a, b)[i] <= b
         /\ \A k \in Busy : a < k /\ k <= b => \E i \in DOMAIN InRange(a, b) : InRange(a, b)[i] = k
<1> DEFINE s == [n \in Blocks |-> n]
           some == {n \in Busy : a < n /\ n <= b}
           w == Among(s, some)
<1>1. s \in Seq(Int) /\ Len(s) = MaxBlock /\ MaxBlock \in Nat /\ DOMAIN s = 1..MaxBlock
  BY BoundsAssumption DEF Blocks
<1>2. Ordered(s)
  BY DEF Ordered
<1>3. \A k \in 1..MaxBlock : s[k] = k
  BY DEF Blocks
<1>4. InRange(a, b) = w
  BY DEF InRange
<1> HIDE DEF s, w
<1>5. Kept(w, s, Len(s), some)
  BY <1>1, <1>2, AmongKeeps DEF w
<1>6. /\ w \in Seq(Int) /\ Ordered(w)
      /\ \A j \in DOMAIN w : w[j] \in some
      /\ \A k \in 1..MaxBlock : k \in some => \E j \in DOMAIN w : w[j] = k
  BY <1>1, <1>3, <1>5 DEF Kept
<1>7. w \in Seq(Busy)
  BY <1>6, SeqTyped
<1>8. \A k \in Busy : a < k /\ k <= b => \E j \in DOMAIN w : w[j] = k
  BY <1>6, BusyBlocks
<1>9. \A j \in DOMAIN w : a < w[j] /\ w[j] <= b
  BY <1>6
<1>10. Run(w)
  <2>1. SUFFICES ASSUME NEW k \in Busy, w # <<>>, w[1] <= k, k <= w[Len(w)]
                 PROVE  \E i \in DOMAIN w : w[i] = k
    BY <1>6, <1>7 DEF Run
  <2>2. 1 \in DOMAIN w /\ Len(w) \in DOMAIN w
    BY <1>7, <2>1
  <2>3. a < w[1] /\ w[Len(w)] <= b
    BY <1>9, <2>2
  <2>4. w[1] \in Int /\ w[Len(w)] \in Int /\ k \in Int
    BY <1>6, <2>2, BusyBlocks
  <2>5. a < k /\ k <= b
    BY <2>1, <2>3, <2>4
  <2>6. QED BY <1>8, <2>5
<1>11. QED BY <1>4, <1>8, <1>9, <1>10

(* Neighbours in a run follow each other on the chain, and it is in order. *)
LEMMA RunFacts ==
  ASSUME NEW s, Run(s)
  PROVE  /\ s \in Seq(Busy) /\ s \in Seq(Int) /\ Len(s) \in Nat /\ DOMAIN s = 1..Len(s)
         /\ \A i \in 1..Len(s) : s[i] \in Busy /\ s[i] \in 1..MaxBlock
         /\ \A i, j \in 1..Len(s) : i <= j => s[i] <= s[j]
         /\ \A i, j \in 1..Len(s) : i < j => s[i] < s[j]
         /\ \A i \in 1..Len(s) : i > 1 => Follows(s[i - 1], s[i])
<1>1. /\ s \in Seq(Busy) /\ Len(s) \in Nat /\ DOMAIN s = 1..Len(s)
      /\ \A i \in 1..Len(s) : s[i] \in Busy /\ s[i] \in 1..MaxBlock
  <2>1. s \in Seq(Busy)
    BY DEF Run
  <2>2. Len(s) \in Nat /\ DOMAIN s = 1..Len(s) /\ \A i \in 1..Len(s) : s[i] \in Busy
    BY <2>1
  <2>3. QED BY <2>1, <2>2, BusyBlocks
<1>2. \A i, j \in 1..Len(s) : i < j => s[i] < s[j]
  BY <1>1 DEF Run, Ordered
<1>3. \A i, j \in 1..Len(s) : i <= j => s[i] <= s[j]
  <2>1. SUFFICES ASSUME NEW i \in 1..Len(s), NEW j \in 1..Len(s), i <= j
                 PROVE  s[i] <= s[j]
    OBVIOUS
  <2>2. i = j \/ i < j
    BY <2>1
  <2>3. QED BY <1>1, <1>2, <2>2
<1>4. ASSUME NEW i \in 1..Len(s), i > 1 PROVE Follows(s[i - 1], s[i])
  <2>1. i - 1 \in 1..Len(s) /\ 1 \in 1..Len(s) /\ Len(s) \in 1..Len(s)
    BY <1>1, <1>4
  <2>2. s[i - 1] < s[i]
    BY <1>2, <2>1
  <2>3. ASSUME NEW k \in Busy, s[i - 1] < k, k < s[i] PROVE FALSE
    <3>1. s[1] <= s[i - 1] /\ s[i] <= s[Len(s)]
      BY <1>1, <1>3, <2>1
    <3>2. k \in Int /\ s[1] \in Int /\ s[Len(s)] \in Int /\ s[i] \in Int /\ s[i - 1] \in Int
      BY <1>1, <2>1, BusyBlocks
    <3>3. s[1] <= k /\ k <= s[Len(s)] /\ s # <<>>
      BY <1>1, <2>3, <3>1, <3>2
    <3>4. PICK j \in 1..Len(s) : s[j] = k
      BY <1>1, <3>3 DEF Run
    <3>5. ~(j <= i - 1) /\ ~(i <= j)
      BY <1>1, <1>3, <2>1, <2>3, <3>2, <3>4
    <3>6. QED BY <3>5
  <2>4. QED BY <2>2, <2>3 DEF Follows
<1>5. s \in Seq(Int)
  BY <1>1
<1>6. QED BY <1>1, <1>2, <1>3, <1>4, <1>5

(* A run cut at the front is a run that ends where it did.                 *)
LEMMA SuffixRun ==
  ASSUME NEW s, Run(s), NEW first \in 1..Len(s)
  PROVE  LET w == SubSeq(s, first, Len(s))
         IN /\ Run(w) /\ w # <<>> /\ Len(w) = Len(s) - first + 1
            /\ w[1] = s[first] /\ w[Len(w)] = s[Len(s)]
            /\ \A j \in 1..Len(w) : w[j] = s[first + j - 1]
<1> DEFINE w == SubSeq(s, first, Len(s))
<1>1. /\ s \in Seq(Busy) /\ Len(s) \in Nat /\ DOMAIN s = 1..Len(s)
      /\ \A i \in 1..Len(s) : s[i] \in Busy /\ s[i] \in 1..MaxBlock
      /\ \A i, j \in 1..Len(s) : i < j => s[i] < s[j]
      /\ \A i, j \in 1..Len(s) : i <= j => s[i] <= s[j]
  BY RunFacts
<1>2. /\ w \in Seq(Busy) /\ Len(w) = Len(s) - first + 1
      /\ \A j \in 1..Len(w) : w[j] = s[first + j - 1]
  BY <1>1, SubSeqProperties
<1> HIDE DEF w
<1>3. /\ w # <<>> /\ DOMAIN w = 1..Len(w) /\ Len(w) \in Nat \ {0}
      /\ w[1] = s[first] /\ w[Len(w)] = s[Len(s)]
  <2>1. Len(w) \in Nat \ {0} /\ DOMAIN w = 1..Len(w) /\ w # <<>>
    BY <1>1, <1>2
  <2>2. 1 \in 1..Len(w) /\ Len(w) \in 1..Len(w)
    BY <2>1
  <2>3. first + 1 - 1 = first /\ first + Len(w) - 1 = Len(s)
    BY <1>1, <1>2
  <2>4. w[1] = s[first + 1 - 1] /\ w[Len(w)] = s[first + Len(w) - 1]
    BY <1>2, <2>2
  <2>5. QED BY <2>1, <2>3, <2>4
<1>4. Ordered(w)
  <2>1. SUFFICES ASSUME NEW i \in 1..Len(w), NEW j \in 1..Len(w), i < j
                 PROVE  w[i] < w[j]
    BY <1>3 DEF Ordered
  <2>2. /\ first + i - 1 \in 1..Len(s) /\ first + j - 1 \in 1..Len(s)
        /\ first + i - 1 < first + j - 1
    BY <1>1, <1>2, <2>1
  <2>3. QED BY <1>1, <1>2, <2>2
<1>5. ASSUME NEW k \in Busy, w[1] <= k, k <= w[Len(w)] PROVE \E i \in DOMAIN w : w[i] = k
  <2>1. 1 \in 1..Len(s) /\ Len(s) \in 1..Len(s)
    BY <1>1
  <2>2. s[1] <= s[first]
    BY <1>1, <2>1
  <2>3. s[1] \in Int /\ s[first] \in Int /\ k \in Int /\ s[Len(s)] \in Int
    BY <1>1, <2>1, BusyBlocks
  <2>4. s[1] <= k /\ k <= s[Len(s)] /\ s[first] <= k
    BY <1>3, <1>5, <2>2, <2>3
  <2>5. PICK i \in 1..Len(s) : s[i] = k
    BY <1>1, <2>1, <2>4 DEF Run
  <2>6. ~(i < first)
    BY <1>1, <2>3, <2>4, <2>5
  <2>7. i - first + 1 \in 1..Len(w) /\ first + (i - first + 1) - 1 = i
    BY <1>1, <1>2, <2>6
  <2>8. w[i - first + 1] = k
    BY <1>2, <2>5, <2>7
  <2>9. QED BY <1>3, <2>7, <2>8
<1>6. Run(w)
  BY <1>2, <1>4, <1>5 DEF Run
<1>7. QED BY <1>2, <1>3, <1>6 DEF w

(* A run and the run that takes up where it ends are one.                  *)
LEMMA JoinedRun ==
  ASSUME NEW s, Run(s), NEW w, Run(w), s # <<>>, w # <<>>, Follows(s[Len(s)], w[1])
  PROVE  /\ Run(s \o w) /\ s \o w # <<>>
         /\ (s \o w)[1] = s[1] /\ (s \o w)[Len(s \o w)] = w[Len(w)]
<1> DEFINE v == s \o w
<1>1. /\ s \in Seq(Busy) /\ Len(s) \in Nat \ {0} /\ DOMAIN s = 1..Len(s)
      /\ \A i \in 1..Len(s) : s[i] \in Busy /\ s[i] \in 1..MaxBlock
      /\ \A i, j \in 1..Len(s) : i < j => s[i] < s[j]
      /\ \A i, j \in 1..Len(s) : i <= j => s[i] <= s[j]
  <2>1. s \in Seq(Busy)
    BY RunFacts
  <2>2. Len(s) \in Nat \ {0}
    BY <2>1
  <2>3. QED BY <2>2, RunFacts
<1>2. /\ w \in Seq(Busy) /\ Len(w) \in Nat \ {0} /\ DOMAIN w = 1..Len(w)
      /\ \A i \in 1..Len(w) : w[i] \in Busy /\ w[i] \in 1..MaxBlock
      /\ \A i, j \in 1..Len(w) : i < j => w[i] < w[j]
      /\ \A i, j \in 1..Len(w) : i <= j => w[i] <= w[j]
  <2>1. w \in Seq(Busy)
    BY RunFacts
  <2>2. Len(w) \in Nat \ {0}
    BY <2>1
  <2>3. QED BY <2>2, RunFacts
<1>3. /\ v \in Seq(Busy) /\ Len(v) = Len(s) + Len(w) /\ DOMAIN v = 1..(Len(s) + Len(w))
      /\ \A i \in 1..Len(s) : v[i] = s[i]
      /\ \A i \in 1..Len(w) : v[Len(s) + i] = w[i]
  <2>1. /\ v \in Seq(Busy) /\ Len(v) = Len(s) + Len(w)
        /\ \A i \in 1..(Len(s) + Len(w)) : v[i] = IF i <= Len(s) THEN s[i] ELSE w[i - Len(s)]
    BY <1>1, <1>2, ConcatProperties
  <2> HIDE DEF v
  <2>2. \A i \in 1..Len(w) : Len(s) + i \in 1..(Len(s) + Len(w)) /\ ~(Len(s) + i <= Len(s))
                             /\ Len(s) + i - Len(s) = i
    BY <1>1, <1>2
  <2>3. \A i \in 1..Len(s) : i \in 1..(Len(s) + Len(w)) /\ i <= Len(s)
    BY <1>1, <1>2
  <2>4. DOMAIN v = 1..(Len(s) + Len(w))
    BY <2>1
  <2>5. \A i \in 1..Len(s) : v[i] = s[i]
    BY <2>1, <2>3
  <2>6. \A i \in 1..Len(w) : v[Len(s) + i] = w[i]
    BY <2>1, <2>2
  <2>7. QED BY <2>1, <2>4, <2>5, <2>6
<1> HIDE DEF v
<1>4. \A i \in 1..(Len(s) + Len(w)) : i \in 1..Len(s) \/ \E j \in 1..Len(w) : i = Len(s) + j
  <2>1. TAKE i \in 1..(Len(s) + Len(w))
  <2>2. CASE i > Len(s)
    <3>1. i - Len(s) \in 1..Len(w) /\ i = Len(s) + (i - Len(s))
      BY <1>1, <1>2, <2>2
    <3>2. QED BY <3>1
  <2>3. QED BY <1>1, <2>2
<1>5. 1 \in 1..Len(s) /\ Len(s) \in 1..Len(s) /\ 1 \in 1..Len(w) /\ Len(w) \in 1..Len(w)
  BY <1>1, <1>2
<1>6. ASSUME NEW i \in 1..Len(s), NEW j \in 1..Len(w) PROVE s[i] < w[j]
  <2>1. s[i] <= s[Len(s)] /\ s[Len(s)] < w[1] /\ w[1] <= w[j]
    BY <1>1, <1>2, <1>5 DEF Follows
  <2>2. s[i] \in Int /\ s[Len(s)] \in Int /\ w[1] \in Int /\ w[j] \in Int
    BY <1>1, <1>2, <1>5
  <2>3. QED BY <2>1, <2>2
<1>7. Ordered(v)
  <2>1. SUFFICES ASSUME NEW i \in DOMAIN v, NEW j \in DOMAIN v, i < j PROVE v[i] < v[j]
    BY DEF Ordered
  <2>2. CASE i \in 1..Len(s) /\ j \in 1..Len(s)
    BY <1>1, <1>3, <2>1, <2>2
  <2>3. ASSUME i \in 1..Len(s), NEW b \in 1..Len(w), j = Len(s) + b PROVE v[i] < v[j]
    BY <1>3, <1>6, <2>3
  <2>4. ASSUME NEW a \in 1..Len(w), i = Len(s) + a, NEW b \in 1..Len(w), j = Len(s) + b
        PROVE  v[i] < v[j]
    <3>1. a < b
      BY <1>1, <2>1, <2>4
    <3>2. QED BY <1>2, <1>3, <2>4, <3>1
  <2>5. ASSUME NEW a \in 1..Len(w), i = Len(s) + a, j \in 1..Len(s) PROVE FALSE
    BY <1>1, <2>1, <2>5
  <2>6. QED BY <1>3, <1>4, <2>2, <2>3, <2>4, <2>5
<1>8. v # <<>> /\ v[1] = s[1] /\ v[Len(v)] = w[Len(w)]
  BY <1>1, <1>2, <1>3, <1>5
<1>9. ASSUME NEW k \in Busy, v[1] <= k, k <= v[Len(v)] PROVE \E i \in DOMAIN v : v[i] = k
  <2>0. /\ k \in Int /\ s[1] \in Int /\ s[Len(s)] \in Int /\ w[1] \in Int /\ w[Len(w)] \in Int
        /\ s # <<>> /\ w # <<>>
    BY <1>1, <1>2, <1>5, BusyBlocks
  <2>1. CASE k <= s[Len(s)]
    <3>1. PICK i \in 1..Len(s) : s[i] = k
      BY <1>1, <1>8, <1>9, <2>0, <2>1 DEF Run
    <3>2. i \in DOMAIN v /\ v[i] = k
      BY <1>1, <1>2, <1>3, <3>1
    <3>3. QED BY <3>2
  <2>2. CASE ~(k <= s[Len(s)])
    <3>1. w[1] <= k
      BY <2>0, <2>2 DEF Follows
    <3>2. PICK i \in 1..Len(w) : w[i] = k
      BY <1>2, <1>8, <1>9, <2>0, <3>1 DEF Run
    <3>3. Len(s) + i \in DOMAIN v /\ v[Len(s) + i] = k
      BY <1>1, <1>2, <1>3, <3>2
    <3>4. QED BY <3>3
  <2>3. QED BY <2>1, <2>2
<1>10. Run(v)
  BY <1>3, <1>7, <1>9 DEF Run
<1>11. QED BY <1>8, <1>10 DEF v

(* Trimming leaves a run that ends where it did, and says how far the      *)
(* blocks it dropped, or the first one's missing part, may reach.          *)
LEMMA TrimIs ==
  ASSUME NEW s, Run(s), NEW through \in -1..MaxBlock, Meets(through, s)
  PROVE  LET t == Trim(s, through)
         IN /\ Run(t.kept) /\ t.through \in -1..MaxBlock /\ Meets(t.through, t.kept)
            /\ t.kept = <<>> <=> s = <<>>
            /\ s # <<>> => t.kept[Len(t.kept)] = s[Len(s)]
            /\ s = <<>> => t.through = through
            /\ \A j \in DOMAIN t.kept : \E i \in DOMAIN s : t.kept[j] = s[i]
<1> DEFINE firsts == {1} \cup {i \in 1..Len(s) : MovesFrom(s, i) >= BufferMoves}
           first == Max(firsts)
           t == Trim(s, through)
<1>1. /\ t.kept = SubSeq(s, first, Len(s))
      /\ t.through = IF first = 1 THEN through ELSE Higher(through, s[first - 1])
  BY DEF Trim
<1>2. /\ s \in Seq(Busy) /\ Len(s) \in Nat /\ DOMAIN s = 1..Len(s)
      /\ \A i \in 1..Len(s) : s[i] \in Busy /\ s[i] \in 1..MaxBlock
      /\ \A i, j \in 1..Len(s) : i <= j => s[i] <= s[j]
      /\ \A i \in 1..Len(s) : i > 1 => Follows(s[i - 1], s[i])
  BY RunFacts
<1>3. first \in firsts
  <2>1. firsts # {} /\ \A x \in firsts : x \in Int /\ x <= Len(s) + 1
    BY <1>2
  <2> HIDE DEF firsts
  <2>2. QED BY <1>2, <2>1, Greatest
<1>4. CASE s = <<>>
  <2>1. first = 1 /\ Len(s) = 0
    BY <1>3, <1>4
  <2>2. t.kept = <<>>
    BY <1>1, <1>4, <2>1
  <2>3. QED BY <1>1, <1>4, <2>1, <2>2 DEF Meets
<1>5. CASE s # <<>>
  <2>1. first \in 1..Len(s) /\ 1 \in 1..Len(s)
    BY <1>2, <1>3, <1>5
  <2> HIDE DEF first, t
  <2>2. /\ Run(t.kept) /\ t.kept # <<>> /\ Len(t.kept) = Len(s) - first + 1
        /\ t.kept[1] = s[first] /\ t.kept[Len(t.kept)] = s[Len(s)]
        /\ \A j \in 1..Len(t.kept) : t.kept[j] = s[first + j - 1]
    BY <1>1, <2>1, SuffixRun
  <2>3. t.through \in -1..MaxBlock /\ Meets(t.through, t.kept)
    <3>1. CASE first = 1
      BY <1>1, <1>5, <2>2, <3>1 DEF Meets
    <3>2. CASE first # 1
      <4>1. first - 1 \in 1..Len(s) /\ first > 1
        BY <1>2, <2>1, <3>2
      <4>2. /\ through <= s[1] /\ s[1] <= s[first - 1] /\ Follows(s[first - 1], s[first])
            /\ s[1] \in Int /\ s[first - 1] \in 1..MaxBlock /\ s[first] \in Int
        BY <1>2, <1>5, <2>1, <4>1 DEF Meets
      <4>3. t.through = s[first - 1]
        BY <1>1, <3>2, <4>2 DEF Higher
      <4>4. QED BY <2>2, <4>2, <4>3 DEF Meets, Follows
    <3>3. QED BY <3>1, <3>2
  <2>4. \A j \in DOMAIN t.kept : \E i \in DOMAIN s : t.kept[j] = s[i]
    <3>1. TAKE j \in DOMAIN t.kept
    <3>2. j \in 1..Len(t.kept) /\ Len(t.kept) \in Nat
      BY <2>2, RunFacts
    <3>3. first + j - 1 \in 1..Len(s)
      BY <1>2, <2>1, <2>2, <3>2
    <3>4. QED BY <1>2, <2>2, <3>2, <3>3
  <2>5. QED BY <1>5, <2>2, <2>3, <2>4 DEF t
<1>6. QED BY <1>4, <1>5

-----------------------------------------------------------------------------
(* What a hello shows.                                                     *)
LEMMA MovesFromIs ==
  ASSUME NEW s \in Seq(Busy)
  PROVE  /\ \A i \in 1..(Len(s) + 1) : MovesFrom(s, i) \in Int
         /\ MovesFrom(s, Len(s) + 1) = 0
         /\ \A i \in 1..Len(s) : MovesFrom(s, i) = Moves[s[i]] + MovesFrom(s, i + 1)
<1> DEFINE step == [p \in (1..Len(s)) \X Nat |-> p[2] + Moves[s[p[1]]]]
<1>1. /\ Len(s) \in Nat
      /\ \A i \in 1..Len(s) : s[i] \in Busy /\ Moves[s[i]] \in Nat /\ i - 1 \in 0..Len(s)
  <2>1. Len(s) \in Nat
    OBVIOUS
  <2>2. \A i \in 1..Len(s) : s[i] \in Busy
    OBVIOUS
  <2>3. \A i \in 1..Len(s) : i - 1 \in 0..Len(s)
    BY <2>1
  <2>4. \A n \in Busy : Moves[n] \in Nat
    BY BusyBlocks
  <2>5. QED BY <2>1, <2>2, <2>3, <2>4
<1>2. step \in [(1..Len(s)) \X Nat -> Nat]
  BY <1>1
<1>3. PICK g \in [0..Len(s) -> Nat] : Unfolded(g, Len(s), 0, step)
  <2>1. 0 \in Nat
    OBVIOUS
  <2> HIDE DEF step
  <2>2. QED BY <1>1, <1>2, <2>1, Unfolding
<1>4. g = [j \in 0..Len(s) |-> IF j = 0 THEN 0 ELSE g[j - 1] + Moves[s[j]]]
  <2>1. ASSUME NEW i \in 1..Len(s) PROVE g[i] = g[i - 1] + Moves[s[i]]
    <3>1. g[i] = step[<<i, g[i - 1]>>]
      BY <1>3 DEF Unfolded
    <3>2. g[i - 1] \in Nat
      BY <1>1
    <3>3. QED BY <3>1, <3>2
  <2>2. g[0] = 0
    BY <1>3 DEF Unfolded
  <2>3. \A i \in 0..Len(s) : i = 0 \/ i \in 1..Len(s)
    BY <1>1
  <2>4. \A i \in 0..Len(s) : g[i] = IF i = 0 THEN 0 ELSE g[i - 1] + Moves[s[i]]
    BY <2>1, <2>2, <2>3
  <2> HIDE DEF step
  <2>5. QED BY <2>4
<1> HIDE DEF step
<1> DEFINE f == CHOOSE h : h = [j \in 0..Len(s) |-> IF j = 0 THEN 0 ELSE h[j - 1] + Moves[s[j]]]
<1>5. f = [j \in 0..Len(s) |-> IF j = 0 THEN 0 ELSE f[j - 1] + Moves[s[j]]]
  BY <1>4
<1>6. \A i : MovesFrom(s, i) = f[Len(s)] - f[i - 1]
  BY DEF MovesFrom
<1> HIDE DEF f
<1>7. \A i \in 0..Len(s) : f[i] \in Nat
  <2> DEFINE S == {i \in 0..Len(s) : f[i] \in Nat}
  <2>1. 0 \in S
    BY <1>1, <1>5
  <2>2. ASSUME NEW i \in 1..Len(s), i - 1 \in S PROVE i \in S
    <3>1. i \in 0..Len(s) /\ i # 0
      BY <1>1
    <3>2. f[i] = f[i - 1] + Moves[s[i]]
      BY <1>5, <3>1, Zenon
    <3>3. QED BY <1>1, <2>2, <3>1, <3>2
  <2>3. \A i \in 0..Len(s) : i \in S
    <3> HIDE DEF S
    <3>1. QED BY <1>1, <2>1, <2>2, HandedOn
  <2>4. QED BY <2>3
<1>8. ASSUME NEW i \in 1..Len(s) PROVE f[i] = f[i - 1] + Moves[s[i]]
  <2>1. i \in 0..Len(s) /\ i # 0
    BY <1>1
  <2>2. QED BY <1>5, <2>1, Zenon
<1>9. \A i \in 1..(Len(s) + 1) : MovesFrom(s, i) \in Int
  <2>1. TAKE i \in 1..(Len(s) + 1)
  <2>2. i - 1 \in 0..Len(s) /\ Len(s) \in 0..Len(s)
    BY <1>1
  <2>3. QED BY <1>6, <1>7, <2>2
<1>10. MovesFrom(s, Len(s) + 1) = 0
  <2>1. Len(s) + 1 - 1 = Len(s) /\ f[Len(s)] \in Nat
    BY <1>1, <1>7
  <2>2. QED BY <1>6, <2>1
<1>11. ASSUME NEW i \in 1..Len(s) PROVE MovesFrom(s, i) = Moves[s[i]] + MovesFrom(s, i + 1)
  <2>1. i + 1 - 1 = i /\ i \in 0..Len(s) /\ i - 1 \in 0..Len(s) /\ Len(s) \in 0..Len(s)
    BY <1>1
  <2>2. f[i] \in Nat /\ f[i - 1] \in Nat /\ f[Len(s)] \in Nat /\ Moves[s[i]] \in Nat
    BY <1>1, <1>7, <2>1
  <2>3. /\ MovesFrom(s, i) = f[Len(s)] - f[i - 1]
        /\ MovesFrom(s, i + 1) = f[Len(s)] - f[i]
    BY <1>6, <2>1
  <2>4. QED BY <1>8, <2>2, <2>3
<1>12. QED BY <1>9, <1>10, <1>11

(* A hello is a good frame that ends where the buffer does.                *)
LEMMA HelloIs ==
  ASSUME NEW s, Run(s)
  PROVE  /\ GoodFrame(HelloFrame(s)) /\ HelloFrame(s).event = "hello"
         /\ HelloFrame(s).id = IF s = <<>> THEN Null ELSE s[Len(s)]
<1> DEFINE left(i) == BufferMoves - MovesFrom(s, i + 1)
           shown == {i \in 1..Len(s) : left(i) > 0}
           message(i) == [n |-> s[i], skip |-> Higher(0, Moves[s[i]] - left(i))]
           before == Len(s) - Cardinality(shown)
           bs == [i \in 1..Cardinality(shown) |-> message(before + i)]
<1>1. HelloFrame(s) = [event |-> "hello", id |-> Newest(s), blocks |-> bs]
  BY DEF HelloFrame
<1>2. /\ s \in Seq(Busy) /\ Len(s) \in Nat /\ DOMAIN s = 1..Len(s)
      /\ \A i \in 1..Len(s) : s[i] \in Busy /\ s[i] \in 1..MaxBlock
      /\ \A i \in 1..Len(s) : i > 1 => Follows(s[i - 1], s[i])
  BY RunFacts
<1>3. Newest(s) = IF s = <<>> THEN Null ELSE s[Len(s)]
  BY DEF Newest, Last
<1>4. CASE s = <<>>
  <2>1. shown = {}
    BY <1>2, <1>4
  <2> HIDE DEF shown
  <2>2. Cardinality(shown) = 0
    BY <2>1, FS_EmptySet
  <2>3. bs = <<>>
    BY <2>2
  <2>4. <<>> \in Seq(Message)
    OBVIOUS
  <2> HIDE DEF bs
  <2>5. GoodBlocks(bs)
    BY <2>3, <2>4 DEF GoodBlocks
  <2>6. HelloFrame(s) = [event |-> "hello", id |-> Null, blocks |-> <<>>]
    BY <1>1, <1>3, <1>4, <2>3
  <2>7. /\ HelloFrame(s).event = "hello" /\ HelloFrame(s).id = Null
        /\ HelloFrame(s).blocks = <<>> /\ HelloFrame(s) \in Frames
    BY <2>4, <2>6 DEF Frames
  <2>8. GoodBlocks(HelloFrame(s).blocks)
    BY <2>3, <2>5, <2>7
  <2>9. QED BY <1>4, <2>7, <2>8 DEF GoodFrame
<1>5. CASE s # <<>>
  <2>1. \A i \in 1..Len(s) : left(i) \in Int /\ Moves[s[i]] \in Nat \ {0}
    <3>1. TAKE i \in 1..Len(s)
    <3>2. i + 1 \in 1..(Len(s) + 1)
      BY <1>2
    <3>3. MovesFrom(s, i + 1) \in Int
      BY <1>2, <3>2, MovesFromIs
    <3>4. QED BY <1>2, <3>3, BusyBlocks, SizesAssumption
  <2>2. ASSUME NEW i \in 1..Len(s), i > 1 PROVE left(i) = left(i - 1) + Moves[s[i]]
    <3>1. i - 1 + 1 = i /\ i + 1 \in 1..(Len(s) + 1) /\ i \in 1..(Len(s) + 1)
      BY <1>2
    <3>2. MovesFrom(s, i) = Moves[s[i]] + MovesFrom(s, i + 1)
      BY <1>2, MovesFromIs
    <3>3. MovesFrom(s, i) \in Int /\ MovesFrom(s, i + 1) \in Int
      BY <1>2, <3>1, MovesFromIs
    <3>4. QED BY <2>1, <3>1, <3>2, <3>3, SizesAssumption
  <2>3. Len(s) \in shown
    <3>1. Len(s) \in 1..Len(s)
      BY <1>2, <1>5
    <3>2. MovesFrom(s, Len(s) + 1) = 0
      BY <1>2, MovesFromIs
    <3>3. QED BY <3>1, <3>2, SizesAssumption
  <2> HIDE DEF left
  <2>4. PICK lo \in shown : \A i \in shown : lo <= i
    <3>1. shown \in SUBSET Nat /\ shown # {}
      BY <2>3
    <3> HIDE DEF shown
    <3>2. QED BY <3>1, LeastOf
  <2>5. shown = lo..Len(s)
    <3> DEFINE S == {d \in 0..(Len(s) - lo) : lo + d \in shown}
    <3>1. lo \in 1..Len(s) /\ Len(s) - lo \in Nat
      BY <1>2, <2>4
    <3>2. 0 \in S
      BY <2>4, <3>1
    <3>3. ASSUME NEW d \in 1..(Len(s) - lo), d - 1 \in S PROVE d \in S
      <4>1. lo + d \in 1..Len(s) /\ lo + d > 1 /\ lo + d - 1 = lo + (d - 1) /\ lo + d - 1 \in 1..Len(s)
        BY <1>2, <3>1
      <4>2. left(lo + d - 1) > 0
        BY <3>3, <4>1
      <4>3. left(lo + d) = left(lo + d - 1) + Moves[s[lo + d]]
        BY <2>2, <4>1
      <4>4. left(lo + d) > 0
        BY <2>1, <4>1, <4>2, <4>3
      <4>5. QED BY <3>1, <4>1, <4>4
    <3>4. \A d \in 0..(Len(s) - lo) : d \in S
      <4> HIDE DEF S
      <4>1. QED BY <3>1, <3>2, <3>3, HandedOn
    <3>5. \A i \in lo..Len(s) : i \in shown
      <4>1. TAKE i \in lo..Len(s)
      <4>2. i - lo \in 0..(Len(s) - lo) /\ lo + (i - lo) = i
        BY <3>1
      <4>3. i - lo \in S
        BY <3>4, <4>2
      <4>4. QED BY <4>2, <4>3
    <3>6. \A i \in shown : i \in lo..Len(s)
      BY <2>4
    <3>7. QED BY <3>5, <3>6
  <2>6. lo \in 1..Len(s) /\ \A i \in lo..Len(s) : i \in 1..Len(s) /\ left(i) > 0
    BY <1>2, <2>4, <2>5
  <2> HIDE DEF shown
  <2>7. Cardinality(shown) = Len(s) - lo + 1
    BY <1>2, <2>5, <2>6, FS_Interval
  <2> DEFINE size == Len(s) - lo + 1
  <2>0. PICK from \in Int : from = lo - 1
    BY <2>6
  <2>8. /\ size \in Nat \ {0}
        /\ bs = [i \in 1..size |-> message(from + i)]
        /\ \A i \in 1..size : from + i \in lo..Len(s) /\ (i > 1 => from + i > 1 /\ from + i - 1 \in lo..Len(s))
    <3>1. before = from
      BY <1>2, <2>0, <2>6, <2>7
    <3> HIDE DEF before
    <3>2. QED BY <1>2, <2>0, <2>6, <2>7, <3>1
  <2> HIDE DEF before, size
  <2>9. ASSUME NEW j \in lo..Len(s)
        PROVE  /\ message(j) \in Message /\ message(j).n = s[j]
               /\ message(j).skip < Moves[s[j]]
               /\ j > lo => message(j).skip = 0 /\ Follows(s[j - 1], s[j])
    <3>1. j \in 1..Len(s) /\ left(j) > 0
      BY <2>6
    <3>2. left(j) \in Int /\ Moves[s[j]] \in Nat \ {0} /\ s[j] \in Busy
      BY <1>2, <2>1, <3>1
    <3>3. j > lo => left(j) > Moves[s[j]] /\ Follows(s[j - 1], s[j])
      <4>1. SUFFICES ASSUME j > lo PROVE left(j) > Moves[s[j]] /\ Follows(s[j - 1], s[j])
        OBVIOUS
      <4>2. j > 1 /\ j - 1 \in lo..Len(s) /\ j - 1 \in 1..Len(s)
        BY <1>2, <2>6, <4>1
      <4>3. left(j - 1) > 0 /\ left(j - 1) \in Int
        BY <2>1, <2>6, <4>2
      <4>4. left(j) = left(j - 1) + Moves[s[j]]
        BY <2>2, <3>1, <4>2
      <4>5. QED BY <1>2, <3>1, <3>2, <4>2, <4>3, <4>4
    <3>4. QED BY <3>1, <3>2, <3>3 DEF Message, Higher
  <2>10. /\ bs \in Seq(Message) /\ Len(bs) = size /\ DOMAIN bs = 1..size
         /\ \A i \in 1..size : bs[i] = message(from + i)
    <3>1. bs = [i \in 1..size |-> message(from + i)]
      BY <2>8
    <3> HIDE DEF message, bs
    <3>2. \A i \in 1..size : message(from + i) \in Message
      BY <2>8, <2>9
    <3>3. bs \in [1..size -> Message] /\ \A i \in 1..size : bs[i] = message(from + i)
      BY <3>1, <3>2
    <3>4. bs \in Seq(Message) /\ Len(bs) = size /\ DOMAIN bs = 1..size
      BY <2>8, <3>3, Listed
    <3>5. QED BY <3>3, <3>4
  <2> HIDE DEF message, bs
  <2>11. GoodBlocks(bs)
    <3>1. ASSUME NEW i \in 1..size
          PROVE  /\ bs[i].n = s[from + i] /\ bs[i].skip < Moves[bs[i].n]
                 /\ i > 1 => bs[i].skip = 0 /\ Follows(s[from + i - 1], bs[i].n)
      <4>1. from + i \in lo..Len(s) /\ (i > 1 => from + i > lo)
        BY <2>0, <2>6, <2>8
      <4>2. PICK j \in lo..Len(s) : j = from + i
        BY <4>1
      <4>3. bs[i] = message(j) /\ (i > 1 => j > lo)
        BY <2>10, <4>1, <4>2
      <4>4. /\ bs[i].n = s[j] /\ bs[i].skip < Moves[s[j]]
            /\ i > 1 => bs[i].skip = 0 /\ Follows(s[j - 1], s[j])
        BY <2>9, <4>3
      <4>5. s[from + i] = s[j] /\ s[from + i - 1] = s[j - 1]
        BY <4>2
      <4>6. QED BY <4>4, <4>5 DEF Follows
    <3>2. ASSUME NEW i \in 1..size, i > 1 PROVE Follows(bs[i - 1].n, bs[i].n)
      <4>1. i - 1 \in 1..size /\ from + (i - 1) = from + i - 1
        BY <2>0, <2>6, <2>8, <3>2
      <4>2. bs[i - 1].n = s[from + i - 1]
        BY <3>1, <4>1
      <4>3. QED BY <3>1, <3>2, <4>2
    <3>3. QED BY <2>10, <3>1, <3>2 DEF GoodBlocks
  <2>12. bs # <<>> /\ bs[Len(bs)].n = s[Len(s)]
    <3>1. from + size = Len(s) /\ size \in 1..size
      BY <1>2, <2>0, <2>6, <2>8 DEF size
    <3>2. from + size \in lo..Len(s) /\ bs[size] = message(from + size)
      BY <1>2, <2>6, <2>10, <3>1
    <3>3. bs[size].n = s[Len(s)]
      BY <2>9, <3>1, <3>2
    <3>4. QED BY <2>8, <2>10, <3>3
  <2>13. s[Len(s)] \in Busy
    BY <1>2, <1>5
  <2> HIDE DEF bs
  <2>14. /\ HelloFrame(s).event = "hello" /\ HelloFrame(s).id = s[Len(s)]
         /\ HelloFrame(s).blocks = bs /\ HelloFrame(s) \in Frames
    BY <1>1, <1>3, <1>5, <2>10, <2>13 DEF Frames
  <2>15. QED BY <1>5, <2>11, <2>12, <2>14 DEF GoodFrame
<1>6. QED BY <1>4, <1>5
-----------------------------------------------------------------------------
(* The movements of a frame.                                               *)
Rowed == Busy \X Nat
Steady(r, from) == \A k \in from..(Len(r) - 1) : r[k + 1] = NextMove(r[k])

LEMMA NextOf ==
  ASSUME NEW m \in Busy, NEW n \in Busy, Follows(m, n)
  PROVE  NextMove(<<m, Moves[m]>>) = <<n, 1>>
<1> DEFINE later == {k \in Busy : k > m} \cup {MaxBlock + 1}
<1>1. /\ m \in Int /\ n \in Int /\ Moves[m] \in Nat /\ m < n /\ n <= MaxBlock /\ MaxBlock \in Nat
      /\ \A k \in Busy : k \in Nat /\ k <= MaxBlock
  BY BusyBlocks, BoundsAssumption DEF Follows
<1>2. later \in SUBSET Nat /\ n \in later
  <2>1. \A k \in later : k \in Nat
    BY <1>1
  <2>2. n > m
    BY <1>1
  <2>3. QED BY <2>1, <2>2
<1>3. \A k \in later : n <= k
  BY <1>1 DEF Follows
<1>4. NextMove(<<m, Moves[m]>>) = <<Min(later), 1>>
  BY <1>1 DEF NextMove
<1> HIDE DEF later
<1>5. Min(later) \in later /\ Min(later) <= n
  BY <1>2, LeastOf
<1>6. Min(later) = n
  <2>1. Min(later) \in Nat /\ n <= Min(later)
    BY <1>2, <1>3, <1>5
  <2>2. QED BY <1>1, <1>5, <2>1
<1>7. QED BY <1>4, <1>6

LEMMA SteadyJoin ==
  ASSUME NEW r \in Seq(Rowed), NEW w \in Seq(Rowed), NEW k0 \in Nat, k0 <= Len(r), w # <<>>,
         Steady(r, k0 + 1), Steady(w, 1),
         k0 < Len(r) => w[1] = NextMove(r[Len(r)])
  PROVE  /\ r \o w \in Seq(Rowed) /\ Len(r \o w) = Len(r) + Len(w) /\ k0 < Len(r \o w)
         /\ Steady(r \o w, k0 + 1)
         /\ (r \o w)[1] = IF r = <<>> THEN w[1] ELSE r[1]
         /\ (r \o w)[Len(r \o w)] = w[Len(w)]
<1> DEFINE v == r \o w
<1>1. Len(r) \in Nat /\ Len(w) \in Nat \ {0}
  OBVIOUS
<1>2. /\ v \in Seq(Rowed) /\ Len(v) = Len(r) + Len(w)
      /\ \A i \in 1..(Len(r) + Len(w)) : v[i] = IF i <= Len(r) THEN r[i] ELSE w[i - Len(r)]
  BY ConcatProperties
<1> HIDE DEF v
<1>3. \A i \in 1..Len(r) : v[i] = r[i]
  <2>1. TAKE i \in 1..Len(r)
  <2>2. i \in 1..(Len(r) + Len(w)) /\ i <= Len(r)
    BY <1>1
  <2>3. QED BY <1>2, <2>2
<1>4. \A i \in 1..Len(w) : v[Len(r) + i] = w[i]
  <2>1. TAKE i \in 1..Len(w)
  <2>2. Len(r) + i \in 1..(Len(r) + Len(w)) /\ ~(Len(r) + i <= Len(r)) /\ Len(r) + i - Len(r) = i
    BY <1>1
  <2>3. QED BY <1>2, <2>2
<1>5. ASSUME NEW k \in (k0 + 1)..(Len(v) - 1) PROVE v[k + 1] = NextMove(v[k])
  <2>1. CASE k < Len(r)
    <3>1. k \in 1..Len(r) /\ k + 1 \in 1..Len(r) /\ k \in (k0 + 1)..(Len(r) - 1)
      BY <1>1, <2>1
    <3>2. r[k + 1] = NextMove(r[k])
      BY <3>1 DEF Steady
    <3>3. QED BY <1>3, <3>1, <3>2
  <2>2. CASE k = Len(r)
    <3>1. k \in 1..Len(r) /\ k0 < Len(r) /\ 1 \in 1..Len(w)
      BY <1>1, <2>2
    <3>2. v[k] = r[Len(r)] /\ v[k + 1] = w[1]
      BY <1>3, <1>4, <2>2, <3>1
    <3>3. QED BY <3>1, <3>2
  <2>3. CASE k > Len(r)
    <3>1. PICK d \in Int : d = k - Len(r)
      BY <1>1
    <3>2. d \in 1..(Len(w) - 1) /\ d \in 1..Len(w) /\ d + 1 \in 1..Len(w)
          /\ k = Len(r) + d /\ k + 1 = Len(r) + (d + 1)
      BY <1>1, <1>2, <2>3, <3>1
    <3>3. w[d + 1] = NextMove(w[d])
      BY <3>2 DEF Steady
    <3>4. v[k] = w[d] /\ v[k + 1] = w[d + 1]
      BY <1>4, <3>2
    <3>5. QED BY <3>3, <3>4
  <2>4. QED BY <1>1, <2>1, <2>2, <2>3
<1>6. v[1] = IF r = <<>> THEN w[1] ELSE r[1]
  <2>1. CASE r = <<>>
    <3>1. Len(r) = 0 /\ 1 \in 1..Len(w) /\ Len(r) + 1 = 1
      BY <1>1, <2>1
    <3>2. QED BY <1>4, <2>1, <3>1
  <2>2. CASE r # <<>>
    <3>1. 1 \in 1..Len(r)
      BY <2>2
    <3>2. QED BY <1>3, <2>2, <3>1
  <2>3. QED BY <2>1, <2>2
<1>7. v[Len(v)] = w[Len(w)]
  <2>1. Len(w) \in 1..Len(w)
    BY <1>1
  <2>2. QED BY <1>2, <1>4, <2>1
<1>8. k0 < Len(v)
  BY <1>1, <1>2
<1>9. Steady(v, k0 + 1)
  BY <1>5 DEF Steady
<1>10. QED BY <1>2, <1>6, <1>7, <1>8, <1>9 DEF v

(* The rows of one block.                                                  *)
RowOf(b) == [k \in 1..(Moves[b.n] - b.skip) |-> <<b.n, b.skip + k>>]

LEMMA RowIs ==
  ASSUME NEW b \in Message, b.skip < Moves[b.n]
  PROVE  /\ RowOf(b) \in Seq(Rowed) /\ RowOf(b) # <<>> /\ Steady(RowOf(b), 1)
         /\ RowOf(b)[1] = <<b.n, b.skip + 1>>
         /\ RowOf(b)[Len(RowOf(b))] = <<b.n, Moves[b.n]>>
<1>1. b.n \in Busy /\ b.skip \in Nat /\ Moves[b.n] \in Nat /\ b.skip < Moves[b.n]
  BY BusyBlocks DEF Message
<1>2. PICK size \in Nat : size = Moves[b.n] - b.skip
  BY <1>1
<1> DEFINE w == RowOf(b)
<1>3. w \in [1..size -> Rowed] /\ \A k \in 1..size : w[k] = <<b.n, b.skip + k>>
  <2>1. w = [k \in 1..size |-> <<b.n, b.skip + k>>]
    BY <1>2 DEF RowOf
  <2>2. \A k \in 1..size : <<b.n, b.skip + k>> \in Rowed
    BY <1>1 DEF Rowed
  <2> HIDE DEF w
  <2>3. QED BY <2>1, <2>2
<1> HIDE DEF w
<1>4. w \in Seq(Rowed) /\ Len(w) = size /\ size \in 1..size
  <2>1. size \in 1..size
    BY <1>1, <1>2
  <2>2. QED BY <1>3, <2>1, Listed
<1>5. w # <<>> /\ 1 \in 1..size
  BY <1>4
<1>6. w[1] = <<b.n, b.skip + 1>> /\ w[Len(w)] = <<b.n, Moves[b.n]>>
  <2>1. b.skip + size = Moves[b.n]
    BY <1>1, <1>2
  <2>2. QED BY <1>3, <1>4, <1>5, <2>1
<1>7. Steady(w, 1)
  <2>1. SUFFICES ASSUME NEW k \in 1..(size - 1) PROVE w[k + 1] = NextMove(w[k])
    BY <1>4 DEF Steady
  <2>2. k \in 1..size /\ k + 1 \in 1..size /\ b.skip + k < Moves[b.n] /\ b.skip + (k + 1) = b.skip + k + 1
    BY <1>1, <1>2
  <2>3. w[k] = <<b.n, b.skip + k>> /\ w[k + 1] = <<b.n, b.skip + k + 1>>
    BY <1>3, <2>2
  <2>4. NextMove(<<b.n, b.skip + k>>) = <<b.n, b.skip + k + 1>>
    BY <2>2 DEF NextMove
  <2>5. QED BY <2>3, <2>4
<1>8. QED BY <1>4, <1>5, <1>6, <1>7 DEF w

(* The tape of a frame begins where its first block is cut and ends with   *)
(* its last block, without a gap.                                          *)
LEMMA RowsAre ==
  ASSUME NEW bs, GoodBlocks(bs), bs # <<>>
  PROVE  /\ Rows(bs) \in Seq(Rowed) /\ Rows(bs) # <<>> /\ Steady(Rows(bs), 1)
         /\ Rows(bs)[1] = <<bs[1].n, bs[1].skip + 1>>
         /\ Rows(bs)[Len(Rows(bs))] = <<bs[Len(bs)].n, Moves[bs[Len(bs)].n]>>
<1>1. /\ bs \in Seq(Message) /\ Len(bs) \in Nat \ {0} /\ DOMAIN bs = 1..Len(bs)
      /\ \A i \in 1..Len(bs) : bs[i] \in Message /\ bs[i].skip < Moves[bs[i].n]
      /\ \A i \in 1..Len(bs) : i > 1 => bs[i].skip = 0 /\ Follows(bs[i - 1].n, bs[i].n)
  <2>1. bs \in Seq(Message)
    BY DEF GoodBlocks
  <2>2. Len(bs) \in Nat \ {0} /\ DOMAIN bs = 1..Len(bs) /\ \A i \in 1..Len(bs) : bs[i] \in Message
    BY <2>1
  <2>3. QED BY <2>1, <2>2 DEF GoodBlocks
<1> DEFINE step == [p \in (1..Len(bs)) \X Seq(Rowed) |-> p[2] \o RowOf(bs[p[1]])]
<1>2. \A i \in 1..Len(bs) : RowOf(bs[i]) \in Seq(Rowed)
  BY <1>1, RowIs
<1>3. step \in [(1..Len(bs)) \X Seq(Rowed) -> Seq(Rowed)]
  BY <1>2
<1>4. PICK g \in [0..Len(bs) -> Seq(Rowed)] : Unfolded(g, Len(bs), <<>>, step)
  <2>1. <<>> \in Seq(Rowed) /\ Len(bs) \in Nat
    BY <1>1
  <2> HIDE DEF step
  <2>2. QED BY <1>3, <2>1, Unfolding
<1>5. g = [i \in 0..Len(bs) |-> IF i = 0 THEN <<>> ELSE g[i - 1] \o RowOf(bs[i])]
  <2>1. ASSUME NEW i \in 1..Len(bs) PROVE g[i] = g[i - 1] \o RowOf(bs[i])
    <3>0. i - 1 \in 0..Len(bs)
      BY <1>1
    <3>1. <<i, g[i - 1]>> \in (1..Len(bs)) \X Seq(Rowed)
      BY <3>0
    <3>2. g[i] = step[<<i, g[i - 1]>>]
      BY <1>4 DEF Unfolded
    <3>3. QED BY <3>1, <3>2
  <2>2. g[0] = <<>>
    BY <1>4 DEF Unfolded
  <2>3. \A i \in 0..Len(bs) : i = 0 \/ i \in 1..Len(bs)
    BY <1>1
  <2>4. \A i \in 0..Len(bs) : g[i] = IF i = 0 THEN <<>> ELSE g[i - 1] \o RowOf(bs[i])
    BY <2>1, <2>2, <2>3
  <2> HIDE DEF step
  <2>5. QED BY <2>4
<1> HIDE DEF step
<1> DEFINE f == CHOOSE h : h = [i \in 0..Len(bs) |-> IF i = 0 THEN <<>> ELSE h[i - 1] \o RowOf(bs[i])]
<1>6. f = [i \in 0..Len(bs) |-> IF i = 0 THEN <<>> ELSE f[i - 1] \o RowOf(bs[i])]
  BY <1>5
<1>7. Rows(bs) = f[Len(bs)]
  BY DEF Rows, RowOf
<1> HIDE DEF f
<1> DEFINE S == {i \in 0..Len(bs) :
                  /\ f[i] \in Seq(Rowed) /\ Steady(f[i], 1)
                  /\ i = 0 => f[i] = <<>>
                  /\ i > 0 => /\ f[i] # <<>> /\ f[i][1] = <<bs[1].n, bs[1].skip + 1>>
                              /\ f[i][Len(f[i])] = <<bs[i].n, Moves[bs[i].n]>>}
<1>8. 0 \in S
  <2>1. 0 \in 0..Len(bs) /\ ~(0 > 0)
    BY <1>1
  <2>2. f[0] = <<>>
    BY <1>6, <2>1
  <2>3. <<>> \in Seq(Rowed) /\ Steady(<<>>, 1)
    BY DEF Steady
  <2>4. QED BY <2>1, <2>2, <2>3
<1>9. ASSUME NEW i \in 1..Len(bs), i - 1 \in S PROVE i \in S
  <2>1. i \in 0..Len(bs) /\ i # 0 /\ i > 0 /\ i - 1 \in Int
    BY <1>1
  <2>2. f[i] = f[i - 1] \o RowOf(bs[i])
    BY <1>6, <2>1, Zenon
  <2>3. PICK r : r = f[i - 1]
    OBVIOUS
  <2>4. PICK w : w = RowOf(bs[i])
    OBVIOUS
  <2>5. /\ w \in Seq(Rowed) /\ w # <<>> /\ Steady(w, 1)
        /\ w[1] = <<bs[i].n, bs[i].skip + 1>> /\ w[Len(w)] = <<bs[i].n, Moves[bs[i].n]>>
    BY <1>1, <2>4, RowIs
  <2>6. /\ r \in Seq(Rowed) /\ Steady(r, 1)
        /\ i - 1 = 0 => r = <<>>
        /\ i - 1 > 0 => /\ r # <<>> /\ r[1] = <<bs[1].n, bs[1].skip + 1>>
                        /\ r[Len(r)] = <<bs[i - 1].n, Moves[bs[i - 1].n]>>
    BY <1>9, <2>3
  <2>7. 0 < Len(r) => w[1] = NextMove(r[Len(r)])
    <3>1. SUFFICES ASSUME 0 < Len(r) PROVE w[1] = NextMove(r[Len(r)])
      OBVIOUS
    <3>2. i > 1 /\ i - 1 > 0 /\ i - 1 \in 1..Len(bs)
      <4>1. i # 1
        BY <2>6, <3>1
      <4>2. QED BY <1>1, <4>1
    <3>3. bs[i - 1].n \in Busy /\ bs[i].n \in Busy /\ Follows(bs[i - 1].n, bs[i].n) /\ bs[i].skip = 0
      BY <1>1, <3>2 DEF Message
    <3>4. NextMove(<<bs[i - 1].n, Moves[bs[i - 1].n]>>) = <<bs[i].n, 1>>
      BY <3>3, NextOf
    <3>5. bs[i].skip + 1 = 1
      BY <3>3
    <3>6. QED BY <2>5, <2>6, <3>2, <3>4, <3>5
  <2>8. /\ r \o w \in Seq(Rowed) /\ 0 < Len(r \o w)
        /\ Steady(r \o w, 1)
        /\ (r \o w)[1] = IF r = <<>> THEN w[1] ELSE r[1]
        /\ (r \o w)[Len(r \o w)] = w[Len(w)]
    <3>1. Len(r) \in Nat /\ 0 <= Len(r) /\ 0 + 1 = 1 /\ 0 \in Nat
      BY <2>6
    <3>2. Steady(r, 0 + 1)
      BY <2>6, <3>1
    <3>3. Steady(r \o w, 0 + 1)
      BY <2>5, <2>6, <2>7, <3>1, <3>2, SteadyJoin
    <3>4. QED BY <2>5, <2>6, <2>7, <3>1, <3>2, <3>3, SteadyJoin
  <2>9. f[i] = r \o w /\ f[i] # <<>>
    <3>1. f[i] = r \o w
      BY <2>2, <2>3, <2>4
    <3>2. QED BY <2>8, <3>1
  <2>10. f[i][1] = <<bs[1].n, bs[1].skip + 1>>
    <3>1. CASE r = <<>>
      <4>1. i = 1
        BY <1>1, <2>6, <3>1
      <4>2. QED BY <2>5, <2>8, <2>9, <3>1, <4>1
    <3>2. CASE r # <<>>
      <4>1. i - 1 > 0
        BY <1>1, <2>6, <3>2
      <4>2. QED BY <2>6, <2>8, <2>9, <3>2, <4>1
    <3>3. QED BY <3>1, <3>2
  <2>11. f[i] \in Seq(Rowed) /\ Steady(f[i], 1) /\ f[i][Len(f[i])] = <<bs[i].n, Moves[bs[i].n]>>
    BY <2>5, <2>8, <2>9
  <2>12. QED BY <2>1, <2>9, <2>10, <2>11
<1>10. \A i \in 0..Len(bs) : i \in S
  <2>1. Len(bs) \in Nat
    BY <1>1
  <2> HIDE DEF S
  <2>2. QED BY <1>8, <1>9, <2>1, HandedOn
<1>11. Len(bs) \in S /\ Len(bs) > 0
  BY <1>1, <1>10
<1>12. QED BY <1>7, <1>11
-----------------------------------------------------------------------------
(* A frame that fits leaves the tape without a gap, and ends it.           *)
LEMMA GoodViewerParts ==
  ASSUME NEW v
  PROVE  GoodViewer(v) <=>
           /\ v \in Viewers /\ v.kept <= Len(v.tape) /\ Steady(v.tape, v.kept + 1)
           /\ v.newest = Null => v.kept = Len(v.tape)
           /\ v.newest # Null => /\ v.newest = v.last /\ v.kept < Len(v.tape)
                                 /\ v.tape[Len(v.tape)] = <<v.newest, Moves[v.newest]>>
BY DEF GoodViewer, Steady

LEMMA ShownIs ==
  ASSUME NEW v, GoodViewer(v), NEW f, GoodFrame(f), Fits(v.newest, f)
  PROVE  GoodViewer(Shown(v, f)) /\ Shown(v, f).newest = f.id
<1>1. /\ v \in Viewers /\ v.kept <= Len(v.tape) /\ Steady(v.tape, v.kept + 1)
      /\ v.newest = Null => v.kept = Len(v.tape)
      /\ v.newest # Null => /\ v.newest = v.last /\ v.kept < Len(v.tape)
                            /\ v.tape[Len(v.tape)] = <<v.newest, Moves[v.newest]>>
  BY GoodViewerParts
<1>2. /\ v.last \in {Null} \cup Busy /\ v.newest \in {Null} \cup Busy /\ v.kept \in Nat
      /\ v.tape \in Seq(Rowed)
      /\ v = [last |-> v.last, newest |-> v.newest, kept |-> v.kept, tape |-> v.tape]
  BY <1>1 DEF Viewers, Rowed
<1>3. Null \notin Busy /\ \A n \in Busy : n \in Int
  BY BusyBlocks DEF Null
<1>4. CASE f.blocks = <<>>
  <2>1. f.event = "hello" /\ f.id = Null
    BY <1>4 DEF GoodFrame
  <2> DEFINE w == [last |-> v.last, newest |-> Null, kept |-> Len(v.tape), tape |-> v.tape]
  <2>2. Shown(v, f) = w
    BY <1>2, <1>4, <2>1 DEF Shown
  <2>3. Len(v.tape) \in Nat
    BY <1>2
  <2>4. w \in Viewers
    BY <1>2, <2>3 DEF Viewers, Rowed
  <2>5. w.tape = v.tape /\ w.kept = Len(v.tape) /\ w.newest = Null
    OBVIOUS
  <2> HIDE DEF w
  <2>6. Steady(w.tape, w.kept + 1)
    BY <2>3, <2>5 DEF Steady
  <2>7. w.kept <= Len(w.tape)
    BY <2>3, <2>5
  <2>8. GoodViewer(w)
    BY <2>4, <2>5, <2>6, <2>7, GoodViewerParts
  <2>9. QED BY <2>1, <2>2, <2>5, <2>8
<1>5. CASE f.blocks # <<>>
  <2> DEFINE bs == f.blocks
             r == Rows(bs)
  <2>1. GoodBlocks(bs) /\ f.id = bs[Len(bs)].n
    BY <1>5 DEF GoodFrame
  <2>2. /\ r \in Seq(Rowed) /\ r # <<>> /\ Steady(r, 1)
        /\ r[1] = <<bs[1].n, bs[1].skip + 1>>
        /\ r[Len(r)] = <<f.id, Moves[f.id]>>
    BY <1>5, <2>1, RowsAre
  <2>3. f.id \in Busy
    <3>1. bs \in Seq(Message)
      BY <2>1 DEF GoodBlocks
    <3>2. bs[Len(bs)] \in Message
      BY <1>5, <3>1
    <3>3. QED BY <2>1, <3>2 DEF Message
  <2>4. Last(bs).n = f.id /\ f.id # Null
    BY <1>3, <2>1, <2>3 DEF Last
  <2>5. Len(r) \in Nat /\ 0 < Len(r)
    BY <2>2
  <2>6. CASE f.event = "hello"
    <3> DEFINE w == [last |-> f.id, newest |-> f.id, kept |-> 0, tape |-> r]
    <3>1. Shown(v, f) = w
      BY <1>5, <2>4, <2>6 DEF Shown
    <3> HIDE DEF r
    <3>2. w \in Viewers
      BY <2>2, <2>3 DEF Viewers, Rowed
    <3>3. w.tape = r /\ w.kept = 0 /\ w.newest = f.id /\ w.last = f.id
      OBVIOUS
    <3> HIDE DEF w
    <3>4. GoodViewer(w)
      BY <2>2, <2>4, <2>5, <3>2, <3>3, GoodViewerParts
    <3>5. QED BY <3>1, <3>3, <3>4
  <2>7. CASE f.event # "hello"
    <3>1. f.event = "block" /\ Len(bs) = 1 /\ bs[1].skip = 0
      BY <2>7 DEF GoodFrame, Frames
    <3>2. r[1] = <<f.id, 1>>
      BY <2>1, <2>2, <3>1
    <3>3. v.newest = Null \/ Follows(v.newest, f.id)
      BY <2>7 DEF Fits
    <3>4. ~(v.newest # Null /\ f.id <= v.newest)
      BY <1>2, <1>3, <2>3, <3>3 DEF Follows
    <3> DEFINE w == [last |-> f.id, newest |-> f.id, kept |-> v.kept, tape |-> v.tape \o r]
    <3>5. Shown(v, f) = w
      BY <1>2, <1>5, <2>4, <2>7, <3>4 DEF Shown
    <3> HIDE DEF r
    <3>6. v.kept < Len(v.tape) => r[1] = NextMove(v.tape[Len(v.tape)])
      <4>1. SUFFICES ASSUME v.kept < Len(v.tape) PROVE r[1] = NextMove(v.tape[Len(v.tape)])
        OBVIOUS
      <4>2. v.newest # Null
        BY <1>1, <1>2, <4>1
      <4>3. v.newest \in Busy /\ Follows(v.newest, f.id)
        BY <1>2, <3>3, <4>2
      <4>4. NextMove(<<v.newest, Moves[v.newest]>>) = <<f.id, 1>>
        BY <2>3, <4>3, NextOf
      <4>5. QED BY <1>1, <3>2, <4>2, <4>4
    <3>7. /\ v.tape \o r \in Seq(Rowed) /\ v.kept < Len(v.tape \o r)
          /\ Steady(v.tape \o r, v.kept + 1)
          /\ (v.tape \o r)[Len(v.tape \o r)] = <<f.id, Moves[f.id]>>
      BY <1>1, <1>2, <2>2, <3>6, SteadyJoin
    <3>8. w \in Viewers
      BY <1>2, <2>3, <3>7 DEF Viewers, Rowed
    <3>9. w.tape = v.tape \o r /\ w.kept = v.kept /\ w.newest = f.id /\ w.last = f.id
      OBVIOUS
    <3> HIDE DEF w
    <3>10. w.kept <= Len(w.tape)
      <4>1. Len(v.tape \o r) \in Nat
        BY <3>7
      <4>2. QED BY <1>2, <3>7, <3>9, <4>1
    <3>11. GoodViewer(w)
      BY <2>4, <3>7, <3>8, <3>9, <3>10, GoodViewerParts
    <3>12. QED BY <3>5, <3>9, <3>11
  <2>8. QED BY <2>6, <2>7
<1>6. QED BY <1>4, <1>5

(* So do the frames of a chunk, and the first k of them.                   *)
LEMMA AllShownIs ==
  ASSUME NEW v, GoodViewer(v), NEW c \in Seq(Frames), GoodChunk(c), TakesUp(v.newest, c)
  PROVE  GoodViewer(AllShown(v, c)) /\ AllShown(v, c).newest = EndOf(v.newest, c)
<1>1. /\ Len(c) \in Nat /\ DOMAIN c = 1..Len(c)
      /\ \A j \in 1..Len(c) : c[j] \in Frames /\ GoodFrame(c[j])
      /\ \A j \in 1..Len(c) : j > 1 => Fits(c[j - 1].id, c[j])
  <2>1. Len(c) \in Nat /\ DOMAIN c = 1..Len(c) /\ \A j \in 1..Len(c) : c[j] \in Frames
    OBVIOUS
  <2>2. QED BY <2>1 DEF GoodChunk
<1>2. v \in Viewers
  BY DEF GoodViewer
<1> DEFINE step == [p \in (1..Len(c)) \X Viewers |->
                      IF Shown(p[2], c[p[1]]) \in Viewers THEN Shown(p[2], c[p[1]]) ELSE v]
<1>3. step \in [(1..Len(c)) \X Viewers -> Viewers]
  BY <1>2
<1>4. PICK g \in [0..Len(c) -> Viewers] : Unfolded(g, Len(c), v, step)
  <2> HIDE DEF step
  <2>1. QED BY <1>1, <1>2, <1>3, Unfolding
<1> DEFINE S == {i \in 0..Len(c) :
                  /\ GoodViewer(g[i]) /\ g[i].newest = IF i = 0 THEN v.newest ELSE c[i].id
                  /\ g[i] = IF i = 0 THEN v ELSE Shown(g[i - 1], c[i])}
<1>5. 0 \in S
  <2>1. g[0] = v /\ 0 \in 0..Len(c)
    BY <1>1, <1>4 DEF Unfolded
  <2>2. QED BY <2>1
<1>6. ASSUME NEW i \in 1..Len(c), i - 1 \in S PROVE i \in S
  <2>1. i \in 0..Len(c) /\ i # 0 /\ i - 1 \in 0..Len(c)
    BY <1>1
  <2>2. PICK w : w = g[i - 1]
    OBVIOUS
  <2>3. GoodViewer(w) /\ w \in Viewers /\ w.newest = IF i - 1 = 0 THEN v.newest ELSE c[i - 1].id
    BY <1>6, <2>1, <2>2
  <2>4. Fits(w.newest, c[i])
    <3>1. CASE i = 1
      <4>1. i - 1 = 0 /\ c # <<>>
        BY <1>1, <3>1
      <4>2. QED BY <2>3, <3>1, <4>1 DEF TakesUp
    <3>2. CASE i # 1
      <4>1. i > 1 /\ i - 1 # 0
        BY <1>1, <3>2
      <4>2. QED BY <1>1, <2>3, <4>1
    <3>3. QED BY <3>1, <3>2
  <2>5. GoodViewer(Shown(w, c[i])) /\ Shown(w, c[i]).newest = c[i].id
    BY <1>1, <2>3, <2>4, ShownIs
  <2>6. Shown(w, c[i]) \in Viewers
    BY <2>5 DEF GoodViewer
  <2>7. g[i] = step[<<i, w>>]
    BY <1>4, <2>2 DEF Unfolded
  <2>8. <<i, w>> \in (1..Len(c)) \X Viewers
    BY <2>3
  <2>9. g[i] = Shown(w, c[i])
    BY <2>6, <2>7, <2>8
  <2>10. QED BY <2>1, <2>2, <2>5, <2>9
<1>7. \A i \in 0..Len(c) : i \in S
  <2> HIDE DEF S
  <2>1. QED BY <1>1, <1>5, <1>6, HandedOn
<1>8. g = [i \in 0..Len(c) |-> IF i = 0 THEN v ELSE Shown(g[i - 1], c[i])]
  <2>1. \A i \in 0..Len(c) : g[i] = IF i = 0 THEN v ELSE Shown(g[i - 1], c[i])
    BY <1>7
  <2> HIDE DEF S, step
  <2>2. QED BY <2>1
<1> DEFINE f == CHOOSE h : h = [i \in 0..Len(c) |-> IF i = 0 THEN v ELSE Shown(h[i - 1], c[i])]
<1>9. f = [i \in 0..Len(c) |-> IF i = 0 THEN v ELSE Shown(f[i - 1], c[i])]
  <2> HIDE DEF S, step
  <2>1. QED BY <1>8
<1>10. AllShown(v, c) = f[Len(c)]
  BY DEF AllShown
<1> HIDE DEF f, step
<1> DEFINE same == {i \in 0..Len(c) : f[i] = g[i]}
<1>11. \A i \in 0..Len(c) : i \in same
  <2>1. 0 \in same
    BY <1>1, <1>8, <1>9
  <2>2. ASSUME NEW i \in 1..Len(c), i - 1 \in same PROVE i \in same
    <3>1. i \in 0..Len(c) /\ i # 0
      BY <1>1
    <3>2. g[i] = Shown(g[i - 1], c[i])
      BY <1>8, <3>1, Zenon
    <3>3. f[i] = Shown(f[i - 1], c[i])
      BY <1>9, <3>1, Zenon
    <3>4. QED BY <2>2, <3>1, <3>2, <3>3
  <2> HIDE DEF same
  <2>3. QED BY <1>1, <2>1, <2>2, HandedOn
<1>12. AllShown(v, c) = g[Len(c)] /\ Len(c) \in S
  BY <1>1, <1>7, <1>10, <1>11
<1>13. EndOf(v.newest, c) = IF Len(c) = 0 THEN v.newest ELSE c[Len(c)].id
  BY <1>1 DEF EndOf
<1>14. QED BY <1>12, <1>13
-----------------------------------------------------------------------------
(* Chunks, and the queue of them.                                          *)
LEMMA PrefixChunk ==
  ASSUME NEW c \in Seq(Frames), GoodChunk(c), NEW p, TakesUp(p, c), NEW k \in 1..Len(c)
  PROVE  SubSeq(c, 1, k) \in Seq(Frames) /\ GoodChunk(SubSeq(c, 1, k)) /\ TakesUp(p, SubSeq(c, 1, k))
<1> DEFINE d == SubSeq(c, 1, k)
<1>1. Len(c) \in Nat /\ k \in 1..Len(c)
  OBVIOUS
<1>2. d \in Seq(Frames) /\ Len(d) = k /\ \A j \in 1..k : d[j] = c[j]
  <2>1. \A j \in 1..k : j \in 1..Len(c) /\ 1 + j - 1 = j
    BY <1>1
  <2>2. 1 \in 1..Len(c) /\ k - 1 + 1 = k /\ 1 <= k
    BY <1>1
  <2>3. QED BY <1>1, <2>1, <2>2, SubSeqProperties
<1> HIDE DEF d
<1>3. DOMAIN d = 1..k /\ DOMAIN c = 1..Len(c) /\ \A j \in 1..k : j \in 1..Len(c) /\ (j > 1 => j - 1 \in 1..k)
  BY <1>1, <1>2
<1>4. GoodChunk(d)
  <2>1. ASSUME NEW j \in 1..k PROVE GoodFrame(d[j]) /\ (j > 1 => Fits(d[j - 1].id, d[j]))
    <3>1. GoodFrame(c[j]) /\ (j > 1 => Fits(c[j - 1].id, c[j]))
      BY <1>3 DEF GoodChunk
    <3>2. d[j] = c[j] /\ (j > 1 => d[j - 1] = c[j - 1])
      BY <1>2, <1>3
    <3>3. QED BY <3>1, <3>2
  <2>2. QED BY <1>3, <2>1 DEF GoodChunk
<1>5. TakesUp(p, d)
  <2>1. c # <<>> /\ d[1] = c[1]
    BY <1>1, <1>2
  <2>2. QED BY <2>1 DEF TakesUp
<1>6. QED BY <1>2, <1>4, <1>5 DEF d

LEMMA BlockFrameIs ==
  ASSUME NEW n \in Busy
  PROVE  /\ BlockFrame(n) \in Frames /\ GoodFrame(BlockFrame(n)) /\ BlockFrame(n).id = n
         /\ \A p : Fits(p, BlockFrame(n)) <=> p = Null \/ Follows(p, n)
<1> DEFINE bs == <<[n |-> n, skip |-> 0]>>
<1>1. BlockFrame(n) = [event |-> "block", id |-> n, blocks |-> bs]
  BY DEF BlockFrame
<1>2. Moves[n] \in Nat \ {0} /\ [n |-> n, skip |-> 0] \in Message
  BY BusyBlocks DEF Message
<1>3. /\ bs \in Seq(Message) /\ Len(bs) = 1 /\ DOMAIN bs = 1..1 /\ bs # <<>>
      /\ bs[1].n = n /\ bs[1].skip = 0
  BY <1>2
<1> HIDE DEF bs
<1>4. GoodBlocks(bs)
  BY <1>2, <1>3 DEF GoodBlocks
<1>5. /\ BlockFrame(n).event = "block" /\ BlockFrame(n).id = n /\ BlockFrame(n).blocks = bs
      /\ BlockFrame(n) \in Frames
  BY <1>1, <1>3 DEF Frames
<1>6. GoodFrame(BlockFrame(n))
  BY <1>3, <1>4, <1>5 DEF GoodFrame
<1>7. QED BY <1>5, <1>6 DEF Fits

(* The blocks of one cycle.                                                *)
LEMMA BlocksChunk ==
  ASSUME NEW s, Run(s), s # <<>>, NEW p, p = Null \/ Follows(p, s[1])
  PROVE  LET c == [i \in 1..Len(s) |-> BlockFrame(s[i])]
         IN c \in Seq(Frames) /\ GoodChunk(c) /\ TakesUp(p, c) /\ EndOf(p, c) = s[Len(s)]
<1> DEFINE c == [i \in 1..Len(s) |-> BlockFrame(s[i])]
<1>1. /\ s \in Seq(Busy) /\ Len(s) \in Nat /\ \A i \in 1..Len(s) : s[i] \in Busy
      /\ \A i \in 1..Len(s) : i > 1 => Follows(s[i - 1], s[i])
  BY RunFacts
<1>2. 1 \in 1..Len(s) /\ Len(s) \in 1..Len(s)
  BY <1>1
<1>3. c \in [1..Len(s) -> Frames] /\ \A i \in 1..Len(s) : c[i] = BlockFrame(s[i])
  BY <1>1, BlockFrameIs
<1> HIDE DEF c
<1>4. c \in Seq(Frames) /\ Len(c) = Len(s) /\ DOMAIN c = 1..Len(s) /\ c # <<>>
  <2>1. c \in Seq(Frames) /\ Len(c) = Len(s) /\ DOMAIN c = 1..Len(s)
    BY <1>1, <1>3, Listed
  <2>2. QED BY <1>2, <2>1
<1>5. GoodChunk(c)
  <2>1. ASSUME NEW j \in 1..Len(s) PROVE GoodFrame(c[j]) /\ (j > 1 => Fits(c[j - 1].id, c[j]))
    <3>1. GoodFrame(c[j])
      BY <1>1, <1>3, BlockFrameIs
    <3>2. ASSUME j > 1 PROVE Fits(c[j - 1].id, c[j])
      <4>1. j - 1 \in 1..Len(s)
        BY <1>1, <3>2
      <4>2. c[j - 1].id = s[j - 1] /\ Follows(s[j - 1], s[j])
        BY <1>1, <1>3, <3>2, <4>1, BlockFrameIs
      <4>3. QED BY <1>1, <1>3, <4>2, BlockFrameIs
    <3>3. QED BY <3>1, <3>2
  <2>2. QED BY <1>4, <2>1 DEF GoodChunk
<1>6. TakesUp(p, c)
  BY <1>1, <1>2, <1>3, BlockFrameIs DEF TakesUp
<1>7. EndOf(p, c) = s[Len(s)]
  BY <1>1, <1>2, <1>3, <1>4, BlockFrameIs DEF EndOf
<1>8. QED BY <1>4, <1>5, <1>6, <1>7 DEF c

(* A hello starts the tape anew, so it fits anywhere.                      *)
LEMMA HelloChunk ==
  ASSUME NEW s, Run(s), NEW p
  PROVE  LET c == <<HelloFrame(s)>>
         IN /\ c \in Seq(Frames) /\ GoodChunk(c) /\ TakesUp(p, c)
            /\ EndOf(p, c) = IF s = <<>> THEN Null ELSE s[Len(s)]
<1> DEFINE f == HelloFrame(s)
           c == <<f>>
<1>1. GoodFrame(f) /\ f.event = "hello" /\ f.id = IF s = <<>> THEN Null ELSE s[Len(s)]
  BY HelloIs
<1>2. f \in Frames
  BY <1>1 DEF GoodFrame
<1> HIDE DEF f
<1>3. c \in Seq(Frames) /\ Len(c) = 1 /\ DOMAIN c = 1..1 /\ c[1] = f /\ c # <<>>
  BY <1>2
<1> HIDE DEF c
<1>4. GoodChunk(c)
  BY <1>1, <1>3 DEF GoodChunk
<1>5. QED BY <1>1, <1>3, <1>4 DEF TakesUp, EndOf, Fits, c, f

LEMMA AsideChunk ==
  ASSUME NEW p
  PROVE  Aside \in Seq(Frames) /\ GoodChunk(Aside) /\ TakesUp(p, Aside) /\ EndOf(p, Aside) = p
BY DEF Aside, GoodChunk, TakesUp, EndOf

LEMMA ThreadsNone ==
  ASSUME NEW p \in {Null} \cup Busy
  PROVE  \E at \in Positions(<<>>) : Threads(at, <<>>, p) /\ at[Len(<<>>) + 1] = p
<1> DEFINE at == [i \in 1..(Len(<<>>) + 1) |-> p]
<1>1. at \in Positions(<<>>)
  BY DEF Positions
<1>2. at[1] = p /\ at[Len(<<>>) + 1] = p
  OBVIOUS
<1> HIDE DEF at
<1>3. Threads(at, <<>>, p)
  BY <1>2 DEF Threads
<1>4. QED BY <1>1, <1>2, <1>3

LEMMA EndOfIs ==
  ASSUME NEW c \in Seq(Frames), NEW p \in {Null} \cup Busy
  PROVE  EndOf(p, c) \in {Null} \cup Busy
<1>1. CASE c = <<>>
  BY <1>1 DEF EndOf
<1>2. CASE c # <<>>
  <2>1. c[Len(c)] \in Frames
    BY <1>2
  <2>2. QED BY <1>2, <2>1 DEF EndOf, Frames
<1>3. QED BY <1>1, <1>2

LEMMA ThreadsAppend ==
  ASSUME NEW q \in Seq(Seq(Frames)), NEW p, NEW at \in Positions(q), Threads(at, q, p),
         NEW c \in Seq(Frames), GoodChunk(c), TakesUp(at[Len(q) + 1], c)
  PROVE  \E b \in Positions(Append(q, c)) :
           /\ Threads(b, Append(q, c), p)
           /\ b[Len(Append(q, c)) + 1] = EndOf(at[Len(q) + 1], c)
<1>1. PICK m \in Nat : m = Len(q)
  OBVIOUS
<1>2. DOMAIN q = 1..m /\ at \in [1..(m + 1) -> {Null} \cup Busy]
  BY <1>1 DEF Positions
<1>3. PICK e \in {Null} \cup Busy : e = EndOf(at[m + 1], c)
  <2>1. at[m + 1] \in {Null} \cup Busy
    BY <1>2
  <2>2. QED BY <2>1, EndOfIs
<1> DEFINE r == Append(q, c)
<1>4. /\ r \in Seq(Seq(Frames)) /\ Len(r) = m + 1 /\ DOMAIN r = 1..(m + 1)
      /\ \A i \in 1..m : r[i] = q[i]
      /\ r[m + 1] = c
  <2>1. r \in Seq(Seq(Frames)) /\ Len(r) = Len(q) + 1 /\ DOMAIN r = 1..(Len(q) + 1)
    OBVIOUS
  <2>2. \A i \in 1..Len(q) : r[i] = q[i]
    OBVIOUS
  <2>3. r[Len(q) + 1] = c
    OBVIOUS
  <2>4. QED BY <1>1, <2>1, <2>2, <2>3
<1> HIDE DEF r
<1> DEFINE b == [i \in 1..(m + 2) |-> IF i = m + 2 THEN e ELSE at[i]]
<1>5. /\ b \in [1..(m + 2) -> {Null} \cup Busy]
      /\ \A i \in 1..(m + 1) : b[i] = at[i]
      /\ b[m + 2] = e
  <2>1. \A i \in 1..(m + 2) : i # m + 2 => i \in 1..(m + 1)
    OBVIOUS
  <2>2. m + 2 \in 1..(m + 2) /\ \A i \in 1..(m + 1) : i \in 1..(m + 2) /\ i # m + 2
    OBVIOUS
  <2>3. QED BY <1>2, <1>3, <2>1, <2>2
<1> HIDE DEF b
<1>6. m + 1 + 1 = m + 2 /\ 1 \in 1..(m + 1) /\ m + 1 \in 1..(m + 1)
  OBVIOUS
<1>7. b \in Positions(r) /\ b[Len(r) + 1] = e
  BY <1>4, <1>5, <1>6 DEF Positions
<1>8. Threads(b, r, p)
  <2>1. b[1] = p
    BY <1>5, <1>6 DEF Threads
  <2>2. ASSUME NEW i \in 1..(m + 1)
        PROVE  GoodChunk(r[i]) /\ TakesUp(b[i], r[i]) /\ b[i + 1] = EndOf(b[i], r[i])
    <3>1. CASE i = m + 1
      <4>1. b[i] = at[m + 1] /\ b[i + 1] = e /\ r[i] = c
        BY <1>4, <1>5, <1>6, <3>1
      <4>2. QED BY <1>1, <1>3, <4>1
    <3>2. CASE i # m + 1
      <4>1. i \in 1..m /\ i + 1 \in 1..(m + 1)
        BY <3>2
      <4>2. GoodChunk(q[i]) /\ TakesUp(at[i], q[i]) /\ at[i + 1] = EndOf(at[i], q[i])
        BY <1>2, <4>1 DEF Threads
      <4>3. b[i] = at[i] /\ b[i + 1] = at[i + 1] /\ r[i] = q[i]
        BY <1>4, <1>5, <4>1
      <4>4. QED BY <4>2, <4>3
    <3>3. QED BY <3>1, <3>2
  <2>3. QED BY <1>4, <2>1, <2>2 DEF Threads
<1>9. b \in Positions(r) /\ Threads(b, r, p) /\ b[Len(r) + 1] = EndOf(at[Len(q) + 1], c)
  BY <1>1, <1>3, <1>7, <1>8
<1>10. QED BY <1>9 DEF r

LEMMA ThreadsTail ==
  ASSUME NEW q \in Seq(Seq(Frames)), q # <<>>, NEW p, NEW at \in Positions(q), Threads(at, q, p)
  PROVE  /\ Head(q) \in Seq(Frames) /\ GoodChunk(Head(q)) /\ TakesUp(p, Head(q))
         /\ \E b \in Positions(Tail(q)) :
              /\ Threads(b, Tail(q), EndOf(p, Head(q)))
              /\ b[Len(Tail(q)) + 1] = at[Len(q) + 1]
<1>1. PICK m \in Nat : m + 1 = Len(q)
  <2>1. Len(q) \in Nat /\ Len(q) # 0
    OBVIOUS
  <2>2. Len(q) - 1 \in Nat /\ Len(q) - 1 + 1 = Len(q)
    BY <2>1
  <2>3. QED BY <2>2
<1>2. DOMAIN q = 1..(m + 1) /\ at \in [1..(m + 2) -> {Null} \cup Busy] /\ m + 1 + 1 = m + 2
  <2>1. m + 1 + 1 = m + 2
    OBVIOUS
  <2>2. at \in [1..(m + 1 + 1) -> {Null} \cup Busy]
    BY <1>1 DEF Positions
  <2>3. DOMAIN q = 1..(m + 1)
    BY <1>1
  <2>4. QED BY <2>1, <2>2, <2>3
<1> DEFINE r == Tail(q)
<1>3. /\ r \in Seq(Seq(Frames)) /\ Len(r) = m /\ DOMAIN r = 1..m
      /\ \A i \in 1..m : r[i] = q[i + 1]
      /\ Head(q) = q[1] /\ Head(q) \in Seq(Frames)
  <2>1. /\ r \in Seq(Seq(Frames)) /\ Len(r) = Len(q) - 1 /\ \A i \in 1..Len(r) : r[i] = q[i + 1]
        /\ Head(q) \in Seq(Frames)
    BY HeadTailProperties
  <2> HIDE DEF r
  <2>2. Len(r) = m
    BY <1>1, <2>1
  <2>3. DOMAIN r = 1..m /\ Head(q) = q[1]
    BY <2>1, <2>2
  <2>4. QED BY <2>1, <2>2, <2>3
<1> HIDE DEF r
<1> DEFINE b == [i \in 1..(m + 1) |-> at[i + 1]]
<1>4. b \in [1..(m + 1) -> {Null} \cup Busy] /\ \A i \in 1..(m + 1) : b[i] = at[i + 1]
  <2>1. \A i \in 1..(m + 1) : i + 1 \in 1..(m + 2)
    OBVIOUS
  <2>2. QED BY <1>2, <2>1
<1> HIDE DEF b
<1>5. \A i \in 1..(m + 1) :
        GoodChunk(q[i]) /\ TakesUp(at[i], q[i]) /\ at[i + 1] = EndOf(at[i], q[i])
  BY <1>2 DEF Threads
<1>6. 1 \in 1..(m + 1) /\ m + 1 \in 1..(m + 1) /\ at[1] = p /\ 1 + 1 \in Int
  BY DEF Threads
<1>7. GoodChunk(Head(q)) /\ TakesUp(p, Head(q)) /\ b[1] = EndOf(p, Head(q))
  BY <1>3, <1>4, <1>5, <1>6
<1>8. b \in Positions(r) /\ b[Len(r) + 1] = at[Len(q) + 1]
  BY <1>1, <1>3, <1>4, <1>6 DEF Positions
<1>9. Threads(b, r, EndOf(p, Head(q)))
  <2>1. ASSUME NEW i \in 1..m
        PROVE  GoodChunk(r[i]) /\ TakesUp(b[i], r[i]) /\ b[i + 1] = EndOf(b[i], r[i])
    <3>1. i + 1 \in 1..(m + 1) /\ i \in 1..(m + 1)
      OBVIOUS
    <3>2. r[i] = q[i + 1] /\ b[i] = at[i + 1] /\ b[i + 1] = at[i + 1 + 1]
      BY <1>3, <1>4, <3>1
    <3>3. QED BY <1>5, <3>1, <3>2
  <2>2. QED BY <1>3, <1>7, <2>1 DEF Threads
<1>10. b \in Positions(r) /\ Threads(b, r, EndOf(p, Head(q))) /\ b[Len(r) + 1] = at[Len(q) + 1]
  BY <1>8, <1>9
<1>11. \E c \in Positions(r) : Threads(c, r, EndOf(p, Head(q))) /\ c[Len(r) + 1] = at[Len(q) + 1]
  BY <1>10
<1>12. QED BY <1>3, <1>7, <1>11 DEF r
-----------------------------------------------------------------------------
(* A resumed viewer gets every block after its last, from the next one on. *)
LEMMA MissedIs ==
  ASSUME NEW s, Run(s), s # <<>>, NEW through \in -1..MaxBlock, Meets(through, s),
         NEW id \in Busy, id >= through, id <= s[Len(s)]
  PROVE  LET w == Among(s, {n \in Busy : n > id})
         IN /\ Run(w)
            /\ w # <<>> => Follows(id, w[1]) /\ w[Len(w)] = s[Len(s)]
            /\ w = <<>> => Gapless(id, s[Len(s)])
<1> DEFINE later == {n \in Busy : n > id}
           w == Among(s, later)
<1>1. /\ s \in Seq(Int) /\ Len(s) \in Nat /\ DOMAIN s = 1..Len(s)
      /\ \A i \in 1..Len(s) : s[i] \in Busy /\ s[i] \in 1..MaxBlock
      /\ \A i, j \in 1..Len(s) : i <= j => s[i] <= s[j]
  BY RunFacts
<1>2. 1 \in 1..Len(s) /\ Len(s) \in 1..Len(s) /\ Ordered(s)
  BY <1>1 DEF Run
<1>3. Kept(w, s, Len(s), later)
  BY <1>1, <1>2, AmongKeeps
<1> HIDE DEF w
<1>4. /\ w \in Seq(Int) /\ Ordered(w)
      /\ \A j \in DOMAIN w : w[j] \in Busy /\ w[j] > id /\ \E k \in 1..Len(s) : s[k] = w[j]
      /\ \A k \in 1..Len(s) : s[k] \in later => \E j \in DOMAIN w : w[j] = s[k]
  BY <1>3 DEF Kept
<1>5. w \in Seq(Busy)
  BY <1>4, SeqTyped
<1>6. /\ id \in Int /\ through \in Int /\ s[1] \in Int /\ s[Len(s)] \in Int
      /\ \A k \in Busy : k \in Int
      /\ through <= s[1] /\ \A k \in Busy : ~(through < k /\ k < s[1])
  BY <1>1, <1>2, BusyBlocks DEF Meets
<1>7. ASSUME NEW k \in Busy, id < k, k <= s[Len(s)] PROVE \E j \in DOMAIN w : w[j] = k
  <2>1. k \in Int /\ s[1] <= k
    BY <1>6, <1>7
  <2>2. PICK i \in 1..Len(s) : s[i] = k
    BY <1>1, <1>7, <2>1 DEF Run
  <2>3. s[i] \in later
    BY <1>6, <1>7, <2>2
  <2>4. QED BY <1>4, <2>2, <2>3
<1>8. \A j \in DOMAIN w : w[j] <= s[Len(s)] /\ w[j] \in Int /\ w[j] > id
  BY <1>1, <1>2, <1>4, <1>6
<1>9. w # <<>> => 1 \in DOMAIN w /\ Len(w) \in DOMAIN w
  BY <1>5
<1>10. Run(w)
  <2>1. SUFFICES ASSUME NEW k \in Busy, w # <<>>, w[1] <= k, k <= w[Len(w)]
                 PROVE  \E i \in DOMAIN w : w[i] = k
    BY <1>4, <1>5 DEF Run
  <2>2. id < k /\ k <= s[Len(s)]
    BY <1>6, <1>8, <1>9, <2>1
  <2>3. QED BY <1>7, <2>2
<1>11. ASSUME w # <<>> PROVE Follows(id, w[1]) /\ w[Len(w)] = s[Len(s)]
  <2>1. /\ 1 \in DOMAIN w /\ Len(w) \in DOMAIN w /\ DOMAIN w = 1..Len(w)
        /\ \A i, j \in 1..Len(w) : i <= j => w[i] <= w[j]
    BY <1>9, <1>10, <1>11, RunFacts
  <2>2. ASSUME NEW k \in Busy, id < k, k < w[1] PROVE FALSE
    <3>1. k <= s[Len(s)]
      BY <1>6, <1>8, <2>1, <2>2
    <3>2. PICK j \in DOMAIN w : w[j] = k
      BY <1>7, <2>2, <3>1
    <3>3. w[1] <= w[j]
      BY <2>1, <3>2
    <3>4. QED BY <1>6, <1>8, <2>1, <2>2, <3>2, <3>3
  <2>3. Follows(id, w[1])
    BY <1>8, <2>1, <2>2 DEF Follows
  <2>4. w[Len(w)] = s[Len(s)]
    <3>1. id < s[Len(s)] /\ s[Len(s)] \in Busy
      BY <1>1, <1>2, <1>6, <1>8, <2>1
    <3>2. PICK j \in DOMAIN w : w[j] = s[Len(s)]
      BY <1>6, <1>7, <3>1
    <3>3. w[j] <= w[Len(w)] /\ w[Len(w)] <= s[Len(s)]
      BY <1>8, <2>1, <3>2
    <3>4. QED BY <1>6, <1>8, <2>1, <3>2, <3>3
  <2>5. QED BY <2>3, <2>4
<1>12. ASSUME w = <<>> PROVE Gapless(id, s[Len(s)])
  BY <1>7, <1>12 DEF Gapless
<1>13. QED BY <1>10, <1>11, <1>12 DEF w

LEMMA OneBlock ==
  ASSUME NEW n \in Busy, NEW p, p = Null \/ Follows(p, n)
  PROVE  LET c == <<BlockFrame(n)>>
         IN c \in Seq(Frames) /\ GoodChunk(c) /\ TakesUp(p, c) /\ EndOf(p, c) = n
<1> DEFINE f == BlockFrame(n)
           c == <<f>>
<1>1. f \in Frames /\ GoodFrame(f) /\ f.id = n /\ Fits(p, f)
  BY BlockFrameIs
<1> HIDE DEF f
<1>2. c \in Seq(Frames) /\ Len(c) = 1 /\ DOMAIN c = 1..1 /\ c[1] = f /\ c # <<>>
  BY <1>1
<1> HIDE DEF c
<1>3. GoodChunk(c)
  BY <1>1, <1>2 DEF GoodChunk
<1>4. QED BY <1>1, <1>2, <1>3 DEF TakesUp, EndOf, c, f

(* What a stream is greeted with takes up where its viewer's tape ends and *)
(* leads to the newest block of the buffer.                                *)
LEMMA ResumedGreeting ==
  ASSUME NEW w, Run(w), NEW p \in {Null} \cup Busy, w # <<>> => p = Null \/ Follows(p, w[1]),
         NEW q, q = <<Aside>> \o [i \in 1..Len(w) |-> <<BlockFrame(w[i])>>] \o <<Aside>>
  PROVE  /\ q \in Seq(Seq(Frames))
         /\ \E at \in Positions(q) :
              Threads(at, q, p) /\ at[Len(q) + 1] = IF w = <<>> THEN p ELSE w[Len(w)]
<1>1. /\ w \in Seq(Busy) /\ Len(w) \in Nat /\ \A i \in 1..Len(w) : w[i] \in Busy
      /\ \A i \in 1..Len(w) : i > 1 => Follows(w[i - 1], w[i])
  BY RunFacts
<1>2. PICK m \in Nat : m = Len(w)
  BY <1>1
<1>3. PICK e \in [0..m -> {Null} \cup Busy] : e[0] = p /\ \A i \in 1..m : e[i] = w[i]
  <2> DEFINE e == [i \in 0..m |-> IF i = 0 THEN p ELSE w[i]]
  <2>1. \A i \in 0..m : i # 0 => i \in 1..m
    OBVIOUS
  <2>2. e \in [0..m -> {Null} \cup Busy]
    BY <1>1, <1>2, <2>1
  <2>3. e[0] = p /\ \A i \in 1..m : e[i] = w[i]
    OBVIOUS
  <2> HIDE DEF e
  <2>4. QED BY <2>2, <2>3
<1>4. \A i \in 1..m : e[i - 1] = Null \/ Follows(e[i - 1], w[i])
  <2>1. TAKE i \in 1..m
  <2>2. CASE i = 1
    <3>1. i - 1 = 0 /\ w # <<>>
      BY <1>1, <1>2, <2>2
    <3>2. QED BY <1>3, <2>2, <3>1
  <2>3. CASE i # 1
    <3>1. i > 1 /\ i - 1 \in 1..m
      BY <2>3
    <3>2. e[i - 1] = w[i - 1] /\ Follows(w[i - 1], w[i])
      BY <1>1, <1>2, <1>3, <3>1
    <3>3. QED BY <3>2
  <2>4. QED BY <2>2, <2>3
<1> DEFINE c == [i \in 1..m |-> <<BlockFrame(w[i])>>]
<1>5. c \in Seq(Seq(Frames)) /\ Len(c) = m /\ \A i \in 1..m : c[i] = <<BlockFrame(w[i])>>
  <2>1. \A i \in 1..m : <<BlockFrame(w[i])>> \in Seq(Frames)
    BY <1>1, <1>2, <1>4, OneBlock
  <2>2. c \in [1..m -> Seq(Frames)] /\ \A i \in 1..m : c[i] = <<BlockFrame(w[i])>>
    BY <2>1
  <2> HIDE DEF c
  <2>3. c \in Seq(Seq(Frames)) /\ Len(c) = m
    BY <2>2, Listed
  <2>4. QED BY <2>2, <2>3
<1>6. q = <<Aside>> \o c \o <<Aside>> /\ Aside \in Seq(Frames)
  BY <1>2, AsideChunk
<1> HIDE DEF c
<1>7. /\ q \in Seq(Seq(Frames)) /\ Len(q) = m + 2 /\ DOMAIN q = 1..(m + 2)
      /\ q[1] = Aside /\ q[m + 2] = Aside
      /\ \A i \in 1..m : q[i + 1] = <<BlockFrame(w[i])>>
  <2> DEFINE a == <<Aside>>
             d == a \o c
  <2>1. a \in Seq(Seq(Frames)) /\ Len(a) = 1 /\ a[1] = Aside
    BY <1>6
  <2> HIDE DEF a
  <2>2. /\ d \in Seq(Seq(Frames)) /\ Len(d) = m + 1
        /\ \A i \in 1..(1 + m) : d[i] = IF i <= 1 THEN a[i] ELSE c[i - 1]
    <3>1. /\ d \in Seq(Seq(Frames)) /\ Len(d) = Len(a) + Len(c)
          /\ \A i \in 1..(Len(a) + Len(c)) : d[i] = IF i <= Len(a) THEN a[i] ELSE c[i - Len(a)]
      BY <1>5, <2>1, ConcatProperties
    <3> HIDE DEF d
    <3>2. 1 + m = m + 1
      OBVIOUS
    <3>3. QED BY <1>5, <2>1, <3>1, <3>2
  <2> HIDE DEF d
  <2>3. d[1] = Aside /\ \A i \in 1..m : d[i + 1] = c[i]
    <3>1. 1 \in 1..(1 + m) /\ \A i \in 1..m : i + 1 \in 1..(1 + m) /\ ~(i + 1 <= 1) /\ i + 1 - 1 = i
      OBVIOUS
    <3>2. QED BY <2>1, <2>2, <3>1
  <2>4. q = d \o <<Aside>>
    BY <1>6 DEF d, a
  <2>5. /\ q \in Seq(Seq(Frames)) /\ Len(q) = Len(d) + 1 /\ DOMAIN q = 1..(Len(d) + 1)
        /\ \A i \in 1..Len(d) : q[i] = d[i]
        /\ q[Len(d) + 1] = Aside
    <3>1. /\ d \o <<Aside>> \in Seq(Seq(Frames)) /\ Len(d \o <<Aside>>) = Len(d) + 1
          /\ \A i \in 1..Len(d) : (d \o <<Aside>>)[i] = d[i]
          /\ (d \o <<Aside>>)[Len(d) + 1] = Aside
      BY <1>6, <2>2, Appended
    <3>2. DOMAIN (d \o <<Aside>>) = 1..(Len(d) + 1)
      BY <3>1
    <3>3. QED BY <2>4, <3>1, <3>2
  <2>6. m + 1 + 1 = m + 2 /\ 1 \in 1..(m + 1) /\ \A i \in 1..m : i + 1 \in 1..(m + 1)
    OBVIOUS
  <2>7. QED BY <1>5, <2>2, <2>3, <2>5, <2>6
<1> DEFINE at == [i \in 1..(m + 3) |-> IF i = 1 THEN p ELSE IF i = m + 3 THEN e[m] ELSE e[i - 2]]
<1>8. /\ at \in [1..(m + 3) -> {Null} \cup Busy]
      /\ at[1] = p /\ at[m + 3] = e[m]
      /\ \A i \in 0..m : at[i + 2] = e[i]
  <2>1. \A i \in 1..(m + 3) : i # 1 /\ i # m + 3 => i - 2 \in 0..m
    OBVIOUS
  <2>2. m \in 0..m /\ 1 \in 1..(m + 3) /\ m + 3 \in 1..(m + 3) /\ m + 3 # 1
    OBVIOUS
  <2>3. \A i \in 0..m : i + 2 \in 1..(m + 3) /\ i + 2 # 1 /\ i + 2 # m + 3 /\ i + 2 - 2 = i
    OBVIOUS
  <2>4. \A i \in 0..m : e[i] \in {Null} \cup Busy
    BY <1>3
  <2>5. at \in [1..(m + 3) -> {Null} \cup Busy]
    BY <2>1, <2>2, <2>4
  <2>6. at[1] = p /\ at[m + 3] = e[m]
    BY <2>2
  <2>7. \A i \in 0..m : at[i + 2] = e[i]
    BY <2>3
  <2> HIDE DEF at
  <2>8. QED BY <2>5, <2>6, <2>7
<1> HIDE DEF at
<1>9. at \in Positions(q) /\ at[Len(q) + 1] = e[m]
  <2>1. Len(q) + 1 = m + 3
    BY <1>7
  <2>2. QED BY <1>8, <2>1 DEF Positions
<1>10. Threads(at, q, p)
  <2>1. ASSUME NEW i \in 1..(m + 2)
        PROVE  GoodChunk(q[i]) /\ TakesUp(at[i], q[i]) /\ at[i + 1] = EndOf(at[i], q[i])
    <3>1. CASE i = 1
      <4>1. 0 \in 0..m /\ 0 + 2 = i + 1
        BY <3>1
      <4>2. at[i + 1] = p /\ at[i] = p
        BY <1>3, <1>8, <3>1, <4>1
      <4>3. QED BY <1>7, <3>1, <4>2, AsideChunk
    <3>2. CASE i = m + 2
      <4>1. m \in 0..m /\ i + 1 = m + 3
        BY <3>2
      <4>2. at[i + 1] = e[m] /\ at[i] = e[m]
        BY <1>8, <3>2, <4>1
      <4>3. QED BY <1>7, <3>2, <4>2, AsideChunk
    <3>3. CASE i # 1 /\ i # m + 2
      <4>1. PICK j \in 1..m : i = j + 1
        <5>1. i - 1 \in 1..m /\ i = i - 1 + 1
          BY <3>3
        <5>2. QED BY <5>1
      <4>2. j \in 0..m /\ j - 1 \in 0..m /\ i + 1 = j + 2 /\ i = j - 1 + 2
        BY <4>1
      <4>3. at[i] = e[j - 1] /\ at[i + 1] = w[j] /\ q[i] = <<BlockFrame(w[j])>>
        BY <1>3, <1>7, <1>8, <4>1, <4>2
      <4>4. w[j] \in Busy /\ (e[j - 1] = Null \/ Follows(e[j - 1], w[j]))
        BY <1>1, <1>2, <1>4, <4>1
      <4>5. QED BY <4>3, <4>4, OneBlock
    <3>4. QED BY <3>1, <3>2, <3>3
  <2>2. QED BY <1>7, <1>8, <2>1 DEF Threads
<1>11. e[m] = IF w = <<>> THEN p ELSE w[Len(w)]
  <2>1. CASE w = <<>>
    <3>1. m = 0
      BY <1>2, <2>1
    <3>2. QED BY <1>3, <2>1, <3>1
  <2>2. CASE w # <<>>
    <3>1. m \in 1..m
      BY <1>1, <1>2, <2>2
    <3>2. QED BY <1>2, <1>3, <2>2, <3>1
  <2>3. QED BY <2>1, <2>2
<1>12. QED BY <1>7, <1>9, <1>10, <1>11

LEMMA GreetingIs ==
  ASSUME NEW v, GoodViewer(v), NEW s, Run(s), NEW through \in -1..MaxBlock, Meets(through, s),
         NEW q, q = Greeting(v.last, s, through)
  PROVE  /\ q \in Seq(Seq(Frames))
         /\ \E at \in Positions(q) :
              /\ Threads(at, q, v.newest)
              /\ at[Len(q) + 1] # Null => s # <<>> /\ Gapless(at[Len(q) + 1], s[Len(s)])
<1>1. /\ v.newest \in {Null} \cup Busy /\ v.last \in {Null} \cup Busy
      /\ v.newest # Null => v.newest = v.last
  BY DEF GoodViewer, Viewers
<1>2. s # <<>> => s[Len(s)] \in Busy /\ s[Len(s)] \in Int /\ Newest(s) = s[Len(s)]
  <2>1. SUFFICES ASSUME s # <<>> PROVE s[Len(s)] \in Busy /\ s[Len(s)] \in Int /\ Newest(s) = s[Len(s)]
    OBVIOUS
  <2>2. Len(s) \in 1..Len(s)
    BY <2>1, RunFacts
  <2>3. QED BY <2>1, <2>2, RunFacts DEF Newest, Last
<1>3. s # <<>> => Gapless(s[Len(s)], s[Len(s)])
  BY <1>2, BusyBlocks DEF Gapless
<1>4. CASE Resumes(v.last, s, through)
  <2>1. v.last \in Busy /\ s # <<>> /\ v.last >= through /\ v.last <= s[Len(s)]
    BY <1>1, <1>2, <1>4 DEF Resumes
  <2> DEFINE w == Among(s, {n \in Busy : n > v.last})
  <2>2. /\ Run(w)
        /\ w # <<>> => Follows(v.last, w[1]) /\ w[Len(w)] = s[Len(s)]
        /\ w = <<>> => Gapless(v.last, s[Len(s)])
    BY <2>1, MissedIs
  <2>3. q = <<Aside>> \o [i \in 1..Len(w) |-> <<BlockFrame(w[i])>>] \o <<Aside>>
    BY <1>4 DEF Greeting
  <2> HIDE DEF w
  <2>4. w # <<>> => v.newest = Null \/ Follows(v.newest, w[1])
    BY <1>1, <2>2
  <2>5. /\ q \in Seq(Seq(Frames))
        /\ \E at \in Positions(q) :
             Threads(at, q, v.newest) /\ at[Len(q) + 1] = IF w = <<>> THEN v.newest ELSE w[Len(w)]
    BY <1>1, <2>2, <2>3, <2>4, ResumedGreeting
  <2>6. PICK at \in Positions(q) :
          Threads(at, q, v.newest) /\ at[Len(q) + 1] = IF w = <<>> THEN v.newest ELSE w[Len(w)]
    BY <2>5
  <2>7. at[Len(q) + 1] # Null => s # <<>> /\ Gapless(at[Len(q) + 1], s[Len(s)])
    BY <1>1, <1>3, <2>1, <2>2, <2>6
  <2>8. QED BY <2>5, <2>6, <2>7
<1>5. CASE ~Resumes(v.last, s, through)
  <2> DEFINE c == <<HelloFrame(s)>>
  <2>1. q = Append(Append(<<>>, Aside), c)
    BY <1>5 DEF Greeting
  <2>2. /\ c \in Seq(Frames) /\ GoodChunk(c) /\ \A p : TakesUp(p, c)
        /\ \A p : EndOf(p, c) = IF s = <<>> THEN Null ELSE s[Len(s)]
    BY HelloChunk
  <2> HIDE DEF c
  <2>3. PICK a \in Positions(<<>>) : Threads(a, <<>>, v.newest)
    BY <1>1, ThreadsNone
  <2>4. <<>> \in Seq(Seq(Frames)) /\ Append(<<>>, Aside) \in Seq(Seq(Frames))
    BY AsideChunk
  <2>5. PICK b \in Positions(Append(<<>>, Aside)) : Threads(b, Append(<<>>, Aside), v.newest)
    BY <2>3, <2>4, AsideChunk, ThreadsAppend
  <2>6. \E at \in Positions(q) :
          Threads(at, q, v.newest) /\ at[Len(q) + 1] = IF s = <<>> THEN Null ELSE s[Len(s)]
    <3>1. \E at \in Positions(Append(Append(<<>>, Aside), c)) :
            /\ Threads(at, Append(Append(<<>>, Aside), c), v.newest)
            /\ at[Len(Append(Append(<<>>, Aside), c)) + 1]
                 = EndOf(b[Len(Append(<<>>, Aside)) + 1], c)
      BY <2>2, <2>4, <2>5, ThreadsAppend
    <3>2. QED BY <2>1, <2>2, <3>1
  <2>7. q \in Seq(Seq(Frames))
    BY <2>1, <2>2, <2>4
  <2>8. QED BY <1>3, <2>6, <2>7
<1>6. QED BY <1>4, <1>5
-----------------------------------------------------------------------------
(* The tailer: what a target query may return, and a cycle that holds it.  *)
LEMMA TargetIs ==
  ASSUME CycleInv
  PROVE  /\ Target \in Int /\ Target <= cursor
         /\ lanes /\ Target >= 0 => Target <= icursor \/ Target <= aged
<1>1. cursor \in Nat /\ icursor \in Int /\ aged \in Int
  BY BoundsAssumption DEF CycleInv
<1> DEFINE above == Higher(lastReleased, -1)
           old == {n \in Busy : above < n /\ n <= aged} \cup {-1}
<1>2. PICK held \in Int : held = HeldThrough(above) /\ (held >= 0 => held <= aged)
  <2>1. old # {} /\ \A x \in old : x \in Int /\ x <= Higher(aged, -1)
    BY <1>1, BusyBlocks DEF Higher
  <2>2. Higher(aged, -1) \in Int
    BY <1>1 DEF Higher
  <2>3. \A x \in old : x >= 0 => x <= aged
    OBVIOUS
  <2>4. HeldThrough(above) = Max(old)
    BY DEF HeldThrough
  <2> HIDE DEF old
  <2>5. Max(old) \in old
    BY <2>1, <2>2, Greatest
  <2>6. QED BY <2>1, <2>3, <2>4, <2>5
<1>3. Target = ReleaseTo(held)
  BY <1>2 DEF Target
<1>4. QED BY <1>1, <1>2, <1>3 DEF ReleaseTo, Higher, Lower

LEMMA ReadingKeeps ==
  ASSUME CycleInv, NEW at \in {"reseed", "publish"}, Reading(at), Target >= 0,
         at = "publish" => lastReleased # Null /\ lastReleased < Target
  PROVE  CycleInv'
<1>1. PICK t \in Int : t = Target
  BY TargetIs
<1>2. t \in 0..cursor /\ (lanes => t <= icursor \/ t <= aged)
  BY <1>1, TargetIs, BoundsAssumption DEF CycleInv
<1>3. /\ tailer' = [at |-> at, to |-> t]
      /\ cursor' = cursor /\ icursor' = icursor /\ aged' = aged /\ lanes' = lanes
      /\ lastReleased' = lastReleased
  BY <1>1 DEF Reading, schemaVars
<1>4. tailer' \in [at : {"idle", "reseed", "publish"}, to : {Null} \cup 0..MaxBlock]
  BY <1>2, <1>3, BoundsAssumption DEF CycleInv
<1>5. tailer'.at = at /\ tailer'.to = t /\ at # "idle"
  BY <1>3
<1>6. QED BY <1>1, <1>2, <1>3, <1>4, <1>5 DEF CycleInv

LEMMA RestKeeps ==
  ASSUME CycleInv, UNCHANGED <<cursor, icursor, aged, lanes>>, tailer' = Idle,
         lastReleased' \in {lastReleased, Null, tailer.to}
  PROVE  CycleInv'
<1>1. tailer' \in [at : {"idle", "reseed", "publish"}, to : {Null} \cup 0..MaxBlock]
      /\ tailer'.at = "idle"
  BY DEF Idle
<1>2. lastReleased' \in {Null} \cup 0..MaxBlock
  BY DEF CycleInv
<1>3. Idle' = Idle
  BY DEF Idle
<1>4. QED BY <1>1, <1>2, <1>3 DEF CycleInv

LEMMA CycleStep ==
  ASSUME CycleInv, [Next]_vars
  PROVE  CycleInv'
<1>1. /\ cursor \in 0..MaxBlock /\ icursor \in -1..MaxBlock /\ aged \in -1..MaxBlock
      /\ lanes \in BOOLEAN
      /\ lastReleased \in {Null} \cup 0..MaxBlock
      /\ tailer \in [at : {"idle", "reseed", "publish"}, to : {Null} \cup 0..MaxBlock]
      /\ tailer.at = "idle" => tailer = Idle
      /\ tailer.at # "idle" => /\ tailer.to \in 0..cursor
                               /\ (lanes => tailer.to <= icursor \/ tailer.to <= aged)
      /\ tailer.at = "publish" => lastReleased # Null /\ lastReleased < tailer.to
  BY DEF CycleInv
<1>2. MaxBlock \in Nat /\ MaxGap \in Nat /\ (lastReleased # Null => lastReleased >= 0 /\ lastReleased \in Int)
  BY <1>1, BoundsAssumption, SizesAssumption DEF Null
<1>3. Idle' = Idle /\ (tailer = Idle => tailer.at = "idle")
  BY DEF Idle
<1>4. CASE Commit
  BY <1>1, <1>2, <1>3, <1>4 DEF Commit, CycleInv
<1>5. CASE Classify
  BY <1>1, <1>2, <1>3, <1>5 DEF Classify, CycleInv
<1>6. CASE Age
  BY <1>1, <1>2, <1>3, <1>6 DEF Age, CycleInv
<1>7. CASE LanesAppear
  BY <1>1, <1>2, <1>3, <1>7 DEF LanesAppear, CycleInv
<1>8. CASE Recreate
  BY <1>1, <1>2, <1>3, <1>8 DEF Recreate, CycleInv
<1>9. CASE Start
  BY <1>9, ReadingKeeps DEF Start
<1>10. CASE StartOver
  <2>1. /\ UNCHANGED <<cursor, icursor, aged, lanes>> /\ tailer' = Idle /\ lastReleased' = Null
    BY <1>10 DEF StartOver, schemaVars
  <2>2. QED BY <2>1, RestKeeps
<1>11. CASE SkipAhead
  <2>1. lastReleased # Null /\ Target - lastReleased > MaxGap /\ Reading("reseed")
    BY <1>11 DEF SkipAhead
  <2>2. Target >= 0
    BY <1>2, <2>1, TargetIs
  <2>3. QED BY <2>1, <2>2, ReadingKeeps
<1>12. CASE Follow
  <2>1. lastReleased # Null /\ Target > lastReleased /\ Reading("publish")
    BY <1>12 DEF Follow
  <2>2. Target >= 0 /\ lastReleased < Target
    BY <1>2, <2>1, TargetIs
  <2>3. QED BY <2>1, <2>2, ReadingKeeps
<1>13. CASE Reseed
  BY <1>13, RestKeeps DEF Reseed, schemaVars
<1>14. CASE Publish
  BY <1>14, RestKeeps DEF Publish, schemaVars
<1>15. CASE FailCycle
  BY <1>15, RestKeeps DEF FailCycle, schemaVars
<1>16. CASE Restart
  BY <1>16, RestKeeps DEF Restart, schemaVars
<1>17. CASE UNCHANGED <<schemaVars, tailer, lastReleased>>
  BY <1>17 DEF CycleInv, schemaVars, Idle
<1>18. CASE View \/ Break \/ UNCHANGED vars
  BY <1>17, <1>18 DEF View, Connect, Receive, EndOfStream, Break, vars
<1>19. QED
  BY <1>4, <1>5, <1>6, <1>7, <1>8, <1>9, <1>10, <1>11, <1>12, <1>13, <1>14, <1>15, <1>16, <1>18
     DEF Next, Cycle
-----------------------------------------------------------------------------
(* What a cycle releases takes up where the last one ended, and ends where *)
(* this one does.                                                          *)
LEMMA RangeEnds ==
  ASSUME NEW a \in Int, NEW b \in Int, InRange(a, b) # <<>>
  PROVE  Gapless(InRange(a, b)[Len(InRange(a, b))], b)
<1> DEFINE w == InRange(a, b)
<1>1. /\ Run(w) /\ \A i \in DOMAIN w : a < w[i] /\ w[i] <= b
      /\ \A k \in Busy : a < k /\ k <= b => \E i \in DOMAIN w : w[i] = k
  BY InRangeIs
<1> HIDE DEF w
<1>2. /\ Len(w) \in Nat /\ DOMAIN w = 1..Len(w) /\ \A i \in 1..Len(w) : w[i] \in Int
      /\ \A i, j \in 1..Len(w) : i <= j => w[i] <= w[j]
  BY <1>1, RunFacts
<1>3. Len(w) \in 1..Len(w)
  <2>1. w # <<>> /\ w \in Seq(Busy)
    BY <1>1, RunFacts DEF w
  <2>2. QED BY <2>1
<1>4. ASSUME NEW k \in Busy, w[Len(w)] < k, k <= b PROVE FALSE
  <2>1. k \in Int /\ a < w[Len(w)] /\ w[Len(w)] \in Int
    BY <1>1, <1>2, <1>3, BusyBlocks
  <2>2. a < k
    BY <1>4, <2>1
  <2>3. PICK i \in 1..Len(w) : w[i] = k
    BY <1>1, <1>2, <1>4, <2>2
  <2>4. w[i] <= w[Len(w)]
    BY <1>2, <1>3, <2>3
  <2>5. QED BY <1>4, <2>1, <2>3, <2>4
<1>5. w[Len(w)] <= b
  BY <1>1, <1>2, <1>3
<1>6. QED BY <1>4, <1>5 DEF Gapless, w

LEMMA NextBlocks ==
  ASSUME NEW r \in Int, NEW to \in Int, r <= to, NEW p \in Int, Gapless(p, r)
  PROVE  /\ InRange(r, to) = <<>> => Gapless(p, to)
         /\ InRange(r, to) # <<>> => Follows(p, InRange(r, to)[1])
<1> DEFINE w == InRange(r, to)
<1>1. /\ Run(w) /\ \A i \in DOMAIN w : r < w[i] /\ w[i] <= to
      /\ \A k \in Busy : r < k /\ k <= to => \E i \in DOMAIN w : w[i] = k
  BY InRangeIs
<1> HIDE DEF w
<1>2. p <= r /\ \A k \in Busy : ~(p < k /\ k <= r) /\ k \in Int
  BY BusyBlocks DEF Gapless
<1>3. ASSUME w = <<>> PROVE Gapless(p, to)
  <2>1. \A k \in Busy : ~(r < k /\ k <= to)
    BY <1>1, <1>3
  <2>2. QED BY <1>2, <2>1 DEF Gapless
<1>4. ASSUME w # <<>> PROVE Follows(p, w[1])
  <2>1. /\ w \in Seq(Busy) /\ DOMAIN w = 1..Len(w) /\ \A i \in 1..Len(w) : w[i] \in Int
        /\ \A i, j \in 1..Len(w) : i <= j => w[i] <= w[j]
    BY <1>1, RunFacts
  <2>2. 1 \in 1..Len(w)
    BY <1>4, <2>1
  <2>3. r < w[1] /\ w[1] <= to /\ w[1] \in Int
    BY <1>1, <2>1, <2>2
  <2>4. ASSUME NEW k \in Busy, p < k, k < w[1] PROVE FALSE
    <3>1. k \in Int /\ r < k /\ k <= to
      BY <1>2, <2>3, <2>4
    <3>2. PICK i \in 1..Len(w) : w[i] = k
      BY <1>1, <2>1, <3>1
    <3>3. w[1] <= w[i]
      BY <2>1, <2>2, <3>2
    <3>4. QED BY <2>3, <2>4, <3>1, <3>2, <3>3
  <2>5. p < w[1]
    BY <1>2, <2>3
  <2>6. QED BY <2>4, <2>5 DEF Follows
<1>5. QED BY <1>3, <1>4 DEF w

(* The stream after a step, from where its last chunk ends.                *)
LEMMA StreamMade ==
  ASSUME conn' \in {"closed", "open", "ended"}, conn' = "closed" => queue' = <<>>,
         queue' \in Seq(Seq(Frames)), Len(queue') <= HighWater,
         NEW b \in Positions(queue'), Threads(b, queue', viewer'.newest),
         conn' = "open" /\ lastReleased' # Null /\ b[Len(queue') + 1] # Null
           => Gapless(b[Len(queue') + 1], lastReleased')
  PROVE  StreamInv'
BY DEF StreamInv, Caught

LEMMA BroadcastKeeps ==
  ASSUME StreamInv, NEW chunk \in Seq(Frames), GoodChunk(chunk), Broadcast(chunk),
         viewer' = viewer,
         \A p \in {Null} \cup Busy : conn = "open" /\ Caught(p) =>
           /\ TakesUp(p, chunk)
           /\ lastReleased' # Null /\ EndOf(p, chunk) # Null => Gapless(EndOf(p, chunk), lastReleased')
  PROVE  StreamInv'
<1>1. /\ conn \in {"closed", "open", "ended"} /\ (conn = "closed" => queue = <<>>)
      /\ queue \in Seq(Seq(Frames)) /\ Len(queue) <= HighWater
  BY DEF StreamInv
<1>2. PICK at \in Positions(queue) :
        Threads(at, queue, viewer.newest) /\ (conn = "open" => Caught(at[Len(queue) + 1]))
  BY DEF StreamInv
<1>3. CASE conn # "open"
  <2>1. conn' = conn /\ queue' = queue
    BY <1>3 DEF Broadcast
  <2>2. at \in Positions(queue') /\ Threads(at, queue', viewer'.newest)
    BY <1>2, <2>1
  <2>3. QED BY <1>1, <1>3, <2>1, <2>2, StreamMade
<1>4. CASE conn = "open" /\ Len(queue) < HighWater
  <2>1. conn' = conn /\ queue' = Append(queue, chunk)
    BY <1>4 DEF Broadcast
  <2>2. PICK q \in Seq(Seq(Frames)) : q = queue
    BY <1>1
  <2>3. PICK m : m = viewer.newest
    OBVIOUS
  <2>4. PICK e \in {Null} \cup Busy : e = at[Len(q) + 1]
    <3>1. Len(q) + 1 \in 1..(Len(q) + 1)
      BY <2>2
    <3>2. at \in [1..(Len(q) + 1) -> {Null} \cup Busy]
      BY <1>2, <2>2 DEF Positions
    <3>3. QED BY <3>1, <3>2
  <2>5. /\ TakesUp(e, chunk)
        /\ lastReleased' # Null /\ EndOf(e, chunk) # Null => Gapless(EndOf(e, chunk), lastReleased')
    BY <1>2, <1>4, <2>2, <2>4
  <2>6. PICK b \in Positions(Append(q, chunk)) :
          Threads(b, Append(q, chunk), m) /\ b[Len(Append(q, chunk)) + 1] = EndOf(e, chunk)
    BY <1>2, <2>2, <2>3, <2>4, <2>5, ThreadsAppend
  <2>7. queue' \in Seq(Seq(Frames)) /\ Len(queue') <= HighWater
    <3>1. queue' \in Seq(Seq(Frames)) /\ Len(queue') = Len(queue) + 1 /\ Len(queue) \in Nat
      BY <1>1, <2>1
    <3>2. QED BY <1>4, <3>1, SizesAssumption
  <2>8. b \in Positions(queue') /\ Threads(b, queue', viewer'.newest) /\ b[Len(queue') + 1] = EndOf(e, chunk)
    BY <2>1, <2>2, <2>3, <2>6
  <2>9. QED BY <1>4, <2>1, <2>5, <2>7, <2>8, StreamMade
<1>5. CASE conn = "open" /\ ~(Len(queue) < HighWater)
  <2>1. conn' = "ended" /\ queue' = queue
    BY <1>5 DEF Broadcast
  <2>2. at \in Positions(queue') /\ Threads(at, queue', viewer'.newest)
    BY <1>2, <2>1
  <2>3. QED BY <1>1, <2>1, <2>2, StreamMade
<1>6. QED BY <1>3, <1>4, <1>5

(* A reseed: the hub holds the latest blocks, and every stream begins anew. *)
LEMMA ReseedKeeps ==
  ASSUME CycleInv, BufferInv, StreamInv, Reseed
  PROVE  BufferInv' /\ StreamInv'
<1>1. tailer.to \in 0..MaxBlock /\ lastReleased' = tailer.to /\ viewer' = viewer
  BY BoundsAssumption DEF CycleInv, Reseed
<1>2. PICK to \in 0..MaxBlock : to = tailer.to
  BY <1>1
<1>3. PICK from \in Int : from = to - Catchup
  BY SizesAssumption
<1>4. PICK msgs : msgs = InRange(from, to)
  OBVIOUS
<1>5. PICK t : t = Trim(msgs, IF msgs = <<>> THEN to ELSE msgs[1])
  OBVIOUS
<1>6. buffer' = t.kept /\ trimmed' = t.through /\ Broadcast(<<HelloFrame(t.kept)>>)
  BY <1>2, <1>3, <1>4, <1>5 DEF Reseed
<1>7. to \in Int /\ to \in -1..MaxBlock
  BY BoundsAssumption
<1>8. Run(msgs) /\ (msgs # <<>> => Gapless(msgs[Len(msgs)], to))
  BY <1>3, <1>4, <1>7, InRangeIs, RangeEnds
<1>9. PICK through \in -1..MaxBlock : through = IF msgs = <<>> THEN to ELSE msgs[1]
  <2>1. msgs # <<>> => msgs[1] \in -1..MaxBlock
    <3>1. msgs # <<>> => 1 \in 1..Len(msgs)
      BY <1>8, RunFacts
    <3>2. QED BY <1>8, <3>1, RunFacts
  <2>2. QED BY <1>7, <2>1
<1>10. Meets(through, msgs)
  BY <1>9, BusyBlocks DEF Meets
<1>11. /\ Run(t.kept) /\ t.through \in -1..MaxBlock /\ Meets(t.through, t.kept)
       /\ t.kept = <<>> <=> msgs = <<>>
       /\ msgs # <<>> => t.kept[Len(t.kept)] = msgs[Len(msgs)]
       /\ msgs = <<>> => t.through = through
  BY <1>5, <1>8, <1>9, <1>10, TrimIs
<1>12. Gapless(IF t.kept = <<>> THEN t.through ELSE t.kept[Len(t.kept)], to)
  <2>1. Gapless(to, to)
    BY <1>7, BusyBlocks DEF Gapless
  <2>2. QED BY <1>8, <1>9, <1>11, <2>1
<1>13. BufferInv'
  BY <1>1, <1>2, <1>6, <1>11, <1>12 DEF BufferInv
<1>14. StreamInv'
  <2> DEFINE c == <<HelloFrame(t.kept)>>
  <2>1. /\ c \in Seq(Frames) /\ GoodChunk(c) /\ \A p : TakesUp(p, c)
        /\ \A p : EndOf(p, c) = IF t.kept = <<>> THEN Null ELSE t.kept[Len(t.kept)]
    BY <1>11, HelloChunk
  <2> HIDE DEF c
  <2>2. \A p : EndOf(p, c) # Null => Gapless(EndOf(p, c), lastReleased')
    BY <1>1, <1>2, <1>12, <2>1
  <2>3. Broadcast(c)
    BY <1>6 DEF c
  <2>4. QED BY <1>1, <2>1, <2>2, <2>3, BroadcastKeeps
<1>15. QED BY <1>13, <1>14

(* The buffer and what is released next are one run.                       *)
LEMMA GrownBuffer ==
  ASSUME NEW s, Run(s), NEW through \in -1..MaxBlock, Meets(through, s),
         NEW r \in Int, NEW to \in Int, r <= to,
         Gapless(IF s = <<>> THEN through ELSE s[Len(s)], r),
         NEW msgs, msgs = InRange(r, to), msgs # <<>>
  PROVE  /\ Run(s \o msgs) /\ s \o msgs # <<>> /\ Meets(through, s \o msgs)
         /\ (s \o msgs)[Len(s \o msgs)] = msgs[Len(msgs)]
<1>1. PICK end \in Int : end = IF s = <<>> THEN through ELSE s[Len(s)]
  <2>1. through \in Int
    OBVIOUS
  <2>2. s # <<>> => Len(s) \in 1..Len(s)
    BY RunFacts
  <2>3. s # <<>> => s[Len(s)] \in Int
    BY <2>2, RunFacts
  <2>4. QED BY <2>1, <2>3
<1>2. Run(msgs)
  BY InRangeIs
<1>3. Follows(IF s = <<>> THEN through ELSE s[Len(s)], msgs[1])
  BY <1>1, NextBlocks
<1>4. CASE s = <<>>
  <2>1. msgs \in Seq(Busy)
    BY <1>2, RunFacts
  <2>2. s \o msgs = msgs
    BY <1>4, <2>1
  <2>3. Meets(through, msgs)
    <3>1. Follows(through, msgs[1])
      BY <1>3, <1>4
    <3>2. msgs[1] \in Int
      BY <1>2, RunFacts
    <3>3. QED BY <3>1, <3>2 DEF Meets, Follows
  <2>4. QED BY <1>2, <2>2, <2>3
<1>5. CASE s # <<>>
  <2>1. /\ Run(s \o msgs) /\ s \o msgs # <<>> /\ (s \o msgs)[1] = s[1]
        /\ (s \o msgs)[Len(s \o msgs)] = msgs[Len(msgs)]
    BY <1>2, <1>3, <1>5, JoinedRun
  <2>2. Meets(through, s \o msgs)
    BY <1>5, <2>1 DEF Meets
  <2>3. QED BY <2>1, <2>2
<1>6. QED BY <1>4, <1>5

(* A cycle's blocks: they join the buffer and follow what streams hold.    *)
LEMMA PublishKeeps ==
  ASSUME CycleInv, BufferInv, StreamInv, Publish
  PROVE  BufferInv' /\ StreamInv'
<1>0. \A n \in Busy : n \in Int
  BY BusyBlocks
<1>1. /\ tailer.to \in 0..MaxBlock /\ lastReleased' = tailer.to /\ viewer' = viewer
      /\ lastReleased \in 0..MaxBlock /\ lastReleased < tailer.to /\ lastReleased # Null
  BY BoundsAssumption DEF CycleInv, Publish
<1>2. PICK to \in 0..MaxBlock : to = tailer.to
  BY <1>1
<1>3. PICK r \in 0..MaxBlock : r = lastReleased
  BY <1>1
<1>4. PICK msgs : msgs = InRange(r, to)
  OBVIOUS
<1>5. r \in Int /\ to \in Int /\ r <= to /\ r # Null /\ to # Null
  BY <1>1, <1>2, <1>3 DEF Null
<1>6. Run(msgs) /\ (msgs # <<>> => Gapless(msgs[Len(msgs)], to))
  BY <1>4, <1>5, InRangeIs, RangeEnds
<1>7. PICK s : s = buffer
  OBVIOUS
<1>8. PICK through \in -1..MaxBlock : through = trimmed
  BY DEF BufferInv
<1>9. Run(s) /\ Meets(through, s) /\ Gapless(IF s = <<>> THEN through ELSE s[Len(s)], r)
  BY <1>1, <1>3, <1>7, <1>8 DEF BufferInv
<1>10. s # <<>> => s[Len(s)] \in Busy /\ s[Len(s)] \in Int
  <2>1. s # <<>> => Len(s) \in 1..Len(s)
    BY <1>9, RunFacts
  <2>2. QED BY <1>9, <2>1, RunFacts
<1>11. PICK end \in Int : end = IF s = <<>> THEN through ELSE s[Len(s)]
  <2>1. through \in Int
    OBVIOUS
  <2>2. QED BY <1>10, <2>1
<1>12. CASE msgs = <<>>
  <2>1. UNCHANGED <<buffer, trimmed, conn, queue>>
    BY <1>2, <1>3, <1>4, <1>12 DEF Publish, hubVars
  <2>2. Gapless(IF s = <<>> THEN through ELSE s[Len(s)], to)
    BY <1>4, <1>5, <1>9, <1>11, <1>12, NextBlocks
  <2>3. BufferInv'
    BY <1>1, <1>2, <1>7, <1>8, <1>9, <2>1, <2>2 DEF BufferInv
  <2>4. PICK at \in Positions(queue) :
          Threads(at, queue, viewer.newest) /\ (conn = "open" => Caught(at[Len(queue) + 1]))
    BY DEF StreamInv
  <2>5. at \in Positions(queue') /\ Threads(at, queue', viewer'.newest)
    BY <1>1, <2>1, <2>4
  <2>6. conn' = "open" /\ at[Len(queue') + 1] # Null => Gapless(at[Len(queue') + 1], to)
    <3>1. PICK p : p = at[Len(queue) + 1]
      OBVIOUS
    <3>2. p \in {Null} \cup Busy
      <4>1. Len(queue) + 1 \in 1..(Len(queue) + 1)
        BY DEF StreamInv
      <4>2. at \in [1..(Len(queue) + 1) -> {Null} \cup Busy]
        BY <2>4 DEF Positions
      <4>3. QED BY <3>1, <4>1, <4>2
    <3>3. conn = "open" /\ p # Null => Gapless(p, r) /\ p \in Int
      <4>1. p # Null => p \in Int
        BY <1>0, <3>2
      <4>2. conn = "open" => Caught(p)
        BY <2>4, <3>1
      <4>3. QED BY <1>1, <1>3, <4>1, <4>2 DEF Caught
    <3>4. conn = "open" /\ p # Null => Gapless(p, to)
      BY <1>4, <1>5, <1>12, <3>3, NextBlocks
    <3>5. QED BY <2>1, <3>1, <3>4
  <2>7. /\ conn' \in {"closed", "open", "ended"} /\ (conn' = "closed" => queue' = <<>>)
        /\ queue' \in Seq(Seq(Frames)) /\ Len(queue') <= HighWater
    BY <2>1 DEF StreamInv
  <2>8. StreamInv'
    BY <1>1, <1>2, <2>5, <2>6, <2>7, StreamMade
  <2>9. QED BY <2>3, <2>8
<1>13. CASE msgs # <<>>
  <2>1. PICK t : t = Trim(s \o msgs, through)
    OBVIOUS
  <2> DEFINE c == [i \in 1..Len(msgs) |-> BlockFrame(msgs[i])]
  <2>2. buffer' = t.kept /\ trimmed' = t.through /\ Broadcast(c)
    BY <1>2, <1>3, <1>4, <1>7, <1>8, <1>13, <2>1 DEF Publish
  <2>3. /\ Run(s \o msgs) /\ s \o msgs # <<>> /\ Meets(through, s \o msgs)
        /\ (s \o msgs)[Len(s \o msgs)] = msgs[Len(msgs)]
    BY <1>4, <1>5, <1>6, <1>9, <1>13, GrownBuffer
  <2>4. /\ Run(t.kept) /\ t.through \in -1..MaxBlock /\ Meets(t.through, t.kept)
        /\ t.kept # <<>> /\ t.kept[Len(t.kept)] = msgs[Len(msgs)]
    <3>1. PICK v : v = s \o msgs
      OBVIOUS
    <3>2. Run(v) /\ v # <<>> /\ Meets(through, v) /\ v[Len(v)] = msgs[Len(msgs)] /\ t = Trim(v, through)
      BY <2>1, <2>3, <3>1
    <3>3. QED BY <3>2, TrimIs
  <2>5. BufferInv'
    BY <1>1, <1>2, <1>6, <1>13, <2>2, <2>4 DEF BufferInv
  <2>6. ASSUME NEW p \in {Null} \cup Busy, Caught(p)
        PROVE  TakesUp(p, c) /\ EndOf(p, c) = msgs[Len(msgs)]
    <3>1. p = Null \/ Follows(p, msgs[1])
      <4>1. p # Null => Gapless(p, r) /\ p \in Int
        <5>1. p # Null => p \in Int
          BY <1>0
        <5>2. QED BY <1>1, <1>3, <2>6, <5>1 DEF Caught
      <4>2. QED BY <1>4, <1>5, <1>13, <4>1, NextBlocks
    <3>2. QED BY <1>6, <1>13, <3>1, BlocksChunk
  <2>7. c \in Seq(Frames) /\ GoodChunk(c)
    <3>1. \A p : p = Null => c \in Seq(Frames) /\ GoodChunk(c)
      BY <1>6, <1>13, BlocksChunk
    <3> HIDE DEF c
    <3>2. QED BY <3>1
  <2> HIDE DEF c
  <2>8. StreamInv'
    BY <1>1, <1>2, <1>6, <1>13, <2>2, <2>6, <2>7, BroadcastKeeps
  <2>9. QED BY <2>5, <2>8
<1>14. QED BY <1>12, <1>13
-----------------------------------------------------------------------------
(* The viewer's steps.                                                     *)
LEMMA ConnectKeeps ==
  ASSUME CycleInv, BufferInv, StreamInv, GoodViewer(viewer), Connect
  PROVE  StreamInv'
<1>1. /\ queue' = Greeting(viewer.last, buffer, trimmed) /\ Len(queue') <= HighWater
      /\ conn' = "open" /\ viewer' = viewer /\ lastReleased' = lastReleased
  BY DEF Connect
<1>2. PICK s : s = buffer
  OBVIOUS
<1>3. PICK through \in -1..MaxBlock : through = trimmed
  BY DEF BufferInv
<1>4. PICK v : v = viewer
  OBVIOUS
<1>5. PICK q : q = Greeting(v.last, s, through)
  OBVIOUS
<1>6. /\ Run(s) /\ Meets(through, s) /\ GoodViewer(v)
      /\ s # <<>> /\ lastReleased # Null => Gapless(s[Len(s)], lastReleased)
  BY <1>2, <1>3, <1>4 DEF BufferInv
<1>7. /\ q \in Seq(Seq(Frames))
      /\ \E at \in Positions(q) :
           /\ Threads(at, q, v.newest)
           /\ at[Len(q) + 1] # Null => s # <<>> /\ Gapless(at[Len(q) + 1], s[Len(s)])
  BY <1>5, <1>6, GreetingIs
<1>8. PICK at \in Positions(q) :
        /\ Threads(at, q, v.newest)
        /\ at[Len(q) + 1] # Null => s # <<>> /\ Gapless(at[Len(q) + 1], s[Len(s)])
  BY <1>7
<1>9. queue' = q
  BY <1>1, <1>2, <1>3, <1>4, <1>5
<1>10. at[Len(q) + 1] # Null /\ lastReleased # Null => Gapless(at[Len(q) + 1], lastReleased)
  <2>1. SUFFICES ASSUME at[Len(q) + 1] # Null, lastReleased # Null
                 PROVE  Gapless(at[Len(q) + 1], lastReleased)
    OBVIOUS
  <2>2. PICK p : p = at[Len(q) + 1]
    OBVIOUS
  <2>3. PICK r \in Int : r = lastReleased
    BY <2>1 DEF CycleInv
  <2>4. PICK l : l = s[Len(s)]
    OBVIOUS
  <2>5. p \in Busy
    <3>1. Len(q) + 1 \in 1..(Len(q) + 1) /\ at \in [1..(Len(q) + 1) -> {Null} \cup Busy]
      BY <1>7 DEF Positions
    <3>2. QED BY <2>1, <2>2, <3>1
  <2>6. s # <<>> /\ Gapless(p, l) /\ Gapless(l, r)
    BY <1>6, <1>8, <2>1, <2>2, <2>3, <2>4
  <2>7. l \in Busy
    <3>1. Len(s) \in 1..Len(s)
      BY <1>6, <2>6, RunFacts
    <3>2. QED BY <1>6, <2>4, <3>1, RunFacts
  <2>8. \A k \in Busy : k \in Int
    BY BusyBlocks
  <2>9. p <= l /\ l <= r /\ p \in Int /\ l \in Int
    BY <2>5, <2>6, <2>7, <2>8 DEF Gapless
  <2>10. Gapless(p, r)
    BY <2>6, <2>8, <2>9 DEF Gapless
  <2>11. QED BY <2>2, <2>3, <2>10
<1>11. conn' \in {"closed", "open", "ended"} /\ conn' # "closed"
  BY <1>1
<1>12. at \in Positions(queue') /\ Threads(at, queue', viewer'.newest)
  BY <1>1, <1>4, <1>8, <1>9
<1>13. conn' = "open" /\ lastReleased' # Null /\ at[Len(queue') + 1] # Null
         => Gapless(at[Len(queue') + 1], lastReleased')
  BY <1>1, <1>9, <1>10
<1>14. QED BY <1>1, <1>7, <1>9, <1>11, <1>12, <1>13, StreamMade

LEMMA ReceiveKeeps ==
  ASSUME StreamInv, GoodViewer(viewer), Receive
  PROVE  StreamInv' /\ GoodViewer(viewer)'
<1>1. /\ queue # <<>> /\ viewer' = AllShown(viewer, Head(queue)) /\ queue' = Tail(queue)
      /\ conn' = conn /\ lastReleased' = lastReleased
  BY DEF Receive
<1>2. /\ conn \in {"closed", "open", "ended"} /\ (conn = "closed" => queue = <<>>)
      /\ queue \in Seq(Seq(Frames)) /\ Len(queue) <= HighWater
  BY DEF StreamInv
<1>3. PICK at \in Positions(queue) :
        Threads(at, queue, viewer.newest) /\ (conn = "open" => Caught(at[Len(queue) + 1]))
  BY DEF StreamInv
<1>4. PICK q \in Seq(Seq(Frames)) : q = queue
  BY <1>2
<1>5. PICK v : v = viewer
  OBVIOUS
<1>6. PICK p : p = v.newest
  OBVIOUS
<1>7. q # <<>> /\ at \in Positions(q) /\ Threads(at, q, p)
  BY <1>1, <1>3, <1>4, <1>5, <1>6
<1>8. PICK c \in Seq(Frames) : c = Head(q) /\ GoodChunk(c) /\ TakesUp(p, c)
  BY <1>7, ThreadsTail
<1>9. PICK b \in Positions(Tail(q)) :
        Threads(b, Tail(q), EndOf(p, c)) /\ b[Len(Tail(q)) + 1] = at[Len(q) + 1]
  BY <1>7, <1>8, ThreadsTail
<1>10. GoodViewer(AllShown(v, c)) /\ AllShown(v, c).newest = EndOf(p, c)
  BY <1>5, <1>6, <1>8, AllShownIs
<1>11. viewer' = AllShown(v, c) /\ queue' = Tail(q)
  BY <1>1, <1>4, <1>5, <1>8
<1>12. GoodViewer(viewer')
  BY <1>10, <1>11
<1>13. b \in Positions(queue') /\ Threads(b, queue', viewer'.newest)
  BY <1>9, <1>10, <1>11
<1>14. conn' = "open" /\ lastReleased' # Null /\ b[Len(queue') + 1] # Null
         => Gapless(b[Len(queue') + 1], lastReleased')
  BY <1>1, <1>3, <1>4, <1>9, <1>11 DEF Caught
<1>15. queue' \in Seq(Seq(Frames)) /\ Len(queue') <= HighWater /\ conn # "closed"
  <2>1. /\ Tail(q) \in Seq(Seq(Frames)) /\ Len(Tail(q)) = Len(q) - 1 /\ Len(q) \in Nat
    BY <1>7, HeadTailProperties
  <2>2. QED BY <1>1, <1>2, <1>4, <1>11, <2>1, SizesAssumption
<1>16. StreamInv'
  BY <1>1, <1>2, <1>13, <1>14, <1>15, StreamMade
<1>17. QED BY <1>12, <1>16

(* A lost connection leaves the viewer with what it was shown.             *)
LEMMA ClosedStream ==
  ASSUME conn' = "closed", queue' = <<>>, viewer'.newest \in {Null} \cup Busy
  PROVE  StreamInv'
<1>1. PICK p \in {Null} \cup Busy : p = viewer'.newest
  OBVIOUS
<1>2. PICK b \in Positions(<<>>) : Threads(b, <<>>, p)
  BY ThreadsNone
<1>3. b \in Positions(queue') /\ Threads(b, queue', viewer'.newest)
  BY <1>1, <1>2
<1>4. <<>> \in Seq(Seq(Frames)) /\ Len(<<>>) <= HighWater
  BY SizesAssumption
<1>5. queue' \in Seq(Seq(Frames)) /\ Len(queue') <= HighWater /\ conn' \in {"closed", "open", "ended"}
      /\ conn' # "open"
  BY <1>4
<1>6. QED BY <1>3, <1>5, StreamMade

LEMMA BreakKeeps ==
  ASSUME StreamInv, GoodViewer(viewer), Break
  PROVE  StreamInv' /\ GoodViewer(viewer)'
<1>1. PICK k \in 0..(IF queue = <<>> THEN 0 ELSE Len(Head(queue))) :
        viewer' = IF k = 0 THEN viewer ELSE AllShown(viewer, SubSeq(Head(queue), 1, k))
  BY DEF Break
<1>2. conn' = "closed" /\ queue' = <<>>
  BY DEF Break
<1>3. GoodViewer(viewer')
  <2>1. CASE k = 0
    BY <1>1, <2>1
  <2>2. CASE k # 0
    <3>1. PICK at \in Positions(queue) : Threads(at, queue, viewer.newest)
      BY DEF StreamInv
    <3>2. PICK q \in Seq(Seq(Frames)) : q = queue
      BY DEF StreamInv
    <3>3. PICK v : v = viewer
      OBVIOUS
    <3>4. PICK p : p = v.newest
      OBVIOUS
    <3>5. q # <<>> /\ at \in Positions(q) /\ Threads(at, q, p) /\ GoodViewer(v)
      BY <1>1, <2>2, <3>1, <3>2, <3>3, <3>4
    <3>6. PICK c \in Seq(Frames) : c = Head(q) /\ GoodChunk(c) /\ TakesUp(p, c)
      BY <3>5, ThreadsTail
    <3>7. k \in 1..Len(c)
      BY <1>1, <2>2, <3>2, <3>5, <3>6
    <3>8. PICK d \in Seq(Frames) : d = SubSeq(c, 1, k) /\ GoodChunk(d) /\ TakesUp(p, d)
      BY <3>6, <3>7, PrefixChunk
    <3>9. GoodViewer(AllShown(v, d))
      BY <3>4, <3>5, <3>8, AllShownIs
    <3>10. viewer' = AllShown(v, d)
      BY <1>1, <2>2, <3>2, <3>3, <3>6, <3>8
    <3>11. QED BY <3>9, <3>10
  <2>3. QED BY <2>1, <2>2
<1>4. viewer'.newest \in {Null} \cup Busy
  BY <1>3 DEF GoodViewer, Viewers
<1>5. QED BY <1>2, <1>3, <1>4, ClosedStream

-----------------------------------------------------------------------------
(* The invariant.                                                          *)
LEMMA TapeStarts == Init => TapeInv
<1>1. SUFFICES ASSUME Init PROVE TapeInv
  OBVIOUS
<1>2. Null \notin Busy /\ 0 \in 0..MaxBlock /\ -1 \in -1..MaxBlock /\ <<>> \in Seq(Busy) /\ <<>> \in Seq(Rowed)
  BY BusyBlocks, BoundsAssumption DEF Null
<1>3. CycleInv
  <2>1. Idle \in [at : {"idle", "reseed", "publish"}, to : {Null} \cup 0..MaxBlock] /\ Idle.at = "idle"
    BY DEF Idle
  <2>2. QED BY <1>1, <1>2, <2>1 DEF Init, CycleInv
<1>4. BufferInv
  BY <1>1, <1>2 DEF Init, BufferInv, Run, Ordered, Meets
<1>5. GoodViewer(NoViewer)
  <2>1. NoViewer \in Viewers
    BY <1>2 DEF NoViewer, Viewers, Rowed
  <2>2. NoViewer.newest = Null /\ NoViewer.kept = 0 /\ NoViewer.tape = <<>> /\ Len(<<>>) = 0
    BY DEF NoViewer
  <2>3. Steady(<<>>, 0 + 1)
    BY DEF Steady
  <2>4. QED BY <2>1, <2>2, <2>3, GoodViewerParts
<1>6. StreamInv
  <2>1. PICK at \in Positions(<<>>) : Threads(at, <<>>, Null) /\ at[Len(<<>>) + 1] = Null
    BY ThreadsNone
  <2>2. <<>> \in Seq(Seq(Frames)) /\ Len(<<>>) <= HighWater /\ NoViewer.newest = Null
    BY SizesAssumption DEF NoViewer
  <2>3. queue = <<>> /\ conn = "closed" /\ viewer.newest = Null
    BY <1>1, <2>2 DEF Init
  <2>4. at \in Positions(queue) /\ Threads(at, queue, viewer.newest) /\ conn # "open"
    BY <2>1, <2>3
  <2>5. QED BY <2>2, <2>3, <2>4 DEF StreamInv
<1>7. QED BY <1>1, <1>3, <1>4, <1>5, <1>6 DEF TapeInv, Init

(* A step that leaves the hub and the stream alone, or forgets what was    *)
(* released.                                                               *)
LEMMA QuietKeeps ==
  ASSUME TapeInv, UNCHANGED <<hubVars, viewerVars>>, lastReleased' \in {lastReleased, Null}
  PROVE  BufferInv' /\ StreamInv' /\ GoodViewer(viewer)'
<1>1. /\ buffer' = buffer /\ trimmed' = trimmed /\ conn' = conn /\ queue' = queue /\ viewer' = viewer
  BY DEF hubVars, viewerVars
<1>2. BufferInv'
  BY <1>1 DEF TapeInv, BufferInv
<1>3. GoodViewer(viewer')
  BY <1>1 DEF TapeInv
<1>4. StreamInv'
  <2>1. PICK at \in Positions(queue) :
          Threads(at, queue, viewer.newest) /\ (conn = "open" => Caught(at[Len(queue) + 1]))
    BY DEF TapeInv, StreamInv
  <2>2. at \in Positions(queue') /\ Threads(at, queue', viewer'.newest)
    BY <1>1, <2>1
  <2>3. conn' = "open" /\ lastReleased' # Null /\ at[Len(queue') + 1] # Null
          => Gapless(at[Len(queue') + 1], lastReleased')
    BY <1>1, <2>1 DEF Caught
  <2>4. /\ conn' \in {"closed", "open", "ended"} /\ (conn' = "closed" => queue' = <<>>)
        /\ queue' \in Seq(Seq(Frames)) /\ Len(queue') <= HighWater
    BY <1>1 DEF TapeInv, StreamInv
  <2>5. QED BY <2>2, <2>3, <2>4, StreamMade
<1>5. QED BY <1>2, <1>3, <1>4

LEMMA RestartKeeps ==
  ASSUME TapeInv, Restart
  PROVE  BufferInv' /\ StreamInv' /\ GoodViewer(viewer)'
<1>1. /\ buffer' = <<>> /\ trimmed' = -1 /\ lastReleased' = Null
      /\ conn' = "closed" /\ queue' = <<>> /\ viewer' = viewer
  BY DEF Restart
<1>2. BufferInv'
  <2>1. Run(<<>>) /\ Meets(-1, <<>>) /\ -1 \in -1..MaxBlock
    BY BoundsAssumption DEF Run, Ordered, Meets
  <2>2. QED BY <1>1, <2>1 DEF BufferInv
<1>3. GoodViewer(viewer')
  BY <1>1 DEF TapeInv
<1>4. viewer'.newest \in {Null} \cup Busy
  BY <1>3 DEF GoodViewer, Viewers
<1>5. QED BY <1>1, <1>2, <1>3, <1>4, ClosedStream

LEMMA TapeStep ==
  ASSUME TapeInv, [Next]_vars
  PROVE  TapeInv'
<1>1. CycleInv /\ BufferInv /\ StreamInv /\ GoodViewer(viewer)
  BY DEF TapeInv
<1>2. CycleInv'
  BY <1>1, CycleStep
<1>3. SUFFICES BufferInv' /\ StreamInv' /\ GoodViewer(viewer)'
  BY <1>2 DEF TapeInv
<1>4. ASSUME viewer' = viewer PROVE GoodViewer(viewer)'
  BY <1>1, <1>4
<1>5. CASE Commit \/ Classify \/ Age \/ LanesAppear \/ Recreate
  BY <1>5, QuietKeeps DEF Commit, Classify, Age, LanesAppear, Recreate
<1>6. CASE Start \/ SkipAhead \/ Follow
  BY <1>6, QuietKeeps DEF Start, SkipAhead, Follow, Reading
<1>7. CASE StartOver
  BY <1>7, QuietKeeps DEF StartOver
<1>8. CASE Reseed
  BY <1>1, <1>4, <1>8, ReseedKeeps DEF Reseed
<1>9. CASE Publish
  BY <1>1, <1>4, <1>9, PublishKeeps DEF Publish
<1>10. CASE FailCycle
  BY <1>10, QuietKeeps DEF FailCycle
<1>11. CASE Restart
  BY <1>11, RestartKeeps
<1>12. ASSUME UNCHANGED <<hubVars, lastReleased>> PROVE BufferInv'
  BY <1>1, <1>12 DEF BufferInv, hubVars
<1>13. CASE Connect
  BY <1>1, <1>4, <1>12, <1>13, ConnectKeeps DEF Connect
<1>14. CASE Receive
  BY <1>1, <1>12, <1>14, ReceiveKeeps DEF Receive
<1>15. CASE EndOfStream
  <2>1. conn' = "closed" /\ queue' = <<>> /\ viewer' = viewer /\ UNCHANGED <<hubVars, lastReleased>>
    BY <1>15 DEF EndOfStream
  <2>2. viewer'.newest \in {Null} \cup Busy
    BY <1>1, <2>1 DEF GoodViewer, Viewers
  <2>3. QED BY <1>4, <1>12, <2>1, <2>2, ClosedStream
<1>16. CASE Break
  BY <1>1, <1>12, <1>16, BreakKeeps DEF Break
<1>17. CASE UNCHANGED vars
  BY <1>17, QuietKeeps DEF vars
<1>18. QED
  BY <1>5, <1>6, <1>7, <1>8, <1>9, <1>10, <1>11, <1>13, <1>14, <1>15, <1>16, <1>17
     DEF Next, Cycle, View

THEOREM TapeInvariant == Spec => []TapeInv
<1>1. Init => TapeInv
  BY TapeStarts
<1>2. TapeInv /\ [Next]_vars => TapeInv'
  BY TapeStep
<1>3. QED BY <1>1, <1>2, PTL DEF Spec

(* Whatever is lost, trimmed, restarted or rewound, a viewer's tape shows   *)
(* the chain's movements one after the other (HomeLive.tsx).               *)
THEOREM NoGapHolds == Spec => []NoGap
<1>1. TapeInv => NoGap
  BY DEF TapeInv, GoodViewer, NoGap
<1>2. QED BY <1>1, TapeInvariant, PTL
(* What a trimmed buffer holds was in it, or was just released.            *)
LEMMA NewBlocks ==
  ASSUME TapeInv, Reseed \/ Publish, NEW n \in ToSet(buffer') \ ToSet(buffer)
  PROVE  n \in Int /\ n <= tailer.to
<1>1. PICK to \in 0..MaxBlock : to = tailer.to
  BY BoundsAssumption DEF TapeInv, CycleInv, Reseed, Publish
<1>2. PICK s : s = buffer
  OBVIOUS
<1>3. PICK through \in -1..MaxBlock : through = trimmed
  BY DEF TapeInv, BufferInv
<1>4. Run(s) /\ Meets(through, s) /\ \A i \in DOMAIN s : s[i] # n
  <2>1. \A i \in DOMAIN s : s[i] \in ToSet(s)
    BY DEF ToSet
  <2>2. QED BY <1>2, <1>3, <2>1 DEF TapeInv, BufferInv
<1>5. PICK i \in DOMAIN buffer' : buffer'[i] = n
  BY DEF ToSet
<1>6. to \in Int
  OBVIOUS
<1>7. CASE Reseed
  <2>1. PICK from \in Int : from = to - Catchup
    BY SizesAssumption
  <2>2. PICK msgs : msgs = InRange(from, to)
    OBVIOUS
  <2>3. PICK t : t = Trim(msgs, IF msgs = <<>> THEN to ELSE msgs[1])
    OBVIOUS
  <2>4. buffer' = t.kept
    BY <1>1, <1>7, <2>1, <2>2, <2>3 DEF Reseed
  <2>5. Run(msgs) /\ \A j \in DOMAIN msgs : msgs[j] <= to
    BY <1>6, <2>1, <2>2, InRangeIs
  <2>6. PICK past \in -1..MaxBlock : past = IF msgs = <<>> THEN to ELSE msgs[1]
    <3>1. msgs # <<>> => 1 \in 1..Len(msgs)
      BY <2>5, RunFacts
    <3>2. msgs # <<>> => msgs[1] \in -1..MaxBlock
      BY <2>5, <3>1, RunFacts
    <3>3. to \in -1..MaxBlock
      BY BoundsAssumption
    <3>4. QED BY <3>2, <3>3
  <2>7. Meets(past, msgs)
    BY <2>6, BusyBlocks DEF Meets
  <2>8. \A j \in DOMAIN t.kept : \E k \in DOMAIN msgs : t.kept[j] = msgs[k]
    BY <2>3, <2>5, <2>6, <2>7, TrimIs
  <2>9. PICK k \in DOMAIN msgs : n = msgs[k]
    BY <1>5, <2>4, <2>8
  <2>10. QED BY <1>1, <2>5, <2>9, RunFacts
<1>8. CASE Publish
  <2>1. PICK r \in 0..MaxBlock : r = lastReleased /\ r < to
    BY <1>1, <1>8 DEF TapeInv, CycleInv, Publish
  <2>2. PICK msgs : msgs = InRange(r, to)
    OBVIOUS
  <2>3. PICK v : v = s \o msgs
    OBVIOUS
  <2>4. buffer' = s \/ (msgs # <<>> /\ buffer' = Trim(v, through).kept)
    BY <1>1, <1>2, <1>3, <1>8, <2>1, <2>2, <2>3 DEF Publish, hubVars
  <2>5. msgs # <<>> /\ buffer' = Trim(v, through).kept
    BY <1>4, <1>5, <2>4
  <2>6. Run(msgs) /\ \A j \in DOMAIN msgs : msgs[j] <= to /\ msgs[j] \in Int
    <3>1. r \in Int
      OBVIOUS
    <3>2. Run(msgs) /\ \A j \in DOMAIN msgs : msgs[j] <= to
      BY <1>6, <2>2, <3>1, InRangeIs
    <3>3. QED BY <3>2, RunFacts
  <2>7. Run(v) /\ Meets(through, v)
    <3>1. r \in Int /\ r <= to /\ r # Null
      BY <2>1 DEF Null
    <3>2. Gapless(IF s = <<>> THEN through ELSE s[Len(s)], r)
      BY <1>2, <1>3, <2>1, <3>1 DEF TapeInv, BufferInv
    <3>3. QED BY <1>4, <1>6, <2>2, <2>3, <2>5, <3>1, <3>2, GrownBuffer
  <2>8. PICK j \in DOMAIN v : n = v[j]
    <3>1. \A j \in DOMAIN Trim(v, through).kept : \E k \in DOMAIN v : Trim(v, through).kept[j] = v[k]
      BY <2>7, TrimIs
    <3>2. QED BY <1>5, <2>5, <3>1
  <2>9. \E k \in DOMAIN msgs : n = msgs[k]
    <3>1. s \in Seq(Busy) /\ msgs \in Seq(Busy) /\ DOMAIN s = 1..Len(s) /\ DOMAIN msgs = 1..Len(msgs)
          /\ Len(s) \in Nat /\ Len(msgs) \in Nat
      BY <1>4, <2>6, RunFacts
    <3>2. /\ Len(v) = Len(s) + Len(msgs) /\ DOMAIN v = 1..Len(v)
          /\ \A l \in 1..(Len(s) + Len(msgs)) : v[l] = IF l <= Len(s) THEN s[l] ELSE msgs[l - Len(s)]
      BY <2>3, <2>7, <3>1, ConcatProperties, RunFacts
    <3>3. ~(j <= Len(s))
      BY <1>4, <2>8, <3>1, <3>2
    <3>4. j - Len(s) \in 1..Len(msgs)
      BY <3>1, <3>2, <3>3
    <3>5. QED BY <2>8, <3>1, <3>2, <3>3, <3>4
  <2>10. QED BY <1>1, <2>6, <2>9
<1>9. QED BY <1>7, <1>8

(* No movement goes out before it has its lane, or the hold (release.ts).  *)
THEOREM HeldForLaneHolds == Spec => HeldForLane
<1> DEFINE Held == \A n \in ToSet(buffer') \ ToSet(buffer) :
                     n <= cursor /\ (lanes => n <= icursor \/ n <= aged)
<1>1. ASSUME TapeInv, [Next]_vars PROVE [Held]_vars
  <2>1. CASE buffer' = buffer
    BY <2>1
  <2>2. CASE buffer' = <<>>
    BY <2>2 DEF ToSet
  <2>3. CASE Reseed \/ Publish
    <3>1. /\ tailer.to \in Int /\ tailer.to <= cursor
          /\ (lanes => tailer.to <= icursor \/ tailer.to <= aged)
          /\ cursor \in Int /\ icursor \in Int /\ aged \in Int
      BY <1>1, <2>3, BoundsAssumption DEF TapeInv, CycleInv, Reseed, Publish
    <3>2. \A n \in ToSet(buffer') \ ToSet(buffer) : n \in Int /\ n <= tailer.to
      BY <1>1, <2>3, NewBlocks
    <3>3. QED BY <3>1, <3>2
  <2>4. buffer' = buffer \/ buffer' = <<>> \/ Reseed \/ Publish
    BY <1>1 DEF Next, Cycle, View, Commit, Classify, Age, LanesAppear, Recreate, Start, StartOver,
                SkipAhead, Follow, Reading, FailCycle, Restart, Connect, Receive, EndOfStream,
                Break, vars, hubVars
  <2>5. QED BY <2>1, <2>2, <2>3, <2>4
<1>2. QED BY <1>1, TapeInvariant, PTL DEF HeldForLane, Spec
(* The counters stay in their bounds.                                      *)
Counted == recreated \in 0..MaxRecreated /\ faults \in 0..MaxFaults

LEMMA CountedStep ==
  ASSUME Counted, [Next]_vars
  PROVE  Counted'
<1>1. recreated \in 0..MaxRecreated /\ faults \in 0..MaxFaults /\ MaxRecreated \in Nat /\ MaxFaults \in Nat
  BY BoundsAssumption DEF Counted
<1>2. CASE Recreate
  BY <1>1, <1>2 DEF Recreate, Counted
<1>3. CASE FailCycle \/ Restart \/ Break
  BY <1>1, <1>3 DEF FailCycle, Restart, Break, Fault, schemaVars, Counted
<1>4. CASE UNCHANGED <<recreated, faults>>
  BY <1>1, <1>4 DEF Counted
<1>5. Recreate \/ FailCycle \/ Restart \/ Break \/ UNCHANGED <<recreated, faults>>
  BY DEF Next, Cycle, View, Commit, Classify, Age, LanesAppear, Start, StartOver, SkipAhead,
         Follow, Reading, Reseed, Publish, Connect, Receive, EndOfStream, vars, schemaVars
<1>6. QED BY <1>2, <1>3, <1>4, <1>5

(* Every variable has the values the code gives it.                        *)
THEOREM TapeTyped == Spec => []TypeOK
<1>1. Init => Counted
  BY BoundsAssumption DEF Init, Counted
<1>2. Counted /\ [Next]_vars => Counted'
  BY CountedStep
<1>3. TapeInv /\ Counted => TypeOK
  <2>1. SUFFICES ASSUME TapeInv, Counted PROVE TypeOK
    OBVIOUS
  <2>2. /\ buffer \in Seq(Busy) /\ trimmed \in -1..MaxBlock /\ viewer \in Viewers
        /\ conn \in {"closed", "open", "ended"} /\ Len(queue) <= HighWater
    BY <2>1 DEF TapeInv, BufferInv, StreamInv, GoodViewer, Run
  <2>3. \A i \in DOMAIN queue : \A j \in DOMAIN queue[i] : queue[i][j] \in Frames
    <3>1. queue \in Seq(Seq(Frames))
      BY <2>1 DEF TapeInv, StreamInv
    <3>2. \A i \in DOMAIN queue : queue[i] \in Seq(Frames)
      BY <3>1
    <3>3. QED BY <3>2
  <2>4. QED BY <2>1, <2>2, <2>3 DEF TapeInv, CycleInv, Counted, TypeOK, Viewers, Frames
<1>4. QED BY <1>1, <1>2, <1>3, TapeInvariant, PTL DEF Spec

=============================================================================
