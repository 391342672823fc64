----------------------------- MODULE Generator -----------------------------
(***************************************************************************)
(* `anionpy.random`: bit generators and the Generators made from them, the  *)
(* calls of a program in any order.  A call runs to its end before the next *)
(* one (methods take the object mutably, under the GIL).                     *)
(***************************************************************************)
EXTENDS BitGen, Sampling

CONSTANTS Objs,       \* numbered as they are created
          None,
          Dtypes,     \* integer dtypes: [width, signed]
          Ranges,     \* <<low, high>> that callers of integers() pass
          Counts,     \* lengths that callers ask for
          Drop, DropHalf,   \* bits dropped to make a float64, a float32 (11 of 64, 8 of 32)
          Populations, Weights, \* what callers choose from
          Urns,       \* <<colors, nsample>>
          MaxCalls    \* bound

ASSUME GeneratorAssumption ==
    /\ Objs \subseteq Nat /\ MaxCalls \in Nat
    /\ Dtypes \subseteq [width : Widths, signed : BOOLEAN]
    /\ Ranges \subseteq Int \X Int
    /\ Counts \subseteq Nat /\ Populations \subseteq 0..2^(Word - 1) - 1
    /\ Drop \in 0..Word /\ DropHalf \in 0..Half
    /\ Weights \subseteq Seq(Nat)
    /\ Urns \subseteq (Seq(Nat) \ {<<>>}) \X Nat

VARIABLES obj,    \* the objects: [kind, s]
          last,   \* history: the last call, what it drew, what it returned
          calls   \* calls so far

vars == <<obj, last, calls>>

Init == /\ obj = [o \in Objs |-> None]
        /\ last = [op |-> "none"]
        /\ calls = 0

Fresh(o) == obj[o] = None /\ \A p \in Objs : p < o => obj[p] # None

Make(o, kind, s) == /\ Fresh(o)
                    /\ obj' = [obj EXCEPT ![o] = [kind |-> kind, s |-> s]]
                    /\ last' = [op |-> "new"]

NewBits(o, seed) == Make(o, "bits", Seeded(seed))
DefaultRng(o, seed) == Make(o, "gen", Seeded(seed))

\* Generator(bits) takes a copy of the bit generator as it is.
NewGenerator(o, b) == /\ obj[b] # None /\ obj[b].kind = "bits"
                      /\ Make(o, "gen", obj[b].s)

(***************************************************************************)
(* Calls that draw: from state s to t, returning out.                       *)
(***************************************************************************)
Call(o, t, op, args, out) ==
    LET s == obj[o].s
    IN  /\ obj' = [obj EXCEPT ![o].s = [t EXCEPT !.bcnt = 0, !.buf = 0, !.val = 0]]
        /\ last' = [op |-> op, args |-> args, out |-> out,
                    drew |-> SubSeq(t.asked, Len(s.asked) + 1, Len(t.asked))]

\* What a method asks for at a time: w bits, or one of off..off + rng in w bits,
\* or one of 0..max.
Raw(w)               == [ask |-> "raw", w |-> w]
Bounded(w, off, rng) == [ask |-> "bounded", w |-> w, off |-> off, rng |-> rng]
Interval(max)        == [ask |-> "interval", max |-> max]

Answer(q, s) == CASE q.ask = "raw"      -> Draw(q.w, s)
                  [] q.ask = "bounded"  -> bounded(q.w, q.off, q.rng, s)
                  [] q.ask = "interval" -> random_interval(q.max, s)

Times(n, q) == [k \in 1..n |-> q]

\* The answers in a row: the values and the state after them.  (A method below names
\* its draws with \E, so that they are computed once.)
Draws(asks, s) ==
    LET d[k \in 0..Len(asks)] ==
          IF k = 0 THEN [s |-> s, out |-> <<>>]
          ELSE LET was == d[k - 1]
                   t == Answer(asks[k], was.s)
               IN  [s |-> t, out |-> Append(was.out, t.val)]
    IN  d[Len(asks)]

\* No loop was given up.
Complete(d) == \A k \in DOMAIN d.out : d.out[k] # NoValue

random_raw(o, n) ==
    \E d \in {Draws(Times(n, Raw(Word)), obj[o].s)} :
        obj[o].kind = "bits" /\ Call(o, d.s, "random", <<>>, d.out)

\* random(n, dtype): the numerators of float64 or float32.
random(o, n) ==
    \/ \E d \in {Draws(Times(n, Raw(Word)), obj[o].s)} :
           Call(o, d.s, "random", <<>>, [k \in 1..n |-> d.out[k] \div 2^Drop])
    \/ \E d \in {Draws(Times(n, Raw(Half)), obj[o].s)} :
           Call(o, d.s, "random", <<>>, [k \in 1..n |-> d.out[k] \div 2^DropHalf])

Bounds(dt) == IF dt.signed THEN <<-(2^(dt.width - 1)), 2^(dt.width - 1) - 1>>
              ELSE <<0, 2^dt.width - 1>>
AsDtype(dt, v) == IF dt.signed /\ v >= 2^(dt.width - 1) THEN v - 2^dt.width ELSE v

\* integers(low, high, n, dtype): bounds out of the dtype or empty are refused and
\* nothing is drawn; nothing is checked or drawn for n = 0.
integers(o, dt, low, high, n) ==
    /\ n > 0 => low >= Bounds(dt)[1] /\ high - 1 <= Bounds(dt)[2] /\ low < high
    /\ \E d \in {Draws(Times(n, Bounded(dt.width, low % 2^dt.width, high - 1 - low)), obj[o].s)} :
           /\ Complete(d)
           /\ Call(o, d.s, "integers",
                   [width |-> dt.width, low |-> low, high |-> high - 1, n |-> n],
                   [k \in 1..n |-> AsDtype(dt, d.out[k])])

\* Mutation of Bytes: the last byte of a word first.
BytesBig(w, k) == (w \div 2^((3 - (k % 4)) * (Half \div 4))) % 2^(Half \div 4)

\* Byte k of a 32-bit draw, little end first.
Bytes(w, k) == (w \div 2^((k % 4) * (Half \div 4))) % 2^(Half \div 4)

bytes(o, n) ==
    \E d \in {Draws(Times((n + 3) \div 4, Bounded(Half, 0, 2^Half - 1)), obj[o].s)} :
        Call(o, d.s, "integers",
             [width |-> Half \div 4, low |-> 0, high |-> 2^(Half \div 4) - 1, n |-> n],
             [k \in 1..n |-> Bytes(d.out[((k - 1) \div 4) + 1], k - 1)])

\* shuffle, permutation, permuted: of a sequence of n, one row after another.
shuffle(o, n, rows) ==
    LET limits == SwapLimits(n, 1)
        m == Len(limits)
        asks == [k \in 1..rows * m |-> Interval(limits[((k - 1) % m) + 1])]
    IN  \E d \in {Draws(asks, obj[o].s)} :
            /\ Complete(d)
            /\ Call(o, d.s, "shuffle", [n |-> n],
                    [r \in 1..rows |->
                        Shuffled([i \in 1..n |-> i], SubSeq(d.out, ((r - 1) * m) + 1, r * m))])

choice(o, pop, size) ==
    \/ \E d \in {Draws(Times(size, Bounded(Word, 0, pop - 1)), obj[o].s)} :
           /\ size > 0 => pop > 0
           /\ Complete(d)
           /\ Call(o, d.s, "integers",
                   [width |-> Word, low |-> 0, high |-> pop - 1, n |-> size], d.out)
    \/ \E shuffled \in BOOLEAN : \E limits \in {ChoiceLimits(pop, size, shuffled)} :
          \E d \in {Draws([k \in DOMAIN limits |-> Bounded(Word, 0, limits[k])], obj[o].s)} :
              /\ size <= pop
              /\ Complete(d)
              /\ Call(o, d.s, "choice", [pop |-> pop, size |-> size, shuffle |-> shuffled],
                      Choice(pop, size, shuffled, d.out))

\* The indices found in `Tries` rounds, fewer if enough are found before.
Unit == 2^(Word - Drop)
Uniforms(out) == [k \in DOMAIN out |-> out[k] \div 2^Drop]
Rounds(p, size, s) ==
    LET r[k \in 0..Tries] ==
          IF k = 0 THEN [s |-> s, found |-> <<>>]
          ELSE LET was == r[k - 1]
                   d == Draws(Times(size - Len(was.found), Raw(Word)), was.s)
               IN  [s |-> d.s, found |-> Round(p, was.found, Uniforms(d.out), Unit)]
    IN  r[Tries]

\* choice with weights.  Without replacement: rounds until enough distinct indices are
\* found (at most `Tries` of them are followed).
weighted_choice(o, p, size) ==
    \/ \E d \in {Draws(Times(size, Raw(Word)), obj[o].s)} :
           Call(o, d.s, "random", <<>>, [k \in 1..size |-> Weighted(p, Uniforms(d.out)[k], Unit)])
    \/ \E r \in {Rounds(p, size, obj[o].s)} :
           /\ Cardinality({i \in DOMAIN p : p[i] > 0}) >= size
           /\ Len(r.found) = size
           /\ Call(o, r.s, "weighted", [p |-> p, size |-> size], r.found)

(***************************************************************************)
(* multivariate_hypergeometric                                              *)
(***************************************************************************)
\* `hypergeometric`: the draws go on while balls of both kinds and draws are left.
hypergeometric(good, bad, sample, s) ==
    LET d[k \in 0..good + bad] ==
          IF k = 0 THEN [s |-> s, urn |-> UrnStart(good, bad, sample)]
          ELSE LET was == d[k - 1]
               IN  IF was.s.val = NoValue \/ ~UrnGoesOn(was.urn) THEN was
                   ELSE LET t == random_interval(was.urn.left - 1, was.s)
                        IN  [s |-> t, urn |-> UrnDraw(was.urn, t.val)]
        end == d[good + bad]
    IN  IF end.s.val = NoValue THEN end.s
        ELSE [end.s EXCEPT !.val = UrnEnd(end.urn, good, bad, sample)]

\* The sum of c from an element on.
SumOf(c, from) ==
    LET t[k \in 0..Len(c)] == IF k = 0 THEN 0 ELSE c[Len(c) - k + 1] + t[k - 1]
    IN  t[Len(c) - from + 1]

\* Mutation of Drawn: the rest of the last color is lost.
DrawnRest(c, taken, rest) == taken \o [k \in 1..Len(c) - Len(taken) |-> 0]

\* What is left to draw when the loop ends is of the last color.
Drawn(c, taken, rest) ==
    taken \o [k \in 1..Len(c) - Len(taken) |->
                IF Len(taken) + k = Len(c) THEN rest ELSE 0]

\* The loop over the colors: each takes its part of what is to draw from it and the rest.
Marginals(c, todo, s) ==
    LET d[j \in 0..Len(c) - 1] ==
          IF j = 0 THEN [s |-> s, taken |-> <<>>, todo |-> todo]
          ELSE LET was == d[j - 1]
               IN  IF was.todo <= 0 \/ was.s.val = NoValue THEN was
                   ELSE LET t == hypergeometric(c[j], SumOf(c, j + 1), was.todo, was.s)
                        IN  [s |-> t, taken |-> Append(was.taken, t.val),
                             todo |-> was.todo - t.val]
    IN  d[Len(c) - 1]

marginals(o, c, nsample) ==
    LET total == SumOf(c, 1)
        complement == nsample > total \div 2
        todo == IF complement THEN total - nsample ELSE nsample
    IN  /\ todo < Hrua /\ nsample <= total
        /\ IF total = 0 \/ nsample = 0
           THEN Call(o, obj[o].s, "urn", [colors |-> c, n |-> nsample], [k \in DOMAIN c |-> 0])
           ELSE \E d \in {Marginals(c, todo, obj[o].s)} :
                    LET drawn == Drawn(c, d.taken, Max({d.todo, 0}))
                    IN  /\ d.s.val # NoValue
                        /\ Call(o, d.s, "urn", [colors |-> c, n |-> nsample],
                                IF complement THEN [k \in DOMAIN c |-> c[k] - drawn[k]]
                                ELSE drawn)

Generate(o) ==
    \/ \E n \in Counts : random(o, n) \/ bytes(o, n)
    \/ \E n \in Counts, dt \in Dtypes, r \in Ranges : integers(o, dt, r[1], r[2], n)
    \/ \E n \in Counts, rows \in 1..2 : shuffle(o, n, rows)
    \/ \E pop \in Populations, size \in Counts : choice(o, pop, size)
    \/ \E p \in Weights, size \in Counts : weighted_choice(o, p, size)
    \/ \E u \in Urns : marginals(o, u[1], u[2])

Next ==
    /\ calls < MaxCalls /\ calls' = calls + 1
    /\ \/ \E o \in Objs, seed \in Seeds : NewBits(o, seed) \/ DefaultRng(o, seed)
       \/ \E o, b \in Objs : NewGenerator(o, b)
       \/ \E o \in Objs, n \in Counts : obj[o] # None /\ random_raw(o, n)
       \/ \E o \in Objs : obj[o] # None /\ obj[o].kind = "gen" /\ Generate(o)

Spec == Init /\ [][Next]_vars

(***************************************************************************)
(* Properties                                                               *)
(***************************************************************************)
\* Of the first i draws: how many were of whole words and of halves, and how many
\* words that takes.
Wide(a, i) == Cardinality({k \in 1..i : a[k].width = Word})
Halves(a, i) == i - Wide(a, i)
Spent(a, i) == Wide(a, i) + ((Halves(a, i) + 1) \div 2)
At(seed, n) == Stream[seed][(n - 1) % Period]

\* The i-th draw is a word of its own, or the low half of one, or the high half of the
\* word of the half drawn before.
FollowsStream(a, seed, i) ==
    \/ /\ a[i].width = Word
       /\ a[i].val = At(seed, Spent(a, i))
    \/ /\ a[i].width = Half /\ Halves(a, i) % 2 = 1
       /\ a[i].val = At(seed, Spent(a, i)) % 2^Half
    \/ /\ a[i].width = Half /\ Halves(a, i) % 2 = 0
       /\ \E j \in 1..i : /\ a[j].width = Half /\ Halves(a, j) = Halves(a, i) - 1
                          /\ a[i].val = At(seed, Spent(a, j)) \div 2^Half

\* What an object has answered is settled by its seed and by the widths asked, also
\* if it is a copy: whole words for 64-bit draws, and for 32-bit draws the two halves
\* of words of their own, the low one first, wherever 64-bit draws come between.
ReplaysStream ==
    \A o \in Objs : obj[o] # None =>
      \A i \in DOMAIN obj[o].s.asked : FollowsStream(obj[o].s.asked, obj[o].s.seed, i)

\* The draws of a call cut into pieces of w bits, low bits first.
Pieces(drew, w) ==
    LET n == IF drew = <<>> \/ w >= Half THEN 1 ELSE Half \div w
    IN  [k \in 1..n * Len(drew) |->
           (drew[((k - 1) \div n) + 1].val \div 2^(((k - 1) % n) * w)) % 2^w]

\* The elements of s that are in T, in their order (SelectSeq, as the proofs need it).
KeptOf(s, T) ==
    LET t[k \in 0..Len(s)] == IF k = 0 THEN <<>>
                              ELSE IF s[k] \in T THEN Append(t[k - 1], s[k]) ELSE t[k - 1]
    IN  t[Len(s)]

\* integers, bytes and choice with replacement return, from the low end, the pieces of
\* the words they drew, without those that the range leaves over, and draw no word
\* more than that takes.
IntegersFollowStream ==
    last.op = "integers" =>
      LET a == last.args
          rng == a.high - a.low
          w == IF a.width = Word /\ rng < 2^Half THEN Half ELSE a.width
          Full == rng = 2^w - 1
          Usable == {x \in 0..2^w - 1 : Full \/ (x * (rng + 1)) % 2^w >= 2^w % (rng + 1)}
          kept == KeptOf(Pieces(last.drew, w), Usable)
          short == KeptOf(Pieces(Front(last.drew), w), Usable)
      IN  /\ Len(last.out) = a.n /\ \A k \in 1..a.n : last.out[k] \in a.low..a.high
          /\ IF rng = 0 \/ a.n = 0 THEN last.drew = <<>>
             ELSE /\ \A k \in 1..a.n :
                        last.out[k] = a.low + IF Full THEN kept[k]
                                              ELSE (kept[k] * (rng + 1)) \div 2^w
                  /\ Len(short) < a.n

\* Of the words of w bits each value of the range gets the same number.
Uniform ==
    last.op = "integers" =>
      LET rng == last.args.high - last.args.low
          w == IF last.args.width = Word THEN Half ELSE last.args.width
      IN  rng \in 1..2^w - 2 =>
            \A v \in 0..rng :
               Cardinality({x \in 0..2^w - 1 : ~RejectedByLemire(w, rng, x)
                                               /\ Scaled(w, rng, x) = v})
                  = 2^w \div (rng + 1)

\* All the ways to make the draws of a shuffle or a choice; how often each result comes.
Ways(limits) == {f \in [DOMAIN limits -> 0..Max({limits[k] : k \in DOMAIN limits} \cup {0})] :
                   \A k \in DOMAIN limits : f[k] <= limits[k]}
Even(results, Outcome(_), n) ==
    LET of == [r \in results |-> Outcome(r)]
        outcomes == {of[r] : r \in results}
    IN  /\ Cardinality(outcomes) = n
        /\ \A x \in outcomes :
              Cardinality({r \in results : of[r] = x}) * n = Cardinality(results)
Factorial[n \in Nat] == IF n = 0 THEN 1 ELSE n * Factorial[n - 1]
EvenShuffle == [n \in Counts |->
    Even(Ways(SwapLimits(n, 1)), LAMBDA r : Shuffled([i \in 1..n |-> i], r), Factorial[n])]
EvenChoice == [c \in Populations \X Counts \X BOOLEAN |->
    LET pop == c[1]
        size == c[2]
    IN  size <= pop =>
          IF c[3]
          THEN Even(Ways(ChoiceLimits(pop, size, TRUE)),
                    LAMBDA r : Choice(pop, size, TRUE, r),
                    Factorial[pop] \div Factorial[pop - size])
          ELSE Even(Ways(ChoiceLimits(pop, size, FALSE)),
                    LAMBDA r : Range(Choice(pop, size, FALSE, r)),
                    Factorial[pop] \div (Factorial[size] * Factorial[pop - size]))]

\* A shuffle returns a permutation and every permutation is as likely; a choice without
\* replacement returns distinct indices and every sample is as likely.
SamplesAreFair ==
    /\ last.op = "shuffle" =>
         /\ EvenShuffle[last.args.n]
         /\ \A r \in DOMAIN last.out : Range(last.out[r]) = 1..last.args.n
    /\ last.op = "choice" =>
         /\ EvenChoice[<<last.args.pop, last.args.size, last.args.shuffle>>]
         /\ Len(last.out) = last.args.size
         /\ Cardinality(Range(last.out)) = last.args.size
         /\ Range(last.out) \subseteq 0..last.args.pop - 1

\* A weighted choice without replacement returns distinct indices of positive weight.
WeightedAreDistinct ==
    last.op = "weighted" =>
      /\ Len(last.out) = last.args.size
      /\ Cardinality(Range(last.out)) = last.args.size
      /\ \A k \in DOMAIN last.out : last.args.p[last.out[k] + 1] > 0

\* The colors drawn from an urn add up to the sample, and there are as many of each.
UrnsAddUp ==
    last.op = "urn" =>
      /\ SumOf(last.out, 1) = last.args.n
      /\ \A k \in DOMAIN last.out : last.out[k] \in 0..last.args.colors[k]
=============================================================================
