------------------------------ MODULE Sampling ------------------------------
(***************************************************************************)
(* Permutations, choices and urns of `anionpy.random`, as functions of the  *)
(* bounded draws they make.  Positions and indices count from 0.            *)
(***************************************************************************)
EXTENDS Integers, Sequences, FiniteSets, FiniteSetsExt, SequencesExt

CONSTANTS Large,        \* populations above it may be sampled by a tail shuffle (10000)
          Cutoff, CutoffPlain,  \* ... if the sample is larger than this part of it (50, 20)
          Hrua          \* samples from it on are drawn by another method (10)

ASSUME SamplingAssumption == {Large, Cutoff, CutoffPlain, Hrua} \subseteq Nat \ {0}

Swap(s, i, j) == [s EXCEPT ![i + 1] = s[j + 1], ![j + 1] = s[i + 1]]

\* Mutation of SwapLimits: any position may be drawn at every step.
SwapLimitsWhole(n, first) == [k \in 1..Max({n - first, 0}) |-> n - 1]

\* Fisher-Yates, from the last position down to `first`: the largest value of each
\* draw, and the sequence after the draws.
SwapLimits(n, first) == [k \in 1..Max({n - first, 0}) |-> n - k]
Shuffled(s, draws) ==
    LET t[k \in 0..Len(draws)] ==
          IF k = 0 THEN s ELSE LET u == t[k - 1] IN Swap(u, Len(s) - k, draws[k])
    IN  t[Len(draws)]

(***************************************************************************)
(* choice without replacement                                               *)
(***************************************************************************)
TailShuffled(pop, size, shuffle) ==
    pop > Large /\ size > pop \div (IF shuffle THEN Cutoff ELSE CutoffPlain)

\* The hash set of the indices taken: the smallest power of two above 1.2 * size.
SetSize(size) == 2^Min({k \in 0..size + 1 : 2^k > (12 * size) \div 10})

\* Linear probing from the slot of x: the first slot that is free or satisfies Stop.
Probe(set, x, Stop(_)) ==
    LET n == Len(set)
        open == {d \in 0..n - 1 : LET y == set[((x + d) % n) + 1] IN y = -1 \/ Stop(y)}
    IN  ((x + Min(open)) % n) + 1

\* The slot for an index that was not taken.
Insert(set, x) == Probe(set, x, LAMBDA y : FALSE)

\* Floyd: step j takes the value drawn, or j itself if that was taken before.
FloydLimits(pop, size) == [k \in 1..size |-> pop - size + k - 1]
Floyd(pop, size, draws) ==
    LET step[k \in 0..size] ==
          IF k = 0 THEN [set |-> [i \in 1..SetSize(size) |-> -1], out |-> <<>>]
          ELSE LET t == step[k - 1]
                   x == draws[k]
                   j == pop - size + k - 1
                   loc == Probe(t.set, x, LAMBDA y : y = x)
               IN  IF t.set[loc] = -1
                   THEN [set |-> [t.set EXCEPT ![loc] = x], out |-> Append(t.out, x)]
                   ELSE [set |-> [t.set EXCEPT ![Insert(t.set, j)] = j],
                         out |-> Append(t.out, j)]
    IN  step[size].out

\* `choice_no_replace_no_p`: the largest value of each draw, and the indices taken.
ChoiceLimits(pop, size, shuffle) ==
    CASE size = 0 -> <<>>
      [] size > 0 /\ TailShuffled(pop, size, shuffle) -> SwapLimits(pop, Max({pop - size, 1}))
      [] OTHER -> FloydLimits(pop, size) \o (IF shuffle THEN SwapLimits(size, 1) ELSE <<>>)
Choice(pop, size, shuffle, draws) ==
    IF size > 0 /\ TailShuffled(pop, size, shuffle)
    THEN SubSeq(Shuffled([i \in 1..pop |-> i - 1], draws), pop - size + 1, pop)
    ELSE Shuffled(Floyd(pop, size, draws), SubSeq(draws, size + 1, Len(draws)))

\* The cumulative sum of p, from 0 on, and the number of its entries that a uniform u in
\* 0..unit - 1 of the whole has reached: the index drawn with weights p.
Sums(p) ==
    LET t[k \in 0..Len(p)] == IF k = 0 THEN 0 ELSE t[k - 1] + p[k]
    IN  t
Weighted(p, u, unit) ==
    LET t == Sums(p)
    IN  Cardinality({i \in DOMAIN p : t[i] * unit <= u * t[Len(p)]})

\* Mutation of Reweighted: the weights of what was found stay.
ReweightedNot(p, found) == p

Reweighted(p, found) ==
    [i \in DOMAIN p |-> IF \E k \in DOMAIN found : found[k] = i - 1 THEN 0 ELSE p[i]]

\* One round of `choice_no_replace_with_p`: the weights of what was found are zeroed,
\* of the new indices the first of each is kept.
Round(p, found, us, unit) ==
    LET new == [k \in DOMAIN us |-> Weighted(Reweighted(p, found), us[k], unit)]
        firsts == {k \in DOMAIN new : \A m \in 1..k - 1 : new[m] # new[k]}
    IN  found \o [n \in 1..Cardinality(firsts) |->
                    new[CHOOSE k \in firsts : Cardinality({m \in firsts : m <= k}) = n]]

(***************************************************************************)
(* Urns                                                                     *)
(***************************************************************************)
\* `hypergeometric_sample` after some draws: each takes one of the balls that are left.
UrnStart(good, bad, sample) ==
    [left |-> good + bad, good |-> good,
     todo |-> IF sample > (good + bad) \div 2 THEN good + bad - sample ELSE sample]
UrnGoesOn(u) == u.todo > 0 /\ u.good > 0 /\ u.left > u.good
UrnDraw(u, x) == [left |-> u.left - 1, todo |-> u.todo - 1,
                  good |-> IF x < u.good THEN u.good - 1 ELSE u.good]
UrnEnd(u, good, bad, sample) ==
    LET rest == IF u.left = u.good THEN u.good - u.todo ELSE u.good
    IN  IF sample > (good + bad) \div 2 THEN rest ELSE good - rest
=============================================================================
