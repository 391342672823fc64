------------------------------- MODULE BitGen -------------------------------
(***************************************************************************)
(* The bit generators of `anionpy.random` and the integers drawn from them. *)
(* A generator steps through a stream of words fixed by its seed.  A 64-bit *)
(* draw takes a word; a 32-bit draw takes the low half of a word and keeps  *)
(* the high half for the next one; narrower draws cut a 32-bit draw into    *)
(* pieces that live as long as one call of `integers`.                      *)
(*                                                                          *)
(* Widths are scaled: `Half` bits stand for 32.  How a generator computes a *)
(* word from its state is the constant `Stream`.                            *)
(***************************************************************************)
EXTENDS Integers, Sequences, FiniteSets, FiniteSetsExt

CONSTANTS Half,       \* bits of a half word
          Seeds, Period,
          Stream,     \* the words of each seed
          Tries       \* bound: draws that one rejection loop makes

ASSUME BitGenAssumption ==
    /\ Half \in Nat /\ Half % 4 = 0 /\ Half > 0
    /\ Period \in Nat \ {0} /\ Tries \in Nat \ {0}
    /\ Stream \in [Seeds -> [0..Period - 1 -> 0..2^(2 * Half) - 1]]

Word == 2 * Half

\* What the proofs use of the powers of two that a word holds.
ASSUME PowersAssumption == 2^0 = 1 /\ \A k \in 1..Word : 2^k = 2 * 2^(k - 1)

NoValue == -1
Widths == {Word, Half, Half \div 2, Half \div 4, 1}

\* A generator, the sub-word buffer of the call that draws from it, and the value
\* drawn last.  `asked` is a history variable: the draws so far, with their width.
Seeded(seed) == [seed |-> seed, pos |-> 0, has |-> FALSE, half |-> 0,
                 bcnt |-> 0, buf |-> 0, val |-> 0, asked |-> <<>>]

\* Mutation of next_u64: the cached half is dropped.
next_u64Drops(s) ==
    LET w == Stream[s.seed][s.pos]
    IN  [s EXCEPT !.pos = (@ + 1) % Period, !.val = w, !.has = FALSE,
                  !.asked = Append(@, [width |-> Word, val |-> w])]

next_u64(s) ==
    LET w == Stream[s.seed][s.pos]
    IN  [s EXCEPT !.pos = (@ + 1) % Period, !.val = w,
                  !.asked = Append(@, [width |-> Word, val |-> w])]

next_u32(s) ==
    LET w == Stream[s.seed][s.pos]
    IN  IF s.has
        THEN [s EXCEPT !.has = FALSE, !.val = s.half,
                       !.asked = Append(@, [width |-> Half, val |-> s.half])]
        ELSE [s EXCEPT !.pos = (@ + 1) % Period, !.has = TRUE, !.half = w \div 2^Half,
                       !.val = w % 2^Half,
                       !.asked = Append(@, [width |-> Half, val |-> w % 2^Half])]

\* `buffered_u16`, `buffered_u8`, `buffered_bool`: the next w bits of the buffer.
buffered(w, s) ==
    IF s.bcnt = 0
    THEN LET t == next_u32(s)
         IN  [t EXCEPT !.buf = t.val, !.bcnt = (Half \div w) - 1, !.val = @ % 2^w]
    ELSE LET b == s.buf \div 2^w
         IN  [s EXCEPT !.buf = b, !.bcnt = @ - 1, !.val = b % 2^w]

Draw(w, s) == CASE w = Word -> next_u64(s) [] w = Half -> next_u32(s) [] OTHER -> buffered(w, s)

\* The drawn value turned into F of it, unless the draws were given up.
OfVal(t, F(_)) == IF t.val = NoValue THEN t ELSE [t EXCEPT !.val = F(@)]

\* The states after each of the draws that a rejection loop may make.
InARow(w, s) ==
    LET d[k \in 0..Tries] == IF k = 0 THEN s ELSE Draw(w, d[k - 1])
    IN  d

\* The first draw that is not rejected.  A loop that would draw more than `Tries`
\* times is not followed.
FirstKept(w, Rejected(_), s) ==
    LET d == InARow(w, s)
        kept == {k \in 1..Tries : ~Rejected(d[k].val)}
    IN  IF kept = {} THEN [d[Tries] EXCEPT !.val = NoValue] ELSE d[Min(kept)]

\* Mutation of RejectedByLemire: nothing is rejected.
RejectedNever(w, rng, x) == FALSE

\* `lemire_*`: x of w bits is scaled to 0..rng; the low part of the product decides.
RejectedByLemire(w, rng, x) ==
    LET leftover == (x * (rng + 1)) % 2^w
    IN  leftover < rng + 1 /\ leftover < (2^w - 1 - rng) % (rng + 1)
Scaled(w, rng, x) == (x * (rng + 1)) \div 2^w

lemire(w, rng, s) ==
    OfVal(FirstKept(w, LAMBDA x : RejectedByLemire(w, rng, x), s), LAMBDA x : Scaled(w, rng, x))

\* `bounded_u64` ... `bounded_bool`: off..off + rng, in arithmetic of w bits.
bounded(w, off, rng, s) ==
    LET width == IF w = Word /\ rng < 2^Half THEN Half ELSE w
    IN  OfVal(CASE rng = 0 -> [s EXCEPT !.val = 0]
                [] rng = 2^width - 1 -> Draw(width, s)
                [] OTHER -> lemire(width, rng, s), LAMBDA x : (off + x) % 2^w)

\* The smallest 2^k - 1 that is at least max.
gen_mask(max) == 2^Min({k \in 0..Word : 2^k > max}) - 1

\* `random_interval`: masked rejection.
random_interval(max, s) ==
    LET m == gen_mask(max) + 1
    IN  IF max = 0 THEN [s EXCEPT !.val = 0]
        ELSE OfVal(FirstKept(IF max < 2^Half THEN Half ELSE Word, LAMBDA x : x % m > max, s),
                   LAMBDA x : x % m)
=============================================================================
