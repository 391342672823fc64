--------------------------- MODULE MCMaskedArray ---------------------------
(* A small instance of MaskedArray for TLC: two numbers and nan (9). *)
EXTENDS MaskedArray

MCValue == {0, 1, 9}
MCFinite == {0, 1}
Num(n) == IF n \in MCFinite THEN n ELSE 9
F1(Op(_)) == [x \in MCValue |-> IF x = 9 THEN 9 ELSE Num(Op(x))]
F2(Op(_, _)) == [x \in MCValue |-> [y \in MCValue |-> IF 9 \in {x, y} THEN 9 ELSE Num(Op(x, y))]]

MCUnaryFns == {F1(LAMBDA x : 1 - x)}
MCBinaryFns == {F2(LAMBDA x, y : (x + y) % 2)}
MCDomainedUnaryFns == {[fn |-> F1(LAMBDA x : 1 - x), dom |-> [x \in MCValue |-> x = 0]]}
MCDomainedBinaryFns == {[fn |-> F2(LAMBDA x, y : x + y),
                         dom |-> [x \in MCValue |-> [y \in MCValue |-> <<x, y>> = <<1, 0>>]]]}
\* x % y of integers: 0 for a zero divisor, where the domain ends.
MCRem == [fn |-> F2(LAMBDA x, y : 0),
          dom |-> [x \in MCValue |-> [y \in MCValue |-> x # 9 /\ y = 0]]]
MCPreds == {[x \in MCValue |-> x = 1]}
MCEq == [x \in MCValue |-> [y \in MCValue |-> x = y /\ x # 9]]
MCPlus == F2(LAMBDA x, y : (x + y) % 2)
MCReductions == {[fn |-> MCPlus, id |-> 0],
                 [fn |-> [x \in MCValue |-> [y \in MCValue |->
                            IF 9 \in {x, y} THEN 9 ELSE x * y]], id |-> 1]}
MCNewData == {<<0, 1>>, <<1, 9>>, <<1>>, <<>>}
MCNewMasks == {<<TRUE, FALSE>>, <<FALSE, FALSE>>, <<TRUE>>, <<>>}
=============================================================================
