---------------------------- MODULE MCGenerator ----------------------------
EXTENDS Generator

\* Words of 16 bits with halves, quarters and bytes of all kinds: leading zeros, ones,
\* alternating bits.
MCStream == [seed \in {1, 2} |->
    IF seed = 1
    THEN [i \in 0..4 |-> <<45226, 255, 3341, 58624, 27030>>[i + 1]]
    ELSE [i \in 0..4 |-> <<198, 61680, 21845, 65535, 4660>>[i + 1]]]
MCDtypes == {[width |-> 16, signed |-> FALSE], [width |-> 8, signed |-> TRUE],
             [width |-> 4, signed |-> FALSE], [width |-> 4, signed |-> TRUE],
             [width |-> 2, signed |-> FALSE], [width |-> 1, signed |-> FALSE]}
MCRanges == {<<0, 1>>, <<0, 2>>, <<-2, 3>>, <<0, 3>>, <<0, 4>>, <<-8, 8>>, <<0, 16>>,
             <<5, 16>>, <<0, 256>>, <<0, 300>>, <<0, 65536>>}
MCPopulations == {4, 5}
MCWeights == {<<1, 2>>, <<0, 3, 1>>, <<2, 1, 1>>}
MCUrns == {<<<<2, 1>>, 1>>, <<<<2, 1>>, 2>>, <<<<1, 0, 2>>, 2>>, <<<<2, 2, 1>>, 3>>,
           <<<<0, 0>>, 0>>, <<<<1, 1, 1>>, 1>>}
=============================================================================
