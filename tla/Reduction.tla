------------------------------- MODULE Reduction -------------------------------
(***************************************************************************)
(* ufunc.rs: the loops behind reduce, accumulate, reduceat, ufunc.at and the  *)
(* elementwise binary operations, and the memory order of what they return.   *)
(* The folded operation is +: when the elements are distinct powers of two a  *)
(* result says which of them were folded.  A kernel is "pairwise" (float      *)
(* add), "ordered" (float multiply) or "plain"; what the code does eight at a *)
(* time is done Width at a time.                                              *)
(***************************************************************************)
EXTENDS Elements

CONSTANTS Width,   \* accumulators of a pairwise sum
          Block    \* elements a pairwise sum takes without halving

ASSUME PairwiseAssumption == /\ Width \in Nat \ {0}
                             /\ Block \in Nat
                             /\ 2 * Width <= Block

(* Pairwise summation of get[1..n].                                           *)
\* Width accumulators, one for each column, and the tail after the last full row.
pairwise_block(s) ==
    LET rows == Len(s) \div Width
        cols == [j \in 1..Width |-> Total([r \in 1..rows |-> s[(r - 1) * Width + j]])]
    IN  Total(cols) + Total(SubSeq(s, rows * Width + 1, Len(s)))

pairwise_sum(s) ==
    LET half(n) == (n \div 2) - ((n \div 2) % Width)
        sum[i \in 1..Len(s) + 1, j \in 0..Len(s)] ==
            LET n == j + 1 - i
            IN  IF n < Width THEN Total(SubSeq(s, i, j))
                ELSE IF n <= Block THEN pairwise_block(SubSeq(s, i, j))
                ELSE sum[i, i + half(n) - 1] + sum[i + half(n), j]
    IN  sum[1, Len(s)]

(* Axes.                                                                      *)
At(a, base, offsets) == [i \in DOMAIN offsets |-> a.buf[base + offsets[i] + 1]]

\* The axes listed, from the largest stride to the smallest.
axes_by_memory_order(a, axes) ==
    LET order == AxesByStride(Permuted(a.strides, axes))
    IN  [i \in DOMAIN axes |-> axes[order[i]]]

\* Runs <<length, stride>> from the fastest axis: an axis that continues a run
\* is merged into it.
coalesce_runs(shape, strides) ==
    LET long == SelectSeq(Reversal(Len(shape)), LAMBDA d : shape[d] > 1)
        runs[i \in 0..Len(long)] ==
            IF i = 0 THEN <<>>
            ELSE LET before == runs[i - 1]
                     len == shape[long[i]]
                     stride == strides[long[i]]
                     run == before[Len(before)]
                 IN  IF before # <<>> /\ stride = run[1] * run[2]
                     THEN [before EXCEPT ![Len(before)] = <<run[1] * len, run[2]>>]
                     ELSE Append(before, <<len, stride>>)
    IN  runs[Len(long)]

\* A pairwise sum along the fastest run for each step of the others.
pairwise_group(a, base, runs) ==
    LET len == runs[1][1]
        stride == runs[1][2]
        row(from) == pairwise_sum(At(a, from, [i \in 1..len |-> (i - 1) * stride]))
        outer == NdIter([i \in 1..Len(runs) - 1 |-> runs[i + 1][1]],
                        [i \in 1..Len(runs) - 1 |-> runs[i + 1][2]])
    IN  IF runs = <<>> THEN a.buf[base + 1]
        ELSE Total([i \in DOMAIN outer |-> row(base + outer[i])])

Kept(a, axes) == Ascending(DOMAIN a.shape \ axes)
Reduced(a, axes) == Ascending(DOMAIN a.shape \cap axes)
Iterated(a, axes) == NdIter(Permuted(a.shape, axes), Permuted(a.strides, axes))

\* The reduced axes that are faster than every other axis, fastest first.
wide_axes(a, axes) ==
    LET long == SelectSeq(Identity(Len(a.shape)), LAMBDA d : a.shape[d] > 1)
        faster(d, e) == \/ Abs(a.strides[d]) < Abs(a.strides[e])
                        \/ Abs(a.strides[d]) = Abs(a.strides[e]) /\ d < e
        byStride == SortSeq(long, faster)
        stop == {i \in DOMAIN byStride : byStride[i] \notin axes}
    IN  IF stop = {} THEN byStride ELSE SubSeq(byStride, 1, Min(stop) - 1)

Narrow(a, axes) ==
    axes_by_memory_order(a, SelectSeq(Reduced(a, axes), LAMBDA d : d \notin ToSet(wide_axes(a, axes))))

\* reduce_axis_pairwise_narrow_wide: for every kept position the narrow axes one
\* after the other, each step a pairwise sum over the wide ones.
reduce_pairwise(a, axes, seed) ==
    LET wide == Reverse(wide_axes(a, axes))
        runs == coalesce_runs(Permuted(a.shape, wide), Permuted(a.strides, wide))
        narrow == Narrow(a, axes)
        group(base) == IF wide = <<>> THEN a.buf[base + 1] ELSE pairwise_group(a, base, runs)
        kept == Iterated(a, Kept(a, axes))
        steps == Iterated(a, narrow)
    IN  [k \in DOMAIN kept |->
           seed + Total([i \in DOMAIN steps |-> group(a.offset + kept[k] + steps[i])])]

\* The other kernels walk the reduced axes as they are numbered or, "ordered",
\* as they lie in memory.
reduce_sequential(a, axes, seed, kernel) ==
    LET walk == IF kernel = "ordered" THEN axes_by_memory_order(a, Reduced(a, axes))
                ELSE Reduced(a, axes)
        kept == Iterated(a, Kept(a, axes))
        steps == Iterated(a, walk)
    IN  [k \in DOMAIN kept |-> seed + Total(At(a, a.offset + kept[k], steps))]

\* The runs of steps between masked elements.
UnmaskedRuns(seen) ==
    LET starts == SelectSeq(Identity(Len(seen)), LAMBDA i : seen[i] /\ (i = 1 \/ ~seen[i - 1]))
        end(i) == Max({j \in i..Len(seen) : \A m \in i..j : seen[m]})
    IN  [r \in DOMAIN starts |-> [i \in 1..end(starts[r]) - starts[r] + 1 |-> starts[r] + i - 1]]

\* reduce_axis_masked: the mask m, broadcast to the array, is walked with it.
reduce_masked(a, axes, seed, kernel, m) ==
    LET wide == IF kernel = "pairwise" THEN Reverse(wide_axes(a, axes)) ELSE <<>>
        narrow == IF kernel = "pairwise" THEN Narrow(a, axes)
                  ELSE axes_by_memory_order(a, Reduced(a, axes))
        kept == Iterated(a, Kept(a, axes))
        steps == Iterated(a, narrow)
        row == Iterated(a, wide)
        keptHidden == Iterated(m, Kept(a, axes))
        stepsHidden == Iterated(m, narrow)
        rowHidden == Iterated(m, wide)
        group(base, mbase) ==
            LET runs == UnmaskedRuns(At(m, mbase, rowHidden))
            IN  Total([r \in DOMAIN runs |-> pairwise_sum(At(a, base, Permuted(row, runs[r])))])
    IN  [k \in DOMAIN kept |->
           seed + Total([i \in DOMAIN steps |->
                           group(a.offset + kept[k] + steps[i], m.offset + keptHidden[k] + stepsHidden[i])])]

(* Results.                                                                   *)
\* Mutation of reduce_output_layout: the strides of the operand decide nothing.
OutputInC(a, axes, keepdims) ==
    LET full == [d \in DOMAIN a.shape |-> IF d \in axes THEN 1 ELSE a.shape[d]]
        shape == IF keepdims THEN full ELSE Permuted(a.shape, Kept(a, axes))
    IN  [shape |-> shape, strides |-> IF Size(shape) = 0 THEN Zeros(shape) ELSE c_strides(shape)]

\* The axes that are left keep the memory order of the operand.
reduce_output_layout(a, axes, keepdims) ==
    LET full == [d \in DOMAIN a.shape |-> IF d \in axes THEN 1 ELSE a.shape[d]]
        strides == DenseStrides(full, AxesByStride(a.strides))
        keep == Kept(a, axes)
        shape == IF keepdims THEN full ELSE Permuted(a.shape, keep)
    IN  [shape |-> shape,
         strides |-> IF Size(shape) = 0 THEN Zeros(shape)
                     ELSE IF keepdims THEN strides ELSE Permuted(strides, keep)]

\* The C-contiguous result laid out like the operand, its reduced axes put back
\* with length one for keepdims.
relayout_for_reduction(natural, a, axes, keepdims) ==
    LET keep == Kept(a, axes)
        order == SlowestFirst(a.strides, DOMAIN a.shape \ axes)
        relaid == relayout_by_perm(natural, [i \in DOMAIN order |->
                                               CHOOSE j \in DOMAIN keep : keep[j] = order[i]])
        out == reduce_output_layout(a, axes, TRUE)
    IN  IF keepdims THEN Fresh(relaid.buf, out.shape, out.strides) ELSE relaid

\* reduce_axis.  `initial` and `identity` are numbers or None, `mask` an array
\* broadcast to the operand or None, `cast` says that the operand is converted.
\* An empty group is refused without a number to start from, and so is a masked
\* one; the result of reducing no elements has room for one number, whatever
\* its shape.
reduce_axis(a, axes, keepdims, kernel, initial, identity, mask, cast) ==
    LET arg == IF cast THEN to_contiguous(a) ELSE a
        seed == IF initial # None THEN initial ELSE identity
        shape == Permuted(a.shape, Kept(a, axes))
        group == Size(Permuted(a.shape, Reduced(a, axes)))
        from == IF seed = None THEN 0 ELSE seed
        vals == IF mask # None THEN reduce_masked(arg, axes, from, kernel, mask)
                ELSE IF group = 0 THEN [i \in 1..Max({Size(shape), 1}) |-> seed]
                ELSE IF kernel = "pairwise" THEN reduce_pairwise(arg, axes, from)
                ELSE reduce_sequential(arg, axes, from, kernel)
    IN  IF seed = None /\ (mask # None \/ group = 0) THEN Raised
        ELSE IF Len(vals) # Size(shape) THEN Raised
        ELSE relayout_for_reduction(from_buffer(vals, shape, "C"), a, axes, keepdims)

\* accumulate_axis: result i along the axis folds the elements up to it, in the
\* memory order of the operand.
accumulate_axis(a, d) ==
    LET walk(p) == a.offset + Total([e \in DOMAIN p |-> IF e = d THEN 0 ELSE p[e] * a.strides[e]])
        acc(p) == Total(At(a, walk(p), [i \in 1..p[d] + 1 |-> (i - 1) * a.strides[d]]))
        natural == from_buffer([k \in 1..Size(a.shape) |-> acc(Position(a.shape, k - 1))], a.shape, "C")
    IN  relayout_by_perm(natural, axis_perm_for_order(a, "K"))

\* reduceat: each index folds up to the next one, or is alone when that is not larger.
reduceat_axis(a, indices, d) ==
    LET n == a.shape[d]
        shape == Put1(a.shape, d, Len(indices))
        next(k) == IF k < Len(indices) THEN indices[k + 1] ELSE n
        base(p) == a.offset + Total([e \in DOMAIN p |-> IF e = d THEN 0 ELSE p[e] * a.strides[e]])
        segment(k) == indices[k]..Max({indices[k], next(k) - 1})
        val(p) == LET s == segment(p[d] + 1)
                  IN  Total(At(a, base(p), [i \in 1..Cardinality(s) |-> (Min(s) + i - 1) * a.strides[d]]))
    IN  IF \E k \in DOMAIN indices : indices[k] \notin 0..n - 1 THEN Raised
        ELSE from_buffer([k \in 1..Size(shape) |-> val(Position(shape, k - 1))], shape, "C")

\* argmax over the axes: the first of the largest, numbered along the reduced axes.
argext(a, axes, keepdims) ==
    LET kept == Iterated(a, Kept(a, axes))
        walk == Iterated(a, Reduced(a, axes))
        best(base) == LET vals == At(a, base, walk)
                      IN  Min({i \in DOMAIN vals : \A j \in DOMAIN vals : vals[j] <= vals[i]}) - 1
    IN  IF walk = <<>> THEN Raised
        ELSE from_buffer([k \in DOMAIN kept |-> best(a.offset + kept[k])],
                         IF keepdims THEN [d \in DOMAIN a.shape |-> IF d \in axes THEN 1 ELSE a.shape[d]]
                         ELSE Permuted(a.shape, Kept(a, axes)), "C")

(* Elementwise operations.                                                    *)
\* ufunc.at: the rows of a at the indices, in order, each written before the next
\* is read; values has a row for each index.
at_binary(a, indices, values) ==
    LET n == a.shape[1]
        rows == [i \in DOMAIN indices |-> resolve_index(indices[i], n, "raise")]
        row == SubSeq(a.shape, 2, Len(a.shape))
        steps == NdIter(row, SubSeq(a.strides, 2, Len(a.shape)))
        new == broadcast_to(values, <<Len(indices)>> \o row)
        add == Gathered(new, new.shape, new.strides)
        after[i \in 0..Len(indices)] ==
            IF i = 0 THEN a.buf
            ELSE LET before == after[i - 1]
                     cells == [j \in DOMAIN steps |-> a.offset + rows[i] * a.strides[1] + steps[j] + 1]
                 IN  Assign(before, cells,
                            [j \in DOMAIN cells |-> before[cells[j]] + add[(i - 1) * Len(steps) + j]])
    IN  IF a.shape = <<>> THEN Raised
        ELSE IF Raised \in ToSet(rows) \/ new = Raised THEN Raised
        ELSE [a EXCEPT !.buf = after[Len(indices)]]

outer_binary(a, b) ==
    LET left == NdIter(a.shape, a.strides)
        right == NdIter(b.shape, b.strides)
    IN  from_buffer(Concat([i \in DOMAIN left |->
                        [j \in DOMAIN right |-> a.buf[a.offset + left[i] + 1] + b.buf[b.offset + right[j] + 1]]]),
                    a.shape \o b.shape, "C")

\* NumPy's insertion sort of the axes by the strides of several operands: an axis
\* moves before another when it is slower in every operand that tells them apart.
multi_sorted_stride_perm(n, operands) ==
    LET pad(a) == n - Len(a.shape)
        tells(a, d, e) == /\ d > pad(a) /\ e > pad(a)
                          /\ a.shape[d - pad(a)] # 1 /\ a.shape[e - pad(a)] # 1
        slower(a, d, e) == Abs(a.strides[d - pad(a)]) > Abs(a.strides[e - pad(a)])
        judges(d, e) == {i \in DOMAIN operands : tells(operands[i], d, e)}
        moves(d, e) == judges(d, e) # {} /\ \A i \in judges(d, e) : slower(operands[i], d, e)
        stays(d, e) == \E i \in judges(d, e) : ~slower(operands[i], d, e)
        sorted[k \in 0..n] ==
            IF k = 0 THEN <<>>
            ELSE LET before == sorted[k - 1]
                     wall == Max({i \in DOMAIN before : stays(k, before[i])} \cup {0})
                 IN  InsertAt(before, Min({i \in wall + 1..Len(before) : moves(k, before[i])} \cup {k}), k)
    IN  sorted[n]

\* apply_ufunc_order: where the axes of an elementwise result go.
ufunc_perm(n, order, operands) ==
    LET allF == \A i \in DOMAIN operands : is_f_contiguous(operands[i])
        allC == \A i \in DOMAIN operands : is_c_contiguous(operands[i])
    IN  CASE order = "C" -> Identity(n)
          [] order = "F" -> Reversal(n)
          [] order = "A" -> IF allF THEN Reversal(n) ELSE Identity(n)
          [] order = "K" -> IF allC THEN Identity(n)
                            ELSE IF allF THEN Reversal(n)
                            ELSE multi_sorted_stride_perm(n, operands)

binary_op(a, b, order) ==
    LET shape == broadcast_shapes(<<a.shape, b.shape>>)
        left == broadcast_to(a, shape)
        right == broadcast_to(b, shape)
        x == Gathered(left, shape, left.strides)
        y == Gathered(right, shape, right.strides)
    IN  IF shape = Raised THEN Raised
        ELSE relayout_by_perm(from_buffer([i \in DOMAIN x |-> x[i] + y[i]], shape, "C"),
                              ufunc_perm(Len(shape), order, <<a, b>>))
=============================================================================
