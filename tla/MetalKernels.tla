---------------------------- MODULE MetalKernels ----------------------------
(***************************************************************************)
(* The compute kernels of src/metal-transformer/Transformer.metal: for     *)
(* each, the memory accesses every thread of the grid makes, in order, and *)
(* next to them the result in terms of rows, heads, tokens and dimensions. *)
(*                                                                         *)
(* Arithmetic is symbolic.  A value is <<f, arguments>>; what a buffer     *)
(* holds before the dispatch is <<buffer, <<index>>>>.  Scalar arguments   *)
(* and the rotation angles are part of f.  A config c has the fields of    *)
(* ModelConfig, LinearShape and PosInfo that the kernels read.             *)
(***************************************************************************)
EXTENDS Integers, FiniteSets, SequencesExt

Cell(buffer, i) == <<buffer, i>>
Below(n) == 0..(n - 1)

\* f, and g where f is not defined: @@ of TLC.  Both by definitions of their own,
\* since proofs can use those, and open Overlay without opening every ++.
Overlay(f, g) == [x \in DOMAIN f \cup DOMAIN g |-> IF x \in DOMAIN f THEN f[x] ELSE g[x]]
f ++ g == Overlay(f, g)

Load(cell) == [op |-> "load", cell |-> cell]
Barrier == [op |-> "barrier"]

\* The value stored is made of the loads of the thread numbered in of.
Store(cell, f, of) == [op |-> "store", cell |-> cell, f |-> f, of |-> of]

Upto(n) == [i \in 1..n |-> i]
Loads(cells) == [i \in 1..Len(cells) |-> Load(cells[i])]

\* The steps, then: load the cells and store in to what f makes of them.
Compute(steps, cells, to, f) ==
    LET n == Cardinality({i \in DOMAIN steps : steps[i].op = "load"})
    IN  steps \o Loads(cells)
              \o <<Store(to, f, [i \in 1..Len(cells) |-> n + i])>>

\* Row-major layout of a buffer with the dimensions dims.
Index(dims, x) ==
    LET upto[n \in 0..Len(dims)] ==
            IF n = 0 THEN 0 ELSE upto[n - 1] * dims[n] + x[n]
    IN  upto[Len(dims)]
Size(dims) ==
    LET upto[n \in 0..Len(dims)] == IF n = 0 THEN 1 ELSE upto[n - 1] * dims[n]
    IN  upto[Len(dims)]

Initially(cell) == <<cell[1], <<cell[2]>>>>
Term(f, arguments) == <<f, arguments>>

\* The content before the dispatch of element x of a buffer, and the statement
\* that the dispatch makes a value of element x.
In(buffers, b, x) == Initially(Cell(b, Index(buffers[b], x)))
Makes(buffers, b, x, value) ==
    [cell |-> Cell(b, Index(buffers[b], x)), value |-> value]

\* A kernel dispatched over the threads program is given for.
Kernel(buffers, program, result) ==
    [buffers |-> buffers, program |-> program, result |-> result]

\* A kernel that guards its thread number, on a grid with a thread too many.
Guarded(buffers, n, program, result) ==
    Kernel(buffers, [tid \in 0..n |-> IF tid >= n THEN <<>> ELSE program[tid]], result)

\* Thread tid < n makes element tid of out from the cells it loads.
Gather(buffers, n, out, cells, f) ==
    LET program == [tid \in Below(n) |->
                       Compute(<<>>, cells[tid], Cell(out, tid), f)]
        inputs(i) == [j \in 1..Len(cells[i]) |-> Initially(cells[i][j])]
    IN  Guarded(buffers, n, program,
                {[cell |-> Cell(out, i), value |-> Term(f, inputs(i))] : i \in Below(n)})

\* All of a vector.
Whole(b, n) == [i \in 1..n |-> Cell(b, i - 1)]

q_total(c)  == c.q_heads * c.head_dim
kv_total(c) == c.kv_heads * c.head_dim
kv_offset(c, token, kv_head) == (token * c.kv_heads + kv_head) * c.head_dim

-----------------------------------------------------------------------------
\* embedding, embedding_batch.
Embeddings(c) ==
    LET B == [table |-> <<c.vocab, c.hidden>>, token |-> <<1>>, out |-> <<c.hidden>>]
        program == [tid \in Below(c.hidden) |-> Compute(<<>>,
            <<Cell("token", 0), Cell("table", c.token * c.hidden + tid)>>,
            Cell("out", tid), "copy")]
        result == {Makes(B, "out", <<i>>, Term("copy",
                        <<In(B, "token", <<0>>), In(B, "table", <<c.token, i>>)>>))
                      : i \in Below(c.hidden)}
        k == Guarded(B, c.hidden, program, result)
    IN  [embedding |-> k, embedding_batch |-> k]

\* The elements of x thread tid of rmsnorm goes over: its own and those behind it
\* by a multiple of the simdgroup.
strided(c, tid) ==
    LET n == IF tid < c.hidden THEN (c.hidden - tid - 1) \div c.lanes + 1 ELSE 0
    IN  [j \in 1..n |-> Cell("x", tid + (j - 1) * c.lanes)]

\* What thread tid leaves of them in accum, at its lane.
squares_of(c, tid) ==
    Compute(<<>>, strided(c, tid), Cell("accum", tid % c.lanes), "squares")

\* Past the barrier: the total over all lanes, and the element of the thread.
normalise(c, tid, steps) ==
    LET all == Whole("accum", c.lanes)
    IN  IF tid < c.hidden
        THEN Compute(steps, all \o <<Cell("x", tid), Cell("gain", tid)>>,
                     Cell("y", tid), "norm")
        ELSE steps \o Loads(all)

\* Mutants of rmsnorm_thread: no barrier; a thread without an element of its
\* own returns before the barrier.
rmsnorm_thread_unsynchronised(c, tid) == normalise(c, tid, squares_of(c, tid))
rmsnorm_thread_diverging(c, tid) ==
    IF tid < c.hidden
    THEN normalise(c, tid, squares_of(c, tid) \o <<Barrier>>) ELSE <<>>

rmsnorm_thread(c, tid) == normalise(c, tid, squares_of(c, tid) \o <<Barrier>>)

\* The threads of the grid: whole simdgroups, until there is one for each element.
rms_grid(c) == ((c.hidden + c.lanes - 1) \div c.lanes) * c.lanes

\* rmsnorm.  Its result is that of the first simdgroup, whose lanes go over all of
\* x; where there is a second one, it stores in the same lanes.
rmsnorm(c) ==
    LET B == [x |-> <<c.hidden>>, gain |-> <<c.hidden>>, y |-> <<c.hidden>>,
              accum |-> <<c.lanes>>]
        program == [tid \in Below(rms_grid(c)) |-> rmsnorm_thread(c, tid)]
        squares == [i \in 1..c.lanes |-> Term("squares",
                       [j \in 1..Len(strided(c, i - 1)) |->
                           Initially(strided(c, i - 1)[j])])]
        result == {Makes(B, "accum", <<i - 1>>, squares[i]) : i \in 1..c.lanes}
            \cup {Makes(B, "y", <<i>>, Term("norm",
                     squares \o <<In(B, "x", <<i>>), In(B, "gain", <<i>>)>>))
                     : i \in Below(c.hidden)}
    IN  Kernel(B, program, result)

\* rmsnorm_safe: thread 0 does all the work.
rmsnorm_safe(c) ==
    LET B == [x |-> <<c.hidden>>, gain |-> <<c.hidden>>, y |-> <<c.hidden>>]
        h == c.hidden
        upto[n \in 0..h] == IF n = 0 THEN Loads(Whole("x", h)) ELSE
            LET reads == h + 2 * (n - 1)
            IN  upto[n - 1] \o <<Load(Cell("x", n - 1)), Load(Cell("gain", n - 1)),
                    Store(Cell("y", n - 1), "norm", Upto(h) \o <<reads + 1, reads + 2>>)>>
        result == {Makes(B, "y", <<i>>, Term("norm",
                     [j \in 1..h |-> In(B, "x", <<j - 1>>)]
                        \o <<In(B, "x", <<i>>), In(B, "gain", <<i>>)>>))
                      : i \in Below(h)}
    IN  Guarded(B, 1, [tid \in Below(1) |-> upto[h]], result)

\* Thread tid sums over the whole of x and normalises element tid of it.
Norm(c, weights, out) ==
    LET B == [b \in {"x", out} \cup ToSet(weights) |-> <<c.hidden>>]
        cells == [tid \in Below(c.hidden) |-> Whole("x", c.hidden) \o <<Cell("x", tid)>>
                     \o [i \in 1..Len(weights) |-> Cell(weights[i], tid)]]
    IN  Gather(B, c.hidden, out, cells, "norm")

rmsnorm_vec4(c) == Norm(c, <<"gain">>, "y")
FinalNorms(c) == [final_norm |-> Norm(c, <<"gain">>, "y"),
                  final_norm_chunked |-> Norm(c, <<"gain">>, "y")]
segment_norm(c) == Norm(c, <<"gain">>, "y")
LayerNorms(c) == [layer_norm |-> Norm(c, <<"gain", "bias">>, "y"),
                  layer_norm_1d |-> Norm(c, <<"gain", "bias">>, "y"),
                  ln_and_add |-> Norm(c, <<"gain", "bias", "y">>, "out")]
\* sequence_norm goes over x twice: for the mean and for the variance.
sequence_norm(c) ==
    LET cells == [tid \in Below(c.hidden) |->
                     Whole("x", c.hidden) \o Whole("x", c.hidden) \o <<Cell("x", tid)>>]
    IN  Gather([x |-> <<c.hidden>>, y |-> <<c.hidden>>], c.hidden, "y", cells, "norm")

-----------------------------------------------------------------------------
\* rope_qk: an even thread rotates a pair of its query head and the same pair
\* of the key head the query head shares.
rope_qk_thread(c, tid) ==
    LET D == c.head_dim
        q_head == tid \div D
        dim_pair == (tid \div 2) % (D \div 2)
        q_e0 == q_head * D + 2 * dim_pair
        k_e0 == (q_head % c.kv_heads) * D + 2 * dim_pair
        q(i) == Cell("q", q_e0 + i)
        k(i) == Cell("k", k_e0 + i)
    IN  IF tid % 2 = 1 THEN <<>> ELSE
        Loads(<<q(0), q(1)>>)
            \o <<Store(q(0), "cos", <<1, 2>>), Store(q(1), "sin", <<1, 2>>)>>
            \o Loads(<<k(0), k(1)>>)
            \o <<Store(k(0), "cos", <<3, 4>>), Store(k(1), "sin", <<3, 4>>)>>

rope_qk(c) ==
    LET B == [q |-> <<c.q_heads, c.head_dim>>, k |-> <<c.kv_heads, c.head_dim>>]
        program == [tid \in Below(q_total(c)) |-> rope_qk_thread(c, tid)]
        pair(b, h, d) == <<In(B, b, <<h, d>>), In(B, b, <<h, d + 1>>)>>
        rotated(b, heads) == UNION
            {{Makes(B, b, <<h, d>>, Term("cos", pair(b, h, d))),
              Makes(B, b, <<h, d + 1>>, Term("sin", pair(b, h, d)))}
                : h \in Below(heads), d \in {e \in Below(c.head_dim) : e % 2 = 0}}
    IN  Guarded(B, q_total(c), program,
                rotated("q", c.q_heads) \cup rotated("k", c.kv_heads))

-----------------------------------------------------------------------------
\* packed_index, counted in nibbles: a byte holds two columns, and a row of odd
\* length leaves the last nibble of its last byte unused.
packed_index(row, col, cols) == 2 * (row * ((cols + 1) \div 2) + col \div 2) + (col % 2)

\* One row of a quantised matrix times a vector, behind the steps before it.
\* bits is 4 or 8.  The scale, which every column reads again, is loaded once.
MatvecRow(steps, bits, weight, scale, bias, input, output, cols, row) ==
    LET at(col) == IF bits = 4 THEN packed_index(row, col, cols)
                   ELSE row * cols + col
        product == [i \in 1..cols |->
                      <<Cell(weight, at(i - 1)), Cell(input, i - 1)>>]
    IN  Compute(steps, [i \in 1..Len(bias) |-> Cell(bias[i], row)]
                          \o <<Cell(scale, row)>> \o FlattenSeq(product),
                Cell(output, row), "dot")

\* What it makes of element row of the output.
MatvecResult(B, weight, scale, bias, input, output, cols, row) ==
    Makes(B, output, <<row>>, Term("dot",
        [i \in 1..Len(bias) |-> In(B, bias[i], <<row>>)]
           \o <<In(B, scale, <<row>>)>>
           \o FlattenSeq([i \in 1..cols |->
                 <<In(B, weight, <<row, i - 1>>), In(B, input, <<i - 1>>)>>])))

\* The columns a row of the weight buffer has room for.
Stride(bits, cols) == IF bits = 4 /\ cols % 2 = 1 THEN cols + 1 ELSE cols

Matvec(c, bits, bias) ==
    LET B == [weight |-> <<c.rows, Stride(bits, c.cols)>>, scale |-> <<c.rows>>,
              bias |-> <<c.rows>>, input |-> <<c.cols>>, output |-> <<c.rows>>]
        program == [row \in Below(c.rows) |->
            MatvecRow(<<>>, bits, "weight", "scale", bias, "input", "output", c.cols, row)]
        result == {MatvecResult(B, "weight", "scale", bias, "input", "output",
                                c.cols, row) : row \in Below(c.rows)}
    IN  Guarded(B, c.rows, program, result)

QuantizedMatvecs(c) ==
    [quantized_matvec |-> Matvec(c, 4, <<>>),
     quantized_matvec_i8 |-> Matvec(c, 8, <<>>),
     quantized_matvec_bias |-> Matvec(c, 4, <<"bias">>),
     quantized_matvec_bias_i8 |-> Matvec(c, 8, <<"bias">>)]
Logits(c) == [logits |-> Matvec(c, 4, <<>>), logits_i8 |-> Matvec(c, 8, <<>>),
              logits_bias |-> Matvec(c, 4, <<"bias">>)]
Projections(c) == [attention_projection |-> Matvec(c, 4, <<"bias">>),
                   output_projection |-> Matvec(c, 4, <<"bias">>),
                   output_projection_i8 |-> Matvec(c, 8, <<"bias">>),
                   output_projection_no_bias |-> Matvec(c, 4, <<>>)]
\* stable_logits divides the row by the temperature.
Heads(c) == [stable_logits |-> Matvec(c, 4, <<>>),
             classifier_logits |-> Matvec(c, 4, <<>>),
             head_projection |-> Matvec(c, 4, <<>>)]
attn_projection_grad(c) == Matvec(c, 4, <<>>)

\* qkv_projection: one thread makes a row of each of three outputs, as far as
\* each has that row.
QkvProjections(c) ==
    LET rows == [q |-> q_total(c), k |-> kv_total(c), v |-> kv_total(c)]
        W == [q |-> "weight_q", k |-> "weight_k", v |-> "weight_v"]
        S == [q |-> "scale_q", k |-> "scale_k", v |-> "scale_v"]
        O == [q |-> "q_out", k |-> "k_out", v |-> "v_out"]
        parts == {"q", "k", "v"}
        B == [b \in {W[p] : p \in parts} |->
                 <<rows[CHOOSE p \in parts : W[p] = b], Stride(4, c.hidden)>>]
          ++ [b \in {S[p] : p \in parts} |-> <<rows[CHOOSE p \in parts : S[p] = b]>>]
          ++ [b \in {O[p] : p \in parts} |-> <<rows[CHOOSE p \in parts : O[p] = b]>>]
          ++ [input |-> <<c.hidden>>]
        part(steps, p, row) == IF row < rows[p]
            THEN MatvecRow(steps, 4, W[p], S[p], <<>>, "input", O[p], c.hidden, row)
            ELSE steps
        program == [row \in Below(q_total(c)) |->
                       part(part(part(<<>>, "q", row), "k", row), "v", row)]
        result == UNION {{MatvecResult(B, W[p], S[p], <<>>, "input", O[p], c.hidden, row)
                            : row \in Below(rows[p])} : p \in parts}
        k == Guarded(B, q_total(c), program, result)
    IN  [qkv_projection |-> k, qkv_projection_tiled |-> k]

-----------------------------------------------------------------------------
\* Mutant of scores_cells: the key head is taken as if heads were grouped.
scores_cells_grouped(c, tid) ==
    LET D == c.head_dim
        head == tid \div c.seq_len
        token == tid % c.seq_len
        k_base == kv_offset(c, token, head \div c.kv_heads)
    IN  FlattenSeq([i \in 1..D |-> <<Cell("q", head * D + i - 1),
                                    Cell("k_cache", k_base + i - 1)>>])

\* attention_scores: thread tid has query head tid / seq_len and the cached
\* token tid % seq_len.
scores_cells(c, tid) ==
    LET D == c.head_dim
        head == tid \div c.seq_len
        token == tid % c.seq_len
        k_base == kv_offset(c, token, head % c.kv_heads)
    IN  FlattenSeq([i \in 1..D |-> <<Cell("q", head * D + i - 1),
                                    Cell("k_cache", k_base + i - 1)>>])

CacheDims(c) == <<c.context, c.kv_heads, c.head_dim>>
TokensBefore(c) == Below(c.seq_len)
QHeads(c) == Below(c.q_heads)

Scores(c) ==
    LET B == [q |-> <<c.q_heads, c.head_dim>>, k_cache |-> CacheDims(c),
              scores |-> <<c.q_heads, c.seq_len>>]
        program == [tid \in Below(c.q_heads * c.seq_len) |->
                       Compute(<<>>, scores_cells(c, tid), Cell("scores", tid), "dot")]
        dot(h, t) == Term("dot", FlattenSeq([i \in 1..c.head_dim |->
                        <<In(B, "q", <<h, i - 1>>),
                          In(B, "k_cache", <<t, h % c.kv_heads, i - 1>>)>>]))
    IN  Guarded(B, c.q_heads * c.seq_len, program,
                {Makes(B, "scores", <<h, t>>, dot(h, t))
                   : h \in QHeads(c), t \in TokensBefore(c)})

AttentionScores(c) == [attention_scores |-> Scores(c), attention_scores_full |-> Scores(c)]
computed_score_invariants(c) == Scores(c)

\* parallel_score_block and cross_attention_debug score the query heads against
\* the keys of one token: for each of seq_len tokens, and once.
HeadScores(c, tokens) ==
    LET D == c.head_dim
        B == [q |-> <<c.q_heads, D>>, k |-> <<c.kv_heads, D>>, out |-> <<c.q_heads, tokens>>]
        cells(tid) == LET head == tid \div tokens IN FlattenSeq([i \in 1..D |->
            <<Cell("q", head * D + i - 1), Cell("k", (head % c.kv_heads) * D + i - 1)>>])
        program == [tid \in Below(c.q_heads * tokens) |->
                       Compute(<<>>, cells(tid), Cell("out", tid), "dot")]
        dot(h) == Term("dot", FlattenSeq([i \in 1..D |->
                     <<In(B, "q", <<h, i - 1>>), In(B, "k", <<h % c.kv_heads, i - 1>>)>>]))
    IN  Guarded(B, c.q_heads * tokens, program,
                {Makes(B, "out", <<h, t>>, dot(h)) : h \in QHeads(c), t \in Below(tokens)})
parallel_score_block(c) == HeadScores(c, c.seq_len)
cross_attention_debug(c) == HeadScores(c, 1)

\* causal_mask: minus infinity for the tokens behind the current one.
Mask(c) ==
    LET B == [scores |-> <<c.q_heads, c.seq_len>>]
        program == [tid \in Below(c.q_heads * c.seq_len) |->
            IF tid % c.seq_len > c.token_index
            THEN <<Store(Cell("scores", tid), "-inf", <<>>)>> ELSE <<>>]
    IN  Guarded(B, c.q_heads * c.seq_len, program,
                {Makes(B, "scores", <<h, t>>, Term("-inf", <<>>))
                   : h \in QHeads(c), t \in {u \in TokensBefore(c) : u > c.token_index}})
causal_mask(c) == Mask(c)
attention_diag_mask(c) == Mask(c)

\* The three passes of a softmax over the first n elements of row `row`: the
\* maximum; the exponentials, stored and summed; the scaling.  What is behind
\* them in the row is set to zero.
softmax_thread(width, n, row) ==
    LET s(t) == Cell("scores", row * width + t - 1)
        exponential(t) == <<Load(s(t)), Store(s(t), "exp", Upto(n) \o <<n + t>>)>>
        scaled(t) == <<Load(s(t)), Store(s(t), "scaled", Upto(2 * n) \o <<2 * n + t>>)>>
        zero(t) == <<Store(s(t), "zero", <<>>)>>
    IN  Loads([t \in 1..n |-> s(t)])
          \o FlattenSeq([t \in 1..n |-> exponential(t)])
          \o FlattenSeq([t \in 1..(width - n) |-> zero(n + t)])
          \o FlattenSeq([t \in 1..n |-> scaled(t)])

Softmax(rows, width, n) ==
    LET B == [scores |-> <<rows, width>>]
        program == [row \in Below(rows) |-> softmax_thread(width, n, row)]
        row_of(r) == [t \in 1..n |-> In(B, "scores", <<r, t - 1>>)]
        weight(r, t) == Term("scaled", row_of(r) \o row_of(r)
                           \o <<Term("exp", row_of(r) \o <<row_of(r)[t]>>)>>)
    IN  Guarded(B, rows, program,
                {Makes(B, "scores", <<r, t - 1>>, IF t <= n THEN weight(r, t)
                                                  ELSE Term("zero", <<>>))
                   : r \in Below(rows), t \in 1..width})

Softmaxes(c) == [softmax_stable |-> Softmax(c.q_heads, c.seq_len, c.seq_len),
                 softmax_stable_2d |-> Softmax(c.rows, c.cols, c.cols)]
masked_softmax(c) == Softmax(c.q_heads, c.seq_len, c.token_index + 1)

\* attention_value: the weighted sum of one dimension over the first n tokens.
Values(c, n) ==
    LET D == c.head_dim
        B == [scores |-> <<c.q_heads, c.seq_len>>, v_cache |-> CacheDims(c),
              out |-> <<c.q_heads, D>>]
        weighted(head, dim) == FlattenSeq([t \in 1..n |->
            <<Cell("scores", head * c.seq_len + t - 1),
              Cell("v_cache", kv_offset(c, t - 1, head % c.kv_heads) + dim)>>])
        program == [tid \in Below(q_total(c)) |->
                       Compute(<<>>, weighted(tid \div D, tid % D), Cell("out", tid), "sum")]
        sum(h, d) == Term("sum", FlattenSeq([t \in 1..n |->
                        <<In(B, "scores", <<h, t - 1>>),
                          In(B, "v_cache", <<t - 1, h % c.kv_heads, d>>)>>]))
    IN  Guarded(B, q_total(c), program,
                {Makes(B, "out", <<h, d>>, sum(h, d)) : h \in QHeads(c), d \in Below(D)})

AttentionValues(c) == [attention_value |-> Values(c, c.seq_len),
                       attention_value_tiled |-> Values(c, c.seq_len)]
masked_attention_value(c) == Values(c, c.token_index + 1)
attention_update_values(c) == Values(c, c.token_index + 1)

-----------------------------------------------------------------------------
\* kv_store: the key and value of the current token go to its place in the
\* caches, in front of which are `before` others.
KvStore(c, dims, before, place) ==
    LET B == [k |-> <<c.kv_heads, c.head_dim>>, v |-> <<c.kv_heads, c.head_dim>>,
              k_cache |-> dims, v_cache |-> dims]
        base(tid) == before * kv_total(c) + tid
        program == [tid \in Below(kv_total(c)) |->
            Compute(Compute(<<>>, <<Cell("k", tid)>>, Cell("k_cache", base(tid)), "copy"),
                    <<Cell("v", tid)>>, Cell("v_cache", base(tid)), "copy")]
        kept(b, cache) == {Makes(B, cache, place \o <<g, d>>,
                                 Term("copy", <<In(B, b, <<g, d>>)>>))
                             : g \in Below(c.kv_heads), d \in Below(c.head_dim)}
    IN  Guarded(B, kv_total(c), program, kept("k", "k_cache") \cup kept("v", "v_cache"))

\* Mutant of KvStores: the layer is counted by the tokens seen, not by those
\* the cache has room for.
KvStores_packed(c) ==
    [kv_store |-> KvStore(c, CacheDims(c), c.token_index, <<c.token_index>>),
     kv_store_layer |-> KvStore(c, <<c.layers>> \o CacheDims(c),
                                c.layer * c.seq_len + c.token_index,
                                <<c.layer, c.token_index>>)]

KvStores(c) ==
    [kv_store |-> KvStore(c, CacheDims(c), c.token_index, <<c.token_index>>),
     kv_store_layer |-> KvStore(c, <<c.layers>> \o CacheDims(c),
                                c.layer * c.context + c.token_index,
                                <<c.layer, c.token_index>>)]

\* cache_lookup: key and value of the current token, added.
CacheLookups(c) ==
    LET B == [k_cache |-> CacheDims(c), v_cache |-> CacheDims(c), out |-> <<kv_total(c)>>]
        at(b, tid) == Cell(b, c.token_index * kv_total(c) + tid)
        cells == [tid \in Below(kv_total(c)) |-> <<at("k_cache", tid), at("v_cache", tid)>>]
        k == Gather(B, kv_total(c), "out", cells, "add")
    IN  [cache_lookup |-> k, cache_lookup_headed |-> k]

-----------------------------------------------------------------------------
\* The vector qkv is the queries, then the keys, then the values.
QkvBuffers(c) == [qkv |-> <<q_total(c) + 2 * kv_total(c)>>, q |-> <<q_total(c)>>,
                  k |-> <<kv_total(c)>>, v |-> <<kv_total(c)>>]

\* Where thread tid finds its element among q, k and v.
qkv_place(c, tid) ==
    LET n == q_total(c)
        m == kv_total(c)
    IN  IF tid < n THEN Cell("q", tid)
        ELSE IF tid < n + m THEN Cell("k", tid - n) ELSE Cell("v", tid - n - m)

Places(c) == {<<"q", 0, i>> : i \in Below(q_total(c))}
        \cup {<<"k", q_total(c), i>> : i \in Below(kv_total(c))}
        \cup {<<"v", q_total(c) + kv_total(c), i>> : i \in Below(kv_total(c))}
qkv_total(c) == q_total(c) + 2 * kv_total(c)

Split(c) ==
    LET B == QkvBuffers(c)
        program == [tid \in Below(qkv_total(c)) |->
                       Compute(<<>>, <<Cell("qkv", tid)>>, qkv_place(c, tid), "copy")]
    IN  Guarded(B, qkv_total(c), program,
                {Makes(B, p[1], <<p[3]>>, Term("copy", <<In(B, "qkv", <<p[2] + p[3]>>)>>))
                   : p \in Places(c)})

Concat(c) ==
    LET B == QkvBuffers(c)
        program == [tid \in Below(qkv_total(c)) |->
                       Compute(<<>>, <<qkv_place(c, tid)>>, Cell("qkv", tid), "copy")]
    IN  Guarded(B, qkv_total(c), program,
                {Makes(B, "qkv", <<p[2] + p[3]>>, Term("copy", <<In(B, p[1], <<p[3]>>)>>))
                   : p \in Places(c)})

SplitConcat(c) == [qkv_split |-> Split(c), qkv_concat |-> Concat(c)]
Reorders(c) == [reorder_qkv |-> Concat(c), reorder_qkv_headed |-> Concat(c)]
HeadSplits(c) == [head_split_qkv |-> Split(c), qkv_stage_sanity |-> Split(c)]

\* qkv_head_lift is Concat without a guard behind the last element.
qkv_head_lift(c) ==
    LET k == Concat(c)
    IN  Kernel(k.buffers, [tid \in Below(qkv_total(c)) |-> k.program[tid]], k.result)

\* Copies of q_in, k_in and v_in.  mixed_qkv gives every query head a key and a
\* value head of its own; qkv_gqa copies as many key heads as there are.
QkvCopies(c, heads) ==
    LET D == c.head_dim
        B == [q_in |-> <<c.q_heads, D>>, k_in |-> <<c.kv_heads, D>>,
              v_in |-> <<c.kv_heads, D>>, q_out |-> <<c.q_heads, D>>,
              k_out |-> <<heads, D>>, v_out |-> <<heads, D>>]
        copy(steps, from, i, to, tid) == Compute(steps, <<Cell(from, i)>>, Cell(to, tid), "copy")
        shared(steps, from, to, tid) ==
            IF tid < heads * D THEN copy(steps, from, tid % kv_total(c), to, tid) ELSE steps
        program == [tid \in Below(q_total(c)) |->
                       shared(shared(copy(<<>>, "q_in", tid, "q_out", tid),
                                     "k_in", "k_out", tid), "v_in", "v_out", tid)]
        copies(from, n, to, m) == {Makes(B, to, <<h, d>>,
                Term("copy", <<In(B, from, <<h % n, d>>)>>))
                   : h \in Below(m), d \in Below(D)}
    IN  Guarded(B, q_total(c), program,
                copies("q_in", c.q_heads, "q_out", c.q_heads)
                   \cup copies("k_in", c.kv_heads, "k_out", heads)
                   \cup copies("v_in", c.kv_heads, "v_out", heads))

mixed_qkv(c) == QkvCopies(c, c.q_heads)
qkv_gqa(c) == QkvCopies(c, c.kv_heads)

-----------------------------------------------------------------------------
\* A kernel over the threads tid < count: element tid of out from element tid of
\* each of ins, which out may be one of.
Elementwise(c, table) ==
    LET kernel(row) ==
            LET cells == [tid \in Below(c.count) |->
                             [i \in 1..Len(row[2]) |-> Cell(row[2][i], tid)]]
            IN  Gather([b \in ToSet(row[2]) \cup {row[3]} |-> <<c.count>>],
                       c.count, row[3], cells, row[1])
    IN  [name \in DOMAIN table |-> kernel(table[name])]

Residuals == [weight_bias_add |-> <<"add", <<"in", "bias">>, "out">>,
              add_residual |-> <<"add", <<"a", "b">>, "out">>,
              add_residual_batch |-> <<"add", <<"a", "b">>, "out">>]
Gates == [swiglu |-> <<"swiglu", <<"gate", "up">>, "out">>,
          swiglu_gate |-> <<"swiglu", <<"gate", "up">>, "out">>]
Activations == [scale_add |-> <<"scale_add", <<"x", "y">>, "out">>,
                scale_mul |-> <<"scale", <<"x">>, "out">>,
                bias_activation |-> <<"add", <<"x", "bias">>, "out">>,
                activation_relu |-> <<"relu", <<"x">>, "out">>,
                activation_gelu |-> <<"gelu", <<"x">>, "out">>,
                activation_silu |-> <<"silu", <<"x">>, "out">>]
ResidualProjections == [residual_projection |-> <<"add", <<"x", "proj">>, "out">>,
                        residual_projection_scaled |-> <<"scale_add", <<"x", "proj">>, "out">>]
Streams == [stream_copy |-> <<"copy", <<"in">>, "out">>,
            stream_fill |-> <<"value", <<>>, "out">>,
            zero_buffer |-> <<"zero", <<>>, "out">>,
            clamp_buffer |-> <<"clamp", <<"out">>, "out">>,
            add_bias_kernel |-> <<"add", <<"x", "bias">>, "y">>]
Batches == [batch_token_copy |-> <<"copy", <<"in">>, "out">>,
            batch_fill_zero |-> <<"zero", <<>>, "out">>,
            batch_fill_const |-> <<"value", <<>>, "out">>,
            batch_scale_add |-> <<"scale_add", <<"x", "y">>, "out">>,
            additive_offset |-> <<"offset", <<"x">>, "x">>,
            contrastive_scale |-> <<"scale", <<"x">>, "x">>]
BufferOps == [elementwise_mul |-> <<"mul", <<"a", "b">>, "out">>,
              elementwise_div |-> <<"div", <<"a", "b">>, "out">>,
              abs_buffer |-> <<"abs", <<"x">>, "out">>,
              clamp_buffer_signed |-> <<"clamp", <<"x">>, "x">>,
              repeat_value |-> <<"value", <<>>, "out">>]
VectorOps == [vector_bias_add |-> <<"add", <<"x", "b">>, "out">>,
              vector_bias_mul |-> <<"mul", <<"x", "b">>, "out">>,
              buffer_add_const |-> <<"offset", <<"x">>, "x">>,
              buffer_mul_const |-> <<"scale", <<"x">>, "x">>,
              merge_buffers |-> <<"add", <<"a", "b">>, "out">>]
smoothed_output == [smoothed_output |-> <<"scale_add", <<"x", "y">>, "out">>]
\* memory_copy_stride and its twenty-nine copies.
memory_copy_stride == [memory_copy_stride |-> <<"copy", <<"in">>, "out">>]

\* split_residual_state also clears a second buffer.
split_residual_state(c) ==
    LET B == [x |-> <<c.count>>, residual |-> <<c.count>>, normalized |-> <<c.count>>]
        program == [tid \in Below(c.count) |->
                       Compute(<<>>, <<Cell("x", tid)>>, Cell("residual", tid), "copy")
                           \o <<Store(Cell("normalized", tid), "zero", <<>>)>>]
    IN  Guarded(B, c.count, program, UNION
                {{Makes(B, "residual", <<i>>, Term("copy", <<In(B, "x", <<i>>)>>)),
                  Makes(B, "normalized", <<i>>, Term("zero", <<>>))} : i \in Below(c.count)})

-----------------------------------------------------------------------------
\* Every thread below count reduces the whole vector for itself.
EachReduces(c, f) ==
    LET cells == [tid \in Below(c.count) |-> Whole("x", c.count)]
    IN  Gather([x |-> <<c.count>>, out |-> <<c.count>>], c.count, "out", cells, f)
mixed_precision_reduce(c) == EachReduces(c, "mean")
accumulation_block(c) == EachReduces(c, "sum")

\* Thread 0 reduces it for all.
FirstReduces(c, f) ==
    LET cells == [tid \in Below(1) |-> Whole("x", c.count)]
    IN  Gather([x |-> <<c.count>>, out |-> <<1>>], 1, "out", cells, f)
Reductions(c) == [temp_reduce |-> FirstReduces(c, "sum"),
                  reduce_max |-> FirstReduces(c, "max"),
                  reduce_sum_kernel |-> FirstReduces(c, "sum")]

dot_product(c) ==
    LET pairs(v, w) == FlattenSeq([i \in 1..c.count |-> <<v[i], w[i]>>])
        cells == [tid \in Below(1) |-> pairs(Whole("a", c.count), Whole("b", c.count))]
    IN  Gather([a |-> <<c.count>>, b |-> <<c.count>>, out |-> <<1>>], 1, "out", cells, "dot")

\* sum_rows and max_rows have no guard: the grid has one thread for each row.
ReduceRow(c, f) ==
    LET B == [x |-> <<c.rows, c.cols>>, out |-> <<c.rows>>]
        program == [row \in Below(c.rows) |->
            Compute(<<>>, [i \in 1..c.cols |-> Cell("x", row * c.cols + i - 1)],
                    Cell("out", row), f)]
    IN  Kernel(B, program,
               {Makes(B, "out", <<r>>, Term(f, [i \in 1..c.cols |-> In(B, "x", <<r, i - 1>>)]))
                  : r \in Below(c.rows)})
RowReductions(c) == [sum_rows |-> ReduceRow(c, "sum"), max_rows |-> ReduceRow(c, "max")]

-----------------------------------------------------------------------------
\* Every kernel of the library that is modelled, by name.
Library(c) ==
    Embeddings(c) ++ FinalNorms(c) ++ LayerNorms(c)
    ++ QuantizedMatvecs(c) ++ Logits(c) ++ Projections(c) ++ Heads(c)
    ++ QkvProjections(c) ++ AttentionScores(c) ++ Softmaxes(c) ++ AttentionValues(c)
    ++ KvStores(c) ++ CacheLookups(c) ++ SplitConcat(c) ++ Reorders(c) ++ HeadSplits(c)
    ++ Elementwise(c, Residuals ++ Gates ++ Activations ++ ResidualProjections
                        ++ Streams ++ Batches ++ BufferOps ++ VectorOps
                        ++ smoothed_output ++ memory_copy_stride)
    ++ Reductions(c) ++ RowReductions(c)
    ++ [rmsnorm_safe |-> rmsnorm_safe(c), rmsnorm_vec4 |-> rmsnorm_vec4(c),
        segment_norm |-> segment_norm(c), sequence_norm |-> sequence_norm(c),
        attn_projection_grad |-> attn_projection_grad(c),
        computed_score_invariants |-> computed_score_invariants(c),
        causal_mask |-> causal_mask(c), attention_diag_mask |-> attention_diag_mask(c),
        masked_softmax |-> masked_softmax(c),
        masked_attention_value |-> masked_attention_value(c),
        attention_update_values |-> attention_update_values(c),
        parallel_score_block |-> parallel_score_block(c),
        cross_attention_debug |-> cross_attention_debug(c), dot_product |-> dot_product(c),
        qkv_head_lift |-> qkv_head_lift(c), mixed_qkv |-> mixed_qkv(c), qkv_gqa |-> qkv_gqa(c),
        split_residual_state |-> split_residual_state(c),
        mixed_precision_reduce |-> mixed_precision_reduce(c),
        accumulation_block |-> accumulation_block(c),
        rope_qk |-> rope_qk(c), rmsnorm |-> rmsnorm(c)]
=============================================================================
