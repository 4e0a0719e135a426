----------------------------- MODULE TensorReadout -----------------------------
(***************************************************************************)
(* From encoded prompts to tensors and from a graph's output to readings   *)
(* (runtime/tensor.rs and the collation and readouts in model/): rows are  *)
(* padded to one flat tensor, and the output is cut back into one reading  *)
(* per key.                                                                *)
(***************************************************************************)
EXTENDS PromptEncoding

CONSTANTS NaN,          \* a value that is not finite
          MaxElements,  \* MAX_TENSOR_ELEMENTS
          MaxPair,      \* MAX_PAIR_TOKENS, less the separators
          MaxText,      \* MAX_TEXT_TOKENS
          BiasedCounts, \* the level counts with a score bias (SCORE_BIAS): {5}
          EntailColumn, \* ENTAIL_INDEX, counted from 1
          Dims          \* the width of an embedding

ASSUME ReadoutAssumption == {EntailColumn, Dims, MaxPair, MaxText} \subseteq Nat

Product(shape) ==
    LET p[i \in 0 .. Len(shape)] == IF i = 0 THEN 1 ELSE p[i - 1] * shape[i]
    IN  p[Len(shape)]

\* DenseTensor::new.
Tensor(shape, data) ==
    IF \/ shape = <<>> \/ \E i \in DOMAIN shape : shape[i] = 0
       \/ Product(shape) > MaxElements \/ Len(data) # Product(shape)
       \/ \E i \in DOMAIN data : data[i] = NaN
    THEN Err("tensor") ELSE Ok([shape |-> shape, data |-> data])

\* DenseTensor::row, rows counted from 0.
RowOf(t, r) == SubSeq(t.data, r * t.shape[2] + 1, (r + 1) * t.shape[2])
HasRow(t, r) == Len(t.shape) = 2 /\ r < t.shape[1]

\* The tensors of a request, or the first error.
Together(tensors) ==
    IF \A n \in DOMAIN tensors : tensors[n].ok
    THEN Ok([n \in DOMAIN tensors |-> tensors[n].value]) ELSE Err("tensor")

Longest(rows) == Max({Len(rows[i]) : i \in DOMAIN rows})

-----------------------------------------------------------------------------
(* Collation.                                                              *)

\* Mutant: rows of pointers are laid out at the stride of the tokens.
KaiColumnsByLength(encodings, length, width) ==
    [n \in 1 .. Len(encodings) * width |->
        LET hits == {rc \in (DOMAIN encodings) \X (1 .. width) :
                        /\ rc[2] <= Len(encodings[rc[1]].option_pos)
                        /\ (rc[1] - 1) * length + rc[2] = n}
        IN  IF hits = {} THEN 0
            ELSE LET rc == CHOOSE h \in hits : TRUE IN encodings[rc[1]].option_pos[rc[2]]]

\* KaiBatch::collate writes pointer column c of row r at r * width + c.
KaiColumns(encodings, length, width) ==
    [n \in 1 .. Len(encodings) * width |->
        LET hits == {rc \in (DOMAIN encodings) \X (1 .. width) :
                        /\ rc[2] <= Len(encodings[rc[1]].option_pos)
                        /\ (rc[1] - 1) * width + rc[2] = n}
        IN  IF hits = {} THEN 0
            ELSE LET rc == CHOOSE h \in hits : TRUE IN encodings[rc[1]].option_pos[rc[2]]]

\* Rows padded one after the other (entailment_probabilities, embed_texts); the
\* mask is one over a row's own tokens.
Padded(rows) ==
    LET width == Longest(rows)
        fill(v, n) == [i \in 1 .. n |-> v]
    IN  [ids |-> FlattenSeq([i \in DOMAIN rows |-> rows[i] \o fill("[PAD]", width - Len(rows[i]))]),
         mask |-> FlattenSeq([i \in DOMAIN rows |->
                                fill(1, Len(rows[i])) \o fill(0, width - Len(rows[i]))]),
         shape |-> <<Len(rows), width>>]

\* KaiBatch::collate and to_tensors.
KaiTensors(encodings) ==
    LET batch == Len(encodings)
        rows == [i \in DOMAIN encodings |-> encodings[i].ids]
        width == Max({Len(encodings[i].keys) : i \in DOMAIN encodings})
        p == Padded(rows)
    IN  IF encodings = <<>> THEN Err("contract")
        ELSE Together([input_ids |-> Tensor(p.shape, p.ids), attention_mask |-> Tensor(p.shape, p.mask),
                       answer_pos |-> Tensor(<<batch>>, [i \in DOMAIN encodings |-> encodings[i].answer_pos]),
                       option_pos |-> Tensor(<<batch, width>>,
                                             KaiColumns(encodings, Longest(rows), width))])

\* JuliaEncoding::to_tensors: one question, nothing padded.
JuliaTensors(e) ==
    LET ones(n) == [i \in 1 .. n |-> 1]
    IN  Together([input_ids |-> Tensor(<<1, Len(e.ids)>>, e.ids),
                  attention_mask |-> Tensor(<<1, Len(e.ids)>>, ones(Len(e.ids))),
                  option_pos |-> Tensor(<<1, Len(e.keys)>>, e.marker_pos),
                  marker_mask |-> Tensor(<<1, Len(e.keys)>>, ones(Len(e.keys))),
                  qtype |-> Tensor(<<1>>, <<e.kind>>)])

\* The tokenizer's truncation of a pair of texts, the longer one first: the
\* shorter one keeps its length as long as that is no more than half the room.
PairTruncated(pair) ==
    LET a == Len(pair.premise) b == Len(pair.hypothesis)
        short == Min({a, b, MaxPair \div 2})
        of(swapped) == IF swapped = (a > b) THEN MaxPair - short ELSE short
    IN  IF a + b <= MaxPair THEN pair
        ELSE [premise |-> Cut(pair.premise, of(TRUE)), hypothesis |-> Cut(pair.hypothesis, of(FALSE))]
PairEncoded(pair) ==
    LET p == PairTruncated(pair) IN p.premise \o <<"[SEP]">> \o p.hypothesis

\* entailment_probabilities: the pairs are padded, and always masked.
NliTensors(rows) ==
    LET p == Padded(rows)
    IN  IF rows = <<>> THEN Err("contract")
        ELSE Together([input_ids |-> Tensor(p.shape, p.ids), attention_mask |-> Tensor(p.shape, p.mask)])

\* embed_texts: the mask is sent only to a graph that demands it.
SiglipTensors(rows, demands) ==
    LET p == Padded(rows)
        ids == [input_ids |-> Tensor(p.shape, p.ids)]
    IN  IF Longest(rows) = 0 THEN Err("contract")
        ELSE Together(IF demands THEN ids @@ [attention_mask |-> Tensor(p.shape, p.mask)] ELSE ids)

-----------------------------------------------------------------------------
(* Readings.                                                               *)

\* probabilities: only a score question of a calibrated size is biased.
Biased(kind, count) == kind = "score" /\ count \in BiasedCounts
Probabilities(kind, keys, logits) ==
    IF Len(logits) # Len(keys) THEN Err("contract")
    ELSE Ok([i \in DOMAIN keys |-> [key |-> keys[i], cell |-> logits[i],
                                    bias |-> IF Biased(kind, Len(keys)) THEN i ELSE 0]])

\* score_batch: a row's first cells are the question's, the rest is padding.
KaiReadings(encodings, logits) ==
    LET row(i) == Cut(RowOf(logits, i - 1), Len(encodings[i].keys))
        read(i) == Probabilities(encodings[i].kind, encodings[i].keys, row(i))
    IN  IF \A i \in DOMAIN encodings : HasRow(logits, i - 1) /\ read(i).ok
        THEN Ok([i \in DOMAIN encodings |-> read(i).value]) ELSE Err("contract")

JuliaReading(e, logits) == Probabilities("julia", e.keys, RowOf(logits, 0))

\* entailment_probabilities, past the graph: the entailment column of every pair.
Entailments(rows, out) ==
    IF out.shape[2] < EntailColumn \/ \E i \in DOMAIN rows : ~HasRow(out, i - 1) THEN Err("contract")
    ELSE Ok([i \in DOMAIN rows |-> RowOf(out, i - 1)[EntailColumn]])

\* pooled_rows: one vector of the configured size per text or image.
PooledRows(rows, out) ==
    IF out.shape # <<Len(rows), Dims>> THEN Err("contract")
    ELSE Ok([i \in DOMAIN rows |-> RowOf(out, i - 1)])
==============================================================================
