--------------------------- MODULE RuntimeBackends ---------------------------
(***************************************************************************)
(* The session backends (runtime/kai.rs, julia.rs, nli.rs, siglip.rs): how *)
(* one is opened, what it checks before the session's lock is taken, and   *)
(* what it accepts from the session.  The graph itself is external: what   *)
(* it computes for a cell is known only by what the cell attends to, so    *)
(* its value is that.                                                      *)
(***************************************************************************)
EXTENDS TensorReadout

-----------------------------------------------------------------------------
(* Opening.  A file is [name, loads, demands]: whether a session can be    *)
(* made of it and the names of its inputs.                                 *)

\* create_session; a backend goes by its model and the name of its file.
Opened(model, file) == IF file.loads THEN Ok(<<model, file.name>>) ELSE Err("backend")

\* The pointer heads and the pair classifier do not look at the graph's inputs.
KaiFromFile(file) == Opened("kai", file)
JuliaFromFile(file) == Opened("julia", file)
NliFromFile(file) == Opened("nli", file)

\* input_name_mismatch: a tower demands exactly the inputs it is served with.
DemandsExactly(demanded, required) == demanded = required

VisionFromFile(file) ==
    IF file.loads /\ ~DemandsExactly(file.demands, {"pixel_values"}) THEN Err("backend")
    ELSE Opened("vision", file)

\* A text tower also remembers whether it is to be sent the mask.
TextFromFile(file) ==
    IF file.loads /\ ~DemandsExactly(file.demands, {"input_ids"}) THEN Err("backend")
    ELSE Opened("text", file)
DemandsMask(file) == "attention_mask" \in file.demands

-----------------------------------------------------------------------------
(* What a backend checks of the tensors it is given.                       *)

Given(t, names) == names \subseteq DOMAIN t

\* integral_i64 and mask_bool refuse nothing a tensor of tokens, positions or
\* marks holds.
Masked(t) == t.attention_mask.shape = t.input_ids.shape

KaiShapes(t) ==
    /\ Given(t, {"input_ids", "attention_mask", "answer_pos", "option_pos"})
    /\ Len(t.input_ids.shape) = 2 /\ Masked(t)
    /\ Len(t.option_pos.shape) = 2 /\ t.option_pos.shape[1] = t.input_ids.shape[1]
    /\ t.answer_pos.shape = <<t.input_ids.shape[1]>>

JuliaShapes(t) ==
    /\ Given(t, {"input_ids", "attention_mask", "option_pos", "marker_mask", "qtype"})
    /\ Len(t.input_ids.shape) = 2 /\ Masked(t)
    /\ Len(t.option_pos.shape) = 2 /\ t.option_pos.shape[1] = t.input_ids.shape[1]
    /\ t.marker_mask.shape = t.option_pos.shape /\ t.qtype.shape = <<t.input_ids.shape[1]>>

NliShapes(t) ==
    Given(t, {"input_ids", "attention_mask"}) /\ Masked(t) /\ Len(t.input_ids.shape) = 2

\* validate_id_inputs: the mask is optional, unless the graph demands it.
TextShapes(t, demands) ==
    /\ Given(t, {"input_ids"} \cup IF demands THEN {"attention_mask"} ELSE {})
    /\ Len(t.input_ids.shape) = 2
    /\ "attention_mask" \in DOMAIN t => Masked(t)

\* validate_pixel_values: [batch, 3, height, width].
VisionShapes(t) ==
    Given(t, {"pixel_values"}) /\ Len(t.pixel_values.shape) = 4 /\ t.pixel_values.shape[2] = 3

-----------------------------------------------------------------------------
(* The graph (external).                                                   *)

BatchOf(kind, t) == IF kind = "pixels" THEN t.pixel_values.shape[1] ELSE t.input_ids.shape[1]
Pointed(kind) == kind \in {"kai", "julia"}
Width(kind, t) ==
    IF Pointed(kind) THEN t.option_pos.shape[2] ELSE IF kind = "nli" THEN EntailColumn ELSE Dims

\* What row r of the output is computed from.
Attended(kind, t, r) ==
    IF kind = "pixels"
    THEN LET plane == Product(Tail(t.pixel_values.shape))
         IN  SubSeq(t.pixel_values.data, r * plane + 1, (r + 1) * plane)
    ELSE LET ids == RowOf(t.input_ids, r)
             seen == {i \in DOMAIN ids :
                        "attention_mask" \in DOMAIN t => RowOf(t.attention_mask, r)[i] = 1}
             at(k) == CHOOSE i \in seen : Cardinality({j \in seen : j <= i}) = k
         IN  [k \in 1 .. Cardinality(seen) |-> ids[at(k)]]

Cell(kind, t, r, c) ==
    [ids |-> Attended(kind, t, r),
     pointer |-> IF Pointed(kind) THEN RowOf(t.option_pos, r)[c] ELSE c,
     answer |-> IF kind = "kai" THEN t.answer_pos.data[r + 1] ELSE 0]

\* How a run may end, besides a panic: in an error or without the output, with
\* a row or a column too few, with a value that is not finite.
Outcomes == {"good", "fails", "short", "narrow", "nan"}
Produced(outcome, kind, t) ==
    LET rows == BatchOf(kind, t) - (IF outcome = "short" THEN 1 ELSE 0)
        width == Width(kind, t) - (IF outcome = "narrow" THEN 1 ELSE 0)
        cell(n) == IF outcome = "nan" /\ n = 1 THEN NaN
                   ELSE Cell(kind, t, (n - 1) \div width, ((n - 1) % width) + 1)
    IN  IF outcome = "fails" THEN Err("backend")
        ELSE Tensor(<<rows, width>>, [n \in 1 .. rows * width |-> cell(n)])

-----------------------------------------------------------------------------
(* infer, past the lock.                                                   *)

\* What a session produced, unless it has not the shape it should.
Checked(out, Fits(_)) == IF out.ok /\ ~Fits(out.value.shape) THEN Err("backend") ELSE out

KaiInfer(outcome, t) ==
    Checked(Produced(outcome, "kai", t), LAMBDA shape : shape = <<t.input_ids.shape[1], t.option_pos.shape[2]>>)
JuliaInfer(outcome, t) ==
    Checked(Produced(outcome, "julia", t), LAMBDA shape : shape = <<t.input_ids.shape[1], t.option_pos.shape[2]>>)
NliInfer(outcome, t) ==
    Checked(Produced(outcome, "nli", t), LAMBDA shape : shape[1] = t.input_ids.shape[1])
TextInfer(outcome, t) ==
    Checked(Produced(outcome, "siglip", t), LAMBDA shape : shape[1] = t.input_ids.shape[1])
VisionInfer(outcome, t) ==
    Checked(Produced(outcome, "pixels", t), LAMBDA shape : shape[1] = t.pixel_values.shape[1])
==============================================================================
