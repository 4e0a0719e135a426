--------------------------- MODULE DecisionSurfaces ---------------------------
(***************************************************************************)
(* The surfaces over one engine: the HTTP server with its blocking tasks,  *)
(* its evidence file and its shutdown, the MCP tools, the C ABI with its   *)
(* error slot per thread, the WASM binding, the command line and hosts of  *)
(* the library.  Callers make one call each, side by side.  What the       *)
(* engine decides is left open here; the modules of the engine say how it  *)
(* decides.                                                                *)
(***************************************************************************)
EXTENDS SurfaceReplies

CONSTANTS
    Callers,        \* clients and threads, numbered from 1
    JobTable,       \* the calls that can be made, by number
    Crowds,         \* who makes which call, side by side
    Launches,       \* flags the servers may be launched with
    Budget,         \* DEFAULT_ESCALATION_BUDGET_BYTES
    Guidance,       \* the guidance of every report: the widths of its characters
    Evidence,       \* what a run may have gathered: [trace, in, out]
    EngineFaults    \* codes a run of the engine may fail with

ASSUME SurfacesAssumption ==
    /\ Callers \subseteq Nat \ {0}
    /\ Crowds \subseteq [Callers -> DOMAIN JobTable]
    /\ \A n \in DOMAIN JobTable : JobTable[n].surface \in
         {"none", "http", "mcp", "ffi", "wasm", "cli", "library"}
    /\ Budget \in Nat

\* Documents are of their grammar, whatever they say; no fault of a run is
\* reported as an error of the IR but one of the IR.
ASSUME DocumentsAssumption ==
    /\ \A n \in DOMAIN JobTable : JobTable[n].surface # "none" => IsJob(JobTable[n])
    /\ \A flags \in Launches : FlagsFit(flags)
    /\ "ir.invalid" \notin EngineFaults

\* A character of UTF-8 has one to four bytes; evidence that says nothing is
\* not gathered.
ASSUME ReportAssumption ==
    /\ Guidance \in Seq(1..4) /\ Guidance # <<>>
    /\ \A e \in Evidence : e.trace \in Nat /\ e.in \in Seq(Nat \ {Empty}) /\ e.out \in Seq(Nat \ {Empty})

VARIABLES
    server,     \* "starting", "serving", "draining", "stopped" or "refused"
    served,     \* the HTTP server's engine
    calls,      \* per caller: stage, job, connected, engine, what it asks, what was decided, the reply
    sink,       \* the evidence file: enabled, lock (0: free), file
    lastError   \* the C ABI's LAST_ERROR, one slot per thread

vars == <<server, served, calls, sink, lastError>>

Job(c) == calls[c].job
Request(c, i) == calls[c].asked.v[i]
Count(c) == Len(calls[c].asked.v)

\* Marks in the evidence file; a row is the number of its caller.
Newline == 0
Fragment == -1

CallOf(job) ==
    [stage |-> "idle", job |-> job, connected |-> TRUE, engine |-> Err("absent"), asked |-> Ok(<<>>),
     decided |-> <<>>, reply |-> {}]

-----------------------------------------------------------------------------
(* The engine behind the handle.                                           *)

\* The distributions a rung may put over n options.
Masses(n) ==
    {[i \in 1..n |-> IF i = k THEN One ELSE 0] : k \in {1, n}} \cup
    IF n = 1 THEN {} ELSE {[i \in 1..n |-> CASE i = n -> (3 * One) \div 4 [] i = n - 1 -> One \div 4 [] OTHER -> 0]}

AnswersTo(q) ==
    IF q.kind = "boolean" THEN {Answer(q, value, 0, (3 * One) \div 4, <<>>) : value \in {0, 1}}
    ELSE {LET entries == [i \in DOMAIN m |-> <<q.options[i], m[i]>>]
              expected == FoldFunction(LAMBDA e, sum : e + sum, 0, [i \in DOMAIN m |-> (i - 1) * m[i]])
          IN  IF q.kind = "choice" THEN Answer(q, TopOf(entries)[1], 0, TopOf(entries)[2], entries)
              ELSE Answer(q, LevelFor(q.options, expected), expected, TopOf(entries)[2], entries)
            : m \in Masses(Len(q.options))}

\* Every question answered.
AnswerSets(questions) ==
    {answers \in [DOMAIN questions -> UNION {AnswersTo(questions[i]) : i \in DOMAIN questions}] :
       \A i \in DOMAIN questions : answers[i] \in AnswersTo(questions[i])}

EscalationReport(request, answers, evidence) ==
    FitTo([text |-> Head(request.questions).text, truncated |-> FALSE, guidance |-> Guidance,
           trace |-> evidence.trace, in |-> evidence.in, out |-> evidence.out,
           threshold |-> Or(request.policy.escalate, Head(answers).confidence),
           observed |-> Head(answers).confidence, model |-> 1, partial |-> {Head(answers).probability}],
          Budget)

\* What decide makes of answers it will not stand by.
Escalated(request, answers, evidence) ==
    Then(NewResponse(answers, "escalate"), LAMBDA response :
      WithEscalation(response, EscalationReport(request, answers, evidence)))

\* EngineError::code of an error of the IR.
Coded(r) == IF r.ok THEN r ELSE Err("ir.invalid")

\* The engine a call is decided by: graph_run builds one of its own, the
\* servers and the bindings hold one, the command line assembles one a call.
Engines(job) ==
    IF job.op = "graph_run" THEN {Ephemeral(job.graph)}
    ELSE CASE job.surface = "http" -> {Ok(engine) : engine \in served}
           [] job.surface = "mcp" -> {r \in {HandleOf(flags, {}) : flags \in Launches} : r.ok}
           [] job.surface \in {"ffi", "wasm"} -> {Lexical(EngineConfig(Pipeline))}
           [] job.surface = "cli" -> {HandleOf(job.flags, job.flags.vision)}
           [] job.surface = "library" ->
                {WithRungs(EngineConfig(Pipeline), SolverOverLexical, NoLadder, VisionRung({TRUE}).v)}

Admit(c, request) == Then(calls[c].engine, LAMBDA engine : Validate(engine, request))

-----------------------------------------------------------------------------
(* The ends of calls.                                                      *)

\* Mutant: one slot for all threads.
SetLastErrorEverywhere(c, code) == lastError' = [d \in Callers |-> {code}]

SetLastError(c, code) == lastError' = [lastError EXCEPT ![c] = {code}]

Reply(c, reply) ==
    /\ calls' = [calls EXCEPT ![c].stage = "ended", ![c].reply = {reply}]
    /\ IF Job(c).surface = "ffi" /\ ~reply.ok THEN SetLastError(c, reply.code) ELSE UNCHANGED lastError

Stage(c, stage) == calls' = [calls EXCEPT ![c].stage = stage]

-----------------------------------------------------------------------------
(* The server.                                                             *)

\* The flags assemble an engine or do not, a signal already raised ends the
\* server before it binds, and the address may be taken.
Start ==
    /\ server = "starting"
    /\ \E flags \in Launches, raised, free \in BOOLEAN :
         LET engine == Assemble(flags)
             up == engine.ok /\ ~raised /\ free
         IN  /\ server' = IF up THEN "serving" ELSE IF engine.ok /\ raised THEN "stopped" ELSE "refused"
             /\ served' = IF up THEN {engine.v} ELSE {}
    /\ UNCHANGED <<calls, sink, lastError>>

ShutdownSignal ==
    /\ server = "serving"
    /\ server' = "draining"
    /\ UNCHANGED <<served, calls, sink, lastError>>

\* A call on a connection that waits for it.
Held(c) ==
    /\ calls[c].stage \notin {"idle", "ended"}
    /\ Job(c).surface = "http"
    /\ calls[c].connected

\* The server ends once every connection it holds has been answered.
Stop ==
    /\ server = "draining"
    /\ \A c \in Callers : ~Held(c)
    /\ server' = "stopped"
    /\ UNCHANGED <<served, calls, sink, lastError>>

-----------------------------------------------------------------------------
(* A call.                                                                 *)

Begin(c) ==
    /\ calls[c].stage = "idle"
    /\ Job(c).surface # "none"
    /\ Job(c).surface = "http" => server = "serving"
    /\ \E engine \in Engines(Job(c)) :
         calls' = [calls EXCEPT ![c].stage = "arrived", ![c].engine = engine, ![c].asked = Requests(Job(c))]
    /\ UNCHANGED <<server, served, sink, lastError>>

\* The handler up to its first await: it refuses, answers what needs no
\* decision, or hands the work over.
Handle(c) ==
    LET job == Job(c)
        asked == calls[c].asked
    IN  /\ calls[c].stage = "arrived"
        /\ \/ /\ job.op = "feedback" /\ job.valid /\ ~sink.enabled
              /\ Reply(c, HttpFailure("FeedbackDisabled", ""))
           \/ /\ ~asked.ok
              /\ ~(job.op = "feedback" /\ job.valid /\ ~sink.enabled)
              /\ Reply(c, Refusal(job, asked.code))
           \/ /\ asked.ok /\ job.op \in Immediate
              /\ Reply(c, Success(200, ImmediateDocument(job, asked.v, calls[c].engine.v)))
           \/ /\ asked.ok /\ job.op = "feedback" /\ sink.enabled
              /\ Stage(c, "waiting") /\ UNCHANGED lastError
           \/ /\ asked.ok
              /\ job.op \notin Immediate \cup {"feedback"}
              /\ Stage(c, "working") /\ UNCHANGED lastError
        /\ UNCHANGED <<server, served, sink>>

\* One request decided; a batch takes them in order, and a refused item is
\* an item like any other.  The engine abstains, fails, accepts its answers
\* or escalates them.
Work(c) ==
    LET i == Len(calls[c].decided) + 1
        take(r) == calls' = [calls EXCEPT ![c].decided = Append(@, r)]
        request == Request(c, i).v
        admitted == Request(c, i).ok /\ Admit(c, request).ok
    IN  /\ calls[c].stage = "working"
        /\ i <= Count(c)
        /\ \/ ~admitted /\ take(IF Request(c, i).ok THEN Admit(c, request) ELSE Request(c, i))
           \/ admitted /\ take(NewResponse(<<>>, "abstain"))
           \/ admitted /\ \E code \in EngineFaults : take(Err(code))
           \/ admitted /\ \E answers \in AnswerSets(request.questions) :
                             take(Coded(NewResponse(answers, "accept")))
           \/ admitted /\ \E answers \in AnswerSets(request.questions), evidence \in Evidence :
                             take(Coded(Escalated(request, answers, evidence)))
        /\ UNCHANGED <<server, served, sink, lastError>>

\* Mutant: the failed task is unwrapped, its panic goes on in the handler.
PanicUnanswered(c) ==
    /\ calls[c].stage = "working"
    /\ Job(c).surface \in {"http", "ffi"}
    /\ Len(calls[c].decided) < Count(c)
    /\ Stage(c, "ended") /\ UNCHANGED lastError
    /\ UNCHANGED <<server, served, sink>>

Panic(c) ==
    /\ calls[c].stage = "working"
    /\ Job(c).surface \in {"http", "ffi"}
    /\ Len(calls[c].decided) < Count(c)
    /\ Reply(c, Panicked(Job(c)))
    /\ UNCHANGED <<server, served, sink>>

Finish(c) ==
    /\ calls[c].stage = "working"
    /\ Len(calls[c].decided) = Count(c)
    /\ Reply(c, Answered(Job(c), calls[c].decided, calls[c].engine))
    /\ UNCHANGED <<server, served, sink>>

-----------------------------------------------------------------------------
(* Feedback: a row and its newline are two writes under one lock.          *)

\* Mutant: the lock is taken as if it were free.
TakeSinkAnyway(c) ==
    /\ calls[c].stage = "waiting"
    /\ sink' = [sink EXCEPT !.lock = c]
    /\ Stage(c, "writing")
    /\ UNCHANGED <<server, served, lastError>>

TakeSink(c) ==
    /\ calls[c].stage = "waiting"
    /\ sink.lock = 0
    /\ sink' = [sink EXCEPT !.lock = c]
    /\ Stage(c, "writing")
    /\ UNCHANGED <<server, served, lastError>>

WriteRow(c) ==
    /\ calls[c].stage = "writing"
    /\ sink' = [sink EXCEPT !.file = Append(@, c)]
    /\ Stage(c, "ending")
    /\ UNCHANGED <<server, served, lastError>>

WriteNewline(c) ==
    /\ calls[c].stage = "ending"
    /\ sink' = [sink EXCEPT !.file = Append(@, Newline), !.lock = 0]
    /\ Reply(c, Success(201, 1))
    /\ UNCHANGED <<server, served>>

\* Mutant: the failure keeps the lock.
WriteFailsLocked(c) ==
    /\ calls[c].stage \in {"writing", "ending"}
    /\ Reply(c, HttpFailure("Serve", ""))
    /\ UNCHANGED <<server, served, sink>>

\* The file does not open, the row is written in part, or its newline is not.
WriteFails(c) ==
    /\ calls[c].stage \in {"writing", "ending"}
    /\ \E left \in IF calls[c].stage = "writing" THEN {<<>>, <<Fragment>>} ELSE {<<>>} :
         sink' = [sink EXCEPT !.file = @ \o left, !.lock = 0]
    /\ Reply(c, HttpFailure("Serve", ""))
    /\ UNCHANGED <<server, served>>

-----------------------------------------------------------------------------
(* Clients that go away, and the end of the process.                       *)

\* Before the handler ran the call is gone; after it, the task goes on alone.
Disconnect(c) ==
    /\ Held(c)
    /\ calls' = [calls EXCEPT ![c].connected = FALSE,
                              ![c].stage = IF @ = "arrived" THEN "ended" ELSE @]
    /\ UNCHANGED <<server, served, sink, lastError>>

\* Tasks the pool has not started are dropped with the runtime.
Abandon(c) ==
    /\ server = "stopped"
    /\ \/ calls[c].stage = "working" /\ calls[c].decided = <<>>
       \/ calls[c].stage = "waiting"
    /\ Job(c).surface = "http"
    /\ Stage(c, "ended")
    /\ UNCHANGED <<server, served, sink, lastError>>

Init ==
    /\ server = "starting" /\ served = {}
    /\ \E crowd \in Crowds : calls = [c \in Callers |-> CallOf(JobTable[crowd[c]])]
    /\ sink \in [enabled : BOOLEAN, lock : {0}, file : {<<>>}]
    /\ lastError = [c \in Callers |-> {}]

Step(c) ==
    \/ Handle(c)
    \/ Work(c)
    \/ Finish(c)
    \/ TakeSink(c)
    \/ WriteRow(c)
    \/ WriteNewline(c)

Next ==
    \/ Start
    \/ ShutdownSignal
    \/ Stop
    \/ \E c \in Callers :
         \/ Begin(c) \/ Step(c)
         \/ Panic(c) \/ WriteFails(c) \/ Disconnect(c) \/ Abandon(c)

\* A call that has begun is run by its thread or task to its end; nothing
\* promises a panic, a failed write, a disconnect or a signal.
Fairness ==
    /\ WF_vars(Stop)
    /\ \A c \in Callers : WF_vars(Step(c))

Spec == Init /\ [][Next]_vars /\ Fairness

-----------------------------------------------------------------------------
(* Properties.                                                             *)

Decided(c) == {i \in DOMAIN calls[c].decided : calls[c].decided[i].ok}

\* A question the IR could have built, within the server's ceilings.
LegalQuestion(q) ==
    /\ q.id # Empty /\ q.text # Empty
    /\ Cardinality(Range(q.options)) = Len(q.options)
    /\ q.kind = "choice" => Len(q.options) \in 1..Limits.candidates
    /\ q.kind = "score" => Len(q.options) >= 2

\* Whatever the surface and the format, through a definition of the registry
\* too, the engine is handed only requests inside the server's own ceilings:
\* text, images, questions and candidates counted, no option twice, the
\* policy's thresholds in order.  (`Limits` at every decode_request call.)
OnlyLegalRequestsDecided ==
    \A c \in Callers :
      \A i \in DOMAIN calls[c].decided : Request(c, i).ok =>
        LET r == Request(c, i).v
        IN  /\ r.state.text <= Limits.input_bytes
            /\ Len(r.state.images) <= Limits.images
            /\ \A n \in Range(r.state.images) : n \in 0..Limits.image_bytes
            /\ Len(r.questions) \in 1..Limits.questions
            /\ \A q \in Range(r.questions) : LegalQuestion(q)
            /\ r.policy.abstain <= r.policy.verify /\ r.policy.verify <= r.policy.min
            /\ \A l \in LimitNames : r.limits[l] <= Limits[l]

\* Read through serde_json::Value, a Jev request has its criteria sorted.
OptionsAsked(job, meant) ==
    IF job.format = "jev" /\ job.op # "decode_str" THEN Sorted(Range(meant.options)) ELSE meant.options

\* A request a client encodes in a vendor's format is the request the server
\* decides: the same text, the same images (Jev carries none), the same
\* questions in whatever order, each with its options in the client's order.
\* Only over Jev's Value path, the one HTTP takes, are they asked in sorted
\* order instead: a choice is none the worse, the levels of a score are
\* another scale.  (encode_request against decode_request of every adapter,
\* and Jev's encode_request_str against decode_request_str.)
AsksWhatWasMeant ==
    \A c \in Callers : calls[c].stage = "working" =>
      \A meant \in Job(c).meant :
        LET got == Request(c, 1).v
        IN  /\ got.state.text = meant.state.text
            /\ Job(c).format # "jev" => got.state.images = meant.state.images
            /\ Len(got.questions) = Len(meant.questions)
            /\ \A i \in DOMAIN meant.questions : \E j \in DOMAIN got.questions :
                 LET q == got.questions[j]
                     m == meant.questions[i]
                 IN  /\ q.id = m.id /\ q.kind = m.kind /\ q.text = m.text
                     /\ q.options = OptionsAsked(Job(c), m)

\* Ids an envelope of the vendor would take for its own.
Reserved(format) ==
    CASE format = "openai" -> {Envelope.output}
      [] format = "anthropic" -> {Envelope.content, Envelope.type}
      [] OTHER -> {}

\* The request a client holds the reply against: the one it wrote, where the
\* job says what that was.
HeldAgainst(job, request) == IF job.meant = {} THEN request ELSE Or(job.meant, request)

\* What the client, who asked `meant`, reads is the answer the engine gave to
\* `asked`: a choice or a verdict as it is; a score by its place.  The place
\* is the engine's level, or the one above it when the format carries an
\* integer and the mean lies half a level or more above that level; under Jev
\* every level has the weight of the engine's level in its place.  So the
\* client reads the engine's own level unless the mean is rounded up, or the
\* client lists its levels in another order than they were asked in.
Agrees(format, got, a, asked, meant) ==
    LET place == CHOOSE i \in DOMAIN asked.options : asked.options[i] = a.value
        up == format # "jev" /\ 2 * (a.expected % One) >= One
    IN  /\ got.kind = a.kind
        /\ a.kind # "score" => got.value = a.value
        /\ a.kind = "score" =>
             /\ got.value = meant.options[IF up THEN place + 1 ELSE place]
             /\ got.expected = IF format = "jev" THEN a.expected ELSE Rounded(a.expected) * One
             /\ format = "jev" => got.entries = [i \in DOMAIN a.entries |-> <<meant.options[i], a.entries[i][2]>>]
        /\ format = "jev" /\ a.kind # "choice" => got.probability = a.probability

\* Every decision that answers its whole request reaches a client that speaks
\* the same format: the reply, held against the request the client wrote,
\* decodes question by question to what the engine answered (`Agrees`); a
\* native reply is the response itself, report included, on the command line
\* even when its exit code says that it is not decisive.
\* (encode_response on the server, decode_response in the client; a level
\* rounded up is against the comment at openai.rs:547, an order of levels lost
\* against jev.rs:54.)
ClientReadsTheDecision ==
    \A c \in Callers : \A reply \in calls[c].reply :
      LET job == Job(c)
          format == FormatOf(job)
      IN  job.op \in {"decide", "chat", "batch", "graph_run", "verify", "explain"} /\ "v" \in DOMAIN reply =>
            \A i \in Decided(c) :
              LET request == Request(c, i).v
                  wrote == HeldAgainst(job, request)
                  response == calls[c].decided[i].v
                  got == DecodeResponse(format, PayloadOf(job, reply.v, i), wrote)
              IN  IF format = "native" THEN got = Ok(response)
                  ELSE /\ Len(response.answers) = Len(request.questions)
                       /\ Ids(request.questions) \cap Reserved(format) = {}
                       => /\ got.ok /\ Ids(got.v.answers) = Ids(response.answers)
                          /\ \A a \in Range(response.answers) :
                               Agrees(format, Of(got.v.answers, a.id), a,
                                      Of(request.questions, a.id), Of(wrote.questions, a.id))

\* A report leaves the engine valid, and within the budget unless nothing is
\* left in it to cut: no trace, no evidence, one character of guidance.
\* (EscalationReport::fit_to cuts, with_escalation checks, the caller gets
\* an error instead of its escalation when the two disagree.)
EscalationFits ==
    \A c \in Callers : \A i \in DOMAIN calls[c].decided :
      LET r == calls[c].decided[i]
      IN  /\ ~r.ok => r.code # "ir.invalid"
          /\ r.ok => \A e \in r.v.escalation :
               \/ SerializedLen(e) <= Budget
               \/ e.trace = 0 /\ e.in = <<>> /\ e.out = <<>> /\ Len(e.guidance) = 1

\* A row whose writer was told 201 stands in the evidence file once, whole
\* and with its newline right behind it, however many writers there were and
\* whichever of them failed.  (feedback_handler.)
AcknowledgedRowsAreWhole ==
    \A c \in Callers :
      (\E reply \in calls[c].reply : reply.status = 201) =>
        LET rows == {i \in DOMAIN sink.file : sink.file[i] = c}
        IN  Cardinality(rows) = 1 /\ \A i \in rows : i < Len(sink.file) /\ sink.file[i + 1] = Newline

\* oc_last_error after a failed call gives that call's error, whatever other
\* threads failed with in the meantime, and nothing to a thread that has not
\* failed.
LastErrorIsOwn ==
    \A c \in Callers : lastError[c] =
      IF calls[c].stage = "ended" /\ Job(c).surface = "ffi"
      THEN {reply.code : reply \in {r \in calls[c].reply : ~r.ok}} ELSE {}

\* Everything a call asked for was done: each request was decided, and a
\* call for one decision was not refused it.
Complete(c) ==
    /\ calls[c].asked.ok
    /\ Job(c).op \notin Immediate =>
         /\ Len(calls[c].decided) = Count(c)
         /\ Job(c).op # "batch" => calls[c].decided[1].ok

\* The reply carries a document exactly when there is a whole one to carry:
\* a batch an item for every item, refused ones included.
InFull(c, reply) ==
    Job(c).op # "feedback" =>
      /\ "v" \in DOMAIN reply <=> Complete(c)
      /\ "v" \in DOMAIN reply /\ Job(c).op = "batch" => DOMAIN reply.v.results = 1..Count(c)

\* A client that stays is answered, when its call ends and at the latest when
\* the server has stopped: not dropped by a panic, a failed write or the end
\* of the runtime, never with part of a batch, never with an error for what
\* was decided whole.  That the server stops only when its connections are
\* done is axum's; what each of them was told is the code's.  (The
\* spawn_blocking of every handler of routes.rs, serve_with_shutdown, the
\* panic guard of the C ABI.)
ClientsAreAnsweredInFull ==
    \A c \in Callers :
      /\ calls[c].connected
      /\ calls[c].stage = "ended" \/ (server = "stopped" /\ Job(c).surface = "http" /\ calls[c].stage # "idle")
      => \E reply \in calls[c].reply : InFull(c, reply)

\* Every call that has begun ends, the ones waiting for the evidence file and
\* the ones nobody waits for any more included, and a server told to stop
\* stops.
EveryCallEnds ==
    /\ \A c \in Callers : calls[c].stage # "idle" ~> calls[c].stage = "ended"
    /\ server = "draining" ~> server = "stopped"
=============================================================================
