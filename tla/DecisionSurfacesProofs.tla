------------------------ MODULE DecisionSurfacesProofs ------------------------
(***************************************************************************)
(* Proofs about the calls that share the HTTP server, its evidence file    *)
(* and the error slots of the C ABI, and about the documents they carry:   *)
(* for any number of callers and calls, every document, and whatever the   *)
(* engine decides.                                                         *)
(***************************************************************************)
EXTENDS DecisionSurfaces, FiniteOrder, SequenceTheorems

Surfaces == {"none", "http", "mcp", "ffi", "wasm", "cli", "library"}
Stages == {"idle", "arrived", "waiting", "working", "writing", "ending", "ended"}

\* A call has seven parts.
IsCall(k) == DOMAIN k = {"stage", "job", "connected", "engine", "asked", "decided", "reply"}

\* What every variable is made of.
SurfacesShape ==
    /\ server \in {"starting", "serving", "draining", "stopped", "refused"}
    /\ calls = [c \in Callers |-> calls[c]]
    /\ \A c \in Callers :
         /\ IsCall(calls[c])
         /\ calls[c].stage \in Stages
         /\ Job(c).surface \in Surfaces
         /\ calls[c].stage # "idle" => Job(c).surface # "none"
    /\ DOMAIN sink = {"enabled", "lock", "file"}
    /\ sink.lock \in {0} \cup Callers
    /\ sink.file \in Seq(Int)
    /\ lastError = [c \in Callers |-> lastError[c]]

\* A server that does not serve holds nobody, unless it drains.
NobodyHeld == server \in {"starting", "stopped", "refused"} => \A c \in Callers : ~Held(c)

\* A call has its reply when it has ended.
RepliesEnd == \A c \in Callers : calls[c].stage # "ended" => calls[c].reply = {}

\* The evidence file is written by the holder of its lock.
WriterHoldsLock == \A c \in Callers : calls[c].stage \in {"writing", "ending"} => sink.lock = c

\* Where the rows of a caller stand.
RowsOf(c) == {i \in DOMAIN sink.file : sink.file[i] = c}

\* Nobody has a row before writing one; between its two writes the row is the
\* end of the file; once acknowledged, it stands in front of a newline.
RowsRight(c) ==
    /\ calls[c].stage \in {"idle", "arrived", "waiting", "working", "writing"} => RowsOf(c) = {}
    /\ calls[c].stage = "ending" => RowsOf(c) = {Len(sink.file)}
    /\ (\E reply \in calls[c].reply : reply.status = 201) =>
          \E i \in 1 .. Len(sink.file) - 1 : RowsOf(c) = {i} /\ sink.file[i + 1] = Newline

RowsInOrder == \A c \in Callers : RowsRight(c)

\* The inductive invariant.
SurfacesInv ==
    /\ SurfacesShape
    /\ NobodyHeld
    /\ RepliesEnd
    /\ LastErrorIsOwn
    /\ WriterHoldsLock
    /\ RowsInOrder

-----------------------------------------------------------------------------
(* What a step does to the calls.                                          *)

\* Nothing but the call of c changes.
OthersWait(c) ==
    /\ calls' = [d \in Callers |-> calls'[d]]
    /\ \A d \in Callers \ {c} : calls'[d] = calls[d]

\* The call of c keeps its job and its connection.
SameJob(c) == IsCall(calls'[c]) /\ calls'[c].job = calls[c].job

LEMMA StageIs ==
  ASSUME SurfacesShape, NEW c \in Callers, NEW s, Stage(c, s)
  PROVE  /\ OthersWait(c) /\ SameJob(c)
         /\ calls'[c].stage = s /\ calls'[c].connected = calls[c].connected
         /\ calls'[c].reply = calls[c].reply
  <1>1. calls' = [calls EXCEPT ![c] = [calls[c] EXCEPT !.stage = s]]
    BY DEF SurfacesShape, Stage
  <1>2. OthersWait(c) /\ calls'[c] = [calls[c] EXCEPT !.stage = s]
    BY <1>1 DEF SurfacesShape, OthersWait
  <1> QED
    BY <1>2 DEF SurfacesShape, SameJob, IsCall

LEMMA ReplyIs ==
  ASSUME SurfacesShape, NEW c \in Callers, NEW r, Reply(c, r)
  PROVE  /\ OthersWait(c) /\ SameJob(c)
         /\ calls'[c].stage = "ended" /\ calls'[c].connected = calls[c].connected
         /\ calls'[c].reply = {r}
         /\ lastError' = [d \in Callers |-> lastError'[d]]
         /\ \A d \in Callers \ {c} : lastError'[d] = lastError[d]
         /\ lastError'[c] = IF Job(c).surface = "ffi" /\ ~r.ok THEN {r.code} ELSE lastError[c]
  <1>1. calls' = [calls EXCEPT ![c] = [calls[c] EXCEPT !.stage = "ended", !.reply = {r}]]
    BY DEF SurfacesShape, Reply
  <1>2. OthersWait(c) /\ calls'[c] = [calls[c] EXCEPT !.stage = "ended", !.reply = {r}]
    BY <1>1 DEF SurfacesShape, OthersWait
  <1>3. /\ SameJob(c)
        /\ calls'[c].stage = "ended" /\ calls'[c].connected = calls[c].connected
        /\ calls'[c].reply = {r}
    BY <1>2 DEF SurfacesShape, SameJob, IsCall
  <1>4. lastError' = IF Job(c).surface = "ffi" /\ ~r.ok THEN [lastError EXCEPT ![c] = {r.code}] ELSE lastError
    BY DEF Reply, SetLastError
  <1>5. lastError = [d \in Callers |-> lastError[d]]
    BY DEF SurfacesShape
  <1>6. lastError' = [d \in Callers |-> lastError'[d]]
    BY <1>4, <1>5
  <1>7. /\ \A d \in Callers \ {c} : lastError'[d] = lastError[d]
        /\ lastError'[c] = IF Job(c).surface = "ffi" /\ ~r.ok THEN {r.code} ELSE lastError[c]
    BY <1>4, <1>5
  <1> QED
    BY <1>2, <1>3, <1>6, <1>7
-----------------------------------------------------------------------------
(* The parts of the invariant, from what a step does to one call.          *)

\* A step of one call, of its error slot and of the evidence file.
CallMoves(c) ==
    /\ OthersWait(c) /\ SameJob(c)
    /\ calls'[c].stage \in Stages
    /\ server' = server

\* No step opens a connection but the beginning of a call while the server
\* serves.
LEMMA NobodyHeldKept ==
  ASSUME SurfacesShape, NobodyHeld, NEW c \in Callers, CallMoves(c),
         \/ server = "serving"
         \/ Held(c)
         \/ calls'[c].stage = "ended"
         \/ calls[c].stage # "idle" /\ calls[c].stage # "ended" /\ calls'[c].connected = calls[c].connected
         \/ Job(c).surface # "http"
  PROVE  NobodyHeld'
  <1>1. ASSUME NEW d \in Callers, server \in {"starting", "stopped", "refused"} PROVE ~Held(d)'
    <2>1. ~Held(d) /\ ~Held(c)
      BY <1>1 DEF NobodyHeld
    <2>2. CASE d = c
      BY <1>1, <2>1, <2>2 DEF CallMoves, SameJob, Held, Job
    <2>3. CASE d # c
      BY <1>1, <2>1, <2>3 DEF CallMoves, OthersWait, Held, Job
    <2> QED
      BY <2>2, <2>3
  <1> QED
    BY <1>1 DEF NobodyHeld, CallMoves

\* The shape of the calls.
LEMMA ShapeKept ==
  ASSUME SurfacesShape, NEW c \in Callers, CallMoves(c),
         DOMAIN sink' = {"enabled", "lock", "file"},
         sink'.lock \in {0} \cup Callers, sink'.file \in Seq(Int),
         lastError' = [d \in Callers |-> lastError'[d]],
         calls[c].stage # "idle" \/ Job(c).surface # "none"
  PROVE  SurfacesShape'
  <1>1. ASSUME NEW d \in Callers
        PROVE  /\ IsCall(calls'[d]) /\ calls'[d].stage \in Stages /\ Job(d)'.surface \in Surfaces
               /\ calls'[d].stage # "idle" => Job(d)'.surface # "none"
    <2>1. CASE d = c
      BY <2>1 DEF CallMoves, SameJob, Job, SurfacesShape
    <2>2. CASE d # c
      BY <2>2 DEF CallMoves, OthersWait, Job, SurfacesShape
    <2> QED
      BY <2>1, <2>2
  <1> QED
    BY <1>1 DEF SurfacesShape, CallMoves, OthersWait

\* The call of c goes on, or ends without a reply, which no call of the C ABI
\* does.
Goes(c) ==
    /\ CallMoves(c)
    /\ lastError' = lastError
    /\ calls[c].stage # "ended"
    /\ calls'[c].reply = calls[c].reply
    /\ calls'[c].stage # "ended" \/ Job(c).surface # "ffi"

\* The call of c ends with the reply r.
Ends(c, r) ==
    /\ CallMoves(c)
    /\ calls[c].stage # "ended" /\ calls'[c].stage = "ended"
    /\ calls'[c].reply = {r}
    /\ \A d \in Callers \ {c} : lastError'[d] = lastError[d]
    /\ lastError'[c] = IF Job(c).surface = "ffi" /\ ~r.ok THEN {r.code} ELSE lastError[c]

LEMMA GoingKeepsReplies ==
  ASSUME SurfacesShape, RepliesEnd, LastErrorIsOwn, NEW c \in Callers, Goes(c)
  PROVE  RepliesEnd' /\ LastErrorIsOwn'
  <1>1. RepliesEnd'
    BY DEF RepliesEnd, Goes, CallMoves, OthersWait
  <1>2. lastError[c] = {}
    BY DEF LastErrorIsOwn, Goes
  <1>3. \A d \in Callers : Job(d)' = Job(d)
    BY DEF Goes, CallMoves, OthersWait, SameJob, Job
  <1>4. ASSUME NEW d \in Callers
        PROVE  lastError'[d] = IF calls'[d].stage = "ended" /\ Job(d)'.surface = "ffi"
                               THEN {reply.code : reply \in {r \in calls'[d].reply : ~r.ok}} ELSE {}
    <2>1. CASE d = c
      BY <1>2, <1>3, <2>1 DEF Goes
    <2>2. CASE d # c
      <3>1. calls'[d] = calls[d] /\ lastError'[d] = lastError[d] /\ Job(d)' = Job(d)
        BY <1>3, <2>2 DEF Goes, CallMoves, OthersWait
      <3>2. lastError[d] = IF calls[d].stage = "ended" /\ Job(d).surface = "ffi"
                           THEN {reply.code : reply \in {r \in calls[d].reply : ~r.ok}} ELSE {}
        BY DEF LastErrorIsOwn
      <3> QED
        BY <3>1, <3>2
    <2> QED
      BY <2>1, <2>2
  <1> QED
    BY <1>1, <1>4 DEF LastErrorIsOwn

LEMMA EndingKeepsReplies ==
  ASSUME SurfacesShape, RepliesEnd, LastErrorIsOwn, NEW c \in Callers, NEW r, Ends(c, r)
  PROVE  RepliesEnd' /\ LastErrorIsOwn'
  <1>1. RepliesEnd'
    BY DEF RepliesEnd, Ends, CallMoves, OthersWait
  <1>2. lastError[c] = {}
    BY DEF LastErrorIsOwn, Ends
  <1>3. \A d \in Callers : Job(d)' = Job(d)
    BY DEF Ends, CallMoves, OthersWait, SameJob, Job
  <1>4. ASSUME NEW d \in Callers
        PROVE  lastError'[d] = IF calls'[d].stage = "ended" /\ Job(d)'.surface = "ffi"
                               THEN {reply.code : reply \in {p \in calls'[d].reply : ~p.ok}} ELSE {}
    <2>1. CASE d = c
      <3>1. calls'[d].stage = "ended" /\ calls'[d].reply = {r} /\ Job(d)' = Job(d)
        BY <1>3, <2>1 DEF Ends
      <3>2. lastError'[d] = IF Job(d).surface = "ffi" /\ ~r.ok THEN {r.code} ELSE {}
        BY <1>2, <2>1 DEF Ends
      <3>3. {reply.code : reply \in {p \in {r} : ~p.ok}} = IF ~r.ok THEN {r.code} ELSE {}
        OBVIOUS
      <3> QED
        BY <3>1, <3>2, <3>3
    <2>2. CASE d # c
      <3>1. calls'[d] = calls[d] /\ lastError'[d] = lastError[d] /\ Job(d)' = Job(d)
        BY <1>3, <2>2 DEF Ends, CallMoves, OthersWait
      <3>2. lastError[d] = IF calls[d].stage = "ended" /\ Job(d).surface = "ffi"
                           THEN {reply.code : reply \in {p \in calls[d].reply : ~p.ok}} ELSE {}
        BY DEF LastErrorIsOwn
      <3> QED
        BY <3>1, <3>2
    <2> QED
      BY <2>1, <2>2
  <1> QED
    BY <1>1, <1>4 DEF LastErrorIsOwn

\* The lock is taken when it is free and given back by its holder.
LEMMA WriterKept ==
  ASSUME WriterHoldsLock, NEW c \in Callers, CallMoves(c), 0 \notin Callers,
         sink'.lock = sink.lock \/ sink.lock \in {0, c},
         calls'[c].stage \in {"writing", "ending"} => sink'.lock = c
  PROVE  WriterHoldsLock'
  BY DEF WriterHoldsLock, CallMoves, OthersWait

\* The rows of others stay where they are.
LEMMA OtherRowsKept ==
  ASSUME SurfacesShape, WriterHoldsLock, RowsInOrder,
         NEW c \in Callers, NEW d \in Callers \ {c}, CallMoves(c),
         \/ sink'.file = sink.file
         \/ sink.lock = c /\ \E x \in {c, Newline, Fragment} : sink'.file = Append(sink.file, x)
  PROVE  RowsRight(d)'
  <1>1. calls'[d] = calls[d]
    BY DEF CallMoves, OthersWait
  <1>2. CASE sink'.file = sink.file
    BY <1>1, <1>2 DEF RowsInOrder, RowsRight, RowsOf
  <1>3. CASE sink.lock = c /\ \E x \in {c, Newline, Fragment} : sink'.file = Append(sink.file, x)
    <2>1. PICK x \in {c, Newline, Fragment} : sink'.file = Append(sink.file, x)
      BY <1>3
    <2>2. x # d /\ x \in Int
      BY SurfacesAssumption DEF Newline, Fragment
    <2>3. PICK f, g : f \in Seq(Int) /\ f = sink.file /\ g = sink'.file
      BY DEF SurfacesShape
    <2>4. /\ Len(g) = Len(f) + 1 /\ DOMAIN g = 1 .. Len(f) + 1 /\ DOMAIN f = 1 .. Len(f) /\ Len(f) \in Nat
          /\ \A i \in 1 .. Len(f) : g[i] = f[i]
          /\ g[Len(f) + 1] = x
      BY <2>1, <2>2, <2>3
    <2>5. RowsOf(d)' = RowsOf(d)
      <3>1. RowsOf(d) = {i \in 1 .. Len(f) : f[i] = d}
        BY <2>3, <2>4 DEF RowsOf
      <3>2. RowsOf(d)' = {i \in 1 .. Len(f) + 1 : g[i] = d}
        BY <2>3, <2>4 DEF RowsOf
      <3>3. {i \in 1 .. Len(f) + 1 : g[i] = d} = {i \in 1 .. Len(f) : f[i] = d}
        BY <2>2, <2>4
      <3> QED
        BY <3>1, <3>2, <3>3
    <2>6. calls[d].stage # "ending"
      BY <1>3 DEF WriterHoldsLock
    <2>7. ASSUME NEW i \in 1 .. Len(f) - 1 PROVE i \in 1 .. Len(g) - 1 /\ g[i + 1] = f[i + 1]
      BY <2>4
    <2>8. RowsRight(d)
      BY DEF RowsInOrder
    <2>9. ASSUME \E reply \in calls'[d].reply : reply.status = 201
          PROVE  \E i \in 1 .. Len(sink'.file) - 1 : RowsOf(d)' = {i} /\ sink'.file[i + 1] = Newline
      <3>1. PICK i \in 1 .. Len(f) - 1 : RowsOf(d) = {i} /\ f[i + 1] = Newline
        BY <1>1, <2>3, <2>8, <2>9 DEF RowsRight
      <3>2. i \in 1 .. Len(g) - 1 /\ RowsOf(d)' = {i} /\ g[i + 1] = Newline
        BY <2>5, <2>7, <3>1
      <3> QED
        BY <2>3, <3>2
    <2>10. calls'[d].stage \in {"idle", "arrived", "waiting", "working", "writing"} => RowsOf(d)' = {}
      BY <1>1, <2>5, <2>8 DEF RowsRight
    <2> QED
      BY <1>1, <2>6, <2>9, <2>10 DEF RowsRight
  <1> QED
    BY <1>2, <1>3

\* A call that has no row gets none, and one that ends silently says nothing of
\* its row.
LEMMA OwnRowsKept ==
  ASSUME RepliesEnd, NEW c \in Callers, RowsRight(c), Goes(c), sink'.file = sink.file,
         \/ calls'[c].stage = calls[c].stage
         \/ calls'[c].stage = "ended"
         \/ /\ calls[c].stage \in {"idle", "arrived", "waiting", "working", "writing"}
            /\ calls'[c].stage \in {"idle", "arrived", "waiting", "working", "writing"}
  PROVE  RowsRight(c)'
  <1>1. calls'[c].reply = {}
    BY DEF RepliesEnd, Goes
  <1>2. RowsOf(c)' = RowsOf(c)
    BY DEF RowsOf
  <1> QED
    BY <1>1, <1>2 DEF RowsRight, Goes

-----------------------------------------------------------------------------
(* Only a whole row is acknowledged.                                       *)

LEMMA FailuresAcknowledgeNothing ==
  ASSUME NEW v \in {"Schema", "Engine", "Serve", "FeedbackDisabled"}, NEW inner
  PROVE  HttpFailure(v, inner).status # 201
  BY DEF HttpFailure, Failure, HttpStatus

LEMMA RefusalsAcknowledgeNothing ==
  ASSUME NEW job, job.surface \in Surfaces \ {"none"}, NEW code
  PROVE  /\ Refusal(job, code).status # 201
         /\ EngineRefusal(job, code).status # 201
         /\ Panicked(job).status # 201
  <1>1. CliFailure(code).status # 201
    BY DEF CliFailure, Failure, ExitCode
  <1>2. Refusal(job, code).status # 201
    BY <1>1, FailuresAcknowledgeNothing DEF Refusal, Surfaces, Failure, BodyTooLarge
  <1>3. EngineRefusal(job, code).status # 201
    BY FailuresAcknowledgeNothing DEF EngineRefusal, Surfaces, Failure, ExitCode
  <1>4. Panicked(job).status # 201
    BY FailuresAcknowledgeNothing DEF Panicked, Failure
  <1> QED
    BY <1>2, <1>3, <1>4

LEMMA DecisionsAcknowledgeNothing ==
  ASSUME NEW job, job.surface \in Surfaces \ {"none"}, NEW decided, NEW engine
  PROVE  Answered(job, decided, engine).status # 201
  <1>1. \A document : Success(200, document).status # 201
    BY DEF Success
  <1>2. \A document, outcome, lenient : CliFinish(document, outcome, lenient).status # 201
    BY DEF CliFinish, Success, ExitCode
  <1> QED
    BY <1>1, <1>2, RefusalsAcknowledgeNothing DEF Answered

-----------------------------------------------------------------------------
(* Every step keeps the invariant.                                         *)

\* The sink with another holder or another file is a sink.
SinkIs(lock, file) ==
    DOMAIN sink' = {"enabled", "lock", "file"} /\ sink'.lock = lock /\ sink'.file = file

\* A connection is opened while the server serves, and held until the reply.
Connects(c) ==
    \/ server = "serving"
    \/ Held(c)
    \/ calls'[c].stage = "ended"
    \/ calls[c].stage \notin {"idle", "ended"} /\ calls'[c].connected = calls[c].connected
    \/ Job(c).surface # "http"

LEMMA GoingKeepsInv ==
  ASSUME SurfacesInv, NEW c \in Callers, Goes(c), Connects(c),
         calls[c].stage # "idle" \/ Job(c).surface # "none",
         NEW lock \in {sink.lock, c}, SinkIs(lock, sink.file),
         lock = sink.lock \/ sink.lock = 0,
         calls'[c].stage \in {"writing", "ending"} => lock = c,
         \/ calls'[c].stage = calls[c].stage
         \/ calls'[c].stage = "ended"
         \/ /\ calls[c].stage \in {"idle", "arrived", "waiting", "working", "writing"}
            /\ calls'[c].stage \in {"idle", "arrived", "waiting", "working", "writing"}
  PROVE  SurfacesInv'
  <1> USE DEF SurfacesInv
  <1>1. /\ CallMoves(c) /\ lastError' = [d \in Callers |-> lastError'[d]]
        /\ DOMAIN sink' = {"enabled", "lock", "file"}
        /\ sink'.lock = lock /\ sink'.file = sink.file
        /\ lock \in {0} \cup Callers /\ sink.file \in Seq(Int)
    BY DEF Goes, SinkIs, SurfacesShape
  <1>2. SurfacesShape'
    BY <1>1, ShapeKept
  <1>3. NobodyHeld'
    BY <1>1, NobodyHeldKept DEF Connects
  <1>4. RepliesEnd' /\ LastErrorIsOwn'
    BY GoingKeepsReplies
  <1>5. WriterHoldsLock'
    BY <1>1, WriterKept, SurfacesAssumption
  <1>6. \A d \in Callers \ {c} : RowsRight(d)'
    BY <1>1, OtherRowsKept
  <1>7. RowsRight(c)'
    BY <1>1, OwnRowsKept DEF RowsInOrder
  <1> QED
    BY <1>2, <1>3, <1>4, <1>5, <1>6, <1>7 DEF RowsInOrder

LEMMA EndingKeepsInv ==
  ASSUME SurfacesInv, NEW c \in Callers, NEW r, Reply(c, r),
         calls[c].stage \notin {"idle", "ended"}, server' = server,
         NEW lock \in {sink.lock, 0}, NEW file, SinkIs(lock, file),
         \/ lock = sink.lock /\ file = sink.file
         \/ sink.lock = c /\ \/ file = sink.file
                             \/ \E x \in {c, Newline, Fragment} : file = Append(sink.file, x),
         r.status # 201 \/ RowsRight(c)'
  PROVE  SurfacesInv'
  <1> USE DEF SurfacesInv
  <1>1. Ends(c, r) /\ CallMoves(c) /\ lastError' = [d \in Callers |-> lastError'[d]] /\ Connects(c)
    BY ReplyIs DEF Ends, CallMoves, Stages, Connects
  <1>2. /\ DOMAIN sink' = {"enabled", "lock", "file"}
        /\ sink'.lock = lock /\ sink'.file = file
        /\ lock \in {0} \cup Callers /\ c \in Int
    BY SurfacesAssumption DEF SinkIs, SurfacesShape
  <1>3. file \in Seq(Int)
    <2>1. PICK f \in Seq(Int) : f = sink.file
      BY DEF SurfacesShape
    <2>2. \A x \in {c, Newline, Fragment} : Append(f, x) \in Seq(Int)
      BY <1>2 DEF Newline, Fragment
    <2> QED
      BY <2>1, <2>2
  <1>4. SurfacesShape'
    BY <1>1, <1>2, <1>3, ShapeKept
  <1>5. NobodyHeld'
    BY <1>1, NobodyHeldKept DEF Connects
  <1>6. RepliesEnd' /\ LastErrorIsOwn'
    BY <1>1, EndingKeepsReplies
  <1>7. WriterHoldsLock'
    <2>1. 0 \notin Callers
      BY SurfacesAssumption
    <2>2. sink'.lock = sink.lock \/ sink.lock \in {0, c}
      BY <1>2
    <2>3. calls'[c].stage = "ended"
      BY <1>1 DEF Ends
    <2> QED
      BY <1>1, <2>1, <2>2, <2>3, WriterKept
  <1>8. ASSUME NEW d \in Callers \ {c} PROVE RowsRight(d)'
    <2>1. \/ sink'.file = sink.file
          \/ sink.lock = c /\ \E x \in {c, Newline, Fragment} : sink'.file = Append(sink.file, x)
      BY <1>2
    <2> QED
      BY <1>1, <2>1, OtherRowsKept
  <1>9. RowsRight(c)'
    BY <1>1 DEF RowsRight, Ends
  <1> QED
    BY <1>4, <1>5, <1>6, <1>7, <1>8, <1>9 DEF RowsInOrder

\* Steps of the server.
LEMMA ServerKeepsInv ==
  ASSUME SurfacesInv, Start \/ ShutdownSignal \/ Stop
  PROVE  SurfacesInv'
  <1> USE DEF SurfacesInv
  <1>1. calls' = calls /\ sink' = sink /\ lastError' = lastError
    BY DEF Start, ShutdownSignal, Stop
  <1>2. \A c \in Callers : Held(c)' = Held(c) /\ Job(c)' = Job(c) /\ RowsRight(c)' = RowsRight(c)
    BY <1>1 DEF Held, Job, RowsRight, RowsOf
  <1>3. NobodyHeld' /\ server' \in {"starting", "serving", "draining", "stopped", "refused"}
    <2>1. CASE Start
      <3>1. /\ server = "starting"
            /\ \E flags \in Launches, raised, free \in BOOLEAN :
                 server' = IF Assemble(flags).ok /\ ~raised /\ free THEN "serving"
                           ELSE IF Assemble(flags).ok /\ raised THEN "stopped" ELSE "refused"
        BY <2>1 DEF Start
      <3>2. server = "starting" /\ server' \in {"serving", "stopped", "refused"}
        BY <3>1
      <3> QED
        BY <1>2, <3>2 DEF NobodyHeld
    <2>2. CASE ShutdownSignal
      BY <2>2 DEF ShutdownSignal, NobodyHeld
    <2>3. CASE Stop
      BY <1>2, <2>3 DEF Stop, NobodyHeld
    <2> QED
      BY <2>1, <2>2, <2>3
  <1>4. SurfacesShape'
    BY <1>1, <1>2, <1>3 DEF SurfacesShape
  <1>5. RepliesEnd' /\ WriterHoldsLock'
    BY <1>1 DEF RepliesEnd, WriterHoldsLock
  <1>6. LastErrorIsOwn'
    BY <1>1, <1>2 DEF LastErrorIsOwn
  <1>7. RowsInOrder'
    BY <1>2 DEF RowsInOrder
  <1> QED
    BY <1>3, <1>4, <1>5, <1>6, <1>7

\* Steps that leave the evidence file alone.
LEMMA QuietGoes ==
  ASSUME SurfacesInv, NEW c \in Callers, Goes(c), Connects(c), sink' = sink,
         calls[c].stage # "idle" \/ Job(c).surface # "none",
         \/ calls'[c].stage = calls[c].stage
         \/ calls'[c].stage = "ended"
         \/ /\ calls[c].stage \in {"idle", "arrived", "waiting", "working", "writing"}
            /\ calls'[c].stage \in {"idle", "arrived", "waiting", "working"}
  PROVE  SurfacesInv'
  <1>1. SinkIs(sink.lock, sink.file)
    BY DEF SurfacesInv, SurfacesShape, SinkIs
  <1>2. calls'[c].stage \in {"writing", "ending"} => sink.lock = c
    BY DEF SurfacesInv, WriterHoldsLock
  <1> QED
    BY <1>1, <1>2, GoingKeepsInv

LEMMA QuietEnds ==
  ASSUME SurfacesInv, NEW c \in Callers, NEW r, Reply(c, r),
         calls[c].stage \notin {"idle", "ended"}, server' = server, sink' = sink,
         r.status # 201
  PROVE  SurfacesInv'
  <1>1. SinkIs(sink.lock, sink.file)
    BY DEF SurfacesInv, SurfacesShape, SinkIs
  <1> QED
    BY <1>1, EndingKeepsInv

LEMMA BeginKeepsInv ==
  ASSUME SurfacesInv, NEW c \in Callers, Begin(c)
  PROVE  SurfacesInv'
  <1>1. PICK engine : calls' = [calls EXCEPT ![c] = [calls[c] EXCEPT !.stage = "arrived", !.engine = engine,
                                                                 !.asked = Requests(Job(c))]]
    BY DEF Begin, SurfacesInv, SurfacesShape, IsCall
  <1>2. OthersWait(c) /\ calls'[c] = [calls[c] EXCEPT !.stage = "arrived", !.engine = engine,
                                                     !.asked = Requests(Job(c))]
    BY <1>1 DEF SurfacesInv, SurfacesShape, OthersWait
  <1>3. /\ SameJob(c) /\ calls'[c].stage = "arrived"
        /\ calls'[c].connected = calls[c].connected /\ calls'[c].reply = calls[c].reply
    BY <1>2 DEF SurfacesInv, SurfacesShape, SameJob, IsCall
  <1>4. /\ calls[c].stage = "idle" /\ Job(c).surface # "none"
        /\ Job(c).surface = "http" => server = "serving"
        /\ server' = server /\ sink' = sink /\ lastError' = lastError
    BY DEF Begin
  <1>5. Goes(c) /\ Connects(c)
    BY <1>2, <1>3, <1>4 DEF Goes, CallMoves, Connects, Stages
  <1> QED
    BY <1>3, <1>4, <1>5, QuietGoes

\* A stage that changes, and nothing else.
LEMMA StageKeepsInv ==
  ASSUME SurfacesInv, NEW c \in Callers, NEW s \in {"waiting", "working", "ended"}, Stage(c, s),
         calls[c].stage \in {"arrived", "waiting", "working"},
         s # "ended" \/ Job(c).surface # "ffi",
         server' = server, sink' = sink, lastError' = lastError
  PROVE  SurfacesInv'
  <1>1. /\ OthersWait(c) /\ SameJob(c)
        /\ calls'[c].stage = s /\ calls'[c].connected = calls[c].connected
        /\ calls'[c].reply = calls[c].reply
    BY StageIs DEF SurfacesInv
  <1>2. Goes(c) /\ Connects(c)
    BY <1>1 DEF Goes, CallMoves, Connects, Stages
  <1> QED
    BY <1>1, <1>2, QuietGoes

LEMMA HandleKeepsInv ==
  ASSUME SurfacesInv, NEW c \in Callers, Handle(c)
  PROVE  SurfacesInv'
  <1>1. /\ calls[c].stage = "arrived" /\ Job(c).surface \in Surfaces \ {"none"}
        /\ server' = server /\ sink' = sink
    BY DEF Handle, SurfacesInv, SurfacesShape
  <1>2. \/ \E r : Reply(c, r) /\ r.status # 201
        \/ \E s \in {"waiting", "working"} : Stage(c, s) /\ lastError' = lastError
    <2>1. PICK job : job = Job(c)
      OBVIOUS
    <2>2. HttpFailure("FeedbackDisabled", "").status # 201
      BY FailuresAcknowledgeNothing
    <2>3. \A code : Refusal(job, code).status # 201
      BY <1>1, <2>1, RefusalsAcknowledgeNothing
    <2>4. \A v : Success(200, v).status # 201
      BY DEF Success
    <2>5. CASE Reply(c, HttpFailure("FeedbackDisabled", ""))
      <3>1. PICK r : r = HttpFailure("FeedbackDisabled", "")
        OBVIOUS
      <3>2. Reply(c, r) /\ r.status # 201
        BY <2>2, <2>5, <3>1
      <3> QED
        BY <3>2
    <2>6. CASE \E code : Reply(c, Refusal(job, code))
      BY <2>3, <2>6
    <2>7. CASE \E v : Reply(c, Success(200, v))
      BY <2>4, <2>7
    <2>8. CASE \E s \in {"waiting", "working"} : Stage(c, s) /\ lastError' = lastError
      BY <2>8
    <2>9. \/ Reply(c, HttpFailure("FeedbackDisabled", ""))
          \/ \E code : Reply(c, Refusal(job, code))
          \/ \E v : Reply(c, Success(200, v))
          \/ \E s \in {"waiting", "working"} : Stage(c, s) /\ lastError' = lastError
      BY <2>1 DEF Handle
    <2> QED
      BY <2>5, <2>6, <2>7, <2>8, <2>9
  <1>3. CASE \E r : Reply(c, r) /\ r.status # 201
    BY <1>1, <1>3, QuietEnds
  <1>4. CASE \E s \in {"waiting", "working"} : Stage(c, s) /\ lastError' = lastError
    BY <1>1, <1>4, StageKeepsInv
  <1> QED
    BY <1>2, <1>3, <1>4

LEMMA WorkKeepsInv ==
  ASSUME SurfacesInv, NEW c \in Callers, Work(c)
  PROVE  SurfacesInv'
  <1>1. PICK r : calls' = [calls EXCEPT ![c].decided = Append(@, r)]
    BY DEF Work
  <1>2. /\ calls[c].stage = "working"
        /\ server' = server /\ sink' = sink /\ lastError' = lastError
    BY DEF Work
  <1>3. calls' = [calls EXCEPT ![c] = [calls[c] EXCEPT !.decided = Append(calls[c].decided, r)]]
    BY <1>1 DEF SurfacesInv, SurfacesShape, IsCall
  <1>4. OthersWait(c) /\ calls'[c] = [calls[c] EXCEPT !.decided = Append(calls[c].decided, r)]
    BY <1>3 DEF SurfacesInv, SurfacesShape, OthersWait
  <1>5. /\ SameJob(c) /\ calls'[c].stage = "working"
        /\ calls'[c].connected = calls[c].connected /\ calls'[c].reply = calls[c].reply
    BY <1>2, <1>4 DEF SurfacesInv, SurfacesShape, SameJob, IsCall
  <1>6. Goes(c) /\ Connects(c)
    BY <1>2, <1>4, <1>5 DEF Goes, CallMoves, Connects, Stages
  <1> QED
    BY <1>2, <1>5, <1>6, QuietGoes

LEMMA DecidedKeepsInv ==
  ASSUME SurfacesInv, NEW c \in Callers, Finish(c) \/ Panic(c)
  PROVE  SurfacesInv'
  <1>1. /\ calls[c].stage = "working" /\ Job(c).surface \in Surfaces \ {"none"}
        /\ server' = server /\ sink' = sink
    BY DEF Finish, Panic, SurfacesInv, SurfacesShape
  <1>2. \E r : Reply(c, r) /\ r.status # 201
    <2>1. PICK job : job = Job(c)
      OBVIOUS
    <2>2. Panicked(job).status # 201
      BY <1>1, <2>1, RefusalsAcknowledgeNothing
    <2>3. \A decided, engine : Answered(job, decided, engine).status # 201
      BY <1>1, <2>1, DecisionsAcknowledgeNothing
    <2>4. CASE Panic(c)
      <3>1. Reply(c, Panicked(job))
        BY <2>1, <2>4 DEF Panic
      <3> QED
        BY <2>2, <3>1
    <2>5. CASE Finish(c)
      <3>1. Reply(c, Answered(job, calls[c].decided, calls[c].engine))
        BY <2>1, <2>5 DEF Finish
      <3> QED
        BY <2>3, <3>1
    <2> QED
      BY <2>4, <2>5
  <1> QED
    BY <1>1, <1>2, QuietEnds

\* A client that goes away, and a task that is dropped.
LEMMA LeavingKeepsInv ==
  ASSUME SurfacesInv, NEW c \in Callers, Disconnect(c) \/ Abandon(c)
  PROVE  SurfacesInv'
  <1>1. CASE Disconnect(c)
    <2>1. PICK s : s = IF calls[c].stage = "arrived" THEN "ended" ELSE calls[c].stage
      OBVIOUS
    <2>2. calls' = [calls EXCEPT ![c] = [calls[c] EXCEPT !.connected = FALSE, !.stage = s]]
      BY <1>1, <2>1 DEF Disconnect, SurfacesInv, SurfacesShape, IsCall
    <2>3. OthersWait(c) /\ calls'[c] = [calls[c] EXCEPT !.connected = FALSE, !.stage = s]
      BY <2>2 DEF SurfacesInv, SurfacesShape, OthersWait
    <2>4. SameJob(c) /\ calls'[c].stage = s /\ calls'[c].reply = calls[c].reply
      BY <2>3 DEF SurfacesInv, SurfacesShape, SameJob, IsCall
    <2>5. /\ Held(c) /\ Job(c).surface = "http" /\ calls[c].stage \in Stages \ {"idle", "ended"}
          /\ server' = server /\ sink' = sink /\ lastError' = lastError
      BY <1>1 DEF Disconnect, Held, SurfacesInv, SurfacesShape
    <2>6. Goes(c) /\ Connects(c)
      BY <2>1, <2>3, <2>4, <2>5 DEF Goes, CallMoves, Connects, Stages
    <2> QED
      BY <2>1, <2>4, <2>5, <2>6, QuietGoes
  <1>2. CASE Abandon(c)
    BY <1>2, StageKeepsInv DEF Abandon
  <1> QED
    BY <1>1, <1>2

LEMMA TakeSinkKeepsInv ==
  ASSUME SurfacesInv, NEW c \in Callers, TakeSink(c)
  PROVE  SurfacesInv'
  <1>1. /\ OthersWait(c) /\ SameJob(c)
        /\ calls'[c].stage = "writing" /\ calls'[c].connected = calls[c].connected
        /\ calls'[c].reply = calls[c].reply
    BY StageIs DEF TakeSink, SurfacesInv
  <1>2. /\ calls[c].stage = "waiting" /\ sink.lock = 0 /\ sink' = [sink EXCEPT !.lock = c]
        /\ server' = server /\ lastError' = lastError
    BY DEF TakeSink
  <1>3. SinkIs(c, sink.file)
    BY <1>2 DEF SinkIs, SurfacesInv, SurfacesShape
  <1>4. Goes(c) /\ Connects(c)
    BY <1>1, <1>2 DEF Goes, CallMoves, Connects, Stages
  <1> QED
    BY <1>1, <1>2, <1>3, <1>4, GoingKeepsInv

LEMMA WriteRowKeepsInv ==
  ASSUME SurfacesInv, NEW c \in Callers, WriteRow(c)
  PROVE  SurfacesInv'
  <1> USE DEF SurfacesInv
  <1>1. /\ OthersWait(c) /\ SameJob(c)
        /\ calls'[c].stage = "ending" /\ calls'[c].connected = calls[c].connected
        /\ calls'[c].reply = calls[c].reply
    BY StageIs DEF WriteRow
  <1>2. /\ calls[c].stage = "writing" /\ sink' = [sink EXCEPT !.file = Append(sink.file, c)]
        /\ server' = server /\ lastError' = lastError
    BY DEF WriteRow
  <1>3. SinkIs(sink.lock, Append(sink.file, c)) /\ sink.lock = c
    BY <1>2 DEF SinkIs, SurfacesShape, WriterHoldsLock
  <1>4. Goes(c) /\ CallMoves(c) /\ Connects(c)
    BY <1>1, <1>2 DEF Goes, CallMoves, Connects, Stages
  <1>5. PICK f \in Seq(Int) : f = sink.file
    BY DEF SurfacesShape
  <1>6. /\ Append(f, c) \in Seq(Int) /\ c \in Int /\ Len(f) \in Nat
        /\ Len(Append(f, c)) = Len(f) + 1 /\ DOMAIN Append(f, c) = 1 .. Len(f) + 1 /\ DOMAIN f = 1 .. Len(f)
        /\ \A i \in 1 .. Len(f) : Append(f, c)[i] = f[i]
        /\ Append(f, c)[Len(f) + 1] = c
    BY SurfacesAssumption
  <1>7. SurfacesShape'
    BY <1>2, <1>3, <1>4, <1>5, <1>6, ShapeKept DEF SinkIs, SurfacesShape
  <1>8. NobodyHeld'
    BY <1>4, NobodyHeldKept DEF Connects
  <1>9. RepliesEnd' /\ LastErrorIsOwn'
    BY <1>4, GoingKeepsReplies
  <1>10. WriterHoldsLock'
    BY <1>3, <1>4, WriterKept, SurfacesAssumption DEF SinkIs
  <1>11. \A d \in Callers \ {c} : RowsRight(d)'
    BY <1>3, <1>4, OtherRowsKept DEF SinkIs
  <1>12. RowsRight(c)'
    <2>1. RowsOf(c) = {}
      BY <1>2 DEF RowsInOrder, RowsRight
    <2>2. \A i \in 1 .. Len(f) : f[i] # c
      BY <1>5, <1>6, <2>1 DEF RowsOf
    <2>3. {i \in DOMAIN Append(f, c) : Append(f, c)[i] = c} = {Len(f) + 1}
      BY <1>6, <2>2
    <2>4. RowsOf(c)' = {Len(sink'.file)}
      BY <1>3, <1>5, <1>6, <2>3 DEF RowsOf, SinkIs
    <2>5. calls'[c].reply = {}
      BY <1>1, <1>2 DEF RepliesEnd
    <2> QED
      BY <1>1, <2>4, <2>5 DEF RowsRight
  <1> QED
    BY <1>7, <1>8, <1>9, <1>10, <1>11, <1>12 DEF RowsInOrder

LEMMA WriteNewlineKeepsInv ==
  ASSUME SurfacesInv, NEW c \in Callers, WriteNewline(c)
  PROVE  SurfacesInv'
  <1>1. PICK r : r = Success(201, 1)
    OBVIOUS
  <1>2. /\ calls[c].stage = "ending" /\ Reply(c, r) /\ server' = server
        /\ sink' = [sink EXCEPT !.file = Append(sink.file, Newline), !.lock = 0]
    BY <1>1 DEF WriteNewline
  <1>3. SinkIs(0, Append(sink.file, Newline)) /\ sink.lock = c
    BY <1>2 DEF SinkIs, SurfacesInv, SurfacesShape, WriterHoldsLock
  <1>4. PICK f \in Seq(Int) : f = sink.file
    BY DEF SurfacesInv, SurfacesShape
  <1>5. PICK g : g = Append(f, Newline)
    OBVIOUS
  <1>6. /\ Len(f) \in Nat /\ Len(g) = Len(f) + 1
        /\ DOMAIN g = 1 .. Len(f) + 1 /\ DOMAIN f = 1 .. Len(f)
        /\ \A i \in 1 .. Len(f) : g[i] = f[i]
        /\ g[Len(f) + 1] = Newline /\ c # Newline
    BY <1>5, SurfacesAssumption DEF Newline
  <1>7. RowsOf(c) = {Len(f)}
    BY <1>2, <1>4 DEF SurfacesInv, RowsInOrder, RowsRight
  <1>8. Len(f) \in 1 .. Len(g) - 1
    BY <1>4, <1>6, <1>7 DEF RowsOf
  <1>9. RowsOf(c)' = {Len(f)}
    BY <1>3, <1>4, <1>5, <1>6, <1>7 DEF RowsOf, SinkIs
  <1>10. RowsRight(c)'
    <2>1. sink'.file = g /\ g[Len(f) + 1] = Newline
      BY <1>3, <1>4, <1>5, <1>6 DEF SinkIs
    <2>2. calls'[c].stage = "ended"
      BY <1>2, ReplyIs DEF SurfacesInv
    <2> QED
      BY <1>8, <1>9, <2>1, <2>2 DEF RowsRight
  <1>11. SinkIs(0, g) /\ \E x \in {c, Newline, Fragment} : g = Append(sink.file, x)
    BY <1>3, <1>4, <1>5 DEF SinkIs
  <1>12. calls[c].stage \notin {"idle", "ended"}
    BY <1>2
  <1> QED
    BY <1>2, <1>3, <1>10, <1>11, <1>12, EndingKeepsInv

LEMMA WriteFailsKeepsInv ==
  ASSUME SurfacesInv, NEW c \in Callers, WriteFails(c)
  PROVE  SurfacesInv'
  <1>0. HttpFailure("Serve", "").status # 201
    BY DEF HttpFailure, Failure, HttpStatus
  <1>1. PICK r : r = HttpFailure("Serve", "")
    OBVIOUS
  <1>2. PICK left \in {<<>>, <<Fragment>>} :
           /\ calls[c].stage \in {"writing", "ending"} /\ Reply(c, r) /\ server' = server
           /\ sink' = [sink EXCEPT !.file = sink.file \o left, !.lock = 0]
    BY <1>1 DEF WriteFails
  <1>3. SinkIs(0, sink.file \o left) /\ sink.lock = c
    BY <1>2 DEF SinkIs, SurfacesInv, SurfacesShape, WriterHoldsLock
  <1>4. sink.file \o left = sink.file \/ sink.file \o left = Append(sink.file, Fragment)
    <2>1. PICK f \in Seq(Int) : f = sink.file
      BY DEF SurfacesInv, SurfacesShape
    <2>2. Fragment \in Int
      BY DEF Fragment
    <2>3. f \o <<>> = f /\ f \o <<Fragment>> = Append(f, Fragment)
      BY <2>2
    <2> QED
      BY <2>1, <2>3
  <1>5. PICK file : file = sink.file \o left
    OBVIOUS
  <1>6. SinkIs(0, file)
    BY <1>3, <1>5 DEF SinkIs
  <1>7. file = sink.file \/ \E x \in {c, Newline, Fragment} : file = Append(sink.file, x)
    BY <1>4, <1>5
  <1>8. calls[c].stage \notin {"idle", "ended"} /\ r.status # 201
    BY <1>0, <1>1, <1>2
  <1> QED
    BY <1>2, <1>3, <1>6, <1>7, <1>8, EndingKeepsInv

\* Before anything has happened.
LEMMA SurfacesInitInv == Init => SurfacesInv
  <1> SUFFICES ASSUME Init PROVE SurfacesInv
    OBVIOUS
  <1>1. PICK crowd \in Crowds : calls = [c \in Callers |-> CallOf(JobTable[crowd[c]])]
    BY DEF Init
  <1>2. ASSUME NEW c \in Callers
        PROVE  /\ IsCall(calls[c]) /\ calls[c].stage = "idle" /\ calls[c].reply = {}
               /\ Job(c).surface \in Surfaces
    <2>1. crowd[c] \in DOMAIN JobTable
      BY SurfacesAssumption
    <2>2. PICK job : job = JobTable[crowd[c]]
      OBVIOUS
    <2>3. job.surface \in Surfaces /\ calls[c] = CallOf(job)
      BY <1>1, <2>1, <2>2, SurfacesAssumption DEF Surfaces
    <2> QED
      BY <2>3 DEF CallOf, IsCall, Job
  <1>3. /\ server = "starting" /\ lastError = [c \in Callers |-> {}]
        /\ DOMAIN sink = {"enabled", "lock", "file"} /\ sink.lock = 0 /\ sink.file = <<>>
    BY DEF Init
  <1>4. SurfacesShape
    BY <1>1, <1>2, <1>3 DEF SurfacesShape, Stages
  <1>5. NobodyHeld /\ RepliesEnd /\ WriterHoldsLock
    BY <1>2 DEF NobodyHeld, Held, RepliesEnd, WriterHoldsLock
  <1>6. LastErrorIsOwn
    BY <1>2, <1>3 DEF LastErrorIsOwn
  <1>7. RowsInOrder
    <2>1. \A c \in Callers : RowsOf(c) = {}
      BY <1>3 DEF RowsOf
    <2> QED
      BY <1>2, <2>1 DEF RowsInOrder, RowsRight
  <1> QED
    BY <1>4, <1>5, <1>6, <1>7 DEF SurfacesInv

LEMMA SurfacesStepInv == SurfacesInv /\ [Next]_vars => SurfacesInv'
  <1> SUFFICES ASSUME SurfacesInv, [Next]_vars PROVE SurfacesInv'
    OBVIOUS
  <1>1. CASE Start \/ ShutdownSignal \/ Stop
    BY <1>1, ServerKeepsInv
  <1>2. ASSUME NEW c \in Callers, Begin(c) PROVE SurfacesInv'
    BY <1>2, BeginKeepsInv
  <1>3. ASSUME NEW c \in Callers, Step(c) PROVE SurfacesInv'
    BY <1>3, HandleKeepsInv, WorkKeepsInv, DecidedKeepsInv, TakeSinkKeepsInv, WriteRowKeepsInv,
       WriteNewlineKeepsInv DEF Step
  <1>4. ASSUME NEW c \in Callers, Panic(c) \/ WriteFails(c) \/ Disconnect(c) \/ Abandon(c) PROVE SurfacesInv'
    BY <1>4, DecidedKeepsInv, WriteFailsKeepsInv, LeavingKeepsInv
  <1>5. CASE UNCHANGED vars
    <2>1. server' = server /\ calls' = calls /\ sink' = sink /\ lastError' = lastError
      BY <1>5 DEF vars
    <2>2. SurfacesShape'
      BY <2>1 DEF SurfacesInv, SurfacesShape, Job
    <2>3. NobodyHeld'
      BY <2>1 DEF SurfacesInv, NobodyHeld, Held, Job
    <2>4. RepliesEnd' /\ LastErrorIsOwn' /\ WriterHoldsLock'
      BY <2>1 DEF SurfacesInv, RepliesEnd, LastErrorIsOwn, Job, WriterHoldsLock
    <2>5. ASSUME NEW c \in Callers PROVE RowsRight(c)'
      <3>1. RowsOf(c)' = RowsOf(c)
        BY <2>1 DEF RowsOf
      <3>2. RowsRight(c)
        BY DEF SurfacesInv, RowsInOrder
      <3> QED
        BY <2>1, <3>1, <3>2 DEF RowsRight
    <2> QED
      BY <2>2, <2>3, <2>4, <2>5 DEF SurfacesInv, RowsInOrder
  <1> QED
    BY <1>1, <1>2, <1>3, <1>4, <1>5 DEF Next

LEMMA SurfacesInvariant == Spec => []SurfacesInv
  <1> QED
    BY SurfacesInitInv, SurfacesStepInv, PTL DEF Spec

\* oc_last_error tells a thread the error of its own last call and never
\* another thread's, for any number of threads.  (LAST_ERROR of the C ABI.)
THEOREM ErrorsStayWithTheirThread == Spec => []LastErrorIsOwn
  <1>1. SurfacesInv => LastErrorIsOwn
    BY DEF SurfacesInv
  <1> QED
    BY <1>1, SurfacesInvariant, PTL

\* A feedback row that was acknowledged stands in the evidence file once and in
\* front of its newline, for any number of writers and failures.
\* (feedback_handler.)
THEOREM AcknowledgedRowsStand == Spec => []AcknowledgedRowsAreWhole
  <1>1. ASSUME SurfacesInv, NEW c \in Callers, \E reply \in calls[c].reply : reply.status = 201
        PROVE  /\ Cardinality({i \in DOMAIN sink.file : sink.file[i] = c}) = 1
               /\ \A i \in {j \in DOMAIN sink.file : sink.file[j] = c} :
                     i < Len(sink.file) /\ sink.file[i + 1] = Newline
    <2>0. RowsRight(c)
      BY <1>1 DEF SurfacesInv, RowsInOrder
    <2>1. PICK i \in 1 .. Len(sink.file) - 1 : RowsOf(c) = {i} /\ sink.file[i + 1] = Newline
      BY <1>1, <2>0 DEF RowsRight
    <2>2. Len(sink.file) \in Nat
      BY <1>1 DEF SurfacesInv, SurfacesShape
    <2>3. Cardinality({i}) = 1
      BY FS_Singleton
    <2>4. {j \in DOMAIN sink.file : sink.file[j] = c} = {i}
      BY <2>1 DEF RowsOf
    <2>5. i < Len(sink.file)
      BY <2>1, <2>2
    <2> QED
      BY <2>1, <2>3, <2>4, <2>5
  <1>2. SurfacesInv => AcknowledgedRowsAreWhole
    BY <1>1 DEF AcknowledgedRowsAreWhole
  <1> QED
    BY <1>2, SurfacesInvariant, PTL

-----------------------------------------------------------------------------
(* Reports are cut until they fit.                                         *)

\* What the reports of the engine are made of: a character has one to four bytes.
Reports ==
    [text : Nat, truncated : BOOLEAN, guidance : Seq(1 .. 4), trace : Nat, in : Seq(Nat), out : Seq(Nat),
     threshold : Int, observed : Int, model : Nat, partial : SUBSET Int]

\* Nothing is left to cut.
IsMinimal(r) == r.trace = 0 /\ r.in = <<>> /\ r.out = <<>> /\ Len(r.guidance) = 1

\* The first k characters.
FirstOf(g, k) == SubSeq(g, 1, k)

LEMMA FirstOfIs ==
  ASSUME NEW S, NEW g \in Seq(S), NEW k \in 0 .. Len(g)
  PROVE  /\ FirstOf(g, k) \in Seq(S) /\ Len(FirstOf(g, k)) = k
         /\ \A i \in 1 .. k : FirstOf(g, k)[i] = g[i]
         /\ Range(FirstOf(g, k)) \subseteq Range(g)
  <1>1. /\ FirstOf(g, k) \in Seq(S) /\ Len(FirstOf(g, k)) = k
        /\ \A i \in 1 .. k : FirstOf(g, k)[i] = g[i]
    BY DEF FirstOf
  <1>2. Range(FirstOf(g, k)) \subseteq Range(g)
    BY <1>1 DEF Range
  <1> QED
    BY <1>1, <1>2

\* A prefix has the bytes of the prefix one shorter and of its last character.
LEMMA BytesOfFirst ==
  ASSUME NEW g \in Seq(1 .. 4)
  PROVE  /\ Bytes(FirstOf(g, 0)) = 0
         /\ \A k \in 1 .. Len(g) : Bytes(FirstOf(g, k)) = g[k] + Bytes(FirstOf(g, k - 1))
         /\ \A k \in 0 .. Len(g) : Bytes(FirstOf(g, k)) \in Nat
  <1>1. \A k \in 0 .. Len(g) : Bytes(FirstOf(g, k)) = SumFunctionOnSet(g, 1 .. k)
    <2> TAKE k \in 0 .. Len(g)
    <2>1. DOMAIN FirstOf(g, k) = 1 .. k /\ \A i \in 1 .. k : FirstOf(g, k)[i] = g[i]
      BY FirstOfIs
    <2>2. IsFiniteSet(1 .. k)
      BY Intervals
    <2>3. \A i \in 1 .. k : g[i] \in Int
      OBVIOUS
    <2>4. SumFunctionOnSet(FirstOf(g, k), 1 .. k) = SumFunctionOnSet(g, 1 .. k)
      BY <2>1, <2>2, <2>3, SumAgree
    <2> QED
      BY <2>1, <2>4 DEF Bytes, SumFunction
  <1>2. Bytes(FirstOf(g, 0)) = 0
    <2>1. 1 .. 0 = {}
      OBVIOUS
    <2> QED
      BY <1>1, <2>1, SumEmpty
  <1>3. ASSUME NEW k \in 1 .. Len(g)
        PROVE  Bytes(FirstOf(g, k)) = g[k] + Bytes(FirstOf(g, k - 1))
    <2>0. k \in Nat /\ k \in 0 .. Len(g) /\ k - 1 \in 0 .. Len(g)
      OBVIOUS
    <2>1. k \in 1 .. k /\ (1 .. k) \ {k} = 1 .. (k - 1)
      BY <2>0
    <2>2. IsFiniteSet(1 .. k)
      BY <2>0, Intervals
    <2>3. \A i \in 1 .. k : g[i] \in Int
      OBVIOUS
    <2>4. SumFunctionOnSet(g, 1 .. k) = g[k] + SumFunctionOnSet(g, (1 .. k) \ {k})
      BY <2>1, <2>2, <2>3, SumSplit
    <2>5. Bytes(FirstOf(g, k)) = SumFunctionOnSet(g, 1 .. k)
      BY <1>1, <2>0
    <2>6. Bytes(FirstOf(g, k - 1)) = SumFunctionOnSet(g, 1 .. (k - 1))
      BY <1>1, <2>0
    <2> QED
      BY <2>1, <2>4, <2>5, <2>6
  <1>4. ASSUME NEW k \in 0 .. Len(g) PROVE Bytes(FirstOf(g, k)) \in Nat
    <2>1. IsFiniteSet(1 .. k)
      BY Intervals
    <2>2. \A i \in 1 .. k : g[i] \in Nat
      OBVIOUS
    <2> QED
      BY <1>1, <2>1, <2>2, SumNat
  <1> QED
    BY <1>2, <1>3, <1>4

\* The bytes of prefixes grow with them.
LEMMA BytesGrow ==
  ASSUME NEW g \in Seq(1 .. 4), NEW k \in 1 .. Len(g)
  PROVE  /\ Bytes(FirstOf(g, 1)) \in 1 .. 4
         /\ Bytes(FirstOf(g, k)) >= Bytes(FirstOf(g, 1)) + k - 1
  <1>0. /\ Bytes(FirstOf(g, 0)) = 0
        /\ \A i \in 1 .. Len(g) : Bytes(FirstOf(g, i)) = g[i] + Bytes(FirstOf(g, i - 1))
        /\ \A i \in 0 .. Len(g) : Bytes(FirstOf(g, i)) \in Nat
    BY BytesOfFirst
  <1>1. Bytes(FirstOf(g, 1)) = g[1]
    <2>1. 1 \in 1 .. Len(g)
      OBVIOUS
    <2> QED
      BY <1>0, <2>1
  <1> DEFINE T == {i \in 0 .. Len(g) : i > 0 => Bytes(FirstOf(g, i)) >= g[1] + i - 1}
  <1>2. 0 \in T
    OBVIOUS
  <1>3. ASSUME NEW i \in 0 .. Len(g), i > 0, i - 1 \in T PROVE i \in T
    <2>1. CASE i = 1
      BY <1>1, <2>1
    <2>2. CASE i > 1
      <3>1. Bytes(FirstOf(g, i)) = g[i] + Bytes(FirstOf(g, i - 1)) /\ g[i] \in 1 .. 4
        BY <1>0, <2>2
      <3>2. Bytes(FirstOf(g, i - 1)) >= g[1] + (i - 1) - 1
        BY <1>3, <2>2
      <3>3. g[1] \in 1 .. 4 /\ Bytes(FirstOf(g, i - 1)) \in Nat
        BY <1>0, <2>2
      <3> QED
        BY <3>1, <3>2, <3>3
    <2> QED
      BY <1>3, <2>1, <2>2
  <1>4. 0 .. Len(g) \subseteq T
    <2>1. Len(g) \in Nat
      OBVIOUS
    <2> HIDE DEF T
    <2> QED
      BY <1>2, <1>3, <2>1, UpTo
  <1> QED
    BY <1>1, <1>4

\* The most characters a cut of k may leave.
CutTo(g, k) ==
    Max({j \in 0 .. k : Bytes(FirstOf(g, j)) <= Bytes(FirstOf(g, k)) - Max({Bytes(FirstOf(g, k)) \div 8, 1})})

\* Every cut takes something, and all of it only from the last character.
LEMMA CutToIs ==
  ASSUME NEW g \in Seq(1 .. 4), NEW k \in 1 .. Len(g)
  PROVE  CutTo(g, k) \in 0 .. (k - 1) /\ (CutTo(g, k) = 0 => k = 1)
  <1> DEFINE B(i) == Bytes(FirstOf(g, i))
  <1>0. /\ B(0) = 0 /\ \A i \in 0 .. Len(g) : B(i) \in Nat
    BY BytesOfFirst
  <1>1. B(1) \in 1 .. 4 /\ B(k) >= B(1) + k - 1
    BY BytesGrow
  <1> PICK e \in Int : e = Max({B(k) \div 8, 1})
    <2>1. B(k) \div 8 \in Int
      BY <1>0
    <2>2. \E x \in {B(k) \div 8, 1} : \A y \in {B(k) \div 8, 1} : x >= y
      BY <2>1
    <2> QED
      BY <2>1, <2>2 DEF Max
  <1>2. e >= 1 /\ (e = 1 \/ e = B(k) \div 8)
    <2>1. B(k) \div 8 \in Int
      BY <1>0
    <2>2. \E x \in {B(k) \div 8, 1} : \A y \in {B(k) \div 8, 1} : x >= y
      BY <2>1
    <2>3. e \in {B(k) \div 8, 1} /\ \A y \in {B(k) \div 8, 1} : e >= y
      BY <2>2 DEF Max
    <2> QED
      BY <2>3
  <1> DEFINE J == {j \in 0 .. k : B(j) <= B(k) - e}
  <1>3. CutTo(g, k) = Max(J)
    BY DEF CutTo
  <1>4. PICK b \in Nat : b = B(k)
    BY <1>0
  <1>5. e <= b
    BY <1>1, <1>2, <1>4
  <1>6. 0 \in J
    BY <1>0, <1>4, <1>5
  <1>7. k \notin J
    BY <1>2, <1>4
  <1>8. k > 1 => 1 \in J
    <2> SUFFICES ASSUME k > 1 PROVE B(1) <= b - e
      BY <1>4
    <2>1. PICK a \in 1 .. 4 : a = B(1)
      BY <1>1
    <2>2. b >= a + 1
      BY <1>1, <1>4, <2>1
    <2>3. a <= b - e
      <3>1. CASE e = 1
        BY <2>2, <3>1
      <3>2. CASE e = b \div 8 /\ e > 1
        BY <3>2
      <3> QED
        BY <1>2, <1>4, <3>1, <3>2
    <2> QED
      BY <2>1, <2>3
  <1>9. Max(J) \in J /\ \A j \in J : j <= Max(J)
    <2>1. J # {} /\ IsFiniteSet(J) /\ J \subseteq Int
      <3>1. IsFiniteSet(0 .. k)
        BY Intervals
      <3> QED
        BY <1>6, <3>1, FS_Subset
    <2>2. PICK f : f = [x \in J |-> x]
      OBVIOUS
    <2>3. \A x \in J : f[x] = x
      BY <2>2
    <2> HIDE DEF J
    <2>4. \E x \in J : \A y \in J : f[y] <= f[x]
      BY <2>1, <2>3, Greatest
    <2>5. \E x \in J : \A y \in J : x >= y
      BY <2>1, <2>3, <2>4
    <2> QED
      BY <2>1, <2>5 DEF Max
  <1>10. J \subseteq 0 .. k
    OBVIOUS
  <1> HIDE DEF J
  <1>11. PICK m \in J : m = Max(J)
    BY <1>9
  <1>12. m \in 0 .. k /\ m # k /\ \A j \in J : j <= m
    BY <1>7, <1>9, <1>10, <1>11
  <1>13. m \in 0 .. (k - 1) /\ (m = 0 => k = 1)
    BY <1>8, <1>12
  <1> QED
    BY <1>3, <1>11, <1>13

\* A trimming: where cutting leads from every length.
Trims(f, n, cut, fits) ==
    f = [k \in 0 .. n |-> IF k = 0 \/ cut[k] = 0 THEN k ELSE IF cut[k] \in fits THEN cut[k] ELSE f[cut[k]]]

LEMMA TrimExists ==
  ASSUME NEW n \in Nat, NEW cut, \A k \in 1 .. n : cut[k] \in 0 .. (k - 1), NEW fits
  PROVE  \E f : Trims(f, n, cut, fits)
  <1> DEFINE Is(f, m) == Trims(f, m, cut, fits)
             T == {m \in 0 .. n : \E f : Is(f, m)}
  <1>1. 0 \in T
    <2>1. Is([k \in 0 .. 0 |-> 0], 0)
      BY DEF Trims
    <2> HIDE DEF Is
    <2> QED
      BY <2>1
  <1>2. ASSUME NEW m \in 0 .. n, m > 0, m - 1 \in T PROVE m \in T
    <2>1. PICK f : Is(f, m - 1)
      BY <1>2
    <2> DEFINE h == [k \in 0 .. m |-> IF k < m THEN f[k]
                                      ELSE IF cut[k] = 0 THEN k
                                      ELSE IF cut[k] \in fits THEN cut[k] ELSE f[cut[k]]]
    <2>2. ASSUME NEW k \in 0 .. m
          PROVE  h[k] = IF k = 0 \/ cut[k] = 0 THEN k ELSE IF cut[k] \in fits THEN cut[k] ELSE h[cut[k]]
      <3>1. k > 0 => cut[k] \in 0 .. (k - 1)
        BY <1>2
      <3>2. k > 0 => h[cut[k]] = f[cut[k]]
        BY <1>2, <3>1
      <3>3. CASE k < m
        <4>1. k \in 0 .. (m - 1)
          BY <3>3
        <4>2. f[k] = IF k = 0 \/ cut[k] = 0 THEN k ELSE IF cut[k] \in fits THEN cut[k] ELSE f[cut[k]]
          BY <2>1, <4>1 DEF Trims
        <4>3. h[k] = f[k]
          BY <3>3
        <4> HIDE DEF h
        <4> QED
          BY <3>2, <4>2, <4>3
      <3>4. CASE k = m
        <4>1. h[k] = IF cut[k] = 0 THEN k ELSE IF cut[k] \in fits THEN cut[k] ELSE f[cut[k]]
          BY <3>4
        <4> HIDE DEF h
        <4> QED
          BY <1>2, <3>2, <3>4, <4>1
      <3> QED
        BY <3>3, <3>4
    <2>3. Is(h, m)
      <3>1. h = [k \in 0 .. m |-> h[k]]
        OBVIOUS
      <3> HIDE DEF h
      <3>2. h = [k \in 0 .. m |->
                   IF k = 0 \/ cut[k] = 0 THEN k ELSE IF cut[k] \in fits THEN cut[k] ELSE h[cut[k]]]
        BY <2>2, <3>1, Zenon
      <3> QED
        BY <3>2 DEF Trims
    <2> HIDE DEF Is
    <2> QED
      BY <1>2, <2>3
  <1>3. 0 .. n \subseteq T
    <2> HIDE DEF T
    <2> QED
      BY <1>1, <1>2, UpTo
  <1>4. n \in T
    BY <1>3
  <1> QED
    BY <1>4

\* Cutting ends with something left: with what fits, or with one.
LEMMA TrimEnds ==
  ASSUME NEW n \in Nat \ {0}, NEW cut, \A k \in 1 .. n : cut[k] \in 0 .. (k - 1) /\ (cut[k] = 0 => k = 1),
         NEW fits, NEW f, Trims(f, n, cut, fits)
  PROVE  f[n] \in 1 .. n /\ (f[n] \in fits \/ f[n] = 1)
  <1> DEFINE Good(k) == f[k] \in 1 .. k /\ (f[k] \in fits \/ f[k] = 1)
             T == {k \in 0 .. n : \A j \in 1 .. k : Good(j)}
  <1>0. \A k \in 1 .. n : f[k] = IF cut[k] = 0 THEN k ELSE IF cut[k] \in fits THEN cut[k] ELSE f[cut[k]]
    BY DEF Trims
  <1>1. 0 \in T
    OBVIOUS
  <1>2. ASSUME NEW k \in 0 .. n, k > 0, k - 1 \in T PROVE k \in T
    <2>1. \A j \in 1 .. (k - 1) : Good(j)
      BY <1>2
    <2>2. Good(k)
      <3>1. cut[k] \in 0 .. (k - 1) /\ (cut[k] = 0 => k = 1)
        BY <1>2
      <3>2. f[k] = IF cut[k] = 0 THEN k ELSE IF cut[k] \in fits THEN cut[k] ELSE f[cut[k]]
        BY <1>0, <1>2
      <3>3. CASE cut[k] = 0
        BY <3>1, <3>2, <3>3
      <3>4. CASE cut[k] # 0 /\ cut[k] \in fits
        BY <1>2, <3>1, <3>2, <3>4
      <3>5. CASE cut[k] # 0 /\ cut[k] \notin fits
        <4>1. PICK c \in 1 .. (k - 1) : c = cut[k]
          BY <3>1, <3>5
        <4>2. Good(c) /\ f[k] = f[c]
          BY <2>1, <3>2, <3>5, <4>1
        <4> QED
          BY <4>2
      <3> QED
        BY <3>3, <3>4, <3>5
    <2> HIDE DEF Good
    <2>3. \A j \in 1 .. k : Good(j)
      BY <1>2, <2>1, <2>2
    <2> QED
      BY <2>3
  <1>3. 0 .. n \subseteq T
    <2> HIDE DEF T
    <2> QED
      BY <1>1, <1>2, UpTo
  <1>4. n \in T /\ n \in 1 .. n
    BY <1>3
  <1> QED
    BY <1>4

\* Guidance keeps at least a character, and more only where the report fits.
LEMMA TrimGuidanceIs ==
  ASSUME NEW r \in Reports, r.guidance # <<>>, NEW max
  PROVE  \E k \in 1 .. Len(r.guidance) :
           /\ TrimGuidance(r, max) = [r EXCEPT !.guidance = FirstOf(r.guidance, k)]
           /\ SerializedLen(TrimGuidance(r, max)) <= max \/ k = 1
  <1> DEFINE g == r.guidance
             n == Len(g)
             Cut(k) == [r EXCEPT !.guidance = FirstOf(g, k)]
             cut == [k \in 0 .. n |-> CutTo(g, k)]
             fits == {c \in 0 .. n : SerializedLen(Cut(c)) <= max}
             Is(f) == f = [k \in 0 .. n |->
                             IF k = 0 \/ CutTo(g, k) = 0 THEN k
                             ELSE IF SerializedLen(Cut(CutTo(g, k))) <= max THEN CutTo(g, k)
                             ELSE f[CutTo(g, k)]]
  <1>1. g \in Seq(1 .. 4) /\ n \in Nat \ {0}
    BY DEF Reports
  <1>2. \A k \in 1 .. n : CutTo(g, k) \in 0 .. (k - 1) /\ (CutTo(g, k) = 0 => k = 1)
    BY <1>1, CutToIs
  <1>3. TrimGuidance(r, max) = Cut((CHOOSE f : Is(f))[n])
    BY DEF TrimGuidance, CutTo, FirstOf
  <1> HIDE DEF Cut
  <1>4. ASSUME NEW f PROVE Is(f) <=> Trims(f, n, cut, fits)
    <2> DEFINE A == [k \in 0 .. n |->
                             IF k = 0 \/ CutTo(g, k) = 0 THEN k
                             ELSE IF SerializedLen(Cut(CutTo(g, k))) <= max THEN CutTo(g, k)
                             ELSE f[CutTo(g, k)]]
               E == [k \in 0 .. n |-> IF k = 0 \/ cut[k] = 0 THEN k
                                      ELSE IF cut[k] \in fits THEN cut[k] ELSE f[cut[k]]]
    <2>1. ASSUME NEW k \in 0 .. n PROVE A[k] = E[k]
      <3>1. cut[k] = CutTo(g, k)
        OBVIOUS
      <3>2. k > 0 => CutTo(g, k) \in 0 .. n
        BY <1>1, <1>2
      <3>3. k > 0 => (cut[k] \in fits <=> SerializedLen(Cut(CutTo(g, k))) <= max)
        BY <3>1, <3>2
      <3> HIDE DEF cut, fits
      <3> QED
        BY <3>1, <3>3
    <2>2. A = E
      BY <2>1, Zenon
    <2> QED
      BY <2>2 DEF Trims
  <1>5. \A k \in 1 .. n : cut[k] \in 0 .. (k - 1) /\ (cut[k] = 0 => k = 1)
    BY <1>1, <1>2
  <1> HIDE DEF cut, fits, Is
  <1>6. \E f : Is(f)
    <2>1. \E f : Trims(f, n, cut, fits)
      BY <1>1, <1>5, TrimExists
    <2> QED
      BY <1>4, <2>1
  <1>7. PICK f : f = (CHOOSE h : Is(h)) /\ Is(f)
    BY <1>6
  <1>8. f[n] \in 1 .. n /\ (f[n] \in fits \/ f[n] = 1)
    <2>1. Trims(f, n, cut, fits)
      BY <1>4, <1>7
    <2> HIDE DEF n
    <2> QED
      BY <1>1, <1>5, <2>1, TrimEnds
  <1>9. TrimGuidance(r, max) = Cut(f[n])
    BY <1>3, <1>7
  <1>10. f[n] \in fits => SerializedLen(Cut(f[n])) <= max
    BY DEF fits
  <1> QED
    BY <1>8, <1>9, <1>10 DEF Cut

\* What is kept of a part: something the report fits with, if anything does.
LEMMA MostOf ==
  ASSUME NEW n \in Nat, NEW T \in SUBSET (0 .. n)
  PROVE  /\ (IF T = {} THEN 0 ELSE Max(T)) \in 0 .. n
         /\ T # {} => Max(T) \in T
  <1>1. IsFiniteSet(T) /\ T \subseteq Int
    <2>1. IsFiniteSet(0 .. n)
      BY Intervals
    <2>2. IsFiniteSet(T)
      BY <2>1, FS_Subset
    <2> QED
      BY <2>2
  <1>2. T # {} => \E x \in T : \A y \in T : x >= y
    <2>1. PICK f : f = [x \in T |-> x]
      OBVIOUS
    <2>2. \A x \in T : f[x] = x
      BY <2>1
    <2>3. T # {} => \E x \in T : \A y \in T : f[y] <= f[x]
      BY <1>1, <2>2, Greatest
    <2> QED
      BY <1>1, <2>2, <2>3
  <1>3. T # {} => Max(T) \in T
    BY <1>2 DEF Max
  <1>4. CASE T = {}
    BY <1>4
  <1>5. CASE T # {}
    BY <1>3, <1>5
  <1> QED
    BY <1>4, <1>5

\* The three parts that are cut before guidance is, each down to k.
WithTrace(r, k) == [r EXCEPT !.trace = k]
WithOut(r, k) == [r EXCEPT !.out = SubSeq(r.out, 1, k)]
WithIn(r, k) == [r EXCEPT !.in = SubSeq(r.in, 1, k)]

\* r with as much of its trace, its out and its in as fit.
TraceCut(r, max) == WithTrace(r, MostThatFit(r.trace, LAMBDA k : WithTrace(r, k), max))
OutCut(r, max) == WithOut(r, MostThatFit(Len(r.out), LAMBDA k : WithOut(r, k), max))
InCut(r, max) == WithIn(r, MostThatFit(Len(r.in), LAMBDA k : WithIn(r, k), max))

Fits(r, max) == SerializedLen(r) <= max

\* A cut leaves a report that is valid if the whole one was, and changes its
\* own part alone.
Cuts(r, c) ==
    /\ c \in Reports
    /\ ValidReport(r) => ValidReport(c)
    /\ c.guidance = r.guidance

LEMMA TraceCutIs ==
  ASSUME NEW r \in Reports, NEW max
  PROVE  /\ Cuts(r, TraceCut(r, max))
         /\ Fits(TraceCut(r, max), max) \/ TraceCut(r, max).trace = 0
  <1> DEFINE T == {k \in 0 .. r.trace : SerializedLen(WithTrace(r, k)) <= max}
  <1>1. r.trace \in Nat
    BY DEF Reports
  <1>2. PICK m \in 0 .. r.trace : m = (IF T = {} THEN 0 ELSE Max(T)) /\ (T # {} => m \in T)
    BY <1>1, MostOf
  <1>3. TraceCut(r, max) = WithTrace(r, m)
    BY <1>2 DEF TraceCut, MostThatFit
  <1>4. Cuts(r, WithTrace(r, m))
    <2>0. m \in Nat
      BY <1>1, <1>2
    <2>1. PICK w : w = WithTrace(r, m)
      OBVIOUS
    <2>2. /\ w \in Reports /\ w.guidance = r.guidance /\ w.in = r.in /\ w.out = r.out
          /\ w.threshold = r.threshold /\ w.observed = r.observed /\ w.text = r.text
          /\ w.model = r.model /\ w.partial = r.partial
      BY <2>0, <2>1 DEF WithTrace, Reports
    <2> QED
      BY <2>1, <2>2 DEF Cuts, ValidReport
  <1>5. WithTrace(r, m).trace = m
    BY DEF WithTrace, Reports
  <1>6. Fits(WithTrace(r, m), max) \/ m = 0
    BY <1>2 DEF Fits
  <1> QED
    BY <1>3, <1>4, <1>5, <1>6

LEMMA OutCutIs ==
  ASSUME NEW r \in Reports, NEW max
  PROVE  /\ Cuts(r, OutCut(r, max))
         /\ OutCut(r, max).trace = r.trace
         /\ Fits(OutCut(r, max), max) \/ OutCut(r, max).out = <<>>
         /\ Fits(r, max) => Fits(OutCut(r, max), max)
  <1> DEFINE T == {k \in 0 .. Len(r.out) : SerializedLen(WithOut(r, k)) <= max}
  <1>1. r.out \in Seq(Nat) /\ Len(r.out) \in Nat
    BY DEF Reports
  <1>2. PICK m \in 0 .. Len(r.out) : m = (IF T = {} THEN 0 ELSE Max(T)) /\ (T # {} => m \in T)
    BY <1>1, MostOf
  <1>3. OutCut(r, max) = WithOut(r, m)
    BY <1>2 DEF OutCut, MostThatFit
  <1>4. /\ FirstOf(r.out, m) \in Seq(Nat) /\ Len(FirstOf(r.out, m)) = m
        /\ Range(FirstOf(r.out, m)) \subseteq Range(r.out)
    <2>1. m \in 0 .. Len(r.out)
      BY <1>2
    <2>2. PICK q \in Seq(Nat) : q = r.out
      BY <1>1
    <2> QED
      BY <2>1, <2>2, FirstOfIs
  <1>5. WithOut(r, m) = [r EXCEPT !.out = FirstOf(r.out, m)]
    BY DEF WithOut, FirstOf
  <1>6. Cuts(r, WithOut(r, m)) /\ WithOut(r, m).out = FirstOf(r.out, m) /\ WithOut(r, m).trace = r.trace
    BY <1>4, <1>5 DEF Cuts, Reports, ValidReport
  <1>7. Fits(WithOut(r, m), max) \/ WithOut(r, m).out = <<>>
    BY <1>2, <1>4, <1>6 DEF Fits
  <1>8. ASSUME Fits(r, max) PROVE Fits(WithOut(r, m), max)
    <2>1. SubSeq(r.out, 1, Len(r.out)) = r.out
      BY <1>1
    <2>2. WithOut(r, Len(r.out)) = r
      BY <2>1 DEF WithOut, Reports
    <2>3. Len(r.out) \in T
      BY <1>1, <1>8, <2>2 DEF Fits
    <2> QED
      BY <1>2, <2>3 DEF Fits
  <1> QED
    BY <1>3, <1>6, <1>7, <1>8

LEMMA InCutIs ==
  ASSUME NEW r \in Reports, NEW max
  PROVE  /\ Cuts(r, InCut(r, max))
         /\ InCut(r, max).trace = r.trace /\ InCut(r, max).out = r.out
         /\ Fits(InCut(r, max), max) \/ InCut(r, max).in = <<>>
         /\ Fits(r, max) => Fits(InCut(r, max), max)
  <1> DEFINE T == {k \in 0 .. Len(r.in) : SerializedLen(WithIn(r, k)) <= max}
  <1>1. r.in \in Seq(Nat) /\ Len(r.in) \in Nat
    BY DEF Reports
  <1>2. PICK m \in 0 .. Len(r.in) : m = (IF T = {} THEN 0 ELSE Max(T)) /\ (T # {} => m \in T)
    BY <1>1, MostOf
  <1>3. InCut(r, max) = WithIn(r, m)
    BY <1>2 DEF InCut, MostThatFit
  <1>4. /\ FirstOf(r.in, m) \in Seq(Nat) /\ Len(FirstOf(r.in, m)) = m
        /\ Range(FirstOf(r.in, m)) \subseteq Range(r.in)
    <2>1. m \in 0 .. Len(r.in)
      BY <1>2
    <2>2. PICK q \in Seq(Nat) : q = r.in
      BY <1>1
    <2> QED
      BY <2>1, <2>2, FirstOfIs
  <1>5. WithIn(r, m) = [r EXCEPT !.in = FirstOf(r.in, m)]
    BY DEF WithIn, FirstOf
  <1>6. /\ Cuts(r, WithIn(r, m)) /\ WithIn(r, m).in = FirstOf(r.in, m)
        /\ WithIn(r, m).trace = r.trace /\ WithIn(r, m).out = r.out
    BY <1>4, <1>5 DEF Cuts, Reports, ValidReport
  <1>7. Fits(WithIn(r, m), max) \/ WithIn(r, m).in = <<>>
    BY <1>2, <1>4, <1>6 DEF Fits
  <1>8. ASSUME Fits(r, max) PROVE Fits(WithIn(r, m), max)
    <2>1. SubSeq(r.in, 1, Len(r.in)) = r.in
      BY <1>1
    <2>2. WithIn(r, Len(r.in)) = r
      BY <2>1 DEF WithIn, Reports
    <2>3. Len(r.in) \in T
      BY <1>1, <1>8, <2>2 DEF Fits
    <2> QED
      BY <1>2, <2>3 DEF Fits
  <1> QED
    BY <1>3, <1>6, <1>7, <1>8

\* A report that was valid is cut to one that is, and that fits unless nothing
\* is left to cut.
\* (EscalationReport::fit_to: whatever the budget and the report.)
THEOREM ReportsFitOrAreMinimal ==
  ASSUME NEW r \in Reports, ValidReport(r), NEW max
  PROVE  /\ FitTo(r, max) \in Reports /\ ValidReport(FitTo(r, max))
         /\ SerializedLen(FitTo(r, max)) <= max \/ IsMinimal(FitTo(r, max))
  <1> DEFINE flagged == [r EXCEPT !.truncated = TRUE]
  <1>1. flagged \in Reports /\ ValidReport(flagged)
    BY DEF Reports, ValidReport
  <1>2. PICK t : t = TraceCut(flagged, max)
    OBVIOUS
  <1>3. PICK o : o = OutCut(t, max)
    OBVIOUS
  <1>4. PICK i : i = InCut(o, max)
    OBVIOUS
  <1>5. FitTo(r, max) = IF SerializedLen(r) <= max THEN r
                        ELSE IF SerializedLen(i) <= max THEN i ELSE TrimGuidance(i, max)
    BY <1>2, <1>3, <1>4 DEF FitTo, TraceCut, OutCut, InCut, WithTrace, WithOut, WithIn
  <1> HIDE DEF flagged
  <1>6. t \in Reports /\ ValidReport(t) /\ (Fits(t, max) \/ t.trace = 0)
    BY <1>1, <1>2, TraceCutIs DEF Cuts
  <1>7. /\ o \in Reports /\ ValidReport(o) /\ o.trace = t.trace
        /\ Fits(o, max) \/ o.out = <<>>
        /\ Fits(t, max) => Fits(o, max)
    BY <1>3, <1>6, OutCutIs DEF Cuts
  <1>8. /\ i \in Reports /\ ValidReport(i) /\ i.trace = o.trace /\ i.out = o.out
        /\ Fits(i, max) \/ i.in = <<>>
        /\ Fits(o, max) => Fits(i, max)
    BY <1>4, <1>7, InCutIs DEF Cuts
  <1>9. CASE Fits(r, max)
    BY <1>5, <1>9 DEF Fits
  <1>10. CASE ~Fits(r, max) /\ Fits(i, max)
    BY <1>5, <1>8, <1>10 DEF Fits
  <1>11. CASE ~Fits(r, max) /\ ~Fits(i, max)
    <2>1. i.trace = 0 /\ i.out = <<>> /\ i.in = <<>>
      BY <1>6, <1>7, <1>8, <1>11
    <2>2. i.guidance # <<>> /\ i.guidance \in Seq(1 .. 4)
      BY <1>8 DEF ValidReport, Reports
    <2>3. FitTo(r, max) = TrimGuidance(i, max)
      BY <1>5, <1>11 DEF Fits
    <2>4. PICK k \in 1 .. Len(i.guidance) :
             /\ TrimGuidance(i, max) = [i EXCEPT !.guidance = FirstOf(i.guidance, k)]
             /\ SerializedLen(TrimGuidance(i, max)) <= max \/ k = 1
      BY <1>8, <2>2, TrimGuidanceIs
    <2>5. FirstOf(i.guidance, k) \in Seq(1 .. 4) /\ Len(FirstOf(i.guidance, k)) = k
      BY <2>2, FirstOfIs
    <2>6. FirstOf(i.guidance, k) # <<>>
      BY <2>5
    <2>7. TrimGuidance(i, max) \in Reports /\ ValidReport(TrimGuidance(i, max))
      BY <1>8, <2>4, <2>5, <2>6 DEF Reports, ValidReport
    <2>8. k = 1 => IsMinimal(TrimGuidance(i, max))
      BY <1>8, <2>1, <2>4, <2>5 DEF IsMinimal, Reports
    <2> QED
      BY <2>3, <2>4, <2>7, <2>8
  <1> QED
    BY <1>9, <1>10, <1>11

-----------------------------------------------------------------------------
(* What decoders make of documents.                                        *)

\* A result is one thing or the other, and no refusal is the engine's.
Clean(r) == r.ok \in BOOLEAN /\ (~r.ok => r.code # "ir.invalid")

\* A result whose value, if it has one, is in S.
Gives(r, S) == Clean(r) /\ (r.ok => r.v \in S)

LEMMA OkIs ==
  ASSUME NEW v
  PROVE  Clean(Ok(v)) /\ Ok(v).ok /\ Ok(v).v = v
  BY DEF Clean, Ok

LEMMA ErrIs ==
  ASSUME NEW code, code # "ir.invalid"
  PROVE  Clean(Err(code)) /\ ~Err(code).ok
  BY DEF Clean, Err

\* Checks that all pass let the value through, and a refusal is one of theirs.
LEMMA UnlessIs ==
  ASSUME NEW checks, DOMAIN checks \in SUBSET Nat, \A i \in DOMAIN checks : checks[i][2] # "ir.invalid",
         NEW v
  PROVE  /\ Clean(Unless(checks, v))
         /\ Unless(checks, v).ok => Unless(checks, v).v = v /\ \A i \in DOMAIN checks : ~checks[i][1]
  <1> DEFINE met == {i \in DOMAIN checks : checks[i][1]}
  <1>1. CASE met = {}
    <2>1. Unless(checks, v) = Ok(v) /\ \A i \in DOMAIN checks : ~checks[i][1]
      BY <1>1 DEF Unless
    <2> QED
      BY <2>1, OkIs
  <1>2. CASE met # {}
    <2>1. met \in SUBSET Nat
      OBVIOUS
    <2>2. \E x \in met : \A y \in met : x <= y
      <3> HIDE DEF met
      <3> QED
        BY <1>2, <2>1, LeastNumber
    <2>3. Min(met) \in met
      BY <2>2 DEF Min
    <2>4. Unless(checks, v) = Err(checks[Min(met)][2])
      BY <1>2 DEF Unless
    <2> HIDE DEF met
    <2>5. PICK i \in met : i = Min(met)
      BY <2>3
    <2>6. checks[i][2] # "ir.invalid"
      BY <2>5 DEF met
    <2> QED
      BY <2>4, <2>5, <2>6, ErrIs
  <1> QED
    BY <1>1, <1>2

LEMMA NewIdIs ==
  ASSUME NEW id \in Nat
  PROVE  Clean(NewId(id)) /\ (NewId(id).ok => id # 0 /\ NewId(id).v = id)
  BY DEF NewId, Clean, Ok, Err, Empty

\* The first refusal of a sequence of results is one of them.
LEMMA CollectIs ==
  ASSUME NEW rs, DOMAIN rs \in SUBSET Nat, \A i \in DOMAIN rs : Clean(rs[i])
  PROVE  /\ Clean(Collect(rs))
         /\ Collect(rs).ok => /\ \A i \in DOMAIN rs : rs[i].ok
                              /\ Collect(rs).v = [i \in DOMAIN rs |-> rs[i].v]
  <1> DEFINE bad == {i \in DOMAIN rs : ~rs[i].ok}
  <1>1. CASE bad = {}
    <2>1. Collect(rs) = Ok([i \in DOMAIN rs |-> rs[i].v])
      BY <1>1 DEF Collect
    <2>2. \A i \in DOMAIN rs : rs[i].ok
      BY <1>1
    <2> QED
      BY <2>1, <2>2, OkIs
  <1>2. CASE bad # {}
    <2>1. bad \in SUBSET Nat
      OBVIOUS
    <2>2. \E x \in bad : \A y \in bad : x <= y
      <3> HIDE DEF bad
      <3> QED
        BY <1>2, <2>1, LeastNumber
    <2>3. Min(bad) \in bad
      BY <2>2 DEF Min
    <2>4. Collect(rs) = rs[Min(bad)]
      BY <1>2 DEF Collect
    <2> HIDE DEF bad
    <2>5. PICK i \in bad : i = Min(bad)
      BY <2>3
    <2>6. Clean(rs[i]) /\ ~rs[i].ok
      BY <2>5 DEF bad
    <2> QED
      BY <2>4, <2>5, <2>6
  <1> QED
    BY <1>1, <1>2

\* What an error of the IR becomes.
LEMMA FromCoreIs ==
  ASSUME NEW r, r.ok \in BOOLEAN
  PROVE  /\ Clean(FromCore(r)) /\ (FromCore(r).ok => r.ok /\ FromCore(r) = r)
         /\ Clean(InvalidValue(r)) /\ (InvalidValue(r).ok => r.ok /\ InvalidValue(r) = r)
  <1>1. CASE r.ok
    BY <1>1 DEF FromCore, InvalidValue, Clean
  <1>2. CASE ~r.ok
    <2>1. SchemaCode(r.code) # "ir.invalid"
      BY DEF SchemaCode
    <2> QED
      BY <1>2, <2>1, ErrIs DEF FromCore, InvalidValue
  <1> QED
    BY <1>1, <1>2

-----------------------------------------------------------------------------
(* Questions.                                                              *)

\* A question the constructors of the IR build.
Questions ==
    {q \in [kind : {"choice", "boolean", "score"}, id : Nat \ {0}, text : Nat \ {0}, options : Seq(Nat)] :
       /\ Cardinality(Range(q.options)) = Len(q.options)
       /\ q.kind = "choice" => q.options # <<>>
       /\ q.kind = "score" => Len(q.options) >= 2}

\* Without repetition there are as many options as places.
LEMMA Distinct ==
  ASSUME NEW s \in Seq(Nat), ~Repeats(s)
  PROVE  Cardinality(Range(s)) = Len(s)
  <1> DEFINE n == Len(s)
  <1>1. n \in Nat /\ s \in [1 .. n -> Nat] /\ DOMAIN s = 1 .. n
    OBVIOUS
  <1>2. \A i, j \in 1 .. n : s[i] = s[j] => i = j
    BY <1>1 DEF Repeats
  <1>3. Range(s) = {s[i] : i \in 1 .. n}
    BY <1>1 DEF Range
  <1> PICK R : R = Range(s)
    OBVIOUS
  <1>4. s \in Bijection(1 .. n, R)
    BY <1>1, <1>2, <1>3 DEF Bijection, Injection, Surjection, IsInjective
  <1>5. IsFiniteSet(1 .. n) /\ Cardinality(1 .. n) = n
    BY <1>1, Intervals
  <1>6. Cardinality(1 .. n) = Cardinality(R)
    <2>1. ExistsBijection(1 .. n, R)
      BY <1>4 DEF ExistsBijection
    <2> HIDE DEF n
    <2> QED
      BY ONLY <2>1, <1>5, FS_Bijection
  <1> QED
    BY <1>5, <1>6

LEMMA NewChoiceIs ==
  ASSUME NEW id \in Nat, NEW text \in Nat, NEW candidates \in Seq(Nat)
  PROVE  Gives(NewChoice(id, text, candidates), Questions)
  <1> DEFINE checks == << <<~NewId(id).ok, "ir.invalid_id">>,
              <<text = Empty, "ir.empty_field">>,
              <<candidates = <<>>, "ir.empty_candidates">>,
              <<Repeats(candidates), "ir.duplicate_candidate">> >>
             v == Question("choice", id, text, candidates)
  <1>1. DOMAIN checks = 1 .. 4 /\ \A i \in 1 .. 4 : checks[i][2] # "ir.invalid"
    OBVIOUS
  <1>2. NewChoice(id, text, candidates) = Unless(checks, v)
    BY DEF NewChoice
  <1>3. ASSUME \A i \in 1 .. 4 : ~checks[i][1] PROVE v \in Questions
    <2>1. ~checks[1][1] /\ ~checks[2][1] /\ ~checks[3][1] /\ ~checks[4][1]
      BY <1>3
    <2>2. id # 0 /\ text # 0 /\ candidates # <<>> /\ ~Repeats(candidates)
      BY <2>1, NewIdIs DEF Empty
    <2>3. Cardinality(Range(candidates)) = Len(candidates)
      BY <2>2, Distinct
    <2> QED
      BY <2>2, <2>3 DEF Questions, Question
  <1> HIDE DEF checks, v
  <1>4. Clean(Unless(checks, v)) /\ (Unless(checks, v).ok => Unless(checks, v).v = v /\ \A i \in 1 .. 4 : ~checks[i][1])
    BY <1>1, UnlessIs
  <1> QED
    BY <1>2, <1>3, <1>4 DEF Gives

LEMMA NewBooleanIs ==
  ASSUME NEW id \in Nat, NEW text \in Nat
  PROVE  Gives(NewBoolean(id, text), Questions)
  <1> DEFINE checks == << <<text = Empty, "ir.empty_field">>, <<~NewId(id).ok, "ir.invalid_id">> >>
             v == Question("boolean", id, text, <<>>)
  <1>1. DOMAIN checks = 1 .. 2 /\ \A i \in 1 .. 2 : checks[i][2] # "ir.invalid"
    OBVIOUS
  <1>2. NewBoolean(id, text) = Unless(checks, v)
    BY DEF NewBoolean
  <1>3. ASSUME \A i \in 1 .. 2 : ~checks[i][1] PROVE v \in Questions
    <2>1. ~checks[1][1] /\ ~checks[2][1]
      BY <1>3
    <2>2. id # 0 /\ text # 0
      BY <2>1, NewIdIs DEF Empty
    <2>3. PICK e : e = <<>>
      OBVIOUS
    <2>4. e \in Seq(Nat) /\ ~Repeats(e) /\ Len(e) = 0
      BY <2>3 DEF Repeats
    <2>5. Cardinality(Range(e)) = Len(e)
      BY <2>4, Distinct
    <2> QED
      BY <2>2, <2>3, <2>4, <2>5 DEF Questions, Question
  <1> HIDE DEF checks, v
  <1>4. Clean(Unless(checks, v)) /\ (Unless(checks, v).ok => Unless(checks, v).v = v /\ \A i \in 1 .. 2 : ~checks[i][1])
    BY <1>1, UnlessIs
  <1> QED
    BY <1>2, <1>3, <1>4 DEF Gives

LEMMA NewScoreIs ==
  ASSUME NEW id \in Nat, NEW text \in Nat, NEW levels \in Seq(Nat)
  PROVE  Gives(NewScore(id, text, levels), Questions)
  <1> DEFINE checks == << <<~NewId(id).ok, "ir.invalid_id">>,
              <<text = Empty, "ir.empty_field">>,
              <<Len(levels) < 2, "ir.too_few_levels">>,
              <<Repeats(levels), "ir.duplicate_level">> >>
             v == Question("score", id, text, levels)
  <1>1. DOMAIN checks = 1 .. 4 /\ \A i \in 1 .. 4 : checks[i][2] # "ir.invalid"
    OBVIOUS
  <1>2. NewScore(id, text, levels) = Unless(checks, v)
    BY DEF NewScore
  <1>3. ASSUME \A i \in 1 .. 4 : ~checks[i][1] PROVE v \in Questions
    <2>1. ~checks[1][1] /\ ~checks[2][1] /\ ~checks[3][1] /\ ~checks[4][1]
      BY <1>3
    <2>0. Len(levels) \in Nat
      OBVIOUS
    <2>2. id # 0 /\ text # 0 /\ Len(levels) >= 2 /\ ~Repeats(levels)
      <3>1. ~(Len(levels) < 2)
        BY <2>1
      <3> HIDE DEF checks
      <3>2. id # 0 /\ text # 0 /\ ~Repeats(levels)
        BY <2>1, NewIdIs DEF Empty, checks
      <3> QED
        BY <2>0, <3>1, <3>2
    <2>3. Cardinality(Range(levels)) = Len(levels)
      BY <2>2, Distinct
    <2> QED
      BY <2>2, <2>3 DEF Questions, Question
  <1> HIDE DEF checks, v
  <1>4. Clean(Unless(checks, v)) /\ (Unless(checks, v).ok => Unless(checks, v).v = v /\ \A i \in 1 .. 4 : ~checks[i][1])
    BY <1>1, UnlessIs
  <1> QED
    BY <1>2, <1>3, <1>4 DEF Gives

-----------------------------------------------------------------------------
(* Policies.                                                               *)

\* A policy the IR builds: its thresholds are probabilities in order.
IsPolicy(p) ==
    /\ DOMAIN p = {"min", "verify", "abstain", "entropy", "margin", "ood", "threshold", "sentinel", "overlap",
                   "escalate"}
    /\ p.min \in 0 .. One /\ p.verify \in 0 .. One /\ p.abstain \in 0 .. One
    /\ p.abstain <= p.verify /\ p.verify <= p.min
    /\ p.escalate \subseteq 0 .. One

GivesPolicy(r) == Clean(r) /\ (r.ok => IsPolicy(r.v))

\* What a builder sets does not matter to that.
LEMMA OneCheck ==
  ASSUME NEW checks, DOMAIN checks = 1 .. 1, checks[1][2] # "ir.invalid", NEW v
  PROVE  /\ Clean(Unless(checks, v))
         /\ Unless(checks, v).ok => Unless(checks, v).v = v /\ ~checks[1][1]
  BY UnlessIs

LEMMA BuildersKeepPolicies ==
  ASSUME NEW p, IsPolicy(p), NEW x
  PROVE  /\ GivesPolicy(WithEntropyCeiling(p, x))
         /\ GivesPolicy(WithMinMargin(p, x))
         /\ GivesPolicy(WithOodCeiling(p, x))
         /\ GivesPolicy(WithBooleanThreshold(p, x))
         /\ GivesPolicy(WithAbstainCandidate(p, x))
         /\ GivesPolicy(WithMaxLabelOverlap(p, x))
  <1>1. GivesPolicy(WithEntropyCeiling(p, x))
    <2>1. PICK checks : checks = << <<x <= 0, "ir.invalid_policy">> >>
      OBVIOUS
    <2>2. DOMAIN checks = 1 .. 1 /\ checks[1][2] # "ir.invalid"
      BY <2>1
    <2>3. PICK v : v = [p EXCEPT !.entropy = x]
      OBVIOUS
    <2>4. IsPolicy(v)
      BY <2>3 DEF IsPolicy
    <2>5. WithEntropyCeiling(p, x) = Unless(checks, v)
      BY <2>1, <2>3 DEF WithEntropyCeiling
    <2> QED
      BY <2>2, <2>4, <2>5, OneCheck DEF GivesPolicy
  <1>2. GivesPolicy(WithMinMargin(p, x))
    <2>1. PICK checks : checks = << <<~IsUnit(x), "ir.invalid_policy">> >>
      OBVIOUS
    <2>2. DOMAIN checks = 1 .. 1 /\ checks[1][2] # "ir.invalid"
      BY <2>1
    <2>3. PICK v : v = [p EXCEPT !.margin = x]
      OBVIOUS
    <2>4. IsPolicy(v)
      BY <2>3 DEF IsPolicy
    <2>5. WithMinMargin(p, x) = Unless(checks, v)
      BY <2>1, <2>3 DEF WithMinMargin
    <2> QED
      BY <2>2, <2>4, <2>5, OneCheck DEF GivesPolicy
  <1>3. GivesPolicy(WithOodCeiling(p, x))
    <2>1. PICK checks : checks = << <<x # Infinity /\ ~IsUnit(x), "ir.invalid_policy">> >>
      OBVIOUS
    <2>2. DOMAIN checks = 1 .. 1 /\ checks[1][2] # "ir.invalid"
      BY <2>1
    <2>3. PICK v : v = [p EXCEPT !.ood = x]
      OBVIOUS
    <2>4. IsPolicy(v)
      BY <2>3 DEF IsPolicy
    <2>5. WithOodCeiling(p, x) = Unless(checks, v)
      BY <2>1, <2>3 DEF WithOodCeiling
    <2> QED
      BY <2>2, <2>4, <2>5, OneCheck DEF GivesPolicy
  <1>4. GivesPolicy(WithBooleanThreshold(p, x))
    <2>1. PICK checks : checks = << <<x \notin 0..(One - 1), "ir.invalid_policy">> >>
      OBVIOUS
    <2>2. DOMAIN checks = 1 .. 1 /\ checks[1][2] # "ir.invalid"
      BY <2>1
    <2>3. PICK v : v = [p EXCEPT !.threshold = {x}]
      OBVIOUS
    <2>4. IsPolicy(v)
      BY <2>3 DEF IsPolicy
    <2>5. WithBooleanThreshold(p, x) = Unless(checks, v)
      BY <2>1, <2>3 DEF WithBooleanThreshold
    <2> QED
      BY <2>2, <2>4, <2>5, OneCheck DEF GivesPolicy
  <1>5. GivesPolicy(WithAbstainCandidate(p, x))
    <2>1. PICK checks : checks = << <<x = Empty, "ir.empty_field">> >>
      OBVIOUS
    <2>2. DOMAIN checks = 1 .. 1 /\ checks[1][2] # "ir.invalid"
      BY <2>1
    <2>3. PICK v : v = [p EXCEPT !.sentinel = {x}]
      OBVIOUS
    <2>4. IsPolicy(v)
      BY <2>3 DEF IsPolicy
    <2>5. WithAbstainCandidate(p, x) = Unless(checks, v)
      BY <2>1, <2>3 DEF WithAbstainCandidate
    <2> QED
      BY <2>2, <2>4, <2>5, OneCheck DEF GivesPolicy
  <1>6. GivesPolicy(WithMaxLabelOverlap(p, x))
    <2>1. PICK checks : checks = << <<x \notin 1..One, "ir.invalid_policy">> >>
      OBVIOUS
    <2>2. DOMAIN checks = 1 .. 1 /\ checks[1][2] # "ir.invalid"
      BY <2>1
    <2>3. PICK v : v = [p EXCEPT !.overlap = {x}]
      OBVIOUS
    <2>4. IsPolicy(v)
      BY <2>3 DEF IsPolicy
    <2>5. WithMaxLabelOverlap(p, x) = Unless(checks, v)
      BY <2>1, <2>3 DEF WithMaxLabelOverlap
    <2> QED
      BY <2>2, <2>4, <2>5, OneCheck DEF GivesPolicy
  <1> QED
    BY <1>1, <1>2, <1>3, <1>4, <1>5, <1>6

LEMMA EscalateIs ==
  ASSUME NEW p, IsPolicy(p), NEW x
  PROVE  GivesPolicy(WithEscalateBelow(p, x))
  <1> DEFINE checks == << <<~IsUnit(x), "ir.invalid_policy">>,
                          <<x \notin p.abstain .. p.min, "ir.invalid_policy">> >>
             v == [p EXCEPT !.escalate = {x}]
  <1>1. DOMAIN checks = 1 .. 2 /\ \A i \in 1 .. 2 : checks[i][2] # "ir.invalid"
    OBVIOUS
  <1>2. WithEscalateBelow(p, x) = Unless(checks, v)
    BY DEF WithEscalateBelow
  <1>3. ASSUME \A i \in 1 .. 2 : ~checks[i][1] PROVE IsPolicy(v)
    <2>1. IsUnit(x)
      <3>1. ~checks[1][1]
        BY <1>3
      <3> QED
        BY <3>1, Zenon DEF IsUnit
    <2> QED
      BY <2>1 DEF IsPolicy, IsUnit
  <1> HIDE DEF checks, v
  <1>4. Clean(Unless(checks, v)) /\ (Unless(checks, v).ok => Unless(checks, v).v = v /\ \A i \in 1 .. 2 : ~checks[i][1])
    BY <1>1, UnlessIs
  <1> QED
    BY <1>2, <1>3, <1>4 DEF GivesPolicy

LEMMA DefaultPolicyIs == IsPolicy(DefaultPolicy)
  <1>1. One \in Nat \ {0}
    BY IRAssumption
  <1>2. (4 * One) \div 5 \in 0 .. One /\ (13 * One) \div 20 \in 0 .. One /\ One \div 2 \in 0 .. One
    BY <1>1
  <1>3. One \div 2 <= (13 * One) \div 20 /\ (13 * One) \div 20 <= (4 * One) \div 5
    BY <1>1
  <1> QED
    BY <1>2, <1>3 DEF IsPolicy, DefaultPolicy

LEMMA PolicyNewIs ==
  ASSUME NEW min, NEW verify, NEW abstain
  PROVE  GivesPolicy(PolicyNew(min, verify, abstain))
  <1> DEFINE checks == << <<~(IsUnit(min) /\ IsUnit(verify) /\ IsUnit(abstain)), "ir.invalid_policy">>,
                          <<~(abstain <= verify /\ verify <= min), "ir.invalid_policy">> >>
             v == [DefaultPolicy EXCEPT !.min = min, !.verify = verify, !.abstain = abstain]
  <1>1. DOMAIN checks = 1 .. 2 /\ \A i \in 1 .. 2 : checks[i][2] # "ir.invalid"
    OBVIOUS
  <1>2. PolicyNew(min, verify, abstain) = Unless(checks, v)
    BY DEF PolicyNew
  <1>3. ASSUME \A i \in 1 .. 2 : ~checks[i][1] PROVE IsPolicy(v)
    <2>0. ~checks[1][1] /\ ~checks[2][1]
      BY <1>3
    <2>1. IsUnit(min) /\ IsUnit(verify) /\ IsUnit(abstain)
      BY <2>0, Zenon DEF IsUnit
    <2>2. abstain <= verify /\ verify <= min
      BY <2>0, <2>1 DEF IsUnit
    <2>3. IsPolicy(DefaultPolicy)
      BY DefaultPolicyIs
    <2> QED
      BY <2>1, <2>2, <2>3 DEF IsPolicy, IsUnit
  <1> HIDE DEF checks, v
  <1>4. Clean(Unless(checks, v)) /\ (Unless(checks, v).ok => Unless(checks, v).v = v /\ \A i \in 1 .. 2 : ~checks[i][1])
    BY <1>1, UnlessIs
  <1> QED
    BY <1>2, <1>3, <1>4 DEF GivesPolicy

\* A policy read from a document is one the IR would build.
LEMMA NewPolicyIs ==
  ASSUME NEW raw
  PROVE  GivesPolicy(NewPolicy(raw))
  <1> DEFINE c8(p) == Applied(raw.escalate, p, WithEscalateBelow)
             c7(p) == Then(Applied(raw.overlap, p, WithMaxLabelOverlap), LAMBDA q : c8(q))
             c6(p) == Then(Applied(raw.sentinel, p, WithAbstainCandidate), LAMBDA q : c7(q))
             c5(p) == Then(Applied(raw.threshold, p, WithBooleanThreshold), LAMBDA q : c6(q))
             c4(p) == Then(Applied(raw.ood, p, WithOodCeiling), LAMBDA q : c5(q))
             c3(p) == Then(Applied(raw.margin, p, WithMinMargin), LAMBDA q : c4(q))
             c2(p) == Then(Applied(raw.entropy, p, WithEntropyCeiling), LAMBDA q : c3(q))
  <1>0. \A p : IsPolicy(p) => GivesPolicy(Ok(p))
    BY OkIs DEF GivesPolicy
  <1> HIDE DEF c2, c3, c4, c5, c6, c7, c8
  <1>8. ASSUME NEW p, IsPolicy(p) PROVE GivesPolicy(c8(p))
    BY <1>0, <1>8, EscalateIs DEF Applied, c8
  <1>7. ASSUME NEW p, IsPolicy(p) PROVE GivesPolicy(c7(p))
    BY <1>0, <1>7, <1>8, BuildersKeepPolicies DEF Applied, Then, GivesPolicy, c7
  <1>6. ASSUME NEW p, IsPolicy(p) PROVE GivesPolicy(c6(p))
    BY <1>0, <1>6, <1>7, BuildersKeepPolicies DEF Applied, Then, GivesPolicy, c6
  <1>5. ASSUME NEW p, IsPolicy(p) PROVE GivesPolicy(c5(p))
    BY <1>0, <1>5, <1>6, BuildersKeepPolicies DEF Applied, Then, GivesPolicy, c5
  <1>4. ASSUME NEW p, IsPolicy(p) PROVE GivesPolicy(c4(p))
    BY <1>0, <1>4, <1>5, BuildersKeepPolicies DEF Applied, Then, GivesPolicy, c4
  <1>3. ASSUME NEW p, IsPolicy(p) PROVE GivesPolicy(c3(p))
    BY <1>0, <1>3, <1>4, BuildersKeepPolicies DEF Applied, Then, GivesPolicy, c3
  <1>2. ASSUME NEW p, IsPolicy(p) PROVE GivesPolicy(c2(p))
    BY <1>0, <1>2, <1>3, BuildersKeepPolicies DEF Applied, Then, GivesPolicy, c2
  <1>1. NewPolicy(raw) = Then(PolicyNew(raw.min, raw.verify, raw.abstain), LAMBDA p : c2(p))
    BY DEF NewPolicy, c2, c3, c4, c5, c6, c7, c8
  <1> QED
    BY <1>1, <1>2, PolicyNewIs DEF Then, GivesPolicy

-----------------------------------------------------------------------------
(* Requests.                                                               *)

IsState(s) == DOMAIN s = {"text", "images", "facts"} /\ s.text \in Nat /\ s.images \in Seq(Nat)

\* A request the IR builds keeps its own limits.
IsRequest(r) ==
    /\ IsState(r.state) /\ r.questions \in Seq(Questions) /\ r.questions # <<>>
    /\ IsPolicy(r.policy) /\ r.limits \in [LimitNames -> Nat]
    /\ Len(r.questions) <= r.limits.questions
    /\ r.state.text <= r.limits.input_bytes
    /\ Len(r.state.images) <= r.limits.images
    /\ \A i \in DOMAIN r.state.images : r.state.images[i] <= r.limits.image_bytes
    /\ \A i \in DOMAIN r.questions :
          r.questions[i].kind = "choice" => Len(r.questions[i].options) <= r.limits.candidates

\* A result whose request, if it has one, has these limits.
GivesRequest(r, limits) == Clean(r) /\ (r.ok => IsRequest(r.v) /\ r.v.limits = limits)

LEMMA NewRequestIs ==
  ASSUME NEW state, IsState(state), NEW questions \in Seq(Questions), NEW policy, IsPolicy(policy),
         NEW limits \in [LimitNames -> Nat]
  PROVE  GivesRequest(NewRequest(state, questions, policy, limits), limits)
  <1> DEFINE tooLarge == \E i \in DOMAIN state.images : state.images[i] > limits.image_bytes
             tooMany == \E q \in Range(questions) : q.kind = "choice" /\ Len(q.options) > limits.candidates
             checks == << <<questions = <<>>, "ir.empty_questions">>,
                  <<Len(questions) > limits.questions, "ir.invalid_policy">>,
                  <<state.text > limits.input_bytes, "ir.invalid_policy">>,
                  <<Len(state.images) > limits.images, "ir.too_many_images">>,
                  <<tooLarge, "ir.image_too_large">>,
                  <<tooMany, "ir.invalid_policy">> >>
             v == [state |-> state, questions |-> questions, policy |-> policy, limits |-> limits]
  <1>1. DOMAIN checks = 1 .. 6 /\ \A i \in 1 .. 6 : checks[i][2] # "ir.invalid"
    OBVIOUS
  <1>2. NewRequest(state, questions, policy, limits) = Unless(checks, v)
    BY DEF NewRequest
  <1>3. ASSUME \A i \in 1 .. 6 : ~checks[i][1] PROVE IsRequest(v)
    <2>0. /\ ~checks[1][1] /\ ~checks[2][1] /\ ~checks[3][1] /\ ~checks[4][1] /\ ~checks[5][1] /\ ~checks[6][1]
      BY <1>3
    <2>1. questions # <<>> /\ ~(Len(questions) > limits.questions) /\ ~(state.text > limits.input_bytes)
          /\ ~(Len(state.images) > limits.images)
      <3> HIDE DEF tooLarge, tooMany
      <3> QED
        BY <2>0
    <2>2. ~tooLarge /\ ~tooMany
      <3> HIDE DEF tooLarge, tooMany
      <3> QED
        BY <2>0, Zenon
    <2> HIDE DEF checks
    <2>3. /\ limits.questions \in Nat /\ limits.input_bytes \in Nat /\ limits.images \in Nat
          /\ limits.image_bytes \in Nat /\ limits.candidates \in Nat
      BY DEF LimitNames
    <2>4. Len(questions) <= limits.questions
      BY <2>1, <2>3
    <2>5. state.text <= limits.input_bytes
      BY <2>1, <2>3 DEF IsState
    <2>6. Len(state.images) <= limits.images
      BY <2>1, <2>3 DEF IsState
    <2>7. ASSUME NEW i \in DOMAIN state.images PROVE state.images[i] <= limits.image_bytes
      BY <2>2, <2>3 DEF IsState
    <2>8. ASSUME NEW i \in DOMAIN questions, questions[i].kind = "choice"
          PROVE  Len(questions[i].options) <= limits.candidates
      <3>1. questions[i] \in Range(questions) /\ questions[i] \in Questions
        BY DEF Range
      <3>2. Len(questions[i].options) \in Nat
        BY <3>1 DEF Questions
      <3>3. ~(Len(questions[i].options) > limits.candidates)
        BY <2>2, <2>8, <3>1
      <3> QED
        BY <2>3, <3>2, <3>3
    <2> QED
      BY <2>1, <2>4, <2>5, <2>6, <2>7, <2>8 DEF IsRequest
  <1>4. v.limits = limits
    OBVIOUS
  <1> HIDE DEF checks, v
  <1>5. Clean(Unless(checks, v)) /\ (Unless(checks, v).ok => Unless(checks, v).v = v /\ \A i \in 1 .. 6 : ~checks[i][1])
    BY <1>1, UnlessIs
  <1> QED
    BY <1>2, <1>3, <1>4, <1>5 DEF GivesRequest

-----------------------------------------------------------------------------
(* Lists.                                                                  *)

\* The members of a finite set of labels, in order.
LEMMA SortedIs ==
  ASSUME NEW S \in SUBSET Nat, IsFiniteSet(S)
  PROVE  Sorted(S) \in [1 .. Cardinality(S) -> S] /\ Cardinality(S) \in Nat
  <1> PICK R : R = {p \in S \X S : p[1] < p[2]}
    OBVIOUS
  <1>1. \A a, b \in S : <<a, b>> \in R <=> a < b
    OBVIOUS
  <1>2. Ordered(S, R)
    BY <1>1 DEF Ordered
  <1>3. PICK s : s = InOrder(S, R)
    OBVIOUS
  <1>4. Cardinality(S) \in Nat
    BY FS_CardinalityType
  <1>5. /\ s \in [1 .. Cardinality(S) -> S]
        /\ \A i, j \in 1 .. Cardinality(S) : i < j <=> <<s[i], s[j]>> \in R
    BY <1>2, <1>3, InOrderIs
  <1>6. \A i, j \in DOMAIN s : i < j => s[i] < s[j]
    BY <1>1, <1>5
  <1>7. \E t \in [1 .. Cardinality(S) -> S] : \A i, j \in DOMAIN t : i < j => t[i] < t[j]
    BY <1>5, <1>6
  <1> QED
    BY <1>4, <1>7 DEF Sorted


\* Lists one after the other.
Joined(a, b) == a \o b

LEMMA FlattenIs ==
  ASSUME NEW S, NEW seqs \in Seq(Seq(S))
  PROVE  FlattenSeq(seqs) \in Seq(S)
  <1>0. PICK n \in Nat : n = Len(seqs)
    OBVIOUS
  <1> DEFINE Is(f) == f = [i \in 1 .. n |-> IF i = 1 THEN seqs[i] ELSE Joined(f[i - 1], seqs[i])]
  <1>1. \A i \in 1 .. n : seqs[i] \in Seq(S)
    BY <1>0
  <1>2. CASE n = 0
    <2>1. seqs = <<>>
      BY <1>0, <1>2, EmptySeq
    <2>2. FlattenSeq(seqs) = seqs
      BY <1>0, <1>2 DEF FlattenSeq
    <2> QED
      BY ONLY <2>1, <2>2, EmptySeq
  <1>3. CASE n > 0
    <2> DEFINE next == [i \in 1 .. n |-> [v \in Seq(S) |-> Joined(v, seqs[i])]]
    <2>1. next \in [1 .. n -> [Seq(S) -> Seq(S)]]
      BY <1>1 DEF Joined
    <2>2. <<>> \in Seq(S)
      OBVIOUS
    <2>3. PICK g \in [0 .. n -> Seq(S)] : Follows(g, n, <<>>, next)
      <3> HIDE DEF next
      <3> QED
        BY <2>1, <2>2, RecursionUpTo
    <2>4. \A i \in 1 .. n : g[i - 1] \in Seq(S)
      <3> TAKE i \in 1 .. n
      <3>1. i - 1 \in 0 .. n
        OBVIOUS
      <3> QED
        BY <3>1
    <2>5. g[0] = <<>> /\ \A i \in 1 .. n : g[i] = Joined(g[i - 1], seqs[i])
      <3>1. g[0] = <<>> /\ \A i \in 1 .. n : g[i] = next[i][g[i - 1]]
        BY <2>3 DEF Follows
      <3> QED
        BY <2>4, <3>1
    <2> HIDE DEF next
    <2>6. PICK h : h = [i \in 1 .. n |-> g[i]]
      OBVIOUS
    <2>7. \A i \in 1 .. n : h[i] = IF i = 1 THEN seqs[i] ELSE Joined(h[i - 1], seqs[i])
      <3> TAKE i \in 1 .. n
      <3>0. h[i] = Joined(g[i - 1], seqs[i]) /\ i \in Int /\ i >= 1 /\ i <= n
        BY <2>5, <2>6
      <3>1. CASE i = 1
        <4>1. h[i] = Joined(<<>>, seqs[i]) /\ seqs[i] \in Seq(S)
          BY <1>1, <2>5, <3>0, <3>1
        <4>2. Joined(<<>>, seqs[i]) = seqs[i]
          BY <4>1 DEF Joined
        <4> QED
          BY <3>1, <4>1, <4>2
      <3>2. CASE i > 1
        <4>1. h[i - 1] = g[i - 1]
          <5>1. i - 1 \in 1 .. n
            BY <3>0, <3>2
          <5> QED
            BY <2>6, <5>1
        <4> QED
          BY <3>0, <3>2, <4>1
      <3> QED
        BY <3>0, <3>1, <3>2
    <2>8. Is(h)
      <3>1. h = [i \in 1 .. n |-> h[i]]
        BY <2>6
      <3> QED
        BY <2>7, <3>1, Zenon
    <2>9. \E f : Is(f)
      <3> HIDE DEF Is
      <3> QED
        BY <2>8
    <2>10. PICK f : f = (CHOOSE x : Is(x)) /\ Is(f)
      BY <2>9
    <2>11. FlattenSeq(seqs) = f[n]
      BY <1>0, <1>3, <2>10 DEF FlattenSeq, Joined
    <2>12. \A i \in 1 .. n : f[i] = IF i = 1 THEN seqs[i] ELSE Joined(f[i - 1], seqs[i])
      BY <2>10
    <2> HIDE DEF Is
    <2> DEFINE T == {i \in 0 .. n : i > 0 => f[i] \in Seq(S)}
    <2>13. 0 \in T
      OBVIOUS
    <2>14. ASSUME NEW i \in 0 .. n, i > 0, i - 1 \in T PROVE i \in T
      <3>0. i \in 1 .. n
        BY <2>14
      <3>1. f[i] = IF i = 1 THEN seqs[i] ELSE Joined(f[i - 1], seqs[i])
        BY <2>12, <3>0
      <3>2. seqs[i] \in Seq(S)
        BY <1>1, <3>0
      <3>3. i > 1 => f[i - 1] \in Seq(S)
        BY <2>14
      <3>4. CASE i = 1
        BY <3>1, <3>2, <3>4
      <3>5. CASE i > 1
        <4>1. PICK w \in Seq(S) : w = f[i - 1]
          BY <3>3, <3>5
        <4>2. f[i] = Joined(w, seqs[i])
          BY <3>1, <3>5, <4>1
        <4>3. \A y \in Seq(S) : Joined(w, y) \in Seq(S)
          BY <4>1 DEF Joined
        <4>4. f[i] \in Seq(S)
          BY <3>2, <4>2, <4>3
        <4> HIDE DEF Joined
        <4> QED
          BY <4>4
      <3> QED
        BY <3>0, <3>4, <3>5
    <2>15. 0 .. n \subseteq T
      <3> HIDE DEF T
      <3> QED
        BY <2>13, <2>14, UpTo
    <2>16. n \in T
      BY <2>15
    <2> QED
      BY <1>3, <2>11, <2>16
  <1> QED
    BY <1>2, <1>3

-----------------------------------------------------------------------------
(* Fields and states.                                                      *)

\* A field that is read has its value.
LEMMA FieldIs ==
  ASSUME NEW f
  PROVE  /\ Clean(AsTyped(f)) /\ (AsTyped(f).ok => f.is = "given" /\ AsTyped(f).v = f.v)
         /\ Clean(Required(f)) /\ (Required(f).ok => f.is = "given" /\ Required(f).v = f.v)
         /\ Clean(Nullable(f))
         /\ Nullable(f).ok => Nullable(f).v = {} \/ (f.is = "given" /\ Nullable(f).v = {f.v})
  <1>1. Clean(AsTyped(f)) /\ (AsTyped(f).ok => f.is = "given" /\ AsTyped(f).v = f.v)
    BY DEF AsTyped, Clean, Ok, Err
  <1>2. Clean(Required(f)) /\ (Required(f).ok => f.is = "given" /\ Required(f).v = f.v)
    BY <1>1, ErrIs DEF Required
  <1>3. Clean(Nullable(f)) /\ (Nullable(f).ok => Nullable(f).v = {} \/ (f.is = "given" /\ Nullable(f).v = {f.v}))
    BY <1>1, OkIs DEF Nullable, Then
  <1> QED
    BY <1>1, <1>2, <1>3

\* A field that holds something given holds a member.
LEMMA HoldingIs ==
  ASSUME NEW S, NEW f \in Holding(S), f.is = "given"
  PROVE  f.v \in S
  BY DEF Holding, Absent, Null, Wrong

\* What a sequence of fields is read as, of which each was.
GivesState(r) == Clean(r) /\ (r.ok => IsState(r.v))

LEMMA FromTextIs ==
  ASSUME NEW n \in Nat
  PROVE  /\ IsState(FromText(n)) /\ GivesState(Ok(FromText(n)))
         /\ \A images \in Seq(Nat) : IsState([FromText(n) EXCEPT !.images = images])
  <1>1. IsState(FromText(n))
    BY EmptySeq DEF IsState, FromText
  <1>2. \A images \in Seq(Nat) : IsState([FromText(n) EXCEPT !.images = images])
    BY <1>1 DEF IsState
  <1> QED
    BY <1>1, <1>2, OkIs DEF GivesState

LEMMA WithFactsIs ==
  ASSUME NEW state, IsState(state), NEW facts
  PROVE  GivesState(WithFacts(state, facts))
  <1>1. CASE BadFact \in Range(facts)
    BY <1>1, ErrIs DEF WithFacts, GivesState
  <1>2. CASE BadFact \notin Range(facts)
    <2>1. PICK x : x = facts @@ state.facts
      OBVIOUS
    <2>2. WithFacts(state, facts) = Ok([state EXCEPT !.facts = x])
      BY <1>2, <2>1 DEF WithFacts
    <2>3. IsState([state EXCEPT !.facts = x])
      BY DEF IsState
    <2> QED
      BY <2>2, <2>3, OkIs DEF GivesState
  <1> QED
    BY <1>1, <1>2

LEMMA PartIs ==
  ASSUME NEW part \in Holding(ContentPart), NEW elsewhere, elsewhere # "ir.invalid"
  PROVE  GivesState(Part(part, elsewhere))
  <1>1. PICK a : a = AsTyped(part) /\ Clean(a) /\ (a.ok => part.is = "given" /\ a.v = part.v)
    BY FieldIs
  <1>2. CASE ~a.ok
    <2>1. Part(part, elsewhere) = a
      BY <1>1, <1>2 DEF Part, Then
    <2> QED
      BY <1>1, <1>2, <2>1 DEF GivesState
  <1>3. CASE a.ok
    <2>1. PICK p \in ContentPart : p = a.v
      BY <1>1, <1>3, HoldingIs
    <2>2. PICK b : b = Required(p.body) /\ Clean(b) /\ (b.ok => p.body.is = "given" /\ b.v = p.body.v)
      BY FieldIs
    <2> DEFINE image(n) == Unless(<< <<n = Unusable, "schema.invalid_value">>, <<n = Elsewhere, elsewhere>> >>,
                                  [FromText(0) EXCEPT !.images = <<n>>])
    <2>3. Part(part, elsewhere) =
            CASE p.type = "text" -> (IF b.ok THEN Ok(FromText(b.v)) ELSE b)
              [] p.type = "image" -> (IF b.ok THEN image(b.v) ELSE b)
              [] OTHER -> Err("schema.unsupported_construct")
      BY <1>1, <1>3, <2>1, <2>2 DEF Part, Then
    <2> HIDE DEF image
    <2>4. CASE p.type = "text"
      <3>1. Part(part, elsewhere) = IF b.ok THEN Ok(FromText(b.v)) ELSE b
        BY <2>3, <2>4
      <3>2. p.body \in Holding(Nat)
        BY <2>4 DEF ContentPart
      <3>3. b.ok => b.v \in Nat
        BY <2>2, <3>2, HoldingIs
      <3> QED
        BY <2>2, <3>1, <3>3, FromTextIs DEF GivesState
    <2>5. CASE p.type = "image"
      <3>1. Part(part, elsewhere) = IF b.ok THEN image(b.v) ELSE b
        BY <2>3, <2>5
      <3>2. p.body \in Holding(Nat \cup {Unusable, Elsewhere})
        BY <2>5 DEF ContentPart
      <3>3. b.ok => b.v \in Nat \cup {Unusable, Elsewhere}
        BY <2>2, <3>2, HoldingIs
      <3>4. ASSUME NEW n \in Nat \cup {Unusable, Elsewhere} PROVE GivesState(image(n))
        <4> DEFINE checks == << <<n = Unusable, "schema.invalid_value">>, <<n = Elsewhere, elsewhere>> >>
                   v == [FromText(0) EXCEPT !.images = <<n>>]
        <4>1. DOMAIN checks = 1 .. 2 /\ \A i \in 1 .. 2 : checks[i][2] # "ir.invalid"
          OBVIOUS
        <4>2. image(n) = Unless(checks, v)
          BY DEF image
        <4>3. ASSUME \A i \in 1 .. 2 : ~checks[i][1] PROVE IsState(v)
          <5>0. ~checks[1][1] /\ ~checks[2][1]
            BY <4>3
          <5>1. n # Unusable /\ n # Elsewhere
            BY <5>0
          <5>2. <<n>> \in Seq(Nat)
            <6>1. n \in Nat
              BY <5>1
            <6> QED
              BY <6>1
          <5> QED
            BY <5>2, FromTextIs
        <4> HIDE DEF checks, v
        <4>4. Clean(Unless(checks, v)) /\ (Unless(checks, v).ok => Unless(checks, v).v = v /\ \A i \in 1 .. 2 : ~checks[i][1])
          BY <4>1, UnlessIs
        <4> QED
          BY <4>2, <4>3, <4>4 DEF GivesState
      <3> QED
        BY <2>2, <3>1, <3>3, <3>4 DEF GivesState
    <2>6. CASE p.type # "text" /\ p.type # "image"
      <3>1. Part(part, elsewhere) = Err("schema.unsupported_construct")
        BY <2>3, <2>6
      <3> QED
        BY <3>1, ErrIs DEF GivesState
    <2> QED
      BY <2>4, <2>5, <2>6
  <1> QED
    BY <1>1, <1>2, <1>3 DEF Clean

\* Parts put together are a state.
LEMMA GatheredIs ==
  ASSUME NEW n \in Nat, NEW states, DOMAIN states = 1 .. n, \A i \in 1 .. n : IsState(states[i])
  PROVE  IsState(Gathered(states))
  <1>1. PICK texts : texts = [i \in 1 .. n |-> states[i].text]
    OBVIOUS
  <1>2. SumFunction(texts) \in Nat
    <2>1. IsFiniteSet(1 .. n) /\ DOMAIN texts = 1 .. n /\ \A i \in 1 .. n : texts[i] \in Nat
      BY <1>1, Intervals DEF IsState
    <2> QED
      BY <2>1, SumNat DEF SumFunction
  <1>3. PICK images : images = [i \in 1 .. n |-> states[i].images]
    OBVIOUS
  <1>4. images \in Seq(Seq(Nat))
    BY <1>3 DEF IsState
  <1>5. FlattenSeq(images) \in Seq(Nat)
    BY <1>4, FlattenIs
  <1>6. Gathered(states) = [FromText(SumFunction(texts)) EXCEPT !.images = FlattenSeq(images)]
    BY <1>1, <1>3 DEF Gathered
  <1> QED
    BY <1>2, <1>5, <1>6, FromTextIs

LEMMA ContentIs ==
  ASSUME NEW c \in ContentOfDocument, NEW elsewhere, elsewhere # "ir.invalid"
  PROVE  GivesState(Content(c, elsewhere))
  <1>1. CASE c.kind = "text"
    <2>1. c.text \in Nat /\ Content(c, elsewhere) = Ok(FromText(c.text))
      BY <1>1 DEF ContentOfDocument, Content
    <2> QED
      BY <2>1, FromTextIs
  <1>2. CASE c.kind # "text"
    <2>1. c.parts \in Seq(Holding(ContentPart)) /\ Content(c, elsewhere) = StateFromParts(c.parts, elsewhere)
      BY <1>2 DEF ContentOfDocument, Content
    <2>2. PICK n \in Nat : n = Len(c.parts) /\ DOMAIN c.parts = 1 .. n
      BY <2>1
    <2>3. PICK rs : rs = [i \in DOMAIN c.parts |-> Part(c.parts[i], elsewhere)]
      OBVIOUS
    <2>4. DOMAIN rs = 1 .. n /\ \A i \in 1 .. n : GivesState(rs[i])
      BY <2>1, <2>2, <2>3, PartIs
    <2>5. PICK all : all = Collect(rs)
      OBVIOUS
    <2>6. Clean(all) /\ (all.ok => all.v = [i \in 1 .. n |-> rs[i].v] /\ \A i \in 1 .. n : rs[i].ok)
      BY <2>4, <2>5, CollectIs DEF GivesState
    <2>7. StateFromParts(c.parts, elsewhere) = IF all.ok THEN Ok(Gathered(all.v)) ELSE all
      BY <2>3, <2>5 DEF StateFromParts, Each, Then
    <2>8. all.ok => IsState(Gathered(all.v))
      <3> SUFFICES ASSUME all.ok PROVE IsState(Gathered(all.v))
        OBVIOUS
      <3>1. DOMAIN all.v = 1 .. n /\ \A i \in 1 .. n : IsState(all.v[i])
        BY <2>4, <2>6 DEF GivesState
      <3> QED
        BY <3>1, GatheredIs
    <2> QED
      BY <2>1, <2>6, <2>7, <2>8, OkIs DEF GivesState
  <1> QED
    BY <1>1, <1>2

-----------------------------------------------------------------------------
(* The OpenAI schema.                                                      *)

\* A list of fields, or of values, each of which was read.
LEMMA ReadEach ==
  ASSUME NEW n \in Nat, NEW rs, DOMAIN rs = 1 .. n, NEW S, \A i \in 1 .. n : Gives(rs[i], S)
  PROVE  Gives(Collect(rs), Seq(S)) /\ (Collect(rs).ok => Len(Collect(rs).v) = n /\ \A i \in 1 .. n : rs[i].ok)
  <1>1. Clean(Collect(rs)) /\ (Collect(rs).ok => /\ \A i \in 1 .. n : rs[i].ok
                                                /\ Collect(rs).v = [i \in 1 .. n |-> rs[i].v])
    BY CollectIs DEF Gives
  <1>2. ASSUME Collect(rs).ok PROVE Collect(rs).v \in Seq(S) /\ Len(Collect(rs).v) = n
    <2>1. Collect(rs).v \in [1 .. n -> S]
      BY <1>1, <1>2 DEF Gives
    <2> QED
      BY <2>1
  <1> QED
    BY <1>1, <1>2 DEF Gives

LEMMA CandidatesAndLevels ==
  ASSUME NEW labels \in Seq(Nat)
  PROVE  Gives(Each(labels, NewCandidate), Seq(Nat)) /\ Gives(Each(labels, NewLevel), Seq(Nat))
  <1> PICK n \in Nat : n = Len(labels) /\ DOMAIN labels = 1 .. n /\ \A i \in 1 .. n : labels[i] \in Nat
    OBVIOUS
  <1>1. PICK cs : cs = [i \in DOMAIN labels |-> NewCandidate(labels[i])]
    OBVIOUS
  <1>2. PICK ls : ls = [i \in DOMAIN labels |-> NewLevel(labels[i])]
    OBVIOUS
  <1>3. \A i \in 1 .. n : Gives(cs[i], Nat)
    BY <1>1, NewIdIs DEF Gives, NewCandidate
  <1>4. \A i \in 1 .. n : Gives(ls[i], Nat)
    BY <1>2 DEF Gives, NewLevel, Clean, Ok, Err
  <1>5. Gives(Collect(cs), Seq(Nat)) /\ Gives(Collect(ls), Seq(Nat))
    BY <1>1, <1>2, <1>3, <1>4, ReadEach
  <1> QED
    BY <1>1, <1>2, <1>5 DEF Each

\* The text of a question: the title, or the name.
LEMMA TitleIs ==
  ASSUME NEW title \in Nat, NEW name \in Nat
  PROVE  Or({title} \ {Empty}, name) \in Nat
  <1>1. CASE title = Empty
    BY <1>1 DEF Or
  <1>2. CASE title # Empty
    <2>1. {title} \ {Empty} = {title}
      BY <1>2
    <2> QED
      BY <2>1 DEF Or
  <1> QED
    BY <1>1, <1>2

\* What one entry of a table is read as, given the others.
EntryRead(name, table, limits, i, read) ==
    Then(AsTyped(table[i]), LAMBDA p :
      IF p.has \cap {"oneOf", "const"} # {} THEN Err("schema.unsupported_construct")
      ELSE IF "anyOf" \in p.has
      THEN Then(AsTyped(p.branches), LAMBDA branches : ReduceAnyOf(table, branches, read))
      ELSE TypedToQuestion(name, p, limits))

\* The least place of some is one of them.
LEMMA LeastPlace ==
  ASSUME NEW D \in SUBSET Nat, D # {}
  PROVE  Min(D) \in D
  <1>1. \E x \in D : \A y \in D : x <= y
    BY LeastNumber
  <1> QED
    BY <1>1 DEF Min

LEMMA ReduceIs ==
  ASSUME NEW table, NEW branches \in Seq(Nat), NEW reading,
         \A k \in DOMAIN branches : Gives(reading[branches[k]], Questions)
  PROVE  /\ Gives(ReduceAnyOf(table, branches, reading), Questions)
         /\ \A other : (\A k \in DOMAIN branches : other[branches[k]] = reading[branches[k]])
               => ReduceAnyOf(table, branches, other) = ReduceAnyOf(table, branches, reading)
  <1> DEFINE null(b) == table[b].is = "given" /\ table[b].v.type = Given("null")
             D == {k \in DOMAIN branches : ~null(branches[k])}
             one(first, r) == IF ~r.ok THEN r
                              ELSE IF first.ok /\ ~SameDecision(r.v, first.v)
                              THEN Err("schema.unsupported_construct") ELSE Ok(r.v)
             reduced(f) == [k \in D |-> one(f[branches[Min(D)]], f[branches[k]])]
  <1>0. D \in SUBSET Nat /\ D \subseteq DOMAIN branches
    OBVIOUS
  <1>1. \A f : ReduceAnyOf(table, branches, f) =
                 IF D = {} THEN Err("schema.unsupported_construct")
                 ELSE IF Collect(reduced(f)).ok THEN Ok(Collect(reduced(f)).v[Min(D)]) ELSE Collect(reduced(f))
    BY DEF ReduceAnyOf, Then
  <1> HIDE DEF null, D
  <1>2. CASE D = {}
    BY <1>1, <1>2, ErrIs DEF Gives
  <1>3. CASE D # {}
    <2>1. PICK m \in D : m = Min(D)
      BY <1>0, <1>3, LeastPlace
    <2>2. m \in DOMAIN branches
      BY <1>0
    <2>3. ASSUME NEW other, \A k \in DOMAIN branches : other[branches[k]] = reading[branches[k]]
          PROVE  reduced(other) = reduced(reading)
      <3>1. \A k \in D : other[branches[k]] = reading[branches[k]]
        BY <1>0, <2>3
      <3>2. other[branches[Min(D)]] = reading[branches[Min(D)]]
        BY <2>1, <2>2, <2>3
      <3> QED
        <4> HIDE DEF one
        <4> QED
          BY <3>1, <3>2
    <2>4. \A other : (\A k \in DOMAIN branches : other[branches[k]] = reading[branches[k]])
               => ReduceAnyOf(table, branches, other) = ReduceAnyOf(table, branches, reading)
      <3> HIDE DEF reduced
      <3> QED
        BY <1>1, <2>3
    <2>5. PICK rs : rs = reduced(reading)
      OBVIOUS
    <2>0. DOMAIN rs = D
      BY <2>5
    <2>6. ASSUME NEW k \in D PROVE Gives(rs[k], Questions)
      <3>1. PICK r : r = reading[branches[k]]
        OBVIOUS
      <3>2. Gives(r, Questions)
        BY <1>0, <3>1
      <3>3. rs[k] = r \/ rs[k] = Err("schema.unsupported_construct") \/ (r.ok /\ rs[k] = Ok(r.v))
        BY <2>5, <3>1
      <3> QED
        BY <3>2, <3>3, OkIs, ErrIs DEF Gives
    <2> HIDE DEF reduced
    <2>7. PICK all : all = Collect(rs)
      OBVIOUS
    <2>8. Clean(all) /\ (all.ok => all.v = [k \in D |-> rs[k].v] /\ \A k \in D : rs[k].ok)
      BY <1>0, <2>0, <2>6, <2>7, CollectIs DEF Gives
    <2>9. ReduceAnyOf(table, branches, reading) = IF all.ok THEN Ok(all.v[m]) ELSE all
      BY <1>1, <1>3, <2>1, <2>5, <2>7
    <2>10. all.ok => all.v[m] \in Questions
      BY <2>6, <2>8 DEF Gives
    <2> QED
      BY <2>4, <2>8, <2>9, <2>10, OkIs DEF Gives
  <1> QED
    BY <1>2, <1>3

LEMMA MarkedIs ==
  ASSUME NEW p \in EntryOfTable, NEW marker
  PROVE  Clean(Marked(p, marker)) /\ (Marked(p, marker).ok => Marked(p, marker).v \in SUBSET Seq(Nat))
  <1>1. PICK a : a = Nullable(p.note)
    OBVIOUS
  <1>2. Clean(a) /\ (a.ok => a.v = {} \/ (p.note.is = "given" /\ a.v = {p.note.v}))
    BY <1>1, FieldIs
  <1>3. p.note \in Holding([marker : STRING, labels : Holding(Seq(Nat))])
    BY DEF EntryOfTable
  <1> DEFINE read(f) == InvalidValue(IF AsTyped(f).ok THEN Ok({AsTyped(f).v}) ELSE AsTyped(f))
  <1>4. Marked(p, marker) =
          IF ~a.ok THEN a
          ELSE IF \E n \in a.v : n.marker = marker THEN read(Or(a.v, {}).labels) ELSE Ok({})
    BY <1>1 DEF Marked, Then
  <1>5. ASSUME NEW f \in Holding(Seq(Nat))
        PROVE  Clean(read(f)) /\ (read(f).ok => read(f).v \in SUBSET Seq(Nat))
    <2>1. PICK t : t = AsTyped(f) /\ Clean(t) /\ (t.ok => f.is = "given" /\ t.v = f.v)
      BY FieldIs
    <2>2. t.ok => t.v \in Seq(Nat)
      BY <2>1, HoldingIs
    <2>3. PICK r : r = (IF t.ok THEN Ok({t.v}) ELSE t)
      OBVIOUS
    <2>4. Clean(r) /\ (r.ok => r.v \in SUBSET Seq(Nat))
      <3>1. CASE t.ok
        <4>1. r = Ok({t.v}) /\ {t.v} \in SUBSET Seq(Nat)
          BY <2>2, <2>3, <3>1
        <4> QED
          BY <4>1, OkIs
      <3>2. CASE ~t.ok
        <4>1. r = t
          BY <2>3, <3>2
        <4> QED
          BY <2>1, <3>2, <4>1
      <3> QED
        BY <3>1, <3>2
    <2>5. read(f) = InvalidValue(r)
      BY <2>1, <2>3
    <2> HIDE DEF read
    <2> QED
      BY <2>4, <2>5, FromCoreIs DEF Clean
  <1> HIDE DEF read
  <1>6. a.ok /\ (\E n \in a.v : n.marker = marker) => Or(a.v, {}).labels \in Holding(Seq(Nat))
    <2> SUFFICES ASSUME a.ok, \E n \in a.v : n.marker = marker PROVE Or(a.v, {}).labels \in Holding(Seq(Nat))
      OBVIOUS
    <2>1. p.note.is = "given" /\ a.v = {p.note.v}
      BY <1>2
    <2>2. Or(a.v, {}) = p.note.v
      BY <2>1 DEF Or
    <2>3. p.note.v \in [marker : STRING, labels : Holding(Seq(Nat))]
      BY <1>3, <2>1, HoldingIs
    <2> QED
      BY <2>2, <2>3
  <1>7. {} \in SUBSET Seq(Nat)
    OBVIOUS
  <1> QED
    BY <1>2, <1>4, <1>5, <1>6, <1>7, OkIs

LEMMA CoreGives ==
  ASSUME NEW S, NEW r, Gives(r, S)
  PROVE  Gives(FromCore(r), S) /\ Gives(InvalidValue(r), S)
  BY FromCoreIs DEF Gives, Clean

\* A choice of the ids of an enum.
LEMMA ChoiceFromEnumIs ==
  ASSUME NEW name \in Nat, NEW p \in EntryOfTable, NEW ids \in Seq(Holding(Nat)), NEW limits
  PROVE  Gives(ChoiceFromEnum(name, p, ids, limits), Questions)
  <1> DEFINE checks == << <<ids = <<>>, "schema.invalid_value">>,
                          <<Len(ids) > limits.candidates, "schema.limit_exceeded">> >>
             one(id) == Then(AsTyped(id), LAMBDA v : FromCore(NewCandidate(v)))
             c3(candidates) == Then(Marked(p, "descriptions"), LAMBDA descriptions :
                                 FromCore(NewChoice(name, Or({p.title} \ {Empty}, name), candidates)))
             c2(given) == Then(Collect([i \in DOMAIN given |-> one(given[i])]), LAMBDA candidates : c3(candidates))
  <1>1. ChoiceFromEnum(name, p, ids, limits) = Then(Unless(checks, ids), LAMBDA given : c2(given))
    BY DEF ChoiceFromEnum, Each
  <1>2. DOMAIN checks = 1 .. 2 /\ \A i \in 1 .. 2 : checks[i][2] # "ir.invalid"
    OBVIOUS
  <1> HIDE DEF checks
  <1>3. Clean(Unless(checks, ids)) /\ (Unless(checks, ids).ok => Unless(checks, ids).v = ids)
    BY <1>2, UnlessIs
  <1>4. ASSUME NEW candidates \in Seq(Nat) PROVE Gives(c3(candidates), Questions)
    <2>1. PICK text \in Nat : text = Or({p.title} \ {Empty}, name)
      BY TitleIs DEF EntryOfTable
    <2>2. Gives(FromCore(NewChoice(name, text, candidates)), Questions)
      BY NewChoiceIs, CoreGives
    <2> QED
      BY <2>1, <2>2, MarkedIs DEF Then, Gives
  <1> HIDE DEF c3
  <1>5. ASSUME NEW id \in Holding(Nat) PROVE Gives(one(id), Nat)
    <2>1. PICK t : t = AsTyped(id) /\ Clean(t) /\ (t.ok => id.is = "given" /\ t.v = id.v)
      BY FieldIs
    <2>2. t.ok => t.v \in Nat
      BY <2>1, HoldingIs
    <2>3. t.ok => Gives(NewCandidate(t.v), Nat)
      BY <2>2, NewIdIs DEF NewCandidate, Gives
    <2>4. t.ok => Gives(FromCore(NewCandidate(t.v)), Nat)
      BY <2>3, CoreGives
    <2>5. one(id) = IF t.ok THEN FromCore(NewCandidate(t.v)) ELSE t
      BY <2>1 DEF Then
    <2> QED
      BY <2>1, <2>4, <2>5 DEF Gives
  <1> HIDE DEF one
  <1>6. Gives(c2(ids), Questions)
    <2> PICK n \in Nat : n = Len(ids) /\ DOMAIN ids = 1 .. n /\ \A i \in 1 .. n : ids[i] \in Holding(Nat)
      OBVIOUS
    <2>1. PICK rs : rs = [i \in DOMAIN ids |-> one(ids[i])]
      OBVIOUS
    <2>2. DOMAIN rs = 1 .. n /\ \A i \in 1 .. n : Gives(rs[i], Nat)
      BY <1>5, <2>1
    <2>3. Gives(Collect(rs), Seq(Nat))
      BY <2>2, ReadEach
    <2>4. c2(ids) = Then(Collect(rs), LAMBDA candidates : c3(candidates))
      BY <2>1
    <2> HIDE DEF c2
    <2> QED
      BY <1>4, <2>3, <2>4 DEF Then, Gives
  <1> HIDE DEF c2
  <1> QED
    BY <1>1, <1>3, <1>6 DEF Then, Gives

\* The labels of the levels.
LEMMA LevelLabelsIs ==
  ASSUME NEW p \in EntryOfTable
  PROVE  Gives(LevelLabels(p), Seq(Nat))
  <1>1. PICK m : m = Marked(p, "levels") /\ Clean(m) /\ (m.ok => m.v \in SUBSET Seq(Nat))
    BY MarkedIs
  <1> DEFINE few == \E labels \in m.v : Len(labels) < 2
             checks == << <<m.v = {}, "schema.missing_field">>, <<few, "schema.invalid_value">> >>
             v == Or(m.v, <<>>)
  <1>2. LevelLabels(p) = IF m.ok THEN Unless(checks, v) ELSE m
    BY <1>1 DEF LevelLabels, Then
  <1>3. DOMAIN checks = 1 .. 2 /\ \A i \in 1 .. 2 : checks[i][2] # "ir.invalid"
    OBVIOUS
  <1>4. m.ok => v \in Seq(Nat)
    <2>1. CASE m.v = {}
      <3>1. v = <<>>
        BY <2>1 DEF Or
      <3> QED
        BY <3>1, EmptySeq
    <2>2. CASE m.v # {}
      BY <1>1, <2>2 DEF Or
    <2> QED
      BY <2>1, <2>2
  <1> HIDE DEF checks, v
  <1>5. Clean(Unless(checks, v)) /\ (Unless(checks, v).ok => Unless(checks, v).v = v)
    BY <1>3, UnlessIs
  <1> QED
    BY <1>1, <1>2, <1>4, <1>5 DEF Gives

LEMMA ScoreFromLevelsIs ==
  ASSUME NEW name \in Nat, NEW p \in EntryOfTable
  PROVE  Gives(ScoreFromLevels(name, p), Questions)
  <1> DEFINE c3(levels) == FromCore(NewScore(name, Or({p.title} \ {Empty}, name), levels))
             c2(labels) == Then(InvalidValue(Each(labels, NewLevel)), LAMBDA levels : c3(levels))
  <1>1. ScoreFromLevels(name, p) = Then(LevelLabels(p), LAMBDA labels : c2(labels))
    BY DEF ScoreFromLevels
  <1>2. ASSUME NEW levels \in Seq(Nat) PROVE Gives(c3(levels), Questions)
    <2>1. PICK text \in Nat : text = Or({p.title} \ {Empty}, name)
      BY TitleIs DEF EntryOfTable
    <2>2. Gives(FromCore(NewScore(name, text, levels)), Questions)
      BY NewScoreIs, CoreGives
    <2> QED
      BY <2>1, <2>2
  <1> HIDE DEF c3
  <1>3. ASSUME NEW labels \in Seq(Nat) PROVE Gives(c2(labels), Questions)
    <2>1. Gives(InvalidValue(Each(labels, NewLevel)), Seq(Nat))
      BY CandidatesAndLevels, CoreGives
    <2> QED
      BY <1>2, <2>1 DEF Then, Gives
  <1> HIDE DEF c2
  <1> QED
    BY <1>1, <1>3, LevelLabelsIs DEF Then, Gives

LEMMA TypedIs ==
  ASSUME NEW name \in Nat, NEW p \in EntryOfTable, NEW limits
  PROVE  Gives(TypedToQuestion(name, p, limits), Questions)
  <1>1. PICK t : t = Required(p.type) /\ Clean(t)
    BY FieldIs
  <1>2. PICK text \in Nat : text = Or({p.title} \ {Empty}, name)
    BY TitleIs DEF EntryOfTable
  <1>3. PICK e : e = AsTyped(p.enum) /\ Clean(e) /\ (e.ok => p.enum.is = "given" /\ e.v = p.enum.v)
    BY FieldIs
  <1>4. e.ok => e.v \in Seq(Holding(Nat))
    BY <1>3, HoldingIs DEF EntryOfTable
  <1>5. PICK c : c = (IF e.ok THEN ChoiceFromEnum(name, p, e.v, limits) ELSE e)
    OBVIOUS
  <1>6. Gives(c, Questions)
    BY <1>3, <1>4, <1>5, ChoiceFromEnumIs DEF Gives
  <1>7. PICK b : b = FromCore(NewBoolean(name, text)) /\ Gives(b, Questions)
    BY NewBooleanIs, CoreGives
  <1>8. PICK s : s = ScoreFromLevels(name, p) /\ Gives(s, Questions)
    BY ScoreFromLevelsIs
  <1>9. TypedToQuestion(name, p, limits) =
          IF ~t.ok THEN t
          ELSE CASE t.v = "string" -> IF p.enum = Absent THEN Err("schema.unsupported_generation_field") ELSE c
                 [] t.v = "boolean" -> b
                 [] t.v = "integer" -> s
                 [] t.v = "number" -> Err("schema.unsupported_construct")
                 [] OTHER -> Err("schema.invalid_type")
    BY <1>1, <1>2, <1>3, <1>5, <1>7, <1>8 DEF TypedToQuestion, Then
  <1>10. \A code : code # "ir.invalid" => Gives(Err(code), Questions)
    BY ErrIs DEF Gives
  <1> PICK r : r = TypedToQuestion(name, p, limits)
    OBVIOUS
  <1>11. \/ r = t /\ ~t.ok
         \/ r \in {c, b, s}
         \/ \E code \in {"schema.unsupported_generation_field", "schema.unsupported_construct", "schema.invalid_type"} :
               r = Err(code)
    BY <1>9
  <1> QED
    BY <1>1, <1>6, <1>7, <1>8, <1>10, <1>11 DEF Gives

\* An entry needs the entries behind it.
LEMMA EntryIs ==
  ASSUME NEW name \in Nat, NEW table, IsTable(table), NEW limits, NEW i \in 1 .. Len(table), NEW read,
         \A j \in (i + 1) .. Len(table) : Gives(read[j], Questions)
  PROVE  /\ Gives(EntryRead(name, table, limits, i, read), Questions)
         /\ \A other : (\A j \in (i + 1) .. Len(table) : other[j] = read[j])
               => EntryRead(name, table, limits, i, other) = EntryRead(name, table, limits, i, read)
  <1>1. PICK t : t = AsTyped(table[i]) /\ Clean(t) /\ (t.ok => table[i].is = "given" /\ t.v = table[i].v)
    BY FieldIs
  <1>2. PICK b : b = AsTyped(t.v.branches) /\ Clean(b) /\ (b.ok => t.v.branches.is = "given" /\ b.v = t.v.branches.v)
    BY FieldIs
  <1> DEFINE bad == t.v.has \cap {"oneOf", "const"} # {}
             any == "anyOf" \in t.v.has
  <1>3. \A f : EntryRead(name, table, limits, i, f) =
                 IF ~t.ok THEN t
                 ELSE IF bad THEN Err("schema.unsupported_construct")
                 ELSE IF any THEN (IF b.ok THEN ReduceAnyOf(table, b.v, f) ELSE b)
                 ELSE TypedToQuestion(name, t.v, limits)
    BY <1>1, <1>2 DEF EntryRead, Then
  <1> HIDE DEF bad, any
  <1>4. i \in DOMAIN table /\ table[i] \in Holding(EntryOfTable)
    BY DEF IsTable
  <1>5. t.ok => t.v \in EntryOfTable
    BY <1>1, <1>4, HoldingIs
  <1>6. t.ok /\ b.ok => b.v \in Seq(Nat) /\ \A k \in DOMAIN b.v : b.v[k] \in (i + 1) .. Len(table)
    <2> SUFFICES ASSUME t.ok, b.ok PROVE b.v \in Seq(Nat) /\ \A k \in DOMAIN b.v : b.v[k] \in (i + 1) .. Len(table)
      OBVIOUS
    <2>1. b.v \in Seq(Nat)
      <3>1. t.v.branches \in Holding(Seq(Nat))
        BY <1>5 DEF EntryOfTable
      <3> QED
        BY <1>2, <3>1, HoldingIs
    <2>2. Range(b.v) \subseteq (i + 1) .. Len(table)
      BY <1>1, <1>2, <1>4 DEF IsTable
    <2>3. \A k \in DOMAIN b.v : b.v[k] \in Range(b.v)
      BY DEF Range
    <2> QED
      BY <2>1, <2>2, <2>3
  <1>7. t.ok /\ b.ok =>
          /\ Gives(ReduceAnyOf(table, b.v, read), Questions)
          /\ \A other : (\A j \in (i + 1) .. Len(table) : other[j] = read[j])
                => ReduceAnyOf(table, b.v, other) = ReduceAnyOf(table, b.v, read)
    <2> SUFFICES ASSUME t.ok, b.ok
                 PROVE  /\ Gives(ReduceAnyOf(table, b.v, read), Questions)
                        /\ \A other : (\A j \in (i + 1) .. Len(table) : other[j] = read[j])
                              => ReduceAnyOf(table, b.v, other) = ReduceAnyOf(table, b.v, read)
      OBVIOUS
    <2>1. \A k \in DOMAIN b.v : Gives(read[b.v[k]], Questions)
      BY <1>6
    <2>2. b.v \in Seq(Nat)
      BY <1>6
    <2>3. /\ Gives(ReduceAnyOf(table, b.v, read), Questions)
          /\ \A other : (\A k \in DOMAIN b.v : other[b.v[k]] = read[b.v[k]])
                => ReduceAnyOf(table, b.v, other) = ReduceAnyOf(table, b.v, read)
      BY <2>1, <2>2, ReduceIs
    <2> QED
      BY <1>6, <2>3
  <1>8. t.ok => Gives(TypedToQuestion(name, t.v, limits), Questions)
    BY <1>5, TypedIs
  <1>9. Gives(Err("schema.unsupported_construct"), Questions)
    BY ErrIs DEF Gives
  <1>10. (~t.ok => Gives(t, Questions)) /\ (~b.ok => Gives(b, Questions))
    BY <1>1, <1>2 DEF Gives
  <1>11. Gives(EntryRead(name, table, limits, i, read), Questions)
    BY <1>3, <1>7, <1>8, <1>9, <1>10
  <1>12. ASSUME NEW other, \A j \in (i + 1) .. Len(table) : other[j] = read[j]
         PROVE  EntryRead(name, table, limits, i, other) = EntryRead(name, table, limits, i, read)
    BY <1>3, <1>7, <1>12
  <1> QED
    BY <1>11, <1>12

LEMMA PropertyIs ==
  ASSUME NEW name \in Nat, NEW table, IsTable(table), NEW limits
  PROVE  Gives(PropertyToQuestion(name, table, limits), Questions)
  <1> DEFINE Entry(i, f) == EntryRead(name, table, limits, i, f)
  <1> PICK n \in Nat : n = Len(table) /\ n >= 1 /\ DOMAIN table = 1 .. n
    BY EmptySeq DEF IsTable
  <1> DEFINE From(m) == (n - m + 1) .. n
             Is(f, m) == f = [i \in From(m) |-> Entry(i, f)]
             Good(f, m) == \A i \in From(m) : Gives(f[i], Questions)
  <1>1. ASSUME NEW i \in 1 .. n, NEW f, \A j \in (i + 1) .. n : Gives(f[j], Questions)
        PROVE  /\ Gives(Entry(i, f), Questions)
               /\ \A h : (\A j \in (i + 1) .. n : h[j] = f[j]) => Entry(i, h) = Entry(i, f)
    BY <1>1, EntryIs
  <1> HIDE DEF Entry
  <1> DEFINE T == {m \in 0 .. n : \E f : Is(f, m) /\ Good(f, m)}
  <1>2. 0 \in T
    <2>1. Is([i \in From(0) |-> 0], 0) /\ Good([i \in From(0) |-> 0], 0)
      <3>1. From(0) = {}
        OBVIOUS
      <3> HIDE DEF From
      <3> QED
        BY <3>1
    <2> HIDE DEF Is, Good
    <2> QED
      BY <2>1
  <1>3. ASSUME NEW m \in 0 .. n, m > 0, m - 1 \in T PROVE m \in T
    <2>1. PICK f : Is(f, m - 1) /\ Good(f, m - 1)
      BY <1>3
    <2>0. n - m + 1 \in 1 .. n
      BY ONLY n \in Nat, m \in 0 .. n, m > 0, <1>3
    <2> PICK a \in 1 .. n : a = n - m + 1
      BY <2>0
    <2>2. From(m) = a .. n /\ From(m - 1) = (a + 1) .. n
      BY <1>3
    <2>3. f = [i \in (a + 1) .. n |-> Entry(i, f)] /\ \A i \in (a + 1) .. n : Gives(f[i], Questions)
      BY <2>1, <2>2
    <2> PICK h : h = [i \in a .. n |-> IF i = a THEN Entry(a, f) ELSE f[i]]
      OBVIOUS
    <2>4. \A j \in (a + 1) .. n : h[j] = f[j]
      OBVIOUS
    <2>5. ASSUME NEW i \in a .. n PROVE h[i] = Entry(i, h) /\ Gives(h[i], Questions)
      <3>0. i \in 1 .. n /\ \A j \in (i + 1) .. n : j \in (a + 1) .. n
        OBVIOUS
      <3>1. \A j \in (i + 1) .. n : Gives(f[j], Questions) /\ h[j] = f[j]
        BY <2>3, <2>4, <3>0
      <3>2. Gives(Entry(i, f), Questions) /\ Entry(i, h) = Entry(i, f)
        <4>1. \A j \in (i + 1) .. n : Gives(f[j], Questions)
          BY <3>1
        <4>2. Gives(Entry(i, f), Questions) /\ \A k : (\A j \in (i + 1) .. n : k[j] = f[j]) => Entry(i, k) = Entry(i, f)
          BY <1>1, <3>0, <4>1
        <4>3. \A j \in (i + 1) .. n : h[j] = f[j]
          BY <3>1
        <4> QED
          BY <4>2, <4>3
      <3>3. h[i] = Entry(i, f)
        <4>1. CASE i = a
          BY <4>1
        <4>2. CASE i # a
          <5>1. i \in (a + 1) .. n
            BY <4>2
          <5> QED
            BY <2>3, <2>4, <5>1
        <4> QED
          BY <4>1, <4>2
      <3> QED
        BY <3>2, <3>3
    <2>6. h = [i \in a .. n |-> h[i]]
      OBVIOUS
    <2>7. h = [i \in a .. n |-> Entry(i, h)]
      BY <2>5, <2>6, Zenon
    <2>8. Is(h, m) /\ Good(h, m)
      BY <2>2, <2>5, <2>7, Zenon
    <2> HIDE DEF Is, Good
    <2> QED
      BY <2>8
  <1>4. n \in T
    <2>1. 0 .. n \subseteq T
      <3> HIDE DEF T
      <3> QED
        BY <1>2, <1>3, UpTo
    <2> HIDE DEF T
    <2> QED
      BY <2>1
  <1>5. From(n) = 1 .. n
    OBVIOUS
  <1> DEFINE Whole(f) == f = [i \in DOMAIN table |-> Entry(i, f)]
  <1>6. PICK g : g = (CHOOSE f : Whole(f)) /\ Whole(g)
    <2>1. \E f : Whole(f)
      BY <1>4, <1>5
    <2> HIDE DEF Whole
    <2> QED
      BY <2>1
  <1>7. PropertyToQuestion(name, table, limits) = g[1]
    BY <1>6 DEF PropertyToQuestion, Entry, EntryRead
  <1>8. \A i \in 1 .. n : g[i] = Entry(i, g)
    BY <1>6
  <1> DEFINE U == {m \in 0 .. n : \A i \in From(m) : Gives(g[i], Questions)}
  <1>9. 0 \in U
    OBVIOUS
  <1>10. ASSUME NEW m \in 0 .. n, m > 0, m - 1 \in U PROVE m \in U
    <2>0. n - m + 1 \in 1 .. n
      BY ONLY n \in Nat, m \in 0 .. n, m > 0, <1>10
    <2> PICK a \in 1 .. n : a = n - m + 1
      BY <2>0
    <2>1. From(m) = a .. n /\ From(m - 1) = (a + 1) .. n
      BY <1>10
    <2>2. \A i \in (a + 1) .. n : Gives(g[i], Questions)
      BY <1>10, <2>1
    <2>3. Gives(g[a], Questions)
      BY <1>1, <1>8, <2>2
    <2>4. \A i \in a .. n : i = a \/ i \in (a + 1) .. n
      OBVIOUS
    <2>5. \A i \in From(m) : Gives(g[i], Questions)
      BY <2>1, <2>2, <2>3, <2>4
    <2> HIDE DEF From
    <2> QED
      BY <2>5
  <1>11. n \in U
    <2>1. 0 .. n \subseteq U
      <3> HIDE DEF U
      <3> QED
        BY <1>9, <1>10, UpTo
    <2> QED
      BY <2>1
  <1> QED
    BY <1>5, <1>7, <1>11

LEMMA DecodeSchemaIs ==
  ASSUME NEW schema, IsSchema(schema), NEW limits
  PROVE  Gives(DecodeSchema(schema, limits), Seq(Questions))
  <1>1. PICK p : p = Required(schema.properties) /\ Clean(p)
                 /\ (p.ok => schema.properties.is = "given" /\ p.v = schema.properties.v)
    BY FieldIs
  <1>2. PICK q : q = Required(schema.required) /\ Clean(q)
    BY FieldIs
  <1> DEFINE bad == schema.has \cap {"oneOf", "anyOf"} # {}
             wrong == q.v # Cardinality(DOMAIN p.v)
             rs == [i \in DOMAIN Sorted(DOMAIN p.v) |->
                      PropertyToQuestion(Sorted(DOMAIN p.v)[i], p.v[Sorted(DOMAIN p.v)[i]], limits)]
             all == Collect(rs)
             checks(qs) == << <<qs = <<>>, "schema.empty_questions">>,
                              <<Len(qs) > limits.questions, "schema.limit_exceeded">> >>
  <1>3. DecodeSchema(schema, limits) =
          IF bad THEN Err("schema.unsupported_construct")
          ELSE IF ~p.ok THEN p
          ELSE IF ~q.ok THEN q
          ELSE IF wrong THEN Err("schema.invalid_value")
          ELSE IF all.ok THEN Unless(checks(all.v), all.v) ELSE all
    BY <1>1, <1>2 DEF DecodeSchema, Then, Each
  <1> HIDE DEF bad, wrong
  <1>4. p.ok => Gives(all, Seq(Questions))
    <2> SUFFICES ASSUME p.ok PROVE Gives(all, Seq(Questions))
      OBVIOUS
    <2>1. IsProperties(p.v)
      BY <1>1 DEF IsSchema
    <2> PICK S : S = DOMAIN p.v
      OBVIOUS
    <2>2. IsFiniteSet(S) /\ S \in SUBSET Nat /\ \A name \in S : IsTable(p.v[name])
      BY <2>1 DEF IsProperties
    <2> PICK s : s = Sorted(S)
      OBVIOUS
    <2> PICK n \in Nat : n = Cardinality(S)
      BY <2>2, SortedIs
    <2>3. s \in [1 .. n -> S]
      BY <2>2, SortedIs
    <2>4. rs = [i \in DOMAIN s |-> PropertyToQuestion(s[i], p.v[s[i]], limits)]
      OBVIOUS
    <2>5. DOMAIN rs = 1 .. n
      BY <2>3, <2>4
    <2>6. ASSUME NEW i \in 1 .. n PROVE Gives(rs[i], Questions)
      <3>1. s[i] \in S /\ s[i] \in Nat /\ IsTable(p.v[s[i]])
        BY <2>2, <2>3
      <3>2. rs[i] = PropertyToQuestion(s[i], p.v[s[i]], limits)
        BY <2>3, <2>4
      <3> QED
        BY <3>1, <3>2, PropertyIs
    <2> HIDE DEF rs
    <2> QED
      BY <2>5, <2>6, ReadEach
  <1> HIDE DEF all
  <1>5. ASSUME NEW qs PROVE Clean(Unless(checks(qs), qs)) /\ (Unless(checks(qs), qs).ok => Unless(checks(qs), qs).v = qs)
    <2>1. DOMAIN checks(qs) = 1 .. 2 /\ \A i \in 1 .. 2 : checks(qs)[i][2] # "ir.invalid"
      OBVIOUS
    <2> HIDE DEF checks
    <2> QED
      BY <2>1, UnlessIs
  <1> HIDE DEF checks
  <1>6. Gives(Err("schema.unsupported_construct"), Seq(Questions)) /\ Gives(Err("schema.invalid_value"), Seq(Questions))
    BY ErrIs DEF Gives
  <1>7. p.ok /\ all.ok => Gives(Unless(checks(all.v), all.v), Seq(Questions))
    BY <1>4, <1>5 DEF Gives
  <1> QED
    BY <1>1, <1>2, <1>3, <1>4, <1>6, <1>7 DEF Gives

LEMMA EnforceIs ==
  ASSUME NEW bytes, NEW count, NEW limits
  PROVE  Clean(EnforceLimits(bytes, count, limits))
  <1> DEFINE checks == << <<bytes > limits.input_bytes, "schema.limit_exceeded">>,
              <<count = 0, "schema.empty_questions">>,
              <<count > limits.questions, "schema.limit_exceeded">> >>
  <1>1. DOMAIN checks = 1 .. 3 /\ \A i \in 1 .. 3 : checks[i][2] # "ir.invalid"
    OBVIOUS
  <1>2. PICK v : EnforceLimits(bytes, count, limits) = Unless(checks, v)
    BY Zenon DEF EnforceLimits
  <1> HIDE DEF checks
  <1> QED
    BY <1>1, <1>2, UnlessIs

\* What an adapter ends with: the limits counted, and the request built.
LEMMA AdapterEnds ==
  ASSUME NEW state, IsState(state), NEW questions \in Seq(Questions), NEW limits \in [LimitNames -> Nat]
  PROVE  GivesRequest(FromCore(NewRequest(state, questions, DefaultPolicy, limits)), limits)
  <1>1. PICK r : r = NewRequest(state, questions, DefaultPolicy, limits)
    OBVIOUS
  <1>2. GivesRequest(r, limits)
    BY <1>1, NewRequestIs, DefaultPolicyIs
  <1> QED
    BY <1>1, <1>2, FromCoreIs DEF GivesRequest, Clean

LEMMA OpenAiIs ==
  ASSUME NEW doc, IsOpenAiDocument(doc), NEW limits \in [LimitNames -> Nat]
  PROVE  GivesRequest(OpenAiDecodeRequest(doc, limits), limits)
  <1> DEFINE c5(full, questions) == FromCore(NewRequest(full, questions, DefaultPolicy, limits))
             c4(full, questions) == Then(EnforceLimits(full.text, Len(questions), limits), LAMBDA within : c5(full, questions))
             qs == Then(Required(doc.schema), LAMBDA schema : DecodeSchema(schema, limits))
             c3(full) == Then(qs, LAMBDA questions : c4(full, questions))
             fact(state) == IF doc.facts = Absent THEN Ok(state)
                            ELSE Then(AsTyped(doc.facts), LAMBDA facts : WithFacts(state, facts))
             c2(state) == Then(fact(state), LAMBDA full : c3(full))
             input == Then(Required(doc.input), LAMBDA input : Content(input, "schema.invalid_value"))
  <1>1. OpenAiDecodeRequest(doc, limits) = Then(input, LAMBDA state : c2(state))
    BY DEF OpenAiDecodeRequest
  <1>2. GivesState(input)
    <2>1. PICK t : t = Required(doc.input) /\ Clean(t) /\ (t.ok => doc.input.is = "given" /\ t.v = doc.input.v)
      BY FieldIs
    <2>2. t.ok => t.v \in ContentOfDocument
      BY <2>1, HoldingIs DEF IsOpenAiDocument
    <2>3. input = IF t.ok THEN Content(t.v, "schema.invalid_value") ELSE t
      BY <2>1 DEF Then
    <2>4. t.ok => GivesState(Content(t.v, "schema.invalid_value"))
      BY <2>2, ContentIs
    <2> HIDE DEF input
    <2> QED
      BY <2>1, <2>3, <2>4 DEF GivesState
  <1> HIDE DEF input
  <1>3. Gives(qs, Seq(Questions))
    <2>1. PICK t : t = Required(doc.schema) /\ Clean(t) /\ (t.ok => doc.schema.is = "given" /\ t.v = doc.schema.v)
      BY FieldIs
    <2>2. t.ok => IsSchema(t.v)
      BY <2>1 DEF IsOpenAiDocument
    <2>3. qs = IF t.ok THEN DecodeSchema(t.v, limits) ELSE t
      BY <2>1 DEF Then
    <2>4. t.ok => Gives(DecodeSchema(t.v, limits), Seq(Questions))
      BY <2>2, DecodeSchemaIs
    <2> HIDE DEF qs
    <2> QED
      BY <2>1, <2>3, <2>4 DEF Gives
  <1> HIDE DEF qs
  <1>4. ASSUME NEW state, IsState(state) PROVE GivesState(fact(state))
    <2>1. PICK t : t = AsTyped(doc.facts) /\ Clean(t)
      BY FieldIs
    <2>2. fact(state) = IF doc.facts = Absent THEN Ok(state) ELSE IF t.ok THEN WithFacts(state, t.v) ELSE t
      BY <2>1 DEF Then
    <2>3. GivesState(Ok(state)) /\ GivesState(WithFacts(state, t.v))
      BY <1>4, WithFactsIs, OkIs DEF GivesState
    <2> HIDE DEF fact
    <2> QED
      BY <2>1, <2>2, <2>3 DEF GivesState
  <1> HIDE DEF fact
  <1>5. ASSUME NEW full, IsState(full), NEW questions \in Seq(Questions) PROVE GivesRequest(c5(full, questions), limits)
    BY <1>5, AdapterEnds
  <1> HIDE DEF c5
  <1>6. ASSUME NEW full, IsState(full), NEW questions \in Seq(Questions) PROVE GivesRequest(c4(full, questions), limits)
    BY <1>5, <1>6, EnforceIs DEF Then, GivesRequest
  <1> HIDE DEF c4
  <1>7. ASSUME NEW full, IsState(full) PROVE GivesRequest(c3(full), limits)
    BY <1>3, <1>6, <1>7 DEF Then, GivesRequest, Gives
  <1> HIDE DEF c3
  <1>8. ASSUME NEW state, IsState(state) PROVE GivesRequest(c2(state), limits)
    BY <1>4, <1>7, <1>8 DEF Then, GivesRequest, GivesState
  <1> HIDE DEF c2
  <1> QED
    BY <1>1, <1>2, <1>8 DEF Then, GivesRequest, GivesState

-----------------------------------------------------------------------------
(* The Anthropic format.                                                   *)

LEMMA RewriteIs ==
  ASSUME NEW table, IsTable(table)
  PROVE  IsTable(RewriteConst(table))
  <1> PICK n \in Nat : n = Len(table) /\ n >= 1 /\ DOMAIN table = 1 .. n
    BY EmptySeq DEF IsTable
  <1> PICK t : t = RewriteConst(table)
    OBVIOUS
  <1>1. t = [i \in 1 .. n |->
       IF table[i].is # "given" \/ "const" \notin table[i].v.has THEN table[i]
       ELSE Given([table[i].v EXCEPT !.has = @ \ {"const"}, !.enum = Given(<<table[i].v.const>>)])]
    BY DEF RewriteConst
  <1>2. ASSUME NEW i \in 1 .. n
        PROVE  /\ t[i] \in Holding(EntryOfTable)
               /\ t[i].is = "given" /\ t[i].v.branches.is = "given" =>
                     Range(t[i].v.branches.v) \subseteq (i + 1) .. n
    <2>1. table[i] \in Holding(EntryOfTable)
      BY DEF IsTable
    <2>2. table[i].is = "given" /\ table[i].v.branches.is = "given" => Range(table[i].v.branches.v) \subseteq (i + 1) .. n
      BY DEF IsTable
    <2>3. CASE table[i].is # "given" \/ "const" \notin table[i].v.has
      BY <1>1, <2>1, <2>2, <2>3
    <2>4. CASE ~(table[i].is # "given" \/ "const" \notin table[i].v.has)
      <3>1. PICK e : e = table[i].v /\ e \in EntryOfTable
        BY <2>1, <2>4, HoldingIs
      <3>2. PICK x : x = Given(<<e.const>>)
        OBVIOUS
      <3>3. t[i] = Given([e EXCEPT !.has = @ \ {"const"}, !.enum = x])
        BY <1>1, <2>4, <3>1, <3>2
      <3>4. x \in Holding(Seq(Holding(Nat)))
        BY <3>1, <3>2 DEF Holding, Given, EntryOfTable
      <3>5. PICK k : k = [e EXCEPT !.has = @ \ {"const"}, !.enum = x]
        OBVIOUS
      <3>6. k \in EntryOfTable /\ k.branches = e.branches
        BY <3>1, <3>4, <3>5 DEF EntryOfTable
      <3>7. t[i].is = "given" /\ t[i].v = k /\ t[i] \in Holding(EntryOfTable)
        BY <3>3, <3>5, <3>6 DEF Given, Holding
      <3> QED
        BY <2>2, <2>4, <3>1, <3>6, <3>7
    <2> QED
      BY <2>3, <2>4
  <1>3. t \in Seq(Holding(EntryOfTable)) /\ t # <<>> /\ Len(t) = n /\ DOMAIN t = 1 .. n
    <2>1. DOMAIN t = 1 .. n
      BY <1>1
    <2>2. t \in [1 .. n -> Holding(EntryOfTable)]
      <3>1. t = [i \in 1 .. n |-> t[i]]
        BY <1>1
      <3> QED
        BY <1>2, <3>1
    <2>3. t \in Seq(Holding(EntryOfTable)) /\ Len(t) = n
      BY <2>2
    <2> QED
      BY <2>1, <2>3
  <1> QED
    BY <1>2, <1>3 DEF IsTable

LEMMA InputSchemaIs ==
  ASSUME NEW schema, IsSchema(schema), NEW limits
  PROVE  Gives(DecodeInputSchema(schema, limits), Seq(Questions))
  <1> DEFINE P == schema.properties
             new == IF P.is # "given" THEN P ELSE Given([name \in DOMAIN P.v |-> RewriteConst(P.v[name])])
  <1>1. PICK s : s = [schema EXCEPT !.properties = new]
    OBVIOUS
  <1>2. DecodeInputSchema(schema, limits) = DecodeSchema(s, limits)
    BY <1>1 DEF DecodeInputSchema
  <1>3. IsSchema(s)
    <2>1. DOMAIN s = {"has", "properties", "required"} /\ s.properties = new
      BY <1>1 DEF IsSchema
    <2>2. CASE P.is # "given"
      BY <2>1, <2>2 DEF IsSchema
    <2>3. CASE P.is = "given"
      <3>1. IsProperties(P.v)
        BY <2>3 DEF IsSchema
      <3> PICK f : f = [name \in DOMAIN P.v |-> RewriteConst(P.v[name])]
        OBVIOUS
      <3>2. new.v = f
        BY <2>3 DEF Given
      <3>3. DOMAIN f = DOMAIN P.v /\ f = [name \in DOMAIN f |-> f[name]] /\ \A name \in DOMAIN f : f[name] = RewriteConst(P.v[name])
        OBVIOUS
      <3>4. IsProperties(f)
        BY <3>1, <3>3, RewriteIs DEF IsProperties
      <3> HIDE DEF new
      <3> QED
        BY <2>1, <3>2, <3>4 DEF IsSchema
    <2> QED
      BY <2>2, <2>3
  <1> QED
    BY <1>2, <1>3, DecodeSchemaIs

LEMMA MessagesIs ==
  ASSUME NEW messages \in Seq(Holding(MessageOfDocument))
  PROVE  GivesState(StateFromMessages(messages))
  <1> PICK n \in Nat : n = Len(messages) /\ DOMAIN messages = 1 .. n
                       /\ \A i \in 1 .. n : messages[i] \in Holding(MessageOfDocument)
    OBVIOUS
  <1> DEFINE content(m) == Then(Required(m.content), LAMBDA c : Content(c, "schema.unsupported_construct"))
             one(message) == Then(AsTyped(message), LAMBDA m :
                               IF m.role # "user" THEN Ok(FromText(0)) ELSE content(m))
  <1>1. ASSUME NEW m \in MessageOfDocument PROVE GivesState(content(m))
    <2>1. PICK t : t = Required(m.content) /\ Clean(t) /\ (t.ok => m.content.is = "given" /\ t.v = m.content.v)
      BY FieldIs
    <2>2. t.ok => t.v \in ContentOfDocument
      BY <2>1, HoldingIs DEF MessageOfDocument
    <2>3. content(m) = IF t.ok THEN Content(t.v, "schema.unsupported_construct") ELSE t
      BY <2>1 DEF Then
    <2>4. t.ok => GivesState(Content(t.v, "schema.unsupported_construct"))
      BY <2>2, ContentIs
    <2> HIDE DEF content
    <2> QED
      BY <2>1, <2>3, <2>4 DEF GivesState
  <1> HIDE DEF content
  <1>2. ASSUME NEW message \in Holding(MessageOfDocument) PROVE GivesState(one(message))
    <2>1. PICK t : t = AsTyped(message) /\ Clean(t) /\ (t.ok => message.is = "given" /\ t.v = message.v)
      BY FieldIs
    <2>2. t.ok => t.v \in MessageOfDocument
      BY <2>1, HoldingIs
    <2>3. one(message) = IF t.ok THEN (IF t.v.role # "user" THEN Ok(FromText(0)) ELSE content(t.v)) ELSE t
      BY <2>1 DEF Then
    <2>4. GivesState(Ok(FromText(0)))
      BY FromTextIs
    <2> HIDE DEF one
    <2> QED
      BY <1>1, <2>1, <2>2, <2>3, <2>4 DEF GivesState
  <1>3. PICK rs : rs = [i \in DOMAIN messages |-> one(messages[i])]
    OBVIOUS
  <1>4. StateFromMessages(messages) = Then(Collect(rs), LAMBDA states : Ok(Gathered(states)))
    BY <1>3 DEF StateFromMessages, Each, content
  <1> HIDE DEF one
  <1>5. DOMAIN rs = 1 .. n /\ \A i \in 1 .. n : GivesState(rs[i])
    BY <1>2, <1>3
  <1>6. PICK all : all = Collect(rs)
    OBVIOUS
  <1>7. Clean(all) /\ (all.ok => all.v = [i \in 1 .. n |-> rs[i].v] /\ \A i \in 1 .. n : rs[i].ok)
    BY <1>5, <1>6, CollectIs DEF GivesState
  <1>8. all.ok => IsState(Gathered(all.v))
    <2> SUFFICES ASSUME all.ok PROVE IsState(Gathered(all.v))
      OBVIOUS
    <2>1. DOMAIN all.v = 1 .. n /\ \A i \in 1 .. n : IsState(all.v[i])
      BY <1>5, <1>7 DEF GivesState
    <2> QED
      BY <2>1, GatheredIs
  <1> QED
    BY <1>4, <1>6, <1>7, <1>8, OkIs DEF GivesState, Then

\* The parts of a request: the schema of its first tool, or its own.
GivesParts(r) == Clean(r) /\ (r.ok => IsSchema(r.v.schema) /\ IsState(r.v.state))

LEMMA SplitIs ==
  ASSUME NEW doc, IsAnthropicDocument(doc)
  PROVE  GivesParts(SplitRequest(doc))
  <1> DEFINE parts(facts, schema, state) == Ok([facts |-> facts, schema |-> schema, state |-> state])
             said == IF doc.messages = Absent THEN Ok(FromText(0)) ELSE Then(AsTyped(doc.messages), StateFromMessages)
             d4(facts, schema) == Then(said, LAMBDA state : parts(facts, schema, state))
             d3(facts, tool) == Then(Required(tool), LAMBDA schema : d4(facts, schema))
             head(tools) == IF tools = <<>> THEN Err("schema.invalid_value") ELSE AsTyped(Head(tools))
             d2(facts, tools) == Then(head(tools), LAMBDA tool : d3(facts, tool))
             bare(facts) == Then(Required(doc.schema), LAMBDA schema : parts(facts, schema, FromText(0)))
  <1>1. SplitRequest(doc) = Then(Nullable(doc.facts), LAMBDA facts :
                              IF doc.tools = Absent THEN bare(facts)
                              ELSE Then(AsTyped(doc.tools), LAMBDA tools : d2(facts, tools)))
    BY DEF SplitRequest
  <1>2. ASSUME NEW facts, NEW schema, IsSchema(schema), NEW state, IsState(state)
        PROVE  GivesParts(parts(facts, schema, state))
    BY <1>2, OkIs DEF GivesParts
  <1> HIDE DEF parts
  <1>3. IsState(FromText(0)) /\ GivesState(Ok(FromText(0)))
    BY FromTextIs
  <1>4. ASSUME NEW facts PROVE GivesParts(bare(facts))
    <2>1. PICK t : t = Required(doc.schema) /\ Clean(t) /\ (t.ok => doc.schema.is = "given" /\ t.v = doc.schema.v)
      BY FieldIs
    <2>2. t.ok => IsSchema(t.v)
      BY <2>1 DEF IsAnthropicDocument
    <2>3. bare(facts) = IF t.ok THEN parts(facts, t.v, FromText(0)) ELSE t
      BY <2>1 DEF Then
    <2> HIDE DEF bare
    <2> QED
      BY <1>2, <1>3, <2>1, <2>2, <2>3 DEF GivesParts
  <1> HIDE DEF bare
  <1>5. GivesState(said)
    <2>1. PICK t : t = AsTyped(doc.messages) /\ Clean(t) /\ (t.ok => doc.messages.is = "given" /\ t.v = doc.messages.v)
      BY FieldIs
    <2>2. t.ok => t.v \in Seq(Holding(MessageOfDocument))
      BY <2>1, HoldingIs DEF IsAnthropicDocument
    <2>3. said = IF doc.messages = Absent THEN Ok(FromText(0)) ELSE IF t.ok THEN StateFromMessages(t.v) ELSE t
      BY <2>1 DEF Then
    <2>4. t.ok => GivesState(StateFromMessages(t.v))
      BY <2>2, MessagesIs
    <2> HIDE DEF said
    <2> QED
      BY <1>3, <2>1, <2>3, <2>4 DEF GivesState
  <1> HIDE DEF said
  <1>6. ASSUME NEW facts, NEW schema, IsSchema(schema) PROVE GivesParts(d4(facts, schema))
    BY <1>2, <1>5, <1>6 DEF Then, GivesParts, GivesState
  <1> HIDE DEF d4
  <1>7. ASSUME NEW facts, NEW tool, tool.is = "given" => IsSchema(tool.v) PROVE GivesParts(d3(facts, tool))
    <2>1. PICK t : t = Required(tool) /\ Clean(t) /\ (t.ok => tool.is = "given" /\ t.v = tool.v)
      BY FieldIs
    <2>2. d3(facts, tool) = IF t.ok THEN d4(facts, t.v) ELSE t
      BY <2>1 DEF Then
    <2> HIDE DEF d3
    <2> QED
      BY <1>6, <1>7, <2>1, <2>2 DEF GivesParts
  <1> HIDE DEF d3
  <1>8. ASSUME NEW facts, doc.tools.is = "given" PROVE GivesParts(d2(facts, doc.tools.v))
    <2>0. PICK tools : tools = doc.tools.v
      OBVIOUS
    <2>1. PICK t : t = AsTyped(Head(tools)) /\ Clean(t) /\ (t.ok => Head(tools).is = "given" /\ t.v = Head(tools).v)
      BY FieldIs
    <2>2. tools # <<>> /\ t.ok => (t.v.is = "given" => IsSchema(t.v.v))
      BY <1>8, <2>0, <2>1 DEF IsAnthropicDocument
    <2>3. d2(facts, tools) = IF tools = <<>> THEN Err("schema.invalid_value")
                             ELSE IF t.ok THEN d3(facts, t.v) ELSE t
      BY <2>1, ErrIs DEF Then
    <2>4. GivesParts(Err("schema.invalid_value"))
      BY ErrIs DEF GivesParts
    <2> HIDE DEF d2
    <2> QED
      BY <1>7, <2>0, <2>1, <2>2, <2>3, <2>4 DEF GivesParts
  <1> HIDE DEF d2
  <1>9. PICK t : t = AsTyped(doc.tools) /\ Clean(t) /\ (t.ok => doc.tools.is = "given" /\ t.v = doc.tools.v)
    BY FieldIs
  <1>10. PICK f : f = Nullable(doc.facts) /\ Clean(f)
    BY FieldIs
  <1>11. SplitRequest(doc) = IF ~f.ok THEN f
                             ELSE IF doc.tools = Absent THEN bare(f.v)
                             ELSE IF t.ok THEN d2(f.v, t.v) ELSE t
    BY <1>1, <1>9, <1>10 DEF Then
  <1>12. CASE f.ok /\ doc.tools # Absent /\ t.ok
    <2>1. SplitRequest(doc) = d2(f.v, doc.tools.v)
      BY <1>9, <1>11, <1>12
    <2> QED
      BY <1>8, <1>9, <1>12, <2>1
  <1>13. CASE ~(f.ok /\ doc.tools # Absent /\ t.ok)
    BY <1>4, <1>9, <1>10, <1>11, <1>13 DEF GivesParts
  <1> QED
    BY <1>12, <1>13

LEMMA AnthropicIs ==
  ASSUME NEW doc, IsAnthropicDocument(doc), NEW limits \in [LimitNames -> Nat]
  PROVE  GivesRequest(AnthropicDecodeRequest(doc, limits), limits)
  <1> DEFINE c5(state, questions) == FromCore(NewRequest(state, questions, DefaultPolicy, limits))
             c4(parts, questions) == Then(WithFacts(parts.state, Or(parts.facts, <<>>)), LAMBDA state :
                                       c5(state, questions))
             c3(parts, questions) == Then(EnforceLimits(parts.state.text, Len(questions), limits), LAMBDA within :
                                       c4(parts, questions))
             c2(parts) == Then(DecodeInputSchema(parts.schema, limits), LAMBDA questions : c3(parts, questions))
  <1>1. AnthropicDecodeRequest(doc, limits) = Then(SplitRequest(doc), LAMBDA parts : c2(parts))
    BY DEF AnthropicDecodeRequest
  <1>2. ASSUME NEW state, IsState(state), NEW questions \in Seq(Questions) PROVE GivesRequest(c5(state, questions), limits)
    BY <1>2, AdapterEnds
  <1> HIDE DEF c5
  <1>3. ASSUME NEW parts, IsState(parts.state), NEW questions \in Seq(Questions)
        PROVE  GivesRequest(c4(parts, questions), limits)
    BY <1>2, <1>3, WithFactsIs DEF Then, GivesRequest, GivesState
  <1> HIDE DEF c4
  <1>4. ASSUME NEW parts, IsState(parts.state), NEW questions \in Seq(Questions)
        PROVE  GivesRequest(c3(parts, questions), limits)
    BY <1>3, <1>4, EnforceIs DEF Then, GivesRequest
  <1> HIDE DEF c3
  <1>5. ASSUME NEW parts, IsState(parts.state), IsSchema(parts.schema) PROVE GivesRequest(c2(parts), limits)
    BY <1>4, <1>5, InputSchemaIs DEF Then, GivesRequest, Gives
  <1> HIDE DEF c2
  <1> QED
    BY <1>1, <1>5, SplitIs DEF Then, GivesRequest, GivesParts

-----------------------------------------------------------------------------
(* The Jev format.                                                         *)

\* The last entry of an id is one of the entries.
LEMMA OfIs ==
  ASSUME NEW S, NEW s \in Seq(S), NEW id \in Ids(s)
  PROVE  Of(s, id) \in S /\ Of(s, id).id = id
  <1> PICK n \in Nat : n = Len(s) /\ DOMAIN s = 1 .. n /\ \A i \in 1 .. n : s[i] \in S
    OBVIOUS
  <1> PICK D : D = {i \in DOMAIN s : s[i].id = id}
    OBVIOUS
  <1>1. D # {} /\ D \subseteq 1 .. n
    BY DEF Ids
  <1>2. IsFiniteSet(D)
    BY <1>1, Intervals, FS_Subset
  <1> PICK f : f = [i \in D |-> i]
    OBVIOUS
  <1>3. \A i \in D : f[i] \in Int /\ f[i] = i
    BY <1>1
  <1>4. \E x \in D : \A y \in D : f[y] <= f[x]
    BY <1>1, <1>2, <1>3, Greatest
  <1>5. \E x \in D : \A y \in D : x >= y
    BY <1>1, <1>3, <1>4
  <1>6. Max(D) \in D
    BY <1>5 DEF Max
  <1>7. Of(s, id) = s[Max(D)]
    BY DEF Of
  <1>8. PICK m \in D : m = Max(D)
    BY <1>6
  <1> QED
    BY <1>1, <1>7, <1>8

\* The ids of a list, in order.
LEMMA IdsIs ==
  ASSUME NEW S, \A x \in S : x.id \in Nat, NEW s \in Seq(S)
  PROVE  IsFiniteSet(Ids(s)) /\ Ids(s) \in SUBSET Nat
  <1> PICK n \in Nat : n = Len(s) /\ DOMAIN s = 1 .. n /\ \A i \in 1 .. n : s[i] \in S
    OBVIOUS
  <1> PICK f : f = [i \in 1 .. n |-> s[i].id]
    OBVIOUS
  <1>1. Ids(s) = {f[i] : i \in 1 .. n}
    BY DEF Ids
  <1>2. IsFiniteSet(1 .. n)
    BY Intervals
  <1>3. IsFiniteSet({f[i] : i \in 1 .. n})
    BY ONLY <1>2, Images
  <1> QED
    BY <1>1, <1>3

LEMMA SortedRange ==
  ASSUME NEW s \in Seq(Nat)
  PROVE  Sorted(Range(s)) \in Seq(Nat)
  <1> PICK n \in Nat : n = Len(s) /\ DOMAIN s = 1 .. n /\ \A i \in 1 .. n : s[i] \in Nat
    OBVIOUS
  <1> PICK R : R = Range(s)
    OBVIOUS
  <1>1. R = {s[i] : i \in 1 .. n} /\ R \in SUBSET Nat
    BY DEF Range
  <1>2. IsFiniteSet(1 .. n)
    BY Intervals
  <1>3. IsFiniteSet({s[i] : i \in 1 .. n})
    BY ONLY <1>2, Images
  <1>4. Sorted(R) \in [1 .. Cardinality(R) -> R] /\ Cardinality(R) \in Nat
    BY <1>1, <1>3, SortedIs
  <1>5. \A k \in Nat : \A t \in [1 .. k -> R] : t \in Seq(Nat)
    BY <1>1
  <1> QED
    BY <1>4, <1>5

\* A question on the wire.
WireQuestions == [type : STRING, instructions : Nat, criteria : {{}} \cup {{c} : c \in Seq(Nat)}]

LEMMA QuestionWireIs ==
  ASSUME NEW question \in Holding(WrittenQuestion)
  PROVE  Gives(QuestionWire(question), WireQuestions)
  <1>1. CASE question.is # "given"
    BY <1>1, ErrIs DEF QuestionWire, Gives
  <1>2. CASE question.is = "given"
    <2> PICK q \in WrittenQuestion : q = question.v
      BY <1>2, HoldingIs
    <2> DEFINE untyped == ~(/\ {q.type.is, q.instructions.is} \cap {"wrong", "null"} = {}
                            /\ q.criteria.is # "wrong")
               missing == q.type = Absent \/ q.instructions = Absent
               checks == << <<untyped, "schema.invalid_value">>, <<missing, "schema.missing_field">> >>
               v == [type |-> q.type.v, instructions |-> q.instructions.v,
                     criteria |-> IF q.criteria.is = "given" THEN {q.criteria.v} ELSE {}]
    <2>1. QuestionWire(question) = Unless(checks, v)
      BY <1>2 DEF QuestionWire
    <2>2. DOMAIN checks = 1 .. 2 /\ \A i \in 1 .. 2 : checks[i][2] # "ir.invalid"
      OBVIOUS
    <2>3. ASSUME \A i \in 1 .. 2 : ~checks[i][1] PROVE v \in WireQuestions
      <3>1. ~checks[1][1] /\ ~checks[2][1]
        BY <2>3
      <3>2. ~untyped /\ ~missing
        <4> HIDE DEF untyped, missing
        <4> QED
          BY <3>1, Zenon
      <3>3. q.type \in Holding(STRING) /\ q.instructions \in Holding(Nat) /\ q.criteria \in Holding(Seq(Nat))
        BY DEF WrittenQuestion
      <3>4. \A S, f : f \in Holding(S) /\ f.is # "wrong" /\ f.is # "null" /\ f # Absent => f.is = "given"
        BY DEF Holding, Null, Wrong, Absent
      <3>5. q.type.is = "given" /\ q.instructions.is = "given"
        BY <3>2, <3>3, <3>4
      <3>6. q.type.v \in STRING /\ q.instructions.v \in Nat
        BY <3>3, <3>5, HoldingIs
      <3>7. PICK c : c = (IF q.criteria.is = "given" THEN {q.criteria.v} ELSE {})
        OBVIOUS
      <3>8. c \in {{}} \cup {{x} : x \in Seq(Nat)}
        <4>1. q.criteria.is = "given" => q.criteria.v \in Seq(Nat)
          BY <3>3, HoldingIs
        <4> QED
          BY <3>7, <4>1
      <3>9. v = [type |-> q.type.v, instructions |-> q.instructions.v, criteria |-> c]
        BY <3>7
      <3> HIDE DEF v
      <3> QED
        BY <3>6, <3>8, <3>9 DEF WireQuestions
    <2> HIDE DEF checks, v
    <2>4. Clean(Unless(checks, v)) /\ (Unless(checks, v).ok => Unless(checks, v).v = v /\ \A i \in 1 .. 2 : ~checks[i][1])
      BY <2>2, UnlessIs
    <2> QED
      BY <2>1, <2>3, <2>4 DEF Gives
  <1> QED
    BY <1>1, <1>2

LEMMA SortedCriteriaIs ==
  ASSUME NEW question \in Holding(WrittenQuestion)
  PROVE  SortedCriteria(question) \in Holding(WrittenQuestion)
  <1>1. CASE question.is # "given" \/ question.v.criteria.is # "given"
    BY <1>1 DEF SortedCriteria
  <1>2. CASE ~(question.is # "given" \/ question.v.criteria.is # "given")
    <2> PICK q \in WrittenQuestion : q = question.v
      BY <1>2, HoldingIs
    <2>1. q.criteria.v \in Seq(Nat)
      BY <1>2, HoldingIs DEF WrittenQuestion
    <2> PICK s \in Seq(Nat) : s = Sorted(Range(q.criteria.v))
      BY <2>1, SortedRange
    <2>2. SortedCriteria(question) = Given([q EXCEPT !.criteria = Given(s)])
      BY <1>2 DEF SortedCriteria
    <2>3. Given(s) \in Holding(Seq(Nat))
      BY DEF Given, Holding
    <2>4. [q EXCEPT !.criteria = Given(s)] \in WrittenQuestion
      BY <2>3 DEF WrittenQuestion
    <2> QED
      BY <2>2, <2>4 DEF Given, Holding
  <1> QED
    BY <1>1, <1>2

\* The criteria of a question, counted.
LEMMA JevQuestionIs ==
  ASSUME NEW id \in Nat, NEW q \in WireQuestions, NEW limits
  PROVE  Gives(JevQuestion(id, q, limits), Questions)
  <1> PICK criteria \in Seq(Nat) : criteria = Or(q.criteria, <<>>)
    <2>1. CASE q.criteria = {}
      <3>1. Or(q.criteria, <<>>) = <<>>
        BY <2>1 DEF Or
      <3> QED
        BY <3>1, EmptySeq
    <2>2. CASE q.criteria # {}
      BY <2>2 DEF Or, WireQuestions
    <2> QED
      BY <2>1, <2>2
  <1> DEFINE checks(least, most) ==
          << <<q.instructions = Empty, "schema.missing_field">>,
                    <<q.criteria = {}, "schema.missing_field">>,
                    <<Len(criteria) < least, "schema.invalid_value">>,
                    <<Len(criteria) > most, "schema.limit_exceeded">>,
                    <<Len(criteria) > limits.candidates, "schema.limit_exceeded">> >>
             counted(least, most) == Unless(checks(least, most), criteria)
             choice3(candidates) == FromCore(NewChoice(id, q.instructions, candidates))
             choice2(labels) == Then(InvalidValue(Each(labels, NewCandidate)), LAMBDA candidates : choice3(candidates))
             choice == Then(counted(1, MaxCriteria), LAMBDA labels : choice2(labels))
             score3(levels) == FromCore(NewScore(id, q.instructions, levels))
             score2(labels) == Then(InvalidValue(Each(labels, NewLevel)), LAMBDA levels : score3(levels))
             score == Then(counted(2, Len(criteria)), LAMBDA labels : score2(labels))
             noul == FromCore(NewBoolean(id, q.instructions))
             others == << <<q.instructions = Empty, "schema.missing_field">>, <<TRUE, "schema.invalid_type">> >>
  <1>1. JevQuestion(id, q, limits) =
          CASE q.type = "choice" -> choice
            [] q.type = "score" -> score
            [] q.type = "noul" -> noul
            [] OTHER -> Unless(others, q)
    BY DEF JevQuestion
  <1>2. ASSUME NEW least, NEW most PROVE Gives(counted(least, most), Seq(Nat))
    <2>1. DOMAIN checks(least, most) = 1 .. 5 /\ \A i \in 1 .. 5 : checks(least, most)[i][2] # "ir.invalid"
      OBVIOUS
    <2> HIDE DEF checks
    <2> PICK cs : cs = checks(least, most)
      OBVIOUS
    <2>3. Clean(Unless(cs, criteria)) /\ (Unless(cs, criteria).ok => Unless(cs, criteria).v = criteria)
      BY <2>1, UnlessIs
    <2>2. Clean(counted(least, most)) /\ (counted(least, most).ok => counted(least, most).v = criteria)
      BY <2>3
    <2> HIDE DEF counted
    <2> QED
      BY <2>2 DEF Gives
  <1> HIDE DEF counted
  <1>0. q.instructions \in Nat
    BY DEF WireQuestions
  <1>3. ASSUME NEW c \in Seq(Nat) PROVE Gives(choice3(c), Questions) /\ Gives(score3(c), Questions)
    BY <1>0, NewChoiceIs, NewScoreIs, CoreGives
  <1> HIDE DEF choice3, score3
  <1>4. ASSUME NEW c \in Seq(Nat) PROVE Gives(choice2(c), Questions) /\ Gives(score2(c), Questions)
    <2>1. Gives(InvalidValue(Each(c, NewCandidate)), Seq(Nat)) /\ Gives(InvalidValue(Each(c, NewLevel)), Seq(Nat))
      BY CandidatesAndLevels, CoreGives
    <2> QED
      BY <1>3, <2>1 DEF Then, Gives
  <1> HIDE DEF choice2, score2
  <1>5. Gives(choice, Questions)
    BY <1>2, <1>4 DEF Then, Gives
  <1>6. Gives(score, Questions)
    BY <1>2, <1>4 DEF Then, Gives
  <1>7. Gives(noul, Questions)
    BY <1>0, NewBooleanIs, CoreGives
  <1> HIDE DEF choice, score, noul
  <1>8. Gives(Unless(others, q), Questions)
    <2>1. DOMAIN others = 1 .. 2 /\ \A i \in 1 .. 2 : others[i][2] # "ir.invalid"
      OBVIOUS
    <2>2. others[2][1]
      BY Zenon
    <2> HIDE DEF others
    <2>3. Clean(Unless(others, q)) /\ (Unless(others, q).ok => \A i \in 1 .. 2 : ~others[i][1])
      BY <2>1, UnlessIs
    <2>4. ~Unless(others, q).ok
      BY <2>2, <2>3
    <2> QED
      BY <2>3, <2>4 DEF Gives
  <1> HIDE DEF others
  <1> QED
    BY <1>1, <1>5, <1>6, <1>7, <1>8

\* What is left of a document when it has been read.
LEMMA JevBuildIs ==
  ASSUME NEW state \in Nat, NEW model, NEW facts, NEW questions \in Seq([id : Nat, v : WireQuestions]),
         NEW limits \in [LimitNames -> Nat]
  PROVE  GivesRequest(JevBuild([state |-> state, model |-> model, facts |-> facts, questions |-> questions], limits),
                      limits)
  <1> PICK wire : wire = [state |-> state, model |-> model, facts |-> facts, questions |-> questions]
    OBVIOUS
  <1>0. wire.state = state /\ wire.questions = questions
    OBVIOUS
  <1> PICK W : W = [id : Nat, v : WireQuestions]
    OBVIOUS
  <1>8. questions \in Seq(W)
    OBVIOUS
  <1> PICK n \in Nat : n = Len(questions) /\ DOMAIN questions = 1 .. n /\ \A i \in 1 .. n : questions[i] \in W
    BY ONLY <1>8
  <1>9. \A i \in 1 .. n : questions[i].id \in Nat /\ questions[i].v \in WireQuestions
    OBVIOUS
  <1> DEFINE start == [FromText(wire.state) EXCEPT !.facts = ModelFact :> wire.model]
             rs == [i \in DOMAIN wire.questions |-> JevQuestion(wire.questions[i].id, wire.questions[i].v, limits)]
             c4(s, qs) == FromCore(NewRequest(s, qs, DefaultPolicy, limits))
             c3(s) == Then(Collect(rs), LAMBDA qs : c4(s, qs))
             c2 == Then(WithFacts(start, wire.facts), LAMBDA s : c3(s))
  <1>1. JevBuild(wire, limits) = Then(EnforceLimits(wire.state, Len(wire.questions), limits), LAMBDA within : c2)
    BY DEF JevBuild, Each
  <1>2. IsState(start)
    <2>1. IsState(FromText(state))
      BY FromTextIs
    <2>2. PICK x : x = ModelFact :> wire.model
      OBVIOUS
    <2>3. start = [FromText(state) EXCEPT !.facts = x]
      BY <1>0, <2>2
    <2> HIDE DEF start
    <2> QED
      BY <2>1, <2>3 DEF IsState
  <1> HIDE DEF start
  <1>3. DOMAIN rs = 1 .. n /\ \A i \in 1 .. n : Gives(rs[i], Questions)
    BY <1>0, <1>9, JevQuestionIs
  <1> HIDE DEF rs
  <1>4. Gives(Collect(rs), Seq(Questions))
    BY <1>3, ReadEach
  <1>5. ASSUME NEW s, IsState(s), NEW qs \in Seq(Questions) PROVE GivesRequest(c4(s, qs), limits)
    BY <1>5, AdapterEnds
  <1> HIDE DEF c4
  <1>6. ASSUME NEW s, IsState(s) PROVE GivesRequest(c3(s), limits)
    BY <1>4, <1>5, <1>6 DEF Then, GivesRequest, Gives
  <1> HIDE DEF c3
  <1>7. GivesRequest(c2, limits)
    BY <1>2, <1>6, WithFactsIs DEF Then, GivesRequest, GivesState
  <1> HIDE DEF c2
  <1> QED
    BY <1>1, <1>7, EnforceIs DEF Then, GivesRequest

LEMMA JevIs ==
  ASSUME NEW doc, IsJevDocument(doc), NEW limits \in [LimitNames -> Nat]
  PROVE  GivesRequest(JevDecodeRequest(doc, limits), limits)
  <1> DEFINE build(state, model, facts, questions) ==
               JevBuild([state |-> state, model |-> model, facts |-> Or(facts, <<>>), questions |-> questions], limits)
             one(written, id) == Then(QuestionWire(SortedCriteria(Of(written, id).question)), LAMBDA q :
                                   Ok([id |-> id, v |-> q]))
             rs(written) == [i \in DOMAIN Sorted(Ids(written)) |-> one(written, Sorted(Ids(written))[i])]
  <1>1. PICK s : s = Required(doc.state) /\ Clean(s) /\ (s.ok => doc.state.is = "given" /\ s.v = doc.state.v)
    BY FieldIs
  <1>2. PICK m : m = Required(doc.model) /\ Clean(m)
    BY FieldIs
  <1>3. PICK f : f = Nullable(doc.facts) /\ Clean(f)
    BY FieldIs
  <1>4. PICK w : w = Required(doc.questions) /\ Clean(w) /\ (w.ok => doc.questions.is = "given" /\ w.v = doc.questions.v)
    BY FieldIs
  <1>5. PICK r : r = Collect(rs(w.v))
    OBVIOUS
  <1>6. JevDecodeRequest(doc, limits) =
          IF ~s.ok THEN s ELSE IF ~m.ok THEN m ELSE IF ~f.ok THEN f ELSE IF ~w.ok THEN w
          ELSE IF r.ok THEN build(s.v, m.v, f.v, r.v) ELSE r
    BY <1>1, <1>2, <1>3, <1>4, <1>5 DEF JevDecodeRequest, Then, Each
  <1>7. s.ok => s.v \in Nat
    BY <1>1, HoldingIs DEF IsJevDocument
  <1>8. w.ok => w.v \in Seq([id : Nat, question : Holding(WrittenQuestion)])
    BY <1>4, HoldingIs DEF IsJevDocument
  <1> DEFINE W == [id : Nat, v : WireQuestions]
  <1>9. w.ok => Gives(r, Seq(W))
    <2> SUFFICES ASSUME w.ok PROVE Gives(r, Seq(W))
      OBVIOUS
    <2> PICK Q : Q = [id : Nat, question : Holding(WrittenQuestion)]
      OBVIOUS
    <2>0. \A x \in Q : x.id \in Nat /\ x.question \in Holding(WrittenQuestion)
      OBVIOUS
    <2> PICK z \in Seq(Q) : z = w.v
      BY <1>8
    <2>1. IsFiniteSet(Ids(z)) /\ Ids(z) \in SUBSET Nat
      BY <2>0, IdsIs
    <2> PICK t : t = Sorted(Ids(z))
      OBVIOUS
    <2> PICK n \in Nat : n = Cardinality(Ids(z)) /\ t \in [1 .. n -> Ids(z)]
      BY <2>1, SortedIs
    <2>2. ASSUME NEW id \in Ids(z) PROVE Gives(one(z, id), W)
      <3> PICK x \in Q : x = Of(z, id)
        BY OfIs
      <3>1. PICK y : y = QuestionWire(SortedCriteria(x.question))
        OBVIOUS
      <3>2. Gives(y, WireQuestions)
        BY <2>0, <3>1, SortedCriteriaIs, QuestionWireIs
      <3>3. one(z, id) = IF y.ok THEN Ok([id |-> id, v |-> y.v]) ELSE y
        BY <3>1 DEF Then
      <3>4. id \in Nat
        BY <2>1
      <3>5. y.ok => [id |-> id, v |-> y.v] \in W
        BY <3>2, <3>4 DEF Gives
      <3> HIDE DEF one, W
      <3> QED
        BY <3>2, <3>3, <3>5, OkIs DEF Gives
    <2> HIDE DEF one, W
    <2>3. PICK ws : ws = rs(z)
      OBVIOUS
    <2>4. ws = [i \in DOMAIN t |-> one(z, t[i])]
      BY <2>3
    <2>5. DOMAIN ws = 1 .. n /\ \A i \in 1 .. n : Gives(ws[i], W)
      BY <2>2, <2>4
    <2>6. r = Collect(ws)
      BY <1>5, <2>3
    <2> QED
      BY <2>5, <2>6, ReadEach
  <1>10. s.ok /\ w.ok /\ r.ok => GivesRequest(build(s.v, m.v, f.v, r.v), limits)
    <2> SUFFICES ASSUME s.ok, w.ok, r.ok PROVE GivesRequest(build(s.v, m.v, f.v, r.v), limits)
      OBVIOUS
    <2>1. s.v \in Nat /\ r.v \in Seq(W)
      BY <1>7, <1>9 DEF Gives
    <2> QED
      BY <2>1, JevBuildIs
  <1> HIDE DEF build, W
  <1> QED
    BY <1>1, <1>2, <1>3, <1>4, <1>6, <1>9, <1>10 DEF GivesRequest, Gives

LEMMA JevStrIs ==
  ASSUME NEW doc, IsJevDocument(doc), NEW limits \in [LimitNames -> Nat]
  PROVE  GivesRequest(JevDecodeRequestStr(doc, limits), limits)
  <1> DEFINE written == doc.questions.v
             wires == [i \in DOMAIN written |-> QuestionWire(written[i].question)]
             repeated(q) == q.is = "given" /\ q.v.criteria.is = "given" /\ Repeats(q.v.criteria.v)
             untyped == \/ doc.state.is # "given" \/ doc.model.is # "given" \/ doc.facts.is = "wrong"
                        \/ doc.questions.is # "given"
             unfit == \/ Repeats([i \in DOMAIN written |-> written[i].id])
                      \/ ~Collect(wires).ok
                      \/ \E i \in DOMAIN written : repeated(written[i].question)
             facts == IF doc.facts.is = "given" THEN doc.facts.v ELSE <<>>
             questions == [i \in DOMAIN wires |-> [id |-> written[i].id, v |-> wires[i].v]]
             built == JevBuild([state |-> doc.state.v, model |-> doc.model.v, facts |-> facts,
                                questions |-> questions], limits)
  <1>1. JevDecodeRequestStr(doc, limits) =
          IF untyped THEN Err("schema.invalid_json") ELSE IF unfit THEN Err("schema.invalid_json") ELSE built
    BY DEF JevDecodeRequestStr
  <1>2. GivesRequest(Err("schema.invalid_json"), limits)
    BY ErrIs DEF GivesRequest
  <1>3. ASSUME ~untyped, ~unfit PROVE GivesRequest(built, limits)
    <2>1. doc.state.is = "given" /\ doc.questions.is = "given" /\ Collect(wires).ok
      <3> HIDE DEF wires
      <3> QED
        BY <1>3
    <2> PICK Q : Q = [id : Nat, question : Holding(WrittenQuestion)]
      OBVIOUS
    <2>2. doc.state.v \in Nat /\ written \in Seq(Q)
      BY <2>1, HoldingIs DEF IsJevDocument
    <2> PICK z \in Seq(Q) : z = written
      BY <2>2
    <2>0. z \in Seq(Q)
      OBVIOUS
    <2> PICK n \in Nat : n = Len(z) /\ DOMAIN z = 1 .. n /\ \A i \in 1 .. n : z[i] \in Q
      BY ONLY <2>0
    <2>3. \A i \in 1 .. n : z[i].id \in Nat /\ z[i].question \in Holding(WrittenQuestion)
      OBVIOUS
    <2> PICK ws : ws = wires
      OBVIOUS
    <2>4. ws = [i \in 1 .. n |-> QuestionWire(z[i].question)]
      OBVIOUS
    <2>5. DOMAIN ws = 1 .. n /\ \A i \in 1 .. n : Gives(ws[i], WireQuestions)
      BY <2>3, <2>4, QuestionWireIs
    <2>6. \A i \in 1 .. n : ws[i].ok
      BY <2>1, <2>5, ReadEach
    <2> DEFINE W == [id : Nat, v : WireQuestions]
    <2> PICK qs : qs = [i \in 1 .. n |-> [id |-> z[i].id, v |-> ws[i].v]]
      OBVIOUS
    <2>7. \A i \in 1 .. n : qs[i] \in W
      BY <2>3, <2>5, <2>6 DEF Gives
    <2>8. qs \in Seq(W)
      <3>1. qs = [i \in 1 .. n |-> qs[i]]
        OBVIOUS
      <3> HIDE DEF W
      <3>2. qs \in [1 .. n -> W]
        BY ONLY <2>7, <3>1
      <3> QED
        BY ONLY <3>2, n \in Nat
    <2>9. questions = qs
      BY <2>5
    <2> HIDE DEF questions, facts
    <2>10. built = JevBuild([state |-> doc.state.v, model |-> doc.model.v, facts |-> facts, questions |-> qs], limits)
      BY <2>9
    <2> QED
      BY <2>2, <2>8, <2>10, JevBuildIs
  <1> HIDE DEF built, untyped, unfit
  <1> QED
    BY <1>1, <1>2, <1>3

-----------------------------------------------------------------------------
(* The native format.                                                      *)

\* A result whose request is within the limits, its own limits too.
GivesWithin(r, limits) ==
    Clean(r) /\ (r.ok => IsRequest(r.v) /\ \A l \in LimitNames : r.v.limits[l] <= limits[l])

LEMMA WithinIs ==
  ASSUME NEW limits \in [LimitNames -> Nat], NEW r, GivesRequest(r, limits)
  PROVE  GivesWithin(r, limits)
  BY DEF GivesRequest, GivesWithin

WrittenNative == [kind : {"choice", "boolean", "score"}, id : Nat, text : Nat, options : Seq(Nat)]

LEMMA NewQuestionIs ==
  ASSUME NEW raw \in WrittenNative
  PROVE  Gives(NewQuestion(raw), Questions)
  <1> PICK id \in Nat, text \in Nat, options \in Seq(Nat) : id = raw.id /\ text = raw.text /\ options = raw.options
    BY DEF WrittenNative
  <1>1. CASE raw.kind = "choice"
    <2> PICK c : c = Each(options, NewCandidate) /\ Gives(c, Seq(Nat))
      BY CandidatesAndLevels
    <2>1. NewQuestion(raw) = IF c.ok THEN NewChoice(id, text, c.v) ELSE c
      BY <1>1 DEF NewQuestion, Then
    <2> QED
      BY <2>1, NewChoiceIs DEF Gives
  <1>2. CASE raw.kind = "boolean"
    <2>1. NewQuestion(raw) = NewBoolean(id, text)
      BY <1>2 DEF NewQuestion
    <2> QED
      BY <2>1, NewBooleanIs
  <1>3. CASE raw.kind = "score"
    <2> PICK c : c = Each(options, NewLevel) /\ Gives(c, Seq(Nat))
      BY CandidatesAndLevels
    <2>1. NewQuestion(raw) = IF c.ok THEN NewScore(id, text, c.v) ELSE c
      BY <1>3 DEF NewQuestion, Then
    <2> QED
      BY <2>1, NewScoreIs DEF Gives
  <1> QED
    BY <1>1, <1>2, <1>3 DEF WrittenNative

\* A request built as its document says, with the document's own limits.
LEMMA NativeRequestIs ==
  ASSUME NEW doc, IsNativeDocument(doc), NEW limits \in [LimitNames -> Nat]
  PROVE  \E own \in [LimitNames -> Nat] : GivesRequest(NativeRequest(doc, limits), own)
  <1> DEFINE raw == Or(doc.limits, limits)
             own == IF doc.limits = {} THEN limits
                    ELSE [raw EXCEPT !.images = Or(@, limits.images), !.image_bytes = Or(@, limits.image_bytes)]
             read == Each(doc.questions, NewQuestion)
             chosen == IF doc.policy = {} THEN Ok(DefaultPolicy) ELSE NewPolicy(Or(doc.policy, {}))
             state == [text |-> doc.text, facts |-> doc.facts, images |-> Or(doc.images, <<>>)]
             c3(questions, policy) == NewRequest(state, questions, policy, own)
             c2(questions) == Then(chosen, LAMBDA policy : c3(questions, policy))
  <1>1. NativeRequest(doc, limits) = Then(read, LAMBDA questions : c2(questions))
    BY DEF NativeRequest
  <1>2. own \in [LimitNames -> Nat]
    <2>1. CASE doc.limits = {}
      BY <2>1
    <2>2. CASE doc.limits # {}
      <3>1. WrittenLimits(raw)
        BY <2>2 DEF IsNativeDocument, Or
      <3> PICK w : w = raw
        OBVIOUS
      <3>2. /\ DOMAIN w = LimitNames /\ w.images \subseteq Nat /\ w.image_bytes \subseteq Nat
            /\ \A l \in LimitNames \ {"images", "image_bytes"} : w[l] \in Nat
        BY <3>1 DEF WrittenLimits
      <3>3. \A option \in SUBSET Nat, default \in Nat : Or(option, default) \in Nat
        BY DEF Or
      <3> PICK a \in Nat, b \in Nat : a = Or(w.images, limits.images) /\ b = Or(w.image_bytes, limits.image_bytes)
        <4>1. limits.images \in Nat /\ limits.image_bytes \in Nat
          BY DEF LimitNames
        <4> QED
          BY <3>2, <3>3, <4>1
      <3>4. own = [w EXCEPT !.images = a, !.image_bytes = b]
        BY <2>2
      <3> QED
        BY <3>2, <3>4 DEF LimitNames
    <2> QED
      BY <2>1, <2>2
  <1> HIDE DEF own
  <1>3. IsState(state)
    <2>1. Or(doc.images, <<>>) \in Seq(Nat)
      <3>1. CASE doc.images = {}
        <4>1. Or(doc.images, <<>>) = <<>>
          BY <3>1 DEF Or
        <4> QED
          BY <4>1, EmptySeq
      <3>2. CASE doc.images # {}
        BY <3>2 DEF Or, IsNativeDocument
      <3> QED
        BY <3>1, <3>2
    <2> QED
      BY <2>1 DEF IsState, IsNativeDocument
  <1> HIDE DEF state
  <1>4. Gives(read, Seq(Questions))
    <2>1. doc.questions \in Seq(WrittenNative)
      BY DEF IsNativeDocument, WrittenNative
    <2> PICK z \in Seq(WrittenNative) : z = doc.questions
      BY <2>1
    <2> PICK n \in Nat : n = Len(z) /\ DOMAIN z = 1 .. n /\ \A i \in 1 .. n : z[i] \in WrittenNative
      OBVIOUS
    <2>2. PICK rs : rs = [i \in DOMAIN z |-> NewQuestion(z[i])]
      OBVIOUS
    <2>3. DOMAIN rs = 1 .. n /\ \A i \in 1 .. n : Gives(rs[i], Questions)
      BY <2>2, NewQuestionIs
    <2>4. read = Collect(rs)
      BY <2>2 DEF Each
    <2> HIDE DEF read
    <2> QED
      BY <2>3, <2>4, ReadEach
  <1> HIDE DEF read
  <1>5. GivesPolicy(chosen)
    <2>1. GivesPolicy(Ok(DefaultPolicy))
      BY DefaultPolicyIs, OkIs DEF GivesPolicy
    <2> QED
      BY <2>1, NewPolicyIs
  <1> HIDE DEF chosen
  <1>6. ASSUME NEW questions \in Seq(Questions), NEW policy, IsPolicy(policy)
        PROVE  GivesRequest(c3(questions, policy), own)
    BY <1>2, <1>3, <1>6, NewRequestIs
  <1> HIDE DEF c3
  <1>7. ASSUME NEW questions \in Seq(Questions) PROVE GivesRequest(c2(questions), own)
    BY <1>5, <1>6, <1>7 DEF Then, GivesRequest, GivesPolicy
  <1> HIDE DEF c2
  <1>8. GivesRequest(NativeRequest(doc, limits), own)
    BY <1>1, <1>4, <1>7 DEF Then, GivesRequest, Gives
  <1> QED
    BY <1>2, <1>8

LEMMA CheckLimitsIs ==
  ASSUME NEW request, IsRequest(request), NEW limits \in [LimitNames -> Nat]
  PROVE  /\ Clean(CheckLimits(request, limits))
         /\ CheckLimits(request, limits).ok =>
              CheckLimits(request, limits).v = request /\ \A l \in LimitNames : request.limits[l] <= limits[l]
  <1> DEFINE above == \E l \in LimitNames : request.limits[l] > limits[l]
             over == \/ request.state.text > limits.input_bytes
                     \/ Len(request.questions) > limits.questions
                     \/ \E q \in Range(request.questions) :
                           q.kind = "choice" /\ Len(q.options) > limits.candidates
                     \/ Len(request.state.images) > limits.images
                     \/ \E i \in DOMAIN request.state.images : request.state.images[i] > limits.image_bytes
                     \/ above
             checks == << <<over, "schema.limit_exceeded">> >>
  <1>1. CheckLimits(request, limits) = Unless(checks, request)
    BY DEF CheckLimits
  <1>2. DOMAIN checks = 1 .. 1 /\ checks[1][2] # "ir.invalid"
    OBVIOUS
  <1>3. ~checks[1][1] => ~above
    <2>1. checks[1][1] <=> over
      <3> HIDE DEF over
      <3> QED
        BY Zenon
    <2>2. above => over
      <3> HIDE DEF above
      <3> QED
        OBVIOUS
    <2> QED
      BY <2>1, <2>2
  <1> HIDE DEF checks
  <1>4. Clean(Unless(checks, request)) /\ (Unless(checks, request).ok => Unless(checks, request).v = request /\ ~checks[1][1])
    BY <1>2, OneCheck
  <1>5. ~above => \A l \in LimitNames : request.limits[l] <= limits[l]
    BY DEF IsRequest
  <1> QED
    BY <1>1, <1>3, <1>4, <1>5

LEMMA NativeIs ==
  ASSUME NEW doc, IsNativeDocument(doc), NEW limits \in [LimitNames -> Nat]
  PROVE  GivesWithin(NativeDecodeRequest(doc, limits), limits)
  <1> DEFINE c4(within) == FromCore(NewRequest(within.state, within.questions, within.policy, within.limits))
             c3(known) == Then(CheckLimits(known, limits), LAMBDA within : c4(within))
             foreign == doc.extra \/ OmittedOnTheWire(doc, limits)
             checks == << <<foreign, "schema.invalid_value">> >>
             c2(request) == Then(Unless(checks, request), LAMBDA known : c3(known))
             first == InvalidValue(NativeRequest(doc, limits))
  <1>1. NativeDecodeRequest(doc, limits) = Then(first, LAMBDA request : c2(request))
    BY DEF NativeDecodeRequest
  <1>2. Clean(first) /\ (first.ok => IsRequest(first.v))
    <2> PICK own \in [LimitNames -> Nat] : GivesRequest(NativeRequest(doc, limits), own)
      BY NativeRequestIs
    <2> QED
      BY FromCoreIs DEF GivesRequest, Clean
  <1> HIDE DEF first
  <1>3. ASSUME NEW r, IsRequest(r), \A l \in LimitNames : r.limits[l] <= limits[l] PROVE GivesWithin(c4(r), limits)
    <2>1. /\ IsState(r.state) /\ r.questions \in Seq(Questions) /\ IsPolicy(r.policy) /\ r.limits \in [LimitNames -> Nat]
      BY <1>3 DEF IsRequest
    <2> PICK n : n = NewRequest(r.state, r.questions, r.policy, r.limits)
      OBVIOUS
    <2>2. GivesRequest(n, r.limits)
      BY <2>1, NewRequestIs
    <2>3. GivesRequest(FromCore(n), r.limits)
      BY <2>2, FromCoreIs DEF GivesRequest, Clean
    <2> QED
      BY <1>3, <2>3 DEF GivesWithin, GivesRequest
  <1> HIDE DEF c4
  <1>4. ASSUME NEW r, IsRequest(r) PROVE GivesWithin(c3(r), limits)
    BY <1>3, <1>4, CheckLimitsIs DEF Then, GivesWithin
  <1> HIDE DEF c3
  <1>5. ASSUME NEW r, IsRequest(r) PROVE GivesWithin(c2(r), limits)
    <2>1. DOMAIN checks = 1 .. 1 /\ checks[1][2] # "ir.invalid"
      OBVIOUS
    <2> HIDE DEF checks
    <2>2. Clean(Unless(checks, r)) /\ (Unless(checks, r).ok => Unless(checks, r).v = r)
      BY <2>1, OneCheck
    <2> QED
      BY <1>4, <1>5, <2>2 DEF Then, GivesWithin
  <1> HIDE DEF c2
  <1> QED
    BY <1>1, <1>2, <1>5 DEF Then, GivesWithin

\* Whatever the format, a document is a request within the limits or none.
LEMMA DecodeIs ==
  ASSUME NEW format \in Formats, NEW doc, IsDocument(format, doc), NEW limits \in [LimitNames -> Nat]
  PROVE  GivesWithin(DecodeRequest(format, doc, limits), limits)
  <1>1. CASE format = "native"
    BY <1>1, NativeIs DEF IsDocument, DecodeRequest
  <1>2. CASE format = "openai"
    BY <1>2, OpenAiIs, WithinIs DEF IsDocument, DecodeRequest
  <1>3. CASE format = "anthropic"
    BY <1>3, AnthropicIs, WithinIs DEF IsDocument, DecodeRequest
  <1>4. CASE format = "jev"
    BY <1>4, JevIs, WithinIs DEF IsDocument, DecodeRequest
  <1> QED
    BY <1>1, <1>2, <1>3, <1>4 DEF Formats

-----------------------------------------------------------------------------
(* Chat completions.                                                       *)

\* What is heard in a message: text, and images left to the decoder.
IsHeard(s) == s.text \in Nat /\ s.images \in Seq(Holding(ContentPart))
GivesHeard(r) == Clean(r) /\ (r.ok => IsHeard(r.v))

LEMMA HeardTogether ==
  ASSUME NEW n \in Nat, NEW states, DOMAIN states = 1 .. n, \A i \in 1 .. n : IsHeard(states[i])
  PROVE  IsHeard(Gathered(states))
  <1> PICK P : P = Holding(ContentPart)
    OBVIOUS
  <1>1. PICK texts : texts = [i \in 1 .. n |-> states[i].text]
    OBVIOUS
  <1>2. SumFunction(texts) \in Nat
    <2>1. IsFiniteSet(1 .. n) /\ DOMAIN texts = 1 .. n /\ \A i \in 1 .. n : texts[i] \in Nat
      BY <1>1, Intervals DEF IsHeard
    <2> QED
      BY <2>1, SumNat DEF SumFunction
  <1>3. PICK images : images = [i \in 1 .. n |-> states[i].images]
    OBVIOUS
  <1>4. images \in Seq(Seq(P))
    BY <1>3 DEF IsHeard
  <1>5. FlattenSeq(images) \in Seq(P)
    BY <1>4, FlattenIs
  <1>6. PICK t \in Nat, f \in Seq(P) : t = SumFunction(texts) /\ f = FlattenSeq(images)
    BY <1>2, <1>5
  <1>7. Gathered(states) = [FromText(t) EXCEPT !.images = f]
    BY <1>1, <1>3, <1>6 DEF Gathered
  <1> QED
    BY <1>7 DEF IsHeard, FromText

LEMMA ChatBlockIs ==
  ASSUME NEW block \in Holding(ContentPart)
  PROVE  GivesHeard(ChatBlock(block))
  <1>1. CASE block.is # "given" \/ block.v.type \notin {"text", "image"}
    <2>1. ChatBlock(block) = Err("schema.invalid_value")
      BY <1>1 DEF ChatBlock
    <2> QED
      BY <2>1, ErrIs DEF GivesHeard
  <1>2. CASE block.is = "given" /\ block.v.type = "image"
    <2>1. ChatBlock(block) = Ok([text |-> 0, images |-> <<block>>])
      BY <1>2 DEF ChatBlock
    <2>2. PICK P : P = Holding(ContentPart)
      OBVIOUS
    <2>3. <<block>> \in Seq(P)
      BY <2>2
    <2>4. IsHeard([text |-> 0, images |-> <<block>>])
      BY <2>2, <2>3 DEF IsHeard
    <2> QED
      BY <2>1, <2>4, OkIs DEF GivesHeard
  <1>3. CASE block.is = "given" /\ block.v.type = "text"
    <2>1. block.v \in ContentPart
      BY <1>3, HoldingIs
    <2>2. block.v.body \in Holding(Nat)
      BY <1>3, <2>1 DEF ContentPart
    <2>3. PICK t : t = AsTyped(block.v.body) /\ Clean(t) /\ (t.ok => block.v.body.is = "given" /\ t.v = block.v.body.v)
      BY FieldIs
    <2>4. t.ok => t.v \in Nat
      BY <2>2, <2>3, HoldingIs
    <2>5. PICK r : r = IF t.ok THEN Ok([text |-> t.v, images |-> <<>>]) ELSE t
      OBVIOUS
    <2>6. ChatBlock(block) = InvalidValue(r)
      BY <1>3, <2>3, <2>5 DEF ChatBlock, Then
    <2>7. t.ok => IsHeard([text |-> t.v, images |-> <<>>])
      BY <2>4, EmptySeq DEF IsHeard
    <2>8. GivesHeard(r)
      BY <2>3, <2>5, <2>7, OkIs DEF GivesHeard
    <2> QED
      BY <2>6, <2>8, FromCoreIs DEF GivesHeard, Clean
  <1> QED
    BY <1>1, <1>2, <1>3

LEMMA ChatMessageIs ==
  ASSUME NEW content \in Holding(ContentOfDocument)
  PROVE  GivesHeard(ChatMessage(content))
  <1>1. CASE content.is # "given"
    <2>1. ChatMessage(content) = Err("schema.invalid_value")
      BY <1>1 DEF ChatMessage
    <2> QED
      BY <2>1, ErrIs DEF GivesHeard
  <1>2. CASE content.is = "given" /\ content.v.kind = "text"
    <2>1. ChatMessage(content) = Ok([text |-> content.v.text, images |-> <<>>])
      BY <1>2 DEF ChatMessage
    <2>2. content.v \in ContentOfDocument
      BY <1>2, HoldingIs
    <2>3. content.v.text \in Nat
      BY <1>2, <2>2 DEF ContentOfDocument
    <2>4. IsHeard([text |-> content.v.text, images |-> <<>>])
      BY <2>3, EmptySeq DEF IsHeard
    <2> QED
      BY <2>1, <2>4, OkIs DEF GivesHeard
  <1>3. CASE content.is = "given" /\ content.v.kind # "text"
    <2> PICK P : P = Holding(ContentPart)
      OBVIOUS
    <2>1. content.v \in ContentOfDocument
      BY <1>3, HoldingIs
    <2>2. content.v.parts \in Seq(P)
      BY <1>3, <2>1 DEF ContentOfDocument
    <2> PICK z \in Seq(P) : z = content.v.parts
      BY <2>2
    <2> PICK n \in Nat : n = Len(z) /\ DOMAIN z = 1 .. n /\ \A i \in 1 .. n : z[i] \in P
      OBVIOUS
    <2>3. PICK rs : rs = [i \in DOMAIN z |-> ChatBlock(z[i])]
      OBVIOUS
    <2>4. DOMAIN rs = 1 .. n /\ \A i \in 1 .. n : GivesHeard(rs[i])
      BY <2>3, ChatBlockIs
    <2>5. PICK all : all = Collect(rs)
      OBVIOUS
    <2>6. Clean(all) /\ (all.ok => all.v = [i \in 1 .. n |-> rs[i].v] /\ \A i \in 1 .. n : rs[i].ok)
      BY <2>4, <2>5, CollectIs DEF GivesHeard
    <2>7. ChatMessage(content) = IF all.ok THEN Ok(Gathered(all.v)) ELSE all
      BY <1>3, <2>3, <2>5 DEF ChatMessage, Each, Then
    <2>8. all.ok => IsHeard(Gathered(all.v))
      <3> SUFFICES ASSUME all.ok PROVE IsHeard(Gathered(all.v))
        OBVIOUS
      <3>1. DOMAIN all.v = 1 .. n /\ \A i \in 1 .. n : IsHeard(all.v[i])
        BY <2>4, <2>6 DEF GivesHeard
      <3> QED
        BY <3>1, HeardTogether
    <2> QED
      BY <2>6, <2>7, <2>8, OkIs DEF GivesHeard
  <1> QED
    BY <1>1, <1>2, <1>3

\* The texts of a chat, with what stands between them.
LEMMA JoinedLength ==
  ASSUME NEW n \in Nat
  PROVE  Max({0, n - 1}) \in Nat
  <1>1. CASE n = 0
    <2>1. {0, n - 1} = {0, -1}
      BY <1>1
    <2>2. \A x \in {0, -1} : 0 >= x
      OBVIOUS
    <2> QED
      BY <2>1, <2>2 DEF Max
  <1>2. CASE n # 0
    <2>1. n - 1 \in {0, n - 1} /\ n - 1 \in Nat /\ \A x \in {0, n - 1} : n - 1 >= x
      BY <1>2
    <2>2. {0, n - 1} \subseteq Nat
      BY <2>1
    <2>3. \E x \in {0, n - 1} : \A y \in {0, n - 1} : x >= y
      BY <2>1
    <2> QED
      BY <2>2, <2>3 DEF Max
  <1> QED
    BY <1>1, <1>2

LEMMA ChatInputIs ==
  ASSUME NEW messages \in Holding(Seq(Holding(MessageOfDocument)))
  PROVE  Gives(ChatInput(messages), ContentOfDocument)
  <1>1. CASE messages.is # "given"
    <2>1. ChatInput(messages) = Err("schema.missing_field")
      BY <1>1 DEF ChatInput
    <2> QED
      BY <2>1, ErrIs DEF Gives
  <1>2. CASE messages.is = "given"
    <2> PICK M : M = Holding(MessageOfDocument)
      OBVIOUS
    <2>1. messages.v \in Seq(M)
      BY <1>2, HoldingIs
    <2> PICK z \in Seq(M) : z = messages.v
      BY <2>1
    <2> PICK n \in Nat : n = Len(z) /\ DOMAIN z = 1 .. n /\ \A i \in 1 .. n : z[i] \in M
      OBVIOUS
    <2> DEFINE said(k) == z[k].is = "given" /\ z[k].v.role \in {"system", "user"}
    <2> PICK heard : heard = {k \in DOMAIN z : said(k)}
      OBVIOUS
    <2>2. heard \subseteq 1 .. n /\ heard \in SUBSET Nat /\ \A k \in heard : z[k].is = "given"
      OBVIOUS
    <2> HIDE DEF said
    <2>3. IsFiniteSet(1 .. n)
      BY Intervals
    <2>4. IsFiniteSet(heard)
      BY <2>2, <2>3, FS_Subset
    <2> PICK m \in Nat : m = Cardinality(heard)
      BY <2>2, <2>4, SortedIs
    <2> PICK s : s = Sorted(heard)
      OBVIOUS
    <2>5. s \in [1 .. m -> heard]
      BY <2>2, <2>4, SortedIs
    <2>6. PICK rs : rs = [i \in DOMAIN s |-> ChatMessage(z[s[i]].v.content)]
      OBVIOUS
    <2>7. ASSUME NEW i \in 1 .. m PROVE GivesHeard(rs[i])
      <3>1. s[i] \in heard
        BY <2>5
      <3>2. z[s[i]] \in M /\ z[s[i]].is = "given"
        BY <2>2, <3>1
      <3>3. z[s[i]].v \in MessageOfDocument
        BY <3>2, HoldingIs
      <3>4. z[s[i]].v.content \in Holding(ContentOfDocument)
        BY <3>3 DEF MessageOfDocument
      <3>5. rs[i] = ChatMessage(z[s[i]].v.content)
        BY <2>5, <2>6
      <3> QED
        BY <3>4, <3>5, ChatMessageIs
    <2>8. DOMAIN rs = 1 .. m
      BY <2>5, <2>6
    <2>9. PICK all : all = Collect(rs)
      OBVIOUS
    <2>10. Clean(all) /\ (all.ok => all.v = [i \in 1 .. m |-> rs[i].v] /\ \A i \in 1 .. m : rs[i].ok)
      <3>1. DOMAIN rs \in SUBSET Nat /\ \A i \in DOMAIN rs : Clean(rs[i])
        BY <2>7, <2>8 DEF GivesHeard
      <3> QED
        BY <2>8, <2>9, <3>1, CollectIs
    <2> DEFINE joined == Gathered(all.v).text + 2 * Max({0, Len(all.v) - 1})
               pieces == Gathered(all.v).images
               made == IF joined = 0 /\ pieces = <<>> THEN Err("schema.invalid_value")
                       ELSE IF pieces = <<>> THEN Ok([kind |-> "text", text |-> joined])
                       ELSE Ok([kind |-> "parts", parts |-> <<TextPart(joined)>> \o pieces])
    <2>11. ChatInput(messages) = IF all.ok THEN made ELSE all
      BY <1>2, <2>6, <2>9 DEF ChatInput, Each, Then, said
    <2>12. all.ok => Gives(made, ContentOfDocument)
      <3> SUFFICES ASSUME all.ok PROVE Gives(made, ContentOfDocument)
        OBVIOUS
      <3> PICK P : P = Holding(ContentPart)
        OBVIOUS
      <3>1. DOMAIN all.v = 1 .. m /\ \A i \in 1 .. m : IsHeard(all.v[i])
        BY <2>7, <2>10 DEF GivesHeard
      <3>2. IsHeard(Gathered(all.v))
        BY <3>1, HeardTogether
      <3>3. Len(all.v) = m
        <4> PICK g : g = [i \in 1 .. m |-> rs[i].v]
          OBVIOUS
        <4> PICK S : S = {rs[i].v : i \in 1 .. m}
          OBVIOUS
        <4>1. g \in [1 .. m -> S]
          OBVIOUS
        <4>2. g \in Seq(S)
          BY ONLY m \in Nat, <4>1
        <4>3. Len(g) = m
          BY ONLY m \in Nat, <4>1, <4>2
        <4> QED
          BY <2>10, <4>3
      <3> PICK t \in Nat, x \in Nat : t = Gathered(all.v).text /\ x = Max({0, Len(all.v) - 1})
        BY <3>2, <3>3, JoinedLength DEF IsHeard
      <3> PICK j \in Nat : j = t + 2 * x
        OBVIOUS
      <3> PICK p \in Seq(P) : p = pieces
        BY <3>2 DEF IsHeard
      <3>4. made = IF j = 0 /\ p = <<>> THEN Err("schema.invalid_value")
                   ELSE IF p = <<>> THEN Ok([kind |-> "text", text |-> j])
                   ELSE Ok([kind |-> "parts", parts |-> <<TextPart(j)>> \o p])
        OBVIOUS
      <3>5. [kind |-> "text", text |-> j] \in ContentOfDocument
        BY DEF ContentOfDocument
      <3>6. TextPart(j) \in P
        <4>1. Given(j) \in Holding(Nat)
          BY DEF Given, Holding
        <4>2. [type |-> "text", body |-> Given(j)] \in ContentPart
          BY <4>1 DEF ContentPart
        <4> QED
          BY <4>2 DEF TextPart, Given, Holding
      <3>7. <<TextPart(j)>> \in Seq(P)
        BY <3>6
      <3>8. <<TextPart(j)>> \o p \in Seq(P)
        BY <3>7, ConcatProperties
      <3>9. [kind |-> "parts", parts |-> <<TextPart(j)>> \o p] \in ContentOfDocument
        BY <3>8 DEF ContentOfDocument
      <3> HIDE DEF made
      <3> QED
        BY <3>4, <3>5, <3>9, OkIs, ErrIs DEF Gives
    <2> HIDE DEF made
    <2> QED
      BY <2>10, <2>11, <2>12 DEF Gives
  <1> QED
    BY <1>1, <1>2

\* The properties a chat asks for are those its document carries.
LEMMA DecisionPropertiesIs ==
  ASSUME NEW format
  PROVE  /\ Clean(DecisionProperties(format))
         /\ DecisionProperties(format).ok =>
              /\ format.is = "given" /\ format.v.properties.is = "given"
              /\ DecisionProperties(format).v = format.v.properties.v
  <1> DEFINE one == << <<format.is # "given", "schema.unsupported_generation_field">> >>
             checks(f) == << <<f.type # "json_schema", "schema.unsupported_generation_field">>,
                             <<f.properties.is # "given", "schema.invalid_value">> >>
  <1>1. PICK r : r = Unless(one, format.v)
    OBVIOUS
  <1>2. DecisionProperties(format) = IF r.ok THEN Unless(checks(r.v), r.v.properties.v) ELSE r
    BY <1>1 DEF DecisionProperties, ChatSchema, Then
  <1>3. Clean(r) /\ (r.ok => r.v = format.v /\ format.is = "given")
    <2>1. DOMAIN one = 1 .. 1 /\ one[1][2] # "ir.invalid"
      OBVIOUS
    <2>2. ~one[1][1] => format.is = "given"
      OBVIOUS
    <2> HIDE DEF one
    <2> QED
      BY <1>1, <2>1, <2>2, OneCheck
  <1> HIDE DEF one
  <1>4. ASSUME NEW f
        PROVE  /\ Clean(Unless(checks(f), f.properties.v))
               /\ Unless(checks(f), f.properties.v).ok =>
                    f.properties.is = "given" /\ Unless(checks(f), f.properties.v).v = f.properties.v
    <2> PICK cs : cs = checks(f)
      OBVIOUS
    <2>1. DOMAIN cs = 1 .. 2 /\ \A i \in 1 .. 2 : cs[i][2] # "ir.invalid"
      OBVIOUS
    <2>2. cs[2][1] = (f.properties.is # "given")
      OBVIOUS
    <2> HIDE DEF checks
    <2> PICK v : v = f.properties.v
      OBVIOUS
    <2>3. DOMAIN cs \in SUBSET Nat /\ 2 \in 1 .. 2
      BY <2>1
    <2>4. /\ Clean(Unless(cs, v))
          /\ Unless(cs, v).ok => Unless(cs, v).v = v /\ \A i \in DOMAIN cs : ~cs[i][1]
      BY <2>1, <2>3, UnlessIs
    <2>5. Unless(cs, v).ok => ~cs[2][1]
      BY <2>1, <2>3, <2>4
    <2> QED
      BY <2>2, <2>4, <2>5
  <1> HIDE DEF checks
  <1> QED
    BY <1>2, <1>3, <1>4

LEMMA ChatRequestIs ==
  ASSUME NEW doc, IsChat(doc)
  PROVE  GivesRequest(ChatRequest(doc), Limits)
  <1> DEFINE made(input, properties) ==
               [input |-> Given(input), facts |-> Absent,
                schema |-> Given([has |-> {}, properties |-> Given(properties),
                                  required |-> SchemaRequired(doc.format, properties)])]
  <1>1. PICK i : i = ChatInput(doc.messages)
    OBVIOUS
  <1>2. PICK p : p = DecisionProperties(doc.format)
    OBVIOUS
  <1>3. ChatRequest(doc) = IF ~i.ok THEN i ELSE IF ~p.ok THEN p ELSE OpenAiDecodeRequest(made(i.v, p.v), Limits)
    <2>1. Clean(i) /\ Clean(p)
      BY <1>1, <1>2, ChatInputIs, DecisionPropertiesIs DEF IsChat, Gives
    <2> QED
      BY <1>1, <1>2, <2>1 DEF ChatRequest, Then, Clean
  <1>4. Gives(i, ContentOfDocument)
    BY <1>1, ChatInputIs DEF IsChat
  <1>5. Clean(p) /\ (p.ok => IsProperties(p.v))
    BY <1>2, DecisionPropertiesIs DEF IsChat
  <1>6. ASSUME NEW input \in ContentOfDocument, NEW properties, IsProperties(properties)
        PROVE  IsOpenAiDocument(made(input, properties))
    <2>1. Given(input) \in Holding(ContentOfDocument)
      BY DEF Given, Holding
    <2>2. PICK schema : schema = [has |-> {}, properties |-> Given(properties),
                                  required |-> SchemaRequired(doc.format, properties)]
      OBVIOUS
    <2>3. IsSchema(schema)
      BY <1>6, <2>2 DEF IsSchema, Given
    <2>4. made(input, properties).input = Given(input) /\ made(input, properties).schema.v = schema
      BY <2>2 DEF Given
    <2> QED
      BY <2>1, <2>3, <2>4 DEF IsOpenAiDocument
  <1> HIDE DEF made
  <1>7. Limits \in [LimitNames -> Nat]
    BY AssemblyAssumption
  <1>8. ASSUME i.ok, p.ok PROVE GivesRequest(OpenAiDecodeRequest(made(i.v, p.v), Limits), Limits)
    BY <1>4, <1>5, <1>6, <1>7, <1>8, OpenAiIs DEF Gives
  <1> QED
    BY <1>3, <1>4, <1>5, <1>8 DEF GivesRequest, Gives

-----------------------------------------------------------------------------
(* The registry.                                                           *)

\* A stored definition as the registry keeps it.
IsDefinition(d) ==
    /\ d.id \in Nat /\ d.text \in Nat /\ d.kind \in {"choice", "boolean", "score"}
    /\ d.levels \in Seq(Nat) /\ d.static \in Seq(Nat) /\ IsPolicy(d.policy)
GivesDefinition(r) == Clean(r) /\ (r.ok => IsDefinition(r.v))

LEMMA EmbeddedIs ==
  ASSUME NEW raw \in WrittenDefinition
  PROVE  Embedded(raw) \in Seq(Nat)
  <1> DEFINE S == [dynamic : BOOLEAN, static : SUBSET Seq(Nat)]
             none == [dynamic |-> FALSE, static |-> {}]
  <1>1. raw.candidates \subseteq S
    BY DEF WrittenDefinition
  <1>2. none \in S
    OBVIOUS
  <1>3. Source(raw) \in S
    <2> HIDE DEF S, none
    <2>1. CASE raw.candidates = {}
      <3>1. Source(raw) = none
        BY <2>1 DEF Source, Or, none
      <3> QED
        BY <1>2, <3>1
    <2>2. CASE raw.candidates # {}
      <3>1. Source(raw) = CHOOSE x \in raw.candidates : TRUE
        BY <2>2 DEF Source, Or
      <3> QED
        BY <1>1, <2>2, <3>1
    <2> QED
      BY <2>1, <2>2
  <1>4. Source(raw).static \subseteq Seq(Nat)
    BY <1>3
  <1>5. CASE Source(raw).static = {}
    <2>1. Embedded(raw) = <<>>
      BY <1>5 DEF Embedded, Or
    <2> QED
      BY <2>1, EmptySeq
  <1>6. CASE Source(raw).static # {}
    <2>1. Embedded(raw) = CHOOSE x \in Source(raw).static : TRUE
      BY <1>6 DEF Embedded, Or
    <2> QED
      BY <1>4, <1>6, <2>1
  <1> QED
    BY <1>5, <1>6

LEMMA DecodeDefinitionIs ==
  ASSUME NEW raw \in WrittenDefinition
  PROVE  GivesDefinition(DecodeDefinition(raw))
  <1> DEFINE policy == IF raw.policy = {} THEN DefaultPolicy ELSE NewPolicy(Or(raw.policy, {})).v
             checks == << <<~Readable(raw), "schema.invalid_value">>,
                          <<raw.id = Empty, "schema.invalid_value">>,
                          <<raw.version = 0, "schema.invalid_value">>,
                          <<raw.text = Empty, "schema.invalid_value">>,
                          <<~SourceFits(raw), "schema.invalid_value">>,
                          <<raw.kind = "score" /\ Len(raw.levels) < 2, "schema.invalid_value">> >>
             made(levels) == [id |-> raw.id, version |-> raw.version, kind |-> raw.kind, text |-> raw.text,
                              levels |-> levels, dynamic |-> Source(raw).dynamic, static |-> Embedded(raw),
                              policy |-> policy]
  <1>1. PICK u : u = Unless(checks, raw)
    OBVIOUS
  <1>2. PICK l : l = IF raw.kind = "score" THEN FromCore(Each(raw.levels, NewLevel)) ELSE Ok(<<>>)
    OBVIOUS
  <1>3. DecodeDefinition(raw) = IF ~u.ok THEN u ELSE IF l.ok THEN Ok(made(l.v)) ELSE l
    <2>1. DecodeDefinition(raw) = Then(u, LAMBDA sound : Then(l, LAMBDA levels : Ok(made(levels))))
      BY <1>1, <1>2 DEF DecodeDefinition
    <2> QED
      BY <2>1 DEF Then
  <1>4. Clean(u) /\ (u.ok => Readable(raw))
    <2>1. DOMAIN checks = 1 .. 6 /\ \A i \in 1 .. 6 : checks[i][2] # "ir.invalid"
      OBVIOUS
    <2>2. checks[1][1] = ~Readable(raw)
      OBVIOUS
    <2> HIDE DEF checks
    <2>3. DOMAIN checks \in SUBSET Nat /\ 1 \in 1 .. 6
      BY <2>1
    <2>4. Clean(u) /\ (u.ok => \A i \in DOMAIN checks : ~checks[i][1])
      BY <1>1, <2>1, <2>3, UnlessIs
    <2>5. u.ok => ~checks[1][1]
      BY <2>1, <2>3, <2>4
    <2> HIDE DEF Readable
    <2> QED
      BY <2>2, <2>4, <2>5
  <1>5. Gives(l, Seq(Nat))
    <2>1. raw.levels \in Seq(Nat)
      BY DEF WrittenDefinition
    <2>2. Gives(FromCore(Each(raw.levels, NewLevel)), Seq(Nat))
      BY <2>1, CandidatesAndLevels, CoreGives
    <2>3. Gives(Ok(<<>>), Seq(Nat))
      BY EmptySeq, OkIs DEF Gives
    <2> QED
      BY <1>2, <2>2, <2>3
  <1>6. u.ok => IsPolicy(policy)
    <2> SUFFICES ASSUME u.ok PROVE IsPolicy(policy)
      OBVIOUS
    <2>1. CASE raw.policy = {}
      BY <2>1, DefaultPolicyIs
    <2>2. CASE raw.policy # {}
      <3>1. PICK q : q = Or(raw.policy, {}) /\ q \in raw.policy
        BY <2>2 DEF Or
      <3>2. NewPolicy(q).ok
        BY <1>4, <3>1 DEF Readable
      <3>3. IsPolicy(NewPolicy(q).v)
        BY <3>2, NewPolicyIs DEF GivesPolicy
      <3> QED
        BY <2>2, <3>1, <3>3
    <2> QED
      BY <2>1, <2>2
  <1> HIDE DEF policy
  <1>7. ASSUME NEW levels \in Seq(Nat), u.ok PROVE IsDefinition(made(levels))
    <2>1. raw.id \in Nat /\ raw.text \in Nat /\ raw.kind \in {"choice", "boolean", "score"}
      BY DEF WrittenDefinition
    <2> QED
      BY <1>6, <1>7, <2>1, EmbeddedIs DEF IsDefinition
  <1> HIDE DEF made
  <1> QED
    BY <1>3, <1>4, <1>5, <1>7, OkIs DEF GivesDefinition, Gives

LEMMA InstantiateIs ==
  ASSUME NEW def, IsDefinition(def), NEW text \in Nat, NEW candidates \in Seq(Nat),
         NEW limits \in [LimitNames -> Nat]
  PROVE  GivesRequest(Instantiate(def, text, candidates, limits), limits)
  <1> DEFINE mistaken == def.kind = "choice" /\ (def.dynamic = (candidates = <<>>))
             given == IF def.dynamic THEN candidates ELSE def.static
  <1>1. PICK question : question = CASE def.kind = "choice" -> NewChoice(def.id, def.text, given)
                                     [] def.kind = "boolean" -> NewBoolean(def.id, def.text)
                                     [] def.kind = "score" -> NewScore(def.id, def.text, def.levels)
    OBVIOUS
  <1>2. given \in Seq(Nat)
    BY DEF IsDefinition
  <1>3. PICK r : r = IF question.ok THEN NewRequest(FromText(text), <<question.v>>, def.policy, limits) ELSE question
    OBVIOUS
  <1>4. Instantiate(def, text, candidates, limits) = IF mistaken THEN Err("schema.invalid_value") ELSE FromCore(r)
    BY <1>1, <1>3 DEF Instantiate, Then
  <1> HIDE DEF mistaken, given
  <1>5. Gives(question, Questions)
    <2>1. CASE def.kind = "choice"
      BY <1>1, <1>2, <2>1, NewChoiceIs DEF IsDefinition
    <2>2. CASE def.kind = "boolean"
      BY <1>1, <2>2, NewBooleanIs DEF IsDefinition
    <2>3. CASE def.kind = "score"
      BY <1>1, <2>3, NewScoreIs DEF IsDefinition
    <2> QED
      BY <2>1, <2>2, <2>3 DEF IsDefinition
  <1>6. question.ok => GivesRequest(NewRequest(FromText(text), <<question.v>>, def.policy, limits), limits)
    <2> SUFFICES ASSUME question.ok PROVE GivesRequest(NewRequest(FromText(text), <<question.v>>, def.policy, limits), limits)
      OBVIOUS
    <2> PICK Q : Q = Questions
      OBVIOUS
    <2>1. question.v \in Q
      BY <1>5 DEF Gives
    <2>2. <<question.v>> \in Seq(Q)
      BY <2>1
    <2> QED
      BY <2>2, FromTextIs, NewRequestIs DEF IsDefinition
  <1>7. GivesRequest(r, limits)
    BY <1>3, <1>5, <1>6 DEF GivesRequest, Gives
  <1>8. GivesRequest(FromCore(r), limits)
    BY <1>7, FromCoreIs DEF GivesRequest, Clean
  <1> QED
    BY <1>4, <1>8, ErrIs DEF GivesRequest

LEMMA FromRegistryIs ==
  ASSUME NEW job, IsStored(job.body.v)
  PROVE  GivesRequest(FromRegistry(job), Limits)
  <1> PICK b : b = job.body.v
    OBVIOUS
  <1> PICK z \in Seq(WrittenDefinition) : z = b.documents
    BY DEF IsStored
  <1>1. b.text \in Nat /\ b.candidates \in Seq(Nat)
    BY DEF IsStored
  <1> PICK W : W = WrittenDefinition
    OBVIOUS
  <1> PICK n \in Nat : n = Len(z) /\ DOMAIN z = 1 .. n /\ \A i \in 1 .. n : z[i] \in W
    OBVIOUS
  <1>2. PICK rs : rs = [i \in DOMAIN z |-> DecodeDefinition(z[i])]
    OBVIOUS
  <1>3. DOMAIN rs = 1 .. n /\ \A i \in 1 .. n : GivesDefinition(rs[i])
    BY <1>2, DecodeDefinitionIs
  <1>4. PICK all : all = Collect(rs)
    OBVIOUS
  <1>5. Clean(all) /\ (all.ok => all.v = [i \in 1 .. n |-> rs[i].v] /\ \A i \in 1 .. n : rs[i].ok)
    BY <1>3, <1>4, CollectIs DEF GivesDefinition
  <1>6. PICK reg : reg = NewRegistry(all.v)
    OBVIOUS
  <1> DEFINE missing == b.id \notin DOMAIN reg.v
             found == Instantiate(reg.v[b.id], b.text, b.candidates, Limits)
  <1>7. FromRegistry(job) = IF ~all.ok THEN all ELSE IF ~reg.ok THEN reg
                            ELSE IF missing THEN Err("absent") ELSE found
    <2>1. FromRegistry(job) = Then(all, LAMBDA definitions : Then(NewRegistry(definitions), LAMBDA registry :
             IF b.id \notin DOMAIN registry THEN Err("absent")
             ELSE Instantiate(registry[b.id], b.text, b.candidates, Limits)))
      BY <1>2, <1>4 DEF FromRegistry, Each
    <2> QED
      BY <1>6, <2>1 DEF Then
  <1>8. Clean(reg) /\ (reg.ok => reg.v = [id \in Ids(all.v) |-> Of(all.v, id)])
    <2> DEFINE checks == << <<Repeats([i \in DOMAIN all.v |-> all.v[i].id]), "schema.invalid_value">> >>
    <2>1. DOMAIN checks = 1 .. 1 /\ checks[1][2] # "ir.invalid"
      OBVIOUS
    <2>2. reg = Unless(checks, [id \in Ids(all.v) |-> Of(all.v, id)])
      BY <1>6 DEF NewRegistry
    <2> HIDE DEF checks
    <2> QED
      BY <2>1, <2>2, OneCheck
  <1>9. ASSUME all.ok, reg.ok, ~missing PROVE GivesRequest(found, Limits)
    <2> PICK D : D = {rs[i].v : i \in 1 .. n}
      OBVIOUS
    <2>1. \A d \in D : IsDefinition(d)
      BY <1>3, <1>5, <1>9 DEF GivesDefinition
    <2> PICK s : s = all.v
      OBVIOUS
    <2>2. s \in [1 .. n -> D]
      BY <1>5, <1>9
    <2>3. s \in Seq(D)
      BY ONLY n \in Nat, <2>2
    <2>4. b.id \in Ids(s) /\ reg.v[b.id] = Of(s, b.id)
      BY <1>8, <1>9
    <2>5. Of(s, b.id) \in D
      BY <2>3, <2>4, OfIs
    <2>6. IsDefinition(reg.v[b.id])
      BY <2>1, <2>4, <2>5
    <2>7. Limits \in [LimitNames -> Nat]
      BY AssemblyAssumption
    <2> QED
      BY <1>1, <2>6, <2>7, InstantiateIs
  <1> HIDE DEF missing, found
  <1> QED
    BY <1>5, <1>7, <1>8, <1>9, ErrIs DEF GivesRequest

-----------------------------------------------------------------------------
(* Engines: none is refused with an error of the IR's.                     *)

LEMMA NewEngineIs ==
  ASSUME NEW config, NEW classifier, NEW rungs
  PROVE  Clean(NewEngine(config, classifier, rungs))
  <1> DEFINE checks == << <<config.parallelism = 0, "engine.invalid_config">>,
              <<config.prune = {0}, "engine.invalid_config">>,
              <<config.graph.nodes > Limits.graph_nodes, "graph.limit_exceeded">>,
              <<config.cache.entries = 0 \/ config.cache.ttl = 0, "cache.miss_configured">>,
              <<config.graph.kinds \cap Semantic # {} /\ config.embedding = {}, "engine.missing_backend">>,
              <<config.safe_mode /\ "retrieve" \in config.graph.kinds, "engine.invalid_config">>,
              <<~LadderValid(config.ladder), "engine.invalid_config">> >>
             v == [config |-> WithIdentity(config, [config.identity EXCEPT
                         !.model_id = ModelId(config, classifier, rungs),
                         !.embedding_model = Or(config.embedding, "none")]),
                   rungs |-> rungs]
  <1>1. DOMAIN checks = 1 .. 7 /\ \A i \in 1 .. 7 : checks[i][2] # "ir.invalid"
    OBVIOUS
  <1>2. NewEngine(config, classifier, rungs) = Unless(checks, v)
    BY DEF NewEngine
  <1> HIDE DEF checks, v
  <1> QED
    BY <1>1, <1>2, UnlessIs

LEMMA EnginesIs ==
  /\ \A config, classifier : Clean(HandleNew(config, classifier))
  /\ \A config, classifier, ladder, rungs : Clean(WithRungs(config, classifier, ladder, rungs))
  /\ \A config : Clean(Lexical(config))
  /\ \A graph : Clean(Ephemeral(graph))
  <1>1. \A config, classifier : Clean(HandleNew(config, classifier))
    BY NewEngineIs DEF HandleNew, HandleWithEmbedding
  <1>2. \A config, classifier, ladder, rungs : Clean(WithRungs(config, classifier, ladder, rungs))
    BY NewEngineIs DEF WithRungs
  <1>3. \A config : Clean(Lexical(config))
    BY <1>1 DEF Lexical
  <1>4. \A graph : Clean(Ephemeral(graph))
    BY <1>1 DEF Ephemeral
  <1> QED
    BY <1>1, <1>2, <1>3, <1>4

\* Files of graphs and ladders, and what the flags say of them.
LEMMA LoadsIs ==
  /\ \A graph : (graph.is = "given" => IsGraph(graph.v)) => Clean(LoadGraph(graph))
  /\ \A ladder : Clean(LoadLadder(ladder))
  <1>1. ASSUME NEW graph, graph.is = "given" => IsGraph(graph.v) PROVE Clean(LoadGraph(graph))
    <2>1. CASE graph.is # "given"
      BY <2>1, ErrIs DEF LoadGraph
    <2>2. CASE graph.is = "given"
      <3> DEFINE checks == << <<graph.v.verdict # "valid", graph.v.verdict>> >>
      <3>1. DOMAIN checks = 1 .. 1 /\ checks[1][2] # "ir.invalid"
        BY <1>1, <2>2 DEF IsGraph
      <3>2. LoadGraph(graph) = Unless(checks, graph.v)
        BY <2>2 DEF LoadGraph
      <3> HIDE DEF checks
      <3> QED
        BY <3>1, <3>2, OneCheck
    <2> QED
      BY <2>1, <2>2
  <1>2. ASSUME NEW ladder PROVE Clean(LoadLadder(ladder))
    <2>1. CASE ladder.is # "given"
      BY <2>1, ErrIs DEF LoadLadder
    <2>2. CASE ladder.is = "given"
      <3> DEFINE checks == << <<ladder.v.overrides = 0 \/ ~LadderValid(ladder.v), "cli.invalid_ladder">> >>
      <3>1. DOMAIN checks = 1 .. 1 /\ checks[1][2] # "ir.invalid"
        OBVIOUS
      <3>2. LoadLadder(ladder) = Unless(checks, ladder.v)
        BY <2>2 DEF LoadLadder
      <3> HIDE DEF checks
      <3> QED
        BY <3>1, <3>2, OneCheck
    <2> QED
      BY <2>1, <2>2
  <1> QED
    BY <1>1, <1>2

LEMMA EngineConfigOfIs ==
  ASSUME NEW flags, FlagsFit(flags)
  PROVE  Clean(EngineConfigOf(flags))
  <1>1. PICK g : g = IF flags.graph = {} THEN Ok(Pipeline) ELSE LoadGraph(Or(flags.graph, Wrong))
    OBVIOUS
  <1>2. PICK l : l = IF flags.ladder = {} THEN Ok(NoLadder) ELSE LoadLadder(Or(flags.ladder, Wrong))
    OBVIOUS
  <1>3. EngineConfigOf(flags) =
          IF ~g.ok THEN g ELSE IF ~l.ok THEN l
          ELSE Ok(WithLadder(WithFocus(EngineConfig(g.v), flags.focus), l.v))
    <2>1. EngineConfigOf(flags) = Then(g, LAMBDA g_ : Then(l, LAMBDA l_ :
                                    Ok(WithLadder(WithFocus(EngineConfig(g_), flags.focus), l_))))
      BY <1>1, <1>2 DEF EngineConfigOf
    <2> QED
      BY <2>1 DEF Then
  <1>4. Clean(g)
    <2>1. CASE flags.graph = {}
      BY <1>1, <2>1, OkIs
    <2>2. CASE flags.graph # {}
      <3>1. PICK q : q = Or(flags.graph, Wrong) /\ q \in flags.graph
        BY <2>2 DEF Or
      <3>2. q.is = "given" => IsGraph(q.v)
        BY <3>1 DEF FlagsFit
      <3> QED
        BY <1>1, <2>2, <3>1, <3>2, LoadsIs
    <2> QED
      BY <2>1, <2>2
  <1>5. Clean(l)
    BY <1>2, OkIs, LoadsIs
  <1>6. Clean(Ok(WithLadder(WithFocus(EngineConfig(g.v), flags.focus), l.v)))
    BY OkIs
  <1> QED
    BY <1>3, <1>4, <1>5, <1>6

LEMMA RungsAre ==
  /\ \A flags : Clean(ModelRung(flags))
  /\ \A llama : Clean(ModelClassifier(llama))
  /\ \A loads : Clean(VisionRung(loads))
  <1>1. ASSUME NEW flags PROVE Clean(ModelRung(flags))
    <2> DEFINE checks == << <<\E server_ \in flags.llama : server_.id = Empty, "cli.model_rung_unavailable">> >>
    <2>1. DOMAIN checks = 1 .. 1 /\ checks[1][2] # "ir.invalid"
      OBVIOUS
    <2>2. ModelRung(flags) = Unless(checks, flags.llama)
      BY DEF ModelRung
    <2> HIDE DEF checks
    <2> QED
      BY <2>1, <2>2, OneCheck
  <1>2. ASSUME NEW llama PROVE Clean(ModelClassifier(llama))
    <2> DEFINE checks == << <<\E server_ \in llama : ~server_.http, "engine.classifier_failed">> >>
               v == SetToSeq({[model |-> server_.id, image |-> FALSE, calibration |-> 0] : server_ \in llama})
    <2>1. DOMAIN checks = 1 .. 1 /\ checks[1][2] # "ir.invalid"
      OBVIOUS
    <2>2. ModelClassifier(llama) = Unless(checks, v)
      BY DEF ModelClassifier
    <2> HIDE DEF checks, v
    <2> QED
      BY <2>1, <2>2, OneCheck
  <1>3. ASSUME NEW loads PROVE Clean(VisionRung(loads))
    <2> DEFINE checks == << <<FALSE \in loads, "cli.vision_rung_unavailable">> >>
               v == SetToSeq({[model |-> VisionModel, image |-> TRUE, calibration |-> 0] : load \in loads})
    <2>1. DOMAIN checks = 1 .. 1 /\ checks[1][2] # "ir.invalid"
      OBVIOUS
    <2>2. VisionRung(loads) = Unless(checks, v)
      BY DEF VisionRung
    <2> HIDE DEF checks, v
    <2> QED
      BY <2>1, <2>2, OneCheck
  <1> QED
    BY <1>1, <1>2, <1>3

LEMMA HandleOfIs ==
  ASSUME NEW flags, FlagsFit(flags), NEW vision
  PROVE  Clean(HandleOf(flags, vision))
  <1>1. PICK llama : llama = ModelRung(flags) /\ Clean(llama)
    BY RungsAre
  <1>2. PICK eye : eye = VisionRung(vision) /\ Clean(eye)
    BY RungsAre
  <1>3. PICK config : config = EngineConfigOf(flags) /\ Clean(config)
    BY EngineConfigOfIs
  <1>4. PICK model : model = ModelClassifier(llama.v) /\ Clean(model)
    BY RungsAre
  <1> DEFINE none == model.v \o eye.v = <<>>
  <1>5. HandleOf(flags, vision) =
          IF ~llama.ok THEN llama ELSE IF ~eye.ok THEN eye ELSE IF ~config.ok THEN config
          ELSE IF ~model.ok THEN model
          ELSE IF none THEN Lexical(config.v)
          ELSE WithRungs(config.v, SolverOverLexical, config.v.ladder, model.v \o eye.v)
    BY <1>1, <1>2, <1>3, <1>4 DEF HandleOf, Then
  <1> HIDE DEF none
  <1> QED
    BY <1>1, <1>2, <1>3, <1>4, <1>5, EnginesIs

-----------------------------------------------------------------------------
(* What a call asks.                                                       *)

\* A list of requests, each within the server's ceilings or refused.
IsAsked(v) ==
    Len(v) \in Nat /\ DOMAIN v = 1 .. Len(v) /\ \A i \in 1 .. Len(v) : GivesWithin(v[i], Limits)
GivesAsked(r) == Clean(r) /\ (r.ok => IsAsked(r.v))

LEMMA LimitsAre == Limits \in [LimitNames -> Nat]
  BY AssemblyAssumption

\* A function over 1 .. n is a list.
LEMMA ListIs ==
  ASSUME NEW n \in Nat, NEW s, s = [i \in 1 .. n |-> s[i]]
  PROVE  Len(s) = n /\ s \in Seq({s[i] : i \in 1 .. n})
  <1> PICK S : S = {s[i] : i \in 1 .. n}
    OBVIOUS
  <1>1. s \in [1 .. n -> S]
    OBVIOUS
  <1>2. s \in Seq(S)
    BY ONLY n \in Nat, <1>1
  <1>3. Len(s) = n
    BY ONLY n \in Nat, <1>1, <1>2
  <1> QED
    BY <1>2, <1>3

LEMMA OneIs ==
  ASSUME NEW r, GivesWithin(r, Limits)
  PROVE  GivesAsked(Then(r, One_))
  <1>1. Then(r, One_) = IF r.ok THEN Ok(<<Ok(r.v)>>) ELSE r
    BY DEF Then, One_
  <1>2. CASE r.ok
    <2>1. GivesWithin(Ok(r.v), Limits)
      BY <1>2, OkIs DEF GivesWithin
    <2> PICK x : x = Ok(r.v)
      OBVIOUS
    <2>2. Len(<<x>>) = 1 /\ DOMAIN <<x>> = 1 .. 1 /\ <<x>>[1] = x
      OBVIOUS
    <2>3. \A i \in 1 .. 1 : <<x>>[i] = x
      BY <2>2
    <2>4. IsAsked(<<x>>)
      BY <2>1, <2>2, <2>3 DEF IsAsked
    <2> QED
      BY <1>1, <1>2, <2>4, OkIs DEF GivesAsked
  <1> QED
    BY <1>1, <1>2 DEF GivesAsked, GivesWithin

LEMMA NothingIs == GivesAsked(Nothing)
  <1>1. IsAsked(<<>>)
    BY EmptySeq DEF IsAsked
  <1> QED
    BY <1>1, OkIs DEF GivesAsked, Nothing

\* The documents of a batch.
AreDocuments(format, docs) ==
    DOMAIN docs = 1 .. Len(docs) /\ Len(docs) \in Nat /\ \A i \in DOMAIN docs : IsDocument(format, docs[i])

LEMMA ItemsIs ==
  ASSUME NEW format \in Formats, NEW docs, AreDocuments(format, docs)
  PROVE  GivesAsked(Items(format, docs))
  <1> PICK n \in Nat : n = Len(docs)
    BY DEF AreDocuments
  <1>1. PICK s : s = [i \in DOMAIN docs |-> DecodeRequest(format, docs[i], Limits)]
    OBVIOUS
  <1>2. DOMAIN s = 1 .. n
    BY <1>1 DEF AreDocuments
  <1>3. s = [i \in 1 .. n |-> s[i]]
    BY <1>1, <1>2
  <1>4. Len(s) = n
    BY ONLY n \in Nat, <1>3, ListIs
  <1>5. \A i \in 1 .. n : GivesWithin(s[i], Limits)
    BY <1>1, <1>2, DecodeIs, LimitsAre DEF AreDocuments
  <1>6. IsAsked(s)
    BY <1>2, <1>4, <1>5 DEF IsAsked
  <1> QED
    BY <1>1, <1>6, OkIs DEF GivesAsked, Items

LEMMA ParseJsonIs ==
  ASSUME NEW body
  PROVE  Clean(ParseJson(body)) /\ (ParseJson(body).ok => body.is = "given" /\ ParseJson(body).v = body.v)
  <1> DEFINE checks == << <<body.is # "given", "schema.invalid_json">> >>
  <1>1. DOMAIN checks = 1 .. 1 /\ checks[1][2] # "ir.invalid"
    OBVIOUS
  <1>2. ~checks[1][1] => body.is = "given"
    OBVIOUS
  <1>3. ParseJson(body) = Unless(checks, body.v)
    BY DEF ParseJson
  <1> HIDE DEF checks
  <1> QED
    BY <1>1, <1>2, <1>3, OneCheck

LEMMA GraphsAre ==
  ASSUME NEW g, IsGraph(g)
  PROVE  Clean(GraphDocument(g)) /\ Clean(ValidateGraphImpl(g))
  <1>1. Clean(GraphDocument(g))
    <2> DEFINE checks == << <<~g.typed, "schema.invalid_value">>,
                            <<g.nodes > Limits.graph_nodes, "schema.limit_exceeded">>,
                            <<g.verdict # "valid", g.verdict>> >>
    <2>1. DOMAIN checks = 1 .. 3 /\ \A i \in 1 .. 3 : checks[i][2] # "ir.invalid"
      BY DEF IsGraph
    <2>2. GraphDocument(g) = Unless(checks, g)
      BY DEF GraphDocument
    <2> HIDE DEF checks
    <2> QED
      BY <2>1, <2>2, UnlessIs
  <1>2. Clean(ValidateGraphImpl(g))
    <2> DEFINE checks == << <<~g.typed, WireCode("MalformedJson", "")>>, <<g.verdict # "valid", g.verdict>> >>
    <2>1. DOMAIN checks = 1 .. 2 /\ \A i \in 1 .. 2 : checks[i][2] # "ir.invalid"
      BY DEF IsGraph, WireCode
    <2>2. ValidateGraphImpl(g) = Unless(checks, g)
      BY DEF ValidateGraphImpl
    <2> HIDE DEF checks
    <2> QED
      BY <2>1, <2>2, UnlessIs
  <1> QED
    BY <1>1, <1>2

-----------------------------------------------------------------------------
(* The surfaces, one by one.                                               *)

LEMMA HttpDecideIs ==
  ASSUME NEW job, job.body.is = "given" /\ job.format \in Formats => IsDocument(job.format, job.body.v)
  PROVE  GivesAsked(HttpDecide(job))
  <1> DEFINE checks == << <<job.format \notin Formats, "schema.invalid_value">> >>
  <1>1. PICK f : f = Unless(checks, job.format)
    OBVIOUS
  <1>2. Clean(f) /\ (f.ok => f.v = job.format /\ job.format \in Formats)
    <2>1. DOMAIN checks = 1 .. 1 /\ checks[1][2] # "ir.invalid"
      OBVIOUS
    <2>2. ~checks[1][1] => job.format \in Formats
      OBVIOUS
    <2> HIDE DEF checks
    <2> QED
      BY <1>1, <2>1, <2>2, OneCheck
  <1>3. PICK b : b = ParseJson(job.body) /\ Clean(b) /\ (b.ok => job.body.is = "given" /\ b.v = job.body.v)
    BY ParseJsonIs
  <1> DEFINE r == DecodeRequest(f.v, b.v, Limits)
  <1>4. HttpDecide(job) = IF ~f.ok THEN f ELSE IF ~b.ok THEN b ELSE Then(r, One_)
    BY <1>1, <1>3 DEF HttpDecide, SelectedFormat, Then
  <1>5. ASSUME f.ok, b.ok PROVE GivesAsked(Then(r, One_))
    <2>1. GivesWithin(r, Limits)
      BY <1>2, <1>3, <1>5, DecodeIs, LimitsAre
    <2> HIDE DEF r
    <2> QED
      BY <2>1, OneIs
  <1> HIDE DEF r
  <1> QED
    BY <1>2, <1>3, <1>4, <1>5 DEF GivesAsked

LEMMA HttpBatchIs ==
  ASSUME NEW job,
         job.body.is = "given" /\ job.body.v.is = "given" /\ job.format \in Formats
           => AreDocuments(job.format, job.body.v.v)
  PROVE  GivesAsked(HttpBatch(job))
  <1> DEFINE checks == << <<job.format \notin Formats, "schema.invalid_value">> >>
  <1>1. PICK f : f = Unless(checks, job.format)
    OBVIOUS
  <1>2. Clean(f) /\ (f.ok => f.v = job.format /\ job.format \in Formats)
    <2>1. DOMAIN checks = 1 .. 1 /\ checks[1][2] # "ir.invalid"
      OBVIOUS
    <2>2. ~checks[1][1] => job.format \in Formats
      OBVIOUS
    <2> HIDE DEF checks
    <2> QED
      BY <1>1, <2>1, <2>2, OneCheck
  <1>3. PICK b : b = ParseJson(job.body) /\ Clean(b) /\ (b.ok => job.body.is = "given" /\ b.v = job.body.v)
    BY ParseJsonIs
  <1>4. PICK d : d = AsTyped(b.v) /\ Clean(d) /\ (d.ok => b.v.is = "given" /\ d.v = b.v.v)
    BY FieldIs
  <1>5. PICK e : e = InvalidValue(d) /\ Clean(e) /\ (e.ok => d.ok /\ e = d)
    BY <1>4, FromCoreIs DEF Clean
  <1> DEFINE large == Len(e.v) > MaxBatch
  <1>6. HttpBatch(job) = IF ~f.ok THEN f ELSE IF ~b.ok THEN b ELSE IF ~e.ok THEN e
                         ELSE IF large THEN Err("schema.limit_exceeded") ELSE Items(f.v, e.v)
    BY <1>1, <1>3, <1>4, <1>5 DEF HttpBatch, SelectedFormat, Then
  <1> HIDE DEF large
  <1>7. ASSUME f.ok, b.ok, e.ok PROVE GivesAsked(Items(f.v, e.v))
    BY <1>2, <1>3, <1>4, <1>5, <1>7, ItemsIs
  <1> QED
    BY <1>2, <1>3, <1>5, <1>6, <1>7, ErrIs DEF GivesAsked

LEMMA HttpGraphsAre ==
  ASSUME NEW job, IsGraph(job.graph)
  PROVE  /\ GivesAsked(HttpGraphValidate(job))
         /\ (job.body.is = "given" => IsNativeDocument(job.body.v)) => GivesAsked(HttpGraphRun(job))
  <1>1. PICK b : b = ParseJson(job.body) /\ Clean(b) /\ (b.ok => job.body.is = "given" /\ b.v = job.body.v)
    BY ParseJsonIs
  <1>2. PICK g : g = GraphDocument(job.graph) /\ Clean(g)
    BY GraphsAre
  <1>3. GivesAsked(HttpGraphValidate(job))
    <2>1. HttpGraphValidate(job) = IF ~b.ok THEN b ELSE IF ~g.ok THEN g ELSE Nothing
      BY <1>1, <1>2 DEF HttpGraphValidate, Then
    <2> QED
      BY <1>1, <1>2, <2>1, NothingIs DEF GivesAsked
  <1>4. ASSUME job.body.is = "given" => IsNativeDocument(job.body.v) PROVE GivesAsked(HttpGraphRun(job))
    <2> DEFINE r == NativeDecodeRequest(b.v, Limits)
    <2>1. HttpGraphRun(job) = IF ~b.ok THEN b ELSE IF ~g.ok THEN g ELSE Then(r, One_)
      BY <1>1, <1>2 DEF HttpGraphRun, Then
    <2>2. ASSUME b.ok PROVE GivesAsked(Then(r, One_))
      <3>1. GivesWithin(r, Limits)
        BY <1>1, <1>4, <2>2, NativeIs, LimitsAre
      <3> HIDE DEF r
      <3> QED
        BY <3>1, OneIs
    <2> HIDE DEF r
    <2> QED
      BY <1>1, <1>2, <2>1, <2>2 DEF GivesAsked
  <1> QED
    BY <1>3, <1>4

LEMMA FeedbackIs ==
  ASSUME NEW body
  PROVE  Clean(FeedbackRow(body))
  <1>1. PICK d : d = AsTyped(body) /\ Clean(d)
    BY FieldIs
  <1>2. PICK e : e = InvalidValue(d) /\ Clean(e)
    BY <1>1, FromCoreIs DEF Clean
  <1> DEFINE checks == << <<~IsUnit(e.v.p), "schema.invalid_value">>,
                          <<e.v.source \notin {"human", "host_model", "outcome"}, "schema.invalid_value">> >>
  <1>3. FeedbackRow(body) = IF e.ok THEN Unless(checks, e.v) ELSE e
    BY <1>1, <1>2 DEF FeedbackRow, Then
  <1>4. DOMAIN checks = 1 .. 2 /\ \A i \in 1 .. 2 : checks[i][2] # "ir.invalid"
    OBVIOUS
  <1> HIDE DEF checks
  <1> QED
    BY <1>2, <1>3, <1>4, UnlessIs

LEMMA HttpIs ==
  ASSUME NEW job, IsJob(job), job.surface = "http"
  PROVE  GivesAsked(HttpCall(job))
  <1>1. job.op \in Operations.http /\ job.valid \in BOOLEAN /\ IsGraph(job.graph) /\ BodyFits(job)
    BY DEF IsJob
  <1>2. FormatRead(job) = IF job.op # "graph_run" THEN job.format ELSE "native"
    BY DEF FormatRead
  <1>3. CASE ~job.valid
    <2>1. HttpCall(job) = Err("http.body_too_large")
      BY <1>3 DEF HttpCall
    <2> QED
      BY <2>1, ErrIs DEF GivesAsked
  <1>4. CASE job.valid /\ job.op \in {"decide", "validate"}
    <2>1. HttpCall(job) = HttpDecide(job)
      BY <1>4 DEF HttpCall
    <2>2. job.body.is = "given" /\ job.format \in Formats => IsDocument(job.format, job.body.v)
      BY <1>1, <1>2, <1>4 DEF BodyFits
    <2> QED
      BY <2>1, <2>2, HttpDecideIs
  <1>5. CASE job.valid /\ job.op = "batch"
    <2>1. HttpCall(job) = HttpBatch(job)
      BY <1>5 DEF HttpCall
    <2>2. job.body.is = "given" /\ job.body.v.is = "given" /\ job.format \in Formats
            => AreDocuments(job.format, job.body.v.v)
      BY <1>1, <1>2, <1>5 DEF BodyFits, AreDocuments
    <2> QED
      BY <2>1, <2>2, HttpBatchIs
  <1>6. CASE job.valid /\ job.op = "chat"
    <2>1. HttpCall(job) = Then(ParseJson(job.body), LAMBDA doc : Then(ChatRequest(doc), One_))
      BY <1>6 DEF HttpCall
    <2>2. PICK b : b = ParseJson(job.body) /\ Clean(b) /\ (b.ok => job.body.is = "given" /\ b.v = job.body.v)
      BY ParseJsonIs
    <2>3. HttpCall(job) = IF b.ok THEN Then(ChatRequest(b.v), One_) ELSE b
      BY <2>1, <2>2 DEF Then
    <2>4. ASSUME b.ok PROVE GivesAsked(Then(ChatRequest(b.v), One_))
      <3>1. IsChat(b.v)
        BY <1>1, <1>6, <2>2, <2>4 DEF BodyFits
      <3>2. PICK r : r = ChatRequest(b.v)
        OBVIOUS
      <3>3. GivesWithin(r, Limits)
        BY <3>1, <3>2, ChatRequestIs, LimitsAre, WithinIs
      <3> QED
        BY <3>2, <3>3, OneIs
    <2> QED
      BY <2>2, <2>3, <2>4 DEF GivesAsked
  <1>7. CASE job.valid /\ job.op = "graph_validate"
    <2>1. HttpCall(job) = HttpGraphValidate(job)
      BY <1>7 DEF HttpCall
    <2> QED
      BY <1>1, <2>1, HttpGraphsAre
  <1>8. CASE job.valid /\ job.op = "graph_run"
    <2>1. HttpCall(job) = HttpGraphRun(job)
      BY <1>8 DEF HttpCall
    <2>2. job.body.is = "given" => IsNativeDocument(job.body.v)
      BY <1>1, <1>2, <1>8 DEF BodyFits, Formats, IsDocument
    <2> QED
      BY <1>1, <2>1, <2>2, HttpGraphsAre
  <1>9. CASE job.valid /\ job.op = "feedback"
    <2>1. HttpCall(job) = Then(FeedbackRow(job.body), LAMBDA row : Nothing)
      BY <1>9 DEF HttpCall
    <2> QED
      BY <2>1, FeedbackIs, NothingIs DEF Then, GivesAsked
  <1>10. CASE job.valid /\ job.op \in {"models", "capabilities", "healthz"}
    <2>1. HttpCall(job) = Nothing
      BY <1>10 DEF HttpCall
    <2> QED
      BY <2>1, NothingIs
  <1> QED
    BY <1>1, <1>3, <1>4, <1>5, <1>6, <1>7, <1>8, <1>9, <1>10 DEF Operations

LEMMA McpIs ==
  ASSUME NEW job, IsJob(job), job.surface = "mcp"
  PROVE  GivesAsked(McpCall(job))
  <1>1. job.op \in Operations.mcp /\ IsGraph(job.graph) /\ BodyFits(job)
    BY DEF IsJob
  <1>2. FormatRead(job) = "native"
    BY DEF FormatRead
  <1>3. CASE job.op \in {"decide", "verify", "explain"}
    <2>1. McpCall(job) = Then(McpDecode(job.body.v), One_)
      BY <1>3 DEF McpCall
    <2>2. IsNativeDocument(job.body.v)
      BY <1>1, <1>2, <1>3 DEF BodyFits, Formats, IsDocument
    <2>3. PICK r : r = McpDecode(job.body.v)
      OBVIOUS
    <2>4. GivesWithin(r, Limits)
      BY <2>2, <2>3, NativeIs, LimitsAre DEF McpDecode
    <2> QED
      BY <2>1, <2>3, <2>4, OneIs
  <1>4. CASE job.op = "batch"
    <2>1. McpCall(job) = BatchDocument(job.body.v.v)
      BY <1>4 DEF McpCall
    <2>2. AreDocuments("native", job.body.v.v)
      BY <1>1, <1>2, <1>4 DEF BodyFits, Formats, AreDocuments
    <2>3. GivesAsked(Items("native", job.body.v.v))
      BY <2>2, ItemsIs DEF Formats
    <2> QED
      BY <2>1, <2>3, ErrIs DEF BatchDocument, GivesAsked
  <1>5. CASE job.op = "gate"
    <2>1. McpCall(job) = Then(GateRequest(job.body.v), One_)
      BY <1>5 DEF McpCall
    <2> PICK a \in [state : Nat, id : Nat, question : Nat] : a = job.body.v
      BY <1>1, <1>5 DEF BodyFits
    <2>2. PICK doc : doc = [text |-> a.state, facts |-> <<>>, images |-> {}, policy |-> {}, limits |-> {},
               questions |-> <<Question("boolean", a.id, a.question, <<>>)>>, extra |-> FALSE]
      OBVIOUS
    <2>3. GateRequest(a) = NativeDecodeRequest(doc, Limits)
      BY <2>2 DEF GateRequest, McpDecode
    <2>4. IsNativeDocument(doc)
      <3>1. Question("boolean", a.id, a.question, <<>>) \in WrittenNative
        BY EmptySeq DEF Question, WrittenNative
      <3> PICK W : W = WrittenNative
        OBVIOUS
      <3>2. doc.questions \in Seq(W)
        BY <2>2, <3>1
      <3> QED
        BY <2>2, <3>2 DEF IsNativeDocument, WrittenNative
    <2>5. PICK r : r = GateRequest(a)
      OBVIOUS
    <2>6. GivesWithin(r, Limits)
      BY <2>3, <2>4, <2>5, NativeIs, LimitsAre
    <2> QED
      BY <2>1, <2>5, <2>6, OneIs
  <1>6. CASE job.op = "graph_validate"
    <2>1. McpCall(job) = Then(GraphDocument(job.graph), LAMBDA g : Nothing)
      BY <1>6 DEF McpCall
    <2> QED
      BY <1>1, <2>1, GraphsAre, NothingIs DEF Then, GivesAsked
  <1>7. CASE job.op = "pipeline"
    <2>1. McpCall(job) = Nothing
      BY <1>7 DEF McpCall
    <2> QED
      BY <2>1, NothingIs
  <1> QED
    BY <1>1, <1>3, <1>4, <1>5, <1>6, <1>7 DEF Operations

LEMMA DecideImplIs ==
  ASSUME NEW body, body.is = "given" => IsNativeDocument(body.v)
  PROVE  GivesAsked(DecideImpl(body))
  <1>1. PICK b : b = ParseJson(body) /\ Clean(b) /\ (b.ok => body.is = "given" /\ b.v = body.v)
    BY ParseJsonIs
  <1>2. DecideImpl(body) = IF b.ok THEN Then(NativeDecodeRequest(b.v, Limits), One_) ELSE b
    BY <1>1 DEF DecideImpl, Then
  <1>3. ASSUME b.ok PROVE GivesAsked(Then(NativeDecodeRequest(b.v, Limits), One_))
    <2>1. PICK r : r = NativeDecodeRequest(b.v, Limits)
      OBVIOUS
    <2>2. GivesWithin(r, Limits)
      BY <1>1, <1>3, <2>1, NativeIs, LimitsAre
    <2> QED
      BY <2>1, <2>2, OneIs
  <1> QED
    BY <1>1, <1>2, <1>3 DEF GivesAsked

LEMMA DecideBatchIs ==
  ASSUME NEW body, body.is = "given" /\ body.v.is = "given" => AreDocuments("native", body.v.v)
  PROVE  GivesAsked(DecideBatchImpl(body))
  <1>1. PICK b : b = ParseJson(body) /\ Clean(b) /\ (b.ok => body.is = "given" /\ b.v = body.v)
    BY ParseJsonIs
  <1>2. PICK d : d = AsTyped(b.v) /\ Clean(d) /\ (d.ok => b.v.is = "given" /\ d.v = b.v.v)
    BY FieldIs
  <1>3. PICK e : e = InvalidValue(d) /\ Clean(e) /\ (e.ok => d.ok /\ e = d)
    BY <1>2, FromCoreIs DEF Clean
  <1> DEFINE large == Len(e.v) > MaxBatch
  <1>4. DecideBatchImpl(body) = IF ~b.ok THEN b ELSE IF ~e.ok THEN e
                                ELSE IF large THEN Err("schema.limit_exceeded") ELSE Items("native", e.v)
    BY <1>1, <1>2, <1>3 DEF DecideBatchImpl, BatchRequests, Then
  <1> HIDE DEF large
  <1>5. ASSUME b.ok, e.ok PROVE GivesAsked(Items("native", e.v))
    BY <1>1, <1>2, <1>3, <1>5, ItemsIs DEF Formats
  <1> QED
    BY <1>1, <1>3, <1>4, <1>5, ErrIs DEF GivesAsked

LEMMA WireIs ==
  ASSUME NEW job, IsJob(job), job.surface \in {"ffi", "wasm"}, job.op # "new"
  PROVE  GivesAsked(WireCall(job))
  <1>1. job.op \in {"decide", "batch", "graph_validate", "graph_run", "identity"}
    BY DEF IsJob, Operations
  <1>2. IsGraph(job.graph) /\ BodyFits(job) /\ FormatRead(job) = "native"
    BY DEF IsJob, FormatRead
  <1>3. CASE job.op = "decide"
    <2>1. WireCall(job) = DecideImpl(job.body)
      BY <1>3 DEF WireCall
    <2>2. job.body.is = "given" => IsNativeDocument(job.body.v)
      BY <1>2, <1>3 DEF BodyFits, Formats, IsDocument
    <2> QED
      BY <2>1, <2>2, DecideImplIs
  <1>4. CASE job.op = "batch"
    <2>1. WireCall(job) = DecideBatchImpl(job.body)
      BY <1>4 DEF WireCall
    <2>2. job.body.is = "given" /\ job.body.v.is = "given" => AreDocuments("native", job.body.v.v)
      BY <1>2, <1>4 DEF BodyFits, Formats, AreDocuments
    <2> QED
      BY <2>1, <2>2, DecideBatchIs
  <1>5. CASE job.op = "graph_validate"
    <2>1. WireCall(job) = Then(ValidateGraphImpl(job.graph), LAMBDA g : Nothing)
      BY <1>5 DEF WireCall
    <2> QED
      BY <1>2, <2>1, GraphsAre, NothingIs DEF Then, GivesAsked
  <1>6. CASE job.op = "graph_run"
    <2>1. WireCall(job) = RunGraphImpl(job.graph, job.body)
      BY <1>6 DEF WireCall
    <2>2. PICK g : g = ValidateGraphImpl(job.graph) /\ Clean(g)
      BY <1>2, GraphsAre
    <2>3. PICK e : e = Ephemeral(g.v) /\ Clean(e)
      BY EnginesIs
    <2>4. RunGraphImpl(job.graph, job.body) = IF ~g.ok THEN g ELSE IF ~e.ok THEN e ELSE DecideImpl(job.body)
      BY <2>2, <2>3 DEF RunGraphImpl, Then
    <2>5. job.body.is = "given" => IsNativeDocument(job.body.v)
      BY <1>2, <1>6 DEF BodyFits, Formats, IsDocument
    <2>6. GivesAsked(DecideImpl(job.body))
      BY <2>5, DecideImplIs
    <2> QED
      BY <2>1, <2>2, <2>3, <2>4, <2>6 DEF GivesAsked
  <1>7. CASE job.op = "identity"
    <2>1. WireCall(job) = Nothing
      BY <1>7 DEF WireCall
    <2> QED
      BY <2>1, NothingIs
  <1> QED
    BY <1>1, <1>3, <1>4, <1>5, <1>6, <1>7

LEMMA BindingsAre ==
  ASSUME NEW job, IsJob(job)
  PROVE  /\ job.surface = "ffi" => GivesAsked(FfiCall(job))
         /\ job.surface = "wasm" => GivesAsked(WasmCall(job))
  <1>1. GivesAsked(NewLexical)
    BY EnginesIs, NothingIs DEF NewLexical, Then, GivesAsked
  <1>2. ASSUME job.surface = "ffi" PROVE GivesAsked(FfiCall(job))
    <2>1. CASE job.op = "new"
      BY <1>1, <2>1 DEF FfiCall
    <2>2. CASE job.op # "new" /\ ~job.valid
      <3>1. FfiCall(job) = Err("ffi.invalid_argument")
        BY <2>2 DEF FfiCall, BoundaryCode
      <3> QED
        BY <3>1, ErrIs DEF GivesAsked
    <2>3. CASE job.op # "new" /\ job.valid
      <3>1. PICK r : r = WireCall(job) /\ GivesAsked(r)
        BY <1>2, <2>3, WireIs
      <3>2. FfiCall(job) = IF r.ok THEN r ELSE Err(r.code)
        BY <2>3, <3>1 DEF FfiCall, BoundaryCode
      <3> QED
        BY <3>1, <3>2, ErrIs DEF GivesAsked, Clean
    <2> QED
      BY <2>1, <2>2, <2>3
  <1>3. ASSUME job.surface = "wasm" PROVE GivesAsked(WasmCall(job))
    BY <1>1, <1>3, WireIs DEF WasmCall
  <1> QED
    BY <1>2, <1>3

-----------------------------------------------------------------------------
(* The command line and hosts of the library.                              *)

\* A request with another policy, or with more images, stays within.
LEMMA RebuiltIs ==
  ASSUME NEW request, IsRequest(request), \A l \in LimitNames : request.limits[l] <= Limits[l],
         NEW state, IsState(state), NEW policy, IsPolicy(policy)
  PROVE  GivesWithin(NewRequest(state, request.questions, policy, request.limits), Limits)
  <1> PICK q \in Seq(Questions), own \in [LimitNames -> Nat] : q = request.questions /\ own = request.limits
    BY DEF IsRequest
  <1>1. GivesRequest(NewRequest(state, q, policy, own), own)
    BY NewRequestIs
  <1> QED
    BY <1>1 DEF GivesRequest, GivesWithin

LEMMA OverrideIs ==
  ASSUME NEW request, IsRequest(request), \A l \in LimitNames : request.limits[l] <= Limits[l], NEW raw
  PROVE  GivesWithin(WithPolicyOverride(request, raw), Limits)
  <1>1. PICK p : p = NewPolicy(raw) /\ GivesPolicy(p)
    BY NewPolicyIs
  <1>2. IsState(request.state)
    BY DEF IsRequest
  <1>3. CASE ~p.ok
    <2>1. WithPolicyOverride(request, raw) = Err("schema.invalid_value")
      BY <1>1, <1>3 DEF WithPolicyOverride
    <2> QED
      BY <2>1, ErrIs DEF GivesWithin
  <1>4. CASE p.ok
    <2>1. WithPolicyOverride(request, raw) = NewRequest(request.state, request.questions, p.v, request.limits)
      BY <1>1, <1>4 DEF WithPolicyOverride
    <2> QED
      BY <1>1, <1>2, <1>4, <2>1, RebuiltIs DEF GivesPolicy
  <1> QED
    BY <1>1, <1>3, <1>4 DEF GivesPolicy, Clean

LEMMA ImagesAre ==
  ASSUME NEW request, IsRequest(request), \A l \in LimitNames : request.limits[l] <= Limits[l],
         NEW files \in Seq(Nat \cup {Unusable})
  PROVE  GivesWithin(WithImages(request, files), Limits)
  <1>1. CASE \E file \in Range(files) : file = Unusable
    <2>1. WithImages(request, files) = Err("cli.unsupported_image")
      BY <1>1 DEF WithImages
    <2> QED
      BY <2>1, ErrIs DEF GivesWithin
  <1>2. CASE ~\E file \in Range(files) : file = Unusable
    <2> PICK state : state = [request.state EXCEPT !.images = @ \o files]
      OBVIOUS
    <2>1. WithImages(request, files) = NewRequest(state, request.questions, request.policy, request.limits)
      BY <1>2 DEF WithImages
    <2>2. files \in Seq(Nat)
      <3> PICK n \in Nat : n = Len(files) /\ DOMAIN files = 1 .. n
        OBVIOUS
      <3>1. \A i \in 1 .. n : files[i] \in Nat
        BY <1>2 DEF Range
      <3> QED
        BY <3>1
    <2> PICK im \in Seq(Nat) : im = request.state.images
      BY DEF IsRequest, IsState
    <2>3. im \o files \in Seq(Nat)
      BY <2>2, ConcatProperties
    <2>4. IsState(state)
      BY <2>3 DEF IsRequest, IsState
    <2> QED
      BY <2>1, <2>4, RebuiltIs DEF IsRequest
  <1> QED
    BY <1>1, <1>2

LEMMA CliDecideIs ==
  ASSUME NEW job, FlagsFit(job.flags), job.format \in Formats,
         job.body.is = "given" => IsDocument(job.format, job.body.v)
  PROVE  GivesAsked(CliDecide(job))
  <1> DEFINE checks == << <<~job.valid, "cli.unreadable_input">> >>
  <1>1. PICK u : u = Unless(checks, job)
    OBVIOUS
  <1>2. Clean(u)
    <2>1. DOMAIN checks = 1 .. 1 /\ checks[1][2] # "ir.invalid"
      OBVIOUS
    <2> HIDE DEF checks
    <2> QED
      BY <1>1, <2>1, OneCheck
  <1>3. PICK b : b = ParseJson(job.body) /\ Clean(b) /\ (b.ok => job.body.is = "given" /\ b.v = job.body.v)
    BY ParseJsonIs
  <1>4. PICK r : r = DecodeRequest(job.format, b.v, Limits)
    OBVIOUS
  <1>5. PICK p : p = IF job.flags.policy = {} THEN Ok(r.v) ELSE WithPolicyOverride(r.v, Or(job.flags.policy, {}))
    OBVIOUS
  <1>6. PICK s : s = IF job.flags.image = <<>> THEN Ok(p.v) ELSE WithImages(p.v, job.flags.image)
    OBVIOUS
  <1>7. PICK h : h = HandleOf(job.flags, job.flags.vision) /\ Clean(h)
    BY HandleOfIs
  <1>8. CliDecide(job) = IF ~u.ok THEN u ELSE IF ~b.ok THEN b ELSE IF ~r.ok THEN r
                         ELSE IF ~p.ok THEN p ELSE IF ~s.ok THEN s ELSE IF ~h.ok THEN h ELSE One_(s.v)
    BY <1>1, <1>3, <1>4, <1>5, <1>6, <1>7 DEF CliDecide, Then
  <1> HIDE DEF checks
  <1>9. b.ok => GivesWithin(r, Limits)
    BY <1>3, <1>4, DecodeIs, LimitsAre
  <1>10. b.ok /\ r.ok => GivesWithin(p, Limits)
    <2> SUFFICES ASSUME b.ok, r.ok PROVE GivesWithin(p, Limits)
      OBVIOUS
    <2>1. IsRequest(r.v) /\ \A l \in LimitNames : r.v.limits[l] <= Limits[l]
      BY <1>9 DEF GivesWithin
    <2>2. GivesWithin(Ok(r.v), Limits)
      BY <2>1, OkIs DEF GivesWithin
    <2> QED
      BY <1>5, <2>1, <2>2, OverrideIs
  <1>11. b.ok /\ r.ok /\ p.ok => GivesWithin(s, Limits)
    <2> SUFFICES ASSUME b.ok, r.ok, p.ok PROVE GivesWithin(s, Limits)
      OBVIOUS
    <2>1. IsRequest(p.v) /\ \A l \in LimitNames : p.v.limits[l] <= Limits[l]
      BY <1>10 DEF GivesWithin
    <2>2. GivesWithin(Ok(p.v), Limits)
      BY <2>1, OkIs DEF GivesWithin
    <2>3. job.flags.image \in Seq(Nat \cup {Unusable})
      BY DEF FlagsFit
    <2> QED
      BY <1>6, <2>1, <2>2, <2>3, ImagesAre
  <1>12. b.ok /\ r.ok /\ p.ok /\ s.ok => GivesAsked(One_(s.v))
    <2> SUFFICES ASSUME b.ok, r.ok, p.ok, s.ok PROVE GivesAsked(One_(s.v))
      OBVIOUS
    <2>1. GivesAsked(Then(s, One_))
      BY <1>11, OneIs
    <2> QED
      BY <2>1 DEF Then
  <1> QED
    BY <1>2, <1>3, <1>7, <1>8, <1>9, <1>10, <1>11, <1>12 DEF GivesAsked, GivesWithin

LEMMA CliIs ==
  ASSUME NEW job, IsJob(job), job.surface = "cli"
  PROVE  GivesAsked(CliCall(job))
  <1>1. job.op \in {"decide", "graph_validate"} /\ job.format \in Formats
    BY DEF IsJob, Operations
  <1>2. IsGraph(job.graph) /\ BodyFits(job) /\ FlagsFit(job.flags)
    BY DEF IsJob
  <1>3. CASE job.op = "decide"
    <2>1. CliCall(job) = CliDecide(job)
      BY <1>3 DEF CliCall
    <2>2. FormatRead(job) = job.format
      BY <1>3 DEF FormatRead
    <2>3. job.body.is = "given" => IsDocument(job.format, job.body.v)
      BY <1>1, <1>2, <1>3, <2>2 DEF BodyFits
    <2> QED
      BY <1>1, <1>2, <2>1, <2>3, CliDecideIs
  <1>4. CASE job.op = "graph_validate"
    <2>1. PICK f : f = IF job.graph.typed THEN Given(job.graph) ELSE Wrong
      OBVIOUS
    <2>2. CliCall(job) = Then(LoadGraph(f), LAMBDA g : Nothing)
      BY <1>4, <2>1 DEF CliCall, CliGraphValidate
    <2>3. f.is = "given" => IsGraph(f.v)
      BY <1>2, <2>1 DEF Given, Wrong
    <2> QED
      BY <2>2, <2>3, LoadsIs, NothingIs DEF Then, GivesAsked
  <1> QED
    BY <1>1, <1>3, <1>4

LEMMA LibraryIs ==
  ASSUME NEW job, IsJob(job), job.surface = "library"
  PROVE  GivesAsked(LibraryCall(job))
  <1>1. job.op \in {"instantiate", "decode_str"} /\ BodyFits(job)
    BY DEF IsJob, Operations
  <1>2. CASE job.op = "instantiate"
    <2>1. LibraryCall(job) = Then(FromRegistry(job), One_)
      BY <1>2 DEF LibraryCall
    <2>2. IsStored(job.body.v)
      BY <1>1, <1>2 DEF BodyFits
    <2>3. GivesWithin(FromRegistry(job), Limits)
      BY <2>2, FromRegistryIs, LimitsAre, WithinIs
    <2> QED
      BY <2>1, <2>3, OneIs
  <1>3. CASE job.op = "decode_str"
    <2>1. PICK b : b = ParseJson(job.body) /\ Clean(b) /\ (b.ok => job.body.is = "given" /\ b.v = job.body.v)
      BY ParseJsonIs
    <2>2. LibraryCall(job) = IF b.ok THEN Then(JevDecodeRequestStr(b.v, Limits), One_) ELSE b
      BY <1>3, <2>1 DEF LibraryCall, Then
    <2>3. ASSUME b.ok PROVE GivesAsked(Then(JevDecodeRequestStr(b.v, Limits), One_))
      <3>1. IsJevDocument(b.v)
        BY <1>1, <1>3, <2>1, <2>3 DEF BodyFits
      <3>2. GivesWithin(JevDecodeRequestStr(b.v, Limits), Limits)
        BY <3>1, JevStrIs, LimitsAre, WithinIs
      <3> QED
        BY <3>2, OneIs
    <2> QED
      BY <2>1, <2>2, <2>3 DEF GivesAsked
  <1> QED
    BY <1>1, <1>2, <1>3

\* Whatever the call, what it asks is a list of requests within the server's
\* ceilings, or the call is refused.
LEMMA RequestsAre ==
  ASSUME NEW job, IsJob(job)
  PROVE  GivesAsked(Requests(job))
  <1>1. job.surface \in {"http", "mcp", "ffi", "wasm", "cli", "library"}
    BY DEF IsJob, Operations
  <1> QED
    BY <1>1, HttpIs, McpIs, BindingsAre, CliIs, LibraryIs DEF Requests

-----------------------------------------------------------------------------
(* What the engine makes of a request.                                     *)

LEMMA MassesAre ==
  ASSUME NEW n \in Nat \ {0}, NEW m \in Masses(n)
  PROVE  m \in [1 .. n -> 0 .. One]
  <1> DEFINE sure(k) == [i \in 1 .. n |-> IF i = k THEN One ELSE 0]
             torn == [i \in 1 .. n |-> CASE i = n -> (3 * One) \div 4 [] i = n - 1 -> One \div 4 [] OTHER -> 0]
  <1>1. (\E k \in {1, n} : m = sure(k)) \/ m = torn
    BY DEF Masses
  <1>2. One \in Nat /\ 0 \in 0 .. One /\ One \in 0 .. One /\ (3 * One) \div 4 \in 0 .. One /\ One \div 4 \in 0 .. One
    BY IRAssumption
  <1>3. \A k : sure(k) \in [1 .. n -> 0 .. One]
    BY <1>2
  <1>4. torn \in [1 .. n -> 0 .. One]
    <2>1. \A i \in 1 .. n : torn[i] \in 0 .. One
      BY <1>2
    <2> QED
      BY <2>1
  <1> QED
    BY <1>1, <1>3, <1>4

LEMMA TopIs ==
  ASSUME NEW n \in Nat \ {0}, NEW entries, DOMAIN entries = 1 .. n, \A i \in 1 .. n : entries[i][2] \in 0 .. One
  PROVE  TopOf(entries)[2] \in 0 .. One
  <1> PICK f : f = [i \in 1 .. n |-> entries[i][2]]
    OBVIOUS
  <1> PICK T : T = {i \in DOMAIN entries : \A j \in DOMAIN entries : entries[j][2] <= entries[i][2]}
    OBVIOUS
  <1>1. One \in Nat
    BY IRAssumption
  <1>2. \A i \in 1 .. n : f[i] \in Int
    BY <1>1
  <1>3. IsFiniteSet(1 .. n)
    BY Intervals
  <1>4. \E x \in 1 .. n : \A y \in 1 .. n : f[y] <= f[x]
    <2>1. 1 .. n # {}
      BY ONLY n \in Nat \ {0}
    <2> QED
      BY ONLY <1>2, <1>3, <2>1, Greatest
  <1>5. T # {} /\ T \subseteq 1 .. n
    BY <1>4
  <1>6. Max(T) \in T
    <2> PICK g : g = [i \in T |-> i]
      OBVIOUS
    <2>1. IsFiniteSet(T)
      BY <1>3, <1>5, FS_Subset
    <2>2. \A x \in T : g[x] \in Int
      BY <1>5
    <2>3. \E x \in T : \A y \in T : g[y] <= g[x]
      BY ONLY <1>5, <2>1, <2>2, Greatest
    <2>4. \E x \in T : \A y \in T : x >= y
      BY <1>5, <2>3
    <2> QED
      BY <2>4 DEF Max
  <1>7. TopOf(entries) = entries[Max(T)]
    BY DEF TopOf
  <1> QED
    BY <1>5, <1>6, <1>7

\* Every answer has a confidence and a probability.
LEMMA AnswersAre ==
  ASSUME NEW q \in Questions, NEW a \in AnswersTo(q)
  PROVE  a.confidence \in 0 .. One /\ a.probability \in 0 .. One
  <1>1. PICK value, expected, probability, entries :
          a = Answer(q, value, expected, probability, entries) /\ probability \in 0 .. One
    <2>1. CASE q.kind = "boolean"
      <3>1. (3 * One) \div 4 \in 0 .. One
        BY IRAssumption
      <3>2. PICK value \in {0, 1} : a = Answer(q, value, 0, (3 * One) \div 4, <<>>)
        BY <2>1 DEF AnswersTo
      <3> QED
        BY <3>1, <3>2
    <2>2. CASE q.kind # "boolean"
      <3> PICK n \in Nat : n = Len(q.options)
        BY DEF Questions
      <3>1. n # 0
        BY <2>2, EmptySeq DEF Questions
      <3> DEFINE entries(m) == [i \in DOMAIN m |-> <<q.options[i], m[i]>>]
                 expected(m) == FoldFunction(LAMBDA e, sum : e + sum, 0, [i \in DOMAIN m |-> (i - 1) * m[i]])
      <3>2. PICK m \in Masses(n) :
              a = IF q.kind = "choice" THEN Answer(q, TopOf(entries(m))[1], 0, TopOf(entries(m))[2], entries(m))
                  ELSE Answer(q, LevelFor(q.options, expected(m)), expected(m), TopOf(entries(m))[2], entries(m))
        BY <2>2 DEF AnswersTo
      <3> HIDE DEF expected
      <3>3. m \in [1 .. n -> 0 .. One]
        BY <3>1, MassesAre
      <3> PICK es : es = entries(m)
        OBVIOUS
      <3>4. DOMAIN es = 1 .. n /\ \A i \in 1 .. n : es[i][2] \in 0 .. One
        BY <3>3
      <3>5. TopOf(es)[2] \in 0 .. One
        BY <3>1, <3>4, TopIs
      <3> HIDE DEF entries
      <3> QED
        BY <3>2, <3>5
    <2> QED
      BY <2>1, <2>2
  <1> QED
    BY <1>1 DEF Answer

\* A set of answers: every one of them of a question.
LEMMA AnswerSetsAre ==
  ASSUME NEW questions \in Seq(Questions), questions # <<>>, NEW answers \in AnswerSets(questions)
  PROVE  /\ answers # <<>>
         /\ DOMAIN answers = DOMAIN questions /\ 1 \in DOMAIN questions
         /\ \A i \in DOMAIN answers : answers[i].confidence \in 0 .. One /\ answers[i].probability \in 0 .. One
  <1> PICK Q : Q = Questions
    OBVIOUS
  <1> PICK z \in Seq(Q) : z = questions
    OBVIOUS
  <1> PICK n \in Nat : n = Len(z) /\ DOMAIN z = 1 .. n /\ \A i \in 1 .. n : z[i] \in Q
    OBVIOUS
  <1>1. n # 0
    BY EmptySeq
  <1>2. DOMAIN answers = 1 .. n /\ \A i \in 1 .. n : answers[i] \in AnswersTo(z[i])
    BY DEF AnswerSets
  <1>3. \A i \in 1 .. n : answers[i].confidence \in 0 .. One /\ answers[i].probability \in 0 .. One
    BY <1>2, AnswersAre
  <1>4. answers # <<>>
    BY <1>1, <1>2
  <1> QED
    BY <1>1, <1>2, <1>3, <1>4

\* A result no caller is surprised by: its refusal is no error of the IR, its
\* report fits or has nothing left to cut.
Sound(r) ==
    /\ Clean(r)
    /\ r.ok => \A e \in r.v.escalation : SerializedLen(e) <= Budget \/ IsMinimal(e)

LEMMA ResponsesAre ==
  ASSUME NEW answers, DOMAIN answers \in SUBSET Nat,
         \A i \in DOMAIN answers : answers[i].confidence \in 0 .. One /\ answers[i].probability \in 0 .. One,
         NEW outcome, answers # <<>> \/ outcome \notin Decisive
  PROVE  /\ NewResponse(answers, outcome).ok = TRUE
         /\ NewResponse(answers, outcome).v = [answers |-> answers, outcome |-> outcome, escalation |-> {}]
  <1> DEFINE checks == << <<outcome \in Decisive /\ answers = <<>>, "ir.empty_field">>,
                          <<\E i \in DOMAIN answers : ~ValidAnswer(answers[i]), "ir.invalid_probability">> >>
             v == [answers |-> answers, outcome |-> outcome, escalation |-> {}]
  <1>1. NewResponse(answers, outcome) = Unless(checks, v)
    BY DEF NewResponse
  <1>2. ~checks[1][1]
    OBVIOUS
  <1>3. ~checks[2][1]
    BY DEF ValidAnswer, IsUnit
  <1>4. DOMAIN checks = {1, 2}
    OBVIOUS
  <1> HIDE DEF checks, v
  <1>5. {i \in DOMAIN checks : checks[i][1]} = {}
    BY <1>2, <1>3, <1>4
  <1>6. Unless(checks, v) = Ok(v)
    BY <1>5 DEF Unless
  <1>7. NewResponse(answers, outcome) = Ok(v)
    BY ONLY <1>1, <1>6
  <1>8. NewResponse(answers, outcome).ok = TRUE /\ NewResponse(answers, outcome).v = v
    BY ONLY <1>7 DEF Ok
  <1> QED
    BY ONLY <1>8 DEF v

LEMMA AcceptedIs ==
  ASSUME NEW questions \in Seq(Questions), questions # <<>>, NEW answers \in AnswerSets(questions)
  PROVE  Sound(Coded(NewResponse(answers, "accept")))
  <1> PICK r : r = NewResponse(answers, "accept")
    OBVIOUS
  <1>1. /\ answers # <<>> /\ DOMAIN answers = DOMAIN questions
        /\ \A i \in DOMAIN answers : answers[i].confidence \in 0 .. One /\ answers[i].probability \in 0 .. One
    BY AnswerSetsAre
  <1>2. DOMAIN questions \in SUBSET Nat
    OBVIOUS
  <1>3. r.ok = TRUE /\ r.v = [answers |-> answers, outcome |-> "accept", escalation |-> {}]
    BY <1>1, <1>2, ResponsesAre
  <1>4. Coded(r) = r
    BY <1>3 DEF Coded
  <1>5. r.v.escalation = {}
    BY <1>3
  <1> QED
    BY <1>3, <1>4, <1>5 DEF Sound, Clean

LEMMA AbstainedIs == Sound(NewResponse(<<>>, "abstain"))
  <1> PICK r : r = NewResponse(<<>>, "abstain")
    OBVIOUS
  <1>1. DOMAIN <<>> = {}
    OBVIOUS
  <1>2. r.ok = TRUE /\ r.v = [answers |-> <<>>, outcome |-> "abstain", escalation |-> {}]
    BY <1>1, ResponsesAre DEF Decisive
  <1>3. r.v.escalation = {}
    BY <1>2
  <1> QED
    BY <1>2, <1>3 DEF Sound, Clean

\* The report of an escalation before it is cut.
LEMMA ReportOf ==
  ASSUME NEW request, IsRequest(request), NEW answers \in AnswerSets(request.questions), NEW evidence \in Evidence
  PROVE  \E r \in Reports : ValidReport(r) /\ EscalationReport(request, answers, evidence) = FitTo(r, Budget)
  <1> PICK r : r = [text |-> Head(request.questions).text, truncated |-> FALSE, guidance |-> Guidance,
           trace |-> evidence.trace, in |-> evidence.in, out |-> evidence.out,
           threshold |-> Or(request.policy.escalate, Head(answers).confidence),
           observed |-> Head(answers).confidence, model |-> 1, partial |-> {Head(answers).probability}]
    OBVIOUS
  <1>1. EscalationReport(request, answers, evidence) = FitTo(r, Budget)
    BY DEF EscalationReport
  <1> PICK Q : Q = Questions
    OBVIOUS
  <1> PICK z \in Seq(Q) : z = request.questions
    BY DEF IsRequest
  <1>2. z # <<>>
    BY DEF IsRequest
  <1>3. Head(z) \in Q
    BY <1>2
  <1>4. r.text \in Nat \ {0}
    BY <1>3 DEF Questions
  <1>5. /\ 1 \in DOMAIN answers
        /\ \A i \in DOMAIN answers : answers[i].confidence \in 0 .. One /\ answers[i].probability \in 0 .. One
    BY <1>2, AnswerSetsAre
  <1>6. Head(answers) = answers[1]
    <2> PICK n \in Nat : n = Len(z) /\ DOMAIN z = 1 .. n
      OBVIOUS
    <2> PICK U : U = {answers[i] : i \in 1 .. n}
      OBVIOUS
    <2>1. answers = [i \in 1 .. n |-> answers[i]]
      BY DEF AnswerSets
    <2>2. answers \in Seq(U)
      BY ONLY n \in Nat, <2>1, ListIs, U = {answers[i] : i \in 1 .. n}
    <2>3. answers # <<>>
      BY <1>2, AnswerSetsAre
    <2> QED
      BY ONLY <2>2, <2>3
  <1> PICK conf \in 0 .. One, prob \in 0 .. One : conf = Head(answers).confidence /\ prob = Head(answers).probability
    BY <1>5, <1>6
  <1>7. r.threshold \in 0 .. One
    <2>1. request.policy.escalate \subseteq 0 .. One
      BY DEF IsRequest, IsPolicy
    <2> QED
      BY <2>1 DEF Or
  <1>8. /\ Guidance \in Seq(1 .. 4) /\ Guidance # <<>>
        /\ evidence.trace \in Nat /\ evidence.in \in Seq(Nat \ {0}) /\ evidence.out \in Seq(Nat \ {0})
    BY ReportAssumption DEF Empty
  <1>9. \A s \in Seq(Nat \ {0}) : s \in Seq(Nat) /\ \A x \in Range(s) : x # 0
    <2> TAKE s \in Seq(Nat \ {0})
    <2> PICK n \in Nat : n = Len(s) /\ DOMAIN s = 1 .. n /\ \A i \in 1 .. n : s[i] \in Nat \ {0}
      OBVIOUS
    <2>1. s \in Seq(Nat)
      OBVIOUS
    <2> QED
      BY <2>1 DEF Range
  <1>10. One \in Nat
    BY IRAssumption
  <1>11. r \in Reports
    BY <1>4, <1>7, <1>8, <1>9, <1>10 DEF Reports
  <1>12. ValidReport(r)
    BY <1>4, <1>7, <1>8, <1>9, <1>10 DEF ValidReport, IsUnit, Empty
  <1> QED
    BY <1>1, <1>11, <1>12

LEMMA EscalatedIs ==
  ASSUME NEW request, IsRequest(request), NEW answers \in AnswerSets(request.questions), NEW evidence \in Evidence
  PROVE  Sound(Coded(Escalated(request, answers, evidence)))
  <1> PICK rep : rep = EscalationReport(request, answers, evidence)
    OBVIOUS
  <1>1. ValidReport(rep) /\ (SerializedLen(rep) <= Budget \/ IsMinimal(rep))
    BY ReportOf, ReportsFitOrAreMinimal
  <1> PICK r : r = NewResponse(answers, "escalate")
    OBVIOUS
  <1>2. r.ok = TRUE /\ r.v = [answers |-> answers, outcome |-> "escalate", escalation |-> {}]
    <2> PICK z \in Seq(Questions) : z = request.questions
      BY DEF IsRequest
    <2>1. z # <<>>
      BY DEF IsRequest
    <2>2. /\ answers # <<>> /\ DOMAIN answers = DOMAIN z
          /\ \A i \in DOMAIN answers : answers[i].confidence \in 0 .. One /\ answers[i].probability \in 0 .. One
      BY <2>1, AnswerSetsAre
    <2>3. DOMAIN z \in SUBSET Nat
      OBVIOUS
    <2> QED
      BY <2>2, <2>3, ResponsesAre
  <1>3. Escalated(request, answers, evidence) = WithEscalation(r.v, rep)
    BY <1>2 DEF Escalated, Then
  <1>4. WithEscalation(r.v, rep) = Ok([r.v EXCEPT !.escalation = {rep}])
    BY <1>1, <1>2 DEF WithEscalation
  <1>5. [r.v EXCEPT !.escalation = {rep}].escalation = {rep}
    BY <1>2
  <1> PICK w : w = [r.v EXCEPT !.escalation = {rep}]
    OBVIOUS
  <1>6. Coded(Escalated(request, answers, evidence)) = Ok(w)
    BY <1>3, <1>4 DEF Coded, Ok
  <1>7. w.escalation = {rep}
    BY <1>5
  <1> QED
    BY <1>1, <1>6, <1>7, OkIs DEF Sound

-----------------------------------------------------------------------------
(* Calls ask and are answered in step.                                     *)

IsList(d) == \E S : d \in Seq(S)

LEMMA AppendIs ==
  ASSUME NEW d, IsList(d), NEW r
  PROVE  /\ IsList(Append(d, r)) /\ Len(d) \in Nat /\ Len(Append(d, r)) = Len(d) + 1
         /\ DOMAIN d = 1 .. Len(d) /\ DOMAIN Append(d, r) = 1 .. Len(d) + 1
         /\ \A i \in 1 .. Len(d) : Append(d, r)[i] = d[i]
         /\ Append(d, r)[Len(d) + 1] = r
  <1> PICK S : d \in Seq(S)
    BY DEF IsList
  <1> PICK T : T = S \cup {r}
    OBVIOUS
  <1>1. d \in Seq(T) /\ r \in T
    OBVIOUS
  <1>2. Append(d, r) \in Seq(T)
    BY <1>1
  <1>3. IsList(Append(d, r))
    BY <1>2 DEF IsList
  <1> QED
    BY <1>1, <1>2, <1>3

\* What a call asks is within the ceilings, and its answers, one for a request,
\* surprise nobody.
CallRight(k) ==
    /\ \E n \in DOMAIN JobTable : k.job = JobTable[n]
    /\ GivesAsked(k.asked) /\ Clean(k.engine)
    /\ k.stage = "idle" => k.decided = <<>>
    /\ k.stage = "working" => k.asked.ok
    /\ IsList(k.decided)
    /\ k.decided # <<>> => k.asked.ok /\ Len(k.decided) <= Len(k.asked.v)
    /\ \A i \in DOMAIN k.decided : Sound(k.decided[i])
CallsRight == \A c \in Callers : CallRight(calls[c])

LEMMA OneCallMoves ==
  ASSUME CallsRight, NEW c \in Callers, OthersWait(c), CallRight(calls'[c])
  PROVE  CallsRight'
  <1> SUFFICES ASSUME NEW d \in Callers PROVE CallRight(calls'[d])
    BY DEF CallsRight
  <1> QED
    BY DEF OthersWait, CallsRight

\* A call that goes on, or ends, with what it asked and was answered.
LEMMA CallGoes ==
  ASSUME SurfacesShape, CallsRight, NEW c \in Callers, OthersWait(c), calls'[c].job = calls[c].job,
         calls'[c].engine = calls[c].engine, calls'[c].asked = calls[c].asked,
         calls'[c].decided = calls[c].decided, calls[c].stage # "idle",
         calls'[c].stage = "idle" => calls[c].stage = "idle",
         calls'[c].stage = "working" => calls[c].asked.ok
  PROVE  CallsRight'
  <1>1. CallRight(calls'[c])
    BY DEF CallsRight, CallRight
  <1> QED
    BY <1>1, OneCallMoves

LEMMA StageLeaves ==
  ASSUME SurfacesShape, NEW c \in Callers, NEW s, Stage(c, s)
  PROVE  /\ calls'[c].engine = calls[c].engine /\ calls'[c].asked = calls[c].asked
         /\ calls'[c].decided = calls[c].decided
  BY DEF SurfacesShape, Stage, IsCall

LEMMA ReplyLeaves ==
  ASSUME SurfacesShape, NEW c \in Callers, NEW r, Reply(c, r)
  PROVE  /\ calls'[c].engine = calls[c].engine /\ calls'[c].asked = calls[c].asked
         /\ calls'[c].decided = calls[c].decided
  <1>1. calls' = [calls EXCEPT ![c].stage = "ended", ![c].reply = {r}]
    BY DEF Reply
  <1> QED
    BY <1>1 DEF SurfacesShape, IsCall

LEMMA StageRight ==
  ASSUME SurfacesShape, CallsRight, NEW c \in Callers, NEW s, Stage(c, s), calls[c].stage # "idle",
         s # "idle", s = "working" => calls[c].asked.ok
  PROVE  CallsRight'
  BY StageIs, StageLeaves, CallGoes DEF SameJob

LEMMA ReplyRight ==
  ASSUME SurfacesShape, CallsRight, NEW c \in Callers, NEW r, Reply(c, r), calls[c].stage # "idle"
  PROVE  CallsRight'
  BY ReplyIs, ReplyLeaves, CallGoes DEF SameJob

\* The engine of a call is one that was assembled, or why it was not.
LEMMA EnginesAre ==
  ASSUME NEW n \in DOMAIN JobTable, JobTable[n].surface # "none", NEW e \in Engines(JobTable[n])
  PROVE  Clean(e)
  <1> PICK job : job = JobTable[n]
    OBVIOUS
  <1>1. IsJob(job) /\ job.surface \in {"http", "mcp", "ffi", "wasm", "cli", "library"}
    BY DocumentsAssumption, SurfacesAssumption
  <1>2. CASE job.op = "graph_run"
    BY <1>2, EnginesIs DEF Engines
  <1>3. CASE job.op # "graph_run" /\ job.surface = "http"
    BY <1>3, OkIs DEF Engines
  <1>4. CASE job.op # "graph_run" /\ job.surface = "mcp"
    <2>1. e \in {r \in {HandleOf(flags, {}) : flags \in Launches} : r.ok}
      BY <1>4 DEF Engines
    <2>2. PICK flags \in Launches : e = HandleOf(flags, {})
      BY <2>1
    <2> QED
      BY <2>2, DocumentsAssumption, HandleOfIs
  <1>5. CASE job.op # "graph_run" /\ job.surface \in {"ffi", "wasm"}
    BY <1>5, EnginesIs DEF Engines
  <1>6. CASE job.op # "graph_run" /\ job.surface = "cli"
    BY <1>1, <1>6, HandleOfIs DEF Engines, IsJob
  <1>7. CASE job.op # "graph_run" /\ job.surface = "library"
    <2>1. e = WithRungs(EngineConfig(Pipeline), SolverOverLexical, NoLadder, VisionRung({TRUE}).v)
      BY <1>7 DEF Engines
    <2> QED
      BY <2>1, EnginesIs
  <1> QED
    BY <1>1, <1>2, <1>3, <1>4, <1>5, <1>6, <1>7

LEMMA BeginRight ==
  ASSUME SurfacesShape, CallsRight, NEW c \in Callers, Begin(c)
  PROVE  CallsRight'
  <1>1. CallRight(calls[c]) /\ IsCall(calls[c])
    BY DEF CallsRight, SurfacesShape
  <1>2. PICK n \in DOMAIN JobTable : Job(c) = JobTable[n]
    BY <1>1 DEF CallRight, Job
  <1>3. PICK e \in Engines(Job(c)) :
          calls' = [calls EXCEPT ![c].stage = "arrived", ![c].engine = e, ![c].asked = Requests(Job(c))]
    BY DEF Begin
  <1>4. Job(c).surface # "none" /\ calls[c].stage = "idle"
    BY DEF Begin
  <1>5. Clean(e)
    BY <1>2, <1>4, EnginesAre
  <1>6. PICK q : q = Requests(Job(c)) /\ GivesAsked(q)
    BY <1>2, <1>4, DocumentsAssumption, RequestsAre
  <1>7. /\ calls' = [d \in Callers |-> calls'[d]] /\ \A d \in Callers \ {c} : calls'[d] = calls[d]
        /\ calls'[c].job = calls[c].job /\ calls'[c].engine = e /\ calls'[c].asked = q
        /\ calls'[c].decided = calls[c].decided /\ calls'[c].stage = "arrived"
    BY <1>1, <1>3, <1>6 DEF SurfacesShape, IsCall
  <1>8. calls[c].decided = <<>> /\ DOMAIN <<>> = {}
    BY <1>1, <1>4 DEF CallRight
  <1>9. CallRight(calls'[c])
    BY <1>1, <1>5, <1>6, <1>7, <1>8 DEF CallRight
  <1> QED
    BY <1>7, <1>9, OneCallMoves DEF OthersWait

LEMMA ValidateIs ==
  ASSUME NEW engine, NEW request
  PROVE  Clean(Validate(engine, request))
  <1> DEFINE checks == << <<Repeats([i \in DOMAIN request.questions |-> request.questions[i].id]),
                "engine.duplicate_question">>,
              <<engine.config.graph.nodes > request.limits.graph_nodes, "graph.limit_exceeded">>,
              <<request.state.images # <<>> /\ \A rung \in Range(engine.rungs) : ~rung.image,
                "engine.vision_required">> >>
  <1>1. DOMAIN checks = 1 .. 3 /\ \A i \in 1 .. 3 : checks[i][2] # "ir.invalid"
    OBVIOUS
  <1>2. Validate(engine, request) = Unless(checks, request)
    BY DEF Validate
  <1> HIDE DEF checks
  <1> QED
    BY <1>1, <1>2, UnlessIs

\* What a decision of the engine comes to.
LEMMA WorkTakes ==
  ASSUME NEW c \in Callers, CallRight(calls[c]), Work(c)
  PROVE  \E r : /\ Sound(r) /\ calls' = [calls EXCEPT ![c].decided = Append(@, r)]
                /\ Len(calls[c].decided) + 1 <= Len(calls[c].asked.v) /\ calls[c].asked.ok
                /\ UNCHANGED <<server, served, sink, lastError>>
  <1> DEFINE i == Len(calls[c].decided) + 1
             take(r) == calls' = [calls EXCEPT ![c].decided = Append(@, r)]
             request == Request(c, i).v
             admitted == Request(c, i).ok /\ Admit(c, request).ok
  <1>1. calls[c].stage = "working" /\ i <= Count(c) /\ UNCHANGED <<server, served, sink, lastError>>
    BY DEF Work
  <1>2. calls[c].asked.ok /\ IsAsked(calls[c].asked.v)
    BY <1>1 DEF CallRight, GivesAsked
  <1>3. i \in 1 .. Len(calls[c].asked.v) /\ i <= Len(calls[c].asked.v)
    <2>1. Len(calls[c].decided) \in Nat
      BY AppendIs DEF CallRight
    <2> QED
      BY <1>1, <1>2, <2>1 DEF Count, IsAsked
  <1>4. GivesWithin(Request(c, i), Limits)
    BY <1>2, <1>3 DEF IsAsked, Request
  <1>5. Clean(Admit(c, request))
    <2>1. Clean(calls[c].engine)
      BY DEF CallRight
    <2> HIDE DEF request
    <2> QED
      BY <2>1, ValidateIs DEF Admit, Then
  <1>6. \/ ~admitted /\ take(IF Request(c, i).ok THEN Admit(c, request) ELSE Request(c, i))
        \/ admitted /\ take(NewResponse(<<>>, "abstain"))
        \/ admitted /\ \E code \in EngineFaults : take(Err(code))
        \/ admitted /\ \E answers \in AnswerSets(request.questions) : take(Coded(NewResponse(answers, "accept")))
        \/ admitted /\ \E answers \in AnswerSets(request.questions), evidence \in Evidence :
                          take(Coded(Escalated(request, answers, evidence)))
    BY DEF Work
  <1>7. Request(c, i).ok => IsRequest(request)
    BY <1>4 DEF GivesWithin
  <1>8. IsRequest(request) => request.questions \in Seq(Questions) /\ request.questions # <<>>
    BY DEF IsRequest
  <1> HIDE DEF i, take, request
  <1>9. \E r : Sound(r) /\ take(r)
    <2>1. CASE ~admitted /\ take(IF Request(c, i).ok THEN Admit(c, request) ELSE Request(c, i))
      <3> PICK r : r = IF Request(c, i).ok THEN Admit(c, request) ELSE Request(c, i)
        OBVIOUS
      <3>1. Clean(r) /\ ~r.ok
        BY <1>4, <1>5, <2>1 DEF GivesWithin
      <3>2. Sound(r)
        BY <3>1 DEF Sound
      <3> QED
        BY <2>1, <3>2
    <2>2. CASE admitted /\ take(NewResponse(<<>>, "abstain"))
      BY <2>2, AbstainedIs
    <2>3. CASE admitted /\ \E code \in EngineFaults : take(Err(code))
      <3> PICK code \in EngineFaults : take(Err(code))
        BY <2>3
      <3>1. Sound(Err(code))
        BY ErrIs, DocumentsAssumption DEF Sound
      <3> QED
        BY <3>1
    <2>4. CASE admitted /\ \E answers \in AnswerSets(request.questions) : take(Coded(NewResponse(answers, "accept")))
      <3> PICK answers \in AnswerSets(request.questions) : take(Coded(NewResponse(answers, "accept")))
        BY <2>4
      <3>1. Sound(Coded(NewResponse(answers, "accept")))
        BY <1>7, <1>8, <2>4, AcceptedIs
      <3> QED
        BY <3>1
    <2>5. CASE admitted /\ \E answers \in AnswerSets(request.questions), evidence \in Evidence :
                          take(Coded(Escalated(request, answers, evidence)))
      <3> PICK answers \in AnswerSets(request.questions), evidence \in Evidence :
                 take(Coded(Escalated(request, answers, evidence)))
        BY <2>5
      <3>1. Sound(Coded(Escalated(request, answers, evidence)))
        BY <1>7, <2>5, EscalatedIs
      <3> QED
        BY <3>1
    <2> QED
      BY <1>6, <2>1, <2>2, <2>3, <2>4, <2>5
  <1> QED
    BY <1>1, <1>2, <1>3, <1>9 DEF i, take

LEMMA WorkRight ==
  ASSUME SurfacesShape, CallsRight, NEW c \in Callers, Work(c)
  PROVE  CallsRight'
  <1>1. CallRight(calls[c]) /\ IsCall(calls[c])
    BY DEF CallsRight, SurfacesShape
  <1> PICK r : /\ Sound(r) /\ calls' = [calls EXCEPT ![c].decided = Append(@, r)]
               /\ Len(calls[c].decided) + 1 <= Len(calls[c].asked.v) /\ calls[c].asked.ok
               /\ UNCHANGED <<server, served, sink, lastError>>
    BY <1>1, WorkTakes
  <1> PICK d : d = calls[c].decided
    OBVIOUS
  <1> PICK e : e = Append(d, r)
    OBVIOUS
  <1>2. /\ calls' = [x \in Callers |-> calls'[x]] /\ \A x \in Callers \ {c} : calls'[x] = calls[x]
        /\ calls'[c].job = calls[c].job /\ calls'[c].engine = calls[c].engine
        /\ calls'[c].asked = calls[c].asked /\ calls'[c].stage = calls[c].stage /\ calls'[c].decided = e
    BY <1>1 DEF SurfacesShape, IsCall
  <1>3. calls[c].stage = "working"
    BY DEF Work
  <1>4. IsList(d) /\ \A i \in DOMAIN d : Sound(d[i])
    BY <1>1 DEF CallRight
  <1>5. /\ IsList(e) /\ Len(e) = Len(d) + 1 /\ Len(d) \in Nat
        /\ DOMAIN d = 1 .. Len(d) /\ DOMAIN e = 1 .. Len(d) + 1
        /\ (\A i \in 1 .. Len(d) : e[i] = d[i]) /\ e[Len(d) + 1] = r
    BY <1>4, AppendIs
  <1>6. \A i \in DOMAIN e : Sound(e[i])
    <2> TAKE i \in DOMAIN e
    <2>1. CASE i = Len(d) + 1
      BY <1>5, <2>1
    <2>2. CASE i # Len(d) + 1
      <3>1. i \in 1 .. Len(d)
        BY <1>5, <2>2
      <3> QED
        BY <1>4, <1>5, <3>1
    <2> QED
      BY <2>1, <2>2
  <1>7. CallRight(calls'[c])
    BY <1>1, <1>2, <1>3, <1>5, <1>6 DEF CallRight
  <1> QED
    BY <1>2, <1>7, OneCallMoves DEF OthersWait

LEMMA HandleRight ==
  ASSUME SurfacesShape, CallsRight, NEW c \in Callers, Handle(c)
  PROVE  CallsRight'
  <1>1. calls[c].stage = "arrived"
    BY DEF Handle
  <1>2. \/ \E r : Reply(c, r)
        \/ Stage(c, "waiting")
        \/ calls[c].asked.ok /\ Stage(c, "working")
    BY DEF Handle
  <1> QED
    BY <1>1, <1>2, StageRight, ReplyRight

LEMMA OtherStepsRight ==
  ASSUME SurfacesShape, CallsRight, NEW c \in Callers,
         Finish(c) \/ TakeSink(c) \/ WriteRow(c) \/ WriteNewline(c) \/ Panic(c) \/ WriteFails(c) \/ Abandon(c)
  PROVE  CallsRight'
  <1>1. CASE Finish(c) \/ WriteNewline(c) \/ Panic(c) \/ WriteFails(c)
    <2>1. calls[c].stage # "idle"
      BY <1>1 DEF Finish, WriteNewline, Panic, WriteFails
    <2>2. \E r : Reply(c, r)
      BY <1>1 DEF Finish, WriteNewline, Panic, WriteFails
    <2> QED
      BY <2>1, <2>2, ReplyRight
  <1>2. CASE TakeSink(c) \/ WriteRow(c) \/ Abandon(c)
    <2>1. calls[c].stage # "idle"
      BY <1>2 DEF TakeSink, WriteRow, Abandon
    <2>2. \E s \in {"writing", "ending", "ended"} : Stage(c, s)
      BY <1>2 DEF TakeSink, WriteRow, Abandon
    <2> QED
      BY <2>1, <2>2, StageRight
  <1> QED
    BY <1>1, <1>2

LEMMA DisconnectRight ==
  ASSUME SurfacesShape, CallsRight, NEW c \in Callers, Disconnect(c)
  PROVE  CallsRight'
  <1>1. CallRight(calls[c]) /\ IsCall(calls[c])
    BY DEF CallsRight, SurfacesShape
  <1>2. calls[c].stage # "idle"
    BY DEF Disconnect, Held
  <1>3. calls' = [calls EXCEPT ![c].connected = FALSE, ![c].stage = IF @ = "arrived" THEN "ended" ELSE @]
    BY DEF Disconnect
  <1>4. /\ calls' = [x \in Callers |-> calls'[x]] /\ \A x \in Callers \ {c} : calls'[x] = calls[x]
        /\ calls'[c].job = calls[c].job /\ calls'[c].engine = calls[c].engine
        /\ calls'[c].asked = calls[c].asked /\ calls'[c].decided = calls[c].decided
        /\ calls'[c].stage \in {"ended", calls[c].stage}
    BY <1>1, <1>3 DEF SurfacesShape, IsCall
  <1>5. calls'[c].stage = "working" => calls[c].asked.ok
    BY <1>1, <1>4 DEF CallRight
  <1> QED
    BY <1>2, <1>4, <1>5, CallGoes DEF OthersWait

LEMMA CallsRightInit == Init => CallsRight
  <1> SUFFICES ASSUME Init, NEW c \in Callers PROVE CallRight(calls[c])
    BY DEF CallsRight
  <1>1. PICK crowd \in Crowds : calls = [d \in Callers |-> CallOf(JobTable[crowd[d]])]
    BY DEF Init
  <1>2. crowd[c] \in DOMAIN JobTable
    BY SurfacesAssumption
  <1>3. calls[c] = CallOf(JobTable[crowd[c]])
    BY <1>1
  <1>4. /\ calls[c].job = JobTable[crowd[c]] /\ calls[c].engine = Err("absent") /\ calls[c].asked = Nothing
        /\ calls[c].decided = <<>> /\ calls[c].stage = "idle"
    BY <1>3 DEF CallOf, Nothing
  <1>5. IsList(<<>>) /\ DOMAIN <<>> = {}
    BY EmptySeq DEF IsList
  <1> QED
    BY <1>2, <1>4, <1>5, NothingIs, ErrIs DEF CallRight

LEMMA CallsRightStep == SurfacesShape /\ CallsRight /\ [Next]_vars => CallsRight'
  <1> SUFFICES ASSUME SurfacesShape, CallsRight, [Next]_vars PROVE CallsRight'
    OBVIOUS
  <1>1. CASE Start \/ ShutdownSignal \/ Stop
    <2>1. UNCHANGED calls
      BY <1>1 DEF Start, ShutdownSignal, Stop
    <2> QED
      BY <2>1 DEF CallsRight
  <1>2. ASSUME NEW c \in Callers, Begin(c) PROVE CallsRight'
    BY <1>2, BeginRight
  <1>3. ASSUME NEW c \in Callers, Step(c) PROVE CallsRight'
    BY <1>3, HandleRight, WorkRight, OtherStepsRight DEF Step
  <1>4. ASSUME NEW c \in Callers, Panic(c) \/ WriteFails(c) \/ Disconnect(c) \/ Abandon(c) PROVE CallsRight'
    BY <1>4, OtherStepsRight, DisconnectRight
  <1>5. CASE UNCHANGED vars
    BY <1>5 DEF CallsRight, vars
  <1> QED
    BY <1>1, <1>2, <1>3, <1>4, <1>5 DEF Next

LEMMA CallsStayRight == Spec => []CallsRight
  <1>1. SurfacesInv => SurfacesShape
    BY DEF SurfacesInv
  <1> QED
    BY <1>1, SurfacesInvariant, CallsRightInit, CallsRightStep, PTL DEF Spec

\* A request that keeps the server's ceilings is legal in every part.
LEMMA WithinIsLegal ==
  ASSUME NEW r, IsRequest(r), \A l \in LimitNames : r.limits[l] <= Limits[l]
  PROVE  /\ r.state.text <= Limits.input_bytes
         /\ Len(r.state.images) <= Limits.images
         /\ \A n \in Range(r.state.images) : n \in 0 .. Limits.image_bytes
         /\ Len(r.questions) \in 1 .. Limits.questions
         /\ \A q \in Range(r.questions) : LegalQuestion(q)
         /\ r.policy.abstain <= r.policy.verify /\ r.policy.verify <= r.policy.min
  <1>1. /\ IsState(r.state) /\ r.questions \in Seq(Questions) /\ r.questions # <<>>
        /\ IsPolicy(r.policy) /\ r.limits \in [LimitNames -> Nat]
    BY DEF IsRequest
  <1>2. /\ Len(r.questions) <= r.limits.questions
        /\ r.state.text <= r.limits.input_bytes
        /\ Len(r.state.images) <= r.limits.images
        /\ \A i \in DOMAIN r.state.images : r.state.images[i] <= r.limits.image_bytes
        /\ \A i \in DOMAIN r.questions :
              r.questions[i].kind = "choice" => Len(r.questions[i].options) <= r.limits.candidates
    BY DEF IsRequest
  <1>3. \A l \in {"input_bytes", "questions", "candidates", "images", "image_bytes"} :
          r.limits[l] \in Nat /\ Limits[l] \in Nat /\ r.limits[l] <= Limits[l]
    BY <1>1, LimitsAre DEF LimitNames
  <1> PICK own : own = r.limits
    OBVIOUS
  <1> PICK max : max = Limits
    OBVIOUS
  <1>4. /\ own.input_bytes \in Nat /\ max.input_bytes \in Nat /\ own.input_bytes <= max.input_bytes
        /\ own.questions \in Nat /\ max.questions \in Nat /\ own.questions <= max.questions
        /\ own.candidates \in Nat /\ max.candidates \in Nat /\ own.candidates <= max.candidates
        /\ own.images \in Nat /\ max.images \in Nat /\ own.images <= max.images
        /\ own.image_bytes \in Nat /\ max.image_bytes \in Nat /\ own.image_bytes <= max.image_bytes
    BY <1>3
  <1>5. r.state.text <= max.input_bytes
    <2> PICK t \in Nat : t = r.state.text
      BY <1>1 DEF IsState
    <2> QED
      BY <1>2, <1>4
  <1> PICK im \in Seq(Nat) : im = r.state.images
    BY <1>1 DEF IsState
  <1> PICK k \in Nat : k = Len(im) /\ DOMAIN im = 1 .. k /\ \A i \in 1 .. k : im[i] \in Nat
    OBVIOUS
  <1>6. k <= max.images
    BY <1>2, <1>4
  <1>7. \A n \in Range(im) : n \in 0 .. max.image_bytes
    <2> SUFFICES ASSUME NEW i \in 1 .. k PROVE im[i] \in 0 .. max.image_bytes
      BY DEF Range
    <2>1. im[i] <= own.image_bytes
      BY ONLY <1>2, im = r.state.images, own = r.limits, DOMAIN im = 1 .. k, i \in 1 .. k
    <2> PICK n \in Nat : n = im[i]
      OBVIOUS
    <2>2. n <= own.image_bytes
      BY ONLY <2>1, n = im[i]
    <2>3. n \in 0 .. max.image_bytes
      BY ONLY <1>4, <2>2, n \in Nat
    <2> QED
      BY <2>3
  <1> PICK Q : Q = Questions
    OBVIOUS
  <1> PICK z \in Seq(Q) : z = r.questions
    BY <1>1
  <1> PICK m \in Nat : m = Len(z) /\ DOMAIN z = 1 .. m /\ \A i \in 1 .. m : z[i] \in Q
    OBVIOUS
  <1>8. m \in 1 .. max.questions
    <2>1. m # 0
      BY <1>1, EmptySeq
    <2> QED
      BY <1>2, <1>4, <2>1
  <1>9. \A q \in Range(z) : LegalQuestion(q)
    <2> SUFFICES ASSUME NEW i \in 1 .. m PROVE LegalQuestion(z[i])
      BY DEF Range
    <2> PICK q \in Questions : q = z[i]
      OBVIOUS
    <2>1. q.id # 0 /\ q.text # 0 /\ q.options \in Seq(Nat) /\ Cardinality(Range(q.options)) = Len(q.options)
      BY DEF Questions
    <2>2. q.kind = "score" => Len(q.options) >= 2
      BY DEF Questions
    <2>3. q.kind = "choice" => Len(q.options) \in 1 .. max.candidates
      <3> SUFFICES ASSUME q.kind = "choice" PROVE Len(q.options) \in 1 .. max.candidates
        OBVIOUS
      <3>1. Len(q.options) <= own.candidates
        BY <1>2
      <3>2. q.options # <<>>
        BY DEF Questions
      <3> PICK n \in Nat : n = Len(q.options)
        BY <2>1
      <3>3. n # 0
        BY <2>1, <3>2, EmptySeq
      <3> QED
        BY <1>4, <3>1, <3>3
    <2> QED
      BY <2>1, <2>2, <2>3 DEF LegalQuestion, Empty
  <1>10. r.policy.abstain <= r.policy.verify /\ r.policy.verify <= r.policy.min
    BY <1>1 DEF IsPolicy
  <1> QED
    BY <1>5, <1>6, <1>7, <1>8, <1>9, <1>10

\* Whatever the surface, the format and the document, and for all ceilings the
\* server may be built with, the engine decides only requests inside them:
\* nothing oversized, nothing empty, no option twice, thresholds in order.
\* (Every decode_request, decode_definition and instantiate, HTTP's chat, the
\* MCP gate and the overrides of the command line.)
THEOREM RequestsDecidedAreLegal == Spec => []OnlyLegalRequestsDecided
  <1>1. CallsRight => OnlyLegalRequestsDecided
    <2> SUFFICES ASSUME CallsRight, NEW c \in Callers, NEW i \in DOMAIN calls[c].decided, Request(c, i).ok
                 PROVE  /\ Request(c, i).v.state.text <= Limits.input_bytes
                        /\ Len(Request(c, i).v.state.images) <= Limits.images
                        /\ \A n \in Range(Request(c, i).v.state.images) : n \in 0 .. Limits.image_bytes
                        /\ Len(Request(c, i).v.questions) \in 1 .. Limits.questions
                        /\ \A q \in Range(Request(c, i).v.questions) : LegalQuestion(q)
                        /\ Request(c, i).v.policy.abstain <= Request(c, i).v.policy.verify
                        /\ Request(c, i).v.policy.verify <= Request(c, i).v.policy.min
                        /\ \A l \in LimitNames : Request(c, i).v.limits[l] <= Limits[l]
      BY DEF OnlyLegalRequestsDecided
    <2> PICK k : k = calls[c]
      OBVIOUS
    <2>1. CallRight(k)
      BY DEF CallsRight
    <2>2. i \in 1 .. Len(k.decided) /\ Len(k.decided) \in Nat
      BY <2>1, AppendIs DEF CallRight
    <2>3. k.decided # <<>>
      <3>1. DOMAIN <<>> = {}
        OBVIOUS
      <3> QED
        BY <3>1
    <2>4. k.asked.ok /\ Len(k.decided) <= Len(k.asked.v) /\ IsAsked(k.asked.v)
      BY <2>1, <2>3 DEF CallRight, GivesAsked
    <2>5. GivesWithin(k.asked.v[i], Limits)
      BY <2>2, <2>4 DEF IsAsked
    <2> PICK r : r = k.asked.v[i].v
      OBVIOUS
    <2>6. IsRequest(r) /\ \A l \in LimitNames : r.limits[l] <= Limits[l]
      BY <2>5 DEF GivesWithin, Request
    <2>7. Request(c, i).v = r
      BY DEF Request
    <2> QED
      BY <2>6, <2>7, WithinIsLegal
  <1> QED
    BY <1>1, CallsStayRight, PTL

\* No decision fails for its own report: whatever the request, the answers and
\* the evidence, an escalation leaves the engine with a valid report that fits
\* its budget, or with one in which nothing is left to cut.
\* (EscalationReport::new, fit_to and with_escalation.)
THEOREM EscalationsFit == Spec => []EscalationFits
  <1>1. CallsRight => EscalationFits
    BY DEF CallsRight, CallRight, EscalationFits, Sound, Clean, IsMinimal
  <1> QED
    BY <1>1, CallsStayRight, PTL

-----------------------------------------------------------------------------
(* Clients that stay are answered, and in full.                            *)

\* Only calls that want a decision are worked on, only feedback waits for the
\* evidence file, and a call that ended has its reply unless its client left.
AnsweredRight(c) ==
    /\ calls[c].stage = "working" => Job(c).op \notin Immediate \cup {"feedback"}
    /\ calls[c].stage \in {"waiting", "writing", "ending"} => Job(c).op = "feedback"
    /\ calls[c].stage = "ended" /\ calls[c].connected => \E reply \in calls[c].reply : InFull(c, reply)
AnswersRight == \A c \in Callers : AnsweredRight(c)

LEMMA OneAnswerMoves ==
  ASSUME AnswersRight, NEW c \in Callers, OthersWait(c), AnsweredRight(c)'
  PROVE  AnswersRight'
  <1> SUFFICES ASSUME NEW d \in Callers PROVE AnsweredRight(d)'
    BY DEF AnswersRight
  <1>1. CASE d # c
    <2>1. calls'[d] = calls[d]
      BY <1>1 DEF OthersWait
    <2> QED
      BY <2>1 DEF AnswersRight, AnsweredRight, InFull, Complete, Count, Job
  <1> QED
    BY <1>1

\* Failures carry no document, successes one.
LEMMA FailuresCarryNothing ==
  ASSUME NEW job, job.surface \in Surfaces \ {"none"}, NEW code
  PROVE  /\ "v" \notin DOMAIN Refusal(job, code)
         /\ "v" \notin DOMAIN EngineRefusal(job, code)
         /\ "v" \notin DOMAIN Panicked(job)
  <1>1. \A status, k : "v" \notin DOMAIN Failure(status, k)
    BY DEF Failure
  <1> QED
    BY <1>1 DEF Refusal, EngineRefusal, Panicked, HttpFailure, CliFailure, BodyTooLarge, Surfaces

LEMMA SuccessesCarry ==
  ASSUME NEW document
  PROVE  /\ \A status : "v" \in DOMAIN Success(status, document) /\ Success(status, document).v = document
         /\ \A outcome, lenient : "v" \in DOMAIN CliFinish(document, outcome, lenient)
  BY DEF Success, CliFinish

\* What comes of a call that was decided to its end.
LEMMA AnsweredIs ==
  ASSUME NEW job, job.surface \in Surfaces \ {"none"}, NEW decided, NEW engine
  PROVE  /\ job.op = "batch" => /\ "v" \in DOMAIN Answered(job, decided, engine)
                                /\ DOMAIN Answered(job, decided, engine).v.results = DOMAIN decided
         /\ job.op # "batch" => ("v" \in DOMAIN Answered(job, decided, engine) <=> decided[1].ok)
  <1>1. DOMAIN BatchOf(job, decided).results = DOMAIN decided
    <2> PICK R : R = [i \in DOMAIN decided |-> Encoded(job, decided[i])]
      OBVIOUS
    <2>1. \E a, b : BatchOf(job, decided) \in
            {[results |-> R, accepted |-> a, refused |-> b], [results |-> R, count |-> b]}
      BY DEF BatchOf
    <2>2. BatchOf(job, decided).results = R
      BY ONLY <2>1
    <2> QED
      BY <2>2
  <1>2. CASE job.op = "batch"
    BY <1>1, <1>2, SuccessesCarry DEF Answered
  <1>3. CASE job.op # "batch" /\ ~decided[1].ok
    BY <1>3, FailuresCarryNothing DEF Answered
  <1>4. CASE job.op # "batch" /\ decided[1].ok
    BY <1>4, SuccessesCarry DEF Answered
  <1> QED
    BY <1>2, <1>3, <1>4

\* A reply in full ends its call well.
LEMMA RepliesInFull ==
  ASSUME SurfacesShape, AnswersRight, NEW c \in Callers, NEW r, Reply(c, r), InFull(c, r)
  PROVE  AnswersRight'
  <1>1. /\ OthersWait(c) /\ calls'[c].job = calls[c].job /\ calls'[c].stage = "ended" /\ calls'[c].reply = {r}
        /\ calls'[c].asked = calls[c].asked /\ calls'[c].decided = calls[c].decided
    BY ReplyIs, ReplyLeaves DEF SameJob
  <1>2. InFull(c, r)'
    BY <1>1 DEF InFull, Complete, Count, Job
  <1>3. AnsweredRight(c)'
    BY <1>1, <1>2 DEF AnsweredRight
  <1> QED
    BY <1>1, <1>3, OneAnswerMoves

\* A call on its way to its reply.
LEMMA StagesOnTheWay ==
  ASSUME SurfacesShape, AnswersRight, NEW c \in Callers, NEW s, Stage(c, s),
         s = "working" => Job(c).op \notin Immediate \cup {"feedback"},
         s \in {"waiting", "writing", "ending"} => Job(c).op = "feedback",
         s = "ended" => ~calls[c].connected
  PROVE  AnswersRight'
  <1>1. /\ OthersWait(c) /\ calls'[c].job = calls[c].job /\ calls'[c].stage = s
        /\ calls'[c].connected = calls[c].connected
    BY StageIs DEF SameJob
  <1>2. AnsweredRight(c)'
    BY <1>1 DEF AnsweredRight, Job
  <1> QED
    BY <1>1, <1>2, OneAnswerMoves

LEMMA BeginAnswers ==
  ASSUME SurfacesShape, AnswersRight, NEW c \in Callers, Begin(c)
  PROVE  AnswersRight'
  <1>1. PICK e, q : calls' = [calls EXCEPT ![c].stage = "arrived", ![c].engine = e, ![c].asked = q]
    BY DEF Begin
  <1>2. OthersWait(c) /\ calls'[c].stage = "arrived"
    BY <1>1 DEF SurfacesShape, IsCall, OthersWait
  <1>3. AnsweredRight(c)'
    BY <1>2 DEF AnsweredRight
  <1> QED
    BY <1>2, <1>3, OneAnswerMoves

LEMMA HandleAnswers ==
  ASSUME SurfacesShape, AnswersRight, NEW c \in Callers, Handle(c)
  PROVE  AnswersRight'
  <1>1. Job(c).surface \in Surfaces \ {"none"}
    BY DEF Handle, SurfacesShape
  <1>2. CASE Job(c).op = "feedback" /\ Reply(c, HttpFailure("FeedbackDisabled", ""))
    BY <1>2, RepliesInFull DEF InFull
  <1>3. CASE ~calls[c].asked.ok /\ Reply(c, Refusal(Job(c), calls[c].asked.code))
    <2>1. InFull(c, Refusal(Job(c), calls[c].asked.code))
      BY <1>1, <1>3, FailuresCarryNothing DEF InFull, Complete
    <2> QED
      BY <1>3, <2>1, RepliesInFull
  <1>4. CASE /\ calls[c].asked.ok /\ Job(c).op \in Immediate
             /\ Reply(c, Success(200, ImmediateDocument(Job(c), calls[c].asked.v, calls[c].engine.v)))
    <2> PICK d : d = ImmediateDocument(Job(c), calls[c].asked.v, calls[c].engine.v)
      OBVIOUS
    <2>1. "batch" \notin Immediate
      BY DEF Immediate
    <2>2. InFull(c, Success(200, d))
      BY <1>4, <2>1, SuccessesCarry DEF InFull, Complete
    <2> QED
      BY <1>4, <2>2, RepliesInFull
  <1>5. CASE Job(c).op = "feedback" /\ Stage(c, "waiting")
    BY <1>5, StagesOnTheWay
  <1>6. CASE Job(c).op \notin Immediate \cup {"feedback"} /\ Stage(c, "working")
    BY <1>6, StagesOnTheWay
  <1> QED
    BY <1>2, <1>3, <1>4, <1>5, <1>6 DEF Handle

LEMMA WorkAnswers ==
  ASSUME SurfacesShape, CallsRight, AnswersRight, NEW c \in Callers, Work(c)
  PROVE  AnswersRight'
  <1>1. PICK r : calls' = [calls EXCEPT ![c].decided = Append(@, r)]
    BY WorkTakes DEF CallsRight
  <1>2. /\ OthersWait(c) /\ calls'[c].stage = calls[c].stage /\ calls'[c].job = calls[c].job
    BY <1>1 DEF SurfacesShape, IsCall, OthersWait
  <1>3. calls[c].stage = "working"
    BY DEF Work
  <1>4. AnsweredRight(c)'
    BY <1>2, <1>3 DEF AnswersRight, AnsweredRight, Job
  <1> QED
    BY <1>2, <1>4, OneAnswerMoves

LEMMA DecidedAnswers ==
  ASSUME SurfacesShape, CallsRight, AnswersRight, NEW c \in Callers, Finish(c) \/ Panic(c)
  PROVE  AnswersRight'
  <1>1. /\ Job(c).surface \in Surfaces \ {"none"} /\ Job(c).op \notin Immediate \cup {"feedback"}
        /\ calls[c].stage = "working"
    BY DEF Finish, Panic, SurfacesShape, AnswersRight, AnsweredRight
  <1>2. CallRight(calls[c])
    BY DEF CallsRight
  <1>3. calls[c].asked.ok /\ Count(c) \in Nat
    BY <1>1, <1>2 DEF CallRight, GivesAsked, IsAsked, Count
  <1>4. Len(calls[c].decided) \in Nat /\ DOMAIN calls[c].decided = 1 .. Len(calls[c].decided)
    BY <1>2, AppendIs DEF CallRight
  <1>5. CASE Finish(c)
    <2> PICK r : r = Answered(Job(c), calls[c].decided, calls[c].engine)
      OBVIOUS
    <2>1. Len(calls[c].decided) = Count(c) /\ Reply(c, r)
      BY <1>5 DEF Finish
    <2>2. Complete(c) <=> (Job(c).op # "batch" => calls[c].decided[1].ok)
      BY <1>1, <1>3, <2>1 DEF Complete
    <2>3. "v" \in DOMAIN r <=> Complete(c)
      BY <1>1, <2>2, AnsweredIs
    <2>4. Job(c).op = "batch" => DOMAIN r.v.results = 1 .. Count(c)
      BY <1>1, <1>4, <2>1, AnsweredIs
    <2>5. InFull(c, r)
      BY <2>3, <2>4 DEF InFull
    <2> QED
      BY <2>1, <2>5, RepliesInFull
  <1>6. CASE Panic(c)
    <2>1. Len(calls[c].decided) < Count(c) /\ Reply(c, Panicked(Job(c)))
      BY <1>6 DEF Panic
    <2>2. ~Complete(c)
      BY <1>1, <1>3, <1>4, <2>1 DEF Complete
    <2>3. InFull(c, Panicked(Job(c)))
      BY <1>1, <2>2, FailuresCarryNothing DEF InFull
    <2> QED
      BY <2>1, <2>3, RepliesInFull
  <1> QED
    BY <1>5, <1>6

LEMMA WritersAnswer ==
  ASSUME SurfacesShape, AnswersRight, NEW c \in Callers,
         TakeSink(c) \/ WriteRow(c) \/ WriteNewline(c) \/ WriteFails(c)
  PROVE  AnswersRight'
  <1>1. Job(c).op = "feedback"
    BY DEF TakeSink, WriteRow, WriteNewline, WriteFails, AnswersRight, AnsweredRight
  <1>2. CASE TakeSink(c) \/ WriteRow(c)
    <2>1. Stage(c, "writing") \/ Stage(c, "ending")
      BY <1>2 DEF TakeSink, WriteRow
    <2> QED
      BY <1>1, <2>1, StagesOnTheWay
  <1>3. CASE WriteNewline(c) \/ WriteFails(c)
    <2>1. \E r : Reply(c, r)
      BY <1>3 DEF WriteNewline, WriteFails
    <2> QED
      BY <1>1, <2>1, RepliesInFull DEF InFull
  <1> QED
    BY <1>2, <1>3

\* Whoever leaves, and whatever the runtime drops, is nobody who waits.
LEMMA LeavingAnswers ==
  ASSUME SurfacesShape, NobodyHeld, AnswersRight, NEW c \in Callers, Disconnect(c) \/ Abandon(c)
  PROVE  AnswersRight'
  <1>1. CASE Disconnect(c)
    <2>1. calls' = [calls EXCEPT ![c].connected = FALSE, ![c].stage = IF @ = "arrived" THEN "ended" ELSE @]
      BY <1>1 DEF Disconnect
    <2>2. /\ OthersWait(c) /\ calls'[c].job = calls[c].job /\ ~calls'[c].connected
          /\ calls'[c].stage \in {"ended", calls[c].stage}
      BY <2>1 DEF SurfacesShape, IsCall, OthersWait
    <2>3. AnsweredRight(c)'
      BY <2>2 DEF AnswersRight, AnsweredRight, Job
    <2> QED
      BY <2>2, <2>3, OneAnswerMoves
  <1>2. CASE Abandon(c)
    <2>1. Stage(c, "ended") /\ ~calls[c].connected
      BY <1>2 DEF Abandon, NobodyHeld, Held
    <2> QED
      BY <2>1, StagesOnTheWay
  <1> QED
    BY <1>1, <1>2

LEMMA AnswersRightInit == Init => AnswersRight
  <1> SUFFICES ASSUME Init, NEW c \in Callers PROVE AnsweredRight(c)
    BY DEF AnswersRight
  <1>1. PICK crowd \in Crowds : calls = [d \in Callers |-> CallOf(JobTable[crowd[d]])]
    BY DEF Init
  <1>2. calls[c].stage = "idle"
    BY <1>1 DEF CallOf
  <1> QED
    BY <1>2 DEF AnsweredRight

LEMMA AnswersRightStep ==
  SurfacesShape /\ NobodyHeld /\ CallsRight /\ AnswersRight /\ [Next]_vars => AnswersRight'
  <1> SUFFICES ASSUME SurfacesShape, NobodyHeld, CallsRight, AnswersRight, [Next]_vars PROVE AnswersRight'
    OBVIOUS
  <1>1. CASE UNCHANGED calls
    BY <1>1 DEF AnswersRight, AnsweredRight, InFull, Complete, Count, Job
  <1>2. ASSUME NEW c \in Callers, Begin(c) PROVE AnswersRight'
    BY <1>2, BeginAnswers
  <1>3. ASSUME NEW c \in Callers, Step(c) PROVE AnswersRight'
    BY <1>3, HandleAnswers, WorkAnswers, DecidedAnswers, WritersAnswer DEF Step
  <1>4. ASSUME NEW c \in Callers, Panic(c) \/ WriteFails(c) \/ Disconnect(c) \/ Abandon(c) PROVE AnswersRight'
    BY <1>4, DecidedAnswers, WritersAnswer, LeavingAnswers
  <1>5. CASE Start \/ ShutdownSignal \/ Stop
    BY <1>1, <1>5 DEF Start, ShutdownSignal, Stop
  <1>6. CASE UNCHANGED vars
    BY <1>1, <1>6 DEF vars
  <1> QED
    BY <1>2, <1>3, <1>4, <1>5, <1>6 DEF Next

\* Whoever calls, on whatever surface, and stays is told all there is to tell:
\* the reply comes when the call ends and at the latest when the server has
\* stopped, a panic, a failed write and a runtime that drops its tasks
\* notwithstanding; it carries a document exactly when the whole call was
\* decided, and a batch an item for every item.  (The handlers of routes.rs,
\* serve_with_shutdown, the panic guard of the C ABI.)
THEOREM StayingIsAnsweredInFull == Spec => []ClientsAreAnsweredInFull
  <1>1. SurfacesInv => SurfacesShape /\ NobodyHeld
    BY DEF SurfacesInv
  <1>2. Spec => []AnswersRight
    BY <1>1, SurfacesInvariant, CallsStayRight, AnswersRightInit, AnswersRightStep, PTL DEF Spec
  <1>3. NobodyHeld /\ AnswersRight => ClientsAreAnsweredInFull
    BY DEF NobodyHeld, Held, AnswersRight, AnsweredRight, ClientsAreAnsweredInFull
  <1> QED
    BY <1>1, <1>2, <1>3, SurfacesInvariant, PTL

=============================================================================
