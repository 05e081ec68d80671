------------------------------ MODULE ObjectWrite ------------------------------
(***************************************************************************)
(* Writing one object of a disk (packages/disk/src/disk.ts): putObject,     *)
(* which uploads a large body in parts, appendObject, the multipart         *)
(* requests and the retry loop of _s3Request they all go through.           *)
(*                                                                         *)
(* The S3 gateway is not in the repository; it is S3 as the client uses it. *)
(* A request the client gave up on may still be executed later, in any      *)
(* order: the connection failed, not the gateway.                           *)
(***************************************************************************)
EXTENDS Naturals, Sequences, FiniteSets

CONSTANTS
  Writers,      \* each makes one call
  Sizes,        \* the body sizes of each
  Requested,    \* the partSize option
  Threshold,    \* the multipartThreshold option, Requested unless given
  MinPart,      \* MIN_PART_SIZE
  MaxParts,     \* MAX_PARTS_PER_UPLOAD
  Unit,         \* the MiB part sizes are rounded up to
  Concurrency,  \* the concurrency option
  MaxRetries    \* MAX_RETRIES of retry.ts

ASSUME SizesAssumption ==
  /\ Sizes \in [Writers -> SUBSET Nat] /\ Requested \in Nat /\ Threshold \in Nat /\ MinPart \in Nat \ {0}
  /\ MaxParts \in Nat \ {0} /\ Unit \in Nat \ {0}
ASSUME WritersAssumption == "nobody" \notin Writers
ASSUME BoundsAssumption == Concurrency \in Nat /\ MaxRetries \in Nat

VARIABLES
  object,   \* gateway: what the object holds, as a sequence of bodies
  uploads,  \* gateway: the uploads in progress
  staged,   \* gateway: the parts of each that are stored
  written,  \* history: the writers whose body the object has held
  work,     \* what each writer writes: "put" or "append", and how many bytes
  stage,    \* where its call is
  req,      \* its current request, other than a part: "sent", or answered
  tries,    \* failed attempts of that request
  upload,   \* the upload create() returned
  next,     \* the next part a worker takes
  part,     \* each part: not taken, its request, or how it ended
  ptries,   \* failed attempts of each part's request
  late,     \* requests the client gave up on that may still be executed
  error     \* why the call rejects

gateway  == <<object, uploads, staged, written>>
workers  == <<next, part, ptries>>
call     == <<work, stage, req, tries, upload, error>>
vars     == <<gateway, workers, call, late>>

-----------------------------------------------------------------------------
(* Sizes. *)

Larger(a, b)  == IF a > b THEN a ELSE b
Smaller(a, b) == IF a < b THEN a ELSE b
CeilDiv(a, b) == (a + b - 1) \div b

PartSize == Larger(Requested, MinPart)

\* effectiveUploadPartSize
EffectivePartSize(total) ==
  IF CeilDiv(total, PartSize) <= MaxParts THEN PartSize
  ELSE CeilDiv(CeilDiv(total, MaxParts), Unit) * Unit

PartCount_RoundedDown(total) == total \div EffectivePartSize(total)

PartCount(total) == CeilDiv(total, EffectivePartSize(total))

AllSizes == UNION {Sizes[w] : w \in Writers}
PartNumbers == UNION {1..CeilDiv(size, MinPart) : size \in AllSizes}

\* The bytes of a body, by their place in it, and those of part p: the slice the
\* worker takes.
Body(total) == 0..(total - 1)
Slice(total, p) ==
  {b \in Body(total) : (p - 1) * EffectivePartSize(total) <= b /\ b < p * EffectivePartSize(total)}

Count(w) == PartCount(work[w].size)
PartsOf(w) == 1..Count(w)

-----------------------------------------------------------------------------
NoUpload == [by |-> "nobody", n |-> 0]
NoWork   == [how |-> "none", size |-> 0]

Stages  == {"idle", "put", "append", "create", "parts", "complete", "abort", "done", "failed"}
Settled == {"done", "failed"}

Uploads  == [by : Writers, n : 0..MaxRetries]
Bodies   == [by : Writers, bytes : SUBSET Nat]
Requests == [kind : {"put", "append", "create", "complete", "abort", "part"},
             by : Writers, upload : Uploads \cup {NoUpload}, part : Nat]

TypeOK ==
  /\ object \in Seq(Bodies)
  /\ uploads \subseteq Uploads
  /\ staged \subseteq Uploads \X Nat
  /\ written \subseteq Writers
  /\ work \in [Writers -> [how : {"put", "append"}, size : AllSizes] \cup {NoWork}]
  /\ stage \in [Writers -> Stages]
  /\ req \in [Writers -> {"none", "sent", "ok", "gone"}]
  /\ tries \in [Writers -> 0..MaxRetries]
  /\ upload \in [Writers -> Uploads \cup {NoUpload}]
  /\ next \in [Writers -> Nat]
  /\ part \in [Writers -> [PartNumbers -> {"todo", "sent", "ok", "gone", "stored", "failed"}]]
  /\ ptries \in [Writers -> [PartNumbers -> 0..MaxRetries]]
  /\ late \subseteq Requests
  /\ error \in [Writers -> {"none", "network", "NoSuchUpload"}]

Init ==
  /\ object = <<>> /\ uploads = {} /\ staged = {} /\ written = {} /\ late = {}
  /\ work = [w \in Writers |-> NoWork]
  /\ stage = [w \in Writers |-> "idle"]
  /\ req = [w \in Writers |-> "none"]
  /\ tries = [w \in Writers |-> 0]
  /\ upload = [w \in Writers |-> NoUpload]
  /\ next = [w \in Writers |-> 1]
  /\ part = [w \in Writers |-> [p \in PartNumbers |-> "todo"]]
  /\ ptries = [w \in Writers |-> [p \in PartNumbers |-> 0]]
  /\ error = [w \in Writers |-> "none"]

-----------------------------------------------------------------------------
(* The gateway. *)

\* The upload an attempt of create() makes is named by the attempt.
Named(m) == IF m.kind = "create" THEN [by |-> m.by, n |-> m.part] ELSE m.upload

StagedParts(u) == {s[2] : s \in {t \in staged : t[1] = u}}
BodyOf(w) == [by |-> w, bytes |-> Body(work[w].size)]

\* The body an upload is assembled to: its parts, laid end to end.
Assembled(u) == [by |-> u.by, bytes |-> UNION {Slice(work[u.by].size, p) : p \in StagedParts(u)}]

\* The gateway finds the upload a request is about.
Finds(m) == m.kind \in {"complete", "part"} => m.upload \in uploads

Execute(m) ==
  CASE m.kind = "put" ->
         /\ object' = <<BodyOf(m.by)>> /\ written' = written \cup {m.by}
         /\ UNCHANGED <<uploads, staged>>
    [] m.kind = "append" ->
         /\ object' = Append(object, BodyOf(m.by)) /\ written' = written \cup {m.by}
         /\ UNCHANGED <<uploads, staged>>
    [] m.kind = "create" ->
         /\ uploads' = uploads \cup {Named(m)}
         /\ UNCHANGED <<object, staged, written>>
    [] m.kind = "part" /\ Finds(m) ->
         /\ staged' = staged \cup {<<m.upload, m.part>>}
         /\ UNCHANGED <<object, uploads, written>>
    [] m.kind = "complete" /\ Finds(m) ->
         /\ object' = <<Assembled(m.upload)>> /\ written' = written \cup {m.by}
         /\ uploads' = uploads \ {m.upload} /\ staged' = {s \in staged : s[1] # m.upload}
    [] m.kind = "abort" ->
         /\ uploads' = uploads \ {m.upload} /\ staged' = {s \in staged : s[1] # m.upload}
         /\ UNCHANGED <<object, written>>
    [] OTHER -> UNCHANGED gateway

\* The request a writer has outstanding, and that of its part p.
Message(w) == [kind |-> stage[w], by |-> w, upload |-> upload[w],
               part |-> IF stage[w] = "create" THEN tries[w] ELSE 0]
PartMessage(w, p) == [kind |-> "part", by |-> w, upload |-> upload[w], part |-> p]

Serve(w) ==
  /\ req[w] = "sent"
  /\ Execute(Message(w))
  /\ req' = [req EXCEPT ![w] = IF Finds(Message(w)) THEN "ok" ELSE "gone"]
  /\ UNCHANGED <<workers, work, stage, tries, upload, error, late>>

ServePart(w, p) ==
  /\ part[w][p] = "sent"
  /\ Execute(PartMessage(w, p))
  /\ part' = [part EXCEPT ![w][p] = IF Finds(PartMessage(w, p)) THEN "ok" ELSE "gone"]
  /\ UNCHANGED <<next, ptries, call, late>>

ServeLate(m) ==
  /\ m \in late
  /\ Execute(m)
  /\ late' = late \ {m}
  /\ UNCHANGED <<workers, call>>

-----------------------------------------------------------------------------
(* The calls. *)

\* The call goes to stage s, which sends its request unless it has none.
GoTo(w, s) ==
  /\ stage' = [stage EXCEPT ![w] = s]
  /\ req' = [req EXCEPT ![w] = IF s \in Settled \cup {"parts"} THEN "none" ELSE "sent"]
  /\ tries' = [tries EXCEPT ![w] = 0]

\* putObject and appendObject.
Begin(w, how, size) ==
  /\ stage[w] = "idle" /\ size \in Sizes[w]
  /\ work' = [work EXCEPT ![w] = [how |-> how, size |-> size]]
  /\ GoTo(w, IF how = "append" THEN "append" ELSE IF size <= Threshold THEN "put" ELSE "create")
  /\ UNCHANGED <<gateway, workers, upload, error, late>>

AfterFailure_NoCleanup(s) == "failed"

AfterFailure_PartSwallowed(s) == IF s = "complete" THEN "abort" ELSE IF s = "parts" THEN s ELSE "failed"

\* The catch of _putMultipart aborts; the failure of the abort is dropped.
AfterFailure(s) == IF s \in {"parts", "complete"} THEN "abort" ELSE "failed"

AfterReply(s) ==
  CASE s = "create" -> "parts" [] s = "abort" -> "failed" [] OTHER -> "done"

\* The first error is the one that is thrown.
Throw(w, e) == error' = [error EXCEPT ![w] = IF @ = "none" THEN e ELSE @]

\* A reply is "ok", or says that the upload complete() is about does not exist.
Reply(w) ==
  /\ req[w] \in {"ok", "gone"}
  /\ GoTo(w, IF req[w] = "ok" THEN AfterReply(stage[w]) ELSE AfterFailure(stage[w]))
  /\ upload' = IF stage[w] = "create" THEN [upload EXCEPT ![w] = [by |-> w, n |-> tries[w]]]
               ELSE upload
  /\ IF req[w] = "gone" THEN Throw(w, "NoSuchUpload") ELSE UNCHANGED error
  /\ UNCHANGED <<gateway, workers, work, late>>

Retried_CompleteToo(kind) == kind # "append"

\* The requests not passed retry: false.
Retried(kind) == kind \notin {"append", "complete"}

\* A reply to a POST has a body, read after the loop has accepted its status.
HasBody(kind) == kind \in {"create", "complete"}

MayRetry_OffByOne(kind, n) == Retried(kind) /\ n <= MaxRetries

MayRetry(kind, n) == Retried(kind) /\ n < MaxRetries

\* The connection fails, or the gateway answers with a transient status; or
\* the body of an accepted reply is cut off, which is not retried.
Fails(w) ==
  /\ req[w] \in {"sent", "ok"}
  /\ late' = IF req[w] = "sent" THEN late \cup {Message(w)} ELSE late
  /\ \/ /\ MayRetry(stage[w], tries[w])
        /\ tries' = [tries EXCEPT ![w] = @ + 1]
        /\ req' = [req EXCEPT ![w] = "sent"]
        /\ UNCHANGED <<stage, error>>
     \/ /\ ~MayRetry(stage[w], tries[w]) \/ (req[w] = "ok" /\ HasBody(stage[w]))
        /\ GoTo(w, AfterFailure(stage[w]))
        /\ Throw(w, "network")
  /\ UNCHANGED <<gateway, workers, work, upload>>

-----------------------------------------------------------------------------
(* The workers of _putMultipart.  A worker that fails takes no more parts;  *)
(* the others go on, even once the call has aborted the upload.             *)

In(w, states) == {p \in PartsOf(w) : part[w][p] \in states}
Busy(w) == In(w, {"sent", "ok", "gone", "failed"})
Slots(w) == Smaller(Larger(1, Concurrency), Count(w))

TakePart(w) ==
  /\ upload[w] # NoUpload /\ next[w] <= Count(w)
  /\ Cardinality(Busy(w)) < Slots(w)
  /\ part' = [part EXCEPT ![w][next[w]] = "sent"]
  /\ next' = [next EXCEPT ![w] = @ + 1]
  /\ UNCHANGED <<gateway, ptries, call, late>>

PartStored(w, p) ==
  /\ part[w][p] = "ok"
  /\ part' = [part EXCEPT ![w][p] = "stored"]
  /\ UNCHANGED <<gateway, next, ptries, call, late>>

\* Promise.all rejects with the first failure; the later ones are ignored.
PartRejects(w, p, e) ==
  /\ part' = [part EXCEPT ![w][p] = "failed"]
  /\ IF stage[w] = "parts"
     THEN GoTo(w, AfterFailure("parts")) /\ Throw(w, e)
     ELSE UNCHANGED <<stage, req, tries, error>>

PartGone(w, p) ==
  /\ part[w][p] = "gone"
  /\ PartRejects(w, p, "NoSuchUpload")
  /\ UNCHANGED <<gateway, next, ptries, work, upload, late>>

PartFails(w, p) ==
  /\ part[w][p] \in {"sent", "ok"}
  /\ late' = IF part[w][p] = "sent" THEN late \cup {PartMessage(w, p)} ELSE late
  /\ \/ /\ MayRetry("part", ptries[w][p])
        /\ ptries' = [ptries EXCEPT ![w][p] = @ + 1]
        /\ part' = [part EXCEPT ![w][p] = "sent"]
        /\ UNCHANGED <<stage, req, tries, error>>
     \/ /\ ~MayRetry("part", ptries[w][p])
        /\ PartRejects(w, p, "network")
        /\ UNCHANGED ptries
  /\ UNCHANGED <<gateway, next, work, upload>>

\* Promise.all: every worker has found no part left to take.
AllReturned(w) == next[w] > Count(w) /\ Busy(w) = {}

Complete(w) ==
  /\ stage[w] = "parts" /\ AllReturned(w)
  /\ GoTo(w, "complete")
  /\ UNCHANGED <<gateway, workers, work, upload, error, late>>

-----------------------------------------------------------------------------
ClientStep(w) ==
  \/ Reply(w) \/ Complete(w) \/ TakePart(w)
  \/ \E p \in PartNumbers : PartStored(w, p) \/ PartGone(w, p)

Served(w) == Serve(w) \/ \E p \in PartNumbers : ServePart(w, p)

Failure(w) == Fails(w) \/ \E p \in PartNumbers : PartFails(w, p)

Next ==
  \/ \E w \in Writers :
       \/ \E how \in {"put", "append"}, size \in Sizes[w] : Begin(w, how, size)
       \/ ClientStep(w)
       \/ Served(w)
       \/ Failure(w)
  \/ \E m \in late : ServeLate(m)

Spec == Init /\ [][Next]_vars

-----------------------------------------------------------------------------
(* Safety. *)

\* Readers of the object never see part of a body: whatever is published is
\* all of what its writer passed.
WholeBodies == \A i \in 1..Len(object) : object[i].bytes = Body(work[object[i].by].size)

\* complete() is asked for with every part stored, no more parts than the
\* gateway takes, none but the last below its minimum and none with a byte of
\* another.
CompleteIsAcceptable ==
  \A w \in Writers :
    stage[w] = "complete" /\ upload[w] \in uploads =>
      /\ StagedParts(upload[w]) = PartsOf(w)
      /\ Count(w) <= MaxParts
      /\ \A p \in 1..(Count(w) - 1) : Cardinality(Slice(work[w].size, p)) >= MinPart
      /\ \A p, q \in PartsOf(w) : p # q => Slice(work[w].size, p) \cap Slice(work[w].size, q) = {}

\* A writer that is told its upload does not exist has not published it: the
\* completion that succeeded is never asked for again.
NoSpuriousNoSuchUpload ==
  \A w \in Writers : error[w] = "NoSuchUpload" => w \notin written

\* The bytes of one append are in the object at most once.
AppendedOnce ==
  \A w \in Writers : work[w].how = "append" =>
    Cardinality({i \in 1..Len(object) : object[i].by = w}) <= 1

\* What readers of the object get is made of whole bodies, an appended one at
\* most once (_putMultipart, and the retries appendObject opts out of).
BodiesAreExact == WholeBodies /\ AppendedOnce

\* A completion is only asked for when the gateway can grant it, and once it is
\* granted it is not asked for again (_putMultipart and DiskMultipart.complete).
CompletionsSucceed == CompleteIsAcceptable /\ NoSpuriousNoSuchUpload

\* What a settled call leaves at the gateway: nothing of the upload it knows,
\* unless the abort or its reply was lost.
KnownUploadIsGone ==
  \A w \in Writers :
    stage[w] \in Settled /\ upload[w] \in uploads =>
      stage[w] = "failed" /\ \E m \in late : m.kind = "abort" /\ m.by = w

\* What the comment on the retry loop says, that the requests which are not
\* idempotent opt out of it: one call starts one upload.
OneUploadPerCall ==
  \A w \in Writers : Cardinality({u \in uploads : u.by = w}) <= 1

-----------------------------------------------------------------------------
(* Liveness: the gateway answers and the client goes on. *)

Fairness == \A w \in Writers : WF_vars(ClientStep(w)) /\ WF_vars(Served(w))
FairSpec == Spec /\ Fairness

\* Every write settles.
EveryWriteSettles == \A w \in Writers : stage[w] # "idle" ~> stage[w] \in Settled
=============================================================================
