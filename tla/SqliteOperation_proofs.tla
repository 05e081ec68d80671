-------------------------- MODULE SqliteOperation_proofs --------------------------
(***************************************************************************)
(* SqlTypeOK, OperationRunsOnce and TransactionsAreWhole of                *)
(* SqliteOperation, for any operations, transactions and callers.          *)
(*                                                                         *)
(* OperationRunsOnce is not inductive: that two jobs never share an        *)
(* operation depends on every operation of a job having a promise, which   *)
(* is what the next caller looks at, and on a call having no job before it *)
(* is made.  TransactionsAreWhole rests on a job that committed being over *)
(* without a database error, and on a job that says ok having committed    *)
(* what it writes before its answer resolves an operation.                 *)
(***************************************************************************)
EXTENDS SqliteOperation, TLAPS

Promises == {"none", "pending", "ok", "failed"}
SqlAnswers == {"none", "waiting", "refused", "ok", "failed"}

CallsTyped ==
  /\ promise \in [Ops -> Promises]
  /\ asked \in [SqlCalls -> SqlRequests \cup {NoRequest}]
  /\ answer \in [SqlCalls -> SqlAnswers]
  /\ job \in [SqlCalls -> JobStates]
JobsAreClaimed == \A c \in SqlCalls : \A o \in JobOps(c) : promise[o] # "none"
AskedFirst == \A c \in SqlCalls : answer[c] = "none" => job[c] = "none"

SqlInv == CallsTyped /\ JobsAreClaimed /\ AskedFirst /\ OperationRunsOnce

\* What a request names are operations.
LEMMA RequestsNameOperations ==
  ASSUME NEW r \in SqlRequests
  PROVE  r.ops \in Seq(Ops) /\ ToSet(r.ops) \subseteq Ops
PROOF
<1>1. r.ops \in Seq(Ops)
  <2>1. CASE r = Create
    BY <2>1 DEF Create
  <2>2. ASSUME NEW o \in Ops, r = Await(o) PROVE r.ops \in Seq(Ops)
    BY <2>2 DEF Await
  <2>3. ASSUME NEW s \in Batches, r = Batch(s) PROVE r.ops \in Seq(Ops)
    <3>1. r.ops = s
      BY <2>3 DEF Batch
    <3> QED  BY <3>1, SqlAssumption
  <2> QED  BY <2>1, <2>2, <2>3 DEF SqlRequests
<1> QED  BY <1>1 DEF ToSet

LEMMA InitSqlInv == SqlInit => SqlInv
BY DEF SqlInit, SqlInv, CallsTyped, JobsAreClaimed, AskedFirst, OperationRunsOnce, JobOps, Promises, SqlAnswers, JobStates

\* A step that starts no job and takes no promise back.
LEMMA NoJobSqlInv ==
  ASSUME SqlInv, CallsTyped', AskedFirst',
         \A c \in SqlCalls : job'[c] # "none" => job[c] # "none" /\ asked'[c] = asked[c],
         \A o \in Ops : promise[o] # "none" => promise'[o] # "none"
  PROVE  SqlInv'
PROOF
<1> USE DEF SqlInv
<1>1. \A c \in SqlCalls : JobOps(c)' \subseteq JobOps(c)
  BY DEF JobOps, Items
<1>2. \A c \in SqlCalls : job[c] # "none" => ToSet(Items(c)) \subseteq Ops
  BY RequestsNameOperations DEF CallsTyped, Items, NoRequest, ToSet
<1>3. \A c \in SqlCalls : JobOps(c) \subseteq Ops
  BY <1>2 DEF JobOps
<1>4. JobsAreClaimed'
  BY <1>1, <1>3 DEF JobsAreClaimed
<1>5. OperationRunsOnce'
  BY <1>1 DEF OperationRunsOnce, Items
<1> QED  BY <1>4, <1>5

\* A call that sends a job claims operations that had no promise, each once.
LEMMA NewJobSqlInv ==
  ASSUME SqlInv, NEW c \in SqlCalls, NEW r \in SqlRequests,
         answer[c] = "none", CallsTyped',
         asked' = [asked EXCEPT ![c] = r],
         job' = [job EXCEPT ![c] = "queued"],
         answer' = [answer EXCEPT ![c] = "waiting"],
         \A o \in ToSet(r.ops) : promise[o] = "none",
         IsInjective(r.ops),
         \A o \in Ops : promise'[o] = IF o \in ToSet(r.ops) THEN "pending" ELSE promise[o]
  PROVE  SqlInv'
PROOF
<1> USE DEF SqlInv
<1>1. ToSet(r.ops) \subseteq Ops
  BY RequestsNameOperations
<1>2. /\ \A d \in SqlCalls : asked'[d] = IF d = c THEN r ELSE asked[d]
      /\ \A d \in SqlCalls : job'[d] = IF d = c THEN "queued" ELSE job[d]
      /\ \A d \in SqlCalls : answer'[d] = IF d = c THEN "waiting" ELSE answer[d]
  BY DEF CallsTyped
<1>3. JobOps(c)' = ToSet(r.ops)
  BY <1>2 DEF JobOps, Items
<1>4. \A d \in SqlCalls : d # c => JobOps(d)' = JobOps(d)
  BY <1>2 DEF JobOps, Items
<1>5. \A d \in SqlCalls : d # c => JobOps(d) \cap ToSet(r.ops) = {}
  BY DEF JobsAreClaimed
<1>6. \A d \in SqlCalls : JobOps(d) \subseteq Ops
  BY RequestsNameOperations DEF CallsTyped, JobOps, Items, NoRequest, ToSet
<1>7. JobsAreClaimed'
  <2> SUFFICES ASSUME NEW d \in SqlCalls, NEW o \in JobOps(d)' PROVE promise'[o] # "none"
    BY DEF JobsAreClaimed
  <2>1. CASE d = c
    BY <2>1, <1>1, <1>3
  <2>2. CASE d # c
    <3>1. o \in JobOps(d) /\ o \in Ops
      BY <2>2, <1>4, <1>6
    <3> QED  BY <3>1 DEF JobsAreClaimed
  <2> QED  BY <2>1, <2>2
<1>8. AskedFirst'
  BY <1>2 DEF AskedFirst
<1>9. \A d, e \in SqlCalls : d # e => JobOps(d)' \cap JobOps(e)' = {}
  <2> SUFFICES ASSUME NEW d \in SqlCalls, NEW e \in SqlCalls, d # e PROVE JobOps(d)' \cap JobOps(e)' = {}
    OBVIOUS
  <2>1. JobOps(d) \cap JobOps(e) = {}
    BY DEF OperationRunsOnce
  <2> QED  BY <2>1, <1>3, <1>4, <1>5
<1>10. \A d \in SqlCalls : job'[d] # "none" => IsInjective(Items(d)')
  <2> SUFFICES ASSUME NEW d \in SqlCalls, job'[d] # "none" PROVE IsInjective(Items(d)')
    OBVIOUS
  <2>1. CASE d = c
    <3>1. Items(d)' = r.ops
      BY <2>1, <1>2 DEF Items
    <3> QED  BY <3>1
  <2>2. CASE d # c
    <3>1. Items(d)' = Items(d) /\ job[d] # "none"
      BY <2>2, <1>2 DEF Items
    <3> QED  BY <3>1 DEF OperationRunsOnce
  <2> QED  BY <2>1, <2>2
<1>11. OperationRunsOnce'
  BY <1>9, <1>10 DEF OperationRunsOnce
<1> QED  BY <1>7, <1>8, <1>11

LEMMA AskSqlInv ==
  ASSUME SqlInv, NEW c \in SqlCalls, Ask(c)
  PROVE  SqlInv'
PROOF
<1>1. answer[c] = "none" /\ job[c] = "none"
  BY DEF Ask, SqlInv, AskedFirst
<1>2. PICK r \in SqlRequests :
        /\ asked' = [asked EXCEPT ![c] = r]
        /\ CASE r.type = "transaction" -> Transact(c, r.ops)
             [] r.type = "await" -> Execute(c, r.ops[1]) /\ answer' = [answer EXCEPT ![c] = "waiting"]
             [] OTHER -> SendJob(c) /\ answer' = [answer EXCEPT ![c] = "waiting"] /\ UNCHANGED promise
  BY DEF Ask
<1>3. asked' \in [SqlCalls -> SqlRequests \cup {NoRequest}]
  BY <1>2 DEF SqlInv, CallsTyped
<1>4. \A s \in {"waiting", "refused"} : [answer EXCEPT ![c] = s] \in [SqlCalls -> SqlAnswers]
  BY DEF SqlInv, CallsTyped, SqlAnswers
<1>5. [job EXCEPT ![c] = "queued"] \in [SqlCalls -> JobStates]
  BY DEF SqlInv, CallsTyped, JobStates
<1>6. \A ops : [o \in Ops |-> IF o \in ops THEN "pending" ELSE promise[o]] \in [Ops -> Promises]
  BY DEF SqlInv, CallsTyped, Promises
<1>7. ASSUME job' = job, promise' = promise, NEW s \in {"waiting", "refused"}, answer' = [answer EXCEPT ![c] = s]
      PROVE  SqlInv'
  <2>1. CallsTyped'
    BY <1>3, <1>4, <1>7 DEF SqlInv, CallsTyped
  <2>2. AskedFirst'
    BY <1>1, <1>7 DEF SqlInv, AskedFirst, CallsTyped
  <2>3. \A d \in SqlCalls : job'[d] # "none" => job[d] # "none" /\ asked'[d] = asked[d]
    BY <1>1, <1>2, <1>7 DEF SqlInv, CallsTyped
  <2> QED  BY <1>7, <2>1, <2>2, <2>3, NoJobSqlInv
<1>8. CASE r.type = "transaction"
  <2>1. Transact(c, r.ops)
    BY <1>2, <1>8
  <2>2. CASE Acceptable(r.ops)
    <3>1. /\ job' = [job EXCEPT ![c] = "queued"] /\ answer' = [answer EXCEPT ![c] = "waiting"]
          /\ promise' = [o \in Ops |-> IF o \in ToSet(r.ops) THEN "pending" ELSE promise[o]]
      BY <2>1, <2>2 DEF Transact, Claim, SendJob
    <3>2. CallsTyped'
      BY <3>1, <1>3, <1>4, <1>5, <1>6 DEF CallsTyped
    <3>3. (\A o \in ToSet(r.ops) : promise[o] = "none") /\ IsInjective(r.ops)
      BY <2>2 DEF Acceptable
    <3> QED  BY <1>1, <1>2, <3>1, <3>2, <3>3, NewJobSqlInv
  <2>3. CASE ~Acceptable(r.ops)
    BY <2>1, <2>3, <1>7 DEF Transact
  <2> QED  BY <2>2, <2>3
<1>9. CASE r.type = "await"
  <2>1. PICK o \in Ops : r.ops = <<o>>
    BY <1>9 DEF SqlRequests, Await, Batch, Create
  <2>2. Execute(c, o) /\ answer' = [answer EXCEPT ![c] = "waiting"]
    BY <1>2, <1>9, <2>1
  <2>3. CASE promise[o] = "none"
    <3>1. /\ job' = [job EXCEPT ![c] = "queued"]
          /\ promise' = [p \in Ops |-> IF p \in {o} THEN "pending" ELSE promise[p]]
      BY <2>2, <2>3 DEF Execute, Claim, SendJob
    <3>2. CallsTyped'
      BY <3>1, <2>2, <1>3, <1>4, <1>5, <1>6 DEF CallsTyped
    <3>3. ToSet(r.ops) = {o} /\ IsInjective(r.ops)
      BY <2>1 DEF ToSet, IsInjective
    <3> QED  BY <1>1, <1>2, <2>2, <2>3, <3>1, <3>2, <3>3, NewJobSqlInv
  <2>4. CASE promise[o] # "none"
    BY <2>2, <2>4, <1>7 DEF Execute
  <2> QED  BY <2>3, <2>4
<1>10. CASE r.type \notin {"transaction", "await"}
  <2>1. r.ops = <<>>
    BY <1>10 DEF SqlRequests, Await, Batch, Create
  <2>2. /\ job' = [job EXCEPT ![c] = "queued"] /\ answer' = [answer EXCEPT ![c] = "waiting"]
        /\ promise' = promise
    BY <1>2, <1>10 DEF SendJob
  <2>3. CallsTyped'
    BY <2>2, <1>3, <1>4, <1>5 DEF SqlInv, CallsTyped
  <2>4. ToSet(r.ops) = {} /\ IsInjective(r.ops)
    BY <2>1 DEF ToSet, IsInjective
  <2> QED  BY <1>1, <1>2, <2>2, <2>3, <2>4, NewJobSqlInv
<1> QED  BY <1>8, <1>9, <1>10

\* The promises of a job settle; the call itself may.
LEMMA AnsweredSqlInv ==
  ASSUME SqlInv, NEW c \in SqlCalls, NEW how \in {"ok", "failed"}, Answered(c, how)
  PROVE  SqlInv'
PROOF
<1>1. promise' = [o \in Ops |-> IF o \in ToSet(Items(c)) THEN how ELSE promise[o]]
  BY DEF Answered, Settle
<1>2. answer' \in [SqlCalls -> SqlAnswers] /\ \A d \in SqlCalls : answer'[d] = "none" => answer[d] = "none"
  BY DEF Answered, SqlInv, CallsTyped, SqlAnswers
<1>3. promise' \in [Ops -> Promises] /\ \A o \in Ops : promise[o] # "none" => promise'[o] # "none"
  BY <1>1 DEF SqlInv, CallsTyped, Promises
<1>4. asked' = asked /\ job' = job
  BY DEF Answered
<1>5. CallsTyped' /\ AskedFirst'
  BY <1>2, <1>3, <1>4 DEF SqlInv, CallsTyped, AskedFirst
<1> QED  BY <1>3, <1>4, <1>5, NoJobSqlInv

\* An await returns, and the job goes its way: no promise changes.
LEMMA JobStepSqlInv ==
  ASSUME SqlInv, NEW c \in SqlCalls, NEW s \in JobStates \ {"none"}, job[c] # "none",
         job' = [job EXCEPT ![c] = s] \/ job' = job, UNCHANGED <<promise, asked, answer>>
  PROVE  SqlInv'
PROOF
<1>1. CallsTyped'
  BY DEF SqlInv, CallsTyped
<1>2. \A d \in SqlCalls : job'[d] = "none" <=> job[d] = "none"
  BY DEF SqlInv, CallsTyped
<1>3. AskedFirst'
  BY <1>2 DEF SqlInv, AskedFirst
<1> QED  BY <1>1, <1>2, <1>3, NoJobSqlInv

LEMMA AwaitReturnsSqlInv ==
  ASSUME SqlInv, NEW c \in SqlCalls, AwaitReturns(c)
  PROVE  SqlInv'
PROOF
<1>1. answer' \in [SqlCalls -> SqlAnswers] /\ \A d \in SqlCalls : answer'[d] = "none" => answer[d] = "none"
  BY DEF AwaitReturns, SqlInv, CallsTyped, SqlAnswers, Over
<1>2. promise' = promise /\ asked' = asked /\ job' = job
  BY DEF AwaitReturns
<1>3. CallsTyped' /\ AskedFirst'
  BY <1>1, <1>2 DEF SqlInv, CallsTyped, AskedFirst
<1> QED  BY <1>2, <1>3, NoJobSqlInv

LEMMA NextSqlInv == SqlInv /\ [SqlNext]_sqlVars => SqlInv'
PROOF
<1> SUFFICES ASSUME SqlInv, [SqlNext]_sqlVars PROVE SqlInv'
  OBVIOUS
<1>1. ASSUME NEW c \in SqlCalls, Client(c) \/ ExecRejects(c) PROVE SqlInv'
  <2>1. CASE JobReturns(c)
    <3>1. Parsed(exit[c]) \in {"ok", "failed"}
      BY DEF Parsed
    <3> QED  BY <2>1, <3>1, AnsweredSqlInv DEF JobReturns
  <2>2. CASE AwaitReturns(c)
    BY <2>2, AwaitReturnsSqlInv
  <2>3. CASE ExecRejects(c)
    BY <2>3, AnsweredSqlInv DEF ExecRejects
  <2> QED  BY <1>1, <2>1, <2>2, <2>3 DEF Client
<1>2. ASSUME NEW c \in SqlCalls, Script(c) \/ Raises(c) \/ JobFails(c) \/ OutputLost(c) PROVE SqlInv'
  <2>1. job[c] # "none"
    BY <1>2 DEF Script, Mount, Open, Statement, Commit, Raises, JobFails, OutputLost
  <2>2. UNCHANGED <<promise, asked, answer>>
    BY <1>2 DEF Script, Mount, Open, Statement, Commit, Raises, JobFails, OutputLost, Finish
  <2>3. job' = job \/ \E s \in {"mounted", "running", "over"} : job' = [job EXCEPT ![c] = s]
    BY <1>2 DEF Script, Mount, Open, Statement, Commit, Raises, JobFails, OutputLost, Finish
  <2>4. {"mounted", "running", "over"} \subseteq JobStates \ {"none"}
    BY DEF JobStates
  <2> QED  BY <2>1, <2>2, <2>3, <2>4, JobStepSqlInv
<1>3. CASE UNCHANGED sqlVars
  BY <1>3 DEF sqlVars, SqlInv, CallsTyped, JobsAreClaimed, AskedFirst, OperationRunsOnce, JobOps, Items
<1> QED  BY <1>1, <1>2, <1>3, AskSqlInv DEF SqlNext

\* For any operations, transactions and callers: an operation is part of at
\* most one job, once (adapter.ts:274).
THEOREM RunsOnce == SqlSpec => []OperationRunsOnce
PROOF
<1>1. SqlSpec => []SqlInv
  BY InitSqlInv, NextSqlInv, PTL DEF SqlSpec
<1>2. SqlInv => OperationRunsOnce
  BY DEF SqlInv
<1> QED  BY <1>1, <1>2, PTL

-----------------------------------------------------------------------------
(* What a job commits. *)

Exits == {"none", "ok", "error", "broken"}
Commitments == [by : SqlCalls, ops : Seq(Ops)]
JobsTyped ==
  /\ step \in [SqlCalls -> Nat] /\ exit \in [SqlCalls -> Exits]
  /\ lease \in SqlCalls \cup {NoCall} /\ exists \in BOOLEAN
  /\ log \in Seq(Commitments)
OverWhenItEnded == \A c \in SqlCalls : exit[c] # "none" => job[c] = "over"
RunningHasStatements == \A c \in SqlCalls : job[c] = "running" => asked[c].type # "create"
CommittedIsOver ==
  \A i \in 1..Len(log) : LET c == log[i].by IN log[i].ops = Items(c) /\ job[c] = "over" /\ exit[c] \in {"ok", "broken"}
CommitsOnce == \A i, j \in 1..Len(log) : log[i].by = log[j].by => i = j
WritesItems(c) == ToSet(Items(c)) \cap Writes # {}
OkHasCommitted == \A c \in SqlCalls : exit[c] = "ok" /\ WritesItems(c) => \E i \in 1..Len(log) : log[i].by = c
Written(o) == \E i \in 1..Len(log) : o \in ToSet(log[i].ops)
ResolvedIsWritten == \A o \in Writes : promise[o] = "ok" => Written(o)

CommitInv ==
  /\ JobsTyped /\ OverWhenItEnded /\ RunningHasStatements /\ CommittedIsOver /\ CommitsOnce
  /\ OkHasCommitted /\ ResolvedIsWritten

\* A database is created without statements, and an await has one.
LEMMA RequestShapes ==
  ASSUME NEW r \in SqlRequests \cup {NoRequest}
  PROVE  /\ r.type = "create" => r.ops = <<>>
         /\ r.type = "await" => Len(r.ops) = 1
         /\ r.type \in {"none", "create", "await", "transaction"}
         /\ r.ops \in Seq(Ops)
PROOF
<1>1. ASSUME r = NoRequest PROVE r.type = "none" /\ r.ops = <<>>
  BY <1>1 DEF NoRequest
<1>2. ASSUME r = Create PROVE r.type = "create" /\ r.ops = <<>>
  BY <1>2 DEF Create
<1>3. ASSUME NEW o \in Ops, r = Await(o) PROVE r.type = "await" /\ r.ops \in Seq(Ops) /\ Len(r.ops) = 1
  <2>1. r.ops = <<o>> /\ r.type = "await"
    BY <1>3 DEF Await
  <2> QED  BY <2>1
<1>4. ASSUME NEW s \in Batches, r = Batch(s) PROVE r.type = "transaction" /\ r.ops \in Seq(Ops)
  <2>1. r.ops = s /\ r.type = "transaction"
    BY <1>4 DEF Batch
  <2> QED  BY <2>1, SqlAssumption
<1>5. <<>> \in Seq(Ops)
  OBVIOUS
<1>6. \/ r = NoRequest \/ r = Create
      \/ \E o \in Ops : r = Await(o)
      \/ \E s \in Batches : r = Batch(s)
  BY DEF SqlRequests
<1> QED  BY <1>1, <1>2, <1>3, <1>4, <1>5, <1>6

LEMMA InitCommitInv == SqlInit => CommitInv
PROOF
<1> SUFFICES ASSUME SqlInit PROVE CommitInv
  OBVIOUS
<1>1. log = <<>> /\ Len(log) = 0 /\ 1..Len(log) = {}
  BY DEF SqlInit
<1>2. log \in Seq(Commitments)
  BY <1>1
<1>3. JobsTyped
  BY <1>2 DEF SqlInit, JobsTyped, Exits
<1>4. /\ \A c \in SqlCalls : exit[c] = "none" /\ job[c] = "none"
      /\ \A o \in Ops : promise[o] = "none"
  BY DEF SqlInit
<1> QED
  BY <1>1, <1>3, <1>4, SqlAssumption
     DEF CommitInv, OverWhenItEnded, RunningHasStatements, CommittedIsOver, CommitsOnce, OkHasCommitted, ResolvedIsWritten

\* A step that commits nothing, and leaves the jobs alone that are over.
LEMMA NothingCommitted ==
  ASSUME CommitInv, JobsTyped', log' = log, OverWhenItEnded', RunningHasStatements',
         \A c \in SqlCalls : job[c] = "over" => job'[c] = "over" /\ asked'[c] = asked[c],
         \A c \in SqlCalls : exit[c] \in {"ok", "broken"} => exit'[c] \in {"ok", "broken"},
         \A c \in SqlCalls : exit'[c] = "ok" /\ WritesItems(c)' => exit[c] = "ok",
         \A o \in Writes : promise'[o] = "ok" => promise[o] = "ok" \/ Written(o)
  PROVE  CommitInv'
PROOF
<1> USE DEF CommitInv
<1>1. CommittedIsOver'
  <2> SUFFICES ASSUME NEW i \in 1..Len(log)
      PROVE LET c == log[i].by IN log[i].ops = Items(c)' /\ job'[c] = "over" /\ exit'[c] \in {"ok", "broken"}
    BY DEF CommittedIsOver
  <2> DEFINE c == log[i].by
  <2>1. log[i] \in Commitments
    BY DEF JobsTyped
  <2>2. c \in SqlCalls
    BY <2>1 DEF Commitments
  <2>3. log[i].ops = Items(c) /\ job[c] = "over" /\ exit[c] \in {"ok", "broken"}
    BY DEF CommittedIsOver
  <2> QED  BY <2>2, <2>3 DEF Items
<1>2. CommitsOnce'
  BY DEF CommitsOnce
<1>3. OkHasCommitted'
  <2> SUFFICES ASSUME NEW c \in SqlCalls, exit'[c] = "ok", WritesItems(c)'
      PROVE \E i \in 1..Len(log) : log[i].by = c
    BY DEF OkHasCommitted
  <2>1. exit[c] = "ok" /\ job[c] = "over"
    BY DEF OverWhenItEnded
  <2>2. WritesItems(c)
    BY <2>1 DEF WritesItems, Items
  <2> QED  BY <2>1, <2>2 DEF OkHasCommitted
<1>4. ResolvedIsWritten'
  BY DEF ResolvedIsWritten, Written
<1> QED  BY <1>1, <1>2, <1>3, <1>4

\* A job that has not ended ends well, having committed what it was given.
LEMMA JobCommits ==
  ASSUME SqlInv, CommitInv, NEW c \in SqlCalls, job[c] = "running", JobsTyped',
         ReadOnly(c) => log' = log,
         ~ReadOnly(c) => log' = Append(log, [by |-> c, ops |-> Items(c)]),
         job' = [job EXCEPT ![c] = "over"], exit' = [exit EXCEPT ![c] = "ok"],
         UNCHANGED <<asked, promise>>
  PROVE  CommitInv'
PROOF
<1> USE DEF CommitInv
<1>1. /\ \A d \in SqlCalls : job'[d] = IF d = c THEN "over" ELSE job[d]
      /\ \A d \in SqlCalls : exit'[d] = IF d = c THEN "ok" ELSE exit[d]
  BY DEF SqlInv, CallsTyped, JobsTyped
<1>2. OverWhenItEnded' /\ RunningHasStatements'
  BY <1>1 DEF OverWhenItEnded, RunningHasStatements
<1>3. CASE ReadOnly(c)
  <2>1. exit[c] = "none" /\ ~WritesItems(c)
    BY <1>3 DEF OverWhenItEnded, ReadOnly, WritesItems
  <2>2. \A d \in SqlCalls : exit'[d] = "ok" /\ WritesItems(d)' => exit[d] = "ok"
    BY <1>1, <2>1 DEF WritesItems, Items
  <2> QED  BY <1>1, <1>2, <1>3, <2>1, <2>2, NothingCommitted
<1>4. CASE ~ReadOnly(c)
  <2> DEFINE e == [by |-> c, ops |-> Items(c)]
  <2>1. log \in Seq(Commitments)
    BY DEF JobsTyped
  <2>2. Items(c) \in Seq(Ops)
    BY RequestShapes DEF SqlInv, CallsTyped, Items
  <2>3. e \in Commitments /\ e.by = c /\ e.ops = Items(c)
    BY <2>2 DEF Commitments
  <2>4. log' = Append(log, e)
    BY <1>4
  <2> HIDE DEF e
  <2>5. /\ Len(log) \in Nat /\ Len(log') = Len(log) + 1
        /\ log'[Len(log) + 1] = e /\ \A i \in 1..Len(log) : log'[i] = log[i]
    BY <2>1, <2>3, <2>4
  <2>6. \A i \in 1..Len(log) : log[i].by \in SqlCalls /\ log[i].by # c
    <3> SUFFICES ASSUME NEW i \in 1..Len(log) PROVE log[i].by \in SqlCalls /\ log[i].by # c
      OBVIOUS
    <3>1. log[i] \in Commitments
      BY <2>1
    <3>2. log[i].by \in SqlCalls
      BY <3>1 DEF Commitments
    <3> QED  BY <3>2 DEF CommittedIsOver
  <2>7. CommittedIsOver'
    <3> SUFFICES ASSUME NEW i \in 1..Len(log')
        PROVE /\ log'[i].ops = asked'[log'[i].by].ops /\ job'[log'[i].by] = "over"
              /\ exit'[log'[i].by] \in {"ok", "broken"}
      BY DEF CommittedIsOver, Items
    <3>1. CASE i = Len(log) + 1
      BY <3>1, <2>3, <2>5, <1>1 DEF Items
    <3>2. CASE i \in 1..Len(log)
      <4>1. /\ log[i].ops = asked[log[i].by].ops /\ job[log[i].by] = "over"
            /\ exit[log[i].by] \in {"ok", "broken"}
        BY <3>2 DEF CommittedIsOver, Items
      <4> QED  BY <3>2, <4>1, <2>5, <2>6, <1>1
    <3> QED  BY <3>1, <3>2, <2>5
  <2>8. CommitsOnce'
    <3> SUFFICES ASSUME NEW i \in 1..Len(log'), NEW j \in 1..Len(log'), log'[i].by = log'[j].by PROVE i = j
      BY DEF CommitsOnce
    <3>1. CASE i \in 1..Len(log) /\ j \in 1..Len(log)
      BY <3>1, <2>5 DEF CommitsOnce
    <3>2. CASE i \notin 1..Len(log) \/ j \notin 1..Len(log)
      BY <3>2, <2>3, <2>5, <2>6
    <3> QED  BY <3>1, <3>2
  <2>9. OkHasCommitted'
    <3> SUFFICES ASSUME NEW d \in SqlCalls, exit'[d] = "ok", WritesItems(d)'
        PROVE \E i \in 1..Len(log') : log'[i].by = d
      BY DEF OkHasCommitted
    <3>1. CASE d = c
      BY <3>1, <2>3, <2>5
    <3>2. CASE d # c
      <4>1. exit[d] = "ok" /\ WritesItems(d)
        BY <3>2, <1>1 DEF WritesItems, Items
      <4>2. PICK i \in 1..Len(log) : log[i].by = d
        BY <4>1 DEF OkHasCommitted
      <4> QED  BY <4>2, <2>5
    <3> QED  BY <3>1, <3>2
  <2>10. ResolvedIsWritten'
    <3> SUFFICES ASSUME NEW o \in Writes, promise[o] = "ok"
        PROVE \E i \in 1..Len(log') : o \in ToSet(log'[i].ops)
      BY DEF ResolvedIsWritten, Written
    <3>1. PICK i \in 1..Len(log) : o \in ToSet(log[i].ops)
      BY DEF ResolvedIsWritten, Written
    <3> QED  BY <3>1, <2>5
  <2> QED  BY <1>2, <2>7, <2>8, <2>9, <2>10
<1> QED  BY <1>3, <1>4

\* What has been executed when a job commits is all of it.
LEMMA CommitsItems ==
  ASSUME SqlInv, CommitInv, NEW c \in SqlCalls, Commits(c), step'[c] = Len(Items(c))
  PROVE  /\ ReadOnly(c) => log' = log
         /\ ~ReadOnly(c) => log' = Append(log, [by |-> c, ops |-> Items(c)])
         /\ log' \in Seq(Commitments)
PROOF
<1>1. Items(c) \in Seq(Ops)
  BY RequestShapes DEF SqlInv, CallsTyped, Items
<1>2. SubSeq(Items(c), 1, Len(Items(c))) = Items(c)
  BY <1>1
<1>3. /\ ReadOnly(c) => log' = log
      /\ ~ReadOnly(c) => log' = Append(log, [by |-> c, ops |-> Items(c)])
  BY <1>2 DEF Commits
<1>4. [by |-> c, ops |-> Items(c)] \in Commitments
  BY <1>1 DEF Commitments
<1>5. log \in Seq(Commitments)
  BY DEF CommitInv, JobsTyped
<1>6. ASSUME NEW e \in Commitments PROVE Append(log, e) \in Seq(Commitments)
  BY <1>5, <1>6
<1>7. log' \in Seq(Commitments)
  BY <1>3, <1>4, <1>5, <1>6
<1> QED  BY <1>3, <1>7

\* A caller: what it resolves has been written.
LEMMA AnsweredCommitInv ==
  ASSUME SqlInv, CommitInv, NEW c \in SqlCalls, NEW how \in {"ok", "failed"}, Answered(c, how),
         how = "ok" => exit[c] = "ok"
  PROVE  CommitInv'
PROOF
<1>1. UNCHANGED <<asked, job, step, exit, lease, exists, log>>
  BY DEF Answered
<1>2. promise' = [o \in Ops |-> IF o \in ToSet(Items(c)) THEN how ELSE promise[o]]
  BY DEF Answered, Settle
<1>3. \A o \in Writes : promise'[o] = "ok" => promise[o] = "ok" \/ Written(o)
  <2> SUFFICES ASSUME NEW o \in Writes, promise'[o] = "ok", promise[o] # "ok" PROVE Written(o)
    OBVIOUS
  <2>1. o \in Ops
    BY SqlAssumption
  <2>2. o \in ToSet(Items(c)) /\ how = "ok"
    BY <2>1, <1>2
  <2>3. exit[c] = "ok" /\ WritesItems(c)
    BY <2>2 DEF WritesItems
  <2>4. PICK i \in 1..Len(log) : log[i].by = c
    BY <2>3 DEF CommitInv, OkHasCommitted
  <2>5. log[i].ops = Items(c)
    BY <2>4 DEF CommitInv, CommittedIsOver
  <2> QED  BY <2>2, <2>4, <2>5 DEF Written
<1>4. JobsTyped' /\ OverWhenItEnded' /\ RunningHasStatements'
  BY <1>1 DEF CommitInv, JobsTyped, OverWhenItEnded, RunningHasStatements
<1>5. \A d \in SqlCalls : WritesItems(d)' = WritesItems(d)
  BY <1>1 DEF WritesItems, Items
<1> QED  BY <1>1, <1>3, <1>4, <1>5, NothingCommitted

LEMMA AskCommitInv ==
  ASSUME SqlInv, CommitInv, NEW c \in SqlCalls, Ask(c)
  PROVE  CommitInv'
PROOF
<1>1. answer[c] = "none" /\ job[c] = "none" /\ UNCHANGED <<step, exit, lease, exists, log>>
  BY DEF Ask, SqlInv, AskedFirst
<1>2. PICK r \in SqlRequests :
        /\ asked' = [asked EXCEPT ![c] = r]
        /\ CASE r.type = "transaction" -> Transact(c, r.ops)
             [] r.type = "await" -> Execute(c, r.ops[1]) /\ answer' = [answer EXCEPT ![c] = "waiting"]
             [] OTHER -> SendJob(c) /\ answer' = [answer EXCEPT ![c] = "waiting"] /\ UNCHANGED promise
  BY DEF Ask
<1>3. job' = job \/ job' = [job EXCEPT ![c] = "queued"]
  BY <1>2 DEF Transact, Execute, SendJob
<1>4. promise' = promise \/ \E ops : promise' = [o \in Ops |-> IF o \in ops THEN "pending" ELSE promise[o]]
  BY <1>2 DEF Transact, Execute, Claim
<1>5. /\ \A d \in SqlCalls : d # c => job'[d] = job[d] /\ asked'[d] = asked[d]
      /\ job'[c] \in {"none", "queued"}
  BY <1>1, <1>2, <1>3 DEF SqlInv, CallsTyped
<1>6. \A o \in Writes : promise'[o] = "ok" => promise[o] = "ok"
  BY <1>4, SqlAssumption
<1>7. exit[c] = "none"
  BY <1>1 DEF CommitInv, OverWhenItEnded
<1>8. JobsTyped' /\ OverWhenItEnded' /\ RunningHasStatements'
  BY <1>1, <1>5, <1>7 DEF CommitInv, JobsTyped, OverWhenItEnded, RunningHasStatements
<1> QED  BY <1>1, <1>5, <1>6, <1>7, <1>8, NothingCommitted

\* A job that is not over takes a step that commits nothing.
LEMMA JobGoesOn ==
  ASSUME SqlInv, CommitInv, NEW c \in SqlCalls, job[c] # "over", JobsTyped',
         NEW s \in JobStates, job' = [job EXCEPT ![c] = s], UNCHANGED <<promise, asked, log>>,
         s = "running" => asked[c].type # "create",
         \/ exit' = exit
         \/ s = "over" /\ exit' = [exit EXCEPT ![c] = "error"]
         \/ s = "over" /\ exit' = [exit EXCEPT ![c] = "broken"]
         \/ s = "over" /\ exit' = [exit EXCEPT ![c] = "ok"] /\ asked[c].type = "create"
  PROVE  CommitInv'
PROOF
<1>1. \A d \in SqlCalls : job'[d] = IF d = c THEN s ELSE job[d]
  BY DEF SqlInv, CallsTyped
<1>2. \A d \in SqlCalls : d # c => exit'[d] = exit[d]
  BY DEF CommitInv, JobsTyped
<1>3. exit[c] = "none"
  BY DEF CommitInv, OverWhenItEnded
<1>4. /\ exit'[c] # "none" => s = "over"
      /\ exit'[c] = "ok" => asked[c].type = "create"
  BY <1>3 DEF CommitInv, JobsTyped
<1>5. asked[c].type = "create" => ~WritesItems(c)
  BY RequestShapes DEF SqlInv, CallsTyped, WritesItems, Items, ToSet
<1>6. \A d \in SqlCalls : WritesItems(d)' = WritesItems(d)
  BY DEF WritesItems, Items
<1>7. OverWhenItEnded' /\ RunningHasStatements'
  BY <1>1, <1>2, <1>4 DEF CommitInv, OverWhenItEnded, RunningHasStatements
<1>8. \A d \in SqlCalls : exit'[d] = "ok" /\ WritesItems(d)' => exit[d] = "ok"
  BY <1>2, <1>4, <1>5, <1>6
<1>9. \A d \in SqlCalls : exit[d] \in {"ok", "broken"} => exit'[d] \in {"ok", "broken"}
  BY <1>2, <1>3
<1> QED  BY <1>1, <1>7, <1>8, <1>9, NothingCommitted

\* A statement: part of a transaction, or the whole of an await.
LEMMA StatementCommitInv ==
  ASSUME SqlInv, CommitInv, NEW c \in SqlCalls, Statement(c)
  PROVE  CommitInv'
PROOF
<1>1. /\ job[c] = "running" /\ step[c] < Len(Items(c)) /\ step' = [step EXCEPT ![c] = @ + 1]
      /\ UNCHANGED <<exists, promise, asked>>
  BY DEF Statement, Finish
<1>2. step[c] \in Nat /\ step' \in [SqlCalls -> Nat] /\ step'[c] = step[c] + 1
  BY <1>1 DEF CommitInv, JobsTyped
<1>3. CASE InTransaction(c)
  <2>1. UNCHANGED <<log, job, exit, lease>>
    BY <1>3 DEF Statement
  <2>2. JobsTyped'
    BY <1>1, <1>2, <2>1 DEF CommitInv, JobsTyped
  <2>3. OverWhenItEnded' /\ RunningHasStatements'
    BY <1>1, <2>1 DEF CommitInv, OverWhenItEnded, RunningHasStatements
  <2>4. \A d \in SqlCalls : WritesItems(d)' = WritesItems(d)
    BY <1>1 DEF WritesItems, Items
  <2> QED  BY <1>1, <2>1, <2>2, <2>3, <2>4, NothingCommitted
<1>4. CASE ~InTransaction(c)
  <2>1. /\ Commits(c) /\ job' = [job EXCEPT ![c] = "over"] /\ exit' = [exit EXCEPT ![c] = "ok"]
        /\ lease' = IF lease = c THEN NoCall ELSE lease
    BY <1>4 DEF Statement, Finish
  <2>2. asked[c] \in SqlRequests \cup {NoRequest} /\ asked[c].type \notin {"create", "transaction"}
    BY <1>1, <1>4 DEF SqlInv, CallsTyped, CommitInv, RunningHasStatements, InTransaction
  <2>3. asked[c].type # "none"
    <3>1. asked[c] = NoRequest => Items(c) = <<>>
      BY DEF NoRequest, Items
    <3>2. asked[c] # NoRequest
      BY <1>1, <1>2, <3>1
    <3> QED  BY <2>2, <3>2 DEF SqlRequests, Await, Batch, Create
  <2>4. Len(Items(c)) = 1
    BY <2>2, <2>3, RequestShapes DEF Items
  <2>5. step'[c] = Len(Items(c))
    BY <1>1, <1>2, <2>4
  <2>6. /\ ReadOnly(c) => log' = log
        /\ ~ReadOnly(c) => log' = Append(log, [by |-> c, ops |-> Items(c)])
        /\ log' \in Seq(Commitments)
    BY <2>1, <2>5, CommitsItems
  <2>7. JobsTyped'
    BY <1>1, <1>2, <2>1, <2>6 DEF CommitInv, JobsTyped, Exits
  <2> QED  BY <1>1, <2>1, <2>6, <2>7, JobCommits
<1> QED  BY <1>3, <1>4

LEMMA CommitCommitInv ==
  ASSUME SqlInv, CommitInv, NEW c \in SqlCalls, Commit(c)
  PROVE  CommitInv'
PROOF
<1>1. /\ job[c] = "running" /\ step[c] = Len(Items(c)) /\ UNCHANGED <<step, exists, promise, asked>>
      /\ Commits(c) /\ job' = [job EXCEPT ![c] = "over"] /\ exit' = [exit EXCEPT ![c] = "ok"]
      /\ lease' = IF lease = c THEN NoCall ELSE lease
  BY DEF Commit, Finish
<1>2. /\ ReadOnly(c) => log' = log
      /\ ~ReadOnly(c) => log' = Append(log, [by |-> c, ops |-> Items(c)])
      /\ log' \in Seq(Commitments)
  BY <1>1, CommitsItems
<1>3. JobsTyped'
  BY <1>1, <1>2 DEF CommitInv, JobsTyped, Exits
<1> QED  BY <1>1, <1>2, <1>3, JobCommits

\* Whatever else happens to a job commits nothing.
LEMMA JobCommitInv ==
  ASSUME SqlInv, CommitInv, NEW c \in SqlCalls, Mount(c) \/ Open(c) \/ Raises(c) \/ JobFails(c)
  PROVE  CommitInv'
PROOF
<1>1. UNCHANGED <<promise, asked, log, step>> /\ job[c] # "over"
  BY DEF Mount, Open, Raises, JobFails, Finish
<1>2. PICK s \in {"mounted", "running", "over"} :
        /\ job' = [job EXCEPT ![c] = s]
        /\ s = "running" => asked[c].type # "create"
        /\ \/ exit' = exit
           \/ s = "over" /\ exit' = [exit EXCEPT ![c] = "error"]
           \/ s = "over" /\ exit' = [exit EXCEPT ![c] = "broken"]
           \/ s = "over" /\ exit' = [exit EXCEPT ![c] = "ok"] /\ asked[c].type = "create"
  BY DEF Mount, Open, Raises, JobFails, Finish
<1>3. lease' \in {lease, c, NoCall} /\ exists' \in {exists, TRUE}
  BY DEF Mount, Open, Raises, JobFails, Finish
<1>4. exit' \in [SqlCalls -> Exits]
  BY <1>2 DEF CommitInv, JobsTyped, Exits
<1>5. JobsTyped'
  BY <1>1, <1>3, <1>4 DEF CommitInv, JobsTyped
<1>6. s \in JobStates
  BY DEF JobStates
<1> QED  BY <1>1, <1>2, <1>5, <1>6, JobGoesOn

\* The result of a job that has committed is lost: the job stays over.
LEMMA OutputLostCommitInv ==
  ASSUME CommitInv, NEW c \in SqlCalls, OutputLost(c)
  PROVE  CommitInv'
PROOF
<1>1. /\ job[c] = "over" /\ exit[c] = "ok" /\ exit' = [exit EXCEPT ![c] = "broken"]
      /\ UNCHANGED <<promise, asked, job, step, lease, exists, log>>
  BY DEF OutputLost
<1>2. \A d \in SqlCalls : exit'[d] = IF d = c THEN "broken" ELSE exit[d]
  BY <1>1 DEF CommitInv, JobsTyped
<1>3. JobsTyped' /\ OverWhenItEnded' /\ RunningHasStatements'
  BY <1>1, <1>2 DEF CommitInv, JobsTyped, Exits, OverWhenItEnded, RunningHasStatements
<1> QED  BY <1>1, <1>2, <1>3, NothingCommitted

LEMMA NextCommitInv == SqlInv /\ CommitInv /\ [SqlNext]_sqlVars => CommitInv'
PROOF
<1> SUFFICES ASSUME SqlInv, CommitInv, [SqlNext]_sqlVars PROVE CommitInv'
  OBVIOUS
<1>1. ASSUME NEW c \in SqlCalls, Client(c) \/ ExecRejects(c) PROVE CommitInv'
  <2>1. CASE JobReturns(c)
    <3>1. Parsed(exit[c]) \in {"ok", "failed"} /\ (Parsed(exit[c]) = "ok" => exit[c] = "ok")
      BY DEF Parsed
    <3> QED  BY <2>1, <3>1, AnsweredCommitInv DEF JobReturns
  <2>2. CASE AwaitReturns(c)
    <3>1. UNCHANGED <<promise, asked, job, step, exit, lease, exists, log>>
      BY <2>2 DEF AwaitReturns
    <3>2. JobsTyped' /\ OverWhenItEnded' /\ RunningHasStatements'
      BY <3>1 DEF CommitInv, JobsTyped, OverWhenItEnded, RunningHasStatements
    <3>3. \A d \in SqlCalls : WritesItems(d)' = WritesItems(d)
      BY <3>1 DEF WritesItems, Items
    <3> QED  BY <3>1, <3>2, <3>3, NothingCommitted
  <2>3. CASE ExecRejects(c)
    BY <2>3, AnsweredCommitInv DEF ExecRejects
  <2> QED  BY <1>1, <2>1, <2>2, <2>3 DEF Client
<1>2. ASSUME NEW c \in SqlCalls, Script(c) \/ Raises(c) \/ JobFails(c) PROVE CommitInv'
  BY <1>2, StatementCommitInv, CommitCommitInv, JobCommitInv DEF Script
<1>3. CASE UNCHANGED sqlVars
  <2>1. UNCHANGED <<promise, asked, answer, job, step, exit, lease, exists, log>>
    BY <1>3 DEF sqlVars
  <2>2. JobsTyped' /\ OverWhenItEnded' /\ RunningHasStatements'
    BY <2>1 DEF CommitInv, JobsTyped, OverWhenItEnded, RunningHasStatements
  <2>3. \A d \in SqlCalls : WritesItems(d)' = WritesItems(d)
    BY <2>1 DEF WritesItems, Items
  <2> QED  BY <2>1, <2>2, <2>3, NothingCommitted
<1> QED  BY <1>1, <1>2, <1>3, AskCommitInv, OutputLostCommitInv DEF SqlNext

LEMMA CommitInvariant == SqlSpec => [](SqlInv /\ CommitInv)
BY InitSqlInv, NextSqlInv, InitCommitInv, NextCommitInv, PTL DEF SqlSpec

\* Every variable keeps its type.
THEOREM SqlTypes == SqlSpec => []SqlTypeOK
PROOF
<1>1. SqlInv /\ CommitInv => SqlTypeOK
  <2> SUFFICES ASSUME CallsTyped, JobsTyped PROVE SqlTypeOK
    BY DEF SqlInv, CommitInv
  <2>1. Promises = {"none", "pending"} \cup Over /\ SqlAnswers = {"none", "waiting", "refused"} \cup Over
    BY DEF Promises, SqlAnswers, Over
  <2> QED  BY <2>1 DEF CallsTyped, JobsTyped, SqlTypeOK, Exits, Commitments
<1> QED  BY <1>1, CommitInvariant, PTL

\* For any operations, transactions and callers, whatever fails or is lost: a job
\* commits once and everything it was given, what resolves has been written, and
\* a database error leaves nothing (adapter.ts:183, 407).
THEOREM JobsAreWhole == SqlSpec => []TransactionsAreWhole
PROOF
<1>1. SqlInv /\ CommitInv => TransactionsAreWhole
  <2> SUFFICES ASSUME CommitInv PROVE TransactionsAreWhole
    OBVIOUS
  <2>1. \A i \in 1..Len(log) : log[i].ops = Items(log[i].by) /\ exit[log[i].by] # "error"
    BY DEF CommitInv, CommittedIsOver
  <2> QED  BY <2>1 DEF CommitInv, CommitsOnce, ResolvedIsWritten, Written, TransactionsAreWhole
<1> QED  BY <1>1, CommitInvariant, PTL
=============================================================================
