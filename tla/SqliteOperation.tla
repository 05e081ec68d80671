---------------------------- MODULE SqliteOperation ----------------------------
(***************************************************************************)
(* The SQLite adapter (packages/sqlite/src/adapter.ts): operations that    *)
(* start when they are first awaited, transactions that claim the          *)
(* operations they are given, and the script that runs them next to the    *)
(* database, in a container started by one exec per job.                   *)
(*                                                                         *)
(* A job is named after the call that sent it.  What a statement says is   *)
(* abstracted to the operation's name: the database is the sequence of the *)
(* transactions that were committed to it.                                 *)
(***************************************************************************)
EXTENDS Naturals, Sequences, SequencesExt, FiniteSets

CONSTANTS
  Ops,       \* SQLiteOperation objects, each from one get(), all() or run()
  Writes,    \* those made by the write tag
  Batches,   \* the lists of operations a transaction may be given
  SqlCalls,  \* the calls of the program: awaits, transactions, createDatabase
  NoCall

ASSUME SqlAssumption ==
  Writes \subseteq Ops /\ Batches \subseteq Seq(Ops) /\ NoCall \notin SqlCalls

VARIABLES
  promise,  \* SQLiteOperationState.promise of each operation
  asked,    \* what each call asks for
  answer,   \* what the program has got from each call
  job,      \* where each job is
  step,     \* how many statements of the job have been executed
  exit,     \* what it printed, or how it ended
  lease,    \* the job that has the write delegation of the database's directory
  exists,   \* whether the database file is there
  log       \* the commits of jobs that write: the job, and its statements so far

sqlVars == <<promise, asked, answer, job, step, exit, lease, exists, log>>

Await(o)   == [type |-> "await", ops |-> <<o>>]
Batch(s)   == [type |-> "transaction", ops |-> s]
Create     == [type |-> "create", ops |-> <<>>]
NoRequest  == [type |-> "none", ops |-> <<>>]
SqlRequests   == {Await(o) : o \in Ops} \cup {Batch(s) : s \in Batches} \cup {Create}
Items(c)   == asked[c].ops
Over       == {"ok", "failed"}
JobStates  == {"none", "queued", "mounted", "running", "over"}
JobOps(c)  == IF job[c] = "none" THEN {} ELSE ToSet(Items(c))

SqlTypeOK ==
  /\ promise \in [Ops -> {"none", "pending"} \cup Over]
  /\ asked \in [SqlCalls -> SqlRequests \cup {NoRequest}]
  /\ answer \in [SqlCalls -> {"none", "waiting", "refused"} \cup Over]
  /\ job \in [SqlCalls -> JobStates]
  /\ step \in [SqlCalls -> Nat]
  /\ exit \in [SqlCalls -> {"none", "ok", "error", "broken"}]
  /\ lease \in SqlCalls \cup {NoCall} /\ exists \in BOOLEAN
  /\ log \in Seq([by : SqlCalls, ops : Seq(Ops)])

SqlInit ==
  /\ promise = [o \in Ops |-> "none"]
  /\ asked = [c \in SqlCalls |-> NoRequest] /\ answer = [c \in SqlCalls |-> "none"]
  /\ job = [c \in SqlCalls |-> "none"] /\ step = [c \in SqlCalls |-> 0]
  /\ exit = [c \in SqlCalls |-> "none"]
  /\ lease = NoCall /\ exists \in BOOLEAN /\ log = <<>>

-----------------------------------------------------------------------------
(* The adapter. *)

\* The operations of a job are claimed before its request is sent.
Claim_AfterTheReply(ops) == UNCHANGED promise

Claim(ops) == promise' = [o \in Ops |-> IF o \in ops THEN "pending" ELSE promise[o]]

SendJob(c) == job' = [job EXCEPT ![c] = "queued"]

\* executeRequest is called by the first of execute() and then().
Execute(c, o) ==
  IF promise[o] = "none" THEN Claim({o}) /\ SendJob(c) ELSE UNCHANGED <<promise, job>>

\* A transaction takes operations that have not started, each once.
Acceptable(ops) == (\A o \in ToSet(ops) : promise[o] = "none") /\ IsInjective(ops)

Transact(c, ops) ==
  IF Acceptable(ops)
    THEN Claim(ToSet(ops)) /\ SendJob(c) /\ answer' = [answer EXCEPT ![c] = "waiting"]
    ELSE answer' = [answer EXCEPT ![c] = "refused"] /\ UNCHANGED <<promise, job>>

\* Calls are named in the order in which they begin.
Ask(c) ==
  /\ answer[c] = "none" /\ c = CHOOSE new \in SqlCalls : answer[new] = "none"
  /\ \E r \in SqlRequests :
       /\ asked' = [asked EXCEPT ![c] = r]
       /\ CASE r.type = "transaction" -> Transact(c, r.ops)
            [] r.type = "await" ->
                 Execute(c, r.ops[1]) /\ answer' = [answer EXCEPT ![c] = "waiting"]
            [] OTHER ->
                 SendJob(c) /\ answer' = [answer EXCEPT ![c] = "waiting"] /\ UNCHANGED promise
  /\ UNCHANGED <<step, exit, lease, exists, log>>

\* The promises of a job's operations settle with it, whichever way it ends.
Settle_ResolveOnly(c, how) ==
  promise' = [o \in Ops |-> IF how = "ok" /\ o \in ToSet(Items(c)) THEN how ELSE promise[o]]

Settle(c, how) == promise' = [o \in Ops |-> IF o \in ToSet(Items(c)) THEN how ELSE promise[o]]

\* transaction() and createDatabase() return to their caller with the job.
Answered(c, how) ==
  /\ answer[c] = "waiting" /\ job[c] # "none"
  /\ asked[c].type = "await" => promise[Items(c)[1]] = "pending"
  /\ Settle(c, how)
  /\ answer' = IF asked[c].type = "await" THEN answer ELSE [answer EXCEPT ![c] = how]
  /\ UNCHANGED <<asked, job, step, exit, lease, exists, log>>

\* parseExecResult: a result line that says ok, or an ArchilSQLiteError.
Parsed(e) == IF e = "ok" THEN "ok" ELSE "failed"

JobReturns(c) == exit[c] # "none" /\ Answered(c, Parsed(exit[c]))

\* exec() itself rejects, whatever becomes of the job.
ExecRejects(c) == Answered(c, "failed")

\* An await, by the caller that started the operation or by a later one.
AwaitReturns(c) ==
  /\ answer[c] = "waiting" /\ asked[c].type = "await"
  /\ promise[Items(c)[1]] \in Over
  /\ answer' = [answer EXCEPT ![c] = promise[Items(c)[1]]]
  /\ UNCHANGED <<promise, asked, job, step, exit, lease, exists, log>>

-----------------------------------------------------------------------------
(* The job: mount the disk, run the script, print the result. *)

ReadOnly(c) == asked[c].type # "create" /\ ToSet(Items(c)) \cap Writes = {}

\* A mount for writing waits in the queue for the delegation, for a while.
Mount(c) ==
  /\ job[c] = "queued"
  /\ \/ ReadOnly(c) /\ UNCHANGED lease
     \/ ~ReadOnly(c) /\ lease = NoCall /\ lease' = c
  /\ job' = [job EXCEPT ![c] = "mounted"]
  /\ UNCHANGED <<promise, asked, answer, step, exit, exists, log>>

Finish(c, how) ==
  /\ job' = [job EXCEPT ![c] = "over"]
  /\ exit' = [exit EXCEPT ![c] = how]
  /\ lease' = IF lease = c THEN NoCall ELSE lease
  /\ UNCHANGED <<promise, asked, answer>>

\* The queue times out, or the container dies: SQLite forgets what was not
\* committed.
JobFails(c) ==
  /\ job[c] \in {"queued", "mounted", "running"}
  /\ Finish(c, "broken") /\ UNCHANGED <<step, exists, log>>

InTransaction_ReadsOnly(c) == asked[c].type = "transaction" /\ ReadOnly(c)

InTransaction(c) == asked[c].type = "transaction"

\* run() of the remote script: the file must exist; createDatabase makes it.
Open(c) ==
  /\ job[c] = "mounted"
  /\ \/ asked[c].type = "create" /\ exists' = TRUE /\ Finish(c, "ok")
     \/ asked[c].type # "create" /\ ~exists /\ Finish(c, "error") /\ UNCHANGED exists
     \/ /\ asked[c].type # "create" /\ exists
        /\ job' = [job EXCEPT ![c] = "running"]
        /\ UNCHANGED <<promise, asked, answer, exit, lease, exists>>
  /\ UNCHANGED <<step, log>>

\* What has been executed is committed; a mount for reading has nothing to commit.
Commits(c) ==
  log' = IF ReadOnly(c) THEN log ELSE Append(log, [by |-> c, ops |-> SubSeq(Items(c), 1, step'[c])])

\* One statement; outside a transaction it commits by itself and ends the job.
Statement(c) ==
  /\ job[c] = "running" /\ step[c] < Len(Items(c))
  /\ step' = [step EXCEPT ![c] = @ + 1]
  /\ \/ InTransaction(c) /\ UNCHANGED <<log, job, exit, lease, promise, asked, answer>>
     \/ /\ ~InTransaction(c)
        /\ Commits(c) /\ Finish(c, "ok")
  /\ UNCHANGED exists

\* A statement, or COMMIT, raises: ROLLBACK, and the error is the result.
Raises(c) ==
  /\ job[c] = "running"
  /\ Finish(c, "error") /\ UNCHANGED <<step, exists, log>>

Commit(c) ==
  /\ job[c] = "running" /\ InTransaction(c) /\ step[c] = Len(Items(c))
  /\ UNCHANGED <<step, exists>> /\ Commits(c) /\ Finish(c, "ok")

\* The container dies after COMMIT and before its output is collected.
OutputLost(c) ==
  /\ job[c] = "over" /\ exit[c] = "ok" /\ answer[c] = "waiting"
  /\ exit' = [exit EXCEPT ![c] = "broken"]
  /\ UNCHANGED <<promise, asked, answer, job, step, lease, exists, log>>

-----------------------------------------------------------------------------
Client(c) == JobReturns(c) \/ AwaitReturns(c)
Script(c) == Mount(c) \/ Open(c) \/ Statement(c) \/ Commit(c)

SqlNext ==
  \E c \in SqlCalls :
    \/ Ask(c) \/ Client(c) \/ ExecRejects(c)
    \/ Script(c) \/ Raises(c) \/ JobFails(c) \/ OutputLost(c)

SqlSpec == SqlInit /\ [][SqlNext]_sqlVars

\* No operation is sent twice, however often it is awaited or offered to a
\* transaction: it is part of at most one job, once.
OperationRunsOnce ==
  /\ \A c, d \in SqlCalls : c # d => JobOps(c) \cap JobOps(d) = {}
  /\ \A c \in SqlCalls : job[c] # "none" => IsInjective(Items(c))

\* What a job commits is everything it was given, and it commits once; an
\* operation that resolves has been written, and a job that ended with a database
\* error has left nothing.
TransactionsAreWhole ==
  /\ \A i \in 1..Len(log) : log[i].ops = Items(log[i].by)
  /\ \A i, j \in 1..Len(log) : log[i].by = log[j].by => i = j
  /\ \A o \in Writes : promise[o] = "ok" => \E i \in 1..Len(log) : o \in ToSet(log[i].ops)
  /\ \A i \in 1..Len(log) : exit[log[i].by] # "error"

\* The event loop runs the callers; the container service ends every job.
SqlFairness ==
  \A c \in SqlCalls : WF_sqlVars(Client(c)) /\ WF_sqlVars(Script(c)) /\ WF_sqlVars(JobFails(c))

\* Every await, transaction and createDatabase settles, also when another call
\* claimed the operation first and whichever way that call's job ended.
EverySqlCallSettles == \A c \in SqlCalls : answer[c] = "waiting" ~> answer[c] # "waiting"
=============================================================================
