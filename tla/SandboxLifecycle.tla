--------------------------- MODULE SandboxLifecycle ---------------------------
(***************************************************************************)
(* Lifecycle calls on one sandbox (packages/disk/src/sandbox.ts): start,    *)
(* stop, pause, resume, fork and refresh, each a chain of requests to the   *)
(* control plane, repeated by retryApiRequest (retry.ts) and followed by    *)
(* polling, while other callers act on the same sandbox.                    *)
(*                                                                         *)
(* The control plane is not in the repository.  Its part is what the client *)
(* is written against: the statuses of SANDBOX_ACTIONS, pausing that is     *)
(* idempotent, a checkpoint per session named while the sandbox is          *)
(* inactive, forks of a checkpoint once it is committed, and a conflict for *)
(* anything else.                                                           *)
(***************************************************************************)
EXTENDS Naturals, FiniteSets

CONSTANTS
  Callers,      \* each makes one call
  Handles,      \* Sandbox objects of the same sandbox
  HandleOf,     \* the object each caller calls
  Patient,      \* the callers that do not pass wait: false
  Unreliable,   \* the callers whose requests may fail
  Ops,          \* the calls that are made
  MaxRetries,   \* MAX_RETRIES of retry.ts
  MaxSessions   \* bound: starts and resumes of the sandbox

AllOps   == {"start", "remount", "stop", "pause", "resume", "fork", "refresh"}
Statuses == {"pending", "running", "pausing", "paused", "stopping", "stopped", "failed"}
Inactive == {"pausing", "paused", "stopping", "stopped"}
Requests == (AllOps \ {"refresh"}) \cup {"get", "child"}

ASSUME CallersAssumption ==
  /\ IsFiniteSet(Callers) /\ Patient \subseteq Callers /\ Unreliable \subseteq Callers
  /\ HandleOf \in [Callers -> Handles]
ASSUME BoundsAssumption == Ops \subseteq AllOps /\ MaxRetries \in Nat /\ MaxSessions \in Nat

VARIABLES
  status,     \* control plane: the sandbox's status
  session,    \* control plane: the session that runs, or ran last
  committed,  \* control plane: the sessions whose checkpoint is committed
  child,      \* control plane: the status of each caller's fork
  forks,      \* control plane: how many forks each caller's requests created
  op,         \* the call each caller made
  at,         \* where the call is
  net,        \* its request: "none", "sent" or answered with "reply"
  reply,      \* the answer on its way
  tries,      \* failed attempts of the request
  view,       \* what _apply last wrote to each handle
  kid,        \* the status the child's handle has
  mine,       \* resumeAfterFork
  named,      \* checkpoint, the one fork asks for
  found,      \* history: statuses the call's first request found
  reached,    \* history: statuses since the first request was executed
  undone,     \* history: fork has asked for the source to be resumed
  refused     \* history: the request whose refusal ended the call

server   == <<status, session, committed, child, forks>>
client   == <<op, at, net, tries, view, kid, mine, named, undone, refused>>
vars     == <<server, client, reply, found, reached>>

NoReply == [status |-> "none", checkpoint |-> 0]
Snapshots == [status : Statuses, checkpoint : Nat]

Stages  == {"idle", "call", "poll", "fork", "undo", "child", "source", "done", "failed"}
Settled == {"done", "failed"}

TypeOK ==
  /\ status \in Statuses
  /\ session \in Nat
  /\ committed \subseteq Nat
  /\ child \in [Callers -> {"none", "pending", "running", "failed"}]
  /\ forks \in [Callers -> Nat]
  /\ op \in [Callers -> AllOps \cup {"none"}]
  /\ at \in [Callers -> Stages]
  /\ net \in [Callers -> {"none", "sent", "reply"}]
  /\ reply \in [Callers -> Snapshots \cup {NoReply, [status |-> "refused", checkpoint |-> 0]}]
  /\ tries \in [Callers -> 0..MaxRetries]
  /\ view \in [Handles -> Snapshots]
  /\ kid \in [Callers -> {"none", "pending", "running", "failed"}]
  /\ mine \in [Callers -> BOOLEAN]
  /\ named \in [Callers -> Nat]
  /\ found \in [Callers -> SUBSET Statuses]
  /\ reached \in [Callers -> SUBSET Statuses]
  /\ undone \in [Callers -> BOOLEAN]
  /\ refused \in [Callers -> Requests \cup {"none"}]

\* The wire form of the sandbox.
Wire(st, n) == [status |-> st, checkpoint |-> IF st \in Inactive THEN n ELSE 0]

Init ==
  /\ status \in {"running", "paused", "stopped"} /\ session = 1
  /\ committed = IF status = "running" THEN {} ELSE {1}
  /\ child = [c \in Callers |-> "none"]
  /\ forks = [c \in Callers |-> 0]
  /\ op = [c \in Callers |-> "none"]
  /\ at = [c \in Callers |-> "idle"]
  /\ net = [c \in Callers |-> "none"]
  /\ reply = [c \in Callers |-> NoReply]
  /\ tries = [c \in Callers |-> 0]
  /\ view = [h \in Handles |-> Wire(status, session)]
  /\ kid = [c \in Callers |-> "none"]
  /\ mine = [c \in Callers |-> FALSE]
  /\ named = [c \in Callers |-> 0]
  /\ found = [c \in Callers |-> {}]
  /\ reached = [c \in Callers |-> {}]
  /\ undone = [c \in Callers |-> FALSE]
  /\ refused = [c \in Callers |-> "none"]

-----------------------------------------------------------------------------
(* The control plane. *)

\* The statuses in which request r changes the sandbox, and to what.
ActsOn ==
  [r \in Requests |->
     CASE r \in {"start", "remount"} -> {"paused", "stopped", "failed"}
       [] r = "resume" -> {"paused"}
       [] r = "stop"   -> {"running", "paused"}
       [] r = "pause"  -> {"running"}
       [] OTHER        -> {}]

Becomes ==
  [r \in Requests |->
     CASE r = "stop" -> "stopping" [] r = "pause" -> "pausing" [] OTHER -> "pending"]

\* The statuses in which r is answered with the sandbox as it is.
Repeats ==
  [r \in Requests |->
     CASE r \in {"start", "resume"} -> {"pending", "running"}
       [] r = "stop"  -> {"stopping", "stopped"}
       [] r = "pause" -> {"pausing", "paused", "stopped"}
       [] r = "get"   -> Statuses
       [] OTHER       -> {}]

\* Callers whose first request has been executed note the status st.
Noted(st) ==
  [c \in Callers |-> IF found[c] # {} THEN reached[c] \cup {st} ELSE reached[c]]

\* What the control plane does by itself.
SettleTo(st) ==
  /\ status' = st
  /\ committed' = IF st \in {"paused", "stopped"} THEN committed \cup {session} ELSE committed
  /\ reached' = Noted(st)
  /\ UNCHANGED <<session, child, forks, client, reply, found>>

SandboxSettles ==
  \/ status = "pending"  /\ \E st \in {"running", "failed"} : SettleTo(st)
  \/ status = "pausing"  /\ \E st \in {"paused", "failed"} : SettleTo(st)
  \/ status = "stopping" /\ SettleTo("stopped")

ChildSettles(c) ==
  /\ child[c] = "pending"
  /\ \E st \in {"running", "failed"} : child' = [child EXCEPT ![c] = st]
  /\ UNCHANGED <<status, session, committed, forks, client, reply, found, reached>>

-----------------------------------------------------------------------------
(* The requests of a call. *)

FirstRequest(o) ==
  CASE o = "fork" -> "pause" [] o = "refresh" -> "get" [] OTHER -> o

Request(c) ==
  CASE at[c] \in {"poll", "source"} -> "get"
    [] at[c] = "fork"  -> "fork"
    [] at[c] = "undo"  -> "resume"
    [] at[c] = "child" -> "child"
    [] OTHER           -> FirstRequest(op[c])

RetryMode_AllTransient(r) == "transient"

\* The mode each method passes to retryApiRequest.
RetryMode(r) == IF r \in {"fork", "remount"} THEN "connect" ELSE "transient"

Begin(c, o) ==
  /\ at[c] = "idle" /\ o \in Ops
  /\ op' = [op EXCEPT ![c] = o]
  /\ at' = [at EXCEPT ![c] = "call"]
  /\ net' = [net EXCEPT ![c] = "sent"]
  /\ UNCHANGED <<server, reply, tries, view, kid, mine, named, found, reached, undone, refused>>

Answer(c, snapshot) ==
  /\ net' = [net EXCEPT ![c] = "reply"]
  /\ reply' = [reply EXCEPT ![c] = snapshot]
  /\ UNCHANGED <<op, at, tries, view, kid, mine, named, undone, refused>>

Refusal == [status |-> "refused", checkpoint |-> 0]

\* The control plane notes what the first request found and left.
Find(c, st) ==
  IF at[c] = "call"
  THEN /\ found' = [found EXCEPT ![c] = @ \cup {status}]
       /\ reached' = [Noted(st) EXCEPT ![c] = @ \cup {st}]
  ELSE /\ found' = found
       /\ reached' = Noted(st)

\* A new session needs a host; after MaxSessions there is none.
HasHost(r) == Becomes[r] = "pending" => session < MaxSessions

\* A request that changes the sandbox.
Acts(c) ==
  LET r == Request(c)  st == Becomes[r]
      n == IF st = "pending" THEN session + 1 ELSE session
  IN /\ net[c] = "sent" /\ status \in ActsOn[r] /\ HasHost(r)
     /\ status' = st /\ session' = n
     /\ Answer(c, Wire(st, n))
     /\ Find(c, st)
     /\ UNCHANGED <<committed, child, forks>>

\* One that finds it as asked, or only reads it.
Repeated(c) ==
  /\ net[c] = "sent" /\ status \in Repeats[Request(c)]
  /\ Answer(c, Wire(status, session))
  /\ Find(c, status)
  /\ UNCHANGED server

\* A fork of a committed checkpoint.
Forks(c) ==
  /\ net[c] = "sent" /\ Request(c) = "fork" /\ named[c] \in committed
  /\ forks' = [forks EXCEPT ![c] = @ + 1]
  /\ child' = [child EXCEPT ![c] = "pending"]
  /\ Answer(c, Wire("pending", 0))
  /\ UNCHANGED <<status, session, committed, found, reached>>

ReadsChild(c) ==
  /\ net[c] = "sent" /\ Request(c) = "child"
  /\ Answer(c, Wire(child[c], 0))
  /\ UNCHANGED <<server, found, reached>>

\* A conflict, or, for an unreliable caller, any other final error.
Refuses(c) ==
  LET r == Request(c) IN
  /\ net[c] = "sent"
  /\ \/ r \notin {"fork", "child"} /\ status \notin ActsOn[r] \cup Repeats[r]
     \/ status \in ActsOn[r] /\ ~HasHost(r)
     \/ r = "fork" /\ named[c] \notin committed
     \/ c \in Unreliable
  /\ Answer(c, Refusal)
  /\ UNCHANGED <<server, found, reached>>

-----------------------------------------------------------------------------
(* What follows a reply or an error: the bodies of the methods.  v is the   *)
(* status of the caller's handle, k that of the child's and m whether the   *)
(* source is the fork's to resume, all after the reply was applied.         *)

Awaited_Reached(o) == IF o = "stop" THEN "stopped" ELSE "pending"

\* The status the method polls through.
Awaited(o) ==
  CASE o \in {"pause", "fork"} -> "pausing" [] o = "stop" -> "stopping" [] OTHER -> "pending"

IsMine_AnyInactive(v) == v \in {"pausing", "paused"}

IsMine(v) == v = "pausing"

AfterWait_PauseUnchecked(c, v) == IF op[c] = "fork" THEN "fork" ELSE "done"

\* pause() rejects with SandboxPauseError unless it ended paused.
AfterWait(c, v) ==
  CASE op[c] = "fork"                   -> "fork"
    [] op[c] = "pause" /\ v # "paused"  -> "failed"
    [] OTHER                            -> "done"

AfterView(c, v) ==
  IF op[c] = "refresh" \/ (op[c] # "fork" /\ c \notin Patient) THEN "done"
  ELSE IF v = Awaited(op[c]) THEN "poll" ELSE AfterWait(c, v)

AfterChild(v, m) == IF m /\ v = "pending" THEN "source" ELSE "done"

AfterUndo(c, v, k, m) ==
  CASE k = "none"      -> "failed"
    [] c \notin Patient -> "done"
    [] k = "pending"   -> "child"
    [] OTHER           -> AfterChild(v, m)

AfterFork(c, v, k, m) == IF m THEN "undo" ELSE AfterUndo(c, v, k, m)

AfterReply(c, v, k, m) ==
  CASE at[c] \in {"call", "poll"} -> AfterView(c, v)
    [] at[c] = "fork"   -> AfterFork(c, v, k, m)
    [] at[c] = "undo"   -> AfterUndo(c, v, k, m)
    [] at[c] = "child"  -> IF k = "pending" THEN "child" ELSE AfterChild(v, m)
    [] at[c] = "source" -> IF v = "pending" THEN "source" ELSE "done"
    [] OTHER            -> at[c]

\* A rejection: .finally resumes a source that was paused for the fork, and
\* the errors of that resume and of waiting for it are dropped.
AfterError(c) ==
  CASE at[c] \in {"poll", "fork"} /\ mine[c] -> "undo"
    [] at[c] = "undo"   -> AfterUndo(c, view[HandleOf[c]].status, kid[c], mine[c])
    [] at[c] = "source" -> "done"
    [] OTHER            -> "failed"

\* The call moves on to stage s, which sends the next request.
GoTo(c, s) ==
  /\ at' = [at EXCEPT ![c] = s]
  /\ net' = [net EXCEPT ![c] = IF s \in Settled THEN "none" ELSE "sent"]
  /\ undone' = [undone EXCEPT ![c] = @ \/ s = "undo"]
  /\ reply' = [reply EXCEPT ![c] = NoReply]
  /\ tries' = [tries EXCEPT ![c] = 0]

\* A successful reply: _apply, or the constructor of the child's handle.
Deliver(c) ==
  LET w == reply[c]  h == HandleOf[c]
      ofChild == at[c] \in {"fork", "child"}
      claims  == at[c] = "call" /\ op[c] = "fork"
  IN /\ net[c] = "reply" /\ w # Refusal
     /\ view' = IF ofChild THEN view ELSE [view EXCEPT ![h] = w]
     /\ kid' = IF ofChild THEN [kid EXCEPT ![c] = w.status] ELSE kid
     /\ mine' = [mine EXCEPT ![c] = IF claims THEN IsMine(w.status) ELSE @]
     /\ named' = [named EXCEPT ![c] = IF claims THEN w.checkpoint ELSE @]
     /\ GoTo(c, AfterReply(c, view'[h].status, kid'[c], mine'[c]))
     /\ UNCHANGED <<server, op, found, reached, refused>>

\* A final error reply.
DeliverRefusal(c) ==
  /\ net[c] = "reply" /\ reply[c] = Refusal
  /\ GoTo(c, AfterError(c))
  /\ refused' = [refused EXCEPT ![c] = IF AfterError(c) = "failed" THEN Request(c) ELSE @]
  /\ UNCHANGED <<server, op, view, kid, mine, named, found, reached>>

MayRetry_OffByOne(c, fault) ==
  tries[c] <= MaxRetries /\ (RetryMode(Request(c)) = "transient" \/ fault = "connect")

\* retryApiRequest: a connect error is retried in both modes, the loss of a
\* request or of its reply, or a transient status, only in one.
MayRetry(c, fault) ==
  tries[c] < MaxRetries /\ (RetryMode(Request(c)) = "transient" \/ fault = "connect")

\* A request that never reached the control plane ("connect"), or whose reply
\* never came ("lost"), executed or not.
TransportFails(c, fault) ==
  /\ c \in Unreliable
  /\ net[c] = "sent" \/ (net[c] = "reply" /\ fault = "lost")
  /\ \/ /\ MayRetry(c, fault)
        /\ tries' = [tries EXCEPT ![c] = @ + 1]
        /\ net' = [net EXCEPT ![c] = "sent"]
        /\ reply' = [reply EXCEPT ![c] = NoReply]
        /\ UNCHANGED <<at, undone>>
     \/ /\ ~MayRetry(c, fault)
        /\ GoTo(c, AfterError(c))
  /\ UNCHANGED <<server, op, view, kid, mine, named, found, reached, refused>>

-----------------------------------------------------------------------------
Executes(c) == Acts(c) \/ Repeated(c) \/ Forks(c) \/ ReadsChild(c) \/ Refuses(c)
Continues(c) ==
  Deliver(c) \/ DeliverRefusal(c) \/ \E fault \in {"connect", "lost"} : TransportFails(c, fault)

Next ==
  \/ SandboxSettles
  \/ \E c \in Callers :
       \/ ChildSettles(c)
       \/ \E o \in Ops : Begin(c, o)
       \/ Executes(c)
       \/ Continues(c)

Spec == Init /\ [][Next]_vars

-----------------------------------------------------------------------------
(* Safety. *)

\* One fork() creates at most one sandbox, whatever replies are lost: its
\* request is only repeated when it never reached the control plane.
AtMostOneChild == \A c \in Callers : forks[c] <= 1

\* A start with mounts, or a fork, that took effect is not reported to its
\* caller as refused.
SuccessIsNotRefused ==
  \A c \in Callers :
    /\ refused[c] = "fork" => forks[c] = 0
    /\ refused[c] = "remount" => found[c] = {}

\* The retries of start and fork duplicate nothing and misreport nothing
\* (the modes of retry.ts, chosen in sandbox.ts).
RetriesAreHarmless == AtMostOneChild /\ SuccessIsNotRefused

\* While fork() asks for its checkpoint, the pause that takes it is over.
ForkWaitsForItsCheckpoint ==
  \A c \in Callers : at[c] = "fork" => ~(status = "pausing" /\ session = named[c])

\* fork() resumes no source that its pause found paused or stopped.
ForkLeavesInactiveAlone ==
  \A c \in Callers : at[c] = "undo" => found[c] \cap {"running", "pausing"} # {}

\* A fork() that was told its source was pausing does not settle, in success
\* or in error, without having asked for it to be resumed.
ForkAlwaysResumes ==
  \A c \in Callers : at[c] \in Settled /\ mine[c] => undone[c]

\* fork() leaves its source as it found it: what it paused it asks to resume,
\* and what it did not pause it leaves alone.
ForkRestoresItsSource == ForkLeavesInactiveAlone /\ ForkAlwaysResumes

\* The statuses that end an operation.
Final ==
  [o \in AllOps |-> CASE o = "pause" -> {"paused"}
                      [] o = "stop"  -> {"stopped"}
                      [] o = "refresh" -> Statuses
                      [] OTHER       -> {"running", "failed"}]

\* A call that waits resolves only when its operation is over: since the
\* request was executed the sandbox, or for fork() the child, has been in a
\* status that ends it.
WaitsForTheOperation ==
  \A c \in Patient : at[c] = "done" =>
    IF op[c] = "fork" THEN child[c] \in Final["fork"] ELSE reached[c] \cap Final[op[c]] # {}

\* No call goes on before what it waits for is over: fork() for its pause, a
\* call that was asked to wait for its operation (the polling of sandbox.ts).
WaitsUntilItIsOver == ForkWaitsForItsCheckpoint /\ WaitsForTheOperation

\* What the documentation of fork() says of a running source: the fork that
\* paused it, once accepted, asks for it to be resumed.
ForkResumesWhatItPaused ==
  \A c \in Callers : at[c] = "done" /\ op[c] = "fork" /\ "running" \in found[c] => undone[c]

-----------------------------------------------------------------------------
(* Liveness: the control plane finishes transitions and answers requests,   *)
(* and replies and errors reach the client.                                 *)

Fairness ==
  /\ WF_vars(SandboxSettles)
  /\ \A c \in Callers :
       /\ WF_vars(ChildSettles(c))
       /\ WF_vars(Executes(c))
       /\ WF_vars(Deliver(c) \/ DeliverRefusal(c))

FairSpec == Spec /\ Fairness

\* Every call that began settles.
EveryCallSettles == \A c \in Callers : at[c] # "idle" ~> at[c] \in Settled
=============================================================================
