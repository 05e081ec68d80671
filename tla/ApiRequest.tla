------------------------------ MODULE ApiRequest ------------------------------
(***************************************************************************)
(* Control-plane requests that are repeated after a failure:               *)
(* retryApiRequest of the TypeScript SDK (packages/disk/src/retry.ts) and  *)
(* _request_envelope of the Python one (python/archil/_http.py), which     *)
(* also waits while the control plane reports no capacity.  The operations *)
(* are those of disks, tokens and sandboxes that change something, and     *)
(* those that read or write a setting.                                     *)
(*                                                                         *)
(* An attempt may be lost before it arrives, executed without its answer   *)
(* coming back, or executed long after the client gave up on it.           *)
(***************************************************************************)
EXTENDS Naturals, Sequences, FiniteSets

CONSTANTS
  Requesters,      \* calls of the SDK
  Addresses,       \* IP addresses, and what other settings may hold
  MaxRetries,      \* MAX_RETRIES
  MaxThrottleWait, \* max_throttle_wait, in ticks
  MaxDelay,        \* the longest delay after a throttled answer, in ticks
  NoOne

ASSUME ApiAssumption ==
  /\ NoOne \notin Requesters
  /\ MaxRetries \in Nat /\ MaxThrottleWait \in Nat /\ MaxDelay \in Nat \ {0}

VARIABLES
  request, \* what each call asks for, and how far it is
  wire,    \* attempts on their way to the control plane
  made,    \* how many things each call has created
  branch,  \* the idempotency key the branch was created with
  gone,    \* the call that removed the thing
  setting, \* the allowed addresses, or another setting
  agreed,  \* the setting the calls that ended promise
  told,    \* the setting the program was last told of
  alone    \* whether no call has overlapped with another, and none failed

apiVars == <<request, wire, made, branch, gone, setting, agreed, told, alone>>

-----------------------------------------------------------------------------
(* The operations: the thing each works on, what it does to it, the mode   *)
(* it passes to the retry loop, and the requests it consists of.           *)

Operation(on, does, mode) == [on |-> on, does |-> does, mode |-> mode, to |-> {}, requests |-> <<"write">>]
Making(on) == Operation(on, "make", "connect")
Putting(on, value) == [Operation(on, "put", "transient") EXCEPT !.to = value]
Editing(does, address) ==
  [Operation("allowedIps", does, "transient") EXCEPT !.to = {address}, !.requests = <<"read", "write">>]

CreateSandbox == Making("sandboxes")
CreateSandboxPython == [CreateSandbox EXCEPT !.does = "makeWhenThereIsRoom"]
CreateDisk == [Making("disks") EXCEPT !.requests = <<"write", "read">>]
CreateApiToken == Making("apiTokens")
AddUser == Making("users")
CreateToken == Making("diskTokens")
CreateS3Credentials == Making("s3Keys")
Exec == Making("runs")
ExecById == Making("runsById")
CreatePortToken == Making("portTokens")
Share == Making("shareUrls")
Creations == {CreateSandbox, CreateSandboxPython, CreateDisk, CreateApiToken, AddUser, CreateToken,
              CreateS3Credentials, Exec, ExecById, CreatePortToken, Share}

CreateBranch == Operation("branch", "branch", "transient")

DeleteDisk == Operation("disk", "remove", "connect")
DeleteDiskPython == Operation("disk", "remove", "none")
RemoveUser == Operation("user", "remove", "connect")
RevokeDelegation == Operation("delegation", "remove", "connect")
DeleteApiToken == Operation("apiToken", "remove", "connect")
DeletePortToken == Operation("portToken", "remove", "transient")
DeleteSandbox == Operation("sandbox", "remove", "transient")
Removals == {DeleteDisk, DeleteDiskPython, RemoveUser, RevokeDelegation, DeleteApiToken, DeletePortToken, DeleteSandbox}

\* Each of the two TTLs is a setting of its own: one that is omitted stays.
ExposePort == Putting("port", Addresses)
UnexposePort == Putting("port", {})
UpdateNetwork(policy) == Putting("network", policy)
SetTimeout(ttl) == Putting("timeout", ttl)
SetAllowedIPs(list) == Putting("allowedIps", list)
AddAllowedIP(address) == Editing("add", address)
RemoveAllowedIP(address) == Editing("take", address)
Reading(on) == [Operation(on, "read", "transient") EXCEPT !.requests = <<"read">>]
ListPorts == Reading("port")
GetNetwork == Reading("network")
GetAllowedIPs == Reading("allowedIps")
Settings ==
  {ExposePort, UnexposePort, SetAllowedIPs(Addresses), ListPorts, GetNetwork, GetAllowedIPs}
    \cup UNION {{AddAllowedIP(x), RemoveAllowedIP(x), UpdateNetwork({x}), SetTimeout({x})} : x \in Addresses}

Operations == Creations \cup Removals \cup Settings \cup {CreateBranch}

Mode_AllTransient(r) == "transient"
Mode(r) == IF r.op.requests[r.step] = "read" THEN "transient" ELSE r.op.mode

\* What an edit sends, having read the list; it sends nothing where nothing
\* changes.  Closing a port is a setting too.
Edited(op, list) == IF op.does = "add" THEN list \cup op.to ELSE IF op.does = "take" THEN list \ op.to ELSE op.to
Unchanging(op, list) == op.does = "add" /\ op.to \subseteq list

-----------------------------------------------------------------------------
NoOperation == Operation("none", "none", "none")
NotAsked == [op |-> NoOperation, state |-> "idle", step |-> 1, attempt |-> 0, waited |-> 0, puts |-> {}, answer |-> "none"]
Attempt(c) == [by |-> c, step |-> request[c].step, attempt |-> request[c].attempt, puts |-> request[c].puts]
Begun == {c \in Requesters : request[c].state # "idle"}
UnderWay == {c \in Requesters : request[c].state \in {"sending", "waiting"}}

ApiTypeOK ==
  /\ \A c \in Requesters :
       /\ request[c].op \in Operations \cup {NoOperation} /\ request[c].attempt \in 0..MaxRetries
       /\ request[c].state \in {"idle", "sending", "waiting", "over"}
       /\ request[c].step \in DOMAIN request[c].op.requests
       /\ request[c].waited \in 0..MaxThrottleWait /\ request[c].puts \subseteq Addresses
       /\ request[c].answer \in {"none", "ok", "conflict", "notFound", "failed"}
  /\ made \in [Requesters -> Nat] /\ {branch, gone} \subseteq Requesters \cup {NoOne}
  /\ {setting, agreed, told} \subseteq SUBSET Addresses /\ alone \in BOOLEAN

ApiInit ==
  /\ request = [c \in Requesters |-> NotAsked] /\ wire = {}
  /\ made = [c \in Requesters |-> 0] /\ branch = NoOne /\ gone = NoOne
  /\ setting = {} /\ agreed = {} /\ told = {} /\ alone = TRUE

\* A call that succeeds promises that the setting is as it asked; one that
\* fails leaves open what it did.
Promised(op, before) ==
  CASE op.does = "add" -> before \cup op.to [] op.does = "take" -> before \ op.to
    [] op.does = "read" -> before [] OTHER -> op.to

Steps(c, r) ==
  /\ request' = [request EXCEPT ![c] = r]
  /\ alone' = (alone /\ r.answer # "failed")
  /\ agreed' = IF r.answer = "ok" THEN Promised(r.op, agreed) ELSE agreed
Server == <<made, branch, gone, setting>>

\* Calls on different things do not touch each other: all are on one.  They are
\* named in the order in which they begin.
Begin(c, op) ==
  /\ request[c].state = "idle" /\ c = CHOOSE new \in Requesters : request[new].state = "idle"
  /\ \A o \in Begun : request[o].op.on = op.on
  /\ request' = [request EXCEPT ![c] = [NotAsked EXCEPT !.op = op, !.state = "sending", !.puts = op.to]]
  /\ alone' = (alone /\ UnderWay = {} /\ wire = {})
  /\ UNCHANGED <<wire, agreed, told, Server>>

Send(c) ==
  /\ request[c].state = "sending"
  /\ Steps(c, [request[c] EXCEPT !.state = "waiting"])
  /\ wire' = wire \cup {Attempt(c)} /\ UNCHANGED <<told, Server>>

-----------------------------------------------------------------------------
(* The control plane. *)

\* The answer, which says what the setting is, reaches the attempt that waits for
\* it, or nobody.  After it comes the operation's next request, with retries of
\* its own.
AfterAnswer(r, how) ==
  IF how = "ok" /\ r.step < Len(r.op.requests) /\ ~Unchanging(r.op, setting)
  THEN [r EXCEPT !.state = "sending", !.step = @ + 1, !.attempt = 0, !.puts = Edited(r.op, setting)]
  ELSE [r EXCEPT !.state = "over", !.answer = how]

Answers(a, how, says) ==
  /\ wire' = wire \ {a}
  /\ \/ UNCHANGED <<request, agreed, told, alone>>
     \/ /\ request[a.by].state = "waiting" /\ a = Attempt(a.by)
        /\ Steps(a.by, AfterAnswer(request[a.by], how))
        /\ told' = says

Executes(a, does) == request[a.by].op.requests[a.step] = "write" /\ request[a.by].op.does \in does

ExecuteRead(a) ==
  /\ request[a.by].op.requests[a.step] = "read"
  /\ Answers(a, "ok", setting) /\ UNCHANGED Server

ExecuteCreation(a) ==
  /\ Executes(a, {"make", "makeWhenThereIsRoom"})
  /\ made' = [made EXCEPT ![a.by] = @ + 1]
  /\ Answers(a, "ok", told) /\ UNCHANGED <<branch, gone, setting>>

\* A branch is created once for a key, and returned to whoever repeats it.
ExecuteBranch(a) ==
  /\ Executes(a, {"branch"})
  /\ branch' = IF branch = NoOne THEN a.by ELSE branch
  /\ Answers(a, IF branch \in {NoOne, a.by} THEN "ok" ELSE "conflict", told) /\ UNCHANGED <<made, gone, setting>>

ExecuteRemoval(a) ==
  /\ Executes(a, {"remove"})
  /\ gone' = IF gone = NoOne THEN a.by ELSE gone
  /\ Answers(a, IF gone = NoOne THEN "ok" ELSE "notFound", told) /\ UNCHANGED <<made, branch, setting>>

ExecutePut(a) ==
  /\ Executes(a, {"put", "add", "take"})
  /\ setting' = a.puts
  /\ Answers(a, "ok", a.puts) /\ UNCHANGED <<made, branch, gone>>

-----------------------------------------------------------------------------
(* The retry loop. *)

Again_OffByOne(c, retry) ==
  Steps(c, IF retry /\ request[c].attempt <= MaxRetries
           THEN [request[c] EXCEPT !.state = "sending", !.attempt = @ + 1]
           ELSE [request[c] EXCEPT !.state = "over", !.answer = "failed"])

Again(c, retry) ==
  Steps(c, IF retry /\ request[c].attempt < MaxRetries
           THEN [request[c] EXCEPT !.state = "sending", !.attempt = @ + 1]
           ELSE [request[c] EXCEPT !.state = "over", !.answer = "failed"])

\* No connection: the attempt never left.
ConnectFails(c) ==
  /\ request[c].state = "waiting" /\ Attempt(c) \in wire
  /\ wire' = wire \ {Attempt(c)} /\ Again(c, Mode(request[c]) # "none") /\ UNCHANGED <<told, Server>>

\* The connection breaks, the request times out, or a gateway answers with a
\* transient status: the attempt may have been executed, or may yet be.
AnswerFails(c) ==
  /\ request[c].state = "waiting"
  /\ Again(c, Mode(request[c]) = "transient") /\ UNCHANGED <<wire, told, Server>>

\* No capacity: nothing was created.  The loop starts over after the delay,
\* unless the delay would end after max_throttle_wait.
Throttles(r) == r.op = CreateSandboxPython
Backoff == 1..MaxDelay
Waited(r, delay) == r.waited + delay

Throttled(c, delay) ==
  /\ request[c].state = "waiting" /\ Attempt(c) \in wire /\ request[c].op.on = "sandboxes"
  /\ wire' = wire \ {Attempt(c)} /\ UNCHANGED <<told, Server>>
  /\ Steps(c, IF Throttles(request[c]) /\ Waited(request[c], delay) < MaxThrottleWait
              THEN [request[c] EXCEPT !.state = "sending", !.attempt = 0, !.waited = Waited(request[c], delay)]
              ELSE [request[c] EXCEPT !.state = "over", !.answer = "failed"])

ApiNext ==
  \/ \E c \in Requesters :
       \/ \E op \in Operations : Begin(c, op)
       \/ Send(c) \/ ConnectFails(c) \/ AnswerFails(c)
       \/ \E delay \in Backoff : Throttled(c, delay)
  \/ \E a \in wire : ExecuteRead(a) \/ ExecuteCreation(a) \/ ExecuteBranch(a) \/ ExecuteRemoval(a) \/ ExecutePut(a)

ApiSpec == ApiInit /\ [][ApiNext]_apiVars

\* The client sends, and stops waiting after its timeout.
ApiFairness == \A c \in Requesters : WF_apiVars(Send(c)) /\ WF_apiVars(AnswerFails(c))

\* Whatever is lost, late or repeated: a creation makes at most one thing, a
\* branch is reported as taken only when another call took it, and what was
\* deleted outside the transient mode as missing only when another call deleted
\* it.  (retry.ts:1, disk.ts:619.)
RepeatsDoNothing ==
  \A c \in Requesters :
    /\ made[c] <= 1
    /\ request[c].answer = "conflict" => branch # c
    /\ request[c].answer = "notFound" /\ request[c].op \notin {DeletePortToken, DeleteSandbox} => gone # c

\* The allowed addresses, which are read and written back, and every other
\* setting, are what the calls promised that have ended, and what the last of
\* them returned, as long as the calls neither overlap, also with a late attempt
\* of one that ended, nor fail.
SettingsAreAsPromised == alone /\ UnderWay = {} => setting = agreed /\ told = agreed

RepeatsAreHarmless == RepeatsDoNothing /\ SettingsAreAsPromised

\* The same of the deletion of a sandbox: a success is not reported as a 404.
SandboxDeletesAreHonest ==
  \A c \in Requesters : request[c].op = DeleteSandbox /\ request[c].answer = "notFound" => gone # c

\* A request ends however often the control plane throttles it.
EveryRequestEnds == \A c \in Requesters : request[c].state = "sending" ~> request[c].state = "over"
=============================================================================
