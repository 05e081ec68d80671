--------------------------- MODULE ApiRequest_proofs ---------------------------
(***************************************************************************)
(* The types and RepeatsAreHarmless of ApiRequest, for any number of       *)
(* calls, addresses, retries and delays.                                   *)
(*                                                                         *)
(* The property is not inductive.  That a creation makes one thing depends *)
(* on there being one attempt of it on its way, and none once one was      *)
(* executed; that a call is told the truth of others, on what was decided  *)
(* staying so; and that a setting is as promised, on all that is on its    *)
(* way coming from the one call that acts and making it so.                *)
(***************************************************************************)
EXTENDS ApiRequest, TLAPS

-----------------------------------------------------------------------------
(* The invariant. *)

Requests ==
  [op : Operations \cup {NoOperation}, state : {"idle", "sending", "waiting", "over"}, step : {1, 2},
   attempt : 0..MaxRetries, waited : 0..MaxThrottleWait, puts : SUBSET Addresses,
   answer : {"none", "ok", "conflict", "notFound", "failed"}]
Attempts == [by : Requesters, step : {1, 2}, attempt : 0..MaxRetries, puts : SUBSET Addresses]

PlaneInv ==
  /\ made \in [Requesters -> Nat] /\ branch \in Requesters \cup {NoOne} /\ gone \in Requesters \cup {NoOne}
  /\ setting \subseteq Addresses /\ agreed \subseteq Addresses /\ told \subseteq Addresses
  /\ alone \in BOOLEAN

\* The types of the variables, and what a call's record says of itself.
ShapeInv ==
  /\ PlaneInv /\ request \in [Requesters -> Requests] /\ wire \subseteq Attempts
  /\ \A c \in Requesters :
       /\ request[c].step \in 1..Len(request[c].op.requests)
       /\ request[c].state = "idle" => request[c] = NotAsked
       /\ request[c].state # "idle" => request[c].op \in Operations
       /\ (request[c].state # "over") <=> (request[c].answer = "none")
  /\ \A a \in wire : request[a.by].state # "idle" /\ a.step <= request[a.by].step

\* The first request of c, on its way.
FirstOnWire(c) == {a \in wire : a.by = c /\ a.step = 1}

\* The first request of c was executed, and was not without effect.
Effective(c) == made[c] # 0 \/ gone = c

\* A call outside the transient mode has one attempt at its first request on
\* its way at most, none once one was executed, and waits for no other.
OnceInv(c) ==
  request[c].op.mode # "transient" =>
    /\ \A a, b \in FirstOnWire(c) : a = b
    /\ Effective(c) => FirstOnWire(c) = {}
    /\ request[c].step = 1 /\ request[c].state \in {"idle", "sending"} => ~Effective(c) /\ FirstOnWire(c) = {}
    /\ request[c].step = 1 /\ request[c].state = "waiting" => \A a \in FirstOnWire(c) : a = Attempt(c)

\* What a call was told of others is so.
HonestInv(c) ==
  /\ made[c] <= 1
  /\ made[c] # 0 => request[c].op.does \in {"make", "makeWhenThereIsRoom"}
  /\ gone = c => request[c].op.does = "remove"
  /\ request[c].answer = "conflict" => branch \notin {NoOne, c}
  /\ request[c].answer = "notFound" => request[c].op.does = "remove"
  /\ request[c].answer = "notFound" /\ request[c].op.mode # "transient" => gone \notin {NoOne, c}

SettingDoes == {"put", "add", "take", "read"}

\* All calls are on one thing, which is a setting or not; one that is not
\* has no addresses.
OneThing ==
  /\ \A c, d \in Begun : request[c].op.on = request[d].op.on
  /\ (\A c \in Begun : request[c].op.does \notin SettingDoes) => setting = {} /\ agreed = {} /\ told = {}

\* Who may still change something.
Actor(c) == c \in UnderWay \/ \E a \in wire : a.by = c

IsWriting(c, step) == request[c].op.requests[step] = "write"
Goal(c) == IF c \in UnderWay THEN Promised(request[c].op, agreed) ELSE agreed

\* What c is about to do, or has done: it sends what makes the setting as
\* promised, or has only read it.
Halfway(c) ==
  IF IsWriting(c, request[c].step)
  THEN request[c].puts = Goal(c) /\ setting \in {agreed, Goal(c)}
  ELSE setting = agreed /\ \A a \in wire : ~IsWriting(a.by, a.step)

SoleActor == \A c, d \in Requesters : Actor(c) /\ Actor(d) => c = d
AtRest == UnderWay = {} => setting = agreed /\ told = agreed
OnTheWay == \A a \in wire : request[a.by].op.does \in SettingDoes /\ IsWriting(a.by, a.step) => a.puts = Goal(a.by)

\* While calls neither overlap nor fail, one call acts.  Until it sends its
\* write the setting is as agreed; then it is that or what the call promises,
\* and all that is on its way makes it so.
AloneInv ==
  alone =>
    /\ SoleActor /\ AtRest /\ OnTheWay
    /\ \A c \in Requesters : request[c].answer # "failed"
    /\ \A c \in UnderWay : request[c].op.does \in SettingDoes => Halfway(c)

ApiInv ==
  /\ ShapeInv /\ OneThing /\ AloneInv
  /\ \A c \in Requesters : OnceInv(c) /\ HonestInv(c)

-----------------------------------------------------------------------------
(* The operations. *)

SettingThings == {"port", "network", "timeout", "allowedIps"}

OfMaking(op) ==
  /\ op.does \in {"make", "makeWhenThereIsRoom"} /\ op.mode = "connect" /\ op.to = {}
  /\ op.requests \in {<<"write">>, <<"write", "read">>} /\ op.on \notin SettingThings
OfBranch(op) ==
  op.does = "branch" /\ op.mode = "transient" /\ op.to = {} /\ op.requests = <<"write">> /\ op.on \notin SettingThings
OfRemoval(op) ==
  /\ op.does = "remove" /\ op.to = {} /\ op.requests = <<"write">> /\ op.on \notin SettingThings
  /\ op.mode = "transient" => op \in {DeletePortToken, DeleteSandbox}
OfSetting(op) ==
  /\ op.mode = "transient" /\ op.to \subseteq Addresses /\ op.on \in SettingThings
  /\ \/ op.does = "put" /\ op.requests = <<"write">>
     \/ op.does \in {"add", "take"} /\ op.requests = <<"read", "write">>
     \/ op.does = "read" /\ op.requests = <<"read">>

LEMMA Kinds ==
  ASSUME NEW op \in Operations
  PROVE  OfMaking(op) \/ OfBranch(op) \/ OfRemoval(op) \/ OfSetting(op)
PROOF
<1>1. ASSUME op \in Creations PROVE OfMaking(op)
  BY <1>1 DEF Creations, CreateSandbox, CreateSandboxPython, CreateDisk, CreateApiToken, AddUser, CreateToken,
              CreateS3Credentials, Exec, ExecById, CreatePortToken, Share, Making, Operation, OfMaking, SettingThings
<1>2. ASSUME op \in Removals PROVE OfRemoval(op)
  BY <1>2 DEF Removals, DeleteDisk, DeleteDiskPython, RemoveUser, RevokeDelegation, DeleteApiToken,
              DeletePortToken, DeleteSandbox, Operation, OfRemoval, SettingThings
<1>3. ASSUME op = CreateBranch PROVE OfBranch(op)
  BY <1>3 DEF CreateBranch, Operation, OfBranch, SettingThings
<1>4. ASSUME op \in Settings PROVE OfSetting(op)
  <2>1. \/ op \in {ExposePort, UnexposePort, SetAllowedIPs(Addresses)}
        \/ op \in {ListPorts, GetNetwork, GetAllowedIPs}
        \/ \E x \in Addresses : op \in {AddAllowedIP(x), RemoveAllowedIP(x), UpdateNetwork({x}), SetTimeout({x})}
    BY <1>4 DEF Settings
  <2>2. CASE op \in {ExposePort, UnexposePort, SetAllowedIPs(Addresses)}
    BY <2>2 DEF ExposePort, UnexposePort, SetAllowedIPs, Putting, Operation, OfSetting, SettingThings
  <2>3. CASE op \in {ListPorts, GetNetwork, GetAllowedIPs}
    BY <2>3 DEF ListPorts, GetNetwork, GetAllowedIPs, Reading, Operation, OfSetting, SettingThings
  <2>4. ASSUME NEW x \in Addresses, op \in {AddAllowedIP(x), RemoveAllowedIP(x)} PROVE OfSetting(op)
    BY <2>4 DEF AddAllowedIP, RemoveAllowedIP, Editing, Operation, OfSetting, SettingThings
  <2>5. ASSUME NEW x \in Addresses, op \in {UpdateNetwork({x}), SetTimeout({x})} PROVE OfSetting(op)
    BY <2>5 DEF UpdateNetwork, SetTimeout, Putting, Operation, OfSetting, SettingThings
  <2> QED  BY <2>1, <2>2, <2>3, <2>4, <2>5
<1> QED  BY <1>1, <1>2, <1>3, <1>4 DEF Operations

\* The requests of an operation.
LEMMA RequestsOf ==
  ASSUME NEW op \in Operations \cup {NoOperation}
  PROVE  /\ op.requests \in {<<"write">>, <<"read">>, <<"write", "read">>, <<"read", "write">>}
         /\ Len(op.requests) \in {1, 2} /\ op.to \subseteq Addresses
         /\ \A i \in 1..Len(op.requests) : op.requests[i] \in {"write", "read"}
PROOF
<1>1. NoOperation.requests = <<"write">> /\ NoOperation.to = {}
  BY DEF NoOperation, Operation
<1>2. /\ op.requests \in {<<"write">>, <<"read">>, <<"write", "read">>, <<"read", "write">>}
      /\ op.to \subseteq Addresses
  BY <1>1, Kinds DEF OfMaking, OfBranch, OfRemoval, OfSetting
<1>3. /\ Len(op.requests) \in {1, 2}
      /\ \A i \in 1..Len(op.requests) : op.requests[i] \in {"write", "read"}
  BY <1>2
<1> QED  BY <1>2, <1>3

\* What an operation promises and sends are addresses.
LEMMA PromisesAddresses ==
  ASSUME NEW op \in Operations \cup {NoOperation}, NEW list \in SUBSET Addresses
  PROVE  Promised(op, list) \in SUBSET Addresses /\ Edited(op, list) \in SUBSET Addresses
  BY RequestsOf DEF Promised, Edited

-----------------------------------------------------------------------------
(* The steps. *)

\* Call c goes on with r: its operation stays the same.
Moves(c, r) == r \in Requests /\ r.op = request[c].op /\ request' = [request EXCEPT ![c] = r]

\* It sends the same request again, or goes to the next, or ends.
Repeats(c, r) ==
  r.state = "sending" /\ r.answer = "none" /\ r.step = request[c].step /\ r.puts = request[c].puts
Proceeds(c, r) ==
  /\ request[c].step = 1 /\ Len(request[c].op.requests) = 2 /\ ~Unchanging(request[c].op, setting)
  /\ r.state = "sending" /\ r.answer = "none" /\ r.step = 2 /\ r.puts = Edited(request[c].op, setting)
CallEnds(c, r, how) ==
  r.state = "over" /\ r.answer = how /\ r.step = request[c].step /\ r.puts = request[c].puts

\* An attempt that fails.
Loop(c) == ConnectFails(c) \/ AnswerFails(c) \/ \E delay \in Backoff : Throttled(c, delay)

LEMMA BeginStep ==
  ASSUME ShapeInv, NEW c \in Requesters, NEW op \in Operations, Begin(c, op)
  PROVE  /\ request[c].state = "idle" /\ \A o \in Begun : request[o].op.on = op.on
         /\ alone' = (alone /\ UnderWay = {} /\ wire = {})
         /\ UNCHANGED <<wire, agreed, told, made, branch, gone, setting>>
         /\ \E r \in Requests :
              /\ request' = [request EXCEPT ![c] = r]
              /\ r.op = op /\ r.state = "sending" /\ r.step = 1 /\ r.puts = op.to /\ r.answer = "none"
PROOF
<1> DEFINE r == [NotAsked EXCEPT !.op = op, !.state = "sending", !.puts = op.to]
<1>1. 0 \in 0..MaxRetries /\ 0 \in 0..MaxThrottleWait
  BY ApiAssumption
<1>2. NotAsked \in Requests /\ NotAsked.step = 1 /\ NotAsked.answer = "none"
  BY <1>1 DEF NotAsked, Requests
<1>3. op.to \subseteq Addresses
  BY RequestsOf
<1>4. r \in Requests
  BY <1>2, <1>3 DEF Requests
<1>5. request' = [request EXCEPT ![c] = r]
  BY DEF Begin
<1>6. r.op = op /\ r.state = "sending" /\ r.step = 1 /\ r.puts = op.to /\ r.answer = "none"
  BY <1>2, <1>3 DEF Requests
<1> HIDE DEF r
<1>7. \E q \in Requests :
        /\ request' = [request EXCEPT ![c] = q]
        /\ q.op = op /\ q.state = "sending" /\ q.step = 1 /\ q.puts = op.to /\ q.answer = "none"
  BY <1>4, <1>5, <1>6
<1> QED  BY <1>7 DEF Begin, Server

LEMMA SendStep ==
  ASSUME ShapeInv, NEW c \in Requesters, Send(c)
  PROVE  /\ request[c].state = "sending" /\ wire' = wire \cup {Attempt(c)} /\ Attempt(c) \in Attempts
         /\ UNCHANGED <<alone, agreed, told, made, branch, gone, setting>>
         /\ \E r : /\ Moves(c, r) /\ r.state = "waiting" /\ r.answer = "none"
                   /\ r.step = request[c].step /\ r.puts = request[c].puts /\ r.attempt = request[c].attempt
PROOF
<1> DEFINE r == [request[c] EXCEPT !.state = "waiting"]
<1>1. request[c] \in Requests /\ request[c].state = "sending" /\ request[c].answer = "none"
  BY DEF ShapeInv, Send
<1>2. /\ r \in Requests /\ r.op = request[c].op /\ r.state = "waiting" /\ r.answer = "none"
      /\ r.step = request[c].step /\ r.puts = request[c].puts /\ r.attempt = request[c].attempt
  BY <1>1 DEF Requests
<1>3. request' = [request EXCEPT ![c] = r] /\ alone' = (alone /\ r.answer # "failed")
      /\ agreed' = IF r.answer = "ok" THEN Promised(r.op, agreed) ELSE agreed
  BY DEF Send, Steps
<1>4. Attempt(c) \in Attempts
  BY <1>1 DEF Attempt, Attempts, Requests
<1>5. alone' = alone /\ agreed' = agreed
  BY <1>2, <1>3 DEF ShapeInv, PlaneInv
<1> HIDE DEF r
<1>6. Moves(c, r)
  BY <1>2, <1>3 DEF Moves
<1> QED  BY <1>1, <1>2, <1>4, <1>5, <1>6 DEF Send, Server

\* Where a failed attempt leaves the call: it tries again, or has failed.  What
\* was on its way still is, unless it never left or was turned down.
Retried(c, r) ==
  /\ Moves(c, r)
  /\ \/ Repeats(c, r) /\ alone' = alone
     \/ CallEnds(c, r, "failed") /\ alone' = FALSE
  /\ \/ wire' = wire /\ (Repeats(c, r) => Mode(request[c]) = "transient")
     \/ Attempt(c) \in wire /\ wire' = wire \ {Attempt(c)}

LEMMA AgainStep ==
  ASSUME ShapeInv, NEW c \in Requesters, NEW retry \in BOOLEAN, Again(c, retry), request[c].state = "waiting"
  PROVE  agreed' = agreed /\ \E r : /\ Moves(c, r)
                                    /\ \/ retry /\ Repeats(c, r) /\ alone' = alone
                                       \/ CallEnds(c, r, "failed") /\ alone' = FALSE
PROOF
<1>1. request[c] \in Requests /\ request[c].answer = "none" /\ MaxRetries \in Nat
  BY ApiAssumption DEF ShapeInv
<1>2. CASE retry /\ request[c].attempt < MaxRetries
  <2> DEFINE r == [request[c] EXCEPT !.state = "sending", !.attempt = @ + 1]
  <2>1. Steps(c, r)
    BY <1>2 DEF Again
  <2>2. request[c].attempt \in 0..MaxRetries /\ request[c].attempt + 1 \in 0..MaxRetries
    BY <1>1, <1>2 DEF Requests
  <2>3. r \in Requests /\ r.op = request[c].op /\ r.state = "sending" /\ r.answer = "none"
        /\ r.step = request[c].step /\ r.puts = request[c].puts
    BY <1>1, <2>2 DEF Requests
  <2> HIDE DEF r
  <2>4. request' = [request EXCEPT ![c] = r] /\ alone' = alone /\ agreed' = agreed
    BY <2>1, <2>3 DEF Steps, ShapeInv, PlaneInv
  <2>5. Moves(c, r) /\ Repeats(c, r)
    BY <2>3, <2>4 DEF Moves, Repeats
  <2> QED  BY <1>2, <2>4, <2>5
<1>3. CASE ~(retry /\ request[c].attempt < MaxRetries)
  <2> DEFINE r == [request[c] EXCEPT !.state = "over", !.answer = "failed"]
  <2>1. Steps(c, r)
    BY <1>3 DEF Again
  <2>2. r \in Requests /\ r.op = request[c].op /\ r.state = "over" /\ r.answer = "failed"
        /\ r.step = request[c].step /\ r.puts = request[c].puts
    BY <1>1 DEF Requests
  <2> HIDE DEF r
  <2>3. request' = [request EXCEPT ![c] = r] /\ alone' = FALSE /\ agreed' = agreed
    BY <2>1, <2>2 DEF Steps
  <2>4. Moves(c, r) /\ CallEnds(c, r, "failed")
    BY <2>2, <2>3 DEF Moves, CallEnds
  <2> QED  BY <2>3, <2>4
<1> QED  BY <1>2, <1>3

LEMMA ThrottledStep ==
  ASSUME ShapeInv, NEW c \in Requesters, NEW delay \in Backoff, Throttled(c, delay)
  PROVE  agreed' = agreed /\ \E r : Retried(c, r)
PROOF
<1>1. /\ request[c] \in Requests /\ request[c].answer = "none" /\ MaxRetries \in Nat /\ MaxThrottleWait \in Nat
      /\ delay \in Nat /\ Attempt(c) \in wire /\ wire' = wire \ {Attempt(c)}
  BY ApiAssumption DEF ShapeInv, Throttled, Backoff
<1>2. CASE Throttles(request[c]) /\ Waited(request[c], delay) < MaxThrottleWait
  <2> DEFINE r == [request[c] EXCEPT !.state = "sending", !.attempt = 0, !.waited = Waited(request[c], delay)]
  <2>1. Steps(c, r)
    BY <1>2 DEF Throttled
  <2>2. Waited(request[c], delay) \in 0..MaxThrottleWait /\ 0 \in 0..MaxRetries
    BY <1>1, <1>2 DEF Requests, Waited
  <2>3. r \in Requests /\ r.op = request[c].op /\ r.state = "sending" /\ r.answer = "none"
        /\ r.step = request[c].step /\ r.puts = request[c].puts
    BY <1>1, <2>2 DEF Requests
  <2> HIDE DEF r
  <2>4. request' = [request EXCEPT ![c] = r] /\ alone' = alone /\ agreed' = agreed
    BY <2>1, <2>3 DEF Steps, ShapeInv, PlaneInv
  <2>5. Moves(c, r) /\ Repeats(c, r)
    BY <2>3, <2>4 DEF Moves, Repeats
  <2> QED  BY <1>1, <2>4, <2>5 DEF Retried
<1>3. CASE ~(Throttles(request[c]) /\ Waited(request[c], delay) < MaxThrottleWait)
  <2> DEFINE r == [request[c] EXCEPT !.state = "over", !.answer = "failed"]
  <2>1. Steps(c, r)
    BY <1>3 DEF Throttled
  <2>2. r \in Requests /\ r.op = request[c].op /\ r.state = "over" /\ r.answer = "failed"
        /\ r.step = request[c].step /\ r.puts = request[c].puts
    BY <1>1 DEF Requests
  <2> HIDE DEF r
  <2>3. request' = [request EXCEPT ![c] = r] /\ alone' = FALSE /\ agreed' = agreed
    BY <2>1, <2>2 DEF Steps
  <2>4. Moves(c, r) /\ CallEnds(c, r, "failed")
    BY <2>2, <2>3 DEF Moves, CallEnds
  <2> QED  BY <1>1, <2>3, <2>4 DEF Retried
<1> QED  BY <1>2, <1>3

LEMMA LoopStep ==
  ASSUME ShapeInv, NEW c \in Requesters, Loop(c)
  PROVE  /\ request[c].state = "waiting" /\ UNCHANGED <<agreed, told, made, branch, gone, setting>>
         /\ \E r : Retried(c, r)
PROOF
<1>1. CASE ConnectFails(c)
  BY <1>1, AgainStep DEF ConnectFails, Server, Retried
<1>2. CASE AnswerFails(c)
  <2>1. agreed' = agreed /\ \E r : /\ Moves(c, r)
                                   /\ \/ Mode(request[c]) = "transient" /\ Repeats(c, r) /\ alone' = alone
                                      \/ CallEnds(c, r, "failed") /\ alone' = FALSE
    BY <1>2, AgainStep DEF AnswerFails
  <2>2. PICK r : /\ Moves(c, r)
                 /\ \/ Mode(request[c]) = "transient" /\ Repeats(c, r) /\ alone' = alone
                    \/ CallEnds(c, r, "failed") /\ alone' = FALSE
    BY <2>1
  <2>3. Retried(c, r)
    BY <1>2, <2>2 DEF AnswerFails, Retried, CallEnds, Repeats
  <2> QED  BY <1>2, <2>1, <2>3 DEF AnswerFails, Server
<1>3. CASE \E delay \in Backoff : Throttled(c, delay)
  BY <1>3, ThrottledStep DEF Throttled, Server
<1> QED  BY <1>1, <1>2, <1>3 DEF Loop

\* The answer to the attempt the call waits for: it sends its next request, or
\* ends.
Told(c, r, how) ==
  /\ Moves(c, r) /\ alone' = alone
  /\ \/ Proceeds(c, r) /\ how = "ok" /\ agreed' = agreed
     \/ /\ CallEnds(c, r, how) /\ agreed' = IF how = "ok" THEN Promised(request[c].op, agreed) ELSE agreed
        /\ how = "ok" => request[c].step = Len(request[c].op.requests) \/ Unchanging(request[c].op, setting)

LEMMA AnswerStep ==
  ASSUME ShapeInv, NEW a \in wire, NEW how \in {"ok", "conflict", "notFound"}, NEW says, Answers(a, how, says)
  PROVE  /\ wire' = wire \ {a}
         /\ \/ UNCHANGED <<request, agreed, told, alone>>
            \/ /\ request[a.by].state = "waiting" /\ a = Attempt(a.by) /\ told' = says
               /\ \E r : Told(a.by, r, how)
PROOF
<1>1. wire' = wire \ {a}
  BY DEF Answers
<1>2. PICK c : c = a.by
  OBVIOUS
<1>3. c \in Requesters /\ request[c] \in Requests
  BY <1>2 DEF ShapeInv, Attempts
<1>4. CASE UNCHANGED <<request, agreed, told, alone>>
  BY <1>1, <1>4
<1>5. CASE /\ request[c].state = "waiting" /\ a = Attempt(c)
           /\ Steps(c, AfterAnswer(request[c], how)) /\ told' = says
  <2>1. request[c].answer = "none" /\ request[c].step \in 1..Len(request[c].op.requests)
        /\ Len(request[c].op.requests) \in {1, 2}
    BY <1>3, <1>5, RequestsOf DEF ShapeInv, Requests
  <2>2. CASE how = "ok" /\ request[c].step < Len(request[c].op.requests) /\ ~Unchanging(request[c].op, setting)
    <3>1. request[c].step = 1 /\ request[c].step + 1 = 2 /\ Len(request[c].op.requests) = 2
      <4>1. PICK s \in {1, 2} : request[c].step = s
        BY <1>3 DEF Requests
      <4>2. PICK n \in {1, 2} : Len(request[c].op.requests) = n
        BY <2>1
      <4>3. s < n
        BY <2>2, <4>1, <4>2
      <4> QED  BY <4>1, <4>2, <4>3
    <3>2. Edited(request[c].op, setting) \in SUBSET Addresses /\ 0 \in 0..MaxRetries
      <4>1. request[c].op \in Operations \cup {NoOperation} /\ setting \in SUBSET Addresses
        BY <1>3 DEF ShapeInv, PlaneInv, Requests
      <4> QED  BY <4>1, PromisesAddresses, ApiAssumption
    <3> DEFINE r == [request[c] EXCEPT !.state = "sending", !.step = @ + 1, !.attempt = 0,
                                       !.puts = Edited(request[c].op, setting)]
    <3>3. Steps(c, r)
      BY <1>5, <2>2 DEF AfterAnswer
    <3>4. r \in Requests /\ r.op = request[c].op /\ r.state = "sending" /\ r.step = 2
          /\ r.puts = Edited(request[c].op, setting) /\ r.answer = "none"
      BY <1>3, <2>1, <3>1, <3>2 DEF Requests
    <3> HIDE DEF r
    <3>5. request' = [request EXCEPT ![c] = r] /\ alone' = alone /\ agreed' = agreed
      BY <3>3, <3>4 DEF Steps, ShapeInv, PlaneInv
    <3>6. Moves(c, r) /\ Proceeds(c, r)
      BY <2>2, <3>1, <3>4, <3>5 DEF Moves, Proceeds
    <3>7. Told(c, r, how)
      BY <2>2, <3>5, <3>6 DEF Told
    <3> QED  BY <1>1, <1>2, <1>5, <3>7
  <2>3. CASE ~(how = "ok" /\ request[c].step < Len(request[c].op.requests) /\ ~Unchanging(request[c].op, setting))
    <3> DEFINE r == [request[c] EXCEPT !.state = "over", !.answer = how]
    <3>1. Steps(c, r)
      BY <1>5, <2>3 DEF AfterAnswer
    <3>2. r \in Requests /\ r.op = request[c].op /\ r.state = "over" /\ r.answer = how
          /\ r.step = request[c].step /\ r.puts = request[c].puts
      BY <1>3 DEF Requests
    <3> HIDE DEF r
    <3>3. request' = [request EXCEPT ![c] = r] /\ alone' = alone
          /\ agreed' = IF how = "ok" THEN Promised(request[c].op, agreed) ELSE agreed
      BY <3>1, <3>2 DEF Steps, ShapeInv, PlaneInv
    <3>4. Moves(c, r) /\ CallEnds(c, r, how)
      BY <3>2, <3>3 DEF Moves, CallEnds
    <3>5. how = "ok" => request[c].step = Len(request[c].op.requests) \/ Unchanging(request[c].op, setting)
      BY <2>1, <2>3
    <3>6. Told(c, r, how)
      BY <3>3, <3>4, <3>5 DEF Told
    <3> QED  BY <1>1, <1>2, <1>5, <3>6
  <2> QED  BY <2>2, <2>3
<1> QED  BY <1>2, <1>4, <1>5 DEF Answers

-----------------------------------------------------------------------------
(* The types are kept. *)

LEMMA ShapeKept ==
  ASSUME ShapeInv, PlaneInv', NEW c \in Requesters, NEW r, Moves(c, r), request[c].state # "idle",
         r.state # "idle", r.step \in 1..Len(r.op.requests), request[c].step <= r.step,
         (r.state # "over") <=> (r.answer = "none"),
         wire' \subseteq wire \cup {Attempt(c)}
  PROVE  ShapeInv'
PROOF
<1>1. /\ request \in [Requesters -> Requests] /\ request' \in [Requesters -> Requests]
      /\ \A d \in Requesters : request'[d] = IF d = c THEN r ELSE request[d]
  BY DEF ShapeInv, Moves
<1>2. request[c].op \in Operations /\ r.op = request[c].op /\ request[c] \in Requests
  BY <1>1 DEF ShapeInv, Moves
<1>3. /\ Attempt(c) \in Attempts /\ Attempt(c).by = c /\ Attempt(c).step = request[c].step
      /\ request[c].step \in {1, 2}
  BY <1>2 DEF Attempt, Attempts, Requests
<1>4. wire' \subseteq Attempts
  BY <1>3 DEF ShapeInv
<1>5. ASSUME NEW d \in Requesters
      PROVE  /\ request'[d].step \in 1..Len(request'[d].op.requests)
             /\ request'[d].state = "idle" => request'[d] = NotAsked
             /\ request'[d].state # "idle" => request'[d].op \in Operations
             /\ (request'[d].state # "over") <=> (request'[d].answer = "none")
  <2>1. CASE d = c
    BY <1>1, <1>2, <2>1
  <2>2. CASE d # c
    <3>1. request'[d] = request[d]
      BY <1>1, <2>2
    <3> QED  BY <3>1 DEF ShapeInv
  <2> QED  BY <2>1, <2>2
<1>6. ASSUME NEW a \in wire' PROVE request'[a.by].state # "idle" /\ a.step <= request'[a.by].step
  <2>1. a.by \in Requesters /\ a.step \in {1, 2}
    BY <1>4 DEF Attempts
  <2>2. request[a.by].state # "idle" /\ a.step <= request[a.by].step
    <3>1. CASE a \in wire
      BY <3>1 DEF ShapeInv
    <3>2. CASE a = Attempt(c)
      BY <1>3, <3>2
    <3> QED  BY <3>1, <3>2
  <2>3. CASE a.by = c
    <3>1. PICK i \in {1, 2}, j \in {1, 2} : request[c].step = i /\ r.step = j
      BY <1>3 DEF Moves, Requests
    <3>2. a.step <= i /\ i <= j
      BY <2>2, <2>3, <3>1
    <3>3. a.step <= j
      BY <2>1, <3>2
    <3> QED  BY <1>1, <2>1, <2>3, <3>1, <3>3
  <2>4. CASE a.by # c
    BY <1>1, <2>1, <2>2, <2>4
  <2> QED  BY <2>3, <2>4
<1> QED  BY <1>1, <1>4, <1>5, <1>6 DEF ShapeInv

\* A step by which no call moves.
LEMMA ShapeRests ==
  ASSUME ShapeInv, PlaneInv', request' = request, wire' \subseteq wire
  PROVE  ShapeInv'
  BY DEF ShapeInv

LEMMA BeginShape ==
  ASSUME ShapeInv, NEW c \in Requesters, NEW op \in Operations, Begin(c, op)
  PROVE  ShapeInv'
PROOF
<1>1. PICK r \in Requests :
        /\ request' = [request EXCEPT ![c] = r]
        /\ r.op = op /\ r.state = "sending" /\ r.step = 1 /\ r.puts = op.to /\ r.answer = "none"
  BY BeginStep
<1>2. /\ request \in [Requesters -> Requests] /\ request' \in [Requesters -> Requests]
      /\ \A d \in Requesters : request'[d] = IF d = c THEN r ELSE request[d]
  BY <1>1 DEF ShapeInv
<1>3. request[c].state = "idle" /\ wire' = wire
  BY BeginStep
<1>4. PlaneInv'
  BY BeginStep DEF ShapeInv, PlaneInv
<1>5. 1 \in 1..Len(op.requests)
  BY RequestsOf
<1>6. ASSUME NEW d \in Requesters
      PROVE  /\ request'[d].step \in 1..Len(request'[d].op.requests)
             /\ request'[d].state = "idle" => request'[d] = NotAsked
             /\ request'[d].state # "idle" => request'[d].op \in Operations
             /\ (request'[d].state # "over") <=> (request'[d].answer = "none")
  <2>1. CASE d = c
    BY <1>1, <1>2, <1>5, <2>1
  <2>2. CASE d # c
    <3>1. request'[d] = request[d]
      BY <1>2, <2>2
    <3> QED  BY <3>1 DEF ShapeInv
  <2> QED  BY <2>1, <2>2
<1>7. ASSUME NEW a \in wire' PROVE request'[a.by].state # "idle" /\ a.step <= request'[a.by].step
  <2>1. a \in wire /\ a.by \in Requesters /\ request[a.by].state # "idle" /\ a.step <= request[a.by].step
    BY <1>3 DEF ShapeInv, Attempts
  <2>2. a.by # c
    BY <1>3, <2>1
  <2> QED  BY <1>2, <2>1, <2>2
<1> QED  BY <1>2, <1>3, <1>4, <1>6, <1>7 DEF ShapeInv

LEMMA SendShape ==
  ASSUME ShapeInv, NEW c \in Requesters, Send(c)
  PROVE  ShapeInv'
PROOF
<1>1. PICK r : /\ Moves(c, r) /\ r.state = "waiting" /\ r.answer = "none" /\ r.step = request[c].step
  BY SendStep
<1>2. PlaneInv' /\ request[c].state # "idle" /\ wire' \subseteq wire \cup {Attempt(c)}
  BY SendStep DEF ShapeInv, PlaneInv
<1>3. r.step \in 1..Len(r.op.requests) /\ request[c].step <= r.step
  BY <1>1 DEF ShapeInv, Moves, Requests
<1> QED  BY <1>1, <1>2, <1>3, ShapeKept

LEMMA LoopShape ==
  ASSUME ShapeInv, NEW c \in Requesters, Loop(c)
  PROVE  ShapeInv'
PROOF
<1>1. PICK r : Retried(c, r)
  BY LoopStep
<1>2. /\ r.state # "idle" /\ r.step = request[c].step /\ Moves(c, r)
      /\ (r.state # "over") <=> (r.answer = "none")
  BY <1>1 DEF Retried, Repeats, CallEnds
<1>3. PlaneInv' /\ request[c].state # "idle" /\ wire' \subseteq wire \cup {Attempt(c)}
  BY <1>1, LoopStep DEF Retried, ShapeInv, PlaneInv
<1>4. r.step \in 1..Len(r.op.requests) /\ request[c].step <= r.step
  BY <1>2 DEF ShapeInv, Moves, Requests
<1> QED  BY <1>2, <1>3, <1>4, ShapeKept

IsAnswered == {"ok", "conflict", "notFound"}

LEMMA AnswerShape ==
  ASSUME ShapeInv, NEW a \in wire, NEW how \in IsAnswered, NEW says \in SUBSET Addresses, Answers(a, how, says),
         made' \in [Requesters -> Nat], {branch', gone'} \subseteq Requesters \cup {NoOne}, setting' \subseteq Addresses
  PROVE  ShapeInv'
PROOF
<1>1. wire' = wire \ {a} /\ a.by \in Requesters /\ how # "none"
  BY AnswerStep DEF ShapeInv, Attempts, IsAnswered
<1>2. CASE UNCHANGED <<request, agreed, told, alone>>
  <2>1. PlaneInv'
    BY <1>2 DEF ShapeInv, PlaneInv
  <2> QED  BY <1>1, <1>2, <2>1, ShapeRests
<1>3. CASE request[a.by].state = "waiting" /\ told' = says /\ \E r : Told(a.by, r, how)
  <2>1. PICK c : c = a.by
    OBVIOUS
  <2>2. PICK r : Told(c, r, how)
    BY <1>3, <2>1
  <2>3. c \in Requesters /\ request[c].state = "waiting" /\ request[c] \in Requests
    BY <1>1, <1>3, <2>1 DEF ShapeInv
  <2>4. Promised(request[c].op, agreed) \in SUBSET Addresses
    <3>1. request[c].op \in Operations \cup {NoOperation} /\ agreed \in SUBSET Addresses
      BY <2>3 DEF ShapeInv, PlaneInv, Requests
    <3> QED  BY <3>1, PromisesAddresses
  <2>5. PlaneInv'
    <3>1. agreed' \subseteq Addresses /\ alone' \in BOOLEAN
      BY <2>2, <2>4 DEF Told, ShapeInv, PlaneInv
    <3> QED  BY <1>3, <3>1 DEF PlaneInv
  <2>6. Moves(c, r) /\ r.state # "idle" /\ ((r.state # "over") <=> (r.answer = "none"))
    BY <1>1, <2>2 DEF Told, Proceeds, CallEnds
  <2>7. r.step \in 1..Len(r.op.requests) /\ request[c].step <= r.step
    <3>1. CASE Proceeds(c, r)
      BY <2>6, <3>1 DEF Proceeds, Moves
    <3>2. CASE CallEnds(c, r, how)
      BY <2>3, <2>6, <3>2 DEF CallEnds, Moves, ShapeInv, Requests
    <3> QED  BY <2>2, <3>1, <3>2 DEF Told
  <2> QED  BY <1>1, <2>3, <2>5, <2>6, <2>7, ShapeKept
<1> QED  BY <1>2, <1>3, AnswerStep DEF IsAnswered

LEMMA NextShape ==
  ASSUME ShapeInv, [ApiNext]_apiVars
  PROVE  ShapeInv'
PROOF
<1>1. CASE \E c \in Requesters, op \in Operations : Begin(c, op)
  BY <1>1, BeginShape
<1>2. CASE \E c \in Requesters : Send(c)
  BY <1>2, SendShape
<1>3. CASE \E c \in Requesters : Loop(c)
  BY <1>3, LoopShape
<1>4. ASSUME NEW a \in wire, ExecuteRead(a) \/ ExecuteCreation(a) \/ ExecuteBranch(a) \/ ExecuteRemoval(a) \/ ExecutePut(a)
      PROVE  ShapeInv'
  <2>1. PICK c \in Requesters : c = a.by
    BY DEF ShapeInv, Attempts
  <2>2. a.puts \in SUBSET Addresses /\ setting \in SUBSET Addresses /\ told \in SUBSET Addresses /\ PlaneInv
    BY DEF ShapeInv, PlaneInv, Attempts
  <2>3. "ok" \in IsAnswered /\ "conflict" \in IsAnswered /\ "notFound" \in IsAnswered
    BY DEF IsAnswered
  <2>4. CASE ExecuteRead(a)
    BY <2>2, <2>3, <2>4, AnswerShape DEF ExecuteRead, Server, PlaneInv
  <2>5. CASE ExecuteCreation(a)
    <3>1. made[c] + 1 \in Nat /\ made \in [Requesters -> Nat]
      BY <2>2 DEF PlaneInv
    <3>2. made' \in [Requesters -> Nat]
      BY <2>1, <2>5, <3>1 DEF ExecuteCreation
    <3> QED  BY <2>2, <2>3, <2>5, <3>2, AnswerShape DEF ExecuteCreation, PlaneInv
  <2>6. CASE ExecuteBranch(a)
    <3>1. branch' \in Requesters \cup {NoOne}
      BY <2>1, <2>2, <2>6 DEF ExecuteBranch, PlaneInv
    <3> QED  BY <2>2, <2>3, <2>6, <3>1, AnswerShape DEF ExecuteBranch, PlaneInv
  <2>7. CASE ExecuteRemoval(a)
    <3>1. gone' \in Requesters \cup {NoOne}
      BY <2>1, <2>2, <2>7 DEF ExecuteRemoval, PlaneInv
    <3> QED  BY <2>2, <2>3, <2>7, <3>1, AnswerShape DEF ExecuteRemoval, PlaneInv
  <2>8. CASE ExecutePut(a)
    BY <2>2, <2>3, <2>8, AnswerShape DEF ExecutePut, PlaneInv
  <2> QED  BY <1>4, <2>4, <2>5, <2>6, <2>7, <2>8
<1>5. CASE UNCHANGED apiVars
  BY <1>5 DEF apiVars, ShapeInv, PlaneInv
<1> QED  BY <1>1, <1>2, <1>3, <1>4, <1>5 DEF ApiNext, Loop

-----------------------------------------------------------------------------
(* All calls are on one thing. *)

\* The arrival of a at the control plane.
Arrives(a) == ExecuteRead(a) \/ ExecuteCreation(a) \/ ExecuteBranch(a) \/ ExecuteRemoval(a) \/ ExecutePut(a)

\* A call only moves on: nobody begins, and all stay with their operation.
SameOps == Begun' = Begun /\ \A d \in Requesters : request'[d].op = request[d].op

LEMMA MovesSameOps ==
  ASSUME ShapeInv, NEW c \in Requesters, NEW r, Moves(c, r), r.state # "idle", request[c].state # "idle"
  PROVE  SameOps
PROOF
<1>1. \A d \in Requesters : request'[d] = IF d = c THEN r ELSE request[d]
  BY DEF ShapeInv, Moves
<1>2. \A d \in Requesters : request'[d].op = request[d].op /\ (request'[d].state = "idle" <=> request[d].state = "idle")
  BY <1>1 DEF Moves
<1> QED  BY <1>2 DEF SameOps, Begun

LEMMA ArrivalAnswers ==
  ASSUME ShapeInv, NEW a \in wire, Arrives(a)
  PROVE  \E how \in IsAnswered, says \in SUBSET Addresses : Answers(a, how, says)
PROOF
<1>1. a.puts \in SUBSET Addresses /\ setting \in SUBSET Addresses /\ told \in SUBSET Addresses
  BY DEF ShapeInv, PlaneInv, Attempts
<1>2. "ok" \in IsAnswered /\ "conflict" \in IsAnswered /\ "notFound" \in IsAnswered
  BY DEF IsAnswered
<1>3. CASE ExecuteRead(a)
  BY <1>1, <1>2, <1>3 DEF ExecuteRead
<1>4. CASE ExecuteCreation(a)
  BY <1>1, <1>2, <1>4 DEF ExecuteCreation
<1>5. CASE ExecuteBranch(a)
  BY <1>1, <1>2, <1>5 DEF ExecuteBranch
<1>6. CASE ExecuteRemoval(a)
  BY <1>1, <1>2, <1>6 DEF ExecuteRemoval
<1>7. CASE ExecutePut(a)
  BY <1>1, <1>2, <1>7 DEF ExecutePut
<1> QED  BY <1>3, <1>4, <1>5, <1>6, <1>7 DEF Arrives

LEMMA ArrivalSameOps ==
  ASSUME ShapeInv, NEW a \in wire, Arrives(a)
  PROVE  SameOps
PROOF
<1>1. PICK how \in IsAnswered : \E says \in SUBSET Addresses : Answers(a, how, says)
  BY ArrivalAnswers
<1>2. PICK says \in SUBSET Addresses : Answers(a, how, says)
  BY <1>1
<1>3. CASE request' = request
  BY <1>3 DEF SameOps, Begun
<1>4. CASE request[a.by].state = "waiting" /\ \E r : Told(a.by, r, how)
  <2>1. PICK c : c = a.by
    OBVIOUS
  <2>2. PICK r : Told(c, r, how)
    BY <1>4, <2>1
  <2>3. c \in Requesters /\ Moves(c, r) /\ r.state # "idle" /\ request[c].state # "idle"
    BY <1>4, <2>1, <2>2 DEF ShapeInv, Attempts, Told, Proceeds, CallEnds
  <2> QED  BY <2>3, MovesSameOps
<1> QED  BY <1>2, <1>3, <1>4, AnswerStep DEF IsAnswered

LEMMA CallSameOps ==
  ASSUME ShapeInv, NEW c \in Requesters, Send(c) \/ Loop(c)
  PROVE  SameOps
PROOF
<1>1. CASE Send(c)
  <2>1. PICK r : Moves(c, r) /\ r.state = "waiting"
    BY <1>1, SendStep
  <2> QED  BY <1>1, <2>1, SendStep, MovesSameOps
<1>2. CASE Loop(c)
  <2>1. PICK r : Retried(c, r)
    BY <1>2, LoopStep
  <2>2. Moves(c, r) /\ r.state # "idle"
    BY <2>1 DEF Retried, Repeats, CallEnds
  <2> QED  BY <1>2, <2>2, LoopStep, MovesSameOps
<1> QED  BY <1>1, <1>2

\* Without a call on a setting, there is none.
NoSetting == setting = {} /\ agreed = {} /\ told = {}
NotOnSettings == \A c \in Begun : request[c].op.does \notin SettingDoes

LEMMA OneThingKept ==
  ASSUME OneThing, SameOps, NotOnSettings => NoSetting'
  PROVE  OneThing'
  BY DEF OneThing, SameOps, NotOnSettings, NoSetting, Begun

LEMMA BeginOneThing ==
  ASSUME ShapeInv, OneThing, NEW c \in Requesters, NEW op \in Operations, Begin(c, op)
  PROVE  OneThing'
PROOF
<1>1. PICK r \in Requests : request' = [request EXCEPT ![c] = r] /\ r.op = op /\ r.state = "sending"
  BY BeginStep
<1>2. /\ \A d \in Requesters : request'[d] = IF d = c THEN r ELSE request[d]
      /\ \A d \in Begun : request[d].op.on = op.on
      /\ UNCHANGED <<setting, agreed, told>> /\ request[c].state = "idle"
  BY <1>1, BeginStep DEF ShapeInv
<1>3. Begun' = Begun \cup {c} /\ c \notin Begun /\ Begun \subseteq Requesters
  BY <1>1, <1>2 DEF Begun
<1>4. \A d \in Begun' : request'[d].op.on = op.on
  BY <1>1, <1>2, <1>3
<1>5. ASSUME NotOnSettings' PROVE NoSetting'
  <2>1. NotOnSettings
    BY <1>2, <1>3, <1>5 DEF NotOnSettings
  <2> QED  BY <1>2, <2>1 DEF OneThing, NotOnSettings, NoSetting
<1> QED  BY <1>4, <1>5 DEF OneThing, NotOnSettings, NoSetting

LEMMA ArrivalOneThing ==
  ASSUME ShapeInv, OneThing, NEW a \in wire, Arrives(a)
  PROVE  OneThing'
PROOF
<1>1. PICK c : c = a.by
  OBVIOUS
<1>2. c \in Begun /\ c \in Requesters /\ request[c].op \in Operations
  BY <1>1 DEF ShapeInv, Attempts, Begun
<1>3. ASSUME NotOnSettings PROVE NoSetting'
  <2>1. NoSetting /\ request[c].op.does \notin SettingDoes
    BY <1>2, <1>3 DEF OneThing, NoSetting, NotOnSettings
  <2>2. Promised(request[c].op, agreed) = {}
    <3>1. request[c].op.to = {}
      BY <1>2, <2>1, Kinds DEF OfMaking, OfBranch, OfRemoval, OfSetting, SettingDoes
    <3> QED  BY <2>1, <3>1 DEF Promised, SettingDoes
  <2>3. ~ExecutePut(a)
    BY <1>1, <2>1 DEF ExecutePut, Executes, SettingDoes
  <2>4. setting' = setting /\ \E how \in IsAnswered : Answers(a, how, {})
    <3>1. "ok" \in IsAnswered /\ "conflict" \in IsAnswered /\ "notFound" \in IsAnswered /\ told = {} /\ setting = {}
      BY <2>1 DEF IsAnswered, NoSetting
    <3>2. CASE ExecuteRead(a)
      BY <3>1, <3>2 DEF ExecuteRead, Server
    <3>3. CASE ExecuteCreation(a)
      BY <3>1, <3>3 DEF ExecuteCreation
    <3>4. CASE ExecuteBranch(a)
      BY <3>1, <3>4 DEF ExecuteBranch
    <3>5. CASE ExecuteRemoval(a)
      BY <3>1, <3>5 DEF ExecuteRemoval
    <3> QED  BY <2>3, <3>2, <3>3, <3>4, <3>5 DEF Arrives
  <2>5. PICK how \in IsAnswered : Answers(a, how, {})
    BY <2>4
  <2>6. CASE UNCHANGED <<agreed, told>>
    BY <2>1, <2>4, <2>6 DEF NoSetting
  <2>7. CASE told' = {} /\ \E r : Told(c, r, how)
    BY <2>1, <2>2, <2>4, <2>7 DEF NoSetting, Told
  <2> QED  BY <1>1, <2>5, <2>6, <2>7, AnswerStep DEF IsAnswered
<1> QED  BY <1>3, ArrivalSameOps, OneThingKept

LEMMA NextOneThing ==
  ASSUME ShapeInv, OneThing, [ApiNext]_apiVars
  PROVE  OneThing'
PROOF
<1>1. CASE \E c \in Requesters, op \in Operations : Begin(c, op)
  BY <1>1, BeginOneThing
<1>2. ASSUME NEW c \in Requesters, Send(c) \/ Loop(c) PROVE OneThing'
  <2>1. UNCHANGED <<setting, agreed, told>>
    BY <1>2, SendStep, LoopStep
  <2>2. NotOnSettings => NoSetting'
    BY <2>1 DEF OneThing, NotOnSettings, NoSetting
  <2> QED  BY <1>2, <2>2, CallSameOps, OneThingKept
<1>3. CASE \E a \in wire : Arrives(a)
  BY <1>3, ArrivalOneThing
<1>4. CASE UNCHANGED apiVars
  BY <1>4 DEF apiVars, OneThing, Begun
<1> QED  BY <1>1, <1>2, <1>3, <1>4 DEF ApiNext, Loop, Arrives

-----------------------------------------------------------------------------
(* What a call has done, and what it was told of others. *)

\* A step that is not of call d.
RestsAt(d) ==
  /\ request'[d] = request[d] /\ made'[d] = made[d] /\ (gone' = d <=> gone = d)
  /\ FirstOnWire(d)' = FirstOnWire(d)
\* What was decided stays.
Decided == (branch # NoOne => branch' = branch) /\ (gone # NoOne => gone' = gone)

CallInv(c) == OnceInv(c) /\ HonestInv(c)

LEMMA RestingKeeps ==
  ASSUME NEW d \in Requesters, CallInv(d), RestsAt(d), Decided
  PROVE  CallInv(d)'
PROOF
<1>1. OnceInv(d)'
  <2>1. Effective(d)' <=> Effective(d)
    BY DEF RestsAt, Effective
  <2>2. Attempt(d)' = Attempt(d)
    BY DEF RestsAt, Attempt
  <2> QED  BY <2>1, <2>2 DEF CallInv, OnceInv, RestsAt
<1>2. HonestInv(d)'
  BY DEF CallInv, HonestInv, RestsAt, Decided
<1> QED  BY <1>1, <1>2 DEF CallInv

\* The attempts of d are untouched by what is sent or taken of another's.
LEMMA OthersOnWire ==
  ASSUME NEW c, NEW d, d # c, \A a \in wire' : a \in wire \/ a.by = c, \A a \in wire : a \in wire' \/ a.by = c
  PROVE  FirstOnWire(d)' = FirstOnWire(d)
  BY DEF FirstOnWire

LEMMA BeginCall ==
  ASSUME ShapeInv, NEW c \in Requesters, NEW op \in Operations, Begin(c, op), NEW d \in Requesters, CallInv(d)
  PROVE  CallInv(d)'
PROOF
<1>1. PICK r \in Requests :
        /\ request' = [request EXCEPT ![c] = r]
        /\ r.op = op /\ r.state = "sending" /\ r.step = 1 /\ r.puts = op.to /\ r.answer = "none"
  BY BeginStep
<1>2. /\ UNCHANGED <<wire, made, branch, gone>> /\ request[c].state = "idle"
      /\ \A e \in Requesters : request'[e] = IF e = c THEN r ELSE request[e]
  BY <1>1, BeginStep DEF ShapeInv
<1>3. FirstOnWire(d)' = FirstOnWire(d)
  BY <1>2 DEF FirstOnWire
<1>4. CASE d = c
  <2>1. NoOperation.mode = "none"
    BY DEF NoOperation, Operation
  <2>2. request[c].op.mode # "transient" /\ request[c].step = 1
    BY <1>2, <2>1 DEF ShapeInv, NotAsked
  <2>3. ~Effective(c) /\ FirstOnWire(c) = {}
    BY <1>2, <1>4, <2>2 DEF CallInv, OnceInv
  <2>4. made[c] = 0 /\ gone # c /\ ~Effective(c)'
    BY <1>2, <2>3 DEF Effective
  <2>5. OnceInv(c)'
    BY <1>1, <1>2, <1>3, <1>4, <2>3, <2>4 DEF OnceInv
  <2>6. HonestInv(c)'
    BY <1>1, <1>2, <2>4 DEF HonestInv
  <2> QED  BY <1>4, <2>5, <2>6 DEF CallInv
<1>5. CASE d # c
  BY <1>2, <1>3, <1>5, RestingKeeps DEF RestsAt, Decided
<1> QED  BY <1>4, <1>5

LEMMA SendCall ==
  ASSUME ShapeInv, NEW c \in Requesters, Send(c), NEW d \in Requesters, CallInv(d)
  PROVE  CallInv(d)'
PROOF
<1>1. PICK r : /\ Moves(c, r) /\ r.state = "waiting" /\ r.answer = "none"
               /\ r.step = request[c].step /\ r.puts = request[c].puts /\ r.attempt = request[c].attempt
  BY SendStep
<1>2. /\ UNCHANGED <<made, branch, gone>> /\ request[c].state = "sending" /\ r.op = request[c].op
      /\ wire' = wire \cup {Attempt(c)} /\ Attempt(c).by = c /\ Attempt(c).step = request[c].step
      /\ \A e \in Requesters : request'[e] = IF e = c THEN r ELSE request[e]
  BY <1>1, SendStep DEF ShapeInv, Moves, Attempt
<1>3. CASE d = c
  <2>1. Attempt(c)' = Attempt(c)
    BY <1>1, <1>2 DEF Attempt
  <2>2. FirstOnWire(c)' = FirstOnWire(c) \cup {a \in {Attempt(c)} : request[c].step = 1}
    BY <1>2 DEF FirstOnWire
  <2>3. Effective(c)' <=> Effective(c)
    BY <1>2 DEF Effective
  <2>4. ASSUME request[c].op.mode # "transient" PROVE OnceInv(c)'
    <3>1. CASE request[c].step = 1
      <4>1. ~Effective(c) /\ FirstOnWire(c)' = {Attempt(c)}
        BY <1>2, <1>3, <2>2, <2>4, <3>1 DEF CallInv, OnceInv
      <4> QED  BY <1>1, <1>2, <2>1, <2>3, <4>1 DEF OnceInv
    <3>2. CASE request[c].step # 1
      <4>1. FirstOnWire(c)' = FirstOnWire(c)
        BY <2>2, <3>2
      <4> QED  BY <1>1, <1>2, <1>3, <2>3, <2>4, <3>2, <4>1 DEF CallInv, OnceInv
    <3> QED  BY <3>1, <3>2
  <2>5. OnceInv(c)'
    BY <1>2, <2>4 DEF OnceInv
  <2>6. HonestInv(c)'
    BY <1>1, <1>2, <1>3 DEF CallInv, HonestInv
  <2> QED  BY <1>3, <2>5, <2>6 DEF CallInv
<1>4. CASE d # c
  BY <1>2, <1>4, OthersOnWire, RestingKeeps DEF RestsAt, Decided
<1> QED  BY <1>3, <1>4

\* Outside the transient mode the first request writes, and the others read.
LEMMA FirstRequestWrites ==
  ASSUME NEW op \in Operations, op.mode # "transient"
  PROVE  op.requests[1] = "write" /\ \A i \in 1..Len(op.requests) : op.requests[i] = "write" => i = 1
PROOF
<1>1. op.requests \in {<<"write">>, <<"write", "read">>}
  BY Kinds DEF OfMaking, OfBranch, OfRemoval, OfSetting
<1> QED  BY <1>1

LEMMA LoopCall ==
  ASSUME ShapeInv, NEW c \in Requesters, Loop(c), NEW d \in Requesters, CallInv(d)
  PROVE  CallInv(d)'
PROOF
<1>1. PICK r : Retried(c, r)
  BY LoopStep
<1>2. /\ UNCHANGED <<made, branch, gone>> /\ request[c].state = "waiting"
      /\ Moves(c, r) /\ r.op = request[c].op /\ r.step = request[c].step
      /\ r.state \in {"sending", "over"} /\ r.answer \in {"none", "failed"}
      /\ \A e \in Requesters : request'[e] = IF e = c THEN r ELSE request[e]
      /\ wire' = wire \/ wire' = wire \ {Attempt(c)}
  BY <1>1, LoopStep DEF ShapeInv, Retried, Moves, Repeats, CallEnds
<1>3. CASE d = c
  <2>1. FirstOnWire(c)' \subseteq FirstOnWire(c)
    BY <1>2 DEF FirstOnWire
  <2>2. Effective(c)' <=> Effective(c)
    BY <1>2 DEF Effective
  <2>3. ASSUME request[c].op.mode # "transient", r.step = 1, r.state = "sending"
        PROVE  ~Effective(c) /\ FirstOnWire(c)' = {}
    <3>1. request[c].op \in Operations /\ request[c].op.requests[1] = "write"
      BY <1>2, <2>3, FirstRequestWrites DEF ShapeInv
    <3>2. Mode(request[c]) # "transient"
      BY <1>2, <2>3, <3>1 DEF Mode
    <3>3. Attempt(c) \in wire /\ wire' = wire \ {Attempt(c)}
      BY <1>1, <2>3, <3>2 DEF Retried, Repeats, CallEnds
    <3>4. Attempt(c) \in FirstOnWire(c)
      BY <1>2, <2>3, <3>3 DEF FirstOnWire, Attempt
    <3>5. \A a \in FirstOnWire(c) : a = Attempt(c)
      BY <1>2, <1>3, <2>3 DEF CallInv, OnceInv
    <3>6. ~Effective(c)
      BY <1>3, <2>3, <3>4 DEF CallInv, OnceInv
    <3> QED  BY <3>3, <3>5, <3>6 DEF FirstOnWire
  <2>4. OnceInv(c)'
    BY <1>2, <1>3, <2>1, <2>2, <2>3 DEF CallInv, OnceInv
  <2>5. HonestInv(c)'
    BY <1>2, <1>3 DEF CallInv, HonestInv
  <2> QED  BY <1>3, <2>4, <2>5 DEF CallInv
<1>4. CASE d # c
  <2>1. Attempt(c).by = c
    BY DEF Attempt
  <2>2. FirstOnWire(d)' = FirstOnWire(d)
    BY <1>2, <1>4, <2>1, OthersOnWire
  <2> QED  BY <1>2, <1>4, <2>2, RestingKeeps DEF RestsAt, Decided
<1> QED  BY <1>3, <1>4

\* The part of an arrival that is common to all: what becomes of the attempt, of
\* its call and of the others.
LEMMA ArrivalFrame ==
  ASSUME ShapeInv, NEW a \in wire, NEW how \in IsAnswered, NEW says, Answers(a, how, says)
  PROVE  /\ wire' = wire \ {a} /\ a.by \in Requesters /\ request[a.by].state # "idle"
         /\ request[a.by].op \in Operations /\ a.step \in 1..Len(request[a.by].op.requests)
         /\ \A d \in Requesters : d # a.by => request'[d] = request[d] /\ FirstOnWire(d)' = FirstOnWire(d)
         /\ request'[a.by].op = request[a.by].op
         /\ \/ request'[a.by] = request[a.by]
            \/ /\ request[a.by].state = "waiting" /\ a = Attempt(a.by)
               /\ request'[a.by].step # 1 \/ request'[a.by].state = "over"
               /\ request'[a.by].answer \in {"none", how}
PROOF
<1>1. PICK c \in Requesters : c = a.by
  BY DEF ShapeInv, Attempts
<1>2. wire' = wire \ {a} /\ request[c].state # "idle" /\ request[c].op \in Operations
  BY <1>1, AnswerStep DEF IsAnswered, ShapeInv
<1>3. a.step \in 1..Len(request[c].op.requests)
  <2>1. request[c] \in Requests /\ request[c].step \in 1..Len(request[c].op.requests)
    BY DEF ShapeInv
  <2>2. a.step \in {1, 2} /\ a.step <= request[c].step
    BY <1>1 DEF ShapeInv, Attempts
  <2>3. Len(request[c].op.requests) \in {1, 2} /\ request[c].step \in {1, 2}
    BY <2>1, RequestsOf DEF Requests
  <2>4. PICK i \in {1, 2} : request[c].step = i
    BY <2>3
  <2>5. PICK n \in {1, 2} : Len(request[c].op.requests) = n
    BY <2>3
  <2> QED  BY <2>1, <2>2, <2>4, <2>5
<1>4. \A d \in Requesters : d # c => FirstOnWire(d)' = FirstOnWire(d)
  BY <1>1, <1>2, OthersOnWire
<1>5. CASE request' = request
  BY <1>1, <1>2, <1>3, <1>4, <1>5
<1>6. CASE request[c].state = "waiting" /\ a = Attempt(c) /\ \E r : Told(c, r, how)
  <2>1. PICK r : Told(c, r, how)
    BY <1>6
  <2>2. Moves(c, r) /\ r.op = request[c].op /\ (r.step # 1 \/ r.state = "over") /\ r.answer \in {"none", how}
    BY <2>1 DEF Told, Moves, Proceeds, CallEnds
  <2>3. \A d \in Requesters : request'[d] = IF d = c THEN r ELSE request[d]
    BY <2>2 DEF Moves, ShapeInv
  <2> QED  BY <1>1, <1>2, <1>3, <1>4, <1>6, <2>2, <2>3
<1> QED  BY <1>1, <1>5, <1>6, AnswerStep DEF IsAnswered

LEMMA ArrivalOnce ==
  ASSUME ShapeInv, NEW a \in wire, NEW how \in IsAnswered, NEW says, Answers(a, how, says),
         NEW c \in Requesters, c = a.by, CallInv(c),
         Effective(c)' => Effective(c) \/ request[c].op.requests[a.step] = "write"
  PROVE  OnceInv(c)'
PROOF
<1> SUFFICES ASSUME request[c].op.mode # "transient" PROVE OnceInv(c)'
  BY ArrivalFrame DEF OnceInv
<1>1. FirstOnWire(c)' = FirstOnWire(c) \ {a}
  BY ArrivalFrame DEF FirstOnWire
<1>2. request[c].op.requests[a.step] = "write" => a.step = 1 /\ a \in FirstOnWire(c)
  BY ArrivalFrame, FirstRequestWrites DEF FirstOnWire
<1>3. a.step # 1 => ~(Effective(c)' /\ ~Effective(c))
  BY <1>2
<1>4. /\ \A x, y \in FirstOnWire(c) : x = y
      /\ Effective(c) => FirstOnWire(c) = {}
      /\ request[c].step = 1 /\ request[c].state = "sending" => ~Effective(c) /\ FirstOnWire(c) = {}
      /\ request[c].step = 1 /\ request[c].state = "waiting" => \A x \in FirstOnWire(c) : x = Attempt(c)
  BY DEF CallInv, OnceInv
<1>5. Effective(c)' => FirstOnWire(c)' = {}
  <2>1. CASE Effective(c)
    BY <1>1, <1>4, <2>1
  <2>2. CASE ~Effective(c)
    BY <1>1, <1>2, <1>4, <2>2
  <2> QED  BY <2>1, <2>2
<1>6. CASE request'[c] = request[c]
  <2>1. Attempt(c)' = Attempt(c)
    BY <1>6 DEF Attempt
  <2>2. request[c].state # "idle"
    BY ArrivalFrame
  <2>3. ASSUME request[c].step = 1, request[c].state = "sending" PROVE ~Effective(c)' /\ FirstOnWire(c)' = {}
    <3>1. FirstOnWire(c) = {} /\ ~Effective(c)
      BY <1>4, <2>3
    <3> QED  BY <1>1, <1>2, <3>1
  <2>4. ASSUME request[c].step = 1, request[c].state = "waiting"
        PROVE  \A x \in FirstOnWire(c)' : x = Attempt(c)
    BY <1>1, <1>4, <2>4
  <2> QED  BY <1>1, <1>4, <1>5, <1>6, <2>1, <2>2, <2>3, <2>4 DEF OnceInv
<1>7. CASE request'[c].step # 1 \/ request'[c].state = "over"
  BY <1>1, <1>4, <1>5, <1>7 DEF OnceInv
<1> QED  BY <1>6, <1>7, ArrivalFrame

LEMMA ReadCall ==
  ASSUME ShapeInv, NEW a \in wire, ExecuteRead(a), NEW d \in Requesters, CallInv(d)
  PROVE  CallInv(d)'
PROOF
<1>1. Answers(a, "ok", setting) /\ UNCHANGED <<made, branch, gone>> /\ "ok" \in IsAnswered
  BY DEF ExecuteRead, Server, IsAnswered
<1>2. CASE d = a.by
  <2>1. Effective(d)' <=> Effective(d)
    BY <1>1 DEF Effective
  <2>2. OnceInv(d)'
    BY <1>1, <1>2, <2>1, ArrivalOnce
  <2>3. HonestInv(d)'
    BY <1>1, <1>2, ArrivalFrame DEF CallInv, HonestInv
  <2> QED  BY <2>2, <2>3 DEF CallInv
<1>3. CASE d # a.by
  BY <1>1, <1>3, ArrivalFrame, RestingKeeps DEF RestsAt, Decided
<1> QED  BY <1>2, <1>3

LEMMA PutCall ==
  ASSUME ShapeInv, NEW a \in wire, ExecutePut(a), NEW d \in Requesters, CallInv(d)
  PROVE  CallInv(d)'
PROOF
<1>1. Answers(a, "ok", a.puts) /\ UNCHANGED <<made, branch, gone>> /\ "ok" \in IsAnswered
  BY DEF ExecutePut, IsAnswered
<1>2. CASE d = a.by
  <2>1. Effective(d)' <=> Effective(d)
    BY <1>1 DEF Effective
  <2>2. OnceInv(d)'
    BY <1>1, <1>2, <2>1, ArrivalOnce
  <2>3. HonestInv(d)'
    BY <1>1, <1>2, ArrivalFrame DEF CallInv, HonestInv
  <2> QED  BY <2>2, <2>3 DEF CallInv
<1>3. CASE d # a.by
  BY <1>1, <1>3, ArrivalFrame, RestingKeeps DEF RestsAt, Decided
<1> QED  BY <1>2, <1>3

\* The first execution of a creation or of a removal outside the transient mode
\* is the only one.
LEMMA OnlyExecution ==
  ASSUME ShapeInv, NEW a \in wire, NEW c \in Requesters, c = a.by, CallInv(c), request[c].op \in Operations,
         request[c].op.mode # "transient", request[c].op.requests[a.step] = "write",
         a.step \in 1..Len(request[c].op.requests)
  PROVE  ~Effective(c)
PROOF
<1>1. a.step = 1
  BY FirstRequestWrites
<1>2. a \in FirstOnWire(c)
  BY <1>1 DEF FirstOnWire
<1> QED  BY <1>2 DEF CallInv, OnceInv

LEMMA CreationCall ==
  ASSUME ShapeInv, NEW a \in wire, ExecuteCreation(a), NEW d \in Requesters, CallInv(d)
  PROVE  CallInv(d)'
PROOF
<1>1. /\ Answers(a, "ok", told) /\ UNCHANGED <<branch, gone>> /\ "ok" \in IsAnswered
      /\ made' = [made EXCEPT ![a.by] = @ + 1] /\ made \in [Requesters -> Nat]
      /\ request[a.by].op.requests[a.step] = "write" /\ request[a.by].op.does \in {"make", "makeWhenThereIsRoom"}
  BY DEF ExecuteCreation, IsAnswered, ShapeInv, PlaneInv, Executes
<1>2. CASE d = a.by
  <2>1. OnceInv(d)'
    BY <1>1, <1>2, ArrivalOnce
  <2>2. request[d].op \in Operations /\ a.step \in 1..Len(request[d].op.requests)
    BY <1>1, <1>2, ArrivalFrame
  <2>3. request[d].op.mode # "transient"
    BY <1>1, <1>2, <2>2, Kinds DEF OfMaking, OfBranch, OfRemoval, OfSetting
  <2>4. ~Effective(d)
    BY <1>1, <1>2, <2>2, <2>3, OnlyExecution
  <2>5. made[d] = 0 /\ made'[d] = 1
    BY <1>1, <1>2, <2>4 DEF Effective
  <2>6. HonestInv(d)'
    BY <1>1, <1>2, <2>5, ArrivalFrame DEF CallInv, HonestInv
  <2> QED  BY <2>1, <2>6 DEF CallInv
<1>3. CASE d # a.by
  BY <1>1, <1>3, ArrivalFrame, RestingKeeps DEF RestsAt, Decided
<1> QED  BY <1>2, <1>3

LEMMA BranchCall ==
  ASSUME ShapeInv, NEW a \in wire, ExecuteBranch(a), NEW d \in Requesters, CallInv(d)
  PROVE  CallInv(d)'
PROOF
<1> DEFINE how == IF branch \in {NoOne, a.by} THEN "ok" ELSE "conflict"
<1>1. /\ Answers(a, how, told) /\ UNCHANGED <<made, gone>> /\ how \in IsAnswered
      /\ branch' = IF branch = NoOne THEN a.by ELSE branch
      /\ how = "conflict" => branch \notin {NoOne, a.by} /\ branch' = branch
      /\ how # "notFound" /\ how # "none"
  BY DEF ExecuteBranch, IsAnswered
<1> HIDE DEF how
<1>2. CASE d = a.by
  <2>1. Effective(d)' <=> Effective(d)
    BY <1>1 DEF Effective
  <2>2. OnceInv(d)'
    BY <1>1, <1>2, <2>1, ArrivalOnce
  <2>3. /\ request'[d].op = request[d].op
        /\ request'[d].answer \in {request[d].answer, "none", how}
    BY <1>1, <1>2, ArrivalFrame
  <2>4. request'[d].answer = "conflict" => branch' \notin {NoOne, d}
    BY <1>1, <1>2, <2>3 DEF CallInv, HonestInv
  <2>5. HonestInv(d)'
    BY <1>1, <2>3, <2>4 DEF CallInv, HonestInv
  <2> QED  BY <2>2, <2>5 DEF CallInv
<1>3. CASE d # a.by
  BY <1>1, <1>3, ArrivalFrame, RestingKeeps DEF RestsAt, Decided
<1> QED  BY <1>2, <1>3

LEMMA RemovalCall ==
  ASSUME ShapeInv, NEW a \in wire, ExecuteRemoval(a), NEW d \in Requesters, CallInv(d)
  PROVE  CallInv(d)'
PROOF
<1> DEFINE how == IF gone = NoOne THEN "ok" ELSE "notFound"
<1>1. /\ Answers(a, how, told) /\ UNCHANGED <<made, branch>> /\ how \in IsAnswered
      /\ gone' = IF gone = NoOne THEN a.by ELSE gone
      /\ how = "notFound" => gone # NoOne /\ gone' = gone
      /\ how # "conflict" /\ how # "none"
      /\ request[a.by].op.requests[a.step] = "write" /\ request[a.by].op.does = "remove"
  BY DEF ExecuteRemoval, IsAnswered, Executes
<1> HIDE DEF how
<1>2. CASE d = a.by
  <2>1. OnceInv(d)'
    BY <1>1, <1>2, ArrivalOnce
  <2>2. /\ request'[d].op = request[d].op /\ request'[d].answer \in {request[d].answer, "none", how}
        /\ request[d].op \in Operations /\ a.step \in 1..Len(request[d].op.requests)
    BY <1>1, <1>2, ArrivalFrame
  <2>3. ASSUME request'[d].answer = "notFound", request[d].op.mode # "transient" PROVE gone' \notin {NoOne, d}
    <3>1. CASE request[d].answer = "notFound"
      BY <1>1, <2>3, <3>1 DEF CallInv, HonestInv
    <3>2. CASE how = "notFound"
      <4>1. gone # d
        BY <1>1, <1>2, <2>2, <2>3, OnlyExecution DEF Effective
      <4> QED  BY <1>1, <3>2, <4>1
    <3> QED  BY <2>2, <2>3, <3>1, <3>2
  <2>4. HonestInv(d)'
    BY <1>1, <1>2, <2>2, <2>3 DEF CallInv, HonestInv
  <2> QED  BY <2>1, <2>4 DEF CallInv
<1>3. CASE d # a.by
  <2>1. gone' = d <=> gone = d
    BY <1>1, <1>3, ApiAssumption
  <2> QED  BY <1>1, <1>3, <2>1, ArrivalFrame, RestingKeeps DEF RestsAt, Decided
<1> QED  BY <1>2, <1>3

LEMMA NextCall ==
  ASSUME ShapeInv, [ApiNext]_apiVars, NEW d \in Requesters, CallInv(d)
  PROVE  CallInv(d)'
PROOF
<1>1. CASE \E c \in Requesters, op \in Operations : Begin(c, op)
  BY <1>1, BeginCall
<1>2. CASE \E c \in Requesters : Send(c)
  BY <1>2, SendCall
<1>3. CASE \E c \in Requesters : Loop(c)
  BY <1>3, LoopCall
<1>4. CASE \E a \in wire : Arrives(a)
  BY <1>4, ReadCall, CreationCall, BranchCall, RemovalCall, PutCall DEF Arrives
<1>5. CASE UNCHANGED apiVars
  <2>1. UNCHANGED <<request, wire, made, branch, gone>>
    BY <1>5 DEF apiVars
  <2>2. RestsAt(d) /\ Decided
    BY <2>1 DEF RestsAt, Decided, FirstOnWire
  <2> QED  BY <2>2, RestingKeeps
<1> QED  BY <1>1, <1>2, <1>3, <1>4, <1>5 DEF ApiNext, Loop, Arrives

-----------------------------------------------------------------------------
(* Calls that neither overlap nor fail. *)

\* A call on something else than a setting shares it with others like it.
LEMMA OnSomethingElse ==
  ASSUME ShapeInv, OneThing, NEW c \in Begun, request[c].op.does \notin SettingDoes
  PROVE  NotOnSettings
PROOF
<1>1. ASSUME NEW op \in Operations PROVE op.does \in SettingDoes <=> op.on \in SettingThings
  BY Kinds DEF OfMaking, OfBranch, OfRemoval, OfSetting, SettingDoes
<1>2. \A d \in Begun : request[d].op \in Operations /\ request[d].op.on = request[c].op.on
  BY DEF ShapeInv, OneThing, Begun
<1> QED  BY <1>1, <1>2 DEF NotOnSettings

LEMMA BeginAlone ==
  ASSUME ShapeInv, AloneInv, NEW c \in Requesters, NEW op \in Operations, Begin(c, op)
  PROVE  AloneInv'
PROOF
<1>1. PICK r \in Requests :
        /\ request' = [request EXCEPT ![c] = r]
        /\ r.op = op /\ r.state = "sending" /\ r.step = 1 /\ r.puts = op.to /\ r.answer = "none"
  BY BeginStep, ZenonT(30)
<1> SUFFICES ASSUME alone' PROVE AloneInv'
  BY DEF AloneInv
<1>2. /\ alone /\ UnderWay = {} /\ wire = {} /\ UNCHANGED <<wire, agreed, told, setting>>
      /\ \A e \in Requesters : request'[e] = IF e = c THEN r ELSE request[e]
  BY <1>1, BeginStep DEF ShapeInv
<1>3. UnderWay' = {c} /\ setting = agreed
  BY <1>1, <1>2 DEF UnderWay, AloneInv, AtRest
<1>4. SoleActor' /\ AtRest' /\ OnTheWay'
  BY <1>2, <1>3 DEF SoleActor, Actor, AtRest, OnTheWay
<1>5. \A d \in Requesters : request'[d].answer # "failed"
  BY <1>1, <1>2 DEF AloneInv
<1>6. ASSUME op.does \in SettingDoes PROVE Halfway(c)'
  <2>1. Goal(c)' = Promised(op, agreed)
    BY <1>1, <1>2, <1>3 DEF Goal, Promised
  <2>2. op.requests[1] = "write" => Promised(op, agreed) = op.to
    <3>1. OfSetting(op)
      BY <1>6, Kinds DEF OfMaking, OfBranch, OfRemoval, SettingDoes
    <3>2. op.requests[1] = "write" => op.does = "put"
      BY <3>1 DEF OfSetting
    <3> QED  BY <3>2 DEF Promised
  <2>3. IsWriting(c, request[c].step)' <=> op.requests[1] = "write"
    BY <1>1, <1>2 DEF IsWriting
  <2>4. request'[c].puts = op.to
    BY <1>1, <1>2
  <2> QED  BY <1>2, <1>3, <2>1, <2>2, <2>3, <2>4 DEF Halfway
<1> QED  BY <1>1, <1>2, <1>3, <1>4, <1>5, <1>6 DEF AloneInv

\* A call that is at the same request as before.
LEMMA StaysAlone ==
  ASSUME ShapeInv, AloneInv, alone, NEW c \in UnderWay, NEW r, Moves(c, r),
         r.state \in {"sending", "waiting"}, r.answer = "none", r.step = request[c].step, r.puts = request[c].puts,
         \A a \in wire' : a \in wire \/ a = Attempt(c), UNCHANGED <<agreed, told, setting>>
  PROVE  AloneInv'
PROOF
<1>1. /\ c \in Requesters /\ r.op = request[c].op
      /\ \A e \in Requesters : request'[e] = IF e = c THEN r ELSE request[e]
  BY DEF UnderWay, ShapeInv, Moves
<1>2. UnderWay' = UnderWay
  BY <1>1 DEF UnderWay
<1>3. Attempt(c).by = c /\ Attempt(c).step = request[c].step /\ Attempt(c).puts = request[c].puts
  BY DEF Attempt
<1>4. /\ \A d \in Requesters : Actor(d) => d = c
      /\ \A a \in wire : a.by = c
  BY <1>1 DEF AloneInv, SoleActor, Actor, ShapeInv, Attempts
<1>5. \A a \in wire' : a.by = c
  BY <1>3, <1>4
<1>6. SoleActor' /\ AtRest'
  BY <1>2, <1>4, <1>5 DEF SoleActor, AtRest, Actor
<1>7. \A d \in Requesters : request'[d].answer # "failed"
  BY <1>1 DEF AloneInv
<1>8. /\ Goal(c)' = Goal(c) /\ request'[c].op = request[c].op
      /\ \A i : IsWriting(c, i)' <=> IsWriting(c, i)
  BY <1>1, <1>2 DEF Goal, Promised, IsWriting
<1>9. ASSUME request[c].op.does \in SettingDoes
      PROVE  Halfway(c)' /\ \A a \in wire' : IsWriting(c, a.step) => a.puts = Goal(c)
  <2>1. Halfway(c) /\ \A a \in wire : IsWriting(c, a.step) => a.puts = Goal(c)
    BY <1>4, <1>9 DEF AloneInv, OnTheWay
  <2>2. request'[c].step = request[c].step /\ request'[c].puts = request[c].puts
    BY <1>1
  <2>3. CASE IsWriting(c, request[c].step)
    <3>1. request[c].puts = Goal(c) /\ setting \in {agreed, Goal(c)}
      BY <2>1, <2>3 DEF Halfway
    <3>2. IsWriting(c, request[c].step)'
      BY <1>8, <2>2, <2>3 DEF IsWriting
    <3>3. \A a \in wire' : IsWriting(c, a.step) => a.puts = Goal(c)
      BY <1>3, <2>1, <3>1
    <3> QED  BY <1>8, <2>2, <3>1, <3>2, <3>3 DEF Halfway
  <2>4. CASE ~IsWriting(c, request[c].step)
    <3>1. setting = agreed /\ \A a \in wire : ~IsWriting(c, a.step)
      BY <1>4, <2>1, <2>4 DEF Halfway
    <3>2. ~IsWriting(c, request[c].step)'
      BY <1>8, <2>2, <2>4 DEF IsWriting
    <3>3. \A a \in wire' : ~IsWriting(c, a.step)
      BY <1>3, <2>4, <3>1
    <3>4. \A a \in wire' : ~IsWriting(a.by, a.step)'
      BY <1>5, <1>8, <3>3 DEF IsWriting
    <3> QED  BY <3>1, <3>2, <3>3, <3>4 DEF Halfway
  <2> QED  BY <2>3, <2>4
<1>10. OnTheWay'
  BY <1>5, <1>8, <1>9 DEF OnTheWay, IsWriting
<1>11. \A d \in UnderWay' : d = c
  BY <1>2, <1>4 DEF Actor, UnderWay
<1> QED  BY <1>6, <1>7, <1>8, <1>9, <1>10, <1>11 DEF AloneInv

LEMMA CallAlone ==
  ASSUME ShapeInv, AloneInv, NEW c \in Requesters, Send(c) \/ Loop(c)
  PROVE  AloneInv'
PROOF
<1>1. CASE Send(c)
  <2>1. PICK r : /\ Moves(c, r) /\ r.state = "waiting" /\ r.answer = "none"
                 /\ r.step = request[c].step /\ r.puts = request[c].puts /\ r.attempt = request[c].attempt
    BY <1>1, SendStep
  <2>2. CASE alone
    BY <1>1, <2>1, <2>2, SendStep, StaysAlone DEF UnderWay
  <2>3. CASE ~alone
    BY <1>1, <2>3, SendStep DEF AloneInv
  <2> QED  BY <2>2, <2>3
<1>2. CASE Loop(c)
  <2>1. PICK r : Retried(c, r)
    BY <1>2, LoopStep
  <2>2. CASE Repeats(c, r) /\ alone' = alone /\ alone
    <3>1. \A a \in wire' : a \in wire \/ a = Attempt(c)
      BY <2>1 DEF Retried
    <3>2. c \in UnderWay /\ UNCHANGED <<agreed, told, setting>>
      BY <1>2, LoopStep DEF UnderWay
    <3> QED  BY <2>1, <2>2, <3>1, <3>2, StaysAlone DEF Retried, Repeats
  <2>3. CASE ~alone'
    BY <2>3 DEF AloneInv
  <2> QED  BY <2>1, <2>2, <2>3 DEF Retried, ShapeInv, PlaneInv
<1> QED  BY <1>1, <1>2

\* The requests of an operation on a setting, and what they come to.
LEMMA SettingRequests ==
  ASSUME NEW op \in Operations, op.does \in SettingDoes
  PROVE  /\ \/ op.does = "put" /\ op.requests = <<"write">>
            \/ op.does \in {"add", "take"} /\ op.requests = <<"read", "write">>
            \/ op.does = "read" /\ op.requests = <<"read">>
         /\ op.does # "read" => op.requests[Len(op.requests)] = "write"
         /\ \A list : Unchanging(op, list) => Promised(op, list) = list
         /\ \A list : op.does \in {"add", "take"} => Edited(op, list) = Promised(op, list)
         /\ \A list : op.does = "read" => Promised(op, list) = list
PROOF
<1>1. OfSetting(op)
  BY Kinds DEF OfMaking, OfBranch, OfRemoval, SettingDoes
<1>2. \A list : Unchanging(op, list) => Promised(op, list) = list
  BY DEF Unchanging, Promised
<1>3. \A list : op.does \in {"add", "take"} => Edited(op, list) = Promised(op, list)
  BY DEF Edited, Promised
<1>4. \A list : op.does = "read" => Promised(op, list) = list
  BY DEF Promised
<1>5. \/ op.does = "put" /\ op.requests = <<"write">>
      \/ op.does \in {"add", "take"} /\ op.requests = <<"read", "write">>
      \/ op.does = "read" /\ op.requests = <<"read">>
  BY <1>1 DEF OfSetting
<1>6. op.does # "read" => op.requests[Len(op.requests)] = "write"
  <2>1. /\ <<"write">>[Len(<<"write">>)] = "write"
        /\ <<"read", "write">>[Len(<<"read", "write">>)] = "write"
    OBVIOUS
  <2> QED  BY <1>5, <2>1
<1> QED  BY <1>2, <1>3, <1>4, <1>5, <1>6

\* A setting is answered with what it is then.
LEMMA ArrivalSetting ==
  ASSUME ShapeInv, NEW a \in wire, Arrives(a), request[a.by].op.does \in SettingDoes
  PROVE  \/ ~IsWriting(a.by, a.step) /\ setting' = setting /\ Answers(a, "ok", setting)
         \/ IsWriting(a.by, a.step) /\ setting' = a.puts /\ Answers(a, "ok", a.puts)
PROOF
<1>1. CASE ExecuteRead(a)
  BY <1>1 DEF ExecuteRead, Server, IsWriting
<1>2. CASE ExecutePut(a)
  BY <1>2 DEF ExecutePut, Executes, IsWriting
<1> QED  BY <1>1, <1>2 DEF Arrives, ExecuteCreation, ExecuteBranch, ExecuteRemoval, Executes, SettingDoes

\* After an arrival only the call it is of still acts, and nothing has failed.
LEMMA ArrivalActors ==
  ASSUME ShapeInv, AloneInv, alone, NEW a \in wire, NEW how \in IsAnswered, NEW says, Answers(a, how, says),
         NEW c \in Requesters, c = a.by
  PROVE  /\ SoleActor' /\ \A d \in UnderWay : d = c
         /\ \A d \in UnderWay' : d = c
         /\ \A b \in wire : b.by = c
         /\ \A d \in Requesters : request'[d].answer # "failed"
PROOF
<1>1. \A d \in Requesters : Actor(d) => d = c
  BY DEF AloneInv, SoleActor, Actor
<1>2. \A b \in wire : b.by = c
  BY <1>1 DEF Actor, ShapeInv, Attempts
<1>3. \A d \in UnderWay : d = c
  BY <1>1 DEF Actor, UnderWay
<1>4. /\ wire' \subseteq wire /\ \A d \in Requesters : d # c => request'[d] = request[d]
      /\ request'[c].answer \in {request[c].answer, "none", how}
  BY ArrivalFrame
<1>5. \A d \in UnderWay' : d = c
  BY <1>3, <1>4 DEF UnderWay
<1>6. SoleActor'
  BY <1>2, <1>4, <1>5 DEF SoleActor, Actor
<1>7. \A d \in Requesters : request'[d].answer # "failed"
  BY <1>4 DEF AloneInv, IsAnswered
<1> QED  BY <1>2, <1>3, <1>5, <1>6, <1>7

LEMMA ArrivalElsewhere ==
  ASSUME ShapeInv, OneThing, AloneInv, alone, NEW a \in wire, Arrives(a),
         NEW c \in Requesters, c = a.by, request[c].op.does \notin SettingDoes
  PROVE  AloneInv'
PROOF
<1>1. PICK how \in IsAnswered : \E says \in SUBSET Addresses : Answers(a, how, says)
  BY ArrivalAnswers
<1>2. PICK says \in SUBSET Addresses : Answers(a, how, says)
  BY <1>1
<1>3. c \in Begun
  BY DEF ShapeInv, Begun
<1>4. NotOnSettings' /\ OneThing'
  BY <1>3, OnSomethingElse, ArrivalOneThing, ArrivalSameOps DEF NotOnSettings, SameOps, Begun
<1>5. setting' = {} /\ agreed' = {} /\ told' = {}
  BY <1>4 DEF OneThing, NotOnSettings
<1>6. request'[c].op.does \notin SettingDoes
  BY ArrivalSameOps DEF SameOps
<1>7. \A b \in wire' : b.by = c
  BY <1>2, ArrivalActors, ArrivalFrame
<1>8. OnTheWay' /\ AtRest'
  BY <1>5, <1>6, <1>7 DEF OnTheWay, AtRest
<1> QED  BY <1>2, <1>6, <1>8, ArrivalActors DEF AloneInv

LEMMA ArrivalOnSetting ==
  ASSUME ShapeInv, AloneInv, alone, NEW a \in wire, Arrives(a),
         NEW c \in Requesters, c = a.by, request[c].op.does \in SettingDoes
  PROVE  AloneInv'
PROOF
<1>1. PICK says : /\ Answers(a, "ok", says)
                  /\ \/ ~IsWriting(c, a.step) /\ setting' = setting /\ says = setting
                     \/ IsWriting(c, a.step) /\ setting' = a.puts /\ says = a.puts
  BY ArrivalSetting
<1>2. "ok" \in IsAnswered
  BY DEF IsAnswered
<1>3. /\ wire' = wire \ {a} /\ request[c].state # "idle" /\ request[c].op \in Operations
      /\ a.step \in 1..Len(request[c].op.requests) /\ request'[c].op = request[c].op
      /\ \A d \in Requesters : d # c => request'[d] = request[d]
  BY <1>1, <1>2, ArrivalFrame
<1>4. /\ SoleActor' /\ \A d \in UnderWay : d = c
      /\ \A d \in UnderWay' : d = c
      /\ \A b \in wire : b.by = c
      /\ \A d \in Requesters : request'[d].answer # "failed"
  BY <1>1, <1>2, ArrivalActors
<1>5. \A i : IsWriting(c, i)' <=> IsWriting(c, i)
  BY <1>3 DEF IsWriting
<1>6. /\ AtRest /\ \A b \in wire : IsWriting(c, b.step) => b.puts = Goal(c)
      /\ c \in UnderWay => Halfway(c)
  BY <1>4 DEF AloneInv, OnTheWay
<1>7. ASSUME Goal(c)' = Goal(c) PROVE OnTheWay'
  BY <1>3, <1>4, <1>5, <1>6, <1>7 DEF OnTheWay
<1>8. CASE UNCHANGED <<request, agreed, told, alone>>
  <2>1. UnderWay' = UnderWay /\ Goal(c)' = Goal(c)
    BY <1>8 DEF UnderWay, Goal
  <2>2. CASE c \in UnderWay
    <3>1. AtRest'
      BY <2>1, <2>2 DEF AtRest
    <3>2. Halfway(c)'
      <4>1. CASE IsWriting(c, request[c].step)
        <5>1. request[c].puts = Goal(c) /\ setting \in {agreed, Goal(c)}
          BY <1>6, <2>2, <4>1 DEF Halfway
        <5>2. setting' \in {agreed, Goal(c)}
          BY <1>1, <1>6, <5>1
        <5>3. IsWriting(c, request[c].step)'
          BY <1>8, <4>1 DEF IsWriting
        <5> QED  BY <1>8, <2>1, <5>1, <5>2, <5>3 DEF Halfway
      <4>2. CASE ~IsWriting(c, request[c].step)
        <5>1. setting = agreed /\ \A b \in wire : ~IsWriting(b.by, b.step)
          BY <1>6, <2>2, <4>2 DEF Halfway
        <5>2. setting' = agreed
          BY <1>1, <5>1
        <5>3. ~IsWriting(c, request[c].step)' /\ \A b \in wire' : ~IsWriting(b.by, b.step)'
          BY <1>3, <1>8, <4>2, <5>1 DEF IsWriting
        <5> QED  BY <1>8, <5>2, <5>3 DEF Halfway
      <4> QED  BY <4>1, <4>2
    <3> QED  BY <1>4, <1>7, <2>1, <3>1, <3>2 DEF AloneInv
  <2>3. CASE c \notin UnderWay
    <3>1. UnderWay = {} /\ UnderWay' = {}
      BY <1>4, <2>1, <2>3
    <3>2. setting = agreed /\ told = agreed /\ Goal(c) = agreed
      BY <1>6, <3>1 DEF AtRest, Goal
    <3>3. setting' = agreed
      BY <1>1, <1>6, <3>2
    <3>4. AtRest'
      BY <1>8, <3>2, <3>3 DEF AtRest
    <3> QED  BY <1>4, <1>7, <2>1, <3>1, <3>4 DEF AloneInv
  <2> QED  BY <2>2, <2>3
<1>9. CASE request[c].state = "waiting" /\ a = Attempt(c) /\ told' = says /\ \E r : Told(c, r, "ok")
  <2>1. PICK r : Told(c, r, "ok")
    BY <1>9
  <2>2. /\ c \in UnderWay /\ Halfway(c) /\ a.step = request[c].step /\ a.puts = request[c].puts
        /\ Goal(c) = Promised(request[c].op, agreed)
    BY <1>6, <1>9 DEF UnderWay, Attempt, Goal
  <2>3. request'[c] = r
    BY <2>1 DEF Told, Moves, ShapeInv
  <2>4. \/ request[c].op.does = "put" /\ request[c].op.requests = <<"write">>
        \/ request[c].op.does \in {"add", "take"} /\ request[c].op.requests = <<"read", "write">>
        \/ request[c].op.does = "read" /\ request[c].op.requests = <<"read">>
    BY <1>3, SettingRequests
  <2>5. CASE Proceeds(c, r) /\ agreed' = agreed
    <3>1. /\ request[c].step = 1 /\ request[c].op.requests = <<"read", "write">>
          /\ request[c].op.does \in {"add", "take"}
      BY <2>4, <2>5 DEF Proceeds
    <3>2. ~IsWriting(c, request[c].step)
      BY <3>1 DEF IsWriting
    <3>3. setting = agreed /\ \A b \in wire : ~IsWriting(b.by, b.step)
      BY <2>2, <3>2 DEF Halfway
    <3>4. setting' = agreed
      BY <1>1, <2>2, <3>2, <3>3
    <3>5. UnderWay' = {c}
      BY <1>4, <2>3, <2>5 DEF UnderWay, Proceeds
    <3>6. Goal(c)' = Goal(c)
      BY <1>3, <2>2, <2>5, <3>5 DEF Goal, Promised
    <3>7. request'[c].step = 2 /\ request'[c].puts = Goal(c)
      <4>1. Edited(request[c].op, agreed) = Promised(request[c].op, agreed)
        BY <1>3, <3>1, SettingRequests
      <4> QED  BY <2>2, <2>3, <2>5, <3>3, <4>1 DEF Proceeds
    <3>8. IsWriting(c, request[c].step)'
      BY <1>3, <3>1, <3>7 DEF IsWriting
    <3>9. Halfway(c)' /\ AtRest'
      BY <2>5, <3>4, <3>5, <3>6, <3>7, <3>8 DEF Halfway, AtRest
    <3> QED  BY <1>4, <1>7, <3>6, <3>9 DEF AloneInv
  <2>6. CASE CallEnds(c, r, "ok") /\ agreed' = Promised(request[c].op, agreed)
    <3>1. UnderWay' = {}
      BY <1>4, <2>3, <2>6 DEF UnderWay, CallEnds
    <3>2. Goal(c)' = Goal(c)
      BY <2>2, <2>6, <3>1 DEF Goal
    <3>3. setting' = agreed' /\ told' = agreed'
      <4>1. CASE IsWriting(c, request[c].step)
        <5>1. a.puts = Promised(request[c].op, agreed)
          BY <2>2, <4>1 DEF Halfway
        <5> QED  BY <1>1, <1>9, <2>2, <2>6, <4>1, <5>1
      <4>2. CASE ~IsWriting(c, request[c].step)
        <5>1. setting = agreed /\ setting' = setting /\ told' = setting
          BY <1>1, <1>9, <2>2, <4>2 DEF Halfway
        <5>2. Promised(request[c].op, agreed) = agreed
          <6>1. request[c].op.does = "read" \/ Unchanging(request[c].op, setting)
            <7>1. request[c].step = Len(request[c].op.requests) \/ Unchanging(request[c].op, setting)
              BY <2>1, <2>6 DEF Told, Proceeds, CallEnds
            <7>2. CASE request[c].op.does # "read" /\ request[c].step = Len(request[c].op.requests)
              BY <1>3, <4>2, <7>2, SettingRequests DEF IsWriting
            <7> QED  BY <7>1, <7>2
          <6> QED  BY <1>3, <5>1, <6>1, SettingRequests
        <5> QED  BY <2>6, <5>1, <5>2
      <4> QED  BY <4>1, <4>2
    <3>4. AtRest'
      BY <3>3 DEF AtRest
    <3> QED  BY <1>4, <1>7, <3>1, <3>2, <3>4 DEF AloneInv
  <2> QED  BY <2>1, <2>5, <2>6 DEF Told
<1> QED  BY <1>1, <1>2, <1>8, <1>9, AnswerStep DEF IsAnswered

LEMMA NextAlone ==
  ASSUME ShapeInv, OneThing, AloneInv, [ApiNext]_apiVars
  PROVE  AloneInv'
PROOF
<1>1. CASE \E c \in Requesters, op \in Operations : Begin(c, op)
  BY <1>1, BeginAlone
<1>2. CASE \E c \in Requesters : Send(c) \/ Loop(c)
  BY <1>2, CallAlone
<1>3. ASSUME NEW a \in wire, Arrives(a) PROVE AloneInv'
  <2>1. PICK c \in Requesters : c = a.by
    BY DEF ShapeInv, Attempts
  <2>2. CASE ~alone
    <3>1. ~alone'
      <4>1. PICK how \in IsAnswered : \E says \in SUBSET Addresses : Answers(a, how, says)
        BY <1>3, ArrivalAnswers
      <4>2. PICK says \in SUBSET Addresses : Answers(a, how, says)
        BY <4>1
      <4> QED  BY <2>2, <4>2, AnswerStep DEF IsAnswered, Told
    <3> QED  BY <3>1 DEF AloneInv
  <2> QED  BY <1>3, <2>1, <2>2, ArrivalElsewhere, ArrivalOnSetting
<1>4. CASE UNCHANGED apiVars
  <2>1. UNCHANGED <<request, wire, setting, agreed, told, alone>>
    BY <1>4 DEF apiVars
  <2>2. UnderWay' = UnderWay
    BY <2>1 DEF UnderWay
  <2> QED  BY <2>1, <2>2 DEF AloneInv, SoleActor, AtRest, OnTheWay, Actor, Halfway, Goal, IsWriting, Promised
<1> QED  BY <1>1, <1>2, <1>3, <1>4 DEF ApiNext, Loop, Arrives

-----------------------------------------------------------------------------
(* The theorems. *)

LEMMA InitApiInv == ApiInit => ApiInv
PROOF
<1> SUFFICES ASSUME ApiInit PROVE ApiInv
  OBVIOUS
<1>1. 0 \in 0..MaxRetries /\ 0 \in 0..MaxThrottleWait
  BY ApiAssumption
<1>2. NotAsked \in Requests /\ NotAsked.step = 1 /\ NotAsked.answer = "none" /\ NotAsked.state = "idle" /\ NotAsked.op = NoOperation
  BY <1>1 DEF NotAsked, Requests
<1>3. 1 \in 1..Len(NoOperation.requests)
  BY RequestsOf
<1>4. \A c \in Requesters : request[c] = NotAsked /\ made[c] = 0 /\ gone # c
  BY ApiAssumption DEF ApiInit
<1>5. ShapeInv
  <2>1. PlaneInv /\ request \in [Requesters -> Requests] /\ wire = {}
    BY <1>2 DEF ApiInit, PlaneInv
  <2> QED  BY <1>2, <1>3, <1>4, <2>1 DEF ShapeInv
<1>6. Begun = {} /\ UnderWay = {}
  BY <1>2, <1>4 DEF Begun, UnderWay
<1>7. OneThing /\ AloneInv
  BY <1>2, <1>4, <1>6 DEF ApiInit, OneThing, AloneInv, SoleActor, AtRest, OnTheWay, Actor
<1>8. \A c \in Requesters : OnceInv(c) /\ HonestInv(c)
  BY <1>2, <1>4 DEF ApiInit, OnceInv, HonestInv, Effective, FirstOnWire
<1> QED  BY <1>5, <1>7, <1>8 DEF ApiInv

LEMMA NextApiInv == ApiInv /\ [ApiNext]_apiVars => ApiInv'
PROOF
<1> SUFFICES ASSUME ApiInv, [ApiNext]_apiVars PROVE ApiInv'
  OBVIOUS
<1>1. ShapeInv' /\ OneThing' /\ AloneInv'
  BY NextShape, NextOneThing, NextAlone DEF ApiInv
<1>2. \A c \in Requesters : OnceInv(c)' /\ HonestInv(c)'
  BY NextCall DEF ApiInv, CallInv
<1> QED  BY <1>1, <1>2 DEF ApiInv

LEMMA ApiInvariant == ApiSpec => []ApiInv
BY InitApiInv, NextApiInv, PTL DEF ApiSpec

\* The types of ApiRequest.
THEOREM ApiTypes == ApiSpec => []ApiTypeOK
PROOF
<1>1. ASSUME ApiInv PROVE ApiTypeOK
  <2>1. ASSUME NEW c \in Requesters
        PROVE  /\ request[c].op \in Operations \cup {NoOperation} /\ request[c].attempt \in 0..MaxRetries
               /\ request[c].state \in {"idle", "sending", "waiting", "over"}
               /\ request[c].step \in DOMAIN request[c].op.requests
               /\ request[c].waited \in 0..MaxThrottleWait /\ request[c].puts \subseteq Addresses
               /\ request[c].answer \in {"none", "ok", "conflict", "notFound", "failed"}
    <3>1. request[c] \in Requests /\ request[c].step \in 1..Len(request[c].op.requests)
      BY <1>1 DEF ApiInv, ShapeInv
    <3>2. DOMAIN request[c].op.requests = 1..Len(request[c].op.requests)
      BY <3>1, RequestsOf DEF Requests
    <3> QED  BY <3>1, <3>2 DEF Requests
  <2> QED  BY <1>1, <2>1 DEF ApiTypeOK, ApiInv, ShapeInv, PlaneInv
<1> QED  BY <1>1, ApiInvariant, PTL

\* Whatever is lost, late or repeated by the retry loop: a creation makes at most
\* one thing, a call is told of a conflict or of a missing thing only for what
\* another did, and the settings are as the calls promised that neither
\* overlapped nor failed.
THEOREM RequestsAreHarmless == ApiSpec => []RepeatsAreHarmless
PROOF
<1>1. ASSUME ApiInv PROVE RepeatsAreHarmless
  <2>1. ASSUME NEW c \in Requesters
        PROVE  /\ made[c] <= 1
               /\ request[c].answer = "conflict" => branch # c
               /\ request[c].answer = "notFound" /\ request[c].op \notin {DeletePortToken, DeleteSandbox} => gone # c
    <3>1. HonestInv(c) /\ (request[c].answer # "none" => request[c].op \in Operations)
      BY <1>1 DEF ApiInv, ShapeInv
    <3>2. ASSUME request[c].op \in Operations, request[c].op.does = "remove",
                 request[c].op \notin {DeletePortToken, DeleteSandbox}
          PROVE  request[c].op.mode # "transient"
      BY <3>2, Kinds DEF OfMaking, OfBranch, OfRemoval, OfSetting
    <3> QED  BY <1>1, <3>1, <3>2 DEF HonestInv, ApiInv
  <2>2. SettingsAreAsPromised
    BY <1>1 DEF ApiInv, AloneInv, AtRest, SettingsAreAsPromised
  <2> QED  BY <2>1, <2>2 DEF RepeatsAreHarmless, RepeatsDoNothing
<1> QED  BY <1>1, ApiInvariant, PTL
=============================================================================
