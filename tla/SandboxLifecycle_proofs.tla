------------------------- MODULE SandboxLifecycle_proofs -------------------------
(***************************************************************************)
(* The types, RetriesAreHarmless, ForkRestoresItsSource and                *)
(* WaitsUntilItIsOver of SandboxLifecycle, for any callers, handles,       *)
(* retries and sessions.                                                   *)
(*                                                                         *)
(* None of the properties is inductive.  What makes the first two so is    *)
(* said caller by caller, in CallerInv: a step of one caller, or of the    *)
(* control plane, leaves what it says of the others alone (Rests).         *)
(***************************************************************************)
EXTENDS SandboxLifecycle, TLAPS

\* A call that has not begun or has settled has no request, and a call that
\* has begun is one of the calls there are.
RequestInv(c) ==
  /\ at[c] \in {"idle", "done", "failed"} => net[c] = "none"
  /\ at[c] # "idle" => op[c] # "none"
  /\ net[c] = "reply" => reply[c] \in Snapshots \cup {Refusal}

\* A fork that was created has been asked for, and its answer is on its way or
\* was lost for good: the request is not sent again.
ForkInv(c) ==
  /\ forks[c] <= 1
  /\ forks[c] # 0 => at[c] \notin {"idle", "call", "poll"}
  /\ forks[c] # 0 /\ at[c] = "fork" => net[c] = "reply" /\ reply[c] # Refusal

\* The same of a start with mounts.
RemountInv(c) ==
  /\ at[c] = "idle" => found[c] = {}
  /\ op[c] = "remount" /\ at[c] = "call" /\ found[c] # {} => net[c] = "reply" /\ reply[c] # Refusal

RefusedInv(c) ==
  /\ refused[c] # "none" => at[c] = "failed"
  /\ refused[c] = "fork" => forks[c] = 0
  /\ refused[c] = "remount" => found[c] = {}

\* A fork knows of a child only when there is one.
ChildInv(c) ==
  /\ kid[c] # "none" => child[c] # "none"
  /\ at[c] = "child" => kid[c] # "none"
  /\ at[c] \in {"fork", "child"} /\ net[c] = "reply" /\ reply[c] # Refusal =>
       reply[c].status \in {"pending", "running", "failed"} /\ child[c] # "none"

\* A source that is the fork's to resume was found live by its pause, and is
\* waited for, forked or already asked to be resumed.
Live == {"running", "pausing"}

MineInv(c) ==
  /\ op[c] = "fork" /\ at[c] = "call" /\ net[c] = "reply" /\ reply[c].status = "pausing" => found[c] \cap Live # {}
  /\ mine[c] => op[c] = "fork" /\ found[c] \cap Live # {} /\ at[c] \notin {"idle", "call"}
  /\ mine[c] => at[c] \in {"poll", "fork"} \/ undone[c]
  /\ at[c] = "undo" => mine[c]

CallerInv(c) == RequestInv(c) /\ ForkInv(c) /\ RemountInv(c) /\ RefusedInv(c) /\ ChildInv(c) /\ MineInv(c)

LifecycleInv == TypeOK /\ \A c \in Callers : CallerInv(c)

-----------------------------------------------------------------------------
LEMMA InitLifecycleInv == Init => LifecycleInv
PROOF
<1> SUFFICES ASSUME Init PROVE LifecycleInv
  OBVIOUS
<1>1. status \in Statuses /\ Wire(status, session) \in Snapshots
  BY DEF Init, Wire, Statuses, Snapshots
<1>2. TypeOK
  BY <1>1, BoundsAssumption DEF Init, TypeOK, Stages, NoReply
<1>3. ASSUME NEW c \in Callers PROVE CallerInv(c)
  BY DEF Init, CallerInv, RequestInv, ForkInv, RemountInv, RefusedInv, ChildInv, MineInv
<1> QED  BY <1>2, <1>3 DEF LifecycleInv

\* What is said of a caller whose variables rest goes on to hold.
LEMMA Rests ==
  ASSUME NEW d \in Callers, CallerInv(d),
         op'[d] = op[d], at'[d] = at[d], net'[d] = net[d], reply'[d] = reply[d], found'[d] = found[d],
         forks'[d] = forks[d], refused'[d] = refused[d], mine'[d] = mine[d], undone'[d] = undone[d],
         kid'[d] = kid[d], child[d] # "none" => child'[d] # "none"
  PROVE  CallerInv(d)'
BY DEF CallerInv, RequestInv, ForkInv, RemountInv, RefusedInv, ChildInv, MineInv

\* A call with a request on its way has begun and not settled.
LEMMA RequestsOfCalls ==
  ASSUME LifecycleInv, NEW c \in Callers, net[c] # "none"
  PROVE  /\ at[c] \in {"call", "poll", "fork", "undo", "child", "source"} /\ op[c] \in AllOps
         /\ Request(c) \in Requests
         /\ Request(c) = "fork" <=> at[c] = "fork"
         /\ Request(c) = "child" <=> at[c] = "child"
         /\ Request(c) = "remount" <=> at[c] = "call" /\ op[c] = "remount"
         /\ at[c] = "call" /\ op[c] = "fork" => Request(c) = "pause"
PROOF
<1>1. at[c] \in {"call", "poll", "fork", "undo", "child", "source"} /\ op[c] \in AllOps
  BY DEF LifecycleInv, CallerInv, RequestInv, TypeOK, Stages
<1>2. CASE at[c] = "call"
  <2>1. Request(c) = FirstRequest(op[c])
    BY <1>2 DEF Request
  <2>2. FirstRequest(op[c]) = IF op[c] = "fork" THEN "pause" ELSE IF op[c] = "refresh" THEN "get" ELSE op[c]
    BY DEF FirstRequest
  <2> QED  BY <1>1, <1>2, <2>1, <2>2 DEF AllOps, Requests
<1>3. CASE at[c] # "call"
  <2>1. Request(c) = IF at[c] \in {"poll", "source"} THEN "get" ELSE IF at[c] = "undo" THEN "resume" ELSE at[c]
    BY <1>1, <1>3 DEF Request
  <2> QED  BY <1>1, <1>3, <2>1 DEF AllOps, Requests
<1> QED  BY <1>2, <1>3

\* What the control plane does to a request, and when.
LEMMA TablesOfThePlane ==
  ASSUME NEW r \in Requests
  PROVE  /\ Becomes[r] \in {"pending", "stopping", "pausing"}
         /\ ActsOn[r] \subseteq Statuses /\ Repeats[r] \subseteq Statuses
         /\ r \in {"fork", "child"} => ActsOn[r] = {} /\ Repeats[r] = {}
         /\ r = "remount" => Repeats[r] = {}
         /\ r = "pause" => ActsOn[r] = {"running"}
PROOF
<1>1. Becomes[r] = IF r = "stop" THEN "stopping" ELSE IF r = "pause" THEN "pausing" ELSE "pending"
  BY DEF Becomes
<1>2. ActsOn[r] = IF r \in {"start", "remount"} THEN {"paused", "stopped", "failed"}
                  ELSE IF r = "resume" THEN {"paused"}
                  ELSE IF r = "stop" THEN {"running", "paused"}
                  ELSE IF r = "pause" THEN {"running"} ELSE {}
  BY DEF ActsOn
<1>3. Repeats[r] = IF r \in {"start", "resume"} THEN {"pending", "running"}
                   ELSE IF r = "stop" THEN {"stopping", "stopped"}
                   ELSE IF r = "pause" THEN {"pausing", "paused", "stopped"}
                   ELSE IF r = "get" THEN Statuses ELSE {}
  BY DEF Repeats
<1> QED  BY <1>1, <1>2, <1>3 DEF Statuses

LEMMA NotedStatuses ==
  ASSUME TypeOK, NEW st \in Statuses
  PROVE  Noted(st) \in [Callers -> SUBSET Statuses]
BY DEF TypeOK, Noted

-----------------------------------------------------------------------------
\* The control plane executes request r of caller c, or refuses it.
LEMMA AnsweredInv ==
  ASSUME LifecycleInv, NEW c \in Callers, NEW w \in Snapshots \cup {Refusal}, net[c] = "sent", Answer(c, w),
         status' \in Statuses, session' \in Nat, committed' = committed,
         child' \in [Callers -> {"none", "pending", "running", "failed"}],
         forks' \in [Callers -> Nat],
         found' \in [Callers -> SUBSET Statuses], reached' \in [Callers -> SUBSET Statuses],
         \A d \in Callers : d # c => child'[d] = child[d] /\ forks'[d] = forks[d] /\ found'[d] = found[d],
         found[c] \subseteq found'[c], at[c] # "call" => found'[c] = found[c],
         op[c] = "remount" /\ at[c] = "call" /\ found'[c] # {} => w # Refusal,
         op[c] = "fork" /\ at[c] = "call" /\ w.status = "pausing" => found'[c] \cap Live # {},
         \/ forks'[c] = forks[c] /\ child'[c] = child[c]
         \/ at[c] = "fork" /\ w # Refusal /\ forks'[c] = 1 /\ child'[c] = "pending",
         at[c] \in {"fork", "child"} /\ w # Refusal =>
           w.status \in {"pending", "running", "failed"} /\ child'[c] # "none"
  PROVE  LifecycleInv'
PROOF
<1>1. /\ net' = [net EXCEPT ![c] = "reply"] /\ reply' = [reply EXCEPT ![c] = w]
      /\ UNCHANGED <<op, at, tries, view, kid, mine, named, undone, refused>>
  BY DEF Answer
<1>2. /\ \A d \in Callers : net'[d] = IF d = c THEN "reply" ELSE net[d]
      /\ \A d \in Callers : reply'[d] = IF d = c THEN w ELSE reply[d]
  BY <1>1 DEF LifecycleInv, TypeOK
<1>3. net' \in [Callers -> {"none", "sent", "reply"}]
  BY <1>1 DEF LifecycleInv, TypeOK
<1>4. reply' \in [Callers -> Snapshots \cup {NoReply, [status |-> "refused", checkpoint |-> 0]}]
  BY <1>1 DEF LifecycleInv, TypeOK, Refusal
<1>5. TypeOK'
  BY <1>1, <1>3, <1>4 DEF LifecycleInv, TypeOK
<1>6. ASSUME NEW d \in Callers, d # c PROVE CallerInv(d)'
  BY <1>1, <1>2, <1>6, Rests DEF LifecycleInv
<1>7. CallerInv(c)'
  <2>1. CallerInv(c)
    BY DEF LifecycleInv
  <2>2. /\ net'[c] = "reply" /\ reply'[c] = w /\ op'[c] = op[c] /\ at'[c] = at[c] /\ kid'[c] = kid[c]
        /\ mine'[c] = mine[c] /\ undone'[c] = undone[c] /\ refused'[c] = refused[c]
    BY <1>1, <1>2
  <2>3. forks[c] \in Nat /\ at[c] \notin {"idle", "done", "failed"}
    BY <2>1 DEF LifecycleInv, TypeOK, CallerInv, RequestInv
  <2>4. RequestInv(c)'
    BY <2>1, <2>2, <2>3 DEF CallerInv, RequestInv
  <2>5. ForkInv(c)'
    BY <2>1, <2>2, <2>3 DEF CallerInv, ForkInv
  <2>6. RemountInv(c)'
    BY <2>1, <2>2, <2>3 DEF CallerInv, RemountInv
  <2>7. RefusedInv(c)'
    BY <2>1, <2>2, <2>3 DEF CallerInv, RefusedInv
  <2>8. ChildInv(c)'
    BY <2>1, <2>2 DEF CallerInv, ChildInv
  <2>9. MineInv(c)'
    BY <2>1, <2>2 DEF CallerInv, MineInv, Live
  <2> QED  BY <2>4, <2>5, <2>6, <2>7, <2>8, <2>9 DEF CallerInv
<1> QED  BY <1>5, <1>6, <1>7 DEF LifecycleInv

LEMMA SandboxSettlesInv == LifecycleInv /\ SandboxSettles => LifecycleInv'
PROOF
<1> SUFFICES ASSUME LifecycleInv, SandboxSettles PROVE LifecycleInv'
  OBVIOUS
<1>1. PICK st \in Statuses : SettleTo(st)
  BY DEF SandboxSettles, Statuses
<1>2. reached' \in [Callers -> SUBSET Statuses]
  BY <1>1, NotedStatuses DEF SettleTo, LifecycleInv
<1>3. committed' \subseteq Nat
  BY <1>1 DEF SettleTo, LifecycleInv, TypeOK
<1>4. UNCHANGED <<session, child, forks, client, reply, found>> /\ status' = st
  BY <1>1 DEF SettleTo
<1>5. TypeOK'
  BY <1>2, <1>3, <1>4 DEF LifecycleInv, TypeOK, client
<1>6. ASSUME NEW d \in Callers PROVE CallerInv(d)'
  BY <1>4, Rests DEF LifecycleInv, client
<1> QED  BY <1>5, <1>6 DEF LifecycleInv

LEMMA ChildSettlesInv ==
  ASSUME LifecycleInv, NEW c \in Callers, ChildSettles(c)
  PROVE  LifecycleInv'
PROOF
<1>1. PICK st \in {"running", "failed"} : child' = [child EXCEPT ![c] = st]
  BY DEF ChildSettles
<1>2. UNCHANGED <<status, session, committed, forks, client, reply, found, reached>>
  BY DEF ChildSettles
<1>3. child' \in [Callers -> {"none", "pending", "running", "failed"}]
      /\ \A d \in Callers : child[d] # "none" => child'[d] # "none"
  BY <1>1 DEF LifecycleInv, TypeOK
<1>4. TypeOK'
  BY <1>2, <1>3 DEF LifecycleInv, TypeOK, client
<1>5. ASSUME NEW d \in Callers PROVE CallerInv(d)'
  BY <1>2, <1>3, Rests DEF LifecycleInv, client
<1> QED  BY <1>4, <1>5 DEF LifecycleInv

LEMMA BeginInv ==
  ASSUME LifecycleInv, NEW c \in Callers, NEW o \in Ops, Begin(c, o)
  PROVE  LifecycleInv'
PROOF
<1>1. /\ at[c] = "idle" /\ op' = [op EXCEPT ![c] = o] /\ at' = [at EXCEPT ![c] = "call"]
      /\ net' = [net EXCEPT ![c] = "sent"]
      /\ UNCHANGED <<server, reply, tries, view, kid, mine, named, found, reached, undone, refused>>
  BY DEF Begin
<1>2. o \in AllOps /\ o # "none"
  BY BoundsAssumption DEF AllOps
<1>3. TypeOK'
  BY <1>1, <1>2 DEF LifecycleInv, TypeOK, server, Stages
<1>4. ASSUME NEW d \in Callers, d # c PROVE CallerInv(d)'
  <2>1. op'[d] = op[d] /\ at'[d] = at[d] /\ net'[d] = net[d]
    BY <1>1, <1>4 DEF LifecycleInv, TypeOK
  <2> QED  BY <1>1, <2>1, Rests DEF LifecycleInv, server
<1>5. CallerInv(c)'
  <2>1. op'[c] = o /\ at'[c] = "call" /\ net'[c] = "sent"
    BY <1>1 DEF LifecycleInv, TypeOK
  <2>2. CallerInv(c)
    BY DEF LifecycleInv
  <2>3. UNCHANGED <<forks, child, reply, kid, mine, found, undone, refused>>
    BY <1>1 DEF server
  <2> QED  
    BY <1>1, <1>2, <2>1, <2>2, <2>3 DEF CallerInv, RequestInv, ForkInv, RemountInv, RefusedInv, ChildInv, MineInv
<1> QED  BY <1>3, <1>4, <1>5 DEF LifecycleInv

-----------------------------------------------------------------------------
\* What Find notes is a status, and only of the first request.
LEMMA FoundStatuses ==
  ASSUME LifecycleInv, NEW c \in Callers, NEW st \in Statuses, Find(c, st)
  PROVE  /\ found' \in [Callers -> SUBSET Statuses] /\ reached' \in [Callers -> SUBSET Statuses]
         /\ \A d \in Callers : d # c => found'[d] = found[d]
         /\ found[c] \subseteq found'[c]
         /\ at[c] # "call" => found'[c] = found[c]
         /\ at[c] = "call" => status \in found'[c]
PROOF
<1>1. status \in Statuses /\ found \in [Callers -> SUBSET Statuses] /\ Noted(st) \in [Callers -> SUBSET Statuses]
  BY NotedStatuses DEF LifecycleInv, TypeOK
<1>2. CASE at[c] = "call"
  <2>1. found' = [found EXCEPT ![c] = found[c] \cup {status}]
    BY <1>2 DEF Find
  <2>2. reached' = [Noted(st) EXCEPT ![c] = Noted(st)[c] \cup {st}]
    BY <1>2 DEF Find
  <2> QED  BY <1>1, <1>2, <2>1, <2>2
<1>3. CASE at[c] # "call"
  BY <1>1, <1>3 DEF Find
<1> QED  BY <1>2, <1>3

LEMMA ActsInv ==
  ASSUME LifecycleInv, NEW c \in Callers, Acts(c)
  PROVE  LifecycleInv'
PROOF
<1>1. PICK r, st, n :
        /\ r = Request(c) /\ st = Becomes[r] /\ n = IF st = "pending" THEN session + 1 ELSE session
        /\ net[c] = "sent" /\ status \in ActsOn[r]
        /\ status' = st /\ session' = n /\ Answer(c, Wire(st, n)) /\ Find(c, st)
        /\ UNCHANGED <<committed, child, forks>>
  BY DEF Acts
<1>2. /\ r \in Requests /\ at[c] \notin {"fork", "child"}
      /\ st \in {"pending", "stopping", "pausing"}
      /\ at[c] = "call" /\ op[c] = "fork" => status = "running"
  BY <1>1, RequestsOfCalls, TablesOfThePlane
<1>3. st \in Statuses /\ n \in Nat
  BY <1>1, <1>2 DEF Statuses, LifecycleInv, TypeOK
<1>4. Wire(st, n) \in Snapshots /\ Wire(st, n) # Refusal
  BY <1>2, <1>3 DEF Wire, Snapshots, Refusal
<1>5. at[c] = "call" /\ op[c] = "fork" => found'[c] \cap Live # {}
  BY <1>1, <1>2, <1>3, FoundStatuses DEF Live
<1>6. forks' \in [Callers -> Nat] /\ child' \in [Callers -> {"none", "pending", "running", "failed"}]
  BY <1>1 DEF LifecycleInv, TypeOK
<1> QED  BY <1>1, <1>2, <1>3, <1>4, <1>5, <1>6, FoundStatuses, AnsweredInv

LEMMA RepeatedInv ==
  ASSUME LifecycleInv, NEW c \in Callers, Repeated(c)
  PROVE  LifecycleInv'
PROOF
<1>1. /\ net[c] = "sent" /\ status \in Repeats[Request(c)] /\ Answer(c, Wire(status, session))
      /\ Find(c, status) /\ UNCHANGED <<status, session, committed, child, forks>>
  BY DEF Repeated, server
<1>2. Request(c) \in Requests /\ at[c] \notin {"fork", "child"} /\ ~(at[c] = "call" /\ op[c] = "remount")
  BY <1>1, RequestsOfCalls, TablesOfThePlane
<1>3. status \in Statuses /\ session \in Nat
  BY DEF LifecycleInv, TypeOK
<1>4. Wire(status, session) \in Snapshots /\ Wire(status, session) # Refusal /\ Wire(status, session).status = status
  BY <1>3 DEF Wire, Snapshots, Refusal, Statuses
<1>5. at[c] = "call" /\ status = "pausing" => found'[c] \cap Live # {}
  BY <1>1, <1>3, FoundStatuses DEF Live
<1>6. forks' \in [Callers -> Nat] /\ child' \in [Callers -> {"none", "pending", "running", "failed"}]
  BY <1>1 DEF LifecycleInv, TypeOK
<1> QED  BY <1>1, <1>2, <1>3, <1>4, <1>5, <1>6, FoundStatuses, AnsweredInv

LEMMA ForksInv ==
  ASSUME LifecycleInv, NEW c \in Callers, Forks(c)
  PROVE  LifecycleInv'
PROOF
<1>1. /\ net[c] = "sent" /\ Request(c) = "fork" /\ forks' = [forks EXCEPT ![c] = @ + 1]
      /\ child' = [child EXCEPT ![c] = "pending"] /\ Answer(c, Wire("pending", 0))
      /\ UNCHANGED <<status, session, committed, found, reached>>
  BY DEF Forks
<1>2. at[c] = "fork" /\ forks[c] = 0
  BY <1>1, RequestsOfCalls DEF LifecycleInv, CallerInv, ForkInv
<1>3. Wire("pending", 0) \in Snapshots /\ Wire("pending", 0).status = "pending" /\ Wire("pending", 0) # Refusal
  BY DEF Wire, Snapshots, Refusal, Statuses
<1>4. /\ forks' \in [Callers -> Nat] /\ forks'[c] = 1
      /\ child' \in [Callers -> {"none", "pending", "running", "failed"}] /\ child'[c] = "pending"
      /\ \A d \in Callers : d # c => child'[d] = child[d] /\ forks'[d] = forks[d]
  BY <1>1, <1>2 DEF LifecycleInv, TypeOK
<1>5. /\ status' \in Statuses /\ session' \in Nat
      /\ found' \in [Callers -> SUBSET Statuses] /\ reached' \in [Callers -> SUBSET Statuses]
  BY <1>1 DEF LifecycleInv, TypeOK
<1> QED  BY <1>1, <1>2, <1>3, <1>4, <1>5, AnsweredInv

\* Neither changes anything at the control plane.
LEMMA ReadsChildInv ==
  ASSUME LifecycleInv, NEW c \in Callers, ReadsChild(c)
  PROVE  LifecycleInv'
PROOF
<1>1. /\ net[c] = "sent" /\ Request(c) = "child" /\ Answer(c, Wire(child[c], 0))
      /\ UNCHANGED <<status, session, committed, child, forks, found, reached>>
  BY DEF ReadsChild, server
<1>2. at[c] = "child"
  BY <1>1, RequestsOfCalls
<1>3. child[c] \in {"pending", "running", "failed"}
  BY <1>2 DEF LifecycleInv, TypeOK, CallerInv, ChildInv
<1>4. Wire(child[c], 0) \in Snapshots /\ Wire(child[c], 0).status = child[c] /\ Wire(child[c], 0) # Refusal
  BY <1>3 DEF Wire, Snapshots, Refusal, Statuses
<1>5. /\ status' \in Statuses /\ session' \in Nat
      /\ forks' \in [Callers -> Nat] /\ child' \in [Callers -> {"none", "pending", "running", "failed"}]
      /\ found' \in [Callers -> SUBSET Statuses] /\ reached' \in [Callers -> SUBSET Statuses]
  BY <1>1 DEF LifecycleInv, TypeOK
<1> QED  BY <1>1, <1>2, <1>3, <1>4, <1>5, AnsweredInv

LEMMA RefusesInv ==
  ASSUME LifecycleInv, NEW c \in Callers, Refuses(c)
  PROVE  LifecycleInv'
PROOF
<1>1. /\ net[c] = "sent" /\ Answer(c, Refusal)
      /\ UNCHANGED <<status, session, committed, child, forks, found, reached>>
  BY DEF Refuses, server
<1>2. Refusal.status = "refused"
  BY DEF Refusal
<1>3. op[c] = "remount" /\ at[c] = "call" => found[c] = {}
  BY <1>1 DEF LifecycleInv, CallerInv, RemountInv
<1>4. /\ status' \in Statuses /\ session' \in Nat
      /\ forks' \in [Callers -> Nat] /\ child' \in [Callers -> {"none", "pending", "running", "failed"}]
      /\ found' \in [Callers -> SUBSET Statuses] /\ reached' \in [Callers -> SUBSET Statuses]
  BY <1>1 DEF LifecycleInv, TypeOK
<1> QED  BY <1>1, <1>2, <1>3, <1>4, AnsweredInv

-----------------------------------------------------------------------------
\* A call moves on to stage s.
LEMMA GoToInv ==
  ASSUME LifecycleInv, NEW c \in Callers, NEW s \in Stages \ {"idle", "call"}, GoTo(c, s), net[c] # "none",
         UNCHANGED <<server, op, found, reached>>,
         view' \in [Handles -> Snapshots], named' \in [Callers -> Nat], mine' \in [Callers -> BOOLEAN],
         kid' \in [Callers -> {"none", "pending", "running", "failed"}],
         refused' \in [Callers -> Requests \cup {"none"}],
         \A d \in Callers : d # c => kid'[d] = kid[d] /\ mine'[d] = mine[d] /\ refused'[d] = refused[d],
         forks[c] # 0 => s \notin {"poll", "fork"},
         refused'[c] # "none" => s = "failed",
         refused'[c] = "fork" => forks[c] = 0,
         refused'[c] = "remount" => found[c] = {},
         kid'[c] # "none" => child[c] # "none",
         s = "child" => kid'[c] # "none",
         mine'[c] => op[c] = "fork" /\ found[c] \cap Live # {},
         mine'[c] => s \in {"poll", "fork", "undo"} \/ undone[c],
         s = "undo" => mine'[c]
  PROVE  LifecycleInv'
PROOF
<1>1. /\ at' = [at EXCEPT ![c] = s] /\ net' = [net EXCEPT ![c] = IF s \in Settled THEN "none" ELSE "sent"]
      /\ undone' = [undone EXCEPT ![c] = undone[c] \/ s = "undo"]
      /\ reply' = [reply EXCEPT ![c] = NoReply] /\ tries' = [tries EXCEPT ![c] = 0]
  BY DEF GoTo
<1>2. UNCHANGED <<status, session, committed, child, forks>>
  BY DEF server
<1>3. /\ \A d \in Callers : at'[d] = IF d = c THEN s ELSE at[d]
      /\ \A d \in Callers : net'[d] = IF d = c THEN (IF s \in Settled THEN "none" ELSE "sent") ELSE net[d]
      /\ \A d \in Callers : reply'[d] = IF d = c THEN NoReply ELSE reply[d]
  BY <1>1 DEF LifecycleInv, TypeOK
<1>4. undone' \in [Callers -> BOOLEAN]
  BY <1>1 DEF LifecycleInv, TypeOK
<1>5. undone'[c] = (undone[c] \/ s = "undo")
  BY <1>1 DEF LifecycleInv, TypeOK
<1>6. \A d \in Callers : d # c => undone'[d] = undone[d]
  BY <1>1 DEF LifecycleInv, TypeOK
<1>7. at' \in [Callers -> Stages] /\ net' \in [Callers -> {"none", "sent", "reply"}]
  BY <1>1 DEF LifecycleInv, TypeOK
<1>8. /\ reply' \in [Callers -> Snapshots \cup {NoReply, [status |-> "refused", checkpoint |-> 0]}]
      /\ tries' \in [Callers -> 0..MaxRetries]
  BY <1>1, BoundsAssumption DEF LifecycleInv, TypeOK
<1>9. TypeOK'
  BY <1>2, <1>4, <1>7, <1>8 DEF LifecycleInv, TypeOK
<1>10. ASSUME NEW d \in Callers, d # c PROVE CallerInv(d)'
  BY <1>2, <1>3, <1>6, <1>10, Rests DEF LifecycleInv
<1>11. CallerInv(c)'
  <2>1. CallerInv(c) /\ at[c] # "idle" /\ op[c] # "none"
    BY DEF LifecycleInv, CallerInv, RequestInv
  <2>2. RequestInv(c)'
    BY <1>3, <2>1 DEF RequestInv, Settled
  <2>3. ForkInv(c)'
    BY <1>2, <1>3, <2>1 DEF CallerInv, ForkInv
  <2>4. RemountInv(c)' /\ RefusedInv(c)'
    BY <1>2, <1>3 DEF RemountInv, RefusedInv
  <2>5. ChildInv(c)'
    BY <1>2, <1>3 DEF ChildInv
  <2>6. mine'[c] => s \in {"poll", "fork"} \/ undone'[c]
    BY <1>5
  <2>7. MineInv(c)'
    BY <1>3, <2>6 DEF MineInv
  <2> QED  BY <2>1, <2>2, <2>3, <2>4, <2>5, <2>7 DEF CallerInv
<1> QED  BY <1>9, <1>10, <1>11 DEF LifecycleInv

\* Where the methods go when a fork has been accepted or refused.
LEMMA AfterUndoStages ==
  ASSUME NEW c, NEW v, NEW k, NEW m
  PROVE  /\ AfterUndo(c, v, k, m) \in {"failed", "done", "child", "source"}
         /\ AfterUndo(c, v, k, m) = "child" => k = "pending"
BY DEF AfterUndo, AfterChild

\* And when the snapshot of the handle has status v.
LEMMA AfterViewStages ==
  ASSUME NEW c, NEW v
  PROVE  /\ AfterView(c, v) \in {"done", "poll", "fork", "failed"}
         /\ op[c] = "fork" => AfterView(c, v) = IF v = "pausing" THEN "poll" ELSE "fork"
BY DEF AfterView, AfterWait, Awaited

LEMMA DeliverInv ==
  ASSUME LifecycleInv, NEW c \in Callers, Deliver(c)
  PROVE  LifecycleInv'
PROOF
<1>1. PICK w, h, v, k, m, s :
        /\ w = reply[c] /\ h = HandleOf[c] /\ net[c] = "reply" /\ w # Refusal
        /\ view' = IF at[c] \in {"fork", "child"} THEN view ELSE [view EXCEPT ![h] = w]
        /\ kid' = IF at[c] \in {"fork", "child"} THEN [kid EXCEPT ![c] = w.status] ELSE kid
        /\ mine' = [mine EXCEPT ![c] = IF at[c] = "call" /\ op[c] = "fork" THEN IsMine(w.status) ELSE mine[c]]
        /\ named' = [named EXCEPT ![c] = IF at[c] = "call" /\ op[c] = "fork" THEN w.checkpoint ELSE named[c]]
        /\ v = view'[h].status /\ k = kid'[c] /\ m = mine'[c] /\ s = AfterReply(c, v, k, m) /\ GoTo(c, s)
        /\ UNCHANGED <<server, op, found, reached, refused>>
  BY DEF Deliver
<1>2. /\ at[c] \in {"call", "poll", "fork", "undo", "child", "source"} /\ CallerInv(c)
      /\ w \in Snapshots /\ h \in Handles
  BY <1>1, RequestsOfCalls, CallersAssumption DEF LifecycleInv, CallerInv, RequestInv
<1>3. w.status \in Statuses /\ w.checkpoint \in Nat
  BY <1>2 DEF Snapshots
<1>4. at[c] \in {"fork", "child"} => w.status \in {"pending", "running", "failed"} /\ child[c] # "none"
  BY <1>1, <1>2 DEF CallerInv, ChildInv
<1>5. view' \in [Handles -> Snapshots] /\ named' \in [Callers -> Nat]
  BY <1>1, <1>2, <1>3 DEF LifecycleInv, TypeOK
<1>6. kid' \in [Callers -> {"none", "pending", "running", "failed"}]
  BY <1>1, <1>4 DEF LifecycleInv, TypeOK
<1>7. IsMine(w.status) = (w.status = "pausing")
  BY DEF IsMine
<1>8. mine' \in [Callers -> BOOLEAN]
  BY <1>1, <1>7 DEF LifecycleInv, TypeOK
<1>9. refused' \in [Callers -> Requests \cup {"none"}] /\ refused'[c] = "none"
  BY <1>1, <1>2 DEF LifecycleInv, TypeOK, CallerInv, RefusedInv
<1>10. \A d \in Callers : d # c => kid'[d] = kid[d] /\ mine'[d] = mine[d] /\ refused'[d] = refused[d]
  BY <1>1 DEF LifecycleInv, TypeOK
<1>11. k = IF at[c] \in {"fork", "child"} THEN w.status ELSE kid[c]
  BY <1>1 DEF LifecycleInv, TypeOK
<1>12. m = IF at[c] = "call" /\ op[c] = "fork" THEN w.status = "pausing" ELSE mine[c]
  BY <1>1, <1>7 DEF LifecycleInv, TypeOK
<1>13. k # "none" => child[c] # "none"
  BY <1>2, <1>4, <1>11 DEF CallerInv, ChildInv
<1>14. m => op[c] = "fork" /\ found[c] \cap Live # {}
  BY <1>1, <1>2, <1>12 DEF CallerInv, MineInv
<1>15. CASE at[c] = "call"
  <2>1. v = w.status
    BY <1>1, <1>2, <1>15 DEF LifecycleInv, TypeOK
  <2>2. s = AfterView(c, v)
    BY <1>1, <1>15 DEF AfterReply
  <2>3. s \in {"done", "poll", "fork", "failed"} /\ (m => s = "poll") /\ forks[c] = 0
    BY <1>2, <1>12, <1>14, <1>15, <2>1, <2>2, AfterViewStages DEF CallerInv, ForkInv, MineInv
  <2> QED  BY <1>1, <1>5, <1>6, <1>8, <1>9, <1>10, <1>13, <1>14, <2>3, GoToInv DEF Stages
<1>16. CASE at[c] = "poll"
  <2>1. s = AfterView(c, v)
    BY <1>1, <1>16 DEF AfterReply
  <2>2. s \in {"done", "poll", "fork", "failed"} /\ (m => s \in {"poll", "fork"}) /\ forks[c] = 0
    BY <1>2, <1>14, <1>16, <2>1, AfterViewStages DEF CallerInv, ForkInv
  <2> QED  BY <1>1, <1>5, <1>6, <1>8, <1>9, <1>10, <1>13, <1>14, <2>2, GoToInv DEF Stages
<1>17. CASE at[c] = "fork"
  <2>1. s = IF m THEN "undo" ELSE AfterUndo(c, v, k, m)
    BY <1>1, <1>17 DEF AfterReply, AfterFork
  <2>2. s \in {"undo", "failed", "done", "child", "source"} /\ (s = "child" => k # "none") /\ (s = "undo" <=> m)
    BY <2>1, AfterUndoStages
  <2> QED  BY <1>1, <1>5, <1>6, <1>8, <1>9, <1>10, <1>13, <1>14, <2>2, GoToInv DEF Stages
<1>18. CASE at[c] \in {"undo", "child", "source"}
  <2>1. m => undone[c]
    BY <1>2, <1>12, <1>18 DEF CallerInv, MineInv
  <2>2. s \in {"failed", "done", "child", "source"} /\ (s = "child" => k # "none")
    <3>1. CASE at[c] = "undo"
      <4>1. s = AfterUndo(c, v, k, m)
        BY <1>1, <3>1 DEF AfterReply
      <4> QED  BY <4>1, AfterUndoStages
    <3>2. CASE at[c] \in {"child", "source"}
      BY <1>1, <3>2 DEF AfterReply, AfterChild
    <3> QED  BY <1>18, <3>1, <3>2
  <2>3. s \in Stages \ {"idle", "call"} /\ s \notin {"poll", "fork"} /\ (s = "child" => kid'[c] # "none")
    BY <1>1, <2>2 DEF Stages
  <2>4. /\ net[c] # "none" /\ GoTo(c, s) /\ UNCHANGED <<server, op, found, reached>>
        /\ mine'[c] => op[c] = "fork" /\ found[c] \cap Live # {} /\ undone[c]
        /\ kid'[c] # "none" => child[c] # "none"
    BY <1>1, <1>13, <1>14, <2>1
  <2> QED  BY <1>5, <1>6, <1>8, <1>9, <1>10, <2>2, <2>3, <2>4, GoToInv
<1> QED  BY <1>2, <1>15, <1>16, <1>17, <1>18

\* A request that failed for good leads on as it would for a caller who may
\* or may not be told why.
LEMMA AfterErrorStages ==
  ASSUME LifecycleInv, NEW c \in Callers, net[c] # "none"
  PROVE  /\ AfterError(c) \in {"undo", "failed", "done", "child", "source"}
         /\ AfterError(c) = "undo" => mine[c]
         /\ mine[c] => AfterError(c) = "undo" \/ undone[c]
         /\ AfterError(c) = "child" => kid[c] # "none"
PROOF
<1>1. at[c] \in {"call", "poll", "fork", "undo", "child", "source"}
  BY RequestsOfCalls
<1>2. MineInv(c)
  BY DEF LifecycleInv, CallerInv
<1>3. CASE at[c] \in {"poll", "fork"} /\ mine[c]
  BY <1>3 DEF AfterError
<1>4. CASE at[c] = "undo"
  <2>1. AfterError(c) = AfterUndo(c, view[HandleOf[c]].status, kid[c], mine[c])
    BY <1>4 DEF AfterError
  <2> QED  BY <1>2, <1>4, <2>1, AfterUndoStages DEF MineInv
<1>5. CASE at[c] = "source"
  <2>1. AfterError(c) = "done"
    BY <1>5 DEF AfterError
  <2> QED  BY <1>2, <1>5, <2>1 DEF MineInv
<1>6. CASE at[c] \notin {"undo", "source"} /\ ~(at[c] \in {"poll", "fork"} /\ mine[c])
  <2>1. AfterError(c) = "failed"
    BY <1>6 DEF AfterError
  <2> QED  BY <1>2, <1>6, <2>1 DEF MineInv
<1> QED  BY <1>3, <1>4, <1>5, <1>6

LEMMA DeliverRefusalInv ==
  ASSUME LifecycleInv, NEW c \in Callers, DeliverRefusal(c)
  PROVE  LifecycleInv'
PROOF
<1>1. PICK s : s = AfterError(c)
  OBVIOUS
<1>2. /\ net[c] = "reply" /\ reply[c] = Refusal /\ GoTo(c, s)
      /\ refused' = [refused EXCEPT ![c] = IF s = "failed" THEN Request(c) ELSE refused[c]]
      /\ UNCHANGED <<server, op, view, kid, mine, named, found, reached>>
  BY <1>1 DEF DeliverRefusal
<1>3. /\ Request(c) \in Requests /\ (Request(c) = "fork" => at[c] = "fork")
      /\ Request(c) = "remount" => at[c] = "call" /\ op[c] = "remount"
      /\ at[c] \in {"call", "poll", "fork", "undo", "child", "source"} /\ CallerInv(c)
  BY <1>2, RequestsOfCalls DEF LifecycleInv
<1>4. refused[c] = "none"
  BY <1>3 DEF CallerInv, RefusedInv
<1>5. /\ refused' \in [Callers -> Requests \cup {"none"}]
      /\ refused'[c] = IF s = "failed" THEN Request(c) ELSE "none"
      /\ \A d \in Callers : d # c => refused'[d] = refused[d]
  BY <1>2, <1>3, <1>4 DEF LifecycleInv, TypeOK
<1>6. (Request(c) = "fork" => forks[c] = 0) /\ (Request(c) = "remount" => found[c] = {})
  BY <1>2, <1>3 DEF CallerInv, ForkInv, RemountInv
<1>7. /\ view' \in [Handles -> Snapshots] /\ named' \in [Callers -> Nat] /\ mine' \in [Callers -> BOOLEAN]
      /\ kid' \in [Callers -> {"none", "pending", "running", "failed"}]
  BY <1>2 DEF LifecycleInv, TypeOK
<1>8. /\ s \in {"undo", "failed", "done", "child", "source"} /\ (s = "undo" => mine[c])
      /\ (mine[c] => s = "undo" \/ undone[c]) /\ (s = "child" => kid[c] # "none")
  BY <1>1, <1>2, AfterErrorStages
<1>9. (kid[c] # "none" => child[c] # "none") /\ (mine[c] => op[c] = "fork" /\ found[c] \cap Live # {})
  BY <1>3 DEF CallerInv, ChildInv, MineInv
<1>10. refused'[c] \in {"fork", "remount"} => refused'[c] = Request(c)
  BY <1>5
<1>11. (refused'[c] # "none" => s = "failed") /\ kid'[c] = kid[c] /\ mine'[c] = mine[c]
  BY <1>2, <1>5
<1> QED  BY <1>2, <1>5, <1>6, <1>7, <1>8, <1>9, <1>10, <1>11, GoToInv DEF Stages

LEMMA TransportFailsInv ==
  ASSUME LifecycleInv, NEW c \in Callers, NEW fault \in {"connect", "lost"}, TransportFails(c, fault)
  PROVE  LifecycleInv'
PROOF
<1>1. /\ net[c] = "sent" \/ (net[c] = "reply" /\ fault = "lost")
      /\ UNCHANGED <<server, op, view, kid, mine, named, found, reached, refused>>
  BY DEF TransportFails
<1>2. net[c] # "none" /\ CallerInv(c)
  BY <1>1 DEF LifecycleInv
<1>3. CASE MayRetry(c, fault)
  <2>1. /\ tries' = [tries EXCEPT ![c] = tries[c] + 1] /\ net' = [net EXCEPT ![c] = "sent"]
        /\ reply' = [reply EXCEPT ![c] = NoReply] /\ UNCHANGED <<at, undone>>
    BY <1>3 DEF TransportFails
  <2>2. tries[c] < MaxRetries /\ (net[c] = "reply" => Request(c) \notin {"fork", "remount"})
    BY <1>1, <1>3 DEF MayRetry, RetryMode
  <2>3. /\ \A d \in Callers : net'[d] = IF d = c THEN "sent" ELSE net[d]
        /\ \A d \in Callers : reply'[d] = IF d = c THEN NoReply ELSE reply[d]
    BY <2>1 DEF LifecycleInv, TypeOK
  <2>4. UNCHANGED <<status, session, committed, child, forks>>
    BY <1>1 DEF server
  <2>5. tries' \in [Callers -> 0..MaxRetries]
    <3>1. tries[c] \in 0..MaxRetries /\ tries[c] + 1 \in 0..MaxRetries
      BY <2>2, BoundsAssumption DEF LifecycleInv, TypeOK
    <3> QED  BY <2>1, <3>1 DEF LifecycleInv, TypeOK
  <2>6. TypeOK'
    BY <1>1, <2>1, <2>4, <2>5 DEF LifecycleInv, TypeOK
  <2>7. ASSUME NEW d \in Callers, d # c PROVE CallerInv(d)'
    BY <1>1, <2>1, <2>3, <2>4, <2>7, Rests DEF LifecycleInv
  <2>8. at[c] = "fork" \/ (at[c] = "call" /\ op[c] = "remount") => net[c] = "sent"
    BY <1>1, <1>2, <2>2, RequestsOfCalls
  <2>9. CallerInv(c)'
    <3>1. net'[c] = "sent" /\ reply'[c] = NoReply
      BY <2>3
    <3>2. RequestInv(c)'
      BY <1>1, <1>2, <2>1, <3>1 DEF CallerInv, RequestInv
    <3>3. ForkInv(c)' /\ RemountInv(c)' /\ RefusedInv(c)'
      BY <1>1, <1>2, <2>1, <2>4, <2>8, <3>1 DEF CallerInv, ForkInv, RemountInv, RefusedInv
    <3>4. ChildInv(c)'
      BY <1>1, <1>2, <2>1, <2>4, <3>1 DEF CallerInv, ChildInv
    <3>5. MineInv(c)'
      BY <1>1, <1>2, <2>1, <3>1 DEF CallerInv, MineInv
    <3> QED  BY <3>2, <3>3, <3>4, <3>5 DEF CallerInv
  <2> QED  BY <2>6, <2>7, <2>9 DEF LifecycleInv
<1>4. CASE ~MayRetry(c, fault)
  <2>1. PICK s : s = AfterError(c)
    OBVIOUS
  <2>2. GoTo(c, s)
    BY <1>4, <2>1 DEF TransportFails
  <2>3. /\ s \in {"undo", "failed", "done", "child", "source"} /\ (s = "undo" => mine[c])
        /\ (mine[c] => s = "undo" \/ undone[c]) /\ (s = "child" => kid[c] # "none")
    BY <1>2, <2>1, AfterErrorStages
  <2>4. /\ kid[c] # "none" => child[c] # "none"
        /\ mine[c] => op[c] = "fork" /\ found[c] \cap Live # {}
        /\ refused[c] = "none"
    BY <1>2, RequestsOfCalls DEF CallerInv, ChildInv, MineInv, RefusedInv
  <2>5. /\ view' \in [Handles -> Snapshots] /\ named' \in [Callers -> Nat] /\ mine' \in [Callers -> BOOLEAN]
        /\ kid' \in [Callers -> {"none", "pending", "running", "failed"}]
        /\ refused' \in [Callers -> Requests \cup {"none"}]
    BY <1>1 DEF LifecycleInv, TypeOK
  <2> QED  BY <1>1, <1>2, <2>2, <2>3, <2>4, <2>5, GoToInv DEF Stages
<1> QED  BY <1>3, <1>4

-----------------------------------------------------------------------------
LEMMA NextLifecycleInv == LifecycleInv /\ [Next]_vars => LifecycleInv'
PROOF
<1> SUFFICES ASSUME LifecycleInv, [Next]_vars PROVE LifecycleInv'
  OBVIOUS
<1>1. ASSUME NEW c \in Callers, Executes(c) PROVE LifecycleInv'
  BY <1>1, ActsInv, RepeatedInv, ForksInv, ReadsChildInv, RefusesInv DEF Executes
<1>2. ASSUME NEW c \in Callers, Continues(c) PROVE LifecycleInv'
  BY <1>2, DeliverInv, DeliverRefusalInv, TransportFailsInv DEF Continues
<1>3. CASE UNCHANGED vars
  <2>1. UNCHANGED <<status, session, committed, child, forks, op, at, net, tries, view, kid, mine, named, undone,
                    refused, reply, found, reached>>
    BY <1>3 DEF vars, server, client
  <2>2. TypeOK'
    BY <2>1 DEF LifecycleInv, TypeOK
  <2>3. ASSUME NEW d \in Callers PROVE CallerInv(d)'
    BY <2>1, Rests DEF LifecycleInv
  <2> QED  BY <2>2, <2>3 DEF LifecycleInv
<1> QED  BY <1>1, <1>2, <1>3, SandboxSettlesInv, ChildSettlesInv, BeginInv DEF Next

LEMMA LifecycleInvariant == Spec => []LifecycleInv
BY InitLifecycleInv, NextLifecycleInv, PTL DEF Spec

\* Every variable of the lifecycle model keeps its type.
THEOREM LifecycleTypes == Spec => []TypeOK
PROOF
<1>1. LifecycleInv => TypeOK
  BY DEF LifecycleInv
<1> QED  BY <1>1, LifecycleInvariant, PTL

\* A fork, or a start with mounts, is executed at most once and not reported
\* as refused when it was, however many callers there are and however often
\* requests are repeated (retry.ts, sandbox.ts:578).
THEOREM NothingIsDoneTwice == Spec => []RetriesAreHarmless
PROOF
<1>1. LifecycleInv => RetriesAreHarmless
  BY DEF LifecycleInv, CallerInv, ForkInv, RefusedInv, RetriesAreHarmless, AtMostOneChild, SuccessIsNotRefused
<1> QED  BY <1>1, LifecycleInvariant, PTL

\* fork() asks for the resume of the source it paused, whichever request fails
\* on the way, and leaves one it found inactive alone (sandbox.ts:583).
THEOREM SourceIsRestored == Spec => []ForkRestoresItsSource
PROOF
<1>1. LifecycleInv => ForkRestoresItsSource
  <2> SUFFICES ASSUME LifecycleInv, NEW c \in Callers
      PROVE  /\ at[c] = "undo" => found[c] \cap Live # {}
             /\ at[c] \in Settled /\ mine[c] => undone[c]
    BY DEF ForkRestoresItsSource, ForkLeavesInactiveAlone, ForkAlwaysResumes, Live
  <2> QED  BY DEF LifecycleInv, CallerInv, MineInv, Settled
<1> QED  BY <1>1, LifecycleInvariant, PTL
-----------------------------------------------------------------------------
(* Waiting.  On top of that invariant, what has to be known is that a      *)
(* session which was inactive once is never live again, and that nothing   *)
(* the sandbox goes through after a call's request was executed is missed, *)
(* although replies are late.                                              *)

Starting == {"start", "remount", "resume"}

\* The pause of session n has begun, or is over.
Paused(n) == n < session \/ (n = session /\ status \notin {"running", "pending"})
Past(n)   == n < session \/ (n = session /\ status \notin {"running", "pending", "pausing"})

Replied(c) == net[c] = "reply" /\ reply[c] # Refusal

\* The checkpoint a fork names.
CheckpointInv(c) ==
  /\ op[c] = "fork" /\ at[c] = "call" /\ Replied(c) =>
       Paused(reply[c].checkpoint) /\ (reply[c].status # "pausing" => Past(reply[c].checkpoint))
  /\ op[c] = "fork" /\ at[c] = "poll" => Paused(named[c])
  /\ op[c] = "fork" /\ at[c] = "poll" /\ Replied(c) /\ reply[c].status # "pausing" => Past(named[c])
  /\ at[c] = "fork" => Past(named[c])

\* What a call has seen of its operation.
SeenInv(c) ==
  /\ at[c] = "poll" => found[c] # {}
  /\ at[c] \in {"call", "poll"} /\ Replied(c) => found[c] # {} /\ reply[c].status \in reached[c]
  /\ op[c] = "stop" /\ found[c] # {} => status = "stopping" \/ "stopped" \in reached[c]
  /\ op[c] \in Starting /\ found[c] # {} => status = "pending" \/ reached[c] \cap {"running", "failed"} # {}
  /\ op[c] = "stop" /\ at[c] \in {"call", "poll"} /\ Replied(c) /\ reply[c].status # "stopping" =>
       "stopped" \in reached[c]
  /\ op[c] \in Starting /\ at[c] \in {"call", "poll"} /\ Replied(c) /\ reply[c].status # "pending" =>
       reached[c] \cap {"running", "failed"} # {}

\* What a fork has seen of its child.
KidInv(c) ==
  /\ op[c] # "fork" => at[c] \notin {"fork", "undo", "child", "source"}
  /\ at[c] \in {"idle", "call", "poll", "fork"} => kid[c] = "none"
  /\ kid[c] \in {"running", "failed"} => child[c] = kid[c]
  /\ at[c] = "source" => kid[c] \in {"running", "failed"}
  /\ at[c] \in {"fork", "child"} /\ Replied(c) /\ reply[c].status \in {"running", "failed"} =>
       child[c] = reply[c].status

Ended(c) == IF op[c] = "fork" THEN child[c] \in {"running", "failed"} ELSE reached[c] \cap Final[op[c]] # {}
EndedInv(c) == c \in Patient /\ at[c] = "done" => Ended(c)

WaitInv(c) == CheckpointInv(c) /\ SeenInv(c) /\ KidInv(c) /\ EndedInv(c)
WaitsInv == \A c \in Callers : WaitInv(c)

LEMMA InitWaitsInv == Init => WaitsInv
PROOF
<1> SUFFICES ASSUME Init, NEW c \in Callers PROVE WaitInv(c)
  BY DEF WaitsInv
<1> QED  BY DEF Init, WaitInv, CheckpointInv, SeenInv, KidInv, EndedInv, Replied

-----------------------------------------------------------------------------
\* What the sandbox may do in a step.
PlaneStep ==
  \/ UNCHANGED <<status, session>>
  \/ status = "pending" /\ status' \in {"running", "failed"} /\ session' = session
  \/ status = "pausing" /\ status' \in {"paused", "failed"} /\ session' = session
  \/ status = "stopping" /\ status' = "stopped" /\ session' = session
  \/ status = "running" /\ status' \in {"pausing", "stopping"} /\ session' = session
  \/ status = "paused" /\ status' = "stopping" /\ session' = session
  \/ status \in {"paused", "stopped", "failed"} /\ status' = "pending" /\ session' = session + 1

\* A session that was inactive is never live again.
LEMMA PausedForGood ==
  ASSUME TypeOK, PlaneStep, NEW n \in Nat
  PROVE  (Paused(n) => Paused(n)') /\ (Past(n) => Past(n)')
BY DEF TypeOK, PlaneStep, Paused, Past

\* What is said of a call that rests goes on to hold while the sandbox and the
\* child move.
LEMMA WaitRests ==
  ASSUME LifecycleInv, NEW d \in Callers, WaitInv(d), PlaneStep,
         op'[d] = op[d], at'[d] = at[d], net'[d] = net[d], reply'[d] = reply[d], found'[d] = found[d],
         named'[d] = named[d], kid'[d] = kid[d],
         child'[d] = child[d] \/ child[d] = "pending",
         reached[d] \subseteq reached'[d], found[d] # {} => status' = status \/ status' \in reached'[d]
  PROVE  WaitInv(d)'
PROOF
<1>1. named[d] \in Nat /\ (net[d] = "reply" => reply[d].checkpoint \in Nat)
  BY DEF LifecycleInv, TypeOK, CallerInv, RequestInv, Snapshots, Refusal
<1>2. (Paused(named[d]) => Paused(named[d])') /\ (Past(named[d]) => Past(named[d])')
  <2> PICK n \in Nat : n = named[d]
    BY <1>1
  <2>1. (Paused(n) => Paused(n)') /\ (Past(n) => Past(n)')
    BY PausedForGood DEF LifecycleInv
  <2> QED  BY <2>1 DEF Paused, Past
<1>3. ASSUME net[d] = "reply"
      PROVE  /\ Paused(reply[d].checkpoint) => Paused(reply[d].checkpoint)'
             /\ Past(reply[d].checkpoint) => Past(reply[d].checkpoint)'
  <2> PICK n \in Nat : n = reply[d].checkpoint
    BY <1>1, <1>3
  <2>1. (Paused(n) => Paused(n)') /\ (Past(n) => Past(n)')
    BY PausedForGood DEF LifecycleInv
  <2> QED  BY <2>1 DEF Paused, Past
<1>4. Replied(d)' = Replied(d) /\ (Replied(d) => net[d] = "reply")
  BY DEF Replied
<1>5. CheckpointInv(d)'
  BY <1>2, <1>3, <1>4 DEF WaitInv, CheckpointInv
<1>6. SeenInv(d)'
  BY <1>4 DEF WaitInv, SeenInv, PlaneStep
<1>7. KidInv(d)'
  BY <1>4 DEF WaitInv, KidInv
<1>8. EndedInv(d)'
  BY DEF WaitInv, EndedInv, Ended
<1> QED  BY <1>5, <1>6, <1>7, <1>8 DEF WaitInv

LEMMA NotedGrows ==
  ASSUME TypeOK, NEW d \in Callers, NEW st \in Statuses
  PROVE  reached[d] \subseteq Noted(st)[d] /\ (found[d] # {} => st \in Noted(st)[d])
BY DEF TypeOK, Noted

LEMMA SandboxSettlesWait ==
  ASSUME LifecycleInv, WaitsInv, SandboxSettles
  PROVE  WaitsInv'
PROOF
<1> SUFFICES ASSUME NEW d \in Callers PROVE WaitInv(d)'
  BY DEF WaitsInv
<1>1. PICK st \in Statuses : SettleTo(st)
  BY DEF SandboxSettles, Statuses
<1>2. /\ status' = st /\ reached' = Noted(st)
      /\ UNCHANGED <<session, child, op, at, net, tries, view, kid, mine, named, reply, found>>
  BY <1>1 DEF SettleTo, client
<1>3. PlaneStep
  BY DEF SandboxSettles, SettleTo, PlaneStep
<1> QED  BY <1>2, <1>3, NotedGrows, WaitRests DEF LifecycleInv, WaitsInv

LEMMA ChildSettlesWait ==
  ASSUME LifecycleInv, WaitsInv, NEW c \in Callers, ChildSettles(c)
  PROVE  WaitsInv'
PROOF
<1> SUFFICES ASSUME NEW d \in Callers PROVE WaitInv(d)'
  BY DEF WaitsInv
<1>1. /\ child'[d] = child[d] \/ child[d] = "pending"
      /\ UNCHANGED <<status, session, op, at, net, kid, named, reply, found, reached>>
  BY DEF ChildSettles, client, LifecycleInv, TypeOK
<1> QED  BY <1>1, WaitRests DEF WaitsInv, PlaneStep

LEMMA BeginWait ==
  ASSUME LifecycleInv, WaitsInv, NEW c \in Callers, NEW o \in Ops, Begin(c, o)
  PROVE  WaitsInv'
PROOF
<1>1. /\ at[c] = "idle" /\ op' = [op EXCEPT ![c] = o] /\ at' = [at EXCEPT ![c] = "call"]
      /\ net' = [net EXCEPT ![c] = "sent"]
      /\ UNCHANGED <<status, session, child, reply, kid, named, found, reached>>
  BY DEF Begin, server
<1>2. ASSUME NEW d \in Callers, d # c PROVE WaitInv(d)'
  <2>1. op'[d] = op[d] /\ at'[d] = at[d] /\ net'[d] = net[d]
    BY <1>1, <1>2 DEF LifecycleInv, TypeOK
  <2> QED  BY <1>1, <2>1, WaitRests DEF WaitsInv, PlaneStep
<1>3. WaitInv(c)'
  <2>1. op'[c] = o /\ at'[c] = "call" /\ net'[c] = "sent"
    BY <1>1 DEF LifecycleInv, TypeOK
  <2>2. WaitInv(c) /\ found[c] = {}
    BY <1>1 DEF LifecycleInv, CallerInv, RemountInv, WaitsInv
  <2>3. ~Replied(c)'
    BY <2>1 DEF Replied
  <2> QED  BY <1>1, <2>1, <2>2, <2>3 DEF WaitInv, CheckpointInv, SeenInv, KidInv, EndedInv
<1> QED  BY <1>2, <1>3 DEF WaitsInv

-----------------------------------------------------------------------------
\* What Find notes: the new status, for every call whose request was executed.
LEMMA FindSees ==
  ASSUME LifecycleInv, NEW c \in Callers, NEW st \in Statuses, Find(c, st)
  PROVE  /\ \A d \in Callers : reached[d] \subseteq reached'[d] /\ (found[d] # {} => st \in reached'[d])
         /\ at[c] = "call" => st \in reached'[c]
PROOF
<1>1. /\ Noted(st) \in [Callers -> SUBSET Statuses]
      /\ \A d \in Callers : reached[d] \subseteq Noted(st)[d] /\ (found[d] # {} => st \in Noted(st)[d])
  BY NotedStatuses, NotedGrows DEF LifecycleInv
<1>2. CASE at[c] = "call"
  <2>1. reached' = [Noted(st) EXCEPT ![c] = Noted(st)[c] \cup {st}]
    BY <1>2 DEF Find
  <2> QED  BY <1>1, <2>1
<1>3. CASE at[c] # "call"
  BY <1>1, <1>3 DEF Find
<1> QED  BY <1>2, <1>3

\* The request of a call is executed, and answered with the status it left.
LEMMA ExecutedWait ==
  ASSUME LifecycleInv, WaitsInv, NEW c \in Callers, NEW st \in Statuses, NEW n \in Nat,
         net[c] = "sent", at[c] \notin {"fork", "child"}, PlaneStep,
         status' = st, session' = n, Answer(c, Wire(st, n)), Find(c, st), UNCHANGED child,
         at[c] = "call" /\ op[c] = "fork" => st \in {"pausing", "paused", "stopped"},
         at[c] = "call" /\ op[c] = "stop" => st \in {"stopping", "stopped"},
         at[c] = "call" /\ op[c] \in Starting => st \in {"pending", "running"}
  PROVE  WaitsInv'
PROOF
<1>1. /\ net' = [net EXCEPT ![c] = "reply"] /\ reply' = [reply EXCEPT ![c] = Wire(st, n)]
      /\ UNCHANGED <<op, at, kid, named>>
  BY DEF Answer
<1>2. /\ \A d \in Callers : net'[d] = IF d = c THEN "reply" ELSE net[d]
      /\ \A d \in Callers : reply'[d] = IF d = c THEN Wire(st, n) ELSE reply[d]
  BY <1>1 DEF LifecycleInv, TypeOK
<1>3. ASSUME NEW d \in Callers, d # c PROVE WaitInv(d)'
  BY <1>1, <1>2, <1>3, FoundStatuses, FindSees, WaitRests DEF WaitsInv
<1>4. WaitInv(c)'
  <2>1. WaitInv(c)
    BY DEF WaitsInv
  <2>2. /\ net'[c] = "reply" /\ reply'[c] = Wire(st, n) /\ op'[c] = op[c] /\ at'[c] = at[c]
        /\ kid'[c] = kid[c] /\ named'[c] = named[c] /\ child'[c] = child[c]
    BY <1>1, <1>2
  <2>3. Wire(st, n).status = st /\ (st \in Inactive => Wire(st, n).checkpoint = n)
    BY DEF Wire
  <2>4. at[c] # "idle" /\ at[c] # "done" /\ named[c] \in Nat
    BY DEF LifecycleInv, CallerInv, RequestInv, TypeOK
  <2>5. /\ found[c] \subseteq found'[c] /\ (at[c] # "call" => found'[c] = found[c])
        /\ (at[c] = "call" => found'[c] # {})
        /\ reached[c] \subseteq reached'[c] /\ (found[c] # {} => st \in reached'[c])
        /\ (at[c] = "call" => st \in reached'[c])
    BY FoundStatuses, FindSees
  <2>6. Paused(named[c]) => Paused(named[c])'
    <3> PICK k \in Nat : k = named[c]
      BY <2>4
    <3>1. Paused(k) => Paused(k)'
      BY PausedForGood DEF LifecycleInv
    <3> QED  BY <3>1, <2>2 DEF Paused
  <2>7. CheckpointInv(c)'
    <3>1. ASSUME op[c] = "fork", at[c] = "call"
          PROVE  Paused(reply[c].checkpoint)' /\ (st # "pausing" => Past(reply[c].checkpoint)')
      BY <2>2, <2>3, <3>1 DEF Paused, Past, Inactive
    <3>2. ASSUME op[c] = "fork", at[c] = "poll"
          PROVE  Paused(named[c])' /\ (st # "pausing" => Past(named[c])')
      <4>1. Paused(named[c])'
        BY <2>1, <2>6, <3>2 DEF WaitInv, CheckpointInv
      <4> QED  BY <4>1 DEF Paused, Past
    <3> QED  BY <2>2, <2>3, <3>1, <3>2 DEF CheckpointInv
  <2>8. SeenInv(c)'
    <3>1. at[c] = "poll" => found'[c] # {} /\ st \in reached'[c]
      BY <2>1, <2>5 DEF WaitInv, SeenInv
    <3>2. op[c] = "stop" /\ found'[c] # {} => st = "stopping" \/ "stopped" \in reached'[c]
      BY <2>1, <2>5 DEF WaitInv, SeenInv, PlaneStep
    <3>3. op[c] \in Starting /\ found'[c] # {} => st = "pending" \/ reached'[c] \cap {"running", "failed"} # {}
      BY <2>1, <2>5 DEF WaitInv, SeenInv, PlaneStep
    <3> QED  BY <2>2, <2>3, <2>5, <3>1, <3>2, <3>3 DEF SeenInv
  <2>9. KidInv(c)'
    BY <2>1, <2>2 DEF WaitInv, KidInv
  <2>10. EndedInv(c)'
    BY <2>2, <2>4 DEF EndedInv
  <2> QED  BY <2>7, <2>8, <2>9, <2>10 DEF WaitInv
<1> QED  BY <1>3, <1>4 DEF WaitsInv

\* What each first request leaves the sandbox in.
LEMMA TablesOfFirstRequests ==
  ASSUME NEW r \in Requests
  PROVE  /\ r = "pause" => Becomes[r] = "pausing" /\ Repeats[r] = {"pausing", "paused", "stopped"}
         /\ r = "stop" => Becomes[r] = "stopping" /\ Repeats[r] = {"stopping", "stopped"}
         /\ r \in Starting => Becomes[r] = "pending" /\ Repeats[r] \subseteq {"pending", "running"}
BY DEF Becomes, Repeats, Starting

LEMMA FirstRequestOf ==
  ASSUME NEW c \in Callers, at[c] = "call"
  PROVE  (op[c] = "fork" => Request(c) = "pause") /\ (op[c] \in Starting \cup {"stop"} => Request(c) = op[c])
PROOF
<1>1. Request(c) = FirstRequest(op[c])
  BY DEF Request
<1>2. FirstRequest(op[c]) = IF op[c] = "fork" THEN "pause" ELSE IF op[c] = "refresh" THEN "get" ELSE op[c]
  BY DEF FirstRequest
<1> QED  BY <1>1, <1>2 DEF Starting

LEMMA ActsWait ==
  ASSUME LifecycleInv, WaitsInv, NEW c \in Callers, Acts(c)
  PROVE  WaitsInv'
PROOF
<1>1. PICK r, st, n :
        /\ r = Request(c) /\ st = Becomes[r] /\ n = IF st = "pending" THEN session + 1 ELSE session
        /\ net[c] = "sent" /\ status \in ActsOn[r]
        /\ status' = st /\ session' = n /\ Answer(c, Wire(st, n)) /\ Find(c, st) /\ UNCHANGED child
  BY DEF Acts
<1>2. r \in Requests /\ at[c] \notin {"fork", "child"}
  BY <1>1, RequestsOfCalls, TablesOfThePlane
<1>3. st \in Statuses /\ n \in Nat
  BY <1>1, <1>2, TablesOfThePlane DEF Statuses, LifecycleInv, TypeOK
<1>4. PlaneStep
  <2>1. st = IF r = "stop" THEN "stopping" ELSE IF r = "pause" THEN "pausing" ELSE "pending"
    BY <1>1, <1>2 DEF Becomes
  <2>2. ActsOn[r] = IF r \in {"start", "remount"} THEN {"paused", "stopped", "failed"}
                    ELSE IF r = "resume" THEN {"paused"}
                    ELSE IF r = "stop" THEN {"running", "paused"}
                    ELSE IF r = "pause" THEN {"running"} ELSE {}
    BY <1>2 DEF ActsOn
  <2> QED  BY <1>1, <2>1, <2>2 DEF PlaneStep
<1>5. /\ at[c] = "call" /\ op[c] = "fork" => st = "pausing"
      /\ at[c] = "call" /\ op[c] = "stop" => st = "stopping"
      /\ at[c] = "call" /\ op[c] \in Starting => st = "pending"
  BY <1>1, <1>2, FirstRequestOf, TablesOfFirstRequests
<1> QED  BY <1>1, <1>2, <1>3, <1>4, <1>5, ExecutedWait

LEMMA RepeatedWait ==
  ASSUME LifecycleInv, WaitsInv, NEW c \in Callers, Repeated(c)
  PROVE  WaitsInv'
PROOF
<1>1. PICK r, st, n :
        /\ r = Request(c) /\ st = status /\ n = session
        /\ net[c] = "sent" /\ st \in Repeats[r]
        /\ status' = st /\ session' = n /\ Answer(c, Wire(st, n)) /\ Find(c, st) /\ UNCHANGED child
  BY DEF Repeated, server
<1>2. r \in Requests /\ at[c] \notin {"fork", "child"}
  BY <1>1, RequestsOfCalls, TablesOfThePlane
<1>3. st \in Statuses /\ n \in Nat /\ PlaneStep
  BY <1>1 DEF LifecycleInv, TypeOK, PlaneStep
<1>4. /\ at[c] = "call" /\ op[c] = "fork" => st \in {"pausing", "paused", "stopped"}
      /\ at[c] = "call" /\ op[c] = "stop" => st \in {"stopping", "stopped"}
      /\ at[c] = "call" /\ op[c] \in Starting => st \in {"pending", "running"}
  BY <1>1, <1>2, FirstRequestOf, TablesOfFirstRequests
<1> QED  BY <1>1, <1>2, <1>3, <1>4, ExecutedWait

\* A fork, a look at the child and a refusal leave the sandbox alone.
LEMMA OtherAnswersWait ==
  ASSUME LifecycleInv, WaitsInv, NEW c \in Callers, NEW w, Answer(c, w), net[c] = "sent",
         UNCHANGED <<status, session, found, reached>>,
         \A d \in Callers : d # c => child'[d] = child[d],
         \/ w = Refusal /\ child'[c] = child[c]
         \/ at[c] = "fork" /\ w.status = "pending" /\ child'[c] = "pending"
         \/ at[c] = "child" /\ w.status = child[c] /\ child'[c] = child[c]
  PROVE  WaitsInv'
PROOF
<1>1. /\ net' = [net EXCEPT ![c] = "reply"] /\ reply' = [reply EXCEPT ![c] = w]
      /\ UNCHANGED <<op, at, kid, named>>
  BY DEF Answer
<1>2. /\ \A d \in Callers : net'[d] = IF d = c THEN "reply" ELSE net[d]
      /\ \A d \in Callers : d # c => reply'[d] = reply[d]
      /\ reply'[c] = w
  BY <1>1 DEF LifecycleInv, TypeOK
<1>3. ASSUME NEW d \in Callers, d # c PROVE WaitInv(d)'
  BY <1>1, <1>2, <1>3, WaitRests DEF WaitsInv, PlaneStep
<1>4. WaitInv(c)'
  <2>1. WaitInv(c) /\ at[c] # "done"
    BY DEF WaitsInv, LifecycleInv, CallerInv, RequestInv
  <2>2. at[c] \in {"call", "poll"} => ~Replied(c)'
    BY <1>1, <1>2 DEF Replied
  <2>3. CheckpointInv(c)'
    BY <1>1, <2>1, <2>2 DEF WaitInv, CheckpointInv, Paused, Past
  <2>4. SeenInv(c)'
    BY <1>1, <2>1, <2>2 DEF WaitInv, SeenInv
  <2>5. KidInv(c)'
    BY <1>1, <1>2, <2>1 DEF WaitInv, KidInv, Replied
  <2>6. EndedInv(c)'
    BY <1>1, <2>1 DEF EndedInv
  <2> QED  BY <2>3, <2>4, <2>5, <2>6 DEF WaitInv
<1> QED  BY <1>3, <1>4 DEF WaitsInv

LEMMA ExecutesWait ==
  ASSUME LifecycleInv, WaitsInv, NEW c \in Callers, Executes(c)
  PROVE  WaitsInv'
PROOF
<1>1. CASE Forks(c)
  <2>1. /\ net[c] = "sent" /\ Request(c) = "fork" /\ child' = [child EXCEPT ![c] = "pending"]
        /\ Answer(c, Wire("pending", 0)) /\ UNCHANGED <<status, session, found, reached>>
    BY <1>1 DEF Forks
  <2>2. at[c] = "fork" /\ Wire("pending", 0).status = "pending"
    BY <2>1, RequestsOfCalls DEF Wire
  <2>3. child'[c] = "pending" /\ \A d \in Callers : d # c => child'[d] = child[d]
    BY <2>1 DEF LifecycleInv, TypeOK
  <2> QED  BY <2>1, <2>2, <2>3, OtherAnswersWait
<1>2. CASE ReadsChild(c)
  <2>1. /\ net[c] = "sent" /\ Request(c) = "child" /\ Answer(c, Wire(child[c], 0))
        /\ UNCHANGED <<status, session, child, found, reached>>
    BY <1>2 DEF ReadsChild, server
  <2>2. at[c] = "child" /\ Wire(child[c], 0).status = child[c]
    BY <2>1, RequestsOfCalls DEF Wire
  <2> QED  BY <2>1, <2>2, OtherAnswersWait
<1>3. CASE Refuses(c)
  <2>1. net[c] = "sent" /\ Answer(c, Refusal) /\ UNCHANGED <<status, session, child, found, reached>>
    BY <1>3 DEF Refuses, server
  <2> QED  BY <2>1, OtherAnswersWait
<1> QED  BY <1>1, <1>2, <1>3, ActsWait, RepeatedWait DEF Executes

-----------------------------------------------------------------------------
\* A call moves on to stage s.
LEMMA GoToWait ==
  ASSUME LifecycleInv, WaitsInv, NEW c \in Callers, NEW s \in Stages \ {"idle", "call"}, GoTo(c, s),
         UNCHANGED <<status, session, child, op, found, reached>>,
         \A d \in Callers : d # c => kid'[d] = kid[d] /\ named'[d] = named[d],
         s = "poll" => found[c] # {} /\ (op[c] = "fork" => Paused(named[c])'),
         s = "fork" => Past(named[c])',
         op[c] # "fork" => s \notin {"fork", "undo", "child", "source"},
         s \in {"poll", "fork"} => kid'[c] = "none",
         kid'[c] \in {"running", "failed"} => child[c] = kid'[c],
         s = "source" => kid'[c] \in {"running", "failed"},
         c \in Patient /\ s = "done" => Ended(c)
  PROVE  WaitsInv'
PROOF
<1>1. /\ at' = [at EXCEPT ![c] = s] /\ net' = [net EXCEPT ![c] = IF s \in Settled THEN "none" ELSE "sent"]
      /\ reply' = [reply EXCEPT ![c] = NoReply]
  BY DEF GoTo
<1>2. /\ \A d \in Callers : at'[d] = IF d = c THEN s ELSE at[d]
      /\ \A d \in Callers : net'[d] = IF d = c THEN (IF s \in Settled THEN "none" ELSE "sent") ELSE net[d]
      /\ \A d \in Callers : reply'[d] = IF d = c THEN NoReply ELSE reply[d]
  BY <1>1 DEF LifecycleInv, TypeOK
<1>3. ASSUME NEW d \in Callers, d # c PROVE WaitInv(d)'
  BY <1>2, <1>3, WaitRests DEF WaitsInv, PlaneStep
<1>4. WaitInv(c)'
  <2>1. WaitInv(c) /\ at'[c] = s /\ ~Replied(c)'
    BY <1>2 DEF WaitsInv, Replied
  <2>2. CheckpointInv(c)' /\ SeenInv(c)'
    BY <2>1 DEF WaitInv, CheckpointInv, SeenInv
  <2>3. KidInv(c)'
    BY <2>1 DEF KidInv
  <2>4. EndedInv(c)'
    BY <2>1 DEF EndedInv, Ended
  <2> QED  BY <2>2, <2>3, <2>4 DEF WaitInv
<1> QED  BY <1>3, <1>4 DEF WaitsInv

\* A call that is not a fork resolves when its own reply ends its operation.
LEMMA EndsRightly ==
  ASSUME LifecycleInv, WaitsInv, NEW c \in Callers, at[c] \in {"call", "poll"}, Replied(c),
         op[c] # "fork", c \in Patient, AfterView(c, reply[c].status) = "done"
  PROVE  reached[c] \cap Final[op[c]] # {}
PROOF
<1>1. PICK v : v = reply[c].status
  OBVIOUS
<1>2. op[c] \in AllOps \ {"fork"} /\ v \in Statuses /\ v \in reached[c]
  <2>1. net[c] # "none" /\ reply[c] \in Snapshots
    BY DEF Replied, LifecycleInv, CallerInv, RequestInv
  <2> QED  BY <1>1, <2>1, RequestsOfCalls DEF Snapshots, WaitsInv, WaitInv, SeenInv
<1>3. CASE op[c] = "refresh"
  BY <1>2, <1>3 DEF Final, AllOps
<1>4. CASE op[c] # "refresh"
  <2>1. v # Awaited(op[c]) /\ AfterWait(c, v) = "done"
    BY <1>1, <1>2, <1>4 DEF AfterView
  <2>2. CASE op[c] = "pause"
    BY <1>2, <2>1, <2>2 DEF AfterWait, Final, AllOps
  <2>3. CASE op[c] = "stop"
    <3>1. v # "stopping"
      BY <2>1, <2>3 DEF Awaited
    <3> QED  BY <1>1, <2>3, <3>1 DEF Final, AllOps, WaitsInv, WaitInv, SeenInv
  <2>4. CASE op[c] \in Starting
    <3>1. v # "pending"
      BY <2>1, <2>4 DEF Awaited, Starting
    <3>2. reached[c] \cap {"running", "failed"} # {}
      BY <1>1, <2>4, <3>1 DEF WaitsInv, WaitInv, SeenInv
    <3> QED  BY <2>4, <3>2 DEF Final, AllOps, Starting
  <2> QED  BY <1>2, <1>4, <2>2, <2>3, <2>4 DEF AllOps, Starting
<1> QED  BY <1>3, <1>4

\* A fork that waits resolves when the child has settled.
LEMMA AfterUndoEnds ==
  ASSUME NEW c \in Callers, NEW v, NEW k \in {"none", "pending", "running", "failed"}, NEW m,
         AfterUndo(c, v, k, m) \in {"done", "source"}, c \in Patient \/ AfterUndo(c, v, k, m) = "source"
  PROVE  k \in {"running", "failed"}
BY DEF AfterUndo

LEMMA DeliverWait ==
  ASSUME LifecycleInv, WaitsInv, NEW c \in Callers, Deliver(c)
  PROVE  WaitsInv'
PROOF
<1>1. PICK w, h, v, k, m, s :
        /\ w = reply[c] /\ h = HandleOf[c] /\ net[c] = "reply" /\ w # Refusal
        /\ view' = IF at[c] \in {"fork", "child"} THEN view ELSE [view EXCEPT ![h] = w]
        /\ kid' = IF at[c] \in {"fork", "child"} THEN [kid EXCEPT ![c] = w.status] ELSE kid
        /\ named' = [named EXCEPT ![c] = IF at[c] = "call" /\ op[c] = "fork" THEN w.checkpoint ELSE named[c]]
        /\ v = view'[h].status /\ k = kid'[c] /\ m = mine'[c] /\ s = AfterReply(c, v, k, m) /\ GoTo(c, s)
        /\ UNCHANGED <<status, session, child, op, found, reached>>
  BY DEF Deliver, server
<1>2. /\ at[c] \in {"call", "poll", "fork", "undo", "child", "source"} /\ CallerInv(c) /\ WaitInv(c)
      /\ h \in Handles /\ Replied(c)
  BY <1>1, RequestsOfCalls, CallersAssumption DEF LifecycleInv, WaitsInv, Replied
<1>3. /\ \A d \in Callers : d # c => kid'[d] = kid[d] /\ named'[d] = named[d]
      /\ k = IF at[c] \in {"fork", "child"} THEN w.status ELSE kid[c]
      /\ named'[c] = IF at[c] = "call" /\ op[c] = "fork" THEN w.checkpoint ELSE named[c]
  BY <1>1 DEF LifecycleInv, TypeOK
<1>4. kid[c] \in {"none", "pending", "running", "failed"}
  BY DEF LifecycleInv, TypeOK
<1>5. CASE at[c] \in {"call", "poll"}
  <2>1. v = w.status /\ k = "none" /\ found[c] # {}
    BY <1>1, <1>2, <1>3, <1>5 DEF LifecycleInv, TypeOK, WaitInv, SeenInv, KidInv
  <2>2. s = AfterView(c, v)
    BY <1>1, <1>5 DEF AfterReply
  <2>3. s \in {"done", "poll", "fork", "failed"} /\ (op[c] = "fork" => s = IF v = "pausing" THEN "poll" ELSE "fork")
    BY <2>2, AfterViewStages
  <2>4. op[c] # "fork" => s # "fork"
    BY <1>2, <2>2 DEF AfterView, AfterWait
  <2>5. c \in Patient /\ s = "done" => Ended(c)
    BY <1>1, <1>2, <1>5, <2>1, <2>2, <2>3, EndsRightly DEF Ended
  <2>6. ASSUME op[c] = "fork" PROVE Paused(named[c])' /\ (v # "pausing" => Past(named[c])')
    <3>1. CASE at[c] = "call"
      BY <1>1, <1>2, <1>3, <2>1, <2>6, <3>1 DEF WaitInv, CheckpointInv, Paused, Past
    <3>2. CASE at[c] = "poll"
      BY <1>1, <1>2, <1>3, <2>1, <2>6, <3>2 DEF WaitInv, CheckpointInv, Paused, Past
    <3> QED  BY <1>5, <3>1, <3>2
  <2> QED  BY <1>1, <1>3, <2>1, <2>3, <2>4, <2>5, <2>6, GoToWait DEF Stages
<1>6. CASE at[c] \notin {"call", "poll"}
  <2>1. op[c] = "fork" /\ k \in {"none", "pending", "running", "failed"}
    BY <1>1, <1>2, <1>3, <1>4, <1>6 DEF WaitInv, KidInv, CallerInv, ChildInv
  <2>2. k \in {"running", "failed"} => child[c] = k
    BY <1>1, <1>2, <1>3 DEF WaitInv, KidInv
  <2>3. /\ s \in {"undo", "failed", "done", "child", "source"}
        /\ s = "source" \/ (c \in Patient /\ s = "done") => k \in {"running", "failed"}
    <3>1. CASE at[c] \in {"fork", "undo"}
      <4>1. s = "undo" \/ s = AfterUndo(c, v, k, m)
        BY <1>1, <3>1 DEF AfterReply, AfterFork
      <4> QED  BY <2>1, <4>1, AfterUndoStages, AfterUndoEnds
    <3>2. CASE at[c] = "child"
      <4>1. k # "none" /\ s = IF k = "pending" THEN "child" ELSE AfterChild(v, m)
        BY <1>1, <1>2, <1>3, <3>2 DEF AfterReply, CallerInv, ChildInv
      <4> QED  BY <2>1, <4>1 DEF AfterChild
    <3>3. CASE at[c] = "source"
      <4>1. s \in {"source", "done"} /\ k \in {"running", "failed"}
        BY <1>1, <1>2, <1>3, <3>3 DEF AfterReply, WaitInv, KidInv
      <4> QED  BY <4>1
    <3> QED  BY <1>2, <1>6, <3>1, <3>2, <3>3
  <2>4. c \in Patient /\ s = "done" => Ended(c)
    BY <2>1, <2>2, <2>3 DEF Ended
  <2> QED  BY <1>1, <1>3, <2>1, <2>2, <2>3, <2>4, GoToWait DEF Stages
<1> QED  BY <1>5, <1>6

\* A request that failed for good.
LEMMA FailsWait ==
  ASSUME LifecycleInv, WaitsInv, NEW c \in Callers, net[c] # "none", NEW s, s = AfterError(c), GoTo(c, s),
         UNCHANGED <<status, session, child, op, found, reached, kid, named>>
  PROVE  WaitsInv'
PROOF
<1>1. /\ at[c] \in {"call", "poll", "fork", "undo", "child", "source"} /\ CallerInv(c) /\ WaitInv(c)
      /\ kid[c] \in {"none", "pending", "running", "failed"}
  BY RequestsOfCalls DEF LifecycleInv, WaitsInv, TypeOK
<1>2. /\ s \in {"undo", "failed", "done", "child", "source"} /\ (s = "undo" => mine[c])
  BY AfterErrorStages
<1>3. op[c] # "fork" => s = "failed"
  <2>1. op[c] # "fork" => ~mine[c] /\ at[c] \in {"call", "poll"}
    BY <1>1 DEF CallerInv, MineInv, WaitInv, KidInv
  <2> QED  BY <2>1 DEF AfterError
<1>4. s = "source" \/ (c \in Patient /\ s = "done") => kid[c] \in {"running", "failed"}
  <2>1. CASE at[c] = "undo"
    <3>1. s = AfterUndo(c, view[HandleOf[c]].status, kid[c], mine[c])
      BY <2>1 DEF AfterError
    <3> QED  BY <1>1, <3>1, AfterUndoEnds
  <2>2. CASE at[c] = "source"
    BY <1>1, <2>2 DEF WaitInv, KidInv
  <2>3. CASE at[c] \notin {"undo", "source"}
    BY <2>3 DEF AfterError
  <2> QED  BY <2>1, <2>2, <2>3
<1>5. kid[c] \in {"running", "failed"} => child[c] = kid[c]
  BY <1>1 DEF WaitInv, KidInv
<1>6. c \in Patient /\ s = "done" => Ended(c)
  BY <1>3, <1>4, <1>5 DEF Ended
<1> QED  BY <1>2, <1>3, <1>4, <1>5, <1>6, GoToWait DEF Stages

LEMMA ContinuesWait ==
  ASSUME LifecycleInv, WaitsInv, NEW c \in Callers, Continues(c)
  PROVE  WaitsInv'
PROOF
<1>1. CASE Deliver(c)
  BY <1>1, DeliverWait
<1>2. CASE DeliverRefusal(c)
  <2>1. PICK s : s = AfterError(c)
    OBVIOUS
  <2>2. /\ net[c] # "none" /\ GoTo(c, s) /\ UNCHANGED <<status, session, child, op, found, reached, kid, named>>
    BY <1>2, <2>1 DEF DeliverRefusal, server
  <2> QED  BY <2>1, <2>2, FailsWait
<1>3. ASSUME NEW fault \in {"connect", "lost"}, TransportFails(c, fault) PROVE WaitsInv'
  <2>1. net[c] # "none" /\ UNCHANGED <<status, session, child, op, found, reached, kid, named>>
    BY <1>3 DEF TransportFails, server
  <2>2. CASE MayRetry(c, fault)
    <3>1. /\ net' = [net EXCEPT ![c] = "sent"] /\ reply' = [reply EXCEPT ![c] = NoReply] /\ at' = at
      BY <1>3, <2>2 DEF TransportFails
    <3>2. /\ \A d \in Callers : d # c => net'[d] = net[d] /\ reply'[d] = reply[d]
          /\ net'[c] = "sent"
      BY <3>1 DEF LifecycleInv, TypeOK
    <3>3. ASSUME NEW d \in Callers, d # c PROVE WaitInv(d)'
      BY <2>1, <3>1, <3>2, <3>3, WaitRests DEF WaitsInv, PlaneStep
    <3>4. WaitInv(c)'
      <4>1. WaitInv(c) /\ ~Replied(c)'
        BY <3>2 DEF WaitsInv, Replied
      <4> QED  BY <2>1, <3>1, <4>1
               DEF WaitInv, CheckpointInv, SeenInv, KidInv, EndedInv, Ended, Paused, Past
    <3> QED  BY <3>3, <3>4 DEF WaitsInv
  <2>3. CASE ~MayRetry(c, fault)
    <3>1. PICK s : s = AfterError(c)
      OBVIOUS
    <3>2. GoTo(c, s)
      BY <1>3, <2>3, <3>1 DEF TransportFails
    <3> QED  BY <2>1, <3>1, <3>2, FailsWait
  <2> QED  BY <2>2, <2>3
<1> QED  BY <1>1, <1>2, <1>3 DEF Continues

-----------------------------------------------------------------------------
LEMMA NextWaitsInv == LifecycleInv /\ WaitsInv /\ [Next]_vars => WaitsInv'
PROOF
<1> SUFFICES ASSUME LifecycleInv, WaitsInv, [Next]_vars PROVE WaitsInv'
  OBVIOUS
<1>1. CASE UNCHANGED vars
  <2>1. UNCHANGED <<status, session, child, op, at, net, kid, named, reply, found, reached>>
    BY <1>1 DEF vars, server, client
  <2>2. ASSUME NEW d \in Callers PROVE WaitInv(d)'
    BY <2>1, WaitRests DEF WaitsInv, PlaneStep
  <2> QED  BY <2>2 DEF WaitsInv
<1> QED  BY <1>1, SandboxSettlesWait, ChildSettlesWait, BeginWait, ExecutesWait, ContinuesWait DEF Next

\* fork() never names a checkpoint that is still being taken, and a call that
\* waits resolves only when its operation is over, however many callers act on
\* the sandbox through however many handles (sandbox.ts:293, 569).
THEOREM WaitsAreLongEnough == Spec => []WaitsUntilItIsOver
PROOF
<1>1. Spec => []WaitsInv
  BY InitWaitsInv, NextWaitsInv, LifecycleInvariant, PTL DEF Spec
<1>2. LifecycleInv /\ WaitsInv => WaitsUntilItIsOver
  <2> SUFFICES ASSUME LifecycleInv, WaitsInv PROVE WaitsUntilItIsOver
    OBVIOUS
  <2>1. ForkWaitsForItsCheckpoint
    <3> SUFFICES ASSUME NEW c \in Callers, at[c] = "fork" PROVE ~(status = "pausing" /\ session = named[c])
      BY DEF ForkWaitsForItsCheckpoint
    <3>1. Past(named[c]) /\ session \in Nat /\ named[c] \in Nat
      BY DEF WaitsInv, WaitInv, CheckpointInv, LifecycleInv, TypeOK
    <3> QED  BY <3>1 DEF Past
  <2>2. WaitsForTheOperation
    <3> SUFFICES ASSUME NEW c \in Patient, at[c] = "done"
        PROVE  IF op[c] = "fork" THEN child[c] \in Final["fork"] ELSE reached[c] \cap Final[op[c]] # {}
      BY DEF WaitsForTheOperation
    <3>1. c \in Callers
      BY CallersAssumption
    <3>2. Ended(c)
      BY <3>1 DEF WaitsInv, WaitInv, EndedInv
    <3>3. Final["fork"] = {"running", "failed"}
      BY DEF Final, AllOps
    <3> QED  BY <3>2, <3>3 DEF Ended
  <2> QED  BY <2>1, <2>2 DEF WaitsUntilItIsOver
<1> QED  BY <1>1, <1>2, LifecycleInvariant, PTL
=============================================================================
