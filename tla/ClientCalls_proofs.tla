--------------------------- MODULE ClientCalls_proofs ---------------------------
(***************************************************************************)
(* Safety of four components that a call of the client stands on and that  *)
(* share no state: OpenForItsHolders of HttpPool, for any transports, keys *)
(* and clients; GoneBuildsAreRestarted of ImageBuild, for any timeout,     *)
(* interval of the repeated requests and number of retries;                *)
(* LeavesNothingBehind of SandboxShell; and ProfilesAreUsable of Profiles, *)
(* for any terminals and names.  None of them is inductive; what each      *)
(* rests on is said at its invariant.  The last theorems are about the     *)
(* composition of the six components of ClientCalls.                       *)
(***************************************************************************)
EXTENDS ClientCalls, SqliteOperation_proofs, ApiRequest_proofs, Integers, FiniteSetTheorems, FunctionTheorems,
        WellFoundedInduction, TLAPS

-----------------------------------------------------------------------------
(* The pool of HTTP clients.  That a transport's client is open depends on *)
(* the count of references never being below the number of transports that *)
(* hold the client, on every holder finding its client in the table, on    *)
(* the table having a client once, and on a client leaving the table       *)
(* before it is closed.                                                    *)

Counts == \A x \in Clients : references[x] >= Cardinality(Holders(x))
Keyed == \A t \in Transports, x \in Clients : t \in Holders(x) => pool[keyOf[t]] = x
OutBeforeClosed == \A x \in Clients : Unusable(x) => \A k \in PoolKeys : pool[k] # x
OnceInTheTable == \A j, k \in PoolKeys : pool[j] \in Clients /\ pool[j] = pool[k] => j = k

PoolInv == PoolTypeOK /\ Counts /\ Keyed /\ OutBeforeClosed /\ OnceInTheTable

\* The holders of a client are finitely many transports, and some number of
\* them.
LEMMA HoldersAreFinite ==
  ASSUME NEW x \in Clients
  PROVE  /\ IsFiniteSet(Holders(x)) /\ Cardinality(Holders(x)) \in Nat
         /\ IsFiniteSet(Holders(x)') /\ Cardinality(Holders(x)') \in Nat
PROOF
<1>1. Holders(x) \subseteq Transports /\ Holders(x)' \subseteq Transports
  BY DEF Holders
<1> QED  BY <1>1, PoolAssumption, FS_Subset, FS_CardinalityType

\* Fewer holders are not more.
LEMMA FewerHolders ==
  ASSUME NEW x \in Clients, Holders(x)' \subseteq Holders(x)
  PROVE  Cardinality(Holders(x)') <= Cardinality(Holders(x))
BY HoldersAreFinite, FS_Subset

LEMMA InitPoolInv == PoolInit => PoolInv
PROOF
<1> SUFFICES ASSUME PoolInit PROVE PoolInv
  OBVIOUS
<1>1. PoolTypeOK
  BY DEF PoolInit, PoolTypeOK
<1>2. \A x \in Clients : Holders(x) = {}
  BY PoolAssumption DEF PoolInit, Holders
<1>3. Counts
  <2> SUFFICES ASSUME NEW x \in Clients PROVE references[x] >= Cardinality(Holders(x))
    BY DEF Counts
  <2> QED  BY <1>2, FS_EmptySet DEF PoolInit
<1>4. Keyed
  BY <1>2 DEF Keyed
<1>5. OutBeforeClosed
  BY PoolAssumption DEF PoolInit, OutBeforeClosed
<1>6. OnceInTheTable
  BY PoolAssumption DEF PoolInit, OnceInTheTable
<1> QED  BY <1>1, <1>3, <1>4, <1>5, <1>6 DEF PoolInv

\* A transport takes the client of its key, or puts a new one in the table.
LEMMA AcquirePoolInv ==
  ASSUME PoolInv, NEW t \in Transports, NEW x \in Clients, Acquire(t, x)
  PROVE  PoolInv'
PROOF
<1> USE DEF PoolInv
<1>1. PoolTypeOK'
  BY DEF PoolTypeOK, Acquire
<1>2. x # NoClient /\ cp[t] = NoClient /\ keyOf[t] \in PoolKeys
  BY PoolAssumption DEF PoolTypeOK, Acquire, HasNoClient
<1>3. /\ \A k \in PoolKeys : pool'[k] = IF k = keyOf[t] THEN x ELSE pool[k]
      /\ \A y \in Clients : references'[y] = IF y = x THEN references[x] + 1 ELSE references[y]
      /\ \A o \in Transports : cp'[o] = IF o = t THEN x ELSE cp[o]
      /\ keyOf' = keyOf /\ closing' = closing /\ closed' = closed
  BY DEF PoolTypeOK, Acquire
<1>4. /\ \A y \in Clients : Unusable(y)' <=> Unusable(y)
      /\ \A y \in Clients : y # x => Holders(y)' = Holders(y)
      /\ Holders(x)' \subseteq Holders(x) \cup {t}
  <2>1. \A y \in Clients : Unusable(y)' <=> Unusable(y)
    BY <1>3 DEF Unusable
  <2>2. ASSUME NEW y \in Clients, y # x PROVE Holders(y)' = Holders(y)
    <3>1. cp[t] # y /\ cp'[t] # y
      BY <1>2, <1>3, <2>2, PoolAssumption
    <3>2. \A o \in Transports : cp'[o] = y <=> cp[o] = y
      BY <1>3, <3>1
    <3> QED  BY <1>3, <3>2 DEF Holders
  <2>3. Holders(x)' \subseteq Holders(x) \cup {t}
    BY <1>3 DEF Holders
  <2> QED  BY <2>1, <2>2, <2>3
<1>5. ~Unusable(x)
  BY <1>2 DEF Acquire, New, OutBeforeClosed
<1>6. Counts'
  <2> SUFFICES ASSUME NEW y \in Clients PROVE references'[y] >= Cardinality(Holders(y)')
    BY DEF Counts
  <2>1. CASE y # x
    BY <2>1, <1>3, <1>4 DEF Counts
  <2>2. CASE y = x
    <3>1. /\ IsFiniteSet(Holders(x) \cup {t})
          /\ Cardinality(Holders(x) \cup {t}) \in Nat
          /\ Cardinality(Holders(x) \cup {t}) <= Cardinality(Holders(x)) + 1
      <4>1. IsFiniteSet(Holders(x)) /\ Cardinality(Holders(x)) \in Nat
        BY HoldersAreFinite
      <4>2. /\ IsFiniteSet(Holders(x) \cup {t})
            /\ Cardinality(Holders(x) \cup {t}) = IF t \in Holders(x) THEN Cardinality(Holders(x))
                                                                     ELSE Cardinality(Holders(x)) + 1
        BY <4>1, FS_AddElement
      <4> QED  BY <4>1, <4>2
    <3>2. Cardinality(Holders(x)') <= Cardinality(Holders(x) \cup {t})
      BY <3>1, <1>4, FS_Subset
    <3>3. references[x] >= Cardinality(Holders(x)) /\ references[x] \in Nat
      BY DEF Counts, PoolTypeOK
    <3>4. references'[x] = references[x] + 1
      BY <1>3
    <3>5. Cardinality(Holders(x)) \in Nat /\ Cardinality(Holders(x)') \in Nat
      BY HoldersAreFinite
    <3> QED  BY <2>2, <3>1, <3>2, <3>3, <3>4, <3>5
  <2> QED  BY <2>1, <2>2
<1>7. Keyed'
  <2> SUFFICES ASSUME NEW o \in Transports, NEW y \in Clients, o \in Holders(y)'
               PROVE  pool'[keyOf'[o]] = y
    BY DEF Keyed
  <2>0. keyOf[o] \in PoolKeys
    BY DEF PoolTypeOK
  <2>1. CASE o = t
    <3>1. y = x
      BY <2>1, <1>3 DEF Holders
    <3> QED  BY <2>1, <3>1, <1>2, <1>3
  <2>2. CASE o # t
    <3>1. o \in Holders(y)
      BY <2>2, <1>3 DEF Holders
    <3>2. pool[keyOf[o]] = y
      BY <3>1 DEF Keyed
    <3>3. pool[keyOf[t]] = y => y = x
      BY PoolAssumption DEF Acquire
    <3> QED  BY <2>0, <3>2, <3>3, <1>3
  <2> QED  BY <2>1, <2>2
<1>8. OutBeforeClosed'
  <2> SUFFICES ASSUME NEW y \in Clients, Unusable(y)', NEW k \in PoolKeys PROVE pool'[k] # y
    BY DEF OutBeforeClosed
  <2> QED  BY <1>3, <1>4, <1>5 DEF OutBeforeClosed
<1>9. OnceInTheTable'
  <2> SUFFICES ASSUME NEW j \in PoolKeys, NEW k \in PoolKeys, pool'[j] \in Clients, pool'[j] = pool'[k] PROVE j = k
    BY DEF OnceInTheTable
  <2>1. \A i \in PoolKeys : pool[i] = x => i = keyOf[t]
    BY <1>2 DEF Acquire, New, OnceInTheTable
  <2> QED  BY <1>3, <2>1 DEF OnceInTheTable
<1> QED  BY <1>1, <1>6, <1>7, <1>8, <1>9

\* A transport whose client is in the table holds it.
LEMMA InTheTableHolds ==
  ASSUME PoolInv, NEW t \in Transports, cp[t] # NoClient, pool[keyOf[t]] = cp[t]
  PROVE  cp[t] \in Clients /\ keyOf[t] \in PoolKeys /\ t \in Holders(cp[t])
PROOF
<1>1. cp[t] \in Clients /\ keyOf[t] \in PoolKeys
  BY DEF PoolInv, PoolTypeOK
<1>2. ~Unusable(cp[t])
  BY <1>1 DEF PoolInv, OutBeforeClosed
<1> QED  BY <1>1, <1>2 DEF Holders, Unusable

\* One of several holders leaves.
LEMMA LeaveOthersPoolInv ==
  ASSUME PoolInv, NEW t \in Transports, cp[t] # NoClient, LeaveOthers(t), UNCHANGED <<keyOf, closed>>
  PROVE  PoolInv'
PROOF
<1> USE DEF PoolInv
<1>0. cp[t] \in Clients
  BY InTheTableHolds DEF LeaveOthers
<1> PICK x \in Clients : x = cp[t]
  BY <1>0
<1>1. t \in Holders(x)
  BY InTheTableHolds DEF LeaveOthers
<1>2. /\ \A y \in Clients : references'[y] = IF y = x THEN references[x] - 1 ELSE references[y]
      /\ \A o \in Transports : cp'[o] = IF o = t THEN NoClient ELSE cp[o]
      /\ pool' = pool /\ closing' = closing
  BY DEF PoolTypeOK, LeaveOthers
<1>3. /\ \A y \in Clients : Unusable(y)' <=> Unusable(y)
      /\ \A y \in Clients : Holders(y)' = Holders(y) \ {t}
      /\ \A y \in Clients : y # x => t \notin Holders(y)
  BY <1>2, PoolAssumption DEF Holders, Unusable
<1>4. /\ Cardinality(Holders(x)') = Cardinality(Holders(x)) - 1
      /\ Cardinality(Holders(x)) \in Nat /\ Cardinality(Holders(x)') \in Nat
  BY <1>1, <1>3, HoldersAreFinite, FS_RemoveElement
<1>5. references[x] \in Nat /\ references[x] >= Cardinality(Holders(x))
  BY <1>1 DEF Counts, PoolTypeOK
<1>6. references[x] - 1 \in Nat /\ references[x] - 1 >= Cardinality(Holders(x)')
  BY <1>4, <1>5
<1>7. PoolTypeOK'
  <2>1. references' \in [Clients -> Nat]
    BY <1>6 DEF PoolTypeOK, LeaveOthers
  <2>2. cp' \in [Transports -> Clients \cup {NoClient}]
    BY DEF PoolTypeOK, LeaveOthers
  <2> QED  BY <2>1, <2>2, <1>2 DEF PoolTypeOK
<1>8. Counts'
  <2> SUFFICES ASSUME NEW y \in Clients PROVE references'[y] >= Cardinality(Holders(y)')
    BY DEF Counts
  <2>1. CASE y = x
    BY <2>1, <1>2, <1>6
  <2>2. CASE y # x
    <3>1. Holders(y)' = Holders(y)
      BY <2>2, <1>3
    <3> QED  BY <2>2, <3>1, <1>2 DEF Counts
  <2> QED  BY <2>1, <2>2
<1>9. Keyed'
  BY <1>2, <1>3 DEF Keyed
<1>10. OutBeforeClosed'
  BY <1>2, <1>3 DEF OutBeforeClosed
<1>11. OnceInTheTable'
  BY <1>2 DEF OnceInTheTable
<1> QED  BY <1>7, <1>8, <1>9, <1>10, <1>11

\* The last holder leaves: the client is out of the table before it closes.
LEMMA LeaveLastPoolInv ==
  ASSUME PoolInv, NEW t \in Transports, cp[t] # NoClient, LeaveLast(t), UNCHANGED <<keyOf, closed>>
  PROVE  PoolInv'
PROOF
<1> USE DEF PoolInv
<1>0. cp[t] \in Clients
  BY InTheTableHolds DEF LeaveLast
<1> PICK x \in Clients : x = cp[t]
  BY <1>0
<1>1. keyOf[t] \in PoolKeys /\ t \in Holders(x) /\ pool[keyOf[t]] = x
  BY InTheTableHolds DEF LeaveLast
<1>2. /\ \A y \in Clients : references'[y] = IF y = x THEN 0 ELSE references[y]
      /\ \A k \in PoolKeys : pool'[k] = IF k = keyOf[t] THEN NoClient ELSE pool[k]
      /\ cp' = cp /\ closing' = closing \cup {<<t, x>>}
  BY DEF PoolTypeOK, LeaveLast, Without
<1>3. /\ \A y \in Clients : Holders(y)' \subseteq Holders(y)
      /\ Holders(x)' = Holders(x) \ {t}
      /\ \A y \in Clients : y # x => (Unusable(y)' <=> Unusable(y))
  BY <1>2 DEF Holders, Unusable
<1>4. Holders(x)' = {}
  <2>1. /\ Cardinality(Holders(x)') = Cardinality(Holders(x)) - 1
        /\ Cardinality(Holders(x)) \in Nat /\ Cardinality(Holders(x)') \in Nat
    BY <1>1, <1>3, HoldersAreFinite, FS_RemoveElement
  <2>2. Cardinality(Holders(x)) <= 1
    BY <1>1, <2>1 DEF Counts, LeaveLast
  <2>3. Cardinality(Holders(x)') = 0
    BY <2>1, <2>2
  <2> QED  BY <2>3, <1>1, HoldersAreFinite, FS_EmptySet
<1>5. PoolTypeOK'
  BY <1>1 DEF PoolTypeOK, LeaveLast, Without
<1>6. Counts'
  <2> SUFFICES ASSUME NEW y \in Clients PROVE references'[y] >= Cardinality(Holders(y)')
    BY DEF Counts
  <2>1. CASE y = x
    BY <2>1, <1>2, <1>4, FS_EmptySet
  <2>2. CASE y # x
    <3>1. Cardinality(Holders(y)') <= Cardinality(Holders(y))
      BY <1>3, FewerHolders
    <3>2. references[y] >= Cardinality(Holders(y)) /\ references[y] \in Nat
      BY DEF Counts, PoolTypeOK
    <3>3. references'[y] = references[y]
      BY <2>2, <1>2
    <3> QED  BY <3>1, <3>2, <3>3, HoldersAreFinite
  <2> QED  BY <2>1, <2>2
<1>7. Keyed'
  <2> SUFFICES ASSUME NEW o \in Transports, NEW y \in Clients, o \in Holders(y)'
               PROVE  pool'[keyOf'[o]] = y
    BY DEF Keyed
  <2>1. y # x /\ o \in Holders(y)
    BY <1>3, <1>4
  <2>2. pool[keyOf[o]] = y /\ keyOf[o] \in PoolKeys
    BY <2>1 DEF Keyed, PoolTypeOK
  <2> QED  BY <1>1, <1>2, <2>1, <2>2
<1>8. OutBeforeClosed'
  <2> SUFFICES ASSUME NEW y \in Clients, Unusable(y)', NEW k \in PoolKeys PROVE pool'[k] # y
    BY DEF OutBeforeClosed
  <2>1. CASE y = x
    <3>1. k # keyOf[t] => pool[k] # x
      BY <1>1 DEF OnceInTheTable
    <3> QED  BY <2>1, <3>1, <1>1, <1>2, PoolAssumption
  <2>2. CASE y # x
    BY <2>2, <1>2, <1>3, PoolAssumption DEF OutBeforeClosed
  <2> QED  BY <2>1, <2>2
<1>9. OnceInTheTable'
  BY <1>2, PoolAssumption DEF OnceInTheTable
<1> QED  BY <1>5, <1>6, <1>7, <1>8, <1>9

\* Forgetting a client takes holders away, and nothing else.
LEMMA ForgetPoolInv ==
  ASSUME PoolInv, NEW t \in Transports, cp' = [cp EXCEPT ![t] = NoClient],
         UNCHANGED <<keyOf, pool, references>>,
         PoolTypeOK',
         \A y \in Clients : Holders(y)' \subseteq Holders(y),
         \A y \in Clients : Unusable(y)' => Unusable(y)
  PROVE  PoolInv'
PROOF
<1> USE DEF PoolInv
<1>1. Counts'
  <2> SUFFICES ASSUME NEW y \in Clients PROVE references'[y] >= Cardinality(Holders(y)')
    BY DEF Counts
  <2>1. Cardinality(Holders(y)') <= Cardinality(Holders(y))
    BY FewerHolders
  <2>2. references[y] >= Cardinality(Holders(y)) /\ references[y] \in Nat
    BY DEF Counts, PoolTypeOK
  <2> QED  BY <2>1, <2>2, HoldersAreFinite
<1>2. Keyed'
  BY DEF Keyed
<1>3. OutBeforeClosed'
  BY DEF OutBeforeClosed
<1>4. OnceInTheTable'
  BY DEF OnceInTheTable
<1> QED  BY <1>1, <1>2, <1>3, <1>4

LEMMA ClosesPoolInv ==
  ASSUME PoolInv, NEW t \in Transports, NEW x \in Clients, Closes(t, x)
  PROVE  PoolInv'
PROOF
<1>1. PoolTypeOK'
  BY DEF PoolInv, PoolTypeOK, Closes
<1>2. \A o \in Transports : cp'[o] = IF o = t THEN NoClient ELSE cp[o]
  BY DEF PoolInv, PoolTypeOK, Closes
<1>3. \A y \in Clients : Holders(y)' \subseteq Holders(y)
  BY <1>2, PoolAssumption DEF Holders, Closes
<1>4. \A y \in Clients : Unusable(y)' => Unusable(y)
  BY DEF Unusable, Closes
<1> QED  BY <1>1, <1>3, <1>4, ForgetPoolInv DEF Closes

LEMMA LeaveClosingPoolInv ==
  ASSUME PoolInv, NEW t \in Transports, LeaveClosing(t), UNCHANGED <<keyOf, closed>>
  PROVE  PoolInv'
PROOF
<1>1. PoolTypeOK'
  BY DEF PoolInv, PoolTypeOK, LeaveClosing
<1>2. \A o \in Transports : cp'[o] = IF o = t THEN NoClient ELSE cp[o]
  BY DEF PoolInv, PoolTypeOK, LeaveClosing
<1>3. \A y \in Clients : Holders(y)' \subseteq Holders(y)
  BY <1>2, PoolAssumption DEF Holders, LeaveClosing
<1>4. \A y \in Clients : Unusable(y)' => Unusable(y)
  BY DEF Unusable, LeaveClosing
<1> QED  BY <1>1, <1>3, <1>4, ForgetPoolInv DEF LeaveClosing

LEMMA NextPoolInv == PoolInv /\ [PoolNext]_poolVars => PoolInv'
PROOF
<1> SUFFICES ASSUME PoolInv, [PoolNext]_poolVars PROVE PoolInv'
  OBVIOUS
<1>1. ASSUME NEW t \in Transports, Release(t) PROVE PoolInv'
  <2>1. CASE LeaveOthers(t)
    BY <1>1, <2>1, LeaveOthersPoolInv DEF Release
  <2>2. CASE LeaveLast(t)
    BY <1>1, <2>2, LeaveLastPoolInv DEF Release
  <2>3. CASE LeaveClosing(t)
    BY <1>1, <2>3, LeaveClosingPoolInv DEF Release
  <2> QED  BY <1>1, <2>1, <2>2, <2>3 DEF Release
<1>2. CASE UNCHANGED poolVars
  BY <1>2 DEF poolVars, PoolInv, PoolTypeOK, Counts, Keyed, OutBeforeClosed, OnceInTheTable, Holders, Unusable
<1> QED  BY <1>1, <1>2, AcquirePoolInv, ClosesPoolInv DEF PoolNext

LEMMA PoolInvImpliesOpen == PoolInv => OpenForItsHolders
BY DEF PoolInv, Keyed, OutBeforeClosed, OpenForItsHolders, PoolTypeOK

\* For any transports, keys and clients: a transport that has not been closed
\* never holds a client that is closed or being closed (_http.py:132).
THEOREM HoldersAreOpen == PoolSpec => []OpenForItsHolders
PROOF
<1>1. PoolSpec => []PoolInv
  BY InitPoolInv, NextPoolInv, PTL DEF PoolSpec
<1> QED  BY <1>1, PoolInvImpliesOpen, PTL

-----------------------------------------------------------------------------
(* Image builds.  That a host cannot have been gone for long depends on it *)
(* having been there at the last request, and on the call never giving up  *)
(* on what a poll found building without having asked for it within the    *)
(* interval.                                                               *)

\* A call that sleeps is within its time, and so is the poll that follows.
SleepsInTime == phase = "asleep" => clock < BuildTimeout

\* A host that is gone was there when the image was last requested.
GoneAfterRequest == goneSince # Never => goneSince >= lastRequest

\* What is looked at and builds was requested not long ago.
Recent == clock - lastRequest < RequestAgain
LooksRecently == (phase = "look" /\ seen = "building") \/ phase = "timeout" => Recent

BuildInv == BuildTypeOK /\ SleepsInTime /\ GoneAfterRequest /\ LooksRecently

LEMMA InitBuildInv == BuildInit => BuildInv
BY BuildAssumption DEF BuildInit, BuildInv, BuildTypeOK, SleepsInTime, GoneAfterRequest, LooksRecently, Never

\* Steps of the control plane: the call and its clock stand still.
LEMMA PlaneBuildInv ==
  ASSUME BuildInv, UNCHANGED <<phase, seen, retries, clock, lastRequest>>,
         image' \in {"none", "building", "ready"} \cup Failures,
         goneSince' \in {goneSince, Never, clock}
  PROVE  BuildInv'
PROOF
<1>1. /\ clock \in 0..BuildTimeout /\ lastRequest \in 0..clock /\ goneSince \in 0..Never
      /\ BuildTimeout \in Nat
  BY BuildAssumption DEF BuildInv, BuildTypeOK
<1>2. goneSince' \in 0..Never
  BY <1>1 DEF Never
<1>3. BuildTypeOK'
  BY <1>2 DEF BuildInv, BuildTypeOK, Ends, Never
<1>4. GoneAfterRequest'
  BY <1>1 DEF BuildInv, GoneAfterRequest, Never
<1>5. SleepsInTime' /\ LooksRecently'
  BY DEF BuildInv, SleepsInTime, LooksRecently, Recent
<1> QED  BY <1>3, <1>4, <1>5 DEF BuildInv

\* A request finds the host there, or starts the build on another.
LEMMA RequestBuildInv ==
  ASSUME BuildInv, RequestImage
  PROVE  BuildInv'
PROOF
<1>1. /\ phase' = "look" /\ lastRequest' = clock /\ clock' = clock /\ retries' = retries
      /\ goneSince' = Never /\ seen' = image' /\ image' \in {"ready", "building"}
  BY DEF RequestImage, Requested
<1>2. /\ clock \in 0..BuildTimeout /\ BuildTimeout \in Nat /\ RequestAgain \in Nat \ {0}
  BY BuildAssumption DEF BuildInv, BuildTypeOK
<1>3. BuildTypeOK'
  BY <1>1, <1>2 DEF BuildInv, BuildTypeOK, Ends, Failures, Never
<1>4. SleepsInTime' /\ GoneAfterRequest'
  BY <1>1 DEF SleepsInTime, GoneAfterRequest, Never
<1>5. LooksRecently'
  BY <1>1, <1>2 DEF LooksRecently, Recent
<1> QED  BY <1>3, <1>4, <1>5 DEF BuildInv

\* What the last request or poll found is acted on.
LEMMA LookBuildInv ==
  ASSUME BuildInv, Look
  PROVE  BuildInv'
PROOF
<1>1. UNCHANGED <<image, goneSince, seen, clock, lastRequest>>
  BY DEF Look
<1>2. retries' \in 0..MaxInterruptedRetries
  BY BuildAssumption DEF Look, Retries, BuildInv, BuildTypeOK
<1>3. phase' \in {"returned", "request", "failed", "timeout", "asleep"}
  BY DEF Look
<1>4. BuildTypeOK'
  BY <1>1, <1>2, <1>3 DEF BuildInv, BuildTypeOK, Ends, Never
<1>5. SleepsInTime'
  BY <1>1 DEF Look, SleepsInTime
<1>6. GoneAfterRequest'
  BY <1>1 DEF BuildInv, GoneAfterRequest, Never
<1>7. phase' # "look" /\ (phase' = "timeout" => phase = "look" /\ seen = "building")
  BY DEF Look
<1>8. LooksRecently'
  BY <1>1, <1>7 DEF BuildInv, LooksRecently, Recent
<1> QED  BY <1>4, <1>5, <1>6, <1>8 DEF BuildInv

\* A poll that finds the image building looks at it only if it was requested
\* within the interval.
LEMMA PollBuildInv ==
  ASSUME BuildInv, Poll
  PROVE  BuildInv'
PROOF
<1>1. /\ phase = "asleep" /\ clock' = clock + 1 /\ seen' = image
      /\ UNCHANGED <<image, goneSince, retries, lastRequest>>
      /\ phase' = IF image = "building" /\ Stale THEN "request" ELSE "look"
  BY DEF Poll
<1>2. /\ clock \in Nat /\ clock < BuildTimeout /\ lastRequest \in 0..clock
      /\ BuildTimeout \in Nat /\ RequestAgain \in Nat
  BY <1>1, BuildAssumption DEF BuildInv, BuildTypeOK, SleepsInTime
<1>3. BuildTypeOK'
  BY <1>1, <1>2 DEF BuildInv, BuildTypeOK, Ends, Never
<1>4. SleepsInTime' /\ GoneAfterRequest'
  BY <1>1 DEF BuildInv, SleepsInTime, GoneAfterRequest, Never
<1>5. LooksRecently'
  BY <1>1, <1>2 DEF LooksRecently, Recent, Stale
<1> QED  BY <1>3, <1>4, <1>5 DEF BuildInv

LEMMA NextBuildInv == BuildInv /\ [BuildNext]_buildVars => BuildInv'
PROOF
<1> SUFFICES ASSUME BuildInv, [BuildNext]_buildVars PROVE BuildInv'
  OBVIOUS
<1>1. CASE Start \/ RequestFails
  <2>1. phase' \in {"request", "failed"} /\ UNCHANGED <<image, goneSince, seen, retries, clock, lastRequest>>
    BY <1>1 DEF Start, RequestFails
  <2> QED  BY <2>1 DEF BuildInv, BuildTypeOK, SleepsInTime, GoneAfterRequest, LooksRecently, Ends, Never
<1>2. CASE HostGoes
  BY <1>2, PlaneBuildInv DEF HostGoes
<1>3. CASE OthersRequest
  BY <1>3, PlaneBuildInv DEF OthersRequest, Requested
<1>4. ASSUME NEW how \in {"ready"} \cup Failures, BuildEnds(how) PROVE BuildInv'
  BY <1>4, PlaneBuildInv DEF BuildEnds
<1>5. CASE UNCHANGED buildVars
  BY <1>5, PlaneBuildInv DEF buildVars, BuildInv, BuildTypeOK
<1> QED  BY <1>1, <1>2, <1>3, <1>4, <1>5, RequestBuildInv, LookBuildInv, PollBuildInv DEF BuildNext

\* For any timeout, interval and number of retries: when a build times out,
\* its host has not been gone for the interval in which build() asks again
\* (images.ts:131).
THEOREM GoneBuildsAreFound == BuildSpec => []GoneBuildsAreRestarted
PROOF
<1>1. BuildSpec => []BuildInv
  BY InitBuildInv, NextBuildInv, PTL DEF BuildSpec
<1>2. BuildInv => GoneBuildsAreRestarted
  <2> SUFFICES ASSUME BuildInv, phase = "timeout", goneSince # Never
      PROVE  clock - goneSince < RequestAgain
    BY DEF GoneBuildsAreRestarted
  <2>1. clock - lastRequest < RequestAgain /\ goneSince >= lastRequest
    BY DEF BuildInv, LooksRecently, Recent, GoneAfterRequest
  <2>2. /\ clock \in Int /\ lastRequest \in Int /\ goneSince \in Int /\ RequestAgain \in Int
    BY BuildAssumption DEF BuildInv, BuildTypeOK, Never
  <2> QED  BY <2>1, <2>2
<1> QED  BY <1>1, <1>2, PTL

-----------------------------------------------------------------------------
(* The shell. *)

\* Before run() has resolved there is nothing to restore, and from the finally
\* block on everything is restored.
Restoring ==
  /\ shell \in {"idle", "opening"} => race = "none" /\ ~terminating /\ kill = "none"
  /\ shell \in {"idle", "opening", "closing", "leaving", "ended", "forced"} => ~raw /\ ~listening

\* A kill was asked for, or is not needed: it is sent at the request of the
\* user, and by the finally block when the shell did not end by itself.
Accounted ==
  /\ terminating => kill # "none"
  /\ shell = "open" /\ kill # "none" => terminating
  /\ shell \in {"closing", "forced"} => kill # "none"
  /\ shell \in {"leaving", "killed", "ended"} /\ (race # "none" \/ listening) => remote = "exited" \/ kill # "none"

\* What the promises of the race stand for.
Raced ==
  /\ kill = "done" => remote = "exited"
  /\ race = "exit" => remote = "exited"
  /\ race = "terminated" => kill = "done"

ShellInv == ShellTypeOK /\ Restoring /\ Accounted /\ Raced

LEMMA InitShellInv == ShellInit => ShellInv
BY DEF ShellInit, ShellInv, ShellTypeOK, Restoring, Accounted, Raced, ShellOver

LEMMA NextShellInv == ShellInv /\ [ShellNext]_shellVars => ShellInv'
PROOF
<1> SUFFICES ASSUME ShellInv, [ShellNext]_shellVars PROVE ShellInv'
  OBVIOUS
<1> USE DEF ShellInv, ShellTypeOK, Restoring, Accounted, Raced, ShellOver
<1>1. CASE RunShell \/ Starts \/ RunResolves \/ RunRejects \/ SetupThrows
  <2>1. CASE RunShell  BY <2>1 DEF RunShell
  <2>2. CASE Starts  BY <2>2 DEF Starts
  <2>3. CASE RunResolves  BY <2>3 DEF RunResolves
  <2>4. CASE RunRejects  BY <2>4 DEF RunRejects
  <2>5. CASE SetupThrows  BY <2>5 DEF SetupThrows
  <2> QED  BY <1>1, <2>1, <2>2, <2>3, <2>4, <2>5
<1>2. CASE RemoteExits \/ KillArrives
  BY <1>2 DEF RemoteExits, KillArrives
<1>3. CASE WaitResolves \/ Fails
  BY <1>3 DEF WaitResolves, Fails, Settles
<1>4. CASE Terminate \/ TerminateAgain \/ SignalKills
  <2>1. CASE Terminate  BY <2>1 DEF Terminate
  <2>2. CASE TerminateAgain  BY <2>2 DEF TerminateAgain, Restored
  <2>3. CASE SignalKills  BY <2>3 DEF SignalKills
  <2> QED  BY <1>4, <2>1, <2>2, <2>3
<1>5. ASSUME NEW how \in {"done", "failed"}, KillReturns(how) PROVE ShellInv'
  BY <1>5 DEF KillReturns, Settles
<1>6. CASE Finally
  BY <1>6 DEF Finally, Restored, MustKill
<1>7. CASE Disconnects
  BY <1>7 DEF Disconnects
<1>8. CASE UNCHANGED shellVars
  BY <1>8 DEF shellVars
<1> QED  BY <1>1, <1>2, <1>3, <1>4, <1>5, <1>6, <1>7, <1>8 DEF ShellNext

\* However the shell ends - by its exit, a kill, a failure, a signal in the
\* midst of an await or a second one - the terminal is as it was and no shell
\* stays behind in the sandbox that nobody sent a kill
\* (sandbox-shell.ts:121, 145).
THEOREM ShellLeavesNothing == ShellSpec => []LeavesNothingBehind
PROOF
<1>1. ShellSpec => []ShellInv
  BY InitShellInv, NextShellInv, PTL DEF ShellSpec
<1>2. ShellInv => LeavesNothingBehind
  BY DEF ShellInv, ShellTypeOK, Restoring, Accounted, Raced, ShellOver, LeavesNothingBehind
<1> QED  BY <1>1, <1>2, PTL

-----------------------------------------------------------------------------
(* Profiles. *)

FileSet == [whole : {TRUE}, by : [NamedProfiles -> Terminals \cup {NoProfile, Earlier}],
            current : NamedProfiles \cup {NoProfile}]

Commands ==
  [do : {"none", "create", "use", "delete", "resolve"}, name : NamedProfiles \cup {NoProfile},
   at : CommandOver \cup {"idle", "prompt", "probe", "open", "write", "rename", "rm", "reload", "read"},
   file : {"key", "config"}, read : FileSet, raw : BOOLEAN, typed : {"empty", "valid", "invalid"},
   got : Terminals \cup {NoProfile, Earlier}]

Unnamed == {"idle", "prompt", "probe"}
Replacing == {"open", "write", "rename"}

IsWhole(file) == file \in FileSet /\ file.current \in Known(file) \cup {NoProfile}

\* A command of each kind is at a step of its kind.
Proper(c) ==
  /\ c \in Commands /\ IsWhole(c.read) /\ (c.at = "idle" => c.do = "none")
  /\ c.at \in {"prompt", "probe"} => c.do = "create" /\ c.file = "key"
  /\ c.at \in {"rm", "reload"} => c.do = "delete"
  /\ c.at = "read" => c.do = "resolve"
  /\ c.at \in Replacing => c.do \in {"create", "use", "delete"} /\ c.name \in NamedProfiles
  /\ c.at \in Replacing /\ c.file = "key" => c.do = "create"
  /\ c.do \in {"use", "delete", "resolve"} => c.name \in NamedProfiles
  /\ c.do = "delete" /\ c.at \in Replacing => c.read.by[c.name] = NoProfile
  /\ c.raw => c.at \in {"prompt", "killed"}

\* A profile is the one that its command created, or the one that was there.
MadeBy(c, p) == c.do = "create" /\ c.name = p /\ c.at \notin Unnamed
IsOwned(file) ==
  \A p \in NamedProfiles :
    /\ file.by[p] \in Terminals => MadeBy(command[file.by[p]], p)
    /\ file.by[p] = Earlier => p = ProfileNames[1]

FileInv ==
  /\ IsWhole(config) /\ IsOwned(config)
  /\ keys \in [NamedProfiles -> Terminals \cup {NoProfile, Earlier}]
  /\ command \in [Terminals -> Commands]
  /\ \A t \in Terminals : Proper(command[t]) /\ IsOwned(command[t].read)
  /\ overlapped \in BOOLEAN

\* What a command that is alone has read is what the files hold, but for its own
\* profile.
IsCurrent(t, c) ==
  /\ c.at \in {"prompt", "probe"} => c.read.by = config.by /\ c.name \notin Known(config)
  /\ c.at = "read" => c.read.by = config.by /\ c.name \in Known(config)
  /\ c.at \in Replacing => \A q \in NamedProfiles : q # c.name => c.read.by[q] = config.by[q]
  /\ c.at \in Replacing /\ c.do = "use" => c.read.by[c.name] = config.by[c.name]
  /\ c.at \in Replacing /\ c.do = "create" =>
       /\ c.read.by[c.name] = t /\ c.name \notin Known(config)
       /\ c.file = "config" => keys[c.name] = t

KeysInv ==
  /\ \A t, u \in Active : t = u
  /\ \A t \in Active : IsCurrent(t, command[t])
  /\ \A p \in Known(config) : keys[p] = config.by[p] \/ (keys[p] = NoProfile /\ BrokenOff(p))
  /\ \A t \in Terminals : command[t].do = "resolve" /\ command[t].at = "done" =>
       command[t].got = command[t].read.by[command[t].name]

ProfilesInv == FileInv /\ (~overlapped => KeysInv)

\* A nonempty set of natural numbers has a least element: of the intervals below
\* its elements one has none of the others inside.
LEMMA LeastElement ==
  ASSUME NEW S, S \subseteq Nat, S # {}
  PROVE  \E i \in S : \A j \in S : i <= j
PROOF
<1> DEFINE T == {1..i : i \in S}
<1>1. T \subseteq FiniteSubsetsOf(Nat)
  <2>1. \A i \in Nat : 1..i \subseteq Nat /\ IsFiniteSet(1..i)
    BY FS_Interval
  <2> QED  BY <2>1 DEF FiniteSubsetsOf
<1>2. T # {}
  OBVIOUS
<1>3. \E x \in T : \A y \in T : ~ (<<y, x>> \in StrictSubsetOrdering(Nat))
  <2> HIDE DEF T
  <2> QED  BY <1>1, <1>2, FS_StrictSubsetOrderingWellFounded, WFMin, Zenon
<1>4. PICK i \in S : \A y \in T : ~ (<<y, 1..i>> \in StrictSubsetOrdering(Nat))
  BY <1>3
<1>5. ASSUME NEW j \in S, j < i PROVE FALSE
  <2>1. (1..j) \subseteq (1..i) /\ i \in 1..i /\ i \notin 1..j
    BY <1>5
  <2>2. <<1..j, 1..i>> \in StrictSubsetOrdering(Nat)
    BY <2>1 DEF StrictSubsetOrdering
  <2> QED  BY <2>2, <1>4
<1> QED  BY <1>5

\* One profile per command, so the names outnumber the profiles.
LEMMA NameIsFree ==
  ASSUME FileInv, NEW t \in Terminals, command[t].at = "probe"
  PROVE  \E i \in DOMAIN ProfileNames : ProfileNames[i] \notin Known(command[t].read)
PROOF
<1> DEFINE file == command[t].read
           Others == (Terminals \ {t}) \cup {Earlier}
<1> SUFFICES ASSUME \A i \in DOMAIN ProfileNames : ProfileNames[i] \in Known(file) PROVE FALSE
  OBVIOUS
<1>1. DOMAIN ProfileNames = 1..Len(ProfileNames) /\ Len(ProfileNames) \in Nat
  BY NamesAssumption
<1>2. file \in FileSet /\ IsOwned(file)
  BY DEF FileInv, Proper, IsWhole
<1>3. \A p \in Known(file) : file.by[p] \in Others
  <2> SUFFICES ASSUME NEW p \in Known(file) PROVE file.by[p] \in Others
    OBVIOUS
  <2>1. file.by[p] \in Terminals \cup {Earlier} /\ p \in NamedProfiles
    BY <1>2 DEF FileSet, Known
  <2>2. file.by[p] # t
    BY <1>2, <2>1 DEF IsOwned, MadeBy, Unnamed
  <2> QED  BY <2>1, <2>2
<1>4. \A p, q \in Known(file) : file.by[p] = file.by[q] => p = q
  <2> SUFFICES ASSUME NEW p \in Known(file), NEW q \in Known(file), file.by[p] = file.by[q] PROVE p = q
    OBVIOUS
  <2>1. file.by[p] \in Terminals \cup {Earlier} /\ p \in NamedProfiles /\ q \in NamedProfiles
    BY <1>2 DEF FileSet, Known
  <2> QED  BY <1>2, <2>1 DEF IsOwned, MadeBy
<1> DEFINE f == [i \in 1..Len(ProfileNames) |-> file.by[ProfileNames[i]]]
<1>5. f \in [1..Len(ProfileNames) -> Others]
  <2> HIDE DEF Others, file
  <2> QED  BY <1>1, <1>3
<1>6. \A i, j \in 1..Len(ProfileNames) : f[i] = f[j] => i = j
  <2> HIDE DEF file
  <2> QED  BY <1>1, <1>4, NamesAssumption
<1>7. IsFiniteSet(Others) /\ Cardinality(Others) = Cardinality(Terminals)
  <2>1. /\ IsFiniteSet(Terminals \ {t}) /\ Cardinality(Terminals \ {t}) = Cardinality(Terminals) - 1
        /\ Cardinality(Terminals) \in Nat
    BY ProfilesAssumption, FS_RemoveElement, FS_CardinalityType
  <2>2. Earlier \notin Terminals \ {t}
    BY ProfilesAssumption
  <2>3. /\ IsFiniteSet(Others)
        /\ Cardinality(Others) = Cardinality(Terminals \ {t}) + 1
    BY <2>1, <2>2, FS_AddElement
  <2> QED  BY <2>1, <2>3
<1>8. IsFiniteSet(1..Len(ProfileNames)) /\ Cardinality(1..Len(ProfileNames)) = Len(ProfileNames)
  <2>1. PICK m \in Nat : m = Len(ProfileNames)
    BY <1>1
  <2>2. IsFiniteSet(1..m) /\ Cardinality(1..m) = IF 1 > m THEN 0 ELSE m - 1 + 1
    BY FS_Interval
  <2>3. (IF 1 > m THEN 0 ELSE m - 1 + 1) = m
    OBVIOUS
  <2> QED  BY <2>1, <2>2, <2>3
<1>9. Cardinality(Others) < Cardinality(1..Len(ProfileNames)) /\ Cardinality(Terminals) \in Nat
  BY <1>7, <1>8, <1>1, NamesAssumption, ProfilesAssumption, FS_CardinalityType
<1>10. \E i, j \in 1..Len(ProfileNames) : i # j /\ f[i] = f[j]
  <2> HIDE DEF Others, f
  <2> QED  BY <1>5, <1>7, <1>8, <1>9, FS_PigeonHole
<1> HIDE DEF f
<1> QED  BY <1>6, <1>10

LEMMA FreeNameIsFree ==
  ASSUME FileInv, NEW t \in Terminals, command[t].at = "probe"
  PROVE  FreeName(t) \in NamedProfiles /\ FreeName(t) \notin Known(command[t].read)
PROOF
<1> DEFINE file == command[t].read
           S == {i \in DOMAIN ProfileNames : ProfileNames[i] \notin Known(file)}
<1>1. DOMAIN ProfileNames = 1..Len(ProfileNames) /\ Len(ProfileNames) \in Nat
  BY NamesAssumption
<1>2. S # {} /\ S \subseteq Nat
  BY <1>1, NameIsFree
<1>3. PICK i \in S : \A j \in S : i <= j
  <2> HIDE DEF S
  <2> QED  BY <1>2, LeastElement
<1>4. /\ i \in DOMAIN ProfileNames /\ ProfileNames[i] \notin Known(file)
      /\ \A j \in 1..i - 1 : ProfileNames[j] \in Known(file)
  BY <1>1, <1>3
<1> QED  BY <1>4 DEF FreeName, NamedProfiles

-----------------------------------------------------------------------------
\* What a command keeps when it is over.
Kept(r) == IF r.at \in CommandOver /\ r.do # "resolve" THEN [r EXCEPT !.read = EmptyConfig, !.typed = "empty"] ELSE r

LEMMA EmptyIsWhole == IsWhole(EmptyConfig) /\ \A p \in NamedProfiles : EmptyConfig.by[p] = NoProfile
PROOF
<1> QED  BY DEF IsWhole, EmptyConfig, FileSet

LEMMA KeptIsProper ==
  ASSUME NEW r, Proper(r)
  PROVE  /\ Proper(Kept(r))
         /\ Kept(r).do = r.do /\ Kept(r).name = r.name /\ Kept(r).at = r.at /\ Kept(r).file = r.file
         /\ Kept(r).raw = r.raw /\ Kept(r).got = r.got
         /\ Kept(r).read \in {r.read, EmptyConfig}
         /\ r.do = "resolve" \/ r.at \notin CommandOver => Kept(r) = r
PROOF
<1>1. r \in Commands
  BY DEF Proper
<1>2. CASE r.at \in CommandOver /\ r.do # "resolve"
  <2>1. Kept(r) = [r EXCEPT !.read = EmptyConfig, !.typed = "empty"]
    BY <1>2 DEF Kept
  <2>2. /\ Kept(r).do = r.do /\ Kept(r).name = r.name /\ Kept(r).at = r.at /\ Kept(r).file = r.file
        /\ Kept(r).raw = r.raw /\ Kept(r).got = r.got /\ Kept(r).read = EmptyConfig
        /\ Kept(r) \in Commands
    BY <2>1, <1>1, EmptyIsWhole DEF Commands, IsWhole
  <2>3. Proper(Kept(r))
    BY <2>2, <1>2, EmptyIsWhole DEF Proper, CommandOver, Replacing
  <2> QED  BY <2>2, <2>3, <1>2
<1>3. CASE ~(r.at \in CommandOver /\ r.do # "resolve")
  <2>1. Kept(r) = r
    BY <1>3 DEF Kept
  <2> QED  BY <2>1
<1> QED  BY <1>2, <1>3

\* Terminal t goes on, as r.
GoesOn(t, r) ==
  /\ command[t].at \in Unnamed \/ (r.do = command[t].do /\ r.name = command[t].name)
  /\ r.at # "idle" /\ (command[t].at \notin Unnamed => r.at \notin Unnamed)
  /\ \A p \in NamedProfiles :
       /\ r.read.by[p] \in Terminals =>
            MadeBy(command[r.read.by[p]], p) \/ (r.read.by[p] = t /\ MadeBy(r, p))
       /\ r.read.by[p] = Earlier => p = ProfileNames[1]

LEMMA FilesGoOn ==
  ASSUME FileInv, NEW t \in Terminals, NEW r, Proper(r), Becomes(t, r), GoesOn(t, r),
         IsWhole(config'), \A p \in NamedProfiles : config'.by[p] = config.by[p] \/ config'.by[p] = command[t].read.by[p],
         keys' \in [NamedProfiles -> Terminals \cup {NoProfile, Earlier}],
         overlapped' \in BOOLEAN
  PROVE  FileInv'
PROOF
<1> DEFINE s == Kept(r)
<1>1. command' = [command EXCEPT ![t] = s] /\ command \in [Terminals -> Commands]
  BY DEF Becomes, Kept, FileInv
<1>2. /\ Proper(s) /\ s.do = r.do /\ s.name = r.name /\ s.at = r.at
      /\ s.read \in {r.read, EmptyConfig} /\ s \in Commands
  BY KeptIsProper DEF Proper
<1> HIDE DEF s
<1>3. \A u \in Terminals : command'[u] = IF u = t THEN s ELSE command[u]
  BY <1>1
<1>4. command' \in [Terminals -> Commands]
  BY <1>1, <1>2
<1>5. \A u \in Terminals : Proper(command'[u])
  BY <1>2, <1>3 DEF FileInv
<1>6. \A u \in Terminals, p \in NamedProfiles : MadeBy(command[u], p) => MadeBy(command'[u], p)
  BY <1>2, <1>3 DEF MadeBy, GoesOn, Unnamed
<1>7. \A p \in NamedProfiles : MadeBy(r, p) => MadeBy(command'[t], p)
  BY <1>2, <1>3 DEF MadeBy
<1>8. \A u \in Terminals : IsOwned(command[u].read)'
  <2> SUFFICES ASSUME NEW u \in Terminals PROVE IsOwned(command[u].read)'
    OBVIOUS
  <2>1. CASE u # t
    <3>1. command'[u] = command[u] /\ IsOwned(command[u].read)
      BY <1>3, <2>1 DEF FileInv
    <3> QED  BY <3>1, <1>6 DEF IsOwned
  <2>2. CASE u = t /\ s.read = EmptyConfig
    <3>1. \A p \in NamedProfiles : command'[u].read.by[p] = NoProfile
      BY <2>2, <1>3, EmptyIsWhole
    <3> QED  BY <3>1, ProfilesAssumption DEF IsOwned
  <2>3. CASE u = t /\ s.read = r.read
    <3>1. command'[u].read = r.read
      BY <2>3, <1>3
    <3> QED  BY <3>1, <1>6, <1>7 DEF IsOwned, GoesOn
  <2> QED  BY <2>1, <2>2, <2>3, <1>2
<1>9. IsOwned(config)'
  <2>1. IsOwned(config) /\ IsOwned(command[t].read)
    BY DEF FileInv
  <2> QED  BY <2>1, <1>6 DEF IsOwned
<1> QED  BY <1>4, <1>5, <1>8, <1>9 DEF FileInv

DeletesNow(c, p) == c.do = "delete" /\ c.name = p /\ c.at # "done"

\* A command goes on while no two have overlapped.
LEMMA KeysGoOn ==
  ASSUME FileInv, KeysInv, NEW t \in Terminals, NEW r, Proper(r), Becomes(t, r),
         command[t].at \notin CommandOver, r.at # "idle",
         command[t].at = "idle" /\ r.at \notin CommandOver => Active = {},
         (config' = config /\ keys' = keys) \/ t \in Active,
         r.at \notin CommandOver => IsCurrent(t, r)',
         \A p \in Known(config') : keys'[p] = config'.by[p] \/
           (keys'[p] = NoProfile /\ (DeletesNow(r, p) \/ (BrokenOff(p) /\ ~DeletesNow(command[t], p)))),
         r.do = "resolve" /\ r.at = "done" => r.got = r.read.by[r.name]
  PROVE  KeysInv'
PROOF
<1> DEFINE s == Kept(r)
<1>1. command' = [command EXCEPT ![t] = s] /\ command \in [Terminals -> Commands]
  BY DEF Becomes, Kept, FileInv
<1>2. /\ s.do = r.do /\ s.name = r.name /\ s.at = r.at /\ s.got = r.got
      /\ r.do = "resolve" \/ r.at \notin CommandOver => s = r
  BY KeptIsProper
<1> HIDE DEF s
<1>3. \A u \in Terminals : command'[u] = IF u = t THEN s ELSE command[u]
  BY <1>1
<1>4. \A u \in Active' : u \in Terminals /\ IF u = t THEN r.at \notin CommandOver ELSE u \in Active
  BY <1>2, <1>3 DEF Active
<1>5. t \in Active \/ command[t].at = "idle"
  BY DEF Active
<1>6. \A u, v \in Active' : u = v
  BY <1>4, <1>5 DEF KeysInv
<1>7. ASSUME NEW u \in Active' PROVE IsCurrent(u, command[u])'
  <2>1. CASE u = t
    <3>1. r.at \notin CommandOver /\ command'[u] = r
      BY <2>1, <1>2, <1>3, <1>4
    <3> QED  BY <3>1, <2>1 DEF IsCurrent
  <2>2. CASE u # t
    <3>1. u \in Active /\ t \notin Active /\ command'[u] = command[u]
      BY <2>2, <1>3, <1>4 DEF KeysInv
    <3>2. IsCurrent(u, command[u]) /\ config' = config /\ keys' = keys
      BY <3>1 DEF KeysInv
    <3> QED  BY <3>1, <3>2 DEF IsCurrent
  <2> QED  BY <2>1, <2>2
<1>8. ASSUME NEW p, DeletesNow(r, p) \/ (BrokenOff(p) /\ ~DeletesNow(command[t], p)) PROVE BrokenOff(p)'
  <2>1. CASE DeletesNow(r, p)
    BY <2>1, <1>2, <1>3 DEF DeletesNow, BrokenOff
  <2>2. CASE BrokenOff(p) /\ ~DeletesNow(command[t], p)
    <3>1. PICK u \in Terminals : DeletesNow(command[u], p)
      BY <2>2 DEF BrokenOff, DeletesNow
    <3>2. u # t
      BY <3>1, <2>2
    <3> QED  BY <3>1, <3>2, <1>3 DEF BrokenOff, DeletesNow
  <2> QED  BY <1>8, <2>1, <2>2
<1>9. \A p \in Known(config)' : keys'[p] = config'.by[p] \/ (keys'[p] = NoProfile /\ BrokenOff(p)')
  <2>1. Known(config)' = Known(config')
    BY DEF Known
  <2> QED  BY <2>1, <1>8
<1>10. ASSUME NEW u \in Terminals, command'[u].do = "resolve", command'[u].at = "done"
       PROVE  command'[u].got = command'[u].read.by[command'[u].name]
  BY <1>10, <1>2, <1>3 DEF KeysInv
<1> QED  BY <1>6, <1>7, <1>9, <1>10 DEF KeysInv

\* The two together.
LEMMA GoesOnInv ==
  ASSUME ProfilesInv, NEW t \in Terminals, NEW r, Proper(r), Becomes(t, r), GoesOn(t, r),
         command[t].at \notin CommandOver,
         IsWhole(config'), \A p \in NamedProfiles : config'.by[p] = config.by[p] \/ config'.by[p] = command[t].read.by[p],
         keys' \in [NamedProfiles -> Terminals \cup {NoProfile, Earlier}],
         overlapped' \in BOOLEAN,
         ~overlapped' => ~overlapped /\ (command[t].at = "idle" /\ r.at \notin CommandOver => Active = {}),
         (config' = config /\ keys' = keys) \/ t \in Active,
         KeysInv /\ r.at \notin CommandOver => IsCurrent(t, r)',
         KeysInv => \A p \in Known(config') : keys'[p] = config'.by[p] \/
           (keys'[p] = NoProfile /\ (DeletesNow(r, p) \/ (BrokenOff(p) /\ ~DeletesNow(command[t], p)))),
         KeysInv /\ r.do = "resolve" /\ r.at = "done" => r.got = r.read.by[r.name]
  PROVE  ProfilesInv'
PROOF
<1>1. FileInv /\ (~overlapped => KeysInv) /\ overlapped \in BOOLEAN
  BY DEF ProfilesInv, FileInv
<1>2. FileInv'
  BY <1>1, FilesGoOn
<1>3. ASSUME ~overlapped' PROVE KeysInv'
  <2>1. /\ KeysInv /\ (command[t].at = "idle" /\ r.at \notin CommandOver => Active = {})
    BY <1>1, <1>3
  <2>2. r.at # "idle"
    BY DEF GoesOn
  <2> QED  BY <1>1, <2>1, <2>2, KeysGoOn
<1> QED  BY <1>2, <1>3 DEF ProfilesInv

-----------------------------------------------------------------------------
\* What every command begins with.
LEMMA LoadsInv ==
  ASSUME ProfilesInv, NEW t \in Terminals, NEW r, LoadsThen(t, r), Proper(r),
         r.read.by = config.by, r.at \notin {"idle", "done"}, r.at \notin CommandOver => IsCurrent(t, r)
  PROVE  ProfilesInv'
PROOF
<1>1. /\ FileInv /\ IsWhole(config) /\ IsOwned(config) /\ Proper(command[t])
      /\ keys \in [NamedProfiles -> Terminals \cup {NoProfile, Earlier}]
  BY DEF ProfilesInv, FileInv
<1>2. /\ command[t].at = "idle" /\ Becomes(t, r) /\ config' = config /\ keys' = keys
      /\ overlapped' = (overlapped \/ (Active # {} /\ r.at \notin CommandOver))
  BY DEF LoadsThen, FilesStay
<1>3. GoesOn(t, r)
  BY <1>1, <1>2 DEF GoesOn, Unnamed, IsOwned
<1>4. r.at \notin CommandOver => IsCurrent(t, r)'
  <2>1. IsCurrent(t, r) => IsCurrent(t, r)'
    BY <1>2 DEF IsCurrent, Known
  <2> QED  BY <2>1
<1>5. \A p : ~DeletesNow(command[t], p)
  BY <1>1, <1>2 DEF Proper, DeletesNow
<1>6. KeysInv => \A p \in Known(config') : keys'[p] = config'.by[p] \/
        (keys'[p] = NoProfile /\ (DeletesNow(r, p) \/ (BrokenOff(p) /\ ~DeletesNow(command[t], p))))
  BY <1>2, <1>5 DEF KeysInv
<1>7. command[t].at \notin CommandOver
  BY <1>2 DEF CommandOver
<1>8. overlapped' \in BOOLEAN /\ (~overlapped' => ~overlapped /\ (r.at \notin CommandOver => Active = {}))
  BY <1>2
<1>9. IsWhole(config') /\ \A p \in NamedProfiles : config'.by[p] = config.by[p] \/ config'.by[p] = command[t].read.by[p]
  BY <1>1, <1>2
<1> QED  BY <1>1, <1>2, <1>3, <1>4, <1>6, <1>7, <1>8, <1>9, GoesOnInv

LEMMA LoadInv ==
  ASSUME ProfilesInv, NEW t \in Terminals, NEW do \in {"create", "delete", "resolve", "use"},
         NEW name \in NamedProfiles \cup {NoProfile}, NEW at \in {"failed", "prompt", "probe", "rm", "read"},
         Loads(t, do, name, at),
         do # "create" => name \in NamedProfiles,
         at \in {"prompt", "probe"} => do = "create" /\ name \notin Known(config),
         at = "rm" => do = "delete", at = "read" => do = "resolve" /\ name \in Known(config)
  PROVE  ProfilesInv'
PROOF
<1>1. PICK r : r = [NoCommand EXCEPT !.do = do, !.name = name, !.at = at, !.read = config, !.raw = at = "prompt"]
  OBVIOUS
<1> PICK asks \in BOOLEAN : asks = (at = "prompt")
  OBVIOUS
<1> PICK read : read = config
  OBVIOUS
<1>2. /\ r.do = do /\ r.name = name /\ r.at = at /\ r.file = "key" /\ r.read = config
      /\ r.raw = asks /\ r.raw = (at = "prompt")
      /\ r = [do |-> do, name |-> name, at |-> at, file |-> "key", read |-> read, raw |-> asks, typed |-> "empty",
              got |-> NoProfile]
  BY <1>1 DEF NoCommand
<1>3. FileInv /\ IsWhole(config) /\ read \in FileSet
  BY DEF ProfilesInv, FileInv, IsWhole
<1>4. r \in Commands
  <2>1. r = [do |-> do, name |-> name, at |-> at, file |-> "key", read |-> read, raw |-> asks, typed |-> "empty",
             got |-> NoProfile]
    BY <1>2
  <2> QED  BY <2>1, <1>3 DEF Commands, CommandOver
<1>5. Proper(r)
  BY <1>2, <1>3, <1>4 DEF Proper, Replacing
<1>6. IsCurrent(t, r)
  BY <1>2 DEF IsCurrent, Replacing
<1>7. LoadsThen(t, r)
  BY <1>1 DEF Loads
<1> QED  BY <1>2, <1>5, <1>6, <1>7, LoadsInv

LEMMA CreatesInv ==
  ASSUME ProfilesInv, NEW t \in Terminals, NEW name \in NamedProfiles \cup {NoProfile}, Creates(t, name)
  PROVE  ProfilesInv'
PROOF
<1>1. CASE name \in Known(config) /\ Loads(t, "create", name, "failed")
  BY <1>1, LoadInv
<1>2. ASSUME name \notin Known(config), NEW at \in {"prompt", "probe"}, Loads(t, "create", name, at) PROVE ProfilesInv'
  BY <1>2, LoadInv
<1> QED  BY <1>1, <1>2 DEF Creates

LEMMA DeletesInv ==
  ASSUME ProfilesInv, NEW t \in Terminals, NEW name \in NamedProfiles, Deletes(t, name)
  PROVE  ProfilesInv'
PROOF
<1>1. CASE name \in Known(config)
  <2>1. Loads(t, "delete", name, "rm")
    BY <1>1 DEF Deletes
  <2> QED  BY <2>1, LoadInv
<1>2. CASE name \notin Known(config)
  <2>1. Loads(t, "delete", name, "failed")
    BY <1>2 DEF Deletes
  <2> QED  BY <2>1, LoadInv
<1> QED  BY <1>1, <1>2

LEMMA ResolvesInv ==
  ASSUME ProfilesInv, NEW t \in Terminals, NEW name \in NamedProfiles, Resolves(t, name)
  PROVE  ProfilesInv'
PROOF
<1>1. CASE name \in Known(config)
  <2>1. Loads(t, "resolve", name, "read")
    BY <1>1 DEF Resolves
  <2> QED  BY <2>1, <1>1, LoadInv
<1>2. CASE name \notin Known(config)
  <2>1. Loads(t, "resolve", name, "failed")
    BY <1>2 DEF Resolves
  <2> QED  BY <2>1, LoadInv
<1> QED  BY <1>1, <1>2

LEMMA UsesInv ==
  ASSUME ProfilesInv, NEW t \in Terminals, NEW name \in NamedProfiles, Uses(t, name)
  PROVE  ProfilesInv'
PROOF
<1>1. CASE Loads(t, "use", name, "failed")
  BY <1>1, LoadInv
<1>2. CASE /\ name \in Known(config)
           /\ LoadsThen(t, [NoCommand EXCEPT !.do = "use", !.name = name, !.at = "open", !.file = "config",
                              !.read = [config EXCEPT !.current = name]])
  <2>1. PICK r : r = [NoCommand EXCEPT !.do = "use", !.name = name, !.at = "open", !.file = "config",
                        !.read = [config EXCEPT !.current = name]]
    OBVIOUS
  <2>2. PICK read : read = [config EXCEPT !.current = name]
    OBVIOUS
  <2>3. FileInv /\ config \in FileSet
    BY DEF ProfilesInv, FileInv, IsWhole
  <2>4. read \in FileSet /\ read.by = config.by /\ read.current = name
    BY <2>2, <2>3 DEF FileSet
  <2>5. IsWhole(read)
    BY <2>4, <1>2 DEF IsWhole, Known
  <2>6. /\ r.do = "use" /\ r.name = name /\ r.at = "open" /\ r.file = "config" /\ r.read = read /\ r.raw = FALSE
        /\ r = [do |-> "use", name |-> name, at |-> "open", file |-> "config", read |-> read, raw |-> FALSE,
                typed |-> "empty", got |-> NoProfile]
    BY <2>1, <2>2 DEF NoCommand
  <2>7. r \in Commands
    BY <2>4, <2>6 DEF Commands
  <2>8. Proper(r)
    BY <2>5, <2>6, <2>7 DEF Proper, Replacing
  <2>9. IsCurrent(t, r)
    BY <2>4, <2>6 DEF IsCurrent, Replacing
  <2>10. LoadsThen(t, r)
    BY <1>2, <2>1
  <2> QED  BY <2>4, <2>6, <2>8, <2>9, <2>10, LoadsInv
<1> QED  BY <1>1, <1>2 DEF Uses

-----------------------------------------------------------------------------
\* A step that touches no file.
LEMMA MovesInv ==
  ASSUME ProfilesInv, NEW t \in Active, NEW r, Proper(r), Becomes(t, r), FilesStay, UNCHANGED overlapped,
         r.do = command[t].do, r.name = command[t].name, r.read = command[t].read, r.at # "idle",
         command[t].at \notin Unnamed => r.at \notin Unnamed,
         r.at \notin CommandOver /\ IsCurrent(t, command[t]) => IsCurrent(t, r),
         r.do = "delete" /\ r.at = "done" => r.name \notin Known(config),
         KeysInv /\ r.do = "resolve" /\ r.at = "done" => r.got = r.read.by[r.name]
  PROVE  ProfilesInv'
PROOF
<1>1. /\ FileInv /\ IsWhole(config) /\ IsOwned(command[t].read) /\ t \in Terminals
      /\ keys \in [NamedProfiles -> Terminals \cup {NoProfile, Earlier}]
      /\ command[t].at \notin CommandOver /\ command[t].at # "idle"
  BY DEF ProfilesInv, FileInv, Active
<1>2. config' = config /\ keys' = keys /\ overlapped' = overlapped
  BY DEF FilesStay
<1>3. GoesOn(t, r)
  BY <1>1 DEF GoesOn, IsOwned
<1>4. KeysInv /\ r.at \notin CommandOver => IsCurrent(t, r)'
  <2>1. IsCurrent(t, r) => IsCurrent(t, r)'
    BY <1>2 DEF IsCurrent, Known
  <2> QED  BY <2>1 DEF KeysInv
<1>5. KeysInv => \A p \in Known(config') : keys'[p] = config'.by[p] \/
        (keys'[p] = NoProfile /\ (DeletesNow(r, p) \/ (BrokenOff(p) /\ ~DeletesNow(command[t], p))))
  <2> SUFFICES ASSUME KeysInv, NEW p \in Known(config), keys[p] # config.by[p]
               PROVE  keys[p] = NoProfile /\ (DeletesNow(r, p) \/ (BrokenOff(p) /\ ~DeletesNow(command[t], p)))
    BY <1>2
  <2>1. keys[p] = NoProfile /\ BrokenOff(p)
    BY DEF KeysInv
  <2> QED  BY <2>1 DEF DeletesNow
<1>6. overlapped' \in BOOLEAN /\ (~overlapped' => ~overlapped)
  BY <1>1, <1>2 DEF FileInv
<1>7. IsWhole(config') /\ \A p \in NamedProfiles : config'.by[p] = config.by[p] \/ config'.by[p] = command[t].read.by[p]
  BY <1>1, <1>2
<1> QED  BY <1>1, <1>2, <1>3, <1>4, <1>5, <1>6, <1>7, GoesOnInv

LEMMA TypesInv ==
  ASSUME ProfilesInv, NEW t \in Terminals, Types(t)
  PROVE  ProfilesInv'
PROOF
<1> DEFINE c == command[t]
<1>1. /\ Proper(c) /\ c \in Commands /\ c.at = "prompt" /\ t \in Active /\ c.do = "create"
      /\ FilesStay /\ UNCHANGED overlapped
  BY DEF ProfilesInv, FileInv, Types, Proper, Active, CommandOver
<1>2. ASSUME NEW typed \in {"empty", "valid", "invalid"}, Becomes(t, [c EXCEPT !.typed = typed]) PROVE ProfilesInv'
  <2>1. PICK r : r = [c EXCEPT !.typed = typed]
    OBVIOUS
  <2>2. /\ r.do = c.do /\ r.name = c.name /\ r.at = c.at /\ r.file = c.file /\ r.read = c.read /\ r.raw = c.raw
        /\ r \in Commands
    BY <1>1, <2>1 DEF Commands
  <2>3. Proper(r)
    BY <1>1, <2>2 DEF Proper
  <2>4. IsCurrent(t, c) => IsCurrent(t, r)
    BY <2>2 DEF IsCurrent
  <2>5. Becomes(t, r)
    BY <1>2, <2>1
  <2> QED  BY <1>1, <2>2, <2>3, <2>4, <2>5, MovesInv
<1>3. ASSUME NEW at \in {"probe", "failed"}, PromptFinishes(t, at) PROVE ProfilesInv'
  <2>1. PICK r : r = [c EXCEPT !.at = at, !.raw = FALSE]
    OBVIOUS
  <2>2. /\ r.do = c.do /\ r.name = c.name /\ r.at = at /\ r.file = c.file /\ r.read = c.read /\ r.raw = FALSE
        /\ r \in Commands
    BY <1>1, <2>1 DEF Commands, CommandOver
  <2>3. Proper(r)
    BY <1>1, <2>2 DEF Proper, Replacing
  <2>4. r.at \notin CommandOver /\ IsCurrent(t, c) => IsCurrent(t, r)
    BY <1>1, <2>2 DEF IsCurrent, Replacing, CommandOver
  <2>5. Becomes(t, r)
    BY <1>3, <2>1 DEF PromptFinishes
  <2>6. r.at # "idle" /\ r.at # "done" /\ c.at \in Unnamed
    BY <2>2, <1>1 DEF Unnamed
  <2> QED  BY <1>1, <2>2, <2>3, <2>4, <2>5, <2>6, MovesInv
<1> QED  BY <1>2, <1>3 DEF Types

\* A command stops where it is.
LEMMA StopsInv ==
  ASSUME ProfilesInv, NEW t \in Active, NEW at \in {"failed", "killed"}, at = "failed" => command[t].at # "prompt",
         Reaches(t, at), FilesStay, UNCHANGED overlapped
  PROVE  ProfilesInv'
PROOF
<1> DEFINE c == command[t]
<1>1. Proper(c) /\ c \in Commands /\ c.at \notin CommandOver
  BY DEF ProfilesInv, FileInv, Proper, Active
<1>2. PICK r : r = [c EXCEPT !.at = at]
  OBVIOUS
<1>3. /\ r.do = c.do /\ r.name = c.name /\ r.at = at /\ r.file = c.file /\ r.read = c.read /\ r.raw = c.raw
      /\ r \in Commands /\ r.at \in CommandOver
  BY <1>1, <1>2 DEF Commands, CommandOver
<1>4. Proper(r)
  BY <1>1, <1>3 DEF Proper, Replacing, CommandOver
<1>5. Becomes(t, r)
  BY <1>2 DEF Reaches
<1>6. r.at # "idle" /\ r.at # "done" /\ r.at \notin Unnamed
  BY <1>3 DEF Unnamed
<1> QED  BY <1>3, <1>4, <1>5, <1>6, MovesInv

LEMMA ReadsKeyInv ==
  ASSUME ProfilesInv, NEW t \in Terminals, ReadsKey(t)
  PROVE  ProfilesInv'
PROOF
<1> DEFINE c == command[t]
<1>1. /\ Proper(c) /\ c \in Commands /\ c.at = "read" /\ t \in Active /\ c.do = "resolve" /\ c.name \in NamedProfiles
      /\ FilesStay /\ UNCHANGED overlapped /\ FileInv
  BY DEF ProfilesInv, FileInv, ReadsKey, Proper, Active, CommandOver
<1>2. PICK key : key = keys[c.name]
  OBVIOUS
<1>3. PICK at \in {"failed", "done"} : at = IF key = NoProfile THEN "failed" ELSE "done"
  OBVIOUS
<1>4. PICK r : r = [c EXCEPT !.at = at, !.got = key]
  OBVIOUS
<1>5. key \in Terminals \cup {NoProfile, Earlier}
  BY <1>1, <1>2 DEF FileInv
<1>6. /\ r.do = c.do /\ r.name = c.name /\ r.at = at /\ r.file = c.file /\ r.read = c.read /\ r.raw = c.raw /\ r.got = key
      /\ r \in Commands /\ r.at \in CommandOver
  BY <1>1, <1>4, <1>5 DEF Commands, CommandOver
<1>7. Proper(r)
  BY <1>1, <1>6 DEF Proper, Replacing, CommandOver
<1>8. Becomes(t, r)
  BY <1>2, <1>3, <1>4 DEF ReadsKey
<1>9. KeysInv /\ r.do = "resolve" /\ r.at = "done" => r.got = r.read.by[r.name]
  <2> SUFFICES ASSUME KeysInv, r.at = "done" PROVE key = c.read.by[c.name]
    BY <1>6
  <2>1. key # NoProfile
    BY <1>3, <1>6
  <2>2. c.read.by = config.by /\ c.name \in Known(config)
    BY <1>1 DEF KeysInv, IsCurrent
  <2> QED  BY <1>2, <2>1, <2>2 DEF KeysInv
<1>10. r.at # "idle" /\ r.at \notin Unnamed /\ r.do # "delete"
  BY <1>1, <1>6 DEF Unnamed
<1> QED  BY <1>1, <1>6, <1>7, <1>8, <1>9, <1>10, MovesInv

\* A step that touches no file and changes what the command has read.
LEMMA ReadsAgainInv ==
  ASSUME ProfilesInv, NEW t \in Active, NEW r, Proper(r), Becomes(t, r), FilesStay, UNCHANGED overlapped, GoesOn(t, r),
         r.do = command[t].do, r.do = "delete" => r.name = command[t].name, r.at = "open",
         KeysInv => IsCurrent(t, r)
  PROVE  ProfilesInv'
PROOF
<1>1. /\ FileInv /\ IsWhole(config) /\ t \in Terminals
      /\ keys \in [NamedProfiles -> Terminals \cup {NoProfile, Earlier}]
      /\ command[t].at \notin CommandOver /\ command[t].at # "idle"
  BY DEF ProfilesInv, FileInv, Active
<1>2. config' = config /\ keys' = keys /\ overlapped' = overlapped
  BY DEF FilesStay
<1>4. KeysInv /\ r.at \notin CommandOver => IsCurrent(t, r)'
  <2>1. IsCurrent(t, r) => IsCurrent(t, r)'
    BY <1>2 DEF IsCurrent, Known
  <2> QED  BY <2>1
<1>5. KeysInv => \A p \in Known(config') : keys'[p] = config'.by[p] \/
        (keys'[p] = NoProfile /\ (DeletesNow(r, p) \/ (BrokenOff(p) /\ ~DeletesNow(command[t], p))))
  <2> SUFFICES ASSUME KeysInv, NEW p \in Known(config), keys[p] # config.by[p]
               PROVE  keys[p] = NoProfile /\ (DeletesNow(r, p) \/ (BrokenOff(p) /\ ~DeletesNow(command[t], p)))
    BY <1>2
  <2>1. keys[p] = NoProfile /\ BrokenOff(p)
    BY DEF KeysInv
  <2> QED  BY <2>1 DEF DeletesNow
<1>6. overlapped' \in BOOLEAN /\ (~overlapped' => ~overlapped)
  BY <1>1, <1>2 DEF FileInv
<1>7. IsWhole(config') /\ \A p \in NamedProfiles : config'.by[p] = config.by[p] \/ config'.by[p] = command[t].read.by[p]
  BY <1>1, <1>2
<1> QED  BY <1>1, <1>2, <1>4, <1>5, <1>6, <1>7, GoesOnInv

LEMMA ProbesInv ==
  ASSUME ProfilesInv, NEW t \in Terminals, Probes(t)
  PROVE  ProfilesInv'
PROOF
<1> DEFINE c == command[t]
<1>1. /\ Proper(c) /\ c \in Commands /\ c.at = "probe" /\ t \in Active /\ c.do = "create" /\ c.file = "key"
      /\ FilesStay /\ UNCHANGED overlapped /\ FileInv /\ IsOwned(c.read) /\ c.raw = FALSE /\ IsWhole(c.read)
  BY DEF ProfilesInv, FileInv, Probes, Proper, Active, CommandOver, Commands
<1>2. PICK name : name = IF c.name = NoProfile THEN FreeName(t) ELSE c.name
  OBVIOUS
<1>3. PICK r : r = [c EXCEPT !.at = "open", !.name = name, !.read.by[name] = t, !.read.current = name]
  OBVIOUS
<1>4. /\ name \in NamedProfiles
      /\ KeysInv => c.read.by = config.by /\ name \notin Known(config)
  <2>1. FreeName(t) \in NamedProfiles /\ FreeName(t) \notin Known(c.read)
    BY <1>1, FreeNameIsFree
  <2>2. KeysInv => c.read.by = config.by /\ c.name \notin Known(config)
    BY <1>1 DEF KeysInv, IsCurrent
  <2>3. c.name \in NamedProfiles \cup {NoProfile}
    BY <1>1 DEF Commands
  <2> QED  BY <1>2, <2>1, <2>2, <2>3 DEF Known
<1>5. PICK read : read = [c.read EXCEPT !.by[name] = t, !.current = name]
  OBVIOUS
<1>6. /\ read \in FileSet /\ read.current = name
      /\ \A p \in NamedProfiles : read.by[p] = IF p = name THEN t ELSE c.read.by[p]
  BY <1>1, <1>4, <1>5 DEF IsWhole, FileSet
<1>7. IsWhole(read)
  BY <1>4, <1>6, ProfilesAssumption DEF IsWhole, Known
<1>8. /\ r.do = c.do /\ r.name = name /\ r.at = "open" /\ r.file = "key" /\ r.read = read /\ r.raw = FALSE
      /\ r \in Commands
  BY <1>1, <1>3, <1>4, <1>5, <1>6 DEF Commands
<1>9. Proper(r)
  BY <1>1, <1>4, <1>7, <1>8 DEF Proper, Replacing
<1>10. GoesOn(t, r)
  BY <1>1, <1>6, <1>8, ProfilesAssumption DEF GoesOn, IsOwned, MadeBy, Unnamed
<1>11. KeysInv => IsCurrent(t, r)
  BY <1>1, <1>4, <1>6, <1>8 DEF IsCurrent, Replacing
<1>12. Becomes(t, r)
  BY <1>2, <1>3 DEF Probes
<1> QED  BY <1>1, <1>8, <1>9, <1>10, <1>11, <1>12, ReadsAgainInv

LEMMA DropsProfileInv ==
  ASSUME ProfilesInv, NEW t \in Terminals, DropsProfile(t)
  PROVE  ProfilesInv'
PROOF
<1> DEFINE c == command[t]
<1>1. /\ Proper(c) /\ c \in Commands /\ c.at = "reload" /\ t \in Active /\ c.do = "delete" /\ c.name \in NamedProfiles
      /\ FilesStay /\ UNCHANGED overlapped /\ FileInv /\ IsOwned(config) /\ ~c.raw /\ IsWhole(config)
  BY DEF ProfilesInv, FileInv, DropsProfile, Proper, Active, CommandOver
<1>2. CASE c.name \in Known(config)
  <2>1. PICK read : read = WithoutProfile(config, c.name)
    OBVIOUS
  <2>2. PICK r : r = [c EXCEPT !.at = "open", !.file = "config", !.read = read]
    OBVIOUS
  <2>3. /\ read \in FileSet /\ read.current = IF config.current = c.name THEN NoProfile ELSE config.current
        /\ \A p \in NamedProfiles : read.by[p] = IF p = c.name THEN NoProfile ELSE config.by[p]
    BY <1>1, <2>1 DEF WithoutProfile, IsWhole, FileSet
  <2>4. IsWhole(read)
    BY <1>1, <2>3 DEF IsWhole, Known
  <2>5. /\ r.do = c.do /\ r.name = c.name /\ r.at = "open" /\ r.file = "config" /\ r.read = read /\ r.raw = c.raw
        /\ r \in Commands
    BY <1>1, <2>2, <2>3 DEF Commands
  <2>6. Proper(r)
    BY <1>1, <2>3, <2>4, <2>5 DEF Proper, Replacing
  <2>7. GoesOn(t, r)
    BY <1>1, <2>3, <2>5, ProfilesAssumption DEF GoesOn, IsOwned, Unnamed
  <2>8. IsCurrent(t, r)
    BY <1>1, <2>3, <2>5 DEF IsCurrent, Replacing
  <2>9. Becomes(t, r)
    BY <1>2, <2>1, <2>2 DEF DropsProfile
  <2> QED  BY <1>1, <2>5, <2>6, <2>7, <2>8, <2>9, ReadsAgainInv
<1>3. CASE c.name \notin Known(config)
  <2>1. PICK r : r = [c EXCEPT !.at = "done"]
    OBVIOUS
  <2>2. /\ r.do = c.do /\ r.name = c.name /\ r.at = "done" /\ r.file = c.file /\ r.read = c.read /\ r.raw = c.raw
        /\ r \in Commands
    BY <1>1, <2>1 DEF Commands, CommandOver
  <2>3. Proper(r)
    BY <1>1, <2>2 DEF Proper, Replacing
  <2>4. Becomes(t, r)
    BY <1>3, <2>1 DEF DropsProfile, Reaches
  <2>5. r.at # "idle" /\ r.at \in CommandOver /\ r.at \notin Unnamed /\ r.do # "resolve" /\ r.name \notin Known(config)
    BY <1>1, <1>3, <2>2 DEF CommandOver, Unnamed
  <2> QED  BY <1>1, <2>2, <2>3, <2>4, <2>5, MovesInv
<1> QED  BY <1>2, <1>3

LEMMA RemovesKeyInv ==
  ASSUME ProfilesInv, NEW t \in Terminals, RemovesKey(t)
  PROVE  ProfilesInv'
PROOF
<1> DEFINE c == command[t]
<1>1. /\ Proper(c) /\ c \in Commands /\ c.at = "rm" /\ t \in Active /\ c.do = "delete" /\ c.name \in NamedProfiles
      /\ FileInv /\ IsOwned(c.read) /\ ~c.raw /\ IsWhole(config)
      /\ keys \in [NamedProfiles -> Terminals \cup {NoProfile, Earlier}] /\ overlapped \in BOOLEAN
      /\ config' = config /\ overlapped' = overlapped /\ keys' = [keys EXCEPT ![c.name] = NoProfile]
  BY DEF ProfilesInv, FileInv, RemovesKey, Proper, Active, CommandOver
<1>2. PICK r : r = [c EXCEPT !.at = "reload"]
  OBVIOUS
<1>3. /\ r.do = c.do /\ r.name = c.name /\ r.at = "reload" /\ r.file = c.file /\ r.read = c.read /\ r.raw = c.raw
      /\ r \in Commands
  BY <1>1, <1>2 DEF Commands
<1>4. Proper(r)
  BY <1>1, <1>3 DEF Proper, Replacing
<1>5. Becomes(t, r)
  BY <1>2 DEF RemovesKey, Reaches
<1>6. GoesOn(t, r)
  BY <1>1, <1>3 DEF GoesOn, IsOwned, Unnamed
<1>7. IsCurrent(t, r)'
  BY <1>3 DEF IsCurrent, Replacing
<1>8. keys' \in [NamedProfiles -> Terminals \cup {NoProfile, Earlier}]
  BY <1>1
<1>9. KeysInv => \A p \in Known(config') : keys'[p] = config'.by[p] \/
        (keys'[p] = NoProfile /\ (DeletesNow(r, p) \/ (BrokenOff(p) /\ ~DeletesNow(command[t], p))))
  <2> SUFFICES ASSUME KeysInv, NEW p \in Known(config), keys'[p] # config.by[p]
               PROVE  keys'[p] = NoProfile /\ (DeletesNow(r, p) \/ (BrokenOff(p) /\ ~DeletesNow(command[t], p)))
    BY <1>1
  <2>1. p \in NamedProfiles
    BY DEF Known
  <2>2. CASE p = c.name
    BY <1>1, <1>3, <2>1, <2>2 DEF DeletesNow
  <2>3. CASE p # c.name
    <3>1. keys'[p] = keys[p]
      BY <1>1, <2>1, <2>3
    <3> QED  BY <3>1, <2>3 DEF KeysInv, DeletesNow
  <2> QED  BY <2>2, <2>3
<1>10. c.at \notin CommandOver /\ c.at # "idle" /\ r.do # "resolve"
  BY <1>1 , <1>3 DEF CommandOver
<1>11. \A p \in NamedProfiles : config'.by[p] = config.by[p] \/ config'.by[p] = command[t].read.by[p]
  BY <1>1
<1>12. IsWhole(config') /\ overlapped' \in BOOLEAN /\ (~overlapped' => ~overlapped)
  BY <1>1
<1> QED  BY <1>1, <1>4, <1>5, <1>6, <1>7, <1>8, <1>9, <1>10, <1>11, <1>12, GoesOnInv

\* What NextStep makes of a command.
LEMMA NextStepIs ==
  ASSUME FileInv, NEW t \in Terminals, command[t].at \in Replacing, NextStep(t)
  PROVE  \E r : /\ Proper(r) /\ Becomes(t, r) /\ GoesOn(t, r)
                /\ r.do = command[t].do /\ r.name = command[t].name /\ r.read = command[t].read
                /\ command[t].at \in {"open", "write"} =>
                     r.at \in {"write", "rename"} /\ r.file = command[t].file
                /\ command[t].at = "rename" /\ command[t].file = "key" => r.at = "open" /\ r.file = "config"
                /\ command[t].at = "rename" /\ command[t].file # "key" => r.at = "done"
PROOF
<1> DEFINE c == command[t]
<1>1. /\ Proper(c) /\ c \in Commands /\ IsOwned(c.read) /\ ~c.raw
      /\ c.at \in {"open", "write", "rename"} /\ c.at \notin Unnamed
  BY DEF FileInv, Proper, Replacing, Unnamed
<1>2. \E at \in {"write", "rename", "open", "done"}, file \in {"key", "config"} :
        /\ Becomes(t, [c EXCEPT !.at = at, !.file = file])
        /\ c.at \in {"open", "write"} => at \in {"write", "rename"} /\ file = c.file
        /\ c.at = "rename" /\ c.file = "key" => at = "open" /\ file = "config"
        /\ c.at = "rename" /\ c.file # "key" => at = "done" /\ file = c.file
  <2>1. c.file \in {"key", "config"}
    BY <1>1 DEF Commands
  <2>2. ASSUME NEW at \in {"write", "rename", "done"}, Reaches(t, at)
        PROVE  Becomes(t, [c EXCEPT !.at = at, !.file = c.file])
    <3>1. [c EXCEPT !.at = at] = [c EXCEPT !.at = at, !.file = c.file]
      BY <1>1 DEF Commands
    <3> QED  BY <2>2, <3>1 DEF Reaches
  <2>3. CASE c.at = "open" /\ Reaches(t, "write")
    BY <2>1, <2>2, <2>3
  <2>4. CASE c.at = "write" /\ Reaches(t, "rename")
    BY <2>1, <2>2, <2>4
  <2>5. CASE c.at = "rename" /\ c.file = "key" /\ Becomes(t, [c EXCEPT !.at = "open", !.file = "config"])
    BY <2>5
  <2>6. CASE c.at = "rename" /\ c.file = "config" /\ Reaches(t, "done")
    BY <2>1, <2>2, <2>6
  <2> QED  BY <2>3, <2>4, <2>5, <2>6 DEF NextStep
<1>3. PICK at \in {"write", "rename", "open", "done"}, file \in {"key", "config"} :
        /\ Becomes(t, [c EXCEPT !.at = at, !.file = file])
        /\ c.at \in {"open", "write"} => at \in {"write", "rename"} /\ file = c.file
        /\ c.at = "rename" /\ c.file = "key" => at = "open" /\ file = "config"
        /\ c.at = "rename" /\ c.file # "key" => at = "done" /\ file = c.file
  BY <1>2
<1>4. PICK r : r = [c EXCEPT !.at = at, !.file = file]
  OBVIOUS
<1>5. /\ r.do = c.do /\ r.name = c.name /\ r.at = at /\ r.file = file /\ r.read = c.read /\ r.raw = c.raw
      /\ r \in Commands
  BY <1>1, <1>4 DEF Commands, CommandOver
<1>6. Proper(r)
  BY <1>1, <1>3, <1>5 DEF Proper, Replacing
<1>7. GoesOn(t, r)
  BY <1>1, <1>5 DEF GoesOn, IsOwned, Unnamed
<1>8. Becomes(t, r)
  BY <1>3, <1>4
<1> QED  BY <1>3, <1>5, <1>6, <1>7, <1>8

LEMMA WritesKeyInv ==
  ASSUME ProfilesInv, NEW t \in Terminals, WritesKey(t)
  PROVE  ProfilesInv'
PROOF
<1> DEFINE c == command[t]
<1>1. /\ FileInv /\ NextStep(t) /\ c.at \in Replacing /\ c.file = "key" /\ t \in Active
      /\ c.do = "create" /\ c.name \in NamedProfiles /\ c.at \notin CommandOver /\ c.at # "idle"
      /\ IsWhole(config) /\ keys \in [NamedProfiles -> Terminals \cup {NoProfile, Earlier}] /\ overlapped \in BOOLEAN
      /\ config' = config /\ overlapped' = overlapped
      /\ keys' = [keys EXCEPT ![c.name] = IF c.at = "rename" THEN t ELSE @]
  BY DEF ProfilesInv, FileInv, WritesKey, Writing, Proper, Active, CommandOver, Replacing, Visible
<1>2. PICK r : /\ Proper(r) /\ Becomes(t, r) /\ GoesOn(t, r)
               /\ r.do = c.do /\ r.name = c.name /\ r.read = c.read
               /\ c.at \in {"open", "write"} => r.at \in {"write", "rename"} /\ r.file = c.file
               /\ c.at = "rename" /\ c.file = "key" => r.at = "open" /\ r.file = "config"
               /\ c.at = "rename" /\ c.file # "key" => r.at = "done"
  BY <1>1, NextStepIs, Zenon
<1>3. \A p \in NamedProfiles : keys'[p] = IF p = c.name /\ c.at = "rename" THEN t ELSE keys[p]
  BY <1>1
<1>4. keys' \in [NamedProfiles -> Terminals \cup {NoProfile, Earlier}]
  BY <1>1
<1>5. KeysInv => IsCurrent(t, c)
  BY <1>1 DEF KeysInv
<1>6. KeysInv /\ r.at \notin CommandOver => IsCurrent(t, r)'
  <2> SUFFICES ASSUME KeysInv PROVE IsCurrent(t, r)'
    OBVIOUS
  <2>1. r.at \in Replacing
    BY <1>1, <1>2 DEF Replacing
  <2>2. /\ \A q \in NamedProfiles : q # c.name => c.read.by[q] = config.by[q]
        /\ c.read.by[c.name] = t /\ c.name \notin Known(config)
    BY <1>1, <1>5 DEF IsCurrent
  <2>3. r.file = "config" => keys'[c.name] = t
    BY <1>1, <1>2, <1>3 DEF Replacing
  <2>4. Known(config)' = Known(config)
    BY <1>1 DEF Known
  <2> QED  BY <1>1, <1>2, <2>1, <2>2, <2>3, <2>4 DEF IsCurrent, Replacing
<1>7. KeysInv => \A p \in Known(config') : keys'[p] = config'.by[p] \/
        (keys'[p] = NoProfile /\ (DeletesNow(r, p) \/ (BrokenOff(p) /\ ~DeletesNow(command[t], p))))
  <2> SUFFICES ASSUME KeysInv, NEW p \in Known(config), keys'[p] # config.by[p]
               PROVE  keys'[p] = NoProfile /\ (DeletesNow(r, p) \/ (BrokenOff(p) /\ ~DeletesNow(command[t], p)))
    BY <1>1
  <2>1. p \in NamedProfiles /\ p # c.name
    BY <1>1, <1>5 DEF Known, IsCurrent
  <2>2. keys'[p] = keys[p]
    BY <1>3, <2>1
  <2> QED  BY <2>1, <2>2 DEF KeysInv, DeletesNow
<1>8. \A p \in NamedProfiles : config'.by[p] = config.by[p] \/ config'.by[p] = command[t].read.by[p]
  BY <1>1
<1>9. IsWhole(config') /\ overlapped' \in BOOLEAN /\ (~overlapped' => ~overlapped) /\ r.do # "resolve"
  BY <1>1, <1>2
<1> QED  BY <1>1, <1>2, <1>4, <1>6, <1>7, <1>8, <1>9, GoesOnInv

LEMMA SavesProfilesInv ==
  ASSUME ProfilesInv, NEW t \in Terminals, SavesProfiles(t)
  PROVE  ProfilesInv'
PROOF
<1> DEFINE c == command[t]
<1>1. /\ FileInv /\ NextStep(t) /\ c.at \in Replacing /\ c.file = "config" /\ t \in Active
      /\ c.do \in {"create", "use", "delete"} /\ c.name \in NamedProfiles /\ c.at \notin CommandOver /\ c.at # "idle"
      /\ c.do = "delete" => c.read.by[c.name] = NoProfile
      /\ IsWhole(config) /\ IsWhole(c.read)
      /\ keys \in [NamedProfiles -> Terminals \cup {NoProfile, Earlier}] /\ overlapped \in BOOLEAN
      /\ keys' = keys /\ overlapped' = overlapped
      /\ config' = IF c.at = "rename" THEN c.read ELSE config
  BY DEF ProfilesInv, FileInv, SavesProfiles, Writing, Proper, Active, CommandOver, Replacing, Visible
<1>2. PICK r : /\ Proper(r) /\ Becomes(t, r) /\ GoesOn(t, r)
               /\ r.do = c.do /\ r.name = c.name /\ r.read = c.read
               /\ c.at \in {"open", "write"} => r.at \in {"write", "rename"} /\ r.file = c.file
               /\ c.at = "rename" /\ c.file = "key" => r.at = "open" /\ r.file = "config"
               /\ c.at = "rename" /\ c.file # "key" => r.at = "done"
  BY <1>1, NextStepIs, Zenon
<1>3. KeysInv => IsCurrent(t, c)
  BY <1>1 DEF KeysInv
<1>4. KeysInv /\ r.at \notin CommandOver => IsCurrent(t, r)'
  <2> SUFFICES ASSUME KeysInv, r.at \notin CommandOver PROVE IsCurrent(t, r)'
    OBVIOUS
  <2>1. /\ c.at # "rename" /\ r.at \in {"write", "rename"} /\ r.file = c.file /\ config' = config
    BY <1>1, <1>2 DEF Replacing, CommandOver
  <2>2. IsCurrent(t, r)
    BY <1>1, <1>2, <1>3, <2>1 DEF IsCurrent, Replacing
  <2>3. Known(config)' = Known(config)
    BY <2>1 DEF Known
  <2> QED  BY <1>1, <2>1, <2>2, <2>3 DEF IsCurrent
<1>5. KeysInv => \A p \in Known(config') : keys'[p] = config'.by[p] \/
        (keys'[p] = NoProfile /\ (DeletesNow(r, p) \/ (BrokenOff(p) /\ ~DeletesNow(command[t], p))))
  <2> SUFFICES ASSUME KeysInv, NEW p \in Known(config'), keys[p] # config'.by[p]
               PROVE  keys[p] = NoProfile /\ (DeletesNow(r, p) \/ (BrokenOff(p) /\ ~DeletesNow(command[t], p)))
    BY <1>1
  <2>1. CASE c.at # "rename"
    <3>1. config' = config /\ r.at # "done"
      BY <1>1, <1>2, <2>1 DEF Replacing
    <3> QED  BY <1>2, <3>1 DEF KeysInv, DeletesNow
  <2>2. CASE c.at = "rename"
    <3>1. config' = c.read
      BY <1>1, <2>2
    <3>2. p \in NamedProfiles /\ c.read.by[p] # NoProfile /\ keys[p] # c.read.by[p]
      BY <3>1 DEF Known
    <3>3. ~DeletesNow(c, p)
      BY <1>1, <3>2 DEF DeletesNow
    <3>4. c.read.by[p] = config.by[p]
      BY <1>1, <1>3, <3>2 DEF IsCurrent
    <3>5. p \in Known(config) /\ keys[p] # config.by[p]
      BY <3>2, <3>4 DEF Known
    <3> QED  BY <3>3, <3>5 DEF KeysInv
  <2> QED  BY <2>1, <2>2
<1>6. \A p \in NamedProfiles : config'.by[p] = config.by[p] \/ config'.by[p] = command[t].read.by[p]
  BY <1>1
<1>7. IsWhole(config') /\ overlapped' \in BOOLEAN /\ (~overlapped' => ~overlapped) /\ r.do # "resolve"
  BY <1>1, <1>2
<1>8. keys' \in [NamedProfiles -> Terminals \cup {NoProfile, Earlier}]
  BY <1>1
<1> QED  BY <1>1, <1>2, <1>4, <1>5, <1>6, <1>7, <1>8, GoesOnInv

-----------------------------------------------------------------------------
LEMMA ProfilesInitInv == ProfilesInit => ProfilesInv
PROOF
<1> SUFFICES ASSUME ProfilesInit PROVE ProfilesInv
  OBVIOUS
<1>1. ProfileNames[1] \in NamedProfiles
  <2>1. Cardinality(Terminals) \in Nat
    BY ProfilesAssumption, FS_CardinalityType
  <2>2. DOMAIN ProfileNames = 1..Len(ProfileNames) /\ Len(ProfileNames) \in Nat
    BY NamesAssumption
  <2> QED  BY <2>1, <2>2, NamesAssumption DEF NamedProfiles
<1>2. IsWhole(config) /\ IsOwned(config)
  <2>1. CASE config = EmptyConfig
    BY <2>1, EmptyIsWhole, ProfilesAssumption DEF IsOwned
  <2>2. CASE config = [EmptyConfig EXCEPT !.by[ProfileNames[1]] = Earlier, !.current = ProfileNames[1]]
    <3>1. PICK first : first = ProfileNames[1]
      OBVIOUS
    <3>2. /\ config \in FileSet /\ config.current = first
          /\ \A p \in NamedProfiles : config.by[p] = IF p = first THEN Earlier ELSE NoProfile
      BY <1>1, <2>2, <3>1 DEF EmptyConfig, FileSet
    <3> QED  BY <1>1, <3>1, <3>2, ProfilesAssumption DEF IsWhole, IsOwned, Known
  <2> QED  BY <2>1, <2>2 DEF ProfilesInit
<1>3. /\ command \in [Terminals -> Commands] /\ \A t \in Terminals : command[t] = NoCommand
      /\ keys = config.by /\ overlapped = FALSE
  <2>1. NoCommand \in Commands
    BY EmptyIsWhole DEF NoCommand, Commands, IsWhole
  <2> QED  BY <2>1 DEF ProfilesInit
<1>4. Proper(NoCommand) /\ IsOwned(NoCommand.read)
  <2>1. /\ NoCommand \in Commands /\ NoCommand.at = "idle" /\ NoCommand.do = "none" /\ NoCommand.read = EmptyConfig
        /\ NoCommand.raw = FALSE
    BY EmptyIsWhole DEF NoCommand, Commands, IsWhole
  <2> QED  BY <2>1, EmptyIsWhole, ProfilesAssumption DEF Proper, Replacing, IsOwned
<1>5. keys \in [NamedProfiles -> Terminals \cup {NoProfile, Earlier}]
  BY <1>2, <1>3 DEF IsWhole, FileSet
<1>6. FileInv
  BY <1>2, <1>3, <1>4, <1>5 DEF FileInv
<1>7. \A t \in Terminals : command[t].at = "idle" /\ command[t].do = "none"
  BY <1>3 DEF NoCommand
<1>8. KeysInv
  BY <1>3, <1>7 DEF KeysInv, Active
<1> QED  BY <1>6, <1>8 DEF ProfilesInv

LEMMA ProfilesNextInv == ProfilesInv /\ [ProfilesNext]_profileVars => ProfilesInv'
PROOF
<1> SUFFICES ASSUME ProfilesInv, [ProfilesNext]_profileVars PROVE ProfilesInv'
  OBVIOUS
<1>1. CASE UNCHANGED profileVars
  <2>1. config' = config /\ keys' = keys /\ command' = command /\ overlapped' = overlapped
    BY <1>1 DEF profileVars
  <2>2. FileInv => FileInv'
    BY <2>1 DEF FileInv, IsWhole, IsOwned, MadeBy, Known
  <2>3. Active' = Active /\ Known(config)' = Known(config) /\ \A p : BrokenOff(p)' <=> BrokenOff(p)
    BY <2>1 DEF Active, Known, BrokenOff
  <2>4. ASSUME NEW t \in Terminals, IsCurrent(t, command[t]) PROVE IsCurrent(t, command[t])'
    BY <2>1, <2>3, <2>4 DEF IsCurrent
  <2>5. KeysInv => KeysInv'
    BY <2>1, <2>3, <2>4 DEF KeysInv, Active
  <2> QED  BY <2>1, <2>2, <2>5 DEF ProfilesInv
<1>2. ASSUME NEW t \in Terminals, NEW name \in NamedProfiles \cup {NoProfile}, Creates(t, name) PROVE ProfilesInv'
  BY <1>2, CreatesInv
<1>3. ASSUME NEW t \in Terminals, NEW name \in NamedProfiles, Uses(t, name) \/ Deletes(t, name) \/ Resolves(t, name)
      PROVE  ProfilesInv'
  BY <1>3, UsesInv, DeletesInv, ResolvesInv
<1>4. ASSUME NEW t \in Terminals,
             \/ Types(t) \/ Probes(t) \/ WritesKey(t) \/ SavesProfiles(t) \/ RemovesKey(t) \/ DropsProfile(t) \/ ReadsKey(t)
      PROVE  ProfilesInv'
  BY <1>4, TypesInv, ProbesInv, WritesKeyInv, SavesProfilesInv, RemovesKeyInv, DropsProfileInv, ReadsKeyInv
<1>5. ASSUME NEW t \in Terminals, CommandThrows(t) PROVE ProfilesInv'
  BY <1>5, StopsInv DEF CommandThrows
<1>6. ASSUME NEW t \in Terminals, CommandKilled(t) PROVE ProfilesInv'
  BY <1>6, StopsInv DEF CommandKilled
<1> QED  BY <1>1, <1>2, <1>3, <1>4, <1>5, <1>6 DEF ProfilesNext

\* The profile files are whole and the current profile is in the list, whatever
\* is killed and however commands overlap; while none have overlapped, keys
\* belong to their profiles and a command gets the key of the profile it read;
\* a prompt that is over has left the terminal as it was.
THEOREM ProfilesStayUsable == ProfilesSpec => []ProfilesAreUsable
PROOF
<1>1. ProfilesInv => ProfilesAreUsable
  <2> SUFFICES ASSUME ProfilesInv PROVE ProfilesAreUsable
    OBVIOUS
  <2>1. FilesAreWhole
    BY ProfilesAssumption DEF ProfilesInv, FileInv, IsWhole, FileSet, FilesAreWhole
  <2>2. KeysMatch
    BY DEF ProfilesInv, KeysInv, KeysMatch
  <2>3. TerminalIsRestored
    BY DEF ProfilesInv, FileInv, Proper, TerminalIsRestored
  <2> QED  BY <2>1, <2>2, <2>3 DEF ProfilesAreUsable
<1>2. ProfilesSpec => []ProfilesInv
  BY ProfilesInitInv, ProfilesNextInv, PTL DEF ProfilesSpec
<1> QED  BY <1>1, <1>2, PTL

-----------------------------------------------------------------------------
(* The components together. *)

\* A behaviour of the composition is one of each component: what one of them
\* does leaves the variables of the others alone, also where they share a client
\* or a terminal.
THEOREM CallsAreIndependent ==
  Spec => SqlSpec /\ ApiSpec /\ PoolSpec /\ BuildSpec /\ ShellSpec /\ ProfilesSpec
PROOF
<1> DEFINE all == <<subject, sqlVars, apiVars, poolVars, buildVars, shellVars, profileVars>>
<1>1. Init => SqlInit /\ ApiInit /\ PoolInit /\ BuildInit /\ ShellInit /\ ProfilesInit
  BY DEF Init
<1>2. [Next]_all => /\ [SqlNext]_sqlVars /\ [ApiNext]_apiVars /\ [PoolNext]_poolVars
                    /\ [BuildNext]_buildVars /\ [ShellNext]_shellVars /\ [ProfilesNext]_profileVars
  BY DEF Next, SqliteAlone, RequestsAlone, PoolAlone, BuildAlone, ShellAlone, ProfilesAlone
<1> QED  BY <1>1, <1>2, PTL DEF Spec, SqlSpec, ApiSpec, PoolSpec, BuildSpec, ShellSpec, ProfilesSpec

\* Every component of a client call keeps the types of its variables, for any
\* operations, calls, transports, images, terminals and names.
THEOREM CallsTypes == Spec => []CallsTypeOK
PROOF
<1>1. PoolSpec => []PoolInv
  BY InitPoolInv, NextPoolInv, PTL DEF PoolSpec
<1>2. BuildSpec => []BuildInv
  BY InitBuildInv, NextBuildInv, PTL DEF BuildSpec
<1>3. ShellSpec => []ShellInv
  BY InitShellInv, NextShellInv, PTL DEF ShellSpec
<1>4. ProfilesSpec => []ProfilesInv
  BY ProfilesInitInv, ProfilesNextInv, PTL DEF ProfilesSpec
<1>5. ProfilesInv => ProfilesTypeOK
  <2> SUFFICES ASSUME FileInv PROVE ProfilesTypeOK
    BY DEF ProfilesInv
  <2>1. config \in FileSet /\ overlapped \in BOOLEAN
    BY DEF FileInv, IsWhole
  <2>2. \A p \in NamedProfiles : config.by[p] \in Terminals \cup {NoProfile, Earlier}
    BY <2>1 DEF FileSet
  <2>3. \A p \in NamedProfiles : keys[p] \in Terminals \cup {NoProfile, Earlier, "torn"}
    BY DEF FileInv
  <2>4. \A t \in Terminals : command[t] \in Commands
    BY DEF FileInv
  <2>5. ASSUME NEW t \in Terminals
        PROVE  /\ command[t].name \in NamedProfiles \cup {NoProfile}
               /\ command[t].at \in CommandOver \cup {"idle", "prompt", "probe", "open", "write", "rename", "rm", "reload", "read"}
               /\ command[t].typed \in {"empty", "valid", "invalid"}
    <3>1. PICK c \in Commands : c = command[t]
      BY <2>4
    <3> QED  BY <3>1 DEF Commands
  <2>6. config.current \in NamedProfiles \cup {NoProfile} /\ config.whole \in BOOLEAN
    BY <2>1 DEF FileSet
  <2> QED  BY <2>1, <2>2, <2>3, <2>5, <2>6 DEF ProfilesTypeOK
<1>6. (PoolInv => PoolTypeOK) /\ (BuildInv => BuildTypeOK) /\ (ShellInv => ShellTypeOK)
  BY DEF PoolInv, BuildInv, ShellInv
<1>7. SqlTypeOK /\ ApiTypeOK /\ PoolInv /\ BuildInv /\ ShellInv /\ ProfilesInv => CallsTypeOK
  BY <1>5, <1>6 DEF CallsTypeOK
<1> QED  BY <1>1, <1>2, <1>3, <1>4, <1>7, CallsAreIndependent, SqlTypes, ApiTypes, PTL
=============================================================================
