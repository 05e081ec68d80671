-------------------------------- MODULE HttpPool --------------------------------
(***************************************************************************)
(* The shared control-plane clients of the Python SDK                      *)
(* (python/archil/_http.py): transports with the same event loop, origin   *)
(* and credential use one HTTP client, which counts them and is closed     *)
(* when the last one leaves.  Loops run in threads of their own; the table *)
(* is read and written under one lock, and closing a client is awaited     *)
(* after the lock is released.  A transport may be closed twice, and used  *)
(* again while it is being closed.                                         *)
(***************************************************************************)
EXTENDS Naturals, FiniteSets

CONSTANTS
  Transports,  \* _Transport objects
  PoolKeys,    \* event loop, origin and credential
  Clients,     \* AsyncClient objects that are ever made
  NoClient

ASSUME PoolAssumption == NoClient \notin Clients /\ IsFiniteSet(Transports)

VARIABLES
  keyOf,      \* what a transport's client is looked up by
  pool,       \* _shared_cp_clients
  references, \* _SharedClientEntry.references
  cp,         \* _cp and _cp_pool_handle of each transport
  closing,    \* calls of aclose() that wait for a client to close
  closed      \* clients that are closed

poolVars == <<keyOf, pool, references, cp, closing, closed>>

PoolTypeOK ==
  /\ keyOf \in [Transports -> PoolKeys]
  /\ pool \in [PoolKeys -> Clients \cup {NoClient}]
  /\ references \in [Clients -> Nat]
  /\ cp \in [Transports -> Clients \cup {NoClient}]
  /\ closing \subseteq Transports \X Clients
  /\ closed \subseteq Clients

PoolInit ==
  /\ keyOf \in [Transports -> PoolKeys]
  /\ pool = [k \in PoolKeys |-> NoClient] /\ references = [x \in Clients |-> 0]
  /\ cp = [t \in Transports |-> NoClient] /\ closing = {} /\ closed = {}

Unusable(x) == x \in closed \/ \E t \in Transports : <<t, x>> \in closing
Holders(x) == {t \in Transports : cp[t] = x /\ <<t, x>> \notin closing}

\* A client that nobody has had.
New(x) == references[x] = 0 /\ ~Unusable(x) /\ (\A k \in PoolKeys : pool[k] # x) /\ (\A t \in Transports : cp[t] # x)

\* A transport gets its client with its first request, and keeps it.
HasNoClient(t) == cp[t] = NoClient

Acquire(t, x) ==
  /\ HasNoClient(t)
  /\ x = pool[keyOf[t]] \/ (pool[keyOf[t]] = NoClient /\ New(x))
  /\ pool' = [pool EXCEPT ![keyOf[t]] = x]
  /\ references' = [references EXCEPT ![x] = @ + 1]
  /\ cp' = [cp EXCEPT ![t] = x]
  /\ UNCHANGED <<keyOf, closing, closed>>

\* aclose() and the locked part of _release_shared_cp_client: the transport
\* leaves, and the last one takes the client out of the table before it is
\* closed.
Without_WhenClosed(k) == pool
Without(k) == [pool EXCEPT ![k] = NoClient]

LeaveOthers(t) ==
  /\ pool[keyOf[t]] = cp[t] /\ references[cp[t]] # 1
  /\ references' = [references EXCEPT ![cp[t]] = @ - 1]
  /\ cp' = [cp EXCEPT ![t] = NoClient]
  /\ UNCHANGED <<pool, closing>>

LeaveLast(t) ==
  /\ pool[keyOf[t]] = cp[t] /\ references[cp[t]] = 1
  /\ references' = [references EXCEPT ![cp[t]] = 0]
  /\ pool' = Without(keyOf[t])
  /\ closing' = closing \cup {<<t, cp[t]>>}
  /\ UNCHANGED cp

\* Its client is no longer in the table: the transport just forgets it.
LeaveClosing(t) ==
  /\ pool[keyOf[t]] # cp[t]
  /\ cp' = [cp EXCEPT ![t] = NoClient]
  /\ UNCHANGED <<pool, references, closing>>

Release(t) ==
  /\ cp[t] # NoClient
  /\ LeaveOthers(t) \/ LeaveLast(t) \/ LeaveClosing(t)
  /\ UNCHANGED <<keyOf, closed>>

\* The rest of aclose(), which forgets whatever client the transport has now.
Closes(t, x) ==
  /\ <<t, x>> \in closing
  /\ closing' = closing \ {<<t, x>>} /\ closed' = closed \cup {x}
  /\ cp' = [cp EXCEPT ![t] = NoClient]
  /\ UNCHANGED <<keyOf, pool, references>>

PoolNext ==
  \E t \in Transports :
    \/ Release(t)
    \/ \E x \in Clients : Acquire(t, x) \/ Closes(t, x)

PoolSpec == PoolInit /\ [][PoolNext]_poolVars

\* A transport that has not been closed never holds a client that is closed or
\* being closed, whichever transports join and leave meanwhile.
OpenForItsHolders ==
  \A t \in Transports : cp[t] \in Clients /\ t \in Holders(cp[t]) => ~Unusable(cp[t])

=============================================================================
