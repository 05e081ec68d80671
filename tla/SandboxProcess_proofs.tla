------------------------ MODULE SandboxProcess_proofs -------------------------
(***************************************************************************)
(* Proofs about SandboxProcess, for every set of handles, every output log *)
(* and every bound.                                                        *)
(***************************************************************************)
EXTENDS SandboxProcess, TLAPS

-----------------------------------------------------------------------------
(* Types. *)

\* The initial state is well typed.
LEMMA InitTypeOK == Init => TypeOK
  BY HandlesAssumption, RetriesAssumption
  DEF Init, TypeOK, NoResult, Streams, Offsets, NBytes, Messages

\* An event without offsets, an output frame and an exit are messages.
LEMMA MessageTyping ==
  /\ \A type \in MessageTypes \ {"output"} : Event(type) \in Messages
  /\ \A lo \in Nat, hi \in Offsets :
       lo < hi /\ (\A o \in lo..(hi - 1) : StreamOf(o) = StreamOf(lo))
         => OutputFrame(lo, hi) \in Messages
  /\ \A at \in Nat : ExitEvent(at) \in Messages
<1> USE DEF Messages, MessageTypes
<1>1. \A type \in MessageTypes \ {"output"} : Event(type) \in Messages
  BY DEF Event
<1>2. ASSUME NEW lo \in Nat, NEW hi \in Offsets, lo < hi,
             \A o \in lo..(hi - 1) : StreamOf(o) = StreamOf(lo)
      PROVE  OutputFrame(lo, hi) \in Messages
  BY <1>2, LogAssumption DEF OutputFrame, Offsets, NBytes
<1>3. \A at \in Nat : ExitEvent(at) \in Messages
  BY DEF ExitEvent
<1>4. QED
  BY <1>1, <1>2, <1>3

\* Receiving takes the first message off the wire.
LEMMA ReceiveTyping ==
  ASSUME TypeOK, NEW h \in Handles, NEW types, Receives(h, types)
  PROVE  /\ wire' \in [Handles -> Seq(Messages)]
         /\ Head(wire[h]) \in Messages
  BY DEF TypeOK, Receives

\* Opening a connection keeps the types.
LEMMA OpeningTypeOK ==
  ASSUME TypeOK, NEW h \in Handles, Opening(h)
  PROVE  TypeOK'
<1>1. ASSUME NEW g \in Handles \cup {NoHandle}, Attach(h, g) PROVE TypeOK'
  <2>1. begin' \in [Handles -> Nat]
    <3>1. PICK from \in Nat : begin' = [begin EXCEPT ![h] = from]
      BY <1>1 DEF TypeOK, Attach
    <3>2. QED
      BY <3>1 DEF TypeOK
  <2>2. cursor' \in [Handles -> Nat]
    BY <1>1, <2>1 DEF TypeOK, Attach
  <2>3. sock' \in [Handles -> {"idle", "dialing", "open", "closing", "closed"}]
    BY <1>1 DEF TypeOK, Attach
  <2>4. resumed' \in [Handles -> Handles \cup {NoHandle}]
    BY <1>1 DEF TypeOK, Attach
  <2>5. QED
    BY <1>1, <2>1, <2>2, <2>3, <2>4 DEF TypeOK, Attach, rtVars
<1>2. CASE EndpointFails(h)
  BY <1>2 DEF TypeOK, EndpointFails, rtVars, outVars
<1>3. CASE DialFails(h)
  <2>1. tries' \in [Handles -> 0..MaxRetries]
    <3>1. tries[h] \in 0..MaxRetries
      BY DEF TypeOK
    <3>2. CASE MayDialAgain(h)
      <4>1. tries[h] + 1 \in 0..MaxRetries
        BY <3>1, <3>2, RetriesAssumption DEF MayDialAgain
      <4>2. QED
        BY <1>3, <3>2, <4>1 DEF TypeOK, DialFails
    <3>3. CASE ~MayDialAgain(h)
      BY <1>3, <3>3 DEF TypeOK, DialFails
    <3>4. QED
      BY <3>2, <3>3
  <2>2. /\ sock' \in [Handles -> {"idle", "dialing", "open", "closing", "closed"}]
        /\ ready' \in [Handles -> {"pending", "ok", "failed"}]
    BY <1>3 DEF TypeOK, DialFails
  <2>3. QED
    BY <1>3, <2>1, <2>2 DEF TypeOK, DialFails, rtVars, outVars
<1>4. CASE DialOpens(h)
  BY <1>4 DEF TypeOK, DialOpens, outVars
<1>5. QED
  BY <1>1, <1>2, <1>3, <1>4 DEF Opening

\* The runtime's steps keep the types.
LEMMA RuntimeTypeOK ==
  ASSUME TypeOK, NEW h \in Handles, Runtime(h)
  PROVE  TypeOK'
<1>1. ASSUME NEW from \in Offsets, AcceptAttach(h, from) PROVE TypeOK'
  <2>1. wire' \in [Handles -> Seq(Messages)]
    BY <1>1, MessageTyping DEF TypeOK, AcceptAttach, MessageTypes
  <2>2. /\ peer' \in [Handles -> {"none", "requested", "serving", "gone", "lost"}]
        /\ owner' \in Handles \cup {NoHandle}
    BY <1>1 DEF TypeOK, AcceptAttach
  <2>3. missed' \in [Handles -> SUBSET Offsets] /\ sent' \in [Handles -> Nat]
    BY <1>1 DEF TypeOK, AcceptAttach, Offsets, NBytes
  <2>4. QED
    BY <1>1, <2>1, <2>2, <2>3 DEF TypeOK, AcceptAttach, connVars, outVars
<1>2. CASE Refuse(h)
  <2>1. wire' \in [Handles -> Seq(Messages)]
    BY <1>2, MessageTyping DEF TypeOK, Refuse, Send, MessageTypes
  <2>2. QED
    BY <1>2, <2>1 DEF TypeOK, Refuse, connVars, outVars
<1>3. ASSUME NEW hi \in Offsets, SendOutput(h, hi) PROVE TypeOK'
  <2>1. /\ Larger(sent[h], base) \in Nat /\ hi \in Nat
    BY <1>3, LogAssumption DEF TypeOK, Larger, Offsets, NBytes
  <2> DEFINE lo == Larger(sent[h], base)
  <2>2. wire' \in [Handles -> Seq(Messages)]
    <3>1. OutputFrame(lo, hi) \in Messages
      BY <1>3, <2>1, MessageTyping DEF SendOutput
    <3>2. wire' = [wire EXCEPT ![h] = Append(wire[h], OutputFrame(lo, hi))]
      BY <1>3 DEF SendOutput, Send
    <3>3. QED
      BY <3>1, <3>2 DEF TypeOK
  <2>3. sent' \in [Handles -> Nat] /\ missed' \in [Handles -> SUBSET Offsets]
    BY <1>3, <2>1 DEF TypeOK, SendOutput
  <2>4. QED
    BY <1>3, <2>2, <2>3 DEF TypeOK, SendOutput, connVars, outVars
<1>4. CASE SendExit(h)
  <2>1. emitted \in Nat
    BY LogAssumption DEF TypeOK, Offsets, NBytes
  <2>2. <<ExitEvent(emitted), Event("closed")>> \in Seq(Messages)
    BY <2>1, MessageTyping DEF MessageTypes
  <2>3. wire' \in [Handles -> Seq(Messages)]
    BY <1>4, <2>2 DEF TypeOK, SendExit
  <2>4. sent' \in [Handles -> Nat] /\ missed' \in [Handles -> SUBSET Offsets]
    BY <1>4, <2>1 DEF TypeOK, SendExit
  <2>5. /\ peer' \in [Handles -> {"none", "requested", "serving", "gone", "lost"}]
        /\ owner' \in Handles \cup {NoHandle}
    BY <1>4 DEF TypeOK, SendExit
  <2>6. QED
    BY <1>4, <2>3, <2>4, <2>5 DEF TypeOK, SendExit, connVars, outVars
<1>5. ASSUME NEW kept \in 0..Len(wire[h]), NEW clean \in BOOLEAN, Drop(h, kept, clean) PROVE TypeOK'
  <2>1. SubSeq(wire[h], 1, kept) \o Ending(clean) \in Seq(Messages)
    BY MessageTyping DEF TypeOK, MessageTypes, Ending
  <2>2. wire' \in [Handles -> Seq(Messages)]
    BY <1>5, <2>1, MessageTyping DEF TypeOK, Drop, Release, MessageTypes
  <2>3. QED
    BY <1>5, <2>2 DEF TypeOK, Drop, Release, connVars, outVars
<1>6. QED
  BY <1>1, <1>2, <1>3, <1>4, <1>5 DEF Runtime

\* The listeners keep the types.
LEMMA ListenerTypeOK ==
  ASSUME TypeOK, NEW h \in Handles, Listener(h)
  PROVE  TypeOK'
<1>1. CASE OnReady(h)
  BY <1>1, ReceiveTyping DEF TypeOK, OnReady, rtVars, outVars
<1>2. CASE OnOutput(h)
  <2>1. wire' \in [Handles -> Seq(Messages)] /\ Head(wire[h]) \in Messages
    BY <1>2, ReceiveTyping DEF OnOutput
  <2> DEFINE m == Head(wire[h])
             c == [lo |-> FirstNew(h, m), hi |-> m.hi]
  <2>2. CASE m.hi <= cursor[h]
    <3>1. /\ UNCHANGED <<proc, emitted, base, owner, peer, sent, starts, missed>>
          /\ UNCHANGED <<tries, sock, held, ready, begin, cursor, chunks, fed, result>>
          /\ UNCHANGED <<connErr, waiting, resumed>>
      BY <1>2, <2>2 DEF OnOutput, rtVars, connVars
    <3>2. wire' \in [Handles -> Seq(Messages)]
      BY <2>1
    <3>3. QED
      BY <3>1, <3>2 DEF TypeOK
  <2>3. CASE ~(m.hi <= cursor[h])
    <3>1. cursor[h] \in Nat /\ m.lo \in Nat /\ m.hi \in Nat
      BY <2>1 DEF TypeOK, Messages
    <3>2. c \in [lo : Nat, hi : Nat] /\ CursorAfter(h, m) \in Nat
      BY <3>1 DEF FirstNew, Larger, CursorAfter
    <3>3. cursor' \in [Handles -> Nat]
      <4>1. cursor' = [cursor EXCEPT ![h] = CursorAfter(h, m)]
        BY <1>2, <2>3 DEF OnOutput
      <4>2. QED
        BY <3>2, <4>1 DEF TypeOK
    <3>4. chunks' \in [Handles -> Seq([lo : Nat, hi : Nat])]
      <4>1. Append(chunks[h], c) \in Seq([lo : Nat, hi : Nat])
        BY <3>2 DEF TypeOK
      <4>2. chunks' = [chunks EXCEPT ![h] = Append(chunks[h], c)]
        BY <1>2, <2>3 DEF OnOutput
      <4>3. QED
        BY <4>1, <4>2 DEF TypeOK
    <3>5. fed' \in [Handles -> [Streams -> SUBSET Nat]]
      <4>1. CASE h \in Collecting
        <5>1. DecodersAt(h, m) \in [Streams -> SUBSET Nat]
          BY DEF TypeOK, DecodersAt, Flushed
        <5>2. FirstNew(h, m)..(m.hi - 1) \subseteq Nat
          BY <3>1 DEF FirstNew, Larger
        <5> DEFINE d == [DecodersAt(h, m) EXCEPT ![StreamOf(m.lo)] =
                          @ \cup (FirstNew(h, m)..(m.hi - 1))]
        <5>3. d \in [Streams -> SUBSET Nat]
          BY <5>1, <5>2
        <5>4. fed' = [fed EXCEPT ![h] = d]
          BY <1>2, <2>3, <4>1 DEF OnOutput
        <5>5. QED
          BY <5>3, <5>4 DEF TypeOK
      <4>2. CASE h \notin Collecting
        <5>1. fed' = [fed EXCEPT ![h] = fed[h]]
          BY <1>2, <2>3, <4>2 DEF OnOutput
        <5>2. QED
          BY <5>1 DEF TypeOK
      <4>3. QED
        BY <4>1, <4>2
    <3>6. QED
      BY <1>2, <2>1, <3>3, <3>4, <3>5 DEF TypeOK, OnOutput, rtVars, connVars
  <2>4. QED
    BY <2>2, <2>3
<1>3. CASE OnExit(h)
  <2>1. wire' \in [Handles -> Seq(Messages)] /\ Head(wire[h]) \in Messages
    BY <1>3, ReceiveTyping DEF OnExit
  <2>2. CASE result[h] # NoResult
    BY <1>3, <2>1, <2>2 DEF TypeOK, OnExit, rtVars, connVars
  <2>3. CASE result[h] = NoResult
    <3>1. Larger(cursor[h], Head(wire[h]).lo) \in Nat
      BY <2>1 DEF TypeOK, Messages, Larger
    <3>2. cursor' \in [Handles -> Nat]
      BY <1>3, <2>3, <3>1 DEF TypeOK, OnExit
    <3>3. DecodersAtExit(h) \in [Streams -> SUBSET Nat]
      BY DEF DecodersAtExit, Flushed
    <3>4. fed' \in [Handles -> [Streams -> SUBSET Nat]]
      BY <1>3, <2>3, <3>3 DEF TypeOK, OnExit
    <3>5. [exited |-> TRUE, calls |-> Len(chunks[h])] \in [exited : BOOLEAN, calls : Nat]
      BY DEF TypeOK
    <3>6. result' \in [Handles -> [exited : BOOLEAN, calls : Nat]]
      <4>1. result' = [result EXCEPT ![h] = [exited |-> TRUE, calls |-> Len(chunks[h])]]
        BY <1>3, <2>3 DEF OnExit
      <4>2. result \in [Handles -> [exited : BOOLEAN, calls : Nat]]
        BY DEF TypeOK
      <4>3. QED
        BY <3>5, <4>1, <4>2
    <3>7. QED
      BY <1>3, <2>1, <3>2, <3>4, <3>6 DEF TypeOK, OnExit, rtVars, connVars
  <2>4. QED
    BY <2>2, <2>3
<1>4. CASE OnFault(h)
  BY <1>4, ReceiveTyping DEF TypeOK, OnFault, rtVars, outVars
<1>5. CASE OnError(h)
  BY <1>5, ReceiveTyping DEF TypeOK, OnError, rtVars, outVars
<1>6. CASE OnClose(h)
  BY <1>6, ReceiveTyping
  DEF TypeOK, OnClose, CloseListener, SocketAfterClose, ReadyAfterClose, rtVars, outVars
<1>7. CASE CloseCompletes(h)
  <2>1. wire' \in [Handles -> Seq(Messages)]
    BY <1>7, MessageTyping DEF TypeOK, CloseCompletes, Release, MessageTypes
  <2>2. QED
    BY <1>7, <2>1 DEF TypeOK, CloseCompletes, Release, CloseListener, SocketAfterClose,
                      ReadyAfterClose, outVars
<1>8. QED
  BY <1>1, <1>2, <1>3, <1>4, <1>5, <1>6, <1>7 DEF Listener

\* The caller's steps keep the types.
LEMMA CallerTypeOK ==
  ASSUME TypeOK, NEW h \in Handles, Caller(h)
  PROVE  TypeOK'
<1>1. CASE Disconnect(h)
  BY <1>1 DEF TypeOK, Disconnect, rtVars, outVars
<1>2. CASE Kill(h)
  BY <1>2 DEF TypeOK, Kill, connVars, outVars
<1>3. CASE Wait(h)
  BY <1>3 DEF TypeOK, Wait, rtVars, connVars, outVars
<1>4. CASE WaitSettles(h)
  BY <1>4 DEF TypeOK, WaitSettles, Outcome, rtVars, connVars, outVars
<1>5. QED
  BY <1>1, <1>2, <1>3, <1>4 DEF Caller

\* Every reachable state is well typed: in particular no connection attempt
\* is made after MaxRetries failures.
THEOREM TypeCorrect == Spec => []TypeOK
<1>1. Init => TypeOK
  BY InitTypeOK
<1>2. TypeOK /\ [Next]_vars => TypeOK'
  <2> SUFFICES ASSUME TypeOK, [Next]_vars PROVE TypeOK'
    OBVIOUS
  <2>1. CASE Run
    BY <2>1, HandlesAssumption DEF TypeOK, Run, rtVars, outVars
  <2>2. CASE AcceptStart
    BY <2>2, HandlesAssumption, MessageTyping
    DEF TypeOK, AcceptStart, Send, MessageTypes, connVars, outVars
  <2>3. CASE Emit
    BY <2>3, LogAssumption DEF TypeOK, Emit, Offsets, NBytes, connVars, outVars
  <2>4. CASE Trim
    BY <2>4, LogAssumption DEF TypeOK, Trim, Offsets, NBytes, connVars, outVars
  <2>5. CASE ProcessExits
    BY <2>5 DEF TypeOK, ProcessExits, connVars, outVars
  <2>6. ASSUME NEW h \in Handles, Opening(h) \/ Runtime(h) \/ Listener(h) \/ Caller(h)
        PROVE  TypeOK'
    BY <2>6, OpeningTypeOK, RuntimeTypeOK, ListenerTypeOK, CallerTypeOK
  <2>7. CASE UNCHANGED vars
    BY <2>7 DEF TypeOK, vars, rtVars, connVars, outVars
  <2>8. QED
    BY <2>1, <2>2, <2>3, <2>4, <2>5, <2>6, <2>7 DEF Next
<1>3. QED
  BY <1>1, <1>2, PTL DEF Spec

-----------------------------------------------------------------------------
(* The life of a handle's connection. *)

\* Before the socket is open nothing was received; an open socket is held and
\* a closed one is not; wait() rejects only over a closed socket.
ConnInv ==
  \A h \in Handles :
    /\ sock[h] \in {"idle", "dialing"} => chunks[h] = <<>> /\ ready[h] = "pending" /\ ~held[h]
    /\ sock[h] = "open" => held[h]
    /\ sock[h] = "closed" => ~held[h]
    /\ waiting[h] = "error" => sock[h] = "closed" /\ result[h] = NoResult

\* A step of the runtime or the network does not touch the client's objects.
ClientUntouched == UNCHANGED <<connVars, outVars, connErr, waiting, resumed>>

\* The runtime's and the network's steps leave the client as it is.
LEMMA RuntimeFrame ==
  ASSUME AcceptStart \/ Emit \/ Trim \/ ProcessExits
           \/ \E h \in Handles : Runtime(h) \/ Kill(h)
  PROVE  ClientUntouched
  BY DEF AcceptStart, Emit, Trim, ProcessExits, Runtime, AcceptAttach, Refuse, SendOutput,
         SendExit, Drop, Kill, ClientUntouched

\* The steps that change the client: run, the opening of a connection, the
\* listeners, and the calls other than kill().
LEMMA StepSplit ==
  ASSUME [Next]_vars
  PROVE  \/ ClientUntouched
         \/ Run
         \/ \E h \in Handles : \/ Opening(h) \/ Listener(h)
                               \/ Disconnect(h) \/ Wait(h) \/ WaitSettles(h)
<1>1. CASE UNCHANGED vars
  BY <1>1 DEF vars, ClientUntouched
<1>2. CASE Next
  BY <1>2, RuntimeFrame DEF Next, Caller
<1>3. QED
  BY <1>1, <1>2

\* Opening a connection keeps ConnInv.
LEMMA OpeningConnInv ==
  ASSUME TypeOK, ConnInv, NEW h \in Handles, Opening(h)
  PROVE  ConnInv'
<1>1. ASSUME NEW g \in Handles \cup {NoHandle}, Attach(h, g) PROVE ConnInv'
  BY <1>1 DEF TypeOK, ConnInv, Attach
<1>2. CASE EndpointFails(h)
  BY <1>2 DEF TypeOK, ConnInv, EndpointFails, outVars
<1>3. CASE DialFails(h)
  <2>1. CASE MayDialAgain(h)
    BY <1>3, <2>1 DEF TypeOK, ConnInv, DialFails, outVars
  <2>2. CASE ~MayDialAgain(h)
    <3>1. /\ UNCHANGED <<tries, held, cursor, chunks, fed, result, connErr, waiting, resumed, begin>>
          /\ sock' = [sock EXCEPT ![h] = "closed"] /\ ready' = [ready EXCEPT ![h] = "failed"]
          /\ sock[h] = "dialing"
      BY <1>3, <2>2 DEF DialFails, outVars
    <3>2. QED
      BY <3>1 DEF TypeOK, ConnInv
  <2>3. QED
    BY <2>1, <2>2
<1>4. CASE DialOpens(h)
  BY <1>4 DEF TypeOK, ConnInv, DialOpens, outVars
<1>5. QED
  BY <1>1, <1>2, <1>3, <1>4 DEF Opening

\* A listener keeps ConnInv.
LEMMA ListenerConnInv ==
  ASSUME TypeOK, ConnInv, NEW h \in Handles, Listener(h)
  PROVE  ConnInv'
<1>1. CASE OnReady(h)
  BY <1>1 DEF TypeOK, ConnInv, OnReady, Receives, Listening, outVars
<1>2. CASE OnOutput(h)
  <2>1. \A p \in Handles \ {h} : chunks'[p] = chunks[p]
    BY <1>2 DEF TypeOK, OnOutput
  <2>2. QED
    BY <1>2, <2>1 DEF TypeOK, ConnInv, OnOutput, Receives, Listening, connVars
<1>3. CASE OnExit(h)
  <2>1. \A p \in Handles \ {h} : result'[p] = result[p]
    BY <1>3 DEF TypeOK, OnExit
  <2>2. QED
    BY <1>3, <2>1 DEF TypeOK, ConnInv, OnExit, Receives, Listening, connVars
<1>4. CASE OnFault(h)
  BY <1>4 DEF TypeOK, ConnInv, OnFault, Receives, Listening, outVars
<1>5. CASE OnError(h)
  BY <1>5 DEF TypeOK, ConnInv, OnError, Receives, Listening, outVars
<1>6. CASE OnClose(h)
  BY <1>6 DEF TypeOK, ConnInv, OnClose, Receives, Listening, CloseListener,
              SocketAfterClose, ReadyAfterClose, outVars
<1>7. CASE CloseCompletes(h)
  BY <1>7 DEF TypeOK, ConnInv, CloseCompletes, CloseListener, SocketAfterClose,
              ReadyAfterClose, outVars
<1>8. QED
  BY <1>1, <1>2, <1>3, <1>4, <1>5, <1>6, <1>7 DEF Listener

\* A handle in the initial state.
LEMMA InitHandle ==
  ASSUME Init, NEW h \in Handles
  PROVE  /\ sock[h] = "idle" /\ ready[h] = "pending" /\ held[h] = FALSE
         /\ chunks[h] = <<>> /\ wire[h] = <<>> /\ begin[h] = 0 /\ cursor[h] = 0
         /\ result[h] = NoResult /\ waiting[h] = "no" /\ resumed[h] = NoHandle
         /\ peer[h] = "none"
<1>1. sock[h] = "idle" /\ ready[h] = "pending" /\ held[h] = FALSE /\ peer[h] = "none"
  BY DEF Init
<1>2. chunks[h] = <<>> /\ wire[h] = <<>> /\ begin[h] = 0 /\ cursor[h] = 0
  BY DEF Init
<1>3. result[h] = NoResult /\ waiting[h] = "no" /\ resumed[h] = NoHandle
  BY DEF Init
<1>4. QED
  BY <1>1, <1>2, <1>3

\* ConnInv holds in every reachable state.
LEMMA ConnInvariant == Spec => []ConnInv
<1>1. Init => ConnInv
  BY InitHandle DEF ConnInv
<1>2. TypeOK /\ ConnInv /\ [Next]_vars => ConnInv'
  <2> SUFFICES ASSUME TypeOK, ConnInv, [Next]_vars PROVE ConnInv'
    OBVIOUS
  <2>1. CASE ClientUntouched
    BY <2>1 DEF ConnInv, ClientUntouched, connVars, outVars
  <2>2. CASE Run
    BY <2>2, HandlesAssumption DEF TypeOK, ConnInv, Run, outVars
  <2>3. ASSUME NEW h \in Handles, Opening(h) \/ Listener(h) PROVE ConnInv'
    BY <2>3, OpeningConnInv, ListenerConnInv
  <2>4. ASSUME NEW h \in Handles, Disconnect(h) PROVE ConnInv'
    BY <2>4 DEF TypeOK, ConnInv, Disconnect, outVars
  <2>5. ASSUME NEW h \in Handles, Wait(h) PROVE ConnInv'
    BY <2>5 DEF TypeOK, ConnInv, Wait, connVars, outVars
  <2>6. ASSUME NEW h \in Handles, WaitSettles(h) PROVE ConnInv'
    BY <2>6 DEF TypeOK, ConnInv, WaitSettles, RaceOver, Outcome, connVars, outVars
  <2>7. QED
    BY <2>1, <2>2, <2>3, <2>4, <2>5, <2>6, StepSplit
<1>3. QED
  BY <1>1, <1>2, TypeCorrect, PTL DEF Spec

\* wait() never rejects on a handle that received the exit: a rejection is
\* decided over a closed socket, which receives nothing any more.
THEOREM ExitWins == Spec => []ExitBeatsConnectionError
<1>1. ConnInv => ExitBeatsConnectionError
  BY DEF ConnInv, ExitBeatsConnectionError
<1>2. QED
  BY <1>1, ConnInvariant, PTL

-----------------------------------------------------------------------------
(* The runtime's end of a connection. *)

\* The runtime has no end of a connection that is not open yet, it serves the
\* owner, and it has created no process before it serves the runner, and one
\* process from then on.
PeerInv ==
  /\ \A h \in Handles : sock[h] \in {"idle", "dialing"} => peer[h] = "none"
  /\ owner # NoHandle => peer[owner] = "serving"
  /\ peer[Runner] \in {"none", "requested"} => starts = 0
  /\ starts <= 1

\* A step of the runtime keeps PeerInv.
LEMMA RuntimePeerInv ==
  ASSUME TypeOK, PeerInv, NEW h \in Handles, Runtime(h)
  PROVE  PeerInv'
<1> USE HandlesAssumption DEF TypeOK, PeerInv
<1>1. ASSUME NEW from \in Offsets, AcceptAttach(h, from) PROVE PeerInv'
  <2>1. h # Runner /\ peer[h] = "requested" /\ UNCHANGED <<sock, starts>>
    BY <1>1 DEF AcceptAttach, connVars
  <2>2. sock[h] \notin {"idle", "dialing"}
    BY <2>1
  <2>3. CASE h \in Sharing
    <3>1. /\ \A p \in Handles : peer'[p] = IF p = h THEN "serving" ELSE peer[p]
          /\ owner' = owner
      BY <1>1, <2>3 DEF AcceptAttach
    <3>2. QED
      BY <2>1, <2>2, <3>1
  <2>4. CASE h \notin Sharing
    <3>1. /\ \A p \in Handles : peer'[p] = IF p = h THEN "serving"
                                ELSE IF p \in ClosedByTakeover(h) THEN "gone" ELSE peer[p]
          /\ owner' = h
      BY <1>1, <2>4 DEF AcceptAttach
    <3>2. \A p \in ClosedByTakeover(h) : peer[p] = "serving"
      BY HandlesAssumption DEF ClosedByTakeover, Watchers
    <3>3. QED
      BY <2>1, <2>2, <3>1, <3>2
  <2>5. QED
    BY <2>3, <2>4
<1>2. CASE Refuse(h)
  BY <1>2 DEF Refuse, connVars
<1>3. ASSUME NEW hi \in Offsets, SendOutput(h, hi) PROVE PeerInv'
  BY <1>3 DEF SendOutput, connVars
<1>4. CASE SendExit(h)
  BY <1>4 DEF SendExit, connVars
<1>5. ASSUME NEW kept \in 0..Len(wire[h]), NEW clean \in BOOLEAN, Drop(h, kept, clean) PROVE PeerInv'
  <2>1. sock[h] = "open" /\ UNCHANGED <<sock, starts>>
    BY <1>5 DEF Drop, connVars
  <2>2. /\ peer' = [p \in Handles |->
                      IF p = h THEN "lost" ELSE IF p \in ClosedWith(h) THEN "gone" ELSE peer[p]]
        /\ owner' = IF owner = h THEN NoHandle ELSE owner
    BY <1>5 DEF Drop, Release
  <2>3. \A p \in ClosedWith(h) : peer[p] = "serving" /\ owner = h
    BY DEF ClosedWith, Watchers
  <2>4. QED
    BY <2>1, <2>2, <2>3
<1>6. QED
  BY <1>1, <1>2, <1>3, <1>4, <1>5 DEF Runtime

\* PeerInv holds in every reachable state.
LEMMA PeerInvariant == Spec => []PeerInv
<1>1. Init => PeerInv
  BY HandlesAssumption DEF Init, PeerInv
<1>2. TypeOK /\ PeerInv /\ [Next]_vars => PeerInv'
  <2> SUFFICES ASSUME TypeOK, PeerInv, [Next]_vars PROVE PeerInv'
    OBVIOUS
  <2> USE HandlesAssumption DEF TypeOK, PeerInv
  <2>1. CASE Run
    BY <2>1 DEF Run, rtVars
  <2>2. CASE AcceptStart
    BY <2>2 DEF AcceptStart, connVars
  <2>3. CASE Emit \/ Trim \/ ProcessExits
    BY <2>3 DEF Emit, Trim, ProcessExits, connVars
  <2>4. ASSUME NEW h \in Handles, NEW g \in Handles \cup {NoHandle}, Attach(h, g)
        PROVE  PeerInv'
    BY <2>4 DEF Attach, rtVars
  <2>5. ASSUME NEW h \in Handles, EndpointFails(h) \/ DialFails(h) \/ DialOpens(h)
        PROVE  PeerInv'
    <3>1. CASE EndpointFails(h)
      BY <3>1 DEF EndpointFails, rtVars
    <3>2. CASE DialFails(h)
      BY <3>2 DEF DialFails, rtVars
    <3>3. CASE DialOpens(h)
      BY <3>3 DEF DialOpens
    <3>4. QED
      BY <2>5, <3>1, <3>2, <3>3
  <2>6. ASSUME NEW h \in Handles, Runtime(h) PROVE PeerInv'
    BY <2>6, RuntimePeerInv
  <2>7. ASSUME NEW h \in Handles,
               OnReady(h) \/ OnOutput(h) \/ OnExit(h) \/ OnError(h) \/ Caller(h)
        PROVE  PeerInv'
    <3>1. \A p \in Handles : sock'[p] = sock[p] \/ sock'[p] = "closing"
      BY <2>7 DEF OnReady, OnOutput, OnExit, OnError, Caller, Disconnect, Kill, Wait,
                  WaitSettles, connVars
    <3>2. UNCHANGED <<peer, owner, starts>>
      BY <2>7 DEF OnReady, OnOutput, OnExit, OnError, Caller, Disconnect, Kill, Wait,
                  WaitSettles, rtVars
    <3>3. QED
      BY <3>1, <3>2
  <2>8. ASSUME NEW h \in Handles, OnFault(h) \/ OnClose(h) PROVE PeerInv'
    <3>1. UNCHANGED <<peer, owner, starts>>
      BY <2>8 DEF OnFault, OnClose, rtVars
    <3>2. sock' = [sock EXCEPT ![h] = "closing"] \/ sock' = [sock EXCEPT ![h] = "closed"]
      BY <2>8 DEF OnFault, OnClose, CloseListener, SocketAfterClose
    <3>3. \A p \in Handles : sock'[p] \in {"idle", "dialing"} => sock[p] \in {"idle", "dialing"}
      BY <3>2
    <3>4. QED
      BY <3>1, <3>3
  <2>9. ASSUME NEW h \in Handles, CloseCompletes(h) PROVE PeerInv'
    BY <2>9 DEF CloseCompletes, Release, ClosedWith, Watchers, CloseListener, SocketAfterClose
  <2>10. CASE UNCHANGED vars
    BY <2>10 DEF vars, rtVars, connVars
  <2>11. QED
    BY <2>1, <2>2, <2>3, <2>4, <2>5, <2>6, <2>7, <2>8, <2>9, <2>10
    DEF Next, Opening, Listener
<1>3. QED
  BY <1>1, <1>2, TypeCorrect, PTL DEF Spec

\* One run() creates at most one process, however its connection fails:
\* openProcessSocket repeats the opening of the socket, never the request.
THEOREM OneStart == Spec => []StartedAtMostOnce
<1>1. PeerInv => StartedAtMostOnce
  BY DEF PeerInv, StartedAtMostOnce
<1>2. QED
  BY <1>1, PeerInvariant, PTL

-----------------------------------------------------------------------------
(* The order of the calls of onOutput. *)

\* The cursor is never behind the offset the handle began at, and every call
\* of onOutput lies between the two.
OrderInv ==
  /\ \A h \in Handles : begin[h] <= cursor[h]
  /\ DeliveredInOrder

\* An element of a sequence is of the sequence's type.
LEMMA SeqElement ==
  ASSUME NEW S, NEW s \in Seq(S), NEW i \in 1..Len(s)
  PROVE  s[i] \in S
  OBVIOUS

\* What onOutput was called with has offsets.
LEMMA ChunkTyping ==
  ASSUME TypeOK, NEW h \in Handles, NEW i \in 1..Len(chunks[h])
  PROVE  /\ chunks[h][i] \in [lo : Nat, hi : Nat]
         /\ chunks[h][i].lo \in Nat /\ chunks[h][i].hi \in Nat
<1>1. chunks[h] \in Seq([lo : Nat, hi : Nat])
  BY DEF TypeOK
<1>2. chunks[h][i] \in [lo : Nat, hi : Nat]
  BY <1>1, SeqElement
<1>3. QED
  BY <1>2

\* A step that leaves the calls of onOutput alone and moves cursors only
\* forward keeps the order.
LEMMA OrderFrame ==
  ASSUME TypeOK, TypeOK', OrderInv, chunks' = chunks, begin' = begin,
         \A h \in Handles : cursor[h] <= cursor'[h]
  PROVE  OrderInv'
<1>1. \A h \in Handles : begin'[h] <= cursor'[h]
  BY DEF TypeOK, OrderInv
<1>2. ASSUME NEW h \in Handles, NEW i \in 1..Len(chunks[h])
      PROVE  /\ begin[h] <= chunks[h][i].lo /\ chunks[h][i].lo < chunks[h][i].hi
             /\ chunks[h][i].hi <= cursor'[h]
             /\ \A j \in 1..(i - 1) : chunks[h][j].hi <= chunks[h][i].lo
  <2>1. /\ begin[h] <= chunks[h][i].lo /\ chunks[h][i].lo < chunks[h][i].hi
        /\ chunks[h][i].hi <= cursor[h]
        /\ \A j \in 1..(i - 1) : chunks[h][j].hi <= chunks[h][i].lo
    BY DEF OrderInv, DeliveredInOrder
  <2>2. chunks[h][i].hi \in Nat /\ cursor[h] \in Nat /\ cursor'[h] \in Nat
    BY ChunkTyping DEF TypeOK
  <2>3. chunks[h][i].hi <= cursor'[h]
    BY <2>1, <2>2
  <2>4. QED
    BY <2>1, <2>3
<1>3. QED
  BY <1>1, <1>2 DEF OrderInv, DeliveredInOrder

\* What a call of onOutput gets is not empty and begins at the cursor or
\* after it, and the cursor moves to its end.
LEMMA NewOutput ==
  ASSUME TypeOK, NEW h \in Handles, Receives(h, {"output"}),
         ~(Head(wire[h]).hi <= cursor[h])
  PROVE  LET m == Head(wire[h])
         IN  /\ FirstNew(h, m) \in Nat /\ CursorAfter(h, m) = m.hi /\ m.hi \in Nat
             /\ cursor[h] <= FirstNew(h, m) /\ FirstNew(h, m) < m.hi
<1>1. Head(wire[h]) \in Messages
  BY ReceiveTyping
<1>2. QED
  BY <1>1 DEF TypeOK, Receives, Messages, FirstNew, CursorAfter, Larger

\* An output frame keeps the order: what it adds begins at or after the
\* cursor, which no earlier call is past.
LEMMA OutputOrderInv ==
  ASSUME TypeOK, OrderInv, NEW h \in Handles, OnOutput(h)
  PROVE  OrderInv'
<1> DEFINE m == Head(wire[h])
           new == [lo |-> FirstNew(h, m), hi |-> m.hi]
<1>1. CASE m.hi <= cursor[h]
  BY <1>1 DEF OrderInv, DeliveredInOrder, OnOutput, connVars
<1>2. CASE ~(m.hi <= cursor[h])
  <2>1. /\ new.lo \in Nat /\ new.hi \in Nat /\ cursor[h] <= new.lo /\ new.lo < new.hi
        /\ CursorAfter(h, m) = new.hi
    BY <1>2, NewOutput DEF OnOutput
  <2>2. begin[h] \in Nat /\ cursor[h] \in Nat /\ begin[h] <= cursor[h]
    BY DEF TypeOK, OrderInv
  <2>3. begin' = begin /\ cursor' = [cursor EXCEPT ![h] = new.hi]
    BY <1>2, <2>1 DEF OnOutput, connVars
  <2>4. chunks' = [chunks EXCEPT ![h] = Append(chunks[h], new)]
    BY <1>2 DEF OnOutput
  <2>5. chunks[h] \in Seq([lo : Nat, hi : Nat]) /\ new \in [lo : Nat, hi : Nat]
    BY <2>1 DEF TypeOK
  <2>6. \A i \in 1..Len(chunks[h]) :
          /\ chunks[h][i] \in [lo : Nat, hi : Nat]
          /\ begin[h] <= chunks[h][i].lo /\ chunks[h][i].lo < chunks[h][i].hi
          /\ chunks[h][i].hi <= cursor[h]
          /\ \A j \in 1..(i - 1) : chunks[h][j].hi <= chunks[h][i].lo
    BY ChunkTyping DEF OrderInv, DeliveredInOrder
  <2>7. ASSUME NEW i \in 1..Len(chunks'[h])
        PROVE  /\ begin'[h] <= chunks'[h][i].lo /\ chunks'[h][i].lo < chunks'[h][i].hi
               /\ chunks'[h][i].hi <= cursor'[h]
               /\ \A j \in 1..(i - 1) : chunks'[h][j].hi <= chunks'[h][i].lo
    <3>1. /\ chunks'[h] = Append(chunks[h], new) /\ cursor'[h] = new.hi
          /\ begin'[h] = begin[h]
      BY <2>3, <2>4 DEF TypeOK
    <3>2. CASE i \in 1..Len(chunks[h])
      <4>1. \A j \in 1..i : chunks'[h][j] = chunks[h][j]
        BY <2>5, <3>1, <3>2
      <4>2. chunks[h][i].hi <= new.hi
        BY <2>1, <2>2, <2>6, <3>2
      <4>3. QED
        BY <2>6, <3>1, <3>2, <4>1, <4>2
    <3>3. CASE i = Len(chunks[h]) + 1
      <4>1. PICK c, n : c = new /\ n = Len(chunks[h])
        OBVIOUS
      <4>2. n \in Nat /\ i - 1 = n
        BY <2>5, <3>3, <4>1
      <4>3. chunks'[h][i] = c /\ \A j \in 1..n : chunks'[h][j] = chunks[h][j]
        BY <2>5, <3>1, <3>3, <4>1
      <4>4. c.lo \in Nat /\ c.hi \in Nat /\ cursor[h] <= c.lo /\ c.lo < c.hi /\ cursor'[h] = c.hi
        BY <2>1, <3>1, <4>1
      <4>5. ASSUME NEW j \in 1..n PROVE chunks[h][j].hi <= c.lo
        <5>1. chunks[h][j].hi \in Nat /\ chunks[h][j].hi <= cursor[h]
          BY <2>6, <4>1
        <5>2. QED
          BY <2>2, <4>4, <5>1
      <4>6. begin'[h] <= c.lo /\ c.hi <= cursor'[h]
        BY <2>2, <3>1, <4>4
      <4>7. QED
        BY <4>2, <4>3, <4>4, <4>5, <4>6
    <3>4. i \in 1..Len(chunks[h]) \/ i = Len(chunks[h]) + 1
      <4>1. Len(chunks'[h]) = Len(chunks[h]) + 1 /\ Len(chunks[h]) \in Nat
        BY <2>5, <3>1
      <4>2. QED
        BY <4>1
    <3>5. QED
      BY <3>2, <3>3, <3>4
  <2>8. ASSUME NEW p \in Handles \ {h}
        PROVE  chunks'[p] = chunks[p] /\ cursor'[p] = cursor[p] /\ begin'[p] = begin[p]
    BY <2>3, <2>4 DEF TypeOK
  <2>9. begin'[h] <= cursor'[h]
    BY <2>1, <2>2, <2>3 DEF TypeOK
  <2>10. QED
    BY <2>7, <2>8, <2>9 DEF OrderInv, DeliveredInOrder
<1>3. QED
  BY <1>1, <1>2

\* OrderInv holds in every reachable state.
LEMMA OrderInvariant == Spec => []OrderInv
<1>1. Init => OrderInv
  BY DEF Init, OrderInv, DeliveredInOrder
<1>2. TypeOK /\ TypeOK' /\ ConnInv /\ OrderInv /\ [Next]_vars => OrderInv'
  <2> SUFFICES ASSUME TypeOK, TypeOK', ConnInv, OrderInv, [Next]_vars PROVE OrderInv'
    OBVIOUS
  <2>1. CASE ClientUntouched
    BY <2>1 DEF OrderInv, DeliveredInOrder, ClientUntouched, connVars, outVars
  <2>2. CASE Run
    BY <2>2 DEF OrderInv, DeliveredInOrder, Run, outVars
  <2>3. ASSUME NEW h \in Handles, NEW g \in Handles \cup {NoHandle}, Attach(h, g)
        PROVE  OrderInv'
    <3>1. chunks' = chunks /\ chunks[h] = <<>> /\ cursor'[h] = begin'[h]
      BY <2>3 DEF TypeOK, ConnInv, Attach
    <3>2. \A p \in Handles \ {h} : begin'[p] = begin[p] /\ cursor'[p] = cursor[p]
      <4>1. \A p \in Handles \ {h} : begin'[p] = begin[p]
        <5>1. PICK a : begin' = [begin EXCEPT ![h] = a]
          BY <2>3 DEF Attach
        <5>2. begin \in [Handles -> Nat]
          BY DEF TypeOK
        <5>3. QED
          BY <5>1, <5>2
      <4>2. \A p \in Handles \ {h} : cursor'[p] = cursor[p]
        BY <2>3 DEF TypeOK, Attach
      <4>3. QED
        BY <4>1, <4>2
    <3>3. begin'[h] \in Nat
      BY DEF TypeOK
    <3>4. QED
      BY <3>1, <3>2, <3>3 DEF OrderInv, DeliveredInOrder
  <2>4. ASSUME NEW h \in Handles, OnExit(h) PROVE OrderInv'
    <3>0. cursor \in [Handles -> Nat]
      BY DEF TypeOK
    <3>1. chunks' = chunks /\ begin' = begin
      BY <2>4 DEF OnExit, connVars
    <3>2. Head(wire[h]) \in Messages
      BY <2>4, ReceiveTyping DEF OnExit
    <3>3. \A p \in Handles : cursor[p] <= cursor'[p]
      <4>1. CASE result[h] # NoResult
        <5>1. cursor' = cursor
          BY <2>4, <4>1 DEF OnExit
        <5>2. QED
          BY <5>1, <3>0
      <4>2. CASE result[h] = NoResult
        <5> DEFINE to == Larger(cursor[h], Head(wire[h]).lo)
        <5>0. Head(wire[h]).lo \in Nat
          BY <3>2 DEF Messages
        <5>1. to \in Nat /\ cursor[h] <= to
          BY <3>0, <5>0 DEF Larger
        <5>2. cursor' = [cursor EXCEPT ![h] = to]
          BY <2>4, <4>2 DEF OnExit
        <5>3. QED
          <6>1. \A p \in Handles : cursor'[p] = IF p = h THEN to ELSE cursor[p]
            BY <3>0, <5>2
          <6>2. QED
            BY <3>0, <5>1, <6>1
      <4>3. QED
        BY <4>1, <4>2
    <3>4. QED
      BY <3>1, <3>3, OrderFrame
  <2>5. ASSUME NEW h \in Handles,
               \/ EndpointFails(h) \/ DialFails(h) \/ DialOpens(h)
               \/ OnReady(h) \/ OnFault(h) \/ OnError(h) \/ OnClose(h) \/ CloseCompletes(h)
               \/ Disconnect(h) \/ Wait(h) \/ WaitSettles(h)
        PROVE  OrderInv'
    <3>1. UNCHANGED <<begin, cursor, chunks>>
      BY <2>5 DEF EndpointFails, DialFails, DialOpens, OnReady, OnFault, OnError, OnClose,
                  CloseCompletes, Disconnect, Wait, WaitSettles, outVars, connVars
    <3>2. QED
      BY <3>1 DEF OrderInv, DeliveredInOrder
  <2>6. QED
    BY <2>1, <2>2, <2>3, <2>4, <2>5, OutputOrderInv, StepSplit DEF Opening, Listener
<1>3. QED
  BY <1>1, <1>2, TypeCorrect, ConnInvariant, PTL DEF Spec

\* Whatever the frames overlap, onOutput gets no byte twice and none out of
\* order.
THEOREM InOrder == Spec => []DeliveredInOrder
<1>1. OrderInv => DeliveredInOrder
  BY DEF OrderInv
<1>2. QED
  BY <1>1, OrderInvariant, PTL

-----------------------------------------------------------------------------
(* Resuming at the cursor of a disconnected handle. *)

\* The handle another one resumed from receives nothing any more, and its
\* cursor is where the other one began.
ResumeInv ==
  \A h \in Handles :
    /\ sock[h] = "idle" => resumed[h] = NoHandle
    /\ resumed[h] # NoHandle =>
         /\ resumed[h] \in Handles
         /\ sock[resumed[h]] \in {"closing", "closed"}
         /\ begin[h] = cursor[resumed[h]]

\* A step in which no socket opens or becomes idle again, no handle begins
\* elsewhere, and only open handles move keeps ResumeInv.
LEMMA ResumeFrame ==
  ASSUME ResumeInv, resumed' = resumed, begin' = begin,
         \A h \in Handles : sock'[h] = "idle" => sock[h] = "idle",
         \A h \in Handles : sock[h] \in {"closing", "closed"} =>
           sock'[h] \in {"closing", "closed"} /\ cursor'[h] = cursor[h]
  PROVE  ResumeInv'
  BY DEF ResumeInv

\* Attaching establishes ResumeInv for the new handle and disturbs no other.
LEMMA AttachResumeInv ==
  ASSUME TypeOK, ConnInv, ResumeInv, NEW h \in Handles, NEW g \in Handles \cup {NoHandle},
         Attach(h, g)
  PROVE  ResumeInv'
<1>1. /\ sock[h] = "idle" /\ sock' = [sock EXCEPT ![h] = "dialing"]
      /\ cursor' = [cursor EXCEPT ![h] = begin'[h]]
      /\ resumed' = [resumed EXCEPT ![h] = IF g \in Handles /\ ~held[g] THEN g ELSE NoHandle]
  BY DEF Attach
<1>2. PICK a : begin' = [begin EXCEPT ![h] = a]
  BY DEF Attach
<1>3. /\ sock \in [Handles -> {"idle", "dialing", "open", "closing", "closed"}]
      /\ cursor \in [Handles -> Nat] /\ begin \in [Handles -> Nat]
      /\ resumed \in [Handles -> Handles \cup {NoHandle}]
  BY DEF TypeOK
<1>4. ASSUME NEW p \in Handles \ {h}
      PROVE  /\ sock'[p] = "idle" => resumed'[p] = NoHandle
             /\ resumed'[p] # NoHandle =>
                  /\ resumed'[p] \in Handles
                  /\ sock'[resumed'[p]] \in {"closing", "closed"}
                  /\ begin'[p] = cursor'[resumed'[p]]
  <2>1. sock'[p] = sock[p] /\ resumed'[p] = resumed[p] /\ begin'[p] = begin[p]
    BY <1>1, <1>2, <1>3
  <2>2. resumed[p] # NoHandle => resumed[p] \in Handles \ {h}
    BY <1>1 DEF ResumeInv
  <2>3. \A q \in Handles \ {h} : sock'[q] = sock[q] /\ cursor'[q] = cursor[q]
    BY <1>1, <1>3
  <2>4. QED
    BY <2>1, <2>2, <2>3 DEF ResumeInv
<1>5. sock'[h] # "idle"
  BY <1>1, <1>3
<1>6. ASSUME resumed'[h] # NoHandle
      PROVE  /\ resumed'[h] \in Handles
             /\ sock'[resumed'[h]] \in {"closing", "closed"}
             /\ begin'[h] = cursor'[resumed'[h]]
  <2>1. g \in Handles /\ ~held[g] /\ resumed'[h] = g
    BY <1>1, <1>3, <1>6
  <2>2. g # h /\ ready[g] = "ok" /\ begin' = [begin EXCEPT ![h] = cursor[g]]
    BY <2>1, HandlesAssumption DEF Attach
  <2>3. sock[g] \in {"closing", "closed"}
    BY <1>3, <2>1, <2>2 DEF ConnInv
  <2>4. sock'[g] = sock[g] /\ cursor'[g] = cursor[g] /\ begin'[h] = cursor[g]
    BY <1>1, <1>3, <2>1, <2>2
  <2>5. QED
    BY <2>1, <2>3, <2>4
<1>7. QED
  BY <1>4, <1>5, <1>6 DEF ResumeInv

\* ResumeInv holds in every reachable state.
LEMMA ResumeInvariant == Spec => []ResumeInv
<1>1. Init => ResumeInv
  BY InitHandle DEF ResumeInv
<1>2. TypeOK /\ ConnInv /\ ResumeInv /\ [Next]_vars => ResumeInv'
  <2> SUFFICES ASSUME TypeOK, ConnInv, ResumeInv, [Next]_vars PROVE ResumeInv'
    OBVIOUS
  <2>1. CASE ClientUntouched
    BY <2>1 DEF ResumeInv, ClientUntouched, connVars, outVars
  <2>2. CASE Run
    BY <2>2, HandlesAssumption, ResumeFrame DEF TypeOK, Run, outVars
  <2>3. ASSUME NEW h \in Handles, NEW g \in Handles \cup {NoHandle}, Attach(h, g)
        PROVE  ResumeInv'
    BY <2>3, AttachResumeInv
  <2>4. ASSUME NEW h \in Handles, EndpointFails(h) \/ DialFails(h) \/ DialOpens(h)
        PROVE  ResumeInv'
    <3>1. UNCHANGED <<begin, cursor, resumed>>
      BY <2>4 DEF EndpointFails, DialFails, DialOpens, outVars
    <3>2. sock[h] = "dialing" /\ \/ sock' = sock
                                 \/ sock' = [sock EXCEPT ![h] = "closed"]
                                 \/ sock' = [sock EXCEPT ![h] = "open"]
      BY <2>4 DEF EndpointFails, DialFails, DialOpens
    <3>3. QED
      BY <3>1, <3>2, ResumeFrame DEF TypeOK
  <2>5. ASSUME NEW h \in Handles, OnOutput(h) \/ OnExit(h) PROVE ResumeInv'
    <3>1. sock[h] = "open" /\ UNCHANGED <<begin, sock, resumed>>
      BY <2>5 DEF OnOutput, OnExit, Receives, Listening, connVars
    <3>2. \E a : cursor' = [cursor EXCEPT ![h] = a]
      <4>1. cursor' = cursor => cursor' = [cursor EXCEPT ![h] = cursor[h]]
        BY DEF TypeOK
      <4>2. QED
        BY <2>5, <4>1 DEF OnOutput, OnExit
    <3>3. QED
      BY <3>1, <3>2, ResumeFrame DEF TypeOK
  <2>6. ASSUME NEW h \in Handles, OnReady(h) \/ OnError(h) \/ Wait(h) \/ WaitSettles(h)
        PROVE  ResumeInv'
    <3>1. UNCHANGED <<begin, cursor, sock, resumed>>
      BY <2>6 DEF OnReady, OnError, Wait, WaitSettles, outVars, connVars
    <3>2. QED
      BY <3>1, ResumeFrame
  <2>7. ASSUME NEW h \in Handles,
               OnFault(h) \/ OnClose(h) \/ CloseCompletes(h) \/ Disconnect(h)
        PROVE  ResumeInv'
    <3>1. UNCHANGED <<begin, cursor, resumed>>
      BY <2>7 DEF OnFault, OnClose, CloseCompletes, Disconnect, outVars
    <3>2. \/ sock' = [sock EXCEPT ![h] = "closing"]
          \/ sock' = [sock EXCEPT ![h] = "closed"]
      BY <2>7 DEF OnFault, OnClose, CloseCompletes, Disconnect, CloseListener,
                  SocketAfterClose
    <3>3. QED
      BY <3>1, <3>2, ResumeFrame DEF TypeOK
  <2>8. QED
    BY <2>1, <2>2, <2>3, <2>4, <2>5, <2>6, <2>7, StepSplit DEF Opening, Listener
<1>3. QED
  BY <1>1, <1>2, TypeCorrect, ConnInvariant, PTL DEF Spec

\* A handle attached at the cursor of a disconnected one repeats none of its
\* output: the first handle delivers nothing at or after its cursor and the
\* second nothing before it.
THEOREM ResumeIsExact == Spec => []ResumeRepeatsNothing
<1>1. TypeOK /\ OrderInv /\ ResumeInv => ResumeRepeatsNothing
  <2> SUFFICES ASSUME TypeOK, OrderInv, ResumeInv,
                      NEW h \in Handles, resumed[h] # NoHandle,
                      NEW o \in Delivered(h) \cap Delivered(resumed[h])
               PROVE  FALSE
    BY DEF ResumeRepeatsNothing
  <2> DEFINE g == resumed[h]
  <2>1. g \in Handles /\ begin[h] = cursor[g]
    BY DEF ResumeInv
  <2>2. PICK i \in 1..Len(chunks[h]) : o \in chunks[h][i].lo..(chunks[h][i].hi - 1)
    BY DEF Delivered
  <2>3. PICK j \in 1..Len(chunks[g]) : o \in chunks[g][j].lo..(chunks[g][j].hi - 1)
    BY DEF Delivered
  <2>4. begin[h] <= chunks[h][i].lo /\ chunks[g][j].hi <= cursor[g]
    BY <2>1 DEF OrderInv, DeliveredInOrder
  <2>5. /\ chunks[h][i].lo \in Nat /\ chunks[h][i].hi \in Nat
        /\ chunks[g][j].lo \in Nat /\ chunks[g][j].hi \in Nat
    BY <2>1, ChunkTyping
  <2>6. cursor[g] \in Nat
    BY <2>1 DEF TypeOK
  <2>7. chunks[h][i].lo <= o /\ o \in Nat
    BY <2>2, <2>5
  <2>8. o < chunks[g][j].hi
    BY <2>3, <2>5, <2>7
  <2>9. QED
    BY <2>1, <2>4, <2>5, <2>6, <2>7, <2>8
<1>2. QED
  BY <1>1, TypeCorrect, OrderInvariant, ResumeInvariant, PTL

-----------------------------------------------------------------------------
(* The output feed. *)

Has(w, type) == \E i \in 1..Len(w) : w[i].type = type

\* No output follows an exit, whose cursor is an offset of the output.
WireInv(w) ==
  \A i \in 1..Len(w) : w[i].type = "exit" =>
    w[i].lo \in Offsets /\ \A j \in i..Len(w) : w[j].type # "output"

\* Once the exit is sent the runtime sends nothing more, and once it is
\* received nothing more is on its way.
EndInv(h) ==
  /\ begin[h] \in Offsets /\ cursor[h] \in Offsets /\ WireInv(wire[h])
  /\ result[h] # NoResult => ~Has(wire[h], "output")
  /\ result[h] # NoResult \/ Has(wire[h], "exit") => peer[h] \in {"gone", "lost"}

FeedInv == \A h \in Handles : EndInv(h)

\* What arrives on a wire that is no output and no exit changes nothing.
LEMMA WireAppends ==
  ASSUME NEW w \in Seq(Messages), NEW m \in Messages, m.type \notin {"output", "exit"}, WireInv(w)
  PROVE  /\ WireInv(Append(w, m))
         /\ \A type \in {"output", "exit"} : Has(Append(w, m), type) => Has(w, type)
<1>1. /\ Len(Append(w, m)) = Len(w) + 1 /\ Len(w) \in Nat
      /\ Append(w, m)[Len(w) + 1] = m
      /\ \A i \in 1..Len(w) : Append(w, m)[i] = w[i]
  OBVIOUS
<1>2. QED
  BY <1>1 DEF WireInv, Has

\* Receiving the first message.
LEMMA WireTail ==
  ASSUME NEW w \in Seq(Messages), w # <<>>, WireInv(w)
  PROVE  /\ WireInv(Tail(w))
         /\ \A type \in {"output", "exit"} : Has(Tail(w), type) => Has(w, type)
         /\ Head(w).type = "exit" => ~Has(Tail(w), "output") /\ Head(w).lo \in Offsets
<1>1. /\ Len(Tail(w)) = Len(w) - 1 /\ Len(w) \in Nat \ {0} /\ Head(w) = w[1]
      /\ \A i \in 1..Len(Tail(w)) : Tail(w)[i] = w[i + 1]
  OBVIOUS
<1>2. QED
  BY <1>1 DEF WireInv, Has

\* Losing the end of what was in flight.
LEMMA WireCut ==
  ASSUME NEW w \in Seq(Messages), NEW n \in 0..Len(w), WireInv(w)
  PROVE  /\ WireInv(SubSeq(w, 1, n)) /\ SubSeq(w, 1, n) \in Seq(Messages)
         /\ \A type \in {"output", "exit"} : Has(SubSeq(w, 1, n), type) => Has(w, type)
<1>1. /\ Len(SubSeq(w, 1, n)) = n /\ Len(w) \in Nat /\ SubSeq(w, 1, n) \in Seq(Messages)
      /\ \A i \in 1..n : SubSeq(w, 1, n)[i] = w[i]
  OBVIOUS
<1>2. QED
  BY <1>1 DEF WireInv, Has

\* The events that end a connection are no output and no exit.
LEMMA WireEnds ==
  ASSUME NEW w \in Seq(Messages), NEW clean \in BOOLEAN, WireInv(w)
  PROVE  /\ WireInv(w \o Ending(clean))
         /\ \A type \in {"output", "exit"} : Has(w \o Ending(clean), type) => Has(w, type)
<1>1. Event("closed") \in Messages /\ Event("neterr") \in Messages
  BY MessageTyping DEF MessageTypes
<1>2. CASE clean
  <2>1. w \o Ending(clean) = Append(w, Event("closed"))
    BY <1>1, <1>2 DEF Ending
  <2>2. QED
    BY <1>1, <2>1, WireAppends DEF Event
<1>3. CASE ~clean
  <2>1. w \o Ending(clean) = Append(Append(w, Event("neterr")), Event("closed"))
    BY <1>1, <1>3 DEF Ending
  <2>2. Append(w, Event("neterr")) \in Seq(Messages)
    BY <1>1
  <2>3. QED
    <3>1. PICK v : v = Append(w, Event("neterr"))
      OBVIOUS
    <3>2. WireInv(v) /\ \A type \in {"output", "exit"} : Has(v, type) => Has(w, type)
      BY <1>1, <3>1, WireAppends DEF Event
    <3>3. /\ WireInv(Append(v, Event("closed")))
          /\ \A type \in {"output", "exit"} : Has(Append(v, Event("closed")), type) => Has(v, type)
      <4>1. v \in Seq(Messages) /\ Event("closed").type \notin {"output", "exit"}
        BY <2>2, <3>1 DEF Event
      <4>2. QED
        BY <1>1, <3>2, <4>1, WireAppends
    <3>4. QED
      BY <2>1, <3>1, <3>2, <3>3
<1>4. QED
  BY <1>2, <1>3

\* Nothing new comes for handle p, and its connection stays as ended as it is.
Quiet(p) ==
  /\ WireInv(wire'[p])
  /\ \A type \in {"output", "exit"} : Has(wire'[p], type) => Has(wire[p], type)
  /\ peer[p] \in {"gone", "lost"} => peer'[p] \in {"gone", "lost"}

LEMMA QuietEndInv ==
  ASSUME NEW p \in Handles, EndInv(p), Quiet(p),
         begin'[p] = begin[p], cursor'[p] = cursor[p], result'[p] = result[p]
  PROVE  EndInv(p)'
  BY DEF EndInv, Quiet

\* Events that are no output and no exit arrive, or nothing.
LEMMA EventQuiet ==
  ASSUME TypeOK, FeedInv, NEW p \in Handles,
         peer[p] \in {"gone", "lost"} => peer'[p] \in {"gone", "lost"},
         \/ wire'[p] = wire[p]
         \/ \E type \in {"ready", "evicted", "fault"} : wire'[p] = Append(wire[p], Event(type))
  PROVE  Quiet(p)
<1>1. wire[p] \in Seq(Messages) /\ WireInv(wire[p])
  BY DEF TypeOK, FeedInv, EndInv
<1>2. ASSUME NEW type \in {"ready", "evicted", "fault"}, wire'[p] = Append(wire[p], Event(type))
      PROVE  Quiet(p)
  <2>1. Event(type) \in Messages /\ Event(type).type \notin {"output", "exit"}
    BY MessageTyping DEF MessageTypes, Event
  <2>2. /\ WireInv(Append(wire[p], Event(type)))
        /\ \A t \in {"output", "exit"} : Has(Append(wire[p], Event(type)), t) => Has(wire[p], t)
    BY <1>1, <2>1, WireAppends
  <2>3. QED
    BY <1>2, <2>2 DEF Quiet
<1>3. CASE wire'[p] = wire[p]
  BY <1>1, <1>3 DEF Quiet
<1>4. QED
  BY <1>2, <1>3

\* A step that touches neither the wires nor the runtime's ends.
LEMMA UnchangedQuiet ==
  ASSUME FeedInv, wire' = wire, peer' = peer, NEW p \in Handles
  PROVE  Quiet(p)
  BY DEF FeedInv, EndInv, Quiet

\* The runtime and the network keep FeedInv.
LEMMA RuntimeFeedInv ==
  ASSUME TypeOK, PeerInv, FeedInv, NEW h \in Handles, Runtime(h)
  PROVE  FeedInv'
<1>1. UNCHANGED <<begin, cursor, result>>
  BY DEF Runtime, AcceptAttach, Refuse, SendOutput, SendExit, Drop, connVars, outVars
<1>2. /\ wire \in [Handles -> Seq(Messages)]
      /\ peer \in [Handles -> {"none", "requested", "serving", "gone", "lost"}]
      /\ \A p \in Handles : EndInv(p) /\ WireInv(wire[p])
  BY DEF TypeOK, FeedInv, EndInv
<1>3. SUFFICES ASSUME NEW p \in Handles PROVE EndInv(p)'
  BY DEF FeedInv
<1>5. ASSUME NEW from \in Offsets, AcceptAttach(h, from) PROVE EndInv(p)'
  <2>1. \/ wire'[p] = wire[p] \/ wire'[p] = Append(wire[p], Event("ready"))
        \/ wire'[p] = Append(wire[p], Event("evicted"))
    BY <1>2, <1>5 DEF AcceptAttach
  <2>2. peer[p] \in {"gone", "lost"} => peer'[p] \in {"gone", "lost"}
    BY <1>2, <1>5 DEF AcceptAttach
  <2>3. Quiet(p)
    BY <2>1, <2>2, EventQuiet
  <2>4. QED
    BY <1>1, <1>2, <2>3, QuietEndInv
<1>6. CASE Refuse(h)
  <2>1. wire'[p] = wire[p] \/ wire'[p] = Append(wire[p], Event("fault"))
    BY <1>2, <1>6 DEF Refuse, Send
  <2>2. peer[p] \in {"gone", "lost"} => peer'[p] \in {"gone", "lost"}
    BY <1>2, <1>6 DEF Refuse
  <2>3. Quiet(p)
    BY <2>1, <2>2, EventQuiet
  <2>4. QED
    BY <1>1, <1>2, <2>3, QuietEndInv
<1>7. ASSUME NEW kept \in 0..Len(wire[h]), NEW clean \in BOOLEAN, Drop(h, kept, clean) PROVE EndInv(p)'
  <2>1. \/ wire'[p] = wire[p] \/ wire'[p] = Append(wire[p], Event("evicted"))
        \/ p = h /\ wire'[p] = SubSeq(wire[h], 1, kept) \o Ending(clean)
    BY <1>2, <1>7 DEF Drop, Release
  <2>2. peer[p] \in {"gone", "lost"} => peer'[p] \in {"gone", "lost"}
    BY <1>2, <1>7 DEF Drop, Release
  <2>3. Quiet(p)
    <3>1. CASE p = h /\ wire'[p] = SubSeq(wire[h], 1, kept) \o Ending(clean)
      <4>1. PICK w : w = SubSeq(wire[h], 1, kept)
        OBVIOUS
      <4>2. /\ WireInv(w) /\ w \in Seq(Messages)
            /\ \A type \in {"output", "exit"} : Has(w, type) => Has(wire[h], type)
        BY <1>2, <4>1, WireCut
      <4>3. /\ WireInv(w \o Ending(clean))
            /\ \A type \in {"output", "exit"} : Has(w \o Ending(clean), type) => Has(w, type)
        BY <4>2, WireEnds
      <4>4. QED
        BY <2>2, <3>1, <4>1, <4>2, <4>3 DEF Quiet
    <3>2. QED
      BY <2>1, <2>2, <3>1, EventQuiet
  <2>4. QED
    BY <1>1, <1>2, <2>3, QuietEndInv
<1>8. ASSUME p # h, SendExit(h) \/ \E hi \in Offsets : SendOutput(h, hi) PROVE EndInv(p)'
  <2>1. wire'[p] = wire[p] /\ peer'[p] = peer[p]
    BY <1>2, <1>8 DEF SendOutput, SendExit, Send
  <2>2. QED
    BY <1>1, <1>2, <2>1, QuietEndInv DEF Quiet
<1>9. ASSUME p = h, peer[h] = "serving" PROVE result[h] = NoResult /\ ~Has(wire[h], "exit")
  BY <1>2, <1>9 DEF EndInv
<1>10. ASSUME p = h, NEW hi \in Offsets, SendOutput(h, hi) PROVE EndInv(p)'
  <2>1. PICK m : m = OutputFrame(Larger(sent[h], base), hi)
    OBVIOUS
  <2>2. /\ wire'[h] = Append(wire[h], m) /\ m.type = "output"
        /\ peer[h] = "serving" /\ peer' = peer /\ wire[h] \in Seq(Messages)
    BY <1>2, <1>10, <2>1 DEF SendOutput, Send, OutputFrame
  <2>3. /\ Len(wire'[h]) = Len(wire[h]) + 1 /\ wire'[h][Len(wire[h]) + 1] = m
        /\ \A i \in 1..Len(wire[h]) : wire'[h][i] = wire[h][i]
    BY <2>2
  <2>4. ~Has(wire'[h], "exit")
    BY <1>9, <1>10, <2>2, <2>3 DEF Has
  <2>5. WireInv(wire'[h])
    BY <2>4 DEF WireInv, Has
  <2>6. QED
    BY <1>1, <1>2, <1>9, <1>10, <2>2, <2>4, <2>5 DEF EndInv
<1>11. ASSUME p = h, SendExit(h) PROVE EndInv(p)'
  <2>1. PICK m : m = ExitEvent(emitted)
    OBVIOUS
  <2>2. PICK w : w = wire[h] \o <<m, Event("closed")>>
    OBVIOUS
  <2>3. /\ wire'[h] = w /\ m.type = "exit" /\ m.lo \in Offsets
        /\ peer[h] = "serving" /\ peer'[h] = "gone" /\ wire[h] \in Seq(Messages)
    BY <1>2, <1>11, <2>1, <2>2 DEF SendExit, ExitEvent, TypeOK
  <2>4. /\ Len(w) = Len(wire[h]) + 2 /\ w[Len(wire[h]) + 1] = m
        /\ w[Len(wire[h]) + 2] = Event("closed")
        /\ \A i \in 1..Len(wire[h]) : w[i] = wire[h][i]
    BY <2>2, <2>3
  <2>5. Event("closed").type = "closed"
    BY DEF Event
  <2>6. WireInv(w)
    <3>1. ASSUME NEW i \in 1..Len(w), w[i].type = "exit" PROVE i = Len(wire[h]) + 1
      BY <1>9, <1>11, <2>3, <2>4, <2>5, <3>1 DEF Has
    <3>2. QED
      BY <2>3, <2>4, <2>5, <3>1 DEF WireInv
  <2>7. QED
    BY <1>1, <1>2, <1>9, <1>11, <2>3, <2>6 DEF EndInv
<1>12. QED
  BY <1>5, <1>6, <1>7, <1>8, <1>10, <1>11 DEF Runtime

\* What a handle that reads something, or the end, does to its feed: the next
\* message is off the wire, and nothing else of it changes.
LEMMA ReceivesQuiet ==
  ASSUME TypeOK, FeedInv, NEW h \in Handles, NEW types, Receives(h, types), peer' = peer, NEW p \in Handles
  PROVE  Quiet(p)
<1>1. /\ wire[h] \in Seq(Messages) /\ wire[h] # <<>> /\ WireInv(wire[p])
      /\ wire'[p] = IF p = h THEN Tail(wire[h]) ELSE wire[p]
  BY DEF TypeOK, Receives, FeedInv, EndInv
<1>2. QED
  BY <1>1, WireTail DEF Quiet

\* The listeners keep FeedInv.
LEMMA ListenerFeedInv ==
  ASSUME TypeOK, FeedInv, NEW h \in Handles, Listener(h)
  PROVE  FeedInv'
<1>1. CASE OnReady(h) \/ OnFault(h) \/ OnError(h) \/ OnClose(h)
  <2>1. /\ \E types : Receives(h, types)
        /\ peer' = peer /\ UNCHANGED <<begin, cursor, result>>
    BY <1>1 DEF OnReady, OnFault, OnError, OnClose, rtVars, outVars
  <2>2. QED
    BY <2>1, ReceivesQuiet, QuietEndInv DEF FeedInv
<1>2. CASE CloseCompletes(h)
  <2>1. UNCHANGED <<begin, cursor, result>>
    BY <1>2 DEF CloseCompletes, outVars
  <2>2. ASSUME NEW p \in Handles PROVE Quiet(p)
    <3>1. \/ wire'[p] = wire[p] \/ wire'[p] = <<>> \/ wire'[p] = Append(wire[p], Event("evicted"))
      BY <1>2 DEF TypeOK, CloseCompletes, Release
    <3>2. peer[p] \in {"gone", "lost"} => peer'[p] \in {"gone", "lost"}
      BY <1>2 DEF TypeOK, CloseCompletes, Release
    <3>5. CASE wire'[p] = <<>>
      BY <3>2, <3>5 DEF Quiet, WireInv, Has
    <3>6. QED
      BY <3>1, <3>2, <3>5, EventQuiet
  <2>3. QED
    BY <2>1, <2>2, QuietEndInv DEF FeedInv
<1>3. CASE OnOutput(h)
  <2>1. Receives(h, {"output"}) /\ peer' = peer /\ begin' = begin /\ result' = result
    BY <1>3 DEF OnOutput, rtVars, connVars
  <2>2. Head(wire[h]) \in Messages /\ Head(wire[h]).type = "output"
    BY <2>1, ReceiveTyping DEF Receives
  <2>3. cursor'[h] \in Offsets /\ \A p \in Handles \ {h} : cursor'[p] = cursor[p]
    <3>1. Head(wire[h]).hi \in Offsets
      BY <2>2 DEF Messages, Offsets
    <3>2. QED
      BY <1>3, <3>1 DEF OnOutput, CursorAfter, TypeOK, FeedInv, EndInv
  <2>4. ASSUME NEW p \in Handles PROVE EndInv(p)'
    <3>1. Quiet(p) /\ EndInv(p)
      BY <2>1, ReceivesQuiet DEF FeedInv
    <3>2. QED
      BY <2>1, <2>3, <3>1 DEF EndInv, Quiet
  <2>5. QED
    BY <2>4 DEF FeedInv
<1>4. CASE OnExit(h)
  <2>1. Receives(h, {"exit"}) /\ peer' = peer /\ begin' = begin
    BY <1>4 DEF OnExit, rtVars, connVars
  <2>2. /\ wire[h] \in Seq(Messages) /\ wire[h] # <<>> /\ Head(wire[h]).type = "exit"
        /\ wire'[h] = Tail(wire[h]) /\ WireInv(wire[h]) /\ cursor[h] \in Offsets
        /\ EndInv(h)
    BY <2>1 DEF TypeOK, Receives, FeedInv, EndInv
  <2>3. /\ ~Has(wire'[h], "output") /\ Head(wire[h]).lo \in Offsets
        /\ Has(wire[h], "exit")
    BY <2>2, WireTail DEF Has
  <2>4. /\ cursor'[h] \in Offsets
        /\ \A p \in Handles \ {h} : cursor'[p] = cursor[p] /\ result'[p] = result[p]
    BY <1>4, <2>2, <2>3 DEF OnExit, TypeOK, Larger
  <2>5. peer[h] \in {"gone", "lost"}
    BY <2>2, <2>3 DEF EndInv
  <2>6. ASSUME NEW p \in Handles PROVE EndInv(p)'
    <3>1. Quiet(p) /\ EndInv(p)
      BY <2>1, ReceivesQuiet DEF FeedInv
    <3>2. CASE p = h
      BY <2>1, <2>3, <2>4, <2>5, <3>1, <3>2 DEF EndInv, Quiet
    <3>3. CASE p # h
      BY <2>1, <2>4, <3>1, <3>3, QuietEndInv
    <3>4. QED
      BY <3>2, <3>3
  <2>7. QED
    BY <2>6 DEF FeedInv
<1>5. QED
  BY <1>1, <1>2, <1>3, <1>4 DEF Listener

\* Opening a connection keeps FeedInv.
LEMMA OpeningFeedInv ==
  ASSUME TypeOK, PeerInv, FeedInv, NEW h \in Handles, Opening(h)
  PROVE  FeedInv'
<1>1. ASSUME NEW g \in Handles \cup {NoHandle}, Attach(h, g) PROVE FeedInv'
  <2>1. PICK a \in Offsets : begin' = [begin EXCEPT ![h] = a]
    <3>1. 0 \in Offsets
      BY LogAssumption DEF Offsets, NBytes
    <3>2. g \in Handles => cursor[g] \in Offsets
      BY DEF FeedInv, EndInv
    <3>3. QED
      BY <1>1, <3>1, <3>2 DEF Attach
  <2>2. /\ begin'[h] = a /\ cursor'[h] = a /\ wire' = wire /\ peer' = peer /\ result' = result
        /\ \A p \in Handles \ {h} : begin'[p] = begin[p] /\ cursor'[p] = cursor[p]
    <3>1. begin'[h] = a /\ \A p \in Handles \ {h} : begin'[p] = begin[p]
      BY <2>1 DEF TypeOK
    <3>2. cursor' = [cursor EXCEPT ![h] = begin'[h]]
      BY <1>1 DEF Attach
    <3>3. QED
      BY <1>1, <3>1, <3>2 DEF Attach, TypeOK, rtVars
  <2>3. ASSUME NEW p \in Handles PROVE EndInv(p)'
    BY <2>2 DEF FeedInv, EndInv
  <2>4. QED
    BY <2>3 DEF FeedInv
<1>2. CASE EndpointFails(h) \/ DialFails(h)
  <2>1. UNCHANGED <<begin, cursor, result, wire, peer>>
    BY <1>2 DEF EndpointFails, DialFails, rtVars, outVars
  <2>2. QED
    BY <2>1 DEF FeedInv, EndInv
<1>3. CASE DialOpens(h)
  <2>1. /\ UNCHANGED <<begin, cursor, result, wire>>
        /\ sock[h] = "dialing" /\ peer' = [peer EXCEPT ![h] = "requested"]
    BY <1>3 DEF DialOpens, outVars
  <2>2. peer[h] = "none"
    BY <2>1 DEF PeerInv
  <2>3. ASSUME NEW p \in Handles PROVE EndInv(p)'
    <3>1. peer[p] \in {"gone", "lost"} => peer'[p] \in {"gone", "lost"}
      BY <2>1, <2>2 DEF TypeOK
    <3>2. Quiet(p) /\ EndInv(p)
      BY <2>1, <3>1 DEF FeedInv, EndInv, Quiet
    <3>3. QED
      BY <2>1, <3>2, QuietEndInv
  <2>4. QED
    BY <2>3 DEF FeedInv
<1>4. QED
  BY <1>1, <1>2, <1>3 DEF Opening

\* FeedInv holds in every reachable state.
LEMMA FeedInvariant == Spec => []FeedInv
<1>1. Init => FeedInv
  <2>1. 0 \in Offsets
    BY LogAssumption DEF Offsets, NBytes
  <2>2. ASSUME Init, NEW h \in Handles PROVE EndInv(h)
    <3>1. wire[h] = <<>> /\ begin[h] = 0 /\ cursor[h] = 0 /\ result[h] = NoResult
      BY <2>2, InitHandle
    <3>2. Len(wire[h]) = 0
      BY <3>1
    <3>3. WireInv(wire[h]) /\ ~Has(wire[h], "exit")
      BY <3>2 DEF WireInv, Has
    <3>4. QED
      BY <2>1, <3>1, <3>3 DEF EndInv
  <2>3. QED
    BY <2>2 DEF FeedInv
<1>2. TypeOK /\ PeerInv /\ FeedInv /\ [Next]_vars => FeedInv'
  <2> SUFFICES ASSUME TypeOK, PeerInv, FeedInv, [Next]_vars PROVE FeedInv'
    OBVIOUS
  <2>1. CASE UNCHANGED <<begin, cursor, result, wire, peer>>
    BY <2>1 DEF FeedInv, EndInv
  <2>2. CASE Run \/ Emit \/ Trim \/ ProcessExits \/ UNCHANGED vars
    BY <2>1, <2>2 DEF Run, Emit, Trim, ProcessExits, vars, rtVars, connVars, outVars
  <2>3. CASE AcceptStart
    <3>1. /\ UNCHANGED <<begin, cursor, result>>
          /\ \A p \in Handles :
               /\ wire'[p] = wire[p] \/ wire'[p] = Append(wire[p], Event("ready"))
               /\ peer[p] \in {"gone", "lost"} => peer'[p] \in {"gone", "lost"}
      BY <2>3 DEF AcceptStart, Send, TypeOK, connVars, outVars
    <3>2. \A p \in Handles : Quiet(p)
      BY <3>1, EventQuiet
    <3>3. QED
      BY <3>1, <3>2, QuietEndInv DEF FeedInv
  <2>4. ASSUME NEW h \in Handles, Caller(h) PROVE FeedInv'
    BY <2>1, <2>4 DEF Caller, Disconnect, Kill, Wait, WaitSettles, rtVars, connVars, outVars
  <2>5. QED
    BY <2>2, <2>3, <2>4, OpeningFeedInv, RuntimeFeedInv, ListenerFeedInv DEF Next
<1>3. QED
  BY <1>1, <1>2, TypeCorrect, PeerInvariant, PTL DEF Spec

\* No calls, no bytes.
LEMMA NoneDelivered ==
  ASSUME NEW h \in Handles, chunks[h] = <<>>
  PROVE  Delivered(h) = {}
<1>1. \A o : o \in Delivered(h) <=> \E i \in 1..Len(chunks[h]) : o \in chunks[h][i].lo..(chunks[h][i].hi - 1)
  BY DEF Delivered
<1>2. ~(\E i \in 1..Len(chunks[h]) : TRUE)
  OBVIOUS
<1>3. QED
  BY <1>1, <1>2

\* A handle that has begun nothing has been given nothing.
LEMMA NothingYet ==
  ASSUME PeerInv, ConnInv, FeedInv, NEW h \in Handles, sock[h] = "idle"
  PROVE  Delivered(h) = {} /\ result[h] = NoResult
<1>1. chunks[h] = <<>> /\ peer[h] = "none"
  BY DEF PeerInv, ConnInv
<1>2. result[h] = NoResult
  BY <1>1 DEF FeedInv, EndInv
<1>3. QED
  BY <1>1, <1>2, NoneDelivered

\* What a call of onOutput adds to the bytes a handle was given.
LEMMA DeliveredAppend ==
  ASSUME TypeOK, NEW h \in Handles, NEW c \in [lo : Nat, hi : Nat],
         chunks'[h] = Append(chunks[h], c)
  PROVE  Delivered(h)' = Delivered(h) \cup (c.lo..(c.hi - 1))
<1>1. chunks[h] \in Seq([lo : Nat, hi : Nat])
  BY DEF TypeOK
<1>2. /\ Len(chunks'[h]) = Len(chunks[h]) + 1 /\ Len(chunks[h]) \in Nat
      /\ chunks'[h][Len(chunks[h]) + 1] = c
      /\ \A i \in 1..Len(chunks[h]) : chunks'[h][i] = chunks[h][i]
  BY <1>1
<1>3. \A o : o \in Delivered(h) <=> \E i \in 1..Len(chunks[h]) : o \in chunks[h][i].lo..(chunks[h][i].hi - 1)
  BY DEF Delivered
<1>4. \A o : o \in Delivered(h)' <=> \E i \in 1..Len(chunks'[h]) : o \in chunks'[h][i].lo..(chunks'[h][i].hi - 1)
  BY DEF Delivered
<1>5. ASSUME NEW o PROVE o \in Delivered(h)' <=> o \in Delivered(h) \/ o \in c.lo..(c.hi - 1)
  <2>1. ASSUME NEW i \in 1..Len(chunks'[h]), o \in chunks'[h][i].lo..(chunks'[h][i].hi - 1)
        PROVE  o \in Delivered(h) \/ o \in c.lo..(c.hi - 1)
    <3>1. i \in 1..Len(chunks[h]) \/ i = Len(chunks[h]) + 1
      BY <1>2
    <3>2. QED
      BY <1>2, <1>3, <2>1, <3>1
  <2>2. Len(chunks[h]) + 1 \in 1..Len(chunks'[h]) /\ 1..Len(chunks[h]) \subseteq 1..Len(chunks'[h])
    BY <1>2
  <2>3. ASSUME o \in Delivered(h) \/ o \in c.lo..(c.hi - 1) PROVE o \in Delivered(h)'
    BY <1>2, <1>3, <1>4, <2>2, <2>3
  <2>4. QED
    BY <1>4, <2>1, <2>3
<1>6. QED
  BY <1>5

\* Nothing at or after the cursor was given yet.
LEMMA DeliveredBefore ==
  ASSUME TypeOK, OrderInv, NEW h \in Handles, NEW from \in Nat, NEW to \in Nat, cursor[h] <= from
  PROVE  Delivered(h) \cap (from..(to - 1)) = {}
<1>1. SUFFICES ASSUME NEW o \in Delivered(h), o \in from..(to - 1) PROVE FALSE
  OBVIOUS
<1>2. PICK i \in 1..Len(chunks[h]) : o \in chunks[h][i].lo..(chunks[h][i].hi - 1)
  BY DEF Delivered
<1>3. chunks[h][i].hi <= cursor[h] /\ chunks[h][i].hi \in Nat /\ chunks[h][i].lo \in Nat /\ cursor[h] \in Nat
  BY ChunkTyping DEF OrderInv, DeliveredInOrder, TypeOK
<1>4. QED
  BY <1>1, <1>2, <1>3

\* A step that touches neither the cursors, the calls nor the results.
FeedUntouched == UNCHANGED <<cursor, chunks, result>>

LEMMA UntouchedStutters == ASSUME FeedUntouched PROVE UNCHANGED Feed!vars
  BY DEF FeedUntouched, Feed!vars, Delivered

\* Attaching chooses where to begin.
LEMMA AttachSeeks ==
  ASSUME TypeOK, ConnInv, PeerInv, FeedInv, FeedInv', NEW h \in Handles,
         NEW g \in Handles \cup {NoHandle}, Attach(h, g)
  PROVE  Feed!Next
<1>1. PICK to : to = begin'[h]
  OBVIOUS
<1>2. to \in 0..NBytes
  BY <1>1 DEF FeedInv, EndInv, Offsets
<1>3. Delivered(h) = {} /\ result[h] = NoResult
  BY NothingYet DEF Attach
<1>4. cursor' = [cursor EXCEPT ![h] = to] /\ chunks' = chunks /\ result' = result
  BY <1>1 DEF Attach
<1>5. Feed!Seek(h, to)
  BY <1>3, <1>4 DEF Feed!Seek, Delivered
<1>6. QED
  BY <1>2, <1>5 DEF Feed!Next

\* A call of onOutput reads bytes that no call had.
LEMMA OutputReads ==
  ASSUME TypeOK, OrderInv, FeedInv, FeedInv', NEW h \in Handles, OnOutput(h)
  PROVE  Feed!Next \/ UNCHANGED Feed!vars
<1>1. CASE Head(wire[h]).hi <= cursor[h]
  BY <1>1, UntouchedStutters DEF OnOutput, FeedUntouched
<1>2. CASE ~(Head(wire[h]).hi <= cursor[h])
  <2>1. PICK from, to : from = FirstNew(h, Head(wire[h])) /\ to = Head(wire[h]).hi
    OBVIOUS
  <2>2. /\ Receives(h, {"output"}) /\ result' = result
        /\ cursor' = [cursor EXCEPT ![h] = to]
        /\ chunks' = [chunks EXCEPT ![h] = Append(@, [lo |-> from, hi |-> to])]
    BY <1>2, <2>1 DEF OnOutput, CursorAfter
  <2>3. Head(wire[h]) \in Messages /\ Head(wire[h]).type = "output"
    BY <2>2, ReceiveTyping DEF Receives
  <2>4. /\ from \in Nat /\ to \in Nat /\ cursor[h] \in Nat
        /\ cursor[h] <= from /\ from < to /\ to <= NBytes
    <3>1. PICK m \in Messages : m = Head(wire[h]) /\ m.type = "output"
      BY <2>3
    <3>2. m.lo \in Nat /\ m.hi \in Nat /\ m.lo < m.hi /\ m.hi <= NBytes
      BY <3>1 DEF Messages
    <3>3. cursor[h] \in Nat
      BY DEF TypeOK
    <3>4. QED
      BY <1>2, <2>1, <3>1, <3>2, <3>3 DEF FirstNew, Larger
  <2>5. result[h] = NoResult
    BY <2>2, <2>3, WireTail DEF FeedInv, EndInv, Has, Receives, TypeOK
  <2>6. Delivered(h)' = Delivered(h) \cup (from..(to - 1))
    <3>1. chunks'[h] = Append(chunks[h], [lo |-> from, hi |-> to])
      BY <2>2 DEF TypeOK
    <3>2. QED
      BY <2>4, <3>1, DeliveredAppend
  <2>7. \A p \in Handles \ {h} : Delivered(p)' = Delivered(p)
    BY <2>2 DEF TypeOK, Delivered
  <2>8. Delivered(h) \cap (from..(to - 1)) = {}
    BY <2>4, DeliveredBefore
  <2>9. [p \in Handles |-> Delivered(p)]'
          = [[p \in Handles |-> Delivered(p)] EXCEPT ![h] = @ \cup (from..(to - 1))]
    BY <2>6, <2>7
  <2>10. Feed!Read(h, from, to)
    BY <2>2, <2>4, <2>5, <2>8, <2>9 DEF Feed!Read
  <2>11. NBytes \in Nat /\ from \in 0..NBytes /\ to \in 0..NBytes
    BY <2>4, LogAssumption DEF NBytes
  <2>12. QED
    BY <2>10, <2>11 DEF Feed!Next
<1>3. QED
  BY <1>1, <1>2

\* The first exit finishes the feed.
LEMMA ExitFinishes ==
  ASSUME TypeOK, FeedInv, FeedInv', NEW h \in Handles, OnExit(h)
  PROVE  Feed!Next \/ UNCHANGED Feed!vars
<1>1. CASE result[h] # NoResult
  BY <1>1, UntouchedStutters DEF OnExit, FeedUntouched
<1>2. CASE result[h] = NoResult
  <2>1. PICK to, r : to = cursor'[h] /\ r = [exited |-> TRUE, calls |-> Len(chunks[h])]
    OBVIOUS
  <2>2. /\ Receives(h, {"exit"}) /\ chunks' = chunks
        /\ cursor' = [cursor EXCEPT ![h] = Larger(@, Head(wire[h]).lo)]
        /\ result' = [result EXCEPT ![h] = r]
    BY <1>2, <2>1 DEF OnExit
  <2>3. Head(wire[h]).lo \in Nat /\ cursor[h] \in Nat
    BY <2>2, ReceiveTyping DEF Messages, TypeOK
  <2>4. cursor' = [cursor EXCEPT ![h] = to] /\ cursor[h] <= to
    <3>1. PICK x : x = Larger(cursor[h], Head(wire[h]).lo)
      OBVIOUS
    <3>2. cursor[h] <= x
      BY <2>3, <3>1 DEF Larger
    <3>3. cursor' = [cursor EXCEPT ![h] = x] /\ cursor'[h] = x
      BY <2>2, <3>1 DEF TypeOK
    <3>4. QED
      BY <2>1, <3>2, <3>3
  <2>5. to \in 0..NBytes
    BY <2>1 DEF FeedInv, EndInv, Offsets
  <2>6. r # NoResult
    BY <2>1 DEF NoResult
  <2>7. result'[h] # NoResult /\ \A p \in Handles \ {h} : result'[p] = result[p]
    BY <2>2, <2>6 DEF TypeOK
  <2>8. [p \in Handles |-> result[p] # NoResult]'
          = [[p \in Handles |-> result[p] # NoResult] EXCEPT ![h] = TRUE]
    BY <2>7
  <2>9. [p \in Handles |-> Delivered(p)]' = [p \in Handles |-> Delivered(p)]
    BY <2>2 DEF Delivered
  <2>10. Feed!Finish(h, to)
    BY <1>2, <2>4, <2>8, <2>9 DEF Feed!Finish
  <2>11. QED
    BY <2>5, <2>10 DEF Feed!Next
<1>3. QED
  BY <1>1, <1>2

\* The handles implement the feed OutputFeed describes: with the wires, the
\* runtime, retries, evictions and failures hidden, every step moves a reader
\* forward through bytes it was not given, ends it, or changes nothing.
THEOREM RefinesFeed == Spec => ImplementsFeed
<1>1. Init => Feed!Init
  <2> SUFFICES ASSUME Init PROVE Feed!Init
    OBVIOUS
  <2>1. cursor = [h \in Handles |-> 0]
    BY DEF Init
  <2>2. ASSUME NEW h \in Handles PROVE Delivered(h) = {} /\ result[h] = NoResult
    <3>1. chunks[h] = <<>> /\ result[h] = NoResult
      BY InitHandle
    <3>2. QED
      BY <3>1, NoneDelivered
  <2>3. QED
    BY <2>1, <2>2 DEF Feed!Init
<1>2. /\ TypeOK /\ ConnInv /\ PeerInv /\ OrderInv /\ FeedInv /\ FeedInv' /\ [Next]_vars
      => [Feed!Next]_(Feed!vars)
  <2> SUFFICES ASSUME TypeOK, ConnInv, PeerInv, OrderInv, FeedInv, FeedInv', [Next]_vars
               PROVE  Feed!Next \/ UNCHANGED Feed!vars
    OBVIOUS
  <2>1. CASE FeedUntouched
    BY <2>1, UntouchedStutters
  <2>2. CASE Run
    BY <2>1, <2>2 DEF Run, FeedUntouched, outVars
  <2>3. CASE ClientUntouched
    BY <2>1, <2>3 DEF ClientUntouched, FeedUntouched, outVars
  <2>4. ASSUME NEW h \in Handles, Opening(h) PROVE Feed!Next \/ UNCHANGED Feed!vars
    <3>1. CASE EndpointFails(h) \/ DialFails(h) \/ DialOpens(h)
      BY <2>1, <3>1 DEF EndpointFails, DialFails, DialOpens, FeedUntouched, outVars
    <3>2. QED
      BY <2>4, <3>1, AttachSeeks DEF Opening
  <2>5. ASSUME NEW h \in Handles, Listener(h) PROVE Feed!Next \/ UNCHANGED Feed!vars
    <3>1. CASE OnReady(h) \/ OnFault(h) \/ OnError(h) \/ OnClose(h) \/ CloseCompletes(h)
      BY <2>1, <3>1 DEF OnReady, OnFault, OnError, OnClose, CloseCompletes, FeedUntouched, outVars
    <3>2. QED
      BY <2>5, <3>1, OutputReads, ExitFinishes DEF Listener
  <2>6. ASSUME NEW h \in Handles, Disconnect(h) \/ Wait(h) \/ WaitSettles(h)
        PROVE  Feed!Next \/ UNCHANGED Feed!vars
    BY <2>1, <2>6 DEF Disconnect, Wait, WaitSettles, FeedUntouched, outVars
  <2>7. QED
    BY <2>2, <2>3, <2>4, <2>5, <2>6, StepSplit
<1>3. QED
  BY <1>1, <1>2, TypeCorrect, ConnInvariant, PeerInvariant, OrderInvariant, FeedInvariant, PTL
  DEF Spec, ImplementsFeed, Feed!Spec

-----------------------------------------------------------------------------
(* Nothing is lost. *)

\* Byte o is in one of the first n messages of w.
InFrame(w, n, o) == \E i \in 1..n : w[i].type = "output" /\ w[i].lo <= o /\ o < w[i].hi

\* Every byte from from up to to is in given or in one of the first n messages.
Accounted(given, w, n, from, to) ==
  \A o \in Nat : from <= o /\ o < to => o \in given \/ InFrame(w, n, o)

\* What lies before a frame, or before the exit, is in given or in an earlier
\* frame.
Chained(given, w, from) ==
  \A i \in 1..Len(w) : w[i].type \in {"output", "exit"} => Accounted(given, w, i - 1, from, w[i].lo)

\* The bytes that h was given or that no longer existed when their turn came.
Settled(h) == Delivered(h) \cup missed[h]

\* Nothing was sent to h yet, and it has nothing.
Untouched(h) ==
  /\ chunks[h] = <<>> /\ cursor[h] = begin[h] /\ fed[h] = Flushed /\ sent[h] = 0
  /\ ~Has(wire[h], "output") /\ ~Has(wire[h], "exit")

\* Whatever of the output is before the cursor, before a frame on its way or
\* before what the runtime sends next is accounted for.
SeamInv(h) ==
  /\ Accounted(Settled(h), wire[h], 0, begin[h], cursor[h])
  /\ Chained(Settled(h), wire[h], begin[h])
  /\ peer[h] = "serving" => Accounted(Settled(h), wire[h], Len(wire[h]), begin[h], sent[h])
  /\ peer[h] \in {"none", "requested"} => Untouched(h)

\* The decoders hold an unbroken end of what h was given, and nothing once it
\* has a result.
DecodedInv(h) ==
  /\ h \in Collecting => \E a \in begin[h]..cursor[h] :
       \A s \in Streams : fed[h][s] = StreamBytes(s, a, cursor[h])
  /\ result[h] # NoResult => result[h].calls = Len(chunks[h]) /\ fed[h] = Flushed

LossInv == \A h \in Handles : SeamInv(h) /\ DecodedInv(h)

\* Accounting for bytes does not need more than it has.
LEMMA AccountedMore ==
  ASSUME NEW given, NEW more, given \subseteq more, NEW w, NEW n, NEW from, NEW to,
         Accounted(given, w, n, from, to)
  PROVE  Accounted(more, w, n, from, to)
  BY DEF Accounted

\* Nothing is to be accounted for before the beginning.
LEMMA NothingBefore ==
  ASSUME NEW given, NEW w, NEW n, NEW from \in Nat
  PROVE  Accounted(given, w, n, from, from)
  BY DEF Accounted

\* A wire without output and exit.
LEMMA BareWire ==
  ASSUME NEW given, NEW w, NEW from, ~Has(w, "output"), ~Has(w, "exit")
  PROVE  Chained(given, w, from)
  BY DEF Chained, Has

\* The first messages of a wire are the same whatever is sent after them.
LEMMA SamePrefix ==
  ASSUME NEW w, NEW v, NEW n \in Nat, \A i \in 1..n : v[i] = w[i]
  PROVE  \A o : InFrame(v, n, o) <=> InFrame(w, n, o)
  BY DEF InFrame

\* Something is sent: what was on the wire stays accounted for, and so does
\* what it accounts for.
LEMMA SentAfter ==
  ASSUME NEW given, NEW w \in Seq(Messages), NEW m \in Messages, NEW from \in Nat,
         Chained(given, w, from),
         m.type \in {"output", "exit"} => Accounted(given, w, Len(w), from, m.lo)
  PROVE  /\ Chained(given, Append(w, m), from)
         /\ \A to : Accounted(given, w, Len(w), from, to)
                      => Accounted(given, Append(w, m), Len(w) + 1, from, to)
<1>0. PICK n \in Nat : n = Len(w)
  OBVIOUS
<1>1. PICK v : v = Append(w, m) /\ n = Len(w)
  BY <1>0
<1>2. /\ Len(v) = n + 1 /\ v[n + 1] = m
      /\ \A i \in 1..n : v[i] = w[i]
  BY <1>1
<1>3. ASSUME NEW i \in 1..(n + 1), v[i].type \in {"output", "exit"}
      PROVE  Accounted(given, v, i - 1, from, v[i].lo)
  <2>1. i - 1 \in Nat /\ i - 1 <= n /\ \A j \in 1..(i - 1) : v[j] = w[j]
    BY <1>2
  <2>2. \A o : InFrame(v, i - 1, o) <=> InFrame(w, i - 1, o)
    BY <2>1, SamePrefix
  <2>3. Accounted(given, w, i - 1, from, v[i].lo)
    <3>1. CASE i = n + 1
      <4>1. v[i] = m /\ i - 1 = n
        BY <1>2, <3>1
      <4>2. QED
        BY <1>1, <1>3, <4>1
    <3>2. CASE i # n + 1
      <4>1. i \in 1..n /\ v[i] = w[i]
        BY <1>2, <3>2
      <4>2. QED
        BY <1>1, <1>3, <4>1 DEF Chained
    <3>3. QED
      BY <3>1, <3>2
  <2>4. QED
    BY <2>2, <2>3 DEF Accounted
<1>4. ASSUME NEW o, InFrame(w, n, o) PROVE InFrame(v, n + 1, o)
  <2>1. PICK i \in 1..n : w[i].type = "output" /\ w[i].lo <= o /\ o < w[i].hi
    BY <1>4 DEF InFrame
  <2>2. i \in 1..(n + 1) /\ v[i] = w[i]
    BY <1>2
  <2>3. QED
    BY <2>1, <2>2 DEF InFrame
<1>5. Chained(given, v, from)
  BY <1>2, <1>3 DEF Chained
<1>6. \A to : Accounted(given, w, n, from, to) => Accounted(given, v, n + 1, from, to)
  BY <1>4 DEF Accounted
<1>7. QED
  BY <1>1, <1>5, <1>6

\* A frame accounts for its bytes.
LEMMA FrameSent ==
  ASSUME NEW given, NEW w \in Seq(Messages), NEW m \in Messages, m.type = "output", NEW from \in Nat,
         Accounted(given, w, Len(w), from, m.lo)
  PROVE  Accounted(given, Append(w, m), Len(w) + 1, from, m.hi)
<1>0. PICK n \in Nat : n = Len(w)
  OBVIOUS
<1>1. PICK v : v = Append(w, m) /\ n = Len(w)
  BY <1>0
<1>2. /\ v[n + 1] = m
      /\ \A i \in 1..n : v[i] = w[i]
  BY <1>1
<1>3. ASSUME NEW o \in Nat, from <= o, o < m.hi, o \notin given PROVE InFrame(v, n + 1, o)
  <2>1. m.lo \in Nat /\ m.hi \in Nat
    BY DEF Messages
  <2>2. CASE o < m.lo
    <3>1. InFrame(w, n, o)
      BY <1>1, <1>3, <2>2 DEF Accounted
    <3>2. PICK i \in 1..n : w[i].type = "output" /\ w[i].lo <= o /\ o < w[i].hi
      BY <3>1 DEF InFrame
    <3>3. i \in 1..(n + 1) /\ v[i] = w[i]
      BY <1>2
    <3>4. QED
      BY <3>2, <3>3 DEF InFrame
  <2>3. CASE ~(o < m.lo)
    <3>1. m.lo <= o /\ n + 1 \in 1..(n + 1)
      BY <2>1, <2>3
    <3>2. QED
      BY <1>2, <1>3, <3>1 DEF InFrame
  <2>4. QED
    BY <2>2, <2>3
<1>4. QED
  BY <1>1, <1>3 DEF Accounted

\* Something is received: everything stays accounted for when what a frame
\* brings is.
LEMMA TakenOff ==
  ASSUME NEW given, NEW more, given \subseteq more, NEW w \in Seq(Messages), w # <<>>,
         NEW from \in Nat, NEW upto \in Nat, Chained(given, w, from),
         Accounted(more, w, 0, from, upto),
         Head(w).type = "output" => Head(w).hi <= upto
  PROVE  /\ Chained(more, Tail(w), from)
         /\ \A to : Accounted(given, w, Len(w), from, to)
                      => Accounted(more, Tail(w), Len(w) - 1, from, to)
<1>0. PICK n \in Nat : n = Len(w) - 1
  <2>1. Len(w) - 1 \in Nat
    OBVIOUS
  <2>2. QED
    BY <2>1
<1>1. PICK v : v = Tail(w) /\ n = Len(w) - 1
  BY <1>0
<1>2. /\ Len(v) = n /\ Len(w) = n + 1 /\ w[1] = Head(w) /\ w[1] \in Messages
      /\ \A i \in 1..n : v[i] = w[i + 1]
  BY <1>1
<1>3. ASSUME NEW k \in 0..n, NEW o \in Nat, from <= o, InFrame(w, k + 1, o), o \notin more
      PROVE  InFrame(v, k, o)
  <2>1. PICK i \in 1..(k + 1) : w[i].type = "output" /\ w[i].lo <= o /\ o < w[i].hi
    BY <1>3 DEF InFrame
  <2>2. i # 1
    <3>1. ASSUME i = 1 PROVE FALSE
      <4>1. w[1].hi \in Nat /\ w[1].hi <= upto
        BY <1>2, <2>1, <3>1 DEF Messages
      <4>2. o < upto
        BY <2>1, <3>1, <4>1
      <4>3. InFrame(w, 0, o)
        BY <1>3, <4>2 DEF Accounted
      <4>4. QED
        BY <4>3 DEF InFrame
    <3>2. QED
      BY <3>1
  <2>3. i - 1 \in 1..k /\ i - 1 \in 1..n /\ (i - 1) + 1 = i
    BY <2>2
  <2>4. v[i - 1] = w[i]
    BY <1>2, <2>3
  <2>5. QED
    BY <2>1, <2>3, <2>4 DEF InFrame
<1>4. ASSUME NEW k \in 0..n, NEW to, Accounted(given, w, k + 1, from, to)
      PROVE  Accounted(more, v, k, from, to)
  BY <1>3, <1>4 DEF Accounted
<1>5. ASSUME NEW i \in 1..n, v[i].type \in {"output", "exit"}
      PROVE  Accounted(more, v, i - 1, from, v[i].lo)
  <2>1. i + 1 \in 1..Len(w) /\ v[i] = w[i + 1] /\ (i + 1) - 1 = (i - 1) + 1 /\ i - 1 \in 0..n
    BY <1>2
  <2>2. Accounted(given, w, (i + 1) - 1, from, w[i + 1].lo)
    BY <1>5, <2>1 DEF Chained
  <2>3. QED
    BY <1>4, <2>1, <2>2
<1>6. Chained(more, v, from)
  BY <1>2, <1>5 DEF Chained
<1>7. \A to : Accounted(given, w, Len(w), from, to) => Accounted(more, v, n, from, to)
  <2>1. n \in 0..n
    OBVIOUS
  <2>2. QED
    BY <1>2, <1>4, <2>1
<1>8. QED
  BY <1>1, <1>6, <1>7

\* The end of what was in flight is lost.
LEMMA CutOff ==
  ASSUME NEW given, NEW w \in Seq(Messages), NEW n \in 0..Len(w), NEW from, Chained(given, w, from)
  PROVE  Chained(given, SubSeq(w, 1, n), from)
<1>1. PICK v : v = SubSeq(w, 1, n)
  OBVIOUS
<1>2. Len(w) \in Nat /\ Len(v) = n /\ \A i \in 1..n : v[i] = w[i]
  BY <1>1
<1>3. ASSUME NEW i \in 1..n, v[i].type \in {"output", "exit"}
      PROVE  Accounted(given, v, i - 1, from, v[i].lo)
  <2>1. i - 1 \in Nat /\ i \in 1..Len(w) /\ v[i] = w[i] /\ \A j \in 1..(i - 1) : v[j] = w[j]
    BY <1>2
  <2>2. \A o : InFrame(v, i - 1, o) <=> InFrame(w, i - 1, o)
    BY <2>1, SamePrefix
  <2>3. Accounted(given, w, i - 1, from, v[i].lo)
    BY <1>3, <2>1 DEF Chained
  <2>4. QED
    BY <2>2, <2>3 DEF Accounted
<1>4. QED
  BY <1>1, <1>2, <1>3 DEF Chained

\* Handle p stays as it is.
SameReader(p) ==
  /\ chunks'[p] = chunks[p] /\ cursor'[p] = cursor[p] /\ begin'[p] = begin[p]
  /\ fed'[p] = fed[p] /\ result'[p] = result[p]

\* So does what it was sent.
SameFor(p) == SameReader(p) /\ sent'[p] = sent[p] /\ missed'[p] = missed[p]

\* The runtime's end of p's connection does not go back.
PeerMoves(p) ==
  /\ peer'[p] \in {"none", "requested"} => peer[p] \in {"none", "requested"}
  /\ peer'[p] = "serving" => peer[p] \in {"serving", "requested"}

\* The decoders of a handle that stays as it is.
LEMMA SameDecoded ==
  ASSUME NEW p \in Handles, DecodedInv(p), SameReader(p)
  PROVE  DecodedInv(p)'
  BY DEF DecodedInv, SameReader

\* The types the accounts are about.
LEMMA SeamTyping ==
  ASSUME TypeOK, NEW p \in Handles
  PROVE  /\ wire[p] \in Seq(Messages) /\ Len(wire[p]) \in Nat
         /\ begin[p] \in Nat /\ cursor[p] \in Nat /\ sent[p] \in Nat
         /\ missed[p] \subseteq Offsets /\ chunks[p] \in Seq([lo : Nat, hi : Nat])
  BY DEF TypeOK

\* A message without bytes arrives, or nothing.
LEMMA SeamFrame ==
  ASSUME TypeOK, NEW p \in Handles, SeamInv(p), SameFor(p), PeerMoves(p),
         \/ wire'[p] = wire[p]
         \/ \E type \in {"ready", "evicted", "fault"} : wire'[p] = Append(wire[p], Event(type))
  PROVE  SeamInv(p)'
<1>1. PICK w \in Seq(Messages), n \in Nat, from \in Nat, given \in {Settled(p)} :
        w = wire[p] /\ n = Len(w) /\ from = begin[p] /\ given = Settled(p)
  BY SeamTyping
<1>2. /\ Accounted(given, w, 0, from, cursor[p]) /\ Chained(given, w, from)
      /\ peer[p] = "serving" => Accounted(given, w, n, from, sent[p])
      /\ peer[p] \in {"none", "requested"} => Untouched(p)
  BY <1>1 DEF SeamInv
<1>3. PICK v \in Seq(Messages) : v = wire'[p]
  <2>1. \A type \in {"ready", "evicted", "fault"} : Event(type) \in Messages
    BY MessageTyping DEF MessageTypes
  <2>2. ASSUME NEW type \in {"ready", "evicted", "fault"} PROVE Append(w, Event(type)) \in Seq(Messages)
    <3>1. PICK m \in Messages : m = Event(type)
      BY <2>1
    <3>2. Append(w, m) \in Seq(Messages)
      OBVIOUS
    <3>3. QED
      BY <3>1, <3>2
  <2>3. QED
    BY <1>1, <2>2
<1>4. /\ Chained(given, v, from)
      /\ \A to : Accounted(given, w, n, from, to) => Accounted(given, v, Len(v), from, to)
      /\ \A type \in {"output", "exit"} : Has(v, type) => Has(w, type)
  <2>1. CASE v = w
    BY <1>1, <1>2, <2>1
  <2>2. ASSUME NEW type \in {"ready", "evicted", "fault"}, v = Append(w, Event(type))
        PROVE  /\ Chained(given, v, from)
               /\ \A to : Accounted(given, w, n, from, to) => Accounted(given, v, Len(v), from, to)
               /\ \A t \in {"output", "exit"} : Has(v, t) => Has(w, t)
    <3>1. PICK m \in Messages : m = Event(type) /\ m.type = type
      BY MessageTyping DEF MessageTypes, Event
    <3>2. v = Append(w, m) /\ m.type \notin {"output", "exit"}
      BY <2>2, <3>1
    <3>3. /\ Chained(given, Append(w, m), from)
          /\ \A to : Accounted(given, w, Len(w), from, to)
                       => Accounted(given, Append(w, m), Len(w) + 1, from, to)
      BY <1>2, <3>2, SentAfter
    <3>4. /\ Len(v) = n + 1 /\ v[n + 1] = m
          /\ \A i \in 1..n : v[i] = w[i]
      BY <1>1, <3>2
    <3>5. ASSUME NEW t \in {"output", "exit"}, Has(v, t) PROVE Has(w, t)
      BY <1>1, <3>2, <3>4, <3>5 DEF Has
    <3>6. QED
      BY <1>1, <3>2, <3>3, <3>4, <3>5
  <2>3. QED
    BY <1>1, <1>3, <2>1, <2>2
<1>5. Settled(p)' = given
  BY <1>1 DEF SameFor, SameReader, Settled, Delivered
<1>6. Accounted(given, v, 0, from, cursor[p])
  BY <1>2 DEF Accounted, InFrame
<1>7. ASSUME peer'[p] = "serving" PROVE Accounted(given, v, Len(v), from, sent[p])
  <2>1. CASE peer[p] = "serving"
    BY <1>2, <1>4, <2>1
  <2>2. CASE peer[p] = "requested"
    <3>1. sent[p] = 0
      BY <1>2, <2>2 DEF Untouched
    <3>2. QED
      BY <3>1 DEF Accounted
  <2>3. QED
    BY <1>7, <2>1, <2>2 DEF PeerMoves
<1>8. ASSUME peer'[p] \in {"none", "requested"} PROVE Untouched(p)'
  <2>1. Untouched(p)
    BY <1>2, <1>8 DEF PeerMoves
  <2>2. QED
    BY <1>1, <1>3, <1>4, <2>1 DEF Untouched, SameFor, SameReader
<1>9. begin'[p] = from /\ cursor'[p] = cursor[p] /\ sent'[p] = sent[p]
  BY <1>1 DEF SameFor, SameReader
<1>10. QED
  BY <1>3, <1>4, <1>5, <1>6, <1>7, <1>8, <1>9 DEF SeamInv

\* No bytes lie between an offset and itself.
LEMMA NoBytes ==
  ASSUME NEW s, NEW a \in Nat
  PROVE  StreamBytes(s, a, a) = {}
<1>1. \A o \in Offsets : ~(a <= o /\ o < a)
  BY LogAssumption DEF Offsets, NBytes
<1>2. QED
  BY <1>1 DEF StreamBytes

\* In the initial state nothing was sent.
LEMMA InitLossInv == Init => LossInv
<1> SUFFICES ASSUME Init, NEW p \in Handles PROVE SeamInv(p) /\ DecodedInv(p)
  BY DEF LossInv
<1>1. /\ wire[p] = <<>> /\ begin[p] = 0 /\ cursor[p] = 0 /\ peer[p] = "none"
      /\ chunks[p] = <<>> /\ result[p] = NoResult
  BY InitHandle
<1>2. fed[p] = Flushed /\ sent[p] = 0
  BY DEF Init, Flushed
<1>3. ~Has(wire[p], "output") /\ ~Has(wire[p], "exit")
  <2>1. Len(wire[p]) = 0
    BY <1>1
  <2>2. QED
    BY <2>1 DEF Has
<1>4. Untouched(p)
  BY <1>1, <1>2, <1>3 DEF Untouched
<1>5. Accounted(Settled(p), wire[p], 0, begin[p], cursor[p])
  BY <1>1, NothingBefore
<1>6. SeamInv(p)
  BY <1>1, <1>3, <1>4, <1>5, BareWire DEF SeamInv
<1>7. DecodedInv(p)
  <2>1. 0 \in begin[p]..cursor[p]
    BY <1>1
  <2>2. \A s \in Streams : fed[p][s] = StreamBytes(s, 0, cursor[p])
    BY <1>1, <1>2, NoBytes DEF Flushed
  <2>3. QED
    BY <1>1, <2>1, <2>2 DEF DecodedInv
<1>8. QED
  BY <1>6, <1>7

\* Attaching changes where an unused handle begins.
LEMMA AttachLossInv ==
  ASSUME TypeOK, TypeOK', PeerInv, LossInv, NEW h \in Handles, NEW g \in Handles \cup {NoHandle},
         Attach(h, g)
  PROVE  LossInv'
<1>1. PICK a : begin' = [begin EXCEPT ![h] = a]
  BY DEF Attach
<1>2. /\ UNCHANGED <<wire, chunks, fed, result, peer, sent, missed>>
      /\ cursor' = [cursor EXCEPT ![h] = begin'[h]] /\ peer[h] = "none"
  BY DEF Attach, rtVars, PeerInv
<1>3. begin \in [Handles -> Nat] /\ cursor \in [Handles -> Nat] /\ begin'[h] \in Nat
  BY DEF TypeOK
<1>4. ASSUME NEW p \in Handles \ {h} PROVE SeamInv(p)' /\ DecodedInv(p)'
  <2>1. begin'[p] = begin[p] /\ cursor'[p] = cursor[p]
    BY <1>1, <1>2, <1>3
  <2>2. SameFor(p) /\ SameReader(p) /\ PeerMoves(p)
    BY <1>2, <2>1 DEF SameFor, SameReader, PeerMoves
  <2>3. QED
    BY <1>2, <2>2, SeamFrame, SameDecoded DEF LossInv
<1>5. cursor'[h] = begin'[h]
  BY <1>2, <1>3
<1>6. Untouched(h)
  BY <1>2 DEF LossInv, SeamInv
<1>7. /\ Untouched(h)' /\ ~Has(wire'[h], "output") /\ ~Has(wire'[h], "exit")
  BY <1>2, <1>5, <1>6 DEF Untouched
<1>8. SeamInv(h)'
  <2>1. Accounted(Settled(h)', wire'[h], 0, begin'[h], cursor'[h])
    BY <1>3, <1>5, NothingBefore
  <2>2. Chained(Settled(h)', wire'[h], begin'[h])
    BY <1>7, BareWire
  <2>3. QED
    BY <1>2, <1>7, <2>1, <2>2 DEF SeamInv
<1>9. DecodedInv(h)'
  <2>1. begin'[h] \in begin'[h]..cursor'[h]
    BY <1>3, <1>5
  <2>2. \A s \in Streams : fed'[h][s] = StreamBytes(s, begin'[h], cursor'[h])
    <3>1. fed'[h] = Flushed
      BY <1>7 DEF Untouched
    <3>2. \A s \in Streams : StreamBytes(s, begin'[h], cursor'[h]) = {}
      BY <1>3, <1>5, NoBytes
    <3>3. QED
      BY <3>1, <3>2 DEF Flushed
  <2>3. result[h] # NoResult => result[h].calls = Len(chunks[h]) /\ fed[h] = Flushed
    BY DEF LossInv, DecodedInv
  <2>4. QED
    BY <1>2, <2>1, <2>2, <2>3 DEF DecodedInv
<1>10. QED
  BY <1>4, <1>8, <1>9 DEF LossInv

\* The bytes the runtime skips before what it sends next are accounted for.
LEMMA SkippedSettled ==
  ASSUME NEW given, NEW more, NEW w, NEW n, NEW from, NEW at \in Nat, NEW lo \in Nat,
         Accounted(given, w, n, from, at), given \subseteq more,
         \A o \in Nat : at <= o /\ o < lo => o \in more
  PROVE  Accounted(more, w, n, from, lo)
<1>1. ASSUME NEW o \in Nat, from <= o, o < lo PROVE o \in more \/ InFrame(w, n, o)
  <2>1. o < at \/ at <= o
    OBVIOUS
  <2>2. QED
    BY <1>1, <2>1 DEF Accounted
<1>2. QED
  BY <1>1 DEF Accounted

\* Bytes that no longer exist when their turn comes are settled.
LEMMA MissedSettled ==
  ASSUME TypeOK, NEW h \in Handles, NEW more, chunks'[h] = chunks[h],
         missed'[h] = missed[h] \cup more
  PROVE  Settled(h)' = Settled(h) \cup more
<1>1. Delivered(h)' = Delivered(h)
  BY DEF Delivered
<1>2. QED
  BY <1>1 DEF Settled

\* A frame is sent.
LEMMA SendOutputSeam ==
  ASSUME TypeOK, NEW h \in Handles, SeamInv(h), NEW hi \in Offsets, SendOutput(h, hi)
  PROVE  SeamInv(h)'
<1>1. PICK w \in Seq(Messages), from \in Nat, at \in Nat, lo \in Nat :
        w = wire[h] /\ from = begin[h] /\ at = sent[h] /\ lo = Larger(sent[h], base)
  <2>1. base \in Nat /\ sent[h] \in Nat
    BY LogAssumption DEF TypeOK, Offsets, NBytes
  <2>2. Larger(sent[h], base) \in Nat
    BY <2>1 DEF Larger
  <2>3. QED
    BY <2>2, SeamTyping
<1>2. PICK given, more : given = Settled(h) /\ more = given \cup {o \in Offsets : at <= o /\ o < lo}
  OBVIOUS
<1>3. PICK m : m = OutputFrame(lo, hi)
  OBVIOUS
<1>4. /\ peer[h] = "serving" /\ peer' = peer /\ lo < hi /\ hi \in Nat /\ hi <= NBytes
      /\ \A o \in lo..(hi - 1) : StreamOf(o) = StreamOf(lo)
  BY <1>1, LogAssumption DEF SendOutput, Offsets, NBytes
<1>5. /\ m \in Messages /\ m.type = "output" /\ m.lo = lo /\ m.hi = hi
      /\ m.type # "exit"
  <2>1. OutputFrame(lo, hi) \in Messages
    BY <1>4, MessageTyping
  <2>2. QED
    BY <1>3, <2>1 DEF OutputFrame
<1>6. wire'[h] = Append(w, m) /\ sent'[h] = hi
  BY <1>1, <1>3 DEF SendOutput, Send, TypeOK
<1>7. Settled(h)' = more
  <2>1. chunks' = chunks
    BY DEF SendOutput, outVars
  <2>2. missed'[h] = missed[h] \cup {o \in Offsets : at <= o /\ o < lo}
    BY <1>1 DEF SendOutput, TypeOK
  <2>3. QED
    BY <1>2, <2>1, <2>2, MissedSettled
<1>8. /\ Chained(given, w, from) /\ Accounted(given, w, 0, from, cursor[h])
      /\ Accounted(given, w, Len(w), from, at)
  BY <1>1, <1>2, <1>4 DEF SeamInv
<1>9. Accounted(more, w, Len(w), from, lo)
  <2>1. \A o \in Nat : at <= o /\ o < lo => o \in more
    <3>1. \A o \in Nat : o < lo => o \in Offsets
      BY <1>4, LogAssumption DEF Offsets, NBytes
    <3>2. QED
      BY <1>2, <3>1
  <2>2. given \subseteq more
    BY <1>2
  <2>3. QED
    BY <1>8, <2>1, <2>2, SkippedSettled
<1>10. Chained(more, w, from)
  <2>1. given \subseteq more
    BY <1>2
  <2>2. QED
    BY <1>8, <2>1, AccountedMore DEF Chained
<1>11. Chained(more, Append(w, m), from)
  BY <1>5, <1>9, <1>10, SentAfter
<1>12. Accounted(more, Append(w, m), Len(w) + 1, from, hi)
  BY <1>5, <1>9, FrameSent
<1>13. Accounted(more, Append(w, m), 0, from, cursor[h])
  BY <1>2, <1>8 DEF Accounted, InFrame
<1>14. Len(Append(w, m)) = Len(w) + 1
  OBVIOUS
<1>15. begin'[h] = from /\ cursor'[h] = cursor[h]
  BY <1>1 DEF SendOutput, connVars, outVars
<1>16. QED
  BY <1>4, <1>6, <1>7, <1>11, <1>12, <1>13, <1>14, <1>15 DEF SeamInv

\* The exit is sent, and the connection ends.
LEMMA SendExitSeam ==
  ASSUME TypeOK, NEW h \in Handles, SeamInv(h), SendExit(h)
  PROVE  SeamInv(h)'
<1>1. PICK w \in Seq(Messages), from \in Nat, at \in Nat, end \in Nat :
        w = wire[h] /\ from = begin[h] /\ at = sent[h] /\ end = emitted
  <2>1. emitted \in Nat
    BY LogAssumption DEF TypeOK, Offsets, NBytes
  <2>2. QED
    BY <2>1, SeamTyping
<1>2. PICK given, more : given = Settled(h) /\ more = given \cup {o \in Offsets : at <= o /\ o < end}
  OBVIOUS
<1>3. PICK m \in Messages, c \in Messages :
        m = ExitEvent(end) /\ m.type = "exit" /\ m.lo = end /\ c = Event("closed") /\ c.type = "closed"
  <2>1. ExitEvent(end) \in Messages /\ Event("closed") \in Messages
    BY MessageTyping DEF MessageTypes
  <2>2. QED
    BY <2>1 DEF ExitEvent, Event
<1>4. peer[h] = "serving" /\ peer'[h] = "gone"
  BY DEF SendExit, TypeOK
<1>5. wire'[h] = w \o <<m, c>>
  BY <1>1, <1>3 DEF SendExit, TypeOK
<1>6. w \o <<m, c>> = Append(Append(w, m), c)
  OBVIOUS
<1>7. Settled(h)' = more
  <2>1. chunks' = chunks
    BY DEF SendExit, outVars
  <2>2. missed'[h] = missed[h] \cup {o \in Offsets : at <= o /\ o < end}
    BY <1>1 DEF SendExit, TypeOK
  <2>3. QED
    BY <1>2, <2>1, <2>2, MissedSettled
<1>8. /\ Chained(given, w, from) /\ Accounted(given, w, 0, from, cursor[h])
      /\ Accounted(given, w, Len(w), from, at)
  BY <1>1, <1>2, <1>4 DEF SeamInv
<1>9. given \subseteq more
  BY <1>2
<1>10. Accounted(more, w, Len(w), from, end)
  <2>1. \A o \in Nat : at <= o /\ o < end => o \in more
    <3>1. \A o \in Nat : o < end => o \in Offsets
      BY <1>1, LogAssumption DEF TypeOK, Offsets, NBytes
    <3>2. QED
      BY <1>2, <3>1
  <2>2. QED
    BY <1>8, <1>9, <2>1, SkippedSettled
<1>11. Chained(more, w, from)
  BY <1>8, <1>9, AccountedMore DEF Chained
<1>12. Chained(more, Append(w, m), from)
  BY <1>3, <1>10, <1>11, SentAfter
<1>13. Chained(more, Append(Append(w, m), c), from)
  <2>0. Append(w, m) \in Seq(Messages)
    OBVIOUS
  <2>1. PICK v \in Seq(Messages) : v = Append(w, m)
    BY <2>0
  <2>2. Chained(more, v, from) /\ c.type \notin {"output", "exit"}
    BY <1>3, <1>12, <2>1
  <2>3. Chained(more, Append(v, c), from)
    BY <2>2, SentAfter
  <2>4. QED
    BY <2>1, <2>3
<1>14. Accounted(more, wire'[h], 0, from, cursor[h])
  BY <1>8, <1>9 DEF Accounted, InFrame
<1>15. begin'[h] = from /\ cursor'[h] = cursor[h]
  BY <1>1 DEF SendExit, connVars, outVars
<1>16. QED
  BY <1>4, <1>5, <1>6, <1>7, <1>13, <1>14, <1>15 DEF SeamInv

\* What was in flight is lost, the connection ends.
LEMMA DropSeam ==
  ASSUME TypeOK, NEW h \in Handles, SeamInv(h), NEW kept \in 0..Len(wire[h]), NEW clean \in BOOLEAN,
         Drop(h, kept, clean)
  PROVE  SeamInv(h)'
<1>1. PICK w \in Seq(Messages), from \in Nat, given \in {Settled(h)} :
        w = wire[h] /\ from = begin[h] /\ given = Settled(h)
  BY SeamTyping
<1>2. PICK v \in Seq(Messages) : v = SubSeq(w, 1, kept)
  <2>1. SubSeq(w, 1, kept) \in Seq(Messages)
    BY <1>1
  <2>2. QED
    BY <2>1
<1>3. PICK e \in Messages, c \in Messages :
        e = Event("neterr") /\ e.type = "neterr" /\ c = Event("closed") /\ c.type = "closed"
  <2>1. Event("neterr") \in Messages /\ Event("closed") \in Messages
    BY MessageTyping DEF MessageTypes
  <2>2. QED
    BY <2>1 DEF Event
<1>4. Chained(given, w, from) /\ Accounted(given, w, 0, from, cursor[h])
  BY <1>1 DEF SeamInv
<1>5. Chained(given, v, from)
  BY <1>1, <1>2, <1>4, CutOff
<1>6. Chained(given, Append(v, c), from)
  BY <1>3, <1>5, SentAfter
<1>7. Chained(given, Append(Append(v, e), c), from)
  <2>0. Append(v, e) \in Seq(Messages)
    OBVIOUS
  <2>1. PICK u \in Seq(Messages) : u = Append(v, e)
    BY <2>0
  <2>2. Chained(given, u, from)
    BY <1>3, <1>5, <2>1, SentAfter
  <2>3. Chained(given, Append(u, c), from)
    BY <1>3, <2>2, SentAfter
  <2>4. QED
    BY <2>1, <2>3
<1>8. wire'[h] = v \o Ending(clean) /\ peer'[h] = "lost"
  BY <1>1, <1>2 DEF Drop, Release, TypeOK
<1>9. wire'[h] = Append(v, c) \/ wire'[h] = Append(Append(v, e), c)
  <2>1. CASE clean
    BY <1>3, <1>8, <2>1 DEF Ending
  <2>2. CASE ~clean
    <3>1. wire'[h] = v \o <<e, c>>
      BY <1>3, <1>8, <2>2 DEF Ending
    <3>2. v \o <<e, c>> = Append(Append(v, e), c)
      OBVIOUS
    <3>3. QED
      BY <3>1, <3>2
  <2>3. QED
    BY <2>1, <2>2
<1>10. begin'[h] = from /\ cursor'[h] = cursor[h] /\ Settled(h)' = given
  BY <1>1 DEF Drop, connVars, outVars, Settled, Delivered
<1>11. Chained(given, wire'[h], from)
  BY <1>6, <1>7, <1>9
<1>12. Accounted(given, wire'[h], 0, from, cursor[h])
  BY <1>4 DEF Accounted, InFrame
<1>13. QED
  BY <1>8, <1>10, <1>11, <1>12 DEF SeamInv

\* The runtime and the network keep LossInv.
LEMMA RuntimeLossInv ==
  ASSUME TypeOK, LossInv, NEW h \in Handles, Runtime(h)
  PROVE  LossInv'
<1>1. UNCHANGED <<begin, cursor, chunks, fed, result>>
  BY DEF Runtime, AcceptAttach, Refuse, SendOutput, SendExit, Drop, connVars, outVars
<1>2. \A p \in Handles : SameReader(p)
  BY <1>1 DEF SameReader
<1>3. \A p \in Handles : DecodedInv(p)' /\ SeamInv(p)
  BY <1>2, SameDecoded DEF LossInv
<1>4. SUFFICES ASSUME NEW p \in Handles PROVE SeamInv(p)'
  BY <1>3 DEF LossInv
<1>5. /\ wire \in [Handles -> Seq(Messages)]
      /\ peer \in [Handles -> {"none", "requested", "serving", "gone", "lost"}]
      /\ sent \in [Handles -> Nat] /\ missed \in [Handles -> SUBSET Offsets]
  BY DEF TypeOK
<1>6. ASSUME NEW from \in Offsets, AcceptAttach(h, from) PROVE SeamInv(p)'
  <2>1. CASE p # h
    <3>1. SameFor(p)
      BY <1>2, <1>5, <1>6, <2>1 DEF SameFor, AcceptAttach
    <3>2. PeerMoves(p)
      BY <1>5, <1>6, <2>1 DEF PeerMoves, AcceptAttach
    <3>3. wire'[p] = wire[p] \/ wire'[p] = Append(wire[p], Event("evicted"))
      BY <1>5, <1>6, <2>1 DEF AcceptAttach
    <3>4. QED
      BY <1>3, <3>1, <3>2, <3>3, SeamFrame
  <2>2. CASE p = h
    <3>1. /\ peer[h] = "requested" /\ peer'[h] = "serving" /\ sent'[h] = from
          /\ missed'[h] = {o \in Offsets : begin[h] <= o /\ o < from}
          /\ wire'[h] = Append(wire[h], Event("ready"))
      BY <1>5, <1>6 DEF AcceptAttach
    <3>2. PICK m \in Messages : m = Event("ready") /\ m.type = "ready"
      <4>1. Event("ready") \in Messages
        BY MessageTyping DEF MessageTypes
      <4>2. Event("ready").type = "ready"
        BY DEF Event
      <4>3. QED
        BY <4>1, <4>2
    <3>3. wire[h] \in Seq(Messages) /\ wire'[h] = Append(wire[h], m)
      BY <1>5, <3>1, <3>2
    <3>4. Untouched(h)
      BY <1>3, <3>1 DEF SeamInv
    <3>5. ~Has(wire'[h], "output") /\ ~Has(wire'[h], "exit")
      <4>1. /\ Len(wire'[h]) = Len(wire[h]) + 1 /\ Len(wire[h]) \in Nat
            /\ wire'[h][Len(wire[h]) + 1] = m
            /\ \A i \in 1..Len(wire[h]) : wire'[h][i] = wire[h][i]
        BY <3>3
      <4>2. ASSUME NEW i \in 1..Len(wire'[h]) PROVE wire'[h][i].type \notin {"output", "exit"}
        <5>1. CASE i \in 1..Len(wire[h])
          BY <3>4, <4>1, <5>1 DEF Has, Untouched
        <5>2. CASE i = Len(wire[h]) + 1
          BY <3>2, <4>1, <5>2
        <5>3. QED
          BY <4>1, <5>1, <5>2
      <4>3. QED
        BY <4>2 DEF Has
    <3>6. Accounted(Settled(h)', wire'[h], Len(wire'[h]), begin'[h], sent'[h])
      <4>1. missed'[h] \subseteq Settled(h)'
        BY DEF Settled
      <4>2. \A o \in Nat : o < from => o \in Offsets
        BY LogAssumption DEF Offsets, NBytes
      <4>3. begin'[h] = begin[h]
        BY <1>1
      <4>4. \A o \in Nat : begin'[h] <= o /\ o < sent'[h] => o \in Settled(h)'
        BY <3>1, <4>1, <4>2, <4>3
      <4>5. QED
        BY <4>4 DEF Accounted
    <3>7. Accounted(Settled(h)', wire'[h], 0, begin'[h], cursor'[h])
      <4>1. begin[h] \in Nat /\ begin'[h] = begin[h] /\ cursor'[h] = begin[h]
        BY <1>1, <3>4, SeamTyping DEF Untouched
      <4>2. QED
        BY <4>1, NothingBefore
    <3>8. Chained(Settled(h)', wire'[h], begin'[h])
      BY <3>5, BareWire
    <3>9. QED
      BY <2>2, <3>1, <3>6, <3>7, <3>8 DEF SeamInv
  <2>3. QED
    BY <2>1, <2>2
<1>7. CASE Refuse(h)
  <2>1. SameFor(p)
    BY <1>2, <1>7 DEF SameFor, Refuse
  <2>2. PeerMoves(p)
    BY <1>5, <1>7 DEF PeerMoves, Refuse
  <2>3. wire'[p] = wire[p] \/ wire'[p] = Append(wire[p], Event("fault"))
    BY <1>5, <1>7 DEF Refuse, Send
  <2>4. QED
    BY <1>3, <2>1, <2>2, <2>3, SeamFrame
<1>8. ASSUME NEW hi \in Offsets, SendOutput(h, hi) PROVE SeamInv(p)'
  <2>1. CASE p # h
    <3>1. SameFor(p)
      BY <1>2, <1>5, <1>8, <2>1 DEF SameFor, SendOutput
    <3>2. PeerMoves(p) /\ wire'[p] = wire[p]
      BY <1>5, <1>8, <2>1 DEF PeerMoves, SendOutput, Send
    <3>3. QED
      BY <1>3, <3>1, <3>2, SeamFrame
  <2>2. QED
    BY <1>3, <1>8, <2>1, SendOutputSeam
<1>9. CASE SendExit(h)
  <2>1. CASE p # h
    <3>1. SameFor(p)
      BY <1>2, <1>5, <1>9, <2>1 DEF SameFor, SendExit
    <3>2. PeerMoves(p) /\ wire'[p] = wire[p]
      BY <1>5, <1>9, <2>1 DEF PeerMoves, SendExit
    <3>3. QED
      BY <1>3, <3>1, <3>2, SeamFrame
  <2>2. QED
    BY <1>3, <1>9, <2>1, SendExitSeam
<1>10. ASSUME NEW kept \in 0..Len(wire[h]), NEW clean \in BOOLEAN, Drop(h, kept, clean)
       PROVE  SeamInv(p)'
  <2>1. CASE p # h
    <3>1. SameFor(p)
      BY <1>2, <1>10 DEF SameFor, Drop
    <3>2. PeerMoves(p)
      BY <1>5, <1>10, <2>1 DEF PeerMoves, Drop, Release
    <3>3. wire'[p] = wire[p] \/ wire'[p] = Append(wire[p], Event("evicted"))
      BY <1>5, <1>10, <2>1 DEF Drop, Release
    <3>4. QED
      BY <1>3, <3>1, <3>2, <3>3, SeamFrame
  <2>2. QED
    BY <1>3, <1>10, <2>1, DropSeam
<1>11. QED
  BY <1>6, <1>7, <1>8, <1>9, <1>10 DEF Runtime

\* A message is received: what it brings is what the cursor now covers.
LEMMA TakenSeam ==
  ASSUME TypeOK, TypeOK', NEW h \in Handles, NEW types, Receives(h, types), SeamInv(h), WireInv(wire[h]),
         peer' = peer, begin' = begin, sent' = sent,
         Settled(h) \subseteq Settled(h)',
         Accounted(Settled(h)', <<>>, 0, begin[h], cursor'[h]),
         Head(wire[h]).type = "output" => Head(wire[h]).hi <= cursor'[h],
         peer[h] \in {"none", "requested"} =>
           chunks'[h] = chunks[h] /\ cursor'[h] = cursor[h] /\ fed'[h] = fed[h]
  PROVE  SeamInv(h)'
<1>1. PICK w \in Seq(Messages), from \in Nat, upto \in Nat, given \in {Settled(h)}, more \in {Settled(h)'} :
        /\ w = wire[h] /\ from = begin[h] /\ upto = cursor'[h]
        /\ given = Settled(h) /\ more = Settled(h)'
  BY SeamTyping DEF TypeOK
<1>2. w # <<>> /\ wire'[h] = Tail(w)
  BY <1>1 DEF Receives, TypeOK
<1>3. /\ Chained(given, w, from) /\ given \subseteq more
      /\ peer[h] = "serving" => Accounted(given, w, Len(w), from, sent[h])
      /\ Head(w).type = "output" => Head(w).hi <= upto
  BY <1>1 DEF SeamInv
<1>4. Accounted(more, w, 0, from, upto) /\ Accounted(more, Tail(w), 0, from, upto)
  BY <1>1 DEF Accounted, InFrame
<1>5. /\ Chained(more, Tail(w), from)
      /\ \A to : Accounted(given, w, Len(w), from, to)
                   => Accounted(more, Tail(w), Len(w) - 1, from, to)
  BY <1>2, <1>3, <1>4, TakenOff
<1>6. Len(Tail(w)) = Len(w) - 1
  BY <1>2
<1>7. ASSUME peer'[h] \in {"none", "requested"} PROVE Untouched(h)'
  <2>1. Untouched(h)
    BY <1>7 DEF SeamInv
  <2>2. \A type \in {"output", "exit"} : Has(Tail(w), type) => Has(w, type)
    BY <1>1, <1>2, WireTail
  <2>3. QED
    BY <1>1, <1>2, <1>7, <2>1, <2>2 DEF Untouched
<1>8. QED
  BY <1>1, <1>2, <1>3, <1>4, <1>5, <1>6, <1>7 DEF SeamInv

\* The handles other than the one that received something.
LEMMA OthersKeep ==
  ASSUME TypeOK, LossInv, NEW h \in Handles, peer' = peer, sent' = sent, missed' = missed,
         NEW p \in Handles, SameReader(p), wire'[p] = wire[p]
  PROVE  SeamInv(p)' /\ DecodedInv(p)'
<1>1. SameFor(p) /\ PeerMoves(p)
  BY DEF SameFor, PeerMoves
<1>2. QED
  BY <1>1, SeamFrame, SameDecoded DEF LossInv

\* What a frame brings between c and its end to the bytes of a stream.
LEMMA FrameBytes ==
  ASSUME NEW m \in Messages, m.type = "output", NEW a \in Nat, NEW c \in Nat, a <= c,
         m.lo <= c, c < m.hi, NEW s \in Streams
  PROVE  StreamBytes(s, a, m.hi) =
           IF s = StreamOf(m.lo) THEN StreamBytes(s, a, c) \cup (c..(m.hi - 1))
                                 ELSE StreamBytes(s, a, c)
<1>1. /\ m.lo \in Nat /\ m.hi \in Nat /\ m.hi <= NBytes /\ NBytes \in Nat
      /\ \A o \in m.lo..(m.hi - 1) : StreamOf(o) = StreamOf(m.lo)
  BY LogAssumption DEF Messages, NBytes
<1>2. ASSUME NEW o \in Offsets
      PROVE  /\ o \in Nat
             /\ a <= o /\ o < m.hi <=> (a <= o /\ o < c) \/ o \in c..(m.hi - 1)
             /\ o \in c..(m.hi - 1) => StreamOf(o) = StreamOf(m.lo)
  BY <1>1 DEF Offsets
<1>3. c..(m.hi - 1) \subseteq Offsets
  BY <1>1 DEF Offsets
<1>4. CASE s = StreamOf(m.lo)
  BY <1>2, <1>3, <1>4 DEF StreamBytes
<1>5. CASE s # StreamOf(m.lo)
  BY <1>2, <1>5 DEF StreamBytes
<1>6. QED
  BY <1>4, <1>5

\* The stream of a frame is one of the streams.
LEMMA FrameStream ==
  ASSUME NEW m \in Messages, m.type = "output"
  PROVE  StreamOf(m.lo) \in Streams
<1>1. m.lo \in Nat /\ m.hi \in Nat /\ m.lo < m.hi /\ m.hi <= NBytes
  BY DEF Messages
<1>2. m.lo + 1 \in 1..Len(Log)
  BY <1>1, LogAssumption DEF NBytes
<1>3. QED
  BY <1>2, LogAssumption DEF StreamOf

\* New output is given to the decoders where they left off, or to flushed ones.
LEMMA OutputDecoded ==
  ASSUME TypeOK, OrderInv, FeedInv, LossInv, NEW h \in Handles, OnOutput(h),
         ~(Head(wire[h]).hi <= cursor[h])
  PROVE  DecodedInv(h)'
<1>1. Receives(h, {"output"}) /\ begin' = begin /\ result' = result
  BY DEF OnOutput, connVars
<1>2. PICK m \in Messages : m = Head(wire[h]) /\ m.type = "output"
  BY <1>1, ReceiveTyping DEF Receives
<1>3. /\ m.lo \in Nat /\ m.hi \in Nat /\ m.lo < m.hi
      /\ begin[h] \in Nat /\ cursor[h] \in Nat /\ begin[h] <= cursor[h] /\ cursor[h] < m.hi
  <2>1. m.lo \in Nat /\ m.hi \in Nat /\ m.lo < m.hi
    BY <1>2 DEF Messages
  <2>2. begin[h] \in Nat /\ cursor[h] \in Nat /\ begin[h] <= cursor[h]
    BY DEF TypeOK, OrderInv
  <2>3. QED
    BY <1>2, <2>1, <2>2
<1>4. PICK c \in Nat : c = FirstNew(h, m) /\ m.lo <= c /\ cursor[h] <= c /\ c < m.hi
  BY <1>3 DEF FirstNew, Larger
<1>5. cursor'[h] = m.hi
  BY <1>2 DEF OnOutput, CursorAfter, TypeOK
<1>6. result[h] = NoResult
  BY <1>1, <1>2, WireTail DEF FeedInv, EndInv, Has, Receives, TypeOK
<1>7. ASSUME h \in Collecting
      PROVE  \E a \in begin[h]..m.hi : \A s \in Streams : fed'[h][s] = StreamBytes(s, a, m.hi)
  <2>1. PICK d : d = DecodersAt(h, m)
    OBVIOUS
  <2>2. PICK a \in Nat : /\ begin[h] <= a /\ a <= c
                         /\ \A s \in Streams : d[s] = StreamBytes(s, a, c)
    <3>1. CASE m.lo > cursor[h]
      <4>1. c = m.lo /\ d = Flushed
        BY <1>3, <1>4, <2>1, <3>1 DEF FirstNew, Larger, DecodersAt
      <4>2. \A s \in Streams : d[s] = StreamBytes(s, c, c)
        BY <4>1, NoBytes DEF Flushed
      <4>3. begin[h] <= c /\ c <= c
        BY <1>3, <1>4
      <4>4. QED
        BY <4>2, <4>3
    <3>2. CASE ~(m.lo > cursor[h])
      <4>1. c = cursor[h] /\ d = fed[h]
        BY <1>3, <1>4, <2>1, <3>2 DEF FirstNew, Larger, DecodersAt
      <4>2. PICK a \in begin[h]..cursor[h] :
              \A s \in Streams : fed[h][s] = StreamBytes(s, a, cursor[h])
        BY <1>7 DEF LossInv, DecodedInv
      <4>3. a \in Nat /\ begin[h] <= a /\ a <= c
        BY <1>3, <4>1, <4>2
      <4>4. QED
        BY <4>1, <4>2, <4>3
    <3>3. QED
      BY <3>1, <3>2
  <2>3. fed'[h] = [d EXCEPT ![StreamOf(m.lo)] = @ \cup (c..(m.hi - 1))]
    BY <1>2, <1>4, <1>7, <2>1 DEF OnOutput, TypeOK
  <2>4. d \in [Streams -> SUBSET Nat]
    BY <2>1 DEF DecodersAt, Flushed, TypeOK
  <2>5. ASSUME NEW s \in Streams PROVE fed'[h][s] = StreamBytes(s, a, m.hi)
    <3>1. fed'[h][s] = IF s = StreamOf(m.lo) THEN d[s] \cup (c..(m.hi - 1)) ELSE d[s]
      BY <2>3, <2>4
    <3>2. StreamBytes(s, a, m.hi) =
            IF s = StreamOf(m.lo) THEN StreamBytes(s, a, c) \cup (c..(m.hi - 1))
                                  ELSE StreamBytes(s, a, c)
      <4>1. m.type = "output" /\ a <= c /\ m.lo <= c /\ c < m.hi
        BY <1>2, <1>4, <2>2
      <4>2. QED
        BY <4>1, FrameBytes, ZenonT(30)
    <3>3. QED
      BY <2>2, <3>1, <3>2
  <2>6. a \in begin[h]..m.hi
    BY <1>3, <1>4, <2>2
  <2>7. QED
    BY <2>5, <2>6
<1>8. QED
  BY <1>1, <1>5, <1>6, <1>7 DEF DecodedInv

\* A frame is received: what is before it was settled, and its own bytes are
\* given now unless the cursor was past them.
LEMMA OutputLossInv ==
  ASSUME TypeOK, TypeOK', OrderInv, FeedInv, LossInv, NEW h \in Handles, OnOutput(h)
  PROVE  LossInv'
<1>1. /\ Receives(h, {"output"})
      /\ UNCHANGED <<peer, begin, sent, missed, result>>
  BY DEF OnOutput, rtVars, connVars
<1>2. PICK m \in Messages : m = Head(wire[h]) /\ m.type = "output"
  BY <1>1, ReceiveTyping DEF Receives
<1>3. /\ m.lo \in Nat /\ m.hi \in Nat /\ m.lo < m.hi
      /\ begin[h] \in Nat /\ cursor[h] \in Nat
  BY <1>2 DEF Messages, TypeOK
<1>4. ASSUME NEW p \in Handles, p # h PROVE SeamInv(p)' /\ DecodedInv(p)'
  <2>1. SameReader(p)
    <3>1. CASE m.hi <= cursor[h]
      BY <1>1, <1>2, <3>1 DEF OnOutput, SameReader
    <3>2. CASE ~(m.hi <= cursor[h])
      <4>1. PICK a, b, d : /\ cursor' = [cursor EXCEPT ![h] = a] /\ chunks' = [chunks EXCEPT ![h] = b]
                           /\ fed' = [fed EXCEPT ![h] = d]
        BY <1>2, <3>2 DEF OnOutput
      <4>2. cursor'[p] = cursor[p] /\ chunks'[p] = chunks[p] /\ fed'[p] = fed[p]
        BY <1>4, <4>1 DEF TypeOK
      <4>3. QED
        BY <1>1, <4>2 DEF SameReader
    <3>3. QED
      BY <3>1, <3>2
  <2>2. wire'[p] = wire[p]
    BY <1>1, <1>4 DEF Receives, TypeOK
  <2>3. QED
    BY <1>1, <2>1, <2>2, OthersKeep
<1>5. /\ wire[h] \in Seq(Messages) /\ wire[h] # <<>> /\ 1 \in 1..Len(wire[h]) /\ wire[h][1] = m
  BY <1>1, <1>2 DEF Receives, TypeOK
<1>6. Has(wire[h], "output")
  BY <1>2, <1>5 DEF Has
<1>7. peer[h] \notin {"none", "requested"}
  BY <1>6 DEF LossInv, SeamInv, Untouched
<1>8. /\ Accounted(Settled(h), wire[h], 0, begin[h], cursor[h])
      /\ Accounted(Settled(h), wire[h], 0, begin[h], m.lo)
  <2>1. 1 - 1 = 0
    OBVIOUS
  <2>2. Chained(Settled(h), wire[h], begin[h])
    BY DEF LossInv, SeamInv
  <2>3. Accounted(Settled(h), wire[h], 1 - 1, begin[h], wire[h][1].lo)
    BY <1>2, <1>5, <2>2 DEF Chained
  <2>4. QED
    BY <1>5, <2>1, <2>3 DEF LossInv, SeamInv
<1>9. \A o \in Nat : begin[h] <= o /\ (o < cursor[h] \/ o < m.lo) => o \in Settled(h)
  BY <1>8 DEF Accounted, InFrame
<1>10. CASE m.hi <= cursor[h]
  <2>1. UNCHANGED <<cursor, chunks, fed>>
    BY <1>2, <1>10 DEF OnOutput
  <2>2. Settled(h)' = Settled(h)
    BY <1>1, <2>1 DEF Settled, Delivered
  <2>3. Accounted(Settled(h)', <<>>, 0, begin[h], cursor'[h])
    BY <1>9, <2>1, <2>2 DEF Accounted
  <2>4. SeamInv(h)'
    BY <1>1, <1>2, <1>10, <2>1, <2>2, <2>3, TakenSeam DEF LossInv, FeedInv, EndInv
  <2>5. DecodedInv(h)'
    BY <1>1, <2>1, SameDecoded DEF SameReader, LossInv
  <2>6. QED
    BY <1>4, <2>4, <2>5 DEF LossInv
<1>11. CASE ~(m.hi <= cursor[h])
  <2>1. PICK c \in Nat : c = FirstNew(h, m) /\ c = Larger(cursor[h], m.lo) /\ c < m.hi
    BY <1>3, <1>11 DEF FirstNew, Larger
  <2>2. cursor'[h] = m.hi /\ chunks'[h] = Append(chunks[h], [lo |-> c, hi |-> m.hi])
    BY <1>2, <1>11, <2>1 DEF OnOutput, CursorAfter, TypeOK
  <2>3. Delivered(h)' = Delivered(h) \cup (c..(m.hi - 1))
    BY <1>3, <2>1, <2>2, DeliveredAppend
  <2>4. Settled(h)' = Settled(h) \cup (c..(m.hi - 1))
    BY <1>1, <2>3 DEF Settled
  <2>5. \A o \in Nat : begin[h] <= o /\ o < m.hi => o \in Settled(h)'
    <3>1. ASSUME NEW o \in Nat, begin[h] <= o, o < m.hi PROVE o \in Settled(h) \cup (c..(m.hi - 1))
      <4>1. o < cursor[h] \/ o < m.lo \/ o \in c..(m.hi - 1)
        BY <1>3, <2>1, <3>1 DEF Larger
      <4>2. QED
        BY <1>9, <3>1, <4>1
    <3>2. QED
      BY <2>4, <3>1
  <2>6. Accounted(Settled(h)', <<>>, 0, begin[h], cursor'[h])
    BY <2>2, <2>5 DEF Accounted
  <2>7. Head(wire[h]).hi <= cursor'[h]
    BY <1>2, <1>3, <2>2
  <2>8. Settled(h) \subseteq Settled(h)'
    BY <2>4
  <2>9. SeamInv(h)'
    BY <1>1, <1>7, <2>6, <2>7, <2>8, TakenSeam DEF LossInv, FeedInv, EndInv
  <2>10. DecodedInv(h)'
    BY <1>2, <1>11, OutputDecoded
  <2>11. QED
    BY <1>4, <2>9, <2>10 DEF LossInv
<1>12. QED
  BY <1>10, <1>11

\* The exit is received: what is before its cursor was settled.
LEMMA ExitLossInv ==
  ASSUME TypeOK, TypeOK', OrderInv, FeedInv, LossInv, NEW h \in Handles, OnExit(h)
  PROVE  LossInv'
<1>1. /\ Receives(h, {"exit"})
      /\ UNCHANGED <<peer, begin, sent, missed, chunks>>
  BY DEF OnExit, rtVars, connVars
<1>2. PICK m \in Messages : m = Head(wire[h]) /\ m.type = "exit"
  BY <1>1, ReceiveTyping DEF Receives
<1>3. m.lo \in Nat /\ begin[h] \in Nat /\ cursor[h] \in Nat /\ begin[h] <= cursor[h]
  BY <1>2 DEF Messages, TypeOK, OrderInv
<1>4. ASSUME NEW p \in Handles, p # h PROVE SeamInv(p)' /\ DecodedInv(p)'
  <2>1. SameReader(p)
    <3>1. CASE result[h] # NoResult
      BY <1>1, <3>1 DEF OnExit, SameReader
    <3>2. CASE result[h] = NoResult
      <4>1. PICK a, r, d : /\ cursor' = [cursor EXCEPT ![h] = a] /\ result' = [result EXCEPT ![h] = r]
                           /\ fed' = [fed EXCEPT ![h] = d]
        BY <3>2 DEF OnExit
      <4>2. cursor'[p] = cursor[p] /\ result'[p] = result[p] /\ fed'[p] = fed[p]
        BY <1>4, <4>1 DEF TypeOK
      <4>3. QED
        BY <1>1, <4>2 DEF SameReader
    <3>3. QED
      BY <3>1, <3>2
  <2>2. wire'[p] = wire[p]
    BY <1>1, <1>4 DEF Receives, TypeOK
  <2>3. QED
    BY <1>1, <2>1, <2>2, OthersKeep
<1>5. /\ wire[h] \in Seq(Messages) /\ wire[h] # <<>> /\ 1 \in 1..Len(wire[h]) /\ wire[h][1] = m
  BY <1>1, <1>2 DEF Receives, TypeOK
<1>6. Has(wire[h], "exit")
  BY <1>2, <1>5 DEF Has
<1>7. peer[h] \notin {"none", "requested"}
  BY <1>6 DEF LossInv, SeamInv, Untouched
<1>8. \A o \in Nat : begin[h] <= o /\ (o < cursor[h] \/ o < m.lo) => o \in Settled(h)
  <2>1. 1 - 1 = 0
    OBVIOUS
  <2>2. Chained(Settled(h), wire[h], begin[h])
    BY DEF LossInv, SeamInv
  <2>3. Accounted(Settled(h), wire[h], 1 - 1, begin[h], wire[h][1].lo)
    BY <1>2, <1>5, <2>2 DEF Chained
  <2>4. /\ Accounted(Settled(h), wire[h], 0, begin[h], cursor[h])
        /\ Accounted(Settled(h), wire[h], 0, begin[h], m.lo)
    BY <1>5, <2>1, <2>3 DEF LossInv, SeamInv
  <2>5. QED
    BY <2>4 DEF Accounted, InFrame
<1>9. Settled(h)' = Settled(h)
  BY <1>1 DEF Settled, Delivered
<1>10. cursor'[h] = cursor[h] \/ cursor'[h] = Larger(cursor[h], m.lo)
  BY <1>2 DEF OnExit, TypeOK
<1>11. SeamInv(h)'
  <2>1. \A o \in Nat : begin[h] <= o /\ o < cursor'[h] => o \in Settled(h)'
    BY <1>3, <1>8, <1>9, <1>10 DEF Larger
  <2>2. Accounted(Settled(h)', <<>>, 0, begin[h], cursor'[h])
    BY <2>1 DEF Accounted
  <2>3. Head(wire[h]).type # "output"
    BY <1>2
  <2>4. QED
    BY <1>1, <1>7, <1>9, <2>2, <2>3, TakenSeam DEF LossInv, FeedInv, EndInv
<1>12. DecodedInv(h)'
  <2>1. CASE result[h] # NoResult
    <3>1. UNCHANGED <<result, cursor, fed>>
      BY <2>1 DEF OnExit
    <3>2. QED
      BY <1>1, <3>1, SameDecoded DEF SameReader, LossInv
  <2>2. CASE result[h] = NoResult
    <3>1. /\ fed'[h] = Flushed /\ result'[h].calls = Len(chunks'[h])
          /\ cursor'[h] = Larger(cursor[h], m.lo)
      BY <1>1, <1>2, <2>2 DEF OnExit, DecodersAtExit, TypeOK
    <3>2. PICK to \in Nat : to = cursor'[h] /\ begin'[h] <= to
      BY <1>1, <1>3, <3>1 DEF Larger
    <3>3. to \in begin'[h]..cursor'[h]
      BY <1>1, <1>3, <3>2
    <3>4. \A s \in Streams : fed'[h][s] = StreamBytes(s, to, cursor'[h])
      BY <3>1, <3>2, NoBytes DEF Flushed
    <3>5. QED
      BY <3>1, <3>3, <3>4 DEF DecodedInv
  <2>3. QED
    BY <2>1, <2>2
<1>13. QED
  BY <1>4, <1>11, <1>12 DEF LossInv

\* The listeners keep LossInv.
LEMMA ListenerLossInv ==
  ASSUME TypeOK, TypeOK', OrderInv, FeedInv, LossInv, NEW h \in Handles, Listener(h)
  PROVE  LossInv'
<1>1. CASE OnReady(h) \/ OnFault(h) \/ OnError(h) \/ OnClose(h)
  <2>1. /\ UNCHANGED <<peer, begin, sent, missed, chunks, cursor, fed, result>>
        /\ Receives(h, {"ready", "fault", "neterr", "evicted", "closed"})
    BY <1>1 DEF OnReady, OnFault, OnError, OnClose, Receives, rtVars, connVars, outVars
  <2>2. \A p \in Handles : SameReader(p)
    BY <2>1 DEF SameReader
  <2>3. ASSUME NEW p \in Handles, p # h PROVE SeamInv(p)' /\ DecodedInv(p)'
    <3>1. wire'[p] = wire[p]
      BY <2>1, <2>3 DEF Receives, TypeOK
    <3>2. QED
      BY <2>1, <2>2, <3>1, OthersKeep
  <2>4. Settled(h)' = Settled(h)
    BY <2>1 DEF Settled, Delivered
  <2>5. Accounted(Settled(h)', <<>>, 0, begin[h], cursor'[h])
    BY <2>1, <2>4 DEF LossInv, SeamInv, Accounted, InFrame
  <2>6. Head(wire[h]).type # "output"
    BY <2>1 DEF Receives
  <2>7. SeamInv(h)'
    BY <2>1, <2>4, <2>5, <2>6, TakenSeam DEF LossInv, FeedInv, EndInv
  <2>8. DecodedInv(h)'
    BY <2>2, SameDecoded DEF LossInv
  <2>9. QED
    BY <2>3, <2>7, <2>8 DEF LossInv
<1>2. CASE CloseCompletes(h)
  <2>1. UNCHANGED <<begin, sent, missed, chunks, cursor, fed, result>>
    BY <1>2 DEF CloseCompletes, outVars
  <2>2. /\ wire \in [Handles -> Seq(Messages)]
        /\ peer \in [Handles -> {"none", "requested", "serving", "gone", "lost"}]
    BY DEF TypeOK
  <2>3. \A p \in Handles : SameReader(p) /\ SameFor(p)
    BY <2>1 DEF SameReader, SameFor
  <2>4. ASSUME NEW p \in Handles PROVE SeamInv(p)'
    <3>1. CASE p # h
      <4>1. PeerMoves(p)
        BY <1>2, <2>2, <3>1 DEF PeerMoves, CloseCompletes, Release
      <4>2. wire'[p] = wire[p] \/ wire'[p] = Append(wire[p], Event("evicted"))
        BY <1>2, <2>2, <3>1 DEF CloseCompletes, Release
      <4>3. QED
        BY <2>3, <4>1, <4>2, SeamFrame DEF LossInv
    <3>2. CASE p = h
      <4>1. wire'[h] = <<>> /\ peer'[h] = "gone"
        BY <1>2, <2>2 DEF CloseCompletes, Release
      <4>2. Settled(h)' = Settled(h)
        BY <2>1 DEF Settled, Delivered
      <4>3. Accounted(Settled(h)', wire'[h], 0, begin'[h], cursor'[h])
        BY <2>1, <4>2 DEF LossInv, SeamInv, Accounted, InFrame
      <4>4. Chained(Settled(h)', wire'[h], begin'[h])
        <5>1. Len(wire'[h]) = 0
          BY <4>1
        <5>2. QED
          BY <5>1 DEF Chained
      <4>5. QED
        BY <3>2, <4>1, <4>3, <4>4 DEF SeamInv
    <3>3. QED
      BY <3>1, <3>2
  <2>5. QED
    BY <2>3, <2>4, SameDecoded DEF LossInv
<1>3. QED
  BY <1>1, <1>2, OutputLossInv, ExitLossInv DEF Listener

\* LossInv holds in every reachable state.
LEMMA LossInvariant == Spec => []LossInv
<1>1. TypeOK /\ TypeOK' /\ PeerInv /\ OrderInv /\ FeedInv /\ LossInv /\ [Next]_vars => LossInv'
  <2> SUFFICES ASSUME TypeOK, TypeOK', PeerInv, OrderInv, FeedInv, LossInv, [Next]_vars
               PROVE  LossInv'
    OBVIOUS
  <2>1. ASSUME UNCHANGED <<begin, cursor, chunks, fed, result, sent, missed, wire>>,
               \A p \in Handles : PeerMoves(p)
        PROVE  LossInv'
    <3>1. \A p \in Handles : SameFor(p) /\ SameReader(p) /\ wire'[p] = wire[p]
      BY <2>1 DEF SameFor, SameReader
    <3>2. QED
      BY <2>1, <3>1, SeamFrame, SameDecoded DEF LossInv
  <2>2. CASE UNCHANGED <<begin, cursor, chunks, fed, result, sent, missed, wire, peer>>
    <3>1. \A p \in Handles : PeerMoves(p)
      BY <2>2 DEF PeerMoves
    <3>2. QED
      BY <2>1, <2>2, <3>1
  <2>3. CASE Run \/ Emit \/ Trim \/ ProcessExits \/ UNCHANGED vars
    BY <2>2, <2>3 DEF Run, Emit, Trim, ProcessExits, vars, rtVars, connVars, outVars
  <2>4. CASE AcceptStart
    <3>1. UNCHANGED <<begin, cursor, chunks, fed, result, sent, missed>>
      BY <2>4 DEF AcceptStart, connVars, outVars
    <3>2. ASSUME NEW p \in Handles
          PROVE  /\ PeerMoves(p)
                 /\ wire'[p] = wire[p] \/ wire'[p] = Append(wire[p], Event("ready"))
      <4>1. /\ peer[Runner] = "requested" /\ Runner \in Handles
            /\ peer' = [peer EXCEPT ![Runner] = "serving"]
            /\ wire' = [wire EXCEPT ![Runner] = Append(@, Event("ready"))]
        BY <2>4, HandlesAssumption DEF AcceptStart, Send
      <4>2. PeerMoves(p)
        BY <4>1 DEF PeerMoves, TypeOK
      <4>3. wire'[p] = wire[p] \/ wire'[p] = Append(wire[p], Event("ready"))
        <5>1. wire \in [Handles -> Seq(Messages)]
          BY DEF TypeOK
        <5>2. QED
          BY <4>1, <5>1
      <4>4. QED
        BY <4>2, <4>3
    <3>3. \A p \in Handles : SameFor(p) /\ SameReader(p)
      BY <3>1 DEF SameFor, SameReader
    <3>4. QED
      BY <3>2, <3>3, SeamFrame, SameDecoded DEF LossInv
  <2>5. ASSUME NEW h \in Handles, Opening(h) PROVE LossInv'
    <3>1. CASE EndpointFails(h) \/ DialFails(h)
      BY <2>2, <3>1 DEF EndpointFails, DialFails, rtVars, outVars
    <3>2. CASE DialOpens(h)
      <4>1. /\ UNCHANGED <<begin, cursor, chunks, fed, result, sent, missed, wire>>
            /\ peer' = [peer EXCEPT ![h] = "requested"] /\ peer[h] = "none"
        BY <3>2 DEF DialOpens, PeerInv, outVars
      <4>2. \A p \in Handles : PeerMoves(p)
        BY <4>1 DEF PeerMoves, TypeOK
      <4>3. QED
        BY <2>1, <4>1, <4>2
    <3>3. QED
      BY <2>5, <3>1, <3>2, AttachLossInv DEF Opening
  <2>6. ASSUME NEW h \in Handles, Caller(h) PROVE LossInv'
    BY <2>2, <2>6 DEF Caller, Disconnect, Kill, Wait, WaitSettles, rtVars, connVars, outVars
  <2>7. QED
    BY <2>3, <2>4, <2>5, <2>6, RuntimeLossInv, ListenerLossInv DEF Next
<1>2. QED
  BY <1>1, InitLossInv, TypeCorrect, PeerInvariant, OrderInvariant, FeedInvariant, PTL DEF Spec

\* Nothing is lost between the runtime and the program, whatever frames
\* overlap, are skipped or stay in flight: every byte up to the cursor was
\* given to onOutput unless it was gone when its turn came, the text decoders
\* never join the two sides of a gap, and a result covers all the output.
THEOREM NoByteIsLost == Spec => []NothingIsLost
<1>1. TypeOK /\ LossInv => NothingIsLost
  <2> SUFFICES ASSUME TypeOK, LossInv PROVE NothingIsLost
    OBVIOUS
  <2>1. ASSUME NEW h \in Handles PROVE begin[h]..(cursor[h] - 1) \subseteq Delivered(h) \cup missed[h]
    <3>1. begin[h] \in Nat /\ cursor[h] \in Nat
      BY DEF TypeOK
    <3>2. \A o \in Nat : begin[h] <= o /\ o < cursor[h] => o \in Settled(h)
      BY DEF LossInv, SeamInv, Accounted, InFrame
    <3>3. \A o \in begin[h]..(cursor[h] - 1) : o \in Nat /\ begin[h] <= o /\ o < cursor[h]
      BY <3>1
    <3>4. QED
      BY <3>2, <3>3 DEF Settled
  <2>2. DecoderInputUnbroken
    BY HandlesAssumption DEF DecoderInputUnbroken, LossInv, DecodedInv
  <2>3. ResultIsComplete
    BY DEF ResultIsComplete, LossInv, DecodedInv
  <2>4. QED
    BY <2>1, <2>2, <2>3 DEF NothingIsLost, NothingSkipped
<1>2. QED
  BY <1>1, TypeCorrect, LossInvariant, PTL
=============================================================================
