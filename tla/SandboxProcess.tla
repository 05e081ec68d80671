---------------------------- MODULE SandboxProcess ----------------------------
(***************************************************************************)
(* The client handles of one sandbox process                               *)
(* (packages/disk/src/sandbox-process.ts, and Sandbox.run/attach/_control   *)
(* of sandbox.ts), talking to the runtime over one WebSocket per handle.   *)
(*                                                                         *)
(* Every event listener of a socket is one JavaScript task, so each of     *)
(* OnReady .. OnClose is one action; awaits separate the others.  The      *)
(* runtime is not in the repository: the actions of the second section are *)
(* what the client is written against (frames carry an absolute offset,    *)
(* replay may overlap what was asked for, output that is no longer         *)
(* retained is skipped, a new owner closes the previous one with 4001).    *)
(***************************************************************************)
EXTENDS Naturals, Sequences

CONSTANTS
  Handles,     \* the SandboxProcess objects of the program
  Runner,      \* the one that Sandbox.run() returns; the others attach
  Collecting,  \* the handles whose collectOutput option is on
  Sharing,     \* the handles attached with the shared option
  Unreliable,  \* the handles whose connection may fail once open
  Waiters,     \* the handles whose caller may call wait()
  Log,         \* Log[i] is the stream of byte i - 1 of the process output
  MaxRetries,  \* MAX_RETRIES of retry.ts
  MaxInFlight  \* bound: messages on their way to a handle when output is sent

Streams  == {"stdout", "stderr"}
NoHandle == "no handle"

ASSUME HandlesAssumption ==
  /\ Runner \in Handles /\ NoHandle \notin Handles
  /\ Collecting \subseteq Handles /\ Waiters \subseteq Handles /\ Unreliable \subseteq Handles
  /\ Sharing \subseteq Handles \ {Runner}
ASSUME LogAssumption == Log \in Seq(Streams)
ASSUME RetriesAssumption == MaxRetries \in Nat /\ MaxInFlight \in Nat

VARIABLES
  proc,      \* runtime: "none", "running" or "exited"
  emitted,   \* runtime: bytes the process has written so far
  base,      \* runtime: offset of the first byte still retained
  owner,     \* runtime: the connection that owns the process, or NoHandle
  peer,      \* runtime: its end of each handle's connection
  sent,      \* runtime: the next byte it will send to each handle
  starts,    \* runtime: how many processes the start requests created
  wire,      \* messages on their way from the runtime to each handle
  missed,    \* history: bytes the runtime skipped, no longer retaining them
  tries,     \* openProcessSocket: failed attempts so far
  sock,      \* readyState of the handle's socket, "closed" once closed
  held,      \* this._socket is set
  ready,     \* the promise _connect awaits
  begin,     \* the offset the handle was created with
  cursor,    \* this._cursor
  chunks,    \* the calls of onOutput
  fed,       \* bytes each TextDecoder was given since its last flush
  result,    \* this._result: NoResult, or the calls of onOutput it covers
  connErr,   \* this._connectionError is set
  waiting,   \* the caller's wait()
  resumed    \* the disconnected handle whose cursor the caller attached with

rtVars   == <<proc, emitted, base, owner, peer, sent, starts, missed>>
connVars == <<tries, sock, held, ready, begin>>
outVars  == <<cursor, chunks, fed, result>>
vars     == <<rtVars, wire, connVars, outVars, connErr, waiting, resumed>>

NoResult == [exited |-> FALSE, calls |-> 0]
NBytes   == Len(Log)
Offsets  == 0..NBytes

StreamOf(o) == Log[o + 1]
Larger(a, b) == IF a > b THEN a ELSE b

\* The bytes of stream s between offsets a (included) and b (excluded).
StreamBytes(s, a, b) == {o \in Offsets : a <= o /\ o < b /\ StreamOf(o) = s}

\* A message: output covers the bytes lo .. hi - 1, exit carries its cursor
\* in lo = hi, and the others have no offset.  "evicted" is a close with one
\* of the codes of CLOSE_REASONS, "closed" a close with another.  A frame of
\* output holds at least one byte, and bytes of one stream.
MessageTypes == {"ready", "output", "exit", "fault", "neterr", "evicted", "closed"}
Messages ==
  {m \in [type : MessageTypes, lo : Nat, hi : Nat] : m.type = "output" =>
     /\ m.lo < m.hi /\ m.hi <= NBytes
     /\ \A o \in m.lo..(m.hi - 1) : StreamOf(o) = StreamOf(m.lo)}
Event(type) == [type |-> type, lo |-> 0, hi |-> 0]
OutputFrame(lo, hi) == [type |-> "output", lo |-> lo, hi |-> hi]
ExitEvent(at) == [type |-> "exit", lo |-> at, hi |-> at]

TypeOK ==
  /\ proc \in {"none", "running", "exited"}
  /\ emitted \in Offsets /\ base \in 0..emitted
  /\ owner \in Handles \cup {NoHandle}
  /\ peer \in [Handles -> {"none", "requested", "serving", "gone", "lost"}]
  /\ sent \in [Handles -> Nat]
  /\ starts \in Nat
  /\ wire \in [Handles -> Seq(Messages)]
  /\ missed \in [Handles -> SUBSET Offsets]
  /\ tries \in [Handles -> 0..MaxRetries]
  /\ sock \in [Handles -> {"idle", "dialing", "open", "closing", "closed"}]
  /\ held \in [Handles -> BOOLEAN]
  /\ ready \in [Handles -> {"pending", "ok", "failed"}]
  /\ begin \in [Handles -> Nat]
  /\ cursor \in [Handles -> Nat]
  /\ chunks \in [Handles -> Seq([lo : Nat, hi : Nat])]
  /\ fed \in [Handles -> [Streams -> SUBSET Nat]]
  /\ result \in [Handles -> [exited : BOOLEAN, calls : Nat]]
  /\ connErr \in [Handles -> BOOLEAN]
  /\ waiting \in [Handles -> {"no", "pending", "result", "error"}]
  /\ resumed \in [Handles -> Handles \cup {NoHandle}]

Init ==
  /\ proc = "none" /\ emitted = 0 /\ base = 0 /\ owner = NoHandle /\ starts = 0
  /\ peer = [h \in Handles |-> "none"]
  /\ sent = [h \in Handles |-> 0]
  /\ wire = [h \in Handles |-> <<>>]
  /\ missed = [h \in Handles |-> {}]
  /\ tries = [h \in Handles |-> 0]
  /\ sock = [h \in Handles |-> "idle"]
  /\ held = [h \in Handles |-> FALSE]
  /\ ready = [h \in Handles |-> "pending"]
  /\ begin = [h \in Handles |-> 0]
  /\ cursor = [h \in Handles |-> 0]
  /\ chunks = [h \in Handles |-> <<>>]
  /\ fed = [h \in Handles |-> [s \in Streams |-> {}]]
  /\ result = [h \in Handles |-> NoResult]
  /\ connErr = [h \in Handles |-> FALSE]
  /\ waiting = [h \in Handles |-> "no"]
  /\ resumed = [h \in Handles |-> NoHandle]

-----------------------------------------------------------------------------
(* Opening a connection. *)

\* Sandbox.run(): the process id is unknown until the runtime answers.
Run ==
  /\ sock[Runner] = "idle"
  /\ sock' = [sock EXCEPT ![Runner] = "dialing"]
  /\ UNCHANGED <<rtVars, wire, tries, held, ready, begin, outVars, connErr, waiting, resumed>>

\* Sandbox.attach(): the caller knows the id from the runner, and asks for the
\* whole output or for what follows the cursor of a handle it has.
Attach(h, g) ==
  /\ h # Runner /\ sock[h] = "idle" /\ ready[Runner] = "ok"
  /\ \/ g = NoHandle /\ begin' = [begin EXCEPT ![h] = 0]
     \/ /\ g \in Handles \ {h} /\ ready[g] = "ok"
        /\ begin' = [begin EXCEPT ![h] = cursor[g]]
  /\ cursor' = [cursor EXCEPT ![h] = begin'[h]]
  /\ resumed' = [resumed EXCEPT ![h] = IF g \in Handles /\ ~held[g] THEN g ELSE NoHandle]
  /\ sock' = [sock EXCEPT ![h] = "dialing"]
  /\ UNCHANGED <<rtVars, wire, tries, held, ready, chunks, fed, result, connErr, waiting>>

MayDialAgain_OffByOne(h) == tries[h] <= MaxRetries

MayDialAgain(h) == tries[h] < MaxRetries

\* openProcessSocket: a socket that does not open is retried with a fresh
\* endpoint, MaxRetries times; then run() or attach() rejects.
DialFails(h) ==
  /\ sock[h] = "dialing"
  /\ \/ /\ MayDialAgain(h)
        /\ tries' = [tries EXCEPT ![h] = @ + 1]
        /\ UNCHANGED <<sock, ready>>
     \/ /\ ~MayDialAgain(h)
        /\ sock' = [sock EXCEPT ![h] = "closed"]
        /\ ready' = [ready EXCEPT ![h] = "failed"]
        /\ UNCHANGED tries
  /\ UNCHANGED <<rtVars, wire, held, begin, outVars, connErr, waiting, resumed>>

\* The request for an endpoint is outside the retry loop: its failure is final.
EndpointFails(h) ==
  /\ sock[h] = "dialing"
  /\ sock' = [sock EXCEPT ![h] = "closed"]
  /\ ready' = [ready EXCEPT ![h] = "failed"]
  /\ UNCHANGED <<rtVars, wire, tries, held, begin, outVars, connErr, waiting, resumed>>

\* The socket opens; _connect keeps it, listens and sends its request.
DialOpens(h) ==
  /\ sock[h] = "dialing"
  /\ sock' = [sock EXCEPT ![h] = "open"]
  /\ held' = [held EXCEPT ![h] = TRUE]
  /\ peer' = [peer EXCEPT ![h] = "requested"]
  /\ UNCHANGED <<proc, emitted, base, owner, sent, starts, missed, wire, tries, ready,
                 begin, outVars, connErr, waiting, resumed>>

-----------------------------------------------------------------------------
(* The runtime. *)

Send(h, m) == wire' = [wire EXCEPT ![h] = Append(@, m)]

Watchers == {w \in Sharing : peer[w] = "serving"}

\* Connections other than h the runtime closes when h takes the process over.
ClosedByTakeover(h) == {w \in Handles \ {h} : w = owner \/ w \in Watchers}

\* Connections the runtime closes when h's connection ends.
ClosedWith(h) == IF owner = h THEN Watchers \ {h} ELSE {}

AcceptStart ==
  /\ peer[Runner] = "requested"
  /\ proc' = "running" /\ starts' = starts + 1 /\ owner' = Runner
  /\ peer' = [peer EXCEPT ![Runner] = "serving"]
  /\ Send(Runner, Event("ready"))
  /\ UNCHANGED <<emitted, base, sent, missed, connVars, outVars, connErr, waiting, resumed>>

\* Replay begins anywhere in the retained output, up to the offset asked for.
AcceptAttach(h, from) ==
  /\ h # Runner /\ peer[h] = "requested"
  /\ base <= from /\ from <= Larger(base, begin[h])
  /\ h \in Sharing => owner # NoHandle \/ proc = "exited"
  /\ sent' = [sent EXCEPT ![h] = from]
  /\ missed' = [missed EXCEPT ![h] = {o \in Offsets : begin[h] <= o /\ o < from}]
  /\ LET ended == IF h \in Sharing THEN {} ELSE ClosedByTakeover(h)
     IN /\ peer' = [p \in Handles |->
                      IF p = h THEN "serving" ELSE IF p \in ended THEN "gone" ELSE peer[p]]
        /\ wire' = [p \in Handles |->
                      IF p = h THEN Append(wire[p], Event("ready"))
                      ELSE IF p \in ended THEN Append(wire[p], Event("evicted")) ELSE wire[p]]
        /\ owner' = IF h \in Sharing THEN owner ELSE h
  /\ UNCHANGED <<proc, emitted, base, starts, connVars, outVars, connErr, waiting, resumed>>

\* A request the runtime refuses, or answers with what the handle did not
\* expect: an error event, the other ready event, another process id.
Refuse(h) ==
  /\ peer[h] = "requested"
  /\ peer' = [peer EXCEPT ![h] = "gone"]
  /\ Send(h, Event("fault"))
  /\ UNCHANGED <<proc, emitted, base, owner, sent, starts, missed, connVars, outVars,
                 connErr, waiting, resumed>>

Emit ==
  /\ proc = "running" /\ emitted < NBytes
  /\ emitted' = emitted + 1
  /\ UNCHANGED <<proc, base, owner, peer, sent, starts, missed, wire, connVars, outVars,
                 connErr, waiting, resumed>>

\* The oldest retained byte is dropped.
Trim ==
  /\ base < emitted
  /\ base' = base + 1
  /\ UNCHANGED <<proc, emitted, owner, peer, sent, starts, missed, wire, connVars, outVars,
                 connErr, waiting, resumed>>

\* The next frame: bytes of one stream, from the first the runtime still has.
SendOutput(h, hi) ==
  LET lo == Larger(sent[h], base)
  IN /\ peer[h] = "serving" /\ lo < hi /\ hi <= emitted /\ Len(wire[h]) < MaxInFlight
     /\ \A o \in lo..(hi - 1) : StreamOf(o) = StreamOf(lo)
     /\ sent' = [sent EXCEPT ![h] = hi]
     /\ missed' = [missed EXCEPT ![h] = @ \cup {o \in Offsets : sent[h] <= o /\ o < lo}]
     /\ Send(h, OutputFrame(lo, hi))
     /\ UNCHANGED <<proc, emitted, base, owner, peer, starts, connVars, outVars, connErr,
                    waiting, resumed>>

ProcessExits ==
  /\ proc = "running"
  /\ proc' = "exited"
  /\ UNCHANGED <<emitted, base, owner, peer, sent, starts, missed, wire, connVars, outVars,
                 connErr, waiting, resumed>>

\* All the retained output is sent: the exit event, then the connection closes.
SendExit(h) ==
  /\ peer[h] = "serving" /\ proc = "exited"
  /\ Larger(sent[h], base) = emitted
  /\ missed' = [missed EXCEPT ![h] = @ \cup {o \in Offsets : sent[h] <= o /\ o < emitted}]
  /\ sent' = [sent EXCEPT ![h] = emitted]
  /\ peer' = [peer EXCEPT ![h] = "gone"]
  /\ wire' = [wire EXCEPT ![h] = @ \o <<ExitEvent(emitted), Event("closed")>>]
  /\ owner' = IF owner = h THEN NoHandle ELSE owner
  /\ UNCHANGED <<proc, emitted, base, starts, connVars, outVars, connErr, waiting, resumed>>

\* The runtime's end of h's connection goes away, and with an owner its watchers.
Release(h, end, rest) ==
  /\ owner' = IF owner = h THEN NoHandle ELSE owner
  /\ peer' = [p \in Handles |->
                IF p = h THEN end ELSE IF p \in ClosedWith(h) THEN "gone" ELSE peer[p]]
  /\ wire' = [p \in Handles |->
                IF p = h THEN rest
                ELSE IF p \in ClosedWith(h) THEN Append(wire[p], Event("evicted"))
                ELSE wire[p]]

\* The events that end a connection: a clean close has no error event.
Ending(clean) == IF clean THEN <<Event("closed")>> ELSE <<Event("neterr"), Event("closed")>>

\* The network fails, or a host on the way closes the connection: some of
\* what was in flight still arrives before.
Drop(h, kept, clean) ==
  /\ h \in Unreliable /\ sock[h] = "open" /\ kept \in 0..Len(wire[h])
  /\ peer[h] # "lost"
  /\ Release(h, "lost", SubSeq(wire[h], 1, kept) \o Ending(clean))
  /\ UNCHANGED <<proc, emitted, base, sent, starts, missed, connVars, outVars, connErr,
                 waiting, resumed>>

-----------------------------------------------------------------------------
(* The listeners of the socket. *)

Listening_UntilClosed(h) == sock[h] \in {"open", "closing"}

\* A WebSocket that is not OPEN delivers no message.
Listening(h) == sock[h] = "open"

Receives(h, types) ==
  /\ Listening(h) /\ wire[h] # <<>> /\ Head(wire[h]).type \in types
  /\ wire' = [wire EXCEPT ![h] = Tail(@)]

\* _handleMessage, the expected "started" or "attached".
OnReady(h) ==
  /\ Receives(h, {"ready"})
  /\ ready' = [ready EXCEPT ![h] = IF @ = "pending" THEN "ok" ELSE @]
  /\ UNCHANGED <<rtVars, tries, sock, held, begin, outVars, connErr, waiting, resumed>>

Flushed == [s \in Streams |-> {}]

DecodersAt_NoFlush(h, m) == fed[h]

\* The decoders' pending input when frame m is decoded: none after a gap.
DecodersAt(h, m) == IF m.lo > cursor[h] THEN Flushed ELSE fed[h]

FirstNew_NoSkip(h, m) == m.lo

\* offset + skip, once the cursor has jumped over a gap.
FirstNew(h, m) == Larger(cursor[h], m.lo)

CursorAfter(h, m) == m.hi

\* _handleOutput, and the onOutput call for the bytes that are new.
OnOutput(h) ==
  /\ Receives(h, {"output"})
  /\ LET m == Head(wire[h])
     IN IF m.hi <= cursor[h]
        THEN UNCHANGED <<cursor, chunks, fed>>
        ELSE /\ cursor' = [cursor EXCEPT ![h] = CursorAfter(h, m)]
             /\ chunks' = [chunks EXCEPT ![h] = Append(@, [lo |-> FirstNew(h, m), hi |-> m.hi])]
             /\ fed' = [fed EXCEPT ![h] =
                  IF h \in Collecting
                  THEN [DecodersAt(h, m) EXCEPT ![StreamOf(m.lo)] =
                          @ \cup (FirstNew(h, m)..(m.hi - 1))]
                  ELSE @]
  /\ UNCHANGED <<rtVars, connVars, result, connErr, waiting, resumed>>

DecodersAtExit(h) == Flushed

\* _finish: only the first exit counts.
OnExit(h) ==
  /\ Receives(h, {"exit"})
  /\ IF result[h] # NoResult
     THEN UNCHANGED <<result, cursor, fed>>
     ELSE /\ result' = [result EXCEPT ![h] = [exited |-> TRUE, calls |-> Len(chunks[h])]]
          /\ cursor' = [cursor EXCEPT ![h] = Larger(@, Head(wire[h]).lo)]
          /\ fed' = [fed EXCEPT ![h] = DecodersAtExit(h)]
  /\ UNCHANGED <<rtVars, connVars, chunks, connErr, waiting, resumed>>

\* A message _handleMessage throws on: the handle closes its socket.
OnFault(h) ==
  /\ Receives(h, {"fault"})
  /\ connErr' = [connErr EXCEPT ![h] = TRUE]
  /\ ready' = [ready EXCEPT ![h] = IF @ = "pending" THEN "failed" ELSE @]
  /\ sock' = [sock EXCEPT ![h] = "closing"]
  /\ UNCHANGED <<rtVars, tries, held, begin, outVars, waiting, resumed>>

\* The "error" event, which a "close" event follows.
OnError(h) ==
  /\ Receives(h, {"neterr"})
  /\ connErr' = [connErr EXCEPT ![h] = TRUE]
  /\ ready' = [ready EXCEPT ![h] = IF @ = "pending" THEN "failed" ELSE @]
  /\ UNCHANGED <<rtVars, tries, sock, held, begin, outVars, waiting, resumed>>

ReadyAfterClose(h) == IF ready[h] = "pending" THEN "failed" ELSE ready[h]

SocketAfterClose_Redials(h) == IF ready[h] = "pending" THEN "dialing" ELSE "closed"

SocketAfterClose(h) == "closed"

\* The "close" listener.
CloseListener(h, type) ==
  /\ sock' = [sock EXCEPT ![h] = SocketAfterClose(h)]
  /\ held' = [held EXCEPT ![h] = FALSE]
  /\ ready' = [ready EXCEPT ![h] = ReadyAfterClose(h)]
  /\ connErr' = [connErr EXCEPT ![h] = @ \/ (type = "evicted" /\ result[h] = NoResult)]

\* The runtime or the network closed the connection.
OnClose(h) ==
  /\ Receives(h, {"evicted", "closed"})
  /\ CloseListener(h, Head(wire[h]).type)
  /\ UNCHANGED <<rtVars, tries, begin, outVars, waiting, resumed>>

\* The handshake of a close the client asked for: what was in flight is
\* dropped, as a socket that is not open delivers no message.
CloseCompletes(h) ==
  /\ sock[h] = "closing"
  /\ Release(h, "gone", <<>>)
  /\ CloseListener(h, "closed")
  /\ UNCHANGED <<proc, emitted, base, sent, starts, missed, tries, begin, outVars,
                 waiting, resumed>>

-----------------------------------------------------------------------------
(* Calls on a connected handle. *)

Disconnect(h) ==
  /\ ready[h] = "ok" /\ held[h]
  /\ held' = [held EXCEPT ![h] = FALSE]
  /\ sock' = [sock EXCEPT ![h] = "closing"]
  /\ UNCHANGED <<rtVars, wire, tries, ready, begin, outVars, connErr, waiting, resumed>>

\* kill() over a control socket of its own; the confirmation changes nothing.
Kill(h) ==
  /\ ready[h] = "ok" /\ result[h] = NoResult /\ proc = "running"
  /\ proc' = "exited"
  /\ UNCHANGED <<emitted, base, owner, peer, sent, starts, missed, wire, connVars, outVars,
                 connErr, waiting, resumed>>

Outcome_ErrorFirst(h) == IF connErr[h] THEN "error" ELSE "result"

\* A result wins over whatever happened to the connection.
Outcome(h) == IF result[h] # NoResult THEN "result" ELSE "error"

Wait(h) ==
  /\ h \in Waiters /\ ready[h] = "ok" /\ waiting[h] = "no"
  /\ waiting' = [waiting EXCEPT ![h] = IF result[h] # NoResult THEN "result" ELSE "pending"]
  /\ UNCHANGED <<rtVars, wire, connVars, outVars, connErr, resumed>>

RaceOver_ExitOnly(h) == result[h] # NoResult

\* Promise.race([this._terminal, closed]) has settled.
RaceOver(h) == result[h] # NoResult \/ sock[h] = "closed"

WaitSettles(h) ==
  /\ waiting[h] = "pending" /\ RaceOver(h)
  /\ waiting' = [waiting EXCEPT ![h] = Outcome(h)]
  /\ UNCHANGED <<rtVars, wire, connVars, outVars, connErr, resumed>>

-----------------------------------------------------------------------------
Opening(h) ==
  \/ \E g \in Handles \cup {NoHandle} : Attach(h, g)
  \/ EndpointFails(h)
  \/ DialFails(h)
  \/ DialOpens(h)

Runtime(h) ==
  \/ \E from \in Offsets : AcceptAttach(h, from)
  \/ Refuse(h)
  \/ \E hi \in Offsets : SendOutput(h, hi)
  \/ SendExit(h)
  \/ \E kept \in 0..Len(wire[h]), clean \in BOOLEAN : Drop(h, kept, clean)

Listener(h) ==
  \/ OnReady(h) \/ OnOutput(h) \/ OnExit(h) \/ OnFault(h) \/ OnError(h) \/ OnClose(h)
  \/ CloseCompletes(h)

Caller(h) == Disconnect(h) \/ Kill(h) \/ Wait(h) \/ WaitSettles(h)

Next ==
  \/ Run \/ AcceptStart \/ Emit \/ Trim \/ ProcessExits
  \/ \E h \in Handles : Opening(h) \/ Runtime(h) \/ Listener(h) \/ Caller(h)

Spec == Init /\ [][Next]_vars

-----------------------------------------------------------------------------
(* Safety. *)

\* Calls of onOutput never repeat a byte or go back: each is not empty and
\* begins at or after the end of the one before it, from the offset the
\* handle was created with up to its cursor, whatever the frames overlap.
DeliveredInOrder ==
  \A h \in Handles :
    \A i \in 1..Len(chunks[h]) :
      LET c == chunks[h][i] IN
      /\ begin[h] <= c.lo /\ c.lo < c.hi /\ c.hi <= cursor[h]
      /\ \A j \in 1..(i - 1) : chunks[h][j].hi <= c.lo

Delivered(h) == UNION {chunks[h][i].lo..(chunks[h][i].hi - 1) : i \in 1..Len(chunks[h])}

\* Every byte between the handle's first offset and its cursor was passed to
\* onOutput, unless the runtime no longer retained it when its turn came.
NothingSkipped ==
  \A h \in Handles : begin[h]..(cursor[h] - 1) \subseteq Delivered(h) \cup missed[h]

\* What the text decoders were given since their last flush is all of its
\* stream between some offset and the cursor: a multi-byte character is never
\* put together from the two sides of a gap.
DecoderInputUnbroken ==
  \A h \in Collecting :
    \E a \in begin[h]..cursor[h] :
      \A s \in Streams : fed[h][s] = StreamBytes(s, a, cursor[h])

\* Once there is a result the text it was built from is final: no output
\* follows it and no bytes are left in a decoder.
ResultIsComplete ==
  \A h \in Handles : result[h] # NoResult =>
    result[h].calls = Len(chunks[h]) /\ fed[h] = Flushed

\* Neither the bytes nor the text of the output loses anything that the
\* runtime sent (_handleOutput, _appendText and _finish).
NothingIsLost == NothingSkipped /\ DecoderInputUnbroken /\ ResultIsComplete

\* A handle attached at the cursor of one that was disconnected before
\* continues it exactly: no byte is delivered by both.
ResumeRepeatsNothing ==
  \A h \in Handles : resumed[h] # NoHandle =>
    Delivered(h) \cap Delivered(resumed[h]) = {}

\* One run() creates at most one process, however its connection fails.
StartedAtMostOnce == starts <= 1

\* wait() never rejects on a handle that received the exit.
ExitBeatsConnectionError ==
  \A h \in Handles : waiting[h] = "error" => result[h] = NoResult

\* The handle implements the output feed its documentation promises.
Feed == INSTANCE OutputFeed WITH
  Readers <- Handles,
  Size    <- NBytes,
  pos     <- cursor,
  got     <- [h \in Handles |-> Delivered(h)],
  done    <- [h \in Handles |-> result[h] # NoResult]
ImplementsFeed == Feed!Spec

-----------------------------------------------------------------------------
(* Liveness.  Opening a socket ends, the runtime answers every request and   *)
(* sends what it has to a connection it keeps, and events reach their        *)
(* listeners; callers, exits and failures are under no obligation.           *)

Answers(h) == (h = Runner /\ AcceptStart) \/ (\E from \in Offsets : AcceptAttach(h, from)) \/ Refuse(h)
Serves(h) == (\E hi \in Offsets : SendOutput(h, hi)) \/ SendExit(h)

Fairness ==
  \A h \in Handles :
    /\ WF_vars(EndpointFails(h) \/ DialFails(h) \/ DialOpens(h))
    /\ WF_vars(Answers(h))
    /\ WF_vars(Serves(h))
    /\ WF_vars(Listener(h))
    /\ WF_vars(WaitSettles(h))

FairSpec == Spec /\ Fairness

\* run() and attach() settle, whatever happens to the connection.
EveryOpenSettles == \A h \in Handles : sock[h] = "dialing" ~> ready[h] # "pending"

\* A pending wait() settles once the process has exited or the runtime has
\* ended the connection.
EveryWaitSettles ==
  \A h \in Handles :
    (waiting[h] = "pending" /\ (proc = "exited" \/ peer[h] \in {"gone", "lost"}))
      ~> waiting[h] # "pending"

\* The promises of run(), attach() and wait() all settle.
EveryPromiseSettles == EveryOpenSettles /\ EveryWaitSettles
=============================================================================
