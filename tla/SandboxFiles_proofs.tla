-------------------------- MODULE SandboxFiles_proofs --------------------------
(***************************************************************************)
(* Proofs about SandboxFiles, for any number of uploads and downloads,     *)
(* files and chunks of any size and any faults: what a settled transfer    *)
(* leaves behind, and that what either direction moves is a whole file.    *)
(*                                                                         *)
(* Inv relates a call to its script and its connection.  FilesInv relates  *)
(* the blocks: those an upload's script has taken and those on their way   *)
(* to it are its source from the first block; a download's script is one   *)
(* chunk ahead of the writer or not at all, and the reader's queue is what *)
(* the script has said since what the call has taken, with errors behind.  *)
(***************************************************************************)
EXTENDS SandboxFiles, Integers, SequenceTheorems, TLAPS

ScriptStates == Running \cup {"none", "ok", "bad"}
CallStates   == Settled \cup {"idle", "run", "send", "ask", "line", "data", "wait", "abort"}

\* The part of the type invariant the proofs need.
Shape ==
  /\ at \in [Transfers -> CallStates] /\ script \in [Transfers -> ScriptStates]
  /\ exit \in [Transfers -> {"none", "ok", "bad", "lost"}]
  /\ link \in [Transfers -> {"none", "up", "down"}]

\* A process handle has a connection once run() has resolved, and its wait()
\* settles once, when the connection ends.
LinkInv ==
  \A t \in Transfers :
    /\ at[t] \in {"idle", "run"} => exit[t] = "none" /\ link[t] = "none"
    /\ exit[t] # "none" => link[t] = "down"

\* The exit the client knows is the script's; a script that has exited stays
\* as it is.  An upload's script that succeeded has replaced the file.
ExitInv ==
  /\ \A t \in Transfers : exit[t] \in {"ok", "bad"} => script[t] = exit[t]
  /\ \A u \in Uploads : script[u] = "ok" => u \in moved

\* A call that resolved knows that its script succeeded.
DoneInv == \A t \in Transfers : at[t] = "done" => exit[t] = "ok"

Inv == Shape /\ LinkInv /\ ExitInv /\ DoneInv /\ SettledIsOver

invVars == <<at, script, exit, link, moved, orphaned>>

\* The initial states satisfy it.
LEMMA InitInv == Init => Inv
  BY DEF Inv, Shape, Transfers, ScriptStates, CallStates, Init, LinkInv, ExitInv, DoneInv, SettledIsOver, Settled, Running

\* A step that changes none of these variables.
LEMMA Frame == Inv /\ UNCHANGED invVars => Inv'
  BY DEF Inv, Shape, invVars, LinkInv, ExitInv, DoneInv, SettledIsOver

\* A step of a script, other than its start: from running to running or exited.
LEMMA ScriptStep ==
  ASSUME Inv, NEW t \in Transfers, NEW to \in ScriptStates,
         script[t] \in Running,
         script' = [script EXCEPT ![t] = to],
         t \in Uploads /\ to = "ok" => t \in moved',
         moved \subseteq moved', orphaned \subseteq orphaned',
         UNCHANGED <<at, exit, link>>
  PROVE  Inv'
<1>1. Shape' /\ LinkInv'
  BY DEF Inv, Shape, LinkInv
<1>2. \A r \in Transfers : script'[r] = IF r = t THEN to ELSE script[r]
  BY DEF Inv, Shape
<1>3. ExitInv'
  <2>1. exit[t] \notin {"ok", "bad"}
    BY DEF Inv, ExitInv, Running
  <2>2. QED
    BY <1>2, <2>1 DEF Inv, ExitInv, Transfers
<1>4. DoneInv' /\ SettledIsOver'
  BY <1>2 DEF Inv, DoneInv, SettledIsOver
<1>5. QED
  BY <1>1, <1>3, <1>4 DEF Inv

\* The scripts of uploads and downloads.
LEMMA ScriptInv ==
  ASSUME Inv,
         \/ \E u \in Uploads : UploadScript(u)
         \/ \E d \in Downloads : DownloadScript(d)
         \/ \E t \in Transfers : ScriptFails(t)
  PROVE  Inv'
<1>1. ASSUME NEW u \in Uploads, Truncate(u) PROVE Inv'
  <2>1. /\ script[u] \in Running /\ script' = [script EXCEPT ![u] = "cat"]
        /\ UNCHANGED <<at, exit, link, moved, orphaned>>
    BY <1>1 DEF Truncate, Step, Running, connVars, callVars
  <2>2. QED
    BY <2>1, ScriptStep DEF Transfers, ScriptStates, Running
<1>2. ASSUME NEW u \in Uploads, Cat(u) PROVE Inv'
  <2>1. /\ script[u] \in Running
        /\ script' = script \/ script' = [script EXCEPT ![u] = "move"]
        /\ UNCHANGED <<at, exit, link, moved, orphaned>>
    BY <1>2 DEF Cat, Running, connVars, callVars
  <2>2. CASE script' = script
    BY <2>1, <2>2, Frame DEF invVars
  <2>3. CASE script' = [script EXCEPT ![u] = "move"]
    BY <2>1, <2>3, ScriptStep DEF Transfers, ScriptStates, Running
  <2>4. QED
    BY <2>1, <2>2, <2>3
<1>3. ASSUME NEW u \in Uploads, Move(u) PROVE Inv'
  <2>1. /\ script[u] \in Running /\ script' = [script EXCEPT ![u] = "ok"]
        /\ moved' = moved \cup {u} /\ UNCHANGED <<at, exit, link, orphaned>>
    BY <1>3 DEF Move, Step, Running, connVars, callVars
  <2>2. QED
    BY <2>1, ScriptStep DEF Transfers, ScriptStates
<1>4. ASSUME NEW d \in Downloads, DownloadScript(d) PROVE Inv'
  <2>1. d \notin Uploads /\ d \in Transfers
    BY TransfersAssumption DEF Transfers
  <2>2. PICK to \in {"bad", "serve", "ok"} : script' = [script EXCEPT ![d] = to]
    BY <1>4 DEF DownloadScript, Open, ServeChunk, Step
  <2>3. /\ script[d] \in Running
        /\ UNCHANGED <<at, exit, link, moved, orphaned>>
    BY <1>4 DEF DownloadScript, Open, ServeChunk, Step, Running, connVars, callVars
  <2>4. QED
    BY <2>1, <2>2, <2>3, ScriptStep DEF ScriptStates, Running
<1>5. ASSUME NEW t \in Transfers, ScriptFails(t) PROVE Inv'
  <2>1. /\ script[t] \in Running /\ script' = [script EXCEPT ![t] = "bad"]
        /\ UNCHANGED <<at, exit, link, moved, orphaned>>
    BY <1>5 DEF ScriptFails, connVars, callVars
  <2>2. QED
    BY <2>1, ScriptStep DEF ScriptStates
<1>6. QED
  BY <1>1, <1>2, <1>3, <1>4, <1>5 DEF UploadScript

\* The start of a script, and the events of a connection.
LEMMA EventInv ==
  ASSUME Inv, NEW t \in Transfers,
         Accept(t) \/ OnExit(t) \/ \E kept \in 0..Len(stdin[t]) : Drop(t, kept)
  PROVE  Inv'
<1>1. CASE Accept(t)
  <2>1. /\ at[t] = "run" /\ script[t] = "none" /\ script' = [script EXCEPT ![t] = "begun"]
        /\ UNCHANGED <<at, exit, link, moved, orphaned>>
    BY <1>1 DEF Accept, Step, connVars, callVars
  <2>2. Shape' /\ LinkInv' /\ DoneInv'
    BY <2>1 DEF Inv, Shape, ScriptStates, Running, LinkInv, DoneInv
  <2>3. \A r \in Transfers : script'[r] = IF r = t THEN "begun" ELSE script[r]
    BY <2>1 DEF Inv, Shape
  <2>4. ExitInv' /\ SettledIsOver'
    BY <2>1, <2>3 DEF Inv, ExitInv, LinkInv, SettledIsOver, Settled, Transfers
  <2>5. QED
    BY <2>2, <2>4 DEF Inv
<1>2. CASE ~Accept(t)
  <2>1. PICK how \in {"ok", "bad", "lost"} :
          /\ link[t] = "up" /\ link' = [link EXCEPT ![t] = "down"]
          /\ exit' = [exit EXCEPT ![t] = how]
          /\ how # "lost" => script[t] = how
    BY <1>2 DEF OnExit, Drop, Exits
  <2>2. UNCHANGED <<at, script, moved, orphaned>>
    BY <1>2 DEF OnExit, Drop, sandboxVars, callVars
  <2>3. \A r \in Transfers : /\ exit'[r] = IF r = t THEN how ELSE exit[r]
                             /\ link'[r] = IF r = t THEN "down" ELSE link[r]
    BY <2>1 DEF Inv, Shape
  <2>4. Shape' /\ SettledIsOver'
    BY <2>1, <2>2 DEF Inv, Shape, SettledIsOver
  <2>5. LinkInv' /\ DoneInv'
    BY <2>1, <2>2, <2>3 DEF Inv, LinkInv, DoneInv
  <2>6. ExitInv'
    BY <2>1, <2>2, <2>3 DEF Inv, ExitInv
  <2>7. QED
    BY <2>4, <2>5, <2>6 DEF Inv
<1>3. QED
  BY <1>1, <1>2

\* A call that goes from one await to another, without settling.
LEMMA CallStep ==
  ASSUME Inv, NEW t \in Transfers, NEW to \in CallStates,
         at[t] \notin Settled, to \notin Settled \cup {"idle", "run"},
         at' = [at EXCEPT ![t] = to],
         \/ link' = link
         \/ link' = [link EXCEPT ![t] = "up"] /\ at[t] = "run",
         UNCHANGED <<script, exit, moved, orphaned>>
  PROVE  Inv'
<1>1. Shape'
  BY DEF Inv, Shape
<1>2. \A r \in Transfers : /\ at'[r] = IF r = t THEN to ELSE at[r]
                           /\ link'[r] = link[r] \/ (r = t /\ at[t] = "run")
  BY DEF Inv, Shape
<1>3. LinkInv'
  BY <1>2 DEF Inv, LinkInv
<1>4. ExitInv' /\ DoneInv' /\ SettledIsOver'
  BY <1>2 DEF Inv, ExitInv, DoneInv, SettledIsOver, Settled
<1>5. QED
  BY <1>1, <1>3, <1>4 DEF Inv

\* A call that goes to another await without changing its connection, or that
\* settles: what DoneInv and SettledIsOver then ask for is in the hypotheses.
LEMMA GoesTo ==
  ASSUME Inv, NEW t \in Transfers, NEW to \in CallStates,
         at[t] # "idle" \/ to = "run", to # "idle", to = "run" => at[t] = "idle",
         at' = [at EXCEPT ![t] = to],
         link' = link \/ (link' = [link EXCEPT ![t] = "down"] /\ at[t] \notin {"idle", "run"}),
         to = "done" => exit[t] = "ok",
         to = "failed" => script[t] \notin Running \/ t \in orphaned',
         orphaned \subseteq orphaned',
         UNCHANGED <<script, exit, moved>>
  PROVE  Inv'
<1>1. Shape'
  BY DEF Inv, Shape
<1>2. \A r \in Transfers : /\ at'[r] = IF r = t THEN to ELSE at[r]
                           /\ link'[r] = link[r] \/ (r = t /\ link'[r] = "down")
  BY DEF Inv, Shape
<1>3. LinkInv'
  <2>1. link'[t] = link[t] \/ (link'[t] = "down" /\ at[t] \notin {"idle", "run"})
    BY DEF Inv, Shape
  <2>2. QED
    BY <1>2, <2>1 DEF Inv, LinkInv
<1>4. ExitInv' /\ DoneInv'
  BY <1>2 DEF Inv, ExitInv, DoneInv
<1>5. SettledIsOver'
  <2>1. to = "done" => script[t] \notin Running
    BY DEF Inv, ExitInv, Running
  <2>2. QED
    BY <1>2, <2>1 DEF Inv, SettledIsOver, Settled
<1>6. QED
  BY <1>1, <1>3, <1>4, <1>5 DEF Inv

\* A call that begins, or that settles.
LEMMA SettleInv ==
  ASSUME Inv, NEW t \in Transfers,
         \/ Begin(t) \/ RunRejects(t) \/ Abort(t)
         \/ (WaitReturns(t) /\ Successful(t))
  PROVE  Inv'
<1>1. CASE Begin(t)
  BY <1>1, GoesTo DEF Begin, Goto, sandboxVars, connVars, CallStates
<1>2. CASE RunRejects(t)
  BY <1>2, GoesTo DEF RunRejects, Goto, sandboxVars, connVars, CallStates, Settled
<1>3. CASE WaitReturns(t) /\ Successful(t)
  BY <1>3, GoesTo DEF WaitReturns, Successful, Goto, sandboxVars, connVars, CallStates, Settled
<1>4. CASE Abort(t)
  <2>1. /\ at[t] = "abort" /\ at' = [at EXCEPT ![t] = "failed"]
        /\ link' = [link EXCEPT ![t] = "down"] /\ UNCHANGED <<exit, moved>>
    BY <1>4 DEF Abort, Goto
  <2>2. CASE /\ Kills(t) /\ script[t] \in Running
             /\ script' = [script EXCEPT ![t] = "bad"] /\ UNCHANGED orphaned
    <3>1. Shape'
      BY <2>1, <2>2 DEF Inv, Shape, ScriptStates, CallStates, Settled
    <3>2. \A r \in Transfers :
            /\ at'[r] = (IF r = t THEN "failed" ELSE at[r])
            /\ link'[r] = (IF r = t THEN "down" ELSE link[r])
            /\ script'[r] = (IF r = t THEN "bad" ELSE script[r])
      BY <2>1, <2>2 DEF Inv, Shape
    <3>3. LinkInv' /\ DoneInv'
      BY <2>1, <3>2 DEF Inv, LinkInv, DoneInv
    <3>4. ExitInv'
      BY <2>1, <2>2, <3>2 DEF Inv, ExitInv, Kills, Transfers
    <3>5. SettledIsOver'
      BY <2>2, <3>2 DEF Inv, SettledIsOver, Running
    <3>6. QED
      BY <3>1, <3>3, <3>4, <3>5 DEF Inv
  <2>3. CASE ~(Kills(t) /\ script[t] \in Running) /\ UNCHANGED <<script, orphaned>>
    <3>1. script[t] \notin Running
      BY <2>3 DEF Kills, Inv, ExitInv, Running
    <3>2. QED
      BY <2>1, <2>3, <3>1, GoesTo DEF CallStates, Settled
  <2>4. CASE orphaned' = orphaned \cup {t} /\ UNCHANGED script
    BY <2>1, <2>4, GoesTo DEF CallStates, Settled
  <2>5. QED
    BY <1>4, <2>2, <2>3, <2>4 DEF Abort
<1>5. QED
  BY <1>1, <1>2, <1>3, <1>4

\* The other steps of a call.
LEMMA CallInv ==
  ASSUME Inv, NEW t \in Transfers,
         \/ t \in Uploads /\ UploadCall(t)
         \/ t \in Downloads /\ (DownloadCall(t) \/ Outputs(t))
         \/ RunResolves(t) \/ SendThrows(t) \/ (WaitReturns(t) /\ ~Successful(t))
  PROVE  Inv'
<1>1. CASE (t \in Uploads /\ SendChunk(t)) \/ (t \in Downloads /\ Outputs(t))
  BY <1>1, Frame DEF SendChunk, Sends, Outputs, OnOutput, invVars, sandboxVars, connVars, callVars
<1>2. CASE RunResolves(t)
  <2>1. PICK to \in {"send", "ask"} : at' = [at EXCEPT ![t] = to]
    BY <1>2 DEF RunResolves, Goto
  <2>2. /\ at[t] = "run" /\ link' = [link EXCEPT ![t] = "up"]
        /\ UNCHANGED <<script, exit, moved, orphaned>>
    BY <1>2 DEF RunResolves, Goto, sandboxVars
  <2>3. QED
    BY <2>1, <2>2, CallStep DEF CallStates, Settled
<1>3. CASE \/ CloseStdin(t) \/ SendThrows(t) \/ AskChunk(t) \/ ReadLine(t) \/ WriteChunk(t)
           \/ ReadThrows(t) \/ (WaitReturns(t) /\ ~Successful(t))
  <2>1. PICK to \in {"wait", "abort", "line", "data", "ask"} : at' = [at EXCEPT ![t] = to]
    BY <1>3 DEF CloseStdin, SendThrows, AskChunk, ReadLine, WriteChunk, ReadThrows, WaitReturns, Goto
  <2>2. at[t] \in {"send", "ask", "line", "data", "wait"}
    BY <1>3 DEF CloseStdin, SendThrows, AskChunk, ReadLine, WriteChunk, ReadThrows, WaitReturns, Goto
  <2>3. UNCHANGED <<link, script, exit, moved, orphaned>>
    BY <1>3 DEF CloseStdin, SendThrows, AskChunk, ReadLine, WriteChunk, ReadThrows, WaitReturns,
                Sends, sandboxVars, connVars
  <2>4. QED
    BY <2>1, <2>2, <2>3, CallStep DEF CallStates, Settled
<1>4. QED
  BY <1>1, <1>2, <1>3 DEF UploadCall, DownloadCall

\* Inv holds in every reachable state.
LEMMA Invariance == Spec => []Inv
<1>1. Inv /\ [Next]_vars => Inv'
  <2> SUFFICES ASSUME Inv, [Next]_vars PROVE Inv'
    OBVIOUS
  <2>1. CASE UNCHANGED vars
    BY <2>1, Frame DEF vars, invVars, sandboxVars, connVars, callVars
  <2>2. ASSUME NEW u \in Uploads, UploadScript(u) \/ UploadCall(u) PROVE Inv'
    <3>1. u \in Transfers
      BY DEF Transfers
    <3>2. QED
      BY <2>2, <3>1, ScriptInv, CallInv
  <2>3. ASSUME NEW d \in Downloads, DownloadScript(d) \/ DownloadCall(d) \/ Outputs(d)
        PROVE  Inv'
    <3>1. d \in Transfers
      BY DEF Transfers
    <3>2. QED
      BY <2>3, <3>1, ScriptInv, CallInv
  <2>4. ASSUME NEW t \in Transfers,
               \/ Accept(t) \/ OnExit(t) \/ ScriptFails(t)
               \/ \E kept \in 0..Len(stdin[t]) : Drop(t, kept)
        PROVE  Inv'
    BY <2>4, ScriptInv, EventInv
  <2>5. ASSUME NEW t \in Transfers, Begin(t) \/ RunRejects(t) \/ Call(t) PROVE Inv'
    <3>1. CASE Begin(t) \/ RunRejects(t) \/ Abort(t) \/ (WaitReturns(t) /\ Successful(t))
      BY <3>1, SettleInv
    <3>2. CASE RunResolves(t) \/ SendThrows(t) \/ (WaitReturns(t) /\ ~Successful(t))
      BY <3>2, CallInv
    <3>3. QED
      BY <2>5, <3>1, <3>2 DEF Call
  <2>6. CASE Next
    <3>1. CASE \E u \in Uploads : UploadScript(u) \/ UploadCall(u)
      BY <3>1, <2>2
    <3>2. CASE \E d \in Downloads : DownloadScript(d) \/ DownloadCall(d) \/ Outputs(d)
      BY <3>2, <2>3
    <3>3. CASE \E t \in Transfers :
                 \/ Begin(t) \/ Accept(t) \/ RunRejects(t) \/ Call(t) \/ OnExit(t) \/ ScriptFails(t)
                 \/ \E kept \in 0..Len(stdin[t]) : Drop(t, kept)
      BY <3>3, <2>4, <2>5
    <3>4. QED
      BY <2>6, <3>1, <3>2, <3>3 DEF Next
  <2>7. QED
    BY <2>1, <2>6
<1>2. QED
  BY <1>1, InitInv, PTL DEF Spec

\* However its connection, its source or its writer fails, a call that has
\* settled leaves no script running that it had the means to kill.
THEOREM NothingLeftRunning == Spec => []SettledIsOver
<1>1. Inv => SettledIsOver
  BY DEF Inv
<1>2. QED
  BY <1>1, Invariance, PTL

\* An uploadFile() that resolves has replaced the file: the exit it checks is
\* the one of a script that got past its mv.
THEOREM ResolvedUploadsArePublished == Spec => []UploadIsPublished
<1>1. Inv => UploadIsPublished
  BY DEF Inv, ExitInv, DoneInv, UploadIsPublished, Transfers
<1>2. QED
  BY <1>1, Invariance, PTL

-----------------------------------------------------------------------------
(* Sequences. *)

LEMMA Appended ==
  ASSUME NEW S, NEW s \in Seq(S), NEW e \in S
  PROVE  /\ Append(s, e) \in Seq(S) /\ Len(s) \in Nat /\ Len(Append(s, e)) = Len(s) + 1
         /\ Append(s, e)[Len(s) + 1] = e
         /\ \A i \in 1..Len(s) : Append(s, e)[i] = s[i]
OBVIOUS

LEMMA TailOf ==
  ASSUME NEW S, NEW s \in Seq(S), s # <<>>
  PROVE  /\ Tail(s) \in Seq(S) /\ Len(s) \in Nat \ {0} /\ Len(Tail(s)) = Len(s) - 1
         /\ Head(s) \in S /\ Head(s) = s[1]
         /\ \A i \in 1..(Len(s) - 1) : Tail(s)[i] = s[i + 1]
OBVIOUS

LEMMA Joined ==
  ASSUME NEW S, NEW s \in Seq(S), NEW r \in Seq(S)
  PROVE  /\ s \o r \in Seq(S) /\ Len(s) \in Nat /\ Len(r) \in Nat /\ Len(s \o r) = Len(s) + Len(r)
         /\ \A i \in 1..Len(s) : (s \o r)[i] = s[i]
         /\ \A i \in 1..Len(r) : (s \o r)[Len(s) + i] = r[i]
OBVIOUS

LEMMA Cut ==
  ASSUME NEW S, NEW s \in Seq(S), NEW m \in 1..(Len(s) + 1), NEW n \in (m - 1)..Len(s)
  PROVE  /\ SubSeq(s, m, n) \in Seq(S) /\ Len(SubSeq(s, m, n)) = n - m + 1
         /\ \A i \in 1..(n - m + 1) : SubSeq(s, m, n)[i] = s[m + i - 1]
PROOF
<1>1. \A i \in m..n : s[i] \in S
  OBVIOUS
<1>2. Len(s) \in Nat /\ m \in Int /\ n \in Int
  OBVIOUS
<1>3. /\ SubSeq(s, m, n) \in Seq(S)
      /\ Len(SubSeq(s, m, n)) = IF m <= n THEN n - m + 1 ELSE 0
      /\ \A i \in 1..(n - m + 1) : SubSeq(s, m, n)[i] = s[m + i - 1]
  BY <1>1, <1>2, SubSeqProperties
<1> QED  BY <1>2, <1>3

\* What is left of a sequence behind its first elements, and these.
LEMMA Divided ==
  ASSUME NEW S, NEW s \in Seq(S), NEW n \in 0..Len(s)
  PROVE  /\ SubSeq(s, n + 1, Len(s)) \in Seq(S) /\ Len(SubSeq(s, n + 1, Len(s))) = Len(s) - n
         /\ \A i \in 1..(Len(s) - n) : SubSeq(s, n + 1, Len(s))[i] = s[n + i]
         /\ SubSeq(s, 1, n) \in Seq(S) /\ Len(SubSeq(s, 1, n)) = n
         /\ \A i \in 1..n : SubSeq(s, 1, n)[i] = s[i]
PROOF
<1>1. Len(s) \in Nat /\ n \in Nat /\ n + 1 \in 1..(Len(s) + 1) /\ Len(s) \in ((n + 1) - 1)..Len(s)
  OBVIOUS
<1>2. /\ SubSeq(s, n + 1, Len(s)) \in Seq(S) /\ Len(SubSeq(s, n + 1, Len(s))) = Len(s) - (n + 1) + 1
      /\ \A i \in 1..(Len(s) - (n + 1) + 1) : SubSeq(s, n + 1, Len(s))[i] = s[(n + 1) + i - 1]
  BY <1>1, Cut
<1>3. Len(s) - (n + 1) + 1 = Len(s) - n /\ \A i \in 1..(Len(s) - n) : (n + 1) + i - 1 = n + i
  BY <1>1
<1>4. 1 \in 1..(Len(s) + 1) /\ n \in (1 - 1)..Len(s)
  BY <1>1
<1>5. /\ SubSeq(s, 1, n) \in Seq(S) /\ Len(SubSeq(s, 1, n)) = n - 1 + 1
      /\ \A i \in 1..(n - 1 + 1) : SubSeq(s, 1, n)[i] = s[1 + i - 1]
  BY <1>4, Cut
<1>6. n - 1 + 1 = n /\ \A i \in 1..n : 1 + i - 1 = i
  BY <1>1
<1>7. /\ SubSeq(s, n + 1, Len(s)) \in Seq(S) /\ Len(SubSeq(s, n + 1, Len(s))) = Len(s) - n
      /\ \A i \in 1..(Len(s) - n) : SubSeq(s, n + 1, Len(s))[i] = s[n + i]
  BY <1>2, <1>3
<1>8. /\ SubSeq(s, 1, n) \in Seq(S) /\ Len(SubSeq(s, 1, n)) = n
      /\ \A i \in 1..n : SubSeq(s, 1, n)[i] = s[i]
  BY <1>5, <1>6
<1> QED  BY <1>7, <1>8

LEMMA SameSequence ==
  ASSUME NEW S, NEW s \in Seq(S), NEW r \in Seq(S), Len(s) = Len(r), \A i \in 1..Len(s) : s[i] = r[i]
  PROVE  s = r
BY SeqEqual

\* Positions of what follows in a sequence.
LEMMA Positions ==
  /\ \A n, m \in Nat : \A i \in 1..(n + m) :
       i \notin 1..n => i - n \in 1..m /\ i = n + (i - n)
  /\ \A n, len, cur \in Nat : \A i \in 1..n :
       n <= cur /\ cur <= len => cur - n + i \in 1..len
OBVIOUS

-----------------------------------------------------------------------------
(* What is on its way. *)

FileTypes ==
  /\ TypeOK
  /\ at \in [Transfers -> CallStates] /\ given \in [Uploads -> Nat]

\* How much of its source the script of an upload has taken from its input.
Stored(u) == IF script[u] = "cat" THEN Len(temp[u]) ELSE 0

\* What it has taken and what is on its way is the source from its first block,
\* and the end of the input is behind the last.
StreamInv(u) ==
  /\ script[u] = "cat" => \A i \in 1..Len(temp[u]) : temp[u][i] = Block(u, i)
  /\ Stored(u) <= given[u]
  /\ \A i \in 1..Len(stdin[u]) :
       \/ stdin[u][i] = Block(u, Stored(u) + i) /\ Stored(u) + i <= given[u]
       \/ stdin[u][i] = EndOfInput /\ Stored(u) + i = Size[u] + 1 /\ given[u] = Size[u]
  /\ at[u] \in {"idle", "run"} \/ (at[u] = "send" /\ link[u] = "up") =>
       Stored(u) + Len(stdin[u]) = given[u]

UploadInv(u) ==
  /\ given[u] \in 0..Size[u]
  /\ at[u] \in {"idle", "run"} => given[u] = 0
  /\ script[u] \in {"none", "begun", "cat"} => StreamInv(u)
  /\ script[u] = "move" => temp[u] = Source(u)

\* The script of a download has nothing more to say, of what the call has
\* taken c from.
Quiet(d, c) == c = Len(output[d]) /\ taken[d] = Len(written[d])

\* It has said the next n blocks of its file, fewer than ChunkSize at the end.
Said(d, c, n) ==
  /\ n = Smaller(ChunkSize, Len(opened[d]) - Len(written[d]))
  /\ Len(output[d]) = c + n /\ taken[d] = Len(written[d]) + n
  /\ \A i \in 1..n : output[d][c + i] = opened[d][Len(written[d]) + i]

\* Where the call and the script are with each other: one chunk is asked for at
\* a time, and written before the next is asked for.
TurnInv(d, c) ==
  /\ at[d] \in {"idle", "run", "ask"} => Quiet(d, c)
  /\ at[d] = "line" => \/ Quiet(d, c) /\ Len(stdin[d]) <= 1
                       \/ /\ stdin[d] = <<>> /\ c < Len(output[d])
                          /\ output[d][c + 1] = SizeLine(output[d][c + 1].n)
                          /\ Said(d, c + 1, output[d][c + 1].n)
  /\ at[d] = "data" => Said(d, c, need[d])
  /\ at[d] \in {"data", "wait", "done"} => script[d] \notin {"none", "begun"}
  /\ at[d] \in {"wait", "done"} => Len(written[d]) = Len(opened[d])
  /\ at[d] \notin {"line", "abort", "failed"} => stdin[d] = <<>>

\* The reader's queue is what the script has said since what the call has
\* taken, g blocks of it; errors come behind.
QueueInv(d, g) ==
  /\ g <= cursor[d]
  /\ \A i \in 1..g : queue[d][i] = output[d][cursor[d] - g + i]
  /\ \A i \in (g + 1)..Len(queue[d]) : queue[d][i] = Failure
  /\ link[d] # "down" => (g = Len(queue[d]) /\ cursor[d] = shown[d]) \/ cursor[d] < shown[d]

DownloadInv(d) ==
  /\ Len(written[d]) <= Len(opened[d]) /\ taken[d] <= Len(opened[d])
  /\ \A i \in 1..Len(written[d]) : written[d][i] = opened[d][i]
  /\ script[d] \in {"none", "begun"} => output[d] = <<>> /\ taken[d] = 0 /\ written[d] = <<>>
  /\ cursor[d] <= shown[d] /\ shown[d] <= Len(output[d])
  /\ \A i \in 1..Len(stdin[d]) : stdin[d][i] = CountLine
  /\ \E g \in 0..Len(queue[d]) : QueueInv(d, g) /\ TurnInv(d, cursor[d] - g)

FilesInv ==
  /\ FileTypes /\ TargetIsWhole
  /\ \A u \in Uploads : UploadInv(u)
  /\ \A d \in Downloads : DownloadInv(d)

\* The blocks of a source or of the old file.
LEMMA ContentBlocks ==
  ASSUME NEW by, NEW len \in Nat, by \in Uploads \cup {"old"}
  PROVE  /\ Content(by, len) \in Seq(Tokens) /\ Len(Content(by, len)) = len
         /\ \A i \in 1..len : Content(by, len)[i] = Block(by, i)
PROOF
<1>1. \A i \in 1..len : Block(by, i) \in Tokens
  BY DEF Block, Tokens
<1> QED  BY <1>1 DEF Content

LEMMA TokenTypes ==
  /\ \A u \in Uploads, n \in Nat : Block(u, n) \in Tokens
  /\ \A n \in Nat : SizeLine(n) \in Tokens
  /\ CountLine \in Tokens /\ EndOfInput \in Tokens /\ Failure \in Tokens
  /\ NoFile \in Seq(Tokens) /\ <<>> \in Seq(Tokens)
BY SizesAssumption DEF Block, Tokens, SizeLine, CountLine, EndOfInput, Failure, NoFile

-----------------------------------------------------------------------------
(* One transfer takes a step. *)

\* What the call has taken and the script has said is as it was.
LEMMA TurnRests ==
  ASSUME NEW d, NEW c, TurnInv(d, c),
         written'[d] = written[d], need'[d] = need[d], output'[d] = output[d],
         opened'[d] = opened[d], taken'[d] = taken[d],
         at'[d] \in {"idle", "run", "ask"} => at[d] \in {"idle", "run", "ask"},
         at'[d] = "line" => at[d] = "line",
         at'[d] = "data" => at[d] = "data",
         at'[d] \in {"wait", "done"} => at[d] \in {"wait", "done"},
         script[d] \notin {"none", "begun"} => script'[d] \notin {"none", "begun"},
         at'[d] \notin {"line", "abort", "failed"} => at[d] \notin {"line", "abort", "failed"},
         stdin[d] = <<>> => stdin'[d] = <<>>,
         Len(stdin[d]) <= 1 => Len(stdin'[d]) <= 1
  PROVE  TurnInv(d, c)'
PROOF
<1>1. Quiet(d, c) => Quiet(d, c)'
  BY DEF Quiet
<1>2. ASSUME NEW k, NEW n, Said(d, k, n) PROVE Said(d, k, n)'
  BY <1>2 DEF Said
<1>3. Said(d, c + 1, output[d][c + 1].n) => Said(d, c + 1, output[d][c + 1].n)'
  BY <1>2
<1>4. at'[d] \in {"idle", "run", "ask"} => Quiet(d, c)'
  BY <1>1 DEF TurnInv
<1>5. ASSUME at'[d] = "line"
      PROVE  \/ Quiet(d, c)' /\ Len(stdin'[d]) <= 1
             \/ /\ stdin'[d] = <<>> /\ c < Len(output'[d])
                /\ output'[d][c + 1] = SizeLine(output'[d][c + 1].n)
                /\ Said(d, c + 1, output[d][c + 1].n)'
  <2>1. CASE Quiet(d, c) /\ Len(stdin[d]) <= 1
    BY <1>1, <2>1
  <2>2. CASE /\ stdin[d] = <<>> /\ c < Len(output[d])
             /\ output[d][c + 1] = SizeLine(output[d][c + 1].n)
             /\ Said(d, c + 1, output[d][c + 1].n)
    BY <1>3, <2>2
  <2> QED  BY <1>5, <2>1, <2>2 DEF TurnInv
<1>6. at'[d] = "data" => Said(d, c, need[d])'
  BY <1>2 DEF TurnInv
<1>7. /\ at'[d] \in {"data", "wait", "done"} => script'[d] \notin {"none", "begun"}
      /\ at'[d] \in {"wait", "done"} => Len(written'[d]) = Len(opened'[d])
  BY DEF TurnInv
<1>8. at'[d] \notin {"line", "abort", "failed"} => stdin'[d] = <<>>
  BY DEF TurnInv
<1> QED  BY <1>4, <1>5, <1>6, <1>7, <1>8 DEF TurnInv

\* Nothing of the others changes but the file.
Alone(t) ==
  /\ \A r \in Transfers \ {t} :
       /\ at'[r] = at[r] /\ script'[r] = script[r] /\ link'[r] = link[r]
       /\ stdin'[r] = stdin[r] /\ output'[r] = output[r] /\ shown'[r] = shown[r]
  /\ \A u \in Uploads \ {t} : temp'[u] = temp[u] /\ given'[u] = given[u]
  /\ \A d \in Downloads \ {t} :
       /\ opened'[d] = opened[d] /\ taken'[d] = taken[d] /\ cursor'[d] = cursor[d]
       /\ queue'[d] = queue[d] /\ need'[d] = need[d] /\ written'[d] = written[d]

LEMMA AloneFiles ==
  ASSUME FilesInv, NEW t, Alone(t), FileTypes', TargetIsWhole',
         t \in Uploads => UploadInv(t)', t \in Downloads => DownloadInv(t)'
  PROVE  FilesInv'
PROOF
<1>1. ASSUME NEW u \in Uploads, u # t PROVE UploadInv(u)'
  <2>1. /\ at'[u] = at[u] /\ script'[u] = script[u] /\ link'[u] = link[u] /\ stdin'[u] = stdin[u]
        /\ temp'[u] = temp[u] /\ given'[u] = given[u]
    BY <1>1 DEF Alone, Transfers
  <2>2. UploadInv(u)
    BY DEF FilesInv
  <2> QED  BY <2>1, <2>2 DEF UploadInv, StreamInv, Stored
<1>2. ASSUME NEW d \in Downloads, d # t PROVE DownloadInv(d)'
  <2>1. /\ at'[d] = at[d] /\ script'[d] = script[d] /\ link'[d] = link[d] /\ stdin'[d] = stdin[d]
        /\ output'[d] = output[d] /\ shown'[d] = shown[d]
        /\ opened'[d] = opened[d] /\ taken'[d] = taken[d] /\ cursor'[d] = cursor[d]
        /\ queue'[d] = queue[d] /\ need'[d] = need[d] /\ written'[d] = written[d]
    BY <1>2 DEF Alone, Transfers
  <2>2. DownloadInv(d)
    BY DEF FilesInv
  <2>3. PICK g \in 0..Len(queue[d]) : QueueInv(d, g) /\ TurnInv(d, cursor[d] - g)
    BY <2>2 DEF DownloadInv
  <2>4. PICK c : c = cursor[d] - g
    OBVIOUS
  <2>5. TurnInv(d, c)'
    BY <2>1, <2>3, <2>4, TurnRests
  <2>6. TurnInv(d, cursor[d] - g)' /\ QueueInv(d, g)'
    BY <2>1, <2>3, <2>4, <2>5 DEF QueueInv
  <2> QED  BY <2>1, <2>2, <2>6 DEF DownloadInv
<1> QED  BY <1>1, <1>2 DEF FilesInv

\* A step of a call or a connection, or the start or the end of a script, that
\* moves no block: input may be lost and an error queued when the connection
\* ends.
GoesOn(t) ==
  /\ \/ at'[t] = at[t]
     \/ at[t] = "idle" /\ at'[t] = "run"
     \/ at[t] = "run" /\ at'[t] = (IF t \in Uploads THEN "send" ELSE "ask")
     \/ at[t] = "wait" /\ at'[t] = "done"
     \/ at'[t] \in {"abort", "failed"}
  /\ link'[t] \in {link[t], "down"} \/ (at[t] = "run" /\ link[t] = "none" /\ link'[t] = "up")
  /\ script'[t] = script[t] \/ (script[t] = "none" /\ script'[t] = "begun") \/ script'[t] \in {"ok", "bad"}
  /\ stdin'[t] = stdin[t]
     \/ (/\ link'[t] = "down" /\ at[t] \notin {"idle", "run"} /\ Len(stdin'[t]) <= Len(stdin[t])
         /\ \A i \in 1..Len(stdin'[t]) : stdin'[t][i] = stdin[t][i])
  /\ output'[t] = output[t] /\ shown'[t] = shown[t]
  /\ t \in Uploads => (temp'[t] = temp[t] \/ script'[t] = "bad") /\ given'[t] = given[t]
  /\ t \in Downloads =>
       /\ opened'[t] = opened[t] /\ taken'[t] = taken[t] /\ cursor'[t] = cursor[t]
       /\ need'[t] = need[t] /\ written'[t] = written[t]
       /\ queue'[t] = queue[t] \/ (link'[t] = "down" /\ queue'[t] = Append(queue[t], Failure))

LEMMA GoesOnUpload ==
  ASSUME FileTypes, FileTypes', NEW u \in Uploads, UploadInv(u), GoesOn(u)
  PROVE  UploadInv(u)'
PROOF
<1>1. /\ given'[u] = given[u] /\ (temp'[u] = temp[u] \/ script'[u] = "bad")
      /\ u \in Transfers
  BY DEF GoesOn, Transfers
<1>2. given'[u] \in 0..Size[u]
  BY <1>1 DEF UploadInv
<1>3. at'[u] \in {"idle", "run"} => given'[u] = 0
  BY <1>1 DEF UploadInv, GoesOn
<1>4. script'[u] = "move" => temp'[u] = Source(u)'
  BY <1>1 DEF UploadInv, GoesOn, Source
<1>5. ASSUME script'[u] \in {"none", "begun", "cat"} PROVE StreamInv(u)'
  <2>1. /\ script[u] \in {"none", "begun", "cat"} /\ StreamInv(u) /\ temp'[u] = temp[u]
        /\ (script'[u] = "cat" <=> script[u] = "cat")
    BY <1>1, <1>5 DEF UploadInv, GoesOn
  <2>2. Stored(u)' = Stored(u)
    BY <2>1 DEF Stored
  <2>3. stdin[u] \in Seq(Tokens) /\ stdin'[u] \in Seq(Tokens)
    BY <1>1 DEF FileTypes, TypeOK
  <2>4. \A i \in 1..Len(stdin'[u]) : i \in 1..Len(stdin[u]) /\ stdin'[u][i] = stdin[u][i]
    BY <2>3 DEF GoesOn
  <2>5. at'[u] \in {"idle", "run"} \/ (at'[u] = "send" /\ link'[u] = "up") =>
          /\ at[u] \in {"idle", "run"} \/ (at[u] = "send" /\ link[u] = "up")
          /\ stdin'[u] = stdin[u]
    BY DEF GoesOn
  <2> QED  BY <1>1, <2>1, <2>2, <2>4, <2>5 DEF StreamInv
<1> QED  BY <1>2, <1>3, <1>4, <1>5 DEF UploadInv

LEMMA GoesOnDownload ==
  ASSUME FileTypes, FileTypes', NEW d \in Downloads, DownloadInv(d), GoesOn(d)
  PROVE  DownloadInv(d)'
PROOF
<1>1. /\ d \in Transfers /\ d \notin Uploads
      /\ opened'[d] = opened[d] /\ taken'[d] = taken[d] /\ cursor'[d] = cursor[d]
      /\ need'[d] = need[d] /\ written'[d] = written[d] /\ output'[d] = output[d] /\ shown'[d] = shown[d]
  BY TransfersAssumption DEF GoesOn, Transfers
<1>2. /\ stdin[d] \in Seq(Tokens) /\ stdin'[d] \in Seq(Tokens)
      /\ queue[d] \in Seq(Tokens) /\ queue'[d] \in Seq(Tokens)
      /\ cursor[d] \in Nat /\ shown[d] \in Nat
  BY <1>1 DEF FileTypes, TypeOK
<1>3. /\ \A i \in 1..Len(stdin'[d]) : i \in 1..Len(stdin[d]) /\ stdin'[d][i] = stdin[d][i]
      /\ Len(stdin'[d]) <= Len(stdin[d])
  BY <1>2 DEF GoesOn
<1>4. stdin[d] = <<>> => stdin'[d] = <<>>
  BY <1>2, <1>3
<1>5. PICK g \in 0..Len(queue[d]) : QueueInv(d, g) /\ TurnInv(d, cursor[d] - g)
  BY DEF DownloadInv
<1>6. g \in 0..Len(queue'[d]) /\ QueueInv(d, g)'
  <2>1. CASE queue'[d] = queue[d]
    BY <1>1, <1>2, <1>5, <2>1 DEF QueueInv, GoesOn
  <2>2. CASE link'[d] = "down" /\ queue'[d] = Append(queue[d], Failure)
    <3>1. /\ Len(queue'[d]) = Len(queue[d]) + 1 /\ queue'[d][Len(queue[d]) + 1] = Failure
          /\ \A i \in 1..Len(queue[d]) : queue'[d][i] = queue[d][i]
      BY <1>2, <2>2, TokenTypes, Appended
    <3>2. Len(queue[d]) \in Nat
      BY <1>2
    <3>3. \A i \in (g + 1)..Len(queue'[d]) : queue'[d][i] = Failure
      <4> SUFFICES ASSUME NEW i \in (g + 1)..Len(queue'[d]) PROVE queue'[d][i] = Failure
        OBVIOUS
      <4>1. (i = Len(queue[d]) + 1) \/ (i \in (g + 1)..Len(queue[d]) /\ i \in 1..Len(queue[d]))
        BY <3>1, <3>2
      <4> QED  BY <1>5, <3>1, <4>1 DEF QueueInv
    <3>4. \A i \in 1..g : queue'[d][i] = output'[d][cursor'[d] - g + i]
      BY <1>1, <1>5, <3>1, <3>2 DEF QueueInv
    <3> QED  BY <1>1, <1>5, <2>2, <3>1, <3>2, <3>3, <3>4 DEF QueueInv
  <2> QED  BY <2>1, <2>2 DEF GoesOn
<1>7. TurnInv(d, cursor[d] - g)'
  <2>1. PICK c : c = cursor[d] - g
    OBVIOUS
  <2>2. Len(stdin[d]) <= 1 => Len(stdin'[d]) <= 1
    BY <1>2, <1>3
  <2>3. TurnInv(d, c)'
    BY <1>1, <1>4, <1>5, <2>1, <2>2, TurnRests DEF GoesOn
  <2> QED  BY <1>1, <2>1, <2>3
<1>8. script'[d] \in {"none", "begun"} => script[d] \in {"none", "begun"}
  BY DEF GoesOn
<1>9. \A i \in 1..Len(stdin'[d]) : stdin'[d][i] = CountLine
  BY <1>3 DEF DownloadInv
<1> QED  BY <1>1, <1>6, <1>7, <1>8, <1>9 DEF DownloadInv

LEMMA GoesOnFiles ==
  ASSUME FilesInv, NEW t \in Transfers, Alone(t), GoesOn(t), FileTypes', target' = target
  PROVE  FilesInv'
PROOF
<1>1. TargetIsWhole'
  BY DEF FilesInv, TargetIsWhole, Source, Old
<1> QED  BY <1>1, AloneFiles, GoesOnUpload, GoesOnDownload DEF FilesInv

-----------------------------------------------------------------------------
(* The steps of a call and its connection that move no block. *)

\* A call that goes to another await.
LEMMA GotoFiles ==
  ASSUME Inv, FilesInv, NEW t \in Transfers,
         \/ Begin(t) \/ RunRejects(t) \/ RunResolves(t) \/ SendThrows(t) \/ WaitReturns(t) \/ Abort(t)
         \/ (t \in Downloads /\ ReadThrows(t))
  PROVE  FilesInv'
PROOF
<1>1. PICK to \in CallStates : at' = [at EXCEPT ![t] = to]
                              /\ \/ at[t] = "idle" /\ to = "run"
                                 \/ at[t] = "run" /\ to = (IF t \in Uploads THEN "send" ELSE "ask")
                                 \/ at[t] = "wait" /\ to = "done"
                                 \/ to \in {"abort", "failed"}
  BY DEF Begin, RunRejects, RunResolves, SendThrows, WaitReturns, Abort, ReadThrows, Goto, CallStates, Settled
<1>2. UNCHANGED <<target, temp, opened, taken, stdin, output, moved, shown, exit, cursor, queue, need, written, given>>
  BY DEF Begin, RunRejects, RunResolves, SendThrows, WaitReturns, Abort, ReadThrows,
         sandboxVars, connVars, readerVars, callVars
<1>3. PICK l \in {"up", "down"} :
        link' = link \/ (link' = [link EXCEPT ![t] = l] /\ (l = "up" => at[t] = "run" /\ link[t] = "none"))
  <2>1. at[t] = "run" => link[t] = "none"
    BY DEF Inv, LinkInv
  <2> QED  BY <2>1 DEF Begin, RunRejects, RunResolves, SendThrows, WaitReturns, Abort, ReadThrows, connVars, Goto
<1>4. script' = script \/ script' = [script EXCEPT ![t] = "bad"]
  BY DEF Begin, RunRejects, RunResolves, SendThrows, WaitReturns, Abort, ReadThrows, sandboxVars
<1>5. orphaned' \subseteq orphaned \cup {t}
  BY DEF Begin, RunRejects, RunResolves, SendThrows, WaitReturns, Abort, ReadThrows, callVars
<1>6. /\ FileTypes /\ at \in [Transfers -> CallStates]
      /\ script \in [Transfers -> Running \cup {"none", "ok", "bad"}]
      /\ link \in [Transfers -> {"none", "up", "down"}] /\ orphaned \subseteq Transfers
  BY DEF FilesInv, FileTypes, TypeOK
<1>7. FileTypes'
  <2>1. at' \in [Transfers -> CallStates]
    BY <1>1, <1>6
  <2>2. /\ script' \in [Transfers -> Running \cup {"none", "ok", "bad"}]
        /\ link' \in [Transfers -> {"none", "up", "down"}] /\ orphaned' \subseteq Transfers
    BY <1>3, <1>4, <1>5, <1>6
  <2>3. at' \in [Transfers -> {"idle", "run", "send", "ask", "line", "data", "wait", "abort"} \cup Settled]
    BY <2>1 DEF CallStates
  <2> QED  BY <1>2, <1>6, <2>1, <2>2, <2>3 DEF FileTypes, TypeOK
<1>8. /\ at'[t] = to
      /\ \A r \in Transfers \ {t} : at'[r] = at[r] /\ script'[r] = script[r] /\ link'[r] = link[r]
      /\ script'[t] \in {script[t], "bad"}
      /\ link'[t] = link[t] \/ (link'[t] = l /\ (l = "up" => at[t] = "run" /\ link[t] = "none"))
  BY <1>1, <1>3, <1>4, <1>6
<1>9. Alone(t)
  BY <1>2, <1>8 DEF Alone
<1>10. GoesOn(t)
  BY <1>1, <1>2, <1>8 DEF GoesOn
<1> QED  BY <1>2, <1>7, <1>9, <1>10, GoesOnFiles

\* The start of a script, or a command of it that fails.
LEMMA ScriptFiles ==
  ASSUME Inv, FilesInv, NEW t \in Transfers, Accept(t) \/ ScriptFails(t)
  PROVE  FilesInv'
PROOF
<1>1. PICK s \in {"begun", "bad"} :
        script' = [script EXCEPT ![t] = s] /\ (s = "begun" => script[t] = "none" /\ temp' = temp)
  BY DEF Accept, ScriptFails, Step
<1>2. temp' = temp \/ (t \in Uploads /\ temp' = [temp EXCEPT ![t] = NoFile])
  BY DEF Accept, ScriptFails, TempName
<1>3. UNCHANGED <<target, opened, taken, stdin, output, moved, shown, link, exit, cursor, queue, need, written, at, given, orphaned>>
  BY DEF Accept, ScriptFails, connVars, readerVars, callVars
<1>4. /\ FileTypes /\ script \in [Transfers -> Running \cup {"none", "ok", "bad"}]
      /\ temp \in [Uploads -> Seq(Tokens)]
  BY DEF FilesInv, FileTypes, TypeOK
<1>5. FileTypes'
  <2>1. script' \in [Transfers -> Running \cup {"none", "ok", "bad"}]
    BY <1>1, <1>4 DEF Running
  <2>2. temp' \in [Uploads -> Seq(Tokens)]
    BY <1>2, <1>4, TokenTypes
  <2> QED  BY <1>3, <1>4, <2>1, <2>2 DEF FileTypes, TypeOK
<1>6. /\ script'[t] = s /\ \A r \in Transfers \ {t} : script'[r] = script[r]
      /\ \A u \in Uploads \ {t} : temp'[u] = temp[u]
  BY <1>1, <1>2, <1>4
<1>7. Alone(t)
  BY <1>3, <1>6 DEF Alone
<1>8. GoesOn(t)
  BY <1>1, <1>3, <1>6 DEF GoesOn
<1> QED  BY <1>3, <1>5, <1>7, <1>8, GoesOnFiles

\* The connection ends.
LEMMA ExitFiles ==
  ASSUME Inv, FilesInv, NEW t \in Transfers, OnExit(t) \/ \E kept \in 0..Len(stdin[t]) : Drop(t, kept)
  PROVE  FilesInv'
PROOF
<1>1. PICK how \in {"ok", "bad", "lost"} :
        /\ link[t] = "up" /\ link' = [link EXCEPT ![t] = "down"] /\ exit' = [exit EXCEPT ![t] = how]
        /\ queue' = IF t \in Downloads THEN [queue EXCEPT ![t] = Append(@, Failure)] ELSE queue
  BY DEF OnExit, Drop, Exits
<1>2. PICK kept \in 0..Len(stdin[t]) : stdin' = stdin \/ stdin' = [stdin EXCEPT ![t] = SubSeq(@, 1, kept)]
  <2>1. CASE OnExit(t)
    <3>1. stdin' = stdin /\ Len(stdin[t]) \in Nat
      BY <2>1 DEF OnExit, sandboxVars, FilesInv, FileTypes, TypeOK
    <3> QED  BY <3>1
  <2>2. CASE \E kept \in 0..Len(stdin[t]) : Drop(t, kept)
    BY <2>2 DEF Drop
  <2> QED  BY <2>1, <2>2
<1>3. UNCHANGED <<target, temp, script, opened, taken, output, moved, shown, cursor, need, written, at, given, orphaned>>
  BY DEF OnExit, Drop, Exits, sandboxVars, callVars
<1>4. /\ FileTypes /\ stdin \in [Transfers -> Seq(Tokens)] /\ queue \in [Downloads -> Seq(Tokens)]
      /\ link \in [Transfers -> {"none", "up", "down"}] /\ exit \in [Transfers -> {"none", "ok", "bad", "lost"}]
  BY DEF FilesInv, FileTypes, TypeOK
<1>5. PICK in \in Seq(Tokens) :
        in = SubSeq(stdin[t], 1, kept) /\ Len(in) = kept /\ \A i \in 1..kept : in[i] = stdin[t][i]
  <2>1. stdin[t] \in Seq(Tokens) /\ Len(stdin[t]) \in Nat
    BY <1>4
  <2>2. 1 \in 1..(Len(stdin[t]) + 1) /\ kept \in (1 - 1)..Len(stdin[t]) /\ kept - 1 + 1 = kept
    BY <2>1
  <2>3. /\ SubSeq(stdin[t], 1, kept) \in Seq(Tokens) /\ Len(SubSeq(stdin[t], 1, kept)) = kept - 1 + 1
        /\ \A i \in 1..(kept - 1 + 1) : SubSeq(stdin[t], 1, kept)[i] = stdin[t][1 + i - 1]
    BY <2>1, <2>2, Cut
  <2>4. \A i \in 1..kept : SubSeq(stdin[t], 1, kept)[i] = stdin[t][i]
    BY <2>2, <2>3
  <2> QED  BY <2>2, <2>3, <2>4
<1>6. Len(in) = kept /\ \A i \in 1..kept : in[i] = stdin[t][i]
  BY <1>5
<1>7. stdin' = stdin \/ stdin' = [stdin EXCEPT ![t] = in]
  BY <1>2, <1>5
<1>8. FileTypes'
  <2>1. /\ stdin' \in [Transfers -> Seq(Tokens)]
        /\ link' \in [Transfers -> {"none", "up", "down"}] /\ exit' \in [Transfers -> {"none", "ok", "bad", "lost"}]
    BY <1>1, <1>4, <1>7
  <2>2. queue' \in [Downloads -> Seq(Tokens)]
    <3>1. t \in Downloads => Append(queue[t], Failure) \in Seq(Tokens)
      BY <1>4, TokenTypes, Appended
    <3> QED  BY <1>1, <1>4, <3>1
  <2> QED  BY <1>3, <1>4, <2>1, <2>2 DEF FileTypes, TypeOK
<1>9. /\ link'[t] = "down" /\ \A r \in Transfers \ {t} : link'[r] = link[r] /\ stdin'[r] = stdin[r]
      /\ stdin'[t] \in {stdin[t], in}
      /\ \A d \in Downloads : queue'[d] = IF d = t THEN Append(queue[d], Failure) ELSE queue[d]
  BY <1>1, <1>4, <1>7
<1>10. Alone(t)
  BY <1>3, <1>9 DEF Alone
<1>11. at[t] \notin {"idle", "run"}
  BY <1>1 DEF Inv, LinkInv
<1>12. stdin'[t] = stdin[t] \/ (Len(stdin'[t]) <= Len(stdin[t]) /\ \A i \in 1..Len(stdin'[t]) : stdin'[t][i] = stdin[t][i])
  BY <1>2, <1>6, <1>9
<1>13. GoesOn(t)
  BY <1>3, <1>9, <1>11, <1>12 DEF GoesOn
<1> QED  BY <1>3, <1>8, <1>10, <1>13, GoesOnFiles

-----------------------------------------------------------------------------
(* The steps of an upload. *)

LEMMA TruncateFiles ==
  ASSUME FilesInv, NEW u \in Uploads, Truncate(u)
  PROVE  FilesInv'
PROOF
<1>1. /\ script[u] = "begun" /\ script' = [script EXCEPT ![u] = "cat"] /\ temp' = [temp EXCEPT ![u] = <<>>]
      /\ UNCHANGED <<target, opened, taken, stdin, output, moved, shown, link, exit>>
      /\ UNCHANGED <<cursor, queue, need, written, at, given, orphaned>>
  BY DEF Truncate, Step, TempName, connVars, readerVars, callVars
<1>2. /\ FileTypes /\ u \in Transfers /\ script \in [Transfers -> Running \cup {"none", "ok", "bad"}]
      /\ temp \in [Uploads -> Seq(Tokens)] /\ TargetIsWhole /\ UploadInv(u) /\ u \notin Downloads
  BY TransfersAssumption DEF FilesInv, FileTypes, TypeOK, Transfers
<1>3. /\ script'[u] = "cat" /\ temp'[u] = <<>>
      /\ \A r \in Transfers \ {u} : script'[r] = script[r]
      /\ \A v \in Uploads \ {u} : temp'[v] = temp[v]
  BY <1>1, <1>2
<1>4. FileTypes'
  <2>1. script' \in [Transfers -> Running \cup {"none", "ok", "bad"}] /\ temp' \in [Uploads -> Seq(Tokens)]
    BY <1>1, <1>2, TokenTypes DEF Running
  <2> QED  BY <1>1, <1>2, <2>1 DEF FileTypes, TypeOK
<1>5. Stored(u) = 0 /\ Stored(u)' = 0
  BY <1>1, <1>3 DEF Stored
<1>6. StreamInv(u)'
  BY <1>1, <1>2, <1>3, <1>5 DEF UploadInv, StreamInv
<1>7. UploadInv(u)'
  BY <1>1, <1>2, <1>3, <1>6 DEF UploadInv
<1>8. TargetIsWhole'
  BY <1>1, <1>2 DEF TargetIsWhole, Source, Old
<1>9. Alone(u)
  BY <1>1, <1>3 DEF Alone
<1> QED  BY <1>2, <1>4, <1>7, <1>8, <1>9, AloneFiles

LEMMA CatFiles ==
  ASSUME FilesInv, NEW u \in Uploads, Cat(u)
  PROVE  FilesInv'
PROOF
<1>1. /\ script[u] = "cat" /\ stdin[u] # <<>> /\ stdin' = [stdin EXCEPT ![u] = Tail(@)]
      /\ UNCHANGED <<target, opened, taken, output, moved, shown, link, exit>>
      /\ UNCHANGED <<cursor, queue, need, written, at, given, orphaned>>
  BY DEF Cat, connVars, readerVars, callVars
<1>2. /\ FileTypes /\ u \in Transfers /\ script \in [Transfers -> Running \cup {"none", "ok", "bad"}]
      /\ temp \in [Uploads -> Seq(Tokens)] /\ stdin \in [Transfers -> Seq(Tokens)]
      /\ given[u] \in Nat /\ Size[u] \in Nat
      /\ TargetIsWhole /\ UploadInv(u) /\ StreamInv(u) /\ u \notin Downloads
  BY <1>1, TransfersAssumption, SizesAssumption DEF FilesInv, FileTypes, TypeOK, Transfers, UploadInv
<1>3. PICK k \in Nat : k = Len(temp[u])
  BY <1>2
<1>4. PICK s \in Seq(Tokens) : s = stdin[u] /\ s # <<>>
  BY <1>1, <1>2
<1>5. /\ Tail(s) \in Seq(Tokens) /\ Len(s) \in Nat \ {0} /\ Len(Tail(s)) = Len(s) - 1
      /\ Head(s) \in Tokens /\ Head(s) = s[1]
      /\ \A i \in 1..(Len(s) - 1) : Tail(s)[i] = s[i + 1]
  BY <1>4, TailOf
<1>6. PICK n \in Nat : n + 1 = Len(s)
  <2>1. Len(s) - 1 \in Nat /\ (Len(s) - 1) + 1 = Len(s)
    BY <1>5
  <2> QED  BY <2>1
<1>7. PICK e \in Tokens : e = Head(stdin[u]) /\ e = stdin[u][1]
  BY <1>4, <1>5
<1>8. PICK in \in Seq(Tokens) : in = Tail(stdin[u]) /\ Len(in) = n /\ \A i \in 1..n : in[i] = stdin[u][i + 1]
  <2>1. Len(s) - 1 = n
    BY <1>6
  <2> QED  BY <1>4, <1>5, <2>1
<1>9. /\ stdin' = [stdin EXCEPT ![u] = in] /\ stdin'[u] = in
      /\ \A r \in Transfers \ {u} : stdin'[r] = stdin[r]
      /\ stdin' \in [Transfers -> Seq(Tokens)]
  BY <1>1, <1>2, <1>8
<1>10. Stored(u) = k /\ 1 \in 1..Len(stdin[u])
  BY <1>1, <1>3, <1>6, <1>4 DEF Stored
<1>11. \/ e = Block(u, k + 1) /\ k + 1 <= given[u]
       \/ e = EndOfInput /\ k + 1 = Size[u] + 1 /\ given[u] = Size[u]
  <2>1. \A j \in 1..Len(stdin[u]) :
          \/ stdin[u][j] = Block(u, k + j) /\ k + j <= given[u]
          \/ stdin[u][j] = EndOfInput /\ k + j = Size[u] + 1 /\ given[u] = Size[u]
    BY <1>2, <1>10 DEF StreamInv
  <2> QED  BY <1>7, <1>10, <2>1
<1>12. TargetIsWhole'
  BY <1>1, <1>2 DEF TargetIsWhole, Source, Old
<1>13. CASE e = EndOfInput
  <2>1. script' = [script EXCEPT ![u] = "move"] /\ temp' = temp
    BY <1>7, <1>13 DEF Cat
  <2>2. script'[u] = "move" /\ \A r \in Transfers \ {u} : script'[r] = script[r]
    BY <1>2, <2>1
  <2>3. k = Size[u]
    BY <1>2, <1>11, <1>13 DEF Block, EndOfInput
  <2>4. temp[u] = Source(u)
    <3>1. \A i \in 1..k : temp[u][i] = Block(u, i)
      BY <1>1, <1>2, <1>3 DEF StreamInv
    <3>2. Source(u) \in Seq(Tokens) /\ Len(Source(u)) = k /\ \A i \in 1..k : Source(u)[i] = Block(u, i)
      BY <1>2, <2>3, ContentBlocks DEF Source
    <3>3. temp[u] \in Seq(Tokens)
      BY <1>2
    <3> QED  BY <1>3, <3>1, <3>2, <3>3, SameSequence
  <2>5. FileTypes'
    <3>1. script' \in [Transfers -> Running \cup {"none", "ok", "bad"}]
      BY <1>2, <2>1 DEF Running
    <3> QED  BY <1>1, <1>2, <1>9, <2>1, <3>1 DEF FileTypes, TypeOK
  <2>6. UploadInv(u)'
    BY <1>1, <1>2, <2>1, <2>2, <2>4 DEF UploadInv, Source
  <2>7. Alone(u)
    BY <1>1, <1>9, <2>1, <2>2 DEF Alone
  <2> QED  BY <1>2, <1>12, <2>5, <2>6, <2>7, AloneFiles
<1>14. CASE e # EndOfInput
  <2>1. script' = script /\ temp' = [temp EXCEPT ![u] = Append(@, e)]
    BY <1>7, <1>14 DEF Cat, TempName
  <2>2. PICK held \in Seq(Tokens) : /\ held = Append(temp[u], e) /\ Len(held) = k + 1 /\ held[k + 1] = e
                                    /\ \A i \in 1..k : held[i] = temp[u][i]
    <3>1. temp[u] \in Seq(Tokens)
      BY <1>2
    <3>2. /\ Append(temp[u], e) \in Seq(Tokens) /\ Len(Append(temp[u], e)) = Len(temp[u]) + 1
          /\ Append(temp[u], e)[Len(temp[u]) + 1] = e
          /\ \A i \in 1..Len(temp[u]) : Append(temp[u], e)[i] = temp[u][i]
      BY <3>1, Appended
    <3> QED  BY <1>3, <3>2
  <2>3. /\ temp'[u] = held /\ (\A v \in Uploads \ {u} : temp'[v] = temp[v])
        /\ temp' \in [Uploads -> Seq(Tokens)]
    BY <1>2, <2>1, <2>2
  <2>4. e = Block(u, k + 1) /\ k + 1 <= given[u]
    BY <1>11, <1>14
  <2>5. Stored(u)' = k + 1
    BY <1>1, <2>1, <2>2, <2>3 DEF Stored
  <2>6. \A i \in 1..Len(held) : held[i] = Block(u, i)
    <3> SUFFICES ASSUME NEW i \in 1..(k + 1) PROVE held[i] = Block(u, i)
      BY <2>2
    <3>1. CASE i = k + 1
      BY <2>2, <2>4, <3>1
    <3>2. CASE i \in 1..k
      BY <1>1, <1>2, <1>3, <2>2, <3>2 DEF StreamInv
    <3> QED  BY <3>1, <3>2
  <2>7. ASSUME NEW i \in 1..n
        PROVE  \/ in[i] = Block(u, (k + 1) + i) /\ (k + 1) + i <= given[u]
               \/ in[i] = EndOfInput /\ (k + 1) + i = Size[u] + 1 /\ given[u] = Size[u]
    <3>1. i + 1 \in 1..Len(stdin[u]) /\ k + (i + 1) = (k + 1) + i
      BY <1>6, <1>4
    <3>2. \A j \in 1..Len(stdin[u]) :
            \/ stdin[u][j] = Block(u, k + j) /\ k + j <= given[u]
            \/ stdin[u][j] = EndOfInput /\ k + j = Size[u] + 1 /\ given[u] = Size[u]
      BY <1>2, <1>10 DEF StreamInv
    <3>3. in[i] = stdin[u][i + 1]
      BY <1>8
    <3> QED  BY <3>1, <3>2, <3>3
  <2>8. at[u] \in {"idle", "run"} \/ (at[u] = "send" /\ link[u] = "up") => (k + 1) + n = given[u]
    <3>1. at[u] \in {"idle", "run"} \/ (at[u] = "send" /\ link[u] = "up") => k + Len(stdin[u]) = given[u]
      BY <1>2, <1>10 DEF StreamInv
    <3>2. Len(stdin[u]) = n + 1
      BY <1>4, <1>6
    <3> QED  BY <3>1, <3>2
  <2>9. StreamInv(u)'
    BY <1>1, <1>8, <1>9, <2>1, <2>3, <2>4, <2>5, <2>6, <2>7, <2>8 DEF StreamInv
  <2>10. UploadInv(u)'
    BY <1>1, <1>2, <2>1, <2>9 DEF UploadInv
  <2>11. FileTypes'
    BY <1>1, <1>2, <1>9, <2>1, <2>3 DEF FileTypes, TypeOK
  <2>12. Alone(u)
    BY <1>1, <1>9, <2>1, <2>3 DEF Alone
  <2> QED  BY <1>2, <1>12, <2>10, <2>11, <2>12, AloneFiles
<1> QED  BY <1>13, <1>14

LEMMA MoveFiles ==
  ASSUME FilesInv, NEW u \in Uploads, Move(u)
  PROVE  FilesInv'
PROOF
<1>1. /\ script[u] = "move" /\ script' = [script EXCEPT ![u] = "ok"] /\ temp' = [temp EXCEPT ![u] = NoFile]
      /\ target' = temp[u] /\ moved' = moved \cup {u}
      /\ UNCHANGED <<opened, taken, stdin, output, shown, link, exit>>
      /\ UNCHANGED <<cursor, queue, need, written, at, given, orphaned>>
  BY DEF Move, Step, TempName, connVars, readerVars, callVars
<1>2. /\ FileTypes /\ u \in Transfers /\ script \in [Transfers -> Running \cup {"none", "ok", "bad"}]
      /\ temp \in [Uploads -> Seq(Tokens)] /\ moved \subseteq Uploads /\ UploadInv(u) /\ u \notin Downloads
  BY TransfersAssumption DEF FilesInv, FileTypes, TypeOK, Transfers
<1>3. target' = Source(u)
  BY <1>1, <1>2 DEF UploadInv
<1>4. /\ script'[u] = "ok" /\ \A r \in Transfers \ {u} : script'[r] = script[r]
      /\ \A v \in Uploads \ {u} : temp'[v] = temp[v]
  BY <1>1, <1>2
<1>5. FileTypes'
  <2>1. /\ script' \in [Transfers -> Running \cup {"none", "ok", "bad"}] /\ temp' \in [Uploads -> Seq(Tokens)]
        /\ target' \in Seq(Tokens) /\ moved' \subseteq Uploads
    BY <1>1, <1>2, TokenTypes DEF Running
  <2> QED  BY <1>1, <1>2, <2>1 DEF FileTypes, TypeOK
<1>6. UploadInv(u)'
  BY <1>1, <1>2, <1>4 DEF UploadInv
<1>7. TargetIsWhole'
  BY <1>3 DEF TargetIsWhole, Source
<1>8. Alone(u)
  BY <1>1, <1>4 DEF Alone
<1> QED  BY <1>2, <1>5, <1>6, <1>7, <1>8, AloneFiles

\* The call sends a block, or the end of the input when it has sent them all.
LEMMA SendFiles ==
  ASSUME FilesInv, NEW u \in Uploads, SendChunk(u) \/ CloseStdin(u)
  PROVE  FilesInv'
PROOF
<1>1. /\ FileTypes /\ u \in Transfers /\ u \notin Downloads /\ TargetIsWhole /\ UploadInv(u)
      /\ stdin \in [Transfers -> Seq(Tokens)] /\ given \in [Uploads -> Nat] /\ at \in [Transfers -> CallStates]
      /\ Size[u] \in Nat /\ given[u] \in 0..Size[u]
  BY TransfersAssumption, SizesAssumption DEF FilesInv, FileTypes, TypeOK, Transfers, UploadInv
<1>2. PICK e \in Tokens :
        /\ stdin' = [stdin EXCEPT ![u] = Append(@, e)]
        /\ \/ SendChunk(u) /\ given[u] < Size[u] /\ e = Block(u, given[u] + 1)
           \/ CloseStdin(u) /\ given[u] = Size[u] /\ e = EndOfInput
  <2>1. given[u] + 1 \in Nat /\ (~HasMore(u) => given[u] = Size[u])
    BY <1>1 DEF HasMore
  <2> QED  BY <2>1, TokenTypes DEF SendChunk, CloseStdin, Sends, HasMore
<1>3. PICK g \in 0..Size[u] : /\ given' = [given EXCEPT ![u] = g]
                              /\ \/ SendChunk(u) /\ at' = at /\ g = given[u] + 1
                                 \/ CloseStdin(u) /\ at' = [at EXCEPT ![u] = "wait"] /\ g = given[u]
  <2>1. CASE SendChunk(u)
    <3>1. given' = [given EXCEPT ![u] = given[u] + 1] /\ at' = at /\ given[u] < Size[u]
      BY <2>1 DEF SendChunk, HasMore
    <3>2. given[u] + 1 \in 0..Size[u]
      BY <1>1, <3>1
    <3> QED  BY <2>1, <3>1, <3>2
  <2>2. CASE CloseStdin(u)
    <3>1. given' = [given EXCEPT ![u] = given[u]] /\ at' = [at EXCEPT ![u] = "wait"]
      BY <1>1, <2>2 DEF CloseStdin, Goto
    <3> QED  BY <1>1, <2>2, <3>1
  <2> QED  BY <2>1, <2>2
<1>4. /\ UNCHANGED <<target, temp, script, opened, taken, output, moved, shown, link, exit>>
      /\ UNCHANGED <<cursor, queue, need, written, orphaned>>
      /\ at[u] = "send" /\ link[u] = "up"
  BY DEF SendChunk, CloseStdin, Sends, Goto, connVars, readerVars
<1>5. PICK n \in Nat : n = Len(stdin[u])
  BY <1>1
<1>6. PICK in \in Seq(Tokens) : /\ in = Append(stdin[u], e) /\ Len(in) = n + 1 /\ in[n + 1] = e
                                /\ \A i \in 1..n : in[i] = stdin[u][i]
  <2>1. stdin[u] \in Seq(Tokens)
    BY <1>1
  <2>2. /\ Append(stdin[u], e) \in Seq(Tokens) /\ Len(Append(stdin[u], e)) = Len(stdin[u]) + 1
        /\ Append(stdin[u], e)[Len(stdin[u]) + 1] = e
        /\ \A i \in 1..Len(stdin[u]) : Append(stdin[u], e)[i] = stdin[u][i]
    BY <2>1, Appended
  <2> QED  BY <1>5, <2>2
<1>7. /\ stdin'[u] = in /\ given'[u] = g /\ at'[u] \in {"send", "wait"}
      /\ \A r \in Transfers \ {u} : stdin'[r] = stdin[r] /\ at'[r] = at[r]
      /\ \A v \in Uploads \ {u} : given'[v] = given[v]
      /\ stdin' \in [Transfers -> Seq(Tokens)] /\ given' \in [Uploads -> Nat] /\ at' \in [Transfers -> CallStates]
  <2>1. stdin' = [stdin EXCEPT ![u] = in]
    BY <1>2, <1>6
  <2>2. /\ stdin'[u] = in /\ stdin' \in [Transfers -> Seq(Tokens)]
        /\ \A r \in Transfers \ {u} : stdin'[r] = stdin[r]
    BY <1>1, <2>1
  <2>3. /\ given'[u] = g /\ given' \in [Uploads -> Nat] /\ \A v \in Uploads \ {u} : given'[v] = given[v]
    BY <1>1, <1>3
  <2>4. /\ at'[u] \in {"send", "wait"} /\ at' \in [Transfers -> CallStates]
        /\ \A r \in Transfers \ {u} : at'[r] = at[r]
    BY <1>1, <1>3, <1>4 DEF CallStates
  <2> QED  BY <2>2, <2>3, <2>4
<1>8. FileTypes'
  <2>1. at' \in [Transfers -> {"idle", "run", "send", "ask", "line", "data", "wait", "abort"} \cup Settled]
    BY <1>7 DEF CallStates
  <2>2. \A v \in Uploads : given'[v] \in 0..Size[v]
    BY <1>1, <1>7 DEF FileTypes, TypeOK
  <2> QED  BY <1>1, <1>4, <1>7, <2>1, <2>2 DEF FileTypes, TypeOK
<1>9. Alone(u)
  BY <1>1, <1>4, <1>7 DEF Alone
<1>10. ASSUME script[u] \in {"none", "begun", "cat"} PROVE StreamInv(u)'
  <2>1. StreamInv(u)
    BY <1>1, <1>10 DEF UploadInv
  <2>2. PICK k \in Nat : k = Stored(u)
    BY <1>1 DEF Stored, FileTypes, TypeOK
  <2>3. Stored(u)' = k
    BY <1>4, <2>2 DEF Stored
  <2>4. k + n = given[u] /\ k <= g
    BY <1>1, <1>3, <1>4, <1>5, <2>1, <2>2 DEF StreamInv
  <2>5. ASSUME NEW i \in 1..(n + 1)
        PROVE  \/ in[i] = Block(u, k + i) /\ k + i <= g
               \/ in[i] = EndOfInput /\ k + i = Size[u] + 1 /\ g = Size[u]
    <3>1. CASE i \in 1..n
      BY <1>1, <1>3, <1>5, <1>6, <2>1, <2>2, <3>1 DEF StreamInv
    <3>2. CASE i = n + 1 /\ SendChunk(u) /\ e = Block(u, given[u] + 1) /\ g = given[u] + 1
      BY <1>6, <2>4, <3>2
    <3>3. CASE i = n + 1 /\ given[u] = Size[u] /\ e = EndOfInput /\ g = given[u]
      BY <1>6, <2>4, <3>3
    <3>4. i \in 1..n \/ i = n + 1
      OBVIOUS
    <3>5. CASE SendChunk(u) /\ e = Block(u, given[u] + 1)
      <4>1. g = given[u] + 1
        BY <1>1, <1>3, <3>5, <1>4 DEF CloseStdin, SendChunk, Goto
      <4> QED  BY <3>1, <3>2, <3>4, <3>5, <4>1
    <3>6. CASE CloseStdin(u) /\ given[u] = Size[u] /\ e = EndOfInput
      <4>1. g = given[u]
        BY <1>1, <1>3, <3>6
      <4> QED  BY <3>1, <3>3, <3>4, <3>6, <4>1
    <3> QED  BY <1>2, <3>5, <3>6
  <2>6. at'[u] \in {"idle", "run"} \/ (at'[u] = "send" /\ link'[u] = "up") => k + (n + 1) = g
    BY <1>1, <1>3, <1>4, <2>4
  <2> QED  BY <1>4, <1>6, <1>7, <2>1, <2>3, <2>4, <2>5, <2>6 DEF StreamInv
<1>11. UploadInv(u)'
  BY <1>1, <1>4, <1>7, <1>10 DEF UploadInv, Source
<1>12. TargetIsWhole'
  BY <1>1, <1>4 DEF TargetIsWhole, Source, Old
<1> QED  BY <1>1, <1>8, <1>9, <1>11, <1>12, AloneFiles

-----------------------------------------------------------------------------
(* The steps of a download. *)

\* What is known of a download.
LEMMA DownloadTypes ==
  ASSUME FilesInv, NEW d \in Downloads
  PROVE  /\ FileTypes /\ TargetIsWhole /\ DownloadInv(d) /\ d \in Transfers /\ d \notin Uploads
         /\ at \in [Transfers -> CallStates]
         /\ script \in [Transfers -> Running \cup {"none", "ok", "bad"}]
         /\ stdin \in [Transfers -> Seq(Tokens)] /\ output \in [Transfers -> Seq(Tokens)]
         /\ opened \in [Downloads -> Seq(Tokens)] /\ taken \in [Downloads -> Nat]
         /\ shown \in [Transfers -> Nat] /\ cursor \in [Downloads -> Nat]
         /\ queue \in [Downloads -> Seq(Tokens)] /\ written \in [Downloads -> Seq(Tokens)]
         /\ need \in [Downloads -> 0..ChunkSize]
         /\ ChunkSize \in Nat \ {0}
BY TransfersAssumption, SizesAssumption DEF FilesInv, FileTypes, TypeOK, Transfers

\* The script of a download opens the file.
LEMMA OpenFiles ==
  ASSUME FilesInv, NEW d \in Downloads, Open(d)
  PROVE  FilesInv'
PROOF
<1>1. PICK file \in Seq(Tokens) : opened' = [opened EXCEPT ![d] = file]
  <2>1. opened[d] \in Seq(Tokens) /\ target \in Seq(Tokens)
    BY DEF FilesInv, FileTypes, TypeOK
  <2>2. CASE target = NoFile
    <3>1. opened' = [opened EXCEPT ![d] = opened[d]]
      BY <2>2 DEF Open
    <3> QED  BY <2>1, <3>1
  <2>3. CASE target # NoFile
    BY <2>1, <2>3 DEF Open
  <2> QED  BY <2>2, <2>3
<1>2. PICK s \in {"bad", "serve"} : script[d] = "begun" /\ script' = [script EXCEPT ![d] = s]
  BY DEF Open, Step
<1>3. /\ UNCHANGED <<target, temp, taken, stdin, output, moved, shown, link, exit>>
      /\ UNCHANGED <<cursor, queue, need, written, at, given, orphaned>>
  BY DEF Open, connVars, readerVars, callVars
<1>4. /\ FileTypes /\ TargetIsWhole /\ DownloadInv(d) /\ d \in Transfers /\ d \notin Uploads
      /\ script \in [Transfers -> Running \cup {"none", "ok", "bad"}]
      /\ opened \in [Downloads -> Seq(Tokens)]
      /\ cursor[d] \in Nat
  BY DownloadTypes
<1>5. FileTypes'
  <2>1. script' \in [Transfers -> Running \cup {"none", "ok", "bad"}]
    BY <1>2, <1>4 DEF Running
  <2>2. opened' \in [Downloads -> Seq(Tokens)]
    BY <1>1, <1>4
  <2> QED  BY <1>3, <1>4, <2>1, <2>2 DEF FileTypes, TypeOK
<1>6. /\ opened'[d] = file /\ \A r \in Downloads \ {d} : opened'[r] = opened[r]
      /\ script'[d] = s /\ \A r \in Transfers \ {d} : script'[r] = script[r]
  BY <1>1, <1>2, <1>4
<1>7. Alone(d) /\ TargetIsWhole'
  BY <1>3, <1>4, <1>6 DEF Alone, TargetIsWhole, Source, Old
<1>8. /\ output[d] = <<>> /\ taken[d] = 0 /\ written[d] = <<>>
      /\ cursor[d] <= shown[d] /\ shown[d] <= Len(output[d])
      /\ \A i \in 1..Len(stdin[d]) : stdin[d][i] = CountLine
  BY <1>2, <1>4 DEF DownloadInv
<1>9. PICK g \in 0..Len(queue[d]) : QueueInv(d, g) /\ TurnInv(d, cursor[d] - g)
  BY <1>4 DEF DownloadInv
<1>10. QueueInv(d, g)'
  BY <1>3, <1>6, <1>9 DEF QueueInv
<1>11. TurnInv(d, cursor[d] - g)'
  <2>1. PICK c \in Nat : c = cursor[d] - g
    BY <1>4, <1>9 DEF QueueInv
  <2>2. TurnInv(d, c) /\ ~(c < Len(output[d]))
    BY <1>8, <1>9, <2>1
  <2>3. Quiet(d, c) => Quiet(d, c)'
    BY <1>3 DEF Quiet
  <2>4. TurnInv(d, c)'
    BY <1>2, <1>3, <2>2, <2>3 DEF TurnInv
  <2> QED  BY <1>3, <2>1, <2>4
<1>12. /\ Len(file) \in Nat /\ Len(<<>>) = 0
  OBVIOUS
<1>13. DownloadInv(d)'
  BY <1>2, <1>3, <1>6, <1>8, <1>9, <1>10, <1>11, <1>12 DEF DownloadInv
<1> QED  BY <1>4, <1>5, <1>7, <1>13, AloneFiles

\* What one turn of the script takes from its file.
LEMMA NextChunk ==
  ASSUME NEW s \in Seq(Tokens), NEW k \in 0..Len(s), NEW size \in Nat
  PROVE  LET rest  == SubSeq(s, k + 1, Len(s))
             n     == Smaller(size, Len(s) - k)
             chunk == SubSeq(rest, 1, Smaller(size, Len(rest)))
         IN /\ n \in 0..(Len(s) - k) /\ n <= size
            /\ chunk \in Seq(Tokens) /\ Len(chunk) = n
            /\ \A i \in 1..n : chunk[i] = s[k + i]
PROOF
<1> DEFINE rest == SubSeq(s, k + 1, Len(s))
           n == Smaller(size, Len(s) - k)
<1>1. Len(s) \in Nat /\ k \in Nat /\ Len(s) - k \in Nat
  OBVIOUS
<1>2. /\ rest \in Seq(Tokens) /\ Len(rest) = Len(s) - k
      /\ \A i \in 1..(Len(s) - k) : rest[i] = s[k + i]
  BY <1>1, Divided
<1>3. n \in 0..(Len(s) - k) /\ n <= size /\ Smaller(size, Len(rest)) = n
  BY <1>1, <1>2 DEF Smaller
<1> DEFINE chunk == SubSeq(rest, 1, n)
<1> HIDE DEF rest, n
<1>4. /\ chunk \in Seq(Tokens) /\ Len(chunk) = n
      /\ \A i \in 1..n : chunk[i] = rest[i]
  <2>1. rest \in Seq(Tokens) /\ n \in 0..Len(rest)
    BY <1>1, <1>2, <1>3
  <2> QED  BY <2>1, Divided
<1> HIDE DEF chunk
<1>5. \A i \in 1..n : chunk[i] = s[k + i]
  <2> SUFFICES ASSUME NEW i \in 1..n PROVE chunk[i] = s[k + i]
    OBVIOUS
  <2>1. i \in 1..(Len(s) - k)
    BY <1>1, <1>3
  <2>2. chunk[i] = rest[i]
    BY <1>4
  <2>3. rest[i] = s[k + i]
    BY <1>2, <2>1
  <2> QED  BY <2>2, <2>3
<1>6. chunk = SubSeq(rest, 1, Smaller(size, Len(rest)))
  BY <1>3 DEF chunk
<1> QED  BY <1>3, <1>4, <1>5, <1>6 DEF rest, n

\* What the script says in one turn, behind what it has said.
LEMMA Spoken ==
  ASSUME NEW said \in Seq(Tokens), NEW e \in Tokens, NEW chunk \in Seq(Tokens)
  PROVE  LET more == said \o <<e>> \o chunk
         IN /\ more \in Seq(Tokens) /\ Len(more) = Len(said) + 1 + Len(chunk)
            /\ more[Len(said) + 1] = e
            /\ \A i \in 1..Len(said) : more[i] = said[i]
            /\ \A i \in 1..Len(chunk) : more[Len(said) + 1 + i] = chunk[i]
PROOF
<1> DEFINE line == said \o <<e>>
<1>1. <<e>> \in Seq(Tokens) /\ Len(<<e>>) = 1 /\ <<e>>[1] = e /\ Len(said) \in Nat /\ Len(chunk) \in Nat
  OBVIOUS
<1>2. /\ line \in Seq(Tokens) /\ Len(line) = Len(said) + 1 /\ line[Len(said) + 1] = e
      /\ \A i \in 1..Len(said) : line[i] = said[i]
  BY <1>1, Joined
<1> HIDE DEF line
<1>3. /\ line \o chunk \in Seq(Tokens) /\ Len(line \o chunk) = Len(line) + Len(chunk)
      /\ \A i \in 1..Len(line) : (line \o chunk)[i] = line[i]
      /\ \A i \in 1..Len(chunk) : (line \o chunk)[Len(line) + i] = chunk[i]
  <2>1. line \in Seq(Tokens)
    BY <1>2
  <2> QED  BY <2>1, Joined
<1>4. (line \o chunk)[Len(said) + 1] = e /\ \A i \in 1..Len(said) : (line \o chunk)[i] = said[i]
  BY <1>1, <1>2, <1>3
<1> QED  BY <1>1, <1>2, <1>3, <1>4 DEF line

\* One turn of the script.
LEMMA ServeFiles ==
  ASSUME FilesInv, NEW d \in Downloads, ServeChunk(d)
  PROVE  FilesInv'
PROOF
<1>1. /\ FileTypes /\ TargetIsWhole /\ DownloadInv(d) /\ d \in Transfers /\ d \notin Uploads
      /\ script \in [Transfers -> Running \cup {"none", "ok", "bad"}]
      /\ stdin \in [Transfers -> Seq(Tokens)] /\ output \in [Transfers -> Seq(Tokens)]
      /\ taken \in [Downloads -> Nat] /\ ChunkSize \in Nat \ {0}
      /\ opened[d] \in Seq(Tokens) /\ written[d] \in Seq(Tokens)
      /\ cursor[d] \in Nat /\ shown[d] \in Nat /\ queue[d] \in Seq(Tokens)
  BY DownloadTypes
<1>2. PICK s \in Seq(Tokens), said \in Seq(Tokens), k \in Nat, in \in Seq(Tokens) :
        s = opened[d] /\ said = output[d] /\ k = taken[d] /\ in = stdin[d] /\ Len(queue[d]) \in Nat
  BY <1>1
<1>3. /\ in # <<>> /\ Len(in) \in Nat \ {0} /\ 1 \in 1..Len(in) /\ in[1] = CountLine /\ in[1].n = ChunkSize
      /\ k \in 0..Len(s)
  <2>1. in # <<>>
    BY <1>2 DEF ServeChunk
  <2>2. Len(in) \in Nat \ {0} /\ 1 \in 1..Len(in)
    BY <1>2, <2>1
  <2>3. in[1] = CountLine /\ k <= Len(s)
    BY <1>1, <1>2, <2>2 DEF DownloadInv
  <2> QED  BY <1>2, <2>1, <2>2, <2>3 DEF CountLine, Block
<1>4. PICK chunk \in Seq(Tokens), n \in Nat :
        /\ chunk = SubSeq(SubSeq(s, k + 1, Len(s)), 1, Smaller(ChunkSize, Len(SubSeq(s, k + 1, Len(s)))))
        /\ n = Smaller(ChunkSize, Len(s) - k) /\ n <= Len(s) - k /\ n <= ChunkSize /\ Len(chunk) = n
        /\ \A i \in 1..n : chunk[i] = s[k + i]
  <2>1. LET rest  == SubSeq(s, k + 1, Len(s))
            m     == Smaller(ChunkSize, Len(s) - k)
            taking == SubSeq(rest, 1, Smaller(ChunkSize, Len(rest)))
        IN /\ m \in 0..(Len(s) - k) /\ m <= ChunkSize
           /\ taking \in Seq(Tokens) /\ Len(taking) = m
           /\ \A i \in 1..m : taking[i] = s[k + i]
    BY <1>1, <1>3, NextChunk, ZenonT(30)
  <2>2. Smaller(ChunkSize, Len(s) - k) \in Nat /\ Smaller(ChunkSize, Len(s) - k) <= Len(s) - k
    BY <1>1, <1>3, <2>1
  <2> QED  BY <2>1, <2>2
<1>5. PICK more \in Seq(Tokens) :
        /\ more = said \o <<SizeLine(n)>> \o chunk /\ Len(more) = Len(said) + 1 + n
        /\ more[Len(said) + 1] = SizeLine(n)
        /\ \A i \in 1..Len(said) : more[i] = said[i]
        /\ \A i \in 1..n : more[Len(said) + 1 + i] = chunk[i]
  <2>1. SizeLine(n) \in Tokens
    BY TokenTypes
  <2>2. LET m == said \o <<SizeLine(n)>> \o chunk
        IN /\ m \in Seq(Tokens) /\ Len(m) = Len(said) + 1 + Len(chunk)
           /\ m[Len(said) + 1] = SizeLine(n)
           /\ \A i \in 1..Len(said) : m[i] = said[i]
           /\ \A i \in 1..Len(chunk) : m[Len(said) + 1 + i] = chunk[i]
    BY <2>1, Spoken
  <2> QED  BY <1>4, <2>2
<1>6. PICK rest \in Seq(Tokens) : rest = Tail(in) /\ Len(rest) = Len(in) - 1
                                  /\ \A i \in 1..(Len(in) - 1) : rest[i] = in[i + 1]
  BY <1>3, TailOf
<1>7. PICK to \in {"serve", "ok"} : script[d] = "serve" /\ script' = [script EXCEPT ![d] = to]
  BY DEF ServeChunk, Step
<1>8. /\ output' = [output EXCEPT ![d] = more]
      /\ taken' = [taken EXCEPT ![d] = k + n]
      /\ stdin' = [stdin EXCEPT ![d] = rest]
  <2>1. ReadFrom(d) = s /\ stdin[d][1].n = ChunkSize
    BY <1>2, <1>3 DEF ReadFrom
  <2>2. /\ output' = [output EXCEPT ![d] = output[d] \o <<SizeLine(Len(chunk))>> \o chunk]
        /\ taken' = [taken EXCEPT ![d] = taken[d] + Len(chunk)]
        /\ stdin' = [stdin EXCEPT ![d] = Tail(stdin[d])]
    BY <1>2, <1>4, <2>1 DEF ServeChunk
  <2> QED  BY <1>2, <1>4, <1>5, <1>6, <2>2
<1>9. /\ UNCHANGED <<target, temp, opened, moved, shown, link, exit>>
      /\ UNCHANGED <<cursor, queue, need, written, at, given, orphaned>>
  BY DEF ServeChunk, connVars, readerVars, callVars
<1>10. /\ output'[d] = more /\ output' \in [Transfers -> Seq(Tokens)]
       /\ taken'[d] = k + n /\ taken' \in [Downloads -> Nat]
       /\ stdin'[d] = rest /\ stdin' \in [Transfers -> Seq(Tokens)]
       /\ script'[d] = to /\ script' \in [Transfers -> Running \cup {"none", "ok", "bad"}]
       /\ \A r \in Transfers \ {d} : output'[r] = output[r] /\ stdin'[r] = stdin[r] /\ script'[r] = script[r]
       /\ \A r \in Downloads \ {d} : taken'[r] = taken[r]
  <2>1. k + n \in Nat
    OBVIOUS
  <2> QED  BY <1>1, <1>7, <1>8, <2>1 DEF Running
<1>11. FileTypes'
  BY <1>1, <1>9, <1>10 DEF FileTypes, TypeOK
<1>12. Alone(d) /\ TargetIsWhole'
  BY <1>1, <1>9, <1>10 DEF Alone, TargetIsWhole, Source, Old
<1>13. /\ cursor[d] <= shown[d] /\ shown[d] <= Len(said) /\ Len(said) \in Nat
       /\ Len(written[d]) <= Len(s) /\ Len(written[d]) \in Nat /\ Len(s) \in Nat
       /\ \A i \in 1..Len(written[d]) : written[d][i] = s[i]
       /\ \A i \in 1..Len(in) : in[i] = CountLine
  <2>1. /\ cursor[d] <= shown[d] /\ shown[d] <= Len(output[d])
        /\ Len(written[d]) <= Len(opened[d])
        /\ \A i \in 1..Len(written[d]) : written[d][i] = opened[d][i]
        /\ \A i \in 1..Len(stdin[d]) : stdin[d][i] = CountLine
    BY <1>1 DEF DownloadInv
  <2>2. Len(said) \in Nat /\ Len(written[d]) \in Nat /\ Len(s) \in Nat
    BY <1>1
  <2> QED  BY <1>2, <2>1, <2>2
<1>14. PICK g \in 0..Len(queue[d]) : QueueInv(d, g) /\ TurnInv(d, cursor[d] - g)
  BY <1>1 DEF DownloadInv
<1>15. PICK c \in Nat : c = cursor[d] - g /\ TurnInv(d, c)
  BY <1>1, <1>14 DEF QueueInv
<1>16. QueueInv(d, g)'
  <2>1. ASSUME NEW i \in 1..g PROVE queue[d][i] = more[cursor[d] - g + i]
    <3>1. cursor[d] - g + i \in 1..Len(said)
      <4>1. g \in Nat /\ i \in Nat /\ i >= 1 /\ i <= g
        BY <1>2, <1>14
      <4>2. g <= cursor[d]
        BY <1>14 DEF QueueInv
      <4>3. cursor[d] <= Len(said) /\ Len(said) \in Nat /\ cursor[d] \in Nat
        BY <1>1, <1>13
      <4>4. PICK cur \in Nat, len \in Nat : cur = cursor[d] /\ len = Len(said) /\ cur <= len
        BY <4>3
      <4>5. cur - g + i \in 1..len
        BY <4>1, <4>2, <4>4, Positions
      <4> QED  BY <4>4, <4>5
    <3>2. queue[d][i] = output[d][cursor[d] - g + i]
      BY <1>14 DEF QueueInv
    <3> QED  BY <1>2, <1>5, <3>1, <3>2
  <2> QED  BY <1>9, <1>10, <1>14, <2>1 DEF QueueInv
<1>17. TurnInv(d, c)'
  <2>1. at[d] \in {"line", "abort", "failed"}
    BY <1>2, <1>3, <1>15 DEF TurnInv
  <2>2. CASE at[d] = "line"
    <3>1. Quiet(d, c) /\ Len(in) <= 1
      BY <1>2, <1>3, <1>15, <2>2 DEF TurnInv
    <3>2. c = Len(said) /\ k = Len(written[d])
      BY <1>2, <3>1 DEF Quiet
    <3>3. rest = <<>>
      BY <1>3, <1>6, <3>1
    <3>4. more[c + 1] = SizeLine(n) /\ n = more[c + 1].n
      BY <1>5, <3>2 DEF SizeLine, Block
    <3>5. Len(more) = (c + 1) + n /\ \A i \in 1..n : more[(c + 1) + i] = s[Len(written[d]) + i]
      BY <1>4, <1>5, <3>2
    <3>6. Said(d, c + 1, n)'
      BY <1>2, <1>4, <1>9, <1>10, <3>2, <3>5 DEF Said
    <3>7. Said(d, c + 1, output[d][c + 1].n)'
      BY <1>10, <3>4, <3>6
    <3>8. c < Len(output'[d]) /\ output'[d][c + 1] = SizeLine(output'[d][c + 1].n)
      BY <1>10, <3>4, <3>5
    <3> QED  BY <1>9, <1>10, <2>2, <3>3, <3>7, <3>8 DEF TurnInv
  <2>3. CASE at[d] \in {"abort", "failed"}
    BY <1>9, <2>3 DEF TurnInv
  <2> QED  BY <2>1, <2>2, <2>3
<1>18. TurnInv(d, cursor[d] - g)'
  BY <1>9, <1>15, <1>17
<1>19. shown[d] <= Len(more) /\ k + n <= Len(s)
  <2>1. Len(more) = Len(said) + 1 + n
    BY <1>5
  <2>2. n <= Len(s) - k
    BY <1>4
  <2> QED  BY <1>1, <1>13, <2>1, <2>2
<1>20. \A i \in 1..Len(rest) : rest[i] = CountLine
  <2>1. \A i \in 1..(Len(in) - 1) : i + 1 \in 1..Len(in)
    BY <1>3
  <2> QED  BY <1>6, <1>13, <2>1
<1>21. DownloadInv(d)'
  BY <1>2, <1>7, <1>9, <1>10, <1>13, <1>14, <1>16, <1>18, <1>19, <1>20 DEF DownloadInv
<1> QED  BY <1>1, <1>11, <1>12, <1>21, AloneFiles

\* The reader takes a frame of output, or queues an error for a gap.
LEMMA OutputFiles ==
  ASSUME FilesInv, NEW d \in Downloads, Outputs(d)
  PROVE  FilesInv'
PROOF
<1>1. /\ FileTypes /\ TargetIsWhole /\ DownloadInv(d) /\ d \in Transfers /\ d \notin Uploads
      /\ queue \in [Downloads -> Seq(Tokens)] /\ cursor \in [Downloads -> Nat]
      /\ shown \in [Transfers -> Nat]
      /\ queue[d] \in Seq(Tokens) /\ output[d] \in Seq(Tokens)
      /\ cursor[d] \in Nat /\ shown[d] \in Nat
  BY DownloadTypes
<1>2. PICK lo \in 0..Len(output[d]), hi \in 0..Len(output[d]) : OnOutput(d, lo, hi)
  BY DEF Outputs
<1>3. /\ lo \in Nat /\ hi \in Nat /\ lo < hi /\ hi <= Len(output[d]) /\ lo >= shown[d]
      /\ hi - lo \in Nat
  <2>1. lo \in Nat /\ hi \in Nat
    BY <1>1, <1>2
  <2>2. lo < hi /\ hi <= Len(output[d]) /\ (lo = shown[d] \/ lo > shown[d])
    BY <1>2 DEF OnOutput
  <2> QED  BY <1>1, <2>1, <2>2
<1>4. /\ UNCHANGED <<target, temp, script, opened, taken, stdin, output, moved, link, exit>>
      /\ UNCHANGED <<need, written, at, given, orphaned>>
      /\ shown' = [shown EXCEPT ![d] = hi] /\ link[d] = "up"
  BY <1>2 DEF OnOutput, sandboxVars, callVars
<1>5. PICK q \in Seq(Tokens), said \in Seq(Tokens) : q = queue[d] /\ said = output[d] /\ Len(q) \in Nat
  BY <1>1
<1>6. PICK g \in 0..Len(q) : QueueInv(d, g) /\ TurnInv(d, cursor[d] - g)
  BY <1>1, <1>5 DEF DownloadInv
<1>7. PICK c \in Nat : c = cursor[d] - g /\ cursor[d] = c + g /\ TurnInv(d, c) /\ g \in Nat
  BY <1>1, <1>5, <1>6 DEF QueueInv
<1>8. /\ shown'[d] = hi /\ shown' \in [Transfers -> Nat]
      /\ \A r \in Transfers \ {d} : shown'[r] = shown[r]
  BY <1>1, <1>3, <1>4
<1>9. TurnInv(d, c)'
  BY <1>4, <1>7, TurnRests
<1>10. /\ cursor[d] <= shown[d] /\ shown[d] <= Len(said)
       /\ \A i \in 1..g : q[i] = said[c + i]
       /\ \A i \in (g + 1)..Len(q) : q[i] = Failure
  <2>1. cursor[d] <= shown[d] /\ shown[d] <= Len(output[d])
    BY <1>1 DEF DownloadInv
  <2> QED  BY <1>5, <1>6, <1>7, <2>1 DEF QueueInv
<1>11. PICK cur \in Nat, more \in Seq(Tokens), n \in Nat :
         /\ cursor' = [cursor EXCEPT ![d] = cur] /\ queue' = [queue EXCEPT ![d] = more]
         /\ n <= Len(more) /\ cur = c + n /\ cur <= hi
         /\ \A i \in 1..n : more[i] = said[c + i]
         /\ \A i \in (n + 1)..Len(more) : more[i] = Failure
         /\ (n = Len(more) /\ cur = hi) \/ cur < hi
  <2>1. CASE Expected(d, lo)
    <3>1. lo = cursor[d] /\ lo = shown[d]
      BY <1>1, <1>3, <1>10, <2>1 DEF Expected
    <3>2. g = Len(q)
      <4>1. (g = Len(queue[d]) /\ cursor[d] = shown[d]) \/ cursor[d] < shown[d]
        BY <1>4, <1>6 DEF QueueInv
      <4> QED  BY <1>1, <1>5, <3>1, <4>1
    <3>3. PICK part \in Seq(Tokens) : /\ part = SubSeq(said, lo + 1, hi) /\ Len(part) = hi - lo
                                      /\ \A i \in 1..(hi - lo) : part[i] = said[lo + i]
      <4>1. lo + 1 \in 1..(Len(said) + 1) /\ hi \in ((lo + 1) - 1)..Len(said)
        BY <1>3, <1>5
      <4>2. /\ SubSeq(said, lo + 1, hi) \in Seq(Tokens) /\ Len(SubSeq(said, lo + 1, hi)) = hi - (lo + 1) + 1
            /\ \A i \in 1..(hi - (lo + 1) + 1) : SubSeq(said, lo + 1, hi)[i] = said[(lo + 1) + i - 1]
        <5>1. said \in Seq(Tokens)
          OBVIOUS
        <5> QED  BY <4>1, <5>1, Cut
      <4>3. hi - (lo + 1) + 1 = hi - lo /\ \A i \in 1..(hi - lo) : (lo + 1) + i - 1 = lo + i
        BY <1>3
      <4>4. /\ SubSeq(said, lo + 1, hi) \in Seq(Tokens) /\ Len(SubSeq(said, lo + 1, hi)) = hi - lo
            /\ \A i \in 1..(hi - lo) : SubSeq(said, lo + 1, hi)[i] = said[lo + i]
        BY <4>2, <4>3
      <4> QED  BY <4>4
    <3>4. PICK both \in Seq(Tokens) : /\ both = q \o part /\ Len(both) = Len(q) + Len(part)
                                      /\ \A i \in 1..Len(q) : both[i] = q[i]
                                      /\ \A i \in 1..Len(part) : both[Len(q) + i] = part[i]
      <4>1. /\ q \o part \in Seq(Tokens) /\ Len(q \o part) = Len(q) + Len(part)
            /\ \A i \in 1..Len(q) : (q \o part)[i] = q[i]
            /\ \A i \in 1..Len(part) : (q \o part)[Len(q) + i] = part[i]
        BY Joined
      <4> QED  BY <4>1
    <3>5. /\ queue' = [queue EXCEPT ![d] = both] /\ cursor' = [cursor EXCEPT ![d] = hi]
      <4>1. /\ queue' = [queue EXCEPT ![d] = queue[d] \o SubSeq(output[d], lo + 1, hi)]
            /\ cursor' = [cursor EXCEPT ![d] = cursor[d] + (hi - lo)]
        BY <1>2, <2>1 DEF OnOutput
      <4>2. cursor[d] + (hi - lo) = hi
        BY <1>3, <3>1
      <4> QED  BY <1>5, <3>3, <3>4, <4>1, <4>2
    <3>6. Len(both) = g + (hi - lo) /\ Len(both) \in Nat /\ hi = c + Len(both)
      <4>1. Len(both) = Len(q) + Len(part)
        BY <3>4
      <4>2. Len(both) = g + (hi - lo)
        BY <3>2, <3>3, <4>1
      <4>3. lo = c + g
        BY <1>7, <3>1
      <4>4. PICK m \in Nat : m = hi - lo /\ hi = lo + m
        BY <1>3
      <4>5. g \in Nat /\ c \in Nat /\ Len(both) = g + m
        BY <1>7, <4>2, <4>4
      <4>6. Len(both) \in Nat /\ hi = c + (g + m)
        BY <4>3, <4>4, <4>5
      <4> QED  BY <4>2, <4>5, <4>6
    <3>7. ASSUME NEW i \in 1..Len(both) PROVE both[i] = said[c + i]
      <4>1. CASE i \in 1..g
        BY <1>10, <3>2, <3>4, <4>1
      <4>2. CASE i \notin 1..g
        <5>1. PICK j \in 1..(hi - lo) : i = g + j /\ c + i = lo + j
          <6>1. i \in 1..(g + (hi - lo)) /\ i \in Int /\ lo = c + g
            BY <1>7, <3>1, <3>6
          <6>2. ~(i <= g)
            BY <1>7, <4>2, <6>1
          <6>3. g \in Nat /\ c \in Nat
            BY <1>7
          <6>4. i - g \in 1..(hi - lo) /\ i = g + (i - g) /\ c + i = lo + (i - g)
            BY <1>3, <6>1, <6>2, <6>3
          <6> QED  BY <6>4
        <5> QED  BY <3>2, <3>3, <3>4, <5>1
      <4> QED  BY <4>1, <4>2
    <3>8. \A i \in (Len(both) + 1)..Len(both) : both[i] = Failure
      BY <3>6
    <3>9. /\ Len(both) <= Len(both) /\ hi <= hi
          /\ (Len(both) = Len(both) /\ hi = hi) \/ hi < hi
      BY <1>3, <3>6
    <3> QED  BY <1>3, <3>5, <3>6, <3>7, <3>8, <3>9
  <2>2. CASE ~Expected(d, lo)
    <3>1. queue' = [queue EXCEPT ![d] = Append(q, Failure)] /\ cursor' = [cursor EXCEPT ![d] = cursor[d]]
      BY <1>1, <1>2, <1>5, <2>2 DEF OnOutput
    <3>2. PICK both \in Seq(Tokens) : /\ both = Append(q, Failure) /\ Len(both) = Len(q) + 1
                                      /\ both[Len(q) + 1] = Failure
                                      /\ \A i \in 1..Len(q) : both[i] = q[i]
      <4>1. /\ Append(q, Failure) \in Seq(Tokens) /\ Len(Append(q, Failure)) = Len(q) + 1
            /\ Append(q, Failure)[Len(q) + 1] = Failure
            /\ \A i \in 1..Len(q) : Append(q, Failure)[i] = q[i]
        BY TokenTypes, Appended
      <4> QED  BY <4>1
    <3>3. cursor[d] < hi /\ g <= Len(both)
      BY <1>1, <1>3, <1>5, <1>6, <1>10, <3>2
    <3>4. \A i \in 1..g : both[i] = said[c + i]
      BY <1>5, <1>6, <1>10, <3>2
    <3>5. ASSUME NEW i \in (g + 1)..Len(both) PROVE both[i] = Failure
      <4>1. i = Len(q) + 1 \/ (i \in (g + 1)..Len(q) /\ i \in 1..Len(q))
        BY <1>5, <1>7, <3>2
      <4> QED  BY <1>10, <3>2, <4>1
    <3>6. PICK cur \in Nat : cur = cursor[d] /\ cur = c + g /\ cur < hi
      BY <1>1, <1>7, <3>3
    <3>7. cursor' = [cursor EXCEPT ![d] = cur] /\ queue' = [queue EXCEPT ![d] = both]
      BY <3>1, <3>2, <3>6
    <3>8. cur <= hi
      BY <1>3, <3>6
    <3> QED  BY <1>7, <3>3, <3>4, <3>5, <3>6, <3>7, <3>8
  <2> QED  BY <2>1, <2>2
<1>12. /\ cursor'[d] = cur /\ cursor' \in [Downloads -> Nat]
       /\ queue'[d] = more /\ queue' \in [Downloads -> Seq(Tokens)]
       /\ \A r \in Downloads \ {d} : cursor'[r] = cursor[r] /\ queue'[r] = queue[r]
  BY <1>1, <1>11
<1>13. FileTypes'
  BY <1>1, <1>4, <1>8, <1>12 DEF FileTypes, TypeOK
<1>14. Alone(d) /\ TargetIsWhole'
  BY <1>1, <1>4, <1>8, <1>12 DEF Alone, TargetIsWhole, Source, Old
<1>15. cur - n = c /\ n \in 0..Len(more)
  BY <1>11
<1>16. QueueInv(d, n)'
  <2>1. n <= cur
    BY <1>11
  <2>2. \A i \in 1..n : more[i] = output[d][cur - n + i]
    BY <1>5, <1>11, <1>15
  <2>3. (n = Len(more) /\ cur = hi) \/ cur < hi
    BY <1>11
  <2> QED  BY <1>4, <1>8, <1>11, <1>12, <2>1, <2>2, <2>3 DEF QueueInv
<1>17. TurnInv(d, cursor[d] - n)'
  BY <1>9, <1>12, <1>15
<1>18. cur <= hi /\ hi <= Len(output[d])
  BY <1>3, <1>11
<1>19. DownloadInv(d)'
  BY <1>1, <1>4, <1>8, <1>12, <1>15, <1>16, <1>17, <1>18 DEF DownloadInv
<1> QED  BY <1>1, <1>13, <1>14, <1>19, AloneFiles

\* The call asks for a chunk.
LEMMA AskFiles ==
  ASSUME FilesInv, NEW d \in Downloads, AskChunk(d)
  PROVE  FilesInv'
PROOF
<1>1. /\ FileTypes /\ TargetIsWhole /\ DownloadInv(d) /\ d \in Transfers /\ d \notin Uploads
      /\ at \in [Transfers -> CallStates] /\ stdin \in [Transfers -> Seq(Tokens)]
      /\ cursor[d] \in Nat
  BY DownloadTypes
<1>2. /\ UNCHANGED <<target, temp, script, opened, taken, output, moved, shown, link, exit>>
      /\ UNCHANGED <<cursor, queue, need, written, given, orphaned>>
      /\ at[d] = "ask" /\ at' = [at EXCEPT ![d] = "line"]
      /\ stdin' = [stdin EXCEPT ![d] = Append(stdin[d], CountLine)]
  BY DEF AskChunk, Sends, Goto, connVars, readerVars
<1>3. PICK g \in 0..Len(queue[d]) : QueueInv(d, g) /\ TurnInv(d, cursor[d] - g)
  BY <1>1 DEF DownloadInv
<1>4. PICK c \in Nat : c = cursor[d] - g /\ TurnInv(d, c)
  BY <1>1, <1>3 DEF QueueInv
<1>5. stdin[d] = <<>> /\ Quiet(d, c)
  BY <1>2, <1>4 DEF TurnInv
<1>6. PICK in \in Seq(Tokens) : in = Append(stdin[d], CountLine) /\ Len(in) = 1 /\ in[1] = CountLine
  <2>1. /\ Append(stdin[d], CountLine) \in Seq(Tokens) /\ Len(Append(stdin[d], CountLine)) = Len(stdin[d]) + 1
        /\ Append(stdin[d], CountLine)[Len(stdin[d]) + 1] = CountLine
    <3>1. stdin[d] \in Seq(Tokens)
      BY <1>1
    <3> QED  BY <3>1, TokenTypes, Appended
  <2>2. Len(stdin[d]) = 0
    BY <1>5
  <2>3. Len(Append(stdin[d], CountLine)) = 1 /\ Append(stdin[d], CountLine)[1] = CountLine
    BY <2>1, <2>2
  <2> QED  BY <2>1, <2>3
<1>7. /\ stdin'[d] = in /\ stdin' \in [Transfers -> Seq(Tokens)]
      /\ at'[d] = "line" /\ at' \in [Transfers -> CallStates]
      /\ \A r \in Transfers \ {d} : stdin'[r] = stdin[r] /\ at'[r] = at[r]
  <2>1. stdin' = [stdin EXCEPT ![d] = in]
    BY <1>2, <1>6
  <2>2. at' \in [Transfers -> CallStates]
    BY <1>1, <1>2 DEF CallStates
  <2> QED  BY <1>1, <1>2, <2>1, <2>2
<1>8. FileTypes'
  <2>1. at' \in [Transfers -> {"idle", "run", "send", "ask", "line", "data", "wait", "abort"} \cup Settled]
    BY <1>7 DEF CallStates
  <2> QED  BY <1>1, <1>2, <1>7, <2>1 DEF FileTypes, TypeOK
<1>9. Alone(d) /\ TargetIsWhole'
  BY <1>1, <1>2, <1>7 DEF Alone, TargetIsWhole, Source, Old
<1>10. TurnInv(d, c)'
  <2>1. Quiet(d, c)'
    BY <1>2, <1>5 DEF Quiet
  <2>2. Len(stdin'[d]) <= 1
    BY <1>6, <1>7
  <2> QED  BY <1>7, <2>1, <2>2 DEF TurnInv
<1>11. QueueInv(d, g)' /\ TurnInv(d, cursor[d] - g)'
  BY <1>2, <1>3, <1>4, <1>10 DEF QueueInv
<1>12. \A i \in 1..Len(in) : in[i] = CountLine
  BY <1>6
<1>13. DownloadInv(d)'
  BY <1>1, <1>2, <1>3, <1>7, <1>11, <1>12 DEF DownloadInv
<1> QED  BY <1>1, <1>8, <1>9, <1>13, AloneFiles

\* The call reads the size of a chunk.
LEMMA LineFiles ==
  ASSUME FilesInv, NEW d \in Downloads, ReadLine(d)
  PROVE  FilesInv'
PROOF
<1>1. /\ FileTypes /\ TargetIsWhole /\ DownloadInv(d) /\ d \in Transfers /\ d \notin Uploads
      /\ at \in [Transfers -> CallStates] /\ queue \in [Downloads -> Seq(Tokens)]
      /\ need \in [Downloads -> 0..ChunkSize] /\ ChunkSize \in Nat \ {0}
      /\ queue[d] \in Seq(Tokens) /\ output[d] \in Seq(Tokens)
      /\ opened[d] \in Seq(Tokens) /\ written[d] \in Seq(Tokens)
      /\ cursor[d] \in Nat /\ shown[d] \in Nat
  BY DownloadTypes
<1>2. PICK q \in Seq(Tokens), said \in Seq(Tokens), line \in Tokens :
        /\ q = queue[d] /\ q # <<>> /\ said = output[d] /\ line = q[1] /\ line = Head(q)
        /\ Len(q) \in Nat \ {0} /\ Len(said) \in Nat
  <2>1. queue[d] # <<>>
    BY DEF ReadLine
  <2>2. Head(queue[d]) = queue[d][1] /\ Head(queue[d]) \in Tokens /\ Len(queue[d]) \in Nat \ {0}
    BY <1>1, <2>1, TailOf
  <2>3. Len(output[d]) \in Nat
    BY <1>1
  <2> QED  BY <1>1, <2>1, <2>2, <2>3
<1>3. PICK rest \in Seq(Tokens) : /\ rest = Tail(q) /\ Len(rest) = Len(q) - 1
                                  /\ \A i \in 1..(Len(q) - 1) : rest[i] = q[i + 1]
  <2>1. /\ Tail(q) \in Seq(Tokens) /\ Len(Tail(q)) = Len(q) - 1
        /\ \A i \in 1..(Len(q) - 1) : Tail(q)[i] = q[i + 1]
    BY <1>2, TailOf
  <2> QED  BY <2>1
<1>4. PICK n \in 0..ChunkSize : n = line.n /\ line.by = "size"
  <2>1. line.by = "size" /\ line.n <= ChunkSize
    BY <1>2 DEF ReadLine
  <2>2. line.n \in Nat
    BY DEF Tokens
  <2> QED  BY <1>1, <2>1, <2>2
<1>5. PICK to \in {"wait", "data"} : /\ at' = [at EXCEPT ![d] = to] /\ to = IF n = 0 THEN "wait" ELSE "data"
  BY <1>2, <1>4 DEF ReadLine, Goto
<1>6. /\ at[d] = "line" /\ need' = [need EXCEPT ![d] = n] /\ queue' = [queue EXCEPT ![d] = rest]
      /\ UNCHANGED <<target, temp, script, opened, taken, stdin, output, moved, shown, link, exit>>
      /\ UNCHANGED <<cursor, written, given, orphaned>>
  <2>1. queue' = [queue EXCEPT ![d] = Tail(queue[d])]
    BY DEF ReadLine
  <2> QED  BY <1>2, <1>3, <1>4, <2>1 DEF ReadLine, Goto, sandboxVars, connVars
<1>7. PICK g \in 0..Len(q) : QueueInv(d, g) /\ TurnInv(d, cursor[d] - g)
  BY <1>1, <1>2 DEF DownloadInv
<1>8. PICK c \in Nat : c = cursor[d] - g /\ cursor[d] = c + g /\ TurnInv(d, c) /\ g \in Nat
  BY <1>1, <1>2, <1>7 DEF QueueInv
<1>9. /\ cursor[d] <= shown[d] /\ shown[d] <= Len(said)
      /\ \A i \in 1..g : q[i] = said[c + i]
      /\ \A i \in (g + 1)..Len(q) : q[i] = Failure
  <2>1. cursor[d] <= shown[d] /\ shown[d] <= Len(output[d])
    BY <1>1 DEF DownloadInv
  <2> QED  BY <1>2, <1>7, <1>8, <2>1 DEF QueueInv
<1>10. PICK h \in Nat : g = h + 1
  <2>1. g # 0
    <3>1. SUFFICES ASSUME g = 0 PROVE FALSE
      OBVIOUS
    <3>2. 1 \in (g + 1)..Len(q)
      BY <1>2, <3>1
    <3>3. line = Failure
      BY <1>2, <1>9, <3>2
    <3> QED  BY <1>4, <3>3 DEF Failure, Block
  <2>2. g - 1 \in Nat /\ g = (g - 1) + 1
    BY <1>8, <2>1
  <2> QED  BY <2>2
<1>11. line = said[c + 1] /\ c < Len(said) /\ said[c + 1].n = n
  <2>1. 1 \in 1..g
    BY <1>10
  <2>2. line = said[c + 1]
    BY <1>2, <1>9, <2>1
  <2>3. c + 1 <= cursor[d]
    BY <1>8, <1>10
  <2>4. c < Len(said)
    BY <1>1, <1>2, <1>9, <2>3
  <2> QED  BY <1>4, <2>2, <2>4
<1>12. stdin[d] = <<>> /\ Said(d, c + 1, n)
  <2>1. ~Quiet(d, c)
    BY <1>2, <1>11 DEF Quiet
  <2>2. stdin[d] = <<>> /\ Said(d, c + 1, output[d][c + 1].n)
    BY <1>6, <1>8, <2>1 DEF TurnInv
  <2>3. output[d][c + 1].n = n
    BY <1>2, <1>11
  <2> QED  BY <2>2, <2>3
<1>13. script[d] \notin {"none", "begun"}
  <2>1. Len(<<>>) = 0 /\ ~(c < 0)
    OBVIOUS
  <2>2. output[d] # <<>>
    BY <1>2, <1>11, <2>1
  <2> QED  BY <1>1, <2>2 DEF DownloadInv
<1>14. /\ at'[d] = to /\ at' \in [Transfers -> CallStates]
       /\ need'[d] = n /\ need' \in [Downloads -> 0..ChunkSize]
       /\ queue'[d] = rest /\ queue' \in [Downloads -> Seq(Tokens)]
       /\ \A r \in Transfers \ {d} : at'[r] = at[r]
       /\ \A r \in Downloads \ {d} : need'[r] = need[r] /\ queue'[r] = queue[r]
  BY <1>1, <1>5, <1>6 DEF CallStates
<1>15. FileTypes'
  <2>1. at' \in [Transfers -> {"idle", "run", "send", "ask", "line", "data", "wait", "abort"} \cup Settled]
    BY <1>14 DEF CallStates
  <2> QED  BY <1>1, <1>6, <1>14, <2>1 DEF FileTypes, TypeOK
<1>16. Alone(d) /\ TargetIsWhole'
  BY <1>1, <1>6, <1>14 DEF Alone, TargetIsWhole, Source, Old
<1>17. QueueInv(d, h)'
  <2>1. h <= cursor[d] /\ cursor[d] - h = c + 1
    BY <1>8, <1>10
  <2>2. ASSUME NEW i \in 1..h PROVE rest[i] = said[c + 1 + i]
    <3>1. i + 1 \in 1..g /\ i \in 1..(Len(q) - 1) /\ c + 1 + i = c + (i + 1)
      BY <1>2, <1>7, <1>10
    <3>2. rest[i] = q[i + 1]
      BY <1>3, <3>1
    <3>3. q[i + 1] = said[c + (i + 1)]
      BY <1>9, <3>1
    <3> QED  BY <3>1, <3>2, <3>3
  <2>3. ASSUME NEW i \in (h + 1)..Len(rest) PROVE rest[i] = Failure
    <3>1. i + 1 \in (g + 1)..Len(q) /\ i \in 1..(Len(q) - 1)
      BY <1>2, <1>3, <1>10
    <3>2. rest[i] = q[i + 1]
      BY <1>3, <3>1
    <3>3. q[i + 1] = Failure
      BY <1>9, <3>1
    <3> QED  BY <3>2, <3>3
  <2>4. link[d] # "down" => (h = Len(rest) /\ cursor[d] = shown[d]) \/ cursor[d] < shown[d]
    <3>1. g = Len(q) => h = Len(rest)
      BY <1>2, <1>3, <1>10
    <3> QED  BY <1>2, <1>7, <3>1 DEF QueueInv
  <2>5. \A i \in 1..h : rest[i] = output[d][cursor[d] - h + i]
    BY <1>2, <2>1, <2>2
  <2> QED  BY <1>6, <1>14, <2>1, <2>3, <2>4, <2>5 DEF QueueInv
<1>18. TurnInv(d, c + 1)'
  <2>1. Said(d, c + 1, n)'
    BY <1>6, <1>12 DEF Said
  <2>2. CASE n = 0
    <3>1. at'[d] = "wait"
      BY <1>5, <1>14, <2>2
    <3>2. Len(written[d]) = Len(opened[d])
      <4>1. 0 = Smaller(ChunkSize, Len(opened[d]) - Len(written[d]))
        BY <1>12, <2>2 DEF Said
      <4>2. Len(opened[d]) \in Nat /\ Len(written[d]) \in Nat /\ Len(written[d]) <= Len(opened[d])
        <5>1. Len(written[d]) <= Len(opened[d])
          BY <1>1 DEF DownloadInv
        <5>2. Len(opened[d]) \in Nat /\ Len(written[d]) \in Nat
          BY <1>1
        <5> QED  BY <5>1, <5>2
      <4>3. PICK len \in Nat, got \in Nat : len = Len(opened[d]) /\ got = Len(written[d]) /\ got <= len
        BY <4>2
      <4>4. 0 = Smaller(ChunkSize, len - got) => len = got
        <5>1. len - got \in Nat /\ (len - got = 0 => len = got) /\ ChunkSize # 0
          BY <4>3, SizesAssumption
        <5> QED  BY <5>1 DEF Smaller
      <4> QED  BY <4>1, <4>3, <4>4
    <3> QED  BY <1>6, <1>12, <1>13, <3>1, <3>2 DEF TurnInv
  <2>3. CASE n # 0
    <3>1. at'[d] = "data"
      BY <1>5, <1>14, <2>3
    <3>2. Said(d, c + 1, need[d])'
      BY <1>14, <2>1
    <3> QED  BY <1>6, <1>12, <1>13, <3>1, <3>2 DEF TurnInv
  <2> QED  BY <2>2, <2>3
<1>19. TurnInv(d, cursor[d] - h)'
  <2>1. cursor'[d] - h = c + 1
    BY <1>6, <1>8, <1>10
  <2> QED  BY <1>18, <2>1
<1>20. h \in 0..Len(rest)
  BY <1>2, <1>3, <1>7, <1>10
<1>21. DownloadInv(d)'
  BY <1>1, <1>6, <1>14, <1>17, <1>19, <1>20 DEF DownloadInv
<1> QED  BY <1>1, <1>15, <1>16, <1>21, AloneFiles

\* The call writes a chunk.
LEMMA WriteFiles ==
  ASSUME FilesInv, NEW d \in Downloads, WriteChunk(d)
  PROVE  FilesInv'
PROOF
<1>1. /\ FileTypes /\ TargetIsWhole /\ DownloadInv(d) /\ d \in Transfers /\ d \notin Uploads
      /\ at \in [Transfers -> CallStates] /\ queue \in [Downloads -> Seq(Tokens)]
      /\ written \in [Downloads -> Seq(Tokens)]
      /\ need[d] \in 0..ChunkSize /\ ChunkSize \in Nat \ {0}
      /\ queue[d] \in Seq(Tokens) /\ output[d] \in Seq(Tokens)
      /\ opened[d] \in Seq(Tokens) /\ written[d] \in Seq(Tokens)
      /\ cursor[d] \in Nat /\ shown[d] \in Nat
  BY DownloadTypes
<1>2. PICK q \in Seq(Tokens), said \in Seq(Tokens), file \in Seq(Tokens), old \in Seq(Tokens), n \in Nat :
        /\ q = queue[d] /\ said = output[d] /\ file = opened[d] /\ old = written[d] /\ n = need[d]
        /\ Len(q) \in Nat /\ Len(said) \in Nat /\ Len(file) \in Nat /\ Len(old) \in Nat
  <2>1. need[d] \in Nat
    BY <1>1
  <2>2. /\ Len(queue[d]) \in Nat /\ Len(output[d]) \in Nat
        /\ Len(opened[d]) \in Nat /\ Len(written[d]) \in Nat
    BY <1>1
  <2> QED  BY <1>1, <2>1, <2>2
<1>3. /\ n <= Len(q) /\ \A i \in 1..n : q[i] # Failure
  <2>1. Len(queue[d]) >= need[d] /\ ~Spoiled(d)
    BY DEF WriteChunk
  <2>2. n <= Len(q) /\ ~(\E i \in 1..Len(q) : i <= n /\ q[i] = Failure)
    BY <1>2, <2>1 DEF Spoiled
  <2>3. \A i \in 1..n : i \in 1..Len(q) /\ i <= n
    BY <1>2, <2>2
  <2> QED  BY <2>2, <2>3
<1>4. PICK rest \in Seq(Tokens) : /\ rest = SubSeq(q, n + 1, Len(q)) /\ Len(rest) = Len(q) - n
                                  /\ \A i \in 1..(Len(q) - n) : rest[i] = q[n + i]
  <2>1. n \in 0..Len(q)
    BY <1>2, <1>3
  <2>2. /\ SubSeq(q, n + 1, Len(q)) \in Seq(Tokens) /\ Len(SubSeq(q, n + 1, Len(q))) = Len(q) - n
        /\ \A i \in 1..(Len(q) - n) : SubSeq(q, n + 1, Len(q))[i] = q[n + i]
    BY <2>1, Divided, ZenonT(30)
  <2> QED  BY <2>2, ZenonT(30)
<1>5. PICK chunk \in Seq(Tokens) : /\ chunk = SubSeq(q, 1, n) /\ Len(chunk) = n
                                   /\ \A i \in 1..n : chunk[i] = q[i]
  <2>1. n \in 0..Len(q)
    BY <1>2, <1>3
  <2>2. /\ SubSeq(q, 1, n) \in Seq(Tokens) /\ Len(SubSeq(q, 1, n)) = n
        /\ \A i \in 1..n : SubSeq(q, 1, n)[i] = q[i]
    BY <2>1, Divided, ZenonT(30)
  <2> QED  BY <2>2, ZenonT(30)
<1>6. PICK more \in Seq(Tokens) : /\ more = old \o chunk /\ Len(more) = Len(old) + n
                                  /\ \A i \in 1..Len(old) : more[i] = old[i]
                                  /\ \A i \in 1..n : more[Len(old) + i] = chunk[i]
  <2>1. /\ old \o chunk \in Seq(Tokens) /\ Len(old \o chunk) = Len(old) + Len(chunk)
        /\ \A i \in 1..Len(old) : (old \o chunk)[i] = old[i]
        /\ \A i \in 1..Len(chunk) : (old \o chunk)[Len(old) + i] = chunk[i]
    <3>1. \A s, r \in Seq(Tokens) :
            /\ s \o r \in Seq(Tokens) /\ Len(s \o r) = Len(s) + Len(r)
            /\ \A i \in 1..Len(s) : (s \o r)[i] = s[i]
            /\ \A i \in 1..Len(r) : (s \o r)[Len(s) + i] = r[i]
      BY Joined
    <3> QED  BY <3>1, ZenonT(30)
  <2>2. Len(old \o chunk) = Len(old) + n /\ \A i \in 1..n : (old \o chunk)[Len(old) + i] = chunk[i]
    BY <1>5, <2>1
  <2> QED  BY <2>1, <2>2, ZenonT(30)
<1>7. PICK to \in {"wait", "ask", "abort"} :
        at' = [at EXCEPT ![d] = to] /\ (to = "wait" => n < ChunkSize)
  BY <1>2 DEF WriteChunk, Goto
<1>8. /\ at[d] = "data" /\ queue' = [queue EXCEPT ![d] = rest] /\ written' = [written EXCEPT ![d] = more]
      /\ UNCHANGED <<target, temp, script, opened, taken, stdin, output, moved, shown, link, exit>>
      /\ UNCHANGED <<cursor, need, given, orphaned>>
  <2>1. /\ queue' = [queue EXCEPT ![d] = SubSeq(queue[d], need[d] + 1, Len(queue[d]))]
        /\ written' = [written EXCEPT ![d] = written[d] \o SubSeq(queue[d], 1, need[d])]
    BY DEF WriteChunk
  <2>2. queue' = [queue EXCEPT ![d] = rest] /\ written' = [written EXCEPT ![d] = more]
    BY <1>2, <1>4, <1>5, <1>6, <2>1
  <2> QED  BY <2>2 DEF WriteChunk, Goto, sandboxVars, connVars
<1>9. PICK g \in 0..Len(q) : QueueInv(d, g) /\ TurnInv(d, cursor[d] - g)
  BY <1>1, <1>2 DEF DownloadInv
<1>10. PICK c \in Nat : c = cursor[d] - g /\ cursor[d] = c + g /\ TurnInv(d, c) /\ g \in Nat
  BY <1>1, <1>2, <1>9 DEF QueueInv
<1>11. /\ cursor[d] <= shown[d] /\ shown[d] <= Len(said)
       /\ \A i \in 1..g : q[i] = said[c + i]
       /\ \A i \in (g + 1)..Len(q) : q[i] = Failure
  <2>1. cursor[d] <= shown[d] /\ shown[d] <= Len(output[d])
    BY <1>1 DEF DownloadInv
  <2> QED  BY <1>2, <1>9, <1>10, <2>1 DEF QueueInv
<1>12. PICK h \in Nat : g = n + h
  <2>1. n <= g
    <3>1. SUFFICES ASSUME ~(n <= g) PROVE FALSE
      OBVIOUS
    <3>2. g + 1 \in (g + 1)..Len(q) /\ g + 1 \in 1..n
      <4>1. PICK len \in Nat : len = Len(q) /\ n <= len
        BY <1>2, <1>3
      <4>2. g \in Nat /\ g + 1 <= n
        BY <1>10, <3>1
      <4> QED  BY <4>1, <4>2
    <3>3. q[g + 1] = Failure
      BY <1>11, <3>2
    <3> QED  BY <1>3, <3>2, <3>3
  <2>2. g - n \in Nat /\ g = n + (g - n)
    BY <1>2, <1>10, <2>1
  <2> QED  BY <2>2
<1>13. /\ Said(d, c, n) /\ script[d] \notin {"none", "begun"} /\ stdin[d] = <<>>
  BY <1>2, <1>8, <1>10 DEF TurnInv
<1>14. /\ n = Smaller(ChunkSize, Len(file) - Len(old)) /\ Len(said) = c + n
       /\ taken[d] = Len(old) + n
       /\ \A i \in 1..n : said[c + i] = file[Len(old) + i]
  BY <1>2, <1>13 DEF Said
<1>15. /\ at'[d] = to /\ at' \in [Transfers -> CallStates]
       /\ queue'[d] = rest /\ queue' \in [Downloads -> Seq(Tokens)]
       /\ written'[d] = more /\ written' \in [Downloads -> Seq(Tokens)]
       /\ \A r \in Transfers \ {d} : at'[r] = at[r]
       /\ \A r \in Downloads \ {d} : queue'[r] = queue[r] /\ written'[r] = written[r]
  BY <1>1, <1>7, <1>8 DEF CallStates
<1>16. FileTypes'
  <2>1. at' \in [Transfers -> {"idle", "run", "send", "ask", "line", "data", "wait", "abort"} \cup Settled]
    BY <1>15 DEF CallStates
  <2> QED  BY <1>1, <1>8, <1>15, <2>1 DEF FileTypes, TypeOK
<1>17. Alone(d) /\ TargetIsWhole'
  BY <1>1, <1>8, <1>15 DEF Alone, TargetIsWhole, Source, Old
<1>18. QueueInv(d, h)'
  <2>1. h <= cursor[d] /\ cursor[d] - h = c + n
    <3>1. cursor[d] = c + (n + h)
      BY <1>10, <1>12
    <3> QED  BY <3>1
  <2>2. ASSUME NEW i \in 1..h PROVE rest[i] = said[c + n + i]
    <3>1. n + i \in 1..g /\ i \in 1..(Len(q) - n) /\ c + n + i = c + (n + i)
      <4>1. PICK len \in Nat : len = Len(q) /\ n + h <= len
        BY <1>2, <1>9, <1>12
      <4>2. n + i \in 1..(n + h) /\ i \in 1..(len - n) /\ c + n + i = c + (n + i)
        BY <4>1
      <4> QED  BY <1>12, <4>1, <4>2
    <3>2. rest[i] = q[n + i]
      BY <1>4, <3>1
    <3>3. q[n + i] = said[c + (n + i)]
      BY <1>11, <3>1
    <3> QED  BY <3>1, <3>2, <3>3
  <2>3. ASSUME NEW i \in (h + 1)..Len(rest) PROVE rest[i] = Failure
    <3>1. n + i \in (g + 1)..Len(q) /\ i \in 1..(Len(q) - n)
      <4>1. PICK len \in Nat : len = Len(q) /\ Len(rest) = len - n
        BY <1>2, <1>4
      <4>2. n + i \in ((n + h) + 1)..len /\ i \in 1..(len - n)
        BY <4>1
      <4> QED  BY <1>12, <4>1, <4>2
    <3>2. rest[i] = q[n + i]
      BY <1>4, <3>1
    <3>3. q[n + i] = Failure
      BY <1>11, <3>1
    <3> QED  BY <3>2, <3>3
  <2>4. link[d] # "down" => (h = Len(rest) /\ cursor[d] = shown[d]) \/ cursor[d] < shown[d]
    <3>1. g = Len(q) => h = Len(rest)
      <4>1. Len(rest) = Len(q) - n
        BY <1>4
      <4>2. (n + h) - n = h
        OBVIOUS
      <4> QED  BY <1>12, <4>1, <4>2
    <3> QED  BY <1>2, <1>9, <3>1 DEF QueueInv
  <2>5. \A i \in 1..h : rest[i] = output[d][cursor[d] - h + i]
    BY <1>2, <2>1, <2>2
  <2> QED  BY <1>8, <1>15, <2>1, <2>3, <2>4, <2>5 DEF QueueInv
<1>19. PICK len \in Nat, got \in Nat : len = Len(file) /\ got = Len(old) /\ got <= len
  <2>1. Len(written[d]) <= Len(opened[d])
    BY <1>1 DEF DownloadInv
  <2> QED  BY <1>2, <2>1
<1>20. /\ got + n <= len /\ (n < ChunkSize => got + n = len)
  <2>1. n = Smaller(ChunkSize, len - got)
    BY <1>14, <1>19
  <2> QED  BY <1>1, <1>2, <1>19, <2>1 DEF Smaller
<1>21. TurnInv(d, c + n)'
  <2>1. Len(more) = got + n /\ taken[d] = Len(more) /\ c + n = Len(said)
    BY <1>6, <1>14, <1>19
  <2>2. Quiet(d, c + n)'
    BY <1>2, <1>8, <1>15, <2>1 DEF Quiet
  <2>3. to = "wait" => Len(more) = Len(file)
    BY <1>7, <1>19, <1>20, <2>1
  <2> QED  BY <1>2, <1>8, <1>13, <1>15, <2>2, <2>3 DEF TurnInv
<1>22. TurnInv(d, cursor[d] - h)'
  <2>1. cursor'[d] - h = c + n
    BY <1>2, <1>8, <1>10, <1>12
  <2> QED  BY <1>21, <2>1
<1>23. h \in 0..Len(rest)
  BY <1>2, <1>4, <1>9, <1>12
<1>24. Len(more) <= Len(file) /\ \A i \in 1..Len(more) : more[i] = file[i]
  <2>1. Len(more) = got + n /\ Len(more) <= Len(file)
    BY <1>6, <1>19, <1>20
  <2>2. \A i \in 1..got : old[i] = file[i]
    BY <1>1, <1>2, <1>19 DEF DownloadInv
  <2>3. ASSUME NEW i \in 1..(got + n) PROVE more[i] = file[i]
    <3>1. CASE i \in 1..got
      BY <1>6, <1>19, <2>2, <3>1
    <3>2. CASE i \notin 1..got
      <4>1. PICK j \in 1..n : i = got + j
        <5>1. i - got \in 1..n /\ i = got + (i - got)
          BY <3>2, Positions
        <5> QED  BY <5>1
      <4>2. more[i] = chunk[j] /\ chunk[j] = q[j]
        <5>1. more[Len(old) + j] = chunk[j] /\ Len(old) = got
          BY <1>6, <1>19
        <5>2. chunk[j] = q[j]
          BY <1>5
        <5> QED  BY <4>1, <5>1, <5>2, ZenonT(30)
      <4>3. j \in 1..g
        BY <1>2, <1>12, <4>1
      <4>4. q[j] = said[c + j] /\ said[c + j] = file[got + j]
        BY <1>11, <1>14, <1>19, <4>1, <4>3
      <4> QED  BY <4>1, <4>2, <4>4
    <3> QED  BY <3>1, <3>2
  <2> QED  BY <2>1, <2>3
<1>25. DownloadInv(d)'
  BY <1>1, <1>2, <1>8, <1>13, <1>15, <1>18, <1>22, <1>23, <1>24 DEF DownloadInv
<1> QED  BY <1>1, <1>16, <1>17, <1>25, AloneFiles

-----------------------------------------------------------------------------
(* What is on its way stays as FilesInv says. *)

LEMMA InitFiles == Init => FilesInv
PROOF
<1> SUFFICES ASSUME Init PROVE FilesInv
  OBVIOUS
<1>1. /\ target \in {Old, NoFile} /\ temp = [u \in Uploads |-> NoFile]
      /\ script = [t \in Transfers |-> "none"] /\ at = [t \in Transfers |-> "idle"]
      /\ opened = [d \in Downloads |-> <<>>] /\ taken = [d \in Downloads |-> 0]
      /\ stdin = [t \in Transfers |-> <<>>] /\ output = [t \in Transfers |-> <<>>]
      /\ shown = [t \in Transfers |-> 0] /\ link = [t \in Transfers |-> "none"]
      /\ exit = [t \in Transfers |-> "none"] /\ given = [u \in Uploads |-> 0]
      /\ cursor = [d \in Downloads |-> 0] /\ queue = [d \in Downloads |-> <<>>]
      /\ need = [d \in Downloads |-> 0] /\ written = [d \in Downloads |-> <<>>]
      /\ moved = {} /\ orphaned = {}
  BY DEF Init
<1>2. /\ <<>> \in Seq(Tokens) /\ NoFile \in Seq(Tokens) /\ Len(<<>>) = 0 /\ Old \in Seq(Tokens)
      /\ 0 \in 0..ChunkSize /\ \A u \in Uploads : Size[u] \in Nat /\ 0 \in 0..Size[u]
  BY TokenTypes, ContentBlocks, SizesAssumption DEF Old
<1>3. FileTypes
  <2>1. /\ target \in Seq(Tokens) /\ temp \in [Uploads -> Seq(Tokens)]
        /\ opened \in [Downloads -> Seq(Tokens)] /\ taken \in [Downloads -> Nat]
        /\ stdin \in [Transfers -> Seq(Tokens)] /\ output \in [Transfers -> Seq(Tokens)]
        /\ shown \in [Transfers -> Nat] /\ given \in [Uploads -> Nat]
        /\ cursor \in [Downloads -> Nat] /\ queue \in [Downloads -> Seq(Tokens)]
        /\ need \in [Downloads -> 0..ChunkSize] /\ written \in [Downloads -> Seq(Tokens)]
    BY <1>1, <1>2
  <2>2. /\ script \in [Transfers -> Running \cup {"none", "ok", "bad"}] /\ at \in [Transfers -> CallStates]
        /\ link \in [Transfers -> {"none", "up", "down"}]
        /\ exit \in [Transfers -> {"none", "ok", "bad", "lost"}]
        /\ at \in [Transfers -> {"idle", "run", "send", "ask", "line", "data", "wait", "abort"} \cup Settled]
        /\ moved \subseteq Uploads /\ orphaned \subseteq Transfers
    BY <1>1 DEF CallStates
  <2>3. \A u \in Uploads : given[u] \in 0..Size[u]
    BY <1>1, <1>2
  <2> QED  BY <2>1, <2>2, <2>3 DEF FileTypes, TypeOK
<1>4. TargetIsWhole
  BY <1>1 DEF TargetIsWhole
<1>5. ASSUME NEW u \in Uploads PROVE UploadInv(u)
  <2>1. /\ script[u] = "none" /\ stdin[u] = <<>> /\ given[u] = 0 /\ at[u] = "idle"
    BY <1>1 DEF Transfers
  <2>2. StreamInv(u)
    BY <1>2, <2>1 DEF StreamInv, Stored
  <2> QED  BY <1>2, <2>1, <2>2 DEF UploadInv
<1>6. ASSUME NEW d \in Downloads PROVE DownloadInv(d)
  <2>1. /\ script[d] = "none" /\ stdin[d] = <<>> /\ at[d] = "idle" /\ output[d] = <<>> /\ shown[d] = 0
        /\ opened[d] = <<>> /\ taken[d] = 0 /\ cursor[d] = 0 /\ queue[d] = <<>> /\ written[d] = <<>>
        /\ link[d] = "none"
    BY <1>1 DEF Transfers
  <2>2. QueueInv(d, 0) /\ cursor[d] - 0 = 0
    BY <1>2, <2>1 DEF QueueInv
  <2>3. TurnInv(d, 0)
    BY <1>2, <2>1 DEF TurnInv, Quiet
  <2>4. 0 \in 0..Len(queue[d]) /\ QueueInv(d, 0) /\ TurnInv(d, cursor[d] - 0)
    BY <1>2, <2>1, <2>2, <2>3
  <2> QED  BY <1>2, <2>1, <2>4 DEF DownloadInv
<1> QED  BY <1>3, <1>4, <1>5, <1>6 DEF FilesInv

LEMMA StutterFiles ==
  ASSUME FilesInv, UNCHANGED vars
  PROVE  FilesInv'
PROOF
<1>1. /\ UNCHANGED <<target, temp, script, opened, taken, stdin, output, moved, shown, link, exit>>
      /\ UNCHANGED <<cursor, queue, need, written, at, given, orphaned>>
  BY DEF vars, sandboxVars, connVars, readerVars, callVars
<1>2. FileTypes' /\ TargetIsWhole'
  <2>1. FileTypes'
    BY <1>1 DEF FilesInv, FileTypes, TypeOK
  <2>2. TargetIsWhole'
    BY <1>1 DEF FilesInv, TargetIsWhole, Source, Old
  <2> QED  BY <2>1, <2>2
<1>3. \A u \in Uploads : UploadInv(u)'
  <2> SUFFICES ASSUME NEW u \in Uploads PROVE UploadInv(u)'
    OBVIOUS
  <2>1. UploadInv(u)
    BY DEF FilesInv
  <2>2. StreamInv(u) => StreamInv(u)'
    BY <1>1 DEF StreamInv, Stored
  <2> QED  BY <1>1, <2>1, <2>2 DEF UploadInv, Source
<1>4. ASSUME NEW d \in Downloads PROVE DownloadInv(d)'
  <2>1. DownloadInv(d)
    BY DEF FilesInv
  <2>2. PICK g \in 0..Len(queue[d]) : QueueInv(d, g) /\ TurnInv(d, cursor[d] - g)
    BY <2>1 DEF DownloadInv
  <2>3. PICK c : c = cursor[d] - g
    OBVIOUS
  <2>4. TurnInv(d, c)'
    BY <1>1, <2>2, <2>3, TurnRests
  <2>5. TurnInv(d, cursor[d] - g)' /\ QueueInv(d, g)'
    BY <1>1, <2>2, <2>3, <2>4 DEF QueueInv
  <2> QED  BY <1>1, <2>1, <2>5 DEF DownloadInv
<1> QED  BY <1>2, <1>3, <1>4 DEF FilesInv

LEMMA NextFiles ==
  ASSUME Inv, FilesInv, [Next]_vars
  PROVE  FilesInv'
PROOF
<1>1. CASE UNCHANGED vars
  BY <1>1, StutterFiles
<1>2. ASSUME NEW u \in Uploads, UploadScript(u) \/ UploadCall(u) PROVE FilesInv'
  BY <1>2, TruncateFiles, CatFiles, MoveFiles, SendFiles DEF UploadScript, UploadCall
<1>3. ASSUME NEW d \in Downloads, DownloadScript(d) \/ DownloadCall(d) \/ Outputs(d) PROVE FilesInv'
  <2>1. CASE ReadThrows(d)
    BY <2>1, GotoFiles DEF Transfers
  <2> QED  BY <1>3, <2>1, OpenFiles, ServeFiles, AskFiles, LineFiles, WriteFiles, OutputFiles
             DEF DownloadScript, DownloadCall
<1>4. ASSUME NEW t \in Transfers,
             \/ Begin(t) \/ Accept(t) \/ RunRejects(t) \/ Call(t) \/ OnExit(t) \/ ScriptFails(t)
             \/ \E kept \in 0..Len(stdin[t]) : Drop(t, kept)
      PROVE  FilesInv'
  BY <1>4, GotoFiles, ScriptFiles, ExitFiles DEF Call
<1>5. CASE Next
  BY <1>2, <1>3, <1>4, <1>5 DEF Next
<1> QED  BY <1>1, <1>5

LEMMA FilesInvariance == Spec => []FilesInv
PROOF
<1>1. Inv /\ FilesInv /\ [Next]_vars => FilesInv'
  BY NextFiles
<1> QED  BY <1>1, InitFiles, Invariance, PTL DEF Spec

\* The state of every transfer has the shape TypeOK gives it, in every state a
\* run reaches: no call sends more than its source has, no count is negative.
THEOREM TransferTypes == Spec => []TypeOK
PROOF
<1>1. FilesInv => TypeOK
  BY DEF FilesInv, FileTypes
<1> QED  BY <1>1, FilesInvariance, PTL

\* What a download has written, of one that has not started to one that has
\* resolved, is the beginning of the file its script opened.
LEMMA DownloadsAreExact == FilesInv => DownloadIsExact
PROOF
<1> SUFFICES ASSUME FilesInv, NEW d \in Downloads
             PROVE  /\ IsPrefix(written[d], opened[d])
                    /\ at[d] = "done" => written[d] = opened[d]
  BY DEF DownloadIsExact
<1>1. /\ written[d] \in Seq(Tokens) /\ opened[d] \in Seq(Tokens) /\ DownloadInv(d) /\ cursor[d] \in Nat
  BY DownloadTypes
<1>2. /\ Len(written[d]) <= Len(opened[d])
      /\ \A i \in 1..Len(written[d]) : written[d][i] = opened[d][i]
  BY <1>1 DEF DownloadInv
<1>3. IsPrefix(written[d], opened[d])
  <2>1. Len(written[d]) \in Nat /\ Len(opened[d]) \in Nat
    BY <1>1
  <2>2. PICK n \in Nat : n = Len(written[d]) /\ n <= Len(opened[d])
    BY <1>2, <2>1
  <2>3. n \in 0..Len(opened[d])
    BY <2>1, <2>2
  <2>4. /\ SubSeq(opened[d], 1, n) \in Seq(Tokens) /\ Len(SubSeq(opened[d], 1, n)) = n
        /\ \A i \in 1..n : SubSeq(opened[d], 1, n)[i] = opened[d][i]
    BY <1>1, <2>3, Divided
  <2>5. written[d] = SubSeq(opened[d], 1, n)
    BY <1>1, <1>2, <2>2, <2>4, SameSequence
  <2> QED  BY <1>2, <2>1, <2>2, <2>5 DEF IsPrefix
<1>4. ASSUME at[d] = "done" PROVE written[d] = opened[d]
  <2>1. Len(written[d]) = Len(opened[d])
    BY <1>1, <1>4 DEF DownloadInv, TurnInv
  <2> QED  BY <1>1, <1>2, <2>1, SameSequence
<1> QED  BY <1>3, <1>4

\* Whatever replaces the path meanwhile, whatever input or output is lost and
\* whichever command fails: the remote path has a whole file, the old one or
\* one upload's, and a download writes a beginning of the file its script
\* opened, all of it when it resolves.
THEOREM TransfersAreExact == Spec => []FilesAreExact
PROOF
<1>1. FilesInv => FilesAreExact
  BY DownloadsAreExact DEF FilesInv, FilesAreExact
<1> QED  BY <1>1, FilesInvariance, PTL
==============================================================================
