----------------------------- MODULE SandboxFiles -----------------------------
(***************************************************************************)
(* File transfers through a sandbox process                                *)
(* (packages/disk/src/sandbox-files.ts): several uploadFile and            *)
(* downloadFile calls on one remote path.  Each runs a shell script in the *)
(* sandbox and speaks to it through stdin and output; both scripts are     *)
(* constants of the source file and are modelled step by step.             *)
(*                                                                         *)
(* A file is a sequence of blocks.  The process handle is taken from       *)
(* SandboxProcess: output comes in order with its offset, a gap shows in   *)
(* the offset, wait() settles with the exit or when the connection ends,   *)
(* and a connection that ends gives the script no end of input.            *)
(***************************************************************************)
EXTENDS Naturals, Sequences, SequencesExt

CONSTANTS
  Uploads, Downloads,  \* the calls
  Size,                \* how many blocks each upload's source yields
  OldSize,             \* the blocks of the file that is there before
  ChunkSize,           \* DOWNLOAD_CHUNK_BYTES, in blocks
  Unreliable,          \* the transfers whose connections may fail
  Faulty               \* those whose script, source or writer may fail

ASSUME TransfersAssumption ==
  /\ Uploads \cap Downloads = {} /\ Unreliable \cup Faulty \subseteq Uploads \cup Downloads
ASSUME SizesAssumption ==
  Size \in [Uploads -> Nat] /\ OldSize \in Nat /\ ChunkSize \in Nat \ {0}

VARIABLES
  target,   \* sandbox: the file at the remote path
  temp,     \* sandbox: the temporary files of the uploads
  script,   \* sandbox: where each transfer's script is
  opened,   \* sandbox: the file behind descriptor 3 of a download's script
  taken,    \* sandbox: how much of it the script has read
  stdin,    \* input on its way to the script
  output,   \* what the script has written, the sizes and the blocks
  shown,    \* runtime: how much of the output it is done with
  link,     \* the connection of the process handle
  exit,     \* how wait() of the handle settled
  at,       \* where the call is
  given,    \* the blocks an upload has sent
  cursor,   \* the reader's _cursor
  queue,    \* the reader's _buffer and _chunks
  need,     \* the size a download was told
  written,  \* the blocks passed to its writer
  moved,    \* history: the uploads whose script has replaced the target
  orphaned  \* history: the transfers that settled without a way to kill

sandboxVars == <<target, temp, script, opened, taken, stdin, output, moved>>
connVars    == <<shown, link, exit>>
readerVars  == <<cursor, queue, need, written>>
callVars    == <<at, given, orphaned>>
vars == <<sandboxVars, connVars, readerVars, callVars>>

Transfers == Uploads \cup Downloads
Smaller(a, b) == IF a < b THEN a ELSE b

Block(by, n)     == [by |-> by, n |-> n]
Content(by, len) == [i \in 1..len |-> Block(by, i)]
Old        == Content("old", OldSize)
Source(u)  == Content(u, Size[u])
SizeLine(n) == Block("size", n)
CountLine   == Block("count", ChunkSize)
EndOfInput  == Block("eof", 0)
Failure     == Block("error", 0)

Tokens  == [by : Uploads \cup {"old", "size", "count", "eof", "error"}, n : Nat]
NoFile  == <<EndOfInput>>
Running == {"begun", "cat", "move", "serve"}
Settled == {"done", "failed"}

TypeOK ==
  /\ target \in Seq(Tokens)
  /\ temp \in [Uploads -> Seq(Tokens)]
  /\ script \in [Transfers -> Running \cup {"none", "ok", "bad"}]
  /\ opened \in [Downloads -> Seq(Tokens)] /\ taken \in [Downloads -> Nat]
  /\ stdin \in [Transfers -> Seq(Tokens)]
  /\ output \in [Transfers -> Seq(Tokens)] /\ shown \in [Transfers -> Nat]
  /\ link \in [Transfers -> {"none", "up", "down"}]
  /\ exit \in [Transfers -> {"none", "ok", "bad", "lost"}]
  /\ at \in [Transfers -> {"idle", "run", "send", "ask", "line", "data", "wait", "abort"} \cup Settled]
  /\ \A u \in Uploads : given[u] \in 0..Size[u]
  /\ cursor \in [Downloads -> Nat] /\ queue \in [Downloads -> Seq(Tokens)]
  /\ need \in [Downloads -> 0..ChunkSize] /\ written \in [Downloads -> Seq(Tokens)]
  /\ moved \subseteq Uploads /\ orphaned \subseteq Transfers

Init ==
  /\ target \in {Old, NoFile}
  /\ temp = [u \in Uploads |-> NoFile]
  /\ script = [t \in Transfers |-> "none"]
  /\ opened = [d \in Downloads |-> <<>>] /\ taken = [d \in Downloads |-> 0]
  /\ stdin = [t \in Transfers |-> <<>>]
  /\ output = [t \in Transfers |-> <<>>] /\ shown = [t \in Transfers |-> 0]
  /\ link = [t \in Transfers |-> "none"]
  /\ exit = [t \in Transfers |-> "none"]
  /\ at = [t \in Transfers |-> "idle"]
  /\ given = [u \in Uploads |-> 0]
  /\ cursor = [d \in Downloads |-> 0] /\ queue = [d \in Downloads |-> <<>>]
  /\ need = [d \in Downloads |-> 0] /\ written = [d \in Downloads |-> <<>>]
  /\ moved = {} /\ orphaned = {}

-----------------------------------------------------------------------------
(* The scripts. *)

Step(t, from, to) == script[t] = from /\ script' = [script EXCEPT ![t] = to]

\* The runtime accepts the start request of run().
Accept(t) ==
  /\ at[t] = "run" /\ Step(t, "none", "begun")
  /\ UNCHANGED <<target, temp, opened, taken, stdin, output, moved, connVars, readerVars, callVars>>

\* ARCHIL_FILE_TEMP, which ends in a transferId().
TempName(u) == u

\* UPLOAD_COMMAND: ": > temp".
Truncate(u) ==
  /\ Step(u, "begun", "cat")
  /\ temp' = [temp EXCEPT ![TempName(u)] = <<>>]
  /\ UNCHANGED <<target, opened, taken, stdin, output, moved, connVars, readerVars, callVars>>

\* "cat > temp", which ends at the end of the input.
Cat(u) ==
  /\ script[u] = "cat" /\ stdin[u] # <<>>
  /\ stdin' = [stdin EXCEPT ![u] = Tail(@)]
  /\ IF Head(stdin[u]) = EndOfInput
     THEN script' = [script EXCEPT ![u] = "move"] /\ UNCHANGED temp
     ELSE temp' = [temp EXCEPT ![TempName(u)] = Append(@, Head(stdin[u]))] /\ UNCHANGED script
  /\ UNCHANGED <<target, opened, taken, output, moved, connVars, readerVars, callVars>>

\* chmod and mv.
Move(u) ==
  /\ Step(u, "move", "ok")
  /\ target' = temp[TempName(u)]
  /\ temp' = [temp EXCEPT ![TempName(u)] = NoFile]
  /\ moved' = moved \cup {u}
  /\ UNCHANGED <<opened, taken, stdin, output, connVars, readerVars, callVars>>

\* DOWNLOAD_COMMAND: "exec 3< path"; set -e ends the script if there is none.
Open(d) ==
  /\ Step(d, "begun", IF target = NoFile THEN "bad" ELSE "serve")
  /\ opened' = [opened EXCEPT ![d] = IF target = NoFile THEN @ ELSE target]
  /\ UNCHANGED <<target, temp, taken, stdin, output, moved, connVars, readerVars, callVars>>

ReadFrom_Path(d) == target

\* What "dd <&3" reads from.
ReadFrom(d) == opened[d]

\* One turn of the loop: a count, the size and the blocks of the next chunk.
ServeChunk(d) ==
  LET rest == SubSeq(ReadFrom(d), taken[d] + 1, Len(ReadFrom(d)))
      chunk == SubSeq(rest, 1, Smaller(stdin[d][1].n, Len(rest)))
  IN /\ stdin[d] # <<>>
     /\ Step(d, "serve", IF Len(chunk) = stdin[d][1].n THEN "serve" ELSE "ok")
     /\ output' = [output EXCEPT ![d] = @ \o <<SizeLine(Len(chunk))>> \o chunk]
     /\ taken' = [taken EXCEPT ![d] = @ + Len(chunk)]
     /\ stdin' = [stdin EXCEPT ![d] = Tail(@)]
     /\ UNCHANGED <<target, temp, opened, moved, connVars, readerVars, callVars>>

\* A command fails: set -e ends the script, its trap removes the temporary file.
ScriptFails(t) ==
  /\ t \in Faulty /\ script[t] \in Running
  /\ script' = [script EXCEPT ![t] = "bad"]
  /\ temp' = IF t \in Uploads THEN [temp EXCEPT ![TempName(t)] = NoFile] ELSE temp
  /\ UNCHANGED <<target, opened, taken, stdin, output, moved, connVars, readerVars, callVars>>

-----------------------------------------------------------------------------
(* The connection, and the callbacks of ProcessOutputReader. *)

Expected_Anything(d, offset) == TRUE

\* onOutput takes only what follows what it has.
Expected(d, offset) == offset = cursor[d]

\* A frame of output, up to hi, from the first block still retained, lo + 1.
OnOutput(d, lo, hi) ==
  /\ link[d] = "up" /\ lo < hi /\ hi <= Len(output[d])
  /\ lo = shown[d] \/ (d \in Unreliable /\ lo > shown[d])
  /\ shown' = [shown EXCEPT ![d] = hi]
  /\ IF Expected(d, lo)
     THEN /\ cursor' = [cursor EXCEPT ![d] = @ + (hi - lo)]
          /\ queue' = [queue EXCEPT ![d] = @ \o SubSeq(output[d], lo + 1, hi)]
     ELSE queue' = [queue EXCEPT ![d] = Append(@, Failure)] /\ UNCHANGED cursor
  /\ UNCHANGED <<link, exit, need, written, sandboxVars, callVars>>

\* The handle's wait() settles; attach() hands an error to the reader.
Exits(t, how) ==
  /\ link[t] = "up"
  /\ link' = [link EXCEPT ![t] = "down"]
  /\ exit' = [exit EXCEPT ![t] = how]
  /\ queue' = IF t \in Downloads THEN [queue EXCEPT ![t] = Append(@, Failure)] ELSE queue
  /\ UNCHANGED <<shown, cursor, need, written>>

\* The exit event, behind all the output.
OnExit(t) ==
  /\ script[t] \in {"ok", "bad"} /\ shown[t] = Len(output[t])
  /\ Exits(t, script[t])
  /\ UNCHANGED <<sandboxVars, callVars>>

\* The connection ends; input that is still on its way may be lost.
Drop(t, kept) ==
  /\ t \in Unreliable /\ kept \in 0..Len(stdin[t])
  /\ Exits(t, "lost")
  /\ stdin' = [stdin EXCEPT ![t] = SubSeq(@, 1, kept)]
  /\ UNCHANGED <<target, temp, script, opened, taken, output, moved, callVars>>

-----------------------------------------------------------------------------
(* The calls. *)

Goto(t, from, to) == at[t] = from /\ at' = [at EXCEPT ![t] = to]

Begin(t) ==
  /\ Goto(t, "idle", "run")
  /\ UNCHANGED <<given, orphaned, sandboxVars, connVars, readerVars>>

\* run() resolves.
RunResolves(t) ==
  /\ script[t] # "none" /\ Goto(t, "run", IF t \in Uploads THEN "send" ELSE "ask")
  /\ link' = [link EXCEPT ![t] = "up"]
  /\ UNCHANGED <<shown, exit, given, orphaned, sandboxVars, readerVars>>

\* run() rejects, whether the script was started or not: there is no handle.
RunRejects(t) ==
  /\ t \in Unreliable /\ Goto(t, "run", "failed")
  /\ orphaned' = orphaned \cup {t}
  /\ UNCHANGED <<given, sandboxVars, connVars, readerVars>>

Sends(t, token) ==
  /\ link[t] = "up"
  /\ stdin' = [stdin EXCEPT ![t] = Append(@, token)]
  /\ UNCHANGED <<target, temp, script, opened, taken, output, moved>>

HasMore_OffByOne(u) == given[u] <= Size[u]

\* fileChunks() has another chunk.
HasMore(u) == given[u] < Size[u]

SendChunk(u) ==
  /\ at[u] = "send" /\ HasMore(u)
  /\ Sends(u, Block(u, given[u] + 1))
  /\ given' = [given EXCEPT ![u] = @ + 1]
  /\ UNCHANGED <<at, orphaned, connVars, readerVars>>

CloseStdin(u) ==
  /\ Goto(u, "send", "wait") /\ ~HasMore(u)
  /\ Sends(u, EndOfInput)
  /\ UNCHANGED <<given, orphaned, connVars, readerVars>>

AskChunk(d) ==
  /\ Goto(d, "ask", "line")
  /\ Sends(d, CountLine)
  /\ UNCHANGED <<given, orphaned, connVars, readerVars>>

\* sendInput() or closeStdin() throws on a connection that has ended, and the
\* source of an upload may throw.
SendThrows(t) ==
  /\ \/ Goto(t, "send", "abort") /\ (link[t] = "down" \/ t \in Faulty)
     \/ Goto(t, "ask", "abort") /\ link[t] = "down"
  /\ UNCHANGED <<given, orphaned, sandboxVars, connVars, readerVars>>

\* readLine(): the size of the next chunk.
ReadLine(d) ==
  /\ queue[d] # <<>>
  /\ LET line == Head(queue[d]) IN
     /\ line.by = "size" /\ line.n <= ChunkSize
     /\ Goto(d, "line", IF line.n = 0 THEN "wait" ELSE "data")
     /\ need' = [need EXCEPT ![d] = line.n]
  /\ queue' = [queue EXCEPT ![d] = Tail(@)]
  /\ UNCHANGED <<cursor, written, given, orphaned, sandboxVars, connVars>>

\* read() meets an error among the blocks it waits for.
Spoiled(d) == \E i \in 1..Len(queue[d]) : i <= need[d] /\ queue[d][i] = Failure

\* read() and the writer's call, which may throw.
WriteChunk(d) ==
  /\ Len(queue[d]) >= need[d] /\ ~Spoiled(d)
  /\ queue' = [queue EXCEPT ![d] = SubSeq(@, need[d] + 1, Len(@))]
  /\ written' = [written EXCEPT ![d] = @ \o SubSeq(queue[d], 1, need[d])]
  /\ \/ Goto(d, "data", IF need[d] < ChunkSize THEN "wait" ELSE "ask")
     \/ Goto(d, "data", "abort") /\ d \in Faulty
  /\ UNCHANGED <<cursor, need, given, orphaned, sandboxVars, connVars>>

\* The reader reaches an error before it has what it reads, or what it reads
\* as a size is none.
ReadThrows(d) ==
  /\ \/ /\ Goto(d, "line", "abort")
        /\ queue[d] # <<>> /\ Head(queue[d]).by # "size"
     \/ Goto(d, "data", "abort") /\ Spoiled(d)
  /\ UNCHANGED <<given, orphaned, sandboxVars, connVars, readerVars>>

Successful_Unchecked(t) == exit[t] # "lost"

\* assertSuccessful.
Successful(t) == exit[t] = "ok"

\* wait(); the handle is disconnected once its process has exited.
WaitReturns(t) ==
  /\ exit[t] # "none" /\ Goto(t, "wait", IF Successful(t) THEN "done" ELSE "abort")
  /\ UNCHANGED <<given, orphaned, sandboxVars, connVars, readerVars>>

Kills_Never(t) == FALSE

\* kill() does nothing once the exit is known.
Kills(t) == exit[t] \notin {"ok", "bad"}

\* abort(), whose failure is dropped, and disconnect().
Abort(t) ==
  /\ Goto(t, "abort", "failed")
  /\ link' = [link EXCEPT ![t] = "down"]
  /\ \/ /\ script' = IF Kills(t) /\ script[t] \in Running THEN [script EXCEPT ![t] = "bad"] ELSE script
        /\ UNCHANGED orphaned
     \/ /\ t \in Unreliable /\ Kills(t)
        /\ orphaned' = orphaned \cup {t}
        /\ UNCHANGED script
  /\ UNCHANGED <<shown, exit, given, target, temp, opened, taken, stdin, output, moved, readerVars>>

-----------------------------------------------------------------------------
UploadScript(u) == Truncate(u) \/ Cat(u) \/ Move(u)
DownloadScript(d) == Open(d) \/ ServeChunk(d)

UploadCall(u) == SendChunk(u) \/ CloseStdin(u)
DownloadCall(d) == AskChunk(d) \/ ReadLine(d) \/ WriteChunk(d) \/ ReadThrows(d)
Call(t) == RunResolves(t) \/ SendThrows(t) \/ WaitReturns(t) \/ Abort(t)

Outputs(d) == \E lo, hi \in 0..Len(output[d]) : OnOutput(d, lo, hi)

Next ==
  \/ \E u \in Uploads : UploadScript(u) \/ UploadCall(u)
  \/ \E d \in Downloads : DownloadScript(d) \/ DownloadCall(d) \/ Outputs(d)
  \/ \E t \in Transfers :
       \/ Begin(t) \/ Accept(t) \/ RunRejects(t) \/ Call(t) \/ OnExit(t) \/ ScriptFails(t)
       \/ \E kept \in 0..Len(stdin[t]) : Drop(t, kept)

Spec == Init /\ [][Next]_vars

-----------------------------------------------------------------------------
(* Safety. *)

\* The remote path never shows part of an upload or a mixture of two: it has
\* the file it had before or the whole source of one upload.
TargetIsWhole == target \in {Old, NoFile} \cup {Source(u) : u \in Uploads}

\* An uploadFile() that resolves has replaced the remote file.
UploadIsPublished == \A u \in Uploads : at[u] = "done" => u \in moved

\* A downloadFile() writes the file its script opened, in order and without a
\* gap, whatever replaces the path meanwhile; when it resolves, all of it.
DownloadIsExact ==
  \A d \in Downloads :
    /\ IsPrefix(written[d], opened[d])
    /\ at[d] = "done" => written[d] = opened[d]

\* Both directions transfer whole files or leave what was there (uploadFile and
\* downloadFile with their scripts).
FilesAreExact == TargetIsWhole /\ DownloadIsExact

\* A call that has settled leaves no script running, unless the kill failed or
\* run() rejected and left nothing to kill.
SettledIsOver ==
  \A t \in Transfers : at[t] \in Settled /\ script[t] \in Running => t \in orphaned

-----------------------------------------------------------------------------
(* Liveness: scripts and calls proceed, and the runtime serves a connection. *)

Fairness ==
  /\ \A u \in Uploads : WF_vars(UploadScript(u)) /\ WF_vars(UploadCall(u))
  /\ \A d \in Downloads :
       WF_vars(DownloadScript(d)) /\ WF_vars(DownloadCall(d)) /\ WF_vars(Outputs(d))
  /\ \A t \in Transfers : WF_vars(Accept(t)) /\ WF_vars(Call(t)) /\ WF_vars(OnExit(t))

FairSpec == Spec /\ Fairness

\* Every transfer settles: no side waits for input or output the other will
\* never send.
EveryTransferSettles == \A t \in Transfers : at[t] # "idle" ~> at[t] \in Settled
=============================================================================
