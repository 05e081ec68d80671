------------------------------ MODULE SandboxShell ------------------------------
(***************************************************************************)
(* The interactive shell of the command line                               *)
(* (packages/disk/src/cli/sandbox-shell.ts): the terminal is put into raw  *)
(* mode, signals are caught, and the call ends with the first of: the exit *)
(* of the remote shell, the answer to a kill, a failure.  A second signal  *)
(* ends the program at once.                                               *)
(***************************************************************************)
EXTENDS Naturals

VARIABLES
  shell,     \* where runSandboxShell is, or how the program ended
  remote,    \* the process in the sandbox
  raw,       \* whether the terminal is in raw mode
  listening, \* whether the listeners are there
  terminating,     \* terminationRequested
  kill,      \* the kill request
  race       \* which promise of the race settled first

shellVars == <<shell, remote, raw, listening, terminating, kill, race>>

ShellOver == {"ended", "forced", "killed"}

ShellTypeOK ==
  /\ shell \in {"idle", "opening", "open", "closing", "leaving"} \cup ShellOver
  /\ remote \in {"none", "running", "exited"}
  /\ raw \in BOOLEAN /\ listening \in BOOLEAN /\ terminating \in BOOLEAN
  /\ kill \in {"none", "sent", "done", "failed"}
  /\ race \in {"none", "exit", "terminated", "failure"}

ShellInit ==
  /\ shell = "idle" /\ remote = "none" /\ raw = FALSE /\ listening = FALSE
  /\ terminating = FALSE /\ kill = "none" /\ race = "none"

Settles(how) == race' = IF race = "none" THEN how ELSE race

RunShell ==
  /\ shell = "idle" /\ shell' = "opening"
  /\ UNCHANGED <<remote, raw, listening, terminating, kill, race>>

\* sandbox.run(): the command starts, and its answer comes or does not.
Starts ==
  /\ shell = "opening" /\ remote = "none" /\ remote' = "running"
  /\ UNCHANGED <<shell, raw, listening, terminating, kill, race>>

\* run() resolves: setRawMode, the listeners and the banner follow at once.
RunResolves ==
  /\ shell = "opening" /\ remote # "none"
  /\ raw' = TRUE /\ listening' = TRUE /\ shell' = "open"
  /\ UNCHANGED <<remote, terminating, kill, race>>

RunRejects ==
  /\ shell = "opening" /\ shell' = "ended"
  /\ UNCHANGED <<remote, raw, listening, terminating, kill, race>>

\* Any of these may throw: to the finally block.
SetupThrows ==
  /\ shell = "opening" /\ remote # "none"
  /\ race' = "failure" /\ kill' = "sent" /\ shell' = "closing"
  /\ UNCHANGED <<remote, raw, listening, terminating>>

RemoteExits ==
  /\ remote = "running" /\ remote' = "exited"
  /\ UNCHANGED <<shell, raw, listening, terminating, kill, race>>

WaitResolves ==
  /\ shell = "open" /\ remote = "exited" /\ Settles("exit")
  /\ UNCHANGED <<shell, remote, raw, listening, terminating, kill>>

\* The connection ends, input or a resize cannot be sent, output cannot be
\* written.
Fails ==
  /\ shell = "open" /\ Settles("failure")
  /\ UNCHANGED <<shell, remote, raw, listening, terminating, kill>>

\* requestTermination: a signal, or Ctrl+].
Terminate ==
  /\ shell = "open" /\ listening /\ ~terminating
  /\ terminating' = TRUE /\ kill' = "sent"
  /\ UNCHANGED <<shell, remote, raw, listening, race>>

Restored == raw' = FALSE /\ listening' = FALSE

TerminateAgain ==
  /\ shell = "open" /\ listening /\ terminating
  /\ Restored /\ shell' = "forced"
  /\ UNCHANGED <<remote, terminating, kill, race>>

\* With no listener a signal ends the program, in the midst of an await.
SignalKills ==
  /\ shell \in {"opening", "closing", "leaving"}
  /\ shell' = "killed" /\ UNCHANGED <<remote, raw, listening, terminating, kill, race>>

\* The kill is executed, and answered, on its own time.
KillArrives ==
  /\ kill = "sent" /\ remote = "running" /\ remote' = "exited"
  /\ UNCHANGED <<shell, raw, listening, terminating, kill, race>>

KillReturns(how) ==
  /\ kill = "sent" /\ shell \notin ShellOver
  /\ how = "done" => remote = "exited"
  /\ kill' = how
  /\ IF shell = "open" THEN Settles(IF how = "done" THEN "terminated" ELSE "failure") ELSE UNCHANGED race
  /\ shell' = IF shell = "closing" THEN "leaving" ELSE shell
  /\ UNCHANGED <<remote, raw, listening, terminating>>

\* The finally block: the terminal is restored, and a shell that did not end
\* and was not asked to is killed.
MustKill_WhenAsked == race = "failure" /\ terminating
MustKill == race = "failure" /\ ~terminating

Finally ==
  /\ shell = "open" /\ race # "none"
  /\ Restored
  /\ IF MustKill THEN kill' = "sent" /\ shell' = "closing" ELSE shell' = "leaving" /\ UNCHANGED kill
  /\ UNCHANGED <<remote, terminating, race>>

Disconnects ==
  /\ shell = "leaving" /\ shell' = "ended"
  /\ UNCHANGED <<remote, raw, listening, terminating, kill, race>>

ShellNext ==
  \/ RunShell \/ Starts \/ RunResolves \/ RunRejects \/ SetupThrows
  \/ RemoteExits \/ WaitResolves \/ Fails \/ Terminate \/ TerminateAgain \/ SignalKills
  \/ KillArrives \/ Finally \/ Disconnects
  \/ \E how \in {"done", "failed"} : KillReturns(how)

ShellSpec == ShellInit /\ [][ShellNext]_shellVars

\* However the shell ends, the terminal is as it was before, nothing listens,
\* and the remote shell is over or was sent a kill; only a program that ended
\* before run() resolved knows of none to kill.  A result says what happened:
\* an exit is one, and "cancelled" means that the kill was answered.
LeavesNothingBehind ==
  /\ shell \in ShellOver /\ (race # "none" \/ listening \/ shell = "forced") => remote = "exited" \/ kill # "none"
  /\ shell \in {"ended", "forced"} => ~raw /\ ~listening
  /\ race = "exit" => remote = "exited"
  /\ race = "terminated" => kill = "done" /\ remote = "exited"

=============================================================================
