------------------------------- MODULE ClientCalls -------------------------------
(***************************************************************************)
(* The components a call of the client stands on and that share no state:  *)
(* operations of the SQLite adapter, repeated control-plane requests, the  *)
(* pool of HTTP clients, image builds, the interactive shell and the       *)
(* profiles of the command line.  A behaviour is one of a component, the   *)
(* subject; the others rest.                                               *)
(***************************************************************************)
EXTENDS SqliteOperation, ApiRequest, HttpPool, ImageBuild, SandboxShell, Profiles

VARIABLE subject

SqliteAlone == SqlNext /\ UNCHANGED <<subject, apiVars, poolVars, buildVars, shellVars, profileVars>>
RequestsAlone == ApiNext /\ UNCHANGED <<subject, sqlVars, poolVars, buildVars, shellVars, profileVars>>
PoolAlone == PoolNext /\ UNCHANGED <<subject, sqlVars, apiVars, buildVars, shellVars, profileVars>>
BuildAlone == BuildNext /\ UNCHANGED <<subject, sqlVars, apiVars, poolVars, shellVars, profileVars>>
ShellAlone == ShellNext /\ UNCHANGED <<subject, sqlVars, apiVars, poolVars, buildVars, profileVars>>
ProfilesAlone == ProfilesNext /\ UNCHANGED <<subject, sqlVars, apiVars, poolVars, buildVars, shellVars>>

Init ==
  /\ subject \in {"sqlite", "requests", "pool", "build", "shell", "profiles"}
  /\ SqlInit /\ ApiInit /\ PoolInit /\ BuildInit /\ ShellInit /\ ProfilesInit
  /\ subject # "sqlite" => exists
  /\ subject # "pool" => keyOf = CHOOSE k \in [Transports -> PoolKeys] : TRUE
  /\ subject # "profiles" => config = EmptyConfig

Next ==
  \/ subject = "sqlite" /\ SqliteAlone
  \/ subject = "requests" /\ RequestsAlone
  \/ subject = "pool" /\ PoolAlone
  \/ subject = "build" /\ BuildAlone
  \/ subject = "shell" /\ ShellAlone
  \/ subject = "profiles" /\ ProfilesAlone

Spec == Init /\ [][Next]_<<subject, sqlVars, apiVars, poolVars, buildVars, shellVars, profileVars>>

\* Every component keeps its type.
CallsTypeOK == SqlTypeOK /\ ApiTypeOK /\ PoolTypeOK /\ BuildTypeOK /\ ShellTypeOK /\ ProfilesTypeOK
================================================================================
