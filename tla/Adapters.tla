-------------------------------- MODULE Adapters --------------------------------
(***************************************************************************)
(* The components that put a directory tree on the client and that share   *)
(* no state: the just-bash file system, the Eve backend and workspaces     *)
(* over several disks.  A behaviour is one of a component, the subject;    *)
(* the others rest.                                                        *)
(***************************************************************************)
EXTENDS ArchilFs, EveBackend, Workspace

VARIABLE subject

FsAlone == FsNext /\ UNCHANGED <<subject, eveVars, wsVars>>
EveAlone == EveNext /\ UNCHANGED <<subject, fsVars, wsVars>>
WorkspaceAlone == WsNext /\ UNCHANGED <<subject, fsVars, eveVars>>

Init ==
  /\ subject \in {"fs", "eve", "workspace"}
  /\ FsInit /\ EveInit /\ WsInit
  /\ subject # "eve" => templated

Next ==
  \/ subject = "fs" /\ FsAlone
  \/ subject = "eve" /\ EveAlone
  \/ subject = "workspace" /\ WorkspaceAlone

Spec == Init /\ [][Next]_<<subject, fsVars, eveVars, wsVars>>

\* Every component keeps its type.
AdaptersTypeOK == FsTypeOK /\ EveTypeOK /\ WsTypeOK
=============================================================================
