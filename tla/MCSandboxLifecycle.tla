-------------------------- MODULE MCSandboxLifecycle --------------------------
(* Small instances of SandboxLifecycle. *)
EXTENDS SandboxLifecycle

CONSTANTS one, two

TwoCallers == {one, two}

\* Each caller has a Sandbox object of its own, or both call the same one.
OwnHandle    == [c \in {one} |-> one]
SharedHandle == [c \in TwoCallers |-> one]
=============================================================================
