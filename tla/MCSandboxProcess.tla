--------------------------- MODULE MCSandboxProcess ---------------------------
(* Small instances of SandboxProcess. *)
EXTENDS SandboxProcess

CONSTANTS first, second

TwoHandles == {first, second}

\* Two bytes that one frame can hold, then the other stream.
MCLog == <<"stdout", "stdout", "stderr">>

MCShortLog == <<"stdout">>
=============================================================================
