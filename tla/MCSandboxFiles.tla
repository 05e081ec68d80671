---------------------------- MODULE MCSandboxFiles ----------------------------
EXTENDS SandboxFiles

CONSTANTS long, short, down

\* An upload of two chunks and one of a single chunk, to the path of a download.
MCUploads == {long, short}
MCSize == [u \in MCUploads |-> IF u = long THEN 2 ELSE 1]

\* One upload of two chunks.
MCOneSize == [u \in {long} |-> 2]
=============================================================================
