------------------------------ MODULE MCArchilFs ------------------------------
(***************************************************************************)
(* Instances of ArchilFs for TLC.  The tree:                               *)
(*   /d/f, a file; /d/s, a link to ../e; /e/k, a file; /e/g, a link to     *)
(*   ../d/f.                                                               *)
(* /d/s/g leads to /d/f through a linked directory and a relative link.    *)
(***************************************************************************)
EXTENDS ArchilFs, TLC

MCTree ==
  <<Directory([d |-> 2, e |-> 3]),
    Directory([f |-> 4, s |-> 5]),
    Directory([k |-> 6, g |-> 7]),
    File(<<Old, Old>>),
    Link(FALSE, <<"..", "e">>),
    File(<<Old, Old>>),
    Link(FALSE, <<"..", "d", "f">>)>>

f == <<"d", "f">>
New == <<"d", "n">>

MCPaths == {f, <<"e", "k">>, <<"e", "g">>, <<"d", "s">>, <<"d", "s", "k">>}
MCPathsThroughLinks == MCPaths \cup {<<"d", "s", "g">>}

\* Every operation, on paths that meet.
MCRequests ==
  {ReadFile(f), ReadFile(<<"e", "g">>), WriteFile(f), WriteFile(<<"e", "g">>), WriteFile(New),
   AppendFile(f), AppendFile(New), Rm(<<"d">>, {"recursive", "force"}), Rm(<<"d", "s">>, {}),
   Rm(<<"d">>, {}), Cp(f, <<"e", "k">>), Cp(<<"d">>, <<"c">>), Mv(f, <<"e", "m">>), Mv(New, f),
   MkdirAll(<<"c", "x">>, 1), Mkdir(<<"c">>), MakeLink(New, Link(TRUE, f))}

=============================================================================
