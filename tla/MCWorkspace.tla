------------------------------ MODULE MCWorkspace ------------------------------
(***************************************************************************)
(* Instances of Workspace for TLC: two mounts, one of them a subdirectory, *)
(* and a third that replaces one of them.                                  *)
(***************************************************************************)
EXTENDS Workspace

Mounted(name, disk, sub, readOnly) == [name |-> name, disk |-> disk, sub |-> sub, readOnly |-> readOnly]

MCSegments == {"", ".", "..", ".git", "a", "s", "t", "z", "x", "data", "logs", "more", "*", "**"}
MCKeys == <<<<".git", "a">>, <<"a">>, <<"s", "a">>, <<"s", "t", "a">>, <<"s", "z">>>>
MCInitialKeys == [d1 |-> {<<"a">>, <<".git", "a">>}, d2 |-> {<<"a">>, <<"s", "t", "a">>, <<"s", "z">>}]
MCInitialMounts == <<Mounted("data", "d1", <<>>, FALSE), Mounted("logs", "d2", <<"s">>, FALSE)>>
MCNewMounts == {Mounted("logs", "d1", <<"s">>, TRUE), Mounted("more", "d2", <<>>, FALSE)}
MCObjects == {<<"data", "s", "a">>, <<"", "data", "a">>, <<"..", "logs", "t", "..", "z">>}

MCListings ==
  {Listing(<<>>, FALSE), Listing(<<"">>, TRUE), Listing(<<"logs">>, FALSE), Listing(<<"x", "..", "data">>, TRUE),
   Listing(<<"more">>, TRUE), DiskListing("logs", 1), GlobIn(<<>>, <<"a">>, FALSE, 2),
   GlobIn(<<"data">>, <<"s", "*">>, FALSE, 3), GlobIn(<<"logs">>, <<"*", "z">>, TRUE, 3)}

Files3 == {<<"a">>, <<"logs">>, <<"logs", "a">>, <<"s", "a">>, <<"s", "logs", "a">>, <<"s", "t", "a">>}
Bodies == {<<"a">>, <<"logs">>, <<"logs", "a">>, <<"data", "s">>, <<"logs", "**">>, <<"**", "a">>, <<"**", "logs">>,
           <<"**", "logs", "**">>, <<"**", "*">>, <<"**", "*", "a">>}
Wildcards == {GlobPattern(neg, FALSE, <<w>>, dirOnly) : neg \in BOOLEAN, w \in {"*", "**"}, dirOnly \in BOOLEAN}
Globs == {GlobPattern(neg, FALSE, body, FALSE) : neg \in BOOLEAN, body \in Bodies}
           \cup {GlobPattern(neg, TRUE, body, FALSE) : neg \in BOOLEAN, body \in {<<"logs">>, <<"x">>, <<"**", "logs">>}}
           \cup {GlobPattern(neg, FALSE, body, TRUE) : neg \in BOOLEAN, body \in {<<"logs">>, <<"data", "s">>}}
MCGlobLists == {<<g>> : g \in Globs \cup Wildcards} \cup ((Globs \cup Wildcards) \X (Globs \cup Wildcards))
OutOf(names) == {GlobPattern(TRUE, TRUE, <<n>>, FALSE) : n \in names}
\* The two disks together find more matches than a search may return.
MCGreps ==
  {GrepIn(<<"data">>, <<>>, 3, 1, FALSE), GrepIn(<<>>, <<>>, 1, 0, TRUE)}
    \cup {GrepIn(<<>>, <<g>>, 3, 1, FALSE) : g \in OutOf({"logs", "x"})}
MCAnswers == {<<>>, <<<<FALSE, TRUE, TRUE>>>>}
MCSearches == MCListings \cup MCGreps

=============================================================================
