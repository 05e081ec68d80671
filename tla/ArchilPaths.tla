------------------------------ MODULE ArchilPaths ------------------------------
(***************************************************************************)
(* Path resolution of the just-bash file system                            *)
(* (packages/just-bash/src/ArchilFs.ts) over a tree of inodes.             *)
(*                                                                         *)
(* A tree is a function from inode numbers to files, directories and       *)
(* symbolic links; a path is the sequence of its components, and a link's  *)
(* target says whether it is absolute.  A lookup that finds nothing is     *)
(* NoEntry.  Resolution is one step of the model: the file system's own    *)
(* operations, not single lookups, interleave.                             *)
(***************************************************************************)
EXTENDS Integers, Sequences, SequencesExt

CONSTANTS MaxSymlinks   \* MAX_SYMLINKS

ASSUME PathsAssumption == MaxSymlinks \in Nat

Root == 1       \* rootInodeId
NoEntry == 0    \* ENOENT
TooMany == -1   \* ELOOP

File(data)       == [kind |-> "File", data |-> data]
Directory(names) == [kind |-> "Directory", entries |-> names]
Link(abs, parts) == [kind |-> "Symlink", abs |-> abs, parts |-> parts]

Is(tree, id, kind) == id \in DOMAIN tree /\ tree[id].kind = kind

\* client.lookupInode
Lookup(tree, dir, name) ==
  IF Is(tree, dir, "Directory") /\ name \in DOMAIN tree[dir].entries
    THEN tree[dir].entries[name] ELSE NoEntry

\* What a resolution is recursive in: names left and links followed.
Components == Seq(STRING)

\* normalizePath: ".." removes the component before it, whatever that is.
Up(path, part) == IF part # ".." THEN Append(path, part)
                  ELSE IF path = <<>> THEN path ELSE Front(path)

Normalized(parts) == FoldLeft(Up, <<>>, parts)

\* resolvePath(base, target)
From_AsWritten(base, link) == IF link.abs THEN link.parts ELSE base \o link.parts

From(base, link) == Normalized(IF link.abs THEN link.parts ELSE base \o link.parts)

\* resolve: links are followed but for the last component; each one starts
\* again at the root, so "here" never names a link.
Walk(tree, path, followed) ==
  LET from[dir \in Nat, here \in Components, parts \in Components, depth \in Nat] ==
        IF parts = <<>> THEN dir
        ELSE LET next == Lookup(tree, dir, Head(parts)) IN
             IF next = NoEntry THEN NoEntry
             ELSE IF Len(parts) > 1 /\ Is(tree, next, "Symlink")
               THEN IF depth >= MaxSymlinks THEN TooMany
                    ELSE from[Root, <<>>, Normalized(From(here, tree[next]) \o Tail(parts)), depth + 1]
               ELSE from[next, Append(here, Head(parts)), Tail(parts), depth]
  IN from[Root, <<>>, path, followed]

Resolve(tree, path) == Walk(tree, path, 0)

\* resolveFollow: the target of a final link is taken from the path as given.
ResolveFollow(tree, path) ==
  LET follow[p \in Components, depth \in Nat] ==
        IF depth >= MaxSymlinks THEN TooMany
        ELSE LET id == Walk(tree, p, depth) IN
             IF Is(tree, id, "Symlink") THEN follow[From(Front(p), tree[id]), depth + 1] ELSE id
  IN follow[path, 0]

\* realpath: the path with every link replaced, or none.
Nowhere == <<"">>

RealPath(tree, path) ==
  LET from[dir \in Nat, real \in Components, parts \in Components, depth \in Nat] ==
        IF parts = <<>> THEN real
        ELSE LET next == Lookup(tree, dir, Head(parts)) IN
             IF next = NoEntry THEN Nowhere
             ELSE IF ~Is(tree, next, "Symlink")
               THEN from[next, Append(real, Head(parts)), Tail(parts), depth]
             ELSE IF depth >= MaxSymlinks THEN Nowhere
             ELSE LET there == from[Root, <<>>, From(real, tree[next]), depth + 1] IN
                  IF there = Nowhere THEN Nowhere
                  ELSE from[Resolve(tree, there), there, Tail(parts), depth]
  IN from[Root, <<>>, path, 0]

\* resolveParent: a parent that is a link is not followed.
Parent(tree, path) == Resolve(tree, Front(path))

-----------------------------------------------------------------------------
(* What the system calls do, the reference for the properties: a walk      *)
(* over directories, "up" being the way back from each of them.            *)

Physical(tree, path, last) ==
  LET from[trail \in Seq(Nat), parts \in Components, budget \in Nat] ==
        IF parts = <<>> THEN Last(trail)
        ELSE IF Head(parts) = ".."
          THEN from[IF Len(trail) = 1 THEN trail ELSE Front(trail), Tail(parts), budget]
        ELSE LET next == Lookup(tree, Last(trail), Head(parts)) IN
             IF next = NoEntry THEN NoEntry
             ELSE IF Is(tree, next, "Symlink") /\ (last \/ Len(parts) > 1)
               THEN IF budget = 0 THEN TooMany
                    ELSE from[IF tree[next].abs THEN <<Root>> ELSE trail, tree[next].parts \o Tail(parts), budget - 1]
               ELSE from[Append(trail, next), Tail(parts), budget]
  IN from[<<Root>>, path, MaxSymlinks]

LStat(tree, path) == Physical(tree, path, FALSE)
Stat(tree, path)  == Physical(tree, path, TRUE)
=============================================================================
