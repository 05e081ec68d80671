-------------------------------- MODULE ArchilFs --------------------------------
(***************************************************************************)
(* The file operations of the just-bash file system                        *)
(* (packages/just-bash/src/ArchilFs.ts), run by several callers over one   *)
(* tree.  Each caller has a list of things to do; a step does the first:   *)
(* it resolves a path, or makes one call of the native client.  Between    *)
(* two steps the others may change what a step has read.                   *)
(*                                                                         *)
(* A file holds blocks; a block names its writer and whether it was        *)
(* appended.  The content of one call is a pair of blocks, and one client  *)
(* read returns one block, so a read takes several.  An inode that was     *)
(* unlinked keeps its data for those who resolved it before.               *)
(***************************************************************************)
EXTENDS ArchilPaths, FiniteSets, FiniteSetsExt

CONSTANTS
  Callers,
  Requests,    \* the operations a caller may ask for
  InitialTree,
  Paths,       \* paths of the initial tree, some through links
  MaxInodes    \* bound: inodes that exist at all

\* A block of what was there before anybody asked for anything.
Old == [by |-> "initially", append |-> FALSE]

\* The entries of the tree lead to its inodes, and a file of it is empty or was
\* written by one call.
Initially(inode) ==
  \/ inode \in {File(<<>>), File(<<Old, Old>>)}
  \/ /\ inode.kind = "Directory" /\ inode = Directory(inode.entries)
     /\ IsFiniteSet(DOMAIN inode.entries) /\ Range(inode.entries) \subseteq DOMAIN InitialTree
  \/ inode.kind = "Symlink"

ASSUME FsAssumption ==
  /\ MaxInodes \in Nat /\ \E n \in 1..MaxInodes : DOMAIN InitialTree = 1..n
  /\ \A i \in DOMAIN InitialTree : Initially(InitialTree[i])

\* Only a call that makes a directory or a link names what it makes.
ASSUME RequestsAssumption ==
  \A r \in Requests :
    /\ r.do \in {"open", "write", "append", "makeIn", "makeAll", "rm", "cp", "mv"}
    /\ r.do = "makeIn" => r.new = Directory(<<>>) \/ r.new.kind = "Symlink"

VARIABLES
  tree,    \* the inodes, unlinked ones included
  asked,   \* the request of each caller
  todo,    \* what is left of it
  buffer,  \* what a read, or the read of a copy, has got
  result,
  left     \* temporary files whose removal failed

fsVars == <<tree, asked, todo, buffer, result, left>>

\* Requests, and the steps they are made of; both are records with a "do".
ReadFile(p)     == [do |-> "open", path |-> p]
WriteFile(p)    == [do |-> "write", path |-> p]
AppendFile(p)   == [do |-> "append", path |-> p]
Mkdir(p)        == [do |-> "makeIn", path |-> p, new |-> Directory(<<>>)]
MkdirAll(p, k)  == [do |-> "makeAll", path |-> p, k |-> k]
MakeLink(p, to) == [do |-> "makeIn", path |-> p, new |-> to]
Rm(p, flags)    == [do |-> "rm", path |-> p, flags |-> flags]
Cp(p, q)        == [do |-> "cp", path |-> p, to |-> q]
Mv(p, q)        == [do |-> "mv", path |-> p, to |-> q]
Nothing         == [do |-> "nothing"]

TmpName(c) == c
Linked(id) == id = Root \/ \E d \in DOMAIN tree : tree[d].kind = "Directory" /\ id \in Range(tree[d].entries)
Block(c) == [by |-> c, append |-> asked[c].do = "append"]
Content(c) == IF asked[c].do = "cp" THEN buffer[c] ELSE <<Block(c), Block(c)>>
FsCalls == {"chunk", "createTmp", "fill", "rename", "make", "writeAt", "unlink", "move"}

FsTypeOK ==
  /\ DOMAIN tree = 1..Cardinality(DOMAIN tree) /\ Cardinality(DOMAIN tree) <= MaxInodes
  /\ asked \in [Callers -> Requests \cup {Nothing}]
  /\ \A c \in Callers : result[c] = "pending" <=> todo[c] # <<>>
  /\ result \in [Callers -> {"none", "pending", "ok", "failed"}]
  /\ left \subseteq Callers
  /\ \A d \in DOMAIN tree : tree[d].kind = "Directory" => Range(tree[d].entries) \subseteq DOMAIN tree

FsInit ==
  /\ tree = InitialTree
  /\ asked = [c \in Callers |-> Nothing] /\ todo = [c \in Callers |-> <<>>]
  /\ buffer = [c \in Callers |-> <<>>] /\ result = [c \in Callers |-> "none"] /\ left = {}

Ask(c) ==
  /\ result[c] = "none"
  /\ \E r \in Requests : asked' = [asked EXCEPT ![c] = r] /\ todo' = [todo EXCEPT ![c] = <<r>>]
  /\ result' = [result EXCEPT ![c] = "pending"]
  /\ UNCHANGED <<tree, buffer, left>>

-----------------------------------------------------------------------------
(* What a step leaves to do. *)

Now(c) == Head(todo[c])
Doing(c, what) == todo[c] # <<>> /\ Now(c).do = what

Then(c, steps) ==
  /\ todo' = [todo EXCEPT ![c] = steps \o Tail(@)]
  /\ result' = [result EXCEPT ![c] = IF steps \o Tail(todo[c]) = <<>> THEN "ok" ELSE @]

Throw_GoesOn(c) == todo' = [todo EXCEPT ![c] = Tail(@)] /\ result' = [result EXCEPT ![c] = "failed"]

Throw(c) == todo' = [todo EXCEPT ![c] = <<>>] /\ result' = [result EXCEPT ![c] = "failed"]

Looks == UNCHANGED <<tree, asked, buffer, left>>
Changes == UNCHANGED <<asked, buffer, left>>

\* The steps that follow when an inode of this kind is found at the path.
Found(c, id, kind, steps) == IF Is(tree, id, kind) THEN Then(c, steps) ELSE Throw(c)

-----------------------------------------------------------------------------
(* readFileBuffer: size first, then chunk after chunk of that inode. *)

Open(c) ==
  /\ Doing(c, "open") /\ Looks
  /\ LET id == ResolveFollow(tree, Now(c).path) IN
     Found(c, id, "File",
           IF tree[id].data = <<>> THEN <<>>
           ELSE <<[do |-> "chunk", id |-> id, size |-> Len(tree[id].data)]>>)

Chunk(c) ==
  /\ Doing(c, "chunk")
  /\ LET got == Append(buffer[c], tree[Now(c).id].data[Len(buffer[c]) + 1]) IN
     /\ buffer' = [buffer EXCEPT ![c] = got]
     /\ Then(c, IF Len(got) < Now(c).size THEN <<Now(c)>> ELSE <<>>)
  /\ UNCHANGED <<tree, asked, left>>

-----------------------------------------------------------------------------
(* The client's calls that change the tree. *)

WithEntry(dir, name, id) ==
  [tree EXCEPT ![dir].entries = [n \in DOMAIN @ \cup {name} |-> IF n = name THEN id ELSE @[n]]]

WithoutEntry(t, dir, name) ==
  [t EXCEPT ![dir].entries = [n \in DOMAIN @ \ {name} |-> @[n]]]

MayCreate(dir, name) ==
  /\ Is(tree, dir, "Directory") /\ Linked(dir) /\ Lookup(tree, dir, name) = NoEntry

Fresh == Cardinality(DOMAIN tree) + 1

Created(dir, name, new) ==
  [i \in DOMAIN tree \cup {Fresh} |-> IF i = Fresh THEN new ELSE WithEntry(dir, name, Fresh)[i]]

\* Overwrites the blocks from the offset on, and keeps what lies beyond.
Overlaid(data, offset, new) ==
  SubSeq(data, 1, offset) \o new \o SubSeq(data, offset + Len(new) + 1, Len(data))

MayUnlink(dir, name) ==
  LET id == Lookup(tree, dir, name) IN
  id # NoEntry /\ (Is(tree, id, "Directory") => DOMAIN tree[id].entries = {})

MayRename(d1, n1, d2, n2) ==
  LET src == Lookup(tree, d1, n1)
      dst == Lookup(tree, d2, n2) IN
  /\ src # NoEntry /\ Is(tree, d2, "Directory") /\ Linked(d2)
  /\ dst # NoEntry =>
       tree[src].kind # "Directory" /\ tree[dst].kind # "Directory"

Renamed(d1, n1, d2, n2) ==
  LET src == Lookup(tree, d1, n1)
  IN IF d1 = d2 /\ n1 = n2 THEN tree ELSE WithoutEntry(WithEntry(d2, n2, src), d1, n1)

-----------------------------------------------------------------------------
(* writeFile and appendFile. *)

Overwrite_InPlace(path, id) == <<[do |-> "writeAt", id |-> id, offset |-> 0]>>

Overwrite(path, id) == <<[do |-> "replace", path |-> path]>>

\* Only a path that is not there makes writeFile create it.
Write(c) ==
  /\ Doing(c, "write") /\ Looks
  /\ LET id == ResolveFollow(tree, Now(c).path) IN
     IF id = NoEntry
       THEN Then(c, <<[do |-> "makeIn", path |-> Now(c).path, new |-> File(<<>>)]>>)
       ELSE Found(c, id, "File", Overwrite(Now(c).path, id))

\* The file behind every link is replaced: its parent and name are looked up.
Replace(c) ==
  /\ Doing(c, "replace") /\ Looks
  /\ LET real == RealPath(tree, Now(c).path) IN
     IF real = Nowhere \/ Parent(tree, real) = NoEntry THEN Throw(c)
     ELSE Then(c, <<[do |-> "createTmp", dir |-> Parent(tree, real), name |-> Last(real)]>>)

OverwriteSteps_UnlinkFirst(dir, name, id) ==
  <<[do |-> "fill", dir |-> dir, id |-> id],
    [do |-> "unlink", dir |-> dir, name |-> name],
    [do |-> "rename", dir |-> dir, name |-> name]>>

OverwriteSteps_RenameFirst(dir, name, id) ==
  <<[do |-> "rename", dir |-> dir, name |-> name],
    [do |-> "fill", dir |-> dir, id |-> id]>>

OverwriteSteps(dir, name, id) ==
  <<[do |-> "fill", dir |-> dir, id |-> id],
    [do |-> "rename", dir |-> dir, name |-> name]>>

CreateTmp(c) ==
  /\ Doing(c, "createTmp") /\ Fresh <= MaxInodes /\ MayCreate(Now(c).dir, TmpName(c))
  /\ tree' = Created(Now(c).dir, TmpName(c), File(<<>>))
  /\ Then(c, OverwriteSteps(Now(c).dir, Now(c).name, Fresh)) /\ Changes

WriteData(c, id, offset) ==
  /\ tree' = [tree EXCEPT ![id].data = Overlaid(@, offset, Content(c))]
  /\ Then(c, <<>>) /\ Changes

Fill(c) == Doing(c, "fill") /\ WriteData(c, Now(c).id, 0)

Rename(c) ==
  LET dir == Now(c).dir IN
  /\ Doing(c, "rename") /\ MayRename(dir, TmpName(c), dir, Now(c).name)
  /\ tree' = Renamed(dir, TmpName(c), dir, Now(c).name)
  /\ Then(c, <<>>) /\ Changes

\* The write or the rename threw, or it was done and its answer lost; the
\* temporary file is removed if it can be, and the error is the call's.
Cleaned(c, dir) ==
  \/ MayUnlink(dir, TmpName(c)) /\ tree' = WithoutEntry(tree, dir, TmpName(c)) /\ UNCHANGED left
  \/ left' = left \cup {c} /\ UNCHANGED tree

OverwriteFails(c) ==
  /\ Doing(c, "fill") \/ Doing(c, "rename")
  /\ Cleaned(c, Now(c).dir) /\ Throw(c) /\ UNCHANGED <<asked, buffer>>

RenameAnswerLost(c) ==
  LET dir == Now(c).dir IN
  /\ Doing(c, "rename") /\ MayRename(dir, TmpName(c), dir, Now(c).name)
  /\ tree' = Renamed(dir, TmpName(c), dir, Now(c).name)
  /\ Throw(c) /\ Changes

\* The size found is the offset of the write.
AppendTo(c) ==
  /\ Doing(c, "append") /\ Looks
  /\ LET id == ResolveFollow(tree, Now(c).path) IN
     IF id = NoEntry THEN Then(c, <<WriteFile(Now(c).path)>>)
     ELSE Found(c, id, "File", <<[do |-> "writeAt", id |-> id, offset |-> Len(tree[id].data)]>>)

WriteAt(c) == Doing(c, "writeAt") /\ WriteData(c, Now(c).id, Now(c).offset)

-----------------------------------------------------------------------------
(* mkdir, symlink and the creation of a file. *)

MakeIn(c) ==
  /\ Doing(c, "makeIn") /\ Looks
  /\ LET dir == Parent(tree, Now(c).path) IN
     IF dir <= 0 THEN Throw(c)
     ELSE Then(c, <<[do |-> "make", dir |-> dir, name |-> Last(Now(c).path), new |-> Now(c).new]>>)

Make(c) ==
  /\ Doing(c, "make") /\ Fresh <= MaxInodes /\ MayCreate(Now(c).dir, Now(c).name)
  /\ tree' = Created(Now(c).dir, Now(c).name, Now(c).new)
  /\ Then(c, IF Now(c).new.kind = "File" THEN <<[do |-> "writeAt", id |-> Fresh, offset |-> 0]>>
             ELSE <<>>)
  /\ Changes

\* mkdir -p: each prefix that is not there, from the first.
MakeAll(c) ==
  LET p == Now(c).path
      k == Now(c).k
      prefix == SubSeq(p, 1, k)
  IN /\ Doing(c, "makeAll") /\ Looks
     /\ Then(c, (IF Resolve(tree, prefix) > 0 THEN <<>> ELSE <<Mkdir(prefix)>>)
                \o (IF k < Len(p) THEN <<MkdirAll(p, k + 1)>> ELSE <<>>))

-----------------------------------------------------------------------------
(* rm, cp and mv. *)

RmTarget(path) == Resolve(tree, path)

RmEntries(path, flags) == [do |-> "rmEntries", path |-> path, flags |-> flags]

Removes(c) ==
  LET id == RmTarget(Now(c).path) IN
  /\ Doing(c, "rm") /\ Looks
  /\ IF id = NoEntry /\ "force" \in Now(c).flags THEN Then(c, <<>>)
     ELSE IF id <= 0 \/ (Is(tree, id, "Directory") /\ "recursive" \notin Now(c).flags) THEN Throw(c)
     ELSE Then(c, (IF Is(tree, id, "Directory") THEN <<RmEntries(Now(c).path, Now(c).flags)>> ELSE <<>>)
                  \o <<[do |-> "unlinkAt", path |-> Now(c).path]>>)

\* readdir follows the path again; the server lists in an order of its own.
Listings(id) == SetToSeqs(DOMAIN tree[id].entries)

RemoveEntries(c) ==
  LET id == ResolveFollow(tree, Now(c).path) IN
  /\ Doing(c, "rmEntries") /\ Looks
  /\ IF Is(tree, id, "Directory")
       THEN \E names \in Listings(id) :
              Then(c, [i \in 1..Len(names) |-> Rm(Append(Now(c).path, names[i]), Now(c).flags)])
       ELSE Throw(c)

UnlinkAt(c) ==
  /\ Doing(c, "unlinkAt") /\ Looks
  /\ LET dir == Parent(tree, Now(c).path) IN
     IF dir <= 0 THEN Throw(c)
     ELSE Then(c, <<[do |-> "unlink", dir |-> dir, name |-> Last(Now(c).path)]>>)

Unlink(c) ==
  /\ Doing(c, "unlink") /\ MayUnlink(Now(c).dir, Now(c).name)
  /\ tree' = WithoutEntry(tree, Now(c).dir, Now(c).name) /\ Then(c, <<>>) /\ Changes

\* A file is read whole and then written; a directory is made and its entries
\* are copied.
Copy(c) ==
  LET id == ResolveFollow(tree, Now(c).path)
      here == Now(c).path
      there == Now(c).to IN
  /\ Doing(c, "cp") /\ UNCHANGED <<tree, asked, left>> /\ buffer' = [buffer EXCEPT ![c] = <<>>]
  /\ IF id <= 0 THEN Throw(c)
     ELSE Then(c, IF Is(tree, id, "Directory")
                    THEN <<MkdirAll(there, 1), [do |-> "cpEntries", path |-> here, to |-> there]>>
                    ELSE <<ReadFile(here), WriteFile(there)>>)

CopyEntries(c) ==
  LET id == ResolveFollow(tree, Now(c).path) IN
  /\ Doing(c, "cpEntries") /\ Looks
  /\ IF Is(tree, id, "Directory")
       THEN \E names \in Listings(id) :
              Then(c, [i \in 1..Len(names) |->
                        Cp(Append(Now(c).path, names[i]), Append(Now(c).to, names[i]))])
       ELSE Throw(c)

Move(c) ==
  LET from == Parent(tree, Now(c).path)
      to == Parent(tree, Now(c).to) IN
  /\ Doing(c, "mv") /\ Looks
  /\ IF from <= 0 \/ to <= 0 THEN Throw(c)
     ELSE Then(c, <<[do |-> "move", from |-> from, old |-> Last(Now(c).path),
                     to |-> to, new |-> Last(Now(c).to)]>>)

Moves(c) ==
  /\ Doing(c, "move") /\ MayRename(Now(c).from, Now(c).old, Now(c).to, Now(c).new)
  /\ tree' = Renamed(Now(c).from, Now(c).old, Now(c).to, Now(c).new)
  /\ Then(c, <<>>) /\ Changes

\* Any other call of the client throws, for a reason of its own or because the
\* tree no longer allows it: nothing is undone.
CallFails(c) ==
  /\ todo[c] # <<>> /\ Now(c).do \in FsCalls \ {"fill", "rename"}
  /\ Throw(c) /\ Looks

-----------------------------------------------------------------------------
FsNext ==
  \E c \in Callers :
    \/ Ask(c) \/ CallFails(c)
    \/ Open(c) \/ Chunk(c)
    \/ Write(c) \/ Replace(c) \/ CreateTmp(c) \/ Fill(c) \/ Rename(c)
    \/ OverwriteFails(c) \/ RenameAnswerLost(c)
    \/ AppendTo(c) \/ WriteAt(c)
    \/ MakeIn(c) \/ Make(c) \/ MakeAll(c)
    \/ Removes(c) \/ RemoveEntries(c) \/ UnlinkAt(c) \/ Unlink(c)
    \/ Copy(c) \/ CopyEntries(c) \/ Move(c) \/ Moves(c)

FsSpec == FsInit /\ [][FsNext]_fsVars

-----------------------------------------------------------------------------
\* "Readers never see partial content or stale trailing bytes" (the comment on
\* the overwrite in writeFile): what a read or a copy has read is the whole of
\* one write, or the empty file of a creation, unless something was appended.
Appended(data) == \E i \in 1..Len(data) : data[i].append
OneWrite(data) == Len(data) \in {0, 2} /\ \A i \in 1..Len(data) : data[i] = data[1]

ReadsAreWhole ==
  \A c \in Callers :
    asked[c].do \in {"open", "cp"} /\ result[c] = "ok" =>
      OneWrite(buffer[c]) \/ Appended(buffer[c])

\* Overwriting is atomic: a file that nobody removes or moves is there with
\* whole content at every moment, whatever fails or is lost; and no temporary
\* file outlives its call, but one whose removal failed (a copy of a directory
\* takes along those it finds there).
Removing(c) == asked[c].do \in {"rm", "mv"}
FirstFiles == {p \in Paths : Is(InitialTree, LStat(InitialTree, p), "File")}

OverwritesAreAtomic ==
  /\ (\A c \in Callers : ~Removing(c)) =>
       \A p \in FirstFiles :
         LET id == LStat(tree, p) IN
         /\ Is(tree, id, "File") /\ tree[id].data # <<>>
         /\ OneWrite(tree[id].data) \/ Appended(tree[id].data)
  /\ \A c \in Callers \ left : result[c] # "pending" =>
       \A d \in DOMAIN InitialTree :
         tree[d].kind = "Directory" => TmpName(c) \notin DOMAIN tree[d].entries

\* What is at a path stays there until somebody asks to remove or move the
\* path or a directory above it: rm -r goes through no link, and cp and
\* overwriting lose nothing.
Above(p, q) == IsPrefix(p, q)
WithoutLinks(p) == RealPath(InitialTree, p) = p

RemovalStaysBelow ==
  \A p \in Paths :
    Resolve(tree, p) <= 0 /\ WithoutLinks(p) =>
      \E c \in Callers : Removing(c) /\ (Above(asked[c].path, p) \/ (asked[c].do = "mv" /\ Above(asked[c].to, p)))

\* Files and paths that nobody removes are kept, by whatever is done to others
\* and whatever fails (writeFile, rm, cp).
NothingElseIsLost == OverwritesAreAtomic /\ RemovalStaysBelow

\* On every tree the operations make: resolve() finds what lstat(2) would, and
\* realpath() names a path without links to what stat(2) would find.
PathsAreReal ==
  \A p \in Paths :
    LET real == RealPath(tree, p)
        there == Stat(tree, p) IN
    /\ Resolve(tree, p) = LStat(tree, p)
    /\ real = Nowhere <=> there <= 0
    /\ real # Nowhere => Resolve(tree, real) = there
    /\ real \notin {p, Nowhere} => RealPath(tree, real) = real

\* "Resolve a path, following symlinks on ALL components including the final
\* one (like stat(2))": the comment on resolveFollow.
FollowsLikeStat == \A p \in Paths : ResolveFollow(tree, p) = Stat(tree, p)
=============================================================================
