------------------------------- MODULE Workspace -------------------------------
(***************************************************************************)
(* A workspace (packages/disk/src/workspace.ts) puts disks under names and *)
(* sends each key to the disk its first segment names.  Listings and       *)
(* searches go to every disk they cover; each disk answers on its own, a   *)
(* listing page by page (packages/disk/src/disk.ts), and the answers are   *)
(* merged when all have come.  list_files, glob and grep of the agent      *)
(* tools (packages/disk/src/internal/tools.ts) sit on top.                 *)
(*                                                                         *)
(* A key or path is the sequence of its segments.  A line that grep finds  *)
(* is TRUE when it matches and FALSE when it is context.                   *)
(***************************************************************************)
EXTENDS Integers, Sequences, SequencesExt, FiniteSets, FiniteSetsExt

CONSTANTS
  Segments,      \* what may stand between two slashes of a path
  Disks,
  KeyOrder,      \* the keys a disk may hold, in the order of a listing
  InitialKeys,   \* those each disk holds at first
  InitialMounts, \* the mounts the workspace is made with
  NewMounts,     \* the mounts the program may add
  Searches,      \* the listings and searches it may ask for
  Objects,       \* the workspace keys it puts and deletes
  GrepAnswers,   \* the groups a disk may answer a grep with
  GlobLists,     \* lists of globs, and the files of a disk, for what globs
  GlobPaths,     \* mean
  PageSize,      \* keys on a page of ListObjectsV2
  MaxGlobLines,  \* lines that fit MAX_GLOB_OUTPUT_BYTES
  MaxChanges     \* bound: writes to disks and changes of mounts

\* The segments that name something.
Plain == Segments \ {"", ".", ".."}
Wild == {"*", "**"}
MountSet == [name : Plain \ Wild, disk : Disks, sub : Seq(Plain), readOnly : BOOLEAN]
GlobSet == [neg : BOOLEAN, lead : BOOLEAN, segs : Seq(Segments) \ {<<>>}, dirOnly : BOOLEAN]

\* addDisk takes no name that is empty or navigation, and a directory has no
\* such entry.  A search may return something.
WellFormed ==
  /\ PageSize \in Nat \ {0} /\ MaxGlobLines \in Nat \ {0} /\ MaxChanges \in Nat
  /\ KeyOrder \in Seq(Seq(Plain)) /\ InitialKeys \in [Disks -> SUBSET ToSet(KeyOrder)]
  /\ InitialMounts \in Seq(MountSet) \ {<<>>} /\ NewMounts \subseteq MountSet
  /\ \A i, j \in DOMAIN InitialMounts : InitialMounts[i].name = InitialMounts[j].name => i = j
  /\ Objects \subseteq Seq(Segments) /\ GrepAnswers \subseteq Seq(Seq(BOOLEAN))

\* A leading "**" is written once.
LiteralGlobs ==
  /\ GlobLists \subseteq Seq(GlobSet) /\ GlobPaths \subseteq Seq(Plain) \ {<<>>}
  /\ \A globs \in GlobLists : \A g \in ToSet(globs) : g.segs[1] = "**" /\ Len(g.segs) > 1 => g.segs[2] # "**"

SearchesWellFormed ==
  \A q \in Searches :
    /\ q.op \in {"list", "disk", "glob", "grep"} /\ q.path \in Seq(Segments)
    /\ q.op \in {"list", "disk", "glob"} => q.recursive \in BOOLEAN
    /\ q.op \in {"disk", "glob"} => q.recursive /\ q.limit \in Nat
    /\ q.op = "disk" => q.path \in Seq(Plain) /\ Len(q.path) = 1
    /\ q.op = "glob" => q.absolute \in BOOLEAN /\ q.pattern \in Seq(Segments) \ {<<>>}
    /\ q.op = "grep" => q.globs \in Seq(GlobSet) /\ q.cap \in Nat \ {0} /\ q.after \in Nat /\ q.multiline \in BOOLEAN

ASSUME WorkspaceAssumption == WellFormed
ASSUME GlobsAssumption == LiteralGlobs
ASSUME SearchesAssumption == SearchesWellFormed

VARIABLES
  held,     \* the keys on each disk
  mounts,   \* Workspace.mounts, in insertion order
  search,   \* the request in progress, or the last one
  walk,     \* one for each disk it covers
  found,    \* what it returned
  always,   \* the keys each disk has held since it began
  ever,     \* the keys each disk has held at some time since
  changes

wsVars == <<held, mounts, search, walk, found, always, ever, changes>>

DiskKeys == ToSet(KeyOrder)
NoSearch == [op |-> "none"]
Pending == [op |-> "pending"]
Rejected == [op |-> "rejected"]

Listing(path, recursive) == [op |-> "list", path |-> path, recursive |-> recursive]
DiskListing(name, limit) == [op |-> "disk", path |-> <<name>>, recursive |-> TRUE, limit |-> limit]
GlobIn(path, pattern, absolute, limit) ==
  [op |-> "glob", path |-> path, recursive |-> TRUE, pattern |-> pattern, absolute |-> absolute, limit |-> limit]
GrepIn(path, globs, cap, after, multiline) ==
  [op |-> "grep", path |-> path, globs |-> globs, cap |-> cap, after |-> after, multiline |-> multiline]
GlobPattern(neg, lead, segs, dirOnly) == [neg |-> neg, lead |-> lead, segs |-> segs, dirOnly |-> dirOnly]

-----------------------------------------------------------------------------
(* Keys. *)

\* "." and empty segments are skipped, ".." takes one back.
Enter(done, s) ==
  IF s \in {"", "."} THEN done
  ELSE IF s # ".." THEN Append(done, s)
  ELSE IF done = <<>> THEN <<>> ELSE Front(done)

ToSegments(path) ==
  LET done[n \in 0..Len(path)] == IF n = 0 THEN <<>> ELSE Enter(done[n - 1], path[n])
  IN  done[Len(path)]

Names == {mounts[i].name : i \in DOMAIN mounts}
Entry(name) == mounts[CHOOSE i \in DOMAIN mounts : mounts[i].name = name]

DiskKey(mount, rel) == mount.sub \o rel

Abs(mount, key) ==
  <<mount.name>> \o IF IsPrefix(mount.sub, key) THEN SubSeq(key, Len(mount.sub) + 1, Len(key)) ELSE key

Routable(path) == ToSegments(path) # <<>> /\ ToSegments(path)[1] \in Names

Route(path) ==
  LET mount == Entry(ToSegments(path)[1])
  IN  [disk |-> mount.disk, key |-> DiskKey(mount, Tail(ToSegments(path)))]

\* The mounts under a path, with the directory of each disk.
Covered(path) ==
  IF ToSegments(path) = <<>>
  THEN [i \in DOMAIN mounts |-> [mount |-> mounts[i], rel |-> DiskKey(mounts[i], <<>>)]]
  ELSE LET mount == Entry(ToSegments(path)[1])
       IN  <<[mount |-> mount, rel |-> DiskKey(mount, Tail(ToSegments(path)))]>>

Below(rel, key) == IsStrictPrefix(rel, key)

-----------------------------------------------------------------------------
(* Globs at the workspace root. *)

Everywhere(g) == (~g.lead /\ Len(g.segs) = 1) \/ g.segs[1] = "**"
PathOfGlob(g) == IF Everywhere(g) /\ g.segs[1] = "**" /\ Len(g.segs) > 1 THEN Tail(g.segs) ELSE g.segs
MisplacedGlob(g) == ~Everywhere(g) /\ PathOfGlob(g)[1] \notin Names

\* What the glob says inside the mount it names.
Inside(g) == LET rest == Tail(PathOfGlob(g)) IN GlobPattern(g.neg, Len(rest) = 1, rest, g.dirOnly)

RouteGlob(routed, g) ==
  LET name == PathOfGlob(g)[1]
      all == IF Everywhere(g) THEN [n \in Names |-> Append(routed.globs[n], g)] ELSE routed.globs
  IN  IF name \notin Names THEN [routed EXCEPT !.globs = all]
      ELSE IF Len(PathOfGlob(g)) = 1
      THEN [globs |-> all, excluded |-> IF g.neg THEN routed.excluded \cup {name} ELSE routed.excluded \ {name}]
      ELSE [routed EXCEPT !.globs = [all EXCEPT ![name] = Append(@, Inside(g))]]

NoGlobs == [globs |-> [n \in Names |-> <<>>], excluded |-> {}]
Excludes(globs) == \A g \in ToSet(globs) : g.neg

\* The globs of each mount that is searched.
RootGlobs_FirstWins(globs) ==
  LET routed[k \in 0..Len(globs)] == IF k = 0 THEN NoGlobs ELSE RouteGlob(routed[k - 1], globs[Len(globs) + 1 - k])
      all == routed[Len(globs)]
      left == {n \in Names \ all.excluded : Excludes(globs) \/ ~Excludes(all.globs[n])}
  IN  [n \in left |-> all.globs[n]]
RootGlobs(globs) ==
  LET routed[k \in 0..Len(globs)] == IF k = 0 THEN NoGlobs ELSE RouteGlob(routed[k - 1], globs[k])
      all == routed[Len(globs)]
      left == {n \in Names \ all.excluded : Excludes(globs) \/ ~Excludes(all.globs[n])}
  IN  [n \in left |-> all.globs[n]]

\* ripgrep's -g rules: the last glob that matches decides, for the file and
\* for each directory above it.  A glob fits a path when its segments can be
\* read off one after the other up to the path's end; the places are those
\* at which it may stand after each of them.  A wildcard does not stand for the
\* first names of a path that are taken literally.
Step(segs, path, literal, places, i) ==
  IF segs[i] = "**" THEN {q \in 0..Len(path) : \E p \in places : p <= q /\ (i = Len(segs) => p < q /\ q > literal)}
  ELSE {q \in 1..Len(path) : q - 1 \in places /\ (segs[i] = path[q] \/ (segs[i] = "*" /\ q > literal))}

Fits(segs, path, literal) ==
  LET places[i \in 0..Len(segs)] == IF i = 0 THEN {0} ELSE Step(segs, path, literal, places[i - 1], i)
  IN  Len(path) \in places[Len(segs)]

Hits(g, path, literal, i) ==
  /\ g.dirOnly => i < Len(path)
  /\ IF g.lead \/ Len(g.segs) > 1 THEN Fits(g.segs, SubSeq(path, 1, i), literal)
     ELSE g.segs[1] = path[i] \/ (g.segs[1] \in Wild /\ i > literal)

Verdict(globs, path, literal, i) ==
  LET hits == {j \in DOMAIN globs : Hits(globs[j], path, literal, i)}
  IN  IF hits = {} THEN "none" ELSE IF globs[Max(hits)].neg THEN "skip" ELSE "search"

Selected(globs, path, literal) ==
  /\ \A i \in DOMAIN path : Verdict(globs, path, literal, i) # "skip"
  /\ Verdict(globs, path, literal, Len(path)) = "search" \/ Excludes(globs)

-----------------------------------------------------------------------------

Runs == found.op = "pending"

WsInit ==
  /\ held = InitialKeys /\ always = held /\ ever = held
  /\ mounts = InitialMounts
  /\ search = NoSearch /\ walk = <<>> /\ found = NoSearch /\ changes = 0

WsTypeOK ==
  /\ held \in [Disks -> SUBSET DiskKeys]
  /\ \A i, j \in DOMAIN mounts : mounts[i].name = mounts[j].name => i = j
  /\ mounts # <<>>
  /\ \A d \in Disks : always[d] \subseteq held[d] /\ held[d] \subseteq ever[d]
  /\ \A i \in DOMAIN walk : walk[i].state \in {"asking", "done", "failed", "refused"}
  /\ found.op \in {"none", "pending", "rejected", "list", "disk", "glob", "grep"}

Changed == changes < MaxChanges /\ changes' = changes + 1

\* addDisk: a name that is mounted keeps its place.
AddDisk(m) ==
  /\ Changed /\ UNCHANGED <<held, search, walk, found, always, ever>>
  /\ mounts' = IF m.name \in Names THEN [i \in DOMAIN mounts |-> IF mounts[i].name = m.name THEN m ELSE mounts[i]]
               ELSE Append(mounts, m)

RemoveDisk(name) ==
  /\ name \in Names /\ Len(mounts) > 1
  /\ Changed /\ UNCHANGED <<held, search, walk, found, always, ever>>
  /\ \E i \in DOMAIN mounts : mounts[i].name = name /\ mounts' = RemoveAt(mounts, i)

PutObject(path) ==
  /\ Routable(path) /\ ~Entry(ToSegments(path)[1]).readOnly
  /\ LET r == Route(path)
     IN  /\ r.key \in DiskKeys \ held[r.disk]
         /\ held' = [held EXCEPT ![r.disk] = @ \cup {r.key}]
         /\ ever' = [ever EXCEPT ![r.disk] = @ \cup {r.key}]
  /\ Changed /\ UNCHANGED <<mounts, search, walk, found, always>>

DeleteObject(path) ==
  /\ Routable(path) /\ ~Entry(ToSegments(path)[1]).readOnly
  /\ LET r == Route(path)
     IN  /\ r.key \in held[r.disk]
         /\ held' = [held EXCEPT ![r.disk] = @ \ {r.key}]
         /\ always' = [always EXCEPT ![r.disk] = @ \ {r.key}]
  /\ Changed /\ UNCHANGED <<mounts, search, walk, found, ever>>

-----------------------------------------------------------------------------
(* Requests. *)

Begins(q) ==
  /\ ~Runs /\ search' = q
  /\ always' = held /\ ever' = held
  /\ UNCHANGED <<held, mounts, changes>>

UnknownMount(q) == ToSegments(q.path) # <<>> /\ ~Routable(q.path)
AtRoot(q) == ToSegments(q.path) = <<>>
Globbed(q) == q.op = "grep" /\ AtRoot(q) /\ q.globs # <<>>

Refuse(q) ==
  /\ Begins(q) /\ walk' = <<>> /\ found' = Rejected
  /\ UnknownMount(q) \/ (Globbed(q) /\ \E g \in ToSet(q.globs) : MisplacedGlob(g))

\* A listing of the root, one level deep, names the disks.
ListRoot(q) ==
  /\ Begins(q) /\ q.op = "list" /\ AtRoot(q) /\ ~q.recursive
  /\ walk' = <<>>
  /\ found' = [op |-> "list", objects |-> {}, dirs |-> {<<n>> : n \in Names}, truncated |-> FALSE]

NewWalk(c) == [mount |-> c.mount, rel |-> c.rel, state |-> "asking", token |-> 0, asked |-> {}, requests |-> 0,
               objects |-> {}, dirs |-> {}, cut |-> FALSE, stuck |-> FALSE, reason |-> "none", groups |-> <<>>]

\* Those of the covered mounts that are searched.
Picked(covered, names) ==
  LET picked[n \in 0..Len(covered)] ==
        IF n = 0 THEN <<>>
        ELSE IF covered[n].mount.name \in names THEN Append(picked[n - 1], covered[n]) ELSE picked[n - 1]
  IN  picked[Len(covered)]

FanOut(q) ==
  /\ Begins(q) /\ ~UnknownMount(q)
  /\ q.op = "list" => q.recursive \/ ~AtRoot(q)
  /\ Globbed(q) => \A g \in ToSet(q.globs) : ~MisplacedGlob(g)
  /\ LET covered == IF Globbed(q) THEN Picked(Covered(q.path), DOMAIN RootGlobs(q.globs)) ELSE Covered(q.path)
     IN  walk' = [i \in DOMAIN covered |-> NewWalk(covered[i])]
  /\ found' = Pending

Asking(i) == Runs /\ walk[i].state = "asking"
Walks(i, w) == /\ walk' = [walk EXCEPT ![i] = w]
               /\ UNCHANGED <<held, mounts, search, found, always, ever, changes>>

First(places, n) == {i \in places : Cardinality({j \in places : j <= i}) <= n}

\* What a page holds: the keys after the token, by their places in KeyOrder;
\* one level deep, a key in a directory stands for the directory.
PageAfter(w) ==
  LET rest == {i \in w.token + 1 .. Len(KeyOrder) : KeyOrder[i] \in held[w.mount.disk] /\ Below(w.rel, KeyOrder[i])}
      on == First(rest, PageSize)
      direct == {i \in on : search.recursive \/ Len(KeyOrder[i]) = Len(w.rel) + 1}
  IN  [objects |-> direct,
       dirs |-> {SubSeq(KeyOrder[i], 1, Len(w.rel) + 1) : i \in on \ direct},
       last |-> IF on = {} THEN 0 ELSE Max(on),
       truncated |-> on # rest]

\* Only a disk's own listing has a limit.
Taken(w, page) ==
  LET fits == IF search.op = "disk" THEN First(page.objects, search.limit - Cardinality(w.objects)) ELSE page.objects
  IN  [w EXCEPT !.objects = @ \cup fits, !.dirs = @ \cup page.dirs, !.requests = @ + 1, !.cut = fits # page.objects]

GoesOn(w, token) == token # 0 /\ token \notin w.asked

\* _listObjectsPage, then the loop of listObjectsPages.  The token is that of
\* the last key, or the server repeats the one it was given, or gives none.
ReadPage(i) ==
  /\ Asking(i) /\ search.op # "grep"
  /\ LET page == PageAfter(walk[i])
         w == Taken(walk[i], page)
     IN  \E token \in {page.last, w.token} :
           Walks(i, IF w.cut \/ ~page.truncated THEN [w EXCEPT !.state = "done"]
                    ELSE IF GoesOn(w, token) THEN [w EXCEPT !.token = token, !.asked = @ \cup {token}]
                    ELSE [w EXCEPT !.state = "done", !.stuck = TRUE])

MatchStarts(lines, multiline) == {j \in DOMAIN lines : lines[j] /\ ~(multiline /\ j > 1 /\ lines[j - 1])}
Matches(groups, multiline) ==
  UNION {{<<i, j>> : j \in MatchStarts(groups[i], multiline)} : i \in DOMAIN groups}
MatchesIn(groups, multiline) == Cardinality(Matches(groups, multiline))

Grep(i, groups, reason) ==
  /\ Asking(i) /\ search.op = "grep" /\ \A j \in DOMAIN walk : walk[j].state # "refused"
  /\ MatchesIn(groups, search.multiline) <= search.cap
  /\ Walks(i, [walk[i] EXCEPT !.state = "done", !.reason = reason, !.groups = groups])

DiskFails(i) == Asking(i) /\ Walks(i, [walk[i] EXCEPT !.state = "failed"])

\* The control plane answers 400 before it looks at a disk.
GrepRefused(i) ==
  /\ Asking(i) /\ search.op = "grep"
  /\ \A j \in DOMAIN walk : walk[j].state \in {"asking", "refused"}
  /\ Walks(i, [walk[i] EXCEPT !.state = "refused"])

-----------------------------------------------------------------------------
(* The answers are merged. *)

Merges(result) ==
  /\ Runs /\ \A i \in DOMAIN walk : walk[i].state # "asking"
  /\ found' = result /\ UNCHANGED <<held, mounts, search, walk, always, ever, changes>>

Done == {i \in DOMAIN walk : walk[i].state = "done"}
KeysOf(w) == {KeyOrder[k] : k \in w.objects}
Keys == UNION {{Abs(walk[i].mount, k) : k \in KeysOf(walk[i])} : i \in Done}
DirKeys == UNION {{Abs(walk[i].mount, k) : k \in walk[i].dirs} : i \in Done}

ListingTruncated == \E i \in DOMAIN walk : walk[i].state = "failed" \/ walk[i].cut

MergeListing ==
  /\ search.op = "list"
  /\ Merges([op |-> "list", objects |-> Keys, dirs |-> DirKeys, truncated |-> ListingTruncated])

EndDiskListing ==
  /\ search.op = "disk"
  /\ Merges(IF Done = {} THEN Rejected
            ELSE [op |-> "disk", objects |-> KeysOf(walk[1]), dirs |-> walk[1].dirs, truncated |-> walk[1].cut])

\* globMatcher, with "*" for any one segment.
MatchesPattern(pattern, path) ==
  Len(pattern) = Len(path) /\ \A i \in DOMAIN path : pattern[i] \in {"*", path[i]}

MatchesGlob(q, key) ==
  LET rel == SubSeq(key, Len(ToSegments(q.path)) + 1, Len(key))
  IN  IF q.absolute THEN MatchesPattern(q.pattern, key)
      ELSE IF Len(q.pattern) > 1 THEN MatchesPattern(q.pattern, rel) \/ MatchesPattern(q.pattern, key)
      ELSE MatchesPattern(q.pattern, <<Last(rel)>>)

Wanted(q, key) == ".git" \notin ToSet(key) /\ MatchesGlob(q, key)

\* formatGlobResult: up to the limit, and what fits the output.
FormatGlob(paths, shown, limit) ==
  [op |-> "glob", objects |-> shown, dirs |-> {},
   truncated |-> ListingTruncated \/ (paths # {} /\ (Cardinality(paths) > limit \/ Cardinality(shown) < Cardinality(paths)))]

MergeGlob ==
  /\ search.op = "glob"
  /\ LET paths == {k \in Keys : Wanted(search, k)}
     IN  \E shown \in kSubset(Min({Cardinality(paths), search.limit, MaxGlobLines}), paths) :
           Merges(FormatGlob(paths, shown, search.limit))

\* The groups up to the one with the cap-th match, which ends after the lines
\* of context that follow it.
Seen(groups, multiline, i, j) ==
  Cardinality({m \in Matches(groups, multiline) : m[1] < i \/ (m[1] = i /\ m[2] <= j)})
Ends(groups, cap, multiline, i, j) ==
  Seen(groups, multiline, i, j) = cap /\ ~(multiline /\ j < Len(groups[i]) /\ groups[i][j + 1])

TruncateGroups_KeepsMatches(groups, cap, after, multiline) ==
  LET i == Min({k \in DOMAIN groups : \E j \in DOMAIN groups[k] : Ends(groups, cap, multiline, k, j)})
      j == Min({k \in DOMAIN groups[i] : Ends(groups, cap, multiline, i, k)})
  IN  Append(SubSeq(groups, 1, i - 1), SubSeq(groups[i], 1, Min({j + after, Len(groups[i])})))
TruncateGroups(groups, cap, after, multiline) ==
  LET i == Min({k \in DOMAIN groups : \E j \in DOMAIN groups[k] : Ends(groups, cap, multiline, k, j)})
      j == Min({k \in DOMAIN groups[i] : Ends(groups, cap, multiline, i, k)})
      kept == [k \in 1..Min({j + after, Len(groups[i])}) |-> groups[i][k] /\ k <= j]
  IN  Append(SubSeq(groups, 1, i - 1), kept)

AllGroups ==
  LET all[n \in 0..Len(walk)] ==
        IF n = 0 THEN <<>> ELSE IF walk[n].state = "done" THEN all[n - 1] \o walk[n].groups ELSE all[n - 1]
  IN  all[Len(walk)]

StopReasons == {"completed", "max_results", "deadline", "incomplete", "list_failed"}
Priority == <<"list_failed", "incomplete", "deadline", "max_results">>
StoppedReason(reasons) ==
  LET worst == {k \in DOMAIN Priority : Priority[k] \in reasons}
  IN  IF worst = {} THEN "completed" ELSE Priority[Min(worst)]

MergeGrep ==
  /\ search.op = "grep"
  /\ LET total == MatchesIn(AllGroups, search.multiline)
         reasons == {IF walk[i].state = "failed" THEN "list_failed" ELSE walk[i].reason : i \in DOMAIN walk}
     IN  Merges(IF \E i \in DOMAIN walk : walk[i].state = "refused" THEN Rejected
                ELSE IF total > search.cap
                THEN [op |-> "grep", matches |-> search.cap, reason |-> StoppedReason(reasons \cup {"max_results"}),
                      groups |-> TruncateGroups(AllGroups, search.cap, search.after, search.multiline)]
                ELSE [op |-> "grep", matches |-> total, reason |-> StoppedReason(reasons), groups |-> AllGroups])

WsNext ==
  \/ \E m \in NewMounts : AddDisk(m)
  \/ \E n \in Names : RemoveDisk(n)
  \/ \E path \in Objects : PutObject(path) \/ DeleteObject(path)
  \/ \E q \in Searches : Refuse(q) \/ ListRoot(q) \/ FanOut(q)
  \/ \E i \in DOMAIN walk : ReadPage(i) \/ DiskFails(i) \/ GrepRefused(i)
  \/ \E i \in DOMAIN walk, groups \in GrepAnswers, reason \in StopReasons :
       Grep(i, groups, reason)
  \/ MergeListing \/ EndDiskListing \/ MergeGlob \/ MergeGrep

WsSpec == WsInit /\ [][WsNext]_wsVars

-----------------------------------------------------------------------------

Listed == found.op \in {"list", "disk", "glob"} /\ walk # <<>>

\* What a listing owes for a key that was there all the time.
Accounts(mount, key) ==
  LET name == IF found.op = "disk" THEN key ELSE Abs(mount, key)
  IN  \/ name \in found.objects
      \/ \E prefix \in found.dirs : IsPrefix(prefix, name)
      \/ found.op = "glob" /\ ~Wanted(search, name)

\* A listing or glob that is not marked truncated has every key that was on
\* the disks it covers all the while, whatever was written between its pages,
\* unless a server said there was more and gave no way to it; it lists nothing
\* that was never there; and no server can make it ask for ever.  (listObjects
\* and listObjectsPages of workspace.ts and disk.ts, glob of tools.ts.)
CompleteMeansAll ==
  /\ \A i \in DOMAIN walk : walk[i].requests <= Len(KeyOrder) + 1
  /\ Listed => \A i \in DOMAIN walk :
       /\ KeysOf(walk[i]) \subseteq ever[walk[i].mount.disk]
       /\ ~found.truncated /\ ~walk[i].stuck =>
            \A k \in always[walk[i].mount.disk] : Below(walk[i].rel, k) => Accounts(walk[i].mount, k)

\* A key that a listing names leads back to the object it was listed for, as
\* long as the disk is still mounted there: abs() undoes diskKey(), with and
\* without a subdirectory.
ListedKeysRoute ==
  Listed => \A i \in Done : walk[i].mount \in ToSet(mounts) =>
    \A k \in KeysOf(walk[i]) : Route(Abs(walk[i].mount, k)) = [disk |-> walk[i].mount.disk, key |-> k]

\* The globs of a search at the root, sent to the mounts one by one, select
\* the files that ripgrep's rules select when they are read against the
\* workspace as one tree, whose mounts are named literally.  (rootGlobs, which
\* reads the mounts and nothing else: the lists of globs are tried on the
\* mounts that a listing of the root named.)
GlobsMeanTheSame ==
  found.op = "list" /\ walk = <<>> /\ found.dirs = {<<n>> : n \in Names} =>
    \A globs \in GlobLists : (\A g \in ToSet(globs) : ~MisplacedGlob(g)) =>
      LET routed == RootGlobs(globs)
      IN  \A n \in Names, path \in GlobPaths :
            Selected(globs, <<n>> \o path, 1) <=> n \in DOMAIN routed /\ Selected(routed[n], path, 0)

\* A search that says it was completed lost no match of any disk, and the
\* groups hold exactly the matches that are returned, also where the merge cut
\* them.  (grep and truncateGroups.)
GrepIsHonest ==
  found.op = "grep" =>
    /\ MatchesIn(found.groups, search.multiline) = found.matches
    /\ found.reason = "completed" =>
         /\ \A i \in DOMAIN walk : walk[i].reason = "completed"
         /\ found.matches = MatchesIn(AllGroups, search.multiline)

\* Listings and searches are complete where they say so, and the keys of a
\* listing can be used.
AnswersAreHonest == CompleteMeansAll /\ ListedKeysRoute /\ GrepIsHonest
=============================================================================
