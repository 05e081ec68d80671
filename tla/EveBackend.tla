------------------------------ MODULE EveBackend ------------------------------
(***************************************************************************)
(* The Eve backend (packages/eve/src/sandbox.ts): prewarm() fills a        *)
(* temporary directory and publishes it as a template, create() copies the *)
(* template into a session's directory in one script.  Scripts run line by *)
(* line in containers that hold the delegation of the parent directory;    *)
(* seed files and a session's files are written through the object API,    *)
(* which holds nothing.                                                    *)
(*                                                                         *)
(* One template and one session key.  A directory is the set of its files. *)
(* A container may die at any line and a caller may give up on one that    *)
(* runs on.  Prewarms of the template may overlap, and they share one      *)
(* temporary directory: wiped remembers that one removed it under another. *)
(***************************************************************************)
EXTENDS Naturals, Sequences, FiniteSets

CONSTANTS
  Prewarms,  \* calls of prewarm()
  Creates,   \* calls of create()
  Seeds,     \* input.seedFiles
  MaxCalls   \* bound: calls that are made

ASSUME EveAssumption ==
  Prewarms \cap Creates = {} /\ IsFiniteSet(Prewarms \cup Creates \cup Seeds) /\ MaxCalls \in Nat

VARIABLES
  call,       \* where each call is
  script,     \* the container of each call: its lines to run, and its end
  puts,       \* object writes on their way, with the directory they name
  dir,        \* the directories of the disk
  parents,    \* controlParentsReady
  templated,  \* whether create() names the template: input.templateKey
  kept,       \* whether the session holds work that nobody removed
  wiped       \* history: whether a prewarm removed what another was filling

eveVars == <<call, script, puts, dir, parents, templated, kept, wiped>>

EveCalls == Prewarms \cup Creates
Ready == "ready"      \* TEMPLATE_READY_FILE, SESSION_READY_FILE
Boot == "boot"        \* what bootstrap() writes
Work == "work"        \* what a session's user writes
Nested == "nested"    \* the temporary directory, moved into a directory that exists
Files == Seeds \cup {Ready, Boot, Work, Nested}
NoDir == {"no directory"}

TmpOf(c) == IF c \in Prewarms THEN "templateTmp" ELSE "sessionTmp"
TargetOf(c) == IF c \in Prewarms THEN "template" ELSE "session"
Dirs == {"templateTmp", "template", "sessionTmp", "session"}
Whole == Seeds \cup {Boot}

\* Files of different parts are different: no seed names a marker, or a file that
\* bootstrap() or a session's user writes.
ASSUME SeedsAssumption == Seeds \cap {Ready, Boot, Work, Nested, "no directory"} = {}

Idle == [lines |-> <<>>, strict |-> FALSE, state |-> "none", exit |-> 0]
Lines == {"check", "template", "rm", "mkdir", "copy", "touch", "rmTarget", "mkdirParent", "mv"}

EveTypeOK ==
  /\ call \in [EveCalls -> {"idle", "parents", "prepare", "bootstrap", "seeds", "publish",
                            "create", "ok", "reused", "missing", "failed"}]
  /\ \A c \in EveCalls :
       /\ script[c].lines \in Seq(Lines) /\ script[c].strict \in BOOLEAN
       /\ script[c].state \in {"none", "queued", "running", "over"}
       /\ script[c].exit \in {0, 1, 67}
  /\ puts \subseteq Prewarms \X Seeds
  /\ dir \in [Dirs -> (SUBSET Files) \cup {NoDir}]
  /\ parents \in {"none", "pending", "ready"}
  /\ templated \in BOOLEAN /\ kept \in BOOLEAN /\ wiped \in BOOLEAN

EveInit ==
  /\ call = [c \in EveCalls |-> "idle"] /\ script = [c \in EveCalls |-> Idle]
  /\ puts = {} /\ dir = [d \in Dirs |-> NoDir]
  /\ parents = "none" /\ templated \in BOOLEAN /\ kept = FALSE /\ wiped = FALSE

-----------------------------------------------------------------------------
(* The scripts. *)

PublishLines == <<"touch", "rmTarget", "mkdirParent", "mv">>
PrepareLines == <<"check", "rm", "mkdir">>

SessionLines ==
  IF templated THEN <<"check", "template", "rm", "mkdir", "copy">> \o PublishLines
               ELSE <<"check", "rm", "mkdir">> \o PublishLines

Exec(c, lines, strict) ==
  script' = [script EXCEPT ![c] = [lines |-> lines, strict |-> strict, state |-> "queued", exit |-> 0]]

\* Two scripts under one parent directory exclude each other.
Holds(c) == script[c].state = "running"

MayStart_NoCheckout(c) == TRUE

MayStart(c) == \A d \in EveCalls : Holds(d) => TargetOf(d) # TargetOf(c)

ContainerStarts(c) ==
  /\ script[c].state = "queued" /\ MayStart(c)
  /\ script' = [script EXCEPT ![c].state = "running"]
  /\ UNCHANGED <<call, puts, dir, parents, templated, kept, wiped>>

\* What is left of a script that ended in an error, nobody asks.
Exit(c, code) ==
  script' = [script EXCEPT ![c] = [lines |-> IF code = 0 THEN @.lines ELSE <<>>,
                                   strict |-> FALSE, state |-> "over", exit |-> code]]

Advance(c) ==
  IF Len(script[c].lines) = 1 THEN Exit(c, 0)
  ELSE script' = [script EXCEPT ![c].lines = Tail(@)]

\* mv into a directory that exists puts the source inside it.
Moved(c) ==
  IF dir[TargetOf(c)] = NoDir
    THEN [dir EXCEPT ![TargetOf(c)] = dir[TmpOf(c)], ![TmpOf(c)] = NoDir]
    ELSE [dir EXCEPT ![TargetOf(c)] = @ \cup {Nested}, ![TmpOf(c)] = NoDir]

Contents(d) == IF dir[d] = NoDir THEN {} ELSE dir[d]

After(c, line) ==
  CASE line = "rm"       -> [dir EXCEPT ![TmpOf(c)] = NoDir]
    [] line = "mkdir"    -> [dir EXCEPT ![TmpOf(c)] = Contents(TmpOf(c))]
    [] line = "copy"     -> [dir EXCEPT ![TmpOf(c)] = @ \cup dir["template"]]
    [] line = "touch"    -> [dir EXCEPT ![TmpOf(c)] = @ \cup {Ready}]
    [] line = "rmTarget" -> [dir EXCEPT ![TargetOf(c)] = NoDir]
    [] line = "mv"       -> Moved(c)
    [] OTHER             -> dir

Impossible(c, line) ==
  \/ line \in {"touch", "mv"} /\ dir[TmpOf(c)] = NoDir
  \/ line = "copy" /\ (dir["template"] = NoDir \/ dir[TmpOf(c)] = NoDir)

Answers(c, at) == call[c] = at /\ script[c].state = "over"

\* A prewarm has cleared the temporary directory and may still publish it,
\* whether its caller waits or has given up.
Filling(c) ==
  \/ call[c] \in {"bootstrap", "seeds"}
  \/ script[c].state \in {"queued", "running"} /\ Head(script[c].lines) \notin {"check", "rm"}
  \/ Answers(c, "prepare") /\ script[c].exit = 0 /\ Head(script[c].lines) # "check"

\* The next line of c removes the directory that another prewarm fills.
Wipes(c) ==
  c \in Prewarms /\ Head(script[c].lines) = "rm" /\ \E p \in Prewarms \ {c} : Filling(p)

\* The two tests of a script end it; every other line does its work.
RunLine(c) ==
  LET line == Head(script[c].lines) IN
  /\ script[c].state = "running" /\ ~Impossible(c, line)
  /\ dir' = After(c, line)
  /\ \/ line = "check" /\ Ready \in dir[TargetOf(c)] /\ Exit(c, 0)
     \/ line = "template" /\ Ready \notin dir["template"] /\ Exit(c, 67)
     \/ /\ line = "check" => Ready \notin dir[TargetOf(c)]
        /\ line = "template" => Ready \in dir["template"]
        /\ Advance(c)
  /\ wiped' = (wiped \/ Wipes(c))
  /\ UNCHANGED <<call, puts, parents, templated, kept>>

\* A line fails, a removal or a copy half way; set -e ends the script with it,
\* and without it the script goes on and ends as its last line does.
LineFails(c) ==
  LET line == Head(script[c].lines) IN
  /\ script[c].state = "running" /\ line \notin {"check", "template"}
  /\ \/ UNCHANGED dir
     \/ line = "copy" /\ \E some \in SUBSET Contents("template") :
          dir[TmpOf(c)] # NoDir /\ dir' = [dir EXCEPT ![TmpOf(c)] = @ \cup some]
     \/ \E d \in {TmpOf(c), TargetOf(c)} : \E some \in SUBSET Contents(d) :
          /\ line = (IF d = TmpOf(c) THEN "rm" ELSE "rmTarget")
          /\ dir[d] # NoDir /\ dir' = [dir EXCEPT ![d] = some]
  /\ IF script[c].strict \/ Len(script[c].lines) = 1 THEN Exit(c, 1) ELSE Advance(c)
  /\ wiped' = (wiped \/ Wipes(c))
  /\ UNCHANGED <<call, puts, parents, templated, kept>>

\* The queue times out or the container dies.
ContainerDies(c) ==
  /\ script[c].state \in {"queued", "running"} /\ Exit(c, 1)
  /\ UNCHANGED <<call, puts, dir, parents, templated, kept, wiped>>

-----------------------------------------------------------------------------
(* The calls. *)

Goes(c, to) == call' = [call EXCEPT ![c] = to]

\* ensureControlParents: the first call makes the directories, the others
\* await its promise, which a failure forgets.
Starts(c) ==
  /\ call[c] = "idle" /\ Cardinality({d \in EveCalls : call[d] # "idle"}) < MaxCalls
  /\ Goes(c, "parents")
  /\ parents' = IF parents = "none" THEN "pending" ELSE parents
  /\ UNCHANGED <<script, puts, dir, templated, kept, wiped>>

ParentsMade ==
  /\ parents = "pending" /\ parents' = "ready"
  /\ UNCHANGED <<call, script, puts, dir, templated, kept, wiped>>

ParentsFail ==
  /\ parents = "pending" /\ parents' = "none"
  /\ call' = [c \in EveCalls |-> IF call[c] = "parents" THEN "failed" ELSE call[c]]
  /\ UNCHANGED <<script, puts, dir, templated, kept, wiped>>

ParentsReady(c) ==
  /\ call[c] = "parents" /\ parents = "ready"
  /\ \/ c \in Prewarms /\ Exec(c, PrepareLines, TRUE) /\ Goes(c, "prepare")
     \/ c \in Creates /\ Exec(c, SessionLines, TRUE) /\ Goes(c, "create")
  /\ UNCHANGED <<puts, dir, parents, templated, kept, wiped>>

\* The caller of exec() gives up; what it started goes on.
ExecLost(c) ==
  /\ call[c] \in {"prepare", "publish", "create"} /\ Goes(c, "failed")
  /\ UNCHANGED <<script, puts, dir, parents, templated, kept, wiped>>

\* prepare printed "reused" when its test ended it.
Prepared(c) ==
  /\ Answers(c, "prepare")
  /\ Goes(c, IF script[c].exit # 0 THEN "failed"
             ELSE IF Head(script[c].lines) = "check" THEN "reused" ELSE "bootstrap")
  /\ UNCHANGED <<script, puts, dir, parents, templated, kept, wiped>>

\* bootstrap() writes through a session on the temporary directory.
Bootstraps(c) ==
  /\ call[c] = "bootstrap"
  /\ \/ /\ dir' = [dir EXCEPT !["templateTmp"] = Contents("templateTmp") \cup {Boot}]
        /\ Goes(c, "seeds") /\ puts' = puts \cup {<<c, s>> : s \in Seeds}
     \/ Goes(c, "failed") /\ UNCHANGED <<dir, puts>>
  /\ UNCHANGED <<script, parents, templated, kept, wiped>>

\* A put lands, also after its prewarm gave up; a put that fails ends the
\* prewarm while the others are on their way.
PutLands(c, s) ==
  /\ <<c, s>> \in puts /\ puts' = puts \ {<<c, s>>}
  /\ dir' = [dir EXCEPT !["templateTmp"] = Contents("templateTmp") \cup {s}]
  /\ UNCHANGED <<call, script, parents, templated, kept, wiped>>

PutFails(c, s) ==
  /\ <<c, s>> \in puts /\ puts' = puts \ {<<c, s>>}
  /\ Goes(c, IF call[c] = "seeds" THEN "failed" ELSE call[c])
  /\ UNCHANGED <<script, dir, parents, templated, kept, wiped>>

AllSeeded_First(c) == \E s \in Seeds : <<c, s>> \notin puts

AllSeeded(c) == \A s \in Seeds : <<c, s>> \notin puts

Publishes(c) ==
  /\ call[c] = "seeds" /\ AllSeeded(c)
  /\ Exec(c, PublishLines, FALSE) /\ Goes(c, "publish")
  /\ UNCHANGED <<puts, dir, parents, templated, kept, wiped>>

\* expectSuccess, and the exit code of a missing template.
Finishes(c) ==
  /\ Answers(c, "publish") \/ Answers(c, "create")
  /\ Goes(c, CASE script[c].exit = 0 -> "ok" [] script[c].exit = 67 -> "missing" [] OTHER -> "failed")
  /\ UNCHANGED <<script, puts, dir, parents, templated, kept, wiped>>

\* The handle that create() returned writes and removes files.
SessionWrites(c) ==
  /\ c \in Creates /\ call[c] = "ok" /\ kept' = TRUE
  /\ dir' = [dir EXCEPT !["session"] = Contents("session") \cup {Work}]
  /\ UNCHANGED <<call, script, puts, parents, templated, wiped>>

SessionRemoves(c) ==
  /\ c \in Creates /\ call[c] = "ok" /\ kept /\ kept' = FALSE
  /\ dir' = [dir EXCEPT !["session"] = Contents("session") \ {Work}]
  /\ UNCHANGED <<call, script, puts, parents, templated, wiped>>

-----------------------------------------------------------------------------
EveNext ==
  \/ ParentsMade \/ ParentsFail
  \/ \E c \in EveCalls :
       \/ Starts(c) \/ ParentsReady(c) \/ ExecLost(c) \/ Prepared(c) \/ Bootstraps(c)
       \/ Publishes(c) \/ Finishes(c) \/ SessionWrites(c) \/ SessionRemoves(c)
       \/ ContainerStarts(c) \/ RunLine(c) \/ LineFails(c) \/ ContainerDies(c)
       \/ \E s \in Seeds : PutLands(c, s) \/ PutFails(c, s)

EveSpec == EveInit /\ [][EveNext]_eveVars

\* A template marked ready holds every seed file and what bootstrap wrote, and
\* so does a session made from it, from the moment its marker is there: whatever
\* fails, dies or runs on, and however prewarms overlap, unless one of them
\* removed the temporary directory while another was filling it.
TemplateIsWhole == Ready \in dir["template"] => Whole \subseteq dir["template"]
SessionIsWhole == templated /\ Ready \in dir["session"] => Whole \subseteq dir["session"]
PublishedIsWhole == ~wiped => TemplateIsWhole /\ SessionIsWhole

\* Once a handle has written to a session, no create() of the same session
\* discards it: not one that runs beside it, and not the container of one
\* whose caller gave up long ago.
SessionKeepsWork == kept => Work \in dir["session"]
=============================================================================
