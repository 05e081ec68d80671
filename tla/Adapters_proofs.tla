---------------------------- MODULE Adapters_proofs ----------------------------
(***************************************************************************)
(* Theorems about EveBackend, Workspace and ArchilFs, three components     *)
(* that share no state, and about their composition.                       *)
(*                                                                         *)
(* EveBackend: as long as no prewarm removes the temporary directory under *)
(* another, the one that fills it is alone in doing so until its script    *)
(* has published it, a create that found no session is alone with it while *)
(* its container holds the delegation, and each script is followed line by *)
(* line, whether a line runs or fails.                                     *)
(*                                                                         *)
(* Workspace: a walk of a listing has, page by page, every key up to its   *)
(* token that was on the disk all the while, what a merge returns is what  *)
(* the walks took, and a name that a listing makes for a key leads back to *)
(* it.  Globs are routed to the mounts one by one, and after each of them  *)
(* what a mount was sent says of a file what the globs so far say of it in *)
(* the workspace.  What a recursive function computes is proved by         *)
(* induction, from the least element of a set of natural numbers.          *)
(*                                                                         *)
(* ArchilFs: an inode has one writer, who fills it once, and what a reader *)
(* has got of it agrees with what is in it, whatever others do to the tree *)
(* between two of its calls.                                               *)
(***************************************************************************)
EXTENDS Adapters, FiniteSetTheorems, SequenceTheorems, WellFoundedInduction, TLAPS

-----------------------------------------------------------------------------
(* The Eve backend: the invariant. *)

\* What may be left to run of each script.
PrepareRest == {<<"check", "rm", "mkdir">>, <<"rm", "mkdir">>, <<"mkdir">>}
PublishRest ==
  {<<"touch", "rmTarget", "mkdirParent", "mv">>, <<"rmTarget", "mkdirParent", "mv">>, <<"mkdirParent", "mv">>, <<"mv">>}
CopyRest ==
  {<<"check", "template", "rm", "mkdir", "copy", "touch", "rmTarget", "mkdirParent", "mv">>,
   <<"template", "rm", "mkdir", "copy", "touch", "rmTarget", "mkdirParent", "mv">>,
   <<"rm", "mkdir", "copy", "touch", "rmTarget", "mkdirParent", "mv">>,
   <<"mkdir", "copy", "touch", "rmTarget", "mkdirParent", "mv">>,
   <<"copy", "touch", "rmTarget", "mkdirParent", "mv">>}
FreshRest ==
  {<<"check", "rm", "mkdir", "touch", "rmTarget", "mkdirParent", "mv">>,
   <<"rm", "mkdir", "touch", "rmTarget", "mkdirParent", "mv">>,
   <<"mkdir", "touch", "rmTarget", "mkdirParent", "mv">>}
SessionRest == PublishRest \cup IF templated THEN CopyRest ELSE FreshRest

NextLine(c) == Head(script[c].lines)
ScriptRuns(c) == script[c].state \in {"queued", "running"}

DirsInv ==
  /\ call \in [EveCalls -> {"idle", "parents", "prepare", "bootstrap", "seeds", "publish",
                            "create", "ok", "reused", "missing", "failed"}]
  /\ script \in [EveCalls -> [lines : Seq(Lines), strict : BOOLEAN, state : {"none", "queued", "running", "over"},
                              exit : {0, 1, 67}]]
  /\ puts \subseteq Prewarms \X Seeds
  /\ dir \in [Dirs -> (SUBSET Files) \cup {NoDir}]
  /\ parents \in {"none", "pending", "ready"}
  /\ templated \in BOOLEAN /\ kept \in BOOLEAN /\ wiped \in BOOLEAN

Over(c) == call[c] \in {"ok", "reused", "missing", "failed"}

\* Where a prewarm, its script and its puts are.
PrewarmInv(c) ==
  /\ call[c] # "create"
  /\ call[c] \in {"idle", "parents"} <=> script[c].state = "none" /\ ~Over(c)
  /\ call[c] \in {"bootstrap", "seeds"} => script[c].state = "over"
  /\ call[c] = "prepare" => script[c].state # "none" /\ (ScriptRuns(c) => script[c].lines \in PrepareRest)
  /\ call[c] = "publish" => script[c].state # "none"
  /\ call[c] = "prepare" /\ script[c].state = "over" /\ script[c].exit = 0 => script[c].lines \in {<<"check", "rm", "mkdir">>, <<"mkdir">>}
  /\ ScriptRuns(c) => script[c].lines \in PrepareRest \cup PublishRest /\ call[c] \in {"prepare", "publish", "failed"}
  /\ script[c].state = "queued" => NextLine(c) \in {"check", "touch"}
  /\ \A s \in Seeds : <<c, s>> \in puts => call[c] \in {"seeds", "failed"}

\* A prewarm that found no template, and holds the templates until it has
\* cleared the temporary directory.
Clears(c) == Holds(c) /\ NextLine(c) = "rm"

FillingInv(c) ==
  /\ Filling(c) \/ Clears(c) => Ready \notin dir["template"]
  /\ call[c] = "seeds" => Boot \in dir["templateTmp"] /\ \A s \in Seeds : s \in dir["templateTmp"] \/ <<c, s>> \in puts
  /\ ScriptRuns(c) /\ script[c].lines \in PublishRest => Whole \subseteq dir["templateTmp"]

FillsAlone(c) == Filling(c) => \A d \in Prewarms \ {c} : ~Filling(d)

TemplateInv ==
  /\ \A c, d \in Prewarms : Holds(c) /\ Holds(d) => c = d
  /\ \A c \in Prewarms : PrewarmInv(c)
  /\ ~wiped => TemplateIsWhole /\ \A c \in Prewarms : FillingInv(c) /\ FillsAlone(c)

\* A create of a session that is not there yet.
CreateInv(c) ==
  /\ call[c] \in {"idle", "parents", "create", "ok", "missing", "failed"}
  /\ call[c] \in {"idle", "parents"} => script[c].state = "none"
  /\ call[c] = "create" => script[c].state # "none"
  /\ call[c] = "ok" => Ready \in dir["session"]
  /\ script[c].state = "over" /\ script[c].exit = 0 => Ready \in dir["session"]
  /\ ScriptRuns(c) => script[c].lines \in SessionRest /\ script[c].strict
  /\ script[c].state = "queued" => NextLine(c) = "check"
  /\ Holds(c) /\ NextLine(c) # "check" => Ready \notin dir["session"]
  /\ Holds(c) /\ templated /\ NextLine(c) \in {"rm", "mkdir", "copy"} /\ ~wiped => Ready \in dir["template"]
  /\ Holds(c) /\ templated /\ NextLine(c) \in {"touch", "rmTarget", "mkdirParent", "mv"} /\ ~wiped => Whole \subseteq dir["sessionTmp"]
  /\ Holds(c) /\ NextLine(c) \in {"rmTarget", "mkdirParent", "mv"} => Ready \in dir["sessionTmp"]
  /\ Holds(c) /\ NextLine(c) \in {"mkdirParent", "mv"} => dir["session"] = NoDir

SessionInv ==
  /\ \A c, d \in Creates : Holds(c) /\ Holds(d) => c = d
  /\ \A c \in Creates : CreateInv(c)
  /\ kept => Ready \in dir["session"]
  /\ SessionKeepsWork /\ (~wiped => SessionIsWhole)

EveInv == DirsInv /\ TemplateInv /\ SessionInv

-----------------------------------------------------------------------------
(* The scripts. *)

\* What comes after each line.
LEMMA PrepareNext ==
  ASSUME NEW l \in PrepareRest
  PROVE  /\ l \in Seq(Lines) /\ Tail(l) \in Seq(Lines)
         /\ \/ Head(l) = "check" /\ l = <<"check", "rm", "mkdir">> /\ Len(l) # 1 /\ Tail(l) \in PrepareRest /\ Head(Tail(l)) = "rm"
            \/ Head(l) = "rm" /\ Len(l) # 1 /\ Tail(l) \in PrepareRest /\ Head(Tail(l)) = "mkdir"
            \/ Head(l) = "mkdir" /\ l = <<"mkdir">> /\ Len(l) = 1
PROOF
<1>1. CASE l = <<"check", "rm", "mkdir">>
  <2>1. Tail(l) = <<"rm", "mkdir">>
    BY <1>1
  <2> QED  BY <1>1, <2>1 DEF PrepareRest, Lines
<1>2. CASE l = <<"rm", "mkdir">>
  <2>1. Tail(l) = <<"mkdir">>
    BY <1>2
  <2> QED  BY <1>2, <2>1 DEF PrepareRest, Lines
<1>3. CASE l = <<"mkdir">>
  <2>1. Tail(l) = <<>>
    BY <1>3
  <2> QED  BY <1>3, <2>1 DEF PrepareRest, Lines
<1> QED  BY <1>1, <1>2, <1>3 DEF PrepareRest

LEMMA PublishNext ==
  ASSUME NEW l \in PublishRest
  PROVE  /\ l \in Seq(Lines) /\ Tail(l) \in Seq(Lines)
         /\ \/ Head(l) = "touch" /\ Len(l) # 1 /\ Tail(l) \in PublishRest /\ Head(Tail(l)) = "rmTarget"
            \/ Head(l) = "rmTarget" /\ Len(l) # 1 /\ Tail(l) \in PublishRest /\ Head(Tail(l)) = "mkdirParent"
            \/ Head(l) = "mkdirParent" /\ Len(l) # 1 /\ Tail(l) \in PublishRest /\ Head(Tail(l)) = "mv"
            \/ Head(l) = "mv" /\ Len(l) = 1
PROOF
<1>1. CASE l = <<"touch", "rmTarget", "mkdirParent", "mv">>
  <2>1. Tail(l) = <<"rmTarget", "mkdirParent", "mv">>
    BY <1>1
  <2> QED  BY <1>1, <2>1 DEF PublishRest, Lines
<1>2. CASE l = <<"rmTarget", "mkdirParent", "mv">>
  <2>1. Tail(l) = <<"mkdirParent", "mv">>
    BY <1>2
  <2> QED  BY <1>2, <2>1 DEF PublishRest, Lines
<1>3. CASE l = <<"mkdirParent", "mv">>
  <2>1. Tail(l) = <<"mv">>
    BY <1>3
  <2> QED  BY <1>3, <2>1 DEF PublishRest, Lines
<1>4. CASE l = <<"mv">>
  <2>1. Tail(l) = <<>>
    BY <1>4
  <2> QED  BY <1>4, <2>1 DEF PublishRest, Lines
<1> QED  BY <1>1, <1>2, <1>3, <1>4 DEF PublishRest

LEMMA CopyNext ==
  ASSUME NEW l \in CopyRest
  PROVE  /\ l \in Seq(Lines) /\ Tail(l) \in Seq(Lines) /\ Len(l) # 1
         /\ \/ Head(l) = "check" /\ Tail(l) \in CopyRest /\ Head(Tail(l)) = "template"
            \/ Head(l) = "template" /\ Tail(l) \in CopyRest /\ Head(Tail(l)) = "rm"
            \/ Head(l) = "rm" /\ Tail(l) \in CopyRest /\ Head(Tail(l)) = "mkdir"
            \/ Head(l) = "mkdir" /\ Tail(l) \in CopyRest /\ Head(Tail(l)) = "copy"
            \/ Head(l) = "copy" /\ Tail(l) \in PublishRest /\ Head(Tail(l)) = "touch"
PROOF
<1>1. CASE l = <<"check", "template", "rm", "mkdir", "copy", "touch", "rmTarget", "mkdirParent", "mv">>
  <2>1. Tail(l) = <<"template", "rm", "mkdir", "copy", "touch", "rmTarget", "mkdirParent", "mv">>
    BY <1>1
  <2> QED  BY <1>1, <2>1 DEF CopyRest, Lines
<1>2. CASE l = <<"template", "rm", "mkdir", "copy", "touch", "rmTarget", "mkdirParent", "mv">>
  <2>1. Tail(l) = <<"rm", "mkdir", "copy", "touch", "rmTarget", "mkdirParent", "mv">>
    BY <1>2
  <2> QED  BY <1>2, <2>1 DEF CopyRest, Lines
<1>3. CASE l = <<"rm", "mkdir", "copy", "touch", "rmTarget", "mkdirParent", "mv">>
  <2>1. Tail(l) = <<"mkdir", "copy", "touch", "rmTarget", "mkdirParent", "mv">>
    BY <1>3
  <2> QED  BY <1>3, <2>1 DEF CopyRest, Lines
<1>4. CASE l = <<"mkdir", "copy", "touch", "rmTarget", "mkdirParent", "mv">>
  <2>1. Tail(l) = <<"copy", "touch", "rmTarget", "mkdirParent", "mv">>
    BY <1>4
  <2> QED  BY <1>4, <2>1 DEF CopyRest, Lines
<1>5. CASE l = <<"copy", "touch", "rmTarget", "mkdirParent", "mv">>
  <2>1. Tail(l) = <<"touch", "rmTarget", "mkdirParent", "mv">>
    BY <1>5
  <2> QED  BY <1>5, <2>1 DEF PublishRest, Lines
<1> QED  BY <1>1, <1>2, <1>3, <1>4, <1>5 DEF CopyRest

LEMMA FreshNext ==
  ASSUME NEW l \in FreshRest
  PROVE  /\ l \in Seq(Lines) /\ Tail(l) \in Seq(Lines) /\ Len(l) # 1
         /\ \/ Head(l) = "check" /\ Tail(l) \in FreshRest /\ Head(Tail(l)) = "rm"
            \/ Head(l) = "rm" /\ Tail(l) \in FreshRest /\ Head(Tail(l)) = "mkdir"
            \/ Head(l) = "mkdir" /\ Tail(l) \in PublishRest /\ Head(Tail(l)) = "touch"
PROOF
<1>1. CASE l = <<"check", "rm", "mkdir", "touch", "rmTarget", "mkdirParent", "mv">>
  <2>1. Tail(l) = <<"rm", "mkdir", "touch", "rmTarget", "mkdirParent", "mv">>
    BY <1>1
  <2> QED  BY <1>1, <2>1 DEF FreshRest, Lines
<1>2. CASE l = <<"rm", "mkdir", "touch", "rmTarget", "mkdirParent", "mv">>
  <2>1. Tail(l) = <<"mkdir", "touch", "rmTarget", "mkdirParent", "mv">>
    BY <1>2
  <2> QED  BY <1>2, <2>1 DEF FreshRest, Lines
<1>3. CASE l = <<"mkdir", "touch", "rmTarget", "mkdirParent", "mv">>
  <2>1. Tail(l) = <<"touch", "rmTarget", "mkdirParent", "mv">>
    BY <1>3
  <2> QED  BY <1>3, <2>1 DEF PublishRest, Lines
<1> QED  BY <1>1, <1>2, <1>3 DEF FreshRest

LEMMA SessionScript ==
  SessionLines \in SessionRest /\ SessionLines \in Seq(Lines) /\ Head(SessionLines) = "check"
PROOF
<1>1. CASE templated
  <2> DEFINE s == <<"check", "template", "rm", "mkdir", "copy">>
             t == <<"touch", "rmTarget", "mkdirParent", "mv">>
             l == <<"check", "template", "rm", "mkdir", "copy", "touch", "rmTarget", "mkdirParent", "mv">>
  <2>1. s \in Seq(Lines) /\ t \in Seq(Lines) /\ l \in Seq(Lines) /\ l \in CopyRest /\ Head(l) = "check"
    BY DEF Lines, CopyRest
  <2>2. /\ Len(s) = 5 /\ Len(t) = 4 /\ Len(l) = 9
        /\ \A i \in 1..9 : l[i] = IF i <= 5 THEN s[i] ELSE t[i - 5]
    OBVIOUS
  <2>3. SessionLines = s \o t
    BY <1>1 DEF SessionLines, PublishLines
  <2> HIDE DEF s, t, l
  <2>4. s \o t = l
    <3>1. /\ s \o t \in Seq(Lines) /\ Len(s \o t) = Len(s) + Len(t)
          /\ \A i \in 1..Len(s) + Len(t) : (s \o t)[i] = IF i <= Len(s) THEN s[i] ELSE t[i - Len(s)]
      BY <2>1, ConcatProperties, Zenon
    <3>2. Len(s \o t) = Len(l) /\ \A i \in 1..Len(s \o t) : (s \o t)[i] = l[i]
      BY <2>2, <3>1
    <3> QED  BY <2>1, <3>1, <3>2, SeqEqual, Zenon
  <2> QED  BY <1>1, <2>1, <2>3, <2>4 DEF SessionRest
<1>2. CASE ~templated
  <2> DEFINE s == <<"check", "rm", "mkdir">>
             t == <<"touch", "rmTarget", "mkdirParent", "mv">>
             l == <<"check", "rm", "mkdir", "touch", "rmTarget", "mkdirParent", "mv">>
  <2>1. s \in Seq(Lines) /\ t \in Seq(Lines) /\ l \in Seq(Lines) /\ l \in FreshRest /\ Head(l) = "check"
    BY DEF Lines, FreshRest
  <2>2. /\ Len(s) = 3 /\ Len(t) = 4 /\ Len(l) = 7
        /\ \A i \in 1..7 : l[i] = IF i <= 3 THEN s[i] ELSE t[i - 3]
    OBVIOUS
  <2>3. SessionLines = s \o t
    BY <1>2 DEF SessionLines, PublishLines
  <2> HIDE DEF s, t, l
  <2>4. s \o t = l
    <3>1. /\ s \o t \in Seq(Lines) /\ Len(s \o t) = Len(s) + Len(t)
          /\ \A i \in 1..Len(s) + Len(t) : (s \o t)[i] = IF i <= Len(s) THEN s[i] ELSE t[i - Len(s)]
      BY <2>1, ConcatProperties, Zenon
    <3>2. Len(s \o t) = Len(l) /\ \A i \in 1..Len(s \o t) : (s \o t)[i] = l[i]
      BY <2>2, <3>1
    <3> QED  BY <2>1, <3>1, <3>2, SeqEqual, Zenon
  <2> QED  BY <1>2, <2>1, <2>3, <2>4 DEF SessionRest
<1> QED  BY <1>1, <1>2

-----------------------------------------------------------------------------
(* Steps of a container. *)

Scripts == [lines : Seq(Lines), strict : BOOLEAN, state : {"none", "queued", "running", "over"}, exit : {0, 1, 67}]

\* The script of c becomes r.
Becomes(c, r) == r \in Scripts /\ script' = [script EXCEPT ![c] = r]
Ended(c, r, code) ==
  r.state = "over" /\ r.exit = code /\ (code = 0 => r.lines = script[c].lines)

LEMMA ExitStep ==
  ASSUME DirsInv, NEW c \in EveCalls, NEW code \in {0, 1, 67}, Exit(c, code)
  PROVE  \E r : Becomes(c, r) /\ Ended(c, r, code)
PROOF
<1> DEFINE r == [lines |-> IF code = 0 THEN script[c].lines ELSE <<>>, strict |-> FALSE, state |-> "over", exit |-> code]
<1>1. script[c] \in Scripts /\ script \in [EveCalls -> Scripts] /\ <<>> \in Seq(Lines)
  BY DEF DirsInv, Scripts
<1>2. r \in Scripts /\ Ended(c, r, code)
  BY <1>1 DEF Scripts, Ended
<1>3. script' = [script EXCEPT ![c] = r]
  BY <1>1 DEF Exit
<1> HIDE DEF r
<1> QED  BY <1>2, <1>3 DEF Becomes

\* A line that did not end the script.
LinesGoOn(c, r) ==
  /\ Len(script[c].lines) # 1 /\ r.lines = Tail(script[c].lines) /\ r.strict = script[c].strict
  /\ r.state = script[c].state /\ r.exit = script[c].exit

LEMMA AdvanceStep ==
  ASSUME DirsInv, NEW c \in EveCalls, Advance(c), Tail(script[c].lines) \in Seq(Lines)
  PROVE  \E r : Becomes(c, r) /\ (LinesGoOn(c, r) \/ (Len(script[c].lines) = 1 /\ Ended(c, r, 0)))
PROOF
<1>1. script[c] \in Scripts /\ script \in [EveCalls -> Scripts]
  BY DEF DirsInv, Scripts
<1>2. CASE Len(script[c].lines) = 1
  BY <1>2, ExitStep DEF Advance
<1>3. CASE Len(script[c].lines) # 1
  <2> DEFINE r == [script[c] EXCEPT !.lines = Tail(script[c].lines)]
  <2>1. r \in Scripts /\ LinesGoOn(c, r)
    BY <1>1, <1>3 DEF Scripts, LinesGoOn
  <2>2. script' = [script EXCEPT ![c] = r]
    BY <1>1, <1>3 DEF Advance
  <2> HIDE DEF r
  <2> QED  BY <2>1, <2>2 DEF Becomes
<1> QED  BY <1>2, <1>3

\* What a script does to the directories is among its own and what it copies.
LEMMA AfterIsDirs ==
  ASSUME DirsInv, SeedsAssumption, NEW c \in EveCalls, NEW line, ~Impossible(c, line), dir' = After(c, line)
  PROVE  dir' \in [Dirs -> (SUBSET Files) \cup {NoDir}]
PROOF
<1>1. dir \in [Dirs -> (SUBSET Files) \cup {NoDir}] /\ TmpOf(c) \in Dirs /\ TargetOf(c) \in Dirs /\ "template" \in Dirs
  BY DEF DirsInv, TmpOf, TargetOf, Dirs
<1>2. PICK t \in Dirs : t = TmpOf(c)
  BY <1>1
<1>3. PICK g \in Dirs : g = TargetOf(c)
  BY <1>1
<1>4. Ready \in Files /\ Nested \in Files
  BY DEF Files
<1>5. CASE line = "rm"
  BY <1>1, <1>2, <1>5 DEF After
<1>6. CASE line = "mkdir"
  BY <1>1, <1>2, <1>6 DEF After, Contents
<1>7. CASE line = "copy"
  <2>1. dir["template"] \in SUBSET Files /\ dir[t] \in SUBSET Files
    BY <1>1, <1>2, <1>7 DEF Impossible
  <2>2. dir' = [dir EXCEPT ![t] = dir[t] \cup dir["template"]]
    BY <1>2, <1>7 DEF After
  <2> QED  BY <1>1, <2>1, <2>2
<1>8. CASE line = "touch"
  <2>1. dir[t] \in SUBSET Files
    BY <1>1, <1>2, <1>8 DEF Impossible
  <2>2. dir' = [dir EXCEPT ![t] = dir[t] \cup {Ready}]
    BY <1>2, <1>8 DEF After
  <2> QED  BY <1>1, <1>4, <2>1, <2>2
<1>9. CASE line = "rmTarget"
  BY <1>1, <1>3, <1>9 DEF After
<1>10. CASE line = "mv"
  <2>1. dir[t] \in SUBSET Files
    BY <1>1, <1>2, <1>10 DEF Impossible
  <2>2. dir' = IF dir[g] = NoDir THEN [dir EXCEPT ![g] = dir[t], ![t] = NoDir]
               ELSE [dir EXCEPT ![g] = dir[g] \cup {Nested}, ![t] = NoDir]
    BY <1>1, <1>2, <1>3, <1>10 DEF After, Moved
  <2>3. dir[g] # NoDir => dir[g] \cup {Nested} \in SUBSET Files
    BY <1>1, <1>4
  <2> QED  BY <1>1, <2>1, <2>2, <2>3
<1>11. CASE line \notin {"rm", "mkdir", "copy", "touch", "rmTarget", "mv"}
  BY <1>1, <1>11 DEF After
<1> QED  BY <1>5, <1>6, <1>7, <1>8, <1>9, <1>10, <1>11

\* A line that fails leaves what was there, less or more of it.
LEMMA FailedIsDirs ==
  ASSUME DirsInv, NEW c \in EveCalls, LineFails(c)
  PROVE  dir' \in [Dirs -> (SUBSET Files) \cup {NoDir}]
PROOF
<1>1. dir \in [Dirs -> (SUBSET Files) \cup {NoDir}] /\ TmpOf(c) \in Dirs /\ TargetOf(c) \in Dirs /\ "template" \in Dirs
  BY DEF DirsInv, TmpOf, TargetOf, Dirs
<1>2. \A d \in Dirs : Contents(d) \in SUBSET Files
  BY <1>1 DEF Contents
<1>3. CASE dir' = dir
  BY <1>1, <1>3
<1>4. ASSUME NEW some \in SUBSET Contents("template"), NEW d \in Dirs,
             dir[d] # NoDir, dir' = [dir EXCEPT ![d] = @ \cup some]
      PROVE  dir' \in [Dirs -> (SUBSET Files) \cup {NoDir}]
  <2>1. dir[d] \cup some \in SUBSET Files
    BY <1>1, <1>2, <1>4
  <2> QED  BY <1>1, <1>4, <2>1
<1>5. ASSUME NEW d \in Dirs, NEW some \in SUBSET Contents(d), dir' = [dir EXCEPT ![d] = some]
      PROVE  dir' \in [Dirs -> (SUBSET Files) \cup {NoDir}]
  BY <1>1, <1>2, <1>5
<1>6. \/ dir' = dir
      \/ \E some \in SUBSET Contents("template") : dir[TmpOf(c)] # NoDir /\ dir' = [dir EXCEPT ![TmpOf(c)] = @ \cup some]
      \/ \E d \in {TmpOf(c), TargetOf(c)} : \E some \in SUBSET Contents(d) : dir' = [dir EXCEPT ![d] = some]
  BY DEF LineFails
<1> QED  BY <1>1, <1>3, <1>4, <1>5, <1>6

-----------------------------------------------------------------------------
(* One call moves. *)

\* The name of a directory depends on the kind of the call only.
LEMMA DirNames ==
  ASSUME EveAssumption
  PROVE  /\ \A c \in Prewarms : c \in EveCalls /\ TmpOf(c) = "templateTmp" /\ TargetOf(c) = "template"
         /\ \A c \in Creates : c \in EveCalls /\ c \notin Prewarms /\ TmpOf(c) = "sessionTmp" /\ TargetOf(c) = "session"
PROOF
<1> QED  BY DEF EveAssumption, EveCalls, TmpOf, TargetOf

\* A script that runs has lines left, and what is left after the next is a script.
LEMMA RestIsScript ==
  ASSUME EveInv, NEW c \in EveCalls, ScriptRuns(c)
  PROVE  Tail(script[c].lines) \in Seq(Lines)
PROOF
<1>1. CASE c \in Prewarms
  <2>1. script[c].lines \in PrepareRest \cup PublishRest
    BY <1>1 DEF EveInv, TemplateInv, PrewarmInv
  <2> QED  BY <2>1, PrepareNext, PublishNext
<1>2. CASE c \in Creates
  <2>1. script[c].lines \in SessionRest
    BY <1>2 DEF EveInv, SessionInv, CreateInv
  <2>2. script[c].lines \in PublishRest \cup CopyRest \cup FreshRest
    BY <2>1 DEF SessionRest
  <2> QED  BY <2>2, CopyNext, FreshNext, PublishNext
<1> QED  BY <1>1, <1>2 DEF EveCalls

\* What a call and its script are is the same but for c.
Alone(c) == \A d \in EveCalls : d # c => call'[d] = call[d] /\ script'[d] = script[d]

\* A step of c spares the directories of the template, or c holds them and
\* nobody else fills any.
Spares(c) ==
  \/ dir'["template"] = dir["template"] /\ \A f \in Whole : f \in dir["templateTmp"] => f \in dir'["templateTmp"]
  \/ Holds(c) /\ \A d \in Prewarms \ {c} : ~Filling(d)

\* What the other prewarms rely on survives a step of c.
LEMMA PrewarmMoves ==
  ASSUME TemplateInv, NEW c \in Prewarms, Alone(c), ~wiped' => ~wiped,
         \A d \in Prewarms, s \in Seeds : d # c => (<<d, s>> \in puts' <=> <<d, s>> \in puts),
         PrewarmInv(c)', Holds(c)' => \A d \in Prewarms : Holds(d) => d = c,
         ~wiped' => TemplateIsWhole' /\ FillingInv(c)' /\ Spares(c) /\ (Filling(c)' => \A d \in Prewarms \ {c} : ~Filling(d))
  PROVE  TemplateInv'
PROOF
<1>1. ASSUME NEW d \in Prewarms, d # c
      PROVE  /\ call'[d] = call[d] /\ script'[d] = script[d] /\ PrewarmInv(d)'
             /\ (Holds(d)' <=> Holds(d)) /\ (Filling(d)' <=> Filling(d)) /\ (Clears(d)' <=> Clears(d))
  <2>1. call'[d] = call[d] /\ script'[d] = script[d] /\ PrewarmInv(d)
    BY <1>1 DEF TemplateInv, Alone, EveCalls
  <2>2. PrewarmInv(d)'
    BY <1>1, <2>1 DEF PrewarmInv, Over, ScriptRuns, NextLine
  <2>3. (Holds(d)' <=> Holds(d)) /\ (Filling(d)' <=> Filling(d)) /\ (Clears(d)' <=> Clears(d))
    BY <2>1 DEF Holds, Filling, Answers, Clears, NextLine
  <2> QED  BY <2>1, <2>2, <2>3
<1>2. ASSUME NEW d \in Prewarms, d # c, ~wiped' PROVE FillingInv(d)' /\ FillsAlone(d)'
  <2>1. FillingInv(d) /\ FillsAlone(d) /\ Spares(c)
    BY <1>2 DEF TemplateInv
  <2>2. /\ call'[d] = call[d] /\ script'[d] = script[d] /\ (Filling(d)' <=> Filling(d)) /\ (Clears(d)' <=> Clears(d))
        /\ \A s \in Seeds : <<d, s>> \in puts' <=> <<d, s>> \in puts
    BY <1>1, <1>2
  <2>3. FillsAlone(d)'
    BY <1>1, <1>2, <2>1, <2>2 DEF FillsAlone
  <2>4. CASE dir'["template"] = dir["template"] /\ \A f \in Whole : f \in dir["templateTmp"] => f \in dir'["templateTmp"]
    <3>1. Boot \in Whole /\ Seeds \subseteq Whole
      BY DEF Whole
    <3> QED  BY <2>1, <2>2, <2>3, <2>4, <3>1 DEF FillingInv, ScriptRuns
  <2>5. CASE Holds(c) /\ \A e \in Prewarms \ {c} : ~Filling(e)
    <3>1. ~Filling(d) /\ ~Clears(d)
      BY <1>2, <2>5 DEF TemplateInv, Clears
    <3>2. call[d] # "seeds" /\ ~(ScriptRuns(d) /\ script[d].lines \in PublishRest)
      BY <3>1, PublishNext DEF Filling, ScriptRuns
    <3> QED  BY <2>2, <2>3, <3>1, <3>2 DEF FillingInv, ScriptRuns
  <2> QED  BY <2>1, <2>4, <2>5 DEF Spares
<1>3. ~wiped' => FillsAlone(c)'
  BY <1>1 DEF FillsAlone
<1>4. \A d, e \in Prewarms : Holds(d)' /\ Holds(e)' => d = e
  BY <1>1 DEF TemplateInv
<1> QED  BY <1>1, <1>2, <1>3, <1>4 DEF TemplateInv

\* Nothing of the prewarms moves.
LEMMA TemplateRests ==
  ASSUME TemplateInv, puts' = puts, wiped' = wiped,
         dir'["template"] = dir["template"], dir'["templateTmp"] = dir["templateTmp"],
         \A d \in Prewarms : call'[d] = call[d] /\ script'[d] = script[d]
  PROVE  TemplateInv'
PROOF
<1>1. ASSUME NEW d \in Prewarms
      PROVE  PrewarmInv(d)' /\ (Holds(d)' <=> Holds(d)) /\ (Filling(d)' <=> Filling(d)) /\ (~wiped => FillingInv(d)')
  <2>1. call'[d] = call[d] /\ script'[d] = script[d] /\ PrewarmInv(d) /\ (~wiped => FillingInv(d))
    BY DEF TemplateInv
  <2>2. PrewarmInv(d)'
    BY <2>1 DEF Over, PrewarmInv, ScriptRuns, NextLine
  <2>3. (Holds(d)' <=> Holds(d)) /\ (Filling(d)' <=> Filling(d)) /\ (Clears(d)' <=> Clears(d))
    BY <2>1 DEF Holds, Filling, Answers, Clears, NextLine
  <2>4. ~wiped => FillingInv(d)'
    BY <2>1, <2>3 DEF FillingInv, ScriptRuns
  <2> QED  BY <2>2, <2>3, <2>4
<1> QED  BY <1>1 DEF TemplateInv, TemplateIsWhole, FillsAlone

\* Nothing of the creates moves, and the template does not cease to be ready.
LEMMA SessionRests ==
  ASSUME SessionInv, UNCHANGED <<templated, kept>>, ~wiped' => ~wiped,
         dir'["session"] = dir["session"], dir'["sessionTmp"] = dir["sessionTmp"],
         ~wiped' => (Ready \in dir["template"] => Ready \in dir'["template"]),
         \A d \in Creates : call'[d] = call[d] /\ script'[d] = script[d]
  PROVE  SessionInv'
PROOF
<1>1. ASSUME NEW d \in Creates
      PROVE  (Holds(d)' <=> Holds(d)) /\ CreateInv(d)'
  <2>1. call'[d] = call[d] /\ script'[d] = script[d] /\ CreateInv(d)
    BY DEF SessionInv
  <2> QED  BY <2>1 DEF CreateInv, Holds, ScriptRuns, NextLine, SessionRest
<1> QED  BY <1>1 DEF SessionInv, SessionIsWhole, SessionKeepsWork

\* A create moves: it holds the session's parent when it changes something,
\* and changes nothing of a session that is ready.
LEMMA CreateMoves ==
  ASSUME SessionInv, NEW c \in Creates, Alone(c), UNCHANGED <<templated, kept, wiped>>,
         dir'["template"] = dir["template"],
         Holds(c) \/ (dir'["session"] = dir["session"] /\ dir'["sessionTmp"] = dir["sessionTmp"]),
         Holds(c)' => \A d \in Creates : Holds(d) => d = c,
         Ready \in dir["session"] => dir'["session"] = dir["session"],
         ~wiped => SessionIsWhole', CreateInv(c)'
  PROVE  SessionInv'
PROOF
<1>1. ASSUME NEW d \in Creates, d # c
      PROVE  (Holds(d)' <=> Holds(d)) /\ CreateInv(d)'
  <2>1. call'[d] = call[d] /\ script'[d] = script[d] /\ CreateInv(d)
    BY <1>1 DEF SessionInv, Alone, EveCalls
  <2>2. CASE dir'["session"] = dir["session"] /\ dir'["sessionTmp"] = dir["sessionTmp"]
    BY <2>1, <2>2 DEF CreateInv, Holds, ScriptRuns, NextLine, SessionRest
  <2>3. CASE Holds(c)
    <3>1. ~Holds(d) /\ ~Holds(d)'
      BY <1>1, <2>1, <2>3 DEF SessionInv, Holds
    <3> QED  BY <2>1, <3>1 DEF CreateInv, Holds, ScriptRuns, NextLine, SessionRest
  <2> QED  BY <2>2, <2>3
<1>2. \A d, e \in Creates : Holds(d)' /\ Holds(e)' => d = e
  BY <1>1 DEF SessionInv
<1>3. kept' => Ready \in dir'["session"] /\ Work \in dir'["session"]
  BY DEF SessionInv, SessionKeepsWork
<1> QED  BY <1>1, <1>2, <1>3 DEF SessionInv, SessionKeepsWork

\* Steps of c alone that leave the directories and the puts as they are.
Quiet(c) == Alone(c) /\ UNCHANGED <<puts, dir, templated, kept, wiped>>

\* A step of a prewarm does not disturb the creates, nor the reverse.
LEMMA QuietPrewarm ==
  ASSUME EveInv, NEW c \in Prewarms, Quiet(c), DirsInv',
         Holds(c)' => \A d \in Prewarms : Holds(d) => d = c, Filling(c)' => Filling(c),
         PrewarmInv(c)', ~wiped => FillingInv(c)'
  PROVE  EveInv'
PROOF
<1>1. TemplateInv'
  <2>1. \A d \in Prewarms, s \in Seeds : d # c => (<<d, s>> \in puts' <=> <<d, s>> \in puts)
    BY DEF Quiet
  <2>2. ~wiped => TemplateIsWhole' /\ Spares(c) /\ (Filling(c)' => \A d \in Prewarms \ {c} : ~Filling(d))
    BY DEF Quiet, EveInv, TemplateInv, TemplateIsWhole, FillsAlone, Spares
  <2> QED  BY <2>1, <2>2, PrewarmMoves DEF EveInv, Quiet
<1>2. SessionInv'
  BY SessionRests, DirNames, EveAssumption DEF Quiet, Alone, EveInv
<1> QED  BY <1>1, <1>2 DEF EveInv

LEMMA QuietCreate ==
  ASSUME EveInv, NEW c \in Creates, Quiet(c), DirsInv',
         Holds(c)' => \A d \in Creates : Holds(d) => d = c,
         CreateInv(c)'
  PROVE  EveInv'
PROOF
<1>1. TemplateInv'
  BY TemplateRests, DirNames, EveAssumption DEF Quiet, Alone, EveInv
<1>2. SessionInv'
  BY CreateMoves DEF Quiet, EveInv, SessionInv, SessionIsWhole
<1> QED  BY <1>1, <1>2 DEF EveInv

LEMMA StartsEveInv ==
  ASSUME EveInv, NEW c \in EveCalls, Starts(c)
  PROVE  EveInv'
PROOF
<1>1. /\ call[c] = "idle" /\ call' = [call EXCEPT ![c] = "parents"] /\ script' = script
      /\ parents' \in {"none", "pending", "ready"} /\ Quiet(c)
  BY DEF Starts, Goes, Quiet, Alone, EveInv, DirsInv
<1>2. call'[c] = "parents" /\ DirsInv'
  BY <1>1 DEF EveInv, DirsInv, Quiet
<1>3. CASE c \in Prewarms
  <2>1. PrewarmInv(c) /\ script[c].state = "none"
    BY <1>1, <1>3 DEF EveInv, TemplateInv, PrewarmInv
  <2>2. PrewarmInv(c)'
    BY <1>1, <1>2, <2>1 DEF PrewarmInv, Over, ScriptRuns, Quiet
  <2>3. FillingInv(c)' /\ ~Filling(c)' /\ ~Holds(c)'
    BY <1>1, <1>2, <2>1 DEF FillingInv, Filling, Answers, Clears, Holds, ScriptRuns
  <2> QED  BY <1>1, <1>2, <1>3, <2>2, <2>3, QuietPrewarm
<1>4. CASE c \in Creates
  <2>1. CreateInv(c)
    BY <1>4 DEF EveInv, SessionInv
  <2>2. CreateInv(c)' /\ ~Holds(c)'
    BY <1>1, <1>2, <2>1 DEF CreateInv, Holds, ScriptRuns
  <2> QED  BY <1>1, <1>2, <1>4, <2>2, QuietCreate
<1> QED  BY <1>3, <1>4 DEF EveCalls

LEMMA ParentsEveInv ==
  ASSUME EveInv, ParentsMade \/ ParentsFail
  PROVE  EveInv'
PROOF
<1>1. CASE ParentsMade
  <2>1. UNCHANGED <<call, script, puts, dir, templated, kept, wiped>> /\ parents' = "ready"
    BY <1>1 DEF ParentsMade
  <2>2. DirsInv'
    BY <2>1 DEF EveInv, DirsInv
  <2> QED  BY <2>1, <2>2, TemplateRests, SessionRests DEF EveInv
<1>2. CASE ParentsFail
  <2>1. /\ UNCHANGED <<script, puts, dir, templated, kept, wiped>> /\ parents' = "none"
        /\ call' = [c \in EveCalls |-> IF call[c] = "parents" THEN "failed" ELSE call[c]]
    BY <1>2 DEF ParentsFail
  <2>2. DirsInv'
    BY <2>1 DEF EveInv, DirsInv
  <2>3. ASSUME NEW c \in Prewarms
        PROVE  PrewarmInv(c)' /\ (~wiped => FillingInv(c)') /\ (Filling(c)' <=> Filling(c)) /\ (Holds(c)' <=> Holds(c))
    <3>1. PrewarmInv(c) /\ (~wiped => FillingInv(c)) /\ call'[c] = IF call[c] = "parents" THEN "failed" ELSE call[c]
      BY <2>1 DEF EveInv, TemplateInv, EveCalls
    <3>2. PrewarmInv(c)'
      BY <2>1, <3>1 DEF PrewarmInv, Over, ScriptRuns, NextLine
    <3>3. (Filling(c)' <=> Filling(c)) /\ (Clears(c)' <=> Clears(c)) /\ (Holds(c)' <=> Holds(c))
      BY <2>1, <3>1 DEF Filling, Answers, Clears, Holds, NextLine
    <3>4. ~wiped => FillingInv(c)'
      BY <2>1, <3>1, <3>3 DEF FillingInv, ScriptRuns
    <3> QED  BY <3>2, <3>3, <3>4
  <2>4. TemplateInv'
    BY <2>1, <2>3 DEF EveInv, TemplateInv, TemplateIsWhole, FillsAlone
  <2>5. ASSUME NEW c \in Creates PROVE CreateInv(c)' /\ (Holds(c)' <=> Holds(c))
    <3>1. CreateInv(c) /\ call'[c] = IF call[c] = "parents" THEN "failed" ELSE call[c]
      BY <2>1 DEF EveInv, SessionInv, EveCalls
    <3> QED  BY <2>1, <3>1 DEF CreateInv, Holds, ScriptRuns, NextLine, SessionRest
  <2>6. SessionInv'
    BY <2>1, <2>5 DEF EveInv, SessionInv, SessionIsWhole, SessionKeepsWork
  <2> QED  BY <2>2, <2>4, <2>6 DEF EveInv
<1> QED  BY <1>1, <1>2

\* A script is sent.
LEMMA ExecStep ==
  ASSUME DirsInv, NEW c \in EveCalls, NEW lines \in Seq(Lines), NEW strict \in BOOLEAN, Exec(c, lines, strict)
  PROVE  \E r : /\ Becomes(c, r) /\ r.lines = lines /\ r.strict = strict /\ r.state = "queued" /\ r.exit = 0
PROOF
<1> DEFINE r == [lines |-> lines, strict |-> strict, state |-> "queued", exit |-> 0]
<1>1. r \in Scripts /\ r.lines = lines /\ r.strict = strict /\ r.state = "queued" /\ r.exit = 0
  BY DEF Scripts
<1>2. script' = [script EXCEPT ![c] = r]
  BY DEF Exec
<1> HIDE DEF r
<1> QED  BY <1>1, <1>2 DEF Becomes

\* What a call and its script become.
LEMMA BecomesStep ==
  ASSUME DirsInv, NEW c \in EveCalls, NEW r, Becomes(c, r), call' = call \/ \E to : Goes(c, to)
  PROVE  script'[c] = r /\ Alone(c) /\ script' \in [EveCalls -> Scripts]
PROOF
<1>1. script \in [EveCalls -> Scripts] /\ call \in [EveCalls -> {"idle", "parents", "prepare", "bootstrap", "seeds", "publish",
                            "create", "ok", "reused", "missing", "failed"}]
  BY DEF DirsInv, Scripts
<1> QED  BY <1>1 DEF Becomes, Alone, Goes

LEMMA ParentsReadyEveInv ==
  ASSUME EveInv, NEW c \in EveCalls, ParentsReady(c)
  PROVE  EveInv'
PROOF
<1>1. call[c] = "parents" /\ UNCHANGED <<puts, dir, parents, templated, kept, wiped>> /\ DirsInv
  BY DEF ParentsReady, EveInv
<1>2. CASE c \in Prewarms /\ Exec(c, PrepareLines, TRUE) /\ Goes(c, "prepare")
  <2>1. PrepareLines \in PrepareRest /\ Head(PrepareLines) = "check" /\ PrepareLines \in Seq(Lines)
    BY DEF PrepareLines, PrepareRest, Lines
  <2>2. PICK r : Becomes(c, r) /\ r.lines = PrepareLines /\ r.strict = TRUE /\ r.state = "queued" /\ r.exit = 0
    BY <1>1, <1>2, <2>1, ExecStep, Zenon
  <2>3. script'[c] = r /\ Quiet(c) /\ call'[c] = "prepare" /\ DirsInv'
    <3>1. script'[c] = r /\ Alone(c) /\ script' \in [EveCalls -> Scripts]
      BY <1>1, <1>2, <2>2, BecomesStep
    <3> QED  BY <1>1, <1>2, <3>1 DEF Quiet, DirsInv, Goes, Scripts
  <2>4. PrewarmInv(c)
    BY <1>2 DEF EveInv, TemplateInv
  <2>5. PrewarmInv(c)'
    BY <1>1, <2>1, <2>2, <2>3, <2>4 DEF PrewarmInv, Over, ScriptRuns, NextLine
  <2>6. PrepareLines \notin PublishRest
    BY <2>1, PublishNext
  <2>7. FillingInv(c)' /\ ~Filling(c)' /\ ~Holds(c)'
    BY <2>1, <2>2, <2>3, <2>6 DEF FillingInv, Filling, Answers, Clears, Holds, ScriptRuns
  <2> QED  BY <1>2, <2>3, <2>5, <2>7, QuietPrewarm
<1>3. CASE c \in Creates /\ Exec(c, SessionLines, TRUE) /\ Goes(c, "create")
  <2>1. PICK r : Becomes(c, r) /\ r.lines = SessionLines /\ r.strict = TRUE /\ r.state = "queued" /\ r.exit = 0
    BY <1>1, <1>3, SessionScript, ExecStep, Zenon
  <2>2. script'[c] = r /\ Quiet(c) /\ call'[c] = "create" /\ DirsInv'
    <3>1. script'[c] = r /\ Alone(c) /\ script' \in [EveCalls -> Scripts]
      BY <1>1, <1>3, <2>1, BecomesStep
    <3> QED  BY <1>1, <1>3, <3>1 DEF Quiet, DirsInv, Goes, Scripts
  <2>3. SessionLines \in SessionRest' /\ Head(SessionLines) = "check"
    BY <1>1, SessionScript DEF SessionRest
  <2>4. CreateInv(c)' /\ ~Holds(c)'
    BY <2>1, <2>2, <2>3 DEF CreateInv, Holds, ScriptRuns, NextLine
  <2> QED  BY <1>3, <2>2, <2>4, QuietCreate
<1> QED  BY <1>2, <1>3 DEF ParentsReady

\* The caller of a script gives up, or is answered; the script stays as it is.
LEMMA AnsweredEveInv ==
  ASSUME EveInv, NEW c \in EveCalls, ExecLost(c) \/ Prepared(c) \/ Finishes(c)
  PROVE  EveInv'
PROOF
<1>1. UNCHANGED <<script, puts, dir, parents, templated, kept, wiped>> /\ DirsInv
  BY DEF ExecLost, Prepared, Finishes, EveInv
<1>2. ASSUME NEW to \in {"bootstrap", "ok", "reused", "missing", "failed"}, Goes(c, to)
      PROVE  Quiet(c) /\ call'[c] = to /\ DirsInv'
  BY <1>1, <1>2 DEF Quiet, Alone, Goes, DirsInv
<1>3. CASE c \in Prewarms
  <2>1. /\ PrewarmInv(c) /\ (~wiped => FillingInv(c)) /\ script'[c] = script[c] /\ (Holds(c)' <=> Holds(c))
        /\ Holds(c)' => \A d \in Prewarms : Holds(d) => d = c
    BY <1>1, <1>3 DEF EveInv, TemplateInv, Holds
  <2>2. CASE ExecLost(c)
    <3>1. call[c] \in {"prepare", "publish"} /\ Goes(c, "failed")
      BY <2>1, <2>2 DEF ExecLost, PrewarmInv
    <3>2. Quiet(c) /\ call'[c] = "failed" /\ DirsInv'
      BY <1>2, <3>1
    <3>3. PrewarmInv(c)'
      BY <1>1, <2>1, <3>1, <3>2 DEF PrewarmInv, ScriptRuns, Over, NextLine
    <3>4. (Filling(c)' => Filling(c)) /\ (Clears(c)' <=> Clears(c))
      BY <2>1, <3>2 DEF Filling, Answers, Clears, Holds, NextLine
    <3>5. ~wiped => FillingInv(c)'
      BY <1>1, <2>1, <3>2, <3>4 DEF FillingInv, ScriptRuns
    <3> QED  BY <1>3, <2>1, <3>2, <3>3, <3>4, <3>5, QuietPrewarm
  <2>3. CASE Prepared(c) \/ Finishes(c)
    <3>1. script[c].state = "over" /\ call[c] \in {"prepare", "publish"}
      BY <2>1, <2>3 DEF Prepared, Finishes, Answers, PrewarmInv
    <3>2. \/ \E to \in {"ok", "reused", "missing", "failed"} : Goes(c, to)
          \/ Goes(c, "bootstrap") /\ call[c] = "prepare" /\ script[c].exit = 0 /\ NextLine(c) # "check"
      BY <2>3 DEF Prepared, Finishes, Answers, NextLine
    <3>3. PICK to \in {"bootstrap", "ok", "reused", "missing", "failed"} :
            Goes(c, to) /\ (to = "bootstrap" => call[c] = "prepare" /\ script[c].exit = 0 /\ NextLine(c) # "check")
      BY <3>2
    <3>4. Quiet(c) /\ call'[c] = to /\ DirsInv'
      BY <1>2, <3>3
    <3>5. PrewarmInv(c)'
      BY <1>1, <2>1, <3>1, <3>4 DEF PrewarmInv, ScriptRuns, Over, NextLine
    <3>6. (Filling(c)' => Filling(c)) /\ ~Clears(c)'
      BY <2>1, <3>1, <3>3, <3>4 DEF Filling, Answers, Clears, Holds, NextLine
    <3>7. ~wiped => FillingInv(c)'
      BY <1>1, <2>1, <3>1, <3>4, <3>6 DEF FillingInv, ScriptRuns
    <3> QED  BY <1>3, <2>1, <3>4, <3>5, <3>6, <3>7, QuietPrewarm
  <2> QED  BY <2>2, <2>3
<1>4. CASE c \in Creates
  <2>1. CreateInv(c) /\ script'[c] = script[c] /\ SessionInv
    BY <1>1, <1>4 DEF EveInv, SessionInv
  <2>2. /\ call[c] = "create"
        /\ \E to \in {"ok", "missing", "failed"} : Goes(c, to) /\ (to = "ok" => script[c].state = "over" /\ script[c].exit = 0)
    BY <2>1 DEF ExecLost, Prepared, Finishes, Answers, CreateInv
  <2>3. PICK to \in {"ok", "missing", "failed"} : Goes(c, to) /\ (to = "ok" => script[c].state = "over" /\ script[c].exit = 0)
    BY <2>2
  <2>4. Quiet(c) /\ call'[c] = to /\ DirsInv'
    BY <1>2, <2>3
  <2>5. CreateInv(c)' /\ (Holds(c)' <=> Holds(c))
    BY <1>1, <2>1, <2>2, <2>3, <2>4 DEF CreateInv, Holds, ScriptRuns, NextLine, SessionRest
  <2>6. Holds(c)' => \A d \in Creates : Holds(d) => d = c
    BY <1>4, <2>1, <2>5 DEF SessionInv
  <2> QED  BY <1>4, <2>4, <2>5, <2>6, QuietCreate
<1> QED  BY <1>3, <1>4 DEF EveCalls

\* A container starts or dies.
LEMMA ContainerEveInv ==
  ASSUME EveInv, NEW c \in EveCalls, ContainerStarts(c) \/ ContainerDies(c)
  PROVE  EveInv'
PROOF
<1>1. UNCHANGED <<call, puts, dir, parents, templated, kept, wiped>> /\ DirsInv /\ ScriptRuns(c) /\ script[c] \in Scripts
  BY DEF ContainerStarts, ContainerDies, EveInv, DirsInv, ScriptRuns, Scripts
<1>2. PICK r : /\ Becomes(c, r)
               /\ \/ /\ ContainerStarts(c) /\ r.lines = script[c].lines /\ r.strict = script[c].strict
                     /\ r.state = "running" /\ r.exit = script[c].exit
                  \/ r.state = "over" /\ r.exit = 1
  <2>1. CASE ContainerDies(c)
    BY <1>1, <2>1, ExitStep DEF ContainerDies, Ended
  <2>2. CASE ContainerStarts(c)
    <3> DEFINE r == [script[c] EXCEPT !.state = "running"]
    <3>1. r \in Scripts /\ r.lines = script[c].lines /\ r.strict = script[c].strict /\ r.state = "running" /\ r.exit = script[c].exit
      BY <1>1 DEF Scripts
    <3>2. script' = [script EXCEPT ![c] = r]
      BY <2>2 DEF ContainerStarts
    <3> HIDE DEF r
    <3> QED  BY <2>2, <3>1, <3>2 DEF Becomes
  <2> QED  BY <2>1, <2>2
<1>3. script'[c] = r /\ Quiet(c) /\ DirsInv'
  BY <1>1, <1>2, BecomesStep DEF Quiet, DirsInv, Scripts
<1>4. CASE c \in Prewarms
  <2>1. PrewarmInv(c) /\ (~wiped => FillingInv(c)) /\ TemplateInv
    BY <1>4 DEF EveInv, TemplateInv
  <2>2. PrewarmInv(c)'
    BY <1>1, <1>2, <1>3, <2>1 DEF PrewarmInv, ScriptRuns, Over, NextLine, ContainerStarts
  <2>3. Filling(c)' => Filling(c)
    BY <1>1, <1>2, <1>3, <2>1 DEF Filling, Answers, ScriptRuns, PrewarmInv
  <2>4. Clears(c)' => Clears(c)
    BY <1>1, <1>2, <1>3, <2>1 DEF Clears, Holds, NextLine, PrewarmInv, ContainerStarts
  <2>5. ~wiped => FillingInv(c)'
    BY <1>1, <1>2, <1>3, <2>1, <2>3, <2>4 DEF FillingInv, ScriptRuns
  <2>6. ASSUME Holds(c)', NEW d \in Prewarms, Holds(d) PROVE d = c
    <3>1. ContainerStarts(c)
      BY <1>2, <1>3, <2>6 DEF Holds
    <3>2. TargetOf(d) # TargetOf(c)
      BY <2>6, <3>1 DEF ContainerStarts, MayStart, EveCalls
    <3> QED  BY <1>4, <2>6, <3>2, DirNames, EveAssumption
  <2> QED  BY <1>3, <1>4, <2>2, <2>3, <2>5, <2>6, QuietPrewarm
<1>5. CASE c \in Creates
  <2>1. CreateInv(c) /\ SessionInv
    BY <1>5 DEF EveInv, SessionInv
  <2>2. CreateInv(c)'
    BY <1>1, <1>2, <1>3, <2>1 DEF CreateInv, Holds, ScriptRuns, NextLine, SessionRest, ContainerStarts
  <2>3. ASSUME Holds(c)', NEW d \in Creates, Holds(d) PROVE d = c
    <3>1. ContainerStarts(c)
      BY <1>2, <1>3, <2>3 DEF Holds
    <3>2. TargetOf(d) # TargetOf(c)
      BY <2>3, <3>1 DEF ContainerStarts, MayStart, EveCalls
    <3> QED  BY <1>5, <2>3, <3>2, DirNames, EveAssumption
  <2> QED  BY <1>3, <1>5, <2>2, <2>3, QuietCreate
<1> QED  BY <1>4, <1>5 DEF EveCalls

\* What is in a directory, and what is not.
LEMMA InDirs ==
  ASSUME DirsInv, NEW d \in Dirs
  PROVE  /\ dir[d] = NoDir \/ dir[d] \in SUBSET Files
         /\ Contents(d) \in SUBSET Files
         /\ \A f \in Files : f \in Contents(d) <=> (dir[d] # NoDir /\ f \in dir[d])
PROOF
<1>1. dir[d] = NoDir \/ dir[d] \in SUBSET Files
  BY DEF DirsInv
<1> QED  BY <1>1 DEF Contents

\* No file is in a directory that does not exist.
LEMMA NoFileInNoDir ==
  ASSUME SeedsAssumption
  PROVE  \A f \in Files : f \notin NoDir
PROOF
<1> QED  BY DEF SeedsAssumption, Files, NoDir, Ready, Boot, Work, Nested

\* A file is added to a directory that may be missing, or removed.
LEMMA ContentsAre ==
  ASSUME DirsInv, NEW d \in Dirs
  PROVE  \A f \in Files : f \in Contents(d) <=> f \in dir[d]
PROOF
<1> QED  BY InDirs, NoFileInNoDir, SeedsAssumption

\* The directory a prewarm fills gets one more file.
LEMMA TmpGrows ==
  ASSUME EveInv, NEW f \in Files, dir' = [dir EXCEPT !["templateTmp"] = Contents("templateTmp") \cup {f}]
  PROVE  /\ dir' \in [Dirs -> (SUBSET Files) \cup {NoDir}]
         /\ \A g \in Files : g \in dir'["templateTmp"] <=> g = f \/ g \in dir["templateTmp"]
         /\ \A d \in Dirs : d # "templateTmp" => dir'[d] = dir[d]
PROOF
<1>1. "templateTmp" \in Dirs /\ DirsInv /\ dir \in [Dirs -> (SUBSET Files) \cup {NoDir}]
  BY DEF Dirs, EveInv, DirsInv
<1>2. dir'["templateTmp"] = Contents("templateTmp") \cup {f} /\ \A d \in Dirs : d # "templateTmp" => dir'[d] = dir[d]
  BY <1>1
<1>3. Contents("templateTmp") \cup {f} \in SUBSET Files
  BY <1>1, InDirs
<1> HIDE DEF EveInv
<1> QED  BY <1>1, <1>2, <1>3, ContentsAre

LEMMA BootstrapsEveInv ==
  ASSUME EveInv, NEW c \in EveCalls, Bootstraps(c)
  PROVE  EveInv'
PROOF
<1>1. call[c] = "bootstrap" /\ UNCHANGED <<script, parents, templated, kept, wiped>> /\ DirsInv
  BY DEF Bootstraps, EveInv
<1>2. c \in Prewarms
  BY <1>1 DEF EveCalls, EveInv, SessionInv, CreateInv
<1>3. /\ PrewarmInv(c) /\ script'[c] = script[c] /\ script[c].state = "over" /\ Filling(c) /\ ~Holds(c)' /\ ~Clears(c)
      /\ ~wiped => FillingInv(c) /\ FillsAlone(c)
  BY <1>1, <1>2 DEF EveInv, TemplateInv, PrewarmInv, Filling, Holds, Clears
<1>4. CASE Goes(c, "failed") /\ UNCHANGED <<dir, puts>>
  <2>1. Quiet(c) /\ call'[c] = "failed" /\ DirsInv'
    BY <1>1, <1>4 DEF Quiet, Alone, Goes, DirsInv
  <2>2. PrewarmInv(c)' /\ FillingInv(c)'
    BY <1>1, <1>3, <2>1, <1>4 DEF PrewarmInv, FillingInv, Filling, Answers, Clears, ScriptRuns, Over
  <2> QED  BY <1>2, <1>3, <2>1, <2>2, QuietPrewarm
<1>5. CASE /\ dir' = [dir EXCEPT !["templateTmp"] = Contents("templateTmp") \cup {Boot}]
           /\ Goes(c, "seeds") /\ puts' = puts \cup {<<c, s>> : s \in Seeds}
  <2>1. Boot \in Files
    BY DEF Files
  <2>2. /\ dir' \in [Dirs -> (SUBSET Files) \cup {NoDir}]
        /\ \A g \in Files : g \in dir'["templateTmp"] <=> g = Boot \/ g \in dir["templateTmp"]
        /\ \A d \in Dirs : d # "templateTmp" => dir'[d] = dir[d]
    BY <1>5, <2>1, TmpGrows
  <2>3. Alone(c) /\ call'[c] = "seeds" /\ DirsInv'
    BY <1>1, <1>2, <1>5, <2>2 DEF Alone, Goes, DirsInv
  <2>4. PrewarmInv(c)'
    BY <1>1, <1>3, <2>3 DEF PrewarmInv, ScriptRuns, Over, NextLine
  <2>5. dir'["template"] = dir["template"] /\ dir'["session"] = dir["session"] /\ dir'["sessionTmp"] = dir["sessionTmp"]
    BY <2>2 DEF Dirs
  <2>6. \A s \in Seeds : <<c, s>> \in puts'
    BY <1>5
  <2>7. ~wiped => FillingInv(c)' /\ Spares(c)
    <3>1. Whole \subseteq Files
      BY DEF Whole, Files
    <3>2. Spares(c)
      BY <2>2, <2>5, <3>1 DEF Spares
    <3>3. ~Clears(c)' /\ ~ScriptRuns(c)'
      BY <1>3 DEF Clears, ScriptRuns
    <3> QED  BY <1>3, <2>1, <2>2, <2>5, <2>6, <3>2, <3>3 DEF FillingInv
  <2>8. \A d \in Prewarms, s \in Seeds : d # c => (<<d, s>> \in puts' <=> <<d, s>> \in puts)
    BY <1>5
  <2>9. ~wiped => TemplateIsWhole'
    BY <2>5 DEF EveInv, TemplateInv, TemplateIsWhole
  <2>10. TemplateInv'
    BY <1>1, <1>2, <1>3, <2>3, <2>4, <2>7, <2>8, <2>9, PrewarmMoves DEF EveInv, FillsAlone
  <2>11. SessionInv'
    BY <1>1, <1>2, <2>3, <2>5, SessionRests, DirNames, EveAssumption DEF Alone, EveInv
  <2> QED  BY <2>3, <2>10, <2>11 DEF EveInv
<1> QED  BY <1>4, <1>5 DEF Bootstraps

\* A seed file lands in the temporary directory.
LEMMA PutLandsEveInv ==
  ASSUME EveInv, NEW c \in EveCalls, NEW s \in Seeds, PutLands(c, s)
  PROVE  EveInv'
PROOF
<1>1. /\ <<c, s>> \in puts /\ puts' = puts \ {<<c, s>>} /\ UNCHANGED <<call, script, parents, templated, kept, wiped>>
      /\ dir' = [dir EXCEPT !["templateTmp"] = Contents("templateTmp") \cup {s}] /\ DirsInv
  BY DEF PutLands, EveInv
<1>2. /\ dir' \in [Dirs -> (SUBSET Files) \cup {NoDir}]
      /\ \A g \in Files : g \in dir'["templateTmp"] <=> g = s \/ g \in dir["templateTmp"]
      /\ \A d \in Dirs : d # "templateTmp" => dir'[d] = dir[d]
  <2>1. s \in Files
    BY DEF Files
  <2> QED  BY <1>1, <2>1, TmpGrows
<1>3. dir'["template"] = dir["template"] /\ dir'["session"] = dir["session"] /\ dir'["sessionTmp"] = dir["sessionTmp"]
  BY <1>2 DEF Dirs
<1>4. DirsInv'
  BY <1>1, <1>2 DEF DirsInv
<1>5. Whole \subseteq Files /\ Seeds \subseteq Files /\ Boot \in Files
  BY DEF Whole, Files
<1>6. ASSUME NEW d \in Prewarms
      PROVE  PrewarmInv(d)' /\ (~wiped => FillingInv(d)') /\ (Filling(d)' <=> Filling(d)) /\ (Holds(d)' <=> Holds(d))
  <2>1. PrewarmInv(d) /\ (~wiped => FillingInv(d))
    BY DEF EveInv, TemplateInv
  <2>2. /\ PrewarmInv(d)' /\ (Holds(d)' <=> Holds(d)) /\ (Filling(d)' <=> Filling(d))
        /\ (ScriptRuns(d)' <=> ScriptRuns(d)) /\ (Clears(d)' <=> Clears(d))
    BY <1>1, <2>1 DEF PrewarmInv, Over, ScriptRuns, Filling, Answers, Clears, Holds, NextLine
  <2>3. ~wiped /\ call[d] = "seeds" => Boot \in dir'["templateTmp"] /\ \A t \in Seeds : t \in dir'["templateTmp"] \/ <<d, t>> \in puts'
    BY <1>1, <1>2, <1>5, <2>1 DEF FillingInv
  <2>4. Whole \subseteq dir["templateTmp"] => Whole \subseteq dir'["templateTmp"]
    BY <1>2, <1>5
  <2> QED  BY <1>1, <1>3, <2>1, <2>2, <2>3, <2>4 DEF FillingInv
<1>7. TemplateInv'
  BY <1>1, <1>3, <1>6 DEF EveInv, TemplateInv, TemplateIsWhole, FillsAlone
<1>8. SessionInv'
  BY <1>1, <1>3, SessionRests DEF EveInv
<1> QED  BY <1>4, <1>7, <1>8 DEF EveInv

LEMMA PutFailsEveInv ==
  ASSUME EveInv, NEW c \in EveCalls, NEW s \in Seeds, PutFails(c, s)
  PROVE  EveInv'
PROOF
<1>1. /\ <<c, s>> \in puts /\ puts' = puts \ {<<c, s>>} /\ UNCHANGED <<script, dir, parents, templated, kept, wiped>>
      /\ Goes(c, IF call[c] = "seeds" THEN "failed" ELSE call[c]) /\ DirsInv
  BY DEF PutFails, EveInv
<1>2. c \in Prewarms
  BY <1>1 DEF DirsInv
<1>3. /\ PrewarmInv(c) /\ script'[c] = script[c] /\ (Holds(c)' <=> Holds(c)) /\ TemplateInv
      /\ ~wiped => FillingInv(c) /\ TemplateIsWhole
  BY <1>1, <1>2 DEF EveInv, TemplateInv, Holds
<1>4. Alone(c) /\ DirsInv' /\ call'[c] = IF call[c] = "seeds" THEN "failed" ELSE call[c]
  BY <1>1 DEF Alone, Goes, DirsInv
<1>5. TemplateInv'
  <2>1. CASE call[c] = "seeds"
    <3>1. call'[c] = "failed" /\ script[c].state = "over"
      BY <1>3, <1>4, <2>1 DEF PrewarmInv
    <3>2. PrewarmInv(c)'
      BY <1>1, <1>3, <2>1, <3>1 DEF PrewarmInv, ScriptRuns, Over, NextLine
    <3>3. FillingInv(c)' /\ ~Filling(c)'
      BY <1>1, <1>3, <3>1 DEF FillingInv, Filling, Answers, Clears, Holds, ScriptRuns
    <3>4. \A d \in Prewarms, t \in Seeds : d # c => (<<d, t>> \in puts' <=> <<d, t>> \in puts)
      BY <1>1
    <3>5. ~wiped => TemplateIsWhole' /\ Spares(c)
      BY <1>1, <1>3 DEF TemplateIsWhole, Spares
    <3>6. Holds(c)' => \A d \in Prewarms : Holds(d) => d = c
      BY <1>2, <1>3 DEF TemplateInv
    <3> QED  BY <1>1, <1>2, <1>3, <1>4, <3>2, <3>3, <3>4, <3>5, <3>6, PrewarmMoves
  <2>2. CASE call[c] # "seeds"
    <3>1. \A d \in Prewarms : call'[d] = call[d] /\ script'[d] = script[d]
      BY <1>1, <1>4, <2>2 DEF Alone, EveCalls
    <3>2. ASSUME NEW d \in Prewarms
          PROVE  PrewarmInv(d)' /\ (~wiped => FillingInv(d)') /\ (Filling(d)' <=> Filling(d)) /\ (Holds(d)' <=> Holds(d))
      <4>1. PrewarmInv(d) /\ (~wiped => FillingInv(d))
        BY DEF EveInv, TemplateInv
      <4>2. \A t \in Seeds : <<d, t>> \in puts' => <<d, t>> \in puts
        BY <1>1
      <4>3. PrewarmInv(d)'
        BY <3>1, <4>1, <4>2 DEF PrewarmInv, Over, ScriptRuns, NextLine
      <4>4. /\ (Holds(d)' <=> Holds(d)) /\ (Filling(d)' <=> Filling(d))
            /\ (ScriptRuns(d)' <=> ScriptRuns(d)) /\ (Clears(d)' <=> Clears(d))
        BY <3>1 DEF ScriptRuns, Filling, Answers, Clears, Holds, NextLine
      <4>5. call[d] = "seeds" => \A t \in Seeds : <<d, t>> \in puts' <=> <<d, t>> \in puts
        BY <1>1, <2>2
      <4> QED  BY <1>1, <3>1, <4>1, <4>3, <4>4, <4>5 DEF FillingInv
    <3> QED  BY <1>1, <3>2 DEF EveInv, TemplateInv, TemplateIsWhole, FillsAlone
  <2> QED  BY <2>1, <2>2
<1>6. SessionInv'
  BY <1>1, <1>2, <1>4, SessionRests, DirNames, EveAssumption DEF Alone, EveInv
<1> QED  BY <1>4, <1>5, <1>6 DEF EveInv

\* What has been written to the directory is published when every put landed.
LEMMA PublishesEveInv ==
  ASSUME EveInv, NEW c \in EveCalls, Publishes(c)
  PROVE  EveInv'
PROOF
<1>1. /\ call[c] = "seeds" /\ AllSeeded(c) /\ UNCHANGED <<puts, dir, parents, templated, kept, wiped>> /\ DirsInv
      /\ Exec(c, PublishLines, FALSE) /\ Goes(c, "publish")
  BY DEF Publishes, EveInv
<1>2. c \in Prewarms
  BY <1>1 DEF EveCalls, EveInv, SessionInv, CreateInv
<1>3. PrewarmInv(c) /\ (~wiped => FillingInv(c)) /\ Filling(c)
  BY <1>1, <1>2 DEF EveInv, TemplateInv, Filling
<1>4. PublishLines \in PublishRest /\ Head(PublishLines) = "touch" /\ PublishLines \in Seq(Lines)
  BY DEF PublishLines, PublishRest, Lines
<1>5. PICK r : Becomes(c, r) /\ r.lines = PublishLines /\ r.strict = FALSE /\ r.state = "queued" /\ r.exit = 0
  BY <1>1, <1>4, ExecStep, Zenon
<1>6. script'[c] = r /\ Quiet(c) /\ call'[c] = "publish" /\ DirsInv'
  <2>1. script'[c] = r /\ Alone(c) /\ script' \in [EveCalls -> Scripts]
    BY <1>1, <1>5, BecomesStep
  <2> QED  BY <1>1, <2>1 DEF Quiet, DirsInv, Goes, Scripts
<1>7. ~Holds(c)' /\ ~Clears(c)' /\ \A s \in Seeds : <<c, s>> \notin puts
  BY <1>1, <1>5, <1>6 DEF Holds, Clears, AllSeeded
<1>8. PrewarmInv(c)'
  BY <1>1, <1>4, <1>5, <1>6, <1>7 DEF PrewarmInv, ScriptRuns, Over, NextLine
<1>9. ~wiped => Whole \subseteq dir["templateTmp"] /\ Ready \notin dir["template"]
  BY <1>1, <1>3, <1>7 DEF FillingInv, Whole
<1>10. ~wiped => FillingInv(c)'
  BY <1>1, <1>6, <1>7, <1>9 DEF FillingInv
<1> QED  BY <1>2, <1>3, <1>6, <1>7, <1>8, <1>10, QuietPrewarm

\* A session that is ready is written to.
LEMMA SessionEveInv ==
  ASSUME EveInv, NEW c \in EveCalls, SessionWrites(c) \/ SessionRemoves(c)
  PROVE  EveInv'
PROOF
<1>1. /\ c \in Creates /\ call[c] = "ok" /\ UNCHANGED <<call, script, puts, parents, templated, wiped>> /\ DirsInv /\ kept' \in BOOLEAN
      /\ \/ kept' = TRUE /\ dir' = [dir EXCEPT !["session"] = Contents("session") \cup {Work}]
         \/ kept' = FALSE /\ dir' = [dir EXCEPT !["session"] = Contents("session") \ {Work}]
  BY DEF SessionWrites, SessionRemoves, EveInv
<1>2. Ready \in dir["session"] /\ SessionInv
  BY <1>1 DEF EveInv, SessionInv, CreateInv
<1>3. Ready \in Files /\ Work \in Files /\ "session" \in Dirs /\ Whole \subseteq Files /\ Ready # Work /\ Work \notin Whole
  BY SeedsAssumption DEF Files, Dirs, Whole, Ready, Work, Boot
<1>4. Contents("session") \in SUBSET Files /\ \A f \in Files : f \in Contents("session") <=> f \in dir["session"]
  BY <1>1, <1>3, InDirs, ContentsAre
<1>5. PICK s \in SUBSET Files : /\ dir' = [dir EXCEPT !["session"] = s] /\ (kept' => Work \in s)
                                /\ \A f \in Files : f # Work => (f \in s <=> f \in dir["session"])
  <2>1. CASE kept' = TRUE /\ dir' = [dir EXCEPT !["session"] = Contents("session") \cup {Work}]
    <3> DEFINE w == Contents("session") \cup {Work}
    <3>1. /\ w \in SUBSET Files /\ Work \in w
          /\ \A f \in Files : f # Work => (f \in w <=> f \in dir["session"])
      BY <1>3, <1>4
    <3>2. dir' = [dir EXCEPT !["session"] = w]
      BY <2>1
    <3> HIDE DEF w
    <3> QED  BY <3>1, <3>2
  <2>2. CASE kept' = FALSE /\ dir' = [dir EXCEPT !["session"] = Contents("session") \ {Work}]
    <3> DEFINE w == Contents("session") \ {Work}
    <3>1. w \in SUBSET Files /\ \A f \in Files : f # Work => (f \in w <=> f \in dir["session"])
      BY <1>4
    <3>2. dir' = [dir EXCEPT !["session"] = w] /\ ~kept'
      BY <2>2
    <3> HIDE DEF w
    <3> QED  BY <3>1, <3>2
  <2> QED  BY <1>1, <2>1, <2>2
<1>6. /\ dir' \in [Dirs -> (SUBSET Files) \cup {NoDir}] /\ dir'["session"] = s
      /\ dir'["template"] = dir["template"] /\ dir'["templateTmp"] = dir["templateTmp"] /\ dir'["sessionTmp"] = dir["sessionTmp"]
  BY <1>1, <1>5 DEF DirsInv, Dirs
<1>7. Ready \in dir'["session"] /\ (kept' => Work \in dir'["session"])
  BY <1>2, <1>3, <1>5, <1>6
<1>8. ~wiped' => SessionIsWhole'
  BY <1>1, <1>2, <1>3, <1>5, <1>6 DEF SessionInv, SessionIsWhole
<1>9. ASSUME NEW d \in Creates PROVE CreateInv(d)' /\ (Holds(d)' <=> Holds(d))
  <2>1. CreateInv(d) /\ call' = call /\ script' = script /\ templated' = templated
    BY <1>1, <1>2 DEF SessionInv
  <2>2. (Holds(d)' <=> Holds(d)) /\ NextLine(d)' = NextLine(d) /\ SessionRest' = SessionRest
    BY <2>1 DEF Holds, NextLine, SessionRest
  <2>3. ~(Holds(d) /\ NextLine(d) # "check")
    BY <1>2, <2>1 DEF CreateInv
  <2>4. CreateInv(d)'
    BY <1>7, <2>1, <2>2, <2>3 DEF CreateInv, ScriptRuns
  <2> QED  BY <2>2, <2>4
<1>10. SessionInv'
  BY <1>2, <1>7, <1>8, <1>9 DEF SessionInv, SessionKeepsWork
<1>11. TemplateInv'
  BY <1>1, <1>6, TemplateRests DEF EveInv
<1>12. DirsInv'
  BY <1>1, <1>6 DEF DirsInv
<1> QED  BY <1>10, <1>11, <1>12 DEF EveInv

-----------------------------------------------------------------------------
(* Lines of the scripts. *)

\* What a line does to a directory.
LEMMA AfterLine ==
  ASSUME DirsInv, NEW c \in EveCalls, NEW line \in Lines, dir' = After(c, line),
         NEW t \in Dirs, NEW g \in Dirs, t = TmpOf(c), g = TargetOf(c), t # g
  PROVE  /\ \A d \in Dirs : d \notin {t, g} => dir'[d] = dir[d]
         /\ line \in {"check", "template", "mkdirParent"} => dir'[t] = dir[t] /\ dir'[g] = dir[g]
         /\ line = "rm" => dir'[t] = NoDir /\ dir'[g] = dir[g]
         /\ line = "mkdir" => dir'[t] = Contents(t) /\ dir'[g] = dir[g]
         /\ line = "copy" => dir'[t] = dir[t] \cup dir["template"] /\ dir'[g] = dir[g]
         /\ line = "touch" => dir'[t] = dir[t] \cup {Ready} /\ dir'[g] = dir[g]
         /\ line = "rmTarget" => dir'[t] = dir[t] /\ dir'[g] = NoDir
         /\ line = "mv" => dir'[t] = NoDir /\ dir'[g] = IF dir[g] = NoDir THEN dir[t] ELSE dir[g] \cup {Nested}
PROOF
<1>1. DOMAIN dir = Dirs
  BY DEF DirsInv
<1>2. CASE line = "mv"
  <2>1. dir' = IF dir[g] = NoDir THEN [dir EXCEPT ![g] = dir[t], ![t] = NoDir]
               ELSE [dir EXCEPT ![g] = dir[g] \cup {Nested}, ![t] = NoDir]
    BY <1>2 DEF After, Moved
  <2> QED  BY <1>1, <1>2, <2>1
<1>3. CASE line = "mkdir"
  BY <1>1, <1>3 DEF After
<1>4. CASE line = "copy"
  BY <1>1, <1>4 DEF After
<1>5. CASE line = "touch"
  BY <1>1, <1>5 DEF After
<1>6. CASE line = "rm"
  BY <1>1, <1>6 DEF After
<1>7. CASE line = "rmTarget"
  BY <1>1, <1>7 DEF After
<1>8. CASE line \in {"check", "template", "mkdirParent"}
  BY <1>1, <1>8 DEF After
<1> QED  BY <1>2, <1>3, <1>4, <1>5, <1>6, <1>7, <1>8 DEF Lines

\* The next line is one of the script's.
LEMMA NextIsLine ==
  ASSUME EveInv, NEW c \in EveCalls, ScriptRuns(c)
  PROVE  NextLine(c) \in Lines
PROOF
<1>1. script[c].lines \in PrepareRest \cup PublishRest \cup CopyRest \cup FreshRest
  BY DEF EveInv, TemplateInv, PrewarmInv, SessionInv, CreateInv, EveCalls, SessionRest
<1>2. CASE script[c].lines \in PrepareRest
  BY <1>2, PrepareNext DEF NextLine, Lines
<1>3. CASE script[c].lines \in PublishRest
  BY <1>3, PublishNext DEF NextLine, Lines
<1>4. CASE script[c].lines \in CopyRest
  BY <1>4, CopyNext DEF NextLine, Lines
<1>5. CASE script[c].lines \in FreshRest
  BY <1>5, FreshNext DEF NextLine, Lines
<1> QED  BY <1>1, <1>2, <1>3, <1>4, <1>5

\* What running a line makes of the script, with the state of its container.
LEMMA LineStep ==
  ASSUME EveInv, NEW c \in EveCalls, RunLine(c)
  PROVE  /\ Holds(c) /\ Alone(c) /\ DirsInv' /\ UNCHANGED <<call, puts, parents, templated, kept>>
         /\ wiped' = (wiped \/ Wipes(c))
         /\ NextLine(c) \in Lines /\ ~Impossible(c, NextLine(c)) /\ dir' = After(c, NextLine(c))
         /\ \E r \in Scripts :
              /\ script'[c] = r
              /\ \/ NextLine(c) = "check" /\ Ready \in dir[TargetOf(c)] /\ Ended(c, r, 0)
                 \/ NextLine(c) = "template" /\ Ended(c, r, 67)
                 \/ /\ NextLine(c) = "check" => Ready \notin dir[TargetOf(c)]
                    /\ NextLine(c) = "template" => Ready \in dir["template"]
                    /\ LinesGoOn(c, r) \/ (Len(script[c].lines) = 1 /\ Ended(c, r, 0))
PROOF
<1>1. /\ Holds(c) /\ ScriptRuns(c) /\ UNCHANGED <<call, puts, parents, templated, kept>> /\ DirsInv
      /\ wiped' = (wiped \/ Wipes(c))
      /\ ~Impossible(c, NextLine(c)) /\ dir' = After(c, NextLine(c))
  BY DEF RunLine, Holds, ScriptRuns, NextLine, EveInv
<1>2. NextLine(c) \in Lines /\ Tail(script[c].lines) \in Seq(Lines)
  BY <1>1, NextIsLine, RestIsScript
<1>3. \E r : /\ Becomes(c, r)
             /\ \/ NextLine(c) = "check" /\ Ready \in dir[TargetOf(c)] /\ Ended(c, r, 0)
                \/ NextLine(c) = "template" /\ Ended(c, r, 67)
                \/ /\ NextLine(c) = "check" => Ready \notin dir[TargetOf(c)]
                   /\ NextLine(c) = "template" => Ready \in dir["template"]
                   /\ LinesGoOn(c, r) \/ (Len(script[c].lines) = 1 /\ Ended(c, r, 0))
  <2>1. CASE NextLine(c) = "check" /\ Ready \in dir[TargetOf(c)] /\ Exit(c, 0)
    <3>1. PICK r : Becomes(c, r) /\ Ended(c, r, 0)
      BY <1>1, <2>1, ExitStep
    <3> QED  BY <2>1, <3>1
  <2>2. CASE NextLine(c) = "template" /\ Exit(c, 67)
    <3>1. PICK r : Becomes(c, r) /\ Ended(c, r, 67)
      BY <1>1, <2>2, ExitStep
    <3> QED  BY <2>2, <3>1
  <2>3. CASE /\ NextLine(c) = "check" => Ready \notin dir[TargetOf(c)]
             /\ NextLine(c) = "template" => Ready \in dir["template"]
             /\ Advance(c)
    <3>1. PICK r : Becomes(c, r) /\ (LinesGoOn(c, r) \/ (Len(script[c].lines) = 1 /\ Ended(c, r, 0)))
      BY <1>1, <1>2, <2>3, AdvanceStep
    <3> QED  BY <2>3, <3>1
  <2> QED  BY <2>1, <2>2, <2>3 DEF RunLine, NextLine
<1>4. PICK r : /\ Becomes(c, r)
               /\ \/ NextLine(c) = "check" /\ Ready \in dir[TargetOf(c)] /\ Ended(c, r, 0)
                  \/ NextLine(c) = "template" /\ Ended(c, r, 67)
                  \/ /\ NextLine(c) = "check" => Ready \notin dir[TargetOf(c)]
                     /\ NextLine(c) = "template" => Ready \in dir["template"]
                     /\ LinesGoOn(c, r) \/ (Len(script[c].lines) = 1 /\ Ended(c, r, 0))
  BY <1>3
<1>5. script'[c] = r /\ Alone(c) /\ script' \in [EveCalls -> Scripts]
  BY <1>1, <1>4, BecomesStep
<1>6. dir' \in [Dirs -> (SUBSET Files) \cup {NoDir}]
  BY <1>1, AfterIsDirs, SeedsAssumption
<1>7. DirsInv'
  BY <1>1, <1>5, <1>6 DEF DirsInv, Scripts, Wipes
<1> QED  BY <1>1, <1>2, <1>4, <1>5, <1>7 DEF Becomes

\* The same of a line that fails.
LEMMA FailStep ==
  ASSUME EveInv, NEW c \in EveCalls, LineFails(c)
  PROVE  /\ Holds(c) /\ Alone(c) /\ DirsInv' /\ UNCHANGED <<call, puts, parents, templated, kept>>
         /\ wiped' = (wiped \/ Wipes(c))
         /\ NextLine(c) \notin {"check", "template"}
         /\ \E r \in Scripts :
              /\ script'[c] = r
              /\ IF script[c].strict \/ Len(script[c].lines) = 1 THEN Ended(c, r, 1) ELSE LinesGoOn(c, r)
PROOF
<1>1. /\ Holds(c) /\ ScriptRuns(c) /\ UNCHANGED <<call, puts, parents, templated, kept>> /\ DirsInv
      /\ wiped' = (wiped \/ Wipes(c))
      /\ NextLine(c) \notin {"check", "template"}
  BY DEF LineFails, Holds, ScriptRuns, NextLine, EveInv
<1>2. Tail(script[c].lines) \in Seq(Lines)
  BY <1>1, RestIsScript
<1>3. PICK r : /\ Becomes(c, r)
               /\ IF script[c].strict \/ Len(script[c].lines) = 1 THEN Ended(c, r, 1) ELSE LinesGoOn(c, r)
  <2>1. CASE script[c].strict \/ Len(script[c].lines) = 1
    <3>1. Exit(c, 1)
      BY <2>1 DEF LineFails
    <3> QED  BY <1>1, <2>1, <3>1, ExitStep
  <2>2. CASE ~(script[c].strict \/ Len(script[c].lines) = 1)
    <3>1. Advance(c)
      BY <2>2 DEF LineFails
    <3>2. PICK r : Becomes(c, r) /\ (LinesGoOn(c, r) \/ (Len(script[c].lines) = 1 /\ Ended(c, r, 0)))
      BY <1>1, <1>2, <3>1, AdvanceStep
    <3> QED  BY <2>2, <3>2
  <2> QED  BY <2>1, <2>2
<1>4. script'[c] = r /\ Alone(c) /\ script' \in [EveCalls -> Scripts]
  BY <1>1, <1>3, BecomesStep
<1>5. DirsInv'
  BY <1>1, <1>4, FailedIsDirs DEF DirsInv, Scripts, Wipes
<1> QED  BY <1>1, <1>3, <1>4, <1>5 DEF Becomes

\* What a line that fails leaves: less of what it removes, or some of a copy.
LEMMA FailedLine ==
  ASSUME DirsInv, NEW c \in EveCalls, LineFails(c), NEW t \in Dirs, NEW g \in Dirs, t = TmpOf(c), g = TargetOf(c), t # g
  PROVE  /\ \A d \in Dirs : d \notin {t, g} => dir'[d] = dir[d]
         /\ NextLine(c) # "rmTarget" => dir'[g] = dir[g]
         /\ dir'[g] = dir[g] \/ dir'[g] \subseteq dir[g]
         /\ NextLine(c) \notin {"rm", "copy"} => dir'[t] = dir[t]
PROOF
<1>1. DOMAIN dir = Dirs
  BY DEF DirsInv
<1>2. CASE dir' = dir
  BY <1>2
<1>3. CASE NextLine(c) = "copy" /\ \E some \in SUBSET Contents("template") : dir' = [dir EXCEPT ![t] = dir[t] \cup some]
  BY <1>1, <1>3
<1>4. ASSUME NEW d \in {t, g}, NEW some \in SUBSET Contents(d), NextLine(c) = (IF d = t THEN "rm" ELSE "rmTarget"),
             dir[d] # NoDir, dir' = [dir EXCEPT ![d] = some]
      PROVE  /\ \A e \in Dirs : e \notin {t, g} => dir'[e] = dir[e]
             /\ NextLine(c) # "rmTarget" => dir'[g] = dir[g]
             /\ dir'[g] = dir[g] \/ dir'[g] \subseteq dir[g]
             /\ NextLine(c) \notin {"rm", "copy"} => dir'[t] = dir[t]
  <2>1. some \subseteq dir[d]
    BY <1>4 DEF Contents
  <2>2. CASE d = t
    BY <1>1, <1>4, <2>1, <2>2
  <2>3. CASE d = g
    BY <1>1, <1>4, <2>1, <2>3
  <2> QED  BY <2>2, <2>3
<1>5. \/ dir' = dir
      \/ NextLine(c) = "copy" /\ \E some \in SUBSET Contents("template") : dir' = [dir EXCEPT ![t] = dir[t] \cup some]
      \/ \E d \in {t, g} : \E some \in SUBSET Contents(d) :
           NextLine(c) = (IF d = t THEN "rm" ELSE "rmTarget") /\ dir[d] # NoDir /\ dir' = [dir EXCEPT ![d] = some]
  BY DEF LineFails, NextLine
<1> QED  BY <1>2, <1>3, <1>4, <1>5

\* A prewarm's script is in its first or its second part.
LEMMA PrewarmLine ==
  ASSUME EveInv, NEW c \in Prewarms, Holds(c)
  PROVE  /\ script[c].lines \in PrepareRest \/ script[c].lines \in PublishRest
         /\ script[c].lines \in PrepareRest => /\ script[c].lines \notin PublishRest
                                               /\ NextLine(c) \in {"check", "rm", "mkdir"}
         /\ script[c].lines \in PublishRest => NextLine(c) \in {"touch", "rmTarget", "mkdirParent", "mv"}
         /\ PrewarmInv(c) /\ call[c] \in {"prepare", "publish", "failed"}
         /\ Filling(c) <=> NextLine(c) \notin {"check", "rm"}
         /\ ~wiped => FillingInv(c) /\ FillsAlone(c) /\ (NextLine(c) # "check" => Ready \notin dir["template"])
PROOF
<1>1. PrewarmInv(c) /\ (~wiped => FillingInv(c) /\ FillsAlone(c)) /\ ScriptRuns(c)
  BY DEF EveInv, TemplateInv, Holds, ScriptRuns
<1>2. script[c].lines \in PrepareRest \/ script[c].lines \in PublishRest
  BY <1>1 DEF PrewarmInv
<1>3. script[c].lines \in PrepareRest => NextLine(c) \in {"check", "rm", "mkdir"}
  BY PrepareNext DEF NextLine
<1>4. script[c].lines \in PublishRest => NextLine(c) \in {"touch", "rmTarget", "mkdirParent", "mv"}
  BY PublishNext DEF NextLine
<1>5. call[c] \in {"prepare", "publish", "failed"}
  BY <1>1 DEF PrewarmInv
<1>6. Filling(c) <=> NextLine(c) \notin {"check", "rm"}
  BY <1>5 DEF Filling, Answers, Holds, NextLine
<1>7. ~wiped /\ NextLine(c) # "check" => Ready \notin dir["template"]
  BY <1>1, <1>6 DEF FillingInv, Clears
<1> QED  BY <1>1, <1>2, <1>3, <1>4, <1>5, <1>6, <1>7

\* A prewarm's container has run a line, or failed to: the parts of the
\* directory that change are its own, and the template is not touched when it
\* is ready.
LEMMA PrewarmLands ==
  ASSUME EveInv, NEW c \in Prewarms, Holds(c), Alone(c), DirsInv', UNCHANGED <<call, puts, parents, templated, kept>>,
         wiped' = (wiped \/ Wipes(c)), PrewarmInv(c)',
         ~wiped' => TemplateIsWhole' /\ FillingInv(c)' /\ (Filling(c)' => Filling(c) \/ NextLine(c) = "rm"),
         NextLine(c) = "check" => dir' = dir,
         ~wiped' => (Ready \in dir["template"] => Ready \in dir'["template"]),
         dir'["session"] = dir["session"], dir'["sessionTmp"] = dir["sessionTmp"]
  PROVE  EveInv'
PROOF
<1>1. ~wiped' => ~wiped /\ ~Wipes(c)
  OBVIOUS
<1>2. \A d \in Prewarms, t \in Seeds : d # c => (<<d, t>> \in puts' <=> <<d, t>> \in puts)
  OBVIOUS
<1>3. \A d \in Prewarms : Holds(d) => d = c
  BY DEF EveInv, TemplateInv
<1>4. ~wiped' /\ NextLine(c) # "check" => \A d \in Prewarms \ {c} : ~Filling(d)
  <2>1. CASE NextLine(c) = "rm"
    BY <1>1, <2>1 DEF Wipes, NextLine
  <2>2. CASE NextLine(c) \notin {"check", "rm"}
    BY <1>1, <2>2, PrewarmLine DEF FillsAlone
  <2> QED  BY <2>1, <2>2
<1>5. ~wiped' => Spares(c)
  BY <1>4 DEF Spares
<1>6. ~wiped' /\ Filling(c)' => \A d \in Prewarms \ {c} : ~Filling(d)
  BY <1>4, PrewarmLine
<1>7. TemplateInv'
  BY <1>1, <1>2, <1>3, <1>5, <1>6, PrewarmMoves DEF EveInv
<1>8. SessionInv'
  BY <1>1, SessionRests, DirNames, EveAssumption DEF Alone, EveInv
<1> QED  BY <1>7, <1>8 DEF EveInv

\* The script of a prewarm has gone on to its next line.
LEMMA PrewarmGoesOn ==
  ASSUME EveInv, NEW c \in Prewarms, Holds(c), call' = call, puts' = puts, NEW r \in Scripts, script'[c] = r, LinesGoOn(c, r),
         ~wiped' => Ready \notin dir'["template"],
         ~wiped' /\ script[c].lines \in PublishRest => Whole \subseteq dir'["templateTmp"]
  PROVE  PrewarmInv(c)' /\ (~wiped' => FillingInv(c)') /\ (Filling(c)' => Filling(c) \/ NextLine(c) = "rm")
PROOF
<1>1. /\ r.state = "running" /\ r.lines = Tail(script[c].lines) /\ Len(script[c].lines) # 1
      /\ r.lines \in PrepareRest \cup PublishRest
      /\ r.lines \in PublishRest => script[c].lines \in PublishRest
      /\ script[c].lines \in PrepareRest => r.lines \in PrepareRest
      /\ Head(r.lines) # "check"
  <2>1. r.state = "running" /\ r.lines = Tail(script[c].lines) /\ Len(script[c].lines) # 1
    BY DEF LinesGoOn, Holds
  <2>2. CASE script[c].lines \in PrepareRest
    <3>1. r.lines \in PrepareRest /\ Head(r.lines) \in {"rm", "mkdir"}
      BY <2>1, <2>2, PrepareNext
    <3>2. r.lines \notin PublishRest
      BY <3>1, PublishNext
    <3> QED  BY <2>1, <3>1, <3>2
  <2>3. CASE script[c].lines \in PublishRest
    <3>1. r.lines \in PublishRest /\ Head(r.lines) \in {"rmTarget", "mkdirParent", "mv"} /\ script[c].lines \notin PrepareRest
      BY <2>1, <2>3, PublishNext, PrewarmLine
    <3> QED  BY <2>1, <2>3, <3>1
  <2> QED  BY <2>2, <2>3, PrewarmLine
<1>2. /\ PrewarmInv(c) /\ call[c] \in {"prepare", "publish", "failed"}
      /\ Filling(c) <=> NextLine(c) \notin {"check", "rm"}
  BY PrewarmLine
<1>3. PrewarmInv(c)'
  BY <1>1, <1>2 DEF PrewarmInv, Holds, Over, ScriptRuns, NextLine
<1>4. ~wiped' => FillingInv(c)'
  BY <1>1, <1>2 DEF FillingInv, Filling, ScriptRuns, NextLine
<1>5. Filling(c)' => Head(r.lines) # "rm"
  BY <1>1, <1>2 DEF Filling, Answers
<1>6. NextLine(c) = "check" => Head(r.lines) = "rm"
  BY <1>1, PrewarmLine, PrepareNext DEF NextLine
<1> QED  BY <1>2, <1>3, <1>4, <1>5, <1>6

\* The script of a prewarm has ended at its last line, at its test, or in an
\* error.
LEMMA PrewarmEnds ==
  ASSUME EveInv, NEW c \in Prewarms, Holds(c), call' = call, puts' = puts, NEW r \in Scripts, script'[c] = r,
         NEW code \in {0, 1, 67}, Ended(c, r, code),
         code = 0 => \/ NextLine(c) = "check"
                     \/ Len(script[c].lines) = 1,
         ~wiped' /\ code = 0 /\ NextLine(c) = "mkdir" => Ready \notin dir'["template"]
  PROVE  PrewarmInv(c)' /\ (~wiped' => FillingInv(c)') /\ (Filling(c)' => Filling(c))
PROOF
<1>1. r.state = "over" /\ r.exit = code /\ (code = 0 => r.lines = script[c].lines)
  BY DEF Ended
<1>2. /\ PrewarmInv(c) /\ call[c] \in {"prepare", "publish", "failed"}
      /\ Filling(c) <=> NextLine(c) \notin {"check", "rm"}
  BY PrewarmLine
<1>3. call[c] = "prepare" => script[c].lines \in PrepareRest
  BY <1>2 DEF PrewarmInv, Holds, ScriptRuns
<1>4. call[c] = "prepare" /\ code = 0 => \/ NextLine(c) = "check" /\ script[c].lines = <<"check", "rm", "mkdir">>
                                         \/ NextLine(c) = "mkdir" /\ script[c].lines = <<"mkdir">>
  BY <1>3, PrepareNext DEF NextLine
<1>5. PrewarmInv(c)'
  BY <1>1, <1>2, <1>3, <1>4 DEF PrewarmInv, Holds, Over, ScriptRuns, NextLine
<1>6. Filling(c)' => code = 0 /\ NextLine(c) = "mkdir"
  BY <1>1, <1>2, <1>4 DEF Filling, Answers, NextLine
<1>7. ~wiped' => FillingInv(c)'
  BY <1>1, <1>2, <1>6 DEF FillingInv, Clears, Holds, ScriptRuns
<1> QED  BY <1>2, <1>5, <1>6, <1>7

LEMMA PrewarmRunsLine ==
  ASSUME EveInv, NEW c \in Prewarms, RunLine(c)
  PROVE  EveInv'
PROOF
<1>1. /\ Holds(c) /\ Alone(c) /\ DirsInv' /\ UNCHANGED <<call, puts, parents, templated, kept>>
      /\ wiped' = (wiped \/ Wipes(c)) /\ (~wiped' => ~wiped)
      /\ NextLine(c) \in Lines /\ ~Impossible(c, NextLine(c)) /\ dir' = After(c, NextLine(c))
      /\ TmpOf(c) = "templateTmp" /\ TargetOf(c) = "template" /\ c \in EveCalls
  BY LineStep, DirNames, EveAssumption
<1>2. PICK r \in Scripts :
        /\ script'[c] = r
        /\ \/ NextLine(c) = "check" /\ Ready \in dir["template"] /\ Ended(c, r, 0)
           \/ NextLine(c) = "template" /\ Ended(c, r, 67)
           \/ /\ NextLine(c) = "check" => Ready \notin dir["template"]
              /\ LinesGoOn(c, r) \/ (Len(script[c].lines) = 1 /\ Ended(c, r, 0))
  BY <1>1, LineStep
<1>3. PICK line \in Lines : line = NextLine(c)
  BY <1>1
<1>4. /\ "templateTmp" \in Dirs /\ "template" \in Dirs /\ "session" \in Dirs /\ "sessionTmp" \in Dirs
      /\ DirsInv /\ Ready \notin NoDir /\ Ready # Nested /\ Ready \in Files
  BY SeedsAssumption, NoFileInNoDir DEF Dirs, EveInv, Files, Ready, Nested
<1>5. /\ dir'["session"] = dir["session"] /\ dir'["sessionTmp"] = dir["sessionTmp"]
      /\ line \notin {"rmTarget", "mv"} => dir'["template"] = dir["template"]
      /\ line = "rmTarget" => dir'["template"] = NoDir
      /\ line = "mv" => dir'["template"] = IF dir["template"] = NoDir THEN dir["templateTmp"] ELSE dir["template"] \cup {Nested}
      /\ line \in {"rmTarget", "mkdirParent"} => dir'["templateTmp"] = dir["templateTmp"]
      /\ line = "touch" => dir'["templateTmp"] = dir["templateTmp"] \cup {Ready}
  <2>1. dir' = After(c, line) /\ "templateTmp" = TmpOf(c) /\ "template" = TargetOf(c)
    BY <1>1, <1>3
  <2>2. "templateTmp" # "template" /\ c \in EveCalls
    BY <1>1
  <2>3. /\ \A d \in Dirs : d \notin {"templateTmp", "template"} => dir'[d] = dir[d]
        /\ line \in {"check", "template", "mkdirParent"} => dir'["templateTmp"] = dir["templateTmp"] /\ dir'["template"] = dir["template"]
        /\ line = "rm" => dir'["template"] = dir["template"]
        /\ line = "mkdir" => dir'["template"] = dir["template"]
        /\ line = "copy" => dir'["template"] = dir["template"]
        /\ line = "touch" => dir'["templateTmp"] = dir["templateTmp"] \cup {Ready} /\ dir'["template"] = dir["template"]
        /\ line = "rmTarget" => dir'["templateTmp"] = dir["templateTmp"] /\ dir'["template"] = NoDir
        /\ line = "mv" => dir'["template"] = IF dir["template"] = NoDir THEN dir["templateTmp"] ELSE dir["template"] \cup {Nested}
    BY <1>4, <2>1, <2>2, AfterLine
  <2> QED  BY <1>4, <2>3 DEF Lines
<1>6. /\ call[c] \in {"prepare", "publish", "failed"}
      /\ script[c].lines \in PrepareRest \/ script[c].lines \in PublishRest
      /\ script[c].lines \in PrepareRest => script[c].lines \notin PublishRest /\ line \in {"check", "rm", "mkdir"}
      /\ script[c].lines \in PublishRest => line \in {"touch", "rmTarget", "mkdirParent", "mv"}
      /\ ~wiped => FillingInv(c) /\ TemplateIsWhole /\ (line # "check" => Ready \notin dir["template"])
  BY <1>1, <1>3, PrewarmLine DEF EveInv, TemplateInv
<1>7. ~wiped /\ script[c].lines \in PublishRest => Whole \subseteq dir["templateTmp"]
  BY <1>1, <1>6 DEF FillingInv, Holds, ScriptRuns
<1>8. line = "check" => dir' = dir
  BY <1>1, <1>3 DEF After
<1>9. CASE line # "mv"
  <2>1. dir'["template"] = dir["template"] \/ Ready \notin dir'["template"]
    BY <1>4, <1>5, <1>9
  <2>2. ~wiped' => TemplateIsWhole'
    BY <1>1, <1>6, <2>1 DEF TemplateIsWhole
  <2>3. ~wiped' => (Ready \in dir["template"] => Ready \in dir'["template"])
    BY <1>1, <1>5, <1>6, <1>9
  <2>4. CASE LinesGoOn(c, r)
    <3>1. ~Ended(c, r, 0) /\ ~Ended(c, r, 67)
      BY <1>1, <2>4 DEF LinesGoOn, Ended, Holds
    <3>2. ~wiped' => Ready \notin dir'["template"]
      BY <1>1, <1>2, <1>3, <1>6, <2>1, <3>1
    <3>3. ~wiped' /\ script[c].lines \in PublishRest => Whole \subseteq dir'["templateTmp"]
      BY <1>1, <1>5, <1>6, <1>7, <1>9
    <3>4. PrewarmInv(c)' /\ (~wiped' => FillingInv(c)') /\ (Filling(c)' => Filling(c) \/ line = "rm")
      BY <1>1, <1>2, <1>3, <2>4, <3>2, <3>3, PrewarmGoesOn
    <3> QED  BY <1>1, <1>3, <1>5, <1>8, <2>2, <2>3, <3>4, PrewarmLands
  <2>5. CASE ~LinesGoOn(c, r)
    <3>1. Ended(c, r, 0) /\ (line = "check" \/ Len(script[c].lines) = 1)
      BY <1>2, <1>3, <1>6, <2>5
    <3>2. ~wiped' /\ line = "mkdir" => Ready \notin dir'["template"]
      BY <1>1, <1>6, <2>1
    <3>3. PrewarmInv(c)' /\ (~wiped' => FillingInv(c)') /\ (Filling(c)' => Filling(c))
      BY <1>1, <1>2, <1>3, <3>1, <3>2, PrewarmEnds
    <3> QED  BY <1>1, <1>3, <1>5, <1>8, <2>2, <2>3, <3>3, PrewarmLands
  <2> QED  BY <2>4, <2>5
<1>10. CASE line = "mv"
  <2>1. script[c].lines \in PublishRest
    BY <1>6, <1>10
  <2>2. Len(script[c].lines) = 1
    BY <1>3, <1>10, <2>1, PublishNext DEF NextLine
  <2>3. Ended(c, r, 0)
    BY <1>2, <1>3, <1>10, <2>2 DEF LinesGoOn
  <2>4. PrewarmInv(c)' /\ (~wiped' => FillingInv(c)') /\ (Filling(c)' => Filling(c))
    BY <1>1, <1>2, <1>3, <1>10, <2>2, <2>3, PrewarmEnds
  <2>5. ~wiped' => TemplateIsWhole' /\ Ready \notin dir["template"]
    BY <1>1, <1>4, <1>5, <1>6, <1>7, <1>10, <2>1 DEF TemplateIsWhole
  <2> QED  BY <1>1, <1>3, <1>5, <1>8, <2>4, <2>5, PrewarmLands
<1> QED  BY <1>9, <1>10

LEMMA PrewarmFailsLine ==
  ASSUME EveInv, NEW c \in Prewarms, LineFails(c)
  PROVE  EveInv'
PROOF
<1>1. /\ Holds(c) /\ Alone(c) /\ DirsInv' /\ UNCHANGED <<call, puts, parents, templated, kept>>
      /\ wiped' = (wiped \/ Wipes(c)) /\ (~wiped' => ~wiped)
      /\ NextLine(c) \notin {"check", "template"} /\ DirsInv
      /\ TmpOf(c) = "templateTmp" /\ TargetOf(c) = "template" /\ c \in EveCalls
  BY FailStep, DirNames, EveAssumption DEF EveInv
<1>2. PICK r \in Scripts : script'[c] = r /\ (Ended(c, r, 1) \/ LinesGoOn(c, r))
  BY <1>1, FailStep
<1>3. /\ dir'["session"] = dir["session"] /\ dir'["sessionTmp"] = dir["sessionTmp"]
      /\ NextLine(c) # "rmTarget" => dir'["template"] = dir["template"]
      /\ dir'["template"] = dir["template"] \/ dir'["template"] \subseteq dir["template"]
      /\ NextLine(c) \notin {"rm", "copy"} => dir'["templateTmp"] = dir["templateTmp"]
  <2>1. "templateTmp" \in Dirs /\ "template" \in Dirs /\ "session" \in Dirs /\ "sessionTmp" \in Dirs
    BY DEF Dirs
  <2> QED  BY <1>1, <2>1, FailedLine
<1>4. ~wiped' => Ready \notin dir["template"] /\ Ready \notin dir'["template"]
  BY <1>1, <1>3, PrewarmLine
<1>5. ~wiped' /\ script[c].lines \in PublishRest => Whole \subseteq dir'["templateTmp"]
  BY <1>1, <1>3, PrewarmLine DEF FillingInv, Holds, ScriptRuns
<1>6. PrewarmInv(c)' /\ (~wiped' => FillingInv(c)') /\ (Filling(c)' => Filling(c) \/ NextLine(c) = "rm")
  <2>1. CASE Ended(c, r, 1)
    BY <1>1, <1>2, <2>1, PrewarmEnds
  <2>2. CASE LinesGoOn(c, r)
    BY <1>1, <1>2, <1>4, <1>5, <2>2, PrewarmGoesOn
  <2> QED  BY <1>2, <2>1, <2>2
<1>7. ~wiped' => TemplateIsWhole'
  BY <1>4 DEF TemplateIsWhole
<1> QED  BY <1>1, <1>3, <1>4, <1>6, <1>7, PrewarmLands

\* Where the script of a create is, line by line.
LEMMA CreateLine ==
  ASSUME EveInv, NEW c \in Creates, Holds(c)
  PROVE  LET l == script[c].lines IN
         /\ CreateInv(c) /\ SessionInv /\ script[c].strict
         /\ \/ Head(l) = "check" /\ Len(l) # 1 /\ Tail(l) \in SessionRest /\ Head(Tail(l)) = IF templated THEN "template" ELSE "rm"
            \/ Head(l) = "template" /\ Len(l) # 1 /\ Tail(l) \in SessionRest /\ Head(Tail(l)) = "rm" /\ templated
            \/ Head(l) = "rm" /\ Len(l) # 1 /\ Tail(l) \in SessionRest /\ Head(Tail(l)) = "mkdir"
            \/ Head(l) = "mkdir" /\ Len(l) # 1 /\ Tail(l) \in SessionRest /\ Head(Tail(l)) = IF templated THEN "copy" ELSE "touch"
            \/ Head(l) = "copy" /\ Len(l) # 1 /\ Tail(l) \in SessionRest /\ Head(Tail(l)) = "touch" /\ templated
            \/ Head(l) = "touch" /\ Len(l) # 1 /\ Tail(l) \in SessionRest /\ Head(Tail(l)) = "rmTarget"
            \/ Head(l) = "rmTarget" /\ Len(l) # 1 /\ Tail(l) \in SessionRest /\ Head(Tail(l)) = "mkdirParent"
            \/ Head(l) = "mkdirParent" /\ Len(l) # 1 /\ Tail(l) \in SessionRest /\ Head(Tail(l)) = "mv"
            \/ Head(l) = "mv" /\ Len(l) = 1
PROOF
<1>1. CreateInv(c) /\ SessionInv /\ script[c].strict /\ script[c].lines \in SessionRest
  BY DEF EveInv, SessionInv, CreateInv, Holds, ScriptRuns
<1>2. CASE script[c].lines \in PublishRest
  BY <1>1, <1>2, PublishNext DEF SessionRest
<1>3. CASE templated /\ script[c].lines \in CopyRest
  BY <1>1, <1>3, CopyNext DEF SessionRest
<1>4. CASE ~templated /\ script[c].lines \in FreshRest
  BY <1>1, <1>4, FreshNext DEF SessionRest
<1> QED  BY <1>1, <1>2, <1>3, <1>4 DEF SessionRest

\* A create's container has run a line or failed to.
LEMMA CreateLands ==
  ASSUME EveInv, NEW c \in Creates, Holds(c), Alone(c), DirsInv', UNCHANGED <<call, puts, parents, templated, kept, wiped>>,
         CreateInv(c)', ~wiped => SessionIsWhole',
         Ready \in dir["session"] => dir'["session"] = dir["session"],
         dir'["template"] = dir["template"], dir'["templateTmp"] = dir["templateTmp"]
  PROVE  EveInv'
PROOF
<1>1. TemplateInv'
  BY TemplateRests, DirNames, EveAssumption DEF Alone, EveInv
<1>2. \A d \in Creates : Holds(d) => d = c
  BY DEF EveInv, SessionInv
<1>3. SessionInv'
  BY <1>2, CreateMoves DEF EveInv
<1> QED  BY <1>1, <1>3 DEF EveInv

\* The script of a create has ended: at its test or its last line with a
\* session that is ready, or in an error.
LEMMA CreateEnds ==
  ASSUME EveInv, NEW c \in Creates, Holds(c), UNCHANGED <<call, templated>>,
         NEW r \in Scripts, script'[c] = r, NEW code \in {0, 1, 67}, Ended(c, r, code),
         code = 0 => Ready \in dir'["session"],
         Ready \in dir["session"] => dir'["session"] = dir["session"]
  PROVE  CreateInv(c)'
PROOF
<1>1. r.state = "over" /\ r.exit = code /\ CreateInv(c)
  BY CreateLine DEF Ended
<1> QED  BY <1>1 DEF CreateInv, Holds, ScriptRuns

\* The script of a create has gone on to its next line.
LEMMA CreateGoesOn ==
  ASSUME EveInv, NEW c \in Creates, Holds(c), UNCHANGED <<call, templated, wiped>>,
         NEW r \in Scripts, script'[c] = r, LinesGoOn(c, r), Tail(script[c].lines) \in SessionRest,
         NEW then \in Lines, then = Head(Tail(script[c].lines)), then # "check",
         Ready \notin dir["session"], Ready \notin dir'["session"],
         templated /\ then \in {"rm", "mkdir", "copy"} /\ ~wiped => Ready \in dir'["template"],
         templated /\ then \in {"touch", "rmTarget", "mkdirParent", "mv"} /\ ~wiped => Whole \subseteq dir'["sessionTmp"],
         then \in {"rmTarget", "mkdirParent", "mv"} => Ready \in dir'["sessionTmp"],
         then \in {"mkdirParent", "mv"} => dir'["session"] = NoDir
  PROVE  CreateInv(c)'
PROOF
<1>1. /\ r.state = "running" /\ r.lines = Tail(script[c].lines) /\ Head(r.lines) = then /\ r.strict
      /\ CreateInv(c) /\ SessionRest' = SessionRest
  BY CreateLine DEF LinesGoOn, Holds, SessionRest
<1>2. NextLine(c)' = then
  BY <1>1 DEF NextLine
<1>3. call'[c] \in {"idle", "parents", "create", "ok", "missing", "failed"} /\ call'[c] # "ok"
      /\ call'[c] \notin {"idle", "parents"}
  BY <1>1 DEF CreateInv, Holds
<1> QED  BY <1>1, <1>2, <1>3 DEF CreateInv, Holds, ScriptRuns

LEMMA CreateRunsLine ==
  ASSUME EveInv, NEW c \in Creates, RunLine(c)
  PROVE  EveInv'
PROOF
<1>0. ~Wipes(c) /\ wiped \in BOOLEAN /\ c \in EveCalls
  BY DirNames, EveAssumption DEF Wipes, EveInv, DirsInv
<1>1. /\ Holds(c) /\ Alone(c) /\ DirsInv' /\ UNCHANGED <<call, puts, parents, templated, kept, wiped>>
      /\ NextLine(c) \in Lines /\ ~Impossible(c, NextLine(c)) /\ dir' = After(c, NextLine(c))
      /\ TmpOf(c) = "sessionTmp" /\ TargetOf(c) = "session" /\ c \in EveCalls
  BY <1>0, LineStep, DirNames, EveAssumption
<1>2. PICK r \in Scripts :
        /\ script'[c] = r
        /\ \/ NextLine(c) = "check" /\ Ready \in dir["session"] /\ Ended(c, r, 0)
           \/ NextLine(c) = "template" /\ Ended(c, r, 67)
           \/ /\ NextLine(c) = "check" => Ready \notin dir["session"]
              /\ NextLine(c) = "template" => Ready \in dir["template"]
              /\ LinesGoOn(c, r) \/ (Len(script[c].lines) = 1 /\ Ended(c, r, 0))
  BY <1>1, LineStep
<1>3. PICK line \in Lines : line = NextLine(c)
  BY <1>1
<1>4. /\ "templateTmp" \in Dirs /\ "template" \in Dirs /\ "session" \in Dirs /\ "sessionTmp" \in Dirs
      /\ DirsInv /\ Ready \notin NoDir /\ Ready \in Files
  BY SeedsAssumption, NoFileInNoDir DEF Dirs, EveInv, Files
<1>5. /\ dir'["template"] = dir["template"] /\ dir'["templateTmp"] = dir["templateTmp"]
      /\ line \notin {"rmTarget", "mv"} => dir'["session"] = dir["session"]
      /\ line = "rmTarget" => dir'["session"] = NoDir
      /\ line = "mv" => dir'["session"] = IF dir["session"] = NoDir THEN dir["sessionTmp"] ELSE dir["session"] \cup {Nested}
      /\ line \in {"rmTarget", "mkdirParent"} => dir'["sessionTmp"] = dir["sessionTmp"]
      /\ line = "copy" => dir'["sessionTmp"] = dir["sessionTmp"] \cup dir["template"]
      /\ line = "touch" => dir'["sessionTmp"] = dir["sessionTmp"] \cup {Ready}
  <2>1. dir' = After(c, line) /\ "sessionTmp" = TmpOf(c) /\ "session" = TargetOf(c)
    BY <1>1, <1>3
  <2>2. "sessionTmp" # "session" /\ c \in EveCalls
    BY <1>1
  <2>3. /\ \A d \in Dirs : d \notin {"sessionTmp", "session"} => dir'[d] = dir[d]
        /\ line \in {"check", "template", "mkdirParent"} => dir'["sessionTmp"] = dir["sessionTmp"] /\ dir'["session"] = dir["session"]
        /\ line = "rm" => dir'["session"] = dir["session"]
        /\ line = "mkdir" => dir'["session"] = dir["session"]
        /\ line = "copy" => dir'["sessionTmp"] = dir["sessionTmp"] \cup dir["template"] /\ dir'["session"] = dir["session"]
        /\ line = "touch" => dir'["sessionTmp"] = dir["sessionTmp"] \cup {Ready} /\ dir'["session"] = dir["session"]
        /\ line = "rmTarget" => dir'["sessionTmp"] = dir["sessionTmp"] /\ dir'["session"] = NoDir
        /\ line = "mv" => dir'["session"] = IF dir["session"] = NoDir THEN dir["sessionTmp"] ELSE dir["session"] \cup {Nested}
    BY <1>4, <2>1, <2>2, AfterLine
  <2> QED  BY <1>4, <2>3 DEF Lines
<1>6. /\ CreateInv(c) /\ (~wiped => SessionIsWhole /\ TemplateIsWhole)
      /\ line # "check" => Ready \notin dir["session"]
      /\ templated /\ line \in {"rm", "mkdir", "copy"} /\ ~wiped => Ready \in dir["template"]
      /\ templated /\ line \in {"touch", "rmTarget", "mkdirParent", "mv"} /\ ~wiped => Whole \subseteq dir["sessionTmp"]
      /\ line \in {"rmTarget", "mkdirParent", "mv"} => Ready \in dir["sessionTmp"]
      /\ line \in {"mkdirParent", "mv"} => dir["session"] = NoDir
  BY <1>1, <1>3, CreateLine DEF CreateInv, SessionInv, EveInv, TemplateInv
<1>7. CASE Ended(c, r, 0) /\ line # "mv"
  <2>1. line = "check" /\ Ready \in dir["session"]
    <3>1. ~LinesGoOn(c, r)
      BY <1>1, <1>7 DEF Ended, LinesGoOn, Holds
    <3>2. Len(script[c].lines) # 1
      BY <1>1, <1>3, <1>7, CreateLine DEF NextLine
    <3>3. ~Ended(c, r, 67)
      BY <1>7 DEF Ended
    <3> QED  BY <1>2, <1>3, <3>1, <3>2, <3>3
  <2>2. dir'["session"] = dir["session"]
    BY <1>5, <2>1
  <2>3. CreateInv(c)'
    BY <1>1, <1>2, <1>7, <2>1, <2>2, CreateEnds
  <2>4. ~wiped => SessionIsWhole'
    BY <1>1, <1>6, <2>2 DEF SessionIsWhole
  <2> QED  BY <1>1, <1>5, <2>2, <2>3, <2>4, CreateLands
<1>8. CASE Ended(c, r, 67)
  <2>1. line = "template"
    <3>1. ~LinesGoOn(c, r) /\ ~Ended(c, r, 0)
      BY <1>1, <1>8 DEF Ended, LinesGoOn, Holds
    <3> QED  BY <1>2, <1>3, <3>1
  <2>2. dir'["session"] = dir["session"]
    BY <1>5, <2>1
  <2>3. CreateInv(c)'
    BY <1>1, <1>2, <1>8, <2>2, CreateEnds
  <2>4. ~wiped => SessionIsWhole'
    BY <1>1, <1>6, <2>2 DEF SessionIsWhole
  <2> QED  BY <1>1, <1>5, <2>2, <2>3, <2>4, CreateLands
<1>9. CASE line = "mv"
  <2>1. Len(script[c].lines) = 1
    BY <1>1, <1>3, <1>9, CreateLine DEF NextLine
  <2>2. Ended(c, r, 0)
    BY <1>2, <1>3, <1>9, <2>1 DEF LinesGoOn
  <2>3. dir'["session"] = dir["sessionTmp"] /\ Ready \in dir'["session"] /\ Ready \notin dir["session"]
    BY <1>5, <1>6, <1>9
  <2>4. CreateInv(c)'
    BY <1>1, <1>2, <2>2, <2>3, CreateEnds
  <2>5. ~wiped => SessionIsWhole'
    BY <1>1, <1>6, <1>9, <2>3 DEF SessionIsWhole
  <2> QED  BY <1>1, <1>5, <2>3, <2>4, <2>5, CreateLands
<1>10. CASE LinesGoOn(c, r)
  <2>1. /\ ~Ended(c, r, 0) /\ ~Ended(c, r, 67) /\ Len(script[c].lines) # 1
    BY <1>1, <1>10 DEF LinesGoOn, Ended, Holds
  <2>2. /\ line = "check" => Ready \notin dir["session"]
        /\ line = "template" => Ready \in dir["template"]
    BY <1>2, <1>3, <2>1
  <2>3. Ready \notin dir["session"]
    BY <1>6, <2>2
  <2>4. PICK then : then = Head(Tail(script[c].lines))
    OBVIOUS
  <2>5. \/ line = "check" /\ then = IF templated THEN "template" ELSE "rm"
        \/ line = "template" /\ then = "rm"
        \/ line = "rm" /\ then = "mkdir"
        \/ line = "mkdir" /\ then = IF templated THEN "copy" ELSE "touch"
        \/ line = "copy" /\ then = "touch"
        \/ line = "touch" /\ then = "rmTarget"
        \/ line = "rmTarget" /\ then = "mkdirParent"
        \/ line = "mkdirParent" /\ then = "mv"
    BY <1>1, <1>3, <2>1, <2>4, CreateLine DEF NextLine
  <2>6. Tail(script[c].lines) \in SessionRest /\ then \in Lines
    BY <1>1, <2>1, <2>5, CreateLine DEF Lines
  <2>7. line # "mv" /\ then # "check"
    BY <2>5
  <2>8. Ready \notin dir'["session"]
    BY <1>4, <1>5, <2>3, <2>7
  <2>9. templated /\ then \in {"rm", "mkdir", "copy"} /\ ~wiped => Ready \in dir'["template"]
    BY <1>5, <1>6, <2>2, <2>5
  <2>10. templated /\ then \in {"touch", "rmTarget", "mkdirParent", "mv"} /\ ~wiped => Whole \subseteq dir'["sessionTmp"]
    <3>1. templated /\ then = "touch" /\ ~wiped => Whole \subseteq dir'["sessionTmp"]
      BY <1>5, <1>6, <2>5 DEF TemplateIsWhole
    <3>2. templated /\ then \in {"rmTarget", "mkdirParent", "mv"} /\ ~wiped => Whole \subseteq dir'["sessionTmp"]
      BY <1>5, <1>6, <2>5
    <3> QED  BY <3>1, <3>2
  <2>11. then \in {"rmTarget", "mkdirParent", "mv"} => Ready \in dir'["sessionTmp"]
    BY <1>5, <1>6, <2>5
  <2>12. then \in {"mkdirParent", "mv"} => dir'["session"] = NoDir
    BY <1>5, <1>6, <2>5
  <2>13. CreateInv(c)'
    BY <1>1, <1>2, <1>10, <2>3, <2>4, <2>6, <2>7, <2>8, <2>9, <2>10, <2>11, <2>12, CreateGoesOn
  <2>14. ~wiped => SessionIsWhole'
    BY <2>8 DEF SessionIsWhole
  <2> QED  BY <1>1, <1>5, <2>3, <2>13, <2>14, CreateLands
<1> QED  BY <1>2, <1>3, <1>7, <1>8, <1>9, <1>10

LEMMA CreateFailsLine ==
  ASSUME EveInv, NEW c \in Creates, LineFails(c)
  PROVE  EveInv'
PROOF
<1>0. ~Wipes(c) /\ wiped \in BOOLEAN /\ c \in EveCalls
  BY DirNames, EveAssumption DEF Wipes, EveInv, DirsInv
<1>1. /\ Holds(c) /\ Alone(c) /\ DirsInv' /\ UNCHANGED <<call, puts, parents, templated, kept, wiped>>
      /\ NextLine(c) \notin {"check", "template"} /\ DirsInv
      /\ TmpOf(c) = "sessionTmp" /\ TargetOf(c) = "session" /\ c \in EveCalls
  BY <1>0, FailStep, DirNames, EveAssumption DEF EveInv
<1>2. CreateInv(c) /\ script[c].strict /\ Ready \notin dir["session"]
  BY <1>1, CreateLine DEF CreateInv, SessionInv
<1>3. PICK r \in Scripts : script'[c] = r /\ Ended(c, r, 1)
  BY <1>1, <1>2, FailStep
<1>4. /\ dir'["template"] = dir["template"] /\ dir'["templateTmp"] = dir["templateTmp"]
      /\ dir'["session"] = dir["session"] \/ dir'["session"] \subseteq dir["session"]
  <2>1. "templateTmp" \in Dirs /\ "template" \in Dirs /\ "session" \in Dirs /\ "sessionTmp" \in Dirs
    BY DEF Dirs
  <2> QED  BY <1>1, <2>1, FailedLine
<1>5. Ready \notin dir'["session"]
  BY <1>2, <1>4
<1>6. CreateInv(c)'
  BY <1>1, <1>2, <1>3, CreateEnds
<1>7. ~wiped => SessionIsWhole'
  BY <1>5 DEF SessionIsWhole
<1> QED  BY <1>1, <1>2, <1>4, <1>6, <1>7, CreateLands

-----------------------------------------------------------------------------
(* The theorems. *)

LEMMA InitEveInv == EveInit => EveInv
PROOF
<1> SUFFICES ASSUME EveInit PROVE EveInv
  OBVIOUS
<1>1. DirsInv
  <2>1. Idle \in Scripts
    BY DEF Idle, Scripts
  <2> QED  BY <2>1 DEF EveInit, DirsInv, Scripts
<1>2. \A c \in EveCalls : call[c] = "idle" /\ script[c].state = "none"
  BY DEF EveInit, Idle
<1>3. \A f \in Files, d \in Dirs : f \notin dir[d]
  BY NoFileInNoDir, SeedsAssumption DEF EveInit
<1>4. Ready \in Files /\ "template" \in Dirs /\ "session" \in Dirs /\ Ready \notin dir["template"] /\ Ready \notin dir["session"]
  BY <1>3 DEF Files, Dirs
<1>5. ASSUME NEW c \in Prewarms PROVE ~Holds(c) /\ PrewarmInv(c) /\ FillingInv(c) /\ FillsAlone(c)
  <2>1. call[c] = "idle" /\ script[c].state = "none" /\ puts = {}
    BY <1>2 DEF EveCalls, EveInit
  <2>2. ~Holds(c) /\ ~Filling(c)
    BY <2>1 DEF Holds, Filling, Answers
  <2> QED  BY <2>1, <2>2 DEF PrewarmInv, FillingInv, FillsAlone, Clears, ScriptRuns, Over
<1>6. ASSUME NEW c \in Creates PROVE ~Holds(c) /\ CreateInv(c)
  <2>1. call[c] = "idle" /\ script[c].state = "none"
    BY <1>2 DEF EveCalls
  <2> QED  BY <2>1 DEF Holds, CreateInv, ScriptRuns
<1>7. TemplateInv
  BY <1>4, <1>5 DEF TemplateInv, TemplateIsWhole
<1>8. SessionInv
  BY <1>4, <1>6 DEF SessionInv, SessionIsWhole, SessionKeepsWork, EveInit
<1> QED  BY <1>1, <1>7, <1>8 DEF EveInv

LEMMA NextEveInv == EveInv /\ [EveNext]_eveVars => EveInv'
PROOF
<1> SUFFICES ASSUME EveInv, [EveNext]_eveVars PROVE EveInv'
  OBVIOUS
<1>1. CASE UNCHANGED eveVars
  <2>1. UNCHANGED <<call, script, puts, dir, parents, templated, kept, wiped>>
    BY <1>1 DEF eveVars
  <2>2. DirsInv'
    BY <2>1 DEF EveInv, DirsInv
  <2> QED  BY <2>1, <2>2, TemplateRests, SessionRests DEF EveInv
<1>2. ASSUME NEW c \in EveCalls, RunLine(c) PROVE EveInv'
  BY <1>2, PrewarmRunsLine, CreateRunsLine DEF EveCalls
<1>3. ASSUME NEW c \in EveCalls, LineFails(c) PROVE EveInv'
  BY <1>3, PrewarmFailsLine, CreateFailsLine DEF EveCalls
<1> QED  BY <1>1, <1>2, <1>3, StartsEveInv, ParentsEveInv, ParentsReadyEveInv, AnsweredEveInv, ContainerEveInv,
            BootstrapsEveInv, PutLandsEveInv, PutFailsEveInv, PublishesEveInv, SessionEveInv DEF EveNext

LEMMA EveInvariance == EveSpec => []EveInv
PROOF
<1> QED  BY InitEveInv, NextEveInv, PTL DEF EveSpec

\* Every call, script and directory is one the model has.
THEOREM EveTypes == EveSpec => []EveTypeOK
PROOF
<1>1. EveInv => EveTypeOK
  BY DEF EveInv, DirsInv, EveTypeOK
<1> QED  BY <1>1, EveInvariance, PTL

\* A template and a session that are marked ready hold every seed and what
\* bootstrap() wrote, whichever puts, lines and containers fail or run on
\* after their caller gave up, and however prewarms overlap, unless one of
\* them removed the temporary directory that another was filling (prewarm and
\* create).
THEOREM PublishedTreesAreWhole == EveSpec => []PublishedIsWhole
PROOF
<1>1. EveInv => PublishedIsWhole
  BY DEF EveInv, TemplateInv, SessionInv, PublishedIsWhole
<1> QED  BY <1>1, EveInvariance, PTL

\* What was written through a session's handle stays until it is removed
\* through one, whatever other creates of the session do (create).
THEOREM SessionsKeepTheirWork == EveSpec => []SessionKeepsWork
PROOF
<1>1. EveInv => SessionKeepsWork
  BY DEF EveInv, SessionInv
<1> QED  BY <1>1, EveInvariance, PTL

-----------------------------------------------------------------------------
(* The invariant. *)

MountsInv ==
  /\ mounts \in Seq(MountSet) \ {<<>>}
  /\ \A i, j \in DOMAIN mounts : mounts[i].name = mounts[j].name => i = j

KeysInv ==
  /\ held \in [Disks -> SUBSET DiskKeys] /\ always \in [Disks -> SUBSET DiskKeys] /\ ever \in [Disks -> SUBSET DiskKeys]
  /\ \A d \in Disks : always[d] \subseteq held[d] /\ held[d] \subseteq ever[d]

Places == 1..Len(KeyOrder)
Groups == Seq(Seq(BOOLEAN))
WalkSet ==
  [mount : MountSet, rel : Seq(Plain), state : {"asking", "done", "failed", "refused"}, token : 0..Len(KeyOrder),
   asked : SUBSET Places, requests : Nat, objects : SUBSET Places, dirs : SUBSET Seq(Plain), cut : BOOLEAN,
   stuck : BOOLEAN, reason : StopReasons \cup {"none"}, groups : Groups]

\* What a walk has taken was there, below its directory.
TakesWhatIsThere(w, seen) ==
  /\ IsPrefix(w.mount.sub, w.rel)
  /\ \A k \in w.objects : KeyOrder[k] \in seen[w.mount.disk] /\ Below(w.rel, KeyOrder[k])
  /\ \A d \in w.dirs : IsPrefix(w.rel, d)

\* It asks at most once for each token.
AsksOnce(w) ==
  /\ w.token # 0 => w.token \in w.asked
  /\ w.requests <= Cardinality(w.asked) + (IF w.state = "asking" THEN 0 ELSE 1)

\* It has taken every key up to its token, and at its end every key, that was
\* surely there all the while.
MissesNothing(w, op, sure) ==
  op # "grep" /\ ~w.cut /\ ~w.stuck =>
    \A k \in Places :
      (w.state = "done" \/ k <= w.token) /\ KeyOrder[k] \in sure[w.mount.disk] /\ Below(w.rel, KeyOrder[k]) =>
        k \in w.objects \/ \E d \in w.dirs : IsPrefix(d, KeyOrder[k])

FitsTheSearch(w, op) ==
  /\ w.state = "asking" => ~w.cut /\ ~w.stuck
  /\ op = "glob" => w.dirs = {}
  /\ w.state = "refused" => op = "grep"
  /\ op = "grep" /\ w.state = "done" => w.reason \in StopReasons

WalkInv(w, op, sure, seen) ==
  TakesWhatIsThere(w, seen) /\ AsksOnce(w) /\ MissesNothing(w, op, sure) /\ FitsTheSearch(w, op)

SearchInv ==
  /\ search \in Searches \cup {NoSearch} /\ walk \in Seq(WalkSet)
  /\ found.op \notin {"none", "rejected"} => search \in Searches
  /\ search = NoSearch => walk = <<>> /\ found.op = "none"
  /\ found.op = "pending" /\ search.op = "disk" => Len(walk) = 1
  /\ \A i \in DOMAIN walk : WalkInv(walk[i], search.op, always, ever)

\* What was returned is what the walks took.
FoundInv ==
  /\ found.op \in {"none", "pending", "rejected", "list", "disk", "glob", "grep"}
  /\ found.op \in {"list", "disk", "glob", "grep"} =>
       search.op = found.op /\ \A i \in DOMAIN walk : walk[i].state # "asking"
  /\ found.op = "list" /\ walk # <<>> =>
       found.objects = Keys /\ found.dirs = DirKeys /\ found.truncated = ListingTruncated
  /\ found.op = "disk" =>
       /\ Len(walk) = 1 /\ Done # {}
       /\ found.objects = KeysOf(walk[1]) /\ found.dirs = walk[1].dirs /\ found.truncated = walk[1].cut
  /\ found.op = "glob" =>
       /\ found.dirs = {}
       /\ found.truncated \/ (~ListingTruncated /\ \A k \in Keys : Wanted(search, k) => k \in found.objects)
  /\ GrepIsHonest

WsInv == MountsInv /\ KeysInv /\ changes \in Nat /\ SearchInv /\ FoundInv

-----------------------------------------------------------------------------
(* Induction, on natural numbers and along a sequence. *)

\* A nonempty set of natural numbers has a least element: of the intervals below
\* its elements one has none of the others inside.
LEMMA LeastElement ==
  ASSUME NEW S, S \subseteq Nat, S # {}
  PROVE  \E i \in S : \A j \in S : i <= j
PROOF
<1> DEFINE T == {1..i : i \in S}
<1>1. T \subseteq FiniteSubsetsOf(Nat)
  <2>1. \A i \in Nat : 1..i \subseteq Nat /\ IsFiniteSet(1..i)
    BY FS_Interval
  <2> QED  BY <2>1 DEF FiniteSubsetsOf
<1>2. T # {}
  OBVIOUS
<1>3. \E x \in T : \A y \in T : ~ (<<y, x>> \in StrictSubsetOrdering(Nat))
  <2> HIDE DEF T
  <2> QED  BY <1>1, <1>2, FS_StrictSubsetOrderingWellFounded, WFMin, Zenon
<1>4. PICK i \in S : \A y \in T : ~ (<<y, 1..i>> \in StrictSubsetOrdering(Nat))
  BY <1>3
<1>5. ASSUME NEW j \in S, j < i PROVE FALSE
  <2>1. (1..j) \subseteq (1..i) /\ i \in 1..i /\ i \notin 1..j
    BY <1>5
  <2>2. <<1..j, 1..i>> \in StrictSubsetOrdering(Nat)
    BY <2>1 DEF StrictSubsetOrdering
  <2> QED  BY <2>2, <1>4
<1> QED  BY <1>5

\* What holds at 0 and goes from each place to the next holds everywhere.
LEMMA Upwards ==
  ASSUME NEW n \in Nat, NEW P, 0 \in P, \A i \in 1..n : i - 1 \in P => i \in P
  PROVE  \A i \in 0..n : i \in P
PROOF
<1> DEFINE S == {i \in 0..n : i \notin P}
<1> SUFFICES ASSUME S # {} PROVE FALSE
  OBVIOUS
<1>0. S \subseteq Nat
  OBVIOUS
<1>1. \E i \in S : \A j \in S : i <= j
  <2> HIDE DEF S
  <2> QED  BY <1>0, LeastElement, Zenon
<1>3. PICK i \in S : \A j \in S : i <= j
  BY <1>1
<1>2. i \in 1..n /\ i - 1 \in 0..n /\ i - 1 \notin S
  BY <1>3
<1> QED  BY <1>3, <1>2

Steps(n, A) == [1..n -> [A -> A]]
HasRun(n, A, b, step) == \E f \in [0..n -> A] : f[0] = b /\ \A i \in 1..n : f[i] = step[i][f[i - 1]]

\* A function defined along 1..n, each value from the one before it, exists.
LEMMA Recursion ==
  ASSUME NEW n \in Nat, NEW A, NEW b \in A, NEW step \in Steps(n, A)
  PROVE  HasRun(n, A, b, step)
PROOF
<1> USE DEF Steps
<1> DEFINE Good(m) == \E f \in [0..m -> A] : f[0] = b /\ \A i \in 1..m : f[i] = step[i][f[i - 1]]
           P == {m \in 0..n : Good(m)}
<1>1. Good(0)
  <2> DEFINE f == [i \in 0..0 |-> b]
  <2>1. f \in [0..0 -> A] /\ f[0] = b /\ \A i \in 1..0 : f[i] = step[i][f[i - 1]]
    OBVIOUS
  <2> HIDE DEF f
  <2> QED  BY <2>1
<1>2. ASSUME NEW m \in 1..n, Good(m - 1) PROVE Good(m)
  <2>1. PICK f \in [0..m - 1 -> A] : f[0] = b /\ \A i \in 1..m - 1 : f[i] = step[i][f[i - 1]]
    BY <1>2
  <2> DEFINE g == [i \in 0..m |-> IF i = m THEN step[m][f[m - 1]] ELSE f[i]]
  <2>2. g \in [0..m -> A]
    BY <2>1
  <2>3. g[0] = b
    BY <2>1
  <2>4. \A i \in 1..m : g[i] = step[i][g[i - 1]]
    BY <2>1
  <2> HIDE DEF g
  <2> QED  BY <2>2, <2>3, <2>4
<1>3. 0 \in P /\ \A i \in 1..n : i - 1 \in P => i \in P
  <2> HIDE DEF Good
  <2> QED  BY <1>1, <1>2
<1>4. \A i \in 0..n : i \in P
  <2> HIDE DEF P
  <2> QED  BY <1>3, Upwards
<1> QED  BY <1>4 DEF HasRun

-----------------------------------------------------------------------------
(* Keys. *)

LEMMA EnterType ==
  ASSUME NEW done \in Seq(Plain), NEW s \in Segments
  PROVE  Enter(done, s) \in Seq(Plain)
PROOF
<1>1. done # <<>> => Front(done) \in Seq(Plain)
  BY DEF Front
<1>2. s \in Plain => Append(done, s) \in Seq(Plain)
  OBVIOUS
<1>4. s \notin {"", ".", ".."} => s \in Plain
  BY DEF Plain
<1>3. <<>> \in Seq(Plain)
  OBVIOUS
<1> QED  BY <1>1, <1>2, <1>3, <1>4 DEF Enter

LEMMA ToSegmentsDef ==
  ASSUME NEW path \in Seq(Segments)
  PROVE  \E d \in [0..Len(path) -> Seq(Plain)] :
           /\ ToSegments(path) = d[Len(path)]
           /\ d[0] = <<>> /\ \A n \in 1..Len(path) : d[n] = Enter(d[n - 1], path[n])
PROOF
<1> DEFINE N == Len(path)
           Body(d) == [n \in 0..N |-> IF n = 0 THEN <<>> ELSE Enter(d[n - 1], path[n])]
           A == Seq(Plain)
           step == [n \in 1..N |-> [a \in A |-> Enter(a, path[n])]]
           empty == <<>>
<1>0. N \in Nat /\ empty \in A /\ \A n \in 1..N : path[n] \in Segments
  OBVIOUS
<1>1. \A n \in 1..N : \A a \in A : Enter(a, path[n]) \in A
  BY <1>0, EnterType
<1>2. step \in Steps(N, A)
  <2> HIDE DEF N, A
  <2> QED  BY <1>1 DEF Steps
<1>3. HasRun(N, A, empty, step)
  <2> HIDE DEF step, N, A, empty
  <2> QED  BY <1>0, <1>2, Recursion
<1>10. PICK f \in [0..N -> A] : f[0] = empty /\ \A n \in 1..N : f[n] = step[n][f[n - 1]]
  BY <1>3 DEF HasRun
<1>4. \A n \in 1..N : f[n] = Enter(f[n - 1], path[n])
  <2> SUFFICES ASSUME NEW n \in 1..N PROVE f[n] = Enter(f[n - 1], path[n])
    OBVIOUS
  <2>1. f[n - 1] \in A
    BY <1>0
  <2> HIDE DEF N, A
  <2> QED  BY <1>10, <2>1
<1>5. f = Body(f)
  <2> HIDE DEF N, A, step
  <2> QED  BY <1>0, <1>10, <1>4
<1>6. PICK d : d = Body(d) /\ ToSegments(path) = d[N]
  BY <1>5 DEF ToSegments
<1>7. d[0] = <<>> /\ \A n \in 1..N : d[n] = Enter(d[n - 1], path[n])
  BY <1>0, <1>6
<1>8. \A n \in 0..N : d[n] \in A
  <2> DEFINE P == {n \in 0..N : d[n] \in A}
  <2>1. 0 \in P /\ \A n \in 1..N : n - 1 \in P => n \in P
    <3> HIDE DEF A
    <3> QED  BY <1>0, <1>1, <1>7
  <2>2. \A n \in 0..N : n \in P
    <3> HIDE DEF P, N
    <3> QED  BY <1>0, <2>1, Upwards
  <2> QED  BY <2>2
<1>9. d \in [0..N -> A]
  <2> HIDE DEF N, A
  <2> QED  BY <1>6, <1>8
<1> QED  BY <1>6, <1>7, <1>9

LEMMA ToSegmentsType ==
  ASSUME NEW path \in Seq(Segments)
  PROVE  ToSegments(path) \in Seq(Plain)
PROOF
<1>1. Len(path) \in 0..Len(path)
  OBVIOUS
<1> QED  BY <1>1, ToSegmentsDef

\* A path that is clean names itself.
LEMMA CleanPath ==
  ASSUME NEW path \in Seq(Plain)
  PROVE  ToSegments(path) = path
PROOF
<1>0. path \in Seq(Segments)
  <2>1. Plain \subseteq Segments
    BY DEF Plain
  <2> QED  BY <2>1
<1> DEFINE N == Len(path)
<1>1. PICK d \in [0..N -> Seq(Plain)] :
        /\ ToSegments(path) = d[N]
        /\ d[0] = <<>> /\ \A n \in 1..N : d[n] = Enter(d[n - 1], path[n])
  BY <1>0, ToSegmentsDef
<1> DEFINE P == {n \in 0..N : d[n] = SubSeq(path, 1, n)}
<1>2. 0 \in P
  BY <1>1
<1>3. ASSUME NEW n \in 1..N, n - 1 \in P PROVE n \in P
  <2>1. path[n] \notin {"", ".", ".."}
    <3>1. path[n] \in Plain
      OBVIOUS
    <3> QED  BY <3>1 DEF Plain
  <2>2. d[n] = Append(SubSeq(path, 1, n - 1), path[n])
    BY <1>1, <1>3, <2>1 DEF Enter
  <2>3. Append(SubSeq(path, 1, n - 1), path[n]) = SubSeq(path, 1, n)
    OBVIOUS
  <2> QED  BY <2>2, <2>3
<1>4. \A n \in 0..N : n \in P
  <2>1. N \in Nat
    OBVIOUS
  <2> HIDE DEF P, N
  <2> QED  BY <1>2, <1>3, <2>1, Upwards
<1>5. d[N] = SubSeq(path, 1, N)
  BY <1>4
<1> QED  BY <1>1, <1>5

\* Prefixes, place by place.
LEMMA PrefixByPlace ==
  ASSUME NEW s \in Seq(Plain), NEW t \in Seq(Plain)
  PROVE  IsPrefix(s, t) <=> (Len(s) <= Len(t) /\ \A i \in 1..Len(s) : s[i] = t[i])
PROOF
<1>1. ASSUME Len(s) <= Len(t)
      PROVE  (SubSeq(s, 1, Len(s)) = SubSeq(t, 1, Len(s))) <=> (\A i \in 1..Len(s) : s[i] = t[i])
  <2>1. SubSeq(s, 1, Len(s)) = [i \in 1..Len(s) |-> s[i]] /\ SubSeq(t, 1, Len(s)) = [i \in 1..Len(s) |-> t[i]]
    BY <1>1
  <2> QED  BY <2>1
<1> QED  BY <1>1 DEF IsPrefix

LEMMA PrefixTransitive ==
  ASSUME NEW r \in Seq(Plain), NEW s \in Seq(Plain), NEW t \in Seq(Plain), IsPrefix(r, s), IsPrefix(s, t)
  PROVE  IsPrefix(r, t)
BY PrefixByPlace

\* A path that goes on from a directory is below it, and is cut where it does.
LEMMA PrefixOfSum ==
  ASSUME NEW s \in Seq(Plain), NEW t \in Seq(Plain)
  PROVE  IsPrefix(s, s \o t)
PROOF
<1>1. s \o t \in Seq(Plain) /\ Len(s) <= Len(s \o t) /\ \A i \in 1..Len(s) : s[i] = (s \o t)[i]
  OBVIOUS
<1> QED  BY <1>1, PrefixByPlace

LEMMA PrefixOfStart ==
  ASSUME NEW s \in Seq(Plain), NEW n \in 0..Len(s)
  PROVE  SubSeq(s, 1, n) \in Seq(Plain) /\ IsPrefix(SubSeq(s, 1, n), s)
PROOF
<1> DEFINE start == SubSeq(s, 1, n)
<1>1. start \in Seq(Plain) /\ Len(start) = n /\ \A i \in 1..n : start[i] = s[i]
  OBVIOUS
<1> HIDE DEF start
<1>2. IsPrefix(start, s)
  BY <1>1, PrefixByPlace
<1> QED  BY <1>1, <1>2 DEF start

\* abs() of a key below the mount's directory.
LEMMA AbsBelow ==
  ASSUME NEW mount \in MountSet, NEW key \in Seq(Plain), IsPrefix(mount.sub, key)
  PROVE  /\ Abs(mount, key) \in Seq(Plain)
         /\ Len(Abs(mount, key)) = Len(key) - Len(mount.sub) + 1
         /\ Abs(mount, key)[1] = mount.name
         /\ \A i \in 1..Len(key) - Len(mount.sub) : Abs(mount, key)[i + 1] = key[Len(mount.sub) + i]
         /\ DiskKey(mount, Tail(Abs(mount, key))) = key
PROOF
<1> DEFINE sub == mount.sub
           rest == SubSeq(key, Len(sub) + 1, Len(key))
<1>1. sub \in Seq(Plain) /\ mount.name \in Plain
  BY DEF MountSet
<1>2. Len(sub) <= Len(key) /\ \A i \in 1..Len(sub) : sub[i] = key[i]
  BY <1>1, PrefixByPlace
<1>3. Abs(mount, key) = <<mount.name>> \o rest
  BY DEF Abs
<1>4. /\ rest \in Seq(Plain) /\ Len(rest) = Len(key) - Len(sub)
      /\ \A i \in 1..Len(key) - Len(sub) : rest[i] = key[Len(sub) + i]
  <2> HIDE DEF sub
  <2> QED  BY <1>1, <1>2
<1>5. sub \o rest = key
  <2> DEFINE joined == sub \o rest
  <2> HIDE DEF rest, sub
  <2>1. joined \in Seq(Plain) /\ Len(joined) = Len(key)
    BY <1>1, <1>2, <1>4
  <2>2. /\ \A i \in 1..Len(sub) : joined[i] = sub[i]
        /\ \A i \in 1..Len(rest) : joined[Len(sub) + i] = rest[i]
    BY <1>1, <1>4
  <2> HIDE DEF joined
  <2>3. ASSUME NEW i \in 1..Len(key) PROVE joined[i] = key[i]
    <3>1. CASE i <= Len(sub)
      BY <1>1, <1>2, <2>2, <3>1
    <3>2. CASE i > Len(sub)
      <4>1. i - Len(sub) \in 1..Len(key) - Len(sub) /\ Len(sub) + (i - Len(sub)) = i
        BY <1>1, <3>2
      <4> QED  BY <1>4, <2>2, <4>1
    <3>3. Len(sub) \in Nat
      BY <1>1
    <3> QED  BY <3>1, <3>2, <3>3
  <2>4. joined = key
    BY <2>1, <2>3, SeqEqual
  <2> QED  BY <2>4 DEF joined
<1>6. Tail(<<mount.name>> \o rest) = rest
  <2> HIDE DEF rest, sub
  <2> QED  BY <1>1, <1>4
<1>7. /\ <<mount.name>> \o rest \in Seq(Plain) /\ Len(<<mount.name>> \o rest) = Len(rest) + 1
      /\ (<<mount.name>> \o rest)[1] = mount.name
      /\ \A i \in 1..Len(rest) : (<<mount.name>> \o rest)[i + 1] = rest[i]
  <2> DEFINE nm == mount.name
             one == <<nm>>
  <2> HIDE DEF rest, sub, nm
  <2>1. nm \in Plain
    BY <1>1 DEF nm
  <2>2. one \in Seq(Plain) /\ Len(one) = 1 /\ one[1] = nm
    BY <2>1
  <2> HIDE DEF one
  <2>3. rest \in Seq(Plain) /\ Len(rest) \in Nat
    BY <1>4
  <2>4. /\ one \o rest \in Seq(Plain) /\ Len(one \o rest) = Len(one) + Len(rest)
        /\ \A i \in 1..Len(one) + Len(rest) : (one \o rest)[i] = IF i <= Len(one) THEN one[i] ELSE rest[i - Len(one)]
    BY <2>2, <2>3, ConcatProperties
  <2>5. (one \o rest)[1] = nm /\ \A i \in 1..Len(rest) : (one \o rest)[i + 1] = rest[i]
    BY <2>2, <2>3, <2>4
  <2> QED  BY <2>2, <2>3, <2>4, <2>5 DEF one, nm
<1> QED
  <2> HIDE DEF rest
  <2> QED  BY <1>3, <1>4, <1>5, <1>6, <1>7 DEF DiskKey

\* A directory of the disk stays above its files when both are named in the
\* workspace.
LEMMA AbsKeepsPrefixes ==
  ASSUME NEW mount \in MountSet, NEW above \in Seq(Plain), NEW key \in Seq(Plain),
         IsPrefix(mount.sub, above), IsPrefix(above, key)
  PROVE  IsPrefix(Abs(mount, above), Abs(mount, key))
PROOF
<1> DEFINE sub == mount.sub
           a == Abs(mount, above)
           b == Abs(mount, key)
<1>1. sub \in Seq(Plain)
  BY DEF MountSet
<1>2. IsPrefix(sub, key)
  BY <1>1, PrefixTransitive
<1>3. Len(sub) <= Len(above) /\ Len(above) <= Len(key) /\ \A i \in 1..Len(above) : above[i] = key[i]
  BY <1>1, PrefixByPlace
<1>4. /\ a \in Seq(Plain) /\ Len(a) = Len(above) - Len(sub) + 1 /\ a[1] = mount.name
      /\ \A i \in 1..Len(above) - Len(sub) : a[i + 1] = above[Len(sub) + i]
  BY AbsBelow
<1>5. /\ b \in Seq(Plain) /\ Len(b) = Len(key) - Len(sub) + 1 /\ b[1] = mount.name
      /\ \A i \in 1..Len(key) - Len(sub) : b[i + 1] = key[Len(sub) + i]
  BY <1>2, AbsBelow
<1>6. ASSUME NEW i \in 1..Len(a) PROVE a[i] = b[i]
  <2> HIDE DEF a, b, sub
  <2>1. CASE i = 1
    BY <1>4, <1>5, <2>1
  <2>2. CASE i > 1
    <3>1. i - 1 \in 1..Len(above) - Len(sub) /\ i - 1 \in 1..Len(key) - Len(sub) /\ Len(sub) + (i - 1) \in 1..Len(above)
      BY <1>1, <1>3, <1>4, <2>2
    <3>2. a[(i - 1) + 1] = above[Len(sub) + (i - 1)] /\ b[(i - 1) + 1] = key[Len(sub) + (i - 1)]
      BY <1>4, <1>5, <3>1
    <3> QED  BY <1>3, <3>1, <3>2
  <2> QED  BY <2>1, <2>2
<1>7. Len(a) <= Len(b)
  <2> HIDE DEF a, b, sub
  <2> QED  BY <1>1, <1>3, <1>4, <1>5
<1> HIDE DEF a, b
<1>8. IsPrefix(a, b)
  BY <1>4, <1>5, <1>6, <1>7, PrefixByPlace
<1> QED  BY <1>8 DEF a, b

-----------------------------------------------------------------------------
(* Routes. *)

LEMMA EntryOfName ==
  ASSUME MountsInv, NEW i \in DOMAIN mounts
  PROVE  Entry(mounts[i].name) = mounts[i]
BY DEF Entry, MountsInv

LEMMA EntryType ==
  ASSUME MountsInv, NEW n \in Names
  PROVE  Entry(n) \in MountSet
PROOF
<1>1. PICK i \in DOMAIN mounts : mounts[i].name = n
  BY DEF Names
<1>2. mounts[i] \in MountSet
  BY DEF MountsInv
<1> QED  BY <1>1, <1>2, EntryOfName

\* The name that a listing gives to a key leads back to the key.
LEMMA RouteBack ==
  ASSUME MountsInv, NEW i \in DOMAIN mounts, NEW key \in Seq(Plain), IsPrefix(mounts[i].sub, key)
  PROVE  Route(Abs(mounts[i], key)) = [disk |-> mounts[i].disk, key |-> key]
PROOF
<1>1. PICK mount \in MountSet : mount = mounts[i]
  BY DEF MountsInv
<1>2. PICK name : name = Abs(mount, key)
  OBVIOUS
<1>3. name \in Seq(Plain) /\ name[1] = mount.name /\ DiskKey(mount, Tail(name)) = key
  BY <1>1, <1>2, AbsBelow
<1>4. ToSegments(name) = name
  BY <1>3, CleanPath
<1>5. Entry(name[1]) = mount
  BY <1>1, <1>3, EntryOfName
<1>6. Route(name) = [disk |-> mount.disk, key |-> key]
  BY <1>3, <1>4, <1>5 DEF Route
<1> QED  BY <1>1, <1>2, <1>6

CoverSet == {c \in [mount : MountSet, rel : Seq(Plain)] : IsPrefix(c.mount.sub, c.rel)}

LEMMA CoverOf ==
  ASSUME NEW mount \in MountSet, NEW rel \in Seq(Plain)
  PROVE  [mount |-> mount, rel |-> DiskKey(mount, rel)] \in CoverSet
PROOF
<1>1. mount.sub \in Seq(Plain)
  BY DEF MountSet
<1>2. PICK above : above = DiskKey(mount, rel)
  OBVIOUS
<1>3. above \in Seq(Plain) /\ IsPrefix(mount.sub, above)
  BY <1>1, <1>2, ConcatProperties, PrefixOfSum DEF DiskKey
<1> QED  BY <1>2, <1>3 DEF CoverSet

\* Every disk at the root, and one below it.
LEMMA CoveredType ==
  ASSUME MountsInv, NEW path \in Seq(Segments), ToSegments(path) = <<>> \/ Routable(path)
  PROVE  Covered(path) \in Seq(CoverSet) /\ (ToSegments(path) # <<>> => Len(Covered(path)) = 1)
PROOF
<1>1. CASE ToSegments(path) = <<>>
  <2>1. Covered(path) = [i \in DOMAIN mounts |-> [mount |-> mounts[i], rel |-> DiskKey(mounts[i], <<>>)]]
    BY <1>1 DEF Covered
  <2>2. \A i \in DOMAIN mounts : [mount |-> mounts[i], rel |-> DiskKey(mounts[i], <<>>)] \in CoverSet
    <3>1. <<>> \in Seq(Plain) /\ \A i \in DOMAIN mounts : mounts[i] \in MountSet
      BY DEF MountsInv
    <3> QED  BY <3>1, CoverOf
  <2>3. DOMAIN mounts = 1..Len(mounts) /\ Len(mounts) \in Nat
    BY DEF MountsInv
  <2> QED  BY <1>1, <2>1, <2>2, <2>3
<1>2. CASE ToSegments(path) # <<>>
  <2>1. PICK segs \in Seq(Plain) : segs = ToSegments(path)
    BY ToSegmentsType
  <2>2. segs # <<>> /\ segs[1] \in Names
    BY <1>2, <2>1 DEF Routable
  <2>3. PICK mount \in MountSet : mount = Entry(segs[1])
    BY <2>2, EntryType
  <2>4. PICK c : c = [mount |-> mount, rel |-> DiskKey(mount, Tail(segs))]
    OBVIOUS
  <2>5. c \in CoverSet
    <3>1. Tail(segs) \in Seq(Plain)
      BY <2>2
    <3> QED  BY <2>4, <3>1, CoverOf
  <2>6. Covered(path) = <<c>>
    BY <1>2, <2>1, <2>3, <2>4 DEF Covered
  <2> QED  BY <1>2, <2>5, <2>6
<1> QED  BY <1>1, <1>2

LEMMA PickedType ==
  ASSUME NEW covered \in Seq(CoverSet), NEW names
  PROVE  Picked(covered, names) \in Seq(CoverSet)
PROOF
<1> DEFINE N == Len(covered)
           A == Seq(CoverSet)
           On(a, n) == IF covered[n].mount.name \in names THEN Append(a, covered[n]) ELSE a
           Body(d) == [n \in 0..N |-> IF n = 0 THEN <<>> ELSE On(d[n - 1], n)]
           step == [n \in 1..N |-> [a \in A |-> On(a, n)]]
           empty == <<>>
<1>0. N \in Nat /\ empty \in A /\ \A n \in 1..N : covered[n] \in CoverSet
  OBVIOUS
<1>1. \A n \in 1..N : \A a \in A : On(a, n) \in A
  BY <1>0
<1>2. step \in Steps(N, A)
  <2> HIDE DEF N, A, On
  <2> QED  BY <1>1 DEF Steps
<1>3. HasRun(N, A, empty, step)
  <2> HIDE DEF step, N, A, empty
  <2> QED  BY <1>0, <1>2, Recursion
<1>4. PICK f \in [0..N -> A] : f[0] = empty /\ \A n \in 1..N : f[n] = step[n][f[n - 1]]
  BY <1>3 DEF HasRun
<1>5. \A n \in 1..N : f[n] = On(f[n - 1], n)
  <2> SUFFICES ASSUME NEW n \in 1..N PROVE f[n] = On(f[n - 1], n)
    OBVIOUS
  <2>1. f[n - 1] \in A
    BY <1>0
  <2> HIDE DEF N, A, On
  <2> QED  BY <1>4, <2>1
<1>6. f = Body(f)
  <2> HIDE DEF N, A, step, On
  <2> QED  BY <1>0, <1>4, <1>5
<1>7. PICK d : d = Body(d) /\ Picked(covered, names) = d[N]
  BY <1>6 DEF Picked
<1>8. d[0] = empty /\ \A n \in 1..N : d[n] = On(d[n - 1], n)
  <2> HIDE DEF On, N
  <2> QED  BY <1>0, <1>7
<1>9. \A n \in 0..N : d[n] \in A
  <2> DEFINE P == {n \in 0..N : d[n] \in A}
  <2>1. 0 \in P /\ \A n \in 1..N : n - 1 \in P => n \in P
    <3> HIDE DEF A, On
    <3> QED  BY <1>0, <1>1, <1>8
  <2>2. \A n \in 0..N : n \in P
    <3> HIDE DEF P, N
    <3> QED  BY <1>0, <2>1, Upwards
  <2> QED  BY <2>2
<1> QED  BY <1>0, <1>7, <1>9

-----------------------------------------------------------------------------
(* Listings, page by page. *)

LEMMA MinIsLeast ==
  ASSUME NEW S, S \subseteq Nat, S # {}
  PROVE  Min(S) \in S /\ \A j \in S : Min(S) <= j
PROOF
<1>1. \E i \in S : \A j \in S : i <= j
  BY LeastElement, Zenon
<1> QED  BY <1>1 DEF Min

LEMMA MaxIsGreatest ==
  ASSUME NEW n \in Nat, NEW S, S \subseteq 0..n, S # {}
  PROVE  Max(S) \in S /\ \A j \in S : j <= Max(S)
PROOF
<1> DEFINE T == {n - i : i \in S}
<1>1. T \subseteq Nat /\ T # {}
  <2>1. \A i \in S : n - i \in Nat
    OBVIOUS
  <2>2. T # {}
    OBVIOUS
  <2> QED  BY <2>1, <2>2
<1>2. \E t \in T : \A u \in T : t <= u
  <2> HIDE DEF T
  <2> QED  BY <1>1, LeastElement, Zenon
<1>3. PICK i \in S : \A j \in S : n - i <= n - j
  BY <1>2
<1>4. \A j \in S : i >= j
  BY <1>3
<1> QED  BY <1>4 DEF Max

\* Places can be counted.
LEMMA PlacesAreFinite ==
  ASSUME NEW S, S \subseteq Places
  PROVE  IsFiniteSet(S) /\ Cardinality(S) \in Nat /\ Cardinality(S) <= Len(KeyOrder)
PROOF
<1>1. Len(KeyOrder) \in Nat
  BY WorkspaceAssumption DEF WellFormed
<1>2. IsFiniteSet(Places) /\ Cardinality(Places) = Len(KeyOrder)
  BY <1>1, FS_Interval DEF Places
<1> QED  BY <1>2, FS_Subset, FS_CardinalityType

\* With a place come all those before it.
LEMMA FirstIsInitial ==
  ASSUME NEW S, S \subseteq Places, NEW n \in Int
  PROVE  First(S, n) \subseteq S /\ \A i \in First(S, n) : \A j \in S : j <= i => j \in First(S, n)
PROOF
<1> SUFFICES ASSUME NEW i \in First(S, n), NEW j \in S, j <= i PROVE j \in First(S, n)
  BY DEF First
<1> DEFINE Low == {k \in S : k <= j}
           High == {k \in S : k <= i}
<1>1. Low \subseteq High /\ High \subseteq Places
  <2>1. (\A k \in S : k \in Nat) /\ i \in S
    BY DEF First, Places
  <2>2. \A k \in S : k <= j => k <= i
    BY <2>1
  <2>3. Low \subseteq High
    BY <2>2
  <2> QED  BY <2>3
<1>2. Cardinality(Low) \in Nat /\ Cardinality(High) \in Nat /\ Cardinality(Low) <= Cardinality(High)
  <2> HIDE DEF Low, High
  <2> QED  BY <1>1, PlacesAreFinite, FS_Subset
<1>3. Cardinality(High) <= n
  BY DEF First
<1>4. Cardinality(Low) <= n
  <2> HIDE DEF Low, High
  <2> QED  BY <1>2, <1>3
<1> QED  BY <1>4 DEF First

LEMMA KeyOrderType ==
  /\ Len(KeyOrder) \in Nat
  /\ \A k \in Places : KeyOrder[k] \in Seq(Plain) /\ KeyOrder[k] \in DiskKeys
PROOF
<1>1. KeyOrder \in Seq(Seq(Plain))
  BY WorkspaceAssumption DEF WellFormed
<1>2. DOMAIN KeyOrder = Places /\ Len(KeyOrder) \in Nat /\ \A k \in Places : KeyOrder[k] \in Seq(Plain)
  <2> HIDE DEF Plain
  <2> QED  BY <1>1 DEF Places
<1> QED  BY <1>2 DEF DiskKeys, ToSet

\* A key below a directory is in it, or in a directory of it.
LEMMA BelowIsLonger ==
  ASSUME NEW rel \in Seq(Plain), NEW key \in Seq(Plain), Below(rel, key)
  PROVE  IsPrefix(rel, key) /\ Len(rel) + 1 <= Len(key)
PROOF
<1>1. IsPrefix(rel, key) /\ rel # key
  BY DEF Below, IsStrictPrefix
<1>2. Len(rel) <= Len(key) /\ \A i \in 1..Len(rel) : rel[i] = key[i]
  BY <1>1, PrefixByPlace
<1>3. Len(rel) # Len(key)
  BY <1>1, <1>2, SeqEqual
<1> QED  BY <1>1, <1>2, <1>3

LEMMA DirectoryOfKey ==
  ASSUME NEW rel \in Seq(Plain), NEW key \in Seq(Plain), Below(rel, key)
  PROVE  LET above == SubSeq(key, 1, Len(rel) + 1)
         IN  above \in Seq(Plain) /\ IsPrefix(rel, above) /\ IsPrefix(above, key)
PROOF
<1> DEFINE above == SubSeq(key, 1, Len(rel) + 1)
<1>1. Len(rel) + 1 \in 0..Len(key)
  BY BelowIsLonger
<1>2. above \in Seq(Plain) /\ IsPrefix(above, key) /\ Len(above) = Len(rel) + 1 /\ \A i \in 1..Len(rel) : above[i] = key[i]
  <2>1. above \in Seq(Plain) /\ IsPrefix(above, key)
    BY <1>1, PrefixOfStart
  <2>2. Len(above) = Len(rel) + 1 /\ \A i \in 1..Len(rel) : above[i] = key[i]
    BY <1>1
  <2> QED  BY <2>1, <2>2
<1>3. \A i \in 1..Len(rel) : rel[i] = key[i]
  BY BelowIsLonger, PrefixByPlace
<1>4. IsPrefix(rel, above)
  <2> HIDE DEF above
  <2> QED  BY <1>2, <1>3, PrefixByPlace
<1> QED  BY <1>2, <1>4

\* A page holds keys that are on the disk below the directory, and all of them
\* from the token to its last one.
LEMMA PageHolds ==
  ASSUME NEW w \in WalkSet, NEW page, page = PageAfter(w)
  PROVE  /\ page.objects \subseteq Places /\ page.dirs \subseteq Seq(Plain) /\ page.last \in 0..Len(KeyOrder)
         /\ page.truncated \in BOOLEAN
         /\ \A k \in page.objects : KeyOrder[k] \in held[w.mount.disk] /\ Below(w.rel, KeyOrder[k])
         /\ \A d \in page.dirs : IsPrefix(w.rel, d)
         /\ search.op = "glob" /\ search.recursive => page.dirs = {}
         /\ \A k \in Places :
              /\ KeyOrder[k] \in held[w.mount.disk] /\ Below(w.rel, KeyOrder[k])
              /\ w.token < k /\ (k <= page.last \/ ~page.truncated)
              => k \in page.objects \/ \E d \in page.dirs : IsPrefix(d, KeyOrder[k])
PROOF
<1> DEFINE rest == {i \in w.token + 1 .. Len(KeyOrder) : KeyOrder[i] \in held[w.mount.disk] /\ Below(w.rel, KeyOrder[i])}
           on == First(rest, PageSize)
           direct == {i \in on : search.recursive \/ Len(KeyOrder[i]) = Len(w.rel) + 1}
<1>1. /\ page.objects = direct
      /\ page.dirs = {SubSeq(KeyOrder[i], 1, Len(w.rel) + 1) : i \in on \ direct}
      /\ page.last = (IF on = {} THEN 0 ELSE Max(on))
      /\ page.truncated = (on # rest)
  BY DEF PageAfter
<1>2. w.token \in 0..Len(KeyOrder) /\ w.rel \in Seq(Plain) /\ Len(KeyOrder) \in Nat
  BY KeyOrderType DEF WalkSet
<1>3. rest \subseteq Places
  BY <1>2 DEF Places
<1>4. /\ on \subseteq rest
      /\ \A i \in on : \A j \in rest : j <= i => j \in on
  <2>1. PageSize \in Int
    BY WorkspaceAssumption DEF WellFormed
  <2> HIDE DEF rest
  <2> QED  BY <1>3, <2>1, FirstIsInitial
<1>5. direct \subseteq on
  OBVIOUS
<1>6. \A i \in rest : KeyOrder[i] \in Seq(Plain) /\ KeyOrder[i] \in held[w.mount.disk] /\ Below(w.rel, KeyOrder[i])
  BY <1>3, KeyOrderType
<1>7. \A i \in rest : LET above == SubSeq(KeyOrder[i], 1, Len(w.rel) + 1)
                      IN  above \in Seq(Plain) /\ IsPrefix(w.rel, above) /\ IsPrefix(above, KeyOrder[i])
  <2> HIDE DEF rest
  <2> QED  BY <1>2, <1>6, DirectoryOfKey
<1>8. on # {} => Max(on) \in on /\ \A j \in on : j <= Max(on)
  <2>1. on \subseteq 0..Len(KeyOrder)
    BY <1>3, <1>4 DEF Places
  <2> HIDE DEF on
  <2> QED  BY <1>2, <2>1, MaxIsGreatest
<1>9. page.last \in 0..Len(KeyOrder)
  <2>1. on \subseteq Places /\ (Places \subseteq 0..Len(KeyOrder)) /\ 0 \in 0..Len(KeyOrder)
    BY <1>2, <1>3, <1>4 DEF Places
  <2> HIDE DEF on
  <2> QED  BY <1>1, <1>8, <2>1
<1>10. search.recursive => page.dirs = {}
  <2>1. search.recursive => on \ direct = {}
    OBVIOUS
  <2> HIDE DEF on, direct
  <2> QED  BY <1>1, <2>1
<1>11. \A k \in on : k \in page.objects \/ \E d \in page.dirs : IsPrefix(d, KeyOrder[k])
  <2> HIDE DEF on, direct, rest
  <2> QED  BY <1>1, <1>4, <1>7
<1>12. ASSUME NEW k \in Places, KeyOrder[k] \in held[w.mount.disk], Below(w.rel, KeyOrder[k]), w.token < k,
              k <= page.last \/ ~page.truncated
       PROVE  k \in on
  <2>1. k \in rest
    BY <1>2, <1>12 DEF Places
  <2>2. CASE on = rest
    BY <2>1, <2>2
  <2>3. CASE k <= page.last /\ on # {}
    <3> HIDE DEF on, rest
    <3> QED  BY <1>1, <1>4, <1>8, <2>1, <2>3
  <2>4. CASE k <= page.last /\ on = {}
    <3>1. k > 0
      BY <1>2 DEF Places
    <3> HIDE DEF on, rest
    <3> QED  BY <1>1, <1>2, <2>4, <3>1 DEF Places
  <2> HIDE DEF on, rest
  <2> QED  BY <1>1, <1>12, <2>2, <2>3, <2>4
<1>13. page.objects \subseteq Places /\ page.dirs \subseteq Seq(Plain) /\ page.truncated \in BOOLEAN
  <2> HIDE DEF on, direct, rest
  <2> QED  BY <1>1, <1>3, <1>4, <1>5, <1>7
<1>14. /\ \A k \in page.objects : KeyOrder[k] \in held[w.mount.disk] /\ Below(w.rel, KeyOrder[k])
       /\ \A d \in page.dirs : IsPrefix(w.rel, d)
  <2> HIDE DEF on, direct, rest
  <2> QED  BY <1>1, <1>4, <1>5, <1>6, <1>7
<1> HIDE DEF on, direct, rest
<1> QED  BY <1>9, <1>10, <1>11, <1>12, <1>13, <1>14

\* What a walk has after a page.
LEMMA TakenHas ==
  ASSUME NEW w \in WalkSet, NEW page, page = PageAfter(w), search \in Searches, NEW v, v = Taken(w, page)
  PROVE  /\ v \in WalkSet /\ v.mount = w.mount /\ v.rel = w.rel /\ v.state = w.state /\ v.token = w.token
         /\ v.asked = w.asked /\ v.requests = w.requests + 1 /\ v.dirs = w.dirs \cup page.dirs /\ v.stuck = w.stuck
         /\ w.objects \subseteq v.objects /\ v.objects \subseteq w.objects \cup page.objects
         /\ ~v.cut => v.objects = w.objects \cup page.objects
PROOF
<1>1. page.objects \subseteq Places /\ page.dirs \subseteq Seq(Plain)
  BY PageHolds
<1>2. PICK fits : fits = IF search.op = "disk" THEN First(page.objects, search.limit - Cardinality(w.objects)) ELSE page.objects
  OBVIOUS
<1>3. fits \subseteq page.objects
  BY <1>2 DEF First
<1>4. v = [w EXCEPT !.objects = @ \cup fits, !.dirs = @ \cup page.dirs, !.requests = @ + 1, !.cut = fits # page.objects]
  BY <1>2 DEF Taken
<1>5. v \in WalkSet
  <2>1. (w.objects \cup fits) \in SUBSET Places /\ (w.dirs \cup page.dirs) \in SUBSET Seq(Plain) /\ w.requests + 1 \in Nat
        /\ (fits # page.objects) \in BOOLEAN
    BY <1>1, <1>3 DEF WalkSet
  <2> QED  BY <1>4, <2>1 DEF WalkSet
<1>6. /\ v.mount = w.mount /\ v.rel = w.rel /\ v.state = w.state /\ v.token = w.token
      /\ v.asked = w.asked /\ v.requests = w.requests + 1 /\ v.dirs = w.dirs \cup page.dirs /\ v.stuck = w.stuck
      /\ v.objects = w.objects \cup fits /\ v.cut = (fits # page.objects)
  BY <1>4 DEF WalkSet
<1> QED  BY <1>3, <1>5, <1>6

\* Where a walk stands after a page.
Onward(w, page, token) ==
  LET v == Taken(w, page)
  IN  IF v.cut \/ ~page.truncated THEN [v EXCEPT !.state = "done"]
      ELSE IF GoesOn(v, token) THEN [v EXCEPT !.token = token, !.asked = @ \cup {token}]
      ELSE [v EXCEPT !.state = "done", !.stuck = TRUE]

LEMMA PageIsTaken ==
  ASSUME KeysInv, search \in Searches, search.op # "grep", NEW w \in WalkSet, WalkInv(w, search.op, always, ever), w.state = "asking",
         NEW token \in {PageAfter(w).last, w.token}, NEW u, u = Onward(w, PageAfter(w), token)
  PROVE  u \in WalkSet /\ WalkInv(u, search.op, always, ever)
PROOF
<1>1. PICK page : page = PageAfter(w)
  OBVIOUS
<1>2. PICK v : v = Taken(w, page)
  OBVIOUS
<1>3. /\ page.objects \subseteq Places /\ page.dirs \subseteq Seq(Plain) /\ page.last \in 0..Len(KeyOrder)
      /\ page.truncated \in BOOLEAN
      /\ \A k \in page.objects : KeyOrder[k] \in held[w.mount.disk] /\ Below(w.rel, KeyOrder[k])
      /\ \A d \in page.dirs : IsPrefix(w.rel, d)
      /\ search.op = "glob" /\ search.recursive => page.dirs = {}
      /\ \A k \in Places :
           /\ KeyOrder[k] \in held[w.mount.disk] /\ Below(w.rel, KeyOrder[k])
           /\ w.token < k /\ (k <= page.last \/ ~page.truncated)
           => k \in page.objects \/ \E d \in page.dirs : IsPrefix(d, KeyOrder[k])
  BY <1>1, PageHolds
<1>4. /\ v \in WalkSet /\ v.mount = w.mount /\ v.rel = w.rel /\ v.state = w.state /\ v.token = w.token
      /\ v.asked = w.asked /\ v.requests = w.requests + 1 /\ v.dirs = w.dirs \cup page.dirs /\ v.stuck = w.stuck
      /\ w.objects \subseteq v.objects /\ v.objects \subseteq w.objects \cup page.objects
      /\ ~v.cut => v.objects = w.objects \cup page.objects
  BY <1>1, <1>2, TakenHas
<1>5. w.mount.disk \in Disks /\ always[w.mount.disk] \subseteq held[w.mount.disk] /\ held[w.mount.disk] \subseteq ever[w.mount.disk]
  BY DEF KeysInv, WalkSet, MountSet
<1>6. search.op = "glob" => search.recursive
  BY SearchesAssumption DEF SearchesWellFormed
<1>7. token \in 0..Len(KeyOrder)
  BY <1>1, <1>3 DEF WalkSet
<1>8. /\ u \in WalkSet /\ u.mount = w.mount /\ u.rel = w.rel /\ u.objects = v.objects /\ u.dirs = v.dirs
      /\ u.requests = v.requests /\ u.cut = v.cut /\ u.state \in {"asking", "done"}
      /\ u.state = "done" => u.asked = w.asked /\ u.token = w.token /\ (u.cut \/ u.stuck \/ ~page.truncated)
      /\ u.state = "asking" => /\ u.token = token /\ token # 0 /\ token \notin w.asked /\ u.asked = w.asked \cup {token}
                               /\ ~u.cut /\ u.stuck = w.stuck
  <2>1. CASE v.cut \/ ~page.truncated
    <3>1. u = [v EXCEPT !.state = "done"]
      BY <1>1, <1>2, <2>1 DEF Onward
    <3> QED  BY <1>4, <2>1, <3>1 DEF WalkSet
  <2>2. CASE ~(v.cut \/ ~page.truncated) /\ GoesOn(v, token)
    <3>1. u = [v EXCEPT !.token = token, !.asked = @ \cup {token}]
      BY <1>1, <1>2, <2>2 DEF Onward
    <3>2. token # 0 /\ token \notin v.asked /\ ~v.cut
      BY <2>2 DEF GoesOn
    <3>3. (v.asked \cup {token}) \in SUBSET Places
      BY <1>4, <1>7, <3>2, KeyOrderType DEF WalkSet, Places
    <3>4. u \in WalkSet
      BY <1>4, <1>7, <3>1, <3>3 DEF WalkSet
    <3> QED  BY <1>4, <3>1, <3>2, <3>4 DEF WalkSet
  <2>3. CASE ~(v.cut \/ ~page.truncated) /\ ~GoesOn(v, token)
    <3>1. u = [v EXCEPT !.state = "done", !.stuck = TRUE]
      BY <1>1, <1>2, <2>3 DEF Onward
    <3> QED  BY <1>4, <2>3, <3>1 DEF WalkSet
  <2> QED  BY <2>1, <2>2, <2>3
<1>9. TakesWhatIsThere(u, ever)
  <2>1. IsPrefix(u.mount.sub, u.rel)
    BY <1>8 DEF WalkInv, TakesWhatIsThere
  <2>2. \A k \in w.objects : KeyOrder[k] \in ever[w.mount.disk] /\ Below(w.rel, KeyOrder[k])
    BY DEF WalkInv, TakesWhatIsThere
  <2>3. \A k \in u.objects : KeyOrder[k] \in ever[u.mount.disk] /\ Below(u.rel, KeyOrder[k])
    BY <1>3, <1>4, <1>5, <1>8, <2>2
  <2>4. \A d \in w.dirs : IsPrefix(w.rel, d)
    BY DEF WalkInv, TakesWhatIsThere
  <2>5. \A d \in u.dirs : IsPrefix(u.rel, d)
    BY <1>3, <1>4, <1>8, <2>4
  <2> QED  BY <2>1, <2>3, <2>5 DEF TakesWhatIsThere
<1>10. AsksOnce(u)
  <2>1. IsFiniteSet(w.asked) /\ Cardinality(w.asked) \in Nat /\ w.requests \in Nat
    BY PlacesAreFinite DEF WalkSet
  <2>2. AsksOnce(w)
    BY DEF WalkInv
  <2>3. w.requests <= Cardinality(w.asked)
    BY <2>1, <2>2 DEF AsksOnce
  <2>4. w.token # 0 => w.token \in w.asked
    BY <2>2 DEF AsksOnce
  <2>5. u.requests = w.requests + 1
    BY <1>4, <1>8
  <2>6. CASE u.state = "done"
    <3>1. u.asked = w.asked /\ u.token = w.token
      BY <1>8, <2>6
    <3>2. u.requests <= Cardinality(u.asked) + 1
      BY <2>1, <2>3, <2>5, <3>1
    <3> QED  BY <2>4, <2>6, <3>1, <3>2 DEF AsksOnce
  <2>7. CASE u.state = "asking"
    <3>1. u.token = token /\ token \notin w.asked /\ u.asked = w.asked \cup {token}
      BY <1>8, <2>7
    <3>2. Cardinality(u.asked) = Cardinality(w.asked) + 1
      BY <2>1, <3>1, FS_AddElement
    <3>3. u.requests <= Cardinality(u.asked) + 0
      BY <2>1, <2>3, <2>5, <3>2
    <3>4. u.token \in u.asked
      BY <3>1
    <3> QED  BY <2>7, <3>3, <3>4 DEF AsksOnce
  <2> QED  BY <1>8, <2>6, <2>7
<1>11. MissesNothing(u, search.op, always)
  <2> SUFFICES ASSUME ~u.cut, ~u.stuck, NEW k \in Places, u.state = "done" \/ k <= u.token,
                      KeyOrder[k] \in always[u.mount.disk], Below(u.rel, KeyOrder[k])
               PROVE  k \in u.objects \/ \E d \in u.dirs : IsPrefix(d, KeyOrder[k])
    BY DEF MissesNothing
  <2>1. ~w.cut /\ ~w.stuck
    BY DEF WalkInv, FitsTheSearch
  <2>2. u.objects = w.objects \cup page.objects /\ u.dirs = w.dirs \cup page.dirs
    BY <1>4, <1>8
  <2>3. CASE k <= w.token
    <3>1. k \in w.objects \/ \E d \in w.dirs : IsPrefix(d, KeyOrder[k])
      BY <1>8, <2>1, <2>3 DEF WalkInv, MissesNothing
    <3> QED  BY <2>2, <3>1
  <2>4. CASE w.token < k
    <3>1. KeyOrder[k] \in held[w.mount.disk] /\ Below(w.rel, KeyOrder[k])
      BY <1>5, <1>8
    <3>2. k <= page.last \/ ~page.truncated
      <4>1. CASE u.state = "done"
        BY <1>8, <4>1
      <4>2. CASE u.state = "asking"
        <5>1. token # w.token
          BY <1>8, <4>2 DEF WalkInv, AsksOnce
        <5>2. token = page.last
          BY <1>1, <5>1
        <5> QED  BY <1>8, <4>2, <5>2
      <4> QED  BY <1>8, <4>1, <4>2
    <3>3. k \in page.objects \/ \E d \in page.dirs : IsPrefix(d, KeyOrder[k])
      BY <1>3, <2>4, <3>1, <3>2
    <3> QED  BY <2>2, <3>3
  <2>5. k \in Nat /\ w.token \in Nat
    BY KeyOrderType DEF Places, WalkSet
  <2> QED  BY <2>3, <2>4, <2>5
<1>12. FitsTheSearch(u, search.op)
  <2>1. search.op = "glob" => u.dirs = {}
    <3>1. search.op = "glob" => w.dirs = {}
      BY DEF WalkInv, FitsTheSearch
    <3> QED  BY <1>3, <1>4, <1>6, <1>8, <3>1
  <2>2. u.state = "asking" => ~u.cut /\ ~u.stuck
    <3>1. ~w.stuck
      BY DEF WalkInv, FitsTheSearch
    <3> QED  BY <1>8, <3>1
  <2> QED  BY <1>8, <2>1, <2>2 DEF FitsTheSearch
<1> QED  BY <1>8, <1>9, <1>10, <1>11, <1>12 DEF WalkInv

-----------------------------------------------------------------------------
(* Writes and changes of mounts. *)

\* The walks of a search keep what they have while keys come and go.
LEMMA WalksKept ==
  ASSUME SearchInv, UNCHANGED <<search, walk, found>>,
         \A d \in Disks : always'[d] \subseteq always[d] /\ ever[d] \subseteq ever'[d]
  PROVE  SearchInv'
PROOF
<1>1. search' = search /\ walk' = walk /\ found' = found
  OBVIOUS
<1>2. ASSUME NEW i \in DOMAIN walk PROVE WalkInv(walk[i], search.op, always', ever')
  <2>1. PICK w \in WalkSet : w = walk[i]
    BY <1>2 DEF SearchInv
  <2>2. WalkInv(w, search.op, always, ever)
    BY <2>1 DEF SearchInv
  <2>3. w.mount.disk \in Disks
    BY DEF WalkSet, MountSet
  <2>4. TakesWhatIsThere(w, ever') /\ MissesNothing(w, search.op, always')
    BY <2>2, <2>3 DEF WalkInv, TakesWhatIsThere, MissesNothing
  <2> QED  BY <2>1, <2>2, <2>4 DEF WalkInv
<1> QED  BY <1>1, <1>2 DEF SearchInv

LEMMA FoundKept ==
  ASSUME FoundInv, UNCHANGED <<search, walk, found>>
  PROVE  FoundInv'
PROOF
<1>1. search' = search /\ walk' = walk /\ found' = found
  OBVIOUS
<1>2. Done' = Done /\ ListingTruncated' = ListingTruncated
  BY <1>1 DEF Done, ListingTruncated
<1>3. Keys' = Keys /\ DirKeys' = DirKeys
  BY <1>1, <1>2 DEF Keys, DirKeys
<1>4. AllGroups' = AllGroups
  BY <1>1 DEF AllGroups
<1>5. GrepIsHonest => GrepIsHonest'
  BY <1>1, <1>4 DEF GrepIsHonest
<1> QED  BY <1>1, <1>2, <1>3, <1>5 DEF FoundInv

LEMMA MountsKept ==
  ASSUME MountsInv, mounts' = mounts
  PROVE  MountsInv'
BY DEF MountsInv

LEMMA KeysKept ==
  ASSUME KeysInv, UNCHANGED <<held, always, ever>>
  PROVE  KeysInv'
BY DEF KeysInv

LEMMA AddDiskKeepsInv ==
  ASSUME WsInv, NEW m \in NewMounts, AddDisk(m)
  PROVE  WsInv'
PROOF
<1> USE DEF WsInv
<1>1. /\ UNCHANGED <<held, always, ever>> /\ UNCHANGED <<search, walk, found>>
      /\ \A d \in Disks : always'[d] \subseteq always[d] /\ ever[d] \subseteq ever'[d]
  BY DEF AddDisk
<1>2. changes' \in Nat
  BY DEF AddDisk, Changed
<1>7. KeysInv' /\ SearchInv' /\ FoundInv'
  BY <1>1, KeysKept, WalksKept, FoundKept
<1>3. m \in MountSet
  BY WorkspaceAssumption DEF WellFormed
<1>4. mounts \in Seq(MountSet) /\ Len(mounts) \in Nat /\ DOMAIN mounts = 1..Len(mounts) /\ mounts # <<>> /\ Len(mounts) > 0
  BY DEF MountsInv
<1>5. CASE m.name \in Names
  <2>1. mounts' = [i \in DOMAIN mounts |-> IF mounts[i].name = m.name THEN m ELSE mounts[i]]
    BY <1>5 DEF AddDisk
  <2>2. mounts' \in Seq(MountSet) /\ Len(mounts') = Len(mounts) /\ DOMAIN mounts' = DOMAIN mounts
    BY <1>3, <1>4, <2>1
  <2>3. \A i \in DOMAIN mounts : mounts'[i].name = mounts[i].name
    BY <2>1
  <2>4. mounts' # <<>>
    BY <1>4, <2>2
  <2>5. \A i, j \in DOMAIN mounts' : mounts'[i].name = mounts'[j].name => i = j
    BY <2>2, <2>3 DEF MountsInv
  <2>6. MountsInv'
    BY <2>2, <2>4, <2>5 DEF MountsInv
  <2> QED  BY <1>2, <1>7, <2>6
<1>6. CASE m.name \notin Names
  <2>1. mounts' = Append(mounts, m)
    BY <1>6 DEF AddDisk
  <2>2. /\ mounts' \in Seq(MountSet) /\ mounts' # <<>> /\ DOMAIN mounts' = 1..Len(mounts) + 1
        /\ mounts'[Len(mounts) + 1] = m /\ \A i \in 1..Len(mounts) : mounts'[i] = mounts[i]
    BY <1>3, <1>4, <2>1
  <2>3. \A i \in 1..Len(mounts) : mounts[i].name # m.name
    BY <1>4, <1>6 DEF Names
  <2>4. \A i, j \in 1..Len(mounts) : mounts[i].name = mounts[j].name => i = j
    BY <1>4 DEF MountsInv
  <2>5. ASSUME NEW i \in 1..Len(mounts) + 1, NEW j \in 1..Len(mounts) + 1, mounts'[i].name = mounts'[j].name
        PROVE  i = j
    <3>1. CASE i \in 1..Len(mounts) /\ j \in 1..Len(mounts)
      BY <2>2, <2>4, <2>5, <3>1
    <3>2. CASE i = Len(mounts) + 1 /\ j \in 1..Len(mounts)
      BY <2>2, <2>3, <2>5, <3>2
    <3>3. CASE j = Len(mounts) + 1 /\ i \in 1..Len(mounts)
      BY <2>2, <2>3, <2>5, <3>3
    <3> QED  BY <1>4, <3>1, <3>2, <3>3
  <2>6. MountsInv'
    BY <2>2, <2>5 DEF MountsInv
  <2> QED  BY <1>2, <1>7, <2>6
<1> QED  BY <1>2, <1>5, <1>6, <1>7

LEMMA RemoveDiskKeepsInv ==
  ASSUME WsInv, NEW n \in Names, RemoveDisk(n)
  PROVE  WsInv'
PROOF
<1> USE DEF WsInv
<1>1. /\ UNCHANGED <<held, always, ever>> /\ UNCHANGED <<search, walk, found>>
      /\ \A d \in Disks : always'[d] \subseteq always[d] /\ ever[d] \subseteq ever'[d]
  BY DEF RemoveDisk
<1>2. changes' \in Nat
  BY DEF RemoveDisk, Changed
<1>4. mounts \in Seq(MountSet) /\ Len(mounts) \in Nat /\ DOMAIN mounts = 1..Len(mounts) /\ Len(mounts) > 1
  BY DEF MountsInv, RemoveDisk
<1>5. PICK i \in DOMAIN mounts : mounts' = RemoveAt(mounts, i)
  BY DEF RemoveDisk
<1>6. /\ mounts' \in Seq(MountSet) /\ Len(mounts') = Len(mounts) - 1
      /\ \A j \in 1..Len(mounts) - 1 : mounts'[j] = mounts[IF j < i THEN j ELSE j + 1]
  <2> DEFINE a == SubSeq(mounts, 1, i - 1)
             b == SubSeq(mounts, i + 1, Len(mounts))
  <2>1. a \in Seq(MountSet) /\ Len(a) = i - 1 /\ \A j \in 1..i - 1 : a[j] = mounts[j]
    BY <1>4
  <2>2. b \in Seq(MountSet) /\ Len(b) = Len(mounts) - i /\ \A j \in 1..Len(mounts) - i : b[j] = mounts[i + j]
    <3>1. i \in 1..Len(mounts) /\ i + 1 \in 1..Len(mounts) + 1 /\ Len(mounts) \in 1..Len(mounts)
      BY <1>4
    <3>2. \A m \in 1..Len(mounts) + 1 : \A n1 \in 0..Len(mounts) : SubSeq(mounts, m, n1) \in Seq(MountSet)
      BY <1>4, SubSeqProperties
    <3>3. b \in Seq(MountSet) /\ Len(b) = Len(mounts) - i
      BY <1>4, <3>1
    <3> QED  BY <1>4, <3>3
  <2>3. mounts' = a \o b
    BY <1>5 DEF RemoveAt
  <2> HIDE DEF a, b
  <2>4. /\ mounts' \in Seq(MountSet) /\ Len(mounts') = Len(a) + Len(b)
        /\ \A j \in 1..Len(a) + Len(b) : mounts'[j] = IF j <= Len(a) THEN a[j] ELSE b[j - Len(a)]
    BY <2>1, <2>2, <2>3, ConcatProperties
  <2>5. Len(a) + Len(b) = Len(mounts) - 1
    BY <1>4, <2>1, <2>2
  <2>6. ASSUME NEW j \in 1..Len(mounts) - 1 PROVE mounts'[j] = mounts[IF j < i THEN j ELSE j + 1]
    <3>1. CASE j < i
      BY <1>4, <2>1, <2>4, <2>5, <3>1
    <3>2. CASE j >= i
      <4>1. j - (i - 1) \in 1..Len(mounts) - i /\ i + (j - (i - 1)) = j + 1
        BY <1>4, <3>2
      <4>2. mounts'[j] = b[j - (i - 1)]
        BY <1>4, <2>1, <2>4, <2>5, <3>2
      <4>3. b[j - (i - 1)] = mounts[j + 1]
        BY <2>2, <4>1
      <4> QED  BY <1>4, <3>2, <4>2, <4>3
    <3> QED  BY <1>4, <3>1, <3>2
  <2> QED  BY <2>4, <2>5, <2>6
<1>7. mounts' # <<>> /\ DOMAIN mounts' = 1..Len(mounts) - 1
  BY <1>4, <1>6
<1>8. ASSUME NEW j \in 1..Len(mounts) - 1, NEW k \in 1..Len(mounts) - 1, mounts'[j].name = mounts'[k].name
      PROVE  j = k
  <2>1. PICK x \in 1..Len(mounts) : x = (IF j < i THEN j ELSE j + 1)
    BY <1>4
  <2>2. PICK y \in 1..Len(mounts) : y = (IF k < i THEN k ELSE k + 1)
    BY <1>4
  <2>3. mounts[x].name = mounts[y].name
    BY <1>6, <1>8, <2>1, <2>2
  <2>4. x = y
    BY <1>4, <2>3 DEF MountsInv
  <2> QED  BY <1>4, <2>1, <2>2, <2>4
<1>9. MountsInv'
  BY <1>6, <1>7, <1>8 DEF MountsInv
<1>10. KeysInv' /\ SearchInv' /\ FoundInv'
  BY <1>1, KeysKept, WalksKept, FoundKept
<1> QED  BY <1>2, <1>9, <1>10

LEMMA RouteDisk ==
  ASSUME MountsInv, NEW path, Routable(path)
  PROVE  Route(path).disk \in Disks
PROOF
<1>1. PICK mount \in MountSet : mount = Entry(ToSegments(path)[1])
  BY EntryType DEF Routable
<1> QED  BY <1>1 DEF Route, MountSet

LEMMA PutObjectKeepsInv ==
  ASSUME WsInv, NEW path \in Objects, PutObject(path)
  PROVE  WsInv'
PROOF
<1> USE DEF WsInv
<1>1. PICK r : r = Route(path)
  OBVIOUS
<1>2. r.disk \in Disks
  BY <1>1, RouteDisk DEF PutObject
<1>3. /\ UNCHANGED <<search, walk, found>> /\ mounts' = mounts /\ always' = always /\ changes' \in Nat
      /\ r.key \in DiskKeys
      /\ held' = [held EXCEPT ![r.disk] = @ \cup {r.key}]
      /\ ever' = [ever EXCEPT ![r.disk] = @ \cup {r.key}]
  BY <1>1 DEF PutObject, Changed
<1>4. held' \in [Disks -> SUBSET DiskKeys] /\ ever' \in [Disks -> SUBSET DiskKeys]
  BY <1>2, <1>3 DEF KeysInv
<1>5. \A d \in Disks : held'[d] = (held[d] \cup (IF d = r.disk THEN {r.key} ELSE {}))
                       /\ ever'[d] = (ever[d] \cup (IF d = r.disk THEN {r.key} ELSE {}))
  BY <1>2, <1>3 DEF KeysInv
<1>6. KeysInv'
  BY <1>3, <1>4, <1>5 DEF KeysInv
<1>7. \A d \in Disks : always'[d] \subseteq always[d] /\ ever[d] \subseteq ever'[d]
  BY <1>3, <1>5
<1>8. SearchInv'
  BY <1>3, <1>7, WalksKept
<1>9. FoundInv' /\ MountsInv'
  BY <1>3, FoundKept, MountsKept
<1> QED  BY <1>3, <1>6, <1>8, <1>9

LEMMA DeleteObjectKeepsInv ==
  ASSUME WsInv, NEW path \in Objects, DeleteObject(path)
  PROVE  WsInv'
PROOF
<1> USE DEF WsInv
<1>1. PICK r : r = Route(path)
  OBVIOUS
<1>2. r.disk \in Disks
  BY <1>1, RouteDisk DEF DeleteObject
<1>3. /\ UNCHANGED <<search, walk, found>> /\ mounts' = mounts /\ ever' = ever /\ changes' \in Nat
      /\ held' = [held EXCEPT ![r.disk] = @ \ {r.key}]
      /\ always' = [always EXCEPT ![r.disk] = @ \ {r.key}]
  BY <1>1 DEF DeleteObject, Changed
<1>4. held' \in [Disks -> SUBSET DiskKeys] /\ always' \in [Disks -> SUBSET DiskKeys]
  BY <1>2, <1>3 DEF KeysInv
<1>5. \A d \in Disks : held'[d] = (held[d] \ (IF d = r.disk THEN {r.key} ELSE {}))
                       /\ always'[d] = (always[d] \ (IF d = r.disk THEN {r.key} ELSE {}))
  BY <1>2, <1>3 DEF KeysInv
<1>6. KeysInv'
  BY <1>3, <1>4, <1>5 DEF KeysInv
<1>7. \A d \in Disks : always'[d] \subseteq always[d] /\ ever[d] \subseteq ever'[d]
  BY <1>3, <1>5
<1>8. SearchInv'
  BY <1>3, <1>7, WalksKept
<1>9. FoundInv' /\ MountsInv'
  BY <1>3, FoundKept, MountsKept
<1> QED  BY <1>3, <1>6, <1>8, <1>9

-----------------------------------------------------------------------------
(* Requests. *)

LEMMA SearchIsNone ==
  ASSUME NEW q \in Searches
  PROVE  q.op \in {"list", "disk", "glob", "grep"} /\ q # NoSearch /\ q.path \in Seq(Segments)
BY SearchesAssumption DEF SearchesWellFormed, NoSearch

\* While a search has no answer yet, or none that lists anything, nothing is
\* said about its walks.
LEMMA BeginKeepsKeys ==
  ASSUME WsInv, NEW q \in Searches, Begins(q)
  PROVE  MountsInv' /\ KeysInv' /\ changes' \in Nat
PROOF
<1>1. UNCHANGED <<held, mounts, changes>> /\ always' = held /\ ever' = held
  BY DEF Begins
<1>2. MountsInv' /\ changes' \in Nat
  BY <1>1, MountsKept DEF WsInv
<1>3. KeysInv'
  BY <1>1 DEF WsInv, KeysInv
<1> QED  BY <1>2, <1>3

LEMMA RefuseKeepsInv ==
  ASSUME WsInv, NEW q \in Searches, Refuse(q)
  PROVE  WsInv'
PROOF
<1>1. Begins(q) /\ walk' = <<>> /\ found' = Rejected /\ search' = q
  BY DEF Refuse, Begins
<1>2. found'.op = "rejected"
  BY <1>1 DEF Rejected
<1>3. SearchInv'
  BY <1>1, <1>2, SearchIsNone DEF SearchInv
<1>4. FoundInv'
  BY <1>2 DEF FoundInv, GrepIsHonest
<1> QED  BY <1>1, <1>3, <1>4, BeginKeepsKeys DEF WsInv

LEMMA ListRootKeepsInv ==
  ASSUME WsInv, NEW q \in Searches, ListRoot(q)
  PROVE  WsInv'
PROOF
<1>1. Begins(q) /\ walk' = <<>> /\ search' = q /\ found'.op = "list" /\ q.op = "list"
  BY DEF ListRoot, Begins
<1>3. SearchInv'
  BY <1>1, SearchIsNone DEF SearchInv
<1>4. FoundInv'
  BY <1>1 DEF FoundInv, GrepIsHonest
<1> QED  BY <1>1, <1>3, <1>4, BeginKeepsKeys DEF WsInv

LEMMA NewWalkHolds ==
  ASSUME NEW c \in CoverSet, NEW op, NEW sure, NEW seen
  PROVE  NewWalk(c) \in WalkSet /\ WalkInv(NewWalk(c), op, sure, seen)
PROOF
<1>1. PICK w : w = NewWalk(c)
  OBVIOUS
<1>2. c.mount \in MountSet /\ c.rel \in Seq(Plain) /\ IsPrefix(c.mount.sub, c.rel)
  BY DEF CoverSet
<1>3. w \in WalkSet
  <2>1. <<>> \in Groups /\ 0 \in 0..Len(KeyOrder)
    BY KeyOrderType DEF Groups
  <2> QED  BY <1>1, <1>2, <2>1 DEF NewWalk, WalkSet
<1>4. /\ w.mount = c.mount /\ w.rel = c.rel /\ w.state = "asking" /\ w.token = 0 /\ w.asked = {} /\ w.requests = 0
      /\ w.objects = {} /\ w.dirs = {} /\ w.cut = FALSE /\ w.stuck = FALSE
  BY <1>1 DEF NewWalk
<1>5. TakesWhatIsThere(w, seen)
  BY <1>2, <1>4 DEF TakesWhatIsThere
<1>6. AsksOnce(w)
  <2>1. Cardinality(w.asked) = 0
    BY <1>4, FS_EmptySet
  <2> QED  BY <1>4, <2>1 DEF AsksOnce
<1>7. MissesNothing(w, op, sure)
  BY <1>4 DEF MissesNothing, Places
<1>8. FitsTheSearch(w, op)
  BY <1>4 DEF FitsTheSearch
<1> QED  BY <1>1, <1>3, <1>5, <1>6, <1>7, <1>8 DEF WalkInv

LEMMA FanOutKeepsInv ==
  ASSUME WsInv, NEW q \in Searches, FanOut(q)
  PROVE  WsInv'
PROOF
<1>1. Begins(q) /\ found' = Pending /\ search' = q /\ ~UnknownMount(q)
  BY DEF FanOut, Begins
<1>2. found'.op = "pending"
  BY <1>1 DEF Pending
<1>3. PICK covered : /\ walk' = [i \in DOMAIN covered |-> NewWalk(covered[i])]
                     /\ covered = IF Globbed(q) THEN Picked(Covered(q.path), DOMAIN RootGlobs(q.globs)) ELSE Covered(q.path)
  BY DEF FanOut
<1>4. q.path \in Seq(Segments) /\ q.op \in {"list", "disk", "glob", "grep"} /\ q # NoSearch
  BY SearchIsNone
<1>5. PICK all : all = Covered(q.path)
  OBVIOUS
<1>6. all \in Seq(CoverSet) /\ (ToSegments(q.path) # <<>> => Len(all) = 1)
  BY <1>1, <1>4, <1>5, CoveredType DEF WsInv, UnknownMount
<1>7. covered \in Seq(CoverSet)
  <2>1. PICK names : names = DOMAIN RootGlobs(q.globs)
    OBVIOUS
  <2>2. Picked(all, names) \in Seq(CoverSet)
    BY <1>6, PickedType
  <2> QED  BY <1>3, <1>5, <1>6, <2>1, <2>2
<1>8. q.op = "disk" => Len(covered) = 1
  <2> SUFFICES ASSUME q.op = "disk" PROVE Len(covered) = 1
    OBVIOUS
  <2>1. q.path \in Seq(Plain) /\ Len(q.path) = 1
    BY SearchesAssumption DEF SearchesWellFormed
  <2>2. PICK p \in Seq(Plain) : p = q.path
    BY <2>1
  <2>3. ToSegments(q.path) # <<>>
    <3>1. ToSegments(p) = p
      BY CleanPath
    <3>2. p # <<>>
      BY <2>1, <2>2
    <3> QED  BY <2>2, <3>1, <3>2
  <2> QED  BY <1>3, <1>5, <1>6, <2>3 DEF Globbed
<1>9. DOMAIN covered = 1..Len(covered) /\ Len(covered) \in Nat /\ \A i \in DOMAIN covered : covered[i] \in CoverSet
  BY <1>7
<1>10. \A i \in DOMAIN covered : NewWalk(covered[i]) \in WalkSet /\ WalkInv(NewWalk(covered[i]), q.op, held, held)
  BY <1>9, NewWalkHolds
<1>11. walk' \in Seq(WalkSet) /\ Len(walk') = Len(covered) /\ DOMAIN walk' = DOMAIN covered
  BY <1>3, <1>9, <1>10
<1>12. SearchInv'
  <2>1. always' = held /\ ever' = held
    BY <1>1 DEF Begins
  <2>2. \A i \in DOMAIN walk' : WalkInv(walk'[i], search'.op, always', ever')
    BY <1>1, <1>3, <1>10, <1>11, <2>1
  <2> QED  BY <1>1, <1>2, <1>4, <1>8, <1>11, <2>2 DEF SearchInv
<1>13. FoundInv'
  BY <1>2 DEF FoundInv, GrepIsHonest
<1> QED  BY <1>1, <1>12, <1>13, BeginKeepsKeys DEF WsInv

-----------------------------------------------------------------------------
(* Answers. *)

LEMMA WalkStepKeepsInv ==
  ASSUME WsInv, NEW i \in DOMAIN walk, NEW u \in WalkSet, WalkInv(u, search.op, always, ever), Asking(i), Walks(i, u)
  PROVE  WsInv'
PROOF
<1>1. /\ walk' = [walk EXCEPT ![i] = u] /\ search' = search /\ found' = found /\ always' = always /\ ever' = ever
      /\ held' = held /\ mounts' = mounts /\ changes' = changes /\ found.op = "pending"
  BY DEF Walks, Asking, Runs
<1>2. walk \in Seq(WalkSet) /\ \A j \in DOMAIN walk : WalkInv(walk[j], search.op, always, ever)
  BY DEF WsInv, SearchInv
<1>3. /\ walk' \in Seq(WalkSet) /\ DOMAIN walk' = DOMAIN walk /\ Len(walk') = Len(walk) /\ walk # <<>>
      /\ \A j \in DOMAIN walk : walk'[j] = IF j = i THEN u ELSE walk[j]
  BY <1>1, <1>2
<1>4. \A j \in DOMAIN walk' : WalkInv(walk'[j], search'.op, always', ever')
  BY <1>1, <1>2, <1>3
<1>5. SearchInv'
  <2>1. search \in Searches
    BY <1>1 DEF WsInv, SearchInv
  <2>2. search.op = "disk" => Len(walk) = 1
    BY <1>1 DEF WsInv, SearchInv
  <2> QED  BY <1>1, <1>3, <1>4, <2>1, <2>2, SearchIsNone DEF SearchInv
<1>6. FoundInv'
  BY <1>1 DEF FoundInv, GrepIsHonest
<1>7. MountsInv' /\ KeysInv' /\ changes' \in Nat
  BY <1>1, MountsKept, KeysKept DEF WsInv
<1> QED  BY <1>5, <1>6, <1>7 DEF WsInv

LEMMA AskingWalk ==
  ASSUME WsInv, NEW i \in DOMAIN walk, Asking(i)
  PROVE  walk[i] \in WalkSet /\ WalkInv(walk[i], search.op, always, ever) /\ walk[i].state = "asking" /\ search \in Searches
BY DEF WsInv, SearchInv, Asking, Runs

LEMMA ReadPageKeepsInv ==
  ASSUME WsInv, NEW i \in DOMAIN walk, ReadPage(i)
  PROVE  WsInv'
PROOF
<1>1. Asking(i) /\ search.op # "grep"
  BY DEF ReadPage
<1>2. PICK w \in WalkSet : w = walk[i]
  BY <1>1, AskingWalk
<1>3. WalkInv(w, search.op, always, ever) /\ w.state = "asking" /\ search \in Searches
  BY <1>1, <1>2, AskingWalk
<1>4. PICK page : page = PageAfter(w)
  OBVIOUS
<1>5. PICK v : v = Taken(w, page)
  OBVIOUS
<1>6. v.token = w.token
  BY <1>3, <1>4, <1>5, TakenHas
<1>7. PICK token \in {page.last, w.token} : Walks(i, Onward(w, page, token))
  BY <1>2, <1>4, <1>5, <1>6 DEF ReadPage, Onward
<1>8. PICK u : u = Onward(w, page, token)
  OBVIOUS
<1>9. u \in WalkSet /\ WalkInv(u, search.op, always, ever)
  BY <1>1, <1>3, <1>4, <1>7, <1>8, PageIsTaken DEF WsInv
<1> QED  BY <1>1, <1>7, <1>8, <1>9, WalkStepKeepsInv

LEMMA DiskFailsKeepsInv ==
  ASSUME WsInv, NEW i \in DOMAIN walk, DiskFails(i)
  PROVE  WsInv'
PROOF
<1>1. PICK w \in WalkSet : w = walk[i] /\ WalkInv(w, search.op, always, ever) /\ w.state = "asking"
  BY AskingWalk DEF DiskFails
<1>2. PICK u : u = [w EXCEPT !.state = "failed"]
  OBVIOUS
<1>3. u \in WalkSet
  BY <1>2 DEF WalkSet
<1>4. /\ u.mount = w.mount /\ u.rel = w.rel /\ u.state = "failed" /\ u.token = w.token /\ u.asked = w.asked
      /\ u.requests = w.requests /\ u.objects = w.objects /\ u.dirs = w.dirs /\ u.cut = w.cut /\ u.stuck = w.stuck
  BY <1>2 DEF WalkSet
<1>5. AsksOnce(u)
  <2>1. Cardinality(w.asked) \in Nat /\ w.requests \in Nat
    BY PlacesAreFinite DEF WalkSet
  <2>2. AsksOnce(w)
    BY <1>1 DEF WalkInv
  <2>3. w.requests <= Cardinality(w.asked) /\ (w.token # 0 => w.token \in w.asked)
    BY <1>1, <2>1, <2>2 DEF AsksOnce
  <2>4. u.requests <= Cardinality(u.asked) + 1
    BY <1>4, <2>1, <2>3
  <2> QED  BY <1>4, <2>3, <2>4 DEF AsksOnce
<1>6. TakesWhatIsThere(u, ever)
  BY <1>1, <1>4 DEF WalkInv, TakesWhatIsThere
<1>7. MissesNothing(u, search.op, always)
  BY <1>1, <1>4 DEF WalkInv, MissesNothing
<1>8. FitsTheSearch(u, search.op)
  BY <1>1, <1>4 DEF WalkInv, FitsTheSearch
<1>9. Asking(i) /\ Walks(i, u)
  BY <1>1, <1>2 DEF DiskFails
<1> QED  BY <1>3, <1>5, <1>6, <1>7, <1>8, <1>9, WalkStepKeepsInv DEF WalkInv

\* A walk of a grep ends with the groups and the reason of the disk, or with a
\* refusal.
LEMMA GrepStepHolds ==
  ASSUME NEW w \in WalkSet, WalkInv(w, "grep", always, ever), w.state = "asking",
         NEW state \in {"done", "refused"}, NEW reason \in StopReasons \cup {"none"}, NEW groups \in Groups,
         state = "done" => reason \in StopReasons,
         NEW u, u = [w EXCEPT !.state = state, !.reason = reason, !.groups = groups]
  PROVE  u \in WalkSet /\ WalkInv(u, "grep", always, ever)
PROOF
<1>3. u \in WalkSet
  BY DEF WalkSet
<1>4. /\ u.mount = w.mount /\ u.rel = w.rel /\ u.state = state /\ u.token = w.token /\ u.asked = w.asked /\ u.reason = reason
      /\ u.requests = w.requests /\ u.objects = w.objects /\ u.dirs = w.dirs /\ u.cut = w.cut /\ u.stuck = w.stuck
  BY DEF WalkSet
<1>5. AsksOnce(u)
  <2>1. Cardinality(w.asked) \in Nat /\ w.requests \in Nat
    BY PlacesAreFinite DEF WalkSet
  <2>2. AsksOnce(w)
    BY DEF WalkInv
  <2>3. w.requests <= Cardinality(w.asked) /\ (w.token # 0 => w.token \in w.asked)
    BY <2>1, <2>2 DEF AsksOnce
  <2>4. u.requests <= Cardinality(u.asked) + 1
    BY <1>4, <2>1, <2>3
  <2> QED  BY <1>4, <2>3, <2>4 DEF AsksOnce
<1>6. TakesWhatIsThere(u, ever)
  BY <1>4 DEF WalkInv, TakesWhatIsThere
<1>7. MissesNothing(u, "grep", always)
  BY DEF MissesNothing
<1>8. FitsTheSearch(u, "grep")
  BY <1>4 DEF WalkInv, FitsTheSearch
<1> QED  BY <1>3, <1>5, <1>6, <1>7, <1>8 DEF WalkInv

LEMMA GrepKeepsInv ==
  ASSUME WsInv, NEW i \in DOMAIN walk, NEW groups \in GrepAnswers, NEW reason \in StopReasons, Grep(i, groups, reason)
  PROVE  WsInv'
PROOF
<1>1. Asking(i) /\ search.op = "grep"
  BY DEF Grep
<1>2. PICK w \in WalkSet : w = walk[i] /\ WalkInv(w, "grep", always, ever) /\ w.state = "asking"
  BY <1>1, AskingWalk
<1>3. groups \in Groups
  BY WorkspaceAssumption DEF WellFormed, Groups
<1>4. PICK u : u = [w EXCEPT !.state = "done", !.reason = reason, !.groups = groups]
  OBVIOUS
<1>5. u \in WalkSet /\ WalkInv(u, "grep", always, ever)
  BY <1>2, <1>3, <1>4, GrepStepHolds
<1>6. Walks(i, u)
  BY <1>2, <1>4 DEF Grep
<1> QED  BY <1>1, <1>5, <1>6, WalkStepKeepsInv

LEMMA GrepRefusedKeepsInv ==
  ASSUME WsInv, NEW i \in DOMAIN walk, GrepRefused(i)
  PROVE  WsInv'
PROOF
<1>1. Asking(i) /\ search.op = "grep"
  BY DEF GrepRefused
<1>2. PICK w \in WalkSet : w = walk[i] /\ WalkInv(w, "grep", always, ever) /\ w.state = "asking"
  BY <1>1, AskingWalk
<1>3. w.groups \in Groups /\ w.reason \in StopReasons \cup {"none"}
  BY DEF WalkSet
<1>4. PICK u : u = [w EXCEPT !.state = "refused", !.reason = w.reason, !.groups = w.groups]
  OBVIOUS
<1>5. u \in WalkSet /\ WalkInv(u, "grep", always, ever)
  BY <1>2, <1>3, <1>4, GrepStepHolds
<1>6. u = [w EXCEPT !.state = "refused"]
  BY <1>4 DEF WalkSet
<1>7. Walks(i, u)
  BY <1>2, <1>6 DEF GrepRefused
<1> QED  BY <1>1, <1>5, <1>7, WalkStepKeepsInv

-----------------------------------------------------------------------------
(* The merge of listings. *)

LEMMA ImageIsFinite ==
  ASSUME NEW S, IsFiniteSet(S), NEW f, NEW T, \A t \in T : \E x \in S : f[x] = t
  PROVE  IsFiniteSet(T)
PROOF
<1> DEFINE R == {f[x] : x \in S}
           g == [x \in S |-> f[x]]
<1>1. g \in Surjection(S, R)
  BY DEF Surjection
<1>2. IsFiniteSet(R)
  <2> HIDE DEF g, R
  <2> QED  BY <1>1, FS_Surjection
<1>3. T \in SUBSET R
  OBVIOUS
<1> HIDE DEF R
<1> QED  BY <1>2, <1>3, FS_Subset

LEMMA KeysAreFinite ==
  ASSUME WsInv
  PROVE  IsFiniteSet(Keys)
PROOF
<1>1. walk \in Seq(WalkSet)
  BY DEF WsInv, SearchInv
<1>2. IsFiniteSet(Done)
  <2>1. Len(walk) \in Nat /\ DOMAIN walk = 1..Len(walk)
    BY <1>1
  <2>2. IsFiniteSet(1..Len(walk)) /\ Done \in SUBSET (1..Len(walk))
    BY <2>1, FS_Interval DEF Done
  <2> QED  BY <2>2, FS_Subset
<1> DEFINE Of(i) == {Abs(walk[i].mount, k) : k \in KeysOf(walk[i])}
           All == {Of(i) : i \in Done}
<1>3. ASSUME NEW i \in Done PROVE IsFiniteSet(Of(i))
  <2>1. PICK w \in WalkSet : w = walk[i]
    BY <1>1 DEF Done
  <2> DEFINE f == [p \in w.objects |-> Abs(w.mount, KeyOrder[p])]
             T == Of(i)
  <2>2. IsFiniteSet(w.objects)
    BY PlacesAreFinite DEF WalkSet
  <2>3. \A t \in T : \E p \in w.objects : f[p] = t
    BY <2>1 DEF KeysOf
  <2>4. IsFiniteSet(T)
    <3> HIDE DEF f, T
    <3> QED  BY <2>2, <2>3, ImageIsFinite
  <2> QED  BY <2>4
<1>4. IsFiniteSet(All)
  <2> DEFINE f == [i \in Done |-> Of(i)]
  <2>1. \A t \in All : \E i \in Done : f[i] = t
    OBVIOUS
  <2> HIDE DEF f, All
  <2> QED  BY <1>2, <2>1, ImageIsFinite
<1>5. \A t \in All : IsFiniteSet(t)
  BY <1>3
<1>6. Keys = UNION All
  BY DEF Keys
<1> HIDE DEF All
<1> QED  BY <1>4, <1>5, <1>6, FS_UNION

LEMMA MergeKeepsRest ==
  ASSUME WsInv, NEW answer, Merges(answer), answer.op \in {"rejected", search.op}
  PROVE  /\ MountsInv' /\ KeysInv' /\ changes' \in Nat /\ SearchInv'
         /\ found' = answer /\ search' = search /\ walk' = walk
         /\ search \in Searches /\ (search.op = "disk" => Len(walk) = 1)
         /\ \A i \in DOMAIN walk : walk[i].state # "asking"
PROOF
<1>1. /\ found' = answer /\ search' = search /\ walk' = walk /\ held' = held /\ mounts' = mounts
      /\ always' = always /\ ever' = ever /\ changes' = changes
      /\ found.op = "pending" /\ \A i \in DOMAIN walk : walk[i].state # "asking"
  BY DEF Merges, Runs
<1>2. MountsInv' /\ KeysInv' /\ changes' \in Nat
  BY <1>1, MountsKept, KeysKept DEF WsInv
<1>3. search \in Searches /\ (search.op = "disk" => Len(walk) = 1)
  BY <1>1 DEF WsInv, SearchInv
<1>4. search # NoSearch /\ search.op \in {"list", "disk", "glob", "grep"}
  BY <1>3, SearchIsNone
<1>5. walk' \in Seq(WalkSet) /\ \A i \in DOMAIN walk' : WalkInv(walk'[i], search'.op, always', ever')
  BY <1>1 DEF WsInv, SearchInv
<1>6. found'.op # "pending"
  BY <1>1, <1>4
<1>7. SearchInv'
  BY <1>1, <1>3, <1>4, <1>5, <1>6 DEF SearchInv
<1> QED  BY <1>1, <1>2, <1>3, <1>7

LEMMA MergedNames ==
  ASSUME walk' = walk
  PROVE  Keys' = Keys /\ DirKeys' = DirKeys /\ Done' = Done /\ ListingTruncated' = ListingTruncated /\ AllGroups' = AllGroups
PROOF
<1>1. Done' = Done /\ ListingTruncated' = ListingTruncated /\ AllGroups' = AllGroups
  BY DEF Done, ListingTruncated, AllGroups
<1> QED  BY <1>1 DEF Keys, DirKeys

LEMMA MergeListingKeepsInv ==
  ASSUME WsInv, MergeListing
  PROVE  WsInv'
PROOF
<1>1. PICK r : r = [op |-> "list", objects |-> Keys, dirs |-> DirKeys, truncated |-> ListingTruncated]
  OBVIOUS
<1>2. Merges(r) /\ search.op = "list"
  BY <1>1 DEF MergeListing
<1>3. r.op = "list" /\ r.objects = Keys /\ r.dirs = DirKeys /\ r.truncated = ListingTruncated
  BY <1>1
<1>4. /\ MountsInv' /\ KeysInv' /\ changes' \in Nat /\ SearchInv'
      /\ found' = r /\ search' = search /\ walk' = walk /\ \A i \in DOMAIN walk : walk[i].state # "asking"
  BY <1>2, <1>3, MergeKeepsRest
<1>5. Keys' = Keys /\ DirKeys' = DirKeys /\ ListingTruncated' = ListingTruncated
  BY <1>4, MergedNames
<1>6. FoundInv'
  BY <1>2, <1>3, <1>4, <1>5 DEF FoundInv, GrepIsHonest
<1> QED  BY <1>4, <1>6 DEF WsInv

LEMMA EndDiskListingKeepsInv ==
  ASSUME WsInv, EndDiskListing
  PROVE  WsInv'
PROOF
<1>1. PICK r : r = IF Done = {} THEN Rejected
                   ELSE [op |-> "disk", objects |-> KeysOf(walk[1]), dirs |-> walk[1].dirs, truncated |-> walk[1].cut]
  OBVIOUS
<1>2. Merges(r) /\ search.op = "disk"
  BY <1>1 DEF EndDiskListing
<1>3. \/ r.op = "rejected"
      \/ Done # {} /\ r.op = "disk" /\ r.objects = KeysOf(walk[1]) /\ r.dirs = walk[1].dirs /\ r.truncated = walk[1].cut
  BY <1>1 DEF Rejected
<1>4. /\ MountsInv' /\ KeysInv' /\ changes' \in Nat /\ SearchInv' /\ Len(walk) = 1
      /\ found' = r /\ search' = search /\ walk' = walk /\ \A i \in DOMAIN walk : walk[i].state # "asking"
  BY <1>2, <1>3, MergeKeepsRest
<1>5. Done' = Done
  BY <1>4, MergedNames
<1>6. FoundInv'
  BY <1>2, <1>3, <1>4, <1>5 DEF FoundInv, GrepIsHonest, KeysOf
<1> QED  BY <1>4, <1>6 DEF WsInv

LEMMA MergeGlobKeepsInv ==
  ASSUME WsInv, MergeGlob
  PROVE  WsInv'
PROOF
<1>1. PICK paths : paths = {k \in Keys : Wanted(search, k)}
  OBVIOUS
<1>2. PICK shown \in kSubset(Min({Cardinality(paths), search.limit, MaxGlobLines}), paths) :
        Merges(FormatGlob(paths, shown, search.limit))
  BY <1>1 DEF MergeGlob
<1>3. shown \in SUBSET paths
  BY <1>2 DEF kSubset
<1>4. IsFiniteSet(paths) /\ IsFiniteSet(shown)
  <2>1. paths \in SUBSET Keys
    BY <1>1
  <2> QED  BY <1>3, <2>1, KeysAreFinite, FS_Subset
<1>5. PICK r : r = FormatGlob(paths, shown, search.limit)
  OBVIOUS
<1>6. /\ r.op = "glob" /\ r.objects = shown /\ r.dirs = {}
      /\ r.truncated = (ListingTruncated \/ (paths # {} /\ (Cardinality(paths) > search.limit \/ Cardinality(shown) < Cardinality(paths))))
  BY <1>5 DEF FormatGlob
<1>7. search.op = "glob"
  BY DEF MergeGlob
<1>8. /\ MountsInv' /\ KeysInv' /\ changes' \in Nat /\ SearchInv'
      /\ found' = r /\ search' = search /\ walk' = walk /\ \A i \in DOMAIN walk : walk[i].state # "asking"
  BY <1>2, <1>5, <1>6, <1>7, MergeKeepsRest
<1>9. Keys' = Keys /\ ListingTruncated' = ListingTruncated
  BY <1>8, MergedNames
<1>10. ~r.truncated => ~ListingTruncated /\ \A k \in Keys : Wanted(search, k) => k \in r.objects
  <2> SUFFICES ASSUME ~r.truncated PROVE ~ListingTruncated /\ paths \subseteq shown
    BY <1>1, <1>6
  <2>1. ~ListingTruncated /\ (paths = {} \/ ~(Cardinality(shown) < Cardinality(paths)))
    BY <1>6
  <2>2. Cardinality(shown) \in Nat /\ Cardinality(paths) \in Nat /\ Cardinality(shown) <= Cardinality(paths)
    BY <1>3, <1>4, FS_CardinalityType, FS_Subset
  <2>3. Cardinality(shown) = Cardinality(paths) => shown = paths
    BY <1>3, <1>4, FS_Subset
  <2> QED  BY <2>1, <2>2, <2>3
<1>11. FoundInv'
  <2>1. found'.truncated \/ (~ListingTruncated' /\ \A k \in Keys' : Wanted(search', k) => k \in found'.objects)
    BY <1>8, <1>9, <1>10
  <2>2. found'.dirs = {} /\ found'.op = "glob" /\ search'.op = "glob"
    BY <1>6, <1>7, <1>8
  <2> QED  BY <1>8, <2>1, <2>2 DEF FoundInv, GrepIsHonest
<1> QED  BY <1>8, <1>11 DEF WsInv

-----------------------------------------------------------------------------
(* The merge of greps. *)

LEMMA AllGroupsType ==
  ASSUME walk \in Seq(WalkSet)
  PROVE  AllGroups \in Groups
PROOF
<1> DEFINE N == Len(walk)
           On(a, n) == IF walk[n].state = "done" THEN a \o walk[n].groups ELSE a
           Body(d) == [n \in 0..N |-> IF n = 0 THEN <<>> ELSE On(d[n - 1], n)]
           step == [n \in 1..N |-> [a \in Groups |-> On(a, n)]]
           empty == <<>>
<1>0. N \in Nat /\ empty \in Groups
  BY DEF Groups
<1>1. \A n \in 1..N : \A a \in Groups : On(a, n) \in Groups
  <2> TAKE n \in 1..N
  <2>1. walk[n].groups \in Groups
    <3>1. PICK w \in WalkSet : w = walk[n]
      OBVIOUS
    <3> QED  BY <3>1 DEF WalkSet
  <2> QED  BY <2>1, ConcatProperties DEF Groups
<1>2. step \in Steps(N, Groups)
  <2> HIDE DEF N, On
  <2> QED  BY <1>1 DEF Steps
<1>3. HasRun(N, Groups, empty, step)
  <2> HIDE DEF step, N, empty
  <2> QED  BY <1>0, <1>2, Recursion
<1>4. PICK f \in [0..N -> Groups] : f[0] = empty /\ \A n \in 1..N : f[n] = step[n][f[n - 1]]
  BY <1>3 DEF HasRun
<1>5. \A n \in 1..N : f[n] = On(f[n - 1], n)
  <2> SUFFICES ASSUME NEW n \in 1..N PROVE f[n] = On(f[n - 1], n)
    OBVIOUS
  <2>1. f[n - 1] \in Groups
    BY <1>0
  <2> HIDE DEF N, On
  <2> QED  BY <1>4, <2>1
<1>6. f = Body(f)
  <2> HIDE DEF N, step, On
  <2> QED  BY <1>0, <1>4, <1>5
<1>7. PICK d : d = Body(d) /\ AllGroups = d[N]
  BY <1>6 DEF AllGroups
<1>8. d[0] = empty /\ \A n \in 1..N : d[n] = On(d[n - 1], n)
  <2> HIDE DEF On, N
  <2> QED  BY <1>0, <1>7
<1>9. \A n \in 0..N : d[n] \in Groups
  <2> DEFINE P == {n \in 0..N : d[n] \in Groups}
  <2>1. 0 \in P /\ \A n \in 1..N : n - 1 \in P => n \in P
    <3> HIDE DEF On
    <3> QED  BY <1>0, <1>1, <1>8
  <2>2. \A n \in 0..N : n \in P
    <3> HIDE DEF P, N
    <3> QED  BY <1>0, <2>1, Upwards
  <2> QED  BY <2>2
<1> QED  BY <1>0, <1>7, <1>9

LEMMA GroupsType ==
  ASSUME NEW groups \in Groups
  PROVE  /\ Len(groups) \in Nat /\ DOMAIN groups = 1..Len(groups)
         /\ \A i \in 1..Len(groups) :
              /\ groups[i] \in Seq(BOOLEAN) /\ Len(groups[i]) \in Nat /\ DOMAIN groups[i] = 1..Len(groups[i])
              /\ \A j \in 1..Len(groups[i]) : groups[i][j] \in BOOLEAN
PROOF
<1>1. ASSUME NEW i \in 1..Len(groups)
      PROVE  /\ groups[i] \in Seq(BOOLEAN) /\ Len(groups[i]) \in Nat /\ DOMAIN groups[i] = 1..Len(groups[i])
             /\ \A j \in 1..Len(groups[i]) : groups[i][j] \in BOOLEAN
  <2>1. groups[i] \in Seq(BOOLEAN)
    BY DEF Groups
  <2> QED  BY <2>1
<1> QED  BY <1>1 DEF Groups

\* The matches are the lines that start one.
IsMatch(groups, multiline, i, j) ==
  /\ i \in 1..Len(groups) /\ j \in 1..Len(groups[i])
  /\ groups[i][j] /\ ~(multiline /\ j > 1 /\ groups[i][j - 1])

LEMMA MatchesAre ==
  ASSUME NEW groups \in Groups, NEW multiline \in BOOLEAN
  PROVE  /\ \A m \in Matches(groups, multiline) : m = <<m[1], m[2]>> /\ IsMatch(groups, multiline, m[1], m[2])
         /\ \A i, j : IsMatch(groups, multiline, i, j) => <<i, j>> \in Matches(groups, multiline)
PROOF
<1>1. ASSUME NEW m \in Matches(groups, multiline)
      PROVE  m = <<m[1], m[2]>> /\ IsMatch(groups, multiline, m[1], m[2])
  <2>1. PICK i \in DOMAIN groups : \E j \in MatchStarts(groups[i], multiline) : m = <<i, j>>
    BY DEF Matches
  <2>2. PICK j \in MatchStarts(groups[i], multiline) : m = <<i, j>>
    BY <2>1
  <2>3. i \in 1..Len(groups) /\ j \in 1..Len(groups[i])
    BY GroupsType DEF MatchStarts
  <2> QED  BY <2>2, <2>3 DEF MatchStarts, IsMatch
<1>2. ASSUME NEW i, NEW j, IsMatch(groups, multiline, i, j)
      PROVE  <<i, j>> \in Matches(groups, multiline)
  <2>1. i \in DOMAIN groups /\ j \in DOMAIN groups[i]
    BY <1>2, GroupsType DEF IsMatch
  <2>2. j \in MatchStarts(groups[i], multiline)
    BY <1>2, <2>1 DEF IsMatch, MatchStarts
  <2> QED  BY <2>1, <2>2 DEF Matches
<1> QED  BY <1>1, <1>2

LEMMA MatchesAreFinite ==
  ASSUME NEW groups \in Groups, NEW multiline \in BOOLEAN
  PROVE  IsFiniteSet(Matches(groups, multiline))
PROOF
<1> DEFINE Of(i) == {<<i, j>> : j \in MatchStarts(groups[i], multiline)}
           All == {Of(i) : i \in DOMAIN groups}
<1>1. IsFiniteSet(DOMAIN groups)
  BY GroupsType, FS_Interval
<1>2. ASSUME NEW i \in DOMAIN groups PROVE IsFiniteSet(Of(i))
  <2> DEFINE S == MatchStarts(groups[i], multiline)
             f == [j \in S |-> <<i, j>>]
             T == Of(i)
  <2>1. IsFiniteSet(1..Len(groups[i])) /\ S \in SUBSET (1..Len(groups[i]))
    <3>1. Len(groups[i]) \in Nat /\ DOMAIN groups[i] = 1..Len(groups[i])
      BY GroupsType
    <3>2. IsFiniteSet(1..Len(groups[i]))
      BY <3>1, FS_Interval
    <3> QED  BY <3>1, <3>2 DEF MatchStarts
  <2>2. IsFiniteSet(S)
    <3> HIDE DEF S
    <3> QED  BY <2>1, FS_Subset
  <2>3. \A t \in T : \E j \in S : f[j] = t
    OBVIOUS
  <2>4. IsFiniteSet(T)
    <3> HIDE DEF f, S, T
    <3> QED  BY <2>2, <2>3, ImageIsFinite
  <2> QED  BY <2>4
<1>3. IsFiniteSet(All)
  <2> DEFINE D == DOMAIN groups
             f == [i \in D |-> Of(i)]
  <2>1. \A t \in All : \E i \in D : f[i] = t
    OBVIOUS
  <2> HIDE DEF f, All, D
  <2> QED  BY <1>1, <2>1, ImageIsFinite DEF D
<1>4. \A t \in All : IsFiniteSet(t)
  BY <1>2
<1>5. Matches(groups, multiline) = UNION All
  BY DEF Matches
<1> HIDE DEF All
<1> QED  BY <1>3, <1>4, <1>5, FS_UNION

SeenSet(groups, multiline, i, j) == {m \in Matches(groups, multiline) : m[1] < i \/ (m[1] = i /\ m[2] <= j)}

LEMMA SeenCounts ==
  ASSUME NEW groups \in Groups, NEW multiline \in BOOLEAN, NEW i, NEW j
  PROVE  /\ IsFiniteSet(SeenSet(groups, multiline, i, j))
         /\ Seen(groups, multiline, i, j) = Cardinality(SeenSet(groups, multiline, i, j))
         /\ Seen(groups, multiline, i, j) \in Nat
PROOF
<1> DEFINE S == SeenSet(groups, multiline, i, j)
<1>1. IsFiniteSet(S)
  <2>1. S \in SUBSET Matches(groups, multiline)
    BY DEF SeenSet
  <2> HIDE DEF S
  <2> QED  BY <2>1, MatchesAreFinite, FS_Subset
<1>2. Seen(groups, multiline, i, j) = Cardinality(S)
  BY DEF Seen, SeenSet
<1> HIDE DEF S
<1>3. Cardinality(S) \in Nat
  BY <1>1, FS_CardinalityType
<1> QED  BY <1>1, <1>2, <1>3 DEF S

\* A line more is at most a match more.
LEMMA SeenLine ==
  ASSUME NEW groups \in Groups, NEW multiline \in BOOLEAN, NEW i \in 1..Len(groups), NEW j \in 1..Len(groups[i])
  PROVE  Seen(groups, multiline, i, j) =
           Seen(groups, multiline, i, j - 1) + (IF IsMatch(groups, multiline, i, j) THEN 1 ELSE 0)
PROOF
<1> DEFINE S == SeenSet(groups, multiline, i, j)
           R == SeenSet(groups, multiline, i, j - 1)
           M == Matches(groups, multiline)
<1>1. Len(groups) \in Nat /\ Len(groups[i]) \in Nat
  BY GroupsType
<1>2. \A m \in M : m = <<m[1], m[2]>> /\ IsMatch(groups, multiline, m[1], m[2])
  BY MatchesAre
<1>3. \A m \in M : m[1] \in Nat /\ (m[1] = i => m[2] \in Nat)
  <2> TAKE m \in M
  <2>1. m[1] \in 1..Len(groups) /\ m[2] \in 1..Len(groups[m[1]])
    BY <1>2 DEF IsMatch
  <2> QED  BY <1>1, <2>1
<1>4. CASE IsMatch(groups, multiline, i, j)
  <2>1. <<i, j>> \in M
    BY <1>4, MatchesAre
  <2>2. S = R \cup {<<i, j>>} /\ <<i, j>> \notin R
    <3>1. \A m \in M : m[1] = i /\ m[2] = j => m = <<i, j>>
      BY <1>2
    <3> HIDE DEF M
    <3>2. \A m \in M : (m[1] < i \/ (m[1] = i /\ m[2] <= j)) => (m[1] < i \/ (m[1] = i /\ m[2] <= j - 1)) \/ m = <<i, j>>
      BY <1>1, <1>3, <3>1
    <3>3. \A m \in M : (m[1] < i \/ (m[1] = i /\ m[2] <= j - 1)) => (m[1] < i \/ (m[1] = i /\ m[2] <= j))
      BY <1>1, <1>3
    <3>4. S \subseteq R \cup {<<i, j>>}
      BY <3>2 DEF SeenSet, M
    <3>5. R \subseteq S
      BY <3>3 DEF SeenSet, M
    <3>6. <<i, j>> \in S /\ <<i, j>> \notin R
      BY <1>1, <2>1 DEF SeenSet, M
    <3> HIDE DEF S, R
    <3> QED  BY <3>4, <3>5, <3>6
  <2>3. IsFiniteSet(R) /\ Cardinality(R) \in Nat
    BY SeenCounts
  <2>4. Cardinality(S) = Cardinality(R) + 1
    <3> HIDE DEF S, R
    <3> QED  BY <2>2, <2>3, FS_AddElement
  <2> QED  BY <1>4, <2>4, SeenCounts
<1>5. CASE ~IsMatch(groups, multiline, i, j)
  <2>1. \A m \in M : ~(m[1] = i /\ m[2] = j)
    BY <1>2, <1>5
  <2>2. \A m \in M : (m[1] < i \/ (m[1] = i /\ m[2] <= j)) <=> (m[1] < i \/ (m[1] = i /\ m[2] <= j - 1))
    <3> HIDE DEF M
    <3> QED  BY <1>1, <1>3, <2>1
  <2>3. S = R
    BY <2>2 DEF SeenSet
  <2>4. Seen(groups, multiline, i, j) = Seen(groups, multiline, i, j - 1)
    BY <2>3, SeenCounts
  <2> QED  BY <1>5, <2>4, SeenCounts
<1> QED  BY <1>4, <1>5

\* Before a group are the matches of the groups before it.
LEMMA SeenGroup ==
  ASSUME NEW groups \in Groups, NEW multiline \in BOOLEAN, NEW i \in 1..Len(groups)
  PROVE  /\ i = 1 => Seen(groups, multiline, i, 0) = 0
         /\ i > 1 => Seen(groups, multiline, i, 0) = Seen(groups, multiline, i - 1, Len(groups[i - 1]))
         /\ i = Len(groups) => Seen(groups, multiline, i, Len(groups[i])) = MatchesIn(groups, multiline)
PROOF
<1> DEFINE M == Matches(groups, multiline)
<1>1. Len(groups) \in Nat /\ \A k \in 1..Len(groups) : Len(groups[k]) \in Nat
  BY GroupsType
<1>2. \A m \in M : m[1] \in 1..Len(groups) /\ m[2] \in 1..Len(groups[m[1]])
  BY MatchesAre DEF IsMatch
<1>3. \A m \in M : m[1] \in Nat /\ m[2] \in Nat /\ m[2] >= 1 /\ m[2] <= Len(groups[m[1]]) /\ m[1] >= 1 /\ m[1] <= Len(groups)
  <2> TAKE m \in M
  <2>1. m[1] \in 1..Len(groups) /\ m[2] \in 1..Len(groups[m[1]])
    BY <1>2
  <2> QED  BY <1>1, <2>1
<1>4. i = 1 => SeenSet(groups, multiline, i, 0) = {}
  <2> SUFFICES ASSUME i = 1, NEW m \in M PROVE ~(m[1] < i \/ (m[1] = i /\ m[2] <= 0))
    BY DEF SeenSet
  <2> HIDE DEF M
  <2> QED  BY <1>3
<1>5. i > 1 => SeenSet(groups, multiline, i, 0) = SeenSet(groups, multiline, i - 1, Len(groups[i - 1]))
  <2> SUFFICES ASSUME i > 1, NEW m \in M
               PROVE  (m[1] < i \/ (m[1] = i /\ m[2] <= 0)) <=> (m[1] < i - 1 \/ (m[1] = i - 1 /\ m[2] <= Len(groups[i - 1])))
    BY DEF SeenSet
  <2>1. m[1] = i - 1 => m[2] <= Len(groups[i - 1])
    BY <1>3
  <2> HIDE DEF M
  <2> QED  BY <1>1, <1>3, <2>1
<1>6. i = Len(groups) => SeenSet(groups, multiline, i, Len(groups[i])) = M
  <2> SUFFICES ASSUME i = Len(groups), NEW m \in M PROVE m[1] < i \/ (m[1] = i /\ m[2] <= Len(groups[i]))
    BY DEF SeenSet
  <2>1. m[1] = i => m[2] <= Len(groups[i])
    BY <1>3
  <2> HIDE DEF M
  <2> QED  BY <1>1, <1>3, <2>1
<1> QED  BY <1>4, <1>5, <1>6, SeenCounts, FS_EmptySet DEF MatchesIn

\* Where there are more matches than the cap, one line is the last of those up
\* to the cap.
LEMMA SomethingEnds ==
  ASSUME NEW groups \in Groups, NEW multiline \in BOOLEAN, NEW cap \in Nat \ {0}, MatchesIn(groups, multiline) > cap
  PROVE  \E i \in DOMAIN groups : \E j \in DOMAIN groups[i] : Ends(groups, cap, multiline, i, j)
PROOF
<1> DEFINE S(i, j) == Seen(groups, multiline, i, j)
           Full == {i \in 1..Len(groups) : S(i, Len(groups[i])) >= cap}
<1>1. Len(groups) \in Nat /\ \A k \in 1..Len(groups) : Len(groups[k]) \in Nat
  BY GroupsType
<1>2. \A i, j : S(i, j) \in Nat
  BY SeenCounts
<1>3. Len(groups) \in Full
  <2>1. Len(groups) # 0
    <3> SUFFICES ASSUME Len(groups) = 0 PROVE FALSE
      OBVIOUS
    <3>1. Matches(groups, multiline) = {}
      BY MatchesAre DEF IsMatch
    <3>2. MatchesIn(groups, multiline) = 0
      BY <3>1, FS_EmptySet DEF MatchesIn
    <3> QED  BY <3>2
  <2>2. PICK last \in 1..Len(groups) : last = Len(groups)
    BY <1>1, <2>1
  <2>3. S(last, Len(groups[last])) = MatchesIn(groups, multiline)
    BY <2>2, SeenGroup
  <2>4. S(last, Len(groups[last])) \in Nat
    BY <1>2
  <2>5. S(last, Len(groups[last])) >= cap
    <3> HIDE DEF S
    <3> QED  BY <2>3, <2>4
  <2> QED  BY <2>2, <2>5
<1>4. \E i \in Full : \A k \in Full : i <= k
  <2>1. Full \subseteq Nat
    BY <1>1
  <2>2. Full # {}
    BY <1>3
  <2> HIDE DEF Full
  <2> QED  BY <2>1, <2>2, LeastElement, Zenon
<1>5. PICK i \in Full : \A k \in Full : i <= k
  BY <1>4
<1>6. i \in 1..Len(groups) /\ S(i, Len(groups[i])) >= cap
  OBVIOUS
<1>7. S(i, 0) < cap
  <2>1. CASE i = 1
    <3>1. S(i, 0) = 0
      BY <1>6, <2>1, SeenGroup
    <3> HIDE DEF S
    <3> QED  BY <3>1
  <2>2. CASE i > 1
    <3>1. S(i, 0) = S(i - 1, Len(groups[i - 1]))
      BY <1>6, <2>2, SeenGroup
    <3>2. i - 1 \in 1..Len(groups) /\ ~(i <= i - 1)
      BY <1>1, <1>6, <2>2
    <3>3. ~(S(i - 1, Len(groups[i - 1])) >= cap)
      BY <1>5, <3>2
    <3>4. S(i - 1, Len(groups[i - 1])) \in Nat
      BY <1>2
    <3> HIDE DEF S
    <3> QED  BY <3>1, <3>3, <3>4
  <2> QED  BY <1>1, <1>6, <2>1, <2>2
<1> DEFINE N == Len(groups[i])
           Reached == {j \in 0..N : S(i, j) >= cap}
<1>8. N \in Nat
  BY <1>1, <1>6
<1>9. \E j \in Reached : \A k \in Reached : j <= k
  <2>1. Reached \subseteq Nat
    BY <1>8
  <2>2. N \in Reached
    BY <1>6, <1>8
  <2> HIDE DEF Reached, N
  <2> QED  BY <2>1, <2>2, LeastElement, Zenon
<1>10. PICK j \in Reached : \A k \in Reached : j <= k
  BY <1>9
<1>11. j \in 1..N
  <2>1. j \in 0..N /\ S(i, j) >= cap
    OBVIOUS
  <2>2. j # 0
    <3>1. S(i, 0) \in Nat
      BY <1>2
    <3> HIDE DEF S
    <3> QED  BY <1>7, <2>1, <3>1
  <2> HIDE DEF N
  <2> QED  BY <1>8, <2>1, <2>2
<1>12. S(i, j) = cap /\ IsMatch(groups, multiline, i, j)
  <2>1. j - 1 \in 0..N /\ ~(j <= j - 1)
    <3> HIDE DEF N
    <3> QED  BY <1>8, <1>11
  <2>2. ~(S(i, j - 1) >= cap) /\ S(i, j) >= cap
    BY <1>10, <2>1
  <2>3. S(i, j) = S(i, j - 1) + (IF IsMatch(groups, multiline, i, j) THEN 1 ELSE 0)
    BY <1>6, <1>11, SeenLine
  <2>4. S(i, j) \in Nat /\ S(i, j - 1) \in Nat
    BY <1>2
  <2> HIDE DEF S
  <2> QED  BY <2>2, <2>3, <2>4
<1>13. CASE ~multiline
  <2>1. i \in DOMAIN groups /\ j \in DOMAIN groups[i]
    BY <1>6, <1>11, GroupsType
  <2>2. Ends(groups, cap, multiline, i, j)
    BY <1>12, <1>13 DEF Ends
  <2> QED  BY <2>1, <2>2
<1>14. CASE multiline
  <2> DEFINE Stops == {k \in j..N : k = N \/ ~groups[i][k + 1]}
  <2>1. \E k \in Stops : \A l \in Stops : k <= l
    <3>1. Stops \subseteq Nat
      BY <1>11
    <3>2. N \in Stops
      <4> HIDE DEF N
      <4> QED  BY <1>8, <1>11
    <3> HIDE DEF Stops
    <3> QED  BY <3>1, <3>2, LeastElement, Zenon
  <2>2. PICK k \in Stops : \A l \in Stops : k <= l
    BY <2>1
  <2>3. k \in j..N /\ (k = N \/ ~groups[i][k + 1])
    OBVIOUS
  <2>4. \A l \in j..k : groups[i][l]
    <3> SUFFICES ASSUME NEW l \in j..k PROVE groups[i][l]
      OBVIOUS
    <3>1. CASE l = j
      BY <1>12, <3>1 DEF IsMatch
    <3>2. CASE l > j
      <4>1. l - 1 \in j..N /\ ~(k <= l - 1) /\ l - 1 # N /\ (l - 1) + 1 = l
        <5> HIDE DEF N
        <5> QED  BY <1>8, <1>11, <2>3, <3>2
      <4>2. l - 1 \notin Stops
        BY <2>2, <4>1
      <4>3. groups[i][(l - 1) + 1]
        BY <4>1, <4>2
      <4> QED  BY <4>1, <4>3
    <3> QED  BY <1>11, <3>1, <3>2
  <2> DEFINE P == {n \in 0..k - j : S(i, j + n) = cap}
  <2>5. k - j \in Nat /\ 0 \in 0..k - j
    BY <1>11, <2>3
  <2>6. 0 \in P
    <3>1. j + 0 = j
      BY <1>11
    <3> QED  BY <1>12, <2>5, <3>1
  <2>7. ASSUME NEW n \in 1..k - j, n - 1 \in P PROVE n \in P
    <3>1. /\ j + n \in 1..N /\ j + n > 1 /\ (j + n) - 1 = j + (n - 1) /\ j + (n - 1) \in j..k /\ n \in 0..k - j
      <4> HIDE DEF N
      <4> QED  BY <1>8, <1>11, <2>3, <2>7
    <3>2. groups[i][(j + n) - 1]
      BY <2>4, <3>1
    <3>3. ~IsMatch(groups, multiline, i, j + n)
      BY <1>14, <3>1, <3>2 DEF IsMatch
    <3>4. S(i, j + n) = S(i, (j + n) - 1) + 0
      BY <1>6, <3>1, <3>3, SeenLine
    <3>5. S(i, j + (n - 1)) = cap
      BY <2>7
    <3>6. S(i, j + n) = cap
      <4> HIDE DEF S
      <4> QED  BY <3>1, <3>4, <3>5
    <3> QED  BY <3>1, <3>6
  <2>8. \A n \in 0..k - j : n \in P
    <3> DEFINE d == k - j
    <3> HIDE DEF P, d
    <3> QED  BY <2>5, <2>6, <2>7, Upwards DEF d
  <2>9. S(i, k) = cap
    <3>1. k - j \in P /\ j + (k - j) = k
      BY <1>11, <2>3, <2>5, <2>8
    <3> QED  BY <3>1
  <2>10. k \in 1..N /\ i \in DOMAIN groups /\ k \in DOMAIN groups[i]
    <3>1. k \in 1..N
      <4> HIDE DEF N
      <4> QED  BY <1>8, <1>11, <2>3
    <3> QED  BY <1>6, <3>1, GroupsType
  <2>11. Ends(groups, cap, multiline, i, k)
    BY <2>3, <2>9, <2>10 DEF Ends
  <2> QED  BY <2>10, <2>11
<1> QED  BY <1>13, <1>14

\* What truncateGroups keeps has as many matches as the cap.
LEMMA CutHasTheCap ==
  ASSUME NEW groups \in Groups, NEW multiline \in BOOLEAN, NEW cap \in Nat \ {0}, NEW after \in Nat,
         MatchesIn(groups, multiline) > cap
  PROVE  MatchesIn(TruncateGroups(groups, cap, after, multiline), multiline) = cap
PROOF
<1> DEFINE Cuts == {k \in DOMAIN groups : \E j \in DOMAIN groups[k] : Ends(groups, cap, multiline, k, j)}
           i == Min(Cuts)
           Js == {k \in DOMAIN groups[i] : Ends(groups, cap, multiline, i, k)}
           j == Min(Js)
           e == Min({j + after, Len(groups[i])})
           lines == [k \in 1..e |-> groups[i][k] /\ k <= j]
           start == SubSeq(groups, 1, i - 1)
           cut == Append(start, lines)
<1>1. TruncateGroups(groups, cap, after, multiline) = cut
  BY DEF TruncateGroups
<1>2. i \in Cuts
  <2>1. Cuts # {}
    BY SomethingEnds
  <2>2. Cuts \subseteq Nat
    BY GroupsType
  <2> HIDE DEF Cuts
  <2> QED  BY <2>1, <2>2, MinIsLeast
<1>3. i \in 1..Len(groups) /\ Len(groups) \in Nat /\ Len(groups[i]) \in Nat /\ DOMAIN groups[i] = 1..Len(groups[i])
  <2>1. i \in DOMAIN groups
    BY <1>2
  <2> HIDE DEF i
  <2> QED  BY <2>1, GroupsType
<1>4. j \in Js
  <2>1. Js # {}
    BY <1>2
  <2>2. Js \subseteq Nat
    <3> HIDE DEF i
    <3> QED  BY <1>3
  <2> HIDE DEF Js, i
  <2> QED  BY <2>1, <2>2, MinIsLeast
<1>5. j \in 1..Len(groups[i]) /\ Seen(groups, multiline, i, j) = cap
  <2> HIDE DEF i, j
  <2> QED  BY <1>3, <1>4 DEF Ends
<1> HIDE DEF Cuts, Js, i, j
<1>6. e \in j..Len(groups[i])
  <2>1. {j + after, Len(groups[i])} \subseteq Nat /\ {j + after, Len(groups[i])} # {}
    BY <1>3, <1>5
  <2>2. e \in {j + after, Len(groups[i])} /\ \A x \in {j + after, Len(groups[i])} : e <= x
    BY <2>1, MinIsLeast
  <2> HIDE DEF e
  <2> QED  BY <1>3, <1>5, <2>2
<1> HIDE DEF e
<1>7. /\ lines \in Seq(BOOLEAN) /\ Len(lines) = e
      /\ \A k \in 1..e : lines[k] <=> (groups[i][k] /\ k <= j)
  <2>1. e \in Nat
    BY <1>3, <1>5, <1>6
  <2>2. \A k \in 1..e : lines[k] <=> (groups[i][k] /\ k <= j)
    OBVIOUS
  <2>3. lines \in [1..e -> BOOLEAN]
    OBVIOUS
  <2> HIDE DEF lines
  <2>4. lines \in Seq(BOOLEAN) /\ Len(lines) = e
    BY <2>1, <2>3
  <2> QED  BY <2>2, <2>4
<1> HIDE DEF lines
<1>8. /\ cut \in Groups /\ Len(cut) = i /\ cut[i] = lines
      /\ \A k \in 1..i - 1 : cut[k] = groups[k]
  <2>1. start \in Groups /\ Len(start) = i - 1 /\ \A k \in 1..i - 1 : start[k] = groups[k]
    BY <1>3 DEF Groups
  <2> HIDE DEF start
  <2>2. i \in Nat /\ Len(start) + 1 = i
    BY <1>3, <2>1
  <2> QED  BY <1>7, <2>1, <2>2 DEF Groups
<1> HIDE DEF start, cut
<1>9. \A k, l : IsMatch(cut, multiline, k, l) <=> IsMatch(groups, multiline, k, l) /\ (k < i \/ (k = i /\ l <= j))
  <2> SUFFICES ASSUME NEW k, NEW l
               PROVE  IsMatch(cut, multiline, k, l) <=> IsMatch(groups, multiline, k, l) /\ (k < i \/ (k = i /\ l <= j))
    OBVIOUS
  <2>1. CASE k \in 1..i - 1
    <3>1. k \in 1..Len(cut) /\ k \in 1..Len(groups) /\ k < i /\ cut[k] = groups[k]
      BY <1>3, <1>8, <2>1
    <3> QED  BY <3>1 DEF IsMatch
  <2>2. CASE k = i /\ l \in 1..e
    <3>1. k \in 1..Len(cut) /\ k \in 1..Len(groups) /\ cut[k] = lines /\ l \in 1..Len(lines) /\ l \in 1..Len(groups[i]) /\ ~(k < i)
      BY <1>3, <1>5, <1>6, <1>7, <1>8, <2>2
    <3>2. l > 1 => l - 1 \in 1..e
      BY <1>3, <1>5, <1>6, <2>2
    <3>3. CASE l <= j
      <4>1. lines[l] <=> groups[i][l]
        BY <1>7, <2>2, <3>3
      <4>2. l > 1 => (lines[l - 1] <=> groups[i][l - 1])
        <5>1. l - 1 <= j
          BY <1>3, <1>5, <1>6, <2>2, <3>3
        <5> QED  BY <1>7, <3>2, <5>1
      <4> QED  BY <2>2, <3>1, <3>3, <4>1, <4>2 DEF IsMatch
    <3>4. CASE ~(l <= j)
      <4>1. ~lines[l]
        BY <1>7, <2>2, <3>4
      <4> QED  BY <2>2, <3>1, <3>4, <4>1 DEF IsMatch
    <3> QED  BY <3>3, <3>4
  <2>3. CASE k = i /\ l \notin 1..e
    <3>1. ~IsMatch(cut, multiline, k, l)
      BY <1>7, <1>8, <2>3 DEF IsMatch
    <3>2. l \in 1..Len(groups[i]) => ~(l <= j)
      BY <1>3, <1>5, <1>6, <2>3
    <3>3. ~(k < i)
      BY <1>3, <2>3
    <3> QED  BY <2>3, <3>1, <3>2, <3>3 DEF IsMatch
  <2>4. CASE k \notin 1..i
    <3>1. k \in 1..Len(groups) => ~(k < i \/ k = i)
      BY <1>3, <2>4
    <3> QED  BY <1>8, <2>4, <3>1 DEF IsMatch
  <2>5. k \in 1..i => k \in 1..i - 1 \/ k = i
    BY <1>3
  <2> QED  BY <2>1, <2>2, <2>3, <2>4, <2>5
<1>10. Matches(cut, multiline) = SeenSet(groups, multiline, i, j)
  <2>1. ASSUME NEW m \in Matches(cut, multiline) PROVE m \in SeenSet(groups, multiline, i, j)
    <3>1. m = <<m[1], m[2]>> /\ IsMatch(cut, multiline, m[1], m[2])
      BY <1>8, MatchesAre
    <3>2. IsMatch(groups, multiline, m[1], m[2]) /\ (m[1] < i \/ (m[1] = i /\ m[2] <= j))
      BY <1>9, <3>1
    <3>3. <<m[1], m[2]>> \in Matches(groups, multiline)
      BY <3>2, MatchesAre
    <3> QED  BY <3>1, <3>2, <3>3 DEF SeenSet
  <2>2. ASSUME NEW m \in SeenSet(groups, multiline, i, j) PROVE m \in Matches(cut, multiline)
    <3>1. m \in Matches(groups, multiline) /\ (m[1] < i \/ (m[1] = i /\ m[2] <= j))
      BY DEF SeenSet
    <3>2. m = <<m[1], m[2]>> /\ IsMatch(groups, multiline, m[1], m[2])
      BY <3>1, MatchesAre
    <3>3. IsMatch(cut, multiline, m[1], m[2])
      BY <1>9, <3>1, <3>2
    <3>4. <<m[1], m[2]>> \in Matches(cut, multiline)
      BY <1>8, <3>3, MatchesAre
    <3> QED  BY <3>2, <3>4
  <2> QED  BY <2>1, <2>2
<1>11. MatchesIn(cut, multiline) = cap
  BY <1>5, <1>10, SeenCounts DEF MatchesIn
<1> QED  BY <1>1, <1>11

LEMMA MergeGrepKeepsInv ==
  ASSUME WsInv, MergeGrep
  PROVE  WsInv'
PROOF
<1>1. search.op = "grep" /\ search \in Searches
  BY DEF MergeGrep, Merges, Runs, WsInv, SearchInv
<1>2. search.cap \in Nat \ {0} /\ search.after \in Nat /\ search.multiline \in BOOLEAN
  BY <1>1, SearchesAssumption DEF SearchesWellFormed
<1>3. PICK all : all = AllGroups
  OBVIOUS
<1>4. all \in Groups
  BY <1>3, AllGroupsType DEF WsInv, SearchInv
<1>5. PICK total : total = MatchesIn(all, search.multiline)
  OBVIOUS
<1>6. total \in Nat
  BY <1>2, <1>4, <1>5, MatchesAreFinite, FS_CardinalityType DEF MatchesIn
<1>7. PICK reasons : reasons = {IF walk[i].state = "failed" THEN "list_failed" ELSE walk[i].reason : i \in DOMAIN walk}
  OBVIOUS
<1>8. PICK r : r = IF \E i \in DOMAIN walk : walk[i].state = "refused" THEN Rejected
                   ELSE IF total > search.cap
                   THEN [op |-> "grep", matches |-> search.cap, reason |-> StoppedReason(reasons \cup {"max_results"}),
                         groups |-> TruncateGroups(all, search.cap, search.after, search.multiline)]
                   ELSE [op |-> "grep", matches |-> total, reason |-> StoppedReason(reasons), groups |-> all]
  OBVIOUS
<1>9. Merges(r)
  BY <1>3, <1>5, <1>7, <1>8 DEF MergeGrep
<1>10. r.op \in {"rejected", "grep"}
  BY <1>8 DEF Rejected
<1>11. /\ MountsInv' /\ KeysInv' /\ changes' \in Nat /\ SearchInv'
       /\ found' = r /\ search' = search /\ walk' = walk /\ \A i \in DOMAIN walk : walk[i].state # "asking"
  BY <1>1, <1>9, <1>10, MergeKeepsRest
<1>12. AllGroups' = all
  BY <1>3, <1>11, MergedNames
<1>13. \A R : StoppedReason(R) = "completed" => R \cap {"list_failed", "incomplete", "deadline", "max_results"} = {}
  <2> SUFFICES ASSUME NEW R, StoppedReason(R) = "completed"
               PROVE  R \cap {"list_failed", "incomplete", "deadline", "max_results"} = {}
    OBVIOUS
  <2> DEFINE worst == {k \in DOMAIN Priority : Priority[k] \in R}
  <2>1. /\ DOMAIN Priority = 1..4 /\ Priority[1] = "list_failed" /\ Priority[2] = "incomplete"
        /\ Priority[3] = "deadline" /\ Priority[4] = "max_results"
    BY DEF Priority
  <2>2. worst = {}
    <3> SUFFICES ASSUME worst # {} PROVE FALSE
      OBVIOUS
    <3>1. Min(worst) \in worst
      <4>1. worst \subseteq Nat
        BY <2>1
      <4> HIDE DEF worst
      <4> QED  BY <4>1, MinIsLeast
    <3>2. Min(worst) \in 1..4
      BY <2>1, <3>1
    <3>3. Priority[Min(worst)] = "completed"
      BY DEF StoppedReason
    <3> HIDE DEF worst
    <3> QED  BY <2>1, <3>2, <3>3
  <2> QED  BY <2>1, <2>2
<1>14. ASSUME r.op = "grep"
       PROVE  /\ MatchesIn(r.groups, search.multiline) = r.matches
              /\ r.reason = "completed" =>
                   /\ \A i \in DOMAIN walk : walk[i].reason = "completed"
                   /\ r.matches = total
  <2>1. ~\E i \in DOMAIN walk : walk[i].state = "refused"
    BY <1>8, <1>14 DEF Rejected
  <2>2. CASE total > search.cap
    <3>1. /\ r.matches = search.cap /\ r.reason = StoppedReason(reasons \cup {"max_results"})
          /\ r.groups = TruncateGroups(all, search.cap, search.after, search.multiline)
      BY <1>8, <2>1, <2>2
    <3>2. MatchesIn(r.groups, search.multiline) = r.matches
      <4>1. PICK cap \in Nat \ {0}, after \in Nat : cap = search.cap /\ after = search.after
        BY <1>2
      <4>2. PICK ml \in BOOLEAN : ml = search.multiline
        BY <1>2
      <4>3. MatchesIn(TruncateGroups(all, cap, after, ml), ml) = cap
        BY <1>4, <1>5, <2>2, <4>1, <4>2, CutHasTheCap
      <4> QED  BY <3>1, <4>1, <4>2, <4>3
    <3>3. r.reason # "completed"
      BY <1>13, <3>1
    <3> QED  BY <3>2, <3>3
  <2>3. CASE ~(total > search.cap)
    <3>1. r.matches = total /\ r.reason = StoppedReason(reasons) /\ r.groups = all
      BY <1>8, <2>1, <2>3
    <3>2. ASSUME r.reason = "completed", NEW i \in DOMAIN walk PROVE walk[i].reason = "completed"
      <4>1. PICK w \in WalkSet : w = walk[i] /\ FitsTheSearch(w, search.op)
        BY DEF WsInv, SearchInv, WalkInv
      <4>2. w.state \in {"done", "failed"}
        BY <1>11, <2>1, <4>1 DEF WalkSet
      <4>3. reasons \cap {"list_failed", "incomplete", "deadline", "max_results"} = {}
        BY <1>13, <3>1, <3>2
      <4>4. (IF w.state = "failed" THEN "list_failed" ELSE w.reason) \in reasons
        BY <1>7, <4>1
      <4>5. w.state # "failed"
        BY <4>3, <4>4
      <4>6. w.reason \in StopReasons
        BY <1>1, <4>1, <4>2, <4>5 DEF FitsTheSearch
      <4> QED  BY <4>1, <4>3, <4>4, <4>5, <4>6 DEF StopReasons
    <3> QED  BY <1>5, <3>1, <3>2
  <2> QED  BY <2>2, <2>3
<1>15. GrepIsHonest'
  <2>1. found'.op = "grep" => /\ MatchesIn(found'.groups, search'.multiline) = found'.matches
                              /\ found'.reason = "completed" =>
                                   /\ \A i \in DOMAIN walk' : walk'[i].reason = "completed"
                                   /\ found'.matches = MatchesIn(AllGroups', search'.multiline)
    BY <1>5, <1>11, <1>12, <1>14
  <2> QED  BY <2>1 DEF GrepIsHonest
<1>16. FoundInv'
  BY <1>1, <1>10, <1>11, <1>15 DEF FoundInv
<1> QED  BY <1>11, <1>16 DEF WsInv

-----------------------------------------------------------------------------
(* What is promised follows from the invariant. *)

LEMMA InitHasInv == WsInit => WsInv
PROOF
<1> SUFFICES ASSUME WsInit PROVE WsInv
  OBVIOUS
<1>1. MountsInv
  BY WorkspaceAssumption DEF WellFormed, WsInit, MountsInv
<1>2. KeysInv
  BY WorkspaceAssumption DEF WellFormed, WsInit, KeysInv, DiskKeys
<1>3. SearchInv
  BY DEF WsInit, SearchInv, NoSearch
<1>4. FoundInv
  BY DEF WsInit, FoundInv, GrepIsHonest, NoSearch
<1> QED  BY <1>1, <1>2, <1>3, <1>4 DEF WsInv, WsInit

LEMMA NextKeepsInv == WsInv /\ [WsNext]_wsVars => WsInv'
PROOF
<1> SUFFICES ASSUME WsInv, [WsNext]_wsVars PROVE WsInv'
  OBVIOUS
<1>1. CASE UNCHANGED wsVars
  <2>1. /\ UNCHANGED <<search, walk, found>> /\ UNCHANGED <<held, always, ever>> /\ mounts' = mounts /\ changes' = changes
        /\ \A d \in Disks : always'[d] \subseteq always[d] /\ ever[d] \subseteq ever'[d]
    BY <1>1 DEF wsVars
  <2>2. MountsInv' /\ KeysInv' /\ SearchInv' /\ FoundInv'
    BY <2>1, MountsKept, KeysKept, WalksKept, FoundKept DEF WsInv
  <2> QED  BY <2>1, <2>2 DEF WsInv
<1>2. CASE \E m \in NewMounts : AddDisk(m)
  BY <1>2, AddDiskKeepsInv
<1>3. CASE \E n \in Names : RemoveDisk(n)
  BY <1>3, RemoveDiskKeepsInv
<1>4. CASE \E path \in Objects : PutObject(path) \/ DeleteObject(path)
  BY <1>4, PutObjectKeepsInv, DeleteObjectKeepsInv
<1>5. CASE \E q \in Searches : Refuse(q) \/ ListRoot(q) \/ FanOut(q)
  BY <1>5, RefuseKeepsInv, ListRootKeepsInv, FanOutKeepsInv
<1>6. CASE \E i \in DOMAIN walk : ReadPage(i) \/ DiskFails(i) \/ GrepRefused(i)
  BY <1>6, ReadPageKeepsInv, DiskFailsKeepsInv, GrepRefusedKeepsInv
<1>7. CASE \E i \in DOMAIN walk, groups \in GrepAnswers, reason \in StopReasons : Grep(i, groups, reason)
  BY <1>7, GrepKeepsInv
<1>8. CASE MergeListing \/ EndDiskListing \/ MergeGlob \/ MergeGrep
  BY <1>8, MergeListingKeepsInv, EndDiskListingKeepsInv, MergeGlobKeepsInv, MergeGrepKeepsInv
<1> QED  BY <1>1, <1>2, <1>3, <1>4, <1>5, <1>6, <1>7, <1>8 DEF WsNext

LEMMA InvIsTyped == WsInv => WsTypeOK
PROOF
<1> SUFFICES ASSUME WsInv PROVE WsTypeOK
  OBVIOUS
<1>1. \A i \in DOMAIN walk : walk[i].state \in {"asking", "done", "failed", "refused"}
  <2> TAKE i \in DOMAIN walk
  <2>1. PICK w \in WalkSet : w = walk[i]
    BY DEF WsInv, SearchInv
  <2> QED  BY <2>1 DEF WalkSet
<1> QED  BY <1>1 DEF WsInv, WsTypeOK, MountsInv, KeysInv, FoundInv

\* The names a listing has for the keys and directories of a walk.
LEMMA NamesOfAWalk ==
  ASSUME WsInv, NEW i \in Done, NEW w, w = walk[i]
  PROVE  /\ \A k \in w.objects : Abs(w.mount, KeyOrder[k]) \in Keys
         /\ \A d \in w.dirs : Abs(w.mount, d) \in DirKeys
BY DEF Keys, DirKeys, KeysOf

LEMMA InvAccounts ==
  ASSUME WsInv, Listed, NEW i \in DOMAIN walk, ~found.truncated, ~walk[i].stuck,
         NEW key \in always[walk[i].mount.disk], Below(walk[i].rel, key)
  PROVE  Accounts(walk[i].mount, key)
PROOF
<1>1. PICK w \in WalkSet : w = walk[i] /\ WalkInv(w, search.op, always, ever)
  BY DEF WsInv, SearchInv
<1>2. w.mount \in MountSet /\ w.mount.disk \in Disks /\ w.mount.sub \in Seq(Plain) /\ w.rel \in Seq(Plain) /\ w.dirs \subseteq Seq(Plain)
  BY DEF WalkSet, MountSet
<1>3. PICK k \in Places : KeyOrder[k] = key
  <2>1. key \in DiskKeys
    BY <1>1, <1>2 DEF WsInv, KeysInv
  <2> QED  BY <2>1, WorkspaceAssumption DEF DiskKeys, ToSet, WellFormed, Places
<1>4. key \in Seq(Plain)
  BY <1>3, KeyOrderType
<1>5. found.op \in {"list", "disk", "glob"} /\ search.op = found.op /\ w.state # "asking" /\ walk # <<>>
  BY <1>1 DEF Listed, WsInv, FoundInv
<1>6. w.state # "refused"
  BY <1>1, <1>5 DEF WalkInv, FitsTheSearch
<1>7. found.op \in {"list", "glob"} => w.state = "done" /\ ~w.cut
  <2> SUFFICES ASSUME found.op \in {"list", "glob"} PROVE ~ListingTruncated
    BY <1>1, <1>5, <1>6 DEF ListingTruncated, WalkSet
  <2> QED  BY <1>5 DEF WsInv, FoundInv
<1>8. found.op = "disk" => w.state = "done" /\ ~w.cut /\ i = 1
  <2> SUFFICES ASSUME found.op = "disk" PROVE w.state = "done" /\ ~w.cut /\ i = 1
    OBVIOUS
  <2>1. Len(walk) = 1 /\ Done # {} /\ found.truncated = walk[1].cut /\ DOMAIN walk = 1..Len(walk)
    <3>1. walk \in Seq(WalkSet) /\ FoundInv
      BY DEF WsInv, SearchInv
    <3>2. DOMAIN walk = 1..Len(walk)
      BY <3>1
    <3> QED  BY <3>1, <3>2 DEF FoundInv
  <2>2. i = 1 /\ 1 \in Done
    BY <2>1 DEF Done
  <2> QED  BY <1>1, <2>1, <2>2 DEF Done
<1>9. i \in Done /\ ~w.cut /\ w.state = "done" /\ ~w.stuck
  BY <1>1, <1>5, <1>7, <1>8 DEF Done
<1>10. k \in w.objects \/ \E d \in w.dirs : IsPrefix(d, key)
  BY <1>1, <1>3, <1>5, <1>9 DEF WalkInv, MissesNothing
<1>11. IsPrefix(w.mount.sub, w.rel) /\ \A d \in w.dirs : IsPrefix(w.rel, d)
  BY <1>1 DEF WalkInv, TakesWhatIsThere
<1>12. ASSUME NEW d \in w.dirs, IsPrefix(d, key) PROVE IsPrefix(Abs(w.mount, d), Abs(w.mount, key))
  <2>1. d \in Seq(Plain) /\ IsPrefix(w.mount.sub, d)
    BY <1>2, <1>11, PrefixTransitive
  <2> QED  BY <1>2, <1>4, <1>12, <2>1, AbsKeepsPrefixes
<1>13. /\ k \in w.objects => Abs(w.mount, key) \in Keys
       /\ \A d \in w.dirs : Abs(w.mount, d) \in DirKeys
  BY <1>1, <1>3, <1>9, NamesOfAWalk
<1>14. CASE found.op = "disk"
  <2>1. found.objects = KeysOf(w) /\ found.dirs = w.dirs
    BY <1>1, <1>8, <1>14 DEF WsInv, FoundInv
  <2>2. key \in found.objects \/ \E d \in found.dirs : IsPrefix(d, key)
    BY <1>3, <1>10, <2>1 DEF KeysOf
  <2> QED  BY <1>14, <2>2 DEF Accounts
<1>15. CASE found.op = "list"
  <2>1. found.objects = Keys /\ found.dirs = DirKeys
    BY <1>5, <1>15 DEF WsInv, FoundInv
  <2>2. Abs(w.mount, key) \in found.objects \/ \E d \in found.dirs : IsPrefix(d, Abs(w.mount, key))
    BY <1>10, <1>12, <1>13, <2>1
  <2> QED  BY <1>1, <1>15, <2>2 DEF Accounts
<1>16. CASE found.op = "glob"
  <2>1. w.dirs = {}
    BY <1>1, <1>5, <1>16 DEF WalkInv, FitsTheSearch
  <2>2. Abs(w.mount, key) \in Keys
    BY <1>10, <1>13, <2>1
  <2>3. Wanted(search, Abs(w.mount, key)) => Abs(w.mount, key) \in found.objects
    BY <1>16, <2>2 DEF WsInv, FoundInv
  <2> QED  BY <1>1, <1>16, <2>3 DEF Accounts
<1> QED  BY <1>5, <1>14, <1>15, <1>16

LEMMA InvIsComplete == WsInv => CompleteMeansAll
PROOF
<1> SUFFICES ASSUME WsInv PROVE CompleteMeansAll
  OBVIOUS
<1>1. ASSUME NEW i \in DOMAIN walk
      PROVE  walk[i].requests <= Len(KeyOrder) + 1 /\ KeysOf(walk[i]) \subseteq ever[walk[i].mount.disk]
  <2>1. PICK w \in WalkSet : w = walk[i] /\ WalkInv(w, search.op, always, ever)
    BY DEF WsInv, SearchInv
  <2>2. Cardinality(w.asked) \in Nat /\ Cardinality(w.asked) <= Len(KeyOrder) /\ w.requests \in Nat /\ Len(KeyOrder) \in Nat
    BY PlacesAreFinite, KeyOrderType DEF WalkSet
  <2>3. w.requests <= Cardinality(w.asked) + (IF w.state = "asking" THEN 0 ELSE 1)
    BY <2>1 DEF WalkInv, AsksOnce
  <2>4. w.requests <= Len(KeyOrder) + 1
    BY <2>2, <2>3
  <2>5. KeysOf(w) \subseteq ever[w.mount.disk]
    BY <2>1 DEF WalkInv, TakesWhatIsThere, KeysOf
  <2> QED  BY <2>1, <2>4, <2>5
<1> QED  BY <1>1, InvAccounts DEF CompleteMeansAll

LEMMA InvRoutes == WsInv => ListedKeysRoute
PROOF
<1> SUFFICES ASSUME WsInv, NEW i \in Done, walk[i].mount \in ToSet(mounts), NEW key \in KeysOf(walk[i])
             PROVE  Route(Abs(walk[i].mount, key)) = [disk |-> walk[i].mount.disk, key |-> key]
  BY DEF ListedKeysRoute
<1>1. PICK w \in WalkSet : w = walk[i] /\ WalkInv(w, search.op, always, ever)
  BY DEF WsInv, SearchInv, Done
<1>2. PICK k \in w.objects : key = KeyOrder[k]
  BY <1>1 DEF KeysOf
<1>3. key \in Seq(Plain) /\ Below(w.rel, key) /\ IsPrefix(w.mount.sub, w.rel)
  BY <1>1, <1>2, KeyOrderType DEF WalkInv, TakesWhatIsThere, WalkSet
<1>4. w.rel \in Seq(Plain) /\ w.mount.sub \in Seq(Plain)
  BY DEF WalkSet, MountSet
<1>5. IsPrefix(w.mount.sub, key)
  BY <1>3, <1>4, BelowIsLonger, PrefixTransitive
<1>6. PICK j \in DOMAIN mounts : mounts[j] = w.mount
  BY <1>1 DEF ToSet
<1>7. Route(Abs(mounts[j], key)) = [disk |-> mounts[j].disk, key |-> key]
  BY <1>3, <1>5, <1>6, RouteBack DEF WsInv
<1> QED  BY <1>1, <1>6, <1>7

\* In every run the disks, the mounts, the walks and what was returned are of
\* their kinds, the mounts have different names, and a disk holds what it has
\* held all the while (addDisk, removeDisk and the requests of workspace.ts).
THEOREM WorkspaceTypes == WsSpec => []WsTypeOK
PROOF
<1>1. WsSpec => []WsInv
  BY InitHasInv, NextKeepsInv, PTL DEF WsSpec
<1> QED  BY <1>1, InvIsTyped, PTL

\* For any number of disks, keys, pages and searches, with writes and mount
\* changes between any two pages: a listing or glob that is not marked truncated has all
\* it owes, its keys lead back to their objects, and a completed grep lost no match
\* (listObjects, listObjectsPages, glob, grep and truncateGroups).
THEOREM AnswersStayHonest == WsSpec => []AnswersAreHonest
PROOF
<1>1. WsSpec => []WsInv
  BY InitHasInv, NextKeepsInv, PTL DEF WsSpec
<1>2. WsInv => AnswersAreHonest
  BY InvIsComplete, InvRoutes DEF AnswersAreHonest, WsInv, FoundInv
<1> QED  BY <1>1, <1>2, PTL

-----------------------------------------------------------------------------
(* Globs.  A glob is read off a path segment by segment, from any places at  *)
(* which it may start.                                                       *)

Globbing == Seq(Segments) \ {<<>>}
FilePaths == Seq(Plain)
Spots(path) == 0..Len(path)

Reads(segs, path, literal, starts) ==
  LET places[i \in 0..Len(segs)] == IF i = 0 THEN starts ELSE Step(segs, path, literal, places[i - 1], i)
  IN  Len(path) \in places[Len(segs)]

LEMMA StepType ==
  ASSUME NEW segs \in Globbing, NEW path \in FilePaths, NEW literal \in Nat, NEW places, NEW i
  PROVE  Step(segs, path, literal, places, i) \in SUBSET Spots(path)
BY DEF Step, Spots, FilePaths

\* The places of a reading.
IsReading(segs, path, literal, starts, d) ==
  /\ d[0] = starts
  /\ \A i \in 0..Len(segs) : d[i] \in SUBSET Spots(path)
  /\ \A i \in 1..Len(segs) : d[i] = Step(segs, path, literal, d[i - 1], i)
  /\ Reads(segs, path, literal, starts) <=> Len(path) \in d[Len(segs)]

LEMMA ReadsDef ==
  ASSUME NEW segs \in Globbing, NEW path \in FilePaths, NEW literal \in Nat, NEW starts \in SUBSET Spots(path)
  PROVE  \E d : IsReading(segs, path, literal, starts, d)
PROOF
<1> DEFINE N == Len(segs)
           A == SUBSET Spots(path)
           On(a, n) == Step(segs, path, literal, a, n)
           Body(d) == [n \in 0..N |-> IF n = 0 THEN starts ELSE On(d[n - 1], n)]
           step == [n \in 1..N |-> [a \in A |-> On(a, n)]]
<1>0. N \in Nat /\ starts \in A
  BY DEF Globbing
<1>1. \A n \in 1..N : \A a \in A : On(a, n) \in A
  BY StepType
<1>2. step \in Steps(N, A)
  <2> HIDE DEF N, A, On
  <2> QED  BY <1>1 DEF Steps
<1>3. HasRun(N, A, starts, step)
  <2> HIDE DEF step, N, A
  <2> QED  BY <1>0, <1>2, Recursion
<1>4. PICK f \in [0..N -> A] : f[0] = starts /\ \A n \in 1..N : f[n] = step[n][f[n - 1]]
  BY <1>3 DEF HasRun
<1>5. \A n \in 1..N : f[n] = On(f[n - 1], n)
  <2> SUFFICES ASSUME NEW n \in 1..N PROVE f[n] = On(f[n - 1], n)
    OBVIOUS
  <2>1. f[n - 1] \in A
    BY <1>0
  <2> HIDE DEF N, A, On
  <2> QED  BY <1>4, <2>1
<1>6. f = Body(f)
  <2> HIDE DEF N, A, step, On
  <2>1. f = [n \in 0..N |-> f[n]]
    BY <1>4
  <2>2. ASSUME NEW n \in 0..N PROVE f[n] = IF n = 0 THEN starts ELSE On(f[n - 1], n)
    <3>1. n = 0 \/ n \in 1..N
      BY <1>0
    <3> QED  BY <3>1, <1>4, <1>5
  <2> QED  BY <2>1, <2>2, Zenon
<1>7. PICK d : d = Body(d) /\ (Reads(segs, path, literal, starts) <=> Len(path) \in d[N])
  BY <1>6 DEF Reads
<1>8. d[0] = starts /\ \A n \in 1..N : d[n] = On(d[n - 1], n)
  <2> HIDE DEF On, N
  <2> QED  BY <1>0, <1>7
<1>9. \A n \in 0..N : d[n] \in A
  <2> SUFFICES ASSUME NEW n \in 0..N PROVE d[n] \in A
    OBVIOUS
  <2>1. n = 0 \/ n \in 1..N
    BY <1>0
  <2>2. n \in 1..N => d[n] \in A
    <3> SUFFICES ASSUME n \in 1..N PROVE d[n] \in A
      OBVIOUS
    <3>1. d[n] = Step(segs, path, literal, d[n - 1], n)
      BY <1>8
    <3> HIDE DEF A, N
    <3> QED  BY <3>1, StepType DEF A
  <2> HIDE DEF A, N
  <2> QED  BY <1>0, <1>8, <2>1, <2>2
<1>10. \A n \in 1..N : d[n] = Step(segs, path, literal, d[n - 1], n)
  BY <1>8
<1> HIDE DEF Body
<1> QED  BY <1>7, <1>8, <1>9, <1>10 DEF IsReading

LEMMA FitsReads ==
  ASSUME NEW segs, NEW path, NEW literal
  PROVE  Fits(segs, path, literal) <=> Reads(segs, path, literal, {0})
BY DEF Fits, Reads

\* Without a place to start there is no reading, and with no path there is no
\* place to end.
LEMMA NoStart ==
  ASSUME NEW segs \in Globbing, NEW path \in FilePaths, NEW literal \in Nat
  PROVE  ~Reads(segs, path, literal, {})
PROOF
<1>1. PICK d : IsReading(segs, path, literal, {}, d)
  BY ReadsDef
<1> DEFINE N == Len(segs)
           P == {i \in 0..N : d[i] = {}}
<1>2. N \in Nat
  BY DEF Globbing
<1>3. 0 \in P /\ \A i \in 1..N : i - 1 \in P => i \in P
  <2>1. d[0] = {} /\ \A i \in 1..N : d[i] = Step(segs, path, literal, d[i - 1], i)
    BY <1>1 DEF IsReading
  <2>2. \A i : Step(segs, path, literal, {}, i) = {}
    BY DEF Step
  <2>3. ASSUME NEW i \in 1..N, i - 1 \in P PROVE i \in P
    <3>1. d[i - 1] = {} /\ i \in 0..N
      BY <2>3
    <3> QED  BY <2>1, <2>2, <3>1
  <2> QED  BY <1>2, <2>1, <2>3
<1>4. \A i \in 0..N : i \in P
  <2> HIDE DEF P, N
  <2> QED  BY <1>2, <1>3, Upwards
<1>5. d[N] = {}
  BY <1>2, <1>4
<1> QED  BY <1>1, <1>5 DEF IsReading

LEMMA NoPath ==
  ASSUME NEW segs \in Globbing, NEW starts \in SUBSET {0}
  PROVE  ~Reads(segs, <<>>, 0, starts)
PROOF
<1>0. <<>> \in FilePaths /\ Spots(<<>>) = {0} /\ Len(<<>>) = 0
  BY DEF FilePaths, Spots
<1>1. PICK d : IsReading(segs, <<>>, 0, starts, d)
  BY <1>0, ReadsDef
<1> DEFINE N == Len(segs)
<1>2. N \in Nat /\ N # 0
  BY DEF Globbing
<1>3. d[N] = Step(segs, <<>>, 0, d[N - 1], N) /\ d[N - 1] \in SUBSET {0}
  BY <1>0, <1>1, <1>2 DEF IsReading
<1>4. 0 \notin d[N]
  BY <1>0, <1>3 DEF Step
<1> QED  BY <1>0, <1>1, <1>4 DEF IsReading

LEMMA TwoStarts ==
  ASSUME NEW segs \in Globbing, NEW path \in FilePaths, NEW literal \in Nat,
         NEW S \in SUBSET Spots(path), NEW T \in SUBSET Spots(path)
  PROVE  Reads(segs, path, literal, S \cup T) <=> Reads(segs, path, literal, S) \/ Reads(segs, path, literal, T)
PROOF
<1>1. PICK a : IsReading(segs, path, literal, S, a)
  BY ReadsDef
<1>2. PICK b : IsReading(segs, path, literal, T, b)
  BY ReadsDef
<1>3. PICK c : IsReading(segs, path, literal, S \cup T, c)
  <2>1. S \cup T \in SUBSET Spots(path)
    OBVIOUS
  <2> QED  BY <2>1, ReadsDef
<1> DEFINE N == Len(segs)
           P == {i \in 0..N : c[i] = a[i] \cup b[i]}
<1>4. N \in Nat
  BY DEF Globbing
<1>5. \A X, Y, i : Step(segs, path, literal, X \cup Y, i) = Step(segs, path, literal, X, i) \cup Step(segs, path, literal, Y, i)
  BY DEF Step
<1>6. 0 \in P /\ \A i \in 1..N : i - 1 \in P => i \in P
  <2>1. c[0] = a[0] \cup b[0]
    BY <1>1, <1>2, <1>3 DEF IsReading
  <2>2. \A i \in 1..N : /\ a[i] = Step(segs, path, literal, a[i - 1], i)
                        /\ b[i] = Step(segs, path, literal, b[i - 1], i)
                        /\ c[i] = Step(segs, path, literal, c[i - 1], i)
    BY <1>1, <1>2, <1>3 DEF IsReading
  <2> HIDE DEF N
  <2> QED  BY <1>4, <1>5, <2>1, <2>2
<1>7. \A i \in 0..N : i \in P
  <2> HIDE DEF P, N
  <2> QED  BY <1>4, <1>6, Upwards
<1>8. c[N] = a[N] \cup b[N]
  BY <1>4, <1>7
<1> QED  BY <1>1, <1>2, <1>3, <1>8 DEF IsReading

\* A reading goes on with the rest of the glob from where its first segment
\* ends.
LEMMA FirstSegment ==
  ASSUME NEW segs \in Globbing, Len(segs) > 1, NEW path \in FilePaths, NEW literal \in Nat, NEW S \in SUBSET Spots(path)
  PROVE  /\ Tail(segs) \in Globbing
         /\ Reads(segs, path, literal, S) <=> Reads(Tail(segs), path, literal, Step(segs, path, literal, S, 1))
PROOF
<1>1. PICK rest : rest = Tail(segs)
  OBVIOUS
<1>2. /\ rest \in Globbing /\ Len(rest) = Len(segs) - 1 /\ Len(segs) \in Nat
      /\ \A i \in 1..Len(rest) : rest[i] = segs[i + 1]
  BY <1>1 DEF Globbing
<1>3. PICK T \in SUBSET Spots(path) : T = Step(segs, path, literal, S, 1)
  BY StepType
<1>4. PICK a : IsReading(segs, path, literal, S, a)
  BY ReadsDef
<1>5. PICK b : IsReading(rest, path, literal, T, b)
  BY <1>2, ReadsDef
<1> DEFINE N == Len(rest)
           P == {i \in 0..N : b[i] = a[i + 1]}
<1>6. \A X : \A i \in 1..N : Step(rest, path, literal, X, i) = Step(segs, path, literal, X, i + 1)
  <2> SUFFICES ASSUME NEW X, NEW i \in 1..N PROVE Step(rest, path, literal, X, i) = Step(segs, path, literal, X, i + 1)
    OBVIOUS
  <2>1. rest[i] = segs[i + 1] /\ (i = Len(rest) <=> i + 1 = Len(segs))
    BY <1>2
  <2> QED  BY <2>1 DEF Step
<1>7. 0 \in P /\ \A i \in 1..N : i - 1 \in P => i \in P
  <2>1. b[0] = a[1]
    <3>1. a[0] = S /\ b[0] = T /\ 1 \in 1..Len(segs)
      BY <1>2, <1>4, <1>5 DEF IsReading
    <3>2. a[1] = Step(segs, path, literal, a[1 - 1], 1)
      BY <1>4, <3>1 DEF IsReading
    <3> QED  BY <1>3, <3>1, <3>2
  <2>2. \A i \in 1..N : b[i] = Step(rest, path, literal, b[i - 1], i)
    BY <1>5 DEF IsReading
  <2>3. \A i \in 1..N : a[i + 1] = Step(segs, path, literal, a[i], i + 1)
    <3> SUFFICES ASSUME NEW i \in 1..N PROVE a[i + 1] = Step(segs, path, literal, a[i], i + 1)
      OBVIOUS
    <3>1. i + 1 \in 1..Len(segs) /\ (i + 1) - 1 = i
      BY <1>2
    <3>2. a[i + 1] = Step(segs, path, literal, a[(i + 1) - 1], i + 1)
      BY <1>4, <3>1 DEF IsReading
    <3> QED  BY <3>1, <3>2
  <2>4. N \in Nat
    BY <1>2
  <2>5. ASSUME NEW i \in 1..N, i - 1 \in P PROVE i \in P
    <3>1. b[i - 1] = a[(i - 1) + 1] /\ (i - 1) + 1 = i
      BY <2>5
    <3>2. b[i] = Step(segs, path, literal, a[i], i + 1)
      BY <1>6, <2>2, <3>1
    <3> QED  BY <2>3, <3>2
  <2> QED  BY <2>1, <2>4, <2>5
<1>8. \A i \in 0..N : i \in P
  <2>1. N \in Nat
    BY <1>2
  <2> HIDE DEF P, N
  <2> QED  BY <1>7, <2>1, Upwards
<1>9. b[N] = a[Len(segs)]
  <2>1. N \in 0..N /\ N + 1 = Len(segs)
    BY <1>2
  <2> QED  BY <1>8, <2>1
<1> QED  BY <1>1, <1>2, <1>3, <1>4, <1>5, <1>9 DEF IsReading

\* Reading on a disk is reading below the mount's name.
After1(S) == {p + 1 : p \in S}

LEMMA BelowTheMount ==
  ASSUME NEW segs \in Globbing, NEW n \in Plain, NEW path \in FilePaths, NEW S \in SUBSET Spots(path)
  PROVE  Reads(segs, <<n>> \o path, 1, After1(S)) <=> Reads(segs, path, 0, S)
PROOF
<1>1. PICK full : full = <<n>> \o path
  OBVIOUS
<1>2. /\ full \in FilePaths /\ Len(full) = Len(path) + 1 /\ Len(path) \in Nat
      /\ \A i \in 1..Len(path) : full[i + 1] = path[i]
  BY <1>1 DEF FilePaths
<1>3. \A X \in SUBSET Spots(path) : After1(X) \in SUBSET Spots(full)
  BY <1>2 DEF Spots, After1
<1>4. PICK a : IsReading(segs, full, 1, After1(S), a)
  BY <1>2, <1>3, ReadsDef
<1>5. PICK b : IsReading(segs, path, 0, S, b)
  BY ReadsDef
<1> DEFINE N == Len(segs)
           P == {i \in 0..N : a[i] = After1(b[i])}
<1>6. \A X \in SUBSET Spots(path), i \in 1..N : Step(segs, full, 1, After1(X), i) = After1(Step(segs, path, 0, X, i))
  <2> SUFFICES ASSUME NEW X \in SUBSET Spots(path), NEW i \in 1..N
               PROVE  Step(segs, full, 1, After1(X), i) = After1(Step(segs, path, 0, X, i))
    OBVIOUS
  <2>0. \A x \in X : x \in 0..Len(path)
    BY DEF Spots
  <2>1. CASE segs[i] = "**"
    <3>1. Step(segs, full, 1, After1(X), i) = {q \in 0..Len(full) : \E p \in After1(X) : p <= q /\ (i = Len(segs) => p < q /\ q > 1)}
      BY <2>1 DEF Step
    <3>2. Step(segs, path, 0, X, i) = {q \in 0..Len(path) : \E p \in X : p <= q /\ (i = Len(segs) => p < q /\ q > 0)}
      BY <2>1 DEF Step
    <3>3. ASSUME NEW q \in 0..Len(full), NEW p \in X, p + 1 <= q, i = Len(segs) => p + 1 < q /\ q > 1
          PROVE  q - 1 \in Step(segs, path, 0, X, i) /\ (q - 1) + 1 = q
      <4>1. p \in Nat /\ q \in Nat
        BY <1>2, <2>0
      <4>2. q - 1 \in 0..Len(path) /\ (q - 1) + 1 = q /\ p <= q - 1 /\ (i = Len(segs) => p < q - 1 /\ q - 1 > 0)
        BY <1>2, <3>3, <4>1
      <4> QED  BY <3>2, <4>2
    <3>4. ASSUME NEW q \in 0..Len(path), NEW p \in X, p <= q, i = Len(segs) => p < q /\ q > 0
          PROVE  q + 1 \in Step(segs, full, 1, After1(X), i)
      <4>1. p + 1 \in After1(X) /\ p + 1 <= q + 1 /\ q + 1 \in 0..Len(full) /\ (i = Len(segs) => p + 1 < q + 1 /\ q + 1 > 1)
        BY <1>2, <2>0, <3>4 DEF After1
      <4> QED  BY <3>1, <4>1
    <3>5. Step(segs, full, 1, After1(X), i) \subseteq After1(Step(segs, path, 0, X, i))
      BY <3>1, <3>3 DEF After1
    <3>6. After1(Step(segs, path, 0, X, i)) \subseteq Step(segs, full, 1, After1(X), i)
      BY <3>2, <3>4 DEF After1
    <3> QED  BY <3>5, <3>6
  <2>2. CASE segs[i] # "**"
    <3>1. Step(segs, full, 1, After1(X), i) =
            {q \in 1..Len(full) : q - 1 \in After1(X) /\ (segs[i] = full[q] \/ (segs[i] = "*" /\ q > 1))}
      BY <2>2 DEF Step
    <3>2. Step(segs, path, 0, X, i) = {q \in 1..Len(path) : q - 1 \in X /\ (segs[i] = path[q] \/ (segs[i] = "*" /\ q > 0))}
      BY <2>2 DEF Step
    <3>3. ASSUME NEW q \in Step(segs, full, 1, After1(X), i)
          PROVE  q - 1 \in Step(segs, path, 0, X, i) /\ (q - 1) + 1 = q
      <4>1. q \in 1..Len(full) /\ q - 1 \in After1(X) /\ (segs[i] = full[q] \/ (segs[i] = "*" /\ q > 1))
        BY <3>1
      <4>2. PICK x \in X : q - 1 = x + 1
        BY <4>1 DEF After1
      <4>3. q - 1 \in 1..Len(path) /\ (q - 1) - 1 = x /\ (q - 1) + 1 = q /\ q - 1 > 0
        BY <1>2, <2>0, <4>1, <4>2
      <4>4. full[(q - 1) + 1] = path[q - 1]
        BY <1>2, <4>3
      <4> QED  BY <3>2, <4>1, <4>2, <4>3, <4>4
    <3>4. ASSUME NEW q \in Step(segs, path, 0, X, i) PROVE q + 1 \in Step(segs, full, 1, After1(X), i)
      <4>1. q \in 1..Len(path) /\ q - 1 \in X /\ (segs[i] = path[q] \/ (segs[i] = "*" /\ q > 0))
        BY <3>2
      <4>2. (q - 1) + 1 \in After1(X) /\ (q - 1) + 1 = (q + 1) - 1
        BY <4>1 DEF After1
      <4>3. q + 1 \in 1..Len(full) /\ q + 1 > 1 /\ full[q + 1] = path[q]
        BY <1>2, <4>1
      <4> QED  BY <3>1, <4>1, <4>2, <4>3
    <3>5. Step(segs, full, 1, After1(X), i) \subseteq After1(Step(segs, path, 0, X, i))
      BY <3>3 DEF After1
    <3>6. After1(Step(segs, path, 0, X, i)) \subseteq Step(segs, full, 1, After1(X), i)
      BY <3>4 DEF After1
    <3> QED  BY <3>5, <3>6
  <2> QED  BY <2>1, <2>2
<1>7. N \in Nat
  BY DEF Globbing
<1>8. 0 \in P /\ \A i \in 1..N : i - 1 \in P => i \in P
  <2>1. a[0] = After1(b[0])
    BY <1>4, <1>5 DEF IsReading
  <2>2. \A i \in 1..N : a[i] = Step(segs, full, 1, a[i - 1], i) /\ b[i] = Step(segs, path, 0, b[i - 1], i)
    BY <1>4, <1>5 DEF IsReading
  <2>3. \A i \in 0..N : b[i] \in SUBSET Spots(path)
    BY <1>5 DEF IsReading
  <2>4. ASSUME NEW i \in 1..N, i - 1 \in P PROVE i \in P
    <3>1. i - 1 \in 0..N /\ a[i - 1] = After1(b[i - 1])
      BY <2>4
    <3>2. b[i - 1] \in SUBSET Spots(path)
      BY <2>3, <3>1
    <3>3. a[i] = After1(b[i])
      BY <1>6, <2>2, <3>1, <3>2
    <3> QED  BY <3>3
  <2> QED  BY <1>7, <2>1, <2>4
<1>9. \A i \in 0..N : i \in P
  <2> HIDE DEF P, N
  <2> QED  BY <1>7, <1>8, Upwards
<1>10. a[N] = After1(b[N]) /\ b[N] \in SUBSET Spots(path)
  BY <1>5, <1>7, <1>9 DEF IsReading
<1>11. Len(full) \in a[N] <=> Len(path) \in b[N]
  <2>1. \A x \in b[N] : x \in Nat
    BY <1>10 DEF Spots
  <2> HIDE DEF N
  <2> QED  BY <1>2, <1>10, <2>1 DEF After1
<1> QED  BY <1>1, <1>4, <1>5, <1>11 DEF IsReading

LEMMA LongerThanOne ==
  ASSUME NEW segs, Len(segs) > 1
  PROVE  Len(segs) # 1 /\ 1 # Len(segs)
PROOF
<1>1. \A k : k > 1 => k # 1
  <2>1. ~(1 > 1)
    OBVIOUS
  <2> QED  BY <2>1, Zenon
<1>2. Len(segs) # 1
  BY <1>1
<1> QED  BY <1>2

LEMMA OneSegment ==
  ASSUME NEW segs \in Globbing, Len(segs) = 1, NEW path \in FilePaths, NEW literal \in Nat, NEW S \in SUBSET Spots(path)
  PROVE  Reads(segs, path, literal, S) <=> Len(path) \in Step(segs, path, literal, S, 1)
PROOF
<1>1. PICK d : IsReading(segs, path, literal, S, d)
  BY ReadsDef
<1>2. d[0] = S /\ d[1] = Step(segs, path, literal, d[1 - 1], 1)
  <2>1. 1 \in 1..Len(segs)
    OBVIOUS
  <2> QED  BY <1>1, <2>1 DEF IsReading
<1>3. d[1] = Step(segs, path, literal, S, 1)
  BY <1>2
<1> QED  BY <1>1, <1>3 DEF IsReading

\* A glob that begins with a name begins in the mount of the name.
LEMMA NamesItsMount ==
  ASSUME NEW segs \in Globbing, segs[1] # "**", NEW n \in Plain \ Wild, NEW path \in FilePaths
  PROVE  Reads(segs, <<n>> \o path, 1, {0}) <=>
           segs[1] = n /\ (IF Len(segs) = 1 THEN path = <<>> ELSE Reads(Tail(segs), path, 0, {0}))
PROOF
<1>1. PICK full : full = <<n>> \o path
  OBVIOUS
<1>2. full \in FilePaths /\ Len(full) = Len(path) + 1 /\ Len(path) \in Nat /\ full[1] = n
  BY <1>1 DEF FilePaths
<1>3. {0} \in SUBSET Spots(full) /\ {0} \in SUBSET Spots(path) /\ Len(segs) \in Nat /\ Len(segs) # 0
  BY <1>2 DEF Spots, Globbing
<1>4. Step(segs, full, 1, {0}, 1) = IF segs[1] = n THEN {1} ELSE {}
  <2>1. Step(segs, full, 1, {0}, 1) = {q \in 1..Len(full) : q - 1 \in {0} /\ (segs[1] = full[q] \/ (segs[1] = "*" /\ q > 1))}
    BY DEF Step
  <2>2. \A q \in 1..Len(full) : q - 1 \in {0} <=> q = 1
    BY <1>2
  <2>3. 1 \in 1..Len(full)
    BY <1>2
  <2>4. \A q \in 1..Len(full) : q - 1 \in {0} /\ (segs[1] = full[q] \/ (segs[1] = "*" /\ q > 1)) <=> q = 1 /\ segs[1] = n
    BY <1>2, <2>2
  <2> QED  BY <2>1, <2>3, <2>4
<1>5. CASE Len(segs) = 1
  <2>1. Reads(segs, full, 1, {0}) <=> Len(full) \in Step(segs, full, 1, {0}, 1)
    BY <1>2, <1>3, <1>5, OneSegment
  <2>2. path = <<>> <=> Len(path) = 0
    BY DEF FilePaths
  <2>3. Reads(segs, full, 1, {0}) <=> segs[1] = n /\ path = <<>>
    BY <1>2, <1>4, <2>1, <2>2
  <2> QED  BY <1>1, <1>5, <2>3
<1>6. CASE Len(segs) > 1
  <2>1. Tail(segs) \in Globbing /\ (Reads(segs, full, 1, {0}) <=> Reads(Tail(segs), full, 1, Step(segs, full, 1, {0}, 1)))
    BY <1>2, <1>3, <1>6, FirstSegment
  <2>2. PICK rest \in Globbing : rest = Tail(segs)
    BY <2>1
  <2>3. After1({0}) = {1}
    BY DEF After1
  <2>4. Reads(rest, full, 1, {1}) <=> Reads(rest, path, 0, {0})
    BY <1>1, <1>3, <2>3, BelowTheMount
  <2>5. ~Reads(rest, full, 1, {})
    BY <1>2, NoStart
  <2>6. CASE segs[1] = n
    <3>1. Step(segs, full, 1, {0}, 1) = {1}
      BY <1>4, <2>6
    <3>2. Reads(segs, full, 1, {0}) <=> Reads(rest, full, 1, {1})
      BY <2>1, <2>2, <3>1
    <3>3. Len(segs) # 1
      BY <1>6, LongerThanOne
    <3>4. Reads(segs, full, 1, {0}) <=> Reads(Tail(segs), path, 0, {0})
      BY <2>2, <2>4, <3>2
    <3> QED  BY <1>1, <2>6, <3>3, <3>4
  <2>7. CASE segs[1] # n
    BY <1>1, <1>4, <1>6, <2>1, <2>2, <2>5, <2>7
  <2> QED  BY <2>6, <2>7
<1>7. Len(segs) = 1 \/ Len(segs) > 1
  BY <1>3
<1> QED  BY <1>5, <1>6, <1>7, Zenon

\* One that may begin anywhere begins at the root or inside the mount.
LEMMA BeginsAnywhere ==
  ASSUME NEW segs \in Globbing, segs[1] = "**", Len(segs) > 1, NEW n \in Plain, NEW path \in FilePaths
  PROVE  Reads(segs, <<n>> \o path, 1, {0}) <=> Reads(segs, path, 0, {0}) \/ Reads(Tail(segs), <<n>> \o path, 1, {0})
PROOF
<1>1. PICK full : full = <<n>> \o path
  OBVIOUS
<1>2. full \in FilePaths /\ Len(full) = Len(path) + 1 /\ Len(path) \in Nat
  BY <1>1 DEF FilePaths
<1>3. PICK here \in SUBSET Spots(path) : here = Spots(path)
  OBVIOUS
<1>4. {0} \in SUBSET Spots(full) /\ {0} \in SUBSET Spots(path) /\ After1(here) \in SUBSET Spots(full)
  BY <1>2, <1>3 DEF Spots, After1
<1>5. Step(segs, full, 1, {0}, 1) = {0} \cup After1(here)
  <2>1. Step(segs, full, 1, {0}, 1) = {q \in 0..Len(full) : \E p \in {0} : p <= q /\ (1 = Len(segs) => p < q /\ q > 1)}
    BY DEF Step
  <2>2. Step(segs, full, 1, {0}, 1) = 0..Len(full)
    <3>1. 1 # Len(segs)
      BY LongerThanOne
    <3>2. \A q \in 0..Len(full) : \E p \in {0} : p <= q /\ (1 = Len(segs) => p < q /\ q > 1)
      BY <1>2, <3>1
    <3> QED  BY <2>1, <3>2
  <2>3. \A q \in 1..Len(full) : q - 1 \in here /\ (q - 1) + 1 = q
    BY <1>2, <1>3 DEF Spots
  <2>4. \A q \in 1..Len(full) : q \in After1(here)
    BY <2>3 DEF After1
  <2>5. \A q \in 0..Len(full) : q = 0 \/ q \in 1..Len(full)
    BY <1>2
  <2>6. 0..Len(full) \subseteq {0} \cup After1(here)
    BY <2>4, <2>5
  <2>7. {0} \cup After1(here) \subseteq 0..Len(full)
    BY <1>4 DEF Spots
  <2> QED  BY <2>2, <2>6, <2>7
<1>6. Step(segs, path, 0, {0}, 1) = here
  <2>1. Step(segs, path, 0, {0}, 1) = {q \in 0..Len(path) : \E p \in {0} : p <= q /\ (1 = Len(segs) => p < q /\ q > 0)}
    BY DEF Step
  <2>2. 1 # Len(segs)
    BY LongerThanOne
  <2>3. \A q \in 0..Len(path) : \E p \in {0} : p <= q /\ (1 = Len(segs) => p < q /\ q > 0)
    BY <1>2, <2>2
  <2> QED  BY <1>3, <2>1, <2>3 DEF Spots
<1>7. PICK rest \in Globbing : rest = Tail(segs)
  BY <1>2, <1>4, FirstSegment
<1>8. Reads(segs, full, 1, {0}) <=> Reads(rest, full, 1, {0} \cup After1(here))
  <2>1. Reads(segs, full, 1, {0}) <=> Reads(Tail(segs), full, 1, Step(segs, full, 1, {0}, 1))
    BY <1>2, <1>4, FirstSegment
  <2> QED  BY <1>5, <1>7, <2>1
<1>9. Reads(segs, path, 0, {0}) <=> Reads(rest, path, 0, here)
  BY <1>4, <1>6, <1>7, FirstSegment
<1>10. Reads(rest, full, 1, {0} \cup After1(here)) <=> Reads(rest, full, 1, {0}) \/ Reads(rest, full, 1, After1(here))
  BY <1>2, <1>4, TwoStarts
<1>11. Reads(rest, full, 1, After1(here)) <=> Reads(rest, path, 0, here)
  BY <1>1, BelowTheMount
<1> QED  BY <1>1, <1>7, <1>8, <1>9, <1>10, <1>11

LEMMA StarsAlone ==
  ASSUME NEW segs \in Globbing, Len(segs) = 1, segs[1] = "**", NEW path \in FilePaths, NEW literal \in Nat
  PROVE  Reads(segs, path, literal, {0}) <=> Len(path) > literal
PROOF
<1>1. Len(path) \in Nat /\ {0} \in SUBSET Spots(path)
  BY DEF FilePaths, Spots
<1>2. Step(segs, path, literal, {0}, 1) = {q \in 0..Len(path) : \E p \in {0} : p <= q /\ (1 = Len(segs) => p < q /\ q > literal)}
  BY DEF Step
<1>3. Len(path) \in Step(segs, path, literal, {0}, 1) <=> Len(path) > literal
  BY <1>1, <1>2
<1> QED  BY <1>1, <1>3, OneSegment

LEMMA GlobIsLong ==
  ASSUME NEW segs \in Globbing
  PROVE  /\ Len(segs) \in Nat /\ Len(segs) # 0
         /\ Len(segs) = 1 \/ Len(segs) > 1
         /\ ~(Len(segs) = 1 /\ Len(segs) > 1)
         /\ Len(segs) > 1 => Tail(segs) \in Globbing /\ Tail(segs)[1] = segs[2]
PROOF
<1>1. Len(segs) \in Nat /\ Len(segs) # 0
  BY DEF Globbing
<1>2. \A k \in Nat : k # 0 => (k = 1 \/ k > 1) /\ ~(k = 1 /\ k > 1)
  OBVIOUS
<1>3. Len(segs) = 1 \/ Len(segs) > 1
  BY <1>1, <1>2, Zenon
<1>4. ~(Len(segs) = 1 /\ Len(segs) > 1)
  BY <1>1, <1>2, Zenon
<1>5. ASSUME Len(segs) > 1 PROVE Tail(segs) \in Globbing /\ Tail(segs)[1] = segs[2]
  <2>1. segs \in Seq(Segments) /\ Tail(segs) \in Seq(Segments) /\ Len(Tail(segs)) = Len(segs) - 1 /\ Len(segs) \in Nat
    BY <1>1 DEF Globbing
  <2>2. Len(Tail(segs)) # 0 /\ 1 \in 1..Len(Tail(segs))
    BY <1>5, <2>1
  <2>3. Tail(segs) # <<>>
    BY <2>2
  <2>4. Tail(segs)[1] = segs[2]
    BY <2>1, <2>2
  <2> QED  BY <2>1, <2>3, <2>4 DEF Globbing
<1> QED  BY <1>1, <1>3, <1>4, <1>5

\* What remains of a glob's match when the kind of the file is left aside.
Reaches(g, upto, literal) ==
  IF g.lead \/ Len(g.segs) > 1 THEN Reads(g.segs, upto, literal, {0})
  ELSE g.segs[1] = upto[Len(upto)] \/ (g.segs[1] \in Wild /\ Len(upto) > literal)

LEMMA HitsReaches ==
  ASSUME NEW g \in GlobSet, NEW path \in FilePaths, NEW literal \in Nat, NEW i \in 1..Len(path)
  PROVE  Hits(g, path, literal, i) <=> (g.dirOnly => i < Len(path)) /\ Reaches(g, SubSeq(path, 1, i), literal)
PROOF
<1>1. PICK upto : upto = SubSeq(path, 1, i)
  OBVIOUS
<1>2. Len(upto) = i /\ upto[i] = path[i]
  BY <1>1 DEF FilePaths
<1>3. CASE g.lead \/ Len(g.segs) > 1
  <2>1. Fits(g.segs, upto, literal) <=> Reads(g.segs, upto, literal, {0})
    BY FitsReads
  <2> QED  BY <1>1, <1>3, <2>1 DEF Hits, Reaches
<1>4. CASE ~(g.lead \/ Len(g.segs) > 1)
  BY <1>1, <1>2, <1>4 DEF Hits, Reaches
<1> QED  BY <1>3, <1>4

\* The assumption on the globs of the model.
PlainGlob(g) == g.segs[1] = "**" /\ Len(g.segs) > 1 => g.segs[2] # "**"

\* The four kinds of globs, and what rootGlobs reads them as.
IsSimple(g) == ~g.lead /\ Len(g.segs) = 1 /\ Everywhere(g) /\ PathOfGlob(g) = g.segs
IsRooted(g) == (g.lead \/ Len(g.segs) > 1) /\ g.segs[1] # "**" /\ ~Everywhere(g) /\ PathOfGlob(g) = g.segs
IsStars(g) == g.lead /\ Len(g.segs) = 1 /\ g.segs[1] = "**" /\ Everywhere(g) /\ PathOfGlob(g) = g.segs
IsFloating(g) ==
  /\ Len(g.segs) > 1 /\ g.segs[1] = "**" /\ Everywhere(g) /\ PathOfGlob(g) = Tail(g.segs)
  /\ PathOfGlob(g)[1] # "**"

LEMMA GlobKinds ==
  ASSUME NEW g \in GlobSet, PlainGlob(g)
  PROVE  /\ PathOfGlob(g) \in Globbing
         /\ IsSimple(g) \/ IsRooted(g) \/ IsStars(g) \/ IsFloating(g)
PROOF
<1>1. PICK segs \in Globbing : segs = g.segs
  BY DEF GlobSet, Globbing
<1>2. (Len(segs) = 1 \/ Len(segs) > 1) /\ ~(Len(segs) = 1 /\ Len(segs) > 1)
  BY GlobIsLong
<1>3. Len(segs) > 1 => Tail(segs) \in Globbing /\ Tail(segs)[1] = segs[2]
  BY GlobIsLong
<1>4. CASE Len(segs) = 1
  <2>1. PathOfGlob(g) = segs
    BY <1>1, <1>2, <1>4 DEF PathOfGlob
  <2> QED  BY <1>1, <1>2, <1>4, <2>1 DEF IsSimple, IsRooted, IsStars, Everywhere
<1>5. CASE Len(segs) > 1 /\ segs[1] # "**"
  <2>1. ~Everywhere(g) /\ PathOfGlob(g) = segs
    BY <1>1, <1>2, <1>5 DEF PathOfGlob, Everywhere
  <2> QED  BY <1>1, <1>5, <2>1 DEF IsRooted
<1>6. CASE Len(segs) > 1 /\ segs[1] = "**"
  <2>1. Everywhere(g) /\ PathOfGlob(g) = Tail(segs)
    BY <1>1, <1>6 DEF PathOfGlob, Everywhere
  <2>2. Tail(segs)[1] # "**"
    BY <1>1, <1>3, <1>6 DEF PlainGlob
  <2> QED  BY <1>1, <1>3, <1>6, <2>1, <2>2 DEF IsFloating
<1> QED  BY <1>2, <1>4, <1>5, <1>6

LEMMA OneName ==
  ASSUME NEW segs \in Globbing, NEW n
  PROVE  segs = <<n>> <=> Len(segs) = 1 /\ segs[1] = n
BY DEF Globbing

\* A name read against its own mount.
LEMMA NamesTheMount ==
  ASSUME NEW segs \in Globbing, segs[1] # "**", NEW n \in Plain \ Wild
  PROVE  Reads(segs, <<n>>, 1, {0}) <=> segs = <<n>>
PROOF
<1>1. <<>> \in FilePaths /\ <<n>> \o <<>> = <<n>>
  BY DEF FilePaths
<1>2. Reads(segs, <<n>>, 1, {0}) <=> segs[1] = n /\ (IF Len(segs) = 1 THEN <<>> = <<>> ELSE Reads(Tail(segs), <<>>, 0, {0}))
  BY <1>1, NamesItsMount
<1>3. Len(segs) # 1 => Tail(segs) \in Globbing
  BY GlobIsLong
<1>4. Len(segs) # 1 => ~Reads(Tail(segs), <<>>, 0, {0})
  <2> SUFFICES ASSUME Len(segs) # 1 PROVE ~Reads(Tail(segs), <<>>, 0, {0})
    OBVIOUS
  <2>1. Tail(segs) \in Globbing
    BY <1>3
  <2> QED  BY <2>1, NoPath
<1>5. Reads(segs, <<n>>, 1, {0}) <=> Len(segs) = 1 /\ segs[1] = n
  BY <1>2, <1>4
<1> QED  BY <1>5, OneName

\* A glob matches the mount itself when it says nothing but the name.
LEMMA ReachesMount ==
  ASSUME NEW g \in GlobSet, PlainGlob(g), NEW n \in Plain \ Wild
  PROVE  Reaches(g, <<n>>, 1) <=> PathOfGlob(g) = <<n>>
PROOF
<1>1. PICK segs \in Globbing : segs = g.segs
  BY DEF GlobSet, Globbing
<1>2. <<n>> \in FilePaths /\ Len(<<n>>) = 1 /\ <<n>>[1] = n /\ n # "**" /\ ~(1 > 1)
  BY DEF FilePaths, Wild
<1>3. CASE IsSimple(g)
  <2>1. Reaches(g, <<n>>, 1) <=> segs[1] = n
    BY <1>1, <1>2, <1>3 DEF Reaches, IsSimple
  <2> QED  BY <1>1, <1>3, <2>1, OneName DEF IsSimple
<1>4. CASE IsRooted(g)
  <2>1. Reaches(g, <<n>>, 1) <=> Reads(segs, <<n>>, 1, {0})
    BY <1>1, <1>4 DEF Reaches, IsRooted
  <2>2. Reads(segs, <<n>>, 1, {0}) <=> segs = <<n>>
    BY <1>1, <1>4, NamesTheMount DEF IsRooted
  <2> QED  BY <1>1, <1>4, <2>1, <2>2 DEF IsRooted
<1>5. CASE IsStars(g)
  <2>1. Reaches(g, <<n>>, 1) <=> Reads(segs, <<n>>, 1, {0})
    BY <1>1, <1>5 DEF Reaches, IsStars
  <2>2. ~Reads(segs, <<n>>, 1, {0})
    BY <1>1, <1>2, <1>5, StarsAlone DEF IsStars
  <2>3. segs # <<n>>
    BY <1>1, <1>2, <1>5, OneName DEF IsStars
  <2> QED  BY <1>1, <1>5, <2>1, <2>2, <2>3 DEF IsStars
<1>6. CASE IsFloating(g)
  <2>1. Reaches(g, <<n>>, 1) <=> Reads(segs, <<n>>, 1, {0})
    BY <1>1, <1>6 DEF Reaches, IsFloating
  <2>2. PICK rest \in Globbing : rest = Tail(segs)
    BY <1>1, <1>6, GlobKinds DEF IsFloating
  <2>3. <<>> \in FilePaths /\ <<n>> \o <<>> = <<n>>
    BY DEF FilePaths
  <2>4. Reads(segs, <<n>>, 1, {0}) <=> Reads(segs, <<>>, 0, {0}) \/ Reads(rest, <<n>>, 1, {0})
    <3>1. Reads(segs, <<n>> \o <<>>, 1, {0}) <=> Reads(segs, <<>>, 0, {0}) \/ Reads(Tail(segs), <<n>> \o <<>>, 1, {0})
      BY <1>1, <1>6, <2>3, BeginsAnywhere DEF IsFloating
    <3> QED  BY <2>2, <2>3, <3>1
  <2>5. ~Reads(segs, <<>>, 0, {0})
    BY NoPath
  <2>6. Reads(rest, <<n>>, 1, {0}) <=> rest = <<n>>
    BY <1>1, <1>6, <2>2, NamesTheMount DEF IsFloating
  <2> QED  BY <1>1, <1>6, <2>1, <2>2, <2>4, <2>5, <2>6 DEF IsFloating
<1> QED  BY <1>3, <1>4, <1>5, <1>6, GlobKinds

\* A glob whose path goes on below the name.
Leads(g, n) == PathOfGlob(g)[1] = n /\ Len(PathOfGlob(g)) > 1

LEMMA InsideType ==
  ASSUME NEW g \in GlobSet, PlainGlob(g), Len(PathOfGlob(g)) > 1
  PROVE  /\ Inside(g) \in GlobSet /\ Inside(g).neg = g.neg /\ Inside(g).dirOnly = g.dirOnly
         /\ \A upto : Reaches(Inside(g), upto, 0) <=> Reads(Tail(PathOfGlob(g)), upto, 0, {0})
PROOF
<1>1. PICK segs \in Globbing : segs = PathOfGlob(g)
  BY GlobKinds
<1>2. PICK rest \in Globbing : rest = Tail(segs)
  BY <1>1, GlobIsLong
<1>3. Len(rest) = 1 \/ Len(rest) > 1
  BY GlobIsLong
<1>4. PICK inside : inside = Inside(g)
  OBVIOUS
<1>5. inside = [neg |-> g.neg, lead |-> Len(rest) = 1, segs |-> rest, dirOnly |-> g.dirOnly]
  BY <1>1, <1>2, <1>4 DEF Inside, GlobPattern
<1>6. inside \in GlobSet
  <2>1. (Len(rest) = 1) \in BOOLEAN /\ g.neg \in BOOLEAN /\ g.dirOnly \in BOOLEAN
    BY DEF GlobSet
  <2> QED  BY <1>5, <2>1 DEF GlobSet, Globbing
<1>7. inside.segs = rest /\ (inside.lead \/ Len(inside.segs) > 1)
  BY <1>3, <1>5
<1>8. \A upto : Reaches(inside, upto, 0) <=> Reads(rest, upto, 0, {0})
  BY <1>7 DEF Reaches
<1>9. inside.neg = g.neg /\ inside.dirOnly = g.dirOnly
  BY <1>5
<1>10. \A upto : Reaches(Inside(g), upto, 0) <=> Reads(Tail(PathOfGlob(g)), upto, 0, {0})
  BY <1>1, <1>2, <1>4, <1>8
<1> QED  BY <1>4, <1>6, <1>9, <1>10

\* A name read against a path below some mount.
LEMMA NamesBelow ==
  ASSUME NEW segs \in Globbing, segs[1] # "**", NEW n \in Plain \ Wild, NEW path \in FilePaths, path # <<>>
  PROVE  Reads(segs, <<n>> \o path, 1, {0}) <=> segs[1] = n /\ Len(segs) > 1 /\ Reads(Tail(segs), path, 0, {0})
PROOF
<1>1. Reads(segs, <<n>> \o path, 1, {0}) <=> segs[1] = n /\ (IF Len(segs) = 1 THEN path = <<>> ELSE Reads(Tail(segs), path, 0, {0}))
  BY NamesItsMount
<1>2. Len(segs) # 1 <=> Len(segs) > 1
  BY GlobIsLong
<1> QED  BY <1>1, <1>2

\* Below a mount, a glob matches what it matches on the disk: as it stands
\* when it may begin anywhere, and without the name when it begins with it.
LEMMA ReachesInside ==
  ASSUME NEW g \in GlobSet, PlainGlob(g), NEW n \in Plain \ Wild, NEW path \in FilePaths, path # <<>>
  PROVE  Reaches(g, <<n>> \o path, 1) <=>
           (Everywhere(g) /\ Reaches(g, path, 0)) \/ (Leads(g, n) /\ Reaches(Inside(g), path, 0))
PROOF
<1>1. PICK segs \in Globbing : segs = g.segs
  BY DEF GlobSet, Globbing
<1>2. PICK full : full = <<n>> \o path
  OBVIOUS
<1>3. /\ full \in FilePaths /\ Len(full) = Len(path) + 1 /\ Len(path) \in Nat /\ Len(path) > 0
      /\ full[Len(full)] = path[Len(path)] /\ Len(full) > 1
  BY <1>2 DEF FilePaths
<1>4. PICK names \in Globbing : names = PathOfGlob(g)
  BY GlobKinds
<1>5. Leads(g, n) <=> names[1] = n /\ Len(names) > 1
  BY <1>4 DEF Leads
<1>6. Leads(g, n) => (Reaches(Inside(g), path, 0) <=> Reads(Tail(names), path, 0, {0}))
  BY <1>4, InsideType DEF Leads
<1>7. CASE IsSimple(g)
  <2>1. Everywhere(g) /\ ~Leads(g, n)
    <3>1. Len(names) = 1
      BY <1>4, <1>7 DEF IsSimple
    <3> QED  BY <1>5, <1>7, <3>1 DEF IsSimple
  <2>2. ~(g.lead \/ Len(segs) > 1)
    BY <1>1, <1>7 DEF IsSimple
  <2>3. Reaches(g, full, 1) <=> segs[1] = path[Len(path)] \/ (segs[1] \in Wild /\ Len(full) > 1)
    BY <1>1, <1>3, <2>2 DEF Reaches
  <2>4. Reaches(g, path, 0) <=> segs[1] = path[Len(path)] \/ (segs[1] \in Wild /\ Len(path) > 0)
    BY <1>1, <2>2 DEF Reaches
  <2> QED  BY <1>2, <1>3, <2>1, <2>3, <2>4
<1>8. CASE IsRooted(g)
  <2>1. Reaches(g, full, 1) <=> Reads(segs, full, 1, {0})
    BY <1>1, <1>8 DEF Reaches, IsRooted
  <2>2. names = segs /\ ~Everywhere(g) /\ segs[1] # "**"
    BY <1>1, <1>4, <1>8 DEF IsRooted
  <2>3. Reads(segs, full, 1, {0}) <=> segs[1] = n /\ Len(segs) > 1 /\ Reads(Tail(segs), path, 0, {0})
    BY <1>2, <2>2, NamesBelow
  <2> QED  BY <1>2, <1>5, <1>6, <2>1, <2>2, <2>3
<1>9. CASE IsStars(g)
  <2>1. Everywhere(g) /\ ~Leads(g, n)
    <3>1. Len(names) = 1
      BY <1>4, <1>9 DEF IsStars
    <3> QED  BY <1>5, <1>9, <3>1 DEF IsStars
  <2>2. (Reaches(g, full, 1) <=> Reads(segs, full, 1, {0})) /\ (Reaches(g, path, 0) <=> Reads(segs, path, 0, {0}))
    BY <1>1, <1>9 DEF Reaches, IsStars
  <2>3. Reads(segs, full, 1, {0}) /\ Reads(segs, path, 0, {0})
    BY <1>1, <1>3, <1>9, StarsAlone DEF IsStars
  <2> QED  BY <1>2, <2>1, <2>2, <2>3
<1>10. CASE IsFloating(g)
  <2>1. (Reaches(g, full, 1) <=> Reads(segs, full, 1, {0})) /\ (Reaches(g, path, 0) <=> Reads(segs, path, 0, {0}))
    BY <1>1, <1>10 DEF Reaches, IsFloating
  <2>2. names = Tail(segs) /\ Everywhere(g) /\ names[1] # "**"
    BY <1>1, <1>4, <1>10 DEF IsFloating
  <2>3. Reads(segs, full, 1, {0}) <=> Reads(segs, path, 0, {0}) \/ Reads(names, full, 1, {0})
    BY <1>1, <1>2, <1>10, <2>2, BeginsAnywhere DEF IsFloating
  <2>4. Reads(names, full, 1, {0}) <=> names[1] = n /\ Len(names) > 1 /\ Reads(Tail(names), path, 0, {0})
    BY <1>2, <2>2, NamesBelow
  <2> QED  BY <1>2, <1>5, <1>6, <2>1, <2>2, <2>3, <2>4
<1> QED  BY <1>7, <1>8, <1>9, <1>10, GlobKinds

\* What a glob says of a file it matches.
Says(g) == IF g.neg THEN "skip" ELSE "search"

LEMMA VerdictAppend ==
  ASSUME NEW globs \in Seq(GlobSet), NEW g \in GlobSet, NEW path, NEW literal, NEW i
  PROVE  Verdict(Append(globs, g), path, literal, i) = IF Hits(g, path, literal, i) THEN Says(g) ELSE Verdict(globs, path, literal, i)
PROOF
<1>1. PICK more : more = Append(globs, g)
  OBVIOUS
<1>2. PICK N \in Nat : N = Len(globs)
  OBVIOUS
<1>3. /\ DOMAIN globs = 1..N /\ DOMAIN more = 1..(N + 1) /\ more[N + 1] = g
      /\ \A j \in 1..N : more[j] = globs[j]
  BY <1>1, <1>2
<1> DEFINE old == {j \in DOMAIN globs : Hits(globs[j], path, literal, i)}
           new == {j \in DOMAIN more : Hits(more[j], path, literal, i)}
<1>4. /\ Verdict(more, path, literal, i) = IF new = {} THEN "none" ELSE Says(more[Max(new)])
      /\ Verdict(globs, path, literal, i) = IF old = {} THEN "none" ELSE Says(globs[Max(old)])
  BY DEF Verdict, Says
<1>5. CASE Hits(g, path, literal, i)
  <2>1. N + 1 \in new /\ new \subseteq 0..(N + 1) /\ new # {} /\ N + 1 \in Nat
    BY <1>3, <1>5
  <2>2. Max(new) \in new /\ \A j \in new : j <= Max(new)
    <3> HIDE DEF new
    <3> QED  BY <2>1, MaxIsGreatest
  <2>3. Max(new) = N + 1
    <3>1. PICK m \in 0..(N + 1) : m = Max(new)
      <4> HIDE DEF new
      <4> QED  BY <2>1, <2>2
    <3>2. N + 1 <= m
      <4> HIDE DEF new
      <4> QED  BY <2>1, <2>2, <3>1
    <3> QED  BY <3>1, <3>2
  <2> HIDE DEF new, old
  <2> QED  BY <1>1, <1>3, <1>4, <1>5, <2>1, <2>3
<1>6. CASE ~Hits(g, path, literal, i)
  <2>1. new = old
    <3>1. \A j \in 1..(N + 1) : j \in 1..N \/ j = N + 1
      OBVIOUS
    <3>2. \A j \in 1..N : j \in 1..(N + 1)
      OBVIOUS
    <3> QED  BY <1>3, <1>6, <3>1, <3>2
  <2>2. new # {} => Max(new) \in 1..N
    <3>1. old \subseteq 1..N /\ old \subseteq 0..N
      BY <1>3
    <3>2. old # {} => Max(old) \in old
      <4> HIDE DEF old
      <4> QED  BY <3>1, MaxIsGreatest
    <3> HIDE DEF old, new
    <3> QED  BY <2>1, <3>1, <3>2
  <2> HIDE DEF new, old
  <2> QED  BY <1>1, <1>3, <1>4, <1>6, <2>1, <2>2
<1> QED  BY <1>5, <1>6

LEMMA VerdictOfNone ==
  ASSUME NEW path, NEW literal, NEW i
  PROVE  Verdict(<<>>, path, literal, i) = "none"
PROOF
<1>1. {j \in DOMAIN <<>> : Hits(<<>>[j], path, literal, i)} = {}
  OBVIOUS
<1> QED  BY <1>1 DEF Verdict

\* A file that is searched for is matched by some glob that asks for it.
LEMMA SearchedIsWanted ==
  ASSUME NEW globs \in Seq(GlobSet), NEW path, NEW literal, NEW i, Verdict(globs, path, literal, i) = "search"
  PROVE  ~Excludes(globs)
PROOF
<1> DEFINE hits == {j \in DOMAIN globs : Hits(globs[j], path, literal, i)}
<1>1. hits # {} /\ ~globs[Max(hits)].neg
  BY DEF Verdict
<1>2. PICK N \in Nat : N = Len(globs) /\ DOMAIN globs = 1..N
  OBVIOUS
<1>3. hits \subseteq 0..N /\ hits \subseteq DOMAIN globs
  BY <1>2
<1>4. Max(hits) \in DOMAIN globs
  <2> HIDE DEF hits
  <2> QED  BY <1>1, <1>3, MaxIsGreatest
<1>5. PICK j \in DOMAIN globs : ~globs[j].neg
  BY <1>1, <1>4
<1>6. globs[j] \in ToSet(globs)
  BY DEF ToSet
<1> QED  BY <1>5, <1>6 DEF Excludes

LEMMA ExcludesAppend ==
  ASSUME NEW globs \in Seq(GlobSet), NEW g
  PROVE  Excludes(Append(globs, g)) <=> Excludes(globs) /\ g.neg
PROOF
<1>1. ToSet(Append(globs, g)) = ToSet(globs) \cup {g}
  <2>1. PICK more : more = Append(globs, g)
    OBVIOUS
  <2>2. PICK N \in Nat : N = Len(globs)
    OBVIOUS
  <2>3. /\ DOMAIN globs = 1..N /\ DOMAIN more = 1..(N + 1) /\ more[N + 1] = g
        /\ \A j \in 1..N : more[j] = globs[j]
    BY <2>1, <2>2
  <2>4. \A j \in 1..(N + 1) : j \in 1..N \/ j = N + 1
    OBVIOUS
  <2>5. N + 1 \in 1..(N + 1) /\ \A j \in 1..N : j \in 1..(N + 1)
    OBVIOUS
  <2>6. ToSet(more) = ToSet(globs) \cup {g}
    BY <2>3, <2>4, <2>5 DEF ToSet
  <2> QED  BY <2>1, <2>6
<1> QED  BY <1>1 DEF Excludes

\* What a mount is sent of a glob, after what it was sent before.
Sent(globs, g, n) ==
  LET here == IF Everywhere(g) THEN Append(globs, g) ELSE globs
  IN  IF Leads(g, n) THEN Append(here, Inside(g)) ELSE here

LEMMA SentType ==
  ASSUME NEW globs \in Seq(GlobSet), NEW g \in GlobSet, PlainGlob(g), NEW n
  PROVE  /\ Sent(globs, g, n) \in Seq(GlobSet)
         /\ Excludes(globs) /\ g.neg => Excludes(Sent(globs, g, n))
PROOF
<1>1. PICK here : here = IF Everywhere(g) THEN Append(globs, g) ELSE globs
  OBVIOUS
<1>2. here \in Seq(GlobSet) /\ (Excludes(globs) /\ g.neg => Excludes(here))
  BY <1>1, ExcludesAppend
<1>3. CASE Leads(g, n)
  <2>1. Inside(g) \in GlobSet /\ Inside(g).neg = g.neg
    BY <1>3, InsideType DEF Leads
  <2>2. PICK more : more = Append(here, Inside(g))
    OBVIOUS
  <2>3. more \in Seq(GlobSet) /\ (Excludes(more) <=> Excludes(here) /\ g.neg)
    BY <1>2, <2>1, <2>2, ExcludesAppend
  <2> QED  BY <1>1, <1>2, <1>3, <2>2, <2>3 DEF Sent
<1>4. CASE ~Leads(g, n)
  BY <1>1, <1>2, <1>4 DEF Sent
<1> QED  BY <1>3, <1>4

\* Read against a file of the mount, it says what the glob says of the file.
LEMMA VerdictSent ==
  ASSUME NEW globs \in Seq(GlobSet), NEW g \in GlobSet, PlainGlob(g), NEW n \in Plain \ Wild,
         NEW path \in FilePaths, path # <<>>, NEW i \in 1..Len(path)
  PROVE  Verdict(Sent(globs, g, n), path, 0, i) = IF Hits(g, <<n>> \o path, 1, i + 1) THEN Says(g) ELSE Verdict(globs, path, 0, i)
PROOF
<1>1. PICK full : full = <<n>> \o path
  OBVIOUS
<1>2. full \in FilePaths /\ Len(full) = Len(path) + 1 /\ Len(path) \in Nat /\ i + 1 \in 1..Len(full) /\ 0 \in Nat /\ 1 \in Nat
  BY <1>1 DEF FilePaths
<1>3. PICK upto : upto = SubSeq(path, 1, i)
  OBVIOUS
<1>4. upto \in FilePaths /\ upto # <<>>
  BY <1>3 DEF FilePaths
<1>5. SubSeq(full, 1, i + 1) = <<n>> \o upto
  <2>1. PICK a : a = SubSeq(full, 1, i + 1)
    OBVIOUS
  <2>2. PICK b : b = <<n>> \o upto
    OBVIOUS
  <2>3. a \in Seq(Plain) /\ Len(a) = i + 1 /\ \A j \in 1..(i + 1) : a[j] = full[j]
    BY <1>2, <2>1 DEF FilePaths
  <2>4. Len(upto) = i /\ upto \in Seq(Plain) /\ \A j \in 1..i : upto[j] = path[j]
    BY <1>2, <1>3 DEF FilePaths
  <2>5. b \in Seq(Plain) /\ Len(b) = i + 1 /\ \A j \in 1..(i + 1) : b[j] = IF j = 1 THEN n ELSE upto[j - 1]
    BY <2>2, <2>4
  <2>6. \A j \in 1..(i + 1) : full[j] = IF j = 1 THEN n ELSE path[j - 1]
    BY <1>1, <1>2 DEF FilePaths
  <2>7. \A j \in 1..(i + 1) : j # 1 => j - 1 \in 1..i
    BY <1>2
  <2>8. \A j \in 1..(i + 1) : a[j] = b[j]
    <3> SUFFICES ASSUME NEW j \in 1..(i + 1) PROVE a[j] = b[j]
      OBVIOUS
    <3>1. a[j] = IF j = 1 THEN n ELSE path[j - 1]
      BY <2>3, <2>6, Zenon
    <3>2. b[j] = IF j = 1 THEN n ELSE upto[j - 1]
      BY <2>5, Zenon
    <3>3. j # 1 => upto[j - 1] = path[j - 1]
      BY <2>4, <2>7
    <3> QED  BY <3>1, <3>2, <3>3, Zenon
  <2>9. a = b
    BY <2>3, <2>5, <2>8, SeqEqual
  <2> QED  BY <2>1, <2>2, <2>9
<1> DEFINE whole == g.dirOnly => i < Len(path)
<1>6. Hits(g, full, 1, i + 1) <=> whole /\ Reaches(g, <<n>> \o upto, 1)
  <2>1. Hits(g, full, 1, i + 1) <=> (g.dirOnly => i + 1 < Len(full)) /\ Reaches(g, SubSeq(full, 1, i + 1), 1)
    BY <1>2, HitsReaches
  <2>2. i + 1 < Len(full) <=> i < Len(path)
    BY <1>2
  <2> QED  BY <1>5, <2>1, <2>2
<1>7. Hits(g, path, 0, i) <=> whole /\ Reaches(g, upto, 0)
  BY <1>2, <1>3, HitsReaches
<1>8. Leads(g, n) => (Hits(Inside(g), path, 0, i) <=> whole /\ Reaches(Inside(g), upto, 0))
  <2> SUFFICES ASSUME Leads(g, n) PROVE Hits(Inside(g), path, 0, i) <=> whole /\ Reaches(Inside(g), upto, 0)
    OBVIOUS
  <2>1. PICK inside \in GlobSet : inside = Inside(g) /\ inside.dirOnly = g.dirOnly
    BY InsideType DEF Leads
  <2>2. Hits(inside, path, 0, i) <=> (inside.dirOnly => i < Len(path)) /\ Reaches(inside, upto, 0)
    BY <1>2, <1>3, HitsReaches
  <2> QED  BY <2>1, <2>2
<1>9. Reaches(g, <<n>> \o upto, 1) <=> (Everywhere(g) /\ Reaches(g, upto, 0)) \/ (Leads(g, n) /\ Reaches(Inside(g), upto, 0))
  BY <1>4, ReachesInside
<1>10. Hits(g, full, 1, i + 1) <=> (Everywhere(g) /\ Hits(g, path, 0, i)) \/ (Leads(g, n) /\ Hits(Inside(g), path, 0, i))
  <2> HIDE DEF whole
  <2> QED  BY <1>6, <1>7, <1>8, <1>9
<1>11. PICK here \in Seq(GlobSet) : here = IF Everywhere(g) THEN Append(globs, g) ELSE globs
  <2>1. Append(globs, g) \in Seq(GlobSet)
    OBVIOUS
  <2> HIDE DEF whole
  <2> QED  BY <2>1, Zenon
<1>12. Verdict(here, path, 0, i) = IF Everywhere(g) /\ Hits(g, path, 0, i) THEN Says(g) ELSE Verdict(globs, path, 0, i)
  BY <1>11, VerdictAppend
<1>13. CASE Leads(g, n)
  <2>1. PICK inside \in GlobSet : inside = Inside(g) /\ Says(inside) = Says(g)
    BY <1>13, InsideType DEF Leads, Says
  <2>2. Verdict(Append(here, inside), path, 0, i) = IF Hits(inside, path, 0, i) THEN Says(inside) ELSE Verdict(here, path, 0, i)
    BY VerdictAppend
  <2>3. Sent(globs, g, n) = Append(here, inside)
    BY <1>11, <1>13, <2>1 DEF Sent
  <2> QED  BY <1>1, <1>10, <1>12, <1>13, <2>1, <2>2, <2>3
<1>14. CASE ~Leads(g, n)
  <2>1. Sent(globs, g, n) = here
    BY <1>11, <1>14 DEF Sent
  <2> QED  BY <1>1, <1>10, <1>12, <1>14, <2>1
<1> QED  BY <1>13, <1>14

\* What the mounts have been sent, and those that are left out altogether.
RoutedSet == [globs : [Names -> Seq(GlobSet)], excluded : SUBSET Names]

LEMMA RouteGlobSends ==
  ASSUME NEW routed \in RoutedSet, NEW g \in GlobSet, PlainGlob(g)
  PROVE  /\ RouteGlob(routed, g) \in RoutedSet
         /\ ~MisplacedGlob(g) => \A n \in Names :
              /\ RouteGlob(routed, g).globs[n] = Sent(routed.globs[n], g, n)
              /\ n \in RouteGlob(routed, g).excluded <=> IF PathOfGlob(g) = <<n>> THEN g.neg ELSE n \in routed.excluded
PROOF
<1>1. PICK new : new = RouteGlob(routed, g)
  OBVIOUS
<1>2. PICK old : old = routed.globs
  OBVIOUS
<1>3. PICK out : out = routed.excluded
  OBVIOUS
<1>4. /\ old \in [Names -> Seq(GlobSet)] /\ out \in SUBSET Names /\ routed = [globs |-> old, excluded |-> out]
      /\ \A n \in Names : old[n] \in Seq(GlobSet)
  BY <1>2, <1>3 DEF RoutedSet
<1>5. PICK names \in Globbing : names = PathOfGlob(g)
  BY GlobKinds
<1>6. PICK name : name = names[1]
  OBVIOUS
<1>7. PICK all : all = IF Everywhere(g) THEN [n \in Names |-> Append(old[n], g)] ELSE old
  OBVIOUS
<1>8. /\ all \in [Names -> Seq(GlobSet)]
      /\ \A n \in Names : all[n] = IF Everywhere(g) THEN Append(old[n], g) ELSE old[n]
  <2>1. CASE Everywhere(g)
    <3>1. \A n \in Names : Append(old[n], g) \in Seq(GlobSet)
      BY <1>4
    <3> QED  BY <1>7, <2>1, <3>1
  <2>2. CASE ~Everywhere(g)
    BY <1>4, <1>7, <2>2
  <2> QED  BY <2>1, <2>2
<1>9. Len(names) = 1 \/ Len(names) > 1
  BY GlobIsLong
<1>10. \A n : Leads(g, n) <=> name = n /\ Len(names) > 1
  BY <1>5, <1>6 DEF Leads
<1>11. \A n : names = <<n>> <=> Len(names) = 1 /\ name = n
  BY <1>6, OneName
<1>12. \A n : Sent(old[n], g, n) = IF Leads(g, n) THEN Append(IF Everywhere(g) THEN Append(old[n], g) ELSE old[n], Inside(g))
                                   ELSE IF Everywhere(g) THEN Append(old[n], g) ELSE old[n]
  BY DEF Sent
<1>13. new = IF name \notin Names THEN [routed EXCEPT !.globs = all]
             ELSE IF Len(names) = 1
             THEN [globs |-> all, excluded |-> IF g.neg THEN out \cup {name} ELSE out \ {name}]
             ELSE [routed EXCEPT !.globs = [all EXCEPT ![name] = Append(@, Inside(g))]]
  BY <1>1, <1>2, <1>3, <1>5, <1>6, <1>7 DEF RouteGlob
<1>14. CASE name \notin Names
  <2>1. new = [globs |-> all, excluded |-> out]
    BY <1>4, <1>13, <1>14
  <2>2. new \in RoutedSet
    BY <1>4, <1>8, <2>1 DEF RoutedSet
  <2>3. \A n \in Names : ~Leads(g, n) /\ names # <<n>>
    BY <1>10, <1>11, <1>14
  <2>4. \A n \in Names : new.globs[n] = Sent(old[n], g, n)
    BY <1>8, <1>12, <2>1, <2>3
  <2> QED  BY <1>1, <1>2, <1>3, <1>5, <2>1, <2>2, <2>3, <2>4
<1>15. CASE name \in Names /\ Len(names) = 1
  <2>1. new = [globs |-> all, excluded |-> IF g.neg THEN out \cup {name} ELSE out \ {name}]
    BY <1>13, <1>15
  <2>2. new \in RoutedSet
    BY <1>4, <1>8, <1>15, <2>1 DEF RoutedSet
  <2>3. \A n : ~Leads(g, n)
    BY <1>10, <1>15, GlobIsLong
  <2>4. \A n \in Names : new.globs[n] = Sent(old[n], g, n)
    BY <1>8, <1>12, <2>1, <2>3
  <2>5. \A n \in Names : n \in new.excluded <=> IF names = <<n>> THEN g.neg ELSE n \in out
    BY <1>11, <1>15, <2>1
  <2> QED  BY <1>1, <1>2, <1>3, <1>5, <2>2, <2>4, <2>5
<1>16. CASE name \in Names /\ Len(names) > 1
  <2>1. PICK most : most = [all EXCEPT ![name] = Append(all[name], Inside(g))]
    OBVIOUS
  <2>2. Len(names) # 1
    BY <1>16, GlobIsLong
  <2>3. new = [globs |-> most, excluded |-> out]
    BY <1>4, <1>13, <1>16, <2>1, <2>2
  <2>4. Inside(g) \in GlobSet
    BY <1>5, <1>16, InsideType
  <2>5. all[name] \in Seq(GlobSet) /\ Append(all[name], Inside(g)) \in Seq(GlobSet)
    BY <1>8, <1>16, <2>4
  <2>6. /\ most \in [Names -> Seq(GlobSet)]
        /\ \A n \in Names : most[n] = IF n = name THEN Append(all[n], Inside(g)) ELSE all[n]
    BY <1>8, <1>16, <2>1, <2>5
  <2>7. new \in RoutedSet
    BY <1>4, <2>3, <2>6 DEF RoutedSet
  <2>8. \A n : (Leads(g, n) <=> n = name) /\ names # <<n>>
    BY <1>10, <1>11, <1>16, <2>2
  <2>9. \A n \in Names : new.globs[n] = Sent(old[n], g, n)
    BY <1>8, <1>12, <2>3, <2>6, <2>8
  <2> QED  BY <1>1, <1>2, <1>3, <1>5, <2>3, <2>7, <2>8, <2>9
<1> QED  BY <1>9, <1>14, <1>15, <1>16

PlainGlobs == {globs \in Seq(GlobSet) : \A k \in DOMAIN globs : PlainGlob(globs[k])}

\* The steps of rootGlobs.
IsRouting(globs, d, remain, all) ==
  /\ d[0] = NoGlobs
  /\ \A k \in 0..Len(globs) : d[k] \in RoutedSet
  /\ \A k \in 1..Len(globs) : d[k] = RouteGlob(d[k - 1], globs[k])
  /\ all = d[Len(globs)]
  /\ remain = {n \in Names \ all.excluded : Excludes(globs) \/ ~Excludes(all.globs[n])}
  /\ RootGlobs(globs) = [n \in remain |-> all.globs[n]]

LEMMA RootGlobsDef ==
  ASSUME NEW globs \in PlainGlobs
  PROVE  \E d, remain, all : IsRouting(globs, d, remain, all)
PROOF
<1> DEFINE N == Len(globs)
           On(a, k) == RouteGlob(a, globs[k])
           Body(d) == [k \in 0..N |-> IF k = 0 THEN NoGlobs ELSE On(d[k - 1], k)]
<1>0. N \in Nat /\ \A k \in 1..N : globs[k] \in GlobSet /\ PlainGlob(globs[k])
  BY DEF PlainGlobs
<1>1. PICK A : A = RoutedSet
  OBVIOUS
<1>2. PICK base : base = NoGlobs
  OBVIOUS
<1>3. base \in A
  <2>1. <<>> \in Seq(GlobSet)
    OBVIOUS
  <2> QED  BY <1>1, <1>2, <2>1 DEF NoGlobs, RoutedSet
<1>4. \A k \in 1..N : \A a \in A : On(a, k) \in A
  <2> SUFFICES ASSUME NEW k \in 1..N, NEW a \in RoutedSet PROVE RouteGlob(a, globs[k]) \in RoutedSet
    BY <1>1
  <2> HIDE DEF N
  <2> QED  BY <1>0, RouteGlobSends
<1>5. PICK step : step = [k \in 1..N |-> [a \in A |-> On(a, k)]]
  OBVIOUS
<1>6. step \in Steps(N, A)
  <2> HIDE DEF N, On
  <2> QED  BY <1>4, <1>5 DEF Steps
<1>7. HasRun(N, A, base, step)
  <2> HIDE DEF N
  <2> QED  BY <1>0, <1>3, <1>6, Recursion
<1>8. PICK f \in [0..N -> A] : f[0] = base /\ \A k \in 1..N : f[k] = step[k][f[k - 1]]
  BY <1>7 DEF HasRun
<1>9. \A k \in 1..N : f[k] = On(f[k - 1], k)
  <2> SUFFICES ASSUME NEW k \in 1..N PROVE f[k] = On(f[k - 1], k)
    OBVIOUS
  <2>1. f[k - 1] \in A
    BY <1>0
  <2> HIDE DEF N, On
  <2> QED  BY <1>5, <1>8, <2>1
<1>10. f = Body(f)
  <2> HIDE DEF N, On
  <2> QED  BY <1>0, <1>2, <1>8, <1>9
<1>11. PICK d, remain, all :
         /\ d = Body(d) /\ all = d[N]
         /\ remain = {n \in Names \ all.excluded : Excludes(globs) \/ ~Excludes(all.globs[n])}
         /\ RootGlobs(globs) = [n \in remain |-> all.globs[n]]
  <2> DEFINE Left(d) == {n \in Names \ d[N].excluded : Excludes(globs) \/ ~Excludes(d[N].globs[n])}
  <2>1. PICK d : d = Body(d) /\ RootGlobs(globs) = [n \in Left(d) |-> d[N].globs[n]]
    BY <1>10 DEF RootGlobs
  <2>2. PICK all : all = d[N]
    OBVIOUS
  <2>3. PICK remain : remain = Left(d)
    OBVIOUS
  <2>4. remain = {n \in Names \ all.excluded : Excludes(globs) \/ ~Excludes(all.globs[n])}
    BY <2>2, <2>3
  <2>5. RootGlobs(globs) = [n \in remain |-> all.globs[n]]
    <3> HIDE DEF Left
    <3> QED  BY <2>1, <2>2, <2>3
  <2> HIDE DEF Body, Left
  <2> QED  BY <2>1, <2>2, <2>4, <2>5
<1>12. d[0] = base /\ \A k \in 1..N : d[k] = On(d[k - 1], k)
  <2> HIDE DEF On, N
  <2> QED  BY <1>0, <1>2, <1>11
<1>13. \A k \in 0..N : d[k] \in A
  <2> DEFINE P == {k \in 0..N : d[k] \in A}
  <2>1. 0 \in P /\ \A k \in 1..N : k - 1 \in P => k \in P
    <3> HIDE DEF On, N
    <3> QED  BY <1>0, <1>3, <1>4, <1>12
  <2>2. \A k \in 0..N : k \in P
    <3> HIDE DEF P, N
    <3> QED  BY <1>0, <2>1, Upwards
  <2> QED  BY <2>2
<1>14. IsRouting(globs, d, remain, all)
  <2> HIDE DEF Body
  <2> QED  BY <1>1, <1>2, <1>11, <1>12, <1>13 DEF IsRouting
<1> QED  BY <1>14

\* Glob by glob, the mount is left out when the globs so far leave out its
\* name, and what it was sent says of a file what they say of it.
MeansTheSame(globs, routed, n, path) ==
  /\ Verdict(globs, <<n>> \o path, 1, 1) = "skip" <=> n \in routed.excluded
  /\ \A i \in 1..Len(path) : Verdict(routed.globs[n], path, 0, i) = Verdict(globs, <<n>> \o path, 1, i + 1)
  /\ Excludes(globs) => Excludes(routed.globs[n])

LEMMA NothingMeansTheSame ==
  ASSUME NEW n \in Names, NEW path
  PROVE  MeansTheSame(<<>>, NoGlobs, n, path)
PROOF
<1>1. NoGlobs.globs[n] = <<>> /\ NoGlobs.excluded = {}
  BY DEF NoGlobs
<1>2. Excludes(<<>>)
  BY DEF Excludes, ToSet
<1> QED  BY <1>1, <1>2, VerdictOfNone DEF MeansTheSame

LEMMA OneMoreMeansTheSame ==
  ASSUME NEW globs \in Seq(GlobSet), NEW g \in GlobSet, PlainGlob(g), ~MisplacedGlob(g),
         NEW routed \in RoutedSet, NEW n \in Names, n \in Plain \ Wild, NEW path \in FilePaths, path # <<>>,
         MeansTheSame(globs, routed, n, path)
  PROVE  MeansTheSame(Append(globs, g), RouteGlob(routed, g), n, path)
PROOF
<1>1. PICK more : more = Append(globs, g)
  OBVIOUS
<1>2. PICK new : new = RouteGlob(routed, g)
  OBVIOUS
<1>3. PICK old \in Seq(GlobSet) : old = routed.globs[n]
  BY DEF RoutedSet
<1>4. /\ new.globs[n] = Sent(old, g, n)
      /\ n \in new.excluded <=> IF PathOfGlob(g) = <<n>> THEN g.neg ELSE n \in routed.excluded
  BY <1>2, <1>3, RouteGlobSends
<1>5. PICK full : full = <<n>> \o path
  OBVIOUS
<1>6. full \in FilePaths /\ Len(full) = Len(path) + 1 /\ Len(path) \in Nat /\ Len(path) > 0 /\ 1 \in 1..Len(full) /\ 1 \in Nat
  BY <1>5 DEF FilePaths
<1>7. Hits(g, full, 1, 1) <=> PathOfGlob(g) = <<n>>
  <2>1. SubSeq(full, 1, 1) = <<n>>
    <3>1. PICK a : a = SubSeq(full, 1, 1)
      OBVIOUS
    <3>2. a \in Seq(Plain) /\ Len(a) = 1 /\ a[1] = full[1] /\ full[1] = n
      BY <1>5, <1>6, <3>1 DEF FilePaths
    <3>3. <<n>> \in Seq(Plain) /\ Len(<<n>>) = 1 /\ <<n>>[1] = n
      OBVIOUS
    <3>4. \A j \in 1..1 : a[j] = <<n>>[j]
      BY <3>2, <3>3
    <3>5. a = <<n>>
      BY <3>2, <3>3, <3>4, SeqEqual
    <3> QED  BY <3>1, <3>5
  <2>2. Hits(g, full, 1, 1) <=> (g.dirOnly => 1 < Len(full)) /\ Reaches(g, <<n>>, 1)
    BY <1>6, <2>1, HitsReaches
  <2>3. 1 < Len(full)
    BY <1>6
  <2> QED  BY <2>2, <2>3, ReachesMount
<1>8. Verdict(more, full, 1, 1) = IF PathOfGlob(g) = <<n>> THEN Says(g) ELSE Verdict(globs, full, 1, 1)
  BY <1>1, <1>7, VerdictAppend
<1>9. Verdict(more, full, 1, 1) = "skip" <=> n \in new.excluded
  <2>1. Says(g) = "skip" <=> g.neg
    BY DEF Says
  <2> QED  BY <1>4, <1>5, <1>8, <2>1 DEF MeansTheSame
<1>10. ASSUME NEW i \in 1..Len(path)
       PROVE  Verdict(new.globs[n], path, 0, i) = Verdict(more, full, 1, i + 1)
  <2>1. Verdict(Sent(old, g, n), path, 0, i) = IF Hits(g, full, 1, i + 1) THEN Says(g) ELSE Verdict(old, path, 0, i)
    BY <1>5, VerdictSent
  <2>2. Verdict(more, full, 1, i + 1) = IF Hits(g, full, 1, i + 1) THEN Says(g) ELSE Verdict(globs, full, 1, i + 1)
    BY <1>1, VerdictAppend
  <2>3. Verdict(old, path, 0, i) = Verdict(globs, full, 1, i + 1)
    BY <1>3, <1>5 DEF MeansTheSame
  <2> QED  BY <1>4, <2>1, <2>2, <2>3
<1>11. Excludes(more) => Excludes(new.globs[n])
  BY <1>1, <1>3, <1>4, ExcludesAppend, SentType DEF MeansTheSame
<1> QED  BY <1>1, <1>2, <1>5, <1>9, <1>10, <1>11 DEF MeansTheSame

LEMMA RoutedMeansTheSame ==
  ASSUME NEW globs \in PlainGlobs, \A k \in DOMAIN globs : ~MisplacedGlob(globs[k]),
         NEW n \in Names, n \in Plain \ Wild, NEW path \in FilePaths, path # <<>>,
         NEW d, NEW remain, NEW all, IsRouting(globs, d, remain, all)
  PROVE  MeansTheSame(globs, all, n, path)
PROOF
<1> DEFINE N == Len(globs)
           So(k) == SubSeq(globs, 1, k)
           P == {k \in 0..N : MeansTheSame(So(k), d[k], n, path)}
<1>0. N \in Nat /\ globs \in Seq(GlobSet) /\ DOMAIN globs = 1..N
  BY DEF PlainGlobs
<1>1. 0 \in P
  <2>1. So(0) = <<>>
    BY <1>0
  <2>2. d[0] = NoGlobs
    BY DEF IsRouting
  <2>3. MeansTheSame(So(0), d[0], n, path)
    <3> HIDE DEF So
    <3> QED  BY <2>1, <2>2, NothingMeansTheSame
  <2> HIDE DEF So
  <2> QED  BY <1>0, <2>3
<1>2. ASSUME NEW k \in 1..N, k - 1 \in P PROVE k \in P
  <2>1. k - 1 \in 0..N /\ k \in 0..N /\ MeansTheSame(So(k - 1), d[k - 1], n, path)
    BY <1>0, <1>2
  <2>2. PICK so : so = So(k - 1)
    OBVIOUS
  <2>3. PICK g : g = globs[k]
    OBVIOUS
  <2>4. g \in GlobSet /\ PlainGlob(g) /\ ~MisplacedGlob(g)
    BY <1>0, <2>3 DEF PlainGlobs
  <2>5. so \in Seq(GlobSet)
    BY <1>0, <2>2
  <2>6. So(k) = Append(so, g)
    <3>1. PICK a : a = So(k)
      OBVIOUS
    <3>2. PICK b : b = Append(so, g)
      OBVIOUS
    <3>3. a \in Seq(GlobSet) /\ Len(a) = k /\ \A j \in 1..k : a[j] = globs[j]
      BY <1>0, <3>1
    <3>4. Len(so) = k - 1 /\ \A j \in 1..(k - 1) : so[j] = globs[j]
      BY <1>0, <2>2
    <3>5. b \in Seq(GlobSet) /\ Len(b) = k /\ b[k] = g /\ \A j \in 1..(k - 1) : b[j] = so[j]
      BY <2>4, <2>5, <3>2, <3>4
    <3>6. \A j \in 1..k : j = k \/ j \in 1..(k - 1)
      OBVIOUS
    <3>7. \A j \in 1..k : a[j] = b[j]
      BY <2>3, <3>3, <3>4, <3>5, <3>6
    <3>8. a = b
      BY <3>3, <3>5, <3>7, SeqEqual
    <3> QED  BY <3>1, <3>2, <3>8
  <2>7. PICK routed : routed = d[k - 1]
    OBVIOUS
  <2>8. routed \in RoutedSet /\ d[k] = RouteGlob(routed, g)
    <3> HIDE DEF So, P
    <3> QED  BY <2>1, <2>3, <2>7 DEF IsRouting
  <2>9. MeansTheSame(Append(so, g), RouteGlob(routed, g), n, path)
    <3> HIDE DEF So, P
    <3> QED  BY <2>1, <2>2, <2>4, <2>5, <2>7, <2>8, OneMoreMeansTheSame
  <2> HIDE DEF So
  <2> QED  BY <2>1, <2>6, <2>8, <2>9
<1>3. \A k \in 0..N : k \in P
  <2> HIDE DEF P, N
  <2> QED  BY <1>0, <1>1, <1>2, Upwards
<1>4. So(N) = globs
  <2>1. PICK so : so = So(N)
    OBVIOUS
  <2>2. so \in Seq(GlobSet) /\ Len(so) = N /\ \A j \in 1..N : so[j] = globs[j]
    BY <1>0, <2>1
  <2>3. so = globs
    BY <1>0, <2>2, SeqEqual
  <2> QED  BY <2>1, <2>3
<1>5. MeansTheSame(So(N), d[N], n, path)
  BY <1>0, <1>3
<1> HIDE DEF So
<1> QED  BY <1>4, <1>5 DEF IsRouting

LEMMA RootGlobsKeepTheMeaning ==
  ASSUME NEW globs \in PlainGlobs, \A k \in DOMAIN globs : ~MisplacedGlob(globs[k]),
         NEW n \in Names, n \in Plain \ Wild, NEW path \in FilePaths, path # <<>>
  PROVE  Selected(globs, <<n>> \o path, 1) <=> n \in DOMAIN RootGlobs(globs) /\ Selected(RootGlobs(globs)[n], path, 0)
PROOF
<1>1. PICK d, remain, all : IsRouting(globs, d, remain, all)
  BY RootGlobsDef
<1>2. MeansTheSame(globs, all, n, path)
  BY <1>1, RoutedMeansTheSame
<1>3. PICK sent : sent = all.globs[n]
  OBVIOUS
<1>4. sent \in Seq(GlobSet)
  <2>1. Len(globs) \in 0..Len(globs)
    BY DEF PlainGlobs
  <2>2. all \in RoutedSet
    BY <1>1, <2>1 DEF IsRouting
  <2> QED  BY <1>3, <2>2 DEF RoutedSet
<1>5. PICK full : full = <<n>> \o path
  OBVIOUS
<1>6. PICK N \in Nat : N = Len(path) /\ N > 0
  BY DEF FilePaths
<1>7. Len(full) = N + 1 /\ DOMAIN full = 1..(N + 1) /\ DOMAIN path = 1..N /\ N \in 1..N
  BY <1>5, <1>6 DEF FilePaths
<1>8. /\ Verdict(globs, full, 1, 1) = "skip" <=> n \in all.excluded
      /\ \A i \in 1..N : Verdict(sent, path, 0, i) = Verdict(globs, full, 1, i + 1)
      /\ Excludes(globs) => Excludes(sent)
  BY <1>2, <1>3, <1>5, <1>6 DEF MeansTheSame
<1>9. /\ n \in DOMAIN RootGlobs(globs) <=> n \notin all.excluded /\ (Excludes(globs) \/ ~Excludes(sent))
      /\ n \in DOMAIN RootGlobs(globs) => RootGlobs(globs)[n] = sent
  <2>1. /\ remain = {x \in Names \ all.excluded : Excludes(globs) \/ ~Excludes(all.globs[x])}
        /\ RootGlobs(globs) = [x \in remain |-> all.globs[x]]
    BY <1>1 DEF IsRouting
  <2> QED  BY <1>3, <2>1
<1>10. Selected(globs, full, 1) <=>
         /\ n \notin all.excluded
         /\ \A i \in 1..N : Verdict(sent, path, 0, i) # "skip"
         /\ Verdict(sent, path, 0, N) = "search" \/ Excludes(globs)
  <2>1. Selected(globs, full, 1) <=>
          /\ \A i \in 1..(N + 1) : Verdict(globs, full, 1, i) # "skip"
          /\ Verdict(globs, full, 1, N + 1) = "search" \/ Excludes(globs)
    BY <1>7 DEF Selected
  <2>2. (\A i \in 1..(N + 1) : Verdict(globs, full, 1, i) # "skip") <=>
          Verdict(globs, full, 1, 1) # "skip" /\ \A i \in 1..N : Verdict(globs, full, 1, i + 1) # "skip"
    <3>1. 1 \in 1..(N + 1) /\ \A i \in 1..N : i + 1 \in 1..(N + 1)
      OBVIOUS
    <3>2. \A i \in 1..(N + 1) : i = 1 \/ (i - 1 \in 1..N /\ (i - 1) + 1 = i)
      OBVIOUS
    <3> QED  BY <3>1, <3>2
  <2>3. Verdict(sent, path, 0, N) = Verdict(globs, full, 1, N + 1)
    BY <1>7, <1>8
  <2>4. (\A i \in 1..N : Verdict(globs, full, 1, i + 1) # "skip") <=> (\A i \in 1..N : Verdict(sent, path, 0, i) # "skip")
    BY <1>8
  <2> QED  BY <1>8, <2>1, <2>2, <2>3, <2>4
<1>11. Selected(sent, path, 0) <=>
         /\ \A i \in 1..N : Verdict(sent, path, 0, i) # "skip"
         /\ Verdict(sent, path, 0, N) = "search" \/ Excludes(sent)
  BY <1>6, <1>7 DEF Selected
<1>12. Verdict(sent, path, 0, N) = "search" => ~Excludes(sent)
  BY <1>4, SearchedIsWanted
<1>13. Selected(globs, full, 1) <=> n \in DOMAIN RootGlobs(globs) /\ Selected(sent, path, 0)
  BY <1>8, <1>9, <1>10, <1>11, <1>12
<1> QED  BY <1>5, <1>9, <1>13

LEMMA InvKeepsMeaning == MountsInv => GlobsMeanTheSame
PROOF
<1> SUFFICES ASSUME MountsInv, NEW globs \in GlobLists, \A g \in ToSet(globs) : ~MisplacedGlob(g),
                    NEW n \in Names, NEW path \in GlobPaths
             PROVE  Selected(globs, <<n>> \o path, 1) <=>
                      n \in DOMAIN RootGlobs(globs) /\ Selected(RootGlobs(globs)[n], path, 0)
  BY DEF GlobsMeanTheSame
<1>1. globs \in Seq(GlobSet) /\ \A g \in ToSet(globs) : PlainGlob(g)
  BY GlobsAssumption DEF LiteralGlobs, PlainGlob
<1>2. \A k \in DOMAIN globs : globs[k] \in ToSet(globs)
  BY DEF ToSet
<1>3. globs \in PlainGlobs /\ \A k \in DOMAIN globs : ~MisplacedGlob(globs[k])
  BY <1>1, <1>2 DEF PlainGlobs
<1>4. path \in FilePaths /\ path # <<>>
  BY GlobsAssumption DEF LiteralGlobs, FilePaths
<1>5. n \in Plain \ Wild
  <2>1. PICK i \in DOMAIN mounts : n = mounts[i].name
    BY DEF Names
  <2>2. mounts[i] \in MountSet
    BY DEF MountsInv
  <2> QED  BY <2>1, <2>2 DEF MountSet
<1> QED  BY <1>3, <1>4, <1>5, RootGlobsKeepTheMeaning

\* The globs of a search at the root select the same files, whether they are
\* read against the whole workspace or, as rootGlobs of workspace.ts routes them,
\* by each disk below its mount: for all lists of globs that write a leading
\* "**" once, all mounts and all paths.
THEOREM GlobsKeepTheirMeaning == WsSpec => []GlobsMeanTheSame
PROOF
<1>1. WsInit => WsInv
  BY InitHasInv
<1>2. WsInv /\ [WsNext]_wsVars => WsInv'
  BY NextKeepsInv
<1>3. WsInv => GlobsMeanTheSame
  BY InvKeepsMeaning DEF WsInv
<1> QED  BY <1>1, <1>2, <1>3, PTL DEF WsSpec

-----------------------------------------------------------------------------
(* The just-bash file system: reads are whole.  The blocks of an inode     *)
(* that were not appended are those of its one writer, who made the inode  *)
(* and fills it once; so a reader that has seen one of them sees, from     *)
(* then on, no other.  This is the invariant, with what each caller's      *)
(* first step relies on.                                                   *)

Blocks == {Old} \cup [by : Callers, append : BOOLEAN]

\* What one write leaves, with appended blocks over it or behind it.
Good(data) ==
  /\ data \in Seq(Blocks) /\ Len(data) # 1
  /\ \A i \in 1..Len(data) : ~data[i].append =>
       i <= 2 /\ \A j \in 1..Len(data) : ~data[j].append => data[j] = data[i]

EntriesIn(inode, ids) ==
  /\ inode = Directory(inode.entries) /\ IsFiniteSet(DOMAIN inode.entries)
  /\ \A n \in DOMAIN inode.entries : inode.entries[n] \in ids

InodeInv(id) ==
  /\ tree[id].kind \in {"File", "Directory", "Symlink"}
  /\ tree[id].kind = "File" => tree[id] = File(tree[id].data) /\ Good(tree[id].data)
  /\ tree[id].kind = "Directory" =>
       /\ EntriesIn(tree[id], DOMAIN tree)

TreeInv ==
  /\ \E n \in 1..MaxInodes : DOMAIN tree = 1..n
  /\ \A id \in DOMAIN tree : InodeInv(id)

IsFile(id) == id \in DOMAIN tree /\ tree[id].kind = "File"

\* The caller is about to write the inode, not to append to it.
Owes(c, id) == todo[c] # <<>> /\ Now(c).do \in {"fill", "writeAt"} /\ Now(c).id = id /\ asked[c].do # "append"
Unwritten(id) == \A i \in 1..Len(tree[id].data) : tree[id].data[i].append

NowOnly == {"open", "chunk", "fill", "writeAt"}
NewInodes == {File(<<>>), Directory(<<>>)}

StepInv(c, s) ==
  /\ s.do = "append" => asked[c].do = "append"
  /\ s.do \in {"makeIn", "make"} => s.new \in NewInodes \/ s.new.kind = "Symlink"

QueueInv(c) ==
  /\ todo[c] \in Seq(Range(todo[c]))
  /\ \A k \in 1..Len(todo[c]) : StepInv(c, todo[c][k]) /\ (k > 1 => todo[c][k].do \notin NowOnly)

\* What was read of an inode agrees with what is in it.
Reading(c) ==
  LET id == Now(c).id
      got == buffer[c] IN
  /\ IsFile(id) /\ got \in Seq(Blocks)
  /\ Now(c).size \in Nat /\ Now(c).size # 1
  /\ Len(got) < Now(c).size /\ Now(c).size <= Len(tree[id].data)
  /\ \A i \in 1..Len(got) : ~got[i].append =>
       /\ i <= 2
       /\ \A j \in 1..Len(got) : ~got[j].append => got[j] = got[i]
       /\ \A j \in 1..Len(tree[id].data) : ~tree[id].data[j].append => tree[id].data[j] = got[i]
       /\ \A d \in Callers : ~Owes(d, id)

NowInv(c) ==
  todo[c] # <<>> =>
    /\ Now(c).do = "open" => buffer[c] = <<>>
    /\ Now(c).do = "chunk" => Reading(c)
    /\ Now(c).do # "chunk" => Good(buffer[c])
    /\ Now(c).do \in {"fill", "writeAt"} =>
         /\ IsFile(Now(c).id) /\ (asked[c].do # "append" => Unwritten(Now(c).id))
         /\ Now(c).do = "writeAt" => /\ Now(c).offset \in 0..Len(tree[Now(c).id].data)
                                     /\ asked[c].do # "append" => Now(c).offset = 0

ResultInv(c) ==
  /\ asked[c] \in Requests \cup {Nothing}
  /\ result[c] \in {"none", "pending", "ok", "failed"}
  /\ result[c] = "pending" <=> todo[c] # <<>>
  /\ result[c] = "none" => buffer[c] = <<>>
  /\ result[c] = "ok" => Good(buffer[c])

CallerInv(c) == QueueInv(c) /\ NowInv(c) /\ ResultInv(c)

OneWriter == \A c, d \in Callers : \A id \in DOMAIN tree : Owes(c, id) /\ Owes(d, id) => c = d

FsFunctions ==
  /\ asked = [c \in Callers |-> asked[c]] /\ todo = [c \in Callers |-> todo[c]]
  /\ buffer = [c \in Callers |-> buffer[c]] /\ result = [c \in Callers |-> result[c]]
  /\ left \subseteq Callers

FsInv == FsFunctions /\ TreeInv /\ OneWriter /\ \A c \in Callers : CallerInv(c)

-----------------------------------------------------------------------------
(* Lemmas about sequences. *)

\* Steps put before the rest of a queue.
LEMMA StepsBeforeTheRest ==
  ASSUME NEW q, q \in Seq(Range(q)), q # <<>>, NEW steps, steps \in Seq(Range(steps))
  PROVE  LET r == steps \o Tail(q) IN
         /\ r \in Seq(Range(r)) /\ Len(q) \in Nat /\ Len(q) >= 1 /\ Len(steps) \in Nat
         /\ Len(r) = Len(steps) + Len(q) - 1
         /\ \A k \in 1..Len(r) :
              \/ k \in 1..Len(steps) /\ r[k] = steps[k]
              \/ k > Len(steps) /\ k - Len(steps) + 1 \in 2..Len(q) /\ r[k] = q[k - Len(steps) + 1]
PROOF
<1> DEFINE S == Range(q) \cup Range(steps)
           r == steps \o Tail(q)
<1>1. q \in Seq(S) /\ steps \in Seq(S)
  <2>1. Range(q) \subseteq S /\ Range(steps) \subseteq S
    OBVIOUS
  <2> QED  BY <2>1, SeqMonotonic, Zenon
<1> HIDE DEF S
<1>2. Tail(q) \in Seq(S) /\ Len(Tail(q)) = Len(q) - 1 /\ \A i \in 1..Len(Tail(q)) : Tail(q)[i] = q[i + 1]
  BY <1>1, HeadTailProperties
<1>3. Len(q) \in Nat /\ Len(steps) \in Nat /\ Len(q) # 0
  BY <1>1, LenProperties, EmptySeq
<1>4. r \in Seq(S) /\ Len(r) = Len(steps) + Len(Tail(q))
      /\ \A i \in 1..Len(steps) + Len(Tail(q)) : r[i] = IF i <= Len(steps) THEN steps[i] ELSE Tail(q)[i - Len(steps)]
  BY <1>1, <1>2, ConcatProperties
<1> HIDE DEF r
<1>5. r \in Seq(Range(r))
  BY <1>4, SeqOfRange
<1>6. ASSUME NEW k \in 1..Len(r)
      PROVE  \/ k \in 1..Len(steps) /\ r[k] = steps[k]
             \/ k > Len(steps) /\ k - Len(steps) + 1 \in 2..Len(q) /\ r[k] = q[k - Len(steps) + 1]
  <2>1. CASE k <= Len(steps)
    <3>1. k \in 1..Len(steps) + Len(Tail(q)) /\ k \in 1..Len(steps)
      BY <2>1, <1>2, <1>3, <1>4
    <3>2. r[k] = steps[k]
      BY <2>1, <3>1, <1>4
    <3> QED  BY <3>1, <3>2
  <2>2. CASE k > Len(steps)
    <3>1. r[k] = Tail(q)[k - Len(steps)] /\ k - Len(steps) \in 1..Len(Tail(q))
      BY <2>2, <1>2, <1>3, <1>4
    <3>2. Tail(q)[k - Len(steps)] = q[k - Len(steps) + 1]
      BY <3>1, <1>2
    <3> QED  BY <3>1, <3>2, <2>2, <1>2, <1>3
  <2> QED  BY <2>1, <2>2, <1>3
<1>7. Len(r) = Len(steps) + Len(q) - 1 /\ Len(q) >= 1
  BY <1>2, <1>3, <1>4
<1> QED  BY <1>3, <1>5, <1>6, <1>7 DEF r

\* What is at each place after an overwrite.
LEMMA OverlaidIs ==
  ASSUME NEW S, NEW data \in Seq(S), NEW new \in Seq(S), NEW offset \in 0..Len(data)
  PROVE  LET r == Overlaid(data, offset, new) IN
         /\ r \in Seq(S) /\ Len(data) \in Nat /\ Len(new) \in Nat
         /\ Len(r) = IF offset + Len(new) > Len(data) THEN offset + Len(new) ELSE Len(data)
         /\ \A i \in 1..Len(r) :
              \/ i - offset \in 1..Len(new) /\ r[i] = new[i - offset]
              \/ i - offset \notin 1..Len(new) /\ i \in 1..Len(data) /\ r[i] = data[i]
PROOF
<1>0. PICK m, a, b, ab, r :
         /\ m = offset + Len(new) + 1 /\ a = SubSeq(data, 1, offset) /\ b = SubSeq(data, m, Len(data))
         /\ ab = a \o new /\ r = ab \o b /\ Overlaid(data, offset, new) = r
  BY Zenon DEF Overlaid
<1>1. Len(data) \in Nat /\ Len(new) \in Nat /\ offset \in Nat /\ m \in Nat /\ m >= 1 /\ m = offset + Len(new) + 1
  BY <1>0, LenProperties
<1>2. \A i \in 1..Len(data) : data[i] \in S
  BY ElementOfSeq
<1>3. a \in Seq(S) /\ Len(a) = offset /\ \A i \in 1..offset : a[i] = data[i]
  <2>1. \A i \in 1..offset : data[i] \in S
    BY <1>1, <1>2
  <2>2. a \in Seq(S) /\ Len(a) = (IF 1 <= offset THEN offset - 1 + 1 ELSE 0)
        /\ \A i \in 1..offset - 1 + 1 : a[i] = data[1 + i - 1]
    BY <1>0, <1>1, <2>1, SubSeqProperties
  <2> QED  BY <1>1, <2>2
<1>4. b \in Seq(S) /\ Len(b) = (IF m <= Len(data) THEN Len(data) - m + 1 ELSE 0)
      /\ \A i \in 1..Len(data) - m + 1 : b[i] = data[m + i - 1]
  <2>1. \A i \in m..Len(data) : data[i] \in S
    BY <1>1, <1>2
  <2> QED  BY <1>0, <1>1, <2>1, SubSeqProperties
<1>5. ab \in Seq(S) /\ Len(ab) = offset + Len(new)
      /\ \A i \in 1..offset + Len(new) : ab[i] = IF i <= offset THEN a[i] ELSE new[i - offset]
  BY <1>0, <1>3, ConcatProperties
<1>6. r \in Seq(S) /\ Len(r) = Len(ab) + Len(b)
      /\ \A i \in 1..Len(ab) + Len(b) : r[i] = IF i <= Len(ab) THEN ab[i] ELSE b[i - Len(ab)]
  <2>1. /\ ab \o b \in Seq(S) /\ Len(ab \o b) = Len(ab) + Len(b)
        /\ \A i \in 1..Len(ab) + Len(b) : (ab \o b)[i] = IF i <= Len(ab) THEN ab[i] ELSE b[i - Len(ab)]
    BY <1>4, <1>5, ConcatProperties
  <2>2. r = ab \o b
    BY <1>0
  <2> QED  BY <2>1, <2>2, Zenon
<1>7. Len(r) = IF offset + Len(new) > Len(data) THEN offset + Len(new) ELSE Len(data)
  <2>1. CASE m <= Len(data)
    BY <2>1, <1>1, <1>4, <1>5, <1>6
  <2>2. CASE m > Len(data)
    <3>1. Len(b) = 0 /\ Len(r) = Len(ab)
      <4>1. Len(b) = 0
        BY <2>2, <1>1, <1>4
      <4>2. Len(r) = Len(ab) + 0
        BY <4>1, <1>6
      <4> QED  BY <4>1, <4>2, <1>1, <1>5
    <3> QED  BY <3>1, <2>2, <1>1, <1>5
  <2> QED  BY <2>1, <2>2, <1>1
<1>8. ASSUME NEW i \in 1..Len(r)
      PROVE  \/ i - offset \in 1..Len(new) /\ r[i] = new[i - offset]
             \/ i - offset \notin 1..Len(new) /\ i \in 1..Len(data) /\ r[i] = data[i]
  <2>1. CASE i <= offset
    <3>1. r[i] = ab[i] /\ ab[i] = a[i] /\ a[i] = data[i]
      BY <2>1, <1>1, <1>3, <1>5, <1>6
    <3> QED  BY <3>1, <2>1, <1>1
  <2>2. CASE i > offset /\ i <= offset + Len(new)
    <3>1. r[i] = ab[i] /\ ab[i] = new[i - offset]
      BY <2>2, <1>1, <1>5, <1>6
    <3> QED  BY <3>1, <2>2, <1>1
  <2>3. CASE i > offset + Len(new)
    <3>1. Len(b) \in Nat
      BY <1>1, <1>4
    <3>2. i - Len(ab) \in 1..Len(data) - m + 1 /\ r[i] = b[i - Len(ab)]
      <4>1. i \in Nat /\ i <= Len(ab) + Len(b) /\ i > Len(ab) /\ Len(ab) \in Nat
        BY <2>3, <3>1, <1>1, <1>5, <1>6
      <4>2. Len(b) = Len(data) - m + 1
        BY <4>1, <3>1, <1>1, <1>4
      <4>3. i - Len(ab) \in 1..Len(data) - m + 1
        BY <4>1, <4>2, <1>1, <3>1
      <4>4. r[i] = b[i - Len(ab)]
        BY <4>1, <1>6, <3>1
      <4> QED  BY <4>3, <4>4
    <3>3. b[i - Len(ab)] = data[m + (i - Len(ab)) - 1]
      BY <3>2, <1>4
    <3>4. m + (i - Len(ab)) - 1 = i
      BY <1>1, <1>5
    <3> QED  BY <3>2, <3>3, <3>4, <2>3, <1>1, <1>5
  <2> QED  BY <2>1, <2>2, <2>3, <1>1
<1> QED  BY <1>0, <1>1, <1>6, <1>7, <1>8

-----------------------------------------------------------------------------
(* What a write leaves. *)

\* What was read of one write and of what was appended to it is one write, if
\* nothing appended is in it.
LEMMA GoodIsWhole ==
  ASSUME NEW data, Good(data)
  PROVE  OneWrite(data) \/ Appended(data)
PROOF
<1> SUFFICES ASSUME ~Appended(data) PROVE OneWrite(data)
  OBVIOUS
<1>1. Len(data) \in Nat /\ Len(data) # 1
  BY LenProperties DEF Good
<1>2. \A i \in 1..Len(data) : ~data[i].append
  BY DEF Appended
<1>3. \A i \in 1..Len(data) : i <= 2 /\ \A j \in 1..Len(data) : data[j] = data[i]
  BY <1>2 DEF Good
<1>4. Len(data) \in {0, 2}
  <2>1. CASE Len(data) = 0
    BY <2>1
  <2>2. CASE Len(data) # 0
    <3>1. Len(data) \in 1..Len(data)
      BY <1>1, <2>2
    <3> QED
      <4>1. PICK n \in Nat : n = Len(data)
        BY <1>1
      <4>2. n <= 2 /\ n # 0 /\ n # 1
        BY <4>1, <3>1, <1>1, <1>3, <2>2
      <4> QED  BY <4>1, <4>2
  <2> QED  BY <2>1, <2>2
<1>5. \A i \in 1..Len(data) : data[i] = data[1]
  <2> SUFFICES ASSUME NEW i \in 1..Len(data) PROVE data[i] = data[1]
    OBVIOUS
  <2>1. 1 \in 1..Len(data)
    BY <1>1
  <2> QED  BY <2>1, <1>3
<1> QED  BY <1>4, <1>5 DEF OneWrite

OnlyAppended(blocks) == \A i \in 1..Len(blocks) : blocks[i].append

\* Blocks that grew from data by appended ones only.
Extends(r, data) ==
  /\ Good(r) /\ Len(data) <= Len(r)
  /\ \A i \in 1..Len(r) : ~r[i].append => i <= Len(data) /\ r[i] = data[i]

\* Appended blocks leave the others where they were.
LEMMA AppendIsGood ==
  ASSUME NEW data, Good(data), NEW new, Good(new), NEW offset \in 0..Len(data), OnlyAppended(new)
  PROVE  Extends(Overlaid(data, offset, new), data)
PROOF
<1> USE DEF OnlyAppended
<1>0. PICK r : r = Overlaid(data, offset, new)
  OBVIOUS
<1>1. data \in Seq(Blocks) /\ new \in Seq(Blocks) /\ Len(data) # 1 /\ Len(new) # 1
  BY DEF Good
<1>2. /\ r \in Seq(Blocks) /\ Len(data) \in Nat /\ Len(new) \in Nat
      /\ Len(r) = IF offset + Len(new) > Len(data) THEN offset + Len(new) ELSE Len(data)
      /\ \A i \in 1..Len(r) :
           \/ i - offset \in 1..Len(new) /\ r[i] = new[i - offset]
           \/ i - offset \notin 1..Len(new) /\ i \in 1..Len(data) /\ r[i] = data[i]
  <2>1. /\ Overlaid(data, offset, new) \in Seq(Blocks) /\ Len(data) \in Nat /\ Len(new) \in Nat
        /\ Len(Overlaid(data, offset, new)) = IF offset + Len(new) > Len(data) THEN offset + Len(new) ELSE Len(data)
        /\ \A i \in 1..Len(Overlaid(data, offset, new)) :
             \/ i - offset \in 1..Len(new) /\ Overlaid(data, offset, new)[i] = new[i - offset]
             \/ i - offset \notin 1..Len(new) /\ i \in 1..Len(data) /\ Overlaid(data, offset, new)[i] = data[i]
    BY <1>1, OverlaidIs, Zenon
  <2> QED  BY <2>1, <1>0, Zenon
<1>3. Len(data) <= Len(r) /\ Len(r) # 1 /\ Len(r) \in Nat
  <2>1. PICK n, k \in Nat : n = Len(data) /\ k = Len(new)
    BY <1>2
  <2>2. n # 1 /\ k # 1 /\ Len(r) = IF offset + k > n THEN offset + k ELSE n
    BY <2>1, <1>1, <1>2
  <2>3. offset \in 0..n
    BY <2>1
  <2> QED  BY <2>1, <2>2, <2>3
<1>4. \A i \in 1..Len(r) : ~r[i].append => i \in 1..Len(data) /\ r[i] = data[i]
  BY <1>2
<1>5. ASSUME NEW i \in 1..Len(r), ~r[i].append
      PROVE  i <= 2 /\ \A j \in 1..Len(r) : ~r[j].append => r[j] = r[i]
  <2>1. i \in 1..Len(data) /\ r[i] = data[i]
    BY <1>4, <1>5
  <2>2. i <= 2 /\ \A j \in 1..Len(data) : ~data[j].append => data[j] = data[i]
    BY <2>1, <1>5 DEF Good
  <2> QED  BY <2>1, <2>2, <1>4
<1>6. Good(r)
  BY <1>2, <1>3, <1>5 DEF Good
<1>7. \A i \in 1..Len(r) : ~r[i].append => i <= Len(data) /\ r[i] = data[i]
  BY <1>2, <1>4
<1>8. Extends(r, data)
  BY <1>3, <1>6, <1>7, Zenon DEF Extends
<1> QED  BY <1>0, <1>8, Zenon

\* A write from the start leaves its blocks and, behind them, appended ones.
LEMMA WriteIsGood ==
  ASSUME NEW data, Good(data), NEW new, Good(new), \A i \in 1..Len(data) : data[i].append,
         NEW r, r = Overlaid(data, 0, new)
  PROVE  Good(r) /\ Len(data) <= Len(r)
PROOF
<1>1. data \in Seq(Blocks) /\ new \in Seq(Blocks) /\ Len(data) # 1 /\ Len(new) # 1
  BY DEF Good
<1>2. Len(data) \in Nat /\ Len(new) \in Nat
  BY <1>1, LenProperties
<1>3. /\ r \in Seq(Blocks)
      /\ Len(r) = IF 0 + Len(new) > Len(data) THEN 0 + Len(new) ELSE Len(data)
      /\ \A i \in 1..Len(r) :
           \/ i - 0 \in 1..Len(new) /\ r[i] = new[i - 0]
           \/ i - 0 \notin 1..Len(new) /\ i \in 1..Len(data) /\ r[i] = data[i]
  <2>1. 0 \in 0..Len(data)
    BY <1>2
  <2> QED  BY <1>1, <2>1, OverlaidIs
<1>4. Len(data) <= Len(r) /\ Len(r) # 1 /\ Len(r) \in Nat
  BY <1>1, <1>2, <1>3
<1>5. \A i \in 1..Len(r) : ~r[i].append => i \in 1..Len(new) /\ r[i] = new[i]
  <2> SUFFICES ASSUME NEW i \in 1..Len(r), ~r[i].append PROVE i \in 1..Len(new) /\ r[i] = new[i]
    OBVIOUS
  <2>1. i - 0 = i
    BY <1>4
  <2> QED  BY <2>1, <1>3
<1>6. ASSUME NEW i \in 1..Len(r), ~r[i].append
      PROVE  i <= 2 /\ \A j \in 1..Len(r) : ~r[j].append => r[j] = r[i]
  <2>1. i \in 1..Len(new) /\ r[i] = new[i]
    BY <1>5, <1>6
  <2>2. i <= 2 /\ \A j \in 1..Len(new) : ~new[j].append => new[j] = new[i]
    BY <2>1, <1>6 DEF Good
  <2> QED  BY <2>1, <2>2, <1>5
<1> QED  BY <1>3, <1>4, <1>6 DEF Good

\* What a caller writes.
LEMMA ContentIsGood ==
  ASSUME NEW c \in Callers, Good(buffer[c])
  PROVE  /\ Good(Content(c))
         /\ asked[c].do = "append" => \A i \in 1..Len(Content(c)) : Content(c)[i].append
PROOF
<1>1. CASE asked[c].do = "cp"
  BY <1>1 DEF Content
<1>2. CASE asked[c].do # "cp"
  <2>1. PICK b : b = Block(c)
    OBVIOUS
  <2>2. b \in Blocks /\ (b.append <=> asked[c].do = "append")
    BY <2>1 DEF Block, Blocks
  <2>3. Content(c) = <<b, b>>
    BY <1>2, <2>1 DEF Content
  <2>4. <<b, b>> \in Seq(Blocks) /\ Len(<<b, b>>) = 2 /\ \A i \in 1..2 : <<b, b>>[i] = b
    BY <2>2
  <2> QED  BY <2>2, <2>3, <2>4 DEF Good
<1> QED  BY <1>1, <1>2

LEMMA EmptyIsGood == Good(<<>>)
PROOF
<1>1. <<>> \in Seq(Blocks) /\ Len(<<>>) = 0
  BY EmptySeq
<1> QED  BY <1>1 DEF Good

-----------------------------------------------------------------------------
(* What is left to do. *)

LEMMA Literals ==
  ASSUME NEW a, NEW b
  PROVE  /\ <<>> \in Seq(Range(<<>>)) /\ Len(<<>>) = 0
         /\ <<a>> \in Seq(Range(<<a>>)) /\ Len(<<a>>) = 1 /\ <<a>>[1] = a
         /\ <<a, b>> \in Seq(Range(<<a, b>>)) /\ Len(<<a, b>>) = 2 /\ <<a, b>>[1] = a /\ <<a, b>>[2] = b
PROOF
<1>1. <<>> \in Seq({a, b}) /\ <<a>> \in Seq({a, b}) /\ <<a, b>> \in Seq({a, b})
  OBVIOUS
<1>2. <<>> \in Seq(Range(<<>>)) /\ <<a>> \in Seq(Range(<<a>>)) /\ <<a, b>> \in Seq(Range(<<a, b>>))
  BY <1>1, SeqOfRange
<1> QED  BY <1>2

StepsFit(c, steps) ==
  /\ steps \in Seq(Range(steps))
  /\ \A k \in 1..Len(steps) : StepInv(c, steps[k]) /\ (k > 1 => steps[k].do \notin NowOnly)

LEMMA ThenDoes ==
  ASSUME NEW c \in Callers, QueueInv(c), ResultInv(c), FsFunctions, todo[c] # <<>>, asked' = asked,
         NEW steps, StepsFit(c, steps), Then(c, steps)
  PROVE  /\ QueueInv(c)' /\ todo' = [d \in Callers |-> todo'[d]] /\ result' = [d \in Callers |-> result'[d]]
         /\ \A d \in Callers \ {c} : todo'[d] = todo[d] /\ result'[d] = result[d]
         /\ result'[c] \in {"pending", "ok"} /\ (result'[c] = "pending" <=> todo'[c] # <<>>)
         /\ Len(steps) # 0 => todo'[c] # <<>> /\ Head(todo'[c]) = steps[1]
         /\ Len(steps) = 0 /\ todo'[c] # <<>> => Head(todo'[c]).do \notin NowOnly
PROOF
<1>1. PICK q, r : q = todo[c] /\ r = steps \o Tail(todo[c])
  OBVIOUS
<1>2. q \in Seq(Range(q)) /\ q # <<>> /\ steps \in Seq(Range(steps))
  BY <1>1 DEF QueueInv, StepsFit
<1>3. /\ r \in Seq(Range(r)) /\ Len(q) \in Nat /\ Len(q) >= 1 /\ Len(steps) \in Nat
      /\ Len(r) = Len(steps) + Len(q) - 1
      /\ \A k \in 1..Len(r) :
           \/ k \in 1..Len(steps) /\ r[k] = steps[k]
           \/ k > Len(steps) /\ k - Len(steps) + 1 \in 2..Len(q) /\ r[k] = q[k - Len(steps) + 1]
  <2>1. r = steps \o Tail(q)
    BY <1>1
  <2> QED  BY <1>2, <2>1, StepsBeforeTheRest
<1>4. /\ todo' = [todo EXCEPT ![c] = r]
      /\ result' = [result EXCEPT ![c] = IF r = <<>> THEN "ok" ELSE result[c]]
  BY <1>1 DEF Then
<1>5. /\ todo'[c] = r /\ \A d \in Callers \ {c} : todo'[d] = todo[d]
      /\ result'[c] = (IF r = <<>> THEN "ok" ELSE result[c]) /\ \A d \in Callers \ {c} : result'[d] = result[d]
      /\ todo' = [d \in Callers |-> todo'[d]] /\ result' = [d \in Callers |-> result'[d]]
  BY <1>4 DEF FsFunctions
<1>6. result[c] = "pending"
  BY DEF ResultInv
<1>7. ASSUME NEW k \in 1..Len(r)
      PROVE  StepInv(c, r[k])' /\ (k > 1 => r[k].do \notin NowOnly)
             /\ (Len(steps) = 0 => r[k].do \notin NowOnly)
  <2>1. CASE k \in 1..Len(steps) /\ r[k] = steps[k]
    BY <2>1, <1>3 DEF StepsFit, StepInv
  <2>2. CASE k > Len(steps) /\ k - Len(steps) + 1 \in 2..Len(q) /\ r[k] = q[k - Len(steps) + 1]
    <3>1. PICK m \in 2..Len(q) : r[k] = todo[c][m]
      BY <2>2, <1>1
    <3>2. m \in 1..Len(todo[c]) /\ m > 1
      BY <1>1, <1>3
    <3>3. StepInv(c, todo[c][m]) /\ todo[c][m].do \notin NowOnly
      BY <3>2 DEF QueueInv
    <3> QED  BY <3>1, <3>3 DEF StepInv
  <2> QED  BY <2>1, <2>2, <1>3
<1>8. QueueInv(c)'
  BY <1>3, <1>5, <1>7 DEF QueueInv
<1>9. Len(r) \in Nat /\ (r # <<>> => 1 \in 1..Len(r) /\ Head(r) = r[1])
  <2>1. Len(r) \in Nat /\ (r # <<>> => Len(r) # 0)
    BY <1>3, EmptySeq
  <2>2. Head(r) = r[1]
    OBVIOUS
  <2> QED  BY <2>1, <2>2
<1>10. Len(steps) # 0 => r # <<>> /\ Head(r) = steps[1]
  <2> SUFFICES ASSUME Len(steps) # 0 PROVE r # <<>> /\ Head(r) = steps[1]
    OBVIOUS
  <2>1. Len(r) # 0 /\ 1 \in 1..Len(r)
    BY <1>3
  <2>2. r # <<>>
    BY <2>1
  <2>3. r[1] = steps[1]
    BY <2>1, <1>3
  <2> QED  BY <2>2, <2>3, <1>9
<1>11. Len(steps) = 0 /\ r # <<>> => Head(r).do \notin NowOnly
  BY <1>7, <1>9
<1> QED  BY <1>5, <1>6, <1>8, <1>10, <1>11

\* The caller's part of the invariant, where its next step relies on nothing but
\* what it has read.
LEMMA ThenPlain ==
  ASSUME NEW c \in Callers, QueueInv(c), ResultInv(c), FsFunctions, todo[c] # <<>>, asked' = asked,
         NEW steps, StepsFit(c, steps), Then(c, steps), Len(steps) # 0 => steps[1].do \notin NowOnly,
         Good(buffer[c])'
  PROVE  CallerInv(c)' /\ \A id : ~Owes(c, id)'
PROOF
<1>1. /\ QueueInv(c)'
      /\ result'[c] \in {"pending", "ok"} /\ (result'[c] = "pending" <=> todo'[c] # <<>>)
      /\ todo'[c] # <<>> => Head(todo'[c]).do \notin NowOnly
  BY ThenDoes
<1>2. NowInv(c)'
  BY <1>1 DEF NowInv, Now, NowOnly
<1>3. ResultInv(c)'
  BY <1>1 DEF ResultInv
<1>4. \A id : ~Owes(c, id)'
  BY <1>1 DEF Owes, Now, NowOnly
<1> QED  BY <1>1, <1>2, <1>3, <1>4 DEF CallerInv

LEMMA ThrowDoes ==
  ASSUME NEW c \in Callers, ResultInv(c), FsFunctions, asked' = asked, Throw(c)
  PROVE  /\ CallerInv(c)' /\ \A id : ~Owes(c, id)'
         /\ todo' = [d \in Callers |-> todo'[d]] /\ result' = [d \in Callers |-> result'[d]]
         /\ \A d \in Callers \ {c} : todo'[d] = todo[d] /\ result'[d] = result[d]
PROOF
<1>1. /\ todo'[c] = <<>> /\ \A d \in Callers \ {c} : todo'[d] = todo[d]
      /\ result'[c] = "failed" /\ \A d \in Callers \ {c} : result'[d] = result[d]
      /\ todo' = [d \in Callers |-> todo'[d]] /\ result' = [d \in Callers |-> result'[d]]
  BY DEF Throw, FsFunctions
<1>2. QueueInv(c)'
  BY <1>1, Literals DEF QueueInv
<1>3. NowInv(c)' /\ ResultInv(c)' /\ \A id : ~Owes(c, id)'
  BY <1>1 DEF NowInv, ResultInv, Owes
<1> QED  BY <1>1, <1>2, <1>3 DEF CallerInv

-----------------------------------------------------------------------------
(* What a step of a caller leaves of the invariant of the others. *)

Others(c) ==
  /\ \A d \in Callers \ {c} : /\ asked'[d] = asked[d] /\ todo'[d] = todo[d]
                             /\ buffer'[d] = buffer[d] /\ result'[d] = result[d]
  /\ DOMAIN tree \subseteq DOMAIN tree'
  /\ \A id \in DOMAIN tree :
       /\ tree'[id].kind = tree[id].kind /\ ~Owes(c, id)'
       /\ tree[id].kind = "File" =>
            /\ Len(tree[id].data) <= Len(tree'[id].data)
            /\ \/ Owes(c, id)
               \/ \A i \in 1..Len(tree'[id].data) : ~tree'[id].data[i].append =>
                    i \in 1..Len(tree[id].data) /\ tree'[id].data[i] = tree[id].data[i]

LEMMA StepKeepsInv ==
  ASSUME FsInv, NEW c \in Callers, Others(c), FsFunctions', TreeInv', CallerInv(c)'
  PROVE  FsInv'
PROOF
<1>1. \A d \in Callers : CallerInv(d)
  BY DEF FsInv
<1>2. ASSUME NEW d \in Callers \ {c}
      PROVE  /\ asked'[d] = asked[d] /\ todo'[d] = todo[d] /\ buffer'[d] = buffer[d] /\ result'[d] = result[d]
             /\ Now(d)' = Now(d) /\ \A id : Owes(d, id)' <=> Owes(d, id)
             /\ \A id : Owes(d, id) => IsFile(id)
  <2>1. asked'[d] = asked[d] /\ todo'[d] = todo[d] /\ buffer'[d] = buffer[d] /\ result'[d] = result[d]
    BY DEF Others
  <2>2. Now(d)' = Now(d)
    BY <2>1 DEF Now
  <2>3. \A id : Owes(d, id)' <=> Owes(d, id)
    BY <2>1, <2>2 DEF Owes
  <2>4. NowInv(d)
    BY <1>1 DEF CallerInv
  <2>5. \A id : Owes(d, id) => IsFile(id)
    BY <2>4 DEF Owes, NowInv
  <2> QED  BY <2>1, <2>2, <2>3, <2>5
<1>3. \A id : IsFile(id) => IsFile(id)' /\ ~Owes(c, id)'
  BY DEF IsFile, Others
<1>4. \A x, y \in Callers : \A id \in DOMAIN tree' : Owes(x, id)' /\ Owes(y, id)' => x = y
  <2>1. SUFFICES ASSUME NEW x \in Callers, NEW y \in Callers, NEW id, Owes(x, id)', Owes(y, id)' PROVE x = y
    OBVIOUS
  <2>2. CASE x = c \/ y = c
    BY <2>1, <2>2, <1>2, <1>3
  <2>3. CASE x # c /\ y # c
    <3>1. Owes(x, id) /\ Owes(y, id) /\ id \in DOMAIN tree
      BY <2>1, <2>3, <1>2 DEF IsFile
    <3> QED  BY <3>1 DEF FsInv, OneWriter
  <2> QED  BY <2>2, <2>3
<1>5. ASSUME NEW d \in Callers \ {c}
      PROVE  CallerInv(d)'
  <2>1. QueueInv(d) /\ NowInv(d) /\ ResultInv(d)
    BY <1>1 DEF CallerInv
  <2>2. QueueInv(d)' /\ ResultInv(d)'
    BY <2>1, <1>2 DEF QueueInv, StepInv, ResultInv
  <2>3. ASSUME todo[d] # <<>>, Now(d).do = "chunk" PROVE Reading(d)'
    <3>1. PICK id, got, size : id = Now(d).id /\ got = buffer[d] /\ size = Now(d).size
      OBVIOUS
    <3>2. /\ IsFile(id) /\ got \in Seq(Blocks) /\ size \in Nat /\ size # 1
          /\ Len(got) < size /\ size <= Len(tree[id].data)
          /\ \A i \in 1..Len(got) : ~got[i].append =>
               /\ i <= 2
               /\ \A j \in 1..Len(got) : ~got[j].append => got[j] = got[i]
               /\ \A j \in 1..Len(tree[id].data) : ~tree[id].data[j].append => tree[id].data[j] = got[i]
               /\ \A x \in Callers : ~Owes(x, id)
      BY <2>1, <2>3, <3>1 DEF NowInv, Reading
    <3>3. IsFile(id)' /\ Len(tree[id].data) <= Len(tree'[id].data)
      BY <3>2, <1>3 DEF IsFile, Others
    <3>4. Len(tree[id].data) \in Nat /\ Len(tree'[id].data) \in Nat
      <4>1. Good(tree[id].data) /\ Good(tree'[id].data)
        BY <3>2, <3>3 DEF FsInv, TreeInv, InodeInv, IsFile
      <4> QED  BY <4>1, LenProperties DEF Good
    <3>5. size <= Len(tree'[id].data)
      BY <3>2, <3>3, <3>4
    <3>6. ASSUME NEW i \in 1..Len(got), ~got[i].append
          PROVE  /\ \A j \in 1..Len(tree'[id].data) : ~tree'[id].data[j].append => tree'[id].data[j] = got[i]
                 /\ \A x \in Callers : ~Owes(x, id)'
      <4>1. \A x \in Callers : ~Owes(x, id)'
        BY <3>2, <3>6, <1>2, <1>3
      <4>2. ~Owes(c, id)
        BY <3>2, <3>6
      <4>3. \A j \in 1..Len(tree'[id].data) : ~tree'[id].data[j].append =>
              j \in 1..Len(tree[id].data) /\ tree'[id].data[j] = tree[id].data[j]
        BY <4>2, <3>2 DEF Others, IsFile
      <4> QED  BY <4>1, <4>3, <3>2, <3>6
    <3>7. Now(d)'.id = id /\ buffer'[d] = got /\ Now(d)'.size = size
      BY <3>1, <1>2
    <3> QED  BY <3>2, <3>3, <3>5, <3>6, <3>7 DEF Reading
  <2>4. ASSUME todo[d] # <<>>, Now(d).do \in {"fill", "writeAt"}
        PROVE  /\ IsFile(Now(d).id)' /\ (asked[d].do # "append" => Unwritten(Now(d).id)')
               /\ Now(d).do = "writeAt" => /\ Now(d).offset \in 0..Len(tree'[Now(d).id].data)
                                           /\ asked[d].do # "append" => Now(d).offset = 0
    <3>1. PICK id, offset : id = Now(d).id /\ offset = Now(d).offset
      OBVIOUS
    <3>2. /\ IsFile(id) /\ (asked[d].do # "append" => Unwritten(id))
          /\ Now(d).do = "writeAt" => /\ offset \in 0..Len(tree[id].data)
                                      /\ asked[d].do # "append" => offset = 0
      BY <2>1, <2>4, <3>1 DEF NowInv
    <3>3. IsFile(id)' /\ Len(tree[id].data) <= Len(tree'[id].data)
      BY <3>2, <1>3 DEF IsFile, Others
    <3>4. Len(tree[id].data) \in Nat /\ Len(tree'[id].data) \in Nat
      <4>1. Good(tree[id].data) /\ Good(tree'[id].data)
        BY <3>2, <3>3 DEF FsInv, TreeInv, InodeInv, IsFile
      <4> QED  BY <4>1, LenProperties DEF Good
    <3>5. ASSUME asked[d].do # "append" PROVE Unwritten(id)'
      <4>1. Owes(d, id) /\ Unwritten(id)
        BY <2>4, <3>1, <3>2, <3>5 DEF Owes
      <4>2. ~Owes(c, id)
        BY <4>1, <3>2 DEF FsInv, OneWriter, IsFile
      <4>3. \A j \in 1..Len(tree'[id].data) : ~tree'[id].data[j].append =>
              j \in 1..Len(tree[id].data) /\ tree'[id].data[j] = tree[id].data[j]
        BY <4>2, <3>2 DEF Others, IsFile
      <4> QED  BY <4>1, <4>3 DEF Unwritten
    <3>6. Now(d).do = "writeAt" => offset \in 0..Len(tree'[id].data)
      BY <3>2, <3>3, <3>4
    <3> QED  BY <3>1, <3>2, <3>3, <3>5, <3>6, <1>2
  <2>5. NowInv(d)'
    <3>1. CASE todo[d] = <<>>
      BY <3>1, <1>2 DEF NowInv
    <3>2. CASE todo[d] # <<>>
      <4>1. /\ Now(d).do = "open" => buffer[d] = <<>>
            /\ Now(d).do # "chunk" => Good(buffer[d])
        BY <2>1, <3>2 DEF NowInv
      <4>2. Good(buffer[d])' <=> Good(buffer[d])
        BY <1>2 DEF Good
      <4>3. /\ Now(d)'.do = "open" => buffer'[d] = <<>>
            /\ Now(d)'.do # "chunk" => Good(buffer[d])'
        BY <4>1, <4>2, <1>2
      <4>4. Now(d)'.do = "chunk" => Reading(d)'
        BY <2>3, <3>2, <1>2
      <4>5. Now(d)'.do \in {"fill", "writeAt"} =>
              /\ IsFile(Now(d).id)' /\ (asked'[d].do # "append" => Unwritten(Now(d).id)')
              /\ Now(d)'.do = "writeAt" => /\ Now(d)'.offset \in 0..Len(tree'[Now(d)'.id].data)
                                           /\ asked'[d].do # "append" => Now(d)'.offset = 0
        BY <2>4, <3>2, <1>2
      <4> QED  BY <4>3, <4>4, <4>5 DEF NowInv
    <3> QED  BY <3>1, <3>2
  <2> QED  BY <2>2, <2>5 DEF CallerInv
<1>6. \A d \in Callers : CallerInv(d)'
  BY <1>5
<1> QED  BY <1>4, <1>6 DEF FsInv, OneWriter

-----------------------------------------------------------------------------
(* What a step does to the tree. *)

\* A change of entries that leads to inodes of the tree.
OnlyEntries(t, u) ==
  /\ DOMAIN u = DOMAIN t
  /\ \A i \in DOMAIN t :
       /\ u[i].kind = t[i].kind
       /\ t[i].kind # "Directory" => u[i] = t[i]
       /\ t[i].kind = "Directory" =>
            /\ EntriesIn(u[i], DOMAIN t)

LEMMA OneDirectoryChanges ==
  ASSUME NEW t, NEW folder \in DOMAIN t, NEW old, t[folder] = Directory(old), NEW new,
         NEW u, u = [t EXCEPT ![folder].entries = new]
  PROVE  /\ DOMAIN u = DOMAIN t /\ u[folder] = Directory(new) /\ u[folder].kind = "Directory" /\ u[folder].entries = new
         /\ \A i \in DOMAIN t \ {folder} : u[i] = t[i]
PROOF
<1>1. DOMAIN u = DOMAIN t /\ u[folder] = [t[folder] EXCEPT !.entries = new] /\ \A i \in DOMAIN t \ {folder} : u[i] = t[i]
  OBVIOUS
<1>2. [Directory(old) EXCEPT !.entries = new] = Directory(new)
  BY DEF Directory
<1>3. Directory(new).kind = "Directory" /\ Directory(new).entries = new
  BY DEF Directory
<1> QED  BY <1>1, <1>2, <1>3

\* A directory of the tree has its entries in the tree.
LEMMA DirectoryIs ==
  ASSUME TreeInv, NEW folder, Is(tree, folder, "Directory")
  PROVE  /\ folder \in DOMAIN tree /\ tree[folder].kind = "Directory" /\ EntriesIn(tree[folder], DOMAIN tree)
PROOF
BY DEF Is, TreeInv, InodeInv

LEMMA LookupIs ==
  ASSUME TreeInv, NEW folder, NEW name, Lookup(tree, folder, name) # NoEntry
  PROVE  Is(tree, folder, "Directory") /\ Lookup(tree, folder, name) \in DOMAIN tree
PROOF
BY DirectoryIs DEF Lookup, EntriesIn

LEMMA WithEntryIs ==
  ASSUME TreeInv, NEW folder, Is(tree, folder, "Directory"), NEW name, NEW id,
         NEW u, u = WithEntry(folder, name, id)
  PROVE  /\ DOMAIN u = DOMAIN tree /\ u[folder].kind = "Directory" /\ EntriesIn(u[folder], DOMAIN tree \cup {id})
         /\ \A i \in DOMAIN tree \ {folder} : u[i] = tree[i]
PROOF
<1>1. PICK old : old = tree[folder].entries
  OBVIOUS
<1>2. /\ folder \in DOMAIN tree /\ tree[folder] = Directory(old) /\ IsFiniteSet(DOMAIN old)
      /\ \A n \in DOMAIN old : old[n] \in DOMAIN tree
  BY <1>1, DirectoryIs DEF EntriesIn
<1>3. PICK new : new = [n \in DOMAIN old \cup {name} |-> IF n = name THEN id ELSE old[n]]
  OBVIOUS
<1>4. u = [tree EXCEPT ![folder].entries = new]
  BY <1>1, <1>3 DEF WithEntry
<1>5. /\ DOMAIN u = DOMAIN tree /\ u[folder] = Directory(new) /\ u[folder].kind = "Directory" /\ u[folder].entries = new
      /\ \A i \in DOMAIN tree \ {folder} : u[i] = tree[i]
  BY <1>2, <1>4, OneDirectoryChanges
<1>6. \A n \in DOMAIN new : new[n] \in DOMAIN tree \cup {id}
  BY <1>2, <1>3
<1>7. IsFiniteSet(DOMAIN new)
  BY <1>2, <1>3, FS_AddElement
<1> QED  BY <1>5, <1>6, <1>7 DEF EntriesIn

LEMMA WithoutEntryIs ==
  ASSUME NEW t, NEW folder \in DOMAIN t, t[folder] = Directory(t[folder].entries), t[folder].kind = "Directory",
         \A i \in DOMAIN t : t[i].kind = "Directory" =>
           EntriesIn(t[i], DOMAIN t),
         NEW name, NEW u, u = WithoutEntry(t, folder, name)
  PROVE  OnlyEntries(t, u)
PROOF
<1>1. PICK old : old = t[folder].entries
  OBVIOUS
<1>2. PICK new : new = [n \in DOMAIN old \ {name} |-> old[n]]
  OBVIOUS
<1>3. u = [t EXCEPT ![folder].entries = new]
  BY <1>1, <1>2 DEF WithoutEntry
<1>4. t[folder] = Directory(old)
  BY <1>1
<1>5. /\ DOMAIN u = DOMAIN t /\ u[folder] = Directory(new) /\ u[folder].kind = "Directory" /\ u[folder].entries = new
      /\ \A i \in DOMAIN t \ {folder} : u[i] = t[i]
  BY <1>3, <1>4, OneDirectoryChanges
<1>6. \A n \in DOMAIN new : new[n] \in DOMAIN t
  BY <1>1, <1>2 DEF EntriesIn
<1>8. IsFiniteSet(DOMAIN new)
  <2>1. IsFiniteSet(DOMAIN old)
    BY <1>1 DEF EntriesIn
  <2> QED  BY <2>1, <1>2, FS_RemoveElement
<1>7. ASSUME NEW i \in DOMAIN t
      PROVE  /\ u[i].kind = t[i].kind
             /\ t[i].kind # "Directory" => u[i] = t[i]
             /\ t[i].kind = "Directory" =>
                  EntriesIn(u[i], DOMAIN t)
  <2>1. CASE i = folder
    BY <2>1, <1>5, <1>6, <1>8 DEF EntriesIn
  <2>2. CASE i # folder
    BY <2>2, <1>5
  <2> QED  BY <2>1, <2>2
<1> QED  BY <1>5, <1>7 DEF OnlyEntries

LEMMA UnlinkedIs ==
  ASSUME TreeInv, NEW folder, NEW name, Lookup(tree, folder, name) # NoEntry
  PROVE  OnlyEntries(tree, WithoutEntry(tree, folder, name))
PROOF
<1>1. folder \in DOMAIN tree /\ tree[folder].kind = "Directory" /\ tree[folder] = Directory(tree[folder].entries)
  BY LookupIs, DirectoryIs DEF EntriesIn
<1>2. \A i \in DOMAIN tree : tree[i].kind = "Directory" =>
        EntriesIn(tree[i], DOMAIN tree)
  BY DEF TreeInv, InodeInv
<1>3. PICK t : t = tree
  OBVIOUS
<1>4. OnlyEntries(t, WithoutEntry(t, folder, name))
  BY <1>1, <1>2, <1>3, WithoutEntryIs
<1> QED  BY <1>3, <1>4

LEMMA RenamedIs ==
  ASSUME TreeInv, NEW d1, NEW n1, NEW d2, NEW n2, MayRename(d1, n1, d2, n2)
  PROVE  OnlyEntries(tree, Renamed(d1, n1, d2, n2))
PROOF
<1>0. TreeInv => OnlyEntries(tree, tree)
  BY DEF OnlyEntries, TreeInv, InodeInv
<1>1. CASE d1 = d2 /\ n1 = n2
  BY <1>0, <1>1 DEF Renamed
<1>2. CASE ~(d1 = d2 /\ n1 = n2)
  <2>1. PICK src, t, u : src = Lookup(tree, d1, n1) /\ t = WithEntry(d2, n2, src) /\ u = WithoutEntry(t, d1, n1)
    OBVIOUS
  <2>2. src \in DOMAIN tree /\ Is(tree, d1, "Directory") /\ Is(tree, d2, "Directory")
    BY <2>1, LookupIs DEF MayRename
  <2>3. /\ DOMAIN t = DOMAIN tree /\ t[d2].kind = "Directory" /\ EntriesIn(t[d2], DOMAIN tree \cup {src})
        /\ \A i \in DOMAIN tree \ {d2} : t[i] = tree[i]
    BY <2>1, <2>2, WithEntryIs DEF EntriesIn
  <2>4. d1 \in DOMAIN tree /\ d2 \in DOMAIN tree /\ tree[d1].kind = "Directory" /\ tree[d2].kind = "Directory"
    BY <2>2 DEF Is
  <2>5. \A i \in DOMAIN tree : t[i].kind = tree[i].kind /\ (tree[i].kind # "Directory" => t[i] = tree[i])
    BY <2>3, <2>4
  <2>6. \A i \in DOMAIN tree : t[i].kind = "Directory" =>
          EntriesIn(t[i], DOMAIN tree)
    <3> SUFFICES ASSUME NEW i \in DOMAIN tree, t[i].kind = "Directory"
                 PROVE  EntriesIn(t[i], DOMAIN tree)
      OBVIOUS
    <3>1. CASE i = d2
      BY <3>1, <2>2, <2>3
    <3>2. CASE i # d2
      BY <3>2, <2>3 DEF TreeInv, InodeInv
    <3> QED  BY <3>1, <3>2
  <2>7. OnlyEntries(t, u)
    <3>1. d1 \in DOMAIN t /\ t[d1].kind = "Directory" /\ t[d1] = Directory(t[d1].entries)
      BY <2>3, <2>4, <2>5, <2>6 DEF EntriesIn
    <3> QED  BY <3>1, <2>1, <2>3, <2>6, WithoutEntryIs
  <2>8. OnlyEntries(tree, u)
    BY <2>3, <2>5, <2>7 DEF OnlyEntries
  <2>9. Renamed(d1, n1, d2, n2) = u
    BY <2>1, <1>2 DEF Renamed
  <2> QED  BY <2>8, <2>9
<1> QED  BY <1>1, <1>2

OthersRest(c) ==
  \A d \in Callers \ {c} : /\ asked'[d] = asked[d] /\ todo'[d] = todo[d]
                          /\ buffer'[d] = buffer[d] /\ result'[d] = result[d]

LEMMA EntriesKeepInv ==
  ASSUME FsInv, NEW c \in Callers, tree' = tree \/ OnlyEntries(tree, tree'),
         OthersRest(c), FsFunctions', CallerInv(c)', \A id : ~Owes(c, id)'
  PROVE  FsInv'
PROOF
<1>0. TreeInv
  BY DEF FsInv
<1>1. OnlyEntries(tree, tree')
  BY <1>0 DEF OnlyEntries, TreeInv, InodeInv
<1>2. DOMAIN tree' = DOMAIN tree
  BY <1>1 DEF OnlyEntries
<1>3. ASSUME NEW id \in DOMAIN tree'
      PROVE  InodeInv(id)'
  <2>1. id \in DOMAIN tree /\ InodeInv(id)
    BY <1>0, <1>2 DEF TreeInv
  <2>2. /\ tree'[id].kind = tree[id].kind
        /\ tree[id].kind # "Directory" => tree'[id] = tree[id]
        /\ tree[id].kind = "Directory" =>
             EntriesIn(tree'[id], DOMAIN tree)
    BY <2>1, <1>1 DEF OnlyEntries
  <2> QED  BY <2>1, <2>2, <1>2 DEF InodeInv, Good
<1>4. TreeInv'
  BY <1>0, <1>2, <1>3 DEF TreeInv
<1>5. ASSUME NEW id \in DOMAIN tree
      PROVE  /\ tree'[id].kind = tree[id].kind
             /\ tree[id].kind = "File" =>
                  /\ Len(tree[id].data) <= Len(tree'[id].data)
                  /\ \A i \in 1..Len(tree'[id].data) : ~tree'[id].data[i].append =>
                       i \in 1..Len(tree[id].data) /\ tree'[id].data[i] = tree[id].data[i]
  <2>1. tree'[id].kind = tree[id].kind /\ (tree[id].kind = "File" => tree'[id] = tree[id])
    BY <1>1 DEF OnlyEntries
  <2>2. ASSUME tree[id].kind = "File" PROVE Len(tree[id].data) \in Nat
    BY <2>2, <1>0, LenProperties DEF TreeInv, InodeInv, Good
  <2> QED  BY <2>1, <2>2
<1>6. Others(c)
  BY <1>2, <1>5 DEF Others, OthersRest
<1> QED  BY <1>4, <1>6, StepKeepsInv

\* An inode that is made is a new one, and the rest of the tree is what it was.
LEMMA CreatedIs ==
  ASSUME TreeInv, NEW folder, NEW name, NEW new, new \in NewInodes \/ new.kind = "Symlink",
         Fresh <= MaxInodes, MayCreate(folder, name), tree' = Created(folder, name, new)
  PROVE  /\ TreeInv' /\ Fresh \notin DOMAIN tree /\ DOMAIN tree' = DOMAIN tree \cup {Fresh} /\ tree'[Fresh] = new
         /\ \A id \in DOMAIN tree :
              tree'[id].kind = tree[id].kind /\ (tree[id].kind = "File" => tree'[id] = tree[id])
PROOF
<1>1. PICK n \in 1..MaxInodes : DOMAIN tree = 1..n
  BY DEF TreeInv
<1>2. MaxInodes \in Nat
  BY FsAssumption
<1>3. n \in Nat /\ Fresh = n + 1
  <2>1. Cardinality(1..n) = n
    <3>1. n \in Nat /\ 1 \in Int /\ n \in Int
      BY <1>2
    <3>2. Cardinality(1..n) = IF 1 > n THEN 0 ELSE n - 1 + 1
      BY <3>1, FS_Interval
    <3> QED  BY <3>1, <3>2, <1>2
  <2> QED  BY <2>1, <1>1, <1>2 DEF Fresh
<1>4. Fresh \notin DOMAIN tree /\ DOMAIN tree \cup {Fresh} = 1..(n + 1) /\ n + 1 \in 1..MaxInodes
  BY <1>1, <1>2, <1>3
<1>5. Is(tree, folder, "Directory")
  BY DEF MayCreate
<1>6. PICK u : u = WithEntry(folder, name, Fresh)
  OBVIOUS
<1>7. /\ DOMAIN u = DOMAIN tree /\ u[folder].kind = "Directory" /\ EntriesIn(u[folder], DOMAIN tree \cup {Fresh})
      /\ \A i \in DOMAIN tree \ {folder} : u[i] = tree[i]
  BY <1>5, <1>6, WithEntryIs DEF EntriesIn
<1>8. tree' = [i \in DOMAIN tree \cup {Fresh} |-> IF i = Fresh THEN new ELSE u[i]]
  BY <1>6 DEF Created
<1>9. /\ DOMAIN tree' = DOMAIN tree \cup {Fresh} /\ tree'[Fresh] = new
      /\ \A id \in DOMAIN tree : tree'[id] = u[id]
  BY <1>4, <1>8
<1>10. folder \in DOMAIN tree /\ tree[folder].kind = "Directory"
  BY <1>5 DEF Is
<1>11. \A id \in DOMAIN tree : tree'[id].kind = tree[id].kind /\ (tree[id].kind = "File" => tree'[id] = tree[id])
  BY <1>7, <1>9, <1>10
<1>12. ASSUME NEW id \in DOMAIN tree' PROVE InodeInv(id)'
  <2>1. CASE id = Fresh
    <3>1. CASE new.kind = "Symlink"
      BY <2>1, <3>1, <1>9 DEF InodeInv
    <3>2. CASE new = File(<<>>)
      <4>1. new.kind = "File" /\ new.data = <<>>
        BY <3>2 DEF File
      <4>2. tree'[id].kind = "File" /\ tree'[id].data = <<>> /\ tree'[id] = File(tree'[id].data)
        BY <2>1, <3>2, <4>1, <1>9
      <4>3. Good(tree[id].data)'
        BY <4>2, EmptyIsGood DEF Good
      <4> QED  BY <4>2, <4>3 DEF InodeInv
    <3>3. CASE new = Directory(<<>>)
      <4>1. new.kind = "Directory" /\ new.entries = <<>> /\ DOMAIN new.entries = {}
        BY <3>3 DEF Directory
      <4> QED  BY <2>1, <3>3, <4>1, <1>9, FS_EmptySet DEF InodeInv, EntriesIn
    <3> QED  BY <3>1, <3>2, <3>3 DEF NewInodes
  <2>2. CASE id = folder
    BY <2>2, <1>7, <1>9, <1>10 DEF InodeInv
  <2>3. CASE id # Fresh /\ id # folder
    <3>1. tree'[id] = tree[id] /\ id \in DOMAIN tree /\ InodeInv(id)
      BY <2>3, <1>7, <1>9 DEF TreeInv
    <3> QED  BY <3>1, <1>9 DEF InodeInv, Good, EntriesIn
  <2> QED  BY <2>1, <2>2, <2>3
<1>13. TreeInv'
  BY <1>4, <1>9, <1>12 DEF TreeInv
<1> QED  BY <1>4, <1>9, <1>11, <1>13

LEMMA CreatedKeepsInv ==
  ASSUME FsInv, NEW c \in Callers, NEW folder, NEW name, NEW new, new \in NewInodes \/ new.kind = "Symlink",
         Fresh <= MaxInodes, MayCreate(folder, name), tree' = Created(folder, name, new),
         OthersRest(c), FsFunctions', CallerInv(c)', \A id : Owes(c, id)' => id = Fresh
  PROVE  FsInv'
PROOF
<1>1. /\ TreeInv' /\ Fresh \notin DOMAIN tree /\ DOMAIN tree' = DOMAIN tree \cup {Fresh} /\ tree'[Fresh] = new
      /\ \A id \in DOMAIN tree :
           tree'[id].kind = tree[id].kind /\ (tree[id].kind = "File" => tree'[id] = tree[id])
  BY CreatedIs DEF FsInv
<1>2. ASSUME NEW id \in DOMAIN tree, tree[id].kind = "File"
      PROVE  /\ Len(tree[id].data) <= Len(tree'[id].data)
             /\ \A i \in 1..Len(tree'[id].data) : ~tree'[id].data[i].append =>
                  i \in 1..Len(tree[id].data) /\ tree'[id].data[i] = tree[id].data[i]
  <2>1. tree'[id] = tree[id]
    BY <1>1, <1>2
  <2>2. Len(tree[id].data) \in Nat
    BY <1>2, LenProperties DEF FsInv, TreeInv, InodeInv, Good
  <2> QED  BY <2>1, <2>2
<1>3. Others(c)
  BY <1>1, <1>2 DEF Others, OthersRest
<1> QED  BY <1>1, <1>3, StepKeepsInv

-----------------------------------------------------------------------------
(* The invariant after each step. *)

LEMMA FitsNone ==
  ASSUME NEW c
  PROVE  StepsFit(c, <<>>) /\ Len(<<>>) = 0
PROOF
BY Literals DEF StepsFit

LEMMA FitsOne ==
  ASSUME NEW c, NEW a, StepInv(c, a)
  PROVE  StepsFit(c, <<a>>) /\ Len(<<a>>) = 1 /\ <<a>>[1] = a
PROOF
<1>1. <<a>> \in Seq(Range(<<a>>)) /\ Len(<<a>>) = 1 /\ <<a>>[1] = a
  BY Literals
<1> QED  BY <1>1 DEF StepsFit

LEMMA FitsTwo ==
  ASSUME NEW c, NEW a, NEW b, StepInv(c, a), StepInv(c, b), b.do \notin NowOnly
  PROVE  StepsFit(c, <<a, b>>) /\ Len(<<a, b>>) = 2 /\ <<a, b>>[1] = a
PROOF
<1>1. /\ <<a, b>> \in Seq(Range(<<a, b>>)) /\ Len(<<a, b>>) = 2
      /\ <<a, b>>[1] = a /\ <<a, b>>[2] = b
  BY Literals
<1>2. \A k \in 1..2 : k = 1 \/ k = 2
  OBVIOUS
<1> QED  BY <1>1, <1>2 DEF StepsFit

\* A step that leaves the contents of files, and whose next step relies on
\* nothing but what has been read.
LEMMA PlainStep ==
  ASSUME FsInv, NEW c \in Callers, todo[c] # <<>>, tree' = tree \/ OnlyEntries(tree, tree'),
         asked' = asked, buffer' = buffer, left' = left, Now(c).do # "chunk",
         NEW steps, StepsFit(c, steps), Then(c, steps), Len(steps) # 0 => steps[1].do \notin NowOnly
  PROVE  FsInv'
PROOF
<1>1. QueueInv(c) /\ ResultInv(c) /\ NowInv(c) /\ FsFunctions
  BY DEF FsInv, CallerInv
<1>2. Good(buffer[c])'
  BY <1>1 DEF NowInv, Good
<1>3. CallerInv(c)' /\ \A id : ~Owes(c, id)'
  BY <1>1, <1>2, ThenPlain
<1>4. /\ todo' = [d \in Callers |-> todo'[d]] /\ result' = [d \in Callers |-> result'[d]]
      /\ \A d \in Callers \ {c} : todo'[d] = todo[d] /\ result'[d] = result[d]
  BY <1>1, ThenDoes
<1>5. OthersRest(c) /\ FsFunctions'
  BY <1>1, <1>4 DEF OthersRest, FsFunctions
<1> QED  BY <1>3, <1>5, EntriesKeepInv

LEMMA ThrowStep ==
  ASSUME FsInv, NEW c \in Callers, tree' = tree \/ OnlyEntries(tree, tree'),
         asked' = asked, buffer' = buffer, left' \subseteq Callers, Throw(c)
  PROVE  FsInv'
PROOF
<1>1. ResultInv(c) /\ FsFunctions
  BY DEF FsInv, CallerInv
<1>2. /\ CallerInv(c)' /\ \A id : ~Owes(c, id)'
      /\ todo' = [d \in Callers |-> todo'[d]] /\ result' = [d \in Callers |-> result'[d]]
      /\ \A d \in Callers \ {c} : todo'[d] = todo[d] /\ result'[d] = result[d]
  BY <1>1, ThrowDoes
<1>3. OthersRest(c) /\ FsFunctions'
  BY <1>1, <1>2 DEF OthersRest, FsFunctions
<1> QED  BY <1>2, <1>3, EntriesKeepInv

LEMMA AskInv ==
  ASSUME FsInv, NEW c \in Callers, Ask(c)
  PROVE  FsInv'
PROOF
<1>1. PICK r \in Requests : asked' = [asked EXCEPT ![c] = r] /\ todo' = [todo EXCEPT ![c] = <<r>>]
  BY DEF Ask
<1>2. /\ result[c] = "none" /\ result' = [result EXCEPT ![c] = "pending"]
      /\ tree' = tree /\ buffer' = buffer /\ left' = left
  BY DEF Ask
<1>3. FsFunctions /\ ResultInv(c)
  BY DEF FsInv, CallerInv
<1>4. /\ asked'[c] = r /\ todo'[c] = <<r>> /\ result'[c] = "pending" /\ buffer'[c] = <<>>
      /\ FsFunctions' /\ OthersRest(c)
  <2>1. buffer[c] = <<>>
    BY <1>2, <1>3 DEF ResultInv
  <2> QED  BY <2>1, <1>1, <1>2, <1>3 DEF FsFunctions, OthersRest
<1>5. /\ r.do \in {"open", "write", "append", "makeIn", "makeAll", "rm", "cp", "mv"}
      /\ r.do = "makeIn" => r.new \in NewInodes \/ r.new.kind = "Symlink"
  BY RequestsAssumption DEF NewInodes
<1>6. <<r>> \in Seq(Range(<<r>>)) /\ Len(<<r>>) = 1 /\ <<r>>[1] = r /\ <<r>> # <<>> /\ Head(<<r>>) = r
  <2>1. <<r>> \in Seq(Range(<<r>>)) /\ Len(<<r>>) = 1 /\ <<r>>[1] = r
    BY Literals
  <2>2. <<r>> # <<>> /\ Head(<<r>>) = r
    OBVIOUS
  <2> QED  BY <2>1, <2>2
<1>7. QueueInv(c)'
  BY <1>4, <1>5, <1>6 DEF QueueInv, StepInv
<1>8. NowInv(c)' /\ \A id : ~Owes(c, id)'
  <2>1. Good(buffer[c])'
    BY <1>4, EmptyIsGood DEF Good
  <2> QED  BY <2>1, <1>4, <1>5, <1>6 DEF NowInv, Owes, Now
<1>9. ResultInv(c)'
  BY <1>4, <1>6 DEF ResultInv
<1> QED  BY <1>2, <1>4, <1>7, <1>8, <1>9, EntriesKeepInv DEF CallerInv

LEMMA CallFailsInv ==
  ASSUME FsInv, NEW c \in Callers, CallFails(c)
  PROVE  FsInv'
PROOF
<1>1. tree' = tree /\ asked' = asked /\ buffer' = buffer /\ left' = left /\ Throw(c)
  BY DEF CallFails, Looks
<1>2. left' \subseteq Callers
  BY <1>1 DEF FsInv, FsFunctions
<1> QED  BY <1>1, <1>2, ThrowStep

LEMMA OpenInv ==
  ASSUME FsInv, NEW c \in Callers, Open(c)
  PROVE  FsInv'
PROOF
<1>1. PICK id : id = ResolveFollow(tree, Now(c).path)
  OBVIOUS
<1>2. /\ todo[c] # <<>> /\ Now(c).do = "open" /\ tree' = tree /\ asked' = asked /\ buffer' = buffer /\ left' = left
      /\ Found(c, id, "File",
               IF tree[id].data = <<>> THEN <<>>
               ELSE <<[do |-> "chunk", id |-> id, size |-> Len(tree[id].data)]>>)
  BY <1>1 DEF Open, Doing, Looks
<1>3. CASE ~Is(tree, id, "File")
  <2>1. Throw(c)
    BY <1>2, <1>3 DEF Found
  <2>2. left' \subseteq Callers
    BY <1>2 DEF FsInv, FsFunctions
  <2> QED  BY <1>2, <2>1, <2>2, ThrowStep
<1>4. CASE Is(tree, id, "File") /\ tree[id].data = <<>>
  <2>1. Then(c, <<>>)
    BY <1>2, <1>4 DEF Found
  <2> QED  BY <1>2, <2>1, FitsNone, PlainStep
<1>5. CASE Is(tree, id, "File") /\ tree[id].data # <<>>
  <2>1. PICK step : step = [do |-> "chunk", id |-> id, size |-> Len(tree[id].data)]
    OBVIOUS
  <2>2. Then(c, <<step>>)
    BY <1>2, <1>5, <2>1 DEF Found
  <2>3. step.do = "chunk" /\ step.id = id /\ step.size = Len(tree[id].data)
    BY <2>1
  <2>4. StepsFit(c, <<step>>) /\ Len(<<step>>) = 1 /\ <<step>>[1] = step
    BY <2>3, FitsOne DEF StepInv
  <2>5. QueueInv(c) /\ ResultInv(c) /\ NowInv(c) /\ FsFunctions
    BY DEF FsInv, CallerInv
  <2>6. /\ QueueInv(c)' /\ todo' = [d \in Callers |-> todo'[d]] /\ result' = [d \in Callers |-> result'[d]]
        /\ \A d \in Callers \ {c} : todo'[d] = todo[d] /\ result'[d] = result[d]
        /\ result'[c] \in {"pending", "ok"} /\ (result'[c] = "pending" <=> todo'[c] # <<>>)
        /\ todo'[c] # <<>> /\ Head(todo'[c]) = step
    BY <1>2, <2>2, <2>4, <2>5, ThenDoes
  <2>7. IsFile(id) /\ Good(tree[id].data)
    BY <1>5 DEF Is, IsFile, FsInv, TreeInv, InodeInv
  <2>8. PICK size \in Nat : size = Len(tree[id].data) /\ size # 1 /\ size # 0
    <3>1. Len(tree[id].data) \in Nat /\ Len(tree[id].data) # 1 /\ Len(tree[id].data) # 0
      BY <2>7, <1>5, LenProperties, EmptySeq DEF Good
    <3> QED  BY <3>1
  <2>9. buffer[c] = <<>>
    BY <1>2, <2>5 DEF NowInv
  <2>10. Now(c)' = step
    BY <2>6 DEF Now
  <2>11. Reading(c)'
    <3>1. buffer'[c] = <<>> /\ <<>> \in Seq(Blocks) /\ Len(<<>>) = 0
      BY <1>2, <2>9, EmptySeq
    <3>2. IsFile(id)' /\ Now(c)'.id = id /\ Now(c)'.size = size /\ Len(tree'[id].data) = size
      BY <1>2, <2>3, <2>7, <2>8, <2>10 DEF IsFile
    <3> QED  BY <3>1, <3>2, <2>8 DEF Reading
  <2>12. NowInv(c)' /\ \A x : ~Owes(c, x)'
    BY <2>3, <2>10, <2>11 DEF NowInv, Owes
  <2>13. ResultInv(c)'
    BY <1>2, <2>5, <2>6 DEF ResultInv
  <2>14. OthersRest(c) /\ FsFunctions'
    BY <1>2, <2>5, <2>6 DEF OthersRest, FsFunctions
  <2> QED  BY <1>2, <2>6, <2>12, <2>13, <2>14, EntriesKeepInv DEF CallerInv
<1> QED  BY <1>3, <1>4, <1>5

LEMMA ChunkInv ==
  ASSUME FsInv, NEW c \in Callers, Chunk(c)
  PROVE  FsInv'
PROOF
<1>1. PICK now, old, data : now = Now(c) /\ old = buffer[c] /\ data = tree[now.id].data
  OBVIOUS
<1>2. PICK got : got = Append(old, data[Len(old) + 1])
  OBVIOUS
<1>3. /\ todo[c] # <<>> /\ now.do = "chunk" /\ tree' = tree /\ asked' = asked /\ left' = left
      /\ buffer' = [buffer EXCEPT ![c] = got]
      /\ Then(c, IF Len(got) < now.size THEN <<now>> ELSE <<>>)
  BY <1>1, <1>2 DEF Chunk, Doing
<1>4. QueueInv(c) /\ ResultInv(c) /\ NowInv(c) /\ FsFunctions
  BY DEF FsInv, CallerInv
<1>5. /\ IsFile(now.id) /\ old \in Seq(Blocks) /\ now.size \in Nat /\ now.size # 1
      /\ Len(old) < now.size /\ now.size <= Len(data)
      /\ \A i \in 1..Len(old) : ~old[i].append =>
           /\ i <= 2
           /\ \A j \in 1..Len(old) : ~old[j].append => old[j] = old[i]
           /\ \A j \in 1..Len(data) : ~data[j].append => data[j] = old[i]
           /\ \A d \in Callers : ~Owes(d, now.id)
  BY <1>1, <1>3, <1>4 DEF NowInv, Reading
<1>6. Good(data)
  BY <1>1, <1>5 DEF IsFile, FsInv, TreeInv, InodeInv
<1>7. PICK n, k \in Nat : n = Len(old) /\ k = Len(data)
  BY <1>5, <1>6, LenProperties DEF Good
<1>8. PICK block : block = data[n + 1]
  OBVIOUS
<1>9. n + 1 \in 1..k /\ block \in Blocks
  <2>1. n + 1 \in 1..k
    BY <1>5, <1>7
  <2> QED  BY <2>1, <1>6, <1>7, <1>8, ElementOfSeq DEF Good
<1>10. /\ got \in Seq(Blocks) /\ Len(got) = n + 1 /\ got[n + 1] = block
       /\ \A i \in 1..n : got[i] = old[i]
  <2>1. got = Append(old, block)
    BY <1>2, <1>7, <1>8
  <2> QED  BY <2>1, <1>5, <1>7, <1>9, AppendProperties
<1>11. \A i \in 1..n + 1 : i \in 1..n \/ i = n + 1
  BY <1>7
<1>12. ASSUME ~block.append
       PROVE  /\ n + 1 <= 2
              /\ \A j \in 1..k : ~data[j].append => data[j] = block
              /\ \A j \in 1..n : ~old[j].append => old[j] = block
              /\ \A d \in Callers : ~Owes(d, now.id)
  <2>1. n + 1 <= 2 /\ \A j \in 1..k : ~data[j].append => data[j] = block
    BY <1>6, <1>7, <1>8, <1>9, <1>12 DEF Good
  <2>2. \A j \in 1..n : ~old[j].append => old[j] = block
    BY <1>5, <1>7, <1>8, <1>9, <1>12
  <2>3. ASSUME NEW d \in Callers, Owes(d, now.id) PROVE FALSE
    <3>1. Unwritten(now.id)
      BY <2>3 DEF FsInv, CallerInv, NowInv, Owes
    <3> QED  BY <3>1, <1>1, <1>7, <1>8, <1>9, <1>12 DEF Unwritten
  <2> QED  BY <2>1, <2>2, <2>3
<1>13. \A i \in 1..n + 1 : ~got[i].append =>
         /\ i <= 2
         /\ \A j \in 1..n + 1 : ~got[j].append => got[j] = got[i]
         /\ \A j \in 1..k : ~data[j].append => data[j] = got[i]
         /\ \A d \in Callers : ~Owes(d, now.id)
  <2> SUFFICES ASSUME NEW i \in 1..n + 1, ~got[i].append
               PROVE  /\ i <= 2
                      /\ \A j \in 1..n + 1 : ~got[j].append => got[j] = got[i]
                      /\ \A j \in 1..k : ~data[j].append => data[j] = got[i]
                      /\ \A d \in Callers : ~Owes(d, now.id)
    OBVIOUS
  <2>1. CASE i = n + 1
    <3>1. ~block.append
      BY <2>1, <1>10
    <3> QED  BY <2>1, <3>1, <1>10, <1>11, <1>12
  <2>2. CASE i \in 1..n
    <3>1. /\ ~old[i].append /\ got[i] = old[i] /\ i <= 2
          /\ \A j \in 1..n : ~old[j].append => old[j] = old[i]
          /\ \A j \in 1..k : ~data[j].append => data[j] = old[i]
          /\ \A d \in Callers : ~Owes(d, now.id)
      BY <2>2, <1>5, <1>7, <1>10
    <3>2. ~block.append => block = old[i]
      BY <3>1, <1>8, <1>9
    <3> QED  BY <3>1, <3>2, <1>10, <1>11
  <2> QED  BY <2>1, <2>2, <1>11
<1>14. buffer'[c] = got /\ buffer' = [d \in Callers |-> buffer'[d]] /\ \A d \in Callers \ {c} : buffer'[d] = buffer[d]
  BY <1>3, <1>4 DEF FsFunctions
<1>15. CASE n + 1 < now.size
  <2>1. Then(c, <<now>>)
    BY <1>3, <1>10, <1>15
  <2>2. PICK steps : steps = <<now>> /\ StepsFit(c, steps) /\ Len(steps) = 1 /\ steps[1] = now
    BY <1>3, FitsOne DEF StepInv
  <2>3. /\ QueueInv(c)' /\ todo' = [d \in Callers |-> todo'[d]] /\ result' = [d \in Callers |-> result'[d]]
        /\ \A d \in Callers \ {c} : todo'[d] = todo[d] /\ result'[d] = result[d]
        /\ result'[c] \in {"pending", "ok"} /\ (result'[c] = "pending" <=> todo'[c] # <<>>)
        /\ todo'[c] # <<>> /\ Head(todo'[c]) = now
    <3>1. Then(c, steps) /\ Len(steps) # 0
      BY <2>1, <2>2
    <3> QED  BY <1>3, <1>4, <2>2, <3>1, ThenDoes
  <2>4. Now(c)' = now
    BY <2>3 DEF Now
  <2>5. OthersRest(c) /\ FsFunctions'
    BY <1>3, <1>4, <1>14, <2>3 DEF OthersRest, FsFunctions
  <2>6. \A d \in Callers : \A id : Owes(d, id)' <=> Owes(d, id)
    <3>1. ASSUME NEW d \in Callers PROVE Now(d)' = Now(d) /\ (todo'[d] # <<>> <=> todo[d] # <<>>)
      <4>1. CASE d = c
        BY <4>1, <2>3, <2>4, <1>1, <1>3
      <4>2. CASE d # c
        BY <4>2, <2>3 DEF Now
      <4> QED  BY <4>1, <4>2
    <3> QED  BY <3>1, <1>3 DEF Owes
  <2>7. Reading(c)'
    <3>1. IsFile(now.id)' /\ tree'[now.id].data = data
      BY <1>1, <1>3, <1>5 DEF IsFile
    <3>2. \A i \in 1..n + 1 : ~got[i].append =>
            /\ i <= 2
            /\ \A j \in 1..n + 1 : ~got[j].append => got[j] = got[i]
            /\ \A j \in 1..k : ~data[j].append => data[j] = got[i]
            /\ \A d \in Callers : ~Owes(d, now.id)'
      BY <1>13, <2>6
    <3> QED  BY <3>1, <3>2, <2>4, <1>5, <1>7, <1>10, <1>14, <1>15 DEF Reading
  <2>8. NowInv(c)' /\ \A x : ~Owes(c, x)'
    BY <2>4, <2>7, <1>3 DEF NowInv, Owes
  <2>9. ResultInv(c)'
    BY <1>3, <1>4, <2>3 DEF ResultInv
  <2> QED  BY <1>3, <2>3, <2>5, <2>8, <2>9, EntriesKeepInv DEF CallerInv
<1>16. CASE ~(n + 1 < now.size)
  <2>1. Then(c, <<>>)
    BY <1>3, <1>10, <1>16
  <2>2. n + 1 # 1
    BY <1>5, <1>7, <1>16
  <2>3. Good(buffer[c])'
    BY <2>2, <1>10, <1>13, <1>14 DEF Good
  <2>4. StepsFit(c, <<>>) /\ Len(<<>>) = 0
    BY FitsNone
  <2>5. CallerInv(c)' /\ \A x : ~Owes(c, x)'
    BY <1>3, <1>4, <2>1, <2>3, <2>4, ThenPlain
  <2>6. /\ todo' = [d \in Callers |-> todo'[d]] /\ result' = [d \in Callers |-> result'[d]]
        /\ \A d \in Callers \ {c} : todo'[d] = todo[d] /\ result'[d] = result[d]
    BY <1>3, <1>4, <2>1, <2>4, ThenDoes
  <2>7. OthersRest(c) /\ FsFunctions'
    BY <1>3, <1>4, <1>14, <2>6 DEF OthersRest, FsFunctions
  <2> QED  BY <1>3, <2>5, <2>7, EntriesKeepInv
<1> QED  BY <1>15, <1>16

\* A step that only looks, and leaves one step to do.
LEMMA LookForOne ==
  ASSUME FsInv, NEW c \in Callers, todo[c] # <<>>, Looks, Now(c).do # "chunk",
         NEW step, StepInv(c, step), step.do \notin NowOnly, Then(c, <<step>>)
  PROVE  FsInv'
PROOF
<1>1. PICK steps : steps = <<step>> /\ StepsFit(c, steps) /\ Len(steps) = 1 /\ steps[1] = step
  BY FitsOne
<1>2. Then(c, steps) /\ steps[1].do \notin NowOnly
  BY <1>1
<1> QED  BY <1>1, <1>2, PlainStep DEF Looks

LEMMA LookThrows ==
  ASSUME FsInv, NEW c \in Callers, Looks, Throw(c)
  PROVE  FsInv'
PROOF
<1>1. left' \subseteq Callers
  BY DEF Looks, FsInv, FsFunctions
<1> QED  BY <1>1, ThrowStep DEF Looks

LEMMA WriteInv ==
  ASSUME FsInv, NEW c \in Callers, Write(c)
  PROVE  FsInv'
PROOF
<1>1. PICK id, path, replace, make :
        /\ id = ResolveFollow(tree, Now(c).path) /\ path = Now(c).path
        /\ replace = [do |-> "replace", path |-> path]
        /\ make = [do |-> "makeIn", path |-> path, new |-> File(<<>>)]
  OBVIOUS
<1>2. /\ todo[c] # <<>> /\ Now(c).do = "write" /\ Looks
      /\ IF id = NoEntry THEN Then(c, <<make>>) ELSE Found(c, id, "File", <<replace>>)
  BY <1>1 DEF Write, Doing, Overwrite
<1>3. StepInv(c, make) /\ make.do \notin NowOnly /\ StepInv(c, replace) /\ replace.do \notin NowOnly
  BY <1>1 DEF StepInv, NowOnly, NewInodes
<1>4. Then(c, <<make>>) \/ Then(c, <<replace>>) \/ Throw(c)
  BY <1>2 DEF Found
<1>5. CASE Then(c, <<make>>)
  BY <1>2, <1>3, <1>5, LookForOne
<1>6. CASE Then(c, <<replace>>)
  BY <1>2, <1>3, <1>6, LookForOne
<1>7. CASE Throw(c)
  BY <1>2, <1>7, LookThrows
<1> QED  BY <1>4, <1>5, <1>6, <1>7

LEMMA ReplaceInv ==
  ASSUME FsInv, NEW c \in Callers, Replace(c)
  PROVE  FsInv'
PROOF
<1>1. PICK real : real = RealPath(tree, Now(c).path)
  OBVIOUS
<1>2. PICK step : step = [do |-> "createTmp", dir |-> Parent(tree, real), name |-> Last(real)]
  OBVIOUS
<1>3. todo[c] # <<>> /\ Now(c).do = "replace" /\ Looks /\ (Throw(c) \/ Then(c, <<step>>))
  BY <1>1, <1>2 DEF Replace, Doing
<1>4. StepInv(c, step) /\ step.do \notin NowOnly
  BY <1>2 DEF StepInv, NowOnly
<1>5. CASE Throw(c)
  BY <1>3, <1>5, LookThrows
<1>6. CASE Then(c, <<step>>)
  BY <1>3, <1>4, <1>6, LookForOne
<1> QED  BY <1>3, <1>5, <1>6

\* A new inode, and what is done about it next.
LEMMA CreatesInv ==
  ASSUME FsInv, NEW c \in Callers, todo[c] # <<>>, Now(c).do # "chunk",
         asked' = asked, buffer' = buffer, left' = left,
         NEW folder, NEW name, NEW new, new \in NewInodes \/ new.kind = "Symlink",
         Fresh <= MaxInodes, MayCreate(folder, name), tree' = Created(folder, name, new),
         NEW steps, StepsFit(c, steps), Then(c, steps),
         Len(steps) # 0 /\ steps[1].do \in NowOnly =>
           /\ steps[1].do \in {"fill", "writeAt"} /\ steps[1].id = Fresh /\ new = File(<<>>)
           /\ steps[1].do = "writeAt" => steps[1].offset = 0
  PROVE  FsInv'
PROOF
<1>1. QueueInv(c) /\ ResultInv(c) /\ NowInv(c) /\ FsFunctions /\ TreeInv
  BY DEF FsInv, CallerInv
<1>2. /\ TreeInv' /\ Fresh \notin DOMAIN tree /\ DOMAIN tree' = DOMAIN tree \cup {Fresh} /\ tree'[Fresh] = new
      /\ \A id \in DOMAIN tree :
           tree'[id].kind = tree[id].kind /\ (tree[id].kind = "File" => tree'[id] = tree[id])
  BY <1>1, CreatedIs
<1>3. /\ QueueInv(c)' /\ todo' = [d \in Callers |-> todo'[d]] /\ result' = [d \in Callers |-> result'[d]]
      /\ \A d \in Callers \ {c} : todo'[d] = todo[d] /\ result'[d] = result[d]
      /\ result'[c] \in {"pending", "ok"} /\ (result'[c] = "pending" <=> todo'[c] # <<>>)
      /\ Len(steps) # 0 => todo'[c] # <<>> /\ Head(todo'[c]) = steps[1]
      /\ Len(steps) = 0 /\ todo'[c] # <<>> => Head(todo'[c]).do \notin NowOnly
  BY <1>1, ThenDoes
<1>4. Good(buffer[c])'
  BY <1>1 DEF NowInv, Good
<1>5. OthersRest(c) /\ FsFunctions'
  BY <1>1, <1>3 DEF OthersRest, FsFunctions
<1>6. ResultInv(c)'
  BY <1>1, <1>3, <1>4 DEF ResultInv
<1>7. CASE Len(steps) # 0 /\ steps[1].do \in NowOnly
  <2>1. PICK fresh, first : fresh = Fresh /\ first = steps[1]
    OBVIOUS
  <2>2. /\ first.do \in {"fill", "writeAt"} /\ first.id = fresh /\ new = File(<<>>)
        /\ first.do = "writeAt" => first.offset = 0
    BY <1>7, <2>1
  <2>3. tree'[fresh].kind = "File" /\ tree'[fresh].data = <<>> /\ fresh \in DOMAIN tree'
    BY <1>2, <2>1, <2>2 DEF File
  <2>4. Now(c)' = first
    BY <1>3, <1>7, <2>1 DEF Now
  <2>5. IsFile(fresh)' /\ Unwritten(fresh)' /\ 0 \in 0..Len(tree'[fresh].data)
    <3>1. Len(<<>>) = 0
      OBVIOUS
    <3> QED  BY <2>3, <3>1 DEF IsFile, Unwritten
  <2>6. NowInv(c)'
    BY <1>4, <2>2, <2>4, <2>5 DEF NowInv
  <2>7. \A id : Owes(c, id)' => id = fresh
    BY <2>2, <2>4 DEF Owes
  <2> QED  BY <1>3, <1>5, <1>6, <2>1, <2>6, <2>7, CreatedKeepsInv DEF CallerInv
<1>8. CASE ~(Len(steps) # 0 /\ steps[1].do \in NowOnly)
  <2>1. CallerInv(c)' /\ \A id : ~Owes(c, id)'
    BY <1>1, <1>4, <1>8, ThenPlain
  <2> QED  BY <1>5, <2>1, CreatedKeepsInv
<1> QED  BY <1>7, <1>8

LEMMA CreateTmpInv ==
  ASSUME FsInv, NEW c \in Callers, CreateTmp(c)
  PROVE  FsInv'
PROOF
<1>1. PICK fresh, folder, fill, rename :
        /\ fresh = Fresh /\ folder = Now(c).dir
        /\ fill = [do |-> "fill", dir |-> folder, id |-> fresh]
        /\ rename = [do |-> "rename", dir |-> folder, name |-> Now(c).name]
  OBVIOUS
<1>2. PICK steps : steps = <<fill, rename>>
  OBVIOUS
<1>3. /\ todo[c] # <<>> /\ Now(c).do = "createTmp" /\ asked' = asked /\ buffer' = buffer /\ left' = left
      /\ Fresh <= MaxInodes /\ MayCreate(folder, TmpName(c)) /\ tree' = Created(folder, TmpName(c), File(<<>>))
      /\ Then(c, steps)
  BY <1>1, <1>2 DEF CreateTmp, Doing, OverwriteSteps, Changes
<1>4. /\ StepInv(c, fill) /\ StepInv(c, rename) /\ rename.do \notin NowOnly
      /\ fill.do = "fill" /\ fill.id = fresh
  BY <1>1 DEF StepInv, NowOnly
<1>5. StepsFit(c, steps) /\ Len(steps) = 2 /\ steps[1] = fill
  BY <1>2, <1>4, FitsTwo
<1>6. File(<<>>) \in NewInodes
  BY DEF NewInodes
<1>7. PICK name, new : name = TmpName(c) /\ new = File(<<>>)
  OBVIOUS
<1> QED  BY <1>1, <1>3, <1>4, <1>5, <1>6, <1>7, CreatesInv

LEMMA MakeInv ==
  ASSUME FsInv, NEW c \in Callers, Make(c)
  PROVE  FsInv'
PROOF
<1>1. PICK folder, name, new, write :
        folder = Now(c).dir /\ name = Now(c).name /\ new = Now(c).new
        /\ write = [do |-> "writeAt", id |-> Fresh, offset |-> 0]
  OBVIOUS
<1>2. /\ todo[c] # <<>> /\ Now(c).do = "make" /\ asked' = asked /\ buffer' = buffer /\ left' = left
      /\ Fresh <= MaxInodes /\ MayCreate(folder, name) /\ tree' = Created(folder, name, new)
      /\ Then(c, IF new.kind = "File" THEN <<write>> ELSE <<>>)
  BY <1>1 DEF Make, Doing, Changes
<1>3. new \in NewInodes \/ new.kind = "Symlink"
  <2>1. QueueInv(c)
    BY DEF FsInv, CallerInv
  <2>2. todo[c] \in Seq(Range(todo[c]))
    BY <2>1 DEF QueueInv
  <2>3. 1 \in 1..Len(todo[c]) /\ Now(c) = todo[c][1]
    BY <1>2, <2>2, LenProperties, EmptySeq DEF Now
  <2> QED  BY <1>1, <1>2, <2>1, <2>3 DEF QueueInv, StepInv
<1>4. CASE new.kind = "File"
  <2>1. new = File(<<>>)
    <3>1. Directory(<<>>).kind # "File"
      BY DEF Directory
    <3> QED  BY <1>3, <1>4, <3>1 DEF NewInodes
  <2>2. write.do = "writeAt" /\ write.id = Fresh /\ write.offset = 0 /\ StepInv(c, write)
    BY <1>1 DEF StepInv
  <2>3. PICK steps : steps = <<write>> /\ StepsFit(c, steps) /\ Len(steps) = 1 /\ steps[1] = write
    BY <2>2, FitsOne
  <2>4. Then(c, steps)
    BY <1>2, <1>4, <2>3
  <2> QED  BY <1>2, <1>3, <2>1, <2>2, <2>3, <2>4, CreatesInv
<1>5. CASE new.kind # "File"
  <2>1. PICK steps : steps = <<>> /\ StepsFit(c, steps) /\ Len(steps) = 0
    BY FitsNone
  <2>2. Then(c, steps)
    BY <1>2, <1>5, <2>1
  <2> QED  BY <1>2, <1>3, <2>1, <2>2, CreatesInv
<1> QED  BY <1>4, <1>5

\* A step that only looks, and leaves steps to do.
LEMMA LookForSteps ==
  ASSUME FsInv, NEW c \in Callers, todo[c] # <<>>, Looks, Now(c).do # "chunk",
         NEW steps, StepsFit(c, steps), Then(c, steps), Len(steps) # 0 => steps[1].do \notin NowOnly
  PROVE  FsInv'
PROOF
BY PlainStep DEF Looks

\* A write of the inode that the caller's first step names.
LEMMA WriteDataInv ==
  ASSUME FsInv, NEW c \in Callers, todo[c] # <<>>, Now(c).do \in {"fill", "writeAt"},
         NEW id, id = Now(c).id, NEW offset, offset = IF Now(c).do = "fill" THEN 0 ELSE Now(c).offset,
         WriteData(c, id, offset)
  PROVE  FsInv'
PROOF
<1>1. QueueInv(c) /\ ResultInv(c) /\ NowInv(c) /\ FsFunctions /\ TreeInv
  BY DEF FsInv, CallerInv
<1>2. PICK data, new, r : data = tree[id].data /\ new = Content(c) /\ r = Overlaid(data, offset, new)
  OBVIOUS
<1>3. /\ tree' = [tree EXCEPT ![id].data = r] /\ Then(c, <<>>)
      /\ asked' = asked /\ buffer' = buffer /\ left' = left
  BY <1>2 DEF WriteData, Changes
<1>4. IsFile(id) /\ tree[id] = File(data) /\ Good(data)
  BY <1>1, <1>2 DEF NowInv, TreeInv, InodeInv, IsFile
<1>5. Len(data) \in Nat
  BY <1>4, LenProperties DEF Good
<1>6. /\ asked[c].do # "append" => Unwritten(id) /\ offset = 0
      /\ offset \in 0..Len(data) /\ Good(buffer[c])
  BY <1>1, <1>2, <1>5 DEF NowInv
<1>7. /\ DOMAIN tree' = DOMAIN tree /\ tree'[id].kind = "File" /\ tree'[id].data = r /\ tree'[id] = File(r)
      /\ \A i \in DOMAIN tree \ {id} : tree'[i] = tree[i]
  <2>1. DOMAIN tree' = DOMAIN tree /\ tree'[id] = [tree[id] EXCEPT !.data = r]
        /\ \A i \in DOMAIN tree \ {id} : tree'[i] = tree[i]
    BY <1>3, <1>4 DEF IsFile
  <2>2. [File(data) EXCEPT !.data = r] = File(r) /\ File(r).kind = "File" /\ File(r).data = r
    BY DEF File
  <2> QED  BY <2>1, <2>2, <1>4
<1>8. Good(new) /\ (asked[c].do = "append" => \A i \in 1..Len(new) : new[i].append)
  BY <1>2, <1>6, ContentIsGood
<1>9. /\ Good(r) /\ Len(data) <= Len(r)
      /\ asked[c].do = "append" =>
           \A i \in 1..Len(r) : ~r[i].append => i <= Len(data) /\ r[i] = data[i]
  <2>1. CASE asked[c].do = "append"
    <3>1. OnlyAppended(new)
      BY <2>1, <1>8 DEF OnlyAppended
    <3>2. Good(data) /\ Good(new) /\ offset \in 0..Len(data)
      BY <1>4, <1>6, <1>8
    <3>3. Extends(Overlaid(data, offset, new), data)
      BY <3>1, <3>2, AppendIsGood, Zenon
    <3>4. Extends(r, data)
      BY <1>2, <3>3, Zenon
    <3> QED  BY <3>4, Zenon DEF Extends
  <2>2. CASE asked[c].do # "append"
    <3>1. \A i \in 1..Len(data) : data[i].append
      BY <2>2, <1>2, <1>6 DEF Unwritten
    <3>2. r = Overlaid(data, 0, new)
      BY <2>2, <1>2, <1>6
    <3> QED  BY <2>2, <3>1, <3>2, <1>4, <1>8, WriteIsGood
  <2> QED  BY <2>1, <2>2
<1>10. TreeInv'
  <2>1. ASSUME NEW i \in DOMAIN tree' PROVE InodeInv(i)'
    <3>1. CASE i = id
      <4>1. Good(tree[id].data)'
        BY <1>7, <1>9 DEF Good
      <4> QED  BY <3>1, <4>1, <1>7 DEF InodeInv
    <3>2. CASE i # id
      <4>1. tree'[i] = tree[i] /\ InodeInv(i)
        BY <3>2, <1>1, <1>7 DEF TreeInv
      <4> QED  BY <4>1, <1>7 DEF InodeInv, Good
    <3> QED  BY <3>1, <3>2
  <2> QED  BY <2>1, <1>1, <1>7 DEF TreeInv
<1>11. Good(buffer[c])'
  BY <1>3, <1>6 DEF Good
<1>12. StepsFit(c, <<>>) /\ Len(<<>>) = 0
  BY FitsNone
<1>13. CallerInv(c)' /\ \A i : ~Owes(c, i)'
  BY <1>1, <1>3, <1>11, <1>12, ThenPlain
<1>14. /\ todo' = [d \in Callers |-> todo'[d]] /\ result' = [d \in Callers |-> result'[d]]
       /\ \A d \in Callers \ {c} : todo'[d] = todo[d] /\ result'[d] = result[d]
  BY <1>1, <1>3, <1>12, ThenDoes
<1>15. FsFunctions'
  BY <1>1, <1>3, <1>14 DEF FsFunctions
<1>16. ASSUME NEW i \in DOMAIN tree
       PROVE  /\ tree'[i].kind = tree[i].kind
              /\ tree[i].kind = "File" =>
                   /\ Len(tree[i].data) <= Len(tree'[i].data)
                   /\ \/ Owes(c, i)
                      \/ \A j \in 1..Len(tree'[i].data) : ~tree'[i].data[j].append =>
                           j \in 1..Len(tree[i].data) /\ tree'[i].data[j] = tree[i].data[j]
  <2>1. CASE i = id
    <3>1. CASE asked[c].do = "append"
      <4>1. Len(r) \in Nat
        BY <1>9, LenProperties DEF Good
      <4>2. \A j \in 1..Len(r) : ~r[j].append => j \in 1..Len(data) /\ r[j] = data[j]
        BY <3>1, <4>1, <1>5, <1>9
      <4> QED  BY <4>2, <2>1, <1>2, <1>4, <1>7, <1>9 DEF IsFile
    <3>2. CASE asked[c].do # "append"
      <4>1. Owes(c, i)
        BY <3>2, <2>1 DEF Owes
      <4> QED  BY <4>1, <2>1, <1>2, <1>4, <1>7, <1>9 DEF IsFile
    <3> QED  BY <3>1, <3>2
  <2>2. CASE i # id
    <3>1. tree'[i] = tree[i]
      BY <2>2, <1>7
    <3>2. ASSUME tree[i].kind = "File" PROVE Len(tree[i].data) \in Nat
      BY <3>2, <1>1, LenProperties DEF TreeInv, InodeInv, Good
    <3> QED  BY <3>1, <3>2
  <2> QED  BY <2>1, <2>2
<1>17. Others(c)
  BY <1>3, <1>7, <1>13, <1>14, <1>16 DEF Others
<1> QED  BY <1>10, <1>13, <1>15, <1>17, StepKeepsInv

LEMMA FillInv ==
  ASSUME FsInv, NEW c \in Callers, Fill(c)
  PROVE  FsInv'
PROOF
<1>1. PICK id : id = Now(c).id
  OBVIOUS
<1>2. todo[c] # <<>> /\ Now(c).do = "fill" /\ WriteData(c, id, 0)
  BY <1>1 DEF Fill, Doing
<1>3. PICK offset : offset = 0
  OBVIOUS
<1> QED  BY <1>1, <1>2, <1>3, WriteDataInv

LEMMA WriteAtInv ==
  ASSUME FsInv, NEW c \in Callers, WriteAt(c)
  PROVE  FsInv'
PROOF
<1>1. PICK id, offset : id = Now(c).id /\ offset = Now(c).offset
  OBVIOUS
<1>2. todo[c] # <<>> /\ Now(c).do = "writeAt" /\ WriteData(c, id, offset)
  BY <1>1 DEF WriteAt, Doing
<1>3. offset = IF Now(c).do = "fill" THEN 0 ELSE Now(c).offset
  BY <1>1, <1>2
<1> QED  BY <1>1, <1>2, <1>3, WriteDataInv

LEMMA TreeHolds ==
  ASSUME FsInv
  PROVE  TreeInv
PROOF
BY DEF FsInv

LEMMA RenameInv ==
  ASSUME FsInv, NEW c \in Callers, Rename(c) \/ RenameAnswerLost(c)
  PROVE  FsInv'
PROOF
<1>1. PICK folder, old, new : folder = Now(c).dir /\ old = TmpName(c) /\ new = Now(c).name
  OBVIOUS
<1>2. /\ todo[c] # <<>> /\ Now(c).do = "rename" /\ MayRename(folder, old, folder, new)
      /\ tree' = Renamed(folder, old, folder, new) /\ asked' = asked /\ buffer' = buffer /\ left' = left
      /\ Then(c, <<>>) \/ Throw(c)
  BY <1>1 DEF Rename, RenameAnswerLost, Doing, Changes
<1>3. OnlyEntries(tree, tree')
  BY <1>2, TreeHolds, RenamedIs
<1>4. CASE Then(c, <<>>)
  BY <1>2, <1>3, <1>4, FitsNone, PlainStep
<1>5. CASE Throw(c)
  <2>1. left' \subseteq Callers
    BY <1>2 DEF FsInv, FsFunctions
  <2> QED  BY <1>2, <1>3, <1>5, <2>1, ThrowStep
<1> QED  BY <1>2, <1>4, <1>5

LEMMA OverwriteFailsInv ==
  ASSUME FsInv, NEW c \in Callers, OverwriteFails(c)
  PROVE  FsInv'
PROOF
<1>1. PICK folder, old : folder = Now(c).dir /\ old = TmpName(c)
  OBVIOUS
<1>2. /\ asked' = asked /\ buffer' = buffer /\ Throw(c)
      /\ \/ MayUnlink(folder, old) /\ tree' = WithoutEntry(tree, folder, old) /\ left' = left
         \/ left' = left \cup {c} /\ tree' = tree
  BY <1>1 DEF OverwriteFails, Cleaned
<1>3. tree' = tree \/ OnlyEntries(tree, tree')
  <2>1. CASE MayUnlink(folder, old) /\ tree' = WithoutEntry(tree, folder, old)
    <3>1. Lookup(tree, folder, old) # NoEntry
      BY <2>1 DEF MayUnlink
    <3> QED  BY <3>1, <2>1, TreeHolds, UnlinkedIs
  <2> QED  BY <2>1, <1>2
<1>4. left' \subseteq Callers
  BY <1>2 DEF FsInv, FsFunctions
<1> QED  BY <1>2, <1>3, <1>4, ThrowStep

LEMMA UnlinkInv ==
  ASSUME FsInv, NEW c \in Callers, Unlink(c)
  PROVE  FsInv'
PROOF
<1>1. PICK folder, name : folder = Now(c).dir /\ name = Now(c).name
  OBVIOUS
<1>2. /\ todo[c] # <<>> /\ Now(c).do = "unlink" /\ Lookup(tree, folder, name) # NoEntry
      /\ tree' = WithoutEntry(tree, folder, name) /\ asked' = asked /\ buffer' = buffer /\ left' = left
      /\ Then(c, <<>>)
  BY <1>1 DEF Unlink, Doing, Changes, MayUnlink
<1>3. OnlyEntries(tree, tree')
  BY <1>2, TreeHolds, UnlinkedIs
<1> QED  BY <1>2, <1>3, FitsNone, PlainStep

LEMMA MovesInv ==
  ASSUME FsInv, NEW c \in Callers, Moves(c)
  PROVE  FsInv'
PROOF
<1>1. PICK d1, n1, d2, n2 : d1 = Now(c).from /\ n1 = Now(c).old /\ d2 = Now(c).to /\ n2 = Now(c).new
  OBVIOUS
<1>2. /\ todo[c] # <<>> /\ Now(c).do = "move" /\ MayRename(d1, n1, d2, n2)
      /\ tree' = Renamed(d1, n1, d2, n2) /\ asked' = asked /\ buffer' = buffer /\ left' = left
      /\ Then(c, <<>>)
  BY <1>1 DEF Moves, Doing, Changes
<1>3. OnlyEntries(tree, tree')
  BY <1>2, TreeHolds, RenamedIs
<1> QED  BY <1>2, <1>3, FitsNone, PlainStep

\* As many steps as there are names.
LEMMA FitsEach ==
  ASSUME NEW c, NEW n \in Nat, NEW steps, DOMAIN steps = 1..n, steps = [i \in 1..n |-> steps[i]],
         \A i \in 1..n : StepInv(c, steps[i]) /\ steps[i].do \notin NowOnly
  PROVE  StepsFit(c, steps) /\ Len(steps) = n
PROOF
<1>1. steps \in [1..n -> Range(steps)]
  BY DEF Range
<1>2. steps \in Seq(Range(steps))
  BY <1>1, SeqDef
<1>3. Len(steps) = n
  <2>1. Len(steps) \in Nat /\ 1..Len(steps) = 1..n
    BY <1>2, LenProperties
  <2> QED  BY <2>1
<1> QED  BY <1>2, <1>3 DEF StepsFit

LEMMA ListingIs ==
  ASSUME TreeInv, NEW id, Is(tree, id, "Directory"), NEW names \in Listings(id)
  PROVE  \E n \in Nat : Len(names) = n
PROOF
<1>1. PICK S : S = DOMAIN tree[id].entries
  OBVIOUS
<1>2. IsFiniteSet(S)
  BY <1>1, DirectoryIs DEF EntriesIn
<1>3. PICK n \in Nat : n = Cardinality(S)
  BY <1>2, FS_CardinalityType
<1>4. names \in [1..n -> S]
  BY <1>1, <1>3 DEF Listings, SetToSeqs
<1>5. names \in Seq(S)
  BY <1>4, SeqDef
<1>6. Len(names) \in Nat
  BY <1>5, LenProperties
<1> QED  BY <1>6

LEMMA Concatenated ==
  ASSUME NEW a, NEW b
  PROVE  /\ <<>> \o <<>> = <<>> /\ <<>> \o <<b>> = <<b>> /\ <<a>> \o <<>> = <<a>>
         /\ <<a>> \o <<b>> = <<a, b>>
PROOF
<1>1. PICK S, x, y, xy : S = {a, b} /\ x = <<a>> /\ y = <<b>> /\ xy = <<a, b>>
  OBVIOUS
<1>2. /\ x \in Seq(S) /\ Len(x) = 1 /\ x[1] = a /\ y \in Seq(S) /\ Len(y) = 1 /\ y[1] = b
      /\ xy \in Seq(S) /\ Len(xy) = 2 /\ xy[1] = a /\ xy[2] = b
  BY <1>1
<1>3. /\ x \o y \in Seq(S) /\ Len(x \o y) = 1 + 1
      /\ \A i \in 1..1 + 1 : (x \o y)[i] = IF i <= 1 THEN x[i] ELSE y[i - 1]
  BY <1>2, ConcatProperties
<1>4. \A i \in 1..2 : (x \o y)[i] = xy[i]
  <2>1. \A i \in 1..2 : i = 1 \/ i = 2
    OBVIOUS
  <2> QED  BY <2>1, <1>2, <1>3
<1>5. x \o y = xy
  BY <1>2, <1>3, <1>4, SeqEqual
<1>6. <<>> \in Seq(S) /\ <<>> \o y = y /\ x \o <<>> = x /\ <<>> \o <<>> = <<>>
  BY <1>2, EmptySeq, ConcatEmptySeq
<1> QED  BY <1>1, <1>5, <1>6

LEMMA RemoveEntriesInv ==
  ASSUME FsInv, NEW c \in Callers, RemoveEntries(c)
  PROVE  FsInv'
PROOF
<1>1. PICK id, path, flags : id = ResolveFollow(tree, Now(c).path) /\ path = Now(c).path /\ flags = Now(c).flags
  OBVIOUS
<1>2. /\ todo[c] # <<>> /\ Now(c).do = "rmEntries" /\ Looks
      /\ IF Is(tree, id, "Directory")
           THEN \E names \in Listings(id) :
                  Then(c, [i \in 1..Len(names) |-> Rm(Append(path, names[i]), flags)])
           ELSE Throw(c)
  BY <1>1 DEF RemoveEntries, Doing
<1>3. CASE Is(tree, id, "Directory")
  <2>1. PICK names \in Listings(id) : Then(c, [i \in 1..Len(names) |-> Rm(Append(path, names[i]), flags)])
    BY <1>2, <1>3
  <2>2. PICK n \in Nat : Len(names) = n
    BY <1>3, TreeHolds, ListingIs
  <2>3. PICK steps : steps = [i \in 1..n |-> Rm(Append(path, names[i]), flags)]
    OBVIOUS
  <2>4. \A i \in 1..n : StepInv(c, steps[i]) /\ steps[i].do \notin NowOnly
    <3> SUFFICES ASSUME NEW i \in 1..n PROVE StepInv(c, steps[i]) /\ steps[i].do \notin NowOnly
      OBVIOUS
    <3>1. steps[i].do = "rm"
      BY <2>3 DEF Rm
    <3> QED  BY <3>1 DEF StepInv, NowOnly
  <2>5. StepsFit(c, steps) /\ Len(steps) = n
    BY <2>3, <2>4, FitsEach
  <2>6. Then(c, steps)
    BY <2>1, <2>2, <2>3
  <2>7. Len(steps) # 0 => steps[1].do \notin NowOnly
    BY <2>4, <2>5
  <2> QED  BY <1>2, <2>5, <2>6, <2>7, LookForSteps
<1>4. CASE ~Is(tree, id, "Directory")
  BY <1>2, <1>4, LookThrows
<1> QED  BY <1>3, <1>4

LEMMA CopyEntriesInv ==
  ASSUME FsInv, NEW c \in Callers, CopyEntries(c)
  PROVE  FsInv'
PROOF
<1>1. PICK id, path, to : id = ResolveFollow(tree, Now(c).path) /\ path = Now(c).path /\ to = Now(c).to
  OBVIOUS
<1>2. /\ todo[c] # <<>> /\ Now(c).do = "cpEntries" /\ Looks
      /\ IF Is(tree, id, "Directory")
           THEN \E names \in Listings(id) :
                  Then(c, [i \in 1..Len(names) |-> Cp(Append(path, names[i]), Append(to, names[i]))])
           ELSE Throw(c)
  BY <1>1 DEF CopyEntries, Doing
<1>3. CASE Is(tree, id, "Directory")
  <2>1. PICK names \in Listings(id) :
          Then(c, [i \in 1..Len(names) |-> Cp(Append(path, names[i]), Append(to, names[i]))])
    BY <1>2, <1>3
  <2>2. PICK n \in Nat : Len(names) = n
    BY <1>3, TreeHolds, ListingIs
  <2>3. PICK steps : steps = [i \in 1..n |-> Cp(Append(path, names[i]), Append(to, names[i]))]
    OBVIOUS
  <2>4. \A i \in 1..n : StepInv(c, steps[i]) /\ steps[i].do \notin NowOnly
    <3> SUFFICES ASSUME NEW i \in 1..n PROVE StepInv(c, steps[i]) /\ steps[i].do \notin NowOnly
      OBVIOUS
    <3>1. steps[i].do = "cp"
      BY <2>3 DEF Cp
    <3> QED  BY <3>1 DEF StepInv, NowOnly
  <2>5. StepsFit(c, steps) /\ Len(steps) = n
    BY <2>3, <2>4, FitsEach
  <2>6. Then(c, steps)
    BY <2>1, <2>2, <2>3
  <2>7. Len(steps) # 0 => steps[1].do \notin NowOnly
    BY <2>4, <2>5
  <2> QED  BY <1>2, <2>5, <2>6, <2>7, LookForSteps
<1>4. CASE ~Is(tree, id, "Directory")
  BY <1>2, <1>4, LookThrows
<1> QED  BY <1>3, <1>4

LEMMA MoveInv ==
  ASSUME FsInv, NEW c \in Callers, Move(c)
  PROVE  FsInv'
PROOF
<1>1. PICK step : step = [do |-> "move", from |-> Parent(tree, Now(c).path), old |-> Last(Now(c).path),
                          to |-> Parent(tree, Now(c).to), new |-> Last(Now(c).to)]
  OBVIOUS
<1>2. todo[c] # <<>> /\ Now(c).do = "mv" /\ Looks /\ (Throw(c) \/ Then(c, <<step>>))
  BY <1>1 DEF Move, Doing
<1>3. StepInv(c, step) /\ step.do \notin NowOnly
  BY <1>1 DEF StepInv, NowOnly
<1>4. CASE Throw(c)
  BY <1>2, <1>4, LookThrows
<1>5. CASE Then(c, <<step>>)
  BY <1>2, <1>3, <1>5, LookForOne
<1> QED  BY <1>2, <1>4, <1>5

LEMMA UnlinkAtInv ==
  ASSUME FsInv, NEW c \in Callers, UnlinkAt(c)
  PROVE  FsInv'
PROOF
<1>1. PICK step : step = [do |-> "unlink", dir |-> Parent(tree, Now(c).path), name |-> Last(Now(c).path)]
  OBVIOUS
<1>2. todo[c] # <<>> /\ Now(c).do = "unlinkAt" /\ Looks /\ (Throw(c) \/ Then(c, <<step>>))
  BY <1>1 DEF UnlinkAt, Doing
<1>3. StepInv(c, step) /\ step.do \notin NowOnly
  BY <1>1 DEF StepInv, NowOnly
<1>4. CASE Throw(c)
  BY <1>2, <1>4, LookThrows
<1>5. CASE Then(c, <<step>>)
  BY <1>2, <1>3, <1>5, LookForOne
<1> QED  BY <1>2, <1>4, <1>5

LEMMA MakeInInv ==
  ASSUME FsInv, NEW c \in Callers, MakeIn(c)
  PROVE  FsInv'
PROOF
<1>1. PICK step : step = [do |-> "make", dir |-> Parent(tree, Now(c).path), name |-> Last(Now(c).path),
                          new |-> Now(c).new]
  OBVIOUS
<1>2. todo[c] # <<>> /\ Now(c).do = "makeIn" /\ Looks /\ (Throw(c) \/ Then(c, <<step>>))
  BY <1>1 DEF MakeIn, Doing
<1>3. StepInv(c, step) /\ step.do \notin NowOnly
  <2>1. QueueInv(c)
    BY DEF FsInv, CallerInv
  <2>2. todo[c] \in Seq(Range(todo[c]))
    BY <2>1 DEF QueueInv
  <2>3. 1 \in 1..Len(todo[c]) /\ Now(c) = todo[c][1]
    BY <1>2, <2>2, LenProperties, EmptySeq DEF Now
  <2>4. Now(c).new \in NewInodes \/ Now(c).new.kind = "Symlink"
    BY <1>2, <2>1, <2>3 DEF QueueInv, StepInv
  <2>5. step.do = "make" /\ step.new = Now(c).new
    BY <1>1
  <2> QED  BY <2>4, <2>5 DEF StepInv, NowOnly
<1>4. CASE Throw(c)
  BY <1>2, <1>4, LookThrows
<1>5. CASE Then(c, <<step>>)
  BY <1>2, <1>3, <1>5, LookForOne
<1> QED  BY <1>2, <1>4, <1>5

LEMMA MakeAllInv ==
  ASSUME FsInv, NEW c \in Callers, MakeAll(c)
  PROVE  FsInv'
PROOF
<1>1. PICK a, b : a = Mkdir(SubSeq(Now(c).path, 1, Now(c).k)) /\ b = MkdirAll(Now(c).path, Now(c).k + 1)
  OBVIOUS
<1>2. PICK s, t : /\ s = <<>> \/ s = <<a>>
                  /\ t = <<>> \/ t = <<b>>
                  /\ Doing(c, "makeAll") /\ Looks /\ Then(c, s \o t)
  BY <1>1 DEF MakeAll
<1>3. PICK steps : steps = s \o t
  OBVIOUS
<1>4. todo[c] # <<>> /\ Now(c).do = "makeAll" /\ Then(c, steps) /\ steps \in {<<>>, <<a>>, <<b>>, <<a, b>>}
  BY <1>2, <1>3, Concatenated DEF Doing
<1>5. StepInv(c, a) /\ StepInv(c, b) /\ a.do \notin NowOnly /\ b.do \notin NowOnly
  BY <1>1 DEF StepInv, NowOnly, NewInodes, Mkdir, MkdirAll
<1>6. StepsFit(c, steps) /\ (Len(steps) # 0 => steps[1].do \notin NowOnly)
  <2>1. CASE steps = <<>>
    BY <2>1, FitsNone
  <2>2. CASE steps = <<a>>
    BY <2>2, <1>5, FitsOne
  <2>3. CASE steps = <<b>>
    BY <2>3, <1>5, FitsOne
  <2>4. CASE steps = <<a, b>>
    BY <2>4, <1>5, FitsTwo
  <2> QED  BY <1>4, <2>1, <2>2, <2>3, <2>4
<1> QED  BY <1>2, <1>4, <1>6, LookForSteps

LEMMA RemovesInv ==
  ASSUME FsInv, NEW c \in Callers, Removes(c)
  PROVE  FsInv'
PROOF
<1>1. PICK a, b : a = RmEntries(Now(c).path, Now(c).flags) /\ b = [do |-> "unlinkAt", path |-> Now(c).path]
  OBVIOUS
<1>2. PICK s : s = <<>> \/ s = <<a>>
  OBVIOUS
<1>3. /\ todo[c] # <<>> /\ Now(c).do = "rm" /\ Looks
      /\ \/ Then(c, <<>>)
         \/ Throw(c)
         \/ Then(c, <<a>> \o <<b>>)
         \/ Then(c, <<>> \o <<b>>)
  BY <1>1 DEF Removes, Doing
<1>4. /\ StepInv(c, a) /\ StepInv(c, b) /\ a.do \notin NowOnly /\ b.do \notin NowOnly
  BY <1>1 DEF StepInv, NowOnly, RmEntries
<1>5. PICK ab : ab = <<a, b>>
  OBVIOUS
<1>6. Then(c, <<>>) \/ Throw(c) \/ Then(c, ab) \/ Then(c, <<b>>)
  BY <1>3, <1>5, Concatenated
<1>7. CASE Then(c, <<>>)
  BY <1>3, <1>7, FitsNone, LookForSteps
<1>8. CASE Throw(c)
  BY <1>3, <1>8, LookThrows
<1>9. CASE Then(c, <<b>>)
  BY <1>3, <1>4, <1>9, LookForOne
<1>10. CASE Then(c, ab)
  <2>1. StepsFit(c, ab) /\ (Len(ab) # 0 => ab[1].do \notin NowOnly)
    BY <1>4, <1>5, FitsTwo
  <2> QED  BY <1>3, <1>10, <2>1, LookForSteps
<1> QED  BY <1>6, <1>7, <1>8, <1>9, <1>10

\* A copy forgets what the one before it has read.
LEMMA CopyInv ==
  ASSUME FsInv, NEW c \in Callers, Copy(c)
  PROVE  FsInv'
PROOF
<1>1. PICK all, entries, read, write :
        /\ all = MkdirAll(Now(c).to, 1)
        /\ entries = [do |-> "cpEntries", path |-> Now(c).path, to |-> Now(c).to]
        /\ read = ReadFile(Now(c).path) /\ write = WriteFile(Now(c).to)
  OBVIOUS
<1>2. PICK folder, file : folder = <<all, entries>> /\ file = <<read, write>>
  OBVIOUS
<1>3. /\ todo[c] # <<>> /\ Now(c).do = "cp" /\ tree' = tree /\ asked' = asked /\ left' = left
      /\ buffer' = [buffer EXCEPT ![c] = <<>>] /\ (Throw(c) \/ Then(c, folder) \/ Then(c, file))
  BY <1>1, <1>2 DEF Copy, Doing
<1>4. QueueInv(c) /\ ResultInv(c) /\ FsFunctions
  BY DEF FsInv, CallerInv
<1>5. /\ StepInv(c, all) /\ StepInv(c, entries) /\ StepInv(c, read) /\ StepInv(c, write)
      /\ all.do \notin NowOnly /\ entries.do \notin NowOnly /\ write.do \notin NowOnly /\ read.do = "open"
  BY <1>1 DEF StepInv, NowOnly, MkdirAll, ReadFile, WriteFile
<1>6. buffer'[c] = <<>> /\ buffer' = [d \in Callers |-> buffer'[d]] /\ \A d \in Callers \ {c} : buffer'[d] = buffer[d]
  BY <1>3, <1>4 DEF FsFunctions
<1>7. Good(buffer[c])'
  BY <1>6, EmptyIsGood DEF Good
<1>8. CASE Throw(c)
  <2>1. /\ CallerInv(c)' /\ \A id : ~Owes(c, id)'
        /\ todo' = [d \in Callers |-> todo'[d]] /\ result' = [d \in Callers |-> result'[d]]
        /\ \A d \in Callers \ {c} : todo'[d] = todo[d] /\ result'[d] = result[d]
    BY <1>3, <1>4, <1>8, ThrowDoes
  <2>2. OthersRest(c) /\ FsFunctions'
    BY <1>3, <1>4, <1>6, <2>1 DEF OthersRest, FsFunctions
  <2> QED  BY <1>3, <2>1, <2>2, EntriesKeepInv
<1>9. CASE Then(c, folder)
  <2>1. StepsFit(c, folder) /\ (Len(folder) # 0 => folder[1].do \notin NowOnly)
    BY <1>2, <1>5, FitsTwo
  <2>2. CallerInv(c)' /\ \A id : ~Owes(c, id)'
    BY <1>3, <1>4, <1>7, <1>9, <2>1, ThenPlain
  <2>3. /\ todo' = [d \in Callers |-> todo'[d]] /\ result' = [d \in Callers |-> result'[d]]
        /\ \A d \in Callers \ {c} : todo'[d] = todo[d] /\ result'[d] = result[d]
    BY <1>3, <1>4, <1>9, <2>1, ThenDoes
  <2>4. OthersRest(c) /\ FsFunctions'
    BY <1>3, <1>4, <1>6, <2>3 DEF OthersRest, FsFunctions
  <2> QED  BY <1>3, <2>2, <2>4, EntriesKeepInv
<1>10. CASE Then(c, file)
  <2>1. StepsFit(c, file) /\ Len(file) = 2 /\ file[1] = read
    BY <1>2, <1>5, FitsTwo
  <2>2. /\ QueueInv(c)' /\ todo' = [d \in Callers |-> todo'[d]] /\ result' = [d \in Callers |-> result'[d]]
        /\ \A d \in Callers \ {c} : todo'[d] = todo[d] /\ result'[d] = result[d]
        /\ result'[c] \in {"pending", "ok"} /\ (result'[c] = "pending" <=> todo'[c] # <<>>)
        /\ todo'[c] # <<>> /\ Head(todo'[c]) = read
    BY <1>3, <1>4, <1>10, <2>1, ThenDoes
  <2>3. OthersRest(c) /\ FsFunctions'
    BY <1>3, <1>4, <1>6, <2>2 DEF OthersRest, FsFunctions
  <2>4. Now(c)'.do = "open"
    BY <2>2, <1>5 DEF Now
  <2>5. NowInv(c)' /\ \A id : ~Owes(c, id)'
    BY <2>4, <1>6, <1>7 DEF NowInv, Owes
  <2>6. ResultInv(c)'
    BY <1>3, <1>4, <1>7, <2>2 DEF ResultInv
  <2> QED  BY <1>3, <2>2, <2>3, <2>5, <2>6, EntriesKeepInv DEF CallerInv
<1> QED  BY <1>3, <1>8, <1>9, <1>10

LEMMA AppendToInv ==
  ASSUME FsInv, NEW c \in Callers, AppendTo(c)
  PROVE  FsInv'
PROOF
<1>1. PICK id, write, step :
        /\ id = ResolveFollow(tree, Now(c).path) /\ write = WriteFile(Now(c).path)
        /\ step = [do |-> "writeAt", id |-> id, offset |-> Len(tree[id].data)]
  OBVIOUS
<1>2. /\ todo[c] # <<>> /\ Now(c).do = "append" /\ Looks
      /\ \/ Then(c, <<write>>)
         \/ Throw(c)
         \/ Is(tree, id, "File") /\ Then(c, <<step>>)
  BY <1>1 DEF AppendTo, Doing, Found
<1>3. CASE Then(c, <<write>>)
  <2>1. StepInv(c, write) /\ write.do \notin NowOnly
    BY <1>1 DEF StepInv, NowOnly, WriteFile
  <2> QED  BY <1>2, <1>3, <2>1, LookForOne
<1>4. CASE Throw(c)
  BY <1>2, <1>4, LookThrows
<1>5. CASE Is(tree, id, "File") /\ Then(c, <<step>>)
  <2>1. QueueInv(c) /\ ResultInv(c) /\ NowInv(c) /\ FsFunctions
    BY DEF FsInv, CallerInv
  <2>2. asked[c].do = "append"
    <3>1. todo[c] \in Seq(Range(todo[c]))
      BY <2>1 DEF QueueInv
    <3>2. 1 \in 1..Len(todo[c]) /\ Now(c) = todo[c][1]
      BY <1>2, <3>1, LenProperties, EmptySeq DEF Now
    <3> QED  BY <1>2, <2>1, <3>2 DEF QueueInv, StepInv
  <2>3. step.do = "writeAt" /\ step.id = id /\ step.offset = Len(tree[id].data)
    BY <1>1
  <2>4. StepsFit(c, <<step>>) /\ Len(<<step>>) = 1 /\ <<step>>[1] = step
    BY <2>3, FitsOne DEF StepInv
  <2>5. tree' = tree /\ asked' = asked /\ buffer' = buffer /\ left' = left
    BY <1>2 DEF Looks
  <2>6. /\ QueueInv(c)' /\ todo' = [d \in Callers |-> todo'[d]] /\ result' = [d \in Callers |-> result'[d]]
        /\ \A d \in Callers \ {c} : todo'[d] = todo[d] /\ result'[d] = result[d]
        /\ result'[c] \in {"pending", "ok"} /\ (result'[c] = "pending" <=> todo'[c] # <<>>)
        /\ todo'[c] # <<>> /\ Head(todo'[c]) = step
    BY <1>2, <1>5, <2>1, <2>4, <2>5, ThenDoes
  <2>7. OthersRest(c) /\ FsFunctions'
    BY <2>1, <2>5, <2>6 DEF OthersRest, FsFunctions
  <2>8. Good(buffer[c])'
    BY <1>2, <2>1, <2>5 DEF NowInv, Good
  <2>9. IsFile(id)' /\ step.offset \in 0..Len(tree'[id].data)
    <3>1. IsFile(id)
      BY <1>5 DEF Is, IsFile
    <3>2. Len(tree[id].data) \in Nat
      BY <3>1, LenProperties DEF FsInv, TreeInv, InodeInv, IsFile, Good
    <3> QED  BY <3>1, <3>2, <2>3, <2>5 DEF IsFile
  <2>10. Now(c)' = step /\ asked'[c].do = "append"
    BY <2>2, <2>5, <2>6 DEF Now
  <2>11. NowInv(c)' /\ \A x : ~Owes(c, x)'
    BY <2>3, <2>8, <2>9, <2>10 DEF NowInv, Owes
  <2>12. ResultInv(c)'
    BY <2>1, <2>5, <2>6, <2>8 DEF ResultInv
  <2> QED  BY <2>5, <2>6, <2>7, <2>11, <2>12, EntriesKeepInv DEF CallerInv
<1> QED  BY <1>2, <1>3, <1>4, <1>5

LEMMA FsInitInv == FsInit => FsInv
PROOF
<1> SUFFICES ASSUME FsInit PROVE FsInv
  OBVIOUS
<1>1. /\ tree = InitialTree /\ left = {}
      /\ asked = [c \in Callers |-> Nothing] /\ todo = [c \in Callers |-> <<>>]
      /\ buffer = [c \in Callers |-> <<>>] /\ result = [c \in Callers |-> "none"]
  BY DEF FsInit
<1>2. FsFunctions
  BY <1>1 DEF FsFunctions
<1>3. ASSUME NEW id \in DOMAIN tree PROVE InodeInv(id)
  <2>1. PICK inode : inode = tree[id]
    OBVIOUS
  <2>2. Initially(inode)
    BY <1>1, <2>1, FsAssumption
  <2>3. CASE inode = File(<<>>)
    <3>1. inode.kind = "File" /\ inode.data = <<>>
      BY <2>3 DEF File
    <3> QED  BY <2>1, <2>3, <3>1, EmptyIsGood DEF InodeInv
  <2>4. CASE inode = File(<<Old, Old>>)
    <3>1. inode.kind = "File" /\ inode.data = <<Old, Old>>
      BY <2>4 DEF File
    <3>2. PICK b : b = Old
      OBVIOUS
    <3>3. b \in Blocks /\ <<b, b>> \in Seq(Blocks) /\ Len(<<b, b>>) = 2 /\ \A i \in 1..2 : <<b, b>>[i] = b
      BY <3>2 DEF Blocks
    <3>4. Good(<<b, b>>)
      BY <3>3 DEF Good
    <3> QED  BY <2>1, <2>4, <3>1, <3>2, <3>4 DEF InodeInv
  <2>5. CASE /\ inode.kind = "Directory" /\ inode = Directory(inode.entries)
             /\ IsFiniteSet(DOMAIN inode.entries) /\ Range(inode.entries) \subseteq DOMAIN InitialTree
    <3>1. \A n \in DOMAIN inode.entries : inode.entries[n] \in DOMAIN tree
      BY <2>5, <1>1 DEF Range
    <3> QED  BY <2>1, <2>5, <3>1 DEF InodeInv, EntriesIn
  <2>6. CASE inode.kind = "Symlink"
    BY <2>1, <2>6 DEF InodeInv
  <2> QED  BY <2>2, <2>3, <2>4, <2>5, <2>6 DEF Initially
<1>4. TreeInv
  BY <1>1, <1>3, FsAssumption DEF TreeInv
<1>5. OneWriter
  BY <1>1 DEF OneWriter, Owes
<1>6. ASSUME NEW c \in Callers PROVE CallerInv(c)
  <2>1. todo[c] = <<>> /\ asked[c] = Nothing /\ buffer[c] = <<>> /\ result[c] = "none"
    BY <1>1
  <2>2. QueueInv(c)
    BY <2>1, Literals DEF QueueInv
  <2>3. NowInv(c) /\ ResultInv(c)
    BY <2>1 DEF NowInv, ResultInv
  <2> QED  BY <2>2, <2>3 DEF CallerInv
<1> QED  BY <1>2, <1>4, <1>5, <1>6 DEF FsInv

LEMMA FsNextInv == FsInv /\ [FsNext]_fsVars => FsInv'
PROOF
<1> SUFFICES ASSUME FsInv, [FsNext]_fsVars PROVE FsInv'
  OBVIOUS
<1>1. CASE UNCHANGED fsVars
  <2>1. tree' = tree /\ asked' = asked /\ todo' = todo /\ buffer' = buffer /\ result' = result /\ left' = left
    BY <1>1 DEF fsVars
  <2>2. FsFunctions' /\ TreeInv' /\ OneWriter'
    BY <2>1 DEF FsInv, FsFunctions, TreeInv, InodeInv, Good, EntriesIn, OneWriter, Owes, Now
  <2>3. ASSUME NEW c \in Callers PROVE CallerInv(c)'
    <3>1. CallerInv(c) /\ Now(c)' = Now(c) /\ \A d \in Callers : \A id : Owes(d, id)' <=> Owes(d, id)
      BY <2>1 DEF FsInv, Now, Owes
    <3>2. QueueInv(c)' /\ ResultInv(c)'
      BY <2>1, <3>1 DEF CallerInv, QueueInv, StepInv, ResultInv, Good
    <3>3. NowInv(c)'
      <4>1. NowInv(c)
        BY <3>1 DEF CallerInv
      <4>2. Reading(c) => Reading(c)'
        BY <2>1, <3>1 DEF Reading, IsFile
      <4> QED  BY <2>1, <3>1, <4>1, <4>2 DEF NowInv, IsFile, Unwritten, Good
    <3> QED  BY <3>2, <3>3 DEF CallerInv
  <2> QED  BY <2>2, <2>3 DEF FsInv
<1>2. ASSUME NEW c \in Callers,
             Ask(c) \/ CallFails(c) \/ Open(c) \/ Chunk(c) \/ Write(c) \/ Replace(c) \/ CreateTmp(c) \/ Fill(c)
             \/ Rename(c) \/ OverwriteFails(c) \/ RenameAnswerLost(c) \/ AppendTo(c) \/ WriteAt(c)
      PROVE  FsInv'
  BY <1>2, AskInv, CallFailsInv, OpenInv, ChunkInv, WriteInv, ReplaceInv, CreateTmpInv, FillInv, RenameInv,
     OverwriteFailsInv, AppendToInv, WriteAtInv
<1>3. ASSUME NEW c \in Callers,
             MakeIn(c) \/ Make(c) \/ MakeAll(c) \/ Removes(c) \/ RemoveEntries(c) \/ UnlinkAt(c) \/ Unlink(c)
             \/ Copy(c) \/ CopyEntries(c) \/ Move(c) \/ Moves(c)
      PROVE  FsInv'
  BY <1>3, MakeInInv, MakeInv, MakeAllInv, RemovesInv, RemoveEntriesInv, UnlinkAtInv, UnlinkInv, CopyInv,
     CopyEntriesInv, MoveInv, MovesInv
<1> QED  BY <1>1, <1>2, <1>3, Zenon DEF FsNext

LEMMA FsAlways == FsSpec => []FsInv
PROOF
BY FsInitInv, FsNextInv, PTL DEF FsSpec

\* The tree is well formed at every moment: inodes are numbered from one, every
\* entry leads to one of them, and a call is pending while it has steps left.
THEOREM FsTypes == FsSpec => []FsTypeOK
PROOF
<1>1. FsInv => FsTypeOK
  <2> SUFFICES ASSUME FsInv PROVE FsTypeOK
    OBVIOUS
  <2>1. FsFunctions /\ TreeInv /\ \A c \in Callers : ResultInv(c)
    BY DEF FsInv, CallerInv
  <2>2. PICK n \in 1..MaxInodes : DOMAIN tree = 1..n
    BY <2>1 DEF TreeInv
  <2>3. MaxInodes \in Nat
    BY FsAssumption
  <2>4. Cardinality(1..n) = n
    <3>1. n \in Nat /\ 1 \in Int /\ n \in Int
      BY <2>3
    <3>2. Cardinality(1..n) = IF 1 > n THEN 0 ELSE n - 1 + 1
      BY <3>1, FS_Interval
    <3> QED  BY <3>1, <3>2, <2>3
  <2>5. DOMAIN tree = 1..Cardinality(DOMAIN tree) /\ Cardinality(DOMAIN tree) <= MaxInodes
    BY <2>2, <2>3, <2>4
  <2>6. /\ asked \in [Callers -> Requests \cup {Nothing}]
        /\ result \in [Callers -> {"none", "pending", "ok", "failed"}] /\ left \subseteq Callers
        /\ \A c \in Callers : result[c] = "pending" <=> todo[c] # <<>>
    BY <2>1 DEF FsFunctions, ResultInv
  <2>7. ASSUME NEW d \in DOMAIN tree, tree[d].kind = "Directory"
        PROVE  Range(tree[d].entries) \subseteq DOMAIN tree
    BY <2>1, <2>7 DEF TreeInv, InodeInv, EntriesIn, Range
  <2> QED  BY <2>5, <2>6, <2>7 DEF FsTypeOK
<1> QED  BY <1>1, FsAlways, PTL

\* Nobody who reads or copies a file gets a part of a write: while one caller
\* overwrites it behind a link, another removes it and a third takes its name.
THEOREM ReadsStayWhole == FsSpec => []ReadsAreWhole
PROOF
<1>1. FsInv => ReadsAreWhole
  <2> SUFFICES ASSUME FsInv, NEW c \in Callers, result[c] = "ok"
               PROVE  OneWrite(buffer[c]) \/ Appended(buffer[c])
    BY DEF ReadsAreWhole
  <2>1. Good(buffer[c])
    BY DEF FsInv, CallerInv, ResultInv
  <2> QED  BY <2>1, GoodIsWhole
<1> QED  BY <1>1, FsAlways, PTL

-----------------------------------------------------------------------------
(* The composition. *)

\* A behaviour of the composition is one of each component.
THEOREM AdaptersAreIndependent == Spec => FsSpec /\ EveSpec /\ WsSpec
PROOF
<1> DEFINE all == <<subject, fsVars, eveVars, wsVars>>
<1>1. Init => FsInit /\ EveInit /\ WsInit
  BY DEF Init
<1>2. [Next]_all => [FsNext]_fsVars /\ [EveNext]_eveVars /\ [WsNext]_wsVars
  BY DEF Next, FsAlone, EveAlone, WorkspaceAlone
<1> QED  BY <1>1, <1>2, PTL DEF Spec, FsSpec, EveSpec, WsSpec

\* Every component keeps the types of its variables, for any tree, callers,
\* templates, sessions, mounts and keys.
THEOREM AdaptersTypes == Spec => []AdaptersTypeOK
PROOF
<1>1. FsTypeOK /\ EveTypeOK /\ WsTypeOK => AdaptersTypeOK
  BY DEF AdaptersTypeOK
<1> QED  BY <1>1, AdaptersAreIndependent, FsTypes, EveTypes, WorkspaceTypes, PTL
================================================================================
