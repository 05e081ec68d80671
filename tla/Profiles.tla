------------------------------- MODULE Profiles -------------------------------
(***************************************************************************)
(* Profiles of the command line (packages/disk/src/cli/common.ts,          *)
(* profiles.ts, credentials.ts): one file lists the profiles and names the *)
(* current one, and the API key of each is in a file of its own.  Commands *)
(* of several terminals read and replace these files, and may fail or be   *)
(* killed at any step.                                                     *)
(*                                                                         *)
(* A profile's entry and its key are named after the command that created  *)
(* them.  What is typed at the prompt is empty, a valid key or an invalid  *)
(* one.                                                                    *)
(***************************************************************************)
EXTENDS Naturals, Sequences, FiniteSets

CONSTANTS
  Terminals,    \* each runs one command
  ProfileNames, \* the region's name, then the names with a suffix
  Earlier,      \* a command that ran before
  NoProfile

ASSUME ProfilesAssumption ==
  /\ IsFiniteSet(Terminals) /\ NoProfile # Earlier /\ "torn" \notin {NoProfile, Earlier}
  /\ Terminals \cap {NoProfile, Earlier, "torn"} = {}

VARIABLES
  config,     \* the profile configuration
  keys,       \* the credential files
  command,    \* what each terminal runs, and how far it is
  overlapped  \* whether two commands have ever run at the same time

profileVars == <<config, keys, command, overlapped>>

NamedProfiles == {ProfileNames[i] : i \in DOMAIN ProfileNames}

\* The names are different, and as a suffix counts up they do not run out.
ASSUME NamesAssumption ==
  /\ ProfileNames \in Seq(NamedProfiles) /\ Len(ProfileNames) > Cardinality(Terminals)
  /\ \A i, j \in DOMAIN ProfileNames : ProfileNames[i] = ProfileNames[j] => i = j
  /\ NoProfile \notin NamedProfiles

EmptyConfig == [whole |-> TRUE, by |-> [p \in NamedProfiles |-> NoProfile], current |-> NoProfile]
TornConfig == [EmptyConfig EXCEPT !.whole = FALSE]
Known(file) == {p \in NamedProfiles : file.by[p] # NoProfile}

NoCommand == [do |-> "none", name |-> NoProfile, at |-> "idle", file |-> "key", read |-> EmptyConfig,
              raw |-> FALSE, typed |-> "empty", got |-> NoProfile]
CommandOver == {"done", "failed", "killed"}
Active == {t \in Terminals : command[t].at \notin CommandOver \cup {"idle"}}

ProfilesTypeOK ==
  /\ config.current \in NamedProfiles \cup {NoProfile} /\ config.whole \in BOOLEAN
  /\ \A p \in NamedProfiles :
       config.by[p] \in Terminals \cup {NoProfile, Earlier} /\ keys[p] \in Terminals \cup {NoProfile, Earlier, "torn"}
  /\ \A t \in Terminals :
       /\ command[t].name \in NamedProfiles \cup {NoProfile}
       /\ command[t].at \in CommandOver \cup {"idle", "prompt", "probe", "open", "write", "rename", "rm", "reload", "read"}
       /\ command[t].typed \in {"empty", "valid", "invalid"}
  /\ overlapped \in BOOLEAN

ProfilesInit ==
  /\ config \in {EmptyConfig, [EmptyConfig EXCEPT !.by[ProfileNames[1]] = Earlier, !.current = ProfileNames[1]]}
  /\ keys = config.by
  /\ command = [t \in Terminals |-> NoCommand] /\ overlapped = FALSE

\* A command that is over has forgotten what it read, except for what it tells.
Becomes(t, r) ==
  command' = [command EXCEPT ![t] = IF r.at \in CommandOver /\ r.do # "resolve"
                                    THEN [r EXCEPT !.read = EmptyConfig, !.typed = "empty"] ELSE r]
Reaches(t, at) == Becomes(t, [command[t] EXCEPT !.at = at])
FilesStay == UNCHANGED <<config, keys>>

\* Every command begins by loading the profiles; what it read stays with it.
LoadsThen(t, r) ==
  /\ command[t].at = "idle"
  /\ Becomes(t, r) /\ overlapped' = (overlapped \/ (Active # {} /\ r.at \notin CommandOver)) /\ FilesStay

Loads(t, do, name, at) ==
  LoadsThen(t, [NoCommand EXCEPT !.do = do, !.name = name, !.at = at, !.read = config, !.raw = at = "prompt"])

-----------------------------------------------------------------------------
(* profile create. *)

\* The key is asked for at the terminal, in raw mode, or given.
Creates(t, name) ==
  \/ name \in Known(config) /\ Loads(t, "create", name, "failed")
  \/ name \notin Known(config) /\ \E at \in {"prompt", "probe"} : Loads(t, "create", name, at)

PromptFinishes(t, at) == Becomes(t, [command[t] EXCEPT !.at = at, !.raw = FALSE])

\* A character, backspace, Enter or Ctrl-C.
Types(t) ==
  /\ command[t].at = "prompt" /\ FilesStay /\ UNCHANGED overlapped
  /\ \/ \E typed \in {"valid", "invalid"} : Becomes(t, [command[t] EXCEPT !.typed = typed])
     \/ command[t].typed # "empty" /\ \E typed \in {"empty", "valid", "invalid"} : Becomes(t, [command[t] EXCEPT !.typed = typed])
     \/ command[t].typed = "valid" /\ PromptFinishes(t, "probe")
     \/ command[t].typed # "valid" /\ Becomes(t, [command[t] EXCEPT !.typed = "empty"])
     \/ PromptFinishes(t, "failed")

\* The region that accepts the key, and the first name that was free.
FreeName(t) == ProfileNames[CHOOSE i \in DOMAIN ProfileNames :
                 /\ ProfileNames[i] \notin Known(command[t].read)
                 /\ \A j \in 1..i - 1 : ProfileNames[j] \in Known(command[t].read)]

Probes(t) ==
  /\ command[t].at = "probe" /\ FilesStay /\ UNCHANGED overlapped
  /\ LET name == IF command[t].name = NoProfile THEN FreeName(t) ELSE command[t].name
     IN  Becomes(t, [command[t] EXCEPT !.at = "open", !.name = name, !.read.by[name] = t, !.read.current = name])

-----------------------------------------------------------------------------
(* Files are replaced: a temporary file is opened, written and renamed. *)

Visible_InPlace(at, old, torn, new) == IF at = "open" THEN torn ELSE new
Visible(at, old, torn, new) == IF at = "rename" THEN new ELSE old

Writing(t, file) == command[t].at \in {"open", "write", "rename"} /\ command[t].file = file

NextStep(t) ==
  \/ command[t].at = "open" /\ Reaches(t, "write")
  \/ command[t].at = "write" /\ Reaches(t, "rename")
  \/ /\ command[t].at = "rename" /\ command[t].file = "key"
     /\ Becomes(t, [command[t] EXCEPT !.at = "open", !.file = "config"])
  \/ command[t].at = "rename" /\ command[t].file = "config" /\ Reaches(t, "done")

WritesKey(t) ==
  /\ Writing(t, "key") /\ NextStep(t)
  /\ keys' = [keys EXCEPT ![command[t].name] = Visible(command[t].at, @, "torn", t)]
  /\ UNCHANGED <<config, overlapped>>

SavesProfiles(t) ==
  /\ Writing(t, "config") /\ NextStep(t)
  /\ config' = Visible(command[t].at, config, TornConfig, command[t].read)
  /\ UNCHANGED <<keys, overlapped>>

\* Any step may throw, and the program may be killed at any.  A temporary file
\* stays behind then, under a name nobody else uses.
CommandThrows(t) ==
  /\ t \in Active /\ command[t].at # "prompt"
  /\ Reaches(t, "failed") /\ FilesStay /\ UNCHANGED overlapped

CommandKilled(t) == t \in Active /\ Reaches(t, "killed") /\ FilesStay /\ UNCHANGED overlapped

-----------------------------------------------------------------------------
(* The other commands. *)

Uses(t, name) ==
  \/ name \notin Known(config) /\ Loads(t, "use", name, "failed")
  \/ /\ name \in Known(config)
     /\ LoadsThen(t, [NoCommand EXCEPT !.do = "use", !.name = name, !.at = "open", !.file = "config",
                        !.read = [config EXCEPT !.current = name]])

Deletes(t, name) == Loads(t, "delete", name, IF name \in Known(config) THEN "rm" ELSE "failed")

RemovesKey(t) ==
  /\ command[t].at = "rm" /\ Reaches(t, "reload")
  /\ keys' = [keys EXCEPT ![command[t].name] = NoProfile] /\ UNCHANGED <<config, overlapped>>

\* deleteProfile loads the profiles again.
WithoutProfile(file, name) ==
  [file EXCEPT !.by[name] = NoProfile, !.current = IF @ = name THEN NoProfile ELSE @]

DropsProfile(t) ==
  LET name == command[t].name IN
  /\ command[t].at = "reload" /\ FilesStay /\ UNCHANGED overlapped
  /\ IF name \in Known(config)
       THEN Becomes(t, [command[t] EXCEPT !.at = "open", !.file = "config", !.read = WithoutProfile(config, name)])
       ELSE Reaches(t, "done")

\* Any command of the disk: the selected profile, then its key.
Resolves(t, name) == Loads(t, "resolve", name, IF name \in Known(config) THEN "read" ELSE "failed")

ReadsKey(t) ==
  LET key == keys[command[t].name] IN
  /\ command[t].at = "read" /\ FilesStay /\ UNCHANGED overlapped
  /\ Becomes(t, [command[t] EXCEPT !.at = IF key = NoProfile THEN "failed" ELSE "done", !.got = key])

ProfilesNext ==
  \E t \in Terminals :
    \/ \E name \in NamedProfiles \cup {NoProfile} : Creates(t, name)
    \/ \E name \in NamedProfiles : Uses(t, name) \/ Deletes(t, name) \/ Resolves(t, name)
    \/ Types(t) \/ Probes(t) \/ WritesKey(t) \/ SavesProfiles(t) \/ RemovesKey(t) \/ DropsProfile(t) \/ ReadsKey(t)
    \/ CommandThrows(t) \/ CommandKilled(t)

ProfilesSpec == ProfilesInit /\ [][ProfilesNext]_profileVars

-----------------------------------------------------------------------------
\* The files are whole at every moment, whatever is killed, and the current
\* profile is one of the list, also when commands overlap and one's change is
\* lost.
FilesAreWhole ==
  /\ config.whole /\ \A p \in NamedProfiles : keys[p] # "torn"
  /\ config.current \in Known(config) \cup {NoProfile}

\* As long as no two commands overlapped: the key of a profile is the one it
\* was created with, or there is none because a deletion was broken off; a
\* command sends the key of one profile never to the address of another; and a
\* profile that was made current is still there.
BrokenOff(p) == \E t \in Terminals : command[t].do = "delete" /\ command[t].name = p /\ command[t].at # "done"
KeysMatch ==
  ~overlapped =>
    /\ \A p \in Known(config) : keys[p] = config.by[p] \/ (keys[p] = NoProfile /\ BrokenOff(p))
    /\ \A t \in Terminals : command[t].do = "resolve" /\ command[t].at = "done" =>
         command[t].got = command[t].read.by[command[t].name]

\* The terminal is as it was when a prompt is over, unless the program was
\* killed at it.
TerminalIsRestored == \A t \in Terminals : command[t].raw => command[t].at \in {"prompt", "killed"}

ProfilesAreUsable == FilesAreWhole /\ KeysMatch /\ TerminalIsRestored
=============================================================================
