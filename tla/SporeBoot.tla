----------------------------- MODULE SporeBoot -----------------------------
(***************************************************************************)
(* A session that boots (src/spores/bootSpores.ts), discovers the spores of *)
(* three tiers (src/spores/SporeRegistry.ts) and germinates one, while      *)
(* installations run: the spore of one name, which may be bundled,          *)
(* installed by McpInstall, part of the project, or several of these; the    *)
(* later tier overrides the earlier, so that the bundled one is only a       *)
(* default that the model leaves out.                                       *)
(***************************************************************************)
EXTENDS McpInstall

CONSTANT Nobody   \* nothing has been read

ASSUME BootAssumptions == Nobody \notin Origin

VARIABLES
  boot,       \* the await at which the session stands
  loading,    \* what loadSpore has read of the installed spore
  listing,    \* the command files it has still to read
  found,      \* the registry has the installed spore, and none that overrides it
  body,       \* the installation the body in the prompt is from
  disturbed   \* observed: the directory was torn or changed while it was read

bootVars == <<boot, loading, listing, found, body, disturbed>>
vars == <<installVars, bootVars>>

Loaded == [manifest : Origin \cup {Nobody}, skill : Origin \cup {Nobody},
           commands : SUBSET (Commands \X Origin)]

NothingLoaded == [manifest |-> Nobody, skill |-> Nobody, commands |-> {}]

TypeOK ==
  /\ InstallTypeOK
  /\ boot \in {"listing", "manifest", "skill", "commands", "reading",
               "project", "pin", "running", "crashed"}
  /\ loading \in Loaded
  /\ listing \subseteq Commands
  /\ found \in BOOLEAN
  /\ body \in Origin \cup {Nobody}
  /\ disturbed \in BOOLEAN

Init ==
  /\ InstallInit
  /\ boot = "listing"
  /\ loading = NothingLoaded
  /\ listing = {}
  /\ found = FALSE
  /\ body = Nobody
  /\ disturbed = FALSE

-----------------------------------------------------------------------------
(* SporeRegistry.discover                                                  *)

\* Mutant of ListUserTier: the directories being staged are spores, too.
ListStagedTier ==
  /\ boot = "listing"
  /\ \/ /\ boot' = IF target = Absent THEN "project" ELSE "manifest"
        /\ UNCHANGED loading
     \/ \E i \in Installs :
          /\ staging[i] # Absent /\ {"manifest", "skill"} \subseteq staging[i]
          /\ loading' = [loading EXCEPT !.manifest = i, !.skill = i]
          /\ boot' = "reading"
  /\ disturbed' = (torn # {})
  /\ UNCHANGED <<listing, found, body>>

\* readdir of the user tier: directories, but none whose name starts with a dot.
ListUserTier ==
  /\ boot = "listing"
  /\ boot' = IF target = Absent THEN "project" ELSE "manifest"
  /\ disturbed' = (torn # {})
  /\ UNCHANGED <<loading, listing, found, body>>

\* The next file of loadSpore is read; without it the directory is skipped.
ReadManifest ==
  /\ boot = "manifest"
  /\ IF "manifest" \in Files
       THEN loading' = [loading EXCEPT !.manifest = target["manifest"]] /\ boot' = "skill"
       ELSE loading' = NothingLoaded /\ boot' = "project"
  /\ UNCHANGED <<listing, found, body, disturbed>>

ReadSkill ==
  /\ boot = "skill"
  /\ IF "skill" \in Files
       THEN loading' = [loading EXCEPT !.skill = target["skill"]] /\ boot' = "commands"
       ELSE loading' = NothingLoaded /\ boot' = "project"
  /\ UNCHANGED <<listing, found, body, disturbed>>

\* loadCommands: readdir, which finds nothing where there is no commands/.
ListCommands ==
  /\ boot = "commands"
  /\ listing' = Files \cap Commands
  /\ boot' = "reading"
  /\ UNCHANGED <<loading, found, body, disturbed>>

\* A command file is read; one that is gone is skipped.
ReadCommand ==
  /\ boot = "reading"
  /\ \E c \in listing :
       /\ listing' = listing \ {c}
       /\ loading' = IF c \in Files
                       THEN [loading EXCEPT !.commands = @ \cup {<<c, target[c]>>}]
                       ELSE loading
  /\ UNCHANGED <<boot, found, body, disturbed>>

SporeLoaded ==
  /\ boot = "reading" /\ listing = {}
  /\ found' = TRUE
  /\ boot' = "project"
  /\ UNCHANGED <<loading, listing, body, disturbed>>

\* The project has no such spore, or one that takes the place of the installed one.
ScanProject ==
  /\ boot = "project"
  /\ \/ UNCHANGED <<found, loading>>
     \/ found' = FALSE /\ loading' = NothingLoaded
  /\ boot' = "pin"
  /\ UNCHANGED <<listing, body, disturbed>>

-----------------------------------------------------------------------------
(* The session                                                             *)

\* bootSpores reads the SKILL.md again when the pin names the spore; an error ends the
\* process.
BootPinned ==
  /\ boot = "pin"
  /\ \/ boot' = "running" /\ UNCHANGED body
     \/ /\ found
        /\ IF "skill" \in Files
             THEN body' = target["skill"] /\ boot' = "running"
             ELSE boot' = "crashed" /\ UNCHANGED body
  /\ UNCHANGED <<loading, listing, found, disturbed>>

\* germinate_spore reads it once more, and fails when it is gone.
Germinate ==
  /\ boot = "running" /\ found
  /\ "skill" \in Files
  /\ body' = target["skill"]
  /\ UNCHANGED <<boot, loading, listing, found, disturbed>>

BootStep ==
  \/ ListUserTier \/ ReadManifest \/ ReadSkill \/ ListCommands
  \/ ReadCommand \/ SporeLoaded \/ ScanProject \/ BootPinned \/ Germinate

\* While its files are read, or may be read again, a change of the directory shows.
Reading == boot \notin {"listing", "crashed"}

\* What an installation's step means to the session.
Noticed ==
  /\ disturbed' = (disturbed \/ (Reading /\ target' # target))
  /\ UNCHANGED <<boot, loading, listing, found, body>>

Next == (InstallStep /\ Noticed) \/ (BootStep /\ UNCHANGED installVars)

Spec == Init /\ [][Next]_vars

\* Files are read and written and timers fire; a server need not answer, and nobody need
\* start or kill anything.
FairSpec == Spec /\ \A i \in Installs : WF_vars(Proceed(i) /\ Noticed)

-----------------------------------------------------------------------------
(* Properties                                                              *)

\* What a session has found and germinated of an installed spore is of installations that
\* were completed, never of files being staged; and of one only, with all its
\* commands, unless a regeneration changed the directory since the
\* session came to read it.
FoundIsWhole ==
  found =>
    /\ {loading.manifest, loading.skill} \cup {e[2] : e \in loading.commands} \subseteq Completed
    /\ body \in Completed \cup {Nobody}
    /\ ~disturbed =>
         /\ loading.manifest = loading.skill
         /\ loading.commands = commands[loading.skill] \X {loading.skill}
         /\ body \in {loading.skill, Nobody}

-----------------------------------------------------------------------------
(* The inductive invariant                                                 *)

\* What has been read at each await.
ReadSoFar ==
  /\ boot \in {"listing", "manifest", "skill", "commands", "reading"} => ~found
  /\ ~found \/ boot \in {"project", "pin"} => body = Nobody
  /\ boot \in {"listing", "manifest"} => loading = NothingLoaded
  /\ boot \in {"skill", "commands", "reading"} => loading.manifest \in Completed
  /\ boot \in {"commands", "reading"} => loading.skill \in Completed
  /\ boot \in {"skill", "commands"} => loading.commands = {}
  /\ {e[2] : e \in loading.commands} \subseteq Completed

\* As long as nothing has changed the directory, what is read is what is there.
AsIs ==
  Reading /\ ~disturbed =>
    /\ torn = {}
    /\ boot \in {"manifest", "skill", "commands", "reading"} \/ found =>
         \E i \in Completed :
           /\ WholeOf(i)
           /\ boot # "manifest" => loading.manifest = i
           /\ boot \in {"commands", "reading"} => loading.skill = i
           /\ boot = "reading" =>
                /\ listing \subseteq commands[i]
                /\ loading.commands = (commands[i] \ listing) \X {i}
           /\ found =>
                /\ loading.skill = i
                /\ loading.commands = commands[i] \X {i}
                /\ body \in {i, Nobody}

BootInv == InstallInv /\ TypeOK /\ ReadSoFar /\ AsIs /\ FoundIsWhole
=============================================================================
