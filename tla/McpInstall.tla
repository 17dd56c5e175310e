----------------------------- MODULE McpInstall -----------------------------
(***************************************************************************)
(* `myceliate mcp install` (src/cli/mcpInstall.ts): processes that install  *)
(* a spore of one name into ~/.myceliate/skills, while its user edits the   *)
(* notes in its SKILL.md.                                                  *)
(*                                                                         *)
(* An installation asks the MCP server for its tools, writes the files of   *)
(* the spore into a staging directory of its own and renames that to the    *)
(* target.  With --regenerate it first reads the notes below the marker of  *)
(* the SKILL.md that is there, and removes the directory before the rename. *)
(* A directory is the files in it, each with the installation it is from.   *)
(***************************************************************************)
EXTENDS Naturals, FiniteSets

CONSTANTS Installs,   \* the processes
          Original,   \* the installation of a spore that is there at the start
          Commands,   \* the names of files in commands/ that tools can give rise to
          Notes,      \* what the user may write below the marker
          Absent      \* no such directory

File == {"manifest", "skill"} \cup Commands
Origin == Installs \cup {Original}

ASSUME InstallAssumptions ==
  /\ Original \notin Installs
  /\ {"manifest", "skill"} \cap Commands = {}
  /\ \A S \in SUBSET File : Absent \notin [S -> Origin]
  /\ \A S \in SUBSET File : Absent # S

VARIABLES
  pc,          \* where each process is
  regenerate,  \* whether it has --regenerate
  kept,        \* belowMarkerContent
  staging,     \* the files in its staging directory, while it runs: what it may leave
               \* there nobody reads
  commands,    \* commandFiles of each installation
  target,      \* the directory of the spore
  notes,       \* the notes in its SKILL.md; none without one
  authored,    \* observed: the notes the user has written
  known,       \* observed: the notes there were when a process with --regenerate began
  torn,        \* observed: the processes that have removed files of this directory
  removed      \* observed: the processes that have removed a SKILL.md

observed == <<authored, known, torn, removed>>
installVars == <<pc, regenerate, kept, staging, commands, target, notes, observed>>

Directory == UNION {[S -> Origin] : S \in SUBSET File}

InstallTypeOK ==
  /\ pc \in [Installs -> {"idle", "connecting", "writing", "removing", "renaming",
                          "done", "failed"}]
  /\ regenerate \in [Installs -> BOOLEAN]
  /\ kept \in [Installs -> SUBSET Notes]
  /\ staging \in [Installs -> {Absent} \cup SUBSET File]
  /\ commands \in [Origin -> SUBSET Commands]
  /\ target \in {Absent} \cup Directory
  /\ notes \subseteq Notes /\ authored \subseteq Notes
  /\ known \in [Installs -> SUBSET Notes]
  /\ torn \subseteq Installs /\ removed \subseteq Installs

\* All files of an installation: the manifest, SKILL.md and one per command.
Contents(i) == {"manifest", "skill"} \cup commands[i]

InstallInit ==
  /\ pc = [i \in Installs |-> "idle"]
  /\ regenerate \in [Installs -> BOOLEAN]
  /\ kept = [i \in Installs |-> {}]
  /\ staging = [i \in Installs |-> Absent]
  /\ commands \in {[i \in Origin |-> IF i = Original THEN S ELSE {}] : S \in SUBSET Commands}
  /\ target \in {Absent, [f \in Contents(Original) |-> Original]}
  /\ notes = {} /\ authored = {}
  /\ known = [i \in Installs |-> {}]
  /\ torn = {} /\ removed = {}

\* The files at the target.
Files == IF target = Absent THEN {} ELSE DOMAIN target

Become(i, state) == pc' = [pc EXCEPT ![i] = state]

\* The catch removes the staging directory and throws; a killed process leaves it.
Abandon(i) ==
  /\ Become(i, "failed")
  /\ staging' = [staging EXCEPT ![i] = Absent]

\* The user writes a note below the marker.
WriteNote(n) ==
  /\ "skill" \in Files
  /\ n \notin authored
  /\ notes' = notes \cup {n}
  /\ authored' = authored \cup {n}
  /\ UNCHANGED <<pc, regenerate, kept, staging, commands, target, known, torn, removed>>

-----------------------------------------------------------------------------
(* runMcpInstall                                                           *)

\* Mutant of NotesFound: a comparison of the marker's index with 0 instead of -1.
NoNotesFound(i) == {}

\* The notes below the marker of the SKILL.md that is there, if any.
NotesFound(i) ==
  IF regenerate[i] THEN notes ELSE {}

\* An installed spore is refused unless it is regenerated.  What mkdir makes, nobody else
\* looks at; when it rejects, that is outside of the try.
Begin(i) ==
  /\ pc[i] = "idle"
  /\ \/ /\ target = Absent \/ regenerate[i]
        /\ kept' = [kept EXCEPT ![i] = NotesFound(i)]
        /\ known' = [known EXCEPT ![i] = IF regenerate[i] THEN notes ELSE {}]
        /\ staging' = [staging EXCEPT ![i] = {}]
        /\ Become(i, "connecting")
     \/ Become(i, "failed") /\ UNCHANGED <<kept, known, staging>>
  /\ UNCHANGED <<regenerate, commands, target, notes, authored, torn, removed>>

\* The server is initialised, lists its tools and is closed.
ToolsListed(i) ==
  /\ pc[i] = "connecting"
  /\ \E S \in SUBSET Commands : commands' = [commands EXCEPT ![i] = S]
  /\ Become(i, "writing")
  /\ UNCHANGED <<regenerate, kept, staging, target, notes, observed>>

\* Mutant of ConnectFails: only a server that dies ends the wait for it.
ConnectNeverFails(i) == FALSE /\ UNCHANGED installVars

\* The server cannot be started, dies, answers with an error or not in time.
ConnectFails(i) ==
  /\ pc[i] = "connecting"
  /\ Abandon(i)
  /\ UNCHANGED <<regenerate, kept, commands, target, notes, observed>>

\* Mutant of Upcoming: the commands are not waited for.
UpcomingButCommands(i) ==
  IF "manifest" \notin staging[i] THEN {"manifest"} ELSE {"skill"} \ staging[i]

\* The file to be written next: the manifest, then SKILL.md, then the commands.
Upcoming(i) ==
  IF "manifest" \notin staging[i] THEN {"manifest"}
  ELSE IF "skill" \notin staging[i] THEN {"skill"}
  ELSE commands[i] \ staging[i]

WriteFile(i) ==
  /\ pc[i] = "writing"
  /\ \E f \in Upcoming(i) : staging' = [staging EXCEPT ![i] = @ \cup {f}]
  /\ UNCHANGED <<pc, regenerate, kept, commands, target, notes, observed>>

WriteFails(i) ==
  /\ pc[i] = "writing"
  /\ Upcoming(i) # {}
  /\ Abandon(i)
  /\ UNCHANGED <<regenerate, kept, commands, target, notes, observed>>

\* renameSync: replaces no directory but an empty one, and may fail otherwise too.
Rename(i) ==
  \/ /\ Files = {}
     /\ target' = [f \in staging[i] |-> i]
     /\ notes' = kept[i]
     /\ staging' = [staging EXCEPT ![i] = Absent]
     /\ torn' = {}
     /\ Become(i, "done")
  \/ /\ Abandon(i)
     /\ UNCHANGED <<target, notes, torn>>

\* Everything is written: a regeneration removes what is there, or the rename comes
\* at once.
AllWritten(i) ==
  /\ pc[i] = "writing" /\ Upcoming(i) = {}
  /\ IF regenerate[i] /\ target # Absent
       THEN Become(i, "removing") /\ UNCHANGED <<target, notes, staging, torn>>
       ELSE Rename(i)
  /\ UNCHANGED <<regenerate, kept, commands, authored, known, removed>>

\* rm of the target, file by file: of whatever is there by now.
RemoveFile(i) ==
  /\ pc[i] = "removing"
  /\ \E f \in Files :
       /\ target' = [g \in Files \ {f} |-> target[g]]
       /\ IF f = "skill" THEN notes' = {} /\ removed' = removed \cup {i}
                         ELSE UNCHANGED <<notes, removed>>
  /\ torn' = torn \cup {i}
  /\ UNCHANGED <<pc, regenerate, kept, staging, commands, authored, known>>

\* The emptied directory goes; one that is gone already is no error (force).
RemoveDirectory(i) ==
  /\ pc[i] = "removing"
  /\ Files = {}
  /\ target' = Absent
  /\ torn' = {}
  /\ Become(i, "renaming")
  /\ UNCHANGED <<regenerate, kept, staging, commands, notes, authored, known, removed>>

RemoveFails(i) ==
  /\ pc[i] = "removing"
  /\ Abandon(i)
  /\ UNCHANGED <<regenerate, kept, commands, target, notes, observed>>

RenameAfterRemoval(i) ==
  /\ pc[i] = "renaming"
  /\ Rename(i)
  /\ UNCHANGED <<regenerate, kept, commands, authored, known, removed>>

\* The process is killed, or the machine stops.
Kill(i) ==
  /\ pc[i] \notin {"idle", "done", "failed"}
  /\ Abandon(i)
  /\ UNCHANGED <<regenerate, kept, commands, target, notes, observed>>

-----------------------------------------------------------------------------

\* What an installation does by itself; whether a server answers is up to the server.
Proceed(i) ==
  \/ ConnectFails(i) \/ WriteFile(i) \/ WriteFails(i) \/ AllWritten(i)
  \/ RemoveFile(i) \/ RemoveDirectory(i) \/ RemoveFails(i) \/ RenameAfterRemoval(i)

InstallStep ==
  \/ \E n \in Notes : WriteNote(n)
  \/ \E i \in Installs : Begin(i) \/ ToolsListed(i) \/ Proceed(i) \/ Kill(i)

-----------------------------------------------------------------------------
(* Properties                                                              *)

\* The installations that were completed.
Completed == {Original} \cup {i \in Installs : pc[i] = "done"}

\* "No partial install is ever left at the target path" (mcpInstall.ts 8), as far as
\* it is true: whatever processes run at once, fail or are killed, what is at the
\* target is of one installation that was completed, and all of it unless a
\* regeneration is removing it or did not get through with that.
TargetWhole ==
  target # Absent =>
    \E i \in Completed :
      /\ \A f \in Files : target[f] = i
      /\ Files = Contents(i) \/ \E r \in torn :
           regenerate[r] /\ pc[r] \in {"removing", "failed"}

\* "User notes below the marker are preserved" (mcpInstall.ts 55): a note is lost only
\* to a regeneration that removed the SKILL.md it was in and had not found it there when
\* it began, or has not, or not yet, put its own in place.
NotesKept ==
  \A n \in authored \ notes :
    \E r \in removed : regenerate[r] /\ (n \notin known[r] \/ pc[r] # "done")

\* An installation ends, whatever the server does.
InstallEnds ==
  \A i \in Installs :
    pc[i] \notin {"idle", "done", "failed"} ~> pc[i] \in {"done", "failed"}

-----------------------------------------------------------------------------
(* The inductive invariant                                                 *)

\* The target is the spore of i, unchanged.
WholeOf(i) ==
  /\ target # Absent
  /\ Files = Contents(i)
  /\ \A f \in Files : target[f] = i

\* What an installation has staged, and which ones get to the removal.
Staged ==
  \A i \in Installs :
    /\ pc[i] = "connecting" => staging[i] = {}
    /\ pc[i] = "writing" => staging[i] # Absent /\ staging[i] \subseteq Contents(i)
    /\ pc[i] \in {"removing", "renaming"} => regenerate[i] /\ staging[i] = Contents(i)

\* A torn target has a regeneration that has not got through with its removal.
Torn ==
  /\ \A r \in torn : regenerate[r] /\ pc[r] \in {"removing", "failed"}
  /\ target = Absent => torn = {}
  /\ target # Absent =>
       \E i \in Completed :
         (\A f \in Files : target[f] = i) /\ (WholeOf(i) \/ torn # {})

\* Where the notes are, and what a regeneration has read of them.
NotesRead ==
  /\ "skill" \notin Files => notes = {}
  /\ \A i \in Installs : regenerate[i] => kept[i] = known[i]
  /\ \A r \in removed : regenerate[r] /\ pc[r] \notin {"idle", "connecting", "writing"}

InstallInv == InstallTypeOK /\ Staged /\ Torn /\ NotesRead /\ NotesKept
=============================================================================
