---------------------------- MODULE Files_proofs ----------------------------
(***************************************************************************)
(* Proofs about what processes leave on disk: installations of a spore and *)
(* the boot that reads them, and the log of a session.                     *)
(*                                                                         *)
(* McpInstall and SporeBoot: for any installations, commands and notes, what*)
(* stands under the name of the spore is one whole installation, or what is*)
(* left of one being removed.  SessionLogger: for any number of entries and*)
(* bursts, whichever appends fail, the log keeps the order of its entries. *)
(***************************************************************************)
EXTENDS SporeBoot, SessionLogger, SequenceTheorems, TLAPS

-----------------------------------------------------------------------------
(* The steps of an installation, in the cases the proofs tell apart        *)

\* A directory maps its files to their origins and is there.
LEMMA Directories ==
  /\ \A S \in SUBSET File : \A g : g \in [S -> Origin] => g \in Directory /\ g # Absent
  /\ InstallTypeOK =>
       /\ Files \subseteq File
       /\ target # Absent => target \in [Files -> Origin]
<1>1. \A S \in SUBSET File : \A g : g \in [S -> Origin] => g \in Directory /\ g # Absent
  BY InstallAssumptions DEF Directory
<1>2. ASSUME InstallTypeOK
      PROVE  Files \subseteq File /\ (target # Absent => target \in [Files -> Origin])
  <2>1. CASE target = Absent BY <2>1 DEF Files
  <2>2. CASE target # Absent
    <3>1. PICK S \in SUBSET File : target \in [S -> Origin]
      BY <1>2, <2>2 DEF InstallTypeOK, Directory
    <3> QED BY <2>2, <3>1 DEF Files
  <2> QED BY <2>1, <2>2
<1> QED BY <1>1, <1>2

\* A process that fails, or is killed, gives up its staging directory and nothing else.
GivesUp(i) ==
  /\ pc[i] \notin {"idle", "done", "failed"}
  /\ Abandon(i)
  /\ UNCHANGED <<regenerate, kept, commands, target, notes, observed>>

\* A rename that succeeds puts a whole spore where there is no file.
Installed(i) ==
  /\ pc[i] \in {"writing", "renaming"}
  /\ Files = {}
  /\ target' = [f \in Contents(i) |-> i]
  /\ notes' = kept[i]
  /\ staging' = [staging EXCEPT ![i] = Absent]
  /\ torn' = {}
  /\ Become(i, "done")
  /\ UNCHANGED <<regenerate, kept, commands, authored, known, removed>>

\* All is written, and there is something to be removed.
ToRemove(i) ==
  /\ pc[i] = "writing" /\ staging[i] = Contents(i)
  /\ regenerate[i]
  /\ Become(i, "removing")
  /\ UNCHANGED <<regenerate, kept, staging, commands, target, notes, observed>>

LEMMA StepCases ==
  ASSUME InstallTypeOK, Staged, InstallStep
  PROVE  \/ \E n \in Notes : WriteNote(n)
         \/ \E i \in Installs :
              \/ Begin(i) \/ ToolsListed(i) \/ WriteFile(i) \/ ToRemove(i)
              \/ RemoveFile(i) \/ RemoveDirectory(i) \/ Installed(i) \/ GivesUp(i)
<1>1. ASSUME NEW i \in Installs, ConnectFails(i) \/ WriteFails(i) \/ RemoveFails(i) \/ Kill(i)
      PROVE  GivesUp(i)
  BY <1>1 DEF ConnectFails, WriteFails, RemoveFails, Kill, GivesUp
<1>2. ASSUME NEW i \in Installs, Rename(i), pc[i] \in {"writing", "renaming"},
             staging[i] = Contents(i),
             UNCHANGED <<regenerate, kept, commands, authored, known, removed>>
      PROVE  Installed(i) \/ GivesUp(i)
  BY <1>2 DEF Rename, Installed, GivesUp, observed
<1>3. ASSUME NEW i \in Installs, AllWritten(i)
      PROVE  ToRemove(i) \/ Installed(i) \/ GivesUp(i)
  <2>1. staging[i] = Contents(i)
    BY <1>3 DEF AllWritten, Upcoming, Staged, Contents
  <2>2. CASE regenerate[i] /\ target # Absent
    BY <1>3, <2>1, <2>2 DEF AllWritten, ToRemove, observed
  <2>3. CASE ~(regenerate[i] /\ target # Absent)
    BY <1>2, <1>3, <2>1, <2>3 DEF AllWritten
  <2> QED BY <2>2, <2>3
<1>4. ASSUME NEW i \in Installs, RenameAfterRemoval(i) PROVE Installed(i) \/ GivesUp(i)
  BY <1>2, <1>4 DEF RenameAfterRemoval, Staged
<1> QED BY <1>1, <1>3, <1>4 DEF InstallStep, Proceed

\* A completed installation stays so, and its commands are what they were.
LEMMA CompletedStay ==
  ASSUME InstallTypeOK, Staged, InstallStep
  PROVE  /\ Completed \subseteq Completed'
         /\ \A i \in Completed : commands'[i] = commands[i] /\ Contents(i)' = Contents(i)
<1> USE DEF InstallTypeOK, Completed, Contents, observed
<1>1. CASE \E n \in Notes : WriteNote(n) BY <1>1 DEF WriteNote
<1>2. ASSUME NEW i \in Installs, ToolsListed(i)
      PROVE  /\ Completed \subseteq Completed'
             /\ \A j \in Completed : commands'[j] = commands[j]
  <2>1. i \notin Completed BY <1>2, InstallAssumptions DEF ToolsListed
  <2>2. PICK S \in SUBSET Commands : commands' = [commands EXCEPT ![i] = S]
    BY <1>2 DEF ToolsListed
  <2>3. \A j \in Completed : commands'[j] = commands[j]
    BY <2>1, <2>2 DEF Origin
  <2> QED BY <1>2, <2>3 DEF ToolsListed, Become
<1>3. CASE \E i \in Installs : Begin(i) \/ WriteFile(i) \/ ToRemove(i)
  BY <1>3 DEF Begin, WriteFile, ToRemove, Become
<1>4. CASE \E i \in Installs : RemoveFile(i) \/ RemoveDirectory(i)
  BY <1>4 DEF RemoveFile, RemoveDirectory, Become
<1>5. CASE \E i \in Installs : Installed(i) \/ GivesUp(i)
  BY <1>5 DEF Installed, GivesUp, Abandon, Become
<1> QED BY <1>1, <1>2, <1>3, <1>4, <1>5, StepCases

-----------------------------------------------------------------------------
(* The invariant of the installations                                      *)

LEMMA InstallTypeStep ==
  ASSUME InstallTypeOK, Staged, InstallStep PROVE InstallTypeOK'
<1> USE DEF InstallTypeOK, observed, Become
<1>1. ASSUME NEW i \in Installs PROVE Contents(i) \in SUBSET File /\ i \in Origin
  BY DEF Contents, File, Origin
<1>2. CASE \E n \in Notes : WriteNote(n) BY <1>2 DEF WriteNote
<1>3. CASE \E i \in Installs : Begin(i) BY <1>3 DEF Begin, NotesFound
<1>4. CASE \E i \in Installs : ToolsListed(i) BY <1>4 DEF ToolsListed
<1>5. ASSUME NEW i \in Installs, WriteFile(i) PROVE InstallTypeOK'
  <2>1. Upcoming(i) \subseteq File BY DEF Upcoming, File, Origin
  <2>2. staging[i] \in SUBSET File BY <1>1, <1>5 DEF WriteFile, Staged
  <2> QED BY <1>5, <2>1, <2>2 DEF WriteFile
<1>6. CASE \E i \in Installs : ToRemove(i) BY <1>6 DEF ToRemove
<1>7. ASSUME NEW i \in Installs, RemoveFile(i) PROVE InstallTypeOK'
  <2>1. PICK f \in Files :
          /\ target' = [g \in Files \ {f} |-> target[g]]
          /\ IF f = "skill" THEN notes' = {} /\ removed' = removed \cup {i}
                            ELSE UNCHANGED <<notes, removed>>
    BY <1>7 DEF RemoveFile
  <2>2. target # Absent BY <2>1 DEF Files
  <2>3. Files \ {f} \in SUBSET File /\ target' \in [Files \ {f} -> Origin]
    BY <2>1, <2>2, Directories
  <2>4. target' \in Directory BY <2>3, Directories
  <2> QED BY <1>7, <2>1, <2>4 DEF RemoveFile
<1>8. CASE \E i \in Installs : RemoveDirectory(i) BY <1>8 DEF RemoveDirectory
<1>9. ASSUME NEW i \in Installs, Installed(i) PROVE InstallTypeOK'
  <2>1. target' \in [Contents(i) -> Origin] BY <1>1, <1>9 DEF Installed
  <2>2. target' \in Directory BY <1>1, <2>1, Directories
  <2> QED BY <1>9, <2>2 DEF Installed
<1>10. CASE \E i \in Installs : GivesUp(i) BY <1>10 DEF GivesUp, Abandon
<1> QED
  BY <1>2, <1>3, <1>4, <1>5, <1>6, <1>7, <1>8, <1>9, <1>10, StepCases

\* Only the process itself writes to its staging directory, and its commands are known
\* before it does.
LEMMA StagedStep ==
  ASSUME InstallTypeOK, Staged, InstallStep PROVE Staged'
<1> USE DEF InstallTypeOK, Staged, observed, Become, Contents
<1>1. CASE \E n \in Notes : WriteNote(n) BY <1>1 DEF WriteNote
<1>2. CASE \E i \in Installs : Begin(i) BY <1>2 DEF Begin
<1>3. ASSUME NEW i \in Installs, ToolsListed(i) PROVE Staged'
  <2>1. {} # Absent BY InstallAssumptions
  <2> QED BY <1>3, <2>1 DEF ToolsListed, Origin
<1>4. ASSUME NEW i \in Installs, WriteFile(i) PROVE Staged'
  <2>1. Upcoming(i) \subseteq Contents(i) BY DEF Upcoming
  <2>2. PICK f \in Upcoming(i) : staging' = [staging EXCEPT ![i] = staging[i] \cup {f}]
    BY <1>4 DEF WriteFile
  <2>3. staging[i] \cup {f} \subseteq Contents(i) BY <1>4, <2>1 DEF WriteFile
  <2>4. Contents(i) \subseteq File BY DEF File, Origin
  <2>5. staging[i] \cup {f} # Absent BY <2>3, <2>4, InstallAssumptions
  <2> QED BY <1>4, <2>2, <2>3, <2>5 DEF WriteFile
<1>5. CASE \E i \in Installs : ToRemove(i) BY <1>5 DEF ToRemove
<1>6. CASE \E i \in Installs : RemoveFile(i) BY <1>6 DEF RemoveFile
<1>7. CASE \E i \in Installs : RemoveDirectory(i) BY <1>7 DEF RemoveDirectory
<1>8. CASE \E i \in Installs : Installed(i) BY <1>8 DEF Installed
<1>9. CASE \E i \in Installs : GivesUp(i) BY <1>9 DEF GivesUp, Abandon
<1> QED BY <1>1, <1>2, <1>3, <1>4, <1>5, <1>6, <1>7, <1>8, <1>9, StepCases

\* A step that leaves the target and torn alone, and takes no process out of the removal
\* but to its failure, leaves the target as it was.
LEMMA TornKept ==
  ASSUME InstallTypeOK, Staged, Torn, InstallStep, UNCHANGED <<target, torn, regenerate>>,
         \A r \in torn : pc'[r] \in {"removing", "failed"}
  PROVE  Torn'
<1> USE DEF Torn
<1>1. CASE target = Absent BY <1>1
<1>2. CASE target # Absent
  <2>1. PICK i \in Completed :
          (\A f \in Files : target[f] = i) /\ (WholeOf(i) \/ torn # {})
    BY <1>2
  <2>2. i \in Completed' /\ Contents(i)' = Contents(i) BY CompletedStay
  <2>3. Files' = Files BY DEF Files
  <2>4. WholeOf(i) => WholeOf(i)' BY <2>2, <2>3 DEF WholeOf
  <2> QED BY <1>2, <2>1, <2>2, <2>3, <2>4
<1> QED BY <1>1, <1>2

LEMMA TornStep ==
  ASSUME InstallTypeOK, Staged, Torn, InstallStep PROVE Torn'
<1> USE DEF observed, Become
<1>1. CASE \E n \in Notes : WriteNote(n)
  <2>1. UNCHANGED <<target, torn, regenerate, pc>> BY <1>1 DEF WriteNote
  <2> QED BY <2>1, TornKept DEF Torn
<1>2. ASSUME NEW i \in Installs,
             Begin(i) \/ ToolsListed(i) \/ WriteFile(i) \/ ToRemove(i) \/ GivesUp(i)
      PROVE  Torn'
  <2>1. UNCHANGED <<target, torn, regenerate>>
    BY <1>2 DEF Begin, ToolsListed, WriteFile, ToRemove, GivesUp
  <2>2. \A r \in torn : pc'[r] \in {"removing", "failed"}
    BY <1>2 DEF Torn, InstallTypeOK, Begin, ToolsListed, WriteFile, ToRemove, GivesUp, Abandon
  <2> QED BY <2>1, <2>2, TornKept
<1>3. ASSUME NEW i \in Installs, RemoveFile(i) PROVE Torn'
  <2>1. PICK f \in Files : target' = [g \in Files \ {f} |-> target[g]]
    BY <1>3 DEF RemoveFile
  <2>2. target # Absent BY <2>1 DEF Files
  <2>3. PICK j \in Completed : \A g \in Files : target[g] = j BY <2>2 DEF Torn
  <2>4. target' # Absent
    <3>1. Files \ {f} \in SUBSET File /\ target' \in [Files \ {f} -> Origin]
      BY <2>1, <2>2, Directories
    <3> QED BY <3>1, Directories
  <2>5. Files' = Files \ {f} BY <2>1, <2>4 DEF Files
  <2>6. \A g \in Files' : target'[g] = j BY <2>1, <2>3, <2>5
  <2>7. j \in Completed' BY <1>3, <2>3, CompletedStay
  <2>8. torn' = torn \cup {i} /\ pc' = pc /\ regenerate' = regenerate
        /\ regenerate[i] /\ pc[i] = "removing"
    BY <1>3 DEF RemoveFile, Staged
  <2> QED BY <2>4, <2>6, <2>7, <2>8 DEF Torn
<1>4. ASSUME NEW i \in Installs, RemoveDirectory(i) PROVE Torn'
  BY <1>4 DEF RemoveDirectory, Torn
<1>5. ASSUME NEW i \in Installs, Installed(i) PROVE Torn'
  <2>1. Contents(i) \in SUBSET File /\ i \in Origin
    BY DEF Contents, File, Origin, InstallTypeOK
  <2>2. target' \in [Contents(i) -> Origin] /\ target' # Absent
    BY <1>5, <2>1, Directories DEF Installed
  <2>3. Contents(i)' = Contents(i) BY <1>5 DEF Contents, Installed
  <2>4. Files' = Contents(i) BY <1>5, <2>2 DEF Files, Installed
  <2>5. i \in Completed' BY <1>5 DEF Installed, Completed, InstallTypeOK
  <2>6. WholeOf(i)' BY <1>5, <2>2, <2>3, <2>4 DEF WholeOf, Installed
  <2> QED BY <1>5, <2>2, <2>5, <2>6 DEF Torn, WholeOf, Installed
<1> QED BY <1>1, <1>2, <1>3, <1>4, <1>5, StepCases

\* Notes go only with the SKILL.md they are in, and a regeneration brings back those it
\* has found.
LEMMA NotesStep ==
  ASSUME InstallTypeOK, Staged, Torn, NotesRead, NotesKept, InstallStep
  PROVE  NotesRead' /\ NotesKept'
<1> USE DEF InstallTypeOK, NotesRead, NotesKept, observed, Become
<1>1. ASSUME NEW n \in Notes, WriteNote(n) PROVE NotesRead' /\ NotesKept'
  BY <1>1 DEF WriteNote, Files
<1>2. ASSUME NEW i \in Installs, Begin(i) PROVE NotesRead' /\ NotesKept'
  <2>1. i \notin removed BY <1>2 DEF Begin
  <2>2. UNCHANGED <<target, notes, authored, removed, regenerate>> /\ pc'[i] # "idle"
        /\ \A r \in Installs \ {i} : pc'[r] = pc[r] /\ known'[r] = known[r] /\ kept'[r] = kept[r]
    BY <1>2 DEF Begin
  <2>3. regenerate[i] => kept'[i] = known'[i] BY <1>2 DEF Begin, NotesFound
  <2>4. NotesRead' BY <2>1, <2>2, <2>3 DEF Files
  <2>5. NotesKept' BY <2>1, <2>2
  <2> QED BY <2>4, <2>5
<1>3. ASSUME NEW i \in Installs,
             ToolsListed(i) \/ WriteFile(i) \/ ToRemove(i) \/ RemoveDirectory(i) \/ GivesUp(i)
      PROVE  NotesRead' /\ NotesKept'
  <2>1. UNCHANGED <<regenerate, kept, notes, authored, known, removed>>
    BY <1>3 DEF ToolsListed, WriteFile, ToRemove, RemoveDirectory, GivesUp
  <2>2. /\ \A r \in Installs \ {i} : pc'[r] = pc[r]
        /\ pc'[i] \notin {"idle", "connecting", "done"}
        /\ pc'[i] = "writing" => pc[i] \in {"connecting", "writing"}
    BY <1>3 DEF ToolsListed, WriteFile, ToRemove, RemoveDirectory, GivesUp, Abandon
  <2>3. "skill" \notin Files' => "skill" \notin Files
    BY <1>3 DEF Files, ToolsListed, WriteFile, ToRemove, RemoveDirectory, GivesUp
  <2>4. NotesRead' BY <2>1, <2>2, <2>3
  <2>5. NotesKept' BY <2>1, <2>2
  <2> QED BY <2>4, <2>5
<1>4. ASSUME NEW i \in Installs, RemoveFile(i) PROVE NotesRead' /\ NotesKept'
  <2>1. PICK f \in Files :
          /\ target' = [g \in Files \ {f} |-> target[g]]
          /\ IF f = "skill" THEN notes' = {} /\ removed' = removed \cup {i}
                            ELSE UNCHANGED <<notes, removed>>
    BY <1>4 DEF RemoveFile
  <2>2. Files' = Files \ {f}
    <3>1. target # Absent BY <2>1 DEF Files
    <3>2. Files \ {f} \in SUBSET File /\ target' \in [Files \ {f} -> Origin]
      BY <2>1, <3>1, Directories
    <3> QED BY <2>1, <3>2, Directories DEF Files
  <2>3. UNCHANGED <<pc, regenerate, kept, authored, known>> /\ pc[i] = "removing" /\ regenerate[i]
    BY <1>4 DEF RemoveFile, Staged
  <2>4. CASE f = "skill" BY <2>1, <2>2, <2>3, <2>4
  <2>5. CASE f # "skill" BY <2>1, <2>2, <2>3, <2>5
  <2> QED BY <2>4, <2>5
<1>5. ASSUME NEW i \in Installs, Installed(i) PROVE NotesRead' /\ NotesKept'
  <2>1. /\ UNCHANGED <<regenerate, kept, authored, known, removed>>
        /\ notes' = kept[i]
        /\ pc'[i] = "done" /\ \A r \in Installs \ {i} : pc'[r] = pc[r]
    BY <1>5 DEF Installed
  <2>2. notes = {} BY <1>5 DEF Installed
  <2>3. "skill" \in Files'
    <3>1. Contents(i) \in SUBSET File /\ i \in Origin /\ "skill" \in Contents(i)
      BY DEF Contents, File, Origin
    <3>2. target' \in [Contents(i) -> Origin] BY <1>5, <3>1 DEF Installed
    <3>3. target' # Absent BY <3>1, <3>2, Directories
    <3> QED BY <3>1, <3>2, <3>3 DEF Files
  <2>4. NotesRead' BY <2>1, <2>3
  <2>5. ASSUME NEW n \in authored' \ notes'
        PROVE  \E r \in removed' : regenerate'[r] /\ (n \notin known'[r] \/ pc'[r] # "done")
    <3>1. PICK r \in removed : regenerate[r] /\ (n \notin known[r] \/ pc[r] # "done")
      BY <2>1, <2>2, <2>5
    <3>2. CASE r = i BY <2>1, <2>5, <3>1, <3>2
    <3>3. CASE r # i BY <2>1, <3>1, <3>3
    <3> QED BY <3>2, <3>3
  <2>6. NotesKept' BY <2>5
  <2> QED BY <2>4, <2>6
<1> QED BY <1>1, <1>2, <1>3, <1>4, <1>5, StepCases

LEMMA InstallInvStep ==
  ASSUME InstallInv, InstallStep PROVE InstallInv'
BY InstallTypeStep, StagedStep, TornStep, NotesStep DEF InstallInv

LEMMA InstallInvStays ==
  ASSUME InstallInv, UNCHANGED installVars PROVE InstallInv'
<1> USE DEF installVars, observed
<1>1. Completed' = Completed /\ Files' = Files /\ \A i : Contents(i)' = Contents(i)
  BY DEF Completed, Files, Contents
<1>2. \A i : WholeOf(i)' <=> WholeOf(i) BY <1>1 DEF WholeOf
<1>3. InstallTypeOK' BY DEF InstallInv, InstallTypeOK
<1>4. Staged' BY <1>1 DEF InstallInv, Staged
<1>5. Torn' BY <1>1, <1>2 DEF InstallInv, Torn
<1>6. NotesRead' /\ NotesKept' BY <1>1 DEF InstallInv, NotesRead, NotesKept
<1> QED BY <1>3, <1>4, <1>5, <1>6 DEF InstallInv

LEMMA InstallInvInit == ASSUME InstallInit PROVE InstallInv
<1>1. PICK S \in SUBSET Commands : commands = [i \in Origin |-> IF i = Original THEN S ELSE {}]
  BY DEF InstallInit
<1>2. Original \in Origin /\ Contents(Original) \in SUBSET File
  BY <1>1 DEF Origin, Contents, File
<1>3. target = Absent \/ target = [f \in Contents(Original) |-> Original]
  BY DEF InstallInit
<1>4. target # Absent => target \in [Contents(Original) -> Origin] /\ target \in Directory
  BY <1>2, <1>3, Directories
<1>5. InstallTypeOK BY <1>1, <1>3, <1>4 DEF InstallInit, InstallTypeOK
<1>6. Staged BY DEF InstallInit, Staged
<1>7. target # Absent => WholeOf(Original) BY <1>2, <1>3, <1>4 DEF WholeOf, Files
<1>8. Torn BY <1>7 DEF InstallInit, Torn, Completed, WholeOf
<1>9. NotesRead /\ NotesKept BY DEF InstallInit, NotesRead, NotesKept
<1> QED BY <1>5, <1>6, <1>8, <1>9 DEF InstallInv

-----------------------------------------------------------------------------
(* The session that boots                                                  *)

\* A step of an installation changes nothing the session has; either it changes the
\* target, which is noticed, or nothing about the spore there.
LEMMA NoticedStep ==
  ASSUME BootInv, InstallInv', InstallStep, Noticed PROVE BootInv'
<1>1. InstallTypeOK /\ Staged /\ Torn BY DEF BootInv, InstallInv
<1>2. /\ Completed \subseteq Completed'
      /\ \A i \in Completed : commands'[i] = commands[i] /\ Contents(i)' = Contents(i)
  BY <1>1, CompletedStay
<1>3. /\ UNCHANGED <<boot, loading, listing, found, body>>
      /\ disturbed' = (disturbed \/ (Reading /\ target' # target))
      /\ Reading' <=> Reading
  BY DEF Noticed, Reading
<1>4. TypeOK' BY <1>3 DEF BootInv, TypeOK, InstallInv
<1>5. ReadSoFar' BY <1>2, <1>3 DEF BootInv, ReadSoFar
<1>6. AsIs'
  <2> SUFFICES ASSUME Reading, ~disturbed, target' = target PROVE AsIs'
    BY <1>3 DEF AsIs
  <2>1. torn = {} BY DEF BootInv, AsIs
  <2>2. torn' = {}
    <3>1. ASSUME NEW i \in Installs, RemoveFile(i) PROVE FALSE
      <4>1. PICK f \in Files : target' = [g \in Files \ {f} |-> target[g]]
        BY <3>1 DEF RemoveFile
      <4>2. DOMAIN target' = Files \ {f} /\ f \in DOMAIN target BY <4>1 DEF Files
      <4> QED BY <4>2
    <3>2. CASE \E n \in Notes : WriteNote(n) BY <2>1, <3>2 DEF WriteNote
    <3>3. CASE \E i \in Installs : Begin(i) \/ ToolsListed(i) \/ WriteFile(i) \/ ToRemove(i)
      BY <2>1, <3>3 DEF Begin, ToolsListed, WriteFile, ToRemove, observed
    <3>4. CASE \E i \in Installs : RemoveDirectory(i) \/ Installed(i) \/ GivesUp(i)
      BY <2>1, <3>4 DEF RemoveDirectory, Installed, GivesUp, observed
    <3> QED BY <1>1, <3>1, <3>2, <3>3, <3>4, StepCases
  <2>3. ASSUME NEW i \in Completed, WholeOf(i) PROVE WholeOf(i)'
    BY <1>2, <2>3 DEF WholeOf, Files
  <2> QED BY <1>2, <1>3, <2>2, <2>3 DEF BootInv, AsIs
<1>7. FoundIsWhole' BY <1>2, <1>3 DEF BootInv, FoundIsWhole, ReadSoFar
<1> QED BY <1>4, <1>5, <1>6, <1>7 DEF BootInv

\* What is there is of one completed installation, and all of it unless it is torn.
LEMMA ReadOne ==
  ASSUME InstallInv, target # Absent
  PROVE  \E i \in Completed : /\ \A f \in Files : target[f] = i
                              /\ torn = {} => WholeOf(i)
BY DEF InstallInv, Torn

\* The session reads what is there, and takes over what it has read.
LEMMA BootInvStep ==
  ASSUME BootInv, BootStep, UNCHANGED installVars PROVE BootInv'
<1> USE DEF bootVars
<1>1. InstallInv' BY InstallInvStays DEF BootInv
<1>2. /\ Completed' = Completed /\ Files' = Files /\ commands' = commands /\ torn' = torn
      /\ target' = target /\ \A i : WholeOf(i)' <=> WholeOf(i)
  BY DEF installVars, observed, Completed, Files, WholeOf, Contents
<1>3. Completed \subseteq Origin /\ Nobody \notin Completed
  BY BootAssumptions DEF Completed, Origin
<1> DEFINE Rest == TypeOK' /\ ReadSoFar' /\ AsIs' /\ FoundIsWhole'
<1>4. SUFFICES Rest BY <1>1 DEF BootInv
<1>5. ASSUME NEW i \in Completed
      PROVE  WholeOf(i) => /\ Files \cap Commands = commands[i]
                           /\ {"manifest", "skill"} \subseteq Files
  BY <1>3, InstallAssumptions DEF WholeOf, Contents, BootInv, InstallInv, InstallTypeOK
<1>6. target # Absent =>
        \E i \in Completed : /\ \A f \in Files : target[f] = i
                             /\ torn = {} => WholeOf(i)
  BY ReadOne DEF BootInv
<1>7. \A f \in Files : target # Absent /\ target[f] \in Completed
  <2> SUFFICES ASSUME NEW f \in Files PROVE target # Absent /\ target[f] \in Completed
    OBVIOUS
  <2>1. target # Absent BY DEF Files
  <2>2. PICK i \in Completed : \A g \in Files : target[g] = i BY <1>6, <2>1
  <2> QED BY <2>1, <2>2
<1>8. TypeOK /\ ReadSoFar /\ AsIs /\ FoundIsWhole /\ InstallTypeOK'
  BY <1>1 DEF BootInv, InstallInv
<1>9. CASE ListUserTier
  <2>1. TypeOK' BY <1>8, <1>9 DEF TypeOK, ListUserTier
  <2>2. ReadSoFar' BY <1>2, <1>8, <1>9 DEF ReadSoFar, ListUserTier, NothingLoaded
  <2>3. AsIs'
    <3>1. ~found' /\ torn' = torn /\ (~disturbed' => torn = {})
          /\ boot' \in {"project", "manifest"} /\ (boot' = "manifest" => target # Absent)
      BY <1>2, <1>8, <1>9 DEF ReadSoFar, ListUserTier
    <3>2. CASE boot' = "project" BY <3>1, <3>2 DEF AsIs
    <3>3. CASE boot' = "manifest"
      <4>1. PICK i \in Completed : torn = {} => WholeOf(i) BY <1>6, <3>1, <3>3
      <4> QED BY <1>2, <3>1, <3>3, <4>1 DEF AsIs
    <3> QED BY <3>1, <3>2, <3>3
  <2>4. FoundIsWhole' BY <1>8, <1>9 DEF FoundIsWhole, ReadSoFar, ListUserTier
  <2> QED BY <2>1, <2>2, <2>3, <2>4
<1>10. CASE ReadManifest
  <2>1. CASE "manifest" \in Files
    <3>1. boot = "manifest" /\ loading' = [loading EXCEPT !.manifest = target["manifest"]]
          /\ boot' = "skill" /\ UNCHANGED <<listing, found, body, disturbed>>
      BY <1>10, <2>1 DEF ReadManifest
    <3>2. TypeOK' BY <1>3, <1>7, <1>8, <2>1, <3>1 DEF TypeOK, Loaded
    <3>3. loading'.manifest = target["manifest"] /\ loading'.commands = {}
      BY <1>8, <3>1 DEF ReadSoFar, NothingLoaded
    <3>4. ReadSoFar' BY <1>2, <1>7, <1>8, <2>1, <3>1, <3>3 DEF ReadSoFar
    <3>5. AsIs' BY <1>2, <1>8, <2>1, <3>1, <3>3 DEF AsIs, Reading, WholeOf, ReadSoFar
    <3>6. FoundIsWhole' BY <1>8, <3>1 DEF FoundIsWhole, ReadSoFar
    <3> QED BY <3>2, <3>4, <3>5, <3>6
  <2>2. CASE "manifest" \notin Files
    <3>1. boot = "manifest" /\ loading' = NothingLoaded /\ boot' = "project"
          /\ UNCHANGED <<listing, found, body, disturbed>>
      BY <1>10, <2>2 DEF ReadManifest
    <3>2. TypeOK' BY <1>8, <3>1 DEF TypeOK, Loaded, NothingLoaded
    <3>3. ReadSoFar' BY <1>8, <3>1 DEF ReadSoFar, NothingLoaded
    <3>4. AsIs' BY <1>2, <1>8, <3>1 DEF AsIs, ReadSoFar, Reading
    <3>5. FoundIsWhole' BY <1>8, <3>1 DEF FoundIsWhole, ReadSoFar
    <3> QED BY <3>2, <3>3, <3>4, <3>5
  <2> QED BY <2>1, <2>2
<1>11. CASE ReadSkill
  <2>1. CASE "skill" \in Files
    <3>1. boot = "skill" /\ loading' = [loading EXCEPT !.skill = target["skill"]]
          /\ boot' = "commands" /\ UNCHANGED <<listing, found, body, disturbed>>
      BY <1>11, <2>1 DEF ReadSkill
    <3>2. TypeOK' BY <1>3, <1>7, <1>8, <2>1, <3>1 DEF TypeOK, Loaded
    <3>3. /\ loading'.manifest = loading.manifest /\ loading'.skill = target["skill"]
          /\ loading'.commands = {}
      BY <1>8, <3>1 DEF ReadSoFar, TypeOK, Loaded
    <3>4. ReadSoFar' BY <1>2, <1>7, <1>8, <2>1, <3>1, <3>3 DEF ReadSoFar
    <3>5. AsIs' BY <1>2, <1>8, <2>1, <3>1, <3>3 DEF AsIs, Reading, WholeOf, ReadSoFar
    <3>6. FoundIsWhole' BY <1>8, <3>1 DEF FoundIsWhole, ReadSoFar
    <3> QED BY <3>2, <3>4, <3>5, <3>6
  <2>2. CASE "skill" \notin Files
    <3>1. boot = "skill" /\ loading' = NothingLoaded /\ boot' = "project"
          /\ UNCHANGED <<listing, found, body, disturbed>>
      BY <1>11, <2>2 DEF ReadSkill
    <3>2. TypeOK' BY <1>8, <3>1 DEF TypeOK, Loaded, NothingLoaded
    <3>3. ReadSoFar' BY <1>8, <3>1 DEF ReadSoFar, NothingLoaded
    <3>4. AsIs' BY <1>2, <1>8, <3>1 DEF AsIs, ReadSoFar, Reading
    <3>5. FoundIsWhole' BY <1>8, <3>1 DEF FoundIsWhole, ReadSoFar
    <3> QED BY <3>2, <3>3, <3>4, <3>5
  <2> QED BY <2>1, <2>2
<1>12. CASE ListCommands
  <2>1. boot = "commands" /\ boot' = "reading" /\ listing' = Files \cap Commands
        /\ UNCHANGED <<loading, found, body, disturbed>>
    BY <1>12 DEF ListCommands
  <2>2. TypeOK' BY <1>8, <2>1 DEF TypeOK
  <2>3. ReadSoFar' BY <1>2, <1>8, <2>1 DEF ReadSoFar
  <2>4. AsIs'
    <3>1. loading.commands = {} BY <1>8, <2>1 DEF ReadSoFar
    <3> QED BY <1>2, <1>5, <1>8, <2>1, <3>1 DEF AsIs, Reading, ReadSoFar
  <2>5. FoundIsWhole' BY <1>8, <2>1 DEF FoundIsWhole, ReadSoFar
  <2> QED BY <2>2, <2>3, <2>4, <2>5
<1>13. CASE ReadCommand
  <2>1. PICK c \in listing :
          /\ listing' = listing \ {c}
          /\ loading' = IF c \in Files
                          THEN [loading EXCEPT !.commands = loading.commands \cup {<<c, target[c]>>}]
                          ELSE loading
    BY <1>13 DEF ReadCommand
  <2>2. boot = "reading" /\ UNCHANGED <<boot, found, body, disturbed>>
    BY <1>13 DEF ReadCommand
  <2>3. c \in Commands /\ listing' \subseteq Commands BY <1>8, <2>1 DEF TypeOK
  <2>4. /\ loading'.manifest = loading.manifest /\ loading'.skill = loading.skill
        /\ c \in Files => loading'.commands = loading.commands \cup {<<c, target[c]>>}
        /\ c \notin Files => loading'.commands = loading.commands
        /\ loading' \in Loaded
    BY <1>3, <1>7, <1>8, <2>1, <2>3 DEF TypeOK, Loaded
  <2>5. TypeOK' BY <1>8, <2>2, <2>3, <2>4 DEF TypeOK
  <2>6. {e[2] : e \in loading'.commands} \subseteq Completed'
    BY <1>2, <1>7, <1>8, <2>4 DEF ReadSoFar
  <2>7. ReadSoFar' BY <1>2, <1>8, <2>2, <2>4, <2>6 DEF ReadSoFar
  <2>8. AsIs'
    <3> SUFFICES ASSUME ~disturbed PROVE AsIs'
      BY <2>2 DEF AsIs
    <3>1. PICK i \in Completed :
            /\ WholeOf(i) /\ loading.manifest = i /\ loading.skill = i
            /\ listing \subseteq commands[i]
            /\ loading.commands = (commands[i] \ listing) \X {i}
      BY <1>8, <2>2 DEF AsIs, Reading
    <3>2. c \in Files /\ target[c] = i BY <1>5, <2>1, <3>1 DEF WholeOf
    <3>3. loading'.commands = (commands[i] \ listing') \X {i}
      BY <2>1, <2>4, <3>1, <3>2
    <3>4. listing' \subseteq commands[i] BY <2>1, <3>1
    <3>5. torn = {} /\ ~found BY <1>8, <2>2 DEF AsIs, Reading, ReadSoFar
    <3> QED BY <1>2, <2>2, <2>4, <3>1, <3>3, <3>4, <3>5 DEF AsIs
  <2>9. FoundIsWhole' BY <1>8, <2>2 DEF FoundIsWhole, ReadSoFar
  <2> QED BY <2>5, <2>7, <2>8, <2>9
<1>14. CASE SporeLoaded
  <2>1. boot = "reading" /\ listing = {} /\ found' = TRUE /\ boot' = "project" /\ body = Nobody
        /\ UNCHANGED <<loading, listing, body, disturbed>>
    BY <1>8, <1>14 DEF SporeLoaded, ReadSoFar
  <2>2. TypeOK' BY <1>8, <2>1 DEF TypeOK
  <2>3. ReadSoFar' BY <1>2, <1>8, <2>1 DEF ReadSoFar
  <2>4. ~disturbed => torn = {} /\ \E i \in Completed :
                        /\ WholeOf(i) /\ loading.manifest = i /\ loading.skill = i
                        /\ loading.commands = commands[i] \X {i}
    BY <1>8, <2>1 DEF AsIs, Reading
  <2>5. AsIs' BY <1>2, <2>1, <2>4 DEF AsIs
  <2>6. FoundIsWhole' BY <1>2, <1>8, <2>1, <2>4 DEF FoundIsWhole, ReadSoFar
  <2> QED BY <2>2, <2>3, <2>5, <2>6
<1>15. CASE ScanProject
  <2>1. boot = "project" /\ boot' = "pin" /\ UNCHANGED <<listing, body, disturbed>>
    BY <1>15 DEF ScanProject
  <2>2. CASE UNCHANGED <<found, loading>>
    BY <1>2, <1>8, <2>1, <2>2 DEF TypeOK, ReadSoFar, AsIs, Reading, FoundIsWhole
  <2>3. CASE found' = FALSE /\ loading' = NothingLoaded
    <3>1. TypeOK' BY <1>8, <2>1, <2>3 DEF TypeOK, Loaded, NothingLoaded
    <3>2. AsIs' /\ FoundIsWhole' BY <1>2, <1>8, <2>1, <2>3 DEF AsIs, Reading, FoundIsWhole
    <3>3. ReadSoFar' BY <1>2, <1>8, <2>1, <2>3 DEF ReadSoFar, NothingLoaded
    <3> QED BY <3>1, <3>2, <3>3
  <2> QED BY <1>15, <2>2, <2>3 DEF ScanProject
<1>16. CASE BootPinned
  <2>1. boot = "pin" /\ UNCHANGED <<loading, listing, found, disturbed>> BY <1>16 DEF BootPinned
  <2>2. CASE boot' = "running" /\ UNCHANGED body
    BY <1>2, <1>8, <2>1, <2>2 DEF TypeOK, ReadSoFar, AsIs, Reading, FoundIsWhole
  <2>3. CASE found /\ "skill" \in Files /\ body' = target["skill"] /\ boot' = "running"
    <3>1. TypeOK' BY <1>3, <1>7, <1>8, <2>1, <2>3 DEF TypeOK
    <3>2. ReadSoFar' BY <1>2, <1>8, <2>1, <2>3 DEF ReadSoFar
    <3>3. AsIs' BY <1>2, <1>8, <2>1, <2>3 DEF AsIs, Reading, WholeOf
    <3>4. ~disturbed => body' = loading.skill
      BY <1>8, <2>1, <2>3 DEF AsIs, Reading, WholeOf
    <3>5. FoundIsWhole' BY <1>2, <1>7, <1>8, <2>1, <2>3, <3>4 DEF FoundIsWhole
    <3> QED BY <3>1, <3>2, <3>3, <3>5
  <2>4. CASE found /\ boot' = "crashed" /\ UNCHANGED body
    BY <1>2, <1>8, <2>1, <2>4 DEF TypeOK, ReadSoFar, AsIs, Reading, FoundIsWhole
  <2> QED BY <1>16, <2>2, <2>3, <2>4 DEF BootPinned
<1>17. CASE Germinate
  <2>1. boot = "running" /\ found /\ "skill" \in Files /\ body' = target["skill"]
        /\ UNCHANGED <<boot, loading, listing, found, disturbed>>
    BY <1>17 DEF Germinate
  <2>2. TypeOK' BY <1>3, <1>7, <1>8, <2>1 DEF TypeOK
  <2>3. ReadSoFar' BY <1>2, <1>8, <2>1 DEF ReadSoFar
  <2>4. AsIs' BY <1>2, <1>8, <2>1 DEF AsIs, Reading, WholeOf
  <2>5. ~disturbed => body' = loading.skill BY <1>8, <2>1 DEF AsIs, Reading, WholeOf
  <2>6. FoundIsWhole' BY <1>2, <1>7, <1>8, <2>1, <2>5 DEF FoundIsWhole
  <2> QED BY <2>2, <2>3, <2>4, <2>6
<1> QED
  BY <1>9, <1>10, <1>11, <1>12, <1>13, <1>14, <1>15, <1>16, <1>17 DEF BootStep

-----------------------------------------------------------------------------
\* The inductive invariant of installations and session holds in every reachable state.
THEOREM BootCorrect == Spec => []BootInv
<1>1. Init => BootInv
  <2> SUFFICES ASSUME Init PROVE BootInv
    OBVIOUS
  <2>1. InstallInv BY InstallInvInit DEF Init
  <2>2. TypeOK /\ ReadSoFar /\ AsIs /\ FoundIsWhole
    BY <2>1 DEF Init, InstallInv, TypeOK, ReadSoFar, AsIs, FoundIsWhole, Loaded,
                NothingLoaded, Reading
  <2> QED BY <2>1, <2>2 DEF BootInv
<1>2. BootInv /\ [Next]_vars => BootInv'
  <2> SUFFICES ASSUME BootInv, [Next]_vars PROVE BootInv'
    OBVIOUS
  <2>1. CASE InstallStep /\ Noticed
    BY <2>1, InstallInvStep, NoticedStep DEF BootInv
  <2>2. CASE BootStep /\ UNCHANGED installVars BY <2>2, BootInvStep
  <2>3. CASE UNCHANGED vars
    <3>1. InstallInv' BY <2>3, InstallInvStays DEF vars, BootInv
    <3>2. /\ Completed' = Completed /\ commands' = commands /\ torn' = torn
          /\ \A i : WholeOf(i)' <=> WholeOf(i)
      BY <2>3 DEF vars, installVars, observed, Completed, Files, WholeOf, Contents
    <3>3. TypeOK' BY <2>3, <3>1 DEF vars, bootVars, BootInv, TypeOK, InstallInv
    <3>4. ReadSoFar' BY <2>3, <3>2 DEF vars, bootVars, BootInv, ReadSoFar
    <3>5. AsIs' BY <2>3, <3>2 DEF vars, bootVars, BootInv, AsIs, Reading
    <3>6. FoundIsWhole' BY <2>3, <3>2 DEF vars, bootVars, BootInv, FoundIsWhole
    <3> QED BY <3>1, <3>3, <3>4, <3>5, <3>6 DEF BootInv
  <2> QED BY <2>1, <2>2, <2>3 DEF Next
<1> QED BY <1>1, <1>2, PTL DEF Spec

\* Whatever installations run at once, fail or are killed, the target is the whole spore
\* of one that was completed, unless a regeneration is, or has stopped, removing it
\* (mcpInstall.ts 82-168).
THEOREM TargetCorrect == Spec => []TargetWhole
<1>1. BootInv => TargetWhole
  BY DEF BootInv, InstallInv, Torn, WholeOf, TargetWhole
<1> QED BY <1>1, BootCorrect, PTL

\* A note is lost only to a regeneration that had not found it, or did not get through
\* (mcpInstall.ts 55-69, 118-150).
THEOREM NotesCorrect == Spec => []NotesKept
<1>1. BootInv => NotesKept BY DEF BootInv, InstallInv
<1> QED BY <1>1, BootCorrect, PTL

\* A session has the manifest, body and commands of one completed installation, unless the
\* directory changed while it was read (SporeRegistry.ts 70-192, bootSpores.ts 24-62).
THEOREM FoundCorrect == Spec => []FoundIsWhole
<1>1. BootInv => FoundIsWhole BY DEF BootInv
<1> QED BY <1>1, BootCorrect, PTL

-----------------------------------------------------------------------------
(* The log of a session                                                   *)

\* A concatenation is increasing iff its parts are and the first lies below the second.
LEMMA IncreasingConcat ==
  ASSUME NEW s \in Seq(Nat), NEW t \in Seq(Nat)
  PROVE  Increasing(s \o t) <=>
           /\ Increasing(s) /\ Increasing(t)
           /\ \A a \in Range(s), b \in Range(t) : a < b
<1>1. /\ DOMAIN s = 1..Len(s) /\ DOMAIN t = 1..Len(t) /\ Len(s) \in Nat /\ Len(t) \in Nat
      /\ DOMAIN (s \o t) = 1..(Len(s) + Len(t))
      /\ \A i \in 1..(Len(s) + Len(t)) :
           (s \o t)[i] = IF i <= Len(s) THEN s[i] ELSE t[i - Len(s)]
      /\ \A i \in 1..Len(s) : s[i] \in Nat
      /\ \A i \in 1..Len(t) : t[i] \in Nat
  BY ConcatProperties, LenProperties, ElementOfSeq
<1>2. (\A a \in Range(s), b \in Range(t) : a < b) <=>
        \A i \in 1..Len(s), j \in 1..Len(t) : s[i] < t[j]
  BY <1>1 DEF Range
<1>3. ASSUME Increasing(s), Increasing(t),
             \A i \in 1..Len(s), j \in 1..Len(t) : s[i] < t[j]
      PROVE  Increasing(s \o t)
  <2> SUFFICES ASSUME NEW i \in 1..(Len(s) + Len(t)), NEW j \in 1..(Len(s) + Len(t)), i < j
               PROVE  (s \o t)[i] < (s \o t)[j]
    BY <1>1 DEF Increasing
  <2>1. CASE j <= Len(s)
    <3>1. (s \o t)[i] = s[i] /\ (s \o t)[j] = s[j] BY <1>1, <2>1
    <3>2. i \in DOMAIN s /\ j \in DOMAIN s BY <1>1, <2>1
    <3> QED BY <1>3, <3>1, <3>2 DEF Increasing
  <2>2. CASE i > Len(s)
    <3>1. i - Len(s) \in 1..Len(t) /\ j - Len(s) \in 1..Len(t) /\ i - Len(s) < j - Len(s)
      BY <1>1, <2>2
    <3>2. (s \o t)[i] = t[i - Len(s)] /\ (s \o t)[j] = t[j - Len(s)] BY <1>1, <2>2
    <3> QED BY <1>1, <1>3, <3>1, <3>2 DEF Increasing
  <2>3. CASE i <= Len(s) /\ j > Len(s)
    <3>1. j - Len(s) \in 1..Len(t) /\ i \in 1..Len(s) BY <1>1, <2>3
    <3>2. (s \o t)[i] = s[i] /\ (s \o t)[j] = t[j - Len(s)] BY <1>1, <2>3
    <3> QED BY <1>3, <3>1, <3>2
  <2> QED BY <1>1, <2>1, <2>2, <2>3
<1>4. ASSUME Increasing(s \o t)
      PROVE  /\ Increasing(s) /\ Increasing(t)
             /\ \A i \in 1..Len(s), j \in 1..Len(t) : s[i] < t[j]
  <2>1. \A i \in 1..Len(s) : i \in 1..(Len(s) + Len(t)) /\ (s \o t)[i] = s[i]
    BY <1>1
  <2>2. \A j \in 1..Len(t) : Len(s) + j \in 1..(Len(s) + Len(t)) /\ (s \o t)[Len(s) + j] = t[j]
    BY <1>1
  <2>3. \A i, j \in 1..(Len(s) + Len(t)) : i < j => (s \o t)[i] < (s \o t)[j]
    BY <1>1, <1>4 DEF Increasing
  <2>4. Increasing(s) BY <1>1, <2>1, <2>3 DEF Increasing
  <2>5. ASSUME NEW i \in 1..Len(t), NEW j \in 1..Len(t), i < j PROVE t[i] < t[j]
    <3>1. Len(s) + i < Len(s) + j BY <1>1, <2>5
    <3> QED BY <2>2, <2>3, <3>1
  <2>6. Increasing(t) BY <1>1, <2>5 DEF Increasing
  <2>7. ASSUME NEW i \in 1..Len(s), NEW j \in 1..Len(t) PROVE s[i] < t[j]
    <3>1. i < Len(s) + j BY <1>1
    <3> QED BY <2>1, <2>2, <2>3, <3>1
  <2> QED BY <2>4, <2>6, <2>7
<1> QED BY <1>2, <1>3, <1>4

\* What the order of the whole says of its three parts, so that a batch that goes from
\* one to the next, or is lost, can be followed.
LEMMA OrderOfParts ==
  ASSUME NEW f \in Seq(Nat), NEW b \in Seq(Nat), NEW q \in Seq(Nat)
  PROVE  /\ Range(f \o b \o q) = Range(f) \cup Range(b) \cup Range(q)
         /\ Increasing(f \o b \o q) <=>
              /\ Increasing(f) /\ Increasing(b) /\ Increasing(q)
              /\ \A m \in Range(f), n \in Range(b) : m < n
              /\ \A m \in Range(f) \cup Range(b), n \in Range(q) : m < n
<1>1. f \o b \in Seq(Nat) BY ConcatProperties
<1>2. \A u, v \in Seq(Nat) : Range(u \o v) = Range(u) \cup Range(v)
  BY RangeConcatenation
<1>3. \A u, v \in Seq(Nat) : Increasing(u \o v) <=>
        /\ Increasing(u) /\ Increasing(v)
        /\ \A m \in Range(u), n \in Range(v) : m < n
  BY IncreasingConcat
<1>4. Range(f \o b) = Range(f) \cup Range(b) BY <1>2
<1>5. Range(f \o b \o q) = Range(f \o b) \cup Range(q) BY <1>1, <1>2
<1>6. Increasing(f \o b) <=>
        Increasing(f) /\ Increasing(b) /\ \A m \in Range(f), n \in Range(b) : m < n
  BY <1>3
<1>7. Increasing(f \o b \o q) <=>
        /\ Increasing(f \o b) /\ Increasing(q)
        /\ \A m \in Range(f \o b), n \in Range(q) : m < n
  BY <1>1, <1>3
<1> QED BY <1>4, <1>5, <1>6, <1>7

\* Every reachable state has the declared types: what waits, is being appended or is in
\* the file is among the entries logged so far.
LEMMA TypeStep == ASSUME LoggerTypeOK, Behind, LoggerNext PROVE LoggerTypeOK'
<1> USE LoggerAssumptions DEF LoggerTypeOK, Behind, chainVars
<1>1. ASSUME NEW n \in 1..MaxBurst, Enqueue(n) PROVE LoggerTypeOK'
  <2>1. logged \in Nat /\ n \in Nat /\ logged' = logged + n /\ logged' \in 0..MaxLogged
    BY <1>1 DEF Enqueue
  <2>2. 1..logged \subseteq 1..logged' BY <2>1
  <2>3. queue \in Seq(1..logged') /\ batch \in Seq(1..logged') /\ file \in Seq(1..logged')
    BY <2>2, SeqMonotonic
  <2>4. [k \in 1..n |-> logged + k] \in Seq(1..logged')
    <3>1. \A k \in 1..n : logged + k \in 1..logged' BY <2>1
    <3> QED BY <2>1, <3>1, IsASeq
  <2>5. queue' \in Seq(1..logged') BY <1>1, <2>3, <2>4, ConcatProperties DEF Enqueue
  <2> QED BY <1>1, <2>1, <2>2, <2>3, <2>5 DEF Enqueue
<1>2. CASE RunLink
  <2>1. queue' \in Seq(1..logged) /\ batch' \in Seq(1..logged) BY <1>2, EmptySeq DEF RunLink
  <2>2. settled' \in 0..logged BY <1>2 DEF RunLink
  <2> QED BY <1>2, <2>1, <2>2 DEF RunLink
<1>3. CASE BatchWritten
  <2>1. file' \in Seq(1..logged) BY <1>3, ConcatProperties DEF BatchWritten
  <2> QED BY <1>3, <2>1 DEF BatchWritten
<1>4. CASE BatchFails
  <2>1. batch' \in Seq(1..logged) BY <1>4, EmptySeq DEF BatchFails
  <2>2. settled' \in 0..logged BY <1>4 DEF BatchFails
  <2>3. lost' \subseteq 1..logged BY <1>4, RangeOfSeq DEF BatchFails
  <2> QED BY <1>4, <2>1, <2>2, <2>3 DEF BatchFails
<1>5. CASE Flush BY <1>5 DEF Flush
<1>6. CASE Close BY <1>6 DEF Close
<1>7. CASE Crash BY <1>7 DEF Crash
<1> QED BY <1>1, <1>2, <1>3, <1>4, <1>5, <1>6, <1>7 DEF LoggerNext, Chain

\* An entry is logged behind all others; a link moves the batch on or loses it whole.
LEMMA OrderStep == ASSUME LoggerTypeOK, LoggerTypeOK', LogInOrder, LoggerNext PROVE LogInOrder'
<1> USE DEF chainVars
<1> DEFINE Placed(f, b, q) == Range(f) \cup Range(b) \cup Range(q)
           Ordered(f, b, q) ==
             /\ Increasing(f) /\ Increasing(b) /\ Increasing(q)
             /\ \A m \in Range(f), n \in Range(b) : m < n
             /\ \A m \in Range(f) \cup Range(b), n \in Range(q) : m < n
<1>1. /\ file \in Seq(Nat) /\ batch \in Seq(Nat) /\ queue \in Seq(Nat)
      /\ file' \in Seq(Nat) /\ batch' \in Seq(Nat) /\ queue' \in Seq(Nat)
  <2>1. 1..logged \subseteq Nat /\ 1..logged' \subseteq Nat OBVIOUS
  <2> QED BY <2>1, SeqMonotonic DEF LoggerTypeOK
<1>2. /\ Ordered(file, batch, queue)
      /\ Placed(file, batch, queue) \cup lost = 1..logged
      /\ Placed(file, batch, queue) \cap lost = {}
  BY <1>1, OrderOfParts DEF LogInOrder
<1>3. SUFFICES /\ Ordered(file', batch', queue')
               /\ Placed(file', batch', queue') \cup lost' = 1..logged'
               /\ Placed(file', batch', queue') \cap lost' = {}
  BY <1>1, OrderOfParts DEF LogInOrder
<1>4. Range(<<>>) = {} /\ Increasing(<<>>) BY DEF Range, Increasing
<1>5. ASSUME NEW k \in 1..MaxBurst, Enqueue(k)
      PROVE  /\ Ordered(file', batch', queue')
             /\ Placed(file', batch', queue') \cup lost' = 1..logged'
             /\ Placed(file', batch', queue') \cap lost' = {}
  <2> DEFINE new == [i \in 1..k |-> logged + i]
  <2>1. logged \in Nat /\ k \in Nat /\ logged' = logged + k BY <1>5 DEF Enqueue, LoggerTypeOK
  <2>2. new \in Seq(Nat) /\ Increasing(new) /\ Range(new) = (logged + 1)..(logged + k)
    <3>1. new \in Seq(Nat) BY <2>1, IsASeq
    <3>2. Increasing(new) BY <2>1 DEF Increasing
    <3>3. \A e \in (logged + 1)..(logged + k) : e - logged \in 1..k /\ new[e - logged] = e
      BY <2>1
    <3>4. \A i \in 1..k : new[i] \in (logged + 1)..(logged + k) BY <2>1
    <3>5. Range(new) = {new[i] : i \in 1..k} BY DEF Range
    <3> HIDE DEF new
    <3>6. Range(new) = (logged + 1)..(logged + k) BY <2>1, <3>3, <3>4, <3>5
    <3> QED BY <3>1, <3>2, <3>6
  <2>3. /\ Range(queue') = Range(queue) \cup Range(new)
        /\ Increasing(queue') <=>
             /\ Increasing(queue) /\ Increasing(new)
             /\ \A m \in Range(queue), n \in Range(new) : m < n
    <3>1. queue' = queue \o new BY <1>5 DEF Enqueue
    <3>2. \A v \in Seq(Nat) : Range(queue \o v) = Range(queue) \cup Range(v)
      BY <1>1, RangeConcatenation
    <3> HIDE DEF new
    <3> QED BY <1>1, <2>2, <3>1, <3>2, IncreasingConcat
  <2>4. \A n \in Range(new) : n \in Nat /\ n > logged BY <2>1, <2>2
  <2>5. \A m \in Placed(file, batch, queue) \cup lost : m \in 1..logged BY <1>2
  <2>6. 1..(logged + k) = (1..logged) \cup ((logged + 1)..(logged + k)) BY <2>1
  <2> HIDE DEF new
  <2>7. file' = file /\ batch' = batch /\ lost' = lost BY <1>5 DEF Enqueue
  <2>8. Ordered(file', batch', queue') BY <1>2, <2>1, <2>2, <2>3, <2>4, <2>5, <2>7
  <2>9. Placed(file', batch', queue') = Placed(file, batch, queue) \cup Range(new)
    BY <2>3, <2>7
  <2>10. Range(new) \cap lost = {} BY <2>1, <2>4, <2>5
  <2> QED BY <1>2, <2>1, <2>2, <2>6, <2>7, <2>8, <2>9, <2>10
<1>6. CASE RunLink BY <1>2, <1>4, <1>6 DEF RunLink
<1>7. CASE BatchWritten
  <2>1. Range(file') = Range(file) \cup Range(batch) BY <1>1, <1>7, RangeConcatenation DEF BatchWritten
  <2>2. Increasing(file') BY <1>1, <1>2, <1>7, IncreasingConcat DEF BatchWritten
  <2> QED BY <1>2, <1>4, <1>7, <2>1, <2>2 DEF BatchWritten
<1>8. CASE BatchFails
  <2>1. Range(batch) \cap (Range(file) \cup Range(queue)) = {}
    <3>1. \A m \in Range(file) \cup Range(batch) \cup Range(queue) : m \in Nat
      BY <1>2
    <3> QED BY <1>2, <3>1
  <2> QED BY <1>2, <1>4, <1>8, <2>1 DEF BatchFails
<1>9. CASE Flush \/ Close \/ Crash BY <1>2, <1>9 DEF Flush, Close, Crash
<1> QED BY <1>5, <1>6, <1>7, <1>8, <1>9 DEF LoggerNext, Chain

\* A link takes the whole queue, so what is queued then is queued behind it.
LEMMA BehindStep ==
  ASSUME LoggerTypeOK, LogInOrder, Behind, LoggerNext PROVE Behind'
<1> USE LoggerAssumptions DEF LoggerTypeOK, Behind, chainVars
<1>1. ASSUME NEW k \in 1..MaxBurst, Enqueue(k) PROVE Behind'
  <2> DEFINE new == [i \in 1..k |-> logged + i]
  <2>1. \A e \in Range(new) : e \in Nat /\ e > logged BY <1>1 DEF Range
  <2>2. new \in Seq(Nat) /\ queue \in Seq(Nat)
    <3>1. new \in Seq(Nat) BY <1>1, IsASeq
    <3>2. 1..logged \subseteq Nat OBVIOUS
    <3> QED BY <3>1, <3>2, SeqMonotonic
  <2>3. queue' = queue \o new BY <1>1 DEF Enqueue
  <2> HIDE DEF new
  <2>4. Range(queue') = Range(queue) \cup Range(new) BY <2>2, <2>3, RangeConcatenation
  <2> QED BY <1>1, <2>1, <2>4 DEF Enqueue
<1>2. Range(<<>>) = {} BY DEF Range
<1>3. CASE RunLink
  <2>1. \A e \in Range(queue) : e > settled BY <1>3 DEF RunLink
  <2> QED BY <1>2, <1>3, <2>1 DEF RunLink
<1>4. CASE BatchWritten BY <1>2, <1>4 DEF BatchWritten
<1>5. CASE BatchFails BY <1>2, <1>5 DEF BatchFails
<1>6. CASE Flush \/ Close \/ Crash BY <1>6 DEF Flush, Close, Crash
<1> QED BY <1>1, <1>3, <1>4, <1>5, <1>6 DEF LoggerNext, Chain

LEMMA FlushStep == ASSUME LoggerTypeOK, FlushAwaited, LoggerNext PROVE FlushAwaited'
<1> USE LoggerAssumptions DEF LoggerTypeOK, FlushAwaited, chainVars
<1>1. CASE \E n \in 1..MaxBurst : Enqueue(n) BY <1>1 DEF Enqueue
<1>2. CASE Chain BY <1>2 DEF Chain, RunLink, BatchWritten, BatchFails
<1>3. CASE Flush \/ Close \/ Crash BY <1>3 DEF Flush, Close, Crash
<1> QED BY <1>1, <1>2, <1>3 DEF LoggerNext

-----------------------------------------------------------------------------
\* The inductive invariant of the logger holds in every session.
THEOREM LoggerCorrect == LoggerSpec => []LoggerInv
<1>1. LoggerInit => LoggerInv
  <2> SUFFICES ASSUME LoggerInit PROVE LoggerInv
    OBVIOUS
  <2>1. LoggerTypeOK BY LoggerAssumptions, EmptySeq DEF LoggerInit, LoggerTypeOK
  <2>2. LogInOrder
    <3>1. <<>> \in Seq(Nat) BY EmptySeq
    <3>2. <<>> \o <<>> \o <<>> = <<>> BY <3>1, ConcatEmptySeq
    <3> QED BY <3>2 DEF LoggerInit, LogInOrder, Increasing, Range
  <2>3. Behind /\ FlushAwaited BY DEF LoggerInit, Behind, FlushAwaited, Range
  <2> QED BY <2>1, <2>2, <2>3 DEF LoggerInv
<1>2. LoggerInv /\ [LoggerNext]_loggerVars => LoggerInv'
  <2> SUFFICES ASSUME LoggerInv, [LoggerNext]_loggerVars PROVE LoggerInv'
    OBVIOUS
  <2>1. CASE LoggerNext
    <3>1. LoggerTypeOK' BY <2>1, TypeStep DEF LoggerInv
    <3> QED BY <2>1, <3>1, OrderStep, BehindStep, FlushStep DEF LoggerInv
  <2>2. CASE UNCHANGED loggerVars
    BY <2>2 DEF loggerVars, chainVars, LoggerInv, LoggerTypeOK, LogInOrder, Behind, FlushAwaited
  <2> QED BY <2>1, <2>2
<1> QED BY <1>1, <1>2, PTL DEF LoggerSpec

\* The log file has the entries in the order they were logged, each once, and none is
\* anywhere else than in the file, on its way or lost with its batch (logger.ts 34-46).
THEOREM OrderCorrect == LoggerSpec => []LogInOrder
<1>1. LoggerInv => LogInOrder BY DEF LoggerInv
<1> QED BY <1>1, LoggerCorrect, PTL

\* The session is closed only when all that was logged before its flush has been
\* appended or lost with its batch (logger.ts 53-55, index.ts 596).
THEOREM FlushCorrect == LoggerSpec => []FlushedIsLogged
<1>1. LoggerInv => FlushedIsLogged
  <2> SUFFICES ASSUME LoggerInv, session = "closing", NEW e \in 1..mark
               PROVE  e \in Range(file) \cup lost
    BY DEF FlushedIsLogged
  <2>1. settled >= mark /\ e <= settled /\ e \in 1..logged
    BY LoggerAssumptions DEF LoggerInv, FlushAwaited, LoggerTypeOK
  <2>2. e \notin Range(batch) /\ e \notin Range(queue)
    BY <2>1, LoggerAssumptions DEF LoggerInv, Behind, LoggerTypeOK
  <2>3. Range(file \o batch \o queue) = Range(file) \cup Range(batch) \cup Range(queue)
    <3>1. 1..logged \subseteq Nat OBVIOUS
    <3>2. file \in Seq(Nat) /\ batch \in Seq(Nat) /\ queue \in Seq(Nat)
      BY <3>1, SeqMonotonic DEF LoggerInv, LoggerTypeOK
    <3> QED BY <3>2, OrderOfParts
  <2> QED BY <2>1, <2>2, <2>3 DEF LoggerInv, LogInOrder
<1> QED BY <1>1, LoggerCorrect, PTL
=============================================================================
