----------------------------- MODULE AutoUpdate -----------------------------
(***************************************************************************)
(* HandleAutoUpdate: when the server attaches the module, a file           *)
(* easy_http_amxx...new next to the module's binary replaces it.  The      *)
(* binary is moved to .old, .new is moved in its place, and the server is  *)
(* told to quit; the next start loads the new binary and removes .old.     *)
(*                                                                         *)
(* One action per change of the file system: the server may crash between  *)
(* any two, and any of them may fail.  A plugin downloads .new while the   *)
(* module runs; what starts the server again, and an operator who puts a   *)
(* binary back, are outside the program.  One server uses the directory.   *)
(***************************************************************************)
EXTENDS Integers

CONSTANT MaxDownloads   \* bound: downloads of a .new file

ASSUME DownloadsAssumption == MaxDownloads \in Nat

\* What a file holds: a binary that dlopen accepts, named by its version;
\* something that it does not accept; or there is no file.
Version == 1 .. MaxDownloads + 1
Corrupt == -1
Absent == 0
File == Version \cup {Corrupt, Absent}

VARIABLES
    modulePath, newPath, oldPath,  \* the three files
    pc,          \* where the server is
    loaded,      \* version of the module in the running, or last, process
    downloads,   \* downloads of .new begun
    quits        \* quit commands given

file_vars == <<modulePath, newPath, oldPath>>
vars == <<file_vars, pc, loaded, downloads, quits>>

Label == {"stopped", "check", "reject", "drop_old", "backup", "install", "recover",
          "prune", "quit", "running", "quitting", "downloading"}

Init ==
    /\ modulePath = 1 /\ newPath = Absent /\ oldPath = Absent
    /\ pc = "stopped"
    /\ loaded = 1
    /\ downloads = 0 /\ quits = 0

-----------------------------------------------------------------------------
(* HandleAutoUpdate *)

Goto(from, to) == pc = from /\ pc' = to

\* OnAmxxAttach: the server has loaded the binary.
Attach ==
    /\ modulePath \in Version
    /\ Goto("stopped", "check")
    /\ loaded' = modulePath
    /\ UNCHANGED <<file_vars, downloads, quits>>

\* The module's path cannot be resolved: nothing is updated.
ResolveFails ==
    /\ Goto("check", "running")
    /\ UNCHANGED <<file_vars, loaded, downloads, quits>>

\* Mutant of Check: without the dry run.
CheckNoDryRun ==
    /\ Goto("check", IF newPath = Absent THEN "prune" ELSE "drop_old")
    /\ UNCHANGED <<file_vars, loaded, downloads, quits>>

\* Is there a .new file, and does dlopen accept it?
Check ==
    /\ Goto("check", IF newPath = Absent THEN "prune"
                     ELSE IF newPath = Corrupt THEN "reject" ELSE "drop_old")
    /\ UNCHANGED <<file_vars, loaded, downloads, quits>>

\* A .new file that does not load is removed, and the module starts.
Reject ==
    /\ Goto("reject", "running")
    /\ newPath' \in {Absent, newPath}
    /\ UNCHANGED <<modulePath, oldPath, loaded, downloads, quits>>

\* Whatever is left of the update before last is removed ...
DropOld ==
    /\ Goto("drop_old", "backup")
    /\ oldPath' \in {Absent, oldPath}
    /\ UNCHANGED <<modulePath, newPath, loaded, downloads, quits>>

\* ... the binary takes its place ...
Backup ==
    /\ oldPath' = modulePath
    /\ modulePath' = Absent
    /\ Goto("backup", "install")
    /\ UNCHANGED <<newPath, loaded, downloads, quits>>

BackupFails ==
    /\ Goto("backup", "running")
    /\ UNCHANGED <<file_vars, loaded, downloads, quits>>

\* Mutant of Install: .new is copied.
InstallCopies ==
    /\ modulePath' = newPath
    /\ Goto("install", "quit")
    /\ UNCHANGED <<newPath, oldPath, loaded, downloads, quits>>

\* ... and the new one takes the binary's.
Install ==
    /\ modulePath' = newPath
    /\ newPath' = Absent
    /\ Goto("install", "quit")
    /\ UNCHANGED <<oldPath, loaded, downloads, quits>>

InstallFails ==
    /\ Goto("install", "recover")
    /\ UNCHANGED <<file_vars, loaded, downloads, quits>>

\* Mutant of Recover: swapOccurred is set although the second rename failed.
RecoverQuits ==
    /\ modulePath' = oldPath /\ oldPath' = Absent
    /\ Goto("recover", "quit")
    /\ UNCHANGED <<newPath, loaded, downloads, quits>>

\* The binary is moved back.  A failure is not looked at.
Recover ==
    /\ \/ modulePath' = oldPath /\ oldPath' = Absent
       \/ UNCHANGED <<modulePath, oldPath>>
    /\ Goto("recover", "running")
    /\ UNCHANGED <<newPath, loaded, downloads, quits>>

\* swapOccurred: the server is told to quit.
Quit ==
    /\ Goto("quit", "quitting")
    /\ quits' = quits + 1
    /\ UNCHANGED <<file_vars, loaded, downloads>>

\* No .new file: the backup of the last update is removed.
Prune ==
    /\ Goto("prune", "running")
    /\ oldPath' \in {Absent, oldPath}
    /\ UNCHANGED <<modulePath, newPath, loaded, downloads, quits>>

HandleAutoUpdate ==
    \/ ResolveFails \/ Check \/ Reject \/ DropOld \/ Backup \/ BackupFails
    \/ Install \/ InstallFails \/ Recover \/ Quit \/ Prune

-----------------------------------------------------------------------------
(* Around it *)

\* A plugin starts to download .new: a part of a file does not load.
Download ==
    /\ Goto("running", "downloading")
    /\ downloads < MaxDownloads
    /\ downloads' = downloads + 1
    /\ newPath' = Corrupt
    /\ UNCHANGED <<modulePath, oldPath, loaded, quits>>

\* The download succeeds with the next version or with something else, or fails
\* and removes the file (FileTransfer).
Downloaded ==
    /\ Goto("downloading", "running")
    /\ newPath' \in {downloads + 1, Corrupt, Absent}
    /\ UNCHANGED <<modulePath, oldPath, loaded, downloads, quits>>

\* The process ends: quit, a shutdown, or a crash at any moment.
Stop ==
    /\ pc # "stopped" /\ pc' = "stopped"
    /\ UNCHANGED <<file_vars, loaded, downloads, quits>>

\* Without its binary the module is not loaded and does nothing.  An operator puts
\* a binary back.
Reinstall ==
    /\ pc = "stopped" /\ modulePath = Absent
    /\ modulePath' \in 1 .. downloads + 1
    /\ UNCHANGED <<newPath, oldPath, pc, loaded, downloads, quits>>

Next ==
    \/ Attach \/ HandleAutoUpdate
    \/ Download \/ Downloaded \/ Stop \/ Reinstall

Spec == Init /\ [][Next]_vars

-----------------------------------------------------------------------------
(* Correctness *)

\* Types of the files, the server's label and the counters.
TypeOK ==
    /\ modulePath \in File /\ newPath \in File /\ oldPath \in File
    /\ pc \in Label
    /\ loaded \in Version
    /\ downloads \in 0 .. MaxDownloads
    /\ quits \in 0 .. MaxDownloads

\* Whatever fails and whenever the server crashes, the module's binary is one that
\* loads, or it is missing and .old is the binary that ran last, so that renaming
\* it back restores the server.
BinarySurvives ==
    modulePath \in Version \/ (modulePath = Absent /\ oldPath = loaded)

\* Every quit that the updater orders has used up a download of its own: the server
\* does not restart for ever (CHANGELOG.md: "Auto Updater Loop").
NoRebootLoop == quits <= downloads

-----------------------------------------------------------------------------
(* What makes them inductive *)

\* What HandleAutoUpdate knows at each label.
UpdateShape ==
    /\ pc \in {"check", "reject", "drop_old", "backup", "prune"} => modulePath = loaded
    /\ pc \in {"install", "recover"} => modulePath = Absent /\ oldPath = loaded
    /\ pc \in {"drop_old", "backup", "install", "recover"} => newPath \in Version
    /\ pc = "downloading" => newPath = Corrupt

\* A .new file, or a quit about to be ordered, stands for a download not yet
\* answered by a quit.
Owed == (IF newPath = Absent THEN 0 ELSE 1) + (IF pc = "quit" THEN 1 ELSE 0)

UpdateInv ==
    /\ TypeOK
    /\ BinarySurvives
    /\ UpdateShape
    /\ quits + Owed <= downloads
=============================================================================
