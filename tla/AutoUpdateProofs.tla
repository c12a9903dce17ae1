-------------------------- MODULE AutoUpdateProofs --------------------------
(***************************************************************************)
(* Proofs about AutoUpdate, for any number of downloads.                   *)
(***************************************************************************)
EXTENDS AutoUpdate, TLAPS

\* The first start: the binary is in place and nothing was downloaded.
LEMMA InitUpdateInv == Init => UpdateInv
<1>. HAVE Init
<1>. QED
  BY DownloadsAssumption
  DEF Init, UpdateInv, TypeOK, BinarySurvives, UpdateShape, Owed, File, Version,
      Corrupt, Absent, Label

\* Every step keeps the types; that quits stays in range needs the count of owed
\* downloads.
LEMMA StepTypeOK == UpdateInv /\ [Next]_vars => TypeOK'
<1>. SUFFICES ASSUME UpdateInv, [Next]_vars PROVE TypeOK'
  OBVIOUS
<1>. USE DownloadsAssumption
     DEF UpdateInv, TypeOK, File, Version, Corrupt, Absent, Label, Goto, file_vars
<1>1. CASE Attach
  BY <1>1 DEF Attach
<1>2. CASE ResolveFails \/ Check \/ Reject \/ DropOld \/ Prune
  BY <1>2 DEF ResolveFails, Check, Reject, DropOld, Prune
<1>3. CASE Backup \/ BackupFails \/ Install \/ InstallFails \/ Recover
  BY <1>3 DEF Backup, BackupFails, Install, InstallFails, Recover
<1>4. CASE Quit
  BY <1>4 DEF Quit, Owed
<1>5. CASE Download \/ Downloaded
  BY <1>5 DEF Download, Downloaded
<1>6. CASE Stop \/ Reinstall
  BY <1>6 DEF Stop, Reinstall
<1>7. CASE UNCHANGED vars
  BY <1>7 DEF vars
<1>. QED
  BY <1>1, <1>2, <1>3, <1>4, <1>5, <1>6, <1>7 DEF Next, HandleAutoUpdate

\* Every step, a failed one or a crash included, leaves a binary that loads or its
\* backup, and what the updater knows at each label stays true.
LEMMA StepShape == UpdateInv /\ [Next]_vars => BinarySurvives' /\ UpdateShape'
<1>. SUFFICES ASSUME UpdateInv, [Next]_vars PROVE BinarySurvives' /\ UpdateShape'
  OBVIOUS
<1>. USE DownloadsAssumption
     DEF UpdateInv, TypeOK, BinarySurvives, UpdateShape, File, Version, Corrupt, Absent,
         Goto, file_vars
<1>1. CASE Attach
  BY <1>1 DEF Attach
<1>2. CASE ResolveFails \/ Check
  BY <1>2 DEF ResolveFails, Check
<1>3. CASE Reject \/ DropOld \/ Prune
  BY <1>3 DEF Reject, DropOld, Prune
<1>4. CASE Backup \/ BackupFails
  BY <1>4 DEF Backup, BackupFails
<1>5. CASE Install \/ InstallFails \/ Recover
  BY <1>5 DEF Install, InstallFails, Recover
<1>6. CASE Quit \/ Stop \/ Reinstall
  BY <1>6 DEF Quit, Stop, Reinstall
<1>7. CASE Download \/ Downloaded
  BY <1>7 DEF Download, Downloaded
<1>8. CASE UNCHANGED vars
  BY <1>8 DEF vars
<1>. QED
  BY <1>1, <1>2, <1>3, <1>4, <1>5, <1>6, <1>7, <1>8 DEF Next, HandleAutoUpdate

\* A download is used up before a quit is ordered for it.
LEMMA StepOwed == UpdateInv /\ [Next]_vars => quits' + Owed' <= downloads'
<1>. SUFFICES ASSUME UpdateInv, [Next]_vars PROVE quits' + Owed' <= downloads'
  OBVIOUS
<1>. USE DownloadsAssumption
     DEF UpdateInv, TypeOK, UpdateShape, Owed, File, Version, Corrupt, Absent, Goto,
         file_vars
<1>1. CASE Attach \/ ResolveFails \/ Check
  BY <1>1 DEF Attach, ResolveFails, Check
<1>2. CASE Reject \/ DropOld \/ Prune
  BY <1>2 DEF Reject, DropOld, Prune
<1>3. CASE Backup \/ BackupFails
  BY <1>3 DEF Backup, BackupFails
<1>4. CASE Install \/ InstallFails \/ Recover
  BY <1>4 DEF Install, InstallFails, Recover
<1>5. CASE Quit \/ Stop \/ Reinstall
  BY <1>5 DEF Quit, Stop, Reinstall
<1>6. CASE Download \/ Downloaded
  BY <1>6 DEF Download, Downloaded
<1>7. CASE UNCHANGED vars
  BY <1>7 DEF vars
<1>. QED
  BY <1>1, <1>2, <1>3, <1>4, <1>5, <1>6, <1>7 DEF Next, HandleAutoUpdate

\* The inductive invariant holds of every reachable state.
LEMMA UpdateInvariant == Spec => []UpdateInv
<1>1. UpdateInv /\ [Next]_vars => UpdateInv'
  BY StepTypeOK, StepShape, StepOwed DEF UpdateInv
<1>. QED
  BY InitUpdateInv, <1>1, PTL DEF Spec

\* Type correctness of the updater's state.
THEOREM TypeCorrect == Spec => []TypeOK
<1>1. UpdateInv => TypeOK
  BY DEF UpdateInv
<1>. QED
  BY UpdateInvariant, <1>1, PTL

\* Whatever rename or removal of HandleAutoUpdate fails and whenever the server
\* crashes, the module's binary loads or .old is the binary that ran last.
THEOREM BinaryAlwaysSurvives == Spec => []BinarySurvives
<1>1. UpdateInv => BinarySurvives
  BY DEF UpdateInv
<1>. QED
  BY UpdateInvariant, <1>1, PTL

\* HandleAutoUpdate never orders more restarts than there were downloads.
THEOREM RestartsBounded == Spec => []NoRebootLoop
<1>1. UpdateInv => NoRebootLoop
  BY DEF UpdateInv, TypeOK, Owed, NoRebootLoop
<1>. QED
  BY UpdateInvariant, <1>1, PTL
=============================================================================
