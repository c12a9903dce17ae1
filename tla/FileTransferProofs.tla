-------------------------- MODULE FileTransferProofs --------------------------
(***************************************************************************)
(* What a transfer leaves on disk, for every set of requests, paths, hosts *)
(* and jobs and every length of a file.                                    *)
(*                                                                         *)
(* The invariant has three layers.  FileInv says where a worker can be     *)
(* with a file open and who created what is on disk: enough for            *)
(* FailureLeavesNothing.  HandleInv says who holds a curl handle, what its *)
(* session has put on it and what earlier ones can have left there: with   *)
(* SeparateUse, enough for OwnOptions.  WriteInv follows the pieces of a   *)
(* file that no other transfer touches from the write callback through the *)
(* stream's buffer to disk: with UploadsApart, which makes curl do no      *)
(* upload in a download's place, enough for SuccessMeansComplete.          *)
(*                                                                         *)
(* Each part is stated for one request, since a step of a worker changes   *)
(* its own request only, but for the files: what it does to a file that    *)
(* another request uses is what the proof is about.                        *)
(***************************************************************************)
EXTENDS FileTransfer, TLAPS

\* Where a worker is with its files.
WorkerOK(r) ==
    /\ pc[r] # "queued" => job[r] \in Job
    /\ pc[r] \notin {"queued", "done"} => handle[r] \in Handle
    /\ pc[r] \in {"queued", "prepare"} => created[r] = <<>> /\ entry[r] = 1 /\ r \notin open
    /\ pc[r] \in {"queued", "prepare", "opened", "perform"} => code[r] = "OK"
    /\ pc[r] = "remove" => code[r] # "OK"
    /\ pc[r] = "opened" => job[r].kind = "FtpDownload"
    /\ pc[r] # "queued" /\ job[r].kind # "FtpWildcard" => entry[r] = 1
    /\ pc[r] \in {"return", "done"} /\ code[r] # "OK" => created[r] = <<>>

\* An open stream writes to a file that the request has created.
StreamOK(r) ==
    r \in open =>
        /\ pc[r] \in {"opened", "perform", "close"} /\ Downloads(r)
        /\ Current(r) \in Path /\ Uses(r, Current(r))
        /\ r \in linked => files[Current(r)] \in Content

\* Whoever truncated a file last still has it among what it created.
ByWhom(r) ==
    \A p \in Path : files[p] # None /\ files[p].by = r => Uses(r, p)

FileOK(r) == WorkerOK(r) /\ StreamOK(r) /\ ByWhom(r)

FileInv == TypeOK /\ \A r \in Request : FileOK(r)

\* A session has a handle of its request's host, and nobody else has it.
HolderOK(r) ==
    /\ IF pc[r] \in {"queued", "done"}
       THEN handle[r] = None
       ELSE /\ handle[r] \in Handle \ idle
            /\ home[handle[r]] = job[r].host
    /\ \A q \in Request : handle[r] = handle[q] => r = q \/ handle[r] = None

\* Some job of the host asks for option o.
LeftBy(o, host) == \E j \in Job : j.host = host /\ o \in Wanted(j)

\* What is set on a handle was asked for by some job of its host; CURLOPT_WILDCARDMATCH
\* is set only while a wildcard download has the handle.
Residue(h) ==
    /\ \A o \in options[h] : LeftBy(o, home[h])
    /\ "wildcard" \in options[h] =>
          \E r \in Request : /\ handle[r] = h /\ pc[r] \in {"perform", "close"}
                             /\ job[r].kind = "FtpWildcard"

\* What a session has put on its handle: its request's settings from the beginning,
\* all that the request asks for when the transfer runs; what it switches off stays
\* off.
SessionOK(r) ==
    /\ pc[r] \in {"prepare", "opened"} =>
          /\ Asked(job[r]) \subseteq options[handle[r]]
          /\ Linux => "no_verify" \notin options[handle[r]]
    /\ pc[r] = "perform" =>
          /\ Wanted(job[r]) \subseteq options[handle[r]]
          /\ options[handle[r]] \cap Resets(job[r]) \subseteq Wanted(job[r])

HandleInv ==
    /\ \A r \in Request : HolderOK(r) /\ SessionOK(r)
    /\ \A h \in idle : home[h] # None
    /\ \A h \in Handle : Residue(h)

\* A file that no other transfer disturbed has no other user that is still at work.
Alone(r) ==
    \A p \in Path : Uses(r, p) /\ <<r, p>> \notin disturbed =>
        \A q \in Request \ {r} : Uses(q, p) => pc[q] = "done"

\* Every piece that such a transfer received is on disk or in the buffer of its
\* open stream; a file that it has closed is complete.
Written(r) ==
    \A p \in Path :
        code[r] = "OK" /\ Uses(r, p) /\ <<r, p>> \notin disturbed =>
            IF r \in open /\ Current(r) = p
            THEN /\ r \in linked /\ files[p].by = r
                 /\ \A k \in 1 .. received[r] : k \in buffer[r] \/ files[p].data[k] = r
            ELSE files[p] = Complete(r) \/ <<r, p>> \in unflushed

\* A download has opened every file up to the current one, and one that ended well
\* has reached the last.
Covered(r) ==
    code[r] = "OK" /\ pc[r] \notin {"queued", "prepare"} /\ Downloads(r) =>
        /\ \A i \in 1 .. Len(job[r].files) :
              i <= entry[r] /\ job[r].files[i] # Skipped => Uses(r, job[r].files[i])
        /\ pc[r] \in {"close", "decide", "return", "done"} =>
              entry[r] = Len(job[r].files) /\ (r \in open => received[r] = Chunks)

WriteOK(r) == Alone(r) /\ Written(r) /\ Covered(r)

WriteInv == \A r \in Request : WriteOK(r)

USE DEF handle_vars, file_vars

-----------------------------------------------------------------------------
(* What a step of one worker leaves alone. *)

\* Other requests keep their place, their job and what they have created.
OthersKept(r) ==
    \A q \in Request \ {r} :
        /\ pc'[q] = pc[q] /\ job'[q] = job[q] /\ code'[q] = code[q]
        /\ handle'[q] = handle[q]
        /\ entry'[q] = entry[q] /\ received'[q] = received[q]
        /\ buffer'[q] = buffer[q] /\ created'[q] = created[q]
        /\ q \in open' <=> q \in open

\* A step of r may take the name of another request's open file away, or change
\* the contents of a file, but not so that another request seems to have made it.
FilesKept(r) ==
    /\ \A q \in Request \ {r} : q \in linked' =>
          q \in linked /\ (files[Current(q)] \in Content => files'[Current(q)] \in Content)
    /\ \A p \in Path : \A q \in Request \ {r} :
          files'[p] # None /\ files'[p].by = q => files[p] # None /\ files[p].by = q

\* The invariant has to be checked for the worker that moves only.
LEMMA FileFrame ==
    ASSUME FileInv, NEW r \in Request, OthersKept(r), FilesKept(r), TypeOK', FileOK(r)'
    PROVE  FileInv'
<1> SUFFICES ASSUME NEW q \in Request \ {r} PROVE FileOK(q)'
  BY DEF FileInv
<1>1. FileOK(q)
  BY DEF FileInv
<1>2. /\ pc'[q] = pc[q] /\ job'[q] = job[q] /\ code'[q] = code[q]
      /\ entry'[q] = entry[q] /\ created'[q] = created[q] /\ handle'[q] = handle[q]
      /\ q \in open' <=> q \in open
  BY DEF OthersKept
<1>3. /\ Current(q)' = Current(q) /\ Downloads(q)' = Downloads(q)
      /\ \A p : Uses(q, p)' = Uses(q, p)
  BY <1>2 DEF Current, Downloads, Uses
<1>4. WorkerOK(q)'
  BY <1>1, <1>2 DEF FileOK, WorkerOK
<1>5. StreamOK(q)'
  BY <1>1, <1>2, <1>3 DEF FileOK, StreamOK, FilesKept
<1>6. ByWhom(q)'
  BY <1>1, <1>3 DEF FileOK, ByWhom, FilesKept
<1>7. QED
  BY <1>4, <1>5, <1>6 DEF FileOK

-----------------------------------------------------------------------------
(* FileInv: steps that leave the files alone. *)

\* The worker moves on; its files stay as they are.
LEMMA MoveFile ==
    ASSUME FileInv, NEW r \in Request, OthersKept(r), TypeOK', WorkerOK(r)',
           UNCHANGED <<files, open, linked, created>>,
           r \in open => /\ pc'[r] \in {"opened", "perform", "close"}
                         /\ job'[r] = job[r] /\ entry'[r] = entry[r]
    PROVE  FileInv'
<1>1. FilesKept(r)
  BY DEF FilesKept
<1>2. FileOK(r)
  BY DEF FileInv
<1>3. \A p : Uses(r, p)' = Uses(r, p)
  BY DEF Uses
<1>4. r \in open => Current(r)' = Current(r) /\ Downloads(r)' = Downloads(r)
  BY DEF Current, Downloads
<1>5. StreamOK(r)'
  BY <1>2, <1>3, <1>4 DEF FileOK, StreamOK
<1>6. ByWhom(r)'
  BY <1>2, <1>3 DEF FileOK, ByWhom
<1>7. QED
  BY <1>1, <1>5, <1>6, FileFrame DEF FileOK

\* The FTP functions set curl's options, not settings.
LEMMA FtpOptionSet ==
    ASSUME NEW j \in Job
    PROVE  FtpOptions(j) \subseteq {"upload", "create_dirs", "wildcard", "use_ssl", "no_verify"}
<1>1. (IF j.secure THEN {"use_ssl", "no_verify"} ELSE {}) \subseteq {"use_ssl", "no_verify"}
  OBVIOUS
<1>2. CASE j.kind = "FtpUpload"
  BY <1>1, <1>2 DEF FtpOptions
<1>3. CASE j.kind = "FtpWildcard"
  BY <1>1, <1>3 DEF FtpOptions
<1>4. CASE j.kind \notin {"FtpUpload", "FtpWildcard"}
  BY <1>1, <1>4 DEF FtpOptions
<1>5. QED
  BY <1>2, <1>3, <1>4

\* What a session and a transfer put on a handle are options.
LEMMA OptionSets ==
    ASSUME NEW j \in Job
    PROVE  /\ j.kind \in Kind /\ j.host \in Host /\ j.secure \in BOOLEAN
           /\ Asked(j) \subseteq CommonSetting \cup HttpSetting
           /\ Asked(j) \subseteq Option /\ FtpOptions(j) \subseteq Option
           /\ "wildcard" \notin Asked(j) /\ "no_verify" \notin Asked(j)
           /\ "upload" \notin Asked(j)
<1>1. j.kind \in Kind /\ j.host \in Host /\ j.secure \in BOOLEAN
  BY JobAssumption DEF Jobs
<1>2. Asked(j) \subseteq CommonSetting \cup HttpSetting
  BY DEF Asked
<1>3. Asked(j) \subseteq Option
  BY <1>2 DEF Option
<1>4. FtpOptions(j) \subseteq {"upload", "create_dirs", "wildcard", "use_ssl", "no_verify"}
  BY FtpOptionSet
<1>5. FtpOptions(j) \subseteq Option
  BY <1>4 DEF Option
<1>6. /\ "wildcard" \notin CommonSetting \cup HttpSetting
      /\ "no_verify" \notin CommonSetting \cup HttpSetting
      /\ "upload" \notin CommonSetting \cup HttpSetting
  BY DEF CommonSetting, HttpSetting
<1>7. QED
  BY <1>1, <1>2, <1>3, <1>5, <1>6

\* Only wildcard downloads ask for CURLOPT_WILDCARDMATCH ...
LEMMA WildcardWanted ==
    ASSUME NEW j \in Job
    PROVE  "wildcard" \in Wanted(j) <=> j.kind = "FtpWildcard"
<1>1. "wildcard" \notin Asked(j)
  BY OptionSets
<1>2. "wildcard" \in FtpOptions(j) <=> j.kind = "FtpWildcard"
  <2>1. "wildcard" \notin (IF j.secure THEN {"use_ssl", "no_verify"} ELSE {})
    OBVIOUS
  <2>2. CASE j.kind = "FtpUpload"
    BY <2>1, <2>2 DEF FtpOptions
  <2>3. CASE j.kind = "FtpWildcard"
    BY <2>3 DEF FtpOptions
  <2>4. CASE j.kind \notin {"FtpUpload", "FtpWildcard"}
    BY <2>1, <2>4 DEF FtpOptions
  <2>5. QED
    BY <2>2, <2>3, <2>4
<1>3. QED
  BY <1>1, <1>2 DEF Wanted, IsFtp

\* ... and only uploads for CURLOPT_UPLOAD.
LEMMA UploadWanted ==
    ASSUME NEW j \in Job
    PROVE  "upload" \in Wanted(j) <=> j.kind = "FtpUpload"
<1>1. "upload" \notin Asked(j)
  BY OptionSets
<1>2. "upload" \in FtpOptions(j) <=> j.kind = "FtpUpload"
  <2>1. "upload" \notin (IF j.secure THEN {"use_ssl", "no_verify"} ELSE {})
    OBVIOUS
  <2>2. CASE j.kind = "FtpUpload"
    BY <2>2 DEF FtpOptions
  <2>3. CASE j.kind = "FtpWildcard"
    BY <2>1, <2>3 DEF FtpOptions
  <2>4. CASE j.kind \notin {"FtpUpload", "FtpWildcard"}
    BY <2>1, <2>4 DEF FtpOptions
  <2>5. QED
    BY <2>2, <2>3, <2>4
<1>3. QED
  BY <1>1, <1>2 DEF Wanted, IsFtp

\* What a request asks for matters to it.
LEMMA WantedSeen ==
    ASSUME NEW j \in Job
    PROVE  Wanted(j) \subseteq Seen(j)
<1>1. CASE IsFtp(j)
  <2> DEFINE http == {"user_agent", "url_parameters", "form_payload", "body", "header",
                      "cookies"}
  <2>1. Asked(j) \subseteq CommonSetting
    BY <1>1 DEF Asked
  <2>2. Asked(j) \cap http = {}
    BY <2>1 DEF CommonSetting
  <2>3. FtpOptions(j) \cap http = {}
    <3>1. FtpOptions(j) \subseteq {"upload", "create_dirs", "wildcard", "use_ssl", "no_verify"}
      BY FtpOptionSet
    <3>2. QED
      BY <3>1
  <2>4. Asked(j) \subseteq Option /\ FtpOptions(j) \subseteq Option
    BY OptionSets
  <2>5. Seen(j) = Option \ http
    BY <1>1 DEF Seen
  <2>6. Wanted(j) = Asked(j) \cup FtpOptions(j)
    BY <1>1 DEF Wanted
  <2> HIDE DEF http
  <2>7. QED
    BY <2>2, <2>3, <2>4, <2>5, <2>6
<1>2. CASE ~IsFtp(j)
  <2>1. Asked(j) \subseteq CommonSetting \cup HttpSetting /\ Asked(j) \subseteq Option
    BY OptionSets
  <2>2. /\ "use_ssl" \notin CommonSetting \cup HttpSetting
        /\ "create_dirs" \notin CommonSetting \cup HttpSetting
    BY DEF CommonSetting, HttpSetting
  <2>3. Seen(j) = Option \ {"use_ssl", "create_dirs"} /\ Wanted(j) = Asked(j)
    BY <1>2 DEF Seen, Wanted
  <2>4. QED
    BY <2>1, <2>2, <2>3
<1>3. QED
  BY <1>1, <1>2

\* SendRequest: session, then flag, then the settings.
LEMMA GetSessionFile ==
    ASSUME FileInv, NEW r \in Request, GetSession(r)
    PROVE  FileInv'
<1>1. PICK j \in Job, h \in Handle :
          /\ job' = [job EXCEPT ![r] = j] /\ handle' = [handle EXCEPT ![r] = h]
          /\ home' = [home EXCEPT ![h] = j.host] /\ idle' = idle \ {h}
          /\ \/ /\ pc' = [pc EXCEPT ![r] = "return"]
                /\ code' = [code EXCEPT ![r] = "REQUEST_CANCELLED"]
             \/ pc' = [pc EXCEPT ![r] = "prepare"] /\ UNCHANGED code
          /\ pc[r] = "queued"
          /\ UNCHANGED options \/ SetSession(j, h)
          /\ UNCHANGED <<canceled, file_vars>>
  BY DEF GetSession, Goto, Answer
<1>2. TypeOK /\ WorkerOK(r)
  BY DEF FileInv, FileOK
<1>3. j.host \in Host /\ Asked(j) \subseteq Option
  BY OptionSets
<1>4. options' \in [Handle -> SUBSET Option]
  <2>1. options \in [Handle -> SUBSET Option]
    BY <1>2 DEF TypeOK
  <2>2. CASE UNCHANGED options
    BY <2>1, <2>2
  <2>3. CASE SetSession(j, h)
    <3>1. PICK set : set = (IF Linux THEN options[h] \ {"no_verify"} ELSE options[h])
                              \cup Asked(j)
      OBVIOUS
    <3>2. set \in SUBSET Option
      BY <1>3, <2>1, <3>1
    <3>3. options' = [options EXCEPT ![h] = set]
      BY <2>3, <3>1 DEF SetSession
    <3>4. QED
      BY <2>1, <3>2, <3>3
  <2>4. QED
    BY <1>1, <2>2, <2>3
<1>5. TypeOK'
  BY <1>1, <1>2, <1>3, <1>4 DEF TypeOK, Label, ErrorCode
<1>6. OthersKept(r)
  BY <1>1, <1>2 DEF OthersKept, TypeOK
<1>7. WorkerOK(r)' /\ r \notin open
  BY <1>1, <1>2 DEF TypeOK, WorkerOK
<1>8. QED
  BY <1>1, <1>5, <1>6, <1>7, MoveFile

\* The steps of a worker that change its place and its answer, and no more than
\* the options of its handle besides.
Moves(r) ==
    \/ PrepareFails(r) \/ CancelBeforeTransfer(r) \/ StartFtpDownload(r)
    \/ TransferFails(r) \/ TransferSucceeds(r) \/ Decide(r) \/ RemovedAll(r)
    \/ ReturnSession(r)

\* What they have in common.
LEMMA MovesFacts ==
    ASSUME FileInv, NEW r \in Request, Moves(r)
    PROVE  /\ UNCHANGED <<job, canceled, home, file_vars>>
           /\ pc[r] # "done" /\ pc[r] # "queued"
           /\ pc' = [pc EXCEPT ![r] = pc'[r]] /\ pc'[r] \in Label \ {"queued", "prepare"}
           /\ code' = [code EXCEPT ![r] = code'[r]] /\ code'[r] \in ErrorCode
           /\ code'[r] = "OK" => code[r] = "OK"
           /\ WorkerOK(r)'
           /\ r \in open => pc'[r] \in {"opened", "perform", "close"}
<1>1. TypeOK /\ WorkerOK(r) /\ StreamOK(r)
  BY DEF FileInv, FileOK
<1>2. CASE PrepareFails(r)
  BY <1>1, <1>2 DEF PrepareFails, Goto, Answer, WorkerOK, StreamOK, TypeOK, Label, ErrorCode
<1>3. CASE CancelBeforeTransfer(r)
  BY <1>1, <1>3
  DEF CancelBeforeTransfer, Goto, Answer, WorkerOK, StreamOK, TypeOK, Label, ErrorCode
<1>4. CASE StartFtpDownload(r)
  BY <1>1, <1>4 DEF StartFtpDownload, Goto, WorkerOK, StreamOK, TypeOK, Label, ErrorCode
<1>5. CASE TransferFails(r)
  BY <1>1, <1>5
  DEF TransferFails, EndWithError, Goto, Answer, WorkerOK, StreamOK, TypeOK, Label, ErrorCode
<1>6. CASE TransferSucceeds(r)
  BY <1>1, <1>6 DEF TransferSucceeds, Goto, Answer, WorkerOK, StreamOK, TypeOK, Label, ErrorCode
<1>7. CASE Decide(r)
  BY <1>1, <1>7 DEF Decide, Goto, Answer, WorkerOK, StreamOK, TypeOK, Label, ErrorCode
<1>8. CASE RemovedAll(r)
  BY <1>1, <1>8 DEF RemovedAll, Goto, WorkerOK, StreamOK, TypeOK, Label, ErrorCode
<1>9. CASE ReturnSession(r)
  BY <1>1, <1>9 DEF ReturnSession, Goto, WorkerOK, StreamOK, TypeOK, Label, ErrorCode
<1>10. QED
  BY <1>2, <1>3, <1>4, <1>5, <1>6, <1>7, <1>8, <1>9 DEF Moves

\* The options of a handle are options, whatever is set.
LEMMA SetOptionsType ==
    ASSUME TypeOK, NEW r \in Request, job[r] \in Job, SetOptions(r)
    PROVE  options' \in [Handle -> SUBSET Option]
<1>1. FtpOptions(job[r]) \subseteq Option
  BY OptionSets
<1>2. QED
  BY <1>1 DEF TypeOK, SetOptions

\* Such steps keep FileInv.
LEMMA MovesFile ==
    ASSUME FileInv, NEW r \in Request, Moves(r)
    PROVE  FileInv'
<1>1. /\ UNCHANGED <<job, canceled, home, file_vars>>
      /\ pc' = [pc EXCEPT ![r] = pc'[r]] /\ pc'[r] \in Label
      /\ code' = [code EXCEPT ![r] = code'[r]] /\ code'[r] \in ErrorCode
      /\ WorkerOK(r)'
      /\ r \in open => pc'[r] \in {"opened", "perform", "close"}
  BY MovesFacts
<1>2. TypeOK
  BY DEF FileInv
<1>3. /\ handle' \in [Request -> Handle \cup {None}] /\ idle' \subseteq Handle
      /\ options' \in [Handle -> SUBSET Option]
  <2>1. CASE ReturnSession(r)
    BY <1>2, <2>1 DEF ReturnSession, Goto, TypeOK, FileInv, FileOK, WorkerOK
  <2>2. CASE StartFtpDownload(r)
    <3>1. SetOptions(r) /\ job[r] \in Job /\ UNCHANGED <<handle, idle>>
      BY <2>2 DEF StartFtpDownload, Goto, FileInv, FileOK, WorkerOK
    <3>2. QED
      BY <1>2, <3>1, SetOptionsType DEF TypeOK
  <2>3. CASE UNCHANGED handle_vars
    BY <1>2, <2>3 DEF TypeOK
  <2>4. QED
    BY <2>1, <2>2, <2>3
    DEF Moves, PrepareFails, CancelBeforeTransfer, TransferFails, EndWithError,
        TransferSucceeds, Decide, RemovedAll
<1>4. TypeOK'
  BY <1>1, <1>2, <1>3 DEF TypeOK
<1>5. OthersKept(r)
  <2>1. \A q \in Request \ {r} : handle'[q] = handle[q]
    BY <1>2
    DEF Moves, PrepareFails, CancelBeforeTransfer, StartFtpDownload, TransferFails,
        EndWithError, TransferSucceeds, Decide, RemovedAll, ReturnSession, TypeOK
  <2>2. QED
    BY <1>1, <1>2, <2>1 DEF OthersKept, TypeOK
<1>6. QED
  BY <1>1, <1>4, <1>5, MoveFile

\* ezhttp_cancel_request sets a flag.
LEMMA CancelFile ==
    ASSUME FileInv, NEW r \in Request, Cancel(r)
    PROVE  FileInv'
<1>1. canceled' = canceled \cup {r} /\ UNCHANGED <<pc, job, code, handle_vars, file_vars>>
  BY DEF Cancel
<1>2. TypeOK /\ FileOK(r)
  BY DEF FileInv
<1>3. TypeOK'
  BY <1>1, <1>2 DEF TypeOK
<1>4. OthersKept(r)
  BY <1>1 DEF OthersKept
<1>5. WorkerOK(r)'
  BY <1>1, <1>2 DEF FileOK, WorkerOK
<1>6. QED
  BY <1>1, <1>2, <1>3, <1>4, <1>5, MoveFile DEF FileOK, StreamOK

\* The steps that change the index of the current file while none is open.
Advances(r) == StartTransfer(r) \/ ChunkSkip(r) \/ ChunkFails(r)

\* What they have in common.
LEMMA AdvancesFacts ==
    ASSUME FileInv, NEW r \in Request, Advances(r)
    PROVE  /\ UNCHANGED <<job, canceled, handle, home, idle, files, open, linked, received,
                          buffer, created, disturbed, unflushed>>
           /\ r \notin open /\ pc[r] \in {"prepare", "perform"}
           /\ pc' = [pc EXCEPT ![r] = pc'[r]] /\ pc'[r] \in {"perform", "close"}
           /\ code' = [code EXCEPT ![r] = code'[r]] /\ code'[r] \in ErrorCode
           /\ code'[r] = "OK" => pc'[r] = "perform"
           /\ entry' = [entry EXCEPT ![r] = entry'[r]] /\ entry'[r] \in Nat
           /\ job[r].kind # "FtpWildcard" => entry'[r] = 1
           /\ code[r] = "OK"
<1>1. TypeOK /\ WorkerOK(r) /\ StreamOK(r)
  BY DEF FileInv, FileOK
<1>2. CASE StartTransfer(r)
  BY <1>1, <1>2 DEF StartTransfer, Goto, WorkerOK, TypeOK, Label, ErrorCode
<1>3. CASE ChunkSkip(r)
  BY <1>1, <1>3 DEF ChunkSkip, NextEntry, WorkerOK, TypeOK, Label, ErrorCode
<1>4. CASE ChunkFails(r)
  BY <1>1, <1>4
  DEF ChunkFails, NextEntry, EndWithError, Goto, Answer, WorkerOK, TypeOK, Label, ErrorCode
<1>5. QED
  BY <1>2, <1>3, <1>4 DEF Advances

\* Such steps keep FileInv.
LEMMA AdvancesFile ==
    ASSUME FileInv, NEW r \in Request, Advances(r)
    PROVE  FileInv'
<1>1. /\ UNCHANGED <<job, canceled, handle, home, idle, files, open, linked, received,
                     buffer, created, disturbed, unflushed>>
      /\ r \notin open /\ pc[r] \in {"prepare", "perform"}
      /\ pc' = [pc EXCEPT ![r] = pc'[r]] /\ pc'[r] \in {"perform", "close"}
      /\ code' = [code EXCEPT ![r] = code'[r]] /\ code'[r] \in ErrorCode
      /\ code'[r] = "OK" => pc'[r] = "perform"
      /\ entry' = [entry EXCEPT ![r] = entry'[r]] /\ entry'[r] \in Nat
      /\ job[r].kind # "FtpWildcard" => entry'[r] = 1
      /\ code[r] = "OK"
  BY AdvancesFacts
<1>2. TypeOK /\ WorkerOK(r)
  BY DEF FileInv, FileOK
<1>3. options' \in [Handle -> SUBSET Option]
  <2>1. job[r] \in Job
    BY <1>1, <1>2 DEF WorkerOK
  <2>2. SetOptions(r) \/ UNCHANGED options
    BY DEF Advances, StartTransfer, ChunkSkip, ChunkFails, EndWithError
  <2>3. QED
    BY <1>2, <2>1, <2>2, SetOptionsType DEF TypeOK
<1>4. TypeOK'
  <2>1. pc'[r] \in Label
    BY <1>1 DEF Label
  <2>2. pc' \in [Request -> Label]
    <3>1. pc \in [Request -> Label] /\ pc' = [pc EXCEPT ![r] = pc'[r]]
      BY <1>1, <1>2 DEF TypeOK
    <3>2. QED
      BY <2>1, <3>1
  <2>3. code' \in [Request -> ErrorCode]
    BY <1>1, <1>2 DEF TypeOK
  <2>4. entry' \in [Request -> Nat]
    BY <1>1, <1>2 DEF TypeOK
  <2>5. QED
    BY <1>1, <1>2, <1>3, <2>2, <2>3, <2>4 DEF TypeOK
<1>5. OthersKept(r)
  BY <1>1, <1>2 DEF OthersKept, TypeOK
<1>6. WorkerOK(r)'
  <2>1. pc'[r] = "perform" => code'[r] = "OK"
    BY <1>1, <1>2
    DEF Advances, StartTransfer, ChunkSkip, ChunkFails, EndWithError, Goto, TypeOK
  <2>2. QED
    BY <1>1, <1>2, <2>1 DEF WorkerOK
<1>7. QED
  BY <1>1, <1>4, <1>5, <1>6, MoveFile

-----------------------------------------------------------------------------
(* FileInv: a file is opened. *)

\* The files of a job.
LEMMA JobFiles ==
    ASSUME NEW j \in Job
    PROVE  /\ j.files \in Seq(Path \cup {Skipped}) /\ Len(j.files) \in Nat
           /\ \A i \in 1 .. Len(j.files) : j.files[i] # Skipped => j.files[i] \in Path
           /\ j.kind \in {"HttpDownload", "FtpDownload"} =>
                 Len(j.files) = 1 /\ j.files[1] # Skipped /\ j.files[1] \in Path
<1>1. j \in Jobs /\ (j.kind \in {"HttpDownload", "FtpUpload", "FtpDownload"}
                        => Len(j.files) = 1 /\ j.files[1] # Skipped)
  BY JobAssumption
<1>2. j.files \in Seq(Path \cup {Skipped})
  BY <1>1 DEF Jobs
<1>3. \A i \in 1 .. Len(j.files) : j.files[i] # Skipped => j.files[i] \in Path
  BY <1>2
<1>4. QED
  BY <1>1, <1>2, <1>3

Opens(r) == StartHttpDownload(r) \/ OpenFtpDownload(r) \/ ChunkBegin(r)

\* r has opened p, which was listed next or is the file of a single download.
Opened(r, p) ==
    /\ OpenTruncated(r, p) /\ p \in Path
    /\ UNCHANGED <<job, canceled, code, handle, home, idle, buffer, unflushed>>
    /\ r \notin open /\ pc[r] \in {"prepare", "perform"} /\ code[r] = "OK" /\ Downloads(r)
    /\ pc' = [pc EXCEPT ![r] = pc'[r]] /\ pc'[r] \in {"opened", "perform"}
    /\ pc'[r] = "opened" => job[r].kind = "FtpDownload"
    /\ entry' = [entry EXCEPT ![r] = entry'[r]] /\ entry'[r] \in 1 .. Len(job[r].files)
    /\ job[r].files[entry'[r]] = p /\ job[r] \in Job
    /\ IF job[r].kind = "FtpWildcard" THEN pc[r] = "perform" /\ entry'[r] = entry[r] + 1
                                      ELSE entry'[r] = 1
    /\ options' \in [Handle -> SUBSET Option]

\* The three ways to open a file.
LEMMA OpensFacts ==
    ASSUME FileInv, NEW r \in Request, Opens(r)
    PROVE  \E p \in Path : Opened(r, p)
<1>1. TypeOK /\ WorkerOK(r) /\ StreamOK(r)
  BY DEF FileInv, FileOK
<1>2. CASE StartHttpDownload(r)
  <2>1. /\ pc[r] = "prepare" /\ job[r].kind = "HttpDownload" /\ job[r] \in Job
        /\ entry[r] = 1 /\ r \notin open /\ code[r] = "OK"
        /\ OpenTruncated(r, job[r].files[1])
        /\ pc' = [pc EXCEPT ![r] = "perform"]
        /\ UNCHANGED <<job, canceled, code, handle, home, idle, entry, buffer, unflushed>>
    BY <1>1, <1>2 DEF StartHttpDownload, Goto, WorkerOK, Current
  <2>2. job[r].files[1] \in Path /\ Len(job[r].files) = 1
    BY <2>1, JobFiles
  <2>3. options' \in [Handle -> SUBSET Option]
    BY <1>1, <1>2, <2>1, SetOptionsType DEF StartHttpDownload
  <2>4. Opened(r, job[r].files[1])
    BY <1>1, <2>1, <2>2, <2>3 DEF Opened, Downloads, TypeOK
  <2>5. QED
    BY <2>2, <2>4
<1>3. CASE OpenFtpDownload(r)
  <2>1. /\ pc[r] = "prepare" /\ job[r].kind = "FtpDownload" /\ job[r] \in Job
        /\ entry[r] = 1 /\ r \notin open /\ code[r] = "OK"
        /\ OpenTruncated(r, job[r].files[1])
        /\ pc' = [pc EXCEPT ![r] = "opened"]
        /\ UNCHANGED <<job, canceled, code, handle_vars, entry, buffer, unflushed>>
    BY <1>1, <1>3 DEF OpenFtpDownload, Goto, WorkerOK, Current
  <2>2. job[r].files[1] \in Path /\ Len(job[r].files) = 1
    BY <2>1, JobFiles
  <2>3. options' \in [Handle -> SUBSET Option]
    BY <1>1, <2>1 DEF TypeOK
  <2>4. Opened(r, job[r].files[1])
    BY <1>1, <2>1, <2>2, <2>3 DEF Opened, Downloads, TypeOK
  <2>5. QED
    BY <2>2, <2>4
<1>4. CASE ChunkBegin(r)
  <2> DEFINE p == job[r].files[entry[r] + 1]
  <2>1. /\ pc[r] = "perform" /\ job[r].kind = "FtpWildcard" /\ job[r] \in Job
        /\ r \notin open /\ code[r] = "OK" /\ entry[r] < Len(job[r].files)
        /\ OpenTruncated(r, p) /\ p # Skipped
        /\ entry' = [entry EXCEPT ![r] = entry[r] + 1] /\ entry[r] \in Nat
        /\ UNCHANGED <<pc, job, canceled, code, handle_vars, buffer, unflushed>>
    BY <1>1, <1>4 DEF ChunkBegin, NextEntry, WorkerOK, TypeOK
  <2>2. Len(job[r].files) \in Nat /\ entry[r] + 1 \in 1 .. Len(job[r].files)
    BY <2>1, JobFiles
  <2>3. p \in Path
    BY <2>1, <2>2, JobFiles
  <2>4. entry'[r] = entry[r] + 1 /\ pc'[r] = "perform"
    BY <1>1, <2>1 DEF TypeOK
  <2>5. options' \in [Handle -> SUBSET Option]
    BY <1>1, <2>1 DEF TypeOK
  <2>6. Opened(r, p)
    BY <1>1, <2>1, <2>2, <2>3, <2>4, <2>5 DEF Opened, Downloads, TypeOK
  <2>7. QED
    BY <2>3, <2>6
<1>5. QED
  BY <1>2, <1>3, <1>4 DEF Opens

\* What OpenTruncated does to the file and to what r has created.
LEMMA OpenedState ==
    ASSUME FileInv, NEW r \in Request, NEW p \in Path, Opened(r, p)
    PROVE  /\ OthersKept(r)
           /\ files'[p] = Empty(r) /\ Empty(r) \in Content
           /\ \A x \in Path : x # p => files'[x] = files[x]
           /\ open' = open \cup {r} /\ linked' = linked \cup {r}
           /\ Current(r)' = p
           /\ \A x : Uses(r, x)' <=> Uses(r, x) \/ x = p
           /\ received'[r] = 0
<1>1. TypeOK /\ created[r] \in Seq(Path)
  BY DEF FileInv, TypeOK
<1>2. /\ files' = [files EXCEPT ![p] = Empty(r)]
      /\ open' = open \cup {r} /\ linked' = linked \cup {r}
      /\ received' = [received EXCEPT ![r] = 0]
      /\ created' = [created EXCEPT ![r] = Append(@, p)]
  BY DEF Opened, OpenTruncated
<1>3. Empty(r) \in Content
  BY DEF Empty, Content
<1>4. Current(r)' = p
  BY DEF Opened, Current
<1>5. created'[r] = Append(created[r], p)
  BY <1>1, <1>2 DEF TypeOK
<1>6. \A x : Uses(r, x)' <=> Uses(r, x) \/ x = p
  <2>1. /\ Len(created'[r]) = Len(created[r]) + 1 /\ Len(created[r]) \in Nat
        /\ created'[r][Len(created[r]) + 1] = p
        /\ \A i \in 1 .. Len(created[r]) : created'[r][i] = created[r][i]
    BY <1>1, <1>5
  <2>2. QED
    BY <2>1 DEF Uses
<1>7. OthersKept(r)
  BY <1>1, <1>2 DEF OthersKept, Opened, TypeOK
<1>8. QED
  BY <1>1, <1>2, <1>3, <1>4, <1>6, <1>7 DEF TypeOK

\* Opening a file keeps FileInv.
LEMMA OpensFile ==
    ASSUME FileInv, NEW r \in Request, Opens(r)
    PROVE  FileInv'
<1>1. PICK p \in Path : Opened(r, p)
  BY OpensFacts
<1>2. /\ OthersKept(r)
      /\ files'[p] = Empty(r) /\ Empty(r) \in Content
      /\ \A x \in Path : x # p => files'[x] = files[x]
      /\ open' = open \cup {r} /\ linked' = linked \cup {r}
      /\ Current(r)' = p
      /\ \A x : Uses(r, x)' <=> Uses(r, x) \/ x = p
  BY <1>1, OpenedState
<1>3. TypeOK /\ FileOK(r)
  BY DEF FileInv
<1>4. FilesKept(r)
  <2>1. Empty(r).by = r
    BY DEF Empty
  <2>2. \A q \in Request \ {r} : q \in linked => Current(q) \in Path
    BY <1>3 DEF FileInv, FileOK, StreamOK, TypeOK
  <2>3. QED
    BY <1>2, <2>1, <2>2 DEF FilesKept
<1>5. TypeOK'
  <2>1. files' \in [Path -> Content \cup {None}]
    BY <1>1, <1>2, <1>3 DEF Opened, OpenTruncated, TypeOK
  <2>2. created' \in [Request -> Seq(Path)]
    BY <1>1, <1>3 DEF Opened, OpenTruncated, TypeOK
  <2>3. disturbed' \subseteq Request \X Path
    BY <1>1, <1>3 DEF Opened, OpenTruncated, TypeOK
  <2>4. entry' \in [Request -> Nat] /\ received' \in [Request -> 0 .. Chunks]
    <3>1. entry'[r] \in Nat
      BY <1>1, JobFiles DEF Opened
    <3>2. entry' \in [Request -> Nat]
      BY <1>1, <1>3, <3>1 DEF Opened, TypeOK
    <3>3. 0 \in 0 .. Chunks
      BY ChunksAssumption
    <3>4. received' \in [Request -> 0 .. Chunks]
      BY <1>1, <1>3, <3>3 DEF Opened, OpenTruncated, TypeOK
    <3>5. QED
      BY <3>2, <3>4
  <2>5. pc' \in [Request -> Label] /\ linked' \subseteq open' /\ open' \subseteq Request
    <3>1. pc'[r] \in Label /\ pc' = [pc EXCEPT ![r] = pc'[r]]
      BY <1>1 DEF Opened, Label
    <3>2. pc' \in [Request -> Label]
      BY <1>3, <3>1 DEF TypeOK
    <3>3. linked' \subseteq open' /\ open' \subseteq Request
      BY <1>2, <1>3 DEF TypeOK
    <3>4. QED
      BY <3>2, <3>3
  <2>6. QED
    BY <1>1, <1>3, <2>1, <2>2, <2>3, <2>4, <2>5 DEF Opened, TypeOK
<1>6. WorkerOK(r)'
  BY <1>1, <1>3 DEF Opened, FileOK, WorkerOK
<1>7. StreamOK(r)'
  BY <1>1, <1>2 DEF Opened, StreamOK, Downloads
<1>8. ByWhom(r)'
  BY <1>2, <1>3 DEF FileOK, ByWhom
<1>9. QED
  BY <1>2, <1>4, <1>5, <1>6, <1>7, <1>8, FileFrame DEF FileOK

-----------------------------------------------------------------------------
(* FileInv: a stream writes or is closed, a file is removed. *)

\* The pieces in set are written to the current file of r, if it has its name.
Flush(r, set) ==
    /\ files' \in [Path -> Content \cup {None}]
    /\ \A x \in Path : x # Current(r) \/ r \notin linked => files'[x] = files[x]
    /\ r \in linked =>
          /\ Current(r) \in Path
          /\ files[Current(r)] \in Content /\ files'[Current(r)] \in Content
          /\ files'[Current(r)].by = files[Current(r)].by
          /\ \A k \in Piece : files'[Current(r)].data[k] =
                                 IF k \in set THEN r ELSE files[Current(r)].data[k]

\* What Flushed stands for; nothing is written when set is empty.
LEMMA FlushState ==
    ASSUME FileInv, NEW r \in Request, NEW set, files' = Flushed(r, set)
    PROVE  Flush(r, set)
<1>1. TypeOK /\ StreamOK(r)
  BY DEF FileInv, FileOK
<1>2. CASE r \notin linked
  BY <1>1, <1>2 DEF Flushed, Flush, TypeOK
<1>3. CASE r \in linked
  <2> DEFINE c == Current(r)
             d == [k \in Piece |-> IF k \in set THEN r ELSE files[c].data[k]]
  <2>1. c \in Path /\ files[c] \in Content
    BY <1>1, <1>3 DEF StreamOK, TypeOK
  <2>2. files' = [files EXCEPT ![c].data = d]
    BY <1>3 DEF Flushed
  <2> HIDE DEF c
  <2>3. d \in [Piece -> Request \cup {None}]
    BY <2>1 DEF Content
  <2>4. files'[c] = [files[c] EXCEPT !.data = d] /\ \A x \in Path : x # c => files'[x] = files[x]
    BY <1>1, <2>1, <2>2 DEF TypeOK
  <2>5. files'[c] \in Content /\ files'[c].by = files[c].by /\ files'[c].data = d
    BY <2>1, <2>3, <2>4 DEF Content
  <2>6. files' \in [Path -> Content \cup {None}]
    BY <1>1, <2>1, <2>2, <2>4, <2>5 DEF TypeOK
  <2>7. QED
    BY <1>3, <2>1, <2>4, <2>5, <2>6 DEF Flush, c
<1>4. QED
  BY <1>2, <1>3

LEMMA NoFlush ==
    ASSUME FileInv, NEW r \in Request, UNCHANGED files
    PROVE  Flush(r, {})
BY DEF FileInv, FileOK, StreamOK, TypeOK, Flush

\* A step of a stream keeps FileInv.
LEMMA FlushFile ==
    ASSUME FileInv, NEW r \in Request, NEW set, Flush(r, set), OthersKept(r), TypeOK',
           WorkerOK(r)', linked' \subseteq linked,
           UNCHANGED <<job, entry, created>>,
           r \in open' => r \in open /\ pc'[r] \in {"opened", "perform", "close"}
    PROVE  FileInv'
<1>1. TypeOK /\ FileOK(r)
  BY DEF FileInv
<1>2. /\ Current(r)' = Current(r) /\ Downloads(r)' = Downloads(r)
      /\ \A p : Uses(r, p)' = Uses(r, p)
  BY DEF Current, Downloads, Uses
<1>3. ASSUME NEW x \in Path
      PROVE  /\ files[x] \in Content => files'[x] \in Content
             /\ files'[x] # None => files[x] # None /\ files'[x].by = files[x].by
  <2>1. CASE x = Current(r) /\ r \in linked
    BY <2>1, NoneAssumption DEF Flush
  <2>2. CASE ~(x = Current(r) /\ r \in linked)
    BY <2>2 DEF Flush
  <2>3. QED
    BY <2>1, <2>2
<1>4. FilesKept(r)
  <2>1. \A q \in Request \ {r} : q \in linked => Current(q) \in Path
    BY <1>1 DEF FileInv, FileOK, StreamOK, TypeOK
  <2>2. QED
    BY <1>3, <2>1 DEF FilesKept
<1>5. StreamOK(r)'
  BY <1>1, <1>2, <1>3 DEF FileOK, StreamOK
<1>6. ByWhom(r)'
  BY <1>1, <1>2, <1>3 DEF FileOK, ByWhom
<1>7. QED
  BY <1>4, <1>5, <1>6, FileFrame DEF FileOK

Closes(r) == CancelOpened(r) \/ ChunkEnd(r) \/ CloseFile(r)

\* The ways to close a stream.
LEMMA ClosesFacts ==
    ASSUME FileInv, NEW r \in Request, Closes(r)
    PROVE  /\ CloseStream(r)
           /\ UNCHANGED <<job, canceled, handle, home, idle, entry, received, created,
                          disturbed>>
           /\ pc' = [pc EXCEPT ![r] = pc'[r]] /\ pc'[r] \in {"perform", "decide", "remove"}
           /\ pc[r] \in {"opened", "perform", "close"}
           /\ code' = [code EXCEPT ![r] = code'[r]] /\ code'[r] \in ErrorCode
           /\ code'[r] = "OK" => code[r] = "OK"
           /\ code'[r] = "OK" => pc[r] = "close" \/ received[r] = Chunks
           /\ pc'[r] = "perform" => pc[r] = "perform"
           /\ pc[r] = "close" <=> pc'[r] = "decide"
           /\ pc'[r] = "remove" => code'[r] # "OK"
           /\ options' \in [Handle -> SUBSET Option]
           /\ WorkerOK(r)'
<1>1. TypeOK /\ WorkerOK(r) /\ StreamOK(r)
  BY DEF FileInv, FileOK
<1>2. CASE CancelOpened(r)
  BY <1>1, <1>2 DEF CancelOpened, CloseStream, Goto, Answer, WorkerOK, TypeOK, Label, ErrorCode
<1>3. CASE ChunkEnd(r)
  BY <1>1, <1>3 DEF ChunkEnd, CloseStream, WorkerOK, TypeOK, Label, ErrorCode
<1>4. CASE CloseFile(r)
  <2>1. options' \in [Handle -> SUBSET Option]
    BY <1>1, <1>4 DEF CloseFile, TypeOK
  <2>2. QED
    BY <1>1, <1>4, <2>1 DEF CloseFile, CloseStream, Goto, WorkerOK, TypeOK, Label, ErrorCode
<1>5. QED
  BY <1>2, <1>3, <1>4 DEF Closes

\* What CloseStream does: the buffer reaches the file, or it is lost and noted.
Closed(r) ==
    /\ open' = open \ {r} /\ linked' = linked \ {r} /\ buffer' = [buffer EXCEPT ![r] = {}]
    /\ unflushed \subseteq unflushed' /\ unflushed' \subseteq Request \X Path
    /\ \/ Flush(r, buffer[r])
       \/ /\ Flush(r, {}) /\ UNCHANGED files
          /\ r \in open /\ <<r, Current(r)>> \in unflushed'

LEMMA ClosedState ==
    ASSUME FileInv, NEW r \in Request, CloseStream(r)
    PROVE  Closed(r)
<1>1. TypeOK /\ StreamOK(r)
  BY DEF FileInv, FileOK
<1>2. open' = open \ {r} /\ linked' = linked \ {r} /\ buffer' = [buffer EXCEPT ![r] = {}]
  BY DEF CloseStream
<1>3. CASE files' = Flushed(r, buffer[r]) /\ UNCHANGED unflushed
  BY <1>1, <1>2, <1>3, FlushState DEF Closed, TypeOK
<1>4. CASE /\ r \in open /\ UNCHANGED files
           /\ unflushed' = unflushed \cup {<<r, Current(r)>>}
  <2>1. Current(r) \in Path
    BY <1>1, <1>4 DEF StreamOK
  <2>2. unflushed' \subseteq Request \X Path
    BY <1>1, <1>4, <2>1 DEF TypeOK
  <2>3. QED
    BY <1>2, <1>4, <2>2, NoFlush DEF Closed
<1>5. QED
  BY <1>3, <1>4 DEF CloseStream

\* Closing a stream keeps FileInv.
LEMMA ClosesFile ==
    ASSUME FileInv, NEW r \in Request, Closes(r)
    PROVE  FileInv'
<1>1. /\ CloseStream(r)
      /\ UNCHANGED <<job, canceled, handle, home, idle, entry, received, created, disturbed>>
      /\ pc' = [pc EXCEPT ![r] = pc'[r]] /\ pc'[r] \in {"perform", "decide", "remove"}
      /\ code' = [code EXCEPT ![r] = code'[r]] /\ code'[r] \in ErrorCode
      /\ options' \in [Handle -> SUBSET Option]
      /\ WorkerOK(r)'
  BY ClosesFacts
<1>2. Closed(r)
  BY <1>1, ClosedState
<1>3. PICK set : Flush(r, set)
  BY <1>2 DEF Closed
<1>4. TypeOK
  BY DEF FileInv
<1>5. TypeOK'
  <2>1. files' \in [Path -> Content \cup {None}]
    BY <1>3 DEF Flush
  <2>2. /\ linked' \subseteq open' /\ open' \subseteq Request
        /\ buffer' \in [Request -> SUBSET Piece] /\ unflushed' \subseteq Request \X Path
    BY <1>2, <1>4 DEF Closed, TypeOK
  <2>3. pc' \in [Request -> Label] /\ code' \in [Request -> ErrorCode]
    BY <1>1, <1>4 DEF TypeOK, Label
  <2>4. QED
    BY <1>1, <1>4, <2>1, <2>2, <2>3 DEF TypeOK
<1>6. OthersKept(r)
  BY <1>1, <1>2, <1>4 DEF OthersKept, Closed, TypeOK
<1>7. linked' \subseteq linked /\ r \notin open'
  BY <1>2 DEF Closed
<1>8. QED
  BY <1>1, <1>3, <1>5, <1>6, <1>7, FlushFile

\* The write callback passes a piece to the stream, or fails.
LEMMA WritesFile ==
    ASSUME FileInv, NEW r \in Request, Write(r) \/ WriteFails(r)
    PROVE  FileInv'
<1>1. TypeOK /\ WorkerOK(r)
  BY DEF FileInv, FileOK
<1>2. /\ UNCHANGED <<job, canceled, handle_vars, open, linked, entry, created, disturbed,
                    unflushed>>
      /\ pc[r] = "perform" /\ r \in open
      /\ pc' = [pc EXCEPT ![r] = pc'[r]] /\ pc'[r] \in {"perform", "close"}
      /\ code' = [code EXCEPT ![r] = code'[r]] /\ code'[r] \in ErrorCode
      /\ pc'[r] = "perform" => code'[r] = code[r]
  <2>1. CASE Write(r)
    BY <1>1, <2>1 DEF Write, TypeOK
  <2>2. CASE WriteFails(r)
    BY <1>1, <2>2 DEF WriteFails, EndWithError, Goto, Answer, TypeOK, ErrorCode
  <2>3. QED
    BY <2>1, <2>2
<1>3. /\ \E set : Flush(r, set)
      /\ received' = [received EXCEPT ![r] = received'[r]] /\ received'[r] \in 0 .. Chunks
      /\ buffer' = [buffer EXCEPT ![r] = buffer'[r]] /\ buffer'[r] \in SUBSET Piece
  <2>1. CASE Write(r)
    <3>1. /\ received[r] < Chunks /\ received' = [received EXCEPT ![r] = @ + 1]
          /\ \/ buffer' = [buffer EXCEPT ![r] = buffer[r] \cup {received[r] + 1}]
                /\ UNCHANGED files
             \/ buffer' = [buffer EXCEPT ![r] = {}]
                /\ files' = Flushed(r, buffer[r] \cup {received[r] + 1})
      BY <2>1 DEF Write
    <3>2. received[r] + 1 \in 0 .. Chunks /\ received[r] + 1 \in Piece
      BY <1>1, <3>1, ChunksAssumption DEF TypeOK, Piece
    <3>3. \E set : Flush(r, set)
      BY <3>1, FlushState, NoFlush
    <3>4. QED
      BY <1>1, <3>1, <3>2, <3>3 DEF TypeOK
  <2>2. CASE WriteFails(r)
    BY <1>1, <2>2, NoFlush DEF WriteFails, TypeOK
  <2>3. QED
    BY <2>1, <2>2
<1>4. TypeOK'
  <2>1. files' \in [Path -> Content \cup {None}]
    BY <1>3 DEF Flush
  <2>2. received' \in [Request -> 0 .. Chunks] /\ buffer' \in [Request -> SUBSET Piece]
    BY <1>1, <1>3 DEF TypeOK
  <2>3. pc' \in [Request -> Label] /\ code' \in [Request -> ErrorCode]
    <3>1. pc'[r] \in Label
      BY <1>2 DEF Label
    <3>2. pc \in [Request -> Label] /\ code \in [Request -> ErrorCode]
      BY <1>1 DEF TypeOK
    <3>3. pc' \in [Request -> Label]
      BY <1>2, <3>1, <3>2
    <3>4. code' \in [Request -> ErrorCode]
      BY <1>2, <3>2
    <3>5. QED
      BY <3>3, <3>4
  <2>4. QED
    BY <1>1, <1>2, <2>1, <2>2, <2>3 DEF TypeOK
<1>5. OthersKept(r)
  BY <1>1, <1>2, <1>3 DEF OthersKept, TypeOK
<1>6. WorkerOK(r)'
  BY <1>1, <1>2 DEF WorkerOK
<1>7. QED
  BY <1>2, <1>3, <1>4, <1>5, <1>6, FlushFile

\* One file of those that r created is removed; who has it open writes to a file
\* without a name from now on.
Removed(r, p) ==
    /\ p \in Path /\ Uses(r, p) /\ pc[r] = "remove"
    /\ files' = [files EXCEPT ![p] = None]
    /\ linked' = {q \in linked : Current(q) # p}
    /\ created' = [created EXCEPT ![r] = created'[r]] /\ created'[r] \in Seq(Path)
    /\ \A x : Uses(r, x)' => Uses(r, x)
    /\ \A x : Uses(r, x) => Uses(r, x)' \/ x = p
    /\ UNCHANGED <<pc, job, canceled, code, handle_vars, open, entry, received,
                   buffer, disturbed, unflushed>>

LEMMA RemovedState ==
    ASSUME FileInv, NEW r \in Request, RemoveFile(r)
    PROVE  \E p \in Path : Removed(r, p)
<1> DEFINE s == created[r]
           p == Head(s)
<1>1. TypeOK /\ s \in Seq(Path)
  BY DEF FileInv, TypeOK
<1>2. /\ s # <<>> /\ pc[r] = "remove"
      /\ files' = [files EXCEPT ![p] = None]
      /\ linked' = {q \in linked : Current(q) # p}
      /\ created' = [created EXCEPT ![r] = Tail(s)]
      /\ UNCHANGED <<pc, job, canceled, code, handle_vars, open, entry, received,
                     buffer, disturbed, unflushed>>
  BY DEF RemoveFile
<1>3. created'[r] = Tail(s)
  BY <1>1, <1>2 DEF TypeOK
<1> HIDE DEF s
<1>4. /\ p \in Path /\ p = s[1] /\ Len(s) \in Nat /\ Len(s) >= 1
      /\ Tail(s) \in Seq(Path) /\ Len(Tail(s)) = Len(s) - 1
      /\ \A i \in 1 .. Len(s) - 1 : Tail(s)[i] = s[i + 1]
  BY <1>1, <1>2
<1>5. Uses(r, p)
  BY <1>4 DEF Uses, s
<1>6. \A x : Uses(r, x)' => Uses(r, x)
  <2> SUFFICES ASSUME NEW x, NEW i \in 1 .. Len(Tail(s)), Tail(s)[i] = x
               PROVE  \E k \in 1 .. Len(s) : s[k] = x
    BY <1>3 DEF Uses, s
  <2>1. i + 1 \in 1 .. Len(s) /\ s[i + 1] = x
    BY <1>4
  <2>2. QED
    BY <2>1
<1>7. \A x : Uses(r, x) => Uses(r, x)' \/ x = p
  <2> SUFFICES ASSUME NEW x, NEW i \in 1 .. Len(s), s[i] = x, x # p
               PROVE  \E k \in 1 .. Len(Tail(s)) : Tail(s)[k] = x
    BY <1>3 DEF Uses, s
  <2>1. i # 1 /\ i - 1 \in 1 .. Len(s) - 1
    BY <1>4
  <2>2. Tail(s)[i - 1] = x
    BY <1>4, <2>1
  <2>3. QED
    BY <1>4, <2>1, <2>2
<1>8. Removed(r, p)
  <2>1. created' = [created EXCEPT ![r] = created'[r]] /\ created'[r] \in Seq(Path)
    BY <1>2, <1>3, <1>4
  <2>2. QED
    BY <1>2, <1>4, <1>5, <1>6, <1>7, <2>1 DEF Removed
<1>9. QED
  BY <1>4, <1>8

\* RemoveFileIfExists keeps FileInv.
LEMMA RemovesFile ==
    ASSUME FileInv, NEW r \in Request, RemoveFile(r)
    PROVE  FileInv'
<1>1. PICK p \in Path : Removed(r, p)
  BY RemovedState
<1>2. TypeOK /\ FileOK(r)
  BY DEF FileInv
<1>3. files'[p] = None /\ \A x \in Path : x # p => files'[x] = files[x]
  BY <1>1, <1>2 DEF Removed, TypeOK
<1>4. TypeOK'
  <2>1. files' \in [Path -> Content \cup {None}] /\ created' \in [Request -> Seq(Path)]
    BY <1>1, <1>2 DEF Removed, TypeOK
  <2>2. linked' \subseteq linked
    BY <1>1 DEF Removed
  <2>3. QED
    BY <1>1, <1>2, <2>1, <2>2 DEF Removed, TypeOK
<1>5. OthersKept(r)
  BY <1>1, <1>2 DEF Removed, OthersKept, TypeOK
<1>6. FilesKept(r)
  <2>1. \A q \in Request : q \in linked' => q \in linked /\ Current(q) # p
    BY <1>1 DEF Removed
  <2>2. \A q \in Request : q \in linked => Current(q) \in Path
    BY <1>2 DEF FileInv, FileOK, StreamOK, TypeOK
  <2>3. QED
    BY <1>3, <2>1, <2>2 DEF FilesKept
<1>7. WorkerOK(r)' /\ StreamOK(r)'
  BY <1>1, <1>2 DEF Removed, FileOK, WorkerOK, StreamOK
<1>8. ByWhom(r)'
  BY <1>1, <1>2, <1>3 DEF Removed, FileOK, ByWhom
<1>9. QED
  BY <1>4, <1>5, <1>6, <1>7, <1>8, FileFrame DEF FileOK

-----------------------------------------------------------------------------
(* FileInv always holds. *)

\* The steps of a worker, sorted by what they do to its files.
LEMMA StepsOfWorker ==
    ASSUME NEW r \in Request, Transfer(r)
    PROVE  \/ GetSession(r) \/ Moves(r) \/ Advances(r) \/ Opens(r) \/ Closes(r)
           \/ Write(r) \/ WriteFails(r) \/ RemoveFile(r)
BY DEF Transfer, Perform, Moves, Advances, Opens, Closes

LEMMA FileInvInit == Init => FileInv
<1> SUFFICES ASSUME Init PROVE FileInv
  OBVIOUS
<1>1. Complete(None) \in Content /\ Complete(None).by = None
  BY DEF Complete, Content
<1>2. TypeOK
  <2>1. files \in [Path -> Content \cup {None}]
    BY <1>1 DEF Init
  <2>2. received \in [Request -> 0 .. Chunks]
    BY ChunksAssumption DEF Init
  <2>3. QED
    BY <2>1, <2>2 DEF Init, TypeOK, Label, ErrorCode
<1>3. ASSUME NEW r \in Request
      PROVE  FileOK(r)
  <2>1. WorkerOK(r) /\ StreamOK(r)
    BY DEF Init, WorkerOK, StreamOK
  <2>2. ByWhom(r)
    BY <1>1, NoneAssumption DEF Init, ByWhom
  <2>3. QED
    BY <2>1, <2>2 DEF FileOK
<1>4. QED
  BY <1>2, <1>3 DEF FileInv

LEMMA FileInvStep == FileInv /\ [Next]_vars => FileInv'
<1> SUFFICES ASSUME FileInv, [Next]_vars PROVE FileInv'
  OBVIOUS
<1>1. ASSUME NEW r \in Request, Transfer(r)
      PROVE  FileInv'
  BY <1>1, StepsOfWorker, GetSessionFile, MovesFile, AdvancesFile, OpensFile, ClosesFile,
     WritesFile, RemovesFile
<1>2. ASSUME NEW r \in Request, Cancel(r)
      PROVE  FileInv'
  BY <1>2, CancelFile
<1>3. CASE UNCHANGED vars
  <2>1. TypeOK'
    BY <1>3 DEF vars, FileInv, TypeOK
  <2>2. \A r \in Request : FileOK(r)'
    BY <1>3 DEF vars, FileInv, FileOK, WorkerOK, StreamOK, ByWhom, Uses, Current, Downloads
  <2>3. QED
    BY <2>1, <2>2 DEF FileInv
<1>4. QED
  BY <1>1, <1>2, <1>3 DEF Next, Terminated

LEMMA FileInvAlways == Spec => []FileInv
BY FileInvInit, FileInvStep, PTL DEF Spec

\* The workers' state, the handles and the files keep their types.
THEOREM TypeCorrect == Spec => []TypeOK
<1>1. FileInv => TypeOK
  BY DEF FileInv
<1>2. QED
  BY <1>1, FileInvAlways, PTL

\* A download that was cancelled or that failed, at whatever moment, leaves no file
\* that it created: every early return of the transfers comes before the file or
\* after its removal.
THEOREM NothingLeftBehind == Spec => []FailureLeavesNothing
<1>1. FileInv => FailureLeavesNothing
  <2> SUFFICES ASSUME FileInv, NEW r \in Request, pc[r] = "done", code[r] # "OK",
                      NEW p \in Path, files[p] # None, files[p].by = r
               PROVE  FALSE
    BY DEF FailureLeavesNothing
  <2>1. FileOK(r)
    BY DEF FileInv
  <2>2. Uses(r, p) /\ created[r] = <<>>
    BY <2>1 DEF FileOK, ByWhom, WorkerOK
  <2>3. QED
    BY <2>2 DEF Uses
<1>2. QED
  BY <1>1, FileInvAlways, PTL

-----------------------------------------------------------------------------
(* HandleInv. *)

\* Nobody else has the handle of a session.
LEMMA HandleOf ==
    ASSUME HandleInv, NEW r \in Request, pc[r] \notin {"queued", "done"}
    PROVE  /\ handle[r] \in Handle \ idle /\ home[handle[r]] = job[r].host
           /\ \A q \in Request \ {r} : handle[q] # handle[r]
<1>1. HolderOK(r)
  BY DEF HandleInv
<1>2. handle[r] \in Handle \ idle /\ home[handle[r]] = job[r].host
  BY <1>1 DEF HolderOK
<1>3. handle[r] # None
  BY <1>2, NoneAssumption
<1>4. QED
  BY <1>1, <1>2, <1>3 DEF HolderOK

\* A step of the session that r has: the other sessions keep their handles, and
\* nobody touches the options of those.
LEMMA HandleFrame ==
    ASSUME FileInv, HandleInv, NEW r \in Request, UNCHANGED <<job, handle, home, idle>>,
           pc[r] \notin {"queued", "done"}, pc'[r] \notin {"queued", "done"},
           \A q \in Request \ {r} : pc'[q] = pc[q],
           \A h \in Handle \ {handle[r]} : options'[h] = options[h],
           SessionOK(r)', Residue(handle[r])'
    PROVE  HandleInv'
<1>1. /\ handle[r] \in Handle
      /\ \A q \in Request \ {r} : handle[q] # handle[r]
  BY HandleOf
<1>2. \A q \in Request : HolderOK(q)'
  BY DEF HandleInv, HolderOK
<1>3. ASSUME NEW q \in Request \ {r}
      PROVE  SessionOK(q)'
  <2>1. SessionOK(q)
    BY DEF HandleInv
  <2>2. pc[q] \in {"prepare", "opened", "perform"} => options'[handle[q]] = options[handle[q]]
    BY <1>1, HandleOf
  <2>3. QED
    BY <2>1, <2>2 DEF SessionOK
<1>4. \A h \in idle' : home'[h] # None
  BY DEF HandleInv
<1>5. ASSUME NEW h \in Handle \ {handle[r]}
      PROVE  Residue(h)'
  <2>1. Residue(h) /\ options'[h] = options[h]
    BY DEF HandleInv
  <2>2. \A o \in options'[h] : LeftBy(o, home'[h])
    BY <2>1 DEF Residue
  <2>3. ASSUME "wildcard" \in options'[h]
        PROVE  \E q \in Request : /\ handle'[q] = h /\ pc'[q] \in {"perform", "close"}
                                  /\ job'[q].kind = "FtpWildcard"
    <3>1. PICK q \in Request : /\ handle[q] = h /\ pc[q] \in {"perform", "close"}
                               /\ job[q].kind = "FtpWildcard"
      BY <2>1, <2>3 DEF Residue
    <3>2. q # r
      BY <3>1
    <3>3. QED
      BY <3>1, <3>2
  <2>4. QED
    BY <2>2, <2>3 DEF Residue
<1>6. QED
  BY <1>2, <1>3, <1>4, <1>5 DEF HandleInv

\* Steps that leave the handles alone.
LEMMA HandleQuiet ==
    ASSUME FileInv, HandleInv, NEW r \in Request, UNCHANGED <<job, handle_vars>>,
           \A q \in Request \ {r} : pc'[q] = pc[q],
           \/ pc'[r] = pc[r]
           \/ /\ pc[r] \notin {"queued", "done"} /\ pc'[r] \notin {"queued", "done"}
              /\ pc[r] \in {"perform", "close"} => pc'[r] = "close"
              /\ pc'[r] # "perform"
              /\ pc'[r] \in {"prepare", "opened"} => pc[r] \in {"prepare", "opened"}
    PROVE  HandleInv'
<1>1. CASE pc'[r] = pc[r]
  <2>1. \A q \in Request : pc'[q] = pc[q]
    BY <1>1
  <2>2. \A q \in Request : HolderOK(q)' /\ SessionOK(q)'
    BY <2>1 DEF HandleInv, HolderOK, SessionOK
  <2>3. \A h \in Handle : Residue(h)'
    BY <2>1 DEF HandleInv, Residue
  <2>4. QED
    BY <2>2, <2>3 DEF HandleInv
<1>2. CASE /\ pc[r] \notin {"queued", "done"} /\ pc'[r] \notin {"queued", "done"}
           /\ pc[r] \in {"perform", "close"} => pc'[r] = "close"
           /\ pc'[r] # "perform"
           /\ pc'[r] \in {"prepare", "opened"} => pc[r] \in {"prepare", "opened"}
  <2>1. handle[r] \in Handle
    BY <1>2, HandleOf
  <2>2. SessionOK(r)'
    BY <1>2 DEF HandleInv, SessionOK
  <2>3. Residue(handle[r])'
    <3>1. Residue(handle[r])
      BY <2>1 DEF HandleInv
    <3>2. \A q \in Request : pc[q] \in {"perform", "close"} => pc'[q] \in {"perform", "close"}
      BY <1>2
    <3>3. QED
      BY <3>1, <3>2 DEF Residue
  <2>4. QED
    BY <1>2, <2>2, <2>3, HandleFrame
<1>3. QED
  BY <1>1, <1>2

\* A session begins: the handle is idle or unused, so nobody has it, and the settings
\* of the request are put on it unless the request is cancelled.
LEMMA GetSessionHandle ==
    ASSUME FileInv, HandleInv, NEW r \in Request, GetSession(r)
    PROVE  HandleInv'
<1>1. PICK j \in Job, h \in Handle :
          /\ (h \in idle /\ home[h] = j.host) \/ home[h] = None
          /\ job' = [job EXCEPT ![r] = j] /\ handle' = [handle EXCEPT ![r] = h]
          /\ home' = [home EXCEPT ![h] = j.host] /\ idle' = idle \ {h}
          /\ \/ Goto(r, "queued", "return") /\ UNCHANGED options
             \/ Goto(r, "queued", "prepare") /\ SetSession(j, h)
  BY DEF GetSession
<1>2. TypeOK
  BY DEF FileInv
<1>3. /\ pc[r] = "queued" /\ pc'[r] \in {"return", "prepare"}
      /\ \A q \in Request \ {r} : pc'[q] = pc[q]
  BY <1>1, <1>2 DEF Goto, TypeOK
<1>4. j.host \in Host /\ j.host # None /\ \A i \in Job : i.host # None
  BY OptionSets, NoneAssumption
<1>5. \A q \in Request : handle[q] # h
  <2> SUFFICES ASSUME NEW q \in Request, handle[q] = h PROVE FALSE
    OBVIOUS
  <2>1. pc[q] \notin {"queued", "done"}
    BY NoneAssumption DEF HandleInv, HolderOK
  <2>2. h \notin idle /\ home[h] = job[q].host
    BY <2>1, HandleOf
  <2>3. job[q] \in Job
    BY <2>1 DEF FileInv, FileOK, WorkerOK
  <2>4. QED
    BY <1>1, <1>4, <2>2, <2>3
<1>6. /\ handle'[r] = h /\ job'[r] = j /\ home'[h] = j.host /\ h \notin idle'
      /\ \A q \in Request \ {r} : handle'[q] = handle[q] /\ job'[q] = job[q]
      /\ \A k \in Handle \ {h} : home'[k] = home[k]
  BY <1>1, <1>2 DEF TypeOK
<1>7. /\ \A k \in Handle \ {h} : options'[k] = options[k]
      /\ options'[h] \subseteq options[h] \cup Asked(j)
      /\ pc'[r] = "prepare" =>
            Asked(j) \subseteq options'[h] /\ (Linux => "no_verify" \notin options'[h])
  <2>1. CASE Goto(r, "queued", "return") /\ UNCHANGED options
    BY <1>2, <2>1 DEF Goto, TypeOK
  <2>2. CASE SetSession(j, h)
    <3>1. options'[h] = (IF Linux THEN options[h] \ {"no_verify"} ELSE options[h]) \cup Asked(j)
      BY <1>2, <2>2 DEF SetSession, TypeOK
    <3>2. \A k \in Handle \ {h} : options'[k] = options[k]
      BY <1>2, <2>2 DEF SetSession, TypeOK
    <3>3. "no_verify" \notin Asked(j)
      BY OptionSets
    <3>4. QED
      BY <3>1, <3>2, <3>3
  <2>3. QED
    BY <1>1, <2>1, <2>2
<1>8. ASSUME NEW q \in Request
      PROVE  HolderOK(q)'
  <2>1. CASE q = r
    BY <1>3, <1>5, <1>6, <2>1 DEF HolderOK
  <2>2. CASE q # r
    <3>1. HolderOK(q) /\ handle[q] # h
      BY <1>5 DEF HandleInv
    <3>2. QED
      BY <1>1, <1>3, <1>5, <1>6, <2>2, <3>1 DEF HolderOK
  <2>3. QED
    BY <2>1, <2>2
<1>9. ASSUME NEW q \in Request
      PROVE  SessionOK(q)'
  <2>1. CASE q = r
    BY <1>3, <1>6, <1>7, <2>1 DEF SessionOK
  <2>2. CASE q # r
    <3>1. SessionOK(q)
      BY DEF HandleInv
    <3>2. pc[q] \in {"prepare", "opened", "perform"} =>
             options'[handle[q]] = options[handle[q]]
      BY <1>5, <1>7, HandleOf
    <3>3. pc'[q] = pc[q] /\ job'[q] = job[q] /\ handle'[q] = handle[q]
      BY <1>3, <1>6, <2>2
    <3>4. QED
      BY <3>1, <3>2, <3>3 DEF SessionOK
  <2>3. QED
    BY <2>1, <2>2
<1>10. \A k \in idle' : home'[k] # None
  BY <1>1, <1>2, <1>6 DEF HandleInv, TypeOK
<1>11. ASSUME NEW k \in Handle \ {h}
       PROVE  Residue(k)'
  <2>1. Residue(k) /\ options'[k] = options[k] /\ home'[k] = home[k]
    BY <1>6, <1>7 DEF HandleInv
  <2>2. \A o \in options'[k] : LeftBy(o, home'[k])
    BY <2>1 DEF Residue
  <2>3. ASSUME "wildcard" \in options'[k]
        PROVE  \E q \in Request : /\ handle'[q] = k /\ pc'[q] \in {"perform", "close"}
                                  /\ job'[q].kind = "FtpWildcard"
    <3>1. PICK q \in Request : /\ handle[q] = k /\ pc[q] \in {"perform", "close"}
                               /\ job[q].kind = "FtpWildcard"
      BY <2>1, <2>3 DEF Residue
    <3>2. q # r
      BY <1>3, <3>1
    <3>3. QED
      BY <1>3, <1>6, <3>1, <3>2
  <2>4. QED
    BY <2>2, <2>3 DEF Residue
<1>12. Residue(h)'
  <2>1. Residue(h)
    BY DEF HandleInv
  <2>2. "wildcard" \notin options'[h]
    <3>1. "wildcard" \notin options[h]
      BY <1>5, <2>1 DEF Residue
    <3>2. "wildcard" \notin Asked(j)
      BY OptionSets
    <3>3. QED
      BY <1>7, <3>1, <3>2
  <2>3. ASSUME NEW o \in options'[h]
        PROVE  LeftBy(o, j.host)
    <3>1. CASE o \in Asked(j)
      BY <3>1 DEF LeftBy, Wanted
    <3>2. CASE o \in options[h]
      <4>1. LeftBy(o, home[h])
        BY <2>1, <3>2 DEF Residue
      <4>2. home[h] # None
        BY <1>4, <4>1 DEF LeftBy
      <4>3. QED
        BY <1>1, <4>1, <4>2
    <3>3. QED
      BY <1>7, <3>1, <3>2
  <2>4. QED
    BY <1>6, <2>2, <2>3 DEF Residue
<1>13. QED
  BY <1>8, <1>9, <1>10, <1>11, <1>12 DEF HandleInv

\* A session ends: what stays set on the handle was asked for by a job of its host.
LEMMA ReturnSessionHandle ==
    ASSUME FileInv, HandleInv, NEW r \in Request, ReturnSession(r)
    PROVE  HandleInv'
<1>1. /\ pc[r] = "return" /\ pc' = [pc EXCEPT ![r] = "done"]
      /\ idle' = idle \cup {handle[r]} /\ handle' = [handle EXCEPT ![r] = None]
      /\ UNCHANGED <<job, home, options>>
  BY DEF ReturnSession, Goto
<1>2. TypeOK /\ job[r] \in Job
  BY <1>1 DEF FileInv, FileOK, WorkerOK
<1>3. /\ handle[r] \in Handle \ idle /\ home[handle[r]] = job[r].host
      /\ \A q \in Request \ {r} : handle[q] # handle[r]
  BY <1>1, HandleOf
<1>4. home[handle[r]] # None
  BY <1>2, <1>3, OptionSets, NoneAssumption
<1>5. /\ handle'[r] = None /\ pc'[r] = "done"
      /\ \A q \in Request \ {r} : handle'[q] = handle[q] /\ pc'[q] = pc[q]
  BY <1>1, <1>2 DEF TypeOK
<1>6. ASSUME NEW q \in Request
      PROVE  HolderOK(q)' /\ SessionOK(q)'
  <2>1. CASE q = r
    BY <1>5, <2>1 DEF HolderOK, SessionOK
  <2>2. CASE q # r
    <3>1. HolderOK(q) /\ SessionOK(q)
      BY DEF HandleInv
    <3>2. HolderOK(q)'
      BY <1>1, <1>3, <1>5, <2>2, <3>1 DEF HolderOK
    <3>3. SessionOK(q)'
      BY <1>1, <1>5, <2>2, <3>1 DEF SessionOK
    <3>4. QED
      BY <3>2, <3>3
  <2>3. QED
    BY <2>1, <2>2
<1>7. \A k \in idle' : home'[k] # None
  BY <1>1, <1>4 DEF HandleInv
<1>8. \A k \in Handle : Residue(k)'
  <2>1. \A q \in Request : pc[q] \in {"perform", "close"} => q # r
    BY <1>1
  <2>2. QED
    BY <1>1, <1>5, <2>1 DEF HandleInv, Residue
<1>9. QED
  BY <1>6, <1>7, <1>8 DEF HandleInv

Starts(r) == StartTransfer(r) \/ StartHttpDownload(r) \/ StartFtpDownload(r)

\* A transfer starts: with what it adds, all that its request asks for is set.
LEMMA StartsHandle ==
    ASSUME FileInv, HandleInv, NEW r \in Request, Starts(r)
    PROVE  HandleInv'
<1> DEFINE h == handle[r]
           o == options[h]
           j == job[r]
<1>1. /\ pc[r] \in {"prepare", "opened"} /\ pc' = [pc EXCEPT ![r] = "perform"]
      /\ SetOptions(r) /\ UNCHANGED <<job, handle, home, idle>>
  BY DEF Starts, StartTransfer, StartHttpDownload, StartFtpDownload, Goto
<1>2. TypeOK /\ j \in Job
  BY <1>1 DEF FileInv, FileOK, WorkerOK
<1>3. pc'[r] = "perform" /\ \A q \in Request \ {r} : pc'[q] = pc[q]
  BY <1>1, <1>2 DEF TypeOK
<1>4. /\ h \in Handle /\ home[h] = j.host
      /\ \A q \in Request \ {r} : handle[q] # h
  BY <1>1, HandleOf
<1>5. /\ options'[h] = IF IsFtp(j) THEN o \cup FtpOptions(j) ELSE o \ {"upload"}
      /\ \A k \in Handle \ {h} : options'[k] = options[k]
  BY <1>1, <1>2, <1>4 DEF SetOptions, TypeOK, Ftp
<1>6. Residue(h) /\ SessionOK(r)
  BY <1>4 DEF HandleInv
<1>7. Asked(j) \subseteq o /\ (Linux => "no_verify" \notin o)
  BY <1>1, <1>6 DEF SessionOK
<1>8. "wildcard" \notin o
  BY <1>1, <1>4, <1>6 DEF Residue
<1>9. "upload" \notin Asked(j)
  BY <1>2, OptionSets
<1>10. options'[h] \subseteq o \cup Wanted(j) /\ Wanted(j) \subseteq options'[h]
  BY <1>5, <1>7, <1>9 DEF Wanted
<1>11. options'[h] \cap Resets(j) \subseteq Wanted(j)
  <2>1. ASSUME "no_verify" \in options'[h], Linux
        PROVE  "no_verify" \in Wanted(j)
    BY <1>7, <1>10, <2>1
  <2>2. ASSUME "upload" \in options'[h]
        PROVE  IsFtp(j)
    BY <1>5, <2>2
  <2>3. QED
    BY <2>1, <2>2 DEF Resets
<1>12. SessionOK(r)'
  BY <1>1, <1>3, <1>10, <1>11 DEF SessionOK
<1>13. Residue(h)'
  <2>1. ASSUME NEW x \in options'[h]
        PROVE  LeftBy(x, home[h])
    <3>1. CASE x \in o
      BY <1>6, <3>1 DEF Residue
    <3>2. CASE x \in Wanted(j)
      BY <1>2, <1>4, <3>2 DEF LeftBy
    <3>3. QED
      BY <1>10, <2>1, <3>1, <3>2
  <2>2. ASSUME "wildcard" \in options'[h]
        PROVE  j.kind = "FtpWildcard"
    BY <1>2, <1>8, <1>10, <2>2, WildcardWanted
  <2>3. "wildcard" \in options'[h] =>
           handle'[r] = h /\ pc'[r] \in {"perform", "close"} /\ job'[r].kind = "FtpWildcard"
    BY <1>1, <1>3, <2>2
  <2>4. QED
    BY <1>1, <2>1, <2>3 DEF Residue
<1>14. QED
  BY <1>1, <1>3, <1>5, <1>12, <1>13, HandleFrame

\* After the transfer a wildcard download takes its options off the handle.
LEMMA CloseFileHandle ==
    ASSUME FileInv, HandleInv, NEW r \in Request, CloseFile(r)
    PROVE  HandleInv'
<1>1. /\ pc[r] = "close" /\ pc' = [pc EXCEPT ![r] = "decide"]
      /\ options' = [options EXCEPT ![handle[r]] =
                        IF job[r].kind = "FtpWildcard" THEN @ \ {"wildcard"} ELSE @]
      /\ UNCHANGED <<job, handle, home, idle>>
  BY DEF CloseFile, Goto
<1>2. TypeOK
  BY DEF FileInv
<1>3. /\ handle[r] \in Handle /\ home[handle[r]] = job[r].host
      /\ \A q \in Request \ {r} : handle[q] # handle[r]
  BY <1>1, HandleOf
<1>4. /\ pc'[r] = "decide" /\ \A q \in Request \ {r} : pc'[q] = pc[q]
      /\ \A h \in Handle \ {handle[r]} : options'[h] = options[h]
      /\ options'[handle[r]] \subseteq options[handle[r]]
      /\ job[r].kind = "FtpWildcard" => "wildcard" \notin options'[handle[r]]
  BY <1>1, <1>2, <1>3 DEF TypeOK
<1>5. SessionOK(r)'
  BY <1>4 DEF SessionOK
<1>6. Residue(handle[r])'
  <2>1. Residue(handle[r])
    BY <1>3 DEF HandleInv
  <2>2. "wildcard" \notin options'[handle[r]]
    BY <1>3, <1>4, <2>1 DEF Residue
  <2>3. \A o \in options'[handle[r]] : LeftBy(o, home[handle[r]])
    BY <1>4, <2>1 DEF Residue
  <2>4. QED
    BY <1>1, <2>2, <2>3 DEF Residue
<1>7. QED
  BY <1>1, <1>4, <1>5, <1>6, HandleFrame

\* The other steps of a worker.
Quiet(r) ==
    \/ PrepareFails(r) \/ CancelBeforeTransfer(r) \/ OpenFtpDownload(r) \/ CancelOpened(r)
    \/ TransferFails(r) \/ ChunkSkip(r) \/ ChunkBegin(r) \/ ChunkFails(r) \/ ChunkEnd(r)
    \/ Write(r) \/ WriteFails(r) \/ TransferSucceeds(r) \/ Decide(r) \/ RemoveFile(r)
    \/ RemovedAll(r)

LEMMA QuietHandle ==
    ASSUME FileInv, HandleInv, NEW r \in Request, Quiet(r)
    PROVE  HandleInv'
<1>1. TypeOK
  BY DEF FileInv
<1>2. UNCHANGED <<job, handle_vars>>
  BY DEF Quiet, PrepareFails, CancelBeforeTransfer, OpenFtpDownload, CancelOpened,
         TransferFails, EndWithError, ChunkSkip, ChunkBegin, ChunkFails, ChunkEnd, Write,
         WriteFails, TransferSucceeds, Decide, RemoveFile, RemovedAll
<1>3. \/ UNCHANGED pc
      \/ /\ pc' = [pc EXCEPT ![r] = pc'[r]]
         /\ pc[r] \notin {"queued", "done"} /\ pc'[r] \notin {"queued", "done", "perform"}
         /\ pc[r] \in {"perform", "close"} => pc'[r] = "close"
         /\ pc'[r] \in {"prepare", "opened"} => pc[r] \in {"prepare", "opened"}
  BY <1>1
  DEF Quiet, PrepareFails, CancelBeforeTransfer, OpenFtpDownload, CancelOpened,
      TransferFails, EndWithError, ChunkSkip, ChunkBegin, ChunkFails, ChunkEnd, Write,
      WriteFails, TransferSucceeds, Decide, RemoveFile, RemovedAll, Goto, TypeOK
<1>4. \A q \in Request \ {r} : pc'[q] = pc[q]
  BY <1>1, <1>3 DEF TypeOK
<1>5. QED
  BY <1>2, <1>3, <1>4, HandleQuiet

LEMMA HandleInvInit == Init => HandleInv
<1> SUFFICES ASSUME Init PROVE HandleInv
  OBVIOUS
<1>1. \A r \in Request : HolderOK(r) /\ SessionOK(r)
  BY DEF Init, HolderOK, SessionOK
<1>2. \A h \in Handle : Residue(h)
  BY DEF Init, Residue
<1>3. QED
  BY <1>1, <1>2 DEF Init, HandleInv

LEMMA HandleInvStep == FileInv /\ HandleInv /\ [Next]_vars => HandleInv'
<1> SUFFICES ASSUME FileInv, HandleInv, [Next]_vars PROVE HandleInv'
  OBVIOUS
<1>1. ASSUME NEW r \in Request, Transfer(r)
      PROVE  HandleInv'
  <2>1. \/ GetSession(r) \/ ReturnSession(r) \/ Starts(r) \/ CloseFile(r) \/ Quiet(r)
    BY <1>1 DEF Transfer, Perform, Starts, Quiet
  <2>2. QED
    BY <2>1, GetSessionHandle, ReturnSessionHandle, StartsHandle, CloseFileHandle, QuietHandle
<1>2. ASSUME NEW r \in Request, Cancel(r)
      PROVE  HandleInv'
  <2>1. UNCHANGED <<pc, job, handle_vars>>
    BY <1>2 DEF Cancel
  <2>2. QED
    BY <2>1, HandleQuiet
<1>3. CASE UNCHANGED vars
  BY <1>3 DEF vars, HandleInv, HolderOK, SessionOK, Residue
<1>4. QED
  BY <1>1, <1>2, <1>3 DEF Next, Terminated

LEMMA HandleInvAlways == Spec => []HandleInv
BY HandleInvInit, HandleInvStep, FileInvAlways, PTL DEF Spec

\* With jobs that use their hosts separately, curl performs every transfer with the
\* options of its own request and with no others that matter to it: FTP options,
\* certificate checks, timeouts, and the settings of SendHttpRequest, although the
\* handle comes from the cache with what earlier requests set and almost nothing is
\* reset.
THEOREM OptionsFit ==
    ASSUME SeparateUse(Job)
    PROVE  Spec => []OwnOptions
<1>1. FileInv /\ HandleInv => OwnOptions
  <2> SUFFICES ASSUME FileInv, HandleInv, NEW r \in Request, pc[r] = "perform"
               PROVE  options[handle[r]] \cap Seen(job[r]) = Wanted(job[r])
    BY DEF OwnOptions
  <2> DEFINE h == handle[r]
             j == job[r]
  <2>1. j \in Job
    BY DEF FileInv, FileOK, WorkerOK
  <2>2. h \in Handle /\ home[h] = j.host /\ \A q \in Request \ {r} : handle[q] # h
    BY HandleOf
  <2>3. Residue(h) /\ SessionOK(r)
    BY <2>2 DEF HandleInv
  <2>4. Wanted(j) \subseteq options[h] /\ options[h] \cap Resets(j) \subseteq Wanted(j)
    BY <2>3 DEF SessionOK
  <2>5. Wanted(j) \subseteq Seen(j)
    BY <2>1, WantedSeen
  <2>6. ASSUME NEW o \in options[h], o \in Seen(j)
        PROVE  o \in Wanted(j)
    <3>1. CASE o = "wildcard"
      <4>1. j.kind = "FtpWildcard"
        BY <2>2, <2>3, <2>6, <3>1 DEF Residue
      <4>2. QED
        BY <2>1, <3>1, <4>1, WildcardWanted
    <3>2. CASE o # "wildcard"
      <4>1. PICK i \in Job : i.host = j.host /\ o \in Wanted(i)
        BY <2>2, <2>3, <2>6 DEF Residue, LeftBy
      <4>2. (Wanted(i) \ {"wildcard"}) \cap Seen(j) \subseteq Wanted(j) \cup Resets(j)
        BY <2>1, <4>1 DEF SeparateUse
      <4>3. QED
        BY <2>4, <2>6, <3>2, <4>1, <4>2
    <3>3. QED
      BY <3>1, <3>2
  <2>7. QED
    BY <2>4, <2>5, <2>6
<1>2. QED
  BY <1>1, FileInvAlways, HandleInvAlways, PTL

\* curl does no upload in the place of a download.
NoUploadInstead ==
    \A r \in Request : pc[r] = "perform" /\ Downloads(r) => ~Uploads(r)

\* CURLOPT_UPLOAD stays on the handles of the hosts of uploads, and HTTP clears it.
LEMMA DownloadsDownload ==
    ASSUME UploadsApart(Job), FileInv, HandleInv
    PROVE  NoUploadInstead
<1> SUFFICES ASSUME NEW r \in Request, pc[r] = "perform", Downloads(r), Uploads(r)
             PROVE  FALSE
  BY DEF NoUploadInstead
<1>1. job[r] \in Job
  BY DEF FileInv, FileOK, WorkerOK
<1>2. handle[r] \in Handle /\ home[handle[r]] = job[r].host
  BY HandleOf
<1>3. "upload" \in options[handle[r]]
  BY DEF Uploads
<1>4. Residue(handle[r]) /\ SessionOK(r)
  BY <1>2 DEF HandleInv
<1>5. CASE IsFtp(job[r])
  <2>1. PICK i \in Job : i.host = job[r].host /\ "upload" \in Wanted(i)
    BY <1>2, <1>3, <1>4 DEF Residue, LeftBy
  <2>2. i.kind = "FtpUpload"
    BY <2>1, UploadWanted
  <2>3. job[r].kind \notin {"FtpDownload", "FtpWildcard"}
    BY <1>1, <2>1, <2>2 DEF UploadsApart
  <2>4. QED
    BY <1>5, <2>3 DEF Downloads, IsFtp
<1>6. CASE ~IsFtp(job[r])
  <2>1. "upload" \in Resets(job[r])
    BY <1>6 DEF Resets
  <2>2. "upload" \in Wanted(job[r])
    BY <1>3, <1>4, <2>1 DEF SessionOK
  <2>3. QED
    BY <1>1, <1>6, <2>2, UploadWanted DEF IsFtp
<1>7. QED
  BY <1>5, <1>6

-----------------------------------------------------------------------------
(* WriteInv. *)

\* A step of r notes whom it disturbs when it takes a file into use, and leaves
\* alone the files that it does not use.
Touches(r) ==
    /\ pc[r] # "done"
    /\ disturbed \subseteq disturbed' /\ unflushed \subseteq unflushed'
    /\ \A p \in Path : Uses(r, p)' /\ ~Uses(r, p) =>
          \A q \in Request \ {r} : Uses(q, p) => <<q, p>> \in disturbed'
    /\ \A p \in Path : ~Uses(r, p) /\ ~Uses(r, p)' =>
          /\ files'[p] = files[p]
          /\ \A q \in Request \ {r} : q \in linked /\ Current(q) = p => q \in linked'

\* The invariant has to be checked for the worker that moves only.
LEMMA WriteFrame ==
    ASSUME FileInv, WriteInv, NEW r \in Request, OthersKept(r), Touches(r), WriteOK(r)'
    PROVE  WriteInv'
<1> SUFFICES ASSUME NEW q \in Request \ {r} PROVE WriteOK(q)'
  BY DEF WriteInv
<1>1. WriteOK(q)
  BY DEF WriteInv
<1>2. /\ pc'[q] = pc[q] /\ job'[q] = job[q] /\ code'[q] = code[q]
      /\ entry'[q] = entry[q] /\ created'[q] = created[q] /\ received'[q] = received[q]
      /\ buffer'[q] = buffer[q] /\ (q \in open' <=> q \in open)
  BY DEF OthersKept
<1>3. /\ Current(q)' = Current(q) /\ Downloads(q)' = Downloads(q)
      /\ \A p : Uses(q, p)' = Uses(q, p)
  BY <1>2 DEF Current, Downloads, Uses
<1>4. ASSUME NEW p \in Path, Uses(q, p), <<q, p>> \notin disturbed'
      PROVE  ~Uses(r, p) /\ ~Uses(r, p)'
  BY <1>1, <1>4 DEF WriteOK, Alone, Touches
<1>5. Alone(q)'
  <2> SUFFICES ASSUME NEW p \in Path, Uses(q, p)', <<q, p>> \notin disturbed',
                      NEW s \in Request \ {q}, Uses(s, p)'
               PROVE  pc'[s] = "done"
    BY DEF Alone
  <2>1. s # r
    BY <1>3, <1>4
  <2>2. Uses(s, p) /\ pc'[s] = pc[s]
    BY <2>1 DEF OthersKept, Uses
  <2>3. QED
    BY <1>1, <1>3, <2>2 DEF WriteOK, Alone, Touches
<1>6. Written(q)'
  <2> SUFFICES ASSUME NEW p \in Path, code[q] = "OK", Uses(q, p), <<q, p>> \notin disturbed'
               PROVE  IF q \in open /\ Current(q) = p
                      THEN /\ q \in linked' /\ files'[p].by = q
                           /\ \A k \in 1 .. received[q] :
                                 k \in buffer[q] \/ files'[p].data[k] = q
                      ELSE files'[p] = Complete(q) \/ <<q, p>> \in unflushed'
    BY <1>2, <1>3 DEF Written, Complete
  <2>1. /\ files'[p] = files[p] /\ unflushed \subseteq unflushed'
        /\ q \in linked /\ Current(q) = p => q \in linked'
    BY <1>4 DEF Touches
  <2>2. <<q, p>> \notin disturbed
    BY DEF Touches
  <2>3. QED
    BY <1>1, <2>1, <2>2 DEF WriteOK, Written
<1>7. Covered(q)'
  BY <1>1, <1>2, <1>3 DEF WriteOK, Covered
<1>8. QED
  BY <1>5, <1>6, <1>7 DEF WriteOK

\* Nobody is disturbed by a worker that takes no file into use.
LEMMA StaysAlone ==
    ASSUME NEW r \in Request, Alone(r), OthersKept(r), disturbed \subseteq disturbed',
           \A p \in Path : Uses(r, p)' => Uses(r, p)
    PROVE  Alone(r)'
<1> SUFFICES ASSUME NEW p \in Path, Uses(r, p)', <<r, p>> \notin disturbed',
                    NEW q \in Request \ {r}, Uses(q, p)'
             PROVE  pc'[q] = "done"
  BY DEF Alone
<1>1. Uses(q, p) /\ pc'[q] = pc[q]
  BY DEF OthersKept, Uses
<1>2. QED
  BY <1>1 DEF Alone

\* A step that touches nothing on disk.
LEMMA WriteQuiet ==
    ASSUME FileInv, WriteInv, NEW r \in Request, OthersKept(r), pc[r] # "done",
           UNCHANGED <<files, linked, created, disturbed, unflushed>>,
           Written(r)', Covered(r)'
    PROVE  WriteInv'
<1>1. \A p : Uses(r, p)' = Uses(r, p)
  BY DEF Uses
<1>2. Touches(r)
  BY <1>1 DEF Touches
<1>3. Alone(r)'
  BY <1>1, StaysAlone DEF WriteInv, WriteOK
<1>4. QED
  BY <1>2, <1>3, WriteFrame DEF WriteOK

\* SendRequest: no file yet.
LEMMA GetSessionWrite ==
    ASSUME FileInv, WriteInv, NEW r \in Request, GetSession(r)
    PROVE  WriteInv'
<1>1. TypeOK /\ WorkerOK(r)
  BY DEF FileInv, FileOK
<1>2. /\ pc[r] = "queued" /\ pc' = [pc EXCEPT ![r] = pc'[r]] /\ UNCHANGED file_vars
      /\ code' = [code EXCEPT ![r] = code'[r]]
      /\ code'[r] = "OK" => pc'[r] = "prepare"
      /\ \A q \in Request \ {r} : job'[q] = job[q] /\ handle'[q] = handle[q]
  BY <1>1 DEF GetSession, Goto, Answer, TypeOK
<1>3. OthersKept(r)
  BY <1>1, <1>2 DEF OthersKept, TypeOK
<1>4. Written(r)'
  BY <1>1, <1>2 DEF WorkerOK, Written, Uses
<1>5. Covered(r)'
  BY <1>2 DEF Covered
<1>6. QED
  BY <1>2, <1>3, <1>4, <1>5, WriteQuiet

\* Steps of Moves other than the end of a transfer do not bring a request that is
\* still doing well to the end.
LEMMA MovesWrite ==
    ASSUME FileInv, NoUploadInstead, WriteInv, NEW r \in Request, Moves(r)
    PROVE  WriteInv'
<1>1. TypeOK /\ WorkerOK(r) /\ WriteOK(r)
  BY DEF FileInv, FileOK, WriteInv
<1>2. /\ UNCHANGED <<job, canceled, home, file_vars>>
      /\ pc[r] # "done" /\ pc' = [pc EXCEPT ![r] = pc'[r]]
      /\ code' = [code EXCEPT ![r] = code'[r]]
      /\ code'[r] = "OK" => code[r] = "OK"
  BY MovesFacts
<1>3. \A q \in Request \ {r} : handle'[q] = handle[q]
  BY <1>1
  DEF Moves, PrepareFails, CancelBeforeTransfer, StartFtpDownload, TransferFails,
      EndWithError, TransferSucceeds, Decide, RemovedAll, ReturnSession, TypeOK
<1>4. OthersKept(r)
  BY <1>1, <1>2, <1>3 DEF OthersKept, TypeOK
<1>5. /\ \A p : Uses(r, p)' = Uses(r, p)
      /\ Current(r)' = Current(r) /\ Downloads(r)' = Downloads(r)
  BY <1>2 DEF Uses, Current, Downloads
<1>6. Written(r)'
  BY <1>1, <1>2, <1>5 DEF WriteOK, Written, Complete
<1>7. Covered(r)'
  <2>1. CASE TransferSucceeds(r)
    <3>1. /\ pc[r] = "perform" /\ UNCHANGED <<job, handle_vars, file_vars>>
          /\ \/ Uploads(r) \/ job[r].kind \in {"Http", "FtpUpload"}
             \/ job[r].kind \in {"HttpDownload", "FtpDownload"} /\ received[r] = Chunks
             \/ job[r].kind = "FtpWildcard" /\ r \notin open /\ entry[r] = Len(job[r].files)
      BY <2>1 DEF TransferSucceeds, Goto
    <3>2. job[r] \in Job /\ code[r] = "OK"
      BY <1>1, <3>1 DEF WorkerOK
    <3>3. Downloads(r) => ~Uploads(r)
      BY <3>1 DEF NoUploadInstead
    <3>4. ASSUME Downloads(r)
          PROVE  entry[r] = Len(job[r].files) /\ (r \in open => received[r] = Chunks)
      <4>1. CASE job[r].kind = "FtpWildcard"
        BY <3>1, <3>3, <3>4, <4>1
      <4>2. CASE job[r].kind \in {"HttpDownload", "FtpDownload"}
        <5>1. Len(job[r].files) = 1
          BY <3>2, <4>2, JobFiles
        <5>2. entry[r] = 1
          BY <1>1, <3>1, <4>2 DEF WorkerOK
        <5>3. QED
          BY <3>1, <3>3, <3>4, <4>2, <5>1, <5>2
      <4>3. QED
        BY <3>4, <4>1, <4>2 DEF Downloads
    <3>5. QED
      BY <1>1, <1>2, <1>5, <3>1, <3>2, <3>4 DEF WriteOK, Covered
  <2>2. CASE ~TransferSucceeds(r)
    <3>1. code'[r] = "OK" =>
             /\ pc[r] \notin {"queued", "prepare"}
             /\ pc'[r] \in {"close", "decide", "return", "done"} =>
                   pc[r] \in {"close", "decide", "return", "done"}
      BY <1>1, <2>2
      DEF Moves, PrepareFails, CancelBeforeTransfer, StartFtpDownload, TransferFails,
          EndWithError, Decide, RemovedAll, ReturnSession, Goto, Answer, TypeOK, WorkerOK
    <3>2. QED
      BY <1>1, <1>2, <1>5, <3>1 DEF WriteOK, Covered
  <2>3. QED
    BY <2>1, <2>2
<1>8. QED
  BY <1>2, <1>4, <1>6, <1>7, WriteQuiet

\* The listing goes on past what is not a plain file.
LEMMA AdvancesWrite ==
    ASSUME FileInv, WriteInv, NEW r \in Request, Advances(r)
    PROVE  WriteInv'
<1>1. TypeOK /\ WorkerOK(r) /\ WriteOK(r)
  BY DEF FileInv, FileOK, WriteInv
<1>2. /\ UNCHANGED <<job, canceled, handle, home, idle, files, open, linked, received,
                     buffer, created, disturbed, unflushed>>
      /\ r \notin open /\ pc[r] \in {"prepare", "perform"}
      /\ pc' = [pc EXCEPT ![r] = pc'[r]]
      /\ code' = [code EXCEPT ![r] = code'[r]]
      /\ code'[r] = "OK" => pc'[r] = "perform"
      /\ entry' = [entry EXCEPT ![r] = entry'[r]] /\ entry'[r] \in Nat
      /\ code[r] = "OK"
  BY AdvancesFacts
<1>3. OthersKept(r)
  BY <1>1, <1>2 DEF OthersKept, TypeOK
<1>4. \A p : Uses(r, p)' = Uses(r, p)
  BY <1>2 DEF Uses
<1>5. Written(r)'
  BY <1>1, <1>2, <1>4 DEF WriteOK, Written, Complete
<1>6. Covered(r)'
  <2> SUFFICES ASSUME code'[r] = "OK", Downloads(r),
                      NEW i \in 1 .. Len(job[r].files), i <= entry'[r],
                      job[r].files[i] # Skipped
               PROVE  Uses(r, job[r].files[i])
    BY <1>2, <1>4 DEF Covered, Downloads
  <2>1. job[r] \in Job
    BY <1>1, <1>2 DEF WorkerOK
  <2>2. i \in Nat /\ i >= 1
    BY <2>1, JobFiles
  <2>3. CASE StartTransfer(r)
    <3>1. entry'[r] = 0
      BY <1>1, <2>3 DEF StartTransfer, Downloads, TypeOK
    <3>2. QED
      BY <2>2, <3>1
  <2>4. CASE ChunkSkip(r)
    <3>1. /\ pc[r] = "perform" /\ entry[r] \in Nat /\ entry'[r] = entry[r] + 1
          /\ job[r].files[entry[r] + 1] = Skipped
      BY <1>1, <2>4 DEF ChunkSkip, NextEntry, TypeOK
    <3>2. i <= entry[r]
      BY <2>2, <3>1
    <3>3. QED
      BY <1>1, <1>2, <3>1, <3>2 DEF WriteOK, Covered
  <2>5. CASE ChunkFails(r)
    BY <1>1, <2>5 DEF ChunkFails, EndWithError, Answer, TypeOK
  <2>6. QED
    BY <2>3, <2>4, <2>5 DEF Advances
<1>7. QED
  BY <1>2, <1>3, <1>5, <1>6, WriteQuiet

\* A file is truncated: its earlier users are disturbed, and so is r if one of them
\* is still at work.
LEMMA OpensWrite ==
    ASSUME FileInv, WriteInv, NEW r \in Request, Opens(r)
    PROVE  WriteInv'
<1>1. PICK p \in Path : Opened(r, p)
  BY OpensFacts
<1>2. /\ OthersKept(r)
      /\ files'[p] = Empty(r)
      /\ \A x \in Path : x # p => files'[x] = files[x]
      /\ open' = open \cup {r} /\ linked' = linked \cup {r}
      /\ Current(r)' = p
      /\ \A x : Uses(r, x)' <=> Uses(r, x) \/ x = p
      /\ received'[r] = 0
  BY <1>1, OpenedState
<1>3. /\ \A q \in Request \ {r} : Uses(q, p) => <<q, p>> \in disturbed'
      /\ disturbed \subseteq disturbed'
      /\ <<r, p>> \notin disturbed' => \A q \in Request \ {r} : Uses(q, p) => pc[q] = "done"
  BY <1>1 DEF Opened, OpenTruncated
<1>4. /\ UNCHANGED <<job, code, unflushed>> /\ r \notin open /\ code[r] = "OK"
      /\ pc[r] \in {"prepare", "perform"} /\ pc'[r] \in {"opened", "perform"}
  BY <1>1 DEF Opened
<1>5. WriteOK(r)
  BY DEF WriteInv
<1>6. Touches(r)
  BY <1>2, <1>3, <1>4 DEF Touches
<1>7. Alone(r)'
  <2> SUFFICES ASSUME NEW x \in Path, Uses(r, x)', <<r, x>> \notin disturbed',
                      NEW q \in Request \ {r}, Uses(q, x)'
               PROVE  pc'[q] = "done"
    BY DEF Alone
  <2>1. Uses(q, x) /\ pc'[q] = pc[q]
    BY <1>2 DEF OthersKept, Uses
  <2>2. CASE x = p
    BY <1>3, <2>1, <2>2
  <2>3. CASE x # p
    BY <1>2, <1>3, <1>5, <2>1, <2>3 DEF WriteOK, Alone
  <2>4. QED
    BY <2>2, <2>3
<1>8. Written(r)'
  <2> SUFFICES ASSUME NEW x \in Path, Uses(r, x)', <<r, x>> \notin disturbed'
               PROVE  IF x = p
                      THEN /\ r \in linked' /\ files'[x].by = r
                           /\ \A k \in 1 .. received'[r] :
                                 k \in buffer'[r] \/ files'[x].data[k] = r
                      ELSE files'[x] = Complete(r) \/ <<r, x>> \in unflushed'
    BY <1>2 DEF Written, Complete
  <2>1. CASE x = p
    BY <1>2, <2>1 DEF Empty
  <2>2. CASE x # p
    BY <1>2, <1>3, <1>4, <1>5, <2>2 DEF WriteOK, Written
  <2>3. QED
    BY <2>1, <2>2
<1>9. Covered(r)'
  <2> SUFFICES ASSUME NEW i \in 1 .. Len(job[r].files), i <= entry'[r],
                      job[r].files[i] # Skipped, NEW x, x = job[r].files[i]
               PROVE  Uses(r, x)'
    BY <1>4 DEF Covered
  <2>1. /\ Len(job[r].files) \in Nat /\ job[r].files[entry'[r]] = p
        /\ entry'[r] \in 1 .. Len(job[r].files) /\ Downloads(r) /\ entry[r] \in Nat
    BY <1>1, JobFiles DEF Opened, FileInv, TypeOK
  <2>2. CASE i = entry'[r]
    BY <1>2, <2>1, <2>2
  <2>3. CASE i # entry'[r]
    <3>1. pc[r] = "perform" /\ entry'[r] = entry[r] + 1
      BY <1>1, <2>1, <2>3 DEF Opened
    <3>2. i <= entry[r]
      BY <2>1, <2>3, <3>1
    <3>3. Uses(r, x)
      BY <1>4, <1>5, <2>1, <3>1, <3>2 DEF WriteOK, Covered
    <3>4. QED
      BY <1>2, <3>3
  <2>4. QED
    BY <2>2, <2>3
<1>10. QED
  BY <1>2, <1>6, <1>7, <1>8, <1>9, WriteFrame DEF WriteOK

\* A file that is all by r is complete.
LEMMA CompleteContent ==
    ASSUME NEW r \in Request, NEW c \in Content, c.by = r, \A k \in Piece : c.data[k] = r
    PROVE  c = Complete(r)
<1>1. c.data \in [Piece -> Request \cup {None}] /\ c = [by |-> c.by, data |-> c.data]
  BY DEF Content
<1>2. c.data = [k \in Piece |-> r]
  BY <1>1
<1>3. QED
  BY <1>1, <1>2 DEF Complete

\* What a stream writes goes to a file of its request.
LEMMA FlushTouches ==
    ASSUME FileInv, NEW r \in Request, NEW set, Flush(r, set), pc[r] # "done",
           linked \ {r} \subseteq linked', disturbed \subseteq disturbed',
           unflushed \subseteq unflushed', UNCHANGED created
    PROVE  Touches(r)
<1>1. \A p : Uses(r, p)' = Uses(r, p)
  BY DEF Uses
<1>2. \A p \in Path : ~Uses(r, p) => files'[p] = files[p]
  BY DEF Flush, FileInv, FileOK, StreamOK, TypeOK
<1>3. QED
  BY <1>1, <1>2 DEF Touches

\* The stream is closed when everything was received: the file is complete, or the
\* failure inside close() is noted.
LEMMA ClosesWrite ==
    ASSUME FileInv, WriteInv, NEW r \in Request, Closes(r)
    PROVE  WriteInv'
<1>1. TypeOK /\ WorkerOK(r) /\ StreamOK(r) /\ WriteOK(r)
  BY DEF FileInv, FileOK, WriteInv
<1>2. /\ CloseStream(r)
      /\ UNCHANGED <<job, canceled, handle, home, idle, entry, received, created, disturbed>>
      /\ pc' = [pc EXCEPT ![r] = pc'[r]] /\ pc'[r] \in {"perform", "decide", "remove"}
      /\ pc[r] \in {"opened", "perform", "close"}
      /\ code' = [code EXCEPT ![r] = code'[r]]
      /\ code'[r] = "OK" => code[r] = "OK"
      /\ code'[r] = "OK" => pc[r] = "close" \/ received[r] = Chunks
      /\ pc'[r] = "perform" => pc[r] = "perform"
      /\ pc[r] = "close" <=> pc'[r] = "decide"
      /\ pc'[r] = "remove" => code'[r] # "OK"
  BY ClosesFacts
<1>3. Closed(r)
  BY <1>2, ClosedState
<1>4. OthersKept(r)
  BY <1>1, <1>2, <1>3 DEF OthersKept, Closed, TypeOK
<1>5. /\ \A p : Uses(r, p)' = Uses(r, p)
      /\ Current(r)' = Current(r) /\ Downloads(r)' = Downloads(r)
  BY <1>2 DEF Uses, Current, Downloads
<1>6. Touches(r)
  <2>1. PICK set : Flush(r, set)
    BY <1>3 DEF Closed
  <2>2. QED
    BY <1>2, <1>3, <2>1, FlushTouches DEF Closed
<1>7. Alone(r)'
  BY <1>1, <1>2, <1>4, <1>5, StaysAlone DEF WriteOK
<1>8. Covered(r)'
  BY <1>1, <1>2, <1>3, <1>5 DEF WriteOK, Covered, Closed
<1>9. Written(r)'
  <2> SUFFICES ASSUME NEW p \in Path, code'[r] = "OK", Uses(r, p), <<r, p>> \notin disturbed
               PROVE  files'[p] = Complete(r) \/ <<r, p>> \in unflushed'
    BY <1>2, <1>3, <1>5 DEF Written, Closed, Complete
  <2>1. code[r] = "OK"
    BY <1>2
  <2>2. CASE r \in open /\ Current(r) = p
    <3>1. received[r] = Chunks
      BY <1>1, <1>2, <2>1, <2>2 DEF StreamOK, WriteOK, Covered
    <3>2. /\ r \in linked /\ files[p].by = r
          /\ \A k \in Piece : k \in buffer[r] \/ files[p].data[k] = r
      BY <1>1, <2>1, <2>2, <3>1 DEF WriteOK, Written, Piece
    <3>3. CASE Flush(r, buffer[r])
      <4>1. /\ files'[p] \in Content /\ files'[p].by = r
            /\ \A k \in Piece : files'[p].data[k] = r
        BY <2>2, <3>2, <3>3 DEF Flush
      <4>2. QED
        BY <4>1, CompleteContent
    <3>4. CASE <<r, Current(r)>> \in unflushed'
      BY <2>2, <3>4
    <3>5. QED
      BY <1>3, <3>3, <3>4 DEF Closed
  <2>3. CASE ~(r \in open /\ Current(r) = p)
    <3>1. p # Current(r) \/ r \notin linked
      BY <1>1, <2>3 DEF TypeOK
    <3>2. files'[p] = files[p] /\ unflushed \subseteq unflushed'
      BY <1>3, <3>1 DEF Closed, Flush
    <3>3. QED
      BY <1>1, <2>1, <2>3, <3>2 DEF WriteOK, Written
  <2>4. QED
    BY <2>2, <2>3
<1>10. QED
  BY <1>4, <1>6, <1>7, <1>8, <1>9, WriteFrame DEF WriteOK

\* The write callback: the piece is in the buffer, or it is on disk with all that
\* the buffer held.
LEMMA WriteWrite ==
    ASSUME FileInv, WriteInv, NEW r \in Request, Write(r)
    PROVE  WriteInv'
<1>1. TypeOK /\ WriteOK(r) /\ received[r] \in Nat /\ buffer[r] \subseteq Piece
  <2>1. TypeOK /\ WriteOK(r)
    BY DEF FileInv, WriteInv
  <2>2. received[r] \in 0 .. Chunks /\ buffer[r] \subseteq Piece
    BY <2>1 DEF TypeOK
  <2>3. QED
    BY <2>1, <2>2, ChunksAssumption
<1>2. /\ pc[r] = "perform" /\ r \in open /\ received[r] < Chunks
      /\ received' = [received EXCEPT ![r] = @ + 1]
      /\ UNCHANGED <<pc, job, canceled, code, handle_vars, open, linked, entry,
                     created, disturbed, unflushed>>
  BY DEF Write
<1>3. /\ buffer' = [buffer EXCEPT ![r] = buffer'[r]]
      /\ \/ /\ buffer'[r] = buffer[r] \cup {received[r] + 1} /\ UNCHANGED files
            /\ Flush(r, {})
         \/ Flush(r, buffer[r] \cup {received[r] + 1})
  BY <1>1, FlushState, NoFlush DEF Write, TypeOK
<1>4. received'[r] = received[r] + 1 /\ received[r] + 1 \in Piece
  BY <1>1, <1>2, ChunksAssumption DEF TypeOK, Piece
<1>5. OthersKept(r)
  BY <1>1, <1>2, <1>3 DEF OthersKept, TypeOK
<1>6. /\ \A p : Uses(r, p)' = Uses(r, p)
      /\ Current(r)' = Current(r) /\ Downloads(r)' = Downloads(r)
  BY <1>2 DEF Uses, Current, Downloads
<1>7. PICK set : Flush(r, set) /\ \A k \in 1 .. received[r] + 1 :
                    k \in set \/ k \in buffer'[r] \/ (k <= received[r] /\ k \notin buffer[r])
  <2>1. CASE buffer'[r] = buffer[r] \cup {received[r] + 1} /\ Flush(r, {})
    <3>1. \A k \in 1 .. received[r] + 1 :
             k \in buffer'[r] \/ (k <= received[r] /\ k \notin buffer[r])
      BY <1>1, <2>1
    <3>2. QED
      BY <2>1, <3>1
  <2>2. CASE Flush(r, buffer[r] \cup {received[r] + 1})
    <3>1. \A k \in 1 .. received[r] + 1 :
             \/ k \in buffer[r] \cup {received[r] + 1}
             \/ k <= received[r] /\ k \notin buffer[r]
      BY <1>1
    <3>2. QED
      BY <2>2, <3>1
  <2>3. QED
    BY <1>3, <2>1, <2>2
<1>8. Touches(r)
  BY <1>2, <1>7, FlushTouches
<1>9. Alone(r)'
  BY <1>1, <1>2, <1>5, <1>6, StaysAlone DEF WriteOK
<1>10. Covered(r)'
  BY <1>1, <1>2, <1>6 DEF WriteOK, Covered
<1>11. Written(r)'
  <2> SUFFICES ASSUME NEW p \in Path, code[r] = "OK", Uses(r, p), <<r, p>> \notin disturbed
               PROVE  IF r \in open /\ Current(r) = p
                      THEN /\ r \in linked /\ files'[p].by = r
                           /\ \A k \in 1 .. received'[r] :
                                 k \in buffer'[r] \/ files'[p].data[k] = r
                      ELSE files'[p] = Complete(r) \/ <<r, p>> \in unflushed
    BY <1>2, <1>6 DEF Written, Complete
  <2>1. CASE Current(r) = p
    <3>1. /\ r \in linked /\ files[p].by = r
          /\ \A k \in 1 .. received[r] : k \in buffer[r] \/ files[p].data[k] = r
      BY <1>1, <1>2, <2>1 DEF WriteOK, Written
    <3>2. /\ files'[p].by = r
          /\ \A k \in Piece : files'[p].data[k] = IF k \in set THEN r ELSE files[p].data[k]
      BY <1>7, <2>1, <3>1 DEF Flush
    <3>3. \A k \in 1 .. received[r] + 1 : k \in buffer'[r] \/ files'[p].data[k] = r
      <4> SUFFICES ASSUME NEW k \in 1 .. received[r] + 1, k \notin buffer'[r]
                   PROVE  files'[p].data[k] = r
        OBVIOUS
      <4>1. k \in Piece
        BY <1>1, <1>2, ChunksAssumption DEF Piece
      <4>2. k \in set \/ (k \in 1 .. received[r] /\ k \notin buffer[r])
        BY <1>1, <1>7
      <4>3. QED
        BY <3>1, <3>2, <4>1, <4>2
    <3>4. QED
      BY <1>2, <1>4, <2>1, <3>1, <3>2, <3>3
  <2>2. CASE Current(r) # p
    BY <1>1, <1>7, <2>2 DEF WriteOK, Written, Flush
  <2>3. QED
    BY <2>1, <2>2
<1>12. QED
  BY <1>5, <1>8, <1>9, <1>10, <1>11, WriteFrame DEF WriteOK

\* The write callback fails, and with it the transfer.
LEMMA WriteFailsWrite ==
    ASSUME FileInv, WriteInv, NEW r \in Request, WriteFails(r)
    PROVE  WriteInv'
<1>1. TypeOK
  BY DEF FileInv
<1>2. /\ pc[r] = "perform" /\ pc' = [pc EXCEPT ![r] = "close"]
      /\ code' = [code EXCEPT ![r] = "FAILED"] /\ buffer' = [buffer EXCEPT ![r] = {}]
      /\ UNCHANGED <<job, handle_vars, files, open, linked, entry, received, created,
                     disturbed, unflushed>>
  BY DEF WriteFails, EndWithError, Goto, Answer
<1>3. OthersKept(r) /\ code'[r] # "OK"
  BY <1>1, <1>2 DEF OthersKept, TypeOK
<1>4. Written(r)' /\ Covered(r)'
  BY <1>3 DEF Written, Covered
<1>5. QED
  BY <1>2, <1>3, <1>4, WriteQuiet

\* Who removes a file has failed, and used it.
LEMMA RemovesWrite ==
    ASSUME FileInv, WriteInv, NEW r \in Request, RemoveFile(r)
    PROVE  WriteInv'
<1>1. PICK p \in Path : Removed(r, p)
  BY RemovedState
<1>2. TypeOK /\ WorkerOK(r) /\ WriteOK(r)
  BY DEF FileInv, FileOK, WriteInv
<1>3. OthersKept(r)
  BY <1>1, <1>2 DEF Removed, OthersKept, TypeOK
<1>4. code'[r] # "OK"
  BY <1>1, <1>2 DEF Removed, WorkerOK
<1>5. Touches(r)
  BY <1>1, <1>2 DEF Removed, Touches, TypeOK
<1>6. Alone(r)'
  BY <1>1, <1>2, <1>3, StaysAlone DEF Removed, WriteOK
<1>7. Written(r)' /\ Covered(r)'
  BY <1>4 DEF Written, Covered
<1>8. QED
  BY <1>3, <1>5, <1>6, <1>7, WriteFrame DEF WriteOK

LEMMA WriteInvInit == Init => WriteInv
<1> SUFFICES ASSUME Init, NEW r \in Request PROVE WriteOK(r)
  BY DEF WriteInv
<1>1. \A q \in Request : \A p : ~Uses(q, p)
  BY DEF Init, Uses
<1>2. QED
  BY <1>1 DEF Init, WriteOK, Alone, Written, Covered

LEMMA WriteInvStep == FileInv /\ NoUploadInstead /\ WriteInv /\ [Next]_vars => WriteInv'
<1> SUFFICES ASSUME FileInv, NoUploadInstead, WriteInv, [Next]_vars PROVE WriteInv'
  OBVIOUS
<1>1. ASSUME NEW r \in Request, Transfer(r)
      PROVE  WriteInv'
  BY <1>1, StepsOfWorker, GetSessionWrite, MovesWrite, AdvancesWrite, OpensWrite,
     ClosesWrite, WriteWrite, WriteFailsWrite, RemovesWrite
<1>2. CASE UNCHANGED <<pc, job, code, file_vars>>
  <2>1. /\ \A r \in Request : Current(r)' = Current(r) /\ Downloads(r)' = Downloads(r)
        /\ \A r \in Request, p \in Path : Uses(r, p)' = Uses(r, p)
    BY <1>2 DEF Current, Downloads, Uses
  <2>2. ASSUME NEW r \in Request
        PROVE  WriteOK(r)'
    <3>1. WriteOK(r)
      BY DEF WriteInv
    <3>2. Alone(r)'
      BY <1>2, <2>1, <3>1 DEF WriteOK, Alone
    <3>3. Written(r)'
      BY <1>2, <2>1, <3>1 DEF WriteOK, Written, Complete
    <3>4. Covered(r)'
      BY <1>2, <2>1, <3>1 DEF WriteOK, Covered, Uses
    <3>5. QED
      BY <3>2, <3>3, <3>4 DEF WriteOK
  <2>3. QED
    BY <2>2 DEF WriteInv
<1>3. QED
  BY <1>1, <1>2 DEF Next, Terminated, Cancel, vars

LEMMA WriteInvAlways ==
    ASSUME UploadsApart(Job)
    PROVE  Spec => []WriteInv
<1>1. FileInv /\ HandleInv => NoUploadInstead
  BY DownloadsDownload
<1>2. QED
  BY <1>1, WriteInvInit, WriteInvStep, FileInvAlways, HandleInvAlways, PTL DEF Spec

\* When no FTP upload shares its host with an FTP download, a download that reports
\* success has left each of its files on disk, complete and entirely its own, except
\* files that another transfer used meanwhile and those that close() failed to write.
THEOREM SuccessIsComplete ==
    ASSUME UploadsApart(Job)
    PROVE  Spec => []SuccessMeansComplete
<1>1. FileInv /\ WriteInv => SuccessMeansComplete
  <2> SUFFICES ASSUME FileInv, WriteInv, NEW r \in Request, pc[r] = "done", code[r] = "OK",
                      Downloads(r), NEW i \in 1 .. Len(job[r].files),
                      job[r].files[i] # Skipped,
                      <<r, job[r].files[i]>> \notin disturbed \cup unflushed
               PROVE  files[job[r].files[i]] = Complete(r)
    BY DEF SuccessMeansComplete
  <2>1. FileOK(r) /\ WriteOK(r)
    BY DEF FileInv, WriteInv
  <2>2. job[r] \in Job /\ r \notin open
    BY <2>1 DEF FileOK, WorkerOK, StreamOK
  <2>3. job[r].files[i] \in Path /\ Len(job[r].files) \in Nat
    BY <2>2, JobFiles
  <2>4. entry[r] = Len(job[r].files)
    BY <2>1 DEF WriteOK, Covered
  <2>5. i <= entry[r]
    BY <2>3, <2>4
  <2>6. Uses(r, job[r].files[i])
    BY <2>1, <2>5 DEF WriteOK, Covered
  <2>7. QED
    BY <2>1, <2>2, <2>3, <2>6 DEF WriteOK, Written
<1>2. QED
  BY <1>1, FileInvAlways, WriteInvAlways, PTL
=============================================================================
