---------------------------- MODULE FileTransfer ----------------------------
(***************************************************************************)
(* What the transfers of EasyHttp do to local files and to the curl        *)
(* handles they borrow: SendHttpRequest, FtpUpload, FtpDownloadSingle and  *)
(* FtpDownloadWildcard, each run by a worker thread of its own between     *)
(* GetSession and ReturnSession.  Queues and callbacks are in EasyHttp,    *)
(* which cached handle is handed out in CprSessionCache.                   *)
(*                                                                         *)
(* A file is Chunks pieces long.  Its contents record the transfer that    *)
(* truncated it last and, piece by piece, the transfer that wrote it.  As  *)
(* on POSIX systems, a file that is removed while it is open lives on      *)
(* without a name.  Removing a file that was just created does not fail.   *)
(***************************************************************************)
EXTENDS Integers, Sequences, FiniteSets

CONSTANTS
    Request,   \* the requests of a behaviour
    Path,      \* local files
    Handle,    \* curl easy handles
    Host,      \* remote hosts
    Job,       \* what plugins may ask for: records of Jobs, below
    Chunks,    \* pieces of a file
    Linux,     \* whether the module is built for Linux
    Skipped,   \* a listed name that is not a plain file
    None       \* no job, no handle, no host, no file

Kind == {"Http", "HttpDownload", "FtpUpload", "FtpDownload", "FtpWildcard"}

IsFtp(j) == j.kind \in {"FtpUpload", "FtpDownload", "FtpWildcard"}

\* The members of RequestOptions that a plugin may leave unset: SetSessionCommonOptions
\* looks at the timeouts, SendHttpRequest at the others.
CommonSetting == {"timeout", "connect_timeout"}
HttpSetting == {"user_agent", "url_parameters", "form_payload", "body", "header",
                "cookies", "proxy_url", "proxy_auth", "auth"}

\* A request's kind, the local files it reads or writes in turn (one, or what
\* the listing of a wildcard download names), its host, require_secure, and the
\* settings that its RequestOptions hold.
Jobs == [kind : Kind, files : Seq(Path \cup {Skipped}), host : Host, secure : BOOLEAN,
         asks : SUBSET (CommonSetting \cup HttpSetting)]

\* What a file holds: who truncated it last, and who wrote each piece.
Piece == 1 .. Chunks
Content == [by : Request \cup {None}, data : [Piece -> Request \cup {None}]]

ASSUME ChunksAssumption == Chunks \in Nat \ {0}
ASSUME LinuxAssumption == Linux \in BOOLEAN
ASSUME JobAssumption ==
    \A j \in Job : /\ j \in Jobs
                   /\ j.kind \in {"HttpDownload", "FtpUpload", "FtpDownload"}
                         => Len(j.files) = 1 /\ j.files[1] # Skipped
ASSUME NoneAssumption ==
    /\ None \notin Job \cup Handle \cup Host
    /\ None \notin Request /\ None \notin Content
    /\ Skipped \notin Path

VARIABLES
    pc,         \* where the worker of each request is
    job,        \* what each request asks for
    canceled,   \* requests whose canceled flag is set
    code,       \* error code of each response
    handle,     \* the curl handle of each request's session
    home,       \* home[h]: the host handle h was made for, None while unused
    idle,       \* handles in the session cache
    options,    \* curl options that stay set on a handle
    files,      \* local files
    open,       \* requests whose std::ofstream is open
    linked,     \* requests whose open file still has its name
    entry,      \* index of the current one of a request's files
    received,   \* pieces of it that curl has passed to the write callback
    buffer,     \* pieces that the stream has not yet written to the file
    created,    \* files a request has created and not removed
    disturbed,  \* history: <<r, p>> such that another transfer used p too
    unflushed   \* history: <<r, p>> such that closing p failed

handle_vars == <<handle, home, idle, options>>
file_vars == <<files, open, linked, entry, received, buffer, created, disturbed,
               unflushed>>
vars == <<pc, job, canceled, code, handle_vars, file_vars>>

Label == {"queued", "prepare", "opened", "perform", "close", "decide", "remove",
          "return", "done"}
ErrorCode == {"OK", "FAILED", "INTERNAL_ERROR", "REQUEST_CANCELLED"}

\* What can be set on a curl handle: CURLOPT_UPLOAD, CURLOPT_FTP_CREATE_MISSING_DIRS,
\* CURLOPT_WILDCARDMATCH, CURLOPT_USE_SSL, CURLOPT_SSL_VERIFYPEER switched off, and
\* the settings.  A handle keeps the names of settings only: a request that asks for
\* a setting replaces the value, one that does not runs with the value it finds.
Option == {"upload", "create_dirs", "wildcard", "use_ssl", "no_verify"}
             \cup CommonSetting \cup HttpSetting

Empty(r) == [by |-> r, data |-> [k \in Piece |-> None]]
Complete(r) == [by |-> r, data |-> [k \in Piece |-> r]]
Ftp(r) == IsFtp(job[r])
Current(r) == job[r].files[entry[r]]
Uses(r, p) == \E i \in 1 .. Len(created[r]) : created[r][i] = p

Init ==
    /\ pc = [r \in Request |-> "queued"]
    /\ job = [r \in Request |-> None]
    /\ canceled = {}
    /\ code = [r \in Request |-> "OK"]
    /\ handle = [r \in Request |-> None]
    /\ home = [h \in Handle |-> None]
    /\ idle = {}
    /\ options = [h \in Handle |-> {}]
    /\ files \in [Path -> {None, Complete(None)}]
    /\ open = {} /\ linked = {}
    /\ entry = [r \in Request |-> 1]
    /\ received = [r \in Request |-> 0]
    /\ buffer = [r \in Request |-> {}]
    /\ created = [r \in Request |-> <<>>]
    /\ disturbed = {} /\ unflushed = {}

-----------------------------------------------------------------------------
(* Steps of a worker. *)

Goto(r, from, to) == pc[r] = from /\ pc' = [pc EXCEPT ![r] = to]

\* The response's error code is decided.
Answer(r, c) == code' = [code EXCEPT ![r] = c]

\* The settings that are put on the session: only those that the request holds, and
\* of the HTTP ones none by the FTP functions.
Asked(j) == j.asks \cap (CommonSetting \cup (IF IsFtp(j) THEN {} ELSE HttpSetting))

\* SetSessionCommonOptions and the head of SendHttpRequest.  Nothing takes a setting
\* off again: the handle is taken to keep all of them, although cpr may forget some
\* with the session.  SetSslOptions, on Linux only, switches SSL_VERIFYPEER on.
SetSession(j, h) ==
    options' = [options EXCEPT ![h] =
                   (IF Linux THEN @ \ {"no_verify"} ELSE @) \cup Asked(j)]

\* SendRequest of a request that asks for j: a session with a cached handle of the
\* host or with a new one (CprSessionCache says which); then the flag is read, and
\* a cancelled request goes no further.
GetSession(r) ==
    \E j \in Job, h \in Handle :
        /\ \/ h \in idle /\ home[h] = j.host
           \/ home[h] = None
        /\ job' = [job EXCEPT ![r] = j]
        /\ handle' = [handle EXCEPT ![r] = h]
        /\ home' = [home EXCEPT ![h] = j.host]
        /\ idle' = idle \ {h}
        /\ \/ /\ r \in canceled
              /\ Goto(r, "queued", "return")
              /\ Answer(r, "REQUEST_CANCELLED")
              /\ UNCHANGED options
           \/ /\ r \notin canceled
              /\ Goto(r, "queued", "prepare")
              /\ SetSession(j, h)
              /\ UNCHANGED code
        /\ UNCHANGED <<canceled, file_vars>>

\* What the FTP functions set with curl_easy_setopt.
FtpOptions(j) ==
    (CASE j.kind = "FtpUpload"   -> {"upload", "create_dirs"}
       [] j.kind = "FtpWildcard" -> {"wildcard"}
       [] OTHER                  -> {})
    \cup (IF j.secure THEN {"use_ssl", "no_verify"} ELSE {})

\* The options a transfer sets on its handle when it starts.  The FTP functions call
\* curl_easy_perform themselves and add to what the handle has; cpr's HTTP verbs set
\* the method and with it clear CURLOPT_UPLOAD.
SetOptions(r) ==
    options' = [options EXCEPT ![handle[r]] =
                   IF Ftp(r) THEN @ \cup FtpOptions(job[r]) ELSE @ \ {"upload"}]

\* open(path, out | binary | trunc) succeeds.  A transfer that has used the path
\* loses its file; one that is not over yet will interfere with this one.
OpenTruncated(r, p) ==
    LET others == {q \in Request \ {r} : Uses(q, p)} IN
    /\ files' = [files EXCEPT ![p] = Empty(r)]
    /\ open' = open \cup {r}
    /\ linked' = linked \cup {r}
    /\ received' = [received EXCEPT ![r] = 0]
    /\ created' = [created EXCEPT ![r] = Append(@, p)]
    /\ disturbed' = disturbed \cup (others \X {p})
                       \cup (IF \E q \in others : pc[q] # "done" THEN {<<r, p>>} ELSE {})

\* The pieces in set reach the file, if the open file still has its name.
Flushed(r, set) ==
    IF r \in linked
    THEN [files EXCEPT ![Current(r)].data =
             [k \in Piece |-> IF k \in set THEN r ELSE @[k]]]
    ELSE files

\* std::ofstream::close: what is buffered is written, or is lost without anybody
\* noticing.
CloseStream(r) ==
    /\ open' = open \ {r} /\ linked' = linked \ {r}
    /\ buffer' = [buffer EXCEPT ![r] = {}]
    /\ \/ files' = Flushed(r, buffer[r]) /\ UNCHANGED unflushed
       \/ /\ r \in open /\ buffer[r] # {}
          /\ unflushed' = unflushed \cup {<<r, Current(r)>>}
          /\ UNCHANGED files

\* The local path is missing, its directory cannot be made, or the file cannot be
\* opened.  SendHttpRequest has read the flag by then.
PrepareFails(r) ==
    /\ Goto(r, "prepare", "return")
    /\ job[r].kind # "Http"
    /\ job[r].kind = "HttpDownload" => r \notin canceled
    /\ Answer(r, "INTERNAL_ERROR")
    /\ UNCHANGED <<job, canceled, handle_vars, file_vars>>

\* The flag is read before the transfer, with no file to remove: plain HTTP and
\* HttpDownload before the file is opened, FtpUpload with its file open for
\* reading, FtpDownloadWildcard with its directory made.
CancelBeforeTransfer(r) ==
    /\ Goto(r, "prepare", "return")
    /\ r \in canceled /\ job[r].kind # "FtpDownload"
    /\ job[r].kind = "FtpUpload" => files[Current(r)] # None
    /\ Answer(r, "REQUEST_CANCELLED")
    /\ UNCHANGED <<job, canceled, handle_vars, file_vars>>

\* Plain HTTP, FtpUpload and FtpDownloadWildcard start without creating a file.
StartTransfer(r) ==
    /\ Goto(r, "prepare", "perform")
    /\ r \notin canceled /\ job[r].kind \in {"Http", "FtpUpload", "FtpWildcard"}
    /\ job[r].kind = "FtpUpload" => files[Current(r)] # None
    /\ SetOptions(r)
    /\ entry' = [entry EXCEPT ![r] = IF job[r].kind = "FtpWildcard" THEN 0 ELSE 1]
    /\ UNCHANGED <<job, canceled, code, handle, home, idle, files, open, linked,
                   received, buffer, created, disturbed, unflushed>>

\* SendHttpRequest for HttpDownload: the flag, then the file, then the transfer.
StartHttpDownload(r) ==
    /\ Goto(r, "prepare", "perform")
    /\ r \notin canceled /\ job[r].kind = "HttpDownload"
    /\ OpenTruncated(r, Current(r))
    /\ SetOptions(r)
    /\ UNCHANGED <<job, canceled, code, handle, home, idle, entry, buffer, unflushed>>

\* FtpDownloadSingle opens the file ...
OpenFtpDownload(r) ==
    /\ Goto(r, "prepare", "opened")
    /\ job[r].kind = "FtpDownload"
    /\ OpenTruncated(r, Current(r))
    /\ UNCHANGED <<job, canceled, code, handle_vars, entry, buffer, unflushed>>

\* ... before it reads the flag: a cancelled download closes and removes it.
CancelOpened(r) ==
    /\ Goto(r, "opened", "remove")
    /\ r \in canceled
    /\ CloseStream(r)
    /\ Answer(r, "REQUEST_CANCELLED")
    /\ UNCHANGED <<job, canceled, handle_vars, entry, received, created, disturbed>>

StartFtpDownload(r) ==
    /\ Goto(r, "opened", "perform")
    /\ r \notin canceled
    /\ SetOptions(r)
    /\ UNCHANGED <<job, canceled, code, handle, home, idle, file_vars>>

-----------------------------------------------------------------------------
(* Inside curl_easy_perform. *)

\* What curl does follows the handle's options, not the request.
Uploads(r) == "upload" \in options[handle[r]]

\* curl_easy_perform returns an error.
EndWithError(r) ==
    /\ Goto(r, "perform", "close")
    /\ Answer(r, "FAILED")
    /\ UNCHANGED <<job, canceled, handle_vars>>

\* The connection, the peer or a timeout fails, or the progress callback (and
\* HttpDownload's write callback) sees the canceled flag.
TransferFails(r) == EndWithError(r) /\ UNCHANGED file_vars

NextEntry(r) ==
    /\ pc[r] = "perform" /\ job[r].kind = "FtpWildcard"
    /\ r \notin open
    /\ entry[r] < Len(job[r].files)
    /\ entry' = [entry EXCEPT ![r] = @ + 1]

\* OnFtpWildcardChunkBegin skips what is not a plain file ...
ChunkSkip(r) ==
    /\ NextEntry(r) /\ job[r].files[entry[r] + 1] = Skipped
    /\ UNCHANGED <<pc, job, canceled, code, handle_vars, files, open, linked,
                   received, buffer, created, disturbed, unflushed>>

\* ... and opens the next one ...
ChunkBegin(r) ==
    /\ NextEntry(r) /\ job[r].files[entry[r] + 1] # Skipped
    /\ OpenTruncated(r, job[r].files[entry[r] + 1])
    /\ UNCHANGED <<pc, job, canceled, code, handle_vars, buffer, unflushed>>

\* ... or cannot, which makes curl give up (file_open_failed).
ChunkFails(r) ==
    /\ NextEntry(r) /\ job[r].files[entry[r] + 1] # Skipped
    /\ EndWithError(r)
    /\ UNCHANGED <<files, open, linked, received, buffer, created, disturbed, unflushed>>

\* OnFtpWildcardChunkEnd: the file is closed.
ChunkEnd(r) ==
    /\ pc[r] = "perform" /\ job[r].kind = "FtpWildcard"
    /\ r \in open /\ received[r] = Chunks
    /\ CloseStream(r)
    /\ UNCHANGED <<pc, job, canceled, code, handle_vars, entry, received, created,
                   disturbed>>

\* The write callback: the stream keeps the piece or passes on all it has.
Write(r) ==
    /\ pc[r] = "perform" /\ r \in open /\ ~Uploads(r)
    /\ received[r] < Chunks
    /\ received' = [received EXCEPT ![r] = @ + 1]
    /\ LET pieces == buffer[r] \cup {received[r] + 1} IN
          \/ buffer' = [buffer EXCEPT ![r] = pieces] /\ UNCHANGED files
          \/ buffer' = [buffer EXCEPT ![r] = {}] /\ files' = Flushed(r, pieces)
    /\ UNCHANGED <<pc, job, canceled, code, handle_vars, open, linked, entry,
                   created, disturbed, unflushed>>

\* Mutant of WriteFails: the callback does not look at the stream and curl goes on.
WriteFailureUnnoticed(r) ==
    /\ pc[r] = "perform" /\ r \in open /\ ~Uploads(r)
    /\ received[r] < Chunks
    /\ received' = [received EXCEPT ![r] = @ + 1]
    /\ buffer' = [buffer EXCEPT ![r] = {}]
    /\ UNCHANGED <<pc, job, canceled, code, handle_vars, files, open, linked, entry,
                   created, disturbed, unflushed>>

\* The write callback finds the stream bad (write_failed) and makes curl give up.
WriteFails(r) ==
    /\ r \in open /\ ~Uploads(r) /\ received[r] < Chunks
    /\ EndWithError(r)
    /\ buffer' = [buffer EXCEPT ![r] = {}]
    /\ UNCHANGED <<files, open, linked, entry, received, created, disturbed, unflushed>>

\* curl_easy_perform returns CURLE_OK: everything was received, or sent.
TransferSucceeds(r) ==
    /\ Goto(r, "perform", "close")
    /\ \/ Uploads(r) \/ job[r].kind \in {"Http", "FtpUpload"}
       \/ job[r].kind \in {"HttpDownload", "FtpDownload"} /\ received[r] = Chunks
       \/ job[r].kind = "FtpWildcard" /\ r \notin open /\ entry[r] = Len(job[r].files)
    /\ Answer(r, "OK")
    /\ UNCHANGED <<job, canceled, handle_vars, file_vars>>

-----------------------------------------------------------------------------
(* After curl_easy_perform. *)

\* Mutant of CloseFile: CURLOPT_WILDCARDMATCH stays set.
CloseFileKeepsOptions(r) ==
    /\ Goto(r, "close", "decide")
    /\ CloseStream(r)
    /\ UNCHANGED <<job, canceled, code, handle_vars, entry, received, created, disturbed>>

\* The stream is closed; FtpDownloadWildcard takes its options off the handle.
CloseFile(r) ==
    /\ Goto(r, "close", "decide")
    /\ CloseStream(r)
    /\ options' = [options EXCEPT ![handle[r]] =
                      IF job[r].kind = "FtpWildcard" THEN @ \ {"wildcard"} ELSE @]
    /\ UNCHANGED <<job, canceled, code, handle, home, idle, entry, received, created,
                   disturbed>>

\* Mutant of Decide: only a failed transfer removes its files.
DecideKeepsCancelled(r) ==
    /\ Answer(r, IF r \in canceled THEN "REQUEST_CANCELLED" ELSE code[r])
    /\ Goto(r, "decide", IF code[r] = "OK" THEN "return" ELSE "remove")
    /\ UNCHANGED <<job, canceled, handle_vars, file_vars>>

\* The flag is read for the last time: a cancelled or failed transfer removes what
\* it created.
Decide(r) ==
    /\ LET c == IF r \in canceled THEN "REQUEST_CANCELLED" ELSE code[r] IN
          /\ Answer(r, c)
          /\ Goto(r, "decide", IF c = "OK" THEN "return" ELSE "remove")
    /\ UNCHANGED <<job, canceled, handle_vars, file_vars>>

\* RemoveFileIfExists, RemoveFilesIfExist: one file after the other.
RemoveFile(r) ==
    /\ pc[r] = "remove" /\ created[r] # <<>>
    /\ LET p == Head(created[r]) IN
          /\ files' = [files EXCEPT ![p] = None]
          /\ linked' = {q \in linked : Current(q) # p}
    /\ created' = [created EXCEPT ![r] = Tail(@)]
    /\ UNCHANGED <<pc, job, canceled, code, handle_vars, open, entry, received,
                   buffer, disturbed, unflushed>>

RemovedAll(r) ==
    /\ Goto(r, "remove", "return")
    /\ created[r] = <<>>
    /\ UNCHANGED <<job, canceled, code, handle_vars, file_vars>>

\* Mutant of ReturnSession: the holder was moved from before it is returned.
ReturnSessionMoved(r) ==
    /\ Goto(r, "return", "done")
    /\ handle' = [handle EXCEPT ![r] = None]
    /\ idle' = idle \cup {handle'[r]}
    /\ UNCHANGED <<job, canceled, code, home, options, file_vars>>

\* ReturnSession: the handle goes to the cache as it is.
ReturnSession(r) ==
    /\ Goto(r, "return", "done")
    /\ idle' = idle \cup {handle[r]}
    /\ handle' = [handle EXCEPT ![r] = None]
    /\ UNCHANGED <<job, canceled, code, home, options, file_vars>>

-----------------------------------------------------------------------------

\* ezhttp_cancel_request, at any time until the worker is done.
Cancel(r) ==
    /\ pc[r] # "done"
    /\ canceled' = canceled \cup {r}
    /\ UNCHANGED <<pc, job, code, handle_vars, file_vars>>

Perform(r) ==
    \/ TransferFails(r) \/ ChunkSkip(r) \/ ChunkBegin(r) \/ ChunkFails(r)
    \/ ChunkEnd(r) \/ Write(r) \/ WriteFails(r) \/ TransferSucceeds(r)

Transfer(r) ==
    \/ GetSession(r) \/ PrepareFails(r) \/ CancelBeforeTransfer(r)
    \/ StartTransfer(r) \/ StartHttpDownload(r) \/ OpenFtpDownload(r)
    \/ CancelOpened(r) \/ StartFtpDownload(r) \/ Perform(r)
    \/ CloseFile(r) \/ Decide(r) \/ RemoveFile(r) \/ RemovedAll(r)
    \/ ReturnSession(r)

\* Every worker is done.
Terminated == (\A r \in Request : pc[r] = "done") /\ UNCHANGED vars

Next == Terminated \/ \E r \in Request : Transfer(r) \/ Cancel(r)

Spec == Init /\ [][Next]_vars

-----------------------------------------------------------------------------
(* Correctness *)

\* Types of the workers' state, of the handles and of the files.
TypeOK ==
    /\ pc \in [Request -> Label]
    /\ job \in [Request -> Job \cup {None}]
    /\ canceled \subseteq Request
    /\ code \in [Request -> ErrorCode]
    /\ handle \in [Request -> Handle \cup {None}]
    /\ home \in [Handle -> Host \cup {None}]
    /\ idle \subseteq Handle
    /\ options \in [Handle -> SUBSET Option]
    /\ files \in [Path -> Content \cup {None}]
    /\ linked \subseteq open /\ open \subseteq Request
    /\ entry \in [Request -> Nat]
    /\ received \in [Request -> 0 .. Chunks]
    /\ buffer \in [Request -> SUBSET Piece]
    /\ created \in [Request -> Seq(Path)]
    /\ disturbed \subseteq Request \X Path
    /\ unflushed \subseteq Request \X Path

Downloads(r) == job[r].kind \in {"HttpDownload", "FtpDownload", "FtpWildcard"}

\* A download that reports success has left each of its files on disk, complete
\* and entirely its own, whatever other transfers and cancels did meanwhile;
\* except files that another transfer used at the same time or later, and files
\* whose last write failed inside close(), which the code does not look at.
SuccessMeansComplete ==
    \A r \in Request : pc[r] = "done" /\ code[r] = "OK" /\ Downloads(r) =>
        \A i \in 1 .. Len(job[r].files) :
            LET p == job[r].files[i] IN
            p # Skipped /\ <<r, p>> \notin disturbed \cup unflushed
                => files[p] = Complete(r)

\* A download that was cancelled or that failed, at whatever moment, leaves no
\* file that it created: neither an empty one nor a part, and of a wildcard
\* download none of the files.
FailureLeavesNothing ==
    \A r \in Request : pc[r] = "done" /\ code[r] # "OK" =>
        \A p \in Path : files[p] # None => files[p].by # r

\* The options a request asks for.
Wanted(j) == Asked(j) \cup (IF IsFtp(j) THEN FtpOptions(j) ELSE {})

\* The options that matter to a transfer.  FTP has no use for the parts of an HTTP
\* message, HTTP none for CURLOPT_USE_SSL and CURLOPT_FTP_CREATE_MISSING_DIRS.
Seen(j) ==
    Option \ (IF IsFtp(j)
              THEN {"user_agent", "url_parameters", "form_payload", "body", "header", "cookies"}
              ELSE {"use_ssl", "create_dirs"})

\* The options that a transfer switches off before it starts, if it does not ask for
\* them itself.
Resets(j) ==
    (IF Linux THEN {"no_verify"} ELSE {}) \cup (IF IsFtp(j) THEN {} ELSE {"upload"})

\* No FTP upload shares its host with an FTP download.
UploadsApart(jobs) ==
    \A i, j \in jobs : i.host = j.host /\ i.kind = "FtpUpload"
        => j.kind \notin {"FtpDownload", "FtpWildcard"}

\* What a job leaves on a handle, every job of the same host asks for too, resets
\* or has no use for: the host's jobs hold the same timeouts, its HTTP jobs the same
\* settings and its FTP jobs the same require_secure, uploads are apart, a proxy or a
\* login asked for over HTTP keeps FTP off the host, and outside Linux require_secure
\* keeps HTTP off it.
SeparateUse(jobs) ==
    \A i, j \in jobs : i.host = j.host =>
        (Wanted(i) \ {"wildcard"}) \cap Seen(j) \subseteq Wanted(j) \cup Resets(j)

\* A transfer runs with the options that its own request asked for and with no other
\* that matters to it, although its handle may come from the cache with all that
\* earlier requests put on it, were they completed, failed or cancelled.
OwnOptions ==
    \A r \in Request : pc[r] = "perform" =>
        options[handle[r]] \cap Seen(job[r]) = Wanted(job[r])
=============================================================================
