--------------------------- MODULE MCFileTransfer ---------------------------
(* Model-checking instances of FileTransfer. *)
EXTENDS FileTransfer, TLC

CONSTANTS p1, p2, web, ftp, up

J(kind, list, host, secure, asks) ==
    [kind |-> kind, files |-> list, host |-> host, secure |-> secure, asks |-> asks]

\* Uploads and secure transfers have a host of their own, and the jobs of a host
\* agree on what matters to them all.
SeparateHosts ==
    {J("Http", <<>>, up, FALSE, {}),
     J("HttpDownload", <<p1>>, web, FALSE, {"timeout", "user_agent"}),
     J("FtpUpload", <<p1>>, up, TRUE, {"user_agent"}),
     J("FtpDownload", <<p1>>, web, FALSE, {"timeout"}),
     J("FtpWildcard", <<p1, Skipped, p2>>, web, FALSE, {"timeout"})}

\* One FTP server, for uploads and downloads.
OneHost ==
    {J("FtpUpload", <<p1>>, ftp, FALSE, {}), J("FtpDownload", <<p2>>, ftp, FALSE, {})}

\* The first set of jobs keeps handles apart, the second does not.
ASSUME JobSets == /\ SeparateUse(SeparateHosts) /\ UploadsApart(SeparateHosts)
                  /\ ~SeparateUse(OneHost) /\ ~UploadsApart(OneHost)

Symmetry == Permutations(Handle)
=============================================================================
