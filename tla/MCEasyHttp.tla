----------------------------- MODULE MCEasyHttp -----------------------------
(* Model-checking instances of EasyHttp. *)
EXTENDS EasyHttp

Mixed == [r \in Request |-> IF r = 1 THEN "Ftp"
                            ELSE IF r = 2 THEN "HttpDownload" ELSE "Http"]
=============================================================================
