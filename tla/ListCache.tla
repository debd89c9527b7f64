------------------------------ MODULE ListCache ------------------------------
(***************************************************************************)
(* CacheManager (cache/cache_manager.cpp): every remote list has a body    *)
(* and a metadata file.  download() asks the server with the ETag of the   *)
(* metadata, writes both to temporary files whose names are fixed, and     *)
(* renames first the body, then the metadata.                              *)
(*                                                                         *)
(* The server has some version of a list at every request; it may go back  *)
(* to an earlier one, and two versions may have the same body.             *)
(***************************************************************************)
EXTENDS Naturals, Sequences

CONSTANTS
    None,
    Callers,    \* the threads that may download
    Lists,
    Etags,      \* Etags[l]: the versions of list l
    BodyOf,     \* BodyOf[e]: the body of a version
    MaxTrouble  \* how many steps fail, and how often the daemon dies

VARIABLES
    files,   \* files[l]: the body and the metadata file
    tmp,     \* tmp[l]: the temporary files
    dl,      \* dl[c]: the download() that a caller is in
    cut,     \* history: the lists whose files may disagree since a step between
             \* or within the writes of the two failed or the daemon died there
    trouble

cacheVars == <<files, tmp, dl, cut, trouble>>

(* What a write that ran out of space only when it was closed leaves       *)
Torn == "torn"

NoFiles == [body |-> None, meta |-> None]

NoDownload == [at |-> "none", list |-> None, got |-> None]

Answers == {"updated", "unchanged", "failed"}

CacheInit ==
    /\ files = [l \in Lists |-> NoFiles]
    /\ tmp = [l \in Lists |-> NoFiles]
    /\ dl = [c \in Callers |-> NoDownload]
    /\ cut = {}
    /\ trouble = 0

Trouble == trouble < MaxTrouble /\ trouble' = trouble + 1

Answer(c, status) == dl' = [dl EXCEPT ![c].at = status]

(* The conditional request.  A 304 needs the ETag of the server's version; *)
(* a body equal to the cached one changes neither file.                    *)
Ask(c) ==
    LET l == dl[c].list
    IN  /\ dl[c].at = "ask"
        /\ \/ /\ \E e \in Etags[l] :
                    IF e = files[l].meta \/ BodyOf[e] = files[l].body
                    THEN Answer(c, "unchanged")
                    ELSE dl' = [dl EXCEPT ![c].at = "write", ![c].got = e]
              /\ UNCHANGED trouble
           \/ Trouble /\ Answer(c, "failed")
        /\ UNCHANGED <<files, tmp, cut>>

(* Both temporary files.  A stream that fails when it is closed goes       *)
(* unnoticed.                                                              *)
Write(c) ==
    LET l == dl[c].list
    IN  /\ dl[c].at = "write"
        /\ \/ /\ tmp' = [tmp EXCEPT ![l] = [body |-> BodyOf[dl[c].got], meta |-> dl[c].got]]
              /\ Answer(c, "body")
              /\ UNCHANGED <<cut, trouble>>
           \/ /\ Trouble
              /\ tmp' = [tmp EXCEPT ![l] = NoFiles]
              /\ Answer(c, "failed")
              /\ UNCHANGED cut
           \/ /\ Trouble
              /\ tmp' = [tmp EXCEPT ![l] = [body |-> Torn, meta |-> dl[c].got]]
              /\ Answer(c, "body")
              /\ cut' = cut \cup {l}
        /\ UNCHANGED files

(* The first rename                                                        *)
RenameBody(c) ==
    LET l == dl[c].list
    IN  /\ dl[c].at = "body"
        /\ \/ /\ tmp[l].body # None
              /\ files' = [files EXCEPT ![l].body = tmp[l].body]
              /\ tmp' = [tmp EXCEPT ![l].body = None]
              /\ Answer(c, "meta")
              /\ UNCHANGED trouble
           \/ /\ (tmp[l].body = None /\ UNCHANGED trouble) \/ Trouble
              /\ tmp' = [tmp EXCEPT ![l] = NoFiles]
              /\ Answer(c, "failed")
              /\ UNCHANGED files
        /\ UNCHANGED cut

(* The second rename: the download failed although the body is replaced    *)
(* when this one fails.                                                    *)
RenameMeta(c) ==
    LET l == dl[c].list
    IN  /\ dl[c].at = "meta"
        /\ \/ /\ tmp[l].meta # None
              /\ files' = [files EXCEPT ![l].meta = tmp[l].meta]
              /\ tmp' = [tmp EXCEPT ![l].meta = None]
              /\ Answer(c, "updated")
              /\ cut' = IF files[l].body = Torn THEN cut ELSE cut \ {l}
              /\ UNCHANGED trouble
           \/ /\ (tmp[l].meta = None /\ UNCHANGED trouble) \/ Trouble
              /\ tmp' = [tmp EXCEPT ![l] = NoFiles]
              /\ Answer(c, "failed")
              /\ cut' = cut \cup {l}
              /\ UNCHANGED files

Download(c) == Ask(c) \/ Write(c) \/ RenameBody(c) \/ RenameMeta(c)

(* The daemon dies: what is in the file system stays.                      *)
DownloadsDie ==
    /\ Trouble
    /\ dl' = [c \in Callers |-> NoDownload]
    /\ cut' = cut \cup {dl[c].list : c \in {d \in Callers : dl[d].at = "meta"}}
    /\ UNCHANGED <<files, tmp>>

(* The ETag that the next request sends belongs to the body that is        *)
(* cached, so that "304" means the list is current.  Excepted: lists whose *)
(* last write was cut off between the two files (cache_manager.cpp:139).   *)
MetaDescribesBody ==
    \A l \in Lists \ cut :
        \/ files[l].meta = None
        \/ files[l].body = BodyOf[files[l].meta]
        \/ \E c \in Callers : dl[c].list = l /\ dl[c].at = "meta"
==============================================================================
