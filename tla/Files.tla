---- MODULE Files ----
(***************************************************************************)
(* Files of one object: attaching, with the type stored once from header,  *)
(* name and content (internal/server/handlers_files.go, files_mime.go),    *)
(* serving, variants, offload and delete, and the account avatar           *)
(* (handlers_account_icon.go).  The rows, the cached bytes and the network *)
(* copy are the SDK's, modelled from how the handlers use and describe     *)
(* them.                                                                   *)
(*                                                                         *)
(* A content is what the sniffer finds in its first bytes, an extension    *)
(* stands for the name.                                                    *)
(***************************************************************************)
EXTENDS Naturals, FiniteSets

CONSTANTS Files,      \* file ids
          Headers, Extensions, Contents,  \* what may be attached
          Thumb,      \* the variants attached
          Readers,    \* downloads in flight
          Avatars,    \* contents uploaded as an avatar
          MaxSteps    \* operations in all

Uploads == [header : Headers, ext : Extensions, content : Contents]

(* Types: what each sniffed content is, and whether it descends from text. *)
Sniffed == [png |-> "image/png", pdf |-> "application/pdf", html |-> "text/html",
            plain |-> "text/plain", json |-> "application/json", svg |-> "image/svg+xml",
            bytecode |-> "application/x-bytecode.python",
            pycText |-> "application/x-bytecode.python",
            none |-> "", empty |-> ""]
Textual == {"html", "plain", "json", "svg"}
TextTypes == {"text/html", "text/plain", "application/json", "image/svg+xml", "text/markdown"}

textByExt == [md |-> "text/markdown", html |-> "text/html", svg |-> "image/svg+xml"]
weakTextTypes == {"text/html"}
weakBinaryTypes == {"application/x-bytecode.python"}
unsetContentTypes == {"", "application/octet-stream"}
avatarTypes == {"image/png"}

(* 0 is no file's id, and the sniffer has a verdict on every content.       *)
ASSUME FilesAssumption ==
    /\ 0 \notin Files /\ Thumb # "" /\ MaxSteps \in Nat
    /\ Contents \cup Avatars \subseteq DOMAIN Sniffed

VARIABLES rows,     \* file -> its row
          live,     \* the files listed
          deleted,  \* the ids of those deleted: an id is never given twice
          local,    \* the files whose bytes are on this device
          durable,  \* the files whose bytes the network has
          owner,    \* the object is there
          reads,    \* reader -> its download
          icon,     \* the avatar's content, "" for none
          answers,  \* what downloads were answered with
          steps     \* operations so far

attached == <<rows, live, deleted, local, durable, owner, reads, icon, answers, steps>>

NoRow == [of |-> 0, variant |-> "", mime |-> ""]
NoRead == [at |-> "idle", file |-> 0, variant |-> "", row |-> 0]

FilesInit ==
    /\ rows = [f \in Files |-> NoRow] /\ live = {} /\ deleted = {}
    /\ local = {} /\ durable = {} /\ owner = TRUE
    /\ reads = [r \in Readers |-> NoRead]
    /\ icon = "" /\ answers = {} /\ steps = 0

Tick == steps < MaxSteps /\ steps' = steps + 1

----------------------------------------------------------------------------
(* The type of an upload                                                   *)

mediaType(header) == IF header \in unsetContentTypes THEN "" ELSE header

(* The name decides among text formats only.                               *)
ByName(ext, other) == IF ext \in DOMAIN textByExt THEN textByExt[ext] ELSE other

(* A binary verdict that text can carry yields to the name or to content   *)
(* with no NUL in it, unless the name claims the format.                   *)
WeakBinary(ext, content) ==
    IF ext = "pyc" THEN Sniffed[content]
    ELSE ByName(ext, IF content = "pycText" THEN "text/plain" ELSE Sniffed[content])

(* Mutant of resolveMime: the name is asked before the content. *)
resolveMimeName(u) ==
    IF mediaType(u.header) # "" THEN mediaType(u.header) ELSE ByName(u.ext, Sniffed[u.content])

resolveMime(u) ==
    LET declared == mediaType(u.header)
        sniffed  == Sniffed[u.content]
    IN IF declared = "text/plain" THEN ByName(u.ext, declared)
       ELSE IF declared # "" THEN declared
       ELSE IF u.content \in {"empty", "none"} THEN ""
       ELSE IF u.content \in Textual
            THEN ByName(u.ext, IF sniffed \in weakTextTypes THEN "text/plain" ELSE sniffed)
       ELSE IF sniffed \in weakBinaryTypes THEN WeakBinary(u.ext, u.content)
       ELSE sniffed

----------------------------------------------------------------------------
(* fileAttach: variant and original given together, the original a file of *)
(* this object; a deleted owner is refused before the body is read; the    *)
(* type is resolved before the bytes are streamed into the store.          *)
fileAttach(f, u, of, v) ==
    /\ Tick /\ owner /\ f \notin live \cup deleted
    /\ (v = "") <=> (of = 0)
    /\ of # 0 => of \in live /\ rows[of].of = 0
    /\ rows' = [rows EXCEPT ![f] = [of |-> of, variant |-> v, mime |-> resolveMime(u)]]
    /\ live' = live \cup {f} /\ local' = local \cup {f}
    /\ UNCHANGED <<deleted, durable, owner, reads, icon, answers>>

(* The SDK's background backup of a file, and a pin that fetches it back.  *)
Backup(f) ==
    /\ f \in (live \cap local) \ durable
    /\ durable' = durable \cup {f}
    /\ UNCHANGED <<rows, live, deleted, local, owner, reads, icon, answers, steps>>
filePin(f) ==
    /\ Tick /\ f \in (live \cap durable) \ local
    /\ local' = local \cup {f}
    /\ UNCHANGED <<rows, live, deleted, durable, owner, reads, icon, answers>>

(* fileOffload: refused while the local bytes are the only copy.           *)
fileOffload(f) ==
    /\ Tick /\ f \in live \cap local \cap durable
    /\ local' = local \ {f}
    /\ UNCHANGED <<rows, live, deleted, durable, owner, reads, icon, answers>>

(* fileCacheFree and fileCacheSweep drop what is backed up or no file's.   *)
fileCacheFree(S) ==
    /\ Tick /\ S # {} /\ S \subseteq local /\ \A f \in S : f \in durable \/ f \notin live
    /\ local' = local \ S
    /\ UNCHANGED <<rows, live, deleted, durable, owner, reads, icon, answers>>

Removed(S) ==
    /\ rows' = [f \in Files |-> IF f \in S THEN NoRow ELSE rows[f]]
    /\ live' = live \ S /\ deleted' = deleted \cup S

(* fileDelete: the row and its variants' rows in one change; an object     *)
(* deleted takes its files with it.                                        *)
fileDelete(f) ==
    /\ Tick /\ f \in live
    /\ Removed({f} \cup {g \in live : rows[g].of = f})
    /\ UNCHANGED <<local, durable, owner, reads, icon, answers>>
OwnerDeleted ==
    /\ Tick /\ owner /\ owner' = FALSE
    /\ Removed(live)
    /\ UNCHANGED <<local, durable, reads, icon, answers>>

----------------------------------------------------------------------------
(* fileContent                                                             *)

Siblings(f, v) == {g \in live : rows[g].of = f /\ rows[g].variant = v}
Served(f, v) == IF v = "" THEN {f} ELSE Siblings(f, v)

(* Open: the bytes of the file or of its variant, if they can be had.      *)
fileContentOpen(r, f, v) ==
    /\ reads[r].at = "idle" /\ Tick
    /\ f \in live
    /\ \E g \in Served(f, v) :
         /\ g \in local \cup durable
         /\ reads' = [reads EXCEPT ![r] = [at |-> "open", file |-> f, variant |-> v, row |-> g]]
    /\ UNCHANGED <<rows, live, deleted, local, durable, owner, icon, answers>>

ContentType(mime) == IF mime = "" THEN "application/octet-stream" ELSE mime

(* Mutant of HeaderRow: the original's headers go with every variant. *)
HeaderRowOriginal(r) == {reads[r].file}

(* The row whose headers go with the bytes: the original's, unless the     *)
(* variant's is still listed.                                              *)
HeaderRow(r) ==
    LET f == reads[r].file
        s == Siblings(f, reads[r].variant)
    IN IF reads[r].variant = "" \/ s = {} THEN {f} ELSE s

(* What is doubtful of an answer: its bytes were deleted since it was       *)
(* opened, or another variant of the file goes by the same name.            *)
Doubts(file, variant, row) ==
    {why \in {"raced", "twin"} :
        \/ why = "raced" /\ row \notin live
        \/ why = "twin" /\ variant # "" /\ Siblings(file, variant) \ {row} # {}}

(* Get, findVariantInfo and the answer: not found if the file is gone.      *)
fileContentServe(r) ==
    /\ reads[r].at = "open"
    /\ reads' = [reads EXCEPT ![r] = NoRead]
    /\ \/ reads[r].file \notin live /\ UNCHANGED answers
       \/ /\ reads[r].file \in live
          /\ \E h \in HeaderRow(r) :
               answers' = answers \cup
                   {[bytes |-> reads[r].row, headers |-> h, type |-> ContentType(rows[h].mime),
                     doubts |-> Doubts(reads[r].file, reads[r].variant, reads[r].row)]}
    /\ UNCHANGED <<rows, live, deleted, local, durable, owner, icon, steps>>

----------------------------------------------------------------------------
(* The avatar: refused unless the content is a raster image; another       *)
(* account's may have been stored by any program.                          *)
imageType(content) == <<Sniffed[content], Sniffed[content] \in avatarTypes>>

accountIconPut(content) ==
    /\ Tick /\ imageType(content)[2]
    /\ icon' = content
    /\ UNCHANGED <<rows, live, deleted, local, durable, owner, reads, answers>>
ContactIcon(content) ==
    /\ Tick /\ icon' = content
    /\ UNCHANGED <<rows, live, deleted, local, durable, owner, reads, answers>>
accountIconDelete ==
    /\ Tick /\ icon # "" /\ icon' = ""
    /\ UNCHANGED <<rows, live, deleted, local, durable, owner, reads, answers>>

(* Mutant of serveIcon: the type the sniffer names is served whatever it is. *)
serveIconSniffed(content) == Sniffed[content]

serveIcon(content) ==
    IF imageType(content)[2] THEN imageType(content)[1] ELSE "application/octet-stream"

----------------------------------------------------------------------------
FilesNext ==
    \/ \E f \in Files, u \in Uploads :
          fileAttach(f, u, 0, "") \/ \E g \in Files : fileAttach(f, u, g, Thumb)
    \/ \E f \in Files : Backup(f) \/ filePin(f) \/ fileOffload(f) \/ fileDelete(f)
    \/ \E S \in SUBSET Files : fileCacheFree(S)
    \/ OwnerDeleted
    \/ \E r \in Readers, f \in Files, v \in {"", Thumb} : fileContentOpen(r, f, v)
    \/ \E r \in Readers : fileContentServe(r)
    \/ \E c \in Avatars : accountIconPut(c) \/ ContactIcon(c)
    \/ accountIconDelete

FilesSpec == FilesInit /\ [][FilesNext]_attached

----------------------------------------------------------------------------
(* The types a row may hold: declared, sniffed, by the name, or none.       *)
MimeTypes ==
    Headers \cup {Sniffed[c] : c \in Contents}
        \cup {textByExt[e] : e \in DOMAIN textByExt} \cup {"text/plain", ""}

(* FilesTypeOK: rows and downloads refer to files, the avatar's content is  *)
(* one that was uploaded.                                                   *)
FilesTypeOK ==
    /\ rows \in [Files -> [of : Files \cup {0}, variant : {"", Thumb}, mime : MimeTypes]]
    /\ live \cup deleted \cup local \cup durable \subseteq Files
    /\ owner \in BOOLEAN /\ icon \in Avatars \cup {""} /\ steps \in 0..MaxSteps
    /\ reads \in [Readers -> [at : {"idle", "open"}, file : Files \cup {0},
                              variant : {"", Thumb}, row : Files \cup {0}]]
    /\ \A a \in answers : {a.bytes, a.headers} \subseteq Files

(* ServedHonest (handlers_files.go fileContent, files_mime.go resolveMime,  *)
(* handlers_account_icon.go serveIcon): a download carries the stored type  *)
(* of the very row whose bytes it serves, unless a delete raced it or two   *)
(* variants go by one name; no name and no guess of the sniffer makes       *)
(* binary content text or plain text a page; a row without its original     *)
(* never stays; and an avatar, whoever stored it, is served as a raster     *)
(* image or as bytes.                                                       *)
ServedHonest ==
    /\ \A a \in answers : a.doubts = {} => a.headers = a.bytes
    /\ \A u \in Uploads : mediaType(u.header) = "" =>
         /\ u.content \in {"png", "pdf"} => resolveMime(u) \notin TextTypes
         /\ resolveMime(u) = "text/html" =>
              u.ext = "html" /\ u.content \in Textual \cup {"pycText", "bytecode"}
    /\ \A f \in live : rows[f].of # 0 => rows[f].of \in live
    /\ icon # "" => serveIcon(icon) \in avatarTypes \cup {"application/octet-stream"}

(* FilesHonest: what is served is honest over well-typed state.             *)
FilesHonest == FilesTypeOK /\ ServedHonest
=============================================================================
