----------------------------- MODULE BookFiles -----------------------------
(***************************************************************************)
(* The files of books: UploadBookFile, BatchUploadBookFiles, ListBookFiles,*)
(* DownloadBookFile and DeleteBookFile (backend/handler/file_handler.go)   *)
(* over FileService (backend/service/file_service.go), the book_files      *)
(* table (backend/repository/bookfile.go) and the upload directory         *)
(* (backend/storage/local.go).                                             *)
(*                                                                         *)
(* A file is two things no transaction ties together: a file on disk and a *)
(* row.  An upload writes the disk and then the row, a deletion removes    *)
(* the disk file and then the row, a download reads the row and then opens *)
(* the disk file.  Every one of these is a step here; other calls run      *)
(* between them, each may fail, and the process may die between them.      *)
(* Roles are left out: the role interceptor is modelled in BookReview.     *)
(***************************************************************************)
EXTENDS Naturals, FiniteSets

CONSTANTS
    Books,      \* book ids
    Files,      \* what a fresh UUID can be: the name on disk and the row it gets
    Calls,      \* goroutines: how many RPCs can be in flight
    Entries,    \* the uploads clients try: [format, size, type]
    MaxBatch,   \* the longest batch a client sends
    Faults,     \* TRUE: the disk and the database fail and the process restarts
    None

FileTypes == {"print", "digital", "audio", "video"}
Formats == {"pdf", "epub", "mp3", "fLag", "m4a", "mp4", "other"}
\* Up to the 4 MB a gRPC server receives by default; up to 500 MB; more.
Sizes == {"small", "large", "oversize"}

ASSUME EntriesAssumption ==
    Entries \subseteq [format : Formats, size : Sizes, type : FileTypes]
ASSUME MaxBatchAssumption == MaxBatch \in Nat \ {0}
ASSUME FilesFaultsAssumption == Faults \in BOOLEAN

VARIABLES
    disk,       \* what the upload directory holds under each name
    row,        \* the row of each file: [book, type], or None
    books,      \* the books that exist
    minted,     \* UUIDs generated so far
    told,       \* the file ids clients have been given
    pc,         \* control point of each call
    req,        \* its request
    pos,        \* the entry of its request it is at
    data,       \* what a download has opened
    ans,        \* the files its answer names
    err,        \* the error it returns, "nil" when it has none
    (* History, read by no guard: *)
    gone,       \* files whose row has been deleted
    torn,       \* files whose deletion was cut short after the disk
    spilt       \* files whose upload was cut short after the disk

storeVars == <<disk, row, books>>
history == <<gone, torn, spilt>>
vars == <<disk, row, books, minted, told, pc, req, pos, data, ans, err, gone, torn, spilt>>

Rows == [book : Books, type : FileTypes]
ASSUME BookFilesNoneAssumption == None \notin Rows

Answers == SUBSET [file : Files, type : FileTypes]
Errors == {"nil", "ErrTransport", "ErrInvalidFileType", "ErrFileTooLarge", "ErrStorage",
           "ErrRecord", "ErrNotFound", "ErrOpen", "ErrDatabase"}

\* An upload is a batch of one; the validator refuses an empty file in either.
\* names are the UUIDs BuildPath will generate.
UploadRequests ==
    UNION {[op : {"upload"}, book : Books, files : [1..n -> Entries], names : [1..n -> Files]] :
              n \in 1..MaxBatch}
FileRequests == [op : {"delete", "download"}, file : Files]
ListRequests == [op : {"list"}, book : Books]
Requests == UploadRequests \cup FileRequests \cup ListRequests

\* The control points: of an upload, of a call about one file, and of a list.
UploadPoints == {"next", "create", "copy", "insert", "undo"}
FilePoints == {"lookup", "unlink", "remove", "open", "stream"}
Points == {"idle", "list", "done"} \cup UploadPoints \cup FilePoints

-----------------------------------------------------------------------------
(* What an upload has to pass.                                             *)

\* detectContentType: the leading bytes it knows.  An MP4 container begins
\* with its length, so neither M4A nor MP4 is recognised; the bytes "fLag",
\* which begin no audio format, are taken for MPEG-4 audio.
MimeOf(format) ==
    CASE format = "pdf"  -> "application/pdf"
      [] format = "epub" -> "application/epub+zip"
      [] format = "mp3"  -> "audio/mpeg"
      [] format = "fLag" -> "audio/mp4"
      [] OTHER           -> "application/octet-stream"

\* ExtFromMimeType; the file name is always "file", which has no extension.
ExtOf(mime) ==
    CASE mime = "application/pdf"      -> "pdf"
      [] mime = "application/epub+zip" -> "epub"
      [] mime = "audio/mpeg"           -> "mp3"
      [] mime = "audio/mp4"            -> "m4a"
      [] mime = "video/mp4"            -> "mp4"
      [] OTHER                         -> "bin"

AllowedExts == {"pdf", "epub", "mp3", "m4a", "mp4"}

\* UploadFile's checks, "nil" when the entry passes.
Admission(e) ==
    IF e.size = "oversize" THEN "ErrFileTooLarge"
    ELSE IF ExtOf(MimeOf(e.format)) \notin AllowedExts THEN "ErrInvalidFileType"
    ELSE "nil"

\* The gRPC server is built without MaxRecvMsgSize.
TransportAdmits(r) == \A i \in DOMAIN r.files : r.files[i].size = "small"

\* Fault: the last entry of a request is left out.
LastEntryMinusOne(r) == Cardinality(DOMAIN r.files) - 1

LastEntry(r) == Cardinality(DOMAIN r.files)

\* The row InsertRow writes for entry i of r.
RowOf(r, i) == [book |-> r.book, type |-> r.files[i].type]

\* The book_file_book join table, by which files are listed: no code writes it.
BookFileBook == {}
ListByBookID(b) == {f \in Files : row[f] # None /\ <<f, b>> \in BookFileBook}

\* Fault: the answer names the kind of file, not the edition.
AnswerOfKind(f) == [file |-> f, type |-> "pdf"]

\* protoBookFileFromResult names every file a print edition.
AnswerOf(f) == [file |-> f, type |-> "print"]

-----------------------------------------------------------------------------
Init ==
    /\ disk = [f \in Files |-> "none"]
    /\ row = [f \in Files |-> None]
    /\ books = Books
    /\ minted = {} /\ told = {}
    /\ pc = [c \in Calls |-> "idle"]
    /\ req = [c \in Calls |-> None]
    /\ pos = [c \in Calls |-> 1]
    /\ data = [c \in Calls |-> "none"]
    /\ ans = [c \in Calls |-> {}]
    /\ err = [c \in Calls |-> "nil"]
    /\ gone = {} /\ torn = {} /\ spilt = {}

GoTo(c, next) == pc' = [pc EXCEPT ![c] = next] /\ UNCHANGED <<ans, err>>

Answer(c, files) ==
    /\ pc' = [pc EXCEPT ![c] = "done"]
    /\ ans' = [ans EXCEPT ![c] = {AnswerOf(f) : f \in files}]
    /\ UNCHANGED err

Fail(c, e) ==
    /\ pc' = [pc EXCEPT ![c] = "done"]
    /\ err' = [err EXCEPT ![c] = e]
    /\ UNCHANGED ans

\* The file a call is at.
Current(c) == IF req[c].op = "upload" THEN req[c].names[pos[c]] ELSE req[c].file

\* UploadBookFile or BatchUploadBookFiles.  Its book need not exist.
ReceiveUpload(c) ==
    /\ pc[c] = "idle"
    /\ \E r \in UploadRequests :
          /\ \A i \in DOMAIN r.names : r.names[i] \notin minted
          /\ \A i, j \in DOMAIN r.names : r.names[i] = r.names[j] => i = j
          /\ req' = [req EXCEPT ![c] = r]
          /\ minted' = minted \cup {r.names[i] : i \in DOMAIN r.names}
          /\ IF TransportAdmits(r) THEN GoTo(c, "next") ELSE Fail(c, "ErrTransport")
    /\ UNCHANGED <<storeVars, told, pos, data, history>>

\* DeleteBookFile or DownloadBookFile, of an id the client has been given.
ReceiveFile(c) ==
    /\ pc[c] = "idle"
    /\ \E r \in FileRequests : r.file \in told /\ req' = [req EXCEPT ![c] = r]
    /\ GoTo(c, "lookup")
    /\ UNCHANGED <<storeVars, minted, told, pos, data, history>>

ReceiveList(c) ==
    /\ pc[c] = "idle"
    /\ \E r \in ListRequests : req' = [req EXCEPT ![c] = r]
    /\ GoTo(c, "list")
    /\ UNCHANGED <<storeVars, minted, told, pos, data, history>>

-----------------------------------------------------------------------------
(* Upload.                                                                 *)

\* The loop of BatchUploadBookFiles: what is stored stays when a later entry
\* is refused.
NextEntry(c) ==
    LET r == req[c]
        stored == {r.names[i] : i \in 1..(pos[c] - 1)}
    IN  /\ pc[c] = "next"
        /\ IF pos[c] > LastEntry(r) THEN Answer(c, stored)
           ELSE IF Admission(r.files[pos[c]]) # "nil" THEN Fail(c, Admission(r.files[pos[c]]))
           ELSE GoTo(c, "create")
        /\ UNCHANGED <<storeVars, minted, told, req, pos, data, history>>

\* os.MkdirAll and os.Create.
CreateFile(c) ==
    /\ pc[c] = "create"
    /\ disk' = [disk EXCEPT ![Current(c)] = "partial"]
    /\ GoTo(c, "copy")
    /\ UNCHANGED <<row, books, minted, told, req, pos, data, history>>

\* io.Copy.
CopyFile(c) ==
    /\ pc[c] = "copy"
    /\ disk' = [disk EXCEPT ![Current(c)] = "whole"]
    /\ GoTo(c, "insert")
    /\ UNCHANGED <<row, books, minted, told, req, pos, data, history>>

InsertRow(c) ==
    /\ pc[c] = "insert"
    /\ row' = [row EXCEPT ![Current(c)] = RowOf(req[c], pos[c])]
    /\ pos' = [pos EXCEPT ![c] = @ + 1]
    /\ GoTo(c, "next")
    /\ UNCHANGED <<disk, books, minted, told, req, data, history>>

\* Fault: nothing is cleaned up when the row is refused.
UndoNothing(c) ==
    /\ pc[c] = "undo"
    /\ Fail(c, "ErrRecord")
    /\ UNCHANGED <<storeVars, minted, told, req, pos, data, history>>

\* The row was refused: os.Remove, whose own error is not looked at.
Undo(c) ==
    /\ pc[c] = "undo"
    /\ \/ /\ disk' = [disk EXCEPT ![Current(c)] = "none"]
          /\ UNCHANGED spilt
       \/ /\ spilt' = spilt \cup {Current(c)}
          /\ UNCHANGED disk
    /\ Fail(c, "ErrRecord")
    /\ UNCHANGED <<row, books, minted, told, req, pos, data, gone, torn>>

-----------------------------------------------------------------------------
(* Delete, download, list.                                                 *)

Lookup(c) ==
    /\ pc[c] = "lookup"
    /\ IF row[Current(c)] = None THEN Fail(c, "ErrNotFound")
       ELSE GoTo(c, IF req[c].op = "delete" THEN "unlink" ELSE "open")
    /\ UNCHANGED <<storeVars, minted, told, req, pos, data, history>>

\* LocalStorage.Delete: a file already missing is no error.
Unlink(c) ==
    /\ pc[c] = "unlink"
    /\ disk' = [disk EXCEPT ![Current(c)] = "none"]
    /\ GoTo(c, "remove")
    /\ UNCHANGED <<row, books, minted, told, req, pos, data, history>>

\* DeleteOneID: of two deletions of one row, the second finds none.
RemoveRow(c) ==
    /\ pc[c] = "remove"
    /\ IF row[Current(c)] = None
       THEN Fail(c, "ErrNotFound") /\ UNCHANGED <<row, gone>>
       ELSE /\ row' = [row EXCEPT ![Current(c)] = None]
            /\ gone' = gone \cup {Current(c)}
            /\ Answer(c, {})
    /\ UNCHANGED <<disk, books, minted, told, req, pos, data, torn, spilt>>

\* An open file can be read to its end even when its name is removed.
OpenFile(c) ==
    /\ pc[c] = "open"
    /\ IF disk[Current(c)] = "none"
       THEN Fail(c, "ErrOpen") /\ UNCHANGED data
       ELSE GoTo(c, "stream") /\ data' = [data EXCEPT ![c] = disk[Current(c)]]
    /\ UNCHANGED <<storeVars, minted, told, req, pos, history>>

Stream(c) ==
    /\ pc[c] = "stream"
    /\ Answer(c, {})
    /\ UNCHANGED <<storeVars, minted, told, req, pos, data, history>>

List(c) ==
    /\ pc[c] = "list"
    /\ Answer(c, ListByBookID(req[c].book))
    /\ UNCHANGED <<storeVars, minted, told, req, pos, data, history>>

-----------------------------------------------------------------------------
(* Failures.                                                               *)

\* Fault: an error of io.Copy is not looked at.
DiskFailsSilently(c) ==
    /\ Faults
    /\ pc[c] \in {"create", "copy", "unlink", "open", "stream"}
    /\ IF pc[c] = "copy" THEN GoTo(c, "insert") ELSE Fail(c, "ErrStorage")
    /\ UNCHANGED <<storeVars, minted, told, req, pos, data, history>>

\* The disk refuses an operation; SavePath leaves what it has written.
DiskFails(c) ==
    /\ Faults
    /\ pc[c] \in {"create", "copy", "unlink", "open", "stream"}
    /\ Fail(c, "ErrStorage")
    /\ spilt' = spilt \cup (IF pc[c] = "copy" THEN {Current(c)} ELSE {})
    /\ UNCHANGED <<storeVars, minted, told, req, pos, data, gone, torn>>

\* The database refuses an operation.
DatabaseFails(c) ==
    /\ Faults
    /\ pc[c] \in {"insert", "lookup", "remove", "list"}
    /\ IF pc[c] = "insert" THEN GoTo(c, "undo") ELSE Fail(c, "ErrDatabase")
    /\ torn' = torn \cup (IF pc[c] = "remove" THEN {Current(c)} ELSE {})
    /\ UNCHANGED <<storeVars, minted, told, req, pos, data, gone, spilt>>

\* The call ends; its answer may be lost on the way to the client.
Respond(c) ==
    /\ pc[c] = "done"
    /\ \/ told' = told \cup {a.file : a \in ans[c]}
       \/ Faults /\ UNCHANGED told
    /\ pc' = [pc EXCEPT ![c] = "idle"]
    /\ req' = [req EXCEPT ![c] = None]
    /\ pos' = [pos EXCEPT ![c] = 1]
    /\ data' = [data EXCEPT ![c] = "none"]
    /\ ans' = [ans EXCEPT ![c] = {}]
    /\ err' = [err EXCEPT ![c] = "nil"]
    /\ UNCHANGED <<storeVars, minted, history>>

\* The process dies and starts again on the same disk and database.
Restart ==
    /\ Faults
    /\ \E c \in Calls : pc[c] # "idle"
    /\ spilt' = spilt \cup {Current(c) : c \in {d \in Calls : pc[d] \in {"copy", "insert", "undo"}}}
    /\ torn' = torn \cup {Current(c) : c \in {d \in Calls : pc[d] = "remove"}}
    /\ pc' = [c \in Calls |-> "idle"]
    /\ req' = [c \in Calls |-> None]
    /\ pos' = [c \in Calls |-> 1]
    /\ data' = [c \in Calls |-> "none"]
    /\ ans' = [c \in Calls |-> {}]
    /\ err' = [c \in Calls |-> "nil"]
    /\ UNCHANGED <<storeVars, minted, told, gone>>

\* BookService.Delete: file_path is never set, and no row of book_files goes.
DeleteBook(b) ==
    /\ b \in books
    /\ books' = books \ {b}
    /\ UNCHANGED <<disk, row, minted, told, pc, req, pos, data, ans, err, history>>

CallStep(c) ==
    \/ ReceiveUpload(c) \/ ReceiveFile(c) \/ ReceiveList(c)
    \/ NextEntry(c) \/ CreateFile(c) \/ CopyFile(c) \/ InsertRow(c) \/ Undo(c)
    \/ Lookup(c) \/ Unlink(c) \/ RemoveRow(c) \/ OpenFile(c) \/ Stream(c) \/ List(c)
    \/ DiskFails(c) \/ DatabaseFails(c) \/ Respond(c)

Next ==
    \/ \E c \in Calls : CallStep(c)
    \/ \E b \in Books : DeleteBook(b)
    \/ Restart

Spec == Init /\ [][Next]_vars

-----------------------------------------------------------------------------
(* What holds.                                                             *)

\* A call is at a control point of its operation, and an upload is at an entry
\* of its request or, between two entries, past the last.
Fits(c) ==
    \/ pc[c] = "idle" /\ req[c] = None /\ pos[c] = 1
    \/ pc[c] \in FilePoints \cup {"done"} /\ req[c] \in FileRequests
    \/ pc[c] \in {"list", "done"} /\ req[c] \in ListRequests
    \/ /\ pc[c] \in UploadPoints \cup {"done"} /\ req[c] \in UploadRequests
       /\ pc[c] \in UploadPoints \ {"next"} => pos[c] \in DOMAIN req[c].names
       /\ pc[c] = "next" => pos[c] - 1 \in {0} \cup DOMAIN req[c].names

\* Every variable keeps its type.
TypeOK ==
    /\ disk \in [Files -> {"none", "partial", "whole"}]
    /\ row \in [Files -> Rows \cup {None}]
    /\ books \subseteq Books
    /\ told \subseteq Files /\ minted \subseteq Files
    /\ pc \in [Calls -> Points]
    /\ req \in [Calls -> Requests \cup {None}]
    /\ pos \in [Calls -> 1..(MaxBatch + 1)]
    /\ data \in [Calls -> {"none", "partial", "whole"}]
    /\ ans \in [Calls -> Answers]
    /\ err \in [Calls -> Errors]
    /\ gone \subseteq Files /\ torn \subseteq Files /\ spilt \subseteq Files
    /\ \A c \in Calls : Fits(c)

\* A row without its file on disk is the mark of a deletion: one in flight, or
\* one whose second half failed or died.  Uploads never leave one, in any
\* interleaving (file_service.go:66-85 writes the disk first).
RowsAreBacked ==
    \A f \in Files :
        row[f] # None =>
            \/ disk[f] = "whole"
            \/ f \in torn
            \/ \E c \in Calls : pc[c] = "remove" /\ Current(c) = f

\* A file on disk without its row is the mark of an upload: one in flight, or
\* one that failed or died after os.Create.  Deletions never leave one, not
\* even two of the same file (file_service.go:146-155 removes the disk first).
DiskIsAccounted ==
    \A f \in Files :
        disk[f] # "none" =>
            \/ row[f] # None
            \/ f \in spilt
            \/ \E c \in Calls : pc[c] \in {"copy", "insert", "undo"} /\ Current(c) = f

\* A download never streams a file that is still being written or was left
\* half written, although it looks at the row and the disk at different times.
OnlyWholeFilesServed == \A c \in Calls : pc[c] = "stream" => data[c] = "whole"

\* An upload that answers OK has stored every entry of its request, with the
\* book and the type the client gave, and nobody has removed one before the
\* client learns its id.
AnsweredUploadsExist ==
    \A c \in Calls :
        pc[c] = "done" /\ err[c] = "nil" /\ req[c].op = "upload" =>
            \A i \in DOMAIN req[c].names : LET f == req[c].names[i] IN
                /\ row[f] = RowOf(req[c], i)
                /\ disk[f] = "whole"
                /\ f \in {a.file : a \in ans[c]}

\* The service implements FileStore: a file is available when its row points
\* to a whole file, from the insert of the row to the removal from disk.
Store == INSTANCE FileStore WITH
            stored <- {f \in Files : row[f] # None /\ disk[f] = "whole"},
            used <- {f \in Files : row[f] # None} \cup gone
ImplementsFileStore == Store!Spec

=============================================================================
