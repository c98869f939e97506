-------------------------- MODULE BookFiles_proofs --------------------------
(***************************************************************************)
(* Proofs about the files of books, for any number of books, files and     *)
(* concurrent calls, any batches clients send, with or without faults.     *)
(***************************************************************************)
EXTENDS BookFiles, FiniteSetTheorems, TLAPS

-----------------------------------------------------------------------------
(* The inductive invariant: the invariants of the run, the fresh names     *)
(* that tell calls apart, and how far each upload and deletion has come.   *)

\* An upload under way or answered, and the names it has generated.
IsUpload(c) == pc[c] # "idle" /\ req[c].op = "upload"
Names(c) == {req[c].names[i] : i \in DOMAIN req[c].names}

\* The entry i of the request of c has been stored.
Stored(c, i) ==
    row[req[c].names[i]] = RowOf(req[c], i) /\ disk[req[c].names[i]] = "whole"

\* UUIDs are fresh: a name nobody has generated is neither on disk nor in a
\* row, and a file is known to a client only after the upload has ended.
FreshNames ==
    /\ gone \subseteq told /\ told \subseteq minted
    /\ \A f \in Files \ minted : row[f] = None
    /\ \A c \in Calls : IsUpload(c) =>
          /\ Names(c) \subseteq minted
          /\ \A i, j \in DOMAIN req[c].names : req[c].names[i] = req[c].names[j] => i = j
          /\ \A d \in Calls \ {c} : IsUpload(d) => Names(c) \cap Names(d) = {}
          /\ Names(c) \cap told = {}

\* How far an upload has come: everything before its entry is stored, nothing
\* from there on has a row, and a row is written only over a whole file.
Progress(c) ==
    /\ pc[c] # "done" => ans[c] = {} /\ err[c] = "nil"
    /\ pc[c] \in UploadPoints =>
          /\ \A i \in DOMAIN req[c].names :
                IF i < pos[c] THEN Stored(c, i) ELSE row[req[c].names[i]] = None
    /\ pc[c] = "insert" => disk[Current(c)] = "whole"
    /\ pc[c] = "done" /\ err[c] = "nil" /\ req[c].op = "upload" =>
          /\ \A i \in DOMAIN req[c].names : Stored(c, i)
          /\ ans[c] = {AnswerOf(f) : f \in Names(c)}
    /\ pc[c] = "done" /\ (err[c] # "nil" \/ req[c].op # "upload") => ans[c] = {}

\* What clients know is no longer being written, and what they delete leaves
\* the disk before its row.
KnownFiles ==
    /\ \A f \in told : disk[f] # "partial"
    /\ \A c \in Calls : pc[c] \in FilePoints => req[c].file \in told
    /\ \A c \in Calls : pc[c] = "remove" => disk[Current(c)] = "none"

\* The inductive invariant of book files.
FilesInv ==
    /\ TypeOK /\ FreshNames /\ (\A c \in Calls : Progress(c)) /\ KnownFiles
    /\ RowsAreBacked /\ DiskIsAccounted /\ OnlyWholeFilesServed

-----------------------------------------------------------------------------
(* Requests.                                                               *)

\* An upload names as many files as it has entries, and at least one.
LEMMA UploadRequestType ==
  ASSUME NEW r \in UploadRequests
  PROVE  /\ r.op = "upload" /\ r.book \in Books
         /\ \E n \in 1..MaxBatch :
               /\ r.files \in [1..n -> Entries] /\ r.names \in [1..n -> Files]
               /\ DOMAIN r.files = 1..n /\ DOMAIN r.names = 1..n
               /\ LastEntry(r) = n
<1>1. PICK n \in 1..MaxBatch :
         r \in [op : {"upload"}, book : Books, files : [1..n -> Entries], names : [1..n -> Files]]
  BY DEF UploadRequests
<1>2. /\ r.files \in [1..n -> Entries] /\ r.names \in [1..n -> Files]
      /\ r.op = "upload" /\ r.book \in Books
  BY <1>1
<1>3. DOMAIN r.files = 1..n /\ DOMAIN r.names = 1..n
  BY <1>2
<1>4. n \in Nat /\ n >= 1
  BY MaxBatchAssumption
<1>5. Cardinality(1..n) = n
  BY <1>4, FS_Interval
<1> QED
  BY <1>2, <1>3, <1>5 DEF LastEntry

\* The three kinds of request are told apart by their operation.
LEMMA RequestKinds ==
  /\ \A r \in UploadRequests : r.op = "upload" /\ r.book \in Books
  /\ \A r \in FileRequests : r.op \in {"delete", "download"} /\ r.file \in Files
  /\ \A r \in ListRequests : r.op = "list" /\ r.book \in Books
BY UploadRequestType DEF FileRequests, ListRequests

\* The file a call is at is a file of its request.
LEMMA CurrentType ==
  ASSUME TypeOK, NEW c \in Calls, pc[c] \in (UploadPoints \ {"next"}) \cup FilePoints
  PROVE  /\ Current(c) \in Files
         /\ pc[c] \in FilePoints => Current(c) = req[c].file /\ req[c].op # "upload"
         /\ pc[c] \in UploadPoints =>
               /\ req[c] \in UploadRequests /\ pos[c] \in DOMAIN req[c].names
               /\ Current(c) = req[c].names[pos[c]] /\ Current(c) \in Names(c)
               /\ RowOf(req[c], pos[c]) \in Rows
<1>1. Fits(c)
  BY DEF TypeOK
<1>2. CASE pc[c] \in FilePoints
  BY <1>1, <1>2, RequestKinds DEF Fits, FilePoints, UploadPoints, Current
<1>3. CASE pc[c] \in UploadPoints \ {"next"}
  <2>1. req[c] \in UploadRequests /\ pos[c] \in DOMAIN req[c].names
    BY <1>1, <1>3 DEF Fits, FilePoints, UploadPoints
  <2>2. PICK n \in 1..MaxBatch :
            /\ req[c].files \in [1..n -> Entries] /\ req[c].names \in [1..n -> Files]
            /\ DOMAIN req[c].names = 1..n
    BY <2>1, UploadRequestType
  <2>3. req[c].files[pos[c]] \in Entries /\ req[c].names[pos[c]] \in Files
    BY <2>1, <2>2
  <2>4. RowOf(req[c], pos[c]) \in Rows
    BY <2>1, <2>3, RequestKinds, EntriesAssumption DEF RowOf, Rows
  <2> QED
    BY <1>3, <2>1, <2>3, <2>4, RequestKinds DEF Current, Names, UploadPoints, FilePoints
<1> QED BY <1>2, <1>3

\* A control point tells the kind of request, and the operation does.
LEMMA PointsOfRequests ==
  ASSUME TypeOK, NEW c \in Calls
  PROVE  /\ pc[c] \in UploadPoints => IsUpload(c)
         /\ IsUpload(c) => req[c] \in UploadRequests
         /\ pc[c] \in FilePoints => req[c] \in FileRequests /\ ~IsUpload(c)
         /\ pc[c] = "list" => req[c] \in ListRequests /\ ~IsUpload(c)
BY RequestKinds DEF TypeOK, Fits, IsUpload, UploadPoints, FilePoints

\* No code writes the join table, so that a list is empty.
LEMMA NothingListed == \A b : ListByBookID(b) = {}
BY DEF ListByBookID, BookFileBook

\* An entry is refused with one of the listed errors.
LEMMA AdmissionType == \A e : Admission(e) \in Errors
BY DEF Admission, Errors

-----------------------------------------------------------------------------
(* Types.                                                                  *)

\* An empty directory and table and idle goroutines are well typed.
LEMMA InitTypeOK == Init => TypeOK
BY MaxBatchAssumption, BookFilesNoneAssumption DEF Init, TypeOK, Fits, Points, Answers, Errors

\* Every step of a call, of the book service or of the process keeps types.
LEMMA NextTypeOK == TypeOK /\ [Next]_vars => TypeOK'
<1> SUFFICES ASSUME TypeOK, [Next]_vars
             PROVE  TypeOK'
  OBVIOUS
<1> USE DEF TypeOK, storeVars, history, GoTo, Fail, Answer
<1>1. ASSUME NEW c \in Calls, ReceiveUpload(c)
      PROVE  TypeOK'
  <2>1. PICK r \in UploadRequests :
            /\ req' = [req EXCEPT ![c] = r]
            /\ minted' = minted \cup {r.names[i] : i \in DOMAIN r.names}
            /\ IF TransportAdmits(r) THEN GoTo(c, "next") ELSE Fail(c, "ErrTransport")
    BY <1>1 DEF ReceiveUpload
  <2>2. {r.names[i] : i \in DOMAIN r.names} \subseteq Files
    BY UploadRequestType
  <2>3. \A d \in Calls : Fits(d)'
    BY <1>1, <2>1 DEF ReceiveUpload, Fits, Points, UploadPoints, FilePoints
  <2> QED
    BY <1>1, <2>1, <2>2, <2>3 DEF ReceiveUpload, Requests, Points, UploadPoints, Errors
<1>2. ASSUME NEW c \in Calls, ReceiveFile(c) \/ ReceiveList(c)
      PROVE  TypeOK'
  BY <1>2 DEF ReceiveFile, ReceiveList, Fits, Requests, Points, UploadPoints, FilePoints
<1>3. ASSUME NEW c \in Calls, NextEntry(c)
      PROVE  TypeOK'
  <2>1. req[c] \in UploadRequests
    BY <1>3, RequestKinds DEF NextEntry, Fits, UploadPoints, FilePoints
  <2>2. PICK n \in 1..MaxBatch :
            /\ req[c].names \in [1..n -> Files]
            /\ DOMAIN req[c].names = 1..n /\ LastEntry(req[c]) = n
    BY <2>1, UploadRequestType
  <2>3. CASE pos[c] > LastEntry(req[c])
    <3>1. \A i \in 1..(pos[c] - 1) : req[c].names[i] \in Files
      <4>1. Fits(c) /\ pc[c] = "next"
        BY <1>3 DEF NextEntry
      <4>2. pos[c] - 1 \in {0} \cup DOMAIN req[c].names
        BY <4>1 DEF Fits, UploadPoints, FilePoints
      <4>3. pos[c] \in Nat /\ n \in Nat
        BY MaxBatchAssumption
      <4> QED BY <2>2, <4>2, <4>3
    <3>2. {AnswerOf(f) : f \in {req[c].names[i] : i \in 1..(pos[c] - 1)}} \in Answers
      BY <3>1 DEF AnswerOf, Answers, FileTypes
    <3>3. ans' \in [Calls -> Answers]
      BY <1>3, <2>3, <3>2 DEF NextEntry
    <3> QED
      BY <1>3, <2>1, <2>3, <3>3 DEF NextEntry, Fits, Points, UploadPoints, FilePoints
  <2>4. CASE pos[c] <= LastEntry(req[c])
    <3>1. pos[c] \in DOMAIN req[c].names
      BY <2>2, <2>4
    <3>2. /\ pc' = [pc EXCEPT ![c] = "done"] \/ pc' = [pc EXCEPT ![c] = "create"]
          /\ err' \in [Calls -> Errors] /\ UNCHANGED ans
      <4>1. CASE GoTo(c, "create")
        BY <4>1
      <4>2. CASE \E e \in Errors : Fail(c, e)
        BY <4>2
      <4>3. GoTo(c, "create") \/ \E e \in Errors : Fail(c, e)
        <5> HIDE DEF TypeOK, GoTo, Fail, Answer
        <5>1. pos[c] \in Nat /\ LastEntry(req[c]) \in Nat
          BY <2>2, MaxBatchAssumption DEF TypeOK
        <5>2. ~(pos[c] > LastEntry(req[c]))
          BY <2>4, <5>1
        <5> QED BY <1>3, <5>2, AdmissionType DEF NextEntry
      <4> QED BY <4>1, <4>2, <4>3
    <3>3. \A d \in Calls : Fits(d)'
      BY <1>3, <2>1, <3>1, <3>2 DEF NextEntry, Fits, UploadPoints, FilePoints
    <3> QED
      BY <1>3, <3>2, <3>3 DEF NextEntry, Points, UploadPoints
  <2> QED
    BY <2>2, <2>3, <2>4
<1>4. ASSUME NEW c \in Calls, CreateFile(c) \/ CopyFile(c) \/ Undo(c)
      PROVE  TypeOK'
  <2>1. Current(c) \in Files /\ req[c] \in UploadRequests /\ pos[c] \in DOMAIN req[c].names
    BY <1>4, CurrentType DEF CreateFile, CopyFile, Undo, UploadPoints
  <2> QED
    BY <1>4, <2>1 DEF CreateFile, CopyFile, Undo, Fits, Points, UploadPoints, FilePoints, Errors
<1>5. ASSUME NEW c \in Calls, InsertRow(c)
      PROVE  TypeOK'
  <2>1. /\ Current(c) \in Files /\ RowOf(req[c], pos[c]) \in Rows
        /\ req[c] \in UploadRequests /\ pos[c] \in DOMAIN req[c].names
    BY <1>5, CurrentType DEF InsertRow, UploadPoints
  <2>2. pos[c] + 1 \in 1..(MaxBatch + 1)
    BY <2>1, UploadRequestType, MaxBatchAssumption
  <2> QED
    BY <1>5, <2>1, <2>2 DEF InsertRow, Fits, Points, UploadPoints, FilePoints
<1>6. ASSUME NEW c \in Calls, Lookup(c) \/ OpenFile(c) \/ Stream(c) \/ List(c)
      PROVE  TypeOK'
  <2>1. Answer(c, {}) => ans' \in [Calls -> Answers]
    BY DEF Answers
  <2>2. /\ pc[c] \in FilePoints => Current(c) \in Files /\ req[c] \in FileRequests
        /\ pc[c] = "list" => req[c] \in ListRequests
    BY CurrentType, RequestKinds DEF Fits, FilePoints, UploadPoints
  <2> QED
    BY <1>6, <2>1, <2>2, NothingListed
       DEF Lookup, OpenFile, Stream, List, Fits, Points, UploadPoints, FilePoints, Errors
<1>7. ASSUME NEW c \in Calls, Unlink(c) \/ RemoveRow(c)
      PROVE  TypeOK'
  <2>1. Answer(c, {}) => ans' \in [Calls -> Answers]
    BY DEF Answers
  <2>2. Current(c) \in Files /\ req[c] \in FileRequests
    BY <1>7, CurrentType, RequestKinds DEF Unlink, RemoveRow, Fits, FilePoints, UploadPoints
  <2> QED
    BY <1>7, <2>1, <2>2 DEF Unlink, RemoveRow, Fits, Points, UploadPoints, FilePoints, Errors
<1>8. ASSUME NEW c \in Calls, DiskFails(c) \/ DatabaseFails(c)
      PROVE  TypeOK'
  <2>1. pc[c] \in (UploadPoints \ {"next"}) \cup FilePoints => Current(c) \in Files
    BY CurrentType
  <2>2. \A d \in Calls : Fits(d)'
    BY <1>8, RequestKinds DEF DiskFails, DatabaseFails, Fits, Points, UploadPoints, FilePoints
  <2> QED
    BY <1>8, <2>1, <2>2 DEF DiskFails, DatabaseFails, Points, UploadPoints, FilePoints, Errors
<1>9. ASSUME NEW c \in Calls, Respond(c)
      PROVE  TypeOK'
  <2>1. {a.file : a \in ans[c]} \subseteq Files
    BY DEF Answers
  <2>2. {} \in Answers /\ 1 \in 1..(MaxBatch + 1)
    BY MaxBatchAssumption DEF Answers
  <2>3. \A d \in Calls : Fits(d)'
    BY <1>9 DEF Respond, Fits, Points
  <2> QED
    BY <1>9, <2>1, <2>2, <2>3 DEF Respond, Points, Errors
<1>10. ASSUME NEW b \in Books, DeleteBook(b)
       PROVE  TypeOK'
  BY <1>10 DEF DeleteBook, Fits
<1>11. CASE Restart
  <2>1. \A c \in Calls : pc[c] \in {"copy", "insert", "undo", "remove"} => Current(c) \in Files
    BY CurrentType DEF UploadPoints, FilePoints
  <2> QED
    BY <1>11, <2>1, MaxBatchAssumption DEF Restart, Fits, Points, Answers, Errors
<1>12. CASE UNCHANGED vars
  BY <1>12 DEF vars, Fits
<1> QED
  BY <1>1, <1>2, <1>3, <1>4, <1>5, <1>6, <1>7, <1>8, <1>9, <1>10, <1>11, <1>12
     DEF Next, CallStep

\* Every variable keeps its type.
THEOREM TypeCorrect == Spec => []TypeOK
<1>1. Init => TypeOK
  BY InitTypeOK
<1>2. TypeOK /\ [Next]_vars => TypeOK'
  BY NextTypeOK
<1> QED
  BY <1>1, <1>2, PTL DEF Spec

-----------------------------------------------------------------------------
(* What a step of one call leaves alone.                                   *)

\* A call changes no other call.
LEMMA OtherCalls ==
  ASSUME TypeOK, NEW c \in Calls, CallStep(c), NEW d \in Calls \ {c}
  PROVE  /\ pc'[d] = pc[d] /\ req'[d] = req[d] /\ pos'[d] = pos[d]
         /\ data'[d] = data[d] /\ ans'[d] = ans[d] /\ err'[d] = err[d]
<1> USE DEF TypeOK, GoTo, Fail, Answer
<1>1. CASE ReceiveUpload(c) \/ ReceiveFile(c) \/ ReceiveList(c)
  BY <1>1 DEF ReceiveUpload, ReceiveFile, ReceiveList
<1>2. CASE NextEntry(c)
  BY <1>2 DEF NextEntry
<1>3. CASE CreateFile(c) \/ CopyFile(c) \/ InsertRow(c) \/ Undo(c)
  BY <1>3 DEF CreateFile, CopyFile, InsertRow, Undo
<1>4. CASE Lookup(c) \/ Unlink(c) \/ RemoveRow(c) \/ OpenFile(c) \/ Stream(c) \/ List(c)
  BY <1>4 DEF Lookup, Unlink, RemoveRow, OpenFile, Stream, List
<1>5. CASE DiskFails(c) \/ DatabaseFails(c) \/ Respond(c)
  BY <1>5 DEF DiskFails, DatabaseFails, Respond
<1> QED
  BY <1>1, <1>2, <1>3, <1>4, <1>5 DEF CallStep

\* A call writes the disk and the table only at the file it is at, and only at
\* these control points.
LEMMA WritesAtCurrent ==
  ASSUME TypeOK, NEW c \in Calls, CallStep(c), NEW f \in Files
  PROVE  /\ disk'[f] # disk[f] =>
               f = Current(c) /\ pc[c] \in {"create", "copy", "undo", "unlink"}
         /\ row'[f] # row[f] => f = Current(c) /\ pc[c] \in {"insert", "remove"}
<1> USE DEF TypeOK, storeVars
<1>1. CASE ReceiveUpload(c) \/ ReceiveFile(c) \/ ReceiveList(c)
  BY <1>1 DEF ReceiveUpload, ReceiveFile, ReceiveList
<1>2. CASE NextEntry(c)
  BY <1>2 DEF NextEntry
<1>3. CASE CreateFile(c) \/ CopyFile(c) \/ InsertRow(c) \/ Undo(c)
  BY <1>3 DEF CreateFile, CopyFile, InsertRow, Undo
<1>4. CASE Lookup(c) \/ Unlink(c) \/ RemoveRow(c) \/ OpenFile(c) \/ Stream(c) \/ List(c)
  BY <1>4 DEF Lookup, Unlink, RemoveRow, OpenFile, Stream, List
<1>5. CASE DiskFails(c) \/ DatabaseFails(c) \/ Respond(c)
  BY <1>5 DEF DiskFails, DatabaseFails, Respond
<1> QED
  BY <1>1, <1>2, <1>3, <1>4, <1>5 DEF CallStep

\* Ids and history only grow; what is told and deleted changes in two actions.
LEMMA Growing ==
  ASSUME TypeOK, [Next]_vars
  PROVE  /\ minted \subseteq minted' /\ told \subseteq told' /\ gone \subseteq gone'
         /\ torn \subseteq torn' /\ spilt \subseteq spilt'
<1> USE DEF storeVars, history
<1>1. ASSUME NEW c \in Calls, ReceiveUpload(c) \/ ReceiveFile(c) \/ ReceiveList(c)
      PROVE  /\ minted \subseteq minted' /\ told \subseteq told' /\ gone \subseteq gone'
             /\ torn \subseteq torn' /\ spilt \subseteq spilt'
  BY <1>1 DEF ReceiveUpload, ReceiveFile, ReceiveList
<1>2. ASSUME NEW c \in Calls,
             NextEntry(c) \/ CreateFile(c) \/ CopyFile(c) \/ InsertRow(c) \/ Undo(c)
      PROVE  /\ minted \subseteq minted' /\ told \subseteq told' /\ gone \subseteq gone'
             /\ torn \subseteq torn' /\ spilt \subseteq spilt'
  BY <1>2 DEF NextEntry, CreateFile, CopyFile, InsertRow, Undo
<1>3. ASSUME NEW c \in Calls,
             Lookup(c) \/ Unlink(c) \/ RemoveRow(c) \/ OpenFile(c) \/ Stream(c) \/ List(c)
      PROVE  /\ minted \subseteq minted' /\ told \subseteq told' /\ gone \subseteq gone'
             /\ torn \subseteq torn' /\ spilt \subseteq spilt'
  BY <1>3 DEF Lookup, Unlink, RemoveRow, OpenFile, Stream, List
<1>4. ASSUME NEW c \in Calls, DiskFails(c) \/ DatabaseFails(c) \/ Respond(c)
      PROVE  /\ minted \subseteq minted' /\ told \subseteq told' /\ gone \subseteq gone'
             /\ torn \subseteq torn' /\ spilt \subseteq spilt'
  BY <1>4 DEF DiskFails, DatabaseFails, Respond
<1>5. ASSUME NEW b \in Books, DeleteBook(b)
      PROVE  UNCHANGED <<minted, told, gone, torn, spilt>>
  BY <1>5 DEF DeleteBook
<1>6. CASE Restart
  BY <1>6 DEF Restart
<1>7. CASE UNCHANGED vars
  BY <1>7 DEF vars
<1> QED
  BY <1>1, <1>2, <1>3, <1>4, <1>5, <1>6, <1>7 DEF Next, CallStep

\* The files of an upload are safe from all other calls: an upload writes under
\* names of its own, and a deletion needs a file that clients know.
LEMMA NamesAreSafe ==
  ASSUME FilesInv, NEW c \in Calls, CallStep(c), NEW d \in Calls \ {c}, IsUpload(d),
         NEW f \in Names(d)
  PROVE  disk'[f] = disk[f] /\ row'[f] = row[f]
<1>1. f \in Files /\ f \notin told
  BY DEF FilesInv, TypeOK, FreshNames
<1>2. pc[c] \in FilePoints => Current(c) # f
  BY <1>1, CurrentType DEF FilesInv, KnownFiles
<1>3. pc[c] \in UploadPoints \ {"next"} => Current(c) # f
  <2>1. ASSUME pc[c] \in UploadPoints \ {"next"}
        PROVE  IsUpload(c) /\ Current(c) \in Names(c)
    BY <2>1, CurrentType, RequestKinds DEF FilesInv, IsUpload, UploadPoints
  <2> QED
    BY <2>1 DEF FilesInv, FreshNames
<1> QED
  BY <1>1, <1>2, <1>3, WritesAtCurrent DEF FilesInv, UploadPoints, FilePoints

\* A step of one call does not disturb the progress of another.
LEMMA BystanderProgress ==
  ASSUME FilesInv, NEW c \in Calls, CallStep(c), NEW d \in Calls \ {c}
  PROVE  Progress(d)'
<1>1. /\ pc'[d] = pc[d] /\ req'[d] = req[d] /\ pos'[d] = pos[d]
      /\ ans'[d] = ans[d] /\ err'[d] = err[d]
  BY OtherCalls DEF FilesInv
<1>2. TypeOK /\ Progress(d)
  BY DEF FilesInv
<1>3. CASE ~IsUpload(d)
  BY <1>1, <1>2, <1>3, PointsOfRequests DEF Progress, IsUpload, UploadPoints
<1>4. CASE IsUpload(d)
  <2>1. \A f \in Names(d) : disk'[f] = disk[f] /\ row'[f] = row[f]
    BY <1>4, NamesAreSafe
  <2>2. \A i \in DOMAIN req[d].names : req[d].names[i] \in Names(d)
    BY DEF Names
  <2>3. pc[d] = "insert" => Current(d) \in Names(d)
    BY <1>2, CurrentType DEF UploadPoints
  <2>4. Current(d)' = Current(d) /\ Names(d)' = Names(d)
    BY <1>1 DEF Current, Names
  <2> QED
    BY <1>1, <1>2, <2>1, <2>2, <2>3, <2>4 DEF Progress, Stored, RowOf
<1> QED BY <1>3, <1>4

\* A step of an upload keeps its own progress: the file that is next in line has
\* been written as a whole when its row is, and no other call has touched those
\* that are stored.
LEMMA OwnProgress ==
  ASSUME FilesInv, NEW c \in Calls, CallStep(c)
  PROVE  Progress(c)'
<1> USE DEF GoTo, Fail, Answer, storeVars
<1>1. TypeOK /\ TypeOK' /\ Progress(c) /\ FreshNames
  BY NextTypeOK DEF FilesInv, Next
<1>2. CASE ReceiveUpload(c)
  <2>1. PICK r \in UploadRequests :
            /\ \A i \in DOMAIN r.names : r.names[i] \notin minted
            /\ req' = [req EXCEPT ![c] = r]
            /\ IF TransportAdmits(r) THEN GoTo(c, "next") ELSE Fail(c, "ErrTransport")
    BY <1>2 DEF ReceiveUpload
  <2>2. pos[c] = 1 /\ pc[c] = "idle"
    BY <1>1, <1>2 DEF ReceiveUpload, TypeOK, Fits, UploadPoints, FilePoints
  <2>3. \A i \in DOMAIN r.names : i >= 1 /\ i \in Nat /\ row[r.names[i]] = None
    BY <1>1, <2>1, UploadRequestType DEF FreshNames, TypeOK
  <2> QED
    BY <1>1, <1>2, <2>1, <2>2, <2>3 DEF ReceiveUpload, Progress, TypeOK, UploadPoints
<1>3. CASE ReceiveFile(c) \/ ReceiveList(c)
  BY <1>1, <1>3 DEF ReceiveFile, ReceiveList, Progress, TypeOK, UploadPoints
<1>4. CASE NextEntry(c)
  <2>1. req[c] \in UploadRequests /\ pc[c] = "next" /\ req[c].op = "upload"
    BY <1>1, <1>4, PointsOfRequests, RequestKinds DEF NextEntry, UploadPoints
  <2>2. PICK n \in 1..MaxBatch :
            /\ DOMAIN req[c].names = 1..n /\ LastEntry(req[c]) = n
    BY <2>1, UploadRequestType
  <2>3. n \in Nat /\ pos[c] \in Nat /\ pos[c] - 1 \in {0} \cup DOMAIN req[c].names
    BY <1>1, <2>1, MaxBatchAssumption DEF TypeOK, Fits, UploadPoints, FilePoints
  <2>4. /\ UNCHANGED <<disk, row, req, pos>>
        /\ \A i \in DOMAIN req[c].names : Stored(c, i)' = Stored(c, i)
    BY <1>4 DEF NextEntry, Stored
  <2>5. CASE pos[c] > LastEntry(req[c])
    <3>1. pos[c] - 1 = n
      BY <2>2, <2>3, <2>5
    <3>2. {req[c].names[i] : i \in 1..(pos[c] - 1)} = Names(c)
      BY <2>2, <3>1 DEF Names
    <3>3. pc'[c] = "done" /\ err'[c] = "nil" /\ Names(c)' = Names(c)
      BY <1>1, <1>4, <2>1, <2>5 DEF NextEntry, TypeOK, Names, Progress
    <3>4. ans' = [ans EXCEPT ![c] =
                    {AnswerOf(f) : f \in {req[c].names[i] : i \in 1..(pos[c] - 1)}}]
      BY <1>4, <2>5 DEF NextEntry
    <3>5. ans'[c] = {AnswerOf(f) : f \in Names(c)}
      BY <1>1, <3>2, <3>4 DEF TypeOK
    <3>6. \A i \in DOMAIN req[c].names : Stored(c, i)
      <4>1. \A i \in DOMAIN req[c].names : i < pos[c]
        BY <2>2, <2>3, <3>1
      <4> QED
        BY <1>1, <2>1, <4>1 DEF Progress, UploadPoints
    <3> QED
      BY <2>1, <2>4, <3>3, <3>5, <3>6 DEF Progress, UploadPoints
  <2>6. CASE pos[c] <= LastEntry(req[c])
    <3>1. /\ \/ pc'[c] = "done" /\ err'[c] # "nil"
             \/ pc'[c] = "create" /\ err'[c] = err[c]
          /\ ans'[c] = ans[c]
      BY <1>1, <1>4, <2>2, <2>3, <2>6 DEF NextEntry, TypeOK
    <3> QED
      BY <1>1, <2>1, <2>4, <3>1 DEF Progress, UploadPoints
  <2> QED BY <2>2, <2>3, <2>5, <2>6
<1>5. ASSUME pc[c] \in UploadPoints \ {"next"}
      PROVE  /\ pos[c] \in DOMAIN req[c].names /\ Current(c) = req[c].names[pos[c]]
             /\ Current(c) \in Files
             /\ \A i \in DOMAIN req[c].names : i \in Nat /\ req[c].names[i] \in Files
             /\ \A i \in DOMAIN req[c].names : i # pos[c] => req[c].names[i] # Current(c)
             /\ pos[c] \in Nat /\ req[c] \in UploadRequests /\ req[c].op = "upload"
  <2>1. /\ req[c] \in UploadRequests /\ pos[c] \in DOMAIN req[c].names /\ req[c].op = "upload"
        /\ Current(c) = req[c].names[pos[c]] /\ Current(c) \in Files /\ IsUpload(c)
    BY <1>1, <1>5, CurrentType, PointsOfRequests, RequestKinds
  <2>2. \A i \in DOMAIN req[c].names : i \in Nat /\ req[c].names[i] \in Files
    BY <2>1, UploadRequestType
  <2> QED BY <1>1, <2>1, <2>2 DEF FreshNames
<1>6. CASE CreateFile(c) \/ CopyFile(c) \/ Undo(c)
  <2>1. pc[c] \in UploadPoints \ {"next"}
    BY <1>6 DEF CreateFile, CopyFile, Undo, UploadPoints
  <2>2. UNCHANGED <<row, req, pos, ans>> /\ Current(c)' = Current(c)
    BY <1>6 DEF CreateFile, CopyFile, Undo, Current
  <2>3. \A f \in Files : f # Current(c) => disk'[f] = disk[f]
    BY <1>1, <1>6 DEF CreateFile, CopyFile, Undo, TypeOK
  <2>4. \A i \in DOMAIN req[c].names : i < pos[c] => Stored(c, i)'
    BY <1>1, <1>5, <2>1, <2>2, <2>3 DEF Progress, Stored, RowOf
  <2>5. \A i \in DOMAIN req[c].names : ~(i < pos[c]) => row[req[c].names[i]] = None
    BY <1>1, <2>1 DEF Progress
  <2>6. /\ pc'[c] = "insert" => disk'[Current(c)] = "whole"
        /\ pc'[c] = "done" => err'[c] # "nil"
        /\ pc'[c] # "done" => err'[c] = err[c]
    BY <1>1, <1>5, <1>6, <2>1 DEF CreateFile, CopyFile, Undo, TypeOK
  <2>7. ans[c] = {} /\ err[c] = "nil"
    BY <1>1, <2>1 DEF Progress, UploadPoints
  <2> QED
    BY <1>1, <2>2, <2>4, <2>5, <2>6, <2>7 DEF Progress, Stored
<1>7. CASE InsertRow(c)
  <2>1. pc[c] = "insert"
    BY <1>7 DEF InsertRow
  <2>2. /\ UNCHANGED <<disk, req, ans, err>>
        /\ pc'[c] = "next" /\ pos'[c] = pos[c] + 1
        /\ row'[Current(c)] = RowOf(req[c], pos[c])
        /\ \A f \in Files : f # Current(c) => row'[f] = row[f]
    BY <1>1, <1>5, <1>7, <2>1 DEF InsertRow, TypeOK, UploadPoints
  <2>3. ASSUME NEW i \in DOMAIN req[c].names
        PROVE  IF i < pos'[c] THEN Stored(c, i)' ELSE row'[req[c].names[i]] = None
    <3>1. CASE i = pos[c]
      BY <1>1, <1>5, <2>1, <2>2, <3>1 DEF Stored, RowOf, Progress, UploadPoints
    <3>2. CASE i # pos[c]
      <4>1. row'[req[c].names[i]] = row[req[c].names[i]] /\ (i < pos'[c] <=> i < pos[c])
        BY <1>5, <2>1, <2>2, <2>3, <3>2 DEF UploadPoints
      <4> QED
        BY <1>1, <2>1, <2>2, <2>3, <4>1 DEF Stored, RowOf, Progress, UploadPoints
    <3> QED BY <3>1, <3>2
  <2> QED
    BY <1>1, <2>1, <2>2, <2>3 DEF Progress
<1>8. CASE Lookup(c) \/ Unlink(c) \/ RemoveRow(c) \/ OpenFile(c) \/ Stream(c) \/ List(c)
  <2>1. pc[c] \in FilePoints \cup {"list"} /\ req[c].op # "upload" /\ req' = req
    BY <1>1, <1>8, PointsOfRequests, RequestKinds
       DEF Lookup, Unlink, RemoveRow, OpenFile, Stream, List, FilePoints
  <2>2. ans[c] = {} /\ err[c] = "nil"
    BY <1>1, <2>1 DEF Progress, FilePoints
  <2>3. /\ pc'[c] \notin UploadPoints /\ ans'[c] = {}
        /\ pc'[c] # "done" => err'[c] = "nil"
    BY <1>1, <1>8, <2>2, NothingListed
       DEF Lookup, Unlink, RemoveRow, OpenFile, Stream, List, TypeOK, UploadPoints
  <2> QED
    BY <2>1, <2>3 DEF Progress, UploadPoints
<1>9. CASE DiskFails(c) \/ DatabaseFails(c)
  <2>1. /\ pc[c] \notin {"done", "idle"} /\ UNCHANGED <<disk, row, req, pos, ans>>
        /\ \/ pc[c] = "insert" /\ pc'[c] = "undo" /\ err'[c] = err[c]
           \/ pc'[c] = "done" /\ err'[c] # "nil"
    BY <1>1, <1>9 DEF DiskFails, DatabaseFails, TypeOK
  <2>2. \A i \in DOMAIN req[c].names : Stored(c, i)' = Stored(c, i)
    BY <2>1 DEF Stored
  <2> QED
    BY <1>1, <2>1, <2>2 DEF Progress, UploadPoints
<1>10. CASE Respond(c)
  BY <1>1, <1>10 DEF Respond, Progress, TypeOK, UploadPoints
<1> QED
  BY <1>2, <1>3, <1>4, <1>6, <1>7, <1>8, <1>9, <1>10 DEF CallStep

\* Every step keeps the progress of every call; a deletion of a book writes
\* nothing an upload depends on, and a restart ends all calls.
LEMMA NextProgress ==
  ASSUME FilesInv, [Next]_vars, NEW d \in Calls
  PROVE  Progress(d)'
<1>1. ASSUME NEW c \in Calls, CallStep(c)
      PROVE  Progress(d)'
  BY <1>1, BystanderProgress, OwnProgress
<1>2. ASSUME NEW b \in Books, DeleteBook(b)
      PROVE  Progress(d)'
  <2>1. Progress(d)
    BY DEF FilesInv
  <2> QED
    BY <1>2, <2>1 DEF DeleteBook, Progress, Stored, RowOf, Current, Names
<1>3. CASE Restart
  BY <1>3 DEF Restart, Progress, UploadPoints
<1>4. CASE UNCHANGED vars
  <2>1. Progress(d)
    BY DEF FilesInv
  <2> QED
    BY <1>4, <2>1 DEF vars, Progress, Stored, RowOf, Current, Names
<1> QED
  BY <1>1, <1>2, <1>3, <1>4 DEF Next

-----------------------------------------------------------------------------
(* Names.                                                                  *)

\* What a call does to the ids: only the receipt of an upload generates any,
\* only an answer tells any, only the removal of a row gives one up.
LEMMA IdSteps ==
  ASSUME TypeOK, NEW c \in Calls, CallStep(c)
  PROVE  /\ minted' # minted => ReceiveUpload(c)
         /\ told' # told => Respond(c)
         /\ gone' # gone => pc[c] = "remove" /\ gone' = gone \cup {Current(c)}
         /\ req'[c] # req[c] => pc[c] = "idle" \/ Respond(c)
         /\ pc[c] = "idle" => ReceiveUpload(c) \/ ReceiveFile(c) \/ ReceiveList(c)
         /\ pc[c] = "done" => Respond(c)
<1> USE DEF storeVars, history
<1>1. CASE ReceiveUpload(c) \/ ReceiveFile(c) \/ ReceiveList(c)
  BY <1>1 DEF ReceiveUpload, ReceiveFile, ReceiveList
<1>2. CASE NextEntry(c) \/ CreateFile(c) \/ CopyFile(c) \/ InsertRow(c) \/ Undo(c)
  BY <1>2 DEF NextEntry, CreateFile, CopyFile, InsertRow, Undo
<1>3. CASE Lookup(c) \/ Unlink(c) \/ RemoveRow(c) \/ OpenFile(c) \/ Stream(c) \/ List(c)
  BY <1>3 DEF Lookup, Unlink, RemoveRow, OpenFile, Stream, List
<1>4. CASE DiskFails(c) \/ DatabaseFails(c)
  BY <1>4 DEF DiskFails, DatabaseFails
<1>5. CASE Respond(c)
  BY <1>5 DEF Respond
<1> QED
  BY <1>1, <1>2, <1>3, <1>4, <1>5 DEF CallStep

\* An answer tells the names of an upload that has stored them, or nothing.
LEMMA ToldByUploads ==
  ASSUME FilesInv, NEW c \in Calls, Respond(c), told' # told
  PROVE  /\ IsUpload(c) /\ told' = told \cup Names(c)
         /\ \A f \in Names(c) : row[f] # None /\ disk[f] = "whole"
<1>1. TypeOK /\ Progress(c) /\ pc[c] = "done" /\ told' = told \cup {a.file : a \in ans[c]}
  BY DEF FilesInv, Respond
<1>2. ans[c] # {}
  BY <1>1
<1>3. /\ req[c].op = "upload" /\ \A i \in DOMAIN req[c].names : Stored(c, i)
      /\ ans[c] = {AnswerOf(f) : f \in Names(c)}
  BY <1>1, <1>2 DEF Progress
<1>4. {a.file : a \in ans[c]} = Names(c)
  <2>1. \A f : AnswerOf(f).file = f
    BY DEF AnswerOf
  <2>2. \A a \in ans[c] : a.file \in Names(c)
    BY <1>3, <2>1
  <2>3. \A f \in Names(c) : \E a \in ans[c] : a.file = f
    BY <1>3, <2>1
  <2> QED BY <2>2, <2>3
<1>5. IsUpload(c) /\ req[c] \in UploadRequests
  BY <1>1, <1>3, PointsOfRequests DEF IsUpload
<1>6. \A i \in DOMAIN req[c].names : RowOf(req[c], i) # None
  <2>1. PICK n \in 1..MaxBatch : req[c].files \in [1..n -> Entries] /\ DOMAIN req[c].names = 1..n
    BY <1>5, UploadRequestType
  <2>2. \A i \in 1..n : req[c].files[i] \in Entries
    BY <2>1
  <2>3. \A i \in 1..n : RowOf(req[c], i) \in Rows
    BY <1>5, <2>2, RequestKinds, EntriesAssumption DEF RowOf, Rows
  <2> QED
    BY <2>1, <2>3, BookFilesNoneAssumption
<1> QED
  BY <1>1, <1>3, <1>4, <1>5, <1>6 DEF Names, Stored

\* Names stay fresh: those of a new upload were nobody's, those an answer tells
\* leave with their call, and all other steps know only names they have.
LEMMA NextFreshNames ==
  ASSUME FilesInv, [Next]_vars
  PROVE  FreshNames'
<1>1. TypeOK /\ TypeOK' /\ FreshNames /\ KnownFiles
  BY NextTypeOK DEF FilesInv
<1>2. ASSUME NEW c \in Calls, CallStep(c)
      PROVE  /\ gone' \subseteq told' /\ told' \subseteq minted'
             /\ \A f \in Files \ minted' : row'[f] = None
  <2>1. pc[c] = "remove" => Current(c) \in told
    BY <1>1, CurrentType DEF KnownFiles, FilePoints
  <2>2. gone' \subseteq told \cup gone
    BY <1>1, <1>2, <2>1, IdSteps
  <2>3. told' \subseteq minted
    <3>1. CASE told' = told
      BY <1>1, <3>1 DEF FreshNames
    <3>2. CASE told' # told
      BY <1>1, <1>2, <3>2, IdSteps, ToldByUploads DEF FreshNames
    <3> QED BY <3>1, <3>2
  <2>4. ASSUME NEW f \in Files \ minted'
        PROVE  row'[f] = None
    <3>1. f \notin minted /\ f \notin told /\ row[f] = None
      BY <1>1, <1>2, <2>4, Growing DEF FreshNames, Next
    <3>2. pc[c] = "insert" => Current(c) \in minted
      BY <1>1, CurrentType, PointsOfRequests DEF FreshNames, UploadPoints
    <3> QED
      BY <1>1, <1>2, <2>1, <3>1, <3>2, WritesAtCurrent
  <2> QED
    BY <1>1, <1>2, <2>2, <2>3, <2>4, Growing DEF FreshNames, Next
<1>3. ASSUME NEW c \in Calls, CallStep(c), ~ReceiveUpload(c), NEW d \in Calls, IsUpload(d)'
      PROVE  /\ IsUpload(d) /\ req'[d] = req[d]
             /\ Names(d) \cap told' = {}
  <2>1. CASE d = c
    <3>1. pc[c] # "idle"
      BY <1>1, <1>3, <2>1, IdSteps
      DEF ReceiveFile, ReceiveList, IsUpload, TypeOK, FileRequests, ListRequests
    <3>2. ~Respond(c)
      BY <1>1, <1>3, <2>1 DEF Respond, IsUpload, TypeOK
    <3> QED
      BY <1>1, <1>3, <2>1, <3>1, <3>2, IdSteps DEF IsUpload, FreshNames
  <2>2. CASE d # c
    <3>1. IsUpload(d) /\ req'[d] = req[d]
      BY <1>1, <1>3, <2>2, OtherCalls DEF IsUpload
    <3>2. CASE told' = told
      BY <1>1, <3>1, <3>2 DEF FreshNames
    <3>3. CASE told' # told
      <4>1. IsUpload(c) /\ told' = told \cup Names(c)
        BY <1>1, <1>3, <3>3, IdSteps, ToldByUploads
      <4> QED
        BY <1>1, <2>2, <3>1, <4>1 DEF FreshNames
    <3> QED BY <3>1, <3>2, <3>3
  <2> QED BY <2>1, <2>2
<1>4. ASSUME NEW c \in Calls, CallStep(c), ~ReceiveUpload(c)
      PROVE  FreshNames'
  <2>1. \A d \in Calls : IsUpload(d)' => Names(d)' = Names(d)
    BY <1>3, <1>4 DEF Names
  <2> QED
    BY <1>1, <1>2, <1>3, <1>4, <2>1, Growing DEF FreshNames, Next
<1>5. ASSUME NEW c \in Calls, ReceiveUpload(c)
      PROVE  FreshNames'
  <2>1. PICK r \in UploadRequests :
            /\ \A i \in DOMAIN r.names : r.names[i] \notin minted
            /\ \A i, j \in DOMAIN r.names : r.names[i] = r.names[j] => i = j
            /\ req' = [req EXCEPT ![c] = r]
            /\ minted' = minted \cup {r.names[i] : i \in DOMAIN r.names}
    BY <1>5 DEF ReceiveUpload
  <2>2. CallStep(c) /\ UNCHANGED told
    BY <1>5 DEF CallStep, ReceiveUpload
  <2>3. req'[c] = r
    BY <1>1, <2>1 DEF TypeOK
  <2>4. /\ Names(c)' \subseteq minted' /\ Names(c)' \cap minted = {}
        /\ \A i, j \in DOMAIN req'[c].names : req'[c].names[i] = req'[c].names[j] => i = j
    BY <2>1, <2>3 DEF Names
  <2>5. ASSUME NEW d \in Calls \ {c}, IsUpload(d)'
        PROVE  /\ IsUpload(d) /\ req'[d] = req[d]
               /\ Names(d)' = Names(d) /\ Names(d) \subseteq minted
    BY <1>1, <2>2, <2>5, OtherCalls DEF IsUpload, Names, FreshNames
  <2>6. minted \subseteq minted' /\ told' \subseteq minted
    BY <1>1, <2>1, <2>2 DEF FreshNames
  <2>7. ASSUME NEW d \in Calls, IsUpload(d)'
        PROVE  /\ Names(d)' \subseteq minted'
               /\ \A i, j \in DOMAIN req'[d].names : req'[d].names[i] = req'[d].names[j] => i = j
               /\ \A e \in Calls \ {d} : IsUpload(e)' => Names(d)' \cap Names(e)' = {}
               /\ Names(d)' \cap told' = {}
    <3>1. CASE d = c
      BY <2>4, <2>5, <2>6, <3>1
    <3>2. CASE d # c
      <4>1. IsUpload(d) /\ req'[d] = req[d] /\ Names(d)' = Names(d) /\ Names(d) \subseteq minted
        BY <2>5, <2>7, <3>2
      <4>2. ASSUME NEW e \in Calls \ {d}, IsUpload(e)'
            PROVE  Names(d)' \cap Names(e)' = {}
        <5>1. CASE e = c
          BY <2>4, <4>1, <5>1
        <5>2. CASE e # c
          BY <1>1, <2>5, <4>1, <4>2, <5>2 DEF FreshNames
        <5> QED BY <5>1, <5>2
      <4> QED
        BY <1>1, <2>2, <2>6, <4>1, <4>2 DEF FreshNames
    <3> QED BY <3>1, <3>2
  <2> QED
    BY <1>2, <2>2, <2>7 DEF FreshNames
<1>6. ASSUME NEW b \in Books, DeleteBook(b)
      PROVE  FreshNames'
  <2>1. UNCHANGED <<minted, told, gone, row, req, pc>>
    BY <1>6 DEF DeleteBook, history
  <2>2. \A c \in Calls : (IsUpload(c)' <=> IsUpload(c)) /\ Names(c)' = Names(c)
    BY <2>1 DEF IsUpload, Names
  <2> QED
    BY <1>1, <2>1, <2>2 DEF FreshNames
<1>7. CASE Restart
  BY <1>1, <1>7 DEF Restart, FreshNames, IsUpload, storeVars
<1>8. CASE UNCHANGED vars
  <2>1. UNCHANGED <<minted, told, gone, row, req, pc>>
    BY <1>8 DEF vars
  <2>2. \A c \in Calls : (IsUpload(c)' <=> IsUpload(c)) /\ Names(c)' = Names(c)
    BY <2>1 DEF IsUpload, Names
  <2> QED
    BY <1>1, <2>1, <2>2 DEF FreshNames
<1> QED
  BY <1>4, <1>5, <1>6, <1>7, <1>8 DEF Next

-----------------------------------------------------------------------------
(* The disk and the table.                                                 *)

\* What a call can do at the points where disk and table disagree.
LEMMA StepsAt ==
  ASSUME NEW c \in Calls, CallStep(c)
  PROVE  /\ pc[c] = "create" => CreateFile(c) \/ DiskFails(c)
         /\ pc[c] = "copy" => CopyFile(c) \/ DiskFails(c)
         /\ pc[c] = "insert" => InsertRow(c) \/ DatabaseFails(c)
         /\ pc[c] = "undo" => Undo(c)
         /\ pc[c] = "unlink" => Unlink(c) \/ DiskFails(c)
         /\ pc[c] = "remove" => RemoveRow(c) \/ DatabaseFails(c)
BY DEF CallStep, ReceiveUpload, ReceiveFile, ReceiveList, NextEntry, CreateFile, CopyFile,
       InsertRow, Undo, Lookup, Unlink, RemoveRow, OpenFile, Stream, List, DiskFails,
       DatabaseFails, Respond

\* What clients know stays whole or is removed, and what is being deleted is no
\* longer on disk: no upload writes a file that clients know.
LEMMA NextKnownFiles ==
  ASSUME FilesInv, [Next]_vars
  PROVE  KnownFiles'
<1>1. TypeOK /\ TypeOK' /\ FreshNames /\ KnownFiles
  BY NextTypeOK DEF FilesInv
<1>2. ASSUME NEW c \in Calls, CallStep(c)
      PROVE  KnownFiles'
  <2>1. pc[c] \in UploadPoints \ {"next"} => Current(c) \notin told
    BY <1>1, CurrentType, PointsOfRequests DEF FreshNames
  <2>2. \A f \in told : disk'[f] # disk[f] => disk'[f] = "none" /\ f = Current(c)
    <3>1. Unlink(c) => disk'[Current(c)] = "none"
      BY <1>1, CurrentType DEF Unlink, TypeOK, FilePoints
    <3>2. pc[c] = "unlink" /\ disk' # disk => Unlink(c)
      BY <1>2 DEF CallStep, ReceiveUpload, ReceiveFile, ReceiveList, NextEntry, CreateFile,
                  CopyFile, InsertRow, Undo, Lookup, RemoveRow, OpenFile, Stream, List,
                  DiskFails, DatabaseFails, Respond, storeVars
    <3> QED
      BY <1>1, <1>2, <2>1, <3>1, <3>2, WritesAtCurrent DEF TypeOK, UploadPoints
  <2>3. \A f \in told' : disk'[f] # "partial"
    <3>1. CASE told' = told
      BY <1>1, <2>2, <3>1 DEF KnownFiles
    <3>2. CASE told' # told
      <4>1. Respond(c) /\ UNCHANGED disk
        BY <1>1, <1>2, <3>2, IdSteps DEF Respond, storeVars
      <4> QED
        BY <1>1, <3>2, <4>1, ToldByUploads DEF KnownFiles
    <3> QED BY <3>1, <3>2
  <2>4. ASSUME NEW d \in Calls, pc'[d] \in FilePoints
        PROVE  req'[d].file \in told'
    <3>1. CASE d = c /\ pc[c] = "idle"
      <4>1. ReceiveFile(c)
        BY <1>1, <1>2, <2>4, <3>1, IdSteps
           DEF ReceiveUpload, ReceiveList, GoTo, Fail, TypeOK, FilePoints
      <4> QED
        BY <1>1, <3>1, <4>1 DEF ReceiveFile, TypeOK
    <3>2. CASE d = c /\ pc[c] # "idle"
      <4>1. ~Respond(c) /\ pc[c] # "done"
        BY <1>1, <1>2, <2>4, <3>2, IdSteps DEF Respond, TypeOK, FilePoints
      <4>2. pc[c] \in FilePoints
        BY <1>1, <1>2, <2>4, <3>2, <4>1
           DEF CallStep, ReceiveUpload, ReceiveFile, ReceiveList, NextEntry, CreateFile,
               CopyFile, InsertRow, Undo, Lookup, Unlink, RemoveRow, OpenFile, Stream, List,
               DiskFails, DatabaseFails, GoTo, Fail, Answer, TypeOK, FilePoints
      <4> QED
        BY <1>1, <1>2, <3>2, <4>1, <4>2, IdSteps, Growing DEF KnownFiles, Next
    <3>3. CASE d # c
      BY <1>1, <1>2, <2>4, <3>3, OtherCalls, Growing DEF KnownFiles, Next
    <3> QED BY <3>1, <3>2, <3>3
  <2>5. ASSUME NEW d \in Calls, pc'[d] = "remove"
        PROVE  disk'[Current(d)'] = "none"
    <3>1. CASE d = c
      <4>1. Unlink(c)
        BY <1>1, <1>2, <2>5, <3>1
           DEF CallStep, ReceiveUpload, ReceiveFile, ReceiveList, NextEntry, CreateFile,
               CopyFile, InsertRow, Undo, Lookup, RemoveRow, OpenFile, Stream, List,
               DiskFails, DatabaseFails, Respond, GoTo, Fail, Answer, TypeOK
      <4> QED
        BY <1>1, <3>1, <4>1, CurrentType DEF Unlink, TypeOK, FilePoints, Current
    <3>2. CASE d # c
      <4>1. pc[d] = "remove" /\ Current(d)' = Current(d)
        BY <1>1, <1>2, <2>5, <3>2, OtherCalls DEF Current
      <4>2. Current(d) \in told /\ disk[Current(d)] = "none" /\ Current(d) \in Files
        BY <1>1, <4>1, CurrentType DEF KnownFiles, FilePoints
      <4> QED
        BY <2>2, <4>1, <4>2
    <3> QED BY <3>1, <3>2
  <2> QED
    BY <2>3, <2>4, <2>5 DEF KnownFiles
<1>3. ASSUME NEW b \in Books, DeleteBook(b)
      PROVE  KnownFiles'
  BY <1>1, <1>3 DEF DeleteBook, KnownFiles, Current
<1>4. CASE Restart
  BY <1>1, <1>4 DEF Restart, KnownFiles, FilePoints, storeVars
<1>5. CASE UNCHANGED vars
  BY <1>1, <1>5 DEF vars, KnownFiles, Current
<1> QED
  BY <1>2, <1>3, <1>4, <1>5 DEF Next

\* A row is written over a whole file and outlives it only by a deletion: the
\* one in flight, or one that is torn.
LEMMA NextRowsAreBacked ==
  ASSUME FilesInv, [Next]_vars
  PROVE  RowsAreBacked'
<1>1. TypeOK /\ FreshNames /\ KnownFiles /\ RowsAreBacked /\ \A c \in Calls : Progress(c)
  BY DEF FilesInv
<1>2. ASSUME NEW c \in Calls, CallStep(c), NEW f \in Files, row'[f] # None
      PROVE  \/ disk'[f] = "whole" \/ f \in torn'
             \/ \E d \in Calls : pc'[d] = "remove" /\ Current(d)' = f
  <2>1. CASE row[f] = None
    <3>1. f = Current(c) /\ pc[c] = "insert"
      <4>1. f = Current(c) /\ pc[c] \in {"insert", "remove"}
        BY <1>1, <1>2, <2>1, WritesAtCurrent
      <4>2. RemoveRow(c) \/ DatabaseFails(c) => row'[f] = None
        BY <1>1, <1>2, <2>1 DEF RemoveRow, DatabaseFails, TypeOK, storeVars
      <4> QED BY <1>2, <4>1, <4>2, StepsAt
    <3>2. disk[f] = "whole"
      BY <1>1, <3>1 DEF Progress
    <3> QED
      BY <1>1, <1>2, <3>1, <3>2, WritesAtCurrent
  <2>2. CASE row[f] # None /\ disk[f] = "whole" /\ disk'[f] # "whole"
    <3>1. f = Current(c) /\ pc[c] \in {"create", "copy", "undo", "unlink"}
      BY <1>1, <1>2, <2>2, WritesAtCurrent
    <3>2. pc[c] \notin {"create", "copy", "undo"}
      BY <1>1, <2>2, <3>1, CurrentType DEF Progress, UploadPoints, TypeOK
    <3>3. Unlink(c)
      BY <1>1, <1>2, <2>2, <3>1, <3>2, StepsAt DEF DiskFails, storeVars
    <3>4. pc'[c] = "remove" /\ Current(c)' = Current(c)
      BY <1>1, <3>3 DEF Unlink, GoTo, Current, TypeOK
    <3> QED BY <3>1, <3>4
  <2>3. CASE f \in torn
    BY <1>1, <1>2, <2>3, Growing DEF Next
  <2>4. ASSUME NEW d \in Calls, pc[d] = "remove", Current(d) = f, row[f] # None
        PROVE  f \in torn' \/ (pc'[d] = "remove" /\ Current(d)' = f)
    <3>1. CASE d # c
      BY <1>1, <1>2, <2>4, <3>1, OtherCalls DEF Current
    <3>2. CASE d = c
      <4>1. ~RemoveRow(c)
        BY <1>1, <1>2, <2>4, <3>2 DEF RemoveRow, TypeOK
      <4>2. DatabaseFails(c)
        BY <1>2, <2>4, <3>2, <4>1, StepsAt
      <4> QED
        BY <2>4, <3>2, <4>2 DEF DatabaseFails
    <3> QED BY <3>1, <3>2
  <2> QED
    BY <1>1, <2>1, <2>2, <2>3, <2>4 DEF RowsAreBacked
<1>3. ASSUME NEW b \in Books, DeleteBook(b)
      PROVE  RowsAreBacked'
  <2>1. \A c \in Calls : Current(c)' = Current(c)
    BY <1>3 DEF DeleteBook, Current
  <2> QED
    BY <1>1, <1>3, <2>1 DEF DeleteBook, RowsAreBacked, history
<1>4. CASE Restart
  <2>1. \A c \in Calls : pc[c] = "remove" => Current(c) \in torn'
    BY <1>4 DEF Restart
  <2>2. UNCHANGED <<disk, row>> /\ torn \subseteq torn'
    BY <1>4 DEF Restart, storeVars
  <2> QED
    BY <1>1, <2>1, <2>2 DEF RowsAreBacked
<1>5. CASE UNCHANGED vars
  <2>1. \A c \in Calls : Current(c)' = Current(c)
    BY <1>5 DEF vars, Current
  <2> QED
    BY <1>1, <1>5, <2>1 DEF vars, RowsAreBacked
<1> QED
  BY <1>2, <1>3, <1>4, <1>5 DEF Next, RowsAreBacked

\* A file is on disk before its row and leaves before it; what is on disk
\* without a row is where an upload is, or where one was cut short.
LEMMA NextDiskIsAccounted ==
  ASSUME FilesInv, [Next]_vars
  PROVE  DiskIsAccounted'
<1> DEFINE Writing(c) == pc[c] \in {"copy", "insert", "undo"}
<1>1. TypeOK /\ FreshNames /\ KnownFiles /\ DiskIsAccounted /\ \A c \in Calls : Progress(c)
  BY DEF FilesInv
<1>2. ASSUME NEW c \in Calls, CallStep(c), NEW f \in Files, disk'[f] # "none"
      PROVE  \/ row'[f] # None \/ f \in spilt'
             \/ \E d \in Calls : Writing(d)' /\ Current(d)' = f
  <2>1. CASE disk[f] = "none"
    <3>1. f = Current(c) /\ pc[c] \in {"create", "copy", "undo", "unlink"}
      BY <1>1, <1>2, <2>1, WritesAtCurrent
    <3>2. ~DiskFails(c) /\ ~Undo(c) /\ ~Unlink(c)
      BY <1>1, <1>2, <2>1, <3>1 DEF DiskFails, Undo, Unlink, TypeOK, storeVars
    <3>3. CreateFile(c) \/ CopyFile(c)
      BY <1>2, <3>1, <3>2, StepsAt
    <3>4. Writing(c)' /\ Current(c)' = Current(c)
      BY <1>1, <3>3 DEF CreateFile, CopyFile, GoTo, Current, TypeOK
    <3> QED BY <3>1, <3>4
  <2>2. CASE disk[f] # "none" /\ row[f] # None /\ row'[f] = None
    <3>1. f = Current(c) /\ pc[c] \in {"insert", "remove"}
      BY <1>1, <1>2, <2>2, WritesAtCurrent
    <3>2. pc[c] # "remove"
      BY <1>1, <2>2, <3>1 DEF KnownFiles
    <3>3. row[f] = None
      BY <1>1, <3>1, <3>2, CurrentType DEF Progress, UploadPoints, TypeOK
    <3> QED BY <2>2, <3>3
  <2>3. CASE f \in spilt
    BY <1>1, <1>2, <2>3, Growing DEF Next
  <2>4. ASSUME NEW d \in Calls, Writing(d), Current(d) = f
        PROVE  row'[f] # None \/ f \in spilt' \/ (Writing(d)' /\ Current(d)' = f)
    <3>1. CASE d # c
      BY <1>1, <1>2, <2>4, <3>1, OtherCalls DEF Current
    <3>2. CASE d = c
      <4>1. CASE CopyFile(c)
        BY <1>1, <2>4, <3>2, <4>1 DEF CopyFile, GoTo, Current, TypeOK
      <4>2. CASE InsertRow(c)
        BY <1>1, <1>2, <2>4, <3>2, <4>2, CurrentType, BookFilesNoneAssumption
           DEF InsertRow, TypeOK, UploadPoints
      <4>3. CASE Undo(c)
        BY <1>1, <1>2, <2>4, <3>2, <4>3 DEF Undo, TypeOK
      <4>4. CASE DiskFails(c) /\ pc[c] = "copy"
        BY <2>4, <3>2, <4>4 DEF DiskFails
      <4>5. CASE DatabaseFails(c) /\ pc[c] = "insert"
        BY <1>1, <2>4, <3>2, <4>5 DEF DatabaseFails, GoTo, Current, TypeOK
      <4> QED
        BY <1>2, <2>4, <3>2, <4>1, <4>2, <4>3, <4>4, <4>5, StepsAt
    <3> QED BY <3>1, <3>2
  <2> QED
    BY <1>1, <2>1, <2>2, <2>3, <2>4 DEF DiskIsAccounted
<1>3. ASSUME NEW b \in Books, DeleteBook(b)
      PROVE  DiskIsAccounted'
  <2>1. \A c \in Calls : Current(c)' = Current(c)
    BY <1>3 DEF DeleteBook, Current
  <2> QED
    BY <1>1, <1>3, <2>1 DEF DeleteBook, DiskIsAccounted, history
<1>4. CASE Restart
  <2>1. \A c \in Calls : Writing(c) => Current(c) \in spilt'
    BY <1>4 DEF Restart
  <2>2. UNCHANGED <<disk, row>> /\ spilt \subseteq spilt'
    BY <1>4 DEF Restart, storeVars
  <2> QED
    BY <1>1, <2>1, <2>2 DEF DiskIsAccounted
<1>5. CASE UNCHANGED vars
  <2>1. \A c \in Calls : Current(c)' = Current(c)
    BY <1>5 DEF vars, Current
  <2> QED
    BY <1>1, <1>5, <2>1 DEF vars, DiskIsAccounted
<1> QED
  BY <1>2, <1>3, <1>4, <1>5 DEF Next, DiskIsAccounted

\* What a download has opened is whole: clients know no other file.
LEMMA NextOnlyWhole ==
  ASSUME FilesInv, [Next]_vars
  PROVE  OnlyWholeFilesServed'
<1>1. TypeOK /\ KnownFiles /\ OnlyWholeFilesServed
  BY DEF FilesInv
<1>2. ASSUME NEW c \in Calls, CallStep(c), NEW d \in Calls, pc'[d] = "stream"
      PROVE  data'[d] = "whole"
  <2>1. CASE d = c
    <3>1. OpenFile(c)
      BY <1>1, <1>2, <2>1
         DEF CallStep, ReceiveUpload, ReceiveFile, ReceiveList, NextEntry, CreateFile, CopyFile,
             InsertRow, Undo, Lookup, Unlink, RemoveRow, Stream, List, DiskFails, DatabaseFails,
             Respond, GoTo, Fail, Answer, TypeOK
    <3>2. Current(c) \in told /\ Current(c) \in Files /\ pc[c] = "open"
      BY <1>1, <3>1, CurrentType DEF OpenFile, KnownFiles, FilePoints
    <3>3. disk[Current(c)] # "partial"
      BY <1>1, <3>2 DEF KnownFiles
    <3> QED
      BY <1>1, <1>2, <2>1, <3>1, <3>2, <3>3 DEF OpenFile, Fail, TypeOK
  <2>2. CASE d # c
    BY <1>1, <1>2, <2>2, OtherCalls DEF OnlyWholeFilesServed
  <2> QED BY <2>1, <2>2
<1>3. ASSUME NEW b \in Books, DeleteBook(b)
      PROVE  OnlyWholeFilesServed'
  BY <1>1, <1>3 DEF DeleteBook, OnlyWholeFilesServed
<1>4. CASE Restart
  BY <1>4 DEF Restart, OnlyWholeFilesServed
<1>5. CASE UNCHANGED vars
  BY <1>1, <1>5 DEF vars, OnlyWholeFilesServed
<1> QED
  BY <1>2, <1>3, <1>4, <1>5 DEF Next, OnlyWholeFilesServed

-----------------------------------------------------------------------------
(* The theorems.                                                           *)

\* Nothing is on disk, in a row or known to a client at the beginning.
LEMMA InitFilesInv == Init => FilesInv
<1> SUFFICES ASSUME Init
             PROVE  FilesInv
  OBVIOUS
<1>1. TypeOK
  BY InitTypeOK
<1>2. FreshNames /\ KnownFiles
  BY DEF Init, FreshNames, KnownFiles, IsUpload, FilePoints
<1>3. \A c \in Calls : Progress(c)
  BY DEF Init, Progress, UploadPoints
<1>4. RowsAreBacked /\ DiskIsAccounted /\ OnlyWholeFilesServed
  BY DEF Init, RowsAreBacked, DiskIsAccounted, OnlyWholeFilesServed
<1> QED
  BY <1>1, <1>2, <1>3, <1>4 DEF FilesInv

\* Every step keeps the invariant, one lemma per part.
LEMMA NextFilesInv == FilesInv /\ [Next]_vars => FilesInv'
BY NextTypeOK, NextFreshNames, NextProgress, NextKnownFiles, NextRowsAreBacked,
   NextDiskIsAccounted, NextOnlyWhole DEF FilesInv

\* The invariant is one of every reachable state.
LEMMA FilesInvHolds == Spec => []FilesInv
BY InitFilesInv, NextFilesInv, PTL DEF Spec

\* A row without its file on disk is the mark of a deletion in flight or torn,
\* in every interleaving of uploads, deletions, failures and restarts.
THEOREM RowsBacked == Spec => []RowsAreBacked
<1>1. FilesInv => RowsAreBacked
  BY DEF FilesInv
<1> QED
  BY <1>1, FilesInvHolds, PTL

\* A file on disk without its row is the mark of an upload in flight or cut short.
THEOREM DiskAccounted == Spec => []DiskIsAccounted
<1>1. FilesInv => DiskIsAccounted
  BY DEF FilesInv
<1> QED
  BY <1>1, FilesInvHolds, PTL

\* A download streams whole files only.
THEOREM WholeFilesServed == Spec => []OnlyWholeFilesServed
<1>1. FilesInv => OnlyWholeFilesServed
  BY DEF FilesInv
<1> QED
  BY <1>1, FilesInvHolds, PTL

\* An upload that answers OK has stored its whole request.
THEOREM UploadsStored == Spec => []AnsweredUploadsExist
<1>1. FilesInv => AnsweredUploadsExist
  <2> SUFFICES ASSUME FilesInv, NEW c \in Calls,
                      pc[c] = "done", err[c] = "nil", req[c].op = "upload",
                      NEW i \in DOMAIN req[c].names
               PROVE  Stored(c, i) /\ req[c].names[i] \in {a.file : a \in ans[c]}
    BY DEF AnsweredUploadsExist, Stored
  <2>1. Stored(c, i) /\ ans[c] = {AnswerOf(f) : f \in Names(c)}
    BY DEF FilesInv, Progress
  <2>2. AnswerOf(req[c].names[i]) \in ans[c]
    BY <2>1 DEF Names
  <2>3. AnswerOf(req[c].names[i]).file = req[c].names[i]
    BY DEF AnswerOf
  <2> QED BY <2>1, <2>2, <2>3
<1> QED
  BY <1>1, FilesInvHolds, PTL

-----------------------------------------------------------------------------
(* The refinement of FileStore.                                            *)

\* The files with a row and a whole file on disk, and the ids ever in a row.
Available == {f \in Files : row[f] # None /\ disk[f] = "whole"}
Taken == {f \in Files : row[f] # None} \cup gone

\* Nothing is available at the beginning.
LEMMA InitRefines == Init => Store!Init
BY DEF Init, Store!Init

\* Files become available when their row is inserted and stop being available
\* when they are unlinked; all other writes change no available file.
LEMMA CallRefines ==
  ASSUME FilesInv, NEW c \in Calls, CallStep(c)
  PROVE  Store!Next \/ UNCHANGED <<Available, Taken>>
<1>1. TypeOK /\ TypeOK' /\ FreshNames /\ KnownFiles /\ Progress(c)
  BY NextTypeOK DEF FilesInv, Next
<1>2. CASE InsertRow(c)
  <2>1. /\ pc[c] = "insert" /\ Current(c) \in Files /\ Current(c) \notin told
        /\ RowOf(req[c], pos[c]) # None
    BY <1>1, <1>2, CurrentType, PointsOfRequests, BookFilesNoneAssumption
       DEF InsertRow, FreshNames, UploadPoints
  <2>2. row[Current(c)] = None /\ disk[Current(c)] = "whole"
    BY <1>1, <2>1, CurrentType DEF Progress, UploadPoints, TypeOK
  <2>3. UNCHANGED <<disk, gone>> /\ row' = [row EXCEPT ![Current(c)] = RowOf(req[c], pos[c])]
    BY <1>2 DEF InsertRow, history
  <2>4. Available' = Available \cup {Current(c)} /\ Taken' = Taken \cup {Current(c)}
    BY <1>1, <2>1, <2>2, <2>3 DEF Available, Taken, TypeOK
  <2>5. Current(c) \notin Taken
    BY <1>1, <2>1, <2>2 DEF Taken, FreshNames
  <2>6. PICK f \in Files : f = Current(c)
    BY <2>1
  <2>7. Store!Store(f)
    BY <2>4, <2>5, <2>6 DEF Store!Store, Available, Taken
  <2> QED BY <2>7 DEF Store!Next
<1>3. CASE Unlink(c)
  <2>1. /\ Current(c) \in Files
        /\ UNCHANGED <<row, gone>> /\ disk' = [disk EXCEPT ![Current(c)] = "none"]
    BY <1>1, <1>3, CurrentType DEF Unlink, FilePoints, history
  <2>2. Available' = Available \ {Current(c)} /\ Taken' = Taken
    BY <1>1, <2>1 DEF Available, Taken, TypeOK
  <2>3. CASE Current(c) \in Available
    <3>1. PICK f \in Files : f = Current(c)
      BY <2>1
    <3>2. Store!Remove(f)
      BY <2>2, <2>3, <3>1 DEF Store!Remove, Available, Taken
    <3> QED BY <3>2 DEF Store!Next
  <2>4. CASE Current(c) \notin Available
    BY <2>2, <2>4
  <2> QED BY <2>3, <2>4
<1>4. CASE RemoveRow(c)
  <2>1. Current(c) \in Files /\ disk[Current(c)] = "none" /\ UNCHANGED disk
    BY <1>1, <1>4, CurrentType DEF RemoveRow, FilePoints, KnownFiles
  <2>2. \/ UNCHANGED <<row, gone>>
        \/ /\ row' = [row EXCEPT ![Current(c)] = None] /\ gone' = gone \cup {Current(c)}
           /\ row[Current(c)] # None
    BY <1>4 DEF RemoveRow
  <2> QED
    BY <1>1, <2>1, <2>2 DEF Available, Taken, TypeOK
<1>5. CASE CreateFile(c) \/ CopyFile(c) \/ Undo(c)
  <2>1. pc[c] \in {"create", "copy", "undo"} /\ UNCHANGED <<row, gone>>
    BY <1>5 DEF CreateFile, CopyFile, Undo, history
  <2>2. row[Current(c)] = None
    BY <1>1, <2>1, CurrentType DEF Progress, UploadPoints, TypeOK
  <2>3. \A f \in Files : row[f] # None => disk'[f] = disk[f]
    BY <1>1, <2>2, WritesAtCurrent
  <2> QED
    BY <2>1, <2>3 DEF Available, Taken
<1>6. CASE ~(InsertRow(c) \/ Unlink(c) \/ RemoveRow(c) \/ CreateFile(c) \/ CopyFile(c) \/ Undo(c))
  <2>1. UNCHANGED <<disk, row, gone>>
    BY <1>6 DEF CallStep, ReceiveUpload, ReceiveFile, ReceiveList, NextEntry, Lookup, OpenFile,
                Stream, List, DiskFails, DatabaseFails, Respond, storeVars, history
  <2> QED
    BY <2>1 DEF Available, Taken
<1> QED
  BY <1>2, <1>3, <1>4, <1>5, <1>6

\* Every step is one of FileStore or a stutter; restarts and deletions of books
\* write no file and no row.
LEMMA StepRefines == FilesInv /\ [Next]_vars => [Store!Next]_Store!vars
<1> SUFFICES ASSUME FilesInv, [Next]_vars
             PROVE  Store!Next \/ UNCHANGED <<Available, Taken>>
  BY DEF Store!vars, Available, Taken
<1>1. ASSUME NEW c \in Calls, CallStep(c)
      PROVE  Store!Next \/ UNCHANGED <<Available, Taken>>
  BY <1>1, CallRefines
<1>2. CASE Restart \/ (\E b \in Books : DeleteBook(b)) \/ UNCHANGED vars
  BY <1>2 DEF Restart, DeleteBook, vars, storeVars, history, Available, Taken
<1> QED
  BY <1>1, <1>2 DEF Next

\* The service implements FileStore: a file becomes available as a whole, under
\* an id never used before, disappears at most once, and never comes back.
THEOREM RefinesFileStore == Spec => ImplementsFileStore
BY InitRefines, StepRefines, FilesInvHolds, PTL DEF Spec, ImplementsFileStore, Store!Spec

-----------------------------------------------------------------------------
(* Without failures.                                                       *)

\* Rows and disk agree but for the calls in flight.
StoresAgree ==
    \A f \in Files :
        /\ row[f] # None => \/ disk[f] = "whole"
                            \/ \E c \in Calls : pc[c] = "remove" /\ Current(c) = f
        /\ disk[f] # "none" =>
              \/ row[f] # None
              \/ \E c \in Calls : pc[c] \in {"copy", "insert"} /\ Current(c) = f

\* Nothing is torn or spilt unless something fails.
LEMMA NothingTorn ==
  ASSUME ~Faults
  PROVE  Spec => [](torn = {} /\ spilt = {} /\ \A c \in Calls : pc[c] # "undo")
<1> DEFINE J == torn = {} /\ spilt = {} /\ \A c \in Calls : pc[c] # "undo"
<1>1. Init => J
  BY DEF Init
<1>2. TypeOK /\ J /\ [Next]_vars => J'
  <2> SUFFICES ASSUME TypeOK, J, [Next]_vars
               PROVE  J'
    OBVIOUS
  <2>1. ASSUME NEW c \in Calls, CallStep(c)
        PROVE  torn' = {} /\ spilt' = {}
    BY <2>1 DEF CallStep, ReceiveUpload, ReceiveFile, ReceiveList, NextEntry, CreateFile, CopyFile,
                InsertRow, Undo, Lookup, Unlink, RemoveRow, OpenFile, Stream, List, DiskFails,
                DatabaseFails, Respond, history
  <2>2. ASSUME NEW c \in Calls, CallStep(c)
        PROVE  \A d \in Calls : pc'[d] # "undo"
    BY <2>2 DEF CallStep, ReceiveUpload, ReceiveFile, ReceiveList, NextEntry, CreateFile, CopyFile,
                InsertRow, Undo, Lookup, Unlink, RemoveRow, OpenFile, Stream, List, DiskFails,
                DatabaseFails, Respond, GoTo, Fail, Answer, TypeOK
  <2> QED
    BY <2>1, <2>2 DEF Next, DeleteBook, Restart, history, vars
<1> QED
  BY <1>1, <1>2, TypeCorrect, PTL DEF Spec

\* Concurrency alone never leaves a row without a file or a file without a row:
\* without failures, every difference belongs to a call that is under way, and
\* a service at rest has none.
THEOREM FaultlessStoresAgree ==
  ASSUME ~Faults
  PROVE  Spec => []StoresAgree
<1>1. /\ RowsAreBacked /\ DiskIsAccounted
      /\ torn = {} /\ spilt = {} /\ (\A c \in Calls : pc[c] # "undo")
      => StoresAgree
  BY DEF RowsAreBacked, DiskIsAccounted, StoresAgree
<1> QED
  BY <1>1, NothingTorn, RowsBacked, DiskAccounted, PTL
=============================================================================
