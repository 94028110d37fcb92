----------------------------- MODULE UploadsProofs -----------------------------
(***************************************************************************)
(* Proofs about Uploads, for any number of requests, of which any number   *)
(* overlap, any clock and any names.                                       *)
(***************************************************************************)
EXTENDS Uploads, TLAPS

\* What the constants are.
Bounds == MaxRequests \in Nat /\ MaxTicks \in Nat /\ Names # {}

-----------------------------------------------------------------------------
(* Type correctness.                                                       *)

LEMMA IdleType ==
  ASSUME Bounds, NEW r \in Request
  PROVE  Idle \in Memory /\ Done \in Memory
<1>1. 1 \in Request /\ 0 \in 0 .. MaxTicks
  BY DEF Request, Bounds
<1>2. (CHOOSE n \in Names : TRUE) \in Names
  BY DEF Bounds
<1>3. SomeDocument \in Document
  BY <1>1, <1>2 DEF SomeDocument, Document, File
<1>4. Idle \in Memory
  BY <1>3 DEF Idle, Memory, Op
<1>5. QED
  BY <1>4 DEF Done, Memory

LEMMA DoneFields == Done.pc = "done"
BY DEF Done, Idle

\* A step after which request r remembers m, and no other request changed.
Remembers(r, m) ==
  /\ req[r] \in Memory /\ m \in Memory
  /\ req' = [req EXCEPT ![r] = m]

LEMMA RemembersType ==
  ASSUME TypeOK, NEW r \in Request, NEW m, Remembers(r, m)
  PROVE  /\ req' \in [Request -> Memory] /\ req'[r] = m
         /\ \A q \in Request : q # r => req'[q] = req[q]
BY DEF TypeOK, Remembers

LEMMA EndsRemembers ==
  ASSUME Bounds, TypeOK, NEW r \in Request, Goes(r, Done)
  PROVE  Remembers(r, Done)
BY IdleType DEF Goes, TypeOK, Remembers

\* A document is about to be inserted.
LEMMA UploadRemembers ==
  ASSUME Bounds, TypeOK, NEW r \in Request, UploadDocument(r)
  PROVE  \E m : /\ Remembers(r, m) /\ m.pc = "insert"
                /\ m.document.id = r /\ m.document.file \in File
                /\ disk' = disk \cup {m.document.file}
<1>1. PICK name \in Names :
        LET document == [id |-> r, file |-> <<clock, name>>]
        IN /\ disk' = disk \cup {document.file}
           /\ Goes(r, [Idle EXCEPT !.pc = "insert", !.op = "uploadDocument",
                                   !.document = document])
  BY DEF UploadDocument
<1> DEFINE document == [id |-> r, file |-> <<clock, name>>]
           m == [Idle EXCEPT !.pc = "insert", !.op = "uploadDocument", !.document = document]
<1>2. document \in Document /\ document.id = r /\ document.file \in File
  BY DEF Document, File, TypeOK
<1>3. disk' = disk \cup {document.file} /\ Goes(r, m)
  BY <1>1
<1> HIDE DEF document
<1>4. m \in Memory /\ m.pc = "insert" /\ m.document = document
  BY <1>2, IdleType DEF Memory, Op
<1> HIDE DEF m
<1>5. Remembers(r, m)
  BY <1>3, <1>4 DEF Goes, Remembers, TypeOK
<1>6. QED
  BY <1>2, <1>3, <1>4, <1>5

LEMMA DeleteRemembers ==
  ASSUME Bounds, TypeOK, NEW r \in Request, DeleteDocument(r)
  PROVE  \E m : Remembers(r, m) /\ m.pc = "unlink" /\ m.document \in documents
<1>1. PICK document \in documents :
        Goes(r, [Idle EXCEPT !.pc = "unlink", !.op = "deleteDocument",
                             !.document = document])
  BY DEF DeleteDocument
<1> DEFINE m == [Idle EXCEPT !.pc = "unlink", !.op = "deleteDocument",
                             !.document = document]
<1>2. m \in Memory /\ m.pc = "unlink" /\ m.document = document
  BY IdleType DEF Memory, Op, TypeOK
<1>3. Goes(r, m)
  BY <1>1
<1> HIDE DEF m
<1>4. QED
  BY <1>2, <1>3 DEF Goes, Remembers, TypeOK

LEMMA UnlinkRemembers ==
  ASSUME TypeOK, NEW r \in Request, UnlinkFile(r)
  PROVE  \E m : Remembers(r, m) /\ m.pc = "remove" /\ m.document = req[r].document
<1> DEFINE m == [req[r] EXCEPT !.pc = "remove"]
<1>1. req[r] \in Memory
  BY DEF TypeOK
<1>2. m \in Memory /\ m.pc = "remove" /\ m.document = req[r].document
  BY <1>1 DEF Memory
<1>3. req' = [req EXCEPT ![r] = m]
  BY DEF UnlinkFile, Goes
<1> HIDE DEF m
<1>4. QED
  BY <1>1, <1>2, <1>3 DEF Remembers

LEMMA ReadRemembers ==
  ASSUME Bounds, TypeOK, NEW r \in Request,
         NEW o \in {"uploadPhoto", "deletePhoto", "otherSave"}, ReadPhoto(r, o)
  PROVE  \E m : /\ Remembers(r, m) /\ m.op = o
                /\ m.pc = IF o = "otherSave" THEN "load" ELSE "swap"
                /\ m.base = profilePhoto /\ m.photo = profilePhoto
<1> DEFINE pc == IF o = "otherSave" THEN "load" ELSE "swap"
           m == [Idle EXCEPT !.pc = pc, !.op = o, !.base = profilePhoto,
                             !.photo = profilePhoto]
<1>1. pc \in {"load", "swap"}
  OBVIOUS
<1>2. Goes(r, m)
  BY DEF ReadPhoto
<1> HIDE DEF pc
<1>3. /\ m \in Memory /\ m.pc = pc /\ m.op = o /\ m.base = profilePhoto
      /\ m.photo = profilePhoto
  BY <1>1, IdleType DEF Memory, Op, TypeOK
<1> HIDE DEF m
<1>4. Remembers(r, m)
  BY <1>2, <1>3 DEF Goes, Remembers, TypeOK
<1>5. QED
  BY <1>3, <1>4 DEF pc

\* The photo that upload or deletion r will save.
Chosen(r, o) == IF o = "uploadPhoto" THEN r ELSE NONE

LEMMA SwapRemembers ==
  ASSUME Bounds, TypeOK, NEW r \in Request, SwapFiles(r)
  PROVE  \E m : /\ Remembers(r, m) /\ m.pc = "find" /\ m.op = req[r].op
                /\ m.base = req[r].base /\ m.photo = Chosen(r, req[r].op)
                /\ photos' = (photos \ {req[r].base})
                               \cup (IF req[r].op = "uploadPhoto" THEN {r} ELSE {})
<1> DEFINE new == IF req[r].op = "uploadPhoto" THEN {r} ELSE {}
           photo == Chosen(r, req[r].op)
           m == [req[r] EXCEPT !.pc = "find", !.photo = photo]
<1>1. photos' = (photos \ {req[r].base}) \cup new
  BY DEF SwapFiles
<1>2. photo = IF new = {} THEN NONE ELSE r
  BY DEF Chosen
<1>3. photo \in Photo \cup {NONE}
  BY DEF Chosen, Photo, Request, Bounds
<1>4. req[r] \in Memory
  BY DEF TypeOK
<1>5. Goes(r, [req[r] EXCEPT !.pc = "find", !.photo = IF new = {} THEN NONE ELSE r])
  BY DEF SwapFiles
<1>6. Goes(r, m)
  BY <1>2, <1>5
<1> HIDE DEF photo
<1>7. /\ m \in Memory /\ m.pc = "find" /\ m.op = req[r].op /\ m.base = req[r].base
      /\ m.photo = photo
  BY <1>3, <1>4 DEF Memory
<1> HIDE DEF m
<1>8. Remembers(r, m)
  BY <1>4, <1>6, <1>7 DEF Goes, Remembers
<1>9. QED
  BY <1>1, <1>7, <1>8 DEF photo

LEMMA FindRemembers ==
  ASSUME TypeOK, NEW r \in Request, FindUser(r)
  PROVE  \E m : /\ Remembers(r, m) /\ m.pc = "load" /\ m.op = req[r].op
                /\ m.base = req[r].base /\ m.photo = req[r].photo
<1> DEFINE m == [req[r] EXCEPT !.pc = "load"]
<1>1. req[r] \in Memory
  BY DEF TypeOK
<1>2. /\ m \in Memory /\ m.pc = "load" /\ m.op = req[r].op /\ m.base = req[r].base
      /\ m.photo = req[r].photo
  BY <1>1 DEF Memory
<1>3. req' = [req EXCEPT ![r] = m]
  BY DEF FindUser, Goes
<1> HIDE DEF m
<1>4. QED
  BY <1>1, <1>2, <1>3 DEF Remembers

LEMMA LoadRemembers ==
  ASSUME TypeOK, NEW r \in Request, LoadUser(r)
  PROVE  \E m : /\ Remembers(r, m) /\ m.pc = "write" /\ m.op = req[r].op
                /\ m.base = req[r].base /\ m.photo = req[r].photo
                /\ m.differs = (profilePhoto # req[r].photo)
<1> DEFINE differs == profilePhoto # req[r].photo
           m == [req[r] EXCEPT !.pc = "write", !.differs = differs]
<1>1. req[r] \in Memory
  BY DEF TypeOK
<1>2. differs \in BOOLEAN /\ req' = [req EXCEPT ![r] = m]
  BY DEF LoadUser, Goes
<1> HIDE DEF differs
<1>3. /\ m.pc = "write" /\ m.op = req[r].op /\ m.base = req[r].base
      /\ m.photo = req[r].photo /\ m.differs = differs
  BY <1>1 DEF Memory
<1>4. m \in Memory
  BY <1>1, <1>2 DEF Memory
<1> HIDE DEF m
<1>5. QED
  BY <1>1, <1>2, <1>3, <1>4 DEF Remembers, differs

LEMMA InitType == ASSUME Bounds PROVE Init => TypeOK
<1> SUFFICES ASSUME Init PROVE TypeOK
  OBVIOUS
<1>1. req \in [Request -> Memory]
  BY IdleType DEF Init
<1>2. profilePhoto \in Photo \cup {NONE} /\ photos \subseteq Photo
  BY DEF Init, Photo, NONE, Bounds
<1>3. clock \in 0 .. MaxTicks
  BY DEF Init, Bounds
<1>4. QED
  BY <1>1, <1>2, <1>3 DEF Init, TypeOK

\* Every step keeps the types.
LEMMA NextType ==
  ASSUME Bounds, TypeOK, [Next]_vars PROVE TypeOK'
<1> USE DEF docVars, photoVars
<1>1. CASE Tick
  BY <1>1 DEF Tick, TypeOK, Bounds
<1>2. ASSUME NEW r \in Request, UploadDocument(r) PROVE TypeOK'
  <2>1. PICK m : /\ Remembers(r, m) /\ m.document.file \in File
                 /\ disk' = disk \cup {m.document.file}
    BY <1>2, UploadRemembers
  <2>2. req' \in [Request -> Memory]
    BY <2>1, RemembersType
  <2>3. UNCHANGED <<documents, unlinked, clock, failed, photoVars>>
    BY <1>2 DEF UploadDocument
  <2>4. QED
    BY <2>1, <2>2, <2>3 DEF TypeOK
<1>3. ASSUME NEW r \in Request, DeleteDocument(r) PROVE TypeOK'
  BY <1>3, DeleteRemembers, RemembersType DEF DeleteDocument, TypeOK
<1>4. ASSUME NEW r \in Request, InsertDocument(r) PROVE TypeOK'
  <2>1. req[r].document \in Document
    BY DEF TypeOK, Memory
  <2>2. QED
    BY <1>4, <2>1, EndsRemembers, RemembersType DEF InsertDocument, TypeOK
<1>5. ASSUME NEW r \in Request, UnlinkFile(r) PROVE TypeOK'
  <2>1. req[r].document.file \in File
    BY DEF TypeOK, Memory, Document
  <2>2. QED
    BY <1>5, <2>1, UnlinkRemembers, RemembersType DEF UnlinkFile, TypeOK
<1>6. ASSUME NEW r \in Request, RemoveDocument(r) PROVE TypeOK'
  BY <1>6, EndsRemembers, RemembersType DEF RemoveDocument, TypeOK
<1>7. ASSUME NEW r \in Request, PhotoRoutes(r) PROVE TypeOK'
  BY <1>7, ReadRemembers, RemembersType
     DEF PhotoRoutes, UploadPhoto, DeletePhoto, OtherSave, ReadPhoto, TypeOK
<1>8. ASSUME NEW r \in Request, SwapFiles(r) PROVE TypeOK'
  <2>1. r \in Photo
    BY DEF Request, Photo, Bounds
  <2>2. photos' \subseteq Photo /\ req' \in [Request -> Memory]
    BY <1>8, <2>1, SwapRemembers, RemembersType DEF TypeOK
  <2>3. QED
    BY <1>8, <2>2 DEF SwapFiles, TypeOK
<1>9. ASSUME NEW r \in Request, WriteFails(r) PROVE TypeOK'
  BY <1>9, EndsRemembers, RemembersType DEF WriteFails, TypeOK
<1>10. ASSUME NEW r \in Request, FindUser(r) PROVE TypeOK'
  BY <1>10, FindRemembers, RemembersType DEF FindUser, TypeOK
<1>11. ASSUME NEW r \in Request, LoadUser(r) PROVE TypeOK'
  BY <1>11, LoadRemembers, RemembersType DEF LoadUser, TypeOK
<1>12. ASSUME NEW r \in Request, WriteUser(r) PROVE TypeOK'
  <2>1. profilePhoto' \in Photo \cup {NONE}
    BY <1>12 DEF WriteUser, TypeOK, Memory
  <2>2. stale' \in BOOLEAN
    BY <1>12, Zenon DEF WriteUser, TypeOK
  <2>3. req' \in [Request -> Memory]
    BY <1>12, EndsRemembers, RemembersType DEF WriteUser
  <2>4. QED
    BY <1>12, <2>1, <2>2, <2>3 DEF WriteUser, TypeOK
<1>13. ASSUME NEW r \in Request, Fails(r) PROVE TypeOK'
  BY <1>13, EndsRemembers, RemembersType DEF Fails, TypeOK
<1>14. CASE UNCHANGED vars
  BY <1>14 DEF vars, TypeOK
<1>15. QED
  BY <1>1, <1>2, <1>3, <1>4, <1>5, <1>6, <1>7, <1>8, <1>9, <1>10, <1>11, <1>12,
     <1>13, <1>14 DEF Next, DocumentRoutes

\* The state is well typed, however many requests overlap.
THEOREM TypeCorrect ==
  ASSUME Bounds
  PROVE  Spec => []TypeOK
<1>1. Init => TypeOK
  BY InitType
<1>2. TypeOK /\ [Next]_vars => TypeOK'
  BY NextType
<1>3. QED
  BY <1>1, <1>2, PTL DEF Spec

-----------------------------------------------------------------------------
(* Documents and their files.                                              *)

Inserting(r, f) == req[r].pc = "insert" /\ req[r].document.file = f
Removing(d) == \E r \in Request : req[r].pc = "remove" /\ req[r].document = d

\* A document in the table, or under way to it, has its file, or had it until a
\* deletion.  Who put a document into the table is done, and puts none again.
DocumentsSound ==
  /\ \A d \in documents : req[d.id].pc = "done" /\ d.file \in disk \cup unlinked
  /\ \A r \in Request : req[r].pc = "insert" =>
       req[r].document.id = r /\ req[r].document.file \in disk \cup unlinked
  /\ \A r \in Request : req[r].pc \in {"unlink", "remove"} =>
       req[r].document \in Document /\ req[req[r].document.id].pc = "done"

\* A file has a document under way, or one in the table whose deletion has not yet
\* taken the file.
FilesSound ==
  failed = {} =>
    \A f \in disk : \/ \E r \in Request : Inserting(r, f)
                    \/ \E d \in documents : d.file = f /\ ~Removing(d)

DocInv == TypeOK /\ DocumentsSound /\ FilesSound

\* A step that leaves documents and files alone.
LEMMA OtherDocs ==
  ASSUME DocInv, NEW r \in Request, NEW m, Remembers(r, m), UNCHANGED docVars,
         failed \subseteq failed', req[r].pc # "done",
         req[r].pc = "insert" => failed' # {},
         m.pc \notin {"insert", "remove"},
         m.pc = "unlink" => m.document \in documents
  PROVE  DocumentsSound' /\ FilesSound'
<1>1. /\ req'[r] = m /\ \A q \in Request : q # r => req'[q] = req[q]
      /\ documents' = documents /\ disk' = disk /\ unlinked' = unlinked
  BY RemembersType DEF DocInv, docVars
<1>2. \A d \in documents : d \in Document /\ d.id \in Request
  BY DEF DocInv, TypeOK, Document
<1>3. \A q \in Request : req[q].pc = "done" => req'[q].pc = "done"
  BY <1>1
<1>4. \A d \in documents' : req'[d.id].pc = "done" /\ d.file \in disk' \cup unlinked'
  BY <1>1, <1>2, <1>3 DEF DocInv, DocumentsSound
<1>5. \A q \in Request : req'[q].pc = "insert" =>
        req'[q].document.id = q /\ req'[q].document.file \in disk' \cup unlinked'
  BY <1>1 DEF DocInv, DocumentsSound
<1>6. ASSUME NEW q \in Request, req'[q].pc \in {"unlink", "remove"}
      PROVE  req'[q].document \in Document /\ req'[req'[q].document.id].pc = "done"
  <2>1. CASE q = r
    BY <1>1, <1>2, <1>3, <1>6, <2>1 DEF DocInv, DocumentsSound
  <2>2. CASE q # r
    <3>1. req[q].document \in Document /\ req[req[q].document.id].pc = "done"
      BY <1>1, <1>6, <2>2 DEF DocInv, DocumentsSound
    <3>2. req[q].document.id \in Request
      BY <3>1 DEF Document
    <3>3. QED
      BY <1>1, <1>3, <2>2, <3>1, <3>2
  <2>3. QED
    BY <2>1, <2>2
<1>7. ASSUME failed' = {}, NEW f \in disk'
      PROVE  \/ \E q \in Request : Inserting(q, f)'
             \/ \E d \in documents' : d.file = f /\ ~Removing(d)'
  <2>1. failed = {} /\ req[r].pc # "insert"
    BY <1>7
  <2>2. CASE \E q \in Request : Inserting(q, f)
    BY <1>1, <2>1, <2>2 DEF Inserting
  <2>3. ASSUME NEW d \in documents, d.file = f, ~Removing(d)
        PROVE  ~Removing(d)'
    BY <1>1, <2>3 DEF Removing
  <2>4. QED
    BY <1>1, <1>7, <2>1, <2>2, <2>3 DEF DocInv, FilesSound
<1>8. QED
  BY <1>4, <1>5, <1>6, <1>7 DEF DocumentsSound, FilesSound

LEMMA UploadDocs ==
  ASSUME Bounds, DocInv, NEW r \in Request, UploadDocument(r)
  PROVE  DocumentsSound' /\ FilesSound'
<1>1. PICK m : /\ Remembers(r, m) /\ m.pc = "insert" /\ m.document.id = r
               /\ disk' = disk \cup {m.document.file}
  BY UploadRemembers DEF DocInv
<1>2. /\ req'[r] = m /\ \A q \in Request : q # r => req'[q] = req[q]
      /\ documents' = documents /\ unlinked' = unlinked /\ failed' = failed
      /\ req[r].pc = "idle"
  BY <1>1, RemembersType DEF DocInv, UploadDocument, Arrives
<1>3. \A d \in documents : d \in Document /\ d.id \in Request
  BY DEF DocInv, TypeOK, Document
<1>4. DocumentsSound'
  <2>1. \A d \in documents' : req'[d.id].pc = "done" /\ d.file \in disk' \cup unlinked'
    BY <1>1, <1>2, <1>3 DEF DocInv, DocumentsSound
  <2>2. \A q \in Request : req'[q].pc = "insert" =>
          req'[q].document.id = q /\ req'[q].document.file \in disk' \cup unlinked'
    BY <1>1, <1>2 DEF DocInv, DocumentsSound
  <2>3. \A q \in Request : req'[q].pc \in {"unlink", "remove"} =>
          req'[q].document \in Document /\ req'[req'[q].document.id].pc = "done"
    BY <1>1, <1>2 DEF DocInv, DocumentsSound, Document
  <2>4. QED
    BY <2>1, <2>2, <2>3 DEF DocumentsSound
<1>5. ASSUME failed' = {}, NEW f \in disk'
      PROVE  \/ \E q \in Request : Inserting(q, f)'
             \/ \E d \in documents' : d.file = f /\ ~Removing(d)'
  <2>1. CASE f = m.document.file
    BY <1>1, <1>2, <2>1 DEF Inserting
  <2>2. ASSUME NEW q \in Request, Inserting(q, f) PROVE Inserting(q, f)'
    BY <1>2, <2>2 DEF Inserting
  <2>3. ASSUME NEW d \in documents, ~Removing(d) PROVE ~Removing(d)'
    BY <1>1, <1>2, <2>3 DEF Removing
  <2>4. QED
    BY <1>1, <1>2, <1>5, <2>1, <2>2, <2>3 DEF DocInv, FilesSound
<1>6. QED
  BY <1>4, <1>5 DEF FilesSound

LEMMA InsertDocs ==
  ASSUME Bounds, DocInv, NEW r \in Request, InsertDocument(r)
  PROVE  DocumentsSound' /\ FilesSound'
<1>0. PICK new : new = req[r].document
  OBVIOUS
<1>1. /\ req'[r] = Done /\ \A q \in Request : q # r => req'[q] = req[q]
      /\ documents' = documents \cup {new} /\ disk' = disk /\ unlinked' = unlinked
      /\ failed' = failed /\ req[r].pc = "insert"
  BY <1>0, EndsRemembers, RemembersType DEF DocInv, InsertDocument
<1>2. new.id = r /\ new.file \in disk \cup unlinked
  BY <1>0, <1>1 DEF DocInv, DocumentsSound
<1>3. \A d \in documents : d \in Document /\ d.id \in Request
  BY DEF DocInv, TypeOK, Document
<1>4. Done.pc = "done"
  BY DoneFields
<1>5. DocumentsSound'
  <2>1. \A d \in documents' : req'[d.id].pc = "done" /\ d.file \in disk' \cup unlinked'
    BY <1>1, <1>2, <1>3, <1>4 DEF DocInv, DocumentsSound
  <2>2. \A q \in Request : req'[q].pc = "insert" =>
          req'[q].document.id = q /\ req'[q].document.file \in disk' \cup unlinked'
    BY <1>1, <1>4 DEF DocInv, DocumentsSound
  <2>3. \A q \in Request : req'[q].pc \in {"unlink", "remove"} =>
          req'[q].document \in Document /\ req'[req'[q].document.id].pc = "done"
    BY <1>1, <1>4 DEF DocInv, DocumentsSound, Document
  <2>4. QED
    BY <2>1, <2>2, <2>3 DEF DocumentsSound
<1>6. ~Removing(new)'
  \* Who removes a document names one whose request is done; r is inserting.
  <2> SUFFICES ASSUME NEW q \in Request, req'[q].pc = "remove", req'[q].document = new
               PROVE  FALSE
    BY DEF Removing
  <2>1. q # r /\ req[q].pc = "remove" /\ req[q].document = new
    BY <1>1, <1>4
  <2>2. QED
    BY <1>1, <1>2, <2>1 DEF DocInv, DocumentsSound
<1>7. ASSUME failed' = {}, NEW f \in disk'
      PROVE  \/ \E q \in Request : Inserting(q, f)'
             \/ \E d \in documents' : d.file = f /\ ~Removing(d)'
  <2>1. ASSUME NEW q \in Request, Inserting(q, f), q # r PROVE Inserting(q, f)'
    BY <1>1, <2>1 DEF Inserting
  <2>2. CASE Inserting(r, f)
    BY <1>0, <1>1, <1>6, <2>2 DEF Inserting
  <2>3. ASSUME NEW d \in documents, ~Removing(d) PROVE ~Removing(d)'
    BY <1>1, <1>4, <2>3 DEF Removing
  <2>4. QED
    BY <1>1, <1>7, <2>1, <2>2, <2>3 DEF DocInv, FilesSound
<1>8. QED
  BY <1>5, <1>7 DEF FilesSound

LEMMA UnlinkDocs ==
  ASSUME Bounds, DocInv, NEW r \in Request, UnlinkFile(r)
  PROVE  DocumentsSound' /\ FilesSound'
<1> DEFINE gone == req[r].document
<1>1. PICK m : Remembers(r, m) /\ m.pc = "remove" /\ m.document = gone
  BY UnlinkRemembers DEF DocInv
<1>2. /\ req'[r] = m /\ \A q \in Request : q # r => req'[q] = req[q]
      /\ documents' = documents /\ disk' = disk \ {gone.file}
      /\ unlinked' = unlinked \cup {gone.file} /\ failed' = failed
      /\ req[r].pc = "unlink"
  BY <1>1, RemembersType DEF DocInv, UnlinkFile
<1>3. \A d \in documents : d \in Document /\ d.id \in Request
  BY DEF DocInv, TypeOK, Document
<1>4. gone \in Document /\ req[gone.id].pc = "done" /\ gone.id \in Request
  BY <1>2 DEF DocInv, DocumentsSound, Document
<1> HIDE DEF gone
<1>5. DocumentsSound'
  <2>1. \A d \in documents' : req'[d.id].pc = "done" /\ d.file \in disk' \cup unlinked'
    BY <1>2, <1>3 DEF DocInv, DocumentsSound
  <2>2. \A q \in Request : req'[q].pc = "insert" =>
          req'[q].document.id = q /\ req'[q].document.file \in disk' \cup unlinked'
    BY <1>1, <1>2 DEF DocInv, DocumentsSound
  <2>3. ASSUME NEW q \in Request, req'[q].pc \in {"unlink", "remove"}
        PROVE  req'[q].document \in Document /\ req'[req'[q].document.id].pc = "done"
    <3>1. CASE q = r
      BY <1>1, <1>2, <1>4, <3>1
    <3>2. CASE q # r
      BY <1>2, <2>3, <3>2 DEF DocInv, DocumentsSound, Document
    <3>3. QED
      BY <3>1, <3>2
  <2>4. QED
    BY <2>1, <2>2, <2>3 DEF DocumentsSound
<1>6. ASSUME failed' = {}, NEW f \in disk'
      PROVE  \/ \E q \in Request : Inserting(q, f)'
             \/ \E d \in documents' : d.file = f /\ ~Removing(d)'
  <2>1. ASSUME NEW q \in Request, Inserting(q, f) PROVE Inserting(q, f)'
    BY <1>2, <2>1 DEF Inserting
  <2>2. ASSUME NEW d \in documents, d.file = f, ~Removing(d) PROVE ~Removing(d)'
    BY <1>1, <1>2, <1>6, <2>2 DEF Removing
  <2>3. QED
    BY <1>2, <1>6, <2>1, <2>2 DEF DocInv, FilesSound
<1>7. QED
  BY <1>5, <1>6 DEF FilesSound

LEMMA RemoveDocs ==
  ASSUME Bounds, DocInv, NEW r \in Request, RemoveDocument(r)
  PROVE  DocumentsSound' /\ FilesSound'
<1>1. /\ req'[r] = Done /\ \A q \in Request : q # r => req'[q] = req[q]
      /\ documents' = documents \ {req[r].document} /\ disk' = disk
      /\ unlinked' = unlinked /\ failed' = failed /\ req[r].pc = "remove"
  BY EndsRemembers, RemembersType DEF DocInv, RemoveDocument
<1>2. \A d \in documents : d \in Document /\ d.id \in Request
  BY DEF DocInv, TypeOK, Document
<1>3. Done.pc = "done"
  BY DoneFields
<1>4. DocumentsSound'
  <2>1. \A d \in documents' : req'[d.id].pc = "done" /\ d.file \in disk' \cup unlinked'
    BY <1>1, <1>2, <1>3 DEF DocInv, DocumentsSound
  <2>2. \A q \in Request : req'[q].pc = "insert" =>
          req'[q].document.id = q /\ req'[q].document.file \in disk' \cup unlinked'
    BY <1>1, <1>3 DEF DocInv, DocumentsSound
  <2>3. \A q \in Request : req'[q].pc \in {"unlink", "remove"} =>
          req'[q].document \in Document /\ req'[req'[q].document.id].pc = "done"
    BY <1>1, <1>3 DEF DocInv, DocumentsSound, Document
  <2>4. QED
    BY <2>1, <2>2, <2>3 DEF DocumentsSound
<1>5. ASSUME failed' = {}, NEW f \in disk'
      PROVE  \/ \E q \in Request : Inserting(q, f)'
             \/ \E d \in documents' : d.file = f /\ ~Removing(d)'
  <2>1. ASSUME NEW q \in Request, Inserting(q, f) PROVE Inserting(q, f)'
    BY <1>1, <2>1 DEF Inserting
  <2>2. ASSUME NEW d \in documents, ~Removing(d) PROVE ~Removing(d)' /\ d \in documents'
    BY <1>1, <1>3, <2>2 DEF Removing
  <2>3. QED
    BY <1>1, <1>5, <2>1, <2>2 DEF DocInv, FilesSound
<1>6. QED
  BY <1>4, <1>5 DEF FilesSound

-----------------------------------------------------------------------------
(* The photo and its file.                                                 *)

PhotoOp == {"uploadPhoto", "deletePhoto"}

\* A request of the profile photo has taken the old file away and perhaps written
\* its own.
Swapped(r) == req[r].op \in PhotoOp /\ req[r].pc \in {"find", "load", "write"}

\* What request r intends.
Intends(r, m) ==
  /\ m.pc \in {"swap", "find"} => m.op \in PhotoOp
  /\ m.pc \in {"load", "write"} => m.op \in PhotoOp \cup {"otherSave"}
  /\ m.pc \in {"find", "load", "write"} =>
       m.photo = IF m.op \in PhotoOp THEN Chosen(r, m.op) ELSE m.base
  /\ m.pc = "write" /\ m.op = "uploadPhoto" => m.differs = TRUE

\* A photo that has been in the row was put there by a request that is done.
Settled(p) == p \in Request => req[p].pc = "done"

PhotosSound ==
  /\ \A r \in Request : Intends(r, req[r])
  /\ Settled(profilePhoto)
  /\ \A r \in Request : req[r].pc \in {"swap", "find", "load", "write"} =>
                          Settled(req[r].base)

\* The files of photos: that of the row, unless a request has taken it away, and
\* those of the requests that have written one and not yet saved it.
Kept(p) == p = profilePhoto /\ \A r \in Request : Swapped(r) => req[r].base # p
Fresh(p) == p \in Request /\ Swapped(p) /\ req[p].op = "uploadPhoto"

SwapsSound ==
  failed = {} /\ ~stale =>
    /\ \A p \in Photo : p \in photos <=> Kept(p) \/ Fresh(p)
    /\ \A r \in Request :
         req[r].pc = "write" /\ req[r].op = "deletePhoto" /\ req[r].base # NONE
           /\ req[r].base = profilePhoto => req[r].differs = TRUE

PhotoInv == TypeOK /\ PhotosSound /\ SwapsSound

\* No request and no photo has the number of no photo.
LEMMA NoneIsNone == ASSUME Bounds PROVE NONE \notin Photo /\ Request \subseteq Photo
BY DEF NONE, Photo, Request, Bounds

\* A step after which request r intends what it should, and the row names a
\* settled photo.
LEMMA KeepsPhotosSound ==
  ASSUME PhotoInv, NEW r \in Request, NEW m, Remembers(r, m), Intends(r, m),
         req[r].pc # "done",
         m.pc \in {"swap", "find", "load", "write"} => Settled(m.base),
         Settled(profilePhoto)'
  PROVE  PhotosSound'
<1>1. req'[r] = m /\ \A q \in Request : q # r => req'[q] = req[q]
  BY RemembersType DEF PhotoInv
<1>2. ASSUME NEW p, Settled(p) PROVE Settled(p)'
  BY <1>1, <1>2 DEF Settled
<1>3. ASSUME NEW q \in Request PROVE Intends(q, req'[q])
  BY <1>1 DEF PhotoInv, PhotosSound
<1>4. ASSUME NEW q \in Request, req'[q].pc \in {"swap", "find", "load", "write"}
      PROVE  Settled(req[q].base)'
  <2>1. PICK b : b = req'[q].base
    OBVIOUS
  <2>2. Settled(b)
    BY <1>1, <1>4, <2>1 DEF PhotoInv, PhotosSound
  <2>3. Settled(b)'
    BY <1>2, <2>2
  <2>4. QED
    BY <2>1, <2>3 DEF Settled
<1>5. \A q \in Request : Intends(q, req[q])'
  BY <1>3 DEF Intends, Chosen
<1>6. \A q \in Request :
        (req[q].pc \in {"swap", "find", "load", "write"} => Settled(req[q].base))'
  BY <1>4
<1>7. QED
  BY <1>5, <1>6 DEF PhotosSound

\* A step that leaves the photos alone, of a request that has not swapped files,
\* and does not.
LEMMA OtherPhotos ==
  ASSUME PhotoInv, NEW r \in Request, NEW m, Remembers(r, m),
         UNCHANGED <<profilePhoto, photos>>, failed \subseteq failed', stale => stale',
         failed' = {} /\ ~stale' => ~Swapped(r),
         m.op \in PhotoOp => m.pc \notin {"find", "load", "write"}
  PROVE  SwapsSound'
<1> SUFFICES ASSUME failed' = {} /\ ~stale'
             PROVE  /\ \A p \in Photo : p \in photos' <=> Kept(p)' \/ Fresh(p)'
                    /\ \A q \in Request :
                         req'[q].pc = "write" /\ req'[q].op = "deletePhoto"
                           /\ req'[q].base # NONE /\ req'[q].base = profilePhoto'
                           => req'[q].differs = TRUE
  BY DEF SwapsSound
<1>1. /\ req'[r] = m /\ \A q \in Request : q # r => req'[q] = req[q]
      /\ photos' = photos /\ profilePhoto' = profilePhoto
  BY RemembersType DEF PhotoInv
<1>2. failed = {} /\ ~stale /\ ~Swapped(r)
  OBVIOUS
<1>3. ~Swapped(r)' /\ \A q \in Request : Swapped(q)' <=> Swapped(q)
  BY <1>1, <1>2 DEF Swapped
<1>4. ASSUME NEW p \in Photo PROVE (Kept(p)' <=> Kept(p)) /\ (Fresh(p)' <=> Fresh(p))
  <2>1. Kept(p)' <=> Kept(p)
    BY <1>1, <1>2, <1>3 DEF Kept
  <2>2. Fresh(p)' <=> Fresh(p)
    BY <1>1, <1>2, <1>3 DEF Fresh
  <2>3. QED
    BY <2>1, <2>2
<1>5. \A q \in Request : req'[q].pc = "write" /\ req'[q].op = "deletePhoto" => q # r
  BY <1>3 DEF Swapped, PhotoOp
<1>6. QED
  BY <1>1, <1>2, <1>4, <1>5 DEF PhotoInv, SwapsSound

\* A request that has swapped files goes on.
LEMMA GoesOnPhotos ==
  ASSUME PhotoInv, NEW r \in Request, NEW m, Remembers(r, m),
         UNCHANGED <<profilePhoto, photos, failed, stale>>,
         m.op = req[r].op, m.base = req[r].base,
         m.pc \in {"find", "load", "write"}, req[r].pc \in {"find", "load", "write"},
         m.pc = "write" /\ m.op = "deletePhoto" /\ m.base # NONE
           /\ m.base = profilePhoto => m.differs = TRUE
  PROVE  SwapsSound'
<1>1. req'[r] = m /\ \A q \in Request : q # r => req'[q] = req[q]
  BY RemembersType DEF PhotoInv
<1>2. \A q \in Request : /\ Swapped(q)' <=> Swapped(q)
                         /\ req'[q].op = req[q].op /\ req'[q].base = req[q].base
  BY <1>1 DEF Swapped
<1>3. ASSUME NEW p \in Photo PROVE (Kept(p)' <=> Kept(p)) /\ (Fresh(p)' <=> Fresh(p))
  BY <1>2 DEF Kept, Fresh
<1>4. QED
  BY <1>1, <1>3 DEF PhotoInv, SwapsSound

LEMMA SwapPhotos ==
  ASSUME Bounds, PhotoInv, NEW r \in Request, SwapFiles(r)
  PROVE  PhotosSound' /\ SwapsSound'
<1>1. PICK m : /\ Remembers(r, m) /\ m.pc = "find" /\ m.op = req[r].op
               /\ m.base = req[r].base /\ m.photo = Chosen(r, req[r].op)
               /\ photos' = (photos \ {req[r].base})
                              \cup (IF req[r].op = "uploadPhoto" THEN {r} ELSE {})
  BY SwapRemembers DEF PhotoInv
<1>2. /\ req'[r] = m /\ \A q \in Request : q # r => req'[q] = req[q]
      /\ req[r].pc = "swap" /\ UNCHANGED <<profilePhoto, failed, stale>>
  BY <1>1, RemembersType DEF PhotoInv, SwapFiles
<1>3. m.op \in PhotoOp /\ Settled(m.base) /\ Settled(profilePhoto)
  BY <1>1, <1>2 DEF PhotoInv, PhotosSound, Intends
<1>4. Settled(profilePhoto)'
  BY <1>2, <1>3 DEF Settled
<1>5. PhotosSound'
  BY <1>1, <1>2, <1>3, <1>4, KeepsPhotosSound DEF Intends
<1>6. /\ \A q \in Request : q # r => (Swapped(q)' <=> Swapped(q))
      /\ Swapped(r)' /\ ~Swapped(r)
  BY <1>1, <1>2, <1>3 DEF Swapped
<1>7. SwapsSound'
  <2> SUFFICES ASSUME failed' = {} /\ ~stale'
               PROVE  /\ \A p \in Photo : p \in photos' <=> Kept(p)' \/ Fresh(p)'
                      /\ \A q \in Request :
                           req'[q].pc = "write" /\ req'[q].op = "deletePhoto"
                             /\ req'[q].base # NONE /\ req'[q].base = profilePhoto'
                             => req'[q].differs = TRUE
    BY DEF SwapsSound
  <2>1. \A p \in Photo : p \in photos <=> Kept(p) \/ Fresh(p)
    BY <1>2 DEF PhotoInv, SwapsSound
  <2>2. ASSUME NEW p \in Photo PROVE Kept(p)' <=> Kept(p) /\ p # m.base
    BY <1>1, <1>2, <1>6 DEF Kept
  <2>3. ASSUME NEW p \in Photo
        PROVE  Fresh(p)' <=> Fresh(p) \/ (p = r /\ m.op = "uploadPhoto")
    BY <1>1, <1>2, <1>6 DEF Fresh
  <2>4. ~Fresh(m.base)
    BY <1>3 DEF Settled, Fresh, Swapped
  <2>5. \A p \in Photo : p \in photos' <=> Kept(p)' \/ Fresh(p)'
    BY <1>1, <2>1, <2>2, <2>3, <2>4
  <2>6. QED
    BY <1>1, <1>2, <2>5 DEF PhotoInv, SwapsSound
<1>8. QED
  BY <1>5, <1>7

LEMMA WritePhotos ==
  ASSUME Bounds, PhotoInv, NEW r \in Request, WriteUser(r)
  PROVE  PhotosSound' /\ SwapsSound'
<1>0. TypeOK /\ Intends(r, req[r]) /\ req[r].pc = "write"
  BY DEF PhotoInv, PhotosSound, WriteUser
<1>1. Remembers(r, Done)
  BY <1>0, EndsRemembers DEF WriteUser
<1>2. /\ req'[r] = Done /\ \A q \in Request : q # r => req'[q] = req[q]
      /\ profilePhoto' = IF req[r].differs THEN req[r].photo ELSE profilePhoto
      /\ stale' = (stale \/ profilePhoto # req[r].base)
      /\ photos' = photos /\ failed' = failed
  BY <1>0, <1>1, RemembersType DEF WriteUser
<1>3. Done.pc = "done"
  BY DoneFields
<1>4. Settled(profilePhoto) /\ Settled(req[r].base)
  BY <1>0 DEF PhotoInv, PhotosSound
<1>5. /\ req[r].op \in PhotoOp \cup {"otherSave"}
      /\ req[r].photo = IF req[r].op \in PhotoOp THEN Chosen(r, req[r].op) ELSE req[r].base
      /\ req[r].op = "uploadPhoto" => req[r].differs = TRUE
  BY <1>0 DEF Intends
<1>6. NONE \notin Request /\ r # NONE
  BY NoneIsNone
<1>7. Settled(profilePhoto)'
  <2>1. profilePhoto' \in {profilePhoto, req[r].base, r, NONE}
    BY <1>2, <1>5 DEF Chosen
  <2>2. QED
    BY <1>2, <1>3, <1>4, <1>6, <2>1 DEF Settled
<1>8. PhotosSound'
  BY <1>0, <1>1, <1>3, <1>7, KeepsPhotosSound DEF Intends
<1>9. SwapsSound'
  <2> SUFFICES ASSUME failed' = {} /\ ~stale' PROVE SwapsSound'
    BY DEF SwapsSound
  <2>1. /\ failed = {} /\ ~stale /\ profilePhoto = req[r].base
        /\ \A p \in Photo : p \in photos <=> Kept(p) \/ Fresh(p)
        /\ \A q \in Request :
             req[q].pc = "write" /\ req[q].op = "deletePhoto" /\ req[q].base # NONE
               /\ req[q].base = profilePhoto => req[q].differs = TRUE
    BY <1>2 DEF PhotoInv, SwapsSound
  <2>2. ~Swapped(r)' /\ \A q \in Request : q # r => (Swapped(q)' <=> Swapped(q))
    BY <1>2, <1>3 DEF Swapped
  <2>3. CASE req[r].op = "otherSave"
    <3>1. profilePhoto' = profilePhoto /\ ~Swapped(r)
      BY <1>2, <1>5, <2>1, <2>3 DEF PhotoOp, Swapped
    <3>2. Done.op \notin PhotoOp
      BY DEF Done, Idle, PhotoOp
    <3>3. QED
      BY <1>1, <1>2, <3>1, <3>2, OtherPhotos
  <2>4. CASE req[r].op = "deletePhoto"
    <3>1. profilePhoto' = NONE
      <4>1. req[r].photo = NONE
        BY <1>5, <2>4 DEF PhotoOp, Chosen
      <4>2. CASE req[r].differs = TRUE
        BY <1>2, <4>1, <4>2
      <4>3. CASE req[r].differs # TRUE
        BY <1>0, <1>2, <2>1, <2>4, <4>1, <4>3
      <4>4. QED
        BY <4>2, <4>3
    <3>2. Swapped(r)
      BY <1>0, <2>4 DEF Swapped, PhotoOp
    <3>3. ASSUME NEW p \in Photo PROVE ~Kept(p) /\ ~Kept(p)'
      BY <2>1, <3>1, <3>2, NoneIsNone DEF Kept
    <3>4. ASSUME NEW p \in Photo PROVE Fresh(p)' <=> Fresh(p)
      BY <1>2, <2>2, <2>4 DEF Fresh
    <3>5. QED
      BY <1>2, <1>3, <2>1, <3>1, <3>3, <3>4 DEF SwapsSound
  <2>5. CASE req[r].op = "uploadPhoto"
    <3>1. profilePhoto' = r
      BY <1>2, <1>5, <2>5 DEF PhotoOp, Chosen
    <3>2. Swapped(r) /\ r \in Photo
      BY <1>0, <2>5, NoneIsNone DEF Swapped, PhotoOp
    \* No request has read photo r yet.
    <3>3. ASSUME NEW q \in Request, q # r, Swapped(q) PROVE req[q].base # r
      BY <1>0, <3>3 DEF PhotoInv, PhotosSound, Settled, Swapped
    <3>4. ASSUME NEW p \in Photo PROVE Kept(p)' <=> p = r
      BY <1>2, <2>2, <3>1, <3>3 DEF Kept
    <3>5. ASSUME NEW p \in Photo PROVE Fresh(p)' <=> Fresh(p) /\ p # r
      BY <1>2, <2>2 DEF Fresh
    <3>6. Fresh(r)
      BY <2>5, <3>2 DEF Fresh
    <3>7. ASSUME NEW p \in Photo PROVE ~Kept(p)
      BY <2>1, <3>2 DEF Kept
    <3>8. \A p \in Photo : p \in photos' <=> Kept(p)' \/ Fresh(p)'
      BY <1>2, <2>1, <3>4, <3>5, <3>6, <3>7
    <3>9. ASSUME NEW q \in Request, req'[q].pc = "write", req'[q].op = "deletePhoto"
          PROVE  req'[q].base # profilePhoto'
      <4>1. q # r /\ Swapped(q)
        BY <1>2, <1>3, <3>9 DEF Swapped, PhotoOp
      <4>2. QED
        BY <1>2, <3>1, <3>3, <4>1
    <3>10. QED
      BY <3>8, <3>9 DEF SwapsSound
  <2>6. QED
    BY <1>5, <2>3, <2>4, <2>5 DEF PhotoOp
<1>10. QED
  BY <1>8, <1>9

LEMMA WriteFailsPhotos ==
  ASSUME Bounds, PhotoInv, NEW r \in Request, failed' = failed \cup {r},
         Goes(r, Done), req[r].pc # "done", UNCHANGED <<profilePhoto, stale>>
  PROVE  PhotosSound' /\ SwapsSound'
<1>1. Remembers(r, Done)
  BY EndsRemembers DEF PhotoInv
<1>2. Settled(profilePhoto)'
  BY <1>1, RemembersType, DoneFields DEF PhotoInv, PhotosSound, Settled
<1>3. PhotosSound'
  BY <1>1, <1>2, KeepsPhotosSound, DoneFields DEF Intends
<1>4. SwapsSound'
  BY DEF SwapsSound
<1>5. QED
  BY <1>3, <1>4

\* A step of a request about documents.
LEMMA DocumentStepPhotos ==
  ASSUME PhotoInv, NEW r \in Request, NEW m, Remembers(r, m),
         UNCHANGED <<photoVars, failed>>,
         req[r].pc \in {"idle", "insert", "unlink", "remove"},
         m.pc \in {"insert", "unlink", "remove", "done"}
  PROVE  PhotosSound' /\ SwapsSound'
<1>1. /\ req'[r] = m /\ \A q \in Request : q # r => req'[q] = req[q]
      /\ profilePhoto' = profilePhoto /\ photos' = photos /\ stale' = stale
  BY RemembersType DEF PhotoInv, photoVars
<1>2. Settled(profilePhoto)'
  BY <1>1 DEF PhotoInv, PhotosSound, Settled
<1>3. PhotosSound'
  BY <1>1, <1>2, KeepsPhotosSound DEF Intends
<1>4. ~Swapped(r)
  BY DEF Swapped
<1>5. SwapsSound'
  BY <1>1, <1>4, OtherPhotos
<1>6. QED
  BY <1>3, <1>5

LEMMA ReadPhotos ==
  ASSUME Bounds, PhotoInv, NEW r \in Request,
         NEW o \in {"uploadPhoto", "deletePhoto", "otherSave"}, ReadPhoto(r, o)
  PROVE  PhotosSound' /\ SwapsSound'
<1>1. PICK m : /\ Remembers(r, m) /\ m.op = o
               /\ m.pc = IF o = "otherSave" THEN "load" ELSE "swap"
               /\ m.base = profilePhoto /\ m.photo = profilePhoto
  BY ReadRemembers DEF PhotoInv
<1>2. /\ req'[r] = m /\ \A q \in Request : q # r => req'[q] = req[q]
      /\ req[r].pc = "idle" /\ UNCHANGED <<profilePhoto, photos, stale, failed>>
  BY <1>1, RemembersType DEF PhotoInv, ReadPhoto, Arrives, photoVars
<1>3. Settled(profilePhoto) /\ Settled(profilePhoto)'
  BY <1>2 DEF PhotoInv, PhotosSound, Settled
<1>4. Intends(r, m)
  BY <1>1 DEF Intends, PhotoOp
<1>5. PhotosSound'
  BY <1>1, <1>2, <1>3, <1>4, KeepsPhotosSound
<1>6. ~Swapped(r) /\ (m.op \in PhotoOp => m.pc \notin {"find", "load", "write"})
  BY <1>1, <1>2 DEF Swapped, PhotoOp
<1>7. SwapsSound'
  BY <1>1, <1>2, <1>6, OtherPhotos
<1>8. QED
  BY <1>5, <1>7

LEMMA FindPhotos ==
  ASSUME PhotoInv, NEW r \in Request, FindUser(r)
  PROVE  PhotosSound' /\ SwapsSound'
<1>1. PICK m : /\ Remembers(r, m) /\ m.pc = "load" /\ m.op = req[r].op
               /\ m.base = req[r].base /\ m.photo = req[r].photo
  BY FindRemembers DEF PhotoInv
<1>2. /\ req'[r] = m /\ \A q \in Request : q # r => req'[q] = req[q]
      /\ req[r].pc = "find" /\ UNCHANGED <<profilePhoto, photos, stale, failed>>
  BY <1>1, RemembersType DEF PhotoInv, FindUser, photoVars
<1>3. Intends(r, m) /\ Settled(m.base) /\ Settled(profilePhoto)'
  BY <1>1, <1>2 DEF PhotoInv, PhotosSound, Settled, Intends
<1>4. PhotosSound'
  BY <1>1, <1>2, <1>3, KeepsPhotosSound
<1>5. SwapsSound'
  BY <1>1, <1>2, GoesOnPhotos
<1>6. QED
  BY <1>4, <1>5

LEMMA LoadPhotos ==
  ASSUME Bounds, PhotoInv, NEW r \in Request, LoadUser(r)
  PROVE  PhotosSound' /\ SwapsSound'
<1>1. PICK m : /\ Remembers(r, m) /\ m.pc = "write" /\ m.op = req[r].op
               /\ m.base = req[r].base /\ m.photo = req[r].photo
               /\ m.differs = (profilePhoto # req[r].photo)
  BY LoadRemembers DEF PhotoInv
<1>2. /\ req'[r] = m /\ \A q \in Request : q # r => req'[q] = req[q]
      /\ req[r].pc = "load" /\ UNCHANGED <<profilePhoto, photos, stale, failed>>
  BY <1>1, RemembersType DEF PhotoInv, LoadUser, photoVars
<1>3. /\ Intends(r, req[r]) /\ Settled(req[r].base)
      /\ Settled(profilePhoto) /\ Settled(profilePhoto)'
  BY <1>2 DEF PhotoInv, PhotosSound, Settled
<1>4. m.op = "uploadPhoto" => m.differs = TRUE
  <2> SUFFICES ASSUME m.op = "uploadPhoto" PROVE profilePhoto # req[r].photo
    BY <1>1
  <2>1. req[r].photo = r
    BY <1>1, <1>2, <1>3 DEF Intends, PhotoOp, Chosen
  <2>2. QED
    BY <1>2, <1>3, <2>1 DEF Settled
<1>5. m.op = "deletePhoto" /\ m.base # NONE /\ m.base = profilePhoto => m.differs = TRUE
  <2> SUFFICES ASSUME m.op = "deletePhoto", m.base # NONE, m.base = profilePhoto
               PROVE  profilePhoto # req[r].photo
    BY <1>1
  <2>1. req[r].photo = NONE
    BY <1>1, <1>2, <1>3 DEF Intends, PhotoOp, Chosen
  <2>2. QED
    BY <2>1
<1>6. Intends(r, m)
  BY <1>1, <1>2, <1>3, <1>4 DEF Intends
<1>7. PhotosSound'
  BY <1>1, <1>2, <1>3, <1>6, KeepsPhotosSound
<1>8. SwapsSound'
  BY <1>1, <1>2, <1>5, GoesOnPhotos
<1>9. QED
  BY <1>7, <1>8

-----------------------------------------------------------------------------
IInv == TypeOK /\ DocumentsSound /\ FilesSound /\ PhotosSound /\ SwapsSound

\* A step of a request about the photo, for the documents.
LEMMA PhotoStepDocs ==
  ASSUME DocInv, NEW r \in Request, NEW m, Remembers(r, m),
         UNCHANGED docVars, failed' = failed \/ failed' = failed \cup {r},
         req[r].pc \in {"idle", "swap", "find", "load", "write"},
         m.pc \in {"swap", "find", "load", "write", "done"}
  PROVE  DocumentsSound' /\ FilesSound'
BY OtherDocs

\* Every step keeps the invariant.
LEMMA NextSound ==
  ASSUME Bounds, IInv, [Next]_vars
  PROVE  IInv'
<1> USE DEF docVars, photoVars
<1>1. TypeOK /\ TypeOK' /\ DocInv /\ PhotoInv
  BY NextType DEF IInv, DocInv, PhotoInv
<1> SUFFICES DocumentsSound' /\ FilesSound' /\ PhotosSound' /\ SwapsSound'
  BY <1>1 DEF IInv
<1>2. CASE Tick \/ UNCHANGED vars
  <2>1. UNCHANGED <<documents, disk, profilePhoto, photos, req, unlinked, failed, stale>>
    BY <1>2 DEF Tick, vars
  <2>2. DocumentsSound' /\ FilesSound'
    BY <2>1 DEF IInv, DocumentsSound, FilesSound, Inserting, Removing
  <2>3. PhotosSound' /\ SwapsSound'
    BY <2>1 DEF IInv, PhotosSound, SwapsSound, Intends, Chosen, Settled, Kept, Fresh, Swapped
  <2>4. QED
    BY <2>2, <2>3
<1>3. ASSUME NEW r \in Request, UploadDocument(r)
      PROVE  PhotosSound' /\ SwapsSound'
  <2>1. PICK m : Remembers(r, m) /\ m.pc = "insert"
    BY <1>1, <1>3, UploadRemembers
  <2>2. req[r].pc = "idle" /\ UNCHANGED <<photoVars, failed>>
    BY <1>3 DEF UploadDocument, Arrives
  <2>3. QED
    BY <1>1, <2>1, <2>2, DocumentStepPhotos
<1>4. ASSUME NEW r \in Request, InsertDocument(r) \/ RemoveDocument(r)
      PROVE  PhotosSound' /\ SwapsSound'
  <2>1. Remembers(r, Done)
    BY <1>1, <1>4, EndsRemembers DEF InsertDocument, RemoveDocument
  <2>2. req[r].pc \in {"insert", "remove"} /\ UNCHANGED <<photoVars, failed>>
    BY <1>4 DEF InsertDocument, RemoveDocument
  <2>3. QED
    BY <1>1, <2>1, <2>2, DoneFields, DocumentStepPhotos
<1>5. ASSUME NEW r \in Request, DeleteDocument(r)
      PROVE  DocumentsSound' /\ FilesSound' /\ PhotosSound' /\ SwapsSound'
  <2>1. PICK m : Remembers(r, m) /\ m.pc = "unlink" /\ m.document \in documents
    BY <1>1, <1>5, DeleteRemembers
  <2>2. req[r].pc = "idle" /\ UNCHANGED <<docVars, photoVars, failed>>
    BY <1>5 DEF DeleteDocument, Arrives
  <2>3. PhotosSound' /\ SwapsSound'
    BY <1>1, <2>1, <2>2, DocumentStepPhotos
  <2>4. DocumentsSound' /\ FilesSound'
    BY <1>1, <2>1, <2>2, OtherDocs
  <2>5. QED
    BY <2>3, <2>4
<1>6. ASSUME NEW r \in Request, UnlinkFile(r)
      PROVE  PhotosSound' /\ SwapsSound'
  <2>1. PICK m : Remembers(r, m) /\ m.pc = "remove"
    BY <1>1, <1>6, UnlinkRemembers
  <2>2. req[r].pc = "unlink" /\ UNCHANGED <<photoVars, failed>>
    BY <1>6 DEF UnlinkFile
  <2>3. QED
    BY <1>1, <2>1, <2>2, DocumentStepPhotos
<1>7. ASSUME NEW r \in Request, NEW o \in {"uploadPhoto", "deletePhoto", "otherSave"},
             ReadPhoto(r, o)
      PROVE  DocumentsSound' /\ FilesSound' /\ PhotosSound' /\ SwapsSound'
  <2>1. PICK m : Remembers(r, m) /\ m.pc \in {"load", "swap"}
    BY <1>1, <1>7, ReadRemembers
  <2>2. req[r].pc = "idle" /\ UNCHANGED docVars /\ failed' = failed
    BY <1>7 DEF ReadPhoto, Arrives
  <2>3. DocumentsSound' /\ FilesSound'
    BY <1>1, <2>1, <2>2, PhotoStepDocs
  <2>4. QED
    BY <1>1, <1>7, <2>3, ReadPhotos
<1>8. ASSUME NEW r \in Request, SwapFiles(r) \/ FindUser(r) \/ LoadUser(r)
      PROVE  DocumentsSound' /\ FilesSound' /\ PhotosSound' /\ SwapsSound'
  <2>1. \E m : Remembers(r, m) /\ m.pc \in {"find", "load", "write"}
    BY <1>1, <1>8, SwapRemembers, FindRemembers, LoadRemembers
  <2>2. PICK m : Remembers(r, m) /\ m.pc \in {"find", "load", "write"}
    BY <2>1
  <2>3. /\ req[r].pc \in {"swap", "find", "load"} /\ UNCHANGED docVars
        /\ failed' = failed
    BY <1>8 DEF SwapFiles, FindUser, LoadUser
  <2>4. DocumentsSound' /\ FilesSound'
    BY <1>1, <2>2, <2>3, PhotoStepDocs
  <2>5. QED
    BY <1>1, <1>8, <2>4, SwapPhotos, FindPhotos, LoadPhotos
<1>9. ASSUME NEW r \in Request, WriteUser(r)
      PROVE  DocumentsSound' /\ FilesSound' /\ PhotosSound' /\ SwapsSound'
  <2>1. Remembers(r, Done)
    BY <1>1, <1>9, EndsRemembers DEF WriteUser
  <2>2. req[r].pc = "write" /\ UNCHANGED docVars /\ failed' = failed
    BY <1>9 DEF WriteUser
  <2>3. DocumentsSound' /\ FilesSound'
    BY <1>1, <2>1, <2>2, DoneFields, PhotoStepDocs
  <2>4. QED
    BY <1>1, <1>9, <2>3, WritePhotos
<1>10. ASSUME NEW r \in Request, WriteFails(r) \/ Fails(r)
       PROVE  DocumentsSound' /\ FilesSound' /\ PhotosSound' /\ SwapsSound'
  <2>1. Remembers(r, Done)
    BY <1>1, <1>10, EndsRemembers DEF WriteFails, Fails
  <2>2. /\ req[r].pc # "done" /\ failed' = failed \cup {r} /\ Goes(r, Done)
        /\ UNCHANGED <<docVars, profilePhoto, stale>>
    BY <1>10 DEF WriteFails, Fails, InFlight
  <2>3. DocumentsSound' /\ FilesSound'
    BY <1>1, <2>1, <2>2, DoneFields, OtherDocs
  <2>4. QED
    BY <1>1, <2>2, <2>3, WriteFailsPhotos
<1>11. CASE Next
  <2>1. CASE Tick
    BY <1>2, <2>1
  <2>2. ASSUME NEW r \in Request,
               \/ DocumentRoutes(r) \/ PhotoRoutes(r)
               \/ InsertDocument(r) \/ UnlinkFile(r) \/ RemoveDocument(r)
               \/ SwapFiles(r) \/ WriteFails(r) \/ FindUser(r) \/ LoadUser(r) \/ WriteUser(r)
               \/ Fails(r)
        PROVE  DocumentsSound' /\ FilesSound' /\ PhotosSound' /\ SwapsSound'
    BY <1>1, <1>3, <1>4, <1>5, <1>6, <1>7, <1>8, <1>9, <1>10, <2>2,
       UploadDocs, InsertDocs, UnlinkDocs, RemoveDocs
       DEF DocumentRoutes, PhotoRoutes, UploadPhoto, DeletePhoto, OtherSave
  <2>3. QED
    BY <1>11, <2>1, <2>2 DEF Next
<1>12. QED
  BY <1>2, <1>11

LEMMA InitSound == ASSUME Bounds PROVE Init => IInv
<1> SUFFICES ASSUME Init PROVE IInv
  OBVIOUS
<1>1. \A r \in Request : req[r].pc = "idle"
  BY DEF Init, Idle
<1>2. documents = {} /\ disk = {} /\ photos = {profilePhoto} \ {NONE}
      /\ profilePhoto \in {NONE, 0}
  BY DEF Init
<1>3. DocumentsSound /\ FilesSound
  BY <1>1, <1>2 DEF DocumentsSound, FilesSound
<1>4. profilePhoto \notin Request
  BY <1>2 DEF NONE, Request
<1>5. PhotosSound
  BY <1>1, <1>4 DEF PhotosSound, Intends, Settled
<1>6. SwapsSound
  BY <1>1, <1>2, NoneIsNone DEF SwapsSound, Kept, Fresh, Swapped
<1>7. QED
  BY <1>3, <1>5, <1>6, InitType DEF IInv

\* Rows and files agree: a document listed can be downloaded unless a deletion took
\* its file, no file is left without a document unless a request failed, and when
\* nothing is under way the user's photo is the one photo on disk, unless a request
\* failed or saved a user it had read before another one changed the photo.
THEOREM FilesAlwaysAgree ==
  ASSUME Bounds
  PROVE  Spec => []FilesAgree
<1>1. IInv => FilesAgree
  <2> SUFFICES ASSUME IInv PROVE FilesAgree
    OBVIOUS
  <2>1. DocumentsHaveFiles
    BY DEF IInv, DocumentsSound, DocumentsHaveFiles
  <2>2. FilesHaveDocuments
    BY DEF IInv, FilesSound, FilesHaveDocuments, Inserting
  <2>3. PhotoHasFile
    <3> SUFFICES ASSUME InFlight = {}, failed = {}, ~stale
                 PROVE  photos = {profilePhoto} \ {NONE}
      BY DEF PhotoHasFile
    <3>1. \A r \in Request : ~Swapped(r)
      BY DEF InFlight, Swapped
    <3>2. \A p \in Photo : p \in photos <=> p = profilePhoto
      BY <3>1 DEF IInv, SwapsSound, Kept, Fresh
    <3>3. QED
      BY <3>2, NoneIsNone DEF IInv, TypeOK
  <2>4. QED
    BY <2>1, <2>2, <2>3 DEF FilesAgree
<1>2. Init => IInv
  BY InitSound
<1>3. IInv /\ [Next]_vars => IInv'
  BY NextSound
<1>4. QED
  BY <1>1, <1>2, <1>3, PTL DEF Spec

=============================================================================
