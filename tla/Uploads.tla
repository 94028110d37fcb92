-------------------------------- MODULE Uploads --------------------------------
(***************************************************************************)
(* Files on the local disk and the rows that point to them: the documents  *)
(* of one POA (PoaService), and the profile photo of one user              *)
(* (UsersController, FileUploadService, UsersService).                     *)
(*                                                                         *)
(* Neither the disk nor the two tables know of each other, so each request *)
(* changes one, then the other:                                            *)
(*                                                                         *)
(*   upload a document   idle -> insert -> done        (file, row)         *)
(*   delete a document   idle -> unlink -> remove -> done                  *)
(*   change the photo    idle -> swap -> find -> load -> write -> done     *)
(*                                                                         *)
(* A document is named by the request that uploaded it, and its file by    *)
(* the millisecond and the name given; a photo's file has a random part    *)
(* and is named by its request.  Types, sizes and contents are left out.   *)
(***************************************************************************)
EXTENDS Integers, FiniteSets

CONSTANTS
  MaxRequests,  \* bound: requests
  MaxInFlight,  \* bound: the requests that overlap
  MaxTicks,     \* bound: milliseconds that are told apart
  Names         \* the file names that clients give

Request == 1 .. MaxRequests
Photo == 0 .. MaxRequests  \* 0: the photo there is at the start
NONE == -1
File == (0 .. MaxTicks) \X Names
Document == [id : Request, file : File]
SomeDocument == [id |-> 1, file |-> <<0, CHOOSE n \in Names : TRUE>>]

Op == {"uploadDocument", "deleteDocument", "uploadPhoto", "deletePhoto", "otherSave"}
Memory == [pc : {"idle", "insert", "unlink", "remove", "swap", "find", "load",
                 "write", "done"},
           op : Op, document : Document, base : Photo \cup {NONE},
           photo : Photo \cup {NONE}, differs : BOOLEAN]
Idle == [pc |-> "idle", op |-> "otherSave", document |-> SomeDocument,
         base |-> NONE, photo |-> NONE, differs |-> FALSE]

VARIABLES
  documents,     \* the rows of poa_documents
  disk,          \* the files of documents
  profilePhoto,  \* users.profilePhoto
  photos,        \* the files of photos
  clock,         \* Date.now()
  req,           \* req[r]: what request r holds in memory
  unlinked,      \* observer: files that a deletion has removed
  failed,        \* observer: requests that failed half-way
  stale          \* observer: a photo was saved over one its request had not read

vars == <<documents, disk, profilePhoto, photos, clock, req, unlinked,
          failed, stale>>
docVars == <<documents, disk, unlinked>>
photoVars == <<profilePhoto, photos, stale>>

Init ==
  /\ documents = {} /\ disk = {}
  /\ profilePhoto \in {NONE, 0}
  /\ photos = {profilePhoto} \ {NONE}
  /\ clock = 0
  /\ req = [r \in Request |-> Idle]
  /\ unlinked = {} /\ failed = {} /\ stale = FALSE

InFlight == {r \in Request : req[r].pc \notin {"idle", "done"}}

Arrives(r) ==
  /\ req[r].pc = "idle"
  /\ \A q \in 1 .. r - 1 : req[q].pc # "idle"
  /\ Cardinality(InFlight) < MaxInFlight

Goes(r, memory) == req' = [req EXCEPT ![r] = memory]
Done == [Idle EXCEPT !.pc = "done"]

-----------------------------------------------------------------------------
(* Documents of a POA.                                                     *)

\* writeFileSync overwrites another file of that millisecond and name.
UploadDocument(r) ==
  /\ Arrives(r)
  /\ \E name \in Names :
       LET document == [id |-> r, file |-> <<clock, name>>]
       IN /\ disk' = disk \cup {document.file}
          /\ Goes(r, [Idle EXCEPT !.pc = "insert", !.op = "uploadDocument",
                                  !.document = document])
  /\ UNCHANGED <<documents, unlinked, clock, failed, photoVars>>

InsertDocument(r) ==
  /\ req[r].pc = "insert"
  /\ documents' = documents \cup {req[r].document}
  /\ Goes(r, Done)
  /\ UNCHANGED <<disk, unlinked, clock, failed, photoVars>>

\* By an administrator, or by the client while the POA is a draft.
DeleteDocument(r) ==
  /\ Arrives(r)
  /\ \E document \in documents :
       Goes(r, [Idle EXCEPT !.pc = "unlink", !.op = "deleteDocument", !.document = document])
  /\ UNCHANGED <<docVars, clock, failed, photoVars>>

\* The file goes if it is there: the deletion can be tried again.
UnlinkFile(r) ==
  /\ req[r].pc = "unlink"
  /\ disk' = disk \ {req[r].document.file}
  /\ unlinked' = unlinked \cup {req[r].document.file}
  /\ Goes(r, [req[r] EXCEPT !.pc = "remove"])
  /\ UNCHANGED <<documents, clock, failed, photoVars>>

RemoveDocument(r) ==
  /\ req[r].pc = "remove"
  /\ documents' = documents \ {req[r].document}
  /\ Goes(r, Done)
  /\ UNCHANGED <<disk, unlinked, clock, failed, photoVars>>

Tick ==
  /\ clock < MaxTicks
  /\ clock' = clock + 1
  /\ UNCHANGED <<docVars, req, failed, photoVars>>

-----------------------------------------------------------------------------
(* The profile photo.                                                      *)

ReadPhoto(r, o) ==
  /\ Arrives(r)
  /\ Goes(r, [Idle EXCEPT !.pc = IF o = "otherSave" THEN "load" ELSE "swap", !.op = o,
                          !.base = profilePhoto, !.photo = profilePhoto])
  /\ UNCHANGED <<docVars, clock, failed, photoVars>>

UploadPhoto(r) == ReadPhoto(r, "uploadPhoto")
DeletePhoto(r) == ReadPhoto(r, "deletePhoto")

\* Any method of AuthService or UsersService that saves the user it has read.
OtherSave(r) == ReadPhoto(r, "otherSave")

\* Faulty variant of SwapFiles: the old file stays.
SwapKeepsOld(r) ==
  /\ req[r].pc = "swap"
  /\ LET new == IF req[r].op = "uploadPhoto" THEN {r} ELSE {}
     IN /\ photos' = photos \cup new
        /\ Goes(r, [req[r] EXCEPT !.pc = "find", !.photo = IF new = {} THEN NONE ELSE r])
  /\ UNCHANGED <<docVars, clock, failed, profilePhoto, stale>>

\* The file of the photo that was read goes, and a new one is written.
SwapFiles(r) ==
  /\ req[r].pc = "swap"
  /\ LET new == IF req[r].op = "uploadPhoto" THEN {r} ELSE {}
     IN /\ photos' = (photos \ {req[r].base}) \cup new
        /\ Goes(r, [req[r] EXCEPT !.pc = "find", !.photo = IF new = {} THEN NONE ELSE r])
  /\ UNCHANGED <<docVars, clock, failed, profilePhoto, stale>>

\* The old file is gone and the new one cannot be written.
WriteFails(r) ==
  /\ req[r].pc = "swap" /\ req[r].op = "uploadPhoto"
  /\ photos' = photos \ {req[r].base}
  /\ failed' = failed \cup {r}
  /\ Goes(r, Done)
  /\ UNCHANGED <<docVars, clock, profilePhoto, stale>>

\* updateProfilePhoto and deleteProfilePhoto read the user again, and set the photo.
FindUser(r) ==
  /\ req[r].pc = "find"
  /\ Goes(r, [req[r] EXCEPT !.pc = "load"])
  /\ UNCHANGED <<docVars, clock, failed, photoVars>>

LoadUser(r) ==
  /\ req[r].pc = "load"
  /\ Goes(r, [req[r] EXCEPT !.pc = "write", !.differs = profilePhoto # req[r].photo])
  /\ UNCHANGED <<docVars, clock, failed, photoVars>>

WriteUser(r) ==
  /\ req[r].pc = "write"
  /\ profilePhoto' = IF req[r].differs THEN req[r].photo ELSE profilePhoto
  /\ stale' = (stale \/ profilePhoto # req[r].base)
  /\ Goes(r, Done)
  /\ UNCHANGED <<docVars, clock, failed, photos>>

-----------------------------------------------------------------------------
\* An access to the database or to the disk fails, or the process dies.
Fails(r) ==
  /\ r \in InFlight
  /\ failed' = failed \cup {r}
  /\ Goes(r, Done)
  /\ UNCHANGED <<docVars, clock, photoVars>>

DocumentRoutes(r) == UploadDocument(r) \/ DeleteDocument(r)

PhotoRoutes(r) == UploadPhoto(r) \/ DeletePhoto(r) \/ OtherSave(r)

Next ==
  \/ Tick
  \/ \E r \in Request :
       \/ DocumentRoutes(r) \/ PhotoRoutes(r)
       \/ InsertDocument(r) \/ UnlinkFile(r) \/ RemoveDocument(r)
       \/ SwapFiles(r) \/ WriteFails(r) \/ FindUser(r) \/ LoadUser(r) \/ WriteUser(r)
       \/ Fails(r)

Spec == Init /\ [][Next]_vars

-----------------------------------------------------------------------------
(* Properties.                                                             *)

TypeOK ==
  /\ stale \in BOOLEAN
  /\ documents \subseteq Document
  /\ disk \subseteq File /\ unlinked \subseteq File
  /\ profilePhoto \in Photo \cup {NONE} /\ photos \subseteq Photo
  /\ clock \in 0 .. MaxTicks
  /\ req \in [Request -> Memory]
  /\ failed \subseteq Request

\* A document that is listed can be downloaded: its file is on disk, unless a
\* deletion removed it, of this document or of one uploaded under the same name
\* in the same millisecond.
DocumentsHaveFiles == \A d \in documents : d.file \in disk \cup unlinked

\* A file without a row is a failed request, or one that is under way.
FilesHaveDocuments ==
  \A f \in disk :
    \/ \E d \in documents : d.file = f
    \/ \E r \in Request : req[r].pc = "insert" /\ req[r].document.file = f
    \/ failed # {}

\* When nothing is under way and no request failed or saved a stale user, the
\* user's photo is on disk, and no other photo is.
PhotoHasFile ==
  InFlight = {} /\ failed = {} /\ ~stale => photos = {profilePhoto} \ {NONE}

FilesAgree == DocumentsHaveFiles /\ FilesHaveDocuments /\ PhotoHasFile

=============================================================================
