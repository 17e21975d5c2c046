------------------------------ MODULE FileStore ------------------------------
(***************************************************************************)
(* Files of one name in three stores (src/core/modules/file): the bytes on  *)
(* S3, on disk or in GridFS, what describes them in MongoDB.  A method of   *)
(* CoreFileService is a row of lookups, before each of which the rights of  *)
(* the caller are looked up too, while files come and go.                   *)
(* A lookup by id is one step, as a file never changes its store; one by    *)
(* name probes store after store.  A presigned URL counts as the file.      *)
(***************************************************************************)
EXTENDS Integers, Sequences, FiniteSets

CONSTANTS
    File,      \* ids
    Old,       \* the files there are at first, oldest first
    Person,    \* who may call; one of them is nobody in particular
    Anonymous,
    Admin,
    TenantOf,  \* the validated tenant of a person's calls
    Preset,    \* file.access
    Transfer   \* calls

NoFile == "no file"
NoKey  == "no key"
NoStore == "no store"   \* of an id that is still unused
Storage  == {"s3", "filesystem", "gridfs"}

ASSUME FileAssumption ==
    /\ Old \in Seq(File) /\ \A i, j \in DOMAIN Old : Old[i] = Old[j] => i = j
    /\ NoFile \notin File
    /\ Anonymous \in Person \ Admin /\ Admin \subseteq Person
    /\ DOMAIN TenantOf = Person
    /\ Preset \in {"custom", "public", "authenticated", "owner", "tenant"}

VARIABLES
    files,     \* of each: its store, the key it is stamped with, its bytes
    uploaded,  \* the documents that describe files, oldest first
    transfers, \* what each call is doing
    torn,      \* history: files of which a failure or a crash left one half
    crossed  \* history: calls during which another wrote to a store

fileVars == <<files, uploaded, transfers, torn, crossed>>

Described(f) == \E i \in DOMAIN uploaded : uploaded[i] = f
Given        == {Old[i] : i \in DOMAIN Old}

(* accessMetadata: what an upload is stamped with *)
accessMetadata(who) ==
    CASE Preset = "owner" /\ who # Anonymous -> who
      [] Preset = "tenant"                   -> TenantOf[who]
      [] OTHER                               -> NoKey

(* The document must be there and carry a key. *)
Keyed(f, key) == f # NoFile /\ files[f].key # NoKey /\ files[f].key = key

(* decideFileAccess of a lookup; writes are left to the roles of the route. *)
decideFileAccess(who, f) ==
    \/ Preset \in {"custom", "public"}
    \/ Preset = "authenticated" /\ who # Anonymous
    \/ Preset \in {"owner", "tenant"} /\ who \in Admin
    \/ Preset = "owner" /\ Keyed(f, who)
    \/ Preset = "tenant" /\ Keyed(f, TenantOf[who])

(* The steps of each method; "rights" and "find" are lookups by id. *)
Download        == <<"rights", "find", "rights", "open">>
DownloadByName  == <<"rightsByName", "findByName", "rights", "locate", "open">>
StreamByName    == <<"rightsByName", "findByName", "open">>
Deleting        == <<"rights", "rights", "find", "locate", "erase", "eraseRest">>
DeletingByName  == <<"rightsByName", "rightsByName", "findByName",
                     "rights", "rights", "find", "locate", "erase", "eraseRest">>
Uploading       == <<"write", "record">>
DuplicateByName == <<"rightsByName", "findByName", "rightsByName", "findByName", "open",
                     "write", "record">>
Method == [getFileById         |-> Download,
           getFile             |-> DownloadByName,
           getFileStreamByName |-> StreamByName,
           deleteFile          |-> Deleting,
           deleteFileByName    |-> DeletingByName,
           createFile          |-> Uploading,
           duplicateByName     |-> DuplicateByName]
ByName == {"getFile", "getFileStreamByName", "deleteFileByName", "duplicateByName"}

Idle == [op |-> "none", by |-> Anonymous, next |-> 0, probed |-> 0, file |-> NoFile,
         store |-> "gridfs", got |-> NoFile, due |-> NoFile, end |-> "idle"]

FilesInit ==
    /\ \E s \in [Given -> Storage], p \in [Given -> Person] :
          files = [f \in File |->
                      IF f \in Given THEN [store |-> s[f], key |-> accessMetadata(p[f]), bytes |-> TRUE]
                      ELSE [store |-> NoStore, key |-> NoKey, bytes |-> FALSE]]
    /\ uploaded = Old
    /\ transfers = [t \in Transfer |-> Idle]
    /\ torn = {} /\ crossed = {}

Busy(t)     == transfers[t].end = "busy"
Upcoming(t, step) == Busy(t) /\ Method[transfers[t].op][transfers[t].next] = step

(* A call does its next step, and has ended after the last one. *)
Goes(t, call) ==
    LET last == call.next = Len(Method[call.op])
    IN  transfers' = [transfers EXCEPT ![t] =
            [call EXCEPT !.next = IF last THEN 0 ELSE @ + 1, !.probed = 0, !.end = IF last THEN "done" ELSE "busy"]]
Ends(t, how) ==
    transfers' = [transfers EXCEPT ![t] = [transfers[t] EXCEPT !.next = 0, !.probed = 0, !.end = how]]

Crosses(t)  == crossed' = crossed \cup {r \in Transfer \ {t} : Busy(r)}
Tears(f, half) == torn' = IF half THEN torn \cup {f} ELSE torn
OnlyLooks == UNCHANGED <<files, uploaded, torn, crossed>>

-----------------------------------------------------------------------------
(* Newest first, in the first of the stores that has one.  The rights are   *)
(* looked up in the stores that the file is looked up in.                   *)
Probes    == <<"s3", "filesystem", "gridfs">>
Newest(s) ==
    LET those == {i \in DOMAIN uploaded : files[uploaded[i]].store = s}
    IN  IF those = {} THEN NoFile ELSE uploaded[CHOOSE i \in those : \A j \in those : j <= i]

(* Mutant: the lookup for the rights leaves the filesystem out. *)
ProbedWithoutDisk(step, i) ==
    IF step = "rightsByName" /\ Probes[i] = "filesystem" THEN NoFile ELSE Newest(Probes[i])

Probed(step, i) == Newest(Probes[i])

(* History: the file that a call is about, if nobody crosses it *)
FirstByName ==
    LET hits == {i \in DOMAIN Probes : Newest(Probes[i]) # NoFile}
    IN  IF hits = {} THEN NoFile ELSE Newest(Probes[CHOOSE i \in hits : \A j \in hits : i <= j])
Due(op, by, f) ==
    LET wanted == IF op \in ByName THEN FirstByName ELSE f
    IN  IF wanted # NoFile /\ Described(wanted) /\ decideFileAccess(by, wanted) THEN wanted ELSE NoFile

StartTransfer(t, op, by, f) ==
    /\ transfers[t] = Idle
    /\ f = NoFile <=> op \in ByName \cup {"createFile"}
    /\ transfers' = [transfers EXCEPT ![t] = [Idle EXCEPT
            !.op = op, !.by = by, !.next = 1, !.file = f, !.due = Due(op, by, f), !.end = "busy"]]
    /\ crossed' = IF \E r \in Transfer : Upcoming(r, "eraseRest") THEN crossed \cup {t} ELSE crossed
    /\ UNCHANGED <<files, uploaded, torn>>

(* A refusal is answered like a file that is not there. *)
checkRights(t) ==
    /\ Upcoming(t, "rights")
    /\ LET f == transfers[t].file
       IN  IF decideFileAccess(transfers[t].by, IF Described(f) THEN f ELSE NoFile)
           THEN Goes(t, transfers[t]) ELSE Ends(t, "missing")
    /\ OnlyLooks

findFileById(t) ==
    /\ Upcoming(t, "find")
    /\ IF Described(transfers[t].file)
       THEN Goes(t, [transfers[t] EXCEPT !.store = files[transfers[t].file].store])
       ELSE Ends(t, "missing")
    /\ OnlyLooks

(* Mutant: the disk is not asked. *)
locateOnS3(t) ==
    /\ Upcoming(t, "locate")
    /\ LET f  == transfers[t].file
           s3 == Described(f) /\ files[f].store = "s3"
       IN  Goes(t, [transfers[t] EXCEPT !.store = IF s3 THEN "s3" ELSE "gridfs"])
    /\ OnlyLooks

(* GridFS is where a file is that no store knows. *)
locateFile(t) ==
    /\ Upcoming(t, "locate")
    /\ LET f == transfers[t].file
       IN  Goes(t, [transfers[t] EXCEPT !.store = IF Described(f) THEN files[f].store ELSE "gridfs"])
    /\ OnlyLooks

(* One store of a lookup by name, for the rights or for the file *)
findFileByName(t, step) ==
    LET call == transfers[t]
        hit  == Probed(step, call.probed + 1)
        over == hit # NoFile \/ call.probed = 2
    IN  /\ Upcoming(t, step)
        /\ CASE ~ over -> transfers' = [transfers EXCEPT ![t].probed = @ + 1]
             [] over /\ step = "rightsByName" ->
                    IF decideFileAccess(call.by, hit) THEN Goes(t, call) ELSE Ends(t, "missing")
             [] over /\ step = "findByName" ->
                    IF hit # NoFile THEN Goes(t, [call EXCEPT !.file = hit, !.store = files[hit].store])
                    ELSE Ends(t, "missing")
        /\ OnlyLooks

(* GridFS reads by the document, the others by the path or key alone; the   *)
(* miss is reported on the stream.                                          *)
getStream(t) ==
    LET f == transfers[t].file
    IN  /\ Upcoming(t, "open")
        /\ IF files[f].store = transfers[t].store /\ files[f].bytes /\ (files[f].store = "gridfs" => Described(f))
           THEN Goes(t, [transfers[t] EXCEPT !.got = f]) ELSE Ends(t, "missing")
        /\ OnlyLooks

-----------------------------------------------------------------------------
(* writeFile: the bytes first.  When they do not all arrive, the file on    *)
(* disk is removed and the upload to GridFS aborted, if that succeeds; on   *)
(* S3 whatever arrived stays.                                               *)
WriteBytes(t, f, s) ==
    /\ Upcoming(t, "write")
    /\ files[f].store = NoStore
    /\ LET written == [store |-> s, key |-> accessMetadata(transfers[t].by), bytes |-> TRUE]
       IN  \/ files' = [files EXCEPT ![f] = written]
              /\ Goes(t, [transfers[t] EXCEPT !.file = f]) /\ UNCHANGED torn
           \/ \E half \in BOOLEAN :
                 /\ files' = [files EXCEPT ![f] = [written EXCEPT !.bytes = half]]
                 /\ Tears(f, half) /\ Ends(t, "failed")
    /\ Crosses(t) /\ UNCHANGED uploaded

(* Mutant: the file on disk stays when its document cannot be inserted. *)
RecordOrLeave(t) ==
    LET f == transfers[t].file
    IN  /\ Upcoming(t, "record")
        /\ \/ uploaded' = Append(uploaded, f) /\ Goes(t, transfers[t]) /\ UNCHANGED torn
           \/ Tears(f, files[f].store # "filesystem") /\ Ends(t, "failed") /\ UNCHANGED uploaded
        /\ UNCHANGED files /\ Crosses(t)

(* Then the document, once the bytes are seen to be there.  When that       *)
(* fails, the file on disk is removed, if that succeeds; the document may   *)
(* be inserted all the same and only the answer lost.                       *)
RecordFile(t) ==
    LET f == transfers[t].file
    IN  /\ Upcoming(t, "record")
        /\ \/ uploaded' = Append(uploaded, f) /\ Goes(t, transfers[t]) /\ UNCHANGED <<files, torn>>
           \/ \E half \in IF files[f].store = "filesystem" THEN BOOLEAN ELSE {TRUE}, inserted \in BOOLEAN :
                 /\ files' = [files EXCEPT ![f].bytes = half]
                 /\ uploaded' = IF inserted THEN Append(uploaded, f) ELSE uploaded
                 /\ Tears(f, half # inserted) /\ Ends(t, "failed")
        /\ Crosses(t)

(* deleteFile: GridFS deletes the document first, and fails if there is     *)
(* none; S3 and the disk the bytes, and neither minds.  A half may be       *)
(* deleted and only the answer lost.                                        *)
Without(f) ==
    LET k == CHOOSE i \in DOMAIN uploaded : uploaded[i] = f
    IN  IF ~ Described(f) THEN uploaded
        ELSE SubSeq(uploaded, 1, k - 1) \o SubSeq(uploaded, k + 1, Len(uploaded))

Erase(t, half) ==
    LET f == transfers[t].file
    IN  IF half = "bytes"
        THEN files' = [files EXCEPT ![f].bytes = FALSE] /\ UNCHANGED uploaded
        ELSE uploaded' = Without(f) /\ UNCHANGED files

deleteFile(t) ==
    LET f      == transfers[t].file
        gridfs == transfers[t].store = "gridfs"
    IN  /\ Upcoming(t, "erase")
        /\ \/ /\ gridfs => Described(f)
              /\ Erase(t, IF gridfs THEN "document" ELSE "bytes") /\ Crosses(t)
              /\ \/ Goes(t, [transfers[t] EXCEPT !.got = f]) /\ UNCHANGED torn
                 \/ Tears(f, TRUE) /\ Ends(t, "failed")
           \/ Ends(t, "failed") /\ UNCHANGED <<files, uploaded, torn, crossed>>

deleteRest(t) ==
    /\ Upcoming(t, "eraseRest")
    /\ \/ /\ Erase(t, IF transfers[t].store = "gridfs" THEN "bytes" ELSE "document")
          /\ Goes(t, transfers[t]) \/ Ends(t, "failed")
          /\ UNCHANGED torn
       \/ Tears(transfers[t].file, TRUE) /\ Ends(t, "failed") /\ UNCHANGED <<files, uploaded>>
    /\ Crosses(t)

(* The process dies, between two halves or elsewhere. *)
CutOff(t) ==
    /\ Busy(t)
    /\ Tears(transfers[t].file, Upcoming(t, "record") \/ Upcoming(t, "eraseRest"))
    /\ Ends(t, "cut")
    /\ UNCHANGED <<files, uploaded, crossed>>

(* An id is not known to anybody before there is a file. *)
Known == {f \in File : files[f].store # NoStore}

TransferStep(t) ==
    \/ \E op \in DOMAIN Method, by \in Person, f \in Known \cup {NoFile} : StartTransfer(t, op, by, f)
    \/ checkRights(t) \/ findFileById(t) \/ locateFile(t) \/ getStream(t)
    \/ \E step \in {"rightsByName", "findByName"} : findFileByName(t, step)
    \/ \E f \in File, s \in Storage : WriteBytes(t, f, s)
    \/ RecordFile(t) \/ deleteFile(t) \/ deleteRest(t) \/ CutOff(t)

FilesNext == \E t \in Transfer : TransferStep(t)
FilesSpec == FilesInit /\ [][FilesNext]_fileVars

-----------------------------------------------------------------------------
TransferType ==
    [op : DOMAIN Method \cup {"none"}, by : Person, next : 0..9, probed : 0..2,
     file : File \cup {NoFile}, store : Storage, got : File \cup {NoFile}, due : File \cup {NoFile},
     end : {"idle", "busy", "done", "missing", "failed", "cut"}]

FilesTypeOK ==
    /\ files \in [File -> [store : Storage \cup {NoStore}, bytes : BOOLEAN,
                            key : {NoKey} \cup {accessMetadata(p) : p \in Person}]]
    /\ uploaded \in Seq(File) /\ \A i, j \in DOMAIN uploaded : uploaded[i] = uploaded[j] => i = j
    /\ transfers \in [Transfer -> TransferType]
    /\ \A t \in Transfer : Busy(t) =>
          transfers[t].op # "none" /\ transfers[t].next \in 1..Len(Method[transfers[t].op])
    /\ torn \subseteq File /\ crossed \subseteq Transfer

(* "The document authorization inspected is the one being served": nobody   *)
(* is given, or deletes, a file that is not for them, in whatever store it  *)
(* is.  The methods that open a file by its name look it up once for the    *)
(* rights and once to serve it, and can be crossed in between.            *)
OnlyTheirOwn ==
    \A t \in Transfer : LET call == transfers[t] IN
        call.got # NoFile =>
            \/ decideFileAccess(call.by, call.got)
            \/ call.op \in {"getFileStreamByName", "duplicateByName"} /\ t \in crossed

(* A call that nobody crosses comes to the newest file of the first store *)
(* that has one, or to the file it names, and to none if that is refused.   *)
AsIfAlone ==
    \A t \in Transfer : LET call == transfers[t] IN
        call.end \in {"done", "missing"} /\ t \notin crossed /\ call.due \notin torn
            => call.got = call.due

(* "A file info is never returned for bytes that did not arrive", and a     *)
(* stored file without its document "can never be cleaned up": one half of  *)
(* a file is there alone only while a call is at work on it, or when one    *)
(* failed or died just there.                                               *)
BytesBehindInfo ==
    \A f \in File :
        \/ files[f].bytes <=> Described(f)
        \/ f \in torn
        \/ \E t \in Transfer : transfers[t].file = f /\ (Upcoming(t, "record") \/ Upcoming(t, "eraseRest"))
=============================================================================
