------------------------------ MODULE TusUpload ------------------------------
(***************************************************************************)
(* One resumable upload and the requests that append to it, finish it or   *)
(* delete it, on any replica: the lock they share through Redis            *)
(* (src/core/modules/tus/tus-redis-locker.ts), the move of the finished    *)
(* upload into the file storage and the sweep of expired ones              *)
(* (src/core/modules/tus/core-tus.service.ts).                             *)
(*                                                                         *)
(* The tus server between them takes the lock, compares the offset,        *)
(* writes, calls the hook of a finished upload and gives the lock back.    *)
(***************************************************************************)
EXTENDS Replicas

CONSTANTS
    Request,
    Size,     \* of the upload, in chunks
    LockTtl,  \* ttlMs of the locker
    MaxAge    \* expiresIn of the sweep

NoUpload == -1
Unlocked == "free"
Delete   == -1

ASSUME TusAssumption == /\ {Size, LockTtl} \subseteq Nat \ {0}
                        /\ MaxAge \in Nat
                        /\ Unlocked \notin Request

VARIABLES
    staging,    \* the upload is staged on disk, or in S3
    staged,     \* its bytes, or NoUpload
    touched,    \* when the staged file was written last
    stored,     \* how often it is in the file storage, up to twice
    holder,     \* whose token the lock has, or Unlocked
    lockUntil,
    requests,   \* where each request is, and the offset it was sent with
    sweep,      \* the sweep has found the upload too old
    lapsed,     \* history: requests whose lock expired before they were done
    removed,    \* history: whether the upload was deleted, or swept
    cut         \* history: a request stored the upload and did not clean up

tusVars == <<now, staging, staged, touched, stored, holder, lockUntil, requests, sweep,
             lapsed, removed, cut>>

Inside == {"reading", "writing", "deleting", "finishing", "storing", "cleaning", "leaving", "complete"}
Phases == Inside \cup {"idle", "ok", "completed", "failed", "crashed"}

Served(r) == requests[r].at \in Inside
Is(r, place) == requests[r].at = place
Move(r, place) == requests' = [requests EXCEPT ![r].at = place]

Lock    == UNCHANGED <<holder, lockUntil, lapsed>>
Upload  == UNCHANGED <<staged, touched, stored, removed, cut>>
Others  == UNCHANGED <<now, staging, sweep>>

TusInit ==
    /\ now = 0
    /\ staging \in {"disk", "s3"}
    /\ staged = 0 /\ touched = 0 /\ stored = 0
    /\ holder = Unlocked /\ lockUntil = 0
    /\ requests \in [Request -> [at : {"idle"}, offset : {Delete} \cup 0..Size]]
    /\ sweep = FALSE
    /\ lapsed = {} /\ removed = "no" /\ cut = FALSE

-----------------------------------------------------------------------------
(* lock: SET NX PX.  A request that waits for the lock too long, or whose   *)
(* request to Redis fails, is answered with an error; the key may be set    *)
(* all the same, and stays until it expires.                                *)
lock(r) ==
    /\ Is(r, "idle") /\ holder = Unlocked
    /\ holder' = r /\ lockUntil' = now + LockTtl
    /\ Move(r, "reading") \/ Move(r, "failed")
    /\ Upload /\ Others /\ UNCHANGED lapsed

Timeout(r) == Is(r, "idle") /\ Move(r, "failed") /\ Lock /\ Upload /\ Others

(* The heartbeat, unless its request to Redis fails *)
heartbeat(r) ==
    /\ Served(r) /\ holder = r
    /\ lockUntil' = now + LockTtl
    /\ Upload /\ Others /\ UNCHANGED <<holder, lapsed, requests>>

(* Mutant: the key is deleted whoever has it. *)
UnlockAny(r) ==
    /\ requests[r].at \in {"leaving", "complete"}
    /\ holder' \in {Unlocked, holder}
    /\ Move(r, IF Is(r, "complete") THEN "completed" ELSE "ok")
    /\ Upload /\ Others /\ UNCHANGED <<lockUntil, lapsed>>

(* Compare and delete, whose failure costs at most a Ttl of waiting *)
unlock(r) ==
    /\ requests[r].at \in {"leaving", "complete"}
    /\ holder' \in {IF holder = r THEN Unlocked ELSE holder, holder}
    /\ Move(r, IF Is(r, "complete") THEN "completed" ELSE "ok")
    /\ Upload /\ Others /\ UNCHANGED <<lockUntil, lapsed>>

-----------------------------------------------------------------------------
(* The tus server compares the offset of the request with the upload's. *)
Read(r) ==
    /\ Is(r, "reading")
    /\ Move(r, CASE staged = NoUpload -> "leaving"
                 [] staged # NoUpload /\ requests[r].offset = Delete -> "deleting"
                 [] staged # NoUpload /\ requests[r].offset = staged -> "writing"
                 [] OTHER -> "leaving")
    /\ Lock /\ Upload /\ Others

(* A chunk is appended, or the connection breaks.  A file that was deleted  *)
(* meanwhile may still be written to, unseen.                               *)
Write(r) ==
    LET end == IF requests[r].offset < Size THEN requests[r].offset + 1 ELSE Size
    IN  /\ Is(r, "writing")
        /\ \/ /\ Move(r, IF end = Size THEN "finishing" ELSE "leaving")
              /\ staged' = IF staged = NoUpload \/ staged > end THEN staged ELSE end
              /\ touched' = now
           \/ Move(r, "leaving") /\ UNCHANGED <<staged, touched>>
        /\ Lock /\ Others /\ UNCHANGED <<stored, removed, cut>>

(* onUploadTerminate *)
Terminate(r) ==
    /\ Is(r, "deleting")
    /\ staged' = NoUpload /\ removed' = "deleted"
    /\ Move(r, "leaving")
    /\ Lock /\ Others /\ UNCHANGED <<touched, stored, cut>>

(* onUploadComplete: there is nothing to move if the staged file is gone    *)
(* from the disk; from S3 it is an error.                                   *)
readStagedUpload(r) ==
    /\ Is(r, "finishing")
    /\ Move(r, CASE staged # NoUpload -> "storing"
                 [] staged = NoUpload /\ staging = "disk" -> "complete"
                 [] staged = NoUpload /\ staging = "s3" -> "leaving")
    /\ Lock /\ Upload /\ Others

(* Mutant: the staged upload goes whether or not it could be stored. *)
WriteAndDelete(r) ==
    /\ Is(r, "storing")
    /\ stored' \in {stored, IF stored < 2 THEN stored + 1 ELSE stored}
    /\ staged' = NoUpload
    /\ Move(r, IF stored' = stored THEN "leaving" ELSE "complete")
    /\ Lock /\ Others /\ UNCHANGED <<touched, removed, cut>>

(* The copy within S3, or the stream into the storage, which reads on in a  *)
(* file that is deleted once it is open; it fails as a whole.               *)
writeFile(r) ==
    /\ Is(r, "storing")
    /\ \/ /\ staged # NoUpload \/ staging = "disk"
          /\ stored' = IF stored < 2 THEN stored + 1 ELSE stored
          /\ Move(r, "cleaning")
       \/ Move(r, "leaving") /\ UNCHANGED stored
    /\ Lock /\ Others /\ UNCHANGED <<staged, touched, removed, cut>>

(* Errors of the deletion are swallowed. *)
deleteStagedUpload(r) ==
    /\ Is(r, "cleaning")
    /\ \/ staged' = NoUpload /\ UNCHANGED cut
       \/ UNCHANGED staged /\ cut' = TRUE
    /\ Move(r, "complete")
    /\ Lock /\ Others /\ UNCHANGED <<touched, stored, removed>>

Break(r) ==
    /\ Served(r)
    /\ cut' = (cut \/ Is(r, "cleaning"))
    /\ Move(r, "crashed")
    /\ Lock /\ Others /\ UNCHANGED <<staged, touched, stored, removed>>

-----------------------------------------------------------------------------
(* cleanupExpiredUploads takes no lock, and leaves S3 to a lifecycle rule.  *)
FindExpired ==
    /\ staging = "disk" /\ ~ sweep
    /\ staged # NoUpload /\ now - touched > MaxAge
    /\ sweep' = TRUE
    /\ Lock /\ Upload /\ UNCHANGED <<now, staging, requests>>

DeleteExpired ==
    /\ sweep /\ sweep' = FALSE
    /\ staged' = NoUpload /\ removed' = IF removed = "no" THEN "swept" ELSE removed
    /\ Lock /\ UNCHANGED <<now, staging, requests, touched, stored, cut>>

(* Redis drops the lock when its time is over. *)
TusTick ==
    /\ now < MaxTime
    /\ now' = now + 1
    /\ IF holder # Unlocked /\ now + 1 >= lockUntil
       THEN holder' = Unlocked /\ lapsed' = lapsed \cup {r \in Request : r = holder /\ Served(r)}
       ELSE UNCHANGED <<holder, lapsed>>
    /\ Upload /\ UNCHANGED <<staging, lockUntil, requests, sweep>>

RequestStep(r) ==
    \/ lock(r) \/ Timeout(r) \/ heartbeat(r) \/ unlock(r)
    \/ Read(r) \/ Write(r) \/ Terminate(r)
    \/ readStagedUpload(r) \/ writeFile(r) \/ deleteStagedUpload(r) \/ Break(r)

TusNext == (\E r \in Request : RequestStep(r)) \/ FindExpired \/ DeleteExpired \/ TusTick
TusSpec == TusInit /\ [][TusNext]_tusVars

-----------------------------------------------------------------------------
TusTypeOK ==
    /\ now \in Nat /\ staging \in {"disk", "s3"}
    /\ staged \in {NoUpload} \cup 0..Size /\ touched \in Nat /\ stored \in 0..2
    /\ holder \in Request \cup {Unlocked} /\ lockUntil \in Nat
    /\ requests \in [Request -> [at : Phases, offset : {Delete} \cup 0..Size]]
    /\ sweep \in BOOLEAN /\ removed \in {"no", "deleted", "swept"} /\ cut \in BOOLEAN
    /\ lapsed \subseteq Request

(* The locker exists so that two replicas do not "interleave byte ranges    *)
(* into one upload": of two requests that are being served, one has lost    *)
(* its lock, because its heartbeats failed for the time to live of it.      *)
OneWriter == \A r, s \in Request : Served(r) /\ Served(s) /\ r # s => {r, s} \cap lapsed # {}

(* A request that fails "lets the client retry": in every order of          *)
(* failures, crashes and lapsed locks the upload is staged or stored,       *)
(* unless a DELETE or the sweep took it.                                    *)
NothingLost == staged = NoUpload /\ stored = 0 => removed # "no"

(* A retry stores the upload a second time only if the request before it    *)
(* was cut off between storing and cleaning up, or lost its lock.           *)
TwiceOnlyIfCut == stored > 1 => cut \/ lapsed # {}

(* What an upload that was accepted comes to: a file, and one file, with    *)
(* the exceptions of the two above.                                         *)
UploadKept == NothingLost /\ TwiceOnlyIfCut
=============================================================================
