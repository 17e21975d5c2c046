-------------------------- MODULE FileStoreProofs --------------------------
(***************************************************************************)
(* What the file service promises, for any number of files and calls: that  *)
(* no half of a file is left behind unnoticed, that nobody comes to a file  *)
(* which is not theirs, and that a call which nobody crosses comes to the   *)
(* file it is about.                                                        *)
(***************************************************************************)
EXTENDS FileStore, SequenceTheorems, WellFoundedInduction, TLAPS

Step(t) == Method[transfers[t].op][transfers[t].next]

(* The steps a call has done *)
Behind(t) == {Method[transfers[t].op][i] : i \in 1..(transfers[t].next - 1)}

Others(t) == \A u \in Transfer \ {t} : transfers'[u] = transfers[u]

-----------------------------------------------------------------------------
(* What the rows of Method have in common.                                  *)
Before(op, i) == {Method[op][j] : j \in 1..(i - 1)}

Ordered(op, i) ==
    LET step == Method[op][i]
    IN  /\ step \in {"rights", "find", "rightsByName", "findByName", "locate", "open",
                     "write", "record", "erase", "eraseRest"}
        /\ step = "record" => i = Len(Method[op]) /\ i > 1 /\ Method[op][i - 1] = "write"
        /\ step = "eraseRest" => i = Len(Method[op]) /\ i > 1 /\ Method[op][i - 1] = "erase"
        /\ step = "write" => i < Len(Method[op]) /\ Method[op][i + 1] = "record"
        /\ step = "erase" => i < Len(Method[op]) /\ Method[op][i + 1] = "eraseRest"
        /\ step \in {"locate", "open", "erase", "eraseRest"} => Before(op, i) \cap {"find", "findByName"} # {}
        /\ step \in {"erase", "eraseRest"} => "locate" \in Before(op, i)
        /\ "write" \in Before(op, i) => step = "record"
        /\ step \in {"write", "record", "eraseRest"} => op = "createFile" \/ Before(op, i) \cap {"open", "erase"} # {}
        /\ step \notin {"write", "record", "eraseRest"} => op # "createFile" /\ Before(op, i) \cap {"open", "erase"} = {}
        /\ step \in {"open", "erase"} => \/ "rights" \in Before(op, i)
                                       \/ op \in {"getFileStreamByName", "duplicateByName"}
        /\ step \in {"open", "erase"} => op \in ByName \/ "find" \in Before(op, i)
        /\ step \in {"rightsByName", "findByName"} => op \in ByName
        /\ op \in ByName /\ step # "rightsByName" => "rightsByName" \in Before(op, i)
        /\ op \in ByName /\ step \notin {"rightsByName", "findByName"} => "findByName" \in Before(op, i)
        /\ "rights" \in Before(op, i) => step \notin {"rightsByName", "findByName", "write"}
        /\ i = Len(Method[op]) => step \in {"open", "record", "eraseRest"}

LEMMA MethodOrder ==
    ASSUME NEW op \in DOMAIN Method, NEW i \in 1..Len(Method[op])
    PROVE  Ordered(op, i)
<1>1. CASE op = "getFileById"
  <2>1. Method[op] = Download /\ Len(Method[op]) = 4 /\ i \in 1..4
    BY <1>1 DEF Method, Download
  <2> QED BY <1>1, <2>1 DEF Ordered, Before, Download, ByName
<1>2. CASE op = "getFile"
  <2>1. Method[op] = DownloadByName /\ Len(Method[op]) = 5 /\ i \in 1..5
    BY <1>2 DEF Method, DownloadByName
  <2> QED BY <1>2, <2>1 DEF Ordered, Before, DownloadByName, ByName
<1>3. CASE op = "getFileStreamByName"
  <2>1. Method[op] = StreamByName /\ Len(Method[op]) = 3 /\ i \in 1..3
    BY <1>3 DEF Method, StreamByName
  <2> QED BY <1>3, <2>1 DEF Ordered, Before, StreamByName, ByName
<1>4. CASE op = "deleteFile"
  <2>1. Method[op] = Deleting /\ Len(Method[op]) = 6 /\ i \in 1..6
    BY <1>4 DEF Method, Deleting
  <2> QED BY <1>4, <2>1 DEF Ordered, Before, Deleting, ByName
<1>5. CASE op = "deleteFileByName"
  <2>1. Method[op] = DeletingByName /\ Len(Method[op]) = 9 /\ i \in 1..9
    BY <1>5 DEF Method, DeletingByName
  <2> QED BY <1>5, <2>1 DEF Ordered, Before, DeletingByName, ByName
<1>6. CASE op = "createFile"
  <2>1. Method[op] = Uploading /\ Len(Method[op]) = 2 /\ i \in 1..2
    BY <1>6 DEF Method, Uploading
  <2> QED BY <1>6, <2>1 DEF Ordered, Before, Uploading, ByName
<1>7. CASE op = "duplicateByName"
  <2>1. Method[op] = DuplicateByName /\ Len(Method[op]) = 7 /\ i \in 1..7
    BY <1>7 DEF Method, DuplicateByName
  <2> QED BY <1>7, <2>1 DEF Ordered, Before, DuplicateByName, ByName
<1> QED BY <1>1, <1>2, <1>3, <1>4, <1>5, <1>6, <1>7 DEF Method

(* The same of what a call is about to do *)
LEMMA StepOrder ==
    ASSUME FilesTypeOK, NEW t \in Transfer, Busy(t)
    PROVE  /\ transfers[t].op \in DOMAIN Method /\ transfers[t].next \in 1..Len(Method[transfers[t].op])
           /\ Ordered(transfers[t].op, transfers[t].next)
           /\ Before(transfers[t].op, transfers[t].next) = Behind(t)
           /\ \A step : Upcoming(t, step) <=> Step(t) = step
<1>1. transfers[t].op \in DOMAIN Method /\ transfers[t].next \in 1..Len(Method[transfers[t].op])
  BY DEF FilesTypeOK, TransferType
<1>2. Ordered(transfers[t].op, transfers[t].next)
  BY <1>1, MethodOrder
<1> QED BY <1>1, <1>2 DEF Before, Behind, Upcoming, Step

(* A call that goes on has one step more behind it. *)
LEMMA GoesIs ==
    ASSUME FilesTypeOK, NEW t \in Transfer, Busy(t), NEW call \in TransferType, Goes(t, call),
           call.op = transfers[t].op, call.next = transfers[t].next
    PROVE  /\ transfers' \in [Transfer -> TransferType] /\ Others(t)
           /\ \A u \in Transfer : Busy(u)' => /\ transfers'[u].op # "none"
                                              /\ transfers'[u].next \in 1..Len(Method[transfers'[u].op])
           /\ transfers'[t].op = call.op /\ transfers'[t].by = call.by /\ transfers'[t].due = call.due
           /\ transfers'[t].file = call.file /\ transfers'[t].store = call.store /\ transfers'[t].got = call.got
           /\ transfers'[t].probed = 0
           /\ Busy(t)' <=> transfers[t].next # Len(Method[transfers[t].op])
           /\ Busy(t)' => /\ transfers'[t].next = transfers[t].next + 1
                          /\ Behind(t)' = Behind(t) \cup {Step(t)}
           /\ ~ Busy(t)' => transfers'[t].end = "done"
<1> DEFINE op == transfers[t].op
           i  == transfers[t].next
<1>1. op \in DOMAIN Method /\ i \in 1..Len(Method[op]) /\ Len(Method[op]) \in 1..9
  <2>1. op \in DOMAIN Method /\ i \in 1..Len(Method[op])
    BY StepOrder
  <2>2. Len(Method[op]) \in 1..9
    BY <2>1 DEF Method, Download, DownloadByName, StreamByName, Deleting, DeletingByName, Uploading, DuplicateByName
  <2> QED BY <2>1, <2>2
<1> DEFINE after == [call EXCEPT !.next = IF i = Len(Method[op]) THEN 0 ELSE i + 1, !.probed = 0,
                                 !.end = IF i = Len(Method[op]) THEN "done" ELSE "busy"]
<1>2. transfers' = [transfers EXCEPT ![t] = after]
  BY DEF Goes
<1>3. after \in TransferType
  <2> DEFINE n == IF i = Len(Method[op]) THEN 0 ELSE i + 1
             e == IF i = Len(Method[op]) THEN "done" ELSE "busy"
  <2>1. n \in 0..9
    <3>1. \A m \in 1..9 : \A j \in 1..m : (IF j = m THEN 0 ELSE j + 1) \in 0..9
      OBVIOUS
    <3> HIDE DEF op, i
    <3> QED BY <1>1, <3>1
  <2>2. e \in {"idle", "busy", "done", "missing", "failed", "cut"} /\ 0 \in 0..2
    OBVIOUS
  <2> HIDE DEF n, e, i, op
  <2>3. [call EXCEPT !.next = n, !.probed = 0, !.end = e] \in TransferType
    BY <2>1, <2>2 DEF TransferType
  <2> QED BY <2>3 DEF n, e
<1>4. transfers \in [Transfer -> TransferType]
  BY DEF FilesTypeOK
<1>5. transfers' \in [Transfer -> TransferType] /\ Others(t) /\ transfers'[t] = after
  BY <1>2, <1>3, <1>4 DEF Others
<1>6. /\ after.op = op /\ after.next = (IF i = Len(Method[op]) THEN 0 ELSE i + 1)
      /\ after.end = (IF i = Len(Method[op]) THEN "done" ELSE "busy")
      /\ after.by = call.by /\ after.due = call.due /\ after.file = call.file
      /\ after.store = call.store /\ after.got = call.got /\ after.probed = 0
  BY DEF TransferType
<1> HIDE DEF after
<1>7. Busy(t)' => transfers'[t].op = op /\ transfers'[t].next = i + 1 /\ i + 1 \in 1..Len(Method[op])
  BY <1>1, <1>5, <1>6 DEF Busy
<1>8. Busy(t)' => Behind(t)' = Behind(t) \cup {Step(t)}
  <2> SUFFICES ASSUME Busy(t)' PROVE Behind(t)' = Behind(t) \cup {Step(t)}
    OBVIOUS
  <2>2. transfers'[t].op = op /\ transfers'[t].next - 1 = i
    BY <1>1, <1>7
  <2>3. \A x : x \in Behind(t)' <=> \E j \in 1..i : x = Method[op][j]
    <3> HIDE DEF op, i
    <3> QED BY <2>2 DEF Behind
  <2>4. \A x : x \in Behind(t) <=> \E j \in 1..(i - 1) : x = Method[op][j]
    BY DEF Behind
  <2>5. Step(t) = Method[op][i] /\ \A j : j \in 1..i <=> j \in 1..(i - 1) \/ j = i
    BY <1>1 DEF Step
  <2> HIDE DEF op, i
  <2>6. \A x : x \in Behind(t)' <=> x \in Behind(t) \/ x = Step(t)
    BY <2>3, <2>4, <2>5
  <2> QED BY <2>6
<1>9. \A u \in Transfer : Busy(u)' => transfers'[u].op # "none" /\ transfers'[u].next \in 1..Len(Method[transfers'[u].op])
  <2> SUFFICES ASSUME NEW u \in Transfer, Busy(u)'
               PROVE  transfers'[u].op # "none" /\ transfers'[u].next \in 1..Len(Method[transfers'[u].op])
    OBVIOUS
  <2>1. CASE u = t
    BY <1>1, <1>7, <2>1 DEF Method
  <2>2. CASE u # t
    BY <1>5, <2>2 DEF Others, Busy, FilesTypeOK
  <2> QED BY <2>1, <2>2
<1>10. Busy(t)' <=> i # Len(Method[op])
  BY <1>5, <1>6 DEF Busy
<1> QED BY <1>5, <1>6, <1>7, <1>8, <1>9, <1>10 DEF Busy

LEMMA EndsIs ==
    ASSUME FilesTypeOK, NEW t \in Transfer, NEW how \in {"missing", "failed", "cut"}, Ends(t, how)
    PROVE  /\ transfers' \in [Transfer -> TransferType] /\ Others(t)
           /\ \A u \in Transfer : Busy(u)' => /\ transfers'[u].op # "none"
                                              /\ transfers'[u].next \in 1..Len(Method[transfers'[u].op])
           /\ ~ Busy(t)' /\ transfers'[t].end = how
           /\ transfers'[t].op = transfers[t].op /\ transfers'[t].by = transfers[t].by
           /\ transfers'[t].due = transfers[t].due /\ transfers'[t].file = transfers[t].file
           /\ transfers'[t].got = transfers[t].got
<1> DEFINE after == [transfers[t] EXCEPT !.next = 0, !.probed = 0, !.end = how]
<1>1. transfers[t] \in TransferType /\ transfers \in [Transfer -> TransferType]
  BY DEF FilesTypeOK
<1>2. after \in TransferType
  <2>1. how \in {"idle", "busy", "done", "missing", "failed", "cut"} /\ 0 \in 0..9 /\ 0 \in 0..2
    OBVIOUS
  <2> QED BY <1>1, <2>1 DEF TransferType
<1>3. /\ after.end = how /\ after.op = transfers[t].op /\ after.by = transfers[t].by
      /\ after.due = transfers[t].due /\ after.file = transfers[t].file /\ after.got = transfers[t].got
  BY <1>1 DEF TransferType
<1>4. transfers' \in [Transfer -> TransferType] /\ Others(t) /\ transfers'[t] = after
  BY <1>1, <1>2 DEF Ends, Others
<1> HIDE DEF after
<1>5. \A u \in Transfer : Busy(u)' => transfers'[u].op # "none" /\ transfers'[u].next \in 1..Len(Method[transfers'[u].op])
  BY <1>3, <1>4 DEF Others, Busy, FilesTypeOK
<1> QED BY <1>3, <1>4, <1>5 DEF Busy

-----------------------------------------------------------------------------
(* The documents: a lookup finds one that is there.                         *)
LEMMA NewestIs ==
    ASSUME FilesTypeOK, NEW s, Newest(s) # NoFile
    PROVE  Newest(s) \in File /\ Described(Newest(s)) /\ files[Newest(s)].store = s
<1> DEFINE those == {i \in DOMAIN uploaded : files[uploaded[i]].store = s}
           back  == {Len(uploaded) - i : i \in those}
<1>1. those # {} /\ those \subseteq 1..Len(uploaded) /\ Len(uploaded) \in Nat
  BY DEF Newest, FilesTypeOK
<1>2. back \subseteq Nat /\ back # {}
  BY <1>1
<1>3. \E n \in back : \A m \in back : ~ (<<m, n>> \in OpToRel(<, Nat))
  BY <1>2, NatLessThanWellFounded, WFMin DEF OpToRel
<1>4. PICK n \in back : \A m \in back : ~ (m < n)
  BY <1>2, <1>3 DEF OpToRel
<1>5. PICK k \in those : n = Len(uploaded) - k
  BY <1>4
<1>6. \A j \in those : j <= k
  <2> SUFFICES ASSUME NEW j \in those PROVE j <= k
    OBVIOUS
  <2>1. Len(uploaded) - j \in back
    OBVIOUS
  <2>2. ~ (Len(uploaded) - j < n)
    BY <1>4, <2>1
  <2>3. j \in 1..Len(uploaded) /\ k \in 1..Len(uploaded)
    BY <1>1
  <2> HIDE DEF those, back
  <2> QED BY <1>1, <1>5, <2>2, <2>3
<1>7. PICK i \in those : Newest(s) = uploaded[i]
  BY <1>1, <1>6 DEF Newest
<1>8. i \in DOMAIN uploaded /\ uploaded[i] \in File
  BY <1>7 DEF FilesTypeOK
<1> QED BY <1>7, <1>8 DEF Described

LEMMA FirstIs ==
    ASSUME FilesTypeOK
    PROVE  /\ FirstByName # NoFile => /\ FirstByName \in File /\ Described(FirstByName)
           /\ \A k \in 1..3 : Newest(Probes[k]) # NoFile /\ (\A j \in 1..(k - 1) : Newest(Probes[j]) = NoFile)
                 => FirstByName = Newest(Probes[k])
           /\ (\A j \in 1..3 : Newest(Probes[j]) = NoFile) => FirstByName = NoFile
<1> DEFINE hits == {i \in DOMAIN Probes : Newest(Probes[i]) # NoFile}
<1>1. DOMAIN Probes = 1..3
  BY DEF Probes
<1>2. ASSUME NEW k \in hits, \A j \in hits : k <= j PROVE FirstByName = Newest(Probes[k])
  BY <1>1, <1>2 DEF FirstByName
<1>3. hits # {} => \E k \in hits : \A j \in hits : k <= j
  BY <1>1
<1>4. FirstByName # NoFile => FirstByName \in File /\ Described(FirstByName)
  <2>1. CASE hits = {}
    BY <2>1 DEF FirstByName
  <2>2. CASE hits # {}
    <3>1. PICK k \in hits : FirstByName = Newest(Probes[k])
      BY <1>2, <1>3, <2>2
    <3> QED BY <3>1, NewestIs
  <2> QED BY <2>1, <2>2
<1>5. ASSUME NEW k \in 1..3, Newest(Probes[k]) # NoFile, \A j \in 1..(k - 1) : Newest(Probes[j]) = NoFile
      PROVE  FirstByName = Newest(Probes[k])
  <2>1. k \in hits /\ \A j \in hits : k <= j
    BY <1>1, <1>5
  <2> QED BY <2>1, <1>2
<1>6. (\A j \in 1..3 : Newest(Probes[j]) = NoFile) => FirstByName = NoFile
  BY <1>1 DEF FirstByName
<1> QED BY <1>4, <1>5, <1>6

RemovedAt(s, k) == SubSeq(s, 1, k - 1) \o SubSeq(s, k + 1, Len(s))

LEMMA RemovedAtIs ==
    ASSUME NEW S, NEW s \in Seq(S), NEW k \in 1..Len(s)
    PROVE  /\ RemovedAt(s, k) \in Seq(S) /\ Len(RemovedAt(s, k)) = Len(s) - 1
           /\ \A i \in 1..(Len(s) - 1) : RemovedAt(s, k)[i] = IF i < k THEN s[i] ELSE s[i + 1]
<1> DEFINE front == SubSeq(s, 1, k - 1)
           back  == SubSeq(s, k + 1, Len(s))
<1>1. front \in Seq(S) /\ Len(front) = k - 1 /\ \A i \in 1..(k - 1) : front[i] = s[i]
  BY SubSeqProperties
<1>2. back \in Seq(S) /\ Len(back) = Len(s) - k /\ \A i \in 1..(Len(s) - k) : back[i] = s[k + i]
  BY SubSeqProperties
<1>3. RemovedAt(s, k) = front \o back
  BY DEF RemovedAt
<1> HIDE DEF front, back
<1>4. /\ front \o back \in Seq(S) /\ Len(front \o back) = Len(front) + Len(back)
      /\ \A i \in 1..(Len(front) + Len(back)) : (front \o back)[i] =
            IF i <= Len(front) THEN front[i] ELSE back[i - Len(front)]
  BY <1>1, <1>2, ConcatProperties
<1>5. ASSUME NEW i \in 1..(Len(s) - 1)
      PROVE  (front \o back)[i] = IF i < k THEN s[i] ELSE s[i + 1]
  <2>0. Len(s) \in Nat /\ k \in 1..Len(s) /\ i \in 1..(Len(front) + Len(back))
    BY <1>1, <1>2
  <2>1. CASE i < k
    BY <1>1, <1>4, <2>0, <2>1
  <2>2. CASE ~ (i < k)
    <3>1. i - (k - 1) \in 1..(Len(s) - k) /\ k + (i - (k - 1)) = i + 1
      BY <2>0, <2>2
    <3>2. (front \o back)[i] = back[i - (k - 1)]
      BY <1>1, <1>4, <2>0, <2>2
    <3> QED BY <1>2, <2>2, <3>1, <3>2
  <2> QED BY <2>1, <2>2
<1> QED BY <1>1, <1>2, <1>3, <1>4, <1>5

(* Without a document the others are still described, once each. *)
LEMMA WithoutIs ==
    ASSUME FilesTypeOK, NEW f \in File
    PROVE  /\ Without(f) \in Seq(File)
           /\ \A i, j \in DOMAIN Without(f) : Without(f)[i] = Without(f)[j] => i = j
           /\ \A g : (\E i \in DOMAIN Without(f) : Without(f)[i] = g) <=> Described(g) /\ g # f
<1> DEFINE k == CHOOSE i \in DOMAIN uploaded : uploaded[i] = f
           left == RemovedAt(uploaded, k)
           old(i) == IF i < k THEN i ELSE i + 1
<1>1. uploaded \in Seq(File) /\ DOMAIN uploaded = 1..Len(uploaded) /\ Len(uploaded) \in Nat
  BY DEF FilesTypeOK
<1>2. CASE ~ Described(f)
  BY <1>2, <1>1 DEF Without, Described, FilesTypeOK
<1>3. CASE Described(f)
  <2>1. k \in 1..Len(uploaded) /\ uploaded[k] = f /\ Without(f) = left
    BY <1>1, <1>3 DEF Described, Without, RemovedAt
  <2> HIDE DEF k
  <2>2. /\ left \in Seq(File) /\ Len(left) = Len(uploaded) - 1
        /\ \A i \in 1..(Len(uploaded) - 1) : left[i] = IF i < k THEN uploaded[i] ELSE uploaded[i + 1]
    BY <1>1, <2>1, RemovedAtIs
  <2> HIDE DEF left
  <2>3. left \in Seq(File) /\ DOMAIN left = 1..(Len(uploaded) - 1)
    BY <2>2
  <2>4. \A i \in 1..(Len(uploaded) - 1) : left[i] = uploaded[old(i)] /\ old(i) \in DOMAIN uploaded \ {k}
    BY <1>1, <2>1, <2>2
  <2>5. \A i, j \in 1..(Len(uploaded) - 1) : i # j => old(i) # old(j)
    BY <1>1, <2>1
  <2>6. \A i \in DOMAIN uploaded \ {k} : \E j \in 1..(Len(uploaded) - 1) : old(j) = i
    <3> SUFFICES ASSUME NEW i \in DOMAIN uploaded \ {k} PROVE \E j \in 1..(Len(uploaded) - 1) : old(j) = i
      OBVIOUS
    <3>1. CASE i < k
      BY <1>1, <2>1, <3>1
    <3>2. CASE ~ (i < k)
      <4>1. i - 1 \in 1..(Len(uploaded) - 1) /\ old(i - 1) = i
        BY <1>1, <2>1, <3>2
      <4> QED BY <4>1
    <3> QED BY <3>1, <3>2
  <2> HIDE DEF old
  <2>7. \A i, j \in DOMAIN uploaded : uploaded[i] = uploaded[j] => i = j
    BY DEF FilesTypeOK
  <2>8. \A i, j \in DOMAIN left : left[i] = left[j] => i = j
    BY <2>3, <2>4, <2>5, <2>7
  <2>9. \A g : (\E i \in DOMAIN left : left[i] = g) <=> Described(g) /\ g # f
    <3>1. ASSUME NEW g, NEW i \in DOMAIN left, left[i] = g PROVE Described(g) /\ g # f
      BY <1>1, <2>1, <2>3, <2>4, <2>7, <3>1 DEF Described
    <3>2. ASSUME NEW g, Described(g), g # f PROVE \E i \in DOMAIN left : left[i] = g
      BY <1>1, <2>1, <2>3, <2>4, <2>6, <3>2 DEF Described
    <3> QED BY <3>1, <3>2
  <2> QED BY <2>1, <2>3, <2>8, <2>9
<1> QED BY <1>2, <1>3

-----------------------------------------------------------------------------
(* Halves of files.  A file that is found once is described, so nobody will *)
(* write it any more.                                                       *)
Stored(f)  == f \in File /\ files[f].store # NoStore
Settled(f) == Stored(f) /\ \A t \in Transfer : Upcoming(t, "record") => transfers[t].file # f

DescribedSettled == \A f \in File : Described(f) => Settled(f)

(* The file a call is about to describe is its own, and whole. *)
Writing(t) ==
    LET f == transfers[t].file
    IN  Upcoming(t, "record") => /\ Stored(f) /\ files[f].bytes /\ ~ Described(f)
                                 /\ \A u \in Transfer \ {t} : Upcoming(u, "record") => transfers[u].file # f

Finds(t) == Busy(t) /\ Behind(t) \cap {"find", "findByName"} # {} /\ "write" \notin Behind(t)

Found(t) ==
    LET call == transfers[t]
    IN  /\ Finds(t) => Settled(call.file)
        /\ Finds(t) /\ "locate" \in Behind(t) =>
              call.store = files[call.file].store \/ (call.store = "gridfs" /\ ~ Described(call.file))
        /\ Upcoming(t, "eraseRest") =>
              IF call.store = "gridfs" THEN ~ Described(call.file) ELSE ~ files[call.file].bytes

CallInv(t) ==
    /\ transfers[t].file # NoFile => Stored(transfers[t].file)
    /\ transfers[t].got # NoFile => Stored(transfers[t].got)
    /\ Writing(t) /\ Found(t)

FilesInv == FilesTypeOK /\ DescribedSettled /\ (\A t \in Transfer : CallInv(t)) /\ BytesBehindInfo

Quiet(t) == ~ Upcoming(t, "record") /\ ~ Upcoming(t, "eraseRest")

LEMMA TypesFrom ==
    ASSUME FilesTypeOK, UNCHANGED <<files, uploaded>>, transfers' \in [Transfer -> TransferType],
           \A u \in Transfer : Busy(u)' => /\ transfers'[u].op # "none"
                                           /\ transfers'[u].next \in 1..Len(Method[transfers'[u].op]),
           torn' \subseteq File, crossed' \subseteq Transfer
    PROVE  FilesTypeOK'
  BY DEF FilesTypeOK

(* A step of a call that only looks, or ends, disturbs no other call. *)
LEMMA QuietStep ==
    ASSUME FilesInv, FilesTypeOK', NEW t \in Transfer, Others(t), UNCHANGED <<files, uploaded>>, torn \subseteq torn',
           ~ Quiet(t) => transfers[t].file \in torn',
           Quiet(t)', CallInv(t)'
    PROVE  FilesInv'
<1>0. files' = files /\ uploaded' = uploaded
  OBVIOUS
<1>1. ASSUME NEW u \in Transfer \ {t}
      PROVE  /\ transfers'[u] = transfers[u]
             /\ Busy(u)' <=> Busy(u)
             /\ Behind(u)' = Behind(u)
             /\ Upcoming(u, "record")' <=> Upcoming(u, "record")
             /\ Upcoming(u, "eraseRest")' <=> Upcoming(u, "eraseRest")
  BY DEF Others, Busy, Behind, Upcoming
<1>2. \A f : (Described(f)' <=> Described(f)) /\ (Stored(f)' <=> Stored(f))
  BY <1>0 DEF Described, Stored
<1>3. ASSUME NEW f, Settled(f) PROVE Settled(f)'
  BY <1>1, <1>2, <1>3 DEF Settled, Quiet
<1>4. DescribedSettled'
  BY <1>2, <1>3 DEF FilesInv, DescribedSettled
<1>5. ASSUME NEW u \in Transfer \ {t} PROVE CallInv(u)'
  <2>1. CallInv(u)
    BY DEF FilesInv
  <2>2. Writing(u)'
    <3> SUFFICES ASSUME Upcoming(u, "record")'
                 PROVE  LET f == transfers[u].file
                        IN  /\ Stored(f) /\ files[f].bytes /\ ~ Described(f)
                            /\ \A v \in Transfer \ {u} : Upcoming(v, "record")' => transfers'[v].file # f
      BY <1>0, <1>1, <1>2 DEF Writing
    <3> QED BY <1>1, <2>1 DEF CallInv, Writing, Quiet
  <2>3. Found(u)'
    BY <1>0, <1>1, <1>2, <1>3, <2>1 DEF CallInv, Found, Finds
  <2> QED BY <1>1, <1>2, <2>1, <2>2, <2>3 DEF CallInv
<1>6. BytesBehindInfo'
  <2> SUFFICES ASSUME NEW f \in File, ~ (files[f].bytes <=> Described(f)), f \notin torn'
               PROVE  \E u \in Transfer : transfers'[u].file = f /\ (Upcoming(u, "record")' \/ Upcoming(u, "eraseRest")')
    BY <1>0, <1>2 DEF BytesBehindInfo
  <2>1. PICK u \in Transfer : transfers[u].file = f /\ (Upcoming(u, "record") \/ Upcoming(u, "eraseRest"))
    BY DEF FilesInv, BytesBehindInfo
  <2>2. u # t
    BY <2>1 DEF Quiet
  <2> QED BY <1>1, <2>1, <2>2
<1> QED BY <1>4, <1>5, <1>6 DEF FilesInv

(* What must hold of what a call has found to go on with *)
FoundSo(steps, f, s) ==
    steps \cap {"find", "findByName"} # {} /\ "write" \notin steps =>
        /\ Settled(f)
        /\ "locate" \in steps => s = files[f].store \/ (s = "gridfs" /\ ~ Described(f))

LEMMA CallParts ==
    ASSUME FilesInv, NEW t \in Transfer, Busy(t)
    PROVE  FoundSo(Behind(t), transfers[t].file, transfers[t].store)
  BY DEF FilesInv, CallInv, Found, Finds, FoundSo

LEMMA NextOrder ==
    ASSUME NEW op \in DOMAIN Method, NEW i \in 1..Len(Method[op]), i + 1 \in 1..Len(Method[op]),
           Method[op][i] \notin {"write", "erase"}
    PROVE  Method[op][i + 1] \notin {"record", "eraseRest"}
<1>1. Ordered(op, i + 1)
  BY MethodOrder
<1>2. \A j : j = i + 1 => Method[op][j - 1] = Method[op][i]
  OBVIOUS
<1>3. PICK j : j = i + 1
  OBVIOUS
<1> QED BY <1>1, <1>2, <1>3 DEF Ordered

LEMMA GoesQuietly ==
    ASSUME FilesTypeOK, NEW t \in Transfer, Busy(t), FilesTypeOK', transfers'[t].op = transfers[t].op,
           Busy(t)' => transfers'[t].next = transfers[t].next + 1, Step(t) \notin {"write", "erase"}
    PROVE  Quiet(t)'
<1> SUFFICES ASSUME Busy(t)' PROVE Method[transfers[t].op][transfers[t].next + 1] \notin {"record", "eraseRest"}
  BY DEF Quiet, Upcoming
<1>1. transfers[t].op \in DOMAIN Method /\ transfers[t].next \in 1..Len(Method[transfers[t].op])
  BY StepOrder
<1>2. transfers[t].next + 1 \in 1..Len(Method[transfers[t].op])
  BY DEF FilesTypeOK
<1> QED BY <1>1, <1>2, NextOrder DEF Step

LEMMA EndQuietly ==
    ASSUME FilesInv, NEW t \in Transfer, NEW how \in {"missing", "failed", "cut"}, Ends(t, how),
           UNCHANGED <<files, uploaded>>, torn \subseteq torn', torn' \subseteq File, crossed' \subseteq Transfer,
           ~ Quiet(t) => transfers[t].file \in torn'
    PROVE  FilesInv'
<1>0. FilesTypeOK /\ CallInv(t)
  BY DEF FilesInv
<1>1. /\ transfers' \in [Transfer -> TransferType] /\ Others(t)
      /\ \A u \in Transfer : Busy(u)' => /\ transfers'[u].op # "none"
                                         /\ transfers'[u].next \in 1..Len(Method[transfers'[u].op])
      /\ ~ Busy(t)' /\ transfers'[t].file = transfers[t].file /\ transfers'[t].got = transfers[t].got
  BY <1>0, EndsIs
<1>2. FilesTypeOK'
  BY <1>0, <1>1, TypesFrom
<1>3. Quiet(t)' /\ ~ Finds(t)'
  BY <1>1 DEF Quiet, Upcoming, Finds
<1>4. CallInv(t)'
  BY <1>0, <1>1, <1>3 DEF CallInv, Writing, Found, Quiet, Stored
<1> QED BY <1>1, <1>2, <1>3, <1>4, QuietStep

LEMMA GoOn ==
    ASSUME FilesInv, NEW t \in Transfer, Busy(t), NEW call \in TransferType, Goes(t, call),
           call.op = transfers[t].op, call.next = transfers[t].next, Step(t) \notin {"write", "erase", "record", "eraseRest"},
           UNCHANGED <<files, uploaded, torn, crossed>>,
           call.file # NoFile => Stored(call.file), call.got # NoFile => Stored(call.got),
           FoundSo(Behind(t) \cup {Step(t)}, call.file, call.store)
    PROVE  FilesInv'
<1>0. FilesTypeOK
  BY DEF FilesInv
<1>1. /\ transfers' \in [Transfer -> TransferType] /\ Others(t)
      /\ \A u \in Transfer : Busy(u)' => /\ transfers'[u].op # "none"
                                         /\ transfers'[u].next \in 1..Len(Method[transfers'[u].op])
      /\ transfers'[t].op = call.op
      /\ transfers'[t].file = call.file /\ transfers'[t].store = call.store /\ transfers'[t].got = call.got
      /\ Busy(t)' => /\ transfers'[t].next = transfers[t].next + 1
                     /\ Behind(t)' = Behind(t) \cup {Step(t)}
  BY <1>0, GoesIs
<1>2. FilesTypeOK'
  BY <1>0, <1>1, TypesFrom DEF FilesTypeOK
<1>3. Quiet(t)'
  BY <1>0, <1>1, <1>2, GoesQuietly
<1>4. Quiet(t)
  BY DEF Quiet, Upcoming, Step
<1>5. \A f : (Described(f)' <=> Described(f)) /\ (Stored(f)' <=> Stored(f))
  BY DEF Described, Stored
<1>6. \A f : Settled(f) => Settled(f)'
  <2> SUFFICES ASSUME NEW f, Settled(f), NEW u \in Transfer, Upcoming(u, "record")' PROVE transfers'[u].file # f
    BY <1>5 DEF Settled
  <2>1. u # t
    BY <1>3 DEF Quiet
  <2> QED BY <1>1, <2>1 DEF Settled, Others, Upcoming, Busy
<1>7. Found(t)'
  BY <1>1, <1>3, <1>5, <1>6 DEF Found, Finds, FoundSo, Quiet
<1>8. CallInv(t)'
  BY <1>1, <1>3, <1>5, <1>7 DEF CallInv, Writing, Quiet
<1> QED BY <1>1, <1>2, <1>3, <1>4, <1>8, QuietStep

LEMMA FilesStart == FilesInit => FilesInv
<1> SUFFICES ASSUME FilesInit PROVE FilesInv
  OBVIOUS
<1>1. PICK s \in [Given -> Storage], p \in [Given -> Person] :
         files = [f \in File |->
                     IF f \in Given THEN [store |-> s[f], key |-> accessMetadata(p[f]), bytes |-> TRUE]
                     ELSE [store |-> NoStore, key |-> NoKey, bytes |-> FALSE]]
  BY DEF FilesInit
<1>2. \A f \in File : files[f] = IF f \in Given THEN [store |-> s[f], key |-> accessMetadata(p[f]), bytes |-> TRUE]
                                 ELSE [store |-> NoStore, key |-> NoKey, bytes |-> FALSE]
  BY <1>1
<1>0. ASSUME NEW f \in File
      PROVE  (files[f].bytes <=> f \in Given) /\ (f \in Given => files[f].store \in Storage)
  <2>1. CASE f \in Given
    <3>1. files[f] = [store |-> s[f], key |-> accessMetadata(p[f]), bytes |-> TRUE] /\ s[f] \in Storage
      BY <1>2, <2>1
    <3>2. files[f].bytes = TRUE /\ files[f].store \in Storage
      BY <3>1
    <3> QED BY <2>1, <3>2
  <2>2. CASE f \notin Given
    <3>1. files[f] = [store |-> NoStore, key |-> NoKey, bytes |-> FALSE]
      BY <1>2, <2>2
    <3>2. files[f].bytes = FALSE
      BY <3>1
    <3> QED BY <2>2, <3>2
  <2> QED BY <2>1, <2>2
<1>3. uploaded = Old /\ Old \in Seq(File) /\ (\A i, j \in DOMAIN Old : Old[i] = Old[j] => i = j)
      /\ torn = {} /\ crossed = {} /\ \A t \in Transfer : transfers[t] = Idle
  BY FileAssumption DEF FilesInit
<1>4. \A f : (Described(f) <=> f \in Given) /\ (f \in Given => f \in File)
  BY <1>3 DEF Described, Given
<1>5. FilesTypeOK
  <2> DEFINE stamp == [store : Storage \cup {NoStore}, bytes : BOOLEAN,
                       key : {NoKey} \cup {accessMetadata(q) : q \in Person}]
             e(f) == IF f \in Given THEN [store |-> s[f], key |-> accessMetadata(p[f]), bytes |-> TRUE]
                     ELSE [store |-> NoStore, key |-> NoKey, bytes |-> FALSE]
  <2>1. ASSUME NEW f \in File PROVE e(f) \in stamp
    <3>1. CASE f \in Given
      <4>1. s[f] \in Storage /\ accessMetadata(p[f]) \in {accessMetadata(q) : q \in Person}
        BY <3>1
      <4> QED BY <3>1, <4>1
    <3>2. CASE f \notin Given
      BY <3>2
    <3> QED BY <3>1, <3>2
  <2>2. files \in [File -> stamp]
    <3>1. files = [f \in File |-> e(f)]
      BY <1>1
    <3> HIDE DEF e, stamp
    <3> QED BY <2>1, <3>1
  <2>3. Idle \in TransferType
    <3>1. "gridfs" \in Storage /\ Anonymous \in Person /\ 0 \in 0..9 /\ 0 \in 0..2
      BY FileAssumption DEF Storage
    <3> QED BY <3>1 DEF Idle, TransferType
  <2>4. transfers \in [Transfer -> TransferType]
    BY <2>3 DEF FilesInit
  <2> QED BY <1>3, <2>2, <2>4 DEF FilesTypeOK, Busy, Idle
<1>6. \A t \in Transfer : ~ Upcoming(t, "record") /\ ~ Upcoming(t, "eraseRest") /\ ~ Busy(t)
  BY <1>3 DEF Upcoming, Busy, Idle
<1>7. \A f \in File : Described(f) => Settled(f)
  BY <1>0, <1>4, <1>6 DEF Settled, Stored, NoStore, Storage
<1>8. \A t \in Transfer : CallInv(t)
  BY <1>3, <1>6 DEF CallInv, Writing, Found, Finds, Idle
<1>9. BytesBehindInfo
  BY <1>0, <1>4 DEF BytesBehindInfo
<1> QED BY <1>5, <1>7, <1>8, <1>9 DEF FilesInv, DescribedSettled

LEMMA DueTyped ==
    ASSUME FilesTypeOK, NEW op, NEW by, NEW f \in File \cup {NoFile}
    PROVE  Due(op, by, f) \in File \cup {NoFile}
  BY FirstIs DEF Due

LEMMA StartIs ==
    ASSUME FilesTypeOK, NEW t \in Transfer, NEW op \in DOMAIN Method, NEW by \in Person, NEW f \in Known \cup {NoFile},
           StartTransfer(t, op, by, f)
    PROVE  /\ FilesTypeOK' /\ Others(t) /\ Quiet(t) /\ Quiet(t)' /\ ~ Finds(t)'
           /\ transfers'[t].op = op /\ transfers'[t].by = by /\ transfers'[t].file = f
           /\ transfers'[t].due = Due(op, by, f) /\ transfers'[t].got = NoFile /\ transfers'[t].probed = 0
           /\ Behind(t)' = {} /\ Busy(t)'
<1> DEFINE call == [Idle EXCEPT !.op = op, !.by = by, !.next = 1, !.file = f, !.due = Due(op, by, f), !.end = "busy"]
<1>1. call \in TransferType
  <2>1. f \in File \cup {NoFile}
    BY DEF Known
  <2>2. Due(op, by, f) \in File \cup {NoFile}
    BY <2>1, DueTyped
  <2>3. "gridfs" \in Storage /\ 1 \in 0..9 /\ 0 \in 0..2 /\ "busy" \in {"idle", "busy", "done", "missing", "failed", "cut"}
    BY DEF Storage
  <2> QED BY <2>1, <2>2, <2>3 DEF Idle, TransferType
<1>2. transfers' = [transfers EXCEPT ![t] = call] /\ transfers \in [Transfer -> TransferType]
  BY DEF StartTransfer, FilesTypeOK
<1>3. transfers' \in [Transfer -> TransferType] /\ Others(t) /\ transfers'[t] = call
  BY <1>1, <1>2 DEF Others
<1>4. call.end = "busy" /\ call.op = op /\ call.next = 1 /\ call.by = by /\ call.file = f
      /\ call.due = Due(op, by, f) /\ call.got = NoFile /\ call.probed = 0
  BY DEF Idle
<1>5. 1 \in 1..Len(Method[op]) /\ op # "none"
  <2>1. Method[op] \in {Download, DownloadByName, StreamByName, Deleting, DeletingByName, Uploading, DuplicateByName}
        /\ op # "none"
    BY DEF Method
  <2>2. /\ 1 \in 1..Len(Download) /\ 1 \in 1..Len(DownloadByName) /\ 1 \in 1..Len(StreamByName)
        /\ 1 \in 1..Len(Deleting) /\ 1 \in 1..Len(DeletingByName) /\ 1 \in 1..Len(Uploading)
        /\ 1 \in 1..Len(DuplicateByName)
    BY DEF Download, DownloadByName, StreamByName, Deleting, DeletingByName, Uploading, DuplicateByName
  <2> QED BY <2>1, <2>2
<1> HIDE DEF call
<1>6. \A u \in Transfer : Busy(u)' => transfers'[u].op # "none" /\ transfers'[u].next \in 1..Len(Method[transfers'[u].op])
  BY <1>3, <1>4, <1>5 DEF Others, Busy, FilesTypeOK
<1>7. FilesTypeOK'
  BY <1>3, <1>6, TypesFrom DEF StartTransfer, FilesTypeOK
<1>8. Method[op][1] \notin {"record", "eraseRest"}
  BY <1>5, MethodOrder DEF Ordered
<1>9. Quiet(t)' /\ Behind(t)' = {} /\ Busy(t)'
  BY <1>3, <1>4, <1>8 DEF Quiet, Upcoming, Behind, Busy
<1>10. Quiet(t)
  BY DEF Quiet, Upcoming, Busy, StartTransfer, Idle
<1> QED BY <1>3, <1>4, <1>7, <1>9, <1>10 DEF Finds

LEMMA StartKeeps ==
    ASSUME FilesInv, NEW t \in Transfer, NEW op \in DOMAIN Method, NEW by \in Person, NEW f \in Known \cup {NoFile},
           StartTransfer(t, op, by, f)
    PROVE  FilesInv'
<1>1. /\ FilesTypeOK' /\ Others(t) /\ Quiet(t) /\ Quiet(t)' /\ ~ Finds(t)'
      /\ transfers'[t].file = f /\ transfers'[t].got = NoFile
  BY StartIs DEF FilesInv
<1>2. UNCHANGED <<files, uploaded, torn>>
  BY DEF StartTransfer
<1>3. f # NoFile => Stored(f)'
  BY <1>2 DEF Known, Stored
<1>4. CallInv(t)'
  BY <1>1, <1>3 DEF CallInv, Writing, Found, Quiet
<1> QED BY <1>1, <1>2, <1>4, QuietStep

(* A store is asked in vain, and the next one is its turn. *)
ProbesOn(t, step) ==
    /\ Upcoming(t, step) /\ transfers[t].probed # 2
    /\ transfers' = [transfers EXCEPT ![t].probed = @ + 1]
    /\ OnlyLooks

LEMMA ProbesOnIs ==
    ASSUME FilesTypeOK, NEW t \in Transfer, NEW step \in {"rightsByName", "findByName"}, ProbesOn(t, step)
    PROVE  /\ FilesTypeOK' /\ Others(t) /\ Quiet(t) /\ Quiet(t)' /\ Busy(t)' /\ Behind(t)' = Behind(t)
           /\ transfers'[t].op = transfers[t].op /\ transfers'[t].by = transfers[t].by
           /\ transfers'[t].file = transfers[t].file /\ transfers'[t].store = transfers[t].store
           /\ transfers'[t].due = transfers[t].due /\ transfers'[t].got = transfers[t].got
           /\ transfers[t].probed \in 0..1 /\ transfers'[t].probed = transfers[t].probed + 1
<1> DEFINE call == [transfers[t] EXCEPT !.probed = @ + 1]
<1>1. transfers \in [Transfer -> TransferType] /\ transfers[t] \in TransferType /\ Busy(t) /\ Upcoming(t, step)
  BY DEF FilesTypeOK, ProbesOn, Upcoming
<1>2. transfers[t].probed \in 0..1
  <2>1. transfers[t].probed \in 0..2 /\ transfers[t].probed # 2
    BY <1>1 DEF TransferType, ProbesOn
  <2> QED BY <2>1
<1>3. call \in TransferType
  <2>1. transfers[t].probed + 1 \in 0..2
    BY <1>2
  <2> QED BY <1>1, <2>1 DEF TransferType
<1>4. transfers' = [transfers EXCEPT ![t] = call]
  BY <1>1 DEF ProbesOn
<1>5. /\ call.op = transfers[t].op /\ call.by = transfers[t].by /\ call.file = transfers[t].file
      /\ call.store = transfers[t].store /\ call.due = transfers[t].due /\ call.got = transfers[t].got
      /\ call.end = transfers[t].end /\ call.next = transfers[t].next /\ call.probed = transfers[t].probed + 1
  BY <1>1 DEF TransferType
<1> HIDE DEF call
<1>6. transfers' \in [Transfer -> TransferType] /\ Others(t) /\ transfers'[t] = call
  BY <1>1, <1>3, <1>4 DEF Others
<1>7. Busy(t)' /\ Behind(t)' = Behind(t) /\ \A s : Upcoming(t, s)' <=> Upcoming(t, s)
  BY <1>1, <1>5, <1>6 DEF Busy, Behind, Upcoming
<1>8. Quiet(t) /\ Quiet(t)'
  BY <1>1, <1>7 DEF Quiet, Upcoming
<1>9. \A u \in Transfer : Busy(u)' => transfers'[u].op # "none" /\ transfers'[u].next \in 1..Len(Method[transfers'[u].op])
  BY <1>1, <1>5, <1>6 DEF Others, Busy, FilesTypeOK
<1>10. FilesTypeOK'
  BY <1>6, <1>9, TypesFrom DEF ProbesOn, OnlyLooks, FilesTypeOK
<1> QED BY <1>2, <1>5, <1>6, <1>7, <1>8, <1>10

(* What a call does with what it has looked up *)
Hit(t) == Newest(Probes[transfers[t].probed + 1])
Over(t) == Hit(t) # NoFile \/ transfers[t].probed = 2

Looked(t, call) ==
    LET old == transfers[t]
        f   == old.file
        as(field) == call[field] = old[field]
    IN  /\ as("op") /\ as("by") /\ as("next") /\ as("due")
        /\ Step(t) # "findByName" => as("file")
        /\ Step(t) # "open" => as("got")
        /\ Step(t) \in {"rights", "rightsByName", "open"} => as("store")
        /\ \/ Step(t) = "rights" /\ decideFileAccess(old.by, IF Described(f) THEN f ELSE NoFile)
           \/ Step(t) = "find" /\ Described(f) /\ call.store = files[f].store
           \/ Step(t) = "locate" /\ call.store = IF Described(f) THEN files[f].store ELSE "gridfs"
           \/ Step(t) = "rightsByName" /\ Over(t) /\ decideFileAccess(old.by, Hit(t))
           \/ Step(t) = "findByName" /\ Hit(t) # NoFile /\ call.file = Hit(t) /\ call.store = files[Hit(t)].store
           \/ Step(t) = "open" /\ call.got = f

Missed(t) ==
    LET old == transfers[t]
        f   == old.file
    IN  \/ Step(t) = "rights" /\ ~ decideFileAccess(old.by, IF Described(f) THEN f ELSE NoFile)
        \/ Step(t) = "find" /\ ~ Described(f)
        \/ Step(t) = "rightsByName" /\ Over(t) /\ ~ decideFileAccess(old.by, Hit(t))
        \/ Step(t) = "findByName" /\ Over(t) /\ Hit(t) = NoFile
        \/ Step(t) = "open" /\ ~ /\ files[f].store = old.store /\ files[f].bytes
                                 /\ files[f].store = "gridfs" => Described(f)

Looks(t) ==
    \/ checkRights(t) \/ findFileById(t) \/ locateFile(t) \/ getStream(t)
    \/ \E step \in {"rightsByName", "findByName"} : findFileByName(t, step)

LEMMA LookIs ==
    ASSUME FilesInv, NEW t \in Transfer, Looks(t)
    PROVE  /\ Busy(t) /\ OnlyLooks
           /\ Step(t) \in {"rights", "find", "locate", "rightsByName", "findByName", "open"}
           /\ \/ \E step \in {"rightsByName", "findByName"} : ProbesOn(t, step) /\ Hit(t) = NoFile
              \/ Ends(t, "missing") /\ Missed(t)
              \/ \E call \in TransferType : Goes(t, call) /\ Looked(t, call)
<1> DEFINE old == transfers[t]
           f   == transfers[t].file
           Answer == \/ \E step \in {"rightsByName", "findByName"} : ProbesOn(t, step) /\ Hit(t) = NoFile
                     \/ Ends(t, "missing") /\ Missed(t)
                     \/ \E call \in TransferType : Goes(t, call) /\ Looked(t, call)
<1>0. FilesTypeOK /\ old \in TransferType /\ Busy(t) /\ OnlyLooks
      /\ \A g : Described(g) => g \in File /\ files[g].store \in Storage
  <2>1. FilesTypeOK /\ old \in TransferType /\ Busy(t) /\ OnlyLooks
    BY DEF FilesInv, FilesTypeOK, Looks, checkRights, findFileById, locateFile, getStream, findFileByName, Upcoming
  <2>2. ASSUME NEW g, Described(g) PROVE g \in File /\ files[g].store \in Storage
    <3>1. g \in File /\ Settled(g)
      BY <2>1, <2>2 DEF FilesInv, FilesTypeOK, Described, DescribedSettled
    <3> QED BY <2>1, <3>1 DEF Settled, Stored, FilesTypeOK
  <2> QED BY <2>1, <2>2
<1>1. ASSUME NEW g \in File \cup {NoFile}, NEW s \in Storage, NEW got \in File \cup {NoFile}, NEW call,
             call = [old EXCEPT !.file = g, !.store = s, !.got = got]
      PROVE  /\ call \in TransferType /\ call.file = g /\ call.store = s /\ call.got = got
             /\ call.op = old.op /\ call.by = old.by /\ call.next = old.next /\ call.due = old.due
  BY <1>0, <1>1 DEF TransferType
<1>2. f \in File \cup {NoFile} /\ old.got \in File \cup {NoFile} /\ old.store \in Storage
  BY <1>0 DEF TransferType
<1>3. ASSUME checkRights(t) PROVE Step(t) = "rights" /\ Answer
  <2>1. Step(t) = "rights"
    BY <1>3 DEF checkRights, Upcoming, Step
  <2>2. decideFileAccess(old.by, IF Described(f) THEN f ELSE NoFile) => Goes(t, old) /\ Looked(t, old)
    BY <1>3, <2>1 DEF checkRights, Looked
  <2>3. ~ decideFileAccess(old.by, IF Described(f) THEN f ELSE NoFile) => Ends(t, "missing") /\ Missed(t)
    BY <1>3, <2>1 DEF checkRights, Missed
  <2> QED BY <1>0, <2>1, <2>2, <2>3
<1>4. ASSUME findFileById(t) PROVE Step(t) = "find" /\ Answer
  <2>1. Step(t) = "find"
    BY <1>4 DEF findFileById, Upcoming, Step
  <2>2. ASSUME Described(f) PROVE \E call \in TransferType : Goes(t, call) /\ Looked(t, call)
    <3>1. PICK call : call = [old EXCEPT !.store = files[f].store]
      OBVIOUS
    <3>2. call \in TransferType /\ Looked(t, call)
      BY <1>0, <2>1, <2>2, <3>1 DEF TransferType, Looked
    <3> QED BY <1>4, <2>2, <3>1, <3>2 DEF findFileById
  <2>3. ~ Described(f) => Ends(t, "missing") /\ Missed(t)
    BY <1>4, <2>1 DEF findFileById, Missed
  <2> QED BY <2>1, <2>2, <2>3
<1>5. ASSUME locateFile(t) PROVE Step(t) = "locate" /\ Answer
  <2>1. Step(t) = "locate"
    BY <1>5 DEF locateFile, Upcoming, Step
  <2>2. PICK s : s = IF Described(f) THEN files[f].store ELSE "gridfs"
    OBVIOUS
  <2>3. s \in Storage
    BY <1>0, <2>2 DEF Storage
  <2>4. PICK call : call = [old EXCEPT !.store = s]
    OBVIOUS
  <2>5. call \in TransferType /\ Looked(t, call)
    BY <1>0, <2>1, <2>2, <2>3, <2>4 DEF TransferType, Looked
  <2> QED BY <1>5, <2>1, <2>2, <2>4, <2>5 DEF locateFile
<1>6. ASSUME getStream(t) PROVE Step(t) = "open" /\ Answer
  <2>1. Step(t) = "open"
    BY <1>6 DEF getStream, Upcoming, Step
  <2>2. PICK call : call = [old EXCEPT !.got = f]
    OBVIOUS
  <2>3. call \in TransferType /\ Looked(t, call)
    BY <1>0, <1>2, <2>1, <2>2 DEF TransferType, Looked
  <2>4. Goes(t, call) \/ (Ends(t, "missing") /\ Missed(t))
    BY <1>6, <2>1, <2>2 DEF getStream, Missed
  <2> QED BY <2>1, <2>3, <2>4
<1>7. ASSUME findFileByName(t, "rightsByName") PROVE Step(t) = "rightsByName" /\ Answer
  <2>1. Step(t) = "rightsByName" /\ Upcoming(t, "rightsByName")
    BY <1>7 DEF findFileByName, Upcoming, Step
  <2>2. ~ Over(t) => ProbesOn(t, "rightsByName") /\ Hit(t) = NoFile
    BY <1>7, <2>1 DEF findFileByName, Over, Hit, Probed, ProbesOn
  <2>3. Over(t) => IF decideFileAccess(old.by, Hit(t)) THEN Goes(t, old) ELSE Ends(t, "missing")
    BY <1>7 DEF findFileByName, Over, Hit, Probed
  <2>4. Over(t) /\ decideFileAccess(old.by, Hit(t)) => Looked(t, old)
    BY <2>1 DEF Looked
  <2>5. Over(t) /\ ~ decideFileAccess(old.by, Hit(t)) => Missed(t)
    BY <2>1 DEF Missed
  <2> QED BY <1>0, <2>1, <2>2, <2>3, <2>4, <2>5
<1>8. ASSUME findFileByName(t, "findByName") PROVE Step(t) = "findByName" /\ Answer
  <2>1. Step(t) = "findByName" /\ Upcoming(t, "findByName")
    BY <1>8 DEF findFileByName, Upcoming, Step
  <2>2. ~ Over(t) => ProbesOn(t, "findByName") /\ Hit(t) = NoFile
    BY <1>8, <2>1 DEF findFileByName, Over, Hit, Probed, ProbesOn
  <2>3. PICK call : call = [old EXCEPT !.file = Hit(t), !.store = files[Hit(t)].store]
    OBVIOUS
  <2>4. Over(t) => IF Hit(t) # NoFile THEN Goes(t, call) ELSE Ends(t, "missing")
    BY <1>8, <2>3 DEF findFileByName, Over, Hit, Probed
  <2>5. ASSUME Hit(t) # NoFile PROVE call \in TransferType /\ Looked(t, call)
    <3>1. Hit(t) \in File /\ files[Hit(t)].store \in Storage
      BY <1>0, <2>5, NewestIs DEF Hit
    <3> QED BY <1>0, <2>1, <2>3, <2>5, <3>1 DEF TransferType, Looked
  <2>6. Over(t) /\ Hit(t) = NoFile => Missed(t)
    BY <2>1 DEF Missed
  <2> QED BY <2>1, <2>2, <2>4, <2>5, <2>6
<1> QED BY <1>0, <1>3, <1>4, <1>5, <1>6, <1>7, <1>8 DEF Looks

LEMMA LooksKeep == ASSUME FilesInv, NEW t \in Transfer, Looks(t) PROVE FilesInv'
<1> DEFINE old == transfers[t]
<1>0. FilesTypeOK /\ CallInv(t) /\ old \in TransferType /\ crossed \subseteq Transfer /\ torn \subseteq File
  BY DEF FilesInv, FilesTypeOK
<1>1. /\ Busy(t) /\ UNCHANGED <<files, uploaded, torn, crossed>>
      /\ Step(t) \in {"rights", "find", "locate", "rightsByName", "findByName", "open"}
      /\ \/ \E step \in {"rightsByName", "findByName"} : ProbesOn(t, step) /\ Hit(t) = NoFile
         \/ Ends(t, "missing") /\ Missed(t)
         \/ \E call \in TransferType : Goes(t, call) /\ Looked(t, call)
  BY LookIs DEF OnlyLooks
<1>2. FoundSo(Behind(t), old.file, old.store) /\ Quiet(t)
  BY <1>1, CallParts DEF Quiet, Upcoming, Step
<1>3. (old.file # NoFile => Stored(old.file)) /\ (old.got # NoFile => Stored(old.got))
  BY <1>0 DEF CallInv
<1>4. \A f : Described(f) => Settled(f)
  BY <1>0 DEF FilesInv, DescribedSettled, Described, FilesTypeOK
<1>5. ASSUME NEW step \in {"rightsByName", "findByName"}, ProbesOn(t, step) PROVE FilesInv'
  <2>1. /\ FilesTypeOK' /\ Others(t) /\ Quiet(t)' /\ Busy(t)' /\ Behind(t)' = Behind(t)
        /\ transfers'[t].file = old.file /\ transfers'[t].store = old.store /\ transfers'[t].got = old.got
    BY <1>0, <1>5, ProbesOnIs
  <2>2. \A f : (Described(f)' <=> Described(f)) /\ (Stored(f)' <=> Stored(f))
    BY <1>1 DEF Described, Stored
  <2>3. \A f : Settled(f) => Settled(f)'
    <3> SUFFICES ASSUME NEW f, Settled(f), NEW u \in Transfer, Upcoming(u, "record")' PROVE transfers'[u].file # f
      BY <2>2 DEF Settled
    <3>1. u # t
      BY <2>1 DEF Quiet
    <3> QED BY <2>1, <3>1 DEF Settled, Others, Upcoming, Busy
  <2>4. Found(t)'
    BY <1>1, <1>2, <2>1, <2>2, <2>3 DEF Found, Finds, FoundSo, Quiet
  <2>5. CallInv(t)'
    BY <1>3, <2>1, <2>2, <2>4 DEF CallInv, Writing, Quiet
  <2> QED BY <1>1, <1>2, <2>1, <2>5, QuietStep
<1>6. ASSUME NEW call \in TransferType, Goes(t, call), Looked(t, call) PROVE FilesInv'
  <2>1. call.op = old.op /\ call.next = old.next
    BY <1>6 DEF Looked
  <2>2. Step(t) \in {"locate", "open"} => Settled(old.file)
    <3>1. Step(t) \in {"locate", "open"} => Behind(t) \cap {"find", "findByName"} # {} /\ "write" \notin Behind(t)
      BY <1>0, <1>1, StepOrder DEF Ordered, Step
    <3> QED BY <1>2, <3>1 DEF FoundSo
  <2>3. Step(t) = "findByName" => Described(call.file)
    BY <1>0, <1>6, NewestIs DEF Looked, Hit
  <2>4. call.file # NoFile => Stored(call.file)
    BY <1>3, <1>4, <1>6, <2>3 DEF Looked, Settled
  <2>5. call.got # NoFile => Stored(call.got)
    BY <1>1, <1>3, <1>6, <2>2 DEF Looked, Settled
  <2>6. FoundSo(Behind(t) \cup {Step(t)}, call.file, call.store)
    <3>1. CASE Step(t) \in {"rights", "rightsByName"}
      BY <1>2, <1>6, <3>1 DEF Looked, FoundSo
    <3>2. CASE Step(t) = "find"
      BY <1>4, <1>6, <3>2 DEF Looked, FoundSo
    <3>3. CASE Step(t) = "locate"
      BY <1>6, <2>2, <3>3 DEF Looked, FoundSo
    <3>4. CASE Step(t) = "findByName"
      BY <1>4, <1>6, <2>3, <3>4 DEF Looked, FoundSo
    <3>5. CASE Step(t) = "open"
      BY <1>2, <1>6, <2>2, <3>5 DEF Looked, FoundSo
    <3> QED BY <1>1, <3>1, <3>2, <3>3, <3>4, <3>5
  <2> QED BY <1>1, <1>6, <2>1, <2>4, <2>5, <2>6, GoOn
<1>7. ASSUME Ends(t, "missing") PROVE FilesInv'
  BY <1>0, <1>1, <1>2, <1>7, EndQuietly
<1> QED BY <1>1, <1>5, <1>6, <1>7


(* A step of a call that changes one file disturbs no other file, and no    *)
(* call that is not about this one.                                         *)
LEMMA WriteStep ==
    ASSUME FilesInv, FilesTypeOK', NEW t \in Transfer, Others(t), torn \subseteq torn', NEW f \in File,
           \A g \in File \ {f} : files'[g] = files[g] /\ (Described(g)' <=> Described(g)),
           Stored(f) => files'[f].store = files[f].store,
           Described(f)' => Stored(f)',
           ~ Quiet(t) => transfers[t].file = f,
           \A u \in Transfer \ {t} : Upcoming(u, "record") => transfers[u].file # f,
           \A u \in Transfer \ {t} : Finds(u) /\ transfers[u].file = f =>
              /\ ~ Upcoming(t, "record")'
              /\ Described(f)' => Described(f)
              /\ files'[f].bytes => files[f].bytes,
           Upcoming(t, "record")' => transfers'[t].file = f /\ ~ Described(f)',
           CallInv(t)',
           \/ files'[f].bytes <=> Described(f)'
           \/ f \in torn'
           \/ ~ Quiet(t)' /\ transfers'[t].file = f
    PROVE  FilesInv'
<1>0. FilesTypeOK /\ \A g : Described(g) \/ Described(g)' => g \in File
  BY DEF FilesInv, FilesTypeOK, Described
<1>1. ASSUME NEW u \in Transfer \ {t}
      PROVE  /\ transfers'[u] = transfers[u]
             /\ Busy(u)' <=> Busy(u)
             /\ Behind(u)' = Behind(u)
             /\ Upcoming(u, "record")' <=> Upcoming(u, "record")
             /\ Upcoming(u, "eraseRest")' <=> Upcoming(u, "eraseRest")
  BY DEF Others, Busy, Behind, Upcoming
<1>2. \A g : Stored(g) => Stored(g)' /\ files'[g].store = files[g].store
  BY DEF Stored
<1>3. ASSUME NEW g, Settled(g), Upcoming(t, "record")' => g # f PROVE Settled(g)'
  <2> SUFFICES ASSUME NEW u \in Transfer, Upcoming(u, "record")' PROVE transfers'[u].file # g
    BY <1>2, <1>3 DEF Settled
  <2>1. CASE u = t
    BY <1>3, <2>1
  <2>2. CASE u # t
    BY <1>1, <1>3, <2>2 DEF Settled
  <2> QED BY <2>1, <2>2
<1>4. DescribedSettled'
  <2> SUFFICES ASSUME NEW g \in File, Described(g)' PROVE Settled(g)'
    BY DEF DescribedSettled
  <2>1. CASE g # f
    <3>1. Settled(g)
      BY <2>1 DEF FilesInv, DescribedSettled
    <3> QED BY <1>3, <2>1, <3>1
  <2>2. CASE g = f
    BY <1>1, <2>2 DEF Settled
  <2> QED BY <2>1, <2>2
<1>5. ASSUME NEW u \in Transfer \ {t} PROVE CallInv(u)'
  <2>0. PICK g : g = transfers[u].file /\ g = transfers'[u].file
    BY <1>1
  <2>1. CallInv(u)
    BY DEF FilesInv
  <2>2. Writing(u)'
    <3> SUFFICES ASSUME Upcoming(u, "record")'
                 PROVE  /\ Stored(g)' /\ files'[g].bytes /\ ~ Described(g)'
                        /\ \A v \in Transfer \ {u} : Upcoming(v, "record")' => transfers'[v].file # g
      BY <1>1, <2>0 DEF Writing
    <3>1. /\ Stored(g) /\ files[g].bytes /\ ~ Described(g) /\ g # f
          /\ \A v \in Transfer \ {u} : Upcoming(v, "record") => transfers[v].file # g
      BY <1>1, <2>0, <2>1 DEF CallInv, Writing
    <3>2. Stored(g)' /\ files'[g].bytes /\ ~ Described(g)'
      BY <1>2, <3>1 DEF Stored
    <3>3. ASSUME NEW v \in Transfer \ {u}, Upcoming(v, "record")' PROVE transfers'[v].file # g
      <4>1. CASE v = t
        BY <3>1, <3>3, <4>1
      <4>2. CASE v # t
        BY <1>1, <3>1, <3>3, <4>2
      <4> QED BY <4>1, <4>2
    <3> QED BY <3>2, <3>3
  <2>3. Finds(u)' <=> Finds(u)
    BY <1>1 DEF Finds
  <2>4. Upcoming(u, "eraseRest") => Finds(u)
    BY <1>0, StepOrder DEF Ordered, Finds, Upcoming, Step
  <2>5. ASSUME Finds(u)
        PROVE  /\ Settled(g) /\ Settled(g)' /\ files'[g].store = files[g].store
               /\ Described(g)' => Described(g)
               /\ files'[g].bytes => files[g].bytes
    <3>1. Settled(g) /\ Stored(g) /\ g \in File
      BY <2>0, <2>1, <2>5 DEF CallInv, Found, Settled, Stored
    <3>2. Settled(g)'
      BY <1>3, <2>0, <2>5, <3>1
    <3>3. CASE g = f
      BY <1>2, <2>0, <2>5, <3>1, <3>2, <3>3
    <3>4. CASE g # f
      BY <1>2, <3>1, <3>2, <3>4
    <3> QED BY <3>3, <3>4
  <2>6. Found(u)'
    BY <1>1, <2>0, <2>1, <2>3, <2>4, <2>5 DEF CallInv, Found
  <2> QED BY <1>1, <1>2, <2>1, <2>2, <2>6 DEF CallInv
<1>6. BytesBehindInfo'
  <2> SUFFICES ASSUME NEW g \in File, ~ (files'[g].bytes <=> Described(g)'), g \notin torn'
               PROVE  \E u \in Transfer : transfers'[u].file = g /\ (Upcoming(u, "record")' \/ Upcoming(u, "eraseRest")')
    BY DEF BytesBehindInfo
  <2>1. CASE g = f
    BY <2>1 DEF Quiet
  <2>2. CASE g # f
    <3>1. ~ (files[g].bytes <=> Described(g)) /\ g \notin torn
      BY <2>2
    <3>2. PICK u \in Transfer : transfers[u].file = g /\ (Upcoming(u, "record") \/ Upcoming(u, "eraseRest"))
      BY <3>1 DEF FilesInv, BytesBehindInfo
    <3>3. u # t
      BY <2>2, <3>2 DEF Quiet
    <3> QED BY <1>1, <3>2, <3>3
  <2> QED BY <2>1, <2>2
<1> QED BY <1>4, <1>5, <1>6 DEF FilesInv

(* The file a call leaves one half of is there. *)
LEMMA HalfFile ==
    ASSUME FilesInv, NEW t \in Transfer, ~ Quiet(t)
    PROVE  Stored(transfers[t].file)
<1>1. FilesTypeOK /\ CallInv(t) /\ Busy(t)
  BY DEF FilesInv, Quiet, Upcoming
<1>2. Upcoming(t, "eraseRest") => Finds(t)
  BY <1>1, StepOrder DEF Ordered, Finds, Upcoming, Step
<1> QED BY <1>1, <1>2 DEF CallInv, Writing, Found, Settled, Quiet

LEMMA CutKeeps == ASSUME FilesInv, NEW t \in Transfer, CutOff(t) PROVE FilesInv'
<1>1. UNCHANGED <<files, uploaded, crossed>> /\ crossed \subseteq Transfer /\ torn \subseteq File /\ Ends(t, "cut")
  BY DEF CutOff, FilesInv, FilesTypeOK
<1>2. torn' = IF ~ Quiet(t) THEN torn \cup {transfers[t].file} ELSE torn
  BY DEF CutOff, Tears, Quiet
<1>3. ~ Quiet(t) => transfers[t].file \in File
  BY HalfFile DEF Stored
<1> QED BY <1>1, <1>2, <1>3, EndQuietly

(* After the bytes the document, after one half the other *)
LEMMA ThenTheRest ==
    ASSUME FilesTypeOK, NEW t \in Transfer, Busy(t), NEW call \in TransferType, Goes(t, call),
           call.op = transfers[t].op, call.next = transfers[t].next
    PROVE  /\ Step(t) = "write" => Upcoming(t, "record")' /\ ~ Upcoming(t, "eraseRest")' /\ "write" \in Behind(t)'
           /\ Step(t) = "erase" => Upcoming(t, "eraseRest")' /\ ~ Upcoming(t, "record")'
           /\ Step(t) \in {"record", "eraseRest"} => ~ Busy(t)'
<1>1. /\ transfers'[t].op = transfers[t].op
      /\ Busy(t)' <=> transfers[t].next # Len(Method[transfers[t].op])
      /\ Busy(t)' => /\ transfers'[t].next = transfers[t].next + 1
                     /\ Behind(t)' = Behind(t) \cup {Step(t)}
  BY GoesIs
<1>2. /\ Ordered(transfers[t].op, transfers[t].next)
      /\ transfers[t].next \in 1..Len(Method[transfers[t].op])
  BY StepOrder
<1>3. ASSUME Step(t) = "write" PROVE Upcoming(t, "record")' /\ ~ Upcoming(t, "eraseRest")' /\ "write" \in Behind(t)'
  <2>1. transfers[t].next < Len(Method[transfers[t].op]) /\ Method[transfers[t].op][transfers[t].next + 1] = "record"
    BY <1>2, <1>3 DEF Ordered, Step
  <2>2. Busy(t)'
    BY <1>1, <1>2, <2>1
  <2> QED BY <1>1, <1>3, <2>1, <2>2 DEF Upcoming
<1>4. ASSUME Step(t) = "erase" PROVE Upcoming(t, "eraseRest")' /\ ~ Upcoming(t, "record")'
  <2>1. transfers[t].next < Len(Method[transfers[t].op]) /\ Method[transfers[t].op][transfers[t].next + 1] = "eraseRest"
    BY <1>2, <1>4 DEF Ordered, Step
  <2>2. Busy(t)'
    BY <1>1, <1>2, <2>1
  <2> QED BY <1>1, <2>1, <2>2 DEF Upcoming
<1>5. Step(t) \in {"record", "eraseRest"} => ~ Busy(t)'
  BY <1>1, <1>2 DEF Ordered, Step
<1> QED BY <1>3, <1>4, <1>5

LEMMA WriteKeeps ==
    ASSUME FilesInv, NEW t \in Transfer, NEW f \in File, NEW s \in Storage, WriteBytes(t, f, s)
    PROVE  FilesInv'
<1> DEFINE written(half) == [store |-> s, key |-> accessMetadata(transfers[t].by), bytes |-> half]
<1>0. /\ FilesTypeOK /\ CallInv(t) /\ Upcoming(t, "write") /\ Busy(t) /\ Step(t) = "write"
      /\ transfers[t] \in TransferType /\ files[f].store = NoStore
      /\ crossed' \subseteq Transfer /\ uploaded' = uploaded
  BY DEF FilesInv, FilesTypeOK, WriteBytes, Upcoming, Step, Crosses
<1>1. ~ Stored(f) /\ ~ Described(f) /\ Quiet(t)
  BY <1>0 DEF Stored, FilesInv, DescribedSettled, Settled, Quiet, Upcoming
<1>2. \A u \in Transfer : (Upcoming(u, "record") => transfers[u].file # f) /\ (Finds(u) => transfers[u].file # f)
  BY <1>1 DEF FilesInv, CallInv, Writing, Found, Settled
<1>3. (\A g : Described(g)' <=> Described(g)) /\ ~ Described(f)'
  BY <1>0, <1>1 DEF Described
<1>4. ASSUME NEW half \in BOOLEAN, files' = [files EXCEPT ![f] = written(half)]
      PROVE  /\ files' \in [File -> [store : Storage \cup {NoStore}, bytes : BOOLEAN,
                                     key : {NoKey} \cup {accessMetadata(p) : p \in Person}]]
             /\ \A g \in File \ {f} : files'[g] = files[g]
             /\ files'[f].bytes = half /\ Stored(f)'
  <2> DEFINE after == written(half)
  <2>1. transfers[t].by \in Person
    BY <1>0 DEF TransferType
  <2>3. accessMetadata(transfers[t].by) \in {NoKey} \cup {accessMetadata(p) : p \in Person}
    BY <2>1
  <2>4. after \in [store : Storage \cup {NoStore}, bytes : BOOLEAN,
                   key : {NoKey} \cup {accessMetadata(p) : p \in Person}]
    BY <2>3
  <2>5. after.bytes = half /\ after.store = s /\ s # NoStore
    BY DEF Storage, NoStore
  <2> HIDE DEF after
  <2>6. files' = [files EXCEPT ![f] = after]
    BY <1>4 DEF after
  <2> QED BY <1>0, <2>4, <2>5, <2>6 DEF FilesTypeOK, Stored
<1>5. ASSUME files' = [files EXCEPT ![f] = written(TRUE)], Goes(t, [transfers[t] EXCEPT !.file = f]), torn' = torn
      PROVE  FilesInv'
  <2>2. /\ files' \in [File -> [store : Storage \cup {NoStore}, bytes : BOOLEAN,
                                key : {NoKey} \cup {accessMetadata(p) : p \in Person}]]
        /\ \A g \in File \ {f} : files'[g] = files[g]
        /\ files'[f].bytes = TRUE /\ Stored(f)'
    BY <1>4, <1>5
  <2>3. PICK to : to = [transfers[t] EXCEPT !.file = f]
    OBVIOUS
  <2>4. to \in TransferType /\ to.op = transfers[t].op /\ to.next = transfers[t].next
        /\ to.file = f /\ to.got = transfers[t].got
    BY <1>0, <2>3 DEF TransferType
  <2>5. Goes(t, to)
    BY <1>5, <2>3
  <2>6. /\ transfers' \in [Transfer -> TransferType] /\ Others(t)
        /\ \A u \in Transfer : Busy(u)' => /\ transfers'[u].op # "none"
                                           /\ transfers'[u].next \in 1..Len(Method[transfers'[u].op])
        /\ transfers'[t].file = f /\ transfers'[t].got = transfers[t].got
    BY <1>0, <2>4, <2>5, GoesIs
  <2>7. Upcoming(t, "record")' /\ ~ Upcoming(t, "eraseRest")' /\ "write" \in Behind(t)'
    BY <1>0, <2>4, <2>5, ThenTheRest
  <2>8. FilesTypeOK'
    BY <1>0, <1>5, <2>2, <2>6 DEF FilesTypeOK
  <2>9. Writing(t)'
    <3> SUFFICES ASSUME NEW u \in Transfer \ {t}, Upcoming(u, "record")' PROVE transfers'[u].file # f
      BY <1>3, <2>2, <2>6 DEF Writing
    <3> QED BY <1>2, <2>6 DEF Others, Upcoming, Busy
  <2>10. CallInv(t)'
    <3>1. Found(t)'
      BY <2>7 DEF Found, Finds
    <3>2. transfers[t].got # NoFile => transfers[t].got # f /\ transfers[t].got \in File /\ Stored(transfers[t].got)
      BY <1>0, <1>1 DEF CallInv, Stored
    <3>3. transfers'[t].got # NoFile => Stored(transfers[t].got)'
      BY <2>2, <2>6, <3>2 DEF Stored
    <3> QED BY <2>2, <2>6, <2>9, <3>1, <3>3 DEF CallInv, Stored
  <2> QED BY <1>1, <1>2, <1>3, <1>5, <2>2, <2>6, <2>7, <2>8, <2>10, WriteStep DEF Quiet
<1>6. ASSUME NEW half \in BOOLEAN, files' = [files EXCEPT ![f] = written(half)],
             Tears(f, half), Ends(t, "failed")
      PROVE  FilesInv'
  <2>1. /\ files' \in [File -> [store : Storage \cup {NoStore}, bytes : BOOLEAN,
                                key : {NoKey} \cup {accessMetadata(p) : p \in Person}]]
        /\ \A g \in File \ {f} : files'[g] = files[g]
        /\ files'[f].bytes = half /\ Stored(f)'
    BY <1>4, <1>6
  <2>2. /\ transfers' \in [Transfer -> TransferType] /\ Others(t)
        /\ \A u \in Transfer : Busy(u)' => /\ transfers'[u].op # "none"
                                           /\ transfers'[u].next \in 1..Len(Method[transfers'[u].op])
        /\ ~ Busy(t)' /\ transfers'[t].file = transfers[t].file /\ transfers'[t].got = transfers[t].got
    BY <1>0, <1>6, EndsIs
  <2>3. torn' \subseteq File /\ torn \subseteq torn' /\ (half => f \in torn')
    BY <1>0, <1>6 DEF Tears, FilesTypeOK
  <2>4. FilesTypeOK'
    BY <1>0, <2>1, <2>2, <2>3 DEF FilesTypeOK
  <2>5. CallInv(t)'
    <3>1. \A g : Stored(g) => Stored(g)'
      BY <1>1, <2>1 DEF Stored
    <3>2. transfers[t].file # NoFile => Stored(transfers[t].file)
      BY <1>0 DEF CallInv
    <3>3. transfers[t].got # NoFile => Stored(transfers[t].got)
      BY <1>0 DEF CallInv
    <3>4. PICK g, h : g = transfers[t].file /\ h = transfers[t].got
      OBVIOUS
    <3>5. (g # NoFile => Stored(g)') /\ (h # NoFile => Stored(h)')
      BY <3>1, <3>2, <3>3, <3>4
    <3>6. Writing(t)' /\ Found(t)'
      BY <2>2 DEF Writing, Found, Finds, Upcoming
    <3> QED BY <2>2, <3>4, <3>5, <3>6 DEF CallInv, Stored
  <2>6. ~ Upcoming(t, "record")'
    BY <2>2 DEF Upcoming
  <2> QED BY <1>1, <1>2, <1>3, <2>1, <2>2, <2>3, <2>4, <2>5, <2>6, WriteStep
<1>7. \A half \in BOOLEAN : [written(TRUE) EXCEPT !.bytes = half] = written(half)
  OBVIOUS
<1> QED BY <1>5, <1>6, <1>7 DEF WriteBytes

(* Bytes that come or go leave the store and the key of a file. *)
LEMMA BytesIs ==
    ASSUME FilesTypeOK, NEW f \in File, NEW half \in BOOLEAN, files' = [files EXCEPT ![f].bytes = half]
    PROVE  /\ files' \in [File -> [store : Storage \cup {NoStore}, bytes : BOOLEAN,
                                   key : {NoKey} \cup {accessMetadata(p) : p \in Person}]]
           /\ \A g \in File \ {f} : files'[g] = files[g]
           /\ files'[f].store = files[f].store /\ files'[f].key = files[f].key /\ files'[f].bytes = half
<1> DEFINE after == [files[f] EXCEPT !.bytes = half]
<1>1. files \in [File -> [store : Storage \cup {NoStore}, bytes : BOOLEAN,
                          key : {NoKey} \cup {accessMetadata(p) : p \in Person}]]
  BY DEF FilesTypeOK
<1>2. after \in [store : Storage \cup {NoStore}, bytes : BOOLEAN, key : {NoKey} \cup {accessMetadata(p) : p \in Person}]
      /\ after.store = files[f].store /\ after.key = files[f].key /\ after.bytes = half
  BY <1>1
<1>3. files' = [files EXCEPT ![f] = after]
  OBVIOUS
<1> HIDE DEF after
<1> QED BY <1>1, <1>2, <1>3

(* A call that has ended, or is through, owes nothing any more. *)
LEMMA OverIs ==
    ASSUME FilesInv, NEW t \in Transfer, ~ Busy(t)', NEW f \in File,
           transfers'[t].file = transfers[t].file,
           transfers'[t].got \in {transfers[t].got, transfers[t].file},
           \A g \in File \ {f} : files'[g] = files[g],
           files'[f].store = files[f].store
    PROVE  CallInv(t)' /\ ~ Upcoming(t, "record")'
<1>1. \A g : Stored(g) => Stored(g)'
  BY DEF Stored
<1>2. PICK g, h : g = transfers[t].file /\ h = transfers[t].got
  OBVIOUS
<1>3. (g # NoFile => Stored(g)) /\ (h # NoFile => Stored(h))
  BY <1>2 DEF FilesInv, CallInv
<1>4. Writing(t)' /\ Found(t)' /\ ~ Upcoming(t, "record")'
  BY DEF Writing, Found, Finds, Upcoming
<1> QED BY <1>1, <1>2, <1>3, <1>4 DEF CallInv, Stored

LEMMA RecordKeeps == ASSUME FilesInv, NEW t \in Transfer, RecordFile(t) PROVE FilesInv'
<1> PICK f : f = transfers[t].file
  OBVIOUS
<1>0. /\ FilesTypeOK /\ CallInv(t) /\ Upcoming(t, "record") /\ Busy(t) /\ Step(t) = "record"
      /\ transfers[t] \in TransferType /\ crossed' \subseteq Transfer /\ torn \subseteq File
  BY DEF FilesInv, FilesTypeOK, RecordFile, Upcoming, Step, Crosses
<1>1. /\ Stored(f) /\ f \in File /\ files[f].bytes /\ ~ Described(f) /\ ~ Quiet(t)
      /\ \A u \in Transfer \ {t} : Upcoming(u, "record") => transfers[u].file # f
  BY <1>0 DEF CallInv, Writing, Stored, Quiet
<1>2. \A u \in Transfer \ {t} : Finds(u) => transfers[u].file # f
  BY <1>0 DEF FilesInv, CallInv, Found, Settled
<1>3. ASSUME uploaded' = Append(uploaded, f)
      PROVE  /\ uploaded' \in Seq(File) /\ \A i, j \in DOMAIN uploaded' : uploaded'[i] = uploaded'[j] => i = j
             /\ (\A g \in File \ {f} : Described(g)' <=> Described(g)) /\ Described(f)'
  <2>1. /\ uploaded' \in Seq(File) /\ Len(uploaded') = Len(uploaded) + 1 /\ Len(uploaded) \in Nat
        /\ DOMAIN uploaded = 1..Len(uploaded) /\ DOMAIN uploaded' = 1..(Len(uploaded) + 1)
        /\ uploaded'[Len(uploaded) + 1] = f /\ \A i \in 1..Len(uploaded) : uploaded'[i] = uploaded[i]
    BY <1>0, <1>1, <1>3, AppendProperties DEF FilesTypeOK
  <2>2. \A i, j \in DOMAIN uploaded' : uploaded'[i] = uploaded'[j] => i = j
    BY <1>0, <1>1, <2>1 DEF FilesTypeOK, Described
  <2>3. (\A g \in File \ {f} : Described(g)' <=> Described(g)) /\ Described(f)'
    BY <2>1 DEF Described
  <2> QED BY <2>1, <2>2, <2>3
<1>4. ASSUME uploaded' = Append(uploaded, f), Goes(t, transfers[t]), UNCHANGED <<files, torn>> PROVE FilesInv'
  <2>1. /\ transfers' \in [Transfer -> TransferType] /\ Others(t)
        /\ \A u \in Transfer : Busy(u)' => /\ transfers'[u].op # "none"
                                           /\ transfers'[u].next \in 1..Len(Method[transfers'[u].op])
        /\ transfers'[t].file = transfers[t].file /\ transfers'[t].got = transfers[t].got
    BY <1>0, <1>4, GoesIs
  <2>2. ~ Busy(t)'
    BY <1>0, <1>4, ThenTheRest
  <2>3. FilesTypeOK'
    BY <1>0, <1>3, <1>4, <2>1 DEF FilesTypeOK
  <2>4. CallInv(t)' /\ ~ Upcoming(t, "record")'
    BY <1>1, <1>4, <2>1, <2>2, OverIs
  <2>5. Stored(f)' /\ files' = files /\ torn' = torn
    BY <1>1, <1>4 DEF Stored
  <2>6. files'[f].bytes <=> Described(f)'
    BY <1>1, <1>3, <1>4, <2>5
  <2> QED BY <1>1, <1>2, <1>3, <1>4, <2>1, <2>3, <2>4, <2>5, <2>6, WriteStep
<1>5. ASSUME NEW half \in BOOLEAN, NEW inserted \in BOOLEAN, files' = [files EXCEPT ![f].bytes = half],
             uploaded' = (IF inserted THEN Append(uploaded, f) ELSE uploaded),
             Tears(f, half # inserted), Ends(t, "failed")
      PROVE  FilesInv'
  <2>1. /\ files' \in [File -> [store : Storage \cup {NoStore}, bytes : BOOLEAN,
                                key : {NoKey} \cup {accessMetadata(p) : p \in Person}]]
        /\ \A g \in File \ {f} : files'[g] = files[g]
        /\ files'[f].store = files[f].store /\ files'[f].bytes = half
    BY <1>0, <1>1, <1>5, BytesIs
  <2>2. /\ transfers' \in [Transfer -> TransferType] /\ Others(t)
        /\ \A u \in Transfer : Busy(u)' => /\ transfers'[u].op # "none"
                                           /\ transfers'[u].next \in 1..Len(Method[transfers'[u].op])
        /\ ~ Busy(t)' /\ transfers'[t].file = transfers[t].file /\ transfers'[t].got = transfers[t].got
    BY <1>0, <1>5, EndsIs
  <2>3. torn' \subseteq File /\ torn \subseteq torn' /\ (half # inserted => f \in torn')
    BY <1>0, <1>1, <1>5 DEF Tears
  <2>4. /\ uploaded' \in Seq(File) /\ \A i, j \in DOMAIN uploaded' : uploaded'[i] = uploaded'[j] => i = j
        /\ (\A g \in File \ {f} : Described(g)' <=> Described(g)) /\ (Described(f)' <=> inserted)
    <3>1. CASE inserted
      BY <1>3, <1>5, <3>1
    <3>2. CASE ~ inserted
      BY <1>0, <1>1, <1>5, <3>2 DEF FilesTypeOK, Described
    <3> QED BY <3>1, <3>2
  <2>5. FilesTypeOK'
    BY <1>0, <2>1, <2>2, <2>3, <2>4 DEF FilesTypeOK
  <2>6. CallInv(t)' /\ ~ Upcoming(t, "record")'
    BY <1>1, <2>1, <2>2, OverIs
  <2>7. Stored(f)'
    BY <1>1, <2>1 DEF Stored
  <2>8. (files'[f].bytes <=> Described(f)') \/ f \in torn'
    BY <2>1, <2>3, <2>4
  <2> QED BY <1>1, <1>2, <2>1, <2>2, <2>3, <2>4, <2>5, <2>6, <2>7, <2>8, WriteStep
<1> QED BY <1>4, <1>5 DEF RecordFile

(* What erasing one half of a file does *)
LEMMA EraseIs ==
    ASSUME FilesTypeOK, NEW t \in Transfer, NEW f \in File, f = transfers[t].file,
           NEW half \in {"bytes", "document"}, Erase(t, half)
    PROVE  /\ files' \in [File -> [store : Storage \cup {NoStore}, bytes : BOOLEAN,
                                   key : {NoKey} \cup {accessMetadata(p) : p \in Person}]]
           /\ uploaded' \in Seq(File) /\ \A i, j \in DOMAIN uploaded' : uploaded'[i] = uploaded'[j] => i = j
           /\ \A g \in File \ {f} : files'[g] = files[g] /\ (Described(g)' <=> Described(g))
           /\ files'[f].store = files[f].store
           /\ Described(f)' => Described(f)
           /\ files'[f].bytes => files[f].bytes
           /\ half = "bytes" => ~ files'[f].bytes /\ (Described(f)' <=> Described(f))
           /\ half = "document" => ~ Described(f)' /\ files' = files
<1>1. CASE half = "bytes"
  <2>1. files' = [files EXCEPT ![f].bytes = FALSE] /\ uploaded' = uploaded
    BY <1>1 DEF Erase
  <2>2. /\ files' \in [File -> [store : Storage \cup {NoStore}, bytes : BOOLEAN,
                                key : {NoKey} \cup {accessMetadata(p) : p \in Person}]]
        /\ \A g \in File \ {f} : files'[g] = files[g]
        /\ files'[f].store = files[f].store /\ files'[f].bytes = FALSE
    BY <2>1, BytesIs
  <2>3. \A g : Described(g)' <=> Described(g)
    BY <2>1 DEF Described
  <2> QED BY <1>1, <2>1, <2>2, <2>3 DEF FilesTypeOK
<1>2. CASE half = "document"
  <2>1. files' = files /\ uploaded' = Without(f)
    BY <1>2 DEF Erase
  <2> PICK left : left = Without(f)
    OBVIOUS
  <2>5. /\ Without(f) \in Seq(File)
        /\ \A i, j \in DOMAIN Without(f) : Without(f)[i] = Without(f)[j] => i = j
        /\ \A g : (\E i \in DOMAIN Without(f) : Without(f)[i] = g) <=> Described(g) /\ g # f
    BY WithoutIs
  <2>4. /\ left \in Seq(File) /\ \A i, j \in DOMAIN left : left[i] = left[j] => i = j
        /\ \A g : (\E i \in DOMAIN left : left[i] = g) <=> Described(g) /\ g # f
    BY <2>5, Zenon
  <2>2. /\ uploaded' \in Seq(File) /\ \A i, j \in DOMAIN uploaded' : uploaded'[i] = uploaded'[j] => i = j
        /\ \A g : (\E i \in DOMAIN uploaded' : uploaded'[i] = g) <=> Described(g) /\ g # f
    BY <2>1, <2>4
  <2>3. \A g : Described(g)' <=> Described(g) /\ g # f
    BY <2>2 DEF Described
  <2> QED BY <1>2, <2>1, <2>2, <2>3 DEF FilesTypeOK
<1> QED BY <1>1, <1>2

(* What a deletion is about to do, it does to a file that was found. *)
LEMMA DeletesFound ==
    ASSUME FilesInv, NEW t \in Transfer, Upcoming(t, "erase") \/ Upcoming(t, "eraseRest")
    PROVE  /\ Settled(transfers[t].file)
           /\ \/ transfers[t].store = files[transfers[t].file].store
              \/ transfers[t].store = "gridfs" /\ ~ Described(transfers[t].file)
           /\ "locate" \in Behind(t)
<1>1. FilesTypeOK /\ CallInv(t) /\ Busy(t) /\ Step(t) \in {"erase", "eraseRest"}
  BY DEF FilesInv, Upcoming, Step
<1>2. Finds(t) /\ "locate" \in Behind(t)
  BY <1>1, StepOrder DEF Ordered, Finds, Step
<1> QED BY <1>1, <1>2 DEF CallInv, Found

LEMMA ErasesKeep ==
    ASSUME FilesInv, NEW t \in Transfer, Busy(t), Step(t) \in {"erase", "eraseRest"}, NEW f \in File, f = transfers[t].file,
           NEW half \in {"bytes", "document"}, Erase(t, half), torn' = torn, crossed' \subseteq Transfer,
           NEW to \in TransferType, Goes(t, to), to.op = transfers[t].op, to.next = transfers[t].next,
           to.file = f, to.got \in {transfers[t].got, f}, to.store = transfers[t].store,
           Step(t) = "erase" => (half = "document" <=> to.store = "gridfs"),
           Step(t) = "eraseRest" => (half = "bytes" <=> to.store = "gridfs")
    PROVE  FilesInv'
<1>0. FilesTypeOK /\ CallInv(t) /\ Settled(f) /\ Stored(f)
  BY DeletesFound DEF FilesInv, Upcoming, Step, Settled
<1>1. /\ files' \in [File -> [store : Storage \cup {NoStore}, bytes : BOOLEAN,
                              key : {NoKey} \cup {accessMetadata(p) : p \in Person}]]
      /\ uploaded' \in Seq(File) /\ \A i, j \in DOMAIN uploaded' : uploaded'[i] = uploaded'[j] => i = j
      /\ \A g \in File \ {f} : files'[g] = files[g] /\ (Described(g)' <=> Described(g))
      /\ files'[f].store = files[f].store
      /\ Described(f)' => Described(f)
      /\ files'[f].bytes => files[f].bytes
      /\ half = "bytes" => ~ files'[f].bytes /\ (Described(f)' <=> Described(f))
      /\ half = "document" => ~ Described(f)' /\ files' = files
  BY <1>0, EraseIs
<1>2. /\ transfers' \in [Transfer -> TransferType] /\ Others(t)
      /\ \A u \in Transfer : Busy(u)' => /\ transfers'[u].op # "none"
                                         /\ transfers'[u].next \in 1..Len(Method[transfers'[u].op])
      /\ transfers'[t].file = f /\ transfers'[t].got = to.got /\ transfers'[t].store = to.store
      /\ Busy(t)' => Behind(t)' = Behind(t) \cup {Step(t)}
  BY <1>0, GoesIs
<1>3. FilesTypeOK'
  BY <1>0, <1>1, <1>2 DEF FilesTypeOK
<1>4. ~ Upcoming(t, "record")'
  BY <1>0, ThenTheRest DEF Upcoming
<1>5. \A u \in Transfer \ {t} : Upcoming(u, "record") => transfers[u].file # f
  BY <1>0 DEF Settled
<1>6. Stored(f)' /\ Settled(f)'
  <2> SUFFICES ASSUME NEW u \in Transfer, Upcoming(u, "record")' PROVE transfers'[u].file # f
    BY <1>0, <1>1 DEF Settled, Stored
  <2> QED BY <1>2, <1>4, <1>5 DEF Others, Upcoming, Busy
<1>7. to.store = files[f].store \/ (to.store = "gridfs" /\ ~ Described(f))
  BY DeletesFound DEF Upcoming, Step
<1>8. (to.got # NoFile => Stored(to.got)) /\ (\A g : Stored(g) => Stored(g)')
  BY <1>0, <1>1 DEF CallInv, Stored
<1>9. PICK h : h = to.got
  OBVIOUS
<1>10. h # NoFile => Stored(h)'
  BY <1>8, <1>9
<1>11. CASE Step(t) = "erase"
  <2>1. Upcoming(t, "eraseRest")'
    BY <1>0, <1>11, ThenTheRest
  <2>2. IF to.store = "gridfs" THEN ~ Described(f)' ELSE ~ files'[f].bytes
    BY <1>1, <1>11
  <2>3. Found(t)'
    BY <1>1, <1>2, <1>6, <1>7, <2>2 DEF Found
  <2>4. CallInv(t)'
    BY <1>2, <1>4, <1>6, <1>9, <1>10, <2>3 DEF CallInv, Writing, Stored
  <2> QED BY <1>0, <1>1, <1>2, <1>3, <1>4, <1>5, <1>6, <2>1, <2>4, WriteStep DEF Quiet
<1>12. CASE Step(t) = "eraseRest"
  <2>1. ~ Busy(t)'
    BY <1>0, <1>12, ThenTheRest
  <2>2. IF to.store = "gridfs" THEN ~ Described(f) ELSE ~ files[f].bytes
    BY <1>0, <1>12 DEF CallInv, Found, Upcoming, Step
  <2>3. files'[f].bytes <=> Described(f)'
    BY <1>1, <1>12, <2>2
  <2>4. CallInv(t)'
    BY <1>1, <1>2, <2>1, OverIs
  <2> QED BY <1>0, <1>1, <1>2, <1>3, <1>4, <1>5, <1>6, <2>3, <2>4, WriteStep
<1> QED BY <1>11, <1>12

(* The answer is lost: one half is gone, or after the second one both are.  *)
LEMMA ErasesLost ==
    ASSUME FilesInv, NEW t \in Transfer, Busy(t), Step(t) \in {"erase", "eraseRest"}, NEW f \in File, f = transfers[t].file,
           NEW half \in {"bytes", "document"}, Erase(t, half), Ends(t, "failed"),
           torn \subseteq torn', torn' \subseteq File, crossed' \subseteq Transfer,
           \/ f \in torn'
           \/ Step(t) = "eraseRest" /\ (half = "bytes" <=> transfers[t].store = "gridfs")
    PROVE  FilesInv'
<1>0. FilesTypeOK /\ CallInv(t) /\ Settled(f) /\ Stored(f)
  BY DeletesFound DEF FilesInv, Upcoming, Step, Settled
<1>1. /\ files' \in [File -> [store : Storage \cup {NoStore}, bytes : BOOLEAN,
                              key : {NoKey} \cup {accessMetadata(p) : p \in Person}]]
      /\ uploaded' \in Seq(File) /\ \A i, j \in DOMAIN uploaded' : uploaded'[i] = uploaded'[j] => i = j
      /\ \A g \in File \ {f} : files'[g] = files[g] /\ (Described(g)' <=> Described(g))
      /\ files'[f].store = files[f].store
      /\ Described(f)' => Described(f)
      /\ files'[f].bytes => files[f].bytes
      /\ half = "bytes" => ~ files'[f].bytes /\ (Described(f)' <=> Described(f))
      /\ half = "document" => ~ Described(f)' /\ files' = files
  BY <1>0, EraseIs
<1>2. /\ transfers' \in [Transfer -> TransferType] /\ Others(t)
      /\ \A u \in Transfer : Busy(u)' => /\ transfers'[u].op # "none"
                                         /\ transfers'[u].next \in 1..Len(Method[transfers'[u].op])
      /\ ~ Busy(t)' /\ transfers'[t].file = transfers[t].file /\ transfers'[t].got = transfers[t].got
  BY <1>0, EndsIs
<1>3. FilesTypeOK'
  BY <1>0, <1>1, <1>2 DEF FilesTypeOK
<1>4. CallInv(t)' /\ ~ Upcoming(t, "record")'
  BY <1>1, <1>2, OverIs
<1>5. \A u \in Transfer \ {t} : Upcoming(u, "record") => transfers[u].file # f
  BY <1>0 DEF Settled
<1>6. Stored(f)'
  BY <1>0, <1>1 DEF Stored
<1>7. (files'[f].bytes <=> Described(f)') \/ f \in torn'
  <2>1. Step(t) = "eraseRest" => IF transfers[t].store = "gridfs" THEN ~ Described(f) ELSE ~ files[f].bytes
    BY <1>0 DEF CallInv, Found, Upcoming, Step
  <2> QED BY <1>1, <2>1
<1> QED BY <1>0, <1>1, <1>2, <1>3, <1>4, <1>5, <1>6, <1>7, WriteStep

LEMMA DeletesKeep == ASSUME FilesInv, NEW t \in Transfer, deleteFile(t) \/ deleteRest(t) PROVE FilesInv'
<1> PICK f : f = transfers[t].file
  OBVIOUS
<1>0. /\ FilesTypeOK /\ transfers[t] \in TransferType /\ torn \subseteq File /\ crossed \subseteq Transfer /\ Busy(t)
      /\ Upcoming(t, "erase") \/ Upcoming(t, "eraseRest")
  BY DEF FilesInv, FilesTypeOK, deleteFile, deleteRest, Upcoming
<1>1. f \in File
  BY <1>0, DeletesFound DEF Settled, Stored
<1>2. ASSUME deleteFile(t) PROVE FilesInv'
  <2>1. Step(t) = "erase" /\ Quiet(t)
    BY <1>2 DEF deleteFile, Upcoming, Step, Quiet
  <2>2. ASSUME Ends(t, "failed"), UNCHANGED <<files, uploaded, torn, crossed>> PROVE FilesInv'
    BY <1>0, <2>1, <2>2, EndQuietly
  <2>3. PICK to : to = [transfers[t] EXCEPT !.got = f]
    OBVIOUS
  <2>4. to \in TransferType /\ to.op = transfers[t].op /\ to.next = transfers[t].next
        /\ to.file = f /\ to.got = f /\ to.store = transfers[t].store
    BY <1>0, <1>1, <2>3 DEF TransferType
  <2>5. PICK half : half = IF transfers[t].store = "gridfs" THEN "document" ELSE "bytes"
    OBVIOUS
  <2>6. ASSUME Goes(t, to), Crosses(t), Erase(t, half), UNCHANGED torn PROVE FilesInv'
    <3>1. crossed' \subseteq Transfer
      BY <1>0, <2>6 DEF Crosses
    <3> QED BY <1>0, <1>1, <2>1, <2>4, <2>5, <2>6, <3>1, ErasesKeep
  <2>7. ASSUME Ends(t, "failed"), Tears(f, TRUE), Crosses(t), Erase(t, half) PROVE FilesInv'
    <3>1. crossed' \subseteq Transfer /\ torn \subseteq torn' /\ torn' \subseteq File /\ f \in torn'
      BY <1>0, <1>1, <2>7 DEF Crosses, Tears
    <3> QED BY <1>0, <1>1, <2>1, <2>5, <2>7, <3>1, ErasesLost
  <2> QED BY <1>2, <2>2, <2>3, <2>5, <2>6, <2>7 DEF deleteFile
<1>3. ASSUME deleteRest(t) PROVE FilesInv'
  <2>1. Step(t) = "eraseRest" /\ crossed' \subseteq Transfer
    BY <1>0, <1>3 DEF deleteRest, Upcoming, Step, Crosses
  <2>2. CASE Tears(f, TRUE) /\ Ends(t, "failed") /\ UNCHANGED <<files, uploaded>>
    BY <1>0, <1>1, <2>1, <2>2, EndQuietly DEF Tears
  <2>3. PICK half : half = IF transfers[t].store = "gridfs" THEN "bytes" ELSE "document"
    OBVIOUS
  <2>4. CASE Erase(t, half) /\ Goes(t, transfers[t]) /\ torn' = torn
    BY <1>0, <1>1, <2>1, <2>3, <2>4, ErasesKeep
  <2>5. CASE Erase(t, half) /\ Ends(t, "failed") /\ torn' = torn
    BY <1>0, <1>1, <2>1, <2>3, <2>5, ErasesLost
  <2> QED BY <1>3, <2>2, <2>3, <2>4, <2>5 DEF deleteRest
<1> QED BY <1>2, <1>3

-----------------------------------------------------------------------------
LEMMA FilesStep == FilesInv /\ [FilesNext]_fileVars => FilesInv'
<1> SUFFICES ASSUME FilesInv, [FilesNext]_fileVars PROVE FilesInv'
  OBVIOUS
<1>1. CASE UNCHANGED fileVars
  <2>1. files' = files /\ uploaded' = uploaded /\ transfers' = transfers /\ torn' = torn /\ crossed' = crossed
    BY <1>1 DEF fileVars
  <2>2. \A f : (Described(f)' <=> Described(f)) /\ (Stored(f)' <=> Stored(f)) /\ (Settled(f)' <=> Settled(f))
    BY <2>1 DEF Described, Stored, Settled, Upcoming, Busy
  <2>3. \A t \in Transfer : /\ Busy(t)' <=> Busy(t)
                            /\ Behind(t)' = Behind(t)
                            /\ Upcoming(t, "record")' <=> Upcoming(t, "record")
                            /\ Upcoming(t, "eraseRest")' <=> Upcoming(t, "eraseRest")
    BY <2>1 DEF Busy, Behind, Upcoming
  <2>4. FilesTypeOK'
    BY <2>1 DEF FilesInv, FilesTypeOK, Busy
  <2>5. \A t \in Transfer : CallInv(t)'
    BY <2>1, <2>2, <2>3 DEF FilesInv, CallInv, Writing, Found, Finds
  <2>6. DescribedSettled' /\ BytesBehindInfo'
    BY <2>1, <2>2, <2>3 DEF FilesInv, DescribedSettled, BytesBehindInfo
  <2> QED BY <2>4, <2>5, <2>6 DEF FilesInv
<1>2. ASSUME NEW t \in Transfer, TransferStep(t) PROVE FilesInv'
  <2>1. ASSUME NEW op \in DOMAIN Method, NEW by \in Person, NEW f \in Known \cup {NoFile}, StartTransfer(t, op, by, f)
        PROVE  FilesInv'
    BY <2>1, StartKeeps
  <2>2. ASSUME Looks(t) PROVE FilesInv'
    BY <2>2, LooksKeep
  <2>4. ASSUME NEW f \in File, NEW s \in Storage, WriteBytes(t, f, s) PROVE FilesInv'
    BY <2>4, WriteKeeps
  <2>5. ASSUME RecordFile(t) PROVE FilesInv'
    BY <2>5, RecordKeeps
  <2>6. ASSUME deleteFile(t) \/ deleteRest(t) PROVE FilesInv'
    BY <2>6, DeletesKeep
  <2>7. ASSUME CutOff(t) PROVE FilesInv'
    BY <2>7, CutKeeps
  <2> QED BY <1>2, <2>1, <2>2, <2>4, <2>5, <2>6, <2>7 DEF TransferStep, Looks
<1> QED BY <1>1, <1>2 DEF FilesNext

(* "A file info is never returned for bytes that did not arrive", and no    *)
(* stored file is without its document for good: one half of a file is      *)
(* alone only where a call is at work on it, or failed or died just there,  *)
(* whatever the stores and the calls.                                       *)
THEOREM BytesCorrect == FilesSpec => []BytesBehindInfo
<1>1. FilesInv => BytesBehindInfo
  BY DEF FilesInv
<1> QED BY FilesStart, FilesStep, <1>1, PTL DEF FilesSpec

-----------------------------------------------------------------------------
(* What a lookup answers depends on the files and documents alone.          *)
NewestOf(all, docs, s) ==
    LET those == {i \in DOMAIN docs : all[docs[i]].store = s}
    IN  IF those = {} THEN NoFile ELSE docs[CHOOSE i \in those : \A j \in those : j <= i]
FirstOf(all, docs) ==
    LET hits == {i \in DOMAIN Probes : NewestOf(all, docs, Probes[i]) # NoFile}
    IN  IF hits = {} THEN NoFile
        ELSE NewestOf(all, docs, Probes[CHOOSE i \in hits : \A j \in hits : i <= j])

LEMMA LookupsStay ==
    ASSUME UNCHANGED <<files, uploaded>>
    PROVE  /\ FirstByName' = FirstByName
           /\ \A s : Newest(s)' = Newest(s)
           /\ \A f : Described(f)' <=> Described(f)
           /\ \A who, f : decideFileAccess(who, f)' <=> decideFileAccess(who, f)
           /\ \A op, by, f : Due(op, by, f)' = Due(op, by, f)
<1>0. files' = files /\ uploaded' = uploaded
  OBVIOUS
<1>1. \A s : Newest(s) = NewestOf(files, uploaded, s) /\ Newest(s)' = NewestOf(files', uploaded', s)
  BY DEF Newest, NewestOf
<1>2. FirstByName = FirstOf(files, uploaded) /\ FirstByName' = FirstOf(files', uploaded')
  BY DEF FirstByName, FirstOf, Newest, NewestOf
<1>3. \A f : Described(f)' <=> Described(f)
  BY <1>0 DEF Described
<1>4. \A who, f : decideFileAccess(who, f)' <=> decideFileAccess(who, f)
  BY <1>0 DEF decideFileAccess, Keyed
<1>5. FirstByName' = FirstByName /\ \A s : Newest(s)' = Newest(s)
  BY <1>0, <1>1, <1>2
<1>6. \A op, by, f : Due(op, by, f)' = Due(op, by, f)
  BY <1>3, <1>4, <1>5 DEF Due
<1> QED BY <1>3, <1>4, <1>5, <1>6

(* The key a file is stamped with stays, and with it who may come to it.    *)
LEMMA DecisionsStay ==
    ASSUME FilesInv, NEW t \in Transfer, TransferStep(t), NEW who, NEW f, f = NoFile \/ Stored(f)
    PROVE  decideFileAccess(who, f)' <=> decideFileAccess(who, f)
<1>0. FilesTypeOK
  BY DEF FilesInv
<1>1. ASSUME f # NoFile PROVE files'[f].key = files[f].key
  <2>0. Stored(f) /\ f \in File
    BY <1>1 DEF Stored
  <2>1. CASE files' = files
    BY <2>1
  <2>2. ASSUME NEW g \in File, NEW half \in BOOLEAN, files' = [files EXCEPT ![g].bytes = half]
        PROVE  files'[f].key = files[f].key
    <3>1. (\A h \in File \ {g} : files'[h] = files[h]) /\ files'[g].key = files[g].key
      BY <1>0, <2>2, BytesIs
    <3> QED BY <2>0, <3>1
  <2>3. ASSUME NEW g \in File, NEW s \in Storage, WriteBytes(t, g, s)
        PROVE  files'[f].key = files[f].key
    <3>1. g # f
      BY <2>0, <2>3 DEF WriteBytes, Stored
    <3> QED BY <1>0, <2>0, <2>3, <3>1 DEF WriteBytes, FilesTypeOK
  <2>4. ASSUME RecordFile(t) PROVE files'[f].key = files[f].key
    <3>1. transfers[t].file \in File
      BY <2>4, HalfFile DEF RecordFile, Quiet, Stored
    <3>2. PICK g : g = transfers[t].file
      OBVIOUS
    <3> QED BY <2>1, <2>2, <2>4, <3>1, <3>2 DEF RecordFile
  <2>5. ASSUME deleteFile(t) \/ deleteRest(t) PROVE files'[f].key = files[f].key
    <3>1. transfers[t].file \in File
      BY <2>5, DeletesFound DEF deleteFile, deleteRest, Settled, Stored
    <3>2. PICK g : g = transfers[t].file
      OBVIOUS
    <3> QED BY <2>1, <2>2, <2>5, <3>1, <3>2 DEF deleteFile, deleteRest, Erase
  <2> QED BY <2>1, <2>3, <2>4, <2>5 DEF TransferStep, StartTransfer, checkRights, findFileById, locateFile, getStream,
                                          findFileByName, CutOff, OnlyLooks
<1> QED BY <1>1 DEF decideFileAccess, Keyed

(* What a step of one call is to the others: it leaves files and documents  *)
(* alone, or crosses those that are at work.                                *)
LEMMA StepIs ==
    ASSUME FilesInv, NEW t \in Transfer, TransferStep(t)
    PROVE  /\ Others(t) /\ crossed \subseteq crossed' /\ torn \subseteq torn'
           /\ \/ UNCHANGED <<files, uploaded>> /\ ~ Upcoming(t, "eraseRest")'
              \/ Crosses(t)
<1>0. FilesTypeOK /\ FilesTypeOK'
  <2>1. FilesInv'
    BY FilesStep DEF FilesNext
  <2> QED BY <2>1 DEF FilesInv
<1>1. ASSUME NEW how, Ends(t, how), how # "busy" PROVE Others(t) /\ ~ Upcoming(t, "eraseRest")'
  BY <1>0, <1>1 DEF Ends, Others, FilesTypeOK, Upcoming, Busy, TransferType
<1>2. ASSUME NEW call, Goes(t, call) PROVE Others(t)
  BY <1>0, <1>2 DEF Goes, Others, FilesTypeOK
<1>3. ASSUME NEW op \in DOMAIN Method, NEW by \in Person, NEW f \in Known \cup {NoFile}, StartTransfer(t, op, by, f)
      PROVE  /\ Others(t) /\ crossed \subseteq crossed' /\ torn \subseteq torn'
             /\ UNCHANGED <<files, uploaded>> /\ ~ Upcoming(t, "eraseRest")'
  BY <1>0, <1>3, StartIs DEF StartTransfer, Quiet
<1>4. ASSUME Looks(t)
      PROVE  /\ Others(t) /\ UNCHANGED <<files, uploaded, torn, crossed>> /\ ~ Upcoming(t, "eraseRest")'
  <2>1. /\ Busy(t) /\ UNCHANGED <<files, uploaded, torn, crossed>>
        /\ Step(t) \in {"rights", "find", "locate", "rightsByName", "findByName", "open"}
        /\ \/ \E step \in {"rightsByName", "findByName"} : ProbesOn(t, step) /\ Hit(t) = NoFile
           \/ Ends(t, "missing") /\ Missed(t)
           \/ \E call \in TransferType : Goes(t, call) /\ Looked(t, call)
    BY <1>4, LookIs DEF OnlyLooks
  <2>2. ASSUME NEW step \in {"rightsByName", "findByName"}, ProbesOn(t, step)
        PROVE  Others(t) /\ ~ Upcoming(t, "eraseRest")'
    BY <1>0, <2>2, ProbesOnIs DEF Quiet
  <2>3. ASSUME NEW call \in TransferType, Goes(t, call), Looked(t, call)
        PROVE  Others(t) /\ ~ Upcoming(t, "eraseRest")'
    <3>1. call.op = transfers[t].op /\ call.next = transfers[t].next
      BY <2>3 DEF Looked
    <3>2. /\ Others(t) /\ transfers'[t].op = transfers[t].op
          /\ Busy(t)' => transfers'[t].next = transfers[t].next + 1
      BY <1>0, <2>1, <2>3, <3>1, GoesIs
    <3>3. Quiet(t)'
      BY <1>0, <2>1, <3>2, GoesQuietly
    <3> QED BY <3>2, <3>3 DEF Quiet
  <2> QED BY <1>1, <2>1, <2>2, <2>3
<1>5. ASSUME \E f \in File, s \in Storage : WriteBytes(t, f, s)
      PROVE  Others(t) /\ torn \subseteq torn' /\ Crosses(t)
  BY <1>1, <1>2, <1>5 DEF WriteBytes, Tears
<1>6. ASSUME RecordFile(t) PROVE Others(t) /\ torn \subseteq torn' /\ Crosses(t)
  BY <1>1, <1>2, <1>6 DEF RecordFile, Tears
<1>7. ASSUME deleteRest(t) PROVE Others(t) /\ torn \subseteq torn' /\ Crosses(t)
  BY <1>1, <1>2, <1>7 DEF deleteRest, Tears
<1>8. ASSUME deleteFile(t)
      PROVE  /\ Others(t) /\ torn \subseteq torn'
             /\ Crosses(t) \/ (UNCHANGED <<files, uploaded, crossed>> /\ ~ Upcoming(t, "eraseRest")')
  BY <1>1, <1>2, <1>8 DEF deleteFile, Tears
<1>9. ASSUME CutOff(t)
      PROVE  /\ Others(t) /\ UNCHANGED <<files, uploaded, crossed>> /\ ~ Upcoming(t, "eraseRest")' /\ torn \subseteq torn'
  BY <1>1, <1>9 DEF CutOff, Tears
<1>10. Crosses(t) => crossed \subseteq crossed'
  BY DEF Crosses
<1> QED BY <1>3, <1>4, <1>5, <1>6, <1>7, <1>8, <1>9, <1>10 DEF TransferStep, Looks

(* Nobody comes to a file but with the rights to it, or on the way of those *)
(* that open what they find a second time.                                  *)
Entitled(t) ==
    LET call == transfers[t]
    IN  /\ Busy(t) /\ "rights" \in Behind(t) => decideFileAccess(call.by, call.file)
        /\ call.got # NoFile => \/ decideFileAccess(call.by, call.got)
                                \/ call.op \in {"getFileStreamByName", "duplicateByName"} /\ t \in crossed

(* What a call sees that nobody crosses, until it has opened or erased      *)
Looking(t) == Busy(t) /\ transfers[t].op # "createFile" /\ Behind(t) \cap {"open", "erase"} = {}

Sees(t) ==
    LET call == transfers[t]
    IN  /\ call.got = NoFile /\ call.due = Due(call.op, call.by, call.file)
        /\ \A i \in 1..call.probed : Newest(Probes[i]) = NoFile
        /\ "rightsByName" \in Behind(t) => decideFileAccess(call.by, FirstByName)
        /\ "findByName" \in Behind(t) => call.file = FirstByName /\ call.file # NoFile
        /\ Behind(t) \cap {"find", "findByName"} # {} =>
              Described(call.file) /\ call.store = files[call.file].store

Alone(t) ==
    t \notin crossed =>
        /\ Busy(t) => \A u \in Transfer \ {t} : ~ Upcoming(u, "eraseRest")
        /\ Looking(t) => Sees(t)
        /\ ~ Looking(t) /\ transfers[t].end \in {"busy", "done", "missing"} =>
              transfers[t].got = transfers[t].due \/ transfers[t].due \in torn

AccessInv == FilesInv /\ \A t \in Transfer : Entitled(t) /\ Alone(t)

LEMMA OthersKeep ==
    ASSUME AccessInv, FilesInv', NEW t \in Transfer, TransferStep(t), NEW u \in Transfer \ {t}
    PROVE  Entitled(u)' /\ Alone(u)'
<1>1. /\ transfers'[u] = transfers[u] /\ crossed \subseteq crossed' /\ torn \subseteq torn'
      /\ \A v \in Transfer \ {t} : transfers'[v] = transfers[v]
      /\ \/ UNCHANGED <<files, uploaded>> /\ ~ Upcoming(t, "eraseRest")'
         \/ Crosses(t)
  BY StepIs DEF AccessInv, Others
<1>2. /\ Busy(u)' <=> Busy(u)
      /\ Behind(u)' = Behind(u)
      /\ Looking(u)' <=> Looking(u)
      /\ \A v \in Transfer \ {t} : Upcoming(v, "eraseRest")' <=> Upcoming(v, "eraseRest")
  BY <1>1 DEF Busy, Behind, Looking, Upcoming
<1>3. PICK by, f, g : by = transfers[u].by /\ f = transfers[u].file /\ g = transfers[u].got
  OBVIOUS
<1>4. /\ decideFileAccess(by, f)' <=> decideFileAccess(by, f)
      /\ decideFileAccess(by, g)' <=> decideFileAccess(by, g)
  <2>1. (f = NoFile \/ Stored(f)) /\ (g = NoFile \/ Stored(g))
    BY <1>3 DEF AccessInv, FilesInv, CallInv
  <2> QED BY <2>1, DecisionsStay DEF AccessInv
<1>5. Entitled(u)'
  <2>1. Entitled(u)
    BY DEF AccessInv
  <2> QED BY <1>1, <1>2, <1>3, <1>4, <2>1 DEF Entitled
<1>6. ASSUME u \notin crossed' PROVE Alone(u)'
  <2>1. Alone(u) /\ u \notin crossed
    BY <1>1, <1>6 DEF AccessInv
  <2>2. ASSUME Busy(u) PROVE UNCHANGED <<files, uploaded>> /\ ~ Upcoming(t, "eraseRest")'
    BY <1>1, <1>6, <2>2 DEF Crosses
  <2>3. Busy(u)' => \A v \in Transfer \ {u} : ~ Upcoming(v, "eraseRest")'
    BY <1>2, <2>1, <2>2 DEF Alone
  <2>4. ASSUME Looking(u) PROVE Sees(u)'
    <3>1. files' = files /\ uploaded' = uploaded /\ Sees(u)
      BY <2>1, <2>2, <2>4 DEF Alone, Looking
    <3>2. /\ FirstByName' = FirstByName
          /\ \A s : Newest(s)' = Newest(s)
          /\ \A x : Described(x)' <=> Described(x)
          /\ \A who, x : decideFileAccess(who, x)' <=> decideFileAccess(who, x)
          /\ \A op, who, x : Due(op, who, x)' = Due(op, who, x)
      BY <3>1, LookupsStay
    <3>3. PICK call : call = transfers[u]
      OBVIOUS
    <3>4. /\ call.got = NoFile /\ call.due = Due(call.op, call.by, call.file)'
          /\ \A i \in 1..call.probed : Newest(Probes[i])' = NoFile
          /\ "rightsByName" \in Behind(u) => decideFileAccess(call.by, FirstByName)'
          /\ "findByName" \in Behind(u) => call.file = FirstByName' /\ call.file # NoFile
          /\ Behind(u) \cap {"find", "findByName"} # {} =>
                Described(call.file)' /\ call.store = files'[call.file].store
      BY <3>1, <3>2, <3>3 DEF Sees
    <3> QED BY <1>1, <1>2, <3>3, <3>4 DEF Sees
  <2> QED BY <1>1, <1>2, <2>1, <2>3, <2>4 DEF Alone
<1>7. Alone(u)'
  BY <1>6 DEF Alone
<1> QED BY <1>5, <1>7

(* Through all the stores, a lookup by name has found the first file.       *)
LEMMA HitIs ==
    ASSUME FilesTypeOK, NEW t \in Transfer, Over(t), \A i \in 1..transfers[t].probed : Newest(Probes[i]) = NoFile
    PROVE  Hit(t) = FirstByName
<1> PICK p : p = transfers[t].probed
  OBVIOUS
<1>0. p \in 0..2
  BY DEF FilesTypeOK, TransferType
<1>1. \A j \in 1..p : Newest(Probes[j]) = NoFile
  OBVIOUS
<1>2. CASE Hit(t) # NoFile
  <2>1. p + 1 \in 1..3 /\ (p + 1) - 1 = p
    BY <1>0
  <2>2. Newest(Probes[p + 1]) # NoFile
    BY <1>2 DEF Hit
  <2> QED BY <1>1, <2>1, <2>2, FirstIs DEF Hit
<1>3. CASE Hit(t) = NoFile
  <2>1. p = 2 /\ Newest(Probes[3]) = NoFile
    BY <1>3 DEF Over, Hit
  <2>2. \A j \in 1..3 : Newest(Probes[j]) = NoFile
    BY <1>1, <2>1
  <2> QED BY <1>3, <2>2, FirstIs
<1> QED BY <1>2, <1>3

(* The file a call is due, as long as it has not come to it                 *)
LEMMA DueIs ==
    ASSUME FilesInv, NEW t \in Transfer, Busy(t), Sees(t), Step(t) \notin {"rightsByName", "findByName"},
           transfers[t].op # "createFile", transfers[t].due # NoFile
    PROVE  /\ transfers[t].due = transfers[t].file
           /\ Described(transfers[t].file) /\ decideFileAccess(transfers[t].by, transfers[t].file)
<1>1. Ordered(transfers[t].op, transfers[t].next) /\ Before(transfers[t].op, transfers[t].next) = Behind(t)
  BY StepOrder DEF FilesInv
<1>2. transfers[t].op \in ByName => transfers[t].file = FirstByName
  BY <1>1 DEF Ordered, Step, Sees
<1> QED BY <1>2 DEF Sees, Due

LEMMA ComesTo ==
    ASSUME FilesInv, NEW t \in Transfer, Busy(t), Entitled(t), Sees(t), Step(t) \in {"open", "erase"}
    PROVE  /\ transfers[t].due = transfers[t].file
           /\ Described(transfers[t].file) /\ decideFileAccess(transfers[t].by, transfers[t].file)
           /\ transfers[t].store = files[transfers[t].file].store
<1>1. Ordered(transfers[t].op, transfers[t].next) /\ Before(transfers[t].op, transfers[t].next) = Behind(t)
  BY StepOrder DEF FilesInv
<1>2. Described(transfers[t].file) /\ transfers[t].store = files[transfers[t].file].store
  BY <1>1 DEF Ordered, Step, Sees
<1>3. transfers[t].file # NoFile
  BY <1>2, FileAssumption DEF Described, FilesInv, FilesTypeOK
<1>4. CASE transfers[t].op \in ByName
  <2>1. transfers[t].file = FirstByName /\ decideFileAccess(transfers[t].by, FirstByName)
    BY <1>1, <1>4 DEF Ordered, Step, Sees
  <2> QED BY <1>2, <1>3, <1>4, <2>1 DEF Sees, Due
<1>5. CASE transfers[t].op \notin ByName
  <2>1. "rights" \in Behind(t)
    BY <1>1, <1>5 DEF Ordered, Step, ByName
  <2> QED BY <1>2, <1>3, <1>5, <2>1 DEF Entitled, Sees, Due
<1> QED BY <1>4, <1>5

(* What was decided of nobody's file holds of any.                          *)
LEMMA NobodysFile ==
    ASSUME NEW who, NEW f, decideFileAccess(who, NoFile) PROVE decideFileAccess(who, f)
  BY DEF decideFileAccess, Keyed

LEMMA LooksEntitle ==
    ASSUME AccessInv, FilesInv', NEW t \in Transfer, Looks(t)
    PROVE  Entitled(t)' /\ Alone(t)'
<1> PICK old : old = transfers[t]
  OBVIOUS
<1> PICK op, by, f, got, due, next : /\ op = old.op /\ by = old.by /\ f = old.file /\ got = old.got /\ due = old.due
                                     /\ next = old.next
  OBVIOUS
<1>0. FilesInv /\ FilesTypeOK /\ FilesTypeOK' /\ Entitled(t) /\ Alone(t) /\ TransferStep(t)
  BY DEF AccessInv, FilesInv, Looks, TransferStep
<1>1. /\ Busy(t) /\ files' = files /\ uploaded' = uploaded /\ torn' = torn /\ crossed' = crossed
      /\ Step(t) \in {"rights", "find", "locate", "rightsByName", "findByName", "open"}
      /\ \/ \E step \in {"rightsByName", "findByName"} : ProbesOn(t, step) /\ Hit(t) = NoFile
         \/ Ends(t, "missing") /\ Missed(t)
         \/ \E call \in TransferType : Goes(t, call) /\ Looked(t, call)
  BY <1>0, LookIs DEF OnlyLooks
<1>2. Ordered(op, next) /\ Before(op, next) = Behind(t) /\ Method[op][next] = Step(t)
  BY <1>0, <1>1, StepOrder DEF Step
<1>3. Looking(t)
  BY <1>1, <1>2 DEF Ordered, Looking
<1>4. /\ FirstByName' = FirstByName
      /\ \A s : Newest(s)' = Newest(s)
      /\ \A x : Described(x)' <=> Described(x)
      /\ \A who, x : decideFileAccess(who, x)' <=> decideFileAccess(who, x)
      /\ \A o, who, x : Due(o, who, x)' = Due(o, who, x)
  BY <1>1, LookupsStay
<1>5. t \notin crossed => Sees(t) /\ \A u \in Transfer \ {t} : ~ Upcoming(u, "eraseRest")'
  <2>1. Others(t)
    BY <1>0, StepIs
  <2> QED BY <1>0, <1>1, <1>3, <2>1 DEF Alone, Others, Upcoming, Busy
<1>6. ASSUME NEW step \in {"rightsByName", "findByName"}, ProbesOn(t, step), Hit(t) = NoFile
      PROVE  Entitled(t)' /\ Alone(t)'
  <2>1. /\ Busy(t)' /\ Behind(t)' = Behind(t)
        /\ transfers'[t].op = op /\ transfers'[t].by = by /\ transfers'[t].file = f
        /\ transfers'[t].store = old.store /\ transfers'[t].due = due /\ transfers'[t].got = got
        /\ old.probed \in 0..1 /\ transfers'[t].probed = old.probed + 1
    BY <1>0, <1>6, ProbesOnIs
  <2>2. Entitled(t)'
    BY <1>0, <1>1, <1>4, <2>1 DEF Entitled
  <2>3. Looking(t)'
    BY <1>3, <2>1 DEF Looking
  <2>4. ASSUME t \notin crossed PROVE Sees(t)'
    <3>1. \A i \in 1..(old.probed + 1) : Newest(Probes[i]) = NoFile
      <4>1. \A i \in 1..old.probed : Newest(Probes[i]) = NoFile
        BY <1>5, <2>4 DEF Sees
      <4>2. \A i \in 1..(old.probed + 1) : i \in 1..old.probed \/ i = old.probed + 1
        BY <2>1
      <4> QED BY <1>6, <4>1, <4>2 DEF Hit
    <3>2. \A i \in 1..(old.probed + 1) : Newest(Probes[i])' = NoFile
      BY <1>4, <3>1
    <3> QED BY <1>1, <1>4, <1>5, <2>1, <2>4, <3>2 DEF Sees
  <2> QED BY <1>1, <1>5, <2>2, <2>3, <2>4 DEF Alone
<1>7. ASSUME Ends(t, "missing"), Missed(t) PROVE Entitled(t)' /\ Alone(t)'
  <2>1. /\ ~ Busy(t)' /\ transfers'[t].op = op /\ transfers'[t].by = by
        /\ transfers'[t].due = due /\ transfers'[t].got = got
    BY <1>0, <1>7, EndsIs
  <2>2. Entitled(t)'
    BY <1>0, <1>1, <1>4, <2>1 DEF Entitled
  <2>3. ASSUME t \notin crossed, due # NoFile PROVE due \in torn
    <3>1. Sees(t)
      BY <1>5, <2>3
    <3>2. CASE Step(t) \in {"rights", "find"}
      <4>1. Described(f) /\ decideFileAccess(by, f)
        BY <1>0, <1>1, <1>3, <2>3, <3>1, <3>2, DueIs DEF Looking
      <4> QED BY <1>7, <3>2, <4>1 DEF Missed
    <3>3. CASE Step(t) \in {"rightsByName", "findByName"}
      <4>1. op \in ByName /\ Over(t)
        BY <1>2, <1>7, <3>3 DEF Ordered, Missed
      <4>2. Hit(t) = FirstByName
        BY <1>0, <3>1, <4>1, HitIs DEF Sees
      <4>3. FirstByName # NoFile /\ decideFileAccess(by, FirstByName)
        BY <2>3, <3>1, <4>1 DEF Sees, Due
      <4> QED BY <1>7, <3>3, <4>2, <4>3 DEF Missed
    <3>4. CASE Step(t) = "open"
      <4>1. due = f /\ Described(f) /\ old.store = files[f].store /\ f \in File
        BY <1>0, <1>1, <3>1, <3>4, ComesTo DEF FilesTypeOK, Described
      <4>2. ~ files[f].bytes
        BY <1>7, <3>4, <4>1 DEF Missed
      <4>3. \A u \in Transfer : transfers[u].file = f => ~ Upcoming(u, "record")
        BY <1>0, <4>1 DEF FilesInv, DescribedSettled, Settled
      <4>4. \A u \in Transfer : ~ Upcoming(u, "eraseRest")
        BY <1>0, <1>1, <2>3, <3>4 DEF Alone, Upcoming, Step
      <4> QED BY <1>0, <4>1, <4>2, <4>3, <4>4 DEF FilesInv, BytesBehindInfo
    <3> QED BY <1>1, <1>7, <3>2, <3>3, <3>4 DEF Missed
  <2>4. t \notin crossed => got = NoFile
    BY <1>5 DEF Sees
  <2> QED BY <1>1, <2>1, <2>2, <2>3, <2>4 DEF Alone, Looking
<1>8. ASSUME NEW call \in TransferType, Goes(t, call), Looked(t, call) PROVE Entitled(t)' /\ Alone(t)'
  <2>0. /\ call.op = op /\ call.by = by /\ call.due = due /\ call.next = next
        /\ Step(t) # "findByName" => call.file = f
        /\ Step(t) # "open" => call.got = got
        /\ Step(t) = "open" => call.got = f /\ call.file = f
    BY <1>8 DEF Looked
  <2>1. /\ transfers'[t].op = op /\ transfers'[t].by = by /\ transfers'[t].due = due
        /\ transfers'[t].file = call.file /\ transfers'[t].store = call.store /\ transfers'[t].got = call.got
        /\ transfers'[t].probed = 0
        /\ Busy(t)' <=> next # Len(Method[op])
        /\ Busy(t)' => Behind(t)' = Behind(t) \cup {Step(t)}
    BY <1>0, <1>1, <1>8, <2>0, GoesIs
  <2>2. Step(t) = "open" => decideFileAccess(by, f) \/ (op \in {"getFileStreamByName", "duplicateByName"} /\ t \in crossed)
    <3>1. Step(t) = "open" => "rights" \in Behind(t) \/ op \in {"getFileStreamByName", "duplicateByName"}
      BY <1>2 DEF Ordered
    <3>2. Step(t) = "open" /\ t \notin crossed => decideFileAccess(by, f)
      BY <1>0, <1>1, <1>5, ComesTo
    <3> QED BY <1>0, <1>1, <3>1, <3>2 DEF Entitled
  <2>3. Busy(t)' /\ "rights" \in Behind(t)' => decideFileAccess(by, call.file)
    <3>1. CASE Step(t) = "rights"
      BY <1>8, <2>0, <3>1, NobodysFile DEF Looked
    <3>2. CASE Step(t) # "rights"
      <4>1. "rights" \in Behind(t) => Step(t) # "findByName" /\ decideFileAccess(by, f)
        BY <1>0, <1>1, <1>2 DEF Ordered, Entitled
      <4> QED BY <2>0, <2>1, <3>2, <4>1
    <3> QED BY <3>1, <3>2
  <2>4. Entitled(t)'
    <3>1. call.got # NoFile => \/ decideFileAccess(by, call.got)
                               \/ op \in {"getFileStreamByName", "duplicateByName"} /\ t \in crossed
      BY <1>0, <2>0, <2>2 DEF Entitled
    <3> QED BY <1>1, <1>4, <2>1, <2>3, <3>1 DEF Entitled
  <2>5. CASE Step(t) = "open"
    <3>1. ~ Looking(t)'
      BY <2>1, <2>5 DEF Looking
    <3>2. t \notin crossed => call.got = due
      BY <1>0, <1>1, <1>5, <2>0, <2>5, ComesTo
    <3> QED BY <1>1, <1>5, <2>1, <2>4, <3>1, <3>2 DEF Alone
  <2>6. CASE Step(t) # "open"
    <3>1. Busy(t)' /\ Looking(t)'
      <4>1. next # Len(Method[op])
        BY <1>1, <1>2, <2>6 DEF Ordered
      <4> QED BY <1>1, <1>3, <2>1, <2>6, <4>1 DEF Looking
    <3>2. ASSUME t \notin crossed PROVE Sees(t)'
      <4>0. Sees(t)
        BY <1>5, <3>2
      <4>1. call.got = NoFile
        BY <2>0, <2>6, <4>0 DEF Sees
      <4>2. Step(t) = "findByName" => /\ op \in ByName /\ call.file = FirstByName /\ call.file # NoFile
                                      /\ Described(call.file) /\ call.store = files[call.file].store
        <5> SUFFICES ASSUME Step(t) = "findByName"
                     PROVE  /\ op \in ByName /\ call.file = FirstByName /\ call.file # NoFile
                            /\ Described(call.file) /\ call.store = files[call.file].store
          OBVIOUS
        <5>1. call.file = Hit(t) /\ Hit(t) # NoFile /\ call.store = files[Hit(t)].store
          BY <1>8 DEF Looked
        <5>2. Hit(t) = FirstByName
          BY <1>0, <4>0, <5>1, HitIs DEF Sees, Over
        <5> QED BY <1>0, <1>2, <5>1, <5>2, FirstIs DEF Ordered
      <4>3. call.due = Due(op, by, call.file)
        BY <2>0, <4>0, <4>2 DEF Sees, Due
      <4>4. "rightsByName" \in Behind(t) \cup {Step(t)} => decideFileAccess(by, FirstByName)
        <5>1. CASE Step(t) = "rightsByName"
          <6>1. Over(t) /\ decideFileAccess(by, Hit(t))
            BY <1>8, <5>1 DEF Looked
          <6> QED BY <1>0, <4>0, <6>1, HitIs DEF Sees
        <5>2. CASE Step(t) # "rightsByName"
          BY <4>0, <5>2 DEF Sees
        <5> QED BY <5>1, <5>2
      <4>5. "findByName" \in Behind(t) \cup {Step(t)} => call.file = FirstByName /\ call.file # NoFile
        BY <2>0, <4>0, <4>2 DEF Sees
      <4>6. (Behind(t) \cup {Step(t)}) \cap {"find", "findByName"} # {} =>
               Described(call.file) /\ call.store = files[call.file].store
        <5>1. CASE Step(t) = "findByName"
          BY <4>2, <5>1
        <5>2. CASE Step(t) \in {"find", "locate"}
          <6>1. Described(f)
            BY <1>2, <1>8, <4>0, <5>2 DEF Looked, Sees, Ordered
          <6> QED BY <1>8, <2>0, <5>2, <6>1 DEF Looked
        <5>3. CASE Step(t) \in {"rights", "rightsByName"}
          <6>1. call.store = old.store /\ call.file = f
            BY <1>8, <2>0, <5>3 DEF Looked
          <6> QED BY <4>0, <5>3, <6>1 DEF Sees
        <5> QED BY <1>1, <2>6, <5>1, <5>2, <5>3
      <4>7. \A i \in 1..0 : Newest(Probes[i])' = NoFile
        OBVIOUS
      <4> QED BY <1>1, <1>4, <2>0, <2>1, <3>1, <4>1, <4>3, <4>4, <4>5, <4>6, <4>7 DEF Sees
    <3> QED BY <1>1, <1>5, <2>4, <3>1, <3>2 DEF Alone
  <2> QED BY <2>5, <2>6
<1> QED BY <1>1, <1>6, <1>7, <1>8

LEMMA FailsEntitle ==
    ASSUME AccessInv, NEW t \in Transfer, TransferStep(t), NEW how \in {"failed", "cut"}, Ends(t, how)
    PROVE  Entitled(t)' /\ Alone(t)'
<1> PICK by, got : by = transfers[t].by /\ got = transfers[t].got
  OBVIOUS
<1>1. /\ FilesInv /\ FilesTypeOK /\ Entitled(t)
      /\ got = NoFile \/ Stored(got)
  BY DEF AccessInv, FilesInv, CallInv
<1>2. /\ ~ Busy(t)' /\ transfers'[t].op = transfers[t].op /\ transfers'[t].by = by
      /\ transfers'[t].got = got /\ transfers'[t].end \notin {"busy", "done", "missing"}
  BY <1>1, EndsIs
<1>3. decideFileAccess(by, got)' <=> decideFileAccess(by, got)
  BY <1>1, DecisionsStay
<1>4. crossed \subseteq crossed'
  BY <1>1, StepIs
<1> QED BY <1>1, <1>2, <1>3, <1>4 DEF Entitled, Alone, Looking

LEMMA StartEntitles ==
    ASSUME AccessInv, NEW t \in Transfer, NEW op \in DOMAIN Method, NEW by \in Person, NEW f \in Known \cup {NoFile},
           StartTransfer(t, op, by, f)
    PROVE  Entitled(t)' /\ Alone(t)'
<1>1. /\ Others(t) /\ Busy(t)' /\ Behind(t)' = {}
      /\ transfers'[t].op = op /\ transfers'[t].by = by /\ transfers'[t].file = f
      /\ transfers'[t].due = Due(op, by, f) /\ transfers'[t].got = NoFile /\ transfers'[t].probed = 0
  BY StartIs DEF AccessInv, FilesInv
<1>2. Due(op, by, f)' = Due(op, by, f)
  BY LookupsStay DEF StartTransfer
<1>3. op = "createFile" => Due(op, by, f) = NoFile
  BY DEF StartTransfer, Due, ByName
<1>4. t \notin crossed' => \A u \in Transfer \ {t} : ~ Upcoming(u, "eraseRest")'
  BY <1>1 DEF StartTransfer, Others, Upcoming, Busy
<1>5. Entitled(t)'
  BY <1>1 DEF Entitled
<1>6. Looking(t)' <=> op # "createFile"
  BY <1>1 DEF Looking
<1>7. Sees(t)'
  <2>1. \A i \in 1..0 : Newest(Probes[i])' = NoFile
    OBVIOUS
  <2> QED BY <1>1, <1>2, <2>1 DEF Sees
<1> QED BY <1>1, <1>3, <1>4, <1>5, <1>6, <1>7 DEF Alone

(* Once a call has come to its file, or needs none, it keeps to it. *)
LEMMA PastLooking ==
    ASSUME AccessInv, NEW t \in Transfer, TransferStep(t), Busy(t), ~ Looking(t), Crosses(t),
           NEW to \in TransferType, Goes(t, to), to.op = transfers[t].op, to.next = transfers[t].next,
           to.by = transfers[t].by, to.due = transfers[t].due, to.got = transfers[t].got,
           Step(t) \in {"write", "record", "eraseRest"}
    PROVE  Entitled(t)' /\ Alone(t)'
<1> PICK by, got, op : by = transfers[t].by /\ got = transfers[t].got /\ op = transfers[t].op
  OBVIOUS
<1>0. /\ FilesInv /\ FilesTypeOK /\ Entitled(t) /\ Alone(t)
      /\ got = NoFile \/ Stored(got)
  BY DEF AccessInv, FilesInv, CallInv
<1>1. /\ transfers'[t].op = op /\ transfers'[t].by = by /\ transfers'[t].got = got
      /\ transfers'[t].due = transfers[t].due
      /\ Busy(t)' => Behind(t)' = Behind(t) \cup {Step(t)}
  BY <1>0, GoesIs
<1>2. Step(t) \in {"record", "eraseRest"} => ~ Busy(t)'
  BY <1>0, ThenTheRest
<1>3. Step(t) = "write" => "rights" \notin Behind(t)
  BY <1>0, StepOrder DEF Ordered, Step
<1>4. decideFileAccess(by, got)' <=> decideFileAccess(by, got)
  BY <1>0, DecisionsStay
<1>5. /\ Others(t) /\ torn \subseteq torn'
      /\ t \in crossed' <=> t \in crossed
  BY <1>0, StepIs DEF Crosses
<1>6. Entitled(t)'
  BY <1>0, <1>1, <1>2, <1>3, <1>4, <1>5 DEF Entitled
<1>7. ~ Looking(t)'
  BY <1>1 DEF Looking
<1>8. t \notin crossed => \A u \in Transfer \ {t} : ~ Upcoming(u, "eraseRest")'
  BY <1>0, <1>5 DEF Alone, Others, Upcoming, Busy
<1> QED BY <1>0, <1>1, <1>5, <1>6, <1>7, <1>8 DEF Alone, Busy

LEMMA ErasesEntitle ==
    ASSUME AccessInv, NEW t \in Transfer, deleteFile(t)
    PROVE  Entitled(t)' /\ Alone(t)'
<1> PICK by, f, op : by = transfers[t].by /\ f = transfers[t].file /\ op = transfers[t].op
  OBVIOUS
<1>0. /\ FilesInv /\ FilesTypeOK /\ Entitled(t) /\ Alone(t) /\ TransferStep(t) /\ transfers[t] \in TransferType
      /\ Busy(t) /\ Step(t) = "erase"
  BY DEF AccessInv, FilesInv, FilesTypeOK, TransferStep, deleteFile, Upcoming, Step
<1>1. CASE Ends(t, "failed")
  BY <1>0, <1>1, FailsEntitle
<1>2. PICK to : to = [transfers[t] EXCEPT !.got = f]
  OBVIOUS
<1>3. Settled(f) /\ f \in File
  BY <1>0, DeletesFound DEF Upcoming, Step, Settled, Stored
<1>4. /\ to \in TransferType /\ to.op = op /\ to.next = transfers[t].next /\ to.by = by
      /\ to.file = f /\ to.got = f /\ to.due = transfers[t].due
  BY <1>0, <1>2, <1>3 DEF TransferType
<1>5. ASSUME Goes(t, to), Crosses(t) PROVE Entitled(t)' /\ Alone(t)'
  <2>1. /\ transfers'[t].op = op /\ transfers'[t].by = by /\ transfers'[t].got = f
        /\ transfers'[t].file = f /\ transfers'[t].due = transfers[t].due
        /\ Busy(t)' /\ Behind(t)' = Behind(t) \cup {"erase"}
    <3>1. Busy(t)'
      BY <1>0, <1>4, <1>5, ThenTheRest DEF Upcoming
    <3> QED BY <1>0, <1>4, <1>5, <3>1, GoesIs
  <2>2. Ordered(op, transfers[t].next) /\ Before(op, transfers[t].next) = Behind(t)
        /\ Method[op][transfers[t].next] = "erase"
    BY <1>0, StepOrder DEF Step
  <2>3. Looking(t)
    BY <1>0, <2>2 DEF Ordered, Looking
  <2>4. decideFileAccess(by, f)' <=> decideFileAccess(by, f)
    BY <1>0, <1>3, DecisionsStay DEF Settled
  <2>5. /\ Others(t)
        /\ t \in crossed' <=> t \in crossed
    BY <1>0, <1>5, StepIs DEF Crosses
  <2>6. t \notin crossed => transfers[t].due = f /\ decideFileAccess(by, f)
    BY <1>0, <2>3, ComesTo DEF Alone
  <2>7. "rights" \in Behind(t) \/ op \in {"getFileStreamByName", "duplicateByName"}
    BY <2>2 DEF Ordered
  <2>8. Entitled(t)'
    BY <1>0, <2>1, <2>4, <2>5, <2>6, <2>7 DEF Entitled
  <2>9. ~ Looking(t)'
    BY <2>1 DEF Looking
  <2>10. t \notin crossed => \A u \in Transfer \ {t} : ~ Upcoming(u, "eraseRest")'
    BY <1>0, <2>5 DEF Alone, Others, Upcoming, Busy
  <2> QED BY <2>1, <2>5, <2>6, <2>8, <2>9, <2>10 DEF Alone
<1> QED BY <1>1, <1>2, <1>5 DEF deleteFile

LEMMA OwnKeeps ==
    ASSUME AccessInv, FilesInv', NEW t \in Transfer, TransferStep(t)
    PROVE  Entitled(t)' /\ Alone(t)'
<1>0. FilesInv /\ FilesTypeOK /\ transfers[t] \in TransferType
  BY DEF AccessInv, FilesInv, FilesTypeOK
<1>1. ASSUME Busy(t), Step(t) \in {"write", "record", "eraseRest"} PROVE ~ Looking(t)
  BY <1>0, <1>1, StepOrder DEF Ordered, Step, Looking
<1>2. ASSUME NEW op \in DOMAIN Method, NEW by \in Person, NEW f \in Known \cup {NoFile}, StartTransfer(t, op, by, f)
      PROVE  Entitled(t)' /\ Alone(t)'
  BY <1>2, StartEntitles
<1>3. ASSUME Looks(t) PROVE Entitled(t)' /\ Alone(t)'
  BY <1>3, LooksEntitle
<1>4. ASSUME NEW f \in File, NEW s \in Storage, WriteBytes(t, f, s) PROVE Entitled(t)' /\ Alone(t)'
  <2>1. Busy(t) /\ Step(t) = "write" /\ Crosses(t)
    BY <1>4 DEF WriteBytes, Upcoming, Step
  <2>2. PICK to : to = [transfers[t] EXCEPT !.file = f]
    OBVIOUS
  <2>3. /\ to \in TransferType /\ to.op = transfers[t].op /\ to.next = transfers[t].next /\ to.by = transfers[t].by
        /\ to.due = transfers[t].due /\ to.got = transfers[t].got
    BY <1>0, <2>2 DEF TransferType
  <2>4. Goes(t, to) \/ Ends(t, "failed")
    BY <1>4, <2>2 DEF WriteBytes
  <2>5. CASE Goes(t, to)
    BY <1>1, <2>1, <2>3, <2>5, PastLooking
  <2>6. CASE Ends(t, "failed")
    BY <2>6, FailsEntitle
  <2> QED BY <2>4, <2>5, <2>6
<1>5. ASSUME RecordFile(t) \/ deleteRest(t) PROVE Entitled(t)' /\ Alone(t)'
  <2>1. Busy(t) /\ Step(t) \in {"record", "eraseRest"} /\ Crosses(t)
    BY <1>5 DEF RecordFile, deleteRest, Upcoming, Step
  <2>2. Goes(t, transfers[t]) \/ Ends(t, "failed")
    BY <1>5 DEF RecordFile, deleteRest
  <2>3. CASE Goes(t, transfers[t])
    BY <1>0, <1>1, <2>1, <2>3, PastLooking
  <2>4. CASE Ends(t, "failed")
    BY <2>4, FailsEntitle
  <2> QED BY <2>2, <2>3, <2>4
<1>6. ASSUME deleteFile(t) PROVE Entitled(t)' /\ Alone(t)'
  BY <1>6, ErasesEntitle
<1>7. ASSUME CutOff(t) PROVE Entitled(t)' /\ Alone(t)'
  <2>1. Ends(t, "cut")
    BY <1>7 DEF CutOff
  <2> QED BY <2>1, FailsEntitle
<1> QED BY <1>2, <1>3, <1>4, <1>5, <1>6, <1>7 DEF TransferStep, Looks

-----------------------------------------------------------------------------
LEMMA AccessStart == FilesInit => AccessInv
<1> SUFFICES ASSUME FilesInit, NEW t \in Transfer PROVE Entitled(t) /\ Alone(t)
  BY FilesStart DEF AccessInv
<1>1. transfers[t] = Idle
  BY DEF FilesInit
<1>2. Idle.end = "idle" /\ Idle.got = NoFile
  BY DEF Idle
<1> QED BY <1>1, <1>2 DEF Entitled, Alone, Busy, Looking

LEMMA AccessStep == AccessInv /\ [FilesNext]_fileVars => AccessInv'
<1> SUFFICES ASSUME AccessInv, [FilesNext]_fileVars PROVE AccessInv'
  OBVIOUS
<1>0. FilesInv /\ FilesInv'
  BY FilesStep DEF AccessInv
<1>1. ASSUME NEW t \in Transfer, TransferStep(t) PROVE AccessInv'
  BY <1>0, <1>1, OwnKeeps, OthersKeep DEF AccessInv
<1>2. ASSUME UNCHANGED fileVars, NEW u \in Transfer PROVE Entitled(u)' /\ Alone(u)'
  <2>0. files' = files /\ uploaded' = uploaded /\ transfers' = transfers /\ torn' = torn /\ crossed' = crossed
        /\ Entitled(u) /\ Alone(u)
    BY <1>2 DEF fileVars, AccessInv
  <2>1. /\ Looking(u)' <=> Looking(u)
        /\ Busy(u)' <=> Busy(u)
        /\ Behind(u)' = Behind(u)
        /\ \A v : Upcoming(v, "eraseRest")' <=> Upcoming(v, "eraseRest")
    BY <2>0 DEF Looking, Busy, Behind, Upcoming
  <2>2. /\ FirstByName' = FirstByName
        /\ \A s : Newest(s)' = Newest(s)
        /\ \A x : Described(x)' <=> Described(x)
        /\ \A who, x : decideFileAccess(who, x)' <=> decideFileAccess(who, x)
        /\ \A op, who, x : Due(op, who, x)' = Due(op, who, x)
    BY <2>0, LookupsStay
  <2>3. PICK call : call = transfers[u]
    OBVIOUS
  <2>4. Entitled(u)'
    BY <2>0, <2>1, <2>2, <2>3 DEF Entitled
  <2>5. Sees(u) => Sees(u)'
    BY <2>0, <2>1, <2>2, <2>3 DEF Sees
  <2>6. Alone(u)'
    BY <2>0, <2>1, <2>5 DEF Alone
  <2> QED BY <2>4, <2>6
<1> QED BY <1>0, <1>1, <1>2 DEF FilesNext, AccessInv

(* "The document authorization inspected is the one being served", for any  *)
(* access rule, and any calls of any people: nobody is given or deletes a   *)
(* file that is not for them, but where a method that looks a name up a     *)
(* second time was crossed in between.                                      *)
THEOREM AccessCorrect == FilesSpec => []OnlyTheirOwn
<1>1. AccessInv => OnlyTheirOwn
  BY DEF AccessInv, Entitled, OnlyTheirOwn
<1> QED BY AccessStart, AccessStep, <1>1, PTL DEF FilesSpec

(* A call that nobody crosses comes to the file it is about, or to none if  *)
(* that one is refused, however many stores it asks in how many steps.      *)
THEOREM AloneCorrect == FilesSpec => []AsIfAlone
<1>1. AccessInv => AsIfAlone
  <2> SUFFICES ASSUME AccessInv, NEW t \in Transfer, transfers[t].end \in {"done", "missing"},
                      t \notin crossed, transfers[t].due \notin torn
               PROVE  transfers[t].got = transfers[t].due
    BY DEF AsIfAlone
  <2>1. ~ Looking(t)
    BY DEF Looking, Busy
  <2> QED BY <2>1 DEF AccessInv, Alone
<1> QED BY AccessStart, AccessStep, <1>1, PTL DEF FilesSpec

(* The types of the files, of what describes them and of the calls          *)
THEOREM FilesTypeCorrect == FilesSpec => []FilesTypeOK
<1>1. FilesInv => FilesTypeOK
  BY DEF FilesInv
<1> QED BY FilesStart, FilesStep, <1>1, PTL DEF FilesSpec
=============================================================================
