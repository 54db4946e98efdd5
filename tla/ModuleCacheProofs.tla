------------------------- MODULE ModuleCacheProofs -------------------------
(***************************************************************************)
(* Proofs about ModuleCache, for any number of processes, files, tags and  *)
(* commits.  IInv is inductive; the type invariant, the content of a tag's *)
(* directory, the age of a pseudo-version's content and what an import     *)
(* reads follow from it.                                                   *)
(***************************************************************************)
EXTENDS ModuleCache, TLAPS

Procs == \A p \in Proc : Asking(p) /\ Naming(p) /\ Writing(p) /\ Reading(p)

LEMMA InitIInv == Init => IInv
<1> SUFFICES ASSUME Init PROVE IInv
  OBVIOUS
<1> USE CacheAssumption DEF Init
<1>1. TypeOK
  BY DEF TypeOK, Maybe, Call, Commit, Version
<1>2. Procs
  BY DEF Procs, Asking, Naming, Writing, Reading
<1>3. /\ TagFilesExact
      /\ PseudoVersionNotNewer
      /\ ContentNotFromTheFuture
  BY DEF TagFilesExact, PseudoVersionNotNewer, ContentNotFromTheFuture, Version, Commit
<1>4. TagsExist
  BY DEF TagsExist
<1> QED
  BY <1>1, <1>2, <1>3, <1>4 DEF IInv, Procs

---------------------------------------------------------------------------
(* The steps that leave the cache's files alone, one by one.               *)

LEMMA RequestKeepsIInv ==
  ASSUME NEW p \in Proc, NEW f \in File, NEW v \in Version \cup {Master},
         IInv, Request(p, f, v)
  PROVE  IInv'
<1> USE CacheAssumption DEF IInv, remote, cache, locals, Request
<1>1. TypeOK'
  BY DEF TypeOK, Maybe, Call, Commit, Version
<1>2. Procs'
  BY DEF TypeOK, Procs, Asking, Naming, Writing, Reading, Maybe, Commit, Version
<1>3. (TagFilesExact /\ PseudoVersionNotNewer /\ ContentNotFromTheFuture /\ TagsExist)'
  BY DEF TagFilesExact, PseudoVersionNotNewer, ContentNotFromTheFuture, TagsExist
<1> QED
  BY <1>1, <1>2, <1>3 DEF Procs

LEMMA RetrieveKeepsIInv ==
  ASSUME NEW p \in Proc, IInv, Retrieve(p)
  PROVE  IInv'
<1> USE CacheAssumption DEF IInv, remote, cache, locals, Retrieve, Known, Found
<1>1. TypeOK'
  BY DEF TypeOK, Maybe, Call, Commit, Version
<1>2. Procs'
  BY DEF TypeOK, Procs, Asking, Naming, Writing, Reading, Maybe, Commit, Version
<1>3. (TagFilesExact /\ PseudoVersionNotNewer /\ ContentNotFromTheFuture /\ TagsExist)'
  BY DEF TagFilesExact, PseudoVersionNotNewer, ContentNotFromTheFuture, TagsExist
<1> QED
  BY <1>1, <1>2, <1>3 DEF Procs

LEMMA RetrieveOtherKeepsIInv ==
  ASSUME NEW p \in Proc, IInv, RetrieveOther(p)
  PROVE  IInv'
<1> USE CacheAssumption DEF IInv, remote, cache, locals, RetrieveOther
<1>1. TypeOK'
  BY DEF TypeOK, Maybe, Call, Commit, Version
<1>2. Procs'
  BY DEF TypeOK, Procs, Asking, Naming, Writing, Reading
<1>3. (TagFilesExact /\ PseudoVersionNotNewer /\ ContentNotFromTheFuture /\ TagsExist)'
  BY DEF TagFilesExact, PseudoVersionNotNewer, ContentNotFromTheFuture, TagsExist
<1> QED
  BY <1>1, <1>2, <1>3 DEF Procs

LEMMA GetContentsKeepsIInv ==
  ASSUME NEW p \in Proc, IInv, GetContents(p)
  PROVE  IInv'
<1> USE CacheAssumption DEF IInv, remote, cache, locals, GetContents, RemoteContent
<1>1. TypeOK'
  BY DEF TypeOK, Maybe, Call, Commit, Version
<1>2. Procs'
  <2>1. got'[p] \in Commit /\ got'[p] <= head
    BY DEF TypeOK, TagsExist, Commit
  <2>2. Asking(p) /\ (want[p] # Master => want[p] \in Tag /\ got'[p] = TagCommit[want[p]])
    BY DEF TypeOK
  <2>3. Asking(p)' /\ Naming(p)' /\ Writing(p)' /\ Reading(p)'
    BY <2>1, <2>2 DEF TypeOK, Asking, Naming, Writing, Reading, Commit, Version
  <2>4. ASSUME NEW q \in Proc, q # p
        PROVE  Asking(q)' /\ Naming(q)' /\ Writing(q)' /\ Reading(q)'
    BY <2>4 DEF TypeOK, Asking, Naming, Writing, Reading
  <2> QED
    BY <2>3, <2>4 DEF Procs
<1>3. (TagFilesExact /\ PseudoVersionNotNewer /\ ContentNotFromTheFuture /\ TagsExist)'
  BY DEF TagFilesExact, PseudoVersionNotNewer, ContentNotFromTheFuture, TagsExist
<1> QED
  BY <1>1, <1>2, <1>3 DEF Procs

LEMMA GetRefKeepsIInv ==
  ASSUME NEW p \in Proc, IInv, GetRef(p)
  PROVE  IInv'
<1> USE CacheAssumption DEF IInv, remote, cache, locals, GetRef, PseudoVersion
<1>1. TypeOK'
  BY DEF TypeOK, Maybe, Call, Commit, Version
<1>2. Procs'
  BY DEF TypeOK, Procs, Asking, Naming, Writing, Reading, Maybe, Commit, Version
<1>3. (TagFilesExact /\ PseudoVersionNotNewer /\ ContentNotFromTheFuture /\ TagsExist)'
  BY DEF TagFilesExact, PseudoVersionNotNewer, ContentNotFromTheFuture, TagsExist
<1> QED
  BY <1>1, <1>2, <1>3 DEF Procs

LEMMA RemoteFailKeepsIInv ==
  ASSUME NEW p \in Proc, IInv, RemoteFail(p)
  PROVE  IInv'
<1> USE CacheAssumption DEF IInv, remote, cache, locals, RemoteFail, Finish
<1>1. TypeOK'
  BY DEF TypeOK, Maybe, Call, Commit, Version
<1>2. Procs'
  BY DEF TypeOK, Procs, Asking, Naming, Writing, Reading, Maybe, Commit, Version
<1>3. (TagFilesExact /\ PseudoVersionNotNewer /\ ContentNotFromTheFuture /\ TagsExist)'
  BY DEF TagFilesExact, PseudoVersionNotNewer, ContentNotFromTheFuture, TagsExist
<1> QED
  BY <1>1, <1>2, <1>3 DEF Procs

LEMMA FileExistsKeepsIInv ==
  ASSUME NEW p \in Proc, IInv, FileExists(p)
  PROVE  IInv'
<1> USE CacheAssumption DEF IInv, remote, cache, locals, FileExists
<1>1. TypeOK'
  BY DEF TypeOK, Maybe, Call, Commit, Version
<1>2. Procs'
  BY DEF TypeOK, Procs, Asking, Naming, Writing, Reading, Maybe, Commit, Version
<1>3. (TagFilesExact /\ PseudoVersionNotNewer /\ ContentNotFromTheFuture /\ TagsExist)'
  BY DEF TagFilesExact, PseudoVersionNotNewer, ContentNotFromTheFuture, TagsExist
<1> QED
  BY <1>1, <1>2, <1>3 DEF Procs

LEMMA MkdirAllKeepsIInv ==
  ASSUME NEW p \in Proc, IInv, MkdirAll(p)
  PROVE  IInv'
<1> USE CacheAssumption DEF IInv, remote, cache, locals, MkdirAll
<1>1. TypeOK'
  BY DEF TypeOK, Writing, Maybe, Call, Commit, Version
<1>2. Procs'
  BY DEF TypeOK, Procs, Asking, Naming, Writing, Reading, Maybe, Commit, Version
<1>3. (TagFilesExact /\ PseudoVersionNotNewer /\ ContentNotFromTheFuture /\ TagsExist)'
  BY DEF TagFilesExact, PseudoVersionNotNewer, ContentNotFromTheFuture, TagsExist
<1> QED
  BY <1>1, <1>2, <1>3 DEF Procs

LEMMA OpenKeepsIInv ==
  ASSUME NEW p \in Proc, IInv, Open(p)
  PROVE  IInv'
<1> USE CacheAssumption DEF IInv, remote, cache, locals, Open
<1>1. TypeOK'
  BY DEF TypeOK, Maybe, Call, Commit, Version
<1>2. Procs'
  BY DEF TypeOK, Procs, Asking, Naming, Writing, Reading, Maybe, Commit, Version
<1>3. (TagFilesExact /\ PseudoVersionNotNewer /\ ContentNotFromTheFuture /\ TagsExist)'
  BY DEF TagFilesExact, PseudoVersionNotNewer, ContentNotFromTheFuture, TagsExist
<1> QED
  BY <1>1, <1>2, <1>3 DEF Procs

LEMMA OpenFailKeepsIInv ==
  ASSUME NEW p \in Proc, IInv, OpenFail(p)
  PROVE  IInv'
<1> USE CacheAssumption DEF IInv, remote, cache, locals, OpenFail, Finish
<1>1. TypeOK'
  BY DEF TypeOK, Maybe, Call, Commit, Version
<1>2. Procs'
  BY DEF TypeOK, Procs, Asking, Naming, Writing, Reading, Maybe, Commit, Version
<1>3. (TagFilesExact /\ PseudoVersionNotNewer /\ ContentNotFromTheFuture /\ TagsExist)'
  BY DEF TagFilesExact, PseudoVersionNotNewer, ContentNotFromTheFuture, TagsExist
<1> QED
  BY <1>1, <1>2, <1>3 DEF Procs

LEMMA ReadKeepsIInv ==
  ASSUME NEW p \in Proc, IInv, Read(p)
  PROVE  IInv'
<1> USE CacheAssumption DEF IInv, remote, cache, locals, Read, Finish
<1>1. TypeOK'
  BY DEF TypeOK, Reading, Maybe, Call, Commit, Version
<1>2. Procs'
  BY DEF TypeOK, Procs, Asking, Naming, Writing, Reading, Maybe, Commit, Version
<1>3. (TagFilesExact /\ PseudoVersionNotNewer /\ ContentNotFromTheFuture /\ TagsExist)'
  BY DEF TagFilesExact, PseudoVersionNotNewer, ContentNotFromTheFuture, TagsExist
<1> QED
  BY <1>1, <1>2, <1>3 DEF Procs

LEMMA RestartKeepsIInv ==
  ASSUME NEW p \in Proc, IInv, Restart(p)
  PROVE  IInv'
<1> USE CacheAssumption DEF IInv, remote, cache, locals, Restart, Finish
<1>1. TypeOK'
  BY DEF TypeOK, Writing, Maybe, Call, Commit, Version
<1>2. Procs'
  BY DEF TypeOK, Procs, Asking, Naming, Writing, Reading, Maybe, Commit, Version
<1>3. (TagFilesExact /\ PseudoVersionNotNewer /\ ContentNotFromTheFuture /\ TagsExist)'
  BY DEF TagFilesExact, PseudoVersionNotNewer, ContentNotFromTheFuture, TagsExist
<1> QED
  BY <1>1, <1>2, <1>3 DEF Procs

---------------------------------------------------------------------------
(* The steps of writeFile that change a file.                              *)

(* Only one file changes, to torn content or to content that belongs where *)
(* it is written.                                                          *)
Fits(v, c) ==
  \/ c = Torn
  \/ /\ c \in Commit
     /\ c <= head
     /\ v \in Tag => c = TagCommit[v]
     /\ v \in Commit => c <= v

LEMMA DiskUpdate ==
  ASSUME IInv, NEW v \in Version, NEW f \in File, NEW c, Fits(v, c) \/ c = disk[v][f],
         disk' = [disk EXCEPT ![v][f] = c], head' = head
  PROVE  /\ disk' \in [Version -> [File -> Commit \cup {NoFile, Torn}]]
         /\ TagFilesExact'
         /\ PseudoVersionNotNewer'
         /\ ContentNotFromTheFuture'
         /\ TagsExist'
<1> USE CacheAssumption DEF IInv, TypeOK
<1>1. disk' \in [Version -> [File -> Commit \cup {NoFile, Torn}]]
  BY DEF Fits
<1>2. ASSUME NEW w \in Version, NEW g \in File
      PROVE  disk'[w][g] = IF w = v /\ g = f THEN c ELSE disk[w][g]
  OBVIOUS
<1>3. Torn \notin Commit
  BY DEF Commit
<1>4. TagFilesExact'
  BY <1>2, <1>3 DEF TagFilesExact, Fits, Version
<1>5. PseudoVersionNotNewer'
  BY <1>2, <1>3 DEF PseudoVersionNotNewer, Fits, Version
<1>6. ContentNotFromTheFuture'
  BY <1>2, <1>3 DEF ContentNotFromTheFuture, Fits
<1>7. TagsExist'
  BY DEF TagsExist
<1> QED
  BY <1>1, <1>4, <1>5, <1>6, <1>7

LEMMA CreateKeepsIInv ==
  ASSUME NEW p \in Proc, IInv, Create(p)
  PROVE  IInv'
<1> USE CacheAssumption DEF IInv, remote, cache, locals, Create
<1>1. ver[p] \in Version /\ file[p] \in File
  BY DEF Writing
<1>2. Fits(ver[p], Torn)
  BY DEF Fits
<1>3. /\ disk' \in [Version -> [File -> Commit \cup {NoFile, Torn}]]
      /\ TagFilesExact'
      /\ PseudoVersionNotNewer'
      /\ ContentNotFromTheFuture'
      /\ TagsExist'
  BY <1>1, <1>2, DiskUpdate
<1>4. TypeOK'
  BY <1>1, <1>3 DEF TypeOK, Maybe, Call, Commit, Version
<1>5. Procs'
  BY DEF TypeOK, Procs, Asking, Naming, Writing, Reading, Maybe, Commit, Version
<1> QED
  BY <1>3, <1>4, <1>5 DEF Procs

LEMMA WriteKeepsIInv ==
  ASSUME NEW p \in Proc, IInv, Write(p)
  PROVE  IInv'
<1> USE CacheAssumption DEF IInv, remote, cache, locals, Write, Overwrite, Added
<1>1. ver[p] \in Version /\ file[p] \in File
  BY DEF Writing
<1>2. PICK c \in Overwrite(disk[ver[p]][file[p]], got[p]) :
        disk' = [disk EXCEPT ![ver[p]][file[p]] = c]
  OBVIOUS
<1>3. Fits(ver[p], c)
  BY <1>2 DEF Fits, Writing, TypeOK
<1>4. /\ disk' \in [Version -> [File -> Commit \cup {NoFile, Torn}]]
      /\ TagFilesExact'
      /\ PseudoVersionNotNewer'
      /\ ContentNotFromTheFuture'
      /\ TagsExist'
  BY <1>1, <1>2, <1>3, DiskUpdate
<1>5. TypeOK'
  BY <1>1, <1>4 DEF TypeOK, Maybe, Call, Commit, Version
<1>6. Procs'
  BY DEF TypeOK, Procs, Asking, Naming, Writing, Reading, Maybe, Commit, Version
<1> QED
  BY <1>4, <1>5, <1>6 DEF Procs

LEMMA WriteFailKeepsIInv ==
  ASSUME NEW p \in Proc, IInv, WriteFail(p)
  PROVE  IInv'
<1> USE CacheAssumption DEF IInv, remote, cache, locals, WriteFail, Finish
<1>1. ver[p] \in Version /\ file[p] \in File
  BY DEF Writing
<1>2. PICK c \in {disk[ver[p]][file[p]], Torn} :
        disk' = [disk EXCEPT ![ver[p]][file[p]] = c]
  OBVIOUS
<1>3. Fits(ver[p], c) \/ c = disk[ver[p]][file[p]]
  BY <1>2 DEF Fits
<1>4. /\ disk' \in [Version -> [File -> Commit \cup {NoFile, Torn}]]
      /\ TagFilesExact'
      /\ PseudoVersionNotNewer'
      /\ ContentNotFromTheFuture'
      /\ TagsExist'
  BY <1>1, <1>2, <1>3, DiskUpdate
<1>5. TypeOK'
  BY <1>1, <1>4 DEF TypeOK, Maybe, Call, Commit, Version
<1>6. Procs'
  BY DEF TypeOK, Procs, Asking, Naming, Writing, Reading, Maybe, Commit, Version
<1> QED
  BY <1>4, <1>5, <1>6 DEF Procs

LEMMA PushKeepsIInv ==
  ASSUME IInv, Push
  PROVE  IInv'
<1> USE CacheAssumption DEF IInv, cache, locals, Push
<1>1. /\ head \in Commit /\ head' \in Commit
      /\ \A c \in Commit : c <= head => c <= head'
  BY DEF TypeOK, Commit
<1>2. TypeOK'
  BY <1>1 DEF TypeOK
<1>3. Procs'
  BY <1>1 DEF TypeOK, Procs, Asking, Naming, Writing, Reading
<1>4. TagFilesExact' /\ PseudoVersionNotNewer'
  BY DEF TagFilesExact, PseudoVersionNotNewer
<1>5. ContentNotFromTheFuture'
  BY <1>1 DEF ContentNotFromTheFuture
<1>6. TagsExist'
  BY <1>1 DEF TagsExist
<1> QED
  BY <1>2, <1>3, <1>4, <1>5, <1>6 DEF Procs

---------------------------------------------------------------------------
(* IInv is an invariant of ModuleCache: what a process knows at each call  *)
(* of Retrieve, Get and OpenWithModule, and what the cache holds.          *)
THEOREM CacheInvariant == Spec => []IInv
<1>1. IInv /\ [Next]_vars => IInv'
  <2> SUFFICES ASSUME IInv, [Next]_vars PROVE IInv'
    OBVIOUS
  <2>1. CASE UNCHANGED vars
    BY <2>1 DEF vars, IInv, TypeOK, Asking, Naming, Writing, Reading, TagFilesExact,
               PseudoVersionNotNewer, ContentNotFromTheFuture, TagsExist
  <2>2. CASE Push
    BY <2>2, PushKeepsIInv
  <2>3. ASSUME NEW p \in Proc,
               \/ \E f \in File, v \in Version \cup {Master} : Request(p, f, v)
               \/ Retrieve(p) \/ RetrieveOther(p)
               \/ GetContents(p) \/ GetRef(p) \/ RemoteFail(p)
        PROVE  IInv'
    BY <2>3, RequestKeepsIInv, RetrieveKeepsIInv, RetrieveOtherKeepsIInv,
       GetContentsKeepsIInv, GetRefKeepsIInv, RemoteFailKeepsIInv
  <2>4. ASSUME NEW p \in Proc,
               FileExists(p) \/ MkdirAll(p) \/ Create(p) \/ Write(p) \/ WriteFail(p)
        PROVE  IInv'
    BY <2>4, FileExistsKeepsIInv, MkdirAllKeepsIInv, CreateKeepsIInv, WriteKeepsIInv,
       WriteFailKeepsIInv
  <2>5. ASSUME NEW p \in Proc, Open(p) \/ OpenFail(p) \/ Read(p) \/ Restart(p)
        PROVE  IInv'
    BY <2>5, OpenKeepsIInv, OpenFailKeepsIInv, ReadKeepsIInv, RestartKeepsIInv
  <2> QED
    BY <2>1, <2>2, <2>3, <2>4, <2>5 DEF Next
<1> QED
  BY InitIInv, <1>1, PTL DEF Spec

(* Every variable keeps its type: Get, Retrieve and OpenWithModule never   *)
(* use a version, a file or a content they do not have.                    *)
THEOREM TypeCorrect == Spec => []TypeOK
<1>1. IInv => TypeOK
  BY DEF IInv
<1> QED
  BY CacheInvariant, <1>1, PTL

(* The directory of a tag holds the tag's own content or none, and that of *)
(* a pseudo-version nothing newer than its commit, however the processes,  *)
(* their crashes and the pushes to master interleave.                      *)
THEOREM CacheHoldsItsVersions == Spec => [](TagFilesExact /\ PseudoVersionNotNewer)
<1>1. IInv => TagFilesExact /\ PseudoVersionNotNewer
  BY DEF IInv
<1> QED
  BY CacheInvariant, <1>1, PTL

(* What OpenWithModule hands to the parser is the content of the version   *)
(* that was asked for, if it is the content of any commit at all.          *)
THEOREM ImportsServeTheirVersion == Spec => ImportServesItsVersion
<1>1. IInv /\ [Next]_vars => [\A p \in Proc : ReadsItsVersion(p)]_vars
  <2> SUFFICES ASSUME IInv, Next, NEW p \in Proc,
                      pc[p] = "read", pc'[p] = "idle", served'[p] \in Commit
               PROVE  /\ want[p] \in Tag => served'[p] = TagCommit[want[p]]
                      /\ want[p] \in Commit => served'[p] <= want[p]
                      /\ served'[p] <= head
    BY DEF ReadsItsVersion
  <2>1. None \notin Commit /\ NoFile \notin Commit /\ Torn \notin Commit
    BY CacheAssumption DEF Commit
  <2>2. served'[p] = disk[ver[p]][file[p]]
    <3> USE DEF IInv, TypeOK, remote, cache, locals, Finish
    <3>1. ~Push
      BY DEF Push
    <3>2. ASSUME NEW q \in Proc, NEW f \in File, NEW v \in Version \cup {Master},
                 Request(q, f, v)
          PROVE  FALSE
      BY <3>2 DEF Request
    <3>3. ASSUME NEW q \in Proc,
                 \/ Retrieve(q) \/ RetrieveOther(q) \/ GetContents(q) \/ GetRef(q)
                 \/ FileExists(q) \/ MkdirAll(q) \/ Create(q) \/ Write(q) \/ Open(q)
          PROVE  FALSE
      BY <3>3 DEF Retrieve, RetrieveOther, GetContents, GetRef, FileExists, MkdirAll, Create, Write, Open
    <3>4. ASSUME NEW q \in Proc,
                 RemoteFail(q) \/ WriteFail(q) \/ OpenFail(q) \/ Restart(q)
          PROVE  FALSE
      BY <2>1, <3>4 DEF RemoteFail, WriteFail, OpenFail, Restart
    <3>5. ASSUME NEW q \in Proc, Read(q)
          PROVE  served'[p] = disk[ver[p]][file[p]]
      BY <3>5 DEF Read
    <3> QED
      BY <3>1, <3>2, <3>3, <3>4, <3>5 DEF Next
  <2>3. ver[p] \in Version /\ file[p] \in File /\ want[p] \in {ver[p], Master}
    BY DEF IInv, Reading
  <2>4. Master \notin Version
    BY CacheAssumption
  <2> QED
    BY <2>1, <2>2, <2>3, <2>4 DEF IInv, TagFilesExact, PseudoVersionNotNewer,
       ContentNotFromTheFuture, Version
<1> QED
  BY CacheInvariant, <1>1, PTL DEF Spec, ImportServesItsVersion

---------------------------------------------------------------------------
(* Torn files.  A process inside its write finds the file there, created   *)
(* by itself and perhaps truncated or written by others since.             *)
Created == \A p \in Proc : pc[p] = "write" => disk[ver[p]][file[p]] # NoFile

TornInv == Created /\ TornTagFileHasWriter

LEMMA InitTornInv == Init => TornInv
  BY CacheAssumption DEF Init, TornInv, Created, TornTagFileHasWriter, Version, Commit

(* The steps that neither touch a file nor enter or leave a write.         *)
LEMMA QuietKeepsTornInv ==
  ASSUME TornInv, disk' = disk, abandoned' = abandoned,
         \A q \in Proc : pc[q] = "write" \/ pc'[q] = "write" =>
           pc'[q] = pc[q] /\ ver'[q] = ver[q] /\ file'[q] = file[q]
  PROVE  TornInv'
  BY DEF TornInv, Created, TornTagFileHasWriter

LEMMA OthersKeepTornInv ==
  ASSUME IInv, TornInv, NEW p \in Proc,
         \/ \E f \in File, v \in Version \cup {Master} : Request(p, f, v)
         \/ Retrieve(p) \/ RetrieveOther(p)
         \/ GetContents(p) \/ GetRef(p) \/ RemoteFail(p)
         \/ FileExists(p) \/ MkdirAll(p) \/ Open(p) \/ OpenFail(p) \/ Read(p)
  PROVE  TornInv'
<1> USE DEF IInv, TypeOK, remote, cache, locals, Finish
<1>1. CASE \E f \in File, v \in Version \cup {Master} : Request(p, f, v)
  BY <1>1, QuietKeepsTornInv DEF Request
<1>2. CASE Retrieve(p) \/ RetrieveOther(p) \/ GetContents(p) \/ GetRef(p) \/ RemoteFail(p)
  BY <1>2, QuietKeepsTornInv DEF Retrieve, RetrieveOther, GetContents, GetRef, RemoteFail
<1>3. CASE FileExists(p) \/ MkdirAll(p) \/ Open(p) \/ OpenFail(p) \/ Read(p)
  BY <1>3, QuietKeepsTornInv DEF FileExists, MkdirAll, Open, OpenFail, Read
<1> QED
  BY <1>1, <1>2, <1>3

LEMMA CreateKeepsTornInv ==
  ASSUME IInv, TornInv, NEW p \in Proc, Create(p)
  PROVE  TornInv'
<1> USE CacheAssumption DEF IInv, TypeOK, remote, locals, Create
<1>1. ver[p] \in Version /\ file[p] \in File /\ pc'[p] = "write"
  BY DEF Writing
<1>2. \A v \in Version, f \in File :
        disk'[v][f] = IF v = ver[p] /\ f = file[p] THEN Torn ELSE disk[v][f]
  BY <1>1
<1>3. Created'
  BY <1>1, <1>2 DEF TornInv, Created, Writing
<1>4. ASSUME NEW t \in Tag, NEW f \in File, disk'[t][f] = Torn
      PROVE  \/ <<t, f>> \in abandoned
             \/ \E q \in Proc : pc'[q] = "write" /\ ver[q] = t /\ file[q] = f
  <2>1. CASE t = ver[p] /\ f = file[p]
    BY <1>1, <2>1
  <2>2. CASE ~(t = ver[p] /\ f = file[p])
    BY <1>2, <1>4, <2>2 DEF TornInv, TornTagFileHasWriter, Version
  <2> QED
    BY <2>1, <2>2
<1> QED
  BY <1>3, <1>4 DEF TornInv, TornTagFileHasWriter

(* A tag's file is whole when a write of it ends: it was not missing, and  *)
(* what others wrote into it is the same content.                          *)
LEMMA WriteKeepsTornInv ==
  ASSUME IInv, TornInv, NEW p \in Proc, Write(p)
  PROVE  TornInv'
<1> USE CacheAssumption DEF IInv, TypeOK, remote, Write
<1>1. /\ ver[p] \in Version /\ file[p] \in File /\ got[p] \in Commit
      /\ ver[p] \in Tag => got[p] = TagCommit[ver[p]]
      /\ disk[ver[p]][file[p]] # NoFile
  BY DEF Writing, TornInv, Created
<1>2. PICK c \in Overwrite(disk[ver[p]][file[p]], got[p]) :
        disk' = [disk EXCEPT ![ver[p]][file[p]] = c]
  OBVIOUS
<1>3. c \in {got[p], Torn} /\ Torn # NoFile /\ NoFile \notin Commit /\ Torn \notin Commit
  BY <1>2 DEF Overwrite, Commit
<1>4. ver[p] \in Tag => c = got[p]
  BY <1>1, <1>2 DEF Overwrite, TagFilesExact
<1>5. \A v \in Version, f \in File :
        disk'[v][f] = IF v = ver[p] /\ f = file[p] THEN c ELSE disk[v][f]
  BY <1>1, <1>2
<1>6. Created'
  <2> SUFFICES ASSUME NEW q \in Proc, pc'[q] = "write"
               PROVE  disk'[ver[q]][file[q]] # NoFile
    BY DEF Created
  <2>1. pc[q] = "write" /\ ver[q] \in Version /\ file[q] \in File
    BY DEF Writing
  <2> QED
    BY <1>1, <1>3, <1>5, <2>1 DEF TornInv, Created
<1>7. ASSUME NEW t \in Tag, NEW f \in File, disk'[t][f] = Torn
      PROVE  \/ <<t, f>> \in abandoned
             \/ \E q \in Proc : pc'[q] = "write" /\ ver[q] = t /\ file[q] = f
  <2>1. ~(t = ver[p] /\ f = file[p])
    BY <1>1, <1>3, <1>4, <1>5, <1>7
  <2>2. disk[t][f] = Torn
    BY <1>5, <1>7, <2>1 DEF Version
  <2> QED
    BY <2>1, <2>2 DEF TornInv, TornTagFileHasWriter
<1> QED
  BY <1>6, <1>7 DEF TornInv, TornTagFileHasWriter

(* A process that stops inside a write leaves it abandoned.                *)
LEMMA StopKeepsTornInv ==
  ASSUME IInv, TornInv, NEW p \in Proc, WriteFail(p) \/ Restart(p)
  PROVE  TornInv'
<1> USE CacheAssumption DEF IInv, TypeOK, remote, Finish
<1>1. /\ pc[p] = "write" => ver[p] \in Version /\ file[p] \in File
      /\ pc' = [pc EXCEPT ![p] = "idle"]
      /\ \A q \in Proc \ {p} : ver'[q] = ver[q] /\ file'[q] = file[q]
  BY DEF Writing, WriteFail, Restart
<1>2. /\ abandoned \subseteq abandoned'
      /\ pc[p] = "write" => <<ver[p], file[p]>> \in abandoned'
  BY DEF WriteFail, Restart
<1>3. \A v \in Version, f \in File :
        \/ disk'[v][f] = disk[v][f]
        \/ disk'[v][f] = Torn /\ pc[p] = "write" /\ v = ver[p] /\ f = file[p]
  <2>1. CASE Restart(p)
    BY <2>1 DEF Restart
  <2>2. CASE WriteFail(p)
    <3>1. pc[p] = "write" /\ ver[p] \in Version /\ file[p] \in File
      BY <1>1, <2>2 DEF WriteFail
    <3>2. PICK c \in {disk[ver[p]][file[p]], Torn} :
            disk' = [disk EXCEPT ![ver[p]][file[p]] = c]
      BY <2>2 DEF WriteFail
    <3> QED
      BY <3>1, <3>2
  <2> QED
    BY <2>1, <2>2
<1>4. Created'
  <2> SUFFICES ASSUME NEW q \in Proc, pc'[q] = "write"
               PROVE  disk'[ver'[q]][file'[q]] # NoFile
    BY DEF Created
  <2>1. q # p /\ pc[q] = "write" /\ ver[q] \in Version /\ file[q] \in File
    BY <1>1 DEF Writing
  <2> QED
    BY <1>1, <1>3, <2>1 DEF TornInv, Created
<1>5. ASSUME NEW t \in Tag, NEW f \in File, disk'[t][f] = Torn
      PROVE  \/ <<t, f>> \in abandoned'
             \/ \E q \in Proc : pc'[q] = "write" /\ ver'[q] = t /\ file'[q] = f
  <2>1. CASE disk[t][f] = Torn
    <3>1. \/ <<t, f>> \in abandoned
          \/ \E q \in Proc : pc[q] = "write" /\ ver[q] = t /\ file[q] = f
      BY <2>1 DEF TornInv, TornTagFileHasWriter
    <3> QED
      BY <1>1, <1>2, <3>1
  <2>2. CASE disk[t][f] # Torn
    <3>1. t \in Version
      BY DEF Version
    <3>2. pc[p] = "write" /\ t = ver[p] /\ f = file[p]
      BY <1>3, <1>5, <2>2, <3>1
    <3> QED
      BY <1>2, <3>2
  <2> QED
    BY <2>1, <2>2
<1> QED
  BY <1>4, <1>5 DEF TornInv, TornTagFileHasWriter

(* A torn file of a tag has a writer inside its write, or one that stopped *)
(* there, whatever the other processes do to the file meanwhile.           *)
THEOREM TornFilesHaveWriters == Spec => []TornTagFileHasWriter
<1>1. IInv /\ TornInv /\ [Next]_vars => TornInv'
  <2> SUFFICES ASSUME IInv, TornInv, [Next]_vars PROVE TornInv'
    OBVIOUS
  <2>1. CASE UNCHANGED vars
    BY <2>1, QuietKeepsTornInv DEF vars
  <2>2. CASE Push
    BY <2>2, QuietKeepsTornInv DEF Push, cache, locals
  <2>3. ASSUME NEW p \in Proc,
               \/ \E f \in File, v \in Version \cup {Master} : Request(p, f, v)
               \/ Retrieve(p) \/ RetrieveOther(p)
               \/ GetContents(p) \/ GetRef(p) \/ RemoteFail(p)
               \/ FileExists(p) \/ MkdirAll(p) \/ Open(p) \/ OpenFail(p) \/ Read(p)
        PROVE  TornInv'
    BY <2>3, OthersKeepTornInv
  <2>4. ASSUME NEW p \in Proc, Create(p) \/ Write(p) \/ WriteFail(p) \/ Restart(p)
        PROVE  TornInv'
    BY <2>4, CreateKeepsTornInv, WriteKeepsTornInv, StopKeepsTornInv
  <2> QED
    BY <2>1, <2>2, <2>3, <2>4 DEF Next
<1>2. TornInv => TornTagFileHasWriter
  BY DEF TornInv
<1> QED
  BY CacheInvariant, InitTornInv, <1>1, <1>2, PTL DEF Spec
============================================================================
