---------------------------- MODULE ModuleCache ----------------------------
(***************************************************************************)
(* Remote imports in GitHub mode: pkg/mod/fs.go, module.go and github.go.  *)
(*                                                                         *)
(* Every sysl process of a user shares one directory, ~/.sysl, in which    *)
(* files of a repository are kept per version: a tag, or a pseudo-version  *)
(* v0.0.0-<sha12> for what was fetched from master.  Nothing locks it.     *)
(* This module follows the retrieval of files of ONE repository by several *)
(* processes, with a step of its own for every call that leaves the        *)
(* process: the two GitHub requests, the existence test, MkdirAll, Create, *)
(* Write, Open and the read.  Between two of them another process may run, *)
(* somebody may push to master, or the process may be killed.              *)
(***************************************************************************)
EXTENDS Naturals

CONSTANTS
  Proc,        \* the sysl processes that share the cache directory
  File,        \* the paths of the files of the repository
  Tag,         \* the tags of the repository, which never move
  TagCommit,   \* TagCommit[t]: the commit of master that t names
  MaxCommit,   \* bound: how many commits master ever has
  Master,      \* the version of an import without "@", or with "@master"
  NoFile,      \* a path of the cache at which no file exists
  Torn,        \* content that is no commit's: empty, cut short, or mixed
  None         \* no file, version or content

(* Commits are numbered in the order they reach master.  The content of a  *)
(* file at a commit is represented by the commit, and so is the pseudo-    *)
(* version made from its hash.                                             *)
Commit == 1..MaxCommit
Version == Tag \cup Commit

ASSUME CacheAssumption ==
  /\ MaxCommit \in Nat \ {0}
  /\ TagCommit \in [Tag -> Commit]
  /\ Tag \cap Nat = {}
  /\ Master \notin Version
  /\ {NoFile, Torn, None} \cap Nat = {}
  /\ None \notin Tag \cup {Master}
  /\ NoFile # Torn

VARIABLES
  head,        \* the commit refs/heads/master points to
  dirs,        \* the versions that have a directory in the cache
  disk,        \* disk[v][f]: the content of file f in the directory of v
  pc,          \* pc[p]: the next call p makes
  want,        \* want[p]: the version p's current import asked for
  file,        \* file[p]: the file p's current import asked for
  ver,         \* ver[p]: the version whose directory p uses
  got,         \* got[p]: the content GitHub sent p
  mods,        \* mods[p]: the versions in p's list of known modules
  served,      \* served[p]: what p's last import read, until the next one
  abandoned    \* the <<version, file>> whose writer stopped inside a write

remote == head
cache == <<dirs, disk, abandoned>>
locals == <<want, file, ver, got, mods, served>>
vars == <<head, dirs, disk, pc, want, file, ver, got, mods, served, abandoned>>

Call == {"idle", "retrieve", "contents", "ref", "exists", "mkdir",
         "create", "write", "open", "read"}

Init ==
  /\ head \in {c \in Commit : \A t \in Tag : TagCommit[t] <= c}
  /\ dirs = {}
  /\ disk = [v \in Version |-> [f \in File |-> NoFile]]
  /\ pc = [p \in Proc |-> "idle"]
  /\ want = [p \in Proc |-> None]
  /\ file = [p \in Proc |-> None]
  /\ ver = [p \in Proc |-> None]
  /\ got = [p \in Proc |-> None]
  /\ mods = [p \in Proc |-> {}]
  /\ served = [p \in Proc |-> None]
  /\ abandoned = {}

---------------------------------------------------------------------------
(* Fs.OpenWithModule did not find the file under the project's root and    *)
(* asks for it as a module.                                                *)
Request(p, f, v) ==
  /\ pc[p] = "idle"
  /\ pc' = [pc EXCEPT ![p] = "retrieve"]
  /\ want' = [want EXCEPT ![p] = v]
  /\ file' = [file EXCEPT ![p] = f]
  /\ ver' = [ver EXCEPT ![p] = v]
  /\ served' = [served EXCEPT ![p] = None]
  /\ UNCHANGED <<remote, cache, got, mods>>

(* The import is over, with an error or with a file: p goes on to the next.*)
Finish(p, content) ==
  /\ pc' = [pc EXCEPT ![p] = "idle"]
  /\ want' = [want EXCEPT ![p] = None]
  /\ file' = [file EXCEPT ![p] = None]
  /\ ver' = [ver EXCEPT ![p] = None]
  /\ got' = [got EXCEPT ![p] = None]
  /\ served' = [served EXCEPT ![p] = content]

(* githubMgr.Load lists the directories of the cache; it is called while   *)
(* the process knows no module at all.  A process that knows none of this  *)
(* repository may have loaded the list before, for another repository,     *)
(* when it had none of this one.                                           *)
Known(p) == IF mods[p] = {} THEN {dirs, {}} ELSE {mods[p]}

(* githubMgr.Find: a module with the version asked for.  It is the         *)
(* version's directory that is found: whether the file is in it is not     *)
(* looked at.                                                              *)
Found(v, known) == v # Master /\ v \in known

Retrieve(p) ==
  /\ pc[p] = "retrieve"
  /\ \E known \in Known(p) :
       /\ mods' = [mods EXCEPT ![p] = known]
       /\ pc' = [pc EXCEPT ![p] = IF Found(want[p], known)
                                  THEN "open" ELSE "contents"]
  /\ UNCHANGED <<remote, cache, want, file, ver, got, served>>

(* An import from another repository loads the list, with what the cache   *)
(* has of this one by now.                                                 *)
RetrieveOther(p) ==
  /\ pc[p] = "idle"
  /\ mods[p] = {}
  /\ mods' = [mods EXCEPT ![p] = dirs]
  /\ UNCHANGED <<remote, cache, pc, want, file, ver, got, served>>

---------------------------------------------------------------------------
(* githubMgr.Get                                                           *)

(* An operator named Mut... is a wrong variant of the operator after it.   *)
(* No action uses it: put in the operator's place, it shows that a         *)
(* property below tells the two apart.                                     *)
MutRemoteIsHead(v) == head

(* The content GitHub has at the version asked for: a tag's own commit, or *)
(* whatever master points to when the request is answered.                 *)
RemoteContent(v) == IF v = Master THEN head ELSE TagCommit[v]

(* GetContents.  A pseudo-version is no ref of the repository, so only     *)
(* tags and master can be answered.                                        *)
GetContents(p) ==
  /\ pc[p] = "contents"
  /\ want[p] \in Tag \cup {Master}
  /\ got' = [got EXCEPT ![p] = RemoteContent(want[p])]
  /\ pc' = [pc EXCEPT ![p] = IF want[p] = Master THEN "ref" ELSE "exists"]
  /\ UNCHANGED <<remote, cache, want, file, ver, mods, served>>

MutNamedBehind == IF head > 1 THEN head - 1 ELSE head

(* The pseudo-version is made of the commit master points to NOW.          *)
PseudoVersion == head

GetRef(p) ==
  /\ pc[p] = "ref"
  /\ ver' = [ver EXCEPT ![p] = PseudoVersion]
  /\ pc' = [pc EXCEPT ![p] = "exists"]
  /\ UNCHANGED <<remote, cache, want, file, got, mods, served>>

(* Either request fails: unknown ref or file, rate limit, no network.      *)
RemoteFail(p) ==
  /\ pc[p] \in {"contents", "ref"}
  /\ Finish(p, None)
  /\ UNCHANGED <<remote, cache, mods>>

(* A file that exists is used as it is: neither written nor added to the   *)
(* list of modules.                                                        *)
FileExists(p) ==
  /\ pc[p] = "exists"
  /\ \/ /\ disk[ver[p]][file[p]] = NoFile
        /\ pc' = [pc EXCEPT ![p] = "mkdir"]
        /\ UNCHANGED got
     \/ /\ disk[ver[p]][file[p]] # NoFile
        /\ pc' = [pc EXCEPT ![p] = "open"]
        /\ got' = [got EXCEPT ![p] = None]
  /\ UNCHANGED <<remote, cache, want, file, ver, mods, served>>

(* writeFile: MkdirAll, then os.Create, then Write.                        *)
MkdirAll(p) ==
  /\ pc[p] = "mkdir"
  /\ dirs' = dirs \cup {ver[p]}
  /\ pc' = [pc EXCEPT ![p] = "create"]
  /\ UNCHANGED <<remote, disk, abandoned, locals>>

(* os.Create truncates a file that another process made meanwhile.         *)
Create(p) ==
  /\ pc[p] = "create"
  /\ disk' = [disk EXCEPT ![ver[p]][file[p]] = Torn]
  /\ pc' = [pc EXCEPT ![p] = "write"]
  /\ UNCHANGED <<remote, dirs, abandoned, locals>>

MutAppend(old, c) == IF old = Torn THEN {c} ELSE {Torn}

(* What the file holds when p has written c from its start over old.  If   *)
(* another process wrote a different content since p's truncation, its     *)
(* tail may stay behind c.                                                 *)
Overwrite(old, c) == IF old \in {Torn, c} THEN {c} ELSE {c, Torn}

MutAddAsked(p) == mods[p] \cup {want[p]}

(* modules.Add: the module is known under the version it was stored as.    *)
Added(p) == mods[p] \cup {ver[p]}

Write(p) ==
  /\ pc[p] = "write"
  /\ \E c \in Overwrite(disk[ver[p]][file[p]], got[p]) :
       disk' = [disk EXCEPT ![ver[p]][file[p]] = c]
  /\ mods' = [mods EXCEPT ![p] = Added(p)]
  /\ got' = [got EXCEPT ![p] = None]
  /\ pc' = [pc EXCEPT ![p] = "open"]
  /\ UNCHANGED <<remote, dirs, abandoned, want, file, ver, served>>

(* The write fails half way (a full disk, say): Get returns the error and  *)
(* leaves the file it created.                                             *)
WriteFail(p) ==
  /\ pc[p] = "write"
  /\ \E c \in {disk[ver[p]][file[p]], Torn} :
       disk' = [disk EXCEPT ![ver[p]][file[p]] = c]
  /\ abandoned' = abandoned \cup {<<ver[p], file[p]>>}
  /\ Finish(p, None)
  /\ UNCHANGED <<remote, dirs, mods>>

---------------------------------------------------------------------------
(* Fs.OpenWithModule opens the file in the directory of the module.        *)
Open(p) ==
  /\ pc[p] = "open"
  /\ disk[ver[p]][file[p]] # NoFile
  /\ pc' = [pc EXCEPT ![p] = "read"]
  /\ UNCHANGED <<remote, cache, locals>>

OpenFail(p) ==
  /\ pc[p] = "open"
  /\ disk[ver[p]][file[p]] = NoFile
  /\ Finish(p, None)
  /\ UNCHANGED <<remote, cache, mods>>

(* newFSFileStream copies the file, whatever it holds by then.             *)
Read(p) ==
  /\ pc[p] = "read"
  /\ Finish(p, disk[ver[p]][file[p]])
  /\ UNCHANGED <<remote, cache, mods>>

---------------------------------------------------------------------------
(* p is killed, or ends; its place is taken by a new process.              *)
Restart(p) ==
  /\ mods' = [mods EXCEPT ![p] = {}]
  /\ abandoned' = IF pc[p] = "write"
                  THEN abandoned \cup {<<ver[p], file[p]>>} ELSE abandoned
  /\ Finish(p, None)
  /\ UNCHANGED <<remote, dirs, disk>>

Push ==
  /\ head < MaxCommit
  /\ head' = head + 1
  /\ UNCHANGED <<cache, pc, locals>>

Next ==
  \/ Push
  \/ \E p \in Proc :
       \/ \E f \in File, v \in Version \cup {Master} : Request(p, f, v)
       \/ Retrieve(p)
       \/ RetrieveOther(p)
       \/ GetContents(p)
       \/ GetRef(p)
       \/ RemoteFail(p)
       \/ FileExists(p)
       \/ MkdirAll(p)
       \/ Create(p)
       \/ Write(p)
       \/ WriteFail(p)
       \/ Open(p)
       \/ OpenFail(p)
       \/ Read(p)
       \/ Restart(p)

Spec == Init /\ [][Next]_vars

---------------------------------------------------------------------------
(* Properties                                                              *)

Maybe(S) == S \cup {None}

(* Every variable keeps its type, and a process inside Get knows the       *)
(* version, the file and the content it works with.                        *)
TypeOK ==
  /\ head \in Commit
  /\ dirs \subseteq Version
  /\ disk \in [Version -> [File -> Commit \cup {NoFile, Torn}]]
  /\ pc \in [Proc -> Call]
  /\ want \in [Proc -> Maybe(Version \cup {Master})]
  /\ file \in [Proc -> Maybe(File)]
  /\ ver \in [Proc -> Maybe(Version \cup {Master})]
  /\ got \in [Proc -> Maybe(Commit)]
  /\ mods \in [Proc -> SUBSET Version]
  /\ served \in [Proc -> Maybe(Commit \cup {Torn, NoFile})]
  /\ abandoned \subseteq Version \X File

(* The directory of a tag never holds content of another commit than the   *)
(* tag's, whatever is pushed while a file is fetched and whoever writes.   *)
TagFilesExact ==
  \A t \in Tag, f \in File : disk[t][f] \in {NoFile, Torn, TagCommit[t]}

(* Get reads the content before it asks for the commit that names the      *)
(* directory: the content kept under a pseudo-version may be older than    *)
(* that commit, but is never newer.                                        *)
PseudoVersionNotNewer ==
  \A c \in Commit, f \in File : disk[c][f] \in Commit => disk[c][f] <= c

(* A torn file of a tag is being written right now, or its writer stopped  *)
(* inside the write: processes that fetch the same file at the same time   *)
(* and truncate it under each other all leave the whole file.              *)
TornTagFileHasWriter ==
  \A t \in Tag, f \in File :
    disk[t][f] = Torn =>
      \/ <<t, f>> \in abandoned
      \/ \E p \in Proc : pc[p] = "write" /\ ver[p] = t /\ file[p] = f

(* What an import reads, unless it is torn: the tag's own content if it    *)
(* asked for a tag, nothing newer than the commit if it asked for a        *)
(* pseudo-version, and always the content of a commit master already has.  *)
ReadsItsVersion(p) ==
  pc[p] = "read" /\ pc'[p] = "idle" /\ served'[p] \in Commit =>
    /\ want[p] \in Tag => served'[p] = TagCommit[want[p]]
    /\ want[p] \in Commit => served'[p] <= want[p]
    /\ served'[p] <= head
ImportServesItsVersion == [][\A p \in Proc : ReadsItsVersion(p)]_vars

(* "To import a sysl file from external repo with fixed version"           *)
(* (docs/website/content/docs/byexample/modules.md): a version that was    *)
(* found or fetched has the file that is imported from it.                 *)
ModuleHasTheFile ==
  \A p \in Proc : pc[p] = "open" => disk[ver[p]][file[p]] # NoFile

---------------------------------------------------------------------------
(* The inductive invariant behind the properties: what a process knows at  *)
(* each call of Retrieve, Get and OpenWithModule.                          *)
Asking(p) ==
  pc[p] \in {"retrieve", "contents"} =>
    file[p] \in File /\ want[p] \in Version \cup {Master} /\ ver[p] = want[p]

Naming(p) ==
  pc[p] = "ref" =>
    file[p] \in File /\ want[p] = Master /\ got[p] \in Commit /\ got[p] <= head

Writing(p) ==
  pc[p] \in {"exists", "mkdir", "create", "write"} =>
    /\ file[p] \in File
    /\ ver[p] \in Version
    /\ want[p] \in {ver[p], Master}
    /\ got[p] \in Commit
    /\ got[p] <= head
    /\ ver[p] \in Tag => got[p] = TagCommit[ver[p]]
    /\ ver[p] \in Commit => got[p] <= ver[p]

Reading(p) ==
  pc[p] \in {"open", "read"} =>
    file[p] \in File /\ ver[p] \in Version /\ want[p] \in {ver[p], Master}

ContentNotFromTheFuture ==
  \A v \in Version, f \in File : disk[v][f] \in Commit => disk[v][f] <= head

TagsExist == \A t \in Tag : TagCommit[t] <= head

IInv ==
  /\ TypeOK
  /\ \A p \in Proc : Asking(p) /\ Naming(p) /\ Writing(p) /\ Reading(p)
  /\ TagFilesExact
  /\ PseudoVersionNotNewer
  /\ ContentNotFromTheFuture
  /\ TagsExist
============================================================================
