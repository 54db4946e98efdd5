----------------------------- MODULE ImportLoop -----------------------------
(***************************************************************************)
(* Parser.Parse of pkg/parse/parse.go: a file is parsed and walked, the    *)
(* imports it states are queued, and the next file is the first queued one *)
(* that was not imported yet.                                              *)
(*                                                                         *)
(* What is walked lands in one module, so a file must be walked once, and  *)
(* every file that is imported must be walked.  "Imported" is decided by   *)
(* the spelling of the file name.                                          *)
(***************************************************************************)
EXTENDS ImportPaths

CONSTANTS
  File,      \* the files that exist, as paths from the root
  Root,      \* the spelling of the file Parse is called with
  Projects   \* what the files may import: functions from File to sequences

ASSUME ProjectsAssumption == \A project \in Projects :
  DOMAIN project = File /\ \A f \in File : project[f] \in Seq(Seq(STRING))

VARIABLES
  imports,             \* imports[f]: the import texts of file f, in order
  allowAbsoluteImport, \* Parser.allowAbsoluteImport
  pc,                  \* "parse" source, "pop" the next one, "done", "error"
  source,              \* the spelling of the file that is parsed
  queue,               \* listener.imports
  imported,            \* the spellings that count as imported
  walked               \* the spellings of the files that were walked, in order

vars == <<imports, allowAbsoluteImport, pc, source, queue, imported, walked>>

Init ==
  /\ imports \in Projects
  /\ allowAbsoluteImport \in BOOLEAN
  /\ pc = "parse"
  /\ source = Root
  /\ queue = <<>>
  /\ imported = {}
  /\ walked = <<>>

---------------------------------------------------------------------------
(* An operator named Mut... is a wrong variant of the operator after it.   *)
(* No action uses it: put in the operator's place, it shows that a         *)
(* property below tells the two apart.                                     *)
MutMarkOnSight(name) == imported \cup {name} \cup ToSet(queue')
MutMarkNothing(name) == imported

(* A file counts as imported once it was walked.                           *)
MarkImported(name) == imported \cup {name}

(* newFSFileStream succeeds.                                               *)
Opens(name) == OpenAllowed(name) /\ FileOf(name) \in File

(* The import definitions EnterImport_stmt appends for the file.           *)
ImportsOf(name) ==
  [i \in DOMAIN imports[FileOf(name)] |-> Spell(name, imports[FileOf(name)][i])]

(* The file is opened, parsed and walked.  When nothing is queued Parse is *)
(* over.                                                                   *)
ParseSource ==
  /\ pc = "parse"
  /\ Opens(source)
  /\ walked' = Append(walked, source)
  /\ queue' = queue \o ImportsOf(source)
  /\ \/ /\ queue' = <<>>
        /\ pc' = "done"
        /\ UNCHANGED imported
     \/ /\ queue' # <<>>
        /\ pc' = "pop"
        /\ imported' = MarkImported(source)
  /\ UNCHANGED <<imports, allowAbsoluteImport, source>>

(* The file cannot be opened, is of no known format, or does not parse.    *)
ParseFail ==
  /\ pc = "parse"
  /\ pc' = "error"
  /\ UNCHANGED <<imports, allowAbsoluteImport, source, queue, imported, walked>>

MutAfterPopAnyPath(name, rest) ==
  CASE name \in imported -> IF rest = <<>> THEN "done" ELSE "pop"
    [] OTHER -> "parse"
MutAfterPopGoesOn(name, rest) == IF name \in imported THEN "pop" ELSE "parse"

(* The inner loop takes one definition off the queue: what Parse does with *)
(* name when rest is left.  If no definition is new, Parse is over.        *)
AfterPop(name, rest) ==
  CASE name \in imported -> IF rest = <<>> THEN "done" ELSE "pop"
    [] name \notin imported /\ IsAbs(name) /\ ~allowAbsoluteImport -> "error"
    [] OTHER -> "parse"

Pop ==
  /\ pc = "pop"
  /\ queue # <<>>
  /\ source' = Head(queue)
  /\ queue' = Tail(queue)
  /\ pc' = AfterPop(Head(queue), Tail(queue))
  /\ UNCHANGED <<imports, allowAbsoluteImport, imported, walked>>

Next == ParseSource \/ ParseFail \/ Pop

(* Parse is one goroutine that does not wait for anything.                 *)
Spec == Init /\ [][Next]_vars /\ WF_vars(Next)

---------------------------------------------------------------------------
(* Properties                                                              *)

(* Every variable keeps its type, the inner loop of Parse finds a queue,   *)
(* and only files that could be opened count as imported or are walked.    *)
TypeOK ==
  /\ DOMAIN imports = File
  /\ allowAbsoluteImport \in BOOLEAN
  /\ pc \in {"parse", "pop", "done", "error"}
  /\ pc = "pop" => queue # <<>>
  /\ imported \subseteq ToSet(walked)
  /\ \A i \in DOMAIN walked : Opens(walked[i])

(* No spelling is walked twice, however often it is imported.              *)
SpellingWalkedOnce == IsInjective(walked)

(* When Parse succeeds, the file it was called with was walked first, and  *)
(* every import of a walked file was walked, in cycles and diamonds too.   *)
AllImportsWalked ==
  pc = "done" =>
    /\ walked[1] = Root
    /\ \A i \in DOMAIN walked : ToSet(ImportsOf(walked[i])) \subseteq ToSet(walked)

(* "if root is not defined, only relative imports are allowed": without a  *)
(* root no file is walked that an import names by an absolute path, and in *)
(* no case a file outside of the root.                                     *)
StaysInRoot ==
  \A i \in DOMAIN walked :
    /\ OpenAllowed(walked[i])
    /\ i > 1 /\ IsAbs(walked[i]) => allowAbsoluteImport

(* Parse ends, whatever cycles the imports have: the spellings that can    *)
(* arise are finitely many.                                                *)
ParseEnds == <>(pc \in {"done", "error"})

(* TestDuplicateImport (pkg/parse/Parser_test.go): importing a file twice  *)
(* gives the module that importing it once gives.  No file is walked into  *)
(* the module a second time.                                               *)
FileWalkedOnce ==
  \A i, j \in DOMAIN walked : FileOf(walked[i]) = FileOf(walked[j]) => i = j

---------------------------------------------------------------------------
(* The inductive invariant behind SpellingWalkedOnce, AllImportsWalked and *)
(* StaysInRoot.                                                            *)

(* Where Parse is: what it parses next was not walked, and is allowed.     *)
AtParse ==
  pc = "parse" =>
    /\ source \notin imported
    /\ imported = ToSet(walked)
    /\ walked = <<>> => source = Root
    /\ walked # <<>> /\ IsAbs(source) => allowAbsoluteImport

AtPop == pc = "pop" => queue # <<>> /\ walked # <<>> /\ imported = ToSet(walked)

AtDone == pc = "done" => queue = <<>> /\ walked # <<>>

RootFirst == walked # <<>> => walked[1] = Root

(* An import of a walked file was walked, is queued, or is parsed next.    *)
Awaited(name) ==
  \/ name \in ToSet(walked)
  \/ name \in ToSet(queue)
  \/ pc = "parse" /\ name = source

ImportsAwaited ==
  pc # "error" =>
    \A i \in DOMAIN walked : \A name \in ToSet(ImportsOf(walked[i])) : Awaited(name)

IInv ==
  /\ imports \in Projects
  /\ pc \in {"parse", "pop", "done", "error"}
  /\ AtParse
  /\ AtPop
  /\ AtDone
  /\ RootFirst
  /\ ImportsAwaited
  /\ SpellingWalkedOnce
  /\ \A i \in DOMAIN walked : Opens(walked[i])
  /\ StaysInRoot
============================================================================
