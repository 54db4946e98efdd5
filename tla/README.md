# A TLA+ verification of Sysl

Sysl is a language for describing systems, and a set of tools over it: a parser
that merges files, local and remote, into one module, generators of diagrams,
code and database scripts, importers and exporters, and a language server.
This directory holds TLA+ modules that model the parts of the tools whose
correctness depends on order, sharing, failure or recursion, the TLC runs that
check them on small instances, and proofs, checked by TLAPS, of what holds for
every instance. Paths below are relative to the repository; `jsonrpc2/` is
`pkg/lspimpl/lspframework/jsonrpc2/` and `lsp/` its neighbour.

`PROJECT.json` lists, machine-readably, the components, the runs, which lines
every definition stands for (`map`), the disagreements between code and
documentation that the runs exhibit (`findings`), what is hard to test in the
code and where (`hazards`), and the theorems.

## 1. The system

| Component | Where | State | Operations |
|---|---|---|---|
| Module cache | `pkg/mod/{fs,module,github}.go` | `~/.sysl/github.com/<owner>/<repo>@<version>/...`, the list `modules` of a process | `OpenWithModule`, `Retrieve`, `Load`, `Find`, `Get`, `writeFile` |
| go mod mode | `pkg/mod/gomodules.go` | `go.mod`, the go command's cache | `go get`, `go list` |
| Import loop | `pkg/parse/parse.go`, `EnterImport_stmt`, `pkg/syslutil/chroot_fs.go` | queue of imports, `imported`, the current file | `Parse` |
| Lexer | `pkg/grammar/lexer_impl.go`, the actions in `sysl_lexer.go` | stack of indentations, pending tokens, flags, a global map of states | `getNextToken`, `ls`, `DeleteLexerState` |
| Grammar | `pkg/grammar/sysl_parser.go`, `syslparser_listener.go` | the parse tree | one function for each rule |
| Module builder | `pkg/parse/listener_impl.go` | the module, stacks of scopes, types, endpoints and expressions | one callback for each end of each rule |
| Post-processing | `postProcess`, `linter.go` | the finished module, the linter's graph | mixins, type inference, publishers |
| JSON-RPC connection | `jsonrpc2/jsonrpc2.go`, `stream.go`, `lsp/protocol/{protocol,tsserver}.go` | `handling`, `pending`, the state of each request, chained channels | `Run`, `Reply`, `Parallel`, `Call`, `Cancel`, `Notify` |
| Network server | `jsonrpc2/serve.go` | clients in service, idle timer | `Serve` |
| Language server | `pkg/lspimpl/*.go` | life cycle state | `initialize`, ..., `exit`, `didOpen`, `didSave` |
| Sequence diagrams | `pkg/cmdutils/{visitor,writer}.go` | blackboxes, `visited`, indentation, active participants | the visitor's methods |
| Integration diagrams | `pkg/integrationdiagram` | seed and final applications, dependencies | `MakeBuilderfromStmt` |
| Data model, mermaid diagrams | `pkg/datamodeldiagram`, `pkg/mermaid` | what was drawn | renderers |
| Evaluation | `pkg/eval` | scopes | expression strategies |
| Importers, exporters | `pkg/importer`, `pkg/exporter` | none between documents | conversions |
| Database scripts | `pkg/database` | tables done | create and modify scripts |
| Code generation | `pkg/ebnfparser`, `pkg/validate`, `cmd/sysl` | none | recursion over a grammar |
| Commands, loader | `cmd/sysl`, `cmd/sysllsp`, `pkg/loader` | root of the project | one call of a part above |

How they interact. A command loads a project (`pkg/loader` finds its root) and
calls `Parse`; `Parse` opens each file through `mod.Fs`, which tries the
confined local file system and then `Retrieve`; the text goes through the lexer
and the generated parser to the listener, which appends to the queue that
`Parse` reads, and to the module. The finished module is read only: diagrams,
generators and evaluation walk it. The language server runs `Conn.Run` on
standard input and output (or, through `Serve`, on one connection per client),
one goroutine per request.

Several processes share the module cache without a lock. Inside one process
only the language server is concurrent.

### What is hard, and what makes each part right

- Module cache: two requests to GitHub that are not atomic, a branch that moves,
  processes that test, truncate, write and read the same file, and that may be
  killed between any two steps. Right means: what is kept and read under a
  version is that version's.
- Import loop: cycles, diamonds, several spellings of a file, relative and
  absolute names, a root that must not be left. Right means: it ends, every
  import is walked, nothing twice, nothing outside.
- JSON-RPC connection: handlers that overtake each other, call back, are
  cancelled while they wait, run or answer; replies that cannot be written; a
  reader that must never block. Right means: order of arrival, exactly one answer
  to each call whose reply can be sent, nobody waits for ever.
- Network server: a timer whose tick survives `Stop`, a select loop that picks
  any ready channel. Right means: clients are counted and served, and it
  returns when, and only when, there have been none.
- Sequence diagrams: calls in cycles, blocks and sections that open and close
  what others count on. Right means: balanced indentation and activations, and
  exactly what the entry reaches is drawn.
- Lexer: which block a line is in depends on a flag and a count that some twenty
  actions of lexer rules keep, in two modes, and on a state that may have been
  another lexer's. Right means: the blocks the parser sees are those of the text,
  they balance, and no file knows of another.
- Module builder: a callback finds on a stack what another one, many rules away,
  has left there; nothing tests it, and nothing recovers from the panic. Right
  means: the stacks follow the rules that are open, what is built goes to the
  type, endpoint or expression it stands in, and a file the parser takes does
  not end the process.
- Language server: a life cycle tested and set in two critical sections.
  Post-processing: the module does not depend on the order of definitions, nor
  on the names of applications. Integration diagrams: the walk ends, and draws
  what the seed applications depend on. Database: tables come after the tables
  they refer to.

## 2. The modules

| Module | Models | Extended by |
|---|---|---|
| `ModuleCache` | GitHub mode of the module cache, several processes | `MCModuleCache`, `ModuleCacheProofs` |
| `RpcService` | what a connection promises: an abstract specification | instantiated by `JsonRpcConn` |
| `JsonRpcConn` | one end of a connection with the server's two handlers | `JsonRpcConnProofs` |
| `LspServe` | `Serve` | `LspServeProofs` |
| `ImportPaths` | spelling, cleaning and confinement of file names | `ImportLoop` |
| `ImportLoop` | `Parse` up to the last import | `MCImportLoop`, `ImportLoopProofs` |
| `SequenceDiagram` | the visitor on the writer | `MCSequenceDiagram`, `SequenceDiagramProofs` |
| `LexerIndent` | `getNextToken`, the lexer's actions, the map of states | `LexerIndentProofs` |
| `SyslGrammar` | the parse trees, as the words of each rule | `SyslWalk` |
| `TreeShapeListener` | the listener's state and its callbacks for everything but views | `ExprListener` |
| `ExprListener` | its callbacks for views and expressions | `SyslWalk` |
| `SyslWalk` | the walk over a tree, which composes the three | `MCSyslWalk`, `ListenerTerms` |
| `ListenerTerms` | nothing: the terms of the proofs about the walk | `ListenerProofs`, which `SyslWalkProofs` extends |

A module named `MC...` gives the constants of its component small values for
TLC; `JsonRpcConn`, `LspServe` and `LexerIndent` take their values in the configuration. A definition named
`Mut...` is a wrong variant of the definition that follows it, of the kind a
slip in the code would be (a missing guard, a count that is not taken back, an
unbuffered channel). No action uses it; put in the place of the right one, it
makes TLC violate a property, which shows that the property is about the code
and not about the shape of the model. `PROJECT.json` pairs them.

### ModuleCache

A process goes through `Request` (`fetchRemoteFile`), `Retrieve` (with `Load`
and `Find`), `GetContents`, `GetRef`, `FileExists`, `MkdirAll`, `Create`,
`Write`, `Open`, `Read`: a step for each call that leaves the process, because
other processes run in between. `RemoteFail`, `WriteFail` and `OpenFail` are the
error returns and `Restart` a process that is killed, or ends, at any of these
steps; the error returns of `MkdirAll` and of `os.Create` (`github.go:187-192`),
after which the process has no more to do with the file either, are seen only as
`Restart`s. `Push` moves master. A commit stands for its content and for the
pseudo-version made from its hash, so "the content of this version" can be
stated: `disk[v][f]` is the commit whose content the file holds, or `Torn`.
`Overwrite` is what a file holds when somebody wrote between this process's
truncation and its write. `abandoned` is a history variable: the files whose
writer stopped inside the write.

An import from another repository shares nothing with the modelled one but the
listing of the modules, which the first `Retrieve` of a process loads:
`RetrieveOther`.

Left out: the names of paths inside one, the access token, the go mod mode, and
refs that are neither tags nor master (a branch or a commit named in an import).

### JsonRpcConn

`RunRequest`, `RunResponse`, `RunDeliver` and `RunExit` are the loop of
`Conn.Run`; between the lookup of a call under its mutex and the send of its
response the caller may leave, so these are two steps. `Begin` to
`DeferredParallel` are the goroutine of a request: the wait for its
predecessor, delivery through `Canceller` and `serverHandler`, the handler's
own `Parallel`, `Reply` and calls (each may happen or not, handlers are
the environment), and the deferred function in its order. A reply is two steps:
mark and unlock, then marshal and write. The second fails silently under a
cancelled context (`Written`), and may fail at any time (`NotSent`, in
`ReplyWrite` and in `DetachedReply`): the response cannot be marshalled or the
stream does not take it, `Reply` returns an error that its callers log or drop, the
request stays replied and `Run` reads on, as the TODO at `jsonrpc2.go:274` says.
`failed` is a history variable: the calls this happened to. `CallRegister` to `CallReturn` are `Conn.Call`.
The peer sends at will, up to `MaxInbox` messages in flight.

Assumed of the peer: it uses an id once and answers a call at most once.

`RpcService` says what all this is for, without goroutines, channels or
messages: a request arrives, starts when all before it have given way, gives way
(by `Parallel`, by its answer or by its end), and is answered at most once and not
before it started. `JsonRpcConn` implements it (`ServesInOrder`): the phase of a
request is read off `state` and, while that is "waiting", off `stage`; calls made
on this end, cancellations and messages in flight are invisible.

### LspServe

`Accept` and `NewConn` are the two ends of the unbuffered `newConns`;
`StreamEnd` and `ClosedConn` those of `closedConns`. The timer has the
semantics of the Go version the repository names (1.13): `tick` is its channel
of capacity one, and `Stop` and `Reset` leave a tick in it. So the model has the
behaviour in which a client connects just when the timer has fired and `Serve`
takes the tick and gives up as idle with the client in service (`serve.go:96-106`),
although `serve.go:47-49` says that it exits when there are none.
`TimerTracksIdleness` leaves room for it.

### ImportPaths and ImportLoop

A name is a sequence of path elements. `Spell` joins an import to the
directory of the importing file without cleaning it; `FileOf` is the file that
`ChrootFs` opens for the spelling. `Pop` is one round of the inner loop,
`ParseSource` one of the outer. The grammar, the listener's other work and
foreign formats are one nondeterministic step: it works, or `ParseFail`. What is
mapped to the suffix `.sysl`, or carries a version, is part of an element.

### SequenceDiagram

The visitor's recursion is `stack`; a statement is a step. The statements of an
endpoint are flat, with `open`, `else` and `close` for blocks, so the recursion
over blocks is a position. `NextEntry` is a round of
`visitEndpointCollection`, `VisitEndpoint` is `visitEndpoint` up to the first
statement, or the whole of it when the callee is not followed. `Releases` is the
deactivation before a last call. Labels, notes, group boxes and the visit counts
of blackboxes are left out. `expanded` is a history variable.

### LexerIndent

A process reads one file after another. The tokens of a line are chosen one by
one, in every order that the lexer's rules can match in, each with its action
(`NewLine` to `EndOfFile`); `KeepsOrReturns` is what `getNextToken` does with a
token, and `Indent`, `Dedent`, `Returns` and `Poll` are its loop, a pass at a
time, and the queue it leaves. `NextFile` makes the next lexer: it may lie where
one before it lay, and finds the state of that one if nobody deleted it, which
`parseString` does and the language server's `diagnoseRaw` does not. `column`,
`line` and `seen` are history variables that say what the text of the file is;
`depth` is what the parser has seen of its blocks.

What the model makes plain, and the properties state as they are:

- The blanks of a file's first line do not count, since no end of a line was met.
- `E_DOT_NAME_NL` takes the end of the line with the last name of an expression
  and leaves `spaces` alone: a line in the first column after it stays in the
  block of the line before (`LinesInTheirBlock` excepts it).
- In the language server the blocks are never left over, since the end of a file
  closes them all, but `noMoreImports`, `gotView` and `parens` are: a lexer that
  finds them takes an `import` at the head of its document for a name.
  `NothingLeftOver` therefore promises the flags only where states are deleted.
- `gotView` without a body (blanks or a comment after the head of a view) does
  not push the mode for views until the next end of a line.

### SyslGrammar

A rule of the grammar is the set of the words its function in `sysl_parser.go`
accepts: the children that a node of it has. `map` gives for each the whole block
that is generated for the rule: the node's accessors, which say what children
there are, its dispatch to the listener, and the function. A token is in a word
only where a callback asks for it, and a word says nothing of names, numbers and
punctuation. `Plain` chooses for each rule a word of a lowest tree; that there is one
for every rule is the assumption `EveryRuleEnds`, which TLC evaluates.

### TreeShapeListener, ExprListener and SyslWalk

The callbacks are functions from the listener's state to its state, one for each
method of `listener_impl.go` that moves a stack, or may fail on what it finds
there. The state keeps the shape of the stacks and not the data: of a scope the
kind of its object, whether its attributes exist and what its last statement is; of
a type its kind and its map of fields, as a number; of an expression its kind. Maps are
numbered because the listener aliases them: `typemap` is the map of some type or of
no type, and `fieldname` has names of several maps. A callback that fails leaves
`panic` with its name: in Go it is a nil map, a nil pointer, a failed assertion, an
index out of range or a `panic`, and nothing between the listener and `main`
recovers.

`SyslWalk` walks a tree as antlr's walker does, `EnterRule` and `ExitRule` for each
node, and chooses the tree on the way: the words of a node are chosen when it is
entered, so all trees of the bound are walked. The stack `open` keeps of each open rule
the children that are still to be walked. `Parse` walks each tree twice,
with a new listener and with the one it keeps for all files; the walk of the second
file starts in the state in which the first has left it, which
`ScopesMirrorRules` to `ExprsLeaveOneValue` say is the initial one but for the
applications, `fieldname` and `typemap`. These are carried in the same way from
one application of a file to the next, and a tree of the run has up to two.

A set or a sequence with attributes replaces whatever is on top of the scopes when
it closes. `ScopesMirrorRules` is exact about what that can be: an entry is its
rule's own everywhere but in the seven rules of `Displaced`, which are the field or
alias itself and what is around a field, a parameter or an alias that has pushed no
scope. There the entry may be the closed element's, and what the rule adds later goes
to it: `AnnotationsGoToTheirType`, which the code breaks.

`PanicsOnlyKnown` names the callbacks that do fail on files the parser takes.
Each is a way to end `sysl` with a stack trace instead of a message. (The language
server's diagnosis builds the tree and does not walk it; the debugger of views
walks expressions, and recovers.)

| Callback | A file that makes it fail |
|---|---|
| `peekAttrs` | an annotation, as a statement, inside of an if, a loop or a group |
| `EnterAnnotation` | one in an event or a subscription that has no attributes |
| `ExitStatements` | attributes on a first statement that adds none, as an annotation |
| `EnterText_stmt` | a doc string in a block inside of a REST method |
| `EnterField`, `ExitField` | a field, or an array, after a table or a tuple inside of a `!table` |
| `applyAnnotations` | annotations of a table that has a tuple inside, or of a union after a path variable with a reference |
| `EnterUnion` | a union in an application without other types |
| `EnterUser_defined_type` | a union after a path variable with a reference |
| `popScope`, `addToCurrentScope`, `lastStatement` | a set or a sequence with attributes where no scope was pushed for it: the scope around it is lost |
| `makeConstraint` | a size on a native type that has none, as `bool(5)` |
| `EnterInplace_tuple`, `EnterParam` | a tuple among parameters |
| `ExitParams` | a parameter that is a set of a native type |
| `EnterHttp_path_var_with_type` | a path variable with a reference after a type or a list of parameters |
| `EnterModel_name` | a second facade in an application |
| `EnterSubscribe` | a subscription to an application that is known and has no endpoints |
| `ExitView` | an abstract view without a type to return |
| `ExitTemplate_expression`, `ExitTemplate_statement`, `ExitExpr_..._assign`, `..._statement` | a template expression with no operand or with three |

All other callbacks find what they look for: the run shows it for the trees of its
bound, the theorem `PanicsAreKnown` for all.

## 3. The runs

| Run | Instance | Shows |
|---|---|---|
| `module_cache` | 2 processes, 1 file, 1 tag, 2 commits | `TagFilesExact`, `PseudoVersionNotNewer`, `TornTagFileHasWriter`, `ImportServesItsVersion` |
| `jsonrpc_conn` | 2 calls, one with a cancellation, 1 call of this end, 2 messages in flight, any reply may fail | `SerialUntilParallel`, `AnsweredOnce`, `CancelReachesCall`, `RunNeverBlocks`; `CallsAnswered`, `OutCallsReturn`; the refinement `ServesInOrder` |
| `lsp_serve` | 3 clients | `CountsClients`, `TimerTracksIdleness`; `IdleServerReturns`, `DialledClientsServed` |
| `import_loop` | 3 files in 2 directories and one outside, every combination of up to 2, 1 and 2 imports under relative, absolute and dotted spellings | `SpellingWalkedOnce`, `AllImportsWalked`, `StaysInRoot`; `ParseEnds` |
| `sequence_diagram` | 3 endpoints of 2 applications (one suppressed), every body of up to two statements and blocks, one or two entries, with and without a blackbox | `NoneOpenTwice`, `IndentBalanced`, `OnlyLiveActive`, `LifelinesClosed`, `SectionDrawsReachable`; `WalkEnds` |
| `lexer_indent` | 3 columns, one parenthesis too many or too few, any number of lines and files | `LevelsIncrease`, `BlocksBalance`, `LinesInTheirBlock`, `NothingLeftOver` |
| `sysl_walk` | every rule with up to 2 children of a repetition, 3 nodes in a tree that differ from the plain ones | `ScopesMirrorRules`, `PathsMirrorRules`, `FieldsGoToTheirType`, `ExprsLeaveOneValue`, `PanicsOnlyKnown` |

Each but `lexer_indent`, where the types are part of the proved invariant, also
checks its `TypeOK`. Deadlock is checked in the two runs of
`ModuleCache` and in that of `LexerIndent`, which always has a next token or file;
the other systems end: the parser, the walk and the diagram when they are done, a connection and a server when the stream or the server is closed.

The bounds. `ModuleCache`: every hazard needs two processes at most (a writer
and another writer or reader) and one file; two commits give an old and a new
content, and the tag names the old one so that tag and master differ. The tests
in the code compare one version with one file, so more of either adds no case.
`JsonRpcConn`: a predecessor and a successor, a cancellation between them or
after, and a call back are three requests and a response; two in flight are
enough to reorder arrival against the goroutines. `LspServe`: one client leaves,
one is served and one waits. `ImportLoop`: a cycle, a diamond and an alias need
three files. `SequenceDiagram`: direct, mutual and in-application recursion,
with the outer expansion inside a block, need three endpoints. `LexerIndent`:
three columns are what it takes to dedent past one block into the middle of
another; the state does not grow with the text, so the run covers files of any
length. `SyslWalk`: a plain tree is the shortest way to say a rule, and each
failure above needs one to three choices besides: a rule, its option, and what
stands before it. Two children of a repetition give one that comes after another.

Five runs exhibit a disagreement; each checks one property and TLC finds it
violated by behaviour the code has. `PROJECT.json` quotes the text in `findings`.

- `module_cache_find`: `Find` takes a cached version without the file for a hit;
  the import fails although GitHub has the file.
- `jsonrpc_conn_cancel`: a call cancelled while it is handled gets no answer.
- `import_loop_alias`: a file imported under two spellings is walked twice.
- `sequence_diagram_entries`: only the first entry of a diagram is expanded.
- `sysl_walk_annotations`: with two children of a repetition and only the rules of types
  branching, up to five nodes that are not plain ones: a `!type` with a field
  `x <: set of int [~a]`, then an annotation; the annotation goes to the field.

What passes beside them is exact about the same code: `SpellingWalkedOnce`
beside `FileWalkedOnce`, `AnsweredOnce` beside `CancelledCallsAnswered`,
`ScopesMirrorRules` beside `AnnotationsGoToTheirType`. `AnsweredOnce` and `CallsAnswered` do not promise the
answer of a call that is cancelled or whose reply fails; they promise that no other
call goes without, and that neither is answered twice or holds up those after it.

### Fairness

- `JsonRpcConn`: weak fairness of `RunLoop`, of each request's goroutine and of
  each caller. Go schedules runnable goroutines, handlers are assumed to
  return, and the peer to answer what it is asked (`PeerResponse`). Nothing is
  assumed of what the peer sends, of cancellations, or of the choices of handlers.
  With `RunExit` unfair, the stream may last; when it ends, the liveness
  properties promise nothing, since the code does not either.
- `LspServe`: weak fairness of the select loop, of `Accept` and of the timer.
  `ClosedConn` is fair for each client on its own, since Go's select chooses
  among ready channels at random. Clients need neither come nor leave.
- `ImportLoop`, `SequenceDiagram`: one goroutine that waits for nothing, weak
  fairness of `Next`.
- `LexerIndent` and `SyslWalk` have no liveness property: the loop of
  `getNextToken` ends because the open blocks increase (`LevelsIncrease`), and a
  walk ends with its tree, which the bound makes finite.
- `ModuleCache` has no liveness property: nothing but the network and the user
  drives a fetch.

## 4. The proofs

All are checked by TLAPS for every value of the constants that satisfies the
named assumptions of the modules. These say that the sentinels are not
versions, requests, clients, contents or endpoints, that tags name commits, that what
can be cancelled is a call, that the clients are finitely many, that a project gives
each file a sequence of imports (`CacheAssumption`, `ConnAssumption`,
`ServeAssumption`, `ProjectsAssumption`); that columns and the depth of parentheses
are numbers (`ColumnsAssumption`); that the blocks of an endpoint's body nest,
since the body is a tree of statements that is written out flat
(`DiagramAssumption`); that a repetition of the grammar may have a child
(`RepsAssumption`), that every rule has a tree that ends (`EveryRuleEnds`), and that the
rules with a choice are rules of the grammar (`OpenAssumption`). TLC evaluates each of them in
the runs.

- `ModuleCacheProofs`. `CacheInvariant`: `IInv` is inductive. The properties are not
  inductive on their own: that a tag's directory holds the tag's content
  depends on what a process carries from `GetContents` to `Write`. `IInv` says
  what a process knows at each call: `Asking`, `Naming`, `Writing` and
  `Reading`. In `Writing`, the content fetched for a pseudo-version is at most
  that commit; this rests on master only growing between the two requests.
  `TypeCorrect`, `CacheHoldsItsVersions` and `ImportsServeTheirVersion` follow; the last
  is an action property and also uses that nothing on disk is from the future.
  `TornFilesHaveWriters` needs a second invariant, `TornInv`: a file somebody
  is writing exists, so a whole file is made torn only by a truncation, whose
  writer is then inside its write.
- `JsonRpcConnProofs`. `Invariance`: `IInv` of `JsonRpcConn` is inductive. Neither
  order nor single answers are inductive on their own. `StageFits` and
  `AnswerFits` relate where a goroutine is to the state of its request and to
  what was written: the answer is missing until the write, so each of the three
  writers finds none, and after it the call has its answer, is cancelled or is in
  `failed`. `Arrivals` says that Run gets a request once, so the request
  before it in `arrived` is the one whose channel it waits on; with
  `SerialUntilParallel` for that request, all earlier ones have given way
  (`MayRunFacts`). `CallersWait` keeps the return of a call from moving another
  handler. `OneResponse` follows a response from the peer to the caller: it is in
  one place only, so the channel has room when Run holds it (`RunNeverBlocks`).
  `HandlingFits` is what `CancelReachesCall` needs at the arrival of a cancellation.
  `StepOfOne` is the one argument for all steps of a goroutine. `Refinement` maps
  each step to a step of `RpcService` or to none.
- `LspServeProofs`. `ServeTracksClients`: count, timer and types together; the count
  needs the cardinalities of finite sets, and that an offered connection is
  not in service yet.
- `ImportLoopProofs`. `ImportsWalkedOnce` and `ImportsStayInRoot`. The
  strengthening is `ImportsAwaited`: an import of a walked file was walked, is
  queued, or is the file that is parsed next. Together with the empty queue at
  the end it gives `AllImportsWalked`. `TypeCorrect` adds that no file counts as
  imported that was not walked, after the end too. What `Spell` and `FileOf` compute is
  not looked into: the theorems hold for every spelling function.
- `LexerIndentProofs`. `SpecIInv`: `IInv` is inductive, for any columns, any depth of
  parentheses and any sequence of files. That a line is in the block of its
  column (`LinesInTheirBlock`) rests on where the lexer is in the line: `Positions`
  says that the loop runs for the first token of a line and for no other,
  `Spaces` that `spaces` is the column until then, `Blocks` that the innermost
  block has that column when the loop has ended. `EofLast` and `FirstLine` give
  `NothingLeftOver`: the end of the file is the last token of the queue, and it is
  queued only when all blocks are closed. `Increasing` is `LevelsIncrease`.
  `BlocksBalance` has an invariant of its own, `Balanced`: the blocks the parser has
  open, with the tokens that wait, are as many as `level` has; the queue closes no more
  than are open, and opens at most one, since the loop is over when it does. A queue is
  counted by the set of positions of a token (`OneMoreWaits`, `OneLessWaits`), so this
  needs no induction over the queue.
- `SequenceDiagramProofs`. `Invariance`: `IInv` is inductive, for any applications,
  endpoints, bodies, entries and blackboxes. `OpenOnce` says that an endpoint of the
  stack is `visited` and on the stack once (`NoEndpointOpenTwice`);
  `WithinBodies` and `BlocksNest` that no frame is past its body and that the stack,
  however deep it is cut, has closed no more blocks than it has opened, so that no
  `Unindent` goes below zero (`IndentFollowsStack`; the blocks a stack is inside of
  are counted by the marks its frames are past, and `PassedByTop` moves one statement
  of the top frame);
  the activations are the frames that activated (`ActiveOnlyWhileLive`,
  `LifelinesAreClosed`). `ExpandedIsReached`, `CallsAwaited` and `EntryExpanded`
  give `SectionIsComplete`: whatever was expanded is reached from the entry, every
  followed call of what was expanded is expanded or still ahead of a frame, and at the
  end no frame is left, so that what was expanded is closed under calls: exactly
  what is reachable, which is the least such set.
- `ListenerProofs`. What needs no behaviour. For each callback of the listener, in
  whatever state it is called: the state keeps its type, and each stack keeps its
  shape, gets an entry or loses one (`SameScope`, `PushedScope`, `PoppedScope` and
  their like for types and paths), unless the callback fails; then the same by
  rule (`EnterEffect`, `ExitEffect`), and which parts of the state the callback of a
  rule may touch at all (`EnteredTouches`, `ExitedTouches`). For the grammar, the
  symbols of the words of each rule (`Alphabet`, `InAlphabet`), found from the
  operators that make the words and so for any number of repetitions; from it, which
  rules may stand in which (`DeepRules`, `MildRules`, `BodyParents`). The operators in
  which all this is said are in `ListenerTerms`.
- `SyslWalkProofs`. For every tree of the grammar, whatever `Reps`, `Open` and
  `Detours` are. First `IInv`: `RestsFit` and `Nesting`, that the rules which push
  a path or a method are not open inside of each other but as the grammar says;
  `PathFirst`, that nothing of a REST endpoint is walked before its path, so that
  `PathAhead` tells when the prefix of the URL is one behind; `FieldBegun`, that a
  field is entered in the step before; and `Mirror`, that each stack has an entry for
  each open rule that pushes one, and that the parameters of an inner path lie on those
  of the outer ones (`ParamsNest`), so that the exit of an endpoint cuts off its own
  and no more. Theorems: `TypeCorrect`, `FieldsStayInTheirType` and
  `PathsAreTheOpenOnes`. None of them is inductive: a callback pops what it
  finds on the top, and only the order of the open rules says that this is what
  its own rule has put there. Of the scopes `IInv` has `ScopesInPlace`, one entry for
  each open rule that pushes one, its own or an element type's;
  `ScopesAreTheOpenOnes`, which says in which rules it can be the latter, needs
  `ScopesFound` below as well: no set or sequence is inside of the other rules (`Firm`,
  `FirmTree`).
- The stack of expressions, in the same two modules. For each callback,
  `ListenerProofs` says by how much it moves the stack (`Quiet`, `Shifts`) and that
  transforms stay below everything else (`Stacked`, `Settles`). `SyslWalkProofs`
  then counts: each rule of `Gainers` leaves one value, `Gained` is how many the
  children of a word leave, and `GainedIsTaken` finds, word by word, that this is what
  the Exit callback takes (`Took`), beside what the Enter callback put there (`Put`). The
  invariant `EInv`, on top of `IInv`, has three parts. `Heights` is for rules inside of
  an expression: the height at which a rule was entered is that of the rule
  around it plus what that one has put and will take, less what its children still to
  come leave (`Pending`). `Skeleton` is what the grammar says of the way from the
  file to the block of a view. `Bodies` is for the statements of a view, where
  callbacks find the transform they belong to by looking at the top: there are at
  most as many transforms on the stack as are open, or one more when the last
  assignment is complete (`Bound`), between two statements there is nothing else
  (`Clean`), and a block that has its transform is not empty (`BlockDone`), so that
  exactly one value is left for `ExitView`. Theorem: `ExprsLeaveOne`. A count by
  itself is not inductive: what a statement leaves depends on whether the value of its
  assignment is a transform, and a value of the wrong kind makes the next callback
  panic, after which nothing is claimed.
- The panics, on top of both. `PanicsOnlyKnown` speaks of the moment at which the
  listener stops, so what is inductive is what the callbacks before it have left for
  the next one, while the listener is `Live`:
  `Walked` and `Parented`, that what is left of each open rule is the end of a word
  of the grammar and that each rule stands where it may, so that a callback knows
  what was walked before it; `FieldsFound`, that the rules of a type work on
  a field that is in the map they look into; `AppsFound`, that the current application
  has its map of types; `ScopesFound`, that the entries of the scope are those of
  the open rules *and* of the kind that what is inside looks for; `CallsFound`, that
  the last statement of a block is the one that a call, a part of a collector or a
  doc string is put into. `Pinning` says the same of `expr_stack`: an
  expression that an open rule has put there stays at the height where it was put, is
  of a kind the rule can use, and is taken by none of the rules inside (`Pins`), which
  needs the heights of `EInv`. For this `ExitKeeps` and `EnterKeeps` find, for each
  callback, down to which height it may look (`Need`, `Floor`) and that it leaves what
  is below alone (`Upto`). From `Provided`, which is all of these, each callback
  either goes on or fails by a name that `KnownPanics` has for a rule that is open
  (`Fine`; `EnterFine`, `ExitFine`, `EnterExprsFine`, `ExitExprsFine`). Theorem:
  `PanicsAreKnown`, for trees of any size and depth; the table of section 2 has a file
  for each of the panics it leaves.

Only model-checked, and why: the liveness properties (`CallsAnswered`,
`OutCallsReturn`, `IdleServerReturns`, `DialledClientsServed`, `ParseEnds`,
`WalkEnds`), since fairness and ENABLED are beyond the prover; what the folds in
`ImportPaths` compute, since it needs induction over data. Every safety invariant
and action property of a passing run is stated by a theorem.

## 5. What is not modelled

- Of the lexer: `inSqBrackets`, `blockTextLine` and `gotHTTPVerb`, which choose
  between kinds of tokens in one line, and which characters make a token.
- Of the grammar: how antlr predicts an alternative and how it recovers from a
  syntax error. Trees with errors never reach the listener, since `Parse`
  returns before it walks them. The expression rules are cut to one word for each
  number and kind of operands.
- Of the listener: what the built module says. The stack of application names,
  the parameters of URLs and queries, enumerations, the linter's records, and
  the panics that depend on names or numbers (a duplicate endpoint, a size that
  does not fit an integer, the patterns of a table without any) are left out.
- Post-processing: mixins, publishers and subscribers, the inference of types of
  views, and the linter.
- The language server's life cycle and documents (`initialize` tests and sets its
  state in two locked sections), the integration diagram, remote modules in go mod
  mode, database scripts and evaluation. They are planned below.
- Generated protobuf and protocol code, conversions of documents (importers,
  exporters, printer, templates) and telemetry: no state or interleaving of
  their own that the modules above do not have.

`PROJECT.json` names every part, and the hazards that no property covers.

## 6. Plan

In this order, the most important first:

1. Done: `ModuleCache`, `RpcService` and `JsonRpcConn`, `LspServe`, `ImportPaths`
   and `ImportLoop`, `SequenceDiagram`, `LexerIndent`, and `SyslGrammar`,
   `TreeShapeListener`, `ExprListener` and `SyslWalk`, with the proofs above.
2. A second abstract specification: a store in which a version has one content,
   implemented by `ModuleCache` as far as tags go, as a PROPERTY of its run and
   then as a theorem.
3. `RemoteImports`, which composes `ImportLoop` and `ModuleCache`: versions in
   spellings, relative imports inside remote files, one parse whose files come
   from several commits.
4. `LspSession`: the life cycle of the language server under the order of
   requests that `JsonRpcConn` gives it.
5. `PostProcess`: merging of applications, mixins and the linter; `IntsBuilder`:
   the integration diagram's walk; the order of tables in database scripts. The
   pure ones share one run that compares each with a reference definition.
6. Proofs: the refinement of step 2; what the walk of `IntsBuilder` draws; the life
   cycle.

## 7. Running

    tlc -workers 2 -config ModuleCache.cfg MCModuleCache
    tlapm ModuleCacheProofs.tla

The runs, their modules and configurations are in `PROJECT.json`. No run takes
longer than about two minutes on two cores.
