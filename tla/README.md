# A TLA+ model of codemap

codemap indexes the Go source of one repository, or of a workspace of sibling
modules, into a SQLite database, and answers questions about it from the
command line and as an MCP server.  Its central promise is that an agent can
trust an answer: before each call the server compares a fingerprint of the
source with the one recorded when the index was written, and rebuilds the index
if they differ (`mcp/server.go`: "results below reflect the latest code").
This directory models the machinery behind that promise, and what the answers
are computed by, checks it with TLC on small instances and proves the safety of
its core with TLAPS for instances of any size.

## The system

| component | state | operations | who calls it |
|---|---|---|---|
| `parse`, `extract`, `resolve` | none (a result in memory) | list packages, parse files, find symbols and edges; `FileContents` re-reads the parsed files | every rebuild |
| `store` (opening) | the schema of the database file | `Create`, `Open`, `ensureSchema` and its migrations, one statement at a time | every process that opens the file |
| `store` | the SQLite database: packages, symbols, edges, files, FTS tables, repos, meta keys, response chunks, contracts | `Write`, `WriteWorkspace`, `ReplaceRepo` (one transaction each), then `SetIndexedAt`, `SetRepoMetaWith`, `SetRepoIndexedAt`, `RecordSourceFingerprint`; `StaleReason`, `IsRepoStale`; queries | servers and commands, several processes at once |
| `store/fingerprint.go` | none | `hashSource`: a hash over go.mod and every .go file | the staleness checks and every rebuild |
| `mcp` | the open store, the served path, failed auto-indexes, notices, usage counts | `getStore` (check, rebuild, refuse), tool handlers, `gateResponse` | one JSON-RPC request at a time |
| `workspace` | codemap.yaml | `IndexAll`, `ReindexStale`, `ReindexRepo` | the command line, `getStore`, symbol writes |
| `contract` | contract, runtime-contract and drift rows, time of the last analysis | `ReanalyzeStaleContracts` | after every rebuild and on every workspace call |
| `query` | none | graph traversals, search, summaries; `ReplaceSymbolBody`, `InsertSymbol`, `DeleteSymbol`, `RenameSymbol` write files | tool handlers |
| `mcp/overflow.go`, `chunk` | stored response sections | store, prune to 4 MiB, read | `gateResponse`, `read_response_section` |
| `fuse`, `pattern`, `render`, `vcs`, `cmd/.../initcmd` | none | ranking, AST patterns, text, git, set-up | queries, commands |

Processes share nothing but the database file and the source tree.  Every index
write is one transaction; what follows it (index time, repository identity,
fingerprint) is not.  No lock covers a rebuild.  `PROJECT.json` lists every
component with what is modelled of it, and under `hazards` the places where
interleavings, crashes, partial failures and stale reads bite.

What makes the components correct:

* index freshness: an index the check would accept is of the source on disk; an
  answer is of the latest source; every call ends; the index settles;
* workspace: the same for each member, and one member's failure never costs
  another its rebuild;
* tables: a write leaves exactly the rows of what was parsed, each attributed to
  its own repo; response cache: a stored response is readable until it is
  evicted or the index changes, and the cap holds; contracts: the analysis shown
  is never older than the index, and its links and keys are really there; writes:
  no edit is lost, a rename is all or nothing; graph queries: each result equals
  its definition on the graph, and the readers of one table agree; schema: a
  database once open has everything the queries name, and no row is lost.

## Modules

| module | what it models | code |
|---|---|---|
| `IndexFreshness` | one database indexed from one or more checkouts by servers and `index` commands | `mcp/server.go` getStore to autoIndex, `store.StaleReason`, `hashSource`, `parse.FileContents`, `cmdIndex` |
| `MCIndexFreshness` | its instances | |
| `IndexFreshnessProofs` | its theorems | |
| `Workspace` | many members in one database: full index, walk, one-member rebuild | `workspace/index.go`, `store.IsRepoStale`, `ReplaceRepo`, `WriteWorkspace`, `refreshAfterWrite` |
| `MCWorkspace` | its instances | |
| `WorkspaceProofs` | its theorems | |
| `MemberIndex` | abstract: an index of several modules, written whole or one module at a time | |
| `IndexTables` | the tables row by row; implements `MemberIndex` | `store.Write`, `WriteWorkspace`, `ReplaceRepo`, `writeFiles`, `parse.RunWorkspace` |
| `IndexTablesProofs` | its theorems | |
| `Schema` | how a file comes to have the current schema | `store.Create`, `Open`, `ensureSchema`, the migrations |
| `SchemaProofs` | its theorems | |
| `MCIndexTables`, `MCSchema`, `MCDatabase` | their instances; the file from the first look at it to its last write | |
| `Chunks` | how a rendered response is split | `chunk/chunk.go` |
| `ResponseCache` | the gate, the stored responses and reading them back; uses `Chunks` | `mcp/overflow.go`, `store/store_response_chunks.go` |
| `MCResponseCache` | its instances | |
| `ResponseCacheProofs` | theorems about both | |
| `ContractFreshness` | when the contract analysis runs, against the rebuilds of several processes | `contract/runner.go`, `workspace/index.go`, `store.IsContractStale`, `WriteContractsAll` |
| `MCContractFreshness` | its instances | |
| `ContractFreshnessProofs` | its theorems | |
| `ContractRules` | what an analysis finds between repositories | `contract/contract.go`, `analyze.go`, `drift.go` |
| `RuntimeContracts` | what it finds in the text of one repository | `contract/runtime.go` |
| `ContractAnalysis` | one analysis: both, written together | `runner.RunAnalysis` |
| `SymbolWrites` | the tools that change source files, beside an editor | `query/write.go`, `query/rename.go`, `mcp/write_handlers.go` |
| `MCSymbolWrites` | its instances | |
| `SymbolWritesProofs` | its theorems | |
| `IndexQueries` | an index that stands still, and one question at a time | |
| `CallGraph` | callers, callees, paths, cycles, unused symbols, entry points, blast radius, affected tests | `query/query.go`, `query/affected.go` |
| `ImportGraph` | imports, importers, transitive imports, dependency flow, layers, hubs | `query/query.go`, `store.ImportFrontierBFS` |
| `ChangedSymbols` | what the working tree declares otherwise than a commit | `query/query.go`, `vcs/vcs.go` |
| `MCContractAnalysis`, `MCQueries`, `MCAnswers` | their instances, side by side in one run | |
| `AnswersProofs` | theorems about `ContractRules`, `ImportGraph` and `CallGraph` | |

### IndexFreshness

`src` is the tree of each checkout: a version number per file, 0 if absent.
`db` is the database: the source version each file's rows are of (`rows`), the
content table (`files`), the checkout they came from (`dir`, not stored by the
program: it says whose rows they are), and the meta keys.  A hash is the tree
itself.  `pc` and `job` are each process's position and local variables,
`backoff` the servers that remember a failed auto-index.

A call runs `Call`, `CheckMeta`, `Walk`, `HashFile`..., `CheckSource`, then
`Answer` or `AutoIndex`/`Refuse`; a rebuild runs `List`, `ParseFile`...,
`Create`, `ReadFile`..., `Write`, `SetIndexedAt`, `SetRepoMeta`, `Walk`,
`HashFile`..., `Record`.  Each reads or writes the disk or the database once, in
the order of the code; the command reads the files once more before it hashes
(`Reread`).  Files the parser rejects (`Broken`) have no rows.  `Fail` is an
error return before the commit ("early") or after it ("late"), `Crash` a kill.

Left out: churn, git head, counts, `indexed_via` and notices (no decision
depends on them); the contract pass that follows a rebuild (ContractFreshness); the
second `StaleReason` of `refreshSingleStale`, whose result only words a notice;
`reindex` of another directory.  The generated-code provenance key is written
and checked with the analyzer version, so `analyzer` stands for both.

### Workspace

`repos[m]` is a member's row in `repos` with the version its rows are of, the
analyzer that wrote them and its fingerprint; `analyzer` is the single
`analyzer_version` key.  A process in `ReindexStale` walks the members in the
order of their module paths: `MarkMissing`, or `CheckFails`/`CheckMeta`/
`CheckSource`, then if stale `Parse`, `ReplaceRepo`, `SetRepoIndexedAt`,
`RecordSourceFingerprint`; an error (`FailMember`) is noted and the walk goes
on.  `IndexAll` parses every member on disk, commits them together
(`WriteWorkspace`), then stamps and fingerprints each and marks the missing
ones.  `WriteSymbol` is a tool that edits a member's source and rebuilds it
without a check.

A member's source is ONE version read in one step, since what can happen within
one rebuild is IndexFreshness's subject.  "Rows" are symbols, edges and files
together: the cross-member edges that `ReplaceRepo` loses are a listed hazard.
Left out: churn and the failure to record it, errors of `SetRepoMissing`, a
config that fails to load.

### IndexTables

Where the other two take the rows of a member as one value, this module opens
the transaction.  `packages`, `symbols`, `edges` and `files` are sets of rows,
`text` the full-text index of the files, `registered` the repos table and
`mode` what the last full write was.  Each write computes what is parsed
(`ParsedModule`, or `ParsedOf` with its nested modules), clears rows by repo
(`Kept`), inserts under each table's unique key (`WritePackages`,
`WriteSymbols`, `WriteEdges`), then upserts files and deletes stale ones
(`WriteFiles`).  The attribution rules are separate in the code and so here:
packages by the module parsed (`NewPackages`), symbols and edges by any member
whose path is a prefix, in map order (`Owners`), files by the longest enclosing
directory (`Enclosing`).  The layout (`Module`, `Prefix`, `In`) is a constant,
so that nested modules are another value of it.

A package is one file with one declaration, and a version stands for its text;
`Line` says which versions move the declaration.  Left out: contracts,
diagnostics and churn, the ids that join the tables, other kinds of edges (they
are written like imports), the parser's fallback without the go tool.

`mode` is there because `Write` clears only unattributed rows and
`WriteWorkspace` only attributed ones.  A directory indexed alone and then given
a codemap.yaml uses one database for both, and keeps the rows of the first kind:
with `SwitchesMode = TRUE`, `RowsAttributed` and `KeepsPromise` fail.  The run
and the theorems set it to FALSE.

### Schema

`db` is the file: the version in `meta`, the tables and columns that migrations
add, the table `symbols` as the order of its columns with one row that stands
for all, `symbols_declkey` while it is being made, the indexes, the text index.
A cell holds the name of the column it was made for.  `opening` is where each
process is: a stage of `schemaSQL` or `ensureSchema`, and a statement of it.
`Look` is the question that comes before (tableExists, columnExists, the
version), `Execute` one statement, committed by itself, `Fails` a statement
SQLite refuses (the table is there, the index has duplicates, a NOT NULL column
gets NULL).  A server whose `Open` fails indexes anew (`Create`); `WriteIndex`
is the transaction that follows.  `torn` remembers that someone stopped inside
a stage of several statements.  `MCDatabase` puts `IndexTables` behind it: its
first write is of the file an index command has just made.

Five columns of `symbols` are told, and the plain indexes by the one on
`repo_id`; the symbols' text index and the diagnostics are left out.

### ResponseCache and Chunks

A text is a sequence of lines, each of a kind (all the splitter looks at) and
some bytes.  `Chunks` is every splitter: JSON by top-level keys, text by
headings and blocks, then by bytes, with small sections folded into their
neighbours; its loops are folds over the lines or the sections.  `chunks` is the table in rowid order, `generation` counts index
writes, `now` is the clock.  A call is `Render`, `GateStore` (the second
`getStore`, which may rebuild), `Save` (insert, prune to the cap, evicting by
the text of the timestamp, whose fraction has no fixed width), or `Find` and
`Read` of `read_response_section` in its three forms.  `Rebuild` and `Reindex`,
which empty the table, may fall between any two.  What an agent sees of the
manifest is left out.

`SizesAssumption` is what `overflow.go` relies on without a check: the header
of a section read back fits `readBackHeaderRoom`.  It does where titles are cut
to 80 bytes, as text sections' are; the titles of JSON sections are member names,
which the code does not cut, and those of codemap's own answers are short.
`ReadsBack` promises that what is read back keeps to the limit wherever the
limit has room for a header and a notice; below that only the content is dropped.

### ContractFreshness

`tree`, `symbols`, `recorded` and `missing` are those of `Workspace` in short;
`newer` are the members whose `indexed_at` is later than the analysis, `rows`
the contract tables.  A walk skips the members marked missing (`Call`), marks
those it finds gone (`MarkMissing`) and goes on past one that fails
(`FailMember`); only a full index takes the mark off (`WriteWorkspace`).  After
a write the time is taken (`TakeTime`), once for all members of a full index,
and then set member by member (`SetRepoIndexedAt`), each followed by its
fingerprint.  Clocks are not numbers: a process whose time was taken before
another's analysis was written is `late`, and what it sets is older than that
analysis, even where a later time stood.  A walk without a failed member ends
in `CheckContracts`, `ReadSymbols`, `ReadFiles` and `WriteContractsAll`, with
failures and deaths between any two steps (`Fail`).  What an analysis finds of
a pair is the versions it read.

`FreshIsCurrent` is what `IsContractStale` is worth: the rows of members whose
`indexed_at` is not later than the analysis are those of what is indexed, but
for four overlaps that the code really has.  A rebuild replaced the member after
the analysis had read it (`overtaken`, a history variable, until a later time is
set); it is between its commit and its time (`InFlight`); it was there when the
last analysis was written, which makes its time late, or failed there, which
leaves none (`crossed`).  `ContractsSettle` excepts the same members and the
missing ones, which no walk visits again.

### ContractRules, RuntimeContracts, ContractAnalysis

`declared` is what each package holds: message constants, structs with their
wire fields, lines that use a constant with the role their words hint at.
`Analyze` computes links, directions, severities, drift and suggested pairs as
the code does; where it iterates over a Go map, every order is an outcome (each
pair gets one of its `Verdicts`).  `Suppress` dismisses a pair.

`RuntimeContracts` takes files as lines of tokens: the registry and its merge,
call sites and their argument literals, regexes of config, switch clauses and
their owning switch, message constants, literal shapes.  The mark `//` begins a
comment: the scanners read `Code(line)`, in which only the mark is left of it,
the two passes with regexes read the whole line.  A regex of config has the form
of the built-in one: the word of a composite literal and fields; it takes the
first literal behind a field, wherever that stands (`Matches`).  The regexes of
a kind are joined and the first one's group is read (`ConfigLiteral`, and
`PatternContracts` for those of whole literals).  Left out: evidence texts,
timestamps, comments between `/*` and `*/`, other regexes.

### SymbolWrites

A file is a sequence of declarations (its place is the line the index
records), each with the symbols it declares, those it uses, and the edits it
carries.  A call is `Begin` (it has the index), `Decide` (it reads the file and
refuses or splices) or `Plan` for a rename, `Recheck`, `WriteFile` file by
file, `Reindex`; `WriteFails` stops a rename half way.  `Edit` is an editor's
save at any moment.  History variables say which edits came after a call's last
look at their file (`excused`), that a rename stopped (`torn`), that the call
decided on an older index (`unseen`), which symbols a rename gave an unexported
name although another package uses them (`hidden`).  `Visible` is Go's rule: a
package sees its own symbols and the exported ones of others; an editor only
saves, and a call only inserts, uses that are visible, so `CodeCompiles` blames
the tools for any other.

### IndexQueries, CallGraph, ImportGraph, ChangedSymbols

`index` does not change; `walk` is the question under way, or its answer.
`FindPath`, `DetectCycles`, `ImportFrontierBFS` and the layering loop are taken
a step at a time with rows in any order; the other queries are operators over
the index.  `ChangeStep` takes the files git lists one after another, then pairs
renames.  A name is a package, a receiver and an identifier.

`IndexQueriesAssumption` and `CallGraphAssumption` say which indexes the program
can write: references are unique per symbol and import rows per pair, rows are
finitely many and name packages of the index; an edge has one of the five stored
types and starts at a function, a method or a declaration, never at a method of
an interface; what `go test` runs begins with a capital letter, so it is
exported; `find_path` asks for a depth of at least one (its default is 10).
`TextOrder` lists the texts as `strings.Compare` orders them, each once.
`ChangedSymbolsAssumption` says which changes can be asked about: files,
packages and identifiers are texts, a file has finitely many declarations, and
what git does not track is on disk.

## Runs

All runs take the default two workers and finish within two or three minutes,
most of them within one.

| run | question | result |
|---|---|---|
| `freshness_quiet` | server and command over two checkouts in one database; sources change between runs; one early failure | holds |
| `freshness_faults` | failures after the commit and kills too, with contents never seen before; liveness | holds |
| `freshness_busy` | files shrink, change and vanish during a rebuild: searchable text, settling | holds |
| `edit_during_rebuild` | an edit between the two reads of one file | violated |
| `ws_quiet` | walk and full index interleaved, members vanish and return, one failure | holds |
| `ws_busy` | sources change under the walk, a member is added, every failure | holds |
| `database` | two processes open a missing, current or older file, one may be killed; then every order of single, full and one-member writes, over modules side by side | holds |
| `upgrade_moves_cells` | the rows of a database from before `is_generated`, opened by this program | violated |
| `responses` | two servers store, evict and read back responses of every shape while rebuilds empty the table | holds |
| `contracts` | two processes rebuild, stamp and analyse two linked members, with a failure, a death or a vanished checkout | holds |
| `writes` | every write tool beside an editor, a rename that fails between two files | holds |
| `answers` | the contract analysis repeated in every map order; every question of three families over all small indexes | holds |

Bounds.  Two Go files and go.mod, versions up to 2 (old, new; "revert" takes a
version back), two checkouts, one server and one command: two processes are
enough for every interleaving of two rebuilds, and every hazard concerns the
relation of one file's or one member's versions.  Two members are enough for one
to fail and another to be next.  One failure or kill per behaviour, anywhere; a
second would start from a state a first one reaches.  The tables take three
packages in two modules (an import and an implementation inside a module, one of
each across) and three versions, two that keep the declaration's line and one
that moves it; a batch of three holds them all.  The file is missing, current,
or as versions 2, 3 and 4 left it: each needs another set of the migrations.
Responses: a limit of 13 bytes, a header of 1, sections of at least 3 and a cap
of 36, against texts with short and long lines, blank lines, blocks and JSON, so
that each splitter runs, sections overflow, and the third response evicts; one
rebuild; the instants include the two whose texts sort the wrong way.
Contracts: two members, each of two versions, one link between them and one
within, two processes and one rare event (with `MaxRare = 2`, which a missing
member that returns takes, both hold too, in four minutes).  Writes: three files in two packages
with a test, a group in parentheses and one without, two uses on one line; one
edit and two calls, enough for a call whose index an earlier one left behind.
Answers: for the rules one package in a repository and two in another with up
to two names; texts of up to two statements, one nested in the other, comments,
wrapped clauses and a second regex of config among them; all
choices of seven edges between four functions (paths, depth up to 3), of nine
(cycles, a cap of 3), of nine in a program with an interface, a test and an
entry point; all choices of nine imports between four packages, and of six in
other spellings; all pairs of trees of two files with up to two declarations.
`Levels` cuts the layering at one level more than there are packages.

Deadlock is checked in `contracts`.  Elsewhere a state without successor is
legitimate: versions are bounded, a command ends, an answered question is over,
and with no server every index can be done.  The two parts of `database` and of
`answers` share no state but the place where one begins; each stands still
while the other is at work, so a run explores their sum.

The environment is a parameter, and each property is checked in the widest one
where the code keeps it.  The two violated runs show what lies outside, each
against a sentence of the code's comments (see `findings`).  Three more ways to
break `CurrentIndexIsFresh` have the same shape and no run of their own: a file
created during a rebuild (hashed when recorded, never parsed); a kill between
commit and fingerprint followed by a revert; and, for `NoStaleText`, the third
read of the command line and the early return of `deleteStaleFiles` on an empty
index.  `CurrentMemberIsFresh` breaks likewise when a member leaves
codemap.yaml, when two servers commit in the opposite order to that of their
fingerprints, and when a fingerprint write fails and the source is reverted.

Fairness: a process that has a step to take takes one (`WF(Step(p))`: nothing in
the code blocks but SQLite's busy timeout), the backoff window ends with time,
and agents keep calling (`WF(Call(p))`, `WF(ReindexStale(p))`).  Edits, faults,
commands and `reindex` calls have none.  `contracts` assumes the same of its
calls and their steps (`Fairness`), `database` of the statements of an opening
and of servers that are asked for the index (`SchemaFairness`), `answers` that a
loop with something to do does it.

## What the models refute

Sentences of the code the models do not bear out.  Each is an operator with the
comment "Against ..." or the source line it quotes; TLC finds it violated when
it is put into the configuration of its module's run, changed as the table says.
Two have runs of their own.

| operator (module) | the sentence | what happens |
|---|---|---|
| `CurrentIndexIsFresh` (run `edit_during_rebuild`) | `fingerprint.go:17`, `store.go:3826` | an edit between two reads of a file is hashed and not indexed |
| `CellsKept` (run `upgrade_moves_cells`) | `store.go:393` "All changes are additive" | rows are copied by position into a table whose columns are in another order |
| `NeverStuck` (`Schema`) | `store.go:381` "continue to open unchanged" | a kill after `CREATE TABLE symbols_declkey`, or a single-repository row whose NULL repo_id lands in `importance`: no process opens the file again |
| `IndexIsWritten` (`Schema`) | a committed write is the index | an index written while another process copies `symbols` is replaced by the older rows |
| `CurrentMemberIsFresh` with an "older" analyzer (`Workspace`) | `store.go:594` | a one-member rebuild records the analyzer version of the whole database (`store.go:1076`) |
| `ReturnedIsReindexed` (`Workspace`) | `workspace/index.go:180` | a member once marked missing is not visited again (`:198`) |
| `UnindexedIsIndexed` (`Workspace`) | `store.go:3214`, `:3243` | a NULL `indexed_at` is an error of the check (`:3218`), not staleness |
| `NestedIsItsOwn`, `RowsAttributed` (`IndexTables`, `Prefix` and `In` set to `Within`) | `store.go:1209` | rows of a module nested in a member outlive every workspace write |
| `TextOfSymbols` with `BatchSize = 2` (`IndexTables`) | `store.go:3444` | each batch of the DELETE removes the files of the others (`:3466`): a tree of more than 500 files |
| `RowsAttributed`, `KeepsPromise` with `SwitchesMode` | none | a database written as both kinds keeps rows of the first |
| `ReadBackFits` (`ResponseCache`) | `overflow.go:195` | the notice measured has one digit, the gap is not measured |
| `NoEmptyRead` | `store_response_chunks.go:150` | a rebuild between finding and reading answers with an empty text |
| `OutlivesNoGeneration` | `store_response_chunks.go:207` | a response rendered before a rebuild is stored after it |
| `EvictsOldestFirst` | `store_response_chunks.go:106` | RFC3339Nano texts do not sort by time |
| `NewerIndexIsStale` (`ContractFreshness`) | `store.go:2613` "any member whose index is newer" | an index write that overtakes an analysis under way is older than it by the clock |
| `OlderAnalysisIsStale` with `MaxRare = 0` | `store.go:2611` "older than the repo's last symbol index" | a process takes the time for a member it replaced (`workspace/index.go:164`, `:109`); another one's analysis is written, then it replaces the member again, dropping its contract rows, and stamps it; the first puts the earlier time over the later: the rows are gone and the analysis is called fresh |
| `ReferencesResolve` (`SymbolWrites`) | `query/rename.go:79` "whenever the index cannot support a correct rename", `:252` | the new name's visibility is not looked at (`:254`): an exported symbol used in another package gets an unexported name |
| `DeletesOnlyTarget` (`SymbolWrites`) | `mcp/write_handlers.go` | `var a, b` without parentheses goes as one |
| `SeverityFollowsDirection` (`ContractRules`) | `analyze.go:385` | additions are compatible when they are the first side's, whoever produces |
| `SameIndexSameLinks` | `contract.go:118` "deterministic across runs" | directions follow the order of a map |
| `UnmarshalConsumes` | `analyze.go:139` | "unmarshal" contains "marshal" |
| `NestedCallsFound` (`ContractAnalysis`) | `runtime.go:739` | a scan goes on behind a call's arguments |
| `ToldOnce` | `runtime.go:424` | a literal of a call may be told once more as shared |
| `PatternsRead` | `runtime.go:46`, README "whose capture group 1 is the entity" | the regexes are joined (`:172`) and `m[1]` is the first one's group: a line only a later one matches gives an empty name |
| `OperandsRead` | `runtime.go:576` "reads the operand list of the `case` clause" | an operand on the line after a comment is read together with the comment (`:585`) and lost |
| `BehindInterfacesUsed` (`CallGraph`) | `query.go:1988` | what only methods behind an interface call is unused |
| `TruncatedMeansMore` | `query.go:2021` | a search that finds exactly its cap is marked truncated |
| `LevelsBounded` (`ImportGraph`) | `server.go:1882`, README "topological layers (Kahn)" | a package taken for one it imports, and that imports another, is raised above itself for ever |
| `FallbackAgrees` | `query.go:1038` | importers found by another spelling include tests |
| `RemovedIsGone`, `GoneIsRemoved` (`ChangedSymbols`) | `query.go:3552` | a declaration moved to a later file is removed; the last one of a file is not |
| `WorkspaceCountsRenames` | its field's name | a workspace's summary counts no rename |

## Proofs

`IndexFreshnessProofs` proves type correctness of every behaviour, and, for
any sets of servers, commands, checkouts and files and any number of versions:
if sources change only while nobody works, errors fall before the commit, and
processes working at the same time work on one checkout (`Undisturbed`), then
an index judged current is fresh and every answer is of the latest source.
Neither is inductive.  `FreshnessInv` adds why: whatever a process has parsed,
read or hashed equals the disk (`ParsedIsDisk`, `KnownIsDisk`, `HashIsDisk`);
from its commit to its fingerprint, the rows are those of the disk, whoever
wrote them last (`CommittedIsFresh`); a fingerprint, when no rebuild is half
way, was taken of the tree the rows are of (`FingerprintIsOfRows`).  TLC checks
it in `freshness_quiet` with the same constants.  A rebuild's own bytes being
those of the disk is what `Undisturbed` buys and `edit_during_rebuild` loses.

The same two promises are proved where processes fail or are killed at any step,
late ones between commit and fingerprint included, and overlap as they like
(`CurrentDespiteFailures`, `LatestDespiteFailures`).  The hypothesis `OnlyNewer`
is that of `freshness_faults`, for any number of processes, faults, files and
versions: one checkout, edits between two pieces of work, contents never seen
before.  A process that dies leaves rows newer than the fingerprint beside them,
so `FingerprintIsOfRows` is lost and `FailureInv` says instead what is left: a
fingerprint is never newer than the disk, and where it equals the disk the rows
are those of the disk (`FingerprintIsOfDisk`).  Both invariants share
`ReadingInv` (what is read is the disk, what is committed is fresh); the proof
shows once that every step, failures and kills among them, keeps it as long as
the check can rely on the fingerprint (`Judged`), and then each environment gives
its own reason why it can.  A revert is what `OnlyNewer` excludes: it makes a
fingerprint that a dead process left behind match again, beside newer rows.

`WorkspaceProofs` proves type correctness of every behaviour, and, for any
members, servers and command lines, when sources change only between runs,
codemap.yaml stays as it is, errors fall before a commit and no row is of an
older analyzer: a member judged current is fresh (`CurrentMember`), and a walk
leaves every member behind it fresh, missing or noted (`WalkLeaves`).  Neither
is inductive: a check that finds the fingerprint equal must know what rows that
fingerprint was taken of, while other processes replace rows and fingerprints
of the same member.  `WorkspaceInv` says it: what a run has parsed is the disk
(`ReadIsDisk`); rows are fresh while a rebuild is between commit and
fingerprint (`CommitIsFresh`); a fingerprint with no rebuild half way names the
version of the rows (`FingerprintIsOfRows`); members behind a walk are settled
and those ahead of it not marked missing (`WalkedIsSettled`); a rebuild after a
symbol write takes one member (`OneIsDone`).  The proof shows once that a
process's step hurts no other process (`Healthy`, `OthersKeepInv`), then treats
each action for its own process.

`TextIsCurrent` is about the other environment: edits fall between any two
steps of a rebuild, runs fail or are killed anywhere, and still what
`search_text` greps is never behind the fingerprint that calls the index
current (`NoStaleText`).  Its hypothesis `Forward(a)` is that of `freshness_busy`
for any number of files and versions: one server and no command on one
checkout, files modified or deleted (never brought back), and one file `a` that
stays and parses, because an index without files leaves the old content table
as it is.  `TextInv` orders three things along time, for every file and at
every place of a rebuild: the fingerprint recorded is not newer than the text,
nor the text than the disk, nor what a process has read than what it will read.

`IndexTablesProofs` proves type correctness for every layout, nested modules
included (the longest enclosing directory exists because the members are
finitely many).  For layouts in which no member's path or directory encloses
another's, the files fit one batch and one database is of one kind
(`Separate`), it proves for any members, packages and versions that rows are
attributed to their module, edges and text are those of the symbols
(`RowsOfTheirModules`, `EdgesFollowSymbols`, `TablesInvariant`), and that the
transactions implement `MemberIndex` (`ImplementsPromise`).  The argument: each
transaction is a `Rewrite`, which keeps the rows of some packages and puts new
ones in the place of the others, by whole modules; `RowsRewritten` and
`FilesRewritten` show that clearing by repo, inserting under unique keys and
deleting by batches come to that, and the `Rewrite...` lemmas show what it
preserves.  `OneKind` is the strengthening: it says which repos the rows met by
a write can have.  `TextIsOfFiles` needs no such layout.

`SchemaProofs` proves, for any processes that open any file
`DatabasesAssumption` admits, that the rows of symbols are never lost
(`RowsAreKept`) and that an opened file has the whole current schema
(`OpenedIsWhole`), with the exceptions the properties name.  The assumption is
that the file was left by a write that ended or is the beginning of one.
`RowsInv` says who copies: one process at a time is between making the table of
the new key and dropping the old one, and the copy is empty until it has the
rows.  For the whole schema, `StagesInv` says that every stage behind a process
is achieved and stays so (`Grows`: tables, columns and the version only ever
grow), and `WholeInv` that, unless someone was stopped amid a stage, what a
stage has taken away another process is about to put back.

`ContractFreshnessProofs` proves `FreshIsCurrent` for any members, links and
processes.  With its four exceptions, the members `Suspect`, it is inductive on
top of `IInv`: what a process holds was on disk, and the members a `late`
process has still to stamp are `crossed`.  The second half is what makes a time
put back harmless to the claim: a member that leaves `newer` by it is in
`crossed` already, since its rows were between commit and time when the analysis
was written.  Every other step either leaves the symbols and rows of a pair
alone or puts one of its members among the suspects.

`AnswersProofs` has the queries and the contract rules.  It proves that links hold (`LinksAreSound`) and are
written once (`LinksAreOnce`), for any packages and declarations that fit
`RulesAssumption`.  That a compatible link can be decoded rests on counting:
structs count as alike when as many wire names match as each has fields, so
the lemmas compare cardinalities.  That a pair is linked once needs that
references tell constants from structs and from one another, and that of the
two orders of a pair only one is of rising repositories.

`SymbolWritesProofs` proves for any tree that parses and type-checks
(`SourceAssumption`), any tools and any edits: nothing is lost
(`EditsAreKept`), the code goes on compiling (`CodeGoesOnCompiling`), a rename
is exact (`RenamesAreExact`).  `WritesInv` says what a call under way may count
on: its new text has every edit its file has that is not excused (`EditsInv`);
each file of a rename is still as indexed or already substituted (`RenameInv`);
with what is about to be written the tree compiles (`WriteInv`); what every file
uses, and every new text, is visible there or hidden by a rename (`VisibleInv`);
and a call
that has just begun, with no edit since, has the index of the tree (`CodeInv`).
Half of the module is about sequences: removing, replacing and inserting a
declaration, and substituting a name.

`AnswersProofs` also proves `ImportReadersAgree` for any index.  `TransitiveInv`
is the classical invariant of a search (what is visited is reachable; a row of
a visited package is behind, at hand, or of a package in the queue), from which
the visited packages are closed under `ImportsOf` when the walk ends; that the
hubs count importers is a bijection between rows and packages.  `Exact` had to
be said of the packages without tests too: where tests are left out, an import
of a test may be taken for a package whose path ends like it.

Of `CallGraph` it proves three properties, for any index and any request.
`DeletionIsSafe`: whatever names a symbol that `find_unused` offers is offered
too, or is one of the exceptions the report itself makes.  The program computes reachability in rounds; they close after as many rounds as
there are edges, since each round that is not the last adds the end of one.
`PathsAreShortest`: the answer of `find_path` is a path of the edges asked for,
no path is shorter, none exists within the depth when it finds none, and
`callees_of`, `callers_of` and `affected_tests` agree with it.
The search goes level by level, so what it has visited with k steps is what k
edges reach, but for what the rest of the queue still leads to.
`CyclesAreComplete`: `detect_cycles` lists every simple cycle once, in its
canonical rotation, unless it stops at its cap and says so.  `SearchInv` is the
inductive invariant of a depth-first search that only takes names greater than
its root: the stack is a simple path with the names each place has still to take
(`OnTrail`), what is listed is a cycle and listed once (`WellListed`), and a
cycle not listed starts at a root still to come or shares a beginning with the
stack, its next name among those still to be taken (`NoneMissed`).

`ChangesAreAccounted` is about `ChangedSymbols`, for any two trees and whatever
git takes for moved.  `ChangesInv` keeps, file by file, the list in order
(`ListKept`: no name told twice, each told name among those looked at, the
counts those of the list) and the list complete where names stay in their files
(`Complete`): what is told is so (`Sound`); all there is to tell of a name
looked at is told (`LookedAt`), which is what makes passing over a seen name
harmless; and a file git lists is still to come or all its names are looked at
(`AllPassed`), while one it does not list is as it was.  When no file is to come
these give both inclusions of each equation.  The renames pair by rank: the
number of lost names of a shape up to one is a bijection onto an interval
(`PlaceIs`), and so is that of the new ones, so equal ranks match each name at
most once and leave none of one kind while there are some of the other
(`PairsMatch`).

`ResponseCacheProofs` proves, for any texts, limit, cap, clock and number of
servers: what is stored of a response is all its bytes in their order
(`StoredIsWhole`); a section read back with its header keeps to the limit, and
all of them together do as far as the code promises (`SectionsReadBack`); the
cache keeps to its cap (`CacheWithinCap`); a save evicts no more than it must (`EvictionIsNeeded`).
The splitter and the pruning are folds.  The recursion behind `FoldLeft` is
unfolded once, by well-founded induction on a set of naturals (`FoldTrace`), and
each loop gets two lemmas: what it makes of nothing, and what one element more
adds (the `...Fold` lemmas).  What the loops keep then follows by induction on
the sequence: the sections put together are the text (no byte lost between a
structural cut, a byte cut and a merge), and each fits the cap.  `CacheInv` is
inductive with them: every row of the table, and every response a server is
about to store, is made of the sections of its own text; rows are in the order
of their instants; the table is within its cap.

The type invariants of `IndexTables`, `ContractFreshness` and `ContractRules`
are only proved: the runs check what the theorems state beyond them.

Only model-checked:

* Liveness, the `LayersRise` of the layering included: `ENABLED` is out of the
  provers' reach.
* `CurrentMemberIsFresh` with late failures and kills and a growing configuration
  (run `ws_busy`); it is proved without them.
* `LiteralsOfTheirOwn` (`ContractAnalysis`).  It is claimed of extractors that
  read calls or switches, not of those with regexes of config, and of clauses
  whose switch begins its line.  A proof would need the layout of gofmt as its
  hypothesis: the code counts braces line by line.

## Not modelled

* Search and fusion (`query/search_text.go`, `fuse/fuse.go`,
  `store/search_strategies.go`): what FTS5 answers would have to be invented;
  reciprocal ranks are rationals with no state.
* Structural patterns (`pattern/`): a pure recursion over go/ast, whose node
  types would have to be invented to be enumerated.
* Type usage, implementations, context bundles, hotspots, PageRank: one pass
  each over the rows the other queries read.
* Rendering, summaries, set-up (`initcmd`), discovery (`workspace/discover.go`),
  flags and printing: no state the index depends on.
* JSON-RPC framing, argument schemas, notices and usage statistics of the
  server: one request at a time, counters.
* `go list`, go/types and git are functions of a tree.

## Plan

1. Done: IndexFreshness, Workspace, IndexTables with their theorems; Schema,
   ResponseCache, ContractFreshness, ContractRules and RuntimeContracts,
   SymbolWrites, CallGraph, ImportGraph, ChangedSymbols with their runs.
2. Done: theorems about IndexFreshness, Workspace, IndexTables, Schema,
   ResponseCache with Chunks, ContractFreshness, ContractRules, SymbolWrites,
   ImportGraph, CallGraph and ChangedSymbols.  Left: `CurrentMemberIsFresh` of
   Workspace where processes fail between commit and fingerprint, as
   `FailureInv` shows it for the single-repository index.
3. An abstract `IndexPromise` (a source and an index that may lag behind it but
   is never wrongly trusted) that IndexFreshness implements when undisturbed.
4. Fusion and the notices of the dispatcher, if they come to matter.
