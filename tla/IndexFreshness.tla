--------------------------- MODULE IndexFreshness ---------------------------
(***************************************************************************)
(* How the single-repository index is kept in step with the source it is   *)
(* built from.  `codemap index` runs and MCP servers share one SQLite      *)
(* database.  A server checks the recorded source fingerprint before every *)
(* answer and rebuilds a stale index; `index` and `reindex` rebuild        *)
(* unconditionally.  A rebuild parses the files, reads them AGAIN for the  *)
(* content table, commits one transaction, and only then, in separate      *)
(* statements, records indexed_at, the repo metadata and the fingerprint.  *)
(* Every read of a file and every commit is a step of its own, so edits,   *)
(* other processes, failures and crashes fall between any two.             *)
(*                                                                         *)
(* A file's content is a version number (0: the file is absent).  A SHA-256*)
(* over the tree is the tree itself: no two trees collide.                 *)
(***************************************************************************)
EXTENDS Naturals, FiniteSets

CONSTANTS
  Servers,        \* MCP server processes
  Clis,           \* `codemap index` runs (a finished one stands for the next)
  Checkouts,      \* directories that are indexed into the one database
  ServedRepo,     \* the checkout each server serves (its repoPath)
  GoFiles,        \* relative paths of .go files
  GoMod,          \* the path of go.mod: hashed, never parsed as Go
  MaxVersion,     \* bound: versions a file's content takes
  Broken,         \* <<file, version>> pairs the Go parser rejects
  InitSources     \* the source trees the checkouts may start with

(* The environment, so that each claim is checked where it should hold. *)
CONSTANTS
  Edits,          \* <<kind, file>>: "create", "modify", "delete", "revert"
  EditsWhileBusy, \* may files change while some process is working?
  Overlap,        \* may processes work on two checkouts at the same time?
  Faults,         \* subset of {"early", "late", "crash"}
  MaxFaults       \* bound: failures and crashes in one behaviour

Procs == Servers \cup Clis
Files == GoFiles \cup {GoMod}
Version == 0 .. MaxVersion
Tree == [Files -> Version]
NoTree == [f \in Files |-> 0]

ASSUME FilesAssumption == /\ GoMod \notin GoFiles
                          /\ MaxVersion \in Nat
                          /\ Broken \subseteq GoFiles \X Version
                          /\ InitSources \subseteq [Checkouts -> Tree]
ASSUME ProcsAssumption == /\ Servers \cap Clis = {}
                          /\ Checkouts # {}
                          /\ ServedRepo \in [Servers -> Checkouts]
                          /\ MaxFaults \in Nat

VARIABLES
  src,     \* src[c]: the files of checkout c on disk
  db,      \* the database: index rows, files table and meta keys
  pc,      \* what each process does next
  job,     \* the local variables of each process's current run
  backoff, \* servers that remember a failed auto-index (failedIndexes)
  faults   \* failures and crashes left

vars == <<src, db, pc, job, backoff, faults>>

-----------------------------------------------------------------------------
(* State.                                                                  *)

(* Zero-or-one sets stand for meta keys that may be missing.               *)
Database == [exists: BOOLEAN,
             dir: SUBSET Checkouts,  \* the checkout the rows were parsed from
             rows: Tree,             \* the source version each file's rows are of
             files: Tree,            \* the files table (search_text content)
             analyzer: {"none", "older", "this"},
             indexedAt: BOOLEAN,
             repo: SUBSET Checkouts, \* meta repo_path
             fp: SUBSET Tree]        \* meta source_fingerprint

NoDatabase == [exists |-> FALSE, dir |-> {}, rows |-> NoTree,
               files |-> NoTree, analyzer |-> "none",
               indexedAt |-> FALSE, repo |-> {}, fp |-> {}]

Job == [home: Checkouts,            \* the checkout worked on
        auto: BOOLEAN,              \* an auto-index, run to answer a call
        purpose: {"check", "record"}, \* why the tree is being hashed
        ast: Tree,                  \* the version of each file that was parsed
        known: Tree,                \* FileContents: bytes read for the tables
        hash: Tree,                 \* the fingerprint computed so far
        stored: SUBSET Tree,        \* the fingerprint read by the check
        todo: SUBSET Files]         \* files still to be read in this phase

NewJob(c, auto) == [home |-> c, auto |-> auto, purpose |-> "check",
                    ast |-> NoTree, known |-> NoTree, hash |-> NoTree,
                    stored |-> {}, todo |-> {}]
NoJob == NewJob(CHOOSE c \in Checkouts : TRUE, FALSE)

Idle(p) == pc[p] = "idle"
AllIdle == \A p \in Procs : Idle(p)
Home(p) == job[p].home
Disk(p) == src[Home(p)]

(* What an index of a tree holds: files the parser rejects have no rows.   *)
Parsed(f, v) == IF <<f, v>> \in Broken THEN 0 ELSE v
RowsOfGoOnly(tree) == [f \in GoFiles |-> Parsed(f, tree[f])]  \* mutant
RowsOf(tree) == [f \in Files |-> Parsed(f, tree[f])]

(* Mutants of MetaCurrent: no repo identity, no analyzer version.          *)
MetaCurrentAnyRepo(c) == /\ db.exists /\ db.indexedAt
                         /\ db.analyzer = "this" /\ db.fp # {}
MetaCurrentAnyAnalyzer(c) == /\ db.exists /\ db.indexedAt
                             /\ db.repo \subseteq {c} /\ db.fp # {}

(* StaleReason's verdict, were it evaluated in one step for checkout c.    *)
MetaCurrent(c) == /\ db.exists /\ db.indexedAt
                  /\ db.repo \subseteq {c}
                  /\ db.analyzer = "this"
                  /\ db.fp # {}
Current(c) == MetaCurrent(c) /\ db.fp = {src[c]}

OlderIndex(c) == [exists |-> TRUE, dir |-> {c},
                  rows |-> RowsOf(src[c]), files |-> RowsOf(src[c]),
                  analyzer |-> "older", indexedAt |-> TRUE,
                  repo |-> {c}, fp |-> {src[c]}]

(* No database yet, or one left by an older analyzer.                      *)
Init == /\ src \in InitSources
        /\ db \in {NoDatabase} \cup {OlderIndex(c) : c \in Checkouts}
        /\ pc = [p \in Procs |-> "idle"]
        /\ job = [p \in Procs |-> NoJob]
        /\ backoff = {}
        /\ faults = MaxFaults

-----------------------------------------------------------------------------
(* The environment edits files.                                            *)

EditKind(old, new) == CASE old = 0                -> "create"
                        [] old # 0 /\ new = 0      -> "delete"
                        [] old # 0 /\ new > old    -> "modify"
                        [] old # 0 /\ new \in 1 .. old -> "revert"

Edit(c, f, v) == /\ EditsWhileBusy \/ AllIdle
                 /\ v # src[c][f]
                 /\ <<EditKind(src[c][f], v), f>> \in Edits
                 /\ src' = [src EXCEPT ![c][f] = v]
                 /\ UNCHANGED <<db, pc, job, backoff, faults>>

-----------------------------------------------------------------------------
(* Starting and ending a piece of work.                                    *)

Goto(p, label) == pc' = [pc EXCEPT ![p] = label]

Start(p, c, label, auto) ==
  /\ Idle(p)
  /\ Overlap \/ \A q \in Procs : Idle(q) \/ Home(q) = c
  /\ Goto(p, label)
  /\ job' = [job EXCEPT ![p] = NewJob(c, auto)]
  /\ UNCHANGED <<src, db, backoff, faults>>

Stop(p) == Goto(p, "idle") /\ job' = [job EXCEPT ![p] = NoJob]

(* getStore: no database at all goes straight to the auto-index.           *)
Call(p) == Start(p, ServedRepo[p], IF db.exists THEN "meta?" ELSE "auto", TRUE)

(* The reindex tool, without a staleness check or backoff.                 *)
Reindex(p) == Start(p, ServedRepo[p], "list", FALSE)

CliIndex(p, c) == Start(p, c, "list", FALSE)

-----------------------------------------------------------------------------
(* hashSource: list the .go files, then read each one that is not known.   *)

(* Mutants of Listed: go.mod is left out, deleted files are left out.      *)
ListedGoOnly(p) == {f \in GoFiles : Disk(p)[f] # 0 \/ job[p].known[f] # 0}
ListedOnDisk(p) == {GoMod} \cup {f \in GoFiles : Disk(p)[f] # 0}

Listed(p) == {GoMod} \cup
             {f \in GoFiles : Disk(p)[f] # 0 \/ job[p].known[f] # 0}

Walk(p) ==
  /\ pc[p] = "walk"
  /\ Goto(p, "hash")
  /\ job' = [job EXCEPT ![p].hash = NoTree, ![p].todo = Listed(p)]
  /\ UNCHANGED <<src, db, backoff, faults>>

HashFile(p, f) ==
  /\ pc[p] = "hash"
  /\ f \in job[p].todo
  /\ job[p].known[f] # 0 \/ Disk(p)[f] # 0 \/ f = GoMod
  /\ job' = [job EXCEPT ![p].todo = @ \ {f},
                        ![p].hash[f] = IF job[p].known[f] # 0
                                       THEN job[p].known[f] ELSE Disk(p)[f]]
  /\ UNCHANGED <<src, db, pc, backoff, faults>>

-----------------------------------------------------------------------------
(* getStore: the staleness check and the decision to rebuild.              *)

(* StaleReason reads the meta keys, with its early returns.                *)
CheckMeta(p) ==
  /\ pc[p] = "meta?"
  /\ IF MetaCurrent(Home(p))
     THEN /\ Goto(p, "walk")
          /\ job' = [job EXCEPT ![p].purpose = "check", ![p].stored = db.fp]
     ELSE Goto(p, "auto") /\ UNCHANGED job
  /\ UNCHANGED <<src, db, backoff, faults>>

(* Mutants of CheckSource: any fingerprint will do; hash again until it    *)
(* matches.                                                                *)
CheckSourceTrusts(p) ==
  /\ pc[p] = "hash" /\ job[p].purpose = "check"
  /\ job[p].todo = {}
  /\ Goto(p, IF job[p].stored # {} THEN "answer" ELSE "auto")
  /\ UNCHANGED <<src, db, job, backoff, faults>>
CheckSourceRetries(p) ==
  /\ pc[p] = "hash" /\ job[p].purpose = "check"
  /\ job[p].todo = {}
  /\ Goto(p, IF {job[p].hash} = job[p].stored THEN "answer" ELSE "walk")
  /\ UNCHANGED <<src, db, job, backoff, faults>>

CheckSource(p) ==
  /\ pc[p] = "hash" /\ job[p].purpose = "check"
  /\ job[p].todo = {}
  /\ Goto(p, IF {job[p].hash} = job[p].stored THEN "answer" ELSE "auto")
  /\ UNCHANGED <<src, db, job, backoff, faults>>

(* A listed file is gone when it is read: a check calls the tree stale,    *)
(* RecordSourceFingerprint ignores the error and leaves the old hash.      *)
HashFails(p) ==
  /\ pc[p] = "hash"
  /\ \E f \in job[p].todo \ {GoMod} : job[p].known[f] = 0 /\ Disk(p)[f] = 0
  /\ CASE job[p].purpose = "check" ->
             Goto(p, "auto") /\ UNCHANGED <<job, backoff>>
       [] job[p].purpose = "record" /\ job[p].auto ->
             Goto(p, "answer") /\ UNCHANGED job /\ backoff' = backoff \ {p}
       [] OTHER -> Stop(p) /\ UNCHANGED backoff
  /\ UNCHANGED <<src, db, faults>>

(* Mutant of Refuse: answer from the old index.                            *)
RefuseAnswers(p) == /\ pc[p] = "auto" /\ p \in backoff
                    /\ Goto(p, "answer")
                    /\ UNCHANGED <<src, db, job, backoff, faults>>

(* autoIndexMemoized: refuse within the backoff window of a failure.       *)
Refuse(p) == /\ pc[p] = "auto" /\ p \in backoff
             /\ Stop(p)
             /\ UNCHANGED <<src, db, backoff, faults>>

AutoIndex(p) == /\ pc[p] = "auto" /\ p \notin backoff
                /\ Goto(p, "list")
                /\ UNCHANGED <<src, db, job, backoff, faults>>

(* Mutant of BackoffExpires: the window is renewed instead of expiring.    *)
BackoffRenewed(p) == p \in backoff /\ UNCHANGED vars

BackoffExpires(p) == /\ p \in backoff
                     /\ backoff' = backoff \ {p}
                     /\ UNCHANGED <<src, db, pc, job, faults>>

(* The handler reads the database and the call is answered.                *)
Answer(p) == /\ pc[p] = "answer"
             /\ Stop(p)
             /\ UNCHANGED <<src, db, backoff, faults>>

-----------------------------------------------------------------------------
(* The rebuild.                                                            *)

(* parse.Run lists the packages; import paths come from go.mod.            *)
List(p) ==
  /\ pc[p] = "list"
  /\ Goto(p, "parse")
  /\ job' = [job EXCEPT ![p].ast = [NoTree EXCEPT ![GoMod] = Disk(p)[GoMod]],
                        ![p].known = NoTree,
                        ![p].todo = {f \in GoFiles : Disk(p)[f] # 0}]
  /\ UNCHANGED <<src, db, backoff, faults>>

ParseFile(p, f) ==
  /\ pc[p] = "parse"
  /\ f \in job[p].todo
  /\ job' = [job EXCEPT ![p].todo = @ \ {f},
                        ![p].ast[f] = Parsed(f, Disk(p)[f])]
  /\ UNCHANGED <<src, db, pc, backoff, faults>>

(* The files FileContents reads are those that were parsed.                *)
ParsedFiles(p) == {f \in GoFiles : job[p].ast[f] # 0}

(* Mutant of Create: the fingerprint is recorded before the write.         *)
CreateRecords(p) ==
  /\ pc[p] = "parse" /\ job[p].todo = {}
  /\ Goto(p, "read")
  /\ db' = [db EXCEPT !.exists = TRUE, !.fp = {Disk(p)}]
  /\ job' = [job EXCEPT ![p].todo = ParsedFiles(p)]
  /\ UNCHANGED <<src, backoff, faults>>

(* resolve.Run, then store.Create.                                         *)
Create(p) ==
  /\ pc[p] = "parse" /\ job[p].todo = {}
  /\ Goto(p, "read")
  /\ db' = [db EXCEPT !.exists = TRUE]
  /\ job' = [job EXCEPT ![p].todo = ParsedFiles(p)]
  /\ UNCHANGED <<src, backoff, faults>>

(* FileContents reads from disk again; a file that is gone is left out.    *)
ReadFile(p, f) ==
  /\ pc[p] \in {"read", "reread"}
  /\ f \in job[p].todo
  /\ job' = [job EXCEPT ![p].todo = @ \ {f}, ![p].known[f] = Disk(p)[f]]
  /\ UNCHANGED <<src, db, pc, backoff, faults>>

(* Write: one transaction.  deleteStaleFiles returns early on an empty set,*)
(* so an index without files keeps the previous files table.               *)
Write(p) ==
  /\ pc[p] = "read" /\ job[p].todo = {}
  /\ Goto(p, "indexedAt")
  /\ db' = [db EXCEPT !.dir = {Home(p)}, !.rows = job[p].ast,
                      !.analyzer = "this",
                      !.files = IF job[p].known = NoTree THEN @
                                ELSE job[p].known]
  /\ UNCHANGED <<src, job, backoff, faults>>

SetIndexedAt(p) == /\ pc[p] = "indexedAt"
                   /\ Goto(p, "repo")
                   /\ db' = [db EXCEPT !.indexedAt = TRUE]
                   /\ UNCHANGED <<src, job, backoff, faults>>

(* SetRepoMeta.  The command line tool then reads the files a third time.  *)
SetRepoMeta(p) ==
  /\ pc[p] = "repo"
  /\ db' = [db EXCEPT !.repo = {Home(p)}]
  /\ IF p \in Clis
     THEN /\ Goto(p, "reread")
          /\ job' = [job EXCEPT ![p].known = NoTree, ![p].purpose = "record",
                                ![p].todo = ParsedFiles(p)]
     ELSE /\ Goto(p, "walk")
          /\ job' = [job EXCEPT ![p].purpose = "record"]
  /\ UNCHANGED <<src, backoff, faults>>

Reread(p) == /\ pc[p] = "reread" /\ job[p].todo = {}
             /\ Goto(p, "walk")
             /\ UNCHANGED <<src, db, job, backoff, faults>>

(* RecordSourceFingerprint stores the hash.  A call's auto-index clears    *)
(* the remembered failure and the call is answered.                        *)
Record(p) ==
  /\ pc[p] = "hash" /\ job[p].purpose = "record"
  /\ job[p].todo = {}
  /\ db' = [db EXCEPT !.fp = {job[p].hash}]
  /\ IF job[p].auto
     THEN Goto(p, "answer") /\ UNCHANGED job /\ backoff' = backoff \ {p}
     ELSE Stop(p) /\ UNCHANGED backoff
  /\ UNCHANGED <<src, faults>>

-----------------------------------------------------------------------------
(* Failures.                                                               *)

(* An error before the transaction commits ("early": parse, store, write)  *)
(* or after it ("late": indexed_at, counts, repo meta).                    *)
Fail(p) ==
  /\ faults > 0 /\ faults' = faults - 1
  /\ \/ /\ "early" \in Faults
        /\ pc[p] = "list" \/ (pc[p] \in {"parse", "read"} /\ job[p].todo = {})
     \/ /\ "late" \in Faults
        /\ pc[p] \in {"indexedAt", "repo"}
  /\ Stop(p)
  /\ backoff' = IF job[p].auto THEN backoff \cup {p} ELSE backoff
  /\ UNCHANGED <<src, db>>

(* The process is killed; its memory is lost and it is started again.      *)
Crash(p) == /\ "crash" \in Faults
            /\ faults > 0 /\ faults' = faults - 1
            /\ ~Idle(p)
            /\ Stop(p)
            /\ backoff' = backoff \ {p}
            /\ UNCHANGED <<src, db>>

-----------------------------------------------------------------------------
Hashing(p) == \/ Walk(p) \/ CheckSource(p) \/ HashFails(p) \/ Record(p)
              \/ \E f \in Files : HashFile(p, f)

Rebuilding(p) == \/ List(p) \/ Create(p) \/ Write(p) \/ SetIndexedAt(p)
                 \/ SetRepoMeta(p) \/ Reread(p)
                 \/ \E f \in GoFiles : ParseFile(p, f) \/ ReadFile(p, f)

Step(p) == \/ CheckMeta(p) \/ Refuse(p) \/ AutoIndex(p) \/ Answer(p)
           \/ Hashing(p) \/ Rebuilding(p)

Next == \/ \E c \in Checkouts, f \in Files, v \in Version : Edit(c, f, v)
        \/ \E p \in Servers : Call(p) \/ Reindex(p) \/ BackoffExpires(p)
        \/ \E p \in Clis, c \in Checkouts : CliIndex(p, c)
        \/ \E p \in Procs : Step(p) \/ Fail(p) \/ Crash(p)

Spec == Init /\ [][Next]_vars

(* A process that works keeps working, time passes, and agents keep asking.*)
Fairness == /\ \A p \in Procs : WF_vars(Step(p))
            /\ \A p \in Servers : WF_vars(Call(p)) /\ WF_vars(BackoffExpires(p))
FairSpec == Spec /\ Fairness

-----------------------------------------------------------------------------
(* Properties.                                                             *)

Label == {"idle", "meta?", "auto", "answer", "walk", "hash", "list", "parse",
          "read", "indexedAt", "repo", "reread"}

(* Type correctness of the disk, the database and every process's locals.  *)
TypeOK == /\ src \in [Checkouts -> Tree]
          /\ db \in Database
          /\ pc \in [Procs -> Label]
          /\ job \in [Procs -> Job]
          /\ backoff \subseteq Procs
          /\ faults \in 0 .. MaxFaults

(* Between its transaction and its fingerprint a rebuild leaves rows and   *)
(* meta keys of different ages.                                            *)
Swapping(p) == \/ pc[p] \in {"indexedAt", "repo", "reread"}
               \/ pc[p] \in {"walk", "hash"} /\ job[p].purpose = "record"

RowsFresh(c) == db.dir = {c} /\ db.rows = RowsOf(src[c])

(* An index the staleness check would call current holds exactly the rows  *)
(* of the source on disk, whenever no rebuild is half way: the promise of  *)
(* StaleReason that an index is current exactly when it matches.           *)
CurrentIndexIsFresh ==
  (\A p \in Procs : ~Swapping(p)) =>
    \A c \in Checkouts : Current(c) => RowsFresh(c)

(* What the handlers read when a call is answered is the index of the      *)
(* latest source, by this analyzer: rebuildNotice's "results below reflect *)
(* the latest code", across every interleaving of servers and index runs.  *)
AnswersAreLatest ==
  \A p \in Servers : pc[p] = "answer" =>
    RowsFresh(ServedRepo[p]) /\ db.analyzer = "this"

(* The content search_text greps is never of bytes that differ from the    *)
(* file on disk while the index is judged current.                         *)
NoStaleText ==
  (\A p \in Procs : ~Swapping(p)) =>
    \A c \in Checkouts, f \in GoFiles :
      Current(c) /\ db.files[f] # 0 => db.files[f] = src[c][f]

(* Why the index stays fresh when nothing disturbs a rebuild: what a       *)
(* process has read is the disk, the rows are fresh from a commit to its   *)
(* fingerprint, and a fingerprint at rest was taken of the tree the rows   *)
(* are of.  (The invariant IndexFreshnessProofs proves inductive.)         *)
Undisturbed == /\ ~EditsWhileBusy
               /\ Faults \subseteq {"early"}
               /\ ~Overlap

Busy(p) == ~Idle(p)
Checking(p) == pc[p] \in {"walk", "hash"} /\ job[p].purpose = "check"
SameHome == \A p, q \in Procs : Busy(p) /\ Busy(q) => Home(p) = Home(q)

Served == \A p \in Procs :
            /\ Busy(p) /\ p \in Servers => Home(p) = ServedRepo[p]
            /\ pc[p] \in {"meta?", "auto", "answer"} => p \in Servers
            /\ job[p].auto => p \in Servers

ParsedIsDisk(p) ==
  /\ pc[p] = "parse" => /\ job[p].todo \subseteq GoFiles
                        /\ \A f \in Files \ job[p].todo :
                             job[p].ast[f] = RowsOf(Disk(p))[f]
  /\ pc[p] = "read" \/ Swapping(p) => job[p].ast = RowsOf(Disk(p))

KnownIsDisk(p) ==
  /\ Busy(p) => \A f \in Files : job[p].known[f] \in {0, Disk(p)[f]}
  /\ pc[p] = "reread" => job[p].purpose = "record"

HashIsDisk(p) ==
  pc[p] = "hash" =>
    /\ \A f \in job[p].todo \ {GoMod} : Disk(p)[f] # 0
    /\ \A f \in Files \ job[p].todo : job[p].hash[f] = Disk(p)[f]

Fresh(p) == RowsFresh(Home(p)) /\ db.analyzer = "this"

CommittedIsFresh(p) ==
  /\ Swapping(p) \/ pc[p] = "answer" => Fresh(p)
  /\ Checking(p) => /\ p \in Servers
                    /\ job[p].stored = {Disk(p)} => Fresh(p)
  /\ Swapping(p) /\ pc[p] \notin {"indexedAt", "repo"} => db.repo = {Home(p)}

FingerprintIsOfRows ==
  (\A p \in Procs : ~Swapping(p)) /\ db.analyzer = "this" /\ db.indexedAt =>
    /\ db.repo # {} /\ db.dir = db.repo
    /\ \A t \in Tree : db.fp = {t} => db.rows = RowsOf(t)

(* Each process reads the disk and commits it, whatever fails.             *)
ReadingInv ==
  /\ SameHome /\ Served
  /\ \A p \in Procs : /\ ParsedIsDisk(p) /\ KnownIsDisk(p)
                       /\ HashIsDisk(p) /\ CommittedIsFresh(p)

FreshnessInv == ReadingInv /\ FingerprintIsOfRows

(* Why failures and kills at any step, late ones too, leave no index that  *)
(* looks current and is not, in one checkout whose files only get newer: a *)
(* fingerprint that a failed rebuild leaves behind is never that of a later*)
(* source.                                                                 *)
OnlyNewer == /\ ~EditsWhileBusy
             /\ \A c, d \in Checkouts : c = d
             /\ Edits \subseteq {"create", "modify"} \X Files

FingerprintIsOfDisk ==
  \A c \in Checkouts :
    /\ db.analyzer = "this" /\ db.fp = {src[c]} => RowsFresh(c)
    /\ \A t \in db.fp, f \in Files : t[f] <= src[c][f]

FailureInv == ReadingInv /\ FingerprintIsOfDisk

(* Every call ends, whatever other processes, edits and failures do.       *)
CallsEnd == \A p \in Servers : ~Idle(p) ~> Idle(p)

(* Once edits and failures have stopped the index becomes, and stays, the  *)
(* index of the source: no process undoes another's rebuild for ever.      *)
Settles == <>[](\A p \in Servers : Current(ServedRepo[p]))
SettlesFresh == <>[](\A p \in Servers : RowsFresh(ServedRepo[p]))
=============================================================================
