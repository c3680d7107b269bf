------------------------- MODULE ContractFreshness --------------------------
(* The cross-repository contract analysis and when it is rerun: the walks  *)
(* that keep a workspace index fresh (workspace/index.go), the analysis    *)
(* they are followed by (contract/runner.go) and its rows and time in the  *)
(* shared database (store/store.go).  What an analysis finds is a function *)
(* of the versions it read: ContractRules says which function.             *)
EXTENDS Integers, FiniteSets

CONSTANTS
    Procs,       \* servers and command lines on one workspace database
    Repos,       \* the members
    Linked,      \* pairs of members something links, from-side first;
                 \* <<r, r>> for the runtime contracts inside one
    MaxVersion,  \* bound: versions of a member's source
    MaxRare      \* bound: calls that fail or die half way, checkouts found
                 \* gone, requests to index everything

ASSUME ContractAssumption ==
    /\ Linked \subseteq Repos \X Repos
    /\ MaxVersion \in Nat \ {0}
    /\ MaxRare \in Nat

VARIABLES
    tree,       \* version of each member's source on disk
    symbols,    \* version the symbols and files of each member are from,
                \* 0 when it has none
    recorded,   \* version each member's recorded source fingerprint is of
    missing,    \* members marked missing
    newer,      \* members whose indexed_at is later than the analysis
    rows,       \* tables contracts, runtime_contracts and drift
    proc,       \* what each process is doing
    rare,       \* how many of the rare events there have been
    overtaken,  \* history: members an index write replaced after the last
                \* analysis had read them and before it was written, whose
                \* indexed_at was not set to a later time since
    crossed     \* history: members whose new rows were committed, and their
                \* indexed_at was not yet set, when the last analysis was
                \* written, or when the write failed after it

history == <<overtaken, crossed>>
index == <<symbols, recorded, missing, newer, rows, history>>
vars == <<tree, proc, rare, index>>

-----------------------------------------------------------------------------
(* What a process keeps between two of its steps.                          *)

Versions == [Repos -> 0 .. MaxVersion]
NoRows == [r \in Repos |-> 0]

States == {"idle", "walk", "write_all", "replace", "clock", "stamp", "record",
           "mark", "symbols", "files", "write"}

Job == [at : States,
        todo : SUBSET Repos,     \* members the walk has not come to
        failed : BOOLEAN,        \* a member of the walk failed
        parsed : Versions,       \* what an index write parsed
        gone : SUBSET Repos,     \* members whose checkout it did not find
        stamp : SUBSET Repos,    \* members whose indexed_at it has to set,
        late : BOOLEAN,          \* to a time there was an analysis after
        record : SUBSET Repos,   \* the member whose fingerprint follows
        symbols : Versions,      \* what an analysis has read
        files : Versions]

Free == [at |-> "idle", todo |-> {}, failed |-> FALSE, parsed |-> NoRows,
         gone |-> {}, stamp |-> {}, late |-> FALSE, record |-> {},
         symbols |-> NoRows, files |-> NoRows]

Walking(todo, failed) == [Free EXCEPT !.at = "walk", !.todo = todo, !.failed = failed]

Goto(p, job) == proc' = [proc EXCEPT ![p] = job]

(* Members whose new rows are committed and whose indexed_at is to follow. *)
Unstamped(p) ==
    IF proc[p].at \in {"clock", "stamp", "record"} THEN proc[p].stamp ELSE {}

InFlight == UNION {Unstamped(p) : p \in Procs}

(* Those among them whose time has been taken already.                     *)
Timed == UNION {proc[p].stamp : p \in {q \in Procs : proc[q].at \in {"stamp", "record"}}}

-----------------------------------------------------------------------------
(* What an analysis finds of a pair; nothing in a member without rows.     *)
Found(pair, syms, files) ==
    IF syms[pair[1]] = 0 \/ syms[pair[2]] = 0 THEN {}
    ELSE {[pair |-> pair,
           symbols |-> <<syms[pair[1]], syms[pair[2]]>>,
           files |-> <<files[pair[1]], files[pair[2]]>>]}

(* Mutant of Analysis: only the members indexed since the last analysis    *)
(* are analysed, and the rows of all are replaced.                         *)
OnlyNewer(syms, files) ==
    UNION {Found(pair, syms, files) : pair \in {link \in Linked : link[1] \in newer}}

Analysis(syms, files) == UNION {Found(pair, syms, files) : pair \in Linked}

Init ==
    /\ tree = [r \in Repos |-> 1]
    /\ symbols = [r \in Repos |-> 1]
    /\ recorded = [r \in Repos |-> 1]
    /\ missing = {}
    /\ newer = Repos
    /\ rows = {}
    /\ proc = [p \in Procs |-> Free]
    /\ rare = 0
    /\ overtaken = {}
    /\ crossed = {}

Edit ==
    /\ \E r \in Repos : /\ tree[r] < MaxVersion
                        /\ tree' = [tree EXCEPT ![r] = @ + 1]
    /\ UNCHANGED <<proc, rare, index>>

-----------------------------------------------------------------------------
(* Walks, which skip the members marked missing when they begin.           *)

Call(p) ==
    /\ proc[p] = Free
    /\ Goto(p, Walking(Repos \ missing, FALSE))
    /\ UNCHANGED <<tree, rare, index>>

Rare == rare < MaxRare /\ rare' = rare + 1

(* The next member is gone, or it is there and judged by its fingerprint.  *)
MarkMissing(p) ==
    /\ proc[p].at = "walk"
    /\ \E r \in proc[p].todo :
          /\ missing' = missing \cup {r}
          /\ Goto(p, Walking(proc[p].todo \ {r}, proc[p].failed))
    /\ Rare
    /\ UNCHANGED <<tree, symbols, recorded, newer, rows, history>>

CheckRepo(p) ==
    /\ proc[p].at = "walk"
    /\ \E r \in proc[p].todo :
          LET rest == Walking(proc[p].todo \ {r}, proc[p].failed) IN
          Goto(p, IF recorded[r] = tree[r] THEN rest
                  ELSE [rest EXCEPT !.at = "replace", !.stamp = {r},
                                    !.parsed = [NoRows EXCEPT ![r] = tree[r]]])
    /\ UNCHANGED <<tree, rare, index>>

(* One transaction: the member's symbols are replaced, and the contract    *)
(* rows on whose from-side it stands are deleted.                          *)
ReplaceRepo(p) ==
    /\ proc[p].at = "replace"
    /\ symbols' = [r \in Repos |-> IF r \in proc[p].stamp THEN proc[p].parsed[r]
                                   ELSE symbols[r]]
    /\ rows' = {row \in rows : row.pair[1] \notin proc[p].stamp}
    /\ Goto(p, [proc[p] EXCEPT !.at = "clock"])
    /\ UNCHANGED <<tree, recorded, missing, newer, rare, history>>

-----------------------------------------------------------------------------
(* A request to index everything looks for the checkouts first and parses  *)
(* those that are there.                                                   *)
IndexAll(p) ==
    /\ proc[p] = Free
    /\ Rare
    /\ \E gone \in SUBSET Repos :
          Goto(p, [Free EXCEPT !.at = "write_all", !.gone = gone,
                               !.stamp = Repos \ gone,
                               !.parsed = [r \in Repos |-> IF r \in gone THEN 0
                                                           ELSE tree[r]]])
    /\ UNCHANGED <<tree, index>>

(* One transaction for all members, which alone takes the missing mark off.*)
WriteWorkspace(p) ==
    /\ proc[p].at = "write_all"
    /\ symbols' = proc[p].parsed
    /\ rows' = {}
    /\ missing' = proc[p].gone
    /\ Goto(p, [proc[p] EXCEPT !.at = "clock"])
    /\ UNCHANGED <<tree, recorded, newer, rare, history>>

(* Those found gone are marked once more; with every one gone, there is    *)
(* no analysis.                                                            *)
SetRepoMissing(p) ==
    /\ proc[p].at = "mark"
    /\ missing' = missing \cup proc[p].gone
    /\ Goto(p, IF proc[p].gone = Repos THEN Free ELSE Walking({}, FALSE))
    /\ UNCHANGED <<tree, symbols, recorded, newer, rows, rare, history>>

-----------------------------------------------------------------------------
(* Behind either write: the time is taken, and then, for one member after  *)
(* the other, written and followed by the fingerprint.                     *)

NextMember(p, job) ==
    Goto(p, CASE job.stamp # {} -> [job EXCEPT !.at = "stamp"]
              [] job.stamp = {} /\ job.gone # {} -> [job EXCEPT !.at = "mark"]
              [] OTHER -> Walking(job.todo, job.failed))

TakeTime(p) ==
    /\ proc[p].at = "clock"
    /\ NextMember(p, [proc[p] EXCEPT !.late = FALSE])
    /\ UNCHANGED <<tree, rare, index>>

(* A time taken before the last analysis puts indexed_at before it, back   *)
(* behind a later one too.                                                 *)
SetRepoIndexedAt(p) ==
    /\ proc[p].at = "stamp"
    /\ \E r \in proc[p].stamp :
          /\ newer' = IF proc[p].late THEN newer \ {r} ELSE newer \cup {r}
          /\ overtaken' = IF proc[p].late THEN overtaken ELSE overtaken \ {r}
          /\ Goto(p, [proc[p] EXCEPT !.at = "record", !.record = {r},
                                     !.stamp = proc[p].stamp \ {r}])
    /\ UNCHANGED <<tree, symbols, recorded, missing, rows, rare, crossed>>

(* A fingerprint that cannot be written is not an error.                   *)
RecordSourceFingerprint(p) ==
    /\ proc[p].at = "record"
    /\ \/ /\ recorded' = [r \in Repos |-> IF r \in proc[p].record THEN proc[p].parsed[r]
                                          ELSE recorded[r]]
          /\ UNCHANGED rare
       \/ Rare /\ UNCHANGED recorded
    /\ NextMember(p, [proc[p] EXCEPT !.record = {}])
    /\ UNCHANGED <<tree, symbols, missing, newer, rows, history>>

-----------------------------------------------------------------------------
(* The analysis.                                                           *)

(* Mutant of ContractsStale: it waits for every member to be newer.        *)
AllNewer == Repos \ missing # {} /\ Repos \ missing \subseteq newer

(* ReanalyzeStaleContracts: some member that is not missing was indexed    *)
(* after the analysis, or there is none.                                   *)
ContractsStale == newer \ missing # {}

(* A walk one of whose members failed ends without.                        *)
CheckContracts(p) ==
    /\ proc[p].at = "walk"
    /\ proc[p].todo = {}
    /\ Goto(p, IF ~ proc[p].failed /\ ContractsStale
               THEN [Free EXCEPT !.at = "symbols"] ELSE Free)
    /\ UNCHANGED <<tree, rare, index>>

(* buildAnalysis: the symbols in one query, the files in another.          *)
ReadSymbols(p) ==
    /\ proc[p].at = "symbols"
    /\ Goto(p, [proc[p] EXCEPT !.at = "files", !.symbols = symbols])
    /\ UNCHANGED <<tree, rare, index>>

ReadFiles(p) ==
    /\ proc[p].at = "files"
    /\ Goto(p, [proc[p] EXCEPT !.at = "write", !.files = symbols])
    /\ UNCHANGED <<tree, rare, index>>

(* The times the others have taken and not written are from before.        *)
Overtaken(job) ==
    IF job.at \in {"stamp", "record"} THEN [job EXCEPT !.late = TRUE] ELSE job

(* WriteContractsAll, one transaction: every row is replaced, and the time *)
(* of the analysis is the time of this write.                              *)
WriteContractsAll(p) ==
    /\ proc[p].at = "write"
    /\ rows' = Analysis(proc[p].symbols, proc[p].files)
    /\ newer' = {}
    /\ crossed' = Timed
    /\ overtaken' = {r \in Repos : \/ proc[p].symbols[r] # symbols[r]
                                    \/ proc[p].files[r] # symbols[r]}
    /\ proc' = [q \in Procs |-> IF q = p THEN Free ELSE Overtaken(proc[q])]
    /\ UNCHANGED <<tree, symbols, recorded, missing, rare>>

-----------------------------------------------------------------------------
(* Failures.  What has been committed stays.                               *)

(* The check or the rebuild of a member fails: the walk goes on.           *)
FailMember(p) ==
    /\ Rare
    /\ \/ /\ proc[p].at = "walk"
          /\ \E r \in proc[p].todo : Goto(p, Walking(proc[p].todo \ {r}, TRUE))
       \/ /\ proc[p].at \in {"replace", "clock", "stamp", "record"}
          /\ Goto(p, Walking(proc[p].todo, TRUE))
    /\ crossed' = crossed \cup Unstamped(p)
    /\ UNCHANGED <<tree, symbols, recorded, missing, newer, rows, overtaken>>

(* The call fails as a whole, or its process dies.  A failed analysis is   *)
(* ignored, or a warning.                                                  *)
Fail(p) ==
    /\ proc[p] # Free
    /\ Rare
    /\ Goto(p, Free)
    /\ crossed' = crossed \cup Unstamped(p)
    /\ UNCHANGED <<tree, symbols, recorded, missing, newer, rows, overtaken>>

Work(p) ==
    \/ CheckRepo(p) \/ ReplaceRepo(p) \/ WriteWorkspace(p) \/ SetRepoMissing(p)
    \/ TakeTime(p) \/ SetRepoIndexedAt(p) \/ RecordSourceFingerprint(p)
    \/ CheckContracts(p) \/ ReadSymbols(p) \/ ReadFiles(p) \/ WriteContractsAll(p)

Next ==
    \/ Edit
    \/ \E p \in Procs : \/ Call(p) \/ IndexAll(p) \/ MarkMissing(p) \/ Work(p)
                        \/ FailMember(p) \/ Fail(p)

Spec == Init /\ [][Next]_vars

(* Agents keep calling, and a call that has begun is worked on.            *)
Fairness == \A p \in Procs : WF_vars(Call(p)) /\ WF_vars(Work(p))

FairSpec == Spec /\ Fairness

-----------------------------------------------------------------------------
(* Properties.                                                             *)

(* Types: what has been indexed, recorded or parsed has been on disk.      *)
TypeOK ==
    /\ tree \in Versions /\ symbols \in Versions /\ recorded \in Versions
    /\ missing \subseteq Repos /\ newer \subseteq Repos
    /\ overtaken \subseteq Repos /\ crossed \subseteq Repos
    /\ proc \in [Procs -> Job]
    /\ rare \in 0 .. MaxRare
    /\ \A row \in rows : row.pair \in Linked
    /\ \A r \in Repos : /\ symbols[r] <= tree[r] /\ recorded[r] <= tree[r]
                        /\ \A p \in Procs : proc[p].parsed[r] <= tree[r]

(* The contract rows show the two members of a pair as they are indexed,   *)
(* and nothing when one has no rows.                                       *)
Current(pair) == {row \in rows : row.pair = pair} = Found(pair, symbols, symbols)

Among(pair, repos) == pair[1] \in repos \/ pair[2] \in repos

(* What IsContractStale calls fresh is: the rows of members whose index    *)
(* time is not later than the analysis show what is indexed - unless an    *)
(* index write overtook the analysis, or has committed the rows of one and *)
(* is about to set its time, or was there when the last analysis was       *)
(* written or failed there.  Times written late and out of order, failures *)
(* and deletions of rows lead nowhere else.                                *)
FreshIsCurrent ==
    \A pair \in Linked :
        ~ Among(pair, newer \cup InFlight \cup overtaken \cup crossed) => Current(pair)

(* store.go:2611: "IsContractStale reports whether the global contract     *)
(* analysis is older than the repo's last symbol index": where no write    *)
(* overtook the analysis or is under way, and none failed, what the check  *)
(* calls fresh shows what is indexed.                                      *)
OlderAnalysisIsStale ==
    \A pair \in Linked :
        ~ Among(pair, newer \cup InFlight \cup overtaken) => Current(pair)

(* store.go:2613: "any member whose index is newer than the analysis makes *)
(* the whole analysis stale": with every time written, what the check      *)
(* calls fresh shows what is indexed.                                      *)
NewerIndexIsStale ==
    \A pair \in Linked : ~ Among(pair, newer \cup InFlight \cup crossed) => Current(pair)

(* Each pair of members comes to be shown as it is indexed, and stays so,  *)
(* once edits and failures end and while agents keep calling - but for     *)
(* members marked missing, which no walk visits again, and those an index  *)
(* write of which overtook or crossed the last analysis.                   *)
ContractsSettle ==
    <>[](\A pair \in Linked :
            ~ Among(pair, missing \cup overtaken \cup crossed) => Current(pair))
=============================================================================
