----------------------------- MODULE Workspace -----------------------------
(***************************************************************************)
(* A workspace database: one index of many member repositories, each with  *)
(* a row in `repos`, rows of its own, an indexed_at time and a fingerprint *)
(* (meta source_fingerprint:<module>); the analyzer version is one meta    *)
(* key for the whole database.  `index --workspace` (IndexAll) rewrites    *)
(* every member in one transaction.  Before a server answers, ReindexStale *)
(* walks the members and rebuilds the stale ones, one transaction each; an *)
(* error of one member is collected and the walk goes on.                  *)
(*                                                                         *)
(* A member's source is a version number (0: its checkout is gone).  What  *)
(* happens between the file reads of ONE rebuild is IndexFreshness's       *)
(* subject; here a member is read in one step.                             *)
(***************************************************************************)
EXTENDS Naturals, FiniteSets

CONSTANTS
  Members,        \* modules, numbered in the order of their module_path
  Servers,        \* MCP server processes
  Clis,           \* `codemap workspace ...` runs
  MaxVersion,     \* bound: versions a member's source takes
  InitAnalyzers   \* who may have written the initial database ("none": nobody)

(* The environment, so that each claim is checked where it should hold. *)
CONSTANTS
  Edits,          \* subset of {"modify", "revert", "vanish", "return", "write"}
  EditsWhileBusy, \* may sources change while some process is working?
  Configs,        \* <<old, new>>: member lists of codemap.yaml and its edits
  Faults,         \* subset of {"early", "late", "record", "crash"}
  MaxFaults       \* bound: failures and crashes in one behaviour

Procs == Servers \cup Clis
Version == 0 .. MaxVersion

ASSUME MembersAssumption == /\ Members \subseteq Nat
                            /\ Configs \subseteq (SUBSET Members) \X (SUBSET Members)
ASSUME BoundsAssumption == /\ MaxVersion \in Nat
                           /\ MaxFaults \in Nat
                           /\ InitAnalyzers \subseteq {"none", "older", "this"}
                           /\ Servers \cap Clis = {}

VARIABLES
  disk,     \* disk[m]: the source version in m's checkout
  config,   \* the members codemap.yaml declares
  repos,    \* the repos table with each member's rows and fingerprint
  analyzer, \* meta analyzer_version
  pc,       \* what each process does next
  job,      \* the local variables of each process's current run
  faults    \* failures and crashes left

vars == <<disk, config, repos, analyzer, pc, job, faults>>

-----------------------------------------------------------------------------
(* State.                                                                  *)

Repo == [state: {"unknown", "present", "missing"}, \* registered? missing?
         indexed: BOOLEAN,                    \* indexed_at is not NULL
         rows: Version,                       \* the version its rows are of
         by: {"none", "older", "this"},       \* the analyzer that wrote them
         fp: SUBSET Version]                  \* zero or one fingerprint

Job == [kind: {"stale", "one", "all"},    \* ReindexStale, ReindexRepo, IndexAll
        listed: SUBSET Members,           \* members the run set out to do
        existing: SUBSET Members,         \* those whose checkout was there
        todo: SUBSET Members,             \* those left in the current loop
        parsed: [Members -> Version],     \* the version that was parsed
        stored: SUBSET Version,           \* the fingerprint read by the check
        failed: SUBSET Members]           \* members with an error

NewJob(kind, listed) ==
  [kind |-> kind, listed |-> listed, existing |-> listed, todo |-> listed,
   parsed |-> [m \in Members |-> 0], stored |-> {}, failed |-> {}]
NoJob == NewJob("stale", {})

Incomplete == [state |-> "unknown", indexed |-> FALSE, rows |-> 0,
               by |-> "none"]  \* mutant of Unregistered

Unregistered == [state |-> "unknown", indexed |-> FALSE, rows |-> 0,
                 by |-> "none", fp |-> {}]
IndexedBy(a, v) == IF a = "none" THEN Unregistered
                   ELSE [state |-> "present", indexed |-> TRUE, rows |-> v,
                         by |-> a, fp |-> {v}]

Idle(p) == pc[p] = "idle"
AllIdle == \A p \in Procs : Idle(p)
Registered == {m \in Members : repos[m].state # "unknown"}

(* The loops take members in the order of their module paths.              *)
IsNext(p, m) == m \in job[p].todo /\ \A n \in job[p].todo : m <= n

Init == /\ disk = [m \in Members |-> IF MaxVersion = 0 THEN 0 ELSE 1]
        /\ config \in {Members} \cup {c[1] : c \in Configs}
        /\ \E a \in InitAnalyzers :
             /\ analyzer = a
             /\ repos = [m \in Members |->
                  IF m \in config THEN IndexedBy(a, disk[m]) ELSE Unregistered]
        /\ pc = [p \in Procs |-> "idle"]
        /\ job = [p \in Procs |-> NoJob]
        /\ faults = MaxFaults

-----------------------------------------------------------------------------
(* The environment: sources change, codemap.yaml is edited.                *)

EditKind(old, new) == CASE old = 0   -> "return"
                        [] new = 0   -> "vanish"
                        [] new > old -> "modify"
                        [] OTHER     -> "revert"

Edit(m, v) == /\ EditsWhileBusy \/ AllIdle
              /\ v # disk[m]
              /\ EditKind(disk[m], v) \in Edits
              /\ disk' = [disk EXCEPT ![m] = v]
              /\ UNCHANGED <<config, repos, analyzer, pc, job, faults>>

Reconfigure(c) == /\ AllIdle
                  /\ <<config, c>> \in Configs
                  /\ config' = c
                  /\ UNCHANGED <<disk, repos, analyzer, pc, job, faults>>

-----------------------------------------------------------------------------
(* Control.                                                                *)

Goto(p, label) == pc' = [pc EXCEPT ![p] = label]
Enter(p, label, j) == Goto(p, label) /\ job' = [job EXCEPT ![p] = j]
Stop(p) == Enter(p, "idle", NoJob)

(* The walk is done with member m, with or without an error.               *)
Done(p, m) == Enter(p, "visit", [job[p] EXCEPT !.todo = @ \ {m}])
(* Mutants of Failed: the first error ends the walk; m is tried again.     *)
FailedStops(p, m) == Enter(p, "visit", [job[p] EXCEPT !.todo = {},
                                                      !.failed = @ \cup {m}])
FailedRetries(p, m) == Enter(p, "visit", [job[p] EXCEPT !.failed = @ \cup {m}])

Failed(p, m) == Enter(p, "visit", [job[p] EXCEPT !.todo = @ \ {m},
                                                 !.failed = @ \cup {m}])

(* A call to a server whose database has members (refreshStale), or        *)
(* `workspace reindex`: ListRepos, without those marked missing.           *)
ReindexStale(p) ==
  /\ Idle(p) /\ Registered # {}
  /\ Enter(p, "visit", NewJob("stale",
       {m \in Members : repos[m].state = "present"}))
  /\ UNCHANGED <<disk, config, repos, analyzer, faults>>

(* Load stats every member; the missing ones are not parsed.               *)
OnDisk == {m \in config : disk[m] # 0}
IndexAll(p) ==
  /\ Idle(p) /\ config # {}
  /\ Enter(p, "parseAll", [NewJob("all", config) EXCEPT
                             !.existing = OnDisk, !.todo = OnDisk])
  /\ UNCHANGED <<disk, config, repos, analyzer, faults>>

-----------------------------------------------------------------------------
(* ReindexStale's walk: one member.                                        *)

(* Mutant of MarkMissing: only IndexAll marks members missing.             *)
SkipMissing(p, m) ==
  /\ pc[p] = "visit" /\ IsNext(p, m)
  /\ disk[m] = 0
  /\ Done(p, m)
  /\ UNCHANGED <<disk, config, repos, analyzer, faults>>

MarkMissing(p, m) ==
  /\ pc[p] = "visit" /\ IsNext(p, m)
  /\ disk[m] = 0
  /\ repos' = [repos EXCEPT ![m].state = "missing"]
  /\ Done(p, m)
  /\ UNCHANGED <<disk, config, analyzer, faults>>

(* IsRepoStale: a NULL indexed_at does not scan, so RepoIndexedAt errs.    *)
CheckFails(p, m) ==
  /\ pc[p] = "visit" /\ IsNext(p, m)
  /\ disk[m] # 0 /\ ~repos[m].indexed
  /\ Failed(p, m)
  /\ UNCHANGED <<disk, config, repos, analyzer, faults>>

(* IsRepoStale reads the meta keys; the fingerprint is compared next.      *)
MetaStale(m) == analyzer # "this" \/ repos[m].fp = {}

CheckMeta(p, m) ==
  /\ pc[p] = "visit" /\ IsNext(p, m)
  /\ disk[m] # 0 /\ repos[m].indexed
  /\ IF MetaStale(m) THEN Goto(p, "parse") /\ UNCHANGED job
     ELSE Enter(p, "hash", [job[p] EXCEPT !.stored = repos[m].fp])
  /\ UNCHANGED <<disk, config, repos, analyzer, faults>>

(* sourceStale: a tree that cannot be hashed counts as stale.              *)
CheckSource(p, m) ==
  /\ pc[p] = "hash" /\ IsNext(p, m)
  /\ IF disk[m] # 0 /\ job[p].stored = {disk[m]} THEN Done(p, m)
     ELSE Goto(p, "parse") /\ UNCHANGED job
  /\ UNCHANGED <<disk, config, repos, analyzer, faults>>

-----------------------------------------------------------------------------
(* ReindexRepo: parse, ReplaceRepo's transaction, indexed_at, fingerprint. *)

(* A checkout that is gone parses to no packages, without an error.        *)
Parse(p, m) ==
  /\ pc[p] = "parse" /\ IsNext(p, m)
  /\ Enter(p, "replace", [job[p] EXCEPT !.parsed[m] = disk[m]])
  /\ UNCHANGED <<disk, config, repos, analyzer, faults>>

ReplaceRepo(p, m) ==
  /\ pc[p] = "replace" /\ IsNext(p, m)
  /\ Goto(p, "stamp")
  /\ repos' = [repos EXCEPT ![m].rows = job[p].parsed[m], ![m].by = "this"]
  /\ analyzer' = "this"
  /\ UNCHANGED <<disk, config, job, faults>>

SetRepoIndexedAt(p, m) ==
  /\ pc[p] \in {"stamp", "stampAll"} /\ IsNext(p, m)
  /\ Goto(p, IF pc[p] = "stamp" THEN "record" ELSE "recordAll")
  /\ repos' = [repos EXCEPT ![m].indexed = TRUE]
  /\ UNCHANGED <<disk, config, analyzer, job, faults>>

(* Mutant of Hashed: the disk is read again.                               *)
HashedDisk(p, m) == IF disk[m] = 0 THEN {} ELSE {disk[m]}

(* The hash is of the bytes that were parsed, or of the disk when nothing  *)
(* was; the tree cannot be hashed when the checkout is gone.               *)
Hashed(p, m) == IF disk[m] = 0 THEN {}
                ELSE IF job[p].parsed[m] = 0 THEN {disk[m]}
                ELSE {job[p].parsed[m]}

Recorded(p, m) ==
  /\ pc[p] \in {"record", "recordAll"} /\ IsNext(p, m)
  /\ IF pc[p] = "record" THEN Done(p, m)
     ELSE Enter(p, "stampAll", [job[p] EXCEPT !.todo = @ \ {m}])
  /\ UNCHANGED <<disk, config, analyzer>>

RecordSourceFingerprint(p, m) ==
  /\ Recorded(p, m)
  /\ repos' = [repos EXCEPT ![m].fp = IF Hashed(p, m) = {} THEN @
                                      ELSE Hashed(p, m)]
  /\ UNCHANGED faults

(* Storing the fingerprint fails: the error is dropped, the old hash stays.*)
RecordFails(p, m) ==
  /\ "record" \in Faults
  /\ faults > 0 /\ faults' = faults - 1
  /\ Recorded(p, m)
  /\ UNCHANGED repos

(* The walk ends: a call is answered only when no member had an error.     *)
EndWalk(p) ==
  /\ pc[p] = "visit" /\ job[p].todo = {}
  /\ IF p \in Servers /\ job[p].kind = "stale" /\ job[p].failed = {}
     THEN Goto(p, "answer") /\ UNCHANGED job
     ELSE Stop(p)
  /\ UNCHANGED <<disk, config, repos, analyzer, faults>>

Answer(p) == /\ pc[p] = "answer"
             /\ Stop(p)
             /\ UNCHANGED <<disk, config, repos, analyzer, faults>>

(* The call is a symbol write: it edits the checkout, then rebuilds that   *)
(* member without a check (refreshAfterWrite).                             *)
WriteSymbol(p, m) ==
  /\ pc[p] = "answer" /\ "write" \in Edits
  /\ EditsWhileBusy \/ \A q \in Procs \ {p} : Idle(q)
  /\ repos[m].rows # 0 /\ repos[m].state # "unknown"
  /\ disk[m] \in 1 .. MaxVersion - 1
  /\ disk' = [disk EXCEPT ![m] = @ + 1]
  /\ Enter(p, "parse", NewJob("one", {m}))
  /\ UNCHANGED <<config, repos, analyzer, faults>>

-----------------------------------------------------------------------------
(* IndexAll.                                                               *)

ParseMember(p, m) ==
  /\ pc[p] = "parseAll" /\ IsNext(p, m)
  /\ job' = [job EXCEPT ![p].todo = @ \ {m}, ![p].parsed[m] = disk[m]]
  /\ UNCHANGED <<disk, config, repos, analyzer, pc, faults>>

(* WriteWorkspace, one transaction: register and rewrite the configured    *)
(* members; the rows of every other member are cleared.                    *)
WriteWorkspace(p) ==
  /\ pc[p] = "parseAll" /\ job[p].todo = {}
  /\ Enter(p, "stampAll", [job[p] EXCEPT !.todo = job[p].existing])
  /\ repos' = [m \in Members |->
       IF m \notin job[p].listed THEN [repos[m] EXCEPT !.rows = 0]
       ELSE [state |-> IF m \in job[p].existing THEN "present" ELSE "missing",
             indexed |-> repos[m].indexed, rows |-> job[p].parsed[m],
             by |-> "this", fp |-> repos[m].fp]]
  /\ analyzer' = "this"
  /\ UNCHANGED <<disk, config, faults>>

(* Then SetRepoIndexedAt and RecordSourceFingerprint for each member on    *)
(* disk, and SetRepoMissing for the others.                                *)
StartMarking(p) ==
  /\ pc[p] = "stampAll" /\ job[p].todo = {}
  /\ Enter(p, "markAll",
           [job[p] EXCEPT !.todo = job[p].listed \ job[p].existing])
  /\ UNCHANGED <<disk, config, repos, analyzer, faults>>

SetRepoMissing(p, m) ==
  /\ pc[p] = "markAll" /\ IsNext(p, m)
  /\ repos' = [repos EXCEPT ![m].state = "missing"]
  /\ job' = [job EXCEPT ![p].todo = @ \ {m}]
  /\ UNCHANGED <<disk, config, analyzer, pc, faults>>

EndIndexAll(p) ==
  /\ pc[p] = "markAll" /\ job[p].todo = {}
  /\ Stop(p)
  /\ UNCHANGED <<disk, config, repos, analyzer, faults>>

-----------------------------------------------------------------------------
(* Failures.                                                               *)

(* Mutant of FailMember: the error is ignored and the fingerprint recorded.*)
FailureIgnored(p, m) ==
  /\ faults > 0 /\ faults' = faults - 1
  /\ "early" \in Faults /\ pc[p] \in {"parse", "replace"}
  /\ IsNext(p, m)
  /\ Goto(p, "record")
  /\ UNCHANGED <<disk, config, repos, analyzer, job>>

(* An error of one member before its transaction ("early") or after it     *)
(* ("late"): the walk notes it and goes on.                                *)
FailMember(p, m) ==
  /\ faults > 0 /\ faults' = faults - 1
  /\ \/ "early" \in Faults /\ pc[p] \in {"parse", "replace"}
     \/ "late" \in Faults /\ pc[p] = "stamp"
  /\ IsNext(p, m)
  /\ Failed(p, m)
  /\ UNCHANGED <<disk, config, repos, analyzer>>

(* IndexAll has no such isolation: a store error ends it.                  *)
FailAll(p) ==
  /\ faults > 0 /\ faults' = faults - 1
  /\ \/ "early" \in Faults /\ pc[p] = "parseAll" /\ job[p].todo = {}
     \/ "late" \in Faults /\ pc[p] \in {"stampAll", "markAll"} /\ job[p].todo # {}
  /\ Stop(p)
  /\ UNCHANGED <<disk, config, repos, analyzer>>

Crash(p) == /\ "crash" \in Faults
            /\ faults > 0 /\ faults' = faults - 1
            /\ ~Idle(p)
            /\ Stop(p)
            /\ UNCHANGED <<disk, config, repos, analyzer>>

-----------------------------------------------------------------------------
Walk(p, m) == \/ MarkMissing(p, m) \/ CheckFails(p, m) \/ CheckMeta(p, m)
              \/ CheckSource(p, m) \/ Parse(p, m) \/ ReplaceRepo(p, m)

Both(p, m) == SetRepoIndexedAt(p, m) \/ RecordSourceFingerprint(p, m)

Step(p) == \/ EndWalk(p) \/ Answer(p)
           \/ WriteWorkspace(p) \/ StartMarking(p) \/ EndIndexAll(p)
           \/ \E m \in Members : \/ Walk(p, m) \/ Both(p, m)
                                 \/ ParseMember(p, m) \/ SetRepoMissing(p, m)

Next == \/ \E m \in Members, v \in Version : Edit(m, v)
        \/ \E c \in SUBSET Members : Reconfigure(c)
        \/ \E p \in Procs : \/ ReindexStale(p) \/ IndexAll(p) \/ Step(p)
                            \/ FailAll(p) \/ Crash(p)
        \/ \E p \in Procs, m \in Members : FailMember(p, m) \/ RecordFails(p, m)
        \/ \E p \in Servers, m \in Members : WriteSymbol(p, m)

Spec == Init /\ [][Next]_vars

(* A run that works keeps working, and agents keep asking.                 *)
Fairness == /\ \A p \in Procs : WF_vars(Step(p))
            /\ \A p \in Servers : WF_vars(ReindexStale(p))
FairSpec == Spec /\ Fairness

-----------------------------------------------------------------------------
(* Properties.                                                             *)

Label == {"idle", "visit", "hash", "parse", "replace", "stamp", "record",
          "answer", "parseAll", "stampAll", "recordAll", "markAll"}

(* Type correctness of the workspace and of every process's locals.        *)
TypeOK == /\ disk \in [Members -> Version]
          /\ config \subseteq Members
          /\ repos \in [Members -> Repo]
          /\ analyzer \in {"none", "older", "this"}
          /\ pc \in [Procs -> Label]
          /\ job \in [Procs -> Job]
          /\ faults \in 0 .. MaxFaults

(* Between m's transaction and m's fingerprint a rebuild leaves the two of *)
(* different ages.                                                         *)
HalfWay(p, m) == \/ pc[p] \in {"stamp", "record"} /\ IsNext(p, m)
                 \/ pc[p] \in {"stampAll", "recordAll"} /\ m \in job[p].todo

(* IsRepoStale's verdict on a member that is there, in one step.           *)
JudgedCurrent(m) == /\ repos[m].state = "present" /\ repos[m].indexed
                    /\ ~MetaStale(m) /\ repos[m].fp = {disk[m]}

FreshRows(m) == repos[m].rows = disk[m] /\ repos[m].by = "this"

(* A member IsRepoStale would call current has the rows this analyzer      *)
(* makes of the source in its checkout, across walks, full indexes and     *)
(* failures of other processes.                                            *)
CurrentMemberIsFresh ==
  \A m \in Members : JudgedCurrent(m) =>
    FreshRows(m) \/ \E p \in Procs : HalfWay(p, m)

Visited(p) == job[p].listed \ (job[p].todo \cup job[p].failed)
Settled(m) == IF disk[m] = 0 THEN repos[m].state = "missing" ELSE FreshRows(m)

(* One member's error never costs another its rebuild: when a walk ends,   *)
(* every member it set out to check is fresh, marked missing, or named in  *)
(* the joined error (TestReindexStaleIsolatesBrokenRepo); so a call that   *)
(* is answered is answered from fresh rows of every member there.          *)
WalkLeavesFresh ==
  \A p \in Procs :
    (pc[p] = "visit" /\ job[p].kind = "stale") \/ pc[p] = "answer" =>
      \A m \in Visited(p) : Settled(m)

(* Why both hold when nothing disturbs a run: what a run has read is the   *)
(* disk, rows are fresh from their commit to their fingerprint, members    *)
(* behind the walk are settled, and a fingerprint at rest was taken of the *)
(* version the rows are of.  (WorkspaceProofs proves this inductive.)      *)
Undisturbed == /\ ~EditsWhileBusy
               /\ Configs = {}
               /\ Faults \subseteq {"early"}
               /\ InitAnalyzers \subseteq {"none", "this"}

AtMember == {"hash", "parse", "replace", "stamp", "record"}
InFull == {"parseAll", "stampAll", "recordAll", "markAll"}
Walking(p) == /\ pc[p] \in {"visit", "answer"} \cup AtMember
              /\ job[p].kind = "stale"

ReadIsDisk(p) ==
  /\ pc[p] \in InFull => /\ job[p].listed = Members
                         /\ job[p].existing = {m \in Members : disk[m] # 0}
  /\ pc[p] = "parseAll" =>
       \A m \in Members \ job[p].todo : job[p].parsed[m] = disk[m]
  /\ pc[p] \in {"stampAll", "recordAll"} =>
       job[p].parsed = disk /\ \A m \in job[p].todo : disk[m] # 0
  /\ pc[p] = "markAll" => \A m \in job[p].todo : disk[m] = 0
  /\ \A m \in Members : pc[p] \in AtMember /\ IsNext(p, m) =>
       /\ disk[m] # 0
       /\ pc[p] \in {"replace", "stamp", "record"} =>
            job[p].parsed[m] = disk[m]

CommitIsFresh(p) ==
  \A m \in Members :
    HalfWay(p, m) \/ (pc[p] = "hash" /\ IsNext(p, m) /\ job[p].stored = {disk[m]})
      => FreshRows(m)

WalkedIsSettled(p) ==
  /\ Walking(p) => /\ \A m \in Visited(p) : Settled(m)
                   /\ \A m \in job[p].todo :
                        disk[m] # 0 => repos[m].state = "present"
  /\ pc[p] = "answer" => job[p].kind = "stale"

(* The rebuild after a symbol write takes its one member and checks none.  *)
OneIsDone(p) ==
  job[p].kind # "stale" => /\ pc[p] = "visit" => job[p].todo = {}
                           /\ pc[p] \in AtMember =>
                                /\ pc[p] # "hash"
                                /\ \A m, n \in job[p].todo : m = n

FingerprintIsOfRows ==
  \A m \in Members : repos[m].state = "present" =>
    \/ \E p \in Procs : HalfWay(p, m)
    \/ \A v \in Version : repos[m].fp = {v} =>
         repos[m].rows = v /\ repos[m].by = "this"

WorkspaceInv ==
  /\ config = Members /\ FingerprintIsOfRows
  /\ \A p \in Procs : /\ ReadIsDisk(p) /\ CommitIsFresh(p)
                       /\ WalkedIsSettled(p) /\ OneIsDone(p)

(* A walk that skips a failing or vanished member still reaches the rest,  *)
(* so every call ends, and in the end every member once indexed is fresh,  *)
(* or reported missing if its checkout is gone (for a member never indexed *)
(* see UnindexedIsIndexed).                                                *)
CallsEnd == \A p \in Servers : ~Idle(p) ~> Idle(p)
Settles == <>[](\A m \in Members : repos[m].indexed =>
                  IF disk[m] = 0 THEN repos[m].state = "missing"
                  ELSE JudgedCurrent(m) /\ FreshRows(m))

(* A member whose checkout is back is indexed again: ReindexStale          *)
(* "re-indexes every member whose indexed source no longer matches its     *)
(* checkout" (violated: a member marked missing is never visited again).   *)
ReturnedIsReindexed ==
  \A m \in Members :
    repos[m].state = "missing" /\ disk[m] # 0 ~>
      repos[m].state = "present" \/ disk[m] = 0

(* "A repo with no recorded index time is stale", so it gets indexed       *)
(* (violated: its NULL indexed_at is an error, never a verdict).           *)
UnindexedIsIndexed ==
  \A m \in Members :
    repos[m].state = "present" /\ ~repos[m].indexed ~> repos[m].indexed
=============================================================================
