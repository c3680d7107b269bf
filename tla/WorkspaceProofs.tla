-------------------------- MODULE WorkspaceProofs --------------------------
(***************************************************************************)
(* Proofs about Workspace, for every number of members, processes and      *)
(* versions: type correctness of every behaviour, and, in an environment   *)
(* that leaves a run undisturbed, that a member judged current is fresh    *)
(* and that a walk leaves every member it visited settled.                 *)
(***************************************************************************)
EXTENDS Workspace, TLAPS

(* A member has one version in the disk, and one member is next.           *)
LEMMA NextIsOne ==
  ASSUME NEW p, NEW m \in Members, NEW n \in Members, IsNext(p, m), IsNext(p, n)
  PROVE  m = n
  BY MembersAssumption DEF IsNext

LEMMA NewJobType ==
  /\ NoJob \in Job
  /\ \A kind \in {"stale", "one", "all"}, s \in SUBSET Members :
       NewJob(kind, s) \in Job
<1>1. \A kind \in {"stale", "one", "all"}, s \in SUBSET Members :
        NewJob(kind, s) \in Job
  BY BoundsAssumption DEF NewJob, Job, Version
<1> QED
  BY <1>1 DEF NoJob

(* The records the actions enter a label with are well typed, and differ   *)
(* from the locals they start from only in the fields they name.           *)
LEMMA WithTodo ==
  ASSUME NEW j \in Job, NEW t \in SUBSET Members
  PROVE  LET r == [j EXCEPT !.todo = t]
         IN  /\ r \in Job /\ r.todo = t
             /\ r.kind = j.kind /\ r.listed = j.listed /\ r.existing = j.existing
             /\ r.parsed = j.parsed /\ r.stored = j.stored /\ r.failed = j.failed
  BY DEF Job

LEMMA WithStored ==
  ASSUME NEW j \in Job, NEW f \in SUBSET Version
  PROVE  LET r == [j EXCEPT !.stored = f]
         IN  /\ r \in Job /\ r.stored = f /\ r.todo = j.todo
             /\ r.kind = j.kind /\ r.listed = j.listed /\ r.failed = j.failed
  BY DEF Job

LEMMA WithParsed ==
  ASSUME NEW j \in Job, NEW m \in Members, NEW v \in Version
  PROVE  LET r == [j EXCEPT !.parsed[m] = v]
         IN  /\ r \in Job /\ r.parsed = [j.parsed EXCEPT ![m] = v]
             /\ r.todo = j.todo /\ r.existing = j.existing
             /\ r.kind = j.kind /\ r.listed = j.listed /\ r.failed = j.failed
  BY DEF Job

(* What one process's step does to the processes.                          *)
OthersSame(p) == \A q \in Procs \ {p} : pc'[q] = pc[q] /\ job'[q] = job[q]
At(p, label, j) == /\ pc' \in [Procs -> Label] /\ job' \in [Procs -> Job]
                   /\ OthersSame(p)
                   /\ pc'[p] = label /\ job'[p] = j

LEMMA EnterEffect ==
  ASSUME TypeOK, NEW p \in Procs, NEW label \in Label, NEW j \in Job,
         Enter(p, label, j)
  PROVE  At(p, label, j)
  BY DEF TypeOK, Enter, Goto, At, OthersSame

LEMMA GotoEffect ==
  ASSUME TypeOK, NEW p \in Procs, NEW label \in Label, Goto(p, label),
         UNCHANGED job
  PROVE  At(p, label, job[p])
  BY DEF TypeOK, Goto, At, OthersSame

LEMMA DoneEffect ==
  ASSUME TypeOK, NEW p \in Procs, NEW m \in Members, Done(p, m)
  PROVE  /\ At(p, "visit", [job[p] EXCEPT !.todo = @ \ {m}])
         /\ job'[p].todo = job[p].todo \ {m} /\ job'[p].kind = job[p].kind
         /\ job'[p].listed = job[p].listed /\ job'[p].failed = job[p].failed
<1>1. job[p] \in Job /\ job[p].todo \ {m} \in SUBSET Members
  BY DEF TypeOK, Job
<1> DEFINE r == [job[p] EXCEPT !.todo = job[p].todo \ {m}]
<1>2. /\ r \in Job /\ r.todo = job[p].todo \ {m} /\ r.kind = job[p].kind
      /\ r.listed = job[p].listed /\ r.failed = job[p].failed
  BY <1>1, WithTodo
<1>3. Enter(p, "visit", r)
  BY DEF Done
<1>4. At(p, "visit", r)
  BY <1>2, <1>3, EnterEffect DEF Label
<1> QED
  BY <1>2, <1>4 DEF At

LEMMA FailedEffect ==
  ASSUME TypeOK, NEW p \in Procs, NEW m \in Members, Failed(p, m)
  PROVE  /\ At(p, "visit", job'[p])
         /\ job'[p].todo = job[p].todo \ {m} /\ job'[p].kind = job[p].kind
         /\ job'[p].listed = job[p].listed
         /\ job'[p].failed = job[p].failed \cup {m}
<1>1. /\ job[p] \in Job /\ job[p].todo \ {m} \in SUBSET Members
      /\ job[p].failed \cup {m} \in SUBSET Members
  BY DEF TypeOK, Job
<1> DEFINE r == [job[p] EXCEPT !.todo = job[p].todo \ {m},
                               !.failed = job[p].failed \cup {m}]
<1>2. /\ r \in Job /\ r.todo = job[p].todo \ {m} /\ r.kind = job[p].kind
      /\ r.listed = job[p].listed /\ r.failed = job[p].failed \cup {m}
  BY <1>1 DEF Job
<1>3. Enter(p, "visit", r)
  BY DEF Failed
<1>4. At(p, "visit", r)
  BY <1>2, <1>3, EnterEffect DEF Label
<1> QED
  BY <1>2, <1>4 DEF At

LEMMA StopEffect == ASSUME TypeOK, NEW p \in Procs, Stop(p)
                    PROVE  At(p, "idle", NoJob)
  BY NewJobType, EnterEffect DEF Stop, Label

LEMMA IndexAllEffect ==
  ASSUME TypeOK, NEW p \in Procs, IndexAll(p)
  PROVE  /\ At(p, "parseAll", job'[p])
         /\ job'[p].kind = "all" /\ job'[p].listed = config
         /\ job'[p].existing = OnDisk /\ job'[p].todo = OnDisk
         /\ job'[p].parsed = [m \in Members |-> 0]
<1>1. config \in SUBSET Members /\ OnDisk \in SUBSET Members
  BY DEF TypeOK, OnDisk
<1> DEFINE n == NewJob("all", config)
           r == [n EXCEPT !.existing = OnDisk, !.todo = OnDisk]
<1>2. n \in Job
  BY <1>1, NewJobType
<1>3. r \in Job /\ r.existing = OnDisk /\ r.todo = OnDisk
  BY <1>1, <1>2 DEF Job
<1>4. r.kind = "all" /\ r.listed = config /\ r.parsed = [m \in Members |-> 0]
  BY DEF NewJob
<1>5. At(p, "parseAll", r)
  BY <1>3, EnterEffect DEF IndexAll, Label
<1> QED
  BY <1>3, <1>4, <1>5 DEF At

(* ParseMember reads one member into the locals.                           *)
LEMMA ParseMemberEffect ==
  ASSUME TypeOK, NEW p \in Procs, NEW m \in Members, ParseMember(p, m)
  PROVE  /\ At(p, "parseAll", job'[p])
         /\ job'[p].parsed = [job[p].parsed EXCEPT ![m] = disk[m]]
         /\ job'[p].todo = job[p].todo \ {m} /\ job'[p].kind = job[p].kind
         /\ job'[p].listed = job[p].listed /\ job'[p].existing = job[p].existing
<1> DEFINE v == [job[p].parsed EXCEPT ![m] = disk[m]]
           r == [[job[p] EXCEPT !.todo = job[p].todo \ {m}] EXCEPT !.parsed = v]
<1>1. job[p] \in Job /\ v \in [Members -> Version]
  BY DEF TypeOK, Job
<1>2. job' = [job EXCEPT ![p] = r]
  BY <1>1 DEF ParseMember, TypeOK, Job
<1>3. r \in Job
  BY <1>1 DEF Job
<1>4. At(p, "parseAll", r)
  BY <1>2, <1>3 DEF ParseMember, At, OthersSame, TypeOK, Label
<1>5. /\ r.parsed = v /\ r.todo = job[p].todo \ {m} /\ r.kind = job[p].kind
      /\ r.listed = job[p].listed /\ r.existing = job[p].existing
  BY <1>1 DEF Job
<1> QED
  BY <1>4, <1>5 DEF At

(* StartMarking, WriteWorkspace and SetRepoMissing change todo only.       *)
LEMMA TodoEffect ==
  ASSUME TypeOK, NEW p \in Procs, NEW label \in Label, NEW t \in SUBSET Members,
         Enter(p, label, [job[p] EXCEPT !.todo = t])
  PROVE  /\ At(p, label, job'[p])
         /\ job'[p].todo = t /\ job'[p].kind = job[p].kind
         /\ job'[p].listed = job[p].listed /\ job'[p].existing = job[p].existing
         /\ job'[p].parsed = job[p].parsed /\ job'[p].failed = job[p].failed
<1> DEFINE r == [job[p] EXCEPT !.todo = t]
<1>1. /\ r \in Job /\ r.todo = t /\ r.kind = job[p].kind
      /\ r.listed = job[p].listed /\ r.existing = job[p].existing
      /\ r.parsed = job[p].parsed /\ r.failed = job[p].failed
  BY WithTodo DEF TypeOK
<1>2. At(p, label, r)
  BY <1>1, EnterEffect
<1> QED
  BY <1>1, <1>2 DEF At

LEMMA WriteWorkspaceEffect ==
  ASSUME TypeOK, NEW p \in Procs, WriteWorkspace(p)
  PROVE  /\ At(p, "stampAll", job'[p])
         /\ job'[p].todo = job[p].existing /\ job'[p].existing = job[p].existing
         /\ job'[p].listed = job[p].listed /\ job'[p].parsed = job[p].parsed
<1>1. job[p].existing \in SUBSET Members
  BY DEF TypeOK, Job
<1>2. Enter(p, "stampAll", [job[p] EXCEPT !.todo = job[p].existing])
  BY DEF WriteWorkspace
<1>3. "stampAll" \in Label
  BY DEF Label
<1> QED
  BY <1>1, <1>2, <1>3, TodoEffect

LEMMA StartMarkingEffect ==
  ASSUME TypeOK, NEW p \in Procs, StartMarking(p)
  PROVE  /\ At(p, "markAll", job'[p])
         /\ job'[p].todo = job[p].listed \ job[p].existing
         /\ job'[p].existing = job[p].existing
         /\ job'[p].listed = job[p].listed
<1>1. job[p].listed \ job[p].existing \in SUBSET Members
  BY DEF TypeOK, Job
<1> QED
  BY <1>1, TodoEffect DEF StartMarking, Label

LEMMA SetRepoMissingEffect ==
  ASSUME TypeOK, NEW p \in Procs, NEW m \in Members, SetRepoMissing(p, m)
  PROVE  /\ At(p, "markAll", job'[p])
         /\ job'[p].todo = job[p].todo \ {m}
         /\ job'[p].existing = job[p].existing
         /\ job'[p].listed = job[p].listed
<1>1. job[p] \in Job /\ job[p].todo \ {m} \in SUBSET Members
  BY DEF TypeOK, Job
<1> DEFINE r == [job[p] EXCEPT !.todo = job[p].todo \ {m}]
<1>2. r \in Job /\ r.todo = job[p].todo \ {m} /\ r.existing = job[p].existing
      /\ r.listed = job[p].listed
  BY <1>1, WithTodo
<1>3. job' = [job EXCEPT ![p] = r]
  BY <1>1 DEF SetRepoMissing, TypeOK
<1>4. At(p, "markAll", r)
  BY <1>2, <1>3 DEF SetRepoMissing, At, OthersSame, TypeOK, Label
<1> QED
  BY <1>2, <1>4 DEF At

(* The locals after a fingerprint was recorded, or its failure dropped.    *)
LEMMA RecordedEffect ==
  ASSUME TypeOK, NEW p \in Procs, NEW m \in Members, Recorded(p, m)
  PROVE  /\ At(p, IF pc[p] = "record" THEN "visit" ELSE "stampAll", job'[p])
         /\ job'[p].todo = job[p].todo \ {m} /\ job'[p].kind = job[p].kind
         /\ job'[p].listed = job[p].listed /\ job'[p].existing = job[p].existing
         /\ job'[p].parsed = job[p].parsed /\ job'[p].failed = job[p].failed
<1>1. job[p].todo \ {m} \in SUBSET Members
  BY DEF TypeOK, Job
<1> DEFINE label == IF pc[p] = "record" THEN "visit" ELSE "stampAll"
<1>2. Enter(p, label, [job[p] EXCEPT !.todo = job[p].todo \ {m}])
  BY DEF Recorded, Done
<1>3. label \in Label
  BY DEF Label
<1> HIDE DEF label
<1>4. /\ At(p, label, job'[p])
      /\ job'[p].todo = job[p].todo \ {m} /\ job'[p].kind = job[p].kind
      /\ job'[p].listed = job[p].listed /\ job'[p].existing = job[p].existing
      /\ job'[p].parsed = job[p].parsed /\ job'[p].failed = job[p].failed
  BY <1>1, <1>2, <1>3, TodoEffect
<1> QED
  BY <1>4 DEF label

LEMMA CheckMetaEffect ==
  ASSUME TypeOK, NEW p \in Procs, NEW m \in Members, CheckMeta(p, m)
  PROVE  /\ At(p, IF MetaStale(m) THEN "parse" ELSE "hash", job'[p])
         /\ ~MetaStale(m) => job'[p].stored = repos[m].fp
         /\ job'[p].todo = job[p].todo /\ job'[p].kind = job[p].kind
         /\ job'[p].listed = job[p].listed /\ job'[p].failed = job[p].failed
<1>1. job[p] \in Job /\ repos[m].fp \in SUBSET Version
  BY DEF TypeOK, Repo
<1>2. CASE MetaStale(m)
  BY <1>2, GotoEffect DEF CheckMeta, Label, At
<1>3. CASE ~MetaStale(m)
  <2> DEFINE r == [job[p] EXCEPT !.stored = repos[m].fp]
  <2>1. /\ r \in Job /\ r.stored = repos[m].fp /\ r.todo = job[p].todo
        /\ r.kind = job[p].kind /\ r.listed = job[p].listed
        /\ r.failed = job[p].failed
    BY <1>1, WithStored
  <2>2. At(p, "hash", r)
    BY <1>3, <2>1, EnterEffect DEF CheckMeta, Label
  <2> QED
    BY <1>3, <2>1, <2>2 DEF At
<1> QED
  BY <1>2, <1>3

LEMMA ParseEffect ==
  ASSUME TypeOK, NEW p \in Procs, NEW m \in Members, Parse(p, m)
  PROVE  /\ At(p, "replace", job'[p])
         /\ job'[p].parsed = [job[p].parsed EXCEPT ![m] = disk[m]]
         /\ job'[p].todo = job[p].todo /\ job'[p].kind = job[p].kind
         /\ job'[p].listed = job[p].listed /\ job'[p].failed = job[p].failed
<1>1. job[p] \in Job /\ disk[m] \in Version
  BY DEF TypeOK
<1> DEFINE r == [job[p] EXCEPT !.parsed[m] = disk[m]]
<1>2. /\ r \in Job /\ r.parsed = [job[p].parsed EXCEPT ![m] = disk[m]]
      /\ r.todo = job[p].todo /\ r.kind = job[p].kind
      /\ r.listed = job[p].listed /\ r.failed = job[p].failed
  BY <1>1, WithParsed
<1>3. At(p, "replace", r)
  BY <1>2, EnterEffect DEF Parse, Label
<1> QED
  BY <1>2, <1>3 DEF At

-----------------------------------------------------------------------------
(* Type correctness.                                                       *)

LEMMA InitType == Init => TypeOK
<1> SUFFICES ASSUME Init PROVE TypeOK
  OBVIOUS
<1>1. disk \in [Members -> Version]
  BY BoundsAssumption DEF Init, Version
<1>2. \A a \in InitAnalyzers, v \in Version : IndexedBy(a, v) \in Repo
  BY BoundsAssumption DEF IndexedBy, Unregistered, Repo, Version
<1>3. config \subseteq Members
  BY MembersAssumption DEF Init
<1>4. repos \in [Members -> Repo] /\ analyzer \in {"none", "older", "this"}
  <2>1. Unregistered \in Repo
    BY BoundsAssumption DEF Unregistered, Repo, Version
  <2>2. PICK a \in InitAnalyzers :
          /\ analyzer = a
          /\ repos = [m \in Members |->
               IF m \in config THEN IndexedBy(a, disk[m]) ELSE Unregistered]
    BY DEF Init
  <2>3. \A m \in Members : repos[m] \in Repo
    BY <1>1, <1>2, <2>1, <2>2
  <2> QED
    BY <2>2, <2>3, BoundsAssumption
<1>5. faults \in 0 .. MaxFaults
  BY BoundsAssumption DEF Init
<1> QED
  BY <1>1, <1>3, <1>4, <1>5, NewJobType DEF Init, TypeOK, Label

(* What a step may do to the database and the disk, whatever the process.  *)
DataType == /\ disk' \in [Members -> Version]
            /\ config' \subseteq Members
            /\ repos' \in [Members -> Repo]
            /\ analyzer' \in {"none", "older", "this"}
            /\ faults' \in 0 .. MaxFaults

LEMMA Typed == ASSUME DataType, NEW p, NEW label, NEW j, At(p, label, j)
               PROVE  TypeOK'
  BY DEF DataType, At, TypeOK

LEMMA DataKept ==
  ASSUME TypeOK, UNCHANGED <<disk, config, repos, analyzer, faults>>
  PROVE  DataType
  BY DEF TypeOK, DataType

(* ReplaceRepo's transaction changes two columns of one row.               *)
LEMMA ReplaceRepoEffect ==
  ASSUME TypeOK, NEW p \in Procs, NEW m \in Members, ReplaceRepo(p, m)
  PROVE  /\ repos' \in [Members -> Repo]
         /\ repos'[m].rows = job[p].parsed[m] /\ repos'[m].by = "this"
         /\ repos'[m].state = repos[m].state /\ repos'[m].fp = repos[m].fp
         /\ repos'[m].indexed = repos[m].indexed
         /\ \A n \in Members \ {m} : repos'[n] = repos[n]
<1> DEFINE v == job[p].parsed[m]
           r == [[repos[m] EXCEPT !.rows = v] EXCEPT !.by = "this"]
<1>1. repos[m] \in Repo /\ v \in Version
  BY DEF TypeOK, Job
<1>2. /\ r \in Repo /\ r.rows = v /\ r.by = "this" /\ r.fp = repos[m].fp
      /\ r.state = repos[m].state /\ r.indexed = repos[m].indexed
  BY <1>1 DEF Repo
<1>3. repos' = [repos EXCEPT ![m] = r]
  BY <1>1 DEF ReplaceRepo, TypeOK, Repo
<1> HIDE DEF r
<1> QED
  BY <1>2, <1>3 DEF TypeOK

LEMMA HashedType ==
  ASSUME TypeOK, NEW p \in Procs, NEW m \in Members
  PROVE  Hashed(p, m) \in SUBSET Version
  BY DEF TypeOK, Hashed, Job

(* Every step keeps the types.                                             *)
LEMMA StepType == TypeOK /\ [Next]_vars => TypeOK'
<1> SUFFICES ASSUME TypeOK, [Next]_vars PROVE TypeOK'
  OBVIOUS
<1>1. ASSUME NEW m \in Members, NEW v \in Version, Edit(m, v) PROVE TypeOK'
  BY <1>1 DEF Edit, TypeOK
<1>2. ASSUME NEW c \in SUBSET Members, Reconfigure(c) PROVE TypeOK'
  BY <1>2 DEF Reconfigure, TypeOK
<1>3. ASSUME NEW p \in Procs, ReindexStale(p) PROVE TypeOK'
  <2>1. NewJob("stale", {m \in Members : repos[m].state = "present"}) \in Job
    BY NewJobType
  <2> QED
    BY <1>3, <2>1, EnterEffect, Typed, DataKept DEF ReindexStale, Label
<1>4. ASSUME NEW p \in Procs, IndexAll(p) PROVE TypeOK'
  BY <1>4, IndexAllEffect, Typed, DataKept DEF IndexAll
<1>5. ASSUME NEW p \in Procs, EndWalk(p) PROVE TypeOK'
  <2>1. DataType
    BY <1>5, DataKept DEF EndWalk
  <2>2. CASE Goto(p, "answer") /\ UNCHANGED job
    BY <2>1, <2>2, GotoEffect, Typed DEF Label
  <2>3. CASE Stop(p)
    BY <2>1, <2>3, StopEffect, Typed
  <2> QED
    BY <1>5, <2>2, <2>3 DEF EndWalk
<1>6. ASSUME NEW p \in Procs, Answer(p) \/ EndIndexAll(p) PROVE TypeOK'
  BY <1>6, StopEffect, Typed, DataKept DEF Answer, EndIndexAll
<1>7. ASSUME NEW p \in Procs, WriteWorkspace(p) PROVE TypeOK'
  <2>1. ASSUME NEW m \in Members PROVE repos'[m] \in Repo
    <3>1. /\ repos[m] \in Repo /\ job[p] \in Job /\ disk[m] \in Version
          /\ job[p].parsed[m] \in Version /\ 0 \in Version
      BY BoundsAssumption DEF TypeOK, Job, Version
    <3>2. CASE m \notin job[p].listed
      <4>1. repos'[m] = [repos[m] EXCEPT !.rows = 0]
        BY <1>7, <3>2 DEF WriteWorkspace
      <4> QED
        BY <3>1, <4>1 DEF Repo
    <3>3. CASE m \in job[p].listed
      <4> DEFINE state == IF m \in job[p].existing THEN "present" ELSE "missing"
      <4>1. repos'[m] = [state |-> state, indexed |-> repos[m].indexed,
                         rows |-> job[p].parsed[m], by |-> "this",
                         fp |-> repos[m].fp]
        BY <1>7, <3>3 DEF WriteWorkspace
      <4>2. state \in {"unknown", "present", "missing"}
        OBVIOUS
      <4>3. repos[m].indexed \in BOOLEAN /\ repos[m].fp \in SUBSET Version
        BY <3>1 DEF Repo
      <4> HIDE DEF state
      <4> QED
        BY <3>1, <4>1, <4>2, <4>3 DEF Repo
    <3> QED
      BY <3>2, <3>3
  <2>2. DataType
    BY <1>7, <2>1 DEF WriteWorkspace, TypeOK, DataType
  <2> QED
    BY <1>7, <2>2, WriteWorkspaceEffect, Typed
<1>8. ASSUME NEW p \in Procs, StartMarking(p) PROVE TypeOK'
  BY <1>8, StartMarkingEffect, Typed, DataKept DEF StartMarking
<1>9. ASSUME NEW p \in Procs, NEW m \in Members, Walk(p, m) PROVE TypeOK'
  <2>1. CASE MarkMissing(p, m)
    <3>1. DataType
      BY <2>1 DEF MarkMissing, DataType, TypeOK, Repo
    <3> QED
      BY <2>1, <3>1, DoneEffect, Typed DEF MarkMissing
  <2>2. CASE CheckFails(p, m)
    BY <2>2, FailedEffect, Typed, DataKept DEF CheckFails
  <2>3. CASE CheckMeta(p, m)
    BY <2>3, CheckMetaEffect, Typed, DataKept DEF CheckMeta
  <2>4. CASE CheckSource(p, m)
    <3>1. DataType
      BY <2>4, DataKept DEF CheckSource
    <3>2. CASE Done(p, m)
      BY <3>1, <3>2, DoneEffect, Typed
    <3>3. CASE Goto(p, "parse") /\ UNCHANGED job
      BY <3>1, <3>3, GotoEffect, Typed DEF Label
    <3> QED
      BY <2>4, <3>2, <3>3 DEF CheckSource
  <2>5. CASE Parse(p, m)
    BY <2>5, ParseEffect, Typed, DataKept DEF Parse
  <2>6. CASE ReplaceRepo(p, m)
    <3>1. DataType
      BY <2>6, ReplaceRepoEffect DEF ReplaceRepo, DataType, TypeOK
    <3> QED
      BY <2>6, <3>1, GotoEffect, Typed DEF ReplaceRepo, Label
  <2> QED
    BY <1>9, <2>1, <2>2, <2>3, <2>4, <2>5, <2>6 DEF Walk
<1>10. ASSUME NEW p \in Procs, NEW m \in Members, SetRepoIndexedAt(p, m)
       PROVE TypeOK'
  <2>1. DataType
    BY <1>10 DEF SetRepoIndexedAt, DataType, TypeOK, Repo
  <2> QED
    BY <1>10, <2>1, GotoEffect, Typed DEF SetRepoIndexedAt, Label
<1>11. ASSUME NEW p \in Procs, NEW m \in Members, RecordSourceFingerprint(p, m)
       PROVE TypeOK'
  <2>1. DataType
    BY <1>11, HashedType
    DEF RecordSourceFingerprint, Recorded, DataType, TypeOK, Repo
  <2> QED
    BY <1>11, <2>1, RecordedEffect, Typed DEF RecordSourceFingerprint
<1>12. ASSUME NEW p \in Procs, NEW m \in Members, ParseMember(p, m)
       PROVE TypeOK'
  BY <1>12, ParseMemberEffect, Typed, DataKept DEF ParseMember
<1>13. ASSUME NEW p \in Procs, NEW m \in Members, SetRepoMissing(p, m)
       PROVE TypeOK'
  <2>1. DataType
    BY <1>13 DEF SetRepoMissing, DataType, TypeOK, Repo
  <2> QED
    BY <1>13, <2>1, SetRepoMissingEffect, Typed
<1>14. ASSUME faults > 0, faults' = faults - 1,
              UNCHANGED <<disk, config, repos, analyzer>>
       PROVE DataType
  BY <1>14, BoundsAssumption DEF DataType, TypeOK
<1>15. ASSUME NEW p \in Procs, FailAll(p) \/ Crash(p) PROVE TypeOK'
  BY <1>14, <1>15, StopEffect, Typed DEF FailAll, Crash
<1>16. ASSUME NEW p \in Procs, NEW m \in Members, FailMember(p, m) PROVE TypeOK'
  BY <1>14, <1>16, FailedEffect, Typed DEF FailMember
<1>17. ASSUME NEW p \in Procs, NEW m \in Members, RecordFails(p, m) PROVE TypeOK'
  BY <1>14, <1>17, RecordedEffect, Typed DEF RecordFails, Recorded
<1>18. ASSUME NEW p \in Servers, NEW m \in Members, WriteSymbol(p, m) PROVE TypeOK'
  <2>1. p \in Procs /\ NewJob("one", {m}) \in Job
    BY NewJobType DEF Procs
  <2>2. disk'[m] \in Version /\ DataType
    BY <1>18, BoundsAssumption DEF WriteSymbol, TypeOK, Version, DataType
  <2> QED
    BY <1>18, <2>1, <2>2, EnterEffect, Typed DEF WriteSymbol, Label
<1>19. CASE UNCHANGED vars
  BY <1>19 DEF vars, TypeOK
<1> QED
  BY <1>1, <1>2, <1>3, <1>4, <1>5, <1>6, <1>7, <1>8, <1>9, <1>10, <1>11, <1>12,
     <1>13, <1>15, <1>16, <1>17, <1>18, <1>19 DEF Next, Step, Both

(* Type correctness: no sequence of walks, full indexes, edits and         *)
(* failures leaves a value outside its type.                               *)
THEOREM TypeCorrect == Spec => []TypeOK
  BY InitType, StepType, PTL DEF Spec

-----------------------------------------------------------------------------
(* Freshness, in an environment that leaves a run undisturbed.             *)

OwnInv(p) == ReadIsDisk(p) /\ CommitIsFresh(p) /\ WalkedIsSettled(p) /\ OneIsDone(p)

(* A step of one process undoes nothing another one relies on.             *)
Healthy == /\ disk' = disk /\ config' = config
           /\ \A m \in Members :
                /\ FreshRows(m) => FreshRows(m)'
                /\ disk[m] = 0 /\ repos[m].state = "missing"
                     => repos'[m].state = "missing"
                /\ disk[m] # 0 /\ repos[m].state = "present"
                     => repos'[m].state = "present"

LEMMA OthersKeepInv ==
  ASSUME TypeOK, Healthy, NEW q \in Procs, pc'[q] = pc[q], job'[q] = job[q], OwnInv(q)
  PROVE  OwnInv(q)'
<1>1. \A m \in Members : /\ HalfWay(q, m)' <=> HalfWay(q, m)
                         /\ IsNext(q, m)' <=> IsNext(q, m)
  BY DEF HalfWay, IsNext
<1>2. \A m \in Members : Settled(m) => Settled(m)'
  BY DEF Healthy, Settled
<1>3. ReadIsDisk(q)'
  BY <1>1 DEF OwnInv, Healthy, ReadIsDisk
<1>4. CommitIsFresh(q)'
  BY <1>1 DEF OwnInv, Healthy, CommitIsFresh
<1>5. WalkedIsSettled(q)'
  <2>1. ASSUME Walking(q)'
        PROVE  /\ \A m \in Visited(q)' : Settled(m)'
               /\ \A m \in job'[q].todo : disk'[m] # 0 => repos'[m].state = "present"
    <3>1. Walking(q) /\ job[q].todo \subseteq Members /\ Visited(q) \subseteq Members
      BY <2>1 DEF Walking, Visited, TypeOK, Job
    <3>2. Visited(q)' = Visited(q)
      BY DEF Visited
    <3> QED
      BY <1>2, <3>1, <3>2 DEF OwnInv, WalkedIsSettled, Healthy
  <2> QED
    BY <2>1 DEF OwnInv, WalkedIsSettled
<1>6. OneIsDone(q)'
  BY DEF OwnInv, OneIsDone
<1> QED
  BY <1>3, <1>4, <1>5, <1>6 DEF OwnInv

(* What is left to show of a step: its own process and the fingerprints.   *)
LEMMA Lift ==
  ASSUME TypeOK, WorkspaceInv, NEW p \in Procs, OthersSame(p), Healthy,
         OwnInv(p)', FingerprintIsOfRows'
  PROVE  WorkspaceInv'
<1>1. ASSUME NEW q \in Procs PROVE OwnInv(q)'
  <2>1. CASE q = p
    BY <2>1
  <2>2. CASE q # p
    BY <2>2, OthersKeepInv DEF OthersSame, WorkspaceInv, OwnInv
  <2> QED
    BY <2>1, <2>2
<1> QED
  BY <1>1 DEF WorkspaceInv, OwnInv, Healthy

(* The same for a step that leaves the member table alone and is not the   *)
(* end of a rebuild.                                                       *)
LEMMA LiftReading ==
  ASSUME TypeOK, WorkspaceInv, NEW p \in Procs, OthersSame(p), OwnInv(p)',
         UNCHANGED <<disk, config, repos>>,
         \A m \in Members : HalfWay(p, m) => HalfWay(p, m)'
  PROVE  WorkspaceInv'
<1>1. Healthy
  BY DEF Healthy, FreshRows
<1>2. FingerprintIsOfRows'
  <2>1. \A q \in Procs, m \in Members : HalfWay(q, m) => HalfWay(q, m)'
    BY DEF OthersSame, HalfWay, IsNext
  <2> QED
    BY <2>1 DEF WorkspaceInv, FingerprintIsOfRows
<1> QED
  BY <1>1, <1>2, Lift

(* A process that stops relies on nothing.                                 *)
LEMMA StoppedInv == ASSUME NEW p, pc'[p] = "idle", job'[p] = NoJob
                    PROVE  OwnInv(p)'
  BY DEF OwnInv, ReadIsDisk, CommitIsFresh, WalkedIsSettled, OneIsDone, Walking,
         HalfWay, InFull, AtMember, NoJob, NewJob

(* So does one at a visit, once its settled members are accounted for.     *)
LEMMA VisitInv ==
  ASSUME NEW p, pc'[p] = "visit", OneIsDone(p)', WalkedIsSettled(p)'
  PROVE  OwnInv(p)'
  BY DEF OwnInv, ReadIsDisk, CommitIsFresh, HalfWay, InFull, AtMember

LEMMA StopSteps ==
  ASSUME TypeOK, WorkspaceInv, NEW p \in Procs, Stop(p),
         UNCHANGED <<disk, config, repos>>,
         \A m \in Members : ~HalfWay(p, m)
  PROVE  WorkspaceInv'
  BY StopEffect, StoppedInv, LiftReading DEF At

(* Idle processes are neither half way nor anywhere else.                  *)
LEMMA NotHalfWay ==
  ASSUME NEW p, pc[p] \notin {"stamp", "record", "stampAll", "recordAll"}
  PROVE  \A m \in Members : ~HalfWay(p, m)
  BY DEF HalfWay

LEMMA StartSteps ==
  ASSUME TypeOK, WorkspaceInv, Undisturbed, NEW p \in Procs
  PROVE  /\ ReindexStale(p) => WorkspaceInv'
         /\ IndexAll(p) => WorkspaceInv'
<1>1. ASSUME ReindexStale(p) PROVE WorkspaceInv'
  <2> DEFINE present == {m \in Members : repos[m].state = "present"}
  <2>1. NewJob("stale", present) \in Job
    BY NewJobType
  <2>2. At(p, "visit", NewJob("stale", present))
    BY <1>1, <2>1, EnterEffect DEF ReindexStale, Label
  <2>3. /\ job'[p].kind = "stale" /\ job'[p].listed = present
        /\ job'[p].todo = present /\ job'[p].failed = {}
    BY <2>2 DEF At, NewJob
  <2>4. Visited(p)' = {}
    BY <2>3 DEF Visited
  <2>5. WalkedIsSettled(p)' /\ OneIsDone(p)'
    BY <1>1, <2>2, <2>3, <2>4 DEF WalkedIsSettled, OneIsDone, ReindexStale, At
  <2>6. \A m \in Members : ~HalfWay(p, m)
    BY <1>1, NotHalfWay DEF ReindexStale, Idle
  <2> QED
    BY <1>1, <2>2, <2>5, <2>6, VisitInv, LiftReading DEF At, ReindexStale
<1>2. ASSUME IndexAll(p) PROVE WorkspaceInv'
  <2>1. /\ OthersSame(p) /\ pc'[p] = "parseAll" /\ job'[p].kind = "all"
        /\ job'[p].listed = config /\ job'[p].existing = OnDisk
        /\ job'[p].todo = OnDisk /\ job'[p].parsed = [m \in Members |-> 0]
        /\ config = Members /\ disk' = disk /\ config' = config /\ repos' = repos
    BY <1>2, IndexAllEffect DEF At, IndexAll, WorkspaceInv
  <2>2. ReadIsDisk(p)'
    BY <2>1 DEF ReadIsDisk, OnDisk, InFull, AtMember
  <2>3. CommitIsFresh(p)' /\ WalkedIsSettled(p)' /\ OneIsDone(p)'
    BY <2>1 DEF CommitIsFresh, HalfWay, WalkedIsSettled, Walking, OneIsDone, AtMember
  <2>4. \A m \in Members : ~HalfWay(p, m)
    BY <1>2, NotHalfWay DEF IndexAll, Idle
  <2> QED
    BY <2>1, <2>2, <2>3, <2>4, LiftReading DEF OwnInv
<1> QED
  BY <1>1, <1>2

LEMMA EndSteps ==
  ASSUME TypeOK, WorkspaceInv, NEW p \in Procs
  PROVE  /\ EndWalk(p) => WorkspaceInv'
         /\ Answer(p) => WorkspaceInv'
         /\ EndIndexAll(p) => WorkspaceInv'
<1>1. ASSUME EndWalk(p) PROVE WorkspaceInv'
  <2>1. \A m \in Members : ~HalfWay(p, m)
    BY <1>1, NotHalfWay DEF EndWalk
  <2>2. CASE Stop(p)
    BY <1>1, <2>1, <2>2, StopSteps DEF EndWalk
  <2>3. CASE job[p].kind = "stale" /\ Goto(p, "answer") /\ UNCHANGED job
    <3>1. At(p, "answer", job[p])
      BY <2>3, GotoEffect DEF Label
    <3>2. pc[p] = "visit" /\ pc'[p] = "answer" /\ job'[p] = job[p] /\ repos' = repos
          /\ disk' = disk
      BY <1>1, <3>1 DEF EndWalk, At
    <3>3. WalkedIsSettled(p)'
      BY <2>3, <3>2 DEF WorkspaceInv, WalkedIsSettled, Walking, Visited, Settled,
                        FreshRows
    <3>4. OwnInv(p)'
      BY <2>3, <3>2, <3>3 DEF OwnInv, ReadIsDisk, CommitIsFresh, HalfWay, InFull,
                              AtMember, OneIsDone
    <3> QED
      BY <1>1, <2>1, <3>1, <3>4, LiftReading DEF At, EndWalk
  <2> QED
    BY <1>1, <2>2, <2>3 DEF EndWalk
<1>2. ASSUME Answer(p) PROVE WorkspaceInv'
  BY <1>2, NotHalfWay, StopSteps DEF Answer
<1>3. ASSUME EndIndexAll(p) PROVE WorkspaceInv'
  BY <1>3, NotHalfWay, StopSteps DEF EndIndexAll
<1> QED
  BY <1>1, <1>2, <1>3

(* The walk goes on to the next member: this one is settled, or noted.     *)
LEMMA NextMember ==
  ASSUME TypeOK, WorkspaceInv, NEW p \in Procs, NEW m \in Members, IsNext(p, m),
         pc[p] \in {"visit"} \cup AtMember, pc'[p] = "visit", Healthy,
         job'[p].todo = job[p].todo \ {m}, job'[p].kind = job[p].kind,
         job'[p].listed = job[p].listed, job[p].failed \subseteq job'[p].failed,
         Settled(m)' \/ m \in job'[p].failed
  PROVE  OwnInv(p)'
<1>1. OneIsDone(p)'
  BY DEF WorkspaceInv, OneIsDone, IsNext, AtMember
<1>2. WalkedIsSettled(p)'
  <2>1. ASSUME job'[p].kind = "stale", NEW n \in Visited(p)' PROVE Settled(n)'
    <3>1. CASE n = m
      BY <2>1, <3>1 DEF Visited
    <3>2. CASE n # m
      <4>1. n \in Visited(p) /\ Walking(p) /\ n \in Members
        BY <2>1, <3>2 DEF Visited, Walking, TypeOK, Job
      <4>2. Settled(n)
        BY <4>1 DEF WorkspaceInv, WalkedIsSettled
      <4> QED
        BY <4>1, <4>2 DEF Healthy, Settled
    <3> QED
      BY <3>1, <3>2
  <2>2. ASSUME job'[p].kind = "stale", NEW n \in job'[p].todo, disk'[n] # 0
        PROVE  repos'[n].state = "present"
    <3>1. n \in job[p].todo /\ Walking(p) /\ n \in Members /\ disk[n] # 0
      BY <2>2 DEF Walking, TypeOK, Job, Healthy
    <3> QED
      BY <3>1 DEF WorkspaceInv, WalkedIsSettled, Healthy
  <2> QED
    BY <2>1, <2>2 DEF WalkedIsSettled, Walking
<1> QED
  BY <1>1, <1>2, VisitInv

(* The walk stays at this member.                                          *)
LEMMA SameMember ==
  ASSUME TypeOK, WorkspaceInv, NEW p \in Procs, NEW m \in Members, IsNext(p, m),
         pc[p] \in {"visit"} \cup AtMember, pc'[p] \in AtMember, Healthy,
         job'[p].todo = job[p].todo, job'[p].kind = job[p].kind,
         job'[p].listed = job[p].listed, job'[p].failed = job[p].failed,
         pc'[p] = "hash" => pc[p] = "visit",
         disk[m] # 0,
         pc'[p] \in {"replace", "stamp", "record"} => job'[p].parsed[m] = disk[m],
         pc'[p] \in {"stamp", "record"}
           \/ (pc'[p] = "hash" /\ job'[p].stored = {disk[m]}) => FreshRows(m)'
  PROVE  OwnInv(p)'
<1>1. \A n \in Members : IsNext(p, n)' => n = m
  BY NextIsOne DEF IsNext
<1>2. ReadIsDisk(p)'
  BY <1>1 DEF ReadIsDisk, Healthy, AtMember, InFull
<1>3. CommitIsFresh(p)'
  BY <1>1 DEF CommitIsFresh, HalfWay, Healthy, AtMember
<1>4. OneIsDone(p)'
  BY DEF WorkspaceInv, OneIsDone, IsNext, AtMember
<1>5. WalkedIsSettled(p)'
  <2>1. Visited(p)' = Visited(p) /\ pc'[p] # "answer"
    BY DEF Visited, AtMember
  <2>2. ASSUME Walking(p)' PROVE Walking(p) /\ Visited(p) \subseteq Members
                                 /\ job[p].todo \subseteq Members
    BY <2>2 DEF Walking, Visited, TypeOK, Job
  <2> QED
    BY <2>1, <2>2 DEF WorkspaceInv, WalkedIsSettled, Healthy, Settled
<1> QED
  BY <1>2, <1>3, <1>4, <1>5 DEF OwnInv

(* A member that is there and has a fingerprint of its source is fresh.    *)
LEMMA FingerprintMatches ==
  ASSUME WorkspaceInv, NEW m \in Members, repos[m].state = "present",
         disk[m] \in Version, repos[m].fp = {disk[m]}
  PROVE  FreshRows(m)
<1>1. CASE \E p \in Procs : HalfWay(p, m)
  BY <1>1 DEF WorkspaceInv, CommitIsFresh
<1>2. CASE ~\E p \in Procs : HalfWay(p, m)
  BY <1>2 DEF WorkspaceInv, FingerprintIsOfRows, FreshRows
<1> QED
  BY <1>1, <1>2

LEMMA CheckSteps ==
  ASSUME TypeOK, WorkspaceInv, NEW p \in Procs, NEW m \in Members
  PROVE  /\ CheckFails(p, m) => WorkspaceInv'
         /\ CheckMeta(p, m) => WorkspaceInv'
         /\ CheckSource(p, m) => WorkspaceInv'
         /\ Parse(p, m) => WorkspaceInv'
<1> DEFINE Reading == UNCHANGED <<disk, config, repos>>
<1>1. Reading => Healthy
  BY DEF Healthy, FreshRows
<1>2. ASSUME CheckFails(p, m) PROVE WorkspaceInv'
  <2>1. pc[p] = "visit" /\ IsNext(p, m) /\ Failed(p, m) /\ Reading
    BY <1>2 DEF CheckFails
  <2>2. OwnInv(p)'
    BY <1>1, <2>1, FailedEffect, NextMember DEF At
  <2> QED
    BY <2>1, <2>2, FailedEffect, NotHalfWay, LiftReading DEF At
<1>3. ASSUME CheckMeta(p, m) PROVE WorkspaceInv'
  <2>1. pc[p] = "visit" /\ IsNext(p, m) /\ Reading /\ disk[m] # 0
    BY <1>3 DEF CheckMeta
  <2>2. /\ OthersSame(p) /\ pc'[p] \in {"parse", "hash"}
        /\ pc'[p] = "hash" => job'[p].stored = repos[m].fp
        /\ job'[p].todo = job[p].todo /\ job'[p].kind = job[p].kind
        /\ job'[p].listed = job[p].listed /\ job'[p].failed = job[p].failed
    BY <1>3, CheckMetaEffect DEF At
  <2>3. ASSUME pc'[p] = "hash", job'[p].stored = {disk[m]} PROVE FreshRows(m)'
    <3>1. job[p].kind = "stale"
      BY <2>1 DEF WorkspaceInv, OneIsDone, IsNext
    <3>2. repos[m].state = "present" /\ disk[m] \in Version
      BY <2>1, <3>1 DEF WorkspaceInv, WalkedIsSettled, Walking, IsNext, TypeOK
    <3> QED
      BY <2>1, <2>2, <2>3, <3>2, FingerprintMatches DEF FreshRows
  <2>4. OwnInv(p)'
    BY <1>1, <2>1, <2>2, <2>3, SameMember DEF AtMember
  <2> QED
    BY <2>1, <2>2, <2>4, NotHalfWay, LiftReading
<1>4. ASSUME CheckSource(p, m) PROVE WorkspaceInv'
  <2>1. pc[p] = "hash" /\ IsNext(p, m) /\ Reading
    BY <1>4 DEF CheckSource
  <2>2. disk[m] # 0 /\ (job[p].stored = {disk[m]} => FreshRows(m))
    BY <2>1 DEF WorkspaceInv, ReadIsDisk, CommitIsFresh, AtMember
  <2>3. CASE job[p].stored = {disk[m]}
    <3>1. Done(p, m) /\ Settled(m)'
      BY <1>4, <2>1, <2>2, <2>3 DEF CheckSource, Settled, FreshRows
    <3>2. OwnInv(p)'
      BY <1>1, <2>1, <3>1, DoneEffect, NextMember DEF At, AtMember
    <3> QED
      BY <2>1, <3>1, <3>2, DoneEffect, NotHalfWay, LiftReading DEF At
  <2>4. CASE job[p].stored # {disk[m]}
    <3>1. At(p, "parse", job[p])
      BY <1>4, <2>4, GotoEffect DEF CheckSource, Label
    <3>2. OwnInv(p)'
      BY <1>1, <2>1, <2>2, <3>1, SameMember DEF At, AtMember
    <3> QED
      BY <2>1, <3>1, <3>2, NotHalfWay, LiftReading DEF At
  <2> QED
    BY <2>3, <2>4
<1>5. ASSUME Parse(p, m) PROVE WorkspaceInv'
  <2>1. pc[p] = "parse" /\ IsNext(p, m) /\ Reading
    BY <1>5 DEF Parse
  <2>2. disk[m] # 0
    BY <2>1 DEF WorkspaceInv, ReadIsDisk, AtMember
  <2>3. job'[p].parsed[m] = disk[m]
    <3>1. job[p].parsed \in [Members -> Version]
      BY DEF TypeOK, Job
    <3>2. job'[p].parsed = [job[p].parsed EXCEPT ![m] = disk[m]]
      BY <1>5, ParseEffect
    <3> QED
      BY <3>1, <3>2
  <2>4. OwnInv(p)'
    BY <1>1, <1>5, <2>1, <2>2, <2>3, ParseEffect, SameMember DEF At, AtMember
  <2> QED
    BY <1>5, <2>1, <2>4, ParseEffect, NotHalfWay, LiftReading DEF At
<1> QED
  BY <1>2, <1>3, <1>4, <1>5

(* Fingerprints after a step that changes one member's row only.           *)
LEMMA OneFingerprint ==
  ASSUME TypeOK, WorkspaceInv, NEW p \in Procs, OthersSame(p), NEW m \in Members,
         \A n \in Members \ {m} : repos'[n] = repos[n],
         \A n \in Members \ {m} : HalfWay(p, n) => HalfWay(p, n)',
         \/ repos'[m].state # "present"
         \/ HalfWay(p, m)'
         \/ \A v \in Version : repos'[m].fp = {v} =>
              repos'[m].rows = v /\ repos'[m].by = "this"
  PROVE  FingerprintIsOfRows'
<1>1. \A q \in Procs \ {p}, n \in Members : HalfWay(q, n) => HalfWay(q, n)'
  BY DEF OthersSame, HalfWay, IsNext
<1>2. ASSUME NEW n \in Members \ {m}, repos'[n].state = "present"
      PROVE  \/ \E q \in Procs : HalfWay(q, n)'
             \/ \A v \in Version : repos'[n].fp = {v} =>
                  repos'[n].rows = v /\ repos'[n].by = "this"
  BY <1>1, <1>2 DEF WorkspaceInv, FingerprintIsOfRows
<1> QED
  BY <1>2 DEF FingerprintIsOfRows

LEMMA MarkMissingStep ==
  ASSUME TypeOK, WorkspaceInv, NEW p \in Procs, NEW m \in Members,
         MarkMissing(p, m)
  PROVE  WorkspaceInv'
<1>1. /\ repos'[m].state = "missing" /\ \A n \in Members \ {m} : repos'[n] = repos[n]
      /\ repos'[m].rows = repos[m].rows /\ repos'[m].by = repos[m].by
      /\ disk[m] = 0 /\ disk' = disk /\ config' = config /\ pc[p] = "visit"
      /\ IsNext(p, m) /\ Done(p, m)
  BY DEF MarkMissing, TypeOK, Repo
<1>2. Healthy
  <2>1. ASSUME NEW n \in Members
        PROVE  /\ FreshRows(n) => FreshRows(n)'
               /\ disk[n] = 0 /\ repos[n].state = "missing"
                    => repos'[n].state = "missing"
               /\ disk[n] # 0 /\ repos[n].state = "present"
                    => repos'[n].state = "present"
    BY <1>1 DEF FreshRows
  <2> QED
    BY <1>1, <2>1 DEF Healthy
<1>3. Settled(m)'
  BY <1>1 DEF Settled
<1>4. OwnInv(p)'
  BY <1>1, <1>2, <1>3, DoneEffect, NextMember DEF At
<1>5. FingerprintIsOfRows'
  BY <1>1, DoneEffect, NotHalfWay, OneFingerprint DEF At
<1> QED
  BY <1>1, <1>2, <1>4, <1>5, DoneEffect, Lift DEF At

LEMMA ReplaceRepoStep ==
  ASSUME TypeOK, WorkspaceInv, NEW p \in Procs, NEW m \in Members,
         ReplaceRepo(p, m)
  PROVE  WorkspaceInv'
<1>1. /\ pc[p] = "replace" /\ IsNext(p, m) /\ disk' = disk /\ config' = config
      /\ UNCHANGED job /\ Goto(p, "stamp")
  BY DEF ReplaceRepo
<1>2. At(p, "stamp", job[p])
  BY <1>1, GotoEffect DEF Label
<1>3. disk[m] # 0 /\ job[p].parsed[m] = disk[m]
  BY <1>1 DEF WorkspaceInv, ReadIsDisk, AtMember
<1>4. FreshRows(m)'
  BY <1>1, <1>3, ReplaceRepoEffect DEF FreshRows
<1>5. Healthy
  <2>1. ASSUME NEW n \in Members
        PROVE  (FreshRows(n) => FreshRows(n)') /\ repos'[n].state = repos[n].state
    <3>1. CASE n = m
      BY <1>4, <3>1, ReplaceRepoEffect
    <3>2. CASE n # m
      BY <1>1, <3>2, ReplaceRepoEffect DEF FreshRows
    <3> QED
      BY <3>1, <3>2
  <2> QED
    BY <1>1, <2>1 DEF Healthy
<1>6. OwnInv(p)'
  BY <1>1, <1>2, <1>3, <1>4, <1>5, SameMember DEF At, AtMember
<1>7. HalfWay(p, m)'
  BY <1>1, <1>2 DEF HalfWay, IsNext, At
<1>8. FingerprintIsOfRows'
  BY <1>1, <1>2, <1>7, ReplaceRepoEffect, NotHalfWay, OneFingerprint DEF At
<1> QED
  BY <1>2, <1>5, <1>6, <1>8, Lift DEF At

LEMMA SetRepoIndexedAtStep ==
  ASSUME TypeOK, WorkspaceInv, NEW p \in Procs, NEW m \in Members,
         SetRepoIndexedAt(p, m)
  PROVE  WorkspaceInv'
<1>1. /\ IsNext(p, m) /\ disk' = disk /\ config' = config /\ UNCHANGED job
      /\ \/ pc[p] = "stamp" /\ Goto(p, "record")
         \/ pc[p] = "stampAll" /\ Goto(p, "recordAll")
      /\ \A n \in Members \ {m} : repos'[n] = repos[n]
      /\ repos'[m].rows = repos[m].rows /\ repos'[m].by = repos[m].by
      /\ repos'[m].fp = repos[m].fp /\ repos'[m].state = repos[m].state
  BY DEF SetRepoIndexedAt, TypeOK, Repo
<1>2. Healthy
  <2>1. ASSUME NEW n \in Members
        PROVE  (FreshRows(n) => FreshRows(n)') /\ repos'[n].state = repos[n].state
    BY <1>1 DEF FreshRows
  <2> QED
    BY <1>1, <2>1 DEF Healthy
<1>3. CASE pc[p] = "stamp"
  <2>1. At(p, "record", job[p])
    BY <1>1, <1>3, GotoEffect DEF Label
  <2>2. disk[m] # 0 /\ job[p].parsed[m] = disk[m] /\ FreshRows(m) /\ HalfWay(p, m)
    BY <1>1, <1>3 DEF WorkspaceInv, ReadIsDisk, CommitIsFresh, HalfWay, AtMember
  <2>3. FreshRows(m)'
    BY <1>2, <2>2 DEF Healthy
  <2>4. OwnInv(p)'
    BY <1>1, <1>2, <1>3, <2>1, <2>2, <2>3, SameMember DEF At, AtMember
  <2>5. \A n \in Members : HalfWay(p, n) => HalfWay(p, n)'
    BY <1>3, <2>1 DEF HalfWay, IsNext, At
  <2>6. FingerprintIsOfRows'
    BY <1>1, <2>1, <2>2, <2>5, OneFingerprint DEF At
  <2> QED
    BY <1>2, <2>1, <2>4, <2>6, Lift DEF At
<1>4. CASE pc[p] = "stampAll"
  <2>1. At(p, "recordAll", job[p])
    BY <1>1, <1>4, GotoEffect DEF Label
  <2>2. \A n \in Members : HalfWay(p, n) <=> HalfWay(p, n)'
    BY <1>4, <2>1 DEF HalfWay, IsNext, At
  <2>3. ReadIsDisk(p)' /\ OneIsDone(p)' /\ WalkedIsSettled(p)'
    BY <1>1, <1>4, <2>1 DEF WorkspaceInv, ReadIsDisk, OneIsDone, WalkedIsSettled,
                            Walking, InFull, AtMember, At
  <2>4. CommitIsFresh(p)'
    BY <1>2, <2>1, <2>2 DEF WorkspaceInv, CommitIsFresh, Healthy, At
  <2>5. HalfWay(p, m)'
    BY <1>1, <2>1 DEF HalfWay, IsNext, At
  <2>6. FingerprintIsOfRows'
    BY <1>1, <2>1, <2>2, <2>5, OneFingerprint DEF At
  <2> QED
    BY <1>2, <2>1, <2>3, <2>4, <2>6, Lift DEF At, OwnInv
<1> QED
  BY <1>1, <1>3, <1>4

(* The fingerprint is of the bytes that were parsed, which the rows are of.*)
LEMMA RecordSourceFingerprintStep ==
  ASSUME TypeOK, WorkspaceInv, NEW p \in Procs, NEW m \in Members,
         RecordSourceFingerprint(p, m)
  PROVE  WorkspaceInv'
<1>1. /\ IsNext(p, m) /\ disk' = disk /\ config' = config /\ m \in job[p].todo
      /\ pc[p] \in {"record", "recordAll"} /\ Recorded(p, m)
      /\ \A n \in Members \ {m} : repos'[n] = repos[n]
      /\ repos'[m].rows = repos[m].rows /\ repos'[m].by = repos[m].by
      /\ repos'[m].state = repos[m].state
      /\ Hashed(p, m) # {} => repos'[m].fp = Hashed(p, m)
  BY DEF RecordSourceFingerprint, Recorded, IsNext, TypeOK, Repo
<1>2. FreshRows(m) /\ HalfWay(p, m)
  BY <1>1 DEF WorkspaceInv, CommitIsFresh, HalfWay
<1>3. disk[m] # 0 /\ job[p].parsed[m] = disk[m]
  BY <1>1 DEF WorkspaceInv, ReadIsDisk, AtMember
<1>4. Hashed(p, m) = {disk[m]}
  BY <1>3 DEF Hashed
<1>5. repos'[m].fp = {disk[m]} /\ FreshRows(m)'
  BY <1>1, <1>2, <1>4 DEF FreshRows
<1>6. \A v \in Version : repos'[m].fp = {v} =>
        repos'[m].rows = v /\ repos'[m].by = "this"
  BY <1>1, <1>5 DEF FreshRows
<1>7. Healthy
  <2>1. ASSUME NEW n \in Members
        PROVE  (FreshRows(n) => FreshRows(n)') /\ repos'[n].state = repos[n].state
    BY <1>1 DEF FreshRows
  <2> QED
    BY <1>1, <2>1 DEF Healthy
<1>8. /\ OthersSame(p) /\ job'[p].todo = job[p].todo \ {m}
      /\ pc'[p] = IF pc[p] = "record" THEN "visit" ELSE "stampAll"
      /\ job'[p].kind = job[p].kind /\ job'[p].listed = job[p].listed
      /\ job'[p].existing = job[p].existing /\ job'[p].parsed = job[p].parsed
      /\ job'[p].failed = job[p].failed
  BY <1>1, RecordedEffect DEF At
<1>9. \A n \in Members \ {m} : HalfWay(p, n) => HalfWay(p, n)'
  <2>1. CASE pc[p] = "record"
    BY <1>1, <2>1, NextIsOne DEF HalfWay
  <2>2. CASE pc[p] = "recordAll"
    BY <1>8, <2>2 DEF HalfWay
  <2> QED
    BY <1>1, <2>1, <2>2
<1>10. FingerprintIsOfRows'
  BY <1>1, <1>6, <1>8, <1>9, OneFingerprint
<1>11. OwnInv(p)'
  <2>1. CASE pc[p] = "record"
    <3>1. Settled(m)'
      BY <1>1, <1>3, <1>5 DEF Settled
    <3> QED
      BY <1>1, <1>7, <1>8, <2>1, <3>1, NextMember DEF AtMember
  <2>2. CASE pc[p] = "recordAll"
    <3>1. pc'[p] = "stampAll"
      BY <1>8, <2>2
    <3>2. ReadIsDisk(p)'
      BY <1>1, <1>8, <2>2, <3>1 DEF WorkspaceInv, ReadIsDisk, InFull, AtMember
    <3>3. CommitIsFresh(p)'
      BY <1>7, <1>8, <2>2, <3>1
      DEF WorkspaceInv, CommitIsFresh, HalfWay, Healthy
    <3>4. WalkedIsSettled(p)' /\ OneIsDone(p)'
      BY <3>1 DEF WalkedIsSettled, Walking, OneIsDone, AtMember
    <3> QED
      BY <3>2, <3>3, <3>4 DEF OwnInv
  <2> QED
    BY <1>1, <2>1, <2>2
<1> QED
  BY <1>7, <1>8, <1>10, <1>11, Lift

-----------------------------------------------------------------------------
(* A full index.                                                           *)

LEMMA ParseMemberStep ==
  ASSUME TypeOK, WorkspaceInv, NEW p \in Procs, NEW m \in Members,
         ParseMember(p, m)
  PROVE  WorkspaceInv'
<1>1. pc[p] = "parseAll" /\ UNCHANGED <<disk, config, repos>>
  BY DEF ParseMember
<1>2. /\ OthersSame(p) /\ pc'[p] = "parseAll"
      /\ job'[p].parsed = [job[p].parsed EXCEPT ![m] = disk[m]]
      /\ job'[p].todo = job[p].todo \ {m}
      /\ job'[p].listed = job[p].listed /\ job'[p].existing = job[p].existing
  BY ParseMemberEffect DEF At
<1>3. job[p].parsed \in [Members -> Version]
  BY DEF TypeOK, Job
<1>4. \A n \in Members \ job'[p].todo : job'[p].parsed[n] = disk'[n]
  BY <1>1, <1>2, <1>3 DEF WorkspaceInv, ReadIsDisk
<1>5. ReadIsDisk(p)'
  BY <1>1, <1>2, <1>4 DEF WorkspaceInv, ReadIsDisk, InFull, AtMember
<1>6. CommitIsFresh(p)' /\ WalkedIsSettled(p)' /\ OneIsDone(p)'
  BY <1>2 DEF CommitIsFresh, HalfWay, WalkedIsSettled, Walking, OneIsDone, AtMember
<1>7. \A n \in Members : ~HalfWay(p, n)
  BY <1>1, NotHalfWay
<1> QED
  BY <1>1, <1>2, <1>5, <1>6, <1>7, LiftReading DEF OwnInv

(* The transaction makes every member's rows those of its checkout.        *)
LEMMA WriteWorkspaceStep ==
  ASSUME TypeOK, WorkspaceInv, NEW p \in Procs, WriteWorkspace(p)
  PROVE  WorkspaceInv'
<1>1. /\ pc[p] = "parseAll" /\ job[p].todo = {} /\ disk' = disk /\ config' = config
      /\ job[p].listed = Members
      /\ job[p].existing = {m \in Members : disk[m] # 0}
      /\ \A m \in Members : job[p].parsed[m] = disk[m]
  BY DEF WriteWorkspace, WorkspaceInv, ReadIsDisk, InFull
<1>2. job[p].parsed = disk
  BY <1>1 DEF TypeOK, Job
<1>3. ASSUME NEW m \in Members
      PROVE  /\ FreshRows(m)'
             /\ disk[m] = 0 => repos'[m].state = "missing"
             /\ disk[m] # 0 => repos'[m].state = "present"
  <2>1. repos'[m] = [state |-> IF m \in job[p].existing THEN "present" ELSE "missing",
                     indexed |-> repos[m].indexed, rows |-> job[p].parsed[m],
                     by |-> "this", fp |-> repos[m].fp]
    BY <1>1 DEF WriteWorkspace
  <2> QED
    BY <1>1, <2>1 DEF FreshRows
<1>4. Healthy
  BY <1>1, <1>3 DEF Healthy
<1>5. /\ OthersSame(p) /\ pc'[p] = "stampAll"
      /\ job'[p].todo = job[p].existing /\ job'[p].existing = job[p].existing
      /\ job'[p].listed = job[p].listed /\ job'[p].parsed = job[p].parsed
  BY WriteWorkspaceEffect DEF At
<1>6. ReadIsDisk(p)'
  BY <1>1, <1>2, <1>5 DEF ReadIsDisk, InFull, AtMember
<1>7. CommitIsFresh(p)' /\ WalkedIsSettled(p)' /\ OneIsDone(p)'
  BY <1>3, <1>5 DEF CommitIsFresh, WalkedIsSettled, Walking, OneIsDone, AtMember
<1>8. FingerprintIsOfRows'
  <2>1. ASSUME NEW m \in Members, repos'[m].state = "present"
        PROVE  HalfWay(p, m)'
    BY <1>1, <1>3, <1>5, <2>1 DEF HalfWay
  <2> QED
    BY <2>1 DEF FingerprintIsOfRows
<1> QED
  BY <1>4, <1>5, <1>6, <1>7, <1>8, Lift DEF OwnInv

LEMMA StartMarkingStep ==
  ASSUME TypeOK, WorkspaceInv, NEW p \in Procs, StartMarking(p)
  PROVE  WorkspaceInv'
<1>1. /\ pc[p] = "stampAll" /\ job[p].todo = {} /\ UNCHANGED <<disk, config, repos>>
      /\ job[p].listed = Members
      /\ job[p].existing = {m \in Members : disk[m] # 0}
  BY DEF StartMarking, WorkspaceInv, ReadIsDisk, InFull
<1>2. /\ OthersSame(p) /\ pc'[p] = "markAll"
      /\ job'[p].todo = job[p].listed \ job[p].existing
      /\ job'[p].existing = job[p].existing /\ job'[p].listed = job[p].listed
  BY StartMarkingEffect DEF At
<1>3. ReadIsDisk(p)'
  BY <1>1, <1>2 DEF ReadIsDisk, InFull, AtMember
<1>4. CommitIsFresh(p)' /\ WalkedIsSettled(p)' /\ OneIsDone(p)'
  BY <1>2 DEF CommitIsFresh, HalfWay, WalkedIsSettled, Walking, OneIsDone, AtMember
<1>5. \A m \in Members : ~HalfWay(p, m)
  BY <1>1 DEF HalfWay
<1> QED
  BY <1>1, <1>2, <1>3, <1>4, <1>5, LiftReading DEF OwnInv

LEMMA SetRepoMissingStep ==
  ASSUME TypeOK, WorkspaceInv, NEW p \in Procs, NEW m \in Members,
         SetRepoMissing(p, m)
  PROVE  WorkspaceInv'
<1>1. /\ repos'[m].state = "missing" /\ \A n \in Members \ {m} : repos'[n] = repos[n]
      /\ repos'[m].rows = repos[m].rows /\ repos'[m].by = repos[m].by
      /\ disk' = disk /\ config' = config /\ pc[p] = "markAll"
      /\ m \in job[p].todo
  BY DEF SetRepoMissing, IsNext, TypeOK, Repo
<1>2. disk[m] = 0
  BY <1>1 DEF WorkspaceInv, ReadIsDisk
<1>3. Healthy
  <2>1. ASSUME NEW n \in Members
        PROVE  /\ FreshRows(n) => FreshRows(n)'
               /\ disk[n] = 0 /\ repos[n].state = "missing"
                    => repos'[n].state = "missing"
               /\ disk[n] # 0 /\ repos[n].state = "present"
                    => repos'[n].state = "present"
    BY <1>1, <1>2 DEF FreshRows
  <2> QED
    BY <1>1, <2>1 DEF Healthy
<1>4. /\ OthersSame(p) /\ pc'[p] = "markAll" /\ job'[p].todo = job[p].todo \ {m}
      /\ job'[p].existing = job[p].existing /\ job'[p].listed = job[p].listed
  BY SetRepoMissingEffect DEF At
<1>5. ReadIsDisk(p)'
  BY <1>1, <1>4 DEF WorkspaceInv, ReadIsDisk, InFull, AtMember
<1>6. CommitIsFresh(p)' /\ WalkedIsSettled(p)' /\ OneIsDone(p)'
  BY <1>4 DEF CommitIsFresh, HalfWay, WalkedIsSettled, Walking, OneIsDone, AtMember
<1>7. FingerprintIsOfRows'
  BY <1>1, <1>4, NotHalfWay, OneFingerprint
<1> QED
  BY <1>3, <1>4, <1>5, <1>6, <1>7, Lift DEF OwnInv

-----------------------------------------------------------------------------
(* Failures, and the environment.                                          *)

(* An error before the transaction leaves the member as it was.            *)
LEMMA FailSteps ==
  ASSUME TypeOK, WorkspaceInv, Undisturbed, NEW p \in Procs
  PROVE  /\ \A m \in Members : FailMember(p, m) => WorkspaceInv'
         /\ FailAll(p) => WorkspaceInv'
         /\ Crash(p) => WorkspaceInv'
         /\ \A m \in Members : RecordFails(p, m) => WorkspaceInv'
<1>1. "late" \notin Faults /\ "crash" \notin Faults /\ "record" \notin Faults
  BY DEF Undisturbed
<1>2. ASSUME NEW m \in Members, FailMember(p, m) PROVE WorkspaceInv'
  <2>1. /\ pc[p] \in {"parse", "replace"} /\ IsNext(p, m) /\ Failed(p, m)
        /\ UNCHANGED <<disk, config, repos>>
    BY <1>1, <1>2 DEF FailMember
  <2>2. Healthy
    BY <2>1 DEF Healthy, FreshRows
  <2>3. OwnInv(p)'
    BY <2>1, <2>2, FailedEffect, NextMember DEF At, AtMember
  <2> QED
    BY <2>1, <2>3, FailedEffect, NotHalfWay, LiftReading DEF At
<1>3. ASSUME FailAll(p) PROVE WorkspaceInv'
  BY <1>1, <1>3, NotHalfWay, StopSteps DEF FailAll
<1> QED
  BY <1>1, <1>2, <1>3 DEF Crash, RecordFails

(* Nothing relies on the disk while no process is working.                 *)
LEMMA IdleInv == ASSUME NEW q, pc'[q] = "idle" PROVE OwnInv(q)'
  BY DEF OwnInv, ReadIsDisk, CommitIsFresh, WalkedIsSettled, OneIsDone, Walking,
         HalfWay, InFull, AtMember

LEMMA EditStep ==
  ASSUME WorkspaceInv, Undisturbed, NEW m \in Members, NEW v \in Version, Edit(m, v)
  PROVE  WorkspaceInv'
<1>1. /\ UNCHANGED <<config, repos, pc, job>>
      /\ \A q \in Procs : pc[q] = "idle"
  BY DEF Edit, Undisturbed, AllIdle, Idle
<1>2. \A q \in Procs : OwnInv(q)'
  BY <1>1, IdleInv
<1>3. \A q \in Procs, n \in Members : ~HalfWay(q, n)
  BY <1>1 DEF HalfWay
<1>4. FingerprintIsOfRows'
  BY <1>1, <1>3 DEF WorkspaceInv, FingerprintIsOfRows
<1> QED
  BY <1>1, <1>2, <1>4 DEF WorkspaceInv, OwnInv

(* A symbol write edits the checkout and rebuilds that member unchecked.   *)
LEMMA WriteSymbolStep ==
  ASSUME TypeOK, WorkspaceInv, Undisturbed, NEW p \in Servers, NEW m \in Members,
         WriteSymbol(p, m)
  PROVE  WorkspaceInv'
<1>1. /\ p \in Procs /\ pc[p] = "answer" /\ UNCHANGED <<config, repos>>
      /\ \A q \in Procs \ {p} : pc[q] = "idle"
  BY DEF WriteSymbol, Undisturbed, Idle, Procs
<1>2. At(p, "parse", NewJob("one", {m}))
  <2>1. NewJob("one", {m}) \in Job
    BY NewJobType
  <2> QED
    BY <1>1, <2>1, EnterEffect DEF WriteSymbol, Label
<1>3. /\ pc'[p] = "parse" /\ job'[p].kind = "one" /\ job'[p].todo = {m}
      /\ \A q \in Procs \ {p} : pc'[q] = "idle"
  BY <1>1, <1>2 DEF At, OthersSame, NewJob
<1>4. disk'[m] # 0
  BY BoundsAssumption DEF WriteSymbol, TypeOK
<1>5. OwnInv(p)'
  <2>1. \A n \in Members : IsNext(p, n)' => n = m
    BY <1>3 DEF IsNext
  <2>2. ReadIsDisk(p)'
    BY <1>3, <1>4, <2>1 DEF ReadIsDisk, InFull, AtMember
  <2>3. CommitIsFresh(p)' /\ WalkedIsSettled(p)' /\ OneIsDone(p)'
    BY <1>3 DEF CommitIsFresh, HalfWay, WalkedIsSettled, Walking, OneIsDone
  <2> QED
    BY <2>2, <2>3 DEF OwnInv
<1>6. \A q \in Procs : OwnInv(q)'
  BY <1>3, <1>5, IdleInv
<1>7. \A q \in Procs, n \in Members : ~HalfWay(q, n)
  BY <1>1 DEF HalfWay
<1>8. FingerprintIsOfRows'
  BY <1>1, <1>7 DEF WorkspaceInv, FingerprintIsOfRows
<1> QED
  BY <1>1, <1>6, <1>8 DEF WorkspaceInv, OwnInv

-----------------------------------------------------------------------------
LEMMA InitInv == Undisturbed /\ Init => WorkspaceInv
<1> SUFFICES ASSUME Undisturbed, Init PROVE WorkspaceInv
  OBVIOUS
<1>1. config = Members /\ \A q \in Procs : pc[q] = "idle"
  BY DEF Init, Undisturbed
<1>2. ASSUME NEW m \in Members, repos[m].state = "present", NEW v \in Version,
             repos[m].fp = {v}
      PROVE  repos[m].rows = v /\ repos[m].by = "this"
  <2>1. PICK a \in InitAnalyzers : repos[m] = IndexedBy(a, disk[m])
    BY <1>1 DEF Init
  <2>2. a = "this"
    BY <1>2, <2>1 DEF IndexedBy, Unregistered, Undisturbed
  <2> QED
    BY <1>2, <2>1, <2>2 DEF IndexedBy
<1>3. FingerprintIsOfRows
  BY <1>2 DEF FingerprintIsOfRows
<1>4. ASSUME NEW q \in Procs PROVE OwnInv(q)
  BY <1>1 DEF OwnInv, ReadIsDisk, CommitIsFresh, WalkedIsSettled, OneIsDone,
              Walking, HalfWay, InFull, AtMember
<1> QED
  BY <1>1, <1>3, <1>4 DEF WorkspaceInv, OwnInv

LEMMA StepInv == Undisturbed /\ TypeOK /\ WorkspaceInv /\ [Next]_vars => WorkspaceInv'
<1> SUFFICES ASSUME Undisturbed, TypeOK, WorkspaceInv, [Next]_vars
             PROVE  WorkspaceInv'
  OBVIOUS
<1>1. ASSUME NEW m \in Members, NEW v \in Version, Edit(m, v) PROVE WorkspaceInv'
  BY <1>1, EditStep
<1>2. ASSUME NEW c \in SUBSET Members, Reconfigure(c) PROVE WorkspaceInv'
  BY <1>2 DEF Reconfigure, Undisturbed
<1>3. ASSUME NEW p \in Procs, ReindexStale(p) \/ IndexAll(p) PROVE WorkspaceInv'
  BY <1>3, StartSteps
<1>4. ASSUME NEW p \in Procs, Step(p) PROVE WorkspaceInv'
  <2>1. CASE EndWalk(p) \/ Answer(p) \/ EndIndexAll(p)
    BY <2>1, EndSteps
  <2>2. CASE WriteWorkspace(p) \/ StartMarking(p)
    BY <2>2, WriteWorkspaceStep, StartMarkingStep
  <2>3. ASSUME NEW m \in Members, Walk(p, m) PROVE WorkspaceInv'
    BY <2>3, MarkMissingStep, CheckSteps, ReplaceRepoStep DEF Walk
  <2>4. ASSUME NEW m \in Members, Both(p, m) PROVE WorkspaceInv'
    BY <2>4, SetRepoIndexedAtStep, RecordSourceFingerprintStep DEF Both
  <2>5. ASSUME NEW m \in Members, ParseMember(p, m) \/ SetRepoMissing(p, m)
        PROVE  WorkspaceInv'
    BY <2>5, ParseMemberStep, SetRepoMissingStep
  <2> QED
    BY <1>4, <2>1, <2>2, <2>3, <2>4, <2>5 DEF Step
<1>5. ASSUME NEW p \in Procs,
             \/ FailAll(p) \/ Crash(p)
             \/ \E m \in Members : FailMember(p, m) \/ RecordFails(p, m)
      PROVE  WorkspaceInv'
  BY <1>5, FailSteps
<1>6. ASSUME NEW p \in Servers, NEW m \in Members, WriteSymbol(p, m)
      PROVE  WorkspaceInv'
  BY <1>6, WriteSymbolStep
<1>7. CASE UNCHANGED vars
  BY <1>7 DEF vars, WorkspaceInv, FingerprintIsOfRows, ReadIsDisk, CommitIsFresh,
              WalkedIsSettled, OneIsDone, HalfWay, IsNext, FreshRows, Walking,
              Visited, Settled
<1> QED
  BY <1>1, <1>2, <1>3, <1>4, <1>5, <1>6, <1>7 DEF Next

(* In an undisturbed workspace the members behind a walk stay settled, what*)
(* a run read stays the disk, and a fingerprint at rest names the version  *)
(* its member's rows are of, whichever processes take turns.               *)
THEOREM WorkspaceInvariant == ASSUME Undisturbed PROVE Spec => []WorkspaceInv
<1>1. Init => TypeOK /\ WorkspaceInv
  BY InitType, InitInv
<1>2. TypeOK /\ WorkspaceInv /\ [Next]_vars => TypeOK' /\ WorkspaceInv'
  BY StepType, StepInv
<1> QED
  BY <1>1, <1>2, PTL DEF Spec

(* A member IsRepoStale would call current has rows this analyzer made of  *)
(* the source in its checkout.                                             *)
THEOREM CurrentMember == ASSUME Undisturbed PROVE Spec => []CurrentMemberIsFresh
<1>1. TypeOK /\ WorkspaceInv => CurrentMemberIsFresh
  <2> SUFFICES ASSUME TypeOK, WorkspaceInv, NEW m \in Members, JudgedCurrent(m)
               PROVE  FreshRows(m)
    BY DEF CurrentMemberIsFresh
  <2>1. disk[m] \in Version /\ repos[m].state = "present" /\ repos[m].fp = {disk[m]}
    BY DEF TypeOK, JudgedCurrent
  <2> QED
    BY <2>1, FingerprintMatches
<1>2. Spec => []TypeOK
  BY TypeCorrect
<1>3. Spec => []WorkspaceInv
  BY WorkspaceInvariant
<1> QED
  BY <1>1, <1>2, <1>3, PTL

(* A walk leaves every member behind it fresh or marked missing, unless it *)
(* noted an error of that member, and an answer is given only then.        *)
THEOREM WalkLeaves == ASSUME Undisturbed PROVE Spec => []WalkLeavesFresh
<1>1. WorkspaceInv => WalkLeavesFresh
  BY DEF WorkspaceInv, WalkedIsSettled, Walking, WalkLeavesFresh
<1>2. Spec => []WorkspaceInv
  BY WorkspaceInvariant
<1> QED
  BY <1>1, <1>2, PTL
=============================================================================
