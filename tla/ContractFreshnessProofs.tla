----------------------- MODULE ContractFreshnessProofs ------------------------
(* Proofs about ContractFreshness: for any number of processes, members    *)
(* and pairs of members, contract rows that IsContractStale would call     *)
(* fresh show what is indexed.                                             *)
EXTENDS ContractFreshness, TLAPS

-----------------------------------------------------------------------------
(* The inductive invariant.                                                *)

(* What a process keeps between two of its steps, with the trees t and the *)
(* members c crossed: what it has parsed has been on disk; a time from     *)
(* before the last analysis is only for members that one crossed; and a    *)
(* write of everything leaves members out only without rows.               *)
Sound(job, t, c) ==
    /\ job \in Job
    /\ \A r \in Repos : job.parsed[r] <= t[r]
    /\ job.late /\ job.at \in {"stamp", "record"} => job.stamp \subseteq c
    /\ job.at = "write_all" => /\ Repos \ job.stamp \subseteq job.gone
                               /\ \A r \in job.gone : job.parsed[r] = 0

(* Everything TypeOK says but for the processes.                           *)
IndexOK ==
    /\ tree \in Versions /\ symbols \in Versions /\ recorded \in Versions
    /\ missing \subseteq Repos /\ newer \subseteq Repos
    /\ overtaken \subseteq Repos /\ crossed \subseteq Repos
    /\ rare \in 0 .. MaxRare
    /\ \A row \in rows : row.pair \in Linked
    /\ \A r \in Repos : symbols[r] <= tree[r] /\ recorded[r] <= tree[r]

IInv ==
    /\ IndexOK
    /\ proc \in [Procs -> Job]
    /\ \A p \in Procs : Sound(proc[p], tree, crossed)

LEMMA NoRowsTyped == NoRows \in Versions
  BY ContractAssumption DEF NoRows, Versions

LEMMA FreeSound == IndexOK => Sound(Free, tree, crossed)
<1> SUFFICES ASSUME IndexOK PROVE Sound(Free, tree, crossed)
  OBVIOUS
<1>1. Free \in Job
  BY NoRowsTyped DEF Free, Job, States
<1>2. \A r \in Repos : Free.parsed[r] <= tree[r]
  BY ContractAssumption DEF IndexOK, Versions, Free, NoRows
<1>3. Free.late = FALSE /\ Free.at = "idle"
  BY DEF Free
<1>4. QED  BY <1>1, <1>2, <1>3 DEF Sound

LEMMA WalkingSound ==
    ASSUME IndexOK, NEW todo \in SUBSET Repos, NEW failed \in BOOLEAN
    PROVE  Sound(Walking(todo, failed), tree, crossed)
<1>1. Walking(todo, failed) \in Job
  BY NoRowsTyped DEF Walking, Free, Job, States
<1>2. /\ Walking(todo, failed).parsed = NoRows
      /\ Walking(todo, failed).at = "walk"
  BY DEF Walking, Free
<1>3. \A r \in Repos : Walking(todo, failed).parsed[r] <= tree[r]
  BY <1>2, ContractAssumption DEF IndexOK, Versions, NoRows
<1>4. QED  BY <1>1, <1>2, <1>3 DEF Sound

(* More on disk and more crossed leaves a process sound.                   *)
LEMMA SoundKept ==
    ASSUME NEW job, NEW t \in Versions, NEW u \in Versions, NEW c, NEW d,
           Sound(job, t, c), c \subseteq d, \A r \in Repos : t[r] <= u[r]
    PROVE  Sound(job, u, d)
<1>1. \A r \in Repos : job.parsed[r] <= u[r]
  <2>1. job.parsed \in Versions
    BY DEF Sound, Job
  <2>2. QED  BY <2>1 DEF Sound, Versions
<1>2. QED  BY <1>1 DEF Sound

(* A step of one process.                                                  *)
LEMMA StepSound ==
    ASSUME IInv, NEW p \in Procs, NEW job, Goto(p, job), UNCHANGED tree,
           crossed \subseteq crossed', Sound(job, tree, crossed')
    PROVE  /\ proc' \in [Procs -> Job]
           /\ \A q \in Procs : Sound(proc'[q], tree', crossed')
<1>1. proc \in [Procs -> Job] /\ job \in Job
  BY DEF IInv, Sound
<1>2. proc' \in [Procs -> Job]
  BY <1>1 DEF Goto
<1>3. ASSUME NEW q \in Procs PROVE Sound(proc'[q], tree', crossed')
  <2>1. CASE q = p
    BY <1>1, <2>1 DEF Goto
  <2>2. CASE q # p
    <3>1. proc'[q] = proc[q]
      BY <1>1, <2>2 DEF Goto
    <3>2. tree \in Versions /\ Sound(proc[q], tree, crossed)
      BY DEF IInv, IndexOK
    <3>3. \A r \in Repos : tree[r] <= tree[r]
      BY <3>2, ContractAssumption DEF Versions
    <3>4. Sound(proc[q], tree, crossed')
      BY <3>2, <3>3, SoundKept
    <3>5. QED  BY <3>1, <3>4
  <2>3. QED  BY <2>1, <2>2
<1>4. QED  BY <1>2, <1>3

LEMMA InitSound == Init => IInv
<1> SUFFICES ASSUME Init PROVE IInv
  OBVIOUS
<1>1. IndexOK
  BY ContractAssumption DEF Init, IndexOK, Versions
<1>2. Sound(Free, tree, crossed) /\ Free \in Job
  BY <1>1, FreeSound DEF Sound
<1>3. QED  BY <1>1, <1>2 DEF Init, IInv

LEMMA EditSound == IInv /\ Edit => IInv'
<1> SUFFICES ASSUME IInv, Edit PROVE IInv'
  OBVIOUS
<1>1. PICK r \in Repos : tree[r] < MaxVersion /\ tree' = [tree EXCEPT ![r] = @ + 1]
  BY DEF Edit
<1>2. UNCHANGED <<proc, rare, symbols, recorded, missing, newer, rows, overtaken, crossed>>
  BY DEF Edit, index, history
<1>3. tree \in Versions /\ tree' \in Versions /\ \A m \in Repos : tree[m] <= tree'[m]
  BY <1>1, ContractAssumption DEF IInv, IndexOK, Versions
<1>4. IndexOK'
  BY <1>2, <1>3 DEF IInv, IndexOK, Versions
<1>5. ASSUME NEW p \in Procs PROVE Sound(proc[p], tree', crossed)
  BY <1>3, SoundKept DEF IInv
<1>6. QED  BY <1>2, <1>4, <1>5 DEF IInv

LEMMA RareTyped ==
    ASSUME IndexOK, UNCHANGED rare \/ Rare
    PROVE  rare' \in 0 .. MaxRare
  BY ContractAssumption DEF IndexOK, Rare

(* The steps that write nothing.                                           *)
LEMMA ReadsSound ==
    ASSUME IInv, NEW p \in Procs,
           \/ Call(p) \/ IndexAll(p) \/ CheckRepo(p) \/ CheckContracts(p)
           \/ ReadSymbols(p) \/ ReadFiles(p)
    PROVE  IInv'
<1>1. UNCHANGED <<tree, symbols, recorded, missing, newer, rows, overtaken, crossed>>
  BY DEF Call, IndexAll, CheckRepo, CheckContracts, ReadSymbols, ReadFiles, index, history
<1>2. rare' \in 0 .. MaxRare
  <2>1. UNCHANGED rare \/ Rare
    BY DEF Call, IndexAll, CheckRepo, CheckContracts, ReadSymbols, ReadFiles
  <2>2. QED  BY <2>1, RareTyped DEF IInv
<1>3. IndexOK'
  BY <1>1, <1>2 DEF IInv, IndexOK
<1>4. /\ IndexOK /\ Sound(proc[p], tree, crossed)
      /\ tree \in Versions /\ symbols \in Versions
      /\ \A r \in Repos : tree[r] <= tree[r]
  BY ContractAssumption DEF IInv, IndexOK, Versions
<1>5. \E job : Goto(p, job) /\ Sound(job, tree, crossed)
  <2>1. CASE Call(p)
    BY <1>4, <2>1, WalkingSound DEF Call
  <2>2. CASE IndexAll(p)
    <3>1. PICK gone \in SUBSET Repos :
             Goto(p, [Free EXCEPT !.at = "write_all", !.gone = gone,
                                  !.stamp = Repos \ gone,
                                  !.parsed = [r \in Repos |-> IF r \in gone THEN 0
                                                              ELSE tree[r]]])
      BY <2>2 DEF IndexAll
    <3> DEFINE parsed == [r \in Repos |-> IF r \in gone THEN 0 ELSE tree[r]]
               job == [Free EXCEPT !.at = "write_all", !.gone = gone,
                                   !.stamp = Repos \ gone, !.parsed = parsed]
    <3>2. /\ parsed \in Versions
          /\ \A r \in Repos : parsed[r] <= tree[r]
          /\ \A r \in gone : parsed[r] = 0
      BY <1>4, ContractAssumption DEF Versions
    <3> HIDE DEF parsed
    <3>3. /\ job \in Job /\ job.parsed = parsed /\ job.at = "write_all"
          /\ job.stamp = Repos \ gone /\ job.gone = gone
      BY <3>2, NoRowsTyped DEF Free, Job, States
    <3>4. Goto(p, job)
      BY <3>1 DEF parsed
    <3> HIDE DEF job
    <3>5. QED  BY <3>2, <3>3, <3>4 DEF Sound
  <2>3. CASE CheckRepo(p)
    <3>1. PICK r \in proc[p].todo :
             LET rest == Walking(proc[p].todo \ {r}, proc[p].failed) IN
             Goto(p, IF recorded[r] = tree[r] THEN rest
                     ELSE [rest EXCEPT !.at = "replace", !.stamp = {r},
                                       !.parsed = [NoRows EXCEPT ![r] = tree[r]]])
      BY <2>3 DEF CheckRepo
    <3> DEFINE rest == Walking(proc[p].todo \ {r}, proc[p].failed)
               parsed == [NoRows EXCEPT ![r] = tree[r]]
               job == [rest EXCEPT !.at = "replace", !.stamp = {r}, !.parsed = parsed]
    <3>2. proc[p].todo \in SUBSET Repos /\ proc[p].failed \in BOOLEAN /\ r \in Repos
      BY <1>4 DEF Sound, Job
    <3>3. Sound(rest, tree, crossed)
      BY <1>4, <3>2, WalkingSound
    <3>4. parsed \in Versions /\ \A m \in Repos : parsed[m] <= tree[m]
      BY <1>4, <3>2, ContractAssumption DEF NoRows, Versions
    <3> HIDE DEF parsed, rest
    <3>5. job \in Job /\ job.parsed = parsed /\ job.at = "replace"
      BY <3>2, <3>3, <3>4 DEF Sound, Job, States
    <3> HIDE DEF job
    <3>6. Sound(job, tree, crossed)
      BY <3>4, <3>5 DEF Sound
    <3>7. CASE recorded[r] = tree[r]
      BY <3>1, <3>3, <3>7 DEF rest
    <3>8. CASE recorded[r] # tree[r]
      BY <3>1, <3>6, <3>8 DEF rest, parsed, job
    <3>9. QED  BY <3>7, <3>8
  <2>4. CASE CheckContracts(p)
    <3> DEFINE job == [Free EXCEPT !.at = "symbols"]
    <3>1. job \in Job /\ job.parsed = Free.parsed /\ job.at = "symbols"
      BY NoRowsTyped DEF Free, Job, States
    <3>2. Goto(p, job) \/ Goto(p, Free)
      BY <2>4 DEF CheckContracts
    <3>3. Sound(Free, tree, crossed)
      BY <1>4, FreeSound
    <3> HIDE DEF job
    <3>4. Sound(job, tree, crossed)
      BY <3>1, <3>3 DEF Sound
    <3>5. QED  BY <3>2, <3>3, <3>4
  <2>5. CASE ReadSymbols(p)
    <3> DEFINE job == [proc[p] EXCEPT !.at = "files", !.symbols = symbols]
    <3>1. job \in Job /\ job.parsed = proc[p].parsed /\ job.at = "files"
      BY <1>4 DEF Sound, Job, States
    <3>2. Goto(p, job)
      BY <2>5 DEF ReadSymbols
    <3> HIDE DEF job
    <3>3. QED  BY <1>4, <3>1, <3>2 DEF Sound
  <2>6. CASE ReadFiles(p)
    <3> DEFINE job == [proc[p] EXCEPT !.at = "write", !.files = symbols]
    <3>1. job \in Job /\ job.parsed = proc[p].parsed /\ job.at = "write"
      BY <1>4 DEF Sound, Job, States
    <3>2. Goto(p, job)
      BY <2>6 DEF ReadFiles
    <3> HIDE DEF job
    <3>3. QED  BY <1>4, <3>1, <3>2 DEF Sound
  <2>7. QED  BY <2>1, <2>2, <2>3, <2>4, <2>5, <2>6
<1>6. proc' \in [Procs -> Job] /\ \A q \in Procs : Sound(proc'[q], tree', crossed')
  <2>1. PICK job : Goto(p, job) /\ Sound(job, tree, crossed)
    BY <1>5
  <2>2. QED  BY <1>1, <2>1, StepSound
<1>7. QED  BY <1>3, <1>6 DEF IInv

(* The steps that fail or mark a member missing.                           *)
LEMMA MarksSound ==
    ASSUME IInv, NEW p \in Procs,
           MarkMissing(p) \/ SetRepoMissing(p) \/ FailMember(p) \/ Fail(p)
    PROVE  IInv'
<1>1. /\ UNCHANGED <<tree, symbols, recorded, newer, rows, overtaken>>
      /\ crossed \subseteq crossed'
  BY DEF MarkMissing, SetRepoMissing, FailMember, Fail, history
<1>2. rare' \in 0 .. MaxRare
  <2>1. UNCHANGED rare \/ Rare
    BY DEF MarkMissing, SetRepoMissing, FailMember, Fail
  <2>2. QED  BY <2>1, RareTyped DEF IInv
<1>3. proc[p] \in Job
  BY DEF IInv
<1>4. missing' \subseteq Repos
  BY <1>3 DEF IInv, IndexOK, Job, MarkMissing, SetRepoMissing, FailMember, Fail
<1>5. crossed' \subseteq Repos
  BY <1>3 DEF IInv, IndexOK, Job, MarkMissing, SetRepoMissing, FailMember, Fail,
              Unstamped, history
<1>6. IndexOK'
  BY <1>1, <1>2, <1>4, <1>5 DEF IInv, IndexOK
<1>7. \E job : Goto(p, job) /\ Sound(job, tree', crossed')
  <2>1. \/ Goto(p, Free)
        \/ \E todo \in SUBSET Repos, failed \in BOOLEAN : Goto(p, Walking(todo, failed))
    <3>0. proc[p].todo \in SUBSET Repos /\ proc[p].failed \in BOOLEAN
      BY <1>3 DEF Job
    <3>1. CASE MarkMissing(p)
      BY <3>0, <3>1 DEF MarkMissing
    <3>2. CASE SetRepoMissing(p)
      BY <3>2 DEF SetRepoMissing
    <3>3. CASE FailMember(p)
      BY <3>0, <3>3 DEF FailMember
    <3>4. CASE Fail(p)
      BY <3>4 DEF Fail
    <3>5. QED  BY <3>1, <3>2, <3>3, <3>4
  <2>3. ASSUME NEW todo \in SUBSET Repos, NEW failed \in BOOLEAN
        PROVE  Sound(Walking(todo, failed), tree', crossed')
    <3>1. /\ Walking(todo, failed) \in Job
          /\ Walking(todo, failed).parsed = NoRows
          /\ Walking(todo, failed).at = "walk"
      BY NoRowsTyped DEF Walking, Free, Job, States
    <3>2. \A r \in Repos : NoRows[r] <= tree'[r]
      BY <1>6, ContractAssumption DEF IndexOK, Versions, NoRows
    <3>3. QED  BY <3>1, <3>2 DEF Sound
  <2>4. Sound(Free, tree', crossed')
    <3>1. Free \in Job /\ Free.parsed = NoRows /\ Free.at = "idle"
      BY NoRowsTyped DEF Free, Job, States
    <3>2. \A r \in Repos : NoRows[r] <= tree'[r]
      BY <1>6, ContractAssumption DEF IndexOK, Versions, NoRows
    <3>3. QED  BY <3>1, <3>2 DEF Sound
  <2>5. QED  BY <2>1, <2>3, <2>4
<1>8. proc' \in [Procs -> Job] /\ \A q \in Procs : Sound(proc'[q], tree', crossed')
  <2>1. PICK job : Goto(p, job) /\ Sound(job, tree, crossed')
    BY <1>1, <1>7
  <2>2. QED  BY <1>1, <2>1, StepSound
<1>9. QED  BY <1>6, <1>8 DEF IInv

LEMMA ReplaceRepoSound ==
    ASSUME IInv, NEW p \in Procs, ReplaceRepo(p)
    PROVE  IInv'
<1> DEFINE job == [proc[p] EXCEPT !.at = "clock"]
<1>1. /\ UNCHANGED <<tree, recorded, missing, newer, rare, overtaken, crossed>>
      /\ symbols' = [r \in Repos |-> IF r \in proc[p].stamp THEN proc[p].parsed[r]
                                     ELSE symbols[r]]
      /\ rows' \subseteq rows
      /\ Goto(p, job)
  BY DEF ReplaceRepo, history
<1>2. Sound(proc[p], tree, crossed) /\ IndexOK
  BY DEF IInv
<1>3. proc[p].parsed \in Versions
  BY <1>2 DEF Sound, Job
<1>4. symbols' \in Versions /\ \A r \in Repos : symbols'[r] <= tree[r]
  BY <1>1, <1>2, <1>3 DEF Sound, IndexOK, Versions
<1>5. job \in Job /\ job.parsed = proc[p].parsed /\ job.at = "clock"
  BY <1>2 DEF Sound, Job, States
<1> HIDE DEF job
<1>6. Sound(job, tree, crossed')
  BY <1>1, <1>2, <1>5 DEF Sound
<1>7. proc' \in [Procs -> Job] /\ \A q \in Procs : Sound(proc'[q], tree', crossed')
  BY <1>1, <1>6, StepSound
<1>8. IndexOK'
  BY <1>1, <1>2, <1>4 DEF IndexOK
<1>9. QED  BY <1>7, <1>8 DEF IInv

LEMMA WriteWorkspaceSound ==
    ASSUME IInv, NEW p \in Procs, WriteWorkspace(p)
    PROVE  IInv'
<1> DEFINE job == [proc[p] EXCEPT !.at = "clock"]
<1>1. /\ UNCHANGED <<tree, recorded, newer, rare, overtaken, crossed>>
      /\ symbols' = proc[p].parsed /\ rows' = {} /\ missing' = proc[p].gone
      /\ Goto(p, job)
  BY DEF WriteWorkspace, history
<1>2. Sound(proc[p], tree, crossed) /\ IndexOK
  BY DEF IInv
<1>3. proc[p].parsed \in Versions /\ proc[p].gone \subseteq Repos
  BY <1>2 DEF Sound, Job
<1>4. job \in Job /\ job.parsed = proc[p].parsed /\ job.at = "clock"
  BY <1>2 DEF Sound, Job, States
<1> HIDE DEF job
<1>5. Sound(job, tree, crossed')
  BY <1>1, <1>2, <1>4 DEF Sound
<1>6. proc' \in [Procs -> Job] /\ \A q \in Procs : Sound(proc'[q], tree', crossed')
  BY <1>1, <1>5, StepSound
<1>7. IndexOK'
  BY <1>1, <1>2, <1>3 DEF Sound, IndexOK
<1>8. QED  BY <1>6, <1>7 DEF IInv

(* Going on to the next member keeps what has been parsed and what is late.*)
LEMMA NextMemberSound ==
    ASSUME IndexOK, NEW p, NEW job, Sound(job, tree, crossed), NextMember(p, job),
           job.late => job.stamp \subseteq crossed
    PROVE  \E next : Goto(p, next) /\ Sound(next, tree, crossed)
<1>1. job \in Job /\ \A r \in Repos : job.parsed[r] <= tree[r]
  BY DEF Sound
<1>2. CASE job.stamp # {}
  <2> DEFINE next == [job EXCEPT !.at = "stamp"]
  <2>1. /\ next \in Job /\ next.parsed = job.parsed /\ next.at = "stamp"
        /\ next.late = job.late /\ next.stamp = job.stamp
    BY <1>1 DEF Job, States
  <2>2. Goto(p, next)
    BY <1>2 DEF NextMember
  <2> HIDE DEF next
  <2>3. QED  BY <1>1, <2>1, <2>2 DEF Sound
<1>3. CASE job.stamp = {} /\ job.gone # {}
  <2> DEFINE next == [job EXCEPT !.at = "mark"]
  <2>1. next \in Job /\ next.parsed = job.parsed /\ next.at = "mark"
    BY <1>1 DEF Job, States
  <2>2. Goto(p, next)
    BY <1>3 DEF NextMember
  <2> HIDE DEF next
  <2>3. QED  BY <1>1, <2>1, <2>2 DEF Sound
<1>4. CASE job.stamp = {} /\ job.gone = {}
  <2>1. Goto(p, Walking(job.todo, job.failed))
    BY <1>4 DEF NextMember
  <2>2. job.todo \in SUBSET Repos /\ job.failed \in BOOLEAN
    BY <1>1 DEF Job
  <2>3. QED  BY <2>1, <2>2, WalkingSound
<1>5. QED  BY <1>2, <1>3, <1>4

LEMMA TakeTimeSound ==
    ASSUME IInv, NEW p \in Procs, TakeTime(p)
    PROVE  IInv'
<1> DEFINE job == [proc[p] EXCEPT !.late = FALSE]
<1>1. /\ UNCHANGED <<tree, symbols, recorded, missing, newer, rows, rare, overtaken, crossed>>
      /\ NextMember(p, job) /\ proc[p].at = "clock"
  BY DEF TakeTime, index, history
<1>2. Sound(proc[p], tree, crossed) /\ IndexOK
  BY DEF IInv
<1>3. job \in Job /\ job.parsed = proc[p].parsed /\ job.late = FALSE /\ job.at = "clock"
  BY <1>1, <1>2 DEF Sound, Job
<1> HIDE DEF job
<1>4. Sound(job, tree, crossed)
  BY <1>2, <1>3 DEF Sound
<1>5. PICK next : Goto(p, next) /\ Sound(next, tree, crossed)
  BY <1>1, <1>2, <1>3, <1>4, NextMemberSound
<1>6. proc' \in [Procs -> Job] /\ \A q \in Procs : Sound(proc'[q], tree', crossed')
  BY <1>1, <1>5, StepSound
<1>7. IndexOK'
  BY <1>1, <1>2 DEF IndexOK
<1>8. QED  BY <1>6, <1>7 DEF IInv

LEMMA SetRepoIndexedAtSound ==
    ASSUME IInv, NEW p \in Procs, SetRepoIndexedAt(p)
    PROVE  IInv'
<1>1. PICK r \in proc[p].stamp :
         /\ newer' = IF proc[p].late THEN newer \ {r} ELSE newer \cup {r}
         /\ overtaken' = IF proc[p].late THEN overtaken ELSE overtaken \ {r}
         /\ Goto(p, [proc[p] EXCEPT !.at = "record", !.record = {r},
                                    !.stamp = proc[p].stamp \ {r}])
  BY DEF SetRepoIndexedAt
<1> DEFINE job == [proc[p] EXCEPT !.at = "record", !.record = {r},
                                  !.stamp = proc[p].stamp \ {r}]
<1>2. /\ UNCHANGED <<tree, symbols, recorded, missing, rows, rare, crossed>>
      /\ proc[p].at = "stamp"
  BY DEF SetRepoIndexedAt
<1>3. Sound(proc[p], tree, crossed) /\ IndexOK
  BY DEF IInv
<1>4. r \in Repos /\ proc[p].stamp \subseteq Repos
  BY <1>3 DEF Sound, Job
<1>5. /\ job \in Job /\ job.parsed = proc[p].parsed /\ job.at = "record"
      /\ job.late = proc[p].late /\ job.stamp \subseteq proc[p].stamp
  BY <1>3, <1>4 DEF Sound, Job, States
<1>6. Goto(p, job)
  BY <1>1
<1> HIDE DEF job
<1>7. Sound(job, tree, crossed')
  BY <1>2, <1>3, <1>5 DEF Sound
<1>8. proc' \in [Procs -> Job] /\ \A q \in Procs : Sound(proc'[q], tree', crossed')
  BY <1>2, <1>6, <1>7, StepSound
<1>9. IndexOK'
  BY <1>1, <1>2, <1>3, <1>4 DEF IndexOK
<1>10. QED  BY <1>8, <1>9 DEF IInv

LEMMA RecordSound ==
    ASSUME IInv, NEW p \in Procs, RecordSourceFingerprint(p)
    PROVE  IInv'
<1> DEFINE job == [proc[p] EXCEPT !.record = {}]
<1>1. /\ UNCHANGED <<tree, symbols, missing, newer, rows, overtaken, crossed>>
      /\ NextMember(p, job) /\ proc[p].at = "record"
      /\ UNCHANGED rare \/ Rare
  BY DEF RecordSourceFingerprint, history
<1>2. Sound(proc[p], tree, crossed) /\ IndexOK
  BY DEF IInv
<1>3. /\ job \in Job /\ job.parsed = proc[p].parsed /\ job.at = "record"
      /\ job.late = proc[p].late /\ job.stamp = proc[p].stamp
  BY <1>1, <1>2 DEF Sound, Job
<1> HIDE DEF job
<1>4. Sound(job, tree, crossed) /\ (job.late => job.stamp \subseteq crossed)
  BY <1>1, <1>2, <1>3 DEF Sound
<1>5. PICK next : Goto(p, next) /\ Sound(next, tree, crossed)
  BY <1>1, <1>2, <1>4, NextMemberSound
<1>6. proc' \in [Procs -> Job] /\ \A q \in Procs : Sound(proc'[q], tree', crossed')
  BY <1>1, <1>5, StepSound
<1>7. recorded' \in Versions /\ \A r \in Repos : recorded'[r] <= tree[r]
  <2>1. proc[p].parsed \in Versions /\ \A r \in Repos : proc[p].parsed[r] <= tree[r]
    BY <1>2 DEF Sound, Job
  <2>2. \/ UNCHANGED recorded
        \/ recorded' = [r \in Repos |-> IF r \in proc[p].record THEN proc[p].parsed[r]
                                        ELSE recorded[r]]
    BY DEF RecordSourceFingerprint
  <2>3. QED  BY <1>2, <2>1, <2>2 DEF IndexOK, Versions
<1>8. rare' \in 0 .. MaxRare
  BY <1>1, <1>2, RareTyped
<1>9. IndexOK'
  BY <1>1, <1>2, <1>7, <1>8 DEF IndexOK
<1>10. QED  BY <1>6, <1>9 DEF IInv

LEMMA AnalysisTyped ==
    ASSUME NEW syms, NEW files
    PROVE  \A row \in Analysis(syms, files) : row.pair \in Linked
  BY DEF Analysis, Found

(* The times that are taken and not yet written become late, and are for   *)
(* members that are now crossed.                                           *)
LEMMA OvertakenSound ==
    ASSUME IInv, NEW q \in Procs, NEW c, Timed \subseteq c
    PROVE  Sound(Overtaken(proc[q]), tree, c)
<1>1. Sound(proc[q], tree, crossed) /\ proc[q] \in Job
  BY DEF IInv, Sound
<1>2. CASE proc[q].at \in {"stamp", "record"}
  <2> DEFINE job == [proc[q] EXCEPT !.late = TRUE]
  <2>1. /\ job \in Job /\ job.parsed = proc[q].parsed /\ job.at = proc[q].at
        /\ job.stamp = proc[q].stamp
    BY <1>1 DEF Job
  <2>2. proc[q].stamp \subseteq c
    BY <1>2 DEF Timed
  <2>3. Overtaken(proc[q]) = job
    BY <1>2 DEF Overtaken
  <2> HIDE DEF job
  <2>4. QED  BY <1>1, <1>2, <2>1, <2>2, <2>3 DEF Sound
<1>3. CASE proc[q].at \notin {"stamp", "record"}
  BY <1>1, <1>3 DEF Overtaken, Sound
<1>4. QED  BY <1>2, <1>3

LEMMA WriteContractsSound ==
    ASSUME IInv, NEW p \in Procs, WriteContractsAll(p)
    PROVE  IInv'
<1>1. /\ UNCHANGED <<tree, symbols, recorded, missing, rare>>
      /\ \A row \in rows' : row.pair \in Linked
      /\ newer' = {} /\ crossed' = Timed /\ overtaken' \subseteq Repos
      /\ proc' = [q \in Procs |-> IF q = p THEN Free ELSE Overtaken(proc[q])]
  BY AnalysisTyped DEF WriteContractsAll
<1>2. IndexOK /\ \A q \in Procs : proc[q] \in Job
  BY DEF IInv
<1>3. Timed \subseteq Repos
  BY <1>2 DEF Timed, Job
<1>4. ASSUME NEW q \in Procs PROVE Sound(proc'[q], tree', crossed')
  <2>1. CASE q = p
    <3>1. Sound(Free, tree, crossed)
      BY <1>2, FreeSound
    <3>2. Sound(Free, tree, Timed)
      BY <3>1 DEF Sound, Free
    <3>3. QED  BY <1>1, <2>1, <3>2
  <2>2. CASE q # p
    BY <1>1, <2>2, OvertakenSound
  <2>3. QED  BY <2>1, <2>2
<1>5. proc' \in [Procs -> Job]
  BY <1>1, <1>4 DEF Sound
<1>6. IndexOK'
  BY <1>1, <1>2, <1>3 DEF IndexOK
<1>7. QED  BY <1>4, <1>5, <1>6 DEF IInv

LEMMA NextSound == IInv /\ [Next]_vars => IInv'
<1> SUFFICES ASSUME IInv, [Next]_vars PROVE IInv'
  OBVIOUS
<1>1. CASE Edit
  BY <1>1, EditSound
<1>2. ASSUME NEW p \in Procs,
             Call(p) \/ IndexAll(p) \/ MarkMissing(p) \/ Work(p) \/ FailMember(p) \/ Fail(p)
      PROVE  IInv'
  BY <1>2, ReadsSound, MarksSound, ReplaceRepoSound, WriteWorkspaceSound, TakeTimeSound,
     SetRepoIndexedAtSound, RecordSound, WriteContractsSound DEF Work
<1>3. CASE UNCHANGED vars
  BY <1>3 DEF vars, index, history, IInv, IndexOK
<1>4. QED  BY <1>1, <1>2, <1>3 DEF Next

THEOREM Invariant == Spec => []IInv
  BY InitSound, NextSound, PTL DEF Spec

(* What has been indexed, recorded or parsed for a member was on disk,     *)
(* whatever calls overlap, fail or die.                                    *)
THEOREM TypeInvariant == Spec => []TypeOK
<1>1. IInv => TypeOK
  BY DEF IInv, IndexOK, Sound, TypeOK
<1>2. QED  BY <1>1, Invariant, PTL

-----------------------------------------------------------------------------
(* What is called fresh is current.                                        *)

(* The members whose rows nothing vouches for.                             *)
Suspect == newer \cup InFlight \cup overtaken \cup crossed

LEMMA FoundPair ==
    ASSUME NEW pair, NEW syms, NEW files, NEW row \in Found(pair, syms, files)
    PROVE  row.pair = pair
  BY DEF Found

(* A step that suspects no fewer members, and keeps the rows and symbols   *)
(* of the pairs it leaves unsuspected, keeps them current.                 *)
LEMMA CurrentKept ==
    ASSUME FreshIsCurrent, Suspect \subseteq Suspect',
           NEW touched, touched \subseteq Suspect',
           \A r \in Repos \ touched : symbols'[r] = symbols[r],
           rows' = {row \in rows : row.pair[1] \notin touched}
    PROVE  FreshIsCurrent'
<1> SUFFICES ASSUME NEW pair \in Linked, ~ Among(pair, Suspect')
             PROVE  Current(pair)'
  BY DEF FreshIsCurrent, Suspect
<1>1. pair[1] \in Repos /\ pair[2] \in Repos
  BY ContractAssumption
<1>2. pair[1] \notin touched /\ pair[2] \notin touched
  BY DEF Among
<1>3. symbols'[pair[1]] = symbols[pair[1]] /\ symbols'[pair[2]] = symbols[pair[2]]
  BY <1>1, <1>2
<1>4. Current(pair)
  <2>1. ~ Among(pair, Suspect)
    BY DEF Among
  <2>2. QED  BY <2>1 DEF FreshIsCurrent, Suspect
<1>5. {row \in rows' : row.pair = pair} = {row \in rows : row.pair = pair}
  BY <1>2
<1>6. Found(pair, symbols', symbols') = Found(pair, symbols, symbols)
  BY <1>3 DEF Found
<1>7. QED  BY <1>4, <1>5, <1>6 DEF Current

(* A step that leaves rows and symbols.                                    *)
LEMMA CurrentUntouched ==
    ASSUME FreshIsCurrent, Suspect \subseteq Suspect', UNCHANGED <<symbols, rows>>
    PROVE  FreshIsCurrent'
<1> SUFFICES ASSUME NEW pair \in Linked, ~ Among(pair, Suspect')
             PROVE  Current(pair)'
  BY DEF FreshIsCurrent, Suspect
<1>1. ~ Among(pair, Suspect)
  BY DEF Among
<1>2. Current(pair)
  BY <1>1 DEF FreshIsCurrent, Suspect
<1>3. QED  BY <1>2 DEF Current

(* When the members one process has yet to stamp stay in flight, or are in *)
(* S, so do those of all.                                                  *)
LEMMA InFlightKept ==
    ASSUME proc \in [Procs -> Job], NEW p \in Procs, NEW job, Goto(p, job),
           NEW S, Unstamped(p) \subseteq Unstamped(p)' \cup S
    PROVE  InFlight \subseteq InFlight' \cup S
<1> SUFFICES ASSUME NEW q \in Procs, NEW r \in Unstamped(q)
             PROVE  r \in InFlight' \cup S
  BY DEF InFlight
<1>1. CASE q = p
  BY <1>1 DEF InFlight
<1>2. CASE q # p
  <2>1. proc'[q] = proc[q]
    BY <1>2 DEF Goto
  <2>2. r \in Unstamped(q)'
    BY <2>1 DEF Unstamped
  <2>3. QED  BY <2>2 DEF InFlight
<1>3. QED  BY <1>1, <1>2

(* What a process has yet to stamp when it goes on to the next member.     *)
LEMMA NextMemberUnstamped ==
    ASSUME IInv, NEW p \in Procs, NEW job \in Job, NextMember(p, job)
    PROVE  /\ \E next : Goto(p, next)
           /\ job.stamp \subseteq Unstamped(p)'
<1>0. proc \in [Procs -> Job]
  BY DEF IInv
<1>1. CASE job.stamp # {}
  <2>1. Goto(p, [job EXCEPT !.at = "stamp"])
    BY <1>1 DEF NextMember
  <2>2. proc'[p].at = "stamp" /\ proc'[p].stamp = job.stamp
    BY <1>0, <2>1 DEF Goto, Job
  <2>3. QED  BY <2>1, <2>2 DEF Unstamped
<1>2. CASE job.stamp = {}
  BY <1>2 DEF NextMember
<1>3. QED  BY <1>1, <1>2

(* The steps that leave rows, symbols and times.                           *)
LEMMA ReadsCurrent ==
    ASSUME IInv, FreshIsCurrent, NEW p \in Procs,
           \/ Call(p) \/ IndexAll(p) \/ CheckRepo(p) \/ CheckContracts(p)
           \/ ReadSymbols(p) \/ ReadFiles(p) \/ MarkMissing(p) \/ SetRepoMissing(p)
    PROVE  FreshIsCurrent'
<1>1. UNCHANGED <<symbols, newer, rows, overtaken, crossed>> /\ \E job : Goto(p, job)
  BY DEF Call, IndexAll, CheckRepo, CheckContracts, ReadSymbols, ReadFiles,
         MarkMissing, SetRepoMissing, index, history
<1>2. Unstamped(p) = {}
  <2>1. proc[p] = Free \/ proc[p].at \in {"walk", "symbols", "files", "mark"}
    BY DEF Call, IndexAll, CheckRepo, CheckContracts, ReadSymbols, ReadFiles,
           MarkMissing, SetRepoMissing
  <2>2. Free.at = "idle"
    BY DEF Free
  <2>3. QED  BY <2>1, <2>2 DEF Unstamped
<1>3. InFlight \subseteq InFlight'
  <2>1. PICK job : Goto(p, job)
    BY <1>1
  <2>2. InFlight \subseteq InFlight' \cup {}
    BY <1>2, <2>1, InFlightKept DEF IInv
  <2>3. QED  BY <2>2
<1>4. QED  BY <1>1, <1>3, CurrentUntouched DEF Suspect

LEMMA FailuresCurrent ==
    ASSUME IInv, FreshIsCurrent, NEW p \in Procs, FailMember(p) \/ Fail(p)
    PROVE  FreshIsCurrent'
<1>1. /\ UNCHANGED <<symbols, newer, rows, overtaken>>
      /\ crossed' = crossed \cup Unstamped(p)
  BY DEF FailMember, Fail
<1>2. PICK job : Goto(p, job)
  BY DEF FailMember, Fail
<1>3. InFlight \subseteq InFlight' \cup Unstamped(p)
  BY <1>2, InFlightKept DEF IInv
<1>4. QED  BY <1>1, <1>3, CurrentUntouched DEF Suspect

LEMMA ReplaceRepoCurrent ==
    ASSUME IInv, FreshIsCurrent, NEW p \in Procs, ReplaceRepo(p)
    PROVE  FreshIsCurrent'
<1> DEFINE touched == proc[p].stamp
           job == [proc[p] EXCEPT !.at = "clock"]
<1>1. /\ symbols' = [r \in Repos |-> IF r \in touched THEN proc[p].parsed[r]
                                     ELSE symbols[r]]
      /\ rows' = {row \in rows : row.pair[1] \notin touched}
      /\ UNCHANGED <<newer, overtaken, crossed>>
      /\ Goto(p, job) /\ proc[p].at = "replace"
  BY DEF ReplaceRepo, history
<1>2. proc \in [Procs -> Job]
  BY DEF IInv
<1>3. Unstamped(p) = {} /\ Unstamped(p)' = touched
  <2>1. proc'[p].at = "clock" /\ proc'[p].stamp = touched
    BY <1>1, <1>2 DEF Goto, Job
  <2>2. QED  BY <1>1, <2>1 DEF Unstamped
<1>4. InFlight \subseteq InFlight' \cup {}
  <2> HIDE DEF job
  <2>1. QED  BY <1>1, <1>2, <1>3, InFlightKept
<1>5. touched \subseteq InFlight'
  BY <1>3 DEF InFlight
<1> HIDE DEF touched, job
<1>6. Suspect \subseteq Suspect' /\ touched \subseteq Suspect'
  BY <1>1, <1>4, <1>5 DEF Suspect
<1>7. \A r \in Repos \ touched : symbols'[r] = symbols[r]
  BY <1>1
<1>8. QED  BY <1>1, <1>6, <1>7, CurrentKept

(* Every member is suspect or without rows, and no contract is left.       *)
LEMMA WriteWorkspaceCurrent ==
    ASSUME IInv, NEW p \in Procs, WriteWorkspace(p)
    PROVE  FreshIsCurrent'
<1> SUFFICES ASSUME NEW pair \in Linked, ~ Among(pair, InFlight')
             PROVE  Current(pair)'
  BY DEF FreshIsCurrent, Among
<1> DEFINE job == [proc[p] EXCEPT !.at = "clock"]
<1>1. /\ symbols' = proc[p].parsed /\ rows' = {}
      /\ Goto(p, job) /\ proc[p].at = "write_all"
  BY DEF WriteWorkspace
<1>2. proc \in [Procs -> Job] /\ Sound(proc[p], tree, crossed)
  BY DEF IInv
<1>3. Unstamped(p)' = proc[p].stamp
  <2>1. proc'[p].at = "clock" /\ proc'[p].stamp = proc[p].stamp
    BY <1>1, <1>2 DEF Goto, Job
  <2>2. QED  BY <2>1 DEF Unstamped
<1>4. proc[p].stamp \subseteq InFlight'
  BY <1>3 DEF InFlight
<1>5. pair[1] \in Repos /\ pair[1] \notin proc[p].stamp
  BY <1>4, ContractAssumption DEF Among
<1>6. proc[p].parsed[pair[1]] = 0
  BY <1>1, <1>2, <1>5 DEF Sound
<1>7. Found(pair, symbols', symbols') = {}
  BY <1>1, <1>6 DEF Found
<1>8. QED  BY <1>1, <1>7 DEF Current

LEMMA TakeTimeCurrent ==
    ASSUME IInv, FreshIsCurrent, NEW p \in Procs, TakeTime(p)
    PROVE  FreshIsCurrent'
<1> DEFINE job == [proc[p] EXCEPT !.late = FALSE]
<1>1. /\ UNCHANGED <<symbols, newer, rows, overtaken, crossed>>
      /\ NextMember(p, job) /\ proc[p].at = "clock"
  BY DEF TakeTime, index, history
<1>2. proc \in [Procs -> Job]
  BY DEF IInv
<1>3. job \in Job /\ job.stamp = proc[p].stamp
  BY <1>2 DEF Job
<1> HIDE DEF job
<1>4. PICK next : Goto(p, next)
  BY <1>1, <1>3, NextMemberUnstamped
<1>5. Unstamped(p) \subseteq Unstamped(p)'
  BY <1>1, <1>3, NextMemberUnstamped DEF Unstamped
<1>6. InFlight \subseteq InFlight' \cup {}
  BY <1>2, <1>4, <1>5, InFlightKept
<1>7. QED  BY <1>1, <1>6, CurrentUntouched DEF Suspect

(* A time set late takes the word of no member that is not crossed.        *)
LEMMA SetRepoIndexedAtCurrent ==
    ASSUME IInv, FreshIsCurrent, NEW p \in Procs, SetRepoIndexedAt(p)
    PROVE  FreshIsCurrent'
<1>1. PICK r \in proc[p].stamp :
         /\ newer' = IF proc[p].late THEN newer \ {r} ELSE newer \cup {r}
         /\ overtaken' = IF proc[p].late THEN overtaken ELSE overtaken \ {r}
         /\ Goto(p, [proc[p] EXCEPT !.at = "record", !.record = {r},
                                    !.stamp = proc[p].stamp \ {r}])
  BY DEF SetRepoIndexedAt
<1>2. UNCHANGED <<symbols, rows, crossed>> /\ proc[p].at = "stamp"
  BY DEF SetRepoIndexedAt
<1>3. proc \in [Procs -> Job] /\ Sound(proc[p], tree, crossed)
  BY DEF IInv
<1>4. Unstamped(p) \subseteq Unstamped(p)' \cup {r}
  <2> DEFINE job == [proc[p] EXCEPT !.at = "record", !.record = {r},
                                    !.stamp = proc[p].stamp \ {r}]
  <2>0. proc[p] \in Job /\ job.at = "record" /\ job.stamp = proc[p].stamp \ {r}
    BY <1>3 DEF Job
  <2>1. proc'[p].at = "record" /\ proc'[p].stamp = proc[p].stamp \ {r}
    BY <1>1, <1>3, <2>0 DEF Goto
  <2>2. QED  BY <1>2, <2>1 DEF Unstamped
<1>5. InFlight \subseteq InFlight' \cup {r}
  BY <1>1, <1>3, <1>4, InFlightKept
<1>6. r \in newer' \cup crossed'
  BY <1>1, <1>2, <1>3 DEF Sound
<1>7. newer \cup overtaken \subseteq newer' \cup overtaken' \cup {r}
  BY <1>1
<1>8. Suspect \subseteq Suspect'
  BY <1>2, <1>5, <1>6, <1>7 DEF Suspect
<1>9. QED  BY <1>2, <1>8, CurrentUntouched

LEMMA RecordCurrent ==
    ASSUME IInv, FreshIsCurrent, NEW p \in Procs, RecordSourceFingerprint(p)
    PROVE  FreshIsCurrent'
<1> DEFINE job == [proc[p] EXCEPT !.record = {}]
<1>1. /\ UNCHANGED <<symbols, newer, rows, overtaken, crossed>>
      /\ NextMember(p, job) /\ proc[p].at = "record"
  BY DEF RecordSourceFingerprint, history
<1>2. proc \in [Procs -> Job]
  BY DEF IInv
<1>3. job \in Job /\ job.stamp = proc[p].stamp
  BY <1>2 DEF Job
<1> HIDE DEF job
<1>4. PICK next : Goto(p, next)
  BY <1>1, <1>3, NextMemberUnstamped
<1>5. Unstamped(p) \subseteq Unstamped(p)'
  BY <1>1, <1>3, NextMemberUnstamped DEF Unstamped
<1>6. InFlight \subseteq InFlight' \cup {}
  BY <1>2, <1>4, <1>5, InFlightKept
<1>7. QED  BY <1>1, <1>6, CurrentUntouched DEF Suspect

(* An analysis that has read a pair as it is indexed shows it, whatever it *)
(* has read of the others.                                                 *)
LEMMA WriteContractsCurrent ==
    ASSUME IInv, NEW p \in Procs, WriteContractsAll(p)
    PROVE  FreshIsCurrent'
<1> SUFFICES ASSUME NEW pair \in Linked, ~ Among(pair, overtaken')
             PROVE  Current(pair)'
  BY DEF FreshIsCurrent, Among
<1> DEFINE syms == proc[p].symbols
           files == proc[p].files
<1>1. pair[1] \in Repos /\ pair[2] \in Repos
  BY ContractAssumption
<1>2. \A r \in {pair[1], pair[2]} : syms[r] = symbols[r] /\ files[r] = symbols[r]
  BY <1>1 DEF WriteContractsAll, Among
<1>3. rows' = Analysis(syms, files) /\ UNCHANGED symbols
  BY DEF WriteContractsAll
<1> HIDE DEF syms, files
<1>4. Found(pair, symbols', symbols') = Found(pair, syms, files)
  BY <1>2, <1>3 DEF Found
<1>5. \A row : row \in rows' /\ row.pair = pair => row \in Found(pair, syms, files)
  BY <1>3, FoundPair DEF Analysis
<1>6. \A row \in Found(pair, syms, files) : row \in rows' /\ row.pair = pair
  BY <1>3, FoundPair DEF Analysis
<1>7. {row \in rows' : row.pair = pair} = Found(pair, syms, files)
  BY <1>5, <1>6
<1>8. QED  BY <1>4, <1>7 DEF Current

(* Whatever index writes, analyses, edits, failures and crashes overlap,   *)
(* in whatever order times are taken and written, the rows of members that *)
(* IsContractStale does not call stale show what is indexed, but for the   *)
(* exceptions FreshIsCurrent names.                                        *)
THEOREM FreshAnalysesAreCurrent == Spec => []FreshIsCurrent
<1>1. Init => FreshIsCurrent
  BY ContractAssumption DEF Init, FreshIsCurrent, Among
<1>2. ASSUME IInv, FreshIsCurrent, [Next]_vars PROVE FreshIsCurrent'
  <2>1. CASE Edit
    <3>1. UNCHANGED <<proc, index>>
      BY <2>1 DEF Edit
    <3>2. UNCHANGED <<symbols, rows>> /\ Suspect \subseteq Suspect'
      BY <3>1 DEF index, history, Suspect, InFlight, Unstamped
    <3>3. QED  BY <1>2, <3>2, CurrentUntouched
  <2>2. ASSUME NEW p \in Procs,
               Call(p) \/ IndexAll(p) \/ MarkMissing(p) \/ Work(p) \/ FailMember(p) \/ Fail(p)
        PROVE  FreshIsCurrent'
    BY <1>2, <2>2, ReadsCurrent, FailuresCurrent, ReplaceRepoCurrent, WriteWorkspaceCurrent,
       TakeTimeCurrent, SetRepoIndexedAtCurrent, RecordCurrent, WriteContractsCurrent DEF Work
  <2>3. CASE UNCHANGED vars
    <3>1. UNCHANGED <<symbols, rows>> /\ Suspect \subseteq Suspect'
      BY <2>3 DEF vars, index, history, Suspect, InFlight, Unstamped
    <3>2. QED  BY <1>2, <3>1, CurrentUntouched
  <2>4. QED  BY <1>2, <2>1, <2>2, <2>3 DEF Next
<1>3. QED  BY <1>1, <1>2, Invariant, PTL DEF Spec
=============================================================================
