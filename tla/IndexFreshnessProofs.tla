------------------------ MODULE IndexFreshnessProofs ------------------------
(***************************************************************************)
(* Proofs about IndexFreshness, for every number of processes, checkouts,  *)
(* files and versions: type correctness of every behaviour; in an          *)
(* environment that leaves a rebuild undisturbed, and in one where         *)
(* processes fail and are killed at any step, that an index judged current *)
(* is fresh and that every answer is; and that searchable text is current  *)
(* where files change while they are read.                                 *)
(***************************************************************************)
EXTENDS IndexFreshness, TLAPS

LEMMA NoJobType ==
  /\ NoTree \in Tree /\ NoJob \in Job
  /\ \A c \in Checkouts, auto \in BOOLEAN : NewJob(c, auto) \in Job
<1>1. NoTree \in Tree
  BY FilesAssumption DEF NoTree, Tree, Version
<1>2. \A c \in Checkouts, auto \in BOOLEAN : NewJob(c, auto) \in Job
  BY <1>1 DEF NewJob, Job
<1>3. (CHOOSE c \in Checkouts : TRUE) \in Checkouts
  BY ProcsAssumption
<1> QED
  BY <1>1, <1>2, <1>3 DEF NoJob

LEMMA RowsType == \A t \in Tree : RowsOf(t) \in Tree
  BY FilesAssumption DEF RowsOf, Parsed, Tree, Version

(* Init: every start state is well typed.                                  *)
LEMMA InitType == Init => TypeOK
<1> SUFFICES ASSUME Init PROVE TypeOK
  OBVIOUS
<1>1. src \in [Checkouts -> Tree]
  BY FilesAssumption DEF Init
<1>2. NoDatabase \in Database
  BY NoJobType DEF NoDatabase, Database
<1>3. \A c \in Checkouts : OlderIndex(c) \in Database
  BY <1>1, NoJobType, RowsType DEF OlderIndex, NoDatabase, Database
<1>4. faults \in 0 .. MaxFaults
  BY ProcsAssumption DEF Init
<1> QED
  BY <1>1, <1>2, <1>3, <1>4, NoJobType DEF Init, TypeOK, Label


-----------------------------------------------------------------------------
(* What each action that works on several locals does to them: the locals  *)
(* of the other processes stay, and these fields of p change.              *)

OthersKeep(p) == /\ job' \in [Procs -> Job]
                 /\ \A q \in Procs \ {p} : job'[q] = job[q]

KeepsHome(p) == /\ job'[p].home = job[p].home
                /\ job'[p].auto = job[p].auto

(* One process's locals are replaced by another well-typed record.         *)
LEMMA Replace == ASSUME TypeOK, NEW p \in Procs, NEW r \in Job,
                        job' = [job EXCEPT ![p] = r]
                 PROVE  OthersKeep(p) /\ job'[p] = r
  BY DEF TypeOK, OthersKeep

LEMMA StartEffect ==
  ASSUME TypeOK, NEW p \in Procs, NEW c \in Checkouts, NEW auto \in BOOLEAN,
         NEW label \in Label, Start(p, c, label, auto)
  PROVE  /\ OthersKeep(p) /\ job'[p] = NewJob(c, auto)
         /\ pc' = [pc EXCEPT ![p] = label]
  BY NoJobType, Replace DEF Start, Goto

LEMMA StopEffect == ASSUME TypeOK, NEW p \in Procs, Stop(p)
                    PROVE  /\ OthersKeep(p) /\ job'[p] = NoJob
                           /\ pc' = [pc EXCEPT ![p] = "idle"]
  BY NoJobType, Replace DEF Stop, Goto

LEMMA WalkEffect ==
  ASSUME TypeOK, NEW p \in Procs, Walk(p)
  PROVE  /\ OthersKeep(p) /\ KeepsHome(p)
         /\ job'[p].purpose = job[p].purpose /\ job'[p].ast = job[p].ast
         /\ job'[p].known = job[p].known /\ job'[p].stored = job[p].stored
         /\ job'[p].hash = NoTree
         /\ job'[p].todo = {GoMod} \cup
              {f \in GoFiles : Disk(p)[f] # 0 \/ job[p].known[f] # 0}
<1> DEFINE t == {GoMod} \cup
                  {f \in GoFiles : Disk(p)[f] # 0 \/ job[p].known[f] # 0}
           r == [[job[p] EXCEPT !.hash = NoTree] EXCEPT !.todo = t]
<1>1. job[p] \in Job /\ t \in SUBSET Files
  BY DEF TypeOK, Files
<1>2. job' = [job EXCEPT ![p] = r]
  BY <1>1 DEF Walk, Listed, TypeOK, Job
<1>3. r \in Job
  BY <1>1, NoJobType DEF Job
<1>4. OthersKeep(p) /\ job'[p] = r
  BY <1>2, <1>3, Replace
<1> QED
  BY <1>1, <1>4 DEF Job, KeepsHome

LEMMA HashFileEffect ==
  ASSUME TypeOK, NEW p \in Procs, NEW f \in Files, HashFile(p, f)
  PROVE  /\ OthersKeep(p) /\ KeepsHome(p)
         /\ job'[p].purpose = job[p].purpose /\ job'[p].ast = job[p].ast
         /\ job'[p].known = job[p].known /\ job'[p].stored = job[p].stored
         /\ job'[p].hash = [job[p].hash EXCEPT ![f] =
              IF job[p].known[f] # 0 THEN job[p].known[f] ELSE Disk(p)[f]]
         /\ job'[p].todo = job[p].todo \ {f}
<1> DEFINE v == IF job[p].known[f] # 0 THEN job[p].known[f] ELSE Disk(p)[f]
           h == [job[p].hash EXCEPT ![f] = v]
           r == [[job[p] EXCEPT !.todo = job[p].todo \ {f}] EXCEPT !.hash = h]
<1>1. job[p] \in Job
  BY DEF TypeOK
<1>2. v \in Version
  BY <1>1 DEF TypeOK, Disk, Home, Job, Tree
<1>3. h \in Tree
  BY <1>1, <1>2 DEF Job, Tree
<1>4. job' = [job EXCEPT ![p] = r]
  BY <1>1 DEF HashFile, TypeOK, Job
<1>5. r \in Job
  BY <1>1, <1>3 DEF Job
<1>6. OthersKeep(p) /\ job'[p] = r
  BY <1>4, <1>5, Replace
<1> QED
  BY <1>1, <1>6 DEF Job, KeepsHome

LEMMA CheckMetaEffect ==
  ASSUME TypeOK, NEW p \in Procs, CheckMeta(p)
  PROVE  /\ OthersKeep(p) /\ KeepsHome(p)
         /\ job'[p].known = job[p].known /\ job'[p].ast = job[p].ast
         /\ \/ pc' = [pc EXCEPT ![p] = "auto"] /\ job' = job
            \/ /\ pc' = [pc EXCEPT ![p] = "walk"] /\ MetaCurrent(Home(p))
               /\ job'[p].purpose = "check" /\ job'[p].stored = db.fp
<1> DEFINE r == [[job[p] EXCEPT !.purpose = "check"] EXCEPT !.stored = db.fp]
<1>1. job[p] \in Job
  BY DEF TypeOK
<1>2. CASE ~MetaCurrent(Home(p))
  BY <1>1, <1>2 DEF CheckMeta, Goto, OthersKeep, KeepsHome, TypeOK
<1>3. CASE MetaCurrent(Home(p))
  <2>1. job' = [job EXCEPT ![p] = r]
    BY <1>1, <1>3 DEF CheckMeta, TypeOK, Job
  <2>2. r \in Job
    BY <1>1 DEF Job, TypeOK, Database
  <2>3. OthersKeep(p) /\ job'[p] = r
    BY <2>1, <2>2, Replace
  <2> QED
    BY <1>1, <1>3, <2>3 DEF CheckMeta, Goto, Job, KeepsHome
<1> QED
  BY <1>2, <1>3

LEMMA ListEffect ==
  ASSUME TypeOK, NEW p \in Procs, List(p)
  PROVE  /\ OthersKeep(p) /\ KeepsHome(p)
         /\ job'[p].ast = [NoTree EXCEPT ![GoMod] = Disk(p)[GoMod]]
         /\ job'[p].known = NoTree
         /\ job'[p].todo = {f \in GoFiles : Disk(p)[f] # 0}
<1> DEFINE m == [NoTree EXCEPT ![GoMod] = Disk(p)[GoMod]]
           t == {f \in GoFiles : Disk(p)[f] # 0}
           r == [[[job[p] EXCEPT !.ast = m] EXCEPT !.known = NoTree]
                  EXCEPT !.todo = t]
<1>1. job[p] \in Job /\ t \in SUBSET Files
  BY DEF TypeOK, Files
<1>2. m \in Tree
  BY <1>1, NoJobType DEF Tree, TypeOK, Job, Disk, Home, Files
<1>3. job' = [job EXCEPT ![p] = r]
  BY <1>1 DEF List, TypeOK, Job
<1>4. r \in Job
  BY <1>1, <1>2, NoJobType DEF Job
<1>5. OthersKeep(p) /\ job'[p] = r
  BY <1>3, <1>4, Replace
<1> QED
  BY <1>1, <1>5 DEF Job, KeepsHome

LEMMA ParseFileEffect ==
  ASSUME TypeOK, NEW p \in Procs, NEW f \in GoFiles, ParseFile(p, f)
  PROVE  /\ OthersKeep(p) /\ KeepsHome(p)
         /\ job'[p].known = job[p].known
         /\ job'[p].ast = [job[p].ast EXCEPT ![f] = Parsed(f, Disk(p)[f])]
         /\ job'[p].todo = job[p].todo \ {f}
<1> DEFINE v == Parsed(f, Disk(p)[f])
           a == [job[p].ast EXCEPT ![f] = v]
           r == [[job[p] EXCEPT !.todo = job[p].todo \ {f}] EXCEPT !.ast = a]
<1>1. job[p] \in Job /\ f \in Files
  BY DEF TypeOK, Files
<1>2. v \in Version
  BY <1>1, FilesAssumption DEF TypeOK, Disk, Home, Job, Tree, Parsed, Version
<1>3. a \in Tree
  BY <1>1, <1>2 DEF Job, Tree
<1>4. job' = [job EXCEPT ![p] = r]
  BY <1>1 DEF ParseFile, TypeOK, Job
<1>5. r \in Job
  BY <1>1, <1>3 DEF Job
<1>6. OthersKeep(p) /\ job'[p] = r
  BY <1>4, <1>5, Replace
<1> QED
  BY <1>1, <1>6 DEF Job, KeepsHome

LEMMA CreateEffect ==
  ASSUME TypeOK, NEW p \in Procs, Create(p)
  PROVE  /\ OthersKeep(p) /\ KeepsHome(p)
         /\ job'[p].known = job[p].known /\ job'[p].ast = job[p].ast
         /\ job'[p].todo = ParsedFiles(p)
<1>1. ParsedFiles(p) \in SUBSET Files
  BY DEF ParsedFiles, Files
<1> QED
  BY <1>1 DEF TypeOK, Create, Job, OthersKeep, KeepsHome

LEMMA ReadFileEffect ==
  ASSUME TypeOK, NEW p \in Procs, NEW f \in GoFiles, ReadFile(p, f)
  PROVE  /\ OthersKeep(p) /\ KeepsHome(p)
         /\ job'[p].ast = job[p].ast /\ job'[p].purpose = job[p].purpose
         /\ job'[p].known = [job[p].known EXCEPT ![f] = Disk(p)[f]]
         /\ job'[p].todo = job[p].todo \ {f}
<1> DEFINE k == [job[p].known EXCEPT ![f] = Disk(p)[f]]
           r == [[job[p] EXCEPT !.todo = job[p].todo \ {f}] EXCEPT !.known = k]
<1>1. job[p] \in Job /\ f \in Files
  BY DEF TypeOK, Files
<1>2. k \in Tree
  BY <1>1 DEF Job, Tree, TypeOK, Disk, Home
<1>3. job' = [job EXCEPT ![p] = r]
  BY <1>1 DEF ReadFile, TypeOK, Job
<1>4. r \in Job
  BY <1>1, <1>2 DEF Job
<1>5. OthersKeep(p) /\ job'[p] = r
  BY <1>3, <1>4, Replace
<1> QED
  BY <1>1, <1>5 DEF Job, KeepsHome

LEMMA WriteEffect ==
  ASSUME TypeOK, NEW p \in Procs, Write(p)
  PROVE  /\ db' \in Database
         /\ db'.dir = {Home(p)} /\ db'.rows = job[p].ast
         /\ db'.analyzer = "this"
<1> DEFINE k == IF job[p].known = NoTree THEN db.files ELSE job[p].known
           d == [[[[db EXCEPT !.dir = {Home(p)}] EXCEPT !.rows = job[p].ast]
                   EXCEPT !.analyzer = "this"] EXCEPT !.files = k]
<1>1. db \in Database /\ job[p] \in Job
  BY DEF TypeOK
<1>2. k \in Tree /\ Home(p) \in Checkouts
  BY <1>1 DEF Database, Job, Home
<1>3. db' = d
  BY <1>1 DEF Write, Database
<1>4. d \in Database
  BY <1>1, <1>2 DEF Database, Job
<1> QED
  BY <1>1, <1>3, <1>4 DEF Database

LEMMA SetRepoMetaEffect ==
  ASSUME TypeOK, NEW p \in Procs, SetRepoMeta(p)
  PROVE  /\ OthersKeep(p) /\ KeepsHome(p)
         /\ job'[p].purpose = "record" /\ job'[p].ast = job[p].ast
         /\ \/ /\ pc' = [pc EXCEPT ![p] = "walk"]
               /\ job'[p].known = job[p].known
            \/ /\ pc' = [pc EXCEPT ![p] = "reread"]
               /\ job'[p].known = NoTree /\ job'[p].todo = ParsedFiles(p)
<1>1. job[p] \in Job /\ ParsedFiles(p) \in SUBSET Files
  BY DEF TypeOK, ParsedFiles, Files
<1>2. CASE p \in Clis
  <2> DEFINE r == [[[job[p] EXCEPT !.known = NoTree] EXCEPT
                      !.purpose = "record"] EXCEPT !.todo = ParsedFiles(p)]
  <2>1. job' = [job EXCEPT ![p] = r]
    BY <1>1, <1>2 DEF SetRepoMeta, TypeOK, Job
  <2>2. r \in Job
    BY <1>1, NoJobType DEF Job
  <2>3. OthersKeep(p) /\ job'[p] = r
    BY <2>1, <2>2, Replace
  <2> QED
    BY <1>1, <1>2, <2>3 DEF SetRepoMeta, Goto, Job, KeepsHome
<1>3. CASE p \notin Clis
  BY <1>1, <1>3 DEF SetRepoMeta, Goto, TypeOK, Job, OthersKeep, KeepsHome
<1> QED
  BY <1>2, <1>3

-----------------------------------------------------------------------------
(* Type correctness.                                                       *)

(* Every step keeps the state well typed, action by action.                *)
LEMMA StepType == TypeOK /\ [Next]_vars => TypeOK'
<1> SUFFICES ASSUME TypeOK, [Next]_vars PROVE TypeOK'
  OBVIOUS
<1>1. CASE UNCHANGED vars
  BY <1>1 DEF TypeOK, vars
<1>2. ASSUME NEW c \in Checkouts, NEW f \in Files, NEW v \in Version,
             Edit(c, f, v)
      PROVE  TypeOK'
  BY <1>2 DEF TypeOK, Edit, Tree
<1>3. ASSUME NEW p \in Procs, NEW c \in Checkouts, NEW auto \in BOOLEAN,
             NEW label \in Label, Start(p, c, label, auto)
      PROVE  TypeOK'
  <2>1. OthersKeep(p) /\ pc' = [pc EXCEPT ![p] = label]
    BY <1>3, StartEffect
  <2> QED
    BY <1>3, <2>1 DEF TypeOK, Start, OthersKeep
<1>4. ASSUME NEW p \in Procs, Walk(p) PROVE TypeOK'
  BY <1>4, WalkEffect DEF TypeOK, Walk, Goto, OthersKeep, Label
<1>5. ASSUME NEW p \in Procs, NEW f \in Files, HashFile(p, f) PROVE TypeOK'
  BY <1>5, HashFileEffect DEF TypeOK, HashFile, OthersKeep
<1>6. ASSUME NEW p \in Procs, CheckMeta(p) PROVE TypeOK'
  BY <1>6, CheckMetaEffect DEF TypeOK, CheckMeta, OthersKeep, Label
<1>7. ASSUME NEW p \in Procs, CheckSource(p) PROVE TypeOK'
  BY <1>7 DEF TypeOK, CheckSource, Goto, Label
<1>8. ASSUME NEW p \in Procs, HashFails(p) PROVE TypeOK'
  BY <1>8, StopEffect DEF TypeOK, HashFails, Goto, OthersKeep, Label
<1>9. ASSUME NEW p \in Procs, Refuse(p) PROVE TypeOK'
  BY <1>9, StopEffect DEF TypeOK, Refuse, OthersKeep, Label
<1>10. ASSUME NEW p \in Procs, AutoIndex(p) PROVE TypeOK'
  BY <1>10 DEF TypeOK, AutoIndex, Goto, Label
<1>11. ASSUME NEW p \in Procs, BackoffExpires(p) PROVE TypeOK'
  BY <1>11 DEF TypeOK, BackoffExpires
<1>12. ASSUME NEW p \in Procs, Answer(p) PROVE TypeOK'
  BY <1>12, StopEffect DEF TypeOK, Answer, OthersKeep, Label
<1>13. ASSUME NEW p \in Procs, List(p) PROVE TypeOK'
  BY <1>13, ListEffect DEF TypeOK, List, Goto, OthersKeep, Label
<1>14. ASSUME NEW p \in Procs, NEW f \in GoFiles, ParseFile(p, f) PROVE TypeOK'
  BY <1>14, ParseFileEffect DEF TypeOK, ParseFile, OthersKeep
<1>15. ASSUME NEW p \in Procs, Create(p) PROVE TypeOK'
  BY <1>15, CreateEffect DEF TypeOK, Create, Goto, Database, OthersKeep, Label
<1>16. ASSUME NEW p \in Procs, NEW f \in GoFiles, ReadFile(p, f) PROVE TypeOK'
  BY <1>16, ReadFileEffect DEF TypeOK, ReadFile, OthersKeep
<1>17. ASSUME NEW p \in Procs, Write(p) PROVE TypeOK'
  <2>1. db' \in Database
    BY <1>17, WriteEffect DEF TypeOK
  <2> QED
    BY <1>17, <2>1 DEF TypeOK, Write, Goto, Label
<1>18. ASSUME NEW p \in Procs, SetIndexedAt(p) PROVE TypeOK'
  BY <1>18 DEF TypeOK, SetIndexedAt, Goto, Database, Label
<1>19. ASSUME NEW p \in Procs, SetRepoMeta(p) PROVE TypeOK'
  <2>1. db' \in Database
    BY <1>19 DEF TypeOK, SetRepoMeta, Database, Job, Home
  <2> QED
    BY <1>19, <2>1, SetRepoMetaEffect DEF TypeOK, SetRepoMeta, OthersKeep, Label
<1>20. ASSUME NEW p \in Procs, Reread(p) PROVE TypeOK'
  BY <1>20 DEF TypeOK, Reread, Goto, Label
<1>21. ASSUME NEW p \in Procs, Record(p) PROVE TypeOK'
  <2>1. db' \in Database
    BY <1>21 DEF TypeOK, Record, Database, Job
  <2> QED
    BY <1>21, <2>1, StopEffect DEF TypeOK, Record, Goto, OthersKeep, Label
<1>22. ASSUME NEW p \in Procs, Fail(p) PROVE TypeOK'
  <2>1. faults' \in 0 .. MaxFaults
    BY <1>22, ProcsAssumption DEF TypeOK, Fail
  <2> QED
    BY <1>22, <2>1, StopEffect DEF TypeOK, Fail, OthersKeep, Label
<1>23. ASSUME NEW p \in Procs, Crash(p) PROVE TypeOK'
  <2>1. faults' \in 0 .. MaxFaults
    BY <1>23, ProcsAssumption DEF TypeOK, Crash
  <2> QED
    BY <1>23, <2>1, StopEffect DEF TypeOK, Crash, OthersKeep, Label
<1>24. CASE Next
  <2>1. ASSUME NEW p \in Servers, Call(p) \/ Reindex(p) PROVE TypeOK'
    BY <1>3, <2>1, ProcsAssumption DEF Call, Reindex, Procs, Label
  <2>2. ASSUME NEW p \in Clis, NEW c \in Checkouts, CliIndex(p, c) PROVE TypeOK'
    BY <1>3, <2>2 DEF CliIndex, Procs, Label
  <2>3. ASSUME NEW p \in Procs, Step(p) \/ Fail(p) \/ Crash(p) PROVE TypeOK'
    BY <2>3, <1>4, <1>5, <1>6, <1>7, <1>8, <1>9, <1>10, <1>12, <1>13, <1>14,
       <1>15, <1>16, <1>17, <1>18, <1>19, <1>20, <1>21, <1>22, <1>23
    DEF Step, Hashing, Rebuilding
  <2> QED
    BY <1>24, <1>2, <1>11, <2>1, <2>2, <2>3 DEF Next, Procs
<1> QED
  BY <1>1, <1>24

(* Whatever edits, crashes, failures and other processes do, the disk, the *)
(* database and every process's locals stay well typed.                    *)
THEOREM TypeCorrect == Spec => []TypeOK
  BY InitType, StepType, PTL DEF Spec

-----------------------------------------------------------------------------
(* Freshness, in an environment that leaves a rebuild undisturbed.         *)

LocalInv(p) == ParsedIsDisk(p) /\ KnownIsDisk(p) /\ HashIsDisk(p)

(* Nothing another process has read changes while the disk does not.       *)
LEMMA OthersLocal ==
  ASSUME TypeOK, NEW p \in Procs, NEW q \in Procs \ {p}, OthersKeep(p),
         src' = src, pc'[q] = pc[q]
  PROVE  /\ LocalInv(q) => LocalInv(q)'
         /\ Swapping(q)' <=> Swapping(q)
         /\ Checking(q)' <=> Checking(q)
         /\ Home(q)' = Home(q) /\ Disk(q)' = Disk(q)
         /\ job'[q] = job[q]
<1>1. job'[q] = job[q]
  BY DEF OthersKeep
<1> QED
  BY <1>1 DEF LocalInv, ParsedIsDisk, KnownIsDisk, HashIsDisk, Swapping,
              Checking, Home, Disk, RowsOf, Busy, Idle

(* What a step of p has to show: its own locals, and that it leaves fresh  *)
(* rows fresh.  What the others have read and committed follows.           *)
LEMMA Lift ==
  ASSUME TypeOK, ReadingInv, NEW p \in Procs, OthersKeep(p), src' = src,
         \A q \in Procs \ {p} : pc'[q] = pc[q],
         \/ Busy(p) /\ KeepsHome(p)
         \/ pc'[p] = "idle" /\ job'[p] = NoJob,
         pc'[p] \in {"meta?", "auto", "answer"} => p \in Servers,
         LocalInv(p)', CommittedIsFresh(p)',
         \A q \in Procs \ {p} : Busy(q) =>
           /\ Fresh(q) => Fresh(q)'
           /\ db.repo = {Home(q)} => db'.repo = {Home(q)}
  PROVE  ReadingInv'
<1>1. SameHome'
  BY DEF ReadingInv, SameHome, OthersKeep, KeepsHome, Busy, Idle, Home
<1>2. Served'
  BY DEF ReadingInv, Served, OthersKeep, KeepsHome, Busy, Idle, Home, NoJob,
         NewJob
<1>3. \A q \in Procs : LocalInv(q)'
  BY OthersLocal DEF ReadingInv, LocalInv
<1>4. ASSUME NEW q \in Procs \ {p} PROVE CommittedIsFresh(q)'
  <2>1. CASE Idle(q)
    BY <1>4, <2>1 DEF CommittedIsFresh, Swapping, Checking, Idle
  <2>2. CASE Busy(q)
    BY <1>4, <2>2, OthersLocal DEF CommittedIsFresh, ReadingInv
  <2> QED
    BY <2>1, <2>2 DEF Busy
<1> QED
  BY <1>1, <1>2, <1>3, <1>4 DEF ReadingInv, LocalInv

(* Steps that leave the database alone.                                    *)
LEMMA LiftReading ==
  ASSUME TypeOK, ReadingInv, NEW p \in Procs, OthersKeep(p), src' = src,
         db' = db,
         \A q \in Procs \ {p} : pc'[q] = pc[q],
         \/ Busy(p) /\ KeepsHome(p)
         \/ pc'[p] = "idle" /\ job'[p] = NoJob,
         pc'[p] \in {"meta?", "auto", "answer"} => p \in Servers,
         LocalInv(p)', CommittedIsFresh(p)'
  PROVE  ReadingInv'
<1>1. \A q \in Procs \ {p} : Fresh(q) => Fresh(q)'
  BY OthersLocal DEF Fresh, RowsFresh
<1> QED
  BY <1>1, Lift

(* Going idle, wherever the process was, needs nothing else.               *)
LEMMA LiftStop ==
  ASSUME TypeOK, ReadingInv, NEW p \in Procs, Stop(p), src' = src, db' = db
  PROVE  ReadingInv'
<1>1. /\ OthersKeep(p) /\ job'[p] = NoJob
      /\ pc' = [pc EXCEPT ![p] = "idle"]
  BY StopEffect
<1>2. pc'[p] = "idle" /\ \A q \in Procs \ {p} : pc'[q] = pc[q]
  BY <1>1 DEF TypeOK
<1>3. LocalInv(p)' /\ CommittedIsFresh(p)'
  BY <1>2 DEF LocalInv, ParsedIsDisk, KnownIsDisk, HashIsDisk,
              CommittedIsFresh, Swapping, Checking, Busy, Idle
<1> QED
  BY <1>1, <1>2, <1>3, LiftReading

(* Whoever reads the disk reads the same disk: no edit falls in between.   *)
LEMMA ReadingSteps ==
  ASSUME TypeOK, ReadingInv, NEW p \in Procs
  PROVE  /\ Walk(p) => ReadingInv'
         /\ \A f \in Files : HashFile(p, f) => ReadingInv'
         /\ List(p) => ReadingInv'
         /\ \A f \in GoFiles : ParseFile(p, f) => ReadingInv'
         /\ \A f \in GoFiles : ReadFile(p, f) => ReadingInv'
         /\ Reread(p) => ReadingInv'
<1>1. job[p] \in Job /\ Disk(p) \in Tree /\ GoMod \in Files /\ GoFiles \subseteq Files
  BY DEF TypeOK, Job, Disk, Home, Files
<1>2. ASSUME Walk(p) PROVE ReadingInv'
  <2>1. /\ OthersKeep(p) /\ KeepsHome(p) /\ src' = src /\ db' = db
        /\ Busy(p) /\ pc[p] = "walk" /\ pc'[p] = "hash"
        /\ \A q \in Procs \ {p} : pc'[q] = pc[q]
    BY <1>2, WalkEffect DEF Walk, Goto, Busy, Idle, TypeOK
  <2>2. Disk(p)' = Disk(p) /\ Home(p)' = Home(p)
    BY <2>1 DEF KeepsHome, Disk, Home
  <2>3. LocalInv(p)'
    <3>1. ParsedIsDisk(p)'
      BY <1>2, <2>1, <2>2, WalkEffect
      DEF ReadingInv, ParsedIsDisk, Swapping, RowsOf
    <3>2. KnownIsDisk(p)'
      BY <1>2, <2>1, <2>2, WalkEffect DEF ReadingInv, KnownIsDisk, Busy, Idle
    <3>3. HashIsDisk(p)'
      <4>1. \A f \in Files : job[p].known[f] \in {0, Disk(p)[f]}
        BY <2>1 DEF ReadingInv, KnownIsDisk
      <4>2. \A f \in job'[p].todo \ {GoMod} : Disk(p)[f] # 0
        BY <1>1, <1>2, <4>1, WalkEffect
      <4>3. \A f \in Files \ job'[p].todo : job'[p].hash[f] = Disk(p)[f]
        BY <1>1, <1>2, WalkEffect DEF Files, NoTree
      <4> QED
        BY <2>2, <4>2, <4>3 DEF HashIsDisk
    <3> QED
      BY <3>1, <3>2, <3>3 DEF LocalInv
  <2>4. CommittedIsFresh(p)'
    BY <1>2, <2>1, <2>2, WalkEffect
    DEF ReadingInv, CommittedIsFresh, Swapping, Checking, Fresh, RowsFresh
  <2> QED
    BY <2>1, <2>3, <2>4, LiftReading
<1>3. ASSUME NEW f \in Files, HashFile(p, f) PROVE ReadingInv'
  <2>1. /\ OthersKeep(p) /\ KeepsHome(p) /\ src' = src /\ db' = db /\ pc' = pc
        /\ Busy(p) /\ pc[p] = "hash"
    BY <1>3, HashFileEffect DEF HashFile, Busy, Idle
  <2>2. Disk(p)' = Disk(p) /\ Home(p)' = Home(p)
    BY <2>1 DEF KeepsHome, Disk, Home
  <2>3. LocalInv(p)'
    <3> /\ job'[p].hash = [job[p].hash EXCEPT ![f] =
            IF job[p].known[f] # 0 THEN job[p].known[f] ELSE Disk(p)[f]]
        /\ job'[p].todo = job[p].todo \ {f} /\ job'[p].ast = job[p].ast
        /\ job'[p].known = job[p].known /\ job'[p].purpose = job[p].purpose
      BY <1>3, HashFileEffect
    <3>1. ParsedIsDisk(p)' /\ KnownIsDisk(p)'
      <4>1. ParsedIsDisk(p)'
        BY <2>1, <2>2 DEF ReadingInv, ParsedIsDisk, Swapping, RowsOf
      <4>2. KnownIsDisk(p)'
        BY <2>1, <2>2 DEF ReadingInv, KnownIsDisk, Busy, Idle
      <4> QED
        BY <4>1, <4>2
    <3>2. HashIsDisk(p)'
      <4> job[p].hash \in [Files -> Version]
        BY <1>1 DEF Job, Tree
      <4>1. job[p].known[f] \in {0, Disk(p)[f]}
        BY <2>1 DEF ReadingInv, KnownIsDisk
      <4>2. job'[p].hash[f] = Disk(p)[f]
        BY <4>1
      <4>3. \A g \in Files \ {f} : job'[p].hash[g] = job[p].hash[g]
        OBVIOUS
      <4> QED
        BY <2>1, <2>2, <4>2, <4>3 DEF ReadingInv, HashIsDisk
    <3> QED
      BY <3>1, <3>2 DEF LocalInv
  <2>4. CommittedIsFresh(p)'
    BY <1>3, <2>1, <2>2, HashFileEffect
    DEF ReadingInv, CommittedIsFresh, Swapping, Checking, Fresh, RowsFresh
  <2> QED
    BY <2>1, <2>3, <2>4, LiftReading
<1>4. ASSUME List(p) PROVE ReadingInv'
  <2>1. /\ OthersKeep(p) /\ KeepsHome(p) /\ src' = src /\ db' = db
        /\ Busy(p) /\ pc[p] = "list" /\ pc'[p] = "parse"
        /\ \A q \in Procs \ {p} : pc'[q] = pc[q]
    BY <1>4, ListEffect DEF List, Goto, Busy, Idle, TypeOK
  <2>2. Disk(p)' = Disk(p) /\ Home(p)' = Home(p)
    BY <2>1 DEF KeepsHome, Disk, Home
  <2>3. ParsedIsDisk(p)'
    <3>1. job'[p].todo \subseteq GoFiles
      BY <1>4, ListEffect
    <3>2. ASSUME NEW f \in Files \ job'[p].todo
          PROVE  job'[p].ast[f] = RowsOf(Disk(p))[f]
      <4>1. CASE f = GoMod
        BY <1>1, <1>4, <4>1, ListEffect, FilesAssumption
        DEF RowsOf, Parsed, NoTree
      <4>2. CASE f \in GoFiles
        <5>1. f # GoMod /\ Disk(p)[f] = 0
          BY <1>4, <4>2, ListEffect, FilesAssumption
        <5>2. job'[p].ast[f] = 0
          BY <1>1, <1>4, <4>2, <5>1, ListEffect DEF NoTree
        <5> QED
          BY <1>1, <4>2, <5>1, <5>2 DEF RowsOf, Parsed
      <4> QED
        BY <4>1, <4>2 DEF Files
    <3> QED
      BY <2>1, <2>2, <3>1, <3>2 DEF ParsedIsDisk, Swapping, RowsOf
  <2>4. KnownIsDisk(p)' /\ HashIsDisk(p)' /\ CommittedIsFresh(p)'
    BY <1>4, <2>1, ListEffect
    DEF KnownIsDisk, HashIsDisk, CommittedIsFresh, Swapping, Checking, NoTree
  <2> QED
    BY <2>1, <2>3, <2>4, LiftReading DEF LocalInv
<1>5. ASSUME NEW f \in GoFiles, ParseFile(p, f) PROVE ReadingInv'
  <2>1. /\ OthersKeep(p) /\ KeepsHome(p) /\ src' = src /\ db' = db /\ pc' = pc
        /\ Busy(p) /\ pc[p] = "parse"
    BY <1>5, ParseFileEffect DEF ParseFile, Busy, Idle
  <2>2. Disk(p)' = Disk(p) /\ Home(p)' = Home(p)
    BY <2>1 DEF KeepsHome, Disk, Home
  <2>3. ParsedIsDisk(p)'
    <3> /\ job'[p].ast = [job[p].ast EXCEPT ![f] = Parsed(f, Disk(p)[f])]
        /\ job'[p].todo = job[p].todo \ {f}
      BY <1>5, ParseFileEffect
    <3> job[p].ast \in [Files -> Version] /\ f \in Files
      BY <1>1 DEF Job, Tree
    <3>1. job'[p].ast[f] = RowsOf(Disk(p))[f]
      BY DEF RowsOf
    <3>2. \A g \in Files \ {f} : job'[p].ast[g] = job[p].ast[g]
      OBVIOUS
    <3>3. /\ job[p].todo \subseteq GoFiles
          /\ \A g \in Files \ job[p].todo : job[p].ast[g] = RowsOf(Disk(p))[g]
      BY <2>1 DEF ReadingInv, ParsedIsDisk
    <3>4. \A g \in Files \ job'[p].todo : job'[p].ast[g] = RowsOf(Disk(p))[g]
      BY <3>1, <3>2, <3>3
    <3> QED
      BY <2>1, <2>2, <3>3, <3>4 DEF ParsedIsDisk, Swapping, RowsOf
  <2>4. KnownIsDisk(p)' /\ HashIsDisk(p)' /\ CommittedIsFresh(p)'
    BY <1>5, <2>1, <2>2, ParseFileEffect
    DEF ReadingInv, KnownIsDisk, HashIsDisk, CommittedIsFresh, Swapping,
        Checking, Busy, Idle
  <2> QED
    BY <2>1, <2>3, <2>4, LiftReading DEF LocalInv
<1>6. ASSUME NEW f \in GoFiles, ReadFile(p, f) PROVE ReadingInv'
  <2>1. /\ OthersKeep(p) /\ KeepsHome(p) /\ src' = src /\ db' = db /\ pc' = pc
        /\ Busy(p) /\ pc[p] \in {"read", "reread"}
    BY <1>6, ReadFileEffect DEF ReadFile, Busy, Idle
  <2>2. Disk(p)' = Disk(p) /\ Home(p)' = Home(p)
    BY <2>1 DEF KeepsHome, Disk, Home
  <2>3. ParsedIsDisk(p)'
    <3>1. job'[p].ast = job[p].ast /\ job'[p].purpose = job[p].purpose
      BY <1>6, ReadFileEffect
    <3> QED
      BY <2>1, <2>2, <3>1 DEF ReadingInv, ParsedIsDisk, Swapping, RowsOf
  <2>4. KnownIsDisk(p)'
    <3> /\ job'[p].known = [job[p].known EXCEPT ![f] = Disk(p)[f]]
        /\ job'[p].purpose = job[p].purpose
      BY <1>6, ReadFileEffect
    <3> job[p].known \in [Files -> Version]
      BY <1>1 DEF Job, Tree
    <3>1. \A g \in Files : job'[p].known[g] \in {job[p].known[g], Disk(p)[g]}
      OBVIOUS
    <3> QED
      BY <2>1, <2>2, <3>1 DEF ReadingInv, KnownIsDisk
  <2>5. HashIsDisk(p)' /\ CommittedIsFresh(p)'
    BY <1>6, <2>1, <2>2, ReadFileEffect
    DEF ReadingInv, HashIsDisk, CommittedIsFresh, Swapping, Checking, Fresh,
        RowsFresh
  <2> QED
    BY <2>1, <2>3, <2>4, <2>5, LiftReading DEF LocalInv
<1>7. ASSUME Reread(p) PROVE ReadingInv'
  <2>1. /\ OthersKeep(p) /\ KeepsHome(p) /\ src' = src /\ db' = db /\ job' = job
        /\ Busy(p) /\ pc[p] = "reread" /\ pc'[p] = "walk"
        /\ \A q \in Procs \ {p} : pc'[q] = pc[q]
    BY <1>7 DEF Reread, Goto, Busy, Idle, TypeOK, OthersKeep, KeepsHome
  <2>2. Disk(p)' = Disk(p) /\ Home(p)' = Home(p) /\ job[p].purpose = "record"
    BY <2>1 DEF Disk, Home, ReadingInv, KnownIsDisk
  <2>3. LocalInv(p)'
    BY <2>1, <2>2
    DEF ReadingInv, LocalInv, ParsedIsDisk, KnownIsDisk, HashIsDisk,
        Swapping, RowsOf, Busy, Idle
  <2>4. CommittedIsFresh(p)' /\ Swapping(p)'
    BY <2>1, <2>2
    DEF ReadingInv, CommittedIsFresh, Swapping, Checking, Fresh, RowsFresh
  <2> QED
    BY <2>1, <2>3, <2>4, LiftReading
<1> QED
  BY <1>2, <1>3, <1>4, <1>5, <1>6, <1>7

(* What the staleness check relies on: a fingerprint of the disk is found  *)
(* beside fresh rows.  Each environment has a reason of its own for it.    *)
Judged == \A p \in Procs :
            Busy(p) /\ MetaCurrent(Home(p)) /\ db.fp = {Disk(p)} => Fresh(p)

(* The staleness check, the decision it leads to, and the answer.          *)
LEMMA ControlSteps ==
  ASSUME TypeOK, ReadingInv, Judged, NEW p \in Procs
  PROVE  /\ CheckMeta(p) => ReadingInv'
         /\ CheckSource(p) => ReadingInv'
         /\ ~HashFails(p)
         /\ Refuse(p) => ReadingInv'
         /\ AutoIndex(p) => ReadingInv'
         /\ Answer(p) => ReadingInv'
<1>1. job[p] \in Job /\ Disk(p) \in Tree /\ Home(p) \in Checkouts
  BY DEF TypeOK, Job, Disk, Home
<1>2. ASSUME CheckMeta(p) PROVE ReadingInv'
  <2>1. /\ OthersKeep(p) /\ KeepsHome(p) /\ src' = src /\ db' = db
        /\ Busy(p) /\ pc[p] = "meta?" /\ p \in Servers
        /\ \A q \in Procs \ {p} : pc'[q] = pc[q]
        /\ job'[p].known = job[p].known
    BY <1>2, CheckMetaEffect
    DEF CheckMeta, Goto, Busy, Idle, TypeOK, ReadingInv, Served
  <2>2. Disk(p)' = Disk(p) /\ Home(p)' = Home(p)
    BY <2>1 DEF KeepsHome, Disk, Home
  <2>3. CASE job' = job /\ pc'[p] = "auto"
    <3>1. LocalInv(p)' /\ CommittedIsFresh(p)'
      BY <2>1, <2>2, <2>3
      DEF ReadingInv, LocalInv, ParsedIsDisk, KnownIsDisk, HashIsDisk,
          CommittedIsFresh, Swapping, Checking, Busy, Idle
    <3> QED
      BY <2>1, <3>1, LiftReading
  <2>4. CASE /\ pc'[p] = "walk" /\ MetaCurrent(Home(p))
             /\ job'[p].purpose = "check" /\ job'[p].stored = db.fp
    <3>1. LocalInv(p)'
      BY <2>1, <2>2, <2>4
      DEF ReadingInv, LocalInv, ParsedIsDisk, KnownIsDisk, HashIsDisk,
          Swapping, Busy, Idle
    <3>2. db.fp = {Disk(p)} => Fresh(p)
      BY <2>1, <2>4 DEF Judged
    <3>3. CommittedIsFresh(p)'
      BY <2>1, <2>2, <2>4, <3>2
      DEF CommittedIsFresh, Swapping, Checking, Fresh, RowsFresh
    <3> QED
      BY <2>1, <2>4, <3>1, <3>3, LiftReading
  <2> QED
    BY <1>2, <2>3, <2>4, CheckMetaEffect DEF TypeOK
<1>3. ASSUME CheckSource(p) PROVE ReadingInv'
  <2>1. /\ OthersKeep(p) /\ KeepsHome(p) /\ src' = src /\ db' = db /\ job' = job
        /\ Busy(p) /\ pc[p] = "hash" /\ Checking(p)
        /\ job[p].todo = {} /\ job[p].purpose = "check"
        /\ pc'[p] = IF {job[p].hash} = job[p].stored THEN "answer" ELSE "auto"
        /\ \A q \in Procs \ {p} : pc'[q] = pc[q]
    BY <1>3 DEF CheckSource, Goto, Busy, Idle, TypeOK, OthersKeep, KeepsHome,
                Checking
  <2>2. Disk(p)' = Disk(p) /\ Home(p)' = Home(p)
    BY <2>1 DEF Disk, Home
  <2>3. job[p].hash = Disk(p)
    <3>1. \A f \in Files : job[p].hash[f] = Disk(p)[f]
      BY <2>1 DEF ReadingInv, HashIsDisk
    <3>2. job[p].hash \in Tree
      BY <1>1 DEF Job
    <3> QED
      BY <1>1, <3>1, <3>2 DEF Tree
  <2>4. p \in Servers
    BY <2>1 DEF ReadingInv, CommittedIsFresh
  <2>5. LocalInv(p)'
    BY <2>1, <2>2
    DEF ReadingInv, LocalInv, ParsedIsDisk, KnownIsDisk, HashIsDisk,
        Swapping, Busy, Idle
  <2>6. pc'[p] = "answer" => Fresh(p)
    BY <2>1, <2>3 DEF ReadingInv, CommittedIsFresh
  <2>7. CommittedIsFresh(p)'
    BY <2>1, <2>2, <2>6 DEF CommittedIsFresh, Swapping, Checking, Fresh, RowsFresh
  <2> QED
    BY <2>1, <2>4, <2>5, <2>7, LiftReading
<1>4. ASSUME HashFails(p) PROVE FALSE
  BY <1>4 DEF HashFails, ReadingInv, HashIsDisk
<1>5. ASSUME Refuse(p) PROVE ReadingInv'
  BY <1>5, LiftStop DEF Refuse
<1>6. ASSUME Answer(p) PROVE ReadingInv'
  BY <1>6, LiftStop DEF Answer
<1>7. ASSUME AutoIndex(p) PROVE ReadingInv'
  <2>1. /\ OthersKeep(p) /\ KeepsHome(p) /\ src' = src /\ db' = db /\ job' = job
        /\ Busy(p) /\ pc[p] = "auto" /\ pc'[p] = "list"
        /\ \A q \in Procs \ {p} : pc'[q] = pc[q]
    BY <1>7 DEF AutoIndex, Goto, Busy, Idle, TypeOK, OthersKeep, KeepsHome
  <2>2. LocalInv(p)' /\ CommittedIsFresh(p)'
    BY <2>1 DEF ReadingInv, LocalInv, ParsedIsDisk, KnownIsDisk, HashIsDisk,
        CommittedIsFresh, Swapping, Checking, Busy, Idle, Disk, Home
  <2> QED
    BY <2>1, <2>2, LiftReading
<1> QED
  BY <1>2, <1>3, <1>4, <1>5, <1>6, <1>7

(* The steps that change the database.                                     *)
LEMMA CommitSteps ==
  ASSUME TypeOK, ReadingInv, NEW p \in Procs
  PROVE  /\ Create(p) => ReadingInv'
         /\ Write(p) => ReadingInv'
         /\ SetIndexedAt(p) => ReadingInv'
         /\ SetRepoMeta(p) => ReadingInv'
         /\ Record(p) => ReadingInv'
<1>1. job[p] \in Job /\ Disk(p) \in Tree /\ Home(p) \in Checkouts /\ db \in Database
  BY DEF TypeOK, Job, Disk, Home
<1>2. \A q \in Procs \ {p} : Busy(p) /\ Busy(q) => Home(q) = Home(p)
  BY DEF ReadingInv, SameHome
<1>3. ASSUME Create(p) PROVE ReadingInv'
  <2>1. /\ OthersKeep(p) /\ KeepsHome(p) /\ src' = src
        /\ Busy(p) /\ pc[p] = "parse" /\ job[p].todo = {} /\ pc'[p] = "read"
        /\ job'[p].known = job[p].known /\ job'[p].ast = job[p].ast
        /\ \A q \in Procs \ {p} : pc'[q] = pc[q]
    BY <1>3, CreateEffect DEF Create, Goto, Busy, Idle, TypeOK
  <2>2. Disk(p)' = Disk(p) /\ Home(p)' = Home(p)
    BY <2>1 DEF KeepsHome, Disk, Home
  <2>3. /\ db'.dir = db.dir /\ db'.rows = db.rows /\ db'.analyzer = db.analyzer
        /\ db'.repo = db.repo /\ db'.fp = db.fp /\ db'.indexedAt = db.indexedAt
    BY <1>1, <1>3 DEF Create, Database
  <2>4. LocalInv(p)'
    <3>1. job[p].ast = RowsOf(Disk(p))
      <4>1. \A f \in Files : job[p].ast[f] = RowsOf(Disk(p))[f]
        BY <2>1 DEF ReadingInv, ParsedIsDisk
      <4>2. job[p].ast \in Tree /\ RowsOf(Disk(p)) \in Tree
        BY <1>1, RowsType DEF Job
      <4> QED
        BY <4>1, <4>2 DEF Tree
    <3> QED
      BY <2>1, <2>2, <3>1
      DEF ReadingInv, LocalInv, ParsedIsDisk, KnownIsDisk, HashIsDisk,
          Swapping, RowsOf, Busy, Idle
  <2>5. CommittedIsFresh(p)'
    BY <2>1 DEF CommittedIsFresh, Swapping, Checking
  <2>6. \A q \in Procs \ {p} : /\ Fresh(q) => Fresh(q)'
                               /\ db.repo = {Home(q)} => db'.repo = {Home(q)}
    BY <2>1, <2>3, OthersLocal DEF Fresh, RowsFresh
  <2> QED
    BY <2>1, <2>4, <2>5, <2>6, Lift
<1>4. ASSUME Write(p) PROVE ReadingInv'
  <2>1. /\ OthersKeep(p) /\ KeepsHome(p) /\ src' = src /\ job' = job
        /\ Busy(p) /\ pc[p] = "read" /\ pc'[p] = "indexedAt"
        /\ \A q \in Procs \ {p} : pc'[q] = pc[q]
    BY <1>4 DEF Write, Goto, Busy, Idle, TypeOK, OthersKeep, KeepsHome
  <2>2. Disk(p)' = Disk(p) /\ Home(p)' = Home(p)
    BY <2>1 DEF Disk, Home
  <2>3. /\ db'.dir = {Home(p)} /\ db'.rows = RowsOf(Disk(p))
        /\ db'.analyzer = "this" /\ db'.repo = db.repo
    <3>1. db'.repo = db.repo
      BY <1>1, <1>4 DEF Write, Database
    <3> QED
      BY <1>4, <2>1, <3>1, WriteEffect DEF ReadingInv, ParsedIsDisk
  <2>4. LocalInv(p)'
    BY <2>1, <2>2
    DEF ReadingInv, LocalInv, ParsedIsDisk, KnownIsDisk, HashIsDisk,
        Swapping, RowsOf, Busy, Idle
  <2>5. Fresh(p)' /\ Swapping(p)'
    BY <2>1, <2>2, <2>3 DEF Fresh, RowsFresh, Disk, Swapping, RowsOf
  <2>6. CommittedIsFresh(p)'
    BY <2>1, <2>5 DEF CommittedIsFresh, Swapping, Checking
  <2>7. ASSUME NEW q \in Procs \ {p}, Busy(q)
        PROVE  Fresh(q)' /\ (db.repo = {Home(q)} => db'.repo = {Home(q)})
    <3>1. Home(q)' = Home(p)' /\ db'.repo = db.repo
      BY <1>2, <2>1, <2>2, <2>3, <2>7, OthersLocal
    <3>2. RowsFresh(Home(q))' /\ db'.analyzer = "this"
      BY <2>5, <3>1 DEF Fresh, RowsFresh, RowsOf
    <3> QED
      BY <3>1, <3>2 DEF Fresh
  <2> QED
    BY <2>1, <2>4, <2>6, <2>7, Lift
<1>5. ASSUME SetIndexedAt(p) PROVE ReadingInv'
  <2>1. /\ OthersKeep(p) /\ KeepsHome(p) /\ src' = src /\ job' = job
        /\ Busy(p) /\ pc[p] = "indexedAt" /\ pc'[p] = "repo"
        /\ \A q \in Procs \ {p} : pc'[q] = pc[q]
    BY <1>5 DEF SetIndexedAt, Goto, Busy, Idle, TypeOK, OthersKeep, KeepsHome
  <2>2. Disk(p)' = Disk(p) /\ Home(p)' = Home(p)
    BY <2>1 DEF Disk, Home
  <2>3. /\ db'.dir = db.dir /\ db'.rows = db.rows
        /\ db'.analyzer = db.analyzer /\ db'.repo = db.repo
    BY <1>1, <1>5 DEF SetIndexedAt, Database
  <2>4. LocalInv(p)'
    BY <2>1, <2>2
    DEF ReadingInv, LocalInv, ParsedIsDisk, KnownIsDisk, HashIsDisk,
        Swapping, RowsOf, Busy, Idle
  <2>5. CommittedIsFresh(p)' /\ Swapping(p)'
    BY <2>1, <2>2, <2>3
    DEF ReadingInv, CommittedIsFresh, Swapping, Checking, Fresh, RowsFresh
  <2>6. \A q \in Procs \ {p} : /\ Fresh(q) => Fresh(q)'
                               /\ db.repo = {Home(q)} => db'.repo = {Home(q)}
    BY <2>1, <2>3, OthersLocal DEF Fresh, RowsFresh
  <2> QED
    BY <2>1, <2>4, <2>5, <2>6, Lift
<1>6. ASSUME SetRepoMeta(p) PROVE ReadingInv'
  <2>1. /\ OthersKeep(p) /\ KeepsHome(p) /\ src' = src
        /\ Busy(p) /\ pc[p] = "repo" /\ pc'[p] \in {"walk", "reread"}
        /\ job'[p].purpose = "record" /\ job'[p].ast = job[p].ast
        /\ job'[p].known \in {job[p].known, NoTree}
        /\ \A q \in Procs \ {p} : pc'[q] = pc[q]
    BY <1>6, SetRepoMetaEffect DEF SetRepoMeta, Goto, Busy, Idle, TypeOK
  <2>2. Disk(p)' = Disk(p) /\ Home(p)' = Home(p)
    BY <2>1 DEF KeepsHome, Disk, Home
  <2>3. /\ db'.dir = db.dir /\ db'.rows = db.rows
        /\ db'.analyzer = db.analyzer /\ db'.repo = {Home(p)}
    BY <1>1, <1>6 DEF SetRepoMeta, Database
  <2>4. LocalInv(p)'
    BY <2>1, <2>2
    DEF ReadingInv, LocalInv, ParsedIsDisk, KnownIsDisk, HashIsDisk,
        Swapping, RowsOf, Busy, Idle, NoTree
  <2>5. CommittedIsFresh(p)' /\ Swapping(p)'
    BY <2>1, <2>2, <2>3
    DEF ReadingInv, CommittedIsFresh, Swapping, Checking, Fresh, RowsFresh
  <2>6. ASSUME NEW q \in Procs \ {p}, Busy(q)
        PROVE  (Fresh(q) => Fresh(q)') /\ db'.repo = {Home(q)}
    BY <1>2, <2>1, <2>3, <2>6, OthersLocal DEF Fresh, RowsFresh
  <2> QED
    BY <2>1, <2>4, <2>5, <2>6, Lift
<1>7. ASSUME Record(p) PROVE ReadingInv'
  <2>1. /\ src' = src /\ Busy(p) /\ Swapping(p)
        /\ pc[p] = "hash" /\ job[p].purpose = "record" /\ job[p].todo = {}
    BY <1>7 DEF Record, Busy, Idle, Swapping
  <2>2. /\ db'.dir = db.dir /\ db'.rows = db.rows
        /\ db'.analyzer = db.analyzer /\ db'.repo = db.repo
        /\ db'.fp = {job[p].hash}
    BY <1>1, <1>7 DEF Record, Database
  <2>3. job[p].hash = Disk(p)
    <3>1. \A f \in Files : job[p].hash[f] = Disk(p)[f]
      BY <2>1 DEF ReadingInv, HashIsDisk
    <3>2. job[p].hash \in Tree
      BY <1>1 DEF Job
    <3> QED
      BY <1>1, <3>1, <3>2 DEF Tree
  <2>4. Fresh(p) /\ db.repo = {Home(p)}
    BY <2>1 DEF ReadingInv, CommittedIsFresh
  <2>5. CASE job[p].auto
    <3>1. /\ OthersKeep(p) /\ KeepsHome(p) /\ job' = job /\ pc'[p] = "answer"
          /\ p \in Servers /\ \A q \in Procs \ {p} : pc'[q] = pc[q]
      BY <1>7, <2>5 DEF Record, Goto, TypeOK, OthersKeep, KeepsHome,
                        ReadingInv, Served
    <3>2. Disk(p)' = Disk(p) /\ Home(p)' = Home(p)
      BY <2>1, <3>1 DEF Disk, Home
    <3>3. LocalInv(p)'
      BY <2>1, <3>1, <3>2
      DEF ReadingInv, LocalInv, ParsedIsDisk, KnownIsDisk, HashIsDisk,
          Swapping, Busy, Idle
    <3>4. CommittedIsFresh(p)'
      BY <2>2, <2>4, <3>1, <3>2
      DEF CommittedIsFresh, Swapping, Checking, Fresh, RowsFresh, Disk
    <3>5. \A q \in Procs \ {p} : /\ Fresh(q) => Fresh(q)'
                                 /\ db.repo = {Home(q)} => db'.repo = {Home(q)}
      BY <2>1, <2>2, <3>1, OthersLocal DEF Fresh, RowsFresh
    <3> QED
      BY <2>1, <3>1, <3>3, <3>4, <3>5, Lift
  <2>6. CASE ~job[p].auto
    <3>1. /\ OthersKeep(p) /\ job'[p] = NoJob /\ pc'[p] = "idle"
          /\ \A q \in Procs \ {p} : pc'[q] = pc[q]
      BY <1>7, <2>6, StopEffect DEF Record, TypeOK
    <3>2. LocalInv(p)' /\ CommittedIsFresh(p)'
      BY <3>1 DEF LocalInv, ParsedIsDisk, KnownIsDisk, HashIsDisk,
                  CommittedIsFresh, Swapping, Checking, Busy, Idle
    <3>3. \A q \in Procs \ {p} : /\ Fresh(q) => Fresh(q)'
                                 /\ db.repo = {Home(q)} => db'.repo = {Home(q)}
      BY <2>1, <2>2, <3>1, OthersLocal DEF Fresh, RowsFresh
    <3> QED
      BY <2>1, <3>1, <3>2, <3>3, Lift
  <2> QED
    BY <2>5, <2>6
<1> QED
  BY <1>3, <1>4, <1>5, <1>6, <1>7

(* Starting work, failing or being killed, and edits between two jobs.     *)
LEMMA BoundarySteps ==
  ASSUME TypeOK, ReadingInv, ~EditsWhileBusy,
         ~Overlap \/ \A c, d \in Checkouts : c = d
  PROVE  /\ \A c \in Checkouts, f \in Files, v \in Version :
              Edit(c, f, v) => ReadingInv'
         /\ \A p \in Servers : Call(p) \/ Reindex(p) => ReadingInv'
         /\ \A p \in Clis, c \in Checkouts : CliIndex(p, c) => ReadingInv'
         /\ \A p \in Servers : BackoffExpires(p) => ReadingInv'
         /\ \A p \in Procs : Fail(p) \/ Crash(p) => ReadingInv'
<1>1. ASSUME NEW c \in Checkouts, NEW f \in Files, NEW v \in Version,
             Edit(c, f, v)
      PROVE  ReadingInv'
  <2>1. /\ db' = db /\ pc' = pc /\ job' = job /\ \A p \in Procs : pc[p] = "idle"
    BY <1>1 DEF Edit, AllIdle, Idle
  <2>2. SameHome' /\ Served'
    BY <2>1 DEF ReadingInv, SameHome, Served, Busy, Idle, Home
  <2>3. \A p \in Procs : LocalInv(p)' /\ CommittedIsFresh(p)'
    BY <2>1 DEF LocalInv, ParsedIsDisk, KnownIsDisk, HashIsDisk,
                CommittedIsFresh, Swapping, Checking, Busy, Idle
  <2> QED
    BY <2>2, <2>3 DEF ReadingInv, LocalInv
<1>2. ASSUME NEW p \in Procs, NEW c \in Checkouts, NEW auto \in BOOLEAN,
             NEW label \in {"meta?", "auto", "list"}, Start(p, c, label, auto),
             p \in Servers => c = ServedRepo[p],
             auto \/ label # "list" => p \in Servers
      PROVE  ReadingInv'
  <2>1. /\ OthersKeep(p) /\ job'[p] = NewJob(c, auto) /\ src' = src /\ db' = db
        /\ Idle(p) /\ pc'[p] = label /\ \A q \in Procs \ {p} : pc'[q] = pc[q]
    <3>1. label \in Label
      BY DEF Label
    <3>2. /\ OthersKeep(p) /\ job'[p] = NewJob(c, auto)
          /\ pc' = [pc EXCEPT ![p] = label]
      BY <1>2, <3>1, StartEffect
    <3> QED
      BY <1>2, <3>2 DEF Start, TypeOK
  <2>2. SameHome'
    <3>1. \A q \in Procs \ {p} : Busy(q) => Home(q) = c
      BY <1>2 DEF Start, Busy, TypeOK, Job, Home
    <3> QED
      BY <2>1, <3>1, OthersLocal
      DEF ReadingInv, SameHome, NewJob, Home, Busy, Idle
  <2>3. Served'
    BY <1>2, <2>1 DEF ReadingInv, Served, OthersKeep, NewJob, Home, Busy, Idle
  <2>4. LocalInv(p)' /\ CommittedIsFresh(p)'
    BY <1>2, <2>1
    DEF LocalInv, ParsedIsDisk, KnownIsDisk, HashIsDisk, CommittedIsFresh,
        Swapping, Checking, NewJob, NoTree
  <2>5. ASSUME NEW q \in Procs \ {p} PROVE LocalInv(q)' /\ CommittedIsFresh(q)'
    BY <2>1, OthersLocal
    DEF ReadingInv, LocalInv, CommittedIsFresh, Fresh, RowsFresh
  <2> QED
    BY <2>2, <2>3, <2>4, <2>5 DEF ReadingInv, LocalInv
<1>3. ASSUME NEW p \in Servers, Call(p) \/ Reindex(p) PROVE ReadingInv'
  BY <1>2, <1>3, ProcsAssumption DEF Call, Reindex, Procs
<1>4. ASSUME NEW p \in Clis, NEW c \in Checkouts, CliIndex(p, c)
      PROVE  ReadingInv'
  BY <1>2, <1>4, ProcsAssumption DEF CliIndex, Procs
<1>5. ASSUME NEW p \in Servers, BackoffExpires(p) PROVE ReadingInv'
  BY <1>5
  DEF BackoffExpires, ReadingInv, SameHome, Served,
      ParsedIsDisk, KnownIsDisk, HashIsDisk, CommittedIsFresh, Fresh, RowsFresh,
      Swapping, Checking, Busy, Idle, Home, Disk, RowsOf
<1>6. ASSUME NEW p \in Procs, Fail(p) PROVE ReadingInv'
  BY <1>6, LiftStop DEF Fail
<1>7. ASSUME NEW p \in Procs, Crash(p) PROVE ReadingInv'
  BY <1>7, LiftStop DEF Crash
<1> QED
  BY <1>1, <1>3, <1>4, <1>5, <1>6, <1>7

LEMMA InitReading == Init => ReadingInv
<1> SUFFICES ASSUME Init PROVE ReadingInv
  OBVIOUS
<1>1. \A p \in Procs : pc[p] = "idle" /\ ~job[p].auto
  BY DEF Init, NoJob, NewJob
<1>2. SameHome /\ Served
  BY <1>1 DEF SameHome, Served, Busy, Idle
<1>3. \A p \in Procs : LocalInv(p) /\ CommittedIsFresh(p)
  BY <1>1 DEF LocalInv, ParsedIsDisk, KnownIsDisk, HashIsDisk,
              CommittedIsFresh, Swapping, Checking, Busy, Idle
<1> QED
  BY <1>2, <1>3 DEF ReadingInv, LocalInv

(* Whatever fails, what was read is the disk's and what was committed is   *)
(* fresh, as long as the check's verdict can be relied on.                 *)
LEMMA StepReading ==
  ASSUME TypeOK, ReadingInv, Judged, ~EditsWhileBusy,
         ~Overlap \/ \A c, d \in Checkouts : c = d, [Next]_vars
  PROVE  ReadingInv'
<1>1. CASE UNCHANGED vars
  BY <1>1
  DEF vars, ReadingInv, SameHome, Served, ParsedIsDisk, KnownIsDisk,
      HashIsDisk, CommittedIsFresh, Fresh, RowsFresh, Swapping, Checking, Busy,
      Idle, Home, Disk, RowsOf
<1>2. ASSUME NEW p \in Procs, Step(p) PROVE ReadingInv'
  BY <1>2, ReadingSteps, ControlSteps, CommitSteps DEF Step, Hashing, Rebuilding
<1> QED
  BY <1>1, <1>2, BoundarySteps DEF Next

(* The hash a rebuild records is of the disk.                              *)
LEMMA HashedDisk ==
  ASSUME TypeOK, ReadingInv, NEW p \in Procs, pc[p] = "hash", job[p].todo = {}
  PROVE  job[p].hash = Disk(p) /\ Disk(p) \in Tree
<1>1. Disk(p) \in Tree /\ job[p].hash \in Tree
  BY DEF TypeOK, Job, Disk, Home
<1>2. \A f \in Files : job[p].hash[f] = Disk(p)[f]
  BY DEF ReadingInv, HashIsDisk
<1> QED
  BY <1>1, <1>2 DEF Tree

(* What a step of a process does to the keys and rows of the database.     *)
LEMMA DatabaseSteps ==
  ASSUME TypeOK, ReadingInv, NEW p \in Procs, Step(p)
  PROVE  /\ src' = src
         /\ \/ /\ db'.dir = db.dir /\ db'.rows = db.rows /\ db'.repo = db.repo
               /\ db'.analyzer = db.analyzer /\ db'.indexedAt = db.indexedAt
               /\ db'.fp = db.fp
               /\ \A q \in Procs : Swapping(q) => Swapping(q)'
            \/ /\ Swapping(p)' /\ db'.fp = db.fp
               /\ db'.dir = {Home(p)} /\ db'.rows = RowsOf(Disk(p))
            \/ /\ db'.fp = {Disk(p)} /\ db'.dir = {Home(p)}
               /\ db'.rows = RowsOf(Disk(p)) /\ db'.repo = {Home(p)}
<1>1. src' = src
  BY DEF Step, Hashing, Rebuilding, CheckMeta, Refuse, AutoIndex, Answer, Walk,
         CheckSource, HashFails, Record, HashFile, List, Create, Write,
         SetIndexedAt, SetRepoMeta, Reread, ParseFile, ReadFile
<1>2. db \in Database /\ job[p] \in Job
  BY DEF TypeOK
<1>3. CASE Write(p)
  <2>1. db'.fp = db.fp
    BY <1>2, <1>3 DEF Write, Database
  <2>2. job[p].ast = RowsOf(Disk(p))
    BY <1>3 DEF Write, ReadingInv, ParsedIsDisk
  <2>3. pc'[p] = "indexedAt"
    BY <1>3 DEF Write, Goto, TypeOK
  <2> QED
    BY <1>1, <1>3, <2>1, <2>2, <2>3, WriteEffect DEF Swapping
<1>4. CASE SetIndexedAt(p) \/ SetRepoMeta(p)
  <2>1. db'.fp = db.fp /\ db'.dir = db.dir /\ db'.rows = db.rows
    BY <1>2, <1>4 DEF SetIndexedAt, SetRepoMeta, Database
  <2>2. Fresh(p)
    BY <1>4 DEF SetIndexedAt, SetRepoMeta, ReadingInv, CommittedIsFresh, Swapping
  <2>3. Swapping(p)'
    BY <1>4, SetRepoMetaEffect DEF SetIndexedAt, SetRepoMeta, Goto, Swapping, TypeOK
  <2> QED
    BY <1>1, <2>1, <2>2, <2>3 DEF Fresh, RowsFresh, Disk
<1>5. CASE Record(p)
  <2>1. /\ db'.dir = db.dir /\ db'.rows = db.rows /\ db'.repo = db.repo
        /\ db'.fp = {job[p].hash}
    BY <1>2, <1>5 DEF Record, Database
  <2>2. job[p].hash = Disk(p)
    BY <1>5, HashedDisk DEF Record
  <2>3. Fresh(p) /\ db.repo = {Home(p)}
    BY <1>5 DEF Record, ReadingInv, CommittedIsFresh, Swapping
  <2> QED
    BY <1>1, <2>1, <2>2, <2>3 DEF Fresh, RowsFresh, Disk
<1>6. CASE Create(p)
  <2>1. /\ db'.dir = db.dir /\ db'.rows = db.rows /\ db'.repo = db.repo
        /\ db'.analyzer = db.analyzer /\ db'.indexedAt = db.indexedAt
        /\ db'.fp = db.fp
    BY <1>2, <1>6 DEF Create, Database
  <2>2. ~Swapping(p) /\ \A q \in Procs \ {p} : pc'[q] = pc[q]
    BY <1>6 DEF Create, Goto, Swapping, TypeOK
  <2>3. OthersKeep(p)
    BY <1>6, CreateEffect
  <2> QED
    BY <1>1, <2>1, <2>2, <2>3 DEF Swapping, OthersKeep
<1>7. ASSUME ~(Write(p) \/ SetIndexedAt(p) \/ SetRepoMeta(p)), ~Record(p), ~Create(p)
      PROVE  db' = db /\ \A q \in Procs : Swapping(q) => Swapping(q)'
  <2>1. db' = db
    BY <1>7 DEF Step, Hashing, Rebuilding, CheckMeta, Refuse, AutoIndex, Answer,
         Walk, CheckSource, HashFails, HashFile, List, Reread, ParseFile, ReadFile
  <2>2. CASE Refuse(p) \/ Answer(p)
    BY <2>2, StopEffect DEF Refuse, Answer, Swapping, OthersKeep, TypeOK
  <2>3. CASE CheckMeta(p)
    BY <2>3, CheckMetaEffect DEF CheckMeta, Swapping, OthersKeep, TypeOK
  <2>4. CASE AutoIndex(p) \/ CheckSource(p)
    BY <2>4 DEF AutoIndex, CheckSource, Goto, Swapping, TypeOK
  <2>5. CASE Walk(p)
    BY <2>5, WalkEffect DEF Walk, Goto, Swapping, OthersKeep, TypeOK
  <2>6. CASE \E f \in Files : HashFile(p, f)
    BY <2>6, HashFileEffect DEF HashFile, Swapping, OthersKeep
  <2>7. CASE List(p)
    BY <2>7, ListEffect DEF List, Goto, Swapping, OthersKeep, TypeOK
  <2>8. CASE \E f \in GoFiles : ParseFile(p, f)
    BY <2>8, ParseFileEffect DEF ParseFile, Swapping, OthersKeep
  <2>9. CASE \E f \in GoFiles : ReadFile(p, f)
    BY <2>9, ReadFileEffect DEF ReadFile, Swapping, OthersKeep
  <2>10. CASE Reread(p)
    BY <2>10 DEF Reread, Goto, Swapping, ReadingInv, KnownIsDisk, TypeOK
  <2> QED
    <3>1. ~HashFails(p)
      BY DEF HashFails, ReadingInv, HashIsDisk
    <3>2. \/ Refuse(p) \/ Answer(p) \/ CheckMeta(p) \/ AutoIndex(p)
          \/ CheckSource(p) \/ Walk(p) \/ List(p) \/ Reread(p)
          \/ \E f \in Files : HashFile(p, f)
          \/ \E f \in GoFiles : ParseFile(p, f)
          \/ \E f \in GoFiles : ReadFile(p, f)
      BY <1>7, <3>1 DEF Step, Hashing, Rebuilding
    <3> QED
      BY <2>1, <2>2, <2>3, <2>4, <2>5, <2>6, <2>7, <2>8, <2>9, <2>10, <3>2
<1> QED
  BY <1>1, <1>3, <1>4, <1>5, <1>6, <1>7

-----------------------------------------------------------------------------
(* Undisturbed rebuilds: a fingerprint at rest is of the rows.             *)

LEMMA InitRows == Init => FingerprintIsOfRows
BY DEF Init, NoDatabase, OlderIndex, FingerprintIsOfRows

(* The fingerprint being of the rows makes the check's verdict right.      *)
LEMMA RowsJudged == TypeOK /\ FreshnessInv => Judged
<1> SUFFICES ASSUME TypeOK, FreshnessInv, NEW p \in Procs, Busy(p),
                    MetaCurrent(Home(p)), db.fp = {Disk(p)}
             PROVE  Fresh(p)
  BY DEF Judged
<1>1. Disk(p) \in Tree
  BY DEF TypeOK, Job, Disk, Home
<1>2. CASE \E q \in Procs : Swapping(q)
  <2>1. PICK q \in Procs : Swapping(q)
    BY <1>2
  <2>2. Fresh(q) /\ Busy(q)
    BY <2>1 DEF FreshnessInv, ReadingInv, CommittedIsFresh, Swapping, Busy, Idle
  <2> QED
    BY <2>2 DEF FreshnessInv, ReadingInv, SameHome, Fresh
<1>3. CASE \A q \in Procs : ~Swapping(q)
  <2>1. /\ db.repo \subseteq {Home(p)} /\ db.analyzer = "this" /\ db.indexedAt
    BY DEF MetaCurrent
  <2>2. db.dir = {Home(p)} /\ db.rows = RowsOf(Disk(p))
    BY <1>1, <1>3, <2>1 DEF FreshnessInv, FingerprintIsOfRows
  <2> QED
    BY <2>1, <2>2 DEF Fresh, RowsFresh, Disk
<1> QED
  BY <1>2, <1>3

LEMMA StepRows ==
  Undisturbed /\ TypeOK /\ FreshnessInv /\ [Next]_vars => FingerprintIsOfRows'
<1> SUFFICES ASSUME Undisturbed, TypeOK, FreshnessInv, [Next]_vars
             PROVE  FingerprintIsOfRows'
  OBVIOUS
<1>1. ASSUME db' = db, \A p \in Procs : Swapping(p) => Swapping(p)'
      PROVE  FingerprintIsOfRows'
  BY <1>1 DEF FreshnessInv, FingerprintIsOfRows
<1>2. CASE UNCHANGED <<db, pc, job>>
  BY <1>1, <1>2 DEF Swapping
<1>3. ASSUME NEW p \in Procs, Step(p) PROVE FingerprintIsOfRows'
  <2>1. Disk(p) \in Tree
    BY DEF TypeOK, Job, Disk, Home
  <2> QED
    BY <1>3, <2>1, DatabaseSteps DEF FreshnessInv, FingerprintIsOfRows
<1>4. ASSUME NEW p \in Procs, NEW c \in Checkouts, NEW auto \in BOOLEAN,
             NEW label \in {"meta?", "auto", "list"}, Start(p, c, label, auto)
      PROVE  FingerprintIsOfRows'
  <2>1. label \in Label
    BY DEF Label
  <2>2. \A q \in Procs : Swapping(q) => Swapping(q)'
    <3>1. /\ OthersKeep(p) /\ pc[p] = "idle"
          /\ pc' = [pc EXCEPT ![p] = label]
      BY <1>4, <2>1, StartEffect DEF Start, Idle
    <3>2. \A q \in Procs \ {p} : pc'[q] = pc[q] /\ job'[q] = job[q]
      BY <3>1 DEF OthersKeep, TypeOK
    <3> QED
      BY <3>1, <3>2 DEF Swapping
  <2> QED
    BY <1>1, <1>4, <2>2 DEF Start
<1>5. ASSUME NEW p \in Procs, Fail(p) PROVE FingerprintIsOfRows'
  <2>1. ~Swapping(p) /\ Stop(p) /\ db' = db
    BY <1>5 DEF Fail, Undisturbed, Swapping
  <2>2. \A q \in Procs : Swapping(q) => Swapping(q)'
    BY <2>1, StopEffect DEF Swapping, OthersKeep, TypeOK
  <2> QED
    BY <1>1, <2>1, <2>2
<1>6. \A p \in Procs : ~Crash(p)
  BY DEF Crash, Undisturbed
<1>7. CASE UNCHANGED vars
  BY <1>2, <1>7 DEF vars
<1>8. ASSUME NEW p \in Servers, Call(p) \/ Reindex(p) \/ BackoffExpires(p)
      PROVE  FingerprintIsOfRows'
  BY <1>2, <1>4, <1>8, ProcsAssumption DEF Call, Reindex, BackoffExpires, Procs
<1>9. ASSUME NEW p \in Clis, NEW c \in Checkouts, CliIndex(p, c)
      PROVE  FingerprintIsOfRows'
  BY <1>4, <1>9 DEF CliIndex, Procs
<1> QED
  BY <1>2, <1>3, <1>5, <1>6, <1>7, <1>8, <1>9 DEF Next, Edit

(* A call is only answered from rows that are fresh.                       *)
LEMMA ReadingAnswers == ReadingInv => AnswersAreLatest
BY DEF ReadingInv, CommittedIsFresh, AnswersAreLatest, Fresh, Served, Busy,
       Idle, Procs

(* In an undisturbed environment the freshness invariant always holds:     *)
(* what was read is the disk, committed rows are fresh, and a fingerprint  *)
(* at rest is of the tree the rows came from.                              *)
THEOREM FreshnessInvariant == ASSUME Undisturbed PROVE Spec => []FreshnessInv
<1>1. Init => TypeOK /\ FreshnessInv
  BY InitType, InitReading, InitRows DEF FreshnessInv
<1>2. TypeOK /\ FreshnessInv /\ [Next]_vars => (TypeOK /\ FreshnessInv)'
  BY StepType, StepReading, StepRows, RowsJudged DEF FreshnessInv, Undisturbed
<1> QED
  BY <1>1, <1>2, PTL DEF Spec

(* An index that the staleness check calls current, with no rebuild half   *)
(* way, holds the rows of the source on disk: StaleReason's "current       *)
(* exactly when" promise, for any number of servers, index runs and files. *)
THEOREM CurrentIsFresh == ASSUME Undisturbed PROVE Spec => []CurrentIndexIsFresh
<1>1. TypeOK /\ FreshnessInv => CurrentIndexIsFresh
  <2> SUFFICES ASSUME TypeOK, FreshnessInv, \A p \in Procs : ~Swapping(p),
                      NEW c \in Checkouts, Current(c)
               PROVE  RowsFresh(c)
    BY DEF CurrentIndexIsFresh
  <2>1. /\ db.repo \subseteq {c} /\ db.analyzer = "this" /\ db.indexedAt
        /\ db.fp = {src[c]} /\ src[c] \in Tree
    BY DEF Current, MetaCurrent, TypeOK
  <2>2. db.dir = {c} /\ db.rows = RowsOf(src[c])
    BY <2>1 DEF FreshnessInv, FingerprintIsOfRows
  <2> QED
    BY <2>2 DEF RowsFresh
<1> QED
  BY <1>1, TypeCorrect, FreshnessInvariant, PTL

(* Every answer a server gives is read from an index of the source as it   *)
(* is on disk: rebuildNotice's "results below reflect the latest code".    *)
THEOREM AnswersLatest == ASSUME Undisturbed PROVE Spec => []AnswersAreLatest
<1>1. FreshnessInv => AnswersAreLatest
  BY ReadingAnswers DEF FreshnessInv
<1> QED
  BY <1>1, FreshnessInvariant, PTL

-----------------------------------------------------------------------------
(* Failures and kills at any step, where files only get newer.             *)

LEMMA InitDisk == OnlyNewer /\ Init => FingerprintIsOfDisk
<1> SUFFICES ASSUME OnlyNewer, Init, NEW c \in Checkouts
             PROVE  /\ db.analyzer = "this" /\ db.fp = {src[c]} => RowsFresh(c)
                    /\ \A t \in db.fp, f \in Files : t[f] <= src[c][f]
  BY DEF FingerprintIsOfDisk
<1>1. \A f \in Files : src[c][f] \in Nat
  BY FilesAssumption DEF Init, Tree, Version
<1> QED
  BY <1>1 DEF Init, NoDatabase, OlderIndex, OnlyNewer

(* No rebuild records a fingerprint before its rows are committed, so one  *)
(* that is of the disk is of fresh rows.                                   *)
LEMMA DiskJudged == TypeOK /\ FailureInv => Judged
<1> SUFFICES ASSUME TypeOK, FailureInv, NEW p \in Procs,
                    MetaCurrent(Home(p)), db.fp = {Disk(p)}
             PROVE  Fresh(p)
  BY DEF Judged
<1>1. Home(p) \in Checkouts
  BY DEF TypeOK, Job, Home
<1> QED
  BY <1>1 DEF FailureInv, FingerprintIsOfDisk, MetaCurrent, Fresh, Disk

(* An edit makes the disk newer than every recorded fingerprint.           *)
LEMMA EditDisk ==
  ASSUME TypeOK, FailureInv, OnlyNewer, NEW c \in Checkouts, NEW f \in Files,
         NEW v \in Version, Edit(c, f, v)
  PROVE  FingerprintIsOfDisk'
<1>1. /\ src' = [src EXCEPT ![c][f] = v] /\ db' = db
      /\ EditKind(src[c][f], v) \in {"create", "modify"} /\ v # src[c][f]
  BY DEF Edit, OnlyNewer
<1>2. src[c] \in Tree /\ src'[c] = [src[c] EXCEPT ![f] = v]
  BY <1>1 DEF TypeOK
<1>3. /\ src[c][f] \in Nat /\ v \in Nat
      /\ \A g \in Files : src[c][g] \in Nat
  BY <1>2, FilesAssumption DEF Tree, Version
<1>4. v > src[c][f]
  <2>1. ASSUME src[c][f] # 0, v = 0 PROVE EditKind(src[c][f], v) = "delete"
    BY <1>3, <2>1 DEF EditKind
  <2>2. ASSUME v \in 1 .. src[c][f] PROVE EditKind(src[c][f], v) = "revert"
    BY <1>1, <1>3, <2>2 DEF EditKind
  <2> QED
    BY <1>1, <1>3, <2>1, <2>2
<1>5. src'[c][f] = v /\ \A g \in Files \ {f} : src'[c][g] = src[c][g]
  BY <1>2 DEF Tree
<1>6. db \in Database
  BY DEF TypeOK
<1>7. \A t \in db.fp, g \in Files : t[g] \in Nat /\ t[g] <= src[c][g]
  BY <1>6, FilesAssumption
  DEF FailureInv, FingerprintIsOfDisk, Database, Tree, Version
<1>8. \A t \in db'.fp, g \in Files : t[g] <= src'[c][g]
  BY <1>1, <1>3, <1>4, <1>5, <1>7
<1>9. db'.fp # {src'[c]}
  BY <1>1, <1>3, <1>4, <1>5, <1>7
<1> QED
  BY <1>8, <1>9 DEF FingerprintIsOfDisk, OnlyNewer

LEMMA StepDisk ==
  OnlyNewer /\ TypeOK /\ FailureInv /\ [Next]_vars => FingerprintIsOfDisk'
<1> SUFFICES ASSUME OnlyNewer, TypeOK, FailureInv, [Next]_vars
             PROVE  FingerprintIsOfDisk'
  OBVIOUS
<1>1. CASE UNCHANGED <<src, db>>
  BY <1>1 DEF FailureInv, FingerprintIsOfDisk, RowsFresh, RowsOf
<1>2. ASSUME NEW p \in Procs, Step(p) PROVE FingerprintIsOfDisk'
  <2>1. Home(p) \in Checkouts /\ Disk(p) = src[Home(p)] /\ Disk(p) \in Tree
    BY DEF TypeOK, Job, Home, Disk
  <2>2. \A c \in Checkouts : src[c] = Disk(p) /\ c = Home(p)
    BY <2>1 DEF OnlyNewer
  <2>3. ReadingInv /\ FingerprintIsOfDisk
    BY DEF FailureInv
  <2>4. CASE /\ db'.dir = db.dir /\ db'.rows = db.rows
             /\ db'.analyzer = db.analyzer /\ db'.fp = db.fp
    BY <1>2, <2>3, <2>4, DatabaseSteps DEF FingerprintIsOfDisk, RowsFresh, RowsOf
  <2>5. CASE /\ db'.fp \in {db.fp, {Disk(p)}} /\ db'.dir = {Home(p)}
             /\ db'.rows = RowsOf(Disk(p))
    <3>1. src' = src
      BY <1>2, <2>3, DatabaseSteps
    <3>2. \A c \in Checkouts : RowsFresh(c)'
      BY <2>2, <2>5, <3>1 DEF RowsFresh, RowsOf
    <3>3. \A f \in Files : Disk(p)[f] \in Nat
      BY <2>1, FilesAssumption DEF Tree, Version
    <3>4. \A c \in Checkouts, t \in db'.fp, f \in Files : t[f] <= src'[c][f]
      BY <2>2, <2>3, <2>5, <3>1, <3>3 DEF FingerprintIsOfDisk
    <3> QED
      BY <3>2, <3>4 DEF FingerprintIsOfDisk
  <2> QED
    BY <1>2, <2>3, <2>4, <2>5, DatabaseSteps
<1>3. ASSUME NEW p \in Procs, Fail(p) \/ Crash(p) PROVE UNCHANGED <<src, db>>
  BY <1>3 DEF Fail, Crash
<1>4. ASSUME NEW p \in Servers, Call(p) \/ Reindex(p) \/ BackoffExpires(p)
      PROVE  UNCHANGED <<src, db>>
  BY <1>4 DEF Call, Reindex, BackoffExpires, Start
<1>5. ASSUME NEW p \in Clis, NEW c \in Checkouts, CliIndex(p, c)
      PROVE  UNCHANGED <<src, db>>
  BY <1>5 DEF CliIndex, Start
<1>6. CASE UNCHANGED vars
  BY <1>1, <1>6 DEF vars
<1> QED
  BY <1>1, <1>2, <1>3, <1>4, <1>5, <1>6, EditDisk DEF Next

(* Whatever fails and whoever is killed at any step, late ones included,   *)
(* committed rows are fresh and a recorded fingerprint is of the disk only *)
(* when the rows are, in one checkout whose files only get newer.          *)
THEOREM FailureInvariant == ASSUME OnlyNewer PROVE Spec => []FailureInv
<1>1. Init => TypeOK /\ FailureInv
  BY InitType, InitReading, InitDisk DEF FailureInv
<1>2. TypeOK /\ FailureInv /\ [Next]_vars => (TypeOK /\ FailureInv)'
  BY StepType, StepReading, StepDisk, DiskJudged DEF FailureInv, OnlyNewer
<1> QED
  BY <1>1, <1>2, PTL DEF Spec

(* A rebuild that failed or was killed between its commit and its          *)
(* fingerprint leaves no index that StaleReason calls current and that is  *)
(* not of the source on disk.                                              *)
THEOREM CurrentDespiteFailures ==
  ASSUME OnlyNewer PROVE Spec => []CurrentIndexIsFresh
<1>1. FailureInv => CurrentIndexIsFresh
  BY DEF FailureInv, FingerprintIsOfDisk, CurrentIndexIsFresh, Current,
         MetaCurrent
<1> QED
  BY <1>1, FailureInvariant, PTL

(* Every answer after failures and restarts is still read from an index of *)
(* the latest source: a failed rebuild makes the next call rebuild, or     *)
(* refuse, never answer from what it left behind.                          *)
THEOREM LatestDespiteFailures ==
  ASSUME OnlyNewer PROVE Spec => []AnswersAreLatest
<1>1. FailureInv => AnswersAreLatest
  BY ReadingAnswers DEF FailureInv
<1> QED
  BY <1>1, FailureInvariant, PTL

-----------------------------------------------------------------------------
(* The content search_text greps, where files only ever get newer.         *)

(* Version w of a file is read where version v was, or after it.           *)
Follows(v, w) == w = 0 \/ (v # 0 /\ v <= w)

(* One server works on one checkout, whose files change or go away, busy   *)
(* or not, and whose file a stays and always parses.                       *)
Forward(a) ==
  /\ Clis = {}
  /\ \A p, q \in Procs : p = q
  /\ \A c, d \in Checkouts : c = d
  /\ Edits \subseteq {"modify", "delete"} \X Files
  /\ a \in GoFiles /\ <<"delete", a>> \notin Edits
  /\ \A v \in Version : <<a, v>> \notin Broken
  /\ \A s \in InitSources, c \in Checkouts : s[c][a] # 0

(* The fingerprint d was recorded with is not newer than its text, nor the *)
(* text than the disk s.                                                   *)
TextInOrder(d, s) ==
  \A f \in Files :
    /\ \A t \in d.fp : Follows(t[f], s[f])
    /\ d.files[f] # 0 => /\ Follows(d.files[f], s[f])
                         /\ \A t \in d.fp : Follows(t[f], d.files[f])

(* Nor is what the process with locals j has read.                         *)
KnownInOrder(j, d, s) ==
  \A f \in Files : j.known[f] # 0 =>
    /\ Follows(j.known[f], s[f])
    /\ \A t \in d.fp : Follows(t[f], j.known[f])

(* A hash is of what was read for the tables, where anything was.          *)
HashInOrder(j, s) ==
  \A f \in Files \ j.todo :
    /\ Follows(j.hash[f], s[f])
    /\ j.known[f] # 0 => j.hash[f] = j.known[f]

SwappingAt(l, j) == \/ l \in {"indexedAt", "repo", "reread"}
                    \/ l \in {"walk", "hash"} /\ j.purpose = "record"

ReadInOrder(l, j, d, s, a) ==
  /\ l # "reread"
  /\ KnownInOrder(j, d, s)
  /\ l = "parse" => a \in j.todo \/ j.ast[a] # 0
  /\ l = "read" => a \in j.todo \/ j.known[a] # 0
  /\ l = "hash" => HashInOrder(j, s)
  /\ SwappingAt(l, j) => d.files = j.known

TextInv(a) ==
  /\ \A c \in Checkouts : src[c][a] # 0 /\ TextInOrder(db, src[c])
  /\ \A p \in Procs : ReadInOrder(pc[p], job[p], db, Disk(p), a)

LEMMA FollowsOrder ==
  /\ \A v \in Version : Follows(v, v)
  /\ \A v, w \in Version : v # 0 /\ Follows(v, w) /\ Follows(w, v) => v = w
BY FilesAssumption DEF Follows, Version

(* Nobody else works: a step of p that reads only, keeping the database.   *)
LEMMA TextAfterReading ==
  ASSUME NEW a, Forward(a), TextInv(a), NEW p \in Procs, src' = src, db' = db,
         ReadInOrder(pc'[p], job'[p], db', Disk(p)', a)
  PROVE  TextInv(a)'
BY DEF Forward, TextInv

(* A stopped process remembers nothing.                                    *)
LEMMA TextAfterStop ==
  ASSUME TypeOK, NEW a, Forward(a), TextInv(a), NEW p \in Procs, src' = src,
         db' = db, Stop(p)
  PROVE  TextInv(a)'
<1>1. /\ pc'[p] = "idle" /\ job'[p] = NoJob
  BY StopEffect DEF TypeOK
<1>2. ReadInOrder(pc'[p], job'[p], db', Disk(p)', a)
  BY <1>1 DEF ReadInOrder, KnownInOrder, SwappingAt, NoJob, NewJob, NoTree
<1> QED
  BY <1>2, TextAfterReading

(* What held of the one process, and where it works.                       *)
LEMMA TextOf ==
  ASSUME TypeOK, NEW a, TextInv(a), NEW p \in Procs
  PROVE  /\ ReadInOrder(pc[p], job[p], db, Disk(p), a)
         /\ TextInOrder(db, Disk(p)) /\ Disk(p)[a] # 0
         /\ Disk(p) \in Tree /\ job[p] \in Job /\ db \in Database
         /\ Home(p) \in Checkouts
<1>1. Home(p) \in Checkouts
  BY DEF TypeOK, Job, Home
<1> QED
  BY <1>1 DEF TextInv, TypeOK, Disk

(* The disk a process works on stays while the files do and it stays.      *)
LEMMA SameDisk == ASSUME NEW p \in Procs, src' = src, KeepsHome(p)
                  PROVE  Disk(p)' = Disk(p)
BY DEF Disk, Home, KeepsHome

(* Files change or go away: what was read before is no newer.              *)
LEMMA TextAfterEdit ==
  ASSUME TypeOK, NEW a, Forward(a), TextInv(a), NEW c \in Checkouts,
         NEW f \in Files, NEW v \in Version, Edit(c, f, v)
  PROVE  TextInv(a)'
<1>1. /\ src' = [src EXCEPT ![c][f] = v] /\ v # src[c][f]
      /\ <<EditKind(src[c][f], v), f>> \in Edits
      /\ db' = db /\ pc' = pc /\ job' = job
  BY DEF Edit
<1>2. src[c] \in Tree /\ src'[c] = [src[c] EXCEPT ![f] = v]
  BY <1>1 DEF TypeOK
<1>3. EditKind(src[c][f], v) \in {"modify", "delete"}
  BY <1>1 DEF Forward
<1>4. src[c][f] \in Nat /\ v \in Nat
  BY <1>2, FilesAssumption DEF Tree, Version
<1>5. src[c][f] # 0 /\ (v = 0 \/ v > src[c][f])
  <2>1. ASSUME src[c][f] = 0 PROVE EditKind(src[c][f], v) = "create"
    BY <1>4, <2>1 DEF EditKind
  <2>2. ASSUME v \in 1 .. src[c][f] PROVE EditKind(src[c][f], v) = "revert"
    BY <1>1, <1>4, <2>2 DEF EditKind
  <2> QED
    BY <1>1, <1>3, <1>4, <2>1, <2>2
<1>6. \A u \in Version : Follows(u, src[c][f]) => Follows(u, v)
  BY <1>4, <1>5, FilesAssumption DEF Follows, Version
<1>7. \A g \in Files, u \in Version :
        Follows(u, src[c][g]) => Follows(u, src'[c][g])
  BY <1>2, <1>6 DEF Tree
<1>8. src'[c][a] # 0
  <2>1. src[c][a] # 0
    BY DEF TextInv
  <2>2. CASE f = a /\ v = 0
    <3>1. EditKind(src[c][f], v) = "delete"
      BY <1>4, <1>5, <2>2 DEF EditKind
    <3> QED
      BY <1>1, <2>2, <3>1 DEF Forward
  <2> QED
    BY <1>2, <2>1, <2>2 DEF Tree
<1>9. \A d \in Checkouts : d = c
  BY DEF Forward
<1>10. TextInOrder(db', src'[c])
  <2>1. TextInOrder(db, src[c])
    BY DEF TextInv
  <2>2. db.files \in Tree /\ \A t \in db.fp : t \in Tree
    BY DEF TypeOK, Database
  <2> QED
    BY <1>1, <1>7, <2>1, <2>2 DEF TextInOrder, Tree
<1>11. ASSUME NEW p \in Procs
       PROVE  ReadInOrder(pc'[p], job'[p], db', Disk(p)', a)
  <2>1. Disk(p) = src[c] /\ Disk(p)' = src'[c]
    BY <1>1, <1>9, TextOf DEF Disk, Home
  <2>2. ReadInOrder(pc[p], job[p], db, src[c], a)
    BY <2>1, TextOf
  <2>3. job[p].known \in Tree /\ job[p].hash \in Tree
    BY DEF TypeOK, Job
  <2>4. KnownInOrder(job[p], db, src'[c])
    BY <1>7, <2>2, <2>3 DEF ReadInOrder, KnownInOrder, Tree
  <2>5. HashInOrder(job[p], src[c]) => HashInOrder(job[p], src'[c])
    BY <1>7, <2>3 DEF HashInOrder, Tree
  <2> QED
    BY <1>1, <2>1, <2>2, <2>4, <2>5 DEF ReadInOrder
<1> QED
  BY <1>8, <1>9, <1>10, <1>11 DEF TextInv

(* Hashing, which ends with the fingerprint.                               *)
LEMMA TextWhileHashing ==
  ASSUME TypeOK, NEW a, Forward(a), TextInv(a), NEW p \in Procs, Hashing(p)
  PROVE  TextInv(a)'
<1>1. /\ ReadInOrder(pc[p], job[p], db, Disk(p), a)
      /\ TextInOrder(db, Disk(p)) /\ Disk(p) \in Tree /\ job[p] \in Job
  BY TextOf
<1>2. ASSUME Walk(p) PROVE TextInv(a)'
  <2>1. /\ src' = src /\ db' = db /\ pc[p] = "walk" /\ pc'[p] = "hash"
    BY <1>2 DEF Walk, Goto, TypeOK
  <2>2. Disk(p)' = Disk(p)
    BY <1>2, <2>1, WalkEffect, SameDisk
  <2>3. HashInOrder(job'[p], Disk(p))
    BY <1>2, WalkEffect DEF HashInOrder, Follows, Files, NoTree
  <2>4. KnownInOrder(job'[p], db, Disk(p))
    BY <1>1, <1>2, WalkEffect DEF ReadInOrder, KnownInOrder
  <2>5. SwappingAt("hash", job'[p]) => db.files = job'[p].known
    BY <1>1, <1>2, <2>1, WalkEffect DEF ReadInOrder, SwappingAt
  <2>6. ReadInOrder(pc'[p], job'[p], db', Disk(p)', a)
    BY <2>1, <2>2, <2>3, <2>4, <2>5 DEF ReadInOrder
  <2> QED
    BY <2>1, <2>6, TextAfterReading
<1>3. ASSUME NEW f \in Files, HashFile(p, f) PROVE TextInv(a)'
  <2>1. /\ src' = src /\ db' = db /\ pc[p] = "hash" /\ pc'[p] = "hash"
    BY <1>3 DEF HashFile
  <2>2. Disk(p)' = Disk(p)
    BY <1>3, <2>1, HashFileEffect, SameDisk
  <2>3. HashInOrder(job'[p], Disk(p))
    <3> DEFINE v == IF job[p].known[f] # 0 THEN job[p].known[f] ELSE Disk(p)[f]
    <3>1. /\ job'[p].hash = [job[p].hash EXCEPT ![f] = v]
          /\ job'[p].known = job[p].known
          /\ job'[p].todo = job[p].todo \ {f} /\ job[p].hash \in Tree
      BY <1>1, <1>3, HashFileEffect DEF Job
    <3>2. Follows(v, Disk(p)[f])
      <4>1. Disk(p)[f] \in Version
        BY <1>1 DEF Tree
      <4>2. Follows(Disk(p)[f], Disk(p)[f])
        BY <4>1, FollowsOrder
      <4> QED
        BY <1>1, <4>2 DEF ReadInOrder, KnownInOrder
    <3>3. HashInOrder(job[p], Disk(p))
      BY <1>1, <2>1 DEF ReadInOrder
    <3> QED
      BY <3>1, <3>2, <3>3 DEF HashInOrder, Tree
  <2>4. KnownInOrder(job'[p], db, Disk(p))
    BY <1>1, <1>3, HashFileEffect DEF ReadInOrder, KnownInOrder
  <2>5. SwappingAt("hash", job'[p]) => db.files = job'[p].known
    BY <1>1, <1>3, <2>1, HashFileEffect DEF ReadInOrder, SwappingAt
  <2>6. ReadInOrder(pc'[p], job'[p], db', Disk(p)', a)
    BY <2>1, <2>2, <2>3, <2>4, <2>5 DEF ReadInOrder
  <2> QED
    BY <2>1, <2>6, TextAfterReading
<1>4. ASSUME CheckSource(p) PROVE TextInv(a)'
  <2>1. /\ src' = src /\ db' = db /\ job' = job /\ pc'[p] \in {"answer", "auto"}
    BY <1>4 DEF CheckSource, Goto, TypeOK
  <2>2. ReadInOrder(pc'[p], job'[p], db', Disk(p)', a)
    BY <1>1, <2>1 DEF ReadInOrder, SwappingAt, Disk, Home
  <2> QED
    BY <2>1, <2>2, TextAfterReading
<1>5. ASSUME HashFails(p) PROVE TextInv(a)'
  <2>1. src' = src /\ db' = db
    BY <1>5 DEF HashFails
  <2>2. CASE Stop(p)
    BY <2>1, <2>2, TextAfterStop
  <2>3. CASE job' = job /\ pc'[p] \in {"answer", "auto"}
    <3>1. ReadInOrder(pc'[p], job'[p], db', Disk(p)', a)
      BY <1>1, <2>1, <2>3 DEF ReadInOrder, SwappingAt, Disk, Home
    <3> QED
      BY <2>1, <3>1, TextAfterReading
  <2> QED
    BY <1>5, <2>2, <2>3 DEF HashFails, Goto, TypeOK
<1>6. ASSUME Record(p) PROVE TextInv(a)'
  <2> DEFINE h == job[p].hash
  <2>1. /\ src' = src /\ db' = [db EXCEPT !.fp = {h}]
        /\ pc[p] = "hash" /\ job[p].purpose = "record" /\ job[p].todo = {}
        /\ db \in Database
    BY <1>6 DEF Record, TypeOK
  <2>2. db'.fp = {h} /\ db'.files = db.files /\ db.files = job[p].known
    BY <1>1, <2>1 DEF Database, ReadInOrder, SwappingAt
  <2>3. \A f \in Files : /\ Follows(h[f], Disk(p)[f])
                         /\ job[p].known[f] # 0 => h[f] = job[p].known[f]
    BY <1>1, <2>1 DEF ReadInOrder, HashInOrder
  <2>4. \A f \in Files : Follows(job[p].known[f], job[p].known[f])
    BY <1>1, FollowsOrder DEF Job, Tree
  <2>5. TextInOrder(db', Disk(p))
    BY <1>1, <2>2, <2>3, <2>4 DEF TextInOrder
  <2>6. KnownInOrder(job[p], db', Disk(p))
    BY <1>1, <2>2, <2>3, <2>4 DEF ReadInOrder, KnownInOrder
  <2>7. \A c \in Checkouts : src'[c][a] # 0 /\ TextInOrder(db', src'[c])
    BY <2>1, <2>5, TextOf DEF Forward, Disk, TextInv
  <2>8. ReadInOrder(pc'[p], job'[p], db', Disk(p)', a)
    <3>1. CASE Stop(p)
      <4>1. pc'[p] = "idle" /\ job'[p] = NoJob
        BY <3>1, StopEffect DEF TypeOK
      <4> QED
        BY <4>1 DEF ReadInOrder, KnownInOrder, SwappingAt, NoJob, NewJob, NoTree
    <3>2. CASE job' = job /\ pc'[p] = "answer"
      BY <2>1, <2>6, <3>2 DEF ReadInOrder, SwappingAt, Disk, Home
    <3> QED
      BY <1>6, <3>1, <3>2 DEF Record, Goto, TypeOK
  <2> QED
    BY <2>7, <2>8 DEF TextInv, Forward
<1> QED
  BY <1>2, <1>3, <1>4, <1>5, <1>6 DEF Hashing

(* The rebuild, from the listing to the commit and the meta keys.          *)
LEMMA TextWhileRebuilding ==
  ASSUME TypeOK, NEW a, Forward(a), TextInv(a), NEW p \in Procs, Rebuilding(p)
  PROVE  TextInv(a)'
<1>1. /\ ReadInOrder(pc[p], job[p], db, Disk(p), a)
      /\ TextInOrder(db, Disk(p)) /\ Disk(p) \in Tree /\ job[p] \in Job
      /\ Disk(p)[a] # 0 /\ Home(p) \in Checkouts /\ db \in Database
  BY TextOf
<1>2. a \in GoFiles /\ a \in Files /\ p \notin Clis
  BY DEF Forward, Files
<1>3. ASSUME List(p) PROVE TextInv(a)'
  <2>1. src' = src /\ db' = db /\ pc'[p] = "parse"
    BY <1>3 DEF List, Goto, TypeOK
  <2>2. Disk(p)' = Disk(p)
    BY <1>3, <2>1, ListEffect, SameDisk
  <2>3. a \in job'[p].todo /\ job'[p].known = NoTree
    BY <1>1, <1>2, <1>3, ListEffect
  <2>4. ReadInOrder(pc'[p], job'[p], db', Disk(p)', a)
    BY <2>1, <2>3 DEF ReadInOrder, KnownInOrder, SwappingAt, NoTree
  <2> QED
    BY <2>1, <2>4, TextAfterReading
<1>4. ASSUME NEW f \in GoFiles, ParseFile(p, f) PROVE TextInv(a)'
  <2>1. src' = src /\ db' = db /\ pc[p] = "parse" /\ pc'[p] = "parse"
    BY <1>4 DEF ParseFile
  <2>2. Disk(p)' = Disk(p)
    BY <1>4, <2>1, ParseFileEffect, SameDisk
  <2>3. a \in job'[p].todo \/ job'[p].ast[a] # 0
    <3>1. Parsed(a, Disk(p)[a]) # 0
      BY <1>1, <1>2 DEF Forward, Parsed, Tree
    <3>2. /\ job'[p].ast = [job[p].ast EXCEPT ![f] = Parsed(f, Disk(p)[f])]
          /\ job'[p].todo = job[p].todo \ {f} /\ job[p].ast \in Tree
      BY <1>1, <1>4, ParseFileEffect DEF Job
    <3>3. a \in job[p].todo \/ job[p].ast[a] # 0
      BY <1>1, <2>1 DEF ReadInOrder
    <3>4. CASE f = a
      BY <1>2, <3>1, <3>2, <3>4 DEF Tree
    <3>5. CASE f # a
      BY <1>2, <3>2, <3>3, <3>5 DEF Tree
    <3> QED
      BY <3>4, <3>5
  <2>4. KnownInOrder(job'[p], db, Disk(p))
    BY <1>1, <1>4, ParseFileEffect DEF ReadInOrder, KnownInOrder
  <2>5. ReadInOrder(pc'[p], job'[p], db', Disk(p)', a)
    BY <2>1, <2>2, <2>3, <2>4 DEF ReadInOrder, SwappingAt
  <2> QED
    BY <2>1, <2>5, TextAfterReading
<1>5. ASSUME Create(p) PROVE TextInv(a)'
  <2>1. /\ src' = src /\ db' = [db EXCEPT !.exists = TRUE]
        /\ pc[p] = "parse" /\ job[p].todo = {} /\ pc'[p] = "read"
    BY <1>5 DEF Create, Goto, TypeOK
  <2>2. db'.fp = db.fp /\ db'.files = db.files
    BY <1>1, <2>1 DEF Database
  <2>3. Disk(p)' = Disk(p)
    BY <1>5, <2>1, CreateEffect, SameDisk
  <2>4. a \in job'[p].todo
    BY <1>1, <1>2, <1>5, <2>1, CreateEffect DEF ReadInOrder, ParsedFiles
  <2>5. KnownInOrder(job'[p], db', Disk(p))
    BY <1>1, <1>5, <2>2, CreateEffect DEF ReadInOrder, KnownInOrder
  <2>6. ReadInOrder(pc'[p], job'[p], db', Disk(p)', a)
    BY <2>1, <2>3, <2>4, <2>5 DEF ReadInOrder, SwappingAt
  <2>7. \A c \in Checkouts : src'[c][a] # 0 /\ TextInOrder(db', src'[c])
    BY <2>1, <2>2 DEF TextInv, TextInOrder
  <2> QED
    BY <2>6, <2>7 DEF TextInv, Forward
<1>6. ASSUME NEW f \in GoFiles, ReadFile(p, f) PROVE TextInv(a)'
  <2>1. src' = src /\ db' = db /\ pc[p] = "read" /\ pc'[p] = "read"
    BY <1>1, <1>6 DEF ReadFile, ReadInOrder
  <2>2. Disk(p)' = Disk(p)
    BY <1>6, <2>1, ReadFileEffect, SameDisk
  <2>3. /\ job'[p].known = [job[p].known EXCEPT ![f] = Disk(p)[f]]
        /\ job'[p].todo = job[p].todo \ {f} /\ job[p].known \in Tree
    BY <1>1, <1>6, ReadFileEffect DEF Job
  <2>4. a \in job'[p].todo \/ job'[p].known[a] # 0
    BY <1>1, <1>2, <2>1, <2>3 DEF ReadInOrder, Tree
  <2>5. KnownInOrder(job'[p], db, Disk(p))
    <3>1. f \in Files /\ Follows(Disk(p)[f], Disk(p)[f])
      BY <1>1, FollowsOrder DEF Files, Tree
    <3>2. \A t \in db.fp : Follows(t[f], Disk(p)[f])
      BY <1>1, <3>1 DEF TextInOrder
    <3>3. KnownInOrder(job[p], db, Disk(p))
      BY <1>1 DEF ReadInOrder
    <3> QED
      BY <2>3, <3>1, <3>2, <3>3 DEF KnownInOrder, Tree
  <2>6. ReadInOrder(pc'[p], job'[p], db', Disk(p)', a)
    BY <2>1, <2>2, <2>4, <2>5 DEF ReadInOrder, SwappingAt
  <2> QED
    BY <2>1, <2>6, TextAfterReading
<1>7. ASSUME Write(p) PROVE TextInv(a)'
  <2>1. /\ src' = src /\ job' = job /\ pc[p] = "read" /\ job[p].todo = {}
        /\ pc'[p] = "indexedAt"
    BY <1>7 DEF Write, Goto, TypeOK
  <2>2. job[p].known # NoTree
    BY <1>1, <1>2, <2>1 DEF ReadInOrder, NoTree
  <2>3. db'.files = job[p].known /\ db'.fp = db.fp
    BY <1>1, <1>7, <2>2 DEF Write, Database
  <2>4. TextInOrder(db', Disk(p))
    BY <1>1, <2>3 DEF TextInOrder, ReadInOrder, KnownInOrder
  <2>5. KnownInOrder(job[p], db', Disk(p))
    BY <1>1, <2>3 DEF ReadInOrder, KnownInOrder
  <2>6. \A c \in Checkouts : src'[c][a] # 0 /\ TextInOrder(db', src'[c])
    BY <1>1, <2>1, <2>4 DEF Forward, Disk, TextInv
  <2>7. ReadInOrder(pc'[p], job'[p], db', Disk(p)', a)
    BY <2>1, <2>3, <2>5 DEF ReadInOrder, SwappingAt, Disk, Home
  <2> QED
    BY <2>6, <2>7 DEF TextInv, Forward
<1>8. ASSUME SetIndexedAt(p) PROVE TextInv(a)'
  <2>1. /\ src' = src /\ job' = job /\ pc[p] = "indexedAt" /\ pc'[p] = "repo"
        /\ db' = [db EXCEPT !.indexedAt = TRUE]
    BY <1>8 DEF SetIndexedAt, Goto, TypeOK
  <2>2. db'.files = db.files /\ db'.fp = db.fp
    BY <1>1, <2>1 DEF Database
  <2>3. \A c \in Checkouts : src'[c][a] # 0 /\ TextInOrder(db', src'[c])
    BY <2>1, <2>2 DEF TextInv, TextInOrder
  <2>4. ReadInOrder(pc'[p], job'[p], db', Disk(p)', a)
    BY <1>1, <2>1, <2>2
    DEF ReadInOrder, KnownInOrder, SwappingAt, Disk, Home
  <2> QED
    BY <2>3, <2>4 DEF TextInv, Forward
<1>9. ASSUME SetRepoMeta(p) PROVE TextInv(a)'
  <2>1. /\ src' = src /\ pc[p] = "repo" /\ pc'[p] = "walk"
        /\ db' = [db EXCEPT !.repo = {Home(p)}]
        /\ job' = [job EXCEPT ![p].purpose = "record"]
    BY <1>2, <1>9 DEF SetRepoMeta, Goto, TypeOK
  <2>2. db'.files = db.files /\ db'.fp = db.fp
    BY <1>1, <2>1 DEF Database
  <2>3. job'[p].known = job[p].known
    BY <1>1, <2>1 DEF TypeOK, Job
  <2>4. Disk(p)' = Disk(p)
    BY <1>9, <2>1, SetRepoMetaEffect, SameDisk
  <2>5. \A c \in Checkouts : src'[c][a] # 0 /\ TextInOrder(db', src'[c])
    BY <2>1, <2>2 DEF TextInv, TextInOrder
  <2>6. ReadInOrder(pc'[p], job'[p], db', Disk(p)', a)
    BY <1>1, <2>1, <2>2, <2>3, <2>4 DEF ReadInOrder, KnownInOrder, SwappingAt
  <2> QED
    BY <2>5, <2>6 DEF TextInv, Forward
<1>10. ~Reread(p)
  BY <1>1 DEF Reread, ReadInOrder
<1> QED
  BY <1>3, <1>4, <1>5, <1>6, <1>7, <1>8, <1>9, <1>10 DEF Rebuilding

(* A run starts with nothing read.                                         *)
LEMMA TextAfterStart ==
  ASSUME TypeOK, NEW a, Forward(a), TextInv(a), NEW p \in Procs,
         NEW c \in Checkouts, NEW auto \in BOOLEAN,
         NEW label \in {"meta?", "auto", "list"}, Start(p, c, label, auto)
  PROVE  TextInv(a)'
<1>1. src' = src /\ db' = db
  BY DEF Start
<1>2. pc'[p] = label /\ job'[p] = NewJob(c, auto)
  BY StartEffect DEF Label, TypeOK
<1>3. ReadInOrder(pc'[p], job'[p], db', Disk(p)', a)
  BY <1>2 DEF ReadInOrder, KnownInOrder, SwappingAt, NewJob, NoTree
<1> QED
  BY <1>1, <1>3, TextAfterReading

LEMMA InitText == ASSUME NEW a, Forward(a), Init PROVE TextInv(a)
<1>1. src \in [Checkouts -> Tree]
  BY FilesAssumption DEF Init
<1>2. ASSUME NEW c \in Checkouts PROVE TextInOrder(db, src[c])
  <2>1. CASE db = NoDatabase
    BY <2>1 DEF NoDatabase, NoTree, TextInOrder
  <2>2. ASSUME NEW d \in Checkouts, db = OlderIndex(d)
        PROVE  TextInOrder(db, src[c])
    <3>1. /\ d = c /\ db.fp = {src[c]} /\ db.files = RowsOf(src[c])
      BY <2>2 DEF Forward, OlderIndex
    <3>2. \A f \in Files : /\ Follows(src[c][f], src[c][f])
                           /\ RowsOf(src[c])[f] \in {0, src[c][f]}
      BY <1>1, FollowsOrder DEF Tree, RowsOf, Parsed
    <3> QED
      BY <3>1, <3>2 DEF TextInOrder
  <2> QED
    BY <2>1, <2>2 DEF Init
<1>3. ASSUME NEW p \in Procs
      PROVE  ReadInOrder(pc[p], job[p], db, Disk(p), a)
  <2>1. pc[p] = "idle" /\ job[p] = NoJob
    BY DEF Init
  <2> QED
    BY <2>1 DEF ReadInOrder, KnownInOrder, SwappingAt, NoJob, NewJob, NoTree
<1> QED
  BY <1>2, <1>3 DEF TextInv, Init, Forward

LEMMA StepText ==
  ASSUME NEW a, Forward(a), TypeOK, TextInv(a), [Next]_vars PROVE TextInv(a)'
<1>1. CASE UNCHANGED vars
  BY <1>1 DEF vars, TextInv, Disk, Home
<1>2. ASSUME NEW p \in Servers, Call(p) \/ Reindex(p) \/ BackoffExpires(p)
      PROVE  TextInv(a)'
  <2>1. p \in Procs /\ ServedRepo[p] \in Checkouts
    BY ProcsAssumption DEF Procs
  <2>2. CASE Call(p) \/ Reindex(p)
    <3>1. \E auto \in BOOLEAN, label \in {"meta?", "auto", "list"} :
            Start(p, ServedRepo[p], label, auto)
      BY <2>2 DEF Call, Reindex
    <3> QED
      BY <2>1, <3>1, TextAfterStart
  <2>3. CASE BackoffExpires(p)
    BY <2>3 DEF BackoffExpires, TextInv, Disk, Home
  <2> QED
    BY <1>2, <2>2, <2>3
<1>3. ASSUME NEW p \in Procs, CheckMeta(p) PROVE TextInv(a)'
  <2>1. ReadInOrder(pc[p], job[p], db, Disk(p), a)
    BY TextOf
  <2>2. src' = src /\ db' = db /\ pc[p] = "meta?"
    BY <1>3 DEF CheckMeta
  <2>3. Disk(p)' = Disk(p) /\ job'[p].known = job[p].known
    BY <1>3, <2>2, CheckMetaEffect, SameDisk
  <2>4. \/ pc'[p] = "auto"
        \/ pc'[p] = "walk" /\ job'[p].purpose = "check"
    BY <1>3, CheckMetaEffect DEF TypeOK
  <2>5. ReadInOrder(pc'[p], job'[p], db', Disk(p)', a)
    BY <2>1, <2>2, <2>3, <2>4 DEF ReadInOrder, KnownInOrder, SwappingAt
  <2> QED
    BY <2>2, <2>5, TextAfterReading
<1>4. ASSUME NEW p \in Procs, AutoIndex(p) PROVE TextInv(a)'
  <2>1. ReadInOrder(pc[p], job[p], db, Disk(p), a)
    BY TextOf
  <2>2. src' = src /\ db' = db /\ job' = job /\ pc'[p] = "list"
    BY <1>4 DEF AutoIndex, Goto, TypeOK
  <2>3. ReadInOrder(pc'[p], job'[p], db', Disk(p)', a)
    BY <2>1, <2>2 DEF ReadInOrder, SwappingAt, Disk, Home
  <2> QED
    BY <2>2, <2>3, TextAfterReading
<1>5. ASSUME NEW p \in Procs, Refuse(p) \/ Answer(p) \/ Fail(p) \/ Crash(p)
      PROVE  TextInv(a)'
  <2>1. src' = src /\ db' = db /\ Stop(p)
    BY <1>5 DEF Refuse, Answer, Fail, Crash
  <2> QED
    BY <2>1, TextAfterStop
<1>6. Clis = {}
  BY DEF Forward
<1> QED
  BY <1>1, <1>2, <1>3, <1>4, <1>5, <1>6, TextAfterEdit, TextWhileHashing,
     TextWhileRebuilding
  DEF Next, Step

(* search_text never greps bytes that differ from the file on disk under   *)
(* an index that is judged current, although files change while they are   *)
(* parsed, read, hashed and committed, and runs fail or are killed between *)
(* any two of these: for one server, whose module keeps a file that parses.*)
THEOREM TextIsCurrent ==
  ASSUME NEW a, Forward(a) PROVE Spec => []NoStaleText
<1>1. Init => TypeOK /\ TextInv(a)
  BY InitType, InitText
<1>2. TypeOK /\ TextInv(a) /\ [Next]_vars => (TypeOK /\ TextInv(a))'
  BY StepType, StepText
<1>3. TypeOK /\ TextInv(a) => NoStaleText
  <2> SUFFICES ASSUME TypeOK, TextInv(a), NEW c \in Checkouts,
                      NEW f \in GoFiles, Current(c), db.files[f] # 0
               PROVE  db.files[f] = src[c][f]
    BY DEF NoStaleText
  <2>1. f \in Files /\ TextInOrder(db, src[c]) /\ db.fp = {src[c]}
    BY DEF Files, TextInv, Current
  <2>2. Follows(db.files[f], src[c][f]) /\ Follows(src[c][f], db.files[f])
    BY <2>1 DEF TextInOrder
  <2>3. db.files[f] \in Version /\ src[c][f] \in Version
    BY <2>1 DEF TypeOK, Database, Tree
  <2> QED
    BY <2>2, <2>3, FollowsOrder
<1> QED
  BY <1>1, <1>2, <1>3, PTL DEF Spec
=============================================================================
