--------------------------- MODULE RehearsalProofs ---------------------------
(***************************************************************************)
(* What a migration rehearsal that passed leaves behind, for any number of *)
(* drills and releases, any generations and any calls that raise: its      *)
(* restored generation is not the one that serves, and what it validated   *)
(* is whole.                                                               *)
(*                                                                         *)
(* The invariant has two layers.  DrillIsSound(r) follows one drill alone  *)
(* through its stages; StoresInv says what the drills and the releases     *)
(* have to do with each other through the collections and the alias they   *)
(* share.  Most steps are Quiet: they touch only what is the drill's own.  *)
(***************************************************************************)
EXTENDS Rehearsal, FiniteSetTheorems, TLAPS

-----------------------------------------------------------------------------
(* The shapes of the state, and the invariant *)

Statuses == {"pending", "running", "passed", "failed"}
RunFiles(r) == [made : BOOLEAN, stage : [NamesOf(r) -> Statuses], source : Nat, target : Nat,
                cutoff : BOOLEAN, passed : BOOLEAN]
StageNames == {"none", "prepare", "backup", "restore", "validate", "cutover", "rollback",
               "seed", "load", "fault", "security"}
StepNames == {"none", "rows", "generation", "vectors", "cutoff", "dump", "milvus backup", "list",
              "manifest", "mysql", "import", "postgres", "pg_restore", "milvus", "clock", "compare",
              "activate", "answers", "switch", "probe", "switch back", "report", "database",
              "collection", "seed", "search", "isolate", "rejoin", "audit", "judge"}
Processes == [stage : StageNames, at : StepNames, source : Nat]
Dumps == [mysql : SUBSET Drills, vectors : SUBSET Drills, milvus : BOOLEAN, listed : BOOLEAN]
Copies == [whole : BOOLEAN, made : BOOLEAN, rows : SUBSET Drills]

RehearsalTypeInv ==
  /\ DOMAIN file = Runs /\ \A r \in Runs : file[r] \in RunFiles(r)
  /\ proc \in [Runs -> Processes] /\ toolLock \in [{"m5", "m6"} -> BOOLEAN]
  /\ fixtures \subseteq Drills /\ vectors \subseteq Drills
  /\ collection \in [Generations -> [made : BOOLEAN, rows : SUBSET Runs]]
  /\ dump \in [Drills -> Dumps] /\ copy \in [Drills -> [mysql : Copies, pg : Copies]]
  /\ report \in [Runs -> {"none", "passed", "failed"}]

StagePassed(r, s) == file[r].stage[s] = "passed"
DrillIsAt(p) ==
  \/ p.stage = "none" /\ p.at = "none"
  \/ p.stage = "prepare" /\ p.at \in {"rows", "generation", "vectors", "cutoff"}
  \/ p.stage = "backup" /\ p.at \in {"dump", "milvus backup", "list"}
  \/ p.stage = "restore" /\ p.at \in {"manifest", "mysql", "import", "postgres", "pg_restore", "milvus", "clock"}
  \/ p.stage = "validate" /\ p.at \in {"compare", "activate", "answers"}
  \/ p.stage = "cutover" /\ p.at \in {"switch", "probe"}
  \/ p.stage = "rollback" /\ p.at \in {"switch back", "report"}
ReleaseIsAt(p) ==
  \/ p.stage = "none" /\ p.at = "none"
  \/ p.stage = "prepare" /\ p.at \in {"database", "collection"}
  \/ p.stage = "seed" /\ p.at = "seed"
  \/ p.stage = "load" /\ p.at = "search"
  \/ p.stage = "fault" /\ p.at \in {"isolate", "rejoin"}
  \/ p.stage = "security" /\ p.at = "audit"
  \/ p.stage = "validate" /\ p.at \in {"judge", "report"}

\* A drill seeds itself once; its cutoff comes last and says that all of it is there.
Seeding(r) ==
  /\ file[r].target = IF file[r].source = 0 THEN 0 ELSE file[r].source + 1
  /\ proc[r].source # 0 <=> proc[r].at \in {"vectors", "cutoff"}
  /\ r \notin fixtures => file[r].source = 0 /\ r \notin vectors
  /\ proc[r].at \in {"generation", "vectors", "cutoff"} => r \in fixtures /\ file[r].source = 0
  /\ proc[r].at \in {"generation", "vectors"} => r \notin vectors
  /\ proc[r].at = "cutoff" => r \in vectors
  /\ file[r].cutoff => StagePassed(r, "prepare") /\ r \in vectors /\ file[r].source # 0
\* What is listed is never dumped again, and a whole copy is a copy of it.
Copying(r) ==
  /\ proc[r].at \in {"milvus backup", "list"} => file[r].cutoff /\ r \in dump[r].vectors /\ ~dump[r].listed
  /\ dump[r].listed => StagePassed(r, "backup") /\ file[r].cutoff /\ r \in dump[r].vectors
  /\ StagePassed(r, "restore") \/ (proc[r].stage = "restore" /\ proc[r].at # "manifest") => dump[r].listed
  /\ copy[r].mysql.whole => dump[r].listed /\ copy[r].mysql.made /\ copy[r].mysql.rows = dump[r].mysql
  /\ copy[r].pg.whole => dump[r].listed /\ copy[r].pg.made /\ copy[r].pg.rows = dump[r].vectors
  /\ proc[r].at = "mysql" => ~copy[r].mysql.made
  /\ proc[r].at = "import" => ~copy[r].mysql.whole
  /\ proc[r].at = "pg_restore" => ~copy[r].pg.whole
  /\ proc[r].at \in {"activate", "answers"} \/ StagePassed(r, "validate")
       => copy[r].mysql.whole /\ copy[r].pg.whole
InOrder(r) ==
  /\ StagePassed(r, "backup") \/ proc[r].stage = "backup" => StagePassed(r, "prepare")
  /\ StagePassed(r, "restore") \/ proc[r].stage = "restore" => StagePassed(r, "backup")
  /\ StagePassed(r, "validate") \/ proc[r].stage = "validate" => StagePassed(r, "restore")
  /\ StagePassed(r, "cutover") \/ proc[r].stage = "cutover" => StagePassed(r, "validate")
  /\ StagePassed(r, "rollback") \/ proc[r].stage = "rollback" => StagePassed(r, "cutover")
DrillIsSound(r) ==
  /\ DrillIsAt(proc[r])
  /\ proc[r].at \notin {"none", "report"} => file[r].stage[proc[r].stage] = "running"
  /\ Seeding(r) /\ Copying(r)
  /\ r \in Orderly => InOrder(r)
  /\ report[r] = "passed" => AllPassed(r)

\* The generation a drill made for itself; its target is the next one.
SourceOf(r) == IF proc[r].source = 0 THEN file[r].source ELSE proc[r].source
OneAtATime ==
  /\ \A r \in Drills : proc[r].at # "none" => toolLock["m5"]
  /\ \A r, q \in Drills : r # q => proc[r].at = "none" \/ proc[q].at = "none"
SourcesAreTheirOwn ==
  /\ \A r \in Drills : SourceOf(r) # 0 =>
       SourceOf(r) \in Generations /\ SourceOf(r) + 1 \in Generations /\ collection[SourceOf(r)].made
  /\ \A r, q \in Drills : r # q /\ SourceOf(r) # 0 => SourceOf(r) # SourceOf(q)
RowsAreTheirOwn ==
  /\ \A g \in Generations : collection[g].rows # {} => collection[g].made
  /\ \A r \in Drills \ vectors : \A g \in Generations : r \notin collection[g].rows
  /\ \A r \in Drills : \A g \in Generations :
       r \in collection[g].rows =>
         /\ proc[r].at = "cutoff" => g = proc[r].source
         /\ file[r].target = g => collection[g].rows = {r}
ServesTheDrill ==
  /\ \A r \in Drills : proc[r].at = "vectors" =>
       alias = proc[r].source /\ collection[alias].rows \cap Drills = {}
  /\ \A r \in Drills : proc[r].at = "answers" => alias = file[r].target /\ alias # 0
\* A generation that was made when none had it is nobody's source, now or later.
Apart(g) == collection[g].made /\ \A q \in Drills : SourceOf(q) # g
TargetsAreApart ==
  \A r \in Drills : StagePassed(r, "restore") \/ proc[r].at = "clock" => Apart(file[r].target)
RolledBack == \A r \in Drills \cap Orderly : AllPassed(r) => alias # file[r].target
ReleasesAreApart ==
  \A x \in Releases :
    /\ ReleaseIsAt(proc[x])
    /\ x \in Orderly /\ proc[x].stage = "seed" => StagePassed(x, "prepare")
    /\ StagePassed(x, "prepare") =>
         /\ Apart(ReleaseGeneration[x]) /\ collection[ReleaseGeneration[x]].rows \cap Drills = {}
TargetsAreFilled ==
  Releases \subseteq Orderly =>
    \A r \in Drills : StagePassed(r, "validate") => r \in collection[file[r].target].rows

StoresInv ==
  /\ OneAtATime /\ SourcesAreTheirOwn /\ RowsAreTheirOwn /\ ServesTheDrill
  /\ TargetsAreApart /\ RolledBack /\ ReleasesAreApart /\ TargetsAreFilled
RehearsalInv == RehearsalTypeInv /\ (\A r \in Drills : DrillIsSound(r)) /\ StoresInv

-----------------------------------------------------------------------------
(* The names of the stages *)

LEMMA DrillNamesAre ==
  ASSUME NEW r \in Drills
  PROVE  /\ NamesOf(r) = {"prepare", "backup", "restore", "validate", "cutover", "rollback"}
         /\ r \in Runs /\ r \notin Releases /\ Tool(r) = "m5"
         /\ EarlierPassed(r, "backup") => StagePassed(r, "prepare")
         /\ EarlierPassed(r, "restore") => StagePassed(r, "backup")
         /\ EarlierPassed(r, "validate") => StagePassed(r, "restore")
         /\ EarlierPassed(r, "cutover") => StagePassed(r, "validate")
         /\ EarlierPassed(r, "rollback") => StagePassed(r, "cutover")
<1>1. StagesOf(r) = DrillStages /\ r \in Runs /\ r \notin Releases /\ Tool(r) = "m5"
  BY RehearsalAssumption DEF StagesOf, Runs, Tool
<1>2. /\ DrillStages[1] = "prepare" /\ DrillStages[2] = "backup" /\ DrillStages[3] = "restore"
      /\ DrillStages[4] = "validate" /\ DrillStages[5] = "cutover" /\ DrillStages[6] = "rollback"
  BY DEF DrillStages
<1>3. \A i \in 1..6 : i = 1 \/ i = 2 \/ i = 3 \/ i = 4 \/ i = 5 \/ i = 6
  OBVIOUS
<1>4. NamesOf(r) = {"prepare", "backup", "restore", "validate", "cutover", "rollback"}
  <2>1. NamesOf(r) = {DrillStages[i] : i \in 1..6}
    BY <1>1 DEF NamesOf
  <2> QED
    BY <1>2, <1>3, <2>1
<1>5. ASSUME NEW i \in 2..6, EarlierPassed(r, DrillStages[i])
      PROVE  StagePassed(r, DrillStages[i - 1])
  BY <1>1, <1>5 DEF EarlierPassed, StagePassed
<1> QED
  BY <1>1, <1>2, <1>4, <1>5

LEMMA ReleaseNamesAre ==
  ASSUME NEW x \in Releases
  PROVE  /\ NamesOf(x) = {"prepare", "seed", "load", "fault", "security", "validate"}
         /\ x \in Runs /\ x \notin Drills /\ Tool(x) = "m6"
         /\ EarlierPassed(x, "seed") => StagePassed(x, "prepare")
<1>1. StagesOf(x) = ReleaseStages /\ x \in Runs /\ x \notin Drills /\ Tool(x) = "m6"
  BY RehearsalAssumption DEF StagesOf, Runs, Tool
<1>2. /\ ReleaseStages[1] = "prepare" /\ ReleaseStages[2] = "seed" /\ ReleaseStages[3] = "load"
      /\ ReleaseStages[4] = "fault" /\ ReleaseStages[5] = "security" /\ ReleaseStages[6] = "validate"
  BY DEF ReleaseStages
<1>3. \A i \in 1..6 : i = 1 \/ i = 2 \/ i = 3 \/ i = 4 \/ i = 5 \/ i = 6
  OBVIOUS
<1>4. NamesOf(x) = {"prepare", "seed", "load", "fault", "security", "validate"}
  <2>1. NamesOf(x) = {ReleaseStages[i] : i \in 1..6}
    BY <1>1 DEF NamesOf
  <2> QED
    BY <1>2, <1>3, <2>1
<1>5. EarlierPassed(x, "seed") => StagePassed(x, "prepare")
  BY <1>1, <1>2 DEF EarlierPassed, StagePassed
<1> QED
  BY <1>1, <1>4, <1>5

\* The next generation is new and above all that are made: a drill's source is its own.
LEMMA NextIsNew ==
  ASSUME collection \in [Generations -> [made : BOOLEAN, rows : SUBSET Runs]]
  PROVE  /\ NextGeneration \in Nat /\ NextGeneration > 0
         /\ \A g \in Generations : collection[g].made => g < NextGeneration
<1> DEFINE S == {0} \cup {g \in Generations : collection[g].made}
           F == {U \in SUBSET S : \E n \in S : U = {y \in S : y > n}}
<1>1. S \in SUBSET (0..MaxGeneration) /\ S # {} /\ MaxGeneration \in Nat
  <2>1. MaxGeneration \in Nat
    BY RehearsalAssumption
  <2> QED
    BY <2>1 DEF Generations
<1> HIDE DEF S
<1>2. IsFiniteSet(S)
  <2>1. 0 \in Int /\ MaxGeneration \in Int
    BY <1>1
  <2>2. IsFiniteSet(0..MaxGeneration)
    BY <2>1, FS_Interval
  <2> QED
    BY <1>1, <2>2, FS_Subset
<1>3. F # {} /\ F \subseteq FiniteSubsetsOf(S)
  <2>1. ASSUME NEW U \in SUBSET S PROVE IsFiniteSet(U)
    BY <1>2, FS_Subset
  <2>2. \A n \in S : {y \in S : y > n} \in F
    OBVIOUS
  <2> QED
    BY <1>1, <2>1, <2>2 DEF FiniteSubsetsOf
<1> HIDE DEF F
<1>4. PICK T \in F : \A U \in F : <<U, T>> \notin StrictSubsetOrdering(S)
  <2>1. IsWellFoundedOn(StrictSubsetOrdering(S), FiniteSubsetsOf(S))
    BY FS_StrictSubsetOrderingWellFounded
  <2> QED
    BY <1>3, <2>1, WFMin
<1>5. PICK m \in S : T = {y \in S : y > m}
  BY DEF F
<1>6. ASSUME NEW n \in S, n > m PROVE FALSE
  <2> DEFINE U == {y \in S : y > n}
  <2>1. U \in F /\ U \subseteq S
    BY DEF F
  <2>2. n \in T /\ T \subseteq S
    BY <1>5, <1>6
  <2>3. S \subseteq Int
    BY <1>1
  <2>4. n \notin U /\ U \subseteq T
    <3>1. n \notin U
      BY <2>3
    <3>2. ASSUME NEW y \in S, y > n PROVE y > m
      BY <1>6, <2>3, <3>2
    <3> QED
      BY <1>5, <3>1, <3>2
  <2> HIDE DEF U
  <2>5. <<U, T>> \in StrictSubsetOrdering(S)
    BY <2>1, <2>2, <2>4 DEF StrictSubsetOrdering
  <2> QED
    BY <2>1, <2>5, <1>4
<1>7. m \in S /\ \A y \in S : m >= y
  BY <1>1, <1>6
<1>8. Max(S) \in S /\ \A y \in S : Max(S) >= y
  BY <1>7 DEF Max
<1>9. NextGeneration = 1 + Max(S)
  BY DEF NextGeneration, S
<1>10. Max(S) \in Nat /\ \A g \in Generations : collection[g].made => g \in S
  BY <1>1, <1>8 DEF S
<1> QED
  BY <1>1, <1>8, <1>9, <1>10 DEF Generations

-----------------------------------------------------------------------------
(* What the steps of a run do to its files and its process *)

\* Whatever a run does, the other runs keep what is theirs.
OthersKeep(q) ==
  /\ \A r \in Runs \ {q} : file'[r] = file[r] /\ proc'[r] = proc[r] /\ report'[r] = report[r]
  /\ \A r \in Drills \ {q} :
       /\ dump'[r] = dump[r] /\ copy'[r] = copy[r]
       /\ r \in fixtures' <=> r \in fixtures
       /\ r \in vectors' <=> r \in vectors

LEMMA FileFields ==
  ASSUME NEW r, NEW f \in RunFiles(r)
  PROVE  /\ f = [made |-> f.made, stage |-> f.stage, source |-> f.source, target |-> f.target,
                 cutoff |-> f.cutoff, passed |-> f.passed]
         /\ f.stage \in [NamesOf(r) -> Statuses] /\ f.made \in BOOLEAN /\ f.cutoff \in BOOLEAN
         /\ f.passed \in BOOLEAN /\ f.source \in Nat /\ f.target \in Nat
<1> DEFINE N == [NamesOf(r) -> Statuses]
<1> HIDE DEF N
<1>1. f \in [made : BOOLEAN, stage : N, source : Nat, target : Nat, cutoff : BOOLEAN, passed : BOOLEAN]
  BY DEF RunFiles, N
<1> QED
  BY <1>1 DEF N

LEMMA FileOfFields ==
  ASSUME NEW r, NEW stage \in [NamesOf(r) -> Statuses], NEW made \in BOOLEAN, NEW n \in Nat, NEW t \in Nat,
         NEW cut \in BOOLEAN, NEW passed \in BOOLEAN
  PROVE  [made |-> made, stage |-> stage, source |-> n, target |-> t, cutoff |-> cut, passed |-> passed]
           \in RunFiles(r)
BY DEF RunFiles

LEMMA CutIs ==
  ASSUME NEW r, NEW f \in RunFiles(r), NEW c \in BOOLEAN
  PROVE  LET g == [f EXCEPT !.cutoff = c]
         IN  g \in RunFiles(r) /\ g.stage = f.stage /\ g.source = f.source /\ g.target = f.target /\ g.cutoff = c
<1> DEFINE g == [made |-> f.made, stage |-> f.stage, source |-> f.source, target |-> f.target, cutoff |-> c,
                 passed |-> f.passed]
<1>1. f = [made |-> f.made, stage |-> f.stage, source |-> f.source, target |-> f.target, cutoff |-> f.cutoff,
           passed |-> f.passed]
  BY FileFields
<1>2. [f EXCEPT !.cutoff = c] = g
  BY <1>1
<1>3. g \in RunFiles(r)
  BY FileFields, FileOfFields
<1>4. g.stage = f.stage /\ g.source = f.source /\ g.target = f.target /\ g.cutoff = c
  OBVIOUS
<1> HIDE DEF g
<1> QED
  BY <1>2, <1>3, <1>4

LEMMA MadeIs ==
  ASSUME NEW r, NEW f \in RunFiles(r), NEW c \in BOOLEAN
  PROVE  [f EXCEPT !.made = c] = [made |-> c, stage |-> f.stage, source |-> f.source, target |-> f.target,
                                  cutoff |-> f.cutoff, passed |-> f.passed]
<1>1. f = [made |-> f.made, stage |-> f.stage, source |-> f.source, target |-> f.target, cutoff |-> f.cutoff,
           passed |-> f.passed]
  BY FileFields
<1> QED
  BY <1>1

Running(f, s) == [[f EXCEPT !.made = TRUE] EXCEPT !.stage[s] = "running"]

LEMMA RunningIs ==
  ASSUME NEW r, NEW f \in RunFiles(r), NEW s \in NamesOf(r)
  PROVE  LET f2 == Running(f, s)
         IN  /\ f2 \in RunFiles(r) /\ f2.source = f.source /\ f2.target = f.target /\ f2.cutoff = f.cutoff
             /\ f2.passed = f.passed /\ f2.stage[s] = "running"
             /\ \A o \in NamesOf(r) \ {s} : f2.stage[o] = f.stage[o]
<1> DEFINE f1 == [f EXCEPT !.made = TRUE]
           f2 == [f1 EXCEPT !.stage[s] = "running"]
           h == [f.stage EXCEPT ![s] = "running"]
           g == [made |-> TRUE, stage |-> h, source |-> f.source, target |-> f.target, cutoff |-> f.cutoff,
                 passed |-> f.passed]
<1>1. TRUE \in BOOLEAN /\ "running" \in Statuses
  BY DEF Statuses
<1>2. f1 = [made |-> TRUE, stage |-> f.stage, source |-> f.source, target |-> f.target, cutoff |-> f.cutoff,
            passed |-> f.passed]
  BY <1>1, MadeIs
<1> HIDE DEF f1
<1>3. f.stage \in [NamesOf(r) -> Statuses] /\ h \in [NamesOf(r) -> Statuses]
  BY <1>1, FileFields
<1>4. h[s] = "running" /\ \A o \in NamesOf(r) \ {s} : h[o] = f.stage[o]
  BY <1>3
<1>5. f2 = g
  <2> DEFINE j == f1.made
  <2>1. f1 = [made |-> j, stage |-> f.stage, source |-> f.source, target |-> f.target, cutoff |-> f.cutoff,
              passed |-> f.passed]
    BY <1>2
  <2>4. j = TRUE
    BY <1>2
  <2> HIDE DEF j
  <2>2. f2 = [f1 EXCEPT !.stage = h]
    <3>1. f1.stage = f.stage
      BY <2>1
    <3>2. f2 = [f1 EXCEPT !.stage = [f1.stage EXCEPT ![s] = "running"]]
      OBVIOUS
    <3> QED
      BY <3>1, <3>2
  <2> HIDE DEF f2, h
  <2>3. [f1 EXCEPT !.stage = h] =
          [made |-> j, stage |-> h, source |-> f.source, target |-> f.target, cutoff |-> f.cutoff,
           passed |-> f.passed]
    BY <2>1
  <2> QED
    BY <2>2, <2>3, <2>4 DEF h
<1>6. g \in RunFiles(r)
  BY <1>1, <1>3, FileFields, FileOfFields
<1>7. g.stage = h /\ g.source = f.source /\ g.target = f.target /\ g.cutoff = f.cutoff /\ g.passed = f.passed
  OBVIOUS
<1> HIDE DEF f2, g, h
<1> QED
  BY <1>4, <1>5, <1>6, <1>7 DEF f1, f2, Running

LEMMA SavedIs ==
  ASSUME NEW r \in Runs, file[r] \in RunFiles(r), proc[r] \in Processes, proc[r].stage \in NamesOf(r),
         NEW status \in Statuses
  PROVE  LET saved == Saved(r, status)
         IN /\ saved \in RunFiles(r) /\ saved.stage[proc[r].stage] = status
            /\ \A o \in NamesOf(r) \ {proc[r].stage} : saved.stage[o] = file[r].stage[o]
            /\ saved.source = SourceOf(r) /\ saved.cutoff = file[r].cutoff
            /\ saved.target = IF proc[r].source = 0 THEN file[r].target ELSE proc[r].source + 1
<1> DEFINE s == proc[r].stage
           n == proc[r].source
           f == file[r]
           h == [f.stage EXCEPT ![s] = status]
           src == IF n = 0 THEN f.source ELSE n
           tgt == IF n = 0 THEN f.target ELSE n + 1
<1>1. /\ f = [made |-> f.made, stage |-> f.stage, source |-> f.source, target |-> f.target,
              cutoff |-> f.cutoff, passed |-> f.passed]
      /\ f.stage \in [NamesOf(r) -> Statuses] /\ f.made \in BOOLEAN /\ f.cutoff \in BOOLEAN
      /\ f.passed \in BOOLEAN /\ f.source \in Nat /\ f.target \in Nat
  BY FileFields
<1>2. n \in Nat /\ s \in NamesOf(r)
  BY DEF Processes
<1>3. Saved(r, status) = [f EXCEPT !.stage[s] = status, !.source = src, !.target = tgt]
  BY DEF Saved
<1>4. src = SourceOf(r)
  BY DEF SourceOf
<1> HIDE DEF f, s, n
<1>5. /\ h \in [NamesOf(r) -> Statuses] /\ h[s] = status
      /\ \A o \in NamesOf(r) \ {s} : h[o] = f.stage[o]
      /\ src \in Nat /\ tgt \in Nat
  BY <1>1, <1>2
<1>6. [f EXCEPT !.stage[s] = status, !.source = src, !.target = tgt] =
        [made |-> f.made, stage |-> h, source |-> src, target |-> tgt, cutoff |-> f.cutoff,
         passed |-> f.passed]
  <2> DEFINE f1 == [f EXCEPT !.stage[s] = status]
             f2 == [f1 EXCEPT !.source = src]
             f3 == [f2 EXCEPT !.target = tgt]
  <2>1. f1 = [made |-> f.made, stage |-> h, source |-> f.source, target |-> f.target,
              cutoff |-> f.cutoff, passed |-> f.passed]
    BY <1>1
  <2>2. [f EXCEPT !.stage[s] = status, !.source = src, !.target = tgt] = f3
    OBVIOUS
  <2> HIDE DEF f1, h, src, tgt
  <2>3. f2 = [made |-> f.made, stage |-> h, source |-> src, target |-> f.target,
              cutoff |-> f.cutoff, passed |-> f.passed]
    BY <2>1
  <2> HIDE DEF f2
  <2>4. f3 = [made |-> f.made, stage |-> h, source |-> src, target |-> tgt,
              cutoff |-> f.cutoff, passed |-> f.passed]
    BY <2>3
  <2> QED
    BY <2>2, <2>4 DEF h
<1> DEFINE g == [made |-> f.made, stage |-> h, source |-> src, target |-> tgt, cutoff |-> f.cutoff,
                 passed |-> f.passed]
<1>7. g \in RunFiles(r)
  BY <1>1, <1>5, FileOfFields
<1>8. g.stage = h /\ g.source = src /\ g.target = tgt /\ g.cutoff = f.cutoff
  OBVIOUS
<1>9. Saved(r, status) = g
  BY <1>3, <1>6
<1>10. tgt = IF proc[r].source = 0 THEN file[r].target ELSE proc[r].source + 1
  BY DEF f, n
<1> HIDE DEF g, h, src, tgt
<1> QED
  BY <1>4, <1>5, <1>7, <1>8, <1>9, <1>10 DEF f, s

LEMMA NoProcIs ==
  NoProc \in Processes /\ NoProc.at = "none" /\ NoProc.stage = "none" /\ NoProc.source = 0
BY DEF NoProc, Processes, StageNames, StepNames

LEMMA StartedIs ==
  ASSUME NEW s \in StageNames, NEW a \in StepNames
  PROVE  LET p == [NoProc EXCEPT !.stage = s, !.at = a]
         IN  p \in Processes /\ p.stage = s /\ p.at = a /\ p.source = 0
<1> DEFINE o == [NoProc EXCEPT !.stage = s]
<1>1. o = [stage |-> s, at |-> "none", source |-> 0]
  BY DEF NoProc
<1>2. [NoProc EXCEPT !.stage = s, !.at = a] = [o EXCEPT !.at = a]
  OBVIOUS
<1> HIDE DEF o
<1>3. [o EXCEPT !.at = a] = [stage |-> s, at |-> a, source |-> 0]
  BY <1>1
<1>4. [stage |-> s, at |-> a, source |-> 0] \in Processes
  BY DEF Processes
<1> QED
  BY <1>2, <1>3, <1>4

LEMMA MovedIs ==
  ASSUME NEW p \in Processes, NEW a \in StepNames
  PROVE  /\ [p EXCEPT !.at = a] \in Processes /\ [p EXCEPT !.at = a].at = a
         /\ [p EXCEPT !.at = a].stage = p.stage /\ [p EXCEPT !.at = a].source = p.source
BY DEF Processes

LEMMA GoesOn ==
  ASSUME RehearsalTypeInv, NEW q \in Runs, NEW step \in StepNames, GoesTo(q, step)
  PROVE  /\ file' = file /\ toolLock' = toolLock
         /\ proc' \in [Runs -> Processes]
         /\ \A r \in Runs \ {q} : proc'[r] = proc[r]
         /\ proc'[q].at = step /\ proc'[q].stage = proc[q].stage /\ proc'[q].source = proc[q].source
<1>1. /\ file' = file /\ toolLock' = toolLock
      /\ proc' = [proc EXCEPT ![q] = [proc[q] EXCEPT !.at = step]] /\ proc[q] \in Processes
      /\ proc \in [Runs -> Processes]
  BY DEF GoesTo, RehearsalTypeInv
<1>2. /\ [proc[q] EXCEPT !.at = step] \in Processes /\ [proc[q] EXCEPT !.at = step].at = step
      /\ [proc[q] EXCEPT !.at = step].stage = proc[q].stage
      /\ [proc[q] EXCEPT !.at = step].source = proc[q].source
  BY <1>1, MovedIs
<1> QED
  BY <1>1, <1>2

LEMMA DrillIsRunning ==
  ASSUME RehearsalTypeInv, NEW q \in Drills, DrillIsSound(q), proc[q].at \notin {"none", "report"}
  PROVE  /\ proc[q].stage \in NamesOf(q) /\ ~StagePassed(q, proc[q].stage)
         /\ report[q] # "passed" /\ toolLock["m5"] \in BOOLEAN
<1>1. proc[q].stage \in NamesOf(q)
  BY DrillNamesAre DEF DrillIsSound, DrillIsAt
<1>2. ~StagePassed(q, proc[q].stage)
  BY DEF DrillIsSound, StagePassed
<1> QED
  BY <1>1, <1>2 DEF DrillIsSound, AllPassed, StagePassed, RehearsalTypeInv

LEMMA DrillPasses ==
  ASSUME RehearsalTypeInv, NEW q \in Drills, DrillIsSound(q), proc[q].at \notin {"none", "report"},
         proc[q].source = 0, Passes(q)
  PROVE  /\ DOMAIN file' = Runs /\ file'[q] \in RunFiles(q) /\ proc' \in [Runs -> Processes]
         /\ \A r \in Runs \ {q} : file'[r] = file[r] /\ proc'[r] = proc[r]
         /\ toolLock' \in [{"m5", "m6"} -> BOOLEAN] /\ toolLock'["m6"] = toolLock["m6"]
         /\ file'[q].stage[proc[q].stage] = "passed"
         /\ \A s \in NamesOf(q) \ {proc[q].stage} : file'[q].stage[s] = file[q].stage[s]
         /\ file'[q].source = file[q].source /\ file'[q].target = file[q].target
         /\ file'[q].cutoff = file[q].cutoff /\ proc'[q].source = 0
         /\ IF proc[q].stage = "rollback"
            THEN proc'[q].stage = "rollback" /\ proc'[q].at = "report" /\ toolLock'["m5"]
            ELSE proc'[q].stage = "none" /\ proc'[q].at = "none" /\ ~toolLock'["m5"]
<1>1. q \in Runs /\ q \notin Releases /\ Tool(q) = "m5" /\ proc[q].stage \in NamesOf(q)
  BY DrillNamesAre, DrillIsRunning
<1>2. file[q] \in RunFiles(q) /\ proc[q] \in Processes /\ "passed" \in Statuses /\ "report" \in StepNames
  <2>1. file[q] \in RunFiles(q) /\ proc[q] \in Processes
    BY <1>1 DEF RehearsalTypeInv
  <2> QED
    BY <2>1 DEF Statuses, StepNames
<1> DEFINE saved == Saved(q, "passed")
<1>3. /\ saved \in RunFiles(q) /\ saved.stage[proc[q].stage] = "passed"
      /\ \A o \in NamesOf(q) \ {proc[q].stage} : saved.stage[o] = file[q].stage[o]
      /\ saved.source = SourceOf(q) /\ saved.cutoff = file[q].cutoff /\ saved.target = file[q].target
  BY <1>1, <1>2, SavedIs
<1> HIDE DEF saved
<1>4. file' = [file EXCEPT ![q] = saved] /\ DOMAIN file = Runs
  BY DEF Passes, saved, RehearsalTypeInv
<1>5. Epilogue(q, proc[q].stage) = IF proc[q].stage = "rollback" THEN "report" ELSE "none"
  BY <1>1 DEF Epilogue
<1>6. /\ toolLock' = [toolLock EXCEPT !["m5"] = (proc[q].stage = "rollback")]
      /\ proc' = [proc EXCEPT ![q] = IF proc[q].stage = "rollback"
                                    THEN [proc[q] EXCEPT !.at = "report"] ELSE NoProc]
  BY <1>1, <1>5 DEF Passes
<1>7. /\ [proc[q] EXCEPT !.at = "report"] \in Processes /\ NoProc \in Processes
      /\ [proc[q] EXCEPT !.at = "report"].at = "report"
      /\ [proc[q] EXCEPT !.at = "report"].stage = proc[q].stage
      /\ [proc[q] EXCEPT !.at = "report"].source = proc[q].source
      /\ NoProc.at = "none" /\ NoProc.stage = "none" /\ NoProc.source = 0
  BY <1>2, MovedIs, NoProcIs
<1>8. proc \in [Runs -> Processes] /\ toolLock \in [{"m5", "m6"} -> BOOLEAN]
  BY DEF RehearsalTypeInv
<1>9. /\ proc' \in [Runs -> Processes] /\ proc'[q].source = 0
      /\ \A r \in Runs \ {q} : proc'[r] = proc[r]
      /\ IF proc[q].stage = "rollback" THEN proc'[q].stage = "rollback" /\ proc'[q].at = "report"
                                       ELSE proc'[q].stage = "none" /\ proc'[q].at = "none"
  BY <1>1, <1>6, <1>7, <1>8
<1>10. /\ toolLock' \in [{"m5", "m6"} -> BOOLEAN] /\ toolLock'["m6"] = toolLock["m6"]
       /\ toolLock'["m5"] <=> proc[q].stage = "rollback"
  BY <1>6, <1>8
<1>11. DOMAIN file' = Runs /\ file'[q] = saved /\ \A r \in Runs \ {q} : file'[r] = file[r]
  BY <1>1, <1>4
<1>12. SourceOf(q) = file[q].source
  BY DEF SourceOf
<1> QED
  BY <1>3, <1>9, <1>10, <1>11, <1>12

-----------------------------------------------------------------------------
(* What the steps of one drill leave to the others *)

\* A step is taken under the lock, or takes it.
UnderLock(q) ==
  /\ proc[q].at # "none" \/ ~toolLock["m5"]
  /\ proc'[q].at # "none" => toolLock'["m5"]
\* A source is made in one step, and forgotten only by a process that was killed.
KeepsSource(q) == SourceOf(q)' \in {0, SourceOf(q)}
MadeStays == \A g \in Generations : collection[g].made => collection'[g].made
\* A target is settled when the run leaves its seeding.
SettlesTarget(q) ==
  file'[q].target = file[q].target
    \/ (proc[q].at \in {"vectors", "cutoff"} /\ file'[q].target = proc[q].source + 1)
KeepsResults(q) ==
  /\ file'[q].stage["restore"] = "passed" \/ proc'[q].at = "clock"
       => StagePassed(q, "restore") \/ proc[q].at = "clock"
  /\ file'[q].stage["validate"] = "passed" => StagePassed(q, "validate")
  /\ file'[q].stage["rollback"] = "passed" => StagePassed(q, "rollback")
Quiet(q) ==
  /\ OthersKeep(q) /\ UnderLock(q) /\ KeepsSource(q) /\ SettlesTarget(q) /\ KeepsResults(q)
  /\ collection' = collection /\ alias' = alias /\ vectors' = vectors
  /\ proc'[q].at \notin {"vectors", "cutoff", "answers"}
KeptQuietly(q) == RehearsalTypeInv' /\ DrillIsSound(q)' /\ Quiet(q)

LEMMA OthersStaySound ==
  ASSUME NEW q \in Drills, OthersKeep(q), NEW r \in Drills, r # q, DrillIsSound(r)
  PROVE  DrillIsSound(r)'
<1>1. /\ file'[r] = file[r] /\ proc'[r] = proc[r] /\ report'[r] = report[r]
      /\ dump'[r] = dump[r] /\ copy'[r] = copy[r]
      /\ r \in fixtures' <=> r \in fixtures
      /\ r \in vectors' <=> r \in vectors
  BY DEF OthersKeep, Runs
<1>2. Seeding(r)' /\ Copying(r)' /\ (r \in Orderly => InOrder(r)')
  BY <1>1 DEF DrillIsSound, Seeding, Copying, InOrder, StagePassed
<1>3. report[r] = "passed" => AllPassed(r)'
  BY <1>1 DEF DrillIsSound, AllPassed
<1> QED
  BY <1>1, <1>2, <1>3 DEF DrillIsSound, DrillIsAt

LEMMA OneAtATimeStays ==
  ASSUME NEW q \in Drills, OneAtATime, OthersKeep(q), UnderLock(q)
  PROVE  OneAtATime'
<1>1. \A r \in Drills \ {q} : proc'[r] = proc[r] /\ proc'[r].at = "none"
  BY DEF OneAtATime, OthersKeep, UnderLock, Runs
<1> QED
  BY <1>1 DEF OneAtATime, UnderLock

LEMMA OthersSources ==
  ASSUME NEW q \in Drills, OthersKeep(q), NEW r \in Drills \ {q}
  PROVE  /\ SourceOf(r)' = SourceOf(r) /\ file'[r] = file[r] /\ proc'[r] = proc[r]
         /\ r \in vectors' <=> r \in vectors
         /\ \A s : StagePassed(r, s)' <=> StagePassed(r, s)
         /\ AllPassed(r)' <=> AllPassed(r)
<1>1. file'[r] = file[r] /\ proc'[r] = proc[r] /\ (r \in vectors' <=> r \in vectors)
  BY DEF OthersKeep, Runs
<1> QED
  BY <1>1 DEF SourceOf, StagePassed, AllPassed

LEMMA SourcesStay ==
  ASSUME NEW q \in Drills, SourcesAreTheirOwn, OthersKeep(q), KeepsSource(q), MadeStays
  PROVE  SourcesAreTheirOwn' /\ \A g : Apart(g) /\ g \in Generations => Apart(g)'
<1>1. \A r \in Drills : SourceOf(r)' \in {0, SourceOf(r)}
  BY OthersSources DEF KeepsSource
<1>2. \A r \in Drills : SourceOf(r)' # 0 => SourceOf(r)' = SourceOf(r) /\ SourceOf(r) # 0
  BY <1>1
<1>3. SourcesAreTheirOwn'
  BY <1>2 DEF SourcesAreTheirOwn, MadeStays
<1>4. ASSUME NEW g \in Generations, Apart(g) PROVE Apart(g)'
  BY <1>1, <1>4 DEF Apart, MadeStays, Generations
<1> QED
  BY <1>3, <1>4

LEMMA AllPassedIs ==
  ASSUME NEW r \in Drills
  PROVE  /\ AllPassed(r) <=> \A s \in {"prepare", "backup", "restore", "validate", "cutover", "rollback"} :
                              StagePassed(r, s)
         /\ InOrder(r) /\ StagePassed(r, "rollback") => AllPassed(r)
<1>1. AllPassed(r) <=> \A s \in {"prepare", "backup", "restore", "validate", "cutover", "rollback"} :
                         StagePassed(r, s)
  BY DrillNamesAre DEF AllPassed, StagePassed
<1> QED
  BY <1>1 DEF InOrder

\* Where a restored target lies, and that nothing moves it.
LEMMA RestoredTarget ==
  ASSUME NEW r \in Drills, RehearsalTypeInv, DrillIsSound(r), SourcesAreTheirOwn,
         StagePassed(r, "restore") \/ StagePassed(r, "validate") \/ dump[r].listed
           \/ (proc[r].stage = "restore" /\ proc[r].at # "manifest")
  PROVE  /\ file[r].cutoff /\ proc[r].at \notin {"rows", "generation", "vectors", "cutoff"}
         /\ SourceOf(r) = file[r].source /\ file[r].source # 0
         /\ file[r].target = SourceOf(r) + 1 /\ file[r].target \in Generations /\ r \in vectors
<1>1. file[r].cutoff /\ file[r].source # 0 /\ r \in vectors /\ StagePassed(r, "prepare")
      /\ file[r].target = file[r].source + 1
  BY DEF DrillIsSound, Copying, Seeding
<1>2. proc[r].at \notin {"rows", "generation", "vectors", "cutoff"}
  BY <1>1 DEF DrillIsSound, DrillIsAt, StagePassed
<1>3. SourceOf(r) = file[r].source
  BY <1>2 DEF DrillIsSound, Seeding, SourceOf
<1> QED
  BY <1>1, <1>2, <1>3 DEF SourcesAreTheirOwn

\* Everything about the stores that the alias is no part of.
PlacesInv == OneAtATime /\ SourcesAreTheirOwn /\ RowsAreTheirOwn /\ TargetsAreApart /\ ReleasesAreApart
KeepsPlaces(q) ==
  /\ RehearsalTypeInv' /\ DrillIsSound(q)'
  /\ OthersKeep(q) /\ UnderLock(q) /\ KeepsSource(q) /\ SettlesTarget(q)
  /\ file'[q].stage["restore"] = "passed" \/ proc'[q].at = "clock"
       => StagePassed(q, "restore") \/ proc[q].at = "clock"
  /\ collection' = collection /\ vectors' = vectors
  /\ proc'[q].at \notin {"vectors", "cutoff"}

LEMMA PlacesStay ==
  ASSUME RehearsalTypeInv, \A r \in Drills : DrillIsSound(r), PlacesInv, NEW q \in Drills, KeepsPlaces(q)
  PROVE  /\ PlacesInv'
         /\ \A r \in Drills : StagePassed(r, "restore") \/ proc[r].at = "clock" \/ StagePassed(r, "validate")
              => file'[r].target = file[r].target /\ file[r].target \in Generations
<1>1. /\ OthersKeep(q) /\ UnderLock(q) /\ KeepsSource(q) /\ SettlesTarget(q)
      /\ collection' = collection /\ vectors' = vectors
      /\ proc'[q].at \notin {"vectors", "cutoff"} /\ MadeStays
  BY DEF KeepsPlaces, MadeStays
<1>2. OneAtATime /\ SourcesAreTheirOwn /\ RowsAreTheirOwn /\ TargetsAreApart /\ ReleasesAreApart
  BY DEF PlacesInv
<1>3. OneAtATime'
  BY <1>1, <1>2, OneAtATimeStays
<1>4. SourcesAreTheirOwn' /\ \A g : Apart(g) /\ g \in Generations => Apart(g)'
  BY <1>1, <1>2, SourcesStay
<1>5. \A r \in Drills \ {q} :
        /\ SourceOf(r)' = SourceOf(r) /\ file'[r] = file[r] /\ proc'[r] = proc[r]
        /\ \A s : StagePassed(r, s)' <=> StagePassed(r, s)
        /\ AllPassed(r)' <=> AllPassed(r)
  BY <1>1, OthersSources
<1>6. RowsAreTheirOwn'
  <2>1. \A g \in Generations : q \in collection[g].rows /\ file'[q].target = g => collection[g].rows = {q}
    <3> SUFFICES ASSUME NEW g \in Generations, q \in collection[g].rows, file'[q].target = g
                 PROVE  collection[g].rows = {q}
      OBVIOUS
    <3>1. CASE file'[q].target = file[q].target
      BY <1>2, <3>1 DEF RowsAreTheirOwn
    <3>2. CASE proc[q].at \in {"vectors", "cutoff"} /\ file'[q].target = proc[q].source + 1
      <4>1. proc[q].at = "vectors" => q \notin vectors
        BY DEF DrillIsSound, Seeding
      <4>2. proc[q].source \in Nat /\ g # proc[q].source
        BY <3>2, DrillNamesAre DEF RehearsalTypeInv, Processes
      <4> QED
        BY <1>2, <3>2, <4>1, <4>2 DEF RowsAreTheirOwn
    <3> QED
      BY <1>1, <3>1, <3>2 DEF SettlesTarget
  <2> QED
    BY <1>1, <1>2, <1>5, <2>1 DEF RowsAreTheirOwn
<1>8. \A r \in Drills :
        StagePassed(r, "restore")' \/ proc'[r].at = "clock" => StagePassed(r, "restore") \/ proc[r].at = "clock"
  BY <1>1, <1>5 DEF KeepsPlaces, StagePassed
<1>9. ASSUME NEW r \in Drills,
             StagePassed(r, "restore") \/ proc[r].at = "clock" \/ StagePassed(r, "validate")
      PROVE  file'[r].target = file[r].target /\ file[r].target \in Generations
  <2>1. proc[r].at = "clock" => proc[r].stage = "restore" /\ proc[r].at # "manifest"
    BY DEF DrillIsSound, DrillIsAt
  <2>2. file[r].target \in Generations /\ proc[r].at \notin {"vectors", "cutoff"}
    BY <1>2, <1>9, <2>1, RestoredTarget
  <2> QED
    BY <1>1, <1>5, <2>2 DEF SettlesTarget
<1>10. TargetsAreApart'
  BY <1>2, <1>4, <1>8, <1>9 DEF TargetsAreApart
<1>11. \A x \in Releases : file'[x] = file[x] /\ proc'[x] = proc[x]
  BY <1>1, DrillNamesAre, ReleaseNamesAre DEF OthersKeep
<1>12. ReleasesAreApart'
  <2>1. \A x \in Releases : ReleaseGeneration[x] \in Generations
    BY RehearsalAssumption DEF Generations
  <2> QED
    BY <1>1, <1>2, <1>4, <1>11, <2>1 DEF ReleasesAreApart, StagePassed, ReleaseIsAt
<1> QED
  BY <1>3, <1>4, <1>6, <1>9, <1>10, <1>12 DEF PlacesInv

LEMMA QuietKeeps ==
  ASSUME RehearsalTypeInv, \A r \in Drills : DrillIsSound(r), StoresInv,
         NEW q \in Drills, KeptQuietly(q)
  PROVE  StoresInv'
<1>1. /\ OthersKeep(q) /\ UnderLock(q) /\ KeepsResults(q)
      /\ collection' = collection /\ alias' = alias
      /\ proc'[q].at \notin {"vectors", "cutoff", "answers"} /\ KeepsPlaces(q)
  BY DEF KeptQuietly, Quiet, KeepsPlaces, KeepsResults
<1>2. ServesTheDrill /\ RolledBack /\ TargetsAreFilled /\ PlacesInv
  BY DEF StoresInv, PlacesInv
<1>3. /\ PlacesInv'
      /\ \A r \in Drills : StagePassed(r, "restore") \/ proc[r].at = "clock" \/ StagePassed(r, "validate")
           => file'[r].target = file[r].target /\ file[r].target \in Generations
  BY <1>1, <1>2, PlacesStay
<1>5. \A r \in Drills \ {q} :
        /\ SourceOf(r)' = SourceOf(r) /\ file'[r] = file[r] /\ proc'[r] = proc[r]
        /\ \A s : StagePassed(r, s)' <=> StagePassed(r, s)
        /\ AllPassed(r)' <=> AllPassed(r)
  BY <1>1, OthersSources
<1>7. ServesTheDrill'
  BY <1>1, <1>2, <1>5 DEF ServesTheDrill
<1>8. \A r \in Drills : StagePassed(r, "validate")' => StagePassed(r, "validate")
  BY <1>1, <1>5 DEF KeepsResults, StagePassed
<1>11. RolledBack'
  <2>1. ASSUME q \in Orderly, AllPassed(q)' PROVE AllPassed(q) /\ StagePassed(q, "restore")
    <3>1. StagePassed(q, "rollback")'
      BY <2>1, DrillNamesAre DEF AllPassed, StagePassed
    <3>2. StagePassed(q, "rollback") /\ InOrder(q)
      BY <1>1, <2>1, <3>1 DEF KeepsResults, StagePassed, DrillIsSound
    <3> QED
      BY <3>2, AllPassedIs
  <2>2. q \in Orderly /\ AllPassed(q)' => alias # file'[q].target
    BY <1>2, <1>3, <2>1 DEF RolledBack
  <2> QED
    BY <1>1, <1>2, <1>5, <2>2 DEF RolledBack
<1>13. TargetsAreFilled'
  BY <1>1, <1>2, <1>3, <1>8 DEF TargetsAreFilled
<1> QED
  BY <1>3, <1>7, <1>11, <1>13 DEF StoresInv, PlacesInv

-----------------------------------------------------------------------------
(* Steps of a drill that leave the stores as they are *)

LEMMA GoingOn ==
  ASSUME RehearsalTypeInv, NEW q \in Drills, DrillIsSound(q),
         toolLock["m5"], proc[q].at \notin {"none", "report", "vectors", "cutoff"},
         NEW step \in StepNames \ {"none", "report", "vectors", "cutoff", "answers", "clock"},
         GoesTo(q, step), DrillIsAt(proc[q])', Copying(q)',
         fixtures \subseteq fixtures', fixtures' \subseteq fixtures \cup {q},
         step = "generation" => proc[q].at = "rows" /\ q \notin fixtures /\ q \in fixtures',
         vectors' = vectors, report' = report, collection' = collection, alias' = alias,
         dump' \in [Drills -> Dumps], copy' \in [Drills -> [mysql : Copies, pg : Copies]],
         \A r \in Drills \ {q} : dump'[r] = dump[r] /\ copy'[r] = copy[r]
  PROVE  KeptQuietly(q)
<1>1. /\ file' = file /\ toolLock' = toolLock /\ proc' \in [Runs -> Processes]
      /\ \A r \in Runs \ {q} : proc'[r] = proc[r] /\ file'[r] = file[r] /\ report'[r] = report[r]
      /\ proc'[q].at = step /\ proc'[q].stage = proc[q].stage /\ proc'[q].source = proc[q].source
  BY GoesOn, DrillNamesAre
<1>2. RehearsalTypeInv'
  BY <1>1 DEF RehearsalTypeInv
<1>3. OthersKeep(q)
  BY <1>1 DEF OthersKeep
<1>4. proc[q].source = 0 /\ proc'[q].source = 0 /\ SourceOf(q)' = SourceOf(q)
  BY <1>1 DEF DrillIsSound, Seeding, SourceOf
<1>5. UnderLock(q)
  BY <1>1 DEF UnderLock
<1>6. Seeding(q)'
  BY <1>1, <1>4 DEF DrillIsSound, Seeding, StagePassed
<1>7. report'[q] # "passed" /\ file'[q].stage[proc'[q].stage] = "running" /\ proc'[q].at = step
  BY <1>1, DrillIsRunning DEF DrillIsSound
<1>8. q \in Orderly => InOrder(q)'
  BY <1>1 DEF DrillIsSound, InOrder, StagePassed
<1>9. DrillIsSound(q)'
  BY <1>6, <1>7, <1>8 DEF DrillIsSound
<1>10. KeepsSource(q)
  BY <1>4 DEF KeepsSource
<1>11. SettlesTarget(q) /\ KeepsResults(q)
  BY <1>1 DEF SettlesTarget, KeepsResults, StagePassed
<1> QED
  BY <1>1, <1>2, <1>3, <1>5, <1>9, <1>10, <1>11 DEF Quiet, KeptQuietly

LEMMA SeedRowsKeeps ==
  ASSUME RehearsalTypeInv, NEW q \in Drills, DrillIsSound(q), toolLock["m5"], SeedRows(q)
  PROVE  KeptQuietly(q)
<1>1. proc[q].at = "rows" /\ "generation" \in StepNames
  BY DEF SeedRows, Reached, StepNames
<1>2. GoesTo(q, "generation") /\ dump' = dump /\ copy' = copy /\ report' = report
  BY DEF SeedRows, runVars
<1>3. file' = file /\ proc'[q].at = "generation" /\ proc'[q].stage = "prepare"
  BY <1>1, <1>2, GoesOn, DrillNamesAre DEF DrillIsSound, DrillIsAt
<1>4. DrillIsAt(proc[q])' /\ Copying(q)'
  BY <1>1, <1>2, <1>3 DEF DrillIsAt, Copying, DrillIsSound, StagePassed
<1> QED
  BY <1>1, <1>2, <1>4, GoingOn DEF SeedRows, RehearsalTypeInv

LEMMA DumpKeeps ==
  ASSUME RehearsalTypeInv, NEW q \in Drills, DrillIsSound(q), toolLock["m5"], Dump(q)
  PROVE  KeptQuietly(q)
<1>1. proc[q].at = "dump" /\ "milvus backup" \in StepNames /\ file[q].cutoff
  BY DEF Dump, Reached, StepNames
<1>2. GoesTo(q, "milvus backup") /\ copy' = copy /\ UNCHANGED storeVars /\ report' = report
  BY DEF Dump
<1> DEFINE d == [dump[q] EXCEPT !.mysql = fixtures, !.vectors = vectors, !.listed = FALSE]
<1>3. dump' = [dump EXCEPT ![q] = d]
  BY DEF Dump
<1>4. d \in Dumps /\ d.vectors = vectors /\ d.mysql = fixtures /\ ~d.listed
  <2>1. dump[q] \in Dumps /\ fixtures \in SUBSET Drills /\ vectors \in SUBSET Drills
    BY DEF RehearsalTypeInv
  <2> QED
    BY <2>1 DEF Dumps
<1>5. proc[q].stage = "backup" /\ ~StagePassed(q, "backup")
  BY <1>1, DrillIsRunning DEF DrillIsSound, DrillIsAt
<1>6. ~dump[q].listed /\ q \in vectors
  BY <1>1, <1>5 DEF DrillIsSound, Copying, Seeding
<1> HIDE DEF d
<1>7. /\ dump' \in [Drills -> Dumps] /\ dump'[q] = d
      /\ \A r \in Drills \ {q} : dump'[r] = dump[r]
  BY <1>3, <1>4 DEF RehearsalTypeInv
<1>8. file' = file /\ proc'[q].at = "milvus backup" /\ proc'[q].stage = "backup"
  BY <1>1, <1>2, <1>5, GoesOn, DrillNamesAre
<1>9. DrillIsAt(proc[q])' /\ Copying(q)'
  BY <1>1, <1>2, <1>4, <1>5, <1>6, <1>7, <1>8 DEF DrillIsAt, Copying, DrillIsSound, StagePassed
<1> QED
  BY <1>1, <1>2, <1>7, <1>9, GoingOn DEF RehearsalTypeInv, storeVars

LEMMA MilvusBackupKeeps ==
  ASSUME RehearsalTypeInv, NEW q \in Drills, DrillIsSound(q), toolLock["m5"], MilvusBackup(q)
  PROVE  KeptQuietly(q)
<1>1. proc[q].at = "milvus backup" /\ "list" \in StepNames
  BY DEF MilvusBackup, Reached, StepNames
<1>2. GoesTo(q, "list") /\ copy' = copy /\ UNCHANGED storeVars /\ report' = report
  BY DEF MilvusBackup
<1>3. /\ dump' \in [Drills -> Dumps] /\ \A r \in Drills \ {q} : dump'[r] = dump[r]
      /\ dump'[q].vectors = dump[q].vectors /\ dump'[q].mysql = dump[q].mysql
      /\ dump'[q].listed = dump[q].listed
  <2> DEFINE d == [dump[q] EXCEPT !.milvus = TRUE]
  <2>1. dump[q] \in Dumps /\ dump \in [Drills -> Dumps] /\ dump' = [dump EXCEPT ![q] = d]
    BY DEF RehearsalTypeInv, MilvusBackup
  <2>2. /\ d \in Dumps /\ d.vectors = dump[q].vectors /\ d.mysql = dump[q].mysql
        /\ d.listed = dump[q].listed
    BY <2>1 DEF Dumps
  <2> HIDE DEF d
  <2> QED
    BY <2>1, <2>2
<1>4. file' = file /\ proc'[q].at = "list" /\ proc'[q].stage = "backup"
  BY <1>1, <1>2, GoesOn, DrillNamesAre DEF DrillIsSound, DrillIsAt
<1>5. DrillIsAt(proc[q])' /\ Copying(q)'
  BY <1>1, <1>2, <1>3, <1>4 DEF DrillIsAt, Copying, DrillIsSound, StagePassed
<1> QED
  BY <1>1, <1>2, <1>3, <1>5, GoingOn DEF RehearsalTypeInv, storeVars

LEMMA VerifyManifestKeeps ==
  ASSUME RehearsalTypeInv, NEW q \in Drills, DrillIsSound(q), toolLock["m5"], VerifyManifest(q)
  PROVE  KeptQuietly(q)
<1> DEFINE step == IF copy[q].mysql.made THEN "postgres" ELSE "mysql"
<1>1. proc[q].at = "manifest" /\ dump[q].listed /\ step \in {"postgres", "mysql"} /\ step \in StepNames
  BY DEF VerifyManifest, Reached, StepNames
<1>2. GoesTo(q, step) /\ dump' = dump /\ copy' = copy /\ UNCHANGED storeVars /\ report' = report
  BY DEF VerifyManifest, runVars
<1>3. file' = file /\ proc'[q].at = step /\ proc'[q].stage = "restore"
  BY <1>1, <1>2, GoesOn, DrillNamesAre DEF DrillIsSound, DrillIsAt
<1>4. step = "mysql" => ~copy[q].mysql.made
  OBVIOUS
<1> HIDE DEF step
<1>5. DrillIsAt(proc[q])' /\ Copying(q)'
  BY <1>1, <1>2, <1>3, <1>4 DEF DrillIsAt, Copying, DrillIsSound, StagePassed
<1> QED
  BY <1>1, <1>2, <1>5, GoingOn DEF RehearsalTypeInv, storeVars

LEMMA MysqlCopied ==
  ASSUME RehearsalTypeInv, NEW q \in Drills, NEW c \in Copies, copy' = [copy EXCEPT ![q].mysql = c]
  PROVE  /\ copy' \in [Drills -> [mysql : Copies, pg : Copies]]
         /\ copy'[q].mysql = c /\ copy'[q].pg = copy[q].pg
         /\ \A r \in Drills \ {q} : copy'[r] = copy[r]
<1> DEFINE both == [copy[q] EXCEPT !.mysql = c]
<1>1. copy \in [Drills -> [mysql : Copies, pg : Copies]] /\ copy' = [copy EXCEPT ![q] = both]
  BY DEF RehearsalTypeInv
<1>2. both \in [mysql : Copies, pg : Copies] /\ both.mysql = c /\ both.pg = copy[q].pg
  BY <1>1
<1> HIDE DEF both
<1> QED
  BY <1>1, <1>2

LEMMA PostgresCopied ==
  ASSUME RehearsalTypeInv, NEW q \in Drills, NEW c \in Copies, copy' = [copy EXCEPT ![q].pg = c]
  PROVE  /\ copy' \in [Drills -> [mysql : Copies, pg : Copies]]
         /\ copy'[q].pg = c /\ copy'[q].mysql = copy[q].mysql
         /\ \A r \in Drills \ {q} : copy'[r] = copy[r]
<1> DEFINE both == [copy[q] EXCEPT !.pg = c]
<1>1. copy \in [Drills -> [mysql : Copies, pg : Copies]] /\ copy' = [copy EXCEPT ![q] = both]
  BY DEF RehearsalTypeInv
<1>2. both \in [mysql : Copies, pg : Copies] /\ both.pg = c /\ both.mysql = copy[q].mysql
  BY <1>1
<1> HIDE DEF both
<1> QED
  BY <1>1, <1>2

LEMMA CopyIs ==
  ASSUME RehearsalTypeInv, NEW q \in Drills
  PROVE  /\ copy[q].mysql \in Copies /\ copy[q].pg \in Copies
         /\ dump[q].mysql \in SUBSET Drills /\ dump[q].vectors \in SUBSET Drills
<1>1. copy \in [Drills -> [mysql : Copies, pg : Copies]] /\ dump[q] \in Dumps
  BY DEF RehearsalTypeInv
<1>2. dump[q].mysql \in SUBSET Drills /\ dump[q].vectors \in SUBSET Drills
  BY <1>1 DEF Dumps
<1> QED
  BY <1>1, <1>2

LEMMA CopiesAre ==
  /\ \A c \in Copies : [c EXCEPT !.made = TRUE] \in Copies /\ [c EXCEPT !.made = TRUE].made
                       /\ [c EXCEPT !.made = TRUE].whole = c.whole /\ [c EXCEPT !.made = TRUE].rows = c.rows
  /\ \A rs \in SUBSET Drills : [whole |-> TRUE, made |-> TRUE, rows |-> rs] \in Copies
BY DEF Copies

LEMMA CreateDatabaseKeeps ==
  ASSUME RehearsalTypeInv, NEW q \in Drills, DrillIsSound(q), toolLock["m5"], CreateDatabase(q)
  PROVE  KeptQuietly(q)
<1>1. proc[q].at = "mysql" /\ "import" \in StepNames
  BY DEF CreateDatabase, Reached, StepNames
<1>2. GoesTo(q, "import") /\ dump' = dump /\ UNCHANGED storeVars /\ report' = report
  BY DEF CreateDatabase
<1> DEFINE c == [copy[q].mysql EXCEPT !.made = TRUE]
<1>3. copy' = [copy EXCEPT ![q].mysql = c]
  BY DEF CreateDatabase
<1>4. c \in Copies /\ c.made /\ c.whole = copy[q].mysql.whole /\ c.rows = copy[q].mysql.rows
  BY CopyIs, CopiesAre
<1> HIDE DEF c
<1>5. /\ copy' \in [Drills -> [mysql : Copies, pg : Copies]] /\ copy'[q].mysql = c /\ copy'[q].pg = copy[q].pg
      /\ \A r \in Drills \ {q} : copy'[r] = copy[r]
  BY <1>3, <1>4, MysqlCopied, PostgresCopied
<1>6. file' = file /\ proc'[q].at = "import" /\ proc'[q].stage = "restore"
  BY <1>1, <1>2, GoesOn, DrillNamesAre DEF DrillIsSound, DrillIsAt
<1>7. DrillIsAt(proc[q])' /\ Copying(q)'
  BY <1>1, <1>2, <1>4, <1>5, <1>6 DEF DrillIsAt, Copying, DrillIsSound, StagePassed
<1> QED
  BY <1>1, <1>2, <1>5, <1>7, GoingOn DEF RehearsalTypeInv, storeVars

LEMMA ImportDumpKeeps ==
  ASSUME RehearsalTypeInv, NEW q \in Drills, DrillIsSound(q), toolLock["m5"], ImportDump(q)
  PROVE  KeptQuietly(q)
<1>1. proc[q].at = "import" /\ "postgres" \in StepNames
  BY DEF ImportDump, Reached, StepNames
<1>2. GoesTo(q, "postgres") /\ dump' = dump /\ UNCHANGED storeVars /\ report' = report
  BY DEF ImportDump
<1> DEFINE c == [whole |-> TRUE, made |-> TRUE, rows |-> dump[q].mysql]
<1>3. copy' = [copy EXCEPT ![q].mysql = c]
  BY DEF ImportDump
<1>4. c \in Copies /\ c.made /\ c.whole /\ c.rows = dump[q].mysql
  BY CopyIs, CopiesAre
<1> HIDE DEF c
<1>5. /\ copy' \in [Drills -> [mysql : Copies, pg : Copies]] /\ copy'[q].mysql = c /\ copy'[q].pg = copy[q].pg
      /\ \A r \in Drills \ {q} : copy'[r] = copy[r]
  BY <1>3, <1>4, MysqlCopied, PostgresCopied
<1>6. file' = file /\ proc'[q].at = "postgres" /\ proc'[q].stage = "restore" /\ proc[q].stage = "restore"
  BY <1>1, <1>2, GoesOn, DrillNamesAre DEF DrillIsSound, DrillIsAt
<1>7. DrillIsAt(proc[q])' /\ Copying(q)'
  BY <1>1, <1>2, <1>4, <1>5, <1>6 DEF DrillIsAt, Copying, DrillIsSound, StagePassed
<1> QED
  BY <1>1, <1>2, <1>5, <1>7, GoingOn DEF RehearsalTypeInv, storeVars

LEMMA SkipPostgresKeeps ==
  ASSUME RehearsalTypeInv, NEW q \in Drills, DrillIsSound(q), toolLock["m5"], SkipPostgres(q)
  PROVE  KeptQuietly(q)
<1>1. proc[q].at = "postgres" /\ "milvus" \in StepNames
  BY DEF SkipPostgres, Reached, StepNames
<1>2. GoesTo(q, "milvus") /\ dump' = dump /\ copy' = copy /\ UNCHANGED storeVars /\ report' = report
  BY DEF SkipPostgres, runVars
<1>3. file' = file /\ proc'[q].at = "milvus" /\ proc'[q].stage = "restore" /\ proc[q].stage = "restore"
  BY <1>1, <1>2, GoesOn, DrillNamesAre DEF DrillIsSound, DrillIsAt
<1>4. DrillIsAt(proc[q])' /\ Copying(q)'
  BY <1>1, <1>2, <1>3 DEF DrillIsAt, Copying, DrillIsSound, StagePassed
<1> QED
  BY <1>1, <1>2, <1>4, GoingOn DEF RehearsalTypeInv, storeVars

LEMMA CreatePostgresKeeps ==
  ASSUME RehearsalTypeInv, NEW q \in Drills, DrillIsSound(q), toolLock["m5"], CreatePostgres(q)
  PROVE  KeptQuietly(q)
<1>1. proc[q].at = "postgres" /\ "pg_restore" \in StepNames /\ ~copy[q].pg.made
  BY DEF CreatePostgres, Reached, StepNames
<1>2. GoesTo(q, "pg_restore") /\ dump' = dump /\ UNCHANGED storeVars /\ report' = report
  BY DEF CreatePostgres
<1> DEFINE c == [copy[q].pg EXCEPT !.made = TRUE]
<1>3. copy' = [copy EXCEPT ![q].pg = c]
  BY DEF CreatePostgres
<1>4. c \in Copies /\ c.made /\ c.whole = copy[q].pg.whole /\ c.rows = copy[q].pg.rows
  BY CopyIs, CopiesAre
<1> HIDE DEF c
<1>5. /\ copy' \in [Drills -> [mysql : Copies, pg : Copies]] /\ copy'[q].mysql = copy[q].mysql /\ copy'[q].pg = c
      /\ \A r \in Drills \ {q} : copy'[r] = copy[r]
  BY <1>3, <1>4, MysqlCopied, PostgresCopied
<1>6. file' = file /\ proc'[q].at = "pg_restore" /\ proc'[q].stage = "restore" /\ proc[q].stage = "restore"
  BY <1>1, <1>2, GoesOn, DrillNamesAre DEF DrillIsSound, DrillIsAt
<1>7. DrillIsAt(proc[q])' /\ Copying(q)'
  BY <1>1, <1>2, <1>4, <1>5, <1>6 DEF DrillIsAt, Copying, DrillIsSound, StagePassed
<1> QED
  BY <1>1, <1>2, <1>5, <1>7, GoingOn DEF RehearsalTypeInv, storeVars

LEMMA RestorePostgresKeeps ==
  ASSUME RehearsalTypeInv, NEW q \in Drills, DrillIsSound(q), toolLock["m5"], RestorePostgres(q)
  PROVE  KeptQuietly(q)
<1>1. proc[q].at = "pg_restore" /\ "milvus" \in StepNames
  BY DEF RestorePostgres, Reached, StepNames
<1>2. GoesTo(q, "milvus") /\ dump' = dump /\ UNCHANGED storeVars /\ report' = report
  BY DEF RestorePostgres
<1> DEFINE c == [whole |-> TRUE, made |-> TRUE, rows |-> dump[q].vectors]
<1>3. copy' = [copy EXCEPT ![q].pg = c]
  BY DEF RestorePostgres
<1>4. c \in Copies /\ c.made /\ c.whole /\ c.rows = dump[q].vectors
  BY CopyIs, CopiesAre
<1> HIDE DEF c
<1>5. /\ copy' \in [Drills -> [mysql : Copies, pg : Copies]] /\ copy'[q].mysql = copy[q].mysql /\ copy'[q].pg = c
      /\ \A r \in Drills \ {q} : copy'[r] = copy[r]
  BY <1>3, <1>4, MysqlCopied, PostgresCopied
<1>6. file' = file /\ proc'[q].at = "milvus" /\ proc'[q].stage = "restore" /\ proc[q].stage = "restore"
  BY <1>1, <1>2, GoesOn, DrillNamesAre DEF DrillIsSound, DrillIsAt
<1>7. DrillIsAt(proc[q])' /\ Copying(q)'
  BY <1>1, <1>2, <1>4, <1>5, <1>6 DEF DrillIsAt, Copying, DrillIsSound, StagePassed
<1> QED
  BY <1>1, <1>2, <1>5, <1>7, GoingOn DEF RehearsalTypeInv, storeVars

LEMMA CompareKeeps ==
  ASSUME RehearsalTypeInv, NEW q \in Drills, DrillIsSound(q), toolLock["m5"], Compare(q)
  PROVE  KeptQuietly(q)
<1>1. /\ proc[q].at = "compare" /\ "activate" \in StepNames
      /\ copy[q].mysql.whole /\ copy[q].pg.whole
  BY DEF Compare, Reached, StepNames, Matches
<1>2. GoesTo(q, "activate") /\ dump' = dump /\ copy' = copy /\ UNCHANGED storeVars /\ report' = report
  BY DEF Compare, runVars
<1>3. file' = file /\ proc'[q].at = "activate" /\ proc'[q].stage = "validate"
  BY <1>1, <1>2, GoesOn, DrillNamesAre DEF DrillIsSound, DrillIsAt
<1>4. DrillIsAt(proc[q])' /\ Copying(q)'
  BY <1>1, <1>2, <1>3 DEF DrillIsAt, Copying, DrillIsSound, StagePassed
<1> QED
  BY <1>1, <1>2, <1>4, GoingOn DEF RehearsalTypeInv, storeVars

-----------------------------------------------------------------------------
(* Steps of a drill that end a stage, and those that end a process *)

PassedOn(q) ==
  /\ RehearsalTypeInv' /\ DrillIsSound(q)' /\ OthersKeep(q) /\ UnderLock(q) /\ KeepsSource(q)
  /\ SettlesTarget(q) /\ file'[q].target = file[q].target /\ SourceOf(q)' = SourceOf(q)
  /\ proc'[q].at \in {"none", "report"}
  /\ \A s \in NamesOf(q) \ {proc[q].stage} : file'[q].stage[s] = file[q].stage[s]

LEMMA PassingOn ==
  ASSUME RehearsalTypeInv, NEW q \in Drills, DrillIsSound(q),
         toolLock["m5"], proc[q].at \notin {"none", "report", "vectors", "cutoff"}, Passes(q),
         fixtures' = fixtures, vectors' = vectors, report' = report, collection' = collection, copy' = copy,
         dump' \in [Drills -> Dumps], \A r \in Drills \ {q} : dump'[r] = dump[r],
         dump'[q] = dump[q]
           \/ (/\ proc[q].at = "list" /\ dump'[q].listed
               /\ dump'[q].mysql = dump[q].mysql /\ dump'[q].vectors = dump[q].vectors),
         proc[q].stage \in {"prepare", "backup", "cutover", "rollback"}
           \/ proc[q].at = "clock" \/ proc[q].at = "answers"
  PROVE  PassedOn(q)
<1>1. proc[q].source = 0 /\ q \in Runs /\ proc[q].stage \in NamesOf(q)
  BY DrillNamesAre, DrillIsRunning DEF DrillIsSound, Seeding
<1>2. /\ DOMAIN file' = Runs /\ file'[q] \in RunFiles(q) /\ proc' \in [Runs -> Processes]
      /\ \A r \in Runs \ {q} : file'[r] = file[r] /\ proc'[r] = proc[r]
      /\ toolLock' \in [{"m5", "m6"} -> BOOLEAN]
      /\ file'[q].stage[proc[q].stage] = "passed"
      /\ \A s \in NamesOf(q) \ {proc[q].stage} : file'[q].stage[s] = file[q].stage[s]
      /\ file'[q].source = file[q].source /\ file'[q].target = file[q].target
      /\ file'[q].cutoff = file[q].cutoff /\ proc'[q].source = 0
      /\ IF proc[q].stage = "rollback"
         THEN proc'[q].stage = "rollback" /\ proc'[q].at = "report" /\ toolLock'["m5"]
         ELSE proc'[q].stage = "none" /\ proc'[q].at = "none" /\ ~toolLock'["m5"]
  BY <1>1, DrillPasses
<1>3. RehearsalTypeInv'
  BY <1>2 DEF RehearsalTypeInv
<1>4. OthersKeep(q)
  BY <1>2 DEF OthersKeep
<1>5. SourceOf(q)' = SourceOf(q)
  BY <1>1, <1>2 DEF SourceOf
<1>6. NamesOf(q) = {"prepare", "backup", "restore", "validate", "cutover", "rollback"}
  BY DrillNamesAre
<1>7. \A s \in NamesOf(q) : file'[q].stage[s] = "passed" <=> StagePassed(q, s) \/ s = proc[q].stage
  BY <1>2 DEF StagePassed
<1>8. DrillIsAt(proc[q])' /\ (proc'[q].at # "none" => proc'[q].at = "report")
  BY <1>2 DEF DrillIsAt
<1>9. Seeding(q)'
  BY <1>1, <1>2, <1>6, <1>7 DEF DrillIsSound, Seeding, StagePassed
<1>10. Copying(q)'
  <2>1. DrillIsAt(proc[q]) /\ Copying(q)
    BY DEF DrillIsSound
  <2>2. /\ proc'[q].at \in {"none", "report"}
        /\ proc'[q].stage \in {"none", "rollback"} /\ file'[q].cutoff = file[q].cutoff
    BY <1>2
  <2>3. CASE proc[q].at = "list"
    <3>1. proc[q].stage = "backup" /\ ~dump[q].listed
      BY <2>1, <2>3 DEF DrillIsAt, Copying
    <3>2. ~copy[q].mysql.whole /\ ~copy[q].pg.whole /\ ~StagePassed(q, "validate") /\ ~StagePassed(q, "restore")
      BY <2>1, <3>1 DEF Copying
    <3>3. dump'[q].listed => file[q].cutoff /\ q \in dump'[q].vectors
      BY <2>1, <2>3 DEF Copying
    <3> QED
      BY <1>6, <1>7, <2>2, <3>1, <3>2, <3>3 DEF Copying, StagePassed
  <2>4. CASE proc[q].at # "list"
    <3>1. dump'[q] = dump[q]
      BY <2>4
    <3>2. proc[q].stage = "restore" => dump[q].listed
      BY <2>1 DEF Copying, DrillIsAt
    <3>3. proc[q].stage = "validate" => copy[q].mysql.whole /\ copy[q].pg.whole
      BY <2>1 DEF Copying, DrillIsAt
    <3> QED
      BY <1>6, <1>7, <2>1, <2>2, <3>1, <3>2, <3>3 DEF Copying, StagePassed
  <2> QED
    BY <2>3, <2>4
<1>11. q \in Orderly => InOrder(q)'
  BY <1>2, <1>6, <1>7 DEF DrillIsSound, InOrder, StagePassed
<1>12. report'[q] # "passed"
  BY DrillIsRunning
<1>13. DrillIsSound(q)'
  BY <1>8, <1>9, <1>10, <1>11, <1>12 DEF DrillIsSound
<1>14. UnderLock(q) /\ SettlesTarget(q)
  BY <1>2 DEF UnderLock, SettlesTarget
<1>15. KeepsSource(q)
  BY <1>5 DEF KeepsSource
<1> QED
  BY <1>2, <1>3, <1>4, <1>5, <1>13, <1>14, <1>15 DEF PassedOn

LEMMA QuietlyPassed ==
  ASSUME NEW q \in Drills, PassedOn(q), proc[q].stage \notin {"validate", "rollback"},
         proc[q].stage = "restore" => proc[q].at = "clock",
         collection' = collection, alias' = alias, vectors' = vectors
  PROVE  KeptQuietly(q)
<1>1. /\ proc'[q].at \in {"none", "report"}
      /\ \A s \in NamesOf(q) \ {proc[q].stage} : file'[q].stage[s] = file[q].stage[s]
      /\ "restore" \in NamesOf(q) /\ "validate" \in NamesOf(q) /\ "rollback" \in NamesOf(q)
  BY DrillNamesAre DEF PassedOn
<1>2. KeepsResults(q)
  BY <1>1 DEF KeepsResults, StagePassed
<1> QED
  BY <1>1, <1>2 DEF PassedOn, Quiet, KeptQuietly

LEMMA WriteManifestKeeps ==
  ASSUME RehearsalTypeInv, NEW q \in Drills, DrillIsSound(q), toolLock["m5"], WriteManifest(q)
  PROVE  KeptQuietly(q)
<1>1. proc[q].at = "list" /\ proc[q].stage = "backup"
  BY DEF WriteManifest, Reached, DrillIsSound, DrillIsAt
<1>2. Passes(q) /\ UNCHANGED storeVars /\ copy' = copy /\ report' = report
  BY DEF WriteManifest
<1> DEFINE d == [dump[q] EXCEPT !.listed = TRUE]
<1>3. dump[q] \in Dumps /\ dump \in [Drills -> Dumps] /\ dump' = [dump EXCEPT ![q] = d]
  BY DEF RehearsalTypeInv, WriteManifest
<1>4. d \in Dumps /\ d.vectors = dump[q].vectors /\ d.mysql = dump[q].mysql /\ d.listed
  BY <1>3 DEF Dumps
<1> HIDE DEF d
<1>5. /\ dump' \in [Drills -> Dumps] /\ \A r \in Drills \ {q} : dump'[r] = dump[r]
      /\ dump'[q].vectors = dump[q].vectors /\ dump'[q].mysql = dump[q].mysql /\ dump'[q].listed
  BY <1>3, <1>4
<1>6. PassedOn(q)
  BY <1>1, <1>2, <1>5, PassingOn DEF storeVars
<1> QED
  BY <1>1, <1>2, <1>6, QuietlyPassed DEF storeVars

LEMMA WithinLimitKeeps ==
  ASSUME RehearsalTypeInv, NEW q \in Drills, DrillIsSound(q), toolLock["m5"], WithinLimit(q)
  PROVE  KeptQuietly(q)
<1>1. proc[q].at = "clock" /\ proc[q].stage = "restore"
  BY DEF WithinLimit, Reached, DrillIsSound, DrillIsAt
<1>2. Passes(q) /\ UNCHANGED storeVars /\ UNCHANGED runVars
  BY DEF WithinLimit
<1>3. PassedOn(q)
  BY <1>1, <1>2, PassingOn DEF storeVars, runVars, RehearsalTypeInv
<1> QED
  BY <1>1, <1>2, <1>3, QuietlyPassed DEF storeVars

LEMMA ProbeKeeps ==
  ASSUME RehearsalTypeInv, NEW q \in Drills, DrillIsSound(q), toolLock["m5"], Probe(q)
  PROVE  KeptQuietly(q)
<1>1. proc[q].at = "probe" /\ proc[q].stage = "cutover"
  BY DEF Probe, Reached, DrillIsSound, DrillIsAt
<1>2. Passes(q) /\ UNCHANGED storeVars /\ UNCHANGED runVars
  BY DEF Probe
<1>3. PassedOn(q)
  BY <1>1, <1>2, PassingOn DEF storeVars, runVars, RehearsalTypeInv
<1> QED
  BY <1>1, <1>2, <1>3, QuietlyPassed DEF storeVars

\* A process that ended says nothing; what it wrote is what counts.
LEMMA Stopped ==
  ASSUME RehearsalTypeInv, NEW q \in Drills, DrillIsSound(q), proc[q].at # "none", toolLock["m5"],
         proc' = [proc EXCEPT ![q] = NoProc], DOMAIN file' = Runs, file'[q] \in RunFiles(q),
         \A r \in Runs \ {q} : file'[r] = file[r] /\ report'[r] = report[r],
         toolLock' \in [{"m5", "m6"} -> BOOLEAN],
         fixtures' = fixtures, vectors' = vectors, collection' = collection, dump' = dump, copy' = copy,
         report' \in [Runs -> {"none", "passed", "failed"}],
         \A s \in NamesOf(q) \ {proc[q].stage} : file'[q].stage[s] = file[q].stage[s],
         file'[q].stage[proc[q].stage] = "passed"
           => StagePassed(q, proc[q].stage) \/ (proc[q].at = "cutoff" /\ file'[q].cutoff),
         StagePassed(q, proc[q].stage) => file'[q].stage[proc[q].stage] = "passed",
         file'[q].source \in {file[q].source, SourceOf(q)},
         file'[q].target = IF file'[q].source = 0 THEN 0 ELSE file'[q].source + 1,
         file'[q].cutoff = file[q].cutoff
           \/ (proc[q].at = "cutoff" /\ file'[q].stage["prepare"] = "passed" /\ file'[q].source = SourceOf(q)),
         report'[q] = "passed" => AllPassed(q)'
  PROVE  /\ RehearsalTypeInv' /\ DrillIsSound(q)' /\ OthersKeep(q) /\ UnderLock(q) /\ KeepsSource(q)
         /\ SettlesTarget(q) /\ KeepsResults(q) /\ proc'[q].at = "none"
<1>1. q \in Runs /\ NamesOf(q) = {"prepare", "backup", "restore", "validate", "cutover", "rollback"}
  BY DrillNamesAre
<1>2. /\ proc' \in [Runs -> Processes] /\ proc'[q] = NoProc /\ \A r \in Runs \ {q} : proc'[r] = proc[r]
  BY <1>1, NoProcIs DEF RehearsalTypeInv
<1>3. proc'[q].at = "none" /\ proc'[q].stage = "none" /\ proc'[q].source = 0
  BY <1>2, NoProcIs
<1>4. ASSUME NEW r \in Runs PROVE file'[r] \in RunFiles(r)
  BY <1>2 DEF RehearsalTypeInv
<1>5. RehearsalTypeInv'
  BY <1>2, <1>4 DEF RehearsalTypeInv
<1>6. OthersKeep(q) /\ UnderLock(q)
  BY <1>2, <1>3 DEF OthersKeep, UnderLock
<1>7. SourceOf(q)' = file'[q].source /\ (proc[q].source # 0 => file[q].source = 0)
  BY <1>3 DEF SourceOf, DrillIsSound, Seeding
<1>8. KeepsSource(q)
  BY <1>7 DEF KeepsSource, SourceOf
<1>9. proc[q].at = "cutoff" => proc[q].stage = "prepare" /\ q \in vectors /\ SourceOf(q) # 0
  BY <1>1 DEF DrillIsSound, DrillIsAt, Seeding, SourceOf
<1>10. Seeding(q)'
  <2>1. q \notin fixtures => file'[q].source = 0
    BY <1>7 DEF DrillIsSound, Seeding, SourceOf
  <2>2. file'[q].cutoff => file'[q].stage["prepare"] = "passed" /\ q \in vectors /\ file'[q].source # 0
    <3>1. CASE file'[q].cutoff = file[q].cutoff
      <4>1. SUFFICES ASSUME file[q].cutoff
                     PROVE  file'[q].stage["prepare"] = "passed" /\ q \in vectors /\ file'[q].source # 0
        BY <3>1
      <4>2. StagePassed(q, "prepare") /\ q \in vectors /\ file[q].source # 0
        BY <4>1 DEF DrillIsSound, Seeding
      <4>3. file'[q].stage["prepare"] = "passed"
        BY <1>1, <4>2 DEF StagePassed
      <4> QED
        BY <1>7, <4>2, <4>3 DEF SourceOf
    <3> QED
      BY <1>9, <3>1
  <2> QED
    BY <1>3, <2>1, <2>2 DEF DrillIsSound, Seeding, StagePassed
<1>11. /\ \A s \in NamesOf(q) \ {"prepare"} : file'[q].stage[s] = "passed" <=> StagePassed(q, s)
       /\ StagePassed(q, "prepare") => file'[q].stage["prepare"] = "passed"
  <2>1. proc[q].stage \in NamesOf(q)
    BY <1>1 DEF DrillIsSound, DrillIsAt
  <2>2. ASSUME NEW s \in NamesOf(q), s = proc[q].stage
        PROVE  /\ s # "prepare" => (file'[q].stage[s] = "passed" <=> StagePassed(q, s))
               /\ StagePassed(q, s) => file'[q].stage[s] = "passed"
    BY <1>9, <2>2
  <2>3. ASSUME NEW s \in NamesOf(q), s # proc[q].stage
        PROVE  file'[q].stage[s] = "passed" <=> StagePassed(q, s)
    BY <2>3 DEF StagePassed
  <2>4. "prepare" \in NamesOf(q)
    BY <1>1
  <2> QED
    BY <2>2, <2>3, <2>4
<1>12. Copying(q)'
  <2>1. file[q].cutoff => file'[q].cutoff
    BY <1>9, <1>10 DEF DrillIsSound, Seeding, DrillIsAt, StagePassed
  <2> QED
    BY ZenonT(40), <1>1, <1>3, <1>11, <2>1 DEF DrillIsSound, Copying, StagePassed
<1>13. q \in Orderly => InOrder(q)'
  BY <1>1, <1>3, <1>11 DEF DrillIsSound, InOrder, StagePassed
<1>14. DrillIsSound(q)'
  BY <1>3, <1>10, <1>12, <1>13 DEF DrillIsSound, DrillIsAt
<1>15. SettlesTarget(q)
  <2>1. CASE file'[q].source = file[q].source
    BY <2>1 DEF SettlesTarget, DrillIsSound, Seeding
  <2>2. CASE file'[q].source # file[q].source
    <3>1. proc[q].source # 0 /\ file'[q].source = proc[q].source
      BY <2>2 DEF SourceOf
    <3> QED
      BY <3>1 DEF SettlesTarget, DrillIsSound, Seeding
  <2> QED
    BY <2>1, <2>2
<1>16. KeepsResults(q)
  BY <1>1, <1>3, <1>11 DEF KeepsResults
<1> QED
  BY <1>3, <1>5, <1>6, <1>8, <1>14, <1>15, <1>16

LEMMA KillKeeps ==
  ASSUME RehearsalTypeInv, NEW q \in Drills, DrillIsSound(q), toolLock["m5"], Kill(q)
  PROVE  KeptQuietly(q)
<1>1. /\ proc[q].at # "none" /\ proc' = [proc EXCEPT ![q] = NoProc] /\ file' = file
      /\ toolLock' = toolLock /\ UNCHANGED storeVars /\ UNCHANGED runVars /\ q \in Runs
  BY DrillNamesAre DEF Kill
<1>2. report[q] = "passed" => AllPassed(q)'
  BY <1>1 DEF DrillIsSound, AllPassed
<1>3. file[q].target = IF file[q].source = 0 THEN 0 ELSE file[q].source + 1
  BY DEF DrillIsSound, Seeding
<1>4. DOMAIN file = Runs /\ file[q] \in RunFiles(q) /\ toolLock \in [{"m5", "m6"} -> BOOLEAN]
      /\ report \in [Runs -> {"none", "passed", "failed"}]
  BY <1>1 DEF RehearsalTypeInv
<1>5. /\ RehearsalTypeInv' /\ DrillIsSound(q)' /\ OthersKeep(q) /\ UnderLock(q) /\ KeepsSource(q)
      /\ SettlesTarget(q) /\ KeepsResults(q) /\ proc'[q].at = "none"
  BY <1>1, <1>2, <1>3, <1>4, Stopped DEF storeVars, runVars, StagePassed
<1> QED
  BY <1>1, <1>5 DEF KeptQuietly, Quiet, storeVars

LEMMA WriteDrillReportKeeps ==
  ASSUME RehearsalTypeInv, NEW q \in Drills, DrillIsSound(q), toolLock["m5"], WriteDrillReport(q)
  PROVE  KeptQuietly(q)
<1>1. /\ proc[q].at # "none" /\ proc' = [proc EXCEPT ![q] = NoProc] /\ file' = file
      /\ toolLock' = [toolLock EXCEPT !["m5"] = FALSE] /\ UNCHANGED storeVars /\ dump' = dump /\ copy' = copy
      /\ report' = [report EXCEPT ![q] = IF AllPassed(q) THEN "passed" ELSE "failed"] /\ q \in Runs
  BY DrillNamesAre DEF WriteDrillReport, Reached
<1>2. AllPassed(q)' = AllPassed(q)
  BY <1>1 DEF AllPassed
<1>3. file[q].target = IF file[q].source = 0 THEN 0 ELSE file[q].source + 1
  BY DEF DrillIsSound, Seeding
<1>4. /\ DOMAIN file = Runs /\ file[q] \in RunFiles(q) /\ toolLock \in [{"m5", "m6"} -> BOOLEAN]
      /\ report \in [Runs -> {"none", "passed", "failed"}]
  BY <1>1 DEF RehearsalTypeInv
<1>5. /\ report' \in [Runs -> {"none", "passed", "failed"}] /\ toolLock' \in [{"m5", "m6"} -> BOOLEAN]
      /\ report'[q] = "passed" => AllPassed(q)'
      /\ \A r \in Runs \ {q} : report'[r] = report[r]
  BY <1>1, <1>2, <1>4
<1>6. /\ RehearsalTypeInv' /\ DrillIsSound(q)' /\ OthersKeep(q) /\ UnderLock(q) /\ KeepsSource(q)
      /\ SettlesTarget(q) /\ KeepsResults(q) /\ proc'[q].at = "none"
  BY <1>1, <1>3, <1>4, <1>5, Stopped DEF storeVars, StagePassed
<1> QED
  BY <1>1, <1>6 DEF KeptQuietly, Quiet, storeVars

LEMMA SavedByDrill ==
  ASSUME RehearsalTypeInv, NEW q \in Drills, DrillIsSound(q), proc[q].at \notin {"none", "report"},
         NEW status \in Statuses
  PROVE  LET saved == Saved(q, status)
         IN  /\ saved \in RunFiles(q) /\ saved.stage[proc[q].stage] = status
             /\ \A s \in NamesOf(q) \ {proc[q].stage} : saved.stage[s] = file[q].stage[s]
             /\ saved.source = SourceOf(q) /\ saved.cutoff = file[q].cutoff
             /\ saved.target = IF saved.source = 0 THEN 0 ELSE saved.source + 1
<1> DEFINE saved == Saved(q, status)
<1>1. q \in Runs /\ file[q] \in RunFiles(q) /\ proc[q] \in Processes /\ proc[q].stage \in NamesOf(q)
  BY DrillNamesAre, DrillIsRunning DEF RehearsalTypeInv
<1>2. /\ saved \in RunFiles(q) /\ saved.stage[proc[q].stage] = status
      /\ \A o \in NamesOf(q) \ {proc[q].stage} : saved.stage[o] = file[q].stage[o]
      /\ saved.source = SourceOf(q) /\ saved.cutoff = file[q].cutoff
      /\ saved.target = IF proc[q].source = 0 THEN file[q].target ELSE proc[q].source + 1
  BY <1>1, SavedIs
<1> HIDE DEF saved
<1>3. saved.target = IF SourceOf(q) = 0 THEN 0 ELSE SourceOf(q) + 1
  BY <1>2 DEF SourceOf, DrillIsSound, Seeding
<1> QED
  BY <1>2, <1>3 DEF saved

LEMMA CutoffKeeps ==
  ASSUME RehearsalTypeInv, NEW q \in Drills, DrillIsSound(q), toolLock["m5"], Cutoff(q)
  PROVE  KeptQuietly(q)
<1>1. /\ proc[q].at = "cutoff" /\ proc[q].stage = "prepare" /\ proc' = [proc EXCEPT ![q] = NoProc]
      /\ file' = [file EXCEPT ![q] = [Saved(q, "passed") EXCEPT !.cutoff = TRUE]]
      /\ toolLock' = [toolLock EXCEPT !["m5"] = FALSE] /\ UNCHANGED storeVars /\ UNCHANGED runVars
      /\ q \in Runs
  BY DrillNamesAre DEF Cutoff, Reached, DrillIsSound, DrillIsAt
<1>2. /\ DOMAIN file' = Runs /\ file'[q] \in RunFiles(q) /\ \A r \in Runs \ {q} : file'[r] = file[r]
      /\ file'[q].stage["prepare"] = "passed"
      /\ \A s \in NamesOf(q) \ {"prepare"} : file'[q].stage[s] = file[q].stage[s]
      /\ file'[q].source = SourceOf(q) /\ file'[q].cutoff
      /\ file'[q].target = IF file'[q].source = 0 THEN 0 ELSE file'[q].source + 1
  <2> DEFINE saved == Saved(q, "passed")
             g == [saved EXCEPT !.cutoff = TRUE]
  <2>1. "passed" \in Statuses /\ DOMAIN file = Runs
    BY DEF Statuses, RehearsalTypeInv
  <2>2. /\ saved \in RunFiles(q) /\ saved.stage["prepare"] = "passed"
        /\ \A s \in NamesOf(q) \ {"prepare"} : saved.stage[s] = file[q].stage[s]
        /\ saved.source = SourceOf(q)
        /\ saved.target = IF saved.source = 0 THEN 0 ELSE saved.source + 1
    BY <1>1, <2>1, SavedByDrill
  <2>3. file' = [file EXCEPT ![q] = g]
    BY <1>1
  <2> HIDE DEF saved
  <2>4. /\ g \in RunFiles(q) /\ g.stage = saved.stage /\ g.source = saved.source
        /\ g.target = saved.target /\ g.cutoff
    BY <2>2, CutIs
  <2> HIDE DEF g
  <2>5. file'[q] = g /\ DOMAIN file' = Runs /\ \A r \in Runs \ {q} : file'[r] = file[r]
    BY <1>1, <2>1, <2>3
  <2> QED
    BY <2>2, <2>4, <2>5
<1>3. /\ toolLock' \in [{"m5", "m6"} -> BOOLEAN] /\ report \in [Runs -> {"none", "passed", "failed"}]
  BY <1>1 DEF RehearsalTypeInv
<1>4. report[q] # "passed"
  BY <1>1, DrillIsRunning
<1>5. /\ RehearsalTypeInv' /\ DrillIsSound(q)' /\ OthersKeep(q) /\ UnderLock(q) /\ KeepsSource(q)
      /\ SettlesTarget(q) /\ KeepsResults(q) /\ proc'[q].at = "none"
  BY ZenonT(40), <1>1, <1>2, <1>3, <1>4, Stopped DEF storeVars, runVars
<1> QED
  BY <1>1, <1>5 DEF KeptQuietly, Quiet, storeVars

\* An error is written as a failed stage; it can move the alias back to the source.
LEMMA RaiseKeeps ==
  ASSUME RehearsalTypeInv, NEW q \in Drills, DrillIsSound(q), toolLock["m5"], Raise(q)
  PROVE  /\ RehearsalTypeInv' /\ DrillIsSound(q)' /\ OthersKeep(q) /\ UnderLock(q) /\ KeepsSource(q)
         /\ SettlesTarget(q) /\ KeepsResults(q) /\ proc'[q].at = "none"
         /\ collection' = collection /\ vectors' = vectors
         /\ alias' = alias \/ (proc[q].at \in {"activate", "answers"} /\ Activates(file[q].source))
<1>1. /\ proc[q].at # "none" /\ proc' = [proc EXCEPT ![q] = NoProc] /\ q \in Runs /\ Tool(q) = "m5" /\ Held(q)
      /\ UNCHANGED <<fixtures, vectors, pgReleases, collection, runVars, drifted>>
      /\ alias' = alias \/ (proc[q].at \in {"activate", "answers"} /\ Activates(file[q].source))
  BY DrillNamesAre DEF Raise, Held
<1>2. toolLock' = [toolLock EXCEPT !["m5"] = FALSE]
  BY <1>1 DEF Raise
<1>3. /\ DOMAIN file = Runs /\ file[q] \in RunFiles(q) /\ toolLock' \in [{"m5", "m6"} -> BOOLEAN]
      /\ report \in [Runs -> {"none", "passed", "failed"}]
  BY <1>1, <1>2 DEF RehearsalTypeInv
<1>4. CASE proc[q].at = "report"
  <2>1. file' = file
    BY <1>4 DEF Raise, Reached
  <2>2. report[q] = "passed" => AllPassed(q)'
    BY <2>1 DEF DrillIsSound, AllPassed
  <2>3. file[q].target = IF file[q].source = 0 THEN 0 ELSE file[q].source + 1
    BY DEF DrillIsSound, Seeding
  <2>4. /\ RehearsalTypeInv' /\ DrillIsSound(q)' /\ OthersKeep(q) /\ UnderLock(q) /\ KeepsSource(q)
        /\ SettlesTarget(q) /\ KeepsResults(q) /\ proc'[q].at = "none"
    BY <1>1, <1>3, <2>1, <2>2, <2>3, Stopped DEF runVars, StagePassed
  <2> QED
    BY <1>1, <2>4
<1>5. CASE proc[q].at # "report"
  <2>1. file' = [file EXCEPT ![q] = Saved(q, "failed")] /\ "failed" \in Statuses /\ file[q].cutoff \in BOOLEAN
    BY <1>3, <1>5, FileFields DEF Raise, Reached, Statuses
  <2>2. /\ DOMAIN file' = Runs /\ file'[q] \in RunFiles(q) /\ \A r \in Runs \ {q} : file'[r] = file[r]
        /\ file'[q].stage[proc[q].stage] = "failed"
        /\ \A s \in NamesOf(q) \ {proc[q].stage} : file'[q].stage[s] = file[q].stage[s]
        /\ file'[q].source = SourceOf(q) /\ file'[q].cutoff = file[q].cutoff
        /\ file'[q].target = IF file'[q].source = 0 THEN 0 ELSE file'[q].source + 1
    <3> DEFINE saved == Saved(q, "failed")
    <3>1. /\ saved \in RunFiles(q) /\ saved.stage[proc[q].stage] = "failed"
          /\ \A s \in NamesOf(q) \ {proc[q].stage} : saved.stage[s] = file[q].stage[s]
          /\ saved.source = SourceOf(q) /\ saved.cutoff = file[q].cutoff
          /\ saved.target = IF saved.source = 0 THEN 0 ELSE saved.source + 1
      BY <1>1, <1>5, <2>1, SavedByDrill
    <3>2. file' = [file EXCEPT ![q] = saved]
      BY <2>1
    <3> HIDE DEF saved
    <3> QED
      BY <1>1, <1>3, <3>1, <3>2
  <2>3. report[q] # "passed" /\ ~StagePassed(q, proc[q].stage)
    BY <1>1, <1>5, DrillIsRunning
  <2>4. /\ RehearsalTypeInv' /\ DrillIsSound(q)' /\ OthersKeep(q) /\ UnderLock(q) /\ KeepsSource(q)
        /\ SettlesTarget(q) /\ KeepsResults(q) /\ proc'[q].at = "none"
    BY <1>1, <1>3, <2>2, <2>3, Stopped DEF runVars
  <2> QED
    BY <1>1, <2>4
<1> QED
  BY <1>4, <1>5

\* Where a stage begins: with its first step, or with the report if it passed before.
LEMMA DrillBegins ==
  ASSUME NEW q \in Drills, NEW stage \in NamesOf(q)
  PROVE  /\ stage \in StageNames /\ FirstStep(q, stage) \in StepNames
         /\ FirstStep(q, stage) \in {"rows", "dump", "manifest", "compare", "switch", "switch back"}
         /\ \A p : p.stage = stage /\ p.at = FirstStep(q, stage) => DrillIsAt(p)
         /\ FirstStep(q, stage) = "manifest" <=> stage = "restore"
         /\ Epilogue(q, stage) # "none" <=> stage = "rollback"
<1>1. q \notin Releases /\ NamesOf(q) = {"prepare", "backup", "restore", "validate", "cutover", "rollback"}
  BY DrillNamesAre
<1>2. /\ stage = "prepare" => FirstStep(q, stage) = "rows"
      /\ stage = "backup" => FirstStep(q, stage) = "dump"
      /\ stage = "restore" => FirstStep(q, stage) = "manifest"
      /\ stage = "validate" => FirstStep(q, stage) = "compare"
      /\ stage = "cutover" => FirstStep(q, stage) = "switch"
      /\ stage = "rollback" => FirstStep(q, stage) = "switch back"
  BY <1>1 DEF FirstStep
<1>3. Epilogue(q, stage) # "none" <=> stage = "rollback"
  BY <1>1 DEF Epilogue
<1>4. \A p : p.stage = stage /\ p.at = FirstStep(q, stage) => DrillIsAt(p)
  BY <1>1, <1>2 DEF DrillIsAt
<1> QED
  BY <1>1, <1>2, <1>3, <1>4 DEF StageNames, StepNames

LEMMA InvokeKeeps ==
  ASSUME RehearsalTypeInv, NEW q \in Drills, DrillIsSound(q), NEW stage \in NamesOf(q), Invoke(q, stage)
  PROVE  KeptQuietly(q)
<1>1. /\ q \in Runs /\ q \notin Releases /\ Tool(q) = "m5"
      /\ NamesOf(q) = {"prepare", "backup", "restore", "validate", "cutover", "rollback"}
  BY DrillNamesAre
<1>2. /\ proc[q].at = "none" /\ ~toolLock["m5"] /\ toolLock' = [toolLock EXCEPT !["m5"] = TRUE]
      /\ UNCHANGED storeVars /\ UNCHANGED runVars
  BY <1>1 DEF Invoke
<1>3. /\ DOMAIN file = Runs /\ \A r \in Runs : file[r] \in RunFiles(r)
      /\ toolLock' \in [{"m5", "m6"} -> BOOLEAN] /\ toolLock'["m5"] /\ proc \in [Runs -> Processes]
  BY <1>2 DEF RehearsalTypeInv
<1>4. proc[q].source = 0 /\ proc[q].stage = "none" /\ SourceOf(q) = file[q].source
  BY <1>2 DEF DrillIsSound, DrillIsAt, Seeding, SourceOf
<1>5.   /\ DOMAIN file' = Runs /\ file'[q] \in RunFiles(q) /\ proc' \in [Runs -> Processes]
        /\ \A r \in Runs \ {q} : file'[r] = file[r] /\ proc'[r] = proc[r]
        /\ file'[q].source = file[q].source /\ file'[q].target = file[q].target
        /\ file'[q].cutoff = file[q].cutoff /\ proc'[q].source = 0 /\ proc'[q].stage = stage
        /\ DrillIsAt(proc[q])'
        /\ \A s \in NamesOf(q) : file'[q].stage[s] = "passed" <=> StagePassed(q, s)
        /\ \/ stage = "rollback" /\ proc'[q].at = "report" /\ file' = file
           \/ /\ ~StagePassed(q, stage) /\ file'[q].stage[stage] = "running"
              /\ proc'[q].at \in {"rows", "dump", "manifest", "compare", "switch", "switch back"}
              /\ stage = "restore" => proc'[q].at = "manifest"
  <2>1. CASE Skips(q, stage)
    <3>1. stage = "rollback" /\ stage \in StageNames /\ "report" \in StepNames
      BY <1>1, <2>1, DrillBegins DEF Invoke, StepNames
    <3> DEFINE p == [NoProc EXCEPT !.stage = stage, !.at = "report"]
    <3>2. file' = file /\ proc' = [proc EXCEPT ![q] = p]
      BY <2>1 DEF Invoke
    <3>3. p \in Processes /\ p.stage = stage /\ p.at = "report" /\ p.source = 0
      BY <3>1, StartedIs
    <3> HIDE DEF p
    <3>4. proc' \in [Runs -> Processes] /\ proc'[q] = p /\ \A r \in Runs \ {q} : proc'[r] = proc[r]
      BY <1>1, <1>3, <3>2, <3>3
    <3>5. DrillIsAt(proc[q])'
      BY <3>1, <3>3, <3>4 DEF DrillIsAt
    <3> QED
      BY <1>1, <1>3, <3>1, <3>2, <3>3, <3>4, <3>5 DEF StagePassed
  <2>2. CASE ~Skips(q, stage)
    <3> DEFINE a == FirstStep(q, stage)
               p == [NoProc EXCEPT !.stage = stage, !.at = a]
               f2 == Running(file[q], stage)
    <3>1. /\ stage \in StageNames /\ a \in StepNames
          /\ a \in {"rows", "dump", "manifest", "compare", "switch", "switch back"}
          /\ \A o : o.stage = stage /\ o.at = a => DrillIsAt(o)
          /\ stage = "restore" => a = "manifest"
      BY DrillBegins
    <3>2. /\ file' = [file EXCEPT ![q].made = TRUE, ![q].stage[stage] = "running"]
          /\ proc' = [proc EXCEPT ![q] = p]
      BY <2>2 DEF Invoke
    <3>3. file' = [file EXCEPT ![q] = f2]
      BY <1>1, <1>3, <3>2 DEF Running
    <3> HIDE DEF a
    <3>4. p \in Processes /\ p.stage = stage /\ p.at = a /\ p.source = 0
      BY <3>1, StartedIs
    <3> HIDE DEF p
    <3>5. proc' \in [Runs -> Processes] /\ proc'[q] = p /\ \A r \in Runs \ {q} : proc'[r] = proc[r]
      BY <1>1, <1>3, <3>2, <3>4
    <3>6. /\ f2 \in RunFiles(q) /\ f2.source = file[q].source /\ f2.target = file[q].target
          /\ f2.cutoff = file[q].cutoff /\ f2.stage[stage] = "running"
          /\ \A s \in NamesOf(q) \ {stage} : f2.stage[s] = file[q].stage[s]
      BY <1>1, <1>3, RunningIs
    <3> HIDE DEF f2
    <3>7. DOMAIN file' = Runs /\ file'[q] = f2 /\ \A r \in Runs \ {q} : file'[r] = file[r]
      BY <1>1, <1>3, <3>3
    <3>8. ~StagePassed(q, stage)
      BY <2>2 DEF Skips, StagePassed
    <3>9. \A s \in NamesOf(q) : file'[q].stage[s] = "passed" <=> StagePassed(q, s)
      BY <3>6, <3>7, <3>8 DEF StagePassed
    <3>10. DrillIsAt(proc[q])'
      BY <3>1, <3>4, <3>5 DEF DrillIsAt
    <3>11. proc'[q].at = a /\ proc'[q].stage = stage /\ proc'[q].source = 0
      BY <3>4, <3>5
    <3> QED
      BY <3>1, <3>5, <3>6, <3>7, <3>8, <3>9, <3>10, <3>11
  <2> QED
    BY <2>1, <2>2
<1>8. RehearsalTypeInv'
  <2>1. \A r \in Runs : file'[r] \in RunFiles(r)
    BY <1>3, <1>5
  <2> QED
    BY <1>2, <1>3, <1>5, <2>1 DEF RehearsalTypeInv, storeVars, runVars
<1>9. OthersKeep(q) /\ UnderLock(q)
  BY <1>2, <1>3, <1>5 DEF OthersKeep, UnderLock, storeVars, runVars
<1>10. KeepsSource(q) /\ SettlesTarget(q) /\ KeepsResults(q)
  <2>1. SourceOf(q)' = SourceOf(q)
    BY <1>4, <1>5 DEF SourceOf
  <2>2. proc'[q].at # "clock"
    BY <1>5
  <2>3. /\ "restore" \in NamesOf(q) /\ "validate" \in NamesOf(q) /\ "rollback" \in NamesOf(q)
        /\ file'[q].target = file[q].target
    BY <1>1, <1>5
  <2>4. KeepsSource(q)
    BY <2>1 DEF KeepsSource
  <2>5. KeepsResults(q)
    BY <1>5, <2>2, <2>3 DEF KeepsResults
  <2> QED
    BY <2>3, <2>4, <2>5 DEF SettlesTarget
<1>11. Seeding(q)'
  <2>1. fixtures' = fixtures /\ vectors' = vectors /\ "prepare" \in NamesOf(q)
    BY <1>1, <1>2 DEF storeVars
  <2>2. proc'[q].at \notin {"generation", "vectors", "cutoff"} /\ proc'[q].source = 0
    BY <1>5
  <2>3. StagePassed(q, "prepare") => StagePassed(q, "prepare")'
    BY <1>5, <2>1 DEF StagePassed
  <2>4. /\ file'[q].source = file[q].source /\ file'[q].target = file[q].target
        /\ file'[q].cutoff = file[q].cutoff
    BY <1>5
  <2> QED
    BY <2>1, <2>2, <2>3, <2>4 DEF DrillIsSound, Seeding
<1>12. Copying(q)'
  BY <1>1, <1>2, <1>5 DEF DrillIsSound, Copying, StagePassed, runVars
<1>13. q \in Orderly => InOrder(q)'
  <2>1. q \in Orderly => EarlierPassed(q, stage)
    BY DEF Invoke
  <2>2. /\ q \in Orderly /\ stage = "backup" => StagePassed(q, "prepare")
        /\ q \in Orderly /\ stage = "restore" => StagePassed(q, "backup")
        /\ q \in Orderly /\ stage = "validate" => StagePassed(q, "restore")
        /\ q \in Orderly /\ stage = "cutover" => StagePassed(q, "validate")
        /\ q \in Orderly /\ stage = "rollback" => StagePassed(q, "cutover")
    BY <2>1, DrillNamesAre
  <2> QED
    BY <1>1, <1>5, <2>2 DEF DrillIsSound, InOrder, StagePassed
<1>14. report'[q] = "passed" => AllPassed(q)'
  BY <1>2, <1>5 DEF DrillIsSound, AllPassed, StagePassed, runVars
<1>15. DrillIsSound(q)'
  BY <1>5, <1>11, <1>12, <1>13, <1>14 DEF DrillIsSound
<1>16. proc'[q].at \notin {"vectors", "cutoff", "answers"}
  BY <1>5
<1> QED
  BY <1>2, <1>8, <1>9, <1>10, <1>15, <1>16 DEF KeptQuietly, Quiet, storeVars

-----------------------------------------------------------------------------
(* Steps of a drill that move the alias or write to a collection *)

\* What a drill's step may make of the alias: its own target or its own source.
LEMMA AliasMoves ==
  ASSUME RehearsalTypeInv, \A r \in Drills : DrillIsSound(r), StoresInv,
         NEW q \in Drills, KeepsPlaces(q), proc[q].at \notin {"none", "vectors", "cutoff"},
         alias' # 0, alias' \in {file[q].target, file[q].source},
         alias' = file[q].target => ~AllPassed(q)',
         proc'[q].at = "answers" => alias' = file[q].target,
         StagePassed(q, "validate")' => StagePassed(q, "validate") \/ q \in collection[file[q].target].rows
  PROVE  StoresInv'
<1>1. /\ OthersKeep(q) /\ collection' = collection /\ SettlesTarget(q)
      /\ proc'[q].at \notin {"vectors", "cutoff"}
  BY DEF KeepsPlaces
<1>2. /\ OneAtATime /\ SourcesAreTheirOwn /\ RolledBack /\ TargetsAreApart /\ TargetsAreFilled /\ PlacesInv
  BY DEF StoresInv, PlacesInv
<1>3. PlacesInv'
  BY <1>2, PlacesStay
<1>4. file'[q].target = file[q].target
  BY <1>1 DEF SettlesTarget
<1>5. \A r \in Drills \ {q} :
        /\ SourceOf(r)' = SourceOf(r) /\ file'[r] = file[r] /\ proc'[r] = proc[r] /\ proc'[r].at = "none"
        /\ \A s : StagePassed(r, s)' <=> StagePassed(r, s)
        /\ AllPassed(r)' <=> AllPassed(r)
  BY <1>1, <1>2, OthersSources DEF OneAtATime
<1>6. ServesTheDrill'
  BY <1>1, <1>4, <1>5 DEF ServesTheDrill
<1>7. /\ proc[q].source = 0 /\ SourceOf(q) = file[q].source /\ file[q].source \in Nat
      /\ file[q].target = IF file[q].source = 0 THEN 0 ELSE file[q].source + 1
  BY DrillNamesAre, FileFields DEF DrillIsSound, Seeding, SourceOf, RehearsalTypeInv
<1>8. RolledBack'
  <2>1. ASSUME NEW r \in Drills \cap Orderly, r # q, AllPassed(r) PROVE alias' # file[r].target
    <3>1. StagePassed(r, "restore")
      BY <2>1, AllPassedIs
    <3>2. Apart(file[r].target)
      BY <1>2, <3>1 DEF TargetsAreApart
    <3>3. alias' # file[q].source \/ alias' # file[r].target
      BY <1>7, <3>2 DEF Apart
    <3>4. file[r].target = SourceOf(r) + 1 /\ SourceOf(r) # 0 /\ SourceOf(r) \in Generations
      BY <1>2, <3>1, RestoredTarget DEF SourcesAreTheirOwn
    <3>5. alias' # file[q].target \/ alias' # file[r].target
      <4>1. SUFFICES ASSUME alias' = file[q].target, alias' = file[r].target PROVE FALSE
        OBVIOUS
      <4>2. file[q].source # 0 /\ file[q].target = file[q].source + 1
        BY <1>7
      <4>3. SourceOf(r) # SourceOf(q)
        BY <1>2, <2>1, <3>4 DEF SourcesAreTheirOwn
      <4> QED
        BY <1>7, <3>4, <4>1, <4>2, <4>3 DEF Generations
    <3> QED
      BY <3>3, <3>5
  <2>2. AllPassed(q)' => alias' # file'[q].target
    BY <1>4
  <2> QED
    BY <1>5, <2>1, <2>2 DEF RolledBack
<1>9. TargetsAreFilled'
  BY <1>1, <1>2, <1>4, <1>5 DEF TargetsAreFilled
<1> QED
  BY <1>3, <1>6, <1>8, <1>9 DEF StoresInv, PlacesInv

LEMMA ActivateTargetKeeps ==
  ASSUME RehearsalTypeInv, \A r \in Drills : DrillIsSound(r), StoresInv, NEW q \in Drills,
         ActivateTarget(q) \/ Switch(q)
  PROVE  RehearsalTypeInv' /\ DrillIsSound(q)' /\ OthersKeep(q) /\ StoresInv'
<1> DEFINE step == IF proc[q].at = "activate" THEN "answers" ELSE "probe"
<1>1. /\ proc[q].at \in {"activate", "switch"} /\ GoesTo(q, step) /\ step \in StepNames
      /\ step \in {"answers", "probe"} /\ (step = "answers" <=> proc[q].at = "activate")
      /\ alias' # 0 /\ alias' = file[q].target
      /\ UNCHANGED <<fixtures, vectors, pgReleases, collection, runVars, worldVars>>
  BY DEF ActivateTarget, Switch, Reached, Activates, StepNames
<1> HIDE DEF step
<1>2. DrillIsSound(q) /\ proc[q].source = 0 /\ DrillIsAt(proc[q]) /\ toolLock["m5"]
  BY <1>1 DEF DrillIsSound, Seeding, StoresInv, OneAtATime
<1>3. /\ file' = file /\ toolLock' = toolLock /\ proc' \in [Runs -> Processes]
      /\ \A r \in Runs \ {q} : proc'[r] = proc[r]
      /\ proc'[q].at = step /\ proc'[q].stage = proc[q].stage /\ proc'[q].source = proc[q].source
  BY <1>1, GoesOn, DrillNamesAre
<1>4. RehearsalTypeInv'
  BY <1>1, <1>3 DEF RehearsalTypeInv, runVars
<1>5. OthersKeep(q) /\ UnderLock(q)
  BY <1>1, <1>2, <1>3 DEF OthersKeep, UnderLock, runVars
<1>6. DrillIsSound(q)'
  <2>0. /\ (proc[q].stage = "validate" /\ step = "answers") \/ (proc[q].stage = "cutover" /\ step = "probe")
        /\ step = "answers" => copy[q].mysql.whole /\ copy[q].pg.whole
    BY <1>1, <1>2 DEF DrillIsAt, DrillIsSound, Copying
  <2>5. fixtures' = fixtures /\ vectors' = vectors /\ dump' = dump /\ copy' = copy /\ report' = report
    BY <1>1 DEF runVars
  <2>1. DrillIsAt(proc[q])'
    BY <1>3, <2>0 DEF DrillIsAt
  <2>6. q \in Orderly => InOrder(q)'
    BY <1>2, <1>3 DEF DrillIsSound, InOrder, StagePassed
  <2>2. Seeding(q)'
    BY <1>2, <1>3, <2>0, <2>5 DEF DrillIsSound, Seeding, StagePassed
  <2>3. Copying(q)'
    BY <1>2, <1>3, <2>0, <2>5 DEF DrillIsSound, Copying, StagePassed
  <2>4. file'[q].stage[proc'[q].stage] = "running" /\ report'[q] # "passed"
    BY <1>1, <1>2, <1>3, <2>5, DrillIsRunning DEF DrillIsSound
  <2> QED
    BY <2>1, <2>2, <2>3, <2>4, <2>6 DEF DrillIsSound
<1>7. SourceOf(q)' = SourceOf(q)
  BY <1>3 DEF SourceOf
<1>8. KeepsPlaces(q)
  <2>1. KeepsSource(q) /\ SettlesTarget(q)
    BY <1>3, <1>7 DEF KeepsSource, SettlesTarget
  <2>2. file'[q].stage["restore"] = "passed" \/ proc'[q].at = "clock" => StagePassed(q, "restore")
    BY <1>1, <1>3 DEF StagePassed
  <2>3. proc'[q].at \notin {"vectors", "cutoff"}
    BY <1>1, <1>3
  <2> QED
    BY <1>1, <1>4, <1>5, <1>6, <2>1, <2>2, <2>3 DEF KeepsPlaces
<1>9. ~AllPassed(q)'
  <2>1. proc[q].stage \in NamesOf(q) /\ ~StagePassed(q, proc[q].stage)
    BY <1>1, <1>2, DrillIsRunning
  <2> QED
    BY <1>3, <2>1 DEF AllPassed, StagePassed
<1>10. StagePassed(q, "validate")' => StagePassed(q, "validate")
  BY <1>3 DEF StagePassed
<1>11. StoresInv'
  BY <1>1, <1>8, <1>9, <1>10, AliasMoves
<1> QED
  BY <1>4, <1>5, <1>6, <1>11

LEMMA CompareAnswersKeeps ==
  ASSUME RehearsalTypeInv, \A r \in Drills : DrillIsSound(r), StoresInv, NEW q \in Drills,
         CompareAnswers(q) \/ SwitchBack(q)
  PROVE  RehearsalTypeInv' /\ DrillIsSound(q)' /\ OthersKeep(q) /\ StoresInv'
<1>1. /\ proc[q].at \in {"answers", "switch back"} /\ Passes(q)
      /\ alias' # 0 /\ alias' = file[q].source
      /\ proc[q].at = "answers" => (q \in copy[q].pg.rows <=> q \in collection[alias].rows)
      /\ UNCHANGED <<fixtures, vectors, pgReleases, collection, runVars, worldVars>>
  BY DEF CompareAnswers, SwitchBack, Reached, Activates
<1>2. /\ DrillIsSound(q) /\ DrillIsAt(proc[q]) /\ toolLock["m5"]
      /\ proc[q].stage = IF proc[q].at = "answers" THEN "validate" ELSE "rollback"
  BY <1>1 DEF DrillIsSound, DrillIsAt, StoresInv, OneAtATime
<1>3. PassedOn(q)
  BY <1>1, <1>2, PassingOn DEF runVars, RehearsalTypeInv
<1>4. /\ RehearsalTypeInv' /\ DrillIsSound(q)' /\ OthersKeep(q)
      /\ proc'[q].at \in {"none", "report"}
      /\ \A s \in NamesOf(q) \ {proc[q].stage} : file'[q].stage[s] = file[q].stage[s]
      /\ "restore" \in NamesOf(q) /\ "validate" \in NamesOf(q)
  BY <1>3, DrillNamesAre DEF PassedOn
<1>5. KeepsPlaces(q)
  <2>1. file'[q].stage["restore"] = file[q].stage["restore"]
    BY <1>2, <1>4
  <2>2. file'[q].stage["restore"] = "passed" \/ proc'[q].at = "clock"
          => StagePassed(q, "restore") \/ proc[q].at = "clock"
    BY <1>4, <2>1 DEF StagePassed
  <2>3. collection' = collection /\ vectors' = vectors
    BY <1>1
  <2>4. proc'[q].at \notin {"vectors", "cutoff"}
    BY <1>4
  <2> QED
    BY <1>3, <1>4, <2>2, <2>3, <2>4 DEF KeepsPlaces, PassedOn
<1>6. alias' # file[q].target
  <2>1. file[q] \in RunFiles(q)
    BY DrillNamesAre DEF RehearsalTypeInv
  <2>2. file[q].source \in Nat
    BY <2>1, FileFields
  <2>3. file[q].target = IF file[q].source = 0 THEN 0 ELSE file[q].source + 1
    BY <1>2 DEF DrillIsSound, Seeding
  <2>4. alias' = file[q].source /\ file[q].source # 0
    BY <1>1
  <2>5. file[q].source + 1 # file[q].source
    BY <2>2
  <2> QED
    BY <2>3, <2>4, <2>5
<1>7. StagePassed(q, "validate")' => StagePassed(q, "validate") \/ q \in collection[file[q].target].rows
  <2>1. CASE proc[q].at = "answers"
    <3>1. copy[q].pg.whole /\ copy[q].pg.rows = dump[q].vectors /\ dump[q].listed /\ q \in dump[q].vectors
      BY <1>2, <2>1 DEF DrillIsSound, Copying
    <3>2. alias = file[q].target
      BY <2>1 DEF StoresInv, ServesTheDrill
    <3> QED
      BY <1>1, <2>1, <3>1, <3>2
  <2>2. CASE proc[q].at # "answers"
    BY <1>2, <1>4, <2>2 DEF StagePassed
  <2> QED
    BY <2>1, <2>2
<1>8. StoresInv'
  BY <1>1, <1>4, <1>5, <1>6, <1>7, AliasMoves
<1> QED
  BY <1>4, <1>8

LEMMA RaiseKeepsStores ==
  ASSUME RehearsalTypeInv, \A r \in Drills : DrillIsSound(r), StoresInv, NEW q \in Drills, Raise(q)
  PROVE  RehearsalTypeInv' /\ DrillIsSound(q)' /\ OthersKeep(q) /\ StoresInv'
<1>1. DrillIsSound(q) /\ toolLock["m5"]
  BY DEF StoresInv, OneAtATime, Raise
<1>2. /\ RehearsalTypeInv' /\ DrillIsSound(q)' /\ OthersKeep(q) /\ UnderLock(q) /\ KeepsSource(q)
      /\ SettlesTarget(q) /\ KeepsResults(q) /\ proc'[q].at = "none"
      /\ collection' = collection /\ vectors' = vectors
      /\ alias' = alias \/ (proc[q].at \in {"activate", "answers"} /\ Activates(file[q].source))
  BY <1>1, RaiseKeeps
<1>3. CASE alias' = alias
  <2>1. KeptQuietly(q)
    BY <1>2, <1>3 DEF KeptQuietly, Quiet
  <2> QED
    BY <1>2, <2>1, QuietKeeps
<1>4. CASE proc[q].at \in {"activate", "answers"} /\ Activates(file[q].source)
  <2>1. alias' # 0 /\ alias' = file[q].source
    BY <1>4 DEF Activates
  <2>2. KeepsPlaces(q)
    BY <1>2 DEF KeepsPlaces, KeepsResults
  <2>3. alias' # file[q].target
    BY <1>1, <2>1, DrillNamesAre, FileFields DEF DrillIsSound, Seeding, RehearsalTypeInv
  <2>4. StagePassed(q, "validate")' => StagePassed(q, "validate")
    BY <1>2 DEF KeepsResults, StagePassed
  <2> QED
    BY <1>2, <1>4, <2>1, <2>2, <2>3, <2>4, AliasMoves
<1> QED
  BY <1>2, <1>3, <1>4

LEMMA CreateGenerationKeeps ==
  ASSUME RehearsalTypeInv, \A r \in Drills : DrillIsSound(r), StoresInv, NEW q \in Drills, CreateGeneration(q)
  PROVE  RehearsalTypeInv' /\ DrillIsSound(q)' /\ OthersKeep(q) /\ StoresInv'
<1>1. PICK n : n = NextGeneration
  OBVIOUS
<1>2. /\ proc[q].at = "generation" /\ n < MaxGeneration
      /\ collection' = [collection EXCEPT ![n].made = TRUE] /\ alias' = n
      /\ proc' = [proc EXCEPT ![q].at = "vectors", ![q].source = n]
      /\ file' = file /\ toolLock' = toolLock /\ fixtures' = fixtures /\ vectors' = vectors
      /\ dump' = dump /\ copy' = copy /\ report' = report
  BY <1>1 DEF CreateGeneration, Reached, runVars
<1>3. /\ n \in Generations /\ n + 1 \in Generations /\ n # 0 /\ ~collection[n].made
      /\ \A g \in Generations : collection[g].made => g # n
  <2>1. collection \in [Generations -> [made : BOOLEAN, rows : SUBSET Runs]]
    BY DEF RehearsalTypeInv
  <2>2. n \in Nat /\ n > 0 /\ \A g \in Generations : collection[g].made => g < n
    BY <1>1, <2>1, NextIsNew
  <2> QED
    BY <1>2, <2>2, RehearsalAssumption DEF Generations
<1>4. /\ OneAtATime /\ SourcesAreTheirOwn /\ RowsAreTheirOwn /\ ServesTheDrill /\ TargetsAreApart
      /\ RolledBack /\ ReleasesAreApart /\ TargetsAreFilled /\ DrillIsSound(q) /\ q \in Runs
  BY DrillNamesAre DEF StoresInv
<1>5. /\ proc' \in [Runs -> Processes] /\ proc'[q].at = "vectors" /\ proc'[q].source = n
      /\ proc'[q].stage = proc[q].stage /\ \A r \in Runs \ {q} : proc'[r] = proc[r]
  <2> DEFINE p1 == [proc[q] EXCEPT !.at = "vectors"]
             p2 == [p1 EXCEPT !.source = n]
  <2>1. proc \in [Runs -> Processes] /\ proc[q] \in Processes /\ "vectors" \in StepNames /\ n \in Nat
    BY <1>3, <1>4 DEF RehearsalTypeInv, StepNames, Generations
  <2>2. proc' = [proc EXCEPT ![q] = p2]
    BY <1>2, <2>1
  <2>3. p1 \in Processes /\ p1.at = "vectors" /\ p1.stage = proc[q].stage
    BY <2>1, MovedIs
  <2> HIDE DEF p1
  <2>4. p2 \in Processes /\ p2.at = p1.at /\ p2.source = n /\ p2.stage = p1.stage
    BY <2>1, <2>3 DEF Processes
  <2> HIDE DEF p2
  <2> QED
    BY <1>4, <2>1, <2>2, <2>3, <2>4
<1>6. /\ collection' \in [Generations -> [made : BOOLEAN, rows : SUBSET Runs]] /\ collection'[n].made
      /\ \A g \in Generations : collection'[g].rows = collection[g].rows
      /\ \A g \in Generations \ {n} : collection'[g] = collection[g]
  <2>1. collection \in [Generations -> [made : BOOLEAN, rows : SUBSET Runs]]
    BY DEF RehearsalTypeInv
  <2> QED
    BY <1>2, <1>3, <2>1
<1>7. RehearsalTypeInv'
  BY <1>2, <1>5, <1>6 DEF RehearsalTypeInv
<1>8. OthersKeep(q) /\ UnderLock(q)
  <2>1. toolLock["m5"]
    BY <1>2, <1>4 DEF OneAtATime
  <2> QED
    BY <1>2, <1>5, <2>1 DEF OthersKeep, UnderLock
<1>9. proc[q].source = 0 /\ file[q].source = 0 /\ q \in fixtures /\ q \notin vectors /\ proc[q].stage = "prepare"
  BY <1>2, <1>4 DEF DrillIsSound, DrillIsAt, Seeding
<1>10. DrillIsSound(q)'
  <2>1. DrillIsAt(proc[q])' /\ (q \in Orderly => InOrder(q)')
    BY <1>2, <1>4, <1>5, <1>9 DEF DrillIsAt, DrillIsSound, InOrder, StagePassed
  <2>2. Seeding(q)'
    BY <1>2, <1>3, <1>4, <1>5, <1>9 DEF DrillIsSound, Seeding, StagePassed
  <2>3. Copying(q)'
    BY <1>2, <1>4, <1>5, <1>9 DEF DrillIsSound, Copying, StagePassed
  <2>4. file'[q].stage[proc'[q].stage] = "running" /\ report'[q] # "passed"
    BY <1>2, <1>4, <1>5, DrillIsRunning DEF DrillIsSound
  <2> QED
    BY <2>1, <2>2, <2>3, <2>4 DEF DrillIsSound
<1>11. OneAtATime'
  BY <1>4, <1>8, OneAtATimeStays
<1>12. /\ SourceOf(q)' = n
       /\ \A r \in Drills \ {q} :
            /\ SourceOf(r)' = SourceOf(r) /\ file'[r] = file[r] /\ proc'[r] = proc[r] /\ proc'[r].at = "none"
  <2>1. SourceOf(q)' = n
    BY <1>3, <1>5 DEF SourceOf
  <2>2. ASSUME NEW r \in Drills \ {q}
        PROVE  SourceOf(r)' = SourceOf(r) /\ file'[r] = file[r] /\ proc'[r] = proc[r]
    BY <1>8, OthersSources
  <2>3. \A r \in Drills \ {q} : proc[r].at = "none"
    BY <1>2, <1>4 DEF OneAtATime
  <2> QED
    BY <2>1, <2>2, <2>3
<1>13. SourcesAreTheirOwn'
  <2>1. ASSUME NEW r \in Drills \ {q}
        PROVE  SourceOf(r) # n
    BY <1>3, <1>4 DEF SourcesAreTheirOwn
  <2>2. \A g \in Generations : collection[g].made => collection'[g].made
    BY <1>6
  <2>3. ASSUME NEW r \in Drills, SourceOf(r)' # 0
        PROVE  SourceOf(r)' \in Generations /\ SourceOf(r)' + 1 \in Generations /\ collection'[SourceOf(r)'].made
    <3>1. CASE r = q
      BY <1>3, <1>6, <1>12, <3>1
    <3>2. CASE r # q
      <4>1. SourceOf(r)' = SourceOf(r) /\ SourceOf(r) # 0
        BY <1>12, <2>3, <3>2
      <4>2. SourceOf(r) \in Generations /\ SourceOf(r) + 1 \in Generations /\ collection[SourceOf(r)].made
        BY <1>4, <4>1 DEF SourcesAreTheirOwn
      <4> QED
        BY <2>2, <4>1, <4>2
    <3> QED
      BY <3>1, <3>2
  <2>4. ASSUME NEW r \in Drills, NEW o \in Drills, r # o, SourceOf(r)' # 0
        PROVE  SourceOf(r)' # SourceOf(o)'
    <3>1. CASE r = q
      BY <1>12, <2>1, <2>4, <3>1
    <3>2. CASE o = q
      BY <1>12, <2>1, <2>4, <3>2
    <3>3. CASE r # q /\ o # q
      BY <1>4, <1>12, <2>4, <3>3 DEF SourcesAreTheirOwn
    <3> QED
      BY <3>1, <3>2, <3>3
  <2> QED
    BY <2>3, <2>4 DEF SourcesAreTheirOwn
<1>14. RowsAreTheirOwn'
  <2>1. \A g \in Generations : collection[g].made => collection'[g].made
    BY <1>6
  <2>2. \A r \in Drills : proc'[r].at # "cutoff"
    BY <1>5, <1>12
  <2>3. /\ \A g \in Generations : collection'[g].rows = collection[g].rows
        /\ \A r \in Drills : file'[r] = file[r]
        /\ vectors' = vectors
    BY <1>2, <1>6
  <2> QED
    BY <1>4, <2>1, <2>2, <2>3 DEF RowsAreTheirOwn
<1>15. ServesTheDrill'
  <2>1. collection'[n].rows = {}
    BY <1>3, <1>4, <1>6 DEF RowsAreTheirOwn
  <2> QED
    BY <1>2, <1>5, <1>12, <2>1 DEF ServesTheDrill
<1>16. \A g \in Generations : Apart(g) => Apart(g)' /\ g # n
  <2> SUFFICES ASSUME NEW g \in Generations, Apart(g) PROVE Apart(g)' /\ g # n
    OBVIOUS
  <2>1. collection[g].made /\ g # n /\ \A r \in Drills : SourceOf(r) # g
    BY <1>3 DEF Apart
  <2>2. collection'[g].made
    BY <1>6, <2>1
  <2>3. \A r \in Drills : SourceOf(r)' # g
    BY <1>12, <2>1
  <2> QED
    BY <2>1, <2>2, <2>3 DEF Apart
<1>17. \A r \in Drills : StagePassed(r, "restore") \/ proc[r].at = "clock" =>
         file[r].target \in Generations /\ Apart(file[r].target)
  <2>1. ASSUME NEW r \in Drills, StagePassed(r, "restore") \/ proc[r].at = "clock"
        PROVE  file[r].target \in Generations
    <3>1. DrillIsSound(r)
      OBVIOUS
    <3>2. proc[r].at = "clock" => proc[r].stage = "restore" /\ proc[r].at # "manifest"
      BY <3>1 DEF DrillIsSound, DrillIsAt
    <3> QED
      BY <1>4, <2>1, <3>1, <3>2, RestoredTarget
  <2> QED
    BY <1>4, <2>1 DEF TargetsAreApart
<1>18. TargetsAreApart'
  <2>1. \A r \in Drills : StagePassed(r, "restore")' \/ proc'[r].at = "clock" =>
          StagePassed(r, "restore") \/ proc[r].at = "clock"
    BY <1>2, <1>5, <1>12 DEF StagePassed
  <2> QED
    BY <1>2, <1>16, <1>17, <2>1 DEF TargetsAreApart
<1>19. RolledBack'
  <2>1. \A r \in Drills : AllPassed(r)' => StagePassed(r, "restore")
    BY <1>2, AllPassedIs DEF AllPassed
  <2> QED
    BY <1>2, <1>16, <1>17, <2>1 DEF RolledBack
<1>20. ReleasesAreApart'
  <2>1. \A x \in Releases : ReleaseGeneration[x] \in Generations
    BY RehearsalAssumption DEF Generations
  <2>2. \A x \in Releases : proc'[x] = proc[x]
    BY <1>5, ReleaseNamesAre
  <2>3. \A x \in Releases : file'[x] = file[x]
    BY <1>2
  <2>4. \A x \in Releases : Apart(ReleaseGeneration[x]) =>
          Apart(ReleaseGeneration[x])' /\ collection'[ReleaseGeneration[x]].rows = collection[ReleaseGeneration[x]].rows
    BY <1>6, <1>16, <2>1
  <2> QED
    BY <1>4, <2>1, <2>2, <2>3, <2>4 DEF ReleasesAreApart, StagePassed, ReleaseIsAt
<1>21. TargetsAreFilled'
  <2>1. ASSUME NEW r \in Drills, StagePassed(r, "validate") PROVE file[r].target \in Generations
    BY <1>4, <2>1, RestoredTarget
  <2> QED
    BY <1>2, <1>4, <1>6, <2>1 DEF TargetsAreFilled, StagePassed
<1> QED
  BY <1>7, <1>8, <1>10, <1>11, <1>13, <1>14, <1>15, <1>18, <1>19, <1>20, <1>21 DEF StoresInv

\* What holds after a step that only writes rows, or restores a collection.
LEMMA WritesRows ==
  ASSUME RehearsalTypeInv, \A r \in Drills : DrillIsSound(r), StoresInv, NEW q \in Drills, proc[q].at # "none",
         OthersKeep(q), toolLock' = toolLock, file' = file, alias' = alias, proc'[q].source = proc[q].source,
         MadeStays
  PROVE  /\ OneAtATime' /\ SourcesAreTheirOwn' /\ RolledBack'
         /\ \A r \in Drills : SourceOf(r)' = SourceOf(r)
         /\ \A r \in Drills \ {q} : proc'[r] = proc[r] /\ proc'[r].at = "none"
         /\ \A x \in Releases : proc'[x] = proc[x]
         /\ \A g \in Generations : Apart(g) => Apart(g)'
         /\ \A r \in Drills : StagePassed(r, "restore") \/ StagePassed(r, "validate") \/ proc[r].at = "clock" =>
              file[r].target \in Generations
<1>1. OneAtATime /\ SourcesAreTheirOwn /\ RolledBack /\ toolLock["m5"]
  BY DEF StoresInv, OneAtATime
<1>2. UnderLock(q)
  BY <1>1 DEF UnderLock
<1>3. SourceOf(q)' = SourceOf(q)
  BY DEF SourceOf
<1>4. OneAtATime'
  BY <1>1, <1>2, OneAtATimeStays
<1>5. KeepsSource(q)
  BY <1>3 DEF KeepsSource
<1>6. SourcesAreTheirOwn' /\ \A g : Apart(g) /\ g \in Generations => Apart(g)'
  BY <1>1, <1>5, SourcesStay
<1>7. \A r \in Drills \ {q} : SourceOf(r)' = SourceOf(r) /\ proc'[r] = proc[r]
  BY OthersSources
<1>8. \A r \in Drills \ {q} : proc[r].at = "none"
  BY <1>1 DEF OneAtATime
<1>9. \A x \in Releases : proc'[x] = proc[x]
  BY ReleaseNamesAre DEF OthersKeep
<1>10. RolledBack'
  BY <1>1 DEF RolledBack, AllPassed
<1>11. ASSUME NEW r \in Drills, StagePassed(r, "restore") \/ StagePassed(r, "validate") \/ proc[r].at = "clock"
       PROVE  file[r].target \in Generations
  <2>1. DrillIsSound(r)
    OBVIOUS
  <2>2. proc[r].at = "clock" => proc[r].stage = "restore" /\ proc[r].at # "manifest"
    BY <2>1 DEF DrillIsSound, DrillIsAt
  <2> QED
    BY <1>1, <1>11, <2>1, <2>2, RestoredTarget
<1> QED
  BY <1>3, <1>4, <1>6, <1>7, <1>8, <1>9, <1>10, <1>11

LEMMA SeedVectorsKeeps ==
  ASSUME RehearsalTypeInv, \A r \in Drills : DrillIsSound(r), StoresInv, NEW q \in Drills, SeedVectors(q)
  PROVE  RehearsalTypeInv' /\ DrillIsSound(q)' /\ OthersKeep(q) /\ StoresInv'
<1>1. /\ proc[q].at = "vectors" /\ "cutoff" \in StepNames /\ vectors' = vectors \cup {q}
      /\ collection' = [collection EXCEPT ![alias].rows = @ \cup {q}]
      /\ GoesTo(q, "cutoff") /\ fixtures' = fixtures /\ alias' = alias
      /\ dump' = dump /\ copy' = copy /\ report' = report
  BY DEF SeedVectors, Reached, runVars, StepNames
<1>2. /\ OneAtATime /\ SourcesAreTheirOwn /\ RowsAreTheirOwn /\ ServesTheDrill /\ TargetsAreApart
      /\ RolledBack /\ ReleasesAreApart /\ TargetsAreFilled /\ DrillIsSound(q) /\ q \in Runs
  BY DrillNamesAre DEF StoresInv
<1>3. /\ alias = proc[q].source /\ alias = SourceOf(q) /\ collection[alias].rows \cap Drills = {}
      /\ alias \in Generations /\ collection[alias].made
  <2>1. alias = proc[q].source /\ collection[alias].rows \cap Drills = {} /\ proc[q].source # 0
    BY <1>1, <1>2 DEF ServesTheDrill, DrillIsSound, Seeding
  <2>2. SourceOf(q) = proc[q].source
    BY <2>1 DEF SourceOf
  <2> QED
    BY <1>2, <2>1, <2>2 DEF SourcesAreTheirOwn
<1>4. /\ file' = file /\ toolLock' = toolLock /\ proc' \in [Runs -> Processes]
      /\ \A r \in Runs \ {q} : proc'[r] = proc[r]
      /\ proc'[q].at = "cutoff" /\ proc'[q].stage = proc[q].stage /\ proc'[q].source = proc[q].source
  BY <1>1, <1>2, GoesOn
<1>5. /\ collection' \in [Generations -> [made : BOOLEAN, rows : SUBSET Runs]]
      /\ collection'[alias].rows = collection[alias].rows \cup {q}
      /\ \A g \in Generations : collection'[g].made = collection[g].made
      /\ \A g \in Generations \ {alias} : collection'[g] = collection[g]
  <2> DEFINE c == [collection[alias] EXCEPT !.rows = @ \cup {q}]
  <2>1. collection \in [Generations -> [made : BOOLEAN, rows : SUBSET Runs]]
    BY DEF RehearsalTypeInv
  <2>2. /\ c \in [made : BOOLEAN, rows : SUBSET Runs] /\ c.made = collection[alias].made
        /\ c.rows = collection[alias].rows \cup {q}
    BY <1>2, <1>3, <2>1
  <2>3. collection' = [collection EXCEPT ![alias] = c]
    BY <1>1, <1>3, <2>1
  <2> HIDE DEF c
  <2> QED
    BY <1>3, <2>1, <2>2, <2>3
<1>6. RehearsalTypeInv'
  BY <1>1, <1>4, <1>5 DEF RehearsalTypeInv
<1>7. OthersKeep(q)
  BY <1>1, <1>4 DEF OthersKeep
<1>8. proc[q].stage = "prepare" /\ file[q].source = 0 /\ file[q].target = 0 /\ q \in fixtures /\ q \notin vectors
  BY <1>1, <1>2 DEF DrillIsSound, DrillIsAt, Seeding
<1>9. DrillIsSound(q)'
  <2>1. DrillIsAt(proc[q])' /\ (q \in Orderly => InOrder(q)')
    BY <1>2, <1>4, <1>8 DEF DrillIsAt, DrillIsSound, InOrder, StagePassed
  <2>2. Seeding(q)'
    BY <1>1, <1>2, <1>4, <1>8 DEF DrillIsSound, Seeding, StagePassed
  <2>3. Copying(q)'
    BY <1>1, <1>2, <1>4, <1>8 DEF DrillIsSound, Copying, StagePassed
  <2>4. file'[q].stage[proc'[q].stage] = "running" /\ report'[q] # "passed"
    BY <1>1, <1>2, <1>4, DrillIsRunning DEF DrillIsSound
  <2> QED
    BY <2>1, <2>2, <2>3, <2>4 DEF DrillIsSound
<1>10. MadeStays
  BY <1>5 DEF MadeStays
<1>11. /\ OneAtATime' /\ SourcesAreTheirOwn' /\ RolledBack'
       /\ \A r \in Drills \ {q} : proc'[r] = proc[r] /\ proc'[r].at = "none"
       /\ \A x \in Releases : proc'[x] = proc[x]
       /\ \A g \in Generations : Apart(g) => Apart(g)'
       /\ \A r \in Drills : StagePassed(r, "restore") \/ StagePassed(r, "validate") \/ proc[r].at = "clock" =>
            file[r].target \in Generations
  BY <1>1, <1>4, <1>7, <1>10, WritesRows
<1>12. \A r \in Drills : \A g \in Generations : r \in collection'[g].rows =>
         \/ r \in collection[g].rows /\ collection'[g].rows = collection[g].rows
         \/ r = q /\ g = alias
  BY <1>3, <1>5
<1>13. RowsAreTheirOwn'
  <2>1. \A g \in Generations : collection'[g].rows # {} => collection'[g].made
    BY <1>2, <1>3, <1>5 DEF RowsAreTheirOwn
  <2>2. ASSUME NEW r \in Drills \ vectors', NEW g \in Generations PROVE r \notin collection'[g].rows
    BY <1>1, <1>2, <1>12 DEF RowsAreTheirOwn
  <2>3. \A g \in Generations : q \notin collection[g].rows
    BY <1>2, <1>8 DEF RowsAreTheirOwn
  <2>4. ASSUME NEW r \in Drills, NEW g \in Generations, r \in collection'[g].rows
        PROVE  /\ proc'[r].at = "cutoff" => g = proc'[r].source
               /\ file'[r].target = g => collection'[g].rows = {r}
    <3>1. CASE r = q
      <4>1. g = alias /\ g # 0
        BY <1>12, <2>3, <2>4, <3>1 DEF Generations
      <4> QED
        BY <1>3, <1>4, <1>8, <3>1, <4>1
    <3>2. CASE r # q
      <4>1. r \in collection[g].rows /\ collection'[g].rows = collection[g].rows
        BY <1>12, <2>4, <3>2
      <4> QED
        BY <1>2, <1>4, <1>11, <3>2, <4>1 DEF RowsAreTheirOwn
    <3> QED
      BY <3>1, <3>2
  <2> QED
    BY <2>1, <2>2, <2>4 DEF RowsAreTheirOwn
<1>14. ServesTheDrill'
  BY <1>4, <1>11 DEF ServesTheDrill
<1>15. TargetsAreApart'
  <2>1. \A r \in Drills : StagePassed(r, "restore")' \/ proc'[r].at = "clock" => StagePassed(r, "restore")
    BY <1>4, <1>11 DEF StagePassed
  <2> QED
    BY <1>2, <1>4, <1>11, <2>1 DEF TargetsAreApart
<1>16. ReleasesAreApart'
  <2>1. \A x \in Releases : ReleaseGeneration[x] \in Generations
    BY RehearsalAssumption DEF Generations
  <2>2. \A x \in Releases : Apart(ReleaseGeneration[x]) =>
          Apart(ReleaseGeneration[x])' /\ collection'[ReleaseGeneration[x]].rows = collection[ReleaseGeneration[x]].rows
    BY <1>3, <1>5, <1>11, <2>1 DEF Apart
  <2>3. \A x \in Releases : file'[x] = file[x] /\ proc'[x] = proc[x]
    BY <1>4, <1>11
  <2> QED
    BY <1>2, <2>2, <2>3 DEF ReleasesAreApart, StagePassed, ReleaseIsAt
<1>17. TargetsAreFilled'
  <2>1. \A g \in Generations : collection[g].rows \subseteq collection'[g].rows
    BY <1>3, <1>5
  <2> QED
    BY <1>2, <1>4, <1>11, <2>1 DEF TargetsAreFilled, StagePassed
<1> QED
  BY <1>6, <1>7, <1>9, <1>11, <1>13, <1>14, <1>15, <1>16, <1>17 DEF StoresInv

LEMMA RestoreMilvusKeeps ==
  ASSUME RehearsalTypeInv, \A r \in Drills : DrillIsSound(r), StoresInv, NEW q \in Drills, RestoreMilvus(q)
  PROVE  RehearsalTypeInv' /\ DrillIsSound(q)' /\ OthersKeep(q) /\ StoresInv'
<1>1. PICK t : t = file[q].target
  OBVIOUS
<1>2. /\ proc[q].at = "milvus" /\ "clock" \in StepNames /\ vectors' = vectors /\ ~collection[t].made
      /\ collection' = [collection EXCEPT ![t] = [made |-> TRUE, rows |-> {q}]]
      /\ GoesTo(q, "clock") /\ fixtures' = fixtures /\ alias' = alias
      /\ dump' = dump /\ copy' = copy /\ report' = report
  BY <1>1 DEF RestoreMilvus, Reached, runVars, StepNames, TargetIsFree
<1>3. /\ OneAtATime /\ SourcesAreTheirOwn /\ RowsAreTheirOwn /\ ServesTheDrill /\ TargetsAreApart
      /\ RolledBack /\ ReleasesAreApart /\ TargetsAreFilled /\ DrillIsSound(q) /\ q \in Runs
  BY DrillNamesAre DEF StoresInv
<1>4. proc[q].stage = "restore" /\ t \in Generations /\ q \in vectors
  <2>1. proc[q].stage = "restore" /\ proc[q].at # "manifest"
    BY <1>2, <1>3 DEF DrillIsSound, DrillIsAt
  <2> QED
    BY <1>1, <1>3, <2>1, RestoredTarget
<1>5. /\ file' = file /\ toolLock' = toolLock /\ proc' \in [Runs -> Processes]
      /\ \A r \in Runs \ {q} : proc'[r] = proc[r]
      /\ proc'[q].at = "clock" /\ proc'[q].stage = proc[q].stage /\ proc'[q].source = proc[q].source
  BY <1>2, <1>3, GoesOn
<1>6. /\ collection' \in [Generations -> [made : BOOLEAN, rows : SUBSET Runs]]
      /\ collection'[t].rows = {q} /\ collection'[t].made
      /\ \A g \in Generations \ {t} : collection'[g] = collection[g]
  <2>1. collection \in [Generations -> [made : BOOLEAN, rows : SUBSET Runs]]
    BY DEF RehearsalTypeInv
  <2>2. [made |-> TRUE, rows |-> {q}] \in [made : BOOLEAN, rows : SUBSET Runs]
    BY <1>3
  <2> QED
    BY <1>2, <1>4, <2>1, <2>2
<1>7. RehearsalTypeInv'
  BY <1>2, <1>5, <1>6 DEF RehearsalTypeInv
<1>8. OthersKeep(q)
  BY <1>2, <1>5 DEF OthersKeep
<1>9. DrillIsSound(q)'
  <2>1. DrillIsAt(proc[q])' /\ (q \in Orderly => InOrder(q)')
    BY <1>3, <1>4, <1>5 DEF DrillIsAt, DrillIsSound, InOrder, StagePassed
  <2>2. Seeding(q)'
    BY <1>2, <1>3, <1>5 DEF DrillIsSound, Seeding, StagePassed
  <2>3. Copying(q)'
    BY <1>2, <1>3, <1>4, <1>5 DEF DrillIsSound, Copying, StagePassed
  <2>4. file'[q].stage[proc'[q].stage] = "running" /\ report'[q] # "passed"
    BY <1>2, <1>3, <1>5, DrillIsRunning DEF DrillIsSound
  <2> QED
    BY <2>1, <2>2, <2>3, <2>4 DEF DrillIsSound
<1>10. MadeStays
  BY <1>6 DEF MadeStays
<1>11. /\ OneAtATime' /\ SourcesAreTheirOwn' /\ RolledBack' /\ \A r \in Drills : SourceOf(r)' = SourceOf(r)
       /\ \A r \in Drills \ {q} : proc'[r] = proc[r] /\ proc'[r].at = "none"
       /\ \A x \in Releases : proc'[x] = proc[x]
       /\ \A g \in Generations : Apart(g) => Apart(g)'
       /\ \A r \in Drills : StagePassed(r, "restore") \/ StagePassed(r, "validate") \/ proc[r].at = "clock" =>
            file[r].target \in Generations
  BY <1>2, <1>5, <1>8, <1>10, WritesRows
<1>12. RowsAreTheirOwn'
  <2>1. \A g \in Generations : collection'[g].rows # {} => collection'[g].made
    BY <1>3, <1>6 DEF RowsAreTheirOwn
  <2>2. ASSUME NEW r \in Drills, NEW g \in Generations, r \in collection'[g].rows
        PROVE  r \in vectors' /\ (file'[r].target = g => collection'[g].rows = {r})
    <3>1. CASE g = t
      BY <1>2, <1>4, <1>6, <2>2, <3>1
    <3>2. CASE g # t
      BY <1>2, <1>3, <1>5, <1>6, <2>2, <3>2 DEF RowsAreTheirOwn
    <3> QED
      BY <3>1, <3>2
  <2>3. \A r \in Drills : proc'[r].at # "cutoff"
    BY <1>5, <1>11
  <2> QED
    BY <2>1, <2>2, <2>3 DEF RowsAreTheirOwn
<1>13. ServesTheDrill'
  BY <1>5, <1>11 DEF ServesTheDrill
<1>14. TargetsAreApart'
  <2>1. ASSUME NEW r \in Drills PROVE SourceOf(r)' # t
    <3>1. SourceOf(r) # t
      BY <1>2, <1>3, <1>4 DEF SourcesAreTheirOwn, Generations
    <3> QED
      BY <1>11, <3>1
  <2>2. Apart(t)'
    BY <1>6, <2>1 DEF Apart
  <2>3. \A r \in Drills \ {q} : StagePassed(r, "restore")' \/ proc'[r].at = "clock" => StagePassed(r, "restore")
    BY <1>5, <1>11 DEF StagePassed
  <2> QED
    BY <1>1, <1>3, <1>5, <1>11, <2>2, <2>3 DEF TargetsAreApart
<1>15. ReleasesAreApart'
  <2>1. \A x \in Releases : ReleaseGeneration[x] \in Generations
    BY RehearsalAssumption DEF Generations
  <2>2. \A x \in Releases : Apart(ReleaseGeneration[x]) =>
          Apart(ReleaseGeneration[x])' /\ collection'[ReleaseGeneration[x]].rows = collection[ReleaseGeneration[x]].rows
    BY <1>2, <1>6, <1>11, <2>1 DEF Apart
  <2>3. \A x \in Releases : file'[x] = file[x] /\ proc'[x] = proc[x]
    BY <1>5, <1>11
  <2> QED
    BY <1>3, <2>2, <2>3 DEF ReleasesAreApart, StagePassed, ReleaseIsAt
<1>16. TargetsAreFilled'
  <2>1. collection[t].rows = {}
    BY <1>2, <1>3, <1>4 DEF RowsAreTheirOwn
  <2>2. \A g \in Generations : collection[g].rows \subseteq collection'[g].rows
    BY <1>6, <2>1
  <2> QED
    BY <1>3, <1>5, <1>11, <2>2 DEF TargetsAreFilled, StagePassed
<1> QED
  BY <1>7, <1>8, <1>9, <1>11, <1>12, <1>13, <1>14, <1>15, <1>16 DEF StoresInv

LEMMA DrillKeeps ==
  ASSUME RehearsalInv, NEW q \in Drills,
         DrillStep(q) \/ WriteDrillReport(q) \/ Raise(q) \/ Kill(q) \/ \E stage \in NamesOf(q) : Invoke(q, stage)
  PROVE  RehearsalInv'
<1>1. RehearsalTypeInv /\ (\A r \in Drills : DrillIsSound(r)) /\ StoresInv /\ DrillIsSound(q)
  BY DEF RehearsalInv
<1> DEFINE Kept == RehearsalTypeInv' /\ DrillIsSound(q)' /\ OthersKeep(q) /\ StoresInv'
<1>2. KeptQuietly(q) => Kept
  BY <1>1, QuietKeeps DEF KeptQuietly, Quiet
<1>3. proc[q].at # "none" => toolLock["m5"]
  BY <1>1 DEF StoresInv, OneAtATime
<1> SUFFICES Kept
  <2>1. ASSUME Kept, NEW r \in Drills PROVE DrillIsSound(r)'
    BY <1>1, <2>1, OthersStaySound
  <2> QED
    BY <2>1 DEF RehearsalInv
<1> HIDE DEF Kept
<1>4. CASE \E stage \in NamesOf(q) : Invoke(q, stage)
  BY <1>1, <1>2, <1>4, InvokeKeeps
<1>5. CASE Raise(q)
  BY <1>1, <1>5, RaiseKeepsStores DEF Kept
<1>6. CASE Kill(q)
  BY <1>1, <1>2, <1>3, <1>6, KillKeeps DEF Kill
<1>7. CASE WriteDrillReport(q)
  BY <1>1, <1>2, <1>3, <1>7, WriteDrillReportKeeps DEF WriteDrillReport, Reached
<1>8. CASE SeedRows(q)
  BY <1>1, <1>2, <1>3, <1>8, SeedRowsKeeps DEF SeedRows, Reached
<1>9. CASE CreateGeneration(q)
  BY <1>1, <1>9, CreateGenerationKeeps DEF Kept
<1>10. CASE SeedVectors(q)
  BY <1>1, <1>10, SeedVectorsKeeps DEF Kept
<1>11. CASE Cutoff(q)
  BY <1>1, <1>2, <1>3, <1>11, CutoffKeeps DEF Cutoff, Reached
<1>12. CASE Dump(q)
  BY <1>1, <1>2, <1>3, <1>12, DumpKeeps DEF Dump, Reached
<1>13. CASE MilvusBackup(q)
  BY <1>1, <1>2, <1>3, <1>13, MilvusBackupKeeps DEF MilvusBackup, Reached
<1>14. CASE WriteManifest(q)
  BY <1>1, <1>2, <1>3, <1>14, WriteManifestKeeps DEF WriteManifest, Reached
<1>15. CASE VerifyManifest(q)
  BY <1>1, <1>2, <1>3, <1>15, VerifyManifestKeeps DEF VerifyManifest, Reached
<1>16. CASE CreateDatabase(q)
  BY <1>1, <1>2, <1>3, <1>16, CreateDatabaseKeeps DEF CreateDatabase, Reached
<1>17. CASE ImportDump(q)
  BY <1>1, <1>2, <1>3, <1>17, ImportDumpKeeps DEF ImportDump, Reached
<1>18. CASE SkipPostgres(q)
  BY <1>1, <1>2, <1>3, <1>18, SkipPostgresKeeps DEF SkipPostgres, Reached
<1>19. CASE CreatePostgres(q)
  BY <1>1, <1>2, <1>3, <1>19, CreatePostgresKeeps DEF CreatePostgres, Reached
<1>20. CASE RestorePostgres(q)
  BY <1>1, <1>2, <1>3, <1>20, RestorePostgresKeeps DEF RestorePostgres, Reached
<1>21. CASE RestoreMilvus(q)
  BY <1>1, <1>21, RestoreMilvusKeeps DEF Kept
<1>22. CASE WithinLimit(q)
  BY <1>1, <1>2, <1>3, <1>22, WithinLimitKeeps DEF WithinLimit, Reached
<1>23. CASE Compare(q)
  BY <1>1, <1>2, <1>3, <1>23, CompareKeeps DEF Compare, Reached
<1>24. CASE ActivateTarget(q) \/ Switch(q)
  BY <1>1, <1>24, ActivateTargetKeeps DEF Kept
<1>25. CASE CompareAnswers(q) \/ SwitchBack(q)
  BY <1>1, <1>25, CompareAnswersKeeps DEF Kept
<1>26. CASE Probe(q)
  BY <1>1, <1>2, <1>3, <1>26, ProbeKeeps DEF Probe, Reached
<1> QED
  BY <1>4, <1>5, <1>6, <1>7, <1>8, <1>9, <1>10, <1>11, <1>12, <1>13, <1>14, <1>15, <1>16, <1>17, <1>18,
     <1>19, <1>20, <1>21, <1>22, <1>23, <1>24, <1>25, <1>26 DEF DrillStep

-----------------------------------------------------------------------------
(* Steps of a release *)

\* What a step of release x may touch: what is its own, and the rows of its generation.
ReleaseOnly(x) ==
  /\ RehearsalTypeInv'
  /\ \A r \in Runs \ {x} : file'[r] = file[r] /\ proc'[r] = proc[r] /\ report'[r] = report[r]
  /\ fixtures' = fixtures /\ vectors' = vectors /\ dump' = dump /\ copy' = copy /\ alias' = alias
  /\ toolLock'["m5"] = toolLock["m5"]
  /\ MadeStays
  /\ \A g \in Generations \ {ReleaseGeneration[x]} : collection'[g] = collection[g]

LEMMA ReleaseKeeps ==
  ASSUME RehearsalInv, NEW x \in Releases, ReleaseOnly(x), ReleaseIsAt(proc[x])',
         x \in Orderly /\ proc'[x].stage = "seed" => StagePassed(x, "prepare")',
         LET g == ReleaseGeneration[x] IN
           \/ /\ collection'[g].rows = collection[g].rows
              /\ StagePassed(x, "prepare")' =>
                   StagePassed(x, "prepare") \/ (~collection[g].made /\ collection'[g].made)
           \/ /\ collection'[g].rows = {x} /\ collection[g].made
              /\ StagePassed(x, "prepare")' => StagePassed(x, "prepare")
              /\ x \in Orderly => StagePassed(x, "prepare")
  PROVE  RehearsalInv'
<1> DEFINE g == ReleaseGeneration[x]
<1>1. /\ RehearsalTypeInv /\ (\A r \in Drills : DrillIsSound(r))
      /\ OneAtATime /\ SourcesAreTheirOwn /\ RowsAreTheirOwn /\ ServesTheDrill /\ TargetsAreApart
      /\ RolledBack /\ ReleasesAreApart /\ TargetsAreFilled
  BY DEF RehearsalInv, StoresInv
<1>2. g \in Generations /\ x \in Runs /\ x \notin Drills
  BY ReleaseNamesAre, RehearsalAssumption DEF Generations
<1>3. /\ \A r \in Drills : file'[r] = file[r] /\ proc'[r] = proc[r] /\ report'[r] = report[r]
      /\ \A y \in Releases \ {x} : file'[y] = file[y] /\ proc'[y] = proc[y]
      /\ fixtures' = fixtures /\ vectors' = vectors /\ dump' = dump /\ copy' = copy /\ alias' = alias
      /\ toolLock'["m5"] = toolLock["m5"]
  BY <1>2 DEF ReleaseOnly, Runs
<1>4. /\ \A r \in Drills : SourceOf(r)' = SourceOf(r)
      /\ \A r \in Drills : AllPassed(r)' <=> AllPassed(r)
  BY <1>3 DEF SourceOf, AllPassed
<1>5. ASSUME NEW r \in Drills PROVE DrillIsSound(r)'
  <2>1. DrillIsSound(r)
    BY <1>1
  <2>2. Seeding(r)' /\ Copying(r)' /\ (r \in Orderly => InOrder(r)')
    BY <1>3, <2>1 DEF DrillIsSound, Seeding, Copying, InOrder, StagePassed
  <2>3. report'[r] = "passed" => AllPassed(r)'
    BY <1>3, <1>4, <2>1 DEF DrillIsSound
  <2> QED
    BY <1>3, <2>1, <2>2, <2>3 DEF DrillIsSound, DrillIsAt
\* The generation keeps its rows, or loses those of drills and gets those of the release.
<1>6. /\ \A h \in Generations : collection[h].made => collection'[h].made
      /\ \A h \in Generations \ {g} : collection'[h].rows = collection[h].rows
      /\ \/ collection'[g].rows = collection[g].rows
         \/ collection'[g].rows = {x} /\ collection[g].made
      /\ \A h \in Generations : \A r \in Drills : r \in collection'[h].rows =>
           r \in collection[h].rows /\ collection'[h].rows = collection[h].rows
  <2>1. /\ \A h \in Generations : collection[h].made => collection'[h].made
        /\ \A h \in Generations \ {g} : collection'[h].rows = collection[h].rows
    BY DEF ReleaseOnly, MadeStays
  <2>2. \/ collection'[g].rows = collection[g].rows
        \/ collection'[g].rows = {x} /\ collection[g].made
    OBVIOUS
  <2> HIDE DEF g
  <2> QED
    BY <1>2, <2>1, <2>2
<1>7. OneAtATime'
  BY <1>1, <1>3 DEF OneAtATime
<1>8. SourcesAreTheirOwn'
  BY <1>1, <1>4, <1>6 DEF SourcesAreTheirOwn
<1> HIDE DEF g
<1>9. RowsAreTheirOwn'
  BY <1>1, <1>2, <1>3, <1>6 DEF RowsAreTheirOwn
<1>10. ServesTheDrill'
  <2>1. ASSUME NEW r \in Drills, proc[r].at = "vectors" PROVE alias \in Generations
    BY <1>1, <2>1 DEF ServesTheDrill, DrillIsSound, Seeding, SourcesAreTheirOwn, SourceOf
  <2> QED
    BY <1>1, <1>3, <1>6, <2>1 DEF ServesTheDrill
<1>11. \A h \in Generations : Apart(h) => Apart(h)'
  BY <1>4, <1>6 DEF Apart
<1>12. \A r \in Drills : StagePassed(r, "restore") \/ StagePassed(r, "validate") \/ proc[r].at = "clock" =>
         file[r].target \in Generations
  <2> SUFFICES ASSUME NEW r \in Drills, StagePassed(r, "restore") \/ StagePassed(r, "validate") \/ proc[r].at = "clock"
               PROVE  file[r].target \in Generations
    OBVIOUS
  <2>1. DrillIsSound(r)
    BY <1>1
  <2>2. proc[r].at = "clock" => proc[r].stage = "restore" /\ proc[r].at # "manifest"
    BY <2>1 DEF DrillIsSound, DrillIsAt
  <2> QED
    BY <1>1, <2>1, <2>2, RestoredTarget
<1>13. TargetsAreApart'
  BY <1>1, <1>3, <1>11, <1>12 DEF TargetsAreApart, StagePassed
<1>14. RolledBack'
  BY <1>1, <1>3, <1>4 DEF RolledBack
<1>15. ReleasesAreApart'
  <2>1. \A y \in Releases : ReleaseGeneration[y] \in Generations
    BY RehearsalAssumption DEF Generations
  <2>2. ASSUME NEW y \in Releases, y # x
        PROVE  /\ ReleaseIsAt(proc[y])'
               /\ y \in Orderly /\ proc'[y].stage = "seed" => StagePassed(y, "prepare")'
               /\ StagePassed(y, "prepare")' =>
                    /\ Apart(ReleaseGeneration[y])' /\ collection'[ReleaseGeneration[y]].rows \cap Drills = {}
    <3>1. proc'[y] = proc[y] /\ file'[y] = file[y]
      BY <1>3, <2>2
    <3> QED
      BY <1>1, <1>6, <1>11, <2>1, <3>1 DEF ReleasesAreApart, StagePassed, ReleaseIsAt
  <2>3. ASSUME StagePassed(x, "prepare")' PROVE Apart(g)' /\ collection'[g].rows \cap Drills = {}
    <3>1. CASE StagePassed(x, "prepare")
      <4>1. Apart(g) /\ collection[g].rows \cap Drills = {}
        BY <1>1, <3>1 DEF ReleasesAreApart, g
      <4> QED
        BY <1>2, <1>6, <1>11, <4>1
    <3>2. CASE ~StagePassed(x, "prepare")
      <4>1. ~collection[g].made /\ collection'[g].made /\ collection'[g].rows = collection[g].rows
        BY <2>3, <3>2 DEF g
      <4>2. collection[g].rows = {}
        BY <1>1, <1>2, <4>1 DEF RowsAreTheirOwn
      <4>3. ASSUME NEW r \in Drills PROVE SourceOf(r)' # g
        <5>1. SourceOf(r) # g
          BY <1>1, <1>2, <4>1 DEF SourcesAreTheirOwn, Generations
        <5> QED
          BY <1>4, <5>1
      <4> QED
        BY <4>1, <4>2, <4>3 DEF Apart
    <3> QED
      BY <3>1, <3>2
  <2> QED
    BY <2>2, <2>3 DEF ReleasesAreApart, g
<1>16. TargetsAreFilled'
  <2> SUFFICES ASSUME Releases \subseteq Orderly, NEW r \in Drills, StagePassed(r, "validate")'
               PROVE  r \in collection'[file'[r].target].rows
    BY DEF TargetsAreFilled
  <2>1. /\ file'[r] = file[r] /\ StagePassed(r, "validate") /\ file[r].target \in Generations
        /\ r \in collection[file[r].target].rows
    BY <1>1, <1>3, <1>12 DEF TargetsAreFilled, StagePassed
  <2>2. CASE collection'[g].rows = collection[g].rows
    BY <1>6, <2>1, <2>2
  <2>3. CASE collection'[g].rows # collection[g].rows
    <3>1. StagePassed(x, "prepare")
      BY <2>3 DEF g
    <3>2. collection[g].rows \cap Drills = {}
      BY <1>1, <3>1 DEF ReleasesAreApart, g
    <3> QED
      BY <1>6, <2>1, <3>2
  <2> QED
    BY <2>2, <2>3
<1>17. RehearsalTypeInv'
  BY DEF ReleaseOnly
<1> QED
  BY <1>5, <1>7, <1>8, <1>9, <1>10, <1>13, <1>14, <1>15, <1>16, <1>17 DEF RehearsalInv, StoresInv

LEMMA ReleaseIsRunning ==
  ASSUME RehearsalInv, NEW x \in Releases, proc[x].at # "none"
  PROVE  /\ x \in Runs /\ x \notin Drills /\ Tool(x) = "m6" /\ proc[x].stage \in NamesOf(x)
         /\ file[x] \in RunFiles(x) /\ proc[x] \in Processes /\ ReleaseIsAt(proc[x])
         /\ proc[x].at \notin {"activate", "answers"}
<1>1. RehearsalTypeInv /\ ReleaseIsAt(proc[x])
  BY DEF RehearsalInv, StoresInv, ReleasesAreApart
<1>2. proc[x].stage \in NamesOf(x) /\ proc[x].at \notin {"activate", "answers"}
  BY <1>1, ReleaseNamesAre DEF ReleaseIsAt
<1> QED
  BY <1>1, <1>2, ReleaseNamesAre DEF RehearsalTypeInv

\* A stage of a release that ends, with its result written or not.
LEMMA ReleaseStops ==
  ASSUME RehearsalInv, NEW x \in Releases, proc[x].at # "none",
         UNCHANGED <<fixtures, vectors, alias, dump, copy>>, report' \in [Runs -> {"none", "passed", "failed"}],
         \A r \in Runs \ {x} : report'[r] = report[r],
         toolLock' = toolLock \/ toolLock' = [toolLock EXCEPT !["m6"] = FALSE],
         MadeStays, \A g \in Generations \ {ReleaseGeneration[x]} : collection'[g] = collection[g],
         collection' \in [Generations -> [made : BOOLEAN, rows : SUBSET Runs]],
         NEW f \in RunFiles(x), DOMAIN file' = Runs, file'[x] = f, \A r \in Runs \ {x} : file'[r] = file[r],
         NEW p \in Processes, proc' = [proc EXCEPT ![x] = p]
  PROVE  ReleaseOnly(x) /\ proc'[x] = p
<1>1. /\ RehearsalTypeInv /\ x \in Runs
  BY ReleaseIsRunning DEF RehearsalInv
<1>2. /\ DOMAIN file' = Runs /\ \A r \in Runs : file'[r] \in RunFiles(r)
      /\ file'[x] = f /\ \A r \in Runs \ {x} : file'[r] = file[r]
      /\ proc' \in [Runs -> Processes] /\ proc'[x] = p /\ \A r \in Runs \ {x} : proc'[r] = proc[r]
      /\ toolLock' \in [{"m5", "m6"} -> BOOLEAN] /\ toolLock'["m5"] = toolLock["m5"]
  BY <1>1 DEF RehearsalTypeInv
<1>3. RehearsalTypeInv'
  BY <1>1, <1>2 DEF RehearsalTypeInv
<1> QED
  BY <1>2, <1>3 DEF ReleaseOnly

LEMMA ReleasePasses ==
  ASSUME RehearsalInv, NEW x \in Releases, proc[x].at # "none", Passes(x),
         UNCHANGED <<fixtures, vectors, alias, runVars>>,
         MadeStays, \A g \in Generations \ {ReleaseGeneration[x]} : collection'[g] = collection[g],
         collection' \in [Generations -> [made : BOOLEAN, rows : SUBSET Runs]]
  PROVE  /\ ReleaseOnly(x) /\ ReleaseIsAt(proc[x])' /\ proc'[x].stage # "seed"
         /\ proc[x].stage # "prepare" => (StagePassed(x, "prepare")' <=> StagePassed(x, "prepare"))
<1>1. /\ x \in Runs /\ x \notin Drills /\ Tool(x) = "m6" /\ proc[x].stage \in NamesOf(x)
      /\ file[x] \in RunFiles(x) /\ proc[x] \in Processes /\ ReleaseIsAt(proc[x])
  BY ReleaseIsRunning
<1> DEFINE f == Saved(x, "passed")
           p == IF Epilogue(x, proc[x].stage) = "none" THEN NoProc ELSE [proc[x] EXCEPT !.at = "report"]
<1>2. "passed" \in Statuses /\ "report" \in StepNames
  BY DEF Statuses, StepNames
<1>3. f \in RunFiles(x) /\ \A o \in NamesOf(x) \ {proc[x].stage} : f.stage[o] = file[x].stage[o]
  BY <1>1, <1>2, SavedIs
<1>4. p \in Processes /\ ReleaseIsAt(p) /\ p.stage # "seed"
  <2>1. CASE Epilogue(x, proc[x].stage) = "none"
    BY <2>1, NoProcIs DEF ReleaseIsAt
  <2>2. CASE Epilogue(x, proc[x].stage) # "none"
    <3>1. proc[x].stage = "validate"
      BY <1>1, <2>2, ReleaseNamesAre DEF Epilogue
    <3> DEFINE o == [proc[x] EXCEPT !.at = "report"]
    <3>2. o \in Processes /\ o.at = "report" /\ o.stage = proc[x].stage
      BY <1>1, <1>2, MovedIs
    <3>3. p = o
      BY <2>2
    <3> HIDE DEF o, p
    <3> QED
      BY <3>1, <3>2, <3>3 DEF ReleaseIsAt
  <2> QED
    BY <2>1, <2>2
<1>5. /\ file' = [file EXCEPT ![x] = f] /\ proc' = [proc EXCEPT ![x] = p]
      /\ toolLock' = [toolLock EXCEPT !["m6"] = FALSE]
  BY <1>1 DEF Passes
<1> HIDE DEF f, p
<1>6. report' \in [Runs -> {"none", "passed", "failed"}] /\ \A r \in Runs \ {x} : report'[r] = report[r]
  BY DEF RehearsalInv, RehearsalTypeInv, runVars
<1>7. ReleaseOnly(x) /\ file'[x] = f /\ proc'[x] = p
  <2>1. DOMAIN file' = Runs /\ file'[x] = f /\ \A r \in Runs \ {x} : file'[r] = file[r]
    BY <1>1, <1>5 DEF RehearsalInv, RehearsalTypeInv
  <2> QED
    BY <1>3, <1>4, <1>5, <1>6, <2>1, ReleaseStops DEF runVars
<1>8. "prepare" \in NamesOf(x)
  BY ReleaseNamesAre
<1> QED
  BY <1>3, <1>4, <1>7, <1>8 DEF ReleaseIsAt, StagePassed

LEMMA ReleaseStepKeeps ==
  ASSUME RehearsalInv, NEW x \in Releases, ReleaseStep(x)
  PROVE  RehearsalInv'
<1>1. /\ RehearsalTypeInv /\ ReleasesAreApart
      /\ collection \in [Generations -> [made : BOOLEAN, rows : SUBSET Runs]]
      /\ ReleaseGeneration[x] \in Generations
  BY RehearsalAssumption DEF RehearsalInv, RehearsalTypeInv, StoresInv, Generations
<1>2. proc[x].at # "none"
  BY DEF ReleaseStep, CreateReleaseDatabase, CreateReleaseCollection, SeedRelease, Search, Audit, Isolate,
         Rejoin, Judge, Reached
<1>3. x \in Runs /\ ReleaseIsAt(proc[x]) /\ proc[x] \in Processes /\ file[x] \in RunFiles(x)
  BY <1>2, ReleaseIsRunning
<1>4. CASE Search(x) \/ Audit(x) \/ Rejoin(x) \/ Judge(x)
  <2>1. /\ Passes(x) /\ UNCHANGED storeVars /\ UNCHANGED runVars
        /\ proc[x].at \in {"search", "audit", "rejoin", "judge"}
    BY <1>4 DEF Search, Audit, Rejoin, Judge, Reached, worldVars
  <2>2. proc[x].stage # "prepare"
    BY <1>3, <2>1 DEF ReleaseIsAt
  <2>3. MadeStays /\ collection' = collection
    BY <2>1 DEF MadeStays, storeVars
  <2>4. /\ ReleaseOnly(x) /\ ReleaseIsAt(proc[x])' /\ proc'[x].stage # "seed"
        /\ StagePassed(x, "prepare")' <=> StagePassed(x, "prepare")
    BY <1>1, <1>2, <2>1, <2>2, <2>3, ReleasePasses DEF storeVars
  <2> QED
    BY <2>3, <2>4, ReleaseKeeps
<1>5. CASE CreateReleaseDatabase(x) \/ Isolate(x)
  <2> DEFINE step == IF proc[x].at = "database" THEN "collection" ELSE "rejoin"
  <2>1. /\ GoesTo(x, step) /\ UNCHANGED <<fixtures, vectors, collection, alias, runVars>>
        /\ proc[x].at \in {"database", "isolate"} /\ step \in StepNames /\ step \in {"collection", "rejoin"}
        /\ (step = "collection" <=> proc[x].at = "database")
    BY <1>5 DEF CreateReleaseDatabase, Isolate, Reached, storeVars, StepNames
  <2> HIDE DEF step
  <2>2. /\ file' = file /\ toolLock' = toolLock /\ proc' \in [Runs -> Processes]
        /\ \A r \in Runs \ {x} : proc'[r] = proc[r]
        /\ proc'[x].at = step /\ proc'[x].stage = proc[x].stage
    BY <1>1, <1>3, <2>1, GoesOn
  <2>3. RehearsalTypeInv'
    BY <1>1, <2>1, <2>2 DEF RehearsalTypeInv, runVars
  <2>4. ReleaseOnly(x)
    BY <2>1, <2>2, <2>3 DEF ReleaseOnly, MadeStays, runVars
  <2>5. (proc[x].stage = "prepare" /\ step = "collection") \/ (proc[x].stage = "fault" /\ step = "rejoin")
    BY <1>3, <2>1 DEF ReleaseIsAt
  <2>6. ReleaseIsAt(proc[x])' /\ proc'[x].stage # "seed"
    BY <2>2, <2>5 DEF ReleaseIsAt
  <2>7. StagePassed(x, "prepare")' <=> StagePassed(x, "prepare")
    BY <2>2 DEF StagePassed
  <2> QED
    BY <2>1, <2>4, <2>6, <2>7, ReleaseKeeps
<1>6. CASE CreateReleaseCollection(x)
  <2> DEFINE g == ReleaseGeneration[x]
  <2>1. /\ Passes(x) /\ UNCHANGED <<fixtures, vectors, alias, runVars>> /\ ~collection[g].made
        /\ collection' = [collection EXCEPT ![g].made = TRUE]
    BY <1>6 DEF CreateReleaseCollection
  <2>2. /\ collection' \in [Generations -> [made : BOOLEAN, rows : SUBSET Runs]]
        /\ collection'[g].made /\ collection'[g].rows = collection[g].rows
        /\ \A h \in Generations \ {g} : collection'[h] = collection[h]
    BY <1>1, <2>1
  <2>3. MadeStays
    BY <2>2 DEF MadeStays
  <2>4. ReleaseOnly(x) /\ ReleaseIsAt(proc[x])' /\ proc'[x].stage # "seed"
    BY <1>2, <2>1, <2>2, <2>3, ReleasePasses
  <2> QED
    BY <2>1, <2>2, <2>4, ReleaseKeeps
<1>7. CASE SeedRelease(x)
  <2> DEFINE g == ReleaseGeneration[x]
  <2>1. /\ Passes(x) /\ UNCHANGED <<fixtures, vectors, alias, runVars>> /\ collection[g].made
        /\ collection' = [collection EXCEPT ![g].rows = {x}] /\ proc[x].at = "seed"
    BY <1>7 DEF SeedRelease, Reached
  <2>2. /\ collection' \in [Generations -> [made : BOOLEAN, rows : SUBSET Runs]]
        /\ collection'[g].made /\ collection'[g].rows = {x}
        /\ \A h \in Generations \ {g} : collection'[h] = collection[h]
    BY <1>1, <1>3, <2>1
  <2>3. MadeStays
    BY <2>2 DEF MadeStays
  <2>4. proc[x].stage = "seed"
    BY <1>3, <2>1 DEF ReleaseIsAt
  <2>5. /\ ReleaseOnly(x) /\ ReleaseIsAt(proc[x])' /\ proc'[x].stage # "seed"
        /\ StagePassed(x, "prepare")' <=> StagePassed(x, "prepare")
    BY <1>2, <2>1, <2>2, <2>3, <2>4, ReleasePasses
  <2>6. x \in Orderly => StagePassed(x, "prepare")
    BY <1>1, <2>4 DEF ReleasesAreApart
  <2> QED
    BY <2>1, <2>2, <2>5, <2>6, ReleaseKeeps
<1> QED
  BY <1>4, <1>5, <1>6, <1>7 DEF ReleaseStep

LEMMA ReleaseBegins ==
  ASSUME NEW x \in Releases, NEW stage \in NamesOf(x)
  PROVE  /\ stage \in StageNames /\ FirstStep(x, stage) \in StepNames
         /\ \A p : p.stage = stage /\ p.at = FirstStep(x, stage) => ReleaseIsAt(p)
         /\ Epilogue(x, stage) # "none" => stage = "validate"
<1>1. x \notin Drills /\ NamesOf(x) = {"prepare", "seed", "load", "fault", "security", "validate"}
  BY ReleaseNamesAre
<1>2. /\ stage = "prepare" => FirstStep(x, stage) = "database"
      /\ stage = "seed" => FirstStep(x, stage) = "seed"
      /\ stage = "load" => FirstStep(x, stage) = "search"
      /\ stage = "fault" => FirstStep(x, stage) = "isolate"
      /\ stage = "security" => FirstStep(x, stage) = "audit"
      /\ stage = "validate" => FirstStep(x, stage) = "judge"
  BY <1>1 DEF FirstStep
<1>3. Epilogue(x, stage) # "none" => stage = "validate"
  BY <1>1 DEF Epilogue
<1>4. \A p : p.stage = stage /\ p.at = FirstStep(x, stage) => ReleaseIsAt(p)
  BY <1>1, <1>2 DEF ReleaseIsAt
<1> QED
  BY <1>1, <1>2, <1>3, <1>4 DEF StageNames, StepNames

LEMMA ReleaseInvokeKeeps ==
  ASSUME RehearsalInv, NEW x \in Releases, NEW stage \in NamesOf(x), Invoke(x, stage)
  PROVE  RehearsalInv'
<1>1. /\ x \in Runs /\ Tool(x) = "m6" /\ "prepare" \in NamesOf(x)
      /\ EarlierPassed(x, "seed") => StagePassed(x, "prepare")
  BY ReleaseNamesAre
<1>2. /\ RehearsalTypeInv /\ UNCHANGED storeVars /\ UNCHANGED runVars
      /\ toolLock' = [toolLock EXCEPT !["m6"] = ~(Skips(x, stage) /\ x \in Releases)]
      /\ (x \in Orderly => EarlierPassed(x, stage))
  BY <1>1 DEF Invoke, RehearsalInv
<1>3. /\ DOMAIN file = Runs /\ \A r \in Runs : file[r] \in RunFiles(r)
      /\ toolLock' \in [{"m5", "m6"} -> BOOLEAN] /\ toolLock'["m5"] = toolLock["m5"]
      /\ proc \in [Runs -> Processes]
  BY <1>2 DEF RehearsalTypeInv
<1>4. PICK p \in Processes, f \in RunFiles(x) :
        /\ proc' = [proc EXCEPT ![x] = p]
        /\ DOMAIN file' = Runs /\ file'[x] = f /\ (\A r \in Runs \ {x} : file'[r] = file[r])
        /\ p.stage = stage /\ ReleaseIsAt(p)
        /\ \A s \in NamesOf(x) \ {stage} : f.stage[s] = file[x].stage[s]
        /\ f.stage[stage] = "passed" => file[x].stage[stage] = "passed"
  <2>1. CASE Skips(x, stage)
    <3> DEFINE p == [NoProc EXCEPT !.stage = stage, !.at = "report"]
    <3>1. Epilogue(x, stage) # "none" /\ proc' = [proc EXCEPT ![x] = p] /\ file' = file
      BY <2>1 DEF Invoke
    <3>2. stage = "validate" /\ stage \in StageNames /\ "report" \in StepNames
      BY <3>1, ReleaseBegins DEF StepNames
    <3>3. p \in Processes /\ p.stage = stage /\ p.at = "report"
      BY <3>2, StartedIs
    <3> HIDE DEF p
    <3>4. ReleaseIsAt(p)
      BY <3>2, <3>3 DEF ReleaseIsAt
    <3> QED
      BY <1>1, <1>3, <3>1, <3>3, <3>4
  <2>2. CASE ~Skips(x, stage)
    <3> DEFINE a == FirstStep(x, stage)
               p == [NoProc EXCEPT !.stage = stage, !.at = a]
               f == Running(file[x], stage)
    <3>1. /\ file' = [file EXCEPT ![x].made = TRUE, ![x].stage[stage] = "running"]
          /\ proc' = [proc EXCEPT ![x] = p]
      BY <2>2 DEF Invoke
    <3>2. stage \in StageNames /\ a \in StepNames /\ \A o : o.stage = stage /\ o.at = a => ReleaseIsAt(o)
      BY ReleaseBegins
    <3>3. file' = [file EXCEPT ![x] = f]
      BY <1>1, <1>3, <3>1 DEF Running
    <3> HIDE DEF a
    <3>4. p \in Processes /\ p.stage = stage /\ p.at = a
      BY <3>2, StartedIs
    <3> HIDE DEF p
    <3>5. /\ f \in RunFiles(x) /\ f.stage[stage] = "running"
          /\ \A s \in NamesOf(x) \ {stage} : f.stage[s] = file[x].stage[s]
      BY <1>1, <1>3, RunningIs
    <3> HIDE DEF f
    <3>6. DOMAIN file' = Runs /\ file'[x] = f /\ (\A r \in Runs \ {x} : file'[r] = file[r])
      BY <1>1, <1>3, <3>3
    <3>7. f.stage[stage] # "passed"
      BY <3>5
    <3> QED
      BY <3>1, <3>2, <3>4, <3>5, <3>6, <3>7
  <2> QED
    BY <2>1, <2>2
<1>5. /\ DOMAIN file' = Runs /\ \A r \in Runs : file'[r] \in RunFiles(r)
      /\ file'[x] = f /\ \A r \in Runs \ {x} : file'[r] = file[r]
      /\ proc' \in [Runs -> Processes] /\ proc'[x] = p /\ \A r \in Runs \ {x} : proc'[r] = proc[r]
  BY <1>1, <1>3, <1>4
<1>6. RehearsalTypeInv'
  BY <1>2, <1>3, <1>5 DEF RehearsalTypeInv, storeVars, runVars
<1>7. ReleaseOnly(x)
  BY <1>2, <1>3, <1>5, <1>6 DEF ReleaseOnly, MadeStays, storeVars, runVars
<1>8. ReleaseIsAt(proc[x])' /\ proc'[x].stage = stage
  BY <1>4, <1>5 DEF ReleaseIsAt
<1>9. StagePassed(x, "prepare")' => StagePassed(x, "prepare")
  BY <1>1, <1>4, <1>5 DEF StagePassed
<1>10. x \in Orderly /\ stage = "seed" => StagePassed(x, "prepare")'
  BY <1>1, <1>2, <1>4, <1>5 DEF StagePassed
<1>11. collection' = collection
  BY <1>2 DEF storeVars
<1> QED
  BY <1>7, <1>8, <1>9, <1>10, <1>11, ReleaseKeeps

LEMMA PassedIs ==
  ASSUME NEW r, NEW f \in RunFiles(r), NEW c \in BOOLEAN
  PROVE  [f EXCEPT !.passed = c] \in RunFiles(r) /\ [f EXCEPT !.passed = c].stage = f.stage
<1> DEFINE g == [made |-> f.made, stage |-> f.stage, source |-> f.source, target |-> f.target,
                 cutoff |-> f.cutoff, passed |-> c]
<1>1. f = [made |-> f.made, stage |-> f.stage, source |-> f.source, target |-> f.target, cutoff |-> f.cutoff,
           passed |-> f.passed]
  BY FileFields
<1>2. [f EXCEPT !.passed = c] = g
  BY <1>1
<1>3. g \in RunFiles(r)
  BY FileFields, FileOfFields
<1>4. g.stage = f.stage
  OBVIOUS
<1> HIDE DEF g
<1> QED
  BY <1>2, <1>3, <1>4

LEMMA ReleaseEndKeeps ==
  ASSUME RehearsalInv, NEW x \in Releases, Raise(x) \/ Kill(x) \/ WriteReleaseReport(x)
  PROVE  RehearsalInv'
<1>1. proc[x].at # "none" /\ proc' = [proc EXCEPT ![x] = NoProc] /\ collection' = collection
  BY DEF Raise, Kill, WriteReleaseReport, Reached, storeVars
<1>2. /\ x \in Runs /\ x \notin Drills /\ Tool(x) = "m6" /\ proc[x].stage \in NamesOf(x)
      /\ file[x] \in RunFiles(x) /\ proc[x] \in Processes /\ proc[x].at \notin {"activate", "answers"}
  BY <1>1, ReleaseIsRunning
<1>3. RehearsalTypeInv /\ "failed" \in Statuses /\ "prepare" \in NamesOf(x)
  BY ReleaseNamesAre DEF RehearsalInv, Statuses
<1>4. UNCHANGED <<fixtures, vectors, alias, dump, copy>>
  BY <1>2 DEF Raise, Kill, WriteReleaseReport, storeVars, runVars
<1>5. /\ report' \in [Runs -> {"none", "passed", "failed"}]
      /\ \A r \in Runs \ {x} : report'[r] = report[r]
  BY <1>2, <1>3 DEF Raise, Kill, WriteReleaseReport, runVars, RehearsalTypeInv
<1>6. toolLock' = toolLock \/ toolLock' = [toolLock EXCEPT !["m6"] = FALSE]
  <2>1. CASE Raise(x)
    <3>1. toolLock' = [toolLock EXCEPT !["m6"] = toolLock["m6"] /\ ~Held(x)]
      BY <1>2, <2>1 DEF Raise
    <3>2. toolLock \in [{"m5", "m6"} -> BOOLEAN]
      BY <1>3 DEF RehearsalTypeInv
    <3>3. CASE Held(x)
      BY <3>1, <3>3
    <3>4. CASE ~Held(x)
      <4>1. toolLock' = [toolLock EXCEPT !["m6"] = toolLock["m6"]]
        BY <3>1, <3>2, <3>4
      <4> QED
        BY <3>2, <4>1
    <3> QED
      BY <3>3, <3>4
  <2> QED
    BY <2>1 DEF Kill, WriteReleaseReport
<1>7. PICK f \in RunFiles(x) :
        /\ DOMAIN file' = Runs /\ file'[x] = f /\ (\A r \in Runs \ {x} : file'[r] = file[r])
        /\ f.stage["prepare"] = "passed" => file[x].stage["prepare"] = "passed"
  <2>1. CASE file' = file
    <3>1. DOMAIN file = Runs
      BY <1>3 DEF RehearsalTypeInv
    <3> QED
      BY <1>2, <2>1, <3>1
  <2>2. CASE file' = [file EXCEPT ![x] = Saved(x, "failed")]
    <3> DEFINE f == Saved(x, "failed")
    <3>1. /\ f \in RunFiles(x) /\ f.stage[proc[x].stage] = "failed"
          /\ \A o \in NamesOf(x) \ {proc[x].stage} : f.stage[o] = file[x].stage[o]
      BY <1>2, <1>3, SavedIs
    <3>2. file' = [file EXCEPT ![x] = f]
      BY <2>2
    <3> HIDE DEF f
    <3>3. DOMAIN file' = Runs /\ file'[x] = f /\ (\A r \in Runs \ {x} : file'[r] = file[r])
      BY <1>2, <1>3, <3>2 DEF RehearsalTypeInv
    <3>4. f.stage["prepare"] = "passed" => file[x].stage["prepare"] = "passed"
      BY <1>3, <3>1
    <3> QED
      BY <3>1, <3>3, <3>4
  <2>3. CASE file' = [file EXCEPT ![x].passed = TRUE]
    <3> DEFINE f == [file[x] EXCEPT !.passed = TRUE]
    <3>1. TRUE \in BOOLEAN
      OBVIOUS
    <3>2. f \in RunFiles(x) /\ f.stage = file[x].stage
      BY <1>2, <3>1, PassedIs
    <3>3. file' = [file EXCEPT ![x] = f]
      BY <2>3
    <3> HIDE DEF f
    <3>4. DOMAIN file' = Runs /\ file'[x] = f /\ (\A r \in Runs \ {x} : file'[r] = file[r])
      BY <1>2, <1>3, <3>3 DEF RehearsalTypeInv
    <3> QED
      BY <3>2, <3>4
  <2> QED
    BY <2>1, <2>2, <2>3 DEF Raise, Kill, WriteReleaseReport
<1>8. NoProc \in Processes /\ ReleaseIsAt(NoProc) /\ NoProc.stage # "seed"
  BY NoProcIs DEF ReleaseIsAt
<1>9. MadeStays /\ collection' \in [Generations -> [made : BOOLEAN, rows : SUBSET Runs]]
  BY <1>1, <1>3 DEF MadeStays, RehearsalTypeInv
<1>10. ReleaseOnly(x) /\ proc'[x] = NoProc
  BY <1>1, <1>4, <1>5, <1>6, <1>7, <1>8, <1>9, ReleaseStops
<1>11. ReleaseIsAt(proc[x])' /\ proc'[x].stage # "seed"
  BY <1>8, <1>10 DEF ReleaseIsAt
<1>12. StagePassed(x, "prepare")' => StagePassed(x, "prepare")
  BY <1>7, <1>10 DEF StagePassed
<1> QED
  BY <1>1, <1>10, <1>11, <1>12, ReleaseKeeps

-----------------------------------------------------------------------------
(* Every step, and what follows *)

LEMMA RehearsalStarts == RehearsalInit => RehearsalInv
<1> SUFFICES ASSUME RehearsalInit PROVE RehearsalInv
  OBVIOUS
<1>1. /\ file = [r \in Runs |-> NoFile(r)] /\ proc = [r \in Runs |-> NoProc] /\ fixtures = {} /\ vectors = {}
      /\ collection = [g \in Generations |-> NoCollection] /\ dump = [r \in Drills |-> NoDump]
      /\ copy = [r \in Drills |-> [mysql |-> Absent, pg |-> Absent]] /\ report = [r \in Runs |-> "none"]
      /\ toolLock = [t \in {"m5", "m6"} |-> FALSE]
  BY DEF RehearsalInit
<1>2. ASSUME NEW r \in Runs
      PROVE  /\ file[r] \in RunFiles(r) /\ file[r].source = 0 /\ file[r].target = 0 /\ ~file[r].cutoff
             /\ \A s \in NamesOf(r) : file[r].stage[s] = "pending"
             /\ proc[r].at = "none" /\ proc[r].stage = "none" /\ proc[r].source = 0 /\ report[r] = "none"
  <2> DEFINE h == [s \in NamesOf(r) |-> "pending"]
  <2>1. h \in [NamesOf(r) -> Statuses]
    BY DEF Statuses
  <2>2. file[r] = [made |-> FALSE, stage |-> h, source |-> 0, target |-> 0, cutoff |-> FALSE, passed |-> FALSE]
    BY <1>1 DEF NoFile
  <2>3. \A s \in NamesOf(r) : h[s] = "pending"
    OBVIOUS
  <2> HIDE DEF h
  <2>4. file[r] \in RunFiles(r)
    BY <2>1, <2>2, FileOfFields
  <2> QED
    BY <1>1, <2>2, <2>3, <2>4, NoProcIs
<1>3. \A g \in Generations : ~collection[g].made /\ collection[g].rows = {}
  BY <1>1 DEF NoCollection
<1>4. RehearsalTypeInv
  <2>1. proc \in [Runs -> Processes]
    BY <1>1, NoProcIs
  <2>2. collection \in [Generations -> [made : BOOLEAN, rows : SUBSET Runs]]
    BY <1>1 DEF NoCollection
  <2>3. dump \in [Drills -> Dumps]
    BY <1>1 DEF NoDump, Dumps
  <2>4. copy \in [Drills -> [mysql : Copies, pg : Copies]]
    <3>1. Absent \in Copies
      BY DEF Absent, Copies
    <3> QED
      BY <1>1, <3>1
  <2> QED
    BY <1>1, <1>2, <2>1, <2>2, <2>3, <2>4 DEF RehearsalTypeInv
<1>5. ASSUME NEW r \in Drills, NEW s \in {"prepare", "backup", "restore", "validate", "cutover", "rollback"}
      PROVE  ~StagePassed(r, s)
  BY <1>2, DrillNamesAre DEF StagePassed
<1>6. ASSUME NEW r \in Drills PROVE DrillIsSound(r) /\ ~AllPassed(r) /\ SourceOf(r) = 0
  <2>1. r \in Runs
    BY DrillNamesAre
  <2>2. ~copy[r].mysql.whole /\ ~copy[r].pg.whole /\ ~copy[r].mysql.made /\ ~dump[r].listed
    BY <1>1 DEF Absent, NoDump
  <2>3. Seeding(r) /\ Copying(r) /\ InOrder(r)
    BY <1>1, <1>2, <1>5, <2>1, <2>2 DEF Seeding, Copying, InOrder
  <2>4. ~AllPassed(r)
    BY <1>5, AllPassedIs
  <2> QED
    BY <1>2, <2>1, <2>3, <2>4 DEF DrillIsSound, DrillIsAt, SourceOf
<1>7. ASSUME NEW x \in Releases PROVE ReleaseIsAt(proc[x]) /\ proc[x].stage # "seed" /\ ~StagePassed(x, "prepare")
  BY <1>2, ReleaseNamesAre DEF ReleaseIsAt, StagePassed
<1>8. \A r \in Drills : proc[r].at = "none"
  BY <1>2, DrillNamesAre
<1>9. OneAtATime /\ SourcesAreTheirOwn /\ ServesTheDrill
  BY <1>6, <1>8 DEF OneAtATime, SourcesAreTheirOwn, ServesTheDrill
<1>10. RowsAreTheirOwn
  BY <1>3 DEF RowsAreTheirOwn
<1>11. TargetsAreApart /\ RolledBack /\ TargetsAreFilled
  BY <1>5, <1>6, <1>8 DEF TargetsAreApart, RolledBack, TargetsAreFilled
<1>12. ReleasesAreApart
  BY <1>7 DEF ReleasesAreApart
<1> QED
  BY <1>4, <1>6, <1>9, <1>10, <1>11, <1>12 DEF RehearsalInv, StoresInv

\* What no run does: by hand, or by the users of the local databases.
LEMMA OutsideKeeps ==
  ASSUME RehearsalInv,
         \/ \E x \in Releases : EditLocally(x)
         \/ \E t \in {"m5", "m6"} : ClearLock(t)
         \/ Reconnect \/ UNCHANGED rehearsalVars
  PROVE  RehearsalInv'
<1>1. /\ file' = file /\ proc' = proc /\ fixtures' = fixtures /\ vectors' = vectors /\ collection' = collection
      /\ alias' = alias /\ dump' = dump /\ copy' = copy /\ report' = report
  BY DEF EditLocally, ClearLock, Reconnect, rehearsalVars, toolFileVars, storeVars, runVars
<1>2. RehearsalTypeInv /\ (\A r \in Drills : DrillIsSound(r)) /\ StoresInv
  BY DEF RehearsalInv
<1>3. toolLock' \in [{"m5", "m6"} -> BOOLEAN]
  BY <1>2 DEF EditLocally, ClearLock, Reconnect, rehearsalVars, toolFileVars, RehearsalTypeInv
<1>4. RehearsalTypeInv'
  BY <1>1, <1>2, <1>3 DEF RehearsalTypeInv
<1>5. ASSUME NEW r \in Drills PROVE DrillIsSound(r)'
  <2>1. DrillIsSound(r)
    BY <1>2
  <2>2. Seeding(r)' /\ Copying(r)' /\ (r \in Orderly => InOrder(r)')
    BY <1>1, <2>1 DEF DrillIsSound, Seeding, Copying, InOrder, StagePassed
  <2> QED
    BY <1>1, <2>1, <2>2 DEF DrillIsSound, DrillIsAt, AllPassed
<1>6. \A r \in Drills : proc[r].at # "none" => toolLock'["m5"]
  <2> SUFFICES ASSUME NEW r \in Drills, proc[r].at # "none" PROVE toolLock'["m5"]
    OBVIOUS
  <2>1. toolLock["m5"] /\ toolLock \in [{"m5", "m6"} -> BOOLEAN]
    BY <1>2 DEF StoresInv, OneAtATime, RehearsalTypeInv
  <2>2. ASSUME NEW t \in {"m5", "m6"}, ClearLock(t) PROVE t = "m6" /\ toolLock' = [toolLock EXCEPT ![t] = FALSE]
    BY <2>2, DrillNamesAre DEF ClearLock, Held
  <2> QED
    BY <2>1, <2>2 DEF EditLocally, Reconnect, rehearsalVars, toolFileVars
<1>7. \A r \in Drills : SourceOf(r)' = SourceOf(r)
  BY <1>1 DEF SourceOf
<1>8. OneAtATime'
  BY <1>1, <1>2, <1>6 DEF StoresInv, OneAtATime
<1>9. SourcesAreTheirOwn' /\ RowsAreTheirOwn' /\ ServesTheDrill'
  BY <1>1, <1>2, <1>7 DEF StoresInv, SourcesAreTheirOwn, RowsAreTheirOwn, ServesTheDrill
<1>10. \A g \in Generations : Apart(g)' <=> Apart(g)
  BY <1>1, <1>7 DEF Apart
<1>11. \A g : Apart(g) => Apart(g)'
  BY <1>1, <1>7 DEF Apart
<1>12. TargetsAreApart'
  BY <1>1, <1>2, <1>11 DEF StoresInv, TargetsAreApart, StagePassed
<1>13. RolledBack' /\ TargetsAreFilled'
  BY <1>1, <1>2 DEF StoresInv, RolledBack, TargetsAreFilled, StagePassed, AllPassed
<1>14. ReleasesAreApart'
  BY <1>1, <1>2, <1>11 DEF StoresInv, ReleasesAreApart, StagePassed, ReleaseIsAt
<1> QED
  BY <1>4, <1>5, <1>8, <1>9, <1>12, <1>13, <1>14 DEF RehearsalInv, StoresInv

\* RehearsalInv is inductive.
LEMMA RehearsalInvariant == RehearsalSpec => []RehearsalInv
<1>1. RehearsalInit => RehearsalInv
  BY RehearsalStarts
<1>2. RehearsalInv /\ [RehearsalNext]_rehearsalVars => RehearsalInv'
  <2> SUFFICES ASSUME RehearsalInv, [RehearsalNext]_rehearsalVars PROVE RehearsalInv'
    OBVIOUS
  <2>1. ASSUME NEW q \in Drills,
               DrillStep(q) \/ WriteDrillReport(q) \/ Raise(q) \/ Kill(q) \/ \E stage \in NamesOf(q) : Invoke(q, stage)
        PROVE  RehearsalInv'
    BY <2>1, DrillKeeps
  <2>2. ASSUME NEW x \in Releases,
               ReleaseStep(x) \/ WriteReleaseReport(x) \/ Raise(x) \/ Kill(x) \/ \E stage \in NamesOf(x) : Invoke(x, stage)
        PROVE  RehearsalInv'
    BY <2>2, ReleaseStepKeeps, ReleaseInvokeKeeps, ReleaseEndKeeps
  <2> QED
    BY <2>1, <2>2, OutsideKeeps DEF RehearsalNext, Runs
<1> QED
  BY <1>1, <1>2, PTL DEF RehearsalSpec

\* A drill whose report says passed, and whose stages were run in their order, does not
\* leave its restored generation serving: RehearsalInv keeps the sources and the targets
\* of all drills apart, whatever was killed, failed or run again (migration_rehearsal.py).
THEOREM PassedReportIsAlwaysRolledBack == RehearsalSpec => []PassedReportIsRolledBack
<1>1. RehearsalInv => PassedReportIsRolledBack
  <2> SUFFICES ASSUME RehearsalInv, NEW r \in Drills \cap Orderly, report[r] = "passed"
               PROVE  alias # file[r].target
    BY DEF PassedReportIsRolledBack
  <2>1. AllPassed(r)
    BY DEF RehearsalInv, DrillIsSound
  <2> QED
    BY <2>1 DEF RehearsalInv, StoresInv, RolledBack
<1> QED
  BY <1>1, RehearsalInvariant, PTL

\* What validate passed is a whole copy, in whatever order the stages of a drill were run.
\* The releases are run in their order: one told to seed after its prepare failed would
\* write to a generation that a drill may have made its own (m6_release.py, safe_generation).
THEOREM ValidatedCopyIsAlwaysWhole ==
  ASSUME Releases \subseteq Orderly
  PROVE  RehearsalSpec => []ValidatedCopyIsWhole
<1>1. RehearsalInv => ValidatedCopyIsWhole
  <2> SUFFICES ASSUME RehearsalInv, NEW r \in Drills, file[r].stage["validate"] = "passed"
               PROVE  /\ copy[r].mysql = [whole |-> TRUE, made |-> TRUE, rows |-> dump[r].mysql]
                      /\ copy[r].pg = [whole |-> TRUE, made |-> TRUE, rows |-> dump[r].vectors]
                      /\ collection[file[r].target].rows = {r}
    BY DEF ValidatedCopyIsWhole
  <2>1. RehearsalTypeInv /\ DrillIsSound(r) /\ SourcesAreTheirOwn /\ StagePassed(r, "validate")
    BY DEF RehearsalInv, StoresInv, StagePassed
  <2>2. /\ copy[r].mysql.whole /\ copy[r].mysql.made /\ copy[r].mysql.rows = dump[r].mysql
        /\ copy[r].pg.whole /\ copy[r].pg.made /\ copy[r].pg.rows = dump[r].vectors
    BY <2>1 DEF DrillIsSound, Copying
  <2>3. /\ copy[r].mysql.whole = TRUE /\ copy[r].mysql.made = TRUE
        /\ copy[r].pg.whole = TRUE /\ copy[r].pg.made = TRUE
    BY <2>1, <2>2, CopyIs DEF Copies
  <2>4. \A c \in Copies : c = [whole |-> c.whole, made |-> c.made, rows |-> c.rows]
    BY DEF Copies
  <2>5. file[r].target \in Generations
    BY <2>1, RestoredTarget
  <2>6. r \in collection[file[r].target].rows
    BY <2>1 DEF RehearsalInv, StoresInv, TargetsAreFilled
  <2>7. collection[file[r].target].rows = {r}
    BY <2>5, <2>6 DEF RehearsalInv, StoresInv, RowsAreTheirOwn
  <2>8. copy[r].mysql \in Copies /\ copy[r].pg \in Copies
    BY <2>1, CopyIs
  <2> QED
    BY <2>2, <2>3, <2>4, <2>7, <2>8
<1> QED
  BY <1>1, RehearsalInvariant, PTL

=============================================================================
