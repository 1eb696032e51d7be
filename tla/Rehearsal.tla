------------------------------ MODULE Rehearsal ------------------------------
(***************************************************************************)
(* The migration rehearsal (trade_rag/migration_rehearsal.py, "m5") and    *)
(* the release acceptance (trade_rag/m6_release.py, "m6"): command line    *)
(* tools that walk a run through named stages, keep its progress in a      *)
(* state file under a lock directory, and work on databases they share.    *)
(* MySQL, PostgreSQL, Milvus and its backup service are external: each     *)
(* call either does what it is asked or raises.                            *)
(***************************************************************************)
EXTENDS Integers, FiniteSets, FiniteSetsExt

CONSTANTS Drills,             \* run ids of the migration rehearsal
          Releases,           \* run ids of the release acceptance
          Orderly,            \* runs whose stages are run in their order; nothing enforces it
          ReleaseGeneration,  \* safe_generation(run_id)
          MaxGeneration,      \* bound on the Milvus generations
          MaxDrillFaults           \* bound on the calls that raise and the processes killed

ASSUME RehearsalAssumption ==
  /\ Drills \cap Releases = {} /\ Orderly \subseteq Drills \cup Releases
  /\ ReleaseGeneration \in [Releases -> 1..MaxGeneration]
  /\ MaxGeneration \in Nat /\ MaxDrillFaults \in Nat

VARIABLES
  file,        \* state.json of every run
  toolLock,        \* the .lock directory of either tool
  proc,        \* the process that runs a stage of a run
  fixtures,        \* trade_ops: the drills whose fixture it holds
  vectors,     \* rag_child_vector of the source database, likewise
  pgReleases,  \* releases whose PostgreSQL database exists
  collection,  \* what each Milvus generation holds, or "none"
  alias,       \* the generation trade_knowledge_active names, 0 for none
  dump,        \* the backup files of a drill
  copy,        \* the restored databases of a drill
  report,      \* report.json and release-report.json
  isolated,    \* PostgreSQL is paused or cut off its network
  drifted,     \* releases whose fingerprint the local databases no longer have
  drillFaults       \* calls that raised and processes killed so far

toolFileVars  == <<file, toolLock, proc>>
storeVars == <<fixtures, vectors, pgReleases, collection, alias>>
runVars   == <<dump, copy, report>>
worldVars == <<isolated, drifted, drillFaults>>
rehearsalVars == <<toolFileVars, storeVars, runVars, worldVars>>

Runs == Drills \cup Releases
Tool(r) == IF r \in Drills THEN "m5" ELSE "m6"
Generations == 1..MaxGeneration

DrillStages   == <<"prepare", "backup", "restore", "validate", "cutover", "rollback">>
ReleaseStages == <<"prepare", "seed", "load", "fault", "security", "validate">>
StagesOf(r) == IF r \in Drills THEN DrillStages ELSE ReleaseStages
NamesOf(r) == {StagesOf(r)[i] : i \in 1..6}

NoFile(r) == [made |-> FALSE, stage |-> [s \in NamesOf(r) |-> "pending"],
              source |-> 0, target |-> 0, cutoff |-> FALSE, passed |-> FALSE]
NoProc == [stage |-> "none", at |-> "none", source |-> 0]
Absent == [whole |-> FALSE, made |-> FALSE, rows |-> {}]
NoDump == [mysql |-> {}, vectors |-> {}, milvus |-> FALSE, listed |-> FALSE]
NoCollection == [made |-> FALSE, rows |-> {}]

RehearsalInit ==
  /\ file = [r \in Runs |-> NoFile(r)]
  /\ toolLock = [t \in {"m5", "m6"} |-> FALSE]
  /\ proc = [r \in Runs |-> NoProc]
  /\ fixtures = {} /\ vectors = {} /\ pgReleases = {}
  /\ collection = [g \in Generations |-> NoCollection]
  /\ alias = 0
  /\ dump = [r \in Drills |-> NoDump]
  /\ copy = [r \in Drills |-> [mysql |-> Absent, pg |-> Absent]]
  /\ report = [r \in Runs |-> "none"]
  /\ isolated = FALSE /\ drifted = {} /\ drillFaults = 0

-----------------------------------------------------------------------------
(* The stage runner *)

AllPassed(r) == \A s \in NamesOf(r) : file[r].stage[s] = "passed"
EarlierPassed(r, stage) ==
  \A i \in 1..6 : \A j \in 1..(i - 1) :
    StagesOf(r)[i] = stage => file[r].stage[StagesOf(r)[j]] = "passed"

\* where the body of a stage begins
FirstStep(r, stage) ==
  CASE r \in Drills /\ stage = "prepare" -> "rows"
    [] stage = "backup"   -> "dump"
    [] stage = "restore"  -> "manifest"
    [] r \in Drills /\ stage = "validate" -> "compare"
    [] stage = "cutover"  -> "switch"
    [] stage = "rollback" -> "switch back"
    [] r \in Releases /\ stage = "prepare" -> "database"
    [] stage = "seed"     -> "seed"
    [] stage = "load"     -> "search"
    [] stage = "fault"    -> "isolate"
    [] stage = "security" -> "audit"
    [] r \in Releases /\ stage = "validate" -> "judge"

\* what is done after a stage that passed, in this call or an earlier one
Epilogue(r, stage) ==
  IF stage = "rollback" \/ (r \in Releases /\ stage = "validate") THEN "report" ELSE "none"

\* mutant: a stage that passed is run again
SkipsNever(r, stage) == FALSE

\* if current.status == "passed": return state
Skips(r, stage) == file[r].stage[stage] = "passed"

\* the lock is a directory: whoever makes it holds it, until it is removed
Invoke(r, stage) ==
  /\ proc[r].at = "none"
  /\ ~toolLock[Tool(r)]
  /\ r \in Orderly => EarlierPassed(r, stage)
  /\ file[r].made \/ stage = "prepare"
  /\ IF Skips(r, stage)
     THEN /\ Epilogue(r, stage) # "none"
          /\ proc' = [proc EXCEPT ![r] = [NoProc EXCEPT !.stage = stage, !.at = "report"]]
          /\ UNCHANGED file
     ELSE /\ file' = [file EXCEPT ![r].made = TRUE, ![r].stage[stage] = "running"]
          /\ proc' = [proc EXCEPT ![r] = [NoProc EXCEPT !.stage = stage,
                                                        !.at = FirstStep(r, stage)]]
  /\ toolLock' = [toolLock EXCEPT ![Tool(r)] = ~(Skips(r, stage) /\ r \in Releases)]
  /\ UNCHANGED <<storeVars, runVars, worldVars>>

\* _save_state with what the stage put into the state, then the lock is freed.
\* The report of a drill is written under the lock, that of a release is not.
Saved(r, status) ==
  [file[r] EXCEPT !.stage[proc[r].stage] = status,
                  !.source = IF proc[r].source = 0 THEN file[r].source ELSE proc[r].source,
                  !.target = IF proc[r].source = 0 THEN file[r].target ELSE proc[r].source + 1]
Passes(r) ==
  /\ file' = [file EXCEPT ![r] = Saved(r, "passed")]
  /\ proc' = [proc EXCEPT ![r] = IF Epilogue(r, proc[r].stage) = "none" THEN NoProc
                                ELSE [proc[r] EXCEPT !.at = "report"]]
  /\ toolLock' = [toolLock EXCEPT ![Tool(r)] = r \in Drills /\ Epilogue(r, proc[r].stage) = "report"]

GoesTo(r, step) ==
  /\ proc' = [proc EXCEPT ![r].at = step]
  /\ UNCHANGED <<file, toolLock>>

-----------------------------------------------------------------------------
(* The migration rehearsal *)

Reached(r, step) == proc[r].at = step

\* one transaction of plain INSERTs: it fails on rows an earlier try left
SeedRows(r) ==
  /\ r \in Drills /\ Reached(r, "rows") /\ r \notin fixtures
  /\ fixtures' = fixtures \cup {r}
  /\ GoesTo(r, "generation")
  /\ UNCHANGED <<vectors, pgReleases, collection, alias, runVars, worldVars>>

\* max(generations, default=0) + 1
NextGeneration == 1 + Max({0} \cup {g \in Generations : collection[g].made})

CreateGeneration(r) ==
  /\ r \in Drills /\ Reached(r, "generation")
  /\ NextGeneration < MaxGeneration
  /\ collection' = [collection EXCEPT ![NextGeneration].made = TRUE]
  /\ alias' = NextGeneration
  /\ proc' = [proc EXCEPT ![r].at = "vectors", ![r].source = NextGeneration]
  /\ UNCHANGED <<file, toolLock, fixtures, vectors, pgReleases, runVars, worldVars>>

\* the Milvus store writes through the alias
SeedVectors(r) ==
  /\ Reached(r, "vectors") /\ ~isolated
  /\ vectors' = vectors \cup {r}
  /\ collection' = [collection EXCEPT ![alias].rows = @ \cup {r}]
  /\ GoesTo(r, "cutoff")
  /\ UNCHANGED <<fixtures, pgReleases, alias, runVars, worldVars>>

\* the cutoff is a timestamp; nothing stops other writers
Cutoff(r) ==
  /\ Reached(r, "cutoff")
  /\ file' = [file EXCEPT ![r] = [Saved(r, "passed") EXCEPT !.cutoff = TRUE]]
  /\ proc' = [proc EXCEPT ![r] = NoProc]
  /\ toolLock' = [toolLock EXCEPT !["m5"] = FALSE]
  /\ UNCHANGED <<storeVars, runVars, worldVars>>

\* mysqldump and pg_dump, copied out of their containers; a dump carries its
\* date, so the checksums of an earlier try no longer fit
Dump(r) ==
  /\ Reached(r, "dump") /\ file[r].cutoff /\ ~isolated
  /\ dump' = [dump EXCEPT ![r].mysql = fixtures, ![r].vectors = vectors, ![r].listed = FALSE]
  /\ GoesTo(r, "milvus backup")
  /\ UNCHANGED <<storeVars, copy, report, worldVars>>

\* the backup service refuses a name it already has
MilvusBackup(r) ==
  /\ Reached(r, "milvus backup") /\ ~dump[r].milvus
  /\ dump' = [dump EXCEPT ![r].milvus = TRUE]
  /\ GoesTo(r, "list")
  /\ UNCHANGED <<storeVars, copy, report, worldVars>>

WriteManifest(r) ==
  /\ Reached(r, "list")
  /\ dump' = [dump EXCEPT ![r].listed = TRUE]
  /\ Passes(r)
  /\ UNCHANGED <<storeVars, copy, report, worldVars>>

VerifyManifest(r) ==
  /\ Reached(r, "manifest") /\ dump[r].listed
  /\ GoesTo(r, IF copy[r].mysql.made THEN "postgres" ELSE "mysql")
  /\ UNCHANGED <<storeVars, runVars, worldVars>>

CreateDatabase(r) ==
  /\ Reached(r, "mysql")
  /\ copy' = [copy EXCEPT ![r].mysql.made = TRUE]
  /\ GoesTo(r, "import")
  /\ UNCHANGED <<storeVars, dump, report, worldVars>>
ImportDump(r) ==
  /\ Reached(r, "import")
  /\ copy' = [copy EXCEPT ![r].mysql = [whole |-> TRUE, made |-> TRUE, rows |-> dump[r].mysql]]
  /\ GoesTo(r, "postgres")
  /\ UNCHANGED <<storeVars, dump, report, worldVars>>

\* a database that exists is taken for restored
SkipPostgres(r) ==
  /\ Reached(r, "postgres") /\ copy[r].pg.made /\ ~isolated
  /\ GoesTo(r, "milvus")
  /\ UNCHANGED <<storeVars, runVars, worldVars>>
CreatePostgres(r) ==
  /\ Reached(r, "postgres") /\ ~copy[r].pg.made /\ ~isolated
  /\ copy' = [copy EXCEPT ![r].pg.made = TRUE]
  /\ GoesTo(r, "pg_restore")
  /\ UNCHANGED <<storeVars, dump, report, worldVars>>
RestorePostgres(r) ==
  /\ Reached(r, "pg_restore") /\ ~isolated
  /\ copy' = [copy EXCEPT ![r].pg = [whole |-> TRUE, made |-> TRUE, rows |-> dump[r].vectors]]
  /\ GoesTo(r, "milvus")
  /\ UNCHANGED <<storeVars, dump, report, worldVars>>

\* the source collection is restored under the target's name, which must be free
TargetIsFree(r) == ~collection[file[r].target].made
RestoreMilvus(r) ==
  /\ Reached(r, "milvus") /\ TargetIsFree(r)
  /\ collection' = [collection EXCEPT ![file[r].target] = [made |-> TRUE, rows |-> {r}]]
  /\ GoesTo(r, "clock")
  /\ UNCHANGED <<fixtures, vectors, pgReleases, alias, runVars, worldVars>>

\* the durations are compared with the limit when everything is restored
WithinLimit(r) ==
  /\ Reached(r, "clock")
  /\ Passes(r)
  /\ UNCHANGED <<storeVars, runVars, worldVars>>

\* mutant: the snapshots are compared without the tables that are missing
MatchesByRows(r) ==
  copy[r].mysql.rows \subseteq fixtures /\ copy[r].pg.rows \subseteq vectors

\* snapshots of every table of both databases, source and restored
Matches(r) ==
  /\ copy[r].mysql.whole /\ copy[r].mysql.rows = fixtures
  /\ copy[r].pg.whole /\ copy[r].pg.rows = vectors

Compare(r) ==
  /\ Reached(r, "compare") /\ ~isolated
  /\ Matches(r)
  /\ GoesTo(r, "activate")
  /\ UNCHANGED <<storeVars, runVars, worldVars>>

\* _load_generation and activate_generation refuse a collection that is not there
Activates(g) ==
  /\ g # 0 /\ collection[g].made
  /\ alias' = g

ActivateTarget(r) ==
  /\ Reached(r, "activate")
  /\ Activates(file[r].target)
  /\ GoesTo(r, "answers")
  /\ UNCHANGED <<fixtures, vectors, pgReleases, collection, runVars, worldVars>>

\* the answers through the alias are kept, the source generation is activated
\* again (finally), and the answers of both restored stores are compared
CompareAnswers(r) ==
  /\ Reached(r, "answers")
  /\ r \in copy[r].pg.rows <=> r \in collection[alias].rows
  /\ Activates(file[r].source)
  /\ Passes(r)
  /\ UNCHANGED <<fixtures, vectors, pgReleases, collection, runVars, worldVars>>

\* The alias moves first; what the restored databases hold is looked at after it.
Switch(r) ==
  /\ Reached(r, "switch")
  /\ Activates(file[r].target)
  /\ GoesTo(r, "probe")
  /\ UNCHANGED <<fixtures, vectors, pgReleases, collection, runVars, worldVars>>
Probe(r) ==
  /\ Reached(r, "probe") /\ ~isolated
  /\ copy[r].mysql.made /\ copy[r].pg.made
  /\ Passes(r)
  /\ UNCHANGED <<storeVars, runVars, worldVars>>

SwitchBack(r) ==
  /\ Reached(r, "switch back") /\ ~isolated
  /\ Activates(file[r].source)
  /\ Passes(r)
  /\ UNCHANGED <<fixtures, vectors, pgReleases, collection, runVars, worldVars>>

DrillStep(r) ==
  \/ SeedRows(r) \/ CreateGeneration(r) \/ SeedVectors(r) \/ Cutoff(r)
  \/ Dump(r) \/ MilvusBackup(r) \/ WriteManifest(r) \/ VerifyManifest(r)
  \/ CreateDatabase(r) \/ ImportDump(r) \/ SkipPostgres(r) \/ CreatePostgres(r)
  \/ RestorePostgres(r) \/ RestoreMilvus(r) \/ WithinLimit(r)
  \/ Compare(r) \/ ActivateTarget(r) \/ CompareAnswers(r)
  \/ Switch(r) \/ Probe(r) \/ SwitchBack(r)

-----------------------------------------------------------------------------
(* The release acceptance *)

\* the migrations, then a database of its own: CREATE DATABASE is not repeatable
CreateReleaseDatabase(r) ==
  /\ Reached(r, "database") /\ r \notin pgReleases /\ ~isolated
  /\ pgReleases' = pgReleases \cup {r}
  /\ GoesTo(r, "collection")
  /\ UNCHANGED <<fixtures, vectors, collection, alias, runVars, worldVars>>

\* a generation of the reserved range, never activated; the fingerprint of the
\* local databases is taken last
CreateReleaseCollection(r) ==
  /\ Reached(r, "collection") /\ ~collection[ReleaseGeneration[r]].made
  /\ collection' = [collection EXCEPT ![ReleaseGeneration[r]].made = TRUE]
  /\ Passes(r)
  /\ UNCHANGED <<fixtures, vectors, pgReleases, alias, runVars, worldVars>>

SeedRelease(r) ==
  /\ Reached(r, "seed") /\ r \in pgReleases /\ ~isolated
  /\ collection[ReleaseGeneration[r]].made
  /\ collection' = [collection EXCEPT ![ReleaseGeneration[r]].rows = {r}]
  /\ Passes(r)
  /\ UNCHANGED <<fixtures, vectors, pgReleases, alias, runVars, worldVars>>

\* the known questions, the latencies and the error counts; the configuration
Search(r) ==
  /\ Reached(r, "search") /\ ~isolated
  /\ r \in collection[ReleaseGeneration[r]].rows
  /\ Passes(r)
  /\ UNCHANGED <<storeVars, runVars, worldVars>>
Audit(r) ==
  /\ Reached(r, "audit")
  /\ Passes(r)
  /\ UNCHANGED <<storeVars, runVars, worldVars>>

\* PostgreSQL is paused, MySQL and Milvus restarted, PostgreSQL disconnected
Isolate(r) ==
  /\ Reached(r, "isolate") /\ r \in pgReleases
  /\ isolated' = TRUE
  /\ GoesTo(r, "rejoin")
  /\ UNCHANGED <<storeVars, runVars, drifted, drillFaults>>
Rejoin(r) ==
  /\ Reached(r, "rejoin")
  /\ isolated' = FALSE
  /\ Passes(r)
  /\ UNCHANGED <<storeVars, runVars, drifted, drillFaults>>

\* all M6 stages must pass before validation
Judged(r) == \A s \in NamesOf(r) \ {"validate"} : file[r].stage[s] = "passed"

Judge(r) ==
  /\ Reached(r, "judge")
  /\ Judged(r) /\ r \notin drifted
  /\ Passes(r)
  /\ UNCHANGED <<storeVars, runVars, worldVars>>

ReleaseStep(r) ==
  \/ CreateReleaseDatabase(r) \/ CreateReleaseCollection(r) \/ SeedRelease(r)
  \/ Search(r) \/ Audit(r) \/ Isolate(r) \/ Rejoin(r) \/ Judge(r)

-----------------------------------------------------------------------------
(* Reports, errors and killed processes *)

WriteDrillReport(r) ==
  /\ r \in Drills /\ Reached(r, "report")
  /\ report' = [report EXCEPT ![r] = IF AllPassed(r) THEN "passed" ELSE "failed"]
  /\ proc' = [proc EXCEPT ![r] = NoProc]
  /\ toolLock' = [toolLock EXCEPT !["m5"] = FALSE]
  /\ UNCHANGED <<file, storeVars, dump, copy, worldVars>>

\* state.passed, the report and its manifest; the privacy scan comes after them
WriteReleaseReport(r) ==
  /\ r \in Releases /\ Reached(r, "report")
  /\ file' = [file EXCEPT ![r].passed = TRUE]
  /\ report' = [report EXCEPT ![r] = "passed"]
  /\ proc' = [proc EXCEPT ![r] = NoProc]
  /\ UNCHANGED <<toolLock, storeVars, dump, copy, worldVars>>

Held(r) == r \in Drills \/ proc[r].at # "report"

\* Any call can raise.  What a finally block does then: validate activates the
\* source generation, unless that raises too, and fault rejoins PostgreSQL,
\* unless the disconnect itself raised.
Raise(r) ==
  /\ proc[r].at # "none"
  /\ drillFaults < MaxDrillFaults /\ drillFaults' = drillFaults + 1
  /\ IF Reached(r, "report") THEN UNCHANGED file
                         ELSE file' = [file EXCEPT ![r] = Saved(r, "failed")]
  /\ proc' = [proc EXCEPT ![r] = NoProc]
  /\ toolLock' = [toolLock EXCEPT ![Tool(r)] = @ /\ ~Held(r)]
  /\ \/ /\ proc[r].at \in {"activate", "answers"}
        /\ Activates(file[r].source)
     \/ UNCHANGED alias
  /\ isolated' \in IF Reached(r, "rejoin") THEN BOOLEAN ELSE {isolated}
  /\ UNCHANGED <<fixtures, vectors, pgReleases, collection, runVars, drifted>>

\* the lock directory and the state "running" stay behind
Kill(r) ==
  /\ proc[r].at # "none"
  /\ drillFaults < MaxDrillFaults /\ drillFaults' = drillFaults + 1
  /\ proc' = [proc EXCEPT ![r] = NoProc]
  /\ UNCHANGED <<file, toolLock, storeVars, runVars, isolated, drifted>>

\* by hand: the lock of a dead process, and a PostgreSQL left on its own
ClearLock(t) ==
  /\ toolLock[t]
  /\ \A r \in Runs : Tool(r) = t /\ proc[r].at # "none" => ~Held(r)
  /\ toolLock' = [toolLock EXCEPT ![t] = FALSE]
  /\ UNCHANGED <<file, proc, storeVars, runVars, worldVars>>
Reconnect ==
  /\ isolated /\ \A r \in Releases : proc[r].stage # "fault"
  /\ isolated' = FALSE
  /\ UNCHANGED <<toolFileVars, storeVars, runVars, drifted, drillFaults>>

\* the local databases are in use while the acceptance runs
EditLocally(r) ==
  /\ file[r].stage["prepare"] = "passed"
  /\ r \notin drifted /\ drifted' = drifted \cup {r}
  /\ UNCHANGED <<toolFileVars, storeVars, runVars, isolated, drillFaults>>

RehearsalNext ==
  \/ \E r \in Runs : \/ \E stage \in NamesOf(r) : Invoke(r, stage)
                     \/ Raise(r) \/ Kill(r)
  \/ \E r \in Drills : DrillStep(r) \/ WriteDrillReport(r)
  \/ \E r \in Releases : ReleaseStep(r) \/ WriteReleaseReport(r) \/ EditLocally(r)
  \/ \E t \in {"m5", "m6"} : ClearLock(t)
  \/ Reconnect

RehearsalSpec == RehearsalInit /\ [][RehearsalNext]_rehearsalVars

-----------------------------------------------------------------------------
(* Properties *)

\* A drill whose report says passed does not leave its restored generation
\* serving, when its stages were run in their order: whatever was killed, failed,
\* retried or run again, and whichever other drill ran between its stages.
PassedReportIsRolledBack ==
  \A r \in Drills \cap Orderly : report[r] = "passed" => alias # file[r].target

\* In any order, what validate passed is a whole copy: an import that was cut
\* short and then taken for restored never gets past it.
ValidatedCopyIsWhole ==
  \A r \in Drills : file[r].stage["validate"] = "passed" =>
    /\ copy[r].mysql = [whole |-> TRUE, made |-> TRUE, rows |-> dump[r].mysql]
    /\ copy[r].pg = [whole |-> TRUE, made |-> TRUE, rows |-> dump[r].vectors]
    /\ collection[file[r].target].rows = {r}

=============================================================================
