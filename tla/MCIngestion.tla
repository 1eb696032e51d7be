----------------------------- MODULE MCIngestion -----------------------------
(* Small instances of what takes documents in: the poll of a mailbox with the *)
(* review of its mails, and the knowledge base with its worker. A behaviour  *)
(* moves the one in focus and leaves the other as it began.                  *)
EXTENDS EmailIntake, Knowledge, TLC

CONSTANTS rfq, extra, p, q, full, gaps, a
VARIABLE focus

MCVerdicts == {v \in [Mails -> {"rfq", "other", "skip"}] : v[rfq] = "rfq" /\ v[extra] = "skip"}

-----------------------------------------------------------------------------

IngestionInit ==
  /\ focus \in {"intake", "knowledge"}
  /\ IntakeInit /\ KnowledgeInit
  /\ focus # "intake" => class[extra] = "skip"
  /\ focus # "knowledge" => kind[a] = "text"

IngestionNext ==
  \/ /\ focus = "intake" /\ IntakeNext
     /\ UNCHANGED <<vars, focus>>
  \/ /\ focus = "knowledge" /\ KnowledgeNext
     /\ UNCHANGED <<intakeVars, focus>>

ingestionVars == <<intakeVars, vars, focus>>

\* The fairness of the two specifications, for the part in focus.
IngestionFairness ==
  /\ \A l \in Pollers : WF_intakeVars(focus = "intake" /\ PollStep(l))
  /\ \A m \in Mails : WF_intakeVars(focus = "intake" /\ TimeStep(m))
  /\ WF_vars(focus = "knowledge" /\ WorkerStep)
  /\ WF_vars(focus = "knowledge" /\ RequestStep)
  /\ WF_vars(focus = "knowledge" /\ Startup)

IngestionSpec == IngestionInit /\ [][IngestionNext]_ingestionVars /\ IngestionFairness
=============================================================================
