------------------------------- MODULE RunLog -------------------------------
(***************************************************************************)
(* What the engine promises about the table sync_runs, as its readers      *)
(* (GET /sync-runs, the dashboard) see it.  A connection has at most one   *)
(* run in progress; only a run in progress gets a verdict, once, and it    *)
(* keeps it for ever.  A run whose task is lost stays RUNNING, and nothing *)
(* ever resumes, closes or reuses it: the engine has no recovery.          *)
(***************************************************************************)
EXTENDS Naturals, FiniteSets

CONSTANTS Connections, RunIds, None

Verdicts == {"SUCCESS", "PARTIAL", "FAILED"}

VARIABLES
  log,     \* the rows: connection and status of every run
  open     \* the runs some task is working on

NoRun == [conn |-> None, status |-> "NONE"]

Init == log = [r \in RunIds |-> NoRun] /\ open = {}

Open(r, c) ==
  /\ log[r].status = "NONE"
  /\ \A q \in open : log[q].conn # c
  /\ log' = [log EXCEPT ![r] = [conn |-> c, status |-> "RUNNING"]]
  /\ open' = open \cup {r}

Close(r, verdict) ==
  /\ r \in open
  /\ log' = [log EXCEPT ![r].status = verdict]
  /\ open' = open \ {r}

\* A failed query loses one run, a crash all of them.
Lose(lost) ==
  /\ open' = open \ lost
  /\ UNCHANGED log

Next ==
  \/ \E r \in RunIds, c \in Connections : Open(r, c)
  \/ \E r \in open, verdict \in Verdicts : Close(r, verdict)
  \/ \E lost \in SUBSET open : Lose(lost)

Spec == Init /\ [][Next]_<<log, open>>
=============================================================================
