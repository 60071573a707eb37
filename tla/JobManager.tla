----------------------------- MODULE JobManager -----------------------------
(***************************************************************************)
(* The gateway's in-memory job table (runtime/job_manager.py), as far as   *)
(* pull jobs use it.  update_job has no guard on the transition: it        *)
(* overwrites the status whatever it was, it ignores a job it does not     *)
(* know, and it leaves error alone when the caller passes none.            *)
(***************************************************************************)
EXTENDS Mesh

VARIABLES
  status,    \* _jobs: the status of a job, "absent" when there is no entry
  error      \* the kind of error message kept in the entry

managerVars == <<status, error>>

JobStatus == {"queued", "running", "completed", "failed"}
Terminal  == {"completed", "failed"}
JobError  == {"none", "unclaimed", "action"}

ManagerTypeOK ==
  /\ status \in [Requests -> JobStatus \cup {"absent"}]
  /\ error \in [Requests -> JobError]

ManagerInit ==
  /\ status = [r \in Requests |-> "absent"]
  /\ error = [r \in Requests |-> "none"]

\* get_job returned an entry.
Known(r) == status[r] # "absent"

\* create_job (accepted) and the update to queued run without a suspension
\* between them, so nobody sees the accepted state of a pull job.
CreateQueued(r) ==
  /\ status' = [status EXCEPT ![r] = "queued"]
  /\ error' = [error EXCEPT ![r] = "none"]

\* Mutant of UpdateJob: an error turns the status into one that does not exist.
UpdateJobError(r, s, e) ==
  /\ status' = [status EXCEPT ![r] = IF e = "none" THEN s ELSE "error"]
  /\ error' = [error EXCEPT ![r] = e]

\* update_job(status, error); e = "none" leaves the stored error as it is.
UpdateJob(r, s, e) ==
  IF Known(r)
  THEN /\ status' = [status EXCEPT ![r] = s]
       /\ error' = IF e = "none" THEN error ELSE [error EXCEPT ![r] = e]
  ELSE UNCHANGED managerVars

\* cleanup_expired drops any set of terminal entries whose TTL has run out.
Purge(S) ==
  /\ S # {}
  /\ \A r \in S : status[r] \in Terminal
  /\ status' = [r \in Requests |-> IF r \in S THEN "absent" ELSE status[r]]
  /\ error' = [r \in Requests |-> IF r \in S THEN "none" ELSE error[r]]

\* The table is in memory only.
ManagerLost ==
  /\ status' = [r \in Requests |-> "absent"]
  /\ error' = [r \in Requests |-> "none"]
=============================================================================
