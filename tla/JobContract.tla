----------------------------- MODULE JobContract ------------------------------
(***************************************************************************)
(* What POST /upload/async promises about a job, whoever runs it: its      *)
(* batch is applied at most once and only while the job is 'processing',   *)
(* 'completed' is reported only of an applied batch, and 'failed' of a     *)
(* batch that was not applied, unless the surroundings failed (a database  *)
(* call without an answer, a dead process) at some time before.            *)
(***************************************************************************)
EXTENDS Naturals

CONSTANT Jobs

VARIABLES
  status,   \* upload_jobs.status, "none" before the row exists
  writes,   \* how often the batch was committed
  faulted   \* has anything around the system failed so far?

contractVars == <<status, writes, faulted>>

Init ==
  /\ status = [j \in Jobs |-> "none"]
  /\ writes = [j \in Jobs |-> 0]
  /\ faulted = FALSE

Become(j, s) == status' = [status EXCEPT ![j] = s] /\ writes' = writes

Submit(j) == status[j] = "none" /\ Become(j, "queued")

Claim(j) == status[j] = "queued" /\ Become(j, "processing")

Apply(j) ==
  /\ status[j] = "processing"
  /\ writes[j] = 0
  /\ writes' = [writes EXCEPT ![j] = 1]
  /\ status' = status

Complete(j) ==
  /\ status[j] = "processing"
  /\ writes[j] = 1
  /\ Become(j, "completed")

Fail(j) ==
  /\ status[j] = "processing"
  /\ writes[j] = 0 \/ faulted'
  /\ Become(j, "failed")

\* The outcome was recorded, its acknowledgement lost, and the handler of that
\* error records a failure over it.
Overturn(j) ==
  /\ status[j] = "completed"
  /\ faulted
  /\ Become(j, "failed")

JobStep(j) ==
  Submit(j) \/ Claim(j) \/ Apply(j) \/ Complete(j) \/ Fail(j) \/ Overturn(j)

Next ==
  /\ (\E j \in Jobs : JobStep(j)) \/ UNCHANGED <<status, writes>>
  /\ faulted' \in BOOLEAN
  /\ faulted => faulted'

Spec == Init /\ [][Next]_contractVars
===============================================================================
