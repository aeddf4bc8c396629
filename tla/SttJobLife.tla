------------------------------ MODULE SttJobLife ------------------------------
(***************************************************************************)
(* What a client that polls a voice job may rely on: an upload gets one    *)
(* job at most, only its own work takes the job forward, a record comes    *)
(* with COMPLETED, a settled job whose work is over changes no more, and   *)
(* what was deleted does not come back.  voice-stt-job.service.ts is shown *)
(* to implement it by VoiceSttJob.                                         *)
(***************************************************************************)
CONSTANT Uploads
VARIABLES
    open,       \* the account exists
    status,     \* the job the client sees: "new" before there is one, "gone" when there
                \* will be none any more
    records,    \* uploads with a record
    work        \* uploads somebody still works on

lifeVars == <<open, status, records, work>>
Running == {"STT_PROCESSING", "SUMMARY_PROCESSING"}

Init ==
    /\ open = TRUE /\ records = {} /\ work = {}
    /\ status = [u \in Uploads |-> "new"]

Become(u, s) == status' = [status EXCEPT ![u] = s]

\* The job is created, and worked on unless the process did not hear of the commit.
Accept(u) ==
    /\ open /\ status[u] = "new" /\ Become(u, "STT_PROCESSING")
    /\ work' \in {work, work \cup {u}}
    /\ UNCHANGED <<open, records>>

\* The transcript is there.  A sweep may have failed the job before.
Summarise(u) ==
    /\ u \in work \ records /\ status[u] \in {"STT_PROCESSING", "FAILED"}
    /\ Become(u, "SUMMARY_PROCESSING")
    /\ UNCHANGED <<open, records, work>>

\* The record and the last status, in one; the process may not hear of it.
Complete(u) ==
    /\ u \in work \ records /\ status[u] \in {"SUMMARY_PROCESSING", "FAILED"}
    /\ Become(u, "COMPLETED") /\ records' = records \cup {u}
    /\ work' \in {work, work \ {u}}
    /\ UNCHANGED open

\* The work gives up, also on a job it completed without hearing of it.
Fail(u) ==
    /\ u \in work /\ work' = work \ {u}
    /\ status[u] # "gone" /\ Become(u, "FAILED")
    /\ UNCHANGED <<open, records>>

\* A booting process fails whatever is running; work that goes on elsewhere is not told.
Sweep ==
    /\ status' = [u \in Uploads |-> IF status[u] \in Running THEN "FAILED" ELSE status[u]]
    /\ UNCHANGED <<open, records, work>>

\* Requests and their work end without a word.
Abandon(us) ==
    /\ work' = work \ us
    /\ status' = [u \in Uploads |-> IF u \in us /\ status[u] = "new" THEN "gone" ELSE status[u]]
    /\ UNCHANGED <<open, records>>

DeleteRecord(u) ==
    /\ u \in records /\ records' = records \ {u} /\ Become(u, "gone")
    /\ UNCHANGED <<open, work>>

DeleteAccount ==
    /\ open /\ open' = FALSE /\ records' = {}
    /\ status' = [u \in Uploads |-> IF status[u] = "new" THEN "new" ELSE "gone"]
    /\ UNCHANGED work

Next ==
    \/ \E u \in Uploads : Accept(u) \/ Summarise(u) \/ Complete(u) \/ Fail(u) \/ DeleteRecord(u)
    \/ \E us \in SUBSET Uploads : Abandon(us)
    \/ Sweep \/ DeleteAccount

Spec == Init /\ [][Next]_lifeVars
=============================================================================
