---------------------------- MODULE RunLifecycle ----------------------------
(***************************************************************************)
(* What the job orchestrator promises to whoever submits a batch of        *)
(* MapReduce jobs, without any of its machinery: an accepted batch is a    *)
(* list of jobs that run one after the other, in the order of the request, *)
(* each from PENDING through RUNNING to COMPLETED or FAILED.  A failed job *)
(* does not stop the batch.  The registry lives in memory, so all batches  *)
(* known at some moment can be lost together.                              *)
(*                                                                         *)
(* JobRegistry implements this specification.                              *)
(***************************************************************************)
EXTENDS Naturals, Sequences

CONSTANTS Run,    \* run ids: each names at most one accepted batch
          Sizes   \* how many jobs a batch may have, all positive

Terminal == {"COMPLETED", "FAILED"}
Status   == {"PENDING", "RUNNING"} \cup Terminal

\* The batch of a process that is gone: nobody will ever say how it ended.
Lost == <<"LOST">>

VARIABLE batch   \* batch[r]: the statuses of r's jobs, << >> before r is accepted

Init == batch = [r \in Run |-> << >>]

Register(r) ==
  /\ batch[r] = << >>
  /\ \E n \in Sizes :
        batch' = [batch EXCEPT ![r] = [i \in 1..n |-> "PENDING"]]

\* Job i starts when every job before it has ended.
Start(r) ==
  /\ batch[r] # Lost
  /\ \E i \in DOMAIN batch[r] :
        /\ batch[r][i] = "PENDING"
        /\ \A k \in 1..(i - 1) : batch[r][k] \in Terminal
        /\ batch' = [batch EXCEPT ![r] = [@ EXCEPT ![i] = "RUNNING"]]

Finish(r) ==
  /\ batch[r] # Lost
  /\ \E i \in DOMAIN batch[r], s \in Terminal :
        /\ batch[r][i] = "RUNNING"
        /\ batch' = [batch EXCEPT ![r] = [@ EXCEPT ![i] = s]]

Lose ==
  batch' = [r \in Run |-> IF batch[r] = << >> THEN << >> ELSE Lost]

Next == \/ Lose
        \/ \E r \in Run : Register(r) \/ Start(r) \/ Finish(r)

\* An accepted batch is worked on until it is done or lost.
Spec == /\ Init
        /\ [][Next]_batch
        /\ \A r \in Run : WF_batch(Start(r) \/ Finish(r))
=============================================================================
