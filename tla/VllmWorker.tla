---------------------------- MODULE VllmWorker ----------------------------
(***************************************************************************)
(* The client of one vLLM worker process: generations are queued, and a    *)
(* background task sends them to the process in batches, one exchange at a *)
(* time, and hands each waiting call its own result.  Calls can be         *)
(* cancelled, exchanges can fail, and the worker can be closed, which the  *)
(* rollout service does when no call waits (NotUnderCalls in VllmRollout). *)
(***************************************************************************)
EXTENDS Naturals, Sequences, FiniteSets, SequencesExt

CONSTANTS
  Callers,     \* tasks that generate
  MaxCalls,    \* bound: calls of a task
  MaxNumSeqs   \* requests in a batch

ASSUME WorkerAssumption ==
  /\ MaxCalls \in Nat
  /\ MaxNumSeqs \in Nat \ {0}

\* A request is named after its caller and the number of its call; so is the prompt it
\* carries, and the result for that prompt.
Requests == Callers \X (1 .. MaxCalls)

VARIABLES
  queue,    \* the requests that were put in the queue and not taken
  future,   \* request -> "unused", "pending", "done", "failed" or "cancelled"
  results,  \* request -> the requests whose results its caller was given
  batch,    \* the requests the batch task took from the queue
  sent,     \* those it sent to the process
  task,     \* the batch task: "get", "wait", "exchange", "hung" or "ended"
  shut

workerVars == <<queue, future, results, batch, sent, task, shut>>

Resolved == {"done", "failed", "cancelled"}

Pending == {r \in Requests : future[r] = "pending"}

WorkerTypeOK ==
  /\ ToSet(queue) \subseteq Requests
  /\ future \in [Requests -> {"unused", "pending"} \cup Resolved]
  /\ results \in [Requests -> SUBSET Requests]
  /\ ToSet(batch) \subseteq Requests
  /\ Len(batch) <= MaxNumSeqs
  /\ ToSet(sent) \subseteq ToSet(batch)
  /\ task \in {"get", "wait", "exchange", "hung", "ended"}
  /\ shut \in BOOLEAN

\* wait_until_ready returned.
WorkerInit ==
  /\ queue = <<>>
  /\ future = [r \in Requests |-> "unused"]
  /\ results = [r \in Requests |-> {}]
  /\ batch = <<>>
  /\ sent = <<>>
  /\ task = "get"
  /\ shut = FALSE

-----------------------------------------------------------------------------
(* Calls *)

WorkerGenerate(c, n) ==
  /\ ~shut /\ task # "ended"
  /\ \A k \in 1 .. MaxCalls : future[<<c, k>>] # "pending"
  /\ future[<<c, n>>] = "unused"
  /\ \A k \in 1 .. (n - 1) : future[<<c, k>>] # "unused"
  /\ queue' = Append(queue, <<c, n>>)
  /\ future' = [future EXCEPT ![<<c, n>>] = "pending"]
  /\ UNCHANGED <<results, batch, sent, task, shut>>

\* The calling task is cancelled, and with it the future it awaits; the request stays
\* where it is.
Cancel(r) ==
  /\ future[r] = "pending"
  /\ future' = [future EXCEPT ![r] = "cancelled"]
  /\ UNCHANGED <<queue, results, batch, sent, task, shut>>

-----------------------------------------------------------------------------
(* The batch task *)

\* The first request of a batch; others may be queued while it waits for them.
Take ==
  /\ task = "get"
  /\ queue # <<>>
  /\ batch' = <<Head(queue)>>
  /\ queue' = Tail(queue)
  /\ task' = "wait"
  /\ UNCHANGED <<future, results, sent, shut>>

OneTooMany == {k \in 0 .. Len(queue) : Len(batch) + k <= MaxNumSeqs + 1}

\* How many queued requests may join the batch.
Room == {k \in 0 .. Len(queue) : Len(batch) + k <= MaxNumSeqs}

\* The requests among these whose calls were not cancelled, in their order.
Active(taken) ==
  LET kept[i \in 0 .. Len(taken)] ==
        IF i = 0 THEN <<>>
        ELSE IF future[taken[i]] = "cancelled" THEN kept[i - 1]
        ELSE Append(kept[i - 1], taken[i])
  IN kept[Len(taken)]

\* The batch is filled up; calls cancelled meanwhile are left out of the exchange.
Collect ==
  /\ task = "wait"
  /\ LET more == CHOOSE k \in Room : \A j \in Room : j <= k
         taken == batch \o SubSeq(queue, 1, more)
         active == Active(taken)
     IN
     /\ queue' = SubSeq(queue, more + 1, Len(queue))
     /\ batch' = IF active = <<>> THEN <<>> ELSE taken
     /\ sent' = active
     /\ task' = IF active = <<>> THEN "get" ELSE "exchange"
  /\ UNCHANGED <<future, results, shut>>

AllTaken == batch

\* Whose results these are: the process answers the requests in the order it was sent them.
Recipients == sent

\* The calls that still wait are given the result of a request, given as a function, or
\* an exception.
Resolve(given, rejected) ==
  /\ future' = [r \in Requests |->
                  CASE future[r] # "pending" -> future[r]
                    [] future[r] = "pending" /\ r \in DOMAIN given -> "done"
                    [] future[r] = "pending" /\ r \in rejected \ DOMAIN given -> "failed"
                    [] OTHER -> future[r]]
  /\ results' = [r \in Requests |->
                   IF future[r] = "pending" /\ r \in DOMAIN given
                   THEN {given[r]}
                   ELSE results[r]]

\* The first k results in the hands of their calls.
Given(k) ==
  [r \in {Recipients[i] : i \in 1 .. k} |->
     sent[CHOOSE i \in 1 .. k : Recipients[i] = r]]

NextBatch ==
  /\ batch' = <<>>
  /\ sent' = <<>>
  /\ task' = "get"
  /\ UNCHANGED <<queue, shut>>

\* The k-th request is given the k-th result.
Answer ==
  /\ task = "exchange"
  /\ Resolve(Given(Len(sent)), {})
  /\ NextBatch

OnlyFirstFails == {Head(sent)}

\* The calls that learn of a failed exchange: all that were not answered.
Unanswered == ToSet(sent)

\* The exchange failed, or its answer had a wrong shape, perhaps after some results.
Fail ==
  /\ task = "exchange"
  /\ \E k \in 0 .. (Len(sent) - 1) :
       Resolve(Given(k), Unanswered)
  /\ NextBatch

\* The process took the batch and never answers: an exchange has no timeout, so only Close
\* ends it, and meanwhile calls are queued.
Hang ==
  /\ task = "exchange"
  /\ task' = "hung"
  /\ UNCHANGED <<queue, future, results, batch, sent, shut>>

-----------------------------------------------------------------------------
\* The batch task is cancelled at its suspension and what is queued is rejected, before
\* the process is shut down. The service closes a worker when no call waits for it.
WorkerClose ==
  /\ ~shut
  /\ Pending = {}
  /\ shut' = TRUE
  /\ task' = "ended"
  /\ Resolve(<<>>, ToSet(queue))
  /\ queue' = <<>>
  /\ batch' = <<>>
  /\ sent' = <<>>

BatchStep == Take \/ Collect \/ Answer \/ Fail

WorkerNext ==
  \/ \E c \in Callers, n \in 1 .. MaxCalls : WorkerGenerate(c, n)
  \/ \E r \in Requests : Cancel(r)
  \/ BatchStep
  \/ Hang
  \/ WorkerClose

WorkerSpec == WorkerInit /\ [][WorkerNext]_workerVars

\* The batch task goes on, and a process that does not hang answers or fails.
FairWorkerSpec == WorkerSpec /\ WF_workerVars(BatchStep)

-----------------------------------------------------------------------------
(* Properties *)

\* A call is given the result of its own prompt, and no other's, whatever was cancelled
\* between queueing, batching and answering.
OwnResult ==
  \A r \in Requests : results[r] = IF future[r] = "done" THEN {r} ELSE {}

\* A call waits for ever only when the process hangs: whatever is cancelled or fails, it is
\* answered or learns of it otherwise, and a hang is the one thing that stops the batch task
\* (process.py, _batch_loop; _rpc with timeout_seconds=None).
CallsAnswered ==
  \A r \in Requests : future[r] = "pending" ~> future[r] \in Resolved \/ task = "hung"

=============================================================================
