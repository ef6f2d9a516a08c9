--------------------------- MODULE CommandProcessor ---------------------------
(***************************************************************************)
(* RaftCommandProcessor: HTTP threads queue commands and wait, one writer  *)
(* thread takes them in batches to submit_commands, a sentinel in the      *)
(* queue stops the writer.  start and stop may be called by several        *)
(* threads; stop joins the writer after it has released the lifecycle      *)
(* lock, so a new writer may run beside the one that is being stopped.     *)
(*                                                                         *)
(* Grain.  A step is one critical section under _lifecycle_lock, one       *)
(* operation of the queue, or one call of submit_commands.  stop is three: *)
(* it takes the thread, waits for room for the sentinel with the lock      *)
(* held, and joins.                                                        *)
(***************************************************************************)
EXTENDS Naturals, Sequences, FiniteSets, SequencesExt

CONSTANTS
    Caller,         \* threads in submit
    Owner,          \* threads in start or stop
    Worker,         \* writer threads; a bound: one that ended is taken again
    None,           \* no thread
    Sentinel,       \* the None that stop puts into the queue
    MaxQueue,       \* max_queue_size
    MaxBatch        \* max_batch_size

ASSUME ThreadAssumption ==
    /\ IsFiniteSet(Caller) /\ IsFiniteSet(Owner) /\ IsFiniteSet(Worker)
    /\ None \notin Worker /\ Sentinel \notin Caller
ASSUME SizeAssumption == MaxQueue \in Nat \ {0} /\ MaxBatch \in Nat \ {0}

VARIABLES
    thread,     \* _thread
    queue,      \* _queue: commands, each named by the caller it is of
    caller,     \* "idle", or "waiting" for its future
    worker,     \* where each writer is: its batch, and whether it must stop
    owner       \* where each thread in stop is, and the writer it stops

vars == <<thread, queue, caller, worker, owner>>

Ended == [at |-> "ended", batch |-> <<>>]
Taking == [at |-> "taking", batch |-> <<>>]
Idle == [at |-> "idle", joins |-> None]

Alive(w) == worker[w].at # "ended"

(* Wrong form of Room: off by one.                                         *)
RoomForOneMore == Len(queue) <= MaxQueue

Room == Len(queue) < MaxQueue

(* Only stop, while the queue is full, holds the lock for more than a step. *)
LockFree == \A o \in Owner : owner[o].at # "putting"

-----------------------------------------------------------------------------
(* start, stop and submit.                                                 *)

Start(o) ==
    /\ LockFree
    /\ owner[o] = Idle
    /\ thread = None
    /\ \E w \in Worker :
          /\ ~Alive(w) /\ \A p \in Owner : owner[p].joins # w
          /\ thread' = w
          /\ worker' = [worker EXCEPT ![w] = Taking]
    /\ UNCHANGED <<queue, caller, owner>>

Stop(o) ==
    /\ LockFree
    /\ owner[o] = Idle
    /\ thread # None
    /\ owner' = [owner EXCEPT ![o] = [at |-> "putting", joins |-> thread]]
    /\ thread' = None
    /\ UNCHANGED <<queue, caller, worker>>

PutSentinel(o) ==
    /\ owner[o].at = "putting"
    /\ Room
    /\ queue' = Append(queue, Sentinel)
    /\ owner' = [owner EXCEPT ![o].at = "joining"]
    /\ UNCHANGED <<thread, caller, worker>>

(* Wrong form of Joined: stop does not wait.                               *)
JoinedAtOnce(o) == TRUE

Joined(o) == ~Alive(owner[o].joins)

StopReturns(o) ==
    /\ owner[o].at = "joining"
    /\ Joined(o)
    /\ owner' = [owner EXCEPT ![o] = Idle]
    /\ UNCHANGED <<thread, queue, caller, worker>>

(* Wrong form of Accepts: a command is queued though nobody takes it.      *)
AcceptsAlways == Room

(* Otherwise submit raises, and the caller does not wait.                  *)
Accepts == thread # None /\ Room

Submit(c) ==
    /\ LockFree
    /\ caller[c] = "idle"
    /\ Accepts
    /\ queue' = Append(queue, c)
    /\ caller' = [caller EXCEPT ![c] = "waiting"]
    /\ UNCHANGED <<thread, worker, owner>>

-----------------------------------------------------------------------------
(* _run and _collect_batch.  A writer is "submitting" with the sentinel    *)
(* still to be taken, or "stopping" when it has taken it.                  *)

Take(w, next) ==
    /\ queue # <<>>
    /\ queue' = Tail(queue)
    /\ worker' = [worker EXCEPT ![w] = next]
    /\ UNCHANGED <<thread, caller, owner>>

TakeFirst(w) ==
    /\ worker[w].at = "taking"
    /\ Take(w, IF Head(queue) = Sentinel THEN Ended
               ELSE [at |-> "collecting", batch |-> <<Head(queue)>>])

(* Wrong form of AfterSentinel: the sentinel only ends the batch.          *)
AfterSentinelGoOn(batch) == [at |-> "submitting", batch |-> batch]

AfterSentinel(batch) == [at |-> "stopping", batch |-> batch]

TakeMore(w) ==
    LET batch == worker[w].batch IN
    /\ worker[w].at = "collecting"
    /\ Len(batch) < MaxBatch
    /\ Take(w, IF Head(queue) = Sentinel THEN AfterSentinel(batch)
               ELSE [at |-> "collecting", batch |-> Append(batch, Head(queue))])

(* The batch is full, or batch_wait_seconds are over.                      *)
CloseBatch(w) ==
    /\ worker[w].at = "collecting"
    /\ worker' = [worker EXCEPT ![w].at = "submitting"]
    /\ UNCHANGED <<thread, queue, caller, owner>>

(* submit_commands returns or raises; either way every future is set.      *)
SubmitBatch(w) ==
    /\ worker[w].at \in {"submitting", "stopping"}
    /\ caller' = [c \in Caller |-> IF Contains(worker[w].batch, c)
                                   THEN "idle" ELSE caller[c]]
    /\ worker' = [worker EXCEPT ![w] =
                    IF worker[w].at = "stopping" THEN Ended ELSE Taking]
    /\ UNCHANGED <<thread, queue, owner>>

-----------------------------------------------------------------------------
Init ==
    /\ thread = None
    /\ queue = <<>>
    /\ caller = [c \in Caller |-> "idle"]
    /\ worker = [w \in Worker |-> Ended]
    /\ owner = [o \in Owner |-> Idle]

Run(w) == TakeFirst(w) \/ TakeMore(w) \/ CloseBatch(w) \/ SubmitBatch(w)

Next ==
    \/ \E o \in Owner : Start(o) \/ Stop(o) \/ PutSentinel(o) \/ StopReturns(o)
    \/ \E c \in Caller : Submit(c)
    \/ \E w \in Worker : Run(w)

Spec == Init /\ [][Next]_vars

(* A writer that can go on does: its waits are bounded by                  *)
(* batch_wait_seconds, and submit_commands by the window of its            *)
(* replication round.  A stop that can go on does: with the lock held      *)
(* nobody else puts anything into the queue.                               *)
Fairness ==
    /\ \A w \in Worker : WF_vars(Run(w))
    /\ \A o \in Owner : WF_vars(PutSentinel(o)) /\ WF_vars(StopReturns(o))

FairSpec == Spec /\ Fairness

-----------------------------------------------------------------------------
(* The shape of the state; the queue, which submit and stop fill, never    *)
(* holds more than max_queue_size items.                                   *)
TypeOK ==
    /\ thread \in Worker \cup {None}
    /\ queue \in Seq(Caller \cup {Sentinel})
    /\ Len(queue) <= MaxQueue
    /\ caller \in [Caller -> {"idle", "waiting"}]
    /\ worker \in [Worker -> [at : {"ended", "taking", "collecting",
                                    "submitting", "stopping"},
                              batch : Seq(Caller)]]
    /\ owner \in [Owner -> [at : {"idle", "putting", "joining"},
                            joins : Worker \cup {None}]]

(* Once every call of stop has returned and nobody has called start, no    *)
(* writer runs, no command is left in the queue and no caller waits, even  *)
(* if several writers took each other's sentinels (stop's put inside the   *)
(* lifecycle lock, its join outside).                                      *)
StoppedIsDrained ==
    (thread = None /\ \A o \in Owner : owner[o] = Idle)
    => /\ queue = <<>>
       /\ \A w \in Worker : ~Alive(w)
       /\ \A c \in Caller : caller[c] = "idle"

(* A caller that was not refused gets its answer, whatever starts and      *)
(* stops: its command is ahead of a sentinel or a writer is left for it.   *)
EveryCallerAnswered ==
    \A c \in Caller : caller[c] = "waiting" ~> caller[c] = "idle"

(* If the processor stays stopped, every call of stop returns.  While it   *)
(* is started again, one may wait for a writer whose sentinel another took *)
(* (stop joins outside the lock).                                          *)
StopsReturn ==
    <>[](thread = None) => \A o \in Owner : owner[o].at = "joining" ~> owner[o] = Idle
=============================================================================
