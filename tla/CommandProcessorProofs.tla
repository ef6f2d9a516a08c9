----------------------- MODULE CommandProcessorProofs -----------------------
(***************************************************************************)
(* The command processor, for any number of callers, of threads in start   *)
(* and stop and of writers, and any sizes of queue and batch: its types,   *)
(* and that nothing is left behind once every stop has returned.           *)
(*                                                                         *)
(* StoppedIsDrained looks at the end of a stop and is not inductive.  What *)
(* keeps it is a balance: each writer that has not yet taken a sentinel    *)
(* has one coming, in the queue, from a thread that waits to put it there, *)
(* or from the stop that will find it in _thread.  Which writer takes      *)
(* which sentinel does not matter to the balance, so it survives the swap  *)
(* of two writers that the code allows.                                    *)
(***************************************************************************)
EXTENDS CommandProcessor, FiniteSetTheorems, FunctionTheorems, SequenceTheorems, TLAPS

(* Writers that have not taken a sentinel.                                 *)
Live == {w \in Worker : worker[w].at \in {"taking", "collecting", "submitting"}}

Putting == {o \in Owner : owner[o].at = "putting"}

Sentinels(q) == {k \in 1..Len(q) : q[k] = Sentinel}

Slot(w) == IF w = None THEN 0 ELSE 1

Balance == Cardinality(Live) =
               Cardinality(Sentinels(queue)) + Cardinality(Putting) + Slot(thread)

(* A writer that runs is the current one, or a stop waits for it.          *)
EveryWriterKnown ==
    \A w \in Worker : Alive(w) => thread = w \/ \E o \in Owner : owner[o].joins = w

(* What was submitted before a stop is ahead of its sentinel.              *)
SentinelLast ==
    thread = None /\ Putting = {} => queue = <<>> \/ queue[Len(queue)] = Sentinel

Queued(c) == \E k \in 1..Len(queue) : queue[k] = c
Taken(c) == \E w \in Worker :
                \E k \in 1..Len(worker[w].batch) : worker[w].batch[k] = c

NobodyForgotten ==
    \A c \in Caller : caller[c] = "waiting" => Queued(c) \/ Taken(c)

NoBatchLeft ==
    \A w \in Worker : worker[w].at \in {"ended", "taking"} => worker[w].batch = <<>>

ProcessorInv ==
    /\ TypeOK
    /\ Balance
    /\ EveryWriterKnown
    /\ SentinelLast
    /\ NobodyForgotten
    /\ NoBatchLeft

-----------------------------------------------------------------------------
(* Types.                                                                  *)

WorkerType == [at : {"ended", "taking", "collecting", "submitting", "stopping"},
               batch : Seq(Caller)]
OwnerType == [at : {"idle", "putting", "joining"}, joins : Worker \cup {None}]

(* The processor starts with an empty queue and no threads.                *)
LEMMA InitType == Init => TypeOK
<1>1. Ended \in WorkerType  BY DEF Ended, WorkerType
<1>2. Idle \in OwnerType  BY DEF Idle, OwnerType
<1>. QED  BY <1>1, <1>2, SizeAssumption DEF Init, TypeOK, WorkerType, OwnerType

(* What a writer takes from the queue is a command of a caller or the      *)
(* sentinel, and the rest still fits (_collect_batch).                     *)
LEMMA TakeType ==
    ASSUME TypeOK, queue # <<>>
    PROVE  /\ Head(queue) \in Caller \cup {Sentinel}
           /\ Tail(queue) \in Seq(Caller \cup {Sentinel})
           /\ Len(Tail(queue)) = Len(queue) - 1
           /\ Len(queue) \in Nat \ {0}
           /\ Len(queue) <= MaxQueue
<1>. queue \in Seq(Caller \cup {Sentinel}) /\ Len(queue) <= MaxQueue  BY DEF TypeOK
<1>. QED  BY HeadTailProperties

(* Every step of a thread keeps the types (each method of the processor).  *)
LEMMA StepType == TypeOK /\ [Next]_vars => TypeOK'
<1>. SUFFICES ASSUME TypeOK, [Next]_vars PROVE TypeOK'  OBVIOUS
<1>. USE SizeAssumption, ThreadAssumption
<1>t. /\ thread \in Worker \cup {None}
      /\ queue \in Seq(Caller \cup {Sentinel})
      /\ Len(queue) \in Nat /\ Len(queue) <= MaxQueue
      /\ caller \in [Caller -> {"idle", "waiting"}]
      /\ worker \in [Worker -> WorkerType]
      /\ owner \in [Owner -> OwnerType]
  BY DEF TypeOK, WorkerType, OwnerType
<1>1. ASSUME NEW o \in Owner, Start(o) PROVE TypeOK'
  <2>1. Taking \in WorkerType  BY DEF Taking, WorkerType
  <2>. QED  BY <1>1, <1>t, <2>1 DEF Start, TypeOK, WorkerType, OwnerType
<1>2. ASSUME NEW o \in Owner, Stop(o) PROVE TypeOK'
  <2>1. [at |-> "putting", joins |-> thread] \in OwnerType  BY <1>t DEF OwnerType
  <2>. QED  BY <1>2, <1>t, <2>1 DEF Stop, TypeOK, WorkerType, OwnerType
<1>3. ASSUME NEW o \in Owner, PutSentinel(o) PROVE TypeOK'
  <2>1. [owner[o] EXCEPT !.at = "joining"] \in OwnerType  BY <1>t DEF OwnerType
  <2>2. /\ Append(queue, Sentinel) \in Seq(Caller \cup {Sentinel})
        /\ Len(Append(queue, Sentinel)) = Len(queue) + 1
    BY <1>t
  <2>3. owner' \in [Owner -> OwnerType]  BY <1>3, <1>t, <2>1 DEF PutSentinel
  <2>. QED  BY <1>3, <1>t, <2>2, <2>3 DEF PutSentinel, Room, TypeOK, WorkerType, OwnerType
<1>4. ASSUME NEW o \in Owner, StopReturns(o) PROVE TypeOK'
  <2>1. Idle \in OwnerType  BY DEF Idle, OwnerType
  <2>. QED  BY <1>4, <1>t, <2>1 DEF StopReturns, TypeOK, WorkerType, OwnerType
<1>5. ASSUME NEW c \in Caller, Submit(c) PROVE TypeOK'
  <2>2. /\ Append(queue, c) \in Seq(Caller \cup {Sentinel})
        /\ Len(Append(queue, c)) = Len(queue) + 1
    BY <1>t
  <2>. QED  BY <1>5, <1>t, <2>2 DEF Submit, Accepts, Room, TypeOK, WorkerType, OwnerType
<1>6. ASSUME NEW w \in Worker, TakeFirst(w) PROVE TypeOK'
  <2>1. queue # <<>>  BY <1>6 DEF TakeFirst, Take
  <2>2. (IF Head(queue) = Sentinel THEN Ended
         ELSE [at |-> "collecting", batch |-> <<Head(queue)>>]) \in WorkerType
    BY <2>1, TakeType DEF Ended, WorkerType
  <2>. QED  BY <1>6, <1>t, <2>1, <2>2, TakeType DEF TakeFirst, Take, TypeOK, WorkerType, OwnerType
<1>7. ASSUME NEW w \in Worker, TakeMore(w) PROVE TypeOK'
  <2>1. queue # <<>>  BY <1>7 DEF TakeMore, Take
  <2>2. worker[w].batch \in Seq(Caller)  BY <1>t DEF WorkerType
  <2>3. (IF Head(queue) = Sentinel THEN AfterSentinel(worker[w].batch)
         ELSE [at |-> "collecting", batch |-> Append(worker[w].batch, Head(queue))])
        \in WorkerType
    BY <2>1, <2>2, TakeType DEF AfterSentinel, WorkerType
  <2>. QED  BY <1>7, <1>t, <2>1, <2>3, TakeType DEF TakeMore, Take, TypeOK, WorkerType, OwnerType
<1>8. ASSUME NEW w \in Worker, CloseBatch(w) PROVE TypeOK'
  <2>1. [worker[w] EXCEPT !.at = "submitting"] \in WorkerType
    BY <1>t DEF WorkerType
  <2>2. worker' \in [Worker -> WorkerType]  BY <1>8, <1>t, <2>1 DEF CloseBatch
  <2>. QED  BY <1>8, <1>t, <2>2 DEF CloseBatch, TypeOK, WorkerType, OwnerType
<1>9. ASSUME NEW w \in Worker, SubmitBatch(w) PROVE TypeOK'
  <2>1. Ended \in WorkerType /\ Taking \in WorkerType
    BY DEF Ended, Taking, WorkerType
  <2>. QED  BY <1>9, <1>t, <2>1 DEF SubmitBatch, TypeOK, WorkerType, OwnerType
<1>10. CASE UNCHANGED vars
  BY <1>10 DEF vars, TypeOK
<1>. QED
  BY <1>1, <1>2, <1>3, <1>4, <1>5, <1>6, <1>7, <1>8, <1>9, <1>10 DEF Next, Run

(* The shape of the processor's state, and the bound of its queue, for any *)
(* number of threads (submit and stop fill the queue, max_queue_size).     *)
THEOREM ProcessorTypeCorrect == Spec => []TypeOK
<1>. QED  BY InitType, StepType, PTL DEF Spec

-----------------------------------------------------------------------------
(* Counting sentinels.                                                     *)

(* The positions of sentinels are finitely many.                           *)
LEMMA SentinelsFinite ==
    ASSUME NEW S, NEW q \in Seq(S)
    PROVE  IsFiniteSet(Sentinels(q)) /\ Cardinality(Sentinels(q)) \in Nat
<1>1. IsFiniteSet(1..Len(q))  BY FS_Interval
<1>2. Sentinels(q) \in SUBSET (1..Len(q))  BY DEF Sentinels
<1>. QED  BY <1>1, <1>2, FS_Subset, FS_CardinalityType

(* What is appended counts once, if it is a sentinel (put_nowait and put). *)
LEMMA SentinelsAppend ==
    ASSUME NEW S, NEW q \in Seq(S), NEW x \in S
    PROVE  Cardinality(Sentinels(Append(q, x))) =
               Cardinality(Sentinels(q)) + (IF x = Sentinel THEN 1 ELSE 0)
<1>0. Len(q) \in Nat  OBVIOUS
<1>1. Len(q) + 1 \notin Sentinels(q)  BY <1>0 DEF Sentinels
<1>2. /\ Len(Append(q, x)) = Len(q) + 1
      /\ Append(q, x)[Len(q) + 1] = x
      /\ \A k \in 1..Len(q) : Append(q, x)[k] = q[k]
  BY AppendProperties
<1>3. CASE x = Sentinel
  <2>1. Sentinels(Append(q, x)) = Sentinels(q) \cup {Len(q) + 1}
    BY <1>0, <1>2, <1>3 DEF Sentinels
  <2>. QED  BY <1>1, <1>3, <2>1, SentinelsFinite, FS_AddElement
<1>4. CASE x # Sentinel
  <2>1. Sentinels(Append(q, x)) = Sentinels(q)  BY <1>0, <1>2, <1>4 DEF Sentinels
  <2>. QED  BY <1>4, <2>1, SentinelsFinite
<1>. QED  BY <1>3, <1>4

(* What is taken from the head counts once, if it is a sentinel (get).     *)
LEMMA SentinelsTail ==
    ASSUME NEW S, NEW q \in Seq(S), q # <<>>
    PROVE  Cardinality(Sentinels(q)) =
               Cardinality(Sentinels(Tail(q))) + (IF Head(q) = Sentinel THEN 1 ELSE 0)
<1>. DEFINE T == Sentinels(Tail(q))
            R == Sentinels(q) \ {1}
            f == [k \in T |-> k + 1]
<1>0. /\ Len(q) \in Nat \ {0} /\ Head(q) = q[1]
      /\ Tail(q) \in Seq(S) /\ Len(Tail(q)) = Len(q) - 1
      /\ \A k \in 1..Len(Tail(q)) : Tail(q)[k] = q[k + 1]
  BY HeadTailProperties
<1>1. f \in [T -> R]  BY <1>0 DEF Sentinels
<1>2. \A a, b \in T : f[a] = f[b] => a = b  BY DEF Sentinels
<1>3. \A r \in R : \E a \in T : f[a] = r
  <2>. TAKE r \in R
  <2>1. r - 1 \in T /\ (r - 1) + 1 = r  BY <1>0 DEF Sentinels
  <2>. QED  BY <2>1
<1>4. f \in Bijection(T, R)
  BY <1>1, <1>2, <1>3 DEF Bijection, Injection, Surjection, IsInjective
<1>5. IsFiniteSet(T) /\ Cardinality(T) \in Nat  BY <1>0, SentinelsFinite
<1>6. Cardinality(R) = Cardinality(T)
  BY <1>4, <1>5, FS_Bijection DEF ExistsBijection
<1>7. 1 \in Sentinels(q) <=> Head(q) = Sentinel  BY <1>0 DEF Sentinels
<1>8. /\ IsFiniteSet(Sentinels(q)) /\ Cardinality(Sentinels(q)) \in Nat
  BY SentinelsFinite
<1>9. Cardinality(R) = IF 1 \in Sentinels(q) THEN Cardinality(Sentinels(q)) - 1
                      ELSE Cardinality(Sentinels(q))
  BY <1>8, FS_RemoveElement
<1>. QED  BY <1>5, <1>6, <1>7, <1>8, <1>9

(* Threads are finitely many.                                              *)
LEMMA ThreadsFinite ==
    /\ IsFiniteSet(Live) /\ Cardinality(Live) \in Nat
    /\ IsFiniteSet(Putting) /\ Cardinality(Putting) \in Nat
<1>1. Live \in SUBSET Worker /\ Putting \in SUBSET Owner  BY DEF Live, Putting
<1>. QED  BY <1>1, ThreadAssumption, FS_Subset, FS_CardinalityType

-----------------------------------------------------------------------------
(* The balance.                                                            *)

(* A writer that takes a sentinel gives it up, and nothing else changes    *)
(* the balance (start, stop, submit, and the writer's loop).               *)
LEMMA StepBalance == TypeOK /\ Balance /\ [Next]_vars => Balance'
<1>. SUFFICES ASSUME TypeOK, Balance, [Next]_vars PROVE Balance'  OBVIOUS
<1>. USE ThreadAssumption
<1>t. /\ thread \in Worker \cup {None}
      /\ queue \in Seq(Caller \cup {Sentinel})
      /\ worker \in [Worker -> WorkerType]
      /\ owner \in [Owner -> OwnerType]
  BY DEF TypeOK, WorkerType, OwnerType
<1>f. /\ IsFiniteSet(Live) /\ Cardinality(Live) \in Nat
      /\ IsFiniteSet(Putting) /\ Cardinality(Putting) \in Nat
  BY ThreadsFinite
<1>q. Cardinality(Sentinels(queue)) \in Nat  BY <1>t, SentinelsFinite
<1>1. ASSUME NEW o \in Owner, Start(o) PROVE Balance'
  <2>1. PICK w \in Worker : /\ ~Alive(w) /\ thread' = w
                            /\ worker' = [worker EXCEPT ![w] = Taking]
    BY <1>1 DEF Start
  <2>2. w \notin Live /\ Live' = Live \cup {w}
    BY <1>t, <2>1 DEF Live, Alive, Taking
  <2>3. Cardinality(Live') = Cardinality(Live) + 1  BY <1>f, <2>2, FS_AddElement
  <2>4. Slot(thread) = 0 /\ Slot(thread') = 1  BY <1>1, <2>1 DEF Start, Slot
  <2>5. queue' = queue /\ Putting' = Putting  BY <1>1 DEF Start, Putting
  <2>. QED  BY <1>f, <1>q, <2>3, <2>4, <2>5 DEF Balance
<1>2. ASSUME NEW o \in Owner, Stop(o) PROVE Balance'
  <2>1. o \notin Putting /\ Putting' = Putting \cup {o}
    BY <1>2, <1>t DEF Stop, Putting, Idle
  <2>2. Cardinality(Putting') = Cardinality(Putting) + 1
    BY <1>f, <2>1, FS_AddElement
  <2>3. Slot(thread) = 1 /\ Slot(thread') = 0  BY <1>2, <1>t DEF Stop, Slot
  <2>4. queue' = queue /\ Live' = Live  BY <1>2 DEF Stop, Live
  <2>. QED  BY <1>f, <1>q, <2>2, <2>3, <2>4 DEF Balance
<1>3. ASSUME NEW o \in Owner, PutSentinel(o) PROVE Balance'
  <2>1. o \in Putting /\ Putting' = Putting \ {o}
    BY <1>3, <1>t DEF PutSentinel, Putting
  <2>2. Cardinality(Putting') = Cardinality(Putting) - 1
    BY <1>f, <2>1, FS_RemoveElement
  <2>3. Cardinality(Sentinels(queue')) = Cardinality(Sentinels(queue)) + 1
    BY <1>3, <1>t, SentinelsAppend DEF PutSentinel
  <2>4. thread' = thread /\ Live' = Live  BY <1>3 DEF PutSentinel, Live
  <2>. QED  BY <1>f, <1>q, <2>2, <2>3, <2>4 DEF Balance, Slot
<1>4. ASSUME NEW o \in Owner, StopReturns(o) PROVE Balance'
  <2>1. Putting' = Putting  BY <1>4, <1>t DEF StopReturns, Putting, Idle
  <2>2. /\ thread' = thread /\ queue' = queue /\ Live' = Live
    BY <1>4 DEF StopReturns, Live
  <2>. QED  BY <2>1, <2>2 DEF Balance
<1>5. ASSUME NEW c \in Caller, Submit(c) PROVE Balance'
  <2>1. Cardinality(Sentinels(queue')) = Cardinality(Sentinels(queue))
    BY <1>5, <1>t, <1>q, SentinelsAppend DEF Submit
  <2>2. /\ thread' = thread /\ Live' = Live /\ Putting' = Putting
    BY <1>5 DEF Submit, Live, Putting
  <2>. QED  BY <2>1, <2>2 DEF Balance
<1>6. ASSUME NEW w \in Worker, NEW next, Take(w, next), w \in Live,
             IF Head(queue) = Sentinel THEN next.at \in {"ended", "stopping"}
                                       ELSE next.at = "collecting"
      PROVE  Balance'
  <2>1. queue # <<>> /\ queue' = Tail(queue)  BY <1>6 DEF Take
  <2>2. Live' = IF Head(queue) = Sentinel THEN Live \ {w} ELSE Live
    BY <1>6, <1>t DEF Take, Live
  <2>3. Cardinality(Live') =
            Cardinality(Live) - (IF Head(queue) = Sentinel THEN 1 ELSE 0)
    <3>1. CASE Head(queue) = Sentinel
      BY <1>6, <1>f, <2>2, <3>1, FS_RemoveElement
    <3>2. CASE Head(queue) # Sentinel  BY <1>f, <2>2, <3>2
    <3>. QED  BY <3>1, <3>2
  <2>4. Cardinality(Sentinels(queue)) =
            Cardinality(Sentinels(queue')) + (IF Head(queue) = Sentinel THEN 1 ELSE 0)
    BY <1>t, <2>1, SentinelsTail
  <2>5. thread' = thread /\ Putting' = Putting  BY <1>6 DEF Take, Putting
  <2>6. Cardinality(Sentinels(queue')) \in Nat
    BY <1>t, <2>1, SentinelsFinite, HeadTailProperties
  <2>. QED  BY <1>f, <1>q, <2>3, <2>4, <2>5, <2>6 DEF Balance, Slot
<1>7. ASSUME NEW w \in Worker, TakeFirst(w) PROVE Balance'
  <2>1. w \in Live  BY <1>7 DEF TakeFirst, Live
  <2>. QED  BY <1>6, <1>7, <2>1 DEF TakeFirst, Ended
<1>8. ASSUME NEW w \in Worker, TakeMore(w) PROVE Balance'
  <2>1. w \in Live  BY <1>8 DEF TakeMore, Live
  <2>. QED  BY <1>6, <1>8, <2>1 DEF TakeMore, AfterSentinel
<1>9. ASSUME NEW w \in Worker, CloseBatch(w) PROVE Balance'
  <2>1. Live' = Live  BY <1>9, <1>t DEF CloseBatch, Live, WorkerType
  <2>2. /\ thread' = thread /\ queue' = queue /\ Putting' = Putting
    BY <1>9 DEF CloseBatch, Putting
  <2>. QED  BY <2>1, <2>2 DEF Balance
<1>10. ASSUME NEW w \in Worker, SubmitBatch(w) PROVE Balance'
  <2>1. Live' = Live  BY <1>10, <1>t DEF SubmitBatch, Live, Ended, Taking
  <2>2. /\ thread' = thread /\ queue' = queue /\ Putting' = Putting
    BY <1>10 DEF SubmitBatch, Putting
  <2>. QED  BY <2>1, <2>2 DEF Balance
<1>11. CASE UNCHANGED vars  BY <1>11 DEF vars, Balance, Live, Putting
<1>. QED
  BY <1>1, <1>2, <1>3, <1>4, <1>5, <1>7, <1>8, <1>9, <1>10, <1>11 DEF Next, Run

-----------------------------------------------------------------------------
(* Writers, sentinels and callers.                                         *)

(* Who starts a writer makes it the current one, and who replaces it joins *)
(* it first (start and stop).                                              *)
LEMMA StepWriterKnown == TypeOK /\ EveryWriterKnown /\ [Next]_vars => EveryWriterKnown'
<1>. SUFFICES ASSUME TypeOK, EveryWriterKnown, [Next]_vars,
                     NEW v \in Worker, Alive(v)'
              PROVE  thread' = v \/ \E p \in Owner : owner'[p].joins = v
  BY DEF EveryWriterKnown
<1>. USE ThreadAssumption
<1>t. /\ worker \in [Worker -> WorkerType]
      /\ owner \in [Owner -> OwnerType]
  BY DEF TypeOK, WorkerType, OwnerType
<1>k. Alive(v) => thread = v \/ \E p \in Owner : owner[p].joins = v
  BY DEF EveryWriterKnown
<1>1. ASSUME NEW o \in Owner, Start(o)
      PROVE  thread' = v \/ \E p \in Owner : owner'[p].joins = v
  BY <1>1, <1>t, <1>k DEF Start, Alive
<1>2. ASSUME NEW o \in Owner, Stop(o)
      PROVE  thread' = v \/ \E p \in Owner : owner'[p].joins = v
  <2>1. Alive(v)  BY <1>2 DEF Stop, Alive
  <2>2. CASE thread = v
    <3>1. owner'[o].joins = v  BY <1>2, <1>t, <2>2 DEF Stop
    <3>. QED  BY <3>1
  <2>3. ASSUME NEW p \in Owner, owner[p].joins = v PROVE owner'[p].joins = v
    <3>1. p # o  BY <1>2, <2>3 DEF Stop, Idle
    <3>. QED  BY <1>2, <1>t, <2>3, <3>1 DEF Stop
  <2>. QED  BY <1>k, <2>1, <2>2, <2>3
<1>3. ASSUME NEW o \in Owner, PutSentinel(o)
      PROVE  thread' = v \/ \E p \in Owner : owner'[p].joins = v
  <2>1. \A p \in Owner : owner'[p].joins = owner[p].joins
    BY <1>3, <1>t DEF PutSentinel, OwnerType
  <2>. QED  BY <1>3, <1>k, <2>1 DEF PutSentinel, Alive
<1>4. ASSUME NEW o \in Owner, StopReturns(o)
      PROVE  thread' = v \/ \E p \in Owner : owner'[p].joins = v
  <2>1. Alive(v) /\ thread' = thread  BY <1>4 DEF StopReturns, Alive
  <2>2. owner[o].joins # v  BY <1>4, <2>1 DEF StopReturns, Joined
  <2>3. \A p \in Owner : p # o => owner'[p] = owner[p]
    BY <1>4, <1>t DEF StopReturns
  <2>. QED  BY <1>k, <2>1, <2>2, <2>3
<1>5. ASSUME NEW c \in Caller, Submit(c)
      PROVE  thread' = v \/ \E p \in Owner : owner'[p].joins = v
  BY <1>5, <1>k DEF Submit, Alive
<1>6. ASSUME NEW w \in Worker, Run(w)
      PROVE  thread' = v \/ \E p \in Owner : owner'[p].joins = v
  <2>1. thread' = thread /\ owner' = owner
    BY <1>6 DEF Run, TakeFirst, TakeMore, Take, CloseBatch, SubmitBatch
  <2>2. Alive(w)
    BY <1>6 DEF Run, TakeFirst, TakeMore, CloseBatch, SubmitBatch, Alive
  <2>3. v # w => worker'[v] = worker[v]
    BY <1>6, <1>t DEF Run, TakeFirst, TakeMore, Take, CloseBatch, SubmitBatch
  <2>4. Alive(v)  BY <2>2, <2>3 DEF Alive
  <2>. QED  BY <1>k, <2>1, <2>4
<1>7. CASE UNCHANGED vars  BY <1>7, <1>k DEF vars, Alive
<1>. QED  BY <1>1, <1>2, <1>3, <1>4, <1>5, <1>6, <1>7 DEF Next

(* stop holds the lock until its sentinel is in the queue, and submit      *)
(* refuses once _thread is None.                                           *)
LEMMA StepSentinelLast == TypeOK /\ SentinelLast /\ [Next]_vars => SentinelLast'
<1>. SUFFICES ASSUME TypeOK, SentinelLast, [Next]_vars,
                     thread' = None, Putting' = {}
              PROVE  queue' = <<>> \/ queue'[Len(queue')] = Sentinel
  BY DEF SentinelLast
<1>. USE ThreadAssumption
<1>t. /\ queue \in Seq(Caller \cup {Sentinel})
      /\ owner \in [Owner -> OwnerType]
  BY DEF TypeOK, OwnerType
<1>k. thread = None /\ Putting = {} => queue = <<>> \/ queue[Len(queue)] = Sentinel
  BY DEF SentinelLast
<1>1. ASSUME NEW o \in Owner, Start(o) PROVE FALSE
  BY <1>1 DEF Start
<1>2. ASSUME NEW o \in Owner, Stop(o) PROVE FALSE
  <2>1. o \in Putting'  BY <1>2, <1>t DEF Stop, Putting
  <2>. QED  BY <2>1
<1>3. ASSUME NEW o \in Owner, PutSentinel(o)
      PROVE  queue'[Len(queue')] = Sentinel
  BY <1>3, <1>t, AppendProperties DEF PutSentinel
<1>4. ASSUME NEW o \in Owner, StopReturns(o)
      PROVE  queue' = <<>> \/ queue'[Len(queue')] = Sentinel
  <2>1. Putting \subseteq Putting'
    BY <1>4, <1>t DEF StopReturns, Putting, Idle
  <2>. QED  BY <1>4, <1>k, <2>1 DEF StopReturns
<1>5. ASSUME NEW c \in Caller, Submit(c) PROVE FALSE
  BY <1>5 DEF Submit, Accepts
<1>6. ASSUME NEW w \in Worker, Run(w)
      PROVE  queue' = <<>> \/ queue'[Len(queue')] = Sentinel
  <2>1. thread = None /\ Putting = {}
    BY <1>6 DEF Run, TakeFirst, TakeMore, Take, CloseBatch, SubmitBatch, Putting
  <2>2. CASE queue' = queue  BY <1>k, <2>1, <2>2
  <2>3. CASE queue # <<>> /\ queue' = Tail(queue)
    <3>1. /\ Len(queue) \in Nat \ {0}
          /\ Len(queue') = Len(queue) - 1
          /\ queue' \in Seq(Caller \cup {Sentinel})
          /\ \A k \in 1..Len(queue') : queue'[k] = queue[k + 1]
      BY <1>t, <2>3, HeadTailProperties
    <3>2. CASE Len(queue') = 0  BY <3>1, <3>2, EmptySeq
    <3>3. CASE Len(queue') # 0
      <4>1. queue'[Len(queue')] = queue[Len(queue)]  BY <3>1, <3>3
      <4>. QED  BY <1>k, <2>1, <2>3, <4>1
    <3>. QED  BY <3>2, <3>3
  <2>. QED  BY <1>6, <2>2, <2>3 DEF Run, TakeFirst, TakeMore, Take, CloseBatch, SubmitBatch
<1>7. CASE UNCHANGED vars  BY <1>7, <1>k DEF vars, Putting
<1>. QED  BY <1>1, <1>2, <1>3, <1>4, <1>5, <1>6, <1>7 DEF Next

(* A writer that has ended, or begins, holds no command (_run).            *)
LEMMA StepNoBatchLeft == TypeOK /\ NoBatchLeft /\ [Next]_vars => NoBatchLeft'
<1>. SUFFICES ASSUME TypeOK, NoBatchLeft, [Next]_vars, NEW v \in Worker,
                     worker'[v].at \in {"ended", "taking"}
              PROVE  worker'[v].batch = <<>>
  BY DEF NoBatchLeft
<1>t. worker \in [Worker -> WorkerType]  BY DEF TypeOK, WorkerType
<1>k. worker[v].at \in {"ended", "taking"} => worker[v].batch = <<>>
  BY DEF NoBatchLeft
<1>1. ASSUME NEW o \in Owner, Start(o) PROVE worker'[v].batch = <<>>
  BY <1>1, <1>t, <1>k DEF Start, Taking
<1>2. ASSUME NEW w \in Worker, Run(w) PROVE worker'[v].batch = <<>>
  <2>1. CASE v # w
    <3>1. worker'[v] = worker[v]
      BY <1>2, <1>t, <2>1
      DEF Run, TakeFirst, TakeMore, Take, CloseBatch, SubmitBatch
    <3>. QED  BY <1>k, <3>1
  <2>2. CASE v = w
    <3>1. CASE TakeFirst(w)
      BY <1>t, <2>2, <3>1 DEF TakeFirst, Take, Ended
    <3>2. CASE TakeMore(w)
      BY <1>t, <2>2, <3>2 DEF TakeMore, Take, AfterSentinel
    <3>3. CASE CloseBatch(w)
      BY <1>t, <2>2, <3>3 DEF CloseBatch, WorkerType
    <3>4. CASE SubmitBatch(w)
      BY <1>t, <2>2, <3>4 DEF SubmitBatch, Ended, Taking
    <3>. QED  BY <1>2, <3>1, <3>2, <3>3, <3>4 DEF Run
  <2>. QED  BY <2>1, <2>2
<1>3. CASE UNCHANGED worker  BY <1>3, <1>k
<1>. QED
  BY <1>1, <1>2, <1>3 DEF Next, vars, Stop, PutSentinel, StopReturns, Submit

(* A command leaves the queue into a batch, and a batch only when its      *)
(* callers are answered (_run, in both outcomes of submit_commands).       *)
LEMMA StepNobodyForgotten ==
    TypeOK /\ NoBatchLeft /\ NobodyForgotten /\ [Next]_vars => NobodyForgotten'
<1>. SUFFICES ASSUME TypeOK, NoBatchLeft, NobodyForgotten, [Next]_vars,
                     NEW c \in Caller, caller'[c] = "waiting"
              PROVE  Queued(c)' \/ Taken(c)'
  BY DEF NobodyForgotten
<1>. USE ThreadAssumption
<1>t. /\ queue \in Seq(Caller \cup {Sentinel})
      /\ caller \in [Caller -> {"idle", "waiting"}]
      /\ worker \in [Worker -> WorkerType]
      /\ Len(queue) \in Nat
  BY DEF TypeOK, WorkerType
<1>b. \A w \in Worker : worker[w].batch \in Seq(Caller)  BY <1>t DEF WorkerType
<1>k. caller[c] = "waiting" => Queued(c) \/ Taken(c)  BY DEF NobodyForgotten
<1>e. \A w \in Worker : worker[w].at \in {"ended", "taking"} => worker[w].batch = <<>>
  BY DEF NoBatchLeft
<1>1. ASSUME NEW o \in Owner, Start(o) PROVE Queued(c)' \/ Taken(c)'
  <2>0. PICK w \in Worker : /\ ~Alive(w)
                            /\ worker' = [worker EXCEPT ![w] = Taking]
    BY <1>1 DEF Start
  <2>1. worker[w].batch = <<>>  BY <1>e, <2>0 DEF Alive
  <2>2. \A v \in Worker : worker'[v].batch = worker[v].batch
    BY <1>t, <2>0, <2>1 DEF Taking
  <2>. QED  BY <1>1, <1>k, <2>2 DEF Start, Queued, Taken
<1>2. ASSUME NEW o \in Owner, Stop(o) \/ StopReturns(o) PROVE Queued(c)' \/ Taken(c)'
  BY <1>2, <1>k DEF Stop, StopReturns, Queued, Taken
<1>3. ASSUME NEW x \in Caller \cup {Sentinel}, queue' = Append(queue, x),
             worker' = worker, caller[c] = "waiting" \/ x = c
      PROVE  Queued(c)' \/ Taken(c)'
  <2>1. /\ Len(queue') = Len(queue) + 1
        /\ queue'[Len(queue) + 1] = x
        /\ \A k \in 1..Len(queue) : queue'[k] = queue[k]
    BY <1>t, <1>3, AppendProperties
  <2>2. CASE x = c
    <3>1. Len(queue) + 1 \in 1..Len(queue')  BY <1>t, <2>1
    <3>. QED  BY <2>1, <2>2, <3>1 DEF Queued
  <2>3. CASE x # c /\ Queued(c)
    <3>1. PICK k \in 1..Len(queue) : queue[k] = c  BY <2>3 DEF Queued
    <3>2. k \in 1..Len(queue') /\ queue'[k] = c  BY <1>t, <2>1, <3>1
    <3>. QED  BY <3>2 DEF Queued
  <2>4. CASE Taken(c)  BY <1>3, <2>4 DEF Taken
  <2>. QED  BY <1>3, <1>k, <2>2, <2>3, <2>4
<1>4. ASSUME NEW o \in Owner, PutSentinel(o) PROVE Queued(c)' \/ Taken(c)'
  BY <1>3, <1>4 DEF PutSentinel
<1>5. ASSUME NEW d \in Caller, Submit(d) PROVE Queued(c)' \/ Taken(c)'
  BY <1>3, <1>5, <1>t DEF Submit
<1>6. ASSUME NEW w \in Worker, NEW next, Take(w, next),
             \/ Head(queue) = Sentinel
             \/ \E k \in 1..Len(next.batch) : next.batch[k] = Head(queue),
             \A k \in 1..Len(worker[w].batch) :
                 \E n \in 1..Len(next.batch) : next.batch[n] = worker[w].batch[k]
      PROVE  Queued(c)' \/ Taken(c)'
  <2>1. /\ caller' = caller /\ worker'[w] = next
        /\ \A v \in Worker : v # w => worker'[v] = worker[v]
    BY <1>6, <1>t DEF Take
  <2>2. ASSUME NEW n \in 1..Len(next.batch), next.batch[n] = c PROVE Taken(c)'
    BY <2>1, <2>2 DEF Taken
  <2>3. CASE Taken(c)
    <3>1. PICK v \in Worker : \E k \in 1..Len(worker[v].batch) :
                                  worker[v].batch[k] = c
      BY <2>3 DEF Taken
    <3>2. CASE v = w  BY <1>6, <2>2, <3>1, <3>2
    <3>3. CASE v # w  BY <2>1, <3>1, <3>3 DEF Taken
    <3>. QED  BY <3>2, <3>3
  <2>4. CASE Queued(c)
    <3>0. PICK k \in 1..Len(queue) : queue[k] = c  BY <2>4 DEF Queued
    <3>1. /\ Head(queue) = queue[1]
          /\ queue' = Tail(queue) /\ Len(queue') = Len(queue) - 1
          /\ \A j \in 1..Len(queue') : queue'[j] = queue[j + 1]
      BY <1>6, <1>t, HeadTailProperties DEF Take
    <3>2. CASE k = 1
      <4>1. Head(queue) = c /\ c # Sentinel  BY <3>0, <3>1, <3>2
      <4>. QED  BY <1>6, <2>2, <4>1
    <3>3. CASE k # 1
      <4>1. k - 1 \in 1..Len(queue') /\ (k - 1) + 1 = k  BY <1>t, <3>0, <3>1, <3>3
      <4>2. queue'[k - 1] = c  BY <3>0, <3>1, <4>1
      <4>. QED  BY <4>1, <4>2 DEF Queued
    <3>. QED  BY <3>2, <3>3
  <2>. QED  BY <1>k, <2>1, <2>3, <2>4
<1>7. ASSUME NEW w \in Worker, TakeFirst(w) PROVE Queued(c)' \/ Taken(c)'
  <2>1. worker[w].batch = <<>> /\ Len(worker[w].batch) = 0
    BY <1>7, <1>e DEF TakeFirst
  <2>2. CASE Head(queue) = Sentinel
    BY <1>6, <1>7, <2>1, <2>2 DEF TakeFirst
  <2>3. CASE Head(queue) # Sentinel
    <3>. DEFINE next == [at |-> "collecting", batch |-> <<Head(queue)>>]
    <3>1. 1 \in 1..Len(next.batch) /\ next.batch[1] = Head(queue)  OBVIOUS
    <3>2. Take(w, next)  BY <1>7, <2>3 DEF TakeFirst
    <3>. HIDE DEF next
    <3>. QED  BY <1>6, <2>1, <3>1, <3>2
  <2>. QED  BY <2>2, <2>3
<1>8. ASSUME NEW w \in Worker, TakeMore(w) PROVE Queued(c)' \/ Taken(c)'
  <2>. DEFINE batch == worker[w].batch
  <2>1. batch \in Seq(Caller) /\ Len(batch) \in Nat  BY <1>b
  <2>2. CASE Head(queue) = Sentinel
    <3>. DEFINE next == AfterSentinel(batch)
    <3>1. next.batch = batch  BY DEF AfterSentinel
    <3>2. Take(w, next)  BY <1>8, <2>2 DEF TakeMore
    <3>. HIDE DEF next
    <3>. QED  BY <1>6, <2>2, <3>1, <3>2
  <2>3. CASE Head(queue) # Sentinel
    <3>. DEFINE next == [at |-> "collecting", batch |-> Append(batch, Head(queue))]
    <3>0. Head(queue) \in Caller  BY <1>8, <2>3, TakeType DEF TakeMore, Take
    <3>1. /\ Len(next.batch) = Len(batch) + 1
          /\ next.batch[Len(batch) + 1] = Head(queue)
          /\ \A k \in 1..Len(batch) : next.batch[k] = batch[k]
      BY <2>1, <3>0, AppendProperties
    <3>2. Take(w, next)  BY <1>8, <2>3 DEF TakeMore
    <3>3. /\ Len(batch) + 1 \in 1..Len(next.batch)
          /\ \A k \in 1..Len(batch) : k \in 1..Len(next.batch)
      BY <2>1, <3>1
    <3>. HIDE DEF next
    <3>. QED  BY <1>6, <3>1, <3>2, <3>3
  <2>. QED  BY <2>2, <2>3
<1>9. ASSUME NEW w \in Worker, CloseBatch(w) PROVE Queued(c)' \/ Taken(c)'
  <2>1. \A v \in Worker : worker'[v].batch = worker[v].batch
    BY <1>9, <1>t DEF CloseBatch, WorkerType
  <2>. QED  BY <1>9, <1>k, <2>1 DEF CloseBatch, Queued, Taken
<1>10. ASSUME NEW w \in Worker, SubmitBatch(w) PROVE Queued(c)' \/ Taken(c)'
  <2>1. caller[c] = "waiting" /\ ~Contains(worker[w].batch, c)
    BY <1>10, <1>t DEF SubmitBatch
  <2>2. \A k \in 1..Len(worker[w].batch) : worker[w].batch[k] # c
    BY <2>1 DEF Contains
  <2>3. queue' = queue /\ \A v \in Worker : v # w => worker'[v] = worker[v]
    BY <1>10, <1>t DEF SubmitBatch
  <2>4. CASE Taken(c)
    <3>1. PICK v \in Worker : \E k \in 1..Len(worker[v].batch) :
                                  worker[v].batch[k] = c
      BY <2>4 DEF Taken
    <3>2. v # w  BY <2>2, <3>1
    <3>. QED  BY <2>3, <3>1, <3>2 DEF Taken
  <2>. QED  BY <1>k, <2>1, <2>3, <2>4 DEF Queued
<1>11. CASE UNCHANGED vars  BY <1>11, <1>k DEF vars, Queued, Taken
<1>. QED
  BY <1>1, <1>2, <1>4, <1>5, <1>7, <1>8, <1>9, <1>10, <1>11 DEF Next, Run

-----------------------------------------------------------------------------
(* The invariant and what it is for.                                       *)

(* A new processor has no writer and nothing to stop.                      *)
LEMMA InitProcessor == Init => ProcessorInv
<1>. SUFFICES ASSUME Init PROVE ProcessorInv  OBVIOUS
<1>1. TypeOK  BY InitType
<1>2. Live = {} /\ Putting = {} /\ Sentinels(queue) = {}
  BY DEF Init, Live, Putting, Sentinels, Ended, Idle
<1>3. Cardinality({}) = 0  BY FS_EmptySet
<1>4. Balance
  <2>1. Slot(thread) = 0  BY DEF Slot, Init
  <2>2. Cardinality(Live) = 0 /\ Cardinality(Putting) = 0
        /\ Cardinality(Sentinels(queue)) = 0
    BY <1>2, <1>3
  <2>. QED  BY <2>1, <2>2 DEF Balance
<1>. QED
  BY <1>1, <1>4
  DEF ProcessorInv, EveryWriterKnown, SentinelLast, NobodyForgotten, NoBatchLeft,
      Init, Alive, Ended

(* ProcessorInv is inductive.                                              *)
LEMMA StepProcessor == ProcessorInv /\ [Next]_vars => ProcessorInv'
<1>. QED
  BY StepType, StepBalance, StepWriterKnown, StepSentinelLast, StepNobodyForgotten,
     StepNoBatchLeft
  DEF ProcessorInv

(* With nobody in stop and no current writer, nobody runs; then no         *)
(* sentinel is left, so that the queue has no last item.                   *)
LEMMA DrainedWhenStopped == ProcessorInv => StoppedIsDrained
<1>. SUFFICES ASSUME ProcessorInv, thread = None,
                     \A o \in Owner : owner[o] = Idle
              PROVE  /\ queue = <<>>
                     /\ \A w \in Worker : ~Alive(w)
                     /\ \A c \in Caller : caller[c] = "idle"
  BY DEF StoppedIsDrained
<1>. USE ThreadAssumption
<1>t. /\ queue \in Seq(Caller \cup {Sentinel}) /\ Len(queue) \in Nat
      /\ caller \in [Caller -> {"idle", "waiting"}]
  BY DEF ProcessorInv, TypeOK
<1>1. \A w \in Worker : ~Alive(w)
  BY DEF ProcessorInv, EveryWriterKnown, Idle
<1>2. Live = {} /\ Putting = {}  BY <1>1 DEF Live, Putting, Alive, Idle
<1>3. Cardinality({}) = 0  BY FS_EmptySet
<1>4. IsFiniteSet(Sentinels(queue)) /\ Cardinality(Sentinels(queue)) \in Nat
  BY <1>t, SentinelsFinite
<1>5. Cardinality(Sentinels(queue)) = 0
  BY <1>2, <1>3, <1>4 DEF ProcessorInv, Balance, Slot
<1>6. Sentinels(queue) = {}  BY <1>4, <1>5, FS_EmptySet
<1>7. queue = <<>>
  <2>1. SUFFICES ASSUME queue # <<>> PROVE FALSE  OBVIOUS
  <2>2. queue[Len(queue)] = Sentinel  BY <1>2, <2>1 DEF ProcessorInv, SentinelLast
  <2>3. Len(queue) \in 1..Len(queue)  BY <1>t, <2>1, EmptySeq
  <2>. QED  BY <1>6, <2>2, <2>3 DEF Sentinels
<1>8. \A c \in Caller : ~Queued(c)  BY <1>7 DEF Queued
<1>9. \A c \in Caller : ~Taken(c)
  <2>1. \A w \in Worker : worker[w].batch = <<>>
    BY <1>1 DEF Alive, ProcessorInv, NoBatchLeft
  <2>. QED  BY <2>1 DEF Taken
<1>. QED  BY <1>t, <1>1, <1>7, <1>8, <1>9 DEF ProcessorInv, NobodyForgotten

(* Once every stop has returned nothing runs, nothing is queued and nobody *)
(* waits, for any number of threads and although a writer may take the     *)
(* sentinel meant for another (stop joins outside the lifecycle lock).     *)
THEOREM StoppedDrained == Spec => []StoppedIsDrained
<1>1. Spec => []ProcessorInv  BY InitProcessor, StepProcessor, PTL DEF Spec
<1>2. ProcessorInv => StoppedIsDrained  BY DrainedWhenStopped
<1>. QED  BY <1>1, <1>2, PTL

=============================================================================
