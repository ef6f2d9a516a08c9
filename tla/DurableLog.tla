----------------------------- MODULE DurableLog -----------------------------
(***************************************************************************)
(* What Raft takes raft-log.json to be: a log that changes together with   *)
(* the one in memory.  A process that dies while it changes its log leaves *)
(* one of JournalPrefixes, or a file that load_log refuses; a log that     *)
(* memory never held is never loaded.                                      *)
(***************************************************************************)
EXTENDS RaftLog

CONSTANT Unreadable

VARIABLES
    up,         \* the process runs
    log,        \* the log in memory, while down the one it had at its end
    durable     \* what load_log makes of the file, Unreadable if it raises

Init == up = FALSE /\ log = durable

Change ==
    /\ up /\ up'
    /\ durable' \in {log', Unreadable}

Interrupted ==
    durable' \in {durable, log', Unreadable}
                   \cup (IF log'.base = log.base /\ durable # Unreadable
                         THEN JournalPrefixes(log, log') ELSE {})

Die == up /\ ~up' /\ Interrupted

Start ==
    /\ ~up /\ up'
    /\ durable # Unreadable
    /\ log' = durable /\ durable' = durable

Spec == Init /\ [][Change \/ Die \/ Start]_<<up, log, durable>>

(* The same on a disk that fails under a process that goes on.             *)
Fail == up /\ up' /\ Interrupted

FaultySpec == Init /\ [][Change \/ Fail \/ Die \/ Start]_<<up, log, durable>>
=============================================================================
