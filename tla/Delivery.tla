------------------------------ MODULE Delivery ------------------------------
(***************************************************************************)
(* What a server process promises about the files of a task, without       *)
(* saying how: no counts, no registry, no goroutines.                      *)
(*                                                                         *)
(* A task has a gate.  While it is open, connections are admitted; once it *)
(* is withdrawn they are refused, and those admitted before may still      *)
(* enter.  The task is settled at a moment when nobody is inside, and then *)
(* closed.  A connection that is inside either fails or delivers its file, *)
(* for good; a delivered file may be collected.  Only one that entered     *)
(* after the task was settled can find the gate closed, which ends the     *)
(* process.                                                                *)
(***************************************************************************)
CONSTANTS TaskIds, Conns, TaskOf

VARIABLES
    gate,       \* the gate of each task
    status,     \* how far each connection has come
    crashed     \* has the process ended?

vars == <<gate, status, crashed>>

GateState == {"new", "open", "withdrawn", "settled", "closed"}
Status == {"outside", "refused", "admitted", "inside", "delivered",
           "collected", "failed"}

Inside(t) == {c \in Conns : TaskOf[c] = t /\ status[c] = "inside"}

Init ==
    /\ gate = [t \in TaskIds |-> "new"]
    /\ status = [c \in Conns |-> "outside"]
    /\ crashed = FALSE

Turn(t, from, to) ==
    /\ gate[t] = from
    /\ gate' = [gate EXCEPT ![t] = to]
    /\ UNCHANGED <<status, crashed>>

Announce(t) == Turn(t, "new", "open")
Withdraw(t) == Turn(t, "open", "withdrawn")
Settle(t)   == Inside(t) = {} /\ Turn(t, "withdrawn", "settled")
Close(t)    == Turn(t, "settled", "closed")

Pass(c, from, to) ==
    /\ status[c] = from
    /\ status' = [status EXCEPT ![c] = to]
    /\ UNCHANGED <<gate, crashed>>

Admit(c)   == gate[TaskOf[c]] = "open" /\ Pass(c, "outside", "admitted")
Refuse(c)  == gate[TaskOf[c]] \notin {"new", "open"} /\ Pass(c, "outside", "refused")
Enter(c)   == Pass(c, "admitted", "inside")
Deliver(c) == gate[TaskOf[c]] # "closed" /\ Pass(c, "inside", "delivered")
Collect(c) == Pass(c, "delivered", "collected")
Fail(c)    == Pass(c, "outside", "failed") \/ Pass(c, "inside", "failed")

Crash(c) ==
    /\ status[c] = "inside" /\ gate[TaskOf[c]] = "closed"
    /\ crashed' = TRUE
    /\ UNCHANGED <<gate, status>>

Next ==
    /\ ~crashed
    /\ \/ \E t \in TaskIds : Announce(t) \/ Withdraw(t) \/ Settle(t) \/ Close(t)
       \/ \E c \in Conns : \/ Admit(c) \/ Refuse(c) \/ Enter(c) \/ Deliver(c)
                           \/ Collect(c) \/ Fail(c) \/ Crash(c)

Spec == Init /\ [][Next]_vars

=============================================================================
