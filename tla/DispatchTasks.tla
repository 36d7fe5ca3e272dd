---------------------------- MODULE DispatchTasks ----------------------------
(***************************************************************************)
(* connectors/huawei/client.py: the charge, discharge and stop commands of *)
(* coroutines that share a HuaweiBatteryClient, the task the client takes  *)
(* to be pending at each plant, and the plants, which turn every command   *)
(* into a task that ends by itself.  A call is split at its await: the     *)
(* check and the override of the pending task happen before the request    *)
(* is sent, its record and its removal when the answer is handled.         *)
(*                                                                         *)
(* Callers may overlap, messages may be lost, late or refused, and callers *)
(* may ask again for tasks they know have ended, unless the behaviour is a *)
(* careful one, with none of this.                                         *)
(***************************************************************************)
EXTENDS Naturals

CONSTANTS
    Callers,  \* coroutines that use the client
    Plants,
    Ids,      \* request ids of commands; one nobody refers to is used again
    StopId,   \* the request id of any stop: nobody asks for it
    NoId

ASSUME TaskAssumption ==
    /\ NoId \notin Ids
    /\ StopId \notin Ids \cup {NoId}

VARIABLES
    careful,  \* callers take turns, nothing is lost, nobody asks about old tasks
    pending,  \* plant -> the task the client takes to be pending: _pending_tasks
    pc,       \* caller -> "idle", "sent" (request on its way), "served" (answer on its way)
    op,       \* caller -> the call it makes
    at,       \* caller -> the plant it calls
    id,       \* caller -> the task asked for, or the one in the answer
    ended,    \* caller -> the answer says that the task is complete or timed out
    kept,     \* tasks of each plant that callers know to have ended and still refer to
    task,     \* request id -> what has become of the task
    follow,   \* plant -> the command it follows, or NoId
    late      \* requests still on their way whose caller has given up

callVars == <<pc, op, at, id, ended>>
clientVars == <<pending, kept, callVars>>
plantVars == <<task, follow, late>>
vars == <<careful, clientVars, plantVars>>

Orders == {"command", "stop"}

TypeOK ==
    /\ careful \in BOOLEAN
    /\ pending \in [Plants -> Ids \cup {NoId}]
    /\ pc \in [Callers -> {"idle", "sent", "served"}]
    /\ op \in [Callers -> Orders \cup {"status", "none"}]
    /\ at \in [Callers -> Plants \cup {NoId}]
    /\ id \in [Callers -> Ids \cup {StopId, NoId}]
    /\ ended \in [Callers -> BOOLEAN]
    /\ kept \in [Plants -> SUBSET Ids]
    /\ task \in [Ids -> {"unused", "running", "complete", "timeout"}]
    /\ follow \in [Plants -> Ids \cup {NoId}]
    /\ late \in SUBSET (Plants \X Orders)

Init ==
    /\ careful \in BOOLEAN
    /\ pending = [p \in Plants |-> NoId]
    /\ pc = [c \in Callers |-> "idle"]
    /\ op = [c \in Callers |-> "none"]
    /\ at = [c \in Callers |-> NoId]
    /\ id = [c \in Callers |-> NoId]
    /\ ended = [c \in Callers |-> FALSE]
    /\ kept = [p \in Plants |-> {}]
    /\ task = [i \in Ids |-> "unused"]
    /\ follow = [p \in Plants |-> NoId]
    /\ late = {}

-----------------------------------------------------------------------------
\* The client.

Send(c, p, what, i) ==
    /\ pc[c] = "idle"
    /\ careful => \A d \in Callers : pc[d] = "idle"
    /\ pc' = [pc EXCEPT ![c] = "sent"]
    /\ op' = [op EXCEPT ![c] = what]
    /\ at' = [at EXCEPT ![c] = p]
    /\ id' = [id EXCEPT ![c] = i]
    /\ UNCHANGED <<careful, kept, ended, plantVars>>

\* Definitions named Bug... are wrong versions of the definition after them, for
\* mutation testing; no specification uses them.

\* (Does not look at the pending task.)
BugNoCheck(c, p) ==
    /\ Send(c, p, "command", NoId)
    /\ UNCHANGED pending

\* charge() and discharge(): refused, with no effect, while a task is pending.
Command(c, p) ==
    /\ pending[p] = NoId
    /\ Send(c, p, "command", NoId)
    /\ UNCHANGED pending

\* stop(): an override, forgets the pending task first.
Stop(c, p) ==
    /\ Send(c, p, "stop", NoId)
    /\ pending' = [pending EXCEPT ![p] = NoId]

\* get_task_status(), of the pending task or of one the caller has kept.  The loop
\* of wait_for_task() is a sequence of these questions that stops at its deadline
\* or at the first one that fails: nothing says that anybody asks again.
Ask(c, p) ==
    /\ \E i \in {pending[p]} \cup kept[p] : i # NoId /\ Send(c, p, "status", i)
    /\ UNCHANGED pending

\* The call of c is over.
Finished(c) ==
    /\ pc' = [pc EXCEPT ![c] = "idle"]
    /\ op' = [op EXCEPT ![c] = "none"]
    /\ at' = [at EXCEPT ![c] = NoId]
    /\ id' = [id EXCEPT ![c] = NoId]
    /\ ended' = [ended EXCEPT ![c] = FALSE]

\* (Records the task of a stop like any other.)
BugStopPending(c) ==
    /\ pc[c] = "served"
    /\ op[c] \in Orders
    /\ Finished(c)
    /\ pending' = [pending EXCEPT ![at[c]] = id[c]]
    /\ UNCHANGED <<careful, kept, plantVars>>

\* The answer to an order: only charge and discharge leave a pending task.
Ordered(c) ==
    /\ pc[c] = "served"
    /\ op[c] \in Orders
    /\ Finished(c)
    /\ pending' = [pending EXCEPT ![at[c]] = IF op[c] = "command" THEN id[c] ELSE @]
    /\ UNCHANGED <<careful, kept, plantVars>>

\* (Takes a timed-out task to be still pending.)
BugTimeoutPending(c) ==
    /\ pc[c] = "served"
    /\ op[c] = "status"
    /\ Finished(c)
    /\ pending' = [pending EXCEPT ![at[c]] = IF task[id[c]] = "complete" THEN NoId ELSE @]
    /\ kept' = [kept EXCEPT ![at[c]] = IF ~careful /\ ended[c] THEN @ \cup {id[c]} ELSE @]
    /\ UNCHANGED <<careful, plantVars>>

\* The answer to a question: the end of any task forgets the pending one.
Told(c) ==
    /\ pc[c] = "served"
    /\ op[c] = "status"
    /\ Finished(c)
    /\ pending' = [pending EXCEPT ![at[c]] = IF ended[c] THEN NoId ELSE @]
    /\ kept' = [kept EXCEPT ![at[c]] = IF ~careful /\ ended[c] THEN @ \cup {id[c]} ELSE @]
    /\ UNCHANGED <<careful, plantVars>>

\* The request or the answer is lost, or the plant refuses: an error, and
\* nothing of the client changes.
Fail(c) ==
    /\ ~careful
    /\ pc[c] # "idle"
    /\ Finished(c)
    /\ UNCHANGED <<careful, pending, kept, plantVars>>

\* The caller gives up and the order arrives afterwards.
GiveUp(c) ==
    /\ ~careful
    /\ pc[c] = "sent"
    /\ op[c] \in Orders
    /\ Finished(c)
    /\ late' = late \cup {<<at[c], op[c]>>}
    /\ UNCHANGED <<careful, pending, kept, task, follow>>

-----------------------------------------------------------------------------
\* The plants.

Free(i) ==
    /\ \A p \in Plants : i \notin kept[p] \cup {pending[p], follow[p]}
    /\ \A c \in Callers : id[c] # i

\* A charge or discharge is a new task, followed instead of what was before; a
\* stop ends what is followed.
Obey(p, order, i) ==
    IF order = "command"
    THEN /\ i \in Ids /\ Free(i)
         /\ task' = [task EXCEPT ![i] = "running"]
         /\ follow' = [follow EXCEPT ![p] = i]
    ELSE /\ i = StopId
         /\ follow' = [follow EXCEPT ![p] = NoId]
         /\ UNCHANGED task

Serve(c) ==
    /\ pc[c] = "sent"
    /\ pc' = [pc EXCEPT ![c] = "served"]
    /\ IF op[c] = "status"
       THEN /\ ended' = [ended EXCEPT ![c] = task[id[c]] \in {"complete", "timeout"}]
            /\ UNCHANGED <<id, task, follow>>
       ELSE /\ \E i \in Ids \cup {StopId} :
                   Obey(at[c], op[c], i) /\ id' = [id EXCEPT ![c] = i]
            /\ UNCHANGED ended
    /\ UNCHANGED <<careful, pending, kept, op, at, late>>

ServeLate(p, order) ==
    /\ <<p, order>> \in late
    /\ late' = late \ {<<p, order>>}
    /\ \E i \in Ids \cup {StopId} : Obey(p, order, i)
    /\ UNCHANGED <<careful, clientVars>>

TaskEnds(i, how) ==
    /\ task[i] = "running"
    /\ task' = [task EXCEPT ![i] = how]
    /\ UNCHANGED <<careful, clientVars, follow, late>>

Next ==
    \/ \E c \in Callers :
        \/ \E p \in Plants : Command(c, p) \/ Stop(c, p) \/ Ask(c, p)
        \/ Serve(c) \/ Ordered(c) \/ Told(c) \/ Fail(c) \/ GiveUp(c)
    \/ \E p \in Plants, order \in Orders : ServeLate(p, order)
    \/ \E i \in Ids, how \in {"complete", "timeout"} : TaskEnds(i, how)

Spec == Init /\ [][Next]_vars

\* Tasks end, as those of the simulator do, and what is sent again and again is
\* answered and handled at last.  Nobody has to ask.
FairSpec ==
    /\ Spec
    /\ \A i \in Ids : WF_vars(\E how \in {"complete", "timeout"} : TaskEnds(i, how))
    /\ \A c \in Callers : SF_vars(Serve(c)) /\ SF_vars(Told(c)) /\ WF_vars(Ordered(c))

-----------------------------------------------------------------------------
InProgress(p) == follow[p] # NoId /\ task[follow[p]] = "running"

\* connectors/huawei/client.py:248 and :272: charge() and discharge() raise
\* HuaweiTaskError "if a task is already in progress for this plant".  As long as
\* callers are careful, no command is sent to a plant still at work on another.
InProgressRefused ==
    [][careful => \A c \in Callers, p \in Plants : Command(c, p) => ~InProgress(p)]_vars

\* A question about the task the client takes to be pending is on its way.
Asking(p) ==
    /\ pending[p] # NoId
    /\ \E c \in Callers : pc[c] = "sent" /\ op[c] = "status" /\ at[c] = p /\ id[c] = pending[p]

\* connectors/huawei/client.py:395: "Call get_task_status() to confirm completion
\* before sending a new command".  Calling it again and again does unlock the
\* plant, whatever answers are lost on the way, whoever asks and however the task
\* ended.  If the callers stop asking, as wait_for_task() does, nothing does.
AskingUnlocks == \A p \in Plants : []<>Asking(p) => []<>(pending[p] = NoId)
=============================================================================
