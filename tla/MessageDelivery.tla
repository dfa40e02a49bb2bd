-------------------------- MODULE MessageDelivery --------------------------
(***************************************************************************)
(* How orchestration messages reach their readers: the long polls          *)
(* check --wait and ask (rpc/methods/orchestration.ts) on the waiter       *)
(* registry, reply, group sends, and push-on-idle delivery into an agent's *)
(* terminal (orca-runtime.ts).  Reconciliation of lifecycle messages is    *)
(* reduced to what it does here: it may mark heartbeats read and delivered.*)
(*                                                                         *)
(* A handler runs atomically up to its await.  The call of a waiter that a *)
(* message woke goes on in any order with other calls; one whose timer     *)
(* fired or whose client left goes on (a microtask) before anything else.  *)
(***************************************************************************)
EXTENDS WaiterRegistry, Sequences

CONSTANTS
    MaxMessages,     \* bound on messages
    MaxTimers,       \* bound on Enter keys pending for one terminal
    Coord,           \* the coordinator's handle, which exit escalations go to
    SendTypes,       \* the types send is called with
    SendThreads,     \* the thread ids send is called with (0: none)
    FilterChoices,   \* the type filters check is called with
    Modes,           \* the read modes check is called with
    Asks, Groups,    \* whether ask and group sends are called
    Agents,          \* handles whose terminal runs an agent that shows its status
    UserOwned,       \* handles whose prompt is not submitted (Cursor, coordinator)
    WriteFaults      \* whether a write to a live terminal may fail

MessageTypes == {"status", "heartbeat", "worker_done", "escalation", "decision_gate"}
LifecycleTypes == {"heartbeat", "worker_done"}
MessageIds == 1..MaxMessages

\* The thread id of a group send without one, which is no message's id.
GroupThread == MaxMessages + 1

ASSUME DeliveryAssumption ==
    /\ MaxMessages \in Nat /\ MaxTimers \in Nat
    /\ Coord \in Handles
    /\ SendTypes \subseteq MessageTypes
    /\ SendThreads \subseteq {0} \cup MessageIds
    /\ FilterChoices \subseteq {NoFilter} \cup SUBSET MessageTypes
    /\ Modes \subseteq {"unread", "peek", "all"}
    /\ Asks \in BOOLEAN /\ Groups \in BOOLEAN
    /\ Agents \subseteq Handles /\ UserOwned \subseteq Handles
    /\ WriteFaults \in BOOLEAN

VARIABLES
    msg,      \* the messages table
    nMsg,     \* ids handed out
    call,     \* the long-poll calls
    reg,      \* the waiter registry
    agent,    \* each terminal: idle or not by its title, or gone
    enter,    \* for each terminal, the batches whose Enter key is due
    shown,    \* how often a message's banner was written (2: twice or more)
    seen,     \* messages that calls returned to their clients
    excused   \* messages marked read for another reason than being returned

vars == <<msg, nMsg, call, reg, agent, enter, shown, seen, excused>>

MessageRow == [stored : BOOLEAN, from : Handles, to : Handles, type : MessageTypes,
               thread : 0..GroupThread, read : BOOLEAN, delivered : BOOLEAN, hook : BOOLEAN]

Row(from, to, type, thread) ==
    [stored |-> TRUE, from |-> from, to |-> to, type |-> type, thread |-> thread,
     read |-> FALSE, delivered |-> FALSE, hook |-> FALSE]

IdleCall == [pc |-> "idle", kind |-> "check", handle |-> Coord, filter |-> NoFilter,
             mode |-> "unread", thread |-> 0, late |-> FALSE, gone |-> FALSE]

NoRow == [Row(Coord, Coord, "status", 0) EXCEPT !.stored = FALSE]

Init ==
    /\ msg = [m \in MessageIds |-> NoRow]
    /\ nMsg = 0
    /\ call = [c \in Calls |-> IdleCall]
    /\ reg = EmptyRegistry
    /\ agent = [h \in Handles |-> "working"]
    /\ enter = [h \in Handles |-> <<>>]
    /\ shown = [m \in MessageIds |-> 0]
    /\ seen = {}
    /\ excused = {}

-----------------------------------------------------------------------------
(* Queries and updates of the messages table.                              *)

\* The query's side of a type filter: an empty list selects everything.
Selects(filter, type) == filter \in {NoFilter, {}} \/ type \in filter

\* What a check would return.
CheckResult(M, h, filter, mode) ==
    {m \in MessageIds : /\ M[m].stored /\ M[m].to = h
                        /\ mode = "all" \/ ~M[m].read
                        /\ Selects(filter, M[m].type)}

\* getThreadMessagesFor: answers to a question, read or not.
Replies(M, h, thread) ==
    {m \in MessageIds : M[m].stored /\ M[m].to = h /\ M[m].thread = thread /\ m > thread}

getUndeliveredUnreadMessages(M, h) ==
    {m \in MessageIds : M[m].stored /\ M[m].to = h /\ ~M[m].read /\ ~M[m].delivered}

UnreadHeartbeats(M, h) ==
    {m \in MessageIds : M[m].stored /\ M[m].to = h /\ ~M[m].read /\ M[m].type = "heartbeat"}

markAsRead(M, ids) ==
    [m \in MessageIds |-> IF m \in ids /\ M[m].stored THEN [M[m] EXCEPT !.read = TRUE] ELSE M[m]]

markAsDelivered(M, ids) ==
    [m \in MessageIds |-> IF m \in ids /\ M[m].stored THEN [M[m] EXCEPT !.delivered = TRUE] ELSE M[m]]

markAsReadAndDelivered(M, ids) == markAsDelivered(markAsRead(M, ids), ids)

-----------------------------------------------------------------------------
(* Push-on-idle delivery and the wake-up of long polls.                    *)

\* deliverPendingMessages for each of the handles, whose agents are idle: the
\* banner of all undelivered rows is written at once.  A terminal whose prompt
\* the user owns has its rows stamped; the others get an Enter key later.
deliverPendingMessages(M, handles) ==
    LET batch(h) == getUndeliveredUnreadMessages(M, h)
        due == {h \in handles : batch(h) # {}}
    IN  \E wrote \in SUBSET due :
            /\ ~WriteFaults => wrote = due
            /\ \A h \in wrote \ UserOwned : Len(enter[h]) < MaxTimers
            /\ msg' = markAsDelivered(M, UNION {batch(h) : h \in wrote \cap UserOwned})
            /\ enter' = [h \in Handles |-> IF h \in wrote \ UserOwned
                                           THEN Append(enter[h], batch(h)) ELSE enter[h]]
            /\ shown' = [m \in MessageIds |-> IF shown[m] < 2 /\ \E h \in wrote : m \in batch(h)
                                              THEN shown[m] + 1 ELSE shown[m]]

\* deliverPendingMessagesForHandle: only if the agent is idle now.
PushTo(M, handles) == deliverPendingMessages(M, {h \in handles : agent[h] = "idle"})

Woken(handles, type) ==
    {c \in Calls : \E h \in handles : c \in reg.waiters[h] /\ wakes(call[c].filter, type)}

Wake(calls) == [c \in Calls |-> IF c \in calls THEN [call[c] EXCEPT !.pc = "woken"] ELSE call[c]]

\* notifyMessageArrived, for each of the handles.
Notify(handles, type) ==
    /\ reg' = settle(reg, Woken(handles, type))
    /\ call' = Wake(Woken(handles, type))

\* No call whose timer fired or whose client left is still to go on.
Served == \A c \in Calls : call[c].pc = "woken" => ~call[c].gone /\ ~call[c].late

-----------------------------------------------------------------------------
(* send, reply and reset.                                                  *)

\* send to one handle.  A heartbeat of a finished dispatch is suppressed; a
\* worker_done suppresses the earlier heartbeats of its dispatch.
Send(from, to, type, thread) ==
    LET m == nMsg + 1
        inserted == [msg EXCEPT ![m] = Row(from, to, type, thread)]
    IN  /\ Served
        /\ m \in MessageIds
        /\ nMsg' = m
        /\ \/ /\ type = "heartbeat"
              /\ msg' = markAsReadAndDelivered(inserted, {m})
              /\ excused' = excused \cup {m}
              /\ UNCHANGED <<call, reg, enter, shown>>
           \/ \E stale \in SUBSET IF type = "worker_done" THEN UnreadHeartbeats(msg, to) ELSE {} :
                /\ PushTo(markAsReadAndDelivered(inserted, stale), {to})
                /\ excused' = excused \cup stale
                /\ Notify({to}, type)
        /\ UNCHANGED <<agent, seen>>

\* send to a group (never of a lifecycle message): one row per recipient, then
\* each recipient is served.  The terminals are listed before an await, so a
\* recipient may be gone by now.
GroupSend(from, type, thread) ==
    \E recipients \in SUBSET (Handles \ {from}) :
        LET n == Cardinality(recipients)
        IN  /\ Served
            /\ n > 0 /\ nMsg + n <= MaxMessages
            /\ type \notin LifecycleTypes
            /\ \E order \in [1..n -> recipients] :
                  /\ \A i, j \in 1..n : order[i] = order[j] => i = j
                  /\ PushTo([m \in MessageIds |-> IF m - nMsg \in 1..n
                                THEN Row(from, order[m - nMsg], type,
                                         IF thread = 0 THEN GroupThread ELSE thread)
                                ELSE msg[m]], recipients)
            /\ nMsg' = nMsg + n
            /\ Notify(recipients, type)
            /\ UNCHANGED <<agent, seen, excused>>

\* Mutant: the asker is not woken.
Reply_Silent(m) ==
    LET n == nMsg + 1
    IN  /\ Served
        /\ msg[m].stored /\ n \in MessageIds
        /\ nMsg' = n
        /\ msg' = [markAsRead(msg, {m}) EXCEPT ![n] = Row(msg[m].to, msg[m].from, "status",
                      IF msg[m].thread = 0 THEN m ELSE msg[m].thread)]
        /\ excused' = excused \cup {m}
        /\ UNCHANGED <<call, reg, agent, enter, shown, seen>>

\* reply wakes the asker but is not pushed into its terminal.
Reply(m) ==
    LET n == nMsg + 1
    IN  /\ Served
        /\ msg[m].stored /\ n \in MessageIds
        /\ nMsg' = n
        /\ msg' = [markAsRead(msg, {m}) EXCEPT ![n] = Row(msg[m].to, msg[m].from, "status",
                      IF msg[m].thread = 0 THEN m ELSE msg[m].thread)]
        /\ excused' = excused \cup {m}
        /\ Notify({msg[m].from}, "status")
        /\ UNCHANGED <<agent, enter, shown, seen>>

ResetMessages ==
    /\ Served
    /\ msg' = [m \in MessageIds |-> NoRow]
    /\ UNCHANGED <<nMsg, call, reg, agent, enter, shown, seen, excused>>

-----------------------------------------------------------------------------
(* check --wait.                                                           *)

\* readAndReturn: the unread mode consumes what it returns.  Reconciling the
\* lifecycle messages again may stamp a heartbeat, or suppress earlier ones of
\* the dispatch that a worker_done only now completes.
ReadAndReturn(h, filter, mode) ==
    LET batch == CheckResult(msg, h, filter, mode)
        heartbeats == {m \in UnreadHeartbeats(msg, h) :
                          m \in batch \/ \E w \in batch : msg[w].type = "worker_done" /\ m < w}
    IN  /\ IF mode = "unread"
           THEN \E stale \in SUBSET heartbeats :
                   /\ msg' = markAsReadAndDelivered(markAsRead(msg, batch), stale)
                   /\ excused' = excused \cup (stale \ batch)
           ELSE UNCHANGED <<msg, excused>>
        /\ seen' = seen \cup batch

\* waitForMessage for call c, on registry R and calls C: an exceeded limit is
\* an exception that ends the call.
WaitForMessage(R, C, c, next) ==
    IF admits(R, next.handle)
    THEN /\ reg' = retain(R, next.handle, c)
         /\ call' = [C EXCEPT ![c] = next]
    ELSE /\ reg' = R
         /\ call' = [C EXCEPT ![c] = IdleCall]

CheckStart(c, h, filter, mode) ==
    /\ Served
    /\ call[c].pc = "idle"
    /\ IF CheckResult(msg, h, filter, mode) # {}
       THEN /\ ReadAndReturn(h, filter, mode)
            /\ UNCHANGED <<call, reg>>
       ELSE /\ WaitForMessage(reg, call, c,
                   [IdleCall EXCEPT !.pc = "waiting", !.handle = h, !.filter = filter,
                                    !.mode = mode])
            /\ UNCHANGED <<msg, seen, excused>>
    /\ UNCHANGED <<nMsg, agent, enter, shown>>

\* Mutant: the client is not looked at again.
CheckResume_GoneToo(c) ==
    /\ call[c].pc = "woken" /\ call[c].kind = "check"
    /\ IF call[c].gone
       THEN /\ msg' = markAsRead(msg, CheckResult(msg, call[c].handle, call[c].filter, call[c].mode))
            /\ UNCHANGED <<seen, excused>>
       ELSE ReadAndReturn(call[c].handle, call[c].filter, call[c].mode)
    /\ call' = [call EXCEPT ![c] = IdleCall]
    /\ UNCHANGED <<nMsg, reg, agent, enter, shown>>

\* After the wait, whatever ended it: nothing is read for a client that has gone.
CheckResume(c) ==
    /\ call[c].pc = "woken" /\ call[c].kind = "check"
    /\ IF call[c].gone
       THEN UNCHANGED <<msg, seen, excused>>
       ELSE ReadAndReturn(call[c].handle, call[c].filter, call[c].mode)
    /\ call' = [call EXCEPT ![c] = IdleCall]
    /\ UNCHANGED <<nMsg, reg, agent, enter, shown>>

-----------------------------------------------------------------------------
(* ask.                                                                    *)

\* The question is sent, its recipient served, and the first turn of the loop
\* finds no reply; it waits, or ends at once if its time is already up.
Ask(c, from, to) ==
    LET m == nMsg + 1
        woken == Woken({to}, "decision_gate")
    IN  /\ Served
        /\ Asks
        /\ call[c].pc = "idle"
        /\ m \in MessageIds
        /\ nMsg' = m
        /\ PushTo([msg EXCEPT ![m] = Row(from, to, "decision_gate", 0)], {to})
        /\ \/ WaitForMessage(settle(reg, woken), Wake(woken), c,
                  [IdleCall EXCEPT !.pc = "waiting", !.kind = "ask", !.handle = from, !.thread = m])
           \/ /\ reg' = settle(reg, woken)
              /\ call' = Wake(woken)
        /\ UNCHANGED <<agent, seen, excused>>

\* Mutant: a wait that timed out is simply repeated.
DeadlinePassed_Never(c) == {FALSE}

\* Whether the deadline has passed when the loop looks: surely after the timer
\* fired, possibly after a message woke the call.
DeadlinePassed(c) == IF call[c].late THEN {TRUE} ELSE BOOLEAN

\* A turn of ask's loop: first the replies, even for a client that has gone, then
\* the client, then the deadline.
AskResume(c) ==
    LET replies == Replies(msg, call[c].handle, call[c].thread)
    IN  /\ call[c].pc = "woken" /\ call[c].kind = "ask"
        /\ \/ \E r \in replies :
                /\ \A q \in replies : r <= q
                /\ msg' = markAsRead(msg, {r})
                /\ seen' = IF call[c].gone THEN seen ELSE seen \cup {r}
                /\ call' = [call EXCEPT ![c] = IdleCall]
                /\ UNCHANGED reg
           \/ /\ replies = {}
              /\ \E passed \in DeadlinePassed(c) :
                    IF call[c].gone \/ passed
                    THEN /\ call' = [call EXCEPT ![c] = IdleCall]
                         /\ UNCHANGED reg
                    ELSE WaitForMessage(reg, call, c, [call[c] EXCEPT !.pc = "waiting", !.late = FALSE])
              /\ UNCHANGED <<msg, seen>>
        /\ UNCHANGED <<nMsg, agent, enter, shown, excused>>

-----------------------------------------------------------------------------
(* The other ends of a wait.                                               *)

\* The waiter's timer.
Timeout(c) ==
    /\ Served
    /\ call[c].pc = "waiting"
    /\ reg' = settle(reg, {c})
    /\ call' = [call EXCEPT ![c].pc = "woken", ![c].late = TRUE]
    /\ UNCHANGED <<msg, nMsg, agent, enter, shown, seen, excused>>

\* The client's socket closes.
Abort(c) ==
    /\ Served
    /\ call[c].pc = "waiting"
    /\ reg' = settle(reg, {c})
    /\ call' = [call EXCEPT ![c].pc = "woken", ![c].gone = TRUE]
    /\ UNCHANGED <<msg, nMsg, agent, enter, shown, seen, excused>>

-----------------------------------------------------------------------------
(* Terminals.                                                              *)

\* Mutant: an agent that comes to rest is not served.
BecomeIdle_Silent(h) ==
    /\ Served
    /\ h \in Agents
    /\ agent[h] = "working"
    /\ agent' = [agent EXCEPT ![h] = "idle"]
    /\ UNCHANGED <<msg, nMsg, call, reg, enter, shown, seen, excused>>

\* The title turns idle: pending messages are pushed.
BecomeIdle(h) ==
    /\ Served
    /\ h \in Agents
    /\ agent[h] = "working"
    /\ agent' = [agent EXCEPT ![h] = "idle"]
    /\ deliverPendingMessages(msg, {h})
    /\ UNCHANGED <<nMsg, call, reg, seen, excused>>

BecomeBusy(h) ==
    /\ Served
    /\ agent[h] = "idle"
    /\ agent' = [agent EXCEPT ![h] = "working"]
    /\ UNCHANGED <<msg, nMsg, call, reg, enter, shown, seen, excused>>

\* Mutant: the key stamps what is undelivered when it is written.
EnterKey_StampsAll(h) ==
    /\ Served
    /\ enter[h] # <<>>
    /\ enter' = [enter EXCEPT ![h] = Tail(@)]
    /\ \/ /\ agent[h] # "gone"
          /\ msg' = markAsDelivered(msg, getUndeliveredUnreadMessages(msg, h))
       \/ /\ agent[h] = "gone" \/ WriteFaults
          /\ UNCHANGED msg
    /\ UNCHANGED <<nMsg, call, reg, agent, shown, seen, excused>>

\* The delayed Enter key: its batch is stamped if the key was written.
EnterKey(h) ==
    /\ Served
    /\ enter[h] # <<>>
    /\ enter' = [enter EXCEPT ![h] = Tail(@)]
    /\ \/ /\ agent[h] # "gone"
          /\ msg' = markAsDelivered(msg, Head(enter[h]))
       \/ /\ agent[h] = "gone" \/ WriteFaults
          /\ UNCHANGED msg
    /\ UNCHANGED <<nMsg, call, reg, agent, shown, seen, excused>>

\* The terminal exits.  If it held a dispatch and a run is active, an
\* escalation is inserted for the coordinator, which nobody is told of.
Exit(h) ==
    /\ Served
    /\ agent[h] # "gone"
    /\ agent' = [agent EXCEPT ![h] = "gone"]
    /\ \/ UNCHANGED <<msg, nMsg>>
       \/ /\ nMsg < MaxMessages
          /\ nMsg' = nMsg + 1
          /\ msg' = [msg EXCEPT ![nMsg + 1] = [Row(h, Coord, "escalation", 0) EXCEPT !.hook = TRUE]]
    /\ UNCHANGED <<call, reg, enter, shown, seen, excused>>

-----------------------------------------------------------------------------
Resume(c) == CheckResume(c) \/ AskResume(c)

Next ==
    \/ \E from, to \in Handles, type \in SendTypes, thread \in SendThreads :
          Send(from, to, type, thread)
    \/ Groups /\ \E from \in Handles, type \in SendTypes, thread \in SendThreads :
          GroupSend(from, type, thread)
    \/ \E m \in MessageIds : Reply(m)
    \/ ResetMessages
    \/ \E c \in Calls, h \in Handles, filter \in FilterChoices, mode \in Modes :
          CheckStart(c, h, filter, mode)
    \/ \E c \in Calls, from, to \in Handles : Ask(c, from, to)
    \/ \E c \in Calls : Resume(c) \/ Timeout(c) \/ Abort(c)
    \/ \E h \in Handles : BecomeIdle(h) \/ BecomeBusy(h) \/ EnterKey(h) \/ Exit(h)

Spec == Init /\ [][Next]_vars

(***************************************************************************)
(* Timers fire and a resolved promise's continuation runs.  TurnsTaken is  *)
(* an assumption on the agents: one that is not gone comes to rest and     *)
(* gets busy again and again.                                              *)
(***************************************************************************)
TimersFire ==
    /\ \A c \in Calls : WF_vars(Resume(c)) /\ SF_vars(Timeout(c))
    /\ \A h \in Handles : SF_vars(EnterKey(h))

TurnsTaken == \A h \in Handles : SF_vars(BecomeIdle(h)) /\ SF_vars(BecomeBusy(h))

PushSpec == Spec /\ TimersFire /\ TurnsTaken

-----------------------------------------------------------------------------
(* Properties.                                                             *)

LongPoll == [pc : {"idle", "waiting", "woken"}, kind : {"check", "ask"}, handle : Handles,
             filter : {NoFilter} \cup SUBSET MessageTypes, mode : {"unread", "peek", "all"},
             thread : 0..MaxMessages, late : BOOLEAN, gone : BOOLEAN]

\* Type invariant: messages, calls, the registry and the terminals keep their shapes.
TypeOK ==
    /\ msg \in [MessageIds -> MessageRow]
    /\ nMsg \in 0..MaxMessages
    /\ call \in [Calls -> LongPoll]
    /\ reg \in Registry
    /\ agent \in [Handles -> {"idle", "working", "gone"}]
    /\ enter \in [Handles -> Seq(SUBSET MessageIds)]
    /\ shown \in [MessageIds -> 0..2]
    /\ seen \subseteq MessageIds
    /\ excused \subseteq MessageIds

\* The registry's slots: whichever of a message, a timer and a lost client ends a
\* wait, a slot and its handle's bytes are freed exactly once, so the counters
\* agree with the calls that really wait and no limit is exceeded.
SlotsAreExact ==
    LET waiting == {c \in Calls : call[c].pc = "waiting"}
        held(h) == {c \in waiting : call[c].handle = h}
    IN  /\ \A h \in Handles : reg.waiters[h] = held(h)
        /\ reg.waiterCount = Cardinality(waiting)
        /\ reg.waiterCount <= maxWaiters
        /\ reg.retainedHandleBytes = BytesOf({h \in Handles : held(h) # {}})
        /\ reg.retainedHandleBytes <= maxRetainedHandleBytes
        /\ \A h \in Handles : Cardinality(held(h)) <= maxWaitersPerHandle

\* orca-runtime.ts: "wake blocking orchestration.check --wait calls on this handle so
\* they return the new message immediately".  No call sleeps beside a message it would
\* return, be it new mail or the answer to its question.  Exempt are the escalation of an
\* exit, which is meant for the coordinator's next check, and a suppressed heartbeat.
NoLostWakeup ==
    \A c \in Calls : call[c].pc = "waiting" =>
        IF call[c].kind = "ask"
        THEN Replies(msg, call[c].handle, call[c].thread) \subseteq excused
        ELSE \A m \in CheckResult(msg, call[c].handle, call[c].filter, call[c].mode) :
                 msg[m].hook \/ m \in excused

\* A message that is marked read was returned to a client that was still there,
\* answered, or suppressed as a heartbeat of finished work: a disconnect never
\* swallows mail.
ReadWasSeen ==
    \A m \in MessageIds : msg[m].stored /\ msg[m].read => m \in excused \cup seen

\* A message is stamped delivered only if its banner was written into the terminal
\* (or it was suppressed), so a failed write never hides it from later deliveries.
DeliveredWasShown ==
    \A m \in MessageIds : msg[m].delivered =>
        shown[m] > 0 \/ m \in excused \/ msg[m].type = "heartbeat"

\* Every long poll ends: a message, its timer or its client ends it, and messages for
\* others cannot keep an ask's loop going past its deadline.
WaitEnds == \A c \in Calls : call[c].pc = "waiting" ~> call[c].pc = "idle"

\* Unread mail for an agent that keeps taking turns is eventually shown to it, even
\* if it came as a reply or beside other deliveries.
MailIsPushed ==
    \A m \in MessageIds :
        msg[m].stored /\ ~msg[m].delivered /\ msg[m].to \in Agents ~>
            shown[m] > 0 \/ msg[m].read \/ ~msg[m].stored \/ agent[msg[m].to] = "gone"
=============================================================================
