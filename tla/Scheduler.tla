---------------------------- MODULE Scheduler ----------------------------
(***************************************************************************)
(* The timer thread of the server (src/source/scheduler.cpp, scheduler.h). *)
(* Any thread arms an event with addEvent and cancels it with stopEvent;   *)
(* the scheduler thread sleeps on a condition variable until the earliest  *)
(* deadline, pops that event and hands it over to the dispatcher.          *)
(*                                                                         *)
(* m_eventLock is not a variable: every critical section is one atomic     *)
(* action, and a wait releases the lock between two actions.  What happens *)
(* outside the lock is a step of its own: the notify and the final read of *)
(* addEvent, the loop test and the hand-over of the thread.                *)
(***************************************************************************)
EXTENDS Integers

CONSTANTS
    Event,       \* the SchedulerTask objects, each allocated once
    NoEvent,     \* the NULL task pointer
    Delay,       \* the delays asked of createSchedulerTask
    MinTicks,    \* SCHEDULER_MINTICKS
    MaxEventId,  \* the largest event id, 0xFFFFFFFF in the code
    MaxTime      \* bound: no event is created with a deadline past it

ASSUME SchedulerConstants ==
    /\ NoEvent \notin Event
    /\ Delay \subseteq Nat \ {0}         \* assert(delay != 0)
    /\ MinTicks \in Nat \ {0}
    /\ MaxEventId \in Nat \ {0}
    /\ MaxTime \in Nat

VARIABLES
    now,         \* boost::get_system_time(), in ticks
    schedState,  \* m_threadState
    lastEventId, \* m_lastEventId
    eventIds,    \* m_eventIds, the ids of the events nobody stopped
    eventId,     \* m_eventid of every task, 0 until addEvent sets it
    cycle,       \* getCycle() of every task, its deadline
    life,        \* where every task object is
    call,        \* how far the createSchedulerTask / addEvent call of a task is
    spc,         \* where the scheduler thread is
    waitUntil,   \* the deadline the thread's timed_wait was given
    task,        \* the local `task` of the thread
    runTask,     \* the local `runTask` of the thread
    stopped,     \* history: the events whose stopEvent returned true
    added        \* history: the number of ids generated

threadVars == <<spc, waitUntil, task, runTask>>
schedVars == <<now, schedState, lastEventId, eventIds, eventId, cycle, life,
               call, threadVars, stopped, added>>

-----------------------------------------------------------------------------
SchedState == {"running", "closing", "terminated"}
Life == {"new", "queued", "taken", "handed", "deleted", "leaked"}
CallPc == {"new", "created", "notify", "return", "done"}
ThreadPc == {"test", "lock", "wait", "timed", "signalled", "expired",
             "deliver", "done"}

\* m_eventList, a priority queue whose top is an event of least deadline
Queued == {e \in Event : life[e] = "queued"}
Tops == {e \in Queued : \A f \in Queued : cycle[e] <= cycle[f]}

\* The id another accepted event also got: ids are 32 bits wide and wrap.
Reused(e) == \E f \in Event \ {e} : eventId[f] = eventId[e]

\* Some addEvent has queued a new top and not yet called notify_one.
NotifyPending == \E e \in Event : call[e] = "notify"

TypeOK ==
    /\ now \in Nat
    /\ schedState \in SchedState
    /\ lastEventId \in 0 .. MaxEventId
    /\ eventIds \subseteq 1 .. MaxEventId
    /\ eventId \in [Event -> 0 .. MaxEventId]
    /\ cycle \in [Event -> Nat]
    /\ life \in [Event -> Life]
    /\ call \in [Event -> CallPc]
    /\ spc \in ThreadPc
    /\ waitUntil \in Nat
    /\ task \in Event \cup {NoEvent}
    /\ runTask \in BOOLEAN
    /\ stopped \subseteq Event
    /\ added \in Nat

SchedInit ==
    /\ now = 0
    /\ schedState = "running"            \* Scheduler::start
    /\ lastEventId = 0
    /\ eventIds = {}
    /\ eventId = [e \in Event |-> 0]
    /\ cycle = [e \in Event |-> 0]
    /\ life = [e \in Event |-> "new"]
    /\ call = [e \in Event |-> "new"]
    /\ spc = "test"
    /\ waitUntil = 0
    /\ task = NoEvent
    /\ runTask = FALSE
    /\ stopped = {}
    /\ added = 0

-----------------------------------------------------------------------------
(* The callers: createSchedulerTask, addEvent, stopEvent.                  *)

Clamp(d) == IF d < MinTicks THEN MinTicks ELSE d

\* createSchedulerTask fixes the deadline before addEvent takes the lock.
CreateTask(e, d) ==
    /\ call[e] = "new"
    /\ now + Clamp(d) <= MaxTime
    /\ cycle' = [cycle EXCEPT ![e] = now + Clamp(d)]
    /\ call' = [call EXCEPT ![e] = "created"]
    /\ UNCHANGED <<now, schedState, lastEventId, eventIds, eventId, life,
                   threadVars, stopped, added>>

NextEventId == IF lastEventId >= MaxEventId THEN 1 ELSE lastEventId + 1

\* Variant: compares with the top of the list before the push, if there is one.
IsNewTop_NotIfEmpty(e) == Queued # {} /\ \A f \in Queued : cycle[e] < cycle[f]

\* do_signal: the pushed event became the top of the list.
IsNewTop(e) == \A f \in Queued : cycle[e] < cycle[f]

\* Variant: a scheduler that is closing still accepts events.
Accepting_WhileClosing == schedState # "terminated"

Accepting == schedState = "running"

\* The critical section of addEvent.
AddEvent(e) ==
    /\ call[e] = "created"
    /\ IF Accepting
       THEN /\ lastEventId' = NextEventId
            /\ eventId' = [eventId EXCEPT ![e] = NextEventId]
            /\ eventIds' = eventIds \cup {NextEventId}
            /\ life' = [life EXCEPT ![e] = "queued"]
            /\ call' = [call EXCEPT ![e] =
                           IF IsNewTop(e) THEN "notify" ELSE "return"]
            /\ added' = added + 1
       ELSE /\ life' = [life EXCEPT ![e] = "leaked"]
            /\ call' = [call EXCEPT ![e] = "return"]
            /\ UNCHANGED <<lastEventId, eventId, eventIds, added>>
    /\ UNCHANGED <<now, schedState, cycle, threadVars, stopped>>

\* m_eventSignal.notify_one() after the lock is released.
NotifyScheduler(e) ==
    /\ call[e] = "notify"
    /\ call' = [call EXCEPT ![e] = "return"]
    /\ spc' = IF spc \in {"wait", "timed"} THEN "signalled" ELSE spc
    /\ UNCHANGED <<now, schedState, lastEventId, eventIds, eventId, cycle,
                   life, waitUntil, task, runTask, stopped, added>>

\* return task->getEventId(): a read of the task object, without the lock.
ReturnEventId(e) ==
    /\ call[e] = "return"
    /\ call' = [call EXCEPT ![e] = "done"]
    /\ UNCHANGED <<now, schedState, lastEventId, eventIds, eventId, cycle,
                   life, threadVars, stopped, added>>

\* stopEvent with the id that addEvent returned for e, when the id is found;
\* an id of 0 and an id that is not found change nothing.
StopEvent(e) ==
    /\ call[e] = "done"
    /\ eventId[e] \in eventIds
    /\ eventIds' = eventIds \ {eventId[e]}
    /\ stopped' = stopped \cup {e}
    /\ UNCHANGED <<now, schedState, lastEventId, eventId, cycle, life, call,
                   threadVars, added>>

-----------------------------------------------------------------------------
(* The scheduler thread.                                                   *)

\* while(m_threadState != STATE_TERMINATED), read without the lock
SchedTest ==
    /\ spc = "test"
    /\ spc' = IF schedState = "terminated" THEN "done" ELSE "lock"
    /\ task' = NoEvent
    /\ runTask' = FALSE
    /\ waitUntil' = 0
    /\ UNCHANGED <<now, schedState, lastEventId, eventIds, eventId, cycle,
                   life, call, stopped, added>>

\* Lock, then wait for a signal, or for the deadline of the top.
SchedWait ==
    /\ spc = "lock"
    /\ \/ /\ Queued = {}
          /\ spc' = "wait"
          /\ UNCHANGED waitUntil
       \/ \E e \in Tops :
             /\ spc' = "timed"
             /\ waitUntil' = cycle[e]
    /\ UNCHANGED <<now, schedState, lastEventId, eventIds, eventId, cycle,
                   life, call, task, runTask, stopped, added>>

\* timed_wait returns false: the deadline passed before any signal.
TimeOut ==
    /\ spc = "timed"
    /\ waitUntil <= now
    /\ spc' = "expired"
    /\ UNCHANGED <<now, schedState, lastEventId, eventIds, eventId, cycle,
                   life, call, waitUntil, task, runTask, stopped, added>>

\* A condition variable may wake without a signal.
SpuriousWakeup ==
    /\ spc \in {"wait", "timed"}
    /\ spc' = "signalled"
    /\ UNCHANGED <<now, schedState, lastEventId, eventIds, eventId, cycle,
                   life, call, waitUntil, task, runTask, stopped, added>>

\* Woken by a signal, or timed out in a terminated scheduler: no task.
NothingToTake ==
    /\ \/ spc = "signalled"
       \/ spc = "expired" /\ schedState = "terminated"
    /\ spc' = "test"
    /\ UNCHANGED <<now, schedState, lastEventId, eventIds, eventId, cycle,
                   life, call, waitUntil, task, runTask, stopped, added>>

\* Variant: the ids are not looked up.
NotStopped_Unchecked(e) == TRUE

NotStopped(e) == eventId[e] \in eventIds

\* Timed out: pop the top, and run it unless its id was erased.
PopTop ==
    /\ spc = "expired"
    /\ schedState # "terminated"
    /\ \E e \in Tops :
          /\ task' = e
          /\ life' = [life EXCEPT ![e] = "taken"]
          /\ runTask' = NotStopped(e)
          /\ eventIds' = eventIds \ {eventId[e]}
    /\ spc' = "deliver"
    /\ UNCHANGED <<now, schedState, lastEventId, eventId, cycle, call,
                   waitUntil, stopped, added>>

\* Variant: the task is deleted although the dispatcher now owns it.
HandOver_Deletes ==
    /\ spc = "deliver"
    /\ runTask
    /\ life' = [life EXCEPT ![task] = "deleted"]
    /\ spc' = "test"
    /\ UNCHANGED <<now, schedState, lastEventId, eventIds, eventId, cycle,
                   call, waitUntil, task, runTask, stopped, added>>

\* The unlocked end of the loop body, for an event nobody stopped.
HandOver ==
    /\ spc = "deliver"
    /\ runTask
    /\ life' = [life EXCEPT ![task] = "handed"]
    /\ spc' = "test"
    /\ UNCHANGED <<now, schedState, lastEventId, eventIds, eventId, cycle,
                   call, waitUntil, task, runTask, stopped, added>>

\* ... and for a stopped one.
DeleteStopped ==
    /\ spc = "deliver"
    /\ ~ runTask
    /\ life' = [life EXCEPT ![task] = "deleted"]
    /\ spc' = "test"
    /\ UNCHANGED <<now, schedState, lastEventId, eventIds, eventId, cycle,
                   call, waitUntil, task, runTask, stopped, added>>

-----------------------------------------------------------------------------
(* Scheduler::stop and Scheduler::shutdown, called once each and in this   *)
(* order (Game::setGameState, Game::shutdown).                             *)

SchedStop ==
    /\ schedState = "running"
    /\ schedState' = "closing"
    /\ UNCHANGED <<now, lastEventId, eventIds, eventId, cycle, life, call,
                   threadVars, stopped, added>>

\* The tasks left in the list are popped and not deleted; nobody is notified.
SchedShutdown ==
    /\ schedState = "closing"
    /\ schedState' = "terminated"
    /\ life' = [e \in Event |-> IF e \in Queued THEN "leaked" ELSE life[e]]
    /\ eventIds' = {}
    /\ UNCHANGED <<now, lastEventId, eventId, cycle, call, threadVars,
                   stopped, added>>

Tick ==
    /\ now < MaxTime
    /\ now' = now + 1
    /\ UNCHANGED <<schedState, lastEventId, eventIds, eventId, cycle, life,
                   call, threadVars, stopped, added>>

-----------------------------------------------------------------------------
SchedThread ==
    \/ SchedTest
    \/ SchedWait
    \/ TimeOut
    \/ NothingToTake
    \/ PopTop
    \/ HandOver
    \/ DeleteStopped

SchedNext ==
    \/ \E e \in Event :
          \/ \E d \in Delay : CreateTask(e, d)
          \/ AddEvent(e)
          \/ NotifyScheduler(e)
          \/ ReturnEventId(e)
          \/ StopEvent(e)
    \/ SchedThread
    \/ SpuriousWakeup
    \/ SchedStop
    \/ SchedShutdown
    \/ Tick

SchedSpec == SchedInit /\ [][SchedNext]_schedVars

-----------------------------------------------------------------------------
(* Properties.                                                             *)

\* No wake-up is lost: while the thread sleeps, every event of the list is
\* due no earlier than the thread will wake, or some addEvent is about to
\* notify it (scheduler.cpp 56-67 against 132-150, where the notify comes
\* after the lock is released and only for a new top).
NoOversleep ==
    /\ spc = "wait" => Queued = {} \/ NotifyPending
    /\ spc = "timed" => \/ NotifyPending
                        \/ \A e \in Queued : waitUntil <= cycle[e]

\* After a timeout the list is not empty, so top() and pop() are defined
\* ("there has to be an event we have to execute", scheduler.cpp 74-78),
\* although the lock was released during the wait.
PopIsDefined ==
    spc \in {"timed", "expired"} /\ schedState # "terminated" => Queued # {}

\* An event is never handed over before its deadline, even when the list
\* changed between the start of the timed wait and its end.
NeverEarly ==
    \A e \in Event : life[e] \in {"taken", "handed"} => cycle[e] <= now

\* Once stopEvent returned true for an event, the event is not run, unless
\* another event was given the same 32-bit id.
StopHonoured ==
    \A e \in stopped :
       \/ Reused(e)
       \/ life[e] # "handed" /\ ~ (task = e /\ runTask)

\* The ids of m_eventIds are those of the events in the list that were not
\* stopped: no id outlives its event, no event loses its id.
IdsMatchList ==
    /\ \A i \in eventIds : \E e \in Queued : eventId[e] = i
    /\ \A e \in Queued : \/ Reused(e)
                         \/ eventId[e] \in eventIds <=> e \notin stopped

\* Until the id counter wraps, two events never share an id.
IdsUniqueBeforeWrap ==
    added <= MaxEventId =>
       \A e, f \in Event : eventId[e] = eventId[f] /\ eventId[e] # 0 => e = f

-----------------------------------------------------------------------------
(* The scheduler implements Timer until the id counter wraps: addEvent is  *)
(* Arm, stopEvent is Cancel, and popping an event is Fire.                 *)

TimerStatus(e) ==
    IF call[e] \in {"new", "created"} THEN "idle"
    ELSE IF e \in stopped THEN "cancelled"
    ELSE IF life[e] = "queued" THEN "armed"
    ELSE IF life[e] = "handed" \/ (life[e] = "taken" /\ runTask) THEN "fired"
    ELSE "dropped"

AbstractTimer == INSTANCE Timer WITH
    status <- [e \in Event |-> TimerStatus(e)],
    deadline <- cycle,
    clock <- now,
    open <- schedState = "running"

\* Every step of the scheduler while at most MaxEventId ids were generated is
\* a step of Timer, or changes nothing that Timer shows.
ImplementsTimer ==
    /\ AbstractTimer!Init
    /\ [][added' <= MaxEventId => [AbstractTimer!Next]_(AbstractTimer!timerVars)]_schedVars

=============================================================================
