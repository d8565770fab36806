---------------------------- MODULE TaskSystem ----------------------------
(***************************************************************************)
(* The scheduler and the dispatcher together.  Every event of the          *)
(* scheduler is a task of the dispatcher once it is handed over; events    *)
(* are armed and stopped by the task that is running on the game thread,   *)
(* or armed by the network thread (ServicePort, server.cpp); and the       *)
(* server is shut down by Game::setGameState and Game::shutdown, which run *)
(* on the game thread and reach into both.                                 *)
(***************************************************************************)
EXTENDS Scheduler, Dispatcher

CONSTANTS
    Job,     \* the plain tasks
    NoOne    \* the caller of an addEvent that has not been called

ASSUME TaskSystemConstants ==
    /\ Event \cap Job = {}
    /\ ShutdownTask \notin Event \cup Job
    /\ Task = Event \cup Job \cup {ShutdownTask}

VARIABLES
    caller,  \* the thread that calls addEvent for each event
    halt     \* how far the shutdown of the server is

vars == <<schedVars, dispVars, caller, halt>>

Halt == {"no", "posted", "schedStopped", "stopped", "schedDown", "down"}

SystemTypeOK ==
    /\ TypeOK
    /\ DispTypeOK
    /\ caller \in [Event -> {"game", "network", NoOne}]
    /\ halt \in Halt

Init ==
    /\ SchedInit
    /\ DispInit
    /\ caller = [e \in Event |-> NoOne]
    /\ halt = "no"

InCall(e) == call[e] \in {"created", "notify", "return"}

\* The game thread is inside addEvent, or inside setGameState(SHUTDOWN).
Busy ==
    \/ \E e \in Event : caller[e] = "game" /\ InCall(e)
    \/ halt \in {"posted", "schedStopped"}

-----------------------------------------------------------------------------
(* A running task                                                          *)

Running == dpc = "run" /\ current # ShutdownTask /\ ~ Busy

GameCreatesEvent(e, d) ==
    /\ Running
    /\ CreateTask(e, d)
    /\ caller' = [caller EXCEPT ![e] = "game"]
    /\ UNCHANGED <<dispVars, halt>>

GameStopsEvent(e) ==
    /\ Running
    /\ StopEvent(e)
    /\ UNCHANGED <<dispVars, caller, halt>>

GamePosts(j, front) ==
    /\ Running
    /\ PostFromTask(j, front)
    /\ UNCHANGED <<schedVars, caller, halt>>

FlushedTaskPosts ==
    /\ PostFromFlushedTask
    /\ UNCHANGED <<schedVars, caller, halt>>

\* The whole loop body ends: the task object is deleted.
GameEndsTask ==
    /\ ~ Busy
    /\ \/ DropExpired
       \/ FinishTask /\ (current = ShutdownTask => halt = "down")
       \/ FinishFlushedTask
    /\ life' = IF current \in Event
               THEN [life EXCEPT ![current] = "deleted"] ELSE life
    /\ UNCHANGED <<now, schedState, lastEventId, eventIds, eventId, cycle,
                   call, threadVars, stopped, added, caller, halt>>

-----------------------------------------------------------------------------
(* The other threads                                                       *)

NetworkCreatesEvent(e, d) ==
    /\ \A f \in Event : ~ (caller[f] = "network" /\ InCall(f))
    /\ CreateTask(e, d)
    /\ caller' = [caller EXCEPT ![e] = "network"]
    /\ UNCHANGED <<dispVars, halt>>

NetworkPosts(j, front, expires) ==
    /\ Post(j, front, expires)
    /\ UNCHANGED <<schedVars, caller, halt>>

\* addEvent goes on, in whichever thread called it.
AddEventStep(e) ==
    /\ AddEvent(e) \/ NotifyScheduler(e) \/ ReturnEventId(e)
    /\ UNCHANGED <<dispVars, caller, halt>>

\* The scheduler thread without its hand-over
SchedulerStep ==
    /\ \/ SchedTest
       \/ SchedWait
       \/ TimeOut
       \/ NothingToTake
       \/ PopTop
       \/ DeleteStopped
    /\ UNCHANGED <<dispVars, caller, halt>>

\* A task from createSchedulerTask carries its deadline in m_expiration, which
\* the dispatcher would read as an expiration: setDontExpire resets it.
DontExpire == FALSE

\* g_dispatcher.addTask(task)
DeliverEvent ==
    /\ HandOver
    /\ Post(task, FALSE, DontExpire)
    /\ UNCHANGED <<caller, halt>>

\* The dispatcher thread between tasks
DispatcherStep ==
    /\ \/ DispTest
       \/ DispWait
       \/ TakeTask
       \/ TakeNoTask
       \/ BeginTask
       \/ FlushTask
       \/ EndFlush
    /\ UNCHANGED <<schedVars, caller, halt>>

\* addTask returns, in whichever thread called it.
AddTaskStep ==
    /\ \E t \in Task : NotifyDispatcher(t)
    /\ UNCHANGED <<schedVars, caller, halt>>

Wakeup ==
    \/ SpuriousWakeup /\ UNCHANGED <<dispVars, caller, halt>>
    \/ DispSpuriousWakeup /\ UNCHANGED <<schedVars, caller, halt>>

Time == Tick /\ UNCHANGED <<dispVars, caller, halt>>

-----------------------------------------------------------------------------
(* Shutting down                                                           *)

\* setGameState(GAME_STATE_SHUTDOWN), once: post Game::shutdown ...
RequestShutdown ==
    /\ Running
    /\ halt = "no"
    /\ PostFromTask(ShutdownTask, FALSE)
    /\ halt' = "posted"
    /\ UNCHANGED <<schedVars, caller>>

\* ... then g_scheduler.stop() ...
StopScheduler ==
    /\ halt = "posted"
    /\ SchedStop
    /\ halt' = "schedStopped"
    /\ UNCHANGED <<dispVars, caller>>

\* ... then g_dispatcher.stop().
StopDispatcher ==
    /\ halt = "schedStopped"
    /\ DispStop
    /\ halt' = "stopped"
    /\ UNCHANGED <<schedVars, caller>>

\* Game::shutdown: g_scheduler.shutdown() ...
ShutdownScheduler ==
    /\ dpc = "run"
    /\ current = ShutdownTask
    /\ halt = "stopped"
    /\ SchedShutdown
    /\ halt' = "schedDown"
    /\ UNCHANGED <<dispVars, caller>>

\* ... then g_dispatcher.shutdown().
ShutdownDispatcher ==
    /\ halt = "schedDown"
    /\ DispShutdown
    /\ halt' = "down"
    /\ UNCHANGED <<schedVars, caller>>

-----------------------------------------------------------------------------
ShutdownStep ==
    StopScheduler \/ StopDispatcher \/ ShutdownScheduler \/ ShutdownDispatcher

Next ==
    \/ \E e \in Event :
          \/ \E d \in Delay : GameCreatesEvent(e, d) \/ NetworkCreatesEvent(e, d)
          \/ GameStopsEvent(e)
          \/ AddEventStep(e)
    \/ \E j \in Job, front \in BOOLEAN :
          \/ GamePosts(j, front)
          \/ \E expires \in BOOLEAN : NetworkPosts(j, front, expires)
    \/ GameEndsTask
    \/ SchedulerStep
    \/ DeliverEvent
    \/ DispatcherStep
    \/ AddTaskStep
    \/ FlushedTaskPosts
    \/ Wakeup
    \/ RequestShutdown
    \/ ShutdownStep
    \/ Time

\* The threads run, calls return and tasks end; a deadline that has passed is
\* not missed for ever in favour of spurious wake-ups.  Nobody relies on a
\* spurious wake-up, and no task has to post, arm, stop or shut down anything.
Fairness ==
    /\ WF_vars(SchedulerStep)
    /\ SF_vars(TimeOut /\ UNCHANGED <<dispVars, caller, halt>>)
    /\ WF_vars(DeliverEvent)
    /\ WF_vars(Time)
    /\ \A e \in Event : WF_vars(AddEventStep(e))
    /\ WF_vars(DispatcherStep)
    /\ WF_vars(AddTaskStep)
    /\ WF_vars(GameEndsTask)
    /\ WF_vars(ShutdownStep)

Spec == Init /\ [][Next]_vars
FairSpec == Spec /\ Fairness

-----------------------------------------------------------------------------
(* Properties.                                                             *)

\* The task that addEvent reads after it released the lock (scheduler.cpp
\* 146-152) still exists when the game thread is the caller: it cannot be
\* executed and deleted before the task that armed it ends, nor found stopped
\* by the scheduler thread, unless another event was given its id.  The
\* network thread has no such protection.
NoUseAfterFree ==
    \A e \in Event : caller[e] = "game" /\ InCall(e) =>
                        life[e] # "deleted" \/ Reused(e)

\* A timer event that was handed over is never dropped as an expired packet
\* (tasks.cpp 85), although its m_expiration has always passed by then.
TimersDoNotExpire ==
    \A e \in Event : dpc = "taken" /\ current = e => current \notin canExpire

\* An event is in the hands of the game thread only after its deadline, and
\* never if the game thread stopped it in time, unless ids are shared.
RunsOnlyDueEvents ==
    current \in Event =>
        cycle[current] <= now /\ (current \notin stopped \/ Reused(current))

\* Every task that addTask accepts is executed or found expired, through a
\* shutdown too, unless a flushed task blocked the game thread on m_taskLock.
AcceptedTasksEnd ==
    \A t \in Task : t \in accepted ~> t \in finished \/ dpc = "stuck"

\* An armed event runs, unless it is stopped or the server is shut down.
ArmedEventsRun ==
    \A e \in Event :
       life[e] = "queued" ~> e \in finished \cup stopped \/ halt # "no"

\* A shutdown ends with the game thread out of its loop (unless stuck) and the
\* scheduler thread out of its loop or asleep without a deadline.
ShutdownEnds ==
    halt = "posted" ~> \/ dpc = "stuck"
                       \/ dpc = "done" /\ spc \in {"wait", "done"}

=============================================================================
