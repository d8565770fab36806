---------------------------- MODULE Dispatcher ----------------------------
(***************************************************************************)
(* The game thread and its task queue (src/source/tasks.cpp, tasks.h).     *)
(* Network threads, the scheduler thread and running tasks post with       *)
(* addTask; the one dispatcher thread takes tasks and executes them.       *)
(* m_taskLock is held across steps only while shutdown() flushes the queue *)
(* (dpc is then "flush" or "flushrun"); every other critical section is    *)
(* one atomic action.  The wall clock is abstract here: a task that was    *)
(* given an expiration may turn out expired whenever it is looked at.      *)
(***************************************************************************)
EXTENDS Sequences, Naturals

CONSTANTS
    Task,          \* the Task objects, each posted at most once
    NoTask,        \* the NULL task pointer
    ShutdownTask   \* the task that runs Game::shutdown

ASSUME DispatcherConstants ==
    /\ NoTask \notin Task
    /\ ShutdownTask \in Task

VARIABLES
    dispState,  \* m_threadState
    taskList,   \* m_taskList
    dpc,        \* where the dispatcher thread is
    current,    \* the task it has taken
    fresh,      \* the tasks nobody has posted yet
    toNotify,   \* the tasks whose addTask has yet to call notify_one
    canExpire,  \* the tasks created with an expiration
    accepted,   \* history: the tasks that entered the list
    finished    \* history: the tasks that were executed or found expired

dispVars == <<dispState, taskList, dpc, current, fresh, toNotify, canExpire,
              accepted, finished>>

-----------------------------------------------------------------------------
DispState == {"running", "closing", "terminated"}
DispPc == {"test", "lock", "wait", "signalled", "taken", "run", "flush",
           "flushrun", "stuck", "done"}

\* m_taskLock is held across steps: by shutdown(), and for ever once a task
\* that it flushes calls addTask.
LockHeld == dpc \in {"flush", "flushrun", "stuck"}

DispTypeOK ==
    /\ dispState \in DispState
    /\ taskList \in Seq(Task)
    /\ dpc \in DispPc
    /\ current \in Task \cup {NoTask}
    /\ fresh \subseteq Task
    /\ toNotify \subseteq Task
    /\ canExpire \subseteq Task
    /\ accepted \subseteq Task
    /\ finished \subseteq Task

DispInit ==
    /\ dispState = "running"             \* Dispatcher::start
    /\ taskList = <<>>
    /\ dpc = "test"
    /\ current = NoTask
    /\ fresh = Task
    /\ toNotify = {}
    /\ canExpire = {}
    /\ accepted = {}
    /\ finished = {}

-----------------------------------------------------------------------------
(* addTask                                                                 *)

\* The critical section: a dispatcher that is not running drops the pointer.
Enqueue(t, front) ==
    /\ t \in fresh
    /\ ~ LockHeld
    /\ fresh' = fresh \ {t}
    /\ IF dispState = "running"
       THEN /\ taskList' = IF front THEN <<t>> \o taskList
                                    ELSE Append(taskList, t)
            /\ accepted' = accepted \cup {t}
       ELSE UNCHANGED <<taskList, accepted>>
    /\ UNCHANGED <<dispState, dpc, current, finished>>

\* do_signal: the list was empty
Signals == dispState = "running" /\ taskList = <<>>

\* addTask by another thread; expires tells createTask(ms, f) from createTask(f).
Post(t, front, expires) ==
    /\ Enqueue(t, front)
    /\ canExpire' = IF expires THEN canExpire \cup {t} ELSE canExpire
    /\ toNotify' = IF Signals THEN toNotify \cup {t} ELSE toNotify

\* m_taskSignal.notify_one() after the lock is released
NotifyDispatcher(t) ==
    /\ t \in toNotify
    /\ toNotify' = toNotify \ {t}
    /\ dpc' = IF dpc = "wait" THEN "signalled" ELSE dpc
    /\ UNCHANGED <<dispState, taskList, current, fresh, canExpire, accepted,
                   finished>>

\* addTask by the task that is running: the only thread that waits for the
\* signal is the caller itself, so the notify changes nothing.
PostFromTask(t, front) ==
    /\ dpc = "run"
    /\ Enqueue(t, front)
    /\ UNCHANGED <<canExpire, toNotify>>

\* addTask by a task that shutdown() flushes: the mutex is not recursive and
\* the caller already holds it.
PostFromFlushedTask ==
    /\ dpc = "flushrun"
    /\ dpc' = "stuck"
    /\ UNCHANGED <<dispState, taskList, current, fresh, toNotify, canExpire,
                   accepted, finished>>

-----------------------------------------------------------------------------
(* dispatcherThread                                                        *)

\* Variant: the loop never ends.
DispTest_Forever ==
    /\ dpc = "test"
    /\ dpc' = "lock"
    /\ UNCHANGED <<dispState, taskList, current, fresh, toNotify, canExpire,
                   accepted, finished>>

\* while(m_threadState != STATE_TERMINATED), read without the lock
DispTest ==
    /\ dpc = "test"
    /\ dpc' = IF dispState = "terminated" THEN "done" ELSE "lock"
    /\ UNCHANGED <<dispState, taskList, current, fresh, toNotify, canExpire,
                   accepted, finished>>

DispWait ==
    /\ dpc = "lock"
    /\ taskList = <<>>
    /\ dpc' = "wait"
    /\ UNCHANGED <<dispState, taskList, current, fresh, toNotify, canExpire,
                   accepted, finished>>

DispSpuriousWakeup ==
    /\ dpc = "wait"
    /\ dpc' = "signalled"
    /\ UNCHANGED <<dispState, taskList, current, fresh, toNotify, canExpire,
                   accepted, finished>>

\* Take the first task, without or after a wait.
TakeTask ==
    /\ dpc \in {"lock", "signalled"}
    /\ taskList # <<>>
    /\ dispState # "terminated"
    /\ current' = Head(taskList)
    /\ taskList' = Tail(taskList)
    /\ dpc' = "taken"
    /\ UNCHANGED <<dispState, fresh, toNotify, canExpire, accepted, finished>>

TakeNoTask ==
    /\ dpc = "signalled"
    /\ taskList = <<>>
    /\ dpc' = "test"
    /\ UNCHANGED <<dispState, taskList, current, fresh, toNotify, canExpire,
                   accepted, finished>>

BeginTask ==
    /\ dpc = "taken"
    /\ dpc' = "run"
    /\ UNCHANGED <<dispState, taskList, current, fresh, toNotify, canExpire,
                   accepted, finished>>

\* The task is deleted, executed (from "run") or not.
EndTask ==
    /\ dpc' = "test"
    /\ current' = NoTask
    /\ finished' = finished \cup {current}
    /\ UNCHANGED <<dispState, taskList, fresh, toNotify, canExpire, accepted>>

DropExpired ==
    /\ dpc = "taken"
    /\ current \in canExpire
    /\ EndTask

FinishTask ==
    /\ dpc = "run"
    /\ EndTask

-----------------------------------------------------------------------------
(* stop() and shutdown(), both called by tasks on the dispatcher thread    *)

DispStop ==
    /\ dispState' = "closing"
    /\ UNCHANGED <<taskList, dpc, current, fresh, toNotify, canExpire,
                   accepted, finished>>

\* shutdown() takes the lock and enters flush().
DispShutdown ==
    /\ dpc = "run"
    /\ current = ShutdownTask
    /\ dispState' = "terminated"
    /\ dpc' = "flush"
    /\ UNCHANGED <<taskList, current, fresh, toNotify, canExpire, accepted,
                   finished>>

\* flush() runs what is left, expired or not, with the lock held.
FlushTask ==
    /\ dpc = "flush"
    /\ taskList # <<>>
    /\ current' = Head(taskList)
    /\ taskList' = Tail(taskList)
    /\ dpc' = "flushrun"
    /\ UNCHANGED <<dispState, fresh, toNotify, canExpire, accepted, finished>>

FinishFlushedTask ==
    /\ dpc = "flushrun"
    /\ dpc' = "flush"
    /\ current' = ShutdownTask
    /\ finished' = finished \cup {current}
    /\ UNCHANGED <<dispState, taskList, fresh, toNotify, canExpire, accepted>>

\* Variant: flush() stops before the list is empty.
EndFlush_Early ==
    /\ dpc = "flush"
    /\ dpc' = "run"
    /\ UNCHANGED <<dispState, taskList, current, fresh, toNotify, canExpire,
                   accepted, finished>>

\* The list is empty: unlock and return to Game::shutdown.
EndFlush ==
    /\ dpc = "flush"
    /\ taskList = <<>>
    /\ dpc' = "run"
    /\ UNCHANGED <<dispState, taskList, current, fresh, toNotify, canExpire,
                   accepted, finished>>

-----------------------------------------------------------------------------
\* While the game thread sleeps its queue is empty, or the addTask that made
\* it non-empty has yet to notify: no task waits behind a lost signal although
\* addTask signals only for an empty list and after the unlock
\* (tasks.cpp 63-69 against 113-136).
NoTaskOversleep ==
    dpc = "wait" => taskList = <<>> \/ toNotify # {}

=============================================================================
