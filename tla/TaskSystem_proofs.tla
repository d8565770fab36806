------------------------- MODULE TaskSystem_proofs -------------------------
(***************************************************************************)
(* Proofs about the scheduler, and about the scheduler and the dispatcher  *)
(* together, for every set of events and tasks, every delay and every size *)
(* of the id counter.  The inductive invariant SchedInv of Scheduler is    *)
(* built in layers, each proved inductive with the help of the ones before *)
(* it:                                                                     *)
(*   TypeOK      types,                                                    *)
(*   LifeInv     how the life of a task object follows the addEvent call   *)
(*               and the thread that holds the object,                     *)
(*   WaitInv     what the thread knows of the list while it sleeps and     *)
(*               when it wakes,                                            *)
(*   IdInv       how ids, the list and the stopped events are related,     *)
(*   WrapInv     what is known until the id counter wraps.                 *)
(* In the whole system the dispatcher deletes events as well, those it was *)
(* handed.  SystemInv adds what it may have in its list (QueueInv), why it *)
(* does not sleep beside it (NoTaskOversleep), and what protects an event  *)
(* while the game thread is inside the addEvent call for it (CallInv).     *)
(***************************************************************************)
EXTENDS TaskSystem, TLAPS

-----------------------------------------------------------------------------
(* The scheduler by itself.                                                *)

LifeInv ==
    /\ \A e \in Event : call[e] \in {"new", "created"} <=> life[e] = "new"
    /\ \A e \in Event : life[e] = "taken" <=> spc = "deliver" /\ task = e
    /\ task # NoEvent => life[task] \in {"taken", "handed", "deleted"}
    /\ spc = "deliver" => task # NoEvent

WaitInv ==
    /\ NoOversleep
    /\ spc \in {"timed", "expired"} /\ schedState # "terminated" =>
          \E e \in Queued : cycle[e] <= waitUntil
    /\ spc = "expired" => waitUntil <= now
    /\ NeverEarly

IdInv ==
    /\ IdsMatchList
    /\ StopHonoured
    /\ \A e \in Event : life[e] = "new" => eventId[e] = 0
    /\ \A e \in Event : eventId[e] = 0 => life[e] \in {"new", "leaked"}
    /\ \A e \in stopped : eventId[e] # 0

WrapInv ==
    /\ added <= MaxEventId => lastEventId = added
    /\ added <= MaxEventId => \A e \in Event : eventId[e] <= added
    /\ IdsUniqueBeforeWrap

SchedInv == TypeOK /\ LifeInv /\ WaitInv /\ IdInv /\ WrapInv

-----------------------------------------------------------------------------
(* Types.                                                                  *)

LEMMA InitTypeOK == SchedInit => TypeOK
<1> SUFFICES ASSUME SchedInit PROVE TypeOK
  OBVIOUS
<1> USE SchedulerConstants DEF SchedulerConstants, SchedInit, SchedState, Life, CallPc, ThreadPc
<1>1. now \in Nat /\ schedState \in SchedState /\ lastEventId \in 0 .. MaxEventId
  OBVIOUS
<1>2. eventIds \subseteq 1 .. MaxEventId
  OBVIOUS
<1>3.  eventId \in [Event -> 0 .. MaxEventId]
  OBVIOUS
<1>4.  cycle \in [Event -> Nat]
  OBVIOUS
<1>5.  life \in [Event -> Life] /\ call \in [Event -> CallPc]
  OBVIOUS
<1>6. spc \in ThreadPc /\ waitUntil \in Nat /\ task \in Event \cup {NoEvent} /\ runTask \in BOOLEAN
  OBVIOUS
<1>7. stopped \subseteq Event /\ added \in Nat
  OBVIOUS
<1> QED BY <1>1, <1>2, <1>3, <1>4, <1>5, <1>6, <1>7 DEF TypeOK

LEMMA NextTypeOK == TypeOK /\ [SchedNext]_schedVars => TypeOK'
<1> SUFFICES ASSUME TypeOK, [SchedNext]_schedVars
             PROVE  TypeOK'
  OBVIOUS
<1> USE SchedulerConstants DEF SchedulerConstants, TypeOK, SchedState, Life, CallPc, ThreadPc,
                               threadVars
<1>1. ASSUME NEW e \in Event, NEW d \in Delay, CreateTask(e, d) PROVE TypeOK'
  BY <1>1 DEF CreateTask, Clamp
<1>2. ASSUME NEW e \in Event, AddEvent(e) PROVE TypeOK'
  <2>1. NextEventId \in 1 .. MaxEventId
    BY DEF NextEventId
  <2>2. lastEventId' \in 0 .. MaxEventId
    BY <1>2, <2>1 DEF AddEvent, Accepting
  <2>3. eventIds' \subseteq 1 .. MaxEventId
    <3>1. eventIds' \in {eventIds, eventIds \cup {NextEventId}}
      BY <1>2 DEF AddEvent, Accepting
    <3> QED BY <2>1, <3>1
  <2>4. eventId' \in [Event -> 0 .. MaxEventId] /\ added' \in Nat
    BY <1>2, <2>1 DEF AddEvent, Accepting
  <2>5. life' \in [Event -> Life] /\ call' \in [Event -> CallPc]
    BY <1>2 DEF AddEvent, Accepting
  <2> QED
    BY <1>2, <2>2, <2>3, <2>4, <2>5 DEF AddEvent, Accepting
<1>3. ASSUME NEW e \in Event, NotifyScheduler(e) PROVE TypeOK'
  BY <1>3 DEF NotifyScheduler
<1>4. ASSUME NEW e \in Event, ReturnEventId(e) PROVE TypeOK'
  BY <1>4 DEF ReturnEventId
<1>5. ASSUME NEW e \in Event, StopEvent(e) PROVE TypeOK'
  BY <1>5 DEF StopEvent
<1>6. CASE SchedTest
  BY <1>6 DEF SchedTest
<1>7. CASE SchedWait
  BY <1>7 DEF SchedWait, Tops, Queued
<1>8. CASE TimeOut
  BY <1>8 DEF TimeOut
<1>9. CASE NothingToTake
  BY <1>9 DEF NothingToTake
<1>10. CASE PopTop
  <2>1. PICK e \in Event : /\ task' = e
                           /\ life' = [life EXCEPT ![e] = "taken"]
                           /\ runTask' = (eventId[e] \in eventIds)
                           /\ eventIds' = eventIds \ {eventId[e]}
    BY <1>10 DEF PopTop, NotStopped, Tops, Queued
  <2>2. life' \in [Event -> Life] /\ eventIds' \subseteq 1 .. MaxEventId
    BY <2>1
  <2>3. runTask' \in BOOLEAN
    <3>1. (eventId[e] \in eventIds) \in BOOLEAN
      BY SMT
    <3> QED
      BY <2>1, <3>1
  <2> QED
    BY <1>10, <2>1, <2>2, <2>3 DEF PopTop, NotStopped
<1>11. CASE HandOver
  BY <1>11 DEF HandOver
<1>12. CASE DeleteStopped
  BY <1>12 DEF DeleteStopped
<1>13. CASE SpuriousWakeup
  BY <1>13 DEF SpuriousWakeup
<1>14. CASE SchedStop
  BY <1>14 DEF SchedStop
<1>15. CASE SchedShutdown
  BY <1>15 DEF SchedShutdown, Queued
<1>16. CASE Tick
  BY <1>16 DEF Tick
<1>17. CASE UNCHANGED schedVars
  BY <1>17 DEF schedVars
<1> QED
  BY <1>1, <1>2, <1>3, <1>4, <1>5, <1>6, <1>7, <1>8, <1>9, <1>10, <1>11,
     <1>12, <1>13, <1>14, <1>15, <1>16, <1>17 DEF SchedNext, SchedThread

\* The variables of the scheduler thread and of its callers keep their types.
THEOREM SchedulerTypes == SchedSpec => []TypeOK
  BY InitTypeOK, NextTypeOK, PTL DEF SchedSpec

-----------------------------------------------------------------------------
(* The life of a task object.                                              *)

LEMMA InitLifeInv == SchedInit => LifeInv
  BY SchedulerConstants DEF SchedulerConstants, SchedInit, LifeInv

LEMMA NextLifeInv == TypeOK /\ LifeInv /\ [SchedNext]_schedVars => LifeInv'
<1> SUFFICES ASSUME TypeOK /\ LifeInv, [SchedNext]_schedVars
             PROVE  LifeInv'
  OBVIOUS
<1> USE SchedulerConstants DEF SchedulerConstants, LifeInv, TypeOK, Life, CallPc,
       threadVars
<1>1. ASSUME NEW e \in Event, NEW d \in Delay, CreateTask(e, d)
      PROVE  LifeInv'
  BY <1>1 DEF CreateTask
<1>2. ASSUME NEW e \in Event, AddEvent(e)
      PROVE  LifeInv'
  BY <1>2 DEF AddEvent, Accepting
<1>3. ASSUME NEW e \in Event, NotifyScheduler(e)
      PROVE  LifeInv'
  BY <1>3 DEF NotifyScheduler
<1>4. ASSUME NEW e \in Event, ReturnEventId(e)
      PROVE  LifeInv'
  BY <1>4 DEF ReturnEventId
<1>5. ASSUME NEW e \in Event, StopEvent(e)
      PROVE  LifeInv'
  BY <1>5 DEF StopEvent
<1>6. CASE SchedTest
  BY <1>6 DEF SchedTest
<1>7. CASE SchedWait
  BY <1>7 DEF SchedWait
<1>8. CASE TimeOut
  BY <1>8 DEF TimeOut
<1>9. CASE NothingToTake
  BY <1>9 DEF NothingToTake
<1>10. CASE PopTop
  BY <1>10 DEF PopTop, NotStopped, Tops, Queued
<1>11. CASE HandOver
  BY <1>11 DEF HandOver
<1>12. CASE DeleteStopped
  BY <1>12 DEF DeleteStopped
<1>13. CASE SpuriousWakeup
  BY <1>13 DEF SpuriousWakeup
<1>14. CASE SchedStop
  BY <1>14 DEF SchedStop
<1>15. CASE SchedShutdown
  BY <1>15 DEF SchedShutdown, Queued
<1>16. CASE Tick
  BY <1>16 DEF Tick
<1>17. CASE UNCHANGED schedVars
  BY <1>17 DEF schedVars
<1> QED
  BY <1>1, <1>2, <1>3, <1>4, <1>5, <1>6, <1>7, <1>8,
     <1>9, <1>10, <1>11, <1>12, <1>13, <1>14, <1>15, <1>16, <1>17
  DEF SchedNext, SchedThread

-----------------------------------------------------------------------------
(* What the sleeping thread knows of the list.                             *)

LEMMA InitWaitInv == SchedInit => WaitInv
  BY DEF SchedInit, WaitInv, NoOversleep, NeverEarly

LEMMA NextWaitInv == TypeOK /\ LifeInv /\ WaitInv /\ [SchedNext]_schedVars => WaitInv'
<1> SUFFICES ASSUME TypeOK /\ LifeInv /\ WaitInv, [SchedNext]_schedVars
             PROVE  WaitInv'
  OBVIOUS
<1> USE SchedulerConstants DEF SchedulerConstants, TypeOK, LifeInv, WaitInv, NoOversleep, NeverEarly, Queued,
       NotifyPending, threadVars
<1>1. ASSUME NEW e \in Event, NEW d \in Delay, CreateTask(e, d)
      PROVE  WaitInv'
  BY <1>1 DEF CreateTask, Clamp
<1>2. ASSUME NEW e \in Event, AddEvent(e)
      PROVE  WaitInv'
  BY <1>2 DEF AddEvent, Accepting, IsNewTop
<1>3. ASSUME NEW e \in Event, NotifyScheduler(e)
      PROVE  WaitInv'
  BY <1>3 DEF NotifyScheduler
<1>4. ASSUME NEW e \in Event, ReturnEventId(e)
      PROVE  WaitInv'
  BY <1>4 DEF ReturnEventId
<1>5. ASSUME NEW e \in Event, StopEvent(e)
      PROVE  WaitInv'
  BY <1>5 DEF StopEvent
<1>6. CASE SchedTest
  BY <1>6 DEF SchedTest
<1>7. CASE SchedWait
  BY <1>7 DEF SchedWait, Tops
<1>8. CASE TimeOut
  BY <1>8 DEF TimeOut
<1>9. CASE NothingToTake
  BY <1>9 DEF NothingToTake
<1>10. CASE PopTop
  BY <1>10 DEF PopTop, NotStopped, Tops
<1>11. CASE HandOver
  BY <1>11 DEF HandOver
<1>12. CASE DeleteStopped
  BY <1>12 DEF DeleteStopped
<1>13. CASE SpuriousWakeup
  BY <1>13 DEF SpuriousWakeup
<1>14. CASE SchedStop
  BY <1>14 DEF SchedStop
<1>15. CASE SchedShutdown
  BY <1>15 DEF SchedShutdown
<1>16. CASE Tick
  BY <1>16 DEF Tick
<1>17. CASE UNCHANGED schedVars
  BY <1>17 DEF schedVars
<1> QED
  BY <1>1, <1>2, <1>3, <1>4, <1>5, <1>6, <1>7, <1>8,
     <1>9, <1>10, <1>11, <1>12, <1>13, <1>14, <1>15, <1>16, <1>17
  DEF SchedNext, SchedThread

-----------------------------------------------------------------------------
(* Ids, the list and the stopped events.                                   *)

LEMMA InitIdInv == SchedInit => IdInv
  BY DEF SchedInit, IdInv, IdsMatchList, StopHonoured, Queued

LEMMA NextIdInv == TypeOK /\ LifeInv /\ IdInv /\ [SchedNext]_schedVars => IdInv'
<1> SUFFICES ASSUME TypeOK /\ LifeInv /\ IdInv, [SchedNext]_schedVars
             PROVE  IdInv'
  OBVIOUS
<1> USE SchedulerConstants
       DEF SchedulerConstants, TypeOK, LifeInv, IdInv, IdsMatchList,
           StopHonoured, Reused, Queued, threadVars
<1>1. ASSUME NEW e \in Event, NEW d \in Delay, CreateTask(e, d)
      PROVE  IdInv'
  BY <1>1 DEF CreateTask
<1>2. ASSUME NEW e \in Event, AddEvent(e)
      PROVE  IdInv'
  <2>1. life[e] = "new" /\ eventId[e] = 0 /\ e \notin stopped /\ task # e
    BY <1>2 DEF AddEvent, Accepting
  <2>2. CASE schedState # "running"
    <3>1. /\ life' = [life EXCEPT ![e] = "leaked"]
          /\ UNCHANGED <<eventId, eventIds, stopped, task, runTask>>
      BY <1>2, <2>2 DEF AddEvent, Accepting
    <3>2. Queued' = Queued
      BY <2>1, <3>1
    <3>3. IdsMatchList'
      BY <3>1, <3>2
    <3>4. StopHonoured'
      BY <2>1, <3>1
    <3> QED
      BY <2>1, <3>1, <3>3, <3>4
  <2>3. CASE schedState = "running"
    <3> DEFINE n == NextEventId
    <3>1. n \in 1 .. MaxEventId
      BY DEF NextEventId
    <3>2. /\ Queued' = Queued \cup {e}
          /\ eventIds' = eventIds \cup {n}
          /\ eventId' = [eventId EXCEPT ![e] = n]
          /\ stopped' = stopped
      BY <1>2, <2>1, <2>3 DEF AddEvent, Accepting
    <3>3. \A f \in Event \ {e} :
             eventId[f] # 0 /\ ~ Reused(f)' => ~ Reused(f) /\ eventId[f] # n
      BY <2>1, <3>1, <3>2
    <3>4. \A i \in eventIds' : \E f \in Queued' : eventId'[f] = i
      <4>1. SUFFICES ASSUME NEW i \in eventIds'
                     PROVE  \E f \in Queued' : eventId'[f] = i
        OBVIOUS
      <4>2. CASE i = n
        BY <4>2, <3>2
      <4>3. CASE i \in eventIds
        <5>1. PICK f \in Queued : eventId[f] = i
          BY <4>3
        <5>2. f # e
          BY <2>1, <5>1
        <5> QED
          BY <3>2, <5>1, <5>2
      <4> QED
        BY <3>2, <4>2, <4>3
    <3>5. ASSUME NEW f \in Queued', ~ Reused(f)'
          PROVE  eventId'[f] \in eventIds' <=> f \notin stopped'
      <4>1. CASE f = e
        BY <2>1, <3>2, <4>1
      <4>2. CASE f # e
        <5>1. f \in Queued /\ eventId[f] # 0
          BY <3>2, <4>2
        <5>2. ~ Reused(f) /\ eventId[f] # n
          BY <3>3, <3>5, <4>2, <5>1
        <5>3. eventId[f] \in eventIds <=> f \notin stopped
          BY <5>1, <5>2
        <5> QED
          BY <3>2, <4>2, <5>2, <5>3
      <4> QED
        BY <4>1, <4>2
    <3>6. StopHonoured'
      BY <1>2, <2>1, <2>3, <3>2, <3>3 DEF AddEvent, Accepting
    <3>7. /\ \A f \in Event : life'[f] = "new" => eventId'[f] = 0
          /\ \A f \in Event : eventId'[f] = 0 => life'[f] \in {"new", "leaked"}
          /\ \A f \in stopped' : eventId'[f] # 0
      BY <1>2, <2>1, <2>3, <3>1 DEF AddEvent, Accepting
    <3> QED
      BY <3>4, <3>5, <3>6, <3>7
  <2> QED
    BY <2>2, <2>3
<1>3. ASSUME NEW e \in Event, NotifyScheduler(e)
      PROVE  IdInv'
  BY <1>3 DEF NotifyScheduler
<1>4. ASSUME NEW e \in Event, ReturnEventId(e)
      PROVE  IdInv'
  BY <1>4 DEF ReturnEventId
<1>5. ASSUME NEW e \in Event, StopEvent(e)
      PROVE  IdInv'
  BY <1>5 DEF StopEvent
<1>6. CASE SchedTest
  BY <1>6 DEF SchedTest
<1>7. CASE SchedWait
  BY <1>7 DEF SchedWait, Tops
<1>8. CASE TimeOut
  BY <1>8 DEF TimeOut
<1>9. CASE NothingToTake
  BY <1>9 DEF NothingToTake
<1>10. CASE PopTop
  <2>1. PICK e \in Queued :
           /\ task' = e
           /\ life' = [life EXCEPT ![e] = "taken"]
           /\ runTask' = (eventId[e] \in eventIds)
           /\ eventIds' = eventIds \ {eventId[e]}
    BY <1>10 DEF PopTop, NotStopped, Tops
  <2>2. eventId' = eventId /\ stopped' = stopped /\ Queued' = Queued \ {e}
    BY <1>10, <2>1 DEF PopTop, NotStopped
  <2>3. \A f \in Event : Reused(f)' = Reused(f)
    BY <2>2
  <2>4. IdsMatchList'
    <3>1. \A i \in eventIds' : \E f \in Queued' : eventId'[f] = i
      BY <2>1, <2>2
    <3>2. ASSUME NEW f \in Queued', ~ Reused(f)'
          PROVE  eventId'[f] \in eventIds' <=> f \notin stopped'
      <4>1. f \in Queued /\ f # e /\ ~ Reused(f)
        BY <2>1, <2>2, <2>3, <3>2
      <4>2. eventId[f] \in eventIds <=> f \notin stopped
        BY <4>1
      <4>3. eventId[f] # eventId[e]
        BY <4>1
      <4> QED
        BY <2>1, <2>2, <4>2, <4>3
    <3> QED
      BY <3>1, <3>2
  <2>5. StopHonoured'
    <3>1. SUFFICES ASSUME NEW f \in stopped, ~ Reused(f)
                   PROVE  life'[f] # "handed" /\ ~ (task' = f /\ runTask')
      BY <2>2, <2>3 DEF StopHonoured
    <3>2. life'[f] # "handed"
      BY <2>1, <3>1
    <3>3. CASE f = e
      <4>1. eventId[f] \notin eventIds
        BY <2>1, <3>1, <3>3
      <4> QED
        BY <2>1, <3>2, <3>3, <4>1
    <3>4. CASE f # e
      BY <2>1, <3>2, <3>4
    <3> QED
      BY <3>3, <3>4
  <2>6. /\ \A f \in Event : life'[f] = "new" => eventId'[f] = 0
        /\ \A f \in Event : eventId'[f] = 0 => life'[f] \in {"new", "leaked"}
        /\ \A f \in stopped' : eventId'[f] # 0
    BY <2>1, <2>2
  <2> QED
    BY <2>4, <2>5, <2>6
<1>11. CASE HandOver
  BY <1>11 DEF HandOver
<1>12. CASE DeleteStopped
  BY <1>12 DEF DeleteStopped
<1>13. CASE SpuriousWakeup
  BY <1>13 DEF SpuriousWakeup
<1>14. CASE SchedStop
  BY <1>14 DEF SchedStop
<1>15. CASE SchedShutdown
  BY <1>15 DEF SchedShutdown
<1>16. CASE Tick
  BY <1>16 DEF Tick
<1>17. CASE UNCHANGED schedVars
  BY <1>17 DEF schedVars
<1> QED
  BY <1>1, <1>2, <1>3, <1>4, <1>5, <1>6, <1>7, <1>8,
     <1>9, <1>10, <1>11, <1>12, <1>13, <1>14, <1>15, <1>16, <1>17
  DEF SchedNext, SchedThread

-----------------------------------------------------------------------------
(* Until the id counter wraps.                                             *)

LEMMA InitWrapInv == SchedInit => WrapInv
  BY SchedulerConstants
  DEF SchedulerConstants, SchedInit, WrapInv, IdsUniqueBeforeWrap

LEMMA NextWrapInv == TypeOK /\ LifeInv /\ IdInv /\ WrapInv /\ [SchedNext]_schedVars => WrapInv'
<1> SUFFICES ASSUME TypeOK /\ LifeInv /\ IdInv /\ WrapInv, [SchedNext]_schedVars
             PROVE  WrapInv'
  OBVIOUS
<1> USE SchedulerConstants
       DEF SchedulerConstants, TypeOK, WrapInv, IdsUniqueBeforeWrap, threadVars
<1>1. ASSUME NEW e \in Event, NEW d \in Delay, CreateTask(e, d)
      PROVE  WrapInv'
  BY <1>1 DEF CreateTask
<1>2. ASSUME NEW e \in Event, AddEvent(e)
      PROVE  WrapInv'
  BY <1>2 DEF AddEvent, Accepting, NextEventId, LifeInv, IdInv
<1>3. ASSUME NEW e \in Event, NotifyScheduler(e)
      PROVE  WrapInv'
  BY <1>3 DEF NotifyScheduler
<1>4. ASSUME NEW e \in Event, ReturnEventId(e)
      PROVE  WrapInv'
  BY <1>4 DEF ReturnEventId
<1>5. ASSUME NEW e \in Event, StopEvent(e)
      PROVE  WrapInv'
  BY <1>5 DEF StopEvent
<1>6. CASE SchedTest
  BY <1>6 DEF SchedTest
<1>7. CASE SchedWait
  BY <1>7 DEF SchedWait
<1>8. CASE TimeOut
  BY <1>8 DEF TimeOut
<1>9. CASE NothingToTake
  BY <1>9 DEF NothingToTake
<1>10. CASE PopTop
  BY <1>10 DEF PopTop, NotStopped, Tops, Queued
<1>11. CASE HandOver
  BY <1>11 DEF HandOver
<1>12. CASE DeleteStopped
  BY <1>12 DEF DeleteStopped
<1>13. CASE SpuriousWakeup
  BY <1>13 DEF SpuriousWakeup
<1>14. CASE SchedStop
  BY <1>14 DEF SchedStop
<1>15. CASE SchedShutdown
  BY <1>15 DEF SchedShutdown
<1>16. CASE Tick
  BY <1>16 DEF Tick
<1>17. CASE UNCHANGED schedVars
  BY <1>17 DEF schedVars
<1> QED
  BY <1>1, <1>2, <1>3, <1>4, <1>5, <1>6, <1>7, <1>8,
     <1>9, <1>10, <1>11, <1>12, <1>13, <1>14, <1>15, <1>16, <1>17
  DEF SchedNext, SchedThread

-----------------------------------------------------------------------------
(* The invariant and what it gives.                                        *)

LEMMA SchedInvInductive == SchedSpec => []SchedInv
<1>1. SchedInit => SchedInv
  BY InitTypeOK, InitLifeInv, InitWaitInv, InitIdInv, InitWrapInv DEF SchedInv
<1>2. SchedInv /\ [SchedNext]_schedVars => SchedInv'
  BY NextTypeOK, NextLifeInv, NextWaitInv, NextIdInv, NextWrapInv DEF SchedInv
<1> QED
  BY <1>1, <1>2, PTL DEF SchedSpec

\* No wake-up of the scheduler thread is lost (the notify of addEvent,
\* scheduler.cpp 132-150, against the two waits of the thread, 56-67).
THEOREM NoLostWakeup == SchedSpec => []NoOversleep
<1>1. SchedInv => NoOversleep
  BY DEF SchedInv, WaitInv
<1> QED
  BY <1>1, SchedInvInductive, PTL

\* top() and pop() are never called on an empty list (scheduler.cpp 74-78).
THEOREM PopAlwaysDefined == SchedSpec => []PopIsDefined
<1>1. SchedInv => PopIsDefined
  BY DEF SchedInv, WaitInv, PopIsDefined, Queued
<1> QED
  BY <1>1, SchedInvInductive, PTL

\* No event is handed over before its deadline.
THEOREM NoEarlyEvent == SchedSpec => []NeverEarly
<1>1. SchedInv => NeverEarly
  BY DEF SchedInv, WaitInv
<1> QED
  BY <1>1, SchedInvInductive, PTL

\* A stopped event is not run, whatever the interleaving of stopEvent
\* (scheduler.cpp 165-173) with the thread that pops it (74-86), unless
\* another event was given its id.
THEOREM StoppedEventsDoNotRun == SchedSpec => []StopHonoured
<1>1. SchedInv => StopHonoured
  BY DEF SchedInv, IdInv
<1> QED
  BY <1>1, SchedInvInductive, PTL

\* m_eventIds holds the ids of exactly the pending events nobody stopped.
THEOREM IdsAreThoseOfTheList == SchedSpec => []IdsMatchList
<1>1. SchedInv => IdsMatchList
  BY DEF SchedInv, IdInv
<1> QED
  BY <1>1, SchedInvInductive, PTL

\* No id is given twice before 2^32 - 1 events were added.
THEOREM NoSharedIdBeforeWrap == SchedSpec => []IdsUniqueBeforeWrap
<1>1. SchedInv => IdsUniqueBeforeWrap
  BY DEF SchedInv, WrapInv
<1> QED
  BY <1>1, SchedInvInductive, PTL

-----------------------------------------------------------------------------
(* The scheduler implements Timer.                                         *)

TimerStep == [AbstractTimer!Next]_(AbstractTimer!timerVars)

LEMMA TimerInit == SchedInit => AbstractTimer!Init
  BY DEF SchedInit, AbstractTimer!Init, TimerStatus

\* What separates one event from all others before the wrap
LEMMA OwnId ==
  ASSUME SchedInv, added <= MaxEventId, NEW e \in Event, eventId[e] # 0
  PROVE  ~ Reused(e)
  BY DEF SchedInv, WrapInv, IdsUniqueBeforeWrap, Reused

\* Steps that leave call, stopped, cycle, now and schedState alone, and life
\* up to what TimerStatus tells apart
LEMMA HiddenStep ==
  ASSUME UNCHANGED <<cycle, now, schedState>>,
         \A e \in Event : TimerStatus(e)' = TimerStatus(e)
  PROVE  TimerStep
  BY DEF TimerStep, AbstractTimer!timerVars

LEMMA OneStatusChanges ==
  ASSUME NEW x \in Event, NEW s,
         TimerStatus(x)' = s,
         \A e \in Event \ {x} : TimerStatus(e)' = TimerStatus(e)
  PROVE  [e \in Event |-> TimerStatus(e)]' =
            [[e \in Event |-> TimerStatus(e)] EXCEPT ![x] = s]
  OBVIOUS

LEMMA NoStatusChanges ==
  ASSUME \A e \in Event : TimerStatus(e)' = TimerStatus(e)
  PROVE  [e \in Event |-> TimerStatus(e)]' = [e \in Event |-> TimerStatus(e)]
  OBVIOUS

LEMMA TimerNext ==
  SchedInv /\ [SchedNext]_schedVars /\ added' <= MaxEventId => TimerStep
<1> SUFFICES ASSUME SchedInv, [SchedNext]_schedVars, added' <= MaxEventId
             PROVE  TimerStep
  OBVIOUS
<1> USE SchedulerConstants DEF SchedulerConstants
<1>a. TypeOK /\ LifeInv /\ IdInv
  BY DEF SchedInv
<1>b. added <= MaxEventId
  BY <1>a DEF SchedNext, SchedThread, CreateTask, AddEvent, NotifyScheduler,
     ReturnEventId, StopEvent, SchedTest, SchedWait, TimeOut, NothingToTake,
     PopTop, HandOver, DeleteStopped, SpuriousWakeup, SchedStop,
     SchedShutdown, Tick, schedVars, TypeOK
<1>1. ASSUME NEW e \in Event, NEW d \in Delay, CreateTask(e, d)
      PROVE  TimerStep
  <2>1. \A f \in Event : TimerStatus(f)' = TimerStatus(f)
    <3>1. \A f \in Event : call[f] \in {"new", "created"} <=>
                           call'[f] \in {"new", "created"}
      BY <1>1, <1>a DEF CreateTask, TypeOK
    <3> QED
      BY <1>1, <3>1 DEF CreateTask, TimerStatus, threadVars
  <2>2. TimerStatus(e) = "idle"
    BY <1>1 DEF CreateTask, TimerStatus
  <2>3. cycle'[e] > now /\ cycle' = [cycle EXCEPT ![e] = cycle'[e]]
    BY <1>1, <1>a DEF CreateTask, Clamp, TypeOK
  <2>4. AbstractTimer!Prepare(e)
    BY <1>1, <2>1, <2>2, <2>3 DEF CreateTask, AbstractTimer!Prepare
  <2> QED
    BY <2>4 DEF TimerStep, AbstractTimer!Next
<1>2. ASSUME NEW e \in Event, AddEvent(e)
      PROVE  TimerStep
  <2>1. e \notin stopped
    BY <1>2, <1>a DEF AddEvent, Accepting, LifeInv, IdInv
  <2>4. \A f \in Event \ {e} : TimerStatus(f)' = TimerStatus(f)
    BY <1>2, <1>a DEF AddEvent, Accepting, TimerStatus, TypeOK, threadVars
  <2>2. CASE schedState = "running"
    <3>1. TimerStatus(e) = "idle" /\ TimerStatus(e)' = "armed"
      BY <1>2, <1>a, <2>1, <2>2 DEF AddEvent, Accepting, TimerStatus, TypeOK
    <3>2. AbstractTimer!Arm(e)
      BY <1>2, <2>2, <2>4, <3>1, OneStatusChanges
      DEF AddEvent, Accepting, AbstractTimer!Arm
    <3> QED
      BY <3>2 DEF TimerStep, AbstractTimer!Next
  <2>3. CASE schedState # "running"
    <3>1. TimerStatus(e) = "idle" /\ TimerStatus(e)' = "dropped"
      BY <1>2, <1>a, <2>1, <2>3 DEF AddEvent, Accepting, TimerStatus, TypeOK
    <3>2. AbstractTimer!Refuse(e)
      BY <1>2, <2>3, <2>4, <3>1, OneStatusChanges
      DEF AddEvent, Accepting, AbstractTimer!Refuse
    <3> QED
      BY <3>2 DEF TimerStep, AbstractTimer!Next
  <2> QED
    BY <2>2, <2>3
<1>3. ASSUME NEW e \in Event, NotifyScheduler(e)
      PROVE  TimerStep
  BY <1>3, <1>a, HiddenStep DEF NotifyScheduler, TimerStatus, TypeOK, CallPc
<1>4. ASSUME NEW e \in Event, ReturnEventId(e)
      PROVE  TimerStep
  <2>1. \A f \in Event : call[f] \in {"new", "created"} <=>
                         call'[f] \in {"new", "created"}
    BY <1>4, <1>a DEF ReturnEventId, TypeOK
  <2> QED
    BY <1>4, <2>1, HiddenStep DEF ReturnEventId, TimerStatus, threadVars
<1>5. ASSUME NEW e \in Event, StopEvent(e)
      PROVE  TimerStep
  <2>1. ~ Reused(e) /\ eventId[e] \in eventIds
    BY <1>5, <1>a, <1>b, OwnId DEF StopEvent, TypeOK
  <2>2. life[e] = "queued"
    BY <2>1, <1>a DEF IdInv, IdsMatchList, Reused, Queued
  <2>3. e \notin stopped
    BY <2>1, <2>2, <1>a DEF IdInv, IdsMatchList, Queued
  <2>4. TimerStatus(e) = "armed" /\ TimerStatus(e)' = "cancelled"
    BY <1>5, <2>2, <2>3 DEF StopEvent, TimerStatus
  <2>5. \A f \in Event \ {e} : TimerStatus(f)' = TimerStatus(f)
    BY <1>5 DEF StopEvent, TimerStatus, threadVars
  <2>6. AbstractTimer!Cancel(e)
    BY <1>5, <2>4, <2>5, OneStatusChanges DEF StopEvent, AbstractTimer!Cancel
  <2> QED
    BY <2>6 DEF TimerStep, AbstractTimer!Next
<1>6. CASE SchedTest
  <2>1. \A e \in Event : life[e] # "taken"
    BY <1>6, <1>a DEF SchedTest, LifeInv
  <2> QED
    BY <1>6, <2>1, HiddenStep DEF SchedTest, TimerStatus
<1>7. CASE SchedWait
  BY <1>7, HiddenStep DEF SchedWait, TimerStatus
<1>8. CASE TimeOut
  BY <1>8, HiddenStep DEF TimeOut, TimerStatus
<1>9. CASE NothingToTake
  BY <1>9, HiddenStep DEF NothingToTake, TimerStatus
<1>10. CASE PopTop
  <2>1. PICK e \in Tops : /\ task' = e
                         /\ life' = [life EXCEPT ![e] = "taken"]
                         /\ runTask' = (eventId[e] \in eventIds)
    BY <1>10 DEF PopTop, NotStopped
  <2>2. e \in Queued /\ cycle[e] <= now
    <3>1. PICK f \in Queued : cycle[f] <= waitUntil
      BY <1>10 DEF PopTop, NotStopped, SchedInv, WaitInv
    <3>2. cycle[e] <= cycle[f] /\ waitUntil <= now
      BY <1>10, <2>1, <3>1 DEF PopTop, NotStopped, SchedInv, WaitInv, Tops
    <3>3. now \in Nat /\ waitUntil \in Nat /\ cycle[e] \in Nat /\ cycle[f] \in Nat
      BY <1>a, <2>1, <3>1 DEF TypeOK, Tops, Queued
    <3> QED
      BY <2>1, <3>1, <3>2, <3>3 DEF Tops
  <2>3. UNCHANGED <<call, stopped, cycle, now, schedState>>
    BY <1>10 DEF PopTop, NotStopped
  <2>4. life[e] = "queued" /\ call[e] \notin {"new", "created"} /\ e \in Event
    BY <1>a, <2>2 DEF LifeInv, Queued
  <2>5. \A f \in Event \ {e} : TimerStatus(f)' = TimerStatus(f)
    <3>1. \A f \in Event : life[f] # "taken"
      BY <1>10, <1>a DEF PopTop, NotStopped, LifeInv
    <3>2. \A f \in Event \ {e} : life'[f] = life[f]
      BY <1>a, <2>1 DEF TypeOK
    <3> QED
      BY <2>3, <3>1, <3>2 DEF TimerStatus
  <2>6. CASE e \in stopped
    <3>1. TimerStatus(e)' = TimerStatus(e)
      BY <2>3, <2>4, <2>6 DEF TimerStatus
    <3> QED
      BY <2>3, <2>5, <3>1, HiddenStep
  <2>7. CASE e \notin stopped
    <3>1. eventId[e] # 0
      BY <1>a, <2>4 DEF IdInv
    <3>2. eventId[e] \in eventIds
      BY <1>a, <1>b, <2>2, <2>4, <2>7, <3>1, OwnId DEF IdInv, IdsMatchList
    <3>3. life'[e] = "taken" /\ runTask'
      BY <1>a, <2>1, <2>4, <3>2 DEF TypeOK
    <3>4. TimerStatus(e) = "armed" /\ TimerStatus(e)' = "fired"
      BY <2>3, <2>4, <2>7, <3>3 DEF TimerStatus
    <3>5. AbstractTimer!Fire(e)
      BY <2>2, <2>3, <2>4, <2>5, <3>4, OneStatusChanges
      DEF AbstractTimer!Fire
    <3> QED
      BY <2>4, <3>5 DEF TimerStep, AbstractTimer!Next
  <2> QED
    BY <2>6, <2>7
<1>11. CASE HandOver
  <2>1. task \in Event /\ life[task] = "taken"
    BY <1>11, <1>a DEF HandOver, LifeInv, TypeOK
  <2> QED
    BY <1>11, <1>a, <2>1, HiddenStep DEF HandOver, TimerStatus, TypeOK
<1>12. CASE DeleteStopped
  <2>1. task \in Event /\ life[task] = "taken"
    BY <1>12, <1>a DEF DeleteStopped, LifeInv, TypeOK
  <2> QED
    BY <1>12, <1>a, <2>1, HiddenStep DEF DeleteStopped, TimerStatus, TypeOK
<1>13. CASE SpuriousWakeup
  BY <1>13, HiddenStep DEF SpuriousWakeup, TimerStatus
<1>14. CASE SchedStop
  <2>1. \A e \in Event : TimerStatus(e)' = TimerStatus(e)
    BY <1>14 DEF SchedStop, TimerStatus, threadVars
  <2>2. AbstractTimer!Close
    BY <1>14, <2>1, NoStatusChanges DEF SchedStop, AbstractTimer!Close
  <2> QED
    BY <2>2 DEF TimerStep, AbstractTimer!Next
<1>15. CASE SchedShutdown
  <2>1. \A e \in Event :
           TimerStatus(e)' = IF TimerStatus(e) = "armed" THEN "dropped"
                             ELSE TimerStatus(e)
    BY <1>15 DEF SchedShutdown, TimerStatus, Queued, threadVars
  <2>2. AbstractTimer!Drop
    BY <1>15, <2>1 DEF SchedShutdown, AbstractTimer!Drop
  <2> QED
    BY <2>2 DEF TimerStep, AbstractTimer!Next
<1>16. CASE Tick
  <2>1. \A e \in Event : TimerStatus(e)' = TimerStatus(e)
    BY <1>16 DEF Tick, TimerStatus, threadVars
  <2>2. AbstractTimer!Advance
    BY <1>16, <1>a, <2>1, NoStatusChanges
    DEF Tick, AbstractTimer!Advance, TypeOK
  <2> QED
    BY <2>2 DEF TimerStep, AbstractTimer!Next
<1>17. CASE UNCHANGED schedVars
  BY <1>17, HiddenStep DEF schedVars, threadVars, TimerStatus
<1> QED
  BY <1>1, <1>2, <1>3, <1>4, <1>5, <1>6, <1>7, <1>8,
     <1>9, <1>10, <1>11, <1>12, <1>13, <1>14, <1>15, <1>16, <1>17
  DEF SchedNext, SchedThread

\* Until 2^32 - 1 events were added the scheduler implements Timer: addEvent
\* arms, stopEvent cancels only what has not fired, and a popped event fires.
THEOREM SchedulerImplementsTimer == SchedSpec => ImplementsTimer
<1>1. SchedInv /\ [SchedNext]_schedVars =>
         [added' <= MaxEventId => TimerStep]_schedVars
  BY TimerNext
<1> QED
  BY <1>1, TimerInit, SchedInvInductive, PTL
  DEF SchedSpec, ImplementsTimer, TimerStep

-----------------------------------------------------------------------------
(* Scheduler and dispatcher together.                                      *)

SystemTypes ==
    /\ DispTypeOK
    /\ caller \in [Event -> {"game", "network", NoOne}]
    /\ halt \in Halt

\* No task is in a list twice.
Distinct(s) == \A i, j \in DOMAIN s : s[i] = s[j] => i = j

\* The dispatcher thread has a task in hand.
HasTask == {"taken", "run", "flush", "flushrun"}

\* The tasks in the list and the one in hand are different tasks, posted before;
\* the events among them were handed over and not yet deleted.  Once flush() has
\* begun, the shutdown task is neither in the list nor posted again.
QueueInv ==
    /\ dpc \in HasTask => current # NoTask
    /\ Distinct(taskList)
    /\ \A i \in DOMAIN taskList : taskList[i] \notin fresh \cup {current}
    /\ current \notin fresh
    /\ \A e \in Event \ fresh : life[e] \in {"handed", "deleted"}
    /\ \A i \in DOMAIN taskList : taskList[i] \in Event => life[taskList[i]] = "handed"
    /\ current \in Event => life[current] = "handed"
    /\ LockHeld => /\ ShutdownTask \notin fresh
                   /\ \A i \in DOMAIN taskList : taskList[i] # ShutdownTask

\* Only what other threads post may expire.
ExpiryInv == canExpire \cap Event = {}

\* Only an event whose addEvent returned is stopped, so one that is being armed is
\* neither deleted nor about to be.
CallInv ==
    /\ \A e \in stopped : call[e] = "done"
    /\ \A e \in Event : caller[e] = "game" /\ InCall(e) /\ ~ Reused(e) =>
          /\ life[e] # "deleted"
          /\ ~ (life[e] = "taken" /\ ~ runTask)

SystemInv ==
    /\ SchedInv
    /\ SystemTypes
    /\ QueueInv
    /\ ExpiryInv
    /\ NoTaskOversleep
    /\ CallInv

-----------------------------------------------------------------------------
(* The list of tasks.                                                      *)

\* Another task at either end of a list
LEMMA ListGrows ==
  ASSUME NEW s \in Seq(Task), NEW t \in Task, NEW u \in {<<t>> \o s, Append(s, t)},
         Distinct(s), \A i \in DOMAIN s : s[i] # t
  PROVE  /\ u \in Seq(Task) /\ u # <<>>
         /\ Distinct(u)
         /\ \A i \in DOMAIN u : u[i] = t \/ \E j \in DOMAIN s : u[i] = s[j]
<1>1. CASE u = Append(s, t)
  <2>1. /\ u \in Seq(Task) /\ u # <<>> /\ DOMAIN u = 1 .. Len(s) + 1
        /\ DOMAIN s = 1 .. Len(s) /\ Len(s) \in Nat
        /\ u[Len(s) + 1] = t /\ \A i \in 1 .. Len(s) : u[i] = s[i]
    BY <1>1
  <2>2. \A i \in DOMAIN u : i = Len(s) + 1 \/ i \in DOMAIN s
    BY <2>1
  <2>3. ASSUME NEW i \in DOMAIN u, NEW j \in DOMAIN u, u[i] = u[j] PROVE i = j
    BY <2>1, <2>2, <2>3 DEF Distinct
  <2>4. \A i \in DOMAIN u : u[i] = t \/ \E j \in DOMAIN s : u[i] = s[j]
    BY <2>1, <2>2
  <2> QED BY <2>1, <2>3, <2>4 DEF Distinct
<1>2. CASE u = <<t>> \o s
  <2>1. /\ u \in Seq(Task) /\ u # <<>> /\ DOMAIN u = 1 .. Len(s) + 1
        /\ DOMAIN s = 1 .. Len(s) /\ Len(s) \in Nat
        /\ u[1] = t /\ \A i \in 2 .. Len(s) + 1 : u[i] = s[i - 1]
    BY <1>2
  <2>2. \A i \in DOMAIN u : i = 1 \/ (i \in 2 .. Len(s) + 1 /\ i - 1 \in DOMAIN s)
    BY <2>1
  <2>3. ASSUME NEW i \in DOMAIN u, NEW j \in DOMAIN u, u[i] = u[j] PROVE i = j
    <3>1. CASE i = 1 \/ j = 1
      BY <2>1, <2>2, <2>3, <3>1
    <3>2. CASE i # 1 /\ j # 1
      <4>1. i - 1 \in DOMAIN s /\ j - 1 \in DOMAIN s /\ s[i - 1] = s[j - 1]
        BY <2>1, <2>2, <2>3, <3>2
      <4>2. i - 1 = j - 1
        BY <4>1 DEF Distinct
      <4> QED BY <2>1, <4>2
    <3> QED BY <3>1, <3>2
  <2>4. \A i \in DOMAIN u : u[i] = t \/ \E j \in DOMAIN s : u[i] = s[j]
    BY <2>1, <2>2
  <2> QED BY <2>1, <2>3, <2>4 DEF Distinct
<1> QED BY <1>1, <1>2

\* A list without its first task
LEMMA ListShrinks ==
  ASSUME NEW s \in Seq(Task), s # <<>>, Distinct(s)
  PROVE  /\ Head(s) \in Task /\ Tail(s) \in Seq(Task)
         /\ 1 \in DOMAIN s /\ Head(s) = s[1]
         /\ Distinct(Tail(s))
         /\ \A i \in DOMAIN Tail(s) : Tail(s)[i] # Head(s)
         /\ \A i \in DOMAIN Tail(s) : \E j \in DOMAIN s : Tail(s)[i] = s[j]
<1>1. /\ Head(s) \in Task /\ Tail(s) \in Seq(Task) /\ Len(s) \in Nat /\ Len(s) > 0
      /\ DOMAIN s = 1 .. Len(s) /\ DOMAIN Tail(s) = 1 .. Len(s) - 1
      /\ Head(s) = s[1] /\ \A i \in 1 .. Len(s) - 1 : Tail(s)[i] = s[i + 1]
  OBVIOUS
<1>2. \A i \in DOMAIN Tail(s) : i + 1 \in DOMAIN s /\ i + 1 # 1
  BY <1>1
<1>3. Distinct(Tail(s))
  BY <1>1, <1>2 DEF Distinct
<1>4. \A i \in DOMAIN Tail(s) : Tail(s)[i] # Head(s)
  BY <1>1, <1>2 DEF Distinct
<1> QED BY <1>1, <1>2, <1>3, <1>4

\* addTask, also by the hand-over of an event
LEMMA EnqueueKeepsQueue ==
  ASSUME DispTypeOK, QueueInv, NEW t \in Task, NEW front \in BOOLEAN, Enqueue(t, front),
         t \in Event => life'[t] = "handed",
         \A e \in Event \ {t} : life'[e] = life[e]
  PROVE  /\ QueueInv'
         /\ taskList' \in Seq(Task) /\ fresh' \subseteq Task /\ accepted' \subseteq Task
<1>1. /\ ~ LockHeld' /\ current' = current /\ fresh' = fresh \ {t} /\ t \in fresh
      /\ taskList \in Seq(Task) /\ Distinct(taskList)
      /\ (dpc' \in HasTask => current' # NoTask)
  BY DEF Enqueue, LockHeld, DispTypeOK, QueueInv
<1>2. \A i \in DOMAIN taskList : taskList[i] # t
  BY <1>1 DEF QueueInv
<1>3. /\ taskList' \in Seq(Task) /\ Distinct(taskList')
      /\ \A i \in DOMAIN taskList' :
            taskList'[i] = t \/ \E j \in DOMAIN taskList : taskList'[i] = taskList[j]
  <2>1. CASE dispState = "running"
    <3>1. taskList' \in {<<t>> \o taskList, Append(taskList, t)}
      BY <2>1 DEF Enqueue
    <3> QED BY <1>1, <1>2, <3>1, ListGrows
  <2>2. CASE dispState # "running"
    BY <1>1, <2>2 DEF Enqueue
  <2> QED BY <2>1, <2>2
<1>4. \A i \in DOMAIN taskList' : taskList'[i] \notin fresh' \cup {current'}
  BY <1>1, <1>3 DEF QueueInv
<1>5. \A i \in DOMAIN taskList' : taskList'[i] \in Event => life'[taskList'[i]] = "handed"
  BY <1>2, <1>3 DEF QueueInv
<1>6. /\ current' \notin fresh'
      /\ \A e \in Event \ fresh' : life'[e] \in {"handed", "deleted"}
      /\ current' \in Event => life'[current'] = "handed"
  BY <1>1 DEF QueueInv
<1>7. fresh' \subseteq Task /\ accepted' \subseteq Task
  BY DEF Enqueue, DispTypeOK
<1> QED BY <1>1, <1>3, <1>4, <1>5, <1>6, <1>7 DEF QueueInv

\* The dispatcher takes the first task.
LEMMA DequeueKeepsQueue ==
  ASSUME DispTypeOK, QueueInv, taskList # <<>>,
         current' = Head(taskList), taskList' = Tail(taskList),
         UNCHANGED <<fresh, life>>, LockHeld' => LockHeld
  PROVE  QueueInv' /\ taskList' \in Seq(Task) /\ current' \in Task
<1>1. taskList \in Seq(Task) /\ Distinct(taskList)
  BY DEF DispTypeOK, QueueInv
<1>2. /\ current' \in Task /\ taskList' \in Seq(Task)
      /\ 1 \in DOMAIN taskList /\ current' = taskList[1]
      /\ Distinct(taskList')
      /\ \A i \in DOMAIN taskList' : taskList'[i] # current'
      /\ \A i \in DOMAIN taskList' : \E j \in DOMAIN taskList : taskList'[i] = taskList[j]
  BY <1>1, ListShrinks
<1> QED BY <1>2, DispatcherConstants DEF QueueInv, DispatcherConstants

\* A step that leaves the list, the task in hand and the events alone
LEMMA SameQueue ==
  ASSUME QueueInv, UNCHANGED <<taskList, current, fresh, dpc>>,
         \A e \in Event \ fresh : life'[e] = life[e],
         \A i \in DOMAIN taskList : taskList[i] \in Event => life'[taskList[i]] = life[taskList[i]],
         current \in Event => life'[current] = life[current]
  PROVE  QueueInv'
  BY DEF QueueInv, LockHeld

-----------------------------------------------------------------------------
(* What a step of the system is to the scheduler.                          *)

\* The game thread alone deletes events that were handed over; every other step is
\* one of the scheduler, or does not concern it.
LEMMA SystemStepOfScheduler == [Next]_vars => [SchedNext]_schedVars \/ GameEndsTask
<1> SUFFICES ASSUME [Next]_vars PROVE [SchedNext]_schedVars \/ GameEndsTask
  OBVIOUS
<1>1. ASSUME NEW e \in Event, NEW d \in Delay, GameCreatesEvent(e, d) \/ NetworkCreatesEvent(e, d)
      PROVE  SchedNext
  BY <1>1 DEF GameCreatesEvent, NetworkCreatesEvent, SchedNext
<1>2. ASSUME NEW e \in Event, GameStopsEvent(e) \/ AddEventStep(e) PROVE SchedNext
  BY <1>2 DEF GameStopsEvent, AddEventStep, SchedNext
<1>3. ASSUME NEW j \in Job, NEW front \in BOOLEAN,
             GamePosts(j, front) \/ \E expires \in BOOLEAN : NetworkPosts(j, front, expires)
      PROVE  UNCHANGED schedVars
  BY <1>3 DEF GamePosts, NetworkPosts
<1>4. CASE SchedulerStep \/ DeliverEvent
  BY <1>4 DEF SchedulerStep, DeliverEvent, SchedNext, SchedThread
<1>5. CASE DispatcherStep \/ AddTaskStep \/ FlushedTaskPosts \/ RequestShutdown
  BY <1>5 DEF DispatcherStep, AddTaskStep, FlushedTaskPosts, RequestShutdown
<1>6. CASE Wakeup
  BY <1>6 DEF Wakeup, SchedNext
<1>7. CASE ShutdownStep
  BY <1>7 DEF ShutdownStep, StopScheduler, StopDispatcher, ShutdownScheduler, ShutdownDispatcher,
     SchedNext
<1>8. CASE Time
  BY <1>8 DEF Time, SchedNext
<1>9. CASE UNCHANGED vars
  BY <1>9 DEF vars
<1> QED BY <1>1, <1>2, <1>3, <1>4, <1>5, <1>6, <1>7, <1>8, <1>9 DEF Next

\* What the game thread deletes, the scheduler had let go.
LEMMA EndOfTaskKeepsScheduler ==
  ASSUME SchedInv, QueueInv, GameEndsTask
  PROVE  SchedInv'
<1>1. /\ life' = IF current \in Event THEN [life EXCEPT ![current] = "deleted"] ELSE life
      /\ UNCHANGED <<now, schedState, lastEventId, eventIds, eventId, cycle,
                     call, threadVars, stopped, added>>
  BY DEF GameEndsTask
<1>2. current \in Event => life[current] = "handed"
  BY DEF QueueInv
<1>3. TypeOK /\ LifeInv /\ WaitInv /\ IdInv /\ WrapInv
  BY DEF SchedInv
<1>4. TypeOK'
  BY <1>1, <1>3 DEF TypeOK, Life, threadVars
<1>5. Queued' = Queued
  BY <1>1, <1>2, <1>3 DEF Queued, TypeOK
<1>6. LifeInv'
  BY <1>1, <1>2, <1>3 DEF LifeInv, TypeOK, threadVars
<1>7. WaitInv'
  BY <1>1, <1>2, <1>3, <1>5 DEF WaitInv, NoOversleep, NotifyPending, NeverEarly, TypeOK, threadVars
<1>8. IdInv'
  BY <1>1, <1>2, <1>3, <1>5 DEF IdInv, IdsMatchList, StopHonoured, Reused, TypeOK, threadVars
<1>9. WrapInv'
  BY <1>1, <1>3 DEF WrapInv, IdsUniqueBeforeWrap
<1> QED BY <1>4, <1>6, <1>7, <1>8, <1>9 DEF SchedInv

-----------------------------------------------------------------------------
(* Each part of SystemInv is kept.                                         *)

\* The types of the dispatcher, and what may be in its list, with the hand-over of an
\* event and the two ways a task is taken.
LEMMA NextQueueInv ==
  ASSUME SchedInv, SystemTypes, QueueInv, [Next]_vars
  PROVE  SystemTypes' /\ QueueInv'
<1>0. /\ TypeOK /\ LifeInv /\ DispTypeOK
      /\ caller \in [Event -> {"game", "network", NoOne}] /\ halt \in Halt
  BY DEF SchedInv, SystemTypes
<1>c. Event \subseteq Task /\ Job \subseteq Task /\ ShutdownTask \in Task
      /\ ShutdownTask \notin Event /\ Event \cap Job = {}
      /\ NoTask \notin Task
  BY TaskSystemConstants, DispatcherConstants DEF TaskSystemConstants, DispatcherConstants
<1>l. \A e \in Event : e \in fresh \/ life[e] \in {"handed", "deleted"}
  BY DEF QueueInv
<1>m. \A i \in DOMAIN taskList : taskList[i] \in Task
  BY <1>0 DEF DispTypeOK
<1>1. ASSUME NEW e \in Event, NEW d \in Delay, GameCreatesEvent(e, d) \/ NetworkCreatesEvent(e, d)
      PROVE  SystemTypes' /\ QueueInv'
  <2>1. UNCHANGED <<life, dispVars, halt>>
    BY <1>1 DEF GameCreatesEvent, NetworkCreatesEvent, CreateTask
  <2>2. caller' \in [Event -> {"game", "network", NoOne}]
    BY <1>0, <1>1 DEF GameCreatesEvent, NetworkCreatesEvent
  <2>3. QueueInv'
    BY <2>1, SameQueue DEF dispVars
  <2> QED BY <1>0, <2>1, <2>2, <2>3 DEF SystemTypes, DispTypeOK, dispVars
<1>2. ASSUME NEW e \in Event, GameStopsEvent(e) \/ AddEventStep(e)
      PROVE  SystemTypes' /\ QueueInv'
  <2>1. UNCHANGED <<dispVars, caller, halt>>
    BY <1>2 DEF GameStopsEvent, AddEventStep
  <2>2. \A f \in Event : life[f] # "new" => life'[f] = life[f]
    BY <1>0, <1>2 DEF GameStopsEvent, AddEventStep, StopEvent, AddEvent, NotifyScheduler, ReturnEventId,
       LifeInv, TypeOK
  <2>3. QueueInv'
    BY <1>l, <2>1, <2>2, SameQueue DEF dispVars, QueueInv
  <2> QED BY <1>0, <2>1, <2>3 DEF SystemTypes, DispTypeOK, dispVars
<1>3. ASSUME NEW j \in Job, NEW front \in BOOLEAN, NEW expires \in BOOLEAN,
             GamePosts(j, front) \/ NetworkPosts(j, front, expires)
      PROVE  SystemTypes' /\ QueueInv'
  <2>1. Enqueue(j, front) /\ UNCHANGED <<schedVars, caller, halt>>
    BY <1>3 DEF GamePosts, NetworkPosts, PostFromTask, Post
  <2>2. QueueInv' /\ taskList' \in Seq(Task) /\ fresh' \subseteq Task /\ accepted' \subseteq Task
    BY <1>0, <1>c, <2>1, EnqueueKeepsQueue DEF schedVars
  <2>3. canExpire' \subseteq Task /\ toNotify' \subseteq Task
    BY <1>0, <1>3, <1>c DEF GamePosts, NetworkPosts, PostFromTask, Post, DispTypeOK
  <2> QED BY <1>0, <2>1, <2>2, <2>3 DEF SystemTypes, DispTypeOK, Enqueue
<1>4. CASE GameEndsTask
  <2>1. /\ UNCHANGED <<dispState, taskList, fresh, toNotify, canExpire, accepted, caller, halt>>
        /\ finished' = finished \cup {current}
        /\ life' = IF current \in Event THEN [life EXCEPT ![current] = "deleted"] ELSE life
        /\ dpc \in {"taken", "run", "flushrun"}
        /\ \/ dpc' = "test" /\ current' = NoTask
           \/ dpc = "flushrun" /\ dpc' = "flush" /\ current' = ShutdownTask
    BY <1>4 DEF GameEndsTask, DropExpired, FinishTask, EndTask, FinishFlushedTask
  <2>2. QueueInv'
    <3>1. \A i \in DOMAIN taskList : taskList[i] # current
      BY DEF QueueInv
    <3>2. \A e \in Event \ {current} : life'[e] = life[e]
      BY <1>0, <2>1 DEF TypeOK
    <3>3. \A e \in Event \ fresh : life'[e] \in {"handed", "deleted"}
      BY <1>0, <2>1, <3>2 DEF QueueInv, TypeOK
    <3>4. \A i \in DOMAIN taskList : taskList[i] \in Event => life'[taskList[i]] = "handed"
      BY <3>1, <3>2 DEF QueueInv
    <3>5. NoTask \notin fresh /\ NoTask \notin Event /\ \A i \in DOMAIN taskList : taskList[i] # NoTask
      BY <1>0, <1>c, <1>m DEF DispTypeOK
    <3>6. CASE dpc' = "test" /\ current' = NoTask
      BY <2>1, <3>1, <3>3, <3>4, <3>5, <3>6 DEF QueueInv, LockHeld, HasTask
    <3>7. CASE dpc = "flushrun" /\ dpc' = "flush" /\ current' = ShutdownTask
      BY <1>c, <2>1, <3>1, <3>3, <3>4, <3>7 DEF QueueInv, LockHeld, HasTask
    <3> QED BY <2>1, <3>6, <3>7
  <2>3. current \in Task
    BY <1>0, <2>1 DEF DispTypeOK, QueueInv, HasTask
  <2> QED BY <1>0, <1>c, <2>1, <2>2, <2>3 DEF SystemTypes, DispTypeOK, DispPc
<1>5. CASE SchedulerStep
  <2>1. UNCHANGED <<dispVars, caller, halt>>
    BY <1>5 DEF SchedulerStep
  <2>2. \A f \in Event : life[f] \in {"handed", "deleted"} => life'[f] = life[f]
    BY <1>0, <1>5 DEF SchedulerStep, SchedTest, SchedWait, TimeOut, NothingToTake, PopTop, DeleteStopped,
       Tops, Queued, LifeInv, TypeOK
  <2>3. QueueInv'
    BY <1>l, <2>1, <2>2, SameQueue DEF dispVars, QueueInv
  <2> QED BY <1>0, <2>1, <2>3 DEF SystemTypes, DispTypeOK, dispVars
<1>6. CASE DeliverEvent
  <2>1. /\ Enqueue(task, FALSE) /\ task \in Event /\ life' = [life EXCEPT ![task] = "handed"]
        /\ canExpire' = canExpire /\ toNotify' \subseteq toNotify \cup {task}
        /\ UNCHANGED <<caller, halt>>
    BY <1>0, <1>6, SchedulerConstants DEF DeliverEvent, HandOver, Post, DontExpire, LifeInv, TypeOK
  <2>2. QueueInv' /\ taskList' \in Seq(Task) /\ fresh' \subseteq Task /\ accepted' \subseteq Task
    <3>1. life'[task] = "handed" /\ \A e \in Event \ {task} : life'[e] = life[e]
      BY <1>0, <2>1 DEF TypeOK
    <3> QED BY <1>0, <1>c, <2>1, <3>1, EnqueueKeepsQueue
  <2> QED BY <1>0, <1>c, <2>1, <2>2 DEF SystemTypes, DispTypeOK, Enqueue
<1>7. CASE DispatcherStep
  <2>1. UNCHANGED <<schedVars, caller, halt, dispState, fresh, toNotify, canExpire, accepted, finished>>
    BY <1>7 DEF DispatcherStep, DispTest, DispWait, TakeTask, TakeNoTask, BeginTask, FlushTask, EndFlush
  <2>2. CASE TakeTask \/ FlushTask
    <3>1. /\ taskList # <<>> /\ current' = Head(taskList) /\ taskList' = Tail(taskList)
          /\ (LockHeld' => LockHeld)
          /\ dpc' \in DispPc
      BY <2>2 DEF TakeTask, FlushTask, LockHeld, DispPc
    <3>2. QueueInv' /\ taskList' \in Seq(Task) /\ current' \in Task
      BY <1>0, <2>1, <3>1, DequeueKeepsQueue DEF schedVars
    <3> QED BY <1>0, <2>1, <3>1, <3>2 DEF SystemTypes, DispTypeOK
  <2>3. CASE DispTest \/ DispWait \/ TakeNoTask \/ BeginTask \/ EndFlush
    <3>1. /\ UNCHANGED <<taskList, current>> /\ ~ LockHeld' /\ dpc' \in DispPc
          /\ (dpc' \in HasTask => dpc \in HasTask)
      BY <2>3 DEF DispTest, DispWait, TakeNoTask, BeginTask, EndFlush, LockHeld, DispPc, HasTask
    <3>2. QueueInv'
      BY <2>1, <3>1 DEF QueueInv, schedVars
    <3> QED BY <1>0, <2>1, <3>1, <3>2 DEF SystemTypes, DispTypeOK
  <2> QED BY <1>7, <2>2, <2>3 DEF DispatcherStep
<1>8. CASE AddTaskStep \/ FlushedTaskPosts \/ Wakeup \/ Time
  <2>1. /\ UNCHANGED <<life, caller, halt, dispState, taskList, current, fresh, canExpire, accepted, finished>>
        /\ toNotify' \subseteq toNotify
        /\ dpc' \in DispPc
        /\ (LockHeld' => LockHeld)
        /\ (dpc' \in HasTask => dpc \in HasTask)
    BY <1>0, <1>8 DEF AddTaskStep, NotifyDispatcher, FlushedTaskPosts, PostFromFlushedTask, Wakeup,
       SpuriousWakeup, DispSpuriousWakeup, Time, Tick, dispVars, schedVars, DispTypeOK, DispPc, LockHeld, HasTask
  <2>2. QueueInv'
    BY <2>1 DEF QueueInv
  <2> QED BY <1>0, <2>1, <2>2 DEF SystemTypes, DispTypeOK
<1>9. CASE RequestShutdown
  <2>1. /\ Enqueue(ShutdownTask, FALSE) /\ UNCHANGED <<life, caller, canExpire, toNotify>>
        /\ halt' \in Halt
    BY <1>9 DEF RequestShutdown, PostFromTask, schedVars, Halt
  <2>2. QueueInv' /\ taskList' \in Seq(Task) /\ fresh' \subseteq Task /\ accepted' \subseteq Task
    BY <1>0, <1>c, <2>1, EnqueueKeepsQueue
  <2> QED BY <1>0, <2>1, <2>2 DEF SystemTypes, DispTypeOK, Enqueue
<1>10. CASE StopScheduler \/ StopDispatcher
  <2>1. /\ UNCHANGED <<life, caller, taskList, dpc, current, fresh, toNotify, canExpire, accepted, finished>>
        /\ dispState' \in DispState /\ halt' \in Halt
    BY <1>0, <1>10 DEF StopScheduler, StopDispatcher, SchedStop, DispStop, dispVars, schedVars,
       DispState, Halt, DispTypeOK
  <2>2. QueueInv'
    BY <2>1, SameQueue
  <2> QED BY <1>0, <2>1, <2>2 DEF SystemTypes, DispTypeOK
<1>11. CASE ShutdownScheduler
  <2>1. /\ UNCHANGED <<dispVars, caller>> /\ halt' \in Halt
        /\ \A e \in Event : life[e] # "queued" => life'[e] = life[e]
    BY <1>0, <1>11 DEF ShutdownScheduler, SchedShutdown, Queued, Halt, TypeOK
  <2>2. QueueInv'
    BY <1>l, <2>1, SameQueue DEF dispVars, QueueInv
  <2> QED BY <1>0, <2>1, <2>2 DEF SystemTypes, DispTypeOK, dispVars
<1>12. CASE ShutdownDispatcher
  <2>1. /\ UNCHANGED <<life, caller, taskList, current, fresh, toNotify, canExpire, accepted, finished>>
        /\ current = ShutdownTask /\ dispState' = "terminated" /\ dpc' = "flush" /\ halt' = "down"
    BY <1>12 DEF ShutdownDispatcher, DispShutdown, schedVars
  <2>2. QueueInv'
    BY <1>c, <2>1 DEF QueueInv
  <2> QED BY <1>0, <2>1, <2>2 DEF SystemTypes, DispTypeOK, DispState, DispPc, Halt
<1>13. CASE UNCHANGED vars
  BY <1>0, <1>13, SameQueue DEF vars, schedVars, dispVars, SystemTypes, DispTypeOK
<1> QED
  BY <1>1, <1>2, <1>3, <1>4, <1>5, <1>6, <1>7, <1>8, <1>9, <1>10, <1>11, <1>12, <1>13
  DEF Next, ShutdownStep

\* Events are handed over without an expiration.
LEMMA NextExpiryInv == ExpiryInv /\ [Next]_vars => ExpiryInv'
<1> SUFFICES ASSUME ExpiryInv, [Next]_vars PROVE ExpiryInv'
  OBVIOUS
<1>1. ASSUME NEW j \in Job, NEW front \in BOOLEAN, NEW expires \in BOOLEAN,
             NetworkPosts(j, front, expires)
      PROVE  ExpiryInv'
  BY <1>1, TaskSystemConstants DEF TaskSystemConstants, NetworkPosts, Post, ExpiryInv
<1>2. ASSUME NEW j \in Job, NEW front \in BOOLEAN, GamePosts(j, front) PROVE UNCHANGED canExpire
  BY <1>2 DEF GamePosts, PostFromTask
<1>3. ASSUME NEW e \in Event, NEW d \in Delay, GameCreatesEvent(e, d) \/ NetworkCreatesEvent(e, d)
      PROVE  UNCHANGED canExpire
  BY <1>3 DEF GameCreatesEvent, NetworkCreatesEvent, dispVars
<1>4. ASSUME NEW e \in Event, GameStopsEvent(e) \/ AddEventStep(e) PROVE UNCHANGED canExpire
  BY <1>4 DEF GameStopsEvent, AddEventStep, dispVars
<1>5. CASE GameEndsTask
  BY <1>5 DEF GameEndsTask, DropExpired, FinishTask, EndTask, FinishFlushedTask, ExpiryInv
<1>6. CASE DeliverEvent
  BY <1>6 DEF DeliverEvent, Post, DontExpire, ExpiryInv
<1>7. CASE DispatcherStep
  BY <1>7 DEF DispatcherStep, DispTest, DispWait, TakeTask, TakeNoTask, BeginTask, FlushTask, EndFlush,
     ExpiryInv
<1>8. CASE SchedulerStep \/ AddTaskStep \/ FlushedTaskPosts \/ Wakeup \/ Time
  BY <1>8 DEF SchedulerStep, AddTaskStep, NotifyDispatcher, FlushedTaskPosts, PostFromFlushedTask,
     Wakeup, DispSpuriousWakeup, Time, dispVars, ExpiryInv
<1>9. CASE RequestShutdown \/ ShutdownStep
  BY <1>9 DEF RequestShutdown, PostFromTask, ShutdownStep, StopScheduler, StopDispatcher,
     ShutdownScheduler, ShutdownDispatcher, DispStop, DispShutdown, dispVars, ExpiryInv
<1>10. CASE UNCHANGED vars
  BY <1>10 DEF vars, dispVars, ExpiryInv
<1> QED
  BY <1>1, <1>2, <1>3, <1>4, <1>5, <1>6, <1>7, <1>8, <1>9, <1>10 DEF Next, ExpiryInv

\* A signal is sent, or about to be, whenever a task enters an empty list.
LEMMA NextNoTaskOversleep == NoTaskOversleep /\ [Next]_vars => NoTaskOversleep'
<1> SUFFICES ASSUME NoTaskOversleep, [Next]_vars PROVE NoTaskOversleep'
  OBVIOUS
<1>1. ASSUME NEW t, NEW front \in BOOLEAN, NEW expires \in BOOLEAN, Post(t, front, expires)
      PROVE  NoTaskOversleep'
  BY <1>1 DEF Post, Enqueue, Signals, NoTaskOversleep
<1>2. ASSUME NEW t, NEW front \in BOOLEAN, PostFromTask(t, front) PROVE NoTaskOversleep'
  BY <1>2 DEF PostFromTask, Enqueue, NoTaskOversleep
<1>3. ASSUME UNCHANGED dispVars PROVE NoTaskOversleep'
  BY <1>3 DEF dispVars, NoTaskOversleep
<1>4. ASSUME NEW e \in Event, NEW d \in Delay, GameCreatesEvent(e, d) \/ NetworkCreatesEvent(e, d)
      PROVE  NoTaskOversleep'
  BY <1>3, <1>4 DEF GameCreatesEvent, NetworkCreatesEvent
<1>5. ASSUME NEW e \in Event, GameStopsEvent(e) \/ AddEventStep(e) PROVE NoTaskOversleep'
  BY <1>3, <1>5 DEF GameStopsEvent, AddEventStep
<1>6. ASSUME NEW j \in Job, NEW front \in BOOLEAN, NEW expires \in BOOLEAN,
             GamePosts(j, front) \/ NetworkPosts(j, front, expires)
      PROVE  NoTaskOversleep'
  BY <1>1, <1>2, <1>6 DEF GamePosts, NetworkPosts
<1>7. CASE GameEndsTask
  BY <1>7 DEF GameEndsTask, DropExpired, FinishTask, EndTask, FinishFlushedTask, NoTaskOversleep
<1>8. CASE DeliverEvent
  BY <1>1, <1>8 DEF DeliverEvent, DontExpire
<1>9. CASE DispatcherStep
  BY <1>9 DEF DispatcherStep, DispTest, DispWait, TakeTask, TakeNoTask, BeginTask, FlushTask, EndFlush,
     NoTaskOversleep
<1>10. CASE AddTaskStep
  BY <1>10 DEF AddTaskStep, NotifyDispatcher, NoTaskOversleep
<1>11. CASE SchedulerStep \/ Time
  BY <1>3, <1>11 DEF SchedulerStep, Time
<1>12. CASE FlushedTaskPosts \/ Wakeup
  BY <1>3, <1>12 DEF FlushedTaskPosts, PostFromFlushedTask, Wakeup, DispSpuriousWakeup, NoTaskOversleep
<1>13. CASE RequestShutdown
  BY <1>2, <1>13 DEF RequestShutdown
<1>14. CASE ShutdownStep
  BY <1>3, <1>14 DEF ShutdownStep, StopScheduler, StopDispatcher, ShutdownScheduler, ShutdownDispatcher,
     DispStop, DispShutdown, NoTaskOversleep
<1>15. CASE UNCHANGED vars
  BY <1>3, <1>15 DEF vars
<1> QED
  BY <1>4, <1>5, <1>6, <1>7, <1>8, <1>9, <1>10, <1>11, <1>12, <1>13, <1>14, <1>15 DEF Next

\* A step that leaves the callers, the calls, the ids and the stopped events alone
\* and neither deletes an event nor finds one stopped
LEMMA SameCalls ==
  ASSUME CallInv, UNCHANGED <<caller, call, eventId, stopped>>,
         \A e \in Event : life'[e] = "deleted" => life[e] = "deleted",
         \A e \in Event : life'[e] = "taken" /\ ~ runTask' => life[e] = "taken" /\ ~ runTask
  PROVE  CallInv'
  BY DEF CallInv, InCall, Reused

\* An event that the game thread is still arming is not deleted: the game thread ends
\* no task meanwhile, and the scheduler thread finds its id in eventIds.
LEMMA NextCallInv ==
  ASSUME SchedInv, SystemTypes, CallInv, [Next]_vars
  PROVE  CallInv'
<1>0. /\ TypeOK /\ LifeInv /\ IdInv
      /\ caller \in [Event -> {"game", "network", NoOne}]
  BY DEF SchedInv, SystemTypes
<1>1. ASSUME NEW e \in Event, NEW d \in Delay, GameCreatesEvent(e, d) \/ NetworkCreatesEvent(e, d)
      PROVE  CallInv'
  <2>1. /\ call[e] = "new" /\ call' = [call EXCEPT ![e] = "created"]
        /\ \A f \in Event \ {e} : caller'[f] = caller[f]
        /\ UNCHANGED <<life, runTask, eventId, stopped>>
    BY <1>0, <1>1 DEF GameCreatesEvent, NetworkCreatesEvent, CreateTask, threadVars
  <2>2. life[e] = "new" /\ e \notin stopped
    BY <1>0, <2>1 DEF LifeInv, CallInv
  <2> QED BY <1>0, <2>1, <2>2 DEF CallInv, InCall, Reused, TypeOK
<1>2. ASSUME NEW e \in Event, GameStopsEvent(e) PROVE CallInv'
  BY <1>2 DEF GameStopsEvent, StopEvent, CallInv, InCall, Reused, threadVars
<1>3. ASSUME NEW e \in Event, AddEvent(e), UNCHANGED caller PROVE CallInv'
  <2>1. /\ call[e] = "created" /\ life'[e] \in {"queued", "leaked"}
        /\ \A f \in Event \ {e} : life'[f] = life[f] /\ call'[f] = call[f] /\ eventId'[f] = eventId[f]
        /\ UNCHANGED <<stopped, runTask>>
    BY <1>0, <1>3 DEF AddEvent, TypeOK, threadVars
  <2>2. e \notin stopped /\ eventId[e] = 0
    BY <1>0, <2>1 DEF CallInv, LifeInv, IdInv
  <2>3. \A f \in stopped : call'[f] = "done"
    BY <1>0, <2>1, <2>2 DEF CallInv, TypeOK
  <2>4. ASSUME NEW f \in Event, caller'[f] = "game", InCall(f)', ~ Reused(f)'
        PROVE  life'[f] # "deleted" /\ ~ (life'[f] = "taken" /\ ~ runTask')
    <3>1. CASE f = e
      BY <2>1, <3>1
    <3>2. CASE f # e /\ eventId[f] = 0
      BY <1>0, <2>1, <3>2 DEF IdInv
    <3>3. CASE f # e /\ eventId[f] # 0
      <4>1. ~ Reused(f) /\ InCall(f) /\ caller[f] = "game"
        BY <1>3, <2>1, <2>2, <2>4, <3>3 DEF Reused, InCall
      <4> QED BY <2>1, <3>3, <4>1 DEF CallInv
    <3> QED BY <3>1, <3>2, <3>3
  <2> QED BY <2>1, <2>3, <2>4 DEF CallInv
<1>4. ASSUME NEW e \in Event, NotifyScheduler(e) \/ ReturnEventId(e), UNCHANGED caller PROVE CallInv'
  BY <1>0, <1>4 DEF NotifyScheduler, ReturnEventId, CallInv, InCall, Reused, TypeOK, threadVars
<1>5. CASE SchedTest /\ UNCHANGED caller
  BY <1>0, <1>5, SameCalls DEF SchedTest, LifeInv
<1>6. CASE (SchedWait \/ TimeOut \/ NothingToTake \/ SpuriousWakeup) /\ UNCHANGED caller
  BY <1>6, SameCalls DEF SchedWait, TimeOut, NothingToTake, SpuriousWakeup
<1>7. CASE PopTop /\ UNCHANGED caller
  <2>1. PICK e \in Tops : /\ life' = [life EXCEPT ![e] = "taken"] /\ runTask' = NotStopped(e)
                          /\ UNCHANGED <<caller, call, eventId, stopped>> /\ spc = "expired"
    BY <1>7 DEF PopTop
  <2>2. e \in Queued /\ e \in Event /\ \A f \in Event : life[f] # "taken"
    BY <1>0, <2>1 DEF Tops, Queued, LifeInv
  <2>3. caller[e] = "game" /\ InCall(e) /\ ~ Reused(e) => runTask'
    BY <1>0, <2>1, <2>2 DEF CallInv, InCall, IdInv, IdsMatchList, NotStopped
  <2> QED BY <1>0, <2>1, <2>2, <2>3 DEF CallInv, InCall, Reused, TypeOK
<1>8. CASE HandOver /\ UNCHANGED caller
  BY <1>0, <1>8, SameCalls DEF HandOver, TypeOK
<1>9. CASE DeleteStopped /\ UNCHANGED caller
  <2>1. /\ life' = [life EXCEPT ![task] = "deleted"] /\ ~ runTask /\ spc = "deliver"
        /\ UNCHANGED <<caller, call, eventId, stopped, runTask>>
    BY <1>9 DEF DeleteStopped
  <2>2. task \in Event /\ life[task] = "taken"
    BY <1>0, <2>1 DEF LifeInv, TypeOK
  <2> QED BY <1>0, <2>1, <2>2 DEF CallInv, InCall, Reused, TypeOK
<1>10. CASE GameEndsTask
  BY <1>10 DEF GameEndsTask, Busy, CallInv, threadVars, InCall
<1>11. CASE ShutdownScheduler
  BY <1>0, <1>11, SameCalls DEF ShutdownScheduler, SchedShutdown, threadVars, TypeOK
<1>12. ASSUME UNCHANGED <<schedVars, caller>> PROVE CallInv'
  BY <1>12, SameCalls DEF schedVars, threadVars
<1>13. CASE StopScheduler \/ Time
  BY <1>13, SameCalls DEF StopScheduler, SchedStop, Time, Tick, threadVars
<1>14. CASE DispatcherStep \/ AddTaskStep \/ FlushedTaskPosts \/ RequestShutdown \/ StopDispatcher
            \/ ShutdownDispatcher
  BY <1>12, <1>14 DEF DispatcherStep, AddTaskStep, FlushedTaskPosts, RequestShutdown, StopDispatcher,
     ShutdownDispatcher
<1>15. CASE UNCHANGED vars
  BY <1>12, <1>15 DEF vars
<1>16. CASE Wakeup
  BY <1>6, <1>12, <1>16 DEF Wakeup
<1>17. CASE SchedulerStep
  BY <1>5, <1>6, <1>7, <1>9, <1>17 DEF SchedulerStep
<1>18. CASE DeliverEvent
  BY <1>8, <1>18 DEF DeliverEvent
<1>19. ASSUME NEW e \in Event, AddEventStep(e) PROVE CallInv'
  BY <1>3, <1>4, <1>19 DEF AddEventStep
<1>20. ASSUME NEW j \in Job, NEW front \in BOOLEAN,
              GamePosts(j, front) \/ \E expires \in BOOLEAN : NetworkPosts(j, front, expires)
       PROVE  CallInv'
  BY <1>12, <1>20 DEF GamePosts, NetworkPosts
<1> QED
  BY <1>1, <1>2, <1>10, <1>11, <1>13, <1>14, <1>15, <1>16, <1>17, <1>18, <1>19, <1>20
  DEF Next, ShutdownStep

-----------------------------------------------------------------------------
(* The invariant of the whole system and what it gives.                    *)

LEMMA SystemInvInductive == Spec => []SystemInv
<1>1. Init => SystemInv
  <2> SUFFICES ASSUME Init PROVE SystemInv
    OBVIOUS
  <2>1. SchedInv
    BY InitTypeOK, InitLifeInv, InitWaitInv, InitIdInv, InitWrapInv DEF Init, SchedInv
  <2>2. SystemTypes
    BY DEF Init, DispInit, SystemTypes, DispTypeOK, DispState, DispPc, Halt
  <2>3. QueueInv
    BY DispatcherConstants, TaskSystemConstants DEF DispatcherConstants, TaskSystemConstants, Init, DispInit,
       QueueInv, HasTask, LockHeld, Distinct
  <2>4. ExpiryInv /\ NoTaskOversleep /\ CallInv
    BY DEF Init, DispInit, SchedInit, ExpiryInv, NoTaskOversleep, CallInv, InCall
  <2> QED BY <2>1, <2>2, <2>3, <2>4 DEF SystemInv
<1>2. SystemInv /\ [Next]_vars => SystemInv'
  <2> SUFFICES ASSUME SystemInv, [Next]_vars PROVE SystemInv'
    OBVIOUS
  <2>1. SchedInv'
    BY SystemStepOfScheduler, EndOfTaskKeepsScheduler, NextTypeOK, NextLifeInv, NextWaitInv, NextIdInv,
       NextWrapInv DEF SystemInv, SchedInv
  <2> QED
    BY <2>1, NextQueueInv, NextExpiryInv, NextNoTaskOversleep, NextCallInv DEF SystemInv
<1> QED
  BY <1>1, <1>2, PTL DEF Spec

\* addEvent reads the id of the task after it released the lock (scheduler.cpp
\* 146-152): when the game thread called it, the task still exists, whatever the
\* scheduler thread, the dispatcher and a shutdown do meanwhile.
THEOREM ArmingReadsALiveTask == Spec => []NoUseAfterFree
<1>1. SystemInv => NoUseAfterFree
  BY DEF SystemInv, CallInv, NoUseAfterFree
<1> QED
  BY <1>1, SystemInvInductive, PTL

\* No signal to the game thread is lost (tasks.cpp 63-69 against 113-136).
THEOREM NoTaskWaitsBehindALostSignal == Spec => []NoTaskOversleep
<1>1. SystemInv => NoTaskOversleep
  BY DEF SystemInv
<1> QED
  BY <1>1, SystemInvInductive, PTL

\* The game thread runs an event only after its deadline, and never one it stopped,
\* unless ids are shared.
THEOREM GameRunsDueEvents == Spec => []RunsOnlyDueEvents
<1>1. SystemInv => RunsOnlyDueEvents
  <2> SUFFICES ASSUME SystemInv, current \in Event
               PROVE  cycle[current] <= now /\ (current \notin stopped \/ Reused(current))
    BY DEF RunsOnlyDueEvents
  <2>1. life[current] = "handed"
    BY DEF SystemInv, QueueInv
  <2> QED BY <2>1 DEF SystemInv, SchedInv, WaitInv, NeverEarly, IdInv, StopHonoured
<1> QED
  BY <1>1, SystemInvInductive, PTL

\* No event is dropped as an expired packet (tasks.cpp 85), whatever its deadline.
THEOREM EventsAreNotDropped == Spec => []TimersDoNotExpire
<1>1. SystemInv => TimersDoNotExpire
  BY DEF SystemInv, ExpiryInv, TimersDoNotExpire
<1> QED
  BY <1>1, SystemInvInductive, PTL

\* What holds of the scheduler by itself holds of it in the whole system, where the
\* dispatcher deletes the events it was handed: no lost wake-up, no pop of an empty
\* list, no early event, a stop that is honoured, and ids that are those of the list.
THEOREM SchedulerInTheSystem ==
  Spec => [](NoOversleep /\ PopIsDefined /\ NeverEarly /\ StopHonoured /\ IdsMatchList
             /\ IdsUniqueBeforeWrap)
<1>1. SystemInv => /\ NoOversleep /\ PopIsDefined /\ NeverEarly /\ StopHonoured /\ IdsMatchList
                   /\ IdsUniqueBeforeWrap
  BY DEF SystemInv, SchedInv, WaitInv, IdInv, WrapInv, PopIsDefined, Queued
<1> QED
  BY <1>1, SystemInvInductive, PTL

=============================================================================
