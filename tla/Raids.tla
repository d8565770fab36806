------------------------------- MODULE Raids -------------------------------
(***************************************************************************)
(* Raids (raids.cpp, with forceRaid of talkaction.cpp and the reload of    *)
(* game.cpp).  A raid is a list of events; each, when it is executed, arms *)
(* the scheduler for the next.  A check that arms itself again starts      *)
(* raids by chance.  Both are events of the scheduler, and between the     *)
(* time the scheduler hands one to the dispatcher and the time it runs     *)
(* nobody can stop it; meanwhile the raids may be reloaded, which deletes  *)
(* all Raid objects.                                                       *)
(*                                                                         *)
(* What runs on a deleted raid is undefined: it ends the model.            *)
(***************************************************************************)
EXTENDS Naturals, Sequences, FiniteSets

CONSTANTS
    Raid,       \* the names of the raids
    NoRaid,     \* the NULL raid pointer
    Sizes,      \* how many events a raid may have
    MaxLoads    \* bound: how often raids are loaded

ASSUME RaidsAssumption ==
    /\ IsFiniteSet(Raid) /\ NoRaid \notin Raid
    /\ Sizes \subseteq Nat
    /\ MaxLoads \in Nat

VARIABLES
    loaded,           \* Raids::loaded; raidList has all raids then, none otherwise
    started,          \* Raids::started
    running,          \* Raids::running
    checkRaidsEvent,  \* the id of the next check
    size,             \* raidEvents.size() of each raid, as the files have it
    nextEvent,        \* Raid::nextEvent
    nextEventEvent,   \* Raid::nextEventEvent, the id of the next event
    timers,           \* the scheduler's events that nobody stopped
    queue,            \* the tasks it handed to the dispatcher
    loads,            \* history: how often the raids were loaded
    late,             \* history: reloads that came too late to stop a check
    undefined         \* an event of a deleted raid was executed

raidVars == <<size, nextEvent, nextEventEvent>>
allRaidVars == <<loaded, started, running, checkRaidsEvent, raidVars, timers, queue,
          loads, late, undefined>>

\* What runs: a check, or event number index of a raid of the load-th loading.
\* forced marks the event that forceRaid asks for.
Run == [kind : {"check"}]
       \cup [kind : {"event"}, raid : Raid, index : Nat, load : Nat, forced : BOOLEAN]

Check == [kind |-> "check"]
Event(r, i, f) == [kind |-> "event", raid |-> r, index |-> i, load |-> loads, forced |-> f]

RaidsTypeOK ==
    /\ loaded \in BOOLEAN /\ started \in BOOLEAN /\ undefined \in BOOLEAN
    /\ running \in Raid \cup {NoRaid}
    /\ checkRaidsEvent \in Nat
    /\ size \in [Raid -> Sizes \cup {0}]
    /\ nextEvent \in [Raid -> Nat]
    /\ nextEventEvent \in [Raid -> Nat]
    /\ IsFiniteSet(timers) /\ timers \subseteq [id : Nat \ {0}, run : Run]
    /\ queue \in Seq(Run)
    /\ loads \in Nat /\ late \in Nat

-----------------------------------------------------------------------------
\* addEvent gives an id that no event and no variable has, until the ids wrap.
Ids == {t.id : t \in timers} \cup {checkRaidsEvent} \cup {nextEventEvent[r] : r \in Raid}
NewId(used) == CHOOSE i \in 1 .. Cardinality(used) + 1 : i \notin used
Fresh == NewId(Ids)
FreshTwo == NewId(Ids \cup {Fresh})

Armed(i, run) == [id |-> i, run |-> run]

\* The dispatcher runs the first task.
First(kind) == ~undefined /\ queue # <<>> /\ Head(queue).kind = kind

-----------------------------------------------------------------------------
\* The scheduler hands over an event that is due.
Expire(t) ==
    /\ t \in timers /\ ~undefined
    /\ timers' = timers \ {t}
    /\ queue' = Append(queue, t.run)
    /\ UNCHANGED <<loaded, started, running, checkRaidsEvent, raidVars, loads, late, undefined>>

\* checkRaids starts no raid, for one runs or none came up, and is armed again.
checkRaids ==
    /\ First("check")
    /\ checkRaidsEvent' = Fresh
    /\ timers' = timers \cup {Armed(Fresh, Check)}
    /\ queue' = Tail(queue)
    /\ UNCHANGED <<loaded, started, running, raidVars, loads, late, undefined>>

\* checkRaids starts a raid.  One without events starts, too: nothing ends it then.
startRaid(r) ==
    /\ First("check") /\ loaded /\ running = NoRaid
    /\ running' = r
    /\ IF nextEvent[r] < size[r]
       THEN /\ nextEventEvent' = [nextEventEvent EXCEPT ![r] = Fresh]
            /\ checkRaidsEvent' = FreshTwo
            /\ timers' = timers \cup {Armed(Fresh, Event(r, nextEvent[r], FALSE)),
                                      Armed(FreshTwo, Check)}
       ELSE /\ checkRaidsEvent' = Fresh
            /\ timers' = timers \cup {Armed(Fresh, Check)}
            /\ UNCHANGED nextEventEvent
    /\ queue' = Tail(queue)
    /\ UNCHANGED <<loaded, started, size, nextEvent, loads, late, undefined>>

\* forceRaid, the command of a gamemaster, starts a raid as well, but does not keep
\* the id of its first event; one without delay goes to the dispatcher at once.
forceRaid(r) ==
    /\ ~undefined /\ loaded /\ running = NoRaid
    /\ running' = r
    /\ LET first == Event(r, nextEvent[r], TRUE)
       IN  \/ nextEvent[r] < size[r] /\ timers' = timers \cup {Armed(Fresh, first)}
                                     /\ UNCHANGED queue
           \/ nextEvent[r] < size[r] /\ queue' = Append(queue, first) /\ UNCHANGED timers
           \/ nextEvent[r] >= size[r] /\ UNCHANGED <<timers, queue>>
    /\ UNCHANGED <<loaded, started, checkRaidsEvent, raidVars, loads, late, undefined>>

X_resetRaid == UNCHANGED running

\* resetRaid, as far as the manager goes
resetRaid == running' = NoRaid

\* executeRaidEvent: the next event is armed.
executeRaidEvent ==
    /\ First("event") /\ Head(queue).load = loads
    /\ LET r == Head(queue).raid
           n == nextEvent[r] + 1
       IN  /\ n < size[r]
           /\ nextEvent' = [nextEvent EXCEPT ![r] = n]
           /\ nextEventEvent' = [nextEventEvent EXCEPT ![r] = Fresh]
           /\ timers' = timers \cup {Armed(Fresh, Event(r, n, FALSE))}
    /\ queue' = Tail(queue)
    /\ UNCHANGED <<loaded, started, running, checkRaidsEvent, size, loads, late, undefined>>

\* executeRaidEvent: the event was the last, or it failed, as any may.
endRaid ==
    /\ First("event") /\ Head(queue).load = loads
    /\ nextEvent' = [nextEvent EXCEPT ![Head(queue).raid] = 0]
    /\ resetRaid
    /\ queue' = Tail(queue)
    /\ UNCHANGED <<loaded, started, checkRaidsEvent, size, nextEventEvent, timers,
                   loads, late, undefined>>

\* executeRaidEvent of a raid that was deleted
executeDeleted ==
    /\ First("event") /\ Head(queue).load # loads
    /\ undefined' = TRUE
    /\ UNCHANGED <<loaded, started, running, checkRaidsEvent, raidVars, timers, queue,
                   loads, late>>

X_Stopped == {t \in timers : t.id = checkRaidsEvent}

\* clear stops the check and, when it deletes the raids, their next events.
Stopped ==
    {t \in timers : t.id = checkRaidsEvent \/ \E r \in Raid : t.id = nextEventEvent[r]}

\* loadFromXml: the files may have changed, or be unreadable now.
loadFromXml ==
    /\ loaded' \in BOOLEAN
    /\ IF loaded' THEN size' \in [Raid -> Sizes]
                  ELSE size' = [r \in Raid |-> 0]

\* startup arms the first check, where rest is what clear left to the scheduler.
startup(rest) ==
    /\ started' = loaded'
    /\ IF loaded'
       THEN /\ checkRaidsEvent' = Fresh
            /\ timers' = rest \cup {Armed(Fresh, Check)}
       ELSE /\ checkRaidsEvent' = 0
            /\ timers' = rest

\* clear, loadFromXml and startup, as reloadInfo calls them; the first load is that
\* of the server's start.
reload ==
    /\ ~undefined /\ loads < MaxLoads
    /\ loads' = loads + 1
    /\ late' = late + (IF \E k \in DOMAIN queue : queue[k] = Check THEN 1 ELSE 0)
    /\ running' = NoRaid
    /\ nextEvent' = [r \in Raid |-> 0]
    /\ nextEventEvent' = [r \in Raid |-> 0]
    /\ loadFromXml
    /\ startup(timers \ Stopped)
    /\ UNCHANGED <<queue, undefined>>

-----------------------------------------------------------------------------
RaidsInit ==
    /\ loaded = FALSE /\ started = FALSE
    /\ running = NoRaid
    /\ checkRaidsEvent = 0
    /\ size = [r \in Raid |-> 0]
    /\ nextEvent = [r \in Raid |-> 0]
    /\ nextEventEvent = [r \in Raid |-> 0]
    /\ timers = {} /\ queue = <<>>
    /\ loads = 0 /\ late = 0
    /\ undefined = FALSE

Dispatch ==
    \/ checkRaids
    \/ \E r \in Raid : startRaid(r)
    \/ executeRaidEvent
    \/ endRaid
    \/ executeDeleted

RaidsNext ==
    \/ \E t \in timers : Expire(t)
    \/ Dispatch
    \/ \E r \in Raid : forceRaid(r)
    \/ reload

Of(r) == {t \in timers : t.run.kind = "event" /\ t.run.raid = r}

\* The dispatcher runs, and the scheduler hands over what is due.
Fairness ==
    /\ WF_allRaidVars(Dispatch)
    /\ \A r \in Raid : WF_allRaidVars(\E t \in Of(r) : Expire(t))
    /\ WF_allRaidVars(\E t \in timers : t.run = Check /\ Expire(t))

RaidsSpec == RaidsInit /\ [][RaidsNext]_allRaidVars /\ Fairness

-----------------------------------------------------------------------------
\* How many of these wait, with the scheduler or the dispatcher
Waiting(runs) ==
    Cardinality({t \in timers : t.run \in runs}) + Cardinality({k \in DOMAIN queue : queue[k] \in runs})

\* The next event of the raid that runs, forced or not
Due == IF running = NoRaid THEN {}
       ELSE {Event(running, nextEvent[running], f) : f \in BOOLEAN}

\* A raid that runs has exactly one event to wait for, its next, and no other raid has
\* any: not one that ended, failed, or was stopped by a reload at whatever time.
\* What a reload leaves with the scheduler was forced before it (talkaction.cpp:456),
\* and what it leaves with the dispatcher was handed over before it.
OneRaidAtATime ==
    /\ running # NoRaid /\ size[running] > 0 => Waiting(Due) = 1
    /\ \A t \in timers : t.run.kind = "event" =>
          t.run \in Due \/ (t.run.forced /\ t.run.load < loads)
    /\ \A k \in DOMAIN queue : queue[k].kind = "event" =>
          queue[k] \in Due \/ queue[k].load < loads

\* Raids that are loaded are checked for; each reload that found a check on its way
\* through the dispatcher leaves at most one check more.
ChecksGoOn ==
    /\ started => Waiting({Check}) > 0
    /\ Waiting({Check}) <= 1 + late

EventsInOrder == OneRaidAtATime /\ ChecksGoOn

\* A raid that has events ends, whatever becomes of them: after its last event, after
\* one that fails, or by a reload (raids.cpp:326-345).
RaidsEnd ==
    \A r \in Raid : running = r /\ size[r] > 0 ~> running # r \/ undefined

=============================================================================
