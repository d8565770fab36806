# A TLA+ model of OTHire

OTHire is a server for a 2D online role-playing game, written in C++
(`src/source`, about 65,000 lines). This directory holds TLA+ modules that
model its concurrent core and the handlers whose correctness depends on the
order of events, TLC configurations that check them on small instances, and
proofs, checked by TLAPS, of the properties that hold for any instance.

Line numbers below refer to files of `src/source`.

## 1. The system

### 1.1 Threads

| Thread | Code | What it does |
| --- | --- | --- |
| main | `otserv.cpp` | loads the world, starts the others, joins them |
| network | `server.cpp`, `connection.cpp`, boost::asio | accepts, reads, parses packets; leaves the game to the tasks it posts, with the exceptions below |
| scheduler | `scheduler.cpp` | sleeps until the next deadline, posts the event to the dispatcher |
| dispatcher | `tasks.cpp` | runs every task, one at a time; all game state is its own |

The design rule is that the whole game is single-threaded. A handler is atomic
with respect to other handlers; what interleaves are the threads around the
queue, and, above it, the *tasks* of several players and timers: whatever a
handler remembers (an event id, a pointer, a cached verdict) must still be right
when a later task uses it. The model follows that split: `Scheduler`,
`Dispatcher` and `TaskSystem` have a step per critical section of the threads;
the modules of the game have an action per handler.

The network thread keeps to the rule with two exceptions in `protocolgame.cpp`, which
no module follows: parsing reads a little of the player (his health, 398, his outfit
and premium, 961), and a packet shorter than what was read from it makes
the thread itself kick him (653), where `Session` has `KickPlayer` as a task.

### 1.2 Components

| Component | State | Operations | Hard behaviour | What makes it correct | Module |
| --- | --- | --- | --- | --- | --- |
| Scheduler | event heap, active ids, id counter, thread state | `addEvent`, `stopEvent`, thread, `stop`, `shutdown` | notify after the unlock; `top()` after a wait; stop against pop; id wrap | no lost wake-up; nothing early; a stopped event does not run | `Scheduler`, abstract: `Timer` |
| Dispatcher | task list, thread state | `addTask`, thread, `stop`, `flush`, `shutdown` | signal only for an empty list, a wait without a loop; flush under the lock | every accepted task runs, once | `Dispatcher` |
| Both, with shutdown | who calls `addEvent`, how far the shutdown is | `Game::setGameState`, `Game::shutdown` | use after free of an event; tasks posted while closing; hangs | armed events run, a shutdown ends | `TaskSystem` |
| Connections, output messages | connection state, pending operations, reference counts, message pool, auto-send list | accept, read, write, timeouts, close, release, `sendAll` | two locks taken in both orders; timeouts against completions; counts changed by two threads | nothing freed while in use, no deadlock, last words are sent, what closes goes | `Network` |
| Sessions | protocol/player pointers, connection state, reference counts, `isConnecting` | login, takeover, connect event, logout, close, release, kick, death | a third client between a takeover and its connect event; release while an event holds the protocol | client and character point at each other, nothing dangles, logins are answered | `Session` |
| Waiting list | list of waits with timeouts | `clientLogin`, `cleanUpList` | retry just after the timeout; premium order; room against slots | nobody overtakes, room is kept | `WaitList` |
| Trading | `tradeState`, `tradePartner`, `tradeItem` of each player, `Game::tradeItems` | request, accept, close, and hooks of every change of the world | items on offer stay in the world; nested containers; partial swaps | both sides agree; what is offered is what is given | `Trade`, abstract: `Barter` |
| Item storage | parents of things, stack counts, cached weights and numbers, open windows | `internalMoveItem`, the queries, add and remove, payments, `autoCloseContainers` | several queries before two changes; exchanges; caches along a chain of containers | nothing lost or doubled, caches exact, limits hold, windows in reach | `Storage` |
| Decay | 16 buckets, items to be added, things to release, durations | `startDecay`, `internalDecayItem`, `checkDecay`, `cleanup`, `transformItem`, `setID` | rounding from two places; an item transformed while on the wheel | an item decays on time, every list entry has its reference | `Decay` |
| Creatures | check list, target and aim pointers, summons, sleep, one spawn block | placing, moving, dying, removal, target lists, `checkCreatures`, `checkSpawn` | lists changed while walked over; pointers without references; sleepers are not checked | no pointer dangles, no foe and no death is missed, spawns go on | `Creatures` |
| Parties | member and invitation lists, leader, points, sharing verdict, channel | invite, join, revoke, pass, leave, disband, share, log out | four lists of pointers; self-deletion; a cached verdict | lists mirror each other; the verdict is current | `Party` |
| Raids | one running raid, two kinds of event ids | `checkRaids`, `executeRaidEvent`, `forceRaid`, `clear`, `reload` | an event already handed over when its raid is deleted | one raid at a time, with one event; a raid ends | `Raids` |
| Houses and beds | owner, lists, transfer document | buy, sell, kick, sleep | owner changes between offer and trade | one owner, a sale transfers once | not modelled, see 7 |
| Chat, rule violations | channels, users, reports | open, close, speak | users who left | only users hear | channels of parties in `Party` |
| Guilds, bans | database tables | queries | transactions | - | not modelled: the logic is SQL |
| Combat, spells, conditions, NPCs | formulas and scripts | - | - | - | not modelled: data and Lua |
| Scripting, persistence, map, protocol parsing, tools | - | - | - | - | not modelled: translation of data |

`PROJECT.json` lists every component with its files, and under `hazards` each
place where the code can go wrong in a way a test would hardly reach, with the
property that watches over it or the reason why none does.

### 1.3 How the components interact

- Network threads call `addGameTask`, which posts to the dispatcher; packets may
  expire on the queue (`Task::hasExpired`), timers may not.
- The scheduler hands due events over with `addTask`, and the handlers arm and
  stop events while they run on the dispatcher. An event is a `Task` object
  whose owner changes from the caller to the scheduler to the dispatcher.
- `Session` uses both as a first-come-first-served queue and an ordered list of
  timers. A takeover works only because the close task of the old client was
  posted before the connect event of the new one.
- `WaitList` is asked by `ProtocolGame::login`. `Session` keeps the answer as
  one of the reasons to refuse.
- The removal of a creature (`onCreatureDisappear`) is the hook through which
  sessions, trades and parties learn of a logout, a kick or a death: it is an
  action of each of these modules.
- Objects are freed by counts (`useThing2`, `FreeThing`, `Game::cleanup`). `Decay`
  counts them exactly; `Creatures` keeps an object while any list holds it;
  `Session` counts protocols and players, `Network` connections and messages.
- `Session` sees a connection from the dispatcher; `Network` is what lies between
  it and the socket: the same close and release tasks, with the two threads, the
  locks and the pool that `Session` takes for granted.

## 2. The modules

Every module starts with what it models, and every definition that stands for
code has its lines in `PROJECT.json`. Definitions whose name is that of another
with `X_` before it, or a word after it, (`X_Laid`, `Settle_KeepInvitations`) are
variants of it with a plausible bug; nothing uses them in the
specifications, they serve to see that a property can fail.

**Timer.** What users of the scheduler rely on: an armed event fires at most
once, not before its deadline, not after it was cancelled or the timer closed.

**Scheduler.** `spc` is where the thread is in `schedulerThread`, `call` where
each `createSchedulerTask`/`addEvent` call is, `life` where the task object is.
The lock is not a variable: a critical section is one action, `timed_wait` and
`wait` are two. `addEvent` is three steps (the critical section, the notify after it,
the final read of the id) because other threads run between them. Spurious
wake-ups are steps. Ids wrap at `MaxEventId`; two events may then share one
(`Reused`), and the properties say which guarantees survive that.

**Dispatcher.** The same treatment for `tasks.cpp`. `m_taskLock` is held across
steps only while `shutdown` flushes; a flushed task that posts is then stuck on
its own thread's lock (`dpc = "stuck"`).

**TaskSystem** composes the two: an `Event` is a `Task` once handed over, the
running task is who arms, stops and posts, a network thread also arms and posts
(`ServicePort::onAccept`), and `halt` walks through `Game::setGameState` and
`Game::shutdown`.

**Network.** A connection goes through the states of `Connection`; `tasks` is the
dispatcher's queue as far as it concerns connections, `io` where the network
thread is in a handler, `disp` where the dispatcher is between two tasks. A
critical section is one step unless the thread takes the other lock, or touches
an unprotected count, inside it: `sendAll` holds the pool's lock over many steps,
and `parsePacket` its connection's while the protocol answers. Completion
handlers run in the order in which the operations ended, as in asio's queue; a
timer may expire and its handler still be overtaken by the operation it watches.
*Left out*: opening of ports and accepting, `closeAll` (nobody calls it),
exceptions of asio, the end of the pool at shutdown.

**Session.** A client is a connection with its `ProtocolGame`; a `Player` object
is named after the client whose login created it. `queue` holds the tasks of the
dispatcher, `timers` the events of the scheduler in order of time, `refCount`
the references that connect events hold, `useCount` those on the player. The
actions `RunLogin`, `RunConnect`, `RunLogout`, `RunClose` and `RunRelease` are
the handlers of the first task; `Think`, `KickPlayer`, `Die` and `Hold` are what
other tasks do to a character. *Left out*: `ALLOW_CLONES`, game states that
close the server, the reference of the creature check list, references of output
messages (they delay a deletion), the delay of `FreeThing`. A refused login is
one choice whatever the reason, and a closing connection is closed when its task
ran. The guard on `eventConnect` in `login` does not show: a protocol logs in
once, so it is never set there.

**WaitList.** The list with a flag per entry for a timeout that has passed, which
may happen at any moment; `place` is what a player was last told. A login that
was admitted may still fail later, after its entry was removed.

**Barter.** Trading as a player understands it: a deal has two sides and ends for
both, what is offered stays put, things change hands when both agreed.

**Nesting.** The containers around a thing (`Around`, a least set) and what it is in
in the end (`TopOf`), from a function that gives the parent of each thing. The code
walks up the parents in loops; a least set needs no bound on the depth and
no recursion, so that it can be reasoned about. `Trade` and `Storage` use it.

**Trade.** `loc` is the parent of each item (player, tile, container, or gone),
the four trade variables are those of the code. `Hears`, `Offered` and
`LeavesWith` are the tests of the hooks in `player.cpp`, which differ per kind of
cylinder; `SpoiltBy...` are the players whose trade a change calls off, and
`CloseTrades` ends these as `internalCloseTrade` does one by one. Capacity and
free slots are a choice. *Left out*: counts of stackables, requests that first
walk to the item (the handler then starts anew, which is a later request), and
the sale of house documents.

**Party.** A `Party` object is a record under its address, so that a deleted
party's address can be used again, as the heap does. `Settle` is `disband` for
the parties that end in a handler. Distance and level are one notion, `at`: the
code tests both the same way and recomputes at the same places. `stale` marks the
two cases the code does not follow (points that grow old, the activation itself).

**Storage.** `store` has the parent of every thing, the count of each stack and
the caches of the containers and players; the handlers are built from operators
on it (`HandVerdict`, `BagVerdict` and `TileVerdict` for the three kinds of
`__queryAdd` and `__queryMaxCount`, `Laid` and `TakeWhole` for the changes). A move asks
the destination, tries an exchange when a slot says so, and then takes out and
puts in, each of which closes windows. What lies in a bag at any depth, its
weight and number come from `Nesting` and from sums over sets. `ledger` counts what
was made and destroyed on purpose. *Left out*: depots, mailboxes, trash holders, teleports,
magic fields and floor changes as destinations, hangable items, the rules about
weapons and shields in two hands, slots other than the hands and the backpack, movement
scripts, throwing range and line of sight, walking to a thing first, the order of
things in a container.

**Decay.** An item is the address of an object, so that a freed address is used
again. `entry` and `place` say which of the three lists each node is in and what
it points to; time is counted in turns of `checkDecay`. `ItemRefs` of a live
object is compared with its counter. *Left out*: removals that fail (no decaying
item of `items.xml` cannot be removed) and the order inside a bucket.

**Creatures.** Actions are the handlers between two turns and the steps of a
turn: `checkCreatures` goes through a copy of a vector and may meet creatures
that were removed, and what a creature does in its turn (walk, attack, summon,
convince) are the same operators as for players. The three vectors are one, of
which a turn takes any part: the code divides the list by time only. An object
exists while somebody holds it, which is a little earlier gone than with the
counts of the code. *Left out*: conditions and protection zones (reasons to drop
a target are a choice), invisibility, floors, passive monsters, NPCs, the friend
list (a cache that one Lua function reads), summons of summons.

**Raids.** A raid's events are numbered; what runs is a check or an event of a
raid of the n-th loading, so that an event of a deleted raid can be told. Delays,
margins and chances are choices. Executing an event of a deleted raid is
undefined and ends the model. *Left out*: what an event does to the world; a
reload from the script of a raid.

## 3. The runs

| Run | Instance | States | What it shows |
| --- | --- | --- | --- |
| `scheduler` | 3 events, delays 1-2, ids 1-2, 3 ticks | 870,000 | no lost wake-up, no stopped event runs; refines `Timer` until the wrap |
| `tasks` | 1 event, 1 job, the shutdown task, 2 ticks | 65,000 | no use after free; accepted tasks end, armed events run, shutdown ends |
| `network` | 1 connection of each of 3 kinds, 2 messages, 2 packets | 211,000 | nothing used is deleted, no lock cycle, last words sent, order of messages, closing ends |
| `session` | 3 clients, 1 character | 137,000 | links, references; logins are answered, orphans leave |
| `waitlist` | room for 2; 2 premium, 2 free, 1 privileged | 8,000 | room, nobody pushed back |
| `trade` | 3 players, box, bag, coin, 3 tiles | 50,000 | sides agree, register exact, reach, offers untouched at any depth, complete swaps, refines `Barter` |
| `storage` | 2 players, bag, box, axe, 2 stacks, 2 tiles, 3 pieces of a stack | 70,000 | caches exact, limits hold, windows in reach, nothing lost |
| `decay` | 3 addresses, 6 item types, 4 buckets of 4 units | 310,000 | references exact, nothing forgotten, on time |
| `creatures` | 1 player, 2 monsters, 3 places, a spawn, 1 summon | 626,000 | pointers and target lists good, foes seen, deaths noticed, spawn goes on |
| `party` | 3 players, 2 addresses, 2 spots | 309,000 | lists mirror each other, channel, verdict |
| `party_bonus` | same | - | *violation*, see section 6 |
| `raids` | 2 raids of 0 or 2 events, 1 reload | 510,000 | one raid with one event at a time, checks go on, raids end |

State counts are after symmetry reduction, where a run declares symmetry; the
runs with liveness properties declare none. Two runs also have a
view. In `trade` no action reads the history variable `touched` or the position
of a player who left, and the properties read only the new value of `touched` in
a step; in `creatures` `inRange` is read of summons only and set anew when a
monster becomes one.

**Why the bounds are enough.**

- *Scheduler.* Two id values and three events make the counter wrap while an
  older event with the same id is still pending, which is the case where the
  guarantees end. Three ticks let a new top arrive while the thread sleeps for
  an older deadline, and let it wake for each.
- *Tasks.* One event and one job are enough for a timer to be handed over while
  a packet is posted, stopped by the task before it, armed by the network, or cut
  off by a shutdown that flushes the rest. `MaxTime` bounds the deadlines that
  are asked for, so no armed event lies beyond the end of time.
- *Network.* Connections share nothing but the pool and the two threads: another
  one's work on these is what one connection sees as delay. Two messages let one
  wait in the pool while the other is written; `MaxCount` is above every count
  reached; `MaxReads` packets are the first and a later one.
- *Session.* A third client takes over while the second still waits for its
  connect event and the first is being released. One character: characters share
  nothing but the queue.
- *WaitList.* Three can wait at a time, with premium players before, between and
  after the others in time.
- *Trade.* Of the three tiles 0, 2 and 3, two are in reach of each other; the
  third is within a trade's distance of one of them only. The third player comes
  between two others; the box and the bag go into each other, which gives depth
  two.
- *Storage.* One player is too weak for what the other can carry, a bag holds
  one thing and the box two, so every limit is met; two stacks merge, split and
  give change. The two tiles are out of reach of each other: a player has to walk to get
  what lies on the other, and closes windows as he goes. `Curious` is the stronger player: only he opens
  windows, on what the other carries off. `MaxPieces` is one more than a full stack, so
  that one stack can be full and another begun.
- *Decay.* Loaded durations lie next to each boundary of the wheel, within one
  turn and over two. A handler begins only where an address and two nodes are free for
  what it makes (`Roomy`), so three addresses and five nodes let one item live at a
  time, and the address of one that is gone be used while its nodes are left.
- *Creatures.* Places 1 and 2 see each other, 3 nobody else. Two monsters: a
  master and a summon, or two of the wild, or one each; a caster has one summon at a
  time. Sight is symmetric, as `canSee` (`creature.cpp:121`) is on one floor; between
  floor 7 and those just below it is one-way, and floors are left out.
- *Party.* A third party needs a third player to invite somebody who is in no
  party, so two addresses cover what three players can do, reuse included.
- *Raids.* Two events make a chain; a raid that ends after one is the case of an
  event that fails. One reload leaves events of one deleted loading behind. Ids are not
  bounded: an event gets the smallest that nothing has, since ids matter only by
  being equal or not.

**Deadlock** is checked in the runs of `Trade`, `Party`, `WaitList`, `Storage`,
`Decay` and `Creatures`, where somebody can always act. Elsewhere the system
really may stop: the clocks of the task modules end at `MaxTime` and a server that
was shut down rests; in `Session` and `Network` every client may be closed with an
empty queue; a model of `Raids` ends when raids could not be loaded, or when an
event of a deleted one runs.

**Fairness.**

- `TaskSystem`: weak fairness for each thread, for calls of `addEvent` and
  `addTask` that have begun, for the end of a task and for time. Strong fairness
  for the timeout of the scheduler's wait, since spurious wake-ups disable it
  for a moment again and again. No task is obliged to arm, post, stop or shut
  down anything, and no spurious wake-up is obliged to come.
- `Network`: weak fairness for the steps of the network thread, for handlers that are
  ready, for timers and for retries of a release; strong fairness for the
  dispatcher taking a task and for sending the next message, which the other thread
  disables for a while whenever it holds the lock. A read or a write need never
  complete: the timeouts are what ends a connection.
- `Session`: weak fairness for the dispatcher, for the scheduler and for the
  periodic check of every creature. A release that is tried again is put back
  with the shortest delay, and events of other clients may be due later or
  sooner; strong fairness says that it is some time due after those that wait,
  i.e. that a tick takes time. Without it a protocol would be released for ever
  while the connect event that holds it never comes due.
- `Raids`: weak fairness for the dispatcher and for each event of the scheduler.
- Nothing is assumed of clients, players or the network.

**What some properties exclude, and why.**

- `StopHonoured`, `IdsMatchList`: events whose id was given to another one. With
  32 bits this takes 2^32 - 1 events while one is pending; the code accepts it.
- `NoUseAfterFree` speaks of `addEvent` called by a task. Called by the network
  thread, the event can be executed and deleted before `addEvent` reads its id
  (`scheduler.cpp` 152); the only such caller ignores the result but the read
  itself happens. It also leaves out ids shared after a wrap: then an older holder of
  the same number can stop the event before `addEvent` has read it.
- `AcceptedTasksEnd`, `ShutdownEnds`: two hangs of a shutdown. A flushed task
  that posts blocks the game thread on `m_taskLock`; and `Scheduler::shutdown`
  notifies nobody, so a thread in the untimed wait is never joined.
- `Network`: what `Steady` leaves out, administrators' connections. They are
  answered by the network thread while it holds the connection's lock, and each
  answer takes the pool's: the dispatcher in `sendAll` takes the two in the other
  order. This can be waited for in a circle, and the two threads change the same
  counts. The run includes such connections, and shows that the others are
  not harmed by their counts.
- `OnlyFullBuffersAreOvertaken`: a message that waits at the back of the pool's
  list is overtaken when its buffer is full and a new one begins.
- `DecaysOnTime`: an item whose `setID` came while it was on the wheel is listed
  twice and charged twice; and a ring that is taken off loses up to a turn of the
  whole wheel, since what was charged on listing is not given back.
- `NothingForgotten` of `Storage` is stated and not checked: `Player::__queryAdd`
  moves what the other hand holds to make room for a two-handed item and empties
  the slot whether or not the move succeeded (`player.cpp` 3029).
- `SwapIsComplete` excludes offers that contain containers: the search for room
  (`player.cpp` 3200) passes over the offer itself, but not over containers in an
  offer that lies in a backpack, so what comes in can be put into what goes out.
- `SharingIsCurrent` excludes `stale` records, see above.
- `EventsInOrder`: the first event of a forced raid, whose id nobody keeps
  (`talkaction.cpp` 456), and events that the dispatcher already has, outlive a
  reload; so does a check the dispatcher has, after which there are two chains
  of checks (`late`).
- `RaidsEnd`: a raid without events starts and nothing ever ends it
  (`raids.cpp` 310, `talkaction.cpp` 446): no other raid runs until a reload.
- In a trade an accept given before the other side has answered stays valid when
  it answers: the code does so, and `Barter` allows it.

## 4. The abstract specifications

`Scheduler` implements `Timer` (`ImplementsTimer`): arming is `addEvent`,
cancelling is a `stopEvent` that returned true, firing is popping an event that
is to run. The statement covers the steps made while at most `MaxEventId` ids
were generated, which is the honest limit of the contract.

`Trade` implements `Barter` (`ImplementsBarter`) with the partner, the offer, the
set of those who accepted, and the holder of each item as the view. The hooks,
the register and all distances are hidden; that the other player's things reach
nobody but by a swap of two accepted offers is what remains.

## 5. What is proved

Every theorem below is for any value of the constants that meets the assumptions
named in its module; the runs of section 3 show the same formulas on small
instances. No property is inductive alone: each component has an invariant `Inv`
(named after the component where a module has several), and it is shown that it
holds at first, is kept by every action, with one step per action and conjunct, and
implies the property.

**`Nesting_proofs`** has no specification, only what `Trade_proofs` and
`Storage_proofs` need of containers in containers and of sums, for any depth and any
finite set of things. What is around a thing is a least set, so its lemmas need no
induction: how it unfolds, that what is around the same thing is a chain, what
putting a thing somewhere changes; all need that no container lies in itself
(`Grounded`), which every move keeps because nothing may be put into what it holds.
Sums are folds of the community modules, which are recursive functions on finite
sets. The library's theorems of induction take an operator, which no prover here can
instantiate; its fact that a well-founded relation has a least element in every set
takes none, and gives an induction over the *set* of subsets that satisfy a
statement (`SetInduct`). From it follow that a sum exists and how
adding, removing or changing an element, or splitting the set, changes it.

**`TaskSystem_proofs`**, for any events, other tasks, delays and id width:

| Theorem | Statement |
| --- | --- |
| `SchedulerTypes` | type correctness |
| `NoLostWakeup` | `NoOversleep` |
| `PopAlwaysDefined` | `PopIsDefined` |
| `NoEarlyEvent` | `NeverEarly` |
| `StoppedEventsDoNotRun` | `StopHonoured` |
| `IdsAreThoseOfTheList` | `IdsMatchList` |
| `NoSharedIdBeforeWrap` | `IdsUniqueBeforeWrap` |
| `SchedulerImplementsTimer` | `ImplementsTimer` |
| `SchedulerInTheSystem` | the six invariants above, of `TaskSystem` |
| `ArmingReadsALiveTask` | `NoUseAfterFree` |
| `NoTaskWaitsBehindALostSignal` | `NoTaskOversleep` |
| `GameRunsDueEvents` | `RunsOnlyDueEvents` |
| `EventsAreNotDropped` | `TimersDoNotExpire` |

`SchedInv` adds, in layers: where a task object can be, given where its
`addEvent` call and the thread are (`LifeInv`); that when the thread wakes by
timeout, some queued event is due by the time it slept for (`WaitInv`; it is what
makes `top()` safe after the lock was released, and it holds because only the
thread itself and `shutdown` take events out); how ids, list and stopped events
relate (`IdInv`); and that until the wrap the counter equals the number of ids
given (`WrapInv`). The refinement maps each action to a step of `Timer` or a
stutter, one lemma for the hidden steps and one for those that change a single
event.

The scheduler's steps are written so that its invariant does not say who deletes an
event; in the whole system the dispatcher does, and `SystemInv` adds what that needs.
`QueueInv`: what is in the dispatcher's list or in hand was posted once, and the
events among it are handed over and not yet deleted. `CallInv`: while the game
thread is inside `addEvent`, it is the game thread that would have to run the event
and it is busy; and the scheduler would delete the event only if it was stopped,
which needs its id, which nobody has before the call returns. That is why the read
at `scheduler.cpp` 152, after the unlock, is safe for this caller, and why an id
shared after a wrap is an exception: an old holder of the same number can stop the
new event. The signal of `addTask` is treated like that of the scheduler.

**`Trade_proofs`**, for any players, items, depth of containers and map:

| Theorem | Statement |
| --- | --- |
| `TradeTypes` | type correctness; `TRADE_TRANSFER` never outlives its handler |
| `PartnersAlwaysAgree` | `PartnersAgree` |
| `RegisterIsAlwaysExact` | `RegisterIsExact`, the first half of `RegisterMatchesOffers` |
| `OffersInvariant` | the inductive invariant of what follows |
| `OffersStayInReach` | `OfferInReach` |
| `RegisterAlwaysMatches` | `RegisterMatchesOffers` |
| `OffersAreUntouched` | `OfferUntouched` |
| `SwapsAreComplete` | `SwapIsComplete` |
| `TradeImplementsBarter` | `ImplementsBarter` |

The first three are about partners and the register. `CloseTrades(S)` keeps the invariant for *any* set `S`, because partners name
each other and it ends both sides. They need nothing about where items lie
or which hooks hear what; only starting a trade and accepting one are looked at
field by field. The register is exact because a player offers only while he
offers nothing and an item is offered only while it is not registered.

The others do depend on where items lie, and use the lemmas of `Nesting_proofs`.
The argument has one idea: an offer is in reach of who
offers it, one tile, so every hook at, around or inside it, heard at two tiles,
reaches him; hence a step either ends his trade or spares his offer
(`OffersSpared`: same top, same contents, nothing touched). Reach and separation of
the offers (`OfferInReach`, `OffersApart`) are kept by that and are what it needs.
A swap is two moves; a third offer is near neither, because offers lie apart and
the rooms are those of the two players.

**`Storage_proofs`**, for any players, things, depth of containers, limits and map:

| Theorem | Statement |
| --- | --- |
| `StorageInvariant` | the inductive invariant |
| `StorageTypes` | type correctness; no cached weight or number falls below zero |
| `StorageBooks` | `BooksAgree` |
| `StorageLimits` | `LimitsHold` |
| `StorageWindows` | `WindowsInReach` |
| `StorageConserves` | `NothingLost` |

The assumptions are those of `StorageConstants`: kinds of things are apart, there
are finitely many, limits are natural numbers, and all stacks are of one kind, so
that a piece weighs the same in each. Nothing else is assumed of the map or of
how bags lie in it at first.

A handler asks, takes out and puts in, so the invariant must be stated of the
stores in between too. `Sound(s, H)` is what holds of a store `s` from which the
things `H` were taken and not put anywhere yet: parents, contents and slots agree, no
container is in itself, every container's weight and number is the sum over
what lies in it at any depth, what is nowhere is out of use and empty. `Good` adds
`Carried` and `Limits` for nothing in hand. A limit is tested against a cached number
and must hold of the true one, so books and limits are one invariant: the number
that `__queryAdd` reads is right, it is tested, the change adds what was tested. What
is remembered of a player's load is exact unless he was made to forget a thing
(`player.cpp:3029`), and then too much, never too little; `Carried` says this,
and it is what keeps the test of his strength.

Each change tells a chain of containers what came or went. A container holds at
most one member of a chain (`ChainIsThin`), so each of them gets the difference once
and all others nothing (`JoinedCounts`); taking out is the same
equation read backwards. From this each handler is a composition of
`Taken` and `PutInto`, and its conservation an equation about one sum, `Pieces`.
An exchange is two moves with a thing in hand in between; a payment removes a set of
stacks, keeps the rest, and puts the change into bags, stacks or under the feet. For
windows: what moves along with a thing is held by who holds the thing, so a move
closes the windows of those it leaves, and of nobody else it takes anything away.

**`World_proofs`** holds the proofs of three components that share no state,
parties, decay and raids; names that more than one of them uses (`Init`, `Next`) are
theirs with the component's name before them (`PartyInit`, `DecayNext`).

*Parties*, for any players, addresses and places:

| Theorem | Statement |
| --- | --- |
| `PartyInvariant` | the inductive invariant |
| `PointersMirrorLists` | `LinksAgree` |
| `RostersAreSound` | `RostersSound` |
| `ChannelsArePrivate` | `ChatIsPrivate` |
| `VerdictIsCurrent` | `SharingIsCurrent` |
| `PartyTypes` | type correctness |

Handlers change one record at a time, so what is shown is shown of a record: an
update makes its verdict current, passing the lead keeps the mates, taking
somebody out keeps the rest. `Settle`, the end of parties that have nobody left,
mends whatever was true of all but those parties, as `CloseTrades` does above.

**`Session_proofs`**, for any clients and names:

| Theorem | Statement |
| --- | --- |
| `SessionInvariant` | the inductive invariant |
| `ClientsDriveTheirOwn` | `LinksAgree` |
| `DeletedProtocolsAreForgotten` | `NothingDangles` |
| `SessionTypes` | type correctness |

The life of a client has an order: connection, login, a connect event perhaps,
close, releases, deletion. `Fits` says for each client where it stands and what
may wait for it; `InOrder` that queue and timers hold no task of it in a wrong
place; `Linked` how clients and players point at each other and what the counts
are. Queue and timers are sequences: four lemmas say what taking the first,
appending, expiring and scheduling do to what is in them.

The same module proves the waiting list, for any players, accounts and size of the
server (`Session` keeps of it only that a login may be refused):

| Theorem | Statement |
| --- | --- |
| `WaitInvariant` | the inductive invariant |
| `WaitTypes` | type correctness; the list is no longer than there are players |
| `RoomStaysKept` | `RoomIsKept` |
| `PlacesAreKept` | `NobodyPushedBack` |

The invariant is that nobody is listed twice and that premium players are ahead of
the others; both are needed, since `findClient` returns the first entry of a name
and `clientLogin` puts a premium player before the first who is none. What
`cleanUpList` leaves is described by a function from the places of the new list to
those of the old one, increasing, never forward, and onto what has not timed
out; that it exists is shown by counting from the front. Both properties
compare a place with an earlier place of the same name, which that function gives.

*Decay* (`World_proofs`), for any wheel, item types, addresses and nodes:

| Theorem | Statement |
| --- | --- |
| `ReferencesExact` | `RefsExact` |
| `DecayingItemsAreListed` | `DecayingIsListed` |
| `ItemsDecayOnTime` | `DecaysOnTime` |
| `TypesOK` | type correctness; durations stay non-negative |

A reference counter is a cardinality of nodes, so each action is shown to change
the set of nodes of an item by what it changes the counter; that a decaying item
stays listed then follows from which visits keep a node, and needs that an
item whose state says it decays has a type that can.

`DecaysOnTime` rests on an inductive invariant, `TimedInv`. An item whose time is
observed waits at exactly one node, and while it is on the wheel `Drift` relates
four numbers: the duration it started with, what is left of it, the turns it has
waited, and the turns until its node is visited again. They balance up to the
rounding of what is left, plus one interval if the `cleanup` that put it on the wheel
ran at the end of a turn and not between two (or the other way round for an item
beyond the reach of the wheel, whose first bucket is the one before). `checkDecay`
keeps the balance because it charges a whole round when it leaves the item where it
is, and rounds only once, when it moves it to its last bucket. The arithmetic of
turns (`Gap`, `GapSum`, `FirstGap`) and of rounding (`RoundingBounds`) is in lemmas of
its own, so that the products of turns and intervals stay out of the steps.

**`Creatures_proofs`**, for any players, monsters and places and any symmetric sight:

| Theorem | Statement |
| --- | --- |
| `CreaturesInvariant` | the inductive invariant |
| `AimsStayInSight` | `PointersAreGood` |
| `NoFoeIsMissed` | `WildSeeFoes` |
| `NoDeathIsMissed` | `DyingAreChecked` |
| `SpawnGoesOn` | `BlockIsWatched` |
| `CreatureTypes` | type correctness |

The invariant has a part about the world, which must hold after every hook
(`WorldInv`: who is aimed at is in sight, who sleeps has no foe), and a part about
the lists and the spawn (`RestInv`), which must hold between the steps of a turn.
The operators of the hooks are shown to keep the first for any creature they are
called for. `PointersAreGood` is proved in two parts. That of the target lists
(`TargetsGood`) must say why somebody is listed: `onCreatureLeave` takes off opponents
only, and a convinced monster may keep its new master on its list, out of sight even;
but a player who is removed takes his summons along, so none of them is left with him.

*Raids* (`World_proofs`), for any raids, sizes and number of reloads:

| Theorem | Statement |
| --- | --- |
| `RaidsInvariant` | the inductive invariant |
| `RaidsStayInOrder` | `EventsInOrder` |
| `RaidsTypes` | type correctness |

That exactly one event waits is a sum of two cardinalities, the scheduler's tasks
and the dispatcher's: the first lemmas say how arming, stopping, handing over and
running a task change it. `EventFits` says that a reload can stop what the running
raid armed itself, through the id the raid keeps, and only a forced first event
escapes; `ChecksFit` that a check whose id is not kept and that the dispatcher does
not hold is one that an earlier reload missed.

**`Network_proofs`**, for any connections, kinds of protocol, bound on packets and
finite pool of messages:

| Theorem | Statement |
| --- | --- |
| `NetworkInvariant` | the inductive invariant |
| `NothingDeletedIsUsed` | `NothingUsedIsDeleted` |
| `LocksAreNotCyclic` | `NoLockCycle` |
| `MessagesAreNotCutOff` | `LastWordsAreSent` |
| `OrderIsKept` | `OnlyFullBuffersAreOvertaken` |

The invariant has a part per question. `MsgInv`: a message is in one place (a list of
the pool, a write, the hands of the network thread, the task that gives it back, the
hands of the dispatcher), and no task gives back what is held. `ConnInv`: what state,
socket, protocol and list entry of a connection may be, given which of its three
tasks (close, release of the connection, release of the protocol) are still pending.
`CountInv`: the reference count of a connection is the number of messages it owns.
Both threads write it without a common lock, as a read and a write apart. What saves
it is that a network thread allocates only for the first packet of a client, before
any task knows him: there is no message of his to give back, so the dispatcher's
decrement cannot fall between; after that only the dispatcher counts. The same fact
is what rules out a circle of locks. Administrators have neither, and `Steady` leaves
them out: the invariant says how far their wrong counts reach, which is to
themselves only. `OrderInv`: what waits behind the buffer of a client was filled
before that buffer was taken. That a message can be put back, sent again, dropped
and returned makes the cases; four lemmas say what `Send` does with it, whoever
calls it. The finiteness of the pool is used once, to post the tasks that
give messages back as a list.

**Only model-checked**: all liveness (fairness and `ENABLED` are beyond the
prover), so also `RaidsEnd`, `LoginAnswered`, `OrphansGo`, `ClosingEnds`,
`AcceptedTasksEnd`, `ArmedEventsRun`, `ShutdownEnds`. Every invariant, and every other
property of steps or refinement, that a passing run checks is stated by a theorem.

## 6. Findings

- `party.cpp:378`: turning shared experience on does not compute whether it can
  be used; a verdict from before lets a leader who is alone with a pending
  invitation share with himself and get the bonus that a comment in the same file
  rules out (`party_bonus`).

Met while modelling, and described above where a property excludes them or a
model shows them:

- `scheduler.cpp:201`: `Scheduler::shutdown` pops and leaks pending events from a
  list that its comment says is already empty.
- `waitlist.cpp:115`: a premium player with nobody to go before is not listed and
  is told that he is at place -1.
- `talkaction.cpp:456`: a forced raid's first event cannot be stopped by a reload.
- `raids.cpp:310`: a raid without events stays the running one.
- An administrator's answers can deadlock the server (`outputmessage.cpp:98`).
- `player.cpp:3029`: a query that moves things.
- An exchange of two things may end half done, and one between two slots of
  a player is always refused; the object of a stack that was merged in part
  is not freed (`game.cpp`, `internalMoveItem` and `internalAddItem`).
- A convinced monster keeps its new master in its target list (`monster.cpp`).
- `Spawn::startup` arms no check for a spawn one of whose monsters could not
  be placed.

## 7. Not modelled, and why

- *Houses and beds.* The sale of a house enters trading by another way
  (`talkaction.cpp` `sellHouse`, `house.cpp:475`): a document is made that only a
  trade can transfer, and the checks of buyer, seller and distance are those of
  the offer; the house may have another owner, and the buyer another house, when
  the trade ends. It would be an extension of `Trade` with owners; its hazard is
  listed without a property. Beds and access lists are data.
- *Guilds, wars, bans.* Rows of tables; their consistency is that of SQL.
- *Chat and rule violations* beyond the channels of parties: maps from ids to
  users, each operation one lookup and one change.
- *Combat, spells, conditions, weapons, map, path finding.* Arithmetic and search over data;
  where they matter to the order of events (who dies, who is seen, who is
  attacked) `Creatures` takes their outcome as a choice.
- *NPCs, scripting.* What scripts do is not in this code; the bindings call the
  operations the modules have as actions.
- *Protocol parsing, persistence, start-up, configuration, tools.* Translation of
  data. A packet is the handler it calls, a saved player is gone from the game.

These are also the bulk of the lines: the bindings, parsers, formulas and loaders
outweigh the handlers by far, so that the lines the model stands for, the
state machine of the server, are a small share of all.

What could come next: the house document.

## 8. Reproducing

    tlc -config Scheduler.cfg MCScheduler.tla
    tlapm TaskSystem_proofs.tla

and likewise for the other pairs in `PROJECT.json`. The runs take from a second
to about two minutes each with two workers, each proof module a few minutes at most
(`Storage_proofs`, the longest, about five).
