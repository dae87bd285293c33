------------------------------ MODULE Schedules ------------------------------
(***************************************************************************)
(* The schedule registry (system/events/schedule-registry.ts) and the      *)
(* history of the event bus it fires through (system/events/event-bus.ts). *)
(*                                                                         *)
(* tick() awaits the callbacks one by one and goes on with the time at     *)
(* which it began, over a Map that calls made meanwhile may have changed:  *)
(* an iteration meets what is registered while it runs, and not what is    *)
(* unregistered before it gets there.  Map keeps the registrations in      *)
(* order, those that were deleted included.                                *)
(***************************************************************************)
EXTENDS Naturals, Sequences, SequencesExt

CONSTANTS Ids, Disabled,      \* the schedules, and those that are not enabled
          IntervalMs,         \* [Ids -> Nat]
          Ticks,              \* the calls of tick()
          MaxRegistrations, MaxTime,
          MaxHistory          \* of the bus

ASSUME SchedulesAssumption ==
  /\ Disabled \subseteq Ids /\ IntervalMs \in [Ids -> Nat \ {0}]
  /\ MaxRegistrations \in Nat /\ MaxTime \in Nat /\ MaxHistory \in Nat \ {0}

VARIABLES
  clock,      \* 1 .. MaxTime
  schedules,  \* the registrations: id, lastFiredMs, fireCount, deleted, and, as history,
              \* since: when the oldest call of tick() that can fire it began
  tick,       \* a call: its step, its time, its place in the Map
  sequence,   \* the next sequence number of the bus
  history     \* the last MaxHistory events

scheduleVars == <<clock, schedules, tick, sequence, history>>

SchedulesInit ==
  /\ clock = 1
  /\ schedules = <<>>
  /\ tick = [k \in Ticks |-> [pc |-> "new", nowMs |-> 0, next |-> 1]]
  /\ sequence = 0 /\ history = <<>>

Registered(id) ==
  {i \in DOMAIN schedules : schedules[i].id = id /\ ~schedules[i].deleted}

\* The times at which the calls under way began, and now.
TicksBegan == {clock} \cup {tick[k].nowMs : k \in {l \in Ticks : tick[l].pc = "callback"}}

\* register() refuses an id that is there.
Register(id) ==
  /\ Registered(id) = {} /\ Len(schedules) < MaxRegistrations
  /\ \E since \in TicksBegan :
       /\ \A nowMs \in TicksBegan : since <= nowMs
       /\ schedules' = Append(schedules, [id |-> id, lastFiredMs |-> 0, fireCount |-> 0,
                                          deleted |-> FALSE, since |-> since])
  /\ UNCHANGED <<clock, tick, sequence, history>>

Unregister(id) ==
  /\ Registered(id) # {}
  /\ schedules' = [i \in DOMAIN schedules |->
       IF i \in Registered(id) THEN [schedules[i] EXCEPT !.deleted = TRUE] ELSE schedules[i]]
  /\ UNCHANGED <<clock, tick, sequence, history>>

TimeGoesOn ==
  /\ clock < MaxTime
  /\ clock' = clock + 1
  /\ UNCHANGED <<schedules, tick, sequence, history>>

\* The time of the call may lie before the last firing.
Due(i, nowMs) ==
  \/ schedules[i].lastFiredMs = 0
  \/ nowMs >= schedules[i].lastFiredMs + IntervalMs[schedules[i].id]

\* emit(): numbered, and the oldest event gives way.
Emit(events) ==
  LET Numbered == [n \in DOMAIN events |-> [events[n] EXCEPT !.sequence = sequence + n - 1]]
      all      == history \o Numbered
  IN /\ sequence' = sequence + Len(events)
     /\ history' = IF Len(all) > MaxHistory
                   THEN SubSeq(all, Len(all) - MaxHistory + 1, Len(all)) ELSE all

\* An event of a registration carries the time at which it is emitted; count is
\* what getFireCount() says then, and what the taskId of a failure ends in.
Event(type, i, count) == [type |-> type, sequence |-> 0, of |-> i, at |-> clock, count |-> count]

\* Mutant of Fired: the schedule is marked by its callback, which the next tick
\* does not wait for.
FiredNotMarked(i, nowMs) == [schedules EXCEPT ![i].fireCount = @ + 1]

Fired(i, nowMs) ==
  [schedules EXCEPT ![i].lastFiredMs = nowMs, ![i].fireCount = @ + 1]

\* The loop of tick(), from a place in the Map to the next callback or to the
\* end, after the events it has to report first.
GoOn(k, nowMs, place, first) ==
  LET Following == {i \in place .. Len(schedules) :
                      /\ ~schedules[i].deleted /\ schedules[i].id \notin Disabled
                      /\ Due(i, nowMs)}
  IN IF Following = {}
     THEN /\ tick' = [tick EXCEPT ![k] = [pc |-> "done", nowMs |-> nowMs, next |-> place]]
          /\ Emit(first)
          /\ UNCHANGED schedules
     ELSE LET i == CHOOSE j \in Following : \A l \in Following : j <= l IN
          /\ schedules' = Fired(i, nowMs)
          /\ Emit(Append(first, Event("SCHEDULE_FIRED", i, schedules[i].fireCount + 1)))
          /\ tick' = [tick EXCEPT ![k] = [pc |-> "callback", nowMs |-> nowMs, next |-> i + 1]]

StartTick(k) ==
  /\ tick[k].pc = "new"
  /\ GoOn(k, clock, 1, <<>>)
  /\ UNCHANGED clock

\* The callback is back, or has failed, which is an event: another call may have
\* fired the same schedule meanwhile, and then the count is not the one of this firing.
CallbackEnds(k) ==
  /\ tick[k].pc = "callback"
  /\ LET i == tick[k].next - 1 IN
       \E failed \in {<<>>, <<Event("TASK_FAILED", i, schedules[i].fireCount)>>} :
         GoOn(k, tick[k].nowMs, tick[k].next, failed)
  /\ UNCHANGED clock

SchedulesNext ==
  \/ \E id \in Ids : Register(id) \/ Unregister(id)
  \/ \E k \in Ticks : StartTick(k) \/ CallbackEnds(k)
  \/ TimeGoesOn

-----------------------------------------------------------------------------
(* Properties.                                                             *)

\* However calls of tick() overlap and are late, a registration keeps the pace of
\* its interval on the clock that the events are stamped by (event-bus.ts:66): the
\* n-th firing is not told before n - 1 intervals have gone by since the oldest call
\* that could fire it began.  Two firings may be told less than an interval apart,
\* several even at once, when calls go on at the times they began after the
\* callbacks they awaited (schedule-registry.ts:65); they never get ahead.
FiringsKeepPace ==
  \A n \in DOMAIN history :
    LET event == history[n]
        entry == schedules[event.of]
    IN event.at >= entry.since + (event.count - 1) * IntervalMs[entry.id]

=============================================================================
