------------------------------- MODULE Alarms -------------------------------
(***************************************************************************)
(* Alarms of the HAL: alt_alarm_start.c, alt_tick.c and the linked lists   *)
(* of alt_llist.h they are kept in.                                        *)
(*                                                                         *)
(* The tick counter has 32 bits and rolls over.  An alarm whose time lies  *)
(* beyond the end of the counter carries a flag until then.  alt_tick runs *)
(* at interrupt level, over the whole list, and calls back what has        *)
(* expired; a callback may start another alarm or stop it, and says when   *)
(* it wants to be called again.                                            *)
(***************************************************************************)
EXTENDS Naturals

CONSTANTS
    ALARMS,     \* the alarms there are
    HEAD,       \* &alt_alarm_list, not one of them
    WRAP        \* values of the tick counter, 2^32 in the code

ASSUME AlarmsAssumption == HEAD \notin ALARMS /\ WRAP \in Nat \ {0}

VARIABLES
    next, previous,     \* of the list's head and of each alarm
    time, rollover,     \* of each alarm
    nticks,             \* _alt_nticks
    tick,               \* the alarm alt_tick is at, and its local next; HEAD when it is over
    due                 \* ticks until an alarm should be called back, as its owner counts

alarmVars == <<next, previous, time, rollover, nticks, tick, due>>

Links == {HEAD} \union ALARMS
Listed(a) == next[a] # a

AlarmsInit ==
    /\ next = [l \in Links |-> l] /\ previous = [l \in Links |-> l]
    /\ time = [a \in ALARMS |-> 0] /\ rollover = [a \in ALARMS |-> FALSE]
    /\ nticks = 0 /\ tick = [alarm |-> HEAD, next |-> HEAD]
    /\ due = [a \in ALARMS |-> 0]

Insert(n, p, a) ==
    /\ previous' = [p EXCEPT ![a] = HEAD, ![n[HEAD]] = a]
    /\ next' = [n EXCEPT ![a] = n[HEAD], ![HEAD] = a]

\* A removed entry points to itself.
UnlinkedAlone(n, p, a) == [n EXCEPT ![a] = a]
Unlinked(n, p, a) == [[n EXCEPT ![p[a]] = n[a]] EXCEPT ![a] = a]
Remove(a) ==
    /\ next' = Unlinked(next, previous, a)
    /\ previous' = Unlinked(previous, next, a)

\* A time some ticks later, in 32 bits, and whether the counter rolls over before it.
Later(t, n) == (t + n) % WRAP
RollsNever(t) == FALSE
Rolls(t) == t < nticks

\* alt_alarm_start: an alarm that is in the list already must not be started again.  The
\* longest time is not asked for: its time would be the present one.
Start(a) ==
    \E n \in 0 .. WRAP - 2 :
      /\ ~ Listed(a)
      /\ time' = [time EXCEPT ![a] = Later(nticks, n + 1)]
      /\ rollover' = [rollover EXCEPT ![a] = Rolls(time'[a])]
      /\ Insert(next, previous, a)
      /\ due' = [due EXCEPT ![a] = n + 1]

Stop(a) == Remove(a) /\ due' = [due EXCEPT ![a] = 0] /\ UNCHANGED <<time, rollover>>

\* The program, with interrupts off.
Program ==
    /\ tick.alarm = HEAD
    /\ \E a \in ALARMS : Start(a) \/ Stop(a)
    /\ UNCHANGED <<nticks, tick>>

----------------------------------------------------------------------------
(* alt_tick                                                                 *)

Begin ==
    /\ tick.alarm = HEAD /\ next[HEAD] # HEAD
    /\ nticks' = (nticks + 1) % WRAP
    /\ tick' = [alarm |-> next[HEAD], next |-> next[next[HEAD]]]
    /\ due' = [a \in ALARMS |-> IF Listed(a) THEN due[a] - 1 ELSE 0]
    /\ UNCHANGED <<next, previous, time, rollover>>

Empty ==
    /\ tick.alarm = HEAD /\ next[HEAD] = HEAD
    /\ nticks' = (nticks + 1) % WRAP
    /\ UNCHANGED <<next, previous, time, rollover, tick, due>>

\* The flag is cleared when the counter is 0.
Flag(a) == rollover[a] /\ nticks # 0
Expired(a) == time[a] <= nticks /\ ~ Flag(a)

\* The local next is read before the callback runs.
Goto(a) == tick' = [alarm |-> a, next |-> next'[a]]

Skip ==
    /\ tick.alarm # HEAD /\ ~ Expired(tick.alarm)
    /\ rollover' = [rollover EXCEPT ![tick.alarm] = Flag(tick.alarm)]
    /\ UNCHANGED <<next, previous, time, nticks, due>>
    /\ Goto(tick.next)

\* What a callback may do before it returns.  It must not stop the very next alarm of the
\* list: the loop would go on with an entry that points to itself.
InCallBack ==
    /\ tick.alarm # HEAD /\ Expired(tick.alarm)
    /\ \E a \in ALARMS : (a # tick.alarm /\ Start(a)) \/ (a # tick.next /\ Listed(a) /\ Stop(a))
    /\ UNCHANGED <<nticks, tick>>

\* The callback returns the time until it is to be called again.
Again(a, n) ==
    /\ time' = [time EXCEPT ![a] = Later(time[a], n)]
    /\ rollover' = [rollover EXCEPT ![a] = Rolls(time'[a])]
    /\ due' = [due EXCEPT ![a] = n]
    /\ UNCHANGED <<next, previous>>

\* 0 deactivates the alarm.
CallBack ==
    /\ tick.alarm # HEAD /\ Expired(tick.alarm)
    /\ Stop(tick.alarm) \/ \E n \in 1 .. WRAP - 1 : Again(tick.alarm, n)
    /\ Goto(tick.next)
    /\ UNCHANGED nticks

AlarmsNext == Program \/ Begin \/ Empty \/ Skip \/ InCallBack \/ CallBack

AlarmsSpec == AlarmsInit /\ [][AlarmsNext]_alarmVars

\* alt_tick goes on; the clock need not.
AlarmsFairSpec == AlarmsSpec /\ WF_alarmVars(Skip \/ CallBack)

----------------------------------------------------------------------------
(* Properties                                                               *)

AlarmsTypeOK ==
    /\ next \in [Links -> Links] /\ previous \in [Links -> Links]
    /\ time \in [ALARMS -> 0 .. WRAP - 1] /\ rollover \in [ALARMS -> BOOLEAN]
    /\ nticks \in 0 .. WRAP - 1
    /\ tick \in [alarm : Links, next : Links]
    /\ due \in [ALARMS -> 0 .. WRAP - 1]

\* The links are the same in both directions, and who follows them from the head comes by
\* every alarm of the list: whatever set holds the head, and with a link its next, holds them.
Ring ==
    /\ \A l \in Links : previous[next[l]] = l
    /\ \A S \in SUBSET Links :
         HEAD \in S /\ (\A l \in S : next[l] \in S) => \A a \in ALARMS : Listed(a) => a \in S

\* The links stay one ring through the head, whatever is started and stopped from the
\* program and from callbacks in the middle of alt_tick.
OneRing == AlarmsTypeOK /\ Ring

\* No alarm is called back before the ticks asked for have elapsed, also when its time
\* lies beyond the end of the counter ("to prevent premature alarm").
NeverEarly ==
    \A a \in ALARMS : tick.alarm = a /\ Listed(a) /\ Expired(a) => due[a] = 0

\* And none later: when alt_tick is over, every alarm of the list still has time to go.
NeverLate == tick.alarm = HEAD => \A a \in ALARMS : Listed(a) => due[a] > 0

\* Every alarm is called back in the tick it has asked for.
OnTime == NeverEarly /\ NeverLate

\* alt_tick comes to the end of the list.
TickUnderWay == tick.alarm # HEAD
TickEnds == TickUnderWay ~> ~ TickUnderWay
=============================================================================
