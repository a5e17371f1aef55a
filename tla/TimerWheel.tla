----------------------------- MODULE TimerWheel ------------------------------
(***************************************************************************)
(* The timers of every process (engine/timer.go, engine/timerWheel/).  A   *)
(* wheel covers an interval of WheelSize buckets of TickMs milliseconds;   *)
(* later intervals have wheels of their own, linked in the order of time.  *)
(* A bucket is identified with the time at which it begins, which is       *)
(* unique: wheels begin at multiples of the interval after Start.          *)
(*                                                                         *)
(* One goroutine adds, cancels and fires timers.  The callback of a timer  *)
(* may add and cancel timers, its own included, so a tick is cut into      *)
(* steps around the callbacks.                                             *)
(***************************************************************************)
EXTENDS Integers, Sequences, FiniteSetsExt, SequencesExt

CONSTANTS
    TickMs,      \* width of a bucket
    WheelSize,   \* buckets of a wheel
    Start,       \* startMs of the first wheel: the time the process started
    MaxTimer,    \* bound: timers ever added
    Durations,   \* first delays
    Repeats,     \* repeat intervals; 0 is a timer that fires once
    Horizon,     \* bound: the latest time
    nil

ASSUME WheelAssumption ==
    /\ {TickMs, WheelSize} \subseteq Nat \ {0}
    /\ {Start, MaxTimer, Horizon} \subseteq Nat /\ Start <= Horizon
    /\ Durations \subseteq Nat /\ Repeats \subseteq Nat
    /\ nil \notin Nat

Timer == 1..MaxTimer
Interval == TickMs * WheelSize

VARIABLES
    now,         \* the clock
    last,        \* currentTime of the current or the latest tick
    wheels,      \* startMs of the linked wheels
    current,     \* startMs of TWHandler; timerMgr.tw stays at the first wheel
    queue,       \* buckets in the priority queue
    bucket,      \* the timers of the buckets that exist, in the order of Add
    expiration, repeat, bucketOf,  \* the fields of a Timer
    timerMap,    \* timers Cancel can find
    phase,       \* "idle", "fire" (inside a tick) or "callback"
    expired,     \* buckets the tick has still to look at
    firing,      \* timers of the current bucket the tick has still to look at
    addedAt,     \* history: when a timer was added
    fired,       \* history: how often its callback ran
    cancelled    \* history: timers that Cancel stopped

timers == <<expiration, repeat, bucketOf>>
wheel == <<wheels, queue, bucket>>
tick == <<last, current, phase, expired, firing>>
history == <<addedAt, fired, cancelled>>
vars == <<now, last, wheels, current, queue, bucket, expiration, repeat, bucketOf, timerMap,
          phase, expired, firing, addedAt, fired, cancelled>>

Init ==
    /\ now = Start
    /\ last = Start
    /\ wheels = {Start}
    /\ current = Start
    /\ queue = {}
    /\ bucket = << >>
    /\ expiration = << >> /\ repeat = << >> /\ bucketOf = << >>
    /\ timerMap = {}
    /\ phase = "idle"
    /\ expired = {}
    /\ firing = << >>
    /\ addedAt = << >> /\ fired = << >>
    /\ cancelled = {}

(***************************************************************************)
(* The wheels and the buckets                                              *)
(***************************************************************************)

\* wrong variant: rounds up
PriorityLate(b) == (b \div TickMs + 1) * TickMs

\* timeToPrecision: the priority of a bucket in the queue
Priority(b) == (b \div TickMs) * TickMs

\* wrong variant: counts in ticks
TruncateToTick(start, e) == start + ((e - start) \div TickMs) * TickMs

\* truncate: the multiple of the interval, counted from start, that contains e
Truncate(start, e) == start + ((e - start) \div Interval) * Interval

\* m[k] = v for a map m of the code
Assign(m, k, v) == [x \in DOMAIN m \cup {k} |-> IF x = k THEN v ELSE m[x]]

\* wrong variant: the priority queue does not get a bucket that exists already
AddNewOnly(w, t, e) ==
    LET at == Max({s \in wheels : w <= s /\ s <= e})
        in == IF e < at + Interval THEN at ELSE Truncate(at, e)
        b == in + ((e - in) \div TickMs) * TickMs
        list == IF b \in DOMAIN bucket THEN bucket[b] ELSE << >>
    IN  /\ wheels' = wheels \cup {in}
        /\ bucket' = Assign(bucket, b, Append(list, t))
        /\ queue' = IF b \in DOMAIN bucket THEN queue ELSE queue \cup {b}
        /\ bucketOf' = Assign(bucketOf, t, b)

\* TimerWheel.add, from wheel w: follow the overflow wheels as far as the next one
\* is not later than e; if e is behind the last of these, link a new wheel there.
\* Bucket.Add appends t and leaves t where else it may still be listed.
Add(w, t, e) ==
    LET at == Max({s \in wheels : w <= s /\ s <= e})
        in == IF e < at + Interval THEN at ELSE Truncate(at, e)
        b == in + ((e - in) \div TickMs) * TickMs
        list == IF b \in DOMAIN bucket THEN bucket[b] ELSE << >>
    IN  /\ wheels' = wheels \cup {in}
        /\ bucket' = Assign(bucket, b, Append(list, t))
        /\ queue' = queue \cup {b}
        /\ bucketOf' = Assign(bucketOf, t, b)

\* Timer.Stop: Bucket.remove takes out t.element, the one that Add appended last
Stop(t) ==
    LET b == bucketOf[t] IN
    IF b = nil
    THEN UNCHANGED <<bucket, bucketOf>>
    ELSE /\ bucket' = [bucket EXCEPT ![b] = RemoveAt(@, SelectLastInSeq(@, LAMBDA x : x = t))]
         /\ bucketOf' = [bucketOf EXCEPT ![t] = nil]

(***************************************************************************)
(* timerMgr                                                                *)
(***************************************************************************)

\* tasks, messages and callbacks run on the goroutine of the tick
Running == phase \in {"idle", "callback"}

\* AddTimer -> addTimer: from the first wheel on
AddTimer(d, r) ==
    LET t == Len(expiration) + 1 IN
    /\ Running
    /\ t <= MaxTimer
    /\ expiration' = Append(expiration, now + d)
    /\ repeat' = Append(repeat, r)
    /\ Add(Start, t, now + d)
    /\ timerMap' = timerMap \cup {t}
    /\ addedAt' = Append(addedAt, now)
    /\ fired' = Append(fired, 0)
    /\ UNCHANGED <<now, tick, cancelled>>

\* Cancel
Cancel(t) ==
    /\ Running
    /\ t \in timerMap
    /\ Stop(t)
    /\ timerMap' = timerMap \ {t}
    /\ cancelled' = cancelled \cup {t}
    /\ UNCHANGED <<now, tick, wheels, queue, expiration, repeat, addedAt, fired>>

(***************************************************************************)
(* HandleMainTick                                                          *)
(***************************************************************************)

\* GetExpiredAndShift: the buckets that are due leave the queue
GetExpiredAndShift(time) ==
    LET due == {b \in queue : Priority(b) <= time} IN
    /\ expired' = due
    /\ queue' = queue \ due

\* a tick begins with the current wheel
HandleMainTick ==
    /\ phase = "idle"
    /\ last < now
    /\ last' = now
    /\ GetExpiredAndShift(now)
    /\ phase' = "fire"
    /\ UNCHANGED <<now, wheels, current, bucket, timers, timerMap, firing, history>>

\* GetTimers: a copy of the list of the next bucket; they come in the order of
\* their priorities, which is that of their times
GetTimers ==
    /\ phase = "fire"
    /\ firing = << >> /\ expired # {}
    /\ firing' = bucket[Min(expired)]
    /\ expired' = expired \ {Min(expired)}
    /\ UNCHANGED <<now, last, wheel, current, timers, timerMap, phase, history>>

\* onTimeout of a timer that was cancelled or has been stopped meanwhile
SkipStopped ==
    /\ phase = "fire"
    /\ firing # << >>
    /\ bucketOf[Head(firing)] = nil
    /\ firing' = Tail(firing)
    /\ UNCHANGED <<now, last, wheel, current, timers, timerMap, phase, expired, history>>

\* onTimeout calls the callback
Callback ==
    /\ phase = "fire"
    /\ firing # << >>
    /\ bucketOf[Head(firing)] # nil
    /\ phase' = "callback"
    /\ fired' = [fired EXCEPT ![Head(firing)] = @ + 1]
    /\ UNCHANGED <<now, last, wheel, current, timers, timerMap, expired, firing, addedAt,
                   cancelled>>

\* wrong variant: a repeating timer is added again without a second look at its bucket
RepeatUnchecked(t) ==
    LET e == IF expiration[t] + repeat[t] < current THEN current ELSE expiration[t] + repeat[t] IN
    /\ repeat[t] > 0
    /\ expiration' = [expiration EXCEPT ![t] = e]
    /\ Add(current, t, e)

\* a repeating timer is added again, from the current wheel on, unless its own
\* callback has cancelled it
Repeat(t) ==
    LET e == IF expiration[t] + repeat[t] < current THEN current ELSE expiration[t] + repeat[t] IN
    /\ repeat[t] > 0 /\ bucketOf[t] # nil
    /\ expiration' = [expiration EXCEPT ![t] = e]
    /\ Add(current, t, e)

\* the other timers are stopped
Finish(t) ==
    /\ repeat[t] = 0 \/ bucketOf[t] = nil
    /\ Stop(t)
    /\ UNCHANGED <<expiration, wheels, queue>>

\* the callback returns to onTimeout
CallbackReturns ==
    /\ phase = "callback"
    /\ Repeat(Head(firing)) \/ Finish(Head(firing))
    /\ phase' = "fire"
    /\ firing' = Tail(firing)
    /\ UNCHANGED <<now, last, current, repeat, timerMap, expired, history>>

\* the overflow wheel the clock has reached, if the current wheel is over
Reached == {s \in wheels : current + Interval <= last /\ current < s /\ s <= last}

\* HandleMainTick goes on to the overflow wheel and looks at the queue again
NextWheel ==
    /\ phase = "fire"
    /\ firing = << >> /\ expired = {}
    /\ Reached # {}
    /\ current' = Min(Reached)
    /\ GetExpiredAndShift(last)
    /\ UNCHANGED <<now, last, wheels, bucket, timers, timerMap, phase, firing, history>>

TickEnds ==
    /\ phase = "fire"
    /\ firing = << >> /\ expired = {}
    /\ Reached = {}
    /\ phase' = "idle"
    /\ UNCHANGED <<now, last, wheel, current, timers, timerMap, expired, firing, history>>

\* time passes, inside callbacks too
Advance ==
    /\ Running
    /\ now < Horizon
    /\ now' = now + 1
    /\ UNCHANGED <<tick, wheel, timers, timerMap, history>>

Next ==
    \/ \E d \in Durations, r \in Repeats : AddTimer(d, r)
    \/ \E t \in timerMap : Cancel(t)
    \/ HandleMainTick \/ GetTimers \/ SkipStopped \/ Callback \/ CallbackReturns
    \/ NextWheel \/ TickEnds \/ Advance

Spec == Init /\ [][Next]_vars
-----------------------------------------------------------------------------
(***************************************************************************)
(* Properties                                                              *)
(***************************************************************************)

Added == DOMAIN expiration
Live == {t \in Added : bucketOf[t] # nil}

\* Type invariant of the wheels, the buckets and the tick.
TypeOK ==
    /\ now \in Start..Horizon /\ last \in Start..now
    /\ current \in wheels
    /\ \A s \in wheels : s >= Start /\ (s - Start) % Interval = 0
    /\ queue \subseteq DOMAIN bucket
    /\ \A b \in DOMAIN bucket : (b - Start) % TickMs = 0 /\ bucket[b] \in Seq(Added)
    /\ \A t \in Added : bucketOf[t] \in DOMAIN bucket \cup {nil}
    /\ timerMap \subseteq Added /\ cancelled \subseteq Added
    /\ phase \in {"idle", "fire", "callback"}
    /\ expired \subseteq DOMAIN bucket /\ firing \in Seq(Added)

\* No timer is forgotten: a timer that is neither cancelled nor finished is in the
\* bucket it points to, and that bucket is in the queue, or the tick in progress
\* has still to look at it.  (Callbacks add timers to buckets that the tick has
\* taken out of the queue already.)
NoTimerForgotten ==
    \A t \in Live :
        /\ \E i \in DOMAIN bucket[bucketOf[t]] : bucket[bucketOf[t]][i] = t
        /\ \/ bucketOf[t] \in queue
           \/ bucketOf[t] \in expired
           \/ \E i \in DOMAIN firing : firing[i] = t

\* A timer that Cancel has stopped is gone for good: it is in no bucket under a
\* name that the tick would fire, even if its own callback cancelled it.
CancelledIsGone == cancelled \cap Live = {}

\* A timer without repeat interval runs once, although its bucket may be taken from
\* the queue several times, and not late: after a tick no such timer is left that
\* was set before the tick and whose time had come.
OnceAndOnTime ==
    \A t \in Added : repeat[t] = 0 =>
        /\ fired[t] <= 1
        /\ phase = "idle" /\ t \in Live => expiration[t] > last \/ addedAt[t] >= last

\* A repeating timer keeps to its interval: its callback does not run two ticks or
\* more before the expiration that its previous run has set.  (A bucket is taken
\* from the queue less than two ticks before the time of any timer in it.)
RepeatKeepsInterval ==
    phase = "callback" /\ repeat[Head(firing)] > 0
        => last > expiration[Head(firing)] - 2 * TickMs
=============================================================================
