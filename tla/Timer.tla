------------------------------- MODULE Timer -------------------------------
(***************************************************************************)
(* The timer (devices/timer.c): the tick counter that its interrupt        *)
(* advances, the threads that sleep for a number of ticks or a time by     *)
(* looking at it again and again, and the calibration of the busy loop.    *)
(*                                                                         *)
(* Time passes in steps of which TICK make a tick.  The interrupt          *)
(* controller holds one interrupt while interrupts are off: a second tick  *)
(* is lost.                                                                *)
(***************************************************************************)
EXTENDS Integers, FiniteSetsExt

CONSTANTS
    Sleeper,       \* BOUND: threads that sleep
    TICK,          \* steps of a tick; DENOM of them make the unit of real_time_sleep
    DENOM,
    MaxTime,       \* BOUND: steps of a behaviour
    MaxSleep,      \* BOUND: ticks and time of a sleep
    TEST_BITS,     \* bits that timer_calibrate refines
    MaxPower       \* BOUND: powers of two it tries

ASSUME TimerAssumption == {TICK, DENOM} \subseteq Nat \ {0} /\ {MaxTime, MaxSleep, TEST_BITS, MaxPower} \subseteq Nat

VARIABLES
    time,          \* steps since the timer was set up
    ticks,         \* ticks counted
    intrOn,        \* interrupts are on
    tickPending,   \* the interrupt controller holds a tick
    naps,          \* the sleep of each thread: timer_sleep's start and ticks, and when it began
    rested         \* the sleep that just ended, and when

tmVars == <<time, ticks, intrOn, tickPending, naps, rested>>

Awake == [start |-> 0, ticks |-> 0, began |-> 0]
Asleep(t) == naps[t].ticks > 0

\* A step of time; timer_interrupt runs as soon as interrupts are on.
TimePasses ==
    LET due == (time + 1) % TICK = 0 IN
    /\ time < MaxTime /\ time' = time + 1
    /\ IF intrOn THEN ticks' = (IF due THEN ticks + 1 ELSE ticks) /\ UNCHANGED tickPending
       ELSE tickPending' = (tickPending \/ due) /\ UNCHANGED ticks
    /\ UNCHANGED <<intrOn, naps, rested>>

\* A thread turns interrupts off for a while, as timer_ticks itself does.
IntrDisable == intrOn /\ intrOn' = FALSE /\ UNCHANGED <<time, ticks, tickPending, naps, rested>>
IntrEnable ==
    /\ ~intrOn /\ intrOn' = TRUE
    /\ ticks' = (IF tickPending THEN ticks + 1 ELSE ticks) /\ tickPending' = FALSE
    /\ UNCHANGED <<time, naps, rested>>

timer_elapsed(then) == ticks - then

\* timer_sleep of at least a tick, and its turn of the loop between two yields.
timer_sleep(t, n) ==
    /\ intrOn /\ ~Asleep(t) /\ n > 0
    /\ naps' = [naps EXCEPT ![t] = [start |-> ticks, ticks |-> n, began |-> time]]
    /\ UNCHANGED <<time, ticks, intrOn, tickPending, rested>>
Look(t) ==
    /\ intrOn /\ Asleep(t) /\ timer_elapsed(naps[t].start) >= naps[t].ticks
    /\ rested' = [nap |-> naps[t], ended |-> time] /\ naps' = [naps EXCEPT ![t] = Awake]
    /\ UNCHANGED <<time, ticks, intrOn, tickPending>>

\* real_time_sleep: num of the unit in ticks, rounded down; a delay in the busy
\* loop when that is none.
InTicks(num) == (num * DENOM) \div TICK
real_time_sleep(t, num) == timer_sleep(t, InTicks(num))

TimerInit ==
    /\ time = 0 /\ ticks = 0 /\ intrOn = TRUE /\ tickPending = FALSE
    /\ naps = [t \in Sleeper |-> Awake] /\ rested = [nap |-> Awake, ended |-> 0]
TimerNext ==
    \/ TimePasses \/ IntrDisable \/ IntrEnable
    \/ \E t \in Sleeper : Look(t) \/ \E n \in 1 .. MaxSleep : timer_sleep(t, n) \/ real_time_sleep(t, n)

----------------------------------------------------------------------------
(* timer_calibrate, for a machine that runs perTick loops in a tick, at    *)
(* least 2^(TEST_BITS + 1): the highest power of two that fits, then the   *)
(* TEST_BITS bits below it, each of them tried with the highest bit alone. *)

too_many_loops(loops, perTick) == loops > perTick
high_bit(perTick) == Max({2^i : i \in {j \in TEST_BITS + 1 .. MaxPower : ~too_many_loops(2^j, perTick)}})
timer_calibrate(perTick) ==
    LET high == high_bit(perTick)
        test_bits == {high \div 2^i : i \in 1 .. TEST_BITS}
    IN  high + SumSet({bit \in test_bits : ~too_many_loops(high + bit, perTick)})

\* Never fewer loops than the machine runs in a tick, to the last bit refined,
\* and a third too many at most.  No more than fit in a tick (timer.c:51-52) only
\* where every bit below the first of the rest is set: each bit is tried with
\* high_bit, not with the bits found before it (:61-63).
CalibrationRight ==
    \A perTick \in 2^(TEST_BITS + 1) .. 2^(MaxPower + 1) - 1 :
      LET loops == timer_calibrate(perTick)
          high  == high_bit(perTick)
          low   == high \div 2^TEST_BITS
          exact == perTick - (perTick % low)
      IN  /\ exact <= loops /\ 3 * loops <= 4 * perTick
          /\ loops = exact <=> \E k \in 0 .. TEST_BITS : exact = high + (2^k - 1) * low
          /\ too_many_loops(loops, perTick) <=> loops # exact

(***************************************************************************)
(* A sleep ends after its ticks at the earliest, which may be up to one    *)
(* tick less of time: the first of them may be about to come; the ticks    *)
(* counted never run ahead of the time; and timer_calibrate is right for   *)
(* some machines and up to a third too high for the others, although its   *)
(* comment bounds it by one tick (timer.c:51, 62, 95, 173, 220).           *)
(***************************************************************************)
TimerRight ==
    /\ TICK * ticks <= time
    /\ time = 0 => CalibrationRight
    /\ rested.ended - rested.nap.began > TICK * (rested.nap.ticks - 1)
    /\ \A t \in Sleeper : Asleep(t) => naps[t].start * TICK <= naps[t].began
=============================================================================
