------------------------------- MODULE PkTime -------------------------------
(***************************************************************************)
(* PaRTiKle's timers, port/time.c, on top of XtratuM's: every thread has   *)
(* one to sleep with and creates others that send it a signal.  They are   *)
(* in a heap of their own, and update_hwtimer asks XtratuM, by             *)
(* set_timer_sys, for one event: when the first of them expires.  The      *)
(* event comes back as PaRTiKle's clock interrupt.                         *)
(*                                                                         *)
(* PaRTiKle is in the domain RT, the highest, so an event reaches it as    *)
(* soon as its events are on.  They are off in update_hwtimer; they are on *)
(* wherever a thread is left in `at', between arming a timer and           *)
(* update_hwtimer too.  The hardware timer interrupts when it was told to, *)
(* as in XmTimer: threads that compute with hardware interrupts off, which *)
(* XtratuM leaves off, are left out.  Signals are not masked, a timer is   *)
(* used by the thread that created it, and threads do not exit.  The clock *)
(* is the monotonic one.  Requests of other domains are left to XmTimer.   *)
(***************************************************************************)
EXTENDS PkKernel, XmTimer

CONSTANTS
  RT,          (* PaRTiKle's domain                                        *)
  PosixTimers, (* timers that timer_create hands out                       *)
  PkMin,       (* get_min_interval_xmtimer                                 *)
  Naps,        (* what threads sleep, and the it_value of their timers     *)
  Rounds       (* it_interval of their timers; 0: once                     *)

Timers == Threads \cup PosixTimers

ASSUME TimeAssumption ==
  /\ RT \in Doms \ {Linux} /\ PkMin \in Nat \ {0}
  /\ Naps \subseteq Nat \ {0} /\ Rounds \subseteq Nat
  /\ Threads \cap PosixTimers = {} /\ None \notin Timers

VARIABLES
  queue,    (* timer_heap: the timers in it with timer_value and           *)
            (* timer_interval; those in `armed' are TIMER_ARMED            *)
  twice,    (* history: a timer has been put into the heap twice           *)
  loose,    (* history: a timer has been taken out of a heap of six or     *)
            (* more, from anywhere in it, which may cost the heap its      *)
            (* order as in XtratuM's                                       *)
  owner,    (* owner of each timer, Idle if it is not TIMER_IN_USE         *)
  event,    (* RT's timer event is pending                                 *)
  updating, (* who has called update_hwtimer: "sleep", "set", "irq", "no"  *)
  acted,    (* its `action'                                                *)
  waiting   (* threads in sem_wait for a semaphore that the interrupt      *)
            (* handler of a device posts                                   *)

ptimer == <<queue, twice, loose, owner, armed>>
timeVars == <<kernel, vars, ptimer, event, updating, acted, waiting>>

(* RT's own code, or that of its kernel with events on.  Behaviours of RT  *)
(* end where a timer is in the heap twice: a thread that a signal has      *)
(* woken before its time sleeps again; and where the heap may be out of    *)
(* order.                                                                  *)
InRT == ~handling /\ updating = "no" /\ ~twice /\ ~loose

(* HEAP_min: any of those that expire first.                               *)
First == {q \in queue : \A r \in queue : q.value <= r.value}
DueNow == {q \in First : q.value <= now}

Without(k) == {q \in queue : q.timer # k}

(* HEAP_remove_element, for a timer that is in the heap or not.            *)
TakeOut(k) ==
  /\ queue' = Without(k)
  /\ loose' = (loose \/ (Without(k) # queue /\ Cardinality(queue) >= 6))

-----------------------------------------------------------------------------
(* Mutant: a timer that is done stays marked as armed.                     *)
UpdateActUnmarked ==
  /\ ~handling /\ updating # "no"
  /\ \E q \in DueNow :
       /\ sched' = Activated(sched, owner[q.timer])
       /\ queue' = IF q.interval > 0
                   THEN (queue \ {q}) \cup {[q EXCEPT !.value = q.interval + now]}
                   ELSE queue \ {q}
  /\ acted' = TRUE
  /\ UNCHANGED <<current, at, armed, twice, loose, owner, event, updating, waiting, vars>>

(* update_hwtimer, with events off.  One iteration: the first timer is due *)
(* and acts, which activates its owner either way, and is inserted again   *)
(* if it is periodic.                                                      *)
UpdateAct ==
  /\ ~handling /\ updating # "no"
  /\ \E q \in DueNow :
       /\ sched' = Activated(sched, owner[q.timer])
       /\ \/ /\ q.interval > 0
             /\ queue' = (queue \ {q}) \cup {[q EXCEPT !.value = q.interval + now]}
             /\ UNCHANGED armed
          \/ /\ q.interval = 0
             /\ queue' = queue \ {q} /\ armed' = armed \ {q.timer}
  /\ acted' = TRUE
  /\ UNCHANGED <<current, at, twice, loose, owner, event, updating, waiting, vars>>

(* What follows: sleep_for goes on to scheduling(), timer_settime returns, *)
(* and clock_handler calls scheduling() if a timer has acted.              *)
Updated ==
  /\ updating' = "no" /\ acted' = FALSE
  /\ \/ updating = "sleep" /\ Proceed(sched, <<"slept">>)
     \/ updating = "set" /\ Proceed(sched, User)
     \/ /\ updating = "irq"
        /\ current' = IF acted THEN HeadOfHighest(sched) ELSE current
        /\ UNCHANGED <<sched, at>>

(* set_hwtimer_xmtimer, for the first timer.                               *)
AskXtratuM ==
  \/ queue = {} /\ UNCHANGED vars
  \/ \E q \in First :
       SetTimer(RT, IF q.value - now < PkMin THEN PkMin ELSE q.value - now, 0)

(* Mutant: XtratuM is asked only when a timer has acted.                   *)
UpdateEndIfActed ==
  /\ ~handling /\ updating # "no" /\ DueNow = {}
  /\ IF acted THEN AskXtratuM ELSE UNCHANGED vars
  /\ Updated
  /\ UNCHANGED <<ptimer, event, waiting>>

(* Its end.                                                                *)
UpdateEnd ==
  /\ ~handling /\ updating # "no" /\ DueNow = {}
  /\ AskXtratuM
  /\ Updated
  /\ UNCHANGED <<ptimer, event, waiting>>

(* A thread of RT calls update_hwtimer.                                    *)
Update ==
  /\ InRT
  /\ \/ Running(<<"asleep">>) /\ updating' = "sleep"
     \/ Running(<<"program">>) /\ updating' = "set"
  /\ UNCHANGED <<kernel, vars, ptimer, event, acted, waiting>>

(* The timer event arrives: xmtimer_irq_handler calls clock_handler.       *)
ClockIrq ==
  /\ InRT /\ event
  /\ event' = FALSE /\ updating' = "irq"
  /\ UNCHANGED <<kernel, vars, ptimer, acted, waiting>>

-----------------------------------------------------------------------------
(* arm_timer.                                                              *)
ArmTimer(k, v, i) ==
  /\ queue' = Without(k) \cup {[timer |-> k, value |-> v + now, interval |-> i]}
  /\ twice' = (Without(k) # queue)
  /\ armed' = armed \cup {k}
  /\ UNCHANGED <<loose, owner>>

(* sleep_for, until it turns the events on again, ...                      *)
SleepFor(d) ==
  /\ InRT /\ Running(User)
  /\ ArmTimer(current, d, 0)
  /\ Proceed(Suspended(sched, current), <<"asleep">>)
  /\ UNCHANGED <<vars, event, updating, acted, waiting>>

(* ... and its call of scheduling().                                       *)
Slept ==
  /\ InRT /\ Running(<<"slept">>)
  /\ Reschedule(sched, User)
  /\ UNCHANGED <<vars, ptimer, event, updating, acted, waiting>>

TimerCreate(k) ==
  /\ InRT /\ Running(User)
  /\ owner[k] = Idle
  /\ owner' = [owner EXCEPT ![k] = current]
  /\ UNCHANGED <<kernel, vars, queue, twice, loose, event, updating, acted, waiting>>

(* free_ktimer.                                                            *)
TimerDelete(k) ==
  /\ InRT /\ Running(User)
  /\ owner[k] = current
  /\ TakeOut(k)
  /\ armed' = armed \ {k}
  /\ owner' = [owner EXCEPT ![k] = Idle]
  /\ UNCHANGED <<sched, current, at, vars, twice, event, updating, acted, waiting>>

(* timer_settime disarms the timer, if it is armed, ...                    *)
SetTime(k) ==
  /\ InRT /\ Running(User)
  /\ owner[k] = current
  /\ TakeOut(k)
  /\ armed' = armed \ {k}
  /\ Proceed(sched, <<"arm", k>>)
  /\ UNCHANGED <<vars, twice, owner, event, updating, acted, waiting>>

(* ... and arms it, unless it was called to stop it.                       *)
SetTimeOn(k) ==
  /\ InRT /\ Running(<<"arm", k>>)
  /\ \/ /\ \E v \in Naps, i \in Rounds : ArmTimer(k, v, i)
        /\ Proceed(sched, <<"program">>)
     \/ /\ Proceed(sched, User)
        /\ UNCHANGED ptimer
  /\ UNCHANGED <<vars, event, updating, acted, waiting>>

(* pthread_kill: a thread that sleeps is woken before its time.            *)
Kill(t) ==
  /\ InRT /\ Running(User)
  /\ sched.state[t] # "none" /\ t \notin waiting
  /\ Proceed(Activated(sched, t), User)
  /\ UNCHANGED <<vars, ptimer, event, updating, acted, waiting>>

(* sem_wait, and the interrupt of a device whose handler calls sem_post:   *)
(* do_irq calls scheduling() after it.                                     *)
AwaitDevice ==
  /\ InRT /\ Running(User)
  /\ current \notin waiting /\ waiting' = waiting \cup {current}
  /\ Reschedule(Suspended(sched, current), User)
  /\ UNCHANGED <<vars, ptimer, event, updating, acted>>

DeviceIrq(t) ==
  /\ InRT /\ t \in waiting /\ waiting' = waiting \ {t}
  /\ sched' = Activated(sched, t)
  /\ current' = HeadOfHighest(sched')
  /\ UNCHANGED <<at, vars, ptimer, event, updating, acted>>

StartThread(t) ==
  /\ InRT /\ Create(t)
  /\ UNCHANGED <<vars, queue, twice, loose, owner, event, updating, acted, waiting>>

-----------------------------------------------------------------------------
(* XtratuM's part.  The timer event of RT is raised when its timer         *)
(* expires; time does not pass in a handler, nor while an event is pending *)
(* that will find a timer due.                                             *)
XmHandler ==
  /\ \/ HandlerExpire /\ event' = (event \/ Least(heap) = RT)
     \/ HandlerProgram /\ UNCHANGED event
     \/ updating = "no" /\ TimerIrq /\ UNCHANGED event
  /\ UNCHANGED <<kernel, ptimer, updating, acted, waiting>>

TimePasses ==
  /\ updating = "no" /\ ~(event /\ DueNow # {})
  /\ Tick
  /\ UNCHANGED <<kernel, ptimer, event, updating, acted, waiting>>

TimeInit ==
  /\ KernelInit /\ Init
  /\ queue = {} /\ twice = FALSE /\ loose = FALSE
  /\ owner = [k \in Timers |-> IF k \in Threads THEN k ELSE Idle]
  /\ event = FALSE /\ updating = "no" /\ acted = FALSE
  /\ waiting = {}

TimeNext ==
  \/ UpdateAct \/ UpdateEnd \/ Update \/ ClockIrq
  \/ (\E d \in Naps : SleepFor(d)) \/ Slept
  \/ \E k \in PosixTimers : TimerCreate(k) \/ TimerDelete(k) \/ SetTime(k) \/ SetTimeOn(k)
  \/ \E t \in Threads : Kill(t) \/ DeviceIrq(t) \/ StartThread(t)
  \/ AwaitDevice
  \/ XmHandler \/ TimePasses

TimeSpec == TimeInit /\ [][TimeNext]_timeVars

-----------------------------------------------------------------------------
(* From thread to hardware: no thread sleeps, and no timer is silent,      *)
(* beyond its time, however the threads sleep, set timers and are woken in *)
(* between; unless a thread has been interrupted after arm_timer and       *)
(* before its update_hwtimer, while others run.                            *)
OnTime ==
  InRT => \/ \A q \in queue : now <= q.value
          \/ \E t \in Threads : at[t] \in {<<"asleep">>, <<"program">>}

(* What timer_settime and timer_gettime read in TIMER_ARMED is true: the   *)
(* timers marked so are those in the heap.                                 *)
ArmedIsQueued == armed = {q.timer : q \in queue}
=============================================================================
