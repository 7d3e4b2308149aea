------------------------------- MODULE XmTimer -------------------------------
(***************************************************************************)
(* The timers of XtratuM: one for each domain, kept in timer_heap, served  *)
(* by one hardware timer that is programmed for a single interrupt.  Time  *)
(* is counted in units longer than the rounding of the hardware timer's    *)
(* counter, and a handler takes none.                                      *)
(***************************************************************************)
EXTENDS XmHeap, FiniteSets

CONSTANTS
  Linux,       (* the root domain                                          *)
  LinuxPeriod, (* LINUX_NS, the period of Linux's tick                     *)
  MinInterval, (* hwtimer.get_min_interval ()                              *)
  MaxInterval, (* hwtimer.get_max_interval ()                              *)
  Delays,      (* it_value of requests                                     *)
  Periods,     (* it_interval of requests; 0: once                         *)
  MaxTime      (* bound: the clock stops here                              *)

ASSUME TimerAssumption ==
  /\ Linux \in Doms
  /\ None \notin Doms /\ IsFiniteSet(Doms)
  /\ MaxElem \in Nat /\ Cardinality(Doms) < MaxElem
  /\ {LinuxPeriod, MinInterval, MaxInterval, MaxTime} \subseteq Nat
  /\ MinInterval < MaxInterval
  /\ Delays \subseteq Nat /\ Periods \subseteq Nat

VARIABLES
  now,      (* sysclock.gettime_nsec ()                                    *)
  heap,     (* timer_heap                                                  *)
  hwtime,   (* time.hwtime of each domain: when its timer expires          *)
  period,   (* time.period of each domain                                  *)
  deadline, (* when the hardware timer interrupts; -1: not programmed      *)
  handling, (* timer_handler is in its loop                                *)
  misplaced (* history: HEAP_remove_element has put a domain below one     *)
            (* that expires later                                          *)

vars == <<now, heap, hwtime, period, deadline, handling, misplaced>>

Off == -1

Armed == Elements(heap)

(* timer_handler, one iteration of its loop: the first domain has expired  *)
(* and its timer event is raised.                                          *)
Expires(d) == d # None /\ hwtime[d] <= now + MinInterval

(* Mutant: a periodic timer is inserted again as it is.                    *)
HandlerExpireUnchanged ==
  LET d == Least(heap)
      rest == RemoveMin(heap, hwtime)
  IN  /\ handling /\ Expires(d)
      /\ heap' = IF period[d] # 0 THEN Insert(rest, hwtime, d) ELSE rest
      /\ UNCHANGED <<now, hwtime, period, deadline, handling, misplaced>>

HandlerExpire ==
  LET d == Least(heap)
      rest == RemoveMin(heap, hwtime)
      next == [hwtime EXCEPT ![d] = period[d] + now]
  IN  /\ handling /\ Expires(d)
      /\ \/ /\ period[d] # 0
            /\ hwtime' = next
            /\ heap' = Insert(rest, next, d)
         \/ /\ period[d] = 0
            /\ heap' = rest
            /\ UNCHANGED hwtime
      /\ UNCHANGED <<now, period, deadline, handling, misplaced>>

(* Mutant: the hardware timer is always set as far as it reaches.          *)
HandlerProgramFar ==
  /\ handling /\ ~Expires(Least(heap))
  /\ deadline' = IF Least(heap) = None THEN deadline ELSE now + MaxInterval
  /\ handling' = FALSE
  /\ UNCHANGED <<now, heap, hwtime, period, misplaced>>

(* ... and its end: the hardware timer is set for the first domain, or for *)
(* as far as it reaches.                                                   *)
HandlerProgram ==
  LET d == Least(heap)
  IN  /\ handling /\ ~Expires(d)
      /\ deadline' = IF d = None THEN deadline
                     ELSE IF hwtime[d] - now < MaxInterval THEN hwtime[d]
                     ELSE now + MaxInterval
      /\ handling' = FALSE
      /\ UNCHANGED <<now, heap, hwtime, period, misplaced>>

(* The hardware timer interrupts.                                          *)
TimerIrq ==
  /\ ~handling
  /\ deadline = now
  /\ deadline' = Off
  /\ handling' = TRUE
  /\ UNCHANGED <<now, heap, hwtime, period, misplaced>>

(* set_timer_sys of domain d with a request, until timer_handler.  Linux   *)
(* makes no such call.                                                     *)
SetTimer(d, delay, every) ==
  LET expiry == [hwtime EXCEPT ![d] = delay + now]
  IN  /\ ~handling
      /\ hwtime' = expiry
      /\ heap' = Insert(RemoveElement(heap, hwtime, d), expiry, d)
      /\ period' = [period EXCEPT ![d] = every]
      /\ handling' = TRUE
      /\ misplaced' = (misplaced \/ Misplaces(heap, hwtime, d))
      /\ UNCHANGED <<now, deadline>>

(* set_timer_sys without a request, and timer_remove_domain when a domain  *)
(* is unloaded.  The hardware timer keeps its setting.                     *)
RemoveTimer(d) ==
  /\ ~handling
  /\ heap' = RemoveElement(heap, hwtime, d)
  /\ misplaced' = (misplaced \/ Misplaces(heap, hwtime, d))
  /\ UNCHANGED <<now, hwtime, period, deadline, handling>>

(* Time passes; an interrupt that is due is taken first.                   *)
Tick ==
  /\ ~handling
  /\ deadline # now
  /\ now < MaxTime
  /\ now' = now + 1
  /\ UNCHANGED <<heap, hwtime, period, deadline, handling, misplaced>>

(* init_hwtimer_pit: Linux has set its periodic timer.                     *)
Init ==
  /\ now = 0
  /\ hwtime = [d \in Doms |-> IF d = Linux THEN LinuxPeriod ELSE 0]
  /\ heap = Insert(EmptyHeap, hwtime, Linux)
  /\ period = [d \in Doms |-> IF d = Linux THEN LinuxPeriod ELSE 0]
  /\ deadline = Off
  /\ handling = TRUE /\ misplaced = FALSE

Next ==
  \/ HandlerExpire \/ HandlerProgram \/ TimerIrq \/ Tick
  \/ \E d \in Doms \ {Linux} :
       \/ \E delay \in Delays, every \in Periods : SetTimer(d, delay, every)
       \/ RemoveTimer(d)

Spec == Init /\ [][Next]_vars

(* timer_handler runs with interrupts off until it ends.                   *)
FairSpec == Spec /\ WF_vars(HandlerExpire) /\ WF_vars(HandlerProgram)

-----------------------------------------------------------------------------
(* "A domain can not be inserted twice", says HEAP_insert.                 *)
InsertedOnce == \A i, j \in 1 .. heap.nelem : heap.array[i] = heap.array[j] => i = j

(* The first domain of the heap is the next to expire, for all insertions, *)
(* expiries and removals, unless a removal has put the last element below  *)
(* a greater father, from where heapify does not let it rise.  It takes    *)
(* six domains to get there.                                               *)
LeastIsFirst ==
  heap.nelem > 0 /\ ~misplaced => \A d \in Armed : hwtime[heap.array[1]] <= hwtime[d]

(* No timer is forgotten: as long as the hardware timer interrupts when it *)
(* was told to, no domain waits for a timer beyond its expiry, whoever     *)
(* sets, replaces and removes timers and however far they reach; unless    *)
(* the heap has lost its order, as above.                                  *)
NeverLate == ~handling /\ ~misplaced => \A d \in Armed : now <= hwtime[d]

(* timer_handler comes to an end, whatever is periodic.                    *)
HandlerEnds == handling ~> ~handling
=============================================================================
