------------------------------- MODULE XmSched -------------------------------
(***************************************************************************)
(* The XtratuM nanokernel: domains, the fixed-priority domain scheduler,   *)
(* virtual events and the upcalls that deliver them.                       *)
(*                                                                         *)
(* Domain 0 is Linux, the root domain; load_domain_sys adds the others.    *)
(* xm_domain_list is kept sorted by insert_domain_list: a new node goes    *)
(* before the first node of a larger priority number, hence after the      *)
(* nodes of equal priority, and ids grow with every load.  The list is     *)
(* therefore the set `loaded' in the order (priority, id), see Before.     *)
(*                                                                         *)
(* The code runs with hardware interrupts off in irq_handler, xm_sched and *)
(* the loop of sync_events; they are on in event handlers (hw_sti around   *)
(* the upcall), in Linux and in nothing else: a domain is entered from     *)
(* xm_sched with interrupts off, and its entry point, the system call gate *)
(* (a trap gate) and hw_restore_flags leave them off.  An action is one    *)
(* stretch of code that no interrupt can divide.                           *)
(***************************************************************************)
EXTENDS Naturals, Sequences

CONSTANTS
  MaxId,      (* bound: the last domain id that is handed out            *)
  RootPrio,   (* min_priority(), the priority of the root domain         *)
  Prios,      (* priorities a loader asks for                            *)
  Events,     (* virtual events; event e is bit e of a bitmap_t          *)
  TimerEvent, (* hwtimer.timer_event                                     *)
  IrqLines,   (* PIC lines other than the timer's                        *)
  RootEvents, (* events xm_init installs linux_irq_handler for           *)
  MaxDepth,   (* bound: nested upcalls on the stack of one domain        *)
  Calls       (* bound: what the domains do in this instance             *)

DomainCalls == {"suspend", "ioctl", "exit", "trap", "pass", "enable", "disable",
                "mask", "unmask", "setmask", "install", "uninstall", "timer"}
LinuxCalls  == {"vcli", "vsti", "iret", "venable", "vdisable", "startup", "shutdown",
                "load", "loadfail", "unload"}

ASSUME ConstantsAssumption ==
  /\ MaxId \in Nat
  /\ RootPrio \in Nat
  /\ Prios \subseteq 0 .. RootPrio
  /\ Events \subseteq Nat
  /\ TimerEvent \in Events
  /\ IrqLines \subseteq RootEvents \ {TimerEvent}
  /\ RootEvents \subseteq Events
  /\ MaxDepth \in Nat
  /\ Calls \subseteq DomainCalls \cup LinuxCalls

Ids  == 0 .. MaxId
Root == 0

States == {"ACTIVE", "SUSPENDED", "FINISHED"}
Timers == {"off", "once", "periodic"}
Frames == [ev : Events, local : SUBSET Events]
Passes == [ev : Events, local : SUBSET Events, depth : Nat]

VARIABLES
  loaded,      (* the nodes of xm_domain_list                            *)
  nextId,      (* id_number                                              *)
  prio,        (* priority of each node                                  *)
  cur,         (* xm_current_domain                                      *)
  state,       (* the state bits of domain_t.flags                       *)
  started,     (* the domain has left init_wrapper's prologue            *)
  intercepted, (* intercepted_events, also the set of installed handlers *)
  masked,      (* masked_events                                          *)
  pending,     (* pending_events                                         *)
  flag,        (* the EVENTS_ENABLED bit of event_flags                  *)
  frames,      (* upcalls in progress on the domain's stack, newest      *)
               (* first: the event and the loop's local copy `pending'   *)
  armed,       (* the domain's entry in timer_heap                       *)
  acked,       (* lines closed at the PIC: acked and not ended, or shut   *)
  passing      (* calls of pass_event between their load and their store *)

list   == <<loaded, nextId, prio>>
events == <<intercepted, masked, pending, flag, frames>>
hw     == <<armed, acked>>
vars   == <<list, cur, state, started, events, hw, passing>>

-----------------------------------------------------------------------------
(* The domain list.                                                        *)

Before(a, b) == prio[a] < prio[b] \/ (prio[a] = prio[b] /\ a < b)

Above(d) == {a \in loaded : Before(a, d)}

IsHead(d) == d \in loaded /\ Above(d) = {}

HasNext(d) == \E b \in loaded : Before(d, b)

(* b is d -> next.                                                         *)
IsNext(d, b) == b \in loaded /\ Before(d, b) /\ ~ \E c \in Above(b) : Before(d, c)

-----------------------------------------------------------------------------
(* Delivery of events.  RunHandlers is the rest of the while loop of       *)
(* sync_events on domain d: it drops unmasked events without a handler     *)
(* until it meets one with a handler, which it masks and calls with the    *)
(* events flag off, or ends, leaving d with the frames `rest'.             *)

IsFirst(e, S) == e \in S /\ \A x \in S : e <= x

RunHandlers(d, local, rest, fl, mk, ic) ==
  LET ready == (local \ mk[d]) \cap ic[d]
  IN  \/ /\ ready = {}
         /\ frames' = [frames EXCEPT ![d] = rest]
         /\ flag' = fl
         /\ masked' = mk
      \/ /\ Len(rest) < MaxDepth
         /\ \E e \in ready :
              LET kept == {x \in local : x > e \/ x \in mk[d]}
              IN  /\ IsFirst(e, ready)
                  /\ frames' = [frames EXCEPT ![d] = <<[ev |-> e, local |-> kept]>> \o rest]
                  /\ flag' = [fl EXCEPT ![d] = FALSE]
                  /\ masked' = [mk EXCEPT ![d] = @ \cup {e}]

(* Mutant: pending_events is cleared as a whole.                           *)
SyncEventsClears(d, fl, pd, mk, ic) ==
  /\ pending' = [pd EXCEPT ![d] = IF fl[d] THEN {} ELSE @]
  /\ RunHandlers(d, IF fl[d] THEN pd[d] ELSE {}, frames[d], fl, mk, ic)

(* sync_events on the current domain d: the local copy takes every pending *)
(* event, pending_events keeps the masked ones.                            *)
SyncEvents(d, fl, pd, mk, ic) ==
  \/ /\ fl[d] /\ pd[d] # {}
     /\ pending' = [pd EXCEPT ![d] = @ \cap mk[d]]
     /\ RunHandlers(d, pd[d], frames[d], fl, mk, ic)
  \/ /\ ~(fl[d] /\ pd[d] # {})
     /\ pending' = pd
     /\ flag' = fl
     /\ masked' = mk
     /\ UNCHANGED frames

-----------------------------------------------------------------------------
(* xm_sched walks the list from its head.  A visited domain that has a     *)
(* successor passes it the events it does not intercept, all of them once  *)
(* it is FINISHED.  The walk stops at the first domain that may run.  The  *)
(* operators take the state bits st, flags fl and pending events pd that   *)
(* the walk starts from.                                                   *)

(* Mutant: a FINISHED domain is treated like the others.                   *)
LetsUnlessIntercepted(st, d, e) == e \notin intercepted[d]

Lets(st, d, e) == st[d] = "FINISHED" \/ e \notin intercepted[d]

(* pending_events of d when the walk reaches it.                           *)
Arrived(st, pd, d) ==
  {e \in Events :
     \/ e \in pd[d]
     \/ \E a \in Above(d) :
          /\ e \in pd[a]
          /\ \A b \in Above(d) : (b = a \/ Before(a, b)) => Lets(st, b, e)}

(* ... and when the walk leaves it.                                        *)
Kept(st, pd, d) ==
  {e \in Arrived(st, pd, d) : HasNext(d) => ~Lets(st, d, e)}

(* Mutants: a suspended domain is never looked at; whoever is handed an    *)
(* unmasked event is run.                                                  *)
MayRunIfActive(st, fl, pd, d) == st[d] = "ACTIVE"
MayRunOnArrival(st, fl, pd, d) ==
  st[d] = "ACTIVE" \/ Arrived(st, pd, d) \ masked[d] # {}

MayRun(st, fl, pd, d) ==
  \/ st[d] = "ACTIVE"
  \/ st[d] = "SUSPENDED" /\ fl[d] /\ Kept(st, pd, d) \ masked[d] # {}

Visited(st, fl, pd, d) == \A a \in Above(d) : ~MayRun(st, fl, pd, a)

IsSelected(st, fl, pd, d) ==
  /\ d \in loaded
  /\ Visited(st, fl, pd, d)
  /\ MayRun(st, fl, pd, d) \/ (d = Root /\ \A a \in loaded : ~MayRun(st, fl, pd, a))

(* Mutant: the walk stops before the successor is given its events.        *)
BypassVisitedOnly(st, fl, pd) ==
  [d \in Ids |-> IF d \in loaded /\ Visited(st, fl, pd, d) THEN Kept(st, pd, d) ELSE pd[d]]

(* pending_events of every domain after the walk: the successor of the     *)
(* selected domain was given events without being visited.                 *)
Bypass(st, fl, pd) ==
  [d \in Ids |->
     IF d \notin loaded THEN pd[d]
     ELSE IF Visited(st, fl, pd, d) THEN Kept(st, pd, d)
     ELSE IF \E a \in Above(d) : IsNext(a, d) /\ Visited(st, fl, pd, a)
          THEN Arrived(st, pd, d)
     ELSE pd[d]]

(* The first time a domain is switched to it starts in init_wrapper, which *)
(* masks every event and disables the flag.  Otherwise the domain resumes  *)
(* after its own domain_context_switch, or never left.                     *)
Sched(st, fl, pd) ==
  \E d \in loaded :
    /\ IsSelected(st, fl, pd, d)
    /\ cur' = d
    /\ \/ /\ ~started[d]
          /\ started' = [started EXCEPT ![d] = TRUE]
          /\ state' = st
          /\ masked' = [masked EXCEPT ![d] = Events]
          /\ flag' = [fl EXCEPT ![d] = FALSE]
          /\ pending' = Bypass(st, fl, pd)
          /\ UNCHANGED frames
       \/ /\ started[d]
          /\ state' = [st EXCEPT ![d] = "ACTIVE"]
          /\ SyncEvents(d, fl, Bypass(st, fl, pd), masked, intercepted)
          /\ UNCHANGED started
    /\ UNCHANGED <<list, intercepted>>

-----------------------------------------------------------------------------
(* Interrupts.  The PIC line stays closed from ack until somebody ends it. *)

Interruptible == cur = Root \/ frames[cur] # <<>>

(* irq_handler on a device line: the event goes to the head of the list.   *)
Irq(e) ==
  /\ Interruptible
  /\ e \notin acked
  /\ acked' = acked \cup {e}
  /\ \E h \in loaded : IsHead(h) /\ Sched(state, flag, [pending EXCEPT ![h] = @ \cup {e}])
  /\ UNCHANGED <<armed, passing>>

(* timer_handler: the timers X have expired; the periodic ones are         *)
(* inserted again.                                                         *)
Expire(arm, X) == [d \in Ids |-> IF d \in X /\ arm[d] = "once" THEN "off" ELSE arm[d]]
Ticked(X) == [d \in Ids |-> IF d \in X THEN pending[d] \cup {TimerEvent} ELSE pending[d]]

TimerIrq(X) ==
  /\ Interruptible
  /\ \A d \in X : armed[d] # "off"
  /\ armed' = Expire(armed, X)
  /\ Sched(state, flag, Ticked(X))
  /\ UNCHANGED <<acked, passing>>

-----------------------------------------------------------------------------
(* What a loaded domain does, in its main code or in a handler.            *)

(* The code on top of the stack is between the load and the store of a     *)
(* pass_event.                                                             *)
InPass == \E p \in passing[cur] : p.depth = Len(frames[cur])

Running(call) == cur # Root /\ call \in Calls /\ ~InPass

(* suspend_domain_sys with cmd = 0, or with a device request that fails.   *)
SuspendDomain ==
  /\ Running("suspend")
  /\ Sched([state EXCEPT ![cur] = "SUSPENDED"], flag, pending)
  /\ UNCHANGED <<hw, passing>>

(* suspend_domain_sys with a device request that succeeds at once.         *)
SuspendIoctl ==
  /\ Running("ioctl")
  /\ Sched([state EXCEPT ![cur] = "ACTIVE"], flag, pending)
  /\ UNCHANGED <<hw, passing>>

(* exit_domain_sys, and the tail of init_wrapper when the entry point      *)
(* returns.                                                                *)
ExitDomain ==
  /\ Running("exit")
  /\ Sched([state EXCEPT ![cur] = "FINISHED"], [flag EXCEPT ![cur] = FALSE], pending)
  /\ UNCHANGED <<hw, passing>>

(* generic_trap_handler: the events flag keeps its value.                  *)
Trap ==
  /\ Running("trap")
  /\ Sched([state EXCEPT ![cur] = "FINISHED"], flag, pending)
  /\ UNCHANGED <<hw, passing>>

(* pass_event_sys sets a bit of another domain's pending_events with a     *)
(* load and a store.  Interrupts are on between them when the caller is a  *)
(* handler.                                                                *)
PassEventLoad(e) ==
  /\ Running("pass")
  /\ \E b \in loaded :
       /\ IsNext(cur, b)
       /\ passing' = [passing EXCEPT ![cur] =
              @ \cup {[ev |-> e, local |-> pending[b], depth |-> Len(frames[cur])]}]
  /\ UNCHANGED <<list, cur, state, started, events, hw>>

PassEventStore ==
  /\ \E p \in passing[cur], b \in loaded :
       /\ p.depth = Len(frames[cur])
       /\ IsNext(cur, b)
       /\ pending' = [pending EXCEPT ![b] = p.local \cup {p.ev}]
       /\ passing' = [passing EXCEPT ![cur] = @ \ {p}]
  /\ UNCHANGED <<list, cur, state, started, intercepted, masked, flag, frames, hw>>

(* Returning from a handler enables the flag and goes on with the loop.    *)
HandlerReturn ==
  /\ cur # Root
  /\ ~InPass
  /\ frames[cur] # <<>>
  /\ RunHandlers(cur, Head(frames[cur]).local, Tail(frames[cur]),
                 [flag EXCEPT ![cur] = TRUE], masked, intercepted)
  /\ UNCHANGED <<list, cur, state, started, intercepted, pending, hw, passing>>

EnableEventsFlag ==
  /\ Running("enable")
  /\ SyncEvents(cur, [flag EXCEPT ![cur] = TRUE], pending, masked, intercepted)
  /\ UNCHANGED <<list, cur, state, started, intercepted, hw, passing>>

DisableEventsFlag ==
  /\ Running("disable")
  /\ flag' = [flag EXCEPT ![cur] = FALSE]
  /\ UNCHANGED <<list, cur, state, started, intercepted, masked, pending, frames, hw, passing>>

MaskEvent(e) ==
  /\ Running("mask")
  /\ masked' = [masked EXCEPT ![cur] = @ \cup {e}]
  /\ UNCHANGED <<list, cur, state, started, intercepted, pending, flag, frames, hw, passing>>

(* unmask_event ends the line and calls sync_events only when the flag is  *)
(* off, where sync_events does nothing.                                    *)
UnmaskEvent(e) ==
  /\ Running("unmask")
  /\ masked' = [masked EXCEPT ![cur] = @ \ {e}]
  /\ acked' = acked \ {e}
  /\ UNCHANGED <<list, cur, state, started, intercepted, pending, flag, frames, armed, passing>>

SetMaskEvents(m) ==
  /\ Running("setmask")
  /\ masked' = [masked EXCEPT ![cur] = m]
  /\ UNCHANGED <<list, cur, state, started, intercepted, pending, flag, frames, hw, passing>>

(* install_event_handler with a handler, and with NULL: either way the     *)
(* event is masked and the flag enabled.                                   *)
SetHandler(e, handled) ==
  LET ic == [intercepted EXCEPT ![cur] = handled]
  IN  /\ intercepted' = ic
      /\ SyncEvents(cur, [flag EXCEPT ![cur] = TRUE], pending,
                    [masked EXCEPT ![cur] = @ \cup {e}], ic)
      /\ UNCHANGED <<list, cur, state, started, hw, passing>>

InstallEventHandler(e)   == Running("install")   /\ SetHandler(e, intercepted[cur] \cup {e})
UninstallEventHandler(e) == Running("uninstall") /\ SetHandler(e, intercepted[cur] \ {e})

(* set_timer_sys: the old timer is removed; with a request the new one is  *)
(* inserted, whatever has expired by then is handled, and xm_sched runs.   *)
SetTimer(kind, X) ==
  LET arm == [armed EXCEPT ![cur] = kind]
  IN  /\ Running("timer")
      /\ \A d \in X : arm[d] # "off"
      /\ armed' = Expire(arm, X)
      /\ Sched(state, flag, Ticked(X))
      /\ UNCHANGED <<acked, passing>>

CancelTimer ==
  /\ Running("timer")
  /\ armed' = [armed EXCEPT ![cur] = "off"]
  /\ UNCHANGED <<list, cur, state, started, events, acked, passing>>

-----------------------------------------------------------------------------
(* What Linux does.  XM_root_func makes its cli, sti and PIC operations    *)
(* virtual.                                                                *)

Linux(call) == cur = Root /\ call \in Calls

Vcli ==
  /\ Linux("vcli")
  /\ flag' = [flag EXCEPT ![Root] = FALSE]
  /\ UNCHANGED <<list, cur, state, started, intercepted, masked, pending, frames, hw, passing>>

Vsti ==
  /\ Linux("vsti")
  /\ SyncEvents(Root, [flag EXCEPT ![Root] = TRUE], pending, masked, intercepted)
  /\ UNCHANGED <<list, cur, state, started, intercepted, hw, passing>>

EmulateIret ==
  /\ Linux("iret")
  /\ flag' = [flag EXCEPT ![Root] = TRUE]
  /\ UNCHANGED <<list, cur, state, started, intercepted, masked, pending, frames, hw, passing>>

VirtualIrqEnable(e) ==
  /\ Linux("venable")
  /\ masked' = [masked EXCEPT ![Root] = @ \ {e}]
  /\ UNCHANGED <<list, cur, state, started, intercepted, pending, flag, frames, hw, passing>>

VirtualIrqDisable(e) ==
  /\ Linux("vdisable")
  /\ masked' = [masked EXCEPT ![Root] = @ \cup {e}]
  /\ UNCHANGED <<list, cur, state, started, intercepted, pending, flag, frames, hw, passing>>

(* startup and shutdown also open and close the line at the PIC.           *)
VirtualIrqStartup(e) ==
  /\ Linux("startup")
  /\ masked' = [masked EXCEPT ![Root] = @ \ {e}]
  /\ acked' = acked \ {e}
  /\ UNCHANGED <<list, cur, state, started, intercepted, pending, flag, frames, armed, passing>>

VirtualIrqShutdown(e) ==
  /\ Linux("shutdown")
  /\ masked' = [masked EXCEPT ![Root] = @ \cup {e}]
  /\ acked' = acked \cup ({e} \cap IrqLines)
  /\ UNCHANGED <<list, cur, state, started, intercepted, pending, flag, frames, armed, passing>>

(* Mutant: the line is not ended.                                          *)
LinuxIrqReturnUnended ==
  /\ cur = Root
  /\ frames[Root] # <<>>
  /\ LET f == Head(frames[Root])
     IN  RunHandlers(Root, f.local, Tail(frames[Root]), [flag EXCEPT ![Root] = TRUE],
                     [masked EXCEPT ![Root] = @ \ {f.ev}], intercepted)
  /\ UNCHANGED <<list, cur, state, started, intercepted, pending, hw, passing>>

(* linux_irq_handler returns: __do_IRQ has called virtual_irq_hw_end,      *)
(* which unmasks the event and ends the line, as its last step.            *)
LinuxIrqReturn ==
  /\ cur = Root
  /\ frames[Root] # <<>>
  /\ LET f == Head(frames[Root])
     IN  /\ acked' = acked \ {f.ev}
         /\ RunHandlers(Root, f.local, Tail(frames[Root]), [flag EXCEPT ![Root] = TRUE],
                        [masked EXCEPT ![Root] = @ \ {f.ev}], intercepted)
  /\ UNCHANGED <<list, cur, state, started, intercepted, pending, armed, passing>>

(* The loader is a Linux process, which runs when no handler is in         *)
(* progress on its kernel stack.                                           *)
InLoader(call) == Linux(call) /\ frames[Root] = <<>>

(* Mutant: a new domain is not ACTIVE.                                     *)
LoadDomainSuspended(p) ==
  /\ InLoader("load")
  /\ nextId <= MaxId
  /\ loaded' = loaded \cup {nextId}
  /\ prio' = [prio EXCEPT ![nextId] = p]
  /\ state' = [state EXCEPT ![nextId] = "SUSPENDED"]
  /\ nextId' = nextId + 1
  /\ UNCHANGED <<cur, started, events, hw, passing>>

(* load_domain_sys creates the node, ACTIVE, with an events page of zeros; *)
(* xm_sched is not called.                                                 *)
LoadDomain(p) ==
  /\ InLoader("load")
  /\ nextId <= MaxId
  /\ loaded' = loaded \cup {nextId}
  /\ prio' = [prio EXCEPT ![nextId] = p]
  /\ state' = [state EXCEPT ![nextId] = "ACTIVE"]
  /\ nextId' = nextId + 1
  /\ UNCHANGED <<cur, started, events, hw, passing>>

(* load_domain_sys out of memory or without a device: the node is created  *)
(* and destroyed again.                                                    *)
LoadDomainFails ==
  /\ InLoader("loadfail")
  /\ nextId <= MaxId
  /\ nextId' = nextId + 1
  /\ UNCHANGED <<loaded, prio, cur, state, started, events, hw, passing>>

(* Mutant: any node of the list can be unloaded.                           *)
UnloadAnyDomain(d) ==
  /\ InLoader("unload")
  /\ d \in loaded
  /\ loaded' = loaded \ {d}
  /\ UNCHANGED <<nextId, prio, cur, state, started, events, hw, passing>>

(* unload_domain_sys frees the node, its stack, its events page and its    *)
(* timer whatever it was doing; ids are not reused.                        *)
UnloadDomain(d) ==
  /\ InLoader("unload")
  /\ d \in loaded \ {Root}
  /\ loaded' = loaded \ {d}
  /\ intercepted' = [intercepted EXCEPT ![d] = {}]
  /\ masked' = [masked EXCEPT ![d] = {}]
  /\ pending' = [pending EXCEPT ![d] = {}]
  /\ flag' = [flag EXCEPT ![d] = FALSE]
  /\ frames' = [frames EXCEPT ![d] = <<>>]
  /\ armed' = [armed EXCEPT ![d] = "off"]
  /\ passing' = [passing EXCEPT ![d] = {}]
  /\ UNCHANGED <<nextId, prio, cur, state, started, acked>>

-----------------------------------------------------------------------------
(* xm_init: Linux alone, handling RootEvents, with its periodic tick.      *)
Init ==
  /\ loaded = {Root}
  /\ nextId = 1
  /\ prio = [d \in Ids |-> RootPrio]
  /\ cur = Root
  /\ state = [d \in Ids |-> "ACTIVE"]
  /\ started = [d \in Ids |-> d = Root]
  /\ intercepted = [d \in Ids |-> IF d = Root THEN RootEvents ELSE {}]
  /\ masked = [d \in Ids |-> IF d = Root THEN Events \ RootEvents ELSE {}]
  /\ pending = [d \in Ids |-> {}]
  /\ flag = [d \in Ids |-> d = Root]
  /\ frames = [d \in Ids |-> <<>>]
  /\ armed = [d \in Ids |-> IF d = Root THEN "periodic" ELSE "off"]
  /\ acked = {}
  /\ passing = [d \in Ids |-> {}]

Interrupts ==
  \/ \E e \in IrqLines : Irq(e)
  \/ \E X \in SUBSET loaded : TimerIrq(X)

DomainSteps ==
  \/ SuspendDomain \/ SuspendIoctl \/ ExitDomain \/ Trap
  \/ \E e \in Events : \/ PassEventLoad(e) \/ MaskEvent(e) \/ UnmaskEvent(e)
                       \/ InstallEventHandler(e) \/ UninstallEventHandler(e)
  \/ PassEventStore \/ HandlerReturn \/ EnableEventsFlag \/ DisableEventsFlag
  \/ \E m \in SUBSET Events : SetMaskEvents(m)
  \/ \E kind \in {"once", "periodic"}, X \in SUBSET loaded : SetTimer(kind, X)
  \/ CancelTimer

LinuxSteps ==
  \/ Vcli \/ Vsti \/ EmulateIret \/ LinuxIrqReturn
  \/ \E e \in RootEvents : \/ VirtualIrqEnable(e) \/ VirtualIrqDisable(e)
                           \/ VirtualIrqStartup(e) \/ VirtualIrqShutdown(e)
  \/ \E p \in Prios : LoadDomain(p)
  \/ LoadDomainFails
  \/ \E d \in Ids : UnloadDomain(d)

Next == Interrupts \/ DomainSteps \/ LinuxSteps

Spec == Init /\ [][Next]_vars

-----------------------------------------------------------------------------
(* Every variable stays in its range; the running domain and the root       *)
(* domain are in the list.                                                 *)
TypeOK ==
  /\ loaded \subseteq Ids /\ {Root, cur} \subseteq loaded
  /\ nextId \in 1 .. MaxId + 1 /\ \A d \in loaded : d < nextId
  /\ prio \in [Ids -> 0 .. RootPrio]
  /\ state \in [Ids -> States]
  /\ started \in [Ids -> BOOLEAN]
  /\ intercepted \in [Ids -> SUBSET Events]
  /\ masked \in [Ids -> SUBSET Events]
  /\ pending \in [Ids -> SUBSET Events]
  /\ flag \in [Ids -> BOOLEAN]
  /\ frames \in [Ids -> Seq(Frames)]
  /\ armed \in [Ids -> Timers]
  /\ acked \subseteq IrqLines
  /\ passing \in [Ids -> SUBSET Passes]

(* The scheduler is strictly preemptive: between two actions no started    *)
(* domain above the running one could run.  It is not ACTIVE, and if it is *)
(* SUSPENDED with its flag on, all that is pending for it is masked.       *)
(* xm_sched looks for it only when somebody calls it, so every change that *)
(* can make a domain runnable has to be followed by a call.                *)
HighestRuns ==
  \A d \in Above(cur) : started[d] =>
    /\ state[d] # "ACTIVE"
    /\ state[d] = "SUSPENDED" /\ flag[d] => pending[d] \subseteq masked[d]

(* The bypass leaves nothing behind: of the domains above the running one, *)
(* those xm_sched has walked over since they were loaded, a FINISHED one   *)
(* holds no event and any other only events it intercepts, so no event     *)
(* waits where nobody will take it.                                        *)
NothingStranded ==
  \A d \in Above(cur) :
    IF state[d] = "FINISHED" THEN pending[d] = {} ELSE pending[d] \subseteq intercepted[d]

(* "Never returns", says exit_domain_sys: a FINISHED domain stays FINISHED *)
(* and never gets the processor again, whatever is pending for it.         *)
FinishedForever ==
  [][\A d \in loaded : (state[d] = "FINISHED" /\ d \in loaded') =>
        state'[d] = "FINISHED" /\ cur' # d]_vars

(* Where event e is: pending for a domain or in a local copy of a loop.    *)
Holds(d, e) == e \in pending[d] \/ \E i \in DOMAIN frames[d] : e \in frames[d][i].local
Held(e) == \E d \in loaded : Holds(d, e)

(* The handler of e is called in this step.                                *)
Delivered(e) ==
  \E d \in loaded' :
    /\ frames'[d] # frames[d]
    /\ Len(frames'[d]) >= Len(frames[d])
    /\ Head(frames'[d]).ev = e

(* What the loop of sync_events of the domain that runs does lose: an      *)
(* event of a local copy that the domain masks or does not handle by then, *)
(* and an event without a handler that the domain held already or that no  *)
(* other domain follows to take.                                           *)
DroppedByLoop(e) ==
  \/ /\ \E i \in DOMAIN frames[cur'] : e \in frames[cur'][i].local
     /\ e \in masked'[cur'] \/ e \notin intercepted'[cur']
  \/ /\ e \notin masked'[cur'] \cup intercepted'[cur']
     /\ e \in pending[cur'] \/ ~HasNext(cur)'

(* The loops of sync_events say "Executing all pending events".  They do   *)
(* not execute what DroppedByLoop says, and nothing else is lost: an event *)
(* that waits, or that irq_handler has just raised, survives every walk of *)
(* the list, switch and upcall (unless two calls of pass_event overlap).   *)
SchedLosesNothing ==
  [][\A e \in Events :
       /\ Held(e) \/ (e \in IrqLines /\ Irq(e))
       /\ loaded \subseteq loaded' /\ passing' = passing
       => Held(e)' \/ Delivered(e) \/ DroppedByLoop(e)]_vars

(* A line that was acked is always somebody's to end: its event is still   *)
(* on its way or in a handler, or a domain has taken it and keeps it       *)
(* masked until it is done.  Otherwise the device never interrupts again.  *)
LineAccounted ==
  \A e \in acked :
    \/ Held(e)
    \/ \E d \in loaded :
         \/ e \in masked[d] \cap intercepted[d]
         \/ \E i \in DOMAIN frames[d] : frames[d][i].ev = e

-----------------------------------------------------------------------------
(* Fairness.  The timer keeps ticking and every armed timer expires in     *)
(* time, whenever interrupts are on; hardware promises no more.            *)
ArmedDomains == {d \in loaded : armed[d] # "off"}
Ticking == WF_vars(TimerIrq(ArmedDomains))

(* Well behaved code: handlers return, domains suspend, Linux opens its    *)
(* virtual interrupts.                                                     *)
Yielding == /\ WF_vars(HandlerReturn) /\ WF_vars(PassEventStore) /\ WF_vars(SuspendDomain)
            /\ WF_vars(LinuxIrqReturn) /\ WF_vars(Vsti)

(* No storm: a device that interrupts for ever through a domain that ends  *)
(* its line in the handler starves every domain below, by design.          *)
DevicesQuiet == <>[][\A e \in IrqLines : ~Irq(e)]_vars

FairSpec == Spec /\ Ticking /\ Yielding /\ DevicesQuiet

(* Where a stack has reached the bound, the model stops following it.      *)
AtBound == \E d \in loaded : Len(frames[d]) = MaxDepth

(* Every domain a loader puts above Linux gets to its entry point, unless  *)
(* it is unloaded before.                                                  *)
LoadedStarts ==
  \A d \in Ids : (d \in Above(Root)) ~> (started[d] \/ d \notin loaded \/ AtBound)

(* An event a domain can take, pending, intercepted, unmasked and with the *)
(* flag on, does not stay so: it is taken, or the domain withdraws.        *)
Deliverable(d, e) ==
  /\ d \in Above(Root) \cup {Root} /\ started[d] /\ state[d] # "FINISHED"
  /\ e \in (pending[d] \cap intercepted[d]) \ masked[d]
  /\ flag[d]
EventsTaken == \A d \in Ids, e \in Events : Deliverable(d, e) ~> (~Deliverable(d, e) \/ AtBound)
=============================================================================
