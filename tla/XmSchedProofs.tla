---------------------------- MODULE XmSchedProofs ----------------------------
(***************************************************************************)
(* Proofs about XmSched: its type invariant, that the highest domain that  *)
(* may run is the one that runs, that no event is stranded above it, that  *)
(* a domain that has finished never comes back, that the scheduler and the *)
(* upcalls lose no event but those a loop drops, and that a line which has *)
(* been closed is always somebody's to end.                                *)
(***************************************************************************)
EXTENDS XmSched, TLAPS, SequenceTheorems, WellFoundedInduction

Flags   == [Ids -> BOOLEAN]
Bitmaps == [Ids -> SUBSET Events]

(* The part of TypeOK that is about the delivery of events.                *)
EventsOK ==
  /\ intercepted \in Bitmaps
  /\ masked \in Bitmaps
  /\ pending \in Bitmaps
  /\ flag \in Flags
  /\ frames \in [Ids -> Seq(Frames)]

LEMMA RunHandlersType ==
  ASSUME NEW d \in Ids, NEW local \in SUBSET Events, NEW rest \in Seq(Frames),
         NEW fl \in Flags, NEW mk \in Bitmaps, NEW ic \in Bitmaps,
         frames \in [Ids -> Seq(Frames)],
         RunHandlers(d, local, rest, fl, mk, ic)
  PROVE  frames' \in [Ids -> Seq(Frames)] /\ flag' \in Flags /\ masked' \in Bitmaps
<1> DEFINE ready == (local \ mk[d]) \cap ic[d]
           kept(e) == {x \in local : x > e \/ x \in mk[d]}
<1>1. CASE ready = {} /\ frames' = [frames EXCEPT ![d] = rest] /\ flag' = fl /\ masked' = mk
  BY <1>1
<1>2. ASSUME NEW e \in ready,
             frames' = [frames EXCEPT ![d] = <<[ev |-> e, local |-> kept(e)]>> \o rest],
             flag' = [fl EXCEPT ![d] = FALSE],
             masked' = [mk EXCEPT ![d] = @ \cup {e}]
      PROVE  frames' \in [Ids -> Seq(Frames)] /\ flag' \in Flags /\ masked' \in Bitmaps
  <2>1. e \in Events /\ kept(e) \in SUBSET Events
    OBVIOUS
  <2>2. [ev |-> e, local |-> kept(e)] \in Frames
    BY <2>1 DEF Frames
  <2> HIDE DEF kept
  <2>3. <<[ev |-> e, local |-> kept(e)]>> \o rest \in Seq(Frames)
    BY <2>2
  <2>4. frames' \in [Ids -> Seq(Frames)]
    BY <1>2, <2>3
  <2>5. flag' \in Flags
    BY <1>2 DEF Flags
  <2>6. masked' \in Bitmaps
    BY <1>2, <2>1 DEF Bitmaps
  <2> QED
    BY <2>4, <2>5, <2>6
<1> QED
  BY <1>1, <1>2 DEF RunHandlers

LEMMA SyncEventsType ==
  ASSUME NEW d \in Ids, NEW fl \in Flags, NEW pd \in Bitmaps,
         NEW mk \in Bitmaps, NEW ic \in Bitmaps,
         frames \in [Ids -> Seq(Frames)],
         SyncEvents(d, fl, pd, mk, ic)
  PROVE  /\ frames' \in [Ids -> Seq(Frames)] /\ flag' \in Flags
         /\ masked' \in Bitmaps /\ pending' \in Bitmaps
<1>1. CASE pending' = [pd EXCEPT ![d] = @ \cap mk[d]] /\ RunHandlers(d, pd[d], frames[d], fl, mk, ic)
  <2>1. pd[d] \in SUBSET Events /\ frames[d] \in Seq(Frames)
    BY DEF Bitmaps
  <2>2. pending' \in Bitmaps
    BY <1>1 DEF Bitmaps
  <2> QED
    BY <1>1, <2>1, <2>2, RunHandlersType
<1>2. CASE pending' = pd /\ flag' = fl /\ masked' = mk /\ UNCHANGED frames
  BY <1>2
<1> QED
  BY <1>1, <1>2 DEF SyncEvents

LEMMA BypassType ==
  ASSUME NEW st, NEW fl, NEW pd \in Bitmaps
  PROVE  Bypass(st, fl, pd) \in Bitmaps
  BY DEF Bypass, Kept, Arrived, Bitmaps

(* A call of xm_sched leaves everything in its range.                      *)
LEMMA SchedType ==
  ASSUME TypeOK,
         NEW st \in [Ids -> States], NEW fl \in Flags, NEW pd \in Bitmaps,
         Sched(st, fl, pd)
  PROVE  /\ UNCHANGED <<list, intercepted>>
         /\ cur' \in loaded
         /\ state' \in [Ids -> States] /\ started' \in [Ids -> BOOLEAN]
         /\ masked' \in Bitmaps /\ pending' \in Bitmaps /\ flag' \in Flags
         /\ frames' \in [Ids -> Seq(Frames)]
<1>1. PICK d \in loaded :
        /\ cur' = d
        /\ \/ /\ started' = [started EXCEPT ![d] = TRUE]
              /\ state' = st
              /\ masked' = [masked EXCEPT ![d] = Events]
              /\ flag' = [fl EXCEPT ![d] = FALSE]
              /\ pending' = Bypass(st, fl, pd)
              /\ UNCHANGED frames
           \/ /\ state' = [st EXCEPT ![d] = "ACTIVE"]
              /\ SyncEvents(d, fl, Bypass(st, fl, pd), masked, intercepted)
              /\ UNCHANGED started
        /\ UNCHANGED <<list, intercepted>>
  BY DEF Sched
<1>2. /\ d \in Ids
      /\ frames \in [Ids -> Seq(Frames)] /\ started \in [Ids -> BOOLEAN]
      /\ masked \in Bitmaps /\ intercepted \in Bitmaps
  BY DEF TypeOK, Bitmaps
<1>3. Bypass(st, fl, pd) \in Bitmaps
  BY BypassType
<1>4. CASE /\ started' = [started EXCEPT ![d] = TRUE]
           /\ state' = st
           /\ masked' = [masked EXCEPT ![d] = Events]
           /\ flag' = [fl EXCEPT ![d] = FALSE]
           /\ pending' = Bypass(st, fl, pd)
           /\ UNCHANGED frames
  <2>1. masked' \in Bitmaps
    BY <1>2, <1>4 DEF Bitmaps
  <2>2. flag' \in Flags
    BY <1>4 DEF Flags
  <2> QED
    BY <1>1, <1>2, <1>3, <1>4, <2>1, <2>2
<1>5. CASE /\ state' = [st EXCEPT ![d] = "ACTIVE"]
           /\ SyncEvents(d, fl, Bypass(st, fl, pd), masked, intercepted)
           /\ UNCHANGED started
  <2>1. state' \in [Ids -> States]
    BY <1>5 DEF States
  <2> QED
    BY <1>1, <1>2, <1>3, <1>5, <2>1, SyncEventsType
<1> QED
  BY <1>1, <1>4, <1>5

-----------------------------------------------------------------------------
(* Type correctness.                                                       *)

LEMMA TypeInit == Init => TypeOK
  BY ConstantsAssumption
  DEF ConstantsAssumption, Init, TypeOK, Ids, Root, States, Timers, Frames, Passes

(* The actions that call xm_sched and otherwise change only timers, lines  *)
(* and calls of pass_event.                                                *)
LEMMA TypeScheduled ==
  ASSUME TypeOK,
         NEW st \in [Ids -> States], NEW fl \in Flags, NEW pd \in Bitmaps,
         Sched(st, fl, pd),
         armed' \in [Ids -> Timers], acked' \in SUBSET IrqLines,
         UNCHANGED passing
  PROVE  TypeOK'
<1>1. /\ UNCHANGED <<list, intercepted>>
      /\ cur' \in loaded
      /\ state' \in [Ids -> States] /\ started' \in [Ids -> BOOLEAN]
      /\ masked' \in Bitmaps /\ pending' \in Bitmaps /\ flag' \in Flags
      /\ frames' \in [Ids -> Seq(Frames)]
  BY SchedType
<1> QED
  BY <1>1 DEF TypeOK, list, Bitmaps, Flags

LEMMA TickedType ==
  ASSUME TypeOK, NEW X
  PROVE  Ticked(X) \in Bitmaps
  BY ConstantsAssumption DEF ConstantsAssumption, TypeOK, Ticked, Bitmaps

LEMMA ExpireType ==
  ASSUME NEW X, NEW arm \in [Ids -> Timers]
  PROVE  Expire(arm, X) \in [Ids -> Timers]
  BY DEF Expire, Timers

LEMMA TypeNext == TypeOK /\ [Next]_vars => TypeOK'
<1> SUFFICES ASSUME TypeOK, [Next]_vars
             PROVE  TypeOK'
  OBVIOUS
<1> DEFINE SetState(s) == [state EXCEPT ![cur] = s]
<1>1. /\ cur \in Ids /\ Root \in Ids
      /\ state \in [Ids -> States] /\ started \in [Ids -> BOOLEAN]
      /\ flag \in Flags /\ pending \in Bitmaps /\ masked \in Bitmaps /\ intercepted \in Bitmaps
      /\ frames \in [Ids -> Seq(Frames)]
      /\ armed \in [Ids -> Timers] /\ acked \in SUBSET IrqLines
      /\ passing \in [Ids -> SUBSET Passes]
      /\ IrqLines \subseteq Events /\ RootEvents \subseteq Events /\ TimerEvent \in Events
  BY ConstantsAssumption DEF ConstantsAssumption, TypeOK, Flags, Bitmaps
<1>2. /\ \A s \in States : SetState(s) \in [Ids -> States]
      /\ \A b \in BOOLEAN, d \in Ids : [flag EXCEPT ![d] = b] \in Flags
      /\ \A S \in SUBSET Events, d \in Ids : /\ [pending EXCEPT ![d] = S] \in Bitmaps
                                             /\ [masked EXCEPT ![d] = S] \in Bitmaps
                                             /\ [intercepted EXCEPT ![d] = S] \in Bitmaps
      /\ \A k \in Timers : [armed EXCEPT ![cur] = k] \in [Ids -> Timers]
  BY <1>1 DEF Flags, Bitmaps
<1>3. {"ACTIVE", "SUSPENDED", "FINISHED"} \subseteq States /\ {"off", "once", "periodic"} \subseteq Timers
  BY DEF States, Timers
<1> HIDE DEF SetState
<1>4. ASSUME NEW e \in IrqLines, Irq(e)
      PROVE  TypeOK'
  <2>1. \A h \in Ids : [pending EXCEPT ![h] = @ \cup {e}] \in Bitmaps
    BY <1>1 DEF Bitmaps
  <2>2. acked' \in SUBSET IrqLines /\ armed' \in [Ids -> Timers] /\ UNCHANGED passing
    BY <1>1, <1>4 DEF Irq
  <2> QED
    BY <1>1, <1>4, <2>1, <2>2, TypeScheduled DEF Irq, TypeOK
<1>5. ASSUME NEW X, TimerIrq(X)
      PROVE  TypeOK'
  BY <1>1, <1>5, TickedType, ExpireType, TypeScheduled DEF TimerIrq
<1>6. CASE SuspendDomain \/ SuspendIoctl \/ ExitDomain \/ Trap
  <2>1. armed' \in [Ids -> Timers] /\ acked' \in SUBSET IrqLines /\ UNCHANGED passing
    BY <1>1, <1>6 DEF SuspendDomain, SuspendIoctl, ExitDomain, Trap, hw
  <2>2. PICK s \in States, fl \in Flags : Sched(SetState(s), fl, pending)
    BY <1>1, <1>2, <1>3, <1>6 DEF SuspendDomain, SuspendIoctl, ExitDomain, Trap, SetState
  <2> QED
    BY <1>1, <1>2, <2>1, <2>2, TypeScheduled
<1>7. ASSUME NEW kind \in {"once", "periodic"}, NEW X, SetTimer(kind, X)
      PROVE  TypeOK'
  <2>1. [armed EXCEPT ![cur] = kind] \in [Ids -> Timers]
    BY <1>2, <1>3
  <2> QED
    BY <1>1, <1>7, <2>1, TickedType, ExpireType, TypeScheduled DEF SetTimer
<1>8. CASE \E e \in Events : PassEventLoad(e)
  BY <1>1, <1>8 DEF PassEventLoad, TypeOK, Bitmaps, Passes, list, events, hw
<1>9. CASE PassEventStore
  BY <1>1, <1>9 DEF PassEventStore, TypeOK, Bitmaps, Passes, list, hw
<1>10. CASE HandlerReturn \/ LinuxIrqReturn
  <2>1. ASSUME NEW d \in Ids, frames[d] # <<>>, NEW fl \in Flags, NEW mk \in Bitmaps,
               RunHandlers(d, Head(frames[d]).local, Tail(frames[d]), fl, mk, intercepted)
        PROVE  frames' \in [Ids -> Seq(Frames)] /\ flag' \in Flags /\ masked' \in Bitmaps
    <3>1. Head(frames[d]) \in Frames /\ Tail(frames[d]) \in Seq(Frames)
      BY <1>1, <2>1, HeadTailProperties
    <3>2. Head(frames[d]).local \in SUBSET Events
      BY <3>1 DEF Frames
    <3> QED
      BY <1>1, <2>1, <3>1, <3>2, RunHandlersType
  <2>2. CASE HandlerReturn
    <3>1. [flag EXCEPT ![cur] = TRUE] \in Flags
      BY <1>1, <1>2
    <3>2. /\ frames[cur] # <<>>
          /\ RunHandlers(cur, Head(frames[cur]).local, Tail(frames[cur]),
                         [flag EXCEPT ![cur] = TRUE], masked, intercepted)
          /\ UNCHANGED <<list, cur, state, started, intercepted, pending, hw, passing>>
      BY <2>2 DEF HandlerReturn
    <3> QED
      BY <1>1, <2>1, <3>1, <3>2 DEF TypeOK, Flags, Bitmaps, list, hw
  <2>3. CASE LinuxIrqReturn
    <3> DEFINE mk == [masked EXCEPT ![Root] = @ \ {Head(frames[Root]).ev}]
    <3>1. [flag EXCEPT ![Root] = TRUE] \in Flags /\ mk \in Bitmaps
      BY <1>1, <1>2 DEF Bitmaps
    <3>2. /\ frames[Root] # <<>>
          /\ RunHandlers(Root, Head(frames[Root]).local, Tail(frames[Root]),
                         [flag EXCEPT ![Root] = TRUE], mk, intercepted)
          /\ acked' = acked \ {Head(frames[Root]).ev}
          /\ UNCHANGED <<list, cur, state, started, intercepted, pending, armed, passing>>
      BY <2>3 DEF LinuxIrqReturn
    <3> HIDE DEF mk
    <3> QED
      BY <1>1, <2>1, <3>1, <3>2 DEF TypeOK, Flags, Bitmaps, list
  <2> QED
    BY <1>10, <2>2, <2>3
<1>11. CASE EnableEventsFlag \/ Vsti
  <2>1. PICK d \in Ids, fl \in Flags : SyncEvents(d, fl, pending, masked, intercepted)
    BY <1>1, <1>2, <1>11 DEF EnableEventsFlag, Vsti
  <2> QED
    BY <1>1, <1>11, <2>1, SyncEventsType
    DEF EnableEventsFlag, Vsti, TypeOK, Flags, Bitmaps, list, hw
<1>12. ASSUME NEW e \in Events, NEW handled \in SUBSET Events, SetHandler(e, handled)
       PROVE  TypeOK'
  <2>1. [intercepted EXCEPT ![cur] = handled] \in Bitmaps /\ [flag EXCEPT ![cur] = TRUE] \in Flags
    BY <1>1, <1>2
  <2>2. [masked EXCEPT ![cur] = @ \cup {e}] \in Bitmaps
    BY <1>1 DEF Bitmaps
  <2> QED
    BY <1>1, <1>12, <2>1, <2>2, SyncEventsType
    DEF SetHandler, TypeOK, Flags, Bitmaps, list, hw
<1>13. CASE DisableEventsFlag \/ Vcli \/ EmulateIret
  BY <1>1, <1>13 DEF DisableEventsFlag, Vcli, EmulateIret, TypeOK, Flags, list, hw
<1>14. ASSUME masked' \in Bitmaps, acked' \in SUBSET IrqLines,
              UNCHANGED <<list, cur, state, started, intercepted, pending, flag, frames,
                          armed, passing>>
       PROVE  TypeOK'
  BY <1>14 DEF TypeOK, Bitmaps, list
<1>15. CASE \E m \in SUBSET Events : SetMaskEvents(m)
  <2>1. PICK m \in SUBSET Events : SetMaskEvents(m)
    BY <1>15
  <2>2. masked' \in Bitmaps /\ acked' \in SUBSET IrqLines
    BY <1>1, <1>2, <2>1 DEF SetMaskEvents, hw
  <2> QED
    BY <1>14, <2>1, <2>2 DEF SetMaskEvents, hw
<1>16. CASE CancelTimer
  BY <1>1, <1>2, <1>3, <1>16 DEF CancelTimer, TypeOK, Timers, list, events
<1>17. ASSUME NEW e \in Events,
              \/ MaskEvent(e) \/ UnmaskEvent(e) \/ VirtualIrqEnable(e) \/ VirtualIrqDisable(e)
              \/ VirtualIrqStartup(e) \/ VirtualIrqShutdown(e)
       PROVE  TypeOK'
  <2>1. /\ \E d \in Ids : \/ masked' = [masked EXCEPT ![d] = @ \cup {e}]
                          \/ masked' = [masked EXCEPT ![d] = @ \ {e}]
        /\ acked' = acked \/ acked' = acked \ {e} \/ acked' = acked \cup ({e} \cap IrqLines)
        /\ UNCHANGED <<list, cur, state, started, intercepted, pending, flag, frames, armed,
                       passing>>
    BY <1>1, <1>17
    DEF MaskEvent, UnmaskEvent, VirtualIrqEnable, VirtualIrqDisable,
        VirtualIrqStartup, VirtualIrqShutdown, hw
  <2>2. masked' \in Bitmaps
    <3>1. PICK d \in Ids, S \in SUBSET Events : masked' = [masked EXCEPT ![d] = S]
      <4>1. \A d \in Ids : masked[d] \cup {e} \in SUBSET Events /\ masked[d] \ {e} \in SUBSET Events
        BY <1>1 DEF Bitmaps
      <4> QED
        BY <2>1, <4>1
    <3> QED
      BY <1>2, <3>1
  <2>3. acked' \in SUBSET IrqLines
    BY <1>1, <2>1
  <2> QED
    BY <1>14, <2>1, <2>2, <2>3
<1>18. CASE (\E p \in Prios : LoadDomain(p)) \/ LoadDomainFails
  <2>1. /\ nextId <= MaxId /\ nextId' = nextId + 1
        /\ UNCHANGED <<cur, started, events, hw, passing>>
        /\ loaded' \subseteq loaded \cup {nextId} /\ loaded \subseteq loaded'
        /\ \/ prio' = prio
           \/ \E p \in Prios : prio' = [prio EXCEPT ![nextId] = p]
        /\ \/ state' = state
           \/ state' = [state EXCEPT ![nextId] = "ACTIVE"]
    BY <1>18 DEF LoadDomain, LoadDomainFails
  <2>2. /\ MaxId \in Nat /\ nextId \in Ids /\ nextId' \in 1 .. MaxId + 1
        /\ \A d \in loaded' : d < nextId'
    BY <2>1, ConstantsAssumption DEF ConstantsAssumption, TypeOK, Ids
  <2>3. prio' \in [Ids -> 0 .. RootPrio]
    BY <2>1, <2>2, ConstantsAssumption DEF ConstantsAssumption, TypeOK
  <2>4. state' \in [Ids -> States]
    <3>1. state \in [Ids -> States] /\ "ACTIVE" \in States
      BY <1>1, <1>3
    <3> QED
      BY <2>1, <2>2, <3>1
  <2>5. loaded' \subseteq Ids /\ {Root, cur'} \subseteq loaded'
    BY <2>1, <2>2 DEF TypeOK
  <2> QED
    BY <2>1, <2>2, <2>3, <2>4, <2>5 DEF TypeOK, events, hw
<1>19. CASE \E d \in Ids : UnloadDomain(d)
  BY <1>1, <1>3, <1>19 DEF UnloadDomain, InLoader, Linux, TypeOK, Timers
<1>20. CASE UNCHANGED vars
  BY <1>20 DEF TypeOK, vars, list, events, hw
<1> QED
  <2>1. ASSUME NEW e \in Events, InstallEventHandler(e) \/ UninstallEventHandler(e)
        PROVE  TypeOK'
    BY <1>1, <1>12, <2>1 DEF InstallEventHandler, UninstallEventHandler, Bitmaps
  <2> QED
    BY <1>1, <1>4, <1>5, <1>6, <1>7, <1>8, <1>9, <1>10, <1>11, <1>13, <1>15, <1>16, <1>17,
       <1>18, <1>19, <1>20, <2>1
    DEF Next, Interrupts, DomainSteps, LinuxSteps

(* Whatever the domains, their priorities, the events and the calls, every *)
(* variable of the nanokernel stays in its range and the running domain    *)
(* and the root domain stay in the list.                                   *)
THEOREM TypeCorrect == Spec => []TypeOK
  BY TypeInit, TypeNext, PTL DEF Spec

-----------------------------------------------------------------------------
(* The list order, and what the walk of xm_sched leaves above the domain   *)
(* it selects.                                                             *)

LEMMA BeforeIsStrictOrder ==
  ASSUME prio \in [Ids -> 0 .. RootPrio],
         NEW a \in Ids, NEW b \in Ids, NEW c \in Ids
  PROVE  /\ ~Before(a, a)
         /\ Before(a, b) => ~Before(b, a)
         /\ Before(a, b) /\ Before(b, c) => Before(a, c)
<1>1. /\ a \in Nat /\ b \in Nat /\ c \in Nat
      /\ prio[a] \in Nat /\ prio[b] \in Nat /\ prio[c] \in Nat
  BY ConstantsAssumption DEF ConstantsAssumption, Ids
<1> QED
  BY <1>1 DEF Before

(* RunHandlers and sync_events touch no domain but the current one.        *)
LEMMA SyncEventsIsLocal ==
  ASSUME NEW d \in Ids, NEW fl \in Flags, NEW pd \in Bitmaps, NEW mk \in Bitmaps, NEW ic,
         SyncEvents(d, fl, pd, mk, ic),
         NEW a \in Ids, a # d
  PROVE  flag'[a] = fl[a] /\ masked'[a] = mk[a] /\ pending'[a] = pd[a]
  BY DEF SyncEvents, RunHandlers, Flags, Bitmaps

LEMMA RunHandlersIsLocal ==
  ASSUME NEW d \in Ids, NEW local, NEW rest, NEW fl \in Flags, NEW mk \in Bitmaps, NEW ic,
         RunHandlers(d, local, rest, fl, mk, ic),
         NEW a \in Ids, a # d
  PROVE  flag'[a] = fl[a] /\ masked'[a] = mk[a]
  BY DEF RunHandlers, Flags, Bitmaps

(* After a call of xm_sched every domain above the selected one has been   *)
(* walked over: it cannot run and keeps what the walk leaves it.           *)
LEMMA SchedWalk ==
  ASSUME TypeOK,
         NEW st \in [Ids -> States], NEW fl \in Flags, NEW pd \in Bitmaps,
         Sched(st, fl, pd)
  PROVE  /\ IsSelected(st, fl, pd, cur')
         /\ \A a \in Above(cur') :
              /\ ~MayRun(st, fl, pd, a) /\ HasNext(a)
              /\ state'[a] = st[a] /\ flag'[a] = fl[a] /\ masked'[a] = masked[a]
              /\ pending'[a] = Kept(st, pd, a)
         /\ \A a \in Ids \ {cur'} : state'[a] = st[a] /\ started'[a] = started[a]
         /\ \A a \in Ids \ loaded : pending'[a] = pd[a]
         /\ \/ ~started[cur'] /\ started'[cur'] /\ state'[cur'] = st[cur']
            \/ started[cur'] /\ started'[cur'] /\ state'[cur'] = "ACTIVE"
<1> DEFINE bp == Bypass(st, fl, pd)
<1>1. PICK d \in loaded :
        /\ IsSelected(st, fl, pd, d)
        /\ cur' = d
        /\ \/ /\ ~started[d]
              /\ started' = [started EXCEPT ![d] = TRUE]
              /\ state' = st
              /\ masked' = [masked EXCEPT ![d] = Events]
              /\ flag' = [fl EXCEPT ![d] = FALSE]
              /\ pending' = bp
           \/ /\ started[d]
              /\ state' = [st EXCEPT ![d] = "ACTIVE"]
              /\ SyncEvents(d, fl, bp, masked, intercepted)
              /\ UNCHANGED started
  BY DEF Sched
<1>2. /\ loaded \subseteq Ids /\ d \in Ids
      /\ started \in [Ids -> BOOLEAN] /\ masked \in Bitmaps
      /\ prio \in [Ids -> 0 .. RootPrio]
      /\ bp \in Bitmaps
  BY BypassType DEF TypeOK, Bitmaps
<1> HIDE DEF bp
<1>3. \A a \in Ids \ {d} :
        /\ flag'[a] = fl[a] /\ masked'[a] = masked[a] /\ pending'[a] = bp[a]
        /\ state'[a] = st[a] /\ started'[a] = started[a]
  <2> SUFFICES ASSUME NEW a \in Ids, a # d
               PROVE  /\ flag'[a] = fl[a] /\ masked'[a] = masked[a] /\ pending'[a] = bp[a]
                      /\ state'[a] = st[a] /\ started'[a] = started[a]
    OBVIOUS
  <2>1. CASE ~started[d]
    BY <1>1, <1>2, <2>1 DEF Flags, Bitmaps
  <2>2. CASE started[d]
    <3>1. SyncEvents(d, fl, bp, masked, intercepted)
      BY <1>1, <2>2
    <3>2. flag'[a] = fl[a] /\ masked'[a] = masked[a] /\ pending'[a] = bp[a]
      BY <1>2, <3>1, SyncEventsIsLocal
    <3> QED
      BY <1>1, <1>2, <2>2, <3>2
  <2> QED
    BY <2>1, <2>2
<1>4. \A a \in Above(d) :
        /\ a \in loaded /\ a # d /\ HasNext(a)
        /\ Visited(st, fl, pd, a) /\ ~MayRun(st, fl, pd, a)
  <2> SUFFICES ASSUME NEW a \in Above(d)
               PROVE  /\ a \in loaded /\ a # d /\ HasNext(a)
                      /\ Visited(st, fl, pd, a) /\ ~MayRun(st, fl, pd, a)
    OBVIOUS
  <2>1. a \in loaded /\ a \in Ids /\ Before(a, d)
    BY <1>2 DEF Above
  <2>2. a # d /\ HasNext(a)
    BY <1>2, <2>1, BeforeIsStrictOrder DEF HasNext
  <2>3. \A b \in Above(a) : b \in Above(d)
    BY <1>2, <2>1, BeforeIsStrictOrder DEF Above
  <2>4. \A b \in Above(d) : ~MayRun(st, fl, pd, b)
    BY <1>1 DEF IsSelected, Visited
  <2> QED
    BY <2>1, <2>2, <2>3, <2>4 DEF Visited
<1>5. /\ \A a \in Above(d) : bp[a] = Kept(st, pd, a)
      /\ \A a \in Ids \ loaded : bp[a] = pd[a]
  BY <1>2, <1>4 DEF bp, Bypass
<1>6. \/ ~started[d] /\ started'[d] /\ state'[d] = st[d]
      \/ started[d] /\ started'[d] /\ state'[d] = "ACTIVE"
  BY <1>1, <1>2
<1> QED
  BY <1>1, <1>2, <1>3, <1>4, <1>5, <1>6

-----------------------------------------------------------------------------
(* The inductive invariant.  HighestRuns and NothingStranded speak of the  *)
(* domains above the running one.  Only xm_sched changes which these are   *)
(* and it leaves them as SchedWalk says; the other steps change the        *)
(* running domain, or one below it, and a loader, which is Linux, adds a   *)
(* domain that has not started.  That Linux itself never finishes or waits *)
(* to start is what makes the fallback of xm_sched harmless.               *)
NeverFinished ==
  /\ state[Root] = "ACTIVE" /\ started[Root]
  /\ state[cur] # "FINISHED" /\ started[cur]

Fresh == \A d \in Ids : ~(d < nextId) => ~started[d] /\ pending[d] = {}

SchedInv == TypeOK /\ HighestRuns /\ NothingStranded /\ NeverFinished /\ Fresh

LEMMA SchedInvInit == Init => SchedInv
<1> SUFFICES ASSUME Init
             PROVE  SchedInv
  OBVIOUS
<1>1. TypeOK
  BY TypeInit
<1>2. Root \in Ids /\ RootPrio \in Nat
  BY ConstantsAssumption DEF ConstantsAssumption, Root, Ids
<1>3. Above(cur) = {}
  <2>1. prio[Root] = RootPrio /\ cur = Root /\ loaded = {Root}
    BY <1>2 DEF Init
  <2> QED
    BY <1>2, <2>1 DEF Above, Before, Root
<1>5. NeverFinished
  BY <1>2 DEF Init, NeverFinished
<1>4. Fresh
  <2>1. \A d \in Ids : ~(d < 1) => d # Root
    BY ConstantsAssumption DEF ConstantsAssumption, Ids, Root
  <2>2. \A d \in Ids : pending[d] = {} /\ started[d] = (d = Root)
    BY DEF Init
  <2>3. nextId = 1
    BY DEF Init
  <2> QED
    BY <2>1, <2>2, <2>3 DEF Fresh
<1> QED
  BY <1>1, <1>3, <1>4, <1>5 DEF SchedInv, HighestRuns, NothingStranded

(* Every call of xm_sched establishes the invariant, whatever the handler  *)
(* that makes it did to the state bits, flags and pending events of the    *)
(* domains, as long as the root domain stays ACTIVE; and no domain that    *)
(* was FINISHED before is selected.                                        *)
LEMMA SchedEstablishes ==
  ASSUME SchedInv, TypeOK',
         NEW st \in [Ids -> States], NEW fl \in Flags, NEW pd \in Bitmaps,
         Sched(st, fl, pd),
         st[Root] = "ACTIVE",
         \A a \in Ids \ loaded : pd[a] = pending[a]
  PROVE  /\ SchedInv'
         /\ \A a \in loaded : st[a] = "FINISHED" => state'[a] = "FINISHED" /\ cur' # a
<1>1. TypeOK /\ NeverFinished /\ Fresh
  BY DEF SchedInv
<1>2. /\ IsSelected(st, fl, pd, cur')
      /\ \A a \in Above(cur') :
           /\ ~MayRun(st, fl, pd, a) /\ HasNext(a)
           /\ state'[a] = st[a] /\ flag'[a] = fl[a] /\ masked'[a] = masked[a]
           /\ pending'[a] = Kept(st, pd, a)
      /\ \A a \in Ids \ {cur'} : state'[a] = st[a] /\ started'[a] = started[a]
      /\ \A a \in Ids \ loaded : pending'[a] = pd[a]
      /\ \/ ~started[cur'] /\ started'[cur'] /\ state'[cur'] = st[cur']
         \/ started[cur'] /\ started'[cur'] /\ state'[cur'] = "ACTIVE"
  BY <1>1, SchedWalk
<1>3. /\ loaded' = loaded /\ nextId' = nextId /\ prio' = prio /\ intercepted' = intercepted
      /\ cur' \in loaded /\ loaded \subseteq Ids /\ Root \in Ids
      /\ \A d \in loaded : d < nextId
  <2>1. UNCHANGED <<list, intercepted>> /\ cur' \in loaded
    BY <1>1, SchedType
  <2>2. loaded \subseteq Ids /\ Root \in Ids /\ \A d \in loaded : d < nextId
    BY <1>1 DEF TypeOK
  <2> QED
    BY <2>1, <2>2 DEF list
<1>4. Above(cur)' = Above(cur')
  BY <1>3 DEF Above, Before
<1>5. st[cur'] # "FINISHED"
  BY <1>2 DEF IsSelected, MayRun
<1>6. HighestRuns'
  <2> SUFFICES ASSUME NEW a \in Above(cur')
               PROVE  /\ state'[a] # "ACTIVE"
                      /\ state'[a] = "SUSPENDED" /\ flag'[a] => pending'[a] \subseteq masked'[a]
    BY <1>4 DEF HighestRuns
  <2> QED
    BY <1>2 DEF MayRun
<1>7. NothingStranded'
  <2> SUFFICES ASSUME NEW a \in Above(cur')
               PROVE  IF state'[a] = "FINISHED" THEN pending'[a] = {}
                      ELSE pending'[a] \subseteq intercepted'[a]
    BY <1>4 DEF NothingStranded
  <2>1. \A e \in Kept(st, pd, a) : st[a] # "FINISHED" /\ e \in intercepted[a]
    BY <1>2 DEF Kept, Lets
  <2> QED
    BY <1>2, <1>3, <2>1
<1>8. NeverFinished'
  BY <1>1, <1>2, <1>3, <1>5 DEF NeverFinished
<1>9. Fresh'
  BY <1>1, <1>2, <1>3 DEF Fresh
<1>10. \A a \in loaded : st[a] = "FINISHED" => state'[a] = "FINISHED" /\ cur' # a
  BY <1>2, <1>3, <1>5
<1> QED
  BY <1>6, <1>7, <1>8, <1>9, <1>10 DEF SchedInv

(* A step that changes nothing but the running domain's own events keeps   *)
(* the invariant.                                                          *)
LEMMA LocalStep ==
  ASSUME SchedInv, TypeOK',
         UNCHANGED <<list, cur, state, started>>,
         \A a \in Ids \ {cur} : /\ flag'[a] = flag[a] /\ masked'[a] = masked[a]
                                /\ pending'[a] = pending[a] /\ intercepted'[a] = intercepted[a]
  PROVE  SchedInv'
<1>1. /\ cur \in loaded /\ loaded \subseteq Ids /\ cur < nextId
      /\ prio \in [Ids -> 0 .. RootPrio]
  BY DEF SchedInv, TypeOK
<1>2. Above(cur)' = Above(cur) /\ \A a \in Above(cur) : a \in Ids \ {cur}
  BY <1>1, BeforeIsStrictOrder DEF Above, Before, list
<1>3. HighestRuns' /\ NothingStranded'
  BY <1>2 DEF SchedInv, HighestRuns, NothingStranded
<1>4. NeverFinished' /\ Fresh'
  BY <1>1 DEF SchedInv, NeverFinished, Fresh, list
<1> QED
  BY <1>3, <1>4 DEF SchedInv

(* The steps that call xm_sched.                                           *)
Scheduling ==
  \/ \E e \in IrqLines : Irq(e)
  \/ \E X \in SUBSET loaded : TimerIrq(X)
  \/ SuspendDomain \/ SuspendIoctl \/ ExitDomain \/ Trap
  \/ \E kind \in {"once", "periodic"}, X \in SUBSET loaded : SetTimer(kind, X)

(* Each of them calls it with state bits that differ from the present ones *)
(* for the running domain only, if that is a loaded one, and with the      *)
(* pending events of the nodes of the list changed at most.                *)
LEMMA SchedulingCalls ==
  ASSUME SchedInv, Scheduling
  PROVE  \E st \in [Ids -> States], fl \in Flags, pd \in Bitmaps :
           /\ Sched(st, fl, pd)
           /\ st[Root] = "ACTIVE"
           /\ \A a \in Ids \ loaded : pd[a] = pending[a]
           /\ \A a \in loaded : pending[a] \subseteq pd[a]
           /\ \A a \in loaded : state[a] = "FINISHED" => st[a] = "FINISHED"
<1>1. /\ TypeOK
      /\ state \in [Ids -> States] /\ flag \in Flags /\ pending \in Bitmaps
      /\ loaded \subseteq Ids /\ Root \in Ids /\ cur \in Ids
      /\ state[Root] = "ACTIVE" /\ state[cur] # "FINISHED"
      /\ IrqLines \subseteq Events
  BY ConstantsAssumption
  DEF ConstantsAssumption, SchedInv, TypeOK, NeverFinished, Flags, Bitmaps
<1>2. ASSUME NEW e \in IrqLines, NEW h \in loaded,
             Sched(state, flag, [pending EXCEPT ![h] = @ \cup {e}])
      PROVE  \E pd \in Bitmaps :
               /\ Sched(state, flag, pd)
               /\ \A a \in Ids \ loaded : pd[a] = pending[a]
               /\ \A a \in loaded : pending[a] \subseteq pd[a]
  <2>1. [pending EXCEPT ![h] = @ \cup {e}] \in Bitmaps
    BY <1>1 DEF Bitmaps
  <2>2. /\ \A a \in Ids \ loaded : [pending EXCEPT ![h] = @ \cup {e}][a] = pending[a]
        /\ \A a \in loaded : pending[a] \subseteq [pending EXCEPT ![h] = @ \cup {e}][a]
    BY <1>1 DEF Bitmaps
  <2> QED
    BY <1>2, <2>1, <2>2
<1>3. ASSUME NEW X \in SUBSET loaded
      PROVE  /\ Ticked(X) \in Bitmaps
             /\ \A a \in Ids \ loaded : Ticked(X)[a] = pending[a]
             /\ \A a \in loaded : pending[a] \subseteq Ticked(X)[a]
  BY <1>1, TickedType DEF Ticked
<1>4. ASSUME NEW s \in States, cur # Root
      PROVE  LET st == [state EXCEPT ![cur] = s]
             IN  /\ st \in [Ids -> States]
                 /\ st[Root] = "ACTIVE"
                 /\ \A a \in loaded : state[a] = "FINISHED" => st[a] = "FINISHED"
  BY <1>1, <1>4
<1>5. CASE \E e \in IrqLines : Irq(e)
  <2>1. PICK pd \in Bitmaps :
          /\ Sched(state, flag, pd)
          /\ \A a \in Ids \ loaded : pd[a] = pending[a]
          /\ \A a \in loaded : pending[a] \subseteq pd[a]
    BY <1>2, <1>5 DEF Irq
  <2> QED
    BY <1>1, <2>1
<1>6. CASE \/ \E X \in SUBSET loaded : TimerIrq(X)
           \/ \E kind \in {"once", "periodic"}, X \in SUBSET loaded : SetTimer(kind, X)
  <2>1. PICK X \in SUBSET loaded : Sched(state, flag, Ticked(X))
    BY <1>6 DEF TimerIrq, SetTimer
  <2> QED
    BY <1>1, <1>3, <2>1
<1>7. CASE SuspendDomain \/ SuspendIoctl \/ ExitDomain \/ Trap
  <2>1. cur # Root
    BY <1>7 DEF SuspendDomain, SuspendIoctl, ExitDomain, Trap, Running
  <2>2. PICK s \in States, fl \in Flags : Sched([state EXCEPT ![cur] = s], fl, pending)
    <3>1. [flag EXCEPT ![cur] = FALSE] \in Flags
      BY <1>1 DEF Flags
    <3> QED
      BY <1>1, <1>7, <3>1 DEF SuspendDomain, SuspendIoctl, ExitDomain, Trap, States
  <2> QED
    BY <1>1, <1>4, <2>1, <2>2
<1> QED
  BY <1>5, <1>6, <1>7 DEF Scheduling

(* The steps that change nothing but the running domain's own events.      *)
Local ==
  \/ \E e \in Events : \/ PassEventLoad(e) \/ MaskEvent(e) \/ UnmaskEvent(e)
                       \/ InstallEventHandler(e) \/ UninstallEventHandler(e)
  \/ HandlerReturn \/ EnableEventsFlag \/ DisableEventsFlag
  \/ \E m \in SUBSET Events : SetMaskEvents(m)
  \/ CancelTimer
  \/ Vcli \/ Vsti \/ EmulateIret \/ LinuxIrqReturn
  \/ \E e \in RootEvents : \/ VirtualIrqEnable(e) \/ VirtualIrqDisable(e)
                           \/ VirtualIrqStartup(e) \/ VirtualIrqShutdown(e)

LEMMA LocalChanges ==
  ASSUME SchedInv, Local
  PROVE  /\ UNCHANGED <<list, cur, state, started>>
         /\ \A a \in Ids \ {cur} :
              /\ flag'[a] = flag[a] /\ masked'[a] = masked[a]
              /\ pending'[a] = pending[a] /\ intercepted'[a] = intercepted[a]
<1>1. /\ cur \in Ids /\ Root \in Ids
      /\ flag \in Flags /\ pending \in Bitmaps /\ masked \in Bitmaps /\ intercepted \in Bitmaps
      /\ \A d \in Ids, b \in BOOLEAN : [flag EXCEPT ![d] = b] \in Flags
      /\ RootEvents \subseteq Events
  BY ConstantsAssumption DEF ConstantsAssumption, SchedInv, TypeOK, Flags, Bitmaps
<1>2. CASE \/ \E e \in Events : PassEventLoad(e)
           \/ CancelTimer \/ DisableEventsFlag \/ Vcli \/ EmulateIret
  <2>1. /\ UNCHANGED <<list, cur, state, started, intercepted, masked, pending>>
        /\ flag' = flag \/ \E b \in BOOLEAN : flag' = [flag EXCEPT ![cur] = b]
    BY <1>2
    DEF PassEventLoad, CancelTimer, DisableEventsFlag, Vcli, EmulateIret, Linux, events
  <2> QED
    BY <1>1, <2>1 DEF Flags
<1>3. CASE \/ \E e \in Events : MaskEvent(e) \/ UnmaskEvent(e)
           \/ \E m \in SUBSET Events : SetMaskEvents(m)
           \/ \E e \in RootEvents : \/ VirtualIrqEnable(e) \/ VirtualIrqDisable(e)
                                    \/ VirtualIrqStartup(e) \/ VirtualIrqShutdown(e)
  <2>1. /\ UNCHANGED <<list, cur, state, started, intercepted, flag, pending>>
        /\ \E m : masked' = [masked EXCEPT ![cur] = m]
    BY <1>3
    DEF MaskEvent, UnmaskEvent, SetMaskEvents, VirtualIrqEnable, VirtualIrqDisable,
        VirtualIrqStartup, VirtualIrqShutdown, Linux
  <2> QED
    BY <1>1, <2>1 DEF Bitmaps
<1>4. CASE HandlerReturn
  <2> DEFINE local == Head(frames[cur]).local
             fl    == [flag EXCEPT ![cur] = TRUE]
  <2>1. /\ RunHandlers(cur, local, Tail(frames[cur]), fl, masked, intercepted)
        /\ UNCHANGED <<list, cur, state, started, intercepted, pending>>
    BY <1>4 DEF HandlerReturn
  <2>2. fl \in Flags /\ \A a \in Ids \ {cur} : fl[a] = flag[a]
    BY <1>1 DEF Flags
  <2> HIDE DEF local, fl
  <2> QED
    BY <1>1, <2>1, <2>2, RunHandlersIsLocal
<1>5. CASE LinuxIrqReturn
  <2>1. cur = Root /\ UNCHANGED <<list, cur, state, started, intercepted, pending>>
    BY <1>5 DEF LinuxIrqReturn
  <2> DEFINE f  == Head(frames[Root])
             fl == [flag EXCEPT ![Root] = TRUE]
             mk == [masked EXCEPT ![Root] = @ \ {f.ev}]
  <2>2. RunHandlers(Root, f.local, Tail(frames[Root]), fl, mk, intercepted)
    BY <1>5 DEF LinuxIrqReturn
  <2>3. fl \in Flags /\ mk \in Bitmaps
    BY <1>1 DEF Bitmaps
  <2>4. \A a \in Ids \ {Root} : fl[a] = flag[a] /\ mk[a] = masked[a]
    BY <1>1 DEF Flags, Bitmaps
  <2> HIDE DEF f, fl, mk
  <2> QED
    BY <1>1, <2>1, <2>2, <2>3, <2>4, RunHandlersIsLocal
<1>6. CASE EnableEventsFlag \/ Vsti
  <2> DEFINE fl == [flag EXCEPT ![cur] = TRUE]
  <2>1. /\ SyncEvents(cur, fl, pending, masked, intercepted)
        /\ UNCHANGED <<list, cur, state, started, intercepted>>
    BY <1>6 DEF EnableEventsFlag, Vsti, Linux
  <2>2. fl \in Flags /\ \A a \in Ids \ {cur} : fl[a] = flag[a]
    BY <1>1 DEF Flags
  <2> HIDE DEF fl
  <2> QED
    BY <1>1, <2>1, <2>2, SyncEventsIsLocal
<1>7. ASSUME NEW e \in Events, InstallEventHandler(e) \/ UninstallEventHandler(e)
      PROVE  /\ UNCHANGED <<list, cur, state, started>>
             /\ \A a \in Ids \ {cur} :
                  /\ flag'[a] = flag[a] /\ masked'[a] = masked[a]
                  /\ pending'[a] = pending[a] /\ intercepted'[a] = intercepted[a]
  <2>1. PICK handled : SetHandler(e, handled)
    BY <1>7 DEF InstallEventHandler, UninstallEventHandler
  <2> DEFINE mk == [masked EXCEPT ![cur] = @ \cup {e}]
             fl == [flag EXCEPT ![cur] = TRUE]
             ic == [intercepted EXCEPT ![cur] = handled]
  <2>2. /\ intercepted' = ic
        /\ SyncEvents(cur, fl, pending, mk, ic)
        /\ UNCHANGED <<list, cur, state, started>>
    BY <2>1 DEF SetHandler
  <2>3. /\ mk \in Bitmaps /\ fl \in Flags
        /\ \A a \in Ids \ {cur} : mk[a] = masked[a] /\ fl[a] = flag[a] /\ ic[a] = intercepted[a]
    BY <1>1 DEF Flags, Bitmaps
  <2> HIDE DEF mk, fl, ic
  <2> QED
    BY <1>1, <2>2, <2>3, SyncEventsIsLocal
<1> QED
  BY <1>2, <1>3, <1>4, <1>5, <1>6, <1>7 DEF Local

LEMMA SchedInvNext == SchedInv /\ [Next]_vars => SchedInv'
<1> SUFFICES ASSUME SchedInv, [Next]_vars
             PROVE  SchedInv'
  OBVIOUS
<1>1. TypeOK /\ TypeOK'
  BY TypeNext DEF SchedInv
<1>2. /\ cur \in loaded /\ loaded \subseteq Ids /\ cur < nextId
      /\ \A d \in loaded : d < nextId
      /\ prio \in [Ids -> 0 .. RootPrio]
  BY <1>1 DEF TypeOK
<1>3. CASE Scheduling
  BY <1>1, <1>3, SchedulingCalls, SchedEstablishes
<1>4. CASE Local
  BY <1>1, <1>4, LocalChanges, LocalStep
<1>5. CASE PassEventStore
  <2>1. PICK b \in loaded, p \in passing[cur] :
          /\ Before(cur, b)
          /\ pending' = [pending EXCEPT ![b] = p.local \cup {p.ev}]
          /\ UNCHANGED <<list, cur, state, started, intercepted, masked, flag>>
    BY <1>5 DEF PassEventStore, IsNext
  <2>2. /\ \A a \in Above(cur) : a \in Ids /\ a # b
        /\ Above(cur)' = Above(cur)
    BY <1>2, <2>1, BeforeIsStrictOrder DEF Above, Before, list
  <2>3. \A a \in Ids \ {b} : pending'[a] = pending[a]
    BY <1>1, <2>1 DEF TypeOK
  <2>4. HighestRuns' /\ NothingStranded'
    BY <2>1, <2>2, <2>3 DEF SchedInv, HighestRuns, NothingStranded
  <2>5. NeverFinished' /\ Fresh'
    BY <1>2, <2>1, <2>3 DEF SchedInv, NeverFinished, Fresh, list
  <2> QED
    BY <1>1, <2>4, <2>5 DEF SchedInv
<1>6. CASE (\E p \in Prios : LoadDomain(p)) \/ LoadDomainFails
  <2>1. /\ nextId \in Ids /\ nextId' = nextId + 1
        /\ UNCHANGED <<cur, started, intercepted, masked, pending, flag>>
        /\ loaded' \subseteq loaded \cup {nextId}
        /\ \A a \in Ids \ {nextId} : prio'[a] = prio[a] /\ state'[a] = state[a]
        /\ nextId \in loaded' => state'[nextId] = "ACTIVE"
    <3>1. nextId \in Ids /\ nextId' = nextId + 1
      BY <1>1, <1>6, ConstantsAssumption
      DEF ConstantsAssumption, LoadDomain, LoadDomainFails, TypeOK, Ids
    <3> QED
      BY <1>1, <1>2, <1>6, <3>1 DEF LoadDomain, LoadDomainFails, TypeOK, events
  <2>2. ~started[nextId] /\ pending[nextId] = {} /\ cur # nextId /\ Root # nextId
    <3>1. ~(nextId < nextId)
      BY <1>1, ConstantsAssumption DEF ConstantsAssumption, TypeOK
    <3>2. ~started[nextId] /\ pending[nextId] = {}
      BY <2>1, <3>1 DEF SchedInv, Fresh
    <3> QED
      BY <1>1, <3>1, <3>2 DEF TypeOK
  <2>3. \A a \in Above(cur)' : a \in Ids /\ (a = nextId \/ a \in Above(cur))
    BY <1>2, <2>1, <2>2 DEF Above, Before
  <2>4. HighestRuns'
    BY <1>2, <2>1, <2>2, <2>3 DEF SchedInv, HighestRuns, Above
  <2>5. NothingStranded'
    <3>1. \A a \in Above(cur)' : a = nextId => a \in loaded'
      BY DEF Above
    <3> QED
      BY <1>2, <2>1, <2>2, <2>3, <3>1 DEF SchedInv, NothingStranded, Above
  <2>6. NeverFinished'
    BY <1>2, <2>1, <2>2 DEF SchedInv, NeverFinished, TypeOK
  <2>7. Fresh'
    <3> SUFFICES ASSUME NEW d \in Ids, ~(d < nextId')
                 PROVE  ~started'[d] /\ pending'[d] = {}
      BY DEF Fresh
    <3>1. nextId \in Nat /\ d \in Nat
      BY <2>1, ConstantsAssumption DEF ConstantsAssumption, Ids
    <3>2. ~(d < nextId)
      BY <2>1, <3>1
    <3>3. ~started[d] /\ pending[d] = {}
      BY <3>2 DEF SchedInv, Fresh
    <3> QED
      BY <2>1, <3>3
  <2> QED
    BY <1>1, <2>4, <2>5, <2>6, <2>7 DEF SchedInv
<1>7. CASE \E d \in Ids : UnloadDomain(d)
  <2>1. PICK d \in Ids :
          /\ d # cur /\ loaded' \subseteq loaded
          /\ UNCHANGED <<nextId, prio, cur, state, started>>
          /\ \A a \in Ids \ {d} : /\ flag'[a] = flag[a] /\ masked'[a] = masked[a]
                                  /\ pending'[a] = pending[a] /\ intercepted'[a] = intercepted[a]
          /\ pending'[d] = {} /\ d \notin loaded'
    <3>1. PICK d \in Ids : UnloadDomain(d)
      BY <1>7
    <3>2. /\ d # cur /\ loaded' = loaded \ {d}
          /\ UNCHANGED <<nextId, prio, cur, state, started>>
          /\ flag' = [flag EXCEPT ![d] = FALSE] /\ masked' = [masked EXCEPT ![d] = {}]
          /\ pending' = [pending EXCEPT ![d] = {}]
          /\ intercepted' = [intercepted EXCEPT ![d] = {}]
      BY <3>1 DEF UnloadDomain, InLoader, Linux
    <3> QED
      BY <1>1, <3>2 DEF TypeOK
  <2>2. \A a \in Above(cur)' : a \in Above(cur) /\ a \in Ids \ {d}
    BY <1>2, <2>1 DEF Above, Before
  <2>3. HighestRuns' /\ NothingStranded'
    BY <2>1, <2>2 DEF SchedInv, HighestRuns, NothingStranded
  <2>4. NeverFinished' /\ Fresh'
    BY <2>1 DEF SchedInv, NeverFinished, Fresh
  <2> QED
    BY <1>1, <2>3, <2>4 DEF SchedInv
<1>8. CASE UNCHANGED vars
  <2>1. /\ UNCHANGED <<loaded, nextId, prio, cur, state, started, intercepted, masked, pending,
                       flag>>
        /\ Above(cur)' = Above(cur)
    BY <1>8 DEF vars, list, events, Above, Before
  <2> QED
    BY <1>1, <2>1 DEF SchedInv, HighestRuns, NothingStranded, NeverFinished, Fresh
<1> QED
  BY <1>3, <1>4, <1>5, <1>6, <1>7, <1>8
  DEF Next, Interrupts, DomainSteps, LinuxSteps, Scheduling, Local

LEMMA SchedInvariant == Spec => []SchedInv
  BY SchedInvInit, SchedInvNext, PTL DEF Spec

(* The scheduler is strictly preemptive, for every number of domains and   *)
(* events: no domain that has started and could run is above the one that  *)
(* runs.                                                                   *)
THEOREM HighestAlwaysRuns == Spec => []HighestRuns
<1>1. SchedInv => HighestRuns
  BY DEF SchedInv
<1> QED
  BY <1>1, SchedInvariant, PTL

(* The bypass of xm_sched strands no event above the running domain.       *)
THEOREM NothingEverStranded == Spec => []NothingStranded
<1>1. SchedInv => NothingStranded
  BY DEF SchedInv
<1> QED
  BY <1>1, SchedInvariant, PTL

(* exit_domain_sys, generic_trap_handler and the tail of init_wrapper      *)
(* never return: a FINISHED domain stays FINISHED and never runs again.    *)
THEOREM FinishedStaysFinished == Spec => FinishedForever
<1> DEFINE Stays == \A d \in loaded : (state[d] = "FINISHED" /\ d \in loaded') =>
                      state'[d] = "FINISHED" /\ cur' # d
<1>1. SchedInv /\ [Next]_vars => [Stays]_vars
  <2> SUFFICES ASSUME SchedInv, Next
               PROVE  Stays
    BY DEF SchedInv
  <2>1. TypeOK' /\ state[cur] # "FINISHED" /\ loaded \subseteq Ids
    BY TypeNext DEF SchedInv, NeverFinished, TypeOK
  <2>2. CASE Scheduling
    BY <2>1, <2>2, SchedulingCalls, SchedEstablishes
  <2>3. CASE Local
    BY <2>1, <2>3, LocalChanges
  <2>4. CASE PassEventStore \/ LoadDomainFails \/ \E d \in Ids : UnloadDomain(d)
    BY <2>1, <2>4 DEF PassEventStore, LoadDomainFails, UnloadDomain
  <2>5. CASE \E p \in Prios : LoadDomain(p)
    <3>1. \A d \in loaded : d # nextId
      BY ConstantsAssumption DEF ConstantsAssumption, SchedInv, TypeOK, Ids
    <3>2. cur' = cur /\ state' = [state EXCEPT ![nextId] = "ACTIVE"]
      BY <2>5 DEF LoadDomain
    <3> QED
      BY <2>1, <3>1, <3>2 DEF SchedInv, TypeOK
  <2> QED
    BY <2>2, <2>3, <2>4, <2>5 DEF Next, Interrupts, DomainSteps, LinuxSteps, Scheduling, Local
<1> QED
  BY <1>1, SchedInvariant, PTL DEF Spec, FinishedForever

-----------------------------------------------------------------------------
(* The walk of xm_sched loses no event: what a domain lets go its          *)
(* successor has, down to the first that keeps it, the last of the list or *)
(* the one behind the domain that is selected.                             *)

LEMMA LeastNat ==
  ASSUME NEW T, T \subseteq Nat, T # {}
  PROVE  \E n \in T : \A m \in T : n <= m
<1>1. PICK n \in T : \A m \in T : ~(<<m, n>> \in OpToRel(<, Nat))
  BY NatLessThanWellFounded, WFMin
<1>2. ASSUME NEW m \in T PROVE ~(m < n)
  <2>1. <<m, n>> \in Nat \X Nat /\ <<m, n>>[1] = m /\ <<m, n>>[2] = n
    OBVIOUS
  <2>2. m < n => <<m, n>>[1] < <<m, n>>[2]
    BY <2>1
  <2>3. m < n => <<m, n>> \in OpToRel(<, Nat)
    BY <2>1, <2>2, Zenon DEF OpToRel
  <2> QED
    BY <1>1, <2>3
<1> QED
  BY <1>2

LEMMA GreatestNat ==
  ASSUME NEW N \in Nat, NEW T, T \subseteq 0 .. N, T # {}
  PROVE  \E n \in T : \A m \in T : m <= n
<1> DEFINE U == {N - n : n \in T}
<1>1. \A n \in T : n \in Nat /\ N - n \in Nat
  OBVIOUS
<1>2. U \subseteq Nat /\ U # {}
  BY <1>1
<1> HIDE DEF U
<1>3. PICK k \in U : \A m \in U : k <= m
  BY <1>2, LeastNat
<1>4. PICK n \in T : k = N - n
  BY DEF U
<1>5. ASSUME NEW m \in T PROVE m <= n
  <2>1. N - m \in U
    BY DEF U
  <2> QED
    BY <1>1, <1>3, <1>4, <2>1
<1> QED
  BY <1>5

(* The first and the last of some nodes of the list.                       *)
LEMMA FirstOfNodes ==
  ASSUME TypeOK, NEW T \in SUBSET loaded, T # {}
  PROVE  \E a \in T : \A b \in T : b = a \/ Before(a, b)
<1>1. \A a \in T : a \in Nat /\ prio[a] \in Nat
  BY ConstantsAssumption DEF ConstantsAssumption, TypeOK, Ids
<1> DEFINE P == {prio[a] : a \in T}
<1>2. P \subseteq Nat /\ P # {}
  BY <1>1
<1>3. PICK p \in P : \A q \in P : p <= q
  <2> HIDE DEF P
  <2> QED
    BY <1>2, LeastNat
<1> DEFINE I == {a \in T : prio[a] = p}
<1>4. I \subseteq Nat /\ I # {}
  BY <1>1
<1>5. PICK a \in I : \A b \in I : a <= b
  <2> HIDE DEF I
  <2> QED
    BY <1>4, LeastNat
<1>6. ASSUME NEW b \in T PROVE b = a \/ Before(a, b)
  BY <1>1, <1>3, <1>5 DEF Before
<1> QED
  BY <1>5, <1>6

LEMMA LastOfNodes ==
  ASSUME TypeOK, NEW T \in SUBSET loaded, T # {}
  PROVE  \E a \in T : \A b \in T : b = a \/ Before(b, a)
<1>1. /\ \A a \in T : a \in 0 .. MaxId /\ prio[a] \in 0 .. RootPrio
      /\ MaxId \in Nat /\ RootPrio \in Nat
  BY ConstantsAssumption DEF ConstantsAssumption, TypeOK, Ids
<1> DEFINE P == {prio[a] : a \in T}
<1>2. P \subseteq 0 .. RootPrio /\ P # {}
  BY <1>1
<1>3. PICK p \in P : \A q \in P : q <= p
  <2> HIDE DEF P
  <2> QED
    BY <1>1, <1>2, GreatestNat
<1> DEFINE I == {a \in T : prio[a] = p}
<1>4. I \subseteq 0 .. MaxId /\ I # {}
  BY <1>1
<1>5. PICK a \in I : \A b \in I : b <= a
  <2> HIDE DEF I
  <2> QED
    BY <1>1, <1>4, GreatestNat
<1>6. ASSUME NEW b \in T PROVE b = a \/ Before(b, a)
  BY <1>1, <1>3, <1>5 DEF Before
<1> QED
  BY <1>5, <1>6

LEMMA WalkLosesNothing ==
  ASSUME TypeOK, NEW st, NEW fl, NEW pd \in Bitmaps,
         NEW d \in loaded, NEW e \in pd[d]
  PROVE  \E c \in loaded : e \in Bypass(st, fl, pd)[c]
<1>1. /\ loaded \subseteq Ids /\ prio \in [Ids -> 0 .. RootPrio] /\ e \in Events
      /\ \A c \in Ids : pd[c] \in SUBSET Events
  BY DEF TypeOK, Bitmaps
<1>2. \A c \in loaded :
        Bypass(st, fl, pd)[c] =
          IF Visited(st, fl, pd, c) THEN Kept(st, pd, c)
          ELSE IF \E a \in Above(c) : IsNext(a, c) /\ Visited(st, fl, pd, a)
               THEN Arrived(st, pd, c)
          ELSE pd[c]
  BY <1>1 DEF Bypass
<1>3. pd[d] \subseteq Arrived(st, pd, d)
  BY <1>1 DEF Arrived
<1>4. CASE ~Visited(st, fl, pd, d)
  BY <1>2, <1>3, <1>4
<1>5. CASE Visited(st, fl, pd, d)
  <2> DEFINE From == {c \in loaded : c = d \/ Before(d, c)}
             GoesOn(c) == Visited(st, fl, pd, c) /\ Lets(st, c, e) /\ HasNext(c)
             T == {c \in From : ~GoesOn(c)}
  <2>1. T # {}
    <3>1. PICK l \in From : \A b \in From : b = l \/ Before(b, l)
      <4>1. From \in SUBSET loaded /\ From # {}
        OBVIOUS
      <4> HIDE DEF From
      <4> QED
        BY <4>1, LastOfNodes
    <3>2. ~HasNext(l)
      <4> SUFFICES ASSUME NEW b \in loaded, Before(l, b) PROVE FALSE
        BY DEF HasNext
      <4>1. l = d \/ Before(d, l)
        BY <3>1
      <4>2. b \in From
        BY <1>1, <4>1, BeforeIsStrictOrder
      <4> QED
        BY <1>1, <3>1, <4>2, BeforeIsStrictOrder
    <3> QED
      BY <3>1, <3>2
  <2>2. PICK c \in T : \A b \in T : b = c \/ Before(c, b)
    <3>1. T \in SUBSET loaded
      OBVIOUS
    <3> HIDE DEF T
    <3> QED
      BY <2>1, <3>1, FirstOfNodes
  <2>3. c \in loaded /\ (c = d \/ Before(d, c)) /\ ~GoesOn(c)
    BY <2>2
  <2>4. \A b \in loaded : (b = d \/ Before(d, b)) /\ Before(b, c) => GoesOn(b)
    <3> SUFFICES ASSUME NEW b \in loaded, b = d \/ Before(d, b), Before(b, c), ~GoesOn(b)
                 PROVE  FALSE
      OBVIOUS
    <3>1. b \in T
      OBVIOUS
    <3> QED
      BY <1>1, <2>2, <2>3, <3>1, BeforeIsStrictOrder
  <2>5. e \in Arrived(st, pd, c)
    <3>1. CASE c = d
      BY <1>3, <3>1
    <3>2. CASE Before(d, c)
      <4>1. d \in Above(c) /\ \A b \in Above(c) : b \in loaded /\ Before(b, c)
        BY <3>2 DEF Above
      <4>2. \A b \in Above(c) : (b = d \/ Before(d, b)) => Lets(st, b, e)
        BY <2>4, <4>1
      <4> QED
        BY <1>1, <4>1, <4>2 DEF Arrived
    <3> QED
      BY <2>3, <3>1, <3>2
  <2>6. CASE Visited(st, fl, pd, c)
    <3>1. e \in Kept(st, pd, c)
      BY <2>3, <2>5, <2>6 DEF Kept
    <3> QED
      BY <1>2, <2>3, <2>6, <3>1
  <2>7. CASE ~Visited(st, fl, pd, c)
    <3>1. Above(c) \in SUBSET loaded /\ d \in Above(c)
      BY <1>5, <2>3, <2>7 DEF Above
    <3>2. PICK a \in Above(c) : \A b \in Above(c) : b = a \/ Before(b, a)
      <4>1. Above(c) # {}
        BY <3>1
      <4> QED
        BY <3>1, <4>1, LastOfNodes
    <3>3. a \in loaded /\ Before(a, c) /\ (a = d \/ Before(d, a))
      BY <3>1, <3>2 DEF Above
    <3>4. Visited(st, fl, pd, a)
      BY <2>4, <3>3
    <3>5. IsNext(a, c)
      <4>1. ~ \E b \in Above(c) : Before(a, b)
        BY <1>1, <3>1, <3>2, <3>3, BeforeIsStrictOrder
      <4> QED
        BY <2>3, <3>3, <4>1 DEF IsNext
    <3> QED
      BY <1>2, <2>3, <2>5, <2>7, <3>2, <3>4, <3>5
  <2> QED
    BY <2>6, <2>7
<1> QED
  BY <1>4, <1>5

(* A domain holds e in the local copy of a loop.                           *)
InFrames(d, e) == \E i \in DOMAIN frames[d] : e \in frames[d][i].local

(* What the loop of sync_events of domain d does to an event e that its    *)
(* local copy has or a frame below.                                        *)
LoopKeeps(d, local, rest, mk, ic, e) ==
  /\ (\E i \in DOMAIN rest : e \in rest[i].local) => InFrames(d, e)'
  /\ \A a \in Ids \ {d} : frames'[a] = frames[a]
  /\ mk[d] \subseteq masked'[d] /\ masked'[d] \cap (local \ ic[d]) \subseteq mk[d]
  /\ e \in local =>
       \/ e \in mk[d] \/ e \notin ic[d]
       \/ InFrames(d, e)'
       \/ /\ frames'[d] # <<>> /\ Len(frames'[d]) = Len(rest) + 1
          /\ Head(frames'[d]).ev = e /\ e \notin Head(frames'[d]).local
          /\ e \in masked'[d] \cap ic[d]

LEMMA LoopLosesNothing ==
  ASSUME frames \in [Ids -> Seq(Frames)],
         NEW d \in Ids, NEW local \in SUBSET Events, NEW rest \in Seq(Frames),
         NEW fl \in Flags, NEW mk \in Bitmaps, NEW ic \in Bitmaps,
         RunHandlers(d, local, rest, fl, mk, ic),
         NEW e \in Events
  PROVE  LoopKeeps(d, local, rest, mk, ic, e)
<1> DEFINE ready == (local \ mk[d]) \cap ic[d]
           kept(x) == {y \in local : y > x \/ y \in mk[d]}
           frame(x) == [ev |-> x, local |-> kept(x)]
<1>1. CASE ready = {} /\ frames' = [frames EXCEPT ![d] = rest] /\ masked' = mk
  <2>1. frames'[d] = rest /\ \A a \in Ids \ {d} : frames'[a] = frames[a]
    BY <1>1
  <2> QED
    BY <1>1, <2>1 DEF LoopKeeps, InFrames
<1>2. ASSUME NEW x \in ready, IsFirst(x, ready),
             frames' = [frames EXCEPT ![d] = <<frame(x)>> \o rest],
             masked' = [mk EXCEPT ![d] = @ \cup {x}]
      PROVE  LoopKeeps(d, local, rest, mk, ic, e)
  <2>1. frame(x) \in Frames
    BY DEF Frames
  <2>2. frame(x).ev = x /\ frame(x).local = kept(x)
    OBVIOUS
  <2> DEFINE fr == <<frame(x)>> \o rest
  <2>3. frames'[d] = fr /\ \A a \in Ids \ {d} : frames'[a] = frames[a]
    BY <1>2
  <2> HIDE DEF frame
  <2>4. /\ Len(fr) = Len(rest) + 1 /\ fr # <<>> /\ fr[1] = frame(x) /\ Head(fr) = frame(x)
        /\ \A i \in DOMAIN rest : fr[i + 1] = rest[i] /\ i + 1 \in DOMAIN fr
        /\ 1 \in DOMAIN fr
    BY <2>1
  <2> HIDE DEF fr
  <2>5. (\E i \in DOMAIN rest : e \in rest[i].local) =>
           InFrames(d, e)'
    BY <2>3, <2>4 DEF InFrames
  <2>6. mk[d] \subseteq masked'[d] /\ masked'[d] \cap (local \ ic[d]) \subseteq mk[d]
    BY <1>2 DEF Bitmaps
  <2>7. ASSUME e \in local, e \notin mk[d], e \in ic[d], e # x
        PROVE  InFrames(d, e)'
    <3>1. x \in Nat /\ e \in Nat /\ x <= e
      BY <1>2, <2>7, ConstantsAssumption DEF ConstantsAssumption, IsFirst
    <3>2. e \in kept(x)
      BY <2>7, <3>1
    <3> QED
      BY <2>2, <2>3, <2>4, <3>2 DEF InFrames
  <2>8. /\ x \in Nat /\ x \notin mk[d] => x \notin kept(x)
        /\ x \in masked'[d] \cap ic[d]
    BY <1>2 DEF Bitmaps
  <2>9. x \in Nat /\ x \notin mk[d]
    BY <1>2, ConstantsAssumption DEF ConstantsAssumption
  <2> QED
    BY <2>2, <2>3, <2>4, <2>5, <2>6, <2>7, <2>8, <2>9 DEF LoopKeeps
<1> QED
  BY <1>1, <1>2 DEF RunHandlers

(* d takes e: its handler is called, with e masked.                        *)
Taken(d, e) == Delivered(e) /\ e \in masked'[d] \cap intercepted'[d]

(* sync_events on domain d, with the events e that pd has.                 *)
LEMMA SyncLosesNothing ==
  ASSUME TypeOK, loaded \subseteq loaded', loaded' \subseteq Ids,
         NEW d \in loaded,
         NEW fl \in Flags, NEW pd \in Bitmaps, NEW mk \in Bitmaps, NEW ic \in Bitmaps,
         SyncEvents(d, fl, pd, mk, ic), intercepted' = ic,
         NEW e \in Events,
         \E a \in loaded : e \in pd[a] \/ InFrames(a, e)
  PROVE  Held(e)' \/ Taken(d, e) \/ (e \in pd[d] /\ e \notin masked'[d] \cup ic[d])
<1>1. /\ loaded \subseteq Ids /\ frames \in [Ids -> Seq(Frames)] /\ d \in loaded'
      /\ \A a \in Ids : frames[a] \in Seq(Frames)
  BY DEF TypeOK
<1>2. CASE pending' = pd /\ UNCHANGED frames
  BY <1>1, <1>2 DEF Held, Holds, InFrames
<1>3. CASE /\ pending' = [pd EXCEPT ![d] = @ \cap mk[d]]
           /\ RunHandlers(d, pd[d], frames[d], fl, mk, ic)
  <2>1. /\ \A a \in Ids \ {d} : pending'[a] = pd[a]
        /\ pending'[d] = pd[d] \cap mk[d] /\ pd[d] \in SUBSET Events
    BY <1>1, <1>3 DEF Bitmaps
  <2>2. LoopKeeps(d, pd[d], frames[d], mk, ic, e)
    BY <1>1, <1>3, <2>1, LoopLosesNothing
  <2>3. ASSUME NEW a \in loaded, InFrames(a, e) PROVE Held(e)'
    BY <1>1, <2>2, <2>3 DEF LoopKeeps, InFrames, Held, Holds
  <2>4. ASSUME NEW a \in loaded, a # d, e \in pd[a] PROVE Held(e)'
    BY <1>1, <2>1, <2>4 DEF Held, Holds
  <2>5. ASSUME e \in pd[d], e \in mk[d] PROVE Held(e)'
    BY <1>1, <2>1, <2>5 DEF Held, Holds
  <2>6. ASSUME e \in pd[d], e \notin mk[d], e \notin ic[d] PROVE e \notin masked'[d]
    BY <2>2, <2>6 DEF LoopKeeps
  <2>7. ASSUME e \in pd[d], InFrames(d, e)'
        PROVE  Held(e)'
    BY <1>1, <2>7 DEF InFrames, Held, Holds
  <2>8. ASSUME frames'[d] # <<>>, Len(frames'[d]) = Len(frames[d]) + 1,
               Head(frames'[d]).ev = e
        PROVE  Delivered(e)
    <3>1. Len(frames[d]) \in Nat
      BY <1>1
    <3>2. frames'[d] # frames[d] /\ Len(frames'[d]) >= Len(frames[d])
      BY <2>8, <3>1
    <3> QED
      BY <1>1, <2>8, <3>2 DEF Delivered
  <2> QED
    BY <2>2, <2>3, <2>4, <2>5, <2>6, <2>7, <2>8 DEF LoopKeeps, Taken
<1> QED
  BY <1>2, <1>3 DEF SyncEvents

(* A call of xm_sched with the pending events pd.                          *)
LEMMA SchedLoses ==
  ASSUME TypeOK,
         NEW st \in [Ids -> States], NEW fl \in Flags, NEW pd \in Bitmaps,
         Sched(st, fl, pd),
         NEW e \in Events,
         \E a \in loaded : e \in pd[a] \/ InFrames(a, e)
  PROVE  \/ Held(e)' \/ Taken(cur', e)
         \/ e \notin masked'[cur'] \cup intercepted'[cur'] /\ ~HasNext(cur)'
<1> DEFINE bp == Bypass(st, fl, pd)
<1>1. PICK d \in loaded :
        /\ IsSelected(st, fl, pd, d)
        /\ cur' = d
        /\ \/ pending' = bp /\ UNCHANGED frames
           \/ SyncEvents(d, fl, bp, masked, intercepted)
        /\ UNCHANGED <<list, intercepted>>
  BY DEF Sched
<1>2. /\ loaded' = loaded /\ prio' = prio /\ intercepted' = intercepted /\ loaded \subseteq Ids
      /\ bp \in Bitmaps /\ masked \in Bitmaps /\ intercepted \in Bitmaps
  BY <1>1, BypassType DEF TypeOK, Bitmaps, list
<1>3. \E a \in loaded : e \in bp[a] \/ InFrames(a, e)
  BY WalkLosesNothing
<1>4. e \in bp[d] /\ e \notin intercepted[d] => ~HasNext(d)
  <2>1. Visited(st, fl, pd, d)
    BY <1>1 DEF IsSelected
  <2>2. bp[d] = Kept(st, pd, d)
    BY <1>2, <2>1 DEF Bypass
  <2> HIDE DEF bp
  <2> QED
    BY <2>2 DEF Kept, Lets
<1>5. HasNext(d)' = HasNext(d)
  BY <1>1, <1>2 DEF HasNext, Before
<1> HIDE DEF bp
<1>6. CASE pending' = bp /\ UNCHANGED frames
  BY <1>2, <1>3, <1>6 DEF Held, Holds, InFrames
<1>7. CASE SyncEvents(d, fl, bp, masked, intercepted)
  BY <1>1, <1>2, <1>3, <1>4, <1>5, <1>7, SyncLosesNothing
<1> QED
  BY <1>1, <1>6, <1>7

(* A handler returns to the loop that called it, with the mask mk.         *)
LEMMA ReturnLosesNothing ==
  ASSUME TypeOK, frames[cur] # <<>>, NEW fl \in Flags, NEW mk \in Bitmaps,
         RunHandlers(cur, Head(frames[cur]).local, Tail(frames[cur]), fl, mk, intercepted),
         UNCHANGED <<list, cur, intercepted, pending>>,
         NEW e \in Events, Held(e)
  PROVE  \/ Held(e)' \/ Taken(cur, e)
         \/ InFrames(cur, e) /\ (e \in masked'[cur] \/ e \notin intercepted[cur])
<1> DEFINE local == Head(frames[cur]).local
           rest  == Tail(frames[cur])
<1>1. /\ cur \in loaded /\ loaded \subseteq Ids /\ intercepted \in Bitmaps
      /\ frames \in [Ids -> Seq(Frames)] /\ frames[cur] \in Seq(Frames)
      /\ loaded' = loaded /\ cur' = cur /\ intercepted' = intercepted /\ pending' = pending
  BY DEF TypeOK, Bitmaps, list
<1>2. /\ Head(frames[cur]) \in Frames /\ rest \in Seq(Frames)
      /\ Len(frames[cur]) = Len(rest) + 1 /\ Len(rest) \in Nat
      /\ frames[cur][1] = Head(frames[cur]) /\ 1 \in DOMAIN frames[cur]
      /\ \A i \in DOMAIN frames[cur] :
           i = 1 \/ (i - 1 \in DOMAIN rest /\ rest[i - 1] = frames[cur][i])
  BY <1>1, HeadTailProperties
<1>3. local \in SUBSET Events
  BY <1>2 DEF Frames
<1>4. RunHandlers(cur, local, rest, fl, mk, intercepted)
  OBVIOUS
<1>5. InFrames(cur, e) => e \in local \/ \E i \in DOMAIN rest : e \in rest[i].local
  BY <1>2 DEF InFrames
<1>6. e \in local => InFrames(cur, e)
  BY <1>2 DEF InFrames
<1> HIDE DEF local, rest
<1>7. LoopKeeps(cur, local, rest, mk, intercepted, e)
  BY <1>1, <1>2, <1>3, <1>4, LoopLosesNothing
<1>8. PICK a \in loaded : e \in pending[a] \/ InFrames(a, e)
  BY DEF Held, Holds, InFrames
<1>9. CASE e \in pending[a] \/ InFrames(cur, e)' \/ a # cur
  BY <1>1, <1>7, <1>8, <1>9 DEF LoopKeeps, Held, Holds, InFrames
<1>10. CASE e \in local /\ (e \in mk[cur] \/ e \notin intercepted[cur])
  BY <1>1, <1>6, <1>7, <1>10 DEF LoopKeeps
<1>11. CASE /\ frames'[cur] # <<>> /\ Len(frames'[cur]) = Len(rest) + 1
            /\ Head(frames'[cur]).ev = e /\ e \notin Head(frames'[cur]).local
            /\ e \in local /\ e \in masked'[cur] \cap intercepted[cur]
  <2>1. frames'[cur] # frames[cur]
    BY <1>11 DEF local
  <2>2. Len(frames'[cur]) >= Len(frames[cur]) /\ Head(frames'[cur]).ev = e
    BY <1>2, <1>11
  <2>3. cur \in loaded' /\ e \in masked'[cur] \cap intercepted'[cur]
    BY <1>1, <1>11
  <2> QED
    BY <2>1, <2>2, <2>3 DEF Delivered, Taken
<1> QED
  BY <1>5, <1>7, <1>8, <1>9, <1>10, <1>11 DEF LoopKeeps

LEMMA IrqLosesNothing ==
  ASSUME TypeOK, NEW e \in IrqLines, Irq(e)
  PROVE  \/ Held(e)' \/ Taken(cur', e)
         \/ e \notin masked'[cur'] \cup intercepted'[cur'] /\ ~HasNext(cur)'
<1>1. PICK h \in loaded : Sched(state, flag, [pending EXCEPT ![h] = @ \cup {e}])
  BY DEF Irq
<1> DEFINE pd == [pending EXCEPT ![h] = @ \cup {e}]
<1>2. /\ e \in Events /\ h \in Ids /\ pending \in Bitmaps /\ flag \in Flags
      /\ state \in [Ids -> States]
  BY ConstantsAssumption DEF ConstantsAssumption, TypeOK, Flags, Bitmaps
<1>3. pd \in Bitmaps /\ e \in pd[h]
  BY <1>2 DEF Bitmaps
<1> HIDE DEF pd
<1>4. Sched(state, flag, pd)
  BY <1>1 DEF pd
<1> QED
  BY <1>2, <1>3, <1>4, SchedLoses

(* xm_sched, the switch of domains and sync_events lose no event that      *)
(* waits, nor one that irq_handler has just raised, other than by what the *)
(* loop of the domain that runs does drop.                                 *)
THEOREM NothingLost == Spec => SchedLosesNothing
<1> DEFINE LosesNothing == \A e \in Events :
             /\ Held(e) \/ (e \in IrqLines /\ Irq(e))
             /\ loaded \subseteq loaded' /\ passing' = passing
             => Held(e)' \/ Delivered(e) \/ DroppedByLoop(e)
<1>1. SchedInv /\ [Next]_vars => [LosesNothing]_vars
  <2> SUFFICES ASSUME SchedInv, Next, NEW e \in Events,
                      Held(e) \/ (e \in IrqLines /\ Irq(e)),
                      loaded \subseteq loaded', passing' = passing
               PROVE  Held(e)' \/ Delivered(e) \/ DroppedByLoop(e)
    OBVIOUS
  <2>1. /\ TypeOK /\ TypeOK' /\ cur \in loaded /\ loaded \subseteq Ids /\ Root \in Ids
        /\ flag \in Flags /\ pending \in Bitmaps /\ masked \in Bitmaps
        /\ intercepted \in Bitmaps /\ passing \in [Ids -> SUBSET Passes]
        /\ \A d \in Ids, b \in BOOLEAN : [flag EXCEPT ![d] = b] \in Flags
        /\ loaded' \subseteq Ids
    BY TypeNext DEF SchedInv, TypeOK, Flags, Bitmaps
  <2>2. CASE e \in IrqLines /\ Irq(e)
    BY <2>1, <2>2, IrqLosesNothing DEF Taken, DroppedByLoop
  <2>3. CASE Held(e) /\ UNCHANGED <<pending, frames>>
    BY <2>3 DEF Held, Holds
  <2>4. CASE Held(e) /\ Scheduling
    <3>1. PICK st \in [Ids -> States], fl \in Flags, pd \in Bitmaps :
            Sched(st, fl, pd) /\ \A a \in loaded : pending[a] \subseteq pd[a]
      BY <2>4, SchedulingCalls
    <3>2. \E a \in loaded : e \in pd[a] \/ InFrames(a, e)
      BY <2>4, <3>1 DEF Held, Holds, InFrames
    <3> QED
      BY <2>1, <3>1, <3>2, SchedLoses DEF Taken, DroppedByLoop
  <2>5. CASE Held(e) /\ HandlerReturn
    BY <2>1, <2>5, ReturnLosesNothing DEF HandlerReturn, Taken, DroppedByLoop, InFrames
  <2>6. CASE Held(e) /\ LinuxIrqReturn
    <3> DEFINE f  == Head(frames[Root])
               mk == [masked EXCEPT ![Root] = @ \ {f.ev}]
    <3>1. /\ cur = Root /\ frames[Root] # <<>>
          /\ RunHandlers(Root, f.local, Tail(frames[Root]), [flag EXCEPT ![Root] = TRUE],
                         mk, intercepted)
          /\ UNCHANGED <<list, cur, intercepted, pending>>
      BY <2>6 DEF LinuxIrqReturn
    <3>2. mk \in Bitmaps /\ [flag EXCEPT ![Root] = TRUE] \in Flags
      BY <2>1 DEF Bitmaps
    <3> HIDE DEF mk
    <3> QED
      BY <2>1, <2>6, <3>1, <3>2, ReturnLosesNothing DEF Taken, DroppedByLoop, InFrames
  <2>7. ASSUME Held(e), NEW fl \in Flags, NEW mk \in Bitmaps, NEW ic \in Bitmaps,
               SyncEvents(cur, fl, pending, mk, ic), intercepted' = ic,
               UNCHANGED <<list, cur>>
        PROVE  Held(e)' \/ Delivered(e) \/ DroppedByLoop(e)
    <3>1. \E a \in loaded : e \in pending[a] \/ InFrames(a, e)
      BY <2>7 DEF Held, Holds, InFrames
    <3> QED
      BY <2>1, <2>7, <3>1, SyncLosesNothing DEF Taken, DroppedByLoop
  <2>8. CASE Held(e) /\ (EnableEventsFlag \/ Vsti)
    <3>1. /\ SyncEvents(cur, [flag EXCEPT ![cur] = TRUE], pending, masked, intercepted)
          /\ UNCHANGED <<list, cur, intercepted>>
      BY <2>8 DEF EnableEventsFlag, Vsti, Linux
    <3> QED
      BY <2>1, <2>7, <2>8, <3>1
  <2>9. ASSUME Held(e), NEW x \in Events, InstallEventHandler(x) \/ UninstallEventHandler(x)
        PROVE  Held(e)' \/ Delivered(e) \/ DroppedByLoop(e)
    <3>1. PICK handled \in SUBSET Events : SetHandler(x, handled)
      BY <2>1, <2>9 DEF InstallEventHandler, UninstallEventHandler, Bitmaps
    <3> DEFINE mk == [masked EXCEPT ![cur] = @ \cup {x}]
               ic == [intercepted EXCEPT ![cur] = handled]
    <3>2. mk \in Bitmaps /\ ic \in Bitmaps /\ [flag EXCEPT ![cur] = TRUE] \in Flags
      BY <2>1 DEF Bitmaps
    <3>3. /\ intercepted' = ic
          /\ SyncEvents(cur, [flag EXCEPT ![cur] = TRUE], pending, mk, ic)
          /\ UNCHANGED <<list, cur>>
      BY <3>1 DEF SetHandler
    <3> HIDE DEF mk, ic
    <3> QED
      BY <2>7, <2>9, <3>2, <3>3
  <2>10. ~PassEventStore
    BY <2>1 DEF PassEventStore
  <2>11. ~ \E d \in Ids : UnloadDomain(d)
    BY DEF UnloadDomain
  <2>12. CASE \/ DisableEventsFlag \/ CancelTimer \/ Vcli \/ EmulateIret \/ LoadDomainFails
              \/ \E x \in Events : PassEventLoad(x) \/ MaskEvent(x) \/ UnmaskEvent(x)
              \/ \E m \in SUBSET Events : SetMaskEvents(m)
              \/ \E x \in RootEvents : \/ VirtualIrqEnable(x) \/ VirtualIrqDisable(x)
                                       \/ VirtualIrqStartup(x) \/ VirtualIrqShutdown(x)
              \/ \E p \in Prios : LoadDomain(p)
    <3>1. UNCHANGED <<pending, frames>>
      BY <2>12
      DEF DisableEventsFlag, CancelTimer, Vcli, EmulateIret, LoadDomainFails, PassEventLoad,
          MaskEvent, UnmaskEvent, SetMaskEvents, VirtualIrqEnable, VirtualIrqDisable,
          VirtualIrqStartup, VirtualIrqShutdown, LoadDomain, events
    <3> QED
      BY <2>2, <2>3, <3>1
  <2> QED
    BY <2>2, <2>4, <2>5, <2>6, <2>8, <2>9, <2>10, <2>11, <2>12
    DEF Next, Interrupts, DomainSteps, LinuxSteps, Scheduling
<1> QED
  BY <1>1, SchedInvariant, PTL DEF Spec, SchedLosesNothing

-----------------------------------------------------------------------------
(* The lines.  Some calls can leave a line closed for good, and a system   *)
(* whose lines stay accounted for makes none of them: unload frees what a  *)
(* domain took, setmask and Linux's enable_irq unmask an event without     *)
(* ending its line, uninstall forgets the handler, Linux's shutdown closes *)
(* a line that nobody took, and two overlapping calls of pass_event        *)
(* overwrite each other's event.                                           *)
LinesKept ==
  Calls \cap {"unload", "setmask", "venable", "uninstall", "shutdown", "pass"} = {}

Accounted(e) == Held(e) \/ \E d \in loaded : e \in masked[d] \cap intercepted[d]

(* The events of the lines never get where nobody takes them: they wait at *)
(* domains that are not below the root domain, which intercepts them all,  *)
(* and the loops of a domain have only what it intercepts.                 *)
LineInv ==
  /\ RootEvents \subseteq intercepted[Root]
  /\ cur = Root \/ Before(cur, Root)
  /\ IrqLines \cap pending[cur] \subseteq intercepted[cur]
  /\ \A d \in Ids : \A i \in DOMAIN frames[d] : IrqLines \cap frames[d][i].local \subseteq intercepted[d]
  /\ \A e \in acked : Accounted(e)
  /\ \A d \in Ids : passing[d] = {}

LEMMA LineInit == Init => LineInv
<1> SUFFICES ASSUME Init PROVE LineInv
  OBVIOUS
<1>1. Root \in Ids
  BY ConstantsAssumption DEF ConstantsAssumption, Ids, Root
<1>2. /\ RootEvents \subseteq intercepted[Root] /\ cur = Root /\ pending[cur] = {}
      /\ acked = {} /\ \A d \in Ids : DOMAIN frames[d] = {} /\ passing[d] = {}
  BY <1>1 DEF Init
<1> QED
  BY <1>2 DEF LineInv

(* What the loops of a domain have after RunHandlers.                      *)
LocalsIn(d, fr, ic) == \A i \in DOMAIN fr : IrqLines \cap fr[i].local \subseteq ic[d]

LEMMA LoopLocals ==
  ASSUME frames \in [Ids -> Seq(Frames)],
         NEW d \in Ids, NEW local \in SUBSET Events, NEW rest \in Seq(Frames),
         NEW fl, NEW mk, NEW ic,
         RunHandlers(d, local, rest, fl, mk, ic),
         LocalsIn(d, rest, ic), IrqLines \cap local \subseteq ic[d]
  PROVE  LocalsIn(d, frames'[d], ic)
<1>1. CASE frames' = [frames EXCEPT ![d] = rest]
  BY <1>1
<1>2. ASSUME NEW x \in Events, NEW kept \in SUBSET local,
             frames' = [frames EXCEPT ![d] = <<[ev |-> x, local |-> kept]>> \o rest]
      PROVE  LocalsIn(d, frames'[d], ic)
  <2> DEFINE f  == [ev |-> x, local |-> kept]
             fr == <<f>> \o rest
  <2>1. f \in Frames /\ f.local = kept /\ frames'[d] = fr
    BY <1>2 DEF Frames
  <2> HIDE DEF f
  <2>2. /\ fr[1] = f
        /\ \A i \in DOMAIN fr : i = 1 \/ (i - 1 \in DOMAIN rest /\ fr[i] = rest[i - 1])
    BY <2>1
  <2> HIDE DEF fr
  <2> QED
    BY <2>1, <2>2 DEF LocalsIn
<1> QED
  <2>1. ASSUME NEW x \in (local \ mk[d]) \cap ic[d],
               frames' = [frames EXCEPT ![d] =
                 <<[ev |-> x, local |-> {y \in local : y > x \/ y \in mk[d]}]>> \o rest]
        PROVE  LocalsIn(d, frames'[d], ic)
    <3> DEFINE kept == {y \in local : y > x \/ y \in mk[d]}
    <3>1. x \in Events /\ kept \in SUBSET local
      OBVIOUS
    <3>2. frames' = [frames EXCEPT ![d] = <<[ev |-> x, local |-> kept]>> \o rest]
      BY <2>1
    <3> HIDE DEF kept
    <3> QED
      BY <1>2, <3>1, <3>2
  <2> QED
    BY <1>1, <2>1 DEF RunHandlers

(* A step in which the masks only grow, no handler goes, no event is lost  *)
(* unless somebody takes it, and the lines acked are those that were or    *)
(* that are accounted for already.                                         *)
LEMMA LinesStay ==
  ASSUME LineInv, loaded \subseteq loaded',
         \A e \in acked' : \/ Accounted(e)'
                           \/ e \in acked /\ (Held(e) => Accounted(e)')
                              /\ \A d \in loaded : /\ e \in masked[d] => e \in masked'[d]
                                                   /\ intercepted[d] \subseteq intercepted'[d]
  PROVE  \A e \in acked' : Accounted(e)'
<1> SUFFICES ASSUME NEW e \in acked', e \in acked, Held(e) => Accounted(e)',
                    \A d \in loaded : /\ e \in masked[d] => e \in masked'[d]
                                      /\ intercepted[d] \subseteq intercepted'[d]
             PROVE  Accounted(e)'
  OBVIOUS
<1>1. Accounted(e)
  BY DEF LineInv
<1>2. ASSUME NEW d \in loaded, e \in masked[d] \cap intercepted[d] PROVE Accounted(e)'
  BY <1>2 DEF Accounted
<1> QED
  BY <1>1, <1>2 DEF Accounted

LEMMA RootIsOrdered ==
  ASSUME TypeOK, NEW d \in loaded
  PROVE  d = Root \/ Before(d, Root) \/ Before(Root, d)
<1>1. /\ d \in Nat /\ Root \in Nat /\ prio[d] \in Nat /\ prio[Root] \in Nat
  BY ConstantsAssumption DEF ConstantsAssumption, TypeOK, Ids, Root
<1> QED
  BY <1>1 DEF Before

(* A call of xm_sched in a state where the lines are accounted for.        *)
LEMMA LineSched ==
  ASSUME SchedInv, SchedInv', LineInv, UNCHANGED passing,
         NEW st \in [Ids -> States], NEW fl \in Flags, NEW pd \in Bitmaps,
         Sched(st, fl, pd), st[Root] = "ACTIVE",
         \A a \in loaded : pending[a] \subseteq pd[a],
         \A e \in acked' : e \in acked \/ \E a \in loaded : e \in pd[a]
  PROVE  LineInv'
<1> DEFINE bp == Bypass(st, fl, pd)
<1>1. PICK d \in loaded :
        /\ IsSelected(st, fl, pd, d)
        /\ cur' = d
        /\ \/ /\ pending' = bp /\ UNCHANGED frames
              /\ masked' = [masked EXCEPT ![d] = Events]
           \/ SyncEvents(d, fl, bp, masked, intercepted)
        /\ UNCHANGED <<list, intercepted>>
  BY DEF Sched
<1>2. /\ TypeOK /\ TypeOK' /\ loaded \subseteq Ids /\ Root \in loaded
      /\ loaded' = loaded /\ prio' = prio /\ intercepted' = intercepted
      /\ masked \in Bitmaps /\ intercepted \in Bitmaps /\ bp \in Bitmaps
      /\ frames \in [Ids -> Seq(Frames)] /\ acked' \subseteq IrqLines
      /\ IrqLines \subseteq RootEvents /\ IrqLines \subseteq Events
      /\ RootEvents \subseteq intercepted[Root]
      /\ \A a \in Ids : LocalsIn(a, frames[a], intercepted)
  BY <1>1, BypassType, ConstantsAssumption
  DEF ConstantsAssumption, SchedInv, TypeOK, Bitmaps, list, LineInv, LocalsIn
<1>3. d = Root \/ Before(d, Root)
  <2>1. MayRun(st, fl, pd, Root)
    BY DEF MayRun
  <2>2. Root \notin Above(d)
    BY <1>1, <2>1 DEF IsSelected, Visited
  <2> QED
    BY <1>2, <2>2, RootIsOrdered DEF Above
<1>4. IrqLines \cap bp[d] \subseteq intercepted[d]
  <2>1. bp[d] = Kept(st, pd, d)
    BY <1>1, <1>2 DEF IsSelected, Bypass
  <2>2. HasNext(d) \/ IrqLines \subseteq intercepted[d]
    BY <1>2, <1>3 DEF HasNext
  <2> HIDE DEF bp
  <2> QED
    BY <2>1, <2>2 DEF Kept, Lets
<1> HIDE DEF bp
<1>5. /\ pending'[d] \subseteq bp[d]
      /\ \A a \in Ids : masked[a] \subseteq masked'[a] /\ LocalsIn(a, frames'[a], intercepted)
  <2>1. CASE pending' = bp /\ UNCHANGED frames /\ masked' = [masked EXCEPT ![d] = Events]
    BY <1>2, <2>1 DEF Bitmaps
  <2>2. CASE pending' = bp /\ UNCHANGED frames /\ masked' = masked
    BY <1>2, <2>2
  <2>3. CASE /\ pending' = [bp EXCEPT ![d] = @ \cap masked[d]]
             /\ RunHandlers(d, bp[d], frames[d], fl, masked, intercepted)
    <3>1. pending'[d] \subseteq bp[d] /\ bp[d] \in SUBSET Events /\ d \in Ids
      BY <1>2, <2>3 DEF Bitmaps
    <3>2. LocalsIn(d, frames'[d], intercepted)
      BY <1>2, <1>4, <2>3, <3>1, LoopLocals
    <3>3. ASSUME NEW a \in Ids, a # d
          PROVE  masked'[a] = masked[a] /\ frames'[a] = frames[a]
      BY <1>2, <2>3, <3>1, <3>3 DEF RunHandlers, Bitmaps
    <3>4. masked[d] \subseteq masked'[d]
      BY <1>2, <2>3, <3>1 DEF RunHandlers, Bitmaps
    <3> QED
      BY <1>2, <3>1, <3>2, <3>3, <3>4
  <2> QED
    BY <1>1, <2>1, <2>2, <2>3 DEF SyncEvents
<1>6. ASSUME NEW e \in acked', \E a \in loaded : e \in pd[a] \/ InFrames(a, e)
      PROVE  Accounted(e)'
  <2>1. \/ Held(e)' \/ Taken(cur', e)
        \/ e \notin masked'[cur'] \cup intercepted'[cur'] /\ ~HasNext(cur)'
    BY <1>2, <1>6, SchedLoses
  <2>2. HasNext(cur)' \/ d = Root
    BY <1>1, <1>2, <1>3 DEF HasNext, Before
  <2> QED
    BY <1>1, <1>2, <2>1, <2>2 DEF Accounted, Taken
<1>7. \A e \in acked' : Accounted(e)'
  <2>1. ASSUME NEW e \in acked', e \in acked, Held(e) PROVE Accounted(e)'
    <3>1. \E a \in loaded : e \in pd[a] \/ InFrames(a, e)
      BY <2>1 DEF Held, Holds, InFrames
    <3> QED
      BY <1>6, <3>1
  <2> QED
    BY <1>2, <1>5, <1>6, <2>1, LinesStay
<1>8. /\ RootEvents \subseteq intercepted'[Root]
      /\ cur' = Root \/ Before(cur, Root)'
      /\ IrqLines \cap pending'[cur'] \subseteq intercepted'[cur']
      /\ \A a \in Ids : LocalsIn(a, frames'[a], intercepted')
  BY <1>1, <1>2, <1>3, <1>4, <1>5 DEF Before
<1> QED
  BY <1>7, <1>8 DEF LineInv, LocalsIn

(* sync_events, called by the domain that runs for itself.                 *)
LEMMA LineSync ==
  ASSUME SchedInv, TypeOK', LineInv,
         NEW fl \in Flags, NEW mk \in Bitmaps, NEW ic \in Bitmaps,
         SyncEvents(cur, fl, pending, mk, ic), intercepted' = ic,
         UNCHANGED <<list, cur, acked, passing>>,
         \A d \in Ids : masked[d] \subseteq mk[d] /\ intercepted[d] \subseteq ic[d]
  PROVE  LineInv'
<1>1. /\ TypeOK /\ loaded' = loaded /\ prio' = prio /\ loaded \subseteq Ids
      /\ cur \in loaded /\ cur \in Ids /\ Root \in loaded
      /\ pending \in Bitmaps /\ frames \in [Ids -> Seq(Frames)] /\ acked \subseteq Events
      /\ cur' = cur /\ acked' = acked /\ acked \subseteq IrqLines
  BY ConstantsAssumption DEF ConstantsAssumption, SchedInv, TypeOK, Bitmaps, list
<1>2. /\ RootEvents \subseteq ic[Root]
      /\ IrqLines \cap pending[cur] \subseteq ic[cur]
      /\ \A a \in Ids : LocalsIn(a, frames[a], ic)
  BY <1>1 DEF LineInv, LocalsIn
<1>3. /\ pending'[cur] \subseteq pending[cur]
      /\ \A a \in Ids : masked[a] \subseteq masked'[a] /\ LocalsIn(a, frames'[a], ic)
  <2>1. CASE pending' = pending /\ UNCHANGED frames /\ masked' = mk
    BY <1>2, <2>1
  <2>2. CASE /\ pending' = [pending EXCEPT ![cur] = @ \cap mk[cur]]
             /\ RunHandlers(cur, pending[cur], frames[cur], fl, mk, ic)
    <3>1. pending'[cur] \subseteq pending[cur] /\ pending[cur] \in SUBSET Events
      BY <1>1, <2>2 DEF Bitmaps
    <3>2. LocalsIn(cur, frames'[cur], ic)
      BY <1>1, <1>2, <2>2, <3>1, LoopLocals
    <3>3. ASSUME NEW a \in Ids, a # cur
          PROVE  masked'[a] = mk[a] /\ frames'[a] = frames[a]
      BY <1>1, <2>2, <3>3 DEF RunHandlers, Bitmaps
    <3>4. mk[cur] \subseteq masked'[cur]
      BY <1>1, <2>2 DEF RunHandlers, Bitmaps
    <3> QED
      BY <1>2, <3>1, <3>2, <3>3, <3>4
  <2> QED
    BY <2>1, <2>2 DEF SyncEvents
<1>4. ASSUME NEW e \in acked, Held(e) PROVE Accounted(e)'
  <2>1. \E a \in loaded : e \in pending[a] \/ InFrames(a, e)
    BY <1>4 DEF Held, Holds, InFrames
  <2>2. Held(e)' \/ Taken(cur, e) \/ (e \in pending[cur] /\ e \notin masked'[cur] \cup ic[cur])
    BY <1>1, <2>1, SyncLosesNothing
  <2> QED
    BY <1>1, <1>2, <2>2 DEF Accounted, Taken
<1>5. \A e \in acked' : Accounted(e)'
  BY <1>1, <1>3, <1>4, LinesStay
<1>6. cur' = Root \/ Before(cur, Root)'
  BY <1>1 DEF LineInv, Before
<1> QED
  BY <1>1, <1>2, <1>3, <1>5, <1>6 DEF LineInv, LocalsIn

(* A handler returns.  Linux has ended the line and unmasks the event; a   *)
(* domain leaves its mask as it is.                                        *)
LEMMA LineReturn ==
  ASSUME SchedInv, TypeOK', LineInv, frames[cur] # <<>>,
         NEW fl \in Flags, NEW mk \in Bitmaps,
         RunHandlers(cur, Head(frames[cur]).local, Tail(frames[cur]), fl, mk, intercepted),
         UNCHANGED <<list, cur, intercepted, pending, passing>>,
         acked' \subseteq acked,
         \A d \in Ids : masked[d] \cap acked' \subseteq mk[d]
  PROVE  LineInv'
<1> DEFINE local == Head(frames[cur]).local
           rest  == Tail(frames[cur])
<1>1. /\ TypeOK /\ loaded' = loaded /\ prio' = prio /\ loaded \subseteq Ids
      /\ cur \in loaded /\ cur \in Ids /\ cur' = cur
      /\ frames \in [Ids -> Seq(Frames)] /\ acked \subseteq Events
      /\ intercepted' = intercepted /\ pending' = pending /\ acked \subseteq IrqLines
  BY ConstantsAssumption DEF ConstantsAssumption, SchedInv, TypeOK, list
<1>2. /\ local \in SUBSET Events /\ rest \in Seq(Frames)
      /\ LocalsIn(cur, rest, intercepted) /\ IrqLines \cap local \subseteq intercepted[cur]
      /\ \A a \in Ids : LocalsIn(a, frames[a], intercepted)
  <2>1. /\ Head(frames[cur]) \in Frames /\ rest \in Seq(Frames)
        /\ frames[cur][1] = Head(frames[cur]) /\ 1 \in DOMAIN frames[cur]
        /\ \A i \in DOMAIN rest : i + 1 \in DOMAIN frames[cur] /\ rest[i] = frames[cur][i + 1]
    BY <1>1, HeadTailProperties
  <2> QED
    BY <1>1, <2>1 DEF LineInv, LocalsIn, Frames
<1>3. RunHandlers(cur, local, rest, fl, mk, intercepted)
  OBVIOUS
<1> HIDE DEF local, rest
<1>4. \A a \in Ids : mk[a] \subseteq masked'[a] /\ LocalsIn(a, frames'[a], intercepted)
  <2>1. LocalsIn(cur, frames'[cur], intercepted)
    BY <1>1, <1>2, <1>3, LoopLocals
  <2>2. ASSUME NEW a \in Ids, a # cur
        PROVE  masked'[a] = mk[a] /\ frames'[a] = frames[a]
    BY <1>1, <1>3, <2>2 DEF RunHandlers, Bitmaps
  <2>3. mk[cur] \subseteq masked'[cur]
    BY <1>1, <1>3 DEF RunHandlers, Bitmaps
  <2> QED
    BY <1>2, <2>1, <2>2, <2>3
<1>5. ASSUME NEW e \in acked', Held(e) PROVE Accounted(e)'
  <2>1. \/ Held(e)' \/ Taken(cur, e)
        \/ InFrames(cur, e) /\ (e \in masked'[cur] \/ e \notin intercepted[cur])
    BY <1>1, <1>5, ReturnLosesNothing
  <2>2. InFrames(cur, e) => e \in intercepted[cur]
    BY <1>1, <1>2 DEF InFrames, LocalsIn
  <2> QED
    BY <1>1, <2>1, <2>2 DEF Accounted, Taken
<1>6. \A e \in acked' : Accounted(e)'
  BY <1>1, <1>4, <1>5, LinesStay
<1>7. cur' = Root \/ Before(cur, Root)'
  BY <1>1 DEF LineInv, Before
<1> QED
  BY <1>1, <1>4, <1>6, <1>7 DEF LineInv, LocalsIn

(* The other steps: no event moves, and who unmasks one ends its line.     *)
LEMMA LineOther ==
  ASSUME SchedInv, TypeOK', LineInv,
         UNCHANGED <<cur, intercepted, pending, frames, passing>>,
         loaded \subseteq loaded', acked' \subseteq acked,
         prio'[cur] = prio[cur], prio'[Root] = prio[Root],
         \A d \in loaded : masked[d] \cap acked' \subseteq masked'[d]
  PROVE  LineInv'
<1>1. \A e \in acked' : Held(e) => Accounted(e)'
  BY DEF Held, Holds, Accounted
<1>2. \A e \in acked' : Accounted(e)'
  BY <1>1, LinesStay
<1> QED
  BY <1>2 DEF LineInv, Before

LEMMA LineNext ==
  ASSUME LinesKept, SchedInv, LineInv, Next
  PROVE  LineInv'
<1>1. /\ TypeOK /\ TypeOK' /\ SchedInv' /\ cur \in loaded /\ loaded \subseteq Ids
      /\ Root \in Ids /\ cur \in Ids
      /\ flag \in Flags /\ pending \in Bitmaps /\ masked \in Bitmaps
      /\ intercepted \in Bitmaps /\ prio \in [Ids -> 0 .. RootPrio]
      /\ \A d \in Ids, b \in BOOLEAN : [flag EXCEPT ![d] = b] \in Flags
      /\ RootEvents \subseteq Events
  BY TypeNext, SchedInvNext, ConstantsAssumption DEF ConstantsAssumption, SchedInv, TypeOK, Flags, Bitmaps
<1>2. ASSUME NEW e \in IrqLines, Irq(e) PROVE LineInv'
  <2>1. PICK h \in loaded : Sched(state, flag, [pending EXCEPT ![h] = @ \cup {e}])
    BY <1>2 DEF Irq
  <2> DEFINE pd == [pending EXCEPT ![h] = @ \cup {e}]
  <2>2. e \in Events /\ h \in Ids /\ state \in [Ids -> States] /\ state[Root] = "ACTIVE"
    BY <1>1, ConstantsAssumption DEF ConstantsAssumption, SchedInv, TypeOK, NeverFinished
  <2>3. pd \in Bitmaps /\ e \in pd[h] /\ \A a \in loaded : pending[a] \subseteq pd[a]
    BY <1>1, <2>2 DEF Bitmaps
  <2>4. acked' = acked \cup {e} /\ UNCHANGED passing
    BY <1>2 DEF Irq
  <2>5. Sched(state, flag, pd)
    BY <2>1
  <2> HIDE DEF pd
  <2> QED
    BY <1>1, <2>2, <2>3, <2>4, <2>5, LineSched
<1>3. CASE Scheduling /\ ~ \E e \in IrqLines : Irq(e)
  <2>1. PICK st \in [Ids -> States], fl \in Flags, pd \in Bitmaps :
          /\ Sched(st, fl, pd) /\ st[Root] = "ACTIVE"
          /\ \A a \in loaded : pending[a] \subseteq pd[a]
    BY <1>3, SchedulingCalls
  <2>2. acked' = acked /\ UNCHANGED passing
    BY <1>3 DEF Scheduling, TimerIrq, SuspendDomain, SuspendIoctl, ExitDomain, Trap, SetTimer, hw
  <2> QED
    BY <1>1, <2>1, <2>2, LineSched
<1>4. CASE HandlerReturn
  BY <1>1, <1>4, LineReturn DEF HandlerReturn, hw
<1>5. CASE LinuxIrqReturn
  <2> DEFINE f  == Head(frames[Root])
             mk == [masked EXCEPT ![Root] = @ \ {f.ev}]
  <2>1. /\ cur = Root /\ frames[Root] # <<>> /\ acked' = acked \ {f.ev}
        /\ RunHandlers(Root, f.local, Tail(frames[Root]), [flag EXCEPT ![Root] = TRUE],
                       mk, intercepted)
        /\ UNCHANGED <<list, cur, intercepted, pending, passing>>
    BY <1>5 DEF LinuxIrqReturn
  <2>2. mk \in Bitmaps /\ \A d \in Ids : masked[d] \cap acked' \subseteq mk[d]
    BY <1>1, <2>1 DEF Bitmaps
  <2> HIDE DEF mk
  <2> QED
    BY <1>1, <2>1, <2>2, LineReturn
<1>6. CASE EnableEventsFlag \/ Vsti
  <2>1. /\ SyncEvents(cur, [flag EXCEPT ![cur] = TRUE], pending, masked, intercepted)
        /\ UNCHANGED <<list, cur, intercepted, acked, passing>>
    BY <1>6 DEF EnableEventsFlag, Vsti, Linux, hw
  <2> QED
    BY <1>1, <2>1, LineSync
<1>7. ASSUME NEW x \in Events, InstallEventHandler(x) PROVE LineInv'
  <2> DEFINE mk == [masked EXCEPT ![cur] = @ \cup {x}]
             ic == [intercepted EXCEPT ![cur] = @ \cup {x}]
  <2>1. mk \in Bitmaps /\ ic \in Bitmaps /\ [flag EXCEPT ![cur] = TRUE] \in Flags
    BY <1>1 DEF Bitmaps
  <2>2. \A d \in Ids : masked[d] \subseteq mk[d] /\ intercepted[d] \subseteq ic[d]
    BY <1>1 DEF Bitmaps
  <2>3. /\ intercepted' = ic
        /\ SyncEvents(cur, [flag EXCEPT ![cur] = TRUE], pending, mk, ic)
        /\ UNCHANGED <<list, cur, acked, passing>>
    BY <1>1, <1>7 DEF InstallEventHandler, SetHandler, hw, Bitmaps
  <2> HIDE DEF mk, ic
  <2> QED
    BY <1>1, <2>1, <2>2, <2>3, LineSync
<1>8. CASE DisableEventsFlag \/ CancelTimer \/ Vcli \/ EmulateIret \/ LoadDomainFails
  BY <1>1, <1>8, LineOther
  DEF DisableEventsFlag, CancelTimer, Vcli, EmulateIret, LoadDomainFails, list, events, hw
<1>9. ASSUME NEW x \in Events,
             MaskEvent(x) \/ UnmaskEvent(x) \/ VirtualIrqDisable(x) \/ VirtualIrqStartup(x)
      PROVE  LineInv'
  <2>1. /\ UNCHANGED <<list, cur, intercepted, pending, frames, passing>>
        /\ \/ /\ \E d \in Ids : masked' = [masked EXCEPT ![d] = @ \cup {x}]
              /\ acked' = acked
           \/ /\ \E d \in Ids : masked' = [masked EXCEPT ![d] = @ \ {x}]
              /\ acked' = acked \ {x}
    BY <1>1, <1>9 DEF MaskEvent, UnmaskEvent, VirtualIrqDisable, VirtualIrqStartup, hw
  <2>2. acked' \subseteq acked /\ \A d \in loaded : masked[d] \cap acked' \subseteq masked'[d]
    BY <1>1, <2>1 DEF Bitmaps
  <2> QED
    BY <1>1, <2>1, <2>2, LineOther DEF list
<1>10. ASSUME NEW p \in Prios, LoadDomain(p) PROVE LineInv'
  <2>1. nextId # cur /\ nextId # Root
    <3>1. ~(nextId < nextId) /\ cur < nextId /\ Root < nextId
      BY <1>1, ConstantsAssumption DEF ConstantsAssumption, TypeOK
    <3> QED
      BY <3>1
  <2>2. /\ UNCHANGED <<cur, intercepted, masked, pending, frames, acked, passing>>
        /\ loaded \subseteq loaded' /\ prio' = [prio EXCEPT ![nextId] = p]
    BY <1>10 DEF LoadDomain, events, hw
  <2>3. prio'[cur] = prio[cur] /\ prio'[Root] = prio[Root]
    BY <1>1, <2>1, <2>2
  <2> QED
    BY <1>1, <2>2, <2>3, LineOther
<1>11. /\ ~ \E e \in Events : PassEventLoad(e) \/ UninstallEventHandler(e)
       /\ ~ \E m \in SUBSET Events : SetMaskEvents(m)
       /\ ~ \E e \in RootEvents : VirtualIrqEnable(e) \/ VirtualIrqShutdown(e)
       /\ ~PassEventStore
       /\ ~ \E d \in Ids : UnloadDomain(d)
  BY <1>1 DEF LineInv, LinesKept, PassEventStore, PassEventLoad, UninstallEventHandler, SetMaskEvents, VirtualIrqEnable,
     VirtualIrqShutdown, UnloadDomain, Running, Linux, InLoader
<1> QED
  BY <1>1, <1>2, <1>3, <1>4, <1>5, <1>6, <1>7, <1>8, <1>9, <1>10, <1>11
  DEF Next, Interrupts, DomainSteps, LinuxSteps, Scheduling

(* Whatever the domains do but the calls LinesKept names, and however the  *)
(* devices interrupt: a line that irq_handler has closed is always         *)
(* somebody's to end.                                                      *)
THEOREM LinesAccounted == ASSUME LinesKept PROVE Spec => []LineAccounted
<1>1. Init => SchedInv /\ LineInv
  BY SchedInvInit, LineInit
<1>2. SchedInv /\ LineInv /\ [Next]_vars => (SchedInv /\ LineInv)'
  <2> SUFFICES ASSUME SchedInv, LineInv, [Next]_vars
               PROVE  SchedInv' /\ LineInv'
    OBVIOUS
  <2>1. CASE UNCHANGED vars
    <3>1. LineInv'
      BY <2>1 DEF vars, list, events, hw, LineInv, Accounted, Held, Holds, Before
    <3> QED
      BY <3>1, SchedInvNext
  <2>2. CASE Next
    BY <2>2, SchedInvNext, LineNext
  <2> QED
    BY <2>1, <2>2
<1>3. LineInv => LineAccounted
  BY DEF LineInv, Accounted, LineAccounted
<1> QED
  BY <1>1, <1>2, <1>3, PTL DEF Spec
=============================================================================
