------------------------------ MODULE PkKernel ------------------------------
(***************************************************************************)
(* PaRTiKle, the run-time system of a real-time domain: its thread         *)
(* scheduler, sleeping, and the clock interrupt.  PkThreads and PkSem add  *)
(* what threads synchronise with.                                          *)
(*                                                                         *)
(* There is one processor.  System calls turn the domain's events off, so  *)
(* most of them are left only where they call scheduling(): another thread *)
(* then runs, and the call goes on from `at' when its thread is chosen     *)
(* again.  Priority 0 is the highest.                                      *)
(***************************************************************************)
EXTENDS Naturals, Sequences, SequencesExt

CONSTANTS
  Threads,  (* threads, the idle thread not among them                     *)
  Main,     (* mainapp_thread, there from the start                        *)
  Idle,     (* idle_thread; NULL in the fields that hold a thread          *)
  Lowest,   (* MIN_SCHED_PRIORITY                                          *)
  InitPrio  (* the priority each thread is created with                    *)

Prios == 0 .. Lowest

ASSUME KernelAssumption ==
  /\ Main \in Threads /\ Idle \notin Threads
  /\ Lowest \in Nat
  /\ InitPrio \in [Threads -> Prios]

VARIABLES
  sched,   (* ready: the lists of active_threads; state and priority of    *)
           (* every thread                                                 *)
  current, (* current_thread                                               *)
  at,      (* where each thread goes on: <<"user">> is its own code        *)
  armed    (* the threads whose sleep_ktimer is in timer_heap              *)

kernel == <<sched, current, at, armed>>

User == <<"user">>

-----------------------------------------------------------------------------
(* The scheduler's structure, k being a value of sched.                    *)

(* remove_ss, which finds a thread by its own links: it is in one list,    *)
(* once, or in none.                                                       *)
Removed(k, t) == [k EXCEPT !.ready = [p \in Prios |-> RemoveFirst(@[p], t)]]

(* insert_ss puts a thread before those of its priority.                   *)
Inserted(k, t) == [k EXCEPT !.ready[k.prio[t]] = <<t>> \o @]

InsertedAtTail(k, t) == [k EXCEPT !.ready[k.prio[t]] = Append(@, t)]

Suspended(k, t) ==
  [Removed(k, t) EXCEPT !.state[t] = IF @ = "finished" THEN @ ELSE "suspended"]

Activated(k, t) ==
  IF k.state[t] \notin {"finished", "ready"}
    THEN [Inserted(k, t) EXCEPT !.state[t] = "ready"]
    ELSE k

Finished(k, t) == [Removed(k, t) EXCEPT !.state[t] = "finished"]

(* Mutant: a thread is put into a list whether it is ready or not.         *)
WithPrioListed(k, t, p) == Inserted([Removed(k, t) EXCEPT !.prio[t] = p], t)

WithPrio(k, t, p) ==
  LET r == [Removed(k, t) EXCEPT !.prio[t] = p]
  IN  IF k.state[t] = "ready" THEN Inserted(r, t) ELSE r

(* The threads of a list, activated from its head on.                      *)
AllActivated(k, list) ==
  LET first[i \in 0 .. Len(list)] ==
        IF i = 0 THEN k ELSE Activated(first[i - 1], list[i])
  IN  first[Len(list)]

(* get_head_ss, and the idle thread if there is none.                      *)
HeadOfHighest(k) ==
  LET levels == {p \in Prios : k.ready[p] # <<>>}
  IN  IF levels = {} THEN Idle
      ELSE Head(k.ready[CHOOSE p \in levels : \A q \in levels : p <= q])

-----------------------------------------------------------------------------
(* How a call of the current thread ends, `k' being what it has made of    *)
(* sched: in scheduling(), going on from `where' afterwards, or by going   *)
(* on at once.                                                             *)

Reschedule(k, where) ==
  /\ sched' = k
  /\ at' = [at EXCEPT ![current] = where]
  /\ current' = HeadOfHighest(k)

Proceed(k, where) ==
  /\ sched' = k
  /\ at' = [at EXCEPT ![current] = where]
  /\ UNCHANGED current

Running(where) == current # Idle /\ at[current] = where

(* The domain's events are on in a thread's own code, where sleep_for and  *)
(* pthread_exit have turned them on again, and in the idle thread.         *)
EventsOn ==
  current = Idle \/ Running(User) \/ Running(<<"asleep">>) \/ Running(<<"exiting">>)

-----------------------------------------------------------------------------
(* Calls.                                                                  *)

(* pthread_create: the new thread starts in its own code.                  *)
Create(t) ==
  /\ Running(User)
  /\ sched.state[t] = "none"
  /\ Reschedule(Activated([sched EXCEPT !.state[t] = "suspended"], t), User)
  /\ UNCHANGED armed

(* pthread_yield                                                           *)
Yield ==
  /\ Running(User)
  /\ Reschedule(InsertedAtTail(Removed(sched, current), current), User)
  /\ UNCHANGED armed

(* pthread_setschedparam                                                   *)
SetPrio(t, p) ==
  /\ Running(User)
  /\ sched.state[t] # "none"
  /\ Reschedule(WithPrio(sched, t, p), User)
  /\ UNCHANGED armed

(* sleep_for arms the thread's timer and suspends the thread, turns the    *)
(* events back on and only then programs the hardware timer, which expires *)
(* the timers that are due; then it calls scheduling().                    *)
Sleep ==
  /\ Running(User)
  /\ armed' = armed \union {current}
  /\ Proceed(Suspended(sched, current), <<"asleep">>)

(* update_hwtimer: the owners of the timers that are due, in the order of  *)
(* their times, are activated.  Time is not modelled: any may be due.      *)
Expired(due) == {AllActivated(sched, list) : list \in SetToSeqs(due)}

SleepOn ==
  /\ Running(<<"asleep">>)
  /\ \E due \in SUBSET armed :
       /\ armed' = armed \ due
       /\ \E k \in Expired(due) : Reschedule(k, User)

(* The clock interrupt.  do_irq calls scheduling after the handler, and    *)
(* the thread goes on where it was interrupted, if it is ever chosen.      *)
Interrupt ==
  /\ EventsOn
  /\ \E due \in (SUBSET armed) \ {{}} :
       /\ armed' = armed \ due
       /\ \E k \in Expired(due) : sched' = k /\ current' = HeadOfHighest(k)
  /\ UNCHANGED at

-----------------------------------------------------------------------------

KernelInit ==
  /\ sched = [ready |-> [p \in Prios |->
                          IF p = InitPrio[Main] THEN <<Main>> ELSE <<>>],
              state |-> [t \in Threads |->
                          IF t = Main THEN "ready" ELSE "none"],
              prio  |-> InitPrio]
  /\ current = Main
  /\ at = [t \in Threads |-> User]
  /\ armed = {}

KernelStep ==
  \/ \E t \in Threads : Create(t)
  \/ Yield
  \/ Sleep \/ SleepOn
  \/ Interrupt

=============================================================================
