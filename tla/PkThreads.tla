----------------------------- MODULE PkThreads -----------------------------
(***************************************************************************)
(* PaRTiKle's mutexes, condition variables, join and exit (pthread.c) on   *)
(* top of its scheduler.                                                   *)
(*                                                                         *)
(* Calls that only return an error are left out.  A program is assumed to  *)
(* join a thread once, to unlock its mutexes in the reverse order of       *)
(* locking them, and to change the priority only of threads that hold no   *)
(* mutex, to one that is not above any ceiling.                            *)
(***************************************************************************)
EXTENDS PkKernel, FiniteSets

CONSTANTS
  Mutexes, Conds,
  Type,    (* "normal", "errorcheck" or "recursive", for each mutex        *)
  Ceiling, (* attr.prio for each mutex                                     *)
  Protect, (* the mutexes whose prio_protection is PTHREAD_PRIO_PROTECT    *)
  Tried,   (* the mutexes that the program locks by trylock too            *)
  MaxHeld  (* bound: locks that a thread holds at a time                   *)

ASSUME ThreadsAssumption ==
  /\ Type \in [Mutexes -> {"normal", "errorcheck", "recursive"}]
  /\ Ceiling \in [Mutexes -> Prios]
  /\ Protect \subseteq Mutexes
  /\ Tried \subseteq {m \in Mutexes : Type[m] # "recursive"}

VARIABLES
  mutex,   (* owner, owner_prio, counter and mutex_list of each mutex      *)
  cond,    (* cond_list of each condition variable                         *)
  joining, (* joining_thread of each thread                                *)
  held,    (* what each thread has locked, as its program sees it          *)
  base     (* the priority that the program has given to each thread       *)

program == <<held, base>>
vars == <<sched, current, at, armed, mutex, cond, joining, held, base>>

Holds(t, m) == \E i \in DOMAIN held[t] : held[t][i] = m

Gains(m) == held' = [held EXCEPT ![current] = Append(@, m)]
Gives == held' = [held EXCEPT ![current] = Front(@)]

-----------------------------------------------------------------------------
(* Mutexes.                                                                *)

(* The mutex is free: the thread takes it, at its ceiling.                 *)
Take(m, counter) ==
  LET prio == sched.prio[current] IN
  /\ mutex[m].owner = Idle
  /\ mutex' = [mutex EXCEPT ![m].owner = current, ![m].counter = counter,
                            ![m].owner_prio = IF m \in Protect THEN prio ELSE @]
  /\ Gains(m)
  /\ IF m \in Protect /\ prio > Ceiling[m]
       THEN Reschedule(WithPrio(sched, current, Ceiling[m]), User)
       ELSE Proceed(sched, User)

(* The thread has it already.                                              *)
LockAgain(m) ==
  /\ mutex[m].owner = current
  /\ Type[m] = "recursive"
  /\ mutex' = [mutex EXCEPT ![m].counter = @ + 1]
  /\ Gains(m)
  /\ Proceed(sched, User)

(* Somebody has it: the thread waits, and tries again.                     *)
WaitForMutex(m) ==
  /\ mutex[m].owner # Idle
  /\ mutex[m].owner = current => Type[m] = "normal"
  /\ mutex' = [mutex EXCEPT ![m].mutex_list = <<current>> \o @]
  /\ Reschedule(Suspended(sched, current), <<"lock", m>>)
  /\ UNCHANGED held

LockLoop(m) ==
  /\ Take(m, 1) \/ LockAgain(m) \/ WaitForMutex(m)
  /\ UNCHANGED <<armed, cond, joining, base>>

(* Mutant: a thread that waits for a mutex has it when it wakes.           *)
LockWoken(m) ==
  /\ Running(<<"lock", m>>)
  /\ mutex' = [mutex EXCEPT ![m].owner = current]
  /\ Gains(m)
  /\ Proceed(sched, User)
  /\ UNCHANGED <<armed, cond, joining, base>>

Lock(m) == Running(User) /\ Len(held[current]) < MaxHeld /\ LockLoop(m)
LockOn(m) == Running(<<"lock", m>>) /\ LockLoop(m)

(* pthread_mutex_trylock leaves `counter' as it is.                        *)
TryLock(m) ==
  /\ m \in Tried
  /\ Running(User) /\ Len(held[current]) < MaxHeld
  /\ Take(m, mutex[m].counter) \/ LockAgain(m)
  /\ UNCHANGED <<armed, cond, joining, base>>

(* Mutant: unlocking leaves the thread at the ceiling.                     *)
ReleaseAtCeiling(m, where) ==
  /\ mutex' = [mutex EXCEPT ![m].owner = Idle, ![m].counter = 0,
                            ![m].mutex_list = <<>>]
  /\ Proceed(AllActivated(sched, mutex[m].mutex_list), where)

(* Mutant: only the first of the list is activated.                        *)
ReleaseToFirst(m, where) ==
  LET list == mutex[m].mutex_list
      k    == IF list = <<>> THEN sched ELSE Activated(sched, Head(list))
  IN
  /\ mutex' = [mutex EXCEPT ![m].owner = Idle, ![m].counter = 0,
                            ![m].mutex_list = <<>>]
  /\ Reschedule(WithPrio(k, current, mutex[m].owner_prio), where)

(* Mutant: scheduling() is called whether the priority changes or not.     *)
ReleaseYielding(m, where) ==
  LET k == AllActivated(sched, mutex[m].mutex_list) IN
  /\ mutex' = [mutex EXCEPT ![m].owner = Idle, ![m].counter = 0,
                            ![m].mutex_list = <<>>]
  /\ Reschedule(IF m \in Protect /\ mutex[m].owner_prio # k.prio[current]
                  THEN WithPrio(k, current, mutex[m].owner_prio) ELSE k, where)

(* Mutant: scheduling() is not called for those who waited.                *)
ReleaseQuietly(m, where) ==
  LET k == AllActivated(sched, mutex[m].mutex_list) IN
  /\ mutex' = [mutex EXCEPT ![m].owner = Idle, ![m].counter = 0,
                            ![m].mutex_list = <<>>]
  /\ Proceed(WithPrio(k, current, mutex[m].owner_prio), where)

(* All who wait are activated.  scheduling() is called only if the thread  *)
(* gets another priority back.                                             *)
Release(m, where) ==
  LET k == AllActivated(sched, mutex[m].mutex_list)
      back == mutex[m].owner_prio
  IN
  /\ mutex' = [mutex EXCEPT ![m].owner = Idle, ![m].counter = 0,
                            ![m].mutex_list = <<>>]
  /\ IF m \in Protect /\ back # k.prio[current]
       THEN Reschedule(WithPrio(k, current, back), where)
       ELSE Proceed(k, where)

(* pthread_mutex_unlock, for a thread that goes on from `where'.           *)
Unlocked(m, where) ==
  /\ mutex[m].owner = current
  /\ \/ /\ Type[m] = "recursive" /\ mutex[m].counter > 1
        /\ mutex' = [mutex EXCEPT ![m].counter = @ - 1]
        /\ Proceed(sched, where)
     \/ /\ Type[m] = "recursive" => mutex[m].counter <= 1
        /\ Release(m, where)
  /\ Gives
  /\ UNCHANGED <<armed, cond, joining, base>>

Unlock(m) ==
  /\ Running(User)
  /\ held[current] # <<>> /\ m = Last(held[current])
  /\ Unlocked(m, User)

-----------------------------------------------------------------------------
(* Condition variables.                                                    *)

(* pthread_cond_signal; scheduling() is called whether anybody waited or   *)
(* not.                                                                    *)
Signal(c) ==
  /\ Running(User)
  /\ \/ /\ cond[c] # <<>>
        /\ cond' = [cond EXCEPT ![c] = Tail(@)]
        /\ Reschedule(Activated(sched, Head(cond[c])), User)
     \/ /\ cond[c] = <<>>
        /\ Reschedule(sched, User)
        /\ UNCHANGED cond
  /\ UNCHANGED <<armed, mutex, joining, program>>

(* pthread_cond_broadcast                                                  *)
Broadcast(c) ==
  /\ Running(User)
  /\ cond' = [cond EXCEPT ![c] = <<>>]
  /\ Reschedule(AllActivated(sched, cond[c]), User)
  /\ UNCHANGED <<armed, mutex, joining, program>>

(* pthread_cond_wait unlocks the mutex, which may run another thread,      *)
(* suspends the thread in the list of the condition, and locks the mutex.  *)
CondWait(c, m) ==
  /\ Running(User)
  /\ held[current] # <<>> /\ m = Last(held[current])
  /\ Unlocked(m, <<"unlocked", c, m>>)

CondWaitOn(c, m) ==
  /\ Running(<<"unlocked", c, m>>)
  /\ cond' = [cond EXCEPT ![c] = <<current>> \o @]
  /\ Reschedule(Suspended(sched, current), <<"lock", m>>)
  /\ UNCHANGED <<armed, mutex, joining, program>>

-----------------------------------------------------------------------------
(* Join and exit.                                                          *)

JoinLoop(t) ==
  /\ \/ /\ sched.state[t] = "finished"
        /\ Proceed([Removed(sched, t) EXCEPT !.state[t] = "deleted"], User)
        /\ UNCHANGED joining
     \/ /\ sched.state[t] # "finished"
        /\ joining' = [joining EXCEPT ![t] = current]
        /\ Reschedule(Suspended(sched, current), <<"join", t>>)
  /\ UNCHANGED <<armed, mutex, cond, program>>

Join(t) ==
  /\ Running(User) /\ t # current
  /\ sched.state[t] \notin {"none", "deleted"} /\ joining[t] = Idle
  /\ JoinLoop(t)

JoinOn(t) == Running(<<"join", t>>) /\ JoinLoop(t)

(* pthread_exit of a thread that is not the main thread, whose exit ends   *)
(* the program.  The thread has finished, and the events are on, before    *)
(* who joins it is activated.                                              *)
Exit ==
  /\ Running(User) /\ current # Main
  /\ armed' = armed \ {current}
  /\ Proceed(Finished(sched, current), <<"exiting">>)
  /\ UNCHANGED <<mutex, cond, joining, program>>

ExitOn ==
  LET j == joining[current] IN
  /\ Running(<<"exiting">>)
  /\ Reschedule(IF j = Idle THEN sched ELSE Activated(sched, j), <<"end">>)
  /\ UNCHANGED <<armed, mutex, cond, joining, program>>

(* pthread_setschedparam.                                                  *)
SetSchedParam(t, p) ==
  /\ held[t] = <<>> /\ \A m \in Protect : Ceiling[m] <= p
  /\ SetPrio(t, p)
  /\ base' = [base EXCEPT ![t] = p]
  /\ UNCHANGED <<mutex, cond, joining, held>>

-----------------------------------------------------------------------------

Init ==
  /\ KernelInit
  /\ mutex = [m \in Mutexes |-> [owner |-> Idle, owner_prio |-> 0,
                                 counter |-> 0, mutex_list |-> <<>>]]
  /\ cond = [c \in Conds |-> <<>>]
  /\ joining = [t \in Threads |-> Idle]
  /\ held = [t \in Threads |-> <<>>]
  /\ base = InitPrio

Next ==
  \/ KernelStep /\ UNCHANGED <<mutex, cond, joining, held, base>>
  \/ \E m \in Mutexes : Lock(m) \/ LockOn(m) \/ TryLock(m) \/ Unlock(m)
  \/ \E c \in Conds : Signal(c) \/ Broadcast(c)
  \/ \E c \in Conds, m \in Mutexes : CondWait(c, m) \/ CondWaitOn(c, m)
  \/ \E t \in Threads : Join(t) \/ JoinOn(t)
  \/ Exit \/ ExitOn
  \/ \E t \in Threads, p \in Prios : SetSchedParam(t, p)

Spec == Init /\ [][Next]_vars

-----------------------------------------------------------------------------
(* Properties.                                                             *)

ThreadStates == {"none", "ready", "suspended", "finished", "deleted"}

IsListOf(s, S) == DOMAIN s = 1 .. Len(s) /\ ToSet(s) \subseteq S

(* Everything has its type, and a thread is in the lists of active_threads *)
(* exactly if it is ready: once, and in that of its priority.              *)
TypeOK ==
  /\ sched.state \in [Threads -> ThreadStates]
  /\ sched.prio \in [Threads -> Prios]
  /\ current \in Threads \union {Idle}
  /\ armed \subseteq Threads
  /\ \A m \in Mutexes : /\ mutex[m].owner \in Threads \union {Idle}
                        /\ IsListOf(mutex[m].mutex_list, Threads)
  /\ \A c \in Conds : IsListOf(cond[c], Threads)
  /\ joining \in [Threads -> Threads \union {Idle}]
  /\ \A p \in Prios, t \in Threads :
       Cardinality({i \in DOMAIN sched.ready[p] : sched.ready[p][i] = t})
         = IF sched.state[t] = "ready" /\ sched.prio[t] = p THEN 1 ELSE 0

(* pthread_mutex_lock, trylock and cond_wait: no two threads are between   *)
(* locking a mutex and unlocking it for the last time.                     *)
MutualExclusion ==
  \A m \in Mutexes : \A t, u \in Threads : Holds(t, m) /\ Holds(u, m) => t = u

(* pthread_mutex_lock and unlock, pthread_join and exit, sleep_for: a      *)
(* thread that is suspended is still in the place from which it will be    *)
(* activated.  (A thread that has been interrupted in pthread_exit does    *)
(* not run again, and who joins it waits for ever.)                        *)
AwaitsMutex(t) ==
  \E m \in Mutexes : /\ at[t] = <<"lock", m>>
                     /\ mutex[m].owner # Idle
                     /\ t \in ToSet(mutex[m].mutex_list)
AwaitsCond(t) == \E c \in Conds : t \in ToSet(cond[c])
AwaitsExit(t) ==
  \E u \in Threads : /\ at[t] = <<"join", u>>
                     /\ joining[u] = t
                     /\ \/ sched.state[u] \in {"ready", "suspended"}
                        \/ at[u] = <<"exiting">>
NobodyStranded ==
  \A t \in Threads : sched.state[t] = "suspended" =>
    \/ t \in armed
    \/ AwaitsMutex(t) \/ AwaitsCond(t) \/ AwaitsExit(t)

(* scheduling(): with ceilings that are right, the thread that runs its    *)
(* own code is one of the highest priority among the ready ones, though    *)
(* unlock does not always call scheduling().                               *)
HighestReadyRuns ==
  \A t \in Threads : sched.state[t] = "ready" =>
    /\ current # Idle
    /\ at[current] = User => sched.prio[current] <= sched.prio[t]

(* pthread_mutex_lock and unlock, PTHREAD_PRIO_PROTECT: a thread is at the *)
(* ceiling of what it holds or above, and gets its priority back with its  *)
(* last unlock.                                                            *)
CeilingsKept ==
  \A t \in Threads :
    /\ held[t] = <<>> => sched.prio[t] = base[t]
    /\ \A m \in Protect : Holds(t, m) => sched.prio[t] <= Ceiling[m]

(* pthread_cond_wait: a thread that gives a mutex up to wait goes on, with *)
(* the events off, until it is in the list of the condition, so that       *)
(* nobody locks the mutex and signals in between.  Unlocking calls         *)
(* scheduling() only if the mutex had raised the thread; then somebody may.*)
Raised(t, m) == m \in Protect /\ base[t] > Ceiling[m]

WaitIsAtomic ==
  [][\A t \in Threads, c \in Conds, m \in Mutexes :
       at[t] = User /\ at'[t] = <<"unlocked", c, m>> => current' = t \/ Raised(t, m)]_vars

=============================================================================
