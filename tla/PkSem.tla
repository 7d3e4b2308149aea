------------------------------- MODULE PkSem -------------------------------
(***************************************************************************)
(* PaRTiKle's semaphores (semaphore.c) on top of its scheduler, without    *)
(* sem_timedwait.                                                          *)
(***************************************************************************)
EXTENDS PkKernel, Integers

CONSTANTS
  Initial, (* the value that sem_init sets                                 *)
  MaxBelow (* bound: how far the value falls below 0                       *)

VARIABLES
  value,    (* sem->value, an int                                          *)
  sem_list, (* the threads that wait                                       *)
  inside    (* the threads that have waited and not posted since           *)

vars == <<sched, current, at, armed, value, sem_list, inside>>

-----------------------------------------------------------------------------

(* sem_wait counts down when it has found a value, or has been woken.      *)
CountDown ==
  /\ value > -MaxBelow
  /\ value' = value - 1
  /\ inside' = inside \union {current}
  /\ Proceed(sched, User)
  /\ UNCHANGED <<armed, sem_list>>

Wait ==
  /\ Running(User) /\ current \notin inside
  /\ \/ value # 0 /\ CountDown
     \/ /\ value = 0
        /\ sem_list' = <<current>> \o sem_list
        /\ Reschedule(Suspended(sched, current), <<"wait">>)
        /\ UNCHANGED <<armed, value, inside>>

(* The value is not looked at again.                                       *)
WaitOn == Running(<<"wait">>) /\ CountDown

TryWait ==
  /\ Running(User) /\ current \notin inside
  /\ value # 0
  /\ CountDown

(* sem_post runs who it has woken before it counts up.                     *)
Post ==
  /\ Running(User) /\ current \in inside
  /\ inside' = inside \ {current}
  /\ \/ /\ value = 0 /\ sem_list # <<>>
        /\ sem_list' = Tail(sem_list)
        /\ Reschedule(Activated(sched, Head(sem_list)), <<"post">>)
     \/ /\ value # 0 \/ sem_list = <<>>
        /\ Proceed(sched, <<"post">>)
        /\ UNCHANGED sem_list
  /\ UNCHANGED <<armed, value>>

PostOn ==
  /\ Running(<<"post">>)
  /\ value' = value + 1
  /\ Proceed(sched, User)
  /\ UNCHANGED <<armed, sem_list, inside>>

-----------------------------------------------------------------------------

Init ==
  /\ KernelInit
  /\ value = Initial /\ sem_list = <<>> /\ inside = {}

Next ==
  \/ KernelStep /\ UNCHANGED <<value, sem_list, inside>>
  \/ Wait \/ WaitOn \/ TryWait \/ Post \/ PostOn

Spec == Init /\ [][Next]_vars

(* sem_wait and sem_post, used as regression_tests/sem_wait.c does, around *)
(* a critical section: one thread is in it at a time.                      *)
OneInside == \A t, u \in inside : t = u

=============================================================================
