-------------------------- MODULE PkThreadsProofs --------------------------
(***************************************************************************)
(* PaRTiKle's threads, for any number of threads, mutexes and conditions,  *)
(* any types and ceilings: no two threads are in one critical section, a   *)
(* thread is in the list of its priority exactly if it is ready, one that  *)
(* waits will be found by who wakes it, what ceilings raise comes back,    *)
(* and waiting lets nobody in between.  Which thread runs next matters     *)
(* only for the last theorem, that it is one of the highest priority.      *)
(***************************************************************************)
EXTENDS PkThreads, PkKernelProofs

(* How often m occurs in a list of locked mutexes.                         *)
Times(s, m) == Cardinality({i \in DOMAIN s : s[i] = m})

(* What of the types is needed.                                            *)
Shape ==
  /\ held \in [Threads -> Seq(Mutexes)]
  /\ DOMAIN mutex = Mutexes
  /\ \A m \in Mutexes : /\ {"owner", "owner_prio", "counter", "mutex_list"} = DOMAIN mutex[m]
                        /\ mutex[m].counter \in Nat

(* Its owner has locked a mutex as often as its counter says, or once, and *)
(* nobody else has, ...                                                    *)
Locks(m) == IF Type[m] = "recursive" THEN mutex[m].counter ELSE 1
HolderOwns ==
  \A t \in Threads, m \in Mutexes :
    Times(held[t], m) = IF mutex[m].owner = t THEN Locks(m) ELSE 0

(* ... and that is at least once.                                          *)
CounterCounts == \A m \in Mutexes : mutex[m].owner \in Threads => Locks(m) >= 1

OwnerInv == Shape /\ HolderOwns /\ CounterCounts

-----------------------------------------------------------------------------
(* How often a mutex occurs in a finite list is a number.                  *)
LEMMA TimesFinite ==
  ASSUME NEW s \in Seq(Mutexes), NEW m
  PROVE  /\ IsFiniteSet({i \in DOMAIN s : s[i] = m})
         /\ Times(s, m) \in Nat
         /\ Times(s, m) = 0 <=> \A i \in DOMAIN s : s[i] # m
<1> DEFINE D == {i \in DOMAIN s : s[i] = m}
<1>1. DOMAIN s = 1 .. Len(s) /\ Len(s) \in Nat
  OBVIOUS
<1>2. IsFiniteSet(1 .. Len(s))
  BY <1>1, FS_Interval
<1>3. IsFiniteSet(D)
  BY <1>1, <1>2, FS_Subset
<1>4. Cardinality(D) \in Nat /\ (Cardinality(D) = 0 <=> D = {})
  BY <1>3, FS_CardinalityType, FS_EmptySet
<1> QED
  BY <1>3, <1>4 DEF Times

(* pthread_mutex_lock: one more of the mutex that is taken.                *)
LEMMA TimesAppend ==
  ASSUME NEW s \in Seq(Mutexes), NEW x \in Mutexes, NEW m \in Mutexes
  PROVE  Times(Append(s, x), m) = Times(s, m) + (IF x = m THEN 1 ELSE 0)
<1> DEFINE n == Len(s)
           D == {i \in DOMAIN s : s[i] = m}
           E == {i \in DOMAIN Append(s, x) : Append(s, x)[i] = m}
<1>1. n \in Nat /\ DOMAIN s = 1 .. n /\ DOMAIN Append(s, x) = 1 .. n + 1
  OBVIOUS
<1>2. \A i \in 1 .. n + 1 : Append(s, x)[i] = IF i = n + 1 THEN x ELSE s[i]
  BY <1>1
<1>3. E = IF x = m THEN D \cup {n + 1} ELSE D
  BY <1>1, <1>2
<1>4. IsFiniteSet(D) /\ Cardinality(D) \in Nat
  BY TimesFinite DEF Times
<1>5. n + 1 \notin D
  BY <1>1
<1>6. Cardinality(D \cup {n + 1}) = Cardinality(D) + 1
  BY <1>4, <1>5, FS_AddElement
<1>7. Times(Append(s, x), m) = Cardinality(E) /\ Times(s, m) = Cardinality(D)
  BY DEF Times
<1> HIDE DEF D, E
<1>8. CASE x = m
  BY <1>3, <1>6, <1>7, <1>8
<1>9. CASE x # m
  BY <1>3, <1>4, <1>7, <1>9
<1> QED
  BY <1>8, <1>9

(* pthread_mutex_unlock: one less of the one that was locked last.         *)
LEMMA TimesFront ==
  ASSUME NEW s \in Seq(Mutexes), s # <<>>, NEW m \in Mutexes
  PROVE  /\ Front(s) \in Seq(Mutexes)
         /\ Times(Front(s), m) = Times(s, m) - (IF Last(s) = m THEN 1 ELSE 0)
         /\ Last(s) = m => Times(s, m) >= 1
<1> DEFINE n == Len(s)
           D == {i \in DOMAIN s : s[i] = m}
           E == {i \in DOMAIN Front(s) : Front(s)[i] = m}
<1>1. n \in Nat /\ n > 0 /\ DOMAIN s = 1 .. n
  OBVIOUS
<1>2. Front(s) \in Seq(Mutexes) /\ DOMAIN Front(s) = 1 .. n - 1
  BY <1>1 DEF Front
<1>3. \A i \in 1 .. n - 1 : Front(s)[i] = s[i]
  BY <1>1 DEF Front
<1>4. E = D \ {n}
  BY <1>1, <1>2, <1>3
<1>5. IsFiniteSet(D) /\ Cardinality(D) \in Nat
  BY TimesFinite DEF Times
<1>6. n \in D <=> Last(s) = m
  BY <1>1 DEF Last
<1>7. Times(Front(s), m) = Cardinality(E) /\ Times(s, m) = Cardinality(D)
  BY DEF Times
<1>8. n \in D => Cardinality(D \ {n}) = Cardinality(D) - 1 /\ Cardinality(D) # 0
  BY <1>5, FS_RemoveElement, FS_EmptySet
<1>9. n \notin D => D \ {n} = D
  OBVIOUS
<1> HIDE DEF D, E
<1>10. CASE Last(s) = m
  BY <1>2, <1>4, <1>5, <1>6, <1>7, <1>8, <1>10
<1>11. CASE Last(s) # m
  <2>1. E = D
    BY <1>4, <1>6, <1>9, <1>11
  <2>2. Times(Front(s), m) = Times(s, m) /\ Times(s, m) \in Nat
    BY <1>5, <1>7, <2>1
  <2> QED
    BY <1>2, <1>11, <2>2
<1> QED
  BY <1>10, <1>11

(* What a thread holds occurs at least once.                               *)
LEMMA HoldsTimes ==
  ASSUME Shape, NEW t \in Threads, NEW m \in Mutexes
  PROVE  Holds(t, m) <=> Times(held[t], m) # 0
BY TimesFinite DEF Holds, Shape
-----------------------------------------------------------------------------
(* The four ways in which mutexes and what is held change.                 *)

(* held after Gains.                                                       *)
LEMMA GainsTimes ==
  ASSUME Shape, NEW m \in Mutexes, Gains(m)
  PROVE  /\ held' \in [Threads -> Seq(Mutexes)]
         /\ \A t \in Threads, x \in Mutexes :
              /\ Times(held[t], x) \in Nat
              /\ Times(held'[t], x) = Times(held[t], x) + (IF t = current /\ x = m THEN 1 ELSE 0)
<1>1. held' \in [Threads -> Seq(Mutexes)]
  <2>1. held' = [held EXCEPT ![current] = Append(held[current], m)]
    BY DEF Gains
  <2>2. current \in Threads => Append(held[current], m) \in Seq(Mutexes)
    BY DEF Shape
  <2> QED
    BY <2>1, <2>2 DEF Shape
<1>2. ASSUME NEW t \in Threads, NEW x \in Mutexes
      PROVE  /\ Times(held[t], x) \in Nat
             /\ Times(held'[t], x) = Times(held[t], x) + (IF t = current /\ x = m THEN 1 ELSE 0)
  <2>1. held[t] \in Seq(Mutexes)
    BY DEF Shape
  <2>2. Times(held[t], x) \in Nat
    BY <2>1, TimesFinite
  <2>3. CASE t = current
    <3>1. held'[t] = Append(held[t], m)
      BY <2>3 DEF Gains, Shape
    <3> QED
      BY <2>1, <2>2, <2>3, <3>1, TimesAppend
  <2>4. CASE t # current
    <3>1. held'[t] = held[t]
      BY <2>4 DEF Gains, Shape
    <3> QED
      BY <2>2, <2>4, <3>1
  <2> QED
    BY <2>3, <2>4
<1> QED
  BY <1>1, <1>2

(* A free mutex is taken, with a counter that is right for its type.       *)
LEMMA TakeKeeps ==
  ASSUME OwnerInv, NEW m \in Mutexes, NEW counter \in Nat, Take(m, counter),
         Type[m] = "recursive" => counter = 1
  PROVE  OwnerInv'
<1>1. mutex[m].owner = Idle /\ Gains(m)
  BY DEF Take
<1>2. \A t \in Threads : Times(held[t], m) = 0
  BY <1>1, KernelAssumption DEF OwnerInv, HolderOwns
<1>3. /\ DOMAIN mutex' = Mutexes
      /\ \A x \in Mutexes \ {m} : mutex'[x] = mutex[x]
      /\ mutex'[m].owner = current /\ mutex'[m].counter = counter
      /\ DOMAIN mutex'[m] = DOMAIN mutex[m]
  BY DEF Take, OwnerInv, Shape
<1>4. /\ held' \in [Threads -> Seq(Mutexes)]
      /\ \A t \in Threads, x \in Mutexes :
           /\ Times(held[t], x) \in Nat
           /\ Times(held'[t], x) = Times(held[t], x) + (IF t = current /\ x = m THEN 1 ELSE 0)
  BY <1>1, GainsTimes DEF OwnerInv
<1>5. Shape'
  BY <1>3, <1>4 DEF OwnerInv, Shape
<1>6. ASSUME NEW t \in Threads, NEW x \in Mutexes
      PROVE  Times(held'[t], x) = IF mutex'[x].owner = t THEN Locks(x)' ELSE 0
  <2>1. CASE x = m
    <3>1. Times(held'[t], m) = IF t = current THEN 1 ELSE 0
      BY <1>2, <1>4
    <3>2. Locks(m)' = 1
      BY <1>3 DEF Locks
    <3> QED
      BY <1>3, <2>1, <3>1, <3>2
  <2>2. CASE x # m
    <3>1. mutex'[x] = mutex[x] /\ Locks(x)' = Locks(x)
      BY <1>3, <2>2 DEF Locks
    <3>2. Times(held'[t], x) = Times(held[t], x)
      BY <1>4, <2>2
    <3> QED
      BY <3>1, <3>2 DEF OwnerInv, HolderOwns
  <2> QED
    BY <2>1, <2>2
<1>7. CounterCounts'
  <2> SUFFICES ASSUME NEW x \in Mutexes, mutex'[x].owner \in Threads PROVE Locks(x)' >= 1
    BY DEF CounterCounts
  <2>1. CASE x = m
    BY <1>3, <2>1 DEF Locks
  <2>2. CASE x # m
    <3>1. mutex'[x] = mutex[x] /\ Locks(x)' = Locks(x)
      BY <1>3, <2>2 DEF Locks
    <3> QED
      BY <3>1 DEF OwnerInv, CounterCounts
  <2> QED
    BY <2>1, <2>2
<1> QED
  BY <1>5, <1>6, <1>7 DEF OwnerInv, HolderOwns

(* The owner of a recursive mutex locks it once more.                      *)
LEMMA LockAgainKeeps ==
  ASSUME OwnerInv, NEW m \in Mutexes, LockAgain(m)
  PROVE  OwnerInv'
<1>1. mutex[m].owner = current /\ Type[m] = "recursive" /\ Gains(m)
  BY DEF LockAgain
<1>2. /\ DOMAIN mutex' = Mutexes
      /\ \A x \in Mutexes \ {m} : mutex'[x] = mutex[x]
      /\ mutex'[m].owner = mutex[m].owner
      /\ mutex'[m].counter = mutex[m].counter + 1
      /\ DOMAIN mutex'[m] = DOMAIN mutex[m]
  BY DEF LockAgain, OwnerInv, Shape
<1>3. /\ held' \in [Threads -> Seq(Mutexes)]
      /\ \A t \in Threads, x \in Mutexes :
           /\ Times(held[t], x) \in Nat
           /\ Times(held'[t], x) = Times(held[t], x) + (IF t = current /\ x = m THEN 1 ELSE 0)
  BY <1>1, GainsTimes DEF OwnerInv
<1>4. Shape'
  <2>1. \A x \in Mutexes : mutex'[x].counter \in Nat /\ DOMAIN mutex'[x] = DOMAIN mutex[x]
    BY <1>2, <1>3 DEF OwnerInv, Shape
  <2> QED
    BY <1>2, <1>3, <2>1 DEF OwnerInv, Shape
<1>5. HolderOwns'
  <2> SUFFICES ASSUME NEW t \in Threads, NEW x \in Mutexes
               PROVE  Times(held'[t], x) = IF mutex'[x].owner = t THEN Locks(x)' ELSE 0
    BY DEF HolderOwns
  <2>1. CASE x = m
    BY <1>1, <1>2, <1>3, <2>1 DEF OwnerInv, HolderOwns, Locks
  <2>2. CASE x # m
    BY <1>1, <1>2, <1>3, <2>2 DEF OwnerInv, HolderOwns, Locks
  <2> QED
    BY <2>1, <2>2
<1>6. CounterCounts'
  <2> SUFFICES ASSUME NEW x \in Mutexes, mutex'[x].owner \in Threads PROVE Locks(x)' >= 1
    BY DEF CounterCounts
  <2>1. CASE x = m
    BY <1>1, <1>2, <2>1 DEF OwnerInv, Shape, Locks
  <2>2. CASE x # m
    BY <1>2, <2>2 DEF OwnerInv, CounterCounts, Locks
  <2> QED
    BY <2>1, <2>2
<1> QED
  BY <1>4, <1>5, <1>6 DEF OwnerInv

(* A thread that waits for a mutex changes neither owner nor counter.      *)
LEMMA WaitKeeps ==
  ASSUME OwnerInv, NEW m \in Mutexes, WaitForMutex(m)
  PROVE  OwnerInv'
<1>1. /\ DOMAIN mutex' = Mutexes
      /\ \A x \in Mutexes : /\ mutex'[x].owner = mutex[x].owner
                            /\ mutex'[x].counter = mutex[x].counter
                            /\ DOMAIN mutex'[x] = DOMAIN mutex[x]
      /\ held' = held
  BY DEF WaitForMutex, OwnerInv, Shape
<1> QED
  BY <1>1 DEF OwnerInv, Shape, HolderOwns, CounterCounts, Locks

LEMMA LockLoopKeeps ==
  ASSUME OwnerInv, NEW m \in Mutexes, LockLoop(m)
  PROVE  OwnerInv'
BY TakeKeeps, LockAgainKeeps, WaitKeeps DEF LockLoop

LEMMA TryLockKeeps ==
  ASSUME OwnerInv, NEW m \in Mutexes, TryLock(m)
  PROVE  OwnerInv'
<1>1. Type[m] # "recursive" /\ mutex[m].counter \in Nat
  BY ThreadsAssumption DEF TryLock, OwnerInv, Shape
<1> QED
  BY <1>1, TakeKeeps, LockAgainKeeps DEF TryLock

(* held after Gives, for the mutex that was locked last.                   *)
LEMMA GivesTimes ==
  ASSUME Shape, NEW m \in Mutexes, Gives, held[current] # <<>>, m = Last(held[current])
  PROVE  /\ held' \in [Threads -> Seq(Mutexes)]
         /\ \A t \in Threads, x \in Mutexes :
              /\ Times(held[t], x) \in Nat
              /\ Times(held'[t], x) = Times(held[t], x) - (IF t = current /\ x = m THEN 1 ELSE 0)
              /\ t = current /\ x = m => Times(held[t], x) >= 1
<1>1. held' \in [Threads -> Seq(Mutexes)]
  <2>1. held' = [held EXCEPT ![current] = Front(held[current])]
    BY DEF Gives
  <2>2. current \in Threads => Front(held[current]) \in Seq(Mutexes)
    BY TimesFront DEF Shape
  <2> QED
    BY <2>1, <2>2 DEF Shape
<1>2. ASSUME NEW t \in Threads, NEW x \in Mutexes
      PROVE  /\ Times(held[t], x) \in Nat
             /\ Times(held'[t], x) = Times(held[t], x) - (IF t = current /\ x = m THEN 1 ELSE 0)
             /\ t = current /\ x = m => Times(held[t], x) >= 1
  <2>1. held[t] \in Seq(Mutexes)
    BY DEF Shape
  <2>2. Times(held[t], x) \in Nat
    BY <2>1, TimesFinite
  <2>3. CASE t = current
    <3>1. held'[t] = Front(held[t])
      BY <2>3 DEF Gives, Shape
    <3> QED
      BY <2>1, <2>2, <2>3, <3>1, TimesFront
  <2>4. CASE t # current
    <3>1. held'[t] = held[t]
      BY <2>4 DEF Gives, Shape
    <3> QED
      BY <2>2, <2>4, <3>1
  <2> QED
    BY <2>3, <2>4
<1> QED
  BY <1>1, <1>2

(* pthread_mutex_unlock, alone and in pthread_cond_wait.                   *)
LEMMA UnlockedKeeps ==
  ASSUME OwnerInv, NEW m \in Mutexes, NEW where, Unlocked(m, where),
         held[current] # <<>>, m = Last(held[current])
  PROVE  OwnerInv'
<1>1. mutex[m].owner = current /\ Gives
  BY DEF Unlocked
<1>2. /\ held' \in [Threads -> Seq(Mutexes)]
      /\ \A t \in Threads, x \in Mutexes :
           /\ Times(held[t], x) \in Nat
           /\ Times(held'[t], x) = Times(held[t], x) - (IF t = current /\ x = m THEN 1 ELSE 0)
           /\ t = current /\ x = m => Times(held[t], x) >= 1
  BY <1>1, GivesTimes DEF OwnerInv
<1>3. \A t \in Threads \ {current} : Times(held[t], m) = 0
  BY <1>1, <1>2 DEF OwnerInv, HolderOwns
<1>4. CASE /\ Type[m] = "recursive" /\ mutex[m].counter > 1
           /\ mutex' = [mutex EXCEPT ![m].counter = @ - 1]
  <2>1. /\ DOMAIN mutex' = Mutexes
        /\ \A x \in Mutexes \ {m} : mutex'[x] = mutex[x]
        /\ mutex'[m].owner = mutex[m].owner
        /\ mutex'[m].counter = mutex[m].counter - 1
        /\ DOMAIN mutex'[m] = DOMAIN mutex[m]
    BY <1>4 DEF OwnerInv, Shape
  <2>2. Shape'
    BY <1>2, <1>4, <2>1 DEF OwnerInv, Shape
  <2>3. HolderOwns'
    <3> SUFFICES ASSUME NEW t \in Threads, NEW x \in Mutexes
                 PROVE  Times(held'[t], x) = IF mutex'[x].owner = t THEN Locks(x)' ELSE 0
      BY DEF HolderOwns
    <3>1. CASE x = m
      BY <1>1, <1>2, <1>3, <1>4, <2>1, <3>1 DEF OwnerInv, HolderOwns, Locks
    <3>2. CASE x # m
      BY <1>1, <1>2, <1>3, <2>1, <3>2 DEF OwnerInv, HolderOwns, Locks
    <3> QED
      BY <3>1, <3>2
  <2>4. CounterCounts'
    BY <1>2, <1>3, <1>4, <2>1 DEF OwnerInv, CounterCounts, Locks, Shape
  <2> QED
    BY <2>2, <2>3, <2>4 DEF OwnerInv
<1>5. CASE /\ Type[m] = "recursive" => mutex[m].counter <= 1
           /\ Release(m, where)
  <2>1. /\ DOMAIN mutex' = Mutexes
        /\ \A x \in Mutexes \ {m} : mutex'[x] = mutex[x]
        /\ mutex'[m].owner = Idle /\ mutex'[m].counter = 0
        /\ DOMAIN mutex'[m] = DOMAIN mutex[m]
    BY <1>5 DEF Release, OwnerInv, Shape
  <2>2. \A t \in Threads : Times(held[t], m) <= 1
    <3>1. Locks(m) <= 1
      BY <1>5 DEF Locks
    <3>2. \A t \in Threads : Times(held[t], m) = Locks(m) \/ Times(held[t], m) = 0
      BY DEF OwnerInv, HolderOwns
    <3> HIDE DEF Locks
    <3> QED
      BY <3>1, <3>2
  <2>3. \A t \in Threads : Times(held'[t], m) = 0
    BY <1>2, <1>3, <2>2
  <2>4. Shape'
    <3>1. ASSUME NEW x \in Mutexes
          PROVE  mutex'[x].counter \in Nat /\ DOMAIN mutex'[x] = DOMAIN mutex[x]
      <4>1. CASE x = m
        BY <2>1, <4>1
      <4>2. CASE x # m
        BY <2>1, <4>2 DEF OwnerInv, Shape
      <4> QED
        BY <4>1, <4>2
    <3> QED
      BY <1>2, <2>1, <3>1 DEF OwnerInv, Shape
  <2>5. ASSUME NEW t \in Threads, NEW x \in Mutexes
        PROVE  Times(held'[t], x) = IF mutex'[x].owner = t THEN Locks(x)' ELSE 0
    <3>1. CASE x = m
      BY <2>1, <2>3, <3>1, KernelAssumption
    <3>2. CASE x # m
      BY <1>2, <2>1, <3>2 DEF OwnerInv, HolderOwns, Locks
    <3> QED
      BY <3>1, <3>2
  <2>6. ASSUME NEW x \in Mutexes, mutex'[x].owner \in Threads
        PROVE  Locks(x)' >= 1
    <3>1. x # m
      BY <2>1, <2>6, KernelAssumption
    <3> QED
      BY <2>1, <2>6, <3>1 DEF OwnerInv, CounterCounts, Locks
  <2> QED
    BY <2>4, <2>5, <2>6 DEF OwnerInv, HolderOwns, CounterCounts
<1> QED
  BY <1>4, <1>5 DEF Unlocked

-----------------------------------------------------------------------------
LEMMA OwnerInit == Init => OwnerInv
<1> SUFFICES ASSUME Init PROVE OwnerInv
  OBVIOUS
<1>1. Shape
  BY DEF Init, Shape
<1>2. \A t \in Threads, m \in Mutexes : Times(held[t], m) = 0
  <2> SUFFICES ASSUME NEW t \in Threads, NEW m \in Mutexes PROVE Times(held[t], m) = 0
    OBVIOUS
  <2>1. held[t] = <<>>
    BY DEF Init
  <2>2. DOMAIN held[t] = {}
    BY <2>1
  <2>3. {i \in DOMAIN held[t] : held[t][i] = m} = {}
    BY <2>2
  <2> QED
    BY <2>3, FS_EmptySet DEF Times
<1> QED
  BY <1>1, <1>2, KernelAssumption DEF OwnerInv, HolderOwns, CounterCounts, Init

(* Every step keeps the invariant: only locking and unlocking touch what   *)
(* it speaks about.                                                        *)
LEMMA OwnerNext == OwnerInv /\ [Next]_vars => OwnerInv'
<1> SUFFICES ASSUME OwnerInv, [Next]_vars PROVE OwnerInv'
  OBVIOUS
<1>1. UNCHANGED <<mutex, held>> => OwnerInv'
  BY DEF OwnerInv, Shape, HolderOwns, CounterCounts, Locks
<1>2. CASE UNCHANGED vars
  BY <1>1, <1>2 DEF vars
<1>3. CASE KernelStep /\ UNCHANGED <<mutex, cond, joining, held, base>>
  BY <1>1, <1>3
<1>4. ASSUME NEW m \in Mutexes, Lock(m) \/ LockOn(m) \/ TryLock(m) \/ Unlock(m)
      PROVE  OwnerInv'
  BY <1>4, LockLoopKeeps, TryLockKeeps, UnlockedKeeps DEF Lock, LockOn, Unlock
<1>5. ASSUME NEW c \in Conds, Signal(c) \/ Broadcast(c)
      PROVE  OwnerInv'
  BY <1>1, <1>5 DEF Signal, Broadcast, program
<1>6. ASSUME NEW c \in Conds, NEW m \in Mutexes, CondWait(c, m)
      PROVE  OwnerInv'
  BY <1>6, UnlockedKeeps DEF CondWait
<1>7. ASSUME NEW c \in Conds, NEW m \in Mutexes, CondWaitOn(c, m)
      PROVE  OwnerInv'
  BY <1>1, <1>7 DEF CondWaitOn, program
<1>8. ASSUME NEW t \in Threads, Join(t) \/ JoinOn(t)
      PROVE  OwnerInv'
  BY <1>1, <1>8 DEF Join, JoinOn, JoinLoop, program
<1>9. CASE Exit \/ ExitOn
  BY <1>1, <1>9 DEF Exit, ExitOn, program
<1>10. ASSUME NEW t \in Threads, NEW p \in Prios, SetSchedParam(t, p)
       PROVE  OwnerInv'
  BY <1>1, <1>10 DEF SetSchedParam
<1> QED
  BY <1>2, <1>3, <1>4, <1>5, <1>6, <1>7, <1>8, <1>9, <1>10 DEF Next

LEMMA OwnerMutual == OwnerInv => MutualExclusion
<1> SUFFICES ASSUME OwnerInv, NEW m \in Mutexes, NEW t \in Threads, NEW u \in Threads,
                    Holds(t, m), Holds(u, m)
             PROVE  t = u
  BY DEF MutualExclusion
<1>1. Times(held[t], m) # 0 /\ Times(held[u], m) # 0
  BY HoldsTimes DEF OwnerInv
<1> QED
  BY <1>1 DEF OwnerInv, HolderOwns

(* pthread_mutex_lock, trylock, unlock and pthread_cond_wait: no two       *)
(* threads are between locking a mutex and unlocking it for the last time. *)
THEOREM LocksExclude == Spec => []MutualExclusion
BY OwnerInit, OwnerNext, OwnerMutual, PTL DEF Spec

-----------------------------------------------------------------------------
(* The scheduler's lists and the threads that wait in others.              *)

Lists ==
  /\ mutex \in [Mutexes -> [owner : Threads \cup {Idle}, owner_prio : Prios,
                            counter : Nat, mutex_list : Seq(Threads)]]
  /\ cond \in [Conds -> Seq(Threads)]
  /\ joining \in [Threads -> Threads \cup {Idle}]
  /\ held \in [Threads -> Seq(Mutexes)]
  /\ base \in [Threads -> Prios]

ThreadsInv == KernelInv /\ Lists

(* What the calls make of states and priorities.                           *)

(* Whether taking m raises the thread, and whether unlocking lowers it.    *)
Raises(m) == m \in Protect /\ sched.prio[current] > Ceiling[m]
Lowers(m) == m \in Protect /\ mutex[m].owner_prio # sched.prio[current]

PrioOf(p) == [sched.prio EXCEPT ![current] = p]
StateOf(s) == [sched.state EXCEPT ![current] = s]

LEMMA TakeEffect ==
  ASSUME ThreadsInv, NEW m \in Mutexes, NEW counter \in Nat, Take(m, counter),
         current \in Threads
  PROVE  Effect(sched.state, IF Raises(m) THEN PrioOf(Ceiling[m]) ELSE sched.prio, User, Raises(m))
<1>1. Ordered(sched) /\ Ceiling[m] \in Prios
  BY ThreadsAssumption DEF ThreadsInv, KernelInv
<1>2. CASE Raises(m)
  <2>1. Reschedule(WithPrio(sched, current, Ceiling[m]), User)
    BY <1>2 DEF Take, Raises
  <2>2. /\ Ordered(WithPrio(sched, current, Ceiling[m]))
        /\ WithPrio(sched, current, Ceiling[m]).state = sched.state
        /\ WithPrio(sched, current, Ceiling[m]).prio = PrioOf(Ceiling[m])
    BY <1>1, WithPrioOrdered DEF PrioOf
  <2> QED
    BY <1>2, <2>1, <2>2 DEF Reschedule, Effect
<1>3. CASE ~Raises(m)
  <2>1. Proceed(sched, User)
    BY <1>3 DEF Take, Raises
  <2> QED
    BY <1>1, <1>3, <2>1 DEF Proceed, Effect
<1> QED
  BY <1>2, <1>3

(* A thread that waits, in whichever list.                                 *)
LEMMA WaitEffect ==
  ASSUME ThreadsInv, NEW where, Reschedule(Suspended(sched, current), where),
         current \in Threads, sched.state[current] = "ready"
  PROVE  Effect(StateOf("suspended"), sched.prio, where, TRUE)
<1>1. /\ Ordered(Suspended(sched, current)) /\ Suspended(sched, current).prio = sched.prio
      /\ Suspended(sched, current).state = StateOf("suspended")
  BY SuspendedOrdered DEF ThreadsInv, KernelInv, StateOf
<1> QED
  BY <1>1 DEF Reschedule, Effect

LEMMA ReleaseEffect ==
  ASSUME ThreadsInv, NEW m \in Mutexes, NEW where, Release(m, where), current \in Threads
  PROVE  Effect(Woken(sched, Elems(mutex[m].mutex_list)),
                IF Lowers(m) THEN PrioOf(mutex[m].owner_prio) ELSE sched.prio,
                where, Lowers(m))
<1> DEFINE k == AllActivated(sched, mutex[m].mutex_list)
           back == mutex[m].owner_prio
<1>1. mutex[m].mutex_list \in Seq(Threads) /\ back \in Prios /\ Ordered(sched)
  BY DEF ThreadsInv, Lists, KernelInv
<1>2. /\ Ordered(k) /\ k.prio = sched.prio
      /\ k.state = Woken(sched, Elems(mutex[m].mutex_list))
  BY <1>1, AllActivatedOrdered
<1>3. IF m \in Protect /\ back # k.prio[current]
        THEN Reschedule(WithPrio(k, current, back), where)
        ELSE Proceed(k, where)
  BY DEF Release
<1> HIDE DEF k, back
<1>4. CASE Lowers(m)
  <2>1. Reschedule(WithPrio(k, current, back), where)
    BY <1>2, <1>3, <1>4 DEF Lowers, back
  <2>2. /\ Ordered(WithPrio(k, current, back)) /\ WithPrio(k, current, back).state = k.state
        /\ WithPrio(k, current, back).prio = PrioOf(back)
    BY <1>1, <1>2, WithPrioOrdered DEF PrioOf
  <2> QED
    BY <1>2, <1>4, <2>1, <2>2 DEF Reschedule, Effect, back
<1>5. CASE ~Lowers(m)
  <2>1. Proceed(k, where)
    BY <1>2, <1>3, <1>5 DEF Lowers, back
  <2> QED
    BY <1>2, <1>5, <2>1 DEF Proceed, Effect
<1> QED
  BY <1>4, <1>5

LEMMA SignalEffect ==
  ASSUME ThreadsInv, NEW c \in Conds, Signal(c)
  PROVE  /\ current \in Threads /\ at[current] = User
         /\ \/ /\ cond[c] # <<>> /\ cond' = [cond EXCEPT ![c] = Tail(@)]
               /\ Head(cond[c]) \in Threads
               /\ Effect(Woken(sched, {Head(cond[c])}), sched.prio, User, TRUE)
            \/ /\ cond' = cond
               /\ Effect(sched.state, sched.prio, User, TRUE)
<1>1. current \in Threads /\ at[current] = User /\ Ordered(sched) /\ cond[c] \in Seq(Threads)
  BY DEF ThreadsInv, KernelInv, Lists, Signal, Running
<1>2. CASE cond[c] # <<>>
  <2>1. Head(cond[c]) \in Threads
    BY <1>1, <1>2
  <2>2. /\ Ordered(Activated(sched, Head(cond[c])))
        /\ Activated(sched, Head(cond[c])).prio = sched.prio
        /\ Activated(sched, Head(cond[c])).state = Woken(sched, {Head(cond[c])})
    BY <1>1, <2>1, ActivatedIsWoken
  <2>3. /\ cond' = [cond EXCEPT ![c] = Tail(@)]
        /\ Reschedule(Activated(sched, Head(cond[c])), User)
    BY <1>2 DEF Signal
  <2> QED
    BY <1>1, <1>2, <2>1, <2>2, <2>3 DEF Reschedule, Effect
<1>3. CASE cond[c] = <<>>
  BY <1>1, <1>3 DEF Signal, Reschedule, Effect
<1> QED
  BY <1>2, <1>3

LEMMA BroadcastEffect ==
  ASSUME ThreadsInv, NEW c \in Conds, Broadcast(c)
  PROVE  /\ current \in Threads /\ at[current] = User
         /\ Effect(Woken(sched, Elems(cond[c])), sched.prio, User, TRUE)
<1>1. current \in Threads /\ at[current] = User /\ Ordered(sched) /\ cond[c] \in Seq(Threads)
  BY DEF ThreadsInv, KernelInv, Lists, Broadcast, Running
<1>2. /\ Ordered(AllActivated(sched, cond[c])) /\ AllActivated(sched, cond[c]).prio = sched.prio
      /\ AllActivated(sched, cond[c]).state = Woken(sched, Elems(cond[c]))
  BY <1>1, AllActivatedOrdered
<1> QED
  BY <1>1, <1>2 DEF Broadcast, Reschedule, Effect

LEMMA JoinEffect ==
  ASSUME ThreadsInv, NEW t \in Threads, JoinLoop(t), current \in Threads,
         sched.state[current] = "ready"
  PROVE  \/ /\ sched.state[t] = "finished" /\ joining' = joining
            /\ Effect([sched.state EXCEPT ![t] = "deleted"], sched.prio, User, FALSE)
         \/ /\ sched.state[t] # "finished" /\ joining' = [joining EXCEPT ![t] = current]
            /\ Effect(StateOf("suspended"), sched.prio, <<"join", t>>, TRUE)
<1>1. CASE sched.state[t] = "finished"
  <2> DEFINE k == [Removed(sched, t) EXCEPT !.state[t] = "deleted"]
  <2>1. Ordered(k) /\ k.prio = sched.prio /\ k.state = [sched.state EXCEPT ![t] = "deleted"]
    BY GoneOrdered DEF ThreadsInv, KernelInv
  <2>2. Proceed(k, User) /\ joining' = joining
    BY <1>1 DEF JoinLoop
  <2> HIDE DEF k
  <2> QED
    BY <1>1, <2>1, <2>2 DEF Proceed, Effect
<1>2. CASE sched.state[t] # "finished"
  BY <1>2, WaitEffect DEF JoinLoop
<1> QED
  BY <1>1, <1>2

LEMMA ExitEffect ==
  ASSUME ThreadsInv, Exit
  PROVE  /\ current \in Threads /\ at[current] = User /\ armed' = armed \ {current}
         /\ Effect(StateOf("finished"), sched.prio, <<"exiting">>, FALSE)
<1>1. current \in Threads /\ at[current] = User /\ Ordered(sched)
  BY DEF ThreadsInv, KernelInv, Exit, Running
<1>2. /\ Ordered(Finished(sched, current)) /\ Finished(sched, current).prio = sched.prio
      /\ Finished(sched, current).state = StateOf("finished")
  BY <1>1, GoneOrdered DEF Finished, StateOf
<1> QED
  BY <1>1, <1>2 DEF Exit, Proceed, Effect

(* Who joins a thread that exits.                                          *)
Joiner == IF joining[current] = Idle THEN {} ELSE {joining[current]}

LEMMA ExitOnEffect ==
  ASSUME ThreadsInv, ExitOn
  PROVE  /\ current \in Threads /\ at[current] = <<"exiting">> /\ Joiner \subseteq Threads
         /\ Effect(Woken(sched, Joiner), sched.prio, <<"end">>, TRUE)
<1> DEFINE j == joining[current]
           k == IF j = Idle THEN sched ELSE Activated(sched, j)
<1>1. /\ current \in Threads /\ at[current] = <<"exiting">> /\ Ordered(sched)
      /\ j \in Threads \cup {Idle} /\ Reschedule(k, <<"end">>)
  BY DEF ThreadsInv, KernelInv, Lists, ExitOn, Running
<1>2. Ordered(k) /\ k.prio = sched.prio /\ k.state = Woken(sched, Joiner)
  <2>1. CASE j = Idle
    <3>1. sched.state \in [Threads -> States]
      BY <1>1 DEF Ordered, Kernels
    <3> QED
      BY <1>1, <2>1, <3>1 DEF Joiner, Woken
  <2>2. CASE j # Idle
    <3>1. j \in Threads /\ k = Activated(sched, j) /\ Joiner = {j}
      BY <1>1, <2>2 DEF Joiner
    <3> QED
      BY <1>1, <3>1, ActivatedIsWoken
  <2> QED
    BY <2>1, <2>2
<1> HIDE DEF k
<1> QED
  BY <1>1, <1>2 DEF Reschedule, Effect, Joiner

LEMMA SetPrioEffect ==
  ASSUME ThreadsInv, NEW t \in Threads, NEW p \in Prios, SetSchedParam(t, p)
  PROVE  /\ current \in Threads /\ at[current] = User /\ armed' = armed
         /\ Effect(sched.state, [sched.prio EXCEPT ![t] = p], User, TRUE)
<1>1. current \in Threads /\ at[current] = User /\ Ordered(sched)
  BY DEF ThreadsInv, KernelInv, SetSchedParam, SetPrio, Running
<1>2. /\ Ordered(WithPrio(sched, t, p)) /\ WithPrio(sched, t, p).state = sched.state
      /\ WithPrio(sched, t, p).prio = [sched.prio EXCEPT ![t] = p]
  BY <1>1, WithPrioOrdered
<1> QED
  BY <1>1, <1>2 DEF SetSchedParam, SetPrio, Reschedule, Effect

-----------------------------------------------------------------------------
(* Every step keeps both.                                                  *)

LEMMA ThreadsInit == Init => ThreadsInv
<1> SUFFICES ASSUME Init PROVE ThreadsInv
  OBVIOUS
<1>1. 0 \in Prios /\ << >> \in Seq(Threads) /\ << >> \in Seq(Mutexes)
  BY KernelAssumption DEF Prios
<1>2. KernelInv
  BY KernelInitInv DEF Init
<1>3. mutex \in [Mutexes -> [owner : Threads \cup {Idle}, owner_prio : Prios,
                             counter : Nat, mutex_list : Seq(Threads)]]
  BY <1>1 DEF Init
<1> QED
  BY <1>1, <1>2, <1>3, KernelAssumption DEF Init, ThreadsInv, Lists

LEMMA TakeLists ==
  ASSUME ThreadsInv, NEW m \in Mutexes, NEW counter \in Nat, Take(m, counter),
         current \in Threads
  PROVE  /\ mutex' \in [Mutexes -> [owner : Threads \cup {Idle}, owner_prio : Prios,
                                    counter : Nat, mutex_list : Seq(Threads)]]
         /\ held' \in [Threads -> Seq(Mutexes)]
<1>1. sched.prio[current] \in Prios
  BY DEF ThreadsInv, KernelInv, Ordered, Kernels
<1>2. mutex' = [mutex EXCEPT ![m] = [mutex[m] EXCEPT !.owner = current, !.counter = counter,
          !.owner_prio = IF m \in Protect THEN sched.prio[current] ELSE @]]
  BY DEF Take, ThreadsInv, Lists
<1>3. [mutex[m] EXCEPT !.owner = current, !.counter = counter,
          !.owner_prio = IF m \in Protect THEN sched.prio[current] ELSE @]
        \in [owner : Threads \cup {Idle}, owner_prio : Prios,
             counter : Nat, mutex_list : Seq(Threads)]
  <2>1. mutex[m] \in [owner : Threads \cup {Idle}, owner_prio : Prios,
                      counter : Nat, mutex_list : Seq(Threads)]
    BY DEF ThreadsInv, Lists
  <2> QED
    BY <1>1, <2>1
<1>4. Append(held[current], m) \in Seq(Mutexes)
  BY DEF ThreadsInv, Lists
<1> QED
  BY <1>2, <1>3, <1>4 DEF Take, Gains, ThreadsInv, Lists

LEMMA LockLoopKeepsLists ==
  ASSUME ThreadsInv, NEW m \in Mutexes, LockLoop(m), current \in Threads,
         sched.state[current] = "ready"
  PROVE  ThreadsInv'
<1>1. armed' = armed /\ armed' \subseteq Threads /\ IsFiniteSet(armed') /\ UNCHANGED <<cond, joining, base>>
  BY DEF LockLoop, ThreadsInv, KernelInv
<1>2. CASE Take(m, 1)
  <2>1. KernelInv'
    <3>1. Effect(sched.state, IF Raises(m) THEN PrioOf(Ceiling[m]) ELSE sched.prio, User, Raises(m))
      BY <1>2, TakeEffect
    <3>2. Raises(m) \in BOOLEAN
      BY DEF Raises
    <3> QED
      BY <1>1, <3>1, <3>2, EffectKeeps DEF ThreadsInv
  <2> QED
    BY <1>1, <1>2, <2>1, TakeLists DEF ThreadsInv, Lists
<1>3. CASE LockAgain(m)
  <2>1. Effect(sched.state, sched.prio, User, FALSE)
    BY <1>3 DEF LockAgain, Proceed, Effect, ThreadsInv, KernelInv
  <2>2. KernelInv'
    BY <1>1, <2>1, EffectKeeps DEF ThreadsInv
  <2>3. Append(held[current], m) \in Seq(Mutexes)
    BY DEF ThreadsInv, Lists
  <2>4. mutex[m].counter + 1 \in Nat
    BY DEF ThreadsInv, Lists
  <2>5. mutex' = [mutex EXCEPT ![m] = [mutex[m] EXCEPT !.counter = mutex[m].counter + 1]]
    BY <1>3 DEF LockAgain, ThreadsInv, Lists
  <2>6. held' \in [Threads -> Seq(Mutexes)]
    BY <1>3, <2>3 DEF LockAgain, Gains, ThreadsInv, Lists
  <2> QED
    BY <1>1, <2>2, <2>4, <2>5, <2>6 DEF ThreadsInv, Lists
<1>4. CASE WaitForMutex(m)
  <2>1. KernelInv'
    BY <1>1, <1>4, WaitEffect, EffectKeeps DEF WaitForMutex, ThreadsInv
  <2>2. <<current>> \o mutex[m].mutex_list \in Seq(Threads)
    BY DEF ThreadsInv, Lists
  <2>3. held' = held /\ mutex' = [mutex EXCEPT ![m] = [@ EXCEPT !.mutex_list = <<current>> \o mutex[m].mutex_list]]
    BY <1>4 DEF WaitForMutex, ThreadsInv, Lists
  <2> QED
    BY <1>1, <2>1, <2>2, <2>3 DEF ThreadsInv, Lists
<1> QED
  BY <1>2, <1>3, <1>4 DEF LockLoop

LEMMA TryLockKeepsLists ==
  ASSUME ThreadsInv, NEW m \in Mutexes, TryLock(m)
  PROVE  ThreadsInv'
<1>1. current \in Threads /\ sched.state[current] = "ready"
  BY RunningIsReady DEF TryLock, ThreadsInv, User, Leaving
<1>2. armed' = armed /\ armed' \subseteq Threads /\ IsFiniteSet(armed') /\ UNCHANGED <<cond, joining, base>>
  BY DEF TryLock, ThreadsInv, KernelInv
<1>3. CASE Take(m, mutex[m].counter)
  <2>1. mutex[m].counter \in Nat
    BY DEF ThreadsInv, Lists
  <2>2. KernelInv'
    <3>1. Effect(sched.state, IF Raises(m) THEN PrioOf(Ceiling[m]) ELSE sched.prio, User, Raises(m))
      BY <1>1, <1>3, <2>1, TakeEffect
    <3>2. Raises(m) \in BOOLEAN
      BY DEF Raises
    <3> QED
      BY <1>1, <1>2, <3>1, <3>2, EffectKeeps DEF ThreadsInv
  <2> QED
    BY <1>1, <1>2, <1>3, <2>1, <2>2, TakeLists DEF ThreadsInv, Lists
<1>4. CASE LockAgain(m)
  BY <1>1, <1>2, <1>4, LockLoopKeepsLists DEF LockLoop
<1> QED
  BY <1>3, <1>4 DEF TryLock

LEMMA UnlockedKeepsLists ==
  ASSUME ThreadsInv, NEW m \in Mutexes, NEW where, Unlocked(m, where),
         current \in Threads, sched.state[current] = "ready", held[current] # <<>>
  PROVE  ThreadsInv'
<1>1. armed' = armed /\ armed' \subseteq Threads /\ IsFiniteSet(armed') /\ UNCHANGED <<cond, joining, base>>
  BY DEF Unlocked, ThreadsInv, KernelInv
<1>2. held' \in [Threads -> Seq(Mutexes)]
  <2>1. Front(held[current]) \in Seq(Mutexes)
    BY TimesFront DEF ThreadsInv, Lists
  <2> QED
    BY <2>1 DEF Unlocked, Gives, ThreadsInv, Lists
<1>3. CASE /\ Type[m] = "recursive" /\ mutex[m].counter > 1
           /\ mutex' = [mutex EXCEPT ![m].counter = @ - 1]
           /\ Proceed(sched, where)
  <2>1. Effect(sched.state, sched.prio, where, FALSE)
    BY <1>3 DEF Proceed, Effect, ThreadsInv, KernelInv
  <2>2. KernelInv'
    BY <1>1, <2>1, EffectKeeps DEF ThreadsInv
  <2>3. mutex[m].counter - 1 \in Nat
    BY <1>3 DEF ThreadsInv, Lists
  <2> QED
    BY <1>1, <1>2, <1>3, <2>2, <2>3 DEF ThreadsInv, Lists
<1>4. CASE Release(m, where)
  <2>1. Effect(Woken(sched, Elems(mutex[m].mutex_list)),
               IF Lowers(m) THEN PrioOf(mutex[m].owner_prio) ELSE sched.prio, where, Lowers(m))
    BY <1>4, ReleaseEffect
  <2>2. Woken(sched, Elems(mutex[m].mutex_list))[current] = "ready" /\ Lowers(m) \in BOOLEAN
    BY DEF Woken, Lowers
  <2>3. KernelInv'
    BY <1>1, <2>1, <2>2, EffectKeeps DEF ThreadsInv
  <2>4. << >> \in Seq(Threads)
    OBVIOUS
  <2>5. mutex' = [mutex EXCEPT ![m] = [mutex[m] EXCEPT !.owner = Idle, !.counter = 0,
                                                       !.mutex_list = <<>>]]
    BY <1>4 DEF Release, ThreadsInv, Lists
  <2> QED
    BY <1>1, <1>2, <2>3, <2>4, <2>5 DEF ThreadsInv, Lists
<1> QED
  BY <1>3, <1>4 DEF Unlocked

LEMMA CondsKeepLists ==
  ASSUME ThreadsInv, NEW c \in Conds,
         Signal(c) \/ Broadcast(c) \/ \E m \in Mutexes : CondWaitOn(c, m)
  PROVE  ThreadsInv'
<1>1. armed' = armed /\ armed' \subseteq Threads /\ IsFiniteSet(armed') /\ UNCHANGED <<mutex, joining, held, base>>
  BY DEF Signal, Broadcast, CondWaitOn, program, ThreadsInv, KernelInv
<1>2. cond[c] \in Seq(Threads)
  BY DEF ThreadsInv, Lists
<1>3. CASE Signal(c)
  <2>1. KernelInv'
    BY <1>1, <1>3, SignalEffect, EffectKeeps DEF ThreadsInv
  <2>2. cond[c] # <<>> => Tail(cond[c]) \in Seq(Threads)
    BY <1>2
  <2> QED
    BY <1>1, <1>3, <2>1, <2>2 DEF Signal, ThreadsInv, Lists
<1>4. CASE Broadcast(c)
  <2>1. KernelInv'
    BY <1>1, <1>4, BroadcastEffect, EffectKeeps DEF ThreadsInv
  <2>2. << >> \in Seq(Threads)
    OBVIOUS
  <2> QED
    BY <1>1, <1>4, <2>1, <2>2 DEF Broadcast, ThreadsInv, Lists
<1>5. ASSUME NEW m \in Mutexes, CondWaitOn(c, m)
      PROVE  ThreadsInv'
  <2>1. current \in Threads /\ sched.state[current] = "ready"
    BY <1>5, RunningIsReady DEF CondWaitOn, ThreadsInv, Leaving
  <2>2. KernelInv'
    BY <1>1, <1>5, <2>1, WaitEffect, EffectKeeps DEF CondWaitOn, ThreadsInv
  <2>3. <<current>> \o cond[c] \in Seq(Threads)
    BY <1>2, <2>1
  <2> QED
    BY <1>1, <1>5, <2>2, <2>3 DEF CondWaitOn, ThreadsInv, Lists
<1> QED
  BY <1>3, <1>4, <1>5

LEMMA JoinKeepsLists ==
  ASSUME ThreadsInv, NEW t \in Threads, Join(t) \/ JoinOn(t)
  PROVE  ThreadsInv'
<1>1. armed' = armed /\ armed' \subseteq Threads /\ IsFiniteSet(armed')
      /\ UNCHANGED <<mutex, cond, held, base>> /\ JoinLoop(t)
  BY DEF Join, JoinOn, JoinLoop, program, ThreadsInv, KernelInv
<1>2. current \in Threads /\ sched.state[current] = "ready"
  BY RunningIsReady DEF Join, JoinOn, ThreadsInv, Leaving, User
<1>3. CASE /\ sched.state[t] = "finished" /\ joining' = joining
           /\ Effect([sched.state EXCEPT ![t] = "deleted"], sched.prio, User, FALSE)
  <2>1. [sched.state EXCEPT ![t] = "deleted"][current] = "ready"
    BY <1>2, <1>3 DEF ThreadsInv, KernelInv, Ordered, Kernels
  <2>2. KernelInv'
    BY <1>1, <1>2, <1>3, <2>1, EffectKeeps DEF ThreadsInv
  <2> QED
    BY <1>1, <1>3, <2>2 DEF ThreadsInv, Lists
<1>4. CASE /\ sched.state[t] # "finished" /\ joining' = [joining EXCEPT ![t] = current]
           /\ Effect(StateOf("suspended"), sched.prio, <<"join", t>>, TRUE)
  <2>1. KernelInv'
    BY <1>1, <1>2, <1>4, EffectKeeps DEF ThreadsInv
  <2> QED
    BY <1>1, <1>2, <1>4, <2>1 DEF ThreadsInv, Lists
<1> QED
  BY <1>1, <1>2, <1>3, <1>4, JoinEffect

LEMMA ExitKeepsLists ==
  ASSUME ThreadsInv, Exit \/ ExitOn
  PROVE  ThreadsInv'
<1>1. UNCHANGED <<mutex, cond, joining, held, base>>
  BY DEF Exit, ExitOn, program
<1>2. CASE Exit
  <2>1. armed' \subseteq Threads /\ IsFiniteSet(armed')
    BY <1>2, FS_RemoveElement DEF Exit, ThreadsInv, KernelInv
  <2>2. KernelInv'
    BY <1>2, <2>1, ExitEffect, EffectKeeps DEF ThreadsInv, Leaving
  <2> QED
    BY <1>1, <2>2 DEF ThreadsInv, Lists
<1>3. CASE ExitOn
  <2>1. armed' \subseteq Threads /\ IsFiniteSet(armed')
    BY <1>3 DEF ExitOn, ThreadsInv, KernelInv
  <2>2. KernelInv'
    BY <1>3, <2>1, ExitOnEffect, EffectKeeps DEF ThreadsInv
  <2> QED
    BY <1>1, <2>2 DEF ThreadsInv, Lists
<1> QED
  BY <1>2, <1>3

LEMMA ThreadsNext == ThreadsInv /\ [Next]_vars => ThreadsInv'
<1> SUFFICES ASSUME ThreadsInv, [Next]_vars PROVE ThreadsInv'
  OBVIOUS
<1>1. CASE UNCHANGED vars
  BY <1>1 DEF vars, ThreadsInv, KernelInv, Lists
<1>2. CASE KernelStep /\ UNCHANGED <<mutex, cond, joining, held, base>>
  BY <1>2, KernelKeeps DEF ThreadsInv, Lists
<1>3. ASSUME NEW m \in Mutexes, Lock(m) \/ LockOn(m)
      PROVE  ThreadsInv'
  <2>1. current \in Threads /\ sched.state[current] = "ready"
    BY <1>3, RunningIsReady DEF Lock, LockOn, ThreadsInv, Leaving, User
  <2> QED
    BY <1>3, <2>1, LockLoopKeepsLists DEF Lock, LockOn
<1>4. ASSUME NEW m \in Mutexes, TryLock(m)
      PROVE  ThreadsInv'
  BY <1>4, TryLockKeepsLists
<1>5. ASSUME NEW m \in Mutexes, NEW c \in Conds, Unlock(m) \/ CondWait(c, m)
      PROVE  ThreadsInv'
  <2>1. current \in Threads /\ sched.state[current] = "ready" /\ held[current] # <<>>
    BY <1>5, RunningIsReady DEF Unlock, CondWait, ThreadsInv, Leaving, User
  <2> QED
    BY <1>5, <2>1, UnlockedKeepsLists DEF Unlock, CondWait
<1>6. ASSUME NEW m \in Mutexes, Unlock(m)
      PROVE  ThreadsInv'
  <2>1. current \in Threads /\ sched.state[current] = "ready" /\ held[current] # <<>>
    BY <1>6, RunningIsReady DEF Unlock, ThreadsInv, Leaving, User
  <2> QED
    BY <1>6, <2>1, UnlockedKeepsLists DEF Unlock
<1>7. ASSUME NEW t \in Threads, NEW p \in Prios, SetSchedParam(t, p)
      PROVE  ThreadsInv'
  <2>1. armed' \subseteq Threads /\ IsFiniteSet(armed')
    BY <1>7, SetPrioEffect DEF ThreadsInv, KernelInv
  <2>2. KernelInv'
    BY <1>7, <2>1, SetPrioEffect, EffectKeeps DEF ThreadsInv
  <2> QED
    BY <1>7, <2>2 DEF SetSchedParam, ThreadsInv, Lists
<1> QED
  BY <1>1, <1>2, <1>3, <1>4, <1>5, <1>6, <1>7, CondsKeepLists, JoinKeepsLists, ExitKeepsLists DEF Next

LEMMA ThreadsInvariant == Spec => []ThreadsInv
BY ThreadsInit, ThreadsNext, PTL DEF Spec

(* A thread that occurs once in a list, or never.                          *)
LEMMA OccursOnce ==
  ASSUME NEW s \in Seq(Threads), NoDup(s), NEW t
  PROVE  Cardinality({i \in DOMAIN s : s[i] = t}) = IF t \in Elems(s) THEN 1 ELSE 0
<1> DEFINE D == {i \in DOMAIN s : s[i] = t}
<1>1. DOMAIN s = 1 .. Len(s)
  OBVIOUS
<1>2. CASE t \in Elems(s)
  <2>1. PICK i \in 1 .. Len(s) : s[i] = t
    BY <1>2 DEF Elems
  <2>2. D = {i}
    BY <1>1, <2>1 DEF NoDup
  <2> QED
    BY <1>2, <2>2, FS_Singleton
<1>3. CASE t \notin Elems(s)
  <2>1. D = {}
    BY <1>1, <1>3 DEF Elems
  <2> QED
    BY <1>3, <2>1, FS_EmptySet
<1> QED
  BY <1>2, <1>3

(* insert_ss, remove_ss, setprio and who calls them: a thread is in the    *)
(* list of its priority exactly if it is ready, and once.                  *)
THEOREM ReadyListsRight == Spec => []TypeOK
<1>1. ThreadsInv => TypeOK
  <2> SUFFICES ASSUME ThreadsInv PROVE TypeOK
    OBVIOUS
  <2>1. Ordered(sched) /\ Lists /\ sched \in Kernels
    BY DEF ThreadsInv, KernelInv, Ordered
  <2>2. \A s \in Seq(Threads) : IsListOf(s, Threads)
    BY DEF IsListOf, ToSet
  <2>3. ASSUME NEW p \in Prios, NEW t \in Threads
        PROVE  Cardinality({i \in DOMAIN sched.ready[p] : sched.ready[p][i] = t})
                 = IF sched.state[t] = "ready" /\ sched.prio[t] = p THEN 1 ELSE 0
    <3>1. sched.ready[p] \in Seq(Threads) /\ NoDup(sched.ready[p])
          /\ Elems(sched.ready[p]) = ReadyAt(sched, p)
      BY <2>1 DEF Ordered, Kernels
    <3>2. t \in ReadyAt(sched, p) <=> sched.state[t] = "ready" /\ sched.prio[t] = p
      BY DEF ReadyAt
    <3> QED
      BY <3>1, <3>2, OccursOnce
  <2>4. \A m \in Mutexes : /\ mutex[m].owner \in Threads \union {Idle}
                           /\ IsListOf(mutex[m].mutex_list, Threads)
    BY <2>1, <2>2 DEF Lists
  <2>5. \A c \in Conds : IsListOf(cond[c], Threads)
    BY <2>1, <2>2 DEF Lists
  <2>6. /\ sched.state \in [Threads -> ThreadStates] /\ sched.prio \in [Threads -> Prios]
        /\ current \in Threads \union {Idle} /\ armed \subseteq Threads
        /\ joining \in [Threads -> Threads \union {Idle}]
    BY <2>1 DEF ThreadsInv, KernelInv, Lists, Kernels, States, ThreadStates
  <2> QED
    BY <2>3, <2>4, <2>5, <2>6 DEF TypeOK
<1> QED
  BY <1>1, ThreadsInvariant, PTL

-----------------------------------------------------------------------------
(* Nobody is stranded.                                                     *)

Safe(t) == t \in armed \/ AwaitsMutex(t) \/ AwaitsCond(t) \/ AwaitsExit(t)

(* Only one thread joins another, which is there until it has been joined. *)
JoinedOnce ==
  \A x, t \in Threads : at[x] = <<"join", t>> =>
    joining[t] = x /\ sched.state[t] \notin {"none", "deleted"}

StrandInv == NobodyStranded /\ JoinedOnce

(* An exit that a thread awaits, being suspended there.                    *)
Exits(u) == sched.state[u] \in {"ready", "suspended"} \/ at[u] = <<"exiting">>

LEMMA PushSet ==
  ASSUME NEW s \in Seq(Threads), NEW t \in Threads
  PROVE  t \in ToSet(<<t>> \o s) /\ ToSet(s) \subseteq ToSet(<<t>> \o s)
<1> DEFINE r == <<t>> \o s
<1>1. /\ DOMAIN r = 1 .. Len(s) + 1 /\ DOMAIN s = 1 .. Len(s) /\ Len(s) \in Nat
      /\ r[1] = t /\ \A i \in 1 .. Len(s) : r[i + 1] = s[i]
  OBVIOUS
<1> HIDE DEF r
<1>2. t \in ToSet(r)
  BY <1>1 DEF ToSet
<1>3. ASSUME NEW x \in ToSet(s)
      PROVE  x \in ToSet(r)
  <2>1. PICK i \in 1 .. Len(s) : x = s[i]
    BY <1>1, <1>3 DEF ToSet
  <2>2. i + 1 \in DOMAIN r /\ r[i + 1] = x
    BY <1>1, <2>1
  <2> QED
    BY <2>2 DEF ToSet
<1> QED
  BY <1>2, <1>3 DEF r

LEMMA TailSet ==
  ASSUME NEW s \in Seq(Threads), s # <<>>, NEW x \in ToSet(s), x # Head(s)
  PROVE  x \in ToSet(Tail(s))
<1>1. PICK i \in DOMAIN s : x = s[i]
  BY DEF ToSet
<1>2. i \in 1 .. Len(s) /\ i # 1 /\ Len(s) \in Nat
  BY <1>1
<1>3. i - 1 \in DOMAIN Tail(s) /\ Tail(s)[i - 1] = s[i]
  BY <1>2
<1> QED
  BY <1>1, <1>3 DEF ToSet

LEMMA SetOfList ==
  ASSUME NEW s \in Seq(Threads)
  PROVE  ToSet(s) = Elems(s)
BY DEF ToSet, Elems

(* A thread that a step leaves suspended is still awaited, if the step     *)
(* leaves alone what it waits for.                                         *)
LEMMA StaysSafe ==
  ASSUME StrandInv, NEW t \in Threads, sched.state[t] = "suspended",
         at'[t] = at[t] \/ at[t] \in Leaving,
         t \in armed => t \in armed',
         \A m \in Mutexes : /\ at[t] = <<"lock", m>> /\ mutex[m].owner # Idle
                            /\ t \in ToSet(mutex[m].mutex_list)
                            => mutex'[m].owner # Idle /\ t \in ToSet(mutex'[m].mutex_list),
         \A c \in Conds : t \in ToSet(cond[c]) => t \in ToSet(cond'[c]),
         \A u \in Threads : at[t] = <<"join", u>> /\ joining[u] = t /\ Exits(u)
                            => joining'[u] = t /\ Exits(u)'
  PROVE  Safe(t)'
<1>1. Safe(t)
  BY DEF StrandInv, NobodyStranded, Safe
<1>2. CASE t \in armed
  BY <1>2 DEF Safe
<1>3. CASE AwaitsMutex(t)
  <2>1. PICK m \in Mutexes : /\ at[t] = <<"lock", m>> /\ mutex[m].owner # Idle
                             /\ t \in ToSet(mutex[m].mutex_list)
    BY <1>3 DEF AwaitsMutex
  <2>2. <<"lock", m>> # <<"asleep">> /\ <<"lock", m>> # <<"exiting">>
    OBVIOUS
  <2>3. at'[t] = <<"lock", m>>
    BY <2>1, <2>2 DEF Leaving
  <2> QED
    BY <2>1, <2>3 DEF Safe, AwaitsMutex
<1>4. CASE AwaitsCond(t)
  BY <1>4 DEF Safe, AwaitsCond
<1>5. CASE AwaitsExit(t)
  <2>1. PICK u \in Threads : at[t] = <<"join", u>> /\ joining[u] = t /\ Exits(u)
    BY <1>5 DEF AwaitsExit, Exits
  <2>2. <<"join", u>> # <<"asleep">> /\ <<"join", u>> # <<"exiting">>
    OBVIOUS
  <2>3. at'[t] = <<"join", u>> /\ joining'[u] = t /\ Exits(u)'
    BY <2>1, <2>2 DEF Leaving
  <2> QED
    BY <2>3 DEF Safe, AwaitsExit, Exits
<1> QED
  BY <1>1, <1>2, <1>3, <1>4, <1>5 DEF Safe

(* A step that only changes what is said here leaves everybody safe.       *)
LEMMA SafeAll ==
  ASSUME \A t \in Threads : sched'.state[t] = "suspended" => Safe(t)'
  PROVE  NobodyStranded'
BY DEF NobodyStranded, Safe

(* The steps that wake a set of threads and do not wait: whoever stays     *)
(* suspended is in the lists still.                                        *)
LEMMA WakingKeeps ==
  ASSUME ThreadsInv, StrandInv, NEW S, sched'.state = Woken(sched, S),
         \/ at' = at
         \/ /\ current \in Threads /\ \E where : at' = [at EXCEPT ![current] = where]
            /\ sched.state[current] = "suspended" => at[current] \in Leaving,
         at' = at \/ at[current] # <<"exiting">> \/ joining[current] \in S \cup {Idle},
         joining' = joining, armed \ S \subseteq armed',
         \A m \in Mutexes :
           \/ mutex[m].owner = Idle
           \/ ToSet(mutex[m].mutex_list) \subseteq S
           \/ mutex'[m].owner # Idle /\ mutex'[m].mutex_list = mutex[m].mutex_list,
         \A c \in Conds : ToSet(cond[c]) \subseteq S \cup ToSet(cond'[c])
  PROVE  NobodyStranded'
<1> SUFFICES ASSUME NEW t \in Threads, sched'.state[t] = "suspended" PROVE Safe(t)'
  BY SafeAll
<1>1. sched.state[t] = "suspended" /\ t \notin S
  BY DEF Woken
<1>2. \A u \in Threads : u # current => at'[u] = at[u]
  BY DEF ThreadsInv, KernelInv
<1>3. at'[t] = at[t] \/ at[t] \in Leaving
  BY <1>1, <1>2
<1>4. ASSUME NEW u \in Threads, joining[u] = t, Exits(u)
      PROVE  joining'[u] = t /\ Exits(u)'
  <2>1. t # Idle
    BY KernelAssumption
  <2>2. CASE sched.state[u] \in {"ready", "suspended"}
    BY <1>4, <2>2 DEF Exits, Woken
  <2>3. CASE at[u] = <<"exiting">>
    <3>1. at'[u] = at[u]
      BY <1>1, <1>2, <1>4, <2>1, <2>3
    <3> QED
      BY <1>4, <2>3, <3>1 DEF Exits
  <2> QED
    BY <1>4, <2>2, <2>3 DEF Exits
<1> QED
  BY <1>1, <1>3, <1>4, StaysSafe

(* The steps after which the current thread is out of the lists: it is     *)
(* awaited from then on, and so are the others.                            *)
LEMMA LeavingKeeps ==
  ASSUME ThreadsInv, StrandInv, NEW me \in Threads, me = current, sched.state[me] = "ready",
         NEW s \in {"suspended", "finished"}, sched'.state = StateOf(s),
         \E where : at' = [at EXCEPT ![current] = where],
         s = "suspended" => Safe(me)',
         s = "finished" => at'[me] = <<"exiting">>,
         armed \ {me} \subseteq armed',
         \A u \in Threads : joining'[u] # joining[u] => joining[u] \in {Idle, me},
         \A m \in Mutexes : mutex[m].owner # Idle =>
           mutex'[m].owner # Idle /\ ToSet(mutex[m].mutex_list) \subseteq ToSet(mutex'[m].mutex_list),
         \A c \in Conds : ToSet(cond[c]) \subseteq ToSet(cond'[c])
  PROVE  NobodyStranded'
<1> SUFFICES ASSUME NEW t \in Threads, sched'.state[t] = "suspended" PROVE Safe(t)'
  BY SafeAll
<1>1. sched.state \in [Threads -> States]
  BY DEF ThreadsInv, KernelInv, Ordered, Kernels
<1>2. \A u \in Threads : u # me => at'[u] = at[u] /\ sched'.state[u] = sched.state[u]
  BY <1>1 DEF ThreadsInv, KernelInv, StateOf
<1>3. sched'.state[me] = s
  BY <1>1 DEF StateOf
<1>4. CASE t = me
  BY <1>3, <1>4
<1>5. CASE t # me
  <2>1. sched.state[t] = "suspended" /\ at'[t] = at[t]
    BY <1>2, <1>5
  <2>2. ASSUME NEW u \in Threads, joining[u] = t, Exits(u)
        PROVE  joining'[u] = t /\ Exits(u)'
    <3>1. joining'[u] = t
      BY <1>5, <2>2, KernelAssumption
    <3>2. Exits(u)'
      BY <1>2, <1>3, <2>2 DEF Exits
    <3> QED
      BY <3>1, <3>2
  <2> QED
    BY <1>5, <2>1, <2>2, StaysSafe
<1> QED
  BY <1>4, <1>5

LEMMA JoinedKeeps ==
  ASSUME ThreadsInv, StrandInv, joining' = joining,
         \A t \in Threads : sched'.state[t] \in {"none", "deleted"} =>
                            sched.state[t] \in {"none", "deleted"},
         at' = at \/ \E where : /\ at' = [at EXCEPT ![current] = where]
                                /\ \A t \in Threads : where # <<"join", t>>
  PROVE  JoinedOnce'
<1> SUFFICES ASSUME NEW x \in Threads, NEW t \in Threads, at'[x] = <<"join", t>>
             PROVE  joining'[t] = x /\ sched'.state[t] \notin {"none", "deleted"}
  BY DEF JoinedOnce
<1>1. at[x] = <<"join", t>>
  BY DEF ThreadsInv, KernelInv
<1> QED
  BY <1>1 DEF StrandInv, JoinedOnce

(* Waking changes no state to none or deleted.                             *)
LEMMA WokenJoined ==
  ASSUME NEW S, sched'.state = Woken(sched, S)
  PROVE  \A t \in Threads : sched'.state[t] \in {"none", "deleted"} =>
                            sched.state[t] \in {"none", "deleted"}
BY DEF Woken

LEMMA WokenNobody ==
  ASSUME ThreadsInv
  PROVE  sched.state = Woken(sched, {})
<1>1. sched.state \in [Threads -> States]
  BY DEF ThreadsInv, KernelInv, Ordered, Kernels
<1> QED
  BY <1>1 DEF Woken

LEMMA KernelStrand ==
  ASSUME ThreadsInv, StrandInv, KernelStep, UNCHANGED <<mutex, cond, joining, held, base>>
  PROVE  StrandInv'
<1>1. sched.state \in [Threads -> States]
  BY DEF ThreadsInv, KernelInv, Ordered, Kernels
<1>2. KernelInv /\ User # <<"exiting">> /\ \A t \in Threads : User # <<"join", t>>
  BY DEF ThreadsInv, User
<1>3. ASSUME NEW S, sched'.state = Woken(sched, S), armed \ S \subseteq armed',
             \/ at' = at
             \/ /\ current \in Threads /\ at' = [at EXCEPT ![current] = User]
                /\ at[current] # <<"exiting">>
                /\ sched.state[current] = "suspended" => at[current] \in Leaving
      PROVE  StrandInv'
  <2>1. NobodyStranded'
    BY <1>3, WakingKeeps
  <2>2. JoinedOnce'
    BY <1>2, <1>3, WokenJoined, JoinedKeeps
  <2> QED
    BY <2>1, <2>2 DEF StrandInv
<1>4. ASSUME NEW t \in Threads, Create(t)
      PROVE  StrandInv'
  <2>1. current \in Threads /\ at[current] = User /\ sched.state[current] = "ready"
    BY <1>2, <1>4, RunningIsReady DEF Create, Leaving, User
  <2>2. sched'.state = Woken(sched, {t}) /\ at' = [at EXCEPT ![current] = User] /\ armed' = armed
    BY <1>1, <1>2, <1>4, CreateEffect DEF Effect, Woken
  <2> QED
    BY <1>2, <1>3, <2>1, <2>2
<1>5. CASE Yield
  <2>1. current \in Threads /\ at[current] = User /\ sched.state[current] = "ready"
    BY <1>2, <1>5, RunningIsReady DEF Yield, Leaving, User
  <2>2. sched'.state = Woken(sched, {}) /\ at' = [at EXCEPT ![current] = User] /\ armed' = armed
    BY <1>2, <1>5, YieldEffect, WokenNobody DEF Effect
  <2> QED
    BY <1>2, <1>3, <2>1, <2>2
<1>6. CASE Sleep
  <2>1. current \in Threads /\ at[current] = User /\ sched.state[current] = "ready"
    BY <1>2, <1>6, RunningIsReady DEF Sleep, Leaving, User
  <2>2. /\ sched'.state = StateOf("suspended") /\ at' = [at EXCEPT ![current] = <<"asleep">>]
        /\ armed' = armed \cup {current}
    BY <1>2, <1>6, SleepEffect DEF Effect, StateOf
  <2>3. PICK me \in Threads : me = current
    BY <2>1
  <2>4. Safe(me)'
    BY <2>2, <2>3 DEF Safe
  <2>5. NobodyStranded'
    BY <2>1, <2>2, <2>3, <2>4, LeavingKeeps
  <2>6. JoinedOnce'
    <3>1. \A t \in Threads : <<"asleep">> # <<"join", t>>
      OBVIOUS
    <3> QED
      BY <1>1, <2>2, <3>1, JoinedKeeps DEF StateOf
  <2> QED
    BY <2>5, <2>6 DEF StrandInv
<1>7. CASE SleepOn
  <2>1. current \in Threads /\ at[current] = <<"asleep">>
    BY <1>2, <1>7, SleepOnEffect
  <2>2. PICK due \in SUBSET armed :
          /\ armed' = armed \ due
          /\ sched'.state = Woken(sched, due) /\ at' = [at EXCEPT ![current] = User]
    BY <1>2, <1>7, SleepOnEffect DEF Effect
  <2> QED
    BY <1>3, <2>1, <2>2 DEF Leaving
<1>8. CASE Interrupt
  BY <1>2, <1>3, <1>8, InterruptEffect
<1> QED
  BY <1>4, <1>5, <1>6, <1>7, <1>8 DEF KernelStep

(* The thread takes a mutex, or takes it once more: nobody is woken.       *)
LEMMA LockStrand ==
  ASSUME ThreadsInv, StrandInv, NEW m \in Mutexes, NEW counter \in Nat,
         Take(m, counter) \/ LockAgain(m), UNCHANGED <<armed, cond, joining>>,
         current \in Threads, sched.state[current] = "ready", at[current] # <<"exiting">>
  PROVE  StrandInv'
<1>1. sched'.state = sched.state /\ at' = [at EXCEPT ![current] = User]
  <2>1. CASE Take(m, counter)
    BY <2>1, TakeEffect DEF Effect
  <2>2. CASE LockAgain(m)
    BY <2>2 DEF LockAgain, Proceed
  <2> QED
    BY <2>1, <2>2
<1>2. sched'.state = Woken(sched, {})
  BY <1>1, WokenNobody
<1>3. \A x \in Mutexes : mutex[x].owner = Idle \/
        (mutex'[x].owner # Idle /\ mutex'[x].mutex_list = mutex[x].mutex_list)
  <2>1. \A x \in Mutexes : mutex[x] \in [owner : Threads \cup {Idle}, owner_prio : Prios,
                                         counter : Nat, mutex_list : Seq(Threads)]
    BY DEF ThreadsInv, Lists
  <2>2. DOMAIN mutex = Mutexes
    BY DEF ThreadsInv, Lists
  <2>3. CASE Take(m, counter)
    <3>1. mutex[m].owner = Idle /\ \A x \in Mutexes : x # m => mutex'[x] = mutex[x]
      BY <2>2, <2>3 DEF Take
    <3> QED
      BY <3>1
  <2>4. CASE LockAgain(m)
    <3>1. mutex' = [mutex EXCEPT ![m] = [mutex[m] EXCEPT !.counter = mutex[m].counter + 1]]
      BY <2>1, <2>2, <2>4 DEF LockAgain
    <3> QED
      BY <2>1, <2>2, <3>1
  <2> QED
    BY <2>3, <2>4
<1>4. NobodyStranded'
  BY <1>1, <1>2, <1>3, WakingKeeps
<1>5. \A t \in Threads : User # <<"join", t>>
  BY DEF User
<1>6. JoinedOnce'
  BY <1>1, <1>2, <1>5, WokenJoined, JoinedKeeps
<1> QED
  BY <1>4, <1>6 DEF StrandInv

(* The thread waits in the list of a mutex or of a condition.              *)
LEMMA WaitStrand ==
  ASSUME ThreadsInv, StrandInv, NEW m \in Mutexes,
         current \in Threads, sched.state[current] = "ready",
         UNCHANGED <<armed, joining>>,
         \/ WaitForMutex(m) /\ UNCHANGED cond
         \/ \E c \in Conds : CondWaitOn(c, m)
  PROVE  StrandInv'
<1>1. PICK me \in Threads : me = current
  OBVIOUS
<1>2. sched'.state = StateOf("suspended") /\ at' = [at EXCEPT ![current] = <<"lock", m>>]
  <2>1. Effect(StateOf("suspended"), sched.prio, <<"lock", m>>, TRUE)
    BY WaitEffect DEF WaitForMutex, CondWaitOn
  <2> QED
    BY <2>1 DEF Effect
<1>3. at'[me] = <<"lock", m>>
  BY <1>1, <1>2 DEF ThreadsInv, KernelInv
<1> DEFINE Listed ==
             /\ \A x \in Mutexes : mutex[x].owner # Idle =>
                  mutex'[x].owner # Idle /\ ToSet(mutex[x].mutex_list) \subseteq ToSet(mutex'[x].mutex_list)
             /\ \A d \in Conds : ToSet(cond[d]) \subseteq ToSet(cond'[d])
<1>4. Listed /\ Safe(me)'
  <2>1. CASE WaitForMutex(m) /\ UNCHANGED cond
    <3>1. /\ mutex[m].mutex_list \in Seq(Threads) /\ DOMAIN mutex = Mutexes
          /\ mutex' = [mutex EXCEPT ![m].mutex_list = <<me>> \o @] /\ mutex[m].owner # Idle
      BY <1>1, <2>1 DEF WaitForMutex, ThreadsInv, Lists
    <3>2. /\ \A x \in Mutexes : mutex'[x].owner = mutex[x].owner
          /\ \A x \in Mutexes : x # m => mutex'[x].mutex_list = mutex[x].mutex_list
          /\ mutex'[m].mutex_list = <<me>> \o mutex[m].mutex_list
      <4>1. \A x \in Mutexes : mutex[x] \in [owner : Threads \cup {Idle}, owner_prio : Prios,
                                             counter : Nat, mutex_list : Seq(Threads)]
        BY DEF ThreadsInv, Lists
      <4> QED
        BY <3>1, <4>1
    <3>3. /\ me \in ToSet(<<me>> \o mutex[m].mutex_list)
          /\ ToSet(mutex[m].mutex_list) \subseteq ToSet(<<me>> \o mutex[m].mutex_list)
      BY <3>1, PushSet
    <3>4. AwaitsMutex(me)'
      BY <1>3, <3>1, <3>2, <3>3 DEF AwaitsMutex
    <3> QED
      BY <2>1, <3>2, <3>3, <3>4 DEF Safe
  <2>2. ASSUME NEW c \in Conds, CondWaitOn(c, m)
        PROVE  Listed /\ Safe(me)'
    <3>1. /\ cond \in [Conds -> Seq(Threads)] /\ mutex' = mutex
          /\ cond' = [cond EXCEPT ![c] = <<me>> \o @]
      BY <1>1, <2>2 DEF CondWaitOn, ThreadsInv, Lists
    <3>2. /\ me \in ToSet(<<me>> \o cond[c])
          /\ ToSet(cond[c]) \subseteq ToSet(<<me>> \o cond[c])
      BY <3>1, PushSet
    <3>3. AwaitsCond(me)'
      BY <3>1, <3>2 DEF AwaitsCond
    <3> QED
      BY <3>1, <3>2, <3>3 DEF Safe
  <2> QED
    BY <2>1, <2>2
<1>5. NobodyStranded'
  BY <1>1, <1>2, <1>4, LeavingKeeps
<1>6. JoinedOnce'
  <2>1. \A t \in Threads : <<"lock", m>> # <<"join", t>>
    OBVIOUS
  <2>2. sched.state \in [Threads -> States]
    BY DEF ThreadsInv, KernelInv, Ordered, Kernels
  <2> QED
    BY <1>2, <2>1, <2>2, JoinedKeeps DEF StateOf
<1> QED
  BY <1>5, <1>6 DEF StrandInv

(* Unlocking wakes everybody who waits for the mutex.                      *)
LEMMA UnlockedStrand ==
  ASSUME ThreadsInv, StrandInv, NEW m \in Mutexes, NEW where, Unlocked(m, where),
         current \in Threads, sched.state[current] = "ready", at[current] # <<"exiting">>,
         \A t \in Threads : where # <<"join", t>>
  PROVE  StrandInv'
<1>1. UNCHANGED <<armed, cond, joining>>
  BY DEF Unlocked
<1>2. \A x \in Mutexes : mutex[x] \in [owner : Threads \cup {Idle}, owner_prio : Prios,
                                       counter : Nat, mutex_list : Seq(Threads)]
  BY DEF ThreadsInv, Lists
<1>3. DOMAIN mutex = Mutexes
  BY DEF ThreadsInv, Lists
<1>4. CASE /\ mutex' = [mutex EXCEPT ![m].counter = @ - 1]
           /\ Proceed(sched, where)
  <2>1. sched'.state = Woken(sched, {}) /\ at' = [at EXCEPT ![current] = where]
    BY <1>4, WokenNobody DEF Proceed
  <2>2. \A x \in Mutexes : mutex'[x].owner = mutex[x].owner
                           /\ mutex'[x].mutex_list = mutex[x].mutex_list
    BY <1>2, <1>3, <1>4
  <2>3. NobodyStranded'
    BY <1>1, <2>1, <2>2, WakingKeeps
  <2>4. JoinedOnce'
    BY <1>1, <2>1, WokenJoined, JoinedKeeps
  <2> QED
    BY <2>3, <2>4 DEF StrandInv
<1>5. CASE Release(m, where)
  <2> DEFINE S == Elems(mutex[m].mutex_list)
  <2>1. sched'.state = Woken(sched, S) /\ at' = [at EXCEPT ![current] = where]
    BY <1>5, ReleaseEffect DEF Effect
  <2>2. ToSet(mutex[m].mutex_list) \subseteq S
    BY <1>2, SetOfList
  <2>3. \A x \in Mutexes : x # m => mutex'[x].owner = mutex[x].owner
                                    /\ mutex'[x].mutex_list = mutex[x].mutex_list
    BY <1>3, <1>5 DEF Release
  <2> HIDE DEF S
  <2>4. NobodyStranded'
    BY <1>1, <2>1, <2>2, <2>3, WakingKeeps
  <2>5. JoinedOnce'
    BY <1>1, <2>1, WokenJoined, JoinedKeeps
  <2> QED
    BY <2>4, <2>5 DEF StrandInv
<1> QED
  BY <1>4, <1>5 DEF Unlocked

(* The steps of a thread in its own code that wake a set of threads.       *)
LEMMA CondsStrand ==
  ASSUME ThreadsInv, StrandInv, UNCHANGED <<armed, joining, mutex>>,
         current \in Threads, sched.state[current] = "ready", at[current] = User,
         NEW S, sched'.state = Woken(sched, S), at' = [at EXCEPT ![current] = User],
         \A c \in Conds : ToSet(cond[c]) \subseteq S \cup ToSet(cond'[c])
  PROVE  StrandInv'
<1>1. User # <<"exiting">> /\ \A t \in Threads : User # <<"join", t>>
  BY DEF User
<1>2. NobodyStranded'
  BY <1>1, WakingKeeps
<1>3. JoinedOnce'
  BY <1>1, WokenJoined, JoinedKeeps
<1> QED
  BY <1>2, <1>3 DEF StrandInv

LEMMA WakersStrand ==
  ASSUME ThreadsInv, StrandInv,
         \/ \E c \in Conds : Signal(c) \/ Broadcast(c)
         \/ \E t \in Threads, p \in Prios : SetSchedParam(t, p)
  PROVE  StrandInv'
<1>1. current \in Threads /\ at[current] = User /\ sched.state[current] = "ready"
  BY RunningIsReady DEF ThreadsInv, Signal, Broadcast, SetSchedParam, SetPrio, Leaving, User
<1>2. UNCHANGED <<armed, joining, mutex>> /\ cond \in [Conds -> Seq(Threads)]
  BY DEF Signal, Broadcast, SetSchedParam, SetPrio, ThreadsInv, Lists
<1>3. ASSUME NEW c \in Conds, Signal(c)
      PROVE  StrandInv'
  <2>1. CASE /\ cond[c] # <<>> /\ cond' = [cond EXCEPT ![c] = Tail(@)]
             /\ Effect(Woken(sched, {Head(cond[c])}), sched.prio, User, TRUE)
    <3> DEFINE S == {Head(cond[c])}
    <3>1. ToSet(cond[c]) \subseteq S \cup ToSet(Tail(cond[c]))
      BY <1>2, <2>1, TailSet
    <3>2. \A d \in Conds : ToSet(cond[d]) \subseteq S \cup ToSet(cond'[d])
      BY <1>2, <2>1, <3>1
    <3>3. sched'.state = Woken(sched, S) /\ at' = [at EXCEPT ![current] = User]
      BY <2>1 DEF Effect
    <3> HIDE DEF S
    <3> QED
      BY <1>1, <1>2, <3>2, <3>3, CondsStrand
  <2>2. CASE cond' = cond /\ Effect(sched.state, sched.prio, User, TRUE)
    <3>1. sched'.state = Woken(sched, {}) /\ at' = [at EXCEPT ![current] = User]
      BY <2>2, WokenNobody DEF Effect
    <3> QED
      BY <1>1, <1>2, <2>2, <3>1, CondsStrand
  <2> QED
    BY <1>3, <2>1, <2>2, SignalEffect
<1>4. ASSUME NEW c \in Conds, Broadcast(c)
      PROVE  StrandInv'
  <2> DEFINE S == Elems(cond[c])
  <2>1. sched'.state = Woken(sched, S) /\ at' = [at EXCEPT ![current] = User]
    BY <1>4, BroadcastEffect DEF Effect
  <2>2. ToSet(cond[c]) \subseteq S
    BY <1>2, SetOfList
  <2>3. \A d \in Conds : ToSet(cond[d]) \subseteq S \cup ToSet(cond'[d])
    BY <1>2, <1>4, <2>2 DEF Broadcast
  <2> HIDE DEF S
  <2> QED
    BY <1>1, <1>2, <2>1, <2>3, CondsStrand
<1>5. ASSUME NEW t \in Threads, NEW p \in Prios, SetSchedParam(t, p)
      PROVE  StrandInv'
  <2>1. sched'.state = Woken(sched, {}) /\ at' = [at EXCEPT ![current] = User]
    BY <1>5, SetPrioEffect, WokenNobody DEF Effect
  <2>2. cond' = cond
    BY <1>5 DEF SetSchedParam
  <2> QED
    BY <1>1, <1>2, <2>1, <2>2, CondsStrand
<1> QED
  BY <1>3, <1>4, <1>5

(* pthread_join: nobody else joins that thread.                            *)
LEMMA JoinStrand ==
  ASSUME ThreadsInv, StrandInv, NEW t \in Threads, Join(t) \/ JoinOn(t)
  PROVE  StrandInv'
<1>1. UNCHANGED <<armed, mutex, cond>> /\ JoinLoop(t)
  BY DEF Join, JoinOn, JoinLoop
<1>2. PICK me \in Threads : me = current /\ sched.state[me] = "ready"
  BY RunningIsReady DEF Join, JoinOn, ThreadsInv, Leaving, User
<1>3. /\ sched.state[t] \notin {"none", "deleted"}
      /\ \A x \in Threads : x # me => at[x] # <<"join", t>>
      /\ joining[t] \in {Idle, me}
  <2>1. CASE Join(t)
    BY <2>1, KernelAssumption DEF Join, StrandInv, JoinedOnce
  <2>2. CASE JoinOn(t)
    BY <1>2, <2>2 DEF JoinOn, Running, StrandInv, JoinedOnce
  <2> QED
    BY <2>1, <2>2
<1>4. sched.state \in [Threads -> States] /\ joining \in [Threads -> Threads \cup {Idle}]
      /\ at = [x \in Threads |-> at[x]]
  BY DEF ThreadsInv, KernelInv, Lists, Ordered, Kernels
<1>5. CASE /\ sched.state[t] = "finished" /\ joining' = joining
           /\ Effect([sched.state EXCEPT ![t] = "deleted"], sched.prio, User, FALSE)
  <2>1. /\ sched'.state = [sched.state EXCEPT ![t] = "deleted"]
        /\ at' = [at EXCEPT ![me] = User]
    BY <1>2, <1>5 DEF Effect
  <2>2. \A x \in Threads : x # me => at'[x] = at[x]
    BY <1>4, <2>1
  <2>3. \A x \in Threads : x # t => sched'.state[x] = sched.state[x]
    BY <1>4, <2>1
  <2>4. sched'.state[t] = "deleted" /\ me # t /\ at'[me] = User
    BY <1>2, <1>4, <1>5, <2>1
  <2>5. NobodyStranded'
    <3> SUFFICES ASSUME NEW x \in Threads, sched'.state[x] = "suspended" PROVE Safe(x)'
      BY SafeAll
    <3>1. sched.state[x] = "suspended" /\ x # me /\ at'[x] = at[x]
      BY <1>2, <2>2, <2>3, <2>4
    <3>2. ASSUME NEW u \in Threads, at[x] = <<"join", u>>, Exits(u)
          PROVE  Exits(u)'
      <4>1. u # t
        BY <1>3, <3>1, <3>2
      <4>2. CASE sched.state[u] \in {"ready", "suspended"}
        BY <2>3, <4>1, <4>2 DEF Exits
      <4>3. CASE at[u] = <<"exiting">>
        <5>1. CASE u = me
          BY <1>2, <2>3, <4>1, <5>1 DEF Exits
        <5>2. CASE u # me
          BY <2>2, <4>3, <5>2 DEF Exits
        <5> QED
          BY <5>1, <5>2
      <4> QED
        BY <3>2, <4>2, <4>3 DEF Exits
    <3> QED
      BY <1>1, <1>5, <3>1, <3>2, StaysSafe
  <2>6. JoinedOnce'
    <3> SUFFICES ASSUME NEW x \in Threads, NEW u \in Threads, at'[x] = <<"join", u>>
                 PROVE  joining'[u] = x /\ sched'.state[u] \notin {"none", "deleted"}
      BY DEF JoinedOnce
    <3>1. x # me
      BY <2>4 DEF User
    <3>2. at[x] = <<"join", u>> /\ u # t
      BY <1>3, <2>2, <3>1
    <3> QED
      BY <1>5, <2>3, <3>2 DEF StrandInv, JoinedOnce
  <2> QED
    BY <2>5, <2>6 DEF StrandInv
<1>6. CASE /\ sched.state[t] # "finished" /\ joining' = [joining EXCEPT ![t] = current]
           /\ Effect(StateOf("suspended"), sched.prio, <<"join", t>>, TRUE)
  <2>1. /\ sched'.state = StateOf("suspended")
        /\ at' = [at EXCEPT ![current] = <<"join", t>>]
    BY <1>6 DEF Effect
  <2>2. /\ sched'.state[me] = "suspended" /\ at'[me] = <<"join", t>> /\ joining'[t] = me
        /\ \A x \in Threads : x # me => sched'.state[x] = sched.state[x] /\ at'[x] = at[x]
        /\ \A u \in Threads : u # t => joining'[u] = joining[u]
    BY <1>2, <1>4, <1>6, <2>1 DEF StateOf
  <2>3. sched'.state[t] \in {"ready", "suspended"}
    BY <1>3, <1>4, <1>6, <2>2 DEF States
  <2>4. Safe(me)'
    BY <2>2, <2>3 DEF Safe, AwaitsExit
  <2>5. \A u \in Threads : joining'[u] # joining[u] => joining[u] \in {Idle, me}
    BY <1>3, <2>2
  <2>6. NobodyStranded'
    BY <1>1, <1>2, <2>1, <2>4, <2>5, LeavingKeeps
  <2>7. JoinedOnce'
    <3> SUFFICES ASSUME NEW x \in Threads, NEW u \in Threads, at'[x] = <<"join", u>>
                 PROVE  joining'[u] = x /\ sched'.state[u] \notin {"none", "deleted"}
      BY DEF JoinedOnce
    <3>1. CASE x = me
      <4>1. u = t
        BY <2>2, <3>1
      <4> QED
        BY <2>2, <2>3, <3>1, <4>1
    <3>2. CASE x # me
      <4>1. at[x] = <<"join", u>> /\ u # t
        BY <1>3, <2>2, <3>2
      <4>2. joining[u] = x /\ sched.state[u] \notin {"none", "deleted"}
        BY <4>1 DEF StrandInv, JoinedOnce
      <4> QED
        BY <2>2, <4>1, <4>2
    <3> QED
      BY <3>1, <3>2
  <2> QED
    BY <2>6, <2>7 DEF StrandInv
<1> QED
  BY <1>1, <1>2, <1>5, <1>6, JoinEffect

(* pthread_exit: who joins the thread is activated.                        *)
LEMMA ExitStrand ==
  ASSUME ThreadsInv, StrandInv, Exit \/ ExitOn
  PROVE  StrandInv'
<1>1. UNCHANGED <<mutex, cond, joining>> /\ joining \in [Threads -> Threads \cup {Idle}]
  BY DEF Exit, ExitOn, ThreadsInv, Lists
<1>2. CASE Exit
  <2>1. PICK me \in Threads : me = current
    BY <1>2, ExitEffect
  <2>2. /\ sched'.state = StateOf("finished") /\ at' = [at EXCEPT ![current] = <<"exiting">>]
        /\ armed' = armed \ {me}
    BY <1>2, <2>1, ExitEffect DEF Effect
  <2>3. sched.state[me] = "ready"
    BY <1>2, <2>1, RunningIsReady DEF Exit, ThreadsInv, Leaving, User
  <2>4. at'[me] = <<"exiting">>
    BY <2>1, <2>2 DEF ThreadsInv, KernelInv
  <2>5. NobodyStranded'
    BY <1>1, <2>1, <2>2, <2>3, <2>4, LeavingKeeps
  <2>6. \A t \in Threads : <<"exiting">> # <<"join", t>>
    OBVIOUS
  <2>7. sched.state \in [Threads -> States]
    BY DEF ThreadsInv, KernelInv, Ordered, Kernels
  <2>8. JoinedOnce'
    BY <1>1, <2>2, <2>6, <2>7, JoinedKeeps DEF StateOf
  <2> QED
    BY <2>5, <2>8 DEF StrandInv
<1>3. CASE ExitOn
  <2>1. /\ current \in Threads /\ at[current] = <<"exiting">>
        /\ sched'.state = Woken(sched, Joiner) /\ at' = [at EXCEPT ![current] = <<"end">>]
        /\ armed' = armed
    BY <1>3, ExitOnEffect DEF Effect, ExitOn
  <2>2. joining[current] \in Joiner \cup {Idle}
    BY DEF Joiner
  <2> HIDE DEF Joiner
  <2>3. NobodyStranded'
    BY <1>1, <2>1, <2>2, WakingKeeps DEF Leaving
  <2>4. \A t \in Threads : <<"end">> # <<"join", t>>
    OBVIOUS
  <2>5. JoinedOnce'
    BY <1>1, <2>1, <2>4, WokenJoined, JoinedKeeps
  <2> QED
    BY <2>3, <2>5 DEF StrandInv
<1> QED
  BY <1>2, <1>3

LEMMA StrandInit == Init => StrandInv
<1> SUFFICES ASSUME Init PROVE StrandInv
  OBVIOUS
<1>1. \A t \in Threads : sched.state[t] # "suspended"
  BY DEF Init, KernelInit
<1>2. \A x, t \in Threads : at[x] # <<"join", t>>
  BY DEF Init, KernelInit, User
<1> QED
  BY <1>1, <1>2 DEF StrandInv, NobodyStranded, JoinedOnce

LEMMA StrandNext == ThreadsInv /\ StrandInv /\ [Next]_vars => StrandInv'
<1> SUFFICES ASSUME ThreadsInv, StrandInv, [Next]_vars PROVE StrandInv'
  OBVIOUS
<1>1. CASE UNCHANGED vars
  BY <1>1 DEF vars, StrandInv, NobodyStranded, JoinedOnce, AwaitsMutex, AwaitsCond, AwaitsExit
<1>2. CASE KernelStep /\ UNCHANGED <<mutex, cond, joining, held, base>>
  BY <1>2, KernelStrand
<1>3. ASSUME NEW m \in Mutexes, Lock(m) \/ LockOn(m) \/ TryLock(m)
      PROVE  StrandInv'
  <2>1. /\ current \in Threads /\ sched.state[current] = "ready"
        /\ at[current] # <<"exiting">> /\ UNCHANGED <<armed, cond, joining>>
    <3>1. PICK where \in {User, <<"lock", m>>} : Running(where)
      BY <1>3 DEF Lock, LockOn, TryLock
    <3>2. where \notin Leaving
      BY DEF User, Leaving
    <3> QED
      BY <1>3, <3>1, <3>2, RunningIsReady DEF Lock, LockOn, LockLoop, TryLock, ThreadsInv, Leaving
  <2>2. mutex[m].counter \in Nat /\ 1 \in Nat
    BY DEF ThreadsInv, Lists
  <2>3. Take(m, 1) \/ Take(m, mutex[m].counter) \/ LockAgain(m) \/ WaitForMutex(m)
    BY <1>3 DEF Lock, LockOn, LockLoop, TryLock
  <2> QED
    BY <2>1, <2>2, <2>3, LockStrand, WaitStrand
<1>4. ASSUME NEW m \in Mutexes, Unlock(m)
      PROVE  StrandInv'
  <2>1. current \in Threads /\ sched.state[current] = "ready" /\ at[current] # <<"exiting">>
    BY <1>4, RunningIsReady DEF Unlock, ThreadsInv, Leaving, User
  <2>2. \A t \in Threads : User # <<"join", t>>
    BY DEF User
  <2> QED
    BY <1>4, <2>1, <2>2, UnlockedStrand DEF Unlock
<1>5. ASSUME NEW c \in Conds, NEW m \in Mutexes, CondWait(c, m)
      PROVE  StrandInv'
  <2>1. current \in Threads /\ sched.state[current] = "ready" /\ at[current] # <<"exiting">>
    BY <1>5, RunningIsReady DEF CondWait, ThreadsInv, Leaving, User
  <2>2. \A t \in Threads : <<"unlocked", c, m>> # <<"join", t>>
    OBVIOUS
  <2> QED
    BY <1>5, <2>1, <2>2, UnlockedStrand DEF CondWait
<1>6. ASSUME NEW c \in Conds, NEW m \in Mutexes, CondWaitOn(c, m)
      PROVE  StrandInv'
  <2>1. current \in Threads /\ sched.state[current] = "ready"
    BY <1>6, RunningIsReady DEF CondWaitOn, ThreadsInv, Leaving
  <2>2. UNCHANGED <<armed, joining>>
    BY <1>6 DEF CondWaitOn
  <2> QED
    BY <1>6, <2>1, <2>2, WaitStrand
<1> QED
  BY <1>1, <1>2, <1>3, <1>4, <1>5, <1>6, WakersStrand, JoinStrand, ExitStrand DEF Next

(* pthread_mutex_lock and unlock, cond_wait, signal and broadcast, join    *)
(* and exit, sleep_for: a thread that is suspended is still in the list,   *)
(* or the timer still armed, from which it will be activated.              *)
THEOREM NoneStranded == Spec => []NobodyStranded
<1>1. Init => ThreadsInv /\ StrandInv
  BY ThreadsInit, StrandInit
<1>2. ThreadsInv /\ StrandInv /\ [Next]_vars => (ThreadsInv /\ StrandInv)'
  BY ThreadsNext, StrandNext
<1>3. StrandInv => NobodyStranded
  BY DEF StrandInv
<1> QED
  BY <1>1, <1>2, <1>3, PTL DEF Spec

-----------------------------------------------------------------------------
(* Priorities.                                                             *)

(* p is the highest of b and the ceilings of S.                            *)
Highest(p, b, S) ==
  /\ p <= b /\ \A m \in S : p <= Ceiling[m]
  /\ p = b \/ \E m \in S : p = Ceiling[m]

(* Of the first i that have been locked, those with a ceiling.             *)
Guards(s, i) == {s[j] : j \in 1 .. i} \cap Protect

(* A thread is at the highest of its own priority and the ceilings of what *)
(* it holds, and each mutex remembers that of what was held when it was    *)
(* locked first.                                                           *)
PrioRight(t) ==
  /\ Highest(sched.prio[t], base[t], Guards(held[t], Len(held[t])))
  /\ \A i \in 1 .. Len(held[t]) :
       held[t][i] \in Protect \ Guards(held[t], i - 1) =>
         Highest(mutex[held[t][i]].owner_prio, base[t], Guards(held[t], i - 1))

PrioInv == \A t \in Threads : PrioRight(t)

(* There is one such priority.                                             *)
LEMMA HighestUnique ==
  ASSUME NEW p \in Prios, NEW q \in Prios, NEW b \in Prios, NEW S, S \subseteq Mutexes,
         Highest(p, b, S), Highest(q, b, S)
  PROVE  p = q
<1>1. \A x \in Prios : x \in Nat
  BY KernelAssumption DEF Prios
<1>2. \A m \in S : Ceiling[m] \in Nat
  BY <1>1, ThreadsAssumption
<1>3. p <= q
  BY <1>1, <1>2 DEF Highest
<1>4. q <= p
  BY <1>1, <1>2 DEF Highest
<1> QED
  BY <1>1, <1>3, <1>4

(* One more ceiling.                                                       *)
LEMMA HighestAdd ==
  ASSUME NEW p \in Prios, NEW b \in Prios, NEW S, S \subseteq Mutexes, NEW m \in Mutexes,
         Highest(p, b, S)
  PROVE  Highest(IF p > Ceiling[m] THEN Ceiling[m] ELSE p, b, S \cup {m})
<1>1. \A x \in Prios : x \in Nat
  BY KernelAssumption DEF Prios
<1>2. \A x \in Mutexes : Ceiling[x] \in Nat
  BY <1>1, ThreadsAssumption
<1>3. p \in Nat /\ b \in Nat
  BY <1>1
<1>4. CASE p > Ceiling[m]
  <2>1. Ceiling[m] <= b
    BY <1>2, <1>3, <1>4 DEF Highest
  <2>2. \A x \in S : Ceiling[m] <= Ceiling[x]
    BY <1>2, <1>3, <1>4 DEF Highest
  <2>3. Ceiling[m] <= Ceiling[m]
    BY <1>2
  <2> QED
    BY <1>4, <2>1, <2>2, <2>3 DEF Highest
<1>5. CASE ~(p > Ceiling[m])
  <2>1. p <= Ceiling[m]
    BY <1>2, <1>3, <1>5
  <2> QED
    BY <1>5, <2>1 DEF Highest
<1> QED
  BY <1>4, <1>5

LEMMA GuardsAppend ==
  ASSUME NEW s \in Seq(Mutexes), NEW m \in Mutexes
  PROVE  /\ Len(Append(s, m)) = Len(s) + 1
         /\ \A i \in 1 .. Len(s) : Append(s, m)[i] = s[i]
         /\ Append(s, m)[Len(s) + 1] = m
         /\ \A i \in 0 .. Len(s) : Guards(Append(s, m), i) = Guards(s, i)
         /\ Guards(Append(s, m), Len(s) + 1) = Guards(s, Len(s)) \cup ({m} \cap Protect)
<1> DEFINE r == Append(s, m)
<1>1. /\ Len(s) \in Nat /\ Len(r) = Len(s) + 1 /\ r[Len(s) + 1] = m
      /\ \A i \in 1 .. Len(s) : r[i] = s[i]
  OBVIOUS
<1> HIDE DEF r
<1>2. \A i \in 0 .. Len(s) : {r[j] : j \in 1 .. i} = {s[j] : j \in 1 .. i}
  BY <1>1
<1>3. {r[j] : j \in 1 .. Len(s) + 1} = {s[j] : j \in 1 .. Len(s)} \cup {m}
  <2>1. 1 .. Len(s) + 1 = 1 .. Len(s) \cup {Len(s) + 1}
    BY <1>1
  <2> QED
    BY <1>1, <2>1
<1> QED
  BY <1>1, <1>2, <1>3 DEF Guards, r

LEMMA GuardsFront ==
  ASSUME NEW s \in Seq(Mutexes), s # <<>>
  PROVE  /\ Len(s) \in Nat \ {0} /\ Len(Front(s)) = Len(s) - 1 /\ s[Len(s)] = Last(s)
         /\ \A i \in 1 .. Len(s) - 1 : Front(s)[i] = s[i]
         /\ \A i \in 0 .. Len(s) - 1 : Guards(Front(s), i) = Guards(s, i)
         /\ Guards(s, Len(s)) = Guards(s, Len(s) - 1) \cup ({Last(s)} \cap Protect)
<1> DEFINE r == Front(s)
<1>0. Len(s) \in Nat \ {0} /\ s[Len(s)] = Last(s)
  BY DEF Last
<1>1. /\ Len(s) \in Nat \ {0} /\ Len(r) = Len(s) - 1 /\ s[Len(s)] = Last(s)
      /\ \A i \in 1 .. Len(s) - 1 : r[i] = s[i]
  <2>1. Len(s) - 1 \in 0 .. Len(s)
    BY <1>0
  <2>2. r = SubSeq(s, 1, Len(s) - 1)
    BY DEF Front
  <2> HIDE DEF r
  <2>3. \A i \in 1 .. Len(s) - 1 : i \in 1 .. Len(s)
    BY <1>0
  <2>4. Len(r) = Len(s) - 1
    <3>1. \A i \in 1 .. Len(s) - 1 : s[i] \in Mutexes
      BY <2>3
    <3>2. 1 \in Int /\ Len(s) - 1 \in Int
      BY <1>0
    <3>3. Len(r) = IF 1 <= Len(s) - 1 THEN (Len(s) - 1) - 1 + 1 ELSE 0
      BY <2>2, <3>1, <3>2, SubSeqProperties
    <3>4. \A n \in Nat \ {0} : (IF 1 <= n - 1 THEN (n - 1) - 1 + 1 ELSE 0) = n - 1
      OBVIOUS
    <3> QED
      BY <1>0, <3>3, <3>4
  <2>5. \A i \in 1 .. Len(s) - 1 : r[i] = s[i]
    BY <1>0, <2>1, <2>2, <2>3
  <2> QED
    BY <1>0, <2>4, <2>5
<1> HIDE DEF r
<1>2. \A i \in 0 .. Len(s) - 1 : {r[j] : j \in 1 .. i} = {s[j] : j \in 1 .. i}
  BY <1>1
<1>3. {s[j] : j \in 1 .. Len(s)} = {s[j] : j \in 1 .. Len(s) - 1} \cup {Last(s)}
  <2>1. 1 .. Len(s) = 1 .. Len(s) - 1 \cup {Len(s)}
    BY <1>1
  <2> QED
    BY <1>1, <2>1
<1> QED
  BY <1>1, <1>2, <1>3 DEF Guards, r

(* A thread whose locks and priorities a step leaves alone.                *)
LEMMA PrioStays ==
  ASSUME Lists, NEW t \in Threads, PrioRight(t), held'[t] = held[t], base'[t] = base[t],
         sched'.prio[t] = sched.prio[t],
         \A m \in Mutexes : Holds(t, m) => mutex'[m].owner_prio = mutex[m].owner_prio
  PROVE  PrioRight(t)'
<1>1. DOMAIN held[t] = 1 .. Len(held[t]) /\ held[t] \in Seq(Mutexes)
  BY DEF Lists
<1>2. \A i \in 1 .. Len(held[t]) : Holds(t, held[t][i]) /\ held[t][i] \in Mutexes
  BY <1>1 DEF Holds
<1> QED
  BY <1>2 DEF PrioRight

(* pthread_mutex_lock and trylock.                                         *)
LEMMA PrioLocked ==
  ASSUME ThreadsInv, NEW t \in Threads, PrioRight(t), NEW m \in Mutexes,
         held'[t] = Append(held[t], m), base'[t] = base[t],
         sched'.prio[t] = IF m \in Protect /\ sched.prio[t] > Ceiling[m]
                            THEN Ceiling[m] ELSE sched.prio[t],
         \A x \in Mutexes : Holds(t, x) => mutex'[x].owner_prio = mutex[x].owner_prio,
         m \in Protect => Holds(t, m) \/ mutex'[m].owner_prio = sched.prio[t]
  PROVE  PrioRight(t)'
<1> DEFINE s == held[t]
           r == Append(s, m)
<1>1. s \in Seq(Mutexes) /\ DOMAIN s = 1 .. Len(s) /\ Len(s) \in Nat
      /\ sched.prio[t] \in Prios /\ base[t] \in Prios
  BY DEF ThreadsInv, Lists, KernelInv, Ordered, Kernels
<1>2. /\ Len(r) = Len(s) + 1 /\ r[Len(s) + 1] = m
      /\ \A i \in 1 .. Len(s) : r[i] = s[i]
      /\ \A i \in 0 .. Len(s) : Guards(r, i) = Guards(s, i)
      /\ Guards(r, Len(s) + 1) = Guards(s, Len(s)) \cup ({m} \cap Protect)
  BY <1>1, GuardsAppend
<1>3. \A i \in 1 .. Len(s) : Holds(t, s[i]) /\ s[i] \in Mutexes
  BY <1>1 DEF Holds
<1>4. Guards(s, Len(s)) \subseteq Mutexes
  BY <1>3 DEF Guards
<1>5. Highest(sched.prio[t], base[t], Guards(s, Len(s)))
  BY DEF PrioRight
<1>6. Holds(t, m) <=> \E i \in 1 .. Len(s) : s[i] = m
  BY <1>1 DEF Holds
<1> HIDE DEF r, s
<1>7. Highest(sched'.prio[t], base[t], Guards(r, Len(r)))
  <2>1. CASE m \in Protect
    <3> DEFINE S == Guards(s, Len(s))
    <3>1. Highest(sched'.prio[t], base[t], S \cup {m})
      BY <1>1, <1>4, <1>5, <2>1, HighestAdd
    <3>2. Guards(r, Len(r)) = S \cup {m}
      BY <1>2, <2>1
    <3> QED
      BY <3>1, <3>2
  <2>2. CASE m \notin Protect
    <3>1. Guards(r, Len(r)) = Guards(s, Len(s))
      BY <1>2, <2>2
    <3> QED
      BY <1>5, <2>2, <3>1
  <2> QED
    BY <2>1, <2>2
<1>8. ASSUME NEW i \in 1 .. Len(r), r[i] \in Protect \ Guards(r, i - 1)
      PROVE  Highest(mutex'[r[i]].owner_prio, base[t], Guards(r, i - 1))
  <2>1. CASE i \in 1 .. Len(s)
    <3>1. i - 1 \in 0 .. Len(s) /\ r[i] = s[i] /\ Guards(r, i - 1) = Guards(s, i - 1)
      BY <1>1, <1>2, <2>1
    <3>2. Highest(mutex[s[i]].owner_prio, base[t], Guards(s, i - 1))
      BY <1>8, <2>1, <3>1 DEF PrioRight, s
    <3> QED
      BY <1>3, <2>1, <3>1, <3>2
  <2>2. CASE i = Len(s) + 1
    <3>1. i - 1 = Len(s) /\ r[i] = m /\ Guards(r, i - 1) = Guards(s, Len(s))
      BY <1>1, <1>2, <2>2
    <3>2. ~Holds(t, m) /\ m \in Protect
      BY <1>6, <1>8, <3>1 DEF Guards
    <3> QED
      BY <1>5, <3>1, <3>2
  <2> QED
    BY <1>1, <1>2, <2>1, <2>2
<1> QED
  BY <1>7, <1>8 DEF PrioRight, r, s

(* pthread_mutex_unlock: the last lock of the mutex, or another.           *)
LEMMA PrioUnlocked ==
  ASSUME ThreadsInv, NEW t \in Threads, PrioRight(t), NEW m \in Mutexes,
         held[t] # <<>>, m = Last(held[t]), held'[t] = Front(held[t]), base'[t] = base[t],
         \A x \in Mutexes : mutex'[x].owner_prio = mutex[x].owner_prio,
         NEW once \in BOOLEAN, once <=> m \notin Guards(held[t], Len(held[t]) - 1),
         sched'.prio[t] = IF m \in Protect /\ once
                            THEN mutex[m].owner_prio ELSE sched.prio[t]
  PROVE  PrioRight(t)'
<1> DEFINE s == held[t]
           r == Front(s)
<1>1. s \in Seq(Mutexes) /\ s # <<>>
  BY DEF ThreadsInv, Lists
<1>2. /\ Len(s) \in Nat \ {0} /\ Len(r) = Len(s) - 1 /\ s[Len(s)] = m
      /\ \A i \in 1 .. Len(s) - 1 : r[i] = s[i]
      /\ \A i \in 0 .. Len(s) - 1 : Guards(r, i) = Guards(s, i)
      /\ Guards(s, Len(s)) = Guards(s, Len(s) - 1) \cup ({m} \cap Protect)
  BY <1>1, GuardsFront
<1>3. \A i \in 1 .. Len(s) : s[i] \in Mutexes
  BY <1>1
<1>4. Highest(sched.prio[t], base[t], Guards(s, Len(s)))
  BY DEF PrioRight
<1> HIDE DEF r, s
<1>5. Highest(sched'.prio[t], base[t], Guards(r, Len(r)))
  <2>1. Guards(r, Len(r)) = Guards(s, Len(s) - 1) /\ Len(s) \in 1 .. Len(s)
    BY <1>2
  <2>2. CASE m \in Protect /\ once
    BY <1>2, <2>1, <2>2 DEF PrioRight, s
  <2>3. CASE ~(m \in Protect /\ once)
    <3>1. Guards(s, Len(s)) = Guards(s, Len(s) - 1)
      BY <1>2, <2>3 DEF s
    <3> QED
      BY <1>4, <2>1, <2>3, <3>1
  <2> QED
    BY <2>2, <2>3
<1>6. ASSUME NEW i \in 1 .. Len(r), r[i] \in Protect \ Guards(r, i - 1)
      PROVE  Highest(mutex'[r[i]].owner_prio, base[t], Guards(r, i - 1))
  <2>1. i \in 1 .. Len(s) /\ r[i] = s[i] /\ Guards(r, i - 1) = Guards(s, i - 1)
    BY <1>2
  <2>2. Highest(mutex[s[i]].owner_prio, base[t], Guards(s, i - 1))
    BY <1>6, <2>1 DEF PrioRight, s
  <2> QED
    BY <1>3, <2>1, <2>2
<1> QED
  BY <1>5, <1>6 DEF PrioRight, r, s

(* What of the types is needed.                                            *)
LEMMA PrioTypes ==
  ASSUME ThreadsInv
  PROVE  /\ \A t \in Threads : sched.prio[t] \in Prios /\ sched.prio[t] \in Nat
         /\ \A m \in Mutexes : Ceiling[m] \in Prios /\ Ceiling[m] \in Nat
         /\ DOMAIN sched.prio = Threads
         /\ sched.prio = [t \in Threads |-> sched.prio[t]]
         /\ DOMAIN mutex = Mutexes
         /\ \A m \in Mutexes : mutex[m] \in [owner : Threads \cup {Idle}, owner_prio : Prios,
                                             counter : Nat, mutex_list : Seq(Threads)]
         /\ held \in [Threads -> Seq(Mutexes)]
<1>1. \A x \in Prios : x \in Nat
  BY KernelAssumption DEF Prios
<1>2. sched.prio \in [Threads -> Prios]
  BY DEF ThreadsInv, KernelInv, Ordered, Kernels
<1> QED
  BY <1>1, <1>2, ThreadsAssumption DEF ThreadsInv, Lists

LEMMA PrioFrame ==
  ASSUME Lists, PrioInv, held' = held, base' = base, sched'.prio = sched.prio,
         \A m \in Mutexes : mutex'[m].owner_prio = mutex[m].owner_prio
  PROVE  PrioInv'
BY PrioStays DEF PrioInv

LEMMA LockPrio ==
  ASSUME ThreadsInv, OwnerInv, PrioInv, NEW m \in Mutexes, NEW counter \in Nat,
         Take(m, counter) \/ LockAgain(m), current \in Threads, base' = base
  PROVE  PrioInv'
<1>1. /\ \A t \in Threads : sched.prio[t] \in Prios
      /\ \A x \in Mutexes : Ceiling[x] \in Nat /\ DOMAIN mutex = Mutexes
      /\ \A x \in Mutexes : mutex[x] \in [owner : Threads \cup {Idle}, owner_prio : Prios,
                                          counter : Nat, mutex_list : Seq(Threads)]
      /\ held \in [Threads -> Seq(Mutexes)] /\ DOMAIN sched.prio = Threads
  BY PrioTypes
<1>2. Gains(m) /\ held' = [held EXCEPT ![current] = Append(held[current], m)]
  BY DEF Take, LockAgain, Gains
<1>3. \A t \in Threads, x \in Mutexes : Holds(t, x) => mutex[x].owner = t
  BY HoldsTimes DEF OwnerInv, HolderOwns
<1>4. \A t \in Threads, x \in Mutexes : Holds(t, x) => mutex'[x].owner_prio = mutex[x].owner_prio
  <2>1. CASE Take(m, counter)
    BY <1>1, <1>3, <2>1, KernelAssumption DEF Take
  <2>2. CASE LockAgain(m)
    <3>1. mutex' = [mutex EXCEPT ![m] = [mutex[m] EXCEPT !.counter = mutex[m].counter + 1]]
      BY <1>1, <2>2 DEF LockAgain
    <3> QED
      BY <1>1, <3>1
  <2> QED
    BY <2>1, <2>2
<1>5. sched'.prio = IF Raises(m) THEN PrioOf(Ceiling[m]) ELSE sched.prio
  <2>1. CASE Take(m, counter)
    BY <2>1, TakeEffect DEF Effect
  <2>2. CASE LockAgain(m)
    <3>1. sched' = sched /\ mutex[m].owner = current
      BY <2>2 DEF LockAgain, Proceed
    <3>2. Times(held[current], m) # 0
      <4>1. Locks(m) >= 1 /\ Times(held[current], m) = Locks(m)
        BY <3>1 DEF OwnerInv, HolderOwns, CounterCounts
      <4> QED
        BY <4>1
    <3>3. Holds(current, m)
      BY <3>2, HoldsTimes DEF OwnerInv
    <3>4. PICK i \in 1 .. Len(held[current]) : held[current][i] = m
      BY <1>1, <3>3 DEF Holds
    <3>5. m \in Protect => m \in Guards(held[current], Len(held[current]))
      BY <3>4 DEF Guards
    <3>6. m \in Protect => sched.prio[current] <= Ceiling[m]
      BY <3>5 DEF PrioInv, PrioRight, Highest
    <3>7. sched.prio[current] \in Nat
      BY PrioTypes
    <3> QED
      BY <1>1, <3>1, <3>6, <3>7 DEF Raises
  <2> QED
    BY <2>1, <2>2
<1>6. ASSUME NEW t \in Threads
      PROVE  PrioRight(t)'
  <2>1. CASE t = current
    <3>1. sched'.prio[t] = IF m \in Protect /\ sched.prio[t] > Ceiling[m]
                             THEN Ceiling[m] ELSE sched.prio[t]
      BY <1>1, <1>5, <2>1 DEF Raises, PrioOf
    <3>2. held'[t] = Append(held[t], m)
      BY <1>1, <1>2, <2>1
    <3>3. m \in Protect => Holds(t, m) \/ mutex'[m].owner_prio = sched.prio[t]
      <4>1. CASE Take(m, counter)
        BY <1>1, <2>1, <4>1 DEF Take
      <4>2. CASE LockAgain(m)
        <5>1. Locks(m) >= 1 /\ Times(held[t], m) = Locks(m)
          BY <2>1, <4>2 DEF LockAgain, OwnerInv, HolderOwns, CounterCounts
        <5>2. Times(held[t], m) # 0
          BY <5>1
        <5> QED
          BY <5>2, HoldsTimes DEF OwnerInv
      <4> QED
        BY <4>1, <4>2
    <3> QED
      BY <1>4, <3>1, <3>2, <3>3, PrioLocked DEF PrioInv
  <2>2. CASE t # current
    <3>1. held'[t] = held[t] /\ sched'.prio[t] = sched.prio[t]
      BY <1>1, <1>2, <1>5, <2>2 DEF PrioOf
    <3> QED
      BY <1>4, <3>1, PrioStays DEF PrioInv, ThreadsInv
  <2> QED
    BY <2>1, <2>2
<1> QED
  BY <1>6 DEF PrioInv

(* Whether it is the last lock of the mutex that is given up.              *)
LastLock(m) == m \notin Guards(held[current], Len(held[current]) - 1)

LEMMA LastLockReleases ==
  ASSUME ThreadsInv, OwnerInv, NEW m \in Mutexes, NEW where, Unlocked(m, where),
         current \in Threads, held[current] # <<>>, m = Last(held[current])
  PROVE  \/ /\ Release(m, where) /\ LastLock(m)
         \/ /\ mutex' = [mutex EXCEPT ![m].counter = @ - 1] /\ Proceed(sched, where)
            /\ m \in Protect => ~LastLock(m)
<1> DEFINE s == held[current]
           r == Front(s)
<1>1. s \in Seq(Mutexes) /\ s # <<>>
  BY DEF ThreadsInv, Lists
<1>2. mutex[m].owner = current /\ mutex[m].counter \in Nat
  BY DEF Unlocked, ThreadsInv, Lists
<1>3. Times(s, m) = Locks(m) /\ Locks(m) >= 1
  BY <1>2 DEF OwnerInv, HolderOwns, CounterCounts
<1>4. /\ r \in Seq(Mutexes) /\ Times(r, m) = Times(s, m) - 1
      /\ DOMAIN r = 1 .. Len(s) - 1 /\ \A i \in 1 .. Len(s) - 1 : r[i] = s[i]
  <2>1. r \in Seq(Mutexes) /\ Times(r, m) = Times(s, m) - 1
    BY <1>1, TimesFront
  <2>2. Len(r) = Len(s) - 1 /\ \A i \in 1 .. Len(s) - 1 : r[i] = s[i]
    BY <1>1, GuardsFront
  <2> QED
    BY <2>1, <2>2
<1>5. Times(r, m) = 0 <=> \A i \in DOMAIN r : r[i] # m
  BY <1>4, TimesFinite
<1>6. Times(r, m) = 0 <=> m \notin {s[j] : j \in 1 .. Len(s) - 1}
  BY <1>4, <1>5
<1> HIDE DEF r, s
<1>7. CASE /\ Type[m] = "recursive" /\ mutex[m].counter > 1
           /\ mutex' = [mutex EXCEPT ![m].counter = @ - 1] /\ Proceed(sched, where)
  <2>1. Times(r, m) # 0
    BY <1>2, <1>3, <1>4, <1>7 DEF Locks
  <2> QED
    BY <1>6, <1>7, <2>1 DEF LastLock, Guards, s
<1>8. CASE Release(m, where) /\ (Type[m] = "recursive" => mutex[m].counter <= 1)
  <2>1. Locks(m) = 1
    BY <1>2, <1>3, <1>8 DEF Locks
  <2>2. Times(r, m) = 0
    BY <1>3, <1>4, <2>1
  <2> QED
    BY <1>6, <1>8, <2>2 DEF LastLock, Guards, s
<1> QED
  BY <1>7, <1>8 DEF Unlocked

LEMMA UnlockPrio ==
  ASSUME ThreadsInv, OwnerInv, PrioInv, NEW m \in Mutexes, NEW where, Unlocked(m, where),
         current \in Threads, held[current] # <<>>, m = Last(held[current])
  PROVE  PrioInv'
<1>1. /\ DOMAIN mutex = Mutexes /\ DOMAIN held = Threads /\ DOMAIN sched.prio = Threads
      /\ \A x \in Mutexes : mutex[x] \in [owner : Threads \cup {Idle}, owner_prio : Prios,
                                          counter : Nat, mutex_list : Seq(Threads)]
  BY PrioTypes
<1>2. held' = [held EXCEPT ![current] = Front(held[current])] /\ base' = base
  BY DEF Unlocked, Gives
<1>3. \A x \in Mutexes : mutex'[x].owner_prio = mutex[x].owner_prio
  <2>1. CASE mutex' = [mutex EXCEPT ![m].counter = @ - 1]
    BY <1>1, <2>1
  <2>2. CASE mutex' = [mutex EXCEPT ![m].owner = Idle, ![m].counter = 0, ![m].mutex_list = <<>>]
    BY <1>1, <2>2
  <2> QED
    BY <2>1, <2>2 DEF Unlocked, Release
<1>4. sched'.prio = IF m \in Protect /\ LastLock(m) THEN PrioOf(mutex[m].owner_prio) ELSE sched.prio
  <2>1. CASE Release(m, where) /\ LastLock(m)
    <3>1. sched'.prio = IF Lowers(m) THEN PrioOf(mutex[m].owner_prio) ELSE sched.prio
      BY <2>1, ReleaseEffect DEF Effect
    <3>2. m \in Protect /\ ~Lowers(m) => PrioOf(mutex[m].owner_prio) = sched.prio
      <4>1. sched.prio = [t \in Threads |-> sched.prio[t]]
        BY DEF ThreadsInv, KernelInv, Ordered, Kernels
      <4> QED
        BY <4>1 DEF Lowers, PrioOf
    <3> QED
      BY <2>1, <3>1, <3>2 DEF Lowers
  <2>2. CASE Proceed(sched, where) /\ (m \in Protect => ~LastLock(m))
    BY <2>2 DEF Proceed
  <2> QED
    BY <2>1, <2>2, LastLockReleases
<1>5. ASSUME NEW t \in Threads
      PROVE  PrioRight(t)'
  <2>1. CASE t = current
    <3>1. LastLock(m) \in BOOLEAN /\ (LastLock(m) <=> m \notin Guards(held[t], Len(held[t]) - 1))
      BY <2>1 DEF LastLock
    <3>2. /\ held'[t] = Front(held[t]) /\ base'[t] = base[t]
          /\ sched'.prio[t] = IF m \in Protect /\ LastLock(m)
                                THEN mutex[m].owner_prio ELSE sched.prio[t]
      BY <1>1, <1>2, <1>4, <2>1 DEF PrioOf
    <3> QED
      BY <1>3, <2>1, <3>1, <3>2, PrioUnlocked DEF PrioInv
  <2>2. CASE t # current
    <3>1. held'[t] = held[t] /\ base'[t] = base[t] /\ sched'.prio[t] = sched.prio[t]
      BY <1>1, <1>2, <1>4, <2>2 DEF PrioOf
    <3> QED
      BY <1>3, <3>1, PrioStays DEF PrioInv, ThreadsInv
  <2> QED
    BY <2>1, <2>2
<1> QED
  BY <1>5 DEF PrioInv

LEMMA PrioInit == Init => PrioInv
<1> SUFFICES ASSUME Init, NEW t \in Threads PROVE PrioRight(t)
  BY DEF PrioInv
<1>1. sched.prio[t] = base[t] /\ base[t] \in Nat /\ Len(held[t]) = 0
  BY KernelAssumption DEF Init, KernelInit, Prios
<1>2. Guards(held[t], Len(held[t])) = {} /\ 1 .. Len(held[t]) = {}
  BY <1>1 DEF Guards
<1> QED
  BY <1>1, <1>2 DEF PrioRight, Highest

(* Everything that is known of the locks.                                  *)
LocksInv == ThreadsInv /\ OwnerInv /\ PrioInv

LEMMA KernelPrio ==
  ASSUME ThreadsInv, KernelStep
  PROVE  sched'.prio = sched.prio
BY CreateEffect, YieldEffect, SleepEffect, SleepOnEffect, InterruptEffect
   DEF ThreadsInv, KernelStep, Effect

LEMMA PrioNext == LocksInv /\ [Next]_vars => PrioInv'
<1> SUFFICES ASSUME LocksInv, [Next]_vars PROVE PrioInv'
  OBVIOUS
<1>1. ThreadsInv /\ OwnerInv /\ PrioInv /\ Lists
  BY DEF LocksInv, ThreadsInv
<1>2. UNCHANGED <<mutex, held, base>> /\ sched'.prio = sched.prio => PrioInv'
  BY <1>1, PrioFrame
<1>3. CASE UNCHANGED vars
  BY <1>2, <1>3 DEF vars
<1>4. CASE KernelStep /\ UNCHANGED <<mutex, cond, joining, held, base>>
  BY <1>1, <1>2, <1>4, KernelPrio
<1>5. ASSUME NEW m \in Mutexes, Lock(m) \/ LockOn(m) \/ TryLock(m)
      PROVE  PrioInv'
  <2>1. current \in Threads /\ sched.state[current] = "ready" /\ base' = base
    BY <1>1, <1>5, RunningIsReady
       DEF Lock, LockOn, LockLoop, TryLock, ThreadsInv, Leaving, User
  <2>2. mutex[m].counter \in Nat /\ 1 \in Nat
    BY <1>1 DEF Lists
  <2>3. CASE Take(m, 1) \/ Take(m, mutex[m].counter) \/ LockAgain(m)
    BY <1>1, <2>1, <2>2, <2>3, LockPrio
  <2>4. CASE WaitForMutex(m)
    <3>1. sched'.prio = sched.prio
      BY <1>1, <2>1, <2>4, WaitEffect DEF WaitForMutex, Effect
    <3>2. \A x \in Mutexes : mutex'[x].owner_prio = mutex[x].owner_prio
      BY <1>1, <2>4, PrioTypes DEF WaitForMutex
    <3> QED
      BY <1>1, <2>1, <2>4, <3>1, <3>2, PrioFrame DEF WaitForMutex
  <2> QED
    BY <1>5, <2>3, <2>4 DEF Lock, LockOn, LockLoop, TryLock
<1>6. ASSUME NEW m \in Mutexes, NEW where, Unlocked(m, where), Running(User),
             held[current] # <<>>, m = Last(held[current])
      PROVE  PrioInv'
  <2>1. current \in Threads
    BY <1>1, <1>6 DEF ThreadsInv, KernelInv, Running
  <2> QED
    BY <1>1, <1>6, <2>1, UnlockPrio
<1>7. ASSUME NEW c \in Conds, Signal(c) \/ Broadcast(c)
      PROVE  PrioInv'
  <2>1. sched'.prio = sched.prio
    BY <1>1, <1>7, SignalEffect, BroadcastEffect DEF Effect
  <2> QED
    BY <1>2, <1>7, <2>1 DEF Signal, Broadcast, program
<1>8. ASSUME NEW c \in Conds, NEW m \in Mutexes, CondWaitOn(c, m)
      PROVE  PrioInv'
  <2>1. current \in Threads /\ sched.state[current] = "ready"
    BY <1>1, <1>8, RunningIsReady DEF CondWaitOn, ThreadsInv, Leaving
  <2>2. sched'.prio = sched.prio
    BY <1>1, <1>8, <2>1, WaitEffect DEF CondWaitOn, Effect
  <2> QED
    BY <1>2, <1>8, <2>2 DEF CondWaitOn, program
<1>9. ASSUME NEW t \in Threads, Join(t) \/ JoinOn(t)
      PROVE  PrioInv'
  <2>1. current \in Threads /\ sched.state[current] = "ready" /\ JoinLoop(t)
    BY <1>1, <1>9, RunningIsReady DEF Join, JoinOn, ThreadsInv, Leaving, User
  <2>2. sched'.prio = sched.prio
    BY <1>1, <2>1, JoinEffect DEF Effect
  <2> QED
    BY <1>2, <2>1, <2>2 DEF JoinLoop, program
<1>10. CASE Exit \/ ExitOn
  <2>1. sched'.prio = sched.prio
    BY <1>1, <1>10, ExitEffect, ExitOnEffect DEF Effect
  <2> QED
    BY <1>2, <1>10, <2>1 DEF Exit, ExitOn, program
<1>11. ASSUME NEW t \in Threads, NEW p \in Prios, SetSchedParam(t, p)
       PROVE  PrioInv'
  <2> SUFFICES ASSUME NEW u \in Threads PROVE PrioRight(u)'
    BY DEF PrioInv
  <2>1. /\ sched'.prio = [sched.prio EXCEPT ![t] = p] /\ base' = [base EXCEPT ![t] = p]
        /\ held' = held /\ mutex' = mutex /\ held[t] = <<>>
    BY <1>1, <1>11, SetPrioEffect DEF Effect, SetSchedParam
  <2>2. DOMAIN sched.prio = Threads /\ DOMAIN base = Threads
    BY <1>1, PrioTypes DEF Lists
  <2>3. CASE u = t
    <3>1. sched'.prio[u] = base'[u] /\ base'[u] \in Nat /\ Len(held'[u]) = 0
      BY <2>1, <2>2, <2>3, KernelAssumption DEF Prios
    <3>2. Guards(held'[u], Len(held'[u])) = {} /\ 1 .. Len(held'[u]) = {}
      BY <3>1 DEF Guards
    <3> QED
      BY <3>1, <3>2 DEF PrioRight, Highest
  <2>4. CASE u # t
    BY <1>1, <2>1, <2>2, <2>4, PrioStays DEF PrioInv
  <2> QED
    BY <2>3, <2>4
<1> QED
  BY <1>3, <1>4, <1>5, <1>6, <1>7, <1>8, <1>9, <1>10, <1>11 DEF Next, Unlock, CondWait

LEMMA LocksInvariant == Spec => []LocksInv
<1>1. Init => LocksInv
  BY ThreadsInit, OwnerInit, PrioInit DEF LocksInv
<1>2. LocksInv /\ [Next]_vars => LocksInv'
  BY ThreadsNext, OwnerNext, PrioNext DEF LocksInv
<1> QED
  BY <1>1, <1>2, PTL DEF Spec

(* What a thread holds is among what it has locked.                        *)
LEMMA HeldGuards ==
  ASSUME LocksInv, NEW t \in Threads, NEW m \in Protect, Holds(t, m)
  PROVE  m \in Guards(held[t], Len(held[t])) /\ sched.prio[t] <= Ceiling[m]
<1>1. held[t] \in Seq(Mutexes) /\ PrioRight(t)
  BY DEF LocksInv, ThreadsInv, Lists, PrioInv
<1>2. \E i \in 1 .. Len(held[t]) : held[t][i] = m
  BY <1>1 DEF Holds
<1> QED
  BY <1>1, <1>2 DEF Guards, PrioRight, Highest

(* pthread_mutex_lock and unlock, PTHREAD_PRIO_PROTECT: a thread is at the *)
(* ceiling of what it holds or above, and gets its priority back with its  *)
(* last unlock, however deep its mutexes are nested.                       *)
THEOREM PrioritiesComeBack == Spec => []CeilingsKept
<1>1. LocksInv => CeilingsKept
  <2> SUFFICES ASSUME LocksInv, NEW t \in Threads
               PROVE  /\ held[t] = <<>> => sched.prio[t] = base[t]
                      /\ \A m \in Protect : Holds(t, m) => sched.prio[t] <= Ceiling[m]
    BY DEF CeilingsKept
  <2>1. held[t] = <<>> => sched.prio[t] = base[t]
    <3>1. held[t] = <<>> => Guards(held[t], Len(held[t])) = {}
      BY DEF Guards
    <3> QED
      BY <3>1 DEF LocksInv, PrioInv, PrioRight, Highest
  <2> QED
    BY <2>1, HeldGuards
<1> QED
  BY <1>1, LocksInvariant, PTL

-----------------------------------------------------------------------------
(* Waiting on a condition.                                                 *)

(* Only pthread_cond_wait leads to where it has unlocked the mutex.        *)
LEMMA OnlyWaits ==
  ASSUME ThreadsInv, [Next]_vars, NEW t \in Threads, NEW c \in Conds, NEW m \in Mutexes,
         at[t] = User, at'[t] = <<"unlocked", c, m>>
  PROVE  t = current /\ CondWait(c, m)
<1>1. at = [u \in Threads |-> at[u]]
  BY DEF ThreadsInv, KernelInv
<1>2. ASSUME NEW where, at' = [at EXCEPT ![current] = where]
      PROVE  t = current /\ where = <<"unlocked", c, m>>
  BY <1>1, <1>2 DEF User
<1>3. at' # at
  BY DEF User
<1>4. ~KernelStep
  <2>1. \A w \in {User, <<"asleep">>} : at' # [at EXCEPT ![current] = w]
    BY <1>2 DEF User
  <2> QED
    BY <1>3, <2>1
       DEF KernelStep, Create, Yield, Sleep, SleepOn, Interrupt, Reschedule, Proceed
<1>5. ASSUME NEW x \in Mutexes
      PROVE  ~(Lock(x) \/ LockOn(x) \/ TryLock(x) \/ Unlock(x))
  <2>1. \A w \in {User, <<"lock", x>>} : at' # [at EXCEPT ![current] = w]
    BY <1>2 DEF User
  <2> QED
    BY <2>1 DEF Lock, LockOn, LockLoop, TryLock, Take, LockAgain, WaitForMutex, Unlock, Unlocked,
                Release, Reschedule, Proceed
<1>6. ASSUME NEW d \in Conds
      PROVE  ~(Signal(d) \/ Broadcast(d))
  <2>1. at' # [at EXCEPT ![current] = User]
    BY <1>2 DEF User
  <2> QED
    BY <2>1 DEF Signal, Broadcast, Reschedule
<1>7. ASSUME NEW d \in Conds, NEW x \in Mutexes
      PROVE  ~CondWaitOn(d, x)
  <2>1. at' # [at EXCEPT ![current] = <<"lock", x>>]
    BY <1>2
  <2> QED
    BY <2>1 DEF CondWaitOn, Reschedule
<1>8. ASSUME NEW u \in Threads
      PROVE  ~(Join(u) \/ JoinOn(u)) /\ \A p \in Prios : ~SetSchedParam(u, p)
  <2>1. \A w \in {User, <<"join", u>>} : at' # [at EXCEPT ![current] = w]
    BY <1>2 DEF User
  <2> QED
    BY <2>1 DEF Join, JoinOn, JoinLoop, SetSchedParam, SetPrio, Reschedule, Proceed
<1>9. ~Exit /\ ~ExitOn
  <2>1. \A w \in {<<"exiting">>, <<"end">>} : at' # [at EXCEPT ![current] = w]
    BY <1>2
  <2> QED
    BY <2>1 DEF Exit, ExitOn, Reschedule, Proceed
<1>10. PICK d \in Conds, x \in Mutexes : CondWait(d, x)
  BY <1>3, <1>4, <1>5, <1>6, <1>7, <1>8, <1>9 DEF Next, vars
<1>11. at' = [at EXCEPT ![current] = <<"unlocked", d, x>>]
  BY <1>10 DEF CondWait, Unlocked, Release, Reschedule, Proceed
<1>12. t = current /\ <<"unlocked", d, x>> = <<"unlocked", c, m>>
  BY <1>2, <1>11
<1>13. d = c /\ x = m
  BY <1>12
<1> QED
  BY <1>10, <1>12, <1>13

(* pthread_cond_wait: no other thread runs between unlocking the mutex and *)
(* the list of the condition, unless the mutex has raised the thread.      *)
THEOREM WaitsAtOnce == Spec => WaitIsAtomic
<1>1. ASSUME LocksInv, [Next]_vars
      PROVE  [\A t \in Threads, c \in Conds, m \in Mutexes :
                at[t] = User /\ at'[t] = <<"unlocked", c, m>> => current' = t \/ Raised(t, m)]_vars
  <2> SUFFICES ASSUME NEW t \in Threads, NEW c \in Conds, NEW m \in Mutexes,
                      at[t] = User, at'[t] = <<"unlocked", c, m>>, current' # t
               PROVE  Raised(t, m)
    OBVIOUS
  <2>1. ThreadsInv /\ OwnerInv /\ PrioRight(t) /\ t = current
    BY <1>1, OnlyWaits DEF LocksInv, PrioInv
  <2>2. /\ Unlocked(m, <<"unlocked", c, m>>) /\ held[t] # <<>> /\ m = Last(held[t])
    BY <1>1, <2>1, OnlyWaits DEF CondWait
  <2>3. Release(m, <<"unlocked", c, m>>) /\ LastLock(m)
    <3>1. ~Proceed(sched, <<"unlocked", c, m>>)
      BY <2>1 DEF Proceed
    <3> QED
      BY <2>1, <2>2, <3>1, LastLockReleases
  <2>4. Lowers(m)
    BY <2>1, <2>3, ReleaseEffect DEF Effect
  <2> DEFINE s == held[t]
             n == Len(s)
             back == mutex[m].owner_prio
  <2>5. s \in Seq(Mutexes) /\ s # <<>>
    BY <2>1, <2>2 DEF ThreadsInv, Lists
  <2>6. /\ n \in Nat \ {0} /\ s[n] = m
        /\ Guards(s, n) = Guards(s, n - 1) \cup ({m} \cap Protect)
    BY <2>2, <2>5, GuardsFront
  <2>7. m \in Protect \ Guards(s, n - 1)
    BY <2>1, <2>3, <2>4 DEF LastLock, Lowers
  <2>8. Highest(back, base[t], Guards(s, n - 1)) /\ Highest(sched.prio[t], base[t], Guards(s, n))
    <3>1. n \in 1 .. n
      BY <2>6
    <3> HIDE DEF n
    <3> QED
      BY <2>1, <2>6, <2>7, <3>1 DEF PrioRight, n
  <2>9. CASE base[t] <= Ceiling[m]
    <3>1. \A x \in Prios : x \in Nat
      BY KernelAssumption DEF Prios
    <3>2. back \in Prios /\ base[t] \in Prios /\ sched.prio[t] \in Prios /\ Ceiling[m] \in Prios
      BY <2>1, PrioTypes DEF ThreadsInv, Lists
    <3>3. back <= Ceiling[m]
      BY <2>8, <2>9, <3>1, <3>2 DEF Highest
    <3>4. Highest(back, base[t], Guards(s, n))
      BY <2>6, <2>8, <3>3 DEF Highest
    <3>5. Guards(s, n) \subseteq Mutexes
      BY <2>5, ThreadsAssumption DEF Guards
    <3>6. back = sched.prio[t]
      BY <2>8, <3>2, <3>4, <3>5, HighestUnique
    <3> QED
      BY <2>1, <2>4, <3>6 DEF Lowers
  <2>10. CASE ~(base[t] <= Ceiling[m])
    <3>1. base[t] \in Nat /\ Ceiling[m] \in Nat
      <4>1. base[t] \in Prios /\ Ceiling[m] \in Nat
        BY <2>1, PrioTypes DEF ThreadsInv, Lists
      <4> QED
        BY <4>1, KernelAssumption DEF Prios
    <3> QED
      BY <2>7, <2>10, <3>1 DEF Raised
  <2> QED
    BY <2>9, <2>10
<1> QED
  BY <1>1, LocksInvariant, PTL DEF Spec, WaitIsAtomic

-----------------------------------------------------------------------------
(* The highest ready thread runs.                                          *)

(* The ceilings, as the default initializer of a mutex has them: all       *)
(* mutexes have one and the same, which no thread is above.                *)
OneCeiling ==
  /\ Protect = Mutexes
  /\ \A m, n \in Mutexes : Ceiling[m] = Ceiling[n]
  /\ \A t \in Threads, m \in Mutexes : Ceiling[m] <= InitPrio[t]

BaseBelow == \A t \in Threads, m \in Mutexes : Ceiling[m] <= base[t]

(* It runs also where it goes on in a call, but where sleep_for and        *)
(* pthread_exit have not called scheduling() yet.                          *)
RunsHighest ==
  \A t \in Threads : sched.state[t] = "ready" =>
    /\ current # Idle
    /\ at[current] \notin Leaving => sched.prio[current] <= sched.prio[t]

(* scheduling() chooses it, ...                                            *)
LEMMA ChosenHighest ==
  ASSUME Ordered(sched'), current' = HeadOfHighest(sched')
  PROVE  RunsHighest'
BY HeadIsHighest, KernelAssumption DEF RunsHighest

(* ... and it stays the highest if nobody above it becomes ready.          *)
LEMMA StaysHighest ==
  ASSUME RunsHighest, current \in Threads, at[current] \notin Leaving, current' = current,
         sched'.prio = sched.prio,
         \A t \in Threads : sched'.state[t] = "ready" =>
           sched.state[t] = "ready" \/ sched.prio[current] <= sched.prio[t]
  PROVE  RunsHighest'
BY KernelAssumption DEF RunsHighest

(* Nobody is above the owner of a mutex.                                   *)
LEMMA OwnerHighest ==
  ASSUME OneCeiling, LocksInv, BaseBelow, NEW m \in Mutexes, NEW u \in Threads, Holds(u, m),
         NEW t \in Threads
  PROVE  sched.prio[u] <= sched.prio[t]
<1>1. Ceiling[m] \in Nat /\ sched.prio[t] \in Nat /\ sched.prio[u] \in Nat
  BY PrioTypes DEF LocksInv
<1>2. sched.prio[u] <= Ceiling[m]
  BY HeldGuards DEF OneCeiling
<1>3. Ceiling[m] <= sched.prio[t]
  <2>1. Highest(sched.prio[t], base[t], Guards(held[t], Len(held[t])))
    BY DEF LocksInv, PrioInv, PrioRight
  <2>2. CASE sched.prio[t] = base[t]
    BY <2>2 DEF BaseBelow
  <2>3. ASSUME NEW x \in Guards(held[t], Len(held[t])), sched.prio[t] = Ceiling[x]
        PROVE  Ceiling[m] <= sched.prio[t]
    <3>1. Ceiling[x] = Ceiling[m]
      BY DEF OneCeiling, Guards
    <3> QED
      BY <1>1, <2>3, <3>1
  <2> QED
    BY <2>1, <2>2, <2>3 DEF Highest
<1> QED
  BY <1>1, <1>2, <1>3

LEMMA BaseNext == OneCeiling /\ BaseBelow /\ [Next]_vars /\ ThreadsInv => BaseBelow'
<1> SUFFICES ASSUME OneCeiling, BaseBelow, [Next]_vars, ThreadsInv PROVE BaseBelow'
  OBVIOUS
<1>1. base' = base => BaseBelow'
  BY DEF BaseBelow
<1>2. ASSUME NEW t \in Threads, NEW p \in Prios, SetSchedParam(t, p)
      PROVE  BaseBelow'
  BY <1>2 DEF SetSchedParam, BaseBelow, OneCeiling, ThreadsInv, Lists
<1> QED
  BY <1>1, <1>2 DEF Next, vars, Lock, LockOn, LockLoop, TryLock, Unlock, Unlocked, Signal,
                    Broadcast, CondWait, CondWaitOn, Join, JoinOn, JoinLoop, Exit, ExitOn, program

LEMMA EffectHighest ==
  ASSUME NEW state, NEW prio, NEW where, Effect(state, prio, where, TRUE)
  PROVE  RunsHighest'
BY ChosenHighest DEF Effect

LEMMA KernelHighest ==
  ASSUME ThreadsInv, RunsHighest, KernelStep
  PROVE  RunsHighest'
<1>1. KernelInv
  BY DEF ThreadsInv
<1>2. ASSUME NEW t \in Threads, Create(t)
      PROVE  RunsHighest'
  BY <1>1, <1>2, CreateEffect, EffectHighest
<1>3. CASE Yield
  BY <1>1, <1>3, YieldEffect, EffectHighest
<1>4. CASE SleepOn
  BY <1>1, <1>4, SleepOnEffect, EffectHighest
<1>5. CASE Interrupt
  BY <1>1, <1>5, InterruptEffect, ChosenHighest
<1>6. CASE Sleep
  <2>1. /\ current \in Threads /\ at[current] = User /\ current' = current
        /\ sched'.prio = sched.prio
        /\ sched'.state = [sched.state EXCEPT ![current] = "suspended"]
    BY <1>1, <1>6, SleepEffect DEF Effect
  <2>2. sched.state \in [Threads -> States]
    BY <1>1 DEF KernelInv, Ordered, Kernels
  <2>3. \A t \in Threads : sched'.state[t] = "ready" => sched.state[t] = "ready"
    BY <2>1, <2>2
  <2> QED
    BY <2>1, <2>3, StaysHighest DEF User, Leaving
<1> QED
  BY <1>2, <1>3, <1>4, <1>5, <1>6 DEF KernelStep

(* Locking lowers nobody, and a thread that is raised is chosen again.     *)
LEMMA LockHighest ==
  ASSUME ThreadsInv, RunsHighest, NEW m \in Mutexes, NEW counter \in Nat,
         Take(m, counter) \/ LockAgain(m) \/ WaitForMutex(m),
         current \in Threads, sched.state[current] = "ready", at[current] \notin Leaving
  PROVE  RunsHighest'
<1>1. CASE Take(m, counter) /\ Raises(m)
  BY <1>1, TakeEffect, EffectHighest
<1>2. CASE (Take(m, counter) /\ ~Raises(m)) \/ LockAgain(m)
  <2>1. sched' = sched /\ current' = current
    BY <1>2 DEF Take, Raises, LockAgain, Proceed
  <2> QED
    BY <2>1, StaysHighest
<1>3. CASE WaitForMutex(m)
  BY <1>3, WaitEffect, EffectHighest DEF WaitForMutex
<1> QED
  BY <1>1, <1>2, <1>3

(* Unlocking calls scheduling() if the thread gets a lower priority back;  *)
(* if not, it is at the ceiling, and whom it wakes is not above it.        *)
LEMMA UnlockHighest ==
  ASSUME OneCeiling, LocksInv, BaseBelow, RunsHighest,
         NEW m \in Mutexes, NEW where, Unlocked(m, where),
         current \in Threads, at[current] \notin Leaving, held[current] # <<>>,
         m = Last(held[current])
  PROVE  RunsHighest'
<1>1. ThreadsInv /\ OwnerInv
  BY DEF LocksInv
<1>2. CASE Proceed(sched, where)
  BY <1>2, StaysHighest DEF Proceed
<1>3. CASE Release(m, where) /\ Lowers(m)
  BY <1>1, <1>3, ReleaseEffect, EffectHighest
<1>4. CASE Release(m, where) /\ ~Lowers(m)
  <2>1. sched'.prio = sched.prio /\ current' = current
    BY <1>1, <1>4, ReleaseEffect DEF Effect
  <2>2. Holds(current, m)
    <3>1. Times(held[current], m) >= 1
      BY <1>1, TimesFront DEF ThreadsInv, Lists
    <3> QED
      BY <1>1, <3>1, HoldsTimes DEF OwnerInv
  <2>3. \A t \in Threads : sched.prio[current] <= sched.prio[t]
    BY <2>2, OwnerHighest
  <2> QED
    BY <2>1, <2>3, StaysHighest
<1> QED
  BY <1>1, <1>2, <1>3, <1>4, LastLockReleases

LEMMA JoinHighest ==
  ASSUME ThreadsInv, RunsHighest, NEW t \in Threads, Join(t) \/ JoinOn(t)
  PROVE  RunsHighest'
<1>1. /\ current \in Threads /\ sched.state[current] = "ready" /\ JoinLoop(t)
      /\ at[current] \notin Leaving
  BY RunningIsReady DEF Join, JoinOn, Running, ThreadsInv, Leaving, User
<1>2. CASE Effect([sched.state EXCEPT ![t] = "deleted"], sched.prio, User, FALSE)
  <2>1. sched.state \in [Threads -> States]
    BY DEF ThreadsInv, KernelInv, Ordered, Kernels
  <2>2. \A u \in Threads : sched'.state[u] = "ready" => sched.state[u] = "ready"
    BY <1>2, <2>1 DEF Effect
  <2> QED
    BY <1>1, <1>2, <2>2, StaysHighest DEF Effect
<1>3. CASE Effect(StateOf("suspended"), sched.prio, <<"join", t>>, TRUE)
  BY <1>3, EffectHighest
<1> QED
  BY <1>1, <1>2, <1>3, JoinEffect

LEMMA ExitHighest ==
  ASSUME ThreadsInv, RunsHighest, Exit \/ ExitOn
  PROVE  RunsHighest'
<1>1. CASE Exit
  <2>1. /\ current \in Threads /\ at[current] = User /\ current' = current
        /\ sched'.prio = sched.prio /\ sched'.state = StateOf("finished")
    BY <1>1, ExitEffect DEF Effect
  <2>2. sched.state \in [Threads -> States]
    BY DEF ThreadsInv, KernelInv, Ordered, Kernels
  <2>3. \A t \in Threads : sched'.state[t] = "ready" => sched.state[t] = "ready"
    BY <2>1, <2>2 DEF StateOf
  <2> QED
    BY <2>1, <2>3, StaysHighest DEF User, Leaving
<1>2. CASE ExitOn
  BY <1>2, ExitOnEffect, EffectHighest
<1> QED
  BY <1>1, <1>2

HighestInv == LocksInv /\ BaseBelow /\ RunsHighest

LEMMA HighestNext == OneCeiling /\ HighestInv /\ [Next]_vars => HighestInv'
<1> SUFFICES ASSUME OneCeiling, HighestInv, [Next]_vars PROVE HighestInv'
  OBVIOUS
<1>1. LocksInv /\ ThreadsInv /\ BaseBelow /\ RunsHighest
  BY DEF HighestInv, LocksInv
<1>2. LocksInv' /\ BaseBelow'
  BY <1>1, ThreadsNext, OwnerNext, PrioNext, BaseNext DEF LocksInv
<1>3. CASE UNCHANGED vars
  BY <1>1, <1>2, <1>3 DEF vars, HighestInv, RunsHighest
<1>4. CASE KernelStep
  BY <1>1, <1>2, <1>4, KernelHighest DEF HighestInv
<1>5. ASSUME NEW m \in Mutexes, Lock(m) \/ LockOn(m) \/ TryLock(m)
      PROVE  RunsHighest'
  <2>1. current \in Threads /\ sched.state[current] = "ready" /\ at[current] \notin Leaving
    BY <1>1, <1>5, RunningIsReady DEF Lock, LockOn, TryLock, Running, ThreadsInv, Leaving, User
  <2>2. mutex[m].counter \in Nat /\ 1 \in Nat
    BY <1>1 DEF ThreadsInv, Lists
  <2>3. Take(m, 1) \/ Take(m, mutex[m].counter) \/ LockAgain(m) \/ WaitForMutex(m)
    BY <1>5 DEF Lock, LockOn, LockLoop, TryLock
  <2> QED
    BY <1>1, <2>1, <2>2, <2>3, LockHighest
<1>6. ASSUME NEW m \in Mutexes, NEW where, Unlocked(m, where), Running(User),
             held[current] # <<>>, m = Last(held[current])
      PROVE  RunsHighest'
  <2>1. current \in Threads /\ at[current] \notin Leaving
    BY <1>1, <1>6 DEF ThreadsInv, KernelInv, Running, User, Leaving
  <2> QED
    BY <1>1, <1>6, <2>1, UnlockHighest
<1>7. ASSUME NEW c \in Conds, Signal(c) \/ Broadcast(c)
      PROVE  RunsHighest'
  BY <1>1, <1>7, SignalEffect, BroadcastEffect, EffectHighest
<1>8. ASSUME NEW c \in Conds, NEW m \in Mutexes, CondWaitOn(c, m)
      PROVE  RunsHighest'
  <2>1. current \in Threads /\ sched.state[current] = "ready"
    BY <1>1, <1>8, RunningIsReady DEF CondWaitOn, ThreadsInv, Leaving
  <2> QED
    BY <1>1, <1>8, <2>1, WaitEffect, EffectHighest DEF CondWaitOn
<1>9. ASSUME NEW t \in Threads, NEW p \in Prios, SetSchedParam(t, p)
      PROVE  RunsHighest'
  BY <1>1, <1>9, SetPrioEffect, EffectHighest
<1> QED
  BY <1>1, <1>2, <1>3, <1>4, <1>5, <1>6, <1>7, <1>8, <1>9, JoinHighest, ExitHighest
     DEF Next, Unlock, CondWait, HighestInv

(* scheduling(), pthread_mutex_lock and unlock: the thread that runs its   *)
(* own code is one of the highest priority among the ready ones, if all    *)
(* mutexes have one ceiling that no thread is above.                       *)
THEOREM HighestRuns ==
  ASSUME OneCeiling
  PROVE  Spec => []HighestReadyRuns
<1>1. Init => HighestInv
  <2> SUFFICES ASSUME Init PROVE HighestInv
    OBVIOUS
  <2>1. BaseBelow
    BY DEF Init, BaseBelow, OneCeiling
  <2>2. RunsHighest
    <3>1. sched.prio[Main] \in Nat
      BY KernelAssumption DEF Init, KernelInit, Prios
    <3> QED
      BY <3>1, KernelAssumption DEF Init, KernelInit, RunsHighest
  <2> QED
    BY <2>1, <2>2, ThreadsInit, OwnerInit, PrioInit DEF HighestInv, LocksInv
<1>2. HighestInv /\ [Next]_vars => HighestInv'
  BY HighestNext
<1>3. HighestInv => HighestReadyRuns
  BY DEF HighestInv, RunsHighest, HighestReadyRuns, User, Leaving
<1> QED
  BY <1>1, <1>2, <1>3, PTL DEF Spec
=============================================================================
