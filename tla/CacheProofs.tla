---------------------------- MODULE CacheProofs ----------------------------
(* Proofs about Cache, for any keys, clients, operations and timers.

   EntryWillExpire is not inductive by itself: to store a timer that still
   runs, one must know that the timer of a write waiting for the lock is armed,
   that it is nobody else's, and that it is not due as long as the wait is
   shorter than the lifetime.  PendingTimer says the first and the last,
   PendingAlone the second.                                                   *)
EXTENDS Cache, TLAPS

PendingTimer ==
    \A c \in Clients : Pending(c) =>
        /\ timer[call[c].timer] = "armed"
        /\ tkey[call[c].timer] = call[c].key
        /\ left[call[c].timer] + wait[c] = Lifetime

PendingAlone ==
    \A c \in Clients : Pending(c) =>
        /\ \A k \in Keys : data[k] # call[c].timer
        /\ \A d \in Clients : Pending(d) /\ call[d].timer = call[c].timer => d = c

IdleWait == \A c \in Clients : ~Pending(c) => wait[c] = 0

IInv == TypeOK /\ IdleWait /\ PendingTimer /\ PendingAlone /\ EntryWillExpire

(* A new cache (NewCacheWithExpiration) has no entries, no timers and no calls. *)
LEMMA InitIInv == Init => IInv
BY NoneAssumption, LifetimeAssumption, LockWaitAssumption
   DEF Init, IInv, TypeOK, IdleWait, PendingTimer, PendingAlone, EntryWillExpire,
       Pending, Present

(* Arming a timer that nobody refers to disturbs no entry and no other write. *)
LEMMA BeginStep ==
    ASSUME IInv, NEW c \in Clients, NEW o \in Ops, NEW k \in Keys, Begin(c, o, k)
    PROVE  IInv'
<1>. USE NoneAssumption, LifetimeAssumption, LockWaitAssumption
<1>1. PICK t \in Timers :
          /\ Unused(t)
          /\ timer' = [timer EXCEPT ![t] = "armed"]
          /\ tkey'  = [tkey EXCEPT ![t] = k]
          /\ left'  = [left EXCEPT ![t] = Lifetime]
          /\ call'  = [call EXCEPT ![c] = [op |-> o, key |-> k, timer |-> t]]
  BY DEF Begin
<1>2. ~Pending(c) /\ UNCHANGED <<data, wait>> BY DEF Begin
<1>3. [op |-> o, key |-> k, timer |-> t] \in Calls BY DEF Calls
<1>4. TypeOK' BY <1>1, <1>2, <1>3 DEF IInv, TypeOK
<1>5. call'[c].timer = t /\ call'[c].key = k /\ call'[c] # None
  BY <1>1, <1>3 DEF IInv, TypeOK, Calls
<1>6. \A d \in Clients \ {c} : call'[d] = call[d] BY <1>1 DEF IInv, TypeOK
<1>7. \A d \in Clients : Pending(d) => call[d] \in Calls /\ call[d].timer \in Timers /\ call[d].timer # t
  BY <1>1 DEF IInv, TypeOK, Calls, Pending, Unused
<1>8. IdleWait' BY <1>2, <1>5, <1>6 DEF IInv, TypeOK, IdleWait, Pending
<1>9. PendingTimer'
  BY <1>1, <1>2, <1>5, <1>6, <1>7 DEF IInv, TypeOK, IdleWait, PendingTimer, Pending
<1>10. PendingAlone'
  BY <1>1, <1>2, <1>5, <1>6, <1>7 DEF IInv, TypeOK, PendingAlone, Pending, Unused
<1>11. EntryWillExpire'
  BY <1>1, <1>2 DEF IInv, TypeOK, EntryWillExpire, Present, Unused
<1>. QED BY <1>4, <1>8, <1>9, <1>10, <1>11 DEF IInv

(* A locked body either stores the timer of the call or leaves the map alone. *)
LEMMA LockedStep ==
    ASSUME IInv, NEW c \in Clients, Pending(c), Return(c),
           Store(c) \/ UNCHANGED <<data, timer>>
    PROVE  IInv'
<1>. USE NoneAssumption, LifetimeAssumption, LockWaitAssumption
<1>. DEFINE k == call[c].key
            t == call[c].timer
<1>1. call[c] \in Calls /\ k \in Keys /\ t \in Timers
  BY DEF IInv, TypeOK, Pending, Calls
<1>2. /\ call' = [call EXCEPT ![c] = None] /\ wait' = [wait EXCEPT ![c] = 0]
      /\ UNCHANGED <<tkey, left>>
  BY DEF Return
<1>3. call'[c] = None /\ \A d \in Clients \ {c} : call'[d] = call[d] /\ wait'[d] = wait[d]
  BY <1>2 DEF IInv, TypeOK
<1>4. \A d \in Clients : Pending(d) => call[d] \in Calls /\ call[d].timer \in Timers
  BY DEF IInv, TypeOK, Calls, Pending
<1>5. IdleWait' BY <1>2, <1>3 DEF IInv, TypeOK, IdleWait, Pending
<1>6. CASE UNCHANGED <<data, timer>>
  <2>1. TypeOK' BY <1>2, <1>6 DEF IInv, TypeOK
  <2>2. PendingTimer' BY <1>2, <1>3, <1>6 DEF IInv, PendingTimer, Pending
  <2>3. PendingAlone' BY <1>3, <1>6 DEF IInv, PendingAlone, Pending
  <2>4. EntryWillExpire' BY <1>2, <1>6 DEF IInv, EntryWillExpire, Present
  <2>. QED BY <1>5, <2>1, <2>2, <2>3, <2>4 DEF IInv
<1>7. CASE Store(c)
  <2>1. data' = [data EXCEPT ![k] = t] /\ timer' = Stop(data[k]) BY <1>7 DEF Store
  <2>2. \A u \in Timers : u # data[k] => timer'[u] = timer[u]
    BY <2>1 DEF Stop
  <2>3. timer' \in [Timers -> {"dead", "armed", "fired"}]
    BY <2>1 DEF IInv, TypeOK, Stop
  <2>4. TypeOK' BY <1>1, <1>2, <2>1, <2>3 DEF IInv, TypeOK
  <2>5. \A d \in Clients : Pending(d) => data[k] # call[d].timer
    BY <1>1 DEF IInv, PendingAlone
  <2>6. PendingTimer'
    BY <1>2, <1>3, <1>4, <2>2, <2>5 DEF IInv, PendingTimer, Pending
  <2>7. \A j \in Keys : data'[j] = IF j = k THEN t ELSE data[j]
    BY <1>1, <2>1 DEF IInv, TypeOK
  <2>8. PendingAlone'
    BY <1>3, <2>7 DEF IInv, PendingAlone, Pending
  <2>9. timer'[t] = "armed" /\ tkey[t] = k
    BY <1>1, <2>2, <2>5 DEF IInv, PendingTimer
  <2>10. \A j \in Keys \ {k} : Present(j) => data[j] # data[k] /\ data[j] \in Timers
    BY <1>1 DEF IInv, TypeOK, EntryWillExpire, Present
  <2>11. EntryWillExpire'
    BY <1>2, <2>2, <2>7, <2>9, <2>10 DEF IInv, EntryWillExpire, Present
  <2>. QED BY <1>5, <2>4, <2>6, <2>8, <2>11 DEF IInv
<1>. QED BY <1>6, <1>7

(* Remove takes an entry and stops that entry's timer, no other one. *)
LEMMA RemoveStep ==
    ASSUME IInv, NEW k \in Keys, Remove(k)
    PROVE  IInv'
<1>. USE NoneAssumption, LifetimeAssumption, LockWaitAssumption
<1>1. /\ timer' = Stop(data[k]) /\ data' = [data EXCEPT ![k] = None]
      /\ UNCHANGED <<tkey, left, call, wait>>
  BY DEF Remove
<1>2. \A u \in Timers : u # data[k] => timer'[u] = timer[u] BY <1>1 DEF Stop
<1>3. timer' \in [Timers -> {"dead", "armed", "fired"}] BY <1>1 DEF IInv, TypeOK, Stop
<1>4. TypeOK' BY <1>1, <1>3 DEF IInv, TypeOK
<1>5. \A d \in Clients : Pending(d) => call[d].timer \in Timers /\ call[d].timer # data[k]
  BY DEF IInv, TypeOK, Calls, Pending, PendingAlone
<1>6. \A j \in Keys : data'[j] = IF j = k THEN None ELSE data[j] BY <1>1 DEF IInv, TypeOK
<1>7. IdleWait' BY <1>1 DEF IInv, IdleWait, Pending
<1>8. PendingTimer' BY <1>1, <1>2, <1>5 DEF IInv, PendingTimer, Pending
<1>9. PendingAlone' BY <1>1, <1>5, <1>6 DEF IInv, PendingAlone, Pending
<1>10. \A j \in Keys \ {k} : Present(j) => data[j] # data[k] /\ data[j] \in Timers
  BY DEF IInv, TypeOK, EntryWillExpire, Present
<1>11. EntryWillExpire' BY <1>1, <1>2, <1>6, <1>10 DEF IInv, EntryWillExpire, Present
<1>. QED BY <1>4, <1>7, <1>8, <1>9, <1>11 DEF IInv

(* The one place where the wait matters: the timer of a write that still waits
   for the lock is not due.                                                    *)
LEMMA FireStep ==
    ASSUME IInv, PromptLock, NEW t \in Timers, Fire(t)
    PROVE  IInv'
<1>. USE NoneAssumption, LifetimeAssumption, LockWaitAssumption
<1>1. /\ timer[t] = "armed" /\ left[t] = 0
      /\ timer' = [timer EXCEPT ![t] = "fired"]
      /\ UNCHANGED <<data, tkey, left, call, wait>>
  BY DEF Fire
<1>2. TypeOK' BY <1>1 DEF IInv, TypeOK
<1>3. \A d \in Clients : Pending(d) => call[d].timer \in Timers /\ call[d].timer # t
  BY <1>1 DEF IInv, TypeOK, Calls, Pending, PendingTimer, PromptLock
<1>4. IdleWait' BY <1>1 DEF IInv, IdleWait, Pending
<1>5. PendingTimer' BY <1>1, <1>3 DEF IInv, TypeOK, PendingTimer, Pending
<1>6. PendingAlone' BY <1>1 DEF IInv, PendingAlone, Pending
<1>7. EntryWillExpire' BY <1>1 DEF IInv, TypeOK, EntryWillExpire, Present
<1>. QED BY <1>2, <1>4, <1>5, <1>6, <1>7 DEF IInv

(* The callback of a timer takes the entry of its key, so no other entry loses
   its timer.                                                                  *)
LEMMA ExpireStep ==
    ASSUME IInv, NEW t \in Timers, Expire(t)
    PROVE  IInv'
<1>. USE NoneAssumption, LifetimeAssumption, LockWaitAssumption
<1>. DEFINE k == tkey[t]
<1>1. /\ timer[t] = "fired"
      /\ timer' = [Stop(data[k]) EXCEPT ![t] = "dead"]
      /\ data' = [data EXCEPT ![k] = None]
      /\ UNCHANGED <<tkey, left, call, wait>>
  BY DEF Expire
<1>2. k \in Keys BY DEF IInv, TypeOK
<1>3. \A u \in Timers : u # data[k] /\ u # t => timer'[u] = timer[u] BY <1>1 DEF Stop
<1>4. timer' \in [Timers -> {"dead", "armed", "fired"}] BY <1>1 DEF IInv, TypeOK, Stop
<1>5. TypeOK' BY <1>1, <1>2, <1>4 DEF IInv, TypeOK
<1>6. \A d \in Clients : Pending(d) =>
          call[d].timer \in Timers /\ call[d].timer # data[k] /\ call[d].timer # t
  BY <1>1, <1>2 DEF IInv, TypeOK, Calls, Pending, PendingAlone, PendingTimer
<1>7. \A j \in Keys : data'[j] = IF j = k THEN None ELSE data[j]
  BY <1>1, <1>2 DEF IInv, TypeOK
<1>8. IdleWait' BY <1>1, SMTT(30) DEF IInv, IdleWait, Pending
<1>9. PendingTimer' BY <1>1, <1>3, <1>6, SMTT(30) DEF IInv, PendingTimer, Pending
<1>10. PendingAlone' BY <1>1, <1>6, <1>7 DEF IInv, PendingAlone, Pending
<1>11. \A j \in Keys \ {k} :
          Present(j) => data[j] # data[k] /\ data[j] # t /\ data[j] \in Timers
  BY <1>2 DEF IInv, TypeOK, EntryWillExpire, Present
<1>12. EntryWillExpire' BY <1>1, <1>3, <1>7, <1>11 DEF IInv, EntryWillExpire, Present
<1>. QED BY <1>5, <1>8, <1>9, <1>10, <1>12 DEF IInv

(* A tick keeps what is left to a pending timer above what its write still has
   to wait at most.                                                            *)
LEMMA TickStep ==
    ASSUME IInv, PromptLock, Tick
    PROVE  IInv'
<1>. USE NoneAssumption, LifetimeAssumption, LockWaitAssumption
<1>1. UNCHANGED <<data, timer, tkey, call>> BY DEF Tick
<1>2. left' \in [Timers -> 0..Lifetime] BY DEF Tick, IInv, TypeOK
<1>3. wait' \in [Clients -> 0..MaxLockWait] BY DEF Tick, IInv, TypeOK
<1>4. TypeOK' BY <1>1, <1>2, <1>3 DEF IInv, TypeOK
<1>5. IdleWait' BY <1>1 DEF Tick, IInv, IdleWait, Pending
<1>6. PendingTimer'
  <2>. SUFFICES ASSUME NEW c \in Clients, Pending(c)
                PROVE  /\ timer[call[c].timer] = "armed"
                       /\ tkey[call[c].timer] = call[c].key
                       /\ left'[call[c].timer] + wait'[c] = Lifetime
    BY <1>1 DEF PendingTimer, Pending
  <2>. DEFINE t == call[c].timer
  <2>1. t \in Timers BY DEF IInv, TypeOK, Calls, Pending
  <2>2. timer[t] = "armed" /\ tkey[t] = call[c].key /\ left[t] + wait[c] = Lifetime
    BY DEF IInv, PendingTimer
  <2>3. wait[c] \in 0..MaxLockWait /\ left[t] \in 0..Lifetime BY <2>1 DEF IInv, TypeOK
  <2>4. left[t] > 0 BY <2>2, <2>3 DEF PromptLock
  <2>5. left'[t] = left[t] - 1 /\ wait'[c] = wait[c] + 1 BY <2>1, <2>2, <2>4 DEF Tick
  <2>. QED BY <2>2, <2>3, <2>5
<1>7. PendingAlone' BY <1>1 DEF IInv, PendingAlone, Pending
<1>8. EntryWillExpire' BY <1>1 DEF IInv, EntryWillExpire, Present
<1>. QED BY <1>4, <1>5, <1>6, <1>7, <1>8 DEF IInv

(* Every step of the cache keeps the inductive invariant. *)
LEMMA NextIInv == IInv /\ PromptLock /\ [Next]_vars => IInv'
<1>. SUFFICES ASSUME IInv, PromptLock, [Next]_vars PROVE IInv' OBVIOUS
<1>1. ASSUME NEW c \in Clients, NEW o \in Ops, NEW k \in Keys, Begin(c, o, k) PROVE IInv'
  BY <1>1, BeginStep
<1>2. ASSUME NEW c \in Clients, Locked(c) PROVE IInv'
  <2>1. Pending(c) /\ Return(c) /\ (Store(c) \/ UNCHANGED <<data, timer>>)
    BY <1>2 DEF Locked, Add, Update, AddOrUpdate, LockedModify
  <2>. QED BY <2>1, LockedStep
<1>3. ASSUME NEW k \in Keys, Remove(k) PROVE IInv' BY <1>3, RemoveStep
<1>4. ASSUME NEW t \in Timers, Fire(t) PROVE IInv' BY <1>4, FireStep
<1>5. ASSUME NEW t \in Timers, Expire(t) PROVE IInv' BY <1>5, ExpireStep
<1>6. CASE Tick BY <1>6, TickStep
<1>7. CASE UNCHANGED vars
  BY <1>7 DEF vars, IInv, TypeOK, IdleWait, PendingTimer, PendingAlone, EntryWillExpire,
              Pending, Present
<1>. QED BY <1>1, <1>2, <1>3, <1>4, <1>5, <1>6, <1>7 DEF Next, Locked

(* When no wait for the lock lasts as long as a lifetime, every entry of the
   cache is covered by a timer that will remove it, whatever the operations,
   their failures and their interleaving (cache.go:65-227).                    *)
THEOREM EntriesAlwaysExpire == PromptLock /\ Spec => []EntryWillExpire
<1>. SUFFICES ASSUME PromptLock PROVE Spec => []EntryWillExpire OBVIOUS
<1>1. Init => IInv BY InitIInv
<1>2. IInv /\ [Next]_vars => IInv' BY NextIInv
<1>3. IInv => EntryWillExpire BY DEF IInv
<1>. QED BY <1>1, <1>2, <1>3, PTL DEF Spec

(* The state keeps its type, however long the waits; in particular no timer runs
   below zero and a call always refers to a timer (cache.go:65-227).           *)
THEOREM TypeCorrect == Spec => []TypeOK
<1>. USE NoneAssumption, LifetimeAssumption, LockWaitAssumption
<1>1. Init => TypeOK BY DEF Init, TypeOK
<1>2. TypeOK /\ [Next]_vars => TypeOK'
  <2>. SUFFICES ASSUME TypeOK, [Next]_vars PROVE TypeOK' OBVIOUS
  <2>1. ASSUME NEW c \in Clients, NEW o \in Ops, NEW k \in Keys, Begin(c, o, k) PROVE TypeOK'
    <3>1. \A t \in Timers : [op |-> o, key |-> k, timer |-> t] \in Calls BY DEF Calls
    <3>. QED BY <2>1, <3>1 DEF Begin, TypeOK
  <2>2. ASSUME NEW c \in Clients, Locked(c) PROVE TypeOK'
    <3>1. Pending(c) /\ Return(c) /\ (Store(c) \/ UNCHANGED <<data, timer>>)
      BY <2>2 DEF Locked, Add, Update, AddOrUpdate, LockedModify
    <3>2. call[c].timer \in Timers BY <3>1 DEF TypeOK, Pending, Calls
    <3>3. call' \in [Clients -> Calls \cup {None}] /\ wait' \in [Clients -> 0..MaxLockWait]
      BY <3>1 DEF Return, TypeOK
    <3>4. data' \in [Keys -> Timers \cup {None}] BY <3>1, <3>2 DEF Store, TypeOK
    <3>5. timer' \in [Timers -> {"dead", "armed", "fired"}] BY <3>1 DEF Store, Stop, TypeOK
    <3>. QED BY <3>1, <3>3, <3>4, <3>5 DEF Return, TypeOK
  <2>3. ASSUME NEW k \in Keys, Remove(k) PROVE TypeOK' BY <2>3 DEF Remove, Stop, TypeOK
  <2>4. ASSUME NEW t \in Timers, Fire(t) PROVE TypeOK' BY <2>4 DEF Fire, TypeOK
  <2>5. ASSUME NEW t \in Timers, Expire(t) PROVE TypeOK' BY <2>5 DEF Expire, Stop, TypeOK
  <2>6. CASE Tick
    <3>1. left' \in [Timers -> 0..Lifetime] BY <2>6 DEF Tick, TypeOK
    <3>2. wait' \in [Clients -> 0..MaxLockWait] BY <2>6 DEF Tick, TypeOK
    <3>. QED BY <2>6, <3>1, <3>2 DEF Tick, TypeOK
  <2>7. CASE UNCHANGED vars BY <2>7 DEF vars, TypeOK
  <2>. QED BY <2>1, <2>2, <2>3, <2>4, <2>5, <2>6, <2>7 DEF Next, Locked
<1>. QED BY <1>1, <1>2, PTL DEF Spec

-----------------------------------------------------------------------------
(* The connection trackers and port caches of the datapath write with
   AddOrUpdate only, which always stores the timer it armed.                  *)
AddOrUpdateOnly == Ops \subseteq {"AddOrUpdate"}

(* Every step keeps NoStrayTimer when AddOrUpdate is the only writer. *)
LEMMA NextNoStray ==
    ASSUME IInv, AddOrUpdateOnly, NoStrayTimer, [Next]_vars
    PROVE  NoStrayTimer'
<1>. USE NoneAssumption, LifetimeAssumption DEF IInv
<1>. SUFFICES ASSUME NEW u \in Timers, timer'[u] = "armed"
              PROVE  \/ data'[tkey'[u]] = u
                     \/ \E d \in Clients : call'[d] # None /\ call'[d].timer = u
  BY DEF NoStrayTimer, Pending
<1>0. timer[u] = "armed" => \/ data[tkey[u]] = u
                            \/ \E d \in Clients : call[d] # None /\ call[d].timer = u
  BY DEF NoStrayTimer, Pending
<1>1. ASSUME NEW c \in Clients, NEW o \in Ops, NEW k \in Keys, Begin(c, o, k)
      PROVE  \/ data'[tkey'[u]] = u
             \/ \E d \in Clients : call'[d] # None /\ call'[d].timer = u
  <2>1. PICK t \in Timers :
            /\ timer' = [timer EXCEPT ![t] = "armed"]
            /\ tkey'  = [tkey EXCEPT ![t] = k]
            /\ call'  = [call EXCEPT ![c] = [op |-> o, key |-> k, timer |-> t]]
    BY <1>1 DEF Begin
  <2>2. data' = data /\ call[c] = None BY <1>1 DEF Begin, Pending
  <2>3. [op |-> o, key |-> k, timer |-> t] \in Calls BY DEF Calls
  <2>4. call'[c] # None /\ call'[c].timer = t BY <2>1, <2>3 DEF TypeOK, Calls
  <2>5. CASE u = t BY <2>4, <2>5
  <2>6. CASE u # t
    <3>1. timer[u] = "armed" /\ tkey'[u] = tkey[u] BY <2>1, <2>6 DEF TypeOK
    <3>2. \A d \in Clients : call[d] # None => call'[d] = call[d] BY <2>1, <2>2 DEF TypeOK
    <3>. QED BY <1>0, <2>2, <3>1, <3>2
  <2>. QED BY <2>5, <2>6
<1>2. ASSUME NEW c \in Clients, Locked(c)
      PROVE  \/ data'[tkey'[u]] = u
             \/ \E d \in Clients : call'[d] # None /\ call'[d].timer = u
  <2>1. call[c] \in Calls /\ call[c] # None
    BY <1>2 DEF Locked, Add, Update, AddOrUpdate, LockedModify, Pending, TypeOK
  <2>2. call[c].op = "AddOrUpdate" BY <2>1, OpsAssumption DEF Calls, AddOrUpdateOnly
  <2>3. Store(c) /\ Return(c) BY <1>2, <2>2 DEF Locked, Add, Update, AddOrUpdate, LockedModify
  <2>. DEFINE k == call[c].key
              t == call[c].timer
  <2>4. k \in Keys /\ t \in Timers /\ tkey[t] = k
    BY <2>1 DEF Calls, PendingTimer, Pending
  <2>5. data' = [data EXCEPT ![k] = t] /\ timer' = Stop(data[k]) /\ tkey' = tkey
        /\ call' = [call EXCEPT ![c] = None]
    BY <2>3 DEF Store, Return
  <2>6. timer[u] = "armed" /\ u # data[k] BY <2>5 DEF Stop
  <2>7. \A j \in Keys : data'[j] = IF j = k THEN t ELSE data[j] BY <2>4, <2>5 DEF TypeOK
  <2>8. tkey[u] \in Keys BY DEF TypeOK
  <2>9. CASE data[tkey[u]] = u BY <2>5, <2>6, <2>7, <2>8, <2>9
  <2>10. ASSUME NEW d \in Clients, call[d] # None, call[d].timer = u
         PROVE  \/ data'[tkey'[u]] = u
                \/ \E e \in Clients : call'[e] # None /\ call'[e].timer = u
    <3>1. CASE d = c BY <2>4, <2>5, <2>7, <2>10, <3>1
    <3>2. CASE d # c
      <4>1. call'[d] = call[d] BY <2>5, <3>2 DEF TypeOK
      <4>. QED BY <2>10, <4>1
    <3>. QED BY <3>1, <3>2
  <2>. QED BY <1>0, <2>6, <2>9, <2>10
<1>3. ASSUME NEW k \in Keys, Remove(k)
      PROVE  \/ data'[tkey'[u]] = u
             \/ \E d \in Clients : call'[d] # None /\ call'[d].timer = u
  <2>1. /\ data' = [data EXCEPT ![k] = None] /\ timer' = Stop(data[k])
        /\ tkey' = tkey /\ call' = call
    BY <1>3 DEF Remove
  <2>2. timer[u] = "armed" /\ u # data[k] BY <2>1 DEF Stop
  <2>3. tkey[u] \in Keys BY DEF TypeOK
  <2>4. data[tkey[u]] = u => data'[tkey[u]] = u BY <2>1, <2>2, <2>3 DEF TypeOK
  <2>. QED BY <1>0, <2>1, <2>2, <2>4
<1>4. ASSUME NEW t \in Timers, Fire(t)
      PROVE  \/ data'[tkey'[u]] = u
             \/ \E d \in Clients : call'[d] # None /\ call'[d].timer = u
  <2>1. timer[u] = "armed" /\ data' = data /\ tkey' = tkey /\ call' = call
    BY <1>4, SMTT(30) DEF Fire, TypeOK
  <2>. QED BY <1>0, <2>1
<1>5. ASSUME NEW t \in Timers, Expire(t)
      PROVE  \/ data'[tkey'[u]] = u
             \/ \E d \in Clients : call'[d] # None /\ call'[d].timer = u
  <2>1. /\ data' = [data EXCEPT ![tkey[t]] = None]
        /\ timer' = [Stop(data[tkey[t]]) EXCEPT ![t] = "dead"]
        /\ tkey' = tkey /\ call' = call
    BY <1>5 DEF Expire
  <2>2. timer[u] = "armed" /\ u # data[tkey[t]] BY <2>1 DEF Stop
  <2>3. tkey[u] \in Keys BY DEF TypeOK
  <2>4. data[tkey[u]] = u => data'[tkey[u]] = u BY <2>1, <2>2, <2>3 DEF TypeOK
  <2>. QED BY <1>0, <2>1, <2>2, <2>4, SMTT(30)
<1>6. CASE Tick \/ UNCHANGED vars
  <2>1. timer' = timer /\ data' = data /\ tkey' = tkey /\ call' = call BY <1>6 DEF Tick, vars
  <2>. QED BY <1>0, <2>1
<1>. QED BY <1>1, <1>2, <1>3, <1>4, <1>5, <1>6 DEF Next, Locked

(* In the datapath's trackers no timer outlives the write that armed it: a
   running timer belongs to the entry it will remove, or to a write that is
   about to store it (cache.go:123-148).                                      *)
THEOREM TrackersHaveNoStrayTimer == PromptLock /\ AddOrUpdateOnly /\ Spec => []NoStrayTimer
<1>. SUFFICES ASSUME PromptLock, AddOrUpdateOnly PROVE Spec => []NoStrayTimer OBVIOUS
<1>1. Init => IInv /\ NoStrayTimer BY InitIInv DEF Init, NoStrayTimer
<1>2. IInv /\ NoStrayTimer /\ [Next]_vars => IInv' /\ NoStrayTimer' BY NextIInv, NextNoStray
<1>. QED BY <1>1, <1>2, PTL DEF Spec
=============================================================================
