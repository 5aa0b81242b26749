------------------------------- MODULE Cache -------------------------------
(* The shared data cache of cache/cache.go with an expiration time: a map
   under one mutex, and one time.AfterFunc timer for every write.

   Every writer arms its timer BEFORE it takes the lock, so a write has two
   steps: Begin (arm the timer, ask for the lock) and the body under the lock.
   A timer that has fired runs Remove(u) on a goroutine of its own, which also
   waits for the lock; timer.Stop() no longer affects it.  Fire and Expire are
   those two steps.

   Time is the number of ticks left before a timer is due.  A due timer may
   fire late.  Values are left out: no operation of the cache looks at them.  *)
EXTENDS Integers, FiniteSets

CONSTANTS
    Keys,         \* what the cache is indexed by
    Clients,      \* goroutines that call the cache
    Ops,          \* the writing operations these clients call
    Timers,       \* identities of *time.Timer objects (a bound)
    Lifetime,     \* c.lifetime, in ticks
    MaxLockWait,  \* longest wait for the mutex, in ticks
    None          \* no entry, no call

AllOps == {"Add", "Update", "AddOrUpdate", "LockedModify"}

ASSUME OpsAssumption      == Ops \subseteq AllOps
ASSUME LifetimeAssumption == Lifetime \in Nat \ {0}
ASSUME LockWaitAssumption == MaxLockWait \in Nat
ASSUME NoneAssumption     == None \notin Timers /\ None \notin [op : Ops, key : Keys, timer : Timers]

VARIABLES
    data,    \* data[k]: the timer of the entry stored under k, or None
    timer,   \* timer[t]: "dead", "armed", or "fired" (its goroutine waits for the lock)
    tkey,    \* tkey[t]: the key its callback removes
    left,    \* left[t]: ticks before it is due
    call,    \* call[c]: the write in progress at client c, or None
    wait     \* wait[c]: ticks client c has waited for the lock

vars == <<data, timer, tkey, left, call, wait>>

Calls == [op : Ops, key : Keys, timer : Timers]

TypeOK ==
    /\ data  \in [Keys -> Timers \cup {None}]
    /\ timer \in [Timers -> {"dead", "armed", "fired"}]
    /\ tkey  \in [Timers -> Keys]
    /\ left  \in [Timers -> 0..Lifetime]
    /\ call  \in [Clients -> Calls \cup {None}]
    /\ wait  \in [Clients -> 0..MaxLockWait]

Present(k) == data[k] # None
Pending(c) == call[c] # None

(* A *time.Timer nobody refers to any more: its identity can be used again. *)
Unused(t) ==
    /\ timer[t] = "dead"
    /\ \A k \in Keys : data[k] # t
    /\ \A c \in Clients : Pending(c) => call[c].timer # t

(* timer.Stop() on the timer u: it cancels an armed timer and does nothing to
   one that has fired.  u may be None (the key has no entry).                 *)
Stop(u) ==
    [t \in Timers |-> IF t = u /\ timer[t] = "armed" THEN "dead" ELSE timer[t]]

Init ==
    /\ data  = [k \in Keys |-> None]
    /\ timer = [t \in Timers |-> "dead"]
    /\ tkey  \in [Timers -> Keys]
    /\ left  = [t \in Timers |-> 0]
    /\ call  = [c \in Clients |-> None]
    /\ wait  = [c \in Clients |-> 0]

-----------------------------------------------------------------------------
(* The part of Add, Update, AddOrUpdate and LockedModify before c.Lock().     *)
Begin(c, o, k) ==
    /\ ~Pending(c)
    /\ \E t \in Timers :
          /\ Unused(t)
          /\ timer' = [timer EXCEPT ![t] = "armed"]
          /\ tkey'  = [tkey EXCEPT ![t] = k]
          /\ left'  = [left EXCEPT ![t] = Lifetime]
          /\ call'  = [call EXCEPT ![c] = [op |-> o, key |-> k, timer |-> t]]
    /\ UNCHANGED <<data, wait>>

(* Unlock and return to the caller. *)
Return(c) ==
    /\ call' = [call EXCEPT ![c] = None]
    /\ wait' = [wait EXCEPT ![c] = 0]
    /\ UNCHANGED <<tkey, left>>

(* A slip in Store: the new timer is stopped instead of the old one. *)
StoreStopsNew(c) ==
    /\ data'  = [data EXCEPT ![call[c].key] = call[c].timer]
    /\ timer' = Stop(call[c].timer)

(* The entry of the call's key is replaced by one with the call's timer. *)
Store(c) ==
    /\ data'  = [data EXCEPT ![call[c].key] = call[c].timer]
    /\ timer' = Stop(data[call[c].key])

(* The locked bodies.  A call that fails changes nothing in the map; the timer
   it armed keeps running.                                                     *)
Add(c) ==
    /\ Pending(c) /\ call[c].op = "Add"
    /\ IF Present(call[c].key) THEN UNCHANGED <<data, timer>> ELSE Store(c)
    /\ Return(c)

Update(c) ==
    /\ Pending(c) /\ call[c].op = "Update"
    /\ IF Present(call[c].key) THEN Store(c) ELSE UNCHANGED <<data, timer>>
    /\ Return(c)

AddOrUpdate(c) ==
    /\ Pending(c) /\ call[c].op = "AddOrUpdate"
    /\ Store(c)
    /\ Return(c)

LockedModify(c) ==
    /\ Pending(c) /\ call[c].op = "LockedModify"
    /\ IF Present(call[c].key) THEN Store(c) ELSE UNCHANGED <<data, timer>>
    /\ Return(c)

(* Remove(u) by a client: an error when u is absent; otherwise the entry's
   timer is stopped and the entry deleted.                                     *)
Remove(k) ==
    /\ Present(k)
    /\ timer' = Stop(data[k])
    /\ data'  = [data EXCEPT ![k] = None]
    /\ UNCHANGED <<tkey, left, call, wait>>

(* The runtime starts the callback of a due timer. *)
Fire(t) ==
    /\ timer[t] = "armed" /\ left[t] = 0
    /\ timer' = [timer EXCEPT ![t] = "fired"]
    /\ UNCHANGED <<data, tkey, left, call, wait>>

(* The callback gets the lock: Remove(u) for whatever entry u has now. *)
Expire(t) ==
    /\ timer[t] = "fired"
    /\ timer' = [Stop(data[tkey[t]]) EXCEPT ![t] = "dead"]
    /\ data'  = [data EXCEPT ![tkey[t]] = None]
    /\ UNCHANGED <<tkey, left, call, wait>>

Tick ==
    /\ \A c \in Clients : Pending(c) => wait[c] < MaxLockWait
    /\ left' = [t \in Timers |-> IF timer[t] = "armed" /\ left[t] > 0
                                 THEN left[t] - 1 ELSE left[t]]
    /\ wait' = [c \in Clients |-> IF Pending(c) THEN wait[c] + 1 ELSE 0]
    /\ UNCHANGED <<data, timer, tkey, call>>

Locked(c) == Add(c) \/ Update(c) \/ AddOrUpdate(c) \/ LockedModify(c)

Next ==
    \/ \E c \in Clients, o \in Ops, k \in Keys : Begin(c, o, k)
    \/ \E c \in Clients : Add(c)
    \/ \E c \in Clients : Update(c)
    \/ \E c \in Clients : AddOrUpdate(c)
    \/ \E c \in Clients : LockedModify(c)
    \/ \E k \in Keys : Remove(k)
    \/ \E t \in Timers : Fire(t)
    \/ \E t \in Timers : Expire(t)
    \/ Tick

Spec == Init /\ [][Next]_vars

(* Go's mutex is starvation free, time passes, and the runtime runs the
   callback of a due timer.                                                  *)
Fairness ==
    /\ WF_vars(Tick)
    /\ \A c \in Clients : WF_vars(Locked(c))
    /\ \A t \in Timers : WF_vars(Fire(t)) /\ WF_vars(Expire(t))

FairSpec == Spec /\ Fairness

-----------------------------------------------------------------------------
(* PROPERTIES *)

(* Every stored entry is covered by a timer of its own key that will still
   remove it.  The timer is armed before the lock is taken (cache.go:69, 95,
   127, 202): if the wait for the lock outlasts the lifetime, the timer is gone
   when the entry is stored, and the entry never expires.                     *)
EntryWillExpire ==
    \A k \in Keys : Present(k) =>
        timer[data[k]] \in {"armed", "fired"} /\ tkey[data[k]] = k

(* The only timers still running are those of stored entries and of writes
   that wait for the lock.  This is what makes the timestamp of an entry the
   moment that decides its removal, and it depends on every writer storing its
   timer: AddOrUpdate does, a failing Add, Update or LockedModify does not.    *)
NoStrayTimer ==
    \A t \in Timers : timer[t] = "armed" =>
        \/ data[tkey[t]] = t
        \/ \E c \in Clients : Pending(c) /\ call[c].timer = t

(* An entry leaves the cache by expiry only when its own lifetime has passed:
   an update restarts the lifetime ("when I wait for a another second, the
   items should still exist", cache_test.go:122).                             *)
NoEarlyExpiry ==
    [][\A t \in Timers :
          (timer[t] = "fired" /\ timer'[t] = "dead" /\ Present(tkey[t]))
             => left[data[tkey[t]]] = 0]_vars

(* Every entry is eventually removed, or replaced by a later write. *)
EntriesLeave ==
    \A k \in Keys, t \in Timers : (data[k] = t) ~> (data[k] # t)

(* The wait for the mutex is shorter than the lifetime of an entry. *)
PromptLock == MaxLockWait < Lifetime
=============================================================================
