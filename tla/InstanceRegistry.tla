--------------------------- MODULE InstanceRegistry ----------------------------
(***************************************************************************)
(* The registry of the C interface: threads create, use and destroy        *)
(* instances by number (the constructor and destructor of                  *)
(* src/src/IPhreeqc.cpp, CreateIPhreeqc, DestroyIPhreeqc and GetInstance    *)
(* of src/src/IPhreeqcLib.cpp, the mutex map_lock of src/src/thread.h).     *)
(*                                                                         *)
(* map_lock covers every access to the map Instances and to the counter    *)
(* InstancesIndex, and nothing else: an instance is built before it is     *)
(* registered, taken apart before it is unregistered, and used after the   *)
(* lookup has given the lock back.  An address that was freed may be       *)
(* allocated again.                                                        *)
(*                                                                         *)
(* What the interface needs of its callers: they call with numbers that    *)
(* CreateIPhreeqc has returned, and with one that is alive from a single   *)
(* thread at a time.  Every other function of the interface has the form   *)
(* of Use: a lookup, and a member function if there is an instance.        *)
(***************************************************************************)
EXTENDS Integers

CONSTANTS
  Threads,
  Addresses,    \* the places an instance can be allocated at
  MaxInstances, \* a bound: how often an instance is built
  Null          \* no instance, no number, no thread

ASSUME RegistryAssumption ==
  /\ MaxInstances \in Nat
  /\ Null \notin Threads \cup Addresses \cup Nat

VARIABLES
  Instances,      \* the registry, a function from numbers to addresses
  InstancesIndex, \* the next number
  map_lock,       \* the thread that holds the lock
  heap,           \* the addresses in use
  Index,          \* the number of the instance at each address
  pc,             \* where each thread is
  id,             \* the number a thread has called with or is creating
  instance,       \* the instance a thread holds a pointer to
  born,           \* history: the address of every instance whose number was returned
  dead,           \* history: the numbers whose destruction has returned
  built,          \* how often an instance was built, up to MaxInstances
  failed          \* history: has an allocation failed in a constructor?

registryVars == <<Instances, InstancesIndex>>
clientVars   == <<born, dead, built, failed>>
vars == <<registryVars, map_lock, heap, Index, pc, id, instance, clientVars>>

\* The places of a thread between taking the lock and giving it back
Inside == {"count", "insert", "unlock_create", "find_use", "unlock_use",
           "find_destroy", "unlock_destroy", "erase", "unlock_erase"}

Pcs == Inside \cup {"idle", "lock_create", "publish", "lock_use", "use",
                    "lock_destroy", "destroy", "lock_erase", "free"}

\* Where a thread goes on when it has taken the lock, or given it back
AfterLock   == [lock_create |-> "count", lock_use |-> "find_use",
                lock_destroy |-> "find_destroy", lock_erase |-> "erase"]
AfterUnlock == [unlock_create |-> "publish", unlock_use |-> "use",
                unlock_destroy |-> "destroy", unlock_erase |-> "free"]

TypeOK ==
  /\ InstancesIndex \in Nat
  /\ Instances \in [DOMAIN Instances -> Addresses]
  /\ DOMAIN Instances \subseteq 0..(InstancesIndex - 1)
  /\ map_lock \in Threads \cup {Null}
  /\ heap \subseteq Addresses
  /\ Index \in [Addresses -> Nat \cup {Null}]
  /\ pc \in [Threads -> Pcs]
  /\ id \in [Threads -> Nat \cup {Null}]
  /\ instance \in [Threads -> Addresses \cup {Null}]
  /\ born \in [DOMAIN born -> Addresses]
  /\ DOMAIN born \subseteq 0..(InstancesIndex - 1)
  /\ dead \subseteq DOMAIN born
  /\ built \in 0..MaxInstances
  /\ failed \in BOOLEAN

\* f with the argument x as well, or without it
With(f, x, y) == [z \in DOMAIN f \cup {x} |-> IF z = x THEN y ELSE f[z]]
Without(f, x) == [z \in DOMAIN f \ {x} |-> f[z]]

Goto(t, place) == pc' = [pc EXCEPT ![t] = place]

\* A call of the interface returns.
Return(t) ==
  /\ Goto(t, "idle")
  /\ id' = [id EXCEPT ![t] = Null]
  /\ instance' = [instance EXCEPT ![t] = Null]

--------------------------------------------------------------------------------
(* The lock *)

Lock(t) ==
  /\ pc[t] \in DOMAIN AfterLock
  /\ map_lock = Null
  /\ map_lock' = t
  /\ Goto(t, AfterLock[pc[t]])
  /\ UNCHANGED <<registryVars, heap, Index, id, instance, clientVars>>

Unlock(t) ==
  /\ pc[t] \in DOMAIN AfterUnlock
  /\ map_lock' = Null
  /\ Goto(t, AfterUnlock[pc[t]])
  /\ UNCHANGED <<registryVars, heap, Index, id, instance, clientVars>>

--------------------------------------------------------------------------------
(* CreateIPhreeqc *)

\* The instance is allocated and built; it is not registered yet.
Construct(t) ==
  /\ pc[t] = "idle" /\ built < MaxInstances
  /\ \E a \in Addresses \ heap :
       /\ heap' = heap \cup {a}
       /\ instance' = [instance EXCEPT ![t] = a]
  /\ built' = built + 1
  /\ Goto(t, "lock_create")
  /\ UNCHANGED <<registryVars, map_lock, Index, id, born, dead, failed>>

\* this->Index = InstancesIndex++ reads the counter ...
Count(t) ==
  /\ pc[t] = "count"
  /\ Index' = [Index EXCEPT ![instance[t]] = InstancesIndex]
  /\ id' = [id EXCEPT ![t] = InstancesIndex]
  /\ Goto(t, "insert")
  /\ UNCHANGED <<registryVars, map_lock, heap, instance, clientVars>>

\* Mutant: the counter stays.
Insert_KeepsCount(t) ==
  /\ pc[t] = "insert"
  /\ Instances' = IF id[t] \in DOMAIN Instances THEN Instances
                  ELSE With(Instances, id[t], instance[t])
  /\ Goto(t, "unlock_create")
  /\ UNCHANGED <<InstancesIndex, map_lock, heap, Index, id, instance, clientVars>>

\* ... writes it, and the instance is registered under its number, unless the
\* number is taken.
Insert(t) ==
  /\ pc[t] = "insert"
  /\ InstancesIndex' = id[t] + 1
  /\ Instances' = IF id[t] \in DOMAIN Instances THEN Instances
                  ELSE With(Instances, id[t], instance[t])
  /\ Goto(t, "unlock_create")
  /\ UNCHANGED <<map_lock, heap, Index, id, instance, clientVars>>

\* The file names are set, and CreateIPhreeqc returns the number.
Publish(t) ==
  /\ pc[t] = "publish"
  /\ born' = With(born, id[t], instance[t])
  /\ Return(t)
  /\ UNCHANGED <<registryVars, map_lock, heap, Index, dead, built, failed>>

\* An allocation fails: the constructor is left, the memory given back, and
\* CreateIPhreeqc returns IPQ_OUTOFMEMORY, but no one gives the lock back if the
\* insertion failed, or takes the number out of the registry after it.
OutOfMemory(t) ==
  /\ \/ pc[t] = "insert" /\ InstancesIndex' = id[t] + 1
     \/ pc[t] = "publish" /\ UNCHANGED InstancesIndex
  /\ heap' = heap \ {instance[t]}
  /\ failed' = TRUE
  /\ Return(t)
  /\ UNCHANGED <<Instances, map_lock, Index, born, dead, built>>

--------------------------------------------------------------------------------
(* The functions that take a number *)

\* One thread at a time uses a number, until it is dead.
MayCall(t, n) ==
  /\ pc[t] = "idle"
  /\ n \in dead \/ \A u \in Threads : id[u] # n

Call(t, place) ==
  \E n \in DOMAIN born :
    /\ MayCall(t, n)
    /\ id' = [id EXCEPT ![t] = n]
    /\ Goto(t, place)
    /\ UNCHANGED <<registryVars, map_lock, heap, Index, instance, clientVars>>

\* GetInstance
Find(t) ==
  /\ \/ pc[t] = "find_use" /\ Goto(t, "unlock_use")
     \/ pc[t] = "find_destroy" /\ Goto(t, "unlock_destroy")
  /\ instance' = [instance EXCEPT ![t] =
                    IF id[t] \in DOMAIN Instances THEN Instances[id[t]] ELSE Null]
  /\ UNCHANGED <<registryVars, map_lock, heap, Index, id, clientVars>>

\* The member function runs, or there is none to run: IPQ_BADINSTANCE.
Use(t) ==
  /\ pc[t] = "use"
  /\ Return(t)
  /\ UNCHANGED <<registryVars, map_lock, heap, Index, clientVars>>

\* Mutant: the destructor leaves the registry alone.
Destroy_StaysRegistered(t) ==
  /\ pc[t] = "destroy"
  /\ \/ instance[t] # Null /\ Goto(t, "free") /\ UNCHANGED <<id, instance>>
     \/ instance[t] = Null /\ Return(t)
  /\ UNCHANGED <<registryVars, map_lock, heap, Index, clientVars>>

\* DestroyIPhreeqc takes the instance apart, or returns IPQ_BADINSTANCE.
Destroy(t) ==
  /\ pc[t] = "destroy"
  /\ \/ instance[t] # Null /\ Goto(t, "lock_erase") /\ UNCHANGED <<id, instance>>
     \/ instance[t] = Null /\ Return(t)
  /\ UNCHANGED <<registryVars, map_lock, heap, Index, clientVars>>

Erase(t) ==
  /\ pc[t] = "erase"
  /\ Instances' = Without(Instances, Index[instance[t]])
  /\ Goto(t, "unlock_erase")
  /\ UNCHANGED <<InstancesIndex, map_lock, heap, Index, id, instance, clientVars>>

\* Mutant: the memory is not given back.
Free_Leaks(t) ==
  /\ pc[t] = "free"
  /\ dead' = dead \cup {id[t]}
  /\ Return(t)
  /\ UNCHANGED <<registryVars, map_lock, heap, Index, born, built, failed>>

Free(t) ==
  /\ pc[t] = "free"
  /\ heap' = heap \ {instance[t]}
  /\ dead' = dead \cup {id[t]}
  /\ Return(t)
  /\ UNCHANGED <<registryVars, map_lock, Index, born, built, failed>>

--------------------------------------------------------------------------------
(* The specification *)

Init ==
  /\ Instances = [n \in {} |-> Null] /\ InstancesIndex = 0
  /\ map_lock = Null
  /\ heap = {} /\ Index = [a \in Addresses |-> Null]
  /\ pc = [t \in Threads |-> "idle"]
  /\ id = [t \in Threads |-> Null] /\ instance = [t \in Threads |-> Null]
  /\ born = [n \in {} |-> Null] /\ dead = {}
  /\ built = 0 /\ failed = FALSE

Next ==
  \E t \in Threads :
    \/ Lock(t) \/ Unlock(t)
    \/ Construct(t) \/ Count(t) \/ Insert(t) \/ Publish(t) \/ OutOfMemory(t)
    \/ Call(t, "lock_use") \/ Call(t, "lock_destroy") \/ Find(t)
    \/ Use(t) \/ Destroy(t) \/ Erase(t) \/ Free(t)

Spec == Init /\ [][Next]_vars

--------------------------------------------------------------------------------
(* Properties *)

\* The map and the counter are touched by one thread at a time, the one that
\* holds map_lock.
OneInside == \A t \in Threads : pc[t] \in Inside => map_lock = t

\* A call reaches the instance its number was returned for, which no thread is
\* taking apart, or none if that one was destroyed (IPhreeqcLib.cpp:1078), even
\* if another instance has been built at its address.
CallsReachTheirInstance ==
  \A t \in Threads :
    pc[t] \in {"unlock_use", "use", "unlock_destroy", "destroy"} =>
      IF id[t] \in dead THEN instance[t] = Null
      ELSE /\ instance[t] = born[id[t]]
           /\ instance[t] \in heap
           /\ Index[instance[t]] = id[t]
           /\ \A u \in Threads \ {t} : instance[u] # instance[t]

\* CreateIPhreeqc never returns a number twice, dead or alive.
NumbersAreNew ==
  \A t \in Threads :
    pc[t] \in {"insert", "unlock_create", "publish"} =>
      /\ id[t] \notin DOMAIN born
      /\ \A u \in Threads \ {t} : id[u] # id[t]

\* As long as no allocation fails, what is registered is on the heap under its
\* number, the lock is held only inside, and when nothing is under way the
\* registry and the heap hold the living and nothing else.
RegistryExact ==
  ~failed =>
    /\ \A n \in DOMAIN Instances : Instances[n] \in heap /\ Index[Instances[n]] = n
    /\ \A t \in Threads : map_lock = t => pc[t] \in Inside
    /\ (\A t \in Threads : pc[t] = "idle") =>
         /\ DOMAIN Instances = DOMAIN born \ dead
         /\ heap = {born[n] : n \in DOMAIN born \ dead}

================================================================================
