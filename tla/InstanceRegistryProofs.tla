------------------------ MODULE InstanceRegistryProofs -------------------------
(* The invariants of InstanceRegistry hold for every set of threads and        *)
(* addresses and any number of instances.                                      *)
EXTENDS InstanceRegistry, TLAPS

--------------------------------------------------------------------------------
(* The inductive invariant *)

\* The places of a thread that creates, looks up, has looked up or destroys
Creating == {"insert", "unlock_create", "publish"}
Looking  == {"lock_use", "find_use", "lock_destroy", "find_destroy"}
Found    == {"unlock_use", "use", "unlock_destroy", "destroy"}
Erasing  == {"lock_erase", "erase", "unlock_erase", "free"}

Living == DOMAIN born \ dead

\* What a thread holds at each place.
Held(t) ==
  /\ pc[t] = "idle" => id[t] = Null /\ instance[t] = Null
  /\ pc[t] \in {"lock_create", "count"} => id[t] = Null /\ instance[t] \in heap
  /\ pc[t] \in Creating =>
       /\ id[t] \in Nat /\ id[t] \notin DOMAIN born
       /\ instance[t] \in heap /\ Index[instance[t]] = id[t]
  /\ pc[t] = "insert" => id[t] = InstancesIndex
  /\ pc[t] \in {"unlock_create", "publish"} =>
       /\ id[t] < InstancesIndex
       /\ id[t] \in DOMAIN Instances /\ Instances[id[t]] = instance[t]
  /\ pc[t] \in Looking \cup Found => id[t] \in DOMAIN born
  /\ pc[t] \in Looking => instance[t] = Null
  /\ pc[t] \in Found =>
       instance[t] = IF id[t] \in dead THEN Null ELSE born[id[t]]
  /\ pc[t] \in Erasing => id[t] \in Living /\ instance[t] = born[id[t]]
  /\ pc[t] \in {"unlock_erase", "free"} => id[t] \notin DOMAIN Instances

\* No two threads hold the same instance, or the same number unless it is dead.
Apart ==
  \A t, u \in Threads : t # u =>
    /\ instance[t] # Null => instance[t] # instance[u]
    /\ id[t] # Null /\ id[t] \notin dead => id[t] # id[u]

\* An instance that lives is on the heap under its number and registered, until
\* its destructor has erased it; a thread that points to it has its number.
LivingWell ==
  \A n \in Living :
    /\ born[n] \in heap /\ Index[born[n]] = n
    /\ \A t \in Threads : instance[t] = born[n] => id[t] = n
    /\ \/ n \in DOMAIN Instances /\ Instances[n] = born[n]
       \/ \E t \in Threads : id[t] = n /\ pc[t] \in {"unlock_erase", "free"}

DeadGone == dead \cap DOMAIN Instances = {}

\* As long as no allocation fails, nothing else is on the heap or registered.
NothingElse ==
  ~failed =>
    /\ \A t \in Threads : map_lock = t => pc[t] \in Inside
    /\ \A a \in heap : \/ \E n \in Living : a = born[n]
                       \/ \E t \in Threads : /\ a = instance[t]
                                            /\ pc[t] \in Creating \cup {"lock_create", "count"}
    /\ \A n \in DOMAIN Instances :
         /\ Instances[n] \in heap /\ Index[Instances[n]] = n
         /\ \/ n \in Living
            \/ \E t \in Threads : n = id[t] /\ pc[t] \in {"unlock_create", "publish"}

IInv ==
  /\ TypeOK /\ OneInside /\ (\A t \in Threads : Held(t))
  /\ Apart /\ LivingWell /\ DeadGone

--------------------------------------------------------------------------------
(* Each action keeps it *)

LEMMA LockKeeps ==
  ASSUME IInv, NEW t \in Threads, Lock(t)
  PROVE  IInv'
<1> USE RegistryAssumption DEF IInv, Creating, Looking, Found, Erasing, Living,
      Inside, Pcs, Lock, Goto, AfterLock, registryVars, clientVars
<1>1. TypeOK'
  BY DEF TypeOK
<1>2. OneInside'
  BY DEF TypeOK, OneInside
<1>3. ASSUME NEW u \in Threads PROVE Held(u)'
  BY DEF TypeOK, Held
<1>4. Apart'
  BY DEF TypeOK, Apart
<1>5. LivingWell'
  BY DEF TypeOK, LivingWell
<1>6. DeadGone'
  BY DEF TypeOK, DeadGone
<1> QED
  BY <1>1, <1>2, <1>3, <1>4, <1>5, <1>6

LEMMA UnlockKeeps ==
  ASSUME IInv, NEW t \in Threads, Unlock(t)
  PROVE  IInv'
<1> USE RegistryAssumption DEF IInv, Creating, Looking, Found, Erasing, Living,
      Inside, Pcs, Unlock, Goto, AfterUnlock, registryVars, clientVars
<1>1. TypeOK'
  BY DEF TypeOK
<1>2. OneInside'
  BY DEF TypeOK, OneInside
<1>3. ASSUME NEW u \in Threads PROVE Held(u)'
  BY DEF TypeOK, Held
<1>4. Apart'
  BY DEF TypeOK, Apart
<1>5. LivingWell'
  BY DEF TypeOK, LivingWell
<1>6. DeadGone'
  BY DEF TypeOK, DeadGone
<1> QED
  BY <1>1, <1>2, <1>3, <1>4, <1>5, <1>6

LEMMA ConstructKeeps ==
  ASSUME IInv, NEW t \in Threads, Construct(t)
  PROVE  IInv'
<1> USE RegistryAssumption DEF IInv, Creating, Looking, Found, Erasing, Living,
      Inside, Pcs, Construct, Goto, registryVars, clientVars
<1>1. TypeOK'
  BY DEF TypeOK
<1>2. OneInside'
  BY DEF TypeOK, OneInside
<1>3. ASSUME NEW u \in Threads PROVE Held(u)'
  BY DEF TypeOK, Held
<1>4. Apart'
  BY DEF TypeOK, Held, Apart, LivingWell
<1>5. LivingWell'
  BY DEF TypeOK, LivingWell
<1>6. DeadGone'
  BY DEF TypeOK, DeadGone
<1> QED
  BY <1>1, <1>2, <1>3, <1>4, <1>5, <1>6

LEMMA CountKeeps ==
  ASSUME IInv, NEW t \in Threads, Count(t)
  PROVE  IInv'
<1> USE RegistryAssumption DEF IInv, Creating, Looking, Found, Erasing, Living,
      Inside, Pcs, Count, Goto, registryVars, clientVars
<1>1. TypeOK'
  BY DEF TypeOK, Held
<1>2. OneInside'
  BY DEF TypeOK, OneInside
<1>3. ASSUME NEW u \in Threads PROVE Held(u)'
  BY DEF TypeOK, Held, Apart
<1>4. Apart'
  BY DEF TypeOK, OneInside, Held, Apart
<1>5. LivingWell'
  BY DEF TypeOK, Held, LivingWell
<1>6. DeadGone'
  BY DEF TypeOK, DeadGone
<1> QED
  BY <1>1, <1>2, <1>3, <1>4, <1>5, <1>6

LEMMA InsertKeeps ==
  ASSUME IInv, NEW t \in Threads, Insert(t)
  PROVE  IInv'
<1> USE RegistryAssumption DEF IInv, Creating, Looking, Found, Erasing, Living,
      Inside, Pcs, Insert, Goto, With, registryVars, clientVars
<1>1. TypeOK'
  BY DEF TypeOK, Held
<1>2. OneInside'
  BY DEF TypeOK, OneInside
<1>3. ASSUME NEW u \in Threads PROVE Held(u)'
  BY DEF TypeOK, Held, Apart
<1>4. Apart'
  BY DEF TypeOK, Apart
<1>5. LivingWell'
  BY DEF TypeOK, LivingWell
<1>6. DeadGone'
  BY DEF TypeOK, Held, DeadGone
<1> QED
  BY <1>1, <1>2, <1>3, <1>4, <1>5, <1>6

LEMMA PublishKeeps ==
  ASSUME IInv, NEW t \in Threads, Publish(t)
  PROVE  IInv'
<1> USE RegistryAssumption DEF IInv, Creating, Looking, Found, Erasing, Living,
      Inside, Pcs, Publish, Goto, Return, With, registryVars, clientVars
<1>1. TypeOK'
  BY DEF TypeOK, Held
<1>2. OneInside'
  BY DEF TypeOK, OneInside
<1>3. ASSUME NEW u \in Threads PROVE Held(u)'
  BY DEF TypeOK, Held, Apart
<1>4. Apart'
  BY DEF TypeOK, Apart
<1>5. LivingWell'
  BY DEF TypeOK, Held, Apart, LivingWell
<1>6. DeadGone'
  BY DEF TypeOK, DeadGone
<1> QED
  BY <1>1, <1>2, <1>3, <1>4, <1>5, <1>6

LEMMA OutOfMemoryKeeps ==
  ASSUME IInv, NEW t \in Threads, OutOfMemory(t)
  PROVE  IInv'
<1> USE RegistryAssumption DEF IInv, Creating, Looking, Found, Erasing, Living,
      Inside, Pcs, OutOfMemory, Goto, Return, registryVars, clientVars
<1>1. TypeOK'
  BY DEF TypeOK, Held
<1>2. OneInside'
  BY DEF TypeOK, OneInside
<1>3. ASSUME NEW u \in Threads PROVE Held(u)'
  BY DEF TypeOK, Held, Apart
<1>4. Apart'
  BY DEF TypeOK, Apart
<1>5. LivingWell'
  BY DEF TypeOK, Held, LivingWell
<1>6. DeadGone'
  BY DEF TypeOK, DeadGone
<1> QED
  BY <1>1, <1>2, <1>3, <1>4, <1>5, <1>6

LEMMA CallKeeps ==
  ASSUME IInv, NEW t \in Threads, NEW place \in {"lock_use", "lock_destroy"}, Call(t, place)
  PROVE  IInv'
<1> USE RegistryAssumption DEF IInv, Creating, Looking, Found, Erasing, Living,
      Inside, Pcs, Call, MayCall, Goto, registryVars, clientVars
<1>1. TypeOK'
  BY DEF TypeOK
<1>2. OneInside'
  BY DEF TypeOK, OneInside
<1>3. ASSUME NEW u \in Threads PROVE Held(u)'
  BY DEF TypeOK, Held
<1>4. Apart'
  BY DEF TypeOK, Apart
<1>5. LivingWell'
  BY DEF TypeOK, Held, LivingWell
<1>6. DeadGone'
  BY DEF TypeOK, DeadGone
<1> QED
  BY <1>1, <1>2, <1>3, <1>4, <1>5, <1>6

LEMMA FindKeeps ==
  ASSUME IInv, NEW t \in Threads, Find(t)
  PROVE  IInv'
<1> USE RegistryAssumption DEF IInv, Creating, Looking, Found, Erasing, Living,
      Inside, Pcs, Find, Goto, registryVars, clientVars
<1>1. TypeOK'
  BY DEF TypeOK
<1>2. OneInside'
  BY DEF TypeOK, OneInside
<1>3. ASSUME NEW u \in Threads PROVE Held(u)'
  BY DEF TypeOK, Held, Apart, LivingWell, DeadGone
<1>4. Apart'
  BY DEF TypeOK, Held, Apart, LivingWell, DeadGone
<1>5. LivingWell'
  BY DEF TypeOK, Held, LivingWell, DeadGone
<1>6. DeadGone'
  BY DEF TypeOK, DeadGone
<1> QED
  BY <1>1, <1>2, <1>3, <1>4, <1>5, <1>6

LEMMA UseKeeps ==
  ASSUME IInv, NEW t \in Threads, Use(t)
  PROVE  IInv'
<1> USE RegistryAssumption DEF IInv, Creating, Looking, Found, Erasing, Living,
      Inside, Pcs, Use, Goto, Return, registryVars, clientVars
<1>1. TypeOK'
  BY DEF TypeOK
<1>2. OneInside'
  BY DEF TypeOK, OneInside
<1>3. ASSUME NEW u \in Threads PROVE Held(u)'
  BY DEF TypeOK, Held
<1>4. Apart'
  BY DEF TypeOK, Apart
<1>5. LivingWell'
  BY DEF TypeOK, LivingWell
<1>6. DeadGone'
  BY DEF TypeOK, DeadGone
<1> QED
  BY <1>1, <1>2, <1>3, <1>4, <1>5, <1>6

LEMMA DestroyKeeps ==
  ASSUME IInv, NEW t \in Threads, Destroy(t)
  PROVE  IInv'
<1> USE RegistryAssumption DEF IInv, Creating, Looking, Found, Erasing, Living,
      Inside, Pcs, Destroy, Goto, Return, registryVars, clientVars
<1>1. TypeOK'
  BY DEF TypeOK
<1>2. OneInside'
  BY DEF TypeOK, OneInside
<1>3. ASSUME NEW u \in Threads PROVE Held(u)'
  BY DEF TypeOK, Held
<1>4. Apart'
  BY DEF TypeOK, Apart
<1>5. LivingWell'
  BY DEF TypeOK, LivingWell
<1>6. DeadGone'
  BY DEF TypeOK, DeadGone
<1> QED
  BY <1>1, <1>2, <1>3, <1>4, <1>5, <1>6

LEMMA EraseKeeps ==
  ASSUME IInv, NEW t \in Threads, Erase(t)
  PROVE  IInv'
<1> USE RegistryAssumption DEF IInv, Creating, Looking, Found, Erasing, Living,
      Inside, Pcs, Erase, Goto, Without, registryVars, clientVars
<1>1. TypeOK'
  BY DEF TypeOK
<1>2. OneInside'
  BY DEF TypeOK, OneInside
<1>3. ASSUME NEW u \in Threads PROVE Held(u)'
  BY DEF TypeOK, Held, LivingWell
<1>4. Apart'
  BY DEF TypeOK, Apart
<1>5. LivingWell'
  BY DEF TypeOK, Held, LivingWell
<1>6. DeadGone'
  BY DEF TypeOK, DeadGone
<1> QED
  BY <1>1, <1>2, <1>3, <1>4, <1>5, <1>6

LEMMA FreeKeeps ==
  ASSUME IInv, NEW t \in Threads, Free(t)
  PROVE  IInv'
<1> USE RegistryAssumption DEF IInv, Creating, Looking, Found, Erasing, Living,
      Inside, Pcs, Free, Goto, Return, registryVars, clientVars
<1>1. TypeOK'
  BY DEF TypeOK, Held
<1>2. OneInside'
  BY DEF TypeOK, OneInside
<1>3. ASSUME NEW u \in Threads PROVE Held(u)'
  BY DEF TypeOK, Held, Apart
<1>4. Apart'
  BY DEF TypeOK, Apart
<1>5. LivingWell'
  BY DEF TypeOK, LivingWell
<1>6. DeadGone'
  BY DEF TypeOK, Held, DeadGone
<1> QED
  BY <1>1, <1>2, <1>3, <1>4, <1>5, <1>6

LEMMA IInvInit == Init => IInv /\ NothingElse
<1> SUFFICES ASSUME Init PROVE IInv /\ NothingElse
  OBVIOUS
<1> USE RegistryAssumption DEF Init
<1>1. DOMAIN Instances = {} /\ DOMAIN born = {} /\ Living = {}
  BY DEF Living
<1>2. TypeOK
  <2>1. /\ Instances \in [DOMAIN Instances -> Addresses]
        /\ born \in [DOMAIN born -> Addresses]
    BY <1>1
  <2>2. /\ DOMAIN Instances \subseteq 0..(InstancesIndex - 1)
        /\ DOMAIN born \subseteq 0..(InstancesIndex - 1) /\ dead \subseteq DOMAIN born
    BY <1>1
  <2>3. /\ pc \in [Threads -> Pcs] /\ Index \in [Addresses -> Nat \cup {Null}]
        /\ id \in [Threads -> Nat \cup {Null}]
        /\ instance \in [Threads -> Addresses \cup {Null}]
    BY DEF Pcs
  <2>4. InstancesIndex \in Nat /\ built \in 0..MaxInstances
    OBVIOUS
  <2>5. failed \in BOOLEAN /\ map_lock \in Threads \cup {Null} /\ heap \subseteq Addresses
    BY Zenon
  <2> QED
    BY <2>1, <2>2, <2>3, <2>4, <2>5, Zenon DEF TypeOK
<1>3. OneInside
  BY DEF OneInside, Inside
<1>4. ASSUME NEW t \in Threads PROVE Held(t)
  BY DEF Held, Creating, Looking, Found, Erasing
<1>5. Apart /\ LivingWell /\ DeadGone
  BY <1>1 DEF Apart, LivingWell, DeadGone
<1>6. NothingElse
  BY <1>1 DEF NothingElse
<1> QED
  BY <1>2, <1>3, <1>4, <1>5, <1>6 DEF IInv

LEMMA IInvNext == IInv /\ [Next]_vars => IInv'
<1> SUFFICES ASSUME IInv, [Next]_vars PROVE IInv'
  OBVIOUS
<1>1. CASE UNCHANGED vars
  BY <1>1 DEF vars, registryVars, clientVars, IInv, TypeOK, OneInside, Held, Apart,
              LivingWell, DeadGone, Living
<1>2. ASSUME NEW t \in Threads,
             \/ Lock(t) \/ Unlock(t)
             \/ Construct(t) \/ Count(t) \/ Insert(t) \/ Publish(t) \/ OutOfMemory(t)
             \/ Call(t, "lock_use") \/ Call(t, "lock_destroy") \/ Find(t)
             \/ Use(t) \/ Destroy(t) \/ Erase(t) \/ Free(t)
      PROVE  IInv'
  BY <1>2, LockKeeps, UnlockKeeps, ConstructKeeps, CountKeeps, InsertKeeps, PublishKeeps,
     OutOfMemoryKeeps, CallKeeps, FindKeeps, UseKeeps, DestroyKeeps, EraseKeeps, FreeKeeps
<1> QED
  BY <1>1, <1>2 DEF Next

LEMMA NothingElseNext == IInv /\ NothingElse /\ [Next]_vars => NothingElse'
<1> SUFFICES ASSUME IInv, NothingElse, [Next]_vars PROVE NothingElse'
  OBVIOUS
<1> USE RegistryAssumption
    DEF IInv, NothingElse, Creating, Looking, Found, Erasing, Living, Inside, Pcs,
        TypeOK, OneInside, Held, Apart, LivingWell, DeadGone, registryVars, clientVars
<1>1. CASE UNCHANGED vars
  BY <1>1 DEF vars
<1>2. ASSUME NEW t \in Threads,
             \/ Lock(t) \/ Unlock(t)
             \/ Construct(t) \/ Count(t) \/ Insert(t) \/ Publish(t) \/ OutOfMemory(t)
             \/ Call(t, "lock_use") \/ Call(t, "lock_destroy") \/ Find(t)
             \/ Use(t) \/ Destroy(t) \/ Erase(t) \/ Free(t)
      PROVE  NothingElse'
  <2>1. CASE Lock(t)
    BY <2>1 DEF Lock, Goto, AfterLock
  <2>2. CASE Unlock(t)
    BY <2>2 DEF Unlock, Goto, AfterUnlock
  <2>3. CASE Construct(t)
    BY <2>3 DEF Construct, Goto
  <2>4. CASE Count(t)
    BY <2>4 DEF Count, Goto
  <2>5. CASE Insert(t)
    BY <2>5 DEF Insert, Goto, With
  <2>6. CASE Publish(t)
    BY <2>6 DEF Publish, Goto, Return, With
  <2>7. CASE OutOfMemory(t)
    BY <2>7 DEF OutOfMemory, Goto, Return
  <2>8. CASE Call(t, "lock_use") \/ Call(t, "lock_destroy")
    BY <2>8 DEF Call, MayCall, Goto
  <2>9. CASE Find(t)
    BY <2>9 DEF Find, Goto
  <2>10. CASE Use(t)
    BY <2>10 DEF Use, Goto, Return
  <2>11. CASE Destroy(t)
    BY <2>11 DEF Destroy, Goto, Return
  <2>12. CASE Erase(t)
    BY <2>12 DEF Erase, Goto, Without
  <2>13. CASE Free(t)
    BY <2>13 DEF Free, Goto, Return
  <2> QED
    BY <1>2, <2>1, <2>2, <2>3, <2>4, <2>5, <2>6, <2>7,
       <2>8, <2>9, <2>10, <2>11, <2>12, <2>13
<1> QED
  BY <1>1, <1>2 DEF Next

--------------------------------------------------------------------------------
(* The theorems *)

\* Every variable of the registry, its threads and its heap has its type.
THEOREM RegistryTyped == Spec => []TypeOK
<1>1. IInv => TypeOK
  BY DEF IInv
<1> QED
  BY <1>1, IInvInit, IInvNext, PTL DEF Spec

\* No two threads are in the map or at the counter at the same time.
THEOREM MutualExclusion == Spec => []OneInside
<1>1. IInv => OneInside
  BY DEF IInv
<1> QED
  BY <1>1, IInvInit, IInvNext, PTL DEF Spec

\* However threads create, destroy and call, and wherever an allocation fails, a
\* number leads to its own instance for as long as that lives, and to none after.
THEOREM CallsAreRouted == Spec => []CallsReachTheirInstance
<1>1. IInv => CallsReachTheirInstance
  BY RegistryAssumption DEF IInv, CallsReachTheirInstance, TypeOK, Held, Apart, LivingWell,
     Living, Found, Looking, Creating, Erasing, Pcs, Inside
<1> QED
  BY <1>1, IInvInit, IInvNext, PTL DEF Spec

\* A number that CreateIPhreeqc returns was never returned before.
THEOREM NumbersAreAlwaysNew == Spec => []NumbersAreNew
<1>1. IInv => NumbersAreNew
  BY RegistryAssumption DEF IInv, NumbersAreNew, TypeOK, Held, Apart, Creating
<1> QED
  BY <1>1, IInvInit, IInvNext, PTL DEF Spec

\* If no allocation fails, nothing is left behind in the registry or on the heap.
THEOREM RegistryStaysExact == Spec => []RegistryExact
<1>1. ASSUME IInv, NothingElse PROVE RegistryExact
  <2> SUFFICES ASSUME ~failed PROVE RegistryExact
    BY DEF RegistryExact
  <2>1. ASSUME \A t \in Threads : pc[t] = "idle"
        PROVE  /\ DOMAIN Instances = DOMAIN born \ dead
               /\ heap = {born[n] : n \in DOMAIN born \ dead}
    <3>1. \A t \in Threads : pc[t] \notin Creating \cup {"lock_create", "count", "unlock_erase", "free"}
      BY <2>1 DEF Creating
    <3>2. heap = {born[n] : n \in Living}
      BY <1>1, <3>1 DEF IInv, NothingElse, LivingWell
    <3>3. DOMAIN Instances \subseteq Living
      BY <1>1, <3>1 DEF NothingElse, Creating
    <3>4. Living \subseteq DOMAIN Instances
      BY <1>1, <3>1 DEF IInv, LivingWell
    <3> QED
      BY <3>2, <3>3, <3>4 DEF Living
  <2>2. /\ \A n \in DOMAIN Instances : Instances[n] \in heap /\ Index[Instances[n]] = n
        /\ \A t \in Threads : map_lock = t => pc[t] \in Inside
    BY <1>1 DEF NothingElse
  <2> QED
    BY <2>1, <2>2 DEF RegistryExact
<1> QED
  BY <1>1, IInvInit, IInvNext, NothingElseNext, PTL DEF Spec

================================================================================
