------------------------ MODULE ResConfigRedisProofs ------------------------
(***************************************************************************)
(* Theorems about ResConfigRedis, for any number of threads and contexts.  *)
(*                                                                         *)
(* LockInv ties redis_lock to the thread inside a critical section, so an  *)
(* unlock by store_redis finds another owner or none.  ConnInv says that a *)
(* context in use has no error, so redisFree is never called: nothing is   *)
(* ever freed under another thread.                                        *)
(***************************************************************************)
EXTENDS ResConfigRedis, FiniteSetTheorems, TLAPS

LockInv ==
  /\ \A t \in Threads : pc[t] = "held" => depth = 1 /\ owner = t
  /\ modpc = "unloading" => depth = 1 /\ owner = Loader
  /\ depth = 1 => \/ owner = Loader /\ modpc = "unloading"
                  \/ owner \in Threads /\ pc[owner] = "held"

Open == {c \in Contexts : ctx[c] \in {"ok", "lost"}}
Mapped == modpc \in {"boot", "loaded", "locking"}

ConnInv ==
  /\ redisConn # NULL => redisConn \in Open
  /\ \A t \in Threads : pc[t] = "err" => seen[t] \in Open
  /\ Mapped => \A t \in Threads : pc[t] = "err" => redisConn # NULL

IInv == TypeOK /\ LockInv /\ ConnInv /\ FaultNeedsUnload
-----------------------------------------------------------------------------
LEMMA InitIInv == Init => IInv
  <1> SUFFICES ASSUME Init PROVE IInv
    OBVIOUS
  <1> USE DEF Init
  <1>1. TypeOK
    <2>1. registered \in BOOLEAN
      OBVIOUS
    <2>2. /\ seen \in [Threads -> Contexts \cup {NULL}]
          /\ redisConn \in Contexts \cup {NULL}
          /\ ctx \in [Contexts -> {"none", "ok", "lost", "err", "freed"}]
      OBVIOUS
    <2>3. pc \in [Threads -> {"idle", "store", "check", "err", "connect",
                             "lock", "held"}]
      OBVIOUS
    <2> QED BY <2>1, <2>2, <2>3 DEF TypeOK
  <1>2. LockInv /\ ConnInv /\ FaultNeedsUnload
    BY DEF LockInv, ConnInv, FaultNeedsUnload
  <1> QED BY <1>1, <1>2 DEF IInv

(* The mutex changes hands only when it is free, and an unlock by a thread *)
(* that is not in a critical section leaves it alone.                      *)
LEMMA UnlockForeign ==
  ASSUME TypeOK, LockInv, NEW t \in Threads, pc[t] # "held",
         ast_mutex_unlock(t)
  PROVE  UNCHANGED <<owner, depth>>
  BY ConfigAssumption DEF ast_mutex_unlock, LockInv, TypeOK

LEMMA StepType == IInv /\ [Next]_vars => TypeOK'
  <1> SUFFICES ASSUME IInv, [Next]_vars PROVE TypeOK'
    OBVIOUS
  <1> USE DEF TypeOK
  <1>0. TypeOK /\ LockInv /\ ConnInv
    BY DEF IInv
  <1>1. ASSUME NEW t \in Threads, store_redis(t) PROVE TypeOK'
    <2>1. UNCHANGED <<owner, depth>>
      BY <1>0, <1>1, UnlockForeign DEF store_redis
    <2> QED BY <1>0, <1>1, <2>1 DEF store_redis, Goto
  <1>2. ASSUME NEW t \in Threads, redis_reconnect_check(t) PROVE TypeOK'
    BY <1>0, <1>2 DEF redis_reconnect_check, Goto
  <1>3. ASSUME NEW t \in Threads, redis_reconnect_err(t) PROVE TypeOK'
    BY <1>0, <1>3 DEF redis_reconnect_err, Goto, Usable
  <1>4. ASSUME NEW t \in Threads, redis_reconnect_connect(t) PROVE TypeOK'
    <2>1. UNCHANGED <<owner, depth>>
      BY <1>0, <1>4, UnlockForeign DEF redis_reconnect_connect
    <2> QED BY <1>0, <1>4, <2>1 DEF redis_reconnect_connect, Goto
  <1>5. ASSUME NEW t \in Threads, config_redis(t) PROVE TypeOK'
    <2>1. depth' \in 0..1 /\ owner' \in Threads \cup {Loader}
      BY <1>0, <1>5, ConfigAssumption
      DEF config_redis, ast_mutex_lock, ast_mutex_unlock, LockInv
    <2> QED BY <1>0, <1>5, <2>1 DEF config_redis, Goto
  <1>6. ASSUME NEW t \in Threads, unmapped(t) \/ reload(t) PROVE TypeOK'
    BY <1>0, <1>6 DEF unmapped, reload, Goto
  <1>7. ASSUME NEW t \in Threads, call(t) PROVE TypeOK'
    <2>1. PICK l \in {"store", "lock"} : Goto(t, l)
      BY <1>7 DEF call, redis_engine
    <2> QED BY <1>0, <1>7, <2>1 DEF call, Goto
  <1>8. CASE load_module \/ unload_module
    BY <1>0, <1>8 DEF load_module, unload_module
  <1>9. CASE Unload
    <2>1. depth' \in 0..1 /\ owner' \in Threads \cup {Loader}
      BY <1>0, <1>9, ConfigAssumption DEF Unload, unload_module_locked,
           unload_module_done, ast_mutex_lock, ast_mutex_unlock, LockInv
    <2> QED BY <1>0, <1>9, <2>1
            DEF Unload, unload_module_locked, unload_module_done, NULL
  <1>10. ASSUME NEW c \in Contexts, redis_lost(c) PROVE TypeOK'
    BY <1>0, <1>10 DEF redis_lost
  <1>11. CASE UNCHANGED vars
    BY <1>0, <1>11 DEF vars
  <1> QED BY <1>1, <1>2, <1>3, <1>4, <1>5, <1>6, <1>7, <1>8, <1>9, <1>10,
             <1>11 DEF Next, Engine

LEMMA StepLock == IInv /\ [Next]_vars => LockInv'
  <1> SUFFICES ASSUME IInv, [Next]_vars PROVE LockInv'
    OBVIOUS
  <1>0. TypeOK /\ LockInv
    BY DEF IInv
  <1>1. ASSUME NEW t \in Threads, pc[t] # "held", modpc' = modpc,
               NEW l, l # "held", pc' = [pc EXCEPT ![t] = l],
               UNCHANGED <<owner, depth>>
        PROVE  LockInv'
    BY <1>0, <1>1 DEF TypeOK, LockInv
  <1>2. ASSUME NEW t \in Threads, store_redis(t) PROVE LockInv'
    BY <1>0, <1>1, <1>2, UnlockForeign DEF store_redis, Goto
  <1>3. ASSUME NEW t \in Threads, redis_reconnect_check(t) PROVE LockInv'
    BY <1>0, <1>1, <1>3 DEF redis_reconnect_check, Goto
  <1>4. ASSUME NEW t \in Threads, redis_reconnect_err(t) PROVE LockInv'
    <2>1. CASE UNCHANGED pc
      BY <1>0, <1>4, <2>1 DEF redis_reconnect_err, LockInv
    <2>2. CASE ~UNCHANGED pc
      BY <1>0, <1>1, <1>4, <2>2 DEF redis_reconnect_err, Goto
    <2> QED BY <2>1, <2>2
  <1>5. ASSUME NEW t \in Threads, redis_reconnect_connect(t) PROVE LockInv'
    <2>1. UNCHANGED <<owner, depth>>
      BY <1>0, <1>5, UnlockForeign DEF redis_reconnect_connect
    <2> QED BY <1>1, <1>5, <2>1 DEF redis_reconnect_connect, Goto
  <1>6. ASSUME NEW t \in Threads, config_redis(t) PROVE LockInv'
    BY <1>0, <1>6, ConfigAssumption
    DEF config_redis, ast_mutex_lock, ast_mutex_unlock, Goto, LockInv, TypeOK
  <1>7. ASSUME NEW t \in Threads, call(t) \/ reload(t) PROVE LockInv'
    <2>1. PICK l \in {"store", "lock"} : Goto(t, l)
      BY <1>7 DEF call, reload, redis_engine
    <2> QED BY <1>1, <1>7, <2>1 DEF call, reload, Goto
  <1>8. CASE Unload
    BY <1>0, <1>8, ConfigAssumption
    DEF Unload, unload_module_locked, unload_module_done, ast_mutex_lock,
        ast_mutex_unlock, LockInv, TypeOK
  <1>9. CASE load_module \/ unload_module
    BY <1>0, <1>9 DEF load_module, unload_module, LockInv
  <1>10. ASSUME UNCHANGED <<modpc, pc, owner, depth>> PROVE LockInv'
    BY <1>0, <1>10 DEF LockInv
  <1> QED BY <1>2, <1>3, <1>4, <1>5, <1>6, <1>7, <1>8, <1>9, <1>10
          DEF Next, Engine, unmapped, redis_lost, vars

(* A context without an error is kept, and the thread returns.             *)
LEMMA ErrKeeps ==
  ASSUME TypeOK, ConnInv, NEW t \in Threads, redis_reconnect_err(t)
  PROVE  /\ ctx' = ctx /\ redisConn' = redisConn /\ seen' = seen
         /\ \/ pc' = pc /\ redisConn = NULL
            \/ pc' = [pc EXCEPT ![t] = "idle"] /\ fault' = fault
  <1>1. PICK c \in {seen[t], redisConn} :
          \/ c \notin Usable /\ UNCHANGED <<pc, ctx>>
          \/ /\ c \in Usable /\ UNCHANGED fault
             /\ Goto(t, IF StillOk(c) THEN "idle" ELSE "connect")
             /\ ctx' = IF StillOk(c) THEN ctx ELSE [ctx EXCEPT ![c] = "freed"]
    BY DEF redis_reconnect_err
  <1>2. c = NULL \/ c \in Open
    BY <1>1 DEF ConnInv, redis_reconnect_err
  <1>3. c \in Open => c \in Usable /\ StillOk(c)
    BY DEF Open, Usable, StillOk
  <1>4. c \notin Open => c = redisConn
    BY <1>1 DEF ConnInv, redis_reconnect_err
  <1>5. NULL \notin Usable
    BY DEF Usable, NULL, Contexts
  <1> QED BY <1>1, <1>2, <1>3, <1>4, <1>5 DEF redis_reconnect_err, Goto

(* A connection that is made is open and becomes the driver's.             *)
LEMMA ConnectOpens ==
  ASSUME TypeOK, NEW t \in Threads, redis_reconnect_connect(t)
  PROVE  \/ Open' = Open /\ redisConn' = redisConn
         \/ \E c \in Contexts \ Open :
              Open' = Open \cup {c} /\ redisConn' = c /\ redisConn' # NULL
  <1>1. ASSUME NEW c \in Contexts, NewContext(c), redisConn' = c,
               ctx' = [ctx EXCEPT ![c] = "ok"]
        PROVE  /\ c \notin Open /\ Open' = Open \cup {c}
               /\ redisConn' = c /\ redisConn' # NULL
    BY <1>1, ConfigAssumption DEF NewContext, Open, TypeOK, Contexts, NULL
  <1>2. ASSUME NEW c \in Contexts, NewContext(c), redisConn' = redisConn,
               ctx' = [ctx EXCEPT ![c] = "err"]
        PROVE  Open' = Open
    BY <1>2 DEF NewContext, Open, TypeOK
  <1>3. ASSUME ctx' = ctx PROVE Open' = Open
    BY <1>3 DEF Open
  <1> QED BY <1>1, <1>2, <1>3 DEF redis_reconnect_connect

LEMMA StepConn == IInv /\ [Next]_vars => ConnInv'
  <1> SUFFICES ASSUME IInv, [Next]_vars PROVE ConnInv'
    OBVIOUS
  <1>0. TypeOK /\ ConnInv
    BY DEF IInv
  <1>1. ASSUME NEW t \in Threads, NEW l, l # "err",
               pc' = [pc EXCEPT ![t] = l],
               UNCHANGED <<modpc, redisConn, seen, ctx>>
        PROVE  ConnInv'
    BY <1>0, <1>1 DEF TypeOK, ConnInv, Open, Mapped
  <1>2. ASSUME NEW t \in Threads, store_redis(t) PROVE ConnInv'
    BY <1>1, <1>2 DEF store_redis, Goto
  <1>3. ASSUME NEW t \in Threads, redis_reconnect_check(t) PROVE ConnInv'
    BY <1>0, <1>3 DEF redis_reconnect_check, Goto, TypeOK, ConnInv, Open, Mapped
  <1>4. ASSUME NEW t \in Threads, redis_reconnect_err(t) PROVE ConnInv'
    <2>1. modpc' = modpc
      BY <1>4 DEF redis_reconnect_err
    <2>2. CASE pc' = pc
      BY <1>0, <1>4, <2>1, <2>2, ErrKeeps DEF ConnInv, Open, Mapped
    <2>3. CASE pc' # pc
      BY <1>0, <1>1, <1>4, <2>1, <2>3, ErrKeeps
    <2> QED BY <2>2, <2>3
  <1>5. ASSUME NEW t \in Threads, redis_reconnect_connect(t) PROVE ConnInv'
    <2>1. /\ Open \subseteq Open'
          /\ redisConn' = redisConn \/ (redisConn' # NULL /\ redisConn' \in Open')
      BY <1>0, <1>5, ConnectOpens
    <2>2. /\ modpc' = modpc /\ seen' = seen
          /\ \A u \in Threads : pc'[u] = "err" => pc[u] = "err"
      BY <1>0, <1>5 DEF redis_reconnect_connect, Goto, TypeOK
    <2> QED BY <1>0, <2>1, <2>2 DEF ConnInv, Mapped
  <1>6. ASSUME NEW t \in Threads, config_redis(t) PROVE ConnInv'
    BY <1>1, <1>6 DEF config_redis, Goto
  <1>7. ASSUME NEW t \in Threads, call(t) \/ reload(t) PROVE ConnInv'
    <2>1. PICK l \in {"store", "lock"} : Goto(t, l)
      BY <1>7 DEF call, reload, redis_engine
    <2> QED BY <1>1, <1>7, <2>1 DEF call, reload, Goto
  <1>8. CASE Unload
    BY <1>0, <1>8 DEF Unload, unload_module_locked, unload_module_done,
                      ConnInv, Open, Mapped
  <1>9. CASE load_module \/ unload_module
    BY <1>0, <1>9 DEF load_module, unload_module, ConnInv, Open, Mapped
  <1>10. ASSUME NEW c \in Contexts, redis_lost(c) PROVE ConnInv'
    <2>1. Open' = Open
      BY <1>0, <1>10 DEF redis_lost, Open, TypeOK
    <2> QED BY <1>0, <1>10, <2>1 DEF redis_lost, ConnInv, Mapped
  <1>11. ASSUME UNCHANGED <<modpc, pc, redisConn, seen, ctx>> PROVE ConnInv'
    BY <1>0, <1>11 DEF ConnInv, Open, Mapped
  <1> QED BY <1>2, <1>3, <1>4, <1>5, <1>6, <1>7, <1>8, <1>9, <1>10, <1>11
          DEF Next, Engine, unmapped, vars

LEMMA StepFault == IInv /\ [Next]_vars => FaultNeedsUnload'
  <1> SUFFICES ASSUME IInv, [Next]_vars PROVE FaultNeedsUnload'
    OBVIOUS
  <1>0. TypeOK /\ ConnInv /\ FaultNeedsUnload
    BY DEF IInv
  <1>1. ASSUME NEW t \in Threads, redis_reconnect_err(t), Running
        PROVE  FaultNeedsUnload'
    <2>1. CASE Mapped
      <3>1. redisConn # NULL
        BY <1>0, <1>1, <2>1 DEF redis_reconnect_err, ConnInv
      <3> QED BY <1>0, <1>1, <3>1, ErrKeeps DEF FaultNeedsUnload, Running
    <2>2. CASE ~Mapped
      BY <1>0, <1>1, <2>2
      DEF redis_reconnect_err, Mapped, TypeOK, FaultNeedsUnload
    <2> QED BY <2>1, <2>2
  <1>2. ASSUME NEW t \in Threads, unmapped(t) PROVE FaultNeedsUnload'
    BY <1>2 DEF unmapped, FaultNeedsUnload
  <1>3. ASSUME fault' = fault,
               modpc' = modpc \/ Running
        PROVE  FaultNeedsUnload'
    BY <1>0, <1>3 DEF FaultNeedsUnload, Running
  <1> QED
    BY <1>1, <1>2, <1>3 DEF Next, Engine, store_redis, redis_reconnect_check,
         redis_reconnect_connect, config_redis, call, reload, load_module,
         unload_module, Unload, unload_module_locked, unload_module_done,
         redis_lost, vars

(* The invariant is inductive.                                             *)
LEMMA StepIInv == IInv /\ [Next]_vars => IInv'
  BY StepType, StepLock, StepConn, StepFault DEF IInv

LEMMA Always == Spec => []IInv
  BY InitIInv, StepIInv, PTL DEF Spec

(* store_redis, destroy_redis, config_redis, reload and unload keep every  *)
(* variable in its type, redis_lock among them.                            *)
THEOREM TypeCorrect == Spec => []TypeOK
  <1>1. IInv => TypeOK
    BY DEF IInv
  <1> QED BY <1>1, Always, PTL

(* The unbalanced unlocks of store_redis and destroy_redis never open the  *)
(* critical section of another thread.                                     *)
THEOREM ExclusionCorrect == Spec => []Exclusion
  <1>1. IInv => Exclusion
    BY ConfigAssumption DEF IInv, LockInv, Exclusion
  <1> QED BY <1>1, Always, PTL

(* redisConn never is a context with an error or a freed one.              *)
THEOREM StatusCorrect == Spec => []StatusHolds
  <1>1. IInv => StatusHolds
    BY DEF IInv, ConnInv, Open, StatusHolds, handle_cli_realtime_redis_status
  <1> QED BY <1>1, Always, PTL

(* No thread dies in redis_reconnect as long as the module is loaded.      *)
THEOREM FaultCorrect == Spec => []FaultNeedsUnload
  <1>1. IInv => FaultNeedsUnload
    BY DEF IInv
  <1> QED BY <1>1, Always, PTL
-----------------------------------------------------------------------------
(* OpenBounded is not inductive: the threads that found no connection, and *)
(* are about to make one, have to be counted with the connections there    *)
(* are.                                                                    *)
Connecting == {t \in Threads : pc[t] = "connect"}

BoundInv ==
  Mapped => /\ redisConn = NULL => Open = {}
            /\ Cardinality(Open) + Cardinality(Connecting)
                 <= Cardinality(Threads)

LEMMA Finite == /\ IsFiniteSet(Open) /\ IsFiniteSet(Connecting)
                /\ Cardinality(Open) \in Nat /\ Cardinality(Connecting) \in Nat
                /\ Cardinality(Connecting) <= Cardinality(Threads)
                /\ Cardinality(Threads) \in Nat
  <1>1. IsFiniteSet(Contexts)
    BY FS_Interval, ConfigAssumption DEF Contexts
  <1>2. Open \subseteq Contexts /\ Connecting \subseteq Threads
    BY DEF Open, Connecting
  <1>3. IsFiniteSet(Open) /\ IsFiniteSet(Connecting)
    BY <1>1, <1>2, FS_Subset, ConfigAssumption
  <1>4. Cardinality(Connecting) <= Cardinality(Threads)
    BY <1>2, FS_Subset, ConfigAssumption
  <1> QED BY <1>3, <1>4, FS_CardinalityType, ConfigAssumption

LEMMA InitBound == Init => BoundInv
  <1> SUFFICES ASSUME Init PROVE BoundInv
    OBVIOUS
  <1>1. Open = {} /\ Connecting = {}
    BY DEF Init, Open, Connecting
  <1> QED BY <1>1, Finite, FS_EmptySet DEF BoundInv

LEMMA StepBound == IInv /\ BoundInv /\ [Next]_vars => BoundInv'
  <1> SUFFICES ASSUME IInv, BoundInv, [Next]_vars, Mapped' PROVE BoundInv'
    BY DEF BoundInv
  <1>0. TypeOK /\ ConnInv
    BY DEF IInv
  <1>1. ASSUME Mapped, Open' = Open, redisConn' = redisConn,
               Connecting' = Connecting
        PROVE  BoundInv'
    BY <1>1 DEF BoundInv
  <1>2. ASSUME NEW t \in Threads, NEW l, l # "connect", pc[t] # "connect",
               pc' = [pc EXCEPT ![t] = l]
        PROVE  Connecting' = Connecting
    BY <1>0, <1>2 DEF Connecting, TypeOK
  <1>3. ASSUME modpc' = modpc PROVE Mapped
    BY <1>3 DEF Mapped
  <1>4. ASSUME NEW t \in Threads, redis_reconnect_check(t) PROVE BoundInv'
    <2>1. Mapped /\ Open' = Open /\ redisConn' = redisConn
      BY <1>3, <1>4 DEF redis_reconnect_check, Open
    <2>2. CASE redisConn = NULL
      <3>1. Cardinality(Open') = 0
        BY <2>1, <2>2, FS_EmptySet DEF BoundInv
      <3>2. /\ Cardinality(Connecting') <= Cardinality(Threads)
            /\ Cardinality(Connecting') \in Nat
        <4>1. Connecting' \subseteq Threads
          BY DEF Connecting
        <4> QED BY <4>1, FS_Subset, FS_CardinalityType, ConfigAssumption
      <3> QED BY <2>1, <2>2, <3>1, <3>2, Finite DEF BoundInv
    <2>3. CASE redisConn # NULL
      BY <1>1, <1>2, <1>4, <2>1, <2>3 DEF redis_reconnect_check, Goto
    <2> QED BY <2>2, <2>3
  <1>5. ASSUME NEW t \in Threads, redis_reconnect_connect(t) PROVE BoundInv'
    <2>1. Mapped
      BY <1>3, <1>5 DEF redis_reconnect_connect
    <2>2. t \in Connecting /\ Connecting' = Connecting \ {t}
      BY <1>0, <1>5 DEF redis_reconnect_connect, Goto, Connecting, TypeOK
    <2>3. Cardinality(Connecting') = Cardinality(Connecting) - 1
      BY <2>2, Finite, FS_RemoveElement
    <2>4. CASE Open' = Open /\ redisConn' = redisConn
      BY <2>1, <2>3, <2>4, Finite DEF BoundInv
    <2>5. ASSUME NEW c \in Contexts \ Open, Open' = Open \cup {c},
                 redisConn' = c, redisConn' # NULL
          PROVE  BoundInv'
      <3>1. Cardinality(Open') = Cardinality(Open) + 1
        BY <2>5, Finite, FS_AddElement
      <3> QED BY <2>1, <2>3, <2>5, <3>1, Finite DEF BoundInv
    <2> QED BY <1>0, <1>5, <2>4, <2>5, ConnectOpens
  <1>6. ASSUME NEW t \in Threads, redis_reconnect_err(t) PROVE BoundInv'
    <2>1. pc[t] # "connect" /\ Mapped
      BY <1>3, <1>6 DEF redis_reconnect_err
    <2>2. Open' = Open /\ redisConn' = redisConn
      BY <1>0, <1>6, ErrKeeps DEF Open
    <2>3. Connecting' = Connecting
      <3>1. CASE pc' = pc
        BY <3>1 DEF Connecting
      <3>2. CASE pc' = [pc EXCEPT ![t] = "idle"]
        BY <1>2, <2>1, <3>2
      <3> QED BY <1>0, <1>6, <3>1, <3>2, ErrKeeps
    <2> QED BY <1>1, <2>1, <2>2, <2>3
  <1>7. ASSUME NEW t \in Threads, NEW l \in {"store", "check", "lock", "held",
               "idle"}, Goto(t, l), pc[t] # "connect",
               UNCHANGED <<modpc, redisConn, ctx>>
        PROVE  BoundInv'
    BY <1>1, <1>2, <1>3, <1>7 DEF Goto, Open
  <1>8. ASSUME NEW t \in Threads,
               store_redis(t) \/ config_redis(t) \/ call(t) \/ reload(t)
        PROVE  BoundInv'
    BY <1>7, <1>8 DEF store_redis, config_redis, call, reload, redis_engine
  <1>9. CASE load_module \/ unload_module
    BY <1>1, <1>9 DEF load_module, unload_module, Mapped, Open, Connecting
  <1>10. CASE Unload
    BY <1>10 DEF Unload, unload_module_locked, unload_module_done, Mapped
  <1>11. ASSUME NEW c \in Contexts, redis_lost(c) PROVE BoundInv'
    <2>1. Open' = Open /\ Connecting' = Connecting
      BY <1>0, <1>11 DEF redis_lost, Open, Connecting, TypeOK
    <2> QED BY <1>1, <1>3, <1>11, <2>1 DEF redis_lost
  <1>12. ASSUME UNCHANGED <<modpc, redisConn, ctx, pc>> PROVE BoundInv'
    BY <1>1, <1>3, <1>12 DEF Open, Connecting
  <1> QED BY <1>4, <1>5, <1>6, <1>8, <1>9, <1>10, <1>11, <1>12
          DEF Next, Engine, unmapped, vars

(* However many threads race through redis_reconnect, a loaded driver has  *)
(* at most one open connection for each of them.                           *)
THEOREM OpenCorrect == Spec => []OpenBounded
  <1>1. BoundInv => OpenBounded
    BY Finite DEF BoundInv, OpenBounded, Mapped, Open
  <1> QED BY <1>1, Always, InitBound, StepBound, PTL DEF Spec
=============================================================================
