--------------------------- MODULE ResConfigRedis ---------------------------
(***************************************************************************)
(* res_config_redis.c, the realtime driver.  Threads of Asterisk call the  *)
(* functions of its engine while another thread loads, reloads or unloads  *)
(* it.  The functions that only return a constant are not here, and the    *)
(* two that do anything, store_redis and destroy_redis, do the same: they  *)
(* see to it that there is a connection, and fail.                         *)
(***************************************************************************)
EXTENDS Integers, FiniteSets

CONSTANTS Threads,      \* threads that call the engine, and reload
          Loader,       \* the thread that loads and unloads the module
          MaxContexts   \* bound on the hiredis contexts that are created

ASSUME ConfigAssumption == /\ MaxContexts \in Nat
                           /\ IsFiniteSet(Threads) /\ Loader \notin Threads

Contexts == 1..MaxContexts
NULL == 0

VARIABLES
  modpc,      \* boot, loaded, locking, unloading, unloaded
  registered, \* is redis_engine registered?
  pc,         \* where a thread is: idle, store, check, err, connect, lock,
              \* held
  redisConn,  \* NULL or a context
  seen,       \* the value of redisConn that the thread has tested
  ctx,        \* contexts: none, ok, lost (its server closed it; nobody has
              \* noticed), err (its err is set), freed
  owner, depth,   \* redis_lock, a recursive mutex: its last owner, how
                  \* often that one holds it
  fault       \* what a thread died of

vars == <<modpc, registered, pc, redisConn, seen, ctx, owner, depth, fault>>

Init == /\ modpc = "boot" /\ registered = FALSE
        /\ pc = [t \in Threads |-> "idle"]
        /\ redisConn = NULL
        /\ seen = [t \in Threads |-> NULL]
        /\ ctx = [c \in Contexts |-> "none"]
        /\ owner = Loader /\ depth = 0
        /\ fault = "none"
-----------------------------------------------------------------------------
(* An Asterisk mutex may be locked again by its owner; an unlock by anyone *)
(* else is refused and changes nothing.                                    *)
ast_mutex_lock(t) == /\ depth = 0 \/ owner = t
                     /\ owner' = t /\ depth' = depth + 1

ast_mutex_unlock_Unowned(t) == depth' = depth - 1 /\ UNCHANGED owner
ast_mutex_unlock(t) ==
  /\ depth' = IF depth > 0 /\ owner = t THEN depth - 1 ELSE depth
  /\ UNCHANGED owner

Goto(t, l) == pc' = [pc EXCEPT ![t] = l]
-----------------------------------------------------------------------------
(* Where the functions of the engine begin.                                *)
redis_engine == [store_func |-> "store", destroy_func |-> "store",
                 load_func |-> "lock"]

(* Asterisk has looked the engine up and calls it.                         *)
call(t) ==
  /\ registered /\ pc[t] = "idle"
  /\ \E f \in DOMAIN redis_engine : Goto(t, redis_engine[f])
  /\ UNCHANGED <<modpc, registered, redisConn, seen, ctx, owner, depth, fault>>

(* The lock that is meant, taken; only a failure gives it back.            *)
store_redis_Locks(t) ==
  /\ pc[t] = "store" /\ depth = 0
  /\ ast_mutex_lock(t)
  /\ Goto(t, "check")
  /\ UNCHANGED <<modpc, registered, redisConn, seen, ctx, fault>>

(* store_redis and destroy_redis begin by unlocking what they do not hold. *)
store_redis(t) ==
  /\ pc[t] = "store"
  /\ ast_mutex_unlock(t)
  /\ Goto(t, "check")
  /\ UNCHANGED <<modpc, registered, redisConn, seen, ctx, fault>>

(* No check for a connection that is there.                                *)
redis_reconnect_check_Always(t) ==
  /\ pc[t] = "check"
  /\ Goto(t, "connect")
  /\ UNCHANGED <<modpc, registered, redisConn, seen, ctx, owner, depth, fault>>

(* Is there a connection?                                                  *)
redis_reconnect_check(t) ==
  /\ pc[t] = "check"
  /\ seen' = [seen EXCEPT ![t] = redisConn]
  /\ Goto(t, IF redisConn = NULL THEN "connect" ELSE "err")
  /\ UNCHANGED <<modpc, registered, redisConn, ctx, owner, depth, fault>>

(* The error flag, read through redisConn again, or through the value that *)
(* the compiler has kept.                                                  *)
StillOk(c) == ctx[c] # "err"

Usable == {c \in Contexts : ctx[c] # "freed"}

redis_reconnect_err(t) ==
  /\ pc[t] = "err"
  /\ \E c \in {seen[t], redisConn} :
       \/ /\ c \notin Usable
          /\ fault' = "redisConn"
          /\ UNCHANGED <<pc, ctx>>
       \/ /\ c \in Usable
          /\ Goto(t, IF StillOk(c) THEN "idle" ELSE "connect")
          /\ ctx' = IF StillOk(c) THEN ctx ELSE [ctx EXCEPT ![c] = "freed"]
          /\ UNCHANGED fault
  /\ UNCHANGED <<modpc, registered, redisConn, seen, owner, depth>>

NewContext(c) == c \in Contexts /\ ctx[c] = "none"
                 /\ \A d \in Contexts : ctx[d] = "none" => c <= d

(* The context is assigned before its error is looked at.                  *)
redis_reconnect_connect_AssignFirst(t) ==
  /\ pc[t] = "connect"
  /\ Goto(t, "idle")
  /\ \E c \in Contexts, s \in {"ok", "err"} :
       /\ NewContext(c)
       /\ ctx' = [ctx EXCEPT ![c] = s] /\ redisConn' = c
  /\ UNCHANGED <<modpc, registered, seen, owner, depth, fault>>

(* redisConnectWithTimeout has returned: with a context that becomes the   *)
(* driver's, whatever that was in between; with one that failed, which is  *)
(* not freed; or without one.  After a failure store_redis unlocks again.  *)
redis_reconnect_connect(t) ==
  /\ pc[t] = "connect"
  /\ Goto(t, "idle")
  /\ \/ \E c \in Contexts :
          /\ NewContext(c)
          /\ ctx' = [ctx EXCEPT ![c] = "ok"] /\ redisConn' = c
          /\ UNCHANGED <<owner, depth>>
     \/ \E c \in Contexts :
          /\ NewContext(c)
          /\ ctx' = [ctx EXCEPT ![c] = "err"] /\ UNCHANGED redisConn
          /\ ast_mutex_unlock(t)
     \/ UNCHANGED <<ctx, redisConn>> /\ ast_mutex_unlock(t)
  /\ UNCHANGED <<modpc, registered, seen, fault>>

(* config_redis, and reload through parse_config: lock and unlock.         *)
config_redis(t) ==
  /\ \/ pc[t] = "lock" /\ ast_mutex_lock(t) /\ Goto(t, "held")
     \/ pc[t] = "held" /\ ast_mutex_unlock(t) /\ Goto(t, "idle")
  /\ UNCHANGED <<modpc, registered, redisConn, seen, ctx, fault>>

reload(t) ==
  /\ modpc = "loaded" /\ pc[t] = "idle"
  /\ Goto(t, "lock")
  /\ UNCHANGED <<modpc, registered, redisConn, seen, ctx, owner, depth, fault>>

(* What the CLI says of the connection.                                    *)
handle_cli_realtime_redis_status == redisConn # NULL
-----------------------------------------------------------------------------
load_module ==
  /\ modpc = "boot" /\ modpc' = "loaded"
  /\ registered' = TRUE
  /\ UNCHANGED <<pc, redisConn, seen, ctx, owner, depth, fault>>

(* Nothing counts the threads inside the module, so it may go at any time. *)
unload_module ==
  /\ modpc = "loaded" /\ modpc' = "locking"
  /\ UNCHANGED <<registered, pc, redisConn, seen, ctx, owner, depth, fault>>

(* The context is forgotten, not freed.                                    *)
unload_module_locked ==
  /\ modpc = "locking" /\ modpc' = "unloading"
  /\ ast_mutex_lock(Loader)
  /\ redisConn' = NULL
  /\ UNCHANGED <<registered, pc, seen, ctx, fault>>

unload_module_done ==
  /\ modpc = "unloading" /\ modpc' = "unloaded"
  /\ registered' = FALSE
  /\ ast_mutex_unlock(Loader)
  /\ UNCHANGED <<pc, redisConn, seen, ctx, fault>>

(* Asterisk has unmapped the module; a thread that is still in it dies.    *)
unmapped(t) ==
  /\ modpc = "unloaded" /\ pc[t] # "idle"
  /\ fault' = "unmapped"
  /\ UNCHANGED <<modpc, registered, pc, redisConn, seen, ctx, owner, depth>>

(* The redis server closes a connection.  The driver sends no commands, so *)
(* hiredis does not notice, and does not set the context's err.            *)
redis_lost(c) ==
  /\ ctx[c] = "ok"
  /\ ctx' = [ctx EXCEPT ![c] = "lost"]
  /\ UNCHANGED <<modpc, registered, pc, redisConn, seen, owner, depth, fault>>

Engine(t) ==
  \/ /\ modpc # "unloaded"
     /\ \/ store_redis(t) \/ redis_reconnect_check(t)
        \/ redis_reconnect_err(t) \/ redis_reconnect_connect(t)
        \/ config_redis(t)
  \/ unmapped(t)

Unload == unload_module_locked \/ unload_module_done

Running == fault = "none"

Next == /\ Running
        /\ \/ \E t \in Threads : Engine(t) \/ call(t) \/ reload(t)
           \/ load_module \/ unload_module \/ Unload
           \/ \E c \in Contexts : redis_lost(c)

Spec == Init /\ [][Next]_vars

(* A thread that is inside the module runs; redisConnectWithTimeout comes  *)
(* back after 1.5 seconds at the latest.  A mutex is not handed out in the *)
(* order of arrival, but a waiting thread gets one that is free again and  *)
(* again.                                                                  *)
FairSpec == /\ Spec
            /\ \A t \in Threads : WF_vars(Running /\ Engine(t))
            /\ SF_vars(Running /\ Unload)
-----------------------------------------------------------------------------
(* Every variable has its type; redis_lock is never locked twice by its    *)
(* owner, nor unlocked more often than locked.                             *)
TypeOK ==
  /\ modpc \in {"boot", "loaded", "locking", "unloading", "unloaded"}
  /\ registered \in BOOLEAN
  /\ pc \in [Threads -> {"idle", "store", "check", "err", "connect", "lock",
                         "held"}]
  /\ redisConn \in Contexts \cup {NULL}
  /\ seen \in [Threads -> Contexts \cup {NULL}]
  /\ ctx \in [Contexts -> {"none", "ok", "lost", "err", "freed"}]
  /\ owner \in Threads \cup {Loader}
  /\ depth \in 0..1
  /\ fault \in {"none", "redisConn", "unmapped"}

(* Although store_redis and destroy_redis unlock a mutex they never lock,  *)
(* they never open the critical section of another thread.                 *)
Exclusion ==
  /\ \A t, u \in Threads : pc[t] = "held" /\ pc[u] = "held" => t = u
  /\ modpc = "unloading" => \A t \in Threads : pc[t] # "held"

(* However many threads connect at the same time, and with whatever        *)
(* failures, redisConn is never a context that failed or was freed: the    *)
(* CLI does not report one.                                                *)
StatusHolds ==
  handle_cli_realtime_redis_status => ctx[redisConn] \in {"ok", "lost"}

(* Without a lock around redisConn, it still takes an unload to bring a    *)
(* thread down.                                                            *)
FaultNeedsUnload == fault # "none" => modpc \in {"unloading", "unloaded"}

(* Threads that find no connection at the same time each make one, and all *)
(* but the last are lost; but never more than one per thread.              *)
OpenBounded ==
  modpc \in {"loaded", "locking"} =>
    Cardinality({c \in Contexts : ctx[c] \in {"ok", "lost"}})
      <= Cardinality(Threads)

(* An unload gets the lock and ends, whatever the threads are doing,       *)
(* unless one of them dies.                                                *)
UnloadCompletes == modpc = "locking" ~> (modpc = "unloaded" \/ fault # "none")
=============================================================================
