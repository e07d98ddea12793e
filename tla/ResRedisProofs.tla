--------------------------- MODULE ResRedisProofs ---------------------------
(***************************************************************************)
(* Theorems about ResRedis, for every number of event types, servers and   *)
(* events.  The safety properties rest on one inductive invariant, IInv.   *)
(***************************************************************************)
EXTENDS ResRedis, TLAPS

(* mod's loop index is 1 outside the loops over event_types, and only the  *)
(* loops of redis_(un)subscribe_(to|from)_channels hold event_types_lock.  *)
ModInv ==
  /\ modpc \notin {"dump", "subscribe", "c_unsub", "c_free"} => modi = 1
  /\ event_types_lock <=> modpc \in {"subscribe", "c_unsub"}

(* An entry is subscribed only while it is published, and published only   *)
(* while it has a channel; the unsubscribe loop leaves no live entry       *)
(* behind it.                                                              *)
EntryInv ==
  /\ \A t \in Types : publish[t] => channelstr[t]
  /\ \A t \in Types : sub[t] = "live" => publish[t]
  /\ modpc \in {"boot", "declined", "connect", "spawn", "dump", "lock"}
       => \A t \in Types : sub[t] = "null"
  /\ modpc = "c_unsub" => \A t \in Types : t < modi => sub[t] # "live"
  /\ modpc \in {"c_free", "c_stop", "c_kill", "c_join", "unloaded"}
       => \A t \in Types : sub[t] # "live"

(* ast_event_cb runs only for an entry that is subscribed.                 *)
EvtInv == evtpc # "idle" => sub[evtev.type] = "live"

(* The dispatch thread exists from spawn to join.                          *)
LoopInv ==
  /\ modpc \in {"boot", "declined", "connect", "spawn"} => looppc = "none"
  /\ modpc = "unloaded" => looppc \in {"none", "exited"}
  /\ \A c \in Conns : Flushing(c) => obuf[c] # <<>>

(* A context exists once a server has been dialled, and hiredis frees it   *)
(* only when that server is down.                                          *)
ConnInv ==
  /\ modpc = "boot" => curserver = 0
  /\ \A c \in Conns : redisConn[c] = "null" <=> curserver = 0
  /\ \A c \in Conns : redisConn[c] = "freed" => curserver \notin up
  /\ modpc \notin {"boot", "declined", "connect"} => servers = 0 \/ curserver > 0

IInv == /\ TypeOK /\ ModInv /\ EntryInv /\ EvtInv /\ LoopInv /\ ConnInv
        /\ EvtChannelSafe /\ ContextSafeIfHealthy
-----------------------------------------------------------------------------

(* The fields of events and of commands.                                   *)
LEMMA EventType ==
  /\ \A t \in Types, o \in Origins : [type |-> t, origin |-> o] \in Event
  /\ \A e \in Event : e.type \in Types /\ e.origin \in Origins
  /\ "self" \in Origins
BY DEF Event, Origins

(* The commands the module issues.                                         *)
LEMMA CommandType ==
  /\ \A t \in Types : /\ [op |-> "PUBLISH", type |-> t] \in Command
                      /\ [op |-> "SUBSCRIBE", type |-> t] \in Command
                      /\ [op |-> "UNSUBSCRIBE", type |-> t] \in Command
  /\ \A m \in Command : m.type \in Types
BY DEF Command

(* Empty buffers.                                                          *)
LEMMA EmptySeq == <<>> \in Seq(Event) /\ <<>> \in Seq(Command)
OBVIOUS

(* json2message yields at most one event.                                  *)
LEMMA DecodedType ==
  ASSUME NEW m \in Event PROVE Decoded(m) \in Seq(Event)
<1>1. CASE m.origin \in {"self", "bad"}
  BY <1>1, EmptySeq DEF Decoded
<1>2. CASE m.origin = "other"
  BY <1>2 DEF Decoded
<1>3. CASE m.origin = "noeid"
  <2>1. [m EXCEPT !.origin = "self"] \in Event
    BY DEF Event, Origins
  <2> QED
    BY <1>3, <2>1 DEF Decoded
<1> QED
  BY <1>1, <1>2, <1>3, EventType DEF Origins

(* redisAsyncCommand keeps the types of what it changes.                   *)
LEMMA CommandStep ==
  ASSUME TypeOK, NEW c \in Conns, NEW t \in Types,
         NEW op \in {"PUBLISH", "SUBSCRIBE", "UNSUBSCRIBE"},
         NEW p \in {"mod_context", "evt_context"},
         redisAsyncCommand(c, op, t, p)
  PROVE  /\ obuf' \in [Conns -> Seq(Command)]
         /\ fault' \in Faults
<1>1. [op |-> op, type |-> t] \in Command
  BY DEF Command
<1>2. obuf' \in [Conns -> Seq(Command)]
  <2>1. Append(obuf[c], [op |-> op, type |-> t]) \in Seq(Command)
    BY <1>1 DEF TypeOK
  <2> QED
    BY <2>1 DEF redisAsyncCommand, TypeOK
<1>3. fault' \in Faults
  BY DEF redisAsyncCommand, TypeOK, Faults
<1> QED
  BY <1>2, <1>3

(* The loops over event_types stay inside the array.                       *)
LEMMA NextEntryStep ==
  ASSUME TypeOK, NEW pc, NextEntry(pc)
  PROVE  modi' \in Types /\ modpc' \in {modpc, pc}
BY ConstantsAssumption DEF NextEntry, TypeOK, Types

(* Every step keeps the types.                                             *)
LEMMA TypeStep == IInv /\ [Next]_vars => TypeOK'
<1> SUFFICES ASSUME IInv, [Next]_vars PROVE TypeOK'
  OBVIOUS
<1> USE ConstantsAssumption DEF IInv, TypeOK, modVars, loopVars, evtVars,
       typeVars, connVars, redisVars, astVars
<1>1. ASSUME load_config_missing PROVE TypeOK'
  BY <1>1 DEF load_config_missing, Loading, Cleaning
<1>2. ASSUME load_config PROVE TypeOK'
  BY <1>2 DEF load_config, ConnInv, Loading, Cleaning
<1>3. ASSUME load_config_no_general PROVE TypeOK'
  BY <1>3 DEF load_config_no_general, Loading, Cleaning, Faults
<1>4. ASSUME redis_connect_nextserver PROVE TypeOK'
  BY <1>4 DEF redis_connect_nextserver, HasNextServer, Dial, Loading, Cleaning,
     Conns
<1>5. ASSUME redis_connect_exhausted PROVE TypeOK'
  BY <1>5 DEF redis_connect_exhausted, HasNextServer, Loading, Cleaning
<1>6. ASSUME spawn_dispatch_thread PROVE TypeOK'
  BY <1>6 DEF spawn_dispatch_thread, Loading, Cleaning, Faults
<1>7. ASSUME redis_dump_ast_event_cache PROVE TypeOK'
  BY <1>7, CommandStep, NextEntryStep
     DEF redis_dump_ast_event_cache, Conns, Loading, Cleaning
<1>8. ASSUME wrlock_event_types("lock", "subscribe") PROVE TypeOK'
  BY <1>8 DEF wrlock_event_types, Loading, Cleaning
<1>9. ASSUME redis_subscribe_to_channels PROVE TypeOK'
  <2>1. sub' \in [Types -> {"null", "live", "stale"}]
    BY <1>9 DEF redis_subscribe_to_channels
  <2>2. obuf' \in [Conns -> Seq(Command)] /\ fault' \in Faults
    BY <1>9, CommandStep DEF redis_subscribe_to_channels, Conns
  <2>3. modi' \in Types /\ event_types_lock' \in BOOLEAN
    BY <1>9, NextEntryStep DEF redis_subscribe_to_channels
  <2>4. modpc' \in Loading \cup Cleaning \cup {"declined", "loaded", "unloaded"}
    BY <1>9, NextEntryStep DEF redis_subscribe_to_channels, Loading, Cleaning
  <2> QED
    BY <1>9, <2>1, <2>2, <2>3, <2>4 DEF redis_subscribe_to_channels
<1>10. ASSUME wrlock_event_types("c_lock", "c_unsub") PROVE TypeOK'
  BY <1>10 DEF wrlock_event_types, Loading, Cleaning
<1>11. ASSUME redis_unsubscribe_from_channels PROVE TypeOK'
  <2>1. sub' \in [Types -> {"null", "live", "stale"}]
    BY <1>11 DEF redis_unsubscribe_from_channels, ast_event_unsubscribe
  <2>2. obuf' \in [Conns -> Seq(Command)] /\ fault' \in Faults
    BY <1>11, CommandStep DEF redis_unsubscribe_from_channels, Conns
  <2>3. modi' \in Types /\ event_types_lock' \in BOOLEAN
    BY <1>11, NextEntryStep DEF redis_unsubscribe_from_channels
  <2>4. modpc' \in Loading \cup Cleaning \cup {"declined", "loaded", "unloaded"}
    BY <1>11, NextEntryStep DEF redis_unsubscribe_from_channels, Loading,
       Cleaning
  <2> QED
    BY <1>11, <2>1, <2>2, <2>3, <2>4 DEF redis_unsubscribe_from_channels
<1>12. ASSUME cleanup_event_type PROVE TypeOK'
  BY <1>12, NextEntryStep DEF cleanup_event_type, Loading, Cleaning
<1>13. ASSUME stop_loop PROVE TypeOK'
  BY <1>13 DEF stop_loop, Loading, Cleaning, Faults
<1>14. ASSUME kill_loop PROVE TypeOK'
  BY <1>14 DEF kill_loop, Loading, Cleaning
<1>15. ASSUME join_loop PROVE TypeOK'
  BY <1>15 DEF join_loop, Loading, Cleaning
<1>16. ASSUME unload_module PROVE TypeOK'
  BY <1>16 DEF unload_module, Loading, Cleaning
<1>17. ASSUME dispatch_thread_handler PROVE TypeOK'
  BY <1>17 DEF dispatch_thread_handler, Faults
<1>18. ASSUME event_base_dispatch PROVE TypeOK'
  BY <1>18 DEF event_base_dispatch
<1>19. ASSUME check_break PROVE TypeOK'
  BY <1>19 DEF check_break
<1>20. ASSUME epoll_wait PROVE TypeOK'
  BY <1>20 DEF epoll_wait
<1>21. ASSUME NEW c \in Conns, redis_connect_cb(c) PROVE TypeOK'
  BY <1>21 DEF redis_connect_cb
<1>22. ASSUME NEW c \in Conns, redis_disconnect_cb(c) PROVE TypeOK'
  BY <1>22, EmptySeq DEF redis_disconnect_cb
<1>23. ASSUME NEW c \in Conns, redisBufferWrite(c) PROVE TypeOK'
  BY <1>23, CommandType, EventType DEF redisBufferWrite, Flush, Flush
<1>24. ASSUME NEW c \in Conns, redisBufferWritten(c) PROVE TypeOK'
  BY <1>24 DEF redisBufferWritten, Flushing, LoopInv, IInv
<1>25. ASSUME redis_reply PROVE TypeOK'
  BY <1>25 DEF redis_reply
<1>26. ASSUME redis_subscription_cb_lookup PROVE TypeOK'
  BY <1>26 DEF redis_subscription_cb_lookup
<1>27. ASSUME redis_subscription_cb_match PROVE TypeOK'
  BY <1>27 DEF redis_subscription_cb_match, Faults
<1>28. ASSUME redis_subscription_cb_publish PROVE TypeOK'
  BY <1>28 DEF redis_subscription_cb_publish
<1>29. ASSUME redis_subscription_cb_decode PROVE TypeOK'
  <2>1. evq' \in Seq(Event)
    <3>1. Decoded(loopmsg) \in Seq(Event)
      BY DecodedType
    <3>2. evq \o Decoded(loopmsg) \in Seq(Event)
      BY <3>1
    <3> QED
      BY <1>29, <3>2 DEF redis_subscription_cb_decode
  <2>2. cached' \subseteq Types
    BY <1>29, EventType DEF redis_subscription_cb_decode
  <2> QED
    BY <1>29, <2>1, <2>2 DEF redis_subscription_cb_decode, Faults
<1>30. ASSUME dispatch_event PROVE TypeOK'
  BY <1>30 DEF dispatch_event
<1>31. ASSUME ast_event_cb_origin PROVE TypeOK'
  BY <1>31 DEF ast_event_cb_origin
<1>32. ASSUME ast_event_cb_etype PROVE TypeOK'
  BY <1>32 DEF ast_event_cb_etype
<1>33. ASSUME ast_event_cb_publish PROVE TypeOK'
  BY <1>33 DEF ast_event_cb_publish
<1>34. ASSUME ast_event_cb_send PROVE TypeOK'
  BY <1>34, CommandStep, EventType DEF ast_event_cb_send, Conns, Faults
<1>35. ASSUME NEW t \in Configurable, ast_event_queue_and_cache(t) PROVE TypeOK'
  BY <1>35, EventType DEF ast_event_queue_and_cache, Configurable
<1>36. ASSUME redis_ping PROVE TypeOK'
  BY <1>36, EventType DEF redis_ping, AST_EVENT_PING, Types
<1>37. ASSUME NEW t \in Types, NEW o \in Origins \ {"self"},
              remote_publish(t, o)
       PROVE  TypeOK'
  BY <1>37, EventType DEF remote_publish
<1>38. ASSUME NEW s \in Servers, server_dies(s) PROVE TypeOK'
  BY <1>38 DEF server_dies
<1>39. CASE UNCHANGED vars
  BY <1>39 DEF vars
<1> QED
  BY <1>1, <1>2, <1>3, <1>4, <1>5, <1>6, <1>7, <1>8, <1>9, <1>10, <1>11, <1>12,
     <1>13, <1>14, <1>15, <1>16, <1>17, <1>18, <1>19, <1>20, <1>21, <1>22,
     <1>23, <1>24, <1>25, <1>26, <1>27, <1>28, <1>29, <1>30, <1>31, <1>32,
     <1>33, <1>34, <1>35, <1>36, <1>37, <1>38, <1>39
  DEF Next, Load, Cleanup, Loop, Evt, Environment

(* The dispatch thread changes no entry and no other thread.               *)
LEMMA LoopFrame ==
  Loop => UNCHANGED <<modVars, evtVars, typeVars, servers, curserver, up,
                      signal>>
BY DEF Loop, dispatch_thread_handler, event_base_dispatch, check_break,
     epoll_wait, redis_connect_cb, redis_disconnect_cb, redisBufferWrite,
     redisBufferWritten, redis_reply, redis_subscription_cb_lookup,
     redis_subscription_cb_match, redis_subscription_cb_publish,
     redis_subscription_cb_decode, modVars, evtVars, typeVars, loopVars,
     connVars, redisVars, astVars

(* ast_event_cb changes no entry, no connection and no other thread.       *)
LEMMA EvtFrame ==
  Evt => UNCHANGED <<modVars, looppc, typeVars, servers, curserver, redisConn,
                     up>>
BY DEF Evt, dispatch_event, ast_event_cb_origin, ast_event_cb_etype,
     ast_event_cb_publish, ast_event_cb_send, modVars, evtVars, typeVars,
     loopVars, connVars, redisVars, astVars

(* The environment changes none of the module's state.                     *)
LEMMA EnvironmentFrame ==
  Environment => /\ UNCHANGED <<modVars, looppc, evtVars, typeVars, connVars,
                                fault>>
                 /\ up' \subseteq up
BY DEF Environment, ast_event_queue_and_cache, redis_ping, remote_publish,
     server_dies, modVars, evtVars, typeVars, loopVars, connVars, redisVars,
     astVars

(* Every step keeps ModInv: the loops reset their index and release the    *)
(* lock after the last entry.                                              *)
LEMMA ModStep == IInv /\ [Next]_vars => ModInv'
<1> SUFFICES ASSUME IInv, [Next]_vars PROVE ModInv'
  OBVIOUS
<1> USE ConstantsAssumption DEF IInv, TypeOK, ModInv, Types, modVars,
     loopVars, evtVars, typeVars, connVars, redisVars, astVars
<1>1. CASE load_config_missing
  BY <1>1 DEF load_config_missing
<1>2. CASE load_config
  BY <1>2 DEF load_config
<1>3. CASE load_config_no_general
  BY <1>3 DEF load_config_no_general
<1>4. CASE redis_connect_nextserver
  BY <1>4 DEF redis_connect_nextserver
<1>5. CASE redis_connect_exhausted
  BY <1>5 DEF redis_connect_exhausted
<1>6. CASE spawn_dispatch_thread
  BY <1>6 DEF spawn_dispatch_thread
<1>7. CASE redis_dump_ast_event_cache
  BY <1>7 DEF redis_dump_ast_event_cache, NextEntry
<1>8. CASE wrlock_event_types("lock", "subscribe")
  BY <1>8 DEF wrlock_event_types
<1>9. CASE redis_subscribe_to_channels
  <2>1. event_types_lock' = (modi < NTypes)
    BY <1>9 DEF redis_subscribe_to_channels
  <2>2. CASE modi < NTypes
    <3>1. modpc' = "subscribe"
      BY <1>9, <2>2 DEF redis_subscribe_to_channels, NextEntry
    <3>2. event_types_lock'
      BY <2>1, <2>2, Zenon
    <3> QED
      BY <3>1, <3>2
  <2>3. CASE ~(modi < NTypes)
    <3>1. modpc' = "loaded" /\ modi' = 1
      BY <1>9, <2>3 DEF redis_subscribe_to_channels, NextEntry
    <3>2. ~event_types_lock'
      BY <2>1, <2>3, Zenon
    <3> QED
      BY <3>1, <3>2
  <2> QED
    BY <2>2, <2>3
<1>10. CASE wrlock_event_types("c_lock", "c_unsub")
  BY <1>10 DEF wrlock_event_types
<1>11. CASE redis_unsubscribe_from_channels
  <2>1. event_types_lock' = (modi < NTypes)
    BY <1>11 DEF redis_unsubscribe_from_channels
  <2>2. CASE modi < NTypes
    <3>1. modpc' = "c_unsub"
      BY <1>11, <2>2 DEF redis_unsubscribe_from_channels, NextEntry
    <3>2. event_types_lock'
      BY <2>1, <2>2, Zenon
    <3> QED
      BY <3>1, <3>2
  <2>3. CASE ~(modi < NTypes)
    <3>1. modpc' = "c_free" /\ modi' = 1
      BY <1>11, <2>3 DEF redis_unsubscribe_from_channels, NextEntry
    <3>2. ~event_types_lock'
      BY <2>1, <2>3, Zenon
    <3> QED
      BY <3>1, <3>2
  <2> QED
    BY <2>2, <2>3
<1>12. CASE cleanup_event_type
  BY <1>12 DEF cleanup_event_type, NextEntry
<1>13. CASE stop_loop
  BY <1>13 DEF stop_loop
<1>14. CASE kill_loop
  BY <1>14 DEF kill_loop
<1>15. CASE join_loop
  BY <1>15 DEF join_loop
<1>16. CASE unload_module
  BY <1>16 DEF unload_module
<1>17. CASE Loop
  BY <1>17, LoopFrame
<1>18. CASE Evt
  BY <1>18, EvtFrame
<1>19. CASE Environment
  BY <1>19, EnvironmentFrame
<1>20. CASE UNCHANGED vars
  BY <1>20 DEF vars
<1> QED
  BY <1>1, <1>2, <1>3, <1>4, <1>5, <1>6, <1>7, <1>8, <1>9, <1>10, <1>11,
       <1>12, <1>13, <1>14, <1>15, <1>16, <1>17, <1>18, <1>19, <1>20 DEF
       Next, Load, Cleanup

(* Every step keeps EntryInv: nothing is subscribed after the unsubscribe  *)
(* loop, and cleanup_module only resets what is not subscribed.            *)
LEMMA EntryStep == IInv /\ [Next]_vars => EntryInv'
<1> SUFFICES ASSUME IInv, [Next]_vars PROVE EntryInv'
  OBVIOUS
<1> USE ConstantsAssumption DEF IInv, TypeOK, EntryInv, ModInv, modVars,
     loopVars, evtVars, typeVars, connVars, redisVars, astVars
<1>1. CASE load_config_missing
  BY <1>1 DEF load_config_missing
<1>2. CASE load_config
  BY <1>2 DEF load_config
<1>3. CASE load_config_no_general
  BY <1>3 DEF load_config_no_general
<1>4. CASE redis_connect_nextserver
  BY <1>4 DEF redis_connect_nextserver
<1>5. CASE redis_connect_exhausted
  BY <1>5 DEF redis_connect_exhausted
<1>6. CASE spawn_dispatch_thread
  BY <1>6 DEF spawn_dispatch_thread
<1>7. CASE redis_dump_ast_event_cache
  BY <1>7 DEF redis_dump_ast_event_cache, NextEntry, Types
<1>8. CASE wrlock_event_types("lock", "subscribe")
  BY <1>8 DEF wrlock_event_types
<1>9. CASE redis_subscribe_to_channels
  BY <1>9 DEF redis_subscribe_to_channels, NextEntry, Types
<1>10. CASE wrlock_event_types("c_lock", "c_unsub")
  BY <1>10 DEF wrlock_event_types, Types
<1>11. CASE redis_unsubscribe_from_channels
  BY <1>11 DEF redis_unsubscribe_from_channels, NextEntry,
       ast_event_unsubscribe, Types
<1>12. CASE cleanup_event_type
  BY <1>12 DEF cleanup_event_type, NextEntry, Types
<1>13. CASE stop_loop
  BY <1>13 DEF stop_loop
<1>14. CASE kill_loop
  BY <1>14 DEF kill_loop
<1>15. CASE join_loop
  BY <1>15 DEF join_loop
<1>16. CASE unload_module
  BY <1>16 DEF unload_module
<1>17. CASE Loop
  BY <1>17, LoopFrame
<1>18. CASE Evt
  BY <1>18, EvtFrame
<1>19. CASE Environment
  BY <1>19, EnvironmentFrame
<1>20. CASE UNCHANGED vars
  BY <1>20 DEF vars
<1> QED
  BY <1>1, <1>2, <1>3, <1>4, <1>5, <1>6, <1>7, <1>8, <1>9, <1>10, <1>11,
       <1>12, <1>13, <1>14, <1>15, <1>16, <1>17, <1>18, <1>19, <1>20 DEF
       Next, Load, Cleanup

(* Every step keeps EvtInv: ast_event_unsubscribe waits for a callback.    *)
LEMMA EvtStep == IInv /\ [Next]_vars => EvtInv'
<1> SUFFICES ASSUME IInv, [Next]_vars PROVE EvtInv'
  OBVIOUS
<1> USE DEF IInv, TypeOK, EvtInv, EntryInv, modVars, loopVars, evtVars,
     typeVars, connVars, redisVars, astVars
<1>1. CASE load_config_missing
  BY <1>1 DEF load_config_missing
<1>2. CASE load_config
  BY <1>2 DEF load_config
<1>3. CASE load_config_no_general
  BY <1>3 DEF load_config_no_general
<1>4. CASE redis_connect_nextserver
  BY <1>4 DEF redis_connect_nextserver
<1>5. CASE redis_connect_exhausted
  BY <1>5 DEF redis_connect_exhausted
<1>6. CASE spawn_dispatch_thread
  BY <1>6 DEF spawn_dispatch_thread
<1>7. CASE redis_dump_ast_event_cache
  BY <1>7 DEF redis_dump_ast_event_cache
<1>8. CASE wrlock_event_types("lock", "subscribe")
  BY <1>8 DEF wrlock_event_types
<1>9. CASE redis_subscribe_to_channels
  BY <1>9, EventType DEF redis_subscribe_to_channels
<1>10. CASE wrlock_event_types("c_lock", "c_unsub")
  BY <1>10 DEF wrlock_event_types
<1>11. CASE redis_unsubscribe_from_channels
  <2>1. CASE publish[modi] /\ sub[modi] # "null"
    <3>1. evtpc # "idle" => evtev.type # modi
      BY <1>11, <2>1 DEF redis_unsubscribe_from_channels,
         ast_event_unsubscribe, InCallback
    <3> QED
      BY <1>11, <2>1, <3>1, EventType
         DEF redis_unsubscribe_from_channels, ast_event_unsubscribe
  <2>2. CASE ~(publish[modi] /\ sub[modi] # "null")
    BY <1>11, <2>2 DEF redis_unsubscribe_from_channels, ast_event_unsubscribe
  <2> QED
    BY <2>1, <2>2
<1>12. CASE cleanup_event_type
  BY <1>12 DEF cleanup_event_type
<1>13. CASE stop_loop
  BY <1>13 DEF stop_loop
<1>14. CASE kill_loop
  BY <1>14 DEF kill_loop
<1>15. CASE join_loop
  BY <1>15 DEF join_loop
<1>16. CASE unload_module
  BY <1>16 DEF unload_module
<1>17. CASE Loop
  BY <1>17, LoopFrame
<1>18. CASE dispatch_event
  BY <1>18 DEF dispatch_event
<1>19. CASE ast_event_cb_origin
  BY <1>19 DEF ast_event_cb_origin
<1>20. CASE ast_event_cb_etype
  BY <1>20 DEF ast_event_cb_etype
<1>21. CASE ast_event_cb_publish
  BY <1>21 DEF ast_event_cb_publish
<1>22. CASE ast_event_cb_send
  BY <1>22 DEF ast_event_cb_send
<1>23. CASE Environment
  BY <1>23, EnvironmentFrame
<1>24. CASE UNCHANGED vars
  BY <1>24 DEF vars
<1> QED
  BY <1>1, <1>2, <1>3, <1>4, <1>5, <1>6, <1>7, <1>8, <1>9, <1>10, <1>11,
       <1>12, <1>13, <1>14, <1>15, <1>16, <1>17, <1>18, <1>19, <1>20, <1>21,
       <1>22, <1>23, <1>24 DEF Next, Load, Cleanup, Evt

(* Every step keeps LoopInv.                                               *)
LEMMA LoopStep == IInv /\ [Next]_vars => LoopInv'
<1> SUFFICES ASSUME IInv, [Next]_vars PROVE LoopInv'
  OBVIOUS
<1> USE DEF IInv, TypeOK, LoopInv, Flushing, Flush, Conns, modVars,
     loopVars, evtVars, typeVars, connVars, redisVars, astVars
<1>1. CASE load_config_missing
  BY <1>1 DEF load_config_missing
<1>2. CASE load_config
  BY <1>2 DEF load_config
<1>3. CASE load_config_no_general
  BY <1>3 DEF load_config_no_general
<1>4. CASE redis_connect_nextserver
  BY <1>4 DEF redis_connect_nextserver
<1>5. CASE redis_connect_exhausted
  BY <1>5 DEF redis_connect_exhausted
<1>6. CASE spawn_dispatch_thread
  BY <1>6 DEF spawn_dispatch_thread
<1>7. CASE redis_dump_ast_event_cache
  BY <1>7 DEF redis_dump_ast_event_cache, NextEntry, redisAsyncCommand
<1>8. CASE wrlock_event_types("lock", "subscribe")
  BY <1>8 DEF wrlock_event_types
<1>9. CASE redis_subscribe_to_channels
  BY <1>9 DEF redis_subscribe_to_channels, NextEntry, redisAsyncCommand
<1>10. CASE wrlock_event_types("c_lock", "c_unsub")
  BY <1>10 DEF wrlock_event_types
<1>11. CASE redis_unsubscribe_from_channels
  BY <1>11 DEF redis_unsubscribe_from_channels, NextEntry, redisAsyncCommand
<1>12. CASE cleanup_event_type
  BY <1>12 DEF cleanup_event_type, NextEntry, redisAsyncCommand
<1>13. CASE stop_loop
  BY <1>13 DEF stop_loop
<1>14. CASE kill_loop
  BY <1>14 DEF kill_loop
<1>15. CASE join_loop
  BY <1>15 DEF join_loop
<1>16. CASE unload_module
  BY <1>16 DEF unload_module
<1>17. CASE dispatch_thread_handler
  BY <1>17 DEF dispatch_thread_handler
<1>18. CASE event_base_dispatch
  BY <1>18 DEF event_base_dispatch
<1>19. CASE check_break
  BY <1>19 DEF check_break
<1>20. CASE epoll_wait
  BY <1>20 DEF epoll_wait
<1>21. ASSUME NEW c \in Conns, redis_connect_cb(c) PROVE LoopInv'
  BY <1>21 DEF redis_connect_cb
<1>22. ASSUME NEW c \in Conns, redis_disconnect_cb(c) PROVE LoopInv'
  BY <1>22 DEF redis_disconnect_cb
<1>23. ASSUME NEW c \in Conns, redisBufferWrite(c) PROVE LoopInv'
  BY <1>23 DEF redisBufferWrite
<1>24. ASSUME NEW c \in Conns, redisBufferWritten(c) PROVE LoopInv'
  BY <1>24 DEF redisBufferWritten
<1>25. CASE redis_reply
  BY <1>25 DEF redis_reply
<1>26. CASE redis_subscription_cb_lookup
  BY <1>26 DEF redis_subscription_cb_lookup
<1>27. CASE redis_subscription_cb_match
  BY <1>27 DEF redis_subscription_cb_match
<1>28. CASE redis_subscription_cb_publish
  BY <1>28 DEF redis_subscription_cb_publish
<1>29. CASE redis_subscription_cb_decode
  BY <1>29 DEF redis_subscription_cb_decode
<1>30. CASE dispatch_event
  BY <1>30 DEF dispatch_event
<1>31. CASE ast_event_cb_origin
  BY <1>31 DEF ast_event_cb_origin
<1>32. CASE ast_event_cb_etype
  BY <1>32 DEF ast_event_cb_etype
<1>33. CASE ast_event_cb_publish
  BY <1>33 DEF ast_event_cb_publish
<1>34. CASE ast_event_cb_send
  BY <1>34 DEF ast_event_cb_send, redisAsyncCommand
<1>35. CASE Environment
  BY <1>35, EnvironmentFrame
<1>36. CASE UNCHANGED vars
  BY <1>36 DEF vars
<1> QED
  BY <1>1, <1>2, <1>3, <1>4, <1>5, <1>6, <1>7, <1>8, <1>9, <1>10, <1>11,
       <1>12, <1>13, <1>14, <1>15, <1>16, <1>17, <1>18, <1>19, <1>20, <1>21,
       <1>22, <1>23, <1>24, <1>25, <1>26, <1>27, <1>28, <1>29, <1>30, <1>31,
       <1>32, <1>33, <1>34, <1>35, <1>36 DEF Next, Load, Cleanup, Loop, Evt

(* Every step keeps ConnInv.                                               *)
LEMMA ConnStep == IInv /\ [Next]_vars => ConnInv'
<1> SUFFICES ASSUME IInv, [Next]_vars PROVE ConnInv'
  OBVIOUS
<1> USE DEF IInv, TypeOK, ConnInv, LoopInv, modVars, loopVars, evtVars,
     typeVars, connVars, redisVars, astVars
<1>1. CASE load_config_missing
  BY <1>1 DEF load_config_missing
<1>2. CASE load_config
  BY <1>2 DEF load_config
<1>3. CASE load_config_no_general
  BY <1>3 DEF load_config_no_general
<1>4. CASE redis_connect_nextserver
  BY <1>4 DEF redis_connect_nextserver, HasNextServer, Dial, Conns
<1>5. CASE redis_connect_exhausted
  BY <1>5 DEF redis_connect_exhausted, HasNextServer
<1>6. CASE spawn_dispatch_thread
  BY <1>6 DEF spawn_dispatch_thread
<1>7. CASE redis_dump_ast_event_cache
  BY <1>7 DEF redis_dump_ast_event_cache, NextEntry
<1>8. CASE wrlock_event_types("lock", "subscribe")
  BY <1>8 DEF wrlock_event_types
<1>9. CASE redis_subscribe_to_channels
  BY <1>9 DEF redis_subscribe_to_channels, NextEntry
<1>10. CASE wrlock_event_types("c_lock", "c_unsub")
  BY <1>10 DEF wrlock_event_types
<1>11. CASE redis_unsubscribe_from_channels
  BY <1>11 DEF redis_unsubscribe_from_channels, NextEntry
<1>12. CASE cleanup_event_type
  BY <1>12 DEF cleanup_event_type, NextEntry
<1>13. CASE stop_loop
  BY <1>13 DEF stop_loop
<1>14. CASE kill_loop
  BY <1>14 DEF kill_loop
<1>15. CASE join_loop
  BY <1>15 DEF join_loop
<1>16. CASE unload_module
  BY <1>16 DEF unload_module
<1>17. CASE dispatch_thread_handler
  BY <1>17 DEF dispatch_thread_handler
<1>18. CASE event_base_dispatch
  BY <1>18 DEF event_base_dispatch
<1>19. CASE check_break
  BY <1>19 DEF check_break
<1>20. CASE epoll_wait
  BY <1>20 DEF epoll_wait
<1>21. ASSUME NEW c \in Conns, redis_connect_cb(c) PROVE ConnInv'
  BY <1>21 DEF redis_connect_cb
<1>22. ASSUME NEW c \in Conns, redis_disconnect_cb(c) PROVE ConnInv'
  BY <1>22 DEF redis_disconnect_cb
<1>23. ASSUME NEW c \in Conns, redisBufferWrite(c) PROVE ConnInv'
  BY <1>23 DEF redisBufferWrite
<1>24. ASSUME NEW c \in Conns, redisBufferWritten(c) PROVE ConnInv'
  BY <1>24 DEF redisBufferWritten
<1>25. CASE redis_reply
  BY <1>25 DEF redis_reply
<1>26. CASE redis_subscription_cb_lookup
  BY <1>26 DEF redis_subscription_cb_lookup
<1>27. CASE redis_subscription_cb_match
  BY <1>27 DEF redis_subscription_cb_match
<1>28. CASE redis_subscription_cb_publish
  BY <1>28 DEF redis_subscription_cb_publish
<1>29. CASE redis_subscription_cb_decode
  BY <1>29 DEF redis_subscription_cb_decode
<1>30. CASE Evt
  BY <1>30, EvtFrame
<1>31. CASE Environment
  BY <1>31, EnvironmentFrame
<1>32. CASE UNCHANGED vars
  BY <1>32 DEF vars
<1> QED
  BY <1>1, <1>2, <1>3, <1>4, <1>5, <1>6, <1>7, <1>8, <1>9, <1>10, <1>11,
       <1>12, <1>13, <1>14, <1>15, <1>16, <1>17, <1>18, <1>19, <1>20, <1>21,
       <1>22, <1>23, <1>24, <1>25, <1>26, <1>27, <1>28, <1>29, <1>30, <1>31,
       <1>32 DEF Next, Load, Cleanup, Loop

(* Every step keeps EvtChannelSafe: a running callback has a channel.      *)
LEMMA EvtChannelStep == IInv /\ [Next]_vars => EvtChannelSafe'
<1> SUFFICES ASSUME IInv, [Next]_vars PROVE EvtChannelSafe'
  OBVIOUS
<1> USE DEF IInv, TypeOK, EvtChannelSafe, EntryInv, EvtInv, modVars,
     loopVars, evtVars, typeVars, connVars, redisVars, astVars
<1>1. CASE load_config_missing
  BY <1>1 DEF load_config_missing
<1>2. CASE load_config
  BY <1>2 DEF load_config
<1>3. CASE load_config_no_general
  BY <1>3 DEF load_config_no_general
<1>4. CASE redis_connect_nextserver
  BY <1>4 DEF redis_connect_nextserver
<1>5. CASE redis_connect_exhausted
  BY <1>5 DEF redis_connect_exhausted
<1>6. CASE spawn_dispatch_thread
  BY <1>6 DEF spawn_dispatch_thread
<1>7. CASE redis_dump_ast_event_cache
  BY <1>7 DEF redis_dump_ast_event_cache, redisAsyncCommand
<1>8. CASE wrlock_event_types("lock", "subscribe")
  BY <1>8 DEF wrlock_event_types
<1>9. CASE redis_subscribe_to_channels
  BY <1>9 DEF redis_subscribe_to_channels, redisAsyncCommand
<1>10. CASE wrlock_event_types("c_lock", "c_unsub")
  BY <1>10 DEF wrlock_event_types
<1>11. CASE redis_unsubscribe_from_channels
  BY <1>11 DEF redis_unsubscribe_from_channels, redisAsyncCommand
<1>12. CASE cleanup_event_type
  BY <1>12 DEF cleanup_event_type, redisAsyncCommand
<1>13. CASE stop_loop
  BY <1>13 DEF stop_loop
<1>14. CASE kill_loop
  BY <1>14 DEF kill_loop
<1>15. CASE join_loop
  BY <1>15 DEF join_loop
<1>16. CASE unload_module
  BY <1>16 DEF unload_module
<1>17. CASE dispatch_thread_handler
  BY <1>17 DEF dispatch_thread_handler
<1>18. CASE event_base_dispatch
  BY <1>18 DEF event_base_dispatch
<1>19. CASE check_break
  BY <1>19 DEF check_break
<1>20. CASE epoll_wait
  BY <1>20 DEF epoll_wait
<1>21. ASSUME NEW c \in Conns, redis_connect_cb(c) PROVE EvtChannelSafe'
  BY <1>21 DEF redis_connect_cb
<1>22. ASSUME NEW c \in Conns, redis_disconnect_cb(c) PROVE EvtChannelSafe'
  BY <1>22 DEF redis_disconnect_cb
<1>23. ASSUME NEW c \in Conns, redisBufferWrite(c) PROVE EvtChannelSafe'
  BY <1>23 DEF redisBufferWrite
<1>24. ASSUME NEW c \in Conns, redisBufferWritten(c) PROVE EvtChannelSafe'
  BY <1>24 DEF redisBufferWritten
<1>25. CASE redis_reply
  BY <1>25 DEF redis_reply
<1>26. CASE redis_subscription_cb_lookup
  BY <1>26 DEF redis_subscription_cb_lookup
<1>27. CASE redis_subscription_cb_match
  BY <1>27 DEF redis_subscription_cb_match
<1>28. CASE redis_subscription_cb_publish
  BY <1>28 DEF redis_subscription_cb_publish
<1>29. CASE redis_subscription_cb_decode
  BY <1>29 DEF redis_subscription_cb_decode
<1>30. CASE dispatch_event
  BY <1>30 DEF dispatch_event
<1>31. CASE ast_event_cb_origin
  BY <1>31 DEF ast_event_cb_origin
<1>32. CASE ast_event_cb_etype
  BY <1>32 DEF ast_event_cb_etype
<1>33. CASE ast_event_cb_publish
  BY <1>33 DEF ast_event_cb_publish
<1>34. CASE ast_event_cb_send
  BY <1>34, EventType DEF ast_event_cb_send, redisAsyncCommand
<1>35. CASE Environment
  BY <1>35, EnvironmentFrame
<1>36. CASE UNCHANGED vars
  BY <1>36 DEF vars
<1> QED
  BY <1>1, <1>2, <1>3, <1>4, <1>5, <1>6, <1>7, <1>8, <1>9, <1>10, <1>11,
       <1>12, <1>13, <1>14, <1>15, <1>16, <1>17, <1>18, <1>19, <1>20, <1>21,
       <1>22, <1>23, <1>24, <1>25, <1>26, <1>27, <1>28, <1>29, <1>30, <1>31,
       <1>32, <1>33, <1>34, <1>35, <1>36 DEF Next, Load, Cleanup, Loop, Evt

(* A use of a dead context has a cause.                                    *)
LEMMA ContextStep == IInv /\ [Next]_vars => ContextSafeIfHealthy'
<1> DEFINE Cause == servers = 0 \/ \E s \in 1..curserver : s \notin up
           Dead  == /\ \E c \in Conns : redisConn[c] \in {"null", "freed"}
                    /\ modpc \notin {"boot", "declined", "connect"}
                    /\ UNCHANGED <<servers, curserver, up>>
           Ctx   == {"mod_context", "loop_context", "evt_context"}
<1> SUFFICES ASSUME IInv, Next, fault' \in Ctx PROVE Cause'
  BY DEF vars, connVars, redisVars, IInv, ContextSafeIfHealthy
<1>1. fault = "none"
  BY DEF Next, Running
<1>2. Dead
  <2> USE <1>1 DEF modVars, loopVars, evtVars, typeVars, connVars, redisVars,
         astVars
  <2>1. CASE Load
    <3>1. CASE redis_dump_ast_event_cache
      BY <3>1 DEF redis_dump_ast_event_cache, redisAsyncCommand, Conns
    <3>2. CASE redis_subscribe_to_channels
      BY <3>2 DEF redis_subscribe_to_channels, redisAsyncCommand, Conns
    <3> QED
      BY <2>1, <3>1, <3>2 DEF Load, load_config_missing, load_config,
         load_config_no_general, redis_connect_nextserver,
         redis_connect_exhausted, spawn_dispatch_thread, wrlock_event_types
  <2>2. CASE Cleanup
    <3>1. CASE redis_unsubscribe_from_channels
      BY <3>1 DEF redis_unsubscribe_from_channels, redisAsyncCommand, Conns
    <3> QED
      BY <2>2, <3>1 DEF Cleanup, wrlock_event_types, cleanup_event_type,
         stop_loop, kill_loop, join_loop
  <2>3. CASE unload_module
    BY <2>3 DEF unload_module
  <2>4. CASE Loop
    <3>1. CASE dispatch_thread_handler
      BY <3>1 DEF dispatch_thread_handler, IInv, LoopInv
    <3> QED
      BY <2>4, <3>1 DEF Loop, event_base_dispatch, check_break, epoll_wait,
         redis_connect_cb, redis_disconnect_cb, redisBufferWrite,
         redisBufferWritten, redis_reply, redis_subscription_cb_lookup,
         redis_subscription_cb_match, redis_subscription_cb_publish,
         redis_subscription_cb_decode
  <2>5. CASE Evt
    <3>1. CASE ast_event_cb_send
      <4>1. sub[evtev.type] = "live" /\ evtev.type \in Types
        BY <3>1, EventType DEF ast_event_cb_send, IInv, EvtInv, TypeOK
      <4>2. modpc \notin {"boot", "declined", "connect"}
        BY <4>1 DEF IInv, EntryInv
      <4> QED
        BY <3>1, <4>2 DEF ast_event_cb_send, redisAsyncCommand, Conns
    <3> QED
      BY <2>5, <3>1 DEF Evt, dispatch_event, ast_event_cb_origin,
         ast_event_cb_etype, ast_event_cb_publish
  <2>6. CASE Environment
    BY <2>6, EnvironmentFrame
  <2> QED
    BY <2>1, <2>2, <2>3, <2>4, <2>5, <2>6 DEF Next
<1>3. Cause
  <2>1. PICK c \in Conns : redisConn[c] \in {"null", "freed"}
    BY <1>2
  <2>2. CASE redisConn[c] = "null"
    BY <1>2, <2>2 DEF IInv, ConnInv
  <2>3. CASE redisConn[c] = "freed"
    <3>1. curserver \in 1..curserver
      BY <2>3 DEF IInv, TypeOK, ConnInv
    <3> QED
      BY <2>3, <3>1 DEF IInv, ConnInv
  <2> QED
    BY <2>1, <2>2, <2>3
<1> QED
  BY <1>2, <1>3
-----------------------------------------------------------------------------
(* The initial state satisfies the invariant.                              *)
LEMMA InitIInv == Init => IInv
<1> SUFFICES ASSUME Init PROVE IInv
  OBVIOUS
<1>1. TypeOK
  <2>1. NoEvent \in Event
    BY ConstantsAssumption
       DEF NoEvent, Event, Origins, AST_EVENT_PING, Types
  <2>2. /\ modi \in Types /\ servers \in 0..MaxServers
        /\ curserver \in 0..servers /\ produced \in 0..MaxEvents
    BY ConstantsAssumption DEF Init, Types
  <2>3. /\ obuf \in [Conns -> Seq(Command)]
        /\ inbox \in Seq(Event) /\ evq \in Seq(Event)
    BY EmptySeq DEF Init
  <2> QED
    BY <2>1, <2>2, <2>3 DEF Init, TypeOK, Loading, Cleaning, Faults
<1>2. ModInv /\ EntryInv /\ EvtInv
  BY DEF Init, ModInv, EntryInv, EvtInv
<1>3. LoopInv /\ ConnInv
  BY DEF Init, LoopInv, ConnInv, Flushing, Flush
<1>4. EvtChannelSafe /\ ContextSafeIfHealthy
  BY DEF Init, EvtChannelSafe, ContextSafeIfHealthy
<1> QED
  BY <1>1, <1>2, <1>3, <1>4 DEF IInv

(* The invariant is inductive, hence it always holds.                      *)
THEOREM Invariance == Spec => []IInv
<1>1. IInv /\ [Next]_vars => IInv'
  BY TypeStep, ModStep, EntryStep, EvtStep, LoopStep, ConnStep,
     EvtChannelStep, ContextStep DEF IInv
<1> QED
  BY InitIInv, <1>1, PTL DEF Spec

(* Every variable has its type: in particular the walk of the servers list *)
(* and the loops over event_types stay inside, however many there are.     *)
THEOREM TypeCorrect == Spec => []TypeOK
BY Invariance, PTL DEF IInv

(* ast_event_cb never uses a channel name that cleanup_module has freed.   *)
THEOREM EvtChannelCorrect == Spec => []EvtChannelSafe
BY Invariance, PTL DEF IInv

(* With healthy servers no thread ever uses a dead redis context.          *)
THEOREM ContextCorrect == Spec => []ContextSafeIfHealthy
BY Invariance, PTL DEF IInv

(* When unload_module has returned, no thread is in the module's code, and *)
(* none will call it.                                                      *)
THEOREM UnloadCorrect == Spec => []QuietAfterUnload
<1>1. IInv => QuietAfterUnload
  <2> SUFFICES ASSUME IInv, modpc = "unloaded"
               PROVE  /\ evtpc = "idle"
                      /\ looppc \in {"none", "exited"}
                      /\ \A t \in Types : sub[t] # "live"
                      /\ ~event_types_lock
    BY DEF QuietAfterUnload
  <2>1. \A t \in Types : sub[t] # "live"
    BY DEF IInv, EntryInv
  <2>2. evtpc = "idle"
    BY <2>1, EventType DEF IInv, TypeOK, EvtInv
  <2>3. looppc \in {"none", "exited"} /\ ~event_types_lock
    BY DEF IInv, LoopInv, ModInv
  <2> QED
    BY <2>1, <2>2, <2>3
<1> QED
  BY Invariance, <1>1, PTL

(* The entry a callback works on does not change under it: only load_config*)
(* and cleanup_module write entries, the one before anything is subscribed,*)
(* the other after the unsubscribe loop has waited for every callback.     *)
THEOREM EntryStable == Spec => EntryStableInCallback
<1>1. IInv /\ [Next]_vars => [EntriesInUseKept]_vars
  <2> SUFFICES ASSUME IInv, Next, NEW t \in Types, InCallback(t)
               PROVE  publish'[t] = publish[t] /\ channelstr'[t] = channelstr[t]
    BY DEF EntriesInUseKept
  <2>1. sub[t] = "live"
    BY DEF IInv, EvtInv, InCallback
  <2>2. modpc \notin {"boot", "c_free"}
    BY <2>1 DEF IInv, EntryInv
  <2> USE <2>2 DEF modVars, loopVars, evtVars, typeVars, connVars, redisVars,
         astVars
  <2>3. CASE Load
    BY <2>3 DEF Load, load_config_missing, load_config,
       load_config_no_general, redis_connect_nextserver,
       redis_connect_exhausted, spawn_dispatch_thread,
       redis_dump_ast_event_cache, wrlock_event_types,
       redis_subscribe_to_channels
  <2>4. CASE Cleanup
    BY <2>4 DEF Cleanup, wrlock_event_types, redis_unsubscribe_from_channels,
       cleanup_event_type, stop_loop, kill_loop, join_loop
  <2>5. CASE unload_module
    BY <2>5 DEF unload_module
  <2>6. CASE Loop \/ Evt \/ Environment
    BY <2>6, LoopFrame, EvtFrame, EnvironmentFrame
  <2> QED
    BY <2>3, <2>4, <2>5, <2>6 DEF Next
<1> QED
  BY Invariance, <1>1, PTL DEF Spec, EntryStableInCallback
(* Once unload is past the unsubscribe loop it resets the entries.         *)
PastUnsubscribe == {"c_free", "c_stop", "c_kill", "c_join"}

(* While redis_subscription_cb compares channel names, with or without the *)
(* lock, its entry has one, unless unload is past the unsubscribe loop.    *)
LoopChannelInv ==
  /\ looppc \in {"match", "decode"} =>
       channelstr[loopmsg.type] \/ modpc \in PastUnsubscribe
  /\ LoopChannelOnlyInCleanup

(* The steps of mod: load_config writes entries before the dispatch thread *)
(* exists, cleanup_module after the unsubscribe loop, and join_loop waits  *)
(* until the dispatch thread is out of the callback.                       *)
LEMMA LoopChannelMod ==
  ASSUME IInv, LoopChannelInv, Running, Load \/ Cleanup \/ unload_module
  PROVE  LoopChannelInv'
<1> USE DEF IInv, LoopChannelInv, LoopChannelOnlyInCleanup, PastUnsubscribe,
     LoopInv, Running, modVars, loopVars, evtVars, typeVars, connVars,
     redisVars, astVars
<1>1. CASE load_config_missing \/ load_config \/ load_config_no_general
  BY <1>1 DEF load_config_missing, load_config, load_config_no_general
<1>2. CASE redis_connect_nextserver \/ redis_connect_exhausted
  BY <1>2 DEF redis_connect_nextserver, redis_connect_exhausted
<1>3. CASE spawn_dispatch_thread
  BY <1>3 DEF spawn_dispatch_thread
<1>4. CASE redis_dump_ast_event_cache
  BY <1>4 DEF redis_dump_ast_event_cache, NextEntry, redisAsyncCommand
<1>5. CASE \/ wrlock_event_types("lock", "subscribe")
           \/ wrlock_event_types("c_lock", "c_unsub")
  BY <1>5 DEF wrlock_event_types
<1>6. CASE redis_subscribe_to_channels
  BY <1>6 DEF redis_subscribe_to_channels, NextEntry, redisAsyncCommand
<1>7. CASE redis_unsubscribe_from_channels
  BY <1>7 DEF redis_unsubscribe_from_channels, NextEntry, redisAsyncCommand
<1>8. CASE cleanup_event_type
  BY <1>8 DEF cleanup_event_type, NextEntry
<1>9. CASE stop_loop
  BY <1>9 DEF stop_loop
<1>10. CASE kill_loop
  BY <1>10 DEF kill_loop
<1>11. CASE join_loop \/ unload_module
  BY <1>11 DEF join_loop, unload_module
<1> QED
  BY <1>1, <1>2, <1>3, <1>4, <1>5, <1>6, <1>7, <1>8, <1>9, <1>10, <1>11
     DEF Load, Cleanup

(* The steps of the dispatch thread: it compares names only after it has   *)
(* found one, or found the entry published, which implies a name.          *)
LEMMA LoopChannelLoop ==
  ASSUME IInv, LoopChannelInv, Running, Loop PROVE LoopChannelInv'
<1>1. loopmsg.type \in Types
  BY EventType DEF IInv, TypeOK
<1> USE DEF IInv, LoopChannelInv, LoopChannelOnlyInCleanup, PastUnsubscribe,
     EntryInv, Running, modVars, loopVars, evtVars, typeVars, connVars,
     redisVars, astVars
<1>2. CASE dispatch_thread_handler \/ event_base_dispatch
  BY <1>2 DEF dispatch_thread_handler, event_base_dispatch
<1>3. CASE check_break \/ epoll_wait
  BY <1>3 DEF check_break, epoll_wait
<1>4. ASSUME NEW c \in Conns, redis_connect_cb(c) \/ redis_disconnect_cb(c)
      PROVE  LoopChannelInv'
  BY <1>4 DEF redis_connect_cb, redis_disconnect_cb
<1>5. ASSUME NEW c \in Conns, redisBufferWrite(c) \/ redisBufferWritten(c)
      PROVE  LoopChannelInv'
  BY <1>5 DEF redisBufferWrite, redisBufferWritten, Flush, Conns
<1>6. CASE redis_reply \/ redis_subscription_cb_lookup
  BY <1>6 DEF redis_reply, redis_subscription_cb_lookup
<1>7. CASE redis_subscription_cb_match
  BY <1>7 DEF redis_subscription_cb_match
<1>8. CASE redis_subscription_cb_publish
  BY <1>1, <1>8 DEF redis_subscription_cb_publish
<1>9. CASE redis_subscription_cb_decode
  BY <1>9 DEF redis_subscription_cb_decode
<1> QED
  BY <1>2, <1>3, <1>4, <1>5, <1>6, <1>7, <1>8, <1>9 DEF Loop

(* redis_subscription_cb, which reads its entry without event_types_lock,  *)
(* uses a freed channel name only during unload, after the unsubscribe     *)
(* loop: for any number of types, servers and messages.                    *)
THEOREM LoopChannelCorrect == Spec => []LoopChannelOnlyInCleanup
<1>1. Init => LoopChannelInv
  BY DEF Init, LoopChannelInv, LoopChannelOnlyInCleanup
<1>2. IInv /\ LoopChannelInv /\ [Next]_vars => LoopChannelInv'
  <2> SUFFICES ASSUME IInv, LoopChannelInv, [Next]_vars
               PROVE  LoopChannelInv'
    OBVIOUS
  <2>1. CASE Running /\ (Load \/ Cleanup \/ unload_module)
    BY <2>1, LoopChannelMod
  <2>2. CASE Running /\ Loop
    BY <2>2, LoopChannelLoop
  <2> USE DEF LoopChannelInv, LoopChannelOnlyInCleanup, Running, modVars,
         loopVars, evtVars, typeVars, connVars, redisVars, astVars
  <2>3. CASE Running /\ Evt
    BY <2>3 DEF Evt, dispatch_event, ast_event_cb_origin, ast_event_cb_etype,
       ast_event_cb_publish, ast_event_cb_send, redisAsyncCommand
  <2>4. CASE Running /\ Environment
    BY <2>4 DEF Environment, ast_event_queue_and_cache, redis_ping,
       remote_publish, server_dies
  <2>5. CASE UNCHANGED vars
    BY <2>5 DEF vars
  <2> QED
    BY <2>1, <2>2, <2>3, <2>4, <2>5 DEF Next
<1>3. LoopChannelInv => LoopChannelOnlyInCleanup
  BY DEF LoopChannelInv
<1> QED
  BY Invariance, <1>1, <1>2, <1>3, PTL DEF Spec

(* Both callbacks together: a freed channel name is used by nobody but     *)
(* redis_subscription_cb, and by that only late in an unload.              *)
THEOREM ChannelCorrect == Spec => []ChannelSafe
BY EvtChannelCorrect, LoopChannelCorrect, PTL DEF ChannelSafe
=============================================================================
