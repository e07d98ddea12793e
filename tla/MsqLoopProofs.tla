--------------------------- MODULE MsqLoopProofs ---------------------------
(***************************************************************************)
(* Theorems about MsqLoop, for any number of servers: its variables keep   *)
(* their types, FaultNeedsLoss and StopIsFinal.                            *)
(*                                                                         *)
(* Only the two contexts of the first dial are ever watched by a loop, and *)
(* every later dial is at the end of a callback that frees one of them, so *)
(* the dials are at most one more than the contexts that are gone          *)
(* (DialInv).  That bounds the types, and ties every bad pointer to a lost *)
(* connection.                                                             *)
(***************************************************************************)
EXTENDS MsqLoop, TLAPS

One(k) == IF conn[k] = "freed" THEN 1 ELSE 0

(* Before the loop's thread runs, nothing is connected and nothing is      *)
(* stopped.                                                                *)
StartInv ==
  /\ cpc \in {"new", "started"} =>
       lpc = "none" /\ todo = {"stop", "stop_eventloop"}
  /\ lpc \in {"none", "attach"} =>
       \A k \in Conns : conn[k] = "new"
  /\ cpc = "new" => dials = 0
  /\ cpc # "new" => dials >= 1 /\ current_server \in Servers

(* A callback runs for a context that is connected; each dial but the      *)
(* first belongs to one that was freed.                                    *)
DialInv ==
  /\ lpc \in {"lost", "check", "move", "dial"} => conn[closing] = "connected"
  /\ dials <= 1 + One("PUBLISH") + One("SUBSCRIBE")

(* The current server has been dialled, or is being dialled.               *)
PointerInv ==
  /\ cpc # "new" /\ lpc # "dial" =>
       redisConn[current_server]["PUBLISH"] # NULL
  /\ cpc = "publish" /\ arg = NULL =>
       lpc = "dial" \/ \E k \in Conns : conn[k] = "freed"
  /\ cpc \notin {"new", "started"} /\ dials = 1 /\ lpc # "dial" =>
       current_server = evloop

(* msq_stop has returned when stopped is set, and only a callback that had *)
(* seen it unset moves on after that.                                      *)
StopInv ==
  /\ stopped <=> "stop" \notin todo
  /\ "stop" \in todo \/ lpc = "move" => late = 0
  /\ late <= 1
  /\ "stop_eventloop" \notin todo =>
       lpc = "exited" /\ (base = "freed" \/ dials > 1)

IInv == /\ TypeOK /\ StartInv /\ DialInv /\ PointerInv /\ StopInv
        /\ FaultNeedsLoss

-----------------------------------------------------------------------------
LEMMA ConnsFact == "PUBLISH" \in Conns /\ "SUBSCRIBE" \in Conns
  BY DEF Conns

LEMMA NextServerType == NextServer \in Servers
  BY LoopAssumption DEF NextServer, Servers

LEMMA InitIInv == Init => IInv
  <1> SUFFICES ASSUME Init PROVE IInv
    OBVIOUS
  <1>1. redisConn \in [Servers -> [Conns -> 0..3]]
    <2>1. redisConn = [s \in Servers |-> [k \in Conns |-> 0]]
      BY DEF Init, NULL
    <2>2. [k \in Conns |-> 0] \in [Conns -> 0..3]
      OBVIOUS
    <2> QED BY <2>1, <2>2
  <1>2. TypeOK
    <2>1. closing \in Conns
      BY ConnsFact DEF Init
    <2>2. conn \in [Conns -> {"new", "connecting", "connected", "freed"}]
      BY DEF Init
    <2>3. mutex \in BOOLEAN /\ stopped \in BOOLEAN /\ loopexit \in BOOLEAN
      BY DEF Init
    <2>4. /\ cpc = "new" /\ lpc = "none" /\ todo = {"stop", "stop_eventloop"}
          /\ arg = 0 /\ dials = 0 /\ late = 0
          /\ current_server = NULL /\ evloop = NULL
          /\ base = "none" /\ fault = "none"
      BY DEF Init, NULL
    <2> QED BY <1>1, <2>1, <2>2, <2>3, <2>4 DEF TypeOK
  <1>3. StartInv
    BY DEF Init, StartInv
  <1>4. DialInv
    BY ConnsFact DEF Init, DialInv, One
  <1>5. PointerInv /\ StopInv /\ FaultNeedsLoss
    BY DEF Init, PointerInv, StopInv, FaultNeedsLoss
  <1> QED BY <1>2, <1>3, <1>4, <1>5 DEF IInv

LEMMA StepType == IInv /\ [Next]_vars => TypeOK'
  <1> SUFFICES ASSUME IInv, [Next]_vars PROVE TypeOK'
    OBVIOUS
  <1> USE DEF clientVars, loopVars, serverVars
  <1>a. TypeOK /\ StartInv /\ DialInv /\ PointerInv /\ StopInv
    BY DEF IInv
  <1>1. CASE msq_start
    <2>1. dials' \in 0..3
      BY <1>a, <1>1 DEF StartInv, msq_start, Dial
    <2>2. redisConn' = [redisConn EXCEPT
                          ![NextServer] = [k \in Conns |-> dials']]
      BY <1>1 DEF msq_start, Dial
    <2>3. [k \in Conns |-> dials'] \in [Conns -> 0..3]
      BY <2>1
    <2>4. redisConn' \in [Servers -> [Conns -> 0..3]]
      BY <1>a, <2>2, <2>3 DEF TypeOK
    <2> QED BY <1>a, <1>1, <2>1, <2>4, NextServerType DEF msq_start, TypeOK
  <1>2. CASE msq_start_eventloop
    BY <1>a, <1>2
       DEF msq_start_eventloop, TypeOK
  <1>3. CASE msq_publish
    <2>1. current_server \in Servers
      BY <1>a, <1>3 DEF StartInv, msq_publish
    <2>2. redisConn[current_server]["PUBLISH"] \in 0..3
      BY <1>a, <2>1, ConnsFact DEF TypeOK
    <2> QED BY <1>a, <1>3, <2>2 DEF msq_publish, TypeOK
  <1>4. CASE redisAsyncCommand
    BY <1>a, <1>4
       DEF redisAsyncCommand, TypeOK
  <1>5. CASE msq_stop
    BY <1>a, <1>5
       DEF msq_stop, Returned, TypeOK
  <1>6. CASE msq_stop_eventloop
    BY <1>a, <1>6
       DEF msq_stop_eventloop, TypeOK
  <1>7. CASE msq_stop_eventloop_join
    BY <1>a, <1>7
       DEF msq_stop_eventloop_join, TypeOK
  <1>8. CASE msq_stop_eventloop_free
    BY <1>a, <1>8
       DEF msq_stop_eventloop_free, Returned, TypeOK
  <1>9. CASE eventloop_dispatch_thread
    BY <1>a, <1>9
       DEF eventloop_dispatch_thread, TypeOK
  <1>10. CASE event_base_dispatch
    BY <1>a, <1>10
       DEF event_base_dispatch, TypeOK
  <1>11. CASE redis_disconnect_cb
    BY <1>a, <1>11
       DEF redis_disconnect_cb, TypeOK
  <1>12. CASE redis_disconnect_cb_check
    BY <1>a, <1>12
       DEF redis_disconnect_cb_check, CallbackReturns, TypeOK
  <1>13. CASE _msq_connect_to_next_server
    BY <1>a, <1>13, NextServerType
       DEF _msq_connect_to_next_server, TypeOK
  <1>14. CASE _msq_connect_to_next_server_dial
    <2>1. dials' \in 0..3
      <3>1. dials' = dials + 1 /\ conn[closing] = "connected"
        BY <1>a, <1>14 DEF _msq_connect_to_next_server_dial, Dial, DialInv
      <3>2. One("PUBLISH") = 0 \/ One("SUBSCRIBE") = 0
        BY <1>a, <3>1 DEF One, TypeOK, Conns
      <3>3. One("PUBLISH") \in {0, 1} /\ One("SUBSCRIBE") \in {0, 1}
        BY DEF One
      <3>4. dials \in 0..3
             /\ dials <= 1 + One("PUBLISH") + One("SUBSCRIBE")
        BY <1>a DEF DialInv, TypeOK
      <3> QED BY <3>1, <3>2, <3>3, <3>4
    <2>2. redisConn' = [redisConn EXCEPT
                          ![current_server] = [k \in Conns |-> dials']]
      BY <1>14 DEF _msq_connect_to_next_server_dial, Dial
    <2>3. [k \in Conns |-> dials'] \in [Conns -> 0..3]
      BY <2>1
    <2>4. redisConn' \in [Servers -> [Conns -> 0..3]]
      BY <1>a, <2>2, <2>3 DEF TypeOK
    <2>5. conn' \in [Conns -> {"new", "connecting", "connected", "freed"}]
      BY <1>a, <1>14 DEF _msq_connect_to_next_server_dial, CallbackReturns,
           TypeOK
    <2> QED BY <1>a, <1>14, <2>1, <2>4, <2>5
            DEF _msq_connect_to_next_server_dial, CallbackReturns, TypeOK
  <1>15. ASSUME NEW k \in Conns,
                redis_connect_cb(k) \/ traffic(k) \/ connection_lost(k)
         PROVE  TypeOK'
    <2>1. CASE redis_connect_cb(k)
      BY <1>a, <2>1 DEF redis_connect_cb, TypeOK
    <2>2. CASE traffic(k)
      BY <1>a, <2>2 DEF traffic, TypeOK
    <2>3. CASE connection_lost(k)
      BY <1>a, <2>3 DEF connection_lost, TypeOK
    <2> QED BY <1>15, <2>1, <2>2, <2>3
  <1>16. CASE UNCHANGED vars
    BY <1>a, <1>16
       DEF TypeOK, vars
  <1> QED BY <1>1, <1>2, <1>3, <1>4, <1>5, <1>6, <1>7, <1>8, <1>9, <1>10,
            <1>11, <1>12, <1>13, <1>14, <1>15, <1>16
          DEF Next, Client, Loop

LEMMA StepStart == IInv /\ [Next]_vars => StartInv'
  <1> SUFFICES ASSUME IInv, [Next]_vars PROVE StartInv'
    OBVIOUS
  <1> USE DEF clientVars, loopVars, serverVars
  <1>a. TypeOK /\ StartInv /\ DialInv /\ PointerInv /\ StopInv
    BY DEF IInv
  <1>1. CASE msq_start
    BY <1>a, <1>1, NextServerType
       DEF msq_start, Dial, StartInv, TypeOK
  <1>2. CASE msq_start_eventloop
    BY <1>a, <1>2
       DEF msq_start_eventloop, StartInv, TypeOK
  <1>3. CASE msq_publish
    BY <1>a, <1>3
       DEF msq_publish, StartInv, TypeOK
  <1>4. CASE redisAsyncCommand
    BY <1>a, <1>4
       DEF redisAsyncCommand, StartInv, TypeOK
  <1>5. CASE msq_stop
    BY <1>a, <1>5
       DEF msq_stop, Returned, StartInv, TypeOK
  <1>6. CASE msq_stop_eventloop
    BY <1>a, <1>6
       DEF msq_stop_eventloop, StartInv, TypeOK
  <1>7. CASE msq_stop_eventloop_join
    BY <1>a, <1>7
       DEF msq_stop_eventloop_join, StartInv, TypeOK
  <1>8. CASE msq_stop_eventloop_free
    BY <1>a, <1>8
       DEF msq_stop_eventloop_free, Returned, StartInv, TypeOK
  <1>9. CASE eventloop_dispatch_thread
    BY <1>a, <1>9
       DEF eventloop_dispatch_thread, StartInv, TypeOK
  <1>10. CASE event_base_dispatch
    BY <1>a, <1>10
       DEF event_base_dispatch, StartInv, TypeOK
  <1>11. CASE redis_disconnect_cb
    BY <1>a, <1>11
       DEF redis_disconnect_cb, StartInv, TypeOK
  <1>12. CASE redis_disconnect_cb_check
    BY <1>a, <1>12
       DEF redis_disconnect_cb_check, CallbackReturns, StartInv, TypeOK
  <1>13. CASE _msq_connect_to_next_server
    BY <1>a, <1>13, NextServerType
       DEF _msq_connect_to_next_server, StartInv, TypeOK
  <1>14. CASE _msq_connect_to_next_server_dial
    BY <1>a, <1>14
       DEF _msq_connect_to_next_server_dial, Dial, CallbackReturns, StartInv,
         TypeOK
  <1>15. ASSUME NEW k \in Conns,
                redis_connect_cb(k) \/ traffic(k) \/ connection_lost(k)
         PROVE  StartInv'
    <2>1. CASE redis_connect_cb(k)
      BY <1>a, <2>1 DEF redis_connect_cb, StartInv, TypeOK
    <2>2. CASE traffic(k)
      BY <1>a, <2>2 DEF traffic, StartInv, TypeOK
    <2>3. CASE connection_lost(k)
      BY <1>a, <2>3 DEF connection_lost, StartInv, TypeOK
    <2> QED BY <1>15, <2>1, <2>2, <2>3
  <1>16. CASE UNCHANGED vars
    BY <1>a, <1>16
       DEF StartInv, TypeOK, vars
  <1> QED BY <1>1, <1>2, <1>3, <1>4, <1>5, <1>6, <1>7, <1>8, <1>9, <1>10,
            <1>11, <1>12, <1>13, <1>14, <1>15, <1>16
          DEF Next, Client, Loop

LEMMA StepDial == IInv /\ [Next]_vars => DialInv'
  <1> SUFFICES ASSUME IInv, [Next]_vars PROVE DialInv'
    OBVIOUS
  <1> USE DEF clientVars, loopVars, serverVars
  <1>a. TypeOK /\ StartInv /\ DialInv /\ PointerInv /\ StopInv
    BY DEF IInv
  <1>1. CASE msq_start
    BY <1>a, <1>1, ConnsFact
       DEF msq_start, Dial, StartInv, DialInv, TypeOK, One
  <1>2. CASE msq_start_eventloop
    BY <1>a, <1>2, ConnsFact
       DEF msq_start_eventloop, StartInv, DialInv, TypeOK, One
  <1>3. CASE msq_publish
    BY <1>a, <1>3
       DEF msq_publish, DialInv, TypeOK, One
  <1>4. CASE redisAsyncCommand
    BY <1>a, <1>4
       DEF redisAsyncCommand, DialInv, TypeOK, One
  <1>5. CASE msq_stop
    BY <1>a, <1>5
       DEF msq_stop, Returned, DialInv, TypeOK, One
  <1>6. CASE msq_stop_eventloop
    BY <1>a, <1>6
       DEF msq_stop_eventloop, DialInv, TypeOK, One
  <1>7. CASE msq_stop_eventloop_join
    BY <1>a, <1>7
       DEF msq_stop_eventloop_join, DialInv, TypeOK, One
  <1>8. CASE msq_stop_eventloop_free
    BY <1>a, <1>8
       DEF msq_stop_eventloop_free, Returned, DialInv, TypeOK, One
  <1>9. CASE eventloop_dispatch_thread
    BY <1>a, <1>9, ConnsFact
       DEF eventloop_dispatch_thread, StartInv, DialInv, TypeOK, One
  <1>10. CASE event_base_dispatch
    BY <1>a, <1>10
       DEF event_base_dispatch, DialInv, TypeOK, One
  <1>11. CASE redis_disconnect_cb
    BY <1>a, <1>11
       DEF redis_disconnect_cb, DialInv, TypeOK, One
  <1>12. CASE redis_disconnect_cb_check
    BY <1>a, <1>12, ConnsFact
       DEF redis_disconnect_cb_check, CallbackReturns, Conns, DialInv, TypeOK,
         One
  <1>13. CASE _msq_connect_to_next_server
    BY <1>a, <1>13
       DEF _msq_connect_to_next_server, DialInv, TypeOK, One
  <1>14. CASE _msq_connect_to_next_server_dial
    BY <1>a, <1>14, ConnsFact
       DEF _msq_connect_to_next_server_dial, Dial, CallbackReturns, Conns,
         DialInv, TypeOK, One
  <1>15. ASSUME NEW k \in Conns,
                redis_connect_cb(k) \/ traffic(k) \/ connection_lost(k)
         PROVE  DialInv'
    <2>1. CASE redis_connect_cb(k)
      BY <1>a, <2>1 DEF redis_connect_cb, DialInv, TypeOK, One
    <2>2. CASE traffic(k)
      BY <1>a, <2>2 DEF traffic, DialInv, TypeOK, One
    <2>3. CASE connection_lost(k)
      BY <1>a, <2>3 DEF connection_lost, DialInv, TypeOK, One
    <2> QED BY <1>15, <2>1, <2>2, <2>3
  <1>16. CASE UNCHANGED vars
    BY <1>a, <1>16
       DEF DialInv, TypeOK, One, vars
  <1> QED BY <1>1, <1>2, <1>3, <1>4, <1>5, <1>6, <1>7, <1>8, <1>9, <1>10,
            <1>11, <1>12, <1>13, <1>14, <1>15, <1>16
          DEF Next, Client, Loop

LEMMA StepPointer == IInv /\ [Next]_vars => PointerInv'
  <1> SUFFICES ASSUME IInv, [Next]_vars PROVE PointerInv'
    OBVIOUS
  <1> USE DEF clientVars, loopVars, serverVars
  <1>a. TypeOK /\ StartInv /\ DialInv /\ PointerInv /\ StopInv
    BY DEF IInv
  <1>1. CASE msq_start
    <2>1. redisConn'[current_server']["PUBLISH"] = dials' /\ dials' = dials + 1
      BY <1>a, <1>1, NextServerType, ConnsFact DEF msq_start, Dial, TypeOK,
           StartInv
    <2>2. dials' # NULL
      BY <1>a, <2>1 DEF TypeOK, NULL
    <2> QED BY <1>a, <1>1, <2>1, <2>2
            DEF msq_start, PointerInv,
              TypeOK, StartInv
  <1>2. CASE msq_start_eventloop
    BY <1>a, <1>2
       DEF msq_start_eventloop, PointerInv, TypeOK, StartInv
  <1>3. CASE msq_publish
    BY <1>a, <1>3
       DEF msq_publish, PointerInv, TypeOK, StartInv
  <1>4. CASE redisAsyncCommand
    BY <1>a, <1>4
       DEF redisAsyncCommand, PointerInv, TypeOK, StartInv
  <1>5. CASE msq_stop
    BY <1>a, <1>5
       DEF msq_stop, Returned, PointerInv, TypeOK, StartInv
  <1>6. CASE msq_stop_eventloop
    BY <1>a, <1>6
       DEF msq_stop_eventloop, PointerInv, TypeOK, StartInv
  <1>7. CASE msq_stop_eventloop_join
    BY <1>a, <1>7
       DEF msq_stop_eventloop_join, PointerInv, TypeOK, StartInv
  <1>8. CASE msq_stop_eventloop_free
    BY <1>a, <1>8
       DEF msq_stop_eventloop_free, Returned, PointerInv, TypeOK, StartInv
  <1>9. CASE eventloop_dispatch_thread
    BY <1>a, <1>9
       DEF eventloop_dispatch_thread, PointerInv, TypeOK, StartInv
  <1>10. CASE event_base_dispatch
    BY <1>a, <1>10
       DEF event_base_dispatch, PointerInv, TypeOK, StartInv
  <1>11. CASE redis_disconnect_cb
    BY <1>a, <1>11
       DEF redis_disconnect_cb, PointerInv, TypeOK, StartInv
  <1>12. CASE redis_disconnect_cb_check
    BY <1>a, <1>12
       DEF redis_disconnect_cb_check, CallbackReturns, PointerInv, TypeOK,
         StartInv
  <1>13. CASE _msq_connect_to_next_server
    BY <1>a, <1>13
       DEF _msq_connect_to_next_server, PointerInv, TypeOK, StartInv
  <1>14. CASE _msq_connect_to_next_server_dial
    <2>1. redisConn'[current_server']["PUBLISH"] = dials' /\ dials' = dials + 1
      BY <1>a, <1>14, ConnsFact
         DEF _msq_connect_to_next_server_dial, Dial, TypeOK, StartInv
    <2>2. dials' # NULL
      BY <1>a, <2>1 DEF TypeOK, NULL
    <2>3. lpc' = "ready" /\ \E k \in Conns : conn'[k] = "freed"
      BY <1>a, <1>14 DEF _msq_connect_to_next_server_dial, CallbackReturns,
           TypeOK
    <2>4. cpc # "new" /\ dials' > 1
      BY <1>a, <1>14, <2>1
         DEF _msq_connect_to_next_server_dial, TypeOK, StartInv
    <2> QED BY <1>a, <1>14, <2>1, <2>2, <2>3, <2>4
            DEF _msq_connect_to_next_server_dial, PointerInv,
              TypeOK, StartInv
  <1>15. ASSUME NEW k \in Conns,
                redis_connect_cb(k) \/ traffic(k) \/ connection_lost(k)
         PROVE  PointerInv'
    <2>1. CASE redis_connect_cb(k)
      BY <1>a, <2>1 DEF redis_connect_cb, PointerInv, TypeOK, StartInv
    <2>2. CASE traffic(k)
      BY <1>a, <2>2 DEF traffic, PointerInv, TypeOK, StartInv
    <2>3. CASE connection_lost(k)
      BY <1>a, <2>3 DEF connection_lost, PointerInv, TypeOK, StartInv
    <2> QED BY <1>15, <2>1, <2>2, <2>3
  <1>16. CASE UNCHANGED vars
    BY <1>a, <1>16
       DEF PointerInv, TypeOK, StartInv, vars
  <1> QED BY <1>1, <1>2, <1>3, <1>4, <1>5, <1>6, <1>7, <1>8, <1>9, <1>10,
            <1>11, <1>12, <1>13, <1>14, <1>15, <1>16
          DEF Next, Client, Loop

LEMMA StepStop == IInv /\ [Next]_vars => StopInv'
  <1> SUFFICES ASSUME IInv, [Next]_vars PROVE StopInv'
    OBVIOUS
  <1> USE DEF clientVars, loopVars, serverVars
  <1>a. TypeOK /\ StartInv /\ DialInv /\ PointerInv /\ StopInv
    BY DEF IInv
  <1>1. CASE msq_start
    BY <1>a, <1>1
       DEF msq_start, Dial, StopInv, TypeOK, StartInv
  <1>2. CASE msq_start_eventloop
    BY <1>a, <1>2
       DEF msq_start_eventloop, StopInv, TypeOK, StartInv
  <1>3. CASE msq_publish
    BY <1>a, <1>3
       DEF msq_publish, StopInv, TypeOK, StartInv
  <1>4. CASE redisAsyncCommand
    BY <1>a, <1>4
       DEF redisAsyncCommand, StopInv, TypeOK, StartInv
  <1>5. CASE msq_stop
    BY <1>a, <1>5
       DEF msq_stop, Returned, StopInv, TypeOK, StartInv
  <1>6. CASE msq_stop_eventloop
    BY <1>a, <1>6
       DEF msq_stop_eventloop, StopInv, TypeOK, StartInv
  <1>7. CASE msq_stop_eventloop_join
    BY <1>a, <1>7
       DEF msq_stop_eventloop_join, StopInv, TypeOK, StartInv
  <1>8. CASE msq_stop_eventloop_free
    BY <1>a, <1>8
       DEF msq_stop_eventloop_free, Returned, PointerInv, StopInv, TypeOK,
         StartInv
  <1>9. CASE eventloop_dispatch_thread
    BY <1>a, <1>9
       DEF eventloop_dispatch_thread, StopInv, TypeOK, StartInv
  <1>10. CASE event_base_dispatch
    BY <1>a, <1>10
       DEF event_base_dispatch, StopInv, TypeOK, StartInv
  <1>11. CASE redis_disconnect_cb
    BY <1>a, <1>11
       DEF redis_disconnect_cb, StopInv, TypeOK, StartInv
  <1>12. CASE redis_disconnect_cb_check
    BY <1>a, <1>12
       DEF redis_disconnect_cb_check, CallbackReturns, StopInv, TypeOK,
         StartInv
  <1>13. CASE _msq_connect_to_next_server
    BY <1>a, <1>13
       DEF _msq_connect_to_next_server, StopInv, TypeOK, StartInv
  <1>14. CASE _msq_connect_to_next_server_dial
    BY <1>a, <1>14
       DEF _msq_connect_to_next_server_dial, Dial, CallbackReturns, StopInv,
         TypeOK, StartInv
  <1>15. ASSUME NEW k \in Conns,
                redis_connect_cb(k) \/ traffic(k) \/ connection_lost(k)
         PROVE  StopInv'
    <2>1. CASE redis_connect_cb(k)
      BY <1>a, <2>1 DEF redis_connect_cb, StopInv, TypeOK, StartInv
    <2>2. CASE traffic(k)
      BY <1>a, <2>2 DEF traffic, StopInv, TypeOK, StartInv
    <2>3. CASE connection_lost(k)
      BY <1>a, <2>3 DEF connection_lost, StopInv, TypeOK, StartInv
    <2> QED BY <1>15, <2>1, <2>2, <2>3
  <1>16. CASE UNCHANGED vars
    BY <1>a, <1>16
       DEF StopInv, TypeOK, StartInv, vars
  <1> QED BY <1>1, <1>2, <1>3, <1>4, <1>5, <1>6, <1>7, <1>8, <1>9, <1>10,
            <1>11, <1>12, <1>13, <1>14, <1>15, <1>16
          DEF Next, Client, Loop

LEMMA LostFact == Lost # {} <=> \E k \in Conns : conn[k] = "freed"
  BY DEF Lost

(* The client stops at its first bad pointer, so only the step that meets  *)
(* one matters.                                                            *)
LEMMA StepFault == IInv /\ [Next]_vars => FaultNeedsLoss'
  <1> SUFFICES ASSUME IInv, [Next]_vars PROVE FaultNeedsLoss'
    OBVIOUS
  <1> USE DEF clientVars, loopVars, serverVars
  <1>a. TypeOK /\ StartInv /\ DialInv /\ PointerInv /\ FaultNeedsLoss
    BY DEF IInv
  <1>1. CASE UNCHANGED vars
    BY <1>a, <1>1 DEF vars, FaultNeedsLoss, Lost
  <1>2. CASE Next /\ redisAsyncCommand
    <2>1. CASE fault' = "publish" /\ (arg = NULL \/ Freed(arg, "PUBLISH"))
      <3>1. lpc' = lpc /\ conn' = conn
        BY <1>2, <2>1 DEF redisAsyncCommand, Next, Running
      <3>2. lpc = "dial" \/ \E k \in Conns : conn[k] = "freed"
        BY <1>a, <1>2, <2>1, ConnsFact DEF redisAsyncCommand, PointerInv,
             Freed
      <3>3. Lost' = Lost
        BY <3>1 DEF Lost
      <3> QED BY <2>1, <3>1, <3>2, <3>3, LostFact DEF FaultNeedsLoss
    <2>2. CASE fault' = fault
      BY <1>2, <2>2 DEF Next, Running, FaultNeedsLoss
    <2> QED BY <1>2, <2>1, <2>2 DEF redisAsyncCommand
  <1>3. CASE Next /\ msq_stop_eventloop_join
    <2>1. CASE fault' = "join" /\ current_server # evloop
      <3>1. dials' = dials /\ lpc' = lpc /\ conn' = conn /\ cpc = "exit"
        BY <1>3 DEF msq_stop_eventloop_join
      <3>2. dials > 1 \/ lpc = "dial"
        BY <1>a, <2>1, <3>1 DEF PointerInv, StartInv, TypeOK
      <3>3. lpc = "dial" \/ \E k \in Conns : conn[k] = "freed"
        BY <1>a, <3>2, ConnsFact DEF DialInv, One, TypeOK
      <3>4. Lost' = Lost
        BY <3>1 DEF Lost
      <3> QED BY <2>1, <3>1, <3>2, <3>3, <3>4, LostFact DEF FaultNeedsLoss
    <2>2. CASE fault' = fault
      BY <1>3, <2>2 DEF Next, Running, FaultNeedsLoss
    <2> QED BY <1>3, <2>1, <2>2 DEF msq_stop_eventloop_join
  <1>4. CASE Next /\ ~redisAsyncCommand /\ ~msq_stop_eventloop_join
    <2>1. fault' = fault
      BY <1>4 DEF Next, Client, Loop, msq_start, msq_start_eventloop,
           msq_publish, msq_stop, msq_stop_eventloop,
           msq_stop_eventloop_free, eventloop_dispatch_thread,
           event_base_dispatch, redis_disconnect_cb,
           redis_disconnect_cb_check, _msq_connect_to_next_server,
           _msq_connect_to_next_server_dial, redis_connect_cb, traffic,
           connection_lost
    <2> QED BY <1>4, <2>1 DEF Next, Running, FaultNeedsLoss
  <1> QED BY <1>1, <1>2, <1>3, <1>4

LEMMA Inductive == Spec => []IInv
  <1>1. IInv /\ [Next]_vars => IInv'
    BY StepType, StepStart, StepDial, StepPointer, StepStop, StepFault
       DEF IInv
  <1> QED BY InitIInv, <1>1, PTL DEF Spec
-----------------------------------------------------------------------------
(***************************************************************************)
(* The variables keep their types for any number of servers; that two lost *)
(* connections make three dials and no more is part of it.                 *)
(***************************************************************************)
THEOREM TypeCorrect == Spec => []TypeOK
  <1>1. IInv => TypeOK
    BY DEF IInv
  <1> QED BY Inductive, <1>1, PTL

(***************************************************************************)
(* However many servers there are, msq_publish and msq_stop_eventloop meet *)
(* a bad pointer only after a connection was refused or lost, and the loop *)
(* that cannot be joined only after the client was moved to another        *)
(* server.                                                                 *)
(***************************************************************************)
THEOREM FaultOnlyAfterLoss == Spec => []FaultNeedsLoss
  <1>1. IInv => FaultNeedsLoss
    BY DEF IInv
  <1> QED BY Inductive, <1>1, PTL

(***************************************************************************)
(* At most one callback moves the client to another server once msq_stop   *)
(* has returned; when msq_stop_eventloop has returned, the thread is gone, *)
(* and its base with it unless the client had been moved.                  *)
(***************************************************************************)
THEOREM StopFinal == Spec => []StopIsFinal
  <1>1. IInv => StopIsFinal
    BY DEF IInv, StopInv, StopIsFinal
  <1> QED BY Inductive, <1>1, PTL
=============================================================================
