-------------------------- MODULE ResRedisV1Proofs --------------------------
(***************************************************************************)
(* Theorems about ResRedisV1 and the library below it, for every number of *)
(* event types and servers.                                                *)
(***************************************************************************)
EXTENDS ResRedisV1, TLAPS

(* Behind the index of the unsubscribe loop, and when msq_stop gets to its *)
(* disconnect, no subscribed type has a channel.                           *)
StopInv ==
  /\ pc = "toggle_off" =>
       \A e \in Events : e < chan => (subscribe[e] => ~channel[e])
  /\ pc = "disconnect" => \A e \in Events : subscribe[e] => ~channel[e]
  /\ fault = "none" /\ pc \notin {"toggle_on", "toggle_off"} => chan = 1

(* An entry that is to be subscribed has been.                             *)
Done(e) == subscribe[e] => active[e] /\ \E q \in queued : q.event = e

(* Behind the index of the subscribe loop, if it has not met an exception. *)
StartInv ==
  pc = "toggle_on" /\ NoError /\ (\A e \in Subscribed : channel[e])
    => \A e \in Events : e < chan => Done(e)

IInv == /\ TypeOK /\ StopInv /\ ServersDistinct /\ UnloadSafe
        /\ StartInv /\ SubscribedIsActive
-----------------------------------------------------------------------------
(* The loop index stays inside the map.                                    *)
LEMMA NextChanType ==
  ASSUME chan \in Events, NEW ok \in BOOLEAN, NextChan(ok)
  PROVE  chan' \in Events
BY MsqAssumption DEF NextChan, LoopEnds, Events

(* What a server option does to the list.                                  *)
LEMMA AddServer ==
  ASSUME TypeOK, ServersDistinct, NEW s \in Servers, msq_add_server(s)
  PROVE  servers_root' \in Seq(Servers) /\ ServersDistinct'
<1>1. CASE Listed(s)
  BY <1>1 DEF msq_add_server, TypeOK, ServersDistinct
<1>2. CASE ~Listed(s)
  <2>1. servers_root' = Append(servers_root, s)
    BY <1>2 DEF msq_add_server
  <2>2. \A i \in 1..Len(servers_root) : servers_root[i] # s
    BY <1>2 DEF Listed
  <2> QED
    BY <2>1, <2>2 DEF TypeOK, ServersDistinct
<1> QED
  BY <1>1, <1>2

(* Every step keeps the types.                                             *)
LEMMA TypeStep == IInv /\ [Next]_vars => TypeOK'
<1> SUFFICES ASSUME IInv, [Next]_vars PROVE TypeOK'
  OBVIOUS
<1> USE MsqAssumption DEF IInv, TypeOK, mapVars, msqVars
<1>0. [kind |-> "none", event |-> EVENT_PING] \in Cats
  BY DEF Cats, Categories, EVENT_PING, Events
<1>1. ASSUME load_config_missing PROVE TypeOK'
  BY <1>1 DEF load_config_missing
<1>2. ASSUME load_config PROVE TypeOK'
  BY <1>2 DEF load_config
<1>3. ASSUME ast_category_browse PROVE TypeOK'
  BY <1>3 DEF ast_category_browse
<1>4. ASSUME NEW s \in Servers, load_general_config(s) PROVE TypeOK'
  <2>1. servers_root' \in Seq(Servers)
    BY <1>4, AddServer DEF load_general_config
  <2>2. res' \in BOOLEAN
    BY <1>4 DEF load_general_config, Listed
  <2> QED
    BY <1>4, <2>1, <2>2 DEF load_general_config, msq_add_server
<1>5. ASSUME load_general_config_malformed PROVE TypeOK'
  BY <1>5 DEF load_general_config_malformed
<1>6. ASSUME NEW type \in Conns, NEW onoff \in BOOLEAN,
             load_channel_config_flag(type, onoff)
      PROVE  TypeOK'
  BY <1>6 DEF load_channel_config_flag, msq_set_channel
<1>7. ASSUME load_channel_config_channel PROVE TypeOK'
  BY <1>7 DEF load_channel_config_channel, msq_add_subscription,
              PreviousSubscription, Cats
<1>8. ASSUME load_channel_config_unknown PROVE TypeOK'
  BY <1>8 DEF load_channel_config_unknown
<1>9. ASSUME load_config_done PROVE TypeOK'
  <2>1. /\ servers_root' \in {servers_root, <<>>}
        /\ current_freed' \in BOOLEAN
    BY <1>9, ZenonT(20) DEF load_config_done, msq_remove_all_servers
  <2>2. UNCHANGED <<current_server, redisConn, mapVars, chan, queued, fault>>
    BY <1>9 DEF load_config_done, msq_remove_all_servers
  <2>3. cat' \in Cats /\ res' \in BOOLEAN
    BY <1>9, <1>0 DEF load_config_done
  <2>4. pc' \in {"connect", "declined", "loaded"}
    BY <1>9 DEF load_config_done
  <2>5. servers_root' \in Seq(Servers)
    BY <2>1, <<>> \in Seq(Servers)
  <2> QED
    BY <2>1, <2>2, <2>3, <2>4, <2>5
<1>10. ASSUME msq_start_connect PROVE TypeOK'
  <2>1. /\ current_server' \in Servers \cup {NULL}
        /\ current_freed' \in BOOLEAN
    <3>1. CASE servers_root # <<>>
      <4>1. Head(servers_root) \in Servers
        BY <3>1
      <4> QED
        BY <1>10, <3>1, <4>1
           DEF msq_start_connect, _msq_connect_to_next_server
    <3>2. CASE servers_root = <<>>
      BY <1>10, <3>2 DEF msq_start_connect, _msq_connect_to_next_server
    <3> QED
      BY <3>1, <3>2
  <2>2. redisConn' \in [Conns -> {"null", "connecting", "error"}]
    BY <1>10 DEF msq_start_connect, _msq_connect_to_next_server
  <2> QED
    BY <1>10, <2>1, <2>2 DEF msq_start_connect, _msq_connect_to_next_server
<1>11. ASSUME msq_start_subscribe PROVE TypeOK'
  <2>1. queued' \subseteq [event : Events, name : Names]
    BY <1>11 DEF msq_start_subscribe, _msq_toggle_subscriptions_on, Name, Names
  <2>2. active' \in [Events -> BOOLEAN]
    BY <1>11 DEF msq_start_subscribe, _msq_toggle_subscriptions_on,
                 SubscribeOk, SendsSubscribe, NoError
  <2>3. SubscribeOk \in BOOLEAN
    BY DEF SubscribeOk, SendsSubscribe, NoError
  <2>4. chan' \in Events
    BY <1>11, <2>3, NextChanType
       DEF msq_start_subscribe, _msq_toggle_subscriptions_on
  <2> QED
    BY <1>11, <2>1, <2>2, <2>4
       DEF msq_start_subscribe, _msq_toggle_subscriptions_on
<1>12. ASSUME reload PROVE TypeOK'
  BY <1>12 DEF reload, msq_remove_all_servers
<1>13. ASSUME reload_missing PROVE TypeOK'
  BY <1>13 DEF reload_missing, msq_remove_all_servers
<1>14. ASSUME unload_module PROVE TypeOK'
  BY <1>14 DEF unload_module
<1>15. ASSUME msq_stop_unsubscribe PROVE TypeOK'
  <2>1. UnsubscribeOk \in BOOLEAN
    BY DEF UnsubscribeOk, SendsUnsubscribe, NoError
  <2>2. chan' \in Events
    BY <1>15, <2>1, NextChanType
       DEF msq_stop_unsubscribe, _msq_toggle_subscriptions_off
  <2>3. active' \in [Events -> BOOLEAN]
    BY <1>15, <2>1 DEF msq_stop_unsubscribe, _msq_toggle_subscriptions_off
  <2> QED
    BY <1>15, <2>2, <2>3
       DEF msq_stop_unsubscribe, _msq_toggle_subscriptions_off
<1>16. ASSUME msq_stop_disconnect PROVE TypeOK'
  BY <1>16 DEF msq_stop_disconnect, _msq_disconnect
<1>17. ASSUME cleanup_module PROVE TypeOK'
  BY <1>17 DEF cleanup_module, msq_remove_all_servers
<1>18. CASE UNCHANGED vars
  BY <1>18 DEF vars
<1> QED
  BY <1>1, <1>2, <1>3, <1>4, <1>5, <1>6, <1>7, <1>8, <1>9, <1>10, <1>11,
     <1>12, <1>13, <1>14, <1>15, <1>16, <1>17, <1>18 DEF Next

(* Every step keeps the servers distinct: only load_general_config adds    *)
(* one.                                                                    *)
LEMMA DistinctStep == IInv /\ [Next]_vars => ServersDistinct'
<1> SUFFICES ASSUME IInv, [Next]_vars PROVE ServersDistinct'
  OBVIOUS
<1>1. ASSUME NEW s \in Servers, load_general_config(s) PROVE ServersDistinct'
  BY <1>1, AddServer DEF IInv, load_general_config
<1>2. CASE servers_root' \in {servers_root, <<>>}
  BY <1>2 DEF IInv, ServersDistinct
<1>3. \/ servers_root' \in {servers_root, <<>>}
      \/ \E s \in Servers : load_general_config(s)
  BY DEF Next, vars, msqVars, load_config_missing, load_config,
         ast_category_browse, load_general_config_malformed,
         load_channel_config_flag, msq_set_channel,
         load_channel_config_channel, msq_add_subscription,
         load_channel_config_unknown, load_config_done,
         msq_remove_all_servers, msq_start_connect,
         _msq_connect_to_next_server, msq_start_subscribe,
         _msq_toggle_subscriptions_on, reload, reload_missing, unload_module,
         msq_stop_unsubscribe, _msq_toggle_subscriptions_off,
         msq_stop_disconnect, _msq_disconnect, cleanup_module
<1> QED
  BY <1>1, <1>2, <1>3

(* Every step keeps StopInv: the loop of msq_stop goes on only past types  *)
(* that are not subscribed or have no channel.                             *)
LEMMA StopStep == IInv /\ [Next]_vars => StopInv'
<1> SUFFICES ASSUME IInv, [Next]_vars PROVE StopInv'
  OBVIOUS
<1> USE MsqAssumption DEF IInv, TypeOK, StopInv, msqVars, mapVars
<1>1. ASSUME msq_start_subscribe PROVE StopInv'
  BY <1>1 DEF msq_start_subscribe, _msq_toggle_subscriptions_on, NextChan
<1>2. ASSUME msq_stop_unsubscribe, fault = "none" PROVE StopInv'
  <2>1. /\ UNCHANGED <<subscribe, channel>>
        /\ pc = "toggle_off" /\ pc' \in {"toggle_off", "disconnect", "cleanup"}
    BY <1>2 DEF msq_stop_unsubscribe, _msq_toggle_subscriptions_off
  <2>2. CASE subscribe[chan] /\ ~channel[chan] /\ current_freed
    <3>1. chan' = chan /\ fault' = "freed_server"
      BY <1>2, <2>2 DEF msq_stop_unsubscribe, _msq_toggle_subscriptions_off,
                        SendsUnsubscribe
    <3>2. pc' = "disconnect" => chan = NEvents
      BY <1>2 DEF msq_stop_unsubscribe, LoopEnds
    <3> QED
      BY <2>1, <2>2, <3>1, <3>2 DEF Events
  <2>3. CASE ~(subscribe[chan] /\ ~channel[chan] /\ current_freed)
    <3>1. NextChan(UnsubscribeOk)
      BY <1>2, <2>3 DEF msq_stop_unsubscribe, _msq_toggle_subscriptions_off,
                        SendsUnsubscribe
    <3>2. UnsubscribeOk => (subscribe[chan] => ~channel[chan])
      BY DEF UnsubscribeOk, SendsUnsubscribe
    <3>3. CASE LoopEnds(UnsubscribeOk)
      <4>1. chan' = 1 /\ pc' \in {"disconnect", "cleanup"}
        BY <1>2, <3>1, <3>3 DEF msq_stop_unsubscribe, NextChan
      <4>2. pc' = "disconnect" => UnsubscribeOk /\ chan = NEvents
        BY <1>2, <3>3 DEF msq_stop_unsubscribe, LoopEnds
      <4> QED
        BY <2>1, <3>2, <4>1, <4>2 DEF Events
    <3>4. CASE ~LoopEnds(UnsubscribeOk)
      <4>1. UnsubscribeOk /\ chan' = chan + 1 /\ pc' = "toggle_off"
        BY <1>2, <3>1, <3>4 DEF msq_stop_unsubscribe, NextChan, LoopEnds
      <4> QED
        BY <2>1, <3>2, <4>1 DEF Events
    <3> QED
      BY <3>3, <3>4
  <2> QED
    BY <2>2, <2>3
<1>3. ASSUME unload_module, fault = "none" PROVE StopInv'
  BY <1>3 DEF unload_module, Events
<1>4. CASE UNCHANGED vars
  BY <1>4 DEF vars
<1>5. ASSUME /\ chan' = chan /\ fault = "none"
             /\ pc \notin {"toggle_on", "toggle_off"}
             /\ pc' \notin {"toggle_off", "disconnect"}
      PROVE  StopInv'
  BY <1>5
<1>6. \/ msq_start_subscribe \/ msq_stop_unsubscribe \/ unload_module
      \/ UNCHANGED vars
      \/ /\ chan' = chan
         /\ pc \notin {"toggle_on", "toggle_off"}
         /\ pc' \notin {"toggle_off", "disconnect"}
  BY DEF Next, load_config_missing, load_config, ast_category_browse,
         load_general_config, msq_add_server, load_general_config_malformed,
         load_channel_config_flag, msq_set_channel,
         load_channel_config_channel, msq_add_subscription,
         load_channel_config_unknown, load_config_done,
         msq_remove_all_servers, msq_start_connect,
         _msq_connect_to_next_server, reload, reload_missing,
         msq_stop_disconnect, _msq_disconnect, cleanup_module
<1>7. fault = "none" \/ UNCHANGED vars
  BY DEF Next
<1> QED
  BY <1>1, <1>2, <1>3, <1>4, <1>5, <1>6, <1>7

(* Only msq_stop reads freed memory, and StopInv says when.                *)
LEMMA UnloadStep == IInv /\ [Next]_vars => UnloadSafe'
<1> SUFFICES ASSUME IInv, [Next]_vars PROVE UnloadSafe'
  OBVIOUS
<1> USE DEF IInv, TypeOK, UnloadSafe, Subscribed
<1>1. ASSUME msq_stop_unsubscribe PROVE UnloadSafe'
  <2>1. UNCHANGED <<subscribe, channel>>
    BY <1>1 DEF msq_stop_unsubscribe, _msq_toggle_subscriptions_off
  <2>2. CASE subscribe[chan] /\ ~channel[chan]
    BY <2>1, <2>2
  <2>3. CASE ~(subscribe[chan] /\ ~channel[chan])
    BY <1>1, <2>1, <2>3 DEF msq_stop_unsubscribe, SendsUnsubscribe,
                            _msq_toggle_subscriptions_off
  <2> QED
    BY <2>2, <2>3
<1>2. ASSUME msq_stop_disconnect PROVE UnloadSafe'
  BY <1>2 DEF msq_stop_disconnect, _msq_disconnect, StopInv, mapVars
<1>3. CASE UNCHANGED vars
  BY <1>3 DEF vars, msqVars, mapVars
<1>4. CASE fault' \notin {"freed_server", "freed_context"}
  BY <1>4
<1>5. \/ msq_stop_unsubscribe \/ msq_stop_disconnect \/ UNCHANGED vars
      \/ fault' \notin {"freed_server", "freed_context"}
  BY DEF Next, msqVars, load_config_missing, load_config, ast_category_browse,
         load_general_config, msq_add_server, load_general_config_malformed,
         load_channel_config_flag, msq_set_channel,
         load_channel_config_channel, msq_add_subscription,
         load_channel_config_unknown, load_config_done,
         msq_remove_all_servers, msq_start_connect,
         _msq_connect_to_next_server, msq_start_subscribe,
         _msq_toggle_subscriptions_on, reload, reload_missing, unload_module,
         cleanup_module
<1> QED
  BY <1>1, <1>2, <1>3, <1>4, <1>5

(* Every step keeps StartInv, and SubscribedIsActive with it: the loop of  *)
(* msq_start goes on only past entries it has subscribed, and a reload     *)
(* comes back to "loaded" with current_server freed.                       *)
LEMMA ActiveStep ==
  IInv /\ [Next]_vars => StartInv' /\ SubscribedIsActive'
<1> SUFFICES ASSUME IInv, [Next]_vars PROVE StartInv' /\ SubscribedIsActive'
  OBVIOUS
<1>0. TypeOK /\ StopInv /\ StartInv /\ SubscribedIsActive
  BY DEF IInv
<1>1. ASSUME msq_start_subscribe PROVE StartInv' /\ SubscribedIsActive'
  <2>1. /\ UNCHANGED <<subscribe, channel, redisConn>>
        /\ pc = "toggle_on"
        /\ chan \in Events
    BY <1>0, <1>1 DEF msq_start_subscribe, _msq_toggle_subscriptions_on, TypeOK
  <2>2. \A e \in Events : e # chan => active'[e] = active[e]
    BY <1>0, <1>1 DEF msq_start_subscribe, _msq_toggle_subscriptions_on, TypeOK
  <2>3. queued \subseteq queued'
    BY <1>1 DEF msq_start_subscribe, _msq_toggle_subscriptions_on
  <2>4. \A e \in Events : e # chan /\ Done(e) => Done(e)'
    BY <2>1, <2>2, <2>3 DEF Done
  <2>5. CASE ~NoError \/ ~\A e \in Subscribed : channel[e]
    <3>1. ~NoError' \/ ~\A e \in Subscribed' : channel'[e]
      BY <2>1, <2>5 DEF NoError, Subscribed
    <3> QED
      BY <3>1 DEF StartInv, SubscribedIsActive
  <2>6. CASE NoError /\ \A e \in Subscribed : channel[e]
    <3>1. SubscribeOk
      BY <2>1, <2>6 DEF SubscribeOk, SendsSubscribe, Subscribed
    <3>2. subscribe[chan] => active'[chan] /\ \E q \in queued' : q.event = chan
      <4> SUFFICES ASSUME subscribe[chan]
                   PROVE  active'[chan] /\ \E q \in queued' : q.event = chan
        OBVIOUS
      <4>1. active' = [active EXCEPT ![chan] =
                         active[chan] \/ (subscribe[chan] /\ SubscribeOk)]
        BY <1>1 DEF msq_start_subscribe, _msq_toggle_subscriptions_on
      <4>2. active'[chan]
        BY <1>0, <2>1, <3>1, <4>1, ZenonT(20) DEF TypeOK
      <4>3. SendsSubscribe(chan)
        BY <2>1, <2>6 DEF SendsSubscribe, Subscribed
      <4>4. [event |-> chan, name |-> Name(chan)] \in queued'
        BY <1>1, <4>3 DEF msq_start_subscribe, _msq_toggle_subscriptions_on
      <4> QED
        BY <4>2, <4>4
    <3>3. \A e \in Events : e < chan => Done(e)
      BY <1>0, <2>1, <2>6 DEF StartInv
    <3>4. \A e \in Events : e <= chan =>
            (subscribe'[e] => active'[e] /\ \E q \in queued' : q.event = e)
      BY <2>1, <2>4, <3>2, <3>3 DEF Done, Events
    <3>5. CASE chan = NEvents
      <4>1. pc' = "loaded"
        BY <1>1, <3>5 DEF msq_start_subscribe, LoopEnds
      <4>2. \A e \in Subscribed' : e \in Events /\ subscribe'[e] /\ e <= chan
        BY <2>1, <3>5, MsqAssumption DEF Subscribed, Events
      <4> QED
        BY <3>4, <4>1, <4>2 DEF StartInv, SubscribedIsActive
    <3>6. CASE chan # NEvents
      <4>1. pc' = "toggle_on" /\ chan' = chan + 1
        BY <1>1, <3>1, <3>6 DEF msq_start_subscribe, LoopEnds, NextChan,
             _msq_toggle_subscriptions_on
      <4>2. \A e \in Events : e < chan' => e <= chan
        BY <2>1, <4>1 DEF Events
      <4> QED
        BY <3>4, <4>1, <4>2 DEF StartInv, SubscribedIsActive, Done
    <3> QED
      BY <3>5, <3>6
  <2> QED
    BY <2>5, <2>6
<1>2. ASSUME msq_start_connect, fault = "none"
      PROVE  StartInv' /\ SubscribedIsActive'
  <2>1. pc' = "toggle_on" /\ chan' = 1
    BY <1>0, <1>2 DEF msq_start_connect, _msq_connect_to_next_server, StopInv
  <2> QED
    BY <2>1 DEF StartInv, SubscribedIsActive, Events
<1>3. ASSUME load_config_done PROVE StartInv' /\ SubscribedIsActive'
  <2>1. \/ pc' \in {"connect", "declined"}
        \/ pc' = "loaded" /\ current_freed'
    BY <1>3 DEF load_config_done, msq_remove_all_servers, Reloading
  <2> QED
    BY <2>1 DEF StartInv, SubscribedIsActive
<1>4. ASSUME reload_missing PROVE StartInv' /\ SubscribedIsActive'
  <2>1. /\ UNCHANGED <<redisConn, subscribe, active, channel, queued>>
        /\ pc = "loaded" /\ pc' = "loaded"
        /\ ~current_freed' => ~current_freed
    BY <1>4 DEF reload_missing, msq_remove_all_servers, mapVars
  <2> QED
    BY <1>0, <2>1 DEF StartInv, SubscribedIsActive, Subscribed, NoError
<1>5. CASE UNCHANGED vars
  BY <1>0, <1>5 DEF vars, msqVars, mapVars, StartInv, SubscribedIsActive,
                    Subscribed, NoError, Done
<1>6. CASE pc' \notin {"toggle_on", "loaded"}
  BY <1>6 DEF StartInv, SubscribedIsActive
<1>7. \/ msq_start_subscribe \/ msq_start_connect \/ load_config_done
      \/ reload_missing \/ UNCHANGED vars
      \/ pc' \notin {"toggle_on", "loaded"}
  BY DEF Next, load_config_missing, load_config, ast_category_browse,
         load_general_config, load_general_config_malformed,
         load_channel_config_flag, load_channel_config_channel,
         load_channel_config_unknown, reload, unload_module,
         msq_stop_unsubscribe, msq_stop_disconnect, cleanup_module
<1>8. fault = "none" \/ UNCHANGED vars
  BY DEF Next
<1> QED
  BY <1>1, <1>2, <1>3, <1>4, <1>5, <1>6, <1>7, <1>8
-----------------------------------------------------------------------------
(* The invariant holds for every behaviour.                                *)
THEOREM Invariance == Spec => []IInv
<1>1. Init => IInv
  <2> SUFFICES ASSUME Init PROVE IInv
    OBVIOUS
  <2>1. TypeOK
    <3>1. EVENT_PING \in Events /\ 1 \in Events
      BY MsqAssumption DEF Events, EVENT_PING
    <3>2. cat \in Cats
      BY <3>1 DEF Init, Cats, Categories
    <3>3. /\ publish \in [Events -> BOOLEAN]
          /\ subscribe \in [Events -> BOOLEAN]
          /\ active \in [Events -> BOOLEAN]
          /\ channel \in [Events -> BOOLEAN]
          /\ pattern \in [Events -> BOOLEAN]
      BY ZenonT(20) DEF Init, MsqInit
    <3>4. redisConn \in [Conns -> {"null", "connecting", "error"}]
      BY DEF Init, MsqInit
    <3> QED
      BY <3>1, <3>2, <3>3, <3>4, <<>> \in Seq(Servers)
         DEF Init, MsqInit, TypeOK
  <2>2. StopInv /\ ServersDistinct /\ UnloadSafe
    BY DEF Init, MsqInit, StopInv, ServersDistinct, UnloadSafe
  <2>3. StartInv /\ SubscribedIsActive
    BY DEF Init, StartInv, SubscribedIsActive
  <2> QED
    BY <2>1, <2>2, <2>3 DEF IInv
<1>2. IInv /\ [Next]_vars => IInv'
  BY TypeStep, DistinctStep, StopStep, UnloadStep, ActiveStep DEF IInv
<1> QED
  BY <1>1, <1>2, PTL DEF Spec

(* All variables of the module and the library keep their types; the loops *)
(* of _msq_toggle_subscriptions stay inside msq_event_map.                 *)
THEOREM TypeCorrect == Spec => []TypeOK
BY Invariance, PTL DEF IInv

(* No server is listed twice, whatever the configurations read by load and *)
(* reload.                                                                 *)
THEOREM DistinctCorrect == Spec => []ServersDistinct
BY Invariance, PTL DEF IInv

(* unload_module, after any number of reloads, reads freed memory only if  *)
(* no type is subscribed or a subscribed one has no channel.               *)
THEOREM UnloadCorrect == Spec => []UnloadSafe
BY Invariance, PTL DEF IInv

(* When msq_start has returned, every subscribed type, ping included, is   *)
(* active and has its SUBSCRIBE in the buffer, for any number of types, if *)
(* all of them have a channel and the connection did not fail at once.     *)
THEOREM ActiveCorrect == Spec => []SubscribedIsActive
BY Invariance, PTL DEF IInv
=============================================================================
