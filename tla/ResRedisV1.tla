----------------------------- MODULE ResRedisV1 -----------------------------
(***************************************************************************)
(* res_redis/res_redis_v1.c on lib/msq_redis.c: load_module, any number of *)
(* reloads, unload_module.  One thread runs all of it.                     *)
(*                                                                         *)
(* The configuration is read one option at a time; which categories and    *)
(* options it has, in which order, is open, and a reload may find another  *)
(* one.  Options that only print or do nothing are left out.               *)
(***************************************************************************)
EXTENDS MsqRedis

VARIABLES
  pc,    \* boot, config, connect, toggle_on, loaded, toggle_off,
         \* disconnect, cleanup, unloaded, declined
  cat,   \* the category being read
  res    \* did the category give an exception?

vars == <<msqVars, pc, cat, res>>

Categories == {"none", "general", "event", "unknown"}

(* cat.event matters in categories that name an event type.                *)
Cats == [kind : Categories, event : Events]

Init ==
  /\ MsqInit
  /\ pc = "boot"
  /\ cat = [kind |-> "none", event |-> EVENT_PING]
  /\ res = FALSE
-----------------------------------------------------------------------------
(* load_config.                                                            *)

(* Only a module that has started a server is reloaded.                    *)
Reloading == current_server # NULL

(* No usable configuration file: the load is declined.                     *)
load_config_missing ==
  /\ pc = "boot"
  /\ pc' = "declined"
  /\ UNCHANGED <<msqVars, cat, res>>

load_config ==
  /\ pc = "boot"
  /\ pc' = "config"
  /\ UNCHANGED <<msqVars, cat, res>>

(* The next category; what the one before gave is forgotten.               *)
ast_category_browse ==
  /\ pc = "config"
  /\ cat' \in {c \in Cats : c.kind # "none"}
  /\ res' = FALSE
  /\ UNCHANGED <<msqVars, pc>>

(* A server option of [general], unless an earlier one was refused.        *)
load_general_config(s) ==
  /\ pc = "config" /\ cat.kind = "general" /\ ~res
  /\ msq_add_server(s)
  /\ res' = Listed(s)
  /\ UNCHANGED <<pc, cat>>

(* A server option without a colon or a slash makes atoi read NULL; with   *)
(* an empty host or a port that is no number, msq_add_server writes to the *)
(* node it has just given up.                                              *)
load_general_config_malformed ==
  /\ pc = "config" /\ cat.kind = "general" /\ ~res
  /\ fault' = "malformed"
  /\ UNCHANGED <<servers_root, current_server, current_freed, redisConn,
                 mapVars, chan, queued, pc, cat, res>>

(* A publish or subscribe option.                                          *)
load_channel_config_flag(type, onoff) ==
  /\ pc = "config" /\ cat.kind = "event" /\ ~res
  /\ msq_set_channel(cat.event, type, onoff)
  /\ UNCHANGED <<pc, cat, res>>

(* A channel option; refused if the entry already has one.                 *)
load_channel_config_channel ==
  /\ pc = "config" /\ cat.kind = "event" /\ ~res
  /\ msq_add_subscription(cat.event)
  /\ res' = PreviousSubscription(cat.event)
  /\ UNCHANGED <<pc, cat>>

(* find_event_byname returns the length of the array for a category it     *)
(* does not find; any of the three options then uses that as an index.     *)
load_channel_config_unknown ==
  /\ pc = "config" /\ cat.kind = "unknown" /\ ~res
  /\ fault' = "out_of_bounds"
  /\ UNCHANGED <<servers_root, current_server, current_freed, redisConn,
                 mapVars, chan, queued, pc, cat, res>>

(* The file ends.  The load goes on if the last category gave no exception *)
(* and is declined otherwise; a reload ends with cleanup_module in any     *)
(* case.                                                                   *)
load_config_done ==
  /\ pc = "config"
  /\ \/ ~Reloading /\ ~res /\ pc' = "connect" /\ UNCHANGED msqVars
     \/ ~Reloading /\ res /\ pc' = "declined" /\ msq_remove_all_servers
     \/ Reloading /\ pc' = "loaded" /\ msq_remove_all_servers
  /\ cat' = [kind |-> "none", event |-> EVENT_PING]
  /\ res' = FALSE
-----------------------------------------------------------------------------
(* msq_start ignores the result of either part.                            *)
msq_start_connect ==
  /\ pc = "connect"
  /\ pc' = "toggle_on"
  /\ _msq_connect_to_next_server
  /\ UNCHANGED <<cat, res>>

msq_start_subscribe ==
  /\ pc = "toggle_on"
  /\ _msq_toggle_subscriptions_on
  /\ pc' = IF LoopEnds(SubscribeOk) THEN "loaded" ELSE "toggle_on"
  /\ UNCHANGED <<cat, res>>

(* cleanup_module, then the file is read again ...                         *)
reload ==
  /\ pc = "loaded"
  /\ pc' = "config"
  /\ msq_remove_all_servers
  /\ UNCHANGED <<cat, res>>

(* ... unless it cannot be read; cleanup_module is called then as well.    *)
reload_missing ==
  /\ pc = "loaded"
  /\ msq_remove_all_servers
  /\ UNCHANGED <<pc, cat, res>>

unload_module ==
  /\ pc = "loaded"
  /\ pc' = "toggle_off"
  /\ UNCHANGED <<msqVars, cat, res>>

(* msq_stop: unsubscribe, and disconnect if that went well.  After an      *)
(* exception cleanup_module is next, which frees the servers.              *)
msq_stop_unsubscribe ==
  /\ pc = "toggle_off"
  /\ _msq_toggle_subscriptions_off
  /\ pc' = IF ~LoopEnds(UnsubscribeOk) THEN "toggle_off"
           ELSE IF UnsubscribeOk THEN "disconnect" ELSE "cleanup"
  /\ UNCHANGED <<cat, res>>

msq_stop_disconnect ==
  /\ pc = "disconnect"
  /\ pc' = "cleanup"
  /\ _msq_disconnect
  /\ UNCHANGED <<cat, res>>

cleanup_module ==
  /\ pc = "cleanup"
  /\ pc' = "unloaded"
  /\ msq_remove_all_servers
  /\ UNCHANGED <<cat, res>>

Next ==
  /\ fault = "none"
  /\ \/ load_config_missing \/ load_config \/ ast_category_browse
     \/ \E s \in Servers : load_general_config(s)
     \/ load_general_config_malformed
     \/ \E type \in Conns, onoff \in BOOLEAN :
          load_channel_config_flag(type, onoff)
     \/ load_channel_config_channel \/ load_channel_config_unknown
     \/ load_config_done
     \/ msq_start_connect \/ msq_start_subscribe
     \/ reload \/ reload_missing
     \/ unload_module \/ msq_stop_unsubscribe \/ msq_stop_disconnect
     \/ cleanup_module

Spec == Init /\ [][Next]_vars
-----------------------------------------------------------------------------
(* Every variable has its type: the loops of _msq_toggle_subscriptions     *)
(* stay inside msq_event_map.                                              *)
TypeOK ==
  /\ servers_root \in Seq(Servers)
  /\ current_server \in Servers \cup {NULL}
  /\ current_freed \in BOOLEAN
  /\ redisConn \in [Conns -> {"null", "connecting", "error"}]
  /\ publish \in [Events -> BOOLEAN]
  /\ subscribe \in [Events -> BOOLEAN]
  /\ active \in [Events -> BOOLEAN]
  /\ channel \in [Events -> BOOLEAN]
  /\ pattern \in [Events -> BOOLEAN]
  /\ chan \in Events
  /\ queued \subseteq [event : Events, name : Names]
  /\ fault \in {"none", "malformed", "out_of_bounds", "null_server",
                "freed_server", "freed_context"}
  /\ pc \in {"boot", "config", "connect", "toggle_on", "loaded", "toggle_off",
             "disconnect", "cleanup", "unloaded", "declined"}
  /\ cat \in Cats
  /\ res \in BOOLEAN

(* A server is listed once, over all reloads: msq_add_server refuses it    *)
(* the second time, and load_config empties the list before it reads.      *)
ServersDistinct ==
  \A i, j \in 1..Len(servers_root) :
    servers_root[i] = servers_root[j] => i = j

Subscribed == {e \in Events : subscribe[e]}

(* After any number of reloads, each of which frees the node that          *)
(* current_server points to, unload_module stays away from that node and   *)
(* from freed contexts if every subscribed type has a channel and there is *)
(* one: msq_send_unsubscribe then refuses the first of them.               *)
UnloadSafe ==
  fault \in {"freed_server", "freed_context"} =>
    \/ Subscribed = {}
    \/ \E e \in Subscribed : ~channel[e]

(* msq_start has queued a SUBSCRIBE for every subscribed type, ping        *)
(* included, and marked it active, if all of them have a channel and the   *)
(* connection did not fail at once.                                        *)
SubscribedIsActive ==
  pc = "loaded" /\ ~current_freed /\ NoError
    /\ (\A e \in Subscribed : channel[e])
      => \A e \in Subscribed : active[e] /\ \E q \in queued : q.event = e
=============================================================================
