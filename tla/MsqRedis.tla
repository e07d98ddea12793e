------------------------------ MODULE MsqRedis ------------------------------
(***************************************************************************)
(* lib/msq_redis.c, the message queue library of res_redis_v1: the list of *)
(* servers, the server in use and the map of event types.  Its functions   *)
(* are operators here; ResRedisV1 is the module that calls them.           *)
(*                                                                         *)
(* The client is one thread, and it never calls msq_start_eventloop, so    *)
(* the locks (which raii_wrlock releases at once) and the callbacks of the *)
(* loop do not appear, and commands stay in hiredis' buffer.               *)
(***************************************************************************)
EXTENDS Integers, Sequences

CONSTANTS NEvents,     \* named entries of msq_event_map, in index order
          MaxServers   \* servers that a configuration may name

ASSUME MsqAssumption == NEvents \in Nat \ {0} /\ MaxServers \in Nat

Events == 1..NEvents
EVENT_PING == NEvents
Servers == 1..MaxServers
NULL == 0
Conns == {"PUBLISH", "SUBSCRIBE"}

(* What SUBSCRIBE is given: the channel, or the channel, a colon and the   *)
(* pattern.                                                                *)
Names == {"channel", "channel:pattern"}

VARIABLES
  servers_root,        \* the list
  current_server,      \* NULL, or the server whose node it points to
  current_freed,       \* has that node been freed?
  redisConn,           \* the contexts in that node
  publish, subscribe, active,   \* flags of msq_event_map[e]
  channel,             \* .channel # NULL; .callback is set with it
  pattern,             \* .pattern # NULL
  chan,                \* index of the loop of _msq_toggle_subscriptions
  queued,              \* SUBSCRIBEs in the buffer of the context in use
  fault                \* the bad pointer or index that was used

mapVars == <<publish, subscribe, active, channel, pattern>>
msqVars == <<servers_root, current_server, current_freed, redisConn, mapVars,
             chan, queued, fault>>

MsqInit ==
  /\ servers_root = <<>>
  /\ current_server = NULL /\ current_freed = FALSE
  /\ redisConn = [k \in Conns |-> "null"]
  /\ publish = [e \in Events |-> e = EVENT_PING]
  /\ subscribe = [e \in Events |-> e = EVENT_PING]
  /\ active = [e \in Events |-> FALSE]
  /\ channel = [e \in Events |-> e = EVENT_PING]
  /\ pattern = [e \in Events |-> e = EVENT_PING]
  /\ chan = 1 /\ queued = {} /\ fault = "none"
-----------------------------------------------------------------------------
(* Servers.                                                                *)

(* Only the first node is compared.                                        *)
Listed_RootOnly(s) == servers_root # <<>> /\ Head(servers_root) = s
Listed(s) == \E i \in 1..Len(servers_root) : servers_root[i] = s

(* EXISTS_EXCEPTION, or a node at the end of the list.                     *)
msq_add_server(s) ==
  /\ servers_root' = IF Listed(s) THEN servers_root ELSE Append(servers_root, s)
  /\ UNCHANGED <<current_server, current_freed, redisConn, mapVars, chan,
                 queued, fault>>

(* Every node is freed; current_server keeps pointing to one.              *)
msq_remove_all_servers ==
  /\ servers_root' = <<>>
  /\ current_freed' = (current_freed \/ current_server # NULL)
  /\ UNCHANGED <<current_server, redisConn, mapVars, chan, queued, fault>>

(* msq_start, when nothing was started before: take the first server and   *)
(* dial it twice; what went wrong is not acted on.  With an empty list the *)
(* connection_type of NULL is read.                                        *)
_msq_connect_to_next_server ==
  /\ \/ /\ servers_root # <<>>
        /\ current_server' = Head(servers_root)
        /\ current_freed' = FALSE
        /\ redisConn' \in [Conns -> {"connecting", "error"}]
        /\ UNCHANGED fault
     \/ /\ servers_root = <<>>
        /\ fault' = "null_server"
        /\ UNCHANGED <<current_server, current_freed, redisConn>>
  /\ UNCHANGED <<servers_root, mapVars, chan, queued>>

(* _msq_disconnect, after the unsubscriptions went well: hiredis frees a   *)
(* context that is disconnected, and its error is read afterwards.         *)
_msq_disconnect ==
  /\ fault' = IF current_freed THEN "freed_server" ELSE "freed_context"
  /\ UNCHANGED <<servers_root, current_server, current_freed, redisConn,
                 mapVars, chan, queued>>
-----------------------------------------------------------------------------
(* Subscriptions.                                                          *)

msq_set_channel(e, type, onoff) ==
  /\ \/ /\ type = "PUBLISH"
        /\ publish' = [publish EXCEPT ![e] = onoff]
        /\ UNCHANGED subscribe
     \/ /\ type = "SUBSCRIBE"
        /\ subscribe' = [subscribe EXCEPT ![e] = onoff]
        /\ UNCHANGED publish
  /\ UNCHANGED <<servers_root, current_server, current_freed, redisConn,
                 active, channel, pattern, chan, queued, fault>>

PreviousSubscription(e) == channel[e] \/ pattern[e]

(* The pattern is the empty string, which is not NULL.                     *)
msq_add_subscription(e) ==
  /\ channel' = [channel EXCEPT ![e] = TRUE]
  /\ pattern' = [pattern EXCEPT ![e] = TRUE]
  /\ active' = [active EXCEPT ![e] = @ /\ PreviousSubscription(e)]
  /\ UNCHANGED <<servers_root, current_server, current_freed, redisConn,
                 publish, subscribe, chan, queued, fault>>

Name(e) == IF pattern[e] THEN "channel:pattern" ELSE "channel"

(* msq_send_subscribe gives GENERAL_EXCEPTION for an entry without channel,*)
(* msq_send_unsubscribe for an entry with one.                             *)
SendsSubscribe(e) == channel[e]
SendsUnsubscribe_WithChannel(e) == channel[e]
SendsUnsubscribe(e) == ~channel[e]

NoError == redisConn["SUBSCRIBE"] # "error"

(* The loops of _msq_toggle_subscriptions end at the last entry, or at the *)
(* first exception.                                                        *)
LoopEnds_OneTooLate(ok) == ~ok \/ chan > NEvents
LoopEnds_OneTooEarly(ok) == ~ok \/ chan >= NEvents - 1
LoopEnds(ok) == ~ok \/ chan = NEvents

NextChan(ok) == chan' = IF LoopEnds(ok) THEN 1 ELSE chan + 1

SubscribeOk == subscribe[chan] => SendsSubscribe(chan) /\ NoError

(* One entry of _msq_toggle_subscriptions(TRUE).                           *)
_msq_toggle_subscriptions_on ==
  /\ queued' = queued \cup {[event |-> e, name |-> Name(e)] :
                            e \in {x \in {chan} : /\ subscribe[x]
                                                  /\ SendsSubscribe(x)}}
  /\ active' = [active EXCEPT ![chan] = @ \/ (subscribe[chan] /\ SubscribeOk)]
  /\ NextChan(SubscribeOk)
  /\ UNCHANGED <<servers_root, current_server, current_freed, redisConn,
                 publish, subscribe, channel, pattern, fault>>

UnsubscribeOk == subscribe[chan] => SendsUnsubscribe(chan) /\ NoError

(* One entry of _msq_toggle_subscriptions(FALSE).  UNSUBSCRIBE needs the   *)
(* node of the current server.                                             *)
_msq_toggle_subscriptions_off ==
  /\ \/ /\ subscribe[chan] /\ SendsUnsubscribe(chan) /\ current_freed
        /\ fault' = "freed_server"
        /\ UNCHANGED <<active, chan>>
     \/ /\ ~(subscribe[chan] /\ SendsUnsubscribe(chan) /\ current_freed)
        /\ active' = [active EXCEPT ![chan] =
                        @ /\ ~(subscribe[chan] /\ UnsubscribeOk)]
        /\ NextChan(UnsubscribeOk)
        /\ UNCHANGED fault
  /\ UNCHANGED <<servers_root, current_server, current_freed, redisConn,
                 publish, subscribe, channel, pattern, queued>>
=============================================================================
