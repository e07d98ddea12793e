------------------------------ MODULE MsqLoop ------------------------------
(***************************************************************************)
(* The event loop of lib/msq_redis.c: a client thread that uses the public *)
(* functions in the order message_queue_pubsub.h suggests, the thread that *)
(* msq_start_eventloop creates, and redis servers that refuse or close     *)
(* connections.  res_redis_v1 never starts the loop; this is what a client *)
(* that does gets.                                                         *)
(*                                                                         *)
(* Some subscribed event type has a channel, as the built-in ping has, so  *)
(* _msq_toggle_subscriptions(FALSE) is refused and _msq_disconnect does    *)
(* nothing (see MsqRedis).  The locks on servers and events are released   *)
(* where they are taken, so they do not appear.                            *)
(***************************************************************************)
EXTENDS Integers

CONSTANT NServers    \* length of the list of servers

ASSUME LoopAssumption == NServers \in Nat \ {0}

Servers == 1..NServers
Conns == {"PUBLISH", "SUBSCRIBE"}
NULL == 0

VARIABLES
  cpc,        \* the client: new, started, running, publish, exit, join, done
  todo,       \* which of msq_stop and msq_stop_eventloop it has not called
  current_server,
  redisConn,  \* redisConn[s][k]: NULL or the dial, 1, 2, .. that made it
  dials,      \* how often two contexts were made
  conn,       \* the contexts of the first dial, the only ones a loop watches:
              \* new, connecting, connected, freed
  arg,        \* the context that msq_publish has read
  lpc,        \* the loop: none, attach, ready, sleep, lost, check, move, dial,
              \* exited
  closing,    \* the context whose callback runs
  mutex,      \* msq_startstop_mutex: is it held?
  stopped,
  evloop,     \* the server whose node has the base and the thread
  loopexit,   \* has event_base_loopexit been called for this loop?
  base,       \* the loop's event base: none, live, freed
  fault,      \* the bad pointer that was used
  late        \* history: servers changed since msq_stop returned

clientVars == <<cpc, todo, arg>>
loopVars == <<lpc, closing>>
serverVars == <<current_server, redisConn, dials>>
vars == <<clientVars, loopVars, serverVars, conn, mutex, stopped, evloop,
          loopexit, base, fault, late>>

Init ==
  /\ cpc = "new" /\ todo = {"stop", "stop_eventloop"} /\ arg = NULL
  /\ lpc = "none" /\ closing = "PUBLISH"
  /\ current_server = NULL /\ dials = 0
  /\ redisConn = [s \in Servers |-> [k \in Conns |-> NULL]]
  /\ conn = [k \in Conns |-> "new"]
  /\ mutex = FALSE /\ stopped = FALSE
  /\ evloop = NULL /\ loopexit = FALSE /\ base = "none"
  /\ fault = "none" /\ late = 0
-----------------------------------------------------------------------------
(* The server after the current one, or the first.                         *)
NextServer_NoWrap == current_server + 1
NextServer == IF current_server \in 1..(NServers - 1)
                THEN current_server + 1 ELSE 1

(* Two contexts are dialled into the node of s, over whatever it had.      *)
Dial_SubscribeOnly(s) ==
  /\ dials' = dials + 1
  /\ redisConn' = [redisConn EXCEPT ![s]["SUBSCRIBE"] = dials']
Dial(s) == /\ dials' = dials + 1
           /\ redisConn' = [redisConn EXCEPT ![s] = [k \in Conns |-> dials']]

(* Nothing else runs yet.                                                  *)
msq_start ==
  /\ cpc = "new" /\ cpc' = "started"
  /\ current_server' = NextServer
  /\ Dial(NextServer)
  /\ stopped' = FALSE
  /\ UNCHANGED <<todo, arg, loopVars, conn, mutex, evloop, loopexit, base,
                 fault, late>>

msq_start_eventloop ==
  /\ cpc = "started" /\ cpc' = "running"
  /\ evloop' = current_server /\ base' = "live"
  /\ lpc' = "attach"
  /\ UNCHANGED <<todo, arg, closing, serverVars, conn, mutex, stopped,
                 loopexit, fault, late>>

(* msq_publish reads the context ...                                       *)
msq_publish ==
  /\ cpc = "running" /\ cpc' = "publish"
  /\ arg' = redisConn[current_server]["PUBLISH"]
  /\ UNCHANGED <<todo, loopVars, serverVars, conn, mutex, stopped, evloop,
                 loopexit, base, fault, late>>

Freed(d, k) == d = 1 /\ conn[k] = "freed"

(* ... and gives it to hiredis, which may wake a loop that watches it.     *)
redisAsyncCommand ==
  /\ cpc = "publish"
  /\ \/ /\ arg = NULL \/ Freed(arg, "PUBLISH")
        /\ fault' = "publish" /\ UNCHANGED <<cpc, lpc>>
     \/ /\ arg # NULL /\ ~Freed(arg, "PUBLISH")
        /\ cpc' = "running"
        /\ lpc' \in {lpc} \cup (IF arg = 1 /\ lpc = "sleep" THEN {"ready"}
                                                            ELSE {})
        /\ UNCHANGED fault
  /\ UNCHANGED <<todo, arg, closing, serverVars, conn, mutex, stopped, evloop,
                 loopexit, base, late>>

(* Where the client goes on, when f is done.                               *)
Returned(f) == /\ todo' = todo \ {f}
               /\ cpc' = IF todo = {f} THEN "done" ELSE "running"

(* Under the mutex; _msq_disconnect finds subscriptions and gives up.      *)
msq_stop ==
  /\ cpc = "running" /\ "stop" \in todo /\ ~mutex
  /\ stopped' = TRUE
  /\ Returned("stop")
  /\ UNCHANGED <<arg, loopVars, serverVars, conn, mutex, evloop, loopexit,
                 base, fault, late>>

(* Each of the three steps of msq_stop_eventloop looks up current_server.  *)
(* A node that has no loop has neither a base nor a thread to join.        *)
msq_stop_eventloop ==
  /\ cpc = "running" /\ "stop_eventloop" \in todo
  /\ cpc' = "exit"
  /\ loopexit' = (current_server = evloop)
  /\ UNCHANGED <<todo, arg, loopVars, serverVars, conn, mutex, stopped, evloop,
                 base, fault, late>>

msq_stop_eventloop_join ==
  /\ cpc = "exit"
  /\ \/ current_server = evloop /\ cpc' = "join" /\ UNCHANGED fault
     \/ current_server # evloop /\ fault' = "join" /\ UNCHANGED cpc
  /\ UNCHANGED <<todo, arg, loopVars, serverVars, conn, mutex, stopped, evloop,
                 loopexit, base, late>>

(* pthread_join returns; libevent takes NULL for its default base.         *)
msq_stop_eventloop_free ==
  /\ cpc = "join" /\ lpc = "exited"
  /\ base' = IF current_server = evloop THEN "freed" ELSE base
  /\ Returned("stop_eventloop")
  /\ UNCHANGED <<arg, loopVars, serverVars, conn, mutex, stopped, evloop,
                 loopexit, fault, late>>
-----------------------------------------------------------------------------
eventloop_dispatch_thread ==
  /\ lpc = "attach" /\ lpc' = "ready"
  /\ conn' = [k \in Conns |-> "connecting"]
  /\ UNCHANGED <<clientVars, closing, serverVars, mutex, stopped, evloop,
                 loopexit, base, fault, late>>

(* event_base_dispatch looks for an exit, and for something left to watch, *)
(* before it sleeps.                                                       *)
event_base_dispatch ==
  /\ lpc = "ready"
  /\ lpc' = IF loopexit \/ \A k \in Conns : conn[k] = "freed"
              THEN "exited" ELSE "sleep"
  /\ UNCHANGED <<clientVars, closing, serverVars, conn, mutex, stopped, evloop,
                 loopexit, base, fault, late>>

(* A context is connected, or refused: then hiredis frees it, with no call *)
(* of redis_disconnect_cb, and redis_connect_cb only prints the error.     *)
redis_connect_cb(k) ==
  /\ lpc = "sleep" /\ lpc' = "ready"
  /\ conn[k] = "connecting"
  /\ \E c \in {"connected", "freed"} : conn' = [conn EXCEPT ![k] = c]
  /\ UNCHANGED <<clientVars, closing, serverVars, mutex, stopped, evloop,
                 loopexit, base, fault, late>>

(* A reply or a message.                                                   *)
traffic(k) ==
  /\ lpc = "sleep" /\ lpc' = "ready"
  /\ conn[k] = "connected"
  /\ UNCHANGED <<clientVars, closing, serverVars, conn, mutex, stopped, evloop,
                 loopexit, base, fault, late>>

(* The server closes a connection; hiredis calls redis_disconnect_cb.      *)
connection_lost(k) ==
  /\ lpc = "sleep" /\ lpc' = "lost"
  /\ conn[k] = "connected"
  /\ closing' = k
  /\ UNCHANGED <<clientVars, serverVars, conn, mutex, stopped, evloop,
                 loopexit, base, fault, late>>

redis_disconnect_cb ==
  /\ lpc = "lost" /\ lpc' = "check"
  /\ ~mutex /\ mutex' = TRUE
  /\ UNCHANGED <<clientVars, closing, serverVars, conn, stopped, evloop,
                 loopexit, base, fault, late>>

(* hiredis frees the context when its callback returns.                    *)
CallbackReturns == /\ lpc' = "ready"
                   /\ conn' = [conn EXCEPT ![closing] = "freed"]

(* The mutex is not given back on the way that does nothing.               *)
redis_disconnect_cb_check_KeepsMutex ==
  /\ lpc = "check"
  /\ \/ ~stopped /\ lpc' = "move" /\ mutex' = FALSE /\ UNCHANGED conn
     \/ stopped /\ CallbackReturns /\ UNCHANGED mutex
  /\ UNCHANGED <<clientVars, closing, serverVars, stopped, evloop, loopexit,
                 base, fault, late>>

redis_disconnect_cb_check_Always ==
  /\ lpc = "check" /\ lpc' = "move"
  /\ mutex' = FALSE
  /\ UNCHANGED <<clientVars, closing, serverVars, conn, stopped, evloop,
                 loopexit, base, fault, late>>

(* stopped is looked at under the mutex, and acted on without it.          *)
redis_disconnect_cb_check ==
  /\ lpc = "check"
  /\ mutex' = FALSE
  /\ \/ ~stopped /\ lpc' = "move" /\ UNCHANGED conn
     \/ stopped /\ CallbackReturns
  /\ UNCHANGED <<clientVars, closing, serverVars, stopped, evloop, loopexit,
                 base, fault, late>>

(* _msq_connect_to_next_server: first the pointer ...                      *)
_msq_connect_to_next_server ==
  /\ lpc = "move" /\ lpc' = "dial"
  /\ current_server' = NextServer
  /\ late' = IF "stop" \in todo THEN late ELSE late + 1
  /\ UNCHANGED <<clientVars, closing, redisConn, dials, conn, mutex, stopped,
                 evloop, loopexit, base, fault>>

(* ... then the contexts, which no loop is told of, and the SUBSCRIBEs.    *)
_msq_connect_to_next_server_dial ==
  /\ lpc = "dial"
  /\ Dial(current_server)
  /\ CallbackReturns
  /\ UNCHANGED <<clientVars, closing, current_server, mutex, stopped, evloop,
                 loopexit, base, fault, late>>
-----------------------------------------------------------------------------
Client == \/ msq_start \/ msq_start_eventloop \/ msq_publish
          \/ redisAsyncCommand \/ msq_stop \/ msq_stop_eventloop
          \/ msq_stop_eventloop_join \/ msq_stop_eventloop_free

Loop == \/ eventloop_dispatch_thread \/ event_base_dispatch
        \/ redis_disconnect_cb \/ redis_disconnect_cb_check
        \/ _msq_connect_to_next_server \/ _msq_connect_to_next_server_dial

Running == fault = "none"

Next == /\ Running
        /\ \/ Client \/ Loop
           \/ \E k \in Conns : \/ redis_connect_cb(k) \/ traffic(k)
                               \/ connection_lost(k)

Spec == Init /\ [][Next]_vars

(* The loop's thread runs when it has something to do.  A server need not  *)
(* answer, and may keep a connection for ever; a client may do nothing.    *)
FairSpec == Spec /\ WF_vars(Running /\ Loop)
-----------------------------------------------------------------------------
(* Every variable has its type.  Each of the two contexts of a lost server *)
(* moves the client on by one server: at most three dials.                 *)
TypeOK ==
  /\ cpc \in {"new", "started", "running", "publish", "exit", "join", "done"}
  /\ todo \subseteq {"stop", "stop_eventloop"}
  /\ arg \in 0..3
  /\ lpc \in {"none", "attach", "ready", "sleep", "lost", "check", "move",
              "dial", "exited"}
  /\ closing \in Conns
  /\ current_server \in Servers \cup {NULL}
  /\ redisConn \in [Servers -> [Conns -> 0..3]]
  /\ dials \in 0..3
  /\ conn \in [Conns -> {"new", "connecting", "connected", "freed"}]
  /\ mutex \in BOOLEAN /\ stopped \in BOOLEAN /\ loopexit \in BOOLEAN
  /\ evloop \in Servers \cup {NULL}
  /\ base \in {"none", "live", "freed"}
  /\ fault \in {"none", "publish", "join"}
  /\ late \in Nat

Lost == {k \in Conns : conn[k] = "freed"}

(* msq_publish and msq_stop_eventloop, called in either order with         *)
(* msq_stop, meet a bad pointer only after a connection was refused or     *)
(* lost; the loop that cannot be joined takes a connection that was lost.  *)
FaultNeedsLoss ==
  /\ fault # "none" => Lost # {} \/ lpc \in {"move", "dial"}
  /\ fault = "join" => dials > 1 \/ lpc = "dial"

(* The callback that has seen that msq_stop was not called may still go to *)
(* the next server after msq_stop has returned; no second one does.  When  *)
(* msq_stop_eventloop has returned, the loop's thread is gone, and its     *)
(* base with it unless the client was moved to another server.             *)
StopIsFinal ==
  /\ late <= 1
  /\ "stop_eventloop" \notin todo =>
       lpc = "exited" /\ (base = "freed" \/ dials > 1)

Gone(k) == \/ conn[k] = "freed"
           \/ lpc \in {"lost", "check", "move", "dial"} /\ closing = k

(* When both connections are refused or lost, the callbacks come to their  *)
(* end, neither waits for ever for the mutex that msq_stop takes, and the  *)
(* loop ends, so that a client that joins it can go on.                    *)
LoopEnds == (\A k \in Conns : Gone(k)) ~> (lpc = "exited" \/ fault # "none")
=============================================================================
