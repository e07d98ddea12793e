------------------------------ MODULE ResRedis ------------------------------
(***************************************************************************)
(* One Asterisk 11 server with res_redis.so loaded (res_redis/res_redis.c, *)
(* built without HAVE_PBX_STASIS_H), from load_module to unload_module.    *)
(*                                                                         *)
(* Three threads run the module's code:                                    *)
(*   mod   the thread that calls load_module and unload_module;            *)
(*   loop  the dispatch thread: libevent's loop and hiredis' callbacks;    *)
(*   evt   Asterisk's event dispatcher, which calls ast_event_cb.          *)
(* Each has a program counter; a step is the code between two accesses to  *)
(* state that another thread may change.  A use of freed or NULL memory    *)
(* sets fault and ends the behaviour: what follows is undefined.           *)
(***************************************************************************)
EXTENDS Integers, Sequences

CONSTANTS NTypes,      \* named entries of event_types, in index order
          MaxServers,  \* most servers the configuration lists
          MaxEvents    \* bound on events and messages the environment makes

ASSUME ConstantsAssumption ==
  /\ NTypes \in Nat \ {0}
  /\ MaxServers \in Nat
  /\ MaxEvents \in Nat

Types == 1..NTypes
AST_EVENT_PING == NTypes                   \* the entry with the last index
Configurable == Types \ {AST_EVENT_PING}   \* set_event is never given "ping"
Servers == 1..MaxServers
Conns == {"pub", "sub"}                    \* redisPubConn, redisSubConn

VARIABLES
  modpc, modi,            \* mod: program counter, loop index i
  looppc, loopmsg,        \* loop: program counter, reply being handled
  evtpc, evtev,           \* evt: program counter, event being handled
  publish, subscribe,     \* event_types[t].publish, .subscribe
  channelstr,             \* event_types[t].channelstr # NULL
  sub,                    \* event_types[t].sub, with what it points to
  event_types_lock,       \* is it write-locked (by mod)?
  servers, curserver,     \* length of the list, number of the token in use
  redisConn, obuf,        \* state and output buffer of each context
  event_break, signal,    \* libevent's break flag; where SIGURG found loop
  up, redis_subs,         \* redis: servers running, channels subscribed
  inbox, wire,            \* redis: replies on the way, types PUBLISHed
  evq, cached, produced,  \* Asterisk: event queue, own events in the cache
  fault                   \* the use of a dead pointer that was made

modVars   == <<modpc, modi>>
loopVars  == <<looppc, loopmsg, event_break>>
evtVars   == <<evtpc, evtev>>
typeVars  == <<publish, subscribe, channelstr, sub, event_types_lock>>
connVars  == <<servers, curserver, redisConn, obuf>>
redisVars == <<up, redis_subs, inbox, wire>>
astVars   == <<evq, cached, produced>>
vars == <<modVars, loopVars, evtVars, typeVars, connVars, redisVars, astVars,
          signal, fault>>

(* Where an event or a message comes from: its EntityID is this server's,  *)
(* another's or missing, or the message cannot be decoded.                 *)
Origins == {"self", "other", "noeid", "bad"}
Event   == [type : Types, origin : Origins]
Command == [op : {"PUBLISH", "SUBSCRIBE", "UNSUBSCRIBE"}, type : Types]
NoEvent == [type |-> AST_EVENT_PING, origin |-> "self"]

Init ==
  /\ modpc = "boot" /\ modi = 1
  /\ looppc = "none" /\ loopmsg = NoEvent
  /\ evtpc = "idle" /\ evtev = NoEvent
  /\ publish = [t \in Types |-> FALSE]
  /\ subscribe = [t \in Types |-> FALSE]
  /\ channelstr = [t \in Types |-> FALSE]
  /\ sub = [t \in Types |-> "null"]
  /\ event_types_lock = FALSE
  /\ servers = 0 /\ curserver = 0
  /\ redisConn = [c \in Conns |-> "null"]
  /\ obuf = [c \in Conns |-> <<>>]
  /\ event_break = "unset" /\ signal = "none"
  /\ up \in SUBSET Servers
  /\ redis_subs = {} /\ inbox = <<>> /\ wire = {}
  /\ evq = <<>> /\ cached = {} /\ produced = 0
  /\ fault = "none"
-----------------------------------------------------------------------------
(* Helpers.                                                                *)

(* The loop is between sending context c's buffer and freeing it.          *)
Flush == [c \in Conns |-> IF c = "pub" THEN "flush_pub" ELSE "flush_sub"]
Flushing(c) == looppc = Flush[c]

(* A command is appended to the context's buffer; the loop sends it later. *)
(* The caller dereferences the context: a dead one is a fault of thread p. *)
(* redis_write_lock does not keep the loop out: an append to a buffer that *)
(* is being flushed may be lost or corrupt it.                             *)
redisAsyncCommand(c, op, t, p) ==
  \/ /\ redisConn[c] \notin {"null", "freed"}
     /\ obuf' = [obuf EXCEPT ![c] = Append(@, [op |-> op, type |-> t])]
     /\ UNCHANGED fault
  \/ /\ redisConn[c] \in {"null", "freed"}
     /\ fault' = p
     /\ UNCHANGED obuf
  \/ /\ Flushing(c)
     /\ fault' = "buffer_race"
     /\ UNCHANGED obuf

(* mod is done with entry modi of the array: go on, to pc after the last.  *)
NextEntry(pc) ==
  \/ modi < NTypes /\ modi' = modi + 1 /\ UNCHANGED modpc
  \/ modi = NTypes /\ modi' = 1 /\ modpc' = pc

(* event_types_lock.  Read sections that touch no state another thread     *)
(* changes are single steps; the one that spans steps is looppc = "match". *)
CanRead  == ~event_types_lock
CanWrite == ~event_types_lock /\ looppc # "match"

(* Asterisk calls a subscriber with the type's subscription list           *)
(* read-locked; ast_event_unsubscribe write-locks that list.               *)
InCallback(t) == evtpc # "idle" /\ evtev.type = t

ast_event_unsubscribe(t) ==
  \/ sub[t] = "null" /\ UNCHANGED sub
  \/ sub[t] # "null" /\ ~InCallback(t) /\ sub' = [sub EXCEPT ![t] = "stale"]
-----------------------------------------------------------------------------
(* Thread mod: load_module.                                                *)

(* No usable res_redis.conf: the load is declined.                         *)
load_config_missing ==
  /\ modpc = "boot"
  /\ modpc' = "declined"
  /\ UNCHANGED <<modi, loopVars, evtVars, typeVars, connVars, redisVars,
                 astVars, signal, fault>>

(* publish_*_event options name the types of P, subscribe_*_event options  *)
(* those of S, and servers lists n servers (none, if the option is blank). *)
load_config ==
  /\ modpc = "boot"
  /\ modpc' = "connect"
  /\ \E P, S \in SUBSET Configurable :
       /\ publish' = [t \in Types |-> t \in P]
       /\ subscribe' = [t \in Types |-> t \in S]
       /\ channelstr' = [t \in Types |-> t \in P \cup S]
  /\ servers' \in 0..MaxServers
  /\ UNCHANGED <<modi, loopVars, evtVars, sub, event_types_lock, curserver,
                 redisConn, obuf, redisVars, astVars, signal, fault>>

(* A configuration without a [general] section leaves servers NULL, and    *)
(* redis_connect_nextserver appends to it.                                 *)
load_config_no_general ==
  /\ modpc = "boot"
  /\ modpc' = "connect"
  /\ fault' = "mod_servers"
  /\ UNCHANGED <<modi, loopVars, evtVars, typeVars, connVars, redisVars,
                 astVars, signal>>

(* The next token of the servers list.  strtok_r leaves its cursor at the  *)
(* end of the string, so the list is never started again.                  *)
HasNextServer_OneTooMany == curserver <= servers
HasNextServer_OneTooFew == curserver + 1 < servers
HasNextServer == curserver < servers

(* What a non-blocking connect reports at once: a server that runs accepts *)
(* later, one that does not may be refused now or later.                   *)
Dial(s) == IF s \in up THEN {"connecting"} ELSE {"connecting", "error"}

(* A retry that dials the same server instead of taking the next token.    *)
redis_connect_nextserver_SameServer ==
  /\ modpc = "connect" /\ HasNextServer
  /\ \E p, s \in Dial(curserver + 1) :
       /\ redisConn' = [c \in Conns |-> IF c = "pub" THEN p ELSE s]
       /\ modpc' = IF "error" \in {p, s} THEN "connect" ELSE "spawn"
  /\ UNCHANGED <<modi, loopVars, evtVars, typeVars, servers, curserver, obuf,
                 redisVars, astVars, signal, fault>>

(* One iteration of the loop: dial both connections, go on to the next     *)
(* server if one of them has an error.                                     *)
redis_connect_nextserver ==
  /\ modpc = "connect" /\ HasNextServer
  /\ curserver' = curserver + 1
  /\ \E p, s \in Dial(curserver') :
       /\ redisConn' = [c \in Conns |-> IF c = "pub" THEN p ELSE s]
       /\ modpc' = IF "error" \in {p, s} THEN "connect" ELSE "spawn"
  /\ UNCHANGED <<modi, loopVars, evtVars, typeVars, servers, obuf, redisVars,
                 astVars, signal, fault>>

(* The list is exhausted: the function returns -1 all the same, and the    *)
(* contexts are whatever the last server left, NULL if there was none.     *)
redis_connect_exhausted ==
  /\ modpc = "connect" /\ ~HasNextServer
  /\ modpc' = "spawn"
  /\ UNCHANGED <<modi, loopVars, evtVars, typeVars, connVars, redisVars,
                 astVars, signal, fault>>

(* The dispatch thread is created, or that fails and load_module cleans up.*)
spawn_dispatch_thread ==
  /\ modpc = "spawn"
  /\ \/ looppc' = "attach" /\ modpc' = "dump"
     \/ UNCHANGED looppc /\ modpc' = "c_lock"
  /\ UNCHANGED <<modi, loopmsg, event_break, evtVars, typeVars, connVars,
                 redisVars, astVars, signal, fault>>

(* One entry: if it is published, this server's cached events of the type  *)
(* are passed to ast_event_cb, which PUBLISHes them.                       *)
redis_dump_ast_event_cache ==
  /\ modpc = "dump" /\ CanRead
  /\ IF publish[modi] /\ modi \in cached
       THEN redisAsyncCommand("pub", "PUBLISH", modi, "mod_context")
       ELSE UNCHANGED <<obuf, fault>>
  /\ NextEntry("lock")
  /\ UNCHANGED <<loopVars, evtVars, typeVars, servers, curserver, redisConn,
                 redisVars, astVars, signal>>

(* ast_rwlock_wrlock(&event_types_lock), at the top of both loops below.   *)
wrlock_event_types(from, to) ==
  /\ modpc = from /\ CanWrite
  /\ modpc' = to
  /\ event_types_lock' = TRUE
  /\ UNCHANGED <<modi, loopVars, evtVars, publish, subscribe, channelstr, sub,
                 connVars, redisVars, astVars, signal, fault>>

(* subscribe tested where publish is: the flag that the name calls for.    *)
redis_subscribe_to_channels_BySubscribe ==
  /\ modpc = "subscribe"
  /\ IF subscribe[modi]
       THEN /\ sub' = [sub EXCEPT ![modi] = IF @ = "null" THEN "live" ELSE @]
            /\ redisAsyncCommand("sub", "SUBSCRIBE", modi, "mod_context")
       ELSE UNCHANGED <<sub, obuf, fault>>
  /\ event_types_lock' = (modi < NTypes)
  /\ NextEntry("loaded")
  /\ UNCHANGED <<loopVars, evtVars, publish, subscribe, channelstr, servers,
                 curserver, redisConn, redisVars, astVars, signal>>

(* A write lock that is not released after the last entry.                 *)
redis_subscribe_to_channels_KeepsLock ==
  /\ modpc = "subscribe"
  /\ IF publish[modi]
       THEN /\ sub' = [sub EXCEPT ![modi] = IF @ = "null" THEN "live" ELSE @]
            /\ redisAsyncCommand("sub", "SUBSCRIBE", modi, "mod_context")
       ELSE UNCHANGED <<sub, obuf, fault>>
  /\ NextEntry("loaded")
  /\ UNCHANGED <<loopVars, evtVars, publish, subscribe, channelstr, servers,
                 event_types_lock, curserver, redisConn, redisVars, astVars,
                 signal>>

(* One entry: if it is published, subscribe with Asterisk and with redis.  *)
(* The lock is released after the last one.                                *)
redis_subscribe_to_channels ==
  /\ modpc = "subscribe"
  /\ IF publish[modi]
       THEN /\ sub' = [sub EXCEPT ![modi] = IF @ = "null" THEN "live" ELSE @]
            /\ redisAsyncCommand("sub", "SUBSCRIBE", modi, "mod_context")
       ELSE UNCHANGED <<sub, obuf, fault>>
  /\ event_types_lock' = (modi < NTypes)
  /\ NextEntry("loaded")
  /\ UNCHANGED <<loopVars, evtVars, publish, subscribe, channelstr, servers,
                 curserver, redisConn, redisVars, astVars, signal>>
-----------------------------------------------------------------------------
(* Thread mod: unload_module, and cleanup_module, which a failed load also *)
(* runs.                                                                   *)

unload_module ==
  /\ modpc = "loaded"
  /\ modpc' = "c_lock"
  /\ UNCHANGED <<modi, loopVars, evtVars, typeVars, connVars, redisVars,
                 astVars, signal, fault>>

(* Only the redis channel is left, not Asterisk's events.                  *)
redis_unsubscribe_from_channels_RedisOnly ==
  /\ modpc = "c_unsub"
  /\ IF publish[modi]
       THEN redisAsyncCommand("sub", "UNSUBSCRIBE", modi, "mod_context")
       ELSE UNCHANGED <<obuf, fault>>
  /\ event_types_lock' = (modi < NTypes)
  /\ NextEntry("c_free")
  /\ UNCHANGED <<loopVars, evtVars, publish, subscribe, channelstr, sub,
                 servers, curserver, redisConn, redisVars, astVars, signal>>

(* The entry is reset and freed in the same loop as it is unsubscribed.    *)
redis_unsubscribe_from_channels_Frees ==
  /\ modpc = "c_unsub"
  /\ IF publish[modi]
       THEN /\ ast_event_unsubscribe(modi)
            /\ redisAsyncCommand("sub", "UNSUBSCRIBE", modi, "mod_context")
            /\ publish' = [publish EXCEPT ![modi] = FALSE]
            /\ channelstr' = [channelstr EXCEPT ![modi] = FALSE]
       ELSE UNCHANGED <<sub, obuf, fault, publish, channelstr>>
  /\ event_types_lock' = (modi < NTypes)
  /\ NextEntry("c_free")
  /\ UNCHANGED <<loopVars, evtVars, subscribe, servers, curserver, redisConn,
                 redisVars, astVars, signal>>

(* One entry: leave Asterisk's events, which waits for a running callback, *)
(* then the redis channel.  The pointer in sub is kept.                    *)
redis_unsubscribe_from_channels ==
  /\ modpc = "c_unsub"
  /\ IF publish[modi]
       THEN /\ ast_event_unsubscribe(modi)
            /\ redisAsyncCommand("sub", "UNSUBSCRIBE", modi, "mod_context")
       ELSE UNCHANGED <<sub, obuf, fault>>
  /\ event_types_lock' = (modi < NTypes)
  /\ NextEntry("c_free")
  /\ UNCHANGED <<loopVars, evtVars, publish, subscribe, channelstr, servers,
                 curserver, redisConn, redisVars, astVars, signal>>

(* One entry: reset and free, without the lock.                            *)
cleanup_event_type ==
  /\ modpc = "c_free"
  /\ publish' = [publish EXCEPT ![modi] = FALSE]
  /\ subscribe' = [subscribe EXCEPT ![modi] = FALSE]
  /\ channelstr' = [channelstr EXCEPT ![modi] = FALSE]
  /\ NextEntry("c_stop")
  /\ UNCHANGED <<loopVars, evtVars, sub, event_types_lock, connVars,
                 redisVars, astVars, signal, fault>>

(* stoprunning is set, but the loop is not told to break.                  *)
stop_loop_NoBreak ==
  /\ modpc = "c_stop"
  /\ modpc' = IF looppc = "none" THEN "unloaded" ELSE "c_kill"
  /\ UNCHANGED <<modi, loopVars, evtVars, typeVars, connVars, redisVars,
                 astVars, signal, fault>>

(* event_base_loopbreak sets a flag; the loop looks at it when it is awake.*)
(* A pthread_create that failed may have set dispatch_thread_id or not; if *)
(* it did, the thread signalled next does not exist.                       *)
stop_loop ==
  /\ modpc = "c_stop"
  /\ event_break' = "set"
  /\ \/ looppc # "none" /\ modpc' = "c_kill" /\ UNCHANGED fault
     \/ looppc = "none" /\ modpc' = "unloaded" /\ UNCHANGED fault
     \/ looppc = "none" /\ modpc' = "c_kill" /\ fault' = "mod_thread"
  /\ UNCHANGED <<modi, looppc, loopmsg, evtVars, typeVars, connVars,
                 redisVars, astVars, signal>>

(* pthread_kill(SIGURG) ends a poll in progress and does nothing else.     *)
kill_loop ==
  /\ modpc = "c_kill"
  /\ modpc' = "c_join"
  /\ \/ looppc = "poll" /\ looppc' = "check_break" /\ signal' = "woke"
     \/ looppc # "poll" /\ UNCHANGED looppc /\ signal' = "missed"
  /\ UNCHANGED <<modi, loopmsg, event_break, evtVars, typeVars, connVars,
                 redisVars, astVars, fault>>

(* A thread that is signalled and not waited for.                          *)
join_loop_Detached ==
  /\ modpc = "c_join"
  /\ modpc' = "unloaded"
  /\ UNCHANGED <<modi, loopVars, evtVars, typeVars, connVars, redisVars,
                 astVars, signal, fault>>

(* pthread_join; then the servers list is freed and the module is gone.    *)
join_loop ==
  /\ modpc = "c_join" /\ looppc = "exited"
  /\ modpc' = "unloaded"
  /\ UNCHANGED <<modi, loopVars, evtVars, typeVars, connVars, redisVars,
                 astVars, signal, fault>>
-----------------------------------------------------------------------------
(* Thread loop: dispatch_thread_handler and libevent's loop.               *)

(* Attach both contexts to the event base and set their callbacks.         *)
dispatch_thread_handler ==
  /\ looppc = "attach"
  /\ \/ /\ \E c \in Conns : redisConn[c] = "null"
        /\ fault' = "loop_context"
        /\ UNCHANGED looppc
     \/ /\ \A c \in Conns : redisConn[c] # "null"
        /\ looppc' = "dispatch"
        /\ UNCHANGED fault
  /\ UNCHANGED <<modVars, loopmsg, event_break, evtVars, typeVars, connVars,
                 redisVars, astVars, signal>>

(* event_base_dispatch clears the break flag when it starts ("cleared"     *)
(* records that it had been set).                                          *)
event_base_dispatch ==
  /\ looppc = "dispatch"
  /\ looppc' = "check_break"
  /\ event_break' = IF event_break = "set" THEN "cleared" ELSE event_break
  /\ UNCHANGED <<modVars, loopmsg, evtVars, typeVars, connVars, redisVars,
                 astVars, signal, fault>>

(* An iteration starts: leave if told to, or if no context is left to      *)
(* watch ...                                                               *)
check_break ==
  /\ looppc = "check_break"
  /\ looppc' = IF event_break = "set" \/ \A c \in Conns : redisConn[c] = "freed"
                 THEN "exited" ELSE "wait"
  /\ UNCHANGED <<modVars, loopmsg, event_break, evtVars, typeVars, connVars,
                 redisVars, astVars, signal, fault>>

(* ... otherwise poll, without a timeout.                                  *)
epoll_wait ==
  /\ looppc = "wait"
  /\ looppc' = "poll"
  /\ UNCHANGED <<modVars, loopmsg, event_break, evtVars, typeVars, connVars,
                 redisVars, astVars, signal, fault>>

(* The connection attempt ends.  The callback only logs; hiredis frees a   *)
(* context that could not connect.                                         *)
redis_connect_cb(c) ==
  /\ looppc = "poll" /\ redisConn[c] = "connecting"
  /\ looppc' = "check_break"
  /\ redisConn' = [redisConn EXCEPT ![c] =
                     IF curserver \in up THEN "connected" ELSE "freed"]
  /\ obuf' = [obuf EXCEPT ![c] = IF curserver \in up THEN @ ELSE <<>>]
  /\ UNCHANGED <<modVars, loopmsg, event_break, evtVars, typeVars, servers,
                 curserver, redisVars, astVars, signal, fault>>

(* The server is gone: status is REDIS_ERR, for which the callback returns *)
(* before its reconnection code, and hiredis frees the context.            *)
redis_disconnect_cb(c) ==
  /\ looppc = "poll" /\ redisConn[c] = "connected" /\ curserver \notin up
  /\ looppc' = "check_break"
  /\ redisConn' = [redisConn EXCEPT ![c] = "freed"]
  /\ obuf' = [obuf EXCEPT ![c] = <<>>]
  /\ IF c = "sub" THEN redis_subs' = {} /\ inbox' = <<>>
                  ELSE UNCHANGED <<redis_subs, inbox>>
  /\ UNCHANGED <<modVars, loopmsg, event_break, evtVars, typeVars, servers,
                 curserver, up, wire, astVars, signal, fault>>

(* The loop sends a buffered command and redis executes it: a published    *)
(* message also comes back to its sender, if that has subscribed ...       *)
redisBufferWrite(c) ==
  /\ looppc = "poll" /\ redisConn[c] = "connected" /\ curserver \in up
  /\ obuf[c] # <<>>
  /\ looppc' = Flush[c]
  /\ LET op == Head(obuf[c]).op
         t  == Head(obuf[c]).type
     IN  /\ wire' = wire \cup {u \in {t} : op = "PUBLISH"}
         /\ redis_subs' = (redis_subs \cup {u \in {t} : op = "SUBSCRIBE"})
                            \ {u \in {t} : op = "UNSUBSCRIBE"}
         /\ inbox' = IF op = "PUBLISH" /\ t \in redis_subs
                       THEN Append(inbox, [type |-> t, origin |-> "self"])
                       ELSE inbox
  /\ UNCHANGED <<modVars, loopmsg, event_break, evtVars, typeVars, connVars,
                 up, astVars, signal, fault>>

(* ... and then takes it from the buffer.                                  *)
redisBufferWritten(c) ==
  /\ Flushing(c)
  /\ looppc' = "check_break"
  /\ obuf' = [obuf EXCEPT ![c] = Tail(@)]
  /\ UNCHANGED <<modVars, loopmsg, event_break, evtVars, typeVars, servers,
                 curserver, redisConn, redisVars, astVars, signal, fault>>

(* A reply arrives on the subscribed connection.                           *)
redis_reply ==
  /\ looppc = "poll" /\ redisConn["sub"] = "connected" /\ inbox # <<>>
  /\ looppc' = "lookup"
  /\ loopmsg' = Head(inbox)
  /\ inbox' = Tail(inbox)
  /\ UNCHANGED <<modVars, event_break, evtVars, typeVars, connVars, up,
                 redis_subs, wire, astVars, signal, fault>>

(* redis_subscription_cb: look for the channel's entry under a read lock,  *)
(* skipping an entry without a channel ...                                 *)
redis_subscription_cb_lookup ==
  /\ looppc = "lookup" /\ CanRead
  /\ looppc' = IF channelstr[loopmsg.type] THEN "match" ELSE "check_break"
  /\ UNCHANGED <<modVars, loopmsg, event_break, evtVars, typeVars, connVars,
                 redisVars, astVars, signal, fault>>

(* ... and, with the read lock still held, compare the names; unlock.      *)
redis_subscription_cb_match ==
  /\ looppc = "match"
  /\ looppc' = "publish"
  /\ fault' = IF channelstr[loopmsg.type] THEN fault ELSE "loop_channel"
  /\ UNCHANGED <<modVars, loopmsg, event_break, evtVars, typeVars, connVars,
                 redisVars, astVars, signal>>

(* A message is fed to Asterisk only if its type is published.             *)
redis_subscription_cb_publish ==
  /\ looppc = "publish"
  /\ looppc' = IF publish[loopmsg.type] THEN "decode" ELSE "check_break"
  /\ UNCHANGED <<modVars, loopmsg, event_break, evtVars, typeVars, connVars,
                 redisVars, astVars, signal, fault>>

(* What json2message makes of a message: nothing if it carries this        *)
(* server's EntityID or cannot be decoded; if it carries none, an event    *)
(* with this server's.                                                     *)
Decoded(m) ==
  CASE m.origin \in {"self", "bad"} -> <<>>
    [] m.origin = "other"           -> <<m>>
    [] m.origin = "noeid"           -> <<[m EXCEPT !.origin = "self"]>>

(* Compare the names again, without the lock, decode the message and queue *)
(* the event, which is cached as well if the message says so.              *)
redis_subscription_cb_decode ==
  /\ looppc = "decode"
  /\ looppc' = "check_break"
  /\ \/ /\ channelstr[loopmsg.type]
        /\ evq' = evq \o Decoded(loopmsg)
        /\ cached' \in {cached,
                        cached \cup {t \in {loopmsg.type} :
                                       loopmsg.origin = "noeid"}}
        /\ UNCHANGED fault
     \/ /\ ~channelstr[loopmsg.type]
        /\ fault' = "loop_channel"
        /\ UNCHANGED <<evq, cached>>
  /\ UNCHANGED <<modVars, loopmsg, event_break, evtVars, typeVars, connVars,
                 redisVars, produced, signal>>
-----------------------------------------------------------------------------
(* Thread evt: Asterisk's dispatcher, and ast_event_cb.                    *)

(* Take the next event; call ast_event_cb if the module subscribed to it.  *)
dispatch_event ==
  /\ evtpc = "idle" /\ evq # <<>>
  /\ evq' = Tail(evq)
  /\ IF sub[Head(evq).type] = "live"
       THEN evtpc' = "origin" /\ evtev' = Head(evq)
       ELSE UNCHANGED evtVars
  /\ UNCHANGED <<modVars, loopVars, typeVars, connVars, redisVars, cached,
                 produced, signal, fault>>

(* An event that carries another server's EntityID is not sent out again.  *)
ast_event_cb_origin ==
  /\ evtpc = "origin"
  /\ evtpc' = IF evtev.origin = "other" THEN "idle" ELSE "etype"
  /\ UNCHANGED <<modVars, loopVars, evtev, typeVars, connVars, redisVars,
                 astVars, signal, fault>>

(* Find the entry, under a read lock ...                                   *)
ast_event_cb_etype ==
  /\ evtpc = "etype" /\ CanRead
  /\ evtpc' = "publish"
  /\ UNCHANGED <<modVars, loopVars, evtev, typeVars, connVars, redisVars,
                 astVars, signal, fault>>

(* ... look at it without the lock ...                                     *)
ast_event_cb_publish ==
  /\ evtpc = "publish"
  /\ evtpc' = IF publish[evtev.type] THEN "send" ELSE "idle"
  /\ UNCHANGED <<modVars, loopVars, evtev, typeVars, connVars, redisVars,
                 astVars, signal, fault>>

(* ... encode the event and PUBLISH it on the entry's channel.             *)
ast_event_cb_send ==
  /\ evtpc = "send"
  /\ evtpc' = "idle"
  /\ \/ /\ channelstr[evtev.type]
        /\ redisAsyncCommand("pub", "PUBLISH", evtev.type, "evt_context")
     \/ /\ ~channelstr[evtev.type]
        /\ fault' = "evt_channel"
        /\ UNCHANGED obuf
  /\ UNCHANGED <<modVars, loopVars, evtev, typeVars, servers, curserver,
                 redisConn, redisVars, astVars, signal>>
-----------------------------------------------------------------------------
(* The environment.                                                        *)

(* A device or mailbox of this server changes: the event is cached, queued.*)
ast_event_queue_and_cache(t) ==
  /\ produced < MaxEvents
  /\ produced' = produced + 1
  /\ evq' = Append(evq, [type |-> t, origin |-> "self"])
  /\ cached' = cached \cup {t}
  /\ UNCHANGED <<modVars, loopVars, evtVars, typeVars, connVars, redisVars,
                 signal, fault>>

(* The CLI command, registered once the configuration is loaded.  Asterisk *)
(* keeps no cache of pings.                                                *)
redis_ping ==
  /\ modpc \in {"connect", "spawn", "dump", "lock", "subscribe", "loaded"}
  /\ produced < MaxEvents
  /\ produced' = produced + 1
  /\ evq' = Append(evq, [type |-> AST_EVENT_PING, origin |-> "self"])
  /\ UNCHANGED <<modVars, loopVars, evtVars, typeVars, connVars, redisVars,
                 cached, signal, fault>>

(* Someone else PUBLISHes on a subscribed channel.                         *)
remote_publish(t, o) ==
  /\ produced < MaxEvents
  /\ produced' = produced + 1
  /\ t \in redis_subs /\ curserver \in up
  /\ inbox' = Append(inbox, [type |-> t, origin |-> o])
  /\ UNCHANGED <<modVars, loopVars, evtVars, typeVars, connVars, up,
                 redis_subs, wire, evq, cached, signal, fault>>

server_dies(s) ==
  /\ s \in up
  /\ up' = up \ {s}
  /\ UNCHANGED <<modVars, loopVars, evtVars, typeVars, connVars, redis_subs,
                 inbox, wire, astVars, signal, fault>>
-----------------------------------------------------------------------------
Load == \/ load_config_missing \/ load_config \/ load_config_no_general
        \/ redis_connect_nextserver \/ redis_connect_exhausted
        \/ spawn_dispatch_thread \/ redis_dump_ast_event_cache
        \/ wrlock_event_types("lock", "subscribe")
        \/ redis_subscribe_to_channels

Cleanup == \/ wrlock_event_types("c_lock", "c_unsub")
           \/ redis_unsubscribe_from_channels \/ cleanup_event_type
           \/ stop_loop \/ kill_loop \/ join_loop

Loop == \/ dispatch_thread_handler \/ event_base_dispatch \/ check_break
        \/ epoll_wait
        \/ \E c \in Conns : \/ redis_connect_cb(c) \/ redis_disconnect_cb(c)
                            \/ redisBufferWrite(c) \/ redisBufferWritten(c)
        \/ redis_reply \/ redis_subscription_cb_lookup
        \/ redis_subscription_cb_match \/ redis_subscription_cb_publish
        \/ redis_subscription_cb_decode

Evt == \/ dispatch_event \/ ast_event_cb_origin \/ ast_event_cb_etype
       \/ ast_event_cb_publish \/ ast_event_cb_send

Environment == \/ \E t \in Configurable : ast_event_queue_and_cache(t)
               \/ redis_ping
               \/ \E t \in Types, o \in Origins \ {"self"} : remote_publish(t, o)
               \/ \E s \in Servers : server_dies(s)

(* Undefined behaviour ends what the model says.                           *)
Running == fault = "none"
Next == Running /\ (Load \/ Cleanup \/ unload_module \/ Loop \/ Evt \/ Environment)

Spec == Init /\ [][Next]_vars

(* The threads are scheduled fairly; nobody has to unload the module, and  *)
(* the environment owes nothing.                                           *)
FairSpec == /\ Spec
            /\ WF_vars(Running /\ (Load \/ Cleanup))
            /\ WF_vars(Running /\ Loop)
            /\ WF_vars(Running /\ Evt)
-----------------------------------------------------------------------------
(* Safety.                                                                 *)

Loading  == {"boot", "connect", "spawn", "dump", "lock", "subscribe"}
Cleaning == {"c_lock", "c_unsub", "c_free", "c_stop", "c_kill", "c_join"}
Faults   == {"none", "mod_servers", "mod_context", "mod_thread",
             "loop_context", "loop_channel", "evt_context", "evt_channel",
             "buffer_race"}

(* Every variable has its type.  In particular the walk of the servers     *)
(* list (redis_connect_nextserver) never takes a token that is not there.  *)
TypeOK ==
  /\ modpc \in Loading \cup Cleaning \cup {"declined", "loaded", "unloaded"}
  /\ modi \in Types
  /\ looppc \in {"none", "attach", "dispatch", "check_break", "wait", "poll",
                 "flush_pub", "flush_sub", "lookup", "match", "publish",
                 "decode", "exited"}
  /\ loopmsg \in Event
  /\ evtpc \in {"idle", "origin", "etype", "publish", "send"}
  /\ evtev \in Event
  /\ publish \in [Types -> BOOLEAN]
  /\ subscribe \in [Types -> BOOLEAN]
  /\ channelstr \in [Types -> BOOLEAN]
  /\ sub \in [Types -> {"null", "live", "stale"}]
  /\ event_types_lock \in BOOLEAN
  /\ servers \in 0..MaxServers /\ curserver \in 0..servers
  /\ redisConn \in [Conns -> {"null", "error", "connecting", "connected",
                              "freed"}]
  /\ obuf \in [Conns -> Seq(Command)]
  /\ event_break \in {"unset", "set", "cleared"}
  /\ signal \in {"none", "woke", "missed"}
  /\ up \subseteq Servers /\ redis_subs \subseteq Types
  /\ inbox \in Seq(Event) /\ wire \subseteq Types
  /\ evq \in Seq(Event) /\ cached \subseteq Types /\ produced \in 0..MaxEvents
  /\ fault \in Faults

(* When unload_module has returned, Asterisk unmaps the code: no thread is *)
(* in it any more, none will call it, and the lock is free.                *)
QuietAfterUnload ==
  modpc = "unloaded" =>
    /\ evtpc = "idle"
    /\ looppc \in {"none", "exited"}
    /\ \A t \in Types : sub[t] # "live"
    /\ ~event_types_lock

EntriesInUseKept ==
  \A t \in Types : InCallback(t) => /\ publish'[t] = publish[t]
                                   /\ channelstr'[t] = channelstr[t]

(* ast_event_cb looks at its event_types entry without event_types_lock,   *)
(* and cleanup_module resets entries without it; still, an entry does not  *)
(* change under a callback that is using it, from its first step to its    *)
(* last: redis_unsubscribe_from_channels has waited for it.                *)
EntryStableInCallback == [][EntriesInUseKept]_vars

(* So ast_event_cb never formats a channel name that has been freed.       *)
EvtChannelSafe == fault # "evt_channel"

(* redis_subscription_cb goes on comparing the channel name of its entry   *)
(* after it has released event_types_lock.  It can find the name freed,    *)
(* but only once unload has left every channel and is past the unsubscribe *)
(* loop: never while the module is loaded, nor before that loop is over.   *)
LoopChannelOnlyInCleanup ==
  fault = "loop_channel" => modpc \in {"c_free", "c_stop", "c_kill", "c_join"}

(* Of the two callbacks that go on using the name of a channel after they  *)
(* have released event_types_lock, ast_event_cb never finds it freed, and  *)
(* redis_subscription_cb only late in an unload.                           *)
ChannelSafe == EvtChannelSafe /\ LoopChannelOnlyInCleanup

(* A dead redis context is only ever used (by load_module, unload_module,  *)
(* the dispatch thread or ast_event_cb) if no server was listed or one of  *)
(* those dialled so far is down: with healthy servers no interleaving of   *)
(* load, callbacks and unload reaches one.                                 *)
ContextSafeIfHealthy ==
  fault \in {"mod_context", "loop_context", "evt_context"} =>
    servers = 0 \/ \E s \in 1..curserver : s \notin up
-----------------------------------------------------------------------------
(* Liveness, under FairSpec.                                               *)

Published == {t \in Types : publish[t]}

(* load_module returns, whichever servers die meanwhile: the walk of the   *)
(* list ends, and no thread keeps event_types_lock from it.                *)
LoadEnds == modpc \in Loading ~> modpc \notin Loading \/ ~Running

(* A loaded module ends up subscribed to the channels of the types it      *)
(* publishes, although SUBSCRIBE is queued before the connection is up and *)
(* while the dispatch thread is still starting.                            *)
LoadedSubscribes ==
  modpc = "loaded" ~> \/ redis_subs = Published
                      \/ curserver \notin up
                      \/ modpc # "loaded" \/ ~Running

(* An event of this server that reaches ast_event_cb reaches redis, unless *)
(* the server is down or the module is being unloaded.                     *)
OwnEventPublished ==
  \A t \in Configurable :
    InCallback(t) /\ evtev.origin = "self"
      ~> \/ t \in wire
         \/ curserver \notin up
         \/ modpc \in Cleaning \/ ~Running

(* redis_unsubscribe_from_channels holds event_types_lock and waits for a  *)
(* callback of type modi, which waits for event_types_lock.                *)
LockCycle == /\ modpc = "c_unsub" /\ publish[modi] /\ sub[modi] = "live"
             /\ evtpc = "etype" /\ evtev.type = modi

(* The dispatch thread polls after SIGURG came too early to interrupt it,  *)
(* or after the break flag was set too early to be kept.                   *)
LostWakeup == /\ modpc = "c_join" /\ looppc = "poll"
              /\ signal = "missed" \/ event_break = "cleared"

(* unload_module returns, and the two ways it may not are known: the lock  *)
(* cycle, and a dispatch thread left in poll by a wakeup that was lost.    *)
UnloadEnds ==
  [](modpc = "c_lock" => \/ <>(modpc = "unloaded" \/ ~Running \/ LockCycle)
                         \/ <>[]LostWakeup)
-----------------------------------------------------------------------------
(* What the documentation says, and the code does not do.                  *)

(* conf/res_redis.conf: servers "Will be tried in order, untill connection *)
(* is established".                                                        *)
TriedUntilEstablished ==
  modpc = "loaded" ~> \/ \A c \in Conns : redisConn[c] = "connected"
                      \/ up \cap (1..servers) = {}
                      \/ modpc # "loaded" \/ ~Running

(* conf/res_redis.conf: with subscribe_mwi_event, "Subscribe to MWI events *)
(* from the cluster."                                                      *)
SubscribedAsConfigured ==
  \A t \in Configurable :
    modpc = "loaded" /\ subscribe[t]
      ~> \/ t \in redis_subs
         \/ curserver \notin up
         \/ modpc # "loaded" \/ ~Running
=============================================================================
