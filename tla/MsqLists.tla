------------------------------ MODULE MsqLists ------------------------------
(***************************************************************************)
(* lib/msq_redis.c: the functions that take servers and subscriptions out  *)
(* again, with those that put them in.  res_redis_v1 (see ResRedisV1) only *)
(* removes all servers; _msq_remove_server, _msq_remove_subscription and   *)
(* _msq_drop_all_subscriptions have no caller in the repository, and the   *)
(* model is what a client may do with them.  The client is one thread.     *)
(*                                                                         *)
(* The list of servers is the sequence of nodes its pointers lead through, *)
(* freed ones included.  A use of freed memory sets fault and ends the     *)
(* behaviour.                                                              *)
(***************************************************************************)
EXTENDS Naturals, Sequences, FiniteSetsExt, SequencesExt

CONSTANTS MaxServers,  \* servers a client knows
          NEvents      \* named entries of msq_event_map; ping is the last

ASSUME ListsAssumption == MaxServers \in Nat /\ NEvents \in Nat \ {0}

Servers == 1..MaxServers
Events  == 1..NEvents
EVENT_PING == NEvents

VARIABLES
  servers_root,  \* the nodes: the server, and has the node been freed?
  wanted,        \* the servers the client has added and not removed
  inner,         \* has a server that was not the first been removed?
  channel,       \* msq_event_map[e].channel, with what it points to
  callback,      \* is msq_event_map[e].callback set?
  dropped,       \* has _msq_drop_all_subscriptions been given a subscribed
                 \* type?
  fault

serverVars == <<servers_root, wanted, inner>>
eventVars  == <<channel, callback, dropped>>
vars == <<serverVars, eventVars, fault>>

(* The channel of ping is a constant of the program, not from the heap.    *)
Init ==
  /\ servers_root = <<>> /\ wanted = <<>> /\ inner = FALSE
  /\ channel = [e \in Events |-> IF e = EVENT_PING THEN "constant" ELSE "null"]
  /\ callback = [e \in Events |-> e = EVENT_PING]
  /\ dropped = FALSE /\ fault = "none"
-----------------------------------------------------------------------------
(* Servers.                                                                *)

Node(s) == [server |-> s, freed |-> FALSE]

(* A comparison that never finds a server equal.                           *)
StopsAt_Never(s, i) == servers_root[i].freed

(* The walk of the list for s ends at a node that holds it, or in memory   *)
(* that has been freed.                                                    *)
StopsAt(s, i) == servers_root[i].freed \/ servers_root[i].server = s

Stops(s) == {i \in 1..Len(servers_root) : StopsAt(s, i)}
Found(s) == Stops(s) # {} /\ ~servers_root[Min(Stops(s))].freed
Crashes(s) == Stops(s) # {} /\ servers_root[Min(Stops(s))].freed

msq_add_server(s) ==
  /\ ~Crashes(s)
  /\ \/ Found(s) /\ UNCHANGED <<servers_root, wanted>>
     \/ /\ ~Found(s)
        /\ servers_root' = Append(servers_root, Node(s))
        /\ wanted' = Append(wanted, s)
  /\ UNCHANGED <<inner, eventVars, fault>>

(* The root is left pointing to the node.                                  *)
Unlinked_RootKept(i) == [servers_root EXCEPT ![i].freed = TRUE]

(* The first node is taken out of the list.  For a later one only a local  *)
(* variable is changed: the node is freed where it is.                     *)
Unlinked(i) == IF i = 1 THEN Tail(servers_root)
               ELSE [servers_root EXCEPT ![i].freed = TRUE]

_msq_remove_server(s) ==
  /\ ~Crashes(s)
  /\ IF Found(s)
       THEN /\ servers_root' = Unlinked(Min(Stops(s)))
            /\ inner' = (inner \/ Min(Stops(s)) # 1)
            /\ wanted' = RemoveFirst(wanted, s)
       ELSE UNCHANGED serverVars
  /\ UNCHANGED <<eventVars, fault>>

msq_remove_all_servers ==
  /\ \A i \in 1..Len(servers_root) : ~servers_root[i].freed
  /\ servers_root' = <<>> /\ wanted' = <<>>
  /\ UNCHANGED <<inner, eventVars, fault>>

(* One of these functions comes to a node that has been freed.             *)
walk_freed ==
  /\ \E i \in 1..Len(servers_root) : servers_root[i].freed
  /\ fault' = "freed_node"
  /\ UNCHANGED <<serverVars, eventVars>>
-----------------------------------------------------------------------------
(* Subscriptions.                                                          *)

(* free(channel), and of the pattern, which goes along with it.            *)
FreeFault(c) == CASE c = "heap"     -> "none"
                  [] c = "constant" -> "free_constant"
                  [] c = "freed"    -> "double_free"

(* An entry that holds a channel or a callback is not given another.       *)
msq_add_subscription(e) ==
  /\ IF channel[e] = "null" /\ ~callback[e]
       THEN /\ channel' = [channel EXCEPT ![e] = "heap"]
            /\ callback' = [callback EXCEPT ![e] = TRUE]
       ELSE UNCHANGED <<channel, callback>>
  /\ UNCHANGED <<serverVars, dropped, fault>>

HasSubscription_ChannelOnly(e) == channel[e] # "null"
HasSubscription(e) == channel[e] # "null" /\ callback[e]

(* The channel is freed, and the pointer to it kept.                       *)
_msq_remove_subscription(e) ==
  /\ IF HasSubscription(e)
       THEN /\ fault' = FreeFault(channel[e])
            /\ channel' = [channel EXCEPT ![e] = "freed"]
            /\ callback' = [callback EXCEPT ![e] = FALSE]
       ELSE UNCHANGED <<channel, callback, fault>>
  /\ UNCHANGED <<serverVars, dropped>>

(* The loop over the map frees the entry given as parameter every time     *)
(* round; the map has more than one entry.                                 *)
_msq_drop_all_subscriptions(e) ==
  /\ dropped' = (channel[e] # "null")
  /\ callback' = [callback EXCEPT ![e] = FALSE]
  /\ \/ channel[e] = "null" /\ UNCHANGED <<channel, fault>>
     \/ /\ channel[e] # "null"
        /\ channel' = [channel EXCEPT ![e] = "freed"]
        /\ fault' = FreeFault(IF channel[e] = "heap" THEN "freed"
                              ELSE channel[e])
  /\ UNCHANGED serverVars
-----------------------------------------------------------------------------
Running == fault = "none"

Next == /\ Running
        /\ \/ \E s \in Servers : msq_add_server(s) \/ _msq_remove_server(s)
           \/ msq_remove_all_servers \/ walk_freed
           \/ \E e \in Events : \/ msq_add_subscription(e)
                                \/ _msq_remove_subscription(e)
                                \/ _msq_drop_all_subscriptions(e)

Spec == Init /\ [][Next]_vars
-----------------------------------------------------------------------------
(* Every variable has its type; no server is listed twice.                 *)
TypeOK ==
  /\ servers_root \in Seq([server : Servers, freed : BOOLEAN])
  /\ Len(servers_root) <= MaxServers
  /\ wanted \in Seq(Servers) /\ inner \in BOOLEAN
  /\ channel \in [Events -> {"null", "heap", "constant", "freed"}]
  /\ callback \in [Events -> BOOLEAN] /\ dropped \in BOOLEAN
  /\ fault \in {"none", "freed_node", "double_free", "free_constant"}

(* As long as _msq_remove_server has only been given the first server, the *)
(* list holds exactly the servers added and not removed, in the order of   *)
(* their addition, and no walk of it meets freed memory.  A removal from   *)
(* the middle or the end breaks this.                                      *)
ListExact ==
  ~inner => /\ servers_root = [i \in 1..Len(wanted) |-> Node(wanted[i])]
            /\ fault # "freed_node"

(* _msq_remove_subscription keeps the pointer to the channel it has freed, *)
(* and msq_add_subscription then refuses the type for good; still, no      *)
(* sequence of additions and removals frees a channel twice: that takes a  *)
(* _msq_drop_all_subscriptions of the type.                                *)
FreedOnce == fault = "double_free" => dropped
=============================================================================
