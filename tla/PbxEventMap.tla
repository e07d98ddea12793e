---------------------------- MODULE PbxEventMap ----------------------------
(***************************************************************************)
(* The event map of lib/ast_event_message_serializer.c: pbx_subscribe and  *)
(* pbx_unsubscribe, called by any thread.  No module of the repository     *)
(* calls them yet; the model is what a client may rely on.                 *)
(*                                                                         *)
(* ast_event_subscribe_new only allocates a subscription.  No              *)
(* ast_event_sub_activate follows, so that Asterisk never has it on a list *)
(* and never calls the map's ast_event_cb, which is therefore not here.    *)
(*                                                                         *)
(* Both functions only read-lock event_map_lock, also where they write, so *)
(* a step is one access to an entry of the map.  An unsubscription of what *)
(* has been freed, or of NULL, sets fault and ends the behaviour.          *)
(***************************************************************************)
EXTENDS Naturals

CONSTANTS Callers,     \* threads that subscribe and unsubscribe
          EventTypes,  \* named entries of event_map
          Subs,        \* subscriptions there is memory for
          NULL         \* no subscription, no type, no thread

ASSUME NullAssumption == NULL \notin Callers \cup EventTypes \cup Subs

VARIABLES
  pc, arg, nested,    \* of a caller: where it is, its event_type, and is its
                      \* pbx_unsubscribe called from its pbx_subscribe?
  held,               \* of a caller: the subscription in a register
  sub, callback,      \* event_map[t].sub; is event_map[t].callback set?
  readers, writer,    \* event_map_lock: read locks per caller, its writer
  allocated,          \* the type each allocated subscription is for
  calling,            \* the type whose subscribers, other modules' all of
                      \* them, Asterisk's dispatcher is calling
  overlap,            \* types for which two calls ran at the same time
  fault

callVars == <<pc, arg, nested, held>>
mapVars  == <<sub, callback>>
lockVars == <<readers, writer>>
astVars  == <<allocated, calling>>
vars     == <<callVars, mapVars, lockVars, astVars, overlap, fault>>

Init ==
  /\ pc = [c \in Callers |-> "idle"] /\ arg = [c \in Callers |-> NULL]
  /\ nested = [c \in Callers |-> FALSE] /\ held = [c \in Callers |-> NULL]
  /\ sub = [t \in EventTypes |-> NULL]
  /\ callback = [t \in EventTypes |-> FALSE]
  /\ readers = [c \in Callers |-> 0] /\ writer = NULL
  /\ allocated = [s \in Subs |-> NULL] /\ calling = NULL
  /\ overlap = {} /\ fault = "none"
-----------------------------------------------------------------------------
(* event_map_lock, and Asterisk's list of the subscriptions to a type,     *)
(* which its dispatcher read-locks while it calls them.                    *)

Goto(c, l) == pc' = [pc EXCEPT ![c] = l]

ast_rwlock_rdlock(c) ==
  /\ writer = NULL
  /\ readers' = [readers EXCEPT ![c] = @ + 1]
  /\ UNCHANGED writer

ast_rwlock_unlock(c) ==
  IF writer = c
    THEN writer' = NULL /\ UNCHANGED readers
    ELSE readers' = [readers EXCEPT ![c] = @ - 1] /\ UNCHANGED writer

CanWriteList(t) == calling # t

(* A client calls; calls for one type may overlap.                         *)
Call(c, t, l) ==
  /\ pc[c] = "idle"
  /\ Goto(c, l)
  /\ arg' = [arg EXCEPT ![c] = t]
  /\ nested' = [nested EXCEPT ![c] = FALSE]
  /\ overlap' = overlap \cup {u \in {t} :
                               \E d \in Callers : pc[d] # "idle" /\ arg[d] = u}
  /\ UNCHANGED <<held, mapVars, lockVars, astVars, fault>>
-----------------------------------------------------------------------------
(* pbx_subscribe.                                                          *)

(* A write lock, as the assignments below would call for.                  *)
pbx_subscribe_lock_Write(c) ==
  /\ pc[c] = "s_lock" /\ Goto(c, "s_check")
  /\ writer = NULL /\ \A d \in Callers : readers[d] = 0
  /\ writer' = c
  /\ UNCHANGED <<arg, nested, held, mapVars, readers, astVars, overlap, fault>>

pbx_subscribe_lock(c) ==
  /\ pc[c] = "s_lock" /\ Goto(c, "s_check")
  /\ ast_rwlock_rdlock(c)
  /\ UNCHANGED <<arg, nested, held, mapVars, astVars, overlap, fault>>

(* A second subscription replaces the first one.                           *)
pbx_subscribe_check_Replace(c) ==
  /\ pc[c] = "s_check" /\ Goto(c, "s_callback")
  /\ UNCHANGED <<arg, nested, held, mapVars, lockVars, astVars, overlap,
                 fault>>

(* A type that is subscribed is unsubscribed instead.                      *)
pbx_subscribe_check(c) ==
  /\ pc[c] = "s_check"
  /\ Goto(c, IF sub[arg[c]] = NULL THEN "s_callback" ELSE "u_lock")
  /\ nested' = [nested EXCEPT ![c] = sub[arg[c]] # NULL]
  /\ UNCHANGED <<arg, held, mapVars, lockVars, astVars, overlap, fault>>

pbx_subscribe_callback(c) ==
  /\ pc[c] = "s_callback" /\ Goto(c, "s_new")
  /\ callback' = [callback EXCEPT ![arg[c]] = TRUE]
  /\ UNCHANGED <<arg, nested, held, sub, lockVars, astVars, overlap, fault>>

(* A subscription is allocated, or NULL returned without memory for one;   *)
(* it goes on no list.                                                     *)
ast_event_subscribe_new(c) ==
  /\ pc[c] = "s_new" /\ Goto(c, "s_assign")
  /\ \/ UNCHANGED <<held, allocated>>
     \/ \E s \in Subs : /\ allocated[s] = NULL
                        /\ held' = [held EXCEPT ![c] = s]
                        /\ allocated' = [allocated EXCEPT ![s] = arg[c]]
  /\ UNCHANGED <<arg, nested, mapVars, lockVars, calling, overlap, fault>>

pbx_subscribe_assign(c) ==
  /\ pc[c] = "s_assign" /\ Goto(c, "unlock")
  /\ sub' = [sub EXCEPT ![arg[c]] = held[c]]
  /\ held' = [held EXCEPT ![c] = NULL]
  /\ UNCHANGED <<arg, nested, callback, lockVars, astVars, overlap, fault>>

(* Either function unlocks; a nested pbx_unsubscribe returns to unlock.    *)
pbx_unlock(c) ==
  /\ pc[c] = "unlock" /\ Goto(c, IF nested[c] THEN "unlock" ELSE "idle")
  /\ nested' = [nested EXCEPT ![c] = FALSE]
  /\ ast_rwlock_unlock(c)
  /\ UNCHANGED <<arg, held, mapVars, astVars, overlap, fault>>
-----------------------------------------------------------------------------
(* pbx_unsubscribe.                                                        *)

pbx_unsubscribe_lock(c) ==
  /\ pc[c] = "u_lock" /\ Goto(c, "u_check")
  /\ ast_rwlock_rdlock(c)
  /\ UNCHANGED <<arg, nested, held, mapVars, astVars, overlap, fault>>

(* A return from the error branch that forgets the lock.                   *)
pbx_unsubscribe_check_NoUnlock(c) ==
  /\ pc[c] = "u_check"
  /\ Goto(c, IF sub[arg[c]] # NULL THEN "u_read"
             ELSE IF nested[c] THEN "unlock" ELSE "idle")
  /\ UNCHANGED <<arg, nested, held, mapVars, lockVars, astVars, overlap,
                 fault>>

(* A type that is not subscribed is left alone.                            *)
pbx_unsubscribe_check(c) ==
  /\ pc[c] = "u_check"
  /\ Goto(c, IF sub[arg[c]] = NULL THEN "unlock" ELSE "u_read")
  /\ UNCHANGED <<arg, nested, held, mapVars, lockVars, astVars, overlap,
                 fault>>

(* The pointer is read again for the call ...                              *)
pbx_unsubscribe_read(c) ==
  /\ pc[c] = "u_read" /\ Goto(c, "u_call")
  /\ held' = [held EXCEPT ![c] = sub[arg[c]]]
  /\ UNCHANGED <<arg, nested, mapVars, lockVars, astVars, overlap, fault>>

(* ... which waits for the list's lock, and frees what it points to.       *)
ast_event_unsubscribe(c) ==
  /\ pc[c] = "u_call"
  /\ IF \E s \in Subs : s = held[c] /\ allocated[s] = arg[c]
       THEN /\ CanWriteList(arg[c])
            /\ allocated' = [allocated EXCEPT ![held[c]] = NULL]
            /\ held' = [held EXCEPT ![c] = NULL]
            /\ Goto(c, "u_assign")
            /\ UNCHANGED fault
       ELSE fault' = "dead_sub" /\ UNCHANGED <<pc, held, allocated>>
  /\ UNCHANGED <<arg, nested, mapVars, lockVars, calling, overlap>>

(* ast_event_unsubscribe returns NULL.                                     *)
pbx_unsubscribe_assign(c) ==
  /\ pc[c] = "u_assign" /\ Goto(c, "u_callback")
  /\ sub' = [sub EXCEPT ![arg[c]] = NULL]
  /\ UNCHANGED <<arg, nested, held, callback, lockVars, astVars, overlap,
                 fault>>

pbx_unsubscribe_callback(c) ==
  /\ pc[c] = "u_callback" /\ Goto(c, "unlock")
  /\ callback' = [callback EXCEPT ![arg[c]] = FALSE]
  /\ UNCHANGED <<arg, nested, held, sub, lockVars, astVars, overlap, fault>>
-----------------------------------------------------------------------------
(* Asterisk has an event of type t, and calls those who subscribed to it.  *)
dispatch(t) ==
  /\ calling = NULL /\ calling' = t
  /\ UNCHANGED <<callVars, mapVars, lockVars, allocated, overlap, fault>>

dispatch_return ==
  /\ calling # NULL /\ calling' = NULL
  /\ UNCHANGED <<callVars, mapVars, lockVars, allocated, overlap, fault>>
-----------------------------------------------------------------------------
Steps(c) ==
  \/ pbx_subscribe_lock(c) \/ pbx_subscribe_check(c)
  \/ pbx_subscribe_callback(c) \/ ast_event_subscribe_new(c)
  \/ pbx_subscribe_assign(c) \/ pbx_unlock(c)
  \/ pbx_unsubscribe_lock(c) \/ pbx_unsubscribe_check(c)
  \/ pbx_unsubscribe_read(c) \/ ast_event_unsubscribe(c)
  \/ pbx_unsubscribe_assign(c) \/ pbx_unsubscribe_callback(c)

Running == fault = "none"

Next == /\ Running
        /\ \/ \E c \in Callers : Steps(c)
           \/ \E c \in Callers, t \in EventTypes :
                Call(c, t, "s_lock") \/ Call(c, t, "u_lock")
           \/ \E t \in EventTypes : dispatch(t)
           \/ dispatch_return

Spec == Init /\ [][Next]_vars

(* Threads are scheduled fairly.  Events may come without end; Asterisk's  *)
(* read-write locks let a waiting writer in between two readers, hence the *)
(* strong fairness.                                                        *)
FairSpec == /\ Spec
            /\ \A c \in Callers : SF_vars(Running /\ Steps(c))
            /\ WF_vars(Running /\ dispatch_return)
-----------------------------------------------------------------------------
(* Every variable has its type; read locks are at most two deep.           *)
TypeOK ==
  /\ pc \in [Callers -> {"idle", "s_lock", "s_check", "s_callback", "s_new",
                         "s_assign", "unlock", "u_lock", "u_check", "u_read",
                         "u_call", "u_assign", "u_callback"}]
  /\ arg \in [Callers -> EventTypes \cup {NULL}]
  /\ nested \in [Callers -> BOOLEAN]
  /\ held \in [Callers -> Subs \cup {NULL}]
  /\ sub \in [EventTypes -> Subs \cup {NULL}]
  /\ callback \in [EventTypes -> BOOLEAN]
  /\ readers \in [Callers -> 0..2] /\ writer \in Callers \cup {NULL}
  /\ allocated \in [Subs -> EventTypes \cup {NULL}]
  /\ calling \in EventTypes \cup {NULL}
  /\ overlap \subseteq EventTypes
  /\ fault \in {"none", "dead_sub"}

AllocatedFor(t) == {s \in Subs : allocated[s] = t}
Quiet(t) == \A c \in Callers : pc[c] # "idle" => arg[c] # t

(* If the calls for a type never overlap, then between two of them the one *)
(* subscription that is allocated for it is the one in its entry, so that  *)
(* none is leaked, and an entry with a subscription has a callback -       *)
(* although pbx_subscribe of a subscribed type unsubscribes it.  Nor is a  *)
(* subscription then freed twice.  (That the map keeps its books is no     *)
(* promise of events: Asterisk never has these subscriptions on a list.)   *)
SerialIsExact ==
  /\ \A t \in EventTypes \ overlap :
       Quiet(t) => /\ AllocatedFor(t) = {sub[t]} \ {NULL}
                   /\ sub[t] # NULL => callback[t]
  /\ fault = "dead_sub" =>
       \E c \in Callers : pc[c] = "u_call" /\ arg[c] \in overlap

(* Every call returns: pbx_subscribe may call pbx_unsubscribe with the     *)
(* lock held because both only read-lock it, and ast_event_unsubscribe,    *)
(* called under it, waits for nothing but the end of the dispatcher's      *)
(* calls of other modules' subscribers.                                    *)
CallsReturn == \A c \in Callers : pc[c] # "idle" ~> pc[c] = "idle" \/ ~Running
=============================================================================
