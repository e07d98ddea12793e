------------------------- MODULE PbxEventMapProofs -------------------------
(***************************************************************************)
(* Theorems about PbxEventMap, for any callers, types and subscriptions:   *)
(* its variables keep their types, and SerialIsExact.                      *)
(*                                                                         *)
(* The types need to know how deep each caller holds the read lock         *)
(* (LockInv).  SerialIsExact speaks of the moments between calls; its      *)
(* invariant says what is allocated for a type, and what its entry holds,  *)
(* at each point inside a call that runs alone (AloneInv), and that a call *)
(* runs alone as long as its type is not in overlap (Single).              *)
(***************************************************************************)
EXTENDS PbxEventMap, TLAPS

(* How often caller c has read-locked event_map_lock.                      *)
Depth(c) == CASE pc[c] \in {"idle", "s_lock"} -> 0
              [] pc[c] \in {"s_check", "s_callback", "s_new", "s_assign"} -> 1
              [] pc[c] = "u_lock" -> IF nested[c] THEN 1 ELSE 0
              [] OTHER -> IF nested[c] THEN 2 ELSE 1

(* Nobody write-locks; each caller has its read locks; pbx_unsubscribe is  *)
(* all that is ever nested; a caller inside a call has an argument, and a  *)
(* subscription in a register only where it has just got or read one.      *)
LockInv ==
  /\ writer = NULL
  /\ \A c \in Callers :
       /\ readers[c] = Depth(c)
       /\ pc[c] \in {"idle", "s_lock", "s_check", "s_callback", "s_new",
                     "s_assign"} => ~nested[c]
       /\ pc[c] # "idle" => arg[c] \in EventTypes
       /\ pc[c] \notin {"s_assign", "u_call"} => held[c] = NULL

(* Nobody is in a call at first.                                           *)
LEMMA InitLock == Init => TypeOK /\ LockInv
  BY DEF Init, TypeOK, LockInv, Depth

(* Each step of a call; pbx_unlock is the one with the case of nesting.    *)
LEMMA StepLock ==
  ASSUME TypeOK, LockInv, [Next]_vars
  PROVE  TypeOK' /\ LockInv'
  <1> USE NullAssumption DEF callVars, mapVars, lockVars, astVars
  <1>1. ASSUME NEW c \in Callers, NEW t \in EventTypes,
               Call(c, t, "s_lock") \/ Call(c, t, "u_lock")
        PROVE  TypeOK' /\ LockInv'
    <2>1. pc[c] = "idle" /\ readers[c] = 0 /\ held[c] = NULL
      BY <1>1 DEF Call, LockInv, Depth
    <2>2. TypeOK'
      <3>1. overlap' \subseteq EventTypes
        BY <1>1 DEF Call, TypeOK
      <3>2. /\ \E l \in {"s_lock", "u_lock"} : pc' = [pc EXCEPT ![c] = l]
            /\ arg' = [arg EXCEPT ![c] = t]
            /\ nested' = [nested EXCEPT ![c] = FALSE]
            /\ UNCHANGED <<held, mapVars, lockVars, astVars, fault>>
        BY <1>1 DEF Call, Goto
      <3> QED BY <3>1, <3>2 DEF TypeOK
    <2>3. LockInv'
      BY <1>1, <2>1 DEF Call, Goto, TypeOK, LockInv, Depth
    <2> QED BY <2>2, <2>3
  <1>2. ASSUME NEW c \in Callers, pbx_subscribe_lock(c)
        PROVE  TypeOK' /\ LockInv'
    <2>1. pc[c] = "s_lock" /\ readers[c] = 0
      BY <1>2 DEF pbx_subscribe_lock, LockInv, Depth
    <2> QED BY <1>2, <2>1 DEF pbx_subscribe_lock, ast_rwlock_rdlock, Goto,
              TypeOK, LockInv, Depth
  <1>3. ASSUME NEW c \in Callers, pbx_subscribe_check(c)
        PROVE  TypeOK' /\ LockInv'
    BY <1>3 DEF pbx_subscribe_check, Goto, TypeOK, LockInv, Depth
  <1>4. ASSUME NEW c \in Callers, pbx_subscribe_callback(c)
        PROVE  TypeOK' /\ LockInv'
    BY <1>4 DEF pbx_subscribe_callback, Goto, TypeOK, LockInv, Depth
  <1>5. ASSUME NEW c \in Callers, ast_event_subscribe_new(c)
        PROVE  TypeOK' /\ LockInv'
    BY <1>5 DEF ast_event_subscribe_new, Goto, TypeOK, LockInv, Depth
  <1>6. ASSUME NEW c \in Callers, pbx_subscribe_assign(c)
        PROVE  TypeOK' /\ LockInv'
    BY <1>6 DEF pbx_subscribe_assign, Goto, TypeOK, LockInv, Depth
  <1>7. ASSUME NEW c \in Callers, pbx_unlock(c)
        PROVE  TypeOK' /\ LockInv'
    BY <1>7 DEF pbx_unlock, ast_rwlock_unlock, Goto, TypeOK, LockInv, Depth
  <1>8. ASSUME NEW c \in Callers, pbx_unsubscribe_lock(c)
        PROVE  TypeOK' /\ LockInv'
    BY <1>8 DEF pbx_unsubscribe_lock, ast_rwlock_rdlock, Goto, TypeOK,
         LockInv, Depth
  <1>9. ASSUME NEW c \in Callers,
               pbx_unsubscribe_check(c) \/ pbx_unsubscribe_read(c)
        PROVE  TypeOK' /\ LockInv'
    BY <1>9 DEF pbx_unsubscribe_check, pbx_unsubscribe_read, Goto, TypeOK,
         LockInv, Depth
  <1>10. ASSUME NEW c \in Callers, ast_event_unsubscribe(c)
         PROVE  TypeOK' /\ LockInv'
    <2>1. CASE \E s \in Subs : s = held[c] /\ allocated[s] = arg[c]
      <3>1. /\ pc[c] = "u_call" /\ held[c] \in Subs
            /\ allocated' = [allocated EXCEPT ![held[c]] = NULL]
            /\ held' = [held EXCEPT ![c] = NULL]
            /\ pc' = [pc EXCEPT ![c] = "u_assign"] /\ fault' = fault
            /\ UNCHANGED <<arg, nested, mapVars, lockVars, calling, overlap>>
        BY <1>10, <2>1 DEF ast_event_unsubscribe, Goto
      <3> QED BY <3>1 DEF TypeOK, LockInv, Depth
    <2>2. CASE ~ \E s \in Subs : s = held[c] /\ allocated[s] = arg[c]
      BY <1>10, <2>2 DEF ast_event_unsubscribe, TypeOK, LockInv, Depth
    <2> QED BY <2>1, <2>2
  <1>11. ASSUME NEW c \in Callers,
                pbx_unsubscribe_assign(c) \/ pbx_unsubscribe_callback(c)
         PROVE  TypeOK' /\ LockInv'
    <2>1. CASE pbx_unsubscribe_assign(c)
      BY <2>1 DEF pbx_unsubscribe_assign, Goto, TypeOK, LockInv, Depth
    <2>2. CASE pbx_unsubscribe_callback(c)
      BY <2>2 DEF pbx_unsubscribe_callback, Goto, TypeOK, LockInv, Depth
    <2> QED BY <1>11, <2>1, <2>2
  <1>12. ASSUME \/ \E t \in EventTypes : dispatch(t)
                \/ dispatch_return
         PROVE  TypeOK' /\ LockInv'
    BY <1>12 DEF dispatch, dispatch_return, TypeOK, LockInv, Depth
  <1>13. CASE UNCHANGED vars
    BY <1>13 DEF vars, TypeOK, LockInv, Depth
  <1> QED BY <1>1, <1>2, <1>3, <1>4, <1>5, <1>6, <1>7, <1>8, <1>9, <1>10,
            <1>11, <1>12, <1>13 DEF Next, Steps

(* Every pbx_subscribe and pbx_unsubscribe, in whatever order their steps  *)
(* run, keeps every variable in its type; no caller holds the read lock    *)
(* more than twice.                                                        *)
THEOREM TypeCorrect == Spec => []TypeOK
  BY InitLock, StepLock, PTL DEF Spec
-----------------------------------------------------------------------------
(* What is allocated for t is what its entry holds.                        *)
Settled(t) == /\ AllocatedFor(t) = {sub[t]} \ {NULL}
              /\ sub[t] # NULL => callback[t]

(* What holds of its type inside the call of c, if no other call overlaps. *)
AloneInv(c) ==
  LET t == arg[c]
  IN  /\ pc[c] \in {"s_lock", "s_check", "u_lock", "u_check", "u_read",
                    "u_call", "unlock"} => Settled(t)
      /\ pc[c] \in {"u_read", "u_call"} => sub[t] # NULL
      /\ pc[c] = "u_call" => held[c] = sub[t]
      /\ pc[c] \in {"u_assign", "u_callback", "s_callback", "s_new"} =>
           AllocatedFor(t) = {}
      /\ pc[c] \in {"u_callback", "s_callback", "s_new", "s_assign"} =>
           sub[t] = NULL
      /\ pc[c] = "s_assign" => AllocatedFor(t) = {held[c]} \ {NULL}
      /\ pc[c] \in {"s_new", "s_assign"} => callback[t]

(* A call whose type is not in overlap is the only one for it.             *)
Single(t) == \A c, d \in Callers :
               /\ pc[c] # "idle" /\ arg[c] = t
               /\ pc[d] # "idle" /\ arg[d] = t
               => c = d

(* Of a type for which no two calls have overlapped.                       *)
MapInv(t) ==
  t \notin overlap =>
    /\ Single(t)
    /\ Quiet(t) => Settled(t)
    /\ \A c \in Callers : pc[c] # "idle" /\ arg[c] = t => AloneInv(c)

(* The second half of SerialIsExact.                                       *)
DeadInv == fault = "dead_sub" =>
             \E c \in Callers : pc[c] = "u_call" /\ arg[c] \in overlap

IInv == /\ TypeOK /\ LockInv /\ DeadInv
        /\ \A t \in EventTypes : MapInv(t)

(* No type has a subscription at first.                                    *)
LEMMA InitIInv == Init => IInv
  <1> SUFFICES ASSUME Init PROVE IInv
    OBVIOUS
  <1>1. TypeOK /\ LockInv
    BY InitLock
  <1>2. ASSUME NEW t \in EventTypes PROVE MapInv(t)
    BY NullAssumption DEF Init, MapInv, Single, Quiet, Settled, AllocatedFor
  <1> QED BY <1>1, <1>2 DEF IInv, DeadInv, Init

(* What a step of caller c leaves alone: the other callers, and the types  *)
(* that are not its argument.                                              *)
Beside(c) ==
  /\ arg' = arg /\ overlap' = overlap
  /\ \A d \in Callers \ {c} : pc'[d] = pc[d] /\ held'[d] = held[d]
  /\ \A t \in EventTypes \ {arg[c]} :
       /\ sub'[t] = sub[t] /\ (callback[t] => callback'[t])
       /\ AllocatedFor(t)' = AllocatedFor(t)

(* The subscription that c makes or gives back is for its own type.        *)
LEMMA StepBeside ==
  ASSUME TypeOK, LockInv, NEW c \in Callers, Steps(c)
  PROVE  Beside(c) /\ pc[c] # "idle" /\ arg[c] \in EventTypes
  <1> USE NullAssumption DEF callVars, mapVars, lockVars, astVars
  <1>1. pc[c] # "idle"
    BY DEF Steps, pbx_subscribe_lock, pbx_subscribe_check,
         pbx_subscribe_callback, ast_event_subscribe_new,
         pbx_subscribe_assign, pbx_unlock, pbx_unsubscribe_lock,
         pbx_unsubscribe_check, pbx_unsubscribe_read, ast_event_unsubscribe,
         pbx_unsubscribe_assign, pbx_unsubscribe_callback
  <1>2. arg[c] \in EventTypes
    BY <1>1 DEF LockInv
  <1>3. CASE pbx_subscribe_lock(c) \/ pbx_subscribe_check(c)
             \/ pbx_unlock(c) \/ pbx_unsubscribe_lock(c)
             \/ pbx_unsubscribe_check(c) \/ pbx_unsubscribe_read(c)
    <2>1. /\ arg' = arg /\ overlap' = overlap /\ sub' = sub
          /\ callback' = callback /\ allocated' = allocated
      BY <1>3 DEF pbx_subscribe_lock, pbx_subscribe_check, pbx_unlock,
           pbx_unsubscribe_lock, pbx_unsubscribe_check, pbx_unsubscribe_read
    <2>2. \A d \in Callers \ {c} : pc'[d] = pc[d] /\ held'[d] = held[d]
      BY <1>3 DEF pbx_subscribe_lock, pbx_subscribe_check, pbx_unlock,
           pbx_unsubscribe_lock, pbx_unsubscribe_check, pbx_unsubscribe_read,
           Goto, TypeOK
    <2> QED BY <1>1, <1>2, <2>1, <2>2 DEF Beside, AllocatedFor
  <1>4. CASE pbx_subscribe_callback(c) \/ pbx_unsubscribe_callback(c)
    <2>1. /\ arg' = arg /\ overlap' = overlap /\ sub' = sub
          /\ held' = held /\ allocated' = allocated
      BY <1>4 DEF pbx_subscribe_callback, pbx_unsubscribe_callback
    <2>2. /\ \A d \in Callers \ {c} : pc'[d] = pc[d]
          /\ \A t \in EventTypes \ {arg[c]} : callback[t] => callback'[t]
      BY <1>4 DEF pbx_subscribe_callback, pbx_unsubscribe_callback, Goto,
           TypeOK
    <2> QED BY <1>1, <1>2, <2>1, <2>2 DEF Beside, AllocatedFor
  <1>5. CASE pbx_subscribe_assign(c) \/ pbx_unsubscribe_assign(c)
    <2>1. /\ arg' = arg /\ overlap' = overlap /\ callback' = callback
          /\ allocated' = allocated
      BY <1>5 DEF pbx_subscribe_assign, pbx_unsubscribe_assign
    <2>2. /\ \A d \in Callers \ {c} : pc'[d] = pc[d] /\ held'[d] = held[d]
          /\ \A t \in EventTypes \ {arg[c]} : sub'[t] = sub[t]
      BY <1>5 DEF pbx_subscribe_assign, pbx_unsubscribe_assign, Goto, TypeOK
    <2> QED BY <1>1, <1>2, <2>1, <2>2 DEF Beside, AllocatedFor
  <1>6. CASE ast_event_subscribe_new(c)
    <2>1. /\ arg' = arg /\ overlap' = overlap /\ callback' = callback
          /\ sub' = sub
          /\ \A d \in Callers \ {c} : pc'[d] = pc[d] /\ held'[d] = held[d]
      BY <1>6 DEF ast_event_subscribe_new, Goto, TypeOK
    <2>2. \/ allocated' = allocated
          \/ \E s \in Subs : /\ allocated[s] = NULL
                              /\ allocated' = [allocated EXCEPT ![s] = arg[c]]
      BY <1>6 DEF ast_event_subscribe_new
    <2>3. \A t \in EventTypes \ {arg[c]} : AllocatedFor(t)' = AllocatedFor(t)
      BY <2>2 DEF AllocatedFor, TypeOK
    <2> QED BY <1>1, <1>2, <2>1, <2>3 DEF Beside
  <1>7. CASE ast_event_unsubscribe(c)
    <2>1. /\ arg' = arg /\ overlap' = overlap /\ callback' = callback
          /\ sub' = sub
          /\ \A d \in Callers \ {c} : pc'[d] = pc[d] /\ held'[d] = held[d]
      BY <1>7 DEF ast_event_unsubscribe, Goto, TypeOK
    <2>2. \/ allocated' = allocated
          \/ \E s \in Subs : /\ allocated[s] = arg[c]
                              /\ allocated' = [allocated EXCEPT ![s] = NULL]
      BY <1>7 DEF ast_event_unsubscribe
    <2>3. \A t \in EventTypes \ {arg[c]} : AllocatedFor(t)' = AllocatedFor(t)
      BY <2>2 DEF AllocatedFor, TypeOK
    <2> QED BY <1>1, <1>2, <2>1, <2>3 DEF Beside
  <1> QED BY <1>3, <1>4, <1>5, <1>6, <1>7 DEF Steps

(* Inside a call that runs alone, each step leads to what holds at the     *)
(* next; the last one leaves nothing allocated but what the entry holds.   *)
LEMMA StepAlone ==
  ASSUME TypeOK, LockInv, NEW c \in Callers, Steps(c), AloneInv(c),
         pc[c] # "idle", arg[c] \in EventTypes
  PROVE  /\ pc'[c] # "idle" => AloneInv(c)'
         /\ pc'[c] = "idle" => Settled(arg[c])'
         /\ fault' # "dead_sub" \/ fault = "dead_sub"
  <1> DEFINE t == arg[c]
  <1> USE NullAssumption DEF callVars, mapVars, lockVars, astVars
  <1>0. arg'[c] = t /\ t \in EventTypes
    BY StepBeside DEF Beside
  <1>1. CASE pbx_subscribe_lock(c) \/ pbx_unsubscribe_lock(c)
    <2>1. /\ pc[c] \in {"s_lock", "u_lock"}
          /\ pc'[c] \in {"s_check", "u_check"}
          /\ sub' = sub /\ callback' = callback /\ allocated' = allocated
          /\ fault' = fault
      BY <1>1 DEF pbx_subscribe_lock, pbx_unsubscribe_lock, Goto, TypeOK
    <2> QED BY <1>0, <2>1 DEF AloneInv, Settled, AllocatedFor
  <1>2. CASE pbx_subscribe_check(c)
    <2>1. /\ pc[c] = "s_check"
          /\ pc'[c] = IF sub[t] = NULL THEN "s_callback" ELSE "u_lock"
          /\ sub' = sub /\ callback' = callback /\ allocated' = allocated
          /\ fault' = fault
      BY <1>2 DEF pbx_subscribe_check, Goto, TypeOK
    <2> QED BY <1>0, <2>1 DEF AloneInv, Settled, AllocatedFor
  <1>3. CASE pbx_unsubscribe_check(c)
    <2>1. /\ pc[c] = "u_check"
          /\ pc'[c] = IF sub[t] = NULL THEN "unlock" ELSE "u_read"
          /\ sub' = sub /\ callback' = callback /\ allocated' = allocated
          /\ fault' = fault
      BY <1>3 DEF pbx_unsubscribe_check, Goto, TypeOK
    <2> QED BY <1>0, <2>1 DEF AloneInv, Settled, AllocatedFor
  <1>4. CASE pbx_subscribe_callback(c)
    <2>1. /\ pc[c] = "s_callback" /\ pc'[c] = "s_new"
          /\ sub' = sub /\ allocated' = allocated /\ fault' = fault
      BY <1>4 DEF pbx_subscribe_callback, Goto, TypeOK
    <2>2. callback'[t]
      BY <1>0, <1>4 DEF pbx_subscribe_callback, TypeOK
    <2> QED BY <1>0, <2>1, <2>2 DEF AloneInv, Settled, AllocatedFor
  <1>5. CASE ast_event_subscribe_new(c)
    <2>1. /\ pc[c] = "s_new" /\ pc'[c] = "s_assign"
          /\ sub' = sub /\ callback' = callback /\ fault' = fault
          /\ held[c] = NULL
      BY <1>5 DEF ast_event_subscribe_new, Goto, TypeOK, LockInv
    <2>2. \/ allocated' = allocated /\ held' = held
          \/ \E s \in Subs : /\ allocated[s] = NULL
                              /\ allocated' = [allocated EXCEPT ![s] = t]
                              /\ held' = [held EXCEPT ![c] = s]
      BY <1>5 DEF ast_event_subscribe_new
    <2>3. AllocatedFor(t) = {}
      BY <2>1 DEF AloneInv
    <2>4. AllocatedFor(t)' = {held'[c]} \ {NULL}
      <3>1. CASE allocated' = allocated /\ held' = held
        BY <1>0, <2>1, <2>3, <3>1 DEF AllocatedFor
      <3>2. ASSUME NEW s \in Subs, allocated[s] = NULL,
                   allocated' = [allocated EXCEPT ![s] = t],
                   held' = [held EXCEPT ![c] = s]
            PROVE  AllocatedFor(t)' = {held'[c]} \ {NULL}
        <4>1. held'[c] = s /\ s # NULL
          BY <3>2 DEF TypeOK
        <4>2. \A x \in Subs : allocated'[x] = t <=> x = s
          BY <1>0, <2>3, <3>2 DEF AllocatedFor, TypeOK
        <4> QED BY <1>0, <4>1, <4>2 DEF AllocatedFor
      <3> QED BY <2>2, <3>1, <3>2
    <2> QED BY <1>0, <2>1, <2>4 DEF AloneInv
  <1>6. CASE pbx_subscribe_assign(c)
    <2>1. /\ pc[c] = "s_assign" /\ pc'[c] = "unlock" /\ sub'[t] = held[c]
          /\ callback' = callback /\ allocated' = allocated /\ fault' = fault
      BY <1>0, <1>6 DEF pbx_subscribe_assign, Goto, TypeOK
    <2> QED BY <1>0, <2>1 DEF AloneInv, Settled, AllocatedFor
  <1>7. CASE pbx_unlock(c)
    <2>1. /\ pc[c] = "unlock" /\ pc'[c] \in {"unlock", "idle"} /\ sub' = sub
          /\ callback' = callback /\ allocated' = allocated /\ fault' = fault
      BY <1>7 DEF pbx_unlock, Goto, TypeOK
    <2> QED BY <1>0, <2>1 DEF AloneInv, Settled, AllocatedFor
  <1>8. CASE pbx_unsubscribe_read(c)
    <2>1. /\ pc[c] = "u_read" /\ pc'[c] = "u_call" /\ held'[c] = sub[t]
          /\ sub' = sub /\ callback' = callback /\ allocated' = allocated
          /\ fault' = fault
      BY <1>8 DEF pbx_unsubscribe_read, Goto, TypeOK
    <2> QED BY <1>0, <2>1 DEF AloneInv, Settled, AllocatedFor
  <1>9. CASE ast_event_unsubscribe(c)
    <2>1. pc[c] = "u_call" /\ held[c] = sub[t] /\ sub[t] # NULL
      BY <1>9 DEF ast_event_unsubscribe, AloneInv
    <2>2. AllocatedFor(t) = {held[c]}
      BY <2>1 DEF AloneInv, Settled
    <2>3. \E s \in Subs : s = held[c] /\ allocated[s] = t
      BY <2>2 DEF AllocatedFor
    <2>4. /\ pc'[c] = "u_assign" /\ fault' = fault
          /\ allocated' = [allocated EXCEPT ![held[c]] = NULL]
      BY <1>9, <2>3 DEF ast_event_unsubscribe, Goto, TypeOK
    <2>5. AllocatedFor(t)' = {}
      <3>1. \A x \in Subs : allocated'[x] # t
        BY <1>0, <2>2, <2>4 DEF AllocatedFor, TypeOK
      <3> QED BY <1>0, <3>1 DEF AllocatedFor
    <2> QED BY <1>0, <2>4, <2>5 DEF AloneInv
  <1>10. CASE pbx_unsubscribe_assign(c)
    <2>1. /\ pc[c] = "u_assign" /\ pc'[c] = "u_callback" /\ sub'[t] = NULL
          /\ allocated' = allocated /\ fault' = fault
      BY <1>0, <1>10 DEF pbx_unsubscribe_assign, Goto, TypeOK
    <2> QED BY <1>0, <2>1 DEF AloneInv, AllocatedFor
  <1>11. CASE pbx_unsubscribe_callback(c)
    <2>1. /\ pc[c] = "u_callback" /\ pc'[c] = "unlock" /\ sub' = sub
          /\ allocated' = allocated /\ fault' = fault
      BY <1>0, <1>11 DEF pbx_unsubscribe_callback, Goto, TypeOK
    <2> QED BY <1>0, <2>1 DEF AloneInv, Settled, AllocatedFor
  <1> QED BY <1>1, <1>2, <1>3, <1>4, <1>5, <1>6, <1>7, <1>8, <1>9, <1>10,
            <1>11 DEF Steps

(* Each type through each step.                                            *)
LEMMA StepMap ==
  ASSUME IInv, [Next]_vars, TypeOK', LockInv', NEW t \in EventTypes
  PROVE  MapInv(t)'
  <1> USE NullAssumption DEF callVars, mapVars, lockVars, astVars
  <1>0. TypeOK /\ LockInv /\ MapInv(t)
    BY DEF IInv
  <1>1. ASSUME NEW c \in Callers, NEW u \in EventTypes,
               Call(c, u, "s_lock") \/ Call(c, u, "u_lock")
        PROVE  MapInv(t)'
    <2> SUFFICES ASSUME t \notin overlap'
                 PROVE  /\ Single(t)'
                        /\ Quiet(t)' => Settled(t)'
                        /\ \A d \in Callers :
                             pc'[d] # "idle" /\ arg'[d] = t => AloneInv(d)'
      BY DEF MapInv
    <2>1. /\ sub' = sub /\ callback' = callback /\ allocated' = allocated
          /\ held' = held /\ pc[c] = "idle"
          /\ pc'[c] \in {"s_lock", "u_lock"} /\ arg'[c] = u
          /\ \A d \in Callers \ {c} : pc'[d] = pc[d] /\ arg'[d] = arg[d]
      BY <1>0, <1>1 DEF Call, Goto, TypeOK
    <2>2. /\ t \notin overlap
          /\ t = u => \A d \in Callers : pc[d] # "idle" => arg[d] # t
      BY <1>1 DEF Call
    <2>3. /\ Single(t) /\ (Quiet(t) => Settled(t))
          /\ \A d \in Callers : pc[d] # "idle" /\ arg[d] = t => AloneInv(d)
      BY <1>0, <2>2 DEF MapInv
    <2>4. Settled(t)' <=> Settled(t)
      BY <2>1 DEF Settled, AllocatedFor
    <2>5. CASE t = u
      <3>1. Settled(t)
        BY <2>2, <2>3, <2>5 DEF Quiet
      <3>2. Single(t)'
        BY <2>1, <2>2, <2>5 DEF Single
      <3>3. AloneInv(c)'
        BY <2>1, <2>4, <2>5, <3>1 DEF AloneInv
      <3> QED BY <2>1, <2>2, <2>4, <2>5, <3>1, <3>2, <3>3
    <2>6. CASE t # u
      <3>1. Single(t)'
        BY <2>1, <2>3, <2>6 DEF Single
      <3>2. Quiet(t)' => Settled(t)'
        <4>1. Quiet(t)' => Quiet(t)
          BY <2>1, <2>6 DEF Quiet
        <4> QED BY <2>3, <2>4, <4>1
      <3>3. ASSUME NEW d \in Callers, pc'[d] # "idle", arg'[d] = t
            PROVE  AloneInv(d)'
        <4>1. d # c /\ pc'[d] = pc[d] /\ arg'[d] = arg[d]
          BY <2>1, <2>6, <3>3
        <4>2. AloneInv(d)
          BY <2>3, <3>3, <4>1
        <4> QED BY <2>1, <4>1, <4>2 DEF AloneInv, Settled, AllocatedFor
      <3> QED BY <3>1, <3>2, <3>3
    <2> QED BY <2>5, <2>6
  <1>2. ASSUME NEW c \in Callers, Steps(c) PROVE MapInv(t)'
    <2>1. Beside(c) /\ pc[c] # "idle" /\ arg[c] \in EventTypes
      BY <1>0, <1>2, StepBeside
    <2> SUFFICES ASSUME t \notin overlap
                 PROVE  /\ Single(t)'
                        /\ Quiet(t)' => Settled(t)'
                        /\ \A d \in Callers :
                             pc'[d] # "idle" /\ arg[d] = t => AloneInv(d)'
      BY <2>1 DEF MapInv, Beside
    <2>2. /\ Single(t) /\ (Quiet(t) => Settled(t))
          /\ \A d \in Callers : pc[d] # "idle" /\ arg[d] = t => AloneInv(d)
      BY <1>0 DEF MapInv
    <2>3. Single(t)'
      <3>1. \A d \in Callers : pc'[d] # "idle" => pc[d] # "idle"
        BY <2>1 DEF Beside
      <3> QED BY <2>1, <2>2, <3>1 DEF Single, Beside
    <2>4. CASE t = arg[c]
      <3>1. AloneInv(c)
        BY <2>1, <2>2, <2>4
      <3>2. /\ pc'[c] # "idle" => AloneInv(c)'
            /\ pc'[c] = "idle" => Settled(arg[c])'
        BY <1>0, <1>2, <2>1, <3>1, StepAlone
      <3>3. \A d \in Callers \ {c} : pc'[d] # "idle" => arg[d] # t
        BY <2>1, <2>2, <2>4 DEF Single, Beside
      <3>4. arg' = arg
        BY <2>1 DEF Beside
      <3>5. Quiet(t)' => Settled(t)'
        <4>1. Quiet(t)' => pc'[c] = "idle"
          BY <2>4, <3>4 DEF Quiet
        <4>2. Settled(arg[c])' => Settled(t)'
          BY <2>4, <3>4 DEF Settled, AllocatedFor
        <4> QED BY <3>2, <4>1, <4>2
      <3> QED BY <2>3, <3>2, <3>3, <3>5
    <2>5. CASE t # arg[c]
      <3>1. /\ sub'[t] = sub[t] /\ (callback[t] => callback'[t])
            /\ AllocatedFor(t)' = AllocatedFor(t) /\ arg' = arg
        BY <2>1, <2>5 DEF Beside
      <3>2. Settled(t) => Settled(t)'
        BY <3>1 DEF Settled
      <3>3. Quiet(t)' => Quiet(t)
        BY <2>1, <2>5 DEF Quiet, Beside
      <3>4. ASSUME NEW d \in Callers, pc'[d] # "idle", arg[d] = t
            PROVE  AloneInv(d)'
        <4>1. d # c /\ pc'[d] = pc[d] /\ held'[d] = held[d]
          BY <2>1, <2>5, <3>4 DEF Beside
        <4>2. AloneInv(d) /\ arg'[d] = t
          BY <2>2, <3>1, <3>4, <4>1
        <4>3. AllocatedFor(arg[d])' = AllocatedFor(arg[d]) /\ sub'[t] = sub[t]
          BY <3>1, <3>4 DEF AllocatedFor
        <4>4. Settled(arg[d]) => Settled(arg[d])'
          BY <3>1, <3>4 DEF Settled, AllocatedFor
        <4> QED BY <3>1, <3>4, <4>1, <4>2, <4>3, <4>4 DEF AloneInv
      <3> QED BY <2>2, <2>3, <3>2, <3>3, <3>4
    <2> QED BY <2>4, <2>5
  <1>3. ASSUME UNCHANGED <<callVars, mapVars, allocated, overlap>>
        PROVE  MapInv(t)'
    BY <1>0, <1>3 DEF MapInv, Single, Quiet, Settled, AllocatedFor, AloneInv
  <1>4. CASE \/ \E u \in EventTypes : dispatch(u)
             \/ dispatch_return \/ UNCHANGED vars
    <2>1. UNCHANGED <<callVars, mapVars, allocated, overlap>>
      BY <1>4 DEF dispatch, dispatch_return, vars
    <2> QED BY <1>3, <2>1
  <1> QED BY <1>1, <1>2, <1>4 DEF Next

(* Asterisk is given a subscription that is gone only in a call that does  *)
(* not run alone.                                                          *)
LEMMA StepDead ==
  ASSUME IInv, [Next]_vars PROVE DeadInv'
  <1> USE DEF callVars, mapVars, lockVars, astVars
  <1>0. TypeOK /\ LockInv /\ DeadInv
    BY DEF IInv
  <1>1. CASE UNCHANGED vars
    BY <1>0, <1>1 DEF vars, DeadInv
  <1>2. ASSUME Next, fault' = "dead_sub"
        PROVE  \E c \in Callers : pc'[c] = "u_call" /\ arg'[c] \in overlap'
    <2>1. PICK c \in Callers : ast_event_unsubscribe(c) /\ fault' # fault
      BY <1>2 DEF Next, Running, Steps, Call, dispatch, dispatch_return,
           pbx_subscribe_lock, pbx_subscribe_check, pbx_subscribe_callback,
           ast_event_subscribe_new, pbx_subscribe_assign, pbx_unlock,
           pbx_unsubscribe_lock, pbx_unsubscribe_check, pbx_unsubscribe_read,
           pbx_unsubscribe_assign, pbx_unsubscribe_callback
    <2>2. /\ pc[c] = "u_call" /\ pc' = pc /\ arg' = arg /\ overlap' = overlap
      BY <2>1 DEF ast_event_unsubscribe
    <2>3. Steps(c) /\ arg[c] \in EventTypes
      BY <1>0, <2>1, <2>2 DEF Steps, LockInv
    <2>4. arg[c] \in overlap
      <3> SUFFICES ASSUME arg[c] \notin overlap PROVE FALSE
        OBVIOUS
      <3>1. AloneInv(c)
        BY <2>2, <2>3 DEF IInv, MapInv
      <3>2. fault = "dead_sub"
        BY <1>0, <1>2, <2>2, <2>3, <3>1, StepAlone
      <3> QED BY <1>2, <2>1, <3>2
    <2> QED BY <2>2, <2>4
  <1> QED BY <1>1, <1>2 DEF DeadInv

(* The invariant is inductive.                                             *)
LEMMA StepIInv == IInv /\ [Next]_vars => IInv'
  <1> SUFFICES ASSUME IInv, [Next]_vars PROVE IInv'
    OBVIOUS
  <1>1. TypeOK' /\ LockInv'
    BY StepLock DEF IInv
  <1> QED BY <1>1, StepMap, StepDead DEF IInv

(* As long as calls for a type do not overlap, pbx_subscribe and           *)
(* pbx_unsubscribe leave, between the calls, at most one subscription      *)
(* allocated for it, the one in its entry of event_map, and free none      *)
(* twice: so it is whatever calls for other types run at the same time,    *)
(* although both functions only read-lock the map they write.              *)
THEOREM SerialExact == Spec => []SerialIsExact
  <1>1. IInv => SerialIsExact
    BY DEF IInv, MapInv, DeadInv, Settled, SerialIsExact
  <1> QED BY <1>1, InitIInv, StepIInv, PTL DEF Spec
=============================================================================
