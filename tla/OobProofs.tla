----------------------------- MODULE OobProofs -----------------------------
(***************************************************************************)
(* The invariants of Oob, for any number of masters, threads and requests. *)
(***************************************************************************)
EXTENDS Oob, TLAPS

(* The points at which a thread has a request, and all of them.            *)
Asking == {"lock"} \cup InCall
Points == {"boot", "get", "idle"} \cup Asking

Msgs == [kind : {"none", "resp", "init"}, id : 0..MaxCalls, from : Masters \cup {None}]
Entries == [kind : {"req"}, id : 1..MaxCalls, from : Masters]
             \cup [kind : {"resp", "init"}, id : 0..MaxCalls, from : Masters]

(***************************************************************************)
(* Types, in parts.                                                        *)
(***************************************************************************)
LockOK ==
  /\ ready \in BOOLEAN /\ pc \in [Threads -> Points]
  /\ owner \in [Masters -> Threads \cup {None}] /\ sem \in [Masters -> 0..1]
  /\ rxOf \in [Masters -> Threads \cup {None}]

QueueOK == queue \in Seq(Entries) /\ Len(queue) <= QueueMax

CallOK ==
  /\ call \in [Threads -> [to : Masters \cup {None}, id : 0..MaxCalls]]
  /\ \A t \in Threads : pc[t] \in Asking => call[t].to \in Masters /\ call[t].id > 0

BufOK == buf \in [Threads -> [len : Nat, msg : Msgs]] /\ ret \in [Threads -> Results]

CountsOK ==
  /\ calls \in 0..MaxCalls /\ pending \in [Masters -> SUBSET (1..MaxCalls)]

Types == LockOK /\ QueueOK /\ CallOK /\ BufOK /\ CountsOK

LEMMA Ground ==
  /\ Oob \in Threads /\ None \notin Threads /\ Oob \notin Clients
  /\ Clients \subseteq Threads /\ Threads = Clients \cup {Oob}
  /\ QueueMax \in Nat /\ MaxCalls \in Nat
  /\ \A s \in Sizes : s \in Nat /\ s > 0
BY OobAssumption DEF Threads

(* The steps one by one.                                                   *)
LEMMA Steps ==
  Next =>
    \/ \E t \in Threads : \/ Lock(t) \/ LockTimeout(t) \/ SendFails(t) \/ Sent(t)
                          \/ WaitTimeout(t) \/ CheckLen(t) \/ Unlock(t) \/ Return(t)
    \/ Boot \/ (\E s \in Sizes : ServeRequest(s)) \/ ServeMaster
    \/ \E t \in Clients, m \in Masters, s \in Sizes : Call(t, m, s)
    \/ \E m \in Masters : SendAsync(m)
    \/ \E m \in Masters, id \in 1..MaxCalls, s \in Sizes : Response(m, id, s)
    \/ \E m \in Masters, s \in Sizes : Initiated(m, s)
BY DEF Next, Caller, OobThread

LEMMA LockStep == LockOK /\ CallOK /\ [Next]_vars => LockOK'
<1> SUFFICES ASSUME LockOK, CallOK, [Next]_vars PROVE LockOK'
  OBVIOUS
<1> USE Ground DEF LockOK, Points, Asking, InCall, Goto, sync, thr
<1>1. ASSUME NEW t \in Threads, Lock(t) PROVE LockOK'
  BY <1>1 DEF CallOK, Lock, ResetSem
<1>2. ASSUME NEW t \in Threads, LockTimeout(t) PROVE LockOK'
  BY <1>2 DEF LockTimeout, AfterCall
<1>3. ASSUME NEW t \in Threads, Unlock(t) \/ Return(t) PROVE LockOK'
  BY <1>3 DEF CallOK, Unlock, Return, GiveSem, AfterCall
<1>4. ASSUME NEW t \in Threads, Sent(t) PROVE LockOK'
  BY <1>4 DEF CallOK, Sent
<1>5. ASSUME NEW t \in Threads, SendFails(t) \/ WaitTimeout(t) \/ CheckLen(t)
      PROVE  LockOK'
  BY <1>5 DEF SendFails, WaitTimeout, CheckLen
<1>6. CASE Boot BY <1>6 DEF Boot
<1>7. CASE \E s \in Sizes : ServeRequest(s) BY <1>7 DEF ServeRequest
<1>8. CASE ServeMaster BY <1>8 DEF ServeMaster
<1>9. ASSUME NEW t \in Clients, NEW m \in Masters, NEW s \in Sizes, Call(t, m, s)
      PROVE  LockOK'
  BY <1>9 DEF Call
<1>10. ASSUME NEW m \in Masters, SendAsync(m) PROVE LockOK'
  BY <1>10 DEF SendAsync
<1>11. ASSUME NEW m \in Masters, NEW id \in 1..MaxCalls, NEW s \in Sizes,
              Response(m, id, s)
       PROVE  LockOK'
  BY <1>11 DEF Response, Route
<1>12. ASSUME NEW m \in Masters, NEW s \in Sizes, Initiated(m, s) PROVE LockOK'
  BY <1>12 DEF Initiated, Route
<1>13. CASE UNCHANGED vars BY <1>13 DEF vars
<1> QED
  BY <1>1, <1>2, <1>3, <1>4, <1>5, <1>6, <1>7, <1>8, <1>9, <1>10, <1>11, <1>12,
     <1>13, Steps

LEMMA QueueStep == QueueOK /\ CountsOK /\ [Next]_vars => QueueOK'
<1> SUFFICES ASSUME QueueOK, CountsOK, [Next]_vars PROVE QueueOK'
  OBVIOUS
<1> USE Ground DEF QueueOK, thr, env
<1>0. ASSUME NEW e \in Entries, Len(queue) < QueueMax
      PROVE  Append(queue, e) \in Seq(Entries) /\ Len(Append(queue, e)) <= QueueMax
  BY <1>0
<1>1. ASSUME NEW t \in Threads,
             \/ Lock(t) \/ LockTimeout(t) \/ SendFails(t) \/ Sent(t)
             \/ WaitTimeout(t) \/ CheckLen(t) \/ Unlock(t) \/ Return(t)
      PROVE  QueueOK'
  BY <1>1 DEF Lock, LockTimeout, SendFails, Sent, WaitTimeout, CheckLen, Unlock, Return
<1>2. CASE Boot BY <1>2 DEF Boot
<1>3. CASE (\E s \in Sizes : ServeRequest(s)) \/ ServeMaster
  BY <1>3 DEF ServeRequest, ServeMaster
<1>4. ASSUME NEW t \in Clients, NEW m \in Masters, NEW s \in Sizes, Call(t, m, s)
      PROVE  QueueOK'
  BY <1>4 DEF Call
<1>5. ASSUME NEW m \in Masters, SendAsync(m) PROVE QueueOK'
  <2>1. [kind |-> "req", id |-> calls + 1, from |-> m] \in Entries
    BY <1>5 DEF SendAsync, CountsOK, Entries
  <2> QED BY <1>5, <1>0, <2>1 DEF SendAsync
<1>6. ASSUME NEW m \in Masters, NEW id \in 1..MaxCalls, NEW s \in Sizes,
             Response(m, id, s)
      PROVE  QueueOK'
  <2>1. [kind |-> "resp", id |-> id, from |-> m] \in Entries
    BY DEF Entries
  <2> QED BY <1>6, <1>0, <2>1 DEF Response, Route
<1>7. ASSUME NEW m \in Masters, NEW s \in Sizes, Initiated(m, s) PROVE QueueOK'
  <2>1. [kind |-> "init", id |-> 0, from |-> m] \in Entries
    BY DEF Entries
  <2> QED BY <1>7, <1>0, <2>1 DEF Initiated, Route
<1>8. CASE UNCHANGED vars BY <1>8 DEF vars
<1> QED BY <1>1, <1>2, <1>3, <1>4, <1>5, <1>6, <1>7, <1>8, Steps

LEMMA CallStep == LockOK /\ QueueOK /\ CallOK /\ CountsOK /\ [Next]_vars => CallOK'
<1> SUFFICES ASSUME LockOK, QueueOK, CallOK, CountsOK, [Next]_vars PROVE CallOK'
  OBVIOUS
<1> USE Ground DEF LockOK, CallOK, Asking, InCall, Goto, thr
<1>1. ASSUME NEW t \in Threads,
             \/ Lock(t) \/ SendFails(t) \/ Sent(t) \/ WaitTimeout(t) \/ CheckLen(t)
             \/ Unlock(t)
      PROVE  CallOK'
  BY <1>1 DEF Lock, SendFails, Sent, WaitTimeout, CheckLen, Unlock
<1>2. ASSUME NEW t \in Threads, LockTimeout(t) \/ Return(t) PROVE CallOK'
  BY <1>2 DEF LockTimeout, Return, AfterCall
<1>3. CASE Boot BY <1>3 DEF Boot
<1>4. ASSUME NEW s \in Sizes, ServeRequest(s) PROVE CallOK'
  <2>1. Head(queue) \in Entries /\ Head(queue).kind = "req"
    BY <1>4 DEF ServeRequest, QueueOK
  <2>2. Head(queue).from \in Masters /\ Head(queue).id \in 1..MaxCalls
    BY <2>1 DEF Entries
  <2> QED BY <1>4, <2>2 DEF ServeRequest
<1>5. CASE ServeMaster BY <1>5 DEF ServeMaster
<1>6. ASSUME NEW t \in Clients, NEW m \in Masters, NEW s \in Sizes, Call(t, m, s)
      PROVE  CallOK'
  BY <1>6 DEF Call, CountsOK
<1>7. ASSUME NEW m \in Masters, SendAsync(m) PROVE CallOK'
  BY <1>7 DEF SendAsync
<1>8. ASSUME NEW m \in Masters, NEW id \in 1..MaxCalls, NEW s \in Sizes,
              Response(m, id, s)
       PROVE  CallOK'
  BY <1>8 DEF Response, Route
<1>9. ASSUME NEW m \in Masters, NEW s \in Sizes, Initiated(m, s) PROVE CallOK'
  BY <1>9 DEF Initiated, Route
<1>10. CASE UNCHANGED vars BY <1>10 DEF vars
<1> QED
  BY <1>1, <1>2, <1>3, <1>4, <1>5, <1>6, <1>7, <1>8, <1>9, <1>10, Steps

LEMMA BufStep == LockOK /\ BufOK /\ [Next]_vars => BufOK'
<1> SUFFICES ASSUME LockOK, BufOK, [Next]_vars PROVE BufOK'
  OBVIOUS
<1> USE Ground DEF BufOK, Results, thr
<1>0. NoMsg \in Msgs
  BY DEF NoMsg, Msgs
<1>1. ASSUME NEW t \in Threads,
             Lock(t) \/ LockTimeout(t) \/ SendFails(t) \/ Sent(t) \/ WaitTimeout(t)
      PROVE  BufOK'
  BY <1>1 DEF Lock, LockTimeout, SendFails, Sent, WaitTimeout
<1>2. ASSUME NEW t \in Threads, CheckLen(t) \/ Unlock(t) \/ Return(t) PROVE BufOK'
  BY <1>2 DEF CheckLen, Unlock, Return
<1>3. CASE Boot BY <1>3 DEF Boot
<1>4. ASSUME NEW s \in Sizes, ServeRequest(s) PROVE BufOK'
  BY <1>0, <1>4 DEF ServeRequest
<1>5. CASE ServeMaster BY <1>5 DEF ServeMaster
<1>6. ASSUME NEW t \in Clients, NEW m \in Masters, NEW s \in Sizes, Call(t, m, s)
      PROVE  BufOK'
  BY <1>0, <1>6 DEF Call
<1>7. ASSUME NEW m \in Masters, SendAsync(m) PROVE BufOK'
  BY <1>7 DEF SendAsync
<1>8. ASSUME NEW m \in Masters, NEW id \in 1..MaxCalls, NEW s \in Sizes,
             Response(m, id, s)
      PROVE  BufOK'
  <2>1. [kind |-> "resp", id |-> id, from |-> m] \in Msgs
    BY DEF Msgs
  <2> QED BY <1>8, <2>1 DEF Response, Route
<1>9. ASSUME NEW m \in Masters, NEW s \in Sizes, Initiated(m, s) PROVE BufOK'
  <2>1. [kind |-> "init", id |-> 0, from |-> m] \in Msgs
    BY DEF Msgs
  <2> QED BY <1>9, <2>1 DEF Initiated, Route
<1>10. CASE UNCHANGED vars BY <1>10 DEF vars
<1> QED
  BY <1>1, <1>2, <1>3, <1>4, <1>5, <1>6, <1>7, <1>8, <1>9, <1>10, Steps

LEMMA CountsStep == LockOK /\ CallOK /\ CountsOK /\ [Next]_vars => CountsOK'
<1> SUFFICES ASSUME LockOK, CallOK, CountsOK, [Next]_vars PROVE CountsOK'
  OBVIOUS
<1> USE Ground DEF CountsOK, env
<1>1. ASSUME NEW t \in Threads,
             \/ Lock(t) \/ LockTimeout(t) \/ SendFails(t) \/ WaitTimeout(t)
             \/ CheckLen(t) \/ Unlock(t) \/ Return(t)
      PROVE  CountsOK'
  BY <1>1 DEF Lock, LockTimeout, SendFails, WaitTimeout, CheckLen, Unlock, Return
<1>2. ASSUME NEW t \in Threads, Sent(t) PROVE CountsOK'
  <2>1. call[t].to \in Masters /\ call[t].id \in 1..MaxCalls
    BY <1>2 DEF Sent, Goto, CallOK, Asking, InCall
  <2> QED BY <1>2, <2>1 DEF Sent
<1>3. CASE Boot \/ (\E s \in Sizes : ServeRequest(s)) \/ ServeMaster
  BY <1>3 DEF Boot, ServeRequest, ServeMaster
<1>4. ASSUME NEW t \in Clients, NEW m \in Masters, NEW s \in Sizes, Call(t, m, s)
      PROVE  CountsOK'
  BY <1>4 DEF Call
<1>5. ASSUME NEW m \in Masters, SendAsync(m) PROVE CountsOK'
  BY <1>5 DEF SendAsync
<1>6. ASSUME NEW m \in Masters, NEW id \in 1..MaxCalls, NEW s \in Sizes,
             Response(m, id, s)
      PROVE  CountsOK'
  BY <1>6 DEF Response
<1>7. ASSUME NEW m \in Masters, NEW s \in Sizes, Initiated(m, s) PROVE CountsOK'
  BY <1>7 DEF Initiated
<1>8. CASE UNCHANGED vars BY <1>8 DEF vars
<1> QED BY <1>1, <1>2, <1>3, <1>4, <1>5, <1>6, <1>7, <1>8, Steps

LEMMA TypesInductive == Spec => []Types
<1>1. Init => LockOK
  <2>1. Init => ready \in BOOLEAN
    BY DEF Init
  <2>2. Init => pc \in [Threads -> Points]
    BY Ground DEF Init, Points, Asking, InCall
  <2>3. Init => /\ owner \in [Masters -> Threads \cup {None}]
                /\ sem \in [Masters -> 0..1]
                /\ rxOf \in [Masters -> Threads \cup {None}]
    BY DEF Init
  <2> QED BY <2>1, <2>2, <2>3 DEF LockOK
<1>2. Init => QueueOK
  <2>1. << >> \in Seq(Entries) /\ Len(<< >>) = 0
    OBVIOUS
  <2>2. Init => queue = << >>
    BY DEF Init
  <2> QED BY <2>1, <2>2, Ground DEF QueueOK
<1>3. Init => CallOK
  BY Ground DEF Init, CallOK, Asking, InCall
<1>4. Init => BufOK
  BY Ground DEF Init, BufOK, NoMsg, Msgs, Results
<1>5. Init => CountsOK
  BY Ground DEF Init, CountsOK
<1>6. Types /\ [Next]_vars => Types'
  BY LockStep, QueueStep, CallStep, BufStep, CountsStep DEF Types
<1> QED BY <1>1, <1>2, <1>3, <1>4, <1>5, <1>6, PTL DEF Spec, Types

-----------------------------------------------------------------------------
(***************************************************************************)
(* Who owns a master.  A thread between k_sem_reset() and its return is    *)
(* the one master->rx points to, and holds txn_lock of its master until    *)
(* k_mutex_unlock(); a lock that is held is held by such a thread; the     *)
(* semaphore of a free master is given, so that what comes is queued, but  *)
(* between the unlock and k_sem_give(), when nobody holds the lock.        *)
(* Before oobmngr_init() nobody calls and nothing is outstanding.          *)
(***************************************************************************)
Holds ==
  \A t \in Threads :
    pc[t] \in InCall => /\ rxOf[call[t].to] = t
                        /\ owner[call[t].to] = IF pc[t] = "give" THEN None ELSE t

HeldByCaller ==
  \A m \in Masters :
    owner[m] # None => /\ pc[owner[m]] \in InCall /\ pc[owner[m]] # "give"
                       /\ call[owner[m]].to = m

FreeIsGiven ==
  \A m \in Masters :
    ready /\ owner[m] = None =>
      sem[m] = 1 \/ \E t \in Threads : pc[t] = "give" /\ call[t].to = m

BeforeInit ==
  /\ ~ready => /\ \A t \in Threads : pc[t] = IF t = Oob THEN "boot" ELSE "idle"
               /\ \A m \in Masters : owner[m] = None /\ pending[m] = {}
  /\ ready => pc[Oob] # "boot"

Owned == Holds /\ HeldByCaller /\ FreeIsGiven /\ BeforeInit

LEMMA OwnedStep == Types /\ Owned /\ [Next]_vars => Owned'
<1> SUFFICES ASSUME Types, Owned, [Next]_vars PROVE Owned'
  OBVIOUS
<1> USE Ground DEF Types, LockOK, CallOK, Asking, InCall, Goto, Owned, Holds, HeldByCaller,
               FreeIsGiven, BeforeInit, sync, thr, env
<1>1. ASSUME NEW t \in Threads, Lock(t) PROVE Owned'
  BY <1>1 DEF Lock, LockFree, ResetSem
<1>2. ASSUME NEW t \in Threads, LockTimeout(t) PROVE Owned'
  BY <1>2 DEF LockTimeout, AfterCall
<1>3. ASSUME NEW t \in Threads, Unlock(t) PROVE Owned'
  BY <1>3 DEF Unlock
<1>3a. ASSUME NEW t \in Threads, Return(t) PROVE Owned'
  BY <1>3a DEF Return, GiveSem, AfterCall
<1>4. ASSUME NEW t \in Threads, Sent(t) PROVE Owned'
  BY <1>4 DEF Sent
<1>5. ASSUME NEW t \in Threads, SendFails(t) \/ WaitTimeout(t) \/ CheckLen(t)
      PROVE  Owned'
  BY <1>5 DEF SendFails, WaitTimeout, CheckLen
<1>6. CASE Boot BY <1>6 DEF Boot
<1>7. ASSUME NEW s \in Sizes, ServeRequest(s) PROVE Owned'
  BY <1>7 DEF ServeRequest
<1>8. CASE ServeMaster BY <1>8 DEF ServeMaster
<1>9. ASSUME NEW t \in Clients, NEW m \in Masters, NEW s \in Sizes, Call(t, m, s)
      PROVE  Owned'
  BY <1>9 DEF Call
<1>10. ASSUME NEW m \in Masters, SendAsync(m) PROVE Owned'
  BY <1>10 DEF SendAsync
<1>11. ASSUME NEW m \in Masters, NEW id \in 1..MaxCalls, NEW s \in Sizes,
              Response(m, id, s)
       PROVE  Owned'
  BY <1>11 DEF Response, Route, CountsOK
<1>12. ASSUME NEW m \in Masters, NEW s \in Sizes, Initiated(m, s) PROVE Owned'
  BY <1>12 DEF Initiated, Route
<1>13. CASE UNCHANGED vars BY <1>13 DEF vars
<1> QED
  BY <1>1, <1>2, <1>3, <1>3a, <1>4, <1>5, <1>6, <1>7, <1>8, <1>9, <1>10, <1>11, <1>12,
     <1>13, Steps

-----------------------------------------------------------------------------
(***************************************************************************)
(* What the packet of a caller holds.  Once the semaphore has been given   *)
(* during the call, the packet is marked too small or holds a message of   *)
(* the master it asked.                                                    *)
(***************************************************************************)
FromMaster(t) == buf[t].len > 0 => buf[t].msg.from = call[t].to

PacketOf(t) ==
  /\ pc[t] = "sending" /\ sem[call[t].to] = 1 => FromMaster(t)
  /\ pc[t] = "woken" => FromMaster(t)
  /\ pc[t] \in {"done", "give"} /\ ret[t] = "ok" => buf[t].msg.from = call[t].to

Packets == \A t \in Threads : PacketOf(t)

(* What oob_rx_handler() leaves in the packets.                            *)
LEMMA RouteKeeps ==
  ASSUME Types, Owned, Packets, NEW m \in Masters, NEW msg \in Msgs, msg.from = m,
         NEW size \in Sizes, Route(m, msg, size), UNCHANGED <<call, ret>>
  PROVE  Packets'
<1> SUFFICES ASSUME NEW t \in Threads PROVE PacketOf(t)'
  BY DEF Packets
<1> USE Ground DEF Types, LockOK, CallOK, BufOK, Asking, InCall
<1>1. PacketOf(t)
  BY DEF Packets
<1>2. CASE sem[m] = 1
  BY <1>1, <1>2 DEF Route, PacketOf, FromMaster
<1>3. CASE sem[m] # 1 /\ rxOf[m] = t
  <2>1. buf'[t] = IF buf[t].len >= size THEN [len |-> size, msg |-> msg]
                  ELSE [buf[t] EXCEPT !.len = 0]
    BY <1>3 DEF Route
  <2>2. CASE call[t].to = m
    <3>1. FromMaster(t)'
      BY <2>1, <2>2 DEF FromMaster, Msgs
    <3>2. buf[t].msg.from = m => buf'[t].msg.from = m
      BY <2>1
    <3>3. pc'[t] \in {"done", "give"} => pc[t] = pc'[t]
      BY <1>3 DEF Route
    <3> QED BY <1>1, <2>2, <3>1, <3>2, <3>3 DEF PacketOf
  <2>3. CASE call[t].to # m
    <3>1. pc[t] \notin InCall
      BY <1>3, <2>3 DEF Owned, Holds, HeldByCaller, FreeIsGiven, BeforeInit
    <3> QED BY <1>3, <2>3, <3>1 DEF Route, PacketOf
  <2> QED BY <2>2, <2>3
<1>4. CASE sem[m] # 1 /\ rxOf[m] # t
  <2>1. buf'[t] = buf[t]
    BY <1>4 DEF Route
  <2>2. pc[t] \in InCall => call[t].to # m
    BY <1>4 DEF Owned, Holds
  <2>3. pc'[t] = pc[t]
    BY <1>4, <2>2 DEF Route
  <2>4. pc[t] \in InCall => sem'[call[t].to] = sem[call[t].to]
    BY <1>4, <2>2 DEF Route
  <2> QED BY <1>1, <2>1, <2>3, <2>4 DEF PacketOf, FromMaster
<1> QED BY <1>2, <1>3, <1>4

LEMMA PacketsStep == Types /\ Owned /\ Packets /\ [Next]_vars => Packets'
<1> SUFFICES ASSUME Types, Owned, Packets, [Next]_vars PROVE Packets'
  OBVIOUS
<1> USE Ground DEF Types, LockOK, CallOK, BufOK, Asking, InCall, Goto, Packets, PacketOf,
               FromMaster, sync, thr, env
<1>1. ASSUME NEW t \in Threads, Lock(t) PROVE Packets'
  BY <1>1 DEF Lock, ResetSem
<1>2. ASSUME NEW t \in Threads, LockTimeout(t) PROVE Packets'
  BY <1>2 DEF LockTimeout, AfterCall
<1>3. ASSUME NEW t \in Threads, Return(t) PROVE Packets'
  <2>1. \A u \in Threads \ {t} : pc[u] \in InCall => call[u].to # call[t].to
    BY <1>3 DEF Return, Owned, Holds
  <2>2. /\ pc'[t] \notin InCall /\ \A u \in Threads \ {t} : pc'[u] = pc[u]
        /\ \A m \in Masters \ {call[t].to} : sem'[m] = sem[m]
        /\ \A u \in Threads \ {t} : ret'[u] = ret[u]
        /\ UNCHANGED <<call, buf>>
    BY <1>3 DEF Return, GiveSem, AfterCall
  <2> QED BY <2>1, <2>2
<1>4. ASSUME NEW t \in Threads, Sent(t) PROVE Packets'
  BY <1>4 DEF Sent
<1>5. ASSUME NEW t \in Threads, SendFails(t) \/ WaitTimeout(t) \/ Unlock(t) PROVE Packets'
  BY <1>5 DEF SendFails, WaitTimeout, Unlock, Results
<1>6. ASSUME NEW t \in Threads, CheckLen(t) PROVE Packets'
  BY <1>6 DEF CheckLen
<1>7. CASE Boot BY <1>7 DEF Boot, Owned, BeforeInit
<1>8. ASSUME NEW s \in Sizes, ServeRequest(s) PROVE Packets'
  BY <1>8 DEF ServeRequest
<1>9. CASE ServeMaster BY <1>9 DEF ServeMaster
<1>10. ASSUME NEW t \in Clients, NEW m \in Masters, NEW s \in Sizes, Call(t, m, s)
       PROVE  Packets'
  BY <1>10 DEF Call
<1>11. ASSUME NEW m \in Masters, SendAsync(m) PROVE Packets'
  BY <1>11 DEF SendAsync
<1>12. ASSUME NEW m \in Masters, NEW id \in 1..MaxCalls, NEW s \in Sizes,
              Response(m, id, s)
       PROVE  Packets'
  <2>1. [kind |-> "resp", id |-> id, from |-> m] \in Msgs
    BY DEF Msgs
  <2> QED BY <1>12, <2>1, RouteKeeps DEF Response
<1>13. ASSUME NEW m \in Masters, NEW s \in Sizes, Initiated(m, s) PROVE Packets'
  <2>1. [kind |-> "init", id |-> 0, from |-> m] \in Msgs
    BY DEF Msgs
  <2> QED BY <1>13, <2>1, RouteKeeps DEF Initiated
<1>14. CASE UNCHANGED vars BY <1>14 DEF vars
<1> QED
  BY <1>1, <1>2, <1>3, <1>4, <1>5, <1>6, <1>7, <1>8, <1>9, <1>10, <1>11, <1>12,
     <1>13, <1>14, Steps

LEMMA Inductive == Spec => [](Owned /\ Packets)
<1>1. Init => Owned
  BY Ground DEF Init, Owned, Holds, HeldByCaller, FreeIsGiven, BeforeInit, InCall
<1>2. Init => Packets
  BY Ground DEF Init, Packets, PacketOf
<1>3. Types /\ Owned /\ [Next]_vars => Owned'
  BY OwnedStep
<1>4. Types /\ Owned /\ Packets /\ [Next]_vars => Packets'
  BY PacketsStep
<1> QED BY <1>1, <1>2, <1>3, <1>4, TypesInductive, PTL DEF Spec

(* The types, and mutual exclusion: at most one thread is between the      *)
(* reset of a master's semaphore and its return (espioob_mngr.c:189-217).  *)
THEOREM OobTypes == Spec => []TypeOK
<1>1. Types /\ Owned => TypeOK
  BY DEF Types, LockOK, QueueOK, CallOK, BufOK, CountsOK, TypeOK, Points, Asking,
         Owned, Holds
<1> QED BY <1>1, TypesInductive, Inductive, PTL

(* A call returns success only with a message of its own master that came  *)
(* during the call, whatever is late, lost, too long or unsolicited        *)
(* (oob_send_sync(), espioob_mngr.c:153-217).                              *)
THEOREM SuccessMeansAnswer == Spec => []AnswerArrived
<1>1. Types /\ Packets => AnswerArrived
  BY DEF AnswerArrived, Packets, PacketOf
<1> QED BY <1>1, TypesInductive, Inductive, PTL

(* The receive handler writes into a caller's packet only while that       *)
(* caller is in its call, if no master sends before oobmngr_init() has     *)
(* given the semaphores (oob_rx_handler(), espioob_mngr.c:303-370).        *)
THEOREM PacketsAreOwn ==
  ASSUME EarlyRx = FALSE
  PROVE  Spec => []NoStrayCopy
<1>1. Init => NoStrayCopy
  BY DEF Init, NoStrayCopy
<1>2. Types /\ Owned /\ NoStrayCopy /\ [Next]_vars => NoStrayCopy'
  <2> SUFFICES ASSUME Types, Owned, NoStrayCopy, [Next]_vars PROVE NoStrayCopy'
    OBVIOUS
  <2> USE Ground DEF NoStrayCopy, aux
  <2>1. ASSUME NEW m \in Masters, ready, sem[m] # 1 PROVE CallOf(m) # {}
    <3>1. PICK t \in Threads : pc[t] \in InCall /\ call[t].to = m
      <4>1. CASE owner[m] = None
        BY <2>1, <4>1 DEF Owned, FreeIsGiven, InCall
      <4>2. CASE owner[m] # None
        BY <4>2 DEF Types, LockOK, Owned, HeldByCaller
      <4> QED BY <4>1, <4>2
    <3>2. rxOf[m] = t BY <3>1 DEF Owned, Holds
    <3> QED BY <3>1, <3>2 DEF CallOf
  <2>2. ASSUME NEW m \in Masters, NEW msg, NEW size, ready, Route(m, msg, size)
        PROVE  ~stray'
    BY <2>1, <2>2 DEF Route
  <2>3. ASSUME NEW t \in Threads,
               \/ Lock(t) \/ LockTimeout(t) \/ SendFails(t) \/ Sent(t)
               \/ WaitTimeout(t) \/ CheckLen(t) \/ Unlock(t) \/ Return(t)
        PROVE  ~stray'
    BY <2>3 DEF Lock, LockTimeout, SendFails, Sent, WaitTimeout, CheckLen, Unlock, Return
  <2>4. CASE Boot \/ (\E s \in Sizes : ServeRequest(s)) \/ ServeMaster
    BY <2>4 DEF Boot, ServeRequest, ServeMaster
  <2>5. ASSUME NEW t \in Clients, NEW m \in Masters, NEW s \in Sizes, Call(t, m, s)
        PROVE  ~stray'
    BY <2>5 DEF Call
  <2>6. ASSUME NEW m \in Masters, SendAsync(m) PROVE ~stray'
    BY <2>6 DEF SendAsync
  <2>7. ASSUME NEW m \in Masters, NEW id \in 1..MaxCalls, NEW s \in Sizes,
               Response(m, id, s)
        PROVE  ~stray'
    BY <2>2, <2>7 DEF Response, Types, LockOK, Owned, BeforeInit
  <2>8. ASSUME NEW m \in Masters, NEW s \in Sizes, Initiated(m, s) PROVE ~stray'
    BY <2>2, <2>8 DEF Initiated
  <2>9. CASE UNCHANGED vars BY <2>9 DEF vars
  <2> QED BY <2>3, <2>4, <2>5, <2>6, <2>7, <2>8, <2>9, Steps
<1> QED BY <1>1, <1>2, TypesInductive, Inductive, PTL DEF Spec
=============================================================================
