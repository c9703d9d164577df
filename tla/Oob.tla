-------------------------------- MODULE Oob --------------------------------
(***************************************************************************)
(* The eSPI out-of-band manager, drivers/espioob_mngr.c: threads send a    *)
(* request to a master and wait for its response, the OOB thread serves    *)
(* the queue of asynchronous requests and of messages the masters sent on  *)
(* their own, and oob_rx_handler() routes what arrives.  The handler runs  *)
(* as in an interrupt, between any two steps (when the receive callback is *)
(* configured out, the PWR thread polls and fewer interleavings exist).    *)
(*                                                                         *)
(* A message is [kind, id, from]: a response carries the id of its         *)
(* request, a message a master initiated has id 0.                         *)
(***************************************************************************)
EXTENDS Naturals, Sequences

CONSTANTS
  Masters,    (* masters with a registered handler: PMC, CSME               *)
  Clients,    (* threads that call oob_send_sync()                          *)
  Oob,        (* the OOB thread                                             *)
  None,
  QueueMax,   (* ASYNC_MSGQ_MAX_MSGS                                        *)
  Sizes,      (* sizes of received packets and of response buffers          *)
  EarlyRx,    (* a message may arrive before oobmngr_init()                 *)
  MaxCalls,   (* bound: requests                                            *)
  MaxInits    (* bound: messages initiated by the masters                   *)

ASSUME OobAssumption ==
  /\ Oob \notin Clients /\ None \notin Clients \cup {Oob}
  /\ QueueMax \in Nat \ {0} /\ Sizes \subseteq Nat \ {0} /\ Sizes # {}
  /\ EarlyRx \in BOOLEAN
  /\ MaxCalls \in Nat /\ MaxInits \in Nat

Threads == Clients \cup {Oob}
Results == {"ok", "timeout", "nobufs", "eio", "ebusy"}

VARIABLES
  ready,     (* oobmngr_init() has run                                       *)
  owner,     (* per master: holder of txn_lock                               *)
  sem,       (* per master: count of txn_sync                                *)
  rxOf,      (* per master: the thread whose packet master->rx points to     *)
  pc,        (* per thread                                                   *)
  call,      (* per thread: its request, [to, id]                            *)
  buf,       (* per thread: response packet, [len, msg]                      *)
  ret,       (* per thread: return value                                     *)
  queue,     (* async_msgq                                                   *)
  (* the masters *)
  pending,   (* per master: requests it has not answered                     *)
  calls, inits,   (* requests and initiated messages so far                  *)
  (* auxiliary *)
  stray,     (* a message was copied through master->rx outside any call     *)
  asked, answered   (* asynchronous requests accepted, and called back       *)

sync == <<owner, sem, rxOf>>
thr  == <<pc, call, buf, ret>>
env  == <<pending, calls, inits>>
aux  == <<stray, asked, answered>>
vars == <<ready, sync, thr, queue, env, aux>>

NoMsg == [kind |-> "none", id |-> 0, from |-> None]
(* The points between k_sem_reset() and the return of oob_send_sync() *)
InCall == {"sending", "wait", "woken", "done", "give"}

Init ==
  /\ ready = FALSE
  /\ owner = [m \in Masters |-> None]
  /\ sem = [m \in Masters |-> 0] /\ rxOf = [m \in Masters |-> None]
  /\ pc = [t \in Threads |-> IF t = Oob THEN "boot" ELSE "idle"]
  /\ call = [t \in Threads |-> [to |-> None, id |-> 0]]
  /\ buf = [t \in Threads |-> [len |-> 0, msg |-> NoMsg]]
  /\ ret = [t \in Threads |-> "ok"]
  /\ queue = << >>
  /\ pending = [m \in Masters |-> {}] /\ calls = 0 /\ inits = 0
  /\ stray = FALSE /\ asked = {} /\ answered = {}

-----------------------------------------------------------------------------
(* oob_send_sync() *)

Goto(t, p, q) == pc[t] = p /\ pc' = [pc EXCEPT ![t] = q]

(* Thread t calls it; the packet was verified. *)
Call(t, m, size) ==
  /\ ready /\ calls < MaxCalls
  /\ Goto(t, "idle", "lock")
  /\ calls' = calls + 1
  /\ call' = [call EXCEPT ![t] = [to |-> m, id |-> calls + 1]]
  /\ buf' = [buf EXCEPT ![t] = [len |-> size, msg |-> NoMsg]]
  /\ UNCHANGED <<ready, sync, ret, queue, pending, inits, aux>>

LockFree(m) == owner[m] = None

(* Faulty variant: the semaphore is not reset. *)
NoReset(m) == sem

ResetSem(m) == [sem EXCEPT ![m] = 0]

(* txn_lock is free: the packets are set and txn_sync is reset.  The       *)
(* threads are cooperative: none runs between k_mutex_unlock() and         *)
(* k_sem_give() of another.                                                *)
Lock(t) ==
  LET m == call[t].to IN
  /\ Goto(t, "lock", "sending")
  /\ LockFree(m) /\ \A u \in Threads : pc[u] # "give"
  /\ owner' = [owner EXCEPT ![m] = t]
  /\ rxOf' = [rxOf EXCEPT ![m] = t]
  /\ sem' = ResetSem(m)
  /\ UNCHANGED <<ready, call, buf, ret, queue, env, aux>>

(* Faulty variant: only successful requests are called back.               *)
AfterCallOnSuccess(t, r) ==
  IF t = Oob
  THEN /\ pc' = [pc EXCEPT ![t] = "get"]
       /\ answered' = IF r = "ok" THEN answered \cup {call[t].id} ELSE answered
  ELSE pc' = [pc EXCEPT ![t] = "idle"] /\ UNCHANGED answered

(* The caller goes on with the result; the OOB thread calls back.          *)
AfterCall(t, r) ==
  IF t = Oob
  THEN /\ pc' = [pc EXCEPT ![t] = "get"]
       /\ answered' = answered \cup {call[t].id}
  ELSE pc' = [pc EXCEPT ![t] = "idle"] /\ UNCHANGED answered

(* The lock was not free for MIN_WAIT_TIME_FOR_OOB_IN_MS. *)
LockTimeout(t) ==
  /\ pc[t] = "lock" /\ ~LockFree(call[t].to)
  /\ ret' = [ret EXCEPT ![t] = "ebusy"]
  /\ AfterCall(t, "ebusy")
  /\ UNCHANGED <<ready, sync, call, buf, queue, env, stray, asked>>

SendFails(t) ==
  /\ Goto(t, "sending", "done")
  /\ ret' = [ret EXCEPT ![t] = "eio"]
  /\ UNCHANGED <<ready, sync, call, buf, queue, env, aux>>

(* The request is out.  k_sem_take() blocks unless the count is 1 already. *)
Sent(t) ==
  LET m == call[t].to IN
  /\ Goto(t, "sending", IF sem[m] = 1 THEN "woken" ELSE "wait")
  /\ sem' = [sem EXCEPT ![m] = 0]
  /\ pending' = [pending EXCEPT ![m] = @ \cup {call[t].id}]
  /\ UNCHANGED <<ready, owner, rxOf, call, buf, ret, queue, calls, inits, aux>>

WaitTimeout(t) ==
  /\ Goto(t, "wait", "done")
  /\ ret' = [ret EXCEPT ![t] = "timeout"]
  /\ UNCHANGED <<ready, sync, call, buf, queue, env, aux>>

(* A length of 0 says that the response did not fit. *)
CheckLen(t) ==
  /\ Goto(t, "woken", "done")
  /\ ret' = [ret EXCEPT ![t] = IF buf[t].len > 0 THEN "ok" ELSE "nobufs"]
  /\ UNCHANGED <<ready, sync, call, buf, queue, env, aux>>

(* k_mutex_unlock(); a message may still come before the next step, into   *)
(* the packet of the call that ends.                                       *)
Unlock(t) ==
  /\ Goto(t, "done", "give")
  /\ owner' = [owner EXCEPT ![call[t].to] = None]
  /\ UNCHANGED <<ready, sem, rxOf, call, buf, ret, queue, env, aux>>

(* Faulty variant: the semaphore stays taken.                              *)
StaysTaken(m) == sem

GiveSem(m) == [sem EXCEPT ![m] = 1]

(* k_sem_give(), and the return *)
Return(t) ==
  /\ pc[t] = "give"
  /\ sem' = GiveSem(call[t].to)
  /\ AfterCall(t, ret[t])
  /\ UNCHANGED <<ready, owner, rxOf, call, buf, ret, queue, env, stray, asked>>

-----------------------------------------------------------------------------
(* oob_send_async(), from a thread or an interrupt: k_msgq_put(K_NO_WAIT) *)
SendAsync(m) ==
  /\ calls < MaxCalls
  /\ calls' = calls + 1
  /\ IF Len(queue) < QueueMax
     THEN /\ queue' = Append(queue, [kind |-> "req", id |-> calls + 1, from |-> m])
          /\ asked' = asked \cup {calls + 1}
     ELSE UNCHANGED <<queue, asked>>
  /\ UNCHANGED <<ready, sync, thr, pending, inits, stray, answered>>

(* The OOB thread *)
Boot ==
  /\ Goto(Oob, "boot", "get")
  /\ ready' = TRUE
  /\ sem' = [m \in Masters |-> 1]
  /\ UNCHANGED <<owner, rxOf, call, buf, ret, queue, env, aux>>

(* Sent to by the EC: "from" is the destination of such an entry.  Request *)
(* and response share the message buffer, which has the largest size.      *)
ServeRequest(size) ==
  /\ queue # << >> /\ Head(queue).kind = "req"
  /\ Goto(Oob, "get", "lock")
  /\ queue' = Tail(queue)
  /\ call' = [call EXCEPT ![Oob] = [to |-> Head(queue).from, id |-> Head(queue).id]]
  /\ \A s \in Sizes : s <= size
  /\ buf' = [buf EXCEPT ![Oob] = [len |-> size, msg |-> NoMsg]]
  /\ UNCHANGED <<ready, sync, ret, env, aux>>

(* Sent by a master: its registered handler, if any, is called.            *)
ServeMaster ==
  /\ queue # << >> /\ Head(queue).kind # "req"
  /\ pc[Oob] = "get"
  /\ queue' = Tail(queue)
  /\ UNCHANGED <<ready, sync, thr, env, aux>>

-----------------------------------------------------------------------------
(* oob_rx_handler() *)

(* The call in progress that master->rx belongs to *)
CallOf(m) == {t \in Threads : rxOf[m] = t /\ call[t].to = m /\ pc[t] \in InCall}

Route(m, msg, size) ==
  IF sem[m] = 1
  THEN /\ queue' = IF Len(queue) < QueueMax THEN Append(queue, msg) ELSE queue
       /\ UNCHANGED <<sem, pc, buf, stray>>
  ELSE /\ stray' = (stray \/ CallOf(m) = {})
       /\ buf' = [t \in Threads |->
                   IF t # rxOf[m] THEN buf[t]
                   ELSE IF buf[t].len >= size THEN [len |-> size, msg |-> msg]
                   ELSE [buf[t] EXCEPT !.len = 0]]
       /\ IF \E t \in Threads : call[t].to = m /\ pc[t] = "wait"
          THEN /\ pc' = [t \in Threads |->
                          IF call[t].to = m /\ pc[t] = "wait" THEN "woken"
                          ELSE pc[t]]
               /\ UNCHANGED sem
          ELSE sem' = [sem EXCEPT ![m] = 1] /\ UNCHANGED pc
       /\ UNCHANGED queue

(* A response may come long after its request has timed out, or never.     *)
Response(m, id, size) ==
  /\ id \in pending[m]
  /\ pending' = [pending EXCEPT ![m] = @ \ {id}]
  /\ Route(m, [kind |-> "resp", id |-> id, from |-> m], size)
  /\ UNCHANGED <<ready, owner, rxOf, call, ret, calls, inits, asked,
                 answered>>

Initiated(m, size) ==
  /\ inits < MaxInits /\ (ready \/ EarlyRx)
  /\ inits' = inits + 1
  /\ Route(m, [kind |-> "init", id |-> 0, from |-> m], size)
  /\ UNCHANGED <<ready, owner, rxOf, call, ret, pending, calls, asked,
                 answered>>

-----------------------------------------------------------------------------
Caller(t) == \/ Lock(t) \/ LockTimeout(t) \/ SendFails(t) \/ Sent(t)
             \/ WaitTimeout(t) \/ CheckLen(t) \/ Unlock(t) \/ Return(t)
OobThread == Boot \/ (\E s \in Sizes : ServeRequest(s)) \/ ServeMaster

Next ==
  \/ \E t \in Threads : Caller(t)
  \/ OobThread
  \/ \E t \in Clients, m \in Masters, s \in Sizes : Call(t, m, s)
  \/ \E m \in Masters : SendAsync(m)
  \/ \E m \in Masters, id \in 1..MaxCalls, s \in Sizes : Response(m, id, s)
  \/ \E m \in Masters, s \in Sizes : Initiated(m, s)

Spec == Init /\ [][Next]_vars

(* Every ready thread runs; timed waits end. *)
FairSpec ==
  Spec /\ WF_vars(OobThread) /\ \A t \in Threads : WF_vars(Caller(t))

-----------------------------------------------------------------------------
(* Types; at most one thread waits on a master's semaphore. *)
TypeOK ==
  /\ ready \in BOOLEAN /\ owner \in [Masters -> Threads \cup {None}]
  /\ sem \in [Masters -> 0..1] /\ rxOf \in [Masters -> Threads \cup {None}]
  /\ pc \in [Threads -> {"boot", "get", "idle", "lock"} \cup InCall]
  /\ ret \in [Threads -> Results]
  /\ Len(queue) <= QueueMax
  /\ \A m \in Masters : pending[m] \subseteq 1..MaxCalls
  /\ \A m \in Masters :
       \A t, u \in Threads :
         pc[t] \in InCall /\ pc[u] \in InCall /\ call[t].to = m /\ call[u].to = m
         => t = u

(* The response packet lives on the caller's stack: the receive handler    *)
(* never writes through master->rx but during a call that set it, whatever *)
(* arrives late, early or twice, and however the call ended.               *)
NoStrayCopy == ~stray

(* A call returns 0 only if a message of its master came during the call:  *)
(* never for a count an earlier call, a timeout or a late message left.    *)
(* (That the message is the response to this request the code cannot tell  *)
(* from one the master sent late or on its own.)                           *)
AnswerArrived ==
  \A t \in Threads :
    pc[t] \in {"done", "give"} /\ ret[t] = "ok" => buf[t].msg.from = call[t].to

(* Each asynchronous request that was accepted is called back, with a      *)
(* response or an error, however long the threads compete for the lock.    *)
AsyncAnswered ==
  \A id \in 1..MaxCalls : id \in asked ~> id \in answered
=============================================================================
