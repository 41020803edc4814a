----------------------------- MODULE ParkingLot -----------------------------
(***************************************************************************)
(* WTF::ParkingLot (Source/WTF/wtf/ParkingLot.h and ParkingLot.cpp): the   *)
(* state of the parking lot and the steps of parkConditionally(),          *)
(* unparkOne() and unparkAll(), as operators that its clients compose into *)
(* their own actions: ParkingLotClient, Lock and Condition.                *)
(*                                                                         *)
(* An address hashes to a bucket, and one bucket may serve several         *)
(* addresses.  A bucket is a FIFO queue under a WordLock.  The code that   *)
(* runs with the bucket's lock held is one step here: WordLock is a mutex  *)
(* (module WordLock), and each of those critical sections makes at most    *)
(* one access to state that the bucket's lock does not protect.  Which     *)
(* table the bucket is in while the table grows is ParkingLotTable's       *)
(* subject.                                                                *)
(***************************************************************************)
EXTENDS Queues

CONSTANTS Threads,       \* the threads; a thread stands for its ThreadData
          Null,          \* the null address
          Buckets,       \* the buckets of the hashtable
          bucketOf,      \* hashAddress(address) % size: address -> bucket
          TimedThreads   \* the threads that park with a finite timeout

Addresses == DOMAIN bucketOf

ASSUME ParkingLotAssumption ==
    /\ bucketOf \in [Addresses -> Buckets]
    /\ Null \notin Addresses \cup Threads
    /\ TimedThreads \subseteq Threads

VARIABLES bucket,     \* the queue of each bucket
          address,    \* ThreadData::address
          pc,         \* where each thread is
          parkedAt,   \* the address argument of its parkConditionally(), or Null
          result,     \* what that parkConditionally() returns
          leftBy,     \* history: who took the thread off the queue last
          woken,      \* the threads its unpark call has dequeued and not yet notified
          ret         \* where the thread goes on when its unpark call returns
                      \* ("idle" when there is no such call)

lotVars == <<bucket, address, parkedAt, result, leftBy, woken, ret>>

LotPC == {"beforeSleep", "sleep", "blocked", "dequeueSelf", "clearSelf", "unparked",
          "clear", "notify"}

LotInit ==
    /\ bucket = [b \in Buckets |-> <<>>]
    /\ address = [t \in Threads |-> Null]
    /\ parkedAt = [t \in Threads |-> Null]
    /\ result = [t \in Threads |-> FALSE]
    /\ leftBy = [t \in Threads |-> "nobody"]
    /\ woken = [t \in Threads |-> <<>>]
    /\ ret = [t \in Threads |-> "idle"]

Goto(t, label) == pc' = [pc EXCEPT ![t] = label]

-----------------------------------------------------------------------------
(* parkConditionally() *)

(* The enqueue() critical section, once validation has returned true. *)
EnqueueAt(t, a) ==
    /\ address' = [address EXCEPT ![t] = a]
    /\ bucket' = [bucket EXCEPT ![bucketOf[a]] = Append(@, t)]
    /\ parkedAt' = [parkedAt EXCEPT ![t] = a]
    /\ leftBy' = [leftBy EXCEPT ![t] = "nobody"]
    /\ UNCHANGED <<result, woken, ret>>

(* The test of the sleep loop and what follows it, under parkingLock.  The *)
(* timeout is in the future or in the past, as it pleases.                 *)
Sleep(t) ==
    /\ pc[t] = "sleep"
    /\ \/ /\ address[t] = Null
          /\ result' = [result EXCEPT ![t] = TRUE]
          /\ Goto(t, "unparked")
       \/ /\ address[t] # Null
          /\ Goto(t, "blocked")
          /\ UNCHANGED result
    /\ UNCHANGED <<bucket, address, parkedAt, leftBy, woken, ret>>

TimedOut(t) ==
    /\ pc[t] = "sleep" /\ t \in TimedThreads
    /\ address[t] # Null
    /\ Goto(t, "dequeueSelf")
    /\ UNCHANGED lotVars

(* Mutant of WakeUp: `if' instead of `while' in the sleep loop. *)
WakeUpAndReturn(t) ==
    /\ pc[t] = "blocked"
    /\ result' = [result EXCEPT ![t] = TRUE]
    /\ Goto(t, "unparked")
    /\ UNCHANGED <<bucket, address, parkedAt, leftBy, woken, ret>>

(* The system's condition variable wakes a waiter at the timeout, or       *)
(* without a reason.                                                       *)
WakeUp(t) ==
    /\ pc[t] = "blocked"
    /\ Goto(t, "sleep")
    /\ UNCHANGED lotVars

(* Mutant of DequeueSelf: it returns didFind. *)
DequeueSelfFound(t) ==
    /\ pc[t] = "dequeueSelf"
    /\ LET b == bucketOf[parkedAt[t]]
           found == FirstAmong(bucket[b], {t})
       IN  /\ \/ \E i \in found :
                     /\ bucket' = [bucket EXCEPT ![b] = Removed(@, i)]
                     /\ leftBy' = [leftBy EXCEPT ![t] = "itself"]
              \/ found = {} /\ UNCHANGED <<bucket, leftBy>>
           /\ result' = [result EXCEPT ![t] = found # {}]
    /\ Goto(t, "clearSelf")
    /\ UNCHANGED <<address, parkedAt, woken, ret>>

DequeueSelf(t) ==
    /\ pc[t] = "dequeueSelf"
    /\ LET b == bucketOf[parkedAt[t]]
           found == FirstAmong(bucket[b], {t})
       IN  /\ \/ \E i \in found :
                     /\ bucket' = [bucket EXCEPT ![b] = Removed(@, i)]
                     /\ leftBy' = [leftBy EXCEPT ![t] = "itself"]
              \/ found = {} /\ UNCHANGED <<bucket, leftBy>>
           /\ result' = [result EXCEPT ![t] = found = {}]
    /\ Goto(t, "clearSelf")
    /\ UNCHANGED <<address, parkedAt, woken, ret>>

ClearSelf(t) ==
    /\ pc[t] = "clearSelf"
    /\ address' = [address EXCEPT ![t] = Null]
    /\ Goto(t, "unparked")
    /\ UNCHANGED <<bucket, parkedAt, result, leftBy, woken, ret>>

(* The return of parkConditionally() to its caller. *)
ParkReturn(t, label) ==
    /\ pc[t] = "unparked"
    /\ parkedAt' = [parkedAt EXCEPT ![t] = Null]
    /\ result' = [result EXCEPT ![t] = FALSE]
    /\ leftBy' = [leftBy EXCEPT ![t] = "nobody"]
    /\ Goto(t, label)
    /\ UNCHANGED <<bucket, address, woken, ret>>

-----------------------------------------------------------------------------
(* unparkOne() and unparkAll() *)

(* Mutant of FirstAt: the search goes on to the last one. *)
LastAt(a) ==
    LET queue == bucket[bucketOf[a]]
    IN  {i \in DOMAIN queue :
            address[queue[i]] = a /\ \A j \in (i + 1)..Len(queue) : address[queue[j]] # a}

(* Where unparkOne(a) finds its thread: the functors of the unpark calls   *)
(* compare element->address.                                               *)
FirstAt(a) == FirstAmong(bucket[bucketOf[a]], {t \in Threads : address[t] = a})

(* The `mayHaveMoreThreads' that unparkOne() tells its callback: whether   *)
(* it found a thread and has not emptied the bucket, which other addresses *)
(* may share.                                                              *)
MayHaveMoreThreads(a) == FirstAt(a) # {} /\ Len(bucket[bucketOf[a]]) > 1

(* The dequeue() critical section of unparkOne(a), called by t, which will *)
(* go on at `label'.                                                       *)
UnparkOneAt(t, a, label) ==
    LET b == bucketOf[a]
    IN  /\ \/ \E i \in FirstAt(a) :
                  /\ bucket' = [bucket EXCEPT ![b] = Removed(@, i)]
                  /\ leftBy' = [leftBy EXCEPT ![bucket[b][i]] = "unpark"]
                  /\ woken' = [woken EXCEPT ![t] = <<bucket[b][i]>>]
                  /\ ret' = [ret EXCEPT ![t] = label]
                  /\ Goto(t, "clear")
           \/ /\ FirstAt(a) = {}
              /\ ret' = [ret EXCEPT ![t] = "idle"]
              /\ Goto(t, label)
              /\ UNCHANGED <<bucket, leftBy, woken>>
        /\ UNCHANGED <<address, parkedAt, result>>

(* The dequeue() critical section of unparkAll(a). *)
UnparkAllAt(t, a, label) ==
    LET b    == bucketOf[a]
        isAt == {u \in Threads : address[u] = a}
        all  == AllAmong(bucket[b], isAt)
    IN  /\ bucket' = [bucket EXCEPT ![b] = AllAmong(@, Threads \ isAt)]
        /\ leftBy' = [u \in Threads |->
                         IF \E i \in DOMAIN all : all[i] = u THEN "unpark" ELSE leftBy[u]]
        /\ woken' = [woken EXCEPT ![t] = all]
        /\ ret' = [ret EXCEPT ![t] = IF all = <<>> THEN "idle" ELSE label]
        /\ Goto(t, IF all = <<>> THEN label ELSE "clear")
        /\ UNCHANGED <<address, parkedAt, result>>

ClearAddress(t) ==
    /\ pc[t] = "clear"
    /\ address' = [address EXCEPT ![Head(woken[t])] = Null]
    /\ Goto(t, "notify")
    /\ UNCHANGED <<bucket, parkedAt, result, leftBy, woken, ret>>

(* Mutant of NotifyOne: nobody is notified. *)
NotifyNobody(t) ==
    /\ pc[t] = "notify"
    /\ LET last == Tail(woken[t]) = <<>>
       IN  /\ woken' = [woken EXCEPT ![t] = Tail(@)]
           /\ ret' = [ret EXCEPT ![t] = IF last THEN "idle" ELSE @]
           /\ Goto(t, IF last THEN ret[t] ELSE "clear")
    /\ UNCHANGED <<bucket, address, parkedAt, result, leftBy>>

NotifyOne(t) ==
    /\ pc[t] = "notify"
    /\ LET last == Tail(woken[t]) = <<>>
           data == Head(woken[t])
       IN  /\ woken' = [woken EXCEPT ![t] = Tail(@)]
           /\ ret' = [ret EXCEPT ![t] = IF last THEN "idle" ELSE @]
           /\ pc' = [u \in Threads |->
                        CASE u = t                         -> IF last THEN ret[t] ELSE "clear"
                          [] u = data /\ u # t /\ pc[u] = "blocked" -> "sleep"
                          [] OTHER                         -> pc[u]]
    /\ UNCHANGED <<bucket, address, parkedAt, result, leftBy>>
=============================================================================
