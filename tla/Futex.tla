-------------------------------- MODULE Futex --------------------------------
(***************************************************************************)
(* One futex of one process: the word in the process' memory, and what the *)
(* futex plugin keeps for it (k_startup/src/plugin_fut.c).  A futex is an  *)
(* entry of the process' futex map; entries do not share state.  Each      *)
(* command is an interrupt handler, so one step.                           *)
(***************************************************************************)
EXTENDS Queues

CONSTANTS
    Threads     \* threads of the process

VARIABLES
    word,       \* the futex, in user memory
    registered, \* the futex has a wait queue in the map
    waitQ,      \* the wait queue, front first
    answer      \* what the last command returned to each thread; "blocked"
                \* while the thread is in the queue

futexVars == <<word, registered, waitQ, answer>>

Errors  == {"invalid_index", "state_mismatch", "already_allocated", "no_mem"}
Answers == {"none", "success", "blocked"} \cup Errors

Return(t, err) == answer' = [answer EXCEPT ![t] = err]

(* bwq_notify and bwq_pop in a loop: the threads of Q leave the queue and  *)
(* are scheduled with their call's result, while t's own call returns too. *)
WakeThese(t, n, err) ==
    /\ waitQ' = SubSeq(waitQ, n + 1, Len(waitQ))
    /\ answer' = [u \in Threads |-> IF u = t THEN "success"
                                    ELSE IF u \in Items(SubSeq(waitQ, 1, n)) THEN err
                                    ELSE answer[u]]

(* PLG_FUT_PCID_REGISTER; what the caller stores in the word before is     *)
(* the caller's.                                                           *)
Register(t) ==
    /\ registered' = TRUE
    /\ Return(t, IF registered THEN "already_allocated" ELSE "success")
    /\ UNCHANGED waitQ

(* PLG_FUT_PCID_DEREGISTER *)
Deregister(t) ==
    /\ registered' = FALSE
    /\ WakeThese(t, Len(waitQ), "state_mismatch")
    /\ UNCHANGED word

(* PLG_FUT_PCID_WAIT: compare the word and sleep, in one step, or fail to  *)
(* for want of memory for the queue.                                       *)
Wait(t, exp) ==
    /\ \/ /\ ~registered
          /\ Return(t, "invalid_index")
          /\ UNCHANGED waitQ
       \/ /\ registered /\ word # exp
          /\ Return(t, "success")
          /\ UNCHANGED waitQ
       \/ /\ registered /\ word = exp
          /\ Return(t, "blocked")
          /\ waitQ' = Append(waitQ, t)
       \/ /\ registered /\ word = exp
          /\ Return(t, "no_mem")
          /\ UNCHANGED waitQ
    /\ UNCHANGED <<word, registered>>

(* Variant for a mutant: one thread is woken, whatever was asked. *)
HowMany_One(all) == IF waitQ # << >> THEN 1 ELSE 0

(* BWQ_NOTIFY_ALL or BWQ_NOTIFY_NEXT *)
HowMany(all) == IF all THEN Len(waitQ) ELSE IF waitQ # << >> THEN 1 ELSE 0

(* PLG_FUT_PCID_WAKE *)
Wake(t, all) ==
    /\ \/ /\ ~registered
          /\ Return(t, "invalid_index")
          /\ UNCHANGED waitQ
       \/ /\ registered
          /\ WakeThese(t, HowMany(all), "success")
    /\ UNCHANGED <<word, registered>>
=============================================================================
