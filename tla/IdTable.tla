------------------------------- MODULE IdTable -------------------------------
(***************************************************************************)
(* The id tables of s_data/src/id_table.c, from which processes, threads,  *)
(* handles and semaphores get their ids: entries linked into a free and an *)
(* allocated list by index, and a table that grows when the free list is   *)
(* empty or an id beyond it is asked for.                                  *)
(***************************************************************************)
EXTENDS Naturals, FiniteSets

CONSTANTS
    MaxCap,     \* max_cap: no id reaches it, and it stands for NULL
    StartCap    \* IDTB_STARTING_CAP

(* new_id_table refuses a max_cap of 0. *)
ASSUME IdTableAssumption == MaxCap \in Nat \ {0} /\ StartCap \in Nat \ {0}

VARIABLES
    tbl,        \* id -> [allocated, next, prev], for the ids below cap
    cap, fl_head, al_head,
    given,      \* the ids the callers have
    popped      \* how the last pop ended: "id", "memory" (out of it), "full"; or "other"

idVars == <<tbl, cap, fl_head, al_head, given, popped>>

NULL_ID == MaxCap

(* The entries from a to b, in order, as a list that goes on at `after`. *)
Linked(a, b, after) ==
    [id \in a .. b |-> [allocated |-> FALSE,
                        next |-> IF id = b THEN after ELSE id + 1,
                        prev |-> IF id = a THEN NULL_ID ELSE id - 1]]

(* new_id_table *)
IdInit ==
    /\ cap = IF MaxCap < StartCap THEN MaxCap ELSE StartCap
    /\ tbl = Linked(0, cap - 1, NULL_ID)
    /\ fl_head = 0 /\ al_head = NULL_ID
    /\ given = {} /\ popped = "other"

-----------------------------------------------------------------------------
(* Lists of entries: t is a table, h the head of the list. *)

SetPrev(t, id, p) == IF id = NULL_ID THEN t ELSE [t EXCEPT ![id].prev = p]
SetNext(t, id, n) == IF id = NULL_ID THEN t ELSE [t EXCEPT ![id].next = n]

(* Variant for a mutant: the next entry keeps its link back. *)
Cut_NotBack(t, id) == SetNext(t, t[id].prev, t[id].next)

(* The entry is taken out of its list, whose head may become the next one. *)
Cut(t, id) == SetNext(SetPrev(t, t[id].next, t[id].prev), t[id].prev, t[id].next)
HeadAfterCut(t, id, h) == IF t[id].prev = NULL_ID THEN t[id].next ELSE h

(* The entry is put before the head of a list. *)
Put(t, id, h, allocated) ==
    [SetPrev(t, h, id) EXCEPT ![id] = [allocated |-> allocated, next |-> h, prev |-> NULL_ID]]

(* idtb_resize: the new entries go before the free ones. *)
Resized(n) ==
    LET old == SetPrev(tbl, fl_head, n - 1)
        new == Linked(cap, n - 1, fl_head)
    IN  [id \in 0 .. n - 1 |-> IF id < cap THEN old[id] ELSE new[id]]

(* The capacity idtb_request_id asks for. *)
Doubled == IF 2 * cap > MaxCap THEN MaxCap ELSE 2 * cap
NewCap(id) == IF id < Doubled THEN Doubled ELSE id + 1

(* The rest of idtb_request_id, once the table t has the id. *)
Taken(t, h, id) ==
    /\ tbl' = Put(Cut(t, id), id, al_head, TRUE)
    /\ fl_head' = HeadAfterCut(t, id, h) /\ al_head' = id

RequestId(id) ==
    \/ id < cap /\ ~tbl[id].allocated /\ Taken(tbl, fl_head, id) /\ UNCHANGED cap
    \/ cap <= id /\ id < MaxCap /\ Taken(Resized(NewCap(id)), cap, id) /\ cap' = NewCap(id)

(* The answers other than FOS_E_SUCCESS: a growing table may find no       *)
(* memory.                                                                 *)
Refused(id) ==
    /\ \/ id < cap /\ tbl[id].allocated
       \/ id >= cap
    /\ UNCHANGED <<tbl, cap, fl_head, al_head>>

Request(id) ==
    /\ \/ RequestId(id) /\ given' = given \cup {id}
       \/ Refused(id) /\ UNCHANGED given
    /\ popped' = "other"

(* idtb_pop_id *)
PopId ==
    LET id == IF fl_head # NULL_ID THEN fl_head ELSE cap IN
    \/ RequestId(id) /\ given' = given \cup {id} /\ popped' = "id"
    \/ Refused(id) /\ UNCHANGED given
       /\ popped' = IF id < MaxCap THEN "memory" ELSE "full"

(* idtb_push_id: of an id that is not allocated, nothing. *)
PushId(id) ==
    /\ popped' = "other" /\ given' = given \ {id}
    /\ IF id < cap /\ tbl[id].allocated
       THEN /\ tbl' = Put(Cut(tbl, id), id, fl_head, FALSE)
            /\ al_head' = HeadAfterCut(tbl, id, al_head) /\ fl_head' = id
            /\ UNCHANGED cap
       ELSE UNCHANGED <<tbl, cap, fl_head, al_head>>

IdNext == PopId \/ \E id \in 0 .. MaxCap : Request(id) \/ PushId(id)

IdSpec == IdInit /\ [][IdNext]_idVars

-----------------------------------------------------------------------------
(* What idtb_next visits, from a head: the sequence of a list. *)
Visited(h) ==
    LET at[n \in 0 .. cap] ==
          IF n = 0 THEN h ELSE IF at[n - 1] = NULL_ID THEN NULL_ID ELSE tbl[at[n - 1]].next
    IN  at

ListIs(h, S) ==
    /\ {Visited(h)[n] : n \in 0 .. cap} = S \cup {NULL_ID}
    /\ Visited(h)[Cardinality(S)] = NULL_ID
    /\ \A id \in S : tbl[id].prev # NULL_ID => tbl[tbl[id].prev].next = id
    /\ h # NULL_ID => tbl[h].prev = NULL_ID

(* A pass over the table visits each id that is held once, and the free    *)
(* list has all the others, so that no id is given twice.  None is refused *)
(* while one is left below the maximum, but for lack of memory.            *)
IdsAreNotShared ==
    /\ ListIs(al_head, given) /\ ListIs(fl_head, (0 .. cap - 1) \ given)
    /\ \A id \in 0 .. cap - 1 : tbl[id].allocated <=> id \in given
    /\ popped = "full" => given = 0 .. MaxCap - 1
    /\ popped = "memory" => given = 0 .. cap - 1
=============================================================================
