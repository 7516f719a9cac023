----------------------------- MODULE PipeProofs -----------------------------
(***************************************************************************)
(* Nobody waits for a pipe without cause, and an end that was announced is *)
(* final, for a pipe of any size, any finite number of processes and any   *)
(* number of threads, whichever copies fail and whenever handles are       *)
(* closed, inherited or lost; and what is read is what was written: the    *)
(* pipe implements Channel.                                                *)
(***************************************************************************)
EXTENDS PipeUsers, QueueLemmas, FiniteSetTheorems, SequenceTheorems, TLAPS

Places == {"none", "idle"} \cup InWrite \cup InRead

PipeTypes ==
    /\ i \in 0 .. SigCap /\ j \in 0 .. SigCap
    /\ pst \in [Procs -> {"free", "live", "zombie"}]
    /\ holds \in [Procs -> SUBSET Ends]
    /\ doomed \subseteq Procs \X Ends
    /\ pc \in [Thread -> Places]
    /\ left \in [Thread -> Nat]
    /\ ended \subseteq Thread \X Ends

(* A handle that is to be deleted is there, and is deleted once; a free    *)
(* process has no others, so that the handles of a child are new; and only *)
(* a living process has threads.                                           *)
HandlesFollow ==
    /\ \A p \in Procs, e \in Ends : <<p, e>> \in doomed => e \in holds[p]
    /\ \A p \in Procs, e \in Ends : pst[p] = "free" /\ e \in holds[p] => <<p, e>> \in doomed
    /\ \A th \in Thread : pc[th] # "none" => pst[th[1]] = "live"

PipeInv == PipeTypes /\ HandlesFollow /\ WaitersHaveCause /\ EndIsFinal

Refs(e) == IF e = "write" THEN write_refs ELSE read_refs

-----------------------------------------------------------------------------
(* The counts *)

LEMMA HoldersAreCounted ==
    ASSUME IsFiniteSet(Procs), PipeInv
    PROVE  \A e \in Ends : /\ IsFiniteSet(Holders(e))
                           /\ Refs(e) = Cardinality(Holders(e)) /\ Refs(e) \in Nat
<1> SUFFICES ASSUME NEW e \in Ends
             PROVE  /\ IsFiniteSet(Holders(e))
                    /\ Refs(e) = Cardinality(Holders(e)) /\ Refs(e) \in Nat
    OBVIOUS
<1>1. IsFiniteSet(Holders(e))
    BY FS_Subset DEF Holders
<1>2. Cardinality(Holders(e)) \in Nat
    BY <1>1, FS_CardinalityType
<1>3. Refs(e) = Cardinality(Holders(e))
    BY DEF Refs, PipeInv, WaitersHaveCause, RefsOK, Ends
<1> QED BY <1>1, <1>2, <1>3

(* A process that has a handle of an end makes its count positive.         *)
LEMMA HolderCounts ==
    ASSUME IsFiniteSet(Procs), PipeInv, NEW p \in Procs, NEW e \in Ends, e \in holds[p]
    PROVE  Refs(e) \in Nat /\ Refs(e) > 0
<1>1. IsFiniteSet(Holders(e)) /\ Refs(e) = Cardinality(Holders(e)) /\ Refs(e) \in Nat
    BY HoldersAreCounted
<1>2. p \in Holders(e)
    BY DEF Holders
<1>3. Cardinality(Holders(e)) # 0
    BY <1>1, <1>2, FS_EmptySet
<1> QED BY <1>1, <1>3

LEMMA CountsStay ==
    ASSUME PipeInv, UNCHANGED <<holds, write_refs, read_refs>>
    PROVE  RefsOK'
BY DEF PipeInv, WaitersHaveCause, RefsOK, Holders

-----------------------------------------------------------------------------
LEMMA PipeStart == ASSUME IsFiniteSet(Procs) PROVE Init => PipeInv
<1> SUFFICES ASSUME Init PROVE PipeInv
    OBVIOUS
<1> USE UsersConstants, PipeConstants
<1>1. PipeTypes
    BY DEF Init, PipeTypes, Ends, Thread, Places
<1>2. HandlesFollow
    BY DEF Init, HandlesFollow, Ends, Thread
<1>3. RefsOK
  <2>1. \A e \in Ends : Holders(e) = {First}
      BY DEF Init, Holders, Ends
  <2>2. Cardinality({First}) = 1
      BY FS_Singleton
  <2> QED BY <2>1, <2>2 DEF RefsOK, Init, Ends
<1>4. WaitersHaveCause
    BY <1>3 DEF Init, WaitersHaveCause, Thread
<1>5. EndIsFinal
    BY DEF Init, EndIsFinal
<1> QED BY <1>1, <1>2, <1>4, <1>5 DEF PipeInv

-----------------------------------------------------------------------------
(* Steps of a thread's loop *)

(* A call begins or returns: no place that waits is entered or left.       *)
LEMMA PlaceStep ==
    ASSUME PipeInv, NEW th \in Thread, NEW place \in Places, 
           pc[th] \notin {"none", "wblock", "rblock"},
           place \notin {"none", "wblock", "rblock"},
           Goto(th, place),
           NEW n \in Nat, left' \in {left, [left EXCEPT ![th] = n]},
           ended' \subseteq ended,
           UNCHANGED <<pipeVars, procVars>>
    PROVE  PipeInv'
<1> USE DEF PipeInv
<1>1. PipeTypes'
    BY DEF PipeTypes, Goto, pipeVars, procVars
<1>2. HandlesFollow'
    BY DEF HandlesFollow, PipeTypes, Goto, pipeVars, procVars
<1>3. RefsOK'
    BY CountsStay DEF pipeVars, procVars
<1>4. WaitersHaveCause'
    BY <1>3 DEF WaitersHaveCause, PipeTypes, Goto, pipeVars, procVars, IsFull, IsEmpty
<1>5. EndIsFinal'
    BY DEF EndIsFinal, pipeVars, IsEmpty, PipeTypes
<1> QED BY <1>1, <1>2, <1>4, <1>5

LEMMA StepCall ==
    ASSUME PipeInv, NEW th \in Thread, NEW n \in 1 .. MaxLen,
           CallWrite(th, n) \/ CallRead(th, n)
    PROVE  PipeInv'
<1> n \in Nat
    BY UsersConstants
<1>1. CASE CallWrite(th, n)
    BY <1>1, PlaceStep DEF CallWrite, At, Places, InWrite
<1>2. CASE CallRead(th, n)
    BY <1>2, PlaceStep DEF CallRead, At, Places, InRead
<1> QED BY <1>1, <1>2

LEMMA StepNoHandle ==
    ASSUME PipeInv, NEW th \in Thread, NoHandle(th)
    PROVE  PipeInv'
BY PlaceStep DEF NoHandle, At, Return, Places

(* The indices stay inside the buffer, and move only with a byte.          *)
LEMMA WriteIndex ==
    ASSUME PipeTypes, NEW len \in Nat, NEW c \in 0 .. Writing(len), NEW s,
           WriteBytes(s, c)
    PROVE  /\ j' \in 0 .. SigCap /\ (c = 0 => j' = j)
           /\ UNCHANGED <<i, write_refs, read_refs>>
<1> USE PipeConstants
<1>1. i \in 0 .. SigCap /\ j \in 0 .. SigCap /\ Cap = SigCap + 1
    BY DEF PipeTypes, Cap
<1>2. c \in Nat /\ c <= SigCap - Occupied
    BY <1>1 DEF Writing, Smaller, Occupied
<1>3. CASE i <= j
    BY <1>1, <1>2, <1>3 DEF WriteBytes, Occupied, Smaller
<1>4. CASE ~(i <= j)
    BY <1>1, <1>2, <1>4 DEF WriteBytes, Occupied, Smaller
<1> QED BY <1>3, <1>4

LEMMA ReadIndex ==
    ASSUME PipeTypes, NEW len \in Nat, NEW c \in 0 .. Reading(len), NEW out,
           ReadBytes(c, out)
    PROVE  /\ i' \in 0 .. SigCap /\ (c = 0 => i' = i)
           /\ UNCHANGED <<j, write_refs, read_refs>>
<1> USE PipeConstants
<1>1. i \in 0 .. SigCap /\ j \in 0 .. SigCap /\ Cap = SigCap + 1
    BY DEF PipeTypes, Cap
<1>2. c \in Nat /\ c <= Occupied
    BY <1>1 DEF Reading, Smaller, Occupied
<1>3. CASE j < i
    BY <1>1, <1>2, <1>3 DEF ReadBytes, Occupied, Smaller
<1>4. CASE ~(j < i)
    BY <1>1, <1>2, <1>4 DEF ReadBytes, Occupied, Smaller
<1> QED BY <1>3, <1>4

(* A thread moves bytes and wakes all of one queue, or nobody.             *)
LEMMA MoveStep ==
    ASSUME PipeInv, NEW th \in Thread, pc[th] \in {"write", "read"},
           NEW place \in {"idle", "write", "read"},
           NEW woken \in {{}, w_wq, r_wq}, GotoAndWake(th, place, woken),
           w_wq' = w_wq \ woken, r_wq' = r_wq \ woken,
           left' \in [Thread -> Nat],
           i' \in 0 .. SigCap, j' \in 0 .. SigCap,
           w_wq' # {} => IsFull', r_wq' # {} => IsEmpty',
           \A u \in Thread : <<u, "read">> \in ended => IsEmpty',
           UNCHANGED <<procVars, ended, write_refs, read_refs>>
    PROVE  PipeInv'
<1> USE DEF PipeInv
<1>1. /\ w_wq = {u \in Thread : pc[u] = "wblock"}
      /\ r_wq = {u \in Thread : pc[u] = "rblock"}
      /\ pc \in [Thread -> Places]
    BY DEF WaitersHaveCause, PipeTypes
<1>2. pc' = [u \in Thread |-> IF u = th THEN place
                              ELSE IF u \notin woken THEN pc[u]
                              ELSE IF pc[u] = "wblock" THEN "write" ELSE "read"]
    BY DEF GotoAndWake
<1>3. PipeTypes'
  <2>1. pc' \in [Thread -> Places]
      BY <1>1, <1>2 DEF Places, InWrite, InRead
  <2> QED BY <2>1 DEF PipeTypes, procVars
<1>4. HandlesFollow'
  <2>1. \A u \in Thread : pc'[u] # "none" => pc[u] # "none"
      BY <1>1, <1>2
  <2> QED BY <2>1 DEF HandlesFollow, procVars
<1>5. RefsOK'
    BY CountsStay DEF procVars
<1>6. /\ w_wq' = {u \in Thread : pc'[u] = "wblock"}
      /\ r_wq' = {u \in Thread : pc'[u] = "rblock"}
    BY <1>1, <1>2
<1>7. WaitersHaveCause'
    BY <1>5, <1>6 DEF WaitersHaveCause
<1>8. EndIsFinal'
    BY DEF EndIsFinal
<1> QED BY <1>3, <1>4, <1>7, <1>8

LEMMA StepWriteSome ==
    ASSUME IsFiniteSet(Procs), PipeInv, NEW th \in Thread, WriteSome(th)
    PROVE  PipeInv'
<1> USE DEF PipeInv
<1>1. pc[th] = "write" /\ "write" \in holds[th[1]] /\ th[1] \in Procs
    BY DEF WriteSome, At, Has, Thread
<1>2. write_refs # 0
    BY <1>1, HolderCounts DEF Refs, Ends
<1>3. CASE Goto(th, "wwait") /\ UNCHANGED <<pipeVars, left, next>>
    BY <1>1, <1>3, PlaceStep DEF WriteSome, Places, InWrite
<1>4. ASSUME ~IsFull, NEW c \in 0 .. Writing(left[th]),
             WriteBytes(Numbered(Writing(left[th])), c),
             r_wq' = r_wq \ WokenByWrite(c, Writing(left[th])), UNCHANGED w_wq,
             Moved(th, c, Writing(left[th]), WokenByWrite(c, Writing(left[th])), "write"),
             UNCHANGED <<procVars, ended>>
      PROVE  PipeInv'
  <2> DEFINE n == Writing(left[th])
             woken == WokenByWrite(c, n)
  <2>1. left \in [Thread -> Nat] /\ left[th] \in Nat
      BY DEF PipeTypes
  <2>2. /\ j' \in 0 .. SigCap /\ (c = 0 => j' = j)
        /\ UNCHANGED <<i, write_refs, read_refs>>
      BY <1>4, <2>1, WriteIndex
  <2>3. w_wq = {}
      BY <1>4 DEF WaitersHaveCause
  <2>4. woken \in {{}, r_wq} /\ (r_wq' # {} => woken = {} /\ IsEmpty /\ ~(c > 0))
      BY <1>4 DEF WokenByWrite, WaitersHaveCause
  <2>5. r_wq' # {} => IsEmpty'
      BY <2>2, <2>4 DEF IsEmpty
  <2>6. \A u \in Thread : <<u, "read">> \notin ended
      BY <1>2 DEF EndIsFinal
  <2> HIDE DEF woken, n
  <2>7. PICK place \in {"idle", "write"} :
             GotoAndWake(th, place, woken) /\ left' \in [Thread -> Nat]
    <3>1. Moved(th, c, n, woken, "write") /\ c \in Nat
        BY <1>4 DEF woken, n
    <3> QED BY <2>1, <3>1 DEF Moved
  <2>8. i' \in 0 .. SigCap
      BY <2>2 DEF PipeTypes
  <2>9. w_wq' = w_wq \ woken /\ r_wq' = r_wq \ woken
      BY <1>4, <2>3 DEF woken, n
  <2> QED BY <1>1, <1>4, <2>2, <2>3, <2>4, <2>5, <2>6, <2>7, <2>8, <2>9, MoveStep
<1> QED BY <1>3, <1>4 DEF WriteSome

LEMMA StepReadSome ==
    ASSUME IsFiniteSet(Procs), PipeInv, NEW th \in Thread, ReadSome(th)
    PROVE  PipeInv'
<1> USE DEF PipeInv
<1>1. pc[th] = "read"
    BY DEF ReadSome, At
<1>2. CASE Goto(th, "rwait") /\ UNCHANGED <<pipeVars, left, dest>>
    BY <1>1, <1>2, PlaceStep DEF ReadSome, Places, InRead
<1>3. ASSUME ~IsEmpty, NEW c \in 0 .. Reading(left[th]), ReadBytes(c, dest'),
             w_wq' = w_wq \ WokenByRead(c), UNCHANGED r_wq,
             Moved(th, c, Reading(left[th]), WokenByRead(c), "read"),
             UNCHANGED <<procVars, ended>>
      PROVE  PipeInv'
  <2> DEFINE woken == WokenByRead(c)
  <2>1. left \in [Thread -> Nat] /\ left[th] \in Nat
      BY DEF PipeTypes
  <2>2. /\ i' \in 0 .. SigCap /\ (c = 0 => i' = i)
        /\ UNCHANGED <<j, write_refs, read_refs>>
      BY <1>3, <2>1, ReadIndex
  <2>3. r_wq = {}
      BY <1>3 DEF WaitersHaveCause
  <2>4. woken \in {{}, w_wq} /\ (w_wq' # {} => woken = {} /\ IsFull /\ ~(c > 0))
      BY <1>3 DEF WokenByRead, WaitersHaveCause
  <2>5. w_wq' # {} => IsFull'
      BY <2>2, <2>4 DEF IsFull
  <2>6. \A u \in Thread : <<u, "read">> \notin ended
      BY <1>3 DEF EndIsFinal
  <2>7. PICK place \in {"idle", "read"} :
             GotoAndWake(th, place, woken) /\ left' \in [Thread -> Nat]
      BY <1>3, <2>1 DEF Moved
  <2>8. j' \in 0 .. SigCap
      BY <2>2 DEF PipeTypes
  <2> HIDE DEF woken
  <2>9. w_wq' = w_wq \ woken /\ r_wq' = r_wq \ woken
      BY <1>3, <2>3 DEF woken
  <2> QED BY <1>1, <1>3, <2>2, <2>3, <2>4, <2>5, <2>6, <2>7, <2>8, <2>9, MoveStep
<1> QED BY <1>2, <1>3 DEF ReadSome

LEMMA BlockStep ==
    ASSUME PipeInv, NEW th \in Thread, pc[th] \in {"wwait", "rwait"},
           \/ /\ Goto(th, "wblock") /\ w_wq' = w_wq \cup {th} /\ r_wq' = r_wq /\ IsFull
           \/ /\ Goto(th, "rblock") /\ r_wq' = r_wq \cup {th} /\ w_wq' = w_wq /\ IsEmpty,
           write_refs > 0 /\ read_refs > 0,
           UNCHANGED <<i, j, write_refs, read_refs, left, ended, procVars>>
    PROVE  PipeInv'
<1> USE DEF PipeInv
<1>1. PipeTypes'
    BY DEF PipeTypes, Goto, procVars, Places, InWrite, InRead
<1>2. HandlesFollow'
    BY DEF HandlesFollow, PipeTypes, Goto, procVars
<1>3. RefsOK'
    BY CountsStay DEF procVars
<1>4. WaitersHaveCause'
    BY <1>3 DEF WaitersHaveCause, PipeTypes, Goto, IsFull, IsEmpty
<1>5. EndIsFinal'
    BY DEF EndIsFinal, IsEmpty
<1> QED BY <1>1, <1>2, <1>4, <1>5

(* A wait says that the other end is gone.                                 *)
LEMMA EndStep ==
    ASSUME PipeInv, NEW th \in Thread, pc[th] \in {"wwait", "rwait"}, Goto(th, "idle"),
           left' = [left EXCEPT ![th] = 0],
           \/ ended' = ended \cup {<<th, "read">>} /\ IsEmpty /\ write_refs = 0
           \/ ended' = ended \cup {<<th, "write">>} /\ read_refs = 0,
           UNCHANGED <<pipeVars, procVars>>
    PROVE  PipeInv'
<1> USE DEF PipeInv
<1>1. PipeTypes'
    BY DEF PipeTypes, Goto, pipeVars, procVars, Places, Ends
<1>2. HandlesFollow'
    BY DEF HandlesFollow, PipeTypes, Goto, pipeVars, procVars
<1>3. RefsOK'
    BY CountsStay DEF pipeVars, procVars
<1>4. WaitersHaveCause'
    BY <1>3 DEF WaitersHaveCause, PipeTypes, Goto, pipeVars, IsFull, IsEmpty
<1>5. EndIsFinal'
    BY DEF EndIsFinal, IsEmpty, pipeVars
<1> QED BY <1>1, <1>2, <1>4, <1>5

LEMMA StepWaitWrite ==
    ASSUME IsFiniteSet(Procs), PipeInv, NEW th \in Thread, WaitWrite(th)
    PROVE  PipeInv'
<1>1. pc[th] = "wwait" /\ "write" \in holds[th[1]] /\ th[1] \in Procs /\ UNCHANGED procVars
    BY DEF WaitWrite, At, Has, Thread
<1>2. write_refs > 0
    BY <1>1, HolderCounts DEF Refs, Ends
<1>3. CASE /\ read_refs = 0 /\ ended' = ended \cup {<<th, "write">>}
           /\ Goto(th, "idle") /\ left' = [left EXCEPT ![th] = 0] /\ UNCHANGED pipeVars
    BY <1>1, <1>3, EndStep
<1>4. CASE /\ read_refs > 0 /\ IsFull /\ Goto(th, "wblock") /\ w_wq' = w_wq \cup {th}
           /\ UNCHANGED <<i, j, buf, write_refs, read_refs, r_wq, left, ended>>
    BY <1>1, <1>2, <1>4, BlockStep
<1>5. CASE /\ UNCHANGED <<pipeVars, ended>>
           /\ \/ Goto(th, "idle") /\ left' = [left EXCEPT ![th] = 0]
              \/ Goto(th, "write") /\ left' = left
  <2>1. ended' \subseteq ended /\ UNCHANGED <<pipeVars, procVars>>
      BY <1>1, <1>5
  <2>2. CASE Goto(th, "idle") /\ left' = [left EXCEPT ![th] = 0]
      BY <1>1, <2>1, <2>2, PlaceStep DEF Places
  <2>3. CASE Goto(th, "write") /\ left' = left
      BY <1>1, <2>1, <2>3, PlaceStep DEF Places, InWrite
  <2> QED BY <1>5, <2>2, <2>3
<1> QED BY <1>3, <1>4, <1>5 DEF WaitWrite

LEMMA StepWaitRead ==
    ASSUME IsFiniteSet(Procs), PipeInv, NEW th \in Thread, WaitRead(th)
    PROVE  PipeInv'
<1>1. pc[th] = "rwait" /\ "read" \in holds[th[1]] /\ th[1] \in Procs /\ UNCHANGED procVars
    BY DEF WaitRead, At, Has, Thread
<1>2. read_refs > 0
    BY <1>1, HolderCounts DEF Refs, Ends
<1>3. CASE /\ IsEmpty /\ write_refs = 0 /\ ended' = ended \cup {<<th, "read">>}
           /\ Goto(th, "idle") /\ left' = [left EXCEPT ![th] = 0] /\ UNCHANGED pipeVars
    BY <1>1, <1>3, EndStep
<1>4. CASE /\ IsEmpty /\ write_refs > 0 /\ Goto(th, "rblock") /\ r_wq' = r_wq \cup {th}
           /\ UNCHANGED <<i, j, buf, write_refs, read_refs, w_wq, left, ended>>
    BY <1>1, <1>2, <1>4, BlockStep
<1>5. CASE /\ UNCHANGED <<pipeVars, ended>>
           /\ \/ Goto(th, "idle") /\ left' = [left EXCEPT ![th] = 0]
              \/ Goto(th, "read") /\ left' = left
  <2>1. ended' \subseteq ended /\ UNCHANGED <<pipeVars, procVars>>
      BY <1>1, <1>5
  <2>2. CASE Goto(th, "idle") /\ left' = [left EXCEPT ![th] = 0]
      BY <1>1, <2>1, <2>2, PlaceStep DEF Places
  <2>3. CASE Goto(th, "read") /\ left' = left
      BY <1>1, <2>1, <2>3, PlaceStep DEF Places, InRead
  <2> QED BY <1>5, <2>2, <2>3
<1> QED BY <1>3, <1>4, <1>5 DEF WaitRead

-----------------------------------------------------------------------------
(* Steps that change who has the handles *)

LEMMA StepClose ==
    ASSUME PipeInv, NEW th \in Thread, NEW e \in Ends, Close(th, e)
    PROVE  PipeInv'
<1> USE DEF PipeInv
<1>1. PipeTypes'
    BY DEF PipeTypes, Close, pipeVars, Thread
<1>2. HandlesFollow'
  <2>1. doomed = {} /\ pst[th[1]] = "live" /\ e \in holds[th[1]]
      BY DEF Close, At, Has, HandlesFollow
  <2> QED BY <2>1 DEF HandlesFollow, Close
<1>3. RefsOK'
    BY CountsStay DEF Close, pipeVars
<1>4. WaitersHaveCause'
    BY <1>3 DEF WaitersHaveCause, Close, pipeVars, IsFull, IsEmpty
<1>5. EndIsFinal'
    BY DEF EndIsFinal, Close, pipeVars, IsEmpty
<1> QED BY <1>1, <1>2, <1>4, <1>5

LEMMA StepDeleteOne ==
    ASSUME IsFiniteSet(Procs), PipeInv, NEW p \in Procs, NEW e \in Ends, DeleteOne(p, e)
    PROVE  PipeInv'
<1> USE DEF PipeInv
<1>1. e \in holds[p] /\ Refs(e) # 0
    BY HolderCounts DEF DeleteOne, HandlesFollow
<1>2. \A x \in Ends : Refs(x) \in Nat
    BY HoldersAreCounted
<1>3. holds \in [Procs -> SUBSET Ends] /\ holds' = [holds EXCEPT ![p] = @ \ {e}]
    BY DEF DeleteOne, PipeTypes
<1>4. RefsOK'
  <2>1. ASSUME NEW x \in Ends, x # e PROVE Holders(x)' = Holders(x)
      BY <1>3, <2>1 DEF Holders
  <2>2. Holders(e)' = Holders(e) \ {p} /\ p \in Holders(e)
      BY <1>1, <1>3 DEF Holders
  <2>3. Cardinality(Holders(e) \ {p}) = Cardinality(Holders(e)) - 1
      BY <2>2, HoldersAreCounted, FS_RemoveElement
  <2>4. CASE e = "write"
      BY <2>1, <2>2, <2>3, <2>4 DEF RefsOK, WaitersHaveCause, DeleteOne, DeleteHandle, Ends
  <2>5. CASE e = "read"
      BY <2>1, <2>2, <2>3, <2>5 DEF RefsOK, WaitersHaveCause, DeleteOne, DeleteHandle, Ends
  <2> QED BY <2>4, <2>5 DEF Ends
<1>5. /\ w_wq = {u \in Thread : pc[u] = "wblock"}
      /\ r_wq = {u \in Thread : pc[u] = "rblock"}
      /\ pc \in [Thread -> Places] /\ left \in [Thread -> Nat]
    BY DEF WaitersHaveCause, PipeTypes
<1>6. \/ LastHandle(e) /\ w_wq' = {} /\ r_wq' = {}
      \/ ~LastHandle(e) /\ w_wq' = w_wq /\ r_wq' = r_wq
    BY DEF DeleteOne, DeleteHandle
<1> DEFINE woken == (w_wq \ w_wq') \cup (r_wq \ r_wq')
<1>7. /\ pc' = [th \in Thread |-> IF th \in woken THEN "idle" ELSE pc[th]]
      /\ left' = [th \in Thread |-> IF th \in woken THEN 0 ELSE left[th]]
    BY DEF DeleteOne
<1>8. /\ w_wq' = {u \in Thread : pc'[u] = "wblock"}
      /\ r_wq' = {u \in Thread : pc'[u] = "rblock"}
    BY <1>5, <1>6, <1>7
<1>9. ended' = ended \cup (IF e = "write" THEN (r_wq \ r_wq') \X {"read"}
                                        ELSE (w_wq \ w_wq') \X {"write"})
    BY DEF DeleteOne
<1>10. PipeTypes'
  <2>1. pc' \in [Thread -> Places] /\ left' \in [Thread -> Nat]
      BY <1>5, <1>7 DEF Places
  <2>2. ended' \subseteq Thread \X Ends
      BY <1>5, <1>9 DEF PipeTypes, Ends
  <2>3. UNCHANGED <<i, j, pst>> /\ doomed' \subseteq doomed
      BY DEF DeleteOne, DeleteHandle
  <2>4. holds' \in [Procs -> SUBSET Ends]
      BY <1>3
  <2> QED BY <2>1, <2>2, <2>3, <2>4 DEF PipeTypes
<1>11. HandlesFollow'
  <2>1. UNCHANGED pst /\ doomed' = doomed \ {<<p, e>>}
      BY DEF DeleteOne
  <2>2. \A th \in Thread : pc'[th] # "none" => pc[th] # "none"
      BY <1>5, <1>7
  <2> QED BY <1>3, <2>1, <2>2 DEF HandlesFollow
<1>12. WaitersHaveCause'
  <2>1. UNCHANGED <<IsFull, IsEmpty>>
      BY DEF DeleteOne, DeleteHandle, IsFull, IsEmpty
  <2>2. w_wq' \cup r_wq' # {} => write_refs' > 0 /\ read_refs' > 0
    <3>1. SUFFICES ASSUME w_wq' \cup r_wq' # {} PROVE write_refs' > 0 /\ read_refs' > 0
        OBVIOUS
    <3>2. ~LastHandle(e) /\ w_wq \cup r_wq # {}
        BY <1>6, <3>1
    <3>3. /\ write_refs \in Nat /\ read_refs \in Nat /\ write_refs > 0 /\ read_refs > 0
        BY <1>2, <3>2 DEF Refs, Ends, WaitersHaveCause
    <3> QED BY <3>2, <3>3 DEF LastHandle, DeleteOne, DeleteHandle, Ends
  <2>3. (w_wq' # {} => w_wq # {}) /\ (r_wq' # {} => r_wq # {})
      BY <1>6
  <2> QED BY <1>4, <1>8, <2>1, <2>2, <2>3 DEF WaitersHaveCause
<1>13. EndIsFinal'
  <2>1. UNCHANGED IsEmpty
      BY DEF DeleteOne, DeleteHandle, IsEmpty
  <2>2. ASSUME NEW th \in Thread, <<th, "read">> \in ended'
        PROVE  write_refs' = 0 /\ IsEmpty
    <3>1. CASE <<th, "read">> \in ended
      <4>1. write_refs = 0 /\ IsEmpty
          BY <3>1 DEF EndIsFinal
      <4> QED BY <1>1, <4>1 DEF Refs, DeleteOne, DeleteHandle
    <3>2. CASE e = "write" /\ r_wq' # r_wq
      <4>1. write_refs = 1 /\ r_wq # {}
          BY <1>6, <3>2 DEF LastHandle
      <4> QED BY <3>2, <4>1 DEF DeleteOne, DeleteHandle, WaitersHaveCause
    <3> QED BY <1>9, <2>2, <3>1, <3>2
  <2>3. ASSUME NEW th \in Thread, <<th, "write">> \in ended'
        PROVE  read_refs' = 0
    <3>1. CASE <<th, "write">> \in ended
      <4>1. read_refs = 0
          BY <3>1 DEF EndIsFinal
      <4> QED BY <1>1, <4>1 DEF Refs, DeleteOne, DeleteHandle, Ends
    <3>2. CASE e = "read" /\ w_wq' # w_wq
      <4>1. read_refs = 1
          BY <1>6, <3>2 DEF LastHandle
      <4> QED BY <3>2, <4>1 DEF DeleteOne, DeleteHandle
    <3> QED BY <1>9, <2>3, <3>1, <3>2 DEF Ends
  <2> QED BY <2>1, <2>2, <2>3 DEF EndIsFinal
<1> QED BY <1>10, <1>11, <1>12, <1>13

LEMMA StepFork ==
    ASSUME IsFiniteSet(Procs), PipeInv, NEW p \in Procs, NEW c \in Procs, NEW t \in Tids,
           Fork(p, t, c)
    PROVE  PipeInv'
<1> USE DEF PipeInv
<1>1. /\ doomed = {} /\ pst[p] = "live" /\ pst[c] = "free" /\ holds[c] = {}
      /\ <<p, t>> \in Thread /\ <<c, t>> \in Thread
  <2>1. doomed = {} /\ pc[<<p, t>>] = "idle" /\ pst[c] = "free"
      BY DEF Fork, At
  <2>2. holds[c] \subseteq Ends
      BY DEF PipeTypes
  <2> QED BY <2>1, <2>2 DEF HandlesFollow, Thread
<1>2. /\ pst' = [pst EXCEPT ![c] = "live"] /\ holds' = [holds EXCEPT ![c] = holds[p]]
      /\ pc' = [pc EXCEPT ![<<c, t>>] = "idle"]
      /\ UNCHANGED <<doomed, left, ended, i, j, w_wq, r_wq>>
      /\ write_refs' = IF "write" \in holds[p] THEN write_refs + 1 ELSE write_refs
      /\ read_refs' = IF "read" \in holds[p] THEN read_refs + 1 ELSE read_refs
    BY DEF Fork, Goto, CopyHandles
<1>3. /\ pst \in [Procs -> {"free", "live", "zombie"}] /\ holds \in [Procs -> SUBSET Ends]
      /\ pc \in [Thread -> Places]
    BY DEF PipeTypes
<1>4. pc[<<c, t>>] = "none"
    BY <1>1 DEF HandlesFollow
<1>5. PipeTypes'
    BY <1>1, <1>2, <1>3 DEF PipeTypes, Places
<1>6. HandlesFollow'
    BY <1>1, <1>2, <1>3 DEF HandlesFollow, Thread
<1>7. \A e \in Ends : /\ Refs(e) \in Nat
                      /\ Cardinality(Holders(e)') = IF e \in holds[p] THEN Refs(e) + 1 ELSE Refs(e)
  <2> SUFFICES ASSUME NEW e \in Ends
               PROVE  /\ Refs(e) \in Nat
                      /\ Cardinality(Holders(e)') = IF e \in holds[p] THEN Refs(e) + 1 ELSE Refs(e)
      OBVIOUS
  <2>1. IsFiniteSet(Holders(e)) /\ Refs(e) = Cardinality(Holders(e)) /\ Refs(e) \in Nat
      BY HoldersAreCounted
  <2>2. c \notin Holders(e)
      BY <1>1 DEF Holders
  <2>3. Holders(e)' = IF e \in holds[p] THEN Holders(e) \cup {c} ELSE Holders(e)
      BY <1>1, <1>2, <1>3 DEF Holders
  <2>4. Cardinality(Holders(e) \cup {c}) = Cardinality(Holders(e)) + 1
      BY <2>1, <2>2, FS_AddElement
  <2> QED BY <2>1, <2>3, <2>4
<1>8. RefsOK'
    BY <1>2, <1>7 DEF RefsOK, Refs, Ends
<1>9. WaitersHaveCause'
  <2>1. /\ w_wq' = {u \in Thread : pc'[u] = "wblock"}
        /\ r_wq' = {u \in Thread : pc'[u] = "rblock"}
      BY <1>1, <1>2, <1>3, <1>4 DEF WaitersHaveCause
  <2>2. UNCHANGED <<IsFull, IsEmpty>>
      BY <1>2 DEF IsFull, IsEmpty
  <2>3. /\ write_refs \in Nat /\ read_refs \in Nat
      BY <1>7 DEF Refs, Ends
  <2>4. w_wq' \cup r_wq' # {} => write_refs' > 0 /\ read_refs' > 0
      BY <1>2, <2>3 DEF WaitersHaveCause
  <2> QED BY <1>2, <1>8, <2>1, <2>2, <2>4 DEF WaitersHaveCause
<1>10. EndIsFinal'
  <2>1. /\ "write" \in holds[p] => write_refs # 0
        /\ "read" \in holds[p] => read_refs # 0
      BY HolderCounts DEF Refs, Ends
  <2> QED BY <1>2, <2>1 DEF EndIsFinal, IsEmpty
<1> QED BY <1>5, <1>6, <1>9, <1>10

LEMMA StepSpawn ==
    ASSUME PipeInv, NEW p \in Procs, NEW t \in Tids, NEW u \in Tids, Spawn(p, t, u)
    PROVE  PipeInv'
<1> USE DEF PipeInv
<1>1. /\ <<p, t>> \in Thread /\ <<p, u>> \in Thread /\ pst[p] = "live"
      /\ pc[<<p, u>>] = "none" /\ pc' = [pc EXCEPT ![<<p, u>>] = "idle"]
      /\ UNCHANGED <<pipeVars, procVars, left, ended>>
    BY DEF Spawn, At, Goto, HandlesFollow, Thread
<1>2. PipeTypes'
    BY <1>1 DEF PipeTypes, pipeVars, procVars, Places
<1>3. HandlesFollow'
    BY <1>1 DEF HandlesFollow, PipeTypes, procVars
<1>4. RefsOK'
    BY <1>1, CountsStay DEF pipeVars, procVars
<1>5. WaitersHaveCause'
    BY <1>1, <1>4 DEF WaitersHaveCause, PipeTypes, pipeVars, IsFull, IsEmpty
<1>6. EndIsFinal'
    BY <1>1 DEF EndIsFinal, pipeVars, IsEmpty
<1> QED BY <1>2, <1>3, <1>5, <1>6

(* All threads of a process vanish, but for one that begins anew.          *)
LEMMA ThreadsVanish ==
    ASSUME PipeInv, NEW p \in Procs, Vanish({p} \X Tids),
           \A th \in Thread : pc'[th] \in IF th[1] = p THEN {"none", "idle"} ELSE {pc[th]},
           UNCHANGED holds
    PROVE  /\ left' \in [Thread -> Nat] /\ ended' \subseteq Thread \X Ends
           /\ UNCHANGED <<i, j>> /\ WaitersHaveCause' /\ EndIsFinal'
<1> USE DEF PipeInv
<1>1. /\ w_wq' = w_wq \ ({p} \X Tids) /\ r_wq' = r_wq \ ({p} \X Tids)
      /\ UNCHANGED <<i, j, write_refs, read_refs>> /\ ended' \subseteq ended
      /\ left' = [th \in Thread |-> IF th \in {p} \X Tids THEN 0 ELSE left[th]]
    BY DEF Vanish
<1>2. left' \in [Thread -> Nat] /\ ended' \subseteq Thread \X Ends
    BY <1>1 DEF PipeTypes
<1>3. \A th \in Thread : th \in {p} \X Tids <=> th[1] = p
    BY DEF Thread
<1>4. /\ w_wq' = {u \in Thread : pc'[u] = "wblock"}
      /\ r_wq' = {u \in Thread : pc'[u] = "rblock"}
    BY <1>1, <1>3 DEF WaitersHaveCause
<1>5. RefsOK'
    BY <1>1, CountsStay
<1>6. WaitersHaveCause'
    BY <1>1, <1>4, <1>5 DEF WaitersHaveCause, IsFull, IsEmpty
<1>7. EndIsFinal'
    BY <1>1 DEF EndIsFinal, IsEmpty
<1> QED BY <1>1, <1>2, <1>6, <1>7

LEMMA StepExit ==
    ASSUME PipeInv, NEW p \in Procs, Exit(p)
    PROVE  PipeInv'
<1> USE DEF PipeInv
<1>1. /\ pst[p] = "live" /\ pst' = [pst EXCEPT ![p] = "zombie"]
      /\ Vanish({p} \X Tids) /\ UNCHANGED <<holds, doomed>>
      /\ pc' = [th \in Thread |-> IF th[1] = p THEN "none" ELSE pc[th]]
    BY DEF Exit
<1>2. /\ left' \in [Thread -> Nat] /\ ended' \subseteq Thread \X Ends
      /\ UNCHANGED <<i, j>> /\ WaitersHaveCause' /\ EndIsFinal'
    BY <1>1, ThreadsVanish
<1>3. PipeTypes'
    BY <1>1, <1>2 DEF PipeTypes, Places
<1>4. HandlesFollow'
    BY <1>1 DEF HandlesFollow, PipeTypes
<1> QED BY <1>2, <1>3, <1>4

LEMMA StepReap ==
    ASSUME PipeInv, NEW p \in Procs, Reap(p)
    PROVE  PipeInv'
<1> USE DEF PipeInv
<1>1. /\ doomed = {} /\ pst[p] = "zombie" /\ pst' = [pst EXCEPT ![p] = "free"]
      /\ doomed' = {p} \X holds[p] /\ UNCHANGED <<pipeVars, holds, pc, left, ended>>
    BY DEF Reap
<1>2. PipeTypes'
    BY <1>1 DEF PipeTypes, pipeVars
<1>3. HandlesFollow'
    BY <1>1 DEF HandlesFollow, PipeTypes
<1>4. RefsOK'
    BY <1>1, CountsStay DEF pipeVars
<1>5. WaitersHaveCause'
    BY <1>1, <1>4 DEF WaitersHaveCause, pipeVars, IsFull, IsEmpty
<1>6. EndIsFinal'
    BY <1>1 DEF EndIsFinal, pipeVars, IsEmpty
<1> QED BY <1>2, <1>3, <1>5, <1>6

LEMMA StepExec ==
    ASSUME PipeInv, NEW p \in Procs, NEW t \in Tids, NEW m \in Tids, NEW d \in SUBSET Ends,
           Exec(p, t, m, d)
    PROVE  PipeInv'
<1> USE DEF PipeInv
<1>1. /\ doomed = {} /\ doomed' = {p} \X (holds[p] \ d) /\ UNCHANGED <<pst, holds>>
      /\ Vanish({p} \X Tids) /\ pst[p] = "live"
      /\ pc' = [th \in Thread |-> IF th[1] # p THEN pc[th]
                                  ELSE IF th = <<p, m>> THEN "idle" ELSE "none"]
    BY DEF Exec, At, HandlesFollow, Thread
<1>2. /\ left' \in [Thread -> Nat] /\ ended' \subseteq Thread \X Ends
      /\ UNCHANGED <<i, j>> /\ WaitersHaveCause' /\ EndIsFinal'
    BY <1>1, ThreadsVanish
<1>3. PipeTypes'
    BY <1>1, <1>2 DEF PipeTypes, Places
<1>4. HandlesFollow'
    BY <1>1 DEF HandlesFollow, PipeTypes
<1> QED BY <1>2, <1>3, <1>4

-----------------------------------------------------------------------------
LEMMA PipeStep ==
    ASSUME IsFiniteSet(Procs), PipeInv, [Next]_vars
    PROVE  PipeInv'
<1>1. CASE \E th \in Thread : UserStep(th)
    BY <1>1, StepNoHandle, StepWriteSome, StepReadSome, StepWaitWrite, StepWaitRead DEF UserStep
<1>2. CASE \E th \in Thread, n \in 1 .. MaxLen : CallWrite(th, n) \/ CallRead(th, n)
    BY <1>2, StepCall
<1>3. CASE \E th \in Thread, e \in Ends : Close(th, e)
    BY <1>3, StepClose
<1>4. CASE \E p \in Procs, e \in Ends : DeleteOne(p, e)
    BY <1>4, StepDeleteOne
<1>5. CASE \E p, c \in Procs, t \in Tids : Fork(p, t, c)
    BY <1>5, StepFork
<1>6. CASE \E p \in Procs, t, u \in Tids : Spawn(p, t, u)
    BY <1>6, StepSpawn
<1>7. CASE \E p \in Procs : Exit(p) \/ Reap(p)
    BY <1>7, StepExit, StepReap
<1>8. CASE \E p \in Procs, t, m \in Tids, d \in SUBSET Ends : Exec(p, t, m, d)
    BY <1>8, StepExec
<1>9. CASE UNCHANGED vars
    BY <1>9 DEF vars, userVars, pipeVars, procVars, PipeInv, PipeTypes, HandlesFollow,
                WaitersHaveCause, RefsOK, Holders, EndIsFinal, IsFull, IsEmpty
<1> QED BY <1>1, <1>2, <1>3, <1>4, <1>5, <1>6, <1>7, <1>8, <1>9 DEF Next

(* Whoever waits to write finds the pipe full, whoever waits to read finds *)
(* it empty, both with somebody at the other end and in the queue that is  *)
(* woken; and both counts are the numbers of handles there are.            *)
THEOREM PipeWaitersHaveCause ==
    ASSUME IsFiniteSet(Procs) PROVE Spec => []WaitersHaveCause
<1>1. Init => PipeInv
    BY PipeStart
<1>2. PipeInv /\ [Next]_vars => PipeInv'
    BY PipeStep
<1>3. PipeInv => WaitersHaveCause
    BY DEF PipeInv
<1> QED BY <1>1, <1>2, <1>3, PTL DEF Spec

(* A wait that has announced the end of the data, or of the readers, stays *)
(* right as long as its thread remembers it.                               *)
THEOREM PipeEndIsFinal ==
    ASSUME IsFiniteSet(Procs) PROVE Spec => []EndIsFinal
<1>1. Init => PipeInv
    BY PipeStart
<1>2. PipeInv /\ [Next]_vars => PipeInv'
    BY PipeStep
<1>3. PipeInv => EndIsFinal
    BY DEF PipeInv
<1> QED BY <1>1, <1>2, <1>3, PTL DEF Spec

-----------------------------------------------------------------------------
(* The pipe implements Channel                                             *)

(* Where the k-th cell from the start of the buffer is.                    *)
Cell(x) == IF x < Cap THEN x ELSE x - Cap

Bytes == buf \in [0 .. SigCap -> Int] /\ next \in Int

LEMMA CellIs ==
    ASSUME NEW x \in 0 .. Cap + SigCap
    PROVE  x % Cap = Cell(x) /\ Cell(x) \in 0 .. SigCap
<1> USE PipeConstants DEF Cap, Cell
<1>1. CASE x < Cap
  <2>1. x = Cap * 0 + x /\ x \in 0 .. Cap - 1
      BY <1>1
  <2>2. x % Cap = x
      BY <2>1, DivModUnique
  <2> QED BY <1>1, <2>2
<1>2. CASE ~(x < Cap)
  <2>1. x = Cap * 1 + (x - Cap) /\ x - Cap \in 0 .. Cap - 1
      BY <1>2
  <2>2. x % Cap = x - Cap
      BY <2>1, DivModUnique
  <2> QED BY <1>2, <2>2
<1> QED BY <1>1, <1>2

LEMMA OccupiedIs ==
    ASSUME PipeTypes
    PROVE  /\ Occupied \in 0 .. SigCap /\ i \in 0 .. SigCap /\ j \in 0 .. SigCap
           /\ Cell(i + Occupied) = j
BY PipeConstants DEF PipeTypes, Occupied, Cap, Cell

(* Of two numbers of bytes that fit, one puts j where the other does.      *)
LEMMA OccupiedBy ==
    ASSUME NEW a \in 0 .. SigCap, NEW b \in 0 .. SigCap, NEW n \in 0 .. SigCap,
           b = Cell(a + n)
    PROVE  n = IF a <= b THEN b - a ELSE (Cap - a) + b
BY PipeConstants DEF Cap, Cell

LEMMA ContentIs ==
    PipeTypes /\ Bytes =>
        /\ Content \in Seq(Int) /\ Len(Content) = Occupied
        /\ Content = [k \in 1 .. Occupied |-> buf[Cell(i + k - 1)]]
<1> SUFFICES ASSUME PipeTypes, Bytes
             PROVE  /\ Content \in Seq(Int) /\ Len(Content) = Occupied
                    /\ Content = [k \in 1 .. Occupied |-> buf[Cell(i + k - 1)]]
    OBVIOUS
<1>1. Occupied \in 0 .. SigCap /\ i \in 0 .. SigCap /\ SigCap \in Nat /\ Cap = SigCap + 1
    BY OccupiedIs, PipeConstants DEF Cap
<1>2. ASSUME NEW k \in 1 .. Occupied
      PROVE  (i + k - 1) % Cap = Cell(i + k - 1) /\ Cell(i + k - 1) \in 0 .. SigCap
  <2>1. i + k - 1 \in 0 .. Cap + SigCap
      BY <1>1
  <2> QED BY <2>1, CellIs
<1>3. Content = [k \in 1 .. Occupied |-> buf[Cell(i + k - 1)]]
    BY <1>2 DEF Content
<1>4. \A k \in 1 .. Occupied : buf[Cell(i + k - 1)] \in Int
    BY <1>2 DEF Bytes
<1>5. [k \in 1 .. Occupied |-> buf[Cell(i + k - 1)]] \in Seq(Int)
    BY <1>1, <1>4, IsASeq
<1>6. Len(Content) = Occupied
    BY <1>1, <1>3
<1> QED BY <1>3, <1>5, <1>6

(* Where the two pieces of a write go, and of a read.                      *)
LEMMA WriteIs ==
    ASSUME PipeTypes, Bytes, NEW len \in Nat, NEW c \in 0 .. Writing(len),
           NEW s \in Seq(Int), Len(s) = Writing(len), WriteBytes(s, c)
    PROVE  /\ c \in 0 .. SigCap - Occupied
           /\ j' = Cell(j + c) /\ UNCHANGED <<i, write_refs, read_refs>>
           /\ buf' \in [0 .. SigCap -> Int]
           /\ \A k \in 1 .. Occupied : buf'[Cell(i + k - 1)] = buf[Cell(i + k - 1)]
           /\ \A k \in 1 .. c : buf'[Cell(j + k - 1)] = s[k]
<1> DEFINE first == IF i <= j THEN Smaller(c, Cap - j) ELSE 0
           back  == IF j + first = Cap THEN 0 ELSE j + first
           a == SubSeq(s, 1, first)
           b == SubSeq(s, first + 1, c)
<1>1. /\ SigCap \in Nat /\ Cap = SigCap + 1
      /\ i \in 0 .. SigCap /\ j \in 0 .. SigCap /\ Occupied \in 0 .. SigCap
    BY OccupiedIs, PipeConstants DEF Cap
<1>2. c \in Nat /\ c <= SigCap - Occupied /\ c <= Len(s)
    BY <1>1, PipeConstants DEF Writing, Smaller
<1>3. Occupied = IF i <= j THEN j - i ELSE (Cap - i) + j
    BY DEF Occupied
<1>4. /\ first \in 0 .. c /\ back \in 0 .. SigCap
      /\ j + first <= Cap
      /\ c # first => back + (c - first) <= SigCap
      /\ c = first => back + (c - first) \in 0 .. SigCap
    BY <1>1, <1>2, <1>3 DEF Smaller
<1>5. /\ buf' = Filled(Filled(buf, j, a), back, b)
      /\ j' = back + (c - first)
      /\ UNCHANGED <<i, write_refs, read_refs>>
    BY DEF WriteBytes, Second
<1>6. j' = Cell(j + c)
    BY <1>1, <1>2, <1>3, <1>5 DEF Cell, Smaller
<1>7. /\ a \in Seq(Int) /\ Len(a) = first
      /\ \A k \in 1 .. first : a[k] = s[k]
  <2>1. first \in Int /\ \A k \in 1 .. first : s[k] \in Int
    <3>1. first \in Nat /\ first <= Len(s)
        BY <1>2, <1>4
    <3> HIDE DEF first
    <3> QED BY <3>1, ElementOfSeq
  <2> HIDE DEF first
  <2>2. /\ a \in Seq(Int) /\ Len(a) = IF 1 <= first THEN first - 1 + 1 ELSE 0
        /\ \A k \in 1 .. first - 1 + 1 : a[k] = s[1 + k - 1]
      BY <2>1, SubSeqProperties
  <2> QED BY <1>4, <2>1, <2>2
<1>8. /\ b \in Seq(Int) /\ Len(b) = c - first
      /\ \A k \in 1 .. c - first : b[k] = s[first + k]
  <2>1. first + 1 \in Int /\ c \in Int /\ \A k \in first + 1 .. c : s[k] \in Int
    <3>1. first \in Nat
        BY <1>2, <1>4
    <3> HIDE DEF first
    <3> QED BY <1>2, <3>1, ElementOfSeq
  <2> HIDE DEF first
  <2>2. /\ b \in Seq(Int) /\ Len(b) = IF first + 1 <= c THEN c - (first + 1) + 1 ELSE 0
        /\ \A k \in 1 .. c - (first + 1) + 1 : b[k] = s[first + 1 + k - 1]
      BY <2>1, SubSeqProperties
  <2>3. c - (first + 1) + 1 = c - first
      BY <1>2, <1>4, <2>1
  <2> QED BY <1>2, <1>4, <2>1, <2>2, <2>3
<1>9. \A x \in 0 .. SigCap :
          buf'[x] = IF x \in back .. back + (c - first) - 1 THEN b[x - back + 1]
                    ELSE IF x \in j .. j + first - 1 THEN a[x - j + 1] ELSE buf[x]
    BY <1>5, <1>7, <1>8 DEF Filled
<1>10. buf' \in [0 .. SigCap -> Int]
  <2>1. buf' = [x \in 0 .. SigCap |-> buf'[x]]
      BY <1>5 DEF Filled
  <2>2. \A x \in 0 .. SigCap : buf'[x] \in Int
    <3> SUFFICES ASSUME NEW x \in 0 .. SigCap PROVE buf'[x] \in Int
        OBVIOUS
    <3> first \in Int /\ back \in Int
        BY <1>2, <1>4
    <3> HIDE DEF first, back, a, b
    <3>1. CASE x \in back .. back + (c - first) - 1
      <4>1. x - back + 1 \in 1 .. Len(b)
          BY <1>2, <1>8, <3>1
      <4> QED BY <1>8, <1>9, <3>1, <4>1, ElementOfSeq
    <3>2. CASE x \in j .. j + first - 1 /\ x \notin back .. back + (c - first) - 1
      <4>1. x - j + 1 \in 1 .. Len(a)
          BY <1>1, <1>2, <1>7, <3>2
      <4> QED BY <1>7, <1>9, <3>2, <4>1, ElementOfSeq
    <3>3. CASE x \notin j .. j + first - 1 /\ x \notin back .. back + (c - first) - 1
        BY <1>9, <3>3 DEF Bytes
    <3> QED BY <3>1, <3>2, <3>3
  <2> QED BY <2>1, <2>2
<1> HIDE DEF a, b
<1>11. ASSUME NEW k \in 1 .. Occupied
       PROVE  buf'[Cell(i + k - 1)] = buf[Cell(i + k - 1)]
  <2> DEFINE x == Cell(i + k - 1)
  <2>1. /\ x \in 0 .. SigCap
        /\ x \notin back .. back + (c - first) - 1
        /\ x \notin j .. j + first - 1
      BY <1>1, <1>2, <1>3 DEF Cell, Smaller
  <2> QED BY <1>9, <2>1
<1>12. ASSUME NEW k \in 1 .. c
       PROVE  buf'[Cell(j + k - 1)] = s[k]
  <2> DEFINE x == Cell(j + k - 1)
  <2>1. CASE k <= first
    <3>1. /\ x = j + k - 1 /\ x \in 0 .. SigCap
          /\ x \notin back .. back + (c - first) - 1
          /\ x \in j .. j + first - 1 /\ x - j + 1 = k
        BY <1>1, <1>2, <1>3, <2>1 DEF Cell, Smaller
    <3> k \in 1 .. first
        BY <2>1
    <3> HIDE DEF x, back, first
    <3> QED BY <1>7, <1>9, <3>1 DEF x
  <2>2. CASE ~(k <= first)
    <3>1. /\ x \in 0 .. SigCap
          /\ x \in back .. back + (c - first) - 1
          /\ x - back + 1 = k - first /\ k - first \in 1 .. c - first
          /\ first + (k - first) = k
        BY <1>1, <1>2, <1>3, <2>2 DEF Cell, Smaller
    <3> HIDE DEF x, back, first
    <3> QED BY <1>8, <1>9, <3>1 DEF x
  <2> QED BY <2>1, <2>2
<1> QED BY <1>1, <1>2, <1>5, <1>6, <1>10, <1>11, <1>12

LEMMA WritePuts ==
    ASSUME PipeTypes, Bytes, PipeTypes', NEW len \in Nat, NEW c \in 0 .. Writing(len),
           WriteBytes(Numbered(Writing(len)), c), next' = (next + c) % Laps
    PROVE  /\ c \in 0 .. SigCap /\ Len(Content) + c <= SigCap
           /\ Content' = Content \o Numbered(c) /\ Bytes'
<1> DEFINE s == Numbered(Writing(len))
           d == Numbered(c)
<1>1. /\ SigCap \in Nat /\ Cap = SigCap + 1 /\ Laps \in Nat /\ Laps > 0
      /\ i \in 0 .. SigCap /\ j \in 0 .. SigCap /\ Occupied \in 0 .. SigCap
      /\ Cell(i + Occupied) = j /\ next \in Int
    BY OccupiedIs, PipeConstants, UsersConstants DEF Cap, Bytes
<1>2. Writing(len) \in Nat /\ c \in Nat /\ c <= Writing(len)
    BY <1>1, PipeConstants DEF Writing, Smaller
<1>3. \A k \in Int : (next + k - 1) % Laps \in Int
    BY <1>1, DivMod
<1>4. /\ s \in Seq(Int) /\ Len(s) = Writing(len)
      /\ \A k \in 1 .. Writing(len) : s[k] = (next + k - 1) % Laps
  <2>1. [k \in 1 .. Writing(len) |-> (next + k - 1) % Laps] \in Seq(Int)
      BY <1>2, <1>3, IsASeq
  <2> QED BY <1>2, <2>1 DEF Numbered
<1>5. /\ d \in Seq(Int) /\ Len(d) = c
      /\ \A k \in 1 .. c : d[k] = (next + k - 1) % Laps
  <2>1. [k \in 1 .. c |-> (next + k - 1) % Laps] \in Seq(Int)
      BY <1>2, <1>3, IsASeq
  <2> QED BY <1>2, <2>1 DEF Numbered
<1> HIDE DEF s, d
<1>6. /\ c \in 0 .. SigCap - Occupied
      /\ j' = Cell(j + c) /\ UNCHANGED <<i, write_refs, read_refs>>
      /\ buf' \in [0 .. SigCap -> Int]
      /\ \A k \in 1 .. Occupied : buf'[Cell(i + k - 1)] = buf[Cell(i + k - 1)]
      /\ \A k \in 1 .. c : buf'[Cell(j + k - 1)] = s[k]
    BY <1>4, WriteIs DEF s
<1>7. Bytes'
  <2>1. (next + c) % Laps \in Int
      BY <1>1, <1>2, DivMod
  <2> QED BY <1>6, <2>1 DEF Bytes
<1>8. Occupied' = Occupied + c
  <2>1. Cell(i + (Occupied + c)) = Cell(j + c) /\ Occupied + c \in 0 .. SigCap
      BY <1>1, <1>6 DEF Cell
  <2>2. j' \in 0 .. SigCap /\ j' = Cell(i + (Occupied + c))
      BY <1>6, <2>1 DEF PipeTypes
  <2>3. Occupied + c = IF i <= j' THEN j' - i ELSE (Cap - i) + j'
      BY <1>1, <2>1, <2>2, OccupiedBy
  <2> QED BY <1>6, <2>3 DEF Occupied, Cap
<1>9. /\ Content \in Seq(Int) /\ Len(Content) = Occupied
      /\ \A k \in 1 .. Occupied : Content[k] = buf[Cell(i + k - 1)]
    BY ContentIs
<1>10. /\ Content' \in Seq(Int) /\ Len(Content') = Occupied + c
       /\ \A k \in 1 .. Occupied + c : Content'[k] = buf'[Cell(i + k - 1)]
  <2>1. /\ Content' \in Seq(Int) /\ Len(Content') = Occupied'
        /\ Content' = [k \in 1 .. Occupied' |-> buf'[Cell(i' + k - 1)]]
    <3>1. (PipeTypes /\ Bytes =>
              /\ Content \in Seq(Int) /\ Len(Content) = Occupied
              /\ Content = [k \in 1 .. Occupied |-> buf[Cell(i + k - 1)]])'
        BY ContentIs, PTL
    <3> QED BY <1>7, <3>1 DEF Cell, Cap
  <2> QED BY <1>6, <1>8, <2>1
<1>11. /\ Content \o d \in Seq(Int) /\ Len(Content \o d) = Occupied + c
       /\ \A k \in 1 .. Occupied + c :
              (Content \o d)[k] = IF k <= Occupied THEN Content[k] ELSE d[k - Occupied]
    BY <1>5, <1>9, ConcatProperties
<1>12. ASSUME NEW k \in 1 .. Occupied + c
       PROVE  Content'[k] = (Content \o d)[k]
  <2>1. CASE k <= Occupied
    <3>1. k \in 1 .. Occupied
        BY <1>1, <2>1
    <3>2. Content'[k] = buf'[Cell(i + k - 1)] /\ (Content \o d)[k] = Content[k]
        BY <1>10, <1>11, <2>1
    <3> QED BY <1>6, <1>9, <3>1, <3>2
  <2>2. CASE ~(k <= Occupied)
    <3>1. /\ k - Occupied \in 1 .. c /\ Cell(i + k - 1) = Cell(j + (k - Occupied) - 1)
          /\ k - Occupied \in 1 .. Writing(len)
        BY <1>1, <1>2, <1>6, <2>2 DEF Cell
    <3>2. Content'[k] = s[k - Occupied]
        BY <1>6, <1>10, <3>1
    <3>3. (Content \o d)[k] = d[k - Occupied]
        BY <1>11, <2>2
    <3>4. s[k - Occupied] = d[k - Occupied]
        BY <1>4, <1>5, <3>1
    <3> QED BY <3>2, <3>3, <3>4
  <2> QED BY <2>1, <2>2
<1>13. Content' = Content \o d
    BY <1>10, <1>11, <1>12, SeqEqual
<1> QED BY <1>1, <1>6, <1>7, <1>9, <1>13 DEF d

LEMMA ReadGets ==
    ASSUME PipeTypes, Bytes, PipeTypes', UNCHANGED next,
           NEW len \in Nat, NEW c \in 0 .. Reading(len), NEW out, ReadBytes(c, out)
    PROVE  /\ c \in 0 .. SigCap /\ c <= Len(Content)
           /\ out = SubSeq(Content, 1, c)
           /\ Content' = SubSeq(Content, c + 1, Len(Content)) /\ Bytes'
<1> DEFINE first == IF j < i THEN Smaller(c, Cap - i) ELSE 0
           back  == IF i + first = Cap THEN 0 ELSE i + first
           a == Slice(i, first)
           b == Slice(back, c - first)
<1>1. /\ SigCap \in Nat /\ Cap = SigCap + 1
      /\ i \in 0 .. SigCap /\ j \in 0 .. SigCap /\ Occupied \in 0 .. SigCap
      /\ Cell(i + Occupied) = j
      /\ Occupied = IF i <= j THEN j - i ELSE (Cap - i) + j
    BY OccupiedIs, PipeConstants DEF Cap, Occupied
<1>2. c \in Nat /\ c <= Occupied
    BY <1>1, PipeConstants DEF Reading, Smaller
<1>3. /\ first \in 0 .. c /\ back \in Nat /\ i + first <= Cap
      /\ back + (c - first) <= Cap
    BY <1>1, <1>2 DEF Smaller
<1>4. /\ out = a \o b /\ i' = back + (c - first) /\ UNCHANGED <<j, buf>>
    BY DEF ReadBytes
<1>5. i' = Cell(i + c)
    BY <1>1, <1>2, <1>4 DEF Cell, Smaller
<1>6. Bytes'
    BY <1>4 DEF Bytes
<1>7. /\ a \in Seq(Int) /\ Len(a) = first
      /\ \A k \in 1 .. first : a[k] = buf[i + k - 1]
  <2> first \in Nat
      BY <1>2, <1>3
  <2> HIDE DEF first
  <2>1. \A k \in 1 .. first : buf[i + k - 1] \in Int
    <3> SUFFICES ASSUME NEW k \in 1 .. first PROVE buf[i + k - 1] \in Int
        OBVIOUS
    <3>1. i + k - 1 \in 0 .. SigCap
        BY <1>1, <1>3
    <3> QED BY <3>1 DEF Bytes
  <2>2. [k \in 1 .. first |-> buf[i + k - 1]] \in Seq(Int)
      BY <2>1, IsASeq
  <2> QED BY <2>2 DEF Slice
<1>8. /\ b \in Seq(Int) /\ Len(b) = c - first
      /\ \A k \in 1 .. c - first : b[k] = buf[back + k - 1]
  <2> first \in Nat /\ back \in Nat /\ c - first \in Nat
      BY <1>2, <1>3
  <2>1. \A k \in 1 .. c - first : buf[back + k - 1] \in Int
    <3> HIDE DEF first, back
    <3> SUFFICES ASSUME NEW k \in 1 .. c - first PROVE buf[back + k - 1] \in Int
        OBVIOUS
    <3>1. back + k - 1 \in 0 .. SigCap
        BY <1>1, <1>2, <1>3
    <3> QED BY <3>1 DEF Bytes
  <2> HIDE DEF first, back
  <2>2. [k \in 1 .. c - first |-> buf[back + k - 1]] \in Seq(Int)
      BY <2>1, IsASeq
  <2> QED BY <2>2 DEF Slice
<1> HIDE DEF a, b
<1>9. /\ out \in Seq(Int) /\ Len(out) = c
      /\ \A k \in 1 .. c : out[k] = IF k <= first THEN a[k] ELSE b[k - first]
  <2> HIDE DEF first, back
  <2> first \in Nat /\ c \in Nat /\ Len(a) + Len(b) = c
      BY <1>2, <1>3, <1>7, <1>8
  <2> QED BY <1>4, <1>7, <1>8, ConcatProperties
<1>10. /\ Content \in Seq(Int) /\ Len(Content) = Occupied
       /\ \A k \in 1 .. Occupied : Content[k] = buf[Cell(i + k - 1)]
    BY ContentIs
<1>11. \A k \in 1 .. Occupied : Content[k] \in Int
    BY <1>10, ElementOfSeq
<1>12. /\ SubSeq(Content, 1, c) \in Seq(Int) /\ Len(SubSeq(Content, 1, c)) = c
       /\ \A k \in 1 .. c : SubSeq(Content, 1, c)[k] = Content[k]
  <2>1. \A k \in 1 .. c : Content[k] \in Int
      BY <1>1, <1>2, <1>11
  <2>2. /\ SubSeq(Content, 1, c) \in Seq(Int)
        /\ Len(SubSeq(Content, 1, c)) = IF 1 <= c THEN c - 1 + 1 ELSE 0
        /\ \A k \in 1 .. c - 1 + 1 : SubSeq(Content, 1, c)[k] = Content[1 + k - 1]
      BY <1>2, <2>1, SubSeqProperties
  <2> QED BY <1>2, <2>2
<1>13. ASSUME NEW k \in 1 .. c
       PROVE  out[k] = SubSeq(Content, 1, c)[k]
  <2>1. Content[k] = buf[Cell(i + k - 1)]
      BY <1>1, <1>2, <1>10
  <2>2. CASE k <= first
    <3>1. Cell(i + k - 1) = i + k - 1 /\ k \in 1 .. first
        BY <1>1, <1>2, <2>2 DEF Cell, Smaller
    <3> HIDE DEF first
    <3> QED BY <1>7, <1>9, <1>12, <2>1, <2>2, <3>1
  <2>3. CASE ~(k <= first)
    <3>1. /\ Cell(i + k - 1) = back + (k - first) - 1
          /\ k - first \in 1 .. c - first
        BY <1>1, <1>2, <2>3 DEF Cell, Smaller
    <3> HIDE DEF first, back
    <3> QED BY <1>8, <1>9, <1>12, <2>1, <2>3, <3>1
  <2> QED BY <2>2, <2>3
<1>14. out = SubSeq(Content, 1, c)
    BY <1>9, <1>12, <1>13, SeqEqual
<1>15. Occupied' = Occupied - c
  <2>1. Cell(i' + (Occupied - c)) = j /\ Occupied - c \in 0 .. SigCap
      BY <1>1, <1>2, <1>5 DEF Cell
  <2>2. i' \in 0 .. SigCap
      BY DEF PipeTypes
  <2>3. Occupied - c = IF i' <= j THEN j - i' ELSE (Cap - i') + j
      BY <1>1, <2>1, <2>2, OccupiedBy
  <2> QED BY <1>4, <2>3 DEF Occupied, Cap
<1>16. /\ Content' \in Seq(Int) /\ Len(Content') = Occupied - c
       /\ \A k \in 1 .. Occupied - c : Content'[k] = buf[Cell(i' + k - 1)]
  <2>1. (PipeTypes /\ Bytes =>
              /\ Content \in Seq(Int) /\ Len(Content) = Occupied
              /\ Content = [k \in 1 .. Occupied |-> buf[Cell(i + k - 1)]])'
      BY ContentIs, PTL
  <2> QED BY <1>4, <1>6, <1>15, <2>1 DEF Cell, Cap
<1> DEFINE rest == SubSeq(Content, c + 1, Len(Content))
<1>17. /\ rest \in Seq(Int) /\ Len(rest) = Occupied - c
       /\ \A k \in 1 .. Occupied - c : rest[k] = Content[c + k]
  <2>1. \A k \in c + 1 .. Occupied : Content[k] \in Int
      BY <1>1, <1>2, <1>11
  <2>2. /\ rest \in Seq(Int)
        /\ Len(rest) = IF c + 1 <= Occupied THEN Occupied - (c + 1) + 1 ELSE 0
        /\ \A k \in 1 .. Occupied - (c + 1) + 1 : rest[k] = Content[c + 1 + k - 1]
      BY <1>1, <1>2, <1>10, <2>1, SubSeqProperties
  <2>3. Occupied - (c + 1) + 1 = Occupied - c
      BY <1>1, <1>2
  <2> HIDE DEF rest
  <2> QED BY <1>1, <1>2, <2>2, <2>3
<1> HIDE DEF rest
<1>18. ASSUME NEW k \in 1 .. Occupied - c
       PROVE  Content'[k] = rest[k]
  <2>1. /\ c + k \in 1 .. Occupied /\ Cell(i' + k - 1) = Cell(i + (c + k) - 1)
      BY <1>1, <1>2, <1>5 DEF Cell
  <2>2. Content'[k] = buf[Cell(i + (c + k) - 1)]
      BY <1>16, <2>1
  <2>3. rest[k] = Content[c + k]
      BY <1>17
  <2> QED BY <1>10, <2>1, <2>2, <2>3
<1>19. Content' = rest
    BY <1>16, <1>17, <1>18, SeqEqual
<1> QED BY <1>1, <1>2, <1>6, <1>10, <1>14, <1>19 DEF rest

-----------------------------------------------------------------------------
ChannelVars == <<Content, next, dest, write_refs > 0, read_refs > 0>>

ChannelStep == Bytes' /\ [Abstract!Next]_ChannelVars

(* A step that moves no byte and takes the last handle of no end.          *)
LEMMA ChannelStays ==
    ASSUME Bytes, UNCHANGED <<i, j, buf, next, dest>>,
           write_refs' > 0 <=> write_refs > 0, read_refs' > 0 <=> read_refs > 0
    PROVE  ChannelStep
<1>1. Bytes'
    BY DEF Bytes
<1>2. UNCHANGED Content
    BY DEF Content, Occupied, Cap
<1>3. (write_refs' > 0) = (write_refs > 0) /\ (read_refs' > 0) = (read_refs > 0)
    OBVIOUS
<1> QED BY <1>1, <1>2, <1>3 DEF ChannelStep, ChannelVars

LEMMA WriteIsPut ==
    ASSUME IsFiniteSet(Procs), PipeInv, PipeInv', Bytes, NEW th \in Thread, WriteSome(th)
    PROVE  ChannelStep
<1>1. CASE UNCHANGED <<pipeVars, left, next>>
    BY <1>1, ChannelStays DEF WriteSome, pipeVars
<1>2. ASSUME read_refs > 0, NEW c \in 0 .. Writing(left[th]),
             WriteBytes(Numbered(Writing(left[th])), c),
             next' = (next + c) % Laps, UNCHANGED dest
      PROVE  ChannelStep
  <2>1. left[th] \in Nat
      BY DEF PipeInv, PipeTypes
  <2>2. /\ c \in 0 .. SigCap /\ Len(Content) + c <= SigCap
        /\ Content' = Content \o Numbered(c) /\ Bytes'
      BY <1>2, <2>1, WritePuts DEF PipeInv
  <2>3. write_refs > 0 /\ UNCHANGED <<write_refs, read_refs>>
    <3>1. "write" \in holds[th[1]] /\ th[1] \in Procs
        BY DEF WriteSome, Has, Thread
    <3> QED BY <1>2, <3>1, HolderCounts DEF Refs, Ends, WriteBytes
  <2>4. Abstract!Numbered(next, c) = Numbered(c)
      BY DEF Abstract!Numbered, Numbered
  <2>5. Abstract!Put(c)
      BY <1>2, <2>2, <2>3, <2>4 DEF Abstract!Put
  <2> QED BY <2>2, <2>5 DEF Abstract!Next, ChannelStep
<1> QED BY <1>1, <1>2 DEF WriteSome

LEMMA ReadIsGet ==
    ASSUME IsFiniteSet(Procs), PipeInv, PipeInv', Bytes, NEW th \in Thread, ReadSome(th)
    PROVE  ChannelStep
<1>1. CASE UNCHANGED <<pipeVars, left, dest>>
    BY <1>1, ChannelStays DEF ReadSome, pipeVars
<1>2. ASSUME NEW c \in 0 .. Reading(left[th]), ReadBytes(c, dest'), UNCHANGED next
      PROVE  ChannelStep
  <2>1. left[th] \in Nat
      BY DEF PipeInv, PipeTypes
  <2>2. /\ c \in 0 .. SigCap /\ c <= Len(Content)
        /\ dest' = SubSeq(Content, 1, c)
        /\ Content' = SubSeq(Content, c + 1, Len(Content)) /\ Bytes'
      BY <1>2, <2>1, ReadGets DEF PipeInv
  <2>3. read_refs > 0 /\ UNCHANGED <<write_refs, read_refs>>
    <3>1. "read" \in holds[th[1]] /\ th[1] \in Procs
        BY DEF ReadSome, Has, Thread
    <3> QED BY <1>2, <3>1, HolderCounts DEF Refs, Ends, ReadBytes
  <2>4. Abstract!Get(c)
      BY <1>2, <2>2, <2>3 DEF Abstract!Get
  <2> QED BY <2>2, <2>4 DEF Abstract!Next, ChannelStep
<1> QED BY <1>1, <1>2 DEF ReadSome

LEMMA DeleteIsClose ==
    ASSUME IsFiniteSet(Procs), PipeInv, PipeInv', Bytes,
           NEW p \in Procs, NEW e \in Ends, DeleteOne(p, e)
    PROVE  ChannelStep
<1>1. /\ UNCHANGED <<i, j, buf, next, dest>>
      /\ write_refs' = IF e = "write" THEN write_refs - 1 ELSE write_refs
      /\ read_refs' = IF e = "read" THEN read_refs - 1 ELSE read_refs
    BY DEF DeleteOne, DeleteHandle
<1>2. Refs(e) \in Nat /\ Refs(e) > 0
    BY HolderCounts DEF DeleteOne, PipeInv, HandlesFollow
<1>3. Bytes' /\ UNCHANGED Content
    BY <1>1 DEF Bytes, Content, Occupied, Cap
<1>4. CASE e = "write"
  <2>1. write_refs \in Nat /\ write_refs > 0 /\ write_refs' = write_refs - 1
      BY <1>1, <1>2, <1>4 DEF Refs
  <2>2. UNCHANGED read_refs
      BY <1>1, <1>4
  <2>3. CASE write_refs' > 0
      BY <1>1, <2>1, <2>2, <2>3, ChannelStays
  <2>4. CASE ~(write_refs' > 0)
    <3>1. (write_refs' > 0) = FALSE /\ UNCHANGED (read_refs > 0)
        BY <2>2, <2>4
    <3>2. Abstract!CloseWrite
        BY <1>1, <1>3, <2>1, <3>1 DEF Abstract!CloseWrite
    <3> QED BY <1>3, <3>2 DEF Abstract!Next, ChannelStep
  <2> QED BY <2>3, <2>4
<1>5. CASE e = "read"
  <2>1. read_refs \in Nat /\ read_refs > 0 /\ read_refs' = read_refs - 1
      BY <1>1, <1>2, <1>5 DEF Refs
  <2>2. UNCHANGED write_refs
      BY <1>1, <1>5
  <2>3. CASE read_refs' > 0
      BY <1>1, <2>1, <2>2, <2>3, ChannelStays
  <2>4. CASE ~(read_refs' > 0)
    <3>1. (read_refs' > 0) = FALSE /\ UNCHANGED (write_refs > 0)
        BY <2>2, <2>4
    <3>2. Abstract!CloseRead
        BY <1>1, <1>3, <2>1, <3>1 DEF Abstract!CloseRead
    <3> QED BY <1>3, <3>2 DEF Abstract!Next, ChannelStep
  <2> QED BY <2>3, <2>4
<1> QED BY <1>4, <1>5 DEF Ends

(* A child's handles are not the first of their kinds.                     *)
LEMMA ForkIsSilent ==
    ASSUME IsFiniteSet(Procs), PipeInv, Bytes,
           NEW p \in Procs, NEW c \in Procs, NEW t \in Tids, Fork(p, t, c)
    PROVE  ChannelStep
<1>1. /\ UNCHANGED <<i, j, buf, next, dest>>
      /\ write_refs' = IF "write" \in holds[p] THEN write_refs + 1 ELSE write_refs
      /\ read_refs' = IF "read" \in holds[p] THEN read_refs + 1 ELSE read_refs
    BY DEF Fork, CopyHandles
<1>2. /\ "write" \in holds[p] => write_refs \in Nat /\ write_refs > 0
      /\ "read" \in holds[p] => read_refs \in Nat /\ read_refs > 0
    BY HolderCounts DEF Refs, Ends
<1>3. (write_refs' > 0 <=> write_refs > 0) /\ (read_refs' > 0 <=> read_refs > 0)
    BY <1>1, <1>2
<1> QED BY <1>1, <1>3, ChannelStays

LEMMA StepMaps ==
    ASSUME IsFiniteSet(Procs), PipeInv, PipeInv', Bytes, [Next]_vars
    PROVE  ChannelStep
<1> USE DEF pipeVars
<1>1. ASSUME NEW th \in Thread, UserStep(th)
      PROVE  ChannelStep
  <2>1. CASE NoHandle(th)
      BY <2>1, ChannelStays DEF NoHandle, Return
  <2>2. CASE WaitWrite(th)
      BY <2>2, ChannelStays DEF WaitWrite
  <2>3. CASE WaitRead(th)
      BY <2>3, ChannelStays DEF WaitRead
  <2> QED BY <1>1, <2>1, <2>2, <2>3, WriteIsPut, ReadIsGet DEF UserStep
<1>2. CASE \E th \in Thread, n \in 1 .. MaxLen : CallWrite(th, n) \/ CallRead(th, n)
    BY <1>2, ChannelStays DEF CallWrite, CallRead
<1>3. CASE \E th \in Thread, e \in Ends : Close(th, e)
    BY <1>3, ChannelStays DEF Close
<1>4. CASE \E p \in Procs, e \in Ends : DeleteOne(p, e)
    BY <1>4, DeleteIsClose
<1>5. CASE \E p, c \in Procs, t \in Tids : Fork(p, t, c)
    BY <1>5, ForkIsSilent
<1>6. CASE \E p \in Procs, t, u \in Tids : Spawn(p, t, u)
    BY <1>6, ChannelStays DEF Spawn
<1>7. CASE \E p \in Procs : Exit(p) \/ Reap(p)
    BY <1>7, ChannelStays DEF Exit, Reap, Vanish
<1>8. CASE \E p \in Procs, t, m \in Tids, d \in SUBSET Ends : Exec(p, t, m, d)
    BY <1>8, ChannelStays DEF Exec, Vanish
<1>9. CASE UNCHANGED vars
    BY <1>9, ChannelStays DEF vars, userVars
<1> QED BY <1>1, <1>2, <1>3, <1>4, <1>5, <1>6, <1>7, <1>8, <1>9 DEF Next

LEMMA StartMaps == Init => Abstract!Init /\ Bytes
<1> SUFFICES ASSUME Init PROVE Abstract!Init /\ Bytes
    OBVIOUS
<1>1. Bytes
    BY PipeConstants DEF Init, Bytes
<1>2. Occupied = 0
    BY DEF Init, Occupied
<1>3. Content = << >>
    BY <1>2 DEF Content
<1>4. (write_refs > 0) = TRUE /\ (read_refs > 0) = TRUE
    BY DEF Init
<1> QED BY <1>1, <1>3, <1>4 DEF Init, Abstract!Init

(* What is written to the pipe is read from it in the same order, no byte  *)
(* twice and none skipped, and an end that is closed for good stays so: the*)
(* pipe implements Channel, whatever its size, however a copy that wraps   *)
(* around the end of the buffer is cut and wherever it fails.              *)
THEOREM PipeImplementsChannel ==
    ASSUME IsFiniteSet(Procs) PROVE Spec => ImplementsChannel
<1>1. Init => PipeInv /\ Abstract!Init /\ Bytes
    BY PipeStart, StartMaps
<1>2. PipeInv /\ [Next]_vars => PipeInv'
    BY PipeStep
<1>3. PipeInv /\ PipeInv' /\ Bytes /\ [Next]_vars => Bytes' /\ [Abstract!Next]_ChannelVars
    BY StepMaps DEF ChannelStep
<1> QED BY <1>1, <1>2, <1>3, PTL DEF Spec, ImplementsChannel, Abstract!Spec, ChannelVars
=============================================================================
