---------------------------- MODULE KernelProofs ----------------------------
(***************************************************************************)
(* The process tree of the kernel is consistent and every variable keeps   *)
(* its type, for any number of processes, threads and signals.  The two    *)
(* need each other: the signal that ends an exit goes to parent[p], which  *)
(* is a process only because the family is in order, and a sleeper's time  *)
(* never goes below zero only because the sleepers are.  On top of that,   *)
(* where the threads are and what they wait for.                           *)
(***************************************************************************)
EXTENDS Reapers, QueueLemmas

(* Whoever a pending call is about has not been freed, a process on its    *)
(* way from the living to the zombies has no children any more, and one on *)
(* its way to a new image is alive.                                        *)
FrameOK(f) ==
    /\ pstate[f.p] # "free"
    /\ f.op = "bury" => f.p # Root /\ kids[f.p] = << >> /\ zkids[f.p] = << >>
    /\ f.op = "reset" => pstate[f.p] = "live"

CallsOK == Up => \A f \in Items(calls) : FrameOK(f)

(* An exec only ever waits for the root to take its signal: no exit but    *)
(* the root's, which shuts down, comes between.                            *)
ResetAlone ==
    Up => \A f, g \in Items(calls) :
             f.op = "reset" =>
                g.op = "reset" \/ (g.op \in {"signal", "exit"} /\ g.p = Root)

(* A thread that is in the schedule or in some wait queue belongs to a     *)
(* process that is alive and not on its way out.                           *)
InQueue(th) ==
    \/ th \in WaitersOf(sleepQ)
    \/ \E p \in Procs : th \in WaitersOf(joinQ[p]) \/ th \in WaitersOf(sigQ[p])

Held(th) == th \in Items(sched) \/ InQueue(th)

LiveOnly(th) ==
    /\ pstate[th[1]] = "live"
    /\ \A f \in Items(calls) : f.op = "bury" => f.p # th[1]

HeldLive == Up => \A th \in Thread : Held(th) => LiveOnly(th)

Sorted(q) == \A i, j \in 1 .. Len(q) : i < j => q[i].left <= q[j].left

IInv ==
    /\ TypeOK
    /\ FamilyOK
    /\ CallsOK
    /\ ResetAlone
    /\ HeldLive
    /\ Sorted(sleepQ)

-----------------------------------------------------------------------------
(* Initially.                                                              *)

LEMMA InitIInv == Init => IInv
<1> SUFFICES ASSUME Init PROVE IInv
    OBVIOUS
<1> USE KernelConstants DEF Init
<1>1. sched \in Seq(Thread)
    BY DEF Thread
<1>2. TypeOK
    BY <1>1 DEF TypeOK, Thread, Frame, Waiter, Sleeper
<1>3. FamilyOK
  <2>1. \A p \in Procs : Items(kids[p]) = {} /\ Items(zkids[p]) = {}
                         /\ NoDup(kids[p]) /\ NoDup(zkids[p])
    BY DEF Items, NoDup
  <2>2. \A c \in Procs : parent[c] = NULL /\ NULL \notin Procs
    OBVIOUS
  <2>3. \A c \in Procs \ {Root} : pstate[c] = "free"
    OBVIOUS
  <2>4. RootLives /\ ListsMatch /\ ParentsLive
    BY <2>1, <2>2, <2>3 DEF RootLives, ListsMatch, ParentsLive
  <2>5. QED BY <2>4 DEF FamilyOK
<1>4. CallsOK /\ Sorted(sleepQ)
    BY DEF CallsOK, Items, Sorted
<1>5. ResetAlone
    BY DEF ResetAlone, Items
<1>6. HeldLive
  <2>1. \A th \in Thread : Held(th) => th = <<Root, 0>>
    BY DEF Held, InQueue, WaitersOf, Items
  <2>2. Items(calls) = {}
    BY DEF Items
  <2>3. QED BY <2>1, <2>2 DEF HeldLive, LiveOnly
<1>7. QED BY <1>2, <1>3, <1>4, <1>5, <1>6 DEF IInv

-----------------------------------------------------------------------------
(* Pieces of the handlers.                                                 *)

(* A queue in order stays so when threads are dropped from it.             *)
LEMMA DropSorted ==
    ASSUME NEW q \in Seq(Sleeper), NEW T, Sorted(q)
    PROVE  Sorted(Drop(q, T))
<1>1. Drop(q, T) \in Seq(Sleeper) /\ \E h : Embeds(h, Drop(q, T), q, Len(q), T)
    BY DropEmbeds
<1> DEFINE d == Drop(q, T)
<1> HIDE DEF d
<1>2. PICK h : Embeds(h, d, q, Len(q), T)
    BY <1>1 DEF d
<1>3. \A k, l \in 1 .. Len(d) : k < l => d[k].left <= d[l].left
    BY <1>2, SMTT(60) DEF Embeds, Sorted
<1>4. QED BY <1>3 DEF Sorted, d

LEMMA WaitersDropped ==
    ASSUME NEW S, NEW q \in Seq(S), NEW T, NEW X,
           \A e \in S : e \in T <=> e.thr \in X
    PROVE  \A th : th \in WaitersOf(Drop(q, T)) <=> th \in WaitersOf(q) /\ th \notin X
<1>1. Items(Drop(q, T)) = Items(q) \ T
    BY DropProps
<1>2. \A e \in Items(q) : e \in S
    BY DEF Items
<1>3. \A th :
        /\ th \in WaitersOf(q) <=> (\E e \in Items(q) : th = e.thr)
        /\ th \in WaitersOf(Drop(q, T)) <=> (\E e \in Items(Drop(q, T)) : th = e.thr)
    BY DEF WaitersOf, Items
<1>4. ASSUME NEW th, th \in WaitersOf(q), th \notin X
      PROVE  \E e \in Items(Drop(q, T)) : th = e.thr
  <2>1. PICK e \in Items(q) : th = e.thr
    BY <1>3, <1>4
  <2>2. e \notin T
    BY <2>1, <1>2, <1>4
  <2>3. QED BY <2>1, <2>2, <1>1
<1>5. ASSUME NEW th, NEW e \in Items(Drop(q, T)), th = e.thr
      PROVE  th \in WaitersOf(q) /\ th \notin X
  <2>1. e \in Items(q) /\ e \notin T
    BY <1>1, <1>5
  <2>2. QED BY <2>1, <1>2, <1>3, <1>5
<1>6. QED BY <1>3, <1>4, <1>5

LEMMA DetachKeeps ==
    ASSUME TypeOK, Sorted(sleepQ), NEW X, DetachFromQueues(X)
    PROVE  /\ joinQ' \in [Procs -> Seq(Waiter(Tids))]
           /\ sigQ' \in [Procs -> Seq(Waiter(Sigs))]
           /\ sleepQ' \in Seq(Sleeper)
           /\ Sorted(sleepQ)'
           /\ \A th \in Thread : InQueue(th)' <=> InQueue(th) /\ th \notin X
<1>1. \A p \in Procs : Drop(joinQ[p], [thr : X, mask : SUBSET Tids]) \in Seq(Waiter(Tids))
  <2> TAKE p \in Procs
  <2>1. joinQ[p] \in Seq(Waiter(Tids))
    BY DEF TypeOK
  <2>2. QED BY <2>1, DropProps
<1>2. \A p \in Procs : Drop(sigQ[p], [thr : X, mask : SUBSET Sigs]) \in Seq(Waiter(Sigs))
  <2> TAKE p \in Procs
  <2>1. sigQ[p] \in Seq(Waiter(Sigs))
    BY DEF TypeOK
  <2>2. QED BY <2>1, DropProps
<1>3. sleepQ \in Seq(Sleeper)
    BY DEF TypeOK
<1>4. sleepQ' \in Seq(Sleeper)
    BY <1>3, DropProps DEF DetachFromQueues
<1>5. Sorted(sleepQ')
    BY <1>3, DropSorted DEF DetachFromQueues
<1>6. \A p \in Procs, th \in Thread :
        /\ th \in WaitersOf(joinQ'[p]) <=> th \in WaitersOf(joinQ[p]) /\ th \notin X
        /\ th \in WaitersOf(sigQ'[p]) <=> th \in WaitersOf(sigQ[p]) /\ th \notin X
  <2> TAKE p \in Procs
  <2>0. sigQ[p] \in Seq(Waiter(Sigs))
    BY DEF TypeOK
  <2>1. joinQ[p] \in Seq(Waiter(Tids))
    BY DEF TypeOK
  <2> DEFINE J == [thr : X, mask : SUBSET Tids]
             G == [thr : X, mask : SUBSET Sigs]
  <2>2. \A e \in Waiter(Tids) : e \in J <=> e.thr \in X
    BY DEF Waiter
  <2>3. \A e \in Waiter(Sigs) : e \in G <=> e.thr \in X
    BY DEF Waiter
  <2> HIDE DEF J, G
  <2>4. \A th : th \in WaitersOf(Drop(joinQ[p], J)) <=> th \in WaitersOf(joinQ[p]) /\ th \notin X
    BY <2>1, <2>2, WaitersDropped
  <2>5. \A th : th \in WaitersOf(Drop(sigQ[p], G)) <=> th \in WaitersOf(sigQ[p]) /\ th \notin X
    BY <2>0, <2>3, WaitersDropped
  <2>6. QED BY <2>4, <2>5 DEF DetachFromQueues, J, G
<1>7. \A th \in Thread : th \in WaitersOf(sleepQ') <=> th \in WaitersOf(sleepQ) /\ th \notin X
  <2> DEFINE Z == [thr : X, left : 0 .. MaxSleep]
  <2>1. \A e \in Sleeper : e \in Z <=> e.thr \in X
    BY DEF Sleeper
  <2> HIDE DEF Z
  <2>2. \A th : th \in WaitersOf(Drop(sleepQ, Z)) <=> th \in WaitersOf(sleepQ) /\ th \notin X
    BY <1>3, <2>1, WaitersDropped
  <2>3. QED BY <2>2 DEF DetachFromQueues, Z
<1>8. \A th \in Thread : InQueue(th)' <=> InQueue(th) /\ th \notin X
  <2> TAKE th \in Thread
  <2>1. InQueue(th)' <=> \/ th \in WaitersOf(sleepQ')
                        \/ \E p \in Procs : th \in WaitersOf(joinQ'[p]) \/ th \in WaitersOf(sigQ'[p])
    BY DEF InQueue, WaitersOf
  <2>2. QED BY <2>1, <1>6, <1>7 DEF InQueue
<1>9. QED BY <1>1, <1>2, <1>4, <1>5, <1>8 DEF DetachFromQueues, Sorted

(* The adoption of a process' children by the root.                        *)
LEMMA AbandonKeeps ==
    ASSUME TypeOK, FamilyOK, Up, Up', NEW p \in Procs, p # Root, Abandon(p)
    PROVE  /\ FamilyOK'
           /\ parent' \in [Procs -> Procs \cup {NULL}]
           /\ kids' \in [Procs -> Seq(Procs)] /\ zkids' \in [Procs -> Seq(Procs)]
           /\ kids'[p] = << >> /\ zkids'[p] = << >>
           /\ \A q \in Procs \ {Root} : /\ kids[q] = << >> => kids'[q] = << >>
                                        /\ zkids[q] = << >> => zkids'[q] = << >>
<1> USE KernelConstants
<1>1. RootLives /\ ListsMatch /\ ParentsLive
    BY DEF FamilyOK
<1>2. /\ kids[p] \in Seq(Procs) /\ zkids[p] \in Seq(Procs)
      /\ kids[Root] \in Seq(Procs) /\ zkids[Root] \in Seq(Procs)
    BY DEF TypeOK
<1>3. /\ kids' = [kids EXCEPT ![Root] = kids[Root] \o kids[p], ![p] = << >>]
      /\ zkids' = [zkids EXCEPT ![Root] = zkids[Root] \o zkids[p], ![p] = << >>]
      /\ pstate' = pstate
    BY DEF Abandon
<1>4. \A c \in Procs : parent'[c] = IF c \in Items(kids[p]) \cup Items(zkids[p])
                                    THEN Root ELSE parent[c]
    BY DEF Abandon
<1>5. \A c \in Procs : c \in Items(kids[p]) \cup Items(zkids[p])
                       <=> parent[c] = p /\ pstate[c] \in {"live", "zombie"}
    BY <1>1 DEF ListsMatch
<1>6. /\ kids[Root] \o kids[p] \in Seq(Procs)
      /\ Items(kids[Root] \o kids[p]) = Items(kids[Root]) \cup Items(kids[p])
      /\ NoDup(kids[Root] \o kids[p])
  <2>1. Items(kids[Root]) \cap Items(kids[p]) = {} /\ NoDup(kids[Root]) /\ NoDup(kids[p])
    BY <1>1 DEF ListsMatch
  <2>2. QED BY <1>2, <2>1, ConcatItems
<1>7. /\ zkids[Root] \o zkids[p] \in Seq(Procs)
      /\ Items(zkids[Root] \o zkids[p]) = Items(zkids[Root]) \cup Items(zkids[p])
      /\ NoDup(zkids[Root] \o zkids[p])
  <2>1. Items(zkids[Root]) \cap Items(zkids[p]) = {} /\ NoDup(zkids[Root]) /\ NoDup(zkids[p])
    BY <1>1 DEF ListsMatch
  <2>2. QED BY <1>2, <2>1, ConcatItems
<1>8. /\ parent' \in [Procs -> Procs \cup {NULL}]
      /\ kids' \in [Procs -> Seq(Procs)] /\ zkids' \in [Procs -> Seq(Procs)]
  <2>1. parent' \in [Procs -> Procs \cup {NULL}]
    BY DEF TypeOK, Abandon
  <2>2. << >> \in Seq(Procs)
    OBVIOUS
  <2>3. kids \in [Procs -> Seq(Procs)] /\ zkids \in [Procs -> Seq(Procs)]
    BY DEF TypeOK
  <2>4. kids' \in [Procs -> Seq(Procs)]
    BY <1>3, <1>6, <2>2, <2>3
  <2>5. zkids' \in [Procs -> Seq(Procs)]
    BY <1>3, <1>7, <2>2, <2>3
  <2>6. QED BY <2>1, <2>4, <2>5
<1>9. /\ kids'[p] = << >> /\ zkids'[p] = << >>
      /\ kids'[Root] = kids[Root] \o kids[p] /\ zkids'[Root] = zkids[Root] \o zkids[p]
      /\ \A q \in Procs \ {Root, p} : kids'[q] = kids[q] /\ zkids'[q] = zkids[q]
    BY <1>3 DEF TypeOK
<1>10. RootLives'
    BY <1>1, <1>3, <1>4, <1>5 DEF RootLives
<1>11. ParentsLive'
  <2> SUFFICES ASSUME NEW c \in Procs \ {Root}
               PROVE  IF pstate[c] = "free" THEN parent'[c] = NULL
                      ELSE parent'[c] \in Procs /\ pstate[parent'[c]] = "live"
    BY <1>3 DEF ParentsLive
  <2>1. QED BY <1>1, <1>4, <1>5 DEF ParentsLive, RootLives
<1>12. ListsMatch'
  <2> SUFFICES ASSUME NEW q \in Procs
               PROVE  /\ NoDup(kids'[q]) /\ NoDup(zkids'[q])
                      /\ Items(kids'[q]) = {c \in Procs : pstate[c] = "live" /\ parent'[c] = q}
                      /\ Items(zkids'[q]) = {c \in Procs : pstate[c] = "zombie" /\ parent'[c] = q}
    BY <1>3 DEF ListsMatch
  <2>0. Items(<< >>) = {} /\ NoDup(<< >>)
    BY DEF Items, NoDup
  <2>1. CASE q = Root
    <3>1. /\ Items(kids'[Root]) = Items(kids[Root]) \cup Items(kids[p])
          /\ Items(zkids'[Root]) = Items(zkids[Root]) \cup Items(zkids[p])
          /\ NoDup(kids'[Root]) /\ NoDup(zkids'[Root])
        BY <1>6, <1>7, <1>9
    <3>2. \A c \in Procs : parent'[c] = Root <=>
              (parent[c] = p /\ pstate[c] \in {"live", "zombie"}) \/ parent[c] = Root
        BY <1>4, <1>5
    <3>3. \A c \in Procs : c \in Items(kids'[Root]) <=> pstate[c] = "live" /\ parent'[c] = Root
        BY <1>1, <3>1, <3>2 DEF ListsMatch
    <3>4. \A c \in Procs : c \in Items(zkids'[Root]) <=> pstate[c] = "zombie" /\ parent'[c] = Root
        BY <1>1, <3>1, <3>2 DEF ListsMatch
    <3>5. Items(kids'[Root]) \subseteq Procs /\ Items(zkids'[Root]) \subseteq Procs
        BY <1>1, <3>1 DEF ListsMatch
    <3>6. QED BY <2>1, <3>1, <3>3, <3>4, <3>5
  <2>2. CASE q = p
    BY <1>1, <1>4, <1>5, <1>9, <2>0, <2>2 DEF ListsMatch
  <2>3. CASE q \notin {Root, p}
    BY <1>1, <1>4, <1>5, <1>9, <2>3 DEF ListsMatch
  <2>4. QED BY <2>1, <2>2, <2>3
<1>13. QED BY <1>8, <1>9, <1>10, <1>11, <1>12 DEF FamilyOK

(* What the calls of the running handler become.                           *)
LEMMA CallsPushed ==
    ASSUME calls \in Seq(Frame), calls # << >>, NEW a \in Seq(Frame)
    PROVE  /\ Tail(calls) \in Seq(Frame) /\ Head(calls) \in Frame
           /\ Head(calls) \in Items(calls)
           /\ Items(Tail(calls)) \subseteq Items(calls)
           /\ a \o Tail(calls) \in Seq(Frame)
           /\ Items(a \o Tail(calls)) \subseteq Items(a) \cup Items(calls)
<1> DEFINE r == Tail(calls)
<1>1. /\ r \in Seq(Frame) /\ Len(r) = Len(calls) - 1 /\ Len(calls) \in Nat \ {0}
      /\ Head(calls) = calls[1] /\ Head(calls) \in Frame
      /\ \A k \in 1 .. Len(calls) - 1 : r[k] = calls[k + 1]
    OBVIOUS
<1> HIDE DEF r
<1>2. Items(r) \subseteq Items(calls) /\ Head(calls) \in Items(calls)
    BY <1>1 DEF Items
<1>3. a \o r \in Seq(Frame) /\ Items(a \o r) = Items(a) \cup Items(r)
    BY <1>1, ConcatItems
<1>4. QED BY <1>1, <1>2, <1>3 DEF r

LEMMA FrameIs ==
    ASSUME NEW f \in Frame
    PROVE  /\ f.p \in Procs
           /\ f.op \in {"exit", "bury", "reset", "signal"}
           /\ f.sid \in {CHLD} \cup Sigs \cup BadSigs
           /\ f.op = "signal" \/ f.sid = CHLD
BY DEF Frame

LEMMA OneCall ==
    ASSUME NEW f \in Frame
    PROVE  << f >> \in Seq(Frame) /\ Items(<< f >>) = {f}
BY DEF Items

LEMMA OrphanCall ==
    ASSUME NEW p \in Procs, NEW f \in Frame
    PROVE  /\ OrphanSignal(p) \o << f >> \in Seq(Frame)
           /\ Items(OrphanSignal(p) \o << f >>) \subseteq {Call("signal", Root), f}
           /\ Call("signal", Root) \in Frame
<1>1. Call("signal", Root) \in Frame
    BY KernelConstants DEF Call, Frame
<1>2. OrphanSignal(p) \in Seq(Frame) /\ Items(OrphanSignal(p)) \subseteq {Call("signal", Root)}
    BY <1>1, OneCall DEF OrphanSignal, Items
<1>3. << f >> \in Seq(Frame) /\ Items(<< f >>) = {f}
    BY OneCall
<1>4. /\ OrphanSignal(p) \o << f >> \in Seq(Frame)
      /\ Items(OrphanSignal(p) \o << f >>) = Items(OrphanSignal(p)) \cup Items(<< f >>)
  <2>1. \A a, b \in Seq(Frame) :
           a \o b \in Seq(Frame) /\ Items(a \o b) = Items(a) \cup Items(b)
    BY ConcatItems
  <2>2. QED BY <1>2, <1>3, <2>1, Zenon
<1>5. QED BY <1>1, <1>2, <1>3, <1>4

(* A step that leaves the family alone keeps it in order.                  *)
LEMMA FamilyStays ==
    ASSUME FamilyOK, Up, UNCHANGED procVars
    PROVE  FamilyOK'
BY DEF FamilyOK, Up, RootLives, ListsMatch, ParentsLive, procVars

(* A kernel error changes nothing but sys.                                 *)
LEMMA Stopped ==
    ASSUME IInv, sys' \in {"down", "panic"},
           UNCHANGED <<calls, sched, tstate, procVars, queueVars, sigVars>>
    PROVE  IInv'
BY DEF IInv, TypeOK, FamilyOK, CallsOK, ResetAlone, HeldLive, Up, Sorted, procVars, queueVars,
       sigVars

-----------------------------------------------------------------------------
(* The calls of a handler under way.                                       *)

LEMMA StepExitProc ==
    ASSUME IInv, ExitProc PROVE IInv'
<1> USE KernelConstants
<1>1. /\ calls \in Seq(Frame) /\ calls # << >> /\ TypeOK /\ FamilyOK /\ CallsOK
      /\ Sorted(sleepQ) /\ Up /\ ResetAlone /\ HeldLive
    BY DEF IInv, TypeOK, ExitProc, Up
<1>2. PICK p \in Procs : p = Head(calls).p /\ FrameOK(Head(calls))
  <2>1. Head(calls) \in Frame /\ Head(calls) \in Items(calls)
    BY <1>1, CallsPushed
  <2>2. QED BY <2>1, <1>1 DEF Frame, CallsOK
<1>3. CASE p = Root
    BY <1>2, <1>3, Stopped DEF ExitProc
<1>4. CASE p # Root
  <2>1. /\ sched' = Drop(sched, ThreadsOf(p))
        /\ DetachFromQueues(ThreadsOf(p))
        /\ tstate' = [th \in Thread |->
                         IF th \in ThreadsOf(p) /\ tstate[th] \in {"scheduled", "waiting"}
                         THEN "detached" ELSE tstate[th]]
        /\ Abandon(p)
        /\ calls' = OrphanSignal(p) \o << Call("bury", p) >> \o Tail(calls)
        /\ UNCHANGED <<sys, sigVars>>
    BY <1>2, <1>4 DEF ExitProc
  <2>2. Up'
    BY <1>1, <2>1 DEF Up
  <2>3. /\ FamilyOK'
        /\ parent' \in [Procs -> Procs \cup {NULL}]
        /\ kids' \in [Procs -> Seq(Procs)] /\ zkids' \in [Procs -> Seq(Procs)]
        /\ kids'[p] = << >> /\ zkids'[p] = << >>
        /\ \A q \in Procs \ {Root} : (kids[q] = << >> => kids'[q] = << >>)
                                   /\ (zkids[q] = << >> => zkids'[q] = << >>)
    BY <1>1, <1>2, <1>4, <2>1, <2>2, AbandonKeeps
  <2>4. Call("bury", p) \in Frame
    BY <1>2 DEF Call, Frame
  <2> DEFINE a == OrphanSignal(p) \o << Call("bury", p) >>
  <2>5. a \in Seq(Frame) /\ Items(a) \subseteq {Call("signal", Root), Call("bury", p)}
    BY <1>2, <2>4, OrphanCall
  <2>6. calls' = a \o Tail(calls)
    BY <2>1
  <2> HIDE DEF a
  <2>7. /\ calls' \in Seq(Frame)
        /\ Items(calls') \subseteq Items(calls) \cup {Call("signal", Root), Call("bury", p)}
    BY <1>1, <2>5, <2>6, CallsPushed
  <2>8. /\ joinQ' \in [Procs -> Seq(Waiter(Tids))]
        /\ sigQ' \in [Procs -> Seq(Waiter(Sigs))]
        /\ sleepQ' \in Seq(Sleeper)
        /\ Sorted(sleepQ)'
        /\ \A th \in Thread : InQueue(th)' <=> InQueue(th) /\ th \notin ThreadsOf(p)
    BY <1>1, <2>1, DetachKeeps
  <2>9. sched' \in Seq(Thread) /\ Items(sched') = Items(sched) \ ThreadsOf(p)
    BY <2>1, <1>1, DropProps DEF TypeOK
  <2>10. pstate' = pstate /\ mainT' = mainT
    BY <2>1 DEF Abandon
  <2>11. tstate' \in [Thread -> {"none", "detached", "scheduled", "waiting", "exited"}]
    BY <1>1, <2>1 DEF TypeOK
  <2>12. TypeOK'
    BY <1>1, <2>1, <2>3, <2>7, <2>8, <2>9, <2>10, <2>11 DEF TypeOK, sigVars
  <2>13. CallsOK'
    <3>1. Root \in Procs /\ pstate[Root] = "live"
        BY <1>1 DEF FamilyOK, RootLives
    <3>2. FrameOK(Call("signal", Root))'
        BY <3>1, <2>10 DEF FrameOK, Call
    <3>3. FrameOK(Call("bury", p))'
        BY <1>2, <1>4, <2>3, <2>10 DEF FrameOK, Call
    <3>4. ASSUME NEW f \in Items(calls) PROVE FrameOK(f)'
      <4>1. f \in Frame /\ FrameOK(f)
        BY <1>1 DEF CallsOK, Items
      <4>2. f.p \in Procs
        BY <4>1, FrameIs
      <4>3. QED BY <4>1, <4>2, <2>3, <2>10 DEF FrameOK
    <3>5. \A f \in Items(calls') : FrameOK(f)'
        BY <2>7, <3>2, <3>3, <3>4
    <3>6. QED BY <3>5 DEF CallsOK
  <2>14. ResetAlone'
    <3>1. \A f \in Items(calls) : f.op # "reset"
        BY <1>1, <1>2, <1>4, CallsPushed DEF ResetAlone, ExitProc
    <3>2. \A f \in Items(calls') : f.op # "reset"
        BY <2>7, <3>1 DEF Call
    <3>3. QED BY <3>2 DEF ResetAlone
  <2>15. HeldLive'
    <3>1. ASSUME NEW th \in Thread, Held(th)' PROVE LiveOnly(th)'
      <4>1. Held(th) /\ th[1] # p
        BY <3>1, <2>8, <2>9 DEF Held, ThreadsOf, Thread
      <4>2. pstate[th[1]] = "live" /\ \A f \in Items(calls) : f.op = "bury" => f.p # th[1]
        BY <1>1, <4>1 DEF HeldLive, LiveOnly
      <4>3. \A f \in Items(calls') : f.op = "bury" => f.p # th[1]
        BY <4>1, <4>2, <2>7 DEF Call
      <4>4. QED BY <4>2, <4>3, <2>10 DEF LiveOnly
    <3>2. QED BY <3>1 DEF HeldLive
  <2>16. QED BY <2>3, <2>8, <2>12, <2>13, <2>14, <2>15 DEF IInv
<1>5. QED BY <1>3, <1>4

LEMMA StepBuryProc ==
    ASSUME IInv, BuryProc PROVE IInv'
<1> USE KernelConstants
<1>1. /\ calls \in Seq(Frame) /\ calls # << >> /\ TypeOK /\ FamilyOK /\ CallsOK
      /\ Sorted(sleepQ) /\ Up /\ ResetAlone /\ HeldLive
    BY DEF IInv, TypeOK, BuryProc, Up
<1>2. PICK p \in Procs : p = Head(calls).p /\ FrameOK(Head(calls)) /\ Head(calls).op = "bury"
  <2>1. Head(calls) \in Frame /\ Head(calls) \in Items(calls)
    BY <1>1, CallsPushed
  <2>2. QED BY <2>1, <1>1, FrameIs DEF CallsOK, BuryProc
<1>3. RootLives /\ ListsMatch /\ ParentsLive
    BY <1>1 DEF FamilyOK
<1>4. p # Root /\ kids[p] = << >> /\ zkids[p] = << >> /\ pstate[p] # "free"
    BY <1>2 DEF FrameOK
<1>5. PICK pp \in Procs : pp = parent[p] /\ pstate[pp] = "live"
    BY <1>3, <1>4 DEF ParentsLive
<1>8. \A f \in Items(calls) : f.op # "reset"
    BY <1>1, <1>2, <1>4, CallsPushed DEF ResetAlone
<1>6. CASE p \notin Items(kids[pp])
    BY <1>2, <1>5, <1>6, Stopped DEF BuryProc, Panic
<1>7. CASE p \in Items(kids[pp])
  <2>1. /\ kids' = [kids EXCEPT ![pp] = Drop(kids[pp], {p})]
        /\ zkids' = [zkids EXCEPT ![pp] = Append(zkids[pp], p)]
        /\ pstate' = [pstate EXCEPT ![p] = "zombie"]
        /\ calls' = << Call("signal", pp) >> \o Tail(calls)
        /\ UNCHANGED <<sys, sched, tstate, parent, mainT, queueVars, sigVars>>
    BY <1>2, <1>5, <1>7 DEF BuryProc
  <2>2. /\ kids[pp] \in Seq(Procs) /\ zkids[pp] \in Seq(Procs)
        /\ kids \in [Procs -> Seq(Procs)] /\ zkids \in [Procs -> Seq(Procs)]
        /\ pstate \in [Procs -> {"free", "live", "zombie"}]
    BY <1>1 DEF TypeOK
  <2>3. pp # p /\ kids[pp] # << >> /\ pstate[p] = "live"
    BY <1>3, <1>4, <1>5, <1>7 DEF Items, ListsMatch
  <2>4. /\ NoDup(kids[pp]) /\ NoDup(zkids[pp]) /\ p \notin Items(zkids[pp])
    BY <1>3, <2>3 DEF ListsMatch
  <2>5. /\ Drop(kids[pp], {p}) \in Seq(Procs)
        /\ Items(Drop(kids[pp], {p})) = Items(kids[pp]) \ {p}
        /\ NoDup(Drop(kids[pp], {p}))
    BY <2>2, <2>4, DropProps
  <2>6. /\ Append(zkids[pp], p) \in Seq(Procs)
        /\ Items(Append(zkids[pp], p)) = Items(zkids[pp]) \cup {p}
        /\ NoDup(Append(zkids[pp], p))
    BY <2>2, <2>4, AppendItems
  <2>7. /\ kids'[pp] = Drop(kids[pp], {p}) /\ zkids'[pp] = Append(zkids[pp], p)
        /\ \A q \in Procs \ {pp} : kids'[q] = kids[q] /\ zkids'[q] = zkids[q]
        /\ pstate'[p] = "zombie" /\ \A q \in Procs \ {p} : pstate'[q] = pstate[q]
    BY <2>1, <2>2
  <2>8. kids' \in [Procs -> Seq(Procs)] /\ zkids' \in [Procs -> Seq(Procs)]
    BY <2>1, <2>2, <2>5, <2>6
  <2>9. Call("signal", pp) \in Frame
    BY DEF Call, Frame
  <2>10. /\ calls' \in Seq(Frame)
         /\ Items(calls') \subseteq Items(calls) \cup {Call("signal", pp)}
    BY <1>1, <2>1, <2>9, OneCall, CallsPushed
  <2>11. TypeOK'
    BY <1>1, <2>1, <2>2, <2>8, <2>10 DEF TypeOK, queueVars, sigVars
  <2>12. ListsMatch'
    <3> SUFFICES ASSUME NEW q \in Procs
                 PROVE  /\ NoDup(kids'[q]) /\ NoDup(zkids'[q])
                        /\ Items(kids'[q]) = {c \in Procs : pstate'[c] = "live" /\ parent[c] = q}
                        /\ Items(zkids'[q]) = {c \in Procs : pstate'[c] = "zombie" /\ parent[c] = q}
        BY <2>1 DEF ListsMatch
    <3>1. CASE q = pp
      <4>1. NoDup(kids'[q]) /\ NoDup(zkids'[q])
        BY <3>1, <2>5, <2>6, <2>7
      <4>0. /\ Items(kids[pp]) = {c \in Procs : pstate[c] = "live" /\ parent[c] = pp}
            /\ Items(zkids[pp]) = {c \in Procs : pstate[c] = "zombie" /\ parent[c] = pp}
        BY <1>3 DEF ListsMatch
      <4>2. \A c \in Procs : c \in Items(kids'[q]) <=> pstate'[c] = "live" /\ parent[c] = q
        BY <3>1, <4>0, <2>5, <2>7
      <4>3. \A c \in Procs : c \in Items(zkids'[q]) <=> pstate'[c] = "zombie" /\ parent[c] = q
        BY <3>1, <4>0, <2>6, <2>7, <1>5
      <4>4. Items(kids'[q]) \subseteq Procs /\ Items(zkids'[q]) \subseteq Procs
        BY <3>1, <4>0, <2>5, <2>6, <2>7, ZenonT(60)
      <4>5. QED BY <4>1, <4>2, <4>3, <4>4
    <3>2. CASE q # pp
        BY <3>2, <2>7, <1>3, <1>5 DEF ListsMatch
    <3>3. QED BY <3>1, <3>2
  <2>13. RootLives'
    BY <1>3, <1>4, <2>1, <2>7 DEF RootLives
  <2>14. ParentsLive'
    <3>1. \A c \in Procs : parent[c] = p => pstate[c] = "free"
      <4>1. Items(kids[p]) = {} /\ Items(zkids[p]) = {}
        BY <1>4 DEF Items
      <4>2. QED BY <4>1, <1>3, <2>2 DEF ListsMatch
    <3> SUFFICES ASSUME NEW c \in Procs \ {Root}
                 PROVE  IF pstate'[c] = "free" THEN parent[c] = NULL
                        ELSE parent[c] \in Procs /\ pstate'[parent[c]] = "live"
        BY <2>1 DEF ParentsLive
    <3>2. CASE c = p
        BY <3>2, <1>5, <2>3, <2>7
    <3>3. CASE c # p
        BY <3>3, <3>1, <1>3, <2>7 DEF ParentsLive
    <3>4. QED BY <3>2, <3>3
  <2>15. CallsOK'
    <3>1. FrameOK(Call("signal", pp))'
        BY <1>5, <2>3, <2>7 DEF FrameOK, Call
    <3>2. ASSUME NEW f \in Items(calls) PROVE FrameOK(f)'
      <4>1. f \in Frame /\ FrameOK(f)
        BY <1>1 DEF CallsOK, Items
      <4>2. f.p \in Procs
        BY <4>1, FrameIs
      <4>3. f.op = "bury" => f.p # pp
        BY <4>1, <2>3 DEF FrameOK
      <4>4. pstate'[f.p] # "free"
        BY <4>1, <4>2, <2>7 DEF FrameOK
      <4>5. QED BY <4>1, <4>2, <4>3, <4>4, <1>8, <2>7 DEF FrameOK
    <3>3. \A f \in Items(calls') : FrameOK(f)'
        BY <2>10, <3>1, <3>2
    <3>4. QED BY <3>3 DEF CallsOK
  <2>16. Sorted(sleepQ)'
    BY <1>1, <2>1 DEF queueVars, Sorted
  <2>17. ResetAlone'
    <3>1. \A f \in Items(calls') : f.op # "reset"
        BY <1>8, <2>10 DEF Call
    <3>2. QED BY <3>1 DEF ResetAlone
  <2>18. HeldLive'
    <3>1. ASSUME NEW th \in Thread, Held(th)' PROVE LiveOnly(th)'
      <4>1. Held(th)
        BY <3>1, <2>1 DEF Held, InQueue, Items, WaitersOf, queueVars
      <4>2. pstate[th[1]] = "live" /\ \A f \in Items(calls) : f.op = "bury" => f.p # th[1]
        BY <1>1, <4>1 DEF HeldLive, LiveOnly
      <4>3. th[1] \in Procs /\ th[1] # p
        BY <4>2, <1>1, <1>2, CallsPushed DEF Thread
      <4>4. \A f \in Items(calls') : f.op = "bury" => f.p # th[1]
        BY <4>2, <2>10 DEF Call
      <4>5. QED BY <4>2, <4>3, <4>4, <2>7 DEF LiveOnly
    <3>2. QED BY <3>1 DEF HeldLive
  <2>19. QED BY <2>11, <2>12, <2>13, <2>14, <2>15, <2>16, <2>17, <2>18 DEF IInv, FamilyOK
<1>9. QED BY <1>6, <1>7

(* Whoever is in a queue after a pop was in it before.                     *)
LEMMA WaitersPopped ==
    ASSUME NEW S, NEW q \in Seq(S), NEW i \in 1 .. Len(q)
    PROVE  \A th : th \in WaitersOf(PopAt(q, i)) => th \in WaitersOf(q)
<1>0. PICK r : r = PopAt(q, i)
    OBVIOUS
<1>1. /\ Len(r) = Len(q) - 1 /\ Len(q) \in Nat
      /\ \A k \in 1 .. Len(q) - 1 : r[k] = IF k < i THEN q[k] ELSE q[k + 1]
  <2>1. /\ Len(PopAt(q, i)) = Len(q) - 1
        /\ \A k \in 1 .. Len(q) - 1 : PopAt(q, i)[k] = IF k < i THEN q[k] ELSE q[k + 1]
    BY PopAtIs, Zenon
  <2>2. Len(q) \in Nat
    OBVIOUS
  <2>3. QED BY <1>0, <2>1, <2>2, Zenon
<1>2. \A k \in 1 .. Len(r) : \E j \in 1 .. Len(q) : r[k] = q[j]
  <2> TAKE k \in 1 .. Len(r)
  <2>1. k \in 1 .. Len(q) /\ k + 1 \in 1 .. Len(q)
    BY <1>1
  <2>2. QED BY <1>1, <2>1
<1>3. \A th : th \in WaitersOf(r) => th \in WaitersOf(q)
    BY <1>2 DEF WaitersOf
<1>4. QED BY <1>0, <1>3

LEMMA WaitersAppended ==
    ASSUME NEW S, NEW q \in Seq(S), NEW e \in S
    PROVE  \A th : th \in WaitersOf(Append(q, e)) <=> th \in WaitersOf(q) \/ th = e.thr
<1>1. Items(Append(q, e)) = Items(q) \cup {e}
    BY AppendItems
<1>2. \A th :
        /\ th \in WaitersOf(q) <=> (\E x \in Items(q) : th = x.thr)
        /\ th \in WaitersOf(Append(q, e)) <=> (\E x \in Items(Append(q, e)) : th = x.thr)
    BY DEF WaitersOf, Items
<1>3. QED BY <1>1, <1>2

(* A step after which only threads of living processes are held.           *)
LEMMA HeldStays ==
    ASSUME HeldLive, Up, UNCHANGED pstate,
           \A f \in Items(calls') : f.op = "bury" => f \in Items(calls),
           \A th \in Thread : Held(th)' => Held(th) \/ LiveOnly(th)
    PROVE  HeldLive'
<1>1. ASSUME NEW th \in Thread, Held(th)' PROVE LiveOnly(th)'
  <2>1. LiveOnly(th)
    BY <1>1 DEF HeldLive
  <2>2. QED BY <2>1 DEF LiveOnly
<1>2. QED BY <1>1 DEF HeldLive

(* What a signal call does to the wait queue of a process.                 *)
LEMMA PopWaiter ==
    ASSUME TypeOK, NEW q \in Procs, NEW s, Waits(sigQ[q], s) # {}
    PROVE  LET i == Least(Waits(sigQ[q], s)) IN
           /\ i \in 1 .. Len(sigQ[q]) /\ s \in sigQ[q][i].mask
           /\ sigQ[q][i].thr \in Thread
           /\ PopAt(sigQ[q], i) \in Seq(Waiter(Sigs))
           /\ \A th : th \in WaitersOf(PopAt(sigQ[q], i)) => th \in WaitersOf(sigQ[q])
           /\ sigQ[q][i].thr \in WaitersOf(sigQ[q])
<1>1. sigQ[q] \in Seq(Waiter(Sigs))
    BY DEF TypeOK
<1>2. Waits(sigQ[q], s) \subseteq 1 .. Len(sigQ[q]) /\ Waits(sigQ[q], s) \subseteq Nat
    BY <1>1 DEF Waits
<1> DEFINE i == Least(Waits(sigQ[q], s))
<1>3. i \in Waits(sigQ[q], s)
    BY <1>2, LeastIs
<1>4. i \in 1 .. Len(sigQ[q]) /\ s \in sigQ[q][i].mask
    BY <1>3 DEF Waits
<1> HIDE DEF i
<1>5. sigQ[q][i] \in Waiter(Sigs)
    BY <1>1, <1>4
<1>6. PopAt(sigQ[q], i) \in Seq(Waiter(Sigs))
    BY <1>1, <1>4, PopAtIs
<1>7. \A th : th \in WaitersOf(PopAt(sigQ[q], i)) => th \in WaitersOf(sigQ[q])
    BY <1>1, <1>4, WaitersPopped
<1>8. sigQ[q][i].thr \in WaitersOf(sigQ[q])
    BY <1>4 DEF WaitersOf
<1>9. QED BY <1>4, <1>5, <1>6, <1>7, <1>8 DEF Waiter, i

(* The calls left by a step that leaves the family alone.                  *)
LEMMA CallsStay ==
    ASSUME CallsOK, Up, UNCHANGED <<pstate, kids, zkids>>,
           \A f \in Items(calls') : f \in Items(calls) \/ FrameOK(f)
    PROVE  CallsOK'
<1>1. ASSUME NEW f \in Items(calls') PROVE FrameOK(f)'
    BY <1>1 DEF CallsOK, FrameOK
<1>2. QED BY <1>1 DEF CallsOK

LEMMA StepSignalProc ==
    ASSUME IInv, SignalProc PROVE IInv'
<1> USE KernelConstants
<1>1. /\ calls \in Seq(Frame) /\ calls # << >> /\ TypeOK /\ FamilyOK /\ CallsOK
      /\ Sorted(sleepQ) /\ Up /\ ResetAlone /\ HeldLive
    BY DEF IInv, TypeOK, SignalProc, Up
<1>2. PICK q \in Procs : q = Head(calls).p /\ FrameOK(Head(calls))
  <2>1. Head(calls) \in Frame /\ Head(calls) \in Items(calls)
    BY <1>1, CallsPushed
  <2>2. QED BY <2>1, <1>1, FrameIs DEF CallsOK
<1>3. PICK s : s = Head(calls).sid
    OBVIOUS
<1>4. Tail(calls) \in Seq(Frame) /\ Items(Tail(calls)) \subseteq Items(calls)
  <2>1. << >> \in Seq(Frame)
    OBVIOUS
  <2>2. QED BY <1>1, <2>1, CallsPushed
<1>5. CASE s \notin Sigs
  <2>1. s \notin sigVec[q]
    BY <1>1, <1>5 DEF TypeOK
  <2>2. QED BY <1>2, <1>3, <1>5, <2>1, Stopped DEF SignalProc, Panic
<1>6. CASE s \in Sigs
  <2> USE <1>6
  <2>1. /\ UNCHANGED <<sys, procVars, joinQ, sleepQ, sigAllow>>
        /\ calls' = Tail(calls) \/ calls' = << Call("exit", q) >> \o Tail(calls)
    BY <1>2, <1>3 DEF SignalProc, queueVars, sigVars, Panic
  <2>2. FrameOK(Call("exit", q)) /\ Call("exit", q) \in Frame
    BY <1>2 DEF FrameOK, Call, Frame
  <2>3. /\ calls' \in Seq(Frame)
        /\ Items(calls') \subseteq Items(calls) \cup {Call("exit", q)}
    <3>1. /\ << Call("exit", q) >> \o Tail(calls) \in Seq(Frame)
          /\ Items(<< Call("exit", q) >> \o Tail(calls)) \subseteq {Call("exit", q)} \cup Items(calls)
        BY <1>1, <2>2, OneCall, CallsPushed
    <3>2. QED BY <1>4, <2>1, <3>1
  <2>4. FamilyOK'
    BY <1>1, <2>1, FamilyStays
  <2>5. CallsOK'
    BY <1>1, <2>1, <2>2, <2>3, CallsStay DEF procVars
  <2>6. Sorted(sleepQ)'
    BY <1>1, <2>1 DEF Sorted
  <2>7. TypeOK' /\ \A th \in Thread : Held(th)' => Held(th)
    <3>1. CASE UNCHANGED <<sched, tstate, sigQ>> /\ sigVec' \in [Procs -> SUBSET Sigs]
      <4>1. TypeOK'
        BY <1>1, <2>1, <2>3, <3>1 DEF TypeOK, procVars
      <4>2. QED BY <4>1, <2>1, <3>1 DEF Held, InQueue, Items, WaitersOf
    <3>2. CASE /\ s \notin sigVec[q] /\ s \in sigAllow[q]
               /\ Waits(sigQ[q], s) # {}
      <4>1. PICK i : /\ i = Least(Waits(sigQ[q], s))
                     /\ sigQ[q][i].thr \in Thread
                     /\ PopAt(sigQ[q], i) \in Seq(Waiter(Sigs))
                     /\ \A th : th \in WaitersOf(PopAt(sigQ[q], i)) => th \in WaitersOf(sigQ[q])
                     /\ sigQ[q][i].thr \in WaitersOf(sigQ[q])
        BY <1>1, <3>2, PopWaiter
      <4>2. /\ sigQ' = [sigQ EXCEPT ![q] = PopAt(sigQ[q], i)]
            /\ sched' = Append(sched, sigQ[q][i].thr)
            /\ tstate' = [tstate EXCEPT ![sigQ[q][i].thr] = "scheduled"]
            /\ UNCHANGED sigVec
        BY <1>2, <1>3, <3>2, <4>1 DEF SignalProc, sigVars
      <4>3. sched' \in Seq(Thread) /\ Items(sched') = Items(sched) \cup {sigQ[q][i].thr}
        BY <1>1, <4>1, <4>2, AppendItems DEF TypeOK
      <4>4. /\ sigQ' \in [Procs -> Seq(Waiter(Sigs))]
            /\ \A r \in Procs : \A th : th \in WaitersOf(sigQ'[r]) => th \in WaitersOf(sigQ[r])
        BY <1>1, <4>1, <4>2 DEF TypeOK
      <4>5. tstate' \in [Thread -> {"none", "detached", "scheduled", "waiting", "exited"}]
        BY <1>1, <4>2 DEF TypeOK
      <4>6. TypeOK'
        BY <1>1, <2>1, <2>3, <4>2, <4>3, <4>4, <4>5 DEF TypeOK, procVars
      <4>7. ASSUME NEW th \in Thread, Held(th)' PROVE Held(th)
        <5>1. CASE th \in Items(sched')
          BY <5>1, <4>1, <4>3 DEF Held, InQueue
        <5>2. CASE InQueue(th)'
          <6>1. \/ th \in WaitersOf(sleepQ)
                \/ \E r \in Procs : th \in WaitersOf(joinQ[r]) \/ th \in WaitersOf(sigQ'[r])
            BY <5>2, <2>1 DEF InQueue, WaitersOf
          <6>2. QED BY <6>1, <4>4 DEF Held, InQueue
        <5>3. QED BY <4>7, <5>1, <5>2 DEF Held, Items
      <4>8. QED BY <4>6, <4>7
    <3>3. CASE ~(/\ s \notin sigVec[q] /\ s \in sigAllow[q]
                 /\ Waits(sigQ[q], s) # {})
      <4>1. UNCHANGED <<sched, tstate, sigQ>>
        BY <1>2, <1>3, <3>3 DEF SignalProc, queueVars
      <4>2. UNCHANGED sigVec \/ sigVec' = [sigVec EXCEPT ![q] = sigVec[q] \cup {s}]
        BY <1>2, <1>3, <3>3 DEF SignalProc, sigVars
      <4>3. sigVec' \in [Procs -> SUBSET Sigs]
        <5>1. sigVec \in [Procs -> SUBSET Sigs] /\ sigVec[q] \cup {s} \in SUBSET Sigs
          BY <1>1 DEF TypeOK
        <5>2. QED BY <5>1, <4>2
      <4>4. QED BY <3>1, <4>1, <4>3
    <3>4. QED BY <3>2, <3>3
  <2>8. HeldLive'
    <3>1. \A f \in Items(calls') : f.op = "bury" => f \in Items(calls)
        BY <2>3 DEF Call
    <3>2. QED BY <1>1, <2>1, <2>7, <3>1, HeldStays DEF procVars
  <2>9. ResetAlone'
    <3>1. Head(calls) \in Items(calls) /\ Head(calls).op = "signal"
        BY <1>1, <2>2, OneCall, CallsPushed DEF SignalProc
    <3>2. \A f \in Items(calls) : f.op = "reset" => q = Root
        BY <1>1, <1>2, <3>1 DEF ResetAlone
    <3>3. \A f, g \in Items(calls') :
             f.op = "reset" =>
                g.op = "reset" \/ (g.op \in {"signal", "exit"} /\ g.p = Root)
      <4>1. Call("exit", q).op = "exit" /\ Call("exit", q).p = q
        BY DEF Call
      <4>2. QED BY <1>1, <2>3, <3>2, <4>1 DEF ResetAlone
    <3>4. QED BY <3>3 DEF ResetAlone
  <2>10. QED BY <2>4, <2>5, <2>6, <2>7, <2>8, <2>9 DEF IInv
<1>7. QED BY <1>5, <1>6

LEMMA StepResetProc ==
    ASSUME IInv, ResetProc PROVE IInv'
<1> USE KernelConstants
<1>1. /\ calls \in Seq(Frame) /\ calls # << >> /\ TypeOK /\ FamilyOK /\ CallsOK
      /\ Sorted(sleepQ) /\ Up /\ ResetAlone /\ HeldLive
    BY DEF IInv, TypeOK, ResetProc, Up
<1>2. PICK p \in Procs : p = Head(calls).p
  <2>1. Head(calls) \in Frame
    BY <1>1
  <2>2. QED BY <2>1, FrameIs
<1>3. Tail(calls) \in Seq(Frame) /\ Items(Tail(calls)) \subseteq Items(calls)
  <2>1. << >> \in Seq(Frame)
    OBVIOUS
  <2>2. QED BY <1>1, <2>1, CallsPushed
<1>4. /\ sched' = Append(Drop(sched, ThreadsOf(p)), <<p, mainT[p]>>)
      /\ DetachFromQueues(ThreadsOf(p))
      /\ tstate' = [th \in Thread |-> IF th[1] # p THEN tstate[th]
                                      ELSE IF th = <<p, mainT[p]>> THEN "scheduled" ELSE "none"]
      /\ sigVec' = [sigVec EXCEPT ![p] = {}]
      /\ sigAllow' = [sigAllow EXCEPT ![p] = {}]
      /\ calls' = Tail(calls)
      /\ UNCHANGED <<sys, procVars>>
    BY <1>2 DEF ResetProc
<1>5. /\ joinQ' \in [Procs -> Seq(Waiter(Tids))]
      /\ sigQ' \in [Procs -> Seq(Waiter(Sigs))]
      /\ sleepQ' \in Seq(Sleeper)
      /\ Sorted(sleepQ)'
      /\ \A th \in Thread : InQueue(th)' <=> InQueue(th) /\ th \notin ThreadsOf(p)
    BY <1>1, <1>4, DetachKeeps
<1>6. sched' \in Seq(Thread) /\ Items(sched') \subseteq Items(sched) \cup {<<p, mainT[p]>>}
  <2> DEFINE d == Drop(sched, ThreadsOf(p))
             m == <<p, mainT[p]>>
  <2>1. <<p, mainT[p]>> \in Thread /\ sched \in Seq(Thread)
    BY <1>1 DEF TypeOK, Thread
  <2>2. /\ Drop(sched, ThreadsOf(p)) \in Seq(Thread)
        /\ Items(Drop(sched, ThreadsOf(p))) \subseteq Items(sched)
    BY <2>1, DropProps
  <2>3. sched' = Append(d, m) /\ m \in Thread
    BY <1>4, <2>1
  <2> HIDE DEF m, d
  <2>4. sched' \in Seq(Thread) /\ Items(sched') = Items(d) \cup {m}
    BY <2>2, <2>3, AppendItems DEF d
  <2>5. QED BY <2>2, <2>4 DEF d, m
<1>7. tstate' \in [Thread -> {"none", "detached", "scheduled", "waiting", "exited"}]
    BY <1>1, <1>4 DEF TypeOK
<1>8. sigVec' \in [Procs -> SUBSET Sigs] /\ sigAllow' \in [Procs -> SUBSET Sigs]
    BY <1>1, <1>4 DEF TypeOK
<1>9. TypeOK'
    BY <1>1, <1>3, <1>4, <1>5, <1>6, <1>7, <1>8 DEF TypeOK, procVars
<1>10. FamilyOK'
    BY <1>1, <1>4, FamilyStays
<1>11. CallsOK'
    BY <1>1, <1>3, <1>4, CallsStay DEF procVars
<1>12. ResetAlone'
  <2>1. \A f \in Items(calls') : f \in Items(calls)
    BY <1>3, <1>4
  <2>2. QED BY <1>1, <2>1 DEF ResetAlone
<1>13. HeldLive'
  <2>1. Head(calls) \in Items(calls) /\ Head(calls).op = "reset"
    <3>1. << >> \in Seq(Frame)
        OBVIOUS
    <3>2. QED BY <1>1, <3>1, CallsPushed DEF ResetProc
  <2>2. LiveOnly(<<p, mainT[p]>>)
    BY <1>1, <1>2, <2>1 DEF LiveOnly, CallsOK, FrameOK, ResetAlone
  <2>3. \A th \in Thread : Held(th)' => Held(th) \/ th = <<p, mainT[p]>>
    BY <1>5, <1>6 DEF Held, Items
  <2>4. \A f \in Items(calls') : f.op = "bury" => f \in Items(calls)
    BY <1>3, <1>4
  <2>5. QED BY <1>1, <1>4, <2>2, <2>3, <2>4, HeldStays DEF procVars
<1>14. QED BY <1>5, <1>9, <1>10, <1>11, <1>12, <1>13 DEF IInv

-----------------------------------------------------------------------------
(* The system calls.                                                       *)

(* A call that leaves the family alone, and leaves at most one call to     *)
(* make, to a process that is not free.                                    *)
LEMMA FamilyUntouched ==
    ASSUME IInv, Idle, UNCHANGED <<sys, procVars>>, TypeOK', Sorted(sleepQ)',
           \/ calls' = << >>
           \/ \E f \in Frame : calls' = << f >> /\ FrameOK(f) /\ f.op # "bury",
           \A th \in Thread : Held(th)' => Held(th) \/ LiveOnly(th)
    PROVE  IInv'
<1>1. FamilyOK'
    BY FamilyStays DEF IInv, Idle, Up
<1>2. /\ \A f \in Items(calls') : FrameOK(f) /\ f.op # "bury"
      /\ \A f, g \in Items(calls') : f = g
    BY OneCall DEF Items
<1>3. CallsOK'
    BY <1>2, CallsStay DEF IInv, Idle, Up, procVars
<1>4. HeldLive'
    BY <1>2, HeldStays DEF IInv, Idle, Up, procVars
<1>5. ResetAlone'
    BY <1>2 DEF ResetAlone
<1>6. QED BY <1>1, <1>3, <1>4, <1>5 DEF IInv

LEMMA NoCalls == Idle => Items(calls) = {}
BY DEF Idle, Items

LEMMA RunningIs ==
    ASSUME IInv, NEW p \in Procs, NEW t \in Tids, Running(p, t)
    PROVE  /\ Idle /\ Up /\ TypeOK /\ FamilyOK /\ HeldLive /\ Sorted(sleepQ)
           /\ <<p, t>> \in Thread /\ <<p, t>> \in Items(sched) /\ pstate[p] = "live"
           /\ Tail(sched) \in Seq(Thread) /\ Items(Tail(sched)) \subseteq Items(sched)
           /\ \A th \in Thread : LiveOnly(th) <=> pstate[th[1]] = "live"
<1>1. Idle /\ Up /\ TypeOK /\ FamilyOK /\ HeldLive /\ Sorted(sleepQ) /\ <<p, t>> \in Thread
    BY DEF IInv, Running, Idle, Up, Thread
<1>2. sched \in Seq(Thread) /\ sched # << >> /\ Head(sched) = <<p, t>>
    BY <1>1 DEF Running, TypeOK
<1>3. /\ Tail(sched) \in Seq(Thread) /\ Items(Tail(sched)) \subseteq Items(sched)
      /\ <<p, t>> \in Items(sched)
  <2> DEFINE r == Tail(sched)
  <2>1. /\ r \in Seq(Thread) /\ Len(r) = Len(sched) - 1 /\ Len(sched) \in Nat \ {0}
        /\ Head(sched) = sched[1]
        /\ \A k \in 1 .. Len(sched) - 1 : r[k] = sched[k + 1]
    BY <1>2
  <2> HIDE DEF r
  <2>2. Items(r) \subseteq Items(sched) /\ <<p, t>> \in Items(sched)
    BY <1>2, <2>1 DEF Items
  <2>3. QED BY <2>1, <2>2 DEF r
<1>4. LiveOnly(<<p, t>>)
    BY <1>1, <1>3 DEF HeldLive, Held
<1>5. pstate[p] = "live"
    BY <1>4 DEF LiveOnly
<1>6. \A th \in Thread : LiveOnly(th) <=> pstate[th[1]] = "live"
    BY <1>1, NoCalls DEF LiveOnly
<1>7. QED BY <1>1, <1>3, <1>5, <1>6

LEMMA StepFork ==
    ASSUME IInv, NEW p \in Procs, NEW t \in Tids, NEW c \in Procs, Fork(p, t, c)
    PROVE  IInv'
<1> USE KernelConstants
<1>1. /\ Idle /\ Up /\ TypeOK /\ FamilyOK /\ Sorted(sleepQ) /\ HeldLive /\ pstate[p] = "live"
    BY RunningIs DEF Fork
<1>0. /\ sched' \in Seq(Thread) /\ Items(sched') = Items(sched) \cup {<<c, t>>}
  <2>1. sched' = Append(sched, <<c, t>>) /\ <<c, t>> \in Thread /\ sched \in Seq(Thread)
    BY <1>1 DEF Fork, Thread, TypeOK
  <2>2. QED BY <2>1, AppendItems
<1>2. RootLives /\ ListsMatch /\ ParentsLive
    BY <1>1 DEF FamilyOK
<1>3. /\ pstate[c] = "free" /\ c # p /\ c # Root
      /\ pstate' = [pstate EXCEPT ![c] = "live"]
      /\ parent' = [parent EXCEPT ![c] = p]
      /\ kids' = [kids EXCEPT ![p] = Append(kids[p], c)]
      /\ UNCHANGED <<sys, calls, zkids, queueVars, sigVars>>
    BY <1>1, <1>2 DEF Fork, RootLives
<1>4. /\ kids[p] \in Seq(Procs) /\ NoDup(kids[p]) /\ c \notin Items(kids[p])
    BY <1>1, <1>2, <1>3 DEF TypeOK, ListsMatch
<1>5. /\ Append(kids[p], c) \in Seq(Procs)
      /\ Items(Append(kids[p], c)) = Items(kids[p]) \cup {c}
      /\ NoDup(Append(kids[p], c))
    BY <1>4, AppendItems
<1>6. TypeOK'
  <2>1. kids' \in [Procs -> Seq(Procs)]
    BY <1>1, <1>3, <1>5 DEF TypeOK
  <2>2. /\ pstate' \in [Procs -> {"free", "live", "zombie"}]
        /\ parent' \in [Procs -> Procs \cup {NULL}]
        /\ mainT' \in [Procs -> Tids]
    BY <1>1 DEF TypeOK, Fork
  <2>3. sched' \in Seq(Thread)
    BY <1>0
  <2>4. tstate' \in [Thread -> {"none", "detached", "scheduled", "waiting", "exited"}]
    BY <1>1 DEF TypeOK, Fork
  <2>5. QED BY <1>1, <1>3, <2>1, <2>2, <2>3, <2>4 DEF TypeOK, queueVars, sigVars
<1>7. /\ pstate'[c] = "live" /\ parent'[c] = p /\ kids'[p] = Append(kids[p], c)
      /\ \A q \in Procs \ {c} : pstate'[q] = pstate[q] /\ parent'[q] = parent[q]
      /\ \A q \in Procs \ {p} : kids'[q] = kids[q]
    BY <1>1, <1>3 DEF TypeOK
<1>8. RootLives'
    BY <1>2, <1>3, <1>7 DEF RootLives
<1>9. ParentsLive'
  <2> SUFFICES ASSUME NEW d \in Procs \ {Root}
               PROVE  IF pstate'[d] = "free" THEN parent'[d] = NULL
                      ELSE parent'[d] \in Procs /\ pstate'[parent'[d]] = "live"
    BY DEF ParentsLive
  <2>1. CASE d = c
    BY <2>1, <1>1, <1>3, <1>7
  <2>2. CASE d # c
    BY <2>2, <1>2, <1>3, <1>7 DEF ParentsLive
  <2>3. QED BY <2>1, <2>2
<1>10. ListsMatch'
  <2> SUFFICES ASSUME NEW q \in Procs
               PROVE  /\ NoDup(kids'[q]) /\ NoDup(zkids[q])
                      /\ Items(kids'[q]) = {d \in Procs : pstate'[d] = "live" /\ parent'[d] = q}
                      /\ Items(zkids[q]) = {d \in Procs : pstate'[d] = "zombie" /\ parent'[d] = q}
    BY <1>3 DEF ListsMatch
  <2>1. /\ Items(kids[q]) = {d \in Procs : pstate[d] = "live" /\ parent[d] = q}
        /\ Items(zkids[q]) = {d \in Procs : pstate[d] = "zombie" /\ parent[d] = q}
        /\ NoDup(kids[q]) /\ NoDup(zkids[q])
    BY <1>2 DEF ListsMatch
  <2>2. Items(zkids[q]) = {d \in Procs : pstate'[d] = "zombie" /\ parent'[d] = q}
    BY <2>1, <1>3, <1>7
  <2>3. CASE q = p
    BY <2>1, <2>2, <2>3, <1>5, <1>7
  <2>4. CASE q # p
    BY <2>1, <2>2, <2>4, <1>3, <1>7
  <2>5. QED BY <2>3, <2>4
<1>11. CallsOK' /\ Sorted(sleepQ)'
    BY <1>1, <1>3, NoCalls DEF CallsOK, Sorted, queueVars, Idle, Items
<1>12. ResetAlone'
    BY <1>1, <1>3 DEF ResetAlone, Idle, Items
<1>13. HeldLive'
  <2>1. \A f \in Items(calls') : FALSE
    BY <1>1, <1>3 DEF Idle, Items
  <2>2. \A th \in Thread : Held(th)' => Held(th) \/ th = <<c, t>>
    BY <1>0, <1>3 DEF Held, InQueue, Items, WaitersOf, queueVars
  <2>3. \A th \in Thread : Held(th)' => pstate'[th[1]] = "live"
    BY <1>1, <1>3, <1>7, <2>2 DEF HeldLive, LiveOnly, Thread
  <2>4. QED BY <2>1, <2>3 DEF HeldLive, LiveOnly
<1>14. QED BY <1>6, <1>8, <1>9, <1>10, <1>11, <1>12, <1>13 DEF IInv, FamilyOK

LEMMA StepReap ==
    ASSUME IInv, Idle, NEW p \in Procs, NEW c \in Items(zkids[p]), NEW r \in Seq(Procs),
           Items(r) = Items(zkids[p]) \ {c}, NoDup(r),
           zkids' = [zkids EXCEPT ![p] = r], Reclaim(c)
    PROVE  IInv'
<1> USE KernelConstants
<1>1. /\ Up /\ TypeOK /\ FamilyOK /\ Sorted(sleepQ) /\ HeldLive
      /\ RootLives /\ ListsMatch /\ ParentsLive
    BY DEF IInv, Idle, Up, FamilyOK
<1>2. c \in Procs /\ pstate[c] = "zombie" /\ parent[c] = p /\ c # Root
    BY <1>1 DEF ListsMatch, RootLives
<1>3. /\ pstate' = [pstate EXCEPT ![c] = "free"]
      /\ parent' = [parent EXCEPT ![c] = NULL]
      /\ DetachFromQueues(ThreadsOf(c))
      /\ UNCHANGED <<sys, calls, kids>>
    BY DEF Reclaim
<1>4. /\ joinQ' \in [Procs -> Seq(Waiter(Tids))]
      /\ sigQ' \in [Procs -> Seq(Waiter(Sigs))]
      /\ sleepQ' \in Seq(Sleeper)
      /\ Sorted(sleepQ)'
      /\ \A th \in Thread : InQueue(th)' <=> InQueue(th) /\ th \notin ThreadsOf(c)
    BY <1>1, <1>3, DetachKeeps
<1>5. sched' \in Seq(Thread) /\ Items(sched') \subseteq Items(sched)
    BY <1>1, DropProps DEF TypeOK, Reclaim
<1>6. /\ pstate' \in [Procs -> {"free", "live", "zombie"}]
      /\ parent' \in [Procs -> Procs \cup {NULL}]
      /\ mainT' \in [Procs -> Tids]
      /\ zkids' \in [Procs -> Seq(Procs)]
      /\ kids' \in [Procs -> Seq(Procs)]
    BY <1>1 DEF TypeOK, Reclaim
<1>7. /\ tstate' \in [Thread -> {"none", "detached", "scheduled", "waiting", "exited"}]
      /\ sigVec' \in [Procs -> SUBSET Sigs]
      /\ sigAllow' \in [Procs -> SUBSET Sigs]
    BY <1>1 DEF TypeOK, Reclaim
<1>8. TypeOK'
    BY <1>1, <1>3, <1>4, <1>5, <1>6, <1>7 DEF TypeOK
<1>9. /\ pstate'[c] = "free" /\ parent'[c] = NULL /\ zkids'[p] = r
      /\ \A q \in Procs \ {c} : pstate'[q] = pstate[q] /\ parent'[q] = parent[q]
      /\ \A q \in Procs \ {p} : zkids'[q] = zkids[q]
    BY <1>1, <1>2, <1>3 DEF TypeOK
<1>10. RootLives'
    BY <1>1, <1>2, <1>9 DEF RootLives
<1>11. ParentsLive'
    BY <1>1, <1>2, <1>9 DEF ParentsLive
<1>12. ListsMatch'
  <2> SUFFICES ASSUME NEW q \in Procs
               PROVE  /\ NoDup(kids[q]) /\ NoDup(zkids'[q])
                      /\ Items(kids[q]) = {d \in Procs : pstate'[d] = "live" /\ parent'[d] = q}
                      /\ Items(zkids'[q]) = {d \in Procs : pstate'[d] = "zombie" /\ parent'[d] = q}
    BY <1>3 DEF ListsMatch
  <2>1. /\ Items(kids[q]) = {d \in Procs : pstate[d] = "live" /\ parent[d] = q}
        /\ Items(zkids[q]) = {d \in Procs : pstate[d] = "zombie" /\ parent[d] = q}
        /\ NoDup(kids[q]) /\ NoDup(zkids[q])
    BY <1>1 DEF ListsMatch
  <2>2. Items(kids[q]) = {d \in Procs : pstate'[d] = "live" /\ parent'[d] = q}
    BY <2>1, <1>2, <1>9
  <2>3. CASE q = p
    BY <2>1, <2>2, <2>3, <1>2, <1>9
  <2>4. CASE q # p
    BY <2>1, <2>2, <2>4, <1>2, <1>9
  <2>5. QED BY <2>3, <2>4
<1>13. CallsOK' /\ ResetAlone'
    BY <1>3 DEF CallsOK, ResetAlone, Idle, Items
<1>14. HeldLive'
  <2>1. \A f \in Items(calls') : FALSE
    BY <1>3 DEF Idle, Items
  <2>2. \A th \in Thread : Held(th)' => Held(th)
    BY <1>4, <1>5 DEF Held, Items
  <2>3. \A th \in Thread : Held(th)' => pstate'[th[1]] = "live"
    BY <1>1, <1>2, <1>9, <2>2 DEF HeldLive, LiveOnly, Thread
  <2>4. QED BY <2>1, <2>3 DEF HeldLive, LiveOnly
<1>15. QED BY <1>4, <1>8, <1>10, <1>11, <1>12, <1>13, <1>14 DEF IInv, FamilyOK

LEMMA StepReapAny ==
    ASSUME IInv, NEW p \in Procs, NEW t \in Tids, ReapAny(p, t) PROVE IInv'
<1>1. Idle /\ TypeOK /\ FamilyOK /\ Up
    BY RunningIs DEF ReapAny
<1>2. zkids[p] \in Seq(Procs) /\ zkids[p] # << >> /\ NoDup(zkids[p])
    BY <1>1 DEF TypeOK, FamilyOK, ListsMatch, ReapAny
<1>3. /\ Tail(zkids[p]) \in Seq(Procs) /\ Head(zkids[p]) \in Items(zkids[p])
      /\ Items(Tail(zkids[p])) = Items(zkids[p]) \ {Head(zkids[p])}
      /\ NoDup(Tail(zkids[p]))
    BY <1>2, TailItems
<1>4. zkids' = [zkids EXCEPT ![p] = Tail(zkids[p])] /\ Reclaim(Head(zkids[p]))
    BY DEF ReapAny
<1>5. QED BY <1>1, <1>3, <1>4, StepReap

LEMMA StepReapPid ==
    ASSUME IInv, NEW p \in Procs, NEW t \in Tids, NEW c \in Procs, ReapPid(p, t, c)
    PROVE  IInv'
<1>1. Idle /\ TypeOK /\ FamilyOK /\ Up
    BY RunningIs DEF ReapPid
<1>2. zkids[p] \in Seq(Procs) /\ NoDup(zkids[p])
    BY <1>1 DEF TypeOK, FamilyOK, ListsMatch, ReapPid
<1>3. CASE c \notin Items(zkids[p])
    BY <1>3, Stopped DEF ReapPid, Panic
<1>4. CASE c \in Items(zkids[p])
  <2>1. /\ Drop(zkids[p], {c}) \in Seq(Procs)
        /\ Items(Drop(zkids[p], {c})) = Items(zkids[p]) \ {c}
        /\ NoDup(Drop(zkids[p], {c}))
    BY <1>2, DropProps
  <2>2. zkids' = [zkids EXCEPT ![p] = Drop(zkids[p], {c})] /\ Reclaim(c)
    BY <1>4 DEF ReapPid
  <2>3. QED BY <1>1, <1>4, <2>1, <2>2, StepReap
<1>5. QED BY <1>3, <1>4

(* ks_exec past its point of no return.                                    *)
LEMMA StepExec ==
    ASSUME IInv, NEW p \in Procs, NEW t \in Tids, Exec(p, t) PROVE IInv'
<1> USE KernelConstants
<1>1. /\ Idle /\ Up /\ TypeOK /\ FamilyOK /\ HeldLive /\ Sorted(sleepQ) /\ pstate[p] = "live"
    BY RunningIs DEF Exec
<1>2. CASE p = Root /\ (kids[p] # << >> \/ zkids[p] # << >>)
    BY <1>2, Stopped DEF Exec, Panic
<1>3. Call("reset", p) \in Frame /\ Call("reset", p).op = "reset" /\ Call("reset", p).p = p
    BY DEF Call, Frame
<1>4. CASE p = Root /\ kids[p] = << >> /\ zkids[p] = << >>
  <2>1. /\ calls' = << Call("reset", p) >>
        /\ UNCHANGED <<sys, sched, tstate, procVars, queueVars, sigVars>>
    BY <1>4 DEF Exec
  <2>2. FrameOK(Call("reset", p))
    BY <1>1, <1>3 DEF FrameOK
  <2>3. TypeOK' /\ Sorted(sleepQ)'
    BY <1>1, <1>3, <2>1, OneCall DEF TypeOK, procVars, queueVars, sigVars, Sorted
  <2>4. \A th \in Thread : Held(th)' => Held(th)
    BY <2>1 DEF Held, InQueue, Items, WaitersOf, queueVars
  <2>5. QED BY <1>1, <1>3, <2>1, <2>2, <2>3, <2>4, FamilyUntouched
<1>5. CASE p # Root
  <2> DEFINE a == OrphanSignal(p) \o << Call("reset", p) >>
  <2>1. /\ Abandon(p) /\ calls' = a
        /\ UNCHANGED <<sys, sched, tstate, queueVars, sigVars>>
    BY <1>5 DEF Exec
  <2>2. Up' /\ pstate' = pstate /\ mainT' = mainT
    BY <1>1, <2>1 DEF Up, Abandon
  <2>3. /\ FamilyOK'
        /\ parent' \in [Procs -> Procs \cup {NULL}]
        /\ kids' \in [Procs -> Seq(Procs)] /\ zkids' \in [Procs -> Seq(Procs)]
    BY <1>1, <1>5, <2>1, <2>2, AbandonKeeps
  <2>4. calls' \in Seq(Frame) /\ Items(calls') \subseteq {Call("signal", Root), Call("reset", p)}
    BY <1>3, <2>1, OrphanCall
  <2> HIDE DEF a
  <2>5. /\ Call("signal", Root).op = "signal" /\ Call("signal", Root).p = Root
        /\ pstate[Root] = "live"
    BY <1>1 DEF Call, FamilyOK, RootLives
  <2>6. TypeOK' /\ Sorted(sleepQ)'
    BY <1>1, <2>1, <2>2, <2>3, <2>4 DEF TypeOK, queueVars, sigVars, Sorted
  <2>7. CallsOK'
    <3>1. \A f \in Items(calls') : f.op \in {"signal", "reset"} /\ pstate'[f.p] = "live"
        BY <1>1, <1>3, <2>2, <2>4, <2>5
    <3>2. \A f \in Items(calls') : FrameOK(f)'
        BY <3>1 DEF FrameOK
    <3>3. QED BY <3>2 DEF CallsOK
  <2>8. ResetAlone'
    BY <1>3, <2>4, <2>5 DEF ResetAlone
  <2>9. HeldLive'
    <3>1. \A th \in Thread : Held(th)' => Held(th)
        BY <2>1 DEF Held, InQueue, Items, WaitersOf, queueVars
    <3>2. \A f \in Items(calls') : f.op # "bury"
        BY <1>3, <2>4, <2>5
    <3>3. QED BY <1>1, <2>2, <3>1, <3>2, HeldStays
  <2>10. QED BY <2>3, <2>6, <2>7, <2>8, <2>9 DEF IInv
<1>6. QED BY <1>2, <1>4, <1>5

(* The calls that only leave a kernel call to make, or change the signal   *)
(* masks.                                                                  *)
LEMMA StepExit ==
    ASSUME IInv, NEW p \in Procs, NEW t \in Tids, Exit(p, t) PROVE IInv'
<1>1. /\ Idle /\ TypeOK /\ Sorted(sleepQ) /\ pstate[p] = "live"
    BY RunningIs DEF Exit
<1>2. /\ calls' = << Call("exit", p) >>
      /\ UNCHANGED <<sys, sched, tstate, procVars, queueVars, sigVars>>
    BY DEF Exit
<1>3. Call("exit", p) \in Frame /\ Call("exit", p).op = "exit" /\ FrameOK(Call("exit", p))
    BY <1>1, KernelConstants DEF Call, Frame, FrameOK
<1>4. TypeOK' /\ Sorted(sleepQ)'
    BY <1>1, <1>2, <1>3, OneCall DEF TypeOK, procVars, queueVars, sigVars, Sorted
<1>5. \A th \in Thread : Held(th)' => Held(th)
    BY <1>2 DEF Held, InQueue, Items, WaitersOf, queueVars
<1>6. QED BY <1>1, <1>2, <1>3, <1>4, <1>5, FamilyUntouched

LEMMA StepSignal ==
    ASSUME IInv, NEW p \in Procs, NEW t \in Tids, NEW q \in Procs, NEW s \in Sigs \cup BadSigs,
           Signal(p, t, q, s)
    PROVE  IInv'
<1> DEFINE f == [op |-> "signal", p |-> q, sid |-> s]
<1>1. /\ Idle /\ TypeOK /\ Sorted(sleepQ)
    BY RunningIs DEF Signal
<1>2. /\ calls' = << f >>
      /\ UNCHANGED <<sys, sched, tstate, procVars, queueVars, sigVars>>
    BY DEF Signal
<1>3. f \in Frame /\ FrameOK(f) /\ f.op # "bury"
    BY DEF Frame, FrameOK, Signal
<1> HIDE DEF f
<1>4. TypeOK' /\ Sorted(sleepQ)'
    BY <1>1, <1>2, <1>3, OneCall DEF TypeOK, procVars, queueVars, sigVars, Sorted
<1>5. \A th \in Thread : Held(th)' => Held(th)
    BY <1>2 DEF Held, InQueue, Items, WaitersOf, queueVars
<1>6. QED BY <1>1, <1>2, <1>3, <1>4, <1>5, FamilyUntouched

LEMMA StepAllowSignal ==
    ASSUME IInv, NEW p \in Procs, NEW t \in Tids, NEW sv \in SUBSET Sigs, AllowSignal(p, t, sv)
    PROVE  IInv'
<1>1. /\ Idle /\ TypeOK /\ Sorted(sleepQ) /\ pstate[p] = "live"
    BY RunningIs DEF AllowSignal
<1>2. /\ sigAllow' = [sigAllow EXCEPT ![p] = sv]
      /\ calls' = << >> \/ calls' = << Call("exit", p) >>
      /\ UNCHANGED <<sys, sched, tstate, procVars, queueVars, sigVec>>
    BY DEF AllowSignal, AfterAllow
<1>3. Call("exit", p) \in Frame /\ Call("exit", p).op = "exit" /\ FrameOK(Call("exit", p))
    BY <1>1, KernelConstants DEF Call, Frame, FrameOK
<1>4. calls' \in Seq(Frame)
  <2>1. << Call("exit", p) >> \in Seq(Frame) /\ << >> \in Seq(Frame)
    BY <1>3, OneCall
  <2>2. QED BY <1>2, <2>1
<1>5. TypeOK' /\ Sorted(sleepQ)'
    BY <1>1, <1>2, <1>4 DEF TypeOK, procVars, queueVars, sigVars, Sorted
<1>6. \A th \in Thread : Held(th)' => Held(th)
    BY <1>2 DEF Held, InQueue, Items, WaitersOf, queueVars
<1>7. QED BY <1>1, <1>2, <1>3, <1>5, <1>6, FamilyUntouched

LEMMA StepClearSignal ==
    ASSUME IInv, NEW p \in Procs, NEW t \in Tids, NEW sv \in SUBSET Sigs, ClearSignal(p, t, sv)
    PROVE  IInv'
<1>1. /\ Idle /\ TypeOK /\ Sorted(sleepQ)
    BY RunningIs DEF ClearSignal
<1>2. /\ sigVec' = [sigVec EXCEPT ![p] = @ \ sv]
      /\ UNCHANGED <<sys, calls, sched, tstate, procVars, queueVars, sigAllow>>
    BY DEF ClearSignal
<1>0. sigVec' \in [Procs -> SUBSET Sigs]
    BY <1>1, <1>2 DEF TypeOK
<1>3. TypeOK' /\ Sorted(sleepQ)'
    BY <1>0, <1>1, <1>2 DEF TypeOK, procVars, queueVars, Sorted
<1>4. \A th \in Thread : Held(th)' => Held(th)
    BY <1>2 DEF Held, InQueue, Items, WaitersOf, queueVars
<1>5. calls' = << >>
    BY <1>1, <1>2 DEF Idle
<1>6. QED BY <1>1, <1>2, <1>3, <1>4, <1>5, FamilyUntouched

-----------------------------------------------------------------------------
(* The calls that move threads, and the timer.                             *)

LEMMA BlockIs ==
    ASSUME IInv, NEW p \in Procs, NEW t \in Tids, Running(p, t), Block(<<p, t>>)
    PROVE  /\ sched' \in Seq(Thread) /\ Items(sched') \subseteq Items(sched)
           /\ tstate' \in [Thread -> {"none", "detached", "scheduled", "waiting", "exited"}]
BY RunningIs DEF Block, TypeOK

(* A step that moves threads among the schedule and the queues.            *)
LEMMA ThreadsMove ==
    ASSUME IInv, Idle, UNCHANGED <<sys, calls, procVars>>, TypeOK', Sorted(sleepQ)',
           \A th \in Thread : th \in Items(sched') => Held(th) \/ LiveOnly(th),
           \A th \in Thread : th \in WaitersOf(sleepQ') => Held(th),
           \A q \in Procs : \A th \in Thread :
              th \in WaitersOf(joinQ'[q]) \/ th \in WaitersOf(sigQ'[q]) => Held(th)
    PROVE  IInv'
<1>1. ASSUME NEW th \in Thread, Held(th)' PROVE Held(th) \/ LiveOnly(th)
  <2>1. CASE th \in Items(sched')
    BY <2>1
  <2>2. CASE InQueue(th)'
    <3>1. \/ th \in WaitersOf(sleepQ')
          \/ \E q \in Procs : th \in WaitersOf(joinQ'[q]) \/ th \in WaitersOf(sigQ'[q])
        BY <2>2 DEF InQueue, WaitersOf
    <3>2. QED BY <3>1
  <2>3. QED BY <1>1, <2>1, <2>2 DEF Held, Items
<1>2. calls' = << >>
    BY DEF Idle
<1>3. QED BY <1>1, <1>2, FamilyUntouched

LEMMA StepWaitSignal ==
    ASSUME IInv, NEW p \in Procs, NEW t \in Tids, NEW sv \in SUBSET Sigs, WaitSignal(p, t, sv)
    PROVE  IInv'
<1>1. /\ Idle /\ TypeOK /\ Sorted(sleepQ) /\ Held(<<p, t>>) /\ <<p, t>> \in Thread
      /\ Running(p, t)
    BY RunningIs DEF WaitSignal, Held
<1>2. UNCHANGED <<sys, calls, procVars, joinQ, sleepQ, sigAllow>>
    BY DEF WaitSignal
<1>3. CASE sv \cap sigVec[p] # {}
  <2>1. /\ sigVec' = [sigVec EXCEPT ![p] = @ \ {Least(sv \cap sigVec[p])}]
        /\ UNCHANGED <<sched, tstate, sigQ>>
    BY <1>3 DEF WaitSignal
  <2>2. sigVec' \in [Procs -> SUBSET Sigs]
    BY <1>1, <2>1 DEF TypeOK
  <2>3. TypeOK' /\ Sorted(sleepQ)'
    BY <1>1, <1>2, <2>1, <2>2 DEF TypeOK, procVars, Sorted
  <2>4. QED BY <1>1, <1>2, <2>1, <2>3, ThreadsMove DEF Held, InQueue
<1>4. CASE sv \cap sigVec[p] = {}
  <2> DEFINE e == [thr |-> <<p, t>>, mask |-> sv]
  <2>1. /\ sigQ' = [sigQ EXCEPT ![p] = Append(sigQ[p], e)]
        /\ Block(<<p, t>>) /\ UNCHANGED sigVec
    BY <1>4 DEF WaitSignal
  <2>2. e \in Waiter(Sigs) /\ e.thr = <<p, t>>
    BY <1>1 DEF Waiter
  <2> HIDE DEF e
  <2>3. /\ sched' \in Seq(Thread) /\ Items(sched') \subseteq Items(sched)
        /\ tstate' \in [Thread -> {"none", "detached", "scheduled", "waiting", "exited"}]
    BY <1>1, <2>1, BlockIs
  <2>4. sigQ[p] \in Seq(Waiter(Sigs))
    BY <1>1 DEF TypeOK
  <2>5. Append(sigQ[p], e) \in Seq(Waiter(Sigs))
    BY <2>2, <2>4, AppendItems
  <2>6. \A th : th \in WaitersOf(Append(sigQ[p], e)) <=> th \in WaitersOf(sigQ[p]) \/ th = <<p, t>>
    BY <2>2, <2>4, WaitersAppended
  <2>7. /\ sigQ' \in [Procs -> Seq(Waiter(Sigs))] /\ sigQ'[p] = Append(sigQ[p], e)
        /\ \A q \in Procs \ {p} : sigQ'[q] = sigQ[q]
    BY <1>1, <2>1, <2>5 DEF TypeOK
  <2>8. TypeOK' /\ Sorted(sleepQ)'
    BY <1>1, <1>2, <2>1, <2>3, <2>7 DEF TypeOK, procVars, Sorted
  <2>9. \A q \in Procs : \A th \in Thread :
           th \in WaitersOf(joinQ'[q]) \/ th \in WaitersOf(sigQ'[q]) => Held(th)
    BY <1>1, <1>2, <2>6, <2>7 DEF Held, InQueue
  <2>10. QED BY <1>1, <1>2, <2>3, <2>8, <2>9, ThreadsMove DEF Held, InQueue
<1>5. QED BY <1>3, <1>4

LEMMA StepSpawn ==
    ASSUME IInv, NEW p \in Procs, NEW t \in Tids, NEW n \in Tids, Spawn(p, t, n) PROVE IInv'
<1>1. /\ Idle /\ TypeOK /\ Sorted(sleepQ) /\ <<p, n>> \in Thread /\ LiveOnly(<<p, n>>)
    BY RunningIs DEF Spawn, Thread
<1>2. /\ tstate' = [tstate EXCEPT ![<<p, n>>] = "scheduled"]
      /\ sched' = Append(sched, <<p, n>>)
      /\ UNCHANGED <<sys, calls, procVars, queueVars, sigVars>>
    BY DEF Spawn
<1>3. sched' \in Seq(Thread) /\ Items(sched') = Items(sched) \cup {<<p, n>>}
  <2>1. sched \in Seq(Thread)
    BY <1>1 DEF TypeOK
  <2>2. \A th \in Thread : /\ Append(sched, th) \in Seq(Thread)
                           /\ Items(Append(sched, th)) = Items(sched) \cup {th}
    BY <2>1, AppendItems
  <2>3. QED BY <1>1, <1>2, <2>2, Zenon
<1>4. tstate' \in [Thread -> {"none", "detached", "scheduled", "waiting", "exited"}]
    BY <1>1, <1>2 DEF TypeOK
<1>5. TypeOK' /\ Sorted(sleepQ)'
    BY <1>1, <1>2, <1>3, <1>4 DEF TypeOK, procVars, queueVars, sigVars, Sorted
<1>6. QED BY <1>1, <1>2, <1>3, <1>5, ThreadsMove DEF Held, InQueue, queueVars

LEMMA StepExitThread ==
    ASSUME IInv, NEW p \in Procs, NEW t \in Tids, ExitThread(p, t) PROVE IInv'
<1>1. /\ Idle /\ TypeOK /\ Sorted(sleepQ) /\ <<p, t>> \in Thread
      /\ Tail(sched) \in Seq(Thread) /\ Items(Tail(sched)) \subseteq Items(sched)
    BY RunningIs DEF ExitThread
<1>2. UNCHANGED <<sys, calls, procVars, sigQ, sleepQ, sigVars>>
    BY DEF ExitThread
<1>3. CASE Waits(joinQ[p], t) = {}
  <2>1. /\ sched' = Tail(sched)
        /\ tstate' = [tstate EXCEPT ![<<p, t>>] = "exited"]
        /\ UNCHANGED joinQ
    BY <1>3 DEF ExitThread
  <2>2. tstate' \in [Thread -> {"none", "detached", "scheduled", "waiting", "exited"}]
    BY <1>1, <2>1 DEF TypeOK
  <2>3. TypeOK' /\ Sorted(sleepQ)'
    BY <1>1, <1>2, <2>1, <2>2 DEF TypeOK, procVars, sigVars, Sorted
  <2>4. QED BY <1>1, <1>2, <2>1, <2>3, ThreadsMove DEF Held, InQueue
<1>4. CASE Waits(joinQ[p], t) # {}
  <2>1. PICK i : i = Least(Waits(joinQ[p], t))
    OBVIOUS
  <2>2. joinQ[p] \in Seq(Waiter(Tids))
    BY <1>1 DEF TypeOK
  <2>3. i \in 1 .. Len(joinQ[p])
    <3>1. Waits(joinQ[p], t) \subseteq 1 .. Len(joinQ[p]) /\ Waits(joinQ[p], t) \subseteq Nat
        BY <2>2 DEF Waits
    <3>2. i \in Waits(joinQ[p], t)
        BY <1>4, <2>1, <3>1, LeastIs
    <3>3. QED BY <3>1, <3>2
  <2>4. PICK j : j = joinQ[p][i].thr
    OBVIOUS
  <2>5. j \in Thread /\ j \in WaitersOf(joinQ[p])
    <3>1. joinQ[p][i] \in Waiter(Tids)
        BY <2>2, <2>3
    <3>2. QED BY <2>3, <2>4, <3>1 DEF Waiter, WaitersOf
  <2>6. /\ PopAt(joinQ[p], i) \in Seq(Waiter(Tids))
        /\ \A th : th \in WaitersOf(PopAt(joinQ[p], i)) => th \in WaitersOf(joinQ[p])
    BY <2>2, <2>3, PopAtIs, WaitersPopped
  <2>7. /\ joinQ' = [joinQ EXCEPT ![p] = PopAt(joinQ[p], i)]
        /\ sched' = Append(Tail(sched), j)
        /\ tstate' = [tstate EXCEPT ![j] = "scheduled", ![<<p, t>>] = "none"]
    BY <1>4, <2>1, <2>4 DEF ExitThread
  <2>8. sched' \in Seq(Thread) /\ Items(sched') = Items(Tail(sched)) \cup {j}
    <3>1. PICK r : r = Tail(sched)
        OBVIOUS
    <3>2. r \in Seq(Thread) /\ sched' = Append(r, j)
        BY <1>1, <2>7, <3>1
    <3>3. sched' \in Seq(Thread) /\ Items(sched') = Items(r) \cup {j}
        BY <2>5, <3>2, AppendItems
    <3>4. QED BY <3>1, <3>3
  <2>9. /\ joinQ' \in [Procs -> Seq(Waiter(Tids))] /\ joinQ'[p] = PopAt(joinQ[p], i)
        /\ \A q \in Procs \ {p} : joinQ'[q] = joinQ[q]
    BY <1>1, <2>6, <2>7 DEF TypeOK
  <2>10. tstate' \in [Thread -> {"none", "detached", "scheduled", "waiting", "exited"}]
    BY <1>1, <2>5, <2>7 DEF TypeOK
  <2>11. TypeOK' /\ Sorted(sleepQ)'
    BY <1>1, <1>2, <2>8, <2>9, <2>10 DEF TypeOK, procVars, sigVars, Sorted
  <2>12. \A th \in Thread : th \in Items(sched') => Held(th)
    BY <1>1, <2>5, <2>8 DEF Held, InQueue
  <2>13. \A q \in Procs : \A th \in Thread :
            th \in WaitersOf(joinQ'[q]) \/ th \in WaitersOf(sigQ'[q]) => Held(th)
    BY <1>2, <2>6, <2>9 DEF Held, InQueue
  <2>14. QED BY <1>1, <1>2, <2>11, <2>12, <2>13, ThreadsMove DEF Held, InQueue
<1>5. QED BY <1>3, <1>4

LEMMA StepJoin ==
    ASSUME IInv, NEW p \in Procs, NEW t \in Tids, NEW jv \in SUBSET Tids, Join(p, t, jv)
    PROVE  IInv'
<1>1. /\ Idle /\ TypeOK /\ Sorted(sleepQ) /\ Held(<<p, t>>) /\ <<p, t>> \in Thread
      /\ Running(p, t)
    BY RunningIs DEF Join, Held
<1>2. UNCHANGED <<sys, calls, procVars, sigQ, sleepQ, sigVars>>
    BY DEF Join
<1> DEFINE ready == {r \in jv : tstate[<<p, r>>] = "exited"}
<1>3. CASE ready # {}
  <2>1. /\ tstate' = [tstate EXCEPT ![<<p, Least(ready)>>] = "none"]
        /\ UNCHANGED <<sched, joinQ>>
    BY <1>3 DEF Join
  <2>2. tstate' \in [Thread -> {"none", "detached", "scheduled", "waiting", "exited"}]
    BY <1>1, <2>1 DEF TypeOK
  <2>3. TypeOK' /\ Sorted(sleepQ)'
    BY <1>1, <1>2, <2>1, <2>2 DEF TypeOK, procVars, sigVars, Sorted
  <2>4. QED BY <1>1, <1>2, <2>1, <2>3, ThreadsMove DEF Held, InQueue
<1>4. CASE ready = {}
  <2> DEFINE e == [thr |-> <<p, t>>, mask |-> jv]
  <2>1. /\ joinQ' = [joinQ EXCEPT ![p] = Append(joinQ[p], e)]
        /\ Block(<<p, t>>)
    BY <1>4 DEF Join
  <2>2. e \in Waiter(Tids) /\ e.thr = <<p, t>>
    BY <1>1 DEF Waiter
  <2> HIDE DEF e
  <2>3. /\ sched' \in Seq(Thread) /\ Items(sched') \subseteq Items(sched)
        /\ tstate' \in [Thread -> {"none", "detached", "scheduled", "waiting", "exited"}]
    BY <1>1, <2>1, BlockIs
  <2>4. joinQ[p] \in Seq(Waiter(Tids))
    BY <1>1 DEF TypeOK
  <2>5. Append(joinQ[p], e) \in Seq(Waiter(Tids))
    BY <2>2, <2>4, AppendItems
  <2>6. \A th : th \in WaitersOf(Append(joinQ[p], e)) <=> th \in WaitersOf(joinQ[p]) \/ th = <<p, t>>
    BY <2>2, <2>4, WaitersAppended
  <2>7. /\ joinQ' \in [Procs -> Seq(Waiter(Tids))] /\ joinQ'[p] = Append(joinQ[p], e)
        /\ \A q \in Procs \ {p} : joinQ'[q] = joinQ[q]
    BY <1>1, <2>1, <2>5 DEF TypeOK
  <2>8. TypeOK' /\ Sorted(sleepQ)'
    BY <1>1, <1>2, <2>1, <2>3, <2>7 DEF TypeOK, procVars, sigVars, Sorted
  <2>9. \A q \in Procs : \A th \in Thread :
           th \in WaitersOf(joinQ'[q]) \/ th \in WaitersOf(sigQ'[q]) => Held(th)
    BY <1>1, <1>2, <2>6, <2>7 DEF Held, InQueue
  <2>10. QED BY <1>1, <1>2, <2>3, <2>8, <2>9, ThreadsMove DEF Held, InQueue
<1>5. QED BY <1>3, <1>4

LEMMA SleepersAre ==
    ASSUME NEW q \in Seq(Sleeper)
    PROVE  /\ Len(q) \in Nat
           /\ \A k \in 1 .. Len(q) : /\ q[k] \in Sleeper /\ q[k].thr \in Thread
                                    /\ q[k].left \in 0 .. MaxSleep /\ q[k].left \in Nat
<1>1. Len(q) \in Nat /\ \A k \in 1 .. Len(q) : q[k] \in Sleeper
    OBVIOUS
<1>2. \A e \in Sleeper : e.thr \in Thread /\ e.left \in 0 .. MaxSleep
    BY DEF Sleeper
<1>3. 0 .. MaxSleep \subseteq Nat
    BY KernelConstants
<1>4. QED BY <1>1, <1>2, <1>3

(* Where a new sleeper goes: nobody before that place sleeps longer, and   *)
(* everybody from it on does.                                              *)
LEMMA SleepPlaceIs ==
    ASSUME sleepQ \in Seq(Sleeper), Sorted(sleepQ), NEW n \in Nat
    PROVE  /\ SleepPlace(n) \in 1 .. Len(sleepQ) + 1
           /\ \A k \in 1 .. Len(sleepQ) : k < SleepPlace(n) => sleepQ[k].left <= n
           /\ \A k \in 1 .. Len(sleepQ) : k >= SleepPlace(n) => n < sleepQ[k].left
<1> DEFINE later == {i \in 1 .. Len(sleepQ) : n < sleepQ[i].left}
<1>1. Len(sleepQ) \in Nat /\ \A k \in 1 .. Len(sleepQ) : sleepQ[k].left \in Nat
    BY SleepersAre
<1>2. CASE later = {}
    BY <1>1, <1>2 DEF SleepPlace
<1>3. CASE later # {}
  <2>1. SleepPlace(n) = Least(later)
    BY <1>3 DEF SleepPlace
  <2>2. later \subseteq Nat
    BY <1>1
  <2>3. Least(later) \in later /\ \A j \in later : Least(later) <= j
    BY <1>3, <2>2, LeastIs
  <2>4. PICK m \in later : m = SleepPlace(n) /\ \A j \in later : m <= j
    BY <2>1, <2>3
  <2>5. \A k \in 1 .. Len(sleepQ) : k < m => sleepQ[k].left <= n
    BY <1>1, <2>4
  <2>6. \A k \in 1 .. Len(sleepQ) : k >= m => n < sleepQ[k].left
    BY <1>1, <2>4 DEF Sorted
  <2>7. QED BY <1>1, <2>4, <2>5, <2>6
<1>4. QED BY <1>2, <1>3

LEMMA StepSleep ==
    ASSUME IInv, NEW p \in Procs, NEW t \in Tids, NEW n \in 0 .. MaxSleep, Sleep(p, t, n)
    PROVE  IInv'
<1>1. /\ Idle /\ TypeOK /\ Sorted(sleepQ) /\ Held(<<p, t>>) /\ <<p, t>> \in Thread
      /\ Running(p, t)
    BY RunningIs DEF Sleep, Held
<1> DEFINE e == [thr |-> <<p, t>>, left |-> n]
<1>2. e \in Sleeper /\ e.thr = <<p, t>> /\ e.left = n
    BY <1>1 DEF Sleeper
<1>3. PICK i : i = SleepPlace(n)
    OBVIOUS
<1>4. /\ UNCHANGED <<sys, calls, procVars, joinQ, sigQ, sigVars>>
      /\ sleepQ' = PushAt(sleepQ, i, e) /\ Block(<<p, t>>)
    BY <1>3 DEF Sleep
<1> HIDE DEF e
<1>5. sleepQ \in Seq(Sleeper) /\ n \in Nat
    BY <1>1, KernelConstants DEF TypeOK
<1>6. /\ i \in 1 .. Len(sleepQ) + 1
      /\ \A k \in 1 .. Len(sleepQ) : k < i => sleepQ[k].left <= n
      /\ \A k \in 1 .. Len(sleepQ) : k >= i => n < sleepQ[k].left
    BY <1>1, <1>3, <1>5, SleepPlaceIs
<1>7. /\ sleepQ' \in Seq(Sleeper)
      /\ Len(sleepQ') = Len(sleepQ) + 1
      /\ \A k \in 1 .. Len(sleepQ) + 1 : /\ k < i => sleepQ'[k] = sleepQ[k]
                                         /\ k = i => sleepQ'[k] = e
                                         /\ k > i => sleepQ'[k] = sleepQ[k - 1]
  <2>1. sleepQ \in Seq(Sleeper) /\ i \in 1 .. Len(sleepQ) + 1 /\ e \in Sleeper
    BY <1>2, <1>5, <1>6
  <2>2. sleepQ' = PushAt(sleepQ, i, e)
    BY <1>4
  <2>3. QED BY <2>1, <2>2, PushAtIs, SMTT(60)
<1>8. Sorted(sleepQ)'
  <2>1. ASSUME NEW k \in 1 .. Len(sleepQ) + 1, NEW l \in 1 .. Len(sleepQ) + 1, k < l
        PROVE  sleepQ'[k].left <= sleepQ'[l].left
    <3>1. Len(sleepQ) \in Nat /\ \A m \in 1 .. Len(sleepQ) : sleepQ[m].left \in Nat
        BY <1>5, SleepersAre
    <3>2. CASE l < i
        BY <3>1, <3>2, <2>1, <1>1, <1>6, <1>7 DEF Sorted
    <3>3. CASE l = i
        BY <3>1, <3>3, <2>1, <1>2, <1>5, <1>6, <1>7
    <3>4. CASE l > i
      <4>1. sleepQ'[l] = sleepQ[l - 1] /\ l - 1 \in 1 .. Len(sleepQ) /\ l - 1 >= i
        BY <3>1, <3>4, <1>6, <1>7
      <4>2. CASE k < i
        <5>1. sleepQ'[k] = sleepQ[k] /\ k \in 1 .. Len(sleepQ)
          BY <3>1, <4>2, <2>1, <1>6, <1>7
        <5>2. sleepQ[k].left <= n /\ n < sleepQ[l - 1].left
          BY <5>1, <4>1, <4>2, <1>6
        <5>3. QED BY <3>1, <4>1, <5>1, <5>2, <1>5
      <4>3. CASE k = i
        BY <3>1, <4>1, <4>3, <1>2, <1>5, <1>6, <1>7
      <4>4. CASE k > i
        <5>1. sleepQ'[k] = sleepQ[k - 1] /\ k - 1 \in 1 .. Len(sleepQ) /\ k - 1 < l - 1
          BY <3>1, <4>4, <2>1, <1>6, <1>7
        <5>2. QED BY <4>1, <5>1, <1>1 DEF Sorted
      <4>5. QED BY <4>2, <4>3, <4>4, <1>6
    <3>5. QED BY <3>2, <3>3, <3>4, <1>6
  <2>2. QED BY <2>1, <1>7 DEF Sorted
<1>9. /\ sched' \in Seq(Thread) /\ Items(sched') \subseteq Items(sched)
      /\ tstate' \in [Thread -> {"none", "detached", "scheduled", "waiting", "exited"}]
    BY <1>1, <1>4, BlockIs
<1>10. TypeOK'
    BY <1>1, <1>4, <1>7, <1>9 DEF TypeOK, procVars, sigVars
<1>11. \A th \in Thread : th \in WaitersOf(sleepQ') => Held(th)
  <2>1. ASSUME NEW k \in 1 .. Len(sleepQ') PROVE Held(sleepQ'[k].thr)
    <3>1. \A m \in 1 .. Len(sleepQ) : Held(sleepQ[m].thr)
        BY DEF Held, InQueue, WaitersOf
    <3>2. CASE k < i
      <4>1. sleepQ'[k] = sleepQ[k] /\ k \in 1 .. Len(sleepQ)
        BY <3>2, <1>5, <1>6, <1>7
      <4>2. QED BY <3>1, <4>1
    <3>3. CASE k = i
      <4>1. sleepQ'[k] = e
        BY <3>3, <1>6, <1>7
      <4>2. QED BY <4>1, <1>1, <1>2
    <3>4. CASE k > i
      <4>1. sleepQ'[k] = sleepQ[k - 1] /\ k - 1 \in 1 .. Len(sleepQ)
        BY <3>4, <1>5, <1>6, <1>7
      <4>2. QED BY <3>1, <4>1
    <3>5. QED BY <3>2, <3>3, <3>4, <1>6
  <2>2. QED BY <2>1 DEF WaitersOf
<1>12. QED BY <1>1, <1>4, <1>8, <1>9, <1>10, <1>11, ThreadsMove DEF Held, InQueue

(* Every sleeper behind the ones that are due has more than a tick left.   *)
LEMMA DueIs ==
    ASSUME sleepQ \in Seq(Sleeper), Sorted(sleepQ)
    PROVE  /\ Due \in 0 .. Len(sleepQ)
           /\ \A k \in 1 .. Len(sleepQ) : k > Due => sleepQ[k].left > 1
<1> DEFINE waking == {i \in 1 .. Len(sleepQ) : sleepQ[i].left > 1}
<1>1. Len(sleepQ) \in Nat /\ \A k \in 1 .. Len(sleepQ) : sleepQ[k].left \in Nat
    BY SleepersAre
<1>2. CASE waking = {}
    BY <1>1, <1>2 DEF Due
<1>3. CASE waking # {}
  <2>1. Due = Least(waking) - 1
    BY <1>3 DEF Due
  <2>2. waking \subseteq Nat
    BY <1>1
  <2>3. PICK m \in waking : m = Least(waking)
    BY <1>3, <2>2, LeastIs
  <2>4. \A k \in 1 .. Len(sleepQ) : k > m - 1 => sleepQ[k].left > 1
    BY <1>1, <2>3 DEF Sorted
  <2>5. QED BY <1>1, <2>1, <2>3, <2>4
<1>4. QED BY <1>2, <1>3

LEMMA StepTick ==
    ASSUME IInv, Tick PROVE IInv'
<1>1. Idle /\ TypeOK /\ Sorted(sleepQ)
    BY DEF IInv, Tick, TimerFires
<1>2. sleepQ \in Seq(Sleeper) /\ sched \in Seq(Thread) /\ Len(sleepQ) \in Nat
    BY <1>1 DEF TypeOK
<1>3. PICK d \in 0 .. Len(sleepQ) :
         d = Due /\ \A k \in 1 .. Len(sleepQ) : k > d => sleepQ[k].left > 1
    BY <1>1, <1>2, DueIs
<1> DEFINE w == [i \in 1 .. d |-> sleepQ[i].thr]
           z == [i \in 1 .. Len(sleepQ) - d |->
                   [thr |-> sleepQ[d + i].thr, left |-> sleepQ[d + i].left - 1]]
<1>4. /\ tstate' = [th \in Thread |-> IF th \in Items(w) THEN "scheduled" ELSE tstate[th]]
      /\ sched' = IF sched = << >> THEN sched \o w ELSE Advance(sched \o w)
      /\ sleepQ' = z
      /\ UNCHANGED <<sys, calls, procVars, joinQ, sigQ, sigVars>>
    BY <1>3 DEF Tick
<1>5. \A k \in 1 .. Len(sleepQ) : sleepQ[k].thr \in Thread /\ sleepQ[k].left \in 0 .. MaxSleep
    BY <1>2, SleepersAre
<1>6. w \in Seq(Thread) /\ \A th \in Items(w) : th \in WaitersOf(sleepQ)
  <2>1. d \in Nat /\ \A k \in 1 .. d : k \in 1 .. Len(sleepQ)
    BY <1>2
  <2>2. w \in Seq(Thread) /\ Len(w) = d /\ \A k \in 1 .. d : w[k] = sleepQ[k].thr
    BY <1>5, <2>1
  <2>3. QED BY <2>1, <2>2 DEF Items, WaitersOf
<1>7. /\ \A k \in 1 .. Len(sleepQ) - d : /\ d + k \in 1 .. Len(sleepQ)
                                         /\ z[k].thr = sleepQ[d + k].thr
                                         /\ z[k].left = sleepQ[d + k].left - 1
                                         /\ z[k] \in Sleeper
      /\ z \in Seq(Sleeper) /\ Len(z) = Len(sleepQ) - d
  <2>1. \A k \in 1 .. Len(sleepQ) - d : d + k \in 1 .. Len(sleepQ) /\ d + k > d
    BY <1>2
  <2>2. ASSUME NEW k \in 1 .. Len(sleepQ) - d
        PROVE  /\ z[k].thr = sleepQ[d + k].thr
               /\ z[k].left = sleepQ[d + k].left - 1
               /\ z[k] \in Sleeper
    <3>1. z[k] = [thr |-> sleepQ[d + k].thr, left |-> sleepQ[d + k].left - 1]
        OBVIOUS
    <3>2. sleepQ[d + k].left - 1 \in 0 .. MaxSleep
        BY <2>1, <1>3, <1>5, KernelConstants
    <3>3. QED BY <3>1, <3>2, <2>1, <1>5 DEF Sleeper
  <2>3. Len(sleepQ) - d \in Nat
    BY <1>2
  <2>4. z \in Seq(Sleeper) /\ Len(z) = Len(sleepQ) - d
    BY <2>2, <2>3
  <2>5. QED BY <2>1, <2>2, <2>4
<1> HIDE DEF w, z
<1>8. Sorted(sleepQ)'
  <2>1. \A k, l \in 1 .. Len(z) : k < l => z[k].left <= z[l].left
    <3>1. \A k \in 1 .. Len(sleepQ) : sleepQ[k].left \in Int
        BY <1>5, KernelConstants
    <3>2. ASSUME NEW k \in 1 .. Len(z), NEW l \in 1 .. Len(z), k < l
          PROVE  z[k].left <= z[l].left
      <4>0. /\ d + k \in 1 .. Len(sleepQ) /\ d + l \in 1 .. Len(sleepQ)
            /\ d + k < d + l
        BY <3>2, <1>2, <1>7
      <4>1. sleepQ[d + k].left <= sleepQ[d + l].left
        BY <4>0, <1>1 DEF Sorted
      <4>2. QED BY <3>1, <4>1, <1>7
    <3>3. QED BY <3>2
  <2>2. QED BY <2>1, <1>4 DEF Sorted
<1>9. sched' \in Seq(Thread) /\ Items(sched') \subseteq Items(sched) \cup Items(w)
  <2> DEFINE r == sched \o w
  <2>1. r \in Seq(Thread) /\ Items(r) = Items(sched) \cup Items(w)
    BY <1>2, <1>6, ConcatItems
  <2> HIDE DEF r
  <2>2. CASE r = << >> \/ sched = << >>
    <3>1. sched = << >> => sched' = r
        BY <1>4 DEF r
    <3>2. r = << >> => sched = << >>
        BY <1>2, <1>6 DEF r
    <3>3. QED BY <2>1, <2>2, <3>1, <3>2
  <2>3. CASE r # << >> /\ sched # << >>
    <3>1. sched' = Append(Tail(r), Head(r))
        BY <1>4, <2>3 DEF Advance, r
    <3>2. PICK u : u = Tail(r)
        OBVIOUS
    <3>3. /\ u \in Seq(Thread) /\ Len(u) = Len(r) - 1 /\ Len(r) \in Nat \ {0}
          /\ Head(r) = r[1] /\ Head(r) \in Thread
          /\ \A k \in 1 .. Len(r) - 1 : u[k] = r[k + 1]
        BY <2>1, <2>3, <3>2
    <3>4. Items(u) \subseteq Items(r) /\ Head(r) \in Items(r)
        BY <3>3 DEF Items
    <3>5. sched' \in Seq(Thread) /\ Items(sched') = Items(u) \cup {Head(r)}
      <4>1. PICK x \in Thread : x = Head(r)
        BY <3>3
      <4>2. u \in Seq(Thread) /\ sched' = Append(u, x)
        BY <3>1, <3>2, <3>3, <4>1
      <4>3. sched' \in Seq(Thread) /\ Items(sched') = Items(u) \cup {x}
        BY <4>2, AppendItems
      <4>4. QED BY <4>1, <4>3
    <3>6. QED BY <2>1, <3>4, <3>5
  <2>4. QED BY <2>2, <2>3
<1>10. tstate' \in [Thread -> {"none", "detached", "scheduled", "waiting", "exited"}]
    BY <1>1, <1>4 DEF TypeOK
<1>11. TypeOK'
    BY <1>1, <1>4, <1>7, <1>9, <1>10 DEF TypeOK, procVars, sigVars
<1>12. \A th \in Thread : th \in WaitersOf(sleepQ') => Held(th)
  <2>1. ASSUME NEW k \in 1 .. Len(z) PROVE z[k].thr \in WaitersOf(sleepQ)
    BY <1>7 DEF WaitersOf
  <2>2. QED BY <2>1, <1>4 DEF WaitersOf, Held, InQueue
<1>13. QED BY <1>1, <1>4, <1>6, <1>8, <1>9, <1>11, <1>12, ThreadsMove DEF Held, InQueue

-----------------------------------------------------------------------------
(* The theorems.                                                           *)

LEMMA Inductive == IInv /\ [Next]_vars => IInv'
<1> SUFFICES ASSUME IInv, [Next]_vars PROVE IInv'
    OBVIOUS
<1>1. CASE UNCHANGED vars
  <2>1. /\ UNCHANGED <<sys, calls, sched, tstate, pstate, parent, kids, zkids, mainT>>
        /\ UNCHANGED <<joinQ, sigQ, sleepQ, sigVec, sigAllow>>
    BY <1>1 DEF vars, procVars, sigVars, queueVars
  <2>2. TypeOK'
    BY <2>1 DEF IInv, TypeOK
  <2>3. FamilyOK'
    BY <2>1 DEF IInv, FamilyOK, Up, RootLives, ListsMatch, ParentsLive
  <2>4. CallsOK'
    BY <2>1 DEF IInv, CallsOK, Up, FrameOK
  <2>5. ResetAlone'
    BY <2>1 DEF IInv, ResetAlone, Up
  <2>6. HeldLive'
    <3>1. \A th \in Thread : Held(th)' <=> Held(th)
        BY <2>1 DEF Held, InQueue
    <3>2. QED BY <2>1, <3>1 DEF IInv, HeldLive, LiveOnly, Up
  <2>7. Sorted(sleepQ)'
    BY <2>1 DEF IInv, Sorted
  <2>8. QED BY <2>2, <2>3, <2>4, <2>5, <2>6, <2>7 DEF IInv
<1>2. CASE InKernel
    BY <1>2, StepExitProc, StepBuryProc, StepSignalProc, StepResetProc DEF InKernel
<1>3. CASE Tick
    BY <1>3, StepTick
<1>4. CASE LockedUp
    BY <1>1, <1>4 DEF LockedUp
<1>5. ASSUME NEW p \in Procs, NEW t \in Tids, Syscall(p, t) PROVE IInv'
  <2>1. CASE Exit(p, t) \/ ReapAny(p, t) \/ Exec(p, t) \/ ExitThread(p, t)
    BY <2>1, StepExit, StepReapAny, StepExec, StepExitThread
  <2>2. ASSUME NEW c \in Procs, Fork(p, t, c) \/ ReapPid(p, t, c) PROVE IInv'
    BY <2>2, StepFork, StepReapPid
  <2>3. ASSUME NEW q \in Procs, NEW s \in Sigs \cup BadSigs, Signal(p, t, q, s) PROVE IInv'
    BY <2>3, StepSignal
  <2>4. ASSUME NEW sv \in SUBSET Sigs,
               AllowSignal(p, t, sv) \/ WaitSignal(p, t, sv) \/ ClearSignal(p, t, sv)
        PROVE  IInv'
    BY <2>4, StepAllowSignal, StepWaitSignal, StepClearSignal
  <2>5. ASSUME NEW n \in Tids, Spawn(p, t, n) PROVE IInv'
    BY <2>5, StepSpawn
  <2>6. ASSUME NEW jv \in SUBSET Tids, Join(p, t, jv) PROVE IInv'
    BY <2>6, StepJoin
  <2>7. ASSUME NEW n \in 0 .. MaxSleep, Sleep(p, t, n) PROVE IInv'
    BY <2>7, StepSleep
  <2>8. QED BY <1>5, <2>1, <2>2, <2>3, <2>4, <2>5, <2>6, <2>7 DEF Syscall
<1>6. QED BY <1>1, <1>2, <1>3, <1>4, <1>5 DEF Next

(* Every variable keeps its type: in particular a sleeper that is not due  *)
(* always has a tick to give away, and the parent that an exiting process  *)
(* signals is a process.                                                   *)
THEOREM KernelTypes == Spec => []TypeOK
<1>1. IInv => TypeOK
    BY DEF IInv
<1>2. QED BY <1>1, InitIInv, Inductive, PTL DEF Spec

(* The children lists, the zombie lists and the parent pointers agree, and *)
(* a parent is alive, through every interleaving of forks, exits, kills by *)
(* signal, adoptions by the root, execs and reaps.                         *)
THEOREM FamilyInOrder == Spec => []FamilyOK
<1>1. IInv => FamilyOK
    BY DEF IInv
<1>2. QED BY <1>1, InitIInv, Inductive, PTL DEF Spec

(* The sleepers are in the order they are due, whoever was detached from   *)
(* the middle of the queue meanwhile.                                      *)
THEOREM SleepersAreInOrder == Spec => []SleepersInOrder
<1>1. IInv => SleepersInOrder
    BY DEF IInv, Sorted, SleepersInOrder
<1>2. QED BY <1>1, InitIInv, Inductive, PTL DEF Spec
-----------------------------------------------------------------------------
(* The way up the process tree.                                            *)

(* Processes that have their parents among them have the root among them:  *)
(* what is inductive of the tree being a tree.                             *)
WithParents(Q) == \A c \in Q : pstate[c] # "free" /\ (c # Root => parent[c] \in Q)

Rooted == \A Q \in SUBSET Procs : Q # {} /\ WithParents(Q) => Root \in Q

(* The elders of p, with p, have their parents among them: each round adds *)
(* one, until there is none to add.                                        *)
LEMMA EldersAreUp ==
    ASSUME IsFiniteSet(Procs), NEW p \in Procs, parent \in [Procs -> Procs \cup {NULL}]
    PROVE  p \in Elders(p) /\ \A c \in Elders(p) \ {NULL} : parent[c] \in Elders(p)
<1> DEFINE All == Procs \cup {NULL}
           most == Cardinality(Procs)
           Up1(S) == S \cup {parent[c] : c \in S \ {NULL}}
           G == [S \in SUBSET All |-> Up1(S)]
           up == CHOOSE f : f = [n \in 0 .. most |-> IF n = 0 THEN {p} ELSE Up1(f[n - 1])]
<1> USE KernelConstants
<1>1. most \in Nat /\ IsFiniteSet(All) /\ Cardinality(All) = most + 1
    BY FS_CardinalityType, FS_AddElement
<1>2. \A S \in SUBSET All : Up1(S) \in SUBSET All /\ S \subseteq Up1(S)
    OBVIOUS
<1> DEFINE Sets == SUBSET All
<1>3. G \in [Sets -> Sets] /\ {p} \in Sets /\ \A S \in Sets : G[S] = Up1(S)
  <2> HIDE DEF Up1
  <2>1. {p} \in Sets
    OBVIOUS
  <2>2. QED BY <1>2, <2>1
<1>4. Elders(p) = up[most]
    BY DEF Elders
<1> HIDE DEF Up1, G, Sets, most, up
<1>5. PICK g : Repeats(g, Sets, {p}, G, most)
    BY <1>1, <1>3, Iterates
<1>6. g = [n \in 0 .. most |-> IF n = 0 THEN {p} ELSE Up1(g[n - 1])]
  <2>1. \A n \in 1 .. most : n - 1 \in 0 .. most /\ g[n] = Up1(g[n - 1])
    BY <1>1, <1>3, <1>5 DEF Repeats
  <2>2. QED BY <1>5, <2>1 DEF Repeats
<1>7. /\ up[0] = {p}
      /\ \A k \in 1 .. most : up[k] = Up1(up[k - 1])
  <2>1. up = [n \in 0 .. most |-> IF n = 0 THEN {p} ELSE Up1(up[n - 1])]
    BY <1>6 DEF up
  <2>2. 0 \in 0 .. most /\ \A k \in 1 .. most : k \in 0 .. most /\ k # 0
    BY <1>1
  <2>3. up[0] = {p}
    BY <2>1, <2>2
  <2>4. ASSUME NEW k \in 1 .. most PROVE up[k] = Up1(up[k - 1])
    BY <2>1, <2>2
  <2>5. QED BY <2>3, <2>4
<1> HIDE DEF up
<1> DEFINE Closed(S) == Up1(S) \subseteq S
           Fine(k) == /\ up[k] \subseteq All /\ p \in up[k]
                      /\ Closed(up[k]) \/ Cardinality(up[k]) > k
           T == {k \in 0 .. most : Fine(k)}
<1>8. 0 \in T
  <2>1. Cardinality({p}) = 1
    BY FS_Singleton
  <2>2. up[0] \subseteq All /\ p \in up[0] /\ Cardinality(up[0]) > 0
    BY <1>7, <2>1
  <2>3. 0 \in 0 .. most
    BY <1>1
  <2>4. QED BY <2>2, <2>3
<1>9. ASSUME NEW k \in 1 .. most, k - 1 \in T PROVE k \in T
  <2> DEFINE S == up[k - 1]
  <2>1. S \subseteq All /\ p \in S /\ (Closed(S) \/ Cardinality(S) > k - 1) /\ up[k] = Up1(S)
    BY <1>7, <1>9
  <2>2. CASE Closed(S)
    <3>1. up[k] = S
        BY <1>2, <2>1, <2>2
    <3>2. Fine(k)
        BY <2>1, <2>2, <3>1
    <3>3. k \in 0 .. most
        BY <1>1
    <3>4. QED BY <3>2, <3>3
  <2>3. CASE ~Closed(S)
    <3>1. PICK x \in All : x \in up[k] /\ x \notin S
        BY <1>2, <2>1, <2>3
    <3>2. up[k] \subseteq All /\ S \cup {x} \subseteq up[k]
        BY <1>2, <2>1, <3>1
    <3>3. /\ IsFiniteSet(S) /\ IsFiniteSet(up[k]) /\ Cardinality(S) \in Nat
          /\ Cardinality(up[k]) \in Nat
        BY <1>1, <2>1, <3>2, FS_Subset, FS_CardinalityType
    <3>4. Cardinality(S \cup {x}) = Cardinality(S) + 1
        BY <3>1, <3>3, FS_AddElement
    <3>5. Cardinality(S \cup {x}) <= Cardinality(up[k])
        BY <3>2, <3>3, FS_Subset
    <3>6. Cardinality(up[k]) > k
      <4>1. Cardinality(S) > k - 1
        BY <2>1, <2>3
      <4>2. QED BY <1>1, <3>3, <3>4, <3>5, <4>1
    <3>7. k \in 0 .. most
        BY <1>1
    <3>8. QED BY <2>1, <3>2, <3>6, <3>7
  <2>4. QED BY <2>2, <2>3
<1>10. Fine(most)
  <2> HIDE DEF T, Fine, most
  <2>1. 0 .. most \subseteq T
    BY <1>1, <1>8, <1>9, Upwards
  <2>2. QED BY <1>1, <2>1 DEF T
<1>11. Closed(up[most])
  <2>1. CASE Cardinality(up[most]) > most
    <3>1. /\ Cardinality(up[most]) \in Nat /\ Cardinality(up[most]) <= most + 1
          /\ Cardinality(up[most]) = Cardinality(All) => up[most] = All
        BY <1>1, <1>10, FS_Subset, FS_CardinalityType
    <3>2. up[most] = All
        BY <1>1, <2>1, <3>1
    <3>3. QED BY <1>2, <3>2
  <2>2. QED BY <1>10, <2>1
<1>12. QED BY <1>4, <1>10, <1>11 DEF Up1

LEMMA RootedIsEnough ==
    ASSUME IsFiniteSet(Procs), TypeOK, FamilyOK, Rooted
    PROVE  RootIsElder
<1> SUFFICES ASSUME Up, NEW p \in Procs, pstate[p] # "free" PROVE Root \in Elders(p)
    BY DEF RootIsElder
<1> DEFINE Q == {c \in Procs : c \in Elders(p) /\ pstate[c] # "free"}
<1>1. p \in Elders(p) /\ \A c \in Elders(p) \ {NULL} : parent[c] \in Elders(p)
    BY EldersAreUp DEF TypeOK
<1>2. p \in Q /\ Q \in SUBSET Procs
    BY <1>1
<1>3. WithParents(Q)
  <2>1. ASSUME NEW c \in Q, c # Root PROVE parent[c] \in Q
    <3>1. parent[c] \in Procs /\ pstate[parent[c]] = "live"
        BY <2>1 DEF FamilyOK, ParentsLive
    <3>2. parent[c] \in Elders(p)
        BY <1>1, KernelConstants
    <3>3. QED BY <3>1, <3>2
  <2>2. QED BY <2>1 DEF WithParents
<1>4. Root \in Q
    BY <1>2, <1>3 DEF Rooted
<1>5. QED BY <1>4

LEMMA RootedStays == ASSUME Rooted, UNCHANGED procVars PROVE Rooted'
BY DEF Rooted, WithParents, procVars

(* The children of a process that is abandoned get the root for a parent.  *)
LEMMA RootedAbandon ==
    ASSUME Rooted, TypeOK, RootLives, ListsMatch, NEW p \in Procs, Abandon(p)
    PROVE  Rooted'
<1> SUFFICES ASSUME NEW Q \in SUBSET Procs, Q # {}, WithParents(Q)', Root \notin Q PROVE FALSE
    BY DEF Rooted
<1>1. pstate' = pstate /\ \A c \in Procs : parent'[c] \in {Root, parent[c]}
    BY DEF Abandon
<1>2. \A c \in Q : pstate[c] # "free" /\ parent[c] \in Q
    BY <1>1 DEF WithParents
<1>3. QED BY <1>2 DEF Rooted, WithParents

LEMMA RootedFork ==
    ASSUME Rooted, RootLives, ParentsLive, TypeOK, NEW p \in Procs, NEW c \in Procs,
           pstate[p] = "live", pstate[c] = "free",
           pstate' = [pstate EXCEPT ![c] = "live"], parent' = [parent EXCEPT ![c] = p]
    PROVE  Rooted'
<1> SUFFICES ASSUME NEW Q \in SUBSET Procs, Q # {}, WithParents(Q)', Root \notin Q PROVE FALSE
    BY DEF Rooted
<1>1. \A d \in Q : parent'[d] \in Q
    BY DEF WithParents
<1>2. \A d \in Q \ {c} : pstate[d] # "free" /\ parent[d] \in Q
    BY <1>1 DEF WithParents, TypeOK
<1>3. \A d \in Q \ {c} : parent[d] \in Q \ {c}
    BY <1>2 DEF ParentsLive
<1>4. WithParents(Q \ {c})
    BY <1>2, <1>3 DEF WithParents
<1>5. Q \ {c} # {}
    BY <1>1 DEF TypeOK
<1>6. QED BY <1>4, <1>5 DEF Rooted

LEMMA RootedReclaim ==
    ASSUME Rooted, TypeOK, NEW c \in Procs, Reclaim(c)
    PROVE  Rooted'
<1> SUFFICES ASSUME NEW Q \in SUBSET Procs, Q # {}, WithParents(Q)' PROVE Root \in Q
    BY DEF Rooted
<1>1. c \notin Q
    BY DEF WithParents, Reclaim, TypeOK
<1>2. WithParents(Q)
    BY <1>1 DEF WithParents, Reclaim, TypeOK
<1>3. QED BY <1>2 DEF Rooted

LEMMA RootedCalls ==
    ASSUME IInv, Rooted, InKernel PROVE Rooted'
<1>1. /\ Up /\ calls \in Seq(Frame) /\ calls # << >> /\ TypeOK /\ CallsOK
      /\ RootLives /\ ListsMatch /\ ParentsLive
    BY DEF InKernel, ExitProc, BuryProc, SignalProc, ResetProc, IInv, TypeOK, FamilyOK, Up
<1>2. PICK f \in Frame : f = Head(calls) /\ FrameOK(f) /\ f.p \in Procs
  <2>1. Head(calls) \in Frame /\ Head(calls) \in Items(calls)
    BY <1>1 DEF Items
  <2>2. QED BY <1>1, <2>1, FrameIs DEF CallsOK
<1>3. CASE ExitProc
  <2>1. Abandon(f.p) \/ UNCHANGED procVars
    BY <1>2, <1>3 DEF ExitProc
  <2>2. QED BY <1>1, <1>2, <2>1, RootedAbandon, RootedStays
<1>4. CASE BuryProc
  <2>1. CASE pstate' = [pstate EXCEPT ![f.p] = "zombie"] /\ parent' = parent
    <3>1. \A c \in Procs : pstate'[c] # "free" <=> pstate[c] # "free"
        BY <1>1, <1>2, <2>1 DEF TypeOK, FrameOK
    <3>2. QED BY <2>1, <3>1 DEF Rooted, WithParents
  <2>2. CASE Panic
    BY <2>2, RootedStays DEF Panic
  <2>3. QED BY <1>2, <1>4, <2>1, <2>2 DEF BuryProc
<1>5. CASE SignalProc
    BY <1>5, RootedStays DEF SignalProc, Panic
<1>6. CASE ResetProc
    BY <1>6, RootedStays DEF ResetProc
<1>7. QED BY <1>3, <1>4, <1>5, <1>6 DEF InKernel

LEMMA RootedSyscall ==
    ASSUME IInv, Rooted, NEW p \in Procs, NEW t \in Tids, Syscall(p, t) PROVE Rooted'
<1>0. Running(p, t)
    BY DEF Syscall, Exit, ReapAny, Exec, ExitThread, Fork, ReapPid, Signal, AllowSignal,
           WaitSignal, ClearSignal, Spawn, Join, Sleep
<1>1. Up /\ TypeOK /\ RootLives /\ ListsMatch /\ ParentsLive /\ pstate[p] = "live"
    BY <1>0, RunningIs DEF FamilyOK
<1>2. CASE Exec(p, t)
    BY <1>1, <1>2, RootedAbandon, RootedStays DEF Exec, Panic
<1>3. ASSUME NEW c \in Procs, Fork(p, t, c) PROVE Rooted'
    BY <1>1, <1>3, RootedFork DEF Fork
<1>4. CASE ReapAny(p, t)
  <2>1. Head(zkids[p]) \in Procs
    BY <1>1, <1>4 DEF ReapAny, TypeOK
  <2>2. QED BY <1>1, <1>4, <2>1, RootedReclaim DEF ReapAny
<1>5. ASSUME NEW c \in Procs, ReapPid(p, t, c) PROVE Rooted'
    BY <1>1, <1>5, RootedReclaim, RootedStays DEF ReapPid, Panic
<1>6. CASE UNCHANGED procVars
    BY <1>6, RootedStays
<1>7. CASE Exit(p, t) \/ ExitThread(p, t)
    BY <1>6, <1>7 DEF Exit, ExitThread
<1>8. ASSUME NEW q \in Procs, NEW s \in Sigs \cup BadSigs, Signal(p, t, q, s) PROVE Rooted'
    BY <1>6, <1>8 DEF Signal
<1>9. ASSUME NEW sv \in SUBSET Sigs,
             AllowSignal(p, t, sv) \/ WaitSignal(p, t, sv) \/ ClearSignal(p, t, sv)
      PROVE  Rooted'
    BY <1>6, <1>9 DEF AllowSignal, WaitSignal, ClearSignal
<1>10. ASSUME NEW n \in Tids, Spawn(p, t, n) PROVE Rooted'
    BY <1>6, <1>10 DEF Spawn
<1>11. ASSUME NEW jv \in SUBSET Tids, Join(p, t, jv) PROVE Rooted'
    BY <1>6, <1>11 DEF Join
<1>12. ASSUME NEW n \in 0 .. MaxSleep, Sleep(p, t, n) PROVE Rooted'
    BY <1>6, <1>12 DEF Sleep
<1>13. QED BY <1>2, <1>3, <1>4, <1>5, <1>7, <1>8, <1>9, <1>10, <1>11, <1>12 DEF Syscall

(* Following the parents of any process ends at the root, so that forced   *)
(* exits cannot go up the tree in a circle, through every fork, adoption   *)
(* and reap.                                                               *)
THEOREM RootIsTheElder == ASSUME IsFiniteSet(Procs) PROVE Spec => []RootIsElder
<1>1. Init => Rooted
    BY SMTT(60) DEF Init, Rooted, WithParents
<1>2. IInv /\ Rooted /\ [Next]_vars => Rooted'
    BY RootedCalls, RootedSyscall, RootedStays DEF Next, vars, Tick, LockedUp
<1>3. IInv /\ Rooted => RootIsElder
    BY RootedIsEnough DEF IInv
<1>4. QED BY <1>1, <1>2, <1>3, InitIInv, Inductive, PTL DEF Spec

-----------------------------------------------------------------------------
(* Where the threads of the kernel are, and that none of them waits for    *)
(* what has happened; and on top of that, that sc_proc_reap_single hears   *)
(* of the children it waits for.                                           *)

Scheduled(th) == th \in Items(sched)
Asleep(th)    == th \in WaitersOf(sleepQ)
Joining(th)   == th \in WaitersOf(joinQ[th[1]])
Listening(th) == th \in WaitersOf(sigQ[th[1]])

(* The parts of OnePlace: no list has a thread twice, the queues of a      *)
(* process have its own threads only, and each thread is where its state   *)
(* says and nowhere else.                                                  *)
Once ==
    /\ NoDup(sched) /\ NoThreadTwice(sleepQ)
    /\ \A p \in Procs : NoThreadTwice(joinQ[p]) /\ NoThreadTwice(sigQ[p])

Own ==
    \A p \in Procs, th \in Thread :
        th \in WaitersOf(joinQ[p]) \/ th \in WaitersOf(sigQ[p]) => th[1] = p

Where(th) ==
    /\ tstate[th] = "scheduled" <=> Scheduled(th)
    /\ tstate[th] = "waiting" <=> Asleep(th) \/ Joining(th) \/ Listening(th)
    /\ ~(Asleep(th) /\ Joining(th))
    /\ ~(Asleep(th) /\ Listening(th))
    /\ ~(Joining(th) /\ Listening(th))

Placed == Once /\ Own /\ \A th \in Thread : Where(th)

JoinsHeard ==
    \A p \in Procs : \A e \in Items(joinQ[p]) : \A t \in e.mask : tstate[<<p, t>>] # "exited"

(* In the middle of a handler a pending signal may not be allowed, or be   *)
(* waited for, but then the process is on its way out.                     *)
SignalsHeard ==
    \A p \in Procs :
        /\ pstate[p] = "free" => sigVec[p] = {}
        /\ pstate[p] = "live" => \/ sigVec[p] \subseteq sigAllow[p]
                                 \/ Call("exit", p) \in Items(calls)
                                 \/ Call("bury", p) \in Items(calls)
        /\ \A e \in Items(sigQ[p]) : \/ e.mask \cap sigVec[p] = {}
                                     \/ Call("exit", p) \in Items(calls)

MainsLive ==
    \A p \in Procs : pstate[p] = "live" =>
        \/ tstate[<<p, mainT[p]>>] \in {"scheduled", "waiting"}
        \/ Call("bury", p) \in Items(calls)

ThreadInv == Up => Placed /\ JoinsHeard /\ SignalsHeard /\ MainsLive

-----------------------------------------------------------------------------
(* What the queue operators do to queues that hold no thread twice.        *)

LEMMA DropOnce ==
    ASSUME NEW S, NEW q \in Seq(S), NEW T, NoThreadTwice(q)
    PROVE  NoThreadTwice(Drop(q, T))
<1> DEFINE d == Drop(q, T)
<1>1. d \in Seq(S) /\ \E h : Embeds(h, d, q, Len(q), T)
    BY DropEmbeds
<1> HIDE DEF d
<1>2. PICK h : Embeds(h, d, q, Len(q), T)
    BY <1>1
<1>3. ASSUME NEW k \in 1 .. Len(d), NEW l \in 1 .. Len(d), d[k].thr = d[l].thr, k < l
      PROVE  FALSE
  <2>1. h[k] < h[l] /\ q[h[k]] = d[k] /\ q[h[l]] = d[l] /\ h[k] \in 1 .. Len(q) /\ h[l] \in 1 .. Len(q)
    BY <1>2, <1>3 DEF Embeds
  <2>2. h[k] = h[l]
    BY <2>1, <1>3 DEF NoThreadTwice
  <2>3. QED BY <2>1, <2>2
<1>4. Len(d) \in Nat
    BY <1>1
<1>5. NoThreadTwice(d)
    BY <1>3, <1>4 DEF NoThreadTwice
<1>6. QED BY <1>5 DEF d

LEMMA PopOnce ==
    ASSUME NEW S, NEW q \in Seq(S), NEW i \in 1 .. Len(q), NoThreadTwice(q)
    PROVE  /\ NoThreadTwice(PopAt(q, i))
           /\ \A th : th \in WaitersOf(PopAt(q, i)) <=> th \in WaitersOf(q) /\ th # q[i].thr
           /\ Items(PopAt(q, i)) \subseteq Items(q)
<1>0. PICK r : r = PopAt(q, i)
    OBVIOUS
<1>1. /\ Len(r) = Len(q) - 1 /\ Len(q) \in Nat
      /\ \A k \in 1 .. Len(q) - 1 : r[k] = IF k < i THEN q[k] ELSE q[k + 1]
  <2>1. /\ Len(PopAt(q, i)) = Len(q) - 1
        /\ \A k \in 1 .. Len(q) - 1 : PopAt(q, i)[k] = IF k < i THEN q[k] ELSE q[k + 1]
    BY PopAtIs, Zenon
  <2>2. Len(q) \in Nat
    OBVIOUS
  <2>3. QED BY <1>0, <2>1, <2>2, Zenon
<1>2. ASSUME NEW k \in 1 .. Len(r)
      PROVE  \E j \in 1 .. Len(q) : r[k] = q[j] /\ j # i /\ (k < i => j = k) /\ (k >= i => j = k + 1)
  <2>1. CASE k < i
    BY <2>1, <1>1
  <2>2. CASE ~(k < i)
    <3>1. k + 1 \in 1 .. Len(q) /\ k + 1 # i /\ r[k] = q[k + 1]
        BY <2>2, <1>1
    <3>2. QED BY <3>1, <2>2
  <2>3. QED BY <2>1, <2>2
<1>3. ASSUME NEW j \in 1 .. Len(q), j # i PROVE \E k \in 1 .. Len(r) : r[k] = q[j]
  <2>1. CASE j < i
    <3>1. j \in 1 .. Len(r) /\ r[j] = q[j]
        BY <2>1, <1>1
    <3>2. QED BY <3>1
  <2>2. CASE ~(j < i)
    <3>1. j - 1 \in 1 .. Len(r) /\ ~(j - 1 < i) /\ (j - 1) + 1 = j
        BY <2>2, <1>1, <1>3
    <3>2. r[j - 1] = q[j]
        BY <3>1, <1>1
    <3>3. QED BY <3>1, <3>2
  <2>3. QED BY <2>1, <2>2
<1>4. NoThreadTwice(r)
  <2>1. ASSUME NEW k \in 1 .. Len(r), NEW l \in 1 .. Len(r), r[k].thr = r[l].thr PROVE k = l
    <3>1. PICK m \in 1 .. Len(q) : r[k] = q[m] /\ (k < i => m = k) /\ (k >= i => m = k + 1)
        BY <1>2
    <3>2. PICK n \in 1 .. Len(q) : r[l] = q[n] /\ (l < i => n = l) /\ (l >= i => n = l + 1)
        BY <1>2
    <3>3. m = n
        BY <2>1, <3>1, <3>2 DEF NoThreadTwice
    <3>4. QED BY <3>1, <3>2, <3>3, <1>1
  <2>2. QED BY <2>1 DEF NoThreadTwice
<1>5. \A th : th \in WaitersOf(r) <=> th \in WaitersOf(q) /\ th # q[i].thr
  <2>1. ASSUME NEW th, th \in WaitersOf(r) PROVE th \in WaitersOf(q) /\ th # q[i].thr
    <3>1. PICK k \in 1 .. Len(r) : th = r[k].thr
        BY <2>1 DEF WaitersOf
    <3>2. PICK j \in 1 .. Len(q) : r[k] = q[j] /\ j # i
        BY <1>2
    <3>3. QED BY <3>1, <3>2 DEF WaitersOf, NoThreadTwice
  <2>2. ASSUME NEW th, th \in WaitersOf(q), th # q[i].thr PROVE th \in WaitersOf(r)
    <3>1. PICK j \in 1 .. Len(q) : th = q[j].thr /\ j # i
        BY <2>2 DEF WaitersOf
    <3>2. PICK k \in 1 .. Len(r) : r[k] = q[j]
        BY <1>3, <3>1
    <3>3. QED BY <3>1, <3>2 DEF WaitersOf
  <2>3. QED BY <2>1, <2>2
<1>6. Items(r) \subseteq Items(q)
    BY <1>2 DEF Items
<1>7. QED BY <1>0, <1>4, <1>5, <1>6

LEMMA AppendOnce ==
    ASSUME NEW S, NEW q \in Seq(S), NEW e \in S, NoThreadTwice(q), e.thr \notin WaitersOf(q)
    PROVE  NoThreadTwice(Append(q, e))
<1> DEFINE r == Append(q, e)
<1>1. /\ Len(r) = Len(q) + 1 /\ Len(q) \in Nat
      /\ \A k \in 1 .. Len(q) + 1 : r[k] = IF k = Len(q) + 1 THEN e ELSE q[k]
    OBVIOUS
<1> HIDE DEF r
<1>2. \A k \in 1 .. Len(q) : q[k].thr # e.thr
    BY DEF WaitersOf
<1>3. ASSUME NEW k \in 1 .. Len(r), NEW l \in 1 .. Len(r), r[k].thr = r[l].thr, k < l
      PROVE  FALSE
  <2>1. k \in 1 .. Len(q) /\ r[k] = q[k]
    BY <1>1, <1>3
  <2>2. CASE l = Len(q) + 1
    BY <2>1, <2>2, <1>1, <1>2, <1>3
  <2>3. CASE l # Len(q) + 1
    <3>1. l \in 1 .. Len(q) /\ r[l] = q[l]
        BY <2>3, <1>1, <1>3
    <3>2. k = l
        BY <2>1, <3>1, <1>3 DEF NoThreadTwice
    <3>3. QED BY <3>2, <1>3
  <2>4. QED BY <2>2, <2>3
<1>4. NoThreadTwice(r)
    BY <1>1, <1>3 DEF NoThreadTwice
<1>5. QED BY <1>4 DEF r

LEMMA PushOnce ==
    ASSUME NEW S, NEW q \in Seq(S), NEW i \in 1 .. Len(q) + 1, NEW e \in S,
           NoThreadTwice(q), e.thr \notin WaitersOf(q), NEW r, r = PushAt(q, i, e)
    PROVE  /\ NoThreadTwice(r)
           /\ \A th : th \in WaitersOf(r) <=> th \in WaitersOf(q) \/ th = e.thr
<1>1. /\ Len(r) = Len(q) + 1 /\ Len(q) \in Nat
      /\ \A k \in 1 .. Len(q) + 1 : /\ k < i => r[k] = q[k]
                                    /\ k = i => r[k] = e
                                    /\ k > i => r[k] = q[k - 1]
  <2>1. /\ Len(r) = Len(q) + 1
        /\ \A k \in 1 .. Len(q) + 1 : /\ k < i => r[k] = q[k]
                                      /\ k = i => r[k] = e
                                      /\ k > i => r[k] = q[k - 1]
    BY PushAtIs, SMTT(60)
  <2>2. Len(q) \in Nat
    OBVIOUS
  <2>3. QED BY <2>1, <2>2
<1>2. ASSUME NEW k \in 1 .. Len(r), k # i
      PROVE  \E j \in 1 .. Len(q) : r[k] = q[j] /\ (k < i => j = k) /\ (k > i => j = k - 1)
  <2>1. CASE k < i
    BY <2>1, <1>1
  <2>2. CASE k > i
    <3>1. k - 1 \in 1 .. Len(q) /\ r[k] = q[k - 1]
        BY <2>2, <1>1
    <3>2. QED BY <3>1, <2>2
  <2>3. QED BY <2>1, <2>2, <1>2, <1>1
<1>3. ASSUME NEW j \in 1 .. Len(q) PROVE \E k \in 1 .. Len(r) : r[k] = q[j]
  <2>1. CASE j < i
    <3>1. j \in 1 .. Len(r) /\ r[j] = q[j]
        BY <2>1, <1>1
    <3>2. QED BY <3>1
  <2>2. CASE ~(j < i)
    <3>1. j + 1 \in 1 .. Len(r) /\ j + 1 > i /\ (j + 1) - 1 = j
        BY <2>2, <1>1
    <3>2. r[j + 1] = q[j]
        BY <3>1, <1>1
    <3>3. QED BY <3>1, <3>2
  <2>3. QED BY <2>1, <2>2
<1>4. i \in 1 .. Len(r) /\ r[i] = e
    BY <1>1
<1>5. NoThreadTwice(r)
  <2>1. ASSUME NEW k \in 1 .. Len(r), NEW l \in 1 .. Len(r), r[k].thr = r[l].thr, k # i, l # i
        PROVE  k = l
    <3>1. PICK m \in 1 .. Len(q) : r[k] = q[m] /\ (k < i => m = k) /\ (k > i => m = k - 1)
        BY <1>2, <2>1
    <3>2. PICK n \in 1 .. Len(q) : r[l] = q[n] /\ (l < i => n = l) /\ (l > i => n = l - 1)
        BY <1>2, <2>1
    <3>3. m = n
        BY <2>1, <3>1, <3>2 DEF NoThreadTwice
    <3>4. QED BY <3>1, <3>2, <3>3, <1>1, <2>1
  <2>2. ASSUME NEW k \in 1 .. Len(r), k # i PROVE r[k].thr # e.thr
    BY <1>2, <2>2 DEF WaitersOf
  <2>3. QED BY <2>1, <2>2, <1>4 DEF NoThreadTwice
<1>6. \A th : th \in WaitersOf(r) <=> th \in WaitersOf(q) \/ th = e.thr
  <2>1. ASSUME NEW th, th \in WaitersOf(r) PROVE th \in WaitersOf(q) \/ th = e.thr
    BY <2>1, <1>2, <1>4 DEF WaitersOf
  <2>2. ASSUME NEW th, th \in WaitersOf(q) \/ th = e.thr PROVE th \in WaitersOf(r)
    BY <2>2, <1>3, <1>4 DEF WaitersOf
  <2>3. QED BY <2>1, <2>2
<1>7. QED BY <1>5, <1>6

-----------------------------------------------------------------------------
(* Initially.                                                              *)

LEMMA ThreadsStart == Init => ThreadInv
<1> SUFFICES ASSUME Init PROVE ThreadInv
    OBVIOUS
<1> USE KernelConstants
<1>1. \A th : Scheduled(th) <=> th = <<Root, 0>>
    BY DEF Init, Scheduled, Items
<1>2. \A th \in Thread : ~Asleep(th) /\ ~Joining(th) /\ ~Listening(th)
    BY DEF Init, Asleep, Joining, Listening, WaitersOf, Thread
<1>3. Once /\ Own
    BY DEF Init, Once, Own, NoDup, NoThreadTwice, WaitersOf
<1>4. \A th \in Thread : tstate[th] = IF th = <<Root, 0>> THEN "scheduled" ELSE "none"
    BY DEF Init
<1>5. \A th \in Thread : Where(th)
    BY <1>1, <1>2, <1>4 DEF Where
<1>6. JoinsHeard /\ SignalsHeard
    BY DEF Init, JoinsHeard, SignalsHeard, Items
<1>7. MainsLive
  <2>1. ASSUME NEW p \in Procs, pstate[p] = "live"
        PROVE  tstate[<<p, mainT[p]>>] = "scheduled"
    <3>1. p = Root /\ mainT[p] = 0 /\ <<p, 0>> \in Thread
        BY <2>1 DEF Init, Thread
    <3>2. QED BY <3>1, <1>4
  <2>2. QED BY <2>1 DEF MainsLive
<1>8. QED BY <1>3, <1>5, <1>6, <1>7 DEF Placed, ThreadInv

-----------------------------------------------------------------------------
(* Pieces of the handlers.                                                 *)

LEMMA WaiterTypes ==
    ASSUME TypeOK, NEW p \in Procs
    PROVE  /\ joinQ[p] \in Seq(Waiter(Tids)) /\ sigQ[p] \in Seq(Waiter(Sigs))
           /\ \A e \in Items(joinQ[p]) : e.thr \in Thread /\ e.mask \subseteq Tids
                                         /\ e.thr \in WaitersOf(joinQ[p])
           /\ \A e \in Items(sigQ[p]) : e.thr \in Thread /\ e.mask \subseteq Sigs
                                        /\ e.thr \in WaitersOf(sigQ[p])
<1>1. joinQ[p] \in Seq(Waiter(Tids)) /\ sigQ[p] \in Seq(Waiter(Sigs))
    BY DEF TypeOK
<1>2. /\ \A e \in Items(joinQ[p]) : e \in Waiter(Tids)
      /\ \A e \in Items(sigQ[p]) : e \in Waiter(Sigs)
    BY <1>1 DEF Items
<1>3. /\ \A e \in Items(joinQ[p]) : e.thr \in Thread /\ e.mask \subseteq Tids
      /\ \A e \in Items(sigQ[p]) : e.thr \in Thread /\ e.mask \subseteq Sigs
    BY <1>2 DEF Waiter
<1>4. QED BY <1>1, <1>3 DEF Items, WaitersOf

(* The threads of a process are taken out of every queue, in each of which *)
(* the others stay.                                                        *)
LEMMA DetachPlaces ==
    ASSUME TypeOK, TypeOK', Once, Own, NEW p \in Procs, DetachFromQueues(ThreadsOf(p))
    PROVE  /\ NoThreadTwice(sleepQ')
           /\ \A q \in Procs : NoThreadTwice(joinQ'[q]) /\ NoThreadTwice(sigQ'[q])
           /\ Own'
           /\ \A th \in Thread : /\ Asleep(th)' <=> Asleep(th) /\ th[1] # p
                                 /\ Joining(th)' <=> Joining(th) /\ th[1] # p
                                 /\ Listening(th)' <=> Listening(th) /\ th[1] # p
           /\ \A q \in Procs : /\ Items(joinQ'[q]) \subseteq Items(joinQ[q])
                               /\ Items(sigQ'[q]) \subseteq Items(sigQ[q])
           /\ Items(joinQ'[p]) = {} /\ Items(sigQ'[p]) = {}
<1>1. \A th \in Thread : th \in ThreadsOf(p) <=> th[1] = p
    BY DEF Thread, ThreadsOf
<1>2. ASSUME NEW q \in Procs
      PROVE  /\ NoThreadTwice(joinQ'[q]) /\ NoThreadTwice(sigQ'[q])
             /\ Items(joinQ'[q]) \subseteq Items(joinQ[q])
             /\ Items(sigQ'[q]) \subseteq Items(sigQ[q])
             /\ \A th \in Thread :
                  /\ th \in WaitersOf(joinQ'[q]) <=> th \in WaitersOf(joinQ[q]) /\ th[1] # p
                  /\ th \in WaitersOf(sigQ'[q]) <=> th \in WaitersOf(sigQ[q]) /\ th[1] # p
  <2> DEFINE J == [thr : ThreadsOf(p), mask : SUBSET Tids]
             G == [thr : ThreadsOf(p), mask : SUBSET Sigs]
  <2>1. /\ \A e \in Waiter(Tids) : e \in J <=> e.thr \in ThreadsOf(p)
        /\ \A e \in Waiter(Sigs) : e \in G <=> e.thr \in ThreadsOf(p)
    BY DEF Waiter
  <2>2. joinQ'[q] = Drop(joinQ[q], J) /\ sigQ'[q] = Drop(sigQ[q], G)
    BY DEF DetachFromQueues
  <2>3. /\ joinQ[q] \in Seq(Waiter(Tids)) /\ sigQ[q] \in Seq(Waiter(Sigs))
        /\ NoThreadTwice(joinQ[q]) /\ NoThreadTwice(sigQ[q])
    BY WaiterTypes DEF Once
  <2> HIDE DEF J, G
  <2>4. NoThreadTwice(Drop(joinQ[q], J)) /\ NoThreadTwice(Drop(sigQ[q], G))
    BY <2>3, DropOnce
  <2>5. /\ Items(Drop(joinQ[q], J)) = Items(joinQ[q]) \ J
        /\ Items(Drop(sigQ[q], G)) = Items(sigQ[q]) \ G
    BY <2>3, DropProps, Zenon, SMTT(60)
  <2>6. \A th : th \in WaitersOf(Drop(joinQ[q], J))
                  <=> th \in WaitersOf(joinQ[q]) /\ th \notin ThreadsOf(p)
    <3>1. joinQ[q] \in Seq(Waiter(Tids)) /\ \A e \in Waiter(Tids) : e \in J <=> e.thr \in ThreadsOf(p)
        BY <2>1, <2>3
    <3>2. QED BY <3>1, WaitersDropped
  <2>7. \A th : th \in WaitersOf(Drop(sigQ[q], G))
                  <=> th \in WaitersOf(sigQ[q]) /\ th \notin ThreadsOf(p)
    <3>1. sigQ[q] \in Seq(Waiter(Sigs)) /\ \A e \in Waiter(Sigs) : e \in G <=> e.thr \in ThreadsOf(p)
        BY <2>1, <2>3
    <3>2. QED BY <3>1, WaitersDropped
  <2>8. QED BY <1>1, <2>2, <2>4, <2>5, <2>6, <2>7
<1>3. /\ NoThreadTwice(sleepQ')
      /\ \A th \in Thread : th \in WaitersOf(sleepQ') <=> th \in WaitersOf(sleepQ) /\ th[1] # p
  <2> DEFINE Z == [thr : ThreadsOf(p), left : 0 .. MaxSleep]
  <2>1. \A e \in Sleeper : e \in Z <=> e.thr \in ThreadsOf(p)
    BY DEF Sleeper
  <2>2. sleepQ' = Drop(sleepQ, Z) /\ sleepQ \in Seq(Sleeper) /\ NoThreadTwice(sleepQ)
    BY DEF DetachFromQueues, TypeOK, Once
  <2> HIDE DEF Z
  <2>3. NoThreadTwice(Drop(sleepQ, Z))
    BY <2>2, DropOnce
  <2>4. \A th : th \in WaitersOf(Drop(sleepQ, Z)) <=> th \in WaitersOf(sleepQ) /\ th \notin ThreadsOf(p)
    BY <2>1, <2>2, WaitersDropped, SMTT(60)
  <2>5. QED BY <1>1, <2>2, <2>3, <2>4
<1>4. Own'
    BY <1>2 DEF Own, WaitersOf
<1>5. \A th \in Thread : /\ Asleep(th)' <=> Asleep(th) /\ th[1] # p
                         /\ Joining(th)' <=> Joining(th) /\ th[1] # p
                         /\ Listening(th)' <=> Listening(th) /\ th[1] # p
  <2>1. \A th \in Thread : th[1] \in Procs
    BY DEF Thread
  <2>2. QED BY <2>1, <1>2, <1>3 DEF Asleep, Joining, Listening, WaitersOf
<1>6. Items(joinQ'[p]) = {} /\ Items(sigQ'[p]) = {}
  <2>1. /\ \A e \in Items(joinQ[p]) : e.thr \in Thread
        /\ \A e \in Items(sigQ[p]) : e.thr \in Thread
    BY WaiterTypes
  <2>2. /\ \A e \in Items(joinQ'[p]) : e.thr \in Thread /\ e.thr \in WaitersOf(joinQ'[p])
        /\ \A e \in Items(sigQ'[p]) : e.thr \in Thread /\ e.thr \in WaitersOf(sigQ'[p])
    BY <2>1, <1>2 DEF Items, WaitersOf
  <2>3. QED BY <2>2, <1>2 DEF Own
<1>7. QED BY <1>2, <1>3, <1>4, <1>5, <1>6

(* A call that is not the one at the head is still to be made after it.    *)
LEMMA CallsLeft ==
    ASSUME calls \in Seq(Frame), calls # << >>, NEW a \in Seq(Frame)
    PROVE  /\ \A f \in Items(calls) : f # Head(calls) =>
                 f \in Items(Tail(calls)) /\ f \in Items(a \o Tail(calls))
           /\ Items(a) \subseteq Items(a \o Tail(calls))
<1> DEFINE r == Tail(calls)
<1>1. /\ r \in Seq(Frame) /\ Len(r) = Len(calls) - 1 /\ Len(calls) \in Nat \ {0}
      /\ Head(calls) = calls[1]
      /\ \A k \in 1 .. Len(calls) - 1 : r[k] = calls[k + 1]
    OBVIOUS
<1> HIDE DEF r
<1>2. Items(a \o r) = Items(a) \cup Items(r)
    BY <1>1, ConcatItems
<1>3. ASSUME NEW i \in 1 .. Len(calls), calls[i] # Head(calls) PROVE calls[i] \in Items(r)
  <2>1. i - 1 \in 1 .. Len(r) /\ r[i - 1] = calls[i]
    BY <1>1, <1>3
  <2>2. QED BY <2>1 DEF Items
<1>4. \A f \in Items(calls) : f # Head(calls) => f \in Items(r)
    BY <1>3 DEF Items
<1>5. QED BY <1>2, <1>4 DEF r

(* Steps that leave the threads, or the queue of joins, alone.             *)
LEMMA PlacesStay ==
    ASSUME Placed, UNCHANGED <<sched, tstate, queueVars>>
    PROVE  Placed'
<1>1. Once' /\ Own'
    BY DEF Placed, Once, Own, queueVars
<1>2. \A th \in Thread : Where(th)'
    BY DEF Placed, Where, Scheduled, Asleep, Joining, Listening, queueVars
<1>3. QED BY <1>1, <1>2 DEF Placed

LEMMA JoinsStay ==
    ASSUME TypeOK, JoinsHeard,
           \A p \in Procs : Items(joinQ'[p]) \subseteq Items(joinQ[p]),
           \A th \in Thread : tstate'[th] = "exited" => tstate[th] = "exited"
    PROVE  JoinsHeard'
<1>1. \A p \in Procs : \A e \in Items(joinQ[p]) : e.mask \subseteq Tids
    BY WaiterTypes
<1>2. \A p \in Procs, t \in Tids : <<p, t>> \in Thread
    BY DEF Thread
<1>3. ASSUME NEW p \in Procs, NEW e \in Items(joinQ'[p]), NEW t \in e.mask
      PROVE  tstate'[<<p, t>>] # "exited"
    BY <1>1, <1>2, <1>3 DEF JoinsHeard
<1>4. QED BY <1>3 DEF JoinsHeard, Items

LEMMA MainsStay ==
    ASSUME TypeOK, MainsLive, UNCHANGED <<pstate, mainT>>,
           \A th \in Thread : tstate[th] \in {"scheduled", "waiting"}
                                 => tstate'[th] \in {"scheduled", "waiting"},
           \A p \in Procs : Call("bury", p) \in Items(calls) => Call("bury", p) \in Items(calls')
    PROVE  MainsLive'
<1>1. \A p \in Procs : <<p, mainT[p]>> \in Thread
    BY DEF TypeOK, Thread
<1>2. ASSUME NEW p \in Procs, pstate[p] = "live"
      PROVE  \/ tstate'[<<p, mainT[p]>>] \in {"scheduled", "waiting"}
             \/ Call("bury", p) \in Items(calls')
    BY <1>1, <1>2 DEF MainsLive
<1>3. QED BY <1>2 DEF MainsLive, Call, Items

LEMMA SignalsStay ==
    ASSUME SignalsHeard, UNCHANGED <<pstate, sigVec, sigAllow>>,
           \A p \in Procs : Items(sigQ'[p]) \subseteq Items(sigQ[p]),
           \A p \in Procs, op \in {"exit", "bury"} :
              Call(op, p) \in Items(calls) => Call(op, p) \in Items(calls')
    PROVE  SignalsHeard'
<1>1. ASSUME NEW p \in Procs
      PROVE  /\ pstate[p] = "free" => sigVec[p] = {}
             /\ pstate[p] = "live" => \/ sigVec[p] \subseteq sigAllow[p]
                                      \/ Call("exit", p) \in Items(calls')
                                      \/ Call("bury", p) \in Items(calls')
             /\ \A e \in Items(sigQ'[p]) : \/ e.mask \cap sigVec[p] = {}
                                           \/ Call("exit", p) \in Items(calls')
    BY <1>1 DEF SignalsHeard
<1>2. QED BY <1>1 DEF SignalsHeard, Call, Items

-----------------------------------------------------------------------------
(* The calls of a handler under way.                                       *)

LEMMA ThreadsExitProc ==
    ASSUME IInv, TypeOK', ThreadInv, ExitProc PROVE ThreadInv'
<1>1. /\ calls \in Seq(Frame) /\ calls # << >> /\ TypeOK /\ Up
      /\ Once /\ Own /\ \A th \in Thread : Where(th)
      /\ JoinsHeard /\ SignalsHeard /\ MainsLive
    BY DEF IInv, TypeOK, ExitProc, Up, ThreadInv, Placed
<1>2. PICK p \in Procs : p = Head(calls).p /\ Head(calls).op = "exit"
  <2>1. Head(calls) \in Frame
    BY <1>1
  <2>2. QED BY <2>1, FrameIs DEF ExitProc
<1>3. CASE p = Root
    BY <1>2, <1>3 DEF ExitProc, ThreadInv, Up
<1>4. CASE p # Root
  <2>1. /\ sched' = Drop(sched, ThreadsOf(p))
        /\ DetachFromQueues(ThreadsOf(p))
        /\ tstate' = [th \in Thread |->
                         IF th \in ThreadsOf(p) /\ tstate[th] \in {"scheduled", "waiting"}
                         THEN "detached" ELSE tstate[th]]
        /\ UNCHANGED <<pstate, mainT>>
        /\ calls' = OrphanSignal(p) \o << Call("bury", p) >> \o Tail(calls)
        /\ UNCHANGED <<sys, sigVars>>
    BY <1>2, <1>4 DEF ExitProc, Abandon
  <2>2. /\ NoThreadTwice(sleepQ')
        /\ \A q \in Procs : NoThreadTwice(joinQ'[q]) /\ NoThreadTwice(sigQ'[q])
        /\ Own'
        /\ \A th \in Thread : /\ Asleep(th)' <=> Asleep(th) /\ th[1] # p
                              /\ Joining(th)' <=> Joining(th) /\ th[1] # p
                              /\ Listening(th)' <=> Listening(th) /\ th[1] # p
        /\ \A q \in Procs : /\ Items(joinQ'[q]) \subseteq Items(joinQ[q])
                            /\ Items(sigQ'[q]) \subseteq Items(sigQ[q])
        /\ Items(joinQ'[p]) = {} /\ Items(sigQ'[p]) = {}
    BY <1>1, <2>1, DetachPlaces
  <2>3. NoDup(sched') /\ Items(sched') = Items(sched) \ ThreadsOf(p)
    BY <1>1, <2>1, DropProps DEF TypeOK, Once
  <2>4. \A th \in Thread : th \in ThreadsOf(p) <=> th[1] = p
    BY DEF Thread, ThreadsOf
  <2>5. \A th \in Thread : Scheduled(th)' <=> Scheduled(th) /\ th[1] # p
    BY <2>3, <2>4 DEF Scheduled, Items
  <2>6. \A th \in Thread : tstate'[th] =
           IF th[1] = p /\ tstate[th] \in {"scheduled", "waiting"} THEN "detached" ELSE tstate[th]
    BY <2>1, <2>4
  <2>7. \A th \in Thread : Where(th)'
    BY <1>1, <2>2, <2>5, <2>6 DEF Where
  <2>8. Placed'
    BY <2>2, <2>3, <2>7 DEF Placed, Once
  <2>9. JoinsHeard'
    BY <1>1, <2>2, <2>6, JoinsStay
  <2> DEFINE a == OrphanSignal(p) \o << Call("bury", p) >>
  <2>10. a \in Seq(Frame) /\ Call("bury", p) \in Items(a)
    <3>1. Call("bury", p) \in Frame
        BY <1>2 DEF Call, Frame
    <3>2. << Call("bury", p) >> \in Seq(Frame) /\ OrphanSignal(p) \in Seq(Frame)
      <4>1. Call("signal", Root) \in Frame
        BY KernelConstants DEF Call, Frame
      <4>2. QED BY <3>1, <4>1 DEF OrphanSignal
    <3>3. Items(a) = Items(OrphanSignal(p)) \cup Items(<< Call("bury", p) >>)
        BY <3>2, ConcatItems
    <3>4. Items(<< Call("bury", p) >>) = {Call("bury", p)}
        BY <3>1, OneCall
    <3>5. a \in Seq(Frame)
        BY <1>2, <3>1, OrphanCall
    <3>6. QED BY <3>3, <3>4, <3>5
  <2>11. calls' = a \o Tail(calls)
    BY <2>1
  <2> HIDE DEF a
  <2>12. /\ \A f \in Items(calls) : f # Head(calls) => f \in Items(calls')
         /\ Call("bury", p) \in Items(calls')
    BY <1>1, <2>10, <2>11, CallsLeft
  <2>13. \A q \in Procs, op \in {"exit", "bury"} : q # p \/ op = "bury" =>
            (Call(op, q) \in Items(calls) => Call(op, q) \in Items(calls'))
    BY <1>2, <2>12 DEF Call
  <2>14. SignalsHeard'
    <3>1. ASSUME NEW q \in Procs
          PROVE  /\ pstate[q] = "free" => sigVec[q] = {}
                 /\ pstate[q] = "live" => \/ sigVec[q] \subseteq sigAllow[q]
                                          \/ Call("exit", q) \in Items(calls')
                                          \/ Call("bury", q) \in Items(calls')
                 /\ \A e \in Items(sigQ'[q]) : \/ e.mask \cap sigVec[q] = {}
                                               \/ Call("exit", q) \in Items(calls')
      <4>1. CASE q = p
        BY <1>1, <2>2, <2>12, <4>1 DEF SignalsHeard
      <4>2. CASE q # p
        BY <1>1, <2>2, <2>13, <4>2 DEF SignalsHeard
      <4>3. QED BY <4>1, <4>2
    <3>2. QED BY <2>1, <3>1 DEF SignalsHeard, Call, Items, sigVars
  <2>15. MainsLive'
    <3>1. ASSUME NEW q \in Procs, pstate[q] = "live"
          PROVE  \/ tstate'[<<q, mainT[q]>>] \in {"scheduled", "waiting"}
                 \/ Call("bury", q) \in Items(calls')
      <4>1. <<q, mainT[q]>> \in Thread /\ <<q, mainT[q]>>[1] = q
        BY <1>1 DEF TypeOK, Thread
      <4>2. QED BY <1>1, <2>6, <2>12, <2>13, <3>1, <4>1 DEF MainsLive
    <3>2. QED BY <2>1, <3>1 DEF MainsLive, Call, Items
  <2>16. QED BY <2>8, <2>9, <2>14, <2>15 DEF ThreadInv
<1>5. QED BY <1>3, <1>4

LEMMA ThreadsBuryProc ==
    ASSUME IInv, TypeOK', ThreadInv, BuryProc PROVE ThreadInv'
<1>1. /\ calls \in Seq(Frame) /\ calls # << >> /\ TypeOK /\ Up
      /\ Placed /\ JoinsHeard /\ SignalsHeard /\ MainsLive
    BY DEF IInv, TypeOK, BuryProc, Up, ThreadInv
<1>2. PICK p \in Procs : p = Head(calls).p /\ Head(calls).op = "bury"
  <2>1. Head(calls) \in Frame
    BY <1>1
  <2>2. QED BY <2>1, FrameIs DEF BuryProc
<1>3. CASE p \notin Items(kids[parent[p]])
    BY <1>2, <1>3 DEF BuryProc, Panic, ThreadInv, Up
<1>4. CASE p \in Items(kids[parent[p]])
  <2>1. /\ pstate' = [pstate EXCEPT ![p] = "zombie"]
        /\ calls' = << Call("signal", parent[p]) >> \o Tail(calls)
        /\ UNCHANGED <<sys, sched, tstate, mainT, queueVars, sigVars>>
    BY <1>2, <1>4 DEF BuryProc
  <2>2. Call("signal", parent[p]) \in Frame
    <3>1. kids \in [Procs -> Seq(Procs)] /\ parent[p] \in Procs \cup {NULL}
        BY <1>1 DEF TypeOK
    <3>2. p # Root /\ pstate[p] # "free"
      <4>1. Head(calls) \in Items(calls)
        BY <1>1 DEF Items
      <4>2. QED BY <1>1, <1>2, <4>1 DEF IInv, CallsOK, FrameOK
    <3>3. parent[p] \in Procs
        BY <1>1, <3>2 DEF IInv, FamilyOK, ParentsLive
    <3>4. QED BY <3>3, KernelConstants DEF Call, Frame
  <2>3. \A f \in Items(calls) : f # Head(calls) => f \in Items(calls')
    <3>1. << Call("signal", parent[p]) >> \in Seq(Frame)
        BY <2>2
    <3>2. QED BY <1>1, <2>1, <3>1, CallsLeft
  <2>4. \A q \in Procs, op \in {"exit", "bury"} : q # p \/ op = "exit" =>
           (Call(op, q) \in Items(calls) => Call(op, q) \in Items(calls'))
    BY <1>2, <2>3 DEF Call
  <2>5. Placed'
    BY <1>1, <2>1, PlacesStay
  <2>6. JoinsHeard'
    BY <1>1, <2>1, JoinsStay DEF queueVars
  <2>7. pstate'[p] = "zombie" /\ \A q \in Procs \ {p} : pstate'[q] = pstate[q]
    BY <1>1, <2>1 DEF TypeOK
  <2>8. SignalsHeard'
    <3>1. ASSUME NEW q \in Procs
          PROVE  /\ pstate'[q] = "free" => sigVec[q] = {}
                 /\ pstate'[q] = "live" => \/ sigVec[q] \subseteq sigAllow[q]
                                           \/ Call("exit", q) \in Items(calls')
                                           \/ Call("bury", q) \in Items(calls')
                 /\ \A e \in Items(sigQ[q]) : \/ e.mask \cap sigVec[q] = {}
                                              \/ Call("exit", q) \in Items(calls')
      <4>1. CASE q = p
        BY <1>1, <2>4, <2>7, <4>1 DEF SignalsHeard
      <4>2. CASE q # p
        BY <1>1, <2>4, <2>7, <4>2 DEF SignalsHeard
      <4>3. QED BY <4>1, <4>2
    <3>2. QED BY <2>1, <3>1 DEF SignalsHeard, Call, Items, sigVars, queueVars
  <2>9. MainsLive'
    <3>1. ASSUME NEW q \in Procs, pstate'[q] = "live"
          PROVE  \/ tstate[<<q, mainT[q]>>] \in {"scheduled", "waiting"}
                 \/ Call("bury", q) \in Items(calls')
      <4>1. q # p /\ pstate[q] = "live"
        BY <2>7, <3>1
      <4>2. QED BY <1>1, <2>4, <4>1 DEF MainsLive
    <3>2. QED BY <2>1, <3>1 DEF MainsLive, Call, Items
  <2>10. QED BY <2>5, <2>6, <2>8, <2>9 DEF ThreadInv
<1>5. QED BY <1>3, <1>4

(* The waiter that a signal pops from the queue of a process goes from     *)
(* there to the schedule, and nobody else moves.                           *)
LEMMA SignalWakes ==
    ASSUME TypeOK, Placed, NEW q \in Procs, NEW s, Waits(sigQ[q], s) # {},
           NEW i, i = Least(Waits(sigQ[q], s)),
           sigQ' = [sigQ EXCEPT ![q] = PopAt(@, i)],
           sched' = Append(sched, sigQ[q][i].thr),
           tstate' = [tstate EXCEPT ![sigQ[q][i].thr] = "scheduled"],
           UNCHANGED <<joinQ, sleepQ>>
    PROVE  /\ Placed'
           /\ \A p \in Procs : Items(sigQ'[p]) \subseteq Items(sigQ[p])
           /\ \A th \in Thread : tstate[th] \in {"scheduled", "waiting"}
                                    => tstate'[th] \in {"scheduled", "waiting"}
           /\ \A th \in Thread : tstate'[th] = "exited" => tstate[th] = "exited"
<1>1. Once /\ Own /\ \A th \in Thread : Where(th)
    BY DEF Placed
<1>2. PICK j : j = sigQ[q][i].thr
    OBVIOUS
<1>3. i \in 1 .. Len(sigQ[q]) /\ j \in Thread /\ j \in WaitersOf(sigQ[q])
    BY <1>2, PopWaiter
<1>4. j[1] = q /\ Listening(j) /\ ~Asleep(j) /\ ~Joining(j) /\ ~Scheduled(j) /\ tstate[j] = "waiting"
  <2>1. j[1] = q
    BY <1>1, <1>3 DEF Own
  <2>2. Listening(j)
    BY <1>3, <2>1 DEF Listening
  <2>3. QED BY <1>1, <1>3, <2>1, <2>2 DEF Where
<1>5. sigQ[q] \in Seq(Waiter(Sigs)) /\ NoThreadTwice(sigQ[q])
    BY <1>1, WaiterTypes DEF Once
<1>6. /\ NoThreadTwice(PopAt(sigQ[q], i))
      /\ \A th : th \in WaitersOf(PopAt(sigQ[q], i)) <=> th \in WaitersOf(sigQ[q]) /\ th # j
      /\ Items(PopAt(sigQ[q], i)) \subseteq Items(sigQ[q])
    BY <1>2, <1>3, <1>5, PopOnce
<1>7. sigQ'[q] = PopAt(sigQ[q], i) /\ \A p \in Procs \ {q} : sigQ'[p] = sigQ[p]
    BY DEF TypeOK
<1>8. \A p \in Procs : /\ NoThreadTwice(sigQ'[p])
                       /\ Items(sigQ'[p]) \subseteq Items(sigQ[p])
                       /\ \A th : th \in WaitersOf(sigQ'[p]) => th \in WaitersOf(sigQ[p])
    BY <1>1, <1>6, <1>7 DEF Once
<1>9. Own'
    BY <1>1, <1>8 DEF Own, WaitersOf
<1>10. sched \in Seq(Thread) /\ NoDup(sched) /\ j \notin Items(sched)
    BY <1>1, <1>4 DEF TypeOK, Once, Scheduled
<1>11. NoDup(sched') /\ Items(sched') = Items(sched) \cup {j}
    BY <1>2, <1>3, <1>10, AppendItems
<1>12. ASSUME NEW th \in Thread
       PROVE  /\ Scheduled(th)' <=> Scheduled(th) \/ th = j
              /\ Asleep(th)' <=> Asleep(th)
              /\ Joining(th)' <=> Joining(th)
              /\ Listening(th)' <=> Listening(th) /\ th # j
  <2>1. Scheduled(th)' <=> Scheduled(th) \/ th = j
    BY <1>11 DEF Scheduled, Items
  <2>2. (Asleep(th)' <=> Asleep(th)) /\ (Joining(th)' <=> Joining(th))
    BY DEF Asleep, Joining
  <2>3. th[1] \in Procs
    BY DEF Thread
  <2>4. th \in WaitersOf(sigQ'[th[1]]) <=> th \in WaitersOf(sigQ[th[1]]) /\ th # j
    BY <1>4, <1>6, <1>7, <2>3
  <2>5. Listening(th)' <=> Listening(th) /\ th # j
    BY <2>4 DEF Listening, WaitersOf
  <2>6. QED BY <2>1, <2>2, <2>5
<1>13. \A th \in Thread : tstate'[th] = IF th = j THEN "scheduled" ELSE tstate[th]
    BY <1>2, <1>3 DEF TypeOK
<1>14. \A th \in Thread : Where(th)'
    BY <1>1, <1>4, <1>12, <1>13 DEF Where
<1>15. Once'
    BY <1>1, <1>8, <1>11 DEF Once
<1>16. QED BY <1>4, <1>8, <1>9, <1>13, <1>14, <1>15 DEF Placed

LEMMA ThreadsSignalProc ==
    ASSUME IInv, TypeOK', ThreadInv, SignalProc PROVE ThreadInv'
<1>1. /\ calls \in Seq(Frame) /\ calls # << >> /\ TypeOK /\ Up
      /\ Placed /\ JoinsHeard /\ SignalsHeard /\ MainsLive
    BY DEF IInv, TypeOK, SignalProc, Up, ThreadInv
<1>2. PICK q \in Procs : q = Head(calls).p /\ Head(calls).op = "signal" /\ pstate[q] # "free"
  <2>1. Head(calls) \in Frame /\ Head(calls) \in Items(calls)
    BY <1>1 DEF Items
  <2>2. QED BY <1>1, <2>1, FrameIs DEF SignalProc, IInv, CallsOK, FrameOK
<1>3. PICK s : s = Head(calls).sid
    OBVIOUS
<1> DEFINE w == Waits(sigQ[q], s)
<1>4. CASE s \notin Sigs
  <2>1. s \notin sigVec[q]
    BY <1>1, <1>4 DEF TypeOK
  <2>2. QED BY <1>2, <1>3, <1>4, <2>1 DEF SignalProc, Panic, ThreadInv, Up
<1>5. CASE s \in Sigs
  <2>1. /\ UNCHANGED <<sys, procVars, joinQ, sleepQ, sigAllow>>
        /\ calls' = Tail(calls) \/ calls' = << Call("exit", q) >> \o Tail(calls)
    BY <1>2, <1>3, <1>5 DEF SignalProc, queueVars, sigVars, Panic
  <2>2. << Call("exit", q) >> \in Seq(Frame) /\ Call("exit", q) \in Items(<< Call("exit", q) >>)
    BY <1>2 DEF Call, Frame, Items
  <2>3. \A f \in Items(calls) : f # Head(calls) => f \in Items(calls')
    BY <1>1, <2>1, <2>2, CallsLeft
  <2>4. \A p \in Procs, op \in {"exit", "bury"} :
           Call(op, p) \in Items(calls) => Call(op, p) \in Items(calls')
    BY <1>2, <2>3 DEF Call
  <2>5. CASE s \in sigVec[q]
    <3>1. UNCHANGED <<sched, tstate, sigQ, sigVec>>
        BY <1>2, <1>3, <1>5, <2>5 DEF SignalProc, queueVars, sigVars
    <3>2. Placed' /\ JoinsHeard' /\ SignalsHeard' /\ MainsLive'
        BY <1>1, <2>1, <2>4, <3>1, PlacesStay, JoinsStay, SignalsStay, MainsStay DEF queueVars, procVars
    <3>3. QED BY <3>2 DEF ThreadInv
  <2>6. CASE s \notin sigVec[q] /\ (s \notin sigAllow[q] \/ w = {})
    <3>1. /\ UNCHANGED <<sched, tstate, sigQ>>
          /\ sigVec' = [sigVec EXCEPT ![q] = @ \cup {s}]
          /\ s \notin sigAllow[q] => calls' = << Call("exit", q) >> \o Tail(calls)
        BY <1>2, <1>3, <1>5, <2>6 DEF SignalProc, queueVars, sigVars
    <3>2. Placed' /\ JoinsHeard' /\ MainsLive'
        BY <1>1, <2>1, <2>4, <3>1, PlacesStay, JoinsStay, MainsStay DEF queueVars, procVars
    <3>3. s \notin sigAllow[q] => Call("exit", q) \in Items(calls')
      <4>1. Items(<< Call("exit", q) >>) \subseteq Items(<< Call("exit", q) >> \o Tail(calls))
        BY <1>1, <2>2, CallsLeft
      <4>2. QED BY <2>2, <3>1, <4>1
    <3>4. sigVec'[q] = sigVec[q] \cup {s} /\ \A p \in Procs \ {q} : sigVec'[p] = sigVec[p]
        BY <1>1, <3>1 DEF TypeOK
    <3>5. ASSUME NEW p \in Procs
          PROVE  /\ pstate[p] = "free" => sigVec'[p] = {}
                 /\ pstate[p] = "live" => \/ sigVec'[p] \subseteq sigAllow[p]
                                          \/ Call("exit", p) \in Items(calls')
                                          \/ Call("bury", p) \in Items(calls')
                 /\ \A e \in Items(sigQ[p]) : \/ e.mask \cap sigVec'[p] = {}
                                              \/ Call("exit", p) \in Items(calls')
      <4>1. CASE p # q
        BY <1>1, <2>4, <3>4, <4>1 DEF SignalsHeard
      <4>2. CASE p = q
        <5>1. CASE s \notin sigAllow[q]
          BY <1>2, <3>3, <4>2, <5>1
        <5>2. CASE s \in sigAllow[q]
          <6>1. \A e \in Items(sigQ[q]) : s \notin e.mask
            BY <2>6, <5>2 DEF Waits, Items
          <6>2. /\ sigVec[q] \subseteq sigAllow[q] => sigVec'[q] \subseteq sigAllow[q]
                /\ \A e \in Items(sigQ[q]) :
                      e.mask \cap sigVec[q] = {} => e.mask \cap sigVec'[q] = {}
            BY <3>4, <5>2, <6>1
          <6>3. /\ pstate[q] = "live" => \/ sigVec[q] \subseteq sigAllow[q]
                                         \/ Call("exit", q) \in Items(calls')
                                         \/ Call("bury", q) \in Items(calls')
                /\ \A e \in Items(sigQ[q]) : \/ e.mask \cap sigVec[q] = {}
                                             \/ Call("exit", q) \in Items(calls')
            BY <1>1, <2>4 DEF SignalsHeard
          <6>4. QED BY <1>2, <4>2, <6>2, <6>3
        <5>3. QED BY <5>1, <5>2
      <4>3. QED BY <4>1, <4>2
    <3>6. SignalsHeard'
        BY <2>1, <3>1, <3>5, ZenonT(60) DEF SignalsHeard, Call, Items, procVars
    <3>7. QED BY <3>2, <3>6 DEF ThreadInv
  <2>7. CASE s \notin sigVec[q] /\ s \in sigAllow[q] /\ w # {}
    <3>1. PICK i : i = Least(w)
        OBVIOUS
    <3>2. /\ sigQ' = [sigQ EXCEPT ![q] = PopAt(@, i)]
          /\ sched' = Append(sched, sigQ[q][i].thr)
          /\ tstate' = [tstate EXCEPT ![sigQ[q][i].thr] = "scheduled"]
          /\ UNCHANGED sigVec
        BY <1>2, <1>3, <1>5, <2>7, <3>1 DEF SignalProc, sigVars
    <3>3. /\ Placed'
          /\ \A p \in Procs : Items(sigQ'[p]) \subseteq Items(sigQ[p])
          /\ \A th \in Thread : tstate[th] \in {"scheduled", "waiting"}
                                   => tstate'[th] \in {"scheduled", "waiting"}
          /\ \A th \in Thread : tstate'[th] = "exited" => tstate[th] = "exited"
        BY <1>1, <2>1, <2>7, <3>1, <3>2, SignalWakes
    <3>4. JoinsHeard'
        BY <1>1, <2>1, <3>3, JoinsStay
    <3>5. SignalsHeard'
        BY <1>1, <2>1, <2>4, <3>2, <3>3, SignalsStay DEF procVars
    <3>6. MainsLive'
        BY <1>1, <2>1, <2>4, <3>3, MainsStay DEF procVars
    <3>7. QED BY <3>3, <3>4, <3>5, <3>6 DEF ThreadInv
  <2>8. QED BY <2>5, <2>6, <2>7
<1>6. QED BY <1>4, <1>5

LEMMA ThreadsResetProc ==
    ASSUME IInv, TypeOK', ThreadInv, ResetProc PROVE ThreadInv'
<1>1. /\ calls \in Seq(Frame) /\ calls # << >> /\ TypeOK /\ Up
      /\ Once /\ Own /\ \A th \in Thread : Where(th)
      /\ JoinsHeard /\ SignalsHeard /\ MainsLive
    BY DEF IInv, TypeOK, ResetProc, Up, ThreadInv, Placed
<1>2. PICK p \in Procs : p = Head(calls).p /\ Head(calls).op = "reset"
  <2>1. Head(calls) \in Frame
    BY <1>1
  <2>2. QED BY <2>1, FrameIs DEF ResetProc
<1>3. PICK m \in Thread : m = <<p, mainT[p]>> /\ m[1] = p
  <2>1. mainT[p] \in Tids
    BY <1>1 DEF TypeOK
  <2>2. <<p, mainT[p]>> \in Thread /\ <<p, mainT[p]>>[1] = p
    BY <2>1 DEF Thread
  <2>3. QED BY <2>2
<1>4. /\ sched' = Append(Drop(sched, ThreadsOf(p)), m)
      /\ DetachFromQueues(ThreadsOf(p))
      /\ tstate' = [th \in Thread |-> IF th[1] # p THEN tstate[th]
                                      ELSE IF th = m THEN "scheduled" ELSE "none"]
      /\ sigVec' = [sigVec EXCEPT ![p] = {}]
      /\ sigAllow' = [sigAllow EXCEPT ![p] = {}]
      /\ calls' = Tail(calls)
      /\ UNCHANGED <<sys, pstate, mainT>>
    BY <1>2, <1>3 DEF ResetProc, procVars
<1>5. /\ NoThreadTwice(sleepQ')
      /\ \A q \in Procs : NoThreadTwice(joinQ'[q]) /\ NoThreadTwice(sigQ'[q])
      /\ Own'
      /\ \A th \in Thread : /\ Asleep(th)' <=> Asleep(th) /\ th[1] # p
                            /\ Joining(th)' <=> Joining(th) /\ th[1] # p
                            /\ Listening(th)' <=> Listening(th) /\ th[1] # p
      /\ \A q \in Procs : /\ Items(joinQ'[q]) \subseteq Items(joinQ[q])
                          /\ Items(sigQ'[q]) \subseteq Items(sigQ[q])
      /\ Items(joinQ'[p]) = {} /\ Items(sigQ'[p]) = {}
    BY <1>1, <1>4, DetachPlaces
<1>6. \A th \in Thread : th \in ThreadsOf(p) <=> th[1] = p
    BY DEF Thread, ThreadsOf
<1>7. NoDup(sched') /\ Items(sched') = (Items(sched) \ ThreadsOf(p)) \cup {m}
  <2>1. PICK d : d = Drop(sched, ThreadsOf(p))
    OBVIOUS
  <2>2. d \in Seq(Thread) /\ NoDup(d) /\ Items(d) = Items(sched) \ ThreadsOf(p)
    BY <1>1, <2>1, DropProps DEF TypeOK, Once
  <2>3. m \notin Items(d) /\ sched' = Append(d, m)
    BY <1>3, <1>4, <1>6, <2>1, <2>2
  <2>4. QED BY <2>2, <2>3, AppendItems
<1>8. \A th \in Thread : Scheduled(th)' <=> (Scheduled(th) /\ th[1] # p) \/ th = m
    BY <1>6, <1>7 DEF Scheduled, Items
<1>9. \A th \in Thread : tstate'[th] =
         IF th[1] # p THEN tstate[th] ELSE IF th = m THEN "scheduled" ELSE "none"
    BY <1>4
<1>10. \A th \in Thread : Where(th)'
    BY <1>1, <1>3, <1>5, <1>8, <1>9 DEF Where
<1>11. Placed'
    BY <1>5, <1>7, <1>10 DEF Placed, Once
<1>12. JoinsHeard'
    BY <1>1, <1>5, <1>9, JoinsStay
<1>13. \A q \in Procs, op \in {"exit", "bury"} :
          Call(op, q) \in Items(calls) => Call(op, q) \in Items(calls')
  <2>1. \A f \in Items(calls) : f # Head(calls) => f \in Items(Tail(calls))
    <3>1. << >> \in Seq(Frame)
        OBVIOUS
    <3>2. QED BY <1>1, <3>1, CallsLeft
  <2>2. QED BY <1>2, <1>4, <2>1 DEF Call
<1>14. SignalsHeard'
  <2>1. /\ sigVec'[p] = {} /\ sigAllow'[p] = {}
        /\ \A q \in Procs \ {p} : sigVec'[q] = sigVec[q] /\ sigAllow'[q] = sigAllow[q]
    BY <1>1, <1>4 DEF TypeOK
  <2>2. ASSUME NEW q \in Procs
        PROVE  /\ pstate[q] = "free" => sigVec'[q] = {}
               /\ pstate[q] = "live" => \/ sigVec'[q] \subseteq sigAllow'[q]
                                        \/ Call("exit", q) \in Items(calls')
                                        \/ Call("bury", q) \in Items(calls')
               /\ \A e \in Items(sigQ'[q]) : \/ e.mask \cap sigVec'[q] = {}
                                             \/ Call("exit", q) \in Items(calls')
    <3>1. CASE q = p
        BY <2>1, <3>1
    <3>2. CASE q # p
        BY <1>1, <1>5, <1>13, <2>1, <3>2 DEF SignalsHeard
    <3>3. QED BY <3>1, <3>2
  <2>3. QED BY <1>4, <2>2 DEF SignalsHeard, Call, Items
<1>15. MainsLive'
  <2>1. ASSUME NEW q \in Procs, pstate[q] = "live"
        PROVE  \/ tstate'[<<q, mainT[q]>>] \in {"scheduled", "waiting"}
               \/ Call("bury", q) \in Items(calls')
    <3>1. <<q, mainT[q]>> \in Thread /\ <<q, mainT[q]>>[1] = q
        BY <1>1 DEF TypeOK, Thread
    <3>2. QED BY <1>1, <1>3, <1>9, <1>13, <2>1, <3>1 DEF MainsLive
  <2>2. QED BY <1>4, <2>1 DEF MainsLive, Call, Items
<1>16. QED BY <1>11, <1>12, <1>14, <1>15 DEF ThreadInv

-----------------------------------------------------------------------------
(* The system calls that move no thread.                                   *)

LEMMA RunningPlaced ==
    ASSUME IInv, ThreadInv, NEW p \in Procs, NEW t \in Tids, Running(p, t)
    PROVE  /\ TypeOK /\ Idle /\ Up /\ Items(calls) = {}
           /\ Placed /\ JoinsHeard /\ SignalsHeard /\ MainsLive
           /\ <<p, t>> \in Thread /\ <<p, t>>[1] = p /\ Scheduled(<<p, t>>)
           /\ tstate[<<p, t>>] = "scheduled" /\ ~Asleep(<<p, t>>)
           /\ ~Joining(<<p, t>>) /\ ~Listening(<<p, t>>)
           /\ pstate[p] = "live"
<1>1. /\ TypeOK /\ Idle /\ Up /\ <<p, t>> \in Thread /\ <<p, t>> \in Items(sched)
      /\ pstate[p] = "live"
    BY RunningIs
<1>2. /\ Placed /\ JoinsHeard /\ SignalsHeard /\ MainsLive
      /\ Scheduled(<<p, t>>) /\ Items(calls) = {}
    BY <1>1, NoCalls DEF ThreadInv, Scheduled
<1>3. Where(<<p, t>>)
    BY <1>1, <1>2 DEF Placed
<1>4. QED BY <1>1, <1>2, <1>3 DEF Where

LEMMA ThreadsAlone ==
    ASSUME IInv, ThreadInv, NEW p \in Procs, NEW t \in Tids, Running(p, t),
           UNCHANGED <<sys, sched, tstate, pstate, mainT, queueVars>>,
           SignalsHeard'
    PROVE  ThreadInv'
<1>1. /\ TypeOK /\ Placed /\ JoinsHeard /\ MainsLive /\ Items(calls) = {}
    BY RunningPlaced
<1>2. Placed'
    BY <1>1, PlacesStay
<1>3. JoinsHeard'
    BY <1>1, JoinsStay DEF queueVars
<1>4. MainsLive'
    BY <1>1, MainsStay
<1>5. QED BY <1>2, <1>3, <1>4 DEF ThreadInv

(* Exits, signals and execs so far only leave a call to be made.           *)
LEMMA ThreadsCalls ==
    ASSUME IInv, ThreadInv, NEW p \in Procs, NEW t \in Tids, Running(p, t),
           UNCHANGED <<sys, sched, tstate, pstate, mainT, queueVars, sigVars>>
    PROVE  ThreadInv'
<1>1. SignalsHeard /\ Items(calls) = {}
    BY RunningPlaced
<1>2. SignalsHeard'
    BY <1>1, SignalsStay DEF queueVars, sigVars
<1>3. QED BY <1>2, ThreadsAlone

LEMMA ThreadsExec ==
    ASSUME IInv, ThreadInv, NEW p \in Procs, NEW t \in Tids, Exec(p, t)
    PROVE  ThreadInv'
<1>1. CASE sys' # "up"
    BY <1>1 DEF ThreadInv, Up
<1>2. CASE sys' = "up"
  <2>1. Running(p, t) /\ sys = "up"
    BY DEF Exec, Running, Idle
  <2>2. UNCHANGED <<sys, sched, tstate, pstate, mainT, queueVars, sigVars>>
    BY <1>2, <2>1 DEF Exec, Panic, Abandon, procVars
  <2>3. QED BY <2>1, <2>2, ThreadsCalls
<1>3. QED BY <1>1, <1>2

LEMMA ThreadsAllowSignal ==
    ASSUME IInv, ThreadInv, NEW p \in Procs, NEW t \in Tids, NEW sv \in SUBSET Sigs,
           AllowSignal(p, t, sv)
    PROVE  ThreadInv'
<1>1. /\ Running(p, t)
      /\ sigAllow' = [sigAllow EXCEPT ![p] = sv]
      /\ calls' = AfterAllow(p, sv)
      /\ UNCHANGED <<sys, sched, tstate, procVars, queueVars, sigVec>>
    BY DEF AllowSignal
<1>2. SignalsHeard /\ Items(calls) = {} /\ TypeOK
    BY <1>1, RunningPlaced
<1>3. sigVec[p] \subseteq sv \/ Call("exit", p) \in Items(calls')
    BY <1>1 DEF AfterAllow, Items
<1>4. sigAllow'[p] = sv /\ \A q \in Procs \ {p} : sigAllow'[q] = sigAllow[q]
    BY <1>1, <1>2 DEF TypeOK
<1>5. ASSUME NEW q \in Procs
      PROVE  /\ pstate[q] = "free" => sigVec[q] = {}
             /\ pstate[q] = "live" => \/ sigVec[q] \subseteq sigAllow'[q]
                                      \/ Call("exit", q) \in Items(calls')
             /\ \A e \in Items(sigQ[q]) : e.mask \cap sigVec[q] = {}
    BY <1>2, <1>3, <1>4 DEF SignalsHeard
<1>6. SignalsHeard'
    BY <1>1, <1>5 DEF SignalsHeard, Call, Items, queueVars, procVars
<1>7. QED BY <1>1, <1>6, ThreadsAlone DEF procVars

LEMMA ThreadsClearSignal ==
    ASSUME IInv, ThreadInv, NEW p \in Procs, NEW t \in Tids, NEW sv \in SUBSET Sigs,
           ClearSignal(p, t, sv)
    PROVE  ThreadInv'
<1>1. /\ Running(p, t)
      /\ sigVec' = [sigVec EXCEPT ![p] = @ \ sv]
      /\ UNCHANGED <<sys, calls, sched, tstate, procVars, queueVars, sigAllow>>
    BY DEF ClearSignal
<1>2. SignalsHeard /\ Items(calls) = {} /\ TypeOK
    BY <1>1, RunningPlaced
<1>3. \A q \in Procs : sigVec'[q] \subseteq sigVec[q]
    BY <1>1, <1>2 DEF TypeOK
<1>4. ASSUME NEW q \in Procs
      PROVE  /\ pstate[q] = "free" => sigVec'[q] = {}
             /\ pstate[q] = "live" => sigVec'[q] \subseteq sigAllow[q]
             /\ \A e \in Items(sigQ[q]) : e.mask \cap sigVec'[q] = {}
    BY <1>2, <1>3 DEF SignalsHeard
<1>5. SignalsHeard'
    BY <1>1, <1>4 DEF SignalsHeard, Call, Items, queueVars, procVars
<1>6. QED BY <1>1, <1>5, ThreadsAlone DEF procVars

-----------------------------------------------------------------------------
(* Fork and reap.                                                          *)

LEMMA ThreadsFork ==
    ASSUME IInv, TypeOK', ThreadInv, NEW p \in Procs, NEW t \in Tids, NEW c \in Procs,
           Fork(p, t, c)
    PROVE  ThreadInv'
<1>1. /\ Running(p, t) /\ pstate[c] = "free"
      /\ pstate' = [pstate EXCEPT ![c] = "live"]
      /\ mainT' = [mainT EXCEPT ![c] = t]
      /\ tstate' = [tstate EXCEPT ![<<c, t>>] = "scheduled"]
      /\ sched' = Append(sched, <<c, t>>)
      /\ UNCHANGED <<sys, calls, queueVars, sigVars>>
    BY DEF Fork
<1>2. /\ TypeOK /\ Up /\ Items(calls) = {}
      /\ Once /\ Own /\ (\A th \in Thread : Where(th))
      /\ JoinsHeard /\ SignalsHeard /\ MainsLive
    BY <1>1, RunningPlaced DEF Placed
<1>3. PICK n \in Thread : n = <<c, t>> /\ n[1] = c
  <2>1. <<c, t>> \in Thread /\ <<c, t>>[1] = c
    BY DEF Thread
  <2>2. QED BY <2>1
<1>4. ~Scheduled(n) /\ ~Asleep(n) /\ ~Joining(n) /\ ~Listening(n)
  <2>1. ~LiveOnly(n)
    BY <1>1, <1>3 DEF LiveOnly
  <2>2. ~Held(n)
    BY <1>2, <2>1 DEF IInv, HeldLive
  <2>3. QED BY <1>3, <2>2 DEF Held, InQueue, Scheduled, Asleep, Joining, Listening
<1>5. NoDup(sched') /\ Items(sched') = Items(sched) \cup {n}
  <2>1. sched \in Seq(Thread) /\ NoDup(sched) /\ n \notin Items(sched) /\ sched' = Append(sched, n)
    BY <1>1, <1>2, <1>3, <1>4 DEF TypeOK, Once, Scheduled
  <2>2. QED BY <2>1, AppendItems
<1>6. \A th \in Thread : tstate'[th] = IF th = n THEN "scheduled" ELSE tstate[th]
    BY <1>1, <1>2, <1>3 DEF TypeOK
<1>7. \A th \in Thread : /\ Scheduled(th)' <=> Scheduled(th) \/ th = n
                         /\ Asleep(th)' <=> Asleep(th)
                         /\ Joining(th)' <=> Joining(th)
                         /\ Listening(th)' <=> Listening(th)
    BY <1>1, <1>5 DEF Scheduled, Items, Asleep, Joining, Listening, queueVars
<1>8. \A th \in Thread : Where(th)'
    BY <1>2, <1>4, <1>6, <1>7 DEF Where
<1>9. Once' /\ Own'
    BY <1>1, <1>2, <1>5 DEF Once, Own, queueVars
<1>10. JoinsHeard'
    BY <1>1, <1>2, <1>6, JoinsStay DEF queueVars
<1>11. pstate'[c] = "live" /\ mainT'[c] = t /\ \A q \in Procs \ {c} : pstate'[q] = pstate[q] /\ mainT'[q] = mainT[q]
    BY <1>1, <1>2 DEF TypeOK
<1>12. SignalsHeard'
  <2>1. ASSUME NEW q \in Procs
        PROVE  /\ pstate'[q] = "free" => sigVec[q] = {}
               /\ pstate'[q] = "live" => sigVec[q] \subseteq sigAllow[q]
               /\ \A e \in Items(sigQ[q]) : e.mask \cap sigVec[q] = {}
    BY <1>1, <1>2, <1>11 DEF SignalsHeard
  <2>2. sigVec' = sigVec /\ sigAllow' = sigAllow /\ sigQ' = sigQ
    BY <1>1 DEF queueVars, sigVars
  <2>3. \A q \in Procs : Items(sigQ[q])' = Items(sigQ[q])
    BY <2>2
  <2>4. QED BY <2>1, <2>2, <2>3 DEF SignalsHeard
<1>13. MainsLive'
  <2>1. ASSUME NEW q \in Procs, pstate'[q] = "live"
        PROVE  tstate'[<<q, mainT'[q]>>] \in {"scheduled", "waiting"}
    <3>1. CASE q = c
        BY <3>1, <1>3, <1>6, <1>11
    <3>2. CASE q # c
      <4>1. mainT[q] \in Tids /\ <<q, mainT[q]>> \in Thread
        BY <1>2 DEF TypeOK, Thread
      <4>2. QED BY <3>2, <4>1, <2>1, <1>2, <1>6, <1>11 DEF MainsLive
    <3>3. QED BY <3>1, <3>2
  <2>2. QED BY <2>1 DEF MainsLive
<1>14. QED BY <1>8, <1>9, <1>10, <1>12, <1>13 DEF ThreadInv, Placed

LEMMA ThreadsReclaim ==
    ASSUME IInv, TypeOK', ThreadInv, NEW p \in Procs, NEW t \in Tids, Running(p, t),
           NEW c \in Procs, Reclaim(c)
    PROVE  ThreadInv'
<1>1. /\ TypeOK /\ Up /\ Items(calls) = {}
      /\ Once /\ Own /\ (\A th \in Thread : Where(th))
      /\ JoinsHeard /\ SignalsHeard /\ MainsLive
    BY RunningPlaced DEF Placed
<1>2. /\ pstate' = [pstate EXCEPT ![c] = "free"]
      /\ mainT' = [mainT EXCEPT ![c] = 0]
      /\ tstate' = [th \in Thread |-> IF th[1] = c THEN "none" ELSE tstate[th]]
      /\ sched' = Drop(sched, ThreadsOf(c))
      /\ DetachFromQueues(ThreadsOf(c))
      /\ sigVec' = [sigVec EXCEPT ![c] = {}]
      /\ sigAllow' = [sigAllow EXCEPT ![c] = {}]
      /\ UNCHANGED <<sys, calls>>
    BY DEF Reclaim
<1>3. /\ NoThreadTwice(sleepQ')
      /\ \A q \in Procs : NoThreadTwice(joinQ'[q]) /\ NoThreadTwice(sigQ'[q])
      /\ Own'
      /\ \A th \in Thread : /\ Asleep(th)' <=> Asleep(th) /\ th[1] # c
                            /\ Joining(th)' <=> Joining(th) /\ th[1] # c
                            /\ Listening(th)' <=> Listening(th) /\ th[1] # c
      /\ \A q \in Procs : /\ Items(joinQ'[q]) \subseteq Items(joinQ[q])
                          /\ Items(sigQ'[q]) \subseteq Items(sigQ[q])
      /\ Items(joinQ'[c]) = {} /\ Items(sigQ'[c]) = {}
    BY <1>1, <1>2, DetachPlaces
<1>4. NoDup(sched') /\ Items(sched') = Items(sched) \ ThreadsOf(c)
    BY <1>1, <1>2, DropProps, SMTT(60) DEF TypeOK, Once
<1>5. \A th \in Thread : Scheduled(th)' <=> Scheduled(th) /\ th[1] # c
  <2>1. \A th \in Thread : th \in ThreadsOf(c) <=> th[1] = c
    BY DEF Thread, ThreadsOf
  <2>2. QED BY <1>4, <2>1 DEF Scheduled, Items
<1>6. \A th \in Thread : tstate'[th] = IF th[1] = c THEN "none" ELSE tstate[th]
    BY <1>2
<1>7. \A th \in Thread : Where(th)'
    BY <1>1, <1>3, <1>5, <1>6 DEF Where
<1>8. JoinsHeard'
    BY <1>1, <1>3, <1>6, JoinsStay
<1>9. /\ pstate'[c] = "free" /\ sigVec'[c] = {} /\ sigAllow'[c] = {}
      /\ \A q \in Procs \ {c} : /\ pstate'[q] = pstate[q] /\ mainT'[q] = mainT[q]
                                /\ sigVec'[q] = sigVec[q] /\ sigAllow'[q] = sigAllow[q]
    BY <1>1, <1>2 DEF TypeOK
<1>10. SignalsHeard'
  <2>1. ASSUME NEW q \in Procs
        PROVE  /\ pstate'[q] = "free" => sigVec'[q] = {}
               /\ pstate'[q] = "live" => sigVec'[q] \subseteq sigAllow'[q]
               /\ \A e \in Items(sigQ'[q]) : e.mask \cap sigVec'[q] = {}
    <3>1. CASE q = c
        BY <1>9, <3>1
    <3>2. CASE q # c
        BY <1>1, <1>3, <1>9, <3>2 DEF SignalsHeard
    <3>3. QED BY <3>1, <3>2
  <2>2. QED BY <2>1 DEF SignalsHeard, Items
<1>11. MainsLive'
  <2>1. ASSUME NEW q \in Procs, pstate'[q] = "live"
        PROVE  tstate'[<<q, mainT'[q]>>] \in {"scheduled", "waiting"}
    <3>1. q # c /\ pstate[q] = "live" /\ mainT'[q] = mainT[q]
        BY <1>9, <2>1
    <3>2. <<q, mainT[q]>> \in Thread /\ <<q, mainT[q]>>[1] = q
        BY <1>1 DEF TypeOK, Thread
    <3>3. QED BY <1>1, <1>6, <3>1, <3>2 DEF MainsLive
  <2>2. QED BY <2>1 DEF MainsLive
<1>12. QED BY <1>3, <1>4, <1>7, <1>8, <1>10, <1>11 DEF ThreadInv, Placed, Once

LEMMA ThreadsReap ==
    ASSUME IInv, TypeOK', ThreadInv, NEW p \in Procs, NEW t \in Tids, NEW c \in Procs,
           ReapAny(p, t) \/ ReapPid(p, t, c)
    PROVE  ThreadInv'
<1>1. CASE ReapAny(p, t)
  <2>1. Running(p, t) /\ zkids[p] # << >> /\ Reclaim(Head(zkids[p]))
    BY <1>1 DEF ReapAny
  <2>2. zkids[p] \in Seq(Procs)
    BY DEF IInv, TypeOK
  <2>3. Head(zkids[p]) \in Procs
    BY <2>1, <2>2
  <2>4. QED BY <2>1, <2>3, ThreadsReclaim
<1>2. CASE ReapPid(p, t, c)
  <2>1. Running(p, t) /\ (Panic \/ Reclaim(c))
    BY <1>2 DEF ReapPid
  <2>2. CASE Panic
    BY <2>2 DEF Panic, ThreadInv, Up
  <2>3. QED BY <2>1, <2>2, ThreadsReclaim
<1>3. QED BY <1>1, <1>2

-----------------------------------------------------------------------------
(* The calls that move threads.                                            *)

LEMMA BlockPlaces ==
    ASSUME IInv, ThreadInv, NEW p \in Procs, NEW t \in Tids, Running(p, t), Block(<<p, t>>)
    PROVE  /\ NoDup(sched')
           /\ \A th \in Thread : Scheduled(th)' <=> Scheduled(th) /\ th # <<p, t>>
           /\ \A th \in Thread : tstate'[th] = IF th = <<p, t>> THEN "waiting" ELSE tstate[th]
<1>1. TypeOK /\ Once /\ <<p, t>> \in Thread
    BY RunningPlaced DEF Placed
<1>2. sched \in Seq(Thread) /\ NoDup(sched) /\ sched # << >> /\ Head(sched) = <<p, t>>
    BY <1>1 DEF TypeOK, Once, Running
<1>3. sched' = Tail(sched) /\ tstate' = [tstate EXCEPT ![<<p, t>>] = "waiting"]
    BY DEF Block
<1>4. NoDup(sched') /\ Items(sched') = Items(sched) \ {<<p, t>>}
    BY <1>2, <1>3, TailItems
<1>5. QED BY <1>1, <1>3, <1>4 DEF Scheduled, Items, TypeOK

(* The running thread joins the signal queue of its process.               *)
LEMMA ThreadsWaitSignal ==
    ASSUME IInv, TypeOK', ThreadInv, NEW p \in Procs, NEW t \in Tids, NEW sv \in SUBSET Sigs,
           WaitSignal(p, t, sv)
    PROVE  ThreadInv'
<1>1. Running(p, t) /\ UNCHANGED <<sys, calls, procVars, joinQ, sleepQ, sigAllow>>
    BY DEF WaitSignal
<1>2. /\ TypeOK /\ Items(calls) = {} /\ Once /\ Own /\ (\A th \in Thread : Where(th))
      /\ JoinsHeard /\ SignalsHeard /\ MainsLive
      /\ <<p, t>> \in Thread /\ <<p, t>>[1] = p
      /\ ~Asleep(<<p, t>>) /\ ~Joining(<<p, t>>) /\ ~Listening(<<p, t>>)
    BY <1>1, RunningPlaced DEF Placed
<1>3. CASE sv \cap sigVec[p] # {}
  <2>1. /\ sigVec' = [sigVec EXCEPT ![p] = @ \ {Least(sv \cap sigVec[p])}]
        /\ UNCHANGED <<sched, tstate, sigQ>>
    BY <1>3 DEF WaitSignal
  <2>2. \A q \in Procs : sigVec'[q] \subseteq sigVec[q]
    BY <1>2, <2>1 DEF TypeOK
  <2>3. ASSUME NEW q \in Procs
        PROVE  /\ pstate[q] = "free" => sigVec'[q] = {}
               /\ pstate[q] = "live" => sigVec'[q] \subseteq sigAllow[q]
               /\ \A e \in Items(sigQ[q]) : e.mask \cap sigVec'[q] = {}
    BY <1>2, <2>2 DEF SignalsHeard
  <2>4. SignalsHeard'
    <3>1. pstate' = pstate /\ sigQ' = sigQ /\ sigAllow' = sigAllow
        BY <1>1, <2>1 DEF procVars
    <3>2. QED BY <2>3, <3>1 DEF SignalsHeard, Items
  <2>5. QED BY <1>1, <2>1, <2>4, ThreadsAlone DEF procVars, queueVars
<1>4. CASE sv \cap sigVec[p] = {}
  <2> DEFINE e == [thr |-> <<p, t>>, mask |-> sv]
  <2>1. /\ sigQ' = [sigQ EXCEPT ![p] = Append(sigQ[p], e)]
        /\ Block(<<p, t>>) /\ UNCHANGED sigVec
    BY <1>4 DEF WaitSignal
  <2>2. e \in Waiter(Sigs) /\ e.thr = <<p, t>> /\ e.mask = sv
    BY <1>2 DEF Waiter
  <2> HIDE DEF e
  <2>3. /\ NoDup(sched')
        /\ \A th \in Thread : Scheduled(th)' <=> Scheduled(th) /\ th # <<p, t>>
        /\ \A th \in Thread : tstate'[th] = IF th = <<p, t>> THEN "waiting" ELSE tstate[th]
    BY <1>1, <2>1, BlockPlaces
  <2>4. sigQ[p] \in Seq(Waiter(Sigs)) /\ NoThreadTwice(sigQ[p]) /\ e.thr \notin WaitersOf(sigQ[p])
    BY <1>2, <2>2, WaiterTypes DEF Once, Listening
  <2>5. NoThreadTwice(Append(sigQ[p], e))
    BY <2>2, <2>4, AppendOnce
  <2>6. \A th : th \in WaitersOf(Append(sigQ[p], e)) <=> th \in WaitersOf(sigQ[p]) \/ th = <<p, t>>
    BY <2>2, <2>4, WaitersAppended
  <2>7. Items(Append(sigQ[p], e)) = Items(sigQ[p]) \cup {e}
    BY <2>2, <2>4, AppendItems
  <2>8. sigQ'[p] = Append(sigQ[p], e) /\ \A q \in Procs \ {p} : sigQ'[q] = sigQ[q]
    BY <1>2, <2>1 DEF TypeOK
  <2>9. ASSUME NEW th \in Thread
        PROVE  /\ Asleep(th)' <=> Asleep(th)
               /\ Joining(th)' <=> Joining(th)
               /\ Listening(th)' <=> Listening(th) \/ th = <<p, t>>
    <3>1. (Asleep(th)' <=> Asleep(th)) /\ (Joining(th)' <=> Joining(th))
        BY <1>1 DEF Asleep, Joining
    <3>2. th[1] \in Procs
        BY DEF Thread
    <3>3. th \in WaitersOf(sigQ'[th[1]]) <=> th \in WaitersOf(sigQ[th[1]]) \/ th = <<p, t>>
        BY <1>2, <2>6, <2>8, <3>2
    <3>4. Listening(th)' <=> Listening(th) \/ th = <<p, t>>
        BY <3>3 DEF Listening, WaitersOf
    <3>5. QED BY <3>1, <3>4
  <2>10. \A th \in Thread : Where(th)'
    BY <1>2, <2>3, <2>9 DEF Where
  <2>11. Once'
    <3>1. \A q \in Procs : NoThreadTwice(sigQ'[q])
        BY <1>2, <2>5, <2>8 DEF Once
    <3>2. QED BY <1>1, <1>2, <2>3, <3>1 DEF Once
  <2>12. Own'
    <3>1. \A q \in Procs, th \in Thread : th \in WaitersOf(sigQ'[q]) => th[1] = q
        BY <1>2, <2>6, <2>8 DEF Own
    <3>2. QED BY <1>1, <1>2, <3>1 DEF Own, WaitersOf
  <2>13. JoinsHeard'
    BY <1>1, <1>2, <2>3, JoinsStay
  <2>14. SignalsHeard'
    <3>1. ASSUME NEW q \in Procs
          PROVE  /\ pstate[q] = "free" => sigVec[q] = {}
                 /\ pstate[q] = "live" => sigVec[q] \subseteq sigAllow[q]
                 /\ \A x \in Items(sigQ'[q]) : x.mask \cap sigVec[q] = {}
        BY <1>2, <1>4, <2>2, <2>7, <2>8, ZenonT(60) DEF SignalsHeard
    <3>2. QED BY <1>1, <2>1, <3>1 DEF SignalsHeard, Items, procVars
  <2>15. MainsLive'
    BY <1>1, <1>2, <2>3, MainsStay DEF procVars
  <2>16. QED BY <2>10, <2>11, <2>12, <2>13, <2>14, <2>15 DEF ThreadInv, Placed
<1>5. QED BY <1>3, <1>4

LEMMA ThreadsSpawn ==
    ASSUME IInv, TypeOK', ThreadInv, NEW p \in Procs, NEW t \in Tids, NEW n \in Tids,
           Spawn(p, t, n)
    PROVE  ThreadInv'
<1>1. /\ Running(p, t) /\ tstate[<<p, n>>] = "none"
      /\ tstate' = [tstate EXCEPT ![<<p, n>>] = "scheduled"]
      /\ sched' = Append(sched, <<p, n>>)
      /\ UNCHANGED <<sys, calls, procVars, queueVars, sigVars>>
    BY DEF Spawn
<1>2. /\ TypeOK /\ Items(calls) = {} /\ Once /\ Own /\ (\A th \in Thread : Where(th))
      /\ JoinsHeard /\ SignalsHeard /\ MainsLive
    BY <1>1, RunningPlaced DEF Placed
<1>3. PICK m \in Thread : m = <<p, n>>
  <2>1. <<p, n>> \in Thread
    BY DEF Thread
  <2>2. QED BY <2>1
<1>4. ~Scheduled(m) /\ ~Asleep(m) /\ ~Joining(m) /\ ~Listening(m)
    BY <1>1, <1>2, <1>3 DEF Where
<1>5. NoDup(sched') /\ Items(sched') = Items(sched) \cup {m}
  <2>1. sched \in Seq(Thread) /\ NoDup(sched) /\ m \notin Items(sched) /\ sched' = Append(sched, m)
    BY <1>1, <1>2, <1>3, <1>4 DEF TypeOK, Once, Scheduled
  <2>2. QED BY <2>1, AppendItems
<1>6. \A th \in Thread : tstate'[th] = IF th = m THEN "scheduled" ELSE tstate[th]
    BY <1>1, <1>2, <1>3 DEF TypeOK
<1>7. \A th \in Thread : /\ Scheduled(th)' <=> Scheduled(th) \/ th = m
                         /\ Asleep(th)' <=> Asleep(th)
                         /\ Joining(th)' <=> Joining(th)
                         /\ Listening(th)' <=> Listening(th)
    BY <1>1, <1>5 DEF Scheduled, Items, Asleep, Joining, Listening, queueVars
<1>8. \A th \in Thread : Where(th)'
    BY <1>2, <1>4, <1>6, <1>7 DEF Where
<1>9. Once' /\ Own'
    BY <1>1, <1>2, <1>5 DEF Once, Own, queueVars
<1>10. JoinsHeard'
    BY <1>1, <1>2, <1>6, JoinsStay DEF queueVars
<1>11. SignalsHeard'
    BY <1>1, <1>2, SignalsStay DEF procVars, sigVars, queueVars
<1>12. MainsLive'
    BY <1>1, <1>2, <1>6, MainsStay DEF procVars
<1>13. QED BY <1>8, <1>9, <1>10, <1>11, <1>12 DEF ThreadInv, Placed

(* A thread that exits is left for a join, or wakes the first that waits   *)
(* for it.                                                                 *)
LEMMA ThreadsExitThread ==
    ASSUME IInv, TypeOK', ThreadInv, NEW p \in Procs, NEW t \in Tids, ExitThread(p, t)
    PROVE  ThreadInv'
<1>1. /\ Running(p, t) /\ t # mainT[p]
      /\ UNCHANGED <<sys, calls, procVars, sigQ, sleepQ, sigVars>>
    BY DEF ExitThread, IsMain
<1>2. /\ TypeOK /\ Items(calls) = {} /\ Once /\ Own /\ (\A th \in Thread : Where(th))
      /\ JoinsHeard /\ SignalsHeard /\ MainsLive
    BY <1>1, RunningPlaced DEF Placed
<1>3. PICK r \in Thread : /\ r = <<p, t>> /\ r[1] = p /\ r[2] = t /\ tstate[r] = "scheduled"
                          /\ ~Asleep(r) /\ ~Joining(r) /\ ~Listening(r)
  <2>1. <<p, t>>[2] = t
    OBVIOUS
  <2>2. QED BY <1>1, <2>1, RunningPlaced
<1>4. PICK u : u = Tail(sched)
    OBVIOUS
<1>5. u \in Seq(Thread) /\ NoDup(u) /\ Items(u) = Items(sched) \ {r}
  <2>1. sched \in Seq(Thread) /\ NoDup(sched) /\ sched # << >> /\ Head(sched) = r
    BY <1>1, <1>2, <1>3 DEF TypeOK, Once, Running
  <2>2. QED BY <1>4, <2>1, TailItems
<1>6. SignalsHeard'
    BY <1>1, <1>2, SignalsStay DEF procVars, sigVars
<1>7. ASSUME \A th \in Thread : th # r /\ tstate[th] \in {"scheduled", "waiting"}
                                    => tstate'[th] \in {"scheduled", "waiting"}
      PROVE  MainsLive'
  <2>1. ASSUME NEW q \in Procs, pstate[q] = "live"
        PROVE  tstate'[<<q, mainT[q]>>] \in {"scheduled", "waiting"}
    <3>1. <<q, mainT[q]>> \in Thread
        BY <1>2 DEF TypeOK, Thread
    <3>2. <<q, mainT[q]>> # r
        BY <1>1, <1>3
    <3>3. tstate[<<q, mainT[q]>>] \in {"scheduled", "waiting"}
        BY <1>2, <2>1 DEF MainsLive
    <3>4. QED BY <1>7, <3>1, <3>2, <3>3
  <2>2. QED BY <1>1, <2>1 DEF MainsLive, procVars
<1>8. CASE Waits(joinQ[p], t) = {}
  <2>1. sched' = u /\ tstate' = [tstate EXCEPT ![r] = "exited"] /\ UNCHANGED joinQ
    BY <1>3, <1>4, <1>8 DEF ExitThread
  <2>2. \A th \in Thread : tstate'[th] = IF th = r THEN "exited" ELSE tstate[th]
    BY <1>2, <2>1 DEF TypeOK
  <2>3. \A th \in Thread : /\ Scheduled(th)' <=> Scheduled(th) /\ th # r
                           /\ Asleep(th)' <=> Asleep(th)
                           /\ Joining(th)' <=> Joining(th)
                           /\ Listening(th)' <=> Listening(th)
    BY <1>1, <1>5, <2>1 DEF Scheduled, Items, Asleep, Joining, Listening
  <2>4. \A th \in Thread : Where(th)'
    BY <1>2, <1>3, <2>2, <2>3 DEF Where
  <2>5. Once' /\ Own'
    BY <1>1, <1>2, <1>5, <2>1 DEF Once, Own
  <2>6. JoinsHeard'
    <3>1. ASSUME NEW q \in Procs, NEW e \in Items(joinQ[q]), NEW k \in e.mask
          PROVE  tstate'[<<q, k>>] # "exited"
      <4>1. <<q, k>> \in Thread
        BY <1>2, <3>1, WaiterTypes DEF Thread
      <4>2. <<q, k>> # r
        <5>1. CASE q = p
          <6>1. \A x \in Items(joinQ[p]) : t \notin x.mask
            BY <1>8 DEF Waits, Items
          <6>2. QED BY <1>3, <3>1, <5>1, <6>1
        <5>2. CASE q # p
          BY <1>3, <5>2
        <5>3. QED BY <5>1, <5>2
      <4>3. tstate[<<q, k>>] # "exited"
        BY <1>2, <3>1 DEF JoinsHeard
      <4>4. QED BY <2>2, <4>1, <4>2, <4>3
    <3>2. QED BY <2>1, <3>1 DEF JoinsHeard, Items
  <2>7. MainsLive'
    BY <1>7, <2>2
  <2>8. QED BY <1>6, <2>4, <2>5, <2>6, <2>7 DEF ThreadInv, Placed
<1>9. CASE Waits(joinQ[p], t) # {}
  <2>1. PICK i : i = Least(Waits(joinQ[p], t))
    OBVIOUS
  <2>2. joinQ[p] \in Seq(Waiter(Tids)) /\ NoThreadTwice(joinQ[p])
    BY <1>2, WaiterTypes DEF Once
  <2>3. i \in 1 .. Len(joinQ[p])
    <3>1. Waits(joinQ[p], t) \subseteq 1 .. Len(joinQ[p]) /\ Waits(joinQ[p], t) \subseteq Nat
        BY <2>2 DEF Waits
    <3>2. i \in Waits(joinQ[p], t)
        BY <1>9, <2>1, <3>1, LeastIs
    <3>3. QED BY <3>1, <3>2
  <2>4. PICK j : j = joinQ[p][i].thr
    OBVIOUS
  <2>5. j \in Thread /\ j \in WaitersOf(joinQ[p])
    <3>1. joinQ[p][i] \in Waiter(Tids)
        BY <2>2, <2>3
    <3>2. QED BY <2>3, <2>4, <3>1 DEF Waiter, WaitersOf
  <2>6. /\ j[1] = p /\ Joining(j) /\ ~Asleep(j) /\ ~Listening(j) /\ ~Scheduled(j)
        /\ tstate[j] = "waiting" /\ j # r
    <3>1. j[1] = p
        BY <1>2, <2>5 DEF Own
    <3>2. Joining(j)
        BY <2>5, <3>1 DEF Joining
    <3>3. QED BY <1>2, <1>3, <2>5, <3>1, <3>2 DEF Where
  <2>7. /\ NoThreadTwice(PopAt(joinQ[p], i))
        /\ \A th : th \in WaitersOf(PopAt(joinQ[p], i)) <=> th \in WaitersOf(joinQ[p]) /\ th # j
        /\ Items(PopAt(joinQ[p], i)) \subseteq Items(joinQ[p])
    BY <2>2, <2>3, <2>4, PopOnce
  <2>8. /\ joinQ' = [joinQ EXCEPT ![p] = PopAt(joinQ[p], i)]
        /\ sched' = Append(u, j)
        /\ tstate' = [tstate EXCEPT ![j] = "scheduled", ![r] = "none"]
    BY <1>3, <1>4, <1>9, <2>1, <2>4 DEF ExitThread
  <2>9. joinQ'[p] = PopAt(joinQ[p], i) /\ \A q \in Procs \ {p} : joinQ'[q] = joinQ[q]
    BY <1>2, <2>8 DEF TypeOK
  <2>10. \A q \in Procs : /\ NoThreadTwice(joinQ'[q])
                          /\ Items(joinQ'[q]) \subseteq Items(joinQ[q])
                          /\ \A th : th \in WaitersOf(joinQ'[q]) => th \in WaitersOf(joinQ[q])
    BY <1>2, <2>7, <2>9 DEF Once
  <2>11. Own'
    BY <1>1, <1>2, <2>10 DEF Own, WaitersOf
  <2>12. NoDup(sched') /\ Items(sched') = (Items(sched) \ {r}) \cup {j}
    <3>1. j \notin Items(u)
        BY <1>5, <2>6 DEF Scheduled
    <3>2. QED BY <1>5, <2>5, <2>8, <3>1, AppendItems
  <2>13. ASSUME NEW th \in Thread
         PROVE  /\ Scheduled(th)' <=> (Scheduled(th) /\ th # r) \/ th = j
                /\ Asleep(th)' <=> Asleep(th)
                /\ Joining(th)' <=> Joining(th) /\ th # j
                /\ Listening(th)' <=> Listening(th)
    <3>1. Scheduled(th)' <=> (Scheduled(th) /\ th # r) \/ th = j
        BY <2>12 DEF Scheduled, Items
    <3>2. (Asleep(th)' <=> Asleep(th)) /\ (Listening(th)' <=> Listening(th))
        BY <1>1 DEF Asleep, Listening
    <3>3. th[1] \in Procs
        BY DEF Thread
    <3>4. th \in WaitersOf(joinQ'[th[1]]) <=> th \in WaitersOf(joinQ[th[1]]) /\ th # j
        BY <2>6, <2>7, <2>9, <3>3
    <3>5. Joining(th)' <=> Joining(th) /\ th # j
        BY <3>4 DEF Joining, WaitersOf
    <3>6. QED BY <3>1, <3>2, <3>5
  <2>14. \A th \in Thread : tstate'[th] = IF th = r THEN "none"
                                          ELSE IF th = j THEN "scheduled" ELSE tstate[th]
    BY <1>2, <2>5, <2>8 DEF TypeOK
  <2>15. \A th \in Thread : Where(th)'
    BY <1>2, <1>3, <2>6, <2>13, <2>14 DEF Where
  <2>16. Once'
    BY <1>1, <1>2, <2>10, <2>12 DEF Once
  <2>17. JoinsHeard'
    BY <1>2, <2>10, <2>14, JoinsStay
  <2>18. MainsLive'
    BY <1>7, <2>14
  <2>19. QED BY <1>6, <2>11, <2>15, <2>16, <2>17, <2>18 DEF ThreadInv, Placed
<1>10. QED BY <1>8, <1>9

LEMMA ThreadsJoin ==
    ASSUME IInv, TypeOK', ThreadInv, NEW p \in Procs, NEW t \in Tids, NEW jv \in SUBSET Tids,
           Join(p, t, jv)
    PROVE  ThreadInv'
<1>1. Running(p, t) /\ UNCHANGED <<sys, calls, procVars, sigQ, sleepQ, sigVars>> /\ jv # {}
    BY DEF Join
<1>2. /\ TypeOK /\ Items(calls) = {} /\ Once /\ Own /\ (\A th \in Thread : Where(th))
      /\ JoinsHeard /\ SignalsHeard /\ MainsLive
      /\ <<p, t>> \in Thread /\ <<p, t>>[1] = p
      /\ ~Asleep(<<p, t>>) /\ ~Joining(<<p, t>>) /\ ~Listening(<<p, t>>)
    BY <1>1, RunningPlaced DEF Placed
<1>3. SignalsHeard'
    BY <1>1, <1>2, SignalsStay DEF procVars, sigVars
<1> DEFINE ready == {r \in jv : tstate[<<p, r>>] = "exited"}
<1>4. CASE ready # {}
  <2>1. PICK k : k = Least(ready)
    OBVIOUS
  <2>2. k \in ready
    <3>1. ready \subseteq Nat
        BY KernelConstants
    <3>2. QED BY <1>4, <2>1, <3>1, LeastIs
  <2>3. PICK m \in Thread : m = <<p, k>> /\ tstate[m] = "exited"
    <3>1. <<p, k>> \in Thread
        BY <2>2 DEF Thread
    <3>2. QED BY <2>2, <3>1
  <2>4. tstate' = [tstate EXCEPT ![m] = "none"] /\ UNCHANGED <<sched, joinQ>>
    BY <1>4, <2>1, <2>3 DEF Join
  <2>5. \A th \in Thread : tstate'[th] = IF th = m THEN "none" ELSE tstate[th]
    BY <1>2, <2>4 DEF TypeOK
  <2>6. \A th \in Thread : /\ Scheduled(th)' <=> Scheduled(th)
                           /\ Asleep(th)' <=> Asleep(th)
                           /\ Joining(th)' <=> Joining(th)
                           /\ Listening(th)' <=> Listening(th)
    BY <1>1, <2>4 DEF Scheduled, Asleep, Joining, Listening
  <2>7. \A th \in Thread : Where(th)'
    BY <1>2, <2>3, <2>5, <2>6 DEF Where
  <2>8. Once' /\ Own'
    BY <1>1, <1>2, <2>4 DEF Once, Own
  <2>9. JoinsHeard'
    BY <1>2, <2>4, <2>5, JoinsStay
  <2>10. MainsLive'
    BY <1>1, <1>2, <2>3, <2>5, MainsStay DEF procVars
  <2>11. QED BY <1>3, <2>7, <2>8, <2>9, <2>10 DEF ThreadInv, Placed
<1>5. CASE ready = {}
  <2> DEFINE e == [thr |-> <<p, t>>, mask |-> jv]
  <2>1. joinQ' = [joinQ EXCEPT ![p] = Append(joinQ[p], e)] /\ Block(<<p, t>>)
    BY <1>5 DEF Join
  <2>2. e \in Waiter(Tids) /\ e.thr = <<p, t>> /\ e.mask = jv
    BY <1>2 DEF Waiter
  <2>3. \A k \in jv : tstate[<<p, k>>] # "exited" /\ <<p, k>> \in Thread
    BY <1>5 DEF Thread
  <2> HIDE DEF e
  <2>4. /\ NoDup(sched')
        /\ \A th \in Thread : Scheduled(th)' <=> Scheduled(th) /\ th # <<p, t>>
        /\ \A th \in Thread : tstate'[th] = IF th = <<p, t>> THEN "waiting" ELSE tstate[th]
    BY <1>1, <2>1, BlockPlaces
  <2>5. joinQ[p] \in Seq(Waiter(Tids)) /\ NoThreadTwice(joinQ[p]) /\ e.thr \notin WaitersOf(joinQ[p])
    BY <1>2, <2>2, WaiterTypes DEF Once, Joining
  <2>6. NoThreadTwice(Append(joinQ[p], e))
    BY <2>2, <2>5, AppendOnce
  <2>7. \A th : th \in WaitersOf(Append(joinQ[p], e)) <=> th \in WaitersOf(joinQ[p]) \/ th = <<p, t>>
    BY <2>2, <2>5, WaitersAppended
  <2>8. Items(Append(joinQ[p], e)) = Items(joinQ[p]) \cup {e}
    BY <2>2, <2>5, AppendItems
  <2>9. joinQ'[p] = Append(joinQ[p], e) /\ \A q \in Procs \ {p} : joinQ'[q] = joinQ[q]
    BY <1>2, <2>1 DEF TypeOK
  <2>10. ASSUME NEW th \in Thread
         PROVE  /\ Asleep(th)' <=> Asleep(th)
                /\ Listening(th)' <=> Listening(th)
                /\ Joining(th)' <=> Joining(th) \/ th = <<p, t>>
    <3>1. (Asleep(th)' <=> Asleep(th)) /\ (Listening(th)' <=> Listening(th))
        BY <1>1 DEF Asleep, Listening
    <3>2. th[1] \in Procs
        BY DEF Thread
    <3>3. th \in WaitersOf(joinQ'[th[1]]) <=> th \in WaitersOf(joinQ[th[1]]) \/ th = <<p, t>>
        BY <1>2, <2>7, <2>9, <3>2
    <3>4. Joining(th)' <=> Joining(th) \/ th = <<p, t>>
        BY <3>3 DEF Joining, WaitersOf
    <3>5. QED BY <3>1, <3>4
  <2>11. \A th \in Thread : Where(th)'
    BY <1>2, <2>4, <2>10 DEF Where
  <2>12. Once'
    <3>1. \A q \in Procs : NoThreadTwice(joinQ'[q])
        BY <1>2, <2>6, <2>9 DEF Once
    <3>2. QED BY <1>1, <1>2, <2>4, <3>1 DEF Once
  <2>13. Own'
    <3>1. \A q \in Procs, th \in Thread : th \in WaitersOf(joinQ'[q]) => th[1] = q
        BY <1>2, <2>7, <2>9 DEF Own
    <3>2. QED BY <1>1, <1>2, <3>1 DEF Own, WaitersOf
  <2>14. JoinsHeard'
    <3>1. ASSUME NEW q \in Procs, NEW x \in Items(joinQ'[q]), NEW k \in x.mask
          PROVE  <<q, k>> \in Thread /\ tstate[<<q, k>>] # "exited"
      <4>1. CASE x \in Items(joinQ[q])
        BY <1>2, <3>1, <4>1, WaiterTypes DEF JoinsHeard, Thread
      <4>2. CASE q = p /\ x = e
        BY <2>2, <2>3, <3>1, <4>2
      <4>3. QED BY <2>8, <2>9, <3>1, <4>1, <4>2
    <3>2. \A q \in Procs : \A x \in Items(joinQ'[q]) : \A k \in x.mask :
             tstate'[<<q, k>>] # "exited"
        BY <2>4, <3>1
    <3>3. QED BY <3>2 DEF JoinsHeard, Items
  <2>15. MainsLive'
    BY <1>1, <1>2, <2>4, MainsStay DEF procVars
  <2>16. QED BY <1>3, <2>11, <2>12, <2>13, <2>14, <2>15 DEF ThreadInv, Placed
<1>6. QED BY <1>4, <1>5

LEMMA ThreadsSleep ==
    ASSUME IInv, TypeOK', ThreadInv, NEW p \in Procs, NEW t \in Tids, NEW n \in 0 .. MaxSleep,
           Sleep(p, t, n)
    PROVE  ThreadInv'
<1> DEFINE e == [thr |-> <<p, t>>, left |-> n]
<1>1. PICK i : i = SleepPlace(n)
    OBVIOUS
<1>2. /\ Running(p, t) /\ UNCHANGED <<sys, calls, procVars, joinQ, sigQ, sigVars>>
      /\ sleepQ' = PushAt(sleepQ, i, e) /\ Block(<<p, t>>)
    BY <1>1 DEF Sleep
<1>3. /\ TypeOK /\ Items(calls) = {} /\ Once /\ Own /\ (\A th \in Thread : Where(th))
      /\ JoinsHeard /\ SignalsHeard /\ MainsLive
      /\ <<p, t>> \in Thread
      /\ ~Asleep(<<p, t>>) /\ ~Joining(<<p, t>>) /\ ~Listening(<<p, t>>)
    BY <1>2, RunningPlaced DEF Placed
<1>4. e \in Sleeper /\ e.thr = <<p, t>>
    BY <1>3 DEF Sleeper
<1> HIDE DEF e
<1>5. sleepQ \in Seq(Sleeper) /\ NoThreadTwice(sleepQ) /\ e.thr \notin WaitersOf(sleepQ)
    BY <1>3, <1>4 DEF TypeOK, Once, Asleep
<1>6. i \in 1 .. Len(sleepQ) + 1
  <2>1. Sorted(sleepQ) /\ n \in Nat
    BY KernelConstants DEF IInv
  <2>2. QED BY <1>1, <1>5, <2>1, SleepPlaceIs
<1>7. /\ NoThreadTwice(sleepQ')
      /\ \A th : th \in WaitersOf(sleepQ') <=> th \in WaitersOf(sleepQ) \/ th = e.thr
  <2>1. PICK r : r = PushAt(sleepQ, i, e)
    OBVIOUS
  <2>2. /\ NoThreadTwice(r)
        /\ \A th : th \in WaitersOf(r) <=> th \in WaitersOf(sleepQ) \/ th = e.thr
    BY <1>4, <1>5, <1>6, <2>1, PushOnce
  <2>3. QED BY <1>2, <2>1, <2>2
<1>8. /\ NoDup(sched')
      /\ \A th \in Thread : Scheduled(th)' <=> Scheduled(th) /\ th # <<p, t>>
      /\ \A th \in Thread : tstate'[th] = IF th = <<p, t>> THEN "waiting" ELSE tstate[th]
    BY <1>2, BlockPlaces
<1>9. \A th \in Thread : /\ Asleep(th)' <=> Asleep(th) \/ th = <<p, t>>
                         /\ Joining(th)' <=> Joining(th)
                         /\ Listening(th)' <=> Listening(th)
    BY <1>2, <1>4, <1>7 DEF Asleep, Joining, Listening, WaitersOf
<1>10. \A th \in Thread : Where(th)'
    BY <1>3, <1>8, <1>9 DEF Where
<1>11. Once' /\ Own'
    BY <1>2, <1>3, <1>7, <1>8 DEF Once, Own
<1>12. JoinsHeard'
    BY <1>2, <1>3, <1>8, JoinsStay
<1>13. SignalsHeard'
    BY <1>2, <1>3, SignalsStay DEF procVars, sigVars
<1>14. MainsLive'
    BY <1>2, <1>3, <1>8, MainsStay DEF procVars
<1>15. QED BY <1>10, <1>11, <1>12, <1>13, <1>14 DEF ThreadInv, Placed

-----------------------------------------------------------------------------
(* The timer.                                                              *)

(* The sleepers that are due leave the queue for the schedule, which turns *)
(* and has nobody twice.                                                   *)
LEMMA ThreadsTick ==
    ASSUME IInv, TypeOK', ThreadInv, Tick PROVE ThreadInv'
<1>1. /\ TypeOK /\ Items(calls) = {} /\ Once /\ Own /\ (\A th \in Thread : Where(th))
      /\ JoinsHeard /\ SignalsHeard /\ MainsLive /\ Sorted(sleepQ)
    BY NoCalls DEF IInv, Tick, TimerFires, ThreadInv, Placed, Idle, Up
<1>2. /\ sleepQ \in Seq(Sleeper) /\ sched \in Seq(Thread) /\ Len(sleepQ) \in Nat
      /\ NoThreadTwice(sleepQ) /\ NoDup(sched)
    BY <1>1 DEF TypeOK, Once
<1>3. PICK d \in 0 .. Len(sleepQ) : d = Due
    BY <1>1, <1>2, DueIs
<1> DEFINE w == [i \in 1 .. d |-> sleepQ[i].thr]
           z == [i \in 1 .. Len(sleepQ) - d |->
                   [thr |-> sleepQ[d + i].thr, left |-> sleepQ[d + i].left - 1]]
<1>4. /\ tstate' = [th \in Thread |-> IF th \in Items(w) THEN "scheduled" ELSE tstate[th]]
      /\ sched' = IF sched = << >> THEN sched \o w ELSE Advance(sched \o w)
      /\ sleepQ' = z
      /\ UNCHANGED <<sys, calls, procVars, joinQ, sigQ, sigVars>>
    BY <1>3 DEF Tick
<1>5. \A k \in 1 .. Len(sleepQ) : sleepQ[k].thr \in Thread
    BY <1>2, SleepersAre
<1>6. d \in Nat /\ \A k \in 1 .. d : k \in 1 .. Len(sleepQ)
    BY <1>2
<1>7. w \in Seq(Thread) /\ Len(w) = d /\ \A k \in 1 .. d : w[k] = sleepQ[k].thr
    BY <1>5, <1>6
<1>8. /\ Len(z) = Len(sleepQ) - d
      /\ \A k \in 1 .. Len(sleepQ) - d : z[k].thr = sleepQ[d + k].thr /\ d + k \in 1 .. Len(sleepQ)
  <2>1. Len(sleepQ) - d \in Nat /\ \A k \in 1 .. Len(sleepQ) - d : d + k \in 1 .. Len(sleepQ)
    BY <1>2
  <2>2. QED BY <2>1
<1> HIDE DEF w, z
<1>9. NoDup(w)
    BY <1>2, <1>6, <1>7 DEF NoDup, NoThreadTwice
<1>10. NoThreadTwice(z)
  <2>1. ASSUME NEW k \in 1 .. Len(z), NEW l \in 1 .. Len(z), z[k].thr = z[l].thr PROVE k = l
    <3>1. d + k = d + l
        BY <1>2, <1>8, <2>1 DEF NoThreadTwice
    <3>2. QED BY <1>6, <1>8, <3>1
  <2>2. QED BY <2>1 DEF NoThreadTwice
<1>11. \A th : th \in WaitersOf(z) <=> th \in WaitersOf(sleepQ) /\ th \notin Items(w)
  <2>1. ASSUME NEW th, th \in WaitersOf(z) PROVE th \in WaitersOf(sleepQ) /\ th \notin Items(w)
    <3>1. PICK k \in 1 .. Len(z) : th = z[k].thr
        BY <2>1 DEF WaitersOf
    <3>2. th = sleepQ[d + k].thr /\ d + k \in 1 .. Len(sleepQ)
        BY <1>8, <3>1
    <3>3. ASSUME NEW l \in 1 .. d, w[l] = th PROVE FALSE
      <4>1. l = d + k
        BY <1>2, <1>6, <1>7, <3>2, <3>3 DEF NoThreadTwice
      <4>2. QED BY <1>6, <1>8, <4>1
    <3>4. QED BY <1>7, <3>2, <3>3 DEF WaitersOf, Items
  <2>2. ASSUME NEW th, th \in WaitersOf(sleepQ), th \notin Items(w) PROVE th \in WaitersOf(z)
    <3>1. PICK m \in 1 .. Len(sleepQ) : th = sleepQ[m].thr
        BY <2>2 DEF WaitersOf
    <3>2. m \notin 1 .. d
        BY <1>7, <2>2, <3>1 DEF Items
    <3>3. m - d \in 1 .. Len(sleepQ) - d /\ d + (m - d) = m
        BY <1>2, <1>6, <3>2
    <3>4. z[m - d].thr = th /\ m - d \in 1 .. Len(z)
        BY <1>8, <3>1, <3>3
    <3>5. QED BY <3>4 DEF WaitersOf
  <2>3. QED BY <2>1, <2>2
<1>12. \A th \in Items(w) : th \in Thread /\ Asleep(th) /\ ~Scheduled(th) /\ ~Joining(th) /\ ~Listening(th)
  <2>1. \A th \in Items(w) : th \in Thread /\ Asleep(th)
    BY <1>5, <1>6, <1>7 DEF Items, Asleep, WaitersOf
  <2>2. QED BY <1>1, <2>1 DEF Where
<1>13. NoDup(sched') /\ Items(sched') = Items(sched) \cup Items(w)
  <2> DEFINE r == sched \o w
  <2>1. Items(sched) \cap Items(w) = {}
    BY <1>12 DEF Scheduled
  <2>2. r \in Seq(Thread) /\ Items(r) = Items(sched) \cup Items(w) /\ NoDup(r)
    BY <1>2, <1>7, <1>9, <2>1, ConcatItems
  <2>3. sched # << >> => r # << >>
    BY <1>2, <1>7
  <2> HIDE DEF r
  <2>4. CASE sched = << >>
    BY <1>4, <2>2, <2>4 DEF r
  <2>5. CASE sched # << >>
    <3>1. PICK u, h : u = Tail(r) /\ h = Head(r)
        OBVIOUS
    <3>2. u \in Seq(Thread) /\ h \in Items(r) /\ Items(u) = Items(r) \ {h} /\ NoDup(u)
        BY <2>2, <2>3, <2>5, <3>1, TailItems
    <3>3. h \in Thread
        BY <2>2, <3>2 DEF Items
    <3>4. sched' = Append(u, h)
        BY <1>4, <2>5, <3>1 DEF Advance, r
    <3>5. NoDup(sched') /\ Items(sched') = Items(u) \cup {h}
        BY <3>2, <3>3, <3>4, AppendItems
    <3>6. QED BY <2>2, <3>2, <3>5
  <2>6. QED BY <2>4, <2>5
<1>14. \A th \in Thread : /\ Scheduled(th)' <=> Scheduled(th) \/ th \in Items(w)
                          /\ Asleep(th)' <=> Asleep(th) /\ th \notin Items(w)
                          /\ Joining(th)' <=> Joining(th)
                          /\ Listening(th)' <=> Listening(th)
  <2>1. \A th : Scheduled(th)' <=> Scheduled(th) \/ th \in Items(w)
    BY <1>13 DEF Scheduled, Items
  <2>2. \A th : Asleep(th)' <=> Asleep(th) /\ th \notin Items(w)
    BY <1>4, <1>11 DEF Asleep, WaitersOf
  <2>3. QED BY <1>4, <2>1, <2>2 DEF Joining, Listening
<1>15. \A th \in Thread : tstate'[th] = IF th \in Items(w) THEN "scheduled" ELSE tstate[th]
    BY <1>4
<1>16. \A th \in Thread : Where(th)'
    BY <1>1, <1>12, <1>14, <1>15 DEF Where
<1>17. Once' /\ Own'
    BY <1>1, <1>4, <1>10, <1>13 DEF Once, Own
<1>18. JoinsHeard'
    BY <1>1, <1>4, <1>15, JoinsStay
<1>19. SignalsHeard'
    BY <1>1, <1>4, SignalsStay DEF procVars, sigVars
<1>20. MainsLive'
    BY <1>1, <1>4, <1>15, MainsStay DEF procVars
<1>21. QED BY <1>16, <1>17, <1>18, <1>19, <1>20 DEF ThreadInv, Placed

-----------------------------------------------------------------------------
(* The theorems.                                                           *)

LEMMA ThreadsInductive == IInv /\ ThreadInv /\ [Next]_vars => ThreadInv'
<1> SUFFICES ASSUME IInv, ThreadInv, [Next]_vars PROVE ThreadInv'
    OBVIOUS
<1>1. TypeOK'
    BY Inductive DEF IInv
<1>2. CASE UNCHANGED vars
  <2>1. UNCHANGED <<sys, calls, sched, tstate, pstate, mainT, joinQ, sigQ, sleepQ, sigVec, sigAllow>>
    BY <1>2 DEF vars, procVars, sigVars, queueVars
  <2>2. CASE ~Up
    BY <2>1, <2>2 DEF ThreadInv, Up
  <2>3. CASE Up
    <3>1. TypeOK /\ Placed /\ JoinsHeard /\ SignalsHeard /\ MainsLive
        BY <2>3 DEF IInv, ThreadInv
    <3>2. Placed' /\ JoinsHeard' /\ SignalsHeard' /\ MainsLive'
        BY <2>1, <3>1, PlacesStay, JoinsStay, SignalsStay, MainsStay DEF queueVars
    <3>3. QED BY <3>2 DEF ThreadInv
  <2>4. QED BY <2>2, <2>3
<1>3. CASE InKernel
    BY <1>1, <1>3, ThreadsExitProc, ThreadsBuryProc, ThreadsSignalProc, ThreadsResetProc DEF InKernel
<1>4. CASE Tick
    BY <1>1, <1>4, ThreadsTick
<1>5. CASE LockedUp
    BY <1>2, <1>5 DEF LockedUp
<1>6. ASSUME NEW p \in Procs, NEW t \in Tids, Syscall(p, t) PROVE ThreadInv'
  <2>1. CASE Exit(p, t)
    BY <2>1, ThreadsCalls DEF Exit, procVars
  <2>2. CASE Exec(p, t) \/ ExitThread(p, t)
    BY <1>1, <2>2, ThreadsExec, ThreadsExitThread
  <2>3. CASE ReapAny(p, t)
    BY <1>1, <2>3, ThreadsReap
  <2>4. ASSUME NEW c \in Procs, Fork(p, t, c) \/ ReapPid(p, t, c) PROVE ThreadInv'
    BY <1>1, <2>4, ThreadsFork, ThreadsReap
  <2>5. ASSUME NEW q \in Procs, NEW s \in Sigs \cup BadSigs, Signal(p, t, q, s) PROVE ThreadInv'
    BY <2>5, ThreadsCalls DEF Signal, procVars
  <2>6. ASSUME NEW sv \in SUBSET Sigs,
               AllowSignal(p, t, sv) \/ WaitSignal(p, t, sv) \/ ClearSignal(p, t, sv)
        PROVE  ThreadInv'
    BY <1>1, <2>6, ThreadsAllowSignal, ThreadsWaitSignal, ThreadsClearSignal
  <2>7. ASSUME NEW n \in Tids, Spawn(p, t, n) PROVE ThreadInv'
    BY <1>1, <2>7, ThreadsSpawn
  <2>8. ASSUME NEW jv \in SUBSET Tids, Join(p, t, jv) PROVE ThreadInv'
    BY <1>1, <2>8, ThreadsJoin
  <2>9. ASSUME NEW n \in 0 .. MaxSleep, Sleep(p, t, n) PROVE ThreadInv'
    BY <1>1, <2>9, ThreadsSleep
  <2>10. QED BY <1>6, <2>1, <2>2, <2>3, <2>4, <2>5, <2>6, <2>7, <2>8, <2>9 DEF Syscall
<1>7. QED BY <1>2, <1>3, <1>4, <1>5, <1>6 DEF Next

LEMMA PlacesAreOne == TypeOK /\ ThreadInv => OnePlace
<1> SUFFICES ASSUME TypeOK, Up, ThreadInv PROVE ScheduleMatches /\ QueuesDisjoint /\ WaitersMatch
    BY DEF OnePlace
<1>1. Once /\ Own /\ \A th \in Thread : Where(th)
    BY DEF ThreadInv, Placed
<1>2. \A p \in Procs : \A th : th \in WaitersOf(joinQ[p]) \/ th \in WaitersOf(sigQ[p]) => th \in Thread
  <2> TAKE p \in Procs
  <2>1. /\ \A e \in Items(joinQ[p]) : e.thr \in Thread
        /\ \A e \in Items(sigQ[p]) : e.thr \in Thread
    BY WaiterTypes
  <2>2. QED BY <2>1 DEF Items, WaitersOf
<1>3. \A th : th \in WaitersOf(sleepQ) => th \in Thread
    BY SleepersAre DEF TypeOK, WaitersOf
<1>4. \A p \in Procs, th \in Thread :
         /\ th \in WaitersOf(joinQ[p]) <=> Joining(th) /\ th[1] = p
         /\ th \in WaitersOf(sigQ[p]) <=> Listening(th) /\ th[1] = p
    BY <1>1 DEF Own, Joining, Listening
<1>5. \A th \in Thread : th[1] \in Procs /\ (th \in ThreadsOf(th[1]))
    BY DEF Thread, ThreadsOf
<1>6. ScheduleMatches
  <2>1. Items(sched) \subseteq Thread
    BY DEF TypeOK, Items
  <2>2. Items(sched) = InState("scheduled")
    BY <1>1, <2>1 DEF Where, Scheduled, InState
  <2>3. QED BY <1>1, <2>2 DEF ScheduleMatches, Once
<1>7. QueuesDisjoint
  <2>1. ASSUME NEW p \in Procs
        PROVE  /\ WaitersOf(joinQ[p]) \cup WaitersOf(sigQ[p]) \subseteq ThreadsOf(p)
               /\ WaitersOf(joinQ[p]) \cap WaitersOf(sigQ[p]) = {}
               /\ WaitersOf(sleepQ) \cap (WaitersOf(joinQ[p]) \cup WaitersOf(sigQ[p])) = {}
    <3>1. WaitersOf(joinQ[p]) \cup WaitersOf(sigQ[p]) \subseteq ThreadsOf(p)
        BY <1>2, <1>4, <1>5
    <3>2. WaitersOf(joinQ[p]) \cap WaitersOf(sigQ[p]) = {}
        BY <1>1, <1>2, <1>4 DEF Where
    <3>3. WaitersOf(sleepQ) \cap (WaitersOf(joinQ[p]) \cup WaitersOf(sigQ[p])) = {}
        BY <1>1, <1>2, <1>4 DEF Where, Asleep
    <3>4. QED BY <3>1, <3>2, <3>3
  <2>2. QED BY <1>1, <2>1 DEF QueuesDisjoint, Once
<1>8. WaitersMatch
  <2> DEFINE W == WaitersOf(sleepQ) \cup UNION {WaitersOf(joinQ[p]) \cup WaitersOf(sigQ[p]) : p \in Procs}
  <2>1. \A th \in Thread : th \in W <=> Asleep(th) \/ Joining(th) \/ Listening(th)
    BY <1>4, <1>5 DEF Asleep
  <2>2. W \subseteq Thread
    BY <1>2, <1>3
  <2> HIDE DEF W
  <2>3. InState("waiting") = W
    BY <1>1, <2>1, <2>2 DEF Where, InState
  <2>4. QED BY <2>3 DEF WaitersMatch, W
<1>9. QED BY <1>6, <1>7, <1>8

(* Wherever wake-ups, detaches, exits, execs and reaps meet, each thread   *)
(* is in the one list its state says, once.                                *)
THEOREM ThreadsAreInOnePlace == Spec => []OnePlace
<1>1. IInv /\ ThreadInv => OnePlace
    BY PlacesAreOne DEF IInv
<1>2. QED BY <1>1, InitIInv, Inductive, ThreadsStart, ThreadsInductive, PTL DEF Spec

(* Nothing of a process that is not alive runs or can be woken, and every  *)
(* living one keeps a main thread that runs or waits.                      *)
THEOREM TheDeadAreQuiet == Spec => []DeadAreQuiet
<1>1. ASSUME IInv, ThreadInv PROVE DeadAreQuiet
  <2>1. ASSUME Up, NEW th \in Thread, tstate[th] \in {"scheduled", "waiting"}
        PROVE  pstate[th[1]] = "live"
    <3>1. Scheduled(th) \/ Asleep(th) \/ Joining(th) \/ Listening(th)
        BY <1>1, <2>1 DEF ThreadInv, Placed, Where
    <3>2. th[1] \in Procs
        BY DEF Thread
    <3>3. Held(th)
        BY <3>1, <3>2 DEF Held, InQueue, Scheduled, Asleep, Joining, Listening
    <3>4. QED BY <1>1, <2>1, <3>3 DEF IInv, HeldLive, LiveOnly
  <2>2. ASSUME Idle, NEW p \in Procs, pstate[p] = "live"
        PROVE  tstate[<<p, mainT[p]>>] \in {"scheduled", "waiting"}
    BY <1>1, <2>2, NoCalls DEF ThreadInv, MainsLive, Idle, Up
  <2>3. QED BY <2>1, <2>2 DEF DeadAreQuiet
<1>2. QED BY <1>1, InitIInv, Inductive, ThreadsStart, ThreadsInductive, PTL DEF Spec

(* Nobody waits for a thread that has exited and is still to be reaped,    *)
(* whichever joiners overlap and however often thread ids are used again.  *)
THEOREM NoJoinIsMissed == Spec => []NoMissedJoin
<1>1. ThreadInv => NoMissedJoin
    BY DEF ThreadInv, JoinsHeard, NoMissedJoin, Items
<1>2. QED BY <1>1, InitIInv, Inductive, ThreadsStart, ThreadsInductive, PTL DEF Spec

(* Nobody waits for a signal that is pending, once the handler that sent   *)
(* it has returned.                                                        *)
THEOREM NoSignalIsMissed == Spec => []NoMissedSignal
<1>1. ThreadInv => NoMissedSignal
  <2> SUFFICES ASSUME ThreadInv, Idle, NEW p \in Procs, NEW i \in 1 .. Len(sigQ[p])
               PROVE  sigQ[p][i].mask \cap sigVec[p] = {}
    BY DEF NoMissedSignal
  <2>1. SignalsHeard /\ Items(calls) = {} /\ sigQ[p][i] \in Items(sigQ[p])
    BY NoCalls DEF ThreadInv, Idle, Up, Items
  <2>2. QED BY <2>1 DEF SignalsHeard
<1>2. QED BY <1>1, InitIInv, Inductive, ThreadsStart, ThreadsInductive, PTL DEF Spec

(* A living process never keeps a signal pending that it does not allow:   *)
(* the signal, or the change of the mask, has ended it.                    *)
THEOREM PendingIsAllowed == Spec => []PendingAllowed
<1>1. ThreadInv => PendingAllowed
    BY NoCalls DEF ThreadInv, SignalsHeard, PendingAllowed, Idle, Up
<1>2. QED BY <1>1, InitIInv, Inductive, ThreadsStart, ThreadsInductive, PTL DEF Spec

-----------------------------------------------------------------------------
(* The kernel errors that stop the system.                                 *)

LEMMA PanicsAreKnown == IInv /\ KnownPanics /\ [Next]_vars => KnownPanics'
<1> SUFFICES ASSUME IInv, KnownPanics, [Next]_vars, sys' = "panic" PROVE KnownPanics'
    BY DEF KnownPanics
<1>1. CASE UNCHANGED vars
    BY <1>1 DEF vars, procVars, KnownPanics
<1>2. ASSUME UNCHANGED <<calls, sched, pstate, kids, zkids>>,
             \/ calls = << >> /\ (kids[Root] # << >> \/ zkids[Root] # << >>)
                   /\ sched # << >> /\ Head(sched)[1] = Root
             \/ calls # << >> /\ Head(calls).op = "signal" /\ Head(calls).sid \in BadSigs
             \/ calls # << >> /\ Head(calls).op = "bury" /\ pstate[Head(calls).p] = "zombie"
      PROVE  KnownPanics'
    BY <1>2 DEF KnownPanics
<1>3. CASE InKernel
  <2>1. /\ Up /\ calls \in Seq(Frame) /\ calls # << >> /\ TypeOK /\ CallsOK
        /\ RootLives /\ ListsMatch /\ ParentsLive
    BY <1>3 DEF InKernel, ExitProc, BuryProc, SignalProc, ResetProc, IInv, TypeOK, FamilyOK, Up
  <2>2. PICK f \in Frame : f = Head(calls) /\ FrameOK(f) /\ f.p \in Procs
    <3>1. Head(calls) \in Frame /\ Head(calls) \in Items(calls)
        BY <2>1 DEF Items
    <3>2. QED BY <2>1, <3>1, FrameIs DEF CallsOK
  <2>3. CASE BuryProc
    <3>1. f.op = "bury" /\ f.p \notin Items(kids[parent[f.p]]) /\ Panic
        BY <2>1, <2>2, <2>3 DEF BuryProc, Up
    <3>2. pstate[f.p] \in {"free", "live", "zombie"} /\ pstate[f.p] # "free" /\ f.p # Root
        BY <2>1, <2>2, <3>1 DEF TypeOK, FrameOK
    <3>3. pstate[f.p] # "live"
        BY <2>1, <2>2, <3>1, <3>2 DEF ListsMatch, ParentsLive
    <3>4. QED BY <1>2, <2>1, <2>2, <3>1, <3>2, <3>3 DEF Panic, procVars
  <2>4. CASE SignalProc
    <3>1. f.op = "signal" /\ f.sid \notin Sigs /\ Panic
        BY <2>1, <2>2, <2>4 DEF SignalProc, Up
    <3>2. f.sid \in BadSigs
        BY <2>2, <3>1, FrameIs, KernelConstants
    <3>3. QED BY <1>2, <2>1, <2>2, <3>1, <3>2 DEF Panic, procVars
  <2>5. CASE ExitProc \/ ResetProc
    BY <2>1, <2>5 DEF ExitProc, ResetProc, Up
  <2>6. QED BY <1>3, <2>3, <2>4, <2>5 DEF InKernel
<1>4. CASE Tick
    BY <1>4 DEF Tick, TimerFires, Idle
<1>5. CASE LockedUp
    BY <1>1, <1>5 DEF LockedUp
<1>6. ASSUME NEW p \in Procs, NEW t \in Tids, Syscall(p, t) PROVE KnownPanics'
  <2>1. CASE Exec(p, t)
    <3>1. /\ Idle /\ sched # << >> /\ Head(sched) = <<p, t>>
          /\ p = Root /\ (kids[p] # << >> \/ zkids[p] # << >>) /\ Panic
        BY <2>1 DEF Exec, Running, Idle
    <3>2. Head(sched)[1] = Root
        BY <3>1
    <3>3. QED BY <1>2, <3>1, <3>2 DEF Idle, Panic, procVars
  <2>2. ASSUME NEW c \in Procs, ReapPid(p, t, c) PROVE KnownPanics'
    <3>1. Idle /\ pstate[c] = "zombie" /\ parent[c] = p
        BY <2>2 DEF ReapPid, Running
    <3>2. c \in Items(zkids[p])
        BY <3>1 DEF Idle, IInv, FamilyOK, Up, ListsMatch
    <3>3. sys' = sys
        BY <2>2, <3>2 DEF ReapPid, Reclaim
    <3>4. QED BY <3>1, <3>3 DEF Idle
  <2>3. CASE Exit(p, t) \/ ReapAny(p, t) \/ ExitThread(p, t)
    BY <2>3 DEF Exit, ReapAny, ExitThread, Reclaim, Running, Idle
  <2>4. ASSUME NEW c \in Procs, Fork(p, t, c) PROVE FALSE
    BY <2>4 DEF Fork, Running, Idle
  <2>5. ASSUME NEW q \in Procs, NEW s \in Sigs \cup BadSigs, Signal(p, t, q, s) PROVE FALSE
    BY <2>5 DEF Signal, Running, Idle
  <2>6. ASSUME NEW sv \in SUBSET Sigs,
               AllowSignal(p, t, sv) \/ WaitSignal(p, t, sv) \/ ClearSignal(p, t, sv)
        PROVE  FALSE
    BY <2>6 DEF AllowSignal, WaitSignal, ClearSignal, Running, Idle
  <2>7. ASSUME NEW n \in Tids, Spawn(p, t, n) PROVE FALSE
    BY <2>7 DEF Spawn, Running, Idle
  <2>8. ASSUME NEW jv \in SUBSET Tids, Join(p, t, jv) PROVE FALSE
    BY <2>8 DEF Join, Running, Idle
  <2>9. ASSUME NEW n \in 0 .. MaxSleep, Sleep(p, t, n) PROVE FALSE
    BY <2>9 DEF Sleep, Running, Idle
  <2>10. QED BY <1>6, <2>1, <2>2, <2>3, <2>4, <2>5, <2>6, <2>7, <2>8, <2>9 DEF Syscall
<1>7. QED BY <1>1, <1>3, <1>4, <1>5, <1>6 DEF Next

(* Only three kernel errors can stop the system: a signal id out of range, *)
(* a zombie made to exit again, and an exec of the root with children.     *)
THEOREM OnlyKnownPanics == Spec => []KnownPanics
<1>1. Init => KnownPanics
    BY DEF Init, KnownPanics
<1>2. QED BY <1>1, InitIInv, Inductive, PanicsAreKnown, PTL DEF Spec

-----------------------------------------------------------------------------
(* The loop of sc_proc_reap_single.                                        *)

(* One thread of a process at a time is in the loop.                       *)
OneReaper ==
    \A p \in Procs : \A t, u \in Tids :
        at[<<p, t>>] # User /\ at[<<p, u>>] # User => t = u

Places == [next : {"user", "reap", "wait", "clear"}, child : Procs \cup {NULL}]

(* A thread that will sleep next, or sleeps, unless a signal is pending or *)
(* about to be.                                                            *)
Ready(th) == at[th].next = "wait" \/ Listening(th)

Told(p) == CHLD \in sigVec[p] \/ Call("signal", p) \in Items(calls)

LoopsListen ==
    \A p \in Procs : \A e \in Items(sigQ[p]) : e.mask = {CHLD} /\ at[e.thr].next = "reap"

ZombiesTold == \A th \in Thread : Ready(th) => Wanted(th[1], at[th].child) = {} \/ Told(th[1])

ReaperInv == at \in [Thread -> Places] /\ (Up => LoopsListen /\ ZombiesTold)

KernelInv == IInv /\ ThreadInv

LEMMA ReapersAreKernel == [ReapersNext]_allVars => [Next]_vars
<1> SUFFICES ASSUME ReapersNext, ~UNCHANGED vars PROVE Next
    BY DEF allVars
<1>1. CASE Others
  <2>1. ASSUME NEW p \in Procs, NEW t \in Tids, OtherCall(p, t) PROVE Syscall(p, t)
    BY <2>1 DEF OtherCall, Syscall
  <2>2. QED BY <1>1, <2>1 DEF Others, Next
<1>2. ASSUME NEW p \in Procs, NEW t \in Tids,
             \/ \E c \in Procs \cup {NULL} : Reaped(p, t, c) \/ NotYet(p, t, c) \/ NoChild(p, t, c)
             \/ WaitChild(p, t) \/ Clear(p, t)
      PROVE  Next
  <2>1. {CHLD} \in SUBSET Sigs
    BY KernelConstants
  <2>2. Syscall(p, t)
    BY <1>2, <2>1 DEF Reaped, NotYet, NoChild, WaitChild, Clear, Syscall
  <2>3. QED BY <2>2 DEF Next
<1>3. QED BY <1>1, <1>2 DEF ReapersNext

(* What the list of those who wait says of the threads that do.            *)
LEMMA ListenersAre ==
    ASSUME TypeOK, Placed, NEW p \in Procs
    PROVE  /\ \A e \in Items(sigQ[p]) : /\ e.thr \in Thread /\ e.thr[1] = p
                                        /\ Listening(e.thr) /\ tstate[e.thr] = "waiting"
           /\ \A th \in Thread : th[1] = p /\ Listening(th) =>
                  \E e \in Items(sigQ[p]) : e.thr = th
<1>1. \A e \in Items(sigQ[p]) : e.thr \in Thread /\ e.thr \in WaitersOf(sigQ[p])
    BY WaiterTypes
<1>2. ASSUME NEW e \in Items(sigQ[p])
      PROVE  /\ e.thr \in Thread /\ e.thr[1] = p
             /\ Listening(e.thr) /\ tstate[e.thr] = "waiting"
  <2>1. e.thr \in Thread /\ e.thr[1] = p
    BY <1>1 DEF Placed, Own
  <2>2. Listening(e.thr)
    BY <1>1, <2>1 DEF Listening
  <2>3. QED BY <2>1, <2>2 DEF Placed, Where
<1>3. ASSUME NEW th \in Thread, th[1] = p, Listening(th)
      PROVE  \E e \in Items(sigQ[p]) : e.thr = th
    BY <1>3 DEF Listening, WaitersOf, Items
<1>4. QED BY <1>2, <1>3

(* The invariant after a step that lets nobody begin to wait for a zombie  *)
(* there is, and tells of each new one.                                    *)
LEMMA LoopsGoOn ==
    ASSUME ReaperInv, Up, FamilyOK', at' \in [Thread -> Places],
           \A p \in Procs : \A e \in Items(sigQ'[p]) :
               \/ e \in Items(sigQ[p]) /\ at'[e.thr] = at[e.thr]
               \/ e.mask = {CHLD} /\ at'[e.thr].next = "reap",
           \A th \in Thread : Ready(th)' =>
               \/ Ready(th) /\ at'[th] = at[th]
               \/ Wanted(th[1], at[th].child)' = {},
           \A p \in Procs, z \in Procs :
               pstate'[z] = "zombie" /\ parent'[z] = p =>
                   \/ pstate[z] = "zombie" /\ parent[z] = p
                   \/ Told(p)',
           \A th \in Thread :
               Told(th[1]) => Told(th[1])' \/ ~Ready(th)' \/ pstate'[th[1]] # "live"
    PROVE  ReaperInv'
<1>1. LoopsListen'
  <2>1. ASSUME NEW p \in Procs, NEW e \in Items(sigQ'[p])
        PROVE  e.mask = {CHLD} /\ at'[e.thr].next = "reap"
    BY <2>1 DEF ReaperInv, LoopsListen
  <2>2. QED BY <2>1 DEF LoopsListen, Items
<1>2. ASSUME NEW th \in Thread, Ready(th)', ~Told(th[1])', Up'
      PROVE  Wanted(th[1], at[th].child)' = {}
  <2>1. CASE pstate'[th[1]] # "live"
    <3>1. \A z \in Procs : ~(pstate'[z] = "zombie" /\ parent'[z] = th[1])
        BY <1>2, <2>1 DEF FamilyOK, RootLives, ParentsLive
    <3>2. QED BY <3>1 DEF Wanted
  <2>2. CASE pstate'[th[1]] = "live" /\ Ready(th) /\ at'[th] = at[th]
    <3>1. ~Told(th[1]) /\ th[1] \in Procs
        BY <1>2, <2>2 DEF Thread
    <3>2. Wanted(th[1], at[th].child) = {}
        BY <2>2, <3>1 DEF ReaperInv, ZombiesTold
    <3>3. \A z \in Procs : pstate'[z] = "zombie" /\ parent'[z] = th[1] =>
              pstate[z] = "zombie" /\ parent[z] = th[1]
        BY <1>2, <3>1
    <3>4. QED BY <2>2, <3>2, <3>3 DEF Wanted
  <2>3. QED BY <1>2, <2>1, <2>2
<1>3. Up' => ZombiesTold'
    BY <1>2 DEF ZombiesTold
<1>4. QED BY <1>1, <1>3 DEF ReaperInv

-----------------------------------------------------------------------------
(* What the steps of the kernel tell the loops.                            *)

AtAfter(th) == IF tstate'[th] \in {"scheduled", "waiting"} /\ ~Begins(th) THEN at[th] ELSE User

Tells ==
    /\ \A p \in Procs : Items(sigQ'[p]) \subseteq Items(sigQ[p])
    /\ \A p \in Procs, z \in Procs :
          pstate'[z] = "zombie" /\ parent'[z] = p =>
              \/ pstate[z] = "zombie" /\ parent[z] = p
              \/ Told(p)'
    /\ \A th \in Thread : Told(th[1]) => Told(th[1])' \/ ~Ready(th)'
    /\ \A th \in Thread : Listening(th)' => ~Begins(th)

LEMMA TellsIsEnough ==
    ASSUME ReaperInv, Up, TypeOK, TypeOK', Placed, Placed', FamilyOK', Tells,
           at' = [th \in Thread |-> AtAfter(th)]
    PROVE  ReaperInv'
<1>1. at' \in [Thread -> Places] /\ \A th \in Thread : at'[th] = AtAfter(th)
    BY DEF ReaperInv, Places, User, AtAfter
<1>2. ASSUME NEW th \in Thread, Listening(th)'
      PROVE  Listening(th) /\ at'[th] = at[th]
  <2>1. th[1] \in Procs
    BY DEF Thread
  <2>2. PICK e \in Items(sigQ'[th[1]]) : e.thr = th
    BY <1>2 DEF Listening, WaitersOf, Items
  <2>3. e \in Items(sigQ[th[1]])
    BY <2>1, <2>2 DEF Tells
  <2>4. Listening(th)
    BY <2>2, <2>3 DEF Listening, WaitersOf, Items
  <2>5. tstate'[th] = "waiting" /\ ~Begins(th)
    BY <1>2 DEF Placed, Where, Tells
  <2>6. QED BY <1>1, <2>4, <2>5 DEF AtAfter
<1>3. ASSUME NEW th \in Thread, Ready(th)'
      PROVE  Ready(th) /\ at'[th] = at[th]
  <2>1. CASE Listening(th)'
    BY <1>2, <2>1 DEF Ready
  <2>2. CASE at'[th].next = "wait"
    <3>1. at'[th] # User
        BY <2>2 DEF User
    <3>2. at'[th] = at[th]
        BY <1>1, <3>1 DEF AtAfter
    <3>3. QED BY <2>2, <3>2 DEF Ready
  <2>3. QED BY <1>3, <2>1, <2>2 DEF Ready
<1>4. ASSUME NEW p \in Procs, NEW e \in Items(sigQ'[p])
      PROVE  e \in Items(sigQ[p]) /\ at'[e.thr] = at[e.thr]
  <2>1. e \in Items(sigQ[p])
    BY DEF Tells
  <2>2. e.thr \in Thread
    BY <2>1, ListenersAre
  <2>3. e.thr[1] = p
    BY <2>1, ListenersAre
  <2>4. Listening(e.thr)'
    BY <2>3 DEF Listening, WaitersOf, Items
  <2>5. QED BY <1>2, <2>1, <2>2, <2>4
<1>5. QED BY <1>1, <1>3, <1>4, LoopsGoOn DEF Tells

(* A call that leaves the signals and the zombies alone.                   *)
LEMMA QuietTells ==
    ASSUME Idle, TypeOK, UNCHANGED <<sigQ, sigVec>>,
           \A z \in Procs : pstate'[z] = "zombie" => pstate[z] = "zombie" /\ parent'[z] = parent[z]
    PROVE  Tells
<1>1. Items(calls) = {} /\ calls = << >>
    BY NoCalls DEF Idle
<1>2. \A th \in Thread : ~Begins(th)
    BY <1>1 DEF Begins
<1>3. \A p : Told(p) => Told(p)'
    BY <1>1 DEF Told
<1>4. QED BY <1>2, <1>3 DEF Tells, Items

LEMMA OrphansTold ==
    ASSUME TypeOK, FamilyOK, Up, NEW p \in Procs, NEW r, Abandon(p),
           Items(OrphanSignal(p)) \subseteq Items(calls')
    PROVE  \A q \in Procs, z \in Procs :
              pstate'[z] = "zombie" /\ parent'[z] = q =>
                  \/ pstate[z] = "zombie" /\ parent[z] = q
                  \/ Told(q)'
<1>1. ASSUME NEW z \in Procs, pstate'[z] = "zombie", parent'[z] # parent[z]
      PROVE  Told(Root)' /\ parent'[z] = Root
  <2>1. pstate[z] = "zombie" /\ z \in Items(kids[p]) \cup Items(zkids[p]) /\ parent'[z] = Root
    BY <1>1 DEF Abandon, TypeOK
  <2>2. z \in Items(zkids[p])
    BY <2>1 DEF FamilyOK, ListsMatch
  <2>3. zkids[p] # << >>
    BY <2>2 DEF Items
  <2>4. Call("signal", Root) \in Items(OrphanSignal(p))
    BY <2>3 DEF OrphanSignal, Items
  <2>5. QED BY <2>1, <2>4 DEF Told, Call, Items
<1>2. UNCHANGED pstate
    BY DEF Abandon
<1>3. QED BY <1>1, <1>2

LEMMA ExitTells ==
    ASSUME IInv, TypeOK', Placed, ExitProc, Up' PROVE Tells
<1>1. /\ calls \in Seq(Frame) /\ calls # << >> /\ TypeOK /\ Up /\ FamilyOK
      /\ Head(calls).op = "exit" /\ Head(calls) \in Frame
    BY DEF IInv, TypeOK, ExitProc, Up
<1>2. PICK p \in Procs : p = Head(calls).p
    BY <1>1, FrameIs
<1>3. /\ DetachFromQueues(ThreadsOf(p)) /\ Abandon(p) /\ UNCHANGED sigVec
      /\ calls' = OrphanSignal(p) \o << Call("bury", p) >> \o Tail(calls)
    BY <1>2 DEF ExitProc, Up, sigVars
<1>4. \A q \in Procs : Items(sigQ'[q]) \subseteq Items(sigQ[q])
    BY <1>1, <1>3, DetachPlaces DEF Placed
<1> DEFINE a == OrphanSignal(p) \o << Call("bury", p) >>
<1>5. OrphanSignal(p) \in Seq(Frame) /\ << Call("bury", p) >> \in Seq(Frame)
  <2>1. Call("bury", p) \in Frame /\ Call("signal", Root) \in Frame
    BY KernelConstants DEF Call, Frame
  <2>2. QED BY <2>1 DEF OrphanSignal
<1>6. a \in Seq(Frame) /\ Items(OrphanSignal(p)) \subseteq Items(a)
  <2>1. a \in Seq(Frame) /\ Items(a) = Items(OrphanSignal(p)) \cup Items(<< Call("bury", p) >>)
    BY <1>5, ConcatItems, ZenonT(60)
  <2>2. QED BY <2>1
<1>7. calls' = a \o Tail(calls)
  <2>1. Tail(calls) \in Seq(Frame)
    BY <1>1
  <2>2. QED BY <1>3, <1>5, <2>1
<1> HIDE DEF a
<1>8. /\ \A f \in Items(calls) : f # Head(calls) => f \in Items(calls')
      /\ Items(OrphanSignal(p)) \subseteq Items(calls')
    BY <1>1, <1>6, <1>7, CallsLeft
<1>9. \A q : Call("signal", q) # Head(calls)
    BY <1>1 DEF Call
<1>10. \A q : Told(q) => Told(q)'
    BY <1>3, <1>8, <1>9 DEF Told, Call, Items
<1>11. \A q \in Procs, z \in Procs :
          pstate'[z] = "zombie" /\ parent'[z] = q =>
              \/ pstate[z] = "zombie" /\ parent[z] = q
              \/ Told(q)'
    BY <1>1, <1>3, <1>8, OrphansTold
<1>12. \A th \in Thread : ~Begins(th)
    BY <1>1 DEF Begins
<1>13. QED BY <1>4, <1>10, <1>11, <1>12 DEF Tells

LEMMA BuryTells ==
    ASSUME IInv, BuryProc, Up' PROVE Tells
<1>1. /\ calls \in Seq(Frame) /\ calls # << >> /\ TypeOK /\ Up /\ FamilyOK
      /\ Head(calls).op = "bury" /\ Head(calls) \in Frame
  <2>1. calls # << >> /\ Head(calls).op = "bury" /\ Up
    BY DEF BuryProc, Up
  <2>2. TypeOK /\ FamilyOK
    BY DEF IInv
  <2>3. calls \in Seq(Frame)
    BY <2>2 DEF TypeOK
  <2>4. QED BY <2>1, <2>2, <2>3
<1>2. PICK p \in Procs : p = Head(calls).p
    BY <1>1, FrameIs
<1>3. /\ pstate' = [pstate EXCEPT ![p] = "zombie"]
      /\ calls' = << Call("signal", parent[p]) >> \o Tail(calls)
      /\ UNCHANGED <<parent, sigQ, sigVec>> /\ p \in Items(kids[parent[p]])
    BY <1>2 DEF BuryProc, Up, Panic, queueVars, sigVars
<1>4. parent[p] \in Procs
  <2>1. p # Root /\ pstate[p] # "free"
    <3>1. Head(calls) \in Items(calls)
        BY <1>1 DEF Items
    <3>2. QED BY <1>1, <1>2, <3>1 DEF IInv, CallsOK, FrameOK
  <2>2. QED BY <1>1, <2>1 DEF FamilyOK, ParentsLive
<1>5. << Call("signal", parent[p]) >> \in Seq(Frame)
      /\ Call("signal", parent[p]) \in Items(<< Call("signal", parent[p]) >>)
  <2>1. Call("signal", parent[p]) \in Frame
    BY <1>4, KernelConstants DEF Call, Frame
  <2>2. QED BY <2>1, OneCall
<1>6. /\ \A f \in Items(calls) : f # Head(calls) => f \in Items(calls')
      /\ Call("signal", parent[p]) \in Items(calls')
    BY <1>1, <1>3, <1>5, CallsLeft
<1>7. \A q : Call("signal", q) # Head(calls)
    BY <1>1 DEF Call
<1>8. \A q : Told(q) => Told(q)'
    BY <1>3, <1>6, <1>7 DEF Told, Call, Items
<1>9. Told(parent[p])'
    BY <1>6, <1>3 DEF Told, Call, Items
<1>10. \A q \in Procs, z \in Procs :
          pstate'[z] = "zombie" /\ parent'[z] = q =>
              \/ pstate[z] = "zombie" /\ parent[z] = q
              \/ Told(q)'
    BY <1>1, <1>3, <1>9 DEF TypeOK
<1>11. \A th \in Thread : ~Begins(th)
    BY <1>1 DEF Begins
<1>12. QED BY <1>3, <1>8, <1>10, <1>11 DEF Tells, Items

(* Whoever a signal wakes was the only thread of its process in the loop.  *)
LEMMA SignalTells ==
    ASSUME IInv, TypeOK', Placed, Placed', ReaperInv, OneReaper, SignalProc, Up',
           at' = [th \in Thread |-> AtAfter(th)]
    PROVE  Tells
<1>1. /\ calls \in Seq(Frame) /\ calls # << >> /\ TypeOK /\ Up
      /\ Head(calls).op = "signal" /\ Head(calls) \in Frame
  <2>1. calls # << >> /\ TypeOK /\ Up /\ Head(calls).op = "signal"
    BY DEF IInv, SignalProc, Up
  <2>2. calls \in Seq(Frame)
    BY <2>1 DEF TypeOK
  <2>3. QED BY <2>1, <2>2
<1>2. PICK q \in Procs : q = Head(calls).p
    BY <1>1, FrameIs
<1>3. PICK s : s = Head(calls).sid
    OBVIOUS
<1> DEFINE w == Waits(sigQ[q], s)
<1>4. /\ s \in Sigs /\ UNCHANGED procVars
      /\ calls' = Tail(calls) \/ calls' = << Call("exit", q) >> \o Tail(calls)
  <2>1. s \in Sigs
    <3>1. SUFFICES ASSUME s \notin Sigs PROVE FALSE
        OBVIOUS
    <3>2. s \notin sigVec[q]
        BY <1>1, <3>1 DEF TypeOK
    <3>3. sys' = "panic"
        BY <1>2, <1>3, <3>1, <3>2 DEF SignalProc, Panic
    <3>4. QED BY <3>3 DEF Up
  <2>2. QED BY <1>2, <1>3, <2>1 DEF SignalProc
<1>5. << Call("exit", q) >> \in Seq(Frame)
    BY <1>2 DEF Call, Frame
<1>6. \A f \in Items(calls) : f # Head(calls) => f \in Items(calls')
    BY <1>1, <1>4, <1>5, CallsLeft
<1>7. \A th \in Thread : ~Begins(th)
    BY <1>1 DEF Begins
<1>8. ASSUME UNCHANGED sigQ, \A p \in Procs : sigVec[p] \subseteq sigVec'[p], s \in sigVec'[q]
      PROVE  Tells
  <2>1. \A p \in Procs : Told(p) => Told(p)'
    <3>1. ASSUME NEW p \in Procs, Call("signal", p) = Head(calls) PROVE CHLD \in sigVec'[p]
        BY <1>2, <1>3, <1>8, <3>1 DEF Call
    <3>2. QED BY <1>6, <1>8, <3>1 DEF Told, Call, Items
  <2>2. \A th \in Thread : th[1] \in Procs
    BY DEF Thread
  <2>3. QED BY <1>4, <1>7, <1>8, <2>1, <2>2 DEF Tells, Items, procVars
<1>9. CASE s \in sigVec[q]
  <2>1. UNCHANGED <<sigQ, sigVec>>
    BY <1>2, <1>3, <1>4, <1>9 DEF SignalProc, queueVars, sigVars
  <2>2. QED BY <1>8, <1>9, <2>1
<1>10. CASE s \notin sigVec[q] /\ (s \notin sigAllow[q] \/ w = {})
  <2>1. UNCHANGED sigQ /\ sigVec' = [sigVec EXCEPT ![q] = @ \cup {s}]
    BY <1>2, <1>3, <1>4, <1>10 DEF SignalProc, queueVars, sigVars
  <2>2. sigVec'[q] = sigVec[q] \cup {s} /\ \A p \in Procs \ {q} : sigVec'[p] = sigVec[p]
    BY <1>1, <2>1 DEF TypeOK
  <2>3. QED BY <1>8, <2>1, <2>2
<1>11. CASE s \notin sigVec[q] /\ s \in sigAllow[q] /\ w # {}
  <2>1. PICK i : i = Least(w)
    OBVIOUS
  <2>2. PICK j : j = sigQ[q][i].thr
    OBVIOUS
  <2>3. /\ sigQ' = [sigQ EXCEPT ![q] = PopAt(@, i)]
        /\ sched' = Append(sched, sigQ[q][i].thr)
        /\ tstate' = [tstate EXCEPT ![sigQ[q][i].thr] = "scheduled"]
        /\ UNCHANGED <<sigVec, joinQ, sleepQ>> /\ calls' = Tail(calls)
    BY <1>2, <1>3, <1>4, <1>11, <2>1 DEF SignalProc, sigVars
  <2>4. \A p \in Procs : Items(sigQ'[p]) \subseteq Items(sigQ[p])
    BY <1>1, <1>11, <2>1, <2>3, SignalWakes
  <2>5. i \in 1 .. Len(sigQ[q]) /\ sigQ[q][i] \in Items(sigQ[q])
    BY <1>1, <1>11, <2>1, PopWaiter DEF Items
  <2>6. /\ j \in Thread /\ j[1] = q /\ at[j].next = "reap" /\ ~Listening(j)'
    <3>1. j \in Thread /\ j[1] = q /\ at[j].next = "reap"
        BY <1>1, <2>2, <2>5, ListenersAre DEF ReaperInv, LoopsListen
    <3>2. tstate'[j] = "scheduled"
        BY <1>1, <2>2, <2>3, <3>1 DEF TypeOK
    <3>3. QED BY <3>1, <3>2 DEF Placed, Where
  <2>7. ASSUME NEW th \in Thread, th[1] = q PROVE ~Ready(th)'
    <3>1. CASE th = j
      <4>1. at'[j] \in {at[j], User}
        BY <2>6 DEF AtAfter
      <4>2. QED BY <2>6, <3>1, <4>1 DEF Ready, User
    <3>2. CASE th # j
      <4>1. at[th] = User
        <5>1. \A u \in Thread : u[1] = q => u = <<q, u[2]>> /\ u[2] \in Tids
            BY DEF Thread
        <5>2. at[j] # User
            BY <2>6 DEF User
        <5>3. QED BY <2>6, <2>7, <3>2, <5>1, <5>2 DEF OneReaper
      <4>2. at'[th] = User
        BY <4>1 DEF AtAfter
      <4>3. ~Listening(th)'
        <5>1. SUFFICES ASSUME Listening(th)' PROVE FALSE
            OBVIOUS
        <5>2. PICK e \in Items(sigQ'[q]) : e.thr = th
            BY <2>7, <5>1 DEF Listening, WaitersOf, Items
        <5>3. at[th].next = "reap"
            BY <1>1, <2>4, <5>2 DEF ReaperInv, LoopsListen
        <5>4. QED BY <4>1, <5>3 DEF User
      <4>4. QED BY <4>2, <4>3 DEF Ready, User
    <3>3. QED BY <3>1, <3>2
  <2>8. ASSUME NEW p \in Procs, p # q, Told(p) PROVE Told(p)'
    <3>1. Call("signal", p) # Head(calls)
        BY <1>2, <2>8 DEF Call
    <3>2. QED BY <1>6, <2>3, <2>8, <3>1 DEF Told, Call, Items
  <2>9. \A th \in Thread : Told(th[1]) => Told(th[1])' \/ ~Ready(th)'
    BY <2>7, <2>8 DEF Thread
  <2>10. QED BY <1>4, <1>7, <2>4, <2>9 DEF Tells, procVars
<1>12. QED BY <1>9, <1>10, <1>11

LEMMA ResetTells ==
    ASSUME IInv, TypeOK', Placed, ResetProc, Up',
           at' = [th \in Thread |-> AtAfter(th)]
    PROVE  Tells
<1>1. /\ calls \in Seq(Frame) /\ calls # << >> /\ TypeOK /\ Up
      /\ Head(calls).op = "reset" /\ Head(calls) \in Frame
  <2>1. calls # << >> /\ TypeOK /\ Up /\ Head(calls).op = "reset"
    BY DEF IInv, ResetProc, Up
  <2>2. calls \in Seq(Frame)
    BY <2>1 DEF TypeOK
  <2>3. QED BY <2>1, <2>2
<1>2. PICK p \in Procs : p = Head(calls).p
    BY <1>1, FrameIs
<1>3. /\ DetachFromQueues(ThreadsOf(p)) /\ calls' = Tail(calls) /\ UNCHANGED procVars
      /\ sigVec' = [sigVec EXCEPT ![p] = {}]
    BY <1>2 DEF ResetProc
<1>4. /\ \A q \in Procs : Items(sigQ'[q]) \subseteq Items(sigQ[q])
      /\ \A th \in Thread : Listening(th)' <=> Listening(th) /\ th[1] # p
    BY <1>1, <1>3, DetachPlaces DEF Placed
<1>5. \A f \in Items(calls) : f # Head(calls) => f \in Items(calls')
  <2>1. << >> \in Seq(Frame)
    OBVIOUS
  <2>2. QED BY <1>1, <1>3, <2>1, CallsLeft
<1>6. ASSUME NEW q \in Procs, q # p, Told(q) PROVE Told(q)'
  <2>1. Call("signal", q) # Head(calls)
    BY <1>1 DEF Call
  <2>2. sigVec'[q] = sigVec[q]
    BY <1>1, <1>3, <1>6 DEF TypeOK
  <2>3. QED BY <1>5, <1>6, <2>1, <2>2 DEF Told, Call, Items
<1>7. ASSUME NEW th \in Thread, th[1] = p PROVE ~Ready(th)'
  <2>1. Begins(th)
    BY <1>1, <1>2, <1>7 DEF Begins
  <2>2. at'[th] = User
    BY <2>1 DEF AtAfter
  <2>3. QED BY <1>4, <1>7, <2>2 DEF Ready, User
<1>8. \A th \in Thread : Listening(th)' => ~Begins(th)
    BY <1>2, <1>4 DEF Begins
<1>9. \A th \in Thread : Told(th[1]) => Told(th[1])' \/ ~Ready(th)'
    BY <1>6, <1>7 DEF Thread
<1>10. QED BY <1>3, <1>4, <1>8, <1>9 DEF Tells, procVars

LEMMA ExecTells ==
    ASSUME IInv, NEW p \in Procs, NEW t \in Tids, Exec(p, t), Up' PROVE Tells
<1>1. Idle /\ Up /\ TypeOK /\ FamilyOK /\ calls = << >> /\ Items(calls) = {}
    BY RunningIs, NoCalls DEF Exec, Idle
<1>2. UNCHANGED <<sigQ, sigVec>>
    BY DEF Exec, Panic, queueVars, sigVars
<1>3. CASE UNCHANGED procVars
    BY <1>1, <1>2, <1>3, QuietTells DEF procVars
<1>4. CASE Abandon(p) /\ calls' = OrphanSignal(p) \o << Call("reset", p) >>
  <2>1. Items(OrphanSignal(p)) \subseteq Items(calls')
    <3>1. OrphanSignal(p) \in Seq(Frame) /\ << Call("reset", p) >> \in Seq(Frame)
      <4>1. Call("reset", p) \in Frame /\ Call("signal", Root) \in Frame
        BY KernelConstants DEF Call, Frame
      <4>2. QED BY <4>1 DEF OrphanSignal
    <3>2. Items(calls') = Items(OrphanSignal(p)) \cup Items(<< Call("reset", p) >>)
      <4>1. \A a, b \in Seq(Frame) : Items(a \o b) = Items(a) \cup Items(b)
        BY ConcatItems
      <4>2. Items(OrphanSignal(p) \o << Call("reset", p) >>) =
                Items(OrphanSignal(p)) \cup Items(<< Call("reset", p) >>)
        BY <3>1, <4>1
      <4>3. QED BY <1>4, <4>2 DEF Items
    <3>3. QED BY <3>2
  <2>2. \A q \in Procs, z \in Procs :
          pstate'[z] = "zombie" /\ parent'[z] = q =>
              \/ pstate[z] = "zombie" /\ parent[z] = q
              \/ Told(q)'
    BY <1>1, <1>4, <2>1, OrphansTold
  <2>3. \A q : Told(q) => Told(q)'
    BY <1>1, <1>2 DEF Told
  <2>4. \A th \in Thread : ~Begins(th)
    BY <1>1 DEF Begins
  <2>5. QED BY <1>2, <2>2, <2>3, <2>4 DEF Tells, Items
<1>5. QED BY <1>3, <1>4 DEF Exec, Up, Panic

LEMMA ForkTells ==
    ASSUME IInv, NEW p \in Procs, NEW t \in Tids, NEW c \in Procs, Fork(p, t, c) PROVE Tells
<1>1. Idle /\ TypeOK
    BY RunningIs DEF Fork
<1>2. \A z \in Procs : pstate'[z] = "zombie" => pstate[z] = "zombie" /\ parent'[z] = parent[z]
    BY <1>1 DEF Fork, TypeOK
<1>3. QED BY <1>1, <1>2, QuietTells DEF Fork, queueVars, sigVars

LEMMA OthersTell ==
    ASSUME KernelInv, KernelInv', ReaperInv, OneReaper, Others, Up' PROVE Tells
<1>1. at' = [th \in Thread |-> AtAfter(th)]
    BY DEF Others, AtAfter
<1>2. /\ Up => Placed
      /\ Placed' /\ TypeOK' /\ TypeOK /\ IInv
    BY DEF KernelInv, ThreadInv, IInv
<1>3. CASE InKernel
  <2>1. Up
    BY <1>3 DEF InKernel, ExitProc, BuryProc, SignalProc, ResetProc, Up
  <2>2. QED BY <1>1, <1>2, <1>3, <2>1, ExitTells, BuryTells, SignalTells, ResetTells DEF InKernel
<1>4. CASE Tick
    BY <1>2, <1>4, QuietTells DEF Tick, TimerFires, procVars, sigVars
<1>5. ASSUME NEW p \in Procs, NEW t \in Tids, OtherCall(p, t) PROVE Tells
  <2>1. CASE Exec(p, t)
    BY <1>2, <2>1, ExecTells
  <2>2. ASSUME NEW c \in Procs, Fork(p, t, c) PROVE Tells
    BY <1>2, <2>2, ForkTells
  <2>3. ASSUME \/ Exit(p, t) \/ ExitThread(p, t)
               \/ \E q \in Procs, s \in Sigs : Signal(p, t, q, s)
               \/ \E sv \in SUBSET Sigs : AllowSignal(p, t, sv)
               \/ \E n \in Tids : Spawn(p, t, n)
               \/ \E jv \in SUBSET Tids : Join(p, t, jv)
        PROVE  Tells
    <3>1. Idle /\ UNCHANGED <<sigQ, sigVec, pstate, parent>>
        BY <2>3 DEF Exit, ExitThread, Signal, AllowSignal, Spawn, Join, Running,
                    procVars, queueVars, sigVars
    <3>2. QED BY <1>2, <3>1, QuietTells
  <2>4. QED BY <1>5, <2>1, <2>2, <2>3 DEF OtherCall
<1>6. CASE LockedUp
    BY <1>6 DEF LockedUp, vars, Up
<1>7. QED BY <1>3, <1>4, <1>5, <1>6 DEF Others

-----------------------------------------------------------------------------
(* The steps of the loop itself.                                           *)

(* Thread t of process p goes on, and nobody waits that did not.           *)
LEMMA LoopMoves ==
    ASSUME TypeOK, TypeOK', Placed, Placed', FamilyOK', ReaperInv, Up,
           NEW p \in Procs, NEW t \in Tids,
           NEW n \in {"user", "reap", "wait", "clear"}, NEW c \in Procs \cup {NULL},
           Goto(p, t, n, c), ~Listening(<<p, t>>),
           n = "wait" => Wanted(p, c)' = {},
           \A q \in Procs : Items(sigQ'[q]) \subseteq Items(sigQ[q]),
           \A z \in Procs : pstate'[z] = "zombie" => pstate[z] = "zombie" /\ parent'[z] = parent[z],
           \A q \in Procs : Told(q) =>
               \/ Told(q)'
               \/ pstate'[q] # "live"
               \/ \A th \in Thread : th[1] = q => ~Ready(th)'
    PROVE  ReaperInv'
<1>1. /\ <<p, t>> \in Thread /\ at' \in [Thread -> Places]
      /\ at'[<<p, t>>] = [next |-> n, child |-> c]
      /\ \A th \in Thread : th # <<p, t>> => at'[th] = at[th]
    BY DEF ReaperInv, Goto, Places, Thread
<1>2. ASSUME NEW th \in Thread, Listening(th)' PROVE Listening(th)
  <2>1. PICK e \in Items(sigQ'[th[1]]) : e.thr = th
    BY <1>2 DEF Listening, WaitersOf, Items
  <2>2. e \in Items(sigQ[th[1]])
    BY <2>1 DEF Thread
  <2>3. QED BY <2>1, <2>2 DEF Listening, WaitersOf, Items
<1>3. ASSUME NEW th \in Thread, Ready(th)'
      PROVE  \/ Ready(th) /\ at'[th] = at[th]
             \/ Wanted(th[1], at[th].child)' = {}
  <2>1. CASE th # <<p, t>>
    BY <1>1, <1>2, <1>3, <2>1 DEF Ready
  <2>2. CASE th = <<p, t>>
    <3>1. n = "wait"
        BY <1>1, <1>2, <1>3, <2>2 DEF Ready
    <3>2. QED BY <1>1, <2>2, <3>1 DEF Wanted
  <2>3. QED BY <2>1, <2>2
<1>4. ASSUME NEW q \in Procs, NEW e \in Items(sigQ'[q])
      PROVE  e \in Items(sigQ[q]) /\ at'[e.thr] = at[e.thr]
  <2>1. e \in Items(sigQ[q])
    OBVIOUS
  <2>2. e.thr \in Thread /\ e.thr # <<p, t>>
    BY <2>1, ListenersAre
  <2>3. QED BY <1>1, <2>1, <2>2
<1>5. \A th \in Thread :
          Told(th[1]) => Told(th[1])' \/ ~Ready(th)' \/ pstate'[th[1]] # "live"
    BY DEF Thread
<1>6. QED BY <1>1, <1>3, <1>4, <1>5, LoopsGoOn

(* While thread t of process p is in the loop, no other thread of p is.    *)
LEMMA LoopAlone ==
    ASSUME TypeOK, Placed, ReaperInv, OneReaper, Up, NEW p \in Procs, NEW t \in Tids,
           at[<<p, t>>] # User
    PROVE  \A th \in Thread : th[1] = p /\ th # <<p, t>> => at[th] = User /\ ~Listening(th)
<1>1. ASSUME NEW th \in Thread, th[1] = p, th # <<p, t>>
      PROVE  at[th] = User /\ ~Listening(th)
  <2>1. th = <<p, th[2]>> /\ th[2] \in Tids
    BY <1>1 DEF Thread
  <2>2. at[th] = User
    BY <1>1, <2>1 DEF OneReaper
  <2>3. \A e \in Items(sigQ[p]) : at[e.thr] # User
    BY DEF ReaperInv, LoopsListen, User
  <2>4. ~Listening(th)
    BY <1>1, <2>2, <2>3, ListenersAre
  <2>5. QED BY <2>2, <2>4
<1>2. QED BY <1>1

LEMMA LoopRuns ==
    ASSUME KernelInv, NEW p \in Procs, NEW t \in Tids, Running(p, t)
    PROVE  /\ Idle /\ Up /\ TypeOK /\ Placed /\ FamilyOK /\ IInv /\ ~Listening(<<p, t>>)
           /\ calls = << >> /\ Items(calls) = {} /\ pstate[p] = "live"
<1>1. Idle /\ Up /\ TypeOK /\ FamilyOK /\ IInv /\ <<p, t>> \in Items(sched) /\ <<p, t>> \in Thread
      /\ pstate[p] = "live"
    BY RunningIs DEF KernelInv
<1>2. Placed
    BY <1>1 DEF KernelInv, ThreadInv
<1>3. ~Listening(<<p, t>>)
    BY <1>1, <1>2 DEF Placed, Where, Scheduled
<1>4. QED BY <1>1, <1>2, <1>3, NoCalls DEF Idle

LEMMA ReapedStep ==
    ASSUME KernelInv, KernelInv', ReaperInv, Up',
           NEW p \in Procs, NEW t \in Tids, NEW c \in Procs \cup {NULL}, Reaped(p, t, c)
    PROVE  ReaperInv'
<1>1. Running(p, t)
    BY DEF Reaped, ReapAny, ReapPid
<1>2. /\ Idle /\ Up /\ TypeOK /\ Placed /\ FamilyOK /\ IInv /\ ~Listening(<<p, t>>)
      /\ calls = << >> /\ Items(calls) = {}
    BY <1>1, LoopRuns
<1>3. Placed' /\ TypeOK' /\ FamilyOK'
    BY DEF KernelInv, ThreadInv, IInv
<1>4. PICK z \in Procs : Reclaim(z)
  <2>1. CASE c = NULL
    <3>1. zkids[p] \in Seq(Procs) /\ zkids[p] # << >> /\ Reclaim(Head(zkids[p]))
        BY <1>2, <2>1 DEF Reaped, ReapAny, TypeOK
    <3>2. Head(zkids[p]) \in Procs
        BY <3>1
    <3>3. QED BY <3>1, <3>2
  <2>2. CASE c # NULL
    BY <2>2 DEF Reaped, ReapPid, Panic, Up
  <2>3. QED BY <2>1, <2>2
<1>5. \A q \in Procs : Items(sigQ'[q]) \subseteq Items(sigQ[q])
    BY <1>2, <1>3, <1>4, DetachPlaces DEF Placed, Reclaim
<1>6. \A y \in Procs : pstate'[y] = "zombie" => pstate[y] = "zombie" /\ parent'[y] = parent[y]
    BY <1>2, <1>4 DEF Reclaim, TypeOK
<1>7. \A q \in Procs : Told(q) => Told(q)' \/ pstate'[q] # "live"
    BY <1>2, <1>4 DEF Reclaim, TypeOK, Told
<1>8. NULL \in Procs \cup {NULL} /\ Goto(p, t, "clear", NULL)
    BY DEF Reaped
<1>9. QED BY <1>2, <1>3, <1>5, <1>6, <1>7, <1>8, LoopMoves

LEMMA NotYetStep ==
    ASSUME KernelInv, KernelInv', ReaperInv, NEW p \in Procs, NEW t \in Tids,
           NEW c \in Procs \cup {NULL}, NotYet(p, t, c) \/ NoChild(p, t, c)
    PROVE  ReaperInv'
<1>1. /\ Idle /\ Up /\ TypeOK /\ Placed /\ FamilyOK /\ ~Listening(<<p, t>>)
    BY LoopRuns DEF NotYet, NoChild
<1>2. UNCHANGED <<sys, calls, pstate, parent, sigQ, sigVec>>
    BY DEF NotYet, NoChild, vars, procVars, queueVars, sigVars
<1>3. Placed' /\ TypeOK' /\ FamilyOK'
    BY <1>1, <1>2 DEF KernelInv, ThreadInv, IInv, Up
<1>4. \A q : Told(q) => Told(q)'
    BY <1>2 DEF Told
<1>5. CASE NotYet(p, t, c)
  <2>1. Wanted(p, c)' = {} /\ Goto(p, t, "wait", c)
    BY <1>2, <1>5 DEF NotYet, Wanted
  <2>2. QED BY <1>1, <1>2, <1>3, <1>4, <2>1, LoopMoves DEF Items
<1>6. CASE NoChild(p, t, c)
  <2>1. NULL \in Procs \cup {NULL} /\ Goto(p, t, "user", NULL)
    BY <1>6 DEF NoChild
  <2>2. QED BY <1>1, <1>2, <1>3, <1>4, <2>1, LoopMoves DEF Items
<1>7. QED BY <1>5, <1>6

(* The thread takes the signal, in its wait or in the end.                 *)
LEMMA TakesSignal ==
    ASSUME KernelInv, KernelInv', ReaperInv, OneReaper, NEW p \in Procs, NEW t \in Tids,
           NEW n \in {"user", "reap", "clear"}, NEW c \in Procs \cup {NULL},
           Running(p, t), at[<<p, t>>] # User, Goto(p, t, n, c),
           UNCHANGED <<sys, calls, pstate, parent, sigQ>>,
           \A q \in Procs : q # p => sigVec'[q] = sigVec[q]
    PROVE  ReaperInv'
<1>1. /\ Idle /\ Up /\ TypeOK /\ Placed /\ FamilyOK /\ ~Listening(<<p, t>>)
    BY LoopRuns
<1>2. Placed' /\ TypeOK' /\ FamilyOK'
    BY <1>1 DEF KernelInv, ThreadInv, IInv, Up
<1>3. ASSUME NEW th \in Thread, th[1] = p PROVE ~Ready(th)'
  <2>1. Listening(th)' <=> Listening(th)
    BY DEF Listening
  <2>2. CASE th = <<p, t>>
    BY <1>1, <2>1, <2>2 DEF Ready, Goto, ReaperInv
  <2>3. CASE th # <<p, t>>
    <3>1. at[th] = User /\ ~Listening(th)
        BY <1>1, <1>3, <2>3, LoopAlone
    <3>2. at'[th] = at[th]
        BY <2>3 DEF Goto, ReaperInv
    <3>3. QED BY <2>1, <3>1, <3>2 DEF Ready, User
  <2>4. QED BY <2>2, <2>3
<1>4. \A q \in Procs : q # p => (Told(q) => Told(q)')
    BY DEF Told
<1>5. n # "wait"
    OBVIOUS
<1>6. QED BY <1>1, <1>2, <1>3, <1>4, <1>5, LoopMoves DEF Items

LEMMA WaitsStep ==
    ASSUME KernelInv, KernelInv', ReaperInv, NEW p \in Procs, NEW t \in Tids,
           at[<<p, t>>].next = "wait", Running(p, t), CHLD \notin sigVec[p],
           sigQ' = [sigQ EXCEPT ![p] = Append(@, [thr |-> <<p, t>>, mask |-> {CHLD}])],
           UNCHANGED <<sys, calls, pstate, parent, sigVec>>,
           Goto(p, t, "reap", at[<<p, t>>].child)
    PROVE  ReaperInv'
<1>1. /\ Idle /\ Up /\ TypeOK /\ Placed /\ FamilyOK /\ ~Listening(<<p, t>>) /\ Items(calls) = {}
    BY LoopRuns
<1>2. FamilyOK'
    BY DEF KernelInv, IInv
<1> DEFINE e0 == [thr |-> <<p, t>>, mask |-> {CHLD}]
<1>3. /\ <<p, t>> \in Thread /\ at \in [Thread -> Places]
      /\ at' = [at EXCEPT ![<<p, t>>] = [next |-> "reap", child |-> at[<<p, t>>].child]]
    BY DEF ReaperInv, Goto, Thread
<1>4. /\ at' \in [Thread -> Places]
      /\ at'[<<p, t>>].next = "reap" /\ at'[<<p, t>>].child = at[<<p, t>>].child
      /\ \A th \in Thread : th # <<p, t>> => at'[th] = at[th]
    BY <1>3 DEF Places
<1>5. e0 \in Waiter(Sigs) /\ sigQ[p] \in Seq(Waiter(Sigs))
    BY <1>1, <1>3, KernelConstants DEF Waiter, TypeOK
<1>6. /\ Items(sigQ'[p]) = Items(sigQ[p]) \cup {e0}
      /\ \A q \in Procs : q # p => sigQ'[q] = sigQ[q]
  <2>1. sigQ'[p] = Append(sigQ[p], e0) /\ \A q \in Procs : q # p => sigQ'[q] = sigQ[q]
    BY <1>1 DEF TypeOK
  <2>2. Items(Append(sigQ[p], e0)) = Items(sigQ[p]) \cup {e0}
    <3>1. \A q \in Seq(Waiter(Sigs)), e \in Waiter(Sigs) :
              Items(Append(q, e)) = Items(q) \cup {e}
        BY AppendItems
    <3>2. QED BY <1>5, <3>1, Zenon
  <2>3. QED BY <2>1, <2>2 DEF Items
<1>7. ~Told(p)
    BY <1>1 DEF Told
<1>8. Wanted(p, at[<<p, t>>].child)' = {}
  <2>1. Ready(<<p, t>>) /\ <<p, t>>[1] = p
    BY DEF Ready
  <2>2. Wanted(p, at[<<p, t>>].child) = {}
    BY <1>1, <1>3, <1>7, <2>1 DEF ReaperInv, ZombiesTold
  <2>3. QED BY <1>4, <2>2 DEF Wanted
<1>9. ASSUME NEW q \in Procs, NEW e \in Items(sigQ'[q])
      PROVE  \/ e \in Items(sigQ[q]) /\ at'[e.thr] = at[e.thr]
             \/ e.mask = {CHLD} /\ at'[e.thr].next = "reap"
  <2>1. CASE e \in Items(sigQ[q])
    <3>1. e.thr \in Thread /\ e.thr # <<p, t>>
        BY <1>1, <2>1, ListenersAre
    <3>2. QED BY <1>4, <2>1, <3>1
  <2>2. CASE e = e0
    BY <1>4, <2>2
  <2>3. QED BY <1>6, <1>9, <2>1, <2>2 DEF Items
<1>10. ASSUME NEW th \in Thread, Ready(th)'
       PROVE  \/ Ready(th) /\ at'[th] = at[th]
              \/ Wanted(th[1], at[th].child)' = {}
  <2>1. CASE th = <<p, t>>
    BY <1>8, <2>1
  <2>2. CASE th # <<p, t>>
    <3>1. Listening(th)' => Listening(th)
      <4>1. SUFFICES ASSUME Listening(th)' PROVE Listening(th)
        OBVIOUS
      <4>2. PICK e \in Items(sigQ'[th[1]]) : e.thr = th
        BY <4>1 DEF Listening, WaitersOf, Items
      <4>3. e \in Items(sigQ[th[1]])
        BY <1>6, <2>2, <4>2 DEF Thread, Items
      <4>4. QED BY <4>2, <4>3 DEF Listening, WaitersOf, Items
    <3>2. QED BY <1>4, <1>10, <2>2, <3>1 DEF Ready
  <2>3. QED BY <2>1, <2>2
<1>11. \A q : Told(q) => Told(q)'
    BY DEF Told
<1>12. QED BY <1>1, <1>2, <1>4, <1>9, <1>10, <1>11, LoopsGoOn

LEMMA UpBefore == ASSUME Others, Up' PROVE Up
<1>1. CASE InKernel
    BY <1>1 DEF InKernel, ExitProc, BuryProc, SignalProc, ResetProc, Up
<1>2. CASE Tick
    BY <1>2 DEF Tick, TimerFires, Idle, Up
<1>3. CASE LockedUp
    BY <1>3 DEF LockedUp, vars, Up
<1>4. ASSUME NEW p \in Procs, NEW t \in Tids, OtherCall(p, t) PROVE Up
  <2>1. Running(p, t)
    BY <1>4 DEF OtherCall, Exit, Exec, ExitThread, Fork, Signal, AllowSignal, Spawn, Join
  <2>2. QED BY <2>1 DEF Running, Idle, Up
<1>5. QED BY <1>1, <1>2, <1>3, <1>4 DEF Others

LEMMA ReaperStart == ReapersInit => ReaperInv
<1> SUFFICES ASSUME ReapersInit PROVE ReaperInv
    OBVIOUS
<1>1. at \in [Thread -> Places]
    BY DEF ReapersInit, Places, User
<1>2. \A p \in Procs : sigQ[p] = << >>
    BY DEF ReapersInit, Init
<1>3. LoopsListen
    BY <1>2 DEF LoopsListen, Items
<1>4. \A th \in Thread : ~Ready(th)
    BY <1>2 DEF Ready, Listening, WaitersOf, ReapersInit, User, Thread
<1>5. QED BY <1>1, <1>3, <1>4 DEF ReaperInv, ZombiesTold

LEMMA ReapersInductive ==
    KernelInv /\ KernelInv' /\ OneReaper /\ ReaperInv /\ [ReapersNext]_allVars => ReaperInv'
<1> SUFFICES ASSUME KernelInv, KernelInv', OneReaper, ReaperInv, [ReapersNext]_allVars
             PROVE  ReaperInv'
    OBVIOUS
<1>1. CASE UNCHANGED allVars
  <2>1. UNCHANGED <<sys, calls, pstate, parent, sigQ, sigVec, at>>
    BY <1>1 DEF allVars, vars, procVars, queueVars, sigVars
  <2>2. QED BY <2>1 DEF ReaperInv, Up, LoopsListen, ZombiesTold, Ready, Listening, Told, Wanted
<1>2. CASE Others
  <2>1. at' \in [Thread -> Places] /\ at' = [th \in Thread |-> AtAfter(th)]
    BY <1>2 DEF Others, AtAfter, ReaperInv, Places, User
  <2>2. CASE ~Up'
    BY <2>1, <2>2 DEF ReaperInv
  <2>3. CASE Up'
    <3>1. Tells
        BY <1>2, <2>3, OthersTell
    <3>2. Up
        BY <1>2, <2>3, UpBefore
    <3>3. TypeOK /\ TypeOK' /\ Placed /\ Placed' /\ FamilyOK'
        BY <2>3, <3>2 DEF KernelInv, IInv, ThreadInv
    <3>4. QED BY <2>1, <3>1, <3>2, <3>3, TellsIsEnough
  <2>4. QED BY <2>2, <2>3
<1>3. ASSUME NEW p \in Procs, NEW t \in Tids, NEW c \in Procs \cup {NULL}, Reaped(p, t, c)
      PROVE  ReaperInv'
  <2>1. CASE Up'
    BY <1>3, <2>1, ReapedStep
  <2>2. CASE ~Up'
    BY <1>3, <2>2 DEF Reaped, Goto, ReaperInv, Places
  <2>3. QED BY <2>1, <2>2
<1>4. ASSUME NEW p \in Procs, NEW t \in Tids, NEW c \in Procs \cup {NULL},
             NotYet(p, t, c) \/ NoChild(p, t, c)
      PROVE  ReaperInv'
    BY <1>4, NotYetStep
<1>5. ASSUME NEW p \in Procs, NEW t \in Tids, WaitChild(p, t) PROVE ReaperInv'
  <2>1. /\ at[<<p, t>>].next = "wait" /\ at[<<p, t>>] # User /\ Running(p, t)
        /\ at[<<p, t>>].child \in Procs \cup {NULL}
        /\ Goto(p, t, "reap", at[<<p, t>>].child) /\ UNCHANGED <<sys, calls, pstate, parent>>
    BY <1>5 DEF WaitChild, WaitSignal, User, procVars, ReaperInv, Places, Thread
  <2>2. CASE {CHLD} \cap sigVec[p] # {}
    <3>1. UNCHANGED sigQ /\ \A q \in Procs : q # p => sigVec'[q] = sigVec[q]
        BY <1>5, <2>2 DEF WaitChild, WaitSignal, KernelInv, IInv, TypeOK
    <3>2. QED BY <2>1, <3>1, TakesSignal
  <2>3. CASE {CHLD} \cap sigVec[p] = {}
    <3>1. /\ sigQ' = [sigQ EXCEPT ![p] = Append(@, [thr |-> <<p, t>>, mask |-> {CHLD}])]
          /\ UNCHANGED sigVec /\ CHLD \notin sigVec[p]
        BY <1>5, <2>3 DEF WaitChild, WaitSignal
    <3>2. QED BY <2>1, <3>1, WaitsStep
  <2>4. QED BY <2>2, <2>3
<1>6. ASSUME NEW p \in Procs, NEW t \in Tids, Clear(p, t) PROVE ReaperInv'
  <2>1. /\ at[<<p, t>>] # User /\ Running(p, t) /\ Goto(p, t, "user", NULL)
        /\ UNCHANGED <<sys, calls, pstate, parent, sigQ>> /\ NULL \in Procs \cup {NULL}
        /\ \A q \in Procs : q # p => sigVec'[q] = sigVec[q]
    BY <1>6 DEF Clear, ClearSignal, User, procVars, queueVars
  <2>2. QED BY <2>1, TakesSignal
<1>7. QED BY <1>1, <1>2, <1>3, <1>4, <1>5, <1>6 DEF ReapersNext

(* Nobody sleeps in sc_proc_reap_single while a child it waits for is a    *)
(* zombie, as long as one thread of a process at a time is in the loop:    *)
(* whatever the other threads of the process do meanwhile, whoever dies,   *)
(* is adopted, signalled or reaped in whatever order.                      *)
THEOREM ReapersAreHeard == ReapersSpec /\ []OneReaper => []ReapersHear
<1>1. ReapersInit => IInv /\ ThreadInv /\ ReaperInv
    BY InitIInv, ThreadsStart, ReaperStart DEF ReapersInit
<1>2. IInv /\ ThreadInv /\ [ReapersNext]_allVars => IInv' /\ ThreadInv'
    BY ReapersAreKernel, Inductive, ThreadsInductive
<1>3. IInv /\ ThreadInv /\ ReaperInv /\ IInv' /\ ThreadInv' /\ OneReaper /\ [ReapersNext]_allVars
          => ReaperInv'
    BY ReapersInductive DEF KernelInv
<1>4. IInv /\ ThreadInv /\ ReaperInv => ReapersHear
  <2> SUFFICES ASSUME IInv, ThreadInv, ReaperInv, Idle, NEW p \in Procs,
                      NEW th \in WaitersOf(sigQ[p]), NEW z \in Wanted(p, at[th].child)
               PROVE  FALSE
    BY DEF ReapersHear
  <2>1. /\ Up /\ TypeOK /\ Placed /\ SignalsHeard /\ Items(calls) = {}
    BY NoCalls DEF Idle, Up, IInv, ThreadInv
  <2>2. PICK e \in Items(sigQ[p]) : e.thr = th
    BY DEF WaitersOf, Items
  <2>3. th \in Thread /\ th[1] = p /\ Listening(th)
    BY <2>1, <2>2, ListenersAre
  <2>4. Told(p)
    BY <2>1, <2>3 DEF ReaperInv, ZombiesTold, Ready
  <2>5. e.mask = {CHLD}
    BY <2>1, <2>2 DEF ReaperInv, LoopsListen
  <2>6. QED BY <2>1, <2>2, <2>4, <2>5 DEF Told, SignalsHeard
<1>5. QED BY <1>1, <1>2, <1>3, <1>4, PTL DEF ReapersSpec

(* So with processes of a single thread it is true without a condition.    *)
COROLLARY SingleReapersAreHeard ==
    ASSUME \A t, u \in Tids : t = u PROVE ReapersSpec => []ReapersHear
<1>1. OneReaper
    BY DEF OneReaper
<1>2. QED BY <1>1, ReapersAreHeard, PTL
=============================================================================
