--------------------------- MODULE SemaphoreProofs ---------------------------
(***************************************************************************)
(* The semaphores are correct for any processes, threads and semaphores:   *)
(* one inductive invariant keeps the passes, the queues and the reference  *)
(* bits in step through every command, fork, exit, exec and reaping.       *)
(***************************************************************************)
EXTENDS Semaphores, QueueLemmas

SemTypes ==
    /\ pst \in [Procs -> {"free", "live", "zombie"}]
    /\ tst \in [Thread -> {"none", "ready", "waiting", "detached"}]
    /\ max \in [Sems -> Nat] /\ passes \in [Sems -> Nat] /\ lent \in [Sems -> Int]
    /\ refs \in [Sems -> SUBSET Procs]
    /\ waitQ \in [Sems -> Seq(Thread)]

(* Only a live process has threads.                                        *)
ThreadsAreOfLive == \A th \in Thread : tst[th] # "none" => pst[th[1]] = "live"

QueuesHaveNoDup == \A s \in Sems : NoDup(waitQ[s])

(* The counter never exceeds max_passes: nobody brings back more than was  *)
(* lent.                                                                   *)
NoMoreThanMax == \A s \in Sems : passes[s] <= max[s]

SemInv ==
    /\ SemTypes
    /\ ThreadsAreOfLive
    /\ QueuesHaveNoDup
    /\ NoMoreThanMax
    /\ PassesConserved
    /\ WaitersAreRight
    /\ RefsKeepAlive
    /\ OthersUndisturbed

LEMMA SemInit == Init => SemInv
<1> SUFFICES ASSUME Init PROVE SemInv
    OBVIOUS
<1>1. /\ max = [s \in Sems |-> 0] /\ passes = max /\ lent = max
      /\ refs = [s \in Sems |-> {}] /\ waitQ = [s \in Sems |-> << >>]
      /\ dangling = {}
    BY DEF Init
<1>2. /\ pst = [p \in Procs |-> IF p = First THEN "live" ELSE "free"]
      /\ tst = [th \in Thread |-> IF th = <<First, 0>> THEN "ready" ELSE "none"]
    BY DEF Init, ProcessInit
<1>3. \A s \in Sems : Items(waitQ[s]) = {} /\ NoDup(waitQ[s])
    BY <1>1 DEF Items, NoDup
<1>4. SemTypes
    BY <1>1, <1>2 DEF SemTypes
<1>5. ThreadsAreOfLive
    BY <1>2 DEF ThreadsAreOfLive, Thread
<1>6. /\ QueuesHaveNoDup /\ NoMoreThanMax /\ PassesConserved
      /\ RefsKeepAlive /\ OthersUndisturbed
    BY <1>1, <1>3 DEF QueuesHaveNoDup, NoMoreThanMax, PassesConserved, RefsKeepAlive,
                      OthersUndisturbed
<1>7. WaitersAreRight
    BY <1>1, <1>3 DEF WaitersAreRight
<1>8. QED BY <1>4, <1>5, <1>6, <1>7 DEF SemInv

LEMMA EmptyItems ==
    ASSUME NEW S, NEW q \in Seq(S)
    PROVE  /\ Items(q) \subseteq S
           /\ (q # << >>) <=> (Items(q) # {})
<1>1. \A k \in 1 .. Len(q) : q[k] \in S
    OBVIOUS
<1>2. Items(q) \subseteq S
    BY <1>1 DEF Items
<1>3. q = << >> => Items(q) = {}
    BY DEF Items
<1>4. ASSUME q # << >> PROVE Items(q) # {}
  <2>1. 1 \in 1 .. Len(q)
    BY <1>4
  <2>2. QED BY <2>1 DEF Items
<1>5. QED BY <1>2, <1>3, <1>4

(* What the invariant says of a queue: typed, and with threads that wait.  *)
LEMMA QueueIs ==
    ASSUME SemInv, NEW s \in Sems
    PROVE  /\ waitQ[s] \in Seq(Thread) /\ NoDup(waitQ[s])
           /\ Items(waitQ[s]) \subseteq Thread
           /\ (waitQ[s] # << >>) <=> (Items(waitQ[s]) # {})
           /\ waitQ[s] # << >> => passes[s] = 0
           /\ \A th \in Items(waitQ[s]) :
                 tst[th] = "waiting" /\ th[1] \in refs[s] /\ pst[th[1]] = "live"
<1>1. waitQ[s] \in Seq(Thread) /\ NoDup(waitQ[s])
    BY DEF SemInv, SemTypes, QueuesHaveNoDup
<1>2. /\ Items(waitQ[s]) \subseteq Thread
      /\ (waitQ[s] # << >>) <=> (Items(waitQ[s]) # {})
    BY <1>1, EmptyItems
<1>3. /\ waitQ[s] # << >> => passes[s] = 0
      /\ \A th \in Items(waitQ[s]) : tst[th] = "waiting" /\ th[1] \in refs[s]
    BY DEF SemInv, WaitersAreRight
<1>4. \A th \in Items(waitQ[s]) : pst[th[1]] = "live"
    BY <1>2, <1>3 DEF SemInv, ThreadsAreOfLive
<1>5. QED BY <1>1, <1>2, <1>3, <1>4

(* A semaphore nobody refers to, or one that is free, has an empty queue.  *)
LEMMA FreeIsEmpty ==
    ASSUME SemInv, NEW s \in Sems, max[s] = 0
    PROVE  refs[s] = {} /\ waitQ[s] = << >> /\ passes[s] = 0 /\ lent[s] = 0
<1>1. refs[s] = {}
  <2>1. (max[s] > 0) <=> (refs[s] # {})
    BY DEF SemInv, RefsKeepAlive
  <2>2. QED BY <2>1
<1>2. Items(waitQ[s]) = {}
    BY <1>1, QueueIs
<1>3. waitQ[s] = << >>
    BY <1>2, QueueIs
<1>4. passes[s] = 0 /\ lent[s] = 0
    BY DEF SemInv, SemTypes, NoMoreThanMax, PassesConserved
<1>5. QED BY <1>1, <1>3, <1>4

(* Queues that only lose threads stay right.                               *)
LEMMA QueuesShrink ==
    ASSUME SemInv,
           \A s \in Sems : /\ NoDup(waitQ'[s])
                           /\ Items(waitQ'[s]) \subseteq Items(waitQ[s])
                           /\ waitQ'[s] # << >> => passes'[s] = 0
                           /\ \A th \in Items(waitQ'[s]) :
                                 tst'[th] = "waiting" /\ th[1] \in refs'[s]
    PROVE  QueuesHaveNoDup' /\ WaitersAreRight'
<1>1. \A s, r \in Sems : s # r => Items(waitQ[s]) \cap Items(waitQ[r]) = {}
    BY DEF SemInv, WaitersAreRight
<1>2. \A s, r \in Sems : s # r => Items(waitQ'[s]) \cap Items(waitQ'[r]) = {}
    BY <1>1
<1>3. QED BY <1>2 DEF QueuesHaveNoDup, WaitersAreRight, Items, NoDup

-----------------------------------------------------------------------------
(* The commands *)

LEMMA StepNewSem ==
    ASSUME SemInv, MaxPasses \in Nat, NEW th \in Thread, NEW s \in Sems,
           NEW m \in 1 .. MaxPasses, NewSem(th, s, m)
    PROVE  SemInv'
<1>1. max[s] = 0 /\ tst[th] = "ready" /\ th[1] \in Procs /\ m \in Nat /\ m > 0
    BY DEF NewSem, Enter, Running, Thread
<1>2. /\ max' = [max EXCEPT ![s] = m] /\ passes' = [passes EXCEPT ![s] = m]
      /\ refs' = [refs EXCEPT ![s] = {th[1]}]
      /\ pst' = pst /\ tst' = tst /\ waitQ' = waitQ /\ lent' = lent /\ dangling' = dangling
    BY DEF NewSem, processVars
<1>3. waitQ[s] = << >> /\ refs[s] = {} /\ lent[s] = 0
    BY <1>1, FreeIsEmpty
<1>4. Items(waitQ[s]) = {}
    BY <1>3, QueueIs
<1>5. SemTypes' /\ ThreadsAreOfLive' /\ OthersUndisturbed'
    BY <1>1, <1>2 DEF SemInv, SemTypes, ThreadsAreOfLive, OthersUndisturbed
<1>6. PassesConserved' /\ NoMoreThanMax'
  <2>1. /\ max'[s] = m /\ passes'[s] = m /\ lent'[s] = 0
        /\ \A r \in Sems : r # s => max'[r] = max[r] /\ passes'[r] = passes[r] /\ lent'[r] = lent[r]
    BY <1>2, <1>3 DEF SemInv, SemTypes
  <2>2. QED BY <1>1, <2>1 DEF SemInv, PassesConserved, NoMoreThanMax
<1>7. RefsKeepAlive'
  <2>1. pst[th[1]] = "live"
    BY <1>1 DEF SemInv, ThreadsAreOfLive
  <2>2. QED BY <1>1, <1>2, <2>1 DEF SemInv, SemTypes, RefsKeepAlive
<1>8. QueuesHaveNoDup' /\ WaitersAreRight'
  <2>1. \A r \in Sems : r # s => passes'[r] = passes[r] /\ refs'[r] = refs[r]
    BY <1>2 DEF SemInv, SemTypes
  <2>2. \A r \in Sems : /\ NoDup(waitQ'[r])
                        /\ Items(waitQ'[r]) \subseteq Items(waitQ[r])
                        /\ waitQ'[r] # << >> => passes'[r] = 0
                        /\ \A u \in Items(waitQ'[r]) : tst'[u] = "waiting" /\ u[1] \in refs'[r]
    BY <1>2, <1>3, <1>4, <2>1, QueueIs
  <2>3. QED BY <2>2, QueuesShrink
<1>9. QED BY <1>5, <1>6, <1>7, <1>8 DEF SemInv

LEMMA StepDec ==
    ASSUME SemInv, NEW th \in Thread, NEW s \in Sems, Dec(th, s)
    PROVE  SemInv'
<1>1. /\ tst[th] = "ready" /\ max[s] > 0 /\ th[1] \in refs[s]
      /\ pst' = pst /\ max' = max /\ refs' = refs /\ dangling' = dangling
    BY DEF Dec, Enter, Running, Has
<1>2. RefsKeepAlive' /\ OthersUndisturbed'
    BY <1>1 DEF SemInv, RefsKeepAlive, OthersUndisturbed
<1>3. CASE passes[s] > 0
  <2>1. /\ passes' = [passes EXCEPT ![s] = @ - 1] /\ lent' = [lent EXCEPT ![s] = @ + 1]
        /\ tst' = tst /\ waitQ' = waitQ
    BY <1>3 DEF Dec
  <2>2. SemTypes' /\ ThreadsAreOfLive'
    BY <1>1, <1>3, <2>1 DEF SemInv, SemTypes, ThreadsAreOfLive
  <2>7. PassesConserved' /\ NoMoreThanMax'
    BY <1>1, <1>3, <2>1 DEF SemInv, SemTypes, PassesConserved, NoMoreThanMax
  <2>3. waitQ[s] = << >>
    BY <1>3, QueueIs
  <2>4. \A r \in Sems : r # s => passes'[r] = passes[r]
    BY <2>1 DEF SemInv, SemTypes
  <2>5. \A r \in Sems : /\ NoDup(waitQ'[r])
                        /\ Items(waitQ'[r]) \subseteq Items(waitQ[r])
                        /\ waitQ'[r] # << >> => passes'[r] = 0
                        /\ \A u \in Items(waitQ'[r]) : tst'[u] = "waiting" /\ u[1] \in refs'[r]
    BY <1>1, <2>1, <2>3, <2>4, QueueIs
  <2>8. QED BY <1>2, <2>2, <2>5, <2>7, QueuesShrink DEF SemInv
<1>4. CASE passes[s] = 0
  <2>1. /\ waitQ' = [waitQ EXCEPT ![s] = Append(@, th)]
        /\ tst' = [tst EXCEPT ![th] = "waiting"]
        /\ passes' = passes /\ lent' = lent
    BY <1>4 DEF Dec, Sleeps
  <2>2. /\ waitQ'[s] = Append(waitQ[s], th)
        /\ \A r \in Sems : r # s => waitQ'[r] = waitQ[r]
        /\ tst'[th] = "waiting" /\ \A u \in Thread : u # th => tst'[u] = tst[u]
    BY <2>1 DEF SemInv, SemTypes
  <2>3. \A r \in Sems : th \notin Items(waitQ[r])
    BY <1>1, QueueIs
  <2>4. /\ Append(waitQ[s], th) \in Seq(Thread)
        /\ Items(waitQ'[s]) = Items(waitQ[s]) \cup {th} /\ NoDup(waitQ'[s])
    BY <2>2, <2>3, AppendItems, QueueIs
  <2>5. /\ SemTypes' /\ ThreadsAreOfLive'
        /\ PassesConserved' /\ NoMoreThanMax'
    BY <1>1, <2>1, <2>4 DEF SemInv, SemTypes, ThreadsAreOfLive, PassesConserved,
                           NoMoreThanMax
  <2>6. QueuesHaveNoDup'
    BY <2>2, <2>4, QueueIs DEF QueuesHaveNoDup
  <2>7. WaitersAreRight'
    <3>1. \A r \in Sems : waitQ'[r] # << >> => passes'[r] = 0
        BY <1>4, <2>1, <2>2, QueueIs
    <3>2. \A r, q \in Sems : r # q => Items(waitQ'[r]) \cap Items(waitQ'[q]) = {}
      <4>1. \A r, q \in Sems : r # q => Items(waitQ[r]) \cap Items(waitQ[q]) = {}
        BY DEF SemInv, WaitersAreRight
      <4>2. QED BY <4>1, <2>2, <2>3, <2>4, ZenonT(60)
    <3>3. \A r \in Sems : \A u \in Items(waitQ'[r]) : tst'[u] = "waiting" /\ u[1] \in refs'[r]
      <4>1. \A r \in Sems : \A u \in Items(waitQ[r]) : tst'[u] = "waiting" /\ u[1] \in refs'[r]
        BY <1>1, <2>2, <2>3, QueueIs
      <4>2. tst'[th] = "waiting" /\ th[1] \in refs'[s]
        BY <1>1, <2>2
      <4>3. \A r \in Sems : \A u \in Items(waitQ'[r]) : u \in Items(waitQ[r]) \/ (r = s /\ u = th)
        BY <2>2, <2>4
      <4>4. QED BY <4>1, <4>2, <4>3
    <3>4. QED BY <3>1, <3>2, <3>3 DEF WaitersAreRight, Items
  <2>8. QED BY <1>2, <2>5, <2>6, <2>7 DEF SemInv
<1>5. QED BY <1>3, <1>4 DEF Dec

LEMMA StepInc ==
    ASSUME SemInv, NEW th \in Thread, NEW s \in Sems, Inc(th, s)
    PROVE  SemInv'
<1>1. /\ max[s] > 0 /\ th[1] \in refs[s] /\ passes[s] < max[s]
      /\ pst' = pst /\ max' = max /\ refs' = refs /\ dangling' = dangling
    BY DEF Inc, Enter, Has
<1>2. RefsKeepAlive' /\ OthersUndisturbed'
    BY <1>1 DEF SemInv, RefsKeepAlive, OthersUndisturbed
<1>3. CASE passes[s] = 0 /\ waitQ[s] # << >>
  <2> DEFINE u == Head(waitQ[s])
  <2>1. /\ waitQ' = [waitQ EXCEPT ![s] = Tail(@)]
        /\ tst' = [v \in Thread |-> IF v \in {u} THEN "ready" ELSE tst[v]]
        /\ passes' = passes /\ lent' = lent
    BY <1>3 DEF Inc, Wakes
  <2>2. /\ Tail(waitQ[s]) \in Seq(Thread) /\ u \in Items(waitQ[s])
        /\ Items(Tail(waitQ[s])) = Items(waitQ[s]) \ {u} /\ NoDup(Tail(waitQ[s]))
    BY <1>3, TailItems, QueueIs
  <2>3. /\ waitQ'[s] = Tail(waitQ[s])
        /\ \A r \in Sems : r # s => waitQ'[r] = waitQ[r]
    BY <2>1 DEF SemInv, SemTypes
  <2>4. tst[u] = "waiting" /\ u \in Thread
    BY <2>2, QueueIs
  <2>5. \A v \in Thread : v # u => tst'[v] = tst[v]
    BY <2>1
  <2>6. \A r \in Sems : u \notin Items(waitQ'[r])
    BY <2>2, <2>3 DEF SemInv, WaitersAreRight
  <2> HIDE DEF u
  <2>7. /\ SemTypes' /\ ThreadsAreOfLive'
        /\ PassesConserved' /\ NoMoreThanMax'
    BY <1>1, <2>1, <2>2, <2>4 DEF SemInv, SemTypes, ThreadsAreOfLive, PassesConserved,
                                  NoMoreThanMax
  <2>8. \A r \in Sems : NoDup(waitQ'[r]) /\ Items(waitQ'[r]) \subseteq Items(waitQ[r])
    BY <2>2, <2>3, QueueIs
  <2>9. \A r \in Sems : waitQ'[r] # << >> => passes'[r] = 0
    BY <1>3, <2>1, <2>3, QueueIs
  <2>10. \A r \in Sems : \A v \in Items(waitQ'[r]) : tst'[v] = "waiting" /\ v[1] \in refs'[r]
    BY <1>1, <2>5, <2>6, <2>8, QueueIs
  <2>11. QED BY <1>2, <2>7, <2>8, <2>9, <2>10, QueuesShrink DEF SemInv
<1>4. CASE ~(passes[s] = 0 /\ waitQ[s] # << >>)
  <2>1. /\ passes' = [passes EXCEPT ![s] = @ + 1] /\ lent' = [lent EXCEPT ![s] = @ - 1]
        /\ tst' = tst /\ waitQ' = waitQ
    BY <1>4 DEF Inc
  <2>2. /\ SemTypes' /\ ThreadsAreOfLive'
        /\ PassesConserved' /\ NoMoreThanMax'
    BY <1>1, <2>1 DEF SemInv, SemTypes, ThreadsAreOfLive, PassesConserved, NoMoreThanMax
  <2>3. waitQ[s] = << >>
    BY <1>4, QueueIs
  <2>4. \A r \in Sems : r # s => passes'[r] = passes[r]
    BY <2>1 DEF SemInv, SemTypes
  <2>5. \A r \in Sems : /\ NoDup(waitQ'[r])
                        /\ Items(waitQ'[r]) \subseteq Items(waitQ[r])
                        /\ waitQ'[r] # << >> => passes'[r] = 0
                        /\ \A v \in Items(waitQ'[r]) : tst'[v] = "waiting" /\ v[1] \in refs'[r]
    BY <1>1, <2>1, <2>3, <2>4, QueueIs
  <2>6. QED BY <1>2, <2>2, <2>5, QueuesShrink DEF SemInv
<1>5. QED BY <1>3, <1>4

(* What is freed, and what is left of a queue that is not.                 *)
LEMMA DisposeIs ==
    ASSUME NEW gone, NEW q, Dispose(gone, q), NEW s \in Sems
    PROVE  /\ s \in gone => /\ max'[s] = 0 /\ passes'[s] = 0 /\ lent'[s] = 0
                            /\ waitQ'[s] = << >>
           /\ s \notin gone => /\ max'[s] = max[s] /\ passes'[s] = passes[s]
                               /\ lent'[s] = lent[s] /\ waitQ'[s] = q[s]
BY DEF Dispose

(* Semaphores are freed, bits of a process cleared and threads taken out   *)
(* of queues, and the invariant stays: what a close, an exec and a reaping *)
(* have in common.                                                         *)
LEMMA FreeingKeeps ==
    ASSUME SemInv, NEW gone, NEW q \in [Sems -> Seq(Thread)], Dispose(gone, q),
           pst' \in [Procs -> {"free", "live", "zombie"}],
           tst' \in [Thread -> {"none", "ready", "waiting", "detached"}],
           refs' \in [Sems -> SUBSET Procs],
           ThreadsAreOfLive', OthersUndisturbed',
           \A s \in Sems : /\ NoDup(q[s]) /\ Items(q[s]) \subseteq Items(waitQ[s])
                           /\ (s \in gone) => (refs'[s] = {})
                           /\ (s \notin gone) => ((refs'[s] = {}) <=> (refs[s] = {}))
                           /\ \A p \in refs'[s] : pst'[p] # "free"
                           /\ (s \notin gone) => \A th \in Items(q[s]) :
                                 tst'[th] = "waiting" /\ th[1] \in refs'[s]
    PROVE  SemInv'
<1>1. SemTypes'
  <2>1. << >> \in Seq(Thread)
    OBVIOUS
  <2>2. waitQ' \in [Sems -> Seq(Thread)]
    BY <2>1 DEF Dispose
  <2>3. /\ max' \in [Sems -> Nat] /\ passes' \in [Sems -> Nat] /\ lent' \in [Sems -> Int]
    BY DEF Dispose, SemInv, SemTypes
  <2>4. QED BY <2>2, <2>3 DEF SemTypes
<1>2. PassesConserved' /\ NoMoreThanMax'
    BY DisposeIs DEF SemInv, PassesConserved, NoMoreThanMax
<1>3. RefsKeepAlive'
  <2>1. \A s \in Sems : (max[s] > 0) <=> (refs[s] # {})
    BY DEF SemInv, RefsKeepAlive
  <2>2. ASSUME NEW s \in Sems PROVE (max'[s] > 0) <=> (refs'[s] # {})
    <3>1. CASE s \in gone
      <4>1. max'[s] = 0 /\ refs'[s] = {}
        BY <3>1, DisposeIs
      <4>2. QED BY <4>1
    <3>2. CASE s \notin gone
      <4>1. max'[s] = max[s] /\ ((refs'[s] = {}) <=> (refs[s] = {}))
        BY <3>2, DisposeIs
      <4>2. QED BY <4>1, <2>1
    <3>3. QED BY <3>1, <3>2
  <2>3. QED BY <2>2 DEF RefsKeepAlive
<1>4. Items(<< >>) = {} /\ NoDup(<< >>)
    BY DEF Items, NoDup
<1>5. ASSUME NEW s \in Sems
      PROVE  /\ NoDup(waitQ'[s]) /\ Items(waitQ'[s]) \subseteq Items(waitQ[s])
             /\ waitQ'[s] # << >> => passes'[s] = 0
             /\ \A th \in Items(waitQ'[s]) : tst'[th] = "waiting" /\ th[1] \in refs'[s]
  <2>1. CASE s \in gone
    BY <2>1, <1>4, DisposeIs
  <2>2. CASE s \notin gone
    <3>1. waitQ'[s] = q[s] /\ passes'[s] = passes[s]
        BY <2>2, DisposeIs
    <3>2. q[s] # << >> => waitQ[s] # << >>
      <4>1. (q[s] # << >>) <=> (Items(q[s]) # {})
        BY EmptyItems
      <4>2. QED BY <4>1, QueueIs
    <3>3. QED BY <3>1, <3>2, <2>2, QueueIs
  <2>3. QED BY <2>1, <2>2
<1>6. QueuesHaveNoDup' /\ WaitersAreRight'
    BY <1>5, QueuesShrink
<1>7. QED BY <1>1, <1>2, <1>3, <1>6 DEF SemInv

LEMMA StepClose ==
    ASSUME SemInv, NEW th \in Thread, NEW s \in Sems, Close(th, s)
    PROVE  SemInv'
<1> DEFINE p == th[1]
           W == Woken(p, s)
           q == [waitQ EXCEPT ![s] = Drop(@, W)]
           gone == IF refs[s] = {p} THEN {s} ELSE {}
<1>1. /\ max[s] > 0 /\ p \in refs[s] /\ p \in Procs
      /\ tst' = [u \in Thread |-> IF u \in W THEN "ready" ELSE tst[u]]
      /\ refs' = [refs EXCEPT ![s] = @ \ {p}]
      /\ Dispose(gone, q) /\ dangling' = dangling \cup Left(gone, q)
      /\ pst' = pst
    BY DEF Close, Has, Wakes, Thread
<1>2. \A u : u \in W <=> u \in Items(waitQ[s]) /\ u[1] = p
    BY DEF Woken
<1>3. /\ Drop(waitQ[s], W) \in Seq(Thread)
      /\ Items(Drop(waitQ[s], W)) = Items(waitQ[s]) \ W
      /\ NoDup(Drop(waitQ[s], W))
    BY DropProps, QueueIs
<1>4. /\ q \in [Sems -> Seq(Thread)] /\ q[s] = Drop(waitQ[s], W)
      /\ \A r \in Sems : r # s => q[r] = waitQ[r]
    BY <1>3 DEF SemInv, SemTypes
<1> HIDE DEF W, q, gone
<1>5. ASSUME NEW r \in Sems
      PROVE  /\ NoDup(q[r]) /\ Items(q[r]) \subseteq Items(waitQ[r])
             /\ r = s => Items(q[r]) = Items(waitQ[r]) \ W
    BY <1>3, <1>4, QueueIs
<1>6. ThreadsAreOfLive'
  <2>1. \A u \in W : pst[u[1]] = "live"
    BY <1>2, QueueIs
  <2>2. QED BY <1>1, <2>1 DEF SemInv, ThreadsAreOfLive
<1>7. \A r \in Sems : r \in gone <=> r = s /\ refs[s] = {p}
    BY DEF gone
<1>8. OthersUndisturbed'
  <2>1. ASSUME NEW r \in gone PROVE Items(q[r]) = {}
    <3>1. r = s /\ refs[s] = {p}
        BY <2>1 DEF gone
    <3>2. \A u \in Items(waitQ[s]) : u \in W
        BY <3>1, <1>2, QueueIs
    <3>3. QED BY <3>1, <3>2, <1>5
  <2>2. Left(gone, q) = {}
    BY <2>1 DEF Left
  <2>3. QED BY <1>1, <2>2 DEF SemInv, OthersUndisturbed
<1>9. /\ refs' \in [Sems -> SUBSET Procs] /\ refs'[s] = refs[s] \ {p}
      /\ \A r \in Sems : r # s => refs'[r] = refs[r]
    BY <1>1 DEF SemInv, SemTypes
<1>10. ASSUME NEW r \in Sems
       PROVE  /\ r \in gone => refs'[r] = {}
              /\ r \notin gone => ((refs'[r] = {}) <=> (refs[r] = {}))
              /\ \A o \in refs'[r] : pst'[o] # "free"
  <2>1. r \in gone => refs'[r] = {}
    BY <1>7, <1>9
  <2>2. ASSUME r \notin gone PROVE (refs'[r] = {}) <=> (refs[r] = {})
    <3>1. CASE r # s
        BY <3>1, <1>9
    <3>2. CASE r = s
      <4>1. refs[s] # {p}
        BY <3>2, <2>2, <1>7
      <4>2. PICK o \in refs[s] : o # p
        BY <4>1, <1>1
      <4>3. o \in refs'[s]
        BY <4>2, <1>9
      <4>4. QED BY <4>2, <4>3, <3>2
    <3>3. QED BY <3>1, <3>2
  <2>3. \A o \in refs'[r] : pst'[o] # "free"
    BY <1>1, <1>9 DEF SemInv, RefsKeepAlive
  <2>4. QED BY <2>1, <2>2, <2>3
<1>11. ASSUME NEW r \in Sems, NEW u \in Items(q[r]), r \notin gone
       PROVE  tst'[u] = "waiting" /\ u[1] \in refs'[r]
  <2>1. u \in Thread /\ tst[u] = "waiting" /\ u[1] \in refs[r] /\ u \in Items(waitQ[r])
    BY <1>5, QueueIs
  <2>2. u \notin W
    BY <2>1, <1>2, <1>5 DEF SemInv, WaitersAreRight
  <2>3. r = s => u[1] # p
    BY <2>1, <2>2, <1>2
  <2>4. QED BY <2>1, <2>2, <2>3, <1>1, <1>9
<1>12. /\ pst' \in [Procs -> {"free", "live", "zombie"}]
       /\ tst' \in [Thread -> {"none", "ready", "waiting", "detached"}]
    BY <1>1 DEF SemInv, SemTypes
<1>13. QED BY <1>1, <1>4, <1>5, <1>6, <1>8, <1>9, <1>10, <1>11, <1>12, FreeingKeeps

-----------------------------------------------------------------------------
(* Process calls, with the plugin's hooks                                  *)

(* A step of the processes in which nobody who waits is disturbed.         *)
LEMMA WaitersUndisturbed ==
    ASSUME SemInv, UNCHANGED semVars,
           pst' \in [Procs -> {"free", "live", "zombie"}],
           tst' \in [Thread -> {"none", "ready", "waiting", "detached"}],
           ThreadsAreOfLive',
           \A p \in Procs : pst[p] # "free" => pst'[p] # "free",
           \A th \in Thread : tst[th] = "waiting" => tst'[th] = "waiting"
    PROVE  SemInv'
<1>1. /\ max' = max /\ passes' = passes /\ refs' = refs /\ waitQ' = waitQ
      /\ lent' = lent /\ dangling' = dangling
    BY DEF semVars
<1>2. SemTypes'
    BY <1>1 DEF SemInv, SemTypes
<1>3. /\ NoMoreThanMax' /\ PassesConserved' /\ OthersUndisturbed'
    BY <1>1 DEF SemInv, NoMoreThanMax, PassesConserved, OthersUndisturbed
<1>4. RefsKeepAlive'
    BY <1>1 DEF SemInv, SemTypes, RefsKeepAlive
<1>5. QueuesHaveNoDup' /\ WaitersAreRight'
  <2>1. \A s \in Sems : /\ NoDup(waitQ'[s]) /\ Items(waitQ'[s]) \subseteq Items(waitQ[s])
                        /\ waitQ'[s] # << >> => passes'[s] = 0
                        /\ \A th \in Items(waitQ'[s]) :
                              tst'[th] = "waiting" /\ th[1] \in refs'[s]
    BY <1>1, QueueIs
  <2>2. QED BY <2>1, QueuesShrink
<1>6. QED BY <1>2, <1>3, <1>4, <1>5 DEF SemInv

LEMMA StepSpawn ==
    ASSUME SemInv, NEW th \in Thread, NEW u \in Thread, Spawn(th, u)
    PROVE  SemInv'
<1>1. /\ tst[th] = "ready" /\ u[1] = th[1] /\ tst[u] = "none"
      /\ tst' = [tst EXCEPT ![u] = "ready"] /\ pst' = pst /\ UNCHANGED semVars
    BY DEF Spawn, Spawns, Running
<1>2. pst[u[1]] = "live"
    BY <1>1 DEF SemInv, ThreadsAreOfLive
<1>3. ThreadsAreOfLive'
    BY <1>1, <1>2 DEF SemInv, SemTypes, ThreadsAreOfLive
<1>4. QED BY <1>1, <1>3, WaitersUndisturbed DEF SemInv, SemTypes

LEMMA StepEndThread ==
    ASSUME SemInv, NEW th \in Thread, EndThread(th)
    PROVE  SemInv'
<1>1. /\ tst[th] = "ready" /\ tst' = [tst EXCEPT ![th] = "none"]
      /\ pst' = pst /\ UNCHANGED semVars
    BY DEF EndThread, EndsThread, Running
<1>2. ThreadsAreOfLive'
    BY <1>1 DEF SemInv, SemTypes, ThreadsAreOfLive
<1>3. QED BY <1>1, <1>2, WaitersUndisturbed DEF SemInv, SemTypes

LEMMA StepFork ==
    ASSUME SemInv, NEW th \in Thread, NEW c \in Procs, Fork(th, c)
    PROVE  SemInv'
<1> DEFINE p == th[1]
           u == <<c, th[2]>>
<1>1. /\ tst[th] = "ready" /\ pst[c] = "free" /\ pst' = [pst EXCEPT ![c] = "live"]
      /\ tst' = [tst EXCEPT ![u] = "ready"]
      /\ refs' = [s \in Sems |-> IF p \in refs[s] THEN refs[s] \cup {c} ELSE refs[s]]
      /\ max' = max /\ passes' = passes /\ waitQ' = waitQ /\ dangling' = dangling
      /\ lent' = lent
    BY DEF Fork, Forks, Running, CopyRefs
<1>2. u \in Thread /\ u[1] = c
    BY DEF Thread
<1> HIDE DEF u
<1>3. /\ pst' \in [Procs -> {"free", "live", "zombie"}] /\ pst'[c] = "live"
      /\ \A o \in Procs : o # c => pst'[o] = pst[o]
      /\ tst' \in [Thread -> {"none", "ready", "waiting", "detached"}]
      /\ \A v \in Thread : v # u => tst'[v] = tst[v]
    BY <1>1, <1>2 DEF SemInv, SemTypes
<1>4. refs' \in [Sems -> SUBSET Procs]
    BY <1>1 DEF SemInv, SemTypes
<1>5. SemTypes'
    BY <1>1, <1>3, <1>4 DEF SemInv, SemTypes
<1>6. ThreadsAreOfLive'
    BY <1>1, <1>2, <1>3 DEF SemInv, ThreadsAreOfLive, Thread
<1>7. NoMoreThanMax' /\ PassesConserved' /\ OthersUndisturbed'
    BY <1>1 DEF SemInv, NoMoreThanMax, PassesConserved, OthersUndisturbed
<1>8. RefsKeepAlive'
  <2>1. \A s \in Sems : /\ (max[s] > 0) <=> (refs[s] # {})
                        /\ \A o \in refs[s] : o \in Procs /\ pst[o] # "free"
    BY DEF SemInv, SemTypes, RefsKeepAlive
  <2>2. ASSUME NEW s \in Sems PROVE (refs[s] # {}) <=> (refs'[s] # {})
    BY <1>1
  <2>3. ASSUME NEW s \in Sems, NEW o \in refs'[s] PROVE pst'[o] # "free"
    BY <1>1, <1>3, <2>1
  <2>4. QED BY <1>1, <2>1, <2>2, <2>3 DEF RefsKeepAlive
<1>9. QueuesHaveNoDup' /\ WaitersAreRight'
  <2>1. tst[u] = "none"
    BY <1>1, <1>2 DEF SemInv, SemTypes, ThreadsAreOfLive
  <2>2. \A s \in Sems : refs[s] \subseteq refs'[s]
    BY <1>1
  <2>3. \A s \in Sems : /\ NoDup(waitQ'[s]) /\ Items(waitQ'[s]) \subseteq Items(waitQ[s])
                        /\ waitQ'[s] # << >> => passes'[s] = 0
                        /\ \A v \in Items(waitQ'[s]) :
                              tst'[v] = "waiting" /\ v[1] \in refs'[s]
    BY <1>1, <1>3, <2>1, <2>2, QueueIs
  <2>4. QED BY <2>3, QueuesShrink
<1>10. QED BY <1>5, <1>6, <1>7, <1>8, <1>9 DEF SemInv

(* The queues without the threads of a process.                            *)
LEMMA DetachedTyped ==
    ASSUME SemInv, NEW ths
    PROVE  Detached(ths) \in [Sems -> Seq(Thread)]
<1>1. \A s \in Sems : Drop(waitQ[s], ths) \in Seq(Thread)
    BY DropProps, QueueIs
<1>2. QED BY <1>1 DEF Detached

LEMMA DetachedIs ==
    ASSUME SemInv, NEW p \in Procs, NEW s \in Sems
    PROVE  /\ Detached(ThreadsOf(p))[s] \in Seq(Thread)
           /\ NoDup(Detached(ThreadsOf(p))[s])
           /\ \A u : u \in Items(Detached(ThreadsOf(p))[s]) <=>
                        u \in Items(waitQ[s]) /\ u[1] # p
<1>2. Detached(ThreadsOf(p))[s] \in Seq(Thread)
    BY DetachedTyped
<1>3. Detached(ThreadsOf(p))[s] = Drop(waitQ[s], ThreadsOf(p))
    BY DEF Detached
<1>4. /\ NoDup(Drop(waitQ[s], ThreadsOf(p)))
      /\ Items(Drop(waitQ[s], ThreadsOf(p))) = Items(waitQ[s]) \ ThreadsOf(p)
    BY DropProps, QueueIs
<1>5. \A u \in Thread : u \in ThreadsOf(p) <=> u[1] = p
    BY DEF ThreadsOf, Thread
<1>6. Items(waitQ[s]) \subseteq Thread
    BY QueueIs
<1>7. QED BY <1>2, <1>3, <1>4, <1>5, <1>6

LEMMA StepExit ==
    ASSUME SemInv, NEW th \in Thread, Exit(th)
    PROVE  SemInv'
<1> DEFINE p == th[1]
<1>1. /\ p \in Procs /\ pst' = [pst EXCEPT ![p] = "zombie"]
      /\ tst' = [u \in Thread |-> IF u[1] = p THEN "none" ELSE tst[u]]
      /\ waitQ' = Detached(ThreadsOf(p))
      /\ max' = max /\ passes' = passes /\ refs' = refs /\ dangling' = dangling
      /\ lent' = lent
    BY DEF Exit, Exits, Thread
<1> HIDE DEF p
<1>2. SemTypes'
    BY <1>1, DetachedTyped DEF SemInv, SemTypes
<1>3. ThreadsAreOfLive'
    BY <1>1 DEF SemInv, SemTypes, ThreadsAreOfLive, Thread
<1>4. NoMoreThanMax' /\ PassesConserved' /\ OthersUndisturbed'
    BY <1>1 DEF SemInv, NoMoreThanMax, PassesConserved, OthersUndisturbed
<1>5. RefsKeepAlive'
    BY <1>1 DEF SemInv, SemTypes, RefsKeepAlive
<1>6. ASSUME NEW s \in Sems
      PROVE  /\ NoDup(waitQ'[s]) /\ Items(waitQ'[s]) \subseteq Items(waitQ[s])
             /\ waitQ'[s] # << >> => passes'[s] = 0
             /\ \A u \in Items(waitQ'[s]) : tst'[u] = "waiting" /\ u[1] \in refs'[s]
  <2>1. /\ waitQ'[s] \in Seq(Thread) /\ NoDup(waitQ'[s])
        /\ Items(waitQ'[s]) \subseteq Items(waitQ[s])
        /\ \A u \in Items(waitQ'[s]) : u[1] # p
    BY <1>1, DetachedIs
  <2>2. waitQ'[s] # << >> => passes'[s] = 0
    <3>1. (waitQ'[s] # << >>) <=> (Items(waitQ'[s]) # {})
        BY <2>1, EmptyItems
    <3>2. QED BY <3>1, <2>1, <1>1, QueueIs
  <2>3. \A u \in Items(waitQ'[s]) : tst'[u] = "waiting" /\ u[1] \in refs'[s]
    BY <1>1, <2>1, QueueIs
  <2>4. QED BY <2>1, <2>2, <2>3
<1>7. QueuesHaveNoDup' /\ WaitersAreRight'
    BY <1>6, QueuesShrink
<1>8. QED BY <1>2, <1>3, <1>4, <1>5, <1>7 DEF SemInv

(* The bits of a process are cleared: the semaphores only it referred to   *)
(* are those that have none left.                                          *)
LEMMA ClearedIs ==
    ASSUME SemInv, NEW p \in Procs, ClearRefs(p), NEW s \in Sems
    PROVE  /\ refs' \in [Sems -> SUBSET Procs] /\ refs'[s] = refs[s] \ {p}
           /\ s \in Only(p) => refs'[s] = {}
           /\ s \notin Only(p) => ((refs'[s] = {}) <=> (refs[s] = {}))
<1>1. refs' \in [Sems -> SUBSET Procs] /\ refs'[s] = refs[s] \ {p}
    BY DEF ClearRefs, SemInv, SemTypes
<1>2. s \in Only(p) <=> refs[s] = {p}
    BY DEF Only
<1>3. ASSUME refs[s] # {p} PROVE (refs'[s] = {}) <=> (refs[s] = {})
  <2>1. CASE p \notin refs[s]
    BY <2>1, <1>1
  <2>2. CASE p \in refs[s]
    <3>1. PICK o \in refs[s] : o # p
        BY <2>2, <1>3
    <3>2. QED BY <3>1, <1>1
  <2>3. QED BY <2>1, <2>2
<1>4. QED BY <1>1, <1>2, <1>3

LEMMA StepReap ==
    ASSUME SemInv, NEW p \in Procs, Reap(p)
    PROVE  SemInv'
<1>1. /\ pst[p] = "zombie" /\ pst' = [pst EXCEPT ![p] = "free"] /\ tst' = tst
      /\ ClearRefs(p) /\ Dispose(Only(p), waitQ)
      /\ dangling' = dangling \cup Left(Only(p), waitQ)
    BY DEF Reap, Reaps
<1>2. waitQ \in [Sems -> Seq(Thread)]
    BY DEF SemInv, SemTypes
<1>3. \A s \in Sems : \A u \in Items(waitQ[s]) : u[1] # p
    BY <1>1, QueueIs
<1>4. OthersUndisturbed'
  <2>1. \A s \in Only(p) : Items(waitQ[s]) = {}
    BY <1>3, QueueIs DEF Only
  <2>2. Left(Only(p), waitQ) = {}
    BY <2>1 DEF Left
  <2>3. QED BY <1>1, <2>2 DEF SemInv, OthersUndisturbed
<1>5. /\ pst' \in [Procs -> {"free", "live", "zombie"}]
      /\ tst' \in [Thread -> {"none", "ready", "waiting", "detached"}]
    BY <1>1 DEF SemInv, SemTypes
<1>6. ThreadsAreOfLive'
    BY <1>1 DEF SemInv, SemTypes, ThreadsAreOfLive, Thread
<1>7. refs' \in [Sems -> SUBSET Procs]
    BY <1>1, ClearedIs DEF ClearRefs, SemInv, SemTypes
<1>8. ASSUME NEW s \in Sems
      PROVE  /\ NoDup(waitQ[s]) /\ Items(waitQ[s]) \subseteq Items(waitQ[s])
             /\ (s \in Only(p)) => (refs'[s] = {})
             /\ (s \notin Only(p)) => ((refs'[s] = {}) <=> (refs[s] = {}))
             /\ \A o \in refs'[s] : pst'[o] # "free"
             /\ (s \notin Only(p)) => \A u \in Items(waitQ[s]) :
                    tst'[u] = "waiting" /\ u[1] \in refs'[s]
  <2>1. refs'[s] = refs[s] \ {p}
    BY <1>1, ClearedIs
  <2>2. \A o \in refs'[s] : pst'[o] # "free"
    BY <1>1, <2>1 DEF SemInv, SemTypes, RefsKeepAlive
  <2>3. \A u \in Items(waitQ[s]) : tst'[u] = "waiting" /\ u[1] \in refs'[s]
    BY <1>1, <1>3, <2>1, QueueIs
  <2>4. QED BY <1>1, <2>2, <2>3, ClearedIs, QueueIs
<1>9. QED BY <1>1, <1>2, <1>4, <1>5, <1>6, <1>7, <1>8, FreeingKeeps, ZenonT(60)

(* The threads whose queues an exec frees are all of the process itself,   *)
(* so nothing dangles after it, whether or not it broke the kernel.        *)
LEMMA StepExec ==
    ASSUME SemInv, NEW th \in Thread, Exec(th)
    PROVE  SemInv'
<1> DEFINE p == th[1]
           q == Detached(ThreadsOf(p))
<1>1. /\ p \in Procs /\ pst' = pst /\ tst[th] = "ready"
      /\ tst' = [u \in Thread |-> IF u[1] # p THEN tst[u]
                                  ELSE IF u[2] = main[p] THEN "ready" ELSE "none"]
      /\ ClearRefs(p) /\ Dispose(Only(p), q)
      /\ dangling' = (dangling \cup Left(Only(p), waitQ)) \ ThreadsOf(p)
    BY DEF Exec, Execs, AfterExec, Running, Thread
<1>2. pst[p] = "live"
    BY <1>1 DEF SemInv, ThreadsAreOfLive
<1> HIDE DEF p
<1>3. q \in [Sems -> Seq(Thread)]
    BY DetachedTyped
<1> HIDE DEF q
<1>4. OthersUndisturbed'
  <2>1. ASSUME NEW s \in Only(p), NEW u \in Items(waitQ[s]) PROVE u \in ThreadsOf(p)
    <3>1. u \in Thread /\ u[1] = p
        BY QueueIs DEF Only
    <3>2. QED BY <3>1 DEF Thread, ThreadsOf
  <2>2. Left(Only(p), waitQ) \subseteq ThreadsOf(p)
    BY <2>1 DEF Left
  <2>3. QED BY <1>1, <2>2 DEF SemInv, OthersUndisturbed
<1>5. /\ pst' \in [Procs -> {"free", "live", "zombie"}]
      /\ tst' \in [Thread -> {"none", "ready", "waiting", "detached"}]
    BY <1>1 DEF SemInv, SemTypes
<1>6. ThreadsAreOfLive'
    BY <1>1, <1>2 DEF SemInv, SemTypes, ThreadsAreOfLive
<1>7. refs' \in [Sems -> SUBSET Procs]
    BY <1>1 DEF ClearRefs, SemInv, SemTypes
<1>8. ASSUME NEW s \in Sems
      PROVE  /\ NoDup(q[s]) /\ Items(q[s]) \subseteq Items(waitQ[s])
             /\ (s \in Only(p)) => (refs'[s] = {})
             /\ (s \notin Only(p)) => ((refs'[s] = {}) <=> (refs[s] = {}))
             /\ \A o \in refs'[s] : pst'[o] # "free"
             /\ (s \notin Only(p)) => \A u \in Items(q[s]) :
                    tst'[u] = "waiting" /\ u[1] \in refs'[s]
  <2>1. refs'[s] = refs[s] \ {p}
    BY <1>1, ClearedIs
  <2>2. NoDup(q[s]) /\ \A u : u \in Items(q[s]) <=> u \in Items(waitQ[s]) /\ u[1] # p
    BY <1>1, DetachedIs DEF q
  <2>3. \A o \in refs'[s] : pst'[o] # "free"
    BY <1>1, <2>1 DEF SemInv, SemTypes, RefsKeepAlive
  <2>4. \A u \in Items(q[s]) : tst'[u] = "waiting" /\ u[1] \in refs'[s]
    BY <1>1, <2>1, <2>2, QueueIs
  <2>5. QED BY <1>1, <2>2, <2>3, <2>4, ClearedIs
<1>9. QED BY <1>1, <1>3, <1>4, <1>5, <1>6, <1>7, <1>8, FreeingKeeps, ZenonT(60)

-----------------------------------------------------------------------------
LEMMA SemStep ==
    ASSUME MaxPasses \in Nat, SemInv, [Next]_vars
    PROVE  SemInv'
<1>1. ASSUME NEW th \in Thread, NEW s \in Sems, NEW m \in 1 .. MaxPasses, NewSem(th, s, m)
      PROVE  SemInv'
    BY <1>1, StepNewSem
<1>2. ASSUME NEW th \in Thread, NEW s \in Sems, Dec(th, s) \/ Inc(th, s) \/ Close(th, s)
      PROVE  SemInv'
    BY <1>2, StepDec, StepInc, StepClose
<1>3. ASSUME NEW th \in Thread, NEW u \in Thread, Spawn(th, u) PROVE SemInv'
    BY <1>3, StepSpawn
<1>4. ASSUME NEW th \in Thread, NEW c \in Procs, Fork(th, c) PROVE SemInv'
    BY <1>4, StepFork
<1>5. ASSUME NEW th \in Thread, EndThread(th) \/ Exit(th) \/ Exec(th) PROVE SemInv'
    BY <1>5, StepEndThread, StepExit, StepExec
<1>6. ASSUME NEW p \in Procs, Reap(p) PROVE SemInv'
    BY <1>6, StepReap
<1>7. CASE UNCHANGED vars
  <2>1. pst' = pst /\ tst' = tst /\ UNCHANGED semVars
    BY <1>7 DEF vars, processVars
  <2>2. ThreadsAreOfLive'
    BY <2>1 DEF SemInv, ThreadsAreOfLive
  <2>3. QED BY <2>1, <2>2, WaitersUndisturbed DEF SemInv, SemTypes
<1>8. QED BY <1>1, <1>2, <1>3, <1>4, <1>5, <1>6, <1>7 DEF Next

(* Whatever the processes do, a semaphore's passes are lent or left, and   *)
(* never more than it was made with.                                       *)
THEOREM PassesAreConserved ==
    ASSUME MaxPasses \in Nat
    PROVE  Spec => [](PassesConserved /\ NoMoreThanMax)
<1>1. SemInv /\ [Next]_vars => SemInv'
    BY SemStep
<1>2. SemInv => PassesConserved /\ NoMoreThanMax
    BY DEF SemInv
<1>3. QED BY SemInit, <1>1, <1>2, PTL DEF Spec

(* Whoever waits for a semaphore waits because it has no pass, in one      *)
(* queue, of a semaphore its process refers to; that semaphore lives, and  *)
(* no close or death frees a queue another process' thread is in.          *)
THEOREM SemaphoreWaitersAreRight ==
    ASSUME MaxPasses \in Nat
    PROVE  Spec => [](WaitersAreRight /\ RefsKeepAlive /\ OthersUndisturbed)
<1>1. SemInv /\ [Next]_vars => SemInv'
    BY SemStep
<1>2. SemInv => WaitersAreRight /\ RefsKeepAlive /\ OthersUndisturbed
    BY DEF SemInv
<1>3. QED BY SemInit, <1>1, <1>2, PTL DEF Spec
=============================================================================
