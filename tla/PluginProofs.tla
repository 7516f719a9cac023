---------------------------- MODULE PluginProofs ----------------------------
(***************************************************************************)
(* What the plugins promise of the processes that use them, for any        *)
(* processes, threads, semaphores, addresses and handles: one inductive    *)
(* invariant per part, which is that of the part's module.                 *)
(***************************************************************************)
EXTENDS Plugins, QueueLemmas, FiniteSetTheorems

-----------------------------------------------------------------------------
(* Semaphores: SemaphoreProofs has the invariant.  As long as another part *)
(* is driven, there is no semaphore.                                       *)

SP == INSTANCE SemaphoreProofs WITH waitQ <- semQ

NoSemaphores ==
    /\ max = [s \in Sems |-> 0] /\ passes = max /\ lent = max
    /\ refs = [s \in Sems |-> {}] /\ semQ = [s \in Sems |-> << >>] /\ dangling = {}

SemPart == IF part = "semaphores" THEN SP!SemInv ELSE NoSemaphores

LEMMA SameSemaphores ==
    /\ S!Init => SP!Init
    /\ S!Next => SP!Next
BY DEF S!Init, SP!Init, S!Next, SP!Next, S!ProcessInit, SP!ProcessInit,
           S!Thread, SP!Thread, S!ThreadsOf, SP!ThreadsOf, S!processVars,
           SP!processVars, S!semVars, SP!semVars, S!Running, SP!Running,
           S!Sleeps, SP!Sleeps, S!Wakes, SP!Wakes, S!Spawns, SP!Spawns, S!Forks,
           SP!Forks, S!EndsThread, SP!EndsThread, S!Exits, SP!Exits, S!Reaps,
           SP!Reaps, S!AfterExec, SP!AfterExec, S!Execs, SP!Execs, S!Enter,
           SP!Enter, S!Has, SP!Has, S!Dispose, SP!Dispose, S!Left, SP!Left,
           S!NewSem, SP!NewSem, S!Dec, SP!Dec, S!Inc, SP!Inc, S!Woken, SP!Woken,
           S!Close, SP!Close, S!Spawn, SP!Spawn, S!EndThread, SP!EndThread,
           S!CopyRefs, SP!CopyRefs, S!Fork, SP!Fork, S!Detached, SP!Detached,
           S!Exit, SP!Exit, S!Only, SP!Only, S!ClearRefs, SP!ClearRefs, S!Reap,
           SP!Reap, S!Exec, SP!Exec, S!Items, SP!Items, S!Drop, SP!Drop

LEMMA NoSemaphoresAreRight ==
    NoSemaphores => PassesConserved /\ WaitersAreRight
<1> SUFFICES ASSUME NoSemaphores PROVE PassesConserved /\ WaitersAreRight
    OBVIOUS
<1>1. \A s \in Sems : S!Items(semQ[s]) = {}
    BY DEF NoSemaphores, S!Items
<1>2. QED
    BY <1>1 DEF NoSemaphores, PassesConserved, WaitersAreRight, S!PassesConserved,
                S!WaitersAreRight, S!RefsKeepAlive, S!OthersUndisturbed

LEMMA SemInvIsRight ==
    SP!SemInv => PassesConserved /\ WaitersAreRight
BY DEF SP!SemInv, PassesConserved, WaitersAreRight, S!PassesConserved, SP!PassesConserved,
       S!WaitersAreRight, SP!WaitersAreRight, S!RefsKeepAlive, SP!RefsKeepAlive,
       S!OthersUndisturbed, SP!OthersUndisturbed, S!Items, SP!Items

LEMMA SemPartInit == Init => SemPart
<1>1. Init => SP!SemInv
    BY SameSemaphores, SP!SemInit DEF Init
<1>2. Init => NoSemaphores
    BY DEF Init, S!Init, NoSemaphores
<1>3. QED BY <1>1, <1>2 DEF SemPart

LEMMA SemPartStep ==
    ASSUME SemPart, [Next]_vars
    PROVE  SemPart'
<1>1. part' = part
    BY DEF Next, vars
<1>2. CASE part = "semaphores"
  <2>1. SP!Next \/ UNCHANGED SP!vars
    BY <1>2, SameSemaphores DEF Next, vars, semVars, SP!vars, SP!processVars, SP!semVars
  <2>2. SP!SemInv'
    BY <1>2, <2>1, PluginsAssumption, SP!SemStep DEF SemPart
  <2>3. QED BY <1>1, <1>2, <2>2 DEF SemPart
<1>3. CASE part # "semaphores"
    BY <1>1, <1>3 DEF Next, vars, semVars, SemPart, NoSemaphores
<1>4. QED BY <1>2, <1>3

(* The passes a semaphore was made with are lent or left, whoever was      *)
(* woken, closed it, replaced its program or died (plugin_shm.c).          *)
THEOREM PassesStayConserved ==
    Spec => []PassesConserved
<1>1. SemPart /\ [Next]_vars => SemPart'
    BY SemPartStep
<1>2. SemPart => PassesConserved
    BY NoSemaphoresAreRight, SemInvIsRight DEF SemPart
<1>3. QED BY SemPartInit, <1>1, <1>2, PTL DEF Spec

(* Whoever waits for a semaphore waits because it has no pass, in one      *)
(* queue, of a semaphore its process refers to; that semaphore lives, and  *)
(* no close or death frees a queue another process' thread is in.          *)
THEOREM WaitersStayRight ==
    Spec => []WaitersAreRight
<1>1. SemPart /\ [Next]_vars => SemPart'
    BY SemPartStep
<1>2. SemPart => WaitersAreRight
    BY NoSemaphoresAreRight, SemInvIsRight DEF SemPart
<1>3. QED BY SemPartInit, <1>1, <1>2, PTL DEF Spec

-----------------------------------------------------------------------------
(* Futexes *)

Fut == Procs \X Addrs
Threads == Procs \X Tids

(* Only a live process has threads.                                        *)
ThreadsAreOfLive == \A th \in Threads : tst[th] # "none" => pst[th[1]] = "live"

FutTypes ==
    /\ pst \in [Procs -> {"free", "live", "zombie"}]
    /\ tst \in [Threads -> {"none", "ready", "waiting", "detached"}]
    /\ hasMap \subseteq Procs /\ futs \subseteq Fut
    /\ futQ \in [Fut -> Seq(Threads)]

FutInv ==
    /\ FutTypes
    /\ ThreadsAreOfLive
    /\ \A f \in Fut : NoDup(futQ[f])
    /\ F!MapsFollowProcesses
    /\ F!FutexWaitersAreRight

(* The queues of the instance are those of QueueLemmas.                    *)
LEMMA FutexOps ==
    /\ F!Thread = Threads
    /\ \A q : F!Items(q) = Items(q)
    /\ \A q, T : F!Drop(q, T) = Drop(q, T)
BY DEF F!Thread, Threads, F!Items, Items, F!Drop, Drop

(* What the invariant says of a queue, and of a thread that waits.         *)
LEMMA FutQueueIs ==
    ASSUME FutInv, NEW f \in Fut
    PROVE  /\ futQ[f] \in Seq(Threads) /\ NoDup(futQ[f]) /\ Items(futQ[f]) \subseteq Threads
           /\ \A th \in Items(futQ[f]) :
                 /\ f \in futs /\ th[1] = f[1] /\ tst[th] = "waiting" /\ pst[f[1]] = "live"
                 /\ \A g \in Fut : th \in Items(futQ[g]) => g = f
<1>1. futQ[f] \in Seq(Threads) /\ NoDup(futQ[f])
    BY DEF FutInv, FutTypes
<1>2. Items(futQ[f]) \subseteq Threads
    BY <1>1 DEF Items
<1>3. \A th \in Items(futQ[f]) : f \in futs /\ th[1] = f[1] /\ tst[th] = "waiting"
    BY FutexOps DEF FutInv, F!FutexWaitersAreRight, Fut
<1>4. \A th \in Items(futQ[f]) : pst[f[1]] = "live"
    BY <1>2, <1>3 DEF FutInv, ThreadsAreOfLive
<1>5. \A th \in Items(futQ[f]) : \A g \in Fut : th \in Items(futQ[g]) => g = f
    BY FutexOps DEF FutInv, F!FutexWaitersAreRight, Fut
<1>6. QED BY <1>1, <1>2, <1>3, <1>4, <1>5

LEMMA FutWaiterIs ==
    ASSUME FutInv, NEW th \in Threads, tst[th] = "waiting"
    PROVE  \E f \in futs : f \in Fut /\ f[1] = th[1] /\ th \in Items(futQ[f])
<1>1. PICK f \in futs : th \in Items(futQ[f])
    BY FutexOps DEF FutInv, F!FutexWaitersAreRight
<1>2. f \in Fut
    BY DEF FutInv, FutTypes
<1>3. f[1] = th[1]
    BY <1>1, <1>2, FutQueueIs
<1>4. QED BY <1>1, <1>2, <1>3

(* Queues that only lose threads, which are then not waiting, stay right.  *)
LEMMA FutQueuesShrink ==
    ASSUME FutInv,
           \A f \in Fut : /\ NoDup(futQ'[f]) /\ Items(futQ'[f]) \subseteq Items(futQ[f])
                          /\ \A th \in Items(futQ'[f]) : f \in futs' /\ tst'[th] = "waiting",
           \A th \in Threads : tst'[th] = "waiting" =>
              /\ tst[th] = "waiting"
              /\ \A f \in Fut : th \in Items(futQ[f]) => f \in futs' /\ th \in Items(futQ'[f])
    PROVE  (\A f \in Fut : NoDup(futQ'[f])) /\ F!FutexWaitersAreRight'
<1>1. \A f \in Fut : \A th \in Items(futQ'[f]) :
         f \in futs' /\ th[1] = f[1] /\ tst'[th] = "waiting"
    BY FutQueueIs
<1>2. \A f, g \in Fut : f # g => Items(futQ'[f]) \cap Items(futQ'[g]) = {}
    BY FutQueueIs
<1>3. \A th \in Threads : tst'[th] = "waiting" => \E f \in futs' : th \in Items(futQ'[f])
    BY FutWaiterIs
<1>4. QED BY <1>1, <1>2, <1>3, FutexOps DEF F!FutexWaitersAreRight, Fut

LEMMA FutInit ==
    ASSUME F!Init
    PROVE  FutInv
<1>1. /\ pst = [p \in Procs |-> IF p = First THEN "live" ELSE "free"]
      /\ tst = [th \in Threads |-> IF th = <<First, 0>> THEN "ready" ELSE "none"]
      /\ hasMap = {First} /\ futs = {} /\ futFatal = "none"
      /\ futQ = [f \in Fut |-> << >>] /\ First \in Procs
    BY PluginsAssumption, FutexOps DEF F!Init, F!ProcessInit, Fut
<1>2. FutTypes /\ ThreadsAreOfLive /\ F!MapsFollowProcesses
    BY <1>1 DEF FutTypes, ThreadsAreOfLive, F!MapsFollowProcesses, Threads
<1>3. \A f \in Fut : NoDup(futQ[f]) /\ Items(futQ[f]) = {}
    BY <1>1 DEF NoDup, Items
<1>4. F!FutexWaitersAreRight
    BY <1>1, <1>3, FutexOps DEF F!FutexWaitersAreRight, Fut
<1>5. QED BY <1>2, <1>3, <1>4 DEF FutInv

LEMMA FutRegister ==
    ASSUME FutInv, NEW th \in Threads, NEW a \in Addrs, F!Register(th, a)
    PROVE  FutInv'
<1>1. /\ tst[th] = "ready" /\ futFatal = "none" /\ futs' = futs \cup {<<th[1], a>>}
      /\ pst' = pst /\ tst' = tst /\ hasMap' = hasMap /\ futFatal' = futFatal /\ futQ' = futQ
    BY DEF F!Register, F!Enter, F!Running, F!Quiet
<1>2. th[1] \in Procs /\ th[1] \in hasMap
    BY <1>1 DEF FutInv, ThreadsAreOfLive, F!MapsFollowProcesses, Threads
<1>3. FutTypes' /\ ThreadsAreOfLive' /\ F!MapsFollowProcesses'
    BY <1>1, <1>2 DEF FutInv, FutTypes, ThreadsAreOfLive, F!MapsFollowProcesses, Fut
<1>4. (\A f \in Fut : NoDup(futQ'[f])) /\ F!FutexWaitersAreRight'
    BY <1>1, FutQueueIs, FutQueuesShrink
<1>5. QED BY <1>3, <1>4 DEF FutInv

(* What wakes is no longer waiting, and nothing else changes.              *)
LEMMA FutWakes ==
    ASSUME FutInv, NEW woken, F!Wakes(woken), woken \subseteq Threads, pst' = pst,
           \A th \in woken : pst[th[1]] = "live"
    PROVE  /\ tst' \in [Threads -> {"none", "ready", "waiting", "detached"}]
           /\ ThreadsAreOfLive'
           /\ \A th \in Threads : tst'[th] = IF th \in woken THEN "ready" ELSE tst[th]
<1>1. tst' = [th \in Threads |-> IF th \in woken THEN "ready" ELSE tst[th]]
    BY FutexOps DEF F!Wakes
<1>2. QED BY <1>1 DEF FutInv, FutTypes, ThreadsAreOfLive

LEMMA FutDeregister ==
    ASSUME FutInv, NEW th \in Threads, NEW a \in Addrs, F!Deregister(th, a)
    PROVE  FutInv'
<1> DEFINE f == <<th[1], a>>
           woken == Items(futQ[f])
<1>1. /\ futs' = futs \ {f} /\ F!Wakes(woken) /\ futQ' = [futQ EXCEPT ![f] = << >>]
      /\ pst' = pst /\ hasMap' = hasMap /\ futFatal' = futFatal
    BY FutexOps DEF F!Deregister, F!Quiet
<1>2. f \in Fut
    BY DEF Threads, Fut
<1> HIDE DEF f
<1>3. woken \subseteq Threads /\ \A u \in woken : pst[u[1]] = "live"
    BY <1>2, FutQueueIs
<1>4. /\ tst' \in [Threads -> {"none", "ready", "waiting", "detached"}]
      /\ ThreadsAreOfLive'
      /\ \A u \in Threads : tst'[u] = IF u \in woken THEN "ready" ELSE tst[u]
    BY <1>1, <1>3, FutWakes
<1>5. FutTypes' /\ F!MapsFollowProcesses'
  <2>1. << >> \in Seq(Threads)
    OBVIOUS
  <2>2. FutTypes'
    BY <1>1, <1>2, <1>4, <2>1 DEF FutInv, FutTypes
  <2>3. F!MapsFollowProcesses'
    BY <1>1 DEF FutInv, F!MapsFollowProcesses
  <2>4. QED BY <2>2, <2>3
<1>6. /\ futQ'[f] = << >> /\ \A g \in Fut : g # f => futQ'[g] = futQ[g]
      /\ Items(futQ'[f]) = {} /\ NoDup(futQ'[f])
    BY <1>1, <1>2 DEF FutInv, FutTypes, Items, NoDup
<1>7. (\A g \in Fut : NoDup(futQ'[g])) /\ F!FutexWaitersAreRight'
  <2>1. \A g \in Fut : /\ NoDup(futQ'[g]) /\ Items(futQ'[g]) \subseteq Items(futQ[g])
                       /\ \A u \in Items(futQ'[g]) : g \in futs' /\ tst'[u] = "waiting"
    BY <1>1, <1>2, <1>4, <1>6, FutQueueIs, SMTT(60)
  <2>2. \A u \in Threads : tst'[u] = "waiting" =>
           /\ tst[u] = "waiting"
           /\ \A g \in Fut : u \in Items(futQ[g]) => g \in futs' /\ u \in Items(futQ'[g])
    BY <1>1, <1>2, <1>4, <1>6, FutQueueIs
  <2>3. QED BY <2>1, <2>2, FutQueuesShrink
<1>8. QED BY <1>4, <1>5, <1>7 DEF FutInv

LEMMA FutWake ==
    ASSUME FutInv, NEW th \in Threads, NEW a \in Addrs, NEW n, F!Wake(th, a, n)
    PROVE  FutInv'
<1> DEFINE f == <<th[1], a>>
           woken == Items(SubSeq(futQ[f], 1, n))
           r == SubSeq(futQ[f], n + 1, Len(futQ[f]))
<1>1. /\ futs' = futs /\ F!Wakes(woken) /\ futQ' = [futQ EXCEPT ![f] = r]
      /\ pst' = pst /\ hasMap' = hasMap /\ futFatal' = futFatal
      /\ f \in futs /\ n \in {1, Len(futQ[f])} /\ n <= Len(futQ[f])
    BY FutexOps DEF F!Wake, F!Quiet
<1>2. f \in Fut
    BY DEF Threads, Fut
<1> HIDE DEF f
<1>3. /\ r \in Seq(Threads) /\ NoDup(r) /\ woken \subseteq Items(futQ[f])
      /\ Items(r) = Items(futQ[f]) \ woken
  <2>1. futQ[f] \in Seq(Threads) /\ NoDup(futQ[f]) /\ n \in 0 .. Len(futQ[f])
    BY <1>1, <1>2, FutQueueIs
  <2>2. QED BY <2>1, CutItems
<1> HIDE DEF woken, r
<1>4. woken \subseteq Threads /\ \A u \in woken : pst[u[1]] = "live"
    BY <1>2, <1>3, FutQueueIs
<1>5. /\ tst' \in [Threads -> {"none", "ready", "waiting", "detached"}]
      /\ ThreadsAreOfLive'
      /\ \A u \in Threads : tst'[u] = IF u \in woken THEN "ready" ELSE tst[u]
    BY <1>1, <1>4, FutWakes
<1>6. FutTypes' /\ F!MapsFollowProcesses'
    BY <1>1, <1>2, <1>3, <1>5 DEF FutInv, FutTypes, F!MapsFollowProcesses
<1>7. futQ'[f] = r /\ \A g \in Fut : g # f => futQ'[g] = futQ[g]
    BY <1>1, <1>2 DEF FutInv, FutTypes
<1>8. (\A g \in Fut : NoDup(futQ'[g])) /\ F!FutexWaitersAreRight'
  <2>1. ASSUME NEW g \in Fut
        PROVE  /\ NoDup(futQ'[g]) /\ Items(futQ'[g]) \subseteq Items(futQ[g])
               /\ \A u \in Items(futQ'[g]) : g \in futs' /\ tst'[u] = "waiting"
    <3>1. NoDup(futQ'[g]) /\ Items(futQ'[g]) \subseteq Items(futQ[g])
        BY <1>3, <1>7, FutQueueIs
    <3>2. \A u \in Items(futQ'[g]) : u \in Threads /\ u \notin woken
        BY <1>2, <1>3, <1>7, FutQueueIs
    <3>3. QED BY <3>1, <3>2, <1>1, <1>5, FutQueueIs
  <2>2. \A u \in Threads : tst'[u] = "waiting" =>
           /\ tst[u] = "waiting"
           /\ \A g \in Fut : u \in Items(futQ[g]) => g \in futs' /\ u \in Items(futQ'[g])
    BY <1>1, <1>2, <1>3, <1>5, <1>7, FutQueueIs
  <2>3. QED BY <2>1, <2>2, FutQueuesShrink
<1>9. QED BY <1>5, <1>6, <1>8 DEF FutInv

LEMMA FutWait ==
    ASSUME FutInv, NEW th \in Threads, NEW a \in Addrs, F!Wait(th, a)
    PROVE  FutInv'
<1> DEFINE f == <<th[1], a>>
<1>1. /\ tst[th] = "ready" /\ f \in futs /\ futFatal = "none"
      /\ pst' = pst /\ hasMap' = hasMap /\ futs' = futs
    BY DEF F!Wait, F!Enter, F!Running
<1>2. f \in Fut /\ f[1] = th[1]
    BY DEF Threads, Fut
<1> HIDE DEF f
<1>3. CASE f \in lost
  <2>1. futFatal' = "futex unreadable" /\ tst' = tst /\ futQ' = futQ
    BY <1>3 DEF F!Wait, f
  <2>2. FutTypes' /\ ThreadsAreOfLive' /\ F!MapsFollowProcesses'
    BY <1>1, <2>1 DEF FutInv, FutTypes, ThreadsAreOfLive, F!MapsFollowProcesses
  <2>3. (\A g \in Fut : NoDup(futQ'[g])) /\ F!FutexWaitersAreRight'
    BY <1>1, <2>1, FutQueueIs, FutQueuesShrink
  <2>4. QED BY <2>2, <2>3 DEF FutInv
<1>4. CASE f \notin lost
  <2>1. /\ futQ' = [futQ EXCEPT ![f] = Append(@, th)]
        /\ tst' = [tst EXCEPT ![th] = "waiting"] /\ futFatal' = futFatal
    BY <1>4 DEF F!Wait, F!Sleeps, f
  <2>2. /\ futQ'[f] = Append(futQ[f], th) /\ \A g \in Fut : g # f => futQ'[g] = futQ[g]
        /\ tst'[th] = "waiting" /\ \A u \in Threads : u # th => tst'[u] = tst[u]
    BY <2>1, <1>2 DEF FutInv, FutTypes
  <2>3. \A g \in Fut : th \notin Items(futQ[g])
    BY <1>1, FutQueueIs
  <2>4. /\ Append(futQ[f], th) \in Seq(Threads)
        /\ Items(futQ'[f]) = Items(futQ[f]) \cup {th} /\ NoDup(futQ'[f])
    BY <1>2, <2>2, <2>3, AppendItems, FutQueueIs
  <2>5. FutTypes' /\ ThreadsAreOfLive' /\ F!MapsFollowProcesses'
    BY <1>1, <1>2, <2>1, <2>4 DEF FutInv, FutTypes, ThreadsAreOfLive, F!MapsFollowProcesses
  <2>6. \A g \in Fut : NoDup(futQ'[g])
    BY <2>2, <2>4, FutQueueIs
  <2>7. \A g \in Fut : \A u \in Items(futQ'[g]) :
           u \in Items(futQ[g]) \/ (g = f /\ u = th)
    BY <2>2, <2>4
  <2>8. \A g \in Fut : \A u \in Items(futQ'[g]) :
           g \in futs' /\ u[1] = g[1] /\ tst'[u] = "waiting"
    <3>1. \A g \in Fut : \A u \in Items(futQ[g]) :
             g \in futs' /\ u[1] = g[1] /\ tst'[u] = "waiting"
        BY <1>1, <2>2, <2>3, FutQueueIs
    <3>2. f \in futs' /\ th[1] = f[1] /\ tst'[th] = "waiting"
        BY <1>1, <1>2, <2>2
    <3>3. QED BY <3>1, <3>2, <2>7
  <2>9. \A g, h \in Fut : g # h => Items(futQ'[g]) \cap Items(futQ'[h]) = {}
    <3>1. \A g, h \in Fut : \A u : u \in Items(futQ[g]) /\ u \in Items(futQ[h]) => g = h
        BY FutQueueIs
    <3>2. QED BY <3>1, <2>3, <2>7
  <2>10. ASSUME NEW u \in Threads, tst'[u] = "waiting"
         PROVE  \E g \in futs' : u \in Items(futQ'[g])
    <3>1. CASE u = th
        BY <3>1, <1>1, <2>4
    <3>2. CASE u # th
      <4>1. PICK g \in futs : g \in Fut /\ u \in Items(futQ[g])
        BY <3>2, <2>2, <2>10, FutWaiterIs
      <4>2. u \in Items(futQ'[g])
        BY <4>1, <2>2, <2>4
      <4>3. QED BY <4>1, <4>2, <1>1
    <3>3. QED BY <3>1, <3>2
  <2>11. F!FutexWaitersAreRight'
    BY <2>8, <2>9, <2>10, FutexOps DEF F!FutexWaitersAreRight, Fut
  <2>12. QED BY <2>5, <2>6, <2>11 DEF FutInv
<1>5. QED BY <1>3, <1>4

(* Steps that leave the map, the queues and the waiting threads alone.     *)
LEMMA FutUntouched ==
    ASSUME FutInv, futs' = futs, futQ' = futQ,
           pst' \in [Procs -> {"free", "live", "zombie"}],
           tst' \in [Threads -> {"none", "ready", "waiting", "detached"}],
           \A th \in Threads : tst'[th] = "waiting" <=> tst[th] = "waiting",
           ThreadsAreOfLive', hasMap' \subseteq Procs, F!MapsFollowProcesses'
    PROVE  FutInv'
<1>1. (\A f \in Fut : NoDup(futQ'[f])) /\ F!FutexWaitersAreRight'
  <2>1. \A f \in Fut : /\ NoDup(futQ'[f]) /\ Items(futQ'[f]) \subseteq Items(futQ[f])
                       /\ \A th \in Items(futQ'[f]) : f \in futs' /\ tst'[th] = "waiting"
    BY FutQueueIs
  <2>2. \A th \in Threads : tst'[th] = "waiting" =>
           /\ tst[th] = "waiting"
           /\ \A f \in Fut : th \in Items(futQ[f]) => f \in futs' /\ th \in Items(futQ'[f])
    BY FutQueueIs
  <2>3. QED BY <2>1, <2>2, FutQueuesShrink
<1>2. QED BY <1>1 DEF FutInv, FutTypes

LEMMA FutThreads ==
    ASSUME FutInv, NEW th \in Threads,
           F!EndThread(th) \/ (\E u \in Threads : F!Spawn(th, u)) \/ (\E a \in Addrs : F!LoseMemory(th, a))
    PROVE  FutInv'
<1>1. /\ futs' = futs /\ futQ' = futQ /\ pst' = pst /\ hasMap' = hasMap /\ futFatal' = futFatal
    BY DEF F!EndThread, F!Spawn, F!LoseMemory, F!EndsThread, F!Spawns, F!futMapVars, F!processVars
<1>2. tst[th] = "ready"
    BY DEF F!EndThread, F!Spawn, F!LoseMemory, F!EndsThread, F!Spawns, F!Enter, F!Running
<1>3. \/ tst' = tst
      \/ tst' = [tst EXCEPT ![th] = "none"]
      \/ \E u \in Threads : u[1] = th[1] /\ tst[u] = "none" /\ tst' = [tst EXCEPT ![u] = "ready"]
    BY DEF F!EndThread, F!Spawn, F!LoseMemory, F!EndsThread, F!Spawns, F!processVars
<1>4. pst[th[1]] = "live"
    BY <1>2 DEF FutInv, ThreadsAreOfLive
<1>5. F!MapsFollowProcesses' /\ hasMap' \subseteq Procs
    BY <1>1 DEF FutInv, FutTypes, F!MapsFollowProcesses
<1>6. /\ tst' \in [Threads -> {"none", "ready", "waiting", "detached"}]
      /\ pst' \in [Procs -> {"free", "live", "zombie"}] /\ ThreadsAreOfLive'
      /\ \A u \in Threads : tst'[u] = "waiting" <=> tst[u] = "waiting"
    BY <1>1, <1>2, <1>3, <1>4 DEF FutInv, FutTypes, ThreadsAreOfLive
<1>7. QED BY <1>1, <1>5, <1>6, FutUntouched

LEMMA FutFork ==
    ASSUME FutInv, NEW th \in Threads, NEW c \in Procs, F!Fork(th, c)
    PROVE  FutInv'
<1> DEFINE u == <<c, th[2]>>
<1>1. /\ tst[th] = "ready" /\ pst[c] = "free" /\ futFatal = "none"
      /\ pst' = [pst EXCEPT ![c] = "live"] /\ tst' = [tst EXCEPT ![u] = "ready"]
      /\ futs' = futs /\ futQ' = futQ
      /\ \/ c \in hasMap /\ futFatal' = "map in place" /\ hasMap' = hasMap
         \/ c \notin hasMap /\ hasMap' = hasMap \cup {c} /\ futFatal' = futFatal
         \/ futFatal' = "no memory" /\ hasMap' = hasMap
    BY DEF F!Fork, F!Forks, F!Running
<1>2. u \in Threads /\ u[1] = c
    BY DEF Threads
<1> HIDE DEF u
<1>3. tst[u] = "none"
    BY <1>1, <1>2 DEF FutInv, FutTypes, ThreadsAreOfLive
<1>4. c \notin hasMap
    BY <1>1 DEF FutInv, F!MapsFollowProcesses
<1>5. F!MapsFollowProcesses' /\ hasMap' \subseteq Procs
    BY <1>1, <1>4 DEF FutInv, FutTypes, F!MapsFollowProcesses
<1>6. /\ tst' \in [Threads -> {"none", "ready", "waiting", "detached"}]
      /\ pst' \in [Procs -> {"free", "live", "zombie"}]
      /\ \A v \in Threads : tst'[v] = "waiting" <=> tst[v] = "waiting"
    BY <1>1, <1>2, <1>3 DEF FutInv, FutTypes
<1>7. ThreadsAreOfLive'
    BY <1>1, <1>2 DEF FutInv, FutTypes, ThreadsAreOfLive, Threads
<1>8. QED BY <1>1, <1>5, <1>6, <1>7, FutUntouched

LEMMA FutExit ==
    ASSUME FutInv, NEW th \in Threads, F!Exit(th)
    PROVE  FutInv'
<1> DEFINE p == th[1]
           gone == {p} \X Tids
<1>1. /\ p \in Procs /\ tst[th] = "ready" /\ pst' = [pst EXCEPT ![p] = "zombie"]
      /\ tst' = [u \in Threads |-> IF u[1] = p THEN "none" ELSE tst[u]]
      /\ futQ' = [f \in Fut |-> Drop(futQ[f], gone)]
      /\ futs' = futs /\ hasMap' = hasMap /\ futFatal' = futFatal
    BY FutexOps DEF F!Exit, F!Exits, F!Detached, F!ThreadsOf, F!Running, Threads, Fut
<1>2. \A u \in Threads : u \in gone <=> u[1] = p
    BY DEF Threads
<1>3. pst[p] = "live"
    BY <1>1 DEF FutInv, ThreadsAreOfLive
<1> HIDE DEF p, gone
<1>4. ASSUME NEW f \in Fut
      PROVE  /\ Drop(futQ[f], gone) \in Seq(Threads) /\ NoDup(futQ'[f])
             /\ Items(futQ'[f]) = Items(futQ[f]) \ gone
    BY <1>1, FutQueueIs, DropProps
<1>5. FutTypes' /\ F!MapsFollowProcesses'
  <2>1. FutTypes'
    BY <1>1, <1>4 DEF FutInv, FutTypes
  <2>2. F!MapsFollowProcesses'
    BY <1>1, <1>3 DEF FutInv, FutTypes, F!MapsFollowProcesses
  <2>3. QED BY <2>1, <2>2
<1>6. ThreadsAreOfLive'
    BY <1>1 DEF FutInv, FutTypes, ThreadsAreOfLive, Threads
<1>7. (\A f \in Fut : NoDup(futQ'[f])) /\ F!FutexWaitersAreRight'
  <2>1. ASSUME NEW f \in Fut
        PROVE  /\ NoDup(futQ'[f]) /\ Items(futQ'[f]) \subseteq Items(futQ[f])
               /\ \A u \in Items(futQ'[f]) : f \in futs' /\ tst'[u] = "waiting"
    <3>1. /\ Items(futQ[f]) \subseteq Threads
          /\ \A u \in Items(futQ[f]) : f \in futs /\ tst[u] = "waiting"
        BY FutQueueIs
    <3>2. \A u \in Items(futQ'[f]) : u \in Items(futQ[f]) /\ u[1] # p
        BY <1>2, <1>4, <3>1
    <3>3. QED BY <1>1, <1>4, <3>1, <3>2
  <2>2. \A u \in Threads : tst'[u] = "waiting" =>
           /\ tst[u] = "waiting"
           /\ \A f \in Fut : u \in Items(futQ[f]) => f \in futs' /\ u \in Items(futQ'[f])
    BY <1>1, <1>2, <1>4, FutQueueIs
  <2>3. QED BY <2>1, <2>2, FutQueuesShrink
<1>8. QED BY <1>5, <1>6, <1>7 DEF FutInv

(* A process with a thread that runs has its map, so the queues are empty  *)
(* by the time proc_exec deletes the threads.                              *)
LEMMA FutExec ==
    ASSUME FutInv, NEW th \in Threads, F!Exec(th)
    PROVE  FutInv'
<1> DEFINE p == th[1]
<1>1. /\ p \in Procs /\ tst[th] = "ready" /\ futFatal = "none" /\ pst' = pst
      /\ tst' = [u \in Threads |-> IF u[1] # p THEN tst[u]
                                   ELSE IF u[2] = main[p] THEN "ready" ELSE "none"]
      /\ hasMap' = hasMap
    BY FutexOps DEF F!Exec, F!Execs, F!AfterExec, F!Running, Threads
<1>2. pst[p] = "live" /\ p \in hasMap
    BY <1>1 DEF FutInv, ThreadsAreOfLive, F!MapsFollowProcesses
<1>3. /\ futQ' = [f \in Fut |-> IF f[1] = p THEN << >> ELSE futQ[f]]
      /\ futs' = futs \ ({p} \X Addrs) /\ futFatal' = futFatal
    BY <1>2 DEF F!Exec, F!Emptied, F!FutsOf, Fut
<1>4. \A f \in Fut : f \in {p} \X Addrs <=> f[1] = p
    BY DEF Fut
<1> HIDE DEF p
<1>5. FutTypes'
  <2>1. << >> \in Seq(Threads)
    OBVIOUS
  <2>2. QED BY <1>1, <1>3, <2>1 DEF FutInv, FutTypes
<1>6. F!MapsFollowProcesses' /\ ThreadsAreOfLive'
    BY <1>1, <1>2, <1>3 DEF FutInv, ThreadsAreOfLive, F!MapsFollowProcesses
<1>7. ASSUME NEW f \in Fut
      PROVE  /\ f[1] = p => Items(futQ'[f]) = {} /\ NoDup(futQ'[f])
             /\ f[1] # p => futQ'[f] = futQ[f]
    BY <1>3 DEF Items, NoDup
<1>8. (\A f \in Fut : NoDup(futQ'[f])) /\ F!FutexWaitersAreRight'
  <2>1. ASSUME NEW f \in Fut
        PROVE  /\ NoDup(futQ'[f]) /\ Items(futQ'[f]) \subseteq Items(futQ[f])
               /\ \A u \in Items(futQ'[f]) : f \in futs' /\ tst'[u] = "waiting"
    BY <1>1, <1>3, <1>4, <1>7, FutQueueIs, ZenonT(60)
  <2>2. \A u \in Threads : tst'[u] = "waiting" =>
           /\ tst[u] = "waiting"
           /\ \A f \in Fut : u \in Items(futQ[f]) => f \in futs' /\ u \in Items(futQ'[f])
    BY <1>1, <1>3, <1>4, <1>7, FutQueueIs
  <2>3. QED BY <2>1, <2>2, FutQueuesShrink
<1>9. QED BY <1>5, <1>6, <1>8 DEF FutInv

LEMMA FutReap ==
    ASSUME FutInv, NEW p \in Procs, F!Reap(p)
    PROVE  FutInv'
<1>1. /\ pst[p] = "zombie" /\ pst' = [pst EXCEPT ![p] = "free"] /\ tst' = tst
      /\ hasMap' = hasMap \ {p} /\ futs' = futs \ ({p} \X Addrs) /\ futQ' = futQ
      /\ futFatal = "none" /\ futFatal' = IF p \in hasMap THEN futFatal ELSE "no map"
    BY DEF F!Reap, F!Reaps, F!DropMap, F!FutsOf
<1>2. p \in hasMap
    BY <1>1 DEF FutInv, F!MapsFollowProcesses
<1>3. \A f \in Fut : f \in {p} \X Addrs <=> f[1] = p
    BY DEF Fut
<1>4. FutTypes'
    BY <1>1 DEF FutInv, FutTypes
<1>5. ThreadsAreOfLive'
    BY <1>1 DEF FutInv, FutTypes, ThreadsAreOfLive, Threads
<1>6. F!MapsFollowProcesses'
  <2>1. \A f \in futs' : f[1] # p /\ f \in futs
    BY <1>1, <1>3 DEF FutInv, FutTypes
  <2>2. QED BY <1>1, <1>2, <2>1 DEF FutInv, FutTypes, F!MapsFollowProcesses
<1>7. (\A f \in Fut : NoDup(futQ'[f])) /\ F!FutexWaitersAreRight'
  <2>1. \A f \in Fut : Items(futQ[f]) # {} => f[1] # p
    BY <1>1, FutQueueIs
  <2>2. \A f \in Fut : /\ NoDup(futQ'[f]) /\ Items(futQ'[f]) \subseteq Items(futQ[f])
                       /\ \A u \in Items(futQ'[f]) : f \in futs' /\ tst'[u] = "waiting"
    BY <1>1, <1>3, <2>1, FutQueueIs
  <2>3. \A u \in Threads : tst'[u] = "waiting" =>
           /\ tst[u] = "waiting"
           /\ \A f \in Fut : u \in Items(futQ[f]) => f \in futs' /\ u \in Items(futQ'[f])
    BY <1>1, <1>3, <2>1, FutQueueIs
  <2>4. QED BY <2>2, <2>3, FutQueuesShrink
<1>8. QED BY <1>4, <1>5, <1>6, <1>7 DEF FutInv

LEMMA FutStep ==
    ASSUME FutInv, F!Next
    PROVE  FutInv'
<1>1. ASSUME NEW th \in Threads, NEW a \in Addrs,
             F!Register(th, a) \/ F!Deregister(th, a) \/ F!Wait(th, a)
      PROVE  FutInv'
    BY <1>1, FutRegister, FutDeregister, FutWait
<1>2. ASSUME NEW th \in Threads, NEW a \in Addrs, NEW n, F!Wake(th, a, n)
      PROVE  FutInv'
    BY <1>2, FutWake
<1>3. ASSUME NEW th \in Threads,
             \/ F!EndThread(th) \/ (\E u \in Threads : F!Spawn(th, u))
             \/ \E a \in Addrs : F!LoseMemory(th, a)
      PROVE  FutInv'
    BY <1>3, FutThreads
<1>4. ASSUME NEW th \in Threads, NEW c \in Procs, F!Fork(th, c) PROVE FutInv'
    BY <1>4, FutFork
<1>5. ASSUME NEW th \in Threads, F!Exit(th) \/ F!Exec(th) PROVE FutInv'
    BY <1>5, FutExit, FutExec
<1>6. ASSUME NEW p \in Procs, F!Reap(p) PROVE FutInv'
    BY <1>6, FutReap
<1>7. CASE \E p \in Procs : F!Reap(p)
    BY <1>6, <1>7
<1>8. CASE ~\E p \in Procs : F!Reap(p)
  <2>1. PICK th \in Threads :
           \/ \E a \in Addrs : \/ F!Register(th, a) \/ F!Deregister(th, a) \/ F!Wait(th, a)
                               \/ \E n : F!Wake(th, a, n)
                               \/ F!LoseMemory(th, a)
           \/ \E u \in Threads : F!Spawn(th, u)
           \/ \E c \in Procs : F!Fork(th, c)
           \/ F!EndThread(th) \/ F!Exit(th) \/ F!Exec(th)
    BY <1>8 DEF F!Next, F!Thread, Threads
  <2>2. QED BY <2>1, <1>1, <1>2, <1>3, <1>4, <1>5
<1>9. QED BY <1>7, <1>8

FutPart == part = "futexes" => FutInv

(* Every process that is not reaped has its futex map and a free pid has   *)
(* none, so no fork finds a map in place and no exec or reaping misses     *)
(* one; and whoever waits for a futex is in the one queue of a registered  *)
(* futex of its own process, so no queue is deleted with a thread in it    *)
(* (plugin_fut.c).                                                         *)
THEOREM FutexWaitersStayRight == Spec => []FutexWaitersAreRight
<1>1. Init => FutPart
    BY FutInit DEF Init, FutPart
<1>2. FutPart /\ [Next]_vars => FutPart'
  <2>1. SUFFICES ASSUME FutPart, [Next]_vars, part' = "futexes" PROVE FutInv'
    BY DEF FutPart
  <2>2. FutInv /\ (F!Next \/ UNCHANGED <<pst, tst, futVars>>)
    BY <2>1 DEF Next, vars, FutPart
  <2>3. CASE UNCHANGED <<pst, tst, futVars>>
    <3>1. UNCHANGED <<pst, tst, hasMap, futs, futQ, futFatal>>
        BY <2>3 DEF futVars
    <3>2. QED
        BY <2>2, <3>1, ZenonT(60) DEF FutInv, FutTypes, ThreadsAreOfLive, F!MapsFollowProcesses,
                          F!FutexWaitersAreRight
  <2>4. QED BY <2>2, <2>3, FutStep
<1>3. FutPart => FutexWaitersAreRight
    BY DEF FutPart, FutInv, FutexWaitersAreRight
<1>4. QED BY <1>1, <1>2, <1>3, PTL DEF Spec

-----------------------------------------------------------------------------
(* The keyboard's buffer: distances and places in the ring without the     *)
(* remainders, so that what follows is about sums and cases.               *)

Place == 0 .. Size - 1
Pos == Procs \X Hids

(* How far a handle at place i is behind, and where the j-th newest byte   *)
(* is and what it should be.                                               *)
Back(i, j) == IF i >= j THEN i - j ELSE i - j + Size
Behind(i) == Back(sc_buf_pos, i)
Loc(j)    == Back(sc_buf_pos, j)
Good(j)   == sc_buf[Loc(j)] = (typed - j) % Laps

KeyTypes ==
    /\ pos \in [Pos -> 0 .. Size]
    /\ sc_buf \in [Place -> Int] /\ sc_buf_pos \in Place /\ typed \in Int
    /\ dest \in Seq(Int)

(* What a handle has not read yet is what it should be.                    *)
NewestAreGood ==
    \A h \in Pos : pos[h] # Size => \A j \in 1 .. Behind(pos[h]) : Good(j)

BufInv == KeyTypes /\ NewestAreGood /\ K!ReadsAreConsecutive

LEMMA SizeIs == Size \in Nat /\ Size >= 2 /\ Laps \in Nat /\ Laps > 0
BY PluginsAssumption

LEMMA BehindIs ==
    ASSUME KeyTypes, NEW i \in Place
    PROVE  /\ Behind(i) \in Place
           /\ (sc_buf_pos - i + Size) % Size = Behind(i)
           /\ \A k \in 0 .. Behind(i) - 1 :
                 /\ (i + k) % Size = Loc(Behind(i) - k)
                 /\ (typed + Laps - Behind(i) + k) % Laps = (typed - (Behind(i) - k)) % Laps
<1>1. sc_buf_pos \in Place /\ typed \in Int /\ Behind(i) \in Place
    BY SizeIs DEF KeyTypes, Behind, Back, Place
<1>2. (sc_buf_pos - i + Size) % Size = Behind(i)
  <2>1. CASE sc_buf_pos >= i
    <3>1. sc_buf_pos - i + Size = Size * 1 + (sc_buf_pos - i) /\ sc_buf_pos - i \in 0 .. Size - 1
        BY <1>1, <2>1, SizeIs DEF Place
    <3>2. QED BY <1>1, <2>1, <3>1, SizeIs, DivModUnique DEF Behind, Back, Place
  <2>2. CASE sc_buf_pos < i
    <3>1. /\ sc_buf_pos - i + Size = Size * 0 + (sc_buf_pos - i + Size)
          /\ sc_buf_pos - i + Size \in 0 .. Size - 1
        BY <1>1, <2>2, SizeIs DEF Place
    <3>2. QED BY <1>1, <2>2, <3>1, SizeIs, DivModUnique DEF Behind, Back, Place
  <2>3. QED BY <1>1, <2>1, <2>2, SizeIs DEF Place
<1>3. ASSUME NEW k \in 0 .. Behind(i) - 1
      PROVE  (i + k) % Size = Loc(Behind(i) - k)
  <2>1. CASE i + k < Size
    <3>1. i + k = Size * 0 + (i + k) /\ i + k \in 0 .. Size - 1
        BY <1>1, <2>1, SizeIs DEF Place
    <3>2. Loc(Behind(i) - k) = i + k
        BY <1>1, <2>1, SizeIs DEF Place, Behind, Loc, Back
    <3>3. QED BY <3>1, <3>2, SizeIs, DivModUnique
  <2>2. CASE i + k >= Size
    <3>1. i + k = Size * 1 + (i + k - Size) /\ i + k - Size \in 0 .. Size - 1
        BY <1>1, <2>2, SizeIs DEF Place
    <3>2. Loc(Behind(i) - k) = i + k - Size
        BY <1>1, <2>2, SizeIs DEF Place, Behind, Loc, Back
    <3>3. QED BY <3>1, <3>2, SizeIs, DivModUnique
  <2>3. QED BY <1>1, <2>1, <2>2, SizeIs DEF Place
<1>4. ASSUME NEW k \in 0 .. Behind(i) - 1
      PROVE  (typed + Laps - Behind(i) + k) % Laps = (typed - (Behind(i) - k)) % Laps
  <2> DEFINE c == typed - (Behind(i) - k)
  <2>1. c \in Int /\ typed + Laps - Behind(i) + k = c + Laps
    BY <1>1, SizeIs DEF Place
  <2> HIDE DEF c
  <2>2. (c + Laps) % Laps = c % Laps
    BY <2>1, SizeIs, ModLap
  <2>3. QED BY <2>1, <2>2 DEF c
<1>5. QED BY <1>1, <1>2, <1>3, <1>4

LEMMA NewestIsReadable ==
    ASSUME BufInv
    PROVE  K!ReadableIsNewest
<1> DEFINE n(h) == (sc_buf_pos - pos[h] + Size) % Size
<1> SUFFICES ASSUME NEW h \in Pos, pos[h] # Size, NEW k \in 0 .. n(h) - 1
             PROVE  sc_buf[(pos[h] + k) % Size] = (typed + Laps - n(h) + k) % Laps
    BY DEF K!ReadableIsNewest, K!Handle, K!Closed, Pos
<1>1. KeyTypes /\ pos[h] \in Place
    BY SizeIs DEF BufInv, KeyTypes, Place
<1>2. /\ Behind(pos[h]) \in Place
      /\ n(h) = Behind(pos[h])
    BY <1>1, BehindIs
<1> HIDE DEF n
<1>3. /\ (pos[h] + k) % Size = Loc(Behind(pos[h]) - k)
      /\ (typed + Laps - Behind(pos[h]) + k) % Laps = (typed - (Behind(pos[h]) - k)) % Laps
    BY <1>1, <1>2, BehindIs DEF n
<1>4. Behind(pos[h]) - k \in 1 .. Behind(pos[h])
    BY <1>2, SizeIs DEF Place
<1>5. Good(Behind(pos[h]) - k)
    BY <1>4 DEF BufInv, NewestAreGood
<1>6. QED BY <1>2, <1>3, <1>5 DEF Good

LEMMA BufInit ==
    ASSUME K!Init
    PROVE  BufInv
<1>1. /\ pos = [h \in Pos |-> Size] /\ sc_buf = [k \in Place |-> 0] /\ sc_buf_pos = 0
      /\ typed = 0 /\ dest = << >>
    BY DEF K!Init, K!Handle, K!Closed, Pos, Place
<1>2. KeyTypes
    BY <1>1, SizeIs DEF KeyTypes, Place
<1>3. NewestAreGood /\ K!ReadsAreConsecutive
    BY <1>1 DEF NewestAreGood, K!ReadsAreConsecutive
<1>4. QED BY <1>2, <1>3 DEF BufInv

(* Steps that leave the buffer as it is: a handle is closed, at the newest *)
(* byte, or where a handle was.                                            *)
LEMMA HandlesMove ==
    ASSUME BufInv, UNCHANGED <<sc_buf, sc_buf_pos, typed>>, dest' = << >>,
           pos' \in [Pos -> 0 .. Size],
           \A h \in Pos : \/ pos'[h] \in {Size, sc_buf_pos}
                          \/ \E g \in Pos : pos'[h] = pos[g]
    PROVE  BufInv'
<1>1. KeyTypes'
    BY DEF BufInv, KeyTypes
<1>2. K!ReadsAreConsecutive'
    BY DEF K!ReadsAreConsecutive
<1>3. \A j : Good(j)' <=> Good(j)
    BY DEF Good, Loc, Back
<1>4. \A i : Behind(i)' = Behind(i)
    BY DEF Behind, Back
<1>5. ASSUME NEW h \in Pos, pos'[h] # Size, NEW j \in 1 .. Behind(pos'[h])
      PROVE  Good(j)
  <2>1. CASE pos'[h] = sc_buf_pos
    <3>1. sc_buf_pos \in Place
        BY DEF BufInv, KeyTypes
    <3>2. Behind(sc_buf_pos) = 0
        BY <3>1, SizeIs DEF Behind, Back, Place
    <3>3. QED BY <2>1, <3>2, <1>5
  <2>2. CASE \E g \in Pos : pos'[h] = pos[g]
    BY <2>2, <1>5 DEF BufInv, NewestAreGood
  <2>3. QED BY <2>1, <2>2, <1>5
<1>6. NewestAreGood'
    BY <1>3, <1>4, <1>5 DEF NewestAreGood, Behind
<1>7. QED BY <1>1, <1>2, <1>6 DEF BufInv

(* The ring after a step of two places.                                    *)
Ahead(i, k) == IF i + k >= Size THEN i + k - Size ELSE i + k

LEMMA RingMoves ==
    ASSUME NEW s \in Place
    PROVE  /\ Ahead(s, 1) \in Place /\ Ahead(s, 2) \in Place /\ Ahead(s, 1) # s
           /\ Back(Ahead(s, 2), 1) = Ahead(s, 1) /\ Back(Ahead(s, 2), 2) = s
           /\ \A j \in 3 .. Size - 1 : /\ Back(Ahead(s, 2), j) = Back(s, j - 2)
                                       /\ Back(s, j - 2) \in Place \ {s, Ahead(s, 1)}
           /\ \A i \in Place : /\ Back(s, i) \in Place
                              /\ Back(Ahead(s, 2), i) = Ahead(Back(s, i), 2)
<1>1. /\ s \in Int /\ 0 <= s /\ s < Size /\ Size \in Nat /\ Size >= 2
      /\ \A i : i \in Place <=> i \in Int /\ 0 <= i /\ i < Size
    BY SizeIs DEF Place
<1>2. /\ Ahead(s, 1) \in Place /\ Ahead(s, 2) \in Place /\ Ahead(s, 1) # s
    BY <1>1 DEF Ahead
<1>3. Back(Ahead(s, 2), 1) = Ahead(s, 1) /\ Back(Ahead(s, 2), 2) = s
    BY <1>1 DEF Back, Ahead
<1>4. ASSUME NEW j \in 3 .. Size - 1
      PROVE  /\ Back(Ahead(s, 2), j) = Back(s, j - 2)
             /\ Back(s, j - 2) \in Place \ {s, Ahead(s, 1)}
    BY <1>1 DEF Back, Ahead
<1>5. ASSUME NEW i \in Place
      PROVE  Back(s, i) \in Place /\ Back(Ahead(s, 2), i) = Ahead(Back(s, i), 2)
    BY <1>1 DEF Back, Ahead
<1>6. QED BY <1>2, <1>3, <1>4, <1>5

(* Two bytes are typed: they are the two newest, the others are older by   *)
(* two, and only what was a whole lap old is overwritten.                  *)
LEMMA TwoTyped ==
    ASSUME BufInv, NEW second, second = K!Wrapped(sc_buf_pos + 1),
           sc_buf' = [sc_buf EXCEPT ![sc_buf_pos] = typed % Laps, ![second] = (typed + 1) % Laps],
           sc_buf_pos' = K!Wrapped(second + 1), typed' = (typed + 2) % Laps,
           pos' = pos, dest' = << >>
    PROVE  BufInv'
<1>1. /\ sc_buf_pos \in Place /\ typed \in Int /\ sc_buf \in [Place -> Int]
      /\ pos \in [Pos -> 0 .. Size]
    BY DEF BufInv, KeyTypes
<1>2. second = Ahead(sc_buf_pos, 1) /\ sc_buf_pos' = Ahead(sc_buf_pos, 2)
    BY <1>1, SizeIs DEF K!Wrapped, Place, Ahead
<1>12. second \in Place /\ second # sc_buf_pos /\ sc_buf_pos' \in Place
    BY <1>1, <1>2, RingMoves
<1>3. /\ typed % Laps \in Int /\ (typed + 1) % Laps \in Int /\ typed' \in Int
    BY <1>1, SizeIs, DivMod
<1>4. KeyTypes'
    BY <1>1, <1>12, <1>3 DEF BufInv, KeyTypes
<1>5. K!ReadsAreConsecutive'
    BY DEF K!ReadsAreConsecutive
<1>6. \A j \in Int : (typed' - j) % Laps = (typed - (j - 2)) % Laps
  <2>1. SUFFICES ASSUME NEW j \in Int PROVE (typed' - j) % Laps = (typed - (j - 2)) % Laps
    OBVIOUS
  <2>2. typed + 2 \in Int /\ -j \in Int
    BY <1>1
  <2>3. (((typed + 2) % Laps) + (-j)) % Laps = ((typed + 2) + (-j)) % Laps
    BY <2>2, SizeIs, ModPlus
  <2>4. (typed + 2) + (-j) = typed - (j - 2) /\ typed' + (-j) = typed' - j
    BY <1>1, <1>3
  <2>5. QED BY <2>3, <2>4
<1>7. Good(1)' /\ Good(2)'
  <2>1. Loc(1)' = second /\ Loc(2)' = sc_buf_pos
    BY <1>1, <1>2, RingMoves DEF Loc
  <2>2. sc_buf'[second] = (typed + 1) % Laps /\ sc_buf'[sc_buf_pos] = typed % Laps
    BY <1>1, <1>12
  <2>3. (typed' - 1) % Laps = (typed + 1) % Laps /\ (typed' - 2) % Laps = typed % Laps
    <3>1. typed - (1 - 2) = typed + 1 /\ typed - (2 - 2) = typed
        BY <1>1
    <3>2. QED BY <3>1, <1>6
  <2>4. QED BY <2>1, <2>2, <2>3 DEF Good
<1>8. ASSUME NEW j \in 3 .. Size - 1, Good(j - 2)
      PROVE  Good(j)'
  <2>1. /\ Loc(j)' = Loc(j - 2) /\ Loc(j - 2) \in Place
        /\ Loc(j - 2) # sc_buf_pos /\ Loc(j - 2) # second
    BY <1>1, <1>2, RingMoves DEF Loc
  <2>2. sc_buf'[Loc(j - 2)] = sc_buf[Loc(j - 2)]
    BY <1>1, <1>12, <2>1
  <2>3. QED BY <1>6, <1>8, <2>1, <2>2 DEF Good
<1>9. ASSUME NEW h \in Pos, pos[h] # Size, NEW j \in 1 .. Behind(pos[h])'
      PROVE  Good(j)'
  <2>1. pos[h] \in Place
    BY <1>1, <1>9, SizeIs DEF Place
  <2>2. /\ Behind(pos[h]) \in Place /\ Behind(pos[h])' \in Place
        /\ Behind(pos[h])' = Ahead(Behind(pos[h]), 2)
    <3>1. /\ Back(sc_buf_pos, pos[h]) \in Place
          /\ Back(sc_buf_pos', pos[h]) = Ahead(Back(sc_buf_pos, pos[h]), 2)
        BY <1>1, <1>2, <2>1, RingMoves
    <3>2. Back(sc_buf_pos', pos[h]) \in Place
        BY <3>1, RingMoves
    <3>3. QED BY <3>1, <3>2 DEF Behind
  <2>3. CASE j \in {1, 2}
    BY <2>3, <1>7
  <2>4. CASE j \notin {1, 2}
    <3>1. j \in 3 .. Size - 1 /\ j - 2 \in 1 .. Behind(pos[h])
        BY <1>9, <2>2, <2>4, SizeIs DEF Place, Ahead
    <3>2. Good(j - 2)
        BY <1>9, <3>1 DEF BufInv, NewestAreGood
    <3>3. QED BY <3>1, <3>2, <1>8
  <2>5. QED BY <2>3, <2>4
<1>10. NewestAreGood'
    BY <1>9 DEF NewestAreGood
<1>11. QED BY <1>4, <1>5, <1>10 DEF BufInv

(* The two pieces of a read, up to the end of the ring and from its start. *)
ToEnd(i, len)     == IF i > sc_buf_pos THEN K!AtMost(Size - i, len) ELSE 0
ThenAt(i, len)    == K!Wrapped(i + ToEnd(i, len))
FromStart(i, len) == IF ThenAt(i, len) < sc_buf_pos
                     THEN K!AtMost(sc_buf_pos - ThenAt(i, len), len - ToEnd(i, len)) ELSE 0

LEMMA ReadPlaces ==
    ASSUME sc_buf_pos \in Place, NEW i \in Place, i # sc_buf_pos, NEW len \in 1 .. Size,
           NEW f, f = ToEnd(i, len), NEW a, a = ThenAt(i, len), NEW n, n = FromStart(i, len)
    PROVE  /\ f \in Nat /\ n \in Nat /\ a \in Place /\ Behind(i) \in Place
           /\ \A k \in 1 .. f : /\ i + k - 1 \in Place
                                /\ Loc(Behind(i) - (k - 1)) = i + k - 1
           /\ \A k \in 1 .. n : /\ a + k - 1 \in Place
                                /\ Loc(Behind(i) - (f + k - 1)) = a + k - 1
           /\ a + n \in Place /\ Behind(a + n) = Behind(i) - (f + n) /\ f + n <= Behind(i)
<1>1. /\ sc_buf_pos \in Int /\ 0 <= sc_buf_pos /\ sc_buf_pos < Size
      /\ i \in Int /\ 0 <= i /\ i < Size /\ len \in Int /\ 1 <= len /\ len <= Size
      /\ Size \in Nat /\ Size >= 2
      /\ \A x : x \in Place <=> x \in Int /\ 0 <= x /\ x < Size
    BY SizeIs DEF Place
<1>2. CASE i < sc_buf_pos
  <2>1. f = 0 /\ a = i /\ n \in Nat /\ n <= sc_buf_pos - i /\ n <= len
    BY <1>1, <1>2 DEF ToEnd, ThenAt, FromStart, K!AtMost, K!Wrapped
  <2>2. Behind(i) = sc_buf_pos - i
    BY <1>1, <1>2 DEF Behind, Back
  <2>3. QED BY <1>1, <1>2, <2>1, <2>2 DEF Loc, Behind, Back
<1>3. CASE i > sc_buf_pos
  <2>1. Behind(i) = sc_buf_pos - i + Size
    BY <1>1, <1>3 DEF Behind, Back
  <2>2. CASE len < Size - i
    <3>1. f = len /\ a = i + len /\ n = 0
        BY <1>1, <1>3, <2>2 DEF ToEnd, ThenAt, FromStart, K!AtMost, K!Wrapped
    <3>2. QED BY <1>1, <1>3, <2>1, <2>2, <3>1 DEF Loc, Behind, Back
  <2>3. CASE len >= Size - i
    <3>1. f = Size - i
        BY <1>1, <1>3, <2>3 DEF ToEnd, K!AtMost
    <3>2. a = 0
        BY <1>1, <1>3, <3>1 DEF ThenAt, K!Wrapped
    <3>3. n \in Nat /\ n <= sc_buf_pos
        BY <1>1, <1>3, <2>3, <3>1, <3>2 DEF FromStart, K!AtMost
    <3>4. QED BY <1>1, <1>3, <2>1, <3>1, <3>2, <3>3 DEF Loc, Behind, Back
  <2>4. QED BY <1>1, <2>2, <2>3
<1>4. QED BY <1>1, <1>2, <1>3

(* A read hands over the oldest bytes that were not read, in their order,  *)
(* and leaves the handle behind by those it has not handed over.           *)
LEMMA BytesRead ==
    ASSUME BufInv, NEW th, NEW h \in Pos, NEW len \in 1 .. Size, K!Read(th, h, len)
    PROVE  BufInv'
<1> DEFINE i == pos[h]
           f == ToEnd(i, len)
           a == ThenAt(i, len)
           n == FromStart(i, len)
           x == K!Bytes(i, f)
           y == K!Bytes(a, n)
<1>1. /\ i # Size /\ i # sc_buf_pos /\ pos' = [pos EXCEPT ![h] = a + n]
      /\ dest' \in {<< >>, x \o y}
      /\ sc_buf' = sc_buf /\ sc_buf_pos' = sc_buf_pos /\ typed' = typed
    BY DEF K!Read, K!UsesHandle, K!Closed, K!NotBuffer, ToEnd, ThenAt, FromStart
<1>2. /\ sc_buf_pos \in Place /\ i \in Place /\ typed \in Int /\ sc_buf \in [Place -> Int]
      /\ pos \in [Pos -> 0 .. Size]
    BY <1>1, SizeIs DEF BufInv, KeyTypes, Place
<1>3. /\ f \in Nat /\ n \in Nat /\ a \in Place /\ Behind(i) \in Place
      /\ \A k \in 1 .. f : /\ i + k - 1 \in Place
                           /\ Loc(Behind(i) - (k - 1)) = i + k - 1
      /\ \A k \in 1 .. n : /\ a + k - 1 \in Place
                           /\ Loc(Behind(i) - (f + k - 1)) = a + k - 1
      /\ a + n \in Place /\ Behind(a + n) = Behind(i) - (f + n) /\ f + n <= Behind(i)
    BY <1>1, <1>2, ReadPlaces
<1>4. x = [k \in 1 .. f |-> sc_buf[i + k - 1]] /\ y = [k \in 1 .. n |-> sc_buf[a + k - 1]]
    BY DEF K!Bytes
<1> HIDE DEF i, f, a, n, x, y
<1>5. /\ x \in Seq(Int) /\ Len(x) = f /\ \A k \in 1 .. f : x[k] = sc_buf[i + k - 1]
      /\ y \in Seq(Int) /\ Len(y) = n /\ \A k \in 1 .. n : y[k] = sc_buf[a + k - 1]
    BY <1>2, <1>3, <1>4
<1>6. /\ x \o y \in Seq(Int) /\ Len(x \o y) = f + n
      /\ \A k \in 1 .. f : (x \o y)[k] = x[k]
      /\ \A k \in 1 .. n : (x \o y)[f + k] = y[k]
  <2>1. /\ x \o y \in Seq(Int) /\ Len(x \o y) = Len(x) + Len(y)
        /\ \A k \in 1 .. Len(x) : (x \o y)[k] = x[k]
        /\ \A k \in 1 .. Len(y) : (x \o y)[Len(x) + k] = y[k]
    <3>1. x \in Seq(Int) /\ y \in Seq(Int)
        BY <1>5
    <3>2. QED BY <3>1, ConcatIs
  <2>2. Len(x) = f /\ Len(y) = n
    BY <1>5
  <2>3. QED BY <2>1, <2>2
<1>7. \A j \in 1 .. Behind(i) : sc_buf[Loc(j)] = (typed - j) % Laps
    BY <1>1 DEF BufInv, NewestAreGood, Good, i
<1>8. ASSUME NEW k \in 1 .. f + n
      PROVE  (x \o y)[k] = (typed - (Behind(i) - (k - 1))) % Laps
  <2>1. Behind(i) - (k - 1) \in 1 .. Behind(i)
    BY <1>3 DEF Place
  <2>2. CASE k \in 1 .. f
    <3>1. (x \o y)[k] = sc_buf[i + k - 1]
        BY <2>2, <1>5, <1>6
    <3>2. Loc(Behind(i) - (k - 1)) = i + k - 1
        BY <2>2, <1>3
    <3>3. QED BY <2>1, <3>1, <3>2, <1>7
  <2>3. CASE k \notin 1 .. f
    <3>1. k - f \in 1 .. n /\ f + (k - f) = k /\ f + (k - f) - 1 = k - 1
        BY <1>3, <2>3
    <3>2. (x \o y)[k] = sc_buf[a + (k - f) - 1]
        BY <3>1, <1>5, <1>6
    <3>3. Loc(Behind(i) - (k - 1)) = a + (k - f) - 1
        BY <3>1, <1>3
    <3>4. QED BY <2>1, <3>2, <3>3, <1>7
  <2>4. QED BY <2>2, <2>3
<1>9. K!ReadsAreConsecutive'
  <2>1. CASE dest' = << >>
    BY <2>1 DEF K!ReadsAreConsecutive
  <2>2. CASE dest' = x \o y
    <3>1. ASSUME NEW k \in 1 .. f + n - 1
          PROVE  (x \o y)[k + 1] = ((x \o y)[k] + 1) % Laps
      <4> DEFINE c == typed - (Behind(i) - (k - 1))
      <4>1. /\ k \in 1 .. f + n /\ k + 1 \in 1 .. f + n /\ c \in Int
            /\ typed - (Behind(i) - ((k + 1) - 1)) = c + 1
        BY <1>2, <1>3 DEF Place
      <4>2. (x \o y)[k] = c % Laps /\ (x \o y)[k + 1] = (c + 1) % Laps
        BY <4>1, <1>8
      <4>3. ((c % Laps) + 1) % Laps = (c + 1) % Laps
        BY <4>1, SizeIs, ModPlus
      <4>4. QED BY <4>2, <4>3
    <3> DEFINE d == x \o y
    <3>2. Len(d) = f + n /\ dest' = d
        BY <1>6, <2>2
    <3>3. \A k \in 1 .. f + n - 1 : d[k + 1] = (d[k] + 1) % Laps
        BY <3>1
    <3> HIDE DEF d
    <3>4. ASSUME NEW k \in 1 .. Len(d) - 1 PROVE d[k + 1] = (d[k] + 1) % Laps
      <4>1. k \in 1 .. f + n - 1
        BY <1>3, <3>2
      <4>2. QED BY <3>3, <4>1
    <3>5. QED BY <3>2, <3>4, Zenon DEF K!ReadsAreConsecutive
  <2>3. QED BY <1>1, <2>1, <2>2
<1>10. KeyTypes'
  <2>1. dest' \in Seq(Int)
    <3>1. << >> \in Seq(Int) /\ x \o y \in Seq(Int)
        BY <1>6
    <3>2. dest' = << >> \/ dest' = x \o y
        BY <1>1
    <3>3. QED BY <3>1, <3>2, Zenon
  <2>2. a + n \in 0 .. Size
    BY <1>3, SizeIs DEF Place
  <2>3. QED BY <1>1, <1>2, <2>1, <2>2 DEF KeyTypes
<1>11. NewestAreGood'
  <2>1. \A j : Good(j)' <=> Good(j)
    BY <1>1 DEF Good, Loc, Back
  <2>2. \A z : Behind(z)' = Back(sc_buf_pos, z')
    BY <1>1 DEF Behind, Back
  <2>3. ASSUME NEW g \in Pos, pos'[g] # Size, NEW j \in 1 .. Back(sc_buf_pos, pos'[g])
        PROVE  Good(j)
    <3>1. CASE g = h
      <4>1. pos'[g] = a + n
        BY <3>1, <1>1, <1>2
      <4>2. j \in 1 .. Behind(i)
        BY <4>1, <2>3, <1>3 DEF Behind, Place
      <4>3. QED BY <4>2, <1>7 DEF Good
    <3>2. CASE g # h
        BY <3>2, <2>3, <1>1, <1>2 DEF BufInv, NewestAreGood, Behind
    <3>3. QED BY <3>1, <3>2
  <2>4. QED BY <2>1, <2>2, <2>3 DEF NewestAreGood
<1>12. QED BY <1>9, <1>10, <1>11 DEF BufInv

LEMMA BufStep ==
    ASSUME BufInv, K!Next
    PROVE  BufInv'
<1>1. /\ sc_buf_pos \in Place /\ typed \in Int /\ pos \in [Pos -> 0 .. Size]
      /\ sc_buf_pos \in 0 .. Size /\ Size \in 0 .. Size /\ K!Handle = Pos /\ K!Thread = Threads
    BY SizeIs DEF BufInv, KeyTypes, Place, K!Handle, Pos, K!Thread, Threads
<1>2. ASSUME NEW th \in Threads, NEW h \in Pos,
             K!Open(th, h) \/ K!SkipForward(th, h) \/ K!Close(th, h) \/ K!WaitRead(th, h)
      PROVE  BufInv'
  <2>1. /\ UNCHANGED <<sc_buf, sc_buf_pos, typed>> /\ dest' = << >>
        /\ \/ pos' = pos \/ pos' = [pos EXCEPT ![h] = sc_buf_pos] \/ pos' = [pos EXCEPT ![h] = Size]
    BY <1>2 DEF K!Open, K!SkipForward, K!Close, K!WaitRead, K!NotBuffer, K!Closed
  <2>2. /\ pos' \in [Pos -> 0 .. Size]
        /\ \A g \in Pos : pos'[g] \in {Size, sc_buf_pos} \/ \E e \in Pos : pos'[g] = pos[e]
    BY <1>1, <2>1
  <2>3. QED BY <2>1, <2>2, HandlesMove
<1>3. ASSUME NEW th \in Threads,
             \/ K!Exit(th) \/ K!Exec(th) \/ (\E u \in Threads : K!Spawn(th, u))
             \/ \E c \in Procs : K!Fork(th, c)
      PROVE  BufInv'
  <2>1. /\ UNCHANGED <<sc_buf, sc_buf_pos, typed>> /\ dest' = << >>
        /\ \/ pos' = pos \/ pos' = [g \in Pos |-> IF g[1] = th[1] THEN Size ELSE pos[g]]
           \/ \E c \in Procs :
                pos' = [g \in Pos |-> IF g[1] = c THEN pos[<<th[1], g[2]>>] ELSE pos[g]]
    BY <1>1, <1>3 DEF K!Exit, K!Exec, K!Spawn, K!Fork, K!NotBuffer, K!WithoutHandles, K!Closed
  <2>2. \A g \in Pos : <<th[1], g[2]>> \in Pos
    BY DEF Pos, Threads
  <2>3. /\ pos' \in [Pos -> 0 .. Size]
        /\ \A g \in Pos : pos'[g] \in {Size, sc_buf_pos} \/ \E e \in Pos : pos'[g] = pos[e]
    BY <1>1, <2>1, <2>2
  <2>4. QED BY <2>1, <2>3, HandlesMove
<1>4. ASSUME NEW p \in Procs, K!Reap(p)
      PROVE  BufInv'
  <2>1. /\ UNCHANGED <<sc_buf, sc_buf_pos, typed>> /\ dest' = << >>
        /\ pos' = [g \in Pos |-> IF g[1] = p THEN Size ELSE pos[g]]
    BY <1>1, <1>4 DEF K!Reap, K!NotBuffer, K!WithoutHandles, K!Closed
  <2>2. /\ pos' \in [Pos -> 0 .. Size]
        /\ \A g \in Pos : pos'[g] \in {Size, sc_buf_pos} \/ \E e \in Pos : pos'[g] = pos[e]
    BY <1>1, <2>1
  <2>3. QED BY <2>1, <2>2, HandlesMove
<1>5. CASE K!KeyEvent
  <2>1. /\ sc_buf' = [sc_buf EXCEPT ![sc_buf_pos] = (typed + 0) % Laps,
                                    ![K!Wrapped(sc_buf_pos + 1)] = (typed + 1) % Laps]
        /\ sc_buf_pos' = K!Wrapped(K!Wrapped(sc_buf_pos + 1) + 1)
        /\ typed' = (typed + 2) % Laps /\ pos' = pos /\ dest' = << >>
    BY <1>5 DEF K!KeyEvent
  <2>2. typed + 0 = typed
    BY <1>1
  <2>3. QED BY <2>1, <2>2, TwoTyped
<1>6. CASE \E th \in Threads : \E h \in Pos : \E len \in 1 .. Size : K!Read(th, h, len)
    BY <1>6, BytesRead
<1>7. QED BY <1>1, <1>2, <1>3, <1>4, <1>5, <1>6 DEF K!Next

-----------------------------------------------------------------------------
(* The threads that wait for a key.  While no program has closed a handle  *)
(* under a waiting thread, no handle behind a pointer is freed, every      *)
(* check of a key event passes, and so nothing is left in readyQ.          *)

KbTypes ==
    /\ pst \in [Procs -> {"free", "live", "zombie"}]
    /\ tst \in [Threads -> {"none", "ready", "waiting", "detached"}]
    /\ kbQ \in Seq(Threads) /\ stale = {} /\ readyQ = << >>
    /\ kbWaitsOn = [th \in Threads |-> kbWaitsOn[th]]

KbWaiter(th) ==
    /\ tst[th] # "detached"
    /\ tst[th] = "waiting" <=> th \in Items(kbQ)
    /\ tst[th] = "waiting" =>
          /\ kbWaitsOn[th] \in Pos /\ kbWaitsOn[th][1] = th[1]
          /\ pos[kbWaitsOn[th]] = sc_buf_pos

KbInv == KbTypes /\ ThreadsAreOfLive /\ \A th \in Threads : KbWaiter(th)

LEMMA KbOps ==
    /\ K!Thread = Threads /\ K!Handle = Pos
    /\ \A q : K!Items(q) = Items(q)
    /\ \A q, T : K!Drop(q, T) = Drop(q, T)
BY DEF K!Thread, Threads, K!Handle, Pos, K!Items, Items, K!Drop, Drop

LEMMA KbInit ==
    ASSUME K!Init
    PROVE  KbInv
<1>1. /\ pst = [p \in Procs |-> IF p = First THEN "live" ELSE "free"]
      /\ tst = [th \in Threads |-> IF th = <<First, 0>> THEN "ready" ELSE "none"]
      /\ kbQ = << >> /\ readyQ = << >> /\ stale = {}
      /\ kbWaitsOn = [th \in Threads |-> <<th[1], CHOOSE i \in Hids : TRUE>>]
    BY KbOps DEF K!Init, K!ProcessInit
<1>2. KbTypes /\ ThreadsAreOfLive
  <2>1. << >> \in Seq(Threads)
    OBVIOUS
  <2>2. kbWaitsOn = [th \in Threads |-> kbWaitsOn[th]]
    BY <1>1
  <2>3. pst \in [Procs -> {"free", "live", "zombie"}]
    BY <1>1
  <2>4. tst \in [Threads -> {"none", "ready", "waiting", "detached"}]
    BY <1>1
  <2>5. ThreadsAreOfLive
    BY <1>1, PluginsAssumption DEF ThreadsAreOfLive, Threads
  <2>6. QED BY <1>1, <2>1, <2>2, <2>3, <2>4, <2>5 DEF KbTypes
<1>3. Items(kbQ) = {}
    BY <1>1 DEF Items
<1>4. \A th \in Threads : KbWaiter(th)
    BY <1>1, <1>3 DEF KbWaiter
<1>5. QED BY <1>2, <1>4 DEF KbInv

(* Handles that move, but none a thread waits with.                        *)
LEMMA KbHandlesMove ==
    ASSUME KbInv, UNCHANGED <<pst, tst, kbQ, readyQ, kbWaitsOn, stale>>, sc_buf_pos' = sc_buf_pos,
           \A th \in Threads : tst[th] = "waiting" => pos'[kbWaitsOn[th]] = sc_buf_pos
    PROVE  KbInv'
BY DEF KbInv, KbTypes, ThreadsAreOfLive, KbWaiter

LEMMA KbHandles ==
    ASSUME KbInv, BufInv, NEW th \in Threads, NEW h \in Pos,
           \/ K!Open(th, h) \/ K!SkipForward(th, h) \/ K!Close(th, h)
           \/ \E len \in 1 .. Size : K!Read(th, h, len)
    PROVE  kbMisused' \/ KbInv'
<1>1. pos \in [Pos -> 0 .. Size] /\ sc_buf_pos # Size
    BY SizeIs DEF BufInv, KeyTypes, Place
<1>2. CASE K!Close(th, h)
  <2>1. /\ UNCHANGED <<pst, tst, kbQ, readyQ, kbWaitsOn>> /\ sc_buf_pos' = sc_buf_pos
        /\ pos' = [pos EXCEPT ![h] = Size]
        /\ stale' = stale \cup {u \in Items(readyQ \o kbQ) : kbWaitsOn[u] = h}
        /\ kbMisused' = (kbMisused \/ {u \in Items(readyQ \o kbQ) : kbWaitsOn[u] = h} # {})
    BY <1>2, KbOps DEF K!Close, K!NotBuffer, K!Closed, K!processVars
  <2>2. readyQ \o kbQ = kbQ
    BY DEF KbInv, KbTypes
  <2>3. CASE {u \in Items(kbQ) : kbWaitsOn[u] = h} # {}
    BY <2>1, <2>2, <2>3
  <2>4. CASE {u \in Items(kbQ) : kbWaitsOn[u] = h} = {}
    <3>1. stale' = stale
        BY <2>1, <2>2, <2>4
    <3>2. \A u \in Threads : tst[u] = "waiting" => pos'[kbWaitsOn[u]] = sc_buf_pos
        BY <1>1, <2>1, <2>4 DEF KbInv, KbWaiter
    <3>3. QED BY <2>1, <3>1, <3>2, KbHandlesMove
  <2>5. QED BY <2>3, <2>4
<1>3. CASE ~K!Close(th, h)
  <2>1. /\ UNCHANGED <<pst, tst, kbQ, readyQ, kbWaitsOn, stale>> /\ sc_buf_pos' = sc_buf_pos
        /\ \/ pos' = [pos EXCEPT ![h] = sc_buf_pos]
           \/ pos[h] # sc_buf_pos /\ \E x : pos' = [pos EXCEPT ![h] = x]
    <3>1. CASE K!Open(th, h) \/ K!SkipForward(th, h)
        BY <3>1 DEF K!Open, K!SkipForward, K!NotBuffer, K!NotWaits, K!processVars
    <3>2. ASSUME NEW len \in 1 .. Size, K!Read(th, h, len)
          PROVE  /\ UNCHANGED <<pst, tst, kbQ, readyQ, kbWaitsOn, stale>>
                 /\ sc_buf_pos' = sc_buf_pos
                 /\ pos[h] # sc_buf_pos /\ \E x : pos' = [pos EXCEPT ![h] = x]
        BY <3>2 DEF K!Read, K!NotBuffer, K!NotWaits, K!processVars
    <3>3. QED BY <1>3, <3>1, <3>2
  <2>2. \A u \in Threads : tst[u] = "waiting" => pos'[kbWaitsOn[u]] = sc_buf_pos
    BY <1>1, <2>1 DEF KbInv, KbWaiter
  <2>3. QED BY <2>1, <2>2, KbHandlesMove
<1>4. QED BY <1>2, <1>3

LEMMA KbWaitRead ==
    ASSUME KbInv, NEW th \in Threads, NEW h \in Pos, K!WaitRead(th, h)
    PROVE  KbInv'
<1>1. /\ tst[th] = "ready" /\ h[1] = th[1] /\ pos[h] = sc_buf_pos
      /\ tst' = [tst EXCEPT ![th] = "waiting"] /\ kbQ' = Append(kbQ, th)
      /\ kbWaitsOn' = [kbWaitsOn EXCEPT ![th] = h]
      /\ UNCHANGED <<pst, pos, readyQ, stale>> /\ sc_buf_pos' = sc_buf_pos
    BY DEF K!WaitRead, K!UsesHandle, K!Running, K!CaughtUp, K!Sleeps, K!NotBuffer
<1>2. kbQ' \in Seq(Threads) /\ Items(kbQ') = Items(kbQ) \cup {th}
    BY <1>1, AppendItems DEF KbInv, KbTypes
<1>3. kbWaitsOn' = [u \in Threads |-> IF u = th THEN h ELSE kbWaitsOn[u]]
    BY <1>1 DEF KbInv, KbTypes
<1>4. KbTypes'
  <2>1. kbWaitsOn' = [u \in Threads |-> kbWaitsOn'[u]]
    BY <1>3
  <2>2. QED BY <1>1, <1>2, <2>1 DEF KbInv, KbTypes
<1>5. ThreadsAreOfLive'
    BY <1>1 DEF KbInv, KbTypes, ThreadsAreOfLive
<1>6. ASSUME NEW u \in Threads PROVE KbWaiter(u)'
    BY <1>1, <1>2, <1>3 DEF KbInv, KbTypes, KbWaiter
<1>7. QED BY <1>4, <1>5, <1>6 DEF KbInv

(* Every waiting thread passes the check, so none stays in the queue.      *)
LEMMA KbKeyEvent ==
    ASSUME KbInv, K!KeyEvent
    PROVE  KbInv'
<1>1. /\ kbQ \in Seq(Threads) /\ readyQ \o kbQ = kbQ /\ stale = {}
      /\ \A k \in 1 .. Len(kbQ) : pos[kbWaitsOn[kbQ[k]]] = sc_buf_pos
  <2>1. kbQ \in Seq(Threads) /\ readyQ \o kbQ = kbQ /\ stale = {}
    BY DEF KbInv, KbTypes
  <2>2. ASSUME NEW k \in 1 .. Len(kbQ)
        PROVE  kbQ[k] \in Threads /\ kbQ[k] \in Items(kbQ)
    BY <2>1 DEF Items
  <2>3. QED BY <2>1, <2>2 DEF KbInv, KbWaiter
<1>2. /\ UNCHANGED <<pst, pos, kbWaitsOn>> /\ kbQ' = << >>
      /\ \E k \in 0 .. Len(kbQ) :
            IF k = Len(kbQ)
            THEN K!Wakes(Items(kbQ)) /\ readyQ' = << >> /\ stale' = stale \ Items(kbQ)
            ELSE K!MayFail(kbQ[k + 1])
    BY <1>1, KbOps DEF K!KeyEvent
<1>3. \A k \in 0 .. Len(kbQ) : k # Len(kbQ) => ~K!MayFail(kbQ[k + 1])
  <2>1. ASSUME NEW k \in 0 .. Len(kbQ), k # Len(kbQ) PROVE ~K!MayFail(kbQ[k + 1])
    <3>1. k + 1 \in 1 .. Len(kbQ)
        BY <1>1, <2>1
    <3>2. QED BY <3>1, <1>1 DEF K!MayFail
  <2>2. QED BY <2>1
<1>4. K!Wakes(Items(kbQ)) /\ readyQ' = << >> /\ stale' = {}
    BY <1>1, <1>2, <1>3
<1>5. tst' = [u \in Threads |-> IF u \in Items(kbQ) THEN "ready" ELSE tst[u]]
    BY <1>4, KbOps DEF K!Wakes
<1>6. << >> \in Seq(Threads) /\ Items(<< >>) = {}
    BY DEF Items
<1>7. KbTypes'
    BY <1>2, <1>4, <1>5, <1>6 DEF KbInv, KbTypes
<1>8. ThreadsAreOfLive'
    BY <1>2, <1>5 DEF KbInv, KbTypes, ThreadsAreOfLive, KbWaiter
<1>9. ASSUME NEW u \in Threads PROVE KbWaiter(u)'
    BY <1>2, <1>5, <1>6 DEF KbInv, KbWaiter
<1>10. QED BY <1>7, <1>8, <1>9 DEF KbInv

LEMMA KbSpawnFork ==
    ASSUME KbInv, BufInv, NEW th \in Threads,
           (\E u \in Threads : K!Spawn(th, u)) \/ (\E c \in Procs : K!Fork(th, c))
    PROVE  KbInv'
<1>1. pos \in [Pos -> 0 .. Size]
    BY DEF BufInv, KeyTypes
<1>2. ASSUME NEW u \in Threads, K!Spawn(th, u)
      PROVE  KbInv'
  <2>1. /\ tst[th] = "ready" /\ u[1] = th[1] /\ tst[u] = "none"
        /\ tst' = [tst EXCEPT ![u] = "ready"]
        /\ UNCHANGED <<pst, pos, kbQ, readyQ, kbWaitsOn, stale>> /\ sc_buf_pos' = sc_buf_pos
    BY <1>2 DEF K!Spawn, K!Spawns, K!Running, K!NotBuffer, K!NotWaits
  <2>2. KbTypes' /\ ThreadsAreOfLive'
    BY <2>1 DEF KbInv, KbTypes, ThreadsAreOfLive
  <2>3. ASSUME NEW v \in Threads PROVE KbWaiter(v)'
    BY <2>1 DEF KbInv, KbTypes, KbWaiter
  <2>4. QED BY <2>2, <2>3 DEF KbInv
<1>3. ASSUME NEW c \in Procs, K!Fork(th, c)
      PROVE  KbInv'
  <2> DEFINE u == <<c, th[2]>>
  <2>1. /\ tst[th] = "ready" /\ pst[c] = "free"
        /\ pst' = [pst EXCEPT ![c] = "live"] /\ tst' = [tst EXCEPT ![u] = "ready"]
        /\ pos' = [g \in Pos |-> IF g[1] = c THEN pos[<<th[1], g[2]>>] ELSE pos[g]]
        /\ UNCHANGED <<kbQ, readyQ, kbWaitsOn, stale>> /\ sc_buf_pos' = sc_buf_pos
    BY <1>3, KbOps DEF K!Fork, K!Forks, K!Running, K!NotBuffer, K!NotWaits
  <2>2. u \in Threads /\ u[1] = c
    BY DEF Threads
  <2> HIDE DEF u
  <2>3. \A v \in Threads : v[1] = c => tst[v] = "none"
    BY <2>1 DEF KbInv, ThreadsAreOfLive
  <2>4. tst[u] = "none"
    BY <2>2, <2>3
  <2>5. KbTypes'
    BY <2>1 DEF KbInv, KbTypes
  <2>6. ThreadsAreOfLive'
    BY <2>1, <2>2 DEF KbInv, KbTypes, ThreadsAreOfLive, Threads
  <2>7. ASSUME NEW v \in Threads PROVE KbWaiter(v)'
    <3>1. KbWaiter(v) /\ (tst'[v] = "waiting" <=> tst[v] = "waiting") /\ tst'[v] # "detached"
        BY <2>1, <2>4 DEF KbInv, KbTypes, KbWaiter
    <3>2. tst[v] = "waiting" => v[1] # c
        BY <2>3
    <3>3. tst[v] = "waiting" => pos'[kbWaitsOn[v]] = pos[kbWaitsOn[v]]
        BY <2>1, <3>1, <3>2 DEF KbWaiter
    <3>4. QED BY <2>1, <3>1, <3>3 DEF KbWaiter
  <2>8. QED BY <2>5, <2>6, <2>7 DEF KbInv
<1>4. QED BY <1>2, <1>3

(* The threads of a process leave with it, whether they wait or not.       *)
LEMMA KbLeave ==
    ASSUME KbInv, BufInv, NEW th \in Threads, K!Exit(th) \/ K!Exec(th)
    PROVE  KbInv'
<1> DEFINE p == th[1]
           gone == {p} \X Tids
<1>1. /\ p \in Procs /\ tst[th] = "ready"
      /\ kbQ' = Drop(kbQ, gone) /\ readyQ' = Drop(readyQ, gone) /\ stale' = stale \ gone
      /\ kbWaitsOn' = kbWaitsOn /\ sc_buf_pos' = sc_buf_pos
      /\ pst' = pst \/ pst' = [pst EXCEPT ![p] = "zombie"]
      /\ pst' # pst => tst' = [u \in Threads |-> IF u[1] = p THEN "none" ELSE tst[u]]
      /\ \/ tst' = [u \in Threads |-> IF u[1] = p THEN "none" ELSE tst[u]]
         \/ tst' = [u \in Threads |-> IF u[1] # p THEN tst[u]
                                      ELSE IF u[2] = main[p] THEN "ready" ELSE "none"]
      /\ \/ pos' = pos \/ pos' = [g \in Pos |-> IF g[1] = p THEN Size ELSE pos[g]]
    BY KbOps DEF K!Exit, K!Exits, K!Exec, K!Execs, K!AfterExec, K!Leave, K!ThreadsOf, K!Running,
                 K!NotBuffer, K!WithoutHandles, K!Closed, Threads
<1>2. \A u \in Threads : u \in gone <=> u[1] = p
    BY DEF Threads
<1>3. pst[p] = "live"
    BY <1>1 DEF KbInv, ThreadsAreOfLive
<1>4. \A u \in Threads : /\ u[1] # p => tst'[u] = tst[u]
                         /\ u[1] = p => tst'[u] \in {"none", "ready"}
                         /\ u[1] = p /\ pst' # pst => tst'[u] = "none"
    BY <1>1
<1>5. tst' \in [Threads -> {"none", "ready", "waiting", "detached"}]
    BY <1>1 DEF KbInv, KbTypes
<1>6. pos \in [Pos -> 0 .. Size]
    BY DEF BufInv, KeyTypes
<1> HIDE DEF p, gone
<1>7. kbQ' \in Seq(Threads) /\ Items(kbQ') = Items(kbQ) \ gone
    BY <1>1, DropProps DEF KbInv, KbTypes
<1>8. readyQ' = << >>
  <2>1. << >> \in Seq(Threads) /\ readyQ = << >>
    BY DEF KbInv, KbTypes
  <2>2. Drop(readyQ, gone) \in Seq(Threads) /\ Items(Drop(readyQ, gone)) = {}
    <3>1. /\ Drop(readyQ, gone) \in Seq(Threads)
          /\ Items(Drop(readyQ, gone)) = Items(readyQ) \ gone
        BY <2>1, DropProps
    <3>2. Items(readyQ) = {}
        BY <2>1 DEF Items
    <3>3. QED BY <3>1, <3>2
  <2>3. \A q \in Seq(Threads) : Items(q) = {} => q = << >>
    BY DEF Items
  <2>4. QED BY <1>1, <2>1, <2>2, <2>3
<1>9. KbTypes'
  <2>1. pst' \in [Procs -> {"free", "live", "zombie"}]
    BY <1>1 DEF KbInv, KbTypes
  <2>2. stale' = {}
    BY <1>1 DEF KbInv, KbTypes
  <2>3. kbWaitsOn' = [u \in Threads |-> kbWaitsOn'[u]]
    BY <1>1 DEF KbInv, KbTypes
  <2>4. QED BY <1>5, <1>7, <1>8, <2>1, <2>2, <2>3 DEF KbTypes
<1>10. ThreadsAreOfLive'
  <2>1. ASSUME NEW u \in Threads, tst'[u] # "none" PROVE pst'[u[1]] = "live"
    <3>1. CASE u[1] = p
        BY <1>1, <1>3, <1>4, <2>1, <3>1
    <3>2. CASE u[1] # p
        BY <1>1, <1>4, <2>1, <3>2 DEF KbInv, KbTypes, ThreadsAreOfLive, Threads
    <3>3. QED BY <3>1, <3>2
  <2>2. QED BY <2>1 DEF ThreadsAreOfLive
<1>11. ASSUME NEW u \in Threads PROVE KbWaiter(u)'
  <2>1. KbWaiter(u)
    BY DEF KbInv
  <2>2. CASE u[1] = p
    BY <1>2, <1>4, <1>7, <2>2 DEF KbWaiter
  <2>3. CASE u[1] # p
    <3>1. tst'[u] = tst[u] /\ (u \in Items(kbQ') <=> u \in Items(kbQ))
        BY <1>2, <1>4, <1>7, <2>3
    <3>2. tst[u] = "waiting" => pos'[kbWaitsOn[u]] = pos[kbWaitsOn[u]]
        BY <1>1, <1>6, <2>1, <2>3 DEF KbWaiter
    <3>3. QED BY <1>1, <2>1, <3>1, <3>2 DEF KbWaiter
  <2>4. QED BY <2>2, <2>3
<1>12. QED BY <1>9, <1>10, <1>11 DEF KbInv

LEMMA KbReap ==
    ASSUME KbInv, BufInv, NEW p \in Procs, K!Reap(p)
    PROVE  KbInv'
<1>1. /\ pst[p] = "zombie" /\ pst' = [pst EXCEPT ![p] = "free"]
      /\ pos' = [g \in Pos |-> IF g[1] = p THEN Size ELSE pos[g]]
      /\ UNCHANGED <<tst, kbQ, readyQ, kbWaitsOn, stale>> /\ sc_buf_pos' = sc_buf_pos
    BY KbOps DEF K!Reap, K!Reaps, K!WithoutHandles, K!NotWaits, K!NotBuffer, K!Closed
<1>2. \A u \in Threads : u[1] = p => tst[u] = "none"
    BY <1>1 DEF KbInv, ThreadsAreOfLive
<1>3. KbTypes'
    BY <1>1 DEF KbInv, KbTypes
<1>4. ThreadsAreOfLive'
    BY <1>1, <1>2 DEF KbInv, KbTypes, ThreadsAreOfLive, Threads
<1>5. ASSUME NEW u \in Threads PROVE KbWaiter(u)'
  <2>1. KbWaiter(u) /\ (tst[u] = "waiting" => u[1] # p)
    BY <1>2 DEF KbInv
  <2>2. tst[u] = "waiting" => pos'[kbWaitsOn[u]] = pos[kbWaitsOn[u]]
    BY <1>1, <2>1 DEF KbWaiter
  <2>3. QED BY <1>1, <2>1, <2>2 DEF KbWaiter
<1>6. QED BY <1>3, <1>4, <1>5 DEF KbInv

LEMMA KbStep ==
    ASSUME kbMisused \/ KbInv, BufInv, K!Next
    PROVE  kbMisused' \/ KbInv'
<1>1. CASE kbMisused
  <2>1. kbMisused' = kbMisused \/ \E X : kbMisused' = (kbMisused \/ X # {})
    <3>1. ASSUME NEW th, NEW h, K!Close(th, h) PROVE \E X : kbMisused' = (kbMisused \/ X # {})
        BY <3>1 DEF K!Close
    <3>2. ASSUME NEW th, NEW h,
                 \/ K!Open(th, h) \/ K!SkipForward(th, h) \/ K!WaitRead(th, h)
                 \/ \E len \in 1 .. Size : K!Read(th, h, len)
          PROVE  kbMisused' = kbMisused
        BY <3>2 DEF K!Open, K!SkipForward, K!WaitRead, K!Read, K!NotWaits
    <3>3. ASSUME NEW th, K!Exit(th) \/ K!Exec(th) \/ (\E u : K!Spawn(th, u)) \/ (\E c : K!Fork(th, c))
          PROVE  kbMisused' = kbMisused
        BY <3>3 DEF K!Exit, K!Exec, K!Spawn, K!Fork, K!NotWaits
    <3>4. ASSUME NEW p, K!Reap(p) PROVE kbMisused' = kbMisused
        BY <3>4 DEF K!Reap, K!NotWaits
    <3>5. ASSUME K!KeyEvent PROVE kbMisused' = kbMisused
        BY <3>5 DEF K!KeyEvent
    <3>6. QED BY <3>1, <3>2, <3>3, <3>4, <3>5 DEF K!Next
  <2>2. QED BY <1>1, <2>1
<1>2. CASE KbInv
  <2>1. ASSUME NEW th \in Threads, NEW h \in Pos,
               \/ K!Open(th, h) \/ K!SkipForward(th, h) \/ K!Close(th, h)
               \/ \E len \in 1 .. Size : K!Read(th, h, len)
        PROVE  kbMisused' \/ KbInv'
    BY <1>2, <2>1, KbHandles
  <2>2. ASSUME NEW th \in Threads, NEW h \in Pos, K!WaitRead(th, h) PROVE KbInv'
    BY <1>2, <2>2, KbWaitRead
  <2>3. ASSUME NEW th \in Threads,
               (\E u \in Threads : K!Spawn(th, u)) \/ (\E c \in Procs : K!Fork(th, c))
        PROVE  KbInv'
    BY <1>2, <2>3, KbSpawnFork
  <2>4. ASSUME NEW th \in Threads, K!Exit(th) \/ K!Exec(th) PROVE KbInv'
    BY <1>2, <2>4, KbLeave
  <2>5. ASSUME NEW p \in Procs, K!Reap(p) PROVE KbInv'
    BY <1>2, <2>5, KbReap
  <2>6. K!KeyEvent => KbInv'
    BY <1>2, KbKeyEvent
  <2>7. QED BY <2>1, <2>2, <2>3, <2>4, <2>5, <2>6, KbOps DEF K!Next
<1>3. QED BY <1>1, <1>2

KbPart == BufInv /\ (part = "keyboard" => kbMisused \/ KbInv)

(* However far a reader has fallen behind, the bytes from its place to the *)
(* plugin's are the newest that were typed, in order, and a read returns   *)
(* consecutive ones, also over the end of the ring; and whoever waits has  *)
(* read all, so no key event leaves a thread outside every queue -- unless *)
(* a program closed a handle while one of its threads waits with it        *)
(* (plugin_kb.c).                                                          *)
THEOREM KeysStayInOrder == Spec => []KeysAreReadInOrder
<1>1. Init => KbPart
    BY BufInit, KbInit DEF Init, KbPart
<1>2. KbPart /\ [Next]_vars => KbPart'
  <2>1. SUFFICES ASSUME KbPart, [Next]_vars PROVE KbPart'
    OBVIOUS
  <2>2. /\ part' = part
        /\ \/ K!Next /\ part = "keyboard"
           \/ UNCHANGED kbVars /\ (part = "keyboard" => UNCHANGED <<pst, tst>>)
    <3>1. CASE UNCHANGED vars
        BY <3>1 DEF vars
    <3>2. CASE Next
        BY <3>2 DEF Next
    <3>3. QED BY <2>1, <3>1, <3>2
  <2>3. CASE K!Next /\ part = "keyboard"
    BY <2>1, <2>2, <2>3, BufStep, KbStep DEF KbPart
  <2>4. CASE UNCHANGED kbVars /\ (part = "keyboard" => UNCHANGED <<pst, tst>>)
    <3>1. BufInv'
        BY <2>1, <2>4 DEF KbPart, kbVars, BufInv, KeyTypes, NewestAreGood, Good, Loc, Behind, Back,
                          K!ReadsAreConsecutive
    <3>2. part' = "keyboard" => kbMisused' \/ KbInv'
      <4>1. ASSUME part' = "keyboard" PROVE kbMisused' \/ KbInv'
        <5>1. UNCHANGED <<pst, tst>> /\ UNCHANGED kbVars /\ (kbMisused \/ KbInv)
            BY <2>1, <2>2, <2>4, <4>1 DEF KbPart
        <5>2. QED BY <5>1 DEF kbVars, KbInv, KbTypes, ThreadsAreOfLive, KbWaiter
      <4>2. QED BY <4>1
    <3>3. QED BY <3>1, <3>2 DEF KbPart
  <2>5. QED BY <2>2, <2>3, <2>4
<1>3. KbPart => KeysAreReadInOrder
  <2>1. KbInv => K!WaitersHaveCaughtUp
    BY KbOps DEF KbInv, KbWaiter, K!WaitersHaveCaughtUp
  <2>2. kbMisused => K!WaitersHaveCaughtUp
    BY DEF K!WaitersHaveCaughtUp
  <2>3. BufInv => K!ReadableIsNewest /\ K!ReadsAreConsecutive
    BY NewestIsReadable DEF BufInv
  <2>4. QED BY <2>1, <2>2, <2>3 DEF KbPart, KeysAreReadInOrder
<1>4. QED BY <1>1, <1>2, <1>3, PTL DEF Spec

-----------------------------------------------------------------------------
(* Files: the node key map *)

AllNodes == Nodes \cup {Root}

(* What a call passes on to the next: the keys with their references, and  *)
(* those who wait for them.                                                *)
IsKeyMap(st) ==
    /\ st = [refs |-> st.refs, bwq |-> st.bwq, woken |-> st.woken]
    /\ st.refs \in [DOMAIN st.refs -> Nat \ {0}]
    /\ st.bwq \in [DOMAIN st.refs -> SUBSET Threads]
    /\ DOMAIN st.refs \subseteq AllNodes
    /\ st.woken \subseteq Threads

RefsTo(st, k) == IF k \in DOMAIN st.refs THEN st.refs[k] ELSE 0

(* Keys that are freed wake whoever waits for them; the others stay.       *)
Drops(st, after) ==
    /\ DOMAIN after.refs \subseteq DOMAIN st.refs
    /\ \A k \in DOMAIN after.refs : after.bwq[k] = st.bwq[k]
    /\ \A th \in Threads :
          th \in after.woken <=>
             \/ th \in st.woken
             \/ \E k \in DOMAIN st.refs \ DOMAIN after.refs : th \in st.bwq[k]

LEMMA DropsTwice ==
    ASSUME NEW a, NEW b, NEW c, Drops(a, b), Drops(b, c)
    PROVE  Drops(a, c)
BY DEF Drops

LEMMA Registering ==
    ASSUME NEW st, IsKeyMap(st), NEW k \in AllNodes
    PROVE  /\ IsKeyMap(FS!Registered(st, k))
           /\ FS!Registered(st, k).woken = st.woken
           /\ \A x \in AllNodes :
                 RefsTo(FS!Registered(st, k), x) = IF x = k THEN RefsTo(st, x) + 1
                                                   ELSE RefsTo(st, x)
           /\ \A x \in DOMAIN FS!Registered(st, k).refs :
                 FS!Registered(st, k).bwq[x] = IF x \in DOMAIN st.refs THEN st.bwq[x] ELSE {}
           /\ DOMAIN FS!Registered(st, k).refs = DOMAIN st.refs \cup {k}
<1> DEFINE r == [x \in DOMAIN st.refs \cup {k} |-> IF x # k THEN st.refs[x]
                   ELSE IF k \in DOMAIN st.refs THEN st.refs[k] + 1 ELSE 1]
           q == [x \in DOMAIN st.bwq \cup {k} |-> IF x \in DOMAIN st.bwq THEN st.bwq[x] ELSE {}]
<1>1. FS!Registered(st, k) = [refs |-> r, bwq |-> q, woken |-> st.woken]
  <2>1. st = [refs |-> st.refs, bwq |-> st.bwq, woken |-> st.woken]
      BY DEF IsKeyMap
  <2>2. FS!Registered(st, k) = [st EXCEPT !.refs = r, !.bwq = q]
      BY DEF FS!Registered
  <2> HIDE DEF r, q
  <2>3. QED BY <2>1, <2>2, Zenon
<1>2. DOMAIN st.bwq = DOMAIN st.refs
    BY DEF IsKeyMap
<1>3. \A x \in DOMAIN st.refs : st.refs[x] \in Nat \ {0} /\ st.bwq[x] \subseteq Threads
    BY DEF IsKeyMap
<1>4. /\ DOMAIN r = DOMAIN st.refs \cup {k}
      /\ \A x \in DOMAIN r : r[x] = IF x # k THEN st.refs[x]
                   ELSE IF k \in DOMAIN st.refs THEN st.refs[k] + 1 ELSE 1
    OBVIOUS
<1>5. /\ DOMAIN q = DOMAIN st.refs \cup {k}
      /\ \A x \in DOMAIN q : q[x] = IF x \in DOMAIN st.refs THEN st.bwq[x] ELSE {}
    BY <1>2
<1>6. r \in [DOMAIN r -> Nat \ {0}] /\ q \in [DOMAIN r -> SUBSET Threads]
    BY <1>2, <1>3
<1> HIDE DEF r, q
<1>7. IsKeyMap(FS!Registered(st, k))
    BY <1>1, <1>4, <1>6 DEF IsKeyMap
<1>8. QED BY <1>1, <1>3, <1>4, <1>5, <1>7 DEF RefsTo

LEMMA Deregistering ==
    ASSUME NEW st, IsKeyMap(st), NEW k \in DOMAIN st.refs
    PROVE  /\ IsKeyMap(FS!Deregistered(st, k)) /\ Drops(st, FS!Deregistered(st, k))
           /\ \A x \in AllNodes :
                 RefsTo(FS!Deregistered(st, k), x) = IF x = k THEN RefsTo(st, x) - 1
                                                     ELSE RefsTo(st, x)
<1>1. /\ DOMAIN st.bwq = DOMAIN st.refs
      /\ \A x \in DOMAIN st.refs : st.refs[x] \in Nat \ {0} /\ st.bwq[x] \subseteq Threads
    BY DEF IsKeyMap
<1>2. CASE st.refs[k] > 1
  <2> DEFINE r == [st.refs EXCEPT ![k] = @ - 1]
  <2>1. FS!Deregistered(st, k) = [refs |-> r, bwq |-> st.bwq, woken |-> st.woken]
      BY <1>2, Zenon DEF FS!Deregistered, IsKeyMap
  <2>2. /\ DOMAIN r = DOMAIN st.refs
        /\ \A x \in DOMAIN r : r[x] = IF x = k THEN st.refs[k] - 1 ELSE st.refs[x]
      OBVIOUS
  <2>3. r \in [DOMAIN r -> Nat \ {0}]
      BY <1>1, <1>2 DEF IsKeyMap
  <2> HIDE DEF r
  <2>4. IsKeyMap(FS!Deregistered(st, k))
      BY <2>1, <2>2, <2>3 DEF IsKeyMap
  <2>5. Drops(st, FS!Deregistered(st, k))
      BY <2>1, <2>2 DEF Drops
  <2>6. QED BY <2>1, <2>2, <2>4, <2>5 DEF RefsTo
<1>3. CASE ~(st.refs[k] > 1)
  <2> DEFINE r == [x \in DOMAIN st.refs \ {k} |-> st.refs[x]]
             q == [x \in DOMAIN st.bwq \ {k} |-> st.bwq[x]]
             w == st.woken \cup st.bwq[k]
  <2>1. FS!Deregistered(st, k) = [refs |-> r, bwq |-> q, woken |-> w]
      BY <1>3, Zenon DEF FS!Deregistered
  <2>2. /\ DOMAIN r = DOMAIN st.refs \ {k} /\ DOMAIN q = DOMAIN r
        /\ \A x \in DOMAIN r : r[x] = st.refs[x] /\ q[x] = st.bwq[x]
      BY <1>1
  <2>3. r \in [DOMAIN r -> Nat \ {0}] /\ q \in [DOMAIN r -> SUBSET Threads] /\ w \subseteq Threads
      BY <1>1 DEF IsKeyMap
  <2>4. st.refs[k] = 1
      BY <1>1, <1>3
  <2>5. w = st.woken \cup st.bwq[k]
      OBVIOUS
  <2> HIDE DEF r, q, w
  <2>6. IsKeyMap(FS!Deregistered(st, k))
      BY <2>1, <2>2, <2>3 DEF IsKeyMap
  <2>7. Drops(st, FS!Deregistered(st, k))
      BY <2>1, <2>2, <2>5 DEF Drops
  <2>8. QED BY <1>1, <2>1, <2>2, <2>4, <2>6, <2>7 DEF RefsTo
<1>4. QED BY <1>2, <1>3

LEMMA Closing ==
    ASSUME NEW st, IsKeyMap(st), NEW hset,
           \A k \in AllNodes :
              LET of == FS!Cardinality({h \in hset : handles[h].nk = k})
              IN  of \in Nat /\ of <= RefsTo(st, k)
    PROVE  /\ IsKeyMap(FS!Closed(st, hset)) /\ Drops(st, FS!Closed(st, hset))
           /\ \A k \in AllNodes :
                 RefsTo(FS!Closed(st, hset), k) =
                    RefsTo(st, k) - FS!Cardinality({h \in hset : handles[h].nk = k})
<1> DEFINE Of(k) == FS!Cardinality({h \in hset : handles[h].nk = k})
           last == {k \in DOMAIN st.refs : st.refs[k] = Of(k)}
           r == [k \in DOMAIN st.refs \ last |-> st.refs[k] - Of(k)]
           q == [k \in DOMAIN st.bwq \ last |-> st.bwq[k]]
           w == st.woken \cup UNION {st.bwq[k] : k \in last}
<1>1. FS!Closed(st, hset) = [refs |-> r, bwq |-> q, woken |-> w]
    BY Zenon DEF FS!Closed
<1>2. /\ DOMAIN st.bwq = DOMAIN st.refs /\ DOMAIN st.refs \subseteq AllNodes
      /\ \A x \in DOMAIN st.refs : st.refs[x] \in Nat \ {0} /\ st.bwq[x] \subseteq Threads
    BY DEF IsKeyMap
<1>3. \A k \in AllNodes : Of(k) \in Nat /\ Of(k) <= RefsTo(st, k)
    OBVIOUS
<1>4. w \subseteq Threads
    BY <1>2 DEF IsKeyMap
<1>5. \A th \in Threads : th \in w <=> th \in st.woken \/ \E k \in last : th \in st.bwq[k]
    OBVIOUS
<1> HIDE DEF Of, w
<1>6. \A k \in DOMAIN st.refs : k \in last <=> st.refs[k] = Of(k)
    OBVIOUS
<1>7. /\ DOMAIN r = DOMAIN st.refs \ last /\ DOMAIN q = DOMAIN r
      /\ \A x \in DOMAIN r : r[x] = st.refs[x] - Of(x) /\ q[x] = st.bwq[x]
    BY <1>2
<1>8. last \subseteq DOMAIN st.refs
    OBVIOUS
<1>9. r \in [DOMAIN r -> Nat \ {0}] /\ q \in [DOMAIN r -> SUBSET Threads]
  <2>1. \A x \in DOMAIN st.refs \ last : st.refs[x] - Of(x) \in Nat \ {0}
      BY <1>2, <1>3, <1>6 DEF RefsTo
  <2>2. QED BY <1>2, <2>1
<1> HIDE DEF last, r, q
<1>10. IsKeyMap(FS!Closed(st, hset))
    BY <1>1, <1>2, <1>4, <1>7, <1>9 DEF IsKeyMap
<1>11. Drops(st, FS!Closed(st, hset))
    BY <1>1, <1>5, <1>7, <1>8 DEF Drops
<1>12. \A k \in AllNodes : RefsTo(FS!Closed(st, hset), k) = RefsTo(st, k) - Of(k)
    BY <1>1, <1>2, <1>3, <1>6, <1>7, <1>8 DEF RefsTo
<1>13. QED BY <1>10, <1>11, <1>12 DEF Of

-----------------------------------------------------------------------------
(* Files: the invariant *)

Workers(k) == {p \in Procs : pst[p] # "free" /\ cwds[p] = k}
OpenOn(k)  == {h \in DOMAIN handles : handles[h].nk = k}
Held(k)    == Cardinality(Workers(k)) + Cardinality(OpenOn(k))

TreeTypes ==
    /\ tree \in [DOMAIN tree -> [dir : BOOLEAN, up : AllNodes, name : Names \cup {"/"}, size : Nat]]
    /\ DOMAIN tree \subseteq AllNodes

HandleTypes ==
    /\ handles \in [DOMAIN handles -> [nk : AllNodes, pos : Nat]]
    /\ DOMAIN handles \subseteq Pos /\ IsFiniteSet(DOMAIN handles)

FileTypes ==
    /\ pst \in [Procs -> {"free", "live", "zombie"}]
    /\ tst \in [Threads -> {"none", "ready", "waiting", "detached"}]
    /\ TreeTypes /\ HandleTypes
    /\ cwds \in [Procs -> AllNodes] /\ ctx \in [Threads -> Pos \cup {<< >>}]
    /\ IsKeyMap(FS!State)

(* References count the users, and only of processes that exist.           *)
Counted ==
    /\ \A k \in AllNodes : RefsTo(FS!State, k) = Held(k)
    /\ \A h \in DOMAIN handles : pst[h[1]] # "free"

(* A thread is in one queue at most, of a file, and waits.                 *)
QueuesRight ==
    \A k \in DOMAIN nodeRefs : \A th \in bwq[k] :
        /\ tst[th] = "waiting" /\ FS!IsFile(k)
        /\ \A j \in DOMAIN nodeRefs : th \in bwq[j] => j = k

FileInv ==
    /\ FileTypes /\ ThreadsAreOfLive /\ Counted /\ QueuesRight
    /\ FS!HeldNodesExist

AtEnd == FS!WaitersAreAtTheEnd

LEMMA FileOps ==
    /\ FS!Thread = Threads
    /\ \A X : FS!Cardinality(X) = Cardinality(X)
    /\ FS!State.refs = nodeRefs /\ FS!State.bwq = bwq /\ FS!State.woken = {}
    /\ FS!Free = << >>
    /\ \A p : FS!ThreadsOf(p) = {p} \X Tids
    /\ FS!Exists = DOMAIN tree
BY DEF FS!Thread, Threads, FS!Cardinality, Cardinality, FS!State, FS!Free, FS!ThreadsOf, FS!Exists

LEMMA HeldIs ==
    ASSUME FileTypes, NEW k
    PROVE  /\ IsFiniteSet(Workers(k)) /\ IsFiniteSet(OpenOn(k))
           /\ Cardinality(Workers(k)) \in Nat /\ Cardinality(OpenOn(k)) \in Nat /\ Held(k) \in Nat
           /\ Held(k) = 0 <=> Workers(k) = {} /\ OpenOn(k) = {}
<1>1. Workers(k) \in SUBSET Procs /\ OpenOn(k) \in SUBSET DOMAIN handles
    BY DEF Workers, OpenOn
<1>2. IsFiniteSet(Workers(k)) /\ IsFiniteSet(OpenOn(k))
    BY <1>1, TablesAreFinite, FS_Subset DEF FileTypes, HandleTypes
<1>3. Cardinality(Workers(k)) \in Nat /\ Cardinality(OpenOn(k)) \in Nat
    BY <1>2, FS_CardinalityType
<1>4. (Cardinality(Workers(k)) = 0 <=> Workers(k) = {}) /\ (Cardinality(OpenOn(k)) = 0 <=> OpenOn(k) = {})
    BY <1>2, FS_EmptySet
<1>5. QED BY <1>2, <1>3, <1>4 DEF Held

UsedRegistered ==
    /\ \A p \in Procs : pst[p] # "free" => cwds[p] \in DOMAIN nodeRefs
    /\ \A h \in DOMAIN handles : handles[h].nk \in DOMAIN nodeRefs

LEMMA UsedIsRegistered == FileInv => UsedRegistered
<1> SUFFICES ASSUME FileInv PROVE UsedRegistered
    OBVIOUS
<1>1. FileTypes
    BY DEF FileInv
<1>2. \A k \in AllNodes : Held(k) # 0 => k \in DOMAIN nodeRefs
    BY FileOps DEF FileInv, Counted, RefsTo
<1>3. ASSUME NEW p \in Procs, pst[p] # "free"
      PROVE  cwds[p] \in DOMAIN nodeRefs
  <2>1. cwds[p] \in AllNodes /\ p \in Workers(cwds[p])
      BY <1>1, <1>3 DEF FileTypes, Workers
  <2>2. QED BY <1>1, <1>2, <2>1, HeldIs
<1>4. ASSUME NEW h \in DOMAIN handles
      PROVE  handles[h].nk \in DOMAIN nodeRefs
  <2>1. handles[h].nk \in AllNodes /\ h \in OpenOn(handles[h].nk)
      BY <1>1 DEF FileTypes, HandleTypes, OpenOn
  <2>2. QED BY <1>1, <1>2, <2>1, HeldIs
<1>5. QED BY <1>3, <1>4 DEF UsedRegistered

(* The invariant is what the run checks.                                   *)
LEMMA FileInvIsRight ==
    ASSUME FileInv
    PROVE  FS!ReferencesAreHolders /\ FS!HeldNodesExist
<1>1. \A k : FS!Holders(k) = Held(k)
    BY FileOps DEF FS!Holders, Held, Workers, OpenOn
<1>2. DOMAIN nodeRefs \subseteq AllNodes /\ DOMAIN tree \subseteq AllNodes
    BY FileOps DEF FileInv, FileTypes, IsKeyMap, TreeTypes
<1>3. \A k \in AllNodes : RefsTo(FS!State, k) = Held(k)
    BY DEF FileInv, Counted
<1>4. QED BY <1>1, <1>2, <1>3, FileOps DEF FS!ReferencesAreHolders, RefsTo, FileInv

LEMMA FilesInit ==
    ASSUME FS!FileInit
    PROVE  FileInv /\ AtEnd
<1>1. /\ pst = [p \in Procs |-> IF p = First THEN "live" ELSE "free"]
      /\ tst = [th \in Threads |-> IF th = <<First, 0>> THEN "ready" ELSE "none"]
      /\ tree = [d \in {Root} |-> [dir |-> TRUE, up |-> Root, name |-> "/", size |-> 0]]
      /\ nodeRefs = [k \in {Root} |-> 1] /\ bwq = [k \in {Root} |-> {}]
      /\ cwds = [p \in Procs |-> Root] /\ handles = << >>
      /\ ctx = [th \in Threads |-> << >>] /\ down = FALSE
      /\ First \in Procs
    BY PluginsAssumption, FileOps DEF FS!FileInit, FS!ProcessInit, FS!TreeInit, FS!Node
<1>2. DOMAIN handles = {}
    BY <1>1
<1>3. FileTypes
  <2>1. TreeTypes
      BY <1>1 DEF TreeTypes, AllNodes
  <2>2. HandleTypes
    <3>1. handles \in [DOMAIN handles -> [nk : AllNodes, pos : Nat]]
        BY <1>1, <1>2
    <3>2. IsFiniteSet(DOMAIN handles)
        BY <1>2, FS_EmptySet
    <3>3. QED BY <1>2, <3>1, <3>2 DEF HandleTypes
  <2>3. IsKeyMap(FS!State)
      BY <1>1 DEF IsKeyMap, FS!State, AllNodes
  <2>4. QED BY <1>1, <2>1, <2>2, <2>3 DEF FileTypes, AllNodes
<1>4. ThreadsAreOfLive
    BY <1>1 DEF ThreadsAreOfLive, Threads
<1>5. Counted
  <2>1. \A k \in AllNodes : OpenOn(k) = {} /\ Workers(k) = IF k = Root THEN {First} ELSE {}
      BY <1>1, <1>2 DEF OpenOn, Workers
  <2>2. \A k \in AllNodes : Held(k) = IF k = Root THEN 1 ELSE 0
    <3>1. Cardinality({}) = 0 /\ Cardinality({First}) = 1
        BY FS_EmptySet, FS_Singleton
    <3>2. QED BY <2>1, <3>1 DEF Held
  <2>3. QED BY <1>1, <1>2, <2>2, FileOps DEF Counted, RefsTo
<1>6. QueuesRight /\ FS!HeldNodesExist
    BY <1>1, <1>2 DEF QueuesRight, FS!HeldNodesExist, FS!IsDir, FS!Exists
<1>7. AtEnd
    BY <1>1, FileOps DEF AtEnd, FS!WaitersAreAtTheEnd
<1>8. QED BY <1>3, <1>4, <1>5, <1>6, <1>7 DEF FileInv

-----------------------------------------------------------------------------
(* Files: what all actions need *)

LEMMA BecomesIs ==
    ASSUME NEW n, IsKeyMap(n), FS!Becomes(n)
    PROVE  /\ IsKeyMap(FS!State)' /\ nodeRefs' = n.refs /\ bwq' = n.bwq
           /\ \A k : RefsTo(FS!State, k)' = RefsTo(n, k)
<1>1. nodeRefs' = n.refs /\ bwq' = n.bwq
    BY DEF FS!Becomes
<1>2. FS!State' = [refs |-> n.refs, bwq |-> n.bwq, woken |-> {}]
    BY <1>1 DEF FS!State
<1>3. IsKeyMap(FS!State)'
    BY <1>2 DEF IsKeyMap
<1>4. \A k : RefsTo(FS!State, k)' = RefsTo(n, k)
    BY <1>2 DEF RefsTo
<1>5. QED BY <1>1, <1>3, <1>4

(* Queues that only lose keys, whose waiters wake, stay right.             *)
LEMMA QueuesDrop ==
    ASSUME FileInv, NEW st, NEW n, IsKeyMap(st), IsKeyMap(n), Drops(st, n), FS!Becomes(n),
           DOMAIN st.refs = DOMAIN nodeRefs,
           \A k \in DOMAIN nodeRefs :
              /\ st.bwq[k] \subseteq bwq[k]
              /\ FS!IsFile(k) => FS!IsFile(k)'
              /\ \A th \in st.bwq[k] : th \notin n.woken => tst'[th] = "waiting",
           st.woken = {}
    PROVE  QueuesRight'
<1>1. nodeRefs' = n.refs /\ bwq' = n.bwq
    BY DEF FS!Becomes
<1>2. \A k \in DOMAIN n.refs : k \in DOMAIN nodeRefs /\ n.bwq[k] = st.bwq[k]
    BY DEF Drops
<1>3. \A k \in DOMAIN nodeRefs : st.bwq[k] \subseteq Threads
    BY DEF IsKeyMap
<1>4. ASSUME NEW k \in DOMAIN n.refs, NEW th \in n.bwq[k]
      PROVE  /\ tst'[th] = "waiting" /\ FS!IsFile(k)'
             /\ \A j \in DOMAIN n.refs : th \in n.bwq[j] => j = k
  <2>1. k \in DOMAIN nodeRefs /\ th \in st.bwq[k] /\ th \in Threads /\ th \in bwq[k]
      BY <1>2, <1>3
  <2>2. FS!IsFile(k) /\ \A j \in DOMAIN nodeRefs : th \in bwq[j] => j = k
      BY <2>1 DEF FileInv, QueuesRight
  <2>3. \A j \in DOMAIN nodeRefs : th \in st.bwq[j] => j = k
      BY <2>2
  <2>4. th \notin n.woken
      BY <1>2, <2>1, <2>3 DEF Drops
  <2>5. QED BY <1>2, <2>1, <2>2, <2>3, <2>4
<1>5. QED BY <1>1, <1>4 DEF QueuesRight

(* Who waited, as before, and at the same end of the same file, still is.  *)
LEMMA StillAtEnd ==
    ASSUME AtEnd, ~down',
           \A th \in Threads : tst'[th] = "waiting" =>
              /\ tst[th] = "waiting" /\ ctx'[th] = ctx[th]
              /\ ctx[th] \in DOMAIN handles' /\ handles'[ctx[th]] = handles[ctx[th]]
              /\ tree'[handles[ctx[th]].nk].size = tree[handles[ctx[th]].nk].size
              /\ th \in bwq'[handles[ctx[th]].nk]
    PROVE  AtEnd'
BY FileOps DEF AtEnd, FS!WaitersAreAtTheEnd, FS!SizeOf

LEMMA CallerIs ==
    ASSUME FileInv, NEW th \in Threads, tst[th] = "ready"
    PROVE  th[1] \in Procs /\ pst[th[1]] = "live" /\ cwds[th[1]] \in DOMAIN nodeRefs
BY UsedIsRegistered DEF FileInv, ThreadsAreOfLive, UsedRegistered, Threads

-----------------------------------------------------------------------------
(* Files: paths *)

LEMMA FileSetWd ==
    ASSUME FileInv, NEW th \in Threads, NEW d, FS!SetWd(th, d)
    PROVE  FileInv' /\ (AtEnd => AtEnd')
<1> DEFINE p == th[1]
           old == cwds[p]
           st == FS!Deregistered(FS!State, old)
           n == FS!Registered(st, d)
<1>1. /\ tst[th] = "ready" /\ ~down /\ FS!IsDir(d) /\ FS!Becomes(n)
      /\ cwds' = [cwds EXCEPT ![p] = d]
      /\ pst' = pst /\ tst' = tst /\ tree' = tree /\ handles' = handles
      /\ ctx' = ctx /\ down' = down
    BY DEF FS!SetWd, FS!Up, FS!Running, FS!processVars
<1>2. p \in Procs /\ pst[p] = "live" /\ old \in DOMAIN FS!State.refs /\ old \in AllNodes
    BY <1>1, CallerIs, FileOps DEF FileInv, FileTypes
<1>3. d \in AllNodes
    BY <1>1 DEF FileInv, FileTypes, TreeTypes, FS!IsDir, FS!Exists
<1>4. /\ IsKeyMap(st) /\ Drops(FS!State, st)
      /\ \A x \in AllNodes : RefsTo(st, x) = IF x = old THEN RefsTo(FS!State, x) - 1
                                                ELSE RefsTo(FS!State, x)
    BY <1>2, Deregistering DEF FileInv, FileTypes
<1>5. /\ IsKeyMap(n)
      /\ \A x \in AllNodes : RefsTo(n, x) = IF x = d THEN RefsTo(st, x) + 1 ELSE RefsTo(st, x)
      /\ \A x \in DOMAIN n.refs : n.bwq[x] = IF x \in DOMAIN st.refs THEN st.bwq[x] ELSE {}
    BY <1>3, <1>4, Registering
<1>6. /\ IsKeyMap(FS!State)' /\ nodeRefs' = n.refs /\ bwq' = n.bwq
      /\ \A x : RefsTo(FS!State, x)' = RefsTo(n, x)
    BY <1>1, <1>5, BecomesIs
<1>7. /\ \A x \in DOMAIN nodeRefs' : bwq'[x] # {} => x \in DOMAIN nodeRefs /\ bwq'[x] = bwq[x]
    BY <1>4, <1>5, <1>6, FileOps DEF Drops
<1>8. /\ cwds'[p] = d /\ \A x \in Procs : x # p => cwds'[x] = cwds[x]
      /\ cwds' \in [Procs -> AllNodes]
    BY <1>1, <1>2, <1>3 DEF FileInv, FileTypes
<1> HIDE DEF st, n
<1>9. FileTypes' /\ ThreadsAreOfLive'
    BY <1>1, <1>6, <1>8 DEF FileInv, FileTypes, TreeTypes, HandleTypes, ThreadsAreOfLive
<1>10. Counted'
  <2>1. ASSUME NEW k \in AllNodes
        PROVE  RefsTo(FS!State, k)' = Held(k)'
    <3>1. OpenOn(k)' = OpenOn(k)
        BY <1>1 DEF OpenOn
    <3>2. Workers(k)' = IF k = d THEN Workers(k) \cup {p} ELSE Workers(k) \ {p}
        BY <1>1, <1>2, <1>8 DEF Workers
    <3>3. p \in Workers(k) <=> k = old
        BY <1>2 DEF Workers
    <3>4. /\ IsFiniteSet(Workers(k)) /\ Cardinality(Workers(k)) \in Nat
          /\ Cardinality(OpenOn(k)) \in Nat
        BY HeldIs DEF FileInv
    <3>5. /\ Cardinality(Workers(k) \cup {p}) = IF k = old THEN Cardinality(Workers(k))
                                                ELSE Cardinality(Workers(k)) + 1
          /\ Cardinality(Workers(k) \ {p}) = IF k = old THEN Cardinality(Workers(k)) - 1
                                              ELSE Cardinality(Workers(k))
        BY <3>3, <3>4, FS_AddElement, FS_RemoveElement
    <3>6. RefsTo(FS!State, k) = Cardinality(Workers(k)) + Cardinality(OpenOn(k))
        BY DEF FileInv, Counted, Held
    <3>7. Held(k)' = Cardinality(Workers(k)') + Cardinality(OpenOn(k))
        BY <3>1 DEF Held
    <3>8. RefsTo(FS!State, k)' = RefsTo(n, k)
        BY <1>6
    <3> HIDE DEF p, old
    <3>9. QED BY <1>4, <1>5, <3>2, <3>4, <3>5, <3>6, <3>7, <3>8
  <2>2. QED BY <1>1, <2>1 DEF FileInv, Counted
<1>11. QueuesRight'
    BY <1>1, <1>7 DEF FileInv, QueuesRight, FS!IsFile, FS!Exists
<1>12. FS!HeldNodesExist'
    BY <1>1, <1>2, <1>8 DEF FileInv, FS!HeldNodesExist, FS!IsDir, FS!IsFile, FS!Exists, FS!SizeOf
<1>13. FileInv'
    BY <1>9, <1>10, <1>11, <1>12 DEF FileInv
<1>14. ASSUME AtEnd PROVE AtEnd'
  <2>1. FileInv' => UsedRegistered'
      BY UsedIsRegistered, PTL
  <2>2. ASSUME NEW u \in Threads, tst[u] = "waiting"
        PROVE  ctx[u] \in DOMAIN handles /\ u \in bwq'[handles[ctx[u]].nk]
    <3>1. ctx[u] \in DOMAIN handles /\ u \in bwq[handles[ctx[u]].nk]
        BY <1>14, <2>2, FileOps DEF AtEnd, FS!WaitersAreAtTheEnd
    <3>2. handles[ctx[u]].nk \in DOMAIN nodeRefs'
        BY <1>1, <1>13, <2>1, <3>1 DEF UsedRegistered
    <3>3. handles[ctx[u]].nk \in DOMAIN st.refs
      <4>1. handles[ctx[u]].nk \in DOMAIN nodeRefs
          BY <1>4, <1>5, <1>6, <3>1, UsedIsRegistered DEF UsedRegistered
      <4>2. FS!IsFile(handles[ctx[u]].nk)
          BY <3>1, <4>1 DEF FileInv, QueuesRight
      <4>3. handles[ctx[u]].nk # d
          BY <1>1, <4>2 DEF FS!IsDir, FS!IsFile
      <4>4. DOMAIN n.refs = DOMAIN st.refs \cup {d}
          BY <1>3, <1>4, Registering DEF n
      <4>5. QED BY <1>6, <3>2, <4>3, <4>4
    <3>4. QED BY <1>4, <1>5, <1>6, <3>1, <3>2, <3>3, FileOps DEF Drops
  <2>3. QED BY <1>1, <1>14, <2>2, StillAtEnd
<1>15. QED BY <1>13, <1>14

(* The tree changes where nobody is registered.                            *)
LEMMA FileTreeMoves ==
    ASSUME FileInv, TreeTypes', UNCHANGED <<pst, tst, nodeRefs, bwq, cwds, handles, ctx, down>>,
           \A k \in DOMAIN nodeRefs : k \in DOMAIN tree => k \in DOMAIN tree' /\ tree'[k] = tree[k]
    PROVE  FileInv' /\ (AtEnd => AtEnd')
<1>1. UsedRegistered
    BY UsedIsRegistered
<1>2. FileTypes' /\ ThreadsAreOfLive'
    BY DEF FileInv, FileTypes, HandleTypes, ThreadsAreOfLive, IsKeyMap, FS!State
<1>3. Counted'
    BY DEF FileInv, Counted, RefsTo, FS!State, Held, Workers, OpenOn
<1>4. QueuesRight'
    BY DEF FileInv, QueuesRight, FS!IsFile, FS!Exists
<1>5. FS!HeldNodesExist'
    BY <1>1 DEF FileInv, UsedRegistered, FS!HeldNodesExist, FS!IsFile, FS!IsDir, FS!Exists, FS!SizeOf
<1>6. ASSUME AtEnd PROVE AtEnd'
  <2>1. ~down
      BY <1>6 DEF AtEnd, FS!WaitersAreAtTheEnd
  <2>2. ASSUME NEW u \in Threads, tst[u] = "waiting"
        PROVE  /\ ctx[u] \in DOMAIN handles /\ u \in bwq[handles[ctx[u]].nk]
               /\ tree'[handles[ctx[u]].nk].size = tree[handles[ctx[u]].nk].size
    <3>1. ctx[u] \in DOMAIN handles /\ u \in bwq[handles[ctx[u]].nk]
        BY <1>6, <2>2, FileOps DEF AtEnd, FS!WaitersAreAtTheEnd
    <3>2. handles[ctx[u]].nk \in DOMAIN nodeRefs /\ handles[ctx[u]].nk \in DOMAIN tree
        BY <1>1, <3>1 DEF UsedRegistered, FileInv, FS!HeldNodesExist, FS!IsFile, FS!Exists
    <3>3. QED BY <3>1, <3>2
  <2>3. QED BY <1>6, <2>1, <2>2, StillAtEnd
<1>7. QED BY <1>2, <1>3, <1>4, <1>5, <1>6 DEF FileInv

LEMMA FileNewPath ==
    ASSUME FileInv, NEW th \in Threads, NEW d, NEW name \in Names, NEW dir \in BOOLEAN,
           FS!NewPath(th, d, name, dir)
    PROVE  FileInv' /\ (AtEnd => AtEnd')
<1>1. UNCHANGED <<pst, tst, nodeRefs, bwq, cwds, handles, ctx, down>>
    BY DEF FS!NewPath, FS!processVars
<1>2. d \in AllNodes
    BY DEF FS!NewPath, FS!NewNode, FS!IsDir, FS!Exists, FileInv, FileTypes, TreeTypes
<1>3. PICK x \in Nodes \ DOMAIN tree :
         tree' = [y \in DOMAIN tree \cup {x} |->
                    IF y = x THEN [dir |-> dir, up |-> d, name |-> name, size |-> 0] ELSE tree[y]]
    BY FileOps DEF FS!NewPath, FS!NewNode, FS!Node
<1>4. TreeTypes'
    BY <1>2, <1>3 DEF FileInv, FileTypes, TreeTypes, AllNodes
<1>5. \A k \in DOMAIN tree : k \in DOMAIN tree' /\ tree'[k] = tree[k]
    BY <1>3
<1>6. QED BY <1>1, <1>4, <1>5, FileTreeMoves

LEMMA FileRemovePath ==
    ASSUME FileInv, NEW th \in Threads, NEW d, NEW name, FS!RemovePath(th, d, name)
    PROVE  FileInv' /\ (AtEnd => AtEnd')
<1>1. UNCHANGED <<pst, tst, nodeRefs, bwq, cwds, handles, ctx, down>>
    BY DEF FS!RemovePath, FS!processVars
<1>2. PICK x \in FS!Child(d, name) : tree' = [y \in DOMAIN tree \ {x} |-> tree[y]]
    BY FileOps DEF FS!RemovePath, FS!Remove
<1>3. x \notin DOMAIN nodeRefs
    BY <1>2 DEF FS!RemovePath, FS!InUse
<1>4. TreeTypes'
    BY <1>2 DEF FileInv, FileTypes, TreeTypes
<1>5. \A k \in DOMAIN tree : k # x => k \in DOMAIN tree' /\ tree'[k] = tree[k]
    BY <1>2
<1>6. QED BY <1>1, <1>3, <1>4, <1>5, FileTreeMoves

LEMMA FileOpen ==
    ASSUME FileInv, NEW th \in Threads, NEW f, NEW h \in Pos, FS!Open(th, f, h)
    PROVE  FileInv' /\ (AtEnd => AtEnd')
<1> DEFINE n == FS!Registered(FS!State, f)
<1>1. /\ tst[th] = "ready" /\ ~down /\ FS!IsFile(f) /\ FS!Becomes(n)
      /\ h[1] = th[1] /\ h \notin DOMAIN handles
      /\ handles' = [x \in DOMAIN handles \cup {h} |->
                        IF x = h THEN [nk |-> f, pos |-> 0] ELSE handles[x]]
      /\ pst' = pst /\ tst' = tst /\ tree' = tree /\ cwds' = cwds
      /\ ctx' = ctx /\ down' = down
    BY DEF FS!Open, FS!Up, FS!Running, FS!processVars
<1>2. pst[th[1]] = "live"
    BY <1>1, CallerIs
<1>3. f \in DOMAIN tree /\ f \in AllNodes
    BY <1>1 DEF FileInv, FileTypes, TreeTypes, FS!IsFile, FS!Exists
<1>4. /\ IsKeyMap(n)
      /\ \A x \in AllNodes : RefsTo(n, x) = IF x = f THEN RefsTo(FS!State, x) + 1
                                               ELSE RefsTo(FS!State, x)
      /\ \A x \in DOMAIN n.refs :
            n.bwq[x] = IF x \in DOMAIN FS!State.refs THEN FS!State.bwq[x] ELSE {}
      /\ DOMAIN n.refs = DOMAIN FS!State.refs \cup {f}
    BY <1>3, Registering DEF FileInv, FileTypes
<1>5. /\ IsKeyMap(FS!State)' /\ nodeRefs' = n.refs /\ bwq' = n.bwq
      /\ \A x : RefsTo(FS!State, x)' = RefsTo(n, x)
    BY <1>1, <1>4, BecomesIs
<1>6. /\ \A x \in DOMAIN nodeRefs' : bwq'[x] # {} => x \in DOMAIN nodeRefs /\ bwq'[x] = bwq[x]
      /\ \A x \in DOMAIN nodeRefs : bwq'[x] = bwq[x]
    BY <1>4, <1>5, FileOps
<1>7. /\ DOMAIN handles' = DOMAIN handles \cup {h} /\ handles'[h] = [nk |-> f, pos |-> 0]
      /\ \A x \in DOMAIN handles : handles'[x] = handles[x]
    BY <1>1
<1> HIDE DEF n
<1>8. HandleTypes'
  <2>1. HandleTypes
      BY DEF FileInv, FileTypes
  <2>2. IsFiniteSet(DOMAIN handles')
      BY <1>7, <2>1, FS_AddElement DEF HandleTypes
  <2>3. [nk |-> f, pos |-> 0] \in [nk : AllNodes, pos : Nat]
      BY <1>3
  <2>4. handles' \in [DOMAIN handles' -> [nk : AllNodes, pos : Nat]]
      BY <1>1, <1>7, <2>1, <2>3 DEF HandleTypes
  <2>5. QED BY <1>7, <2>1, <2>2, <2>4 DEF HandleTypes
<1>9. FileTypes' /\ ThreadsAreOfLive'
    BY <1>1, <1>5, <1>8 DEF FileInv, FileTypes, TreeTypes, ThreadsAreOfLive
<1>10. Counted'
  <2>1. ASSUME NEW k \in AllNodes
        PROVE  RefsTo(FS!State, k)' = Held(k)'
    <3>1. Workers(k)' = Workers(k)
        BY <1>1 DEF Workers
    <3>2. OpenOn(k)' = IF k = f THEN OpenOn(k) \cup {h} ELSE OpenOn(k)
        BY <1>1, <1>7 DEF OpenOn
    <3>3. /\ IsFiniteSet(OpenOn(k)) /\ Cardinality(Workers(k)) \in Nat
          /\ Cardinality(OpenOn(k)) \in Nat /\ h \notin OpenOn(k)
        BY <1>1, HeldIs DEF FileInv, OpenOn
    <3>4. Cardinality(OpenOn(k) \cup {h}) = Cardinality(OpenOn(k)) + 1
        BY <3>3, FS_AddElement
    <3>5. RefsTo(FS!State, k) = Cardinality(Workers(k)) + Cardinality(OpenOn(k))
        BY DEF FileInv, Counted, Held
    <3>6. Held(k)' = Cardinality(Workers(k)) + Cardinality(OpenOn(k)')
        BY <3>1 DEF Held
    <3>7. RefsTo(FS!State, k)' = RefsTo(n, k)
        BY <1>5
    <3>8. QED BY <1>4, <3>2, <3>3, <3>4, <3>5, <3>6, <3>7
  <2>2. QED BY <1>1, <1>2, <1>7, <2>1 DEF FileInv, Counted
<1>11. QueuesRight'
    BY <1>1, <1>6 DEF FileInv, QueuesRight, FS!IsFile, FS!Exists
<1>12. FS!HeldNodesExist'
  <2>1. tree[f].size >= 0 /\ ~tree[f].dir
      BY <1>1, <1>3 DEF FileInv, FileTypes, TreeTypes, FS!IsFile
  <2>2. QED BY <1>1, <1>3, <1>7, <2>1
            DEF FileInv, FS!HeldNodesExist, FS!IsDir, FS!IsFile, FS!Exists, FS!SizeOf
<1>13. ASSUME AtEnd PROVE AtEnd'
  <2>1. ASSUME NEW u \in Threads, tst[u] = "waiting"
        PROVE  /\ ctx[u] \in DOMAIN handles /\ u \in bwq'[handles[ctx[u]].nk]
    <3>1. ctx[u] \in DOMAIN handles /\ u \in bwq[handles[ctx[u]].nk]
        BY <1>13, <2>1, FileOps DEF AtEnd, FS!WaitersAreAtTheEnd
    <3>2. handles[ctx[u]].nk \in DOMAIN nodeRefs
        BY <3>1, UsedIsRegistered DEF UsedRegistered
    <3>3. QED BY <1>6, <3>1, <3>2
  <2>2. QED BY <1>1, <1>7, <1>13, <2>1, StillAtEnd
<1>14. QED BY <1>9, <1>10, <1>11, <1>12, <1>13 DEF FileInv

-----------------------------------------------------------------------------
(* Files: handles *)

LEMMA UserIs ==
    ASSUME FileInv, NEW th \in Threads, NEW h \in Pos, FS!Uses(th, h)
    PROVE  /\ tst[th] = "ready" /\ ~down /\ h \in DOMAIN handles /\ h[1] = th[1]
           /\ handles[h] \in [nk : AllNodes, pos : Nat]
           /\ handles[h].nk \in DOMAIN nodeRefs /\ FS!IsFile(handles[h].nk)
           /\ handles[h].nk \in DOMAIN tree /\ tree[handles[h].nk].size \in Nat
           /\ handles[h].pos <= tree[handles[h].nk].size
           /\ FS!SizeOf(h) = tree[handles[h].nk].size
           /\ ~Sharing => \A u \in Threads : tst[u] = "waiting" => ctx[u] # h
<1>1. tst[th] = "ready" /\ ~down /\ h \in DOMAIN handles /\ h[1] = th[1]
    BY DEF FS!Uses, FS!Up, FS!Running
<1>2. handles[h] \in [nk : AllNodes, pos : Nat]
    BY <1>1 DEF FileInv, FileTypes, HandleTypes
<1>3. handles[h].nk \in DOMAIN nodeRefs
    BY <1>1, UsedIsRegistered DEF UsedRegistered
<1>4. /\ FS!IsFile(handles[h].nk) /\ FS!SizeOf(h) = tree[handles[h].nk].size
      /\ handles[h].pos <= tree[handles[h].nk].size
    BY <1>1 DEF FileInv, FS!HeldNodesExist, FS!SizeOf
<1>5. handles[h].nk \in DOMAIN tree /\ tree[handles[h].nk].size \in Nat
    BY <1>4 DEF FS!IsFile, FS!Exists, FileInv, FileTypes, TreeTypes
<1>6. ~Sharing => \A u \in Threads : tst[u] = "waiting" => ctx[u] # h
    BY FileOps DEF FS!Uses, FS!WaitsWith
<1>7. QED BY <1>1, <1>2, <1>3, <1>4, <1>5, <1>6

(* A handle that moves within its file, by a read, a write or a seek.      *)
LEMMA FileMoves ==
    ASSUME FileInv, NEW th \in Threads, NEW h \in Pos, FS!Uses(th, h), NEW to \in Nat,
           to <= FS!SizeOf(h), handles' = [handles EXCEPT ![h].pos = to],
           UNCHANGED <<pst, tst, tree, nodeRefs, bwq, cwds, ctx, down>>
    PROVE  FileInv' /\ (~Sharing /\ AtEnd => AtEnd')
<1>1. /\ DOMAIN handles' = DOMAIN handles
      /\ handles'[h] = [nk |-> handles[h].nk, pos |-> to]
      /\ \A x \in DOMAIN handles : x # h => handles'[x] = handles[x]
    BY UserIs
<1>2. \A x \in DOMAIN handles : handles'[x].nk = handles[x].nk
    BY <1>1, UserIs
<1>3. HandleTypes'
  <2>1. \A x \in DOMAIN handles : handles'[x] \in [nk : AllNodes, pos : Nat]
      BY <1>1, UserIs, SMTT(60) DEF FileInv, FileTypes, HandleTypes
  <2>2. QED BY <1>1, <2>1 DEF FileInv, FileTypes, HandleTypes
<1>4. FileTypes' /\ ThreadsAreOfLive'
    BY <1>3 DEF FileInv, FileTypes, TreeTypes, ThreadsAreOfLive, IsKeyMap, FS!State
<1>5. Counted'
  <2>1. \A k : Workers(k)' = Workers(k) /\ OpenOn(k)' = OpenOn(k)
      BY <1>1, <1>2 DEF Workers, OpenOn
  <2>2. QED BY <1>1, <2>1 DEF FileInv, Counted, RefsTo, FS!State, Held
<1>6. QueuesRight'
    BY DEF FileInv, QueuesRight, FS!IsFile, FS!Exists
<1>7. FS!HeldNodesExist'
    BY <1>1, <1>2 DEF FileInv, FS!HeldNodesExist, FS!IsDir, FS!IsFile, FS!Exists, FS!SizeOf
<1>8. ASSUME ~Sharing, AtEnd PROVE AtEnd'
  <2>1. \A u \in Threads : tst[u] = "waiting" =>
           ctx[u] \in DOMAIN handles /\ ctx[u] # h /\ u \in bwq[handles[ctx[u]].nk]
      BY <1>8, UserIs, FileOps DEF AtEnd, FS!WaitersAreAtTheEnd
  <2>2. QED BY <1>1, <1>8, <2>1, UserIs, StillAtEnd
<1>9. QED BY <1>4, <1>5, <1>6, <1>7, <1>8 DEF FileInv

LEMMA FileRead ==
    ASSUME FileInv, NEW th \in Threads, NEW h \in Pos, FS!Read(th, h)
    PROVE  FileInv' /\ (~Sharing /\ AtEnd => AtEnd')
<1> DEFINE to == handles[h].pos + 1
<1>1. /\ FS!Uses(th, h) /\ handles[h].pos < FS!SizeOf(h) /\ handles' = [handles EXCEPT ![h].pos = to]
      /\ UNCHANGED <<pst, tst, tree, nodeRefs, bwq, cwds, ctx, down>>
    BY DEF FS!Read, FS!processVars
<1>2. handles[h].pos \in Nat /\ FS!SizeOf(h) \in Nat
    BY <1>1, UserIs
<1>3. to \in Nat /\ to <= FS!SizeOf(h)
    BY <1>1, <1>2
<1> HIDE DEF to
<1>4. QED BY <1>1, <1>3, FileMoves

LEMMA FileSeek ==
    ASSUME FileInv, NEW th \in Threads, NEW h \in Pos, NEW to \in 0 .. MaxSize, FS!Seek(th, h, to)
    PROVE  FileInv' /\ (~Sharing /\ AtEnd => AtEnd')
<1>1. /\ FS!Uses(th, h) /\ to <= FS!SizeOf(h) /\ handles' = [handles EXCEPT ![h].pos = to]
      /\ UNCHANGED <<pst, tst, tree, nodeRefs, bwq, cwds, ctx, down>>
    BY DEF FS!Seek, FS!processVars
<1>2. to \in Nat
    OBVIOUS
<1>3. QED BY <1>1, <1>2, FileMoves

LEMMA FileWaitRead ==
    ASSUME FileInv, NEW th \in Threads, NEW h \in Pos, FS!WaitRead(th, h)
    PROVE  FileInv' /\ (~Sharing /\ AtEnd => AtEnd')
<1> DEFINE f == handles[h].nk
<1>1. /\ FS!Uses(th, h) /\ handles[h].pos = FS!SizeOf(h)
      /\ tst' = [tst EXCEPT ![th] = "waiting"] /\ ctx' = [ctx EXCEPT ![th] = h]
      /\ bwq' = [bwq EXCEPT ![f] = @ \cup {th}]
      /\ UNCHANGED <<pst, tree, nodeRefs, cwds, handles, down>>
    BY DEF FS!WaitRead, FS!Sleeps
<1>2. /\ tst[th] = "ready" /\ ~down /\ h \in DOMAIN handles /\ h[1] = th[1]
      /\ f \in DOMAIN nodeRefs /\ FS!IsFile(f)
    BY <1>1, UserIs
<1>3. DOMAIN bwq = DOMAIN nodeRefs /\ bwq \in [DOMAIN nodeRefs -> SUBSET Threads]
    BY FileOps DEF FileInv, FileTypes, IsKeyMap
<1> HIDE DEF f
<1>4. /\ tst'[th] = "waiting" /\ \A u \in Threads : u # th => tst'[u] = tst[u]
      /\ ctx'[th] = h /\ \A u \in Threads : u # th => ctx'[u] = ctx[u]
      /\ bwq'[f] = bwq[f] \cup {th} /\ \A k \in DOMAIN nodeRefs : k # f => bwq'[k] = bwq[k]
      /\ bwq' \in [DOMAIN nodeRefs -> SUBSET Threads]
    BY <1>1, <1>2, <1>3 DEF FileInv, FileTypes
<1>5. FileTypes'
  <2>1. IsKeyMap(FS!State)'
      BY <1>1, <1>4 DEF FileInv, FileTypes, IsKeyMap, FS!State
  <2>2. QED BY <1>1, <2>1 DEF FileInv, FileTypes, TreeTypes, HandleTypes
<1>6. ThreadsAreOfLive'
    BY <1>1, <1>2, <1>4 DEF FileInv, ThreadsAreOfLive
<1>7. Counted'
    BY <1>1 DEF FileInv, Counted, RefsTo, FS!State, Held, Workers, OpenOn
<1>8. QueuesRight'
  <2>1. \A k \in DOMAIN nodeRefs : th \notin bwq[k]
      BY <1>2 DEF FileInv, QueuesRight
  <2>2. \A k \in DOMAIN nodeRefs : bwq[k] \subseteq Threads
      BY <1>3
  <2>3. QED BY <1>1, <1>2, <1>4, <2>1, <2>2 DEF FileInv, QueuesRight, FS!IsFile, FS!Exists
<1>9. FS!HeldNodesExist'
    BY <1>1 DEF FileInv, FS!HeldNodesExist, FS!IsDir, FS!IsFile, FS!Exists, FS!SizeOf
<1>10. ASSUME AtEnd PROVE AtEnd'
  <2>1. ~down'
      BY <1>1, <1>2
  <2>2. ASSUME NEW u \in Threads, tst'[u] = "waiting"
        PROVE  /\ ctx'[u] \in DOMAIN handles /\ ctx'[u][1] = u[1]
               /\ u \in bwq'[handles[ctx'[u]].nk]
               /\ handles[ctx'[u]].pos = tree[handles[ctx'[u]].nk].size
    <3>1. CASE u = th
      <4>1. handles[h].pos = tree[f].size
          BY <1>1, UserIs DEF f
      <4>2. QED BY <1>2, <1>4, <3>1, <4>1 DEF f
    <3>2. CASE u # th
      <4>1. /\ ctx'[u] \in DOMAIN handles /\ ctx'[u][1] = u[1]
            /\ u \in bwq[handles[ctx'[u]].nk]
            /\ handles[ctx'[u]].pos = tree[handles[ctx'[u]].nk].size
          BY <1>4, <1>10, <2>2, <3>2, FileOps DEF AtEnd, FS!WaitersAreAtTheEnd, FS!SizeOf
      <4>2. handles[ctx'[u]].nk \in DOMAIN nodeRefs
          BY <4>1, UsedIsRegistered DEF UsedRegistered
      <4>3. QED BY <1>4, <4>1, <4>2
    <3>3. QED BY <3>1, <3>2
  <2>3. QED BY <1>1, <2>1, <2>2, FileOps DEF AtEnd, FS!WaitersAreAtTheEnd, FS!SizeOf
<1>11. QED BY <1>5, <1>6, <1>7, <1>8, <1>9, <1>10 DEF FileInv

(* The file of h grows by what is written, or only grows, and whoever      *)
(* waits for it wakes.                                                     *)
LEMMA FileGrows ==
    ASSUME FileInv, NEW th \in Threads, NEW h \in Pos, FS!Uses(th, h),
           handles[h].pos = FS!SizeOf(h),
           tree' = [tree EXCEPT ![handles[h].nk].size = handles[h].pos + 1],
           NEW moved \in {handles, [handles EXCEPT ![h].pos = handles[h].pos + 1]},
           handles' = moved,
           FS!Grown(handles[h].nk, [x \in DOMAIN moved |-> moved[x].pos = FS!SizeOf(h)]),
           UNCHANGED <<pst, nodeRefs, cwds, ctx>>
    PROVE  FileInv' /\ (~Sharing /\ AtEnd => AtEnd')
<1> DEFINE f == handles[h].nk
           size == handles[h].pos + 1
           checked == [x \in DOMAIN moved |-> moved[x].pos = FS!SizeOf(h)]
<1>1. /\ tst[th] = "ready" /\ ~down /\ h \in DOMAIN handles
      /\ handles[h] \in [nk : AllNodes, pos : Nat]
      /\ f \in DOMAIN nodeRefs /\ f \in DOMAIN tree /\ FS!IsFile(f)
      /\ tree[f].size = handles[h].pos /\ FS!SizeOf(h) = tree[f].size
      /\ ~Sharing => \A u \in Threads : tst[u] = "waiting" => ctx[u] # h
    BY UserIs
<1>2. /\ bwq' = [bwq EXCEPT ![f] = {}]
      /\ tst' = [u \in Threads |-> IF u \in bwq[f] THEN "ready" ELSE tst[u]]
      /\ down' \in {\E u \in bwq[f] : ctx[u] # << >> /\ ~checked[ctx[u]],
                    \E u \in bwq[f] : ctx[u] = << >> \/ ~checked[ctx[u]]}
    BY FileOps DEF FS!Grown, FS!Wakes
<1>3. bwq \in [DOMAIN nodeRefs -> SUBSET Threads] /\ bwq[f] \subseteq Threads
    BY <1>1, FileOps DEF FileInv, FileTypes, IsKeyMap
<1>4. handles[h].pos \in Nat /\ size \in Nat
    BY <1>1
<1>5. tree \in [DOMAIN tree -> [dir : BOOLEAN, up : AllNodes, name : Names \cup {"/"}, size : Nat]]
    BY DEF FileInv, FileTypes, TreeTypes
<1>6. /\ tree' = [tree EXCEPT ![f].size = size]
      /\ handles' \in {handles, [handles EXCEPT ![h].pos = size]}
    OBVIOUS
<1>7. size = tree[f].size + 1
    BY <1>1
<1> HIDE DEF f, size
<1>8. /\ DOMAIN tree' = DOMAIN tree /\ tree'[f].size = size /\ tree'[f].dir = tree[f].dir
      /\ \A k \in DOMAIN tree : k # f => tree'[k] = tree[k]
    BY <1>1, <1>5, <1>6
<1>9. TreeTypes'
  <2>1. tree' \in [DOMAIN tree -> [dir : BOOLEAN, up : AllNodes, name : Names \cup {"/"}, size : Nat]]
      BY <1>4, <1>5, <1>6, ZenonT(60)
  <2>2. QED BY <1>8, <2>1 DEF FileInv, FileTypes, TreeTypes
<1>10. /\ DOMAIN handles' = DOMAIN handles /\ handles'[h].nk = f
       /\ handles'[h].pos \in Nat /\ handles'[h].pos <= size
       /\ \A x \in DOMAIN handles : x # h => handles'[x] = handles[x]
       /\ \A x \in DOMAIN handles : handles'[x].nk = handles[x].nk
       /\ handles' \in [DOMAIN handles -> [nk : AllNodes, pos : Nat]]
  <2>1. handles \in [DOMAIN handles -> [nk : AllNodes, pos : Nat]]
      BY DEF FileInv, FileTypes, HandleTypes
  <2>2. handles[h].pos <= size /\ handles[h].nk = f
      BY <1>4 DEF f, size
  <2>3. QED BY <1>1, <1>4, <1>6, <2>1, <2>2
<1>11. /\ bwq'[f] = {} /\ \A k \in DOMAIN nodeRefs : k # f => bwq'[k] = bwq[k]
       /\ bwq' \in [DOMAIN nodeRefs -> SUBSET Threads]
    BY <1>1, <1>2, <1>3
<1>12. /\ \A u \in Threads : tst'[u] = IF u \in bwq[f] THEN "ready" ELSE tst[u]
       /\ tst' \in [Threads -> {"none", "ready", "waiting", "detached"}]
    BY <1>2 DEF FileInv, FileTypes
<1>13. \A u \in bwq[f] : tst[u] = "waiting" /\ \A k \in DOMAIN nodeRefs : u \in bwq[k] => k = f
    BY <1>1 DEF FileInv, QueuesRight
<1>14. FileTypes'
  <2>1. HandleTypes'
      BY <1>10 DEF FileInv, FileTypes, HandleTypes
  <2>2. IsKeyMap(FS!State)'
      BY <1>11 DEF FileInv, FileTypes, IsKeyMap, FS!State
  <2>3. QED BY <1>9, <1>12, <2>1, <2>2 DEF FileInv, FileTypes
<1>15. ThreadsAreOfLive'
    BY <1>12, <1>13, <1>3 DEF FileInv, ThreadsAreOfLive
<1>16. Counted'
  <2>1. \A k : Workers(k)' = Workers(k) /\ OpenOn(k)' = OpenOn(k)
      BY <1>10 DEF Workers, OpenOn
  <2>2. QED BY <1>10, <2>1 DEF FileInv, Counted, RefsTo, FS!State, Held
<1>17. \A k : (FS!IsFile(k) => FS!IsFile(k)') /\ (FS!IsDir(k) => FS!IsDir(k)')
    BY <1>1, <1>8 DEF FS!IsFile, FS!IsDir, FS!Exists
<1>18. QueuesRight'
  <2>1. \A k \in DOMAIN nodeRefs : bwq[k] \subseteq Threads
      BY <1>3
  <2>2. ASSUME NEW k \in DOMAIN nodeRefs, NEW u \in bwq'[k]
        PROVE  /\ tst'[u] = "waiting" /\ FS!IsFile(k)'
               /\ \A j \in DOMAIN nodeRefs : u \in bwq'[j] => j = k
    <3>1. k # f /\ u \in bwq[k] /\ u \in Threads
        BY <1>11, <2>1, <2>2
    <3>2. u \notin bwq[f]
        BY <1>13, <3>1
    <3>3. QED BY <1>11, <1>12, <1>17, <3>1, <3>2 DEF FileInv, QueuesRight
  <2>3. QED BY <2>2 DEF QueuesRight
<1>19. FS!HeldNodesExist'
  <2>1. \A p \in Procs : pst'[p] # "free" => FS!IsDir(cwds[p])'
      BY <1>17 DEF FileInv, FS!HeldNodesExist
  <2>2. ASSUME NEW x \in DOMAIN handles'
        PROVE  /\ handles'[x].nk \in DOMAIN tree' /\ ~tree'[handles'[x].nk].dir
               /\ handles'[x].pos <= tree'[handles'[x].nk].size
    <3>1. FS!IsFile(handles[x].nk) /\ handles[x].pos <= tree[handles[x].nk].size
        BY <1>10 DEF FileInv, FS!HeldNodesExist, FS!SizeOf
    <3>2. handles[x].nk \in DOMAIN tree /\ handles[x].pos \in Nat
        BY <1>10, <3>1 DEF FS!IsFile, FS!Exists, FileInv, FileTypes, HandleTypes
    <3>3. handles'[x].nk \in DOMAIN tree' /\ ~tree'[handles'[x].nk].dir
        BY <1>8, <1>10, <3>1, <3>2 DEF FS!IsFile
    <3>4. CASE x = h
        BY <1>8, <1>10, <3>3, <3>4
    <3>5. CASE x # h
      <4>1. handles'[x] = handles[x] /\ tree[f].size \in Nat
          BY <1>1, <1>4, <1>10, <3>5
      <4>2. tree'[handles[x].nk].size = tree[handles[x].nk].size \/ handles[x].nk = f
          BY <1>8, <3>2
      <4>3. QED BY <1>7, <1>8, <3>1, <3>2, <3>3, <4>1, <4>2
    <3>6. QED BY <3>3, <3>4, <3>5
  <2>3. QED BY <2>1, <2>2 DEF FS!HeldNodesExist, FS!SizeOf, FS!IsFile, FS!Exists
<1>20. ASSUME ~Sharing, AtEnd PROVE AtEnd'
  <2>1. \A u \in Threads : tst[u] = "waiting" =>
           /\ ctx[u] \in DOMAIN handles /\ ctx[u] # h /\ u \in bwq[handles[ctx[u]].nk]
           /\ handles[ctx[u]].pos = tree[handles[ctx[u]].nk].size
           /\ handles[ctx[u]].nk \in DOMAIN nodeRefs
           /\ handles[ctx[u]].nk \in DOMAIN tree
    <3>1. \A u \in Threads : tst[u] = "waiting" =>
             /\ ctx[u] \in DOMAIN handles /\ ctx[u] # h /\ u \in bwq[handles[ctx[u]].nk]
             /\ handles[ctx[u]].pos = tree[handles[ctx[u]].nk].size
        BY <1>1, <1>20, FileOps DEF AtEnd, FS!WaitersAreAtTheEnd, FS!SizeOf
    <3>2. QED BY <3>1, UsedIsRegistered
              DEF UsedRegistered, FileInv, FS!HeldNodesExist, FS!IsFile, FS!Exists
  <2>2. \A u \in bwq[f] : ctx[u] # << >> /\ checked[ctx[u]]
    <3>1. ASSUME NEW u \in bwq[f]
          PROVE  ctx[u] # << >> /\ checked[ctx[u]]
      <4>1. /\ ctx[u] \in DOMAIN handles /\ ctx[u] # h /\ handles[ctx[u]].nk = f
            /\ handles[ctx[u]].pos = tree[f].size
          BY <1>3, <1>13, <2>1
      <4>2. handles'[ctx[u]] = handles[ctx[u]]
          BY <1>10, <4>1
      <4>3. ctx[u] \in DOMAIN moved /\ moved[ctx[u]].pos = FS!SizeOf(h)
          BY <1>1, <1>10, <4>1, <4>2
      <4>4. checked[ctx[u]]
          BY <4>3
      <4>5. ctx[u] # << >>
          BY <4>1 DEF FileInv, FileTypes, HandleTypes, Pos
      <4>6. QED BY <4>4, <4>5
    <3>2. QED BY <3>1
  <2> HIDE DEF checked
  <2>3. ~down'
      BY <1>2, <2>2
  <2>4. ASSUME NEW u \in Threads, tst'[u] = "waiting"
        PROVE  /\ tst[u] = "waiting" /\ ctx'[u] = ctx[u]
               /\ ctx[u] \in DOMAIN handles' /\ handles'[ctx[u]] = handles[ctx[u]]
               /\ tree'[handles[ctx[u]].nk].size = tree[handles[ctx[u]].nk].size
               /\ u \in bwq'[handles[ctx[u]].nk]
    <3>1. tst[u] = "waiting" /\ u \notin bwq[f]
        BY <1>12, <2>4
    <3>2. handles[ctx[u]].nk # f
        BY <2>1, <3>1
    <3>3. QED BY <1>8, <1>10, <1>11, <2>1, <3>1, <3>2, ZenonT(60)
  <2>5. QED BY <1>20, <2>3, <2>4, StillAtEnd
<1>21. QED BY <1>14, <1>15, <1>16, <1>18, <1>19, <1>20 DEF FileInv

LEMMA FileWrite ==
    ASSUME FileInv, NEW th \in Threads, NEW h \in Pos, FS!Write(th, h)
    PROVE  FileInv' /\ (~Sharing /\ AtEnd => AtEnd')
<1> DEFINE f == handles[h].nk
           to == handles[h].pos + 1
           moved == [handles EXCEPT ![h].pos = to]
           At(hset) == [x \in DOMAIN hset |-> hset[x].pos = FS!SizeOf(h)]
<1>1. /\ FS!Uses(th, h)
      /\ UNCHANGED <<pst, nodeRefs, cwds, ctx>>
    BY DEF FS!Write
<1>2. \/ /\ handles[h].pos < FS!SizeOf(h) /\ handles' = moved
         /\ UNCHANGED <<tree, bwq, tst, down>>
      \/ /\ handles[h].pos = FS!SizeOf(h) /\ FS!Resize(f, to)
         /\ \/ handles' = moved /\ FS!Grown(f, At(moved))
            \/ handles' = handles /\ FS!Grown(f, At(handles))
    BY DEF FS!Write
<1>3. CASE /\ handles[h].pos < FS!SizeOf(h) /\ handles' = moved
           /\ UNCHANGED <<tree, bwq, tst, down>>
  <2>1. handles[h].pos \in Nat /\ FS!SizeOf(h) \in Nat
      BY <1>1, UserIs
  <2>2. to \in Nat /\ to <= FS!SizeOf(h)
      BY <1>3, <2>1
  <2>3. handles' = [handles EXCEPT ![h].pos = to]
      BY <1>3
  <2> HIDE DEF to, moved
  <2>4. QED BY <1>1, <1>3, <2>2, <2>3, FileMoves
<1>4. ASSUME handles[h].pos = FS!SizeOf(h), FS!Resize(f, to), handles' = moved,
             FS!Grown(f, At(moved))
      PROVE  FileInv' /\ (~Sharing /\ AtEnd => AtEnd')
  <2>1. tree' = [tree EXCEPT ![f].size = to]
      BY <1>4 DEF FS!Resize
  <2>2. moved \in {handles, [handles EXCEPT ![h].pos = handles[h].pos + 1]}
      OBVIOUS
  <2>3. FS!Grown(handles[h].nk, [x \in DOMAIN moved |-> moved[x].pos = FS!SizeOf(h)])
      BY <1>4
  <2>4. tree' = [tree EXCEPT ![handles[h].nk].size = handles[h].pos + 1]
      BY <2>1
  <2> HIDE DEF moved
  <2>5. QED BY <1>1, <1>4, <2>2, <2>3, <2>4, FileGrows
<1>5. ASSUME handles[h].pos = FS!SizeOf(h), FS!Resize(f, to), handles' = handles,
             FS!Grown(f, At(handles))
      PROVE  FileInv' /\ (~Sharing /\ AtEnd => AtEnd')
  <2>1. tree' = [tree EXCEPT ![handles[h].nk].size = handles[h].pos + 1]
      BY <1>5 DEF FS!Resize
  <2>2. FS!Grown(handles[h].nk, [x \in DOMAIN handles |-> handles[x].pos = FS!SizeOf(h)])
      BY <1>5
  <2>3. QED BY <1>1, <1>5, <2>1, <2>2, FileGrows
<1>6. QED BY <1>2, <1>3, <1>4, <1>5

LEMMA FileSpawn ==
    ASSUME FileInv, NEW th \in Threads, NEW u \in Threads, FS!Spawns(th, u),
           UNCHANGED <<tree, nodeRefs, bwq, cwds, handles, ctx, down>>
    PROVE  FileInv' /\ (AtEnd => AtEnd')
<1>1. /\ tst[th] = "ready" /\ u[1] = th[1] /\ tst[u] = "none"
      /\ tst' = [tst EXCEPT ![u] = "ready"] /\ pst' = pst
    BY DEF FS!Spawns, FS!Running
<1>2. pst[u[1]] = "live"
    BY <1>1, CallerIs
<1>3. /\ tst'[u] = "ready" /\ \A x \in Threads : x # u => tst'[x] = tst[x]
      /\ tst' \in [Threads -> {"none", "ready", "waiting", "detached"}]
    BY <1>1 DEF FileInv, FileTypes
<1>4. FileTypes' /\ ThreadsAreOfLive'
    BY <1>1, <1>2, <1>3 DEF FileInv, FileTypes, TreeTypes, HandleTypes, ThreadsAreOfLive,
                            IsKeyMap, FS!State
<1>5. Counted'
    BY <1>1 DEF FileInv, Counted, RefsTo, FS!State, Held, Workers, OpenOn
<1>6. QueuesRight'
  <2>1. \A k \in DOMAIN nodeRefs : bwq[k] \subseteq Threads
      BY FileOps DEF FileInv, FileTypes, IsKeyMap
  <2>2. QED BY <1>1, <1>3, <2>1 DEF FileInv, QueuesRight, FS!IsFile, FS!Exists
<1>7. FS!HeldNodesExist'
    BY <1>1 DEF FileInv, FS!HeldNodesExist, FS!IsDir, FS!IsFile, FS!Exists, FS!SizeOf
<1>8. ASSUME AtEnd PROVE AtEnd'
  <2>1. ~down /\ \A x \in Threads : tst[x] = "waiting" =>
                    ctx[x] \in DOMAIN handles /\ x \in bwq[handles[ctx[x]].nk]
      BY <1>8, FileOps DEF AtEnd, FS!WaitersAreAtTheEnd
  <2>2. \A x \in Threads : tst'[x] = "waiting" => tst[x] = "waiting"
      BY <1>3
  <2>3. QED BY <1>8, <2>1, <2>2, StillAtEnd
<1>9. QED BY <1>4, <1>5, <1>6, <1>7, <1>8 DEF FileInv

-----------------------------------------------------------------------------
(* Files: handles that go, by a close, an exec or a reap *)

(* What is counted of the handles that go is what was counted of them.     *)
LEMMA HandlesGo ==
    ASSUME FileInv, NEW hset \in SUBSET DOMAIN handles, FS!Without(hset), NEW k
    PROVE  LET of == FS!Cardinality({h \in hset : handles[h].nk = k})
           IN  /\ of \in Nat /\ of <= Cardinality(OpenOn(k))
               /\ Cardinality(OpenOn(k)') = Cardinality(OpenOn(k)) - of
<1> DEFINE X == {h \in hset : handles[h].nk = k}
<1>1. OpenOn(k)' = OpenOn(k) \ X
  <2>1. DOMAIN handles' = DOMAIN handles \ hset /\ \A h \in DOMAIN handles' : handles'[h] = handles[h]
      BY DEF FS!Without
  <2>2. QED BY <2>1 DEF OpenOn
<1>2. X \in SUBSET OpenOn(k) /\ OpenOn(k) \cap X = X
    BY DEF OpenOn
<1>3. IsFiniteSet(OpenOn(k)) /\ Cardinality(OpenOn(k)) \in Nat
    BY HeldIs DEF FileInv
<1> HIDE DEF X
<1>4. IsFiniteSet(X) /\ Cardinality(X) <= Cardinality(OpenOn(k))
    BY <1>2, <1>3, FS_Subset
<1>5. Cardinality(X) \in Nat
    BY <1>4, FS_CardinalityType
<1>6. Cardinality(OpenOn(k) \ X) = Cardinality(OpenOn(k)) - Cardinality(X)
    BY <1>2, <1>3, FS_Difference
<1>7. FS!Cardinality(X) = Cardinality(X)
    BY FileOps
<1>8. QED BY <1>1, <1>4, <1>5, <1>6, <1>7 DEF X

LEMMA HandlesLeft ==
    ASSUME FileInv, NEW hset \in SUBSET DOMAIN handles, FS!Without(hset)
    PROVE  /\ HandleTypes' /\ DOMAIN handles' = DOMAIN handles \ hset
           /\ \A h \in DOMAIN handles' : handles'[h] = handles[h]
<1>1. handles' = [h \in DOMAIN handles \ hset |-> handles[h]]
    BY DEF FS!Without
<1>2. IsFiniteSet(DOMAIN handles \ hset)
    BY FS_Difference DEF FileInv, FileTypes, HandleTypes
<1>3. QED BY <1>1, <1>2 DEF FileInv, FileTypes, HandleTypes

(* A pointer to a handle that goes is to nothing; the others stay.         *)
LEMMA DanglingIs ==
    ASSUME FileInv, NEW hset, ctx' = FS!Dangling(hset)
    PROVE  /\ ctx' \in [Threads -> Pos \cup {<< >>}]
           /\ \A th \in Threads : ctx[th] \notin hset => ctx'[th] = ctx[th]
BY FileOps DEF FS!Dangling, FileInv, FileTypes

OfKey(hset, k) == FS!Cardinality({h \in hset : handles[h].nk = k})

(* The handles hset go, with their references, and perhaps the work of     *)
(* processes that end: st is what is left of the queues before that, n     *)
(* what is left of the keys after it.                                      *)
LEMMA FileLetsGo ==
    ASSUME FileInv, NEW st, NEW n, NEW hset \in SUBSET DOMAIN handles,
           IsKeyMap(st), IsKeyMap(n), Drops(st, n), FS!Becomes(n),
           DOMAIN st.refs = DOMAIN nodeRefs, st.woken = {},
           \A k \in DOMAIN nodeRefs : st.bwq[k] \subseteq bwq[k],
           \A k \in DOMAIN nodeRefs : \A th \in st.bwq[k] :
              th \notin n.woken => tst'[th] = "waiting",
           \A k \in AllNodes :
              RefsTo(n, k) = (Cardinality(Workers(k)') + Cardinality(OpenOn(k))) - OfKey(hset, k),
           FS!Without(hset), ctx' = FS!Dangling(hset), UNCHANGED <<tree, cwds, down>>,
           tst' \in [Threads -> {"none", "ready", "waiting", "detached"}],
           pst' \in [Procs -> {"free", "live", "zombie"}],
           \A p \in Procs : pst'[p] # "free" => pst[p] # "free",
           \A h \in DOMAIN handles \ hset : pst'[h[1]] # "free",
           ThreadsAreOfLive'
    PROVE  /\ FileInv'
           /\ AtEnd /\ (\A th \in Threads : tst'[th] = "waiting" =>
                          /\ tst[th] = "waiting" /\ ctx[th] \notin hset
                          /\ \A k \in DOMAIN nodeRefs : th \in bwq[k] => th \in st.bwq[k])
              => AtEnd'
<1>1. /\ IsKeyMap(FS!State)' /\ nodeRefs' = n.refs /\ bwq' = n.bwq
      /\ \A k : RefsTo(FS!State, k)' = RefsTo(n, k)
    BY BecomesIs
<1>2. /\ HandleTypes' /\ DOMAIN handles' = DOMAIN handles \ hset
      /\ \A h \in DOMAIN handles' : handles'[h] = handles[h]
    BY HandlesLeft
<1>3. /\ ctx' \in [Threads -> Pos \cup {<< >>}]
      /\ \A th \in Threads : ctx[th] \notin hset => ctx'[th] = ctx[th]
    BY DanglingIs
<1>4. FileTypes'
    BY <1>1, <1>2, <1>3 DEF FileInv, FileTypes, TreeTypes
<1>5. Counted'
  <2>1. ASSUME NEW k \in AllNodes
        PROVE  RefsTo(FS!State, k)' = Held(k)'
    <3>1. Cardinality(OpenOn(k)') = Cardinality(OpenOn(k)) - OfKey(hset, k)
        BY HandlesGo DEF OfKey
    <3>2. OfKey(hset, k) \in Nat /\ Cardinality(OpenOn(k)) \in Nat
        BY HandlesGo, HeldIs DEF OfKey, FileInv
    <3>3. Cardinality(Workers(k)') \in Nat
      <4>1. Workers(k)' \in SUBSET Procs
          BY DEF Workers
      <4>2. QED BY <4>1, TablesAreFinite, FS_Subset, FS_CardinalityType
    <3>4. Held(k)' = Cardinality(Workers(k)') + Cardinality(OpenOn(k)')
        BY DEF Held
    <3>5. QED BY <1>1, <3>1, <3>2, <3>3, <3>4
  <2>2. QED BY <1>2, <2>1 DEF Counted
<1>6. QueuesRight'
  <2>1. \A k \in DOMAIN nodeRefs : FS!IsFile(k) => FS!IsFile(k)'
      BY DEF FS!IsFile, FS!Exists
  <2>2. QED BY <2>1, QueuesDrop
<1>7. FS!HeldNodesExist'
    BY <1>2 DEF FileInv, FS!HeldNodesExist, FS!IsDir, FS!IsFile, FS!Exists, FS!SizeOf
<1>8. FileInv'
    BY <1>4, <1>5, <1>6, <1>7 DEF FileInv
<1>9. ASSUME AtEnd,
             \A th \in Threads : tst'[th] = "waiting" =>
                /\ tst[th] = "waiting" /\ ctx[th] \notin hset
                /\ \A k \in DOMAIN nodeRefs : th \in bwq[k] => th \in st.bwq[k]
      PROVE  AtEnd'
  <2>1. FileInv' => UsedRegistered'
      BY UsedIsRegistered, PTL
  <2>2. ~down /\ \A x \in Threads : tst[x] = "waiting" =>
                    ctx[x] \in DOMAIN handles /\ x \in bwq[handles[ctx[x]].nk]
      BY <1>9, FileOps DEF AtEnd, FS!WaitersAreAtTheEnd
  <2>3. ASSUME NEW x \in Threads, tst'[x] = "waiting"
        PROVE  /\ tst[x] = "waiting" /\ ctx'[x] = ctx[x]
               /\ ctx[x] \in DOMAIN handles' /\ handles'[ctx[x]] = handles[ctx[x]]
               /\ x \in bwq'[handles[ctx[x]].nk]
    <3>1. tst[x] = "waiting" /\ ctx[x] \notin hset /\ ctx'[x] = ctx[x]
        BY <1>3, <1>9, <2>3
    <3>2. ctx[x] \in DOMAIN handles' /\ handles'[ctx[x]] = handles[ctx[x]]
        BY <1>2, <2>2, <3>1
    <3>3. handles[ctx[x]].nk \in DOMAIN nodeRefs'
        BY <1>8, <2>1, <3>2 DEF UsedRegistered
    <3>4. handles[ctx[x]].nk \in DOMAIN nodeRefs /\ x \in st.bwq[handles[ctx[x]].nk]
        BY <1>9, <2>2, <2>3, <3>1, UsedIsRegistered DEF UsedRegistered
    <3>5. QED BY <1>1, <3>1, <3>2, <3>3, <3>4 DEF Drops
  <2>4. QED BY <1>9, <2>2, <2>3, StillAtEnd
<1>10. QED BY <1>8, <1>9

(* Those whom the last references wake were waiting.                       *)
LEMMA WokenWaited ==
    ASSUME FileInv, NEW st, NEW n, IsKeyMap(st), IsKeyMap(n), Drops(st, n),
           DOMAIN st.refs = DOMAIN nodeRefs, st.woken = {},
           \A k \in DOMAIN nodeRefs : st.bwq[k] \subseteq bwq[k]
    PROVE  /\ n.woken \subseteq Threads
           /\ \A th \in n.woken : tst[th] = "waiting" /\ pst[th[1]] = "live"
           /\ \A th \in n.woken : \E k \in DOMAIN nodeRefs : th \in st.bwq[k]
<1>1. n.woken \subseteq Threads
    BY DEF IsKeyMap
<1>2. \A th \in n.woken : \E k \in DOMAIN nodeRefs : th \in st.bwq[k]
    BY <1>1 DEF Drops
<1>3. QED BY <1>1, <1>2 DEF FileInv, QueuesRight, ThreadsAreOfLive

LEMMA FileClose ==
    ASSUME FileInv, NEW th \in Threads, NEW h \in Pos, FS!Close(th, h)
    PROVE  FileInv' /\ (~Sharing /\ AtEnd => AtEnd')
<1> DEFINE f == handles[h].nk
           st == FS!State
           n == FS!Deregistered(st, f)
<1>1. /\ FS!Uses(th, h) /\ FS!Becomes(n) /\ FS!Wakes(n.woken) /\ FS!Without({h})
      /\ ctx' = FS!Dangling({h}) /\ UNCHANGED <<pst, tree, cwds, down>>
    BY DEF FS!Close
<1>2. /\ h \in DOMAIN handles /\ f \in AllNodes /\ f \in DOMAIN nodeRefs
      /\ ~Sharing => \A u \in Threads : tst[u] = "waiting" => ctx[u] # h
    BY <1>1, UserIs
<1>3. IsKeyMap(st) /\ st.woken = {} /\ st.refs = nodeRefs /\ st.bwq = bwq
    BY FileOps DEF FileInv, FileTypes
<1> HIDE DEF st
<1>4. /\ IsKeyMap(n) /\ Drops(st, n)
      /\ \A x \in AllNodes : RefsTo(n, x) = IF x = f THEN RefsTo(st, x) - 1 ELSE RefsTo(st, x)
    BY <1>2, <1>3, Deregistering
<1> HIDE DEF n
<1>5. tst' = [u \in Threads |-> IF u \in n.woken THEN "ready" ELSE tst[u]]
    BY <1>1, FileOps DEF FS!Wakes
<1>6. /\ n.woken \subseteq Threads /\ \A u \in n.woken : tst[u] = "waiting" /\ pst[u[1]] = "live"
    BY <1>3, <1>4, WokenWaited
<1>7. /\ tst' \in [Threads -> {"none", "ready", "waiting", "detached"}]
      /\ \A u \in Threads : tst'[u] = IF u \in n.woken THEN "ready" ELSE tst[u]
    BY <1>5 DEF FileInv, FileTypes
<1>8. ThreadsAreOfLive'
    BY <1>1, <1>6, <1>7 DEF FileInv, ThreadsAreOfLive
<1>9. \A k \in DOMAIN nodeRefs : \A u \in st.bwq[k] : u \notin n.woken => tst'[u] = "waiting"
  <2>1. \A k \in DOMAIN nodeRefs : st.bwq[k] \subseteq Threads
      BY <1>3 DEF IsKeyMap
  <2>2. QED BY <1>3, <1>7, <2>1 DEF FileInv, QueuesRight
<1>10. ASSUME NEW k \in AllNodes
       PROVE  RefsTo(n, k) = (Cardinality(Workers(k)') + Cardinality(OpenOn(k))) - OfKey({h}, k)
  <2>1. Workers(k)' = Workers(k)
      BY <1>1 DEF Workers
  <2>2. Cardinality(Workers(k)) \in Nat /\ Cardinality(OpenOn(k)) \in Nat
      BY HeldIs DEF FileInv
  <2>3. {x \in {h} : handles[x].nk = k} = IF k = f THEN {h} ELSE {}
      BY <1>2
  <2>4. OfKey({h}, k) = IF k = f THEN 1 ELSE 0
    <3>1. Cardinality({}) = 0 /\ Cardinality({h}) = 1
        BY FS_EmptySet, FS_Singleton
    <3>2. OfKey({h}, k) = Cardinality({x \in {h} : handles[x].nk = k})
        BY FileOps DEF OfKey
    <3>3. QED BY <2>3, <3>1, <3>2
  <2>5. RefsTo(st, k) = Cardinality(Workers(k)) + Cardinality(OpenOn(k))
      BY DEF FileInv, Counted, Held, st
  <2> HIDE DEF f
  <2>6. QED BY <1>4, <2>1, <2>2, <2>4, <2>5
<1>11. /\ FileInv'
       /\ AtEnd /\ (\A u \in Threads : tst'[u] = "waiting" =>
                     /\ tst[u] = "waiting" /\ ctx[u] \notin {h}
                     /\ \A k \in DOMAIN nodeRefs : u \in bwq[k] => u \in st.bwq[k])
          => AtEnd'
  <2>1. {h} \in SUBSET DOMAIN handles
      BY <1>2
  <2>2. /\ \A x \in DOMAIN handles \ {h} : pst'[x[1]] # "free"
        /\ pst' \in [Procs -> {"free", "live", "zombie"}]
        /\ \A p \in Procs : pst'[p] # "free" => pst[p] # "free"
      BY <1>1 DEF FileInv, Counted, FileTypes
  <2>3. DOMAIN st.refs = DOMAIN nodeRefs /\ \A k \in DOMAIN nodeRefs : st.bwq[k] \subseteq bwq[k]
      BY <1>3
  <2>4. QED BY <1>1, <1>3, <1>4, <1>7, <1>8, <1>9, <1>10, <2>1, <2>2, <2>3, FileLetsGo
<1>12. ~Sharing => \A u \in Threads : tst'[u] = "waiting" =>
                      /\ tst[u] = "waiting" /\ ctx[u] \notin {h}
                      /\ \A k \in DOMAIN nodeRefs : u \in bwq[k] => u \in st.bwq[k]
    BY <1>2, <1>3, <1>7
<1>13. QED BY <1>11, <1>12

-----------------------------------------------------------------------------
(* Files: the life of processes *)

LEMMA Leaving ==
    ASSUME FileInv, NEW T
    PROVE  /\ IsKeyMap(FS!Leave(FS!State, T)) /\ FS!Leave(FS!State, T).woken = {}
           /\ FS!Leave(FS!State, T).refs = nodeRefs
           /\ \A k \in DOMAIN nodeRefs : FS!Leave(FS!State, T).bwq[k] = bwq[k] \ T
<1> DEFINE q == [k \in DOMAIN bwq |-> bwq[k] \ T]
<1>1. FS!Leave(FS!State, T) = [refs |-> nodeRefs, bwq |-> q, woken |-> {}]
  <2>1. FS!State = [refs |-> nodeRefs, bwq |-> bwq, woken |-> {}]
      BY DEF FS!State
  <2>2. FS!Leave(FS!State, T) = [FS!State EXCEPT !.bwq = [k \in DOMAIN @ |-> @[k] \ T]]
      BY DEF FS!Leave
  <2>3. FS!Leave(FS!State, T) = [FS!State EXCEPT !.bwq = q]
      BY <2>1, <2>2
  <2> HIDE DEF q
  <2>4. QED BY <2>1, <2>3
<1>2. IsKeyMap(FS!State)
    BY DEF FileInv, FileTypes
<1>3. DOMAIN q = DOMAIN nodeRefs /\ \A k \in DOMAIN nodeRefs : q[k] = bwq[k] \ T
    BY <1>2, FileOps DEF IsKeyMap
<1>4. q \in [DOMAIN nodeRefs -> SUBSET Threads]
    BY <1>2, <1>3, FileOps DEF IsKeyMap
<1> HIDE DEF q
<1>5. QED BY <1>1, <1>2, <1>3, <1>4, FileOps DEF IsKeyMap

LEMMA FileReap ==
    ASSUME FileInv, NEW p \in Procs, FS!Reap(p)
    PROVE  FileInv' /\ (AtEnd => AtEnd')
<1> DEFINE hset == FS!HandlesOf(p)
           st == FS!State
           old == cwds[p]
           m == FS!Deregistered(st, old)
           n == FS!Closed(m, hset)
<1>1. /\ ~down /\ pst[p] = "zombie" /\ pst' = [pst EXCEPT ![p] = "free"]
      /\ FS!Becomes(n) /\ FS!Wakes(n.woken) /\ FS!Without(hset)
      /\ ctx' = FS!Dangling(hset) /\ UNCHANGED <<tree, cwds, down>>
    BY DEF FS!Reap
<1>2. old \in DOMAIN nodeRefs /\ old \in AllNodes
    BY <1>1, UsedIsRegistered DEF UsedRegistered, FileInv, FileTypes
<1>3. IsKeyMap(st) /\ st.woken = {} /\ st.refs = nodeRefs /\ st.bwq = bwq
    BY FileOps DEF FileInv, FileTypes
<1>4. hset \in SUBSET DOMAIN handles /\ \A h \in DOMAIN handles : h \in hset <=> h[1] = p
    BY DEF FS!HandlesOf
<1> HIDE DEF st, hset
<1>5. /\ IsKeyMap(m) /\ Drops(st, m)
      /\ \A x \in AllNodes : RefsTo(m, x) = IF x = old THEN RefsTo(st, x) - 1 ELSE RefsTo(st, x)
    BY <1>2, <1>3, Deregistering
<1> HIDE DEF m
<1>6. ASSUME NEW k \in AllNodes
      PROVE  /\ OfKey(hset, k) \in Nat /\ OfKey(hset, k) <= RefsTo(m, k)
             /\ RefsTo(m, k) = Cardinality(Workers(k)') + Cardinality(OpenOn(k))
  <2>1. Workers(k)' = IF k = old THEN Workers(k) \ {p} ELSE Workers(k)
    <3>1. pst'[p] = "free" /\ \A x \in Procs : x # p => pst'[x] = pst[x]
        BY <1>1 DEF FileInv, FileTypes
    <3>2. QED BY <1>1, <3>1 DEF Workers
  <2>2. p \in Workers(k) <=> k = old
      BY <1>1 DEF Workers
  <2>3. /\ IsFiniteSet(Workers(k)) /\ Cardinality(Workers(k)) \in Nat
        /\ Cardinality(OpenOn(k)) \in Nat
      BY HeldIs DEF FileInv
  <2>4. Cardinality(Workers(k) \ {p}) = IF k = old THEN Cardinality(Workers(k)) - 1
                                        ELSE Cardinality(Workers(k))
      BY <2>2, <2>3, FS_RemoveElement
  <2>5. Cardinality(Workers(k) \ {p}) \in Nat
      BY <2>3, FS_RemoveElement, FS_CardinalityType
  <2>6. RefsTo(st, k) = Cardinality(Workers(k)) + Cardinality(OpenOn(k))
      BY DEF FileInv, Counted, Held, st
  <2>7. OfKey(hset, k) \in Nat /\ OfKey(hset, k) <= Cardinality(OpenOn(k))
      BY <1>1, <1>4, HandlesGo DEF OfKey
  <2> HIDE DEF old
  <2>8. RefsTo(m, k) = Cardinality(Workers(k)') + Cardinality(OpenOn(k))
      BY <1>5, <2>1, <2>3, <2>4, <2>6
  <2>9. Cardinality(Workers(k)') \in Nat
      BY <2>1, <2>3, <2>5
  <2>10. QED BY <2>3, <2>7, <2>8, <2>9
<1>7. /\ IsKeyMap(n) /\ Drops(m, n)
      /\ \A k \in AllNodes : RefsTo(n, k) = RefsTo(m, k) - OfKey(hset, k)
    BY <1>5, <1>6, Closing DEF OfKey
<1> HIDE DEF n
<1>8. Drops(st, n)
    BY <1>5, <1>7, DropsTwice
<1>9. /\ n.woken \subseteq Threads /\ \A u \in n.woken : tst[u] = "waiting" /\ pst[u[1]] = "live"
    BY <1>3, <1>7, <1>8, WokenWaited
<1>10. /\ tst' \in [Threads -> {"none", "ready", "waiting", "detached"}]
       /\ \A u \in Threads : tst'[u] = IF u \in n.woken THEN "ready" ELSE tst[u]
    BY <1>1, FileOps DEF FileInv, FileTypes, FS!Wakes
<1>11. pst'[p] = "free" /\ \A x \in Procs : x # p => pst'[x] = pst[x]
    BY <1>1 DEF FileInv, FileTypes
<1>12. ThreadsAreOfLive'
  <2>1. ASSUME NEW u \in Threads, tst'[u] # "none"
        PROVE  pst'[u[1]] = "live"
    <3>1. pst[u[1]] = "live" /\ u[1] \in Procs
        BY <1>9, <1>10, <2>1 DEF FileInv, ThreadsAreOfLive, Threads
    <3>2. QED BY <1>1, <1>11, <3>1
  <2>2. QED BY <2>1 DEF ThreadsAreOfLive
<1>13. \A k \in DOMAIN nodeRefs : \A u \in st.bwq[k] : u \notin n.woken => tst'[u] = "waiting"
  <2>1. \A k \in DOMAIN nodeRefs : st.bwq[k] \subseteq Threads
      BY <1>3 DEF IsKeyMap
  <2>2. QED BY <1>3, <1>10, <2>1 DEF FileInv, QueuesRight
<1>14. /\ \A h \in DOMAIN handles \ hset : pst'[h[1]] # "free"
       /\ pst' \in [Procs -> {"free", "live", "zombie"}]
       /\ \A x \in Procs : pst'[x] # "free" => pst[x] # "free"
  <2>1. \A h \in DOMAIN handles : h[1] \in Procs
      BY DEF FileInv, FileTypes, HandleTypes, Pos
  <2>2. QED BY <1>1, <1>4, <1>11, <2>1 DEF FileInv, Counted, FileTypes
<1>15. ASSUME NEW k \in AllNodes
       PROVE  RefsTo(n, k) = (Cardinality(Workers(k)') + Cardinality(OpenOn(k))) - OfKey(hset, k)
  <2>1. RefsTo(m, k) = Cardinality(Workers(k)') + Cardinality(OpenOn(k))
      BY <1>6
  <2>2. RefsTo(n, k) = RefsTo(m, k) - OfKey(hset, k)
      BY <1>7
  <2>3. QED BY <2>1, <2>2, Zenon
<1>16. DOMAIN st.refs = DOMAIN nodeRefs /\ \A k \in DOMAIN nodeRefs : st.bwq[k] \subseteq bwq[k]
    BY <1>3
<1>17. /\ FileInv'
       /\ AtEnd /\ (\A u \in Threads : tst'[u] = "waiting" =>
                     /\ tst[u] = "waiting" /\ ctx[u] \notin hset
                     /\ \A k \in DOMAIN nodeRefs : u \in bwq[k] => u \in st.bwq[k])
          => AtEnd'
    BY <1>1, <1>3, <1>4, <1>7, <1>8, <1>10, <1>12, <1>13, <1>14, <1>15, <1>16, FileLetsGo
<1>18. AtEnd => \A u \in Threads : tst'[u] = "waiting" =>
                  /\ tst[u] = "waiting" /\ ctx[u] \notin hset
                  /\ \A k \in DOMAIN nodeRefs : u \in bwq[k] => u \in st.bwq[k]
  <2>1. ASSUME AtEnd, NEW u \in Threads, tst'[u] = "waiting"
        PROVE  tst[u] = "waiting" /\ ctx[u] \notin hset
    <3>1. tst[u] = "waiting"
        BY <1>10, <2>1
    <3>2. ctx[u] \in DOMAIN handles /\ ctx[u][1] = u[1]
        BY <2>1, <3>1, FileOps DEF AtEnd, FS!WaitersAreAtTheEnd
    <3>3. pst[u[1]] = "live"
        BY <3>1 DEF FileInv, ThreadsAreOfLive
    <3>4. QED BY <1>1, <1>4, <3>1, <3>2, <3>3
  <2>2. QED BY <1>3, <2>1
<1>19. QED BY <1>17, <1>18

LEMMA FileExec ==
    ASSUME FileInv, NEW th \in Threads, NEW kept, FS!Exec(th, kept)
    PROVE  FileInv' /\ (AtEnd => AtEnd')
<1> DEFINE p == th[1]
           hset == FS!HandlesOf(p) \ kept
           T == {p} \X Tids
           st == FS!Leave(FS!State, T)
           n == FS!Closed(st, hset)
<1>1. /\ ~down /\ tst[th] = "ready" /\ FS!Becomes(n) /\ FS!Without(hset)
      /\ tst' = [u \in Threads |-> IF u \in n.woken THEN "ready" ELSE FS!AfterExec(th)[u]]
      /\ ctx' = FS!Dangling(hset) /\ UNCHANGED <<pst, tree, cwds, down>>
    BY FileOps DEF FS!Exec, FS!Up, FS!Running
<1>2. p \in Procs /\ pst[p] = "live"
    BY <1>1, CallerIs
<1>3. /\ IsKeyMap(st) /\ st.woken = {} /\ st.refs = nodeRefs
      /\ \A k \in DOMAIN nodeRefs : st.bwq[k] = bwq[k] \ T
    BY Leaving
<1>4. hset \in SUBSET DOMAIN handles /\ \A h \in hset : h[1] = p
    BY DEF FS!HandlesOf
<1>5. \A u \in Threads : u \in T <=> u[1] = p
    BY DEF Threads
<1>6. \A u \in Threads : FS!AfterExec(th)[u] \in {"none", "ready"} \/ u \notin T
    BY <1>5, FileOps DEF FS!AfterExec
<1>7. \A u \in Threads : u \notin T => FS!AfterExec(th)[u] = tst[u]
    BY <1>5, FileOps DEF FS!AfterExec
<1> HIDE DEF p, hset, T, st
<1>8. ASSUME NEW k \in AllNodes
      PROVE  /\ OfKey(hset, k) \in Nat /\ OfKey(hset, k) <= RefsTo(st, k)
             /\ RefsTo(st, k) = Cardinality(Workers(k)') + Cardinality(OpenOn(k))
  <2>1. Workers(k)' = Workers(k)
      BY <1>1 DEF Workers
  <2>2. Cardinality(Workers(k)) \in Nat /\ Cardinality(OpenOn(k)) \in Nat
      BY HeldIs DEF FileInv
  <2>3. RefsTo(st, k) = Cardinality(Workers(k)) + Cardinality(OpenOn(k))
      BY <1>3, FileOps DEF FileInv, Counted, Held, RefsTo
  <2>4. OfKey(hset, k) \in Nat /\ OfKey(hset, k) <= Cardinality(OpenOn(k))
      BY <1>1, <1>4, HandlesGo DEF OfKey
  <2>5. QED BY <2>1, <2>2, <2>3, <2>4
<1>9. /\ IsKeyMap(n) /\ Drops(st, n)
      /\ \A k \in AllNodes : RefsTo(n, k) = RefsTo(st, k) - OfKey(hset, k)
    BY <1>3, <1>8, Closing DEF OfKey
<1> HIDE DEF n
<1>10. DOMAIN st.refs = DOMAIN nodeRefs /\ \A k \in DOMAIN nodeRefs : st.bwq[k] \subseteq bwq[k]
    BY <1>3
<1>11. /\ n.woken \subseteq Threads /\ \A u \in n.woken : tst[u] = "waiting" /\ pst[u[1]] = "live"
       /\ \A u \in n.woken : u \notin T
    BY <1>3, <1>9, <1>10, WokenWaited
<1>12. /\ tst' \in [Threads -> {"none", "ready", "waiting", "detached"}]
       /\ \A u \in Threads : tst'[u] = "ready" \/ (u \in T /\ tst'[u] = "none")
                                             \/ (u \notin T /\ tst'[u] = tst[u])
       /\ \A u \in Threads : u \notin T /\ u \notin n.woken => tst'[u] = tst[u]
       /\ \A u \in Threads : tst'[u] # "none" => u \in T \/ u \in n.woken \/ tst[u] # "none"
  <2>1. \A u \in Threads : tst[u] \in {"none", "ready", "waiting", "detached"}
      BY DEF FileInv, FileTypes
  <2>2. \A u \in Threads : tst'[u] = IF u \in n.woken THEN "ready" ELSE FS!AfterExec(th)[u]
      BY <1>1
  <2>3. \A u \in Threads : tst'[u] \in {"none", "ready", "waiting", "detached"}
      BY <1>6, <1>7, <2>1, <2>2
  <2>4. tst' \in [Threads -> {"none", "ready", "waiting", "detached"}]
      BY <1>1, <2>3
  <2>5. QED BY <1>6, <1>7, <2>1, <2>2, <2>4
<1>13. ThreadsAreOfLive'
    BY <1>1, <1>2, <1>5, <1>11, <1>12 DEF FileInv, ThreadsAreOfLive
<1>14. \A k \in DOMAIN nodeRefs : \A u \in st.bwq[k] : u \notin n.woken => tst'[u] = "waiting"
  <2>1. \A k \in DOMAIN nodeRefs : bwq[k] \subseteq Threads
      BY FileOps DEF FileInv, FileTypes, IsKeyMap
  <2>2. QED BY <1>3, <1>12, <2>1 DEF FileInv, QueuesRight
<1>15. /\ \A h \in DOMAIN handles \ hset : pst'[h[1]] # "free"
       /\ pst' \in [Procs -> {"free", "live", "zombie"}]
       /\ \A x \in Procs : pst'[x] # "free" => pst[x] # "free"
    BY <1>1 DEF FileInv, Counted, FileTypes
<1>16. ASSUME NEW k \in AllNodes
       PROVE  RefsTo(n, k) = (Cardinality(Workers(k)') + Cardinality(OpenOn(k))) - OfKey(hset, k)
  <2>1. RefsTo(st, k) = Cardinality(Workers(k)') + Cardinality(OpenOn(k))
      BY <1>8
  <2>2. RefsTo(n, k) = RefsTo(st, k) - OfKey(hset, k)
      BY <1>9
  <2>3. QED BY <2>1, <2>2, Zenon
<1>17. /\ FileInv'
       /\ AtEnd /\ (\A u \in Threads : tst'[u] = "waiting" =>
                     /\ tst[u] = "waiting" /\ ctx[u] \notin hset
                     /\ \A k \in DOMAIN nodeRefs : u \in bwq[k] => u \in st.bwq[k])
          => AtEnd'
    BY <1>1, <1>3, <1>4, <1>9, <1>10, <1>12, <1>13, <1>14, <1>15, <1>16, FileLetsGo
<1>18. AtEnd => \A u \in Threads : tst'[u] = "waiting" =>
                  /\ tst[u] = "waiting" /\ ctx[u] \notin hset
                  /\ \A k \in DOMAIN nodeRefs : u \in bwq[k] => u \in st.bwq[k]
  <2>1. ASSUME AtEnd, NEW u \in Threads, tst'[u] = "waiting"
        PROVE  /\ tst[u] = "waiting" /\ ctx[u] \notin hset
               /\ \A k \in DOMAIN nodeRefs : u \in bwq[k] => u \in st.bwq[k]
    <3>1. tst[u] = "waiting" /\ u \notin T
        BY <1>12, <2>1
    <3>2. ctx[u][1] = u[1]
        BY <2>1, <3>1, FileOps DEF AtEnd, FS!WaitersAreAtTheEnd
    <3>3. QED BY <1>3, <1>4, <1>5, <3>1, <3>2
  <2>2. QED BY <2>1
<1>19. QED BY <1>17, <1>18

LEMMA FileExit ==
    ASSUME FileInv, NEW th \in Threads, FS!Exit(th)
    PROVE  FileInv' /\ (AtEnd => AtEnd')
<1> DEFINE p == th[1]
           T == {p} \X Tids
           st == FS!Leave(FS!State, T)
<1>1. /\ ~down /\ tst[th] = "ready" /\ FS!Becomes(st)
      /\ pst' = [pst EXCEPT ![p] = "zombie"]
      /\ tst' = [u \in Threads |-> IF u[1] = p THEN "none" ELSE tst[u]]
      /\ UNCHANGED <<tree, cwds, handles, ctx, down>>
    BY FileOps DEF FS!Exit, FS!Exits, FS!Running
<1>2. p \in Procs /\ pst[p] = "live"
    BY <1>1, CallerIs
<1>3. /\ IsKeyMap(st) /\ st.woken = {} /\ st.refs = nodeRefs
      /\ \A k \in DOMAIN nodeRefs : st.bwq[k] = bwq[k] \ T
    BY Leaving
<1>4. \A u \in Threads : u \in T <=> u[1] = p
    BY DEF Threads
<1> HIDE DEF p, T, st
<1>5. pst'[p] = "zombie" /\ \A x \in Procs : x # p => pst'[x] = pst[x]
    BY <1>1, <1>2 DEF FileInv, FileTypes
<1>6. /\ tst' \in [Threads -> {"none", "ready", "waiting", "detached"}]
      /\ \A u \in Threads : tst'[u] = IF u \in T THEN "none" ELSE tst[u]
    BY <1>1, <1>4 DEF FileInv, FileTypes
<1>7. ThreadsAreOfLive'
  <2>1. ASSUME NEW u \in Threads, tst'[u] # "none"
        PROVE  pst'[u[1]] = "live"
    <3>1. u \notin T /\ tst[u] # "none" /\ u[1] \in Procs
        BY <1>6, <2>1 DEF Threads
    <3>2. QED BY <1>4, <1>5, <3>1 DEF FileInv, ThreadsAreOfLive
  <2>2. QED BY <2>1 DEF ThreadsAreOfLive
<1>8. \A k \in DOMAIN nodeRefs : \A u \in st.bwq[k] : u \notin st.woken => tst'[u] = "waiting"
  <2>1. \A k \in DOMAIN nodeRefs : bwq[k] \subseteq Threads
      BY FileOps DEF FileInv, FileTypes, IsKeyMap
  <2>2. QED BY <1>3, <1>6, <2>1 DEF FileInv, QueuesRight
<1>9. Drops(st, st)
    BY DEF Drops
<1>10. FS!Without({}) /\ ctx' = FS!Dangling({})
  <2>1. handles = [h \in DOMAIN handles |-> handles[h]]
      BY DEF FileInv, FileTypes, HandleTypes
  <2>2. DOMAIN handles \ {} = DOMAIN handles
      OBVIOUS
  <2>3. FS!Without({})
      BY <1>1, <2>1, <2>2 DEF FS!Without
  <2>4. ctx = [u \in Threads |-> ctx[u]]
      BY DEF FileInv, FileTypes
  <2>5. FS!Dangling({}) = [u \in Threads |-> ctx[u]]
      BY FileOps DEF FS!Dangling
  <2>6. QED BY <1>1, <2>3, <2>4, <2>5
<1>11. /\ \A h \in DOMAIN handles \ {} : pst'[h[1]] # "free"
       /\ pst' \in [Procs -> {"free", "live", "zombie"}]
       /\ \A x \in Procs : pst'[x] # "free" => pst[x] # "free"
  <2>1. \A h \in DOMAIN handles : h[1] \in Procs
      BY DEF FileInv, FileTypes, HandleTypes, Pos
  <2>2. QED BY <1>1, <1>2, <1>5, <2>1 DEF FileInv, Counted, FileTypes
<1>12. ASSUME NEW k \in AllNodes
       PROVE  RefsTo(st, k) = (Cardinality(Workers(k)') + Cardinality(OpenOn(k))) - OfKey({}, k)
  <2>1. Workers(k)' = Workers(k)
      BY <1>1, <1>2, <1>5 DEF Workers
  <2>2. Cardinality(Workers(k)) \in Nat /\ Cardinality(OpenOn(k)) \in Nat
      BY HeldIs DEF FileInv
  <2>3. RefsTo(st, k) = Cardinality(Workers(k)) + Cardinality(OpenOn(k))
      BY <1>3, FileOps DEF FileInv, Counted, Held, RefsTo
  <2>4. OfKey({}, k) = 0
    <3>1. {h \in {} : handles[h].nk = k} = {}
        OBVIOUS
    <3>2. QED BY <3>1, FileOps, FS_EmptySet DEF OfKey
  <2>5. QED BY <2>1, <2>2, <2>3, <2>4
<1>13. DOMAIN st.refs = DOMAIN nodeRefs /\ \A k \in DOMAIN nodeRefs : st.bwq[k] \subseteq bwq[k]
    BY <1>3
<1>14. {} \in SUBSET DOMAIN handles
    OBVIOUS
<1>15. /\ FileInv'
       /\ AtEnd /\ (\A u \in Threads : tst'[u] = "waiting" =>
                     /\ tst[u] = "waiting" /\ ctx[u] \notin {}
                     /\ \A k \in DOMAIN nodeRefs : u \in bwq[k] => u \in st.bwq[k])
          => AtEnd'
    BY <1>1, <1>3, <1>6, <1>7, <1>8, <1>9, <1>10, <1>11, <1>12, <1>13, <1>14, FileLetsGo, SMTT(60)
<1>16. \A u \in Threads : tst'[u] = "waiting" =>
           /\ tst[u] = "waiting" /\ ctx[u] \notin {}
           /\ \A k \in DOMAIN nodeRefs : u \in bwq[k] => u \in st.bwq[k]
    BY <1>3, <1>6
<1>17. QED BY <1>15, <1>16

(* As many copies as there are handles.                                    *)
LEMMA Copied ==
    ASSUME NEW X, IsFiniteSet(X), NEW p, NEW c, X \subseteq {p} \X Hids,
           NEW Y, \A y : y \in Y <=> \E x \in X : y = <<c, x[2]>>
    PROVE  IsFiniteSet(Y) /\ Cardinality(Y) = Cardinality(X)
<1> DEFINE g == [x \in X |-> <<c, x[2]>>]
<1>1. g \in [X -> Y]
    OBVIOUS
<1>2. \A y \in Y : \E x \in X : g[x] = y
    OBVIOUS
<1>3. \A a, b \in X : g[a] = g[b] => a = b
  <2>1. ASSUME NEW a \in X, NEW b \in X, g[a] = g[b]
        PROVE  a = b
    <3>1. a = <<p, a[2]>> /\ b = <<p, b[2]>>
        OBVIOUS
    <3>2. <<c, a[2]>> = <<c, b[2]>>
        BY <2>1
    <3>3. a[2] = b[2]
        BY <3>2
    <3>4. QED BY <3>1, <3>3
  <2>2. QED BY <2>1
<1>4. g \in Bijection(X, Y)
    BY <1>1, <1>2, <1>3 DEF Bijection, Injection, Surjection, IsInjective
<1>5. ExistsBijection(X, Y)
    BY <1>4 DEF ExistsBijection
<1>6. QED BY <1>5, FS_Bijection

LEMMA SharedIs ==
    ASSUME FileInv, NEW p \in Procs, pst[p] # "free"
    PROVE  LET n == FS!Shared(FS!State, p)
               Count(k) == Cardinality({h \in FS!HandlesOf(p) : handles[h].nk = k})
                           + (IF cwds[p] = k THEN 1 ELSE 0)
           IN  /\ IsKeyMap(n) /\ DOMAIN n.refs = DOMAIN nodeRefs /\ n.bwq = bwq
               /\ \A k \in AllNodes : Count(k) \in Nat /\ RefsTo(n, k) = RefsTo(FS!State, k) + Count(k)
<1> DEFINE n == FS!Shared(FS!State, p)
           X(k) == {h \in FS!HandlesOf(p) : handles[h].nk = k}
           Count(k) == Cardinality(X(k)) + (IF cwds[p] = k THEN 1 ELSE 0)
           r == [k \in DOMAIN nodeRefs |-> nodeRefs[k] + Count(k)]
<1>1. FS!State = [refs |-> nodeRefs, bwq |-> bwq, woken |-> {}] /\ IsKeyMap(FS!State)
    BY DEF FS!State, FileInv, FileTypes
<1>2. n = [FS!State EXCEPT !.refs = r]
  <2>1. n = [FS!State EXCEPT !.refs = [k \in DOMAIN @ |-> @[k] + Count(k)]]
      BY FileOps, Zenon DEF FS!Shared
  <2> HIDE DEF Count
  <2>2. QED BY <1>1, <2>1
<1>3. ASSUME NEW k \in AllNodes
      PROVE  /\ Count(k) \in Nat
             /\ k \notin DOMAIN nodeRefs => Count(k) = 0
  <2>1. X(k) \in SUBSET OpenOn(k)
      BY DEF FS!HandlesOf, OpenOn
  <2>2. IsFiniteSet(OpenOn(k))
      BY HeldIs DEF FileInv
  <2>3. IsFiniteSet(X(k)) /\ Cardinality(X(k)) \in Nat
      BY <2>1, <2>2, FS_Subset, FS_CardinalityType
  <2>4. k \notin DOMAIN nodeRefs => X(k) = {} /\ cwds[p] # k
      BY <2>1, UsedIsRegistered DEF UsedRegistered, OpenOn
  <2>5. k \notin DOMAIN nodeRefs => Cardinality(X(k)) = 0
      BY <2>4, FS_EmptySet
  <2>6. QED BY <2>3, <2>4, <2>5
<1> HIDE DEF Count, n
<1>4. /\ DOMAIN r = DOMAIN nodeRefs /\ \A k \in DOMAIN nodeRefs : r[k] = nodeRefs[k] + Count(k)
    OBVIOUS
<1>5. DOMAIN nodeRefs \subseteq AllNodes /\ \A k \in DOMAIN nodeRefs : nodeRefs[k] \in Nat \ {0}
    BY <1>1, FileOps DEF IsKeyMap
<1>6. r \in [DOMAIN r -> Nat \ {0}]
  <2>1. \A k \in DOMAIN nodeRefs : nodeRefs[k] + Count(k) \in Nat \ {0}
      BY <1>3, <1>5
  <2>2. QED BY <2>1
<1> HIDE DEF r
<1>7. n = [refs |-> r, bwq |-> bwq, woken |-> {}]
    BY <1>1, <1>2
<1>8. IsKeyMap(n)
    BY <1>1, <1>4, <1>6, <1>7, FileOps DEF IsKeyMap
<1>9. \A k \in AllNodes : RefsTo(n, k) = RefsTo(FS!State, k) + Count(k)
    BY <1>3, <1>4, <1>5, <1>7, FileOps DEF RefsTo
<1>10. DOMAIN n.refs = DOMAIN nodeRefs /\ n.bwq = bwq
    BY <1>4, <1>7
<1>11. \A k \in AllNodes : Count(k) \in Nat /\ RefsTo(n, k) = RefsTo(FS!State, k) + Count(k)
    BY <1>3, <1>9
<1>12. QED BY <1>8, <1>10, <1>11, Zenon DEF Count, n

LEMMA FileFork ==
    ASSUME FileInv, NEW th \in Threads, NEW c \in Procs, FS!Fork(th, c)
    PROVE  FileInv' /\ (AtEnd => AtEnd')
<1> DEFINE p == th[1]
           n == FS!Shared(FS!State, p)
           X(k) == {h \in FS!HandlesOf(p) : handles[h].nk = k}
           Count(k) == Cardinality(X(k)) + (IF cwds[p] = k THEN 1 ELSE 0)
           copies == {<<c, x[2]>> : x \in FS!HandlesOf(p)}
           child == <<c, th[2]>>
<1>1. /\ ~down /\ tst[th] = "ready" /\ pst[c] = "free" /\ FS!Becomes(n)
      /\ pst' = [pst EXCEPT ![c] = "live"] /\ tst' = [tst EXCEPT ![child] = "ready"]
      /\ cwds' = [cwds EXCEPT ![c] = cwds[p]]
      /\ handles' = [h \in DOMAIN handles \cup copies |->
                       IF h[1] = c THEN handles[<<p, h[2]>>] ELSE handles[h]]
      /\ UNCHANGED <<tree, ctx, down>>
    BY DEF FS!Fork, FS!Forks, FS!Running
<1>2. p \in Procs /\ pst[p] = "live" /\ p # c
    BY <1>1, CallerIs
<1>3. child \in Threads /\ child[1] = c
    BY DEF Threads
<1>4. /\ IsKeyMap(n) /\ DOMAIN n.refs = DOMAIN nodeRefs /\ n.bwq = bwq
      /\ \A k \in AllNodes : Count(k) \in Nat /\ RefsTo(n, k) = RefsTo(FS!State, k) + Count(k)
    BY <1>2, SharedIs
<1>5. /\ IsKeyMap(FS!State)' /\ DOMAIN nodeRefs' = DOMAIN nodeRefs /\ bwq' = bwq
      /\ \A k : RefsTo(FS!State, k)' = RefsTo(n, k)
    BY <1>1, <1>4, BecomesIs
<1>6. /\ \A h \in DOMAIN handles : h \in Pos /\ h[1] # c
      /\ \A h \in FS!HandlesOf(p) : h \in DOMAIN handles /\ h = <<p, h[2]>> /\ h[2] \in Hids
    BY <1>1 DEF FileInv, FileTypes, HandleTypes, Counted, FS!HandlesOf, Pos
<1>7. \A h \in copies : h[1] = c /\ h \in Pos /\ <<p, h[2]>> \in FS!HandlesOf(p)
    BY <1>6 DEF Pos
<1> HIDE DEF p, n, child
<1>8. /\ DOMAIN handles' = DOMAIN handles \cup copies
      /\ \A h \in DOMAIN handles : handles'[h] = handles[h]
      /\ \A h \in copies : handles'[h] = handles[<<p, h[2]>>]
    BY <1>1, <1>6, <1>7
<1>9. HandleTypes'
  <2>1. HandleTypes
      BY DEF FileInv, FileTypes
  <2>2. IsFiniteSet(FS!HandlesOf(p))
    <3>1. FS!HandlesOf(p) \in SUBSET DOMAIN handles
        BY <1>6
    <3>2. QED BY <2>1, <3>1, FS_Subset DEF HandleTypes
  <2>3. FS!HandlesOf(p) \subseteq {p} \X Hids
      BY <1>6
  <2>4. IsFiniteSet(copies)
    <3>1. \A y : y \in copies <=> \E x \in FS!HandlesOf(p) : y = <<c, x[2]>>
        OBVIOUS
    <3> HIDE DEF copies
    <3>2. QED BY <2>2, <2>3, <3>1, Copied
  <2>5. IsFiniteSet(DOMAIN handles')
    <3>1. IsFiniteSet(DOMAIN handles)
        BY <2>1 DEF HandleTypes
    <3> HIDE DEF copies
    <3>2. QED BY <1>8, <2>4, <3>1, FS_Union
  <2>6. \A h \in DOMAIN handles' : handles'[h] \in [nk : AllNodes, pos : Nat] /\ h \in Pos
      BY <1>6, <1>7, <1>8, <2>1 DEF HandleTypes
  <2>7. handles' = [h \in DOMAIN handles' |-> handles'[h]]
      BY <1>1
  <2>8. QED BY <2>5, <2>6, <2>7 DEF HandleTypes
<1>10. /\ pst'[c] = "live" /\ \A x \in Procs : x # c => pst'[x] = pst[x]
       /\ tst'[child] = "ready" /\ \A u \in Threads : u # child => tst'[u] = tst[u]
       /\ cwds'[c] = cwds[p] /\ \A x \in Procs : x # c => cwds'[x] = cwds[x]
    BY <1>1, <1>3 DEF FileInv, FileTypes
<1>11. tst[child] = "none"
    BY <1>1, <1>3 DEF FileInv, FileTypes, ThreadsAreOfLive
<1>12. FileTypes'
  <2>1. /\ pst' \in [Procs -> {"free", "live", "zombie"}]
        /\ tst' \in [Threads -> {"none", "ready", "waiting", "detached"}]
        /\ cwds' \in [Procs -> AllNodes]
      BY <1>1, <1>2, <1>3 DEF FileInv, FileTypes
  <2>2. QED BY <1>1, <1>5, <1>9, <2>1 DEF FileInv, FileTypes, TreeTypes
<1>13. ThreadsAreOfLive'
  <2>1. ASSUME NEW u \in Threads, tst'[u] # "none"
        PROVE  pst'[u[1]] = "live"
    <3>1. CASE u = child
        BY <1>3, <1>10, <3>1
    <3>2. CASE u # child
      <4>1. pst[u[1]] = "live" /\ u[1] \in Procs
          BY <1>10, <2>1, <3>2 DEF FileInv, ThreadsAreOfLive, Threads
      <4>2. QED BY <1>1, <1>10, <4>1
    <3>3. QED BY <3>1, <3>2
  <2>2. QED BY <2>1 DEF ThreadsAreOfLive
<1>14. Counted'
  <2>1. ASSUME NEW k \in AllNodes
        PROVE  RefsTo(FS!State, k)' = Held(k)'
    <3> DEFINE Y == {<<c, x[2]>> : x \in X(k)}
    <3>1. /\ IsFiniteSet(Workers(k)) /\ IsFiniteSet(OpenOn(k))
          /\ Cardinality(Workers(k)) \in Nat /\ Cardinality(OpenOn(k)) \in Nat
        BY HeldIs DEF FileInv
    <3>2. X(k) \in SUBSET OpenOn(k) /\ X(k) \subseteq {p} \X Hids
        BY <1>6 DEF OpenOn
    <3>3. IsFiniteSet(X(k)) /\ Cardinality(X(k)) \in Nat
        BY <3>1, <3>2, FS_Subset, FS_CardinalityType
    <3>4. IsFiniteSet(Y) /\ Cardinality(Y) = Cardinality(X(k))
      <4> DEFINE Z == X(k)
      <4>1. \A y : y \in Y <=> \E x \in Z : y = <<c, x[2]>>
          OBVIOUS
      <4>2. IsFiniteSet(Z) /\ Z \subseteq {p} \X Hids
          BY <3>2, <3>3
      <4> HIDE DEF Y, Z
      <4>3. IsFiniteSet(Y) /\ Cardinality(Y) = Cardinality(Z)
          BY <4>1, <4>2, Copied
      <4>4. QED BY <4>3 DEF Z
    <3>5. OpenOn(k)' = OpenOn(k) \cup Y
      <4>1. \A h \in copies : h \in Y <=> handles[<<p, h[2]>>].nk = k
          BY <1>6, <1>7
      <4>2. Y \subseteq copies
          OBVIOUS
      <4>3. OpenOn(k)' = {h \in DOMAIN handles' : handles'[h].nk = k}
          BY DEF OpenOn
      <4> HIDE DEF Y, copies
      <4>4. QED BY <1>8, <4>1, <4>2, <4>3 DEF OpenOn
    <3>6. OpenOn(k) \cap Y = {}
      <4>1. \A h \in OpenOn(k) : h[1] # c
          BY <1>6 DEF OpenOn
      <4>2. \A h \in Y : h[1] = c
          OBVIOUS
      <4> HIDE DEF Y
      <4>3. QED BY <4>1, <4>2
    <3>7. Workers(k)' = IF k = cwds[p] THEN Workers(k) \cup {c} ELSE Workers(k)
        BY <1>1, <1>10 DEF Workers
    <3>8. c \notin Workers(k)
        BY <1>1 DEF Workers
    <3> HIDE DEF Y
    <3>9. Cardinality(OpenOn(k)') = Cardinality(OpenOn(k)) + Cardinality(X(k))
      <4>1. Cardinality(OpenOn(k) \cup Y)
              = Cardinality(OpenOn(k)) + Cardinality(Y) - Cardinality(OpenOn(k) \cap Y)
          BY <3>1, <3>4, FS_Union
      <4>2. Cardinality(OpenOn(k) \cap Y) = 0
          BY <3>6, FS_EmptySet
      <4> HIDE DEF X
      <4>3. QED BY <3>1, <3>3, <3>4, <3>5, <4>1, <4>2
    <3>10. Cardinality(Workers(k)') = Cardinality(Workers(k)) + (IF cwds[p] = k THEN 1 ELSE 0)
      <4>1. Cardinality(Workers(k) \cup {c}) = Cardinality(Workers(k)) + 1
          BY <3>1, <3>8, FS_AddElement
      <4>2. QED BY <3>1, <3>7, <4>1
    <3>11. RefsTo(FS!State, k) = Cardinality(Workers(k)) + Cardinality(OpenOn(k))
        BY DEF FileInv, Counted, Held
    <3>12. RefsTo(FS!State, k)' = RefsTo(FS!State, k) + (Cardinality(X(k)) + (IF cwds[p] = k THEN 1 ELSE 0))
        BY <1>4, <1>5
    <3>13. Held(k)' = Cardinality(Workers(k)') + Cardinality(OpenOn(k)')
        BY DEF Held
    <3> HIDE DEF X
    <3>14. QED BY <3>1, <3>3, <3>9, <3>10, <3>11, <3>12, <3>13
  <2>2. \A h \in DOMAIN handles' : pst'[h[1]] # "free"
    <3>1. \A h \in DOMAIN handles : h[1] \in Procs
        BY <1>6 DEF Pos
    <3>2. QED BY <1>6, <1>7, <1>8, <1>10, <3>1 DEF FileInv, Counted
  <2>3. QED BY <2>1, <2>2 DEF Counted
<1>15. QueuesRight'
  <2>1. \A k \in DOMAIN nodeRefs : bwq[k] \subseteq Threads
      BY FileOps DEF FileInv, FileTypes, IsKeyMap
  <2>2. QED BY <1>1, <1>5, <1>10, <1>11, <2>1 DEF FileInv, QueuesRight, FS!IsFile, FS!Exists
<1>16. FS!HeldNodesExist'
  <2>1. \A x \in Procs : pst'[x] # "free" => FS!IsDir(cwds'[x])
      BY <1>2, <1>10 DEF FileInv, FS!HeldNodesExist
  <2>2. \A h \in DOMAIN handles' : /\ FS!IsFile(handles'[h].nk)
                                    /\ handles'[h].pos <= tree[handles'[h].nk].size
      BY <1>6, <1>7, <1>8 DEF FileInv, FS!HeldNodesExist, FS!SizeOf
  <2>3. QED BY <1>1, <2>1, <2>2 DEF FS!HeldNodesExist, FS!SizeOf, FS!IsFile, FS!IsDir, FS!Exists
<1>17. ASSUME AtEnd PROVE AtEnd'
  <2>1. ~down /\ \A x \in Threads : tst[x] = "waiting" =>
                    ctx[x] \in DOMAIN handles /\ x \in bwq[handles[ctx[x]].nk]
      BY <1>17, FileOps DEF AtEnd, FS!WaitersAreAtTheEnd
  <2>2. \A x \in Threads : tst'[x] = "waiting" => tst[x] = "waiting"
      BY <1>10
  <2>3. QED BY <1>1, <1>5, <1>8, <1>17, <2>1, <2>2, StillAtEnd
<1>18. QED BY <1>12, <1>13, <1>14, <1>15, <1>16, <1>17 DEF FileInv

-----------------------------------------------------------------------------
(* Files: every step, and the theorems *)

LEMMA FileStep ==
    ASSUME FileInv, FS!FileNext
    PROVE  FileInv' /\ (~Sharing /\ AtEnd => AtEnd')
<1> USE FileOps
<1>1. ASSUME NEW th \in Threads, NEW d, FS!SetWd(th, d)
      PROVE  FileInv' /\ (~Sharing /\ AtEnd => AtEnd')
    BY <1>1, FileSetWd
<1>2. ASSUME NEW th \in Threads, NEW d, NEW name \in Names, NEW dir \in BOOLEAN,
             FS!NewPath(th, d, name, dir)
      PROVE  FileInv' /\ (~Sharing /\ AtEnd => AtEnd')
    BY <1>2, FileNewPath
<1>3. ASSUME NEW th \in Threads, NEW d, NEW name, FS!RemovePath(th, d, name)
      PROVE  FileInv' /\ (~Sharing /\ AtEnd => AtEnd')
    BY <1>3, FileRemovePath
<1>4. ASSUME NEW th \in Threads, NEW f, NEW h \in Pos, FS!Open(th, f, h)
      PROVE  FileInv' /\ (~Sharing /\ AtEnd => AtEnd')
    BY <1>4, FileOpen
<1>5. ASSUME NEW th \in Threads, NEW h \in Pos,
             FS!Close(th, h) \/ FS!Write(th, h) \/ FS!Read(th, h) \/ FS!WaitRead(th, h)
      PROVE  FileInv' /\ (~Sharing /\ AtEnd => AtEnd')
    BY <1>5, FileClose, FileWrite, FileRead, FileWaitRead
<1>6. ASSUME NEW th \in Threads, NEW h \in Pos, NEW to \in 0 .. MaxSize, FS!Seek(th, h, to)
      PROVE  FileInv' /\ (~Sharing /\ AtEnd => AtEnd')
    BY <1>6, FileSeek
<1>7. ASSUME NEW th \in Threads, NEW u \in Threads, FS!Spawns(th, u),
             UNCHANGED <<tree, nodeRefs, bwq, cwds, handles, ctx, down>>
      PROVE  FileInv' /\ (~Sharing /\ AtEnd => AtEnd')
    BY <1>7, FileSpawn
<1>8. ASSUME NEW th \in Threads, NEW c \in Procs, FS!Fork(th, c)
      PROVE  FileInv' /\ (~Sharing /\ AtEnd => AtEnd')
    BY <1>8, FileFork
<1>9. ASSUME NEW th \in Threads, NEW kept, FS!Exec(th, kept)
      PROVE  FileInv' /\ (~Sharing /\ AtEnd => AtEnd')
    BY <1>9, FileExec
<1>10. ASSUME NEW th \in Threads, FS!Exit(th)
      PROVE  FileInv' /\ (~Sharing /\ AtEnd => AtEnd')
    BY <1>10, FileExit
<1>11. ASSUME NEW p \in Procs, FS!Reap(p)
      PROVE  FileInv' /\ (~Sharing /\ AtEnd => AtEnd')
    BY <1>11, FileReap
<1>12. TRUE \in BOOLEAN /\ FALSE \in BOOLEAN
    OBVIOUS
<1>13. QED
  <2>1. CASE \E p \in Procs : FS!Reap(p)
      BY <1>11, <2>1
  <2>2. ASSUME NEW th \in Threads,
          \/ \E d \in FS!Exists : FS!SetWd(th, d)
          \/ \E d \in FS!Exists, name \in Names :
                \/ FS!NewPath(th, d, name, TRUE) \/ FS!NewPath(th, d, name, FALSE)
                \/ FS!RemovePath(th, d, name)
          \/ \E h \in Pos :
                \/ \E f \in FS!Exists : FS!Open(th, f, h)
                \/ FS!Close(th, h) \/ FS!Write(th, h) \/ FS!Read(th, h) \/ FS!WaitRead(th, h)
                \/ \E to \in 0 .. MaxSize : FS!Seek(th, h, to)
          \/ \E u \in Threads : /\ ~down /\ FS!Spawns(th, u)
                                /\ UNCHANGED <<tree, nodeRefs, bwq, cwds, handles, ctx, down>>
          \/ \E c \in Procs : FS!Fork(th, c)
          \/ \E kept : FS!Exec(th, kept)
          \/ FS!Exit(th)
        PROVE  FileInv' /\ (~Sharing /\ AtEnd => AtEnd')
      BY <1>1, <1>2, <1>3, <1>4, <1>5, <1>6, <1>7, <1>8, <1>9, <1>10, <1>12, <2>2
  <2>3. QED BY <2>1, <2>2 DEF FS!FileNext, FS!Sizes, Pos

FilePart == part = "files" => FileInv
FileAtEnd == part = "files" => AtEnd

LEMMA FilesUntouched ==
    ASSUME FileInv, UNCHANGED <<pst, tst, main, fsVars>>
    PROVE  FileInv' /\ (AtEnd => AtEnd')
<1>1. UNCHANGED <<pst, tst, tree, nodeRefs, bwq, cwds, handles, ctx, down>>
    BY DEF fsVars
<1>2. TreeTypes' /\ \A k \in DOMAIN nodeRefs : k \in DOMAIN tree => k \in DOMAIN tree' /\ tree'[k] = tree[k]
    BY <1>1 DEF FileInv, FileTypes, TreeTypes
<1>3. QED BY <1>1, <1>2, FileTreeMoves

LEMMA FilePartStep ==
    ASSUME FilePart, [Next]_vars
    PROVE  FilePart' /\ (~Sharing /\ FileAtEnd => FileAtEnd')
<1>1. part' = part
    BY DEF Next, vars
<1>2. CASE part = "files"
  <2>1. FS!FileNext \/ UNCHANGED <<pst, tst, main, fsVars>>
      BY <1>2 DEF Next, vars
  <2>2. FileInv
      BY <1>2 DEF FilePart
  <2>3. FileInv' /\ (~Sharing /\ AtEnd => AtEnd')
      BY <2>1, <2>2, FileStep, FilesUntouched
  <2>4. QED BY <1>1, <1>2, <2>3 DEF FilePart, FileAtEnd
<1>3. QED BY <1>1, <1>2 DEF FilePart, FileAtEnd

(* A node that is worked in or open is referenced as often as it is used,  *)
(* by processes and handles, and stays, whatever is removed, forked,       *)
(* replaced or reaped (plugin_fs.c).                                       *)
THEOREM UsedNodesAreKept == Spec => []UsedNodesStay
<1>1. Init => FilePart
    BY FilesInit DEF Init, FilePart
<1>2. FilePart /\ [Next]_vars => FilePart'
    BY FilePartStep
<1>3. FilePart => UsedNodesStay
    BY FileInvIsRight DEF FilePart, UsedNodesStay
<1>4. QED BY <1>1, <1>2, <1>3, PTL DEF Spec

(* With one thread to a handle, whoever waits for a file to grow has read  *)
(* all of it, and the check of positions never shuts the system down       *)
(* (plugin_fs.c).                                                          *)
THEOREM WaitersStayAtTheEnd ==
    ASSUME ~Sharing
    PROVE  Spec => []WaitersAreAtTheEnd
<1>1. Init => FilePart /\ FileAtEnd
    BY FilesInit DEF Init, FilePart, FileAtEnd
<1>2. FilePart /\ FileAtEnd /\ [Next]_vars => FilePart' /\ FileAtEnd'
    BY FilePartStep
<1>3. FileAtEnd => WaitersAreAtTheEnd
    BY DEF FileAtEnd, AtEnd, WaitersAreAtTheEnd
<1>4. QED BY <1>1, <1>2, <1>3, PTL DEF Spec

-----------------------------------------------------------------------------
(* Windows: what a call on the window of one tile does to a desk *)

WinOrNobody == Win \cup {W!Nobody}

WinRec == [active : BOOLEAN, refs : Nat, kind : {"none", "term", "gfx"}, focused : BOOLEAN,
           hidden : BOOLEAN, size : {"own", "tile", "whole"}, n : Nat]

Desks == [grid : [W!Tile -> WinOrNobody], focus : W!Tile, single : BOOLEAN, win : [Win -> WinRec]]

(* A window is in one tile, if any, and that while it is active; and while *)
(* it is not needed there is none.                                         *)
SoundDesk(d) ==
    /\ d \in Desks
    /\ \A t, u \in W!Tile : d.grid[t] # W!Nobody /\ d.grid[t] = d.grid[u] => t = u
    /\ \A w \in Win : W!InGrid(d, w) <=> d.win[w].active
    /\ \A w \in Win : d.win[w] # W!Gone => d.win[w].refs > 0 \/ d.win[w].active

(* What the window of a tile, if it has one, was told.                     *)
Shows(d, t, focused, hidden, size) ==
    d.grid[t] # W!Nobody =>
        /\ d.win[d.grid[t]].focused = focused /\ d.win[d.grid[t]].hidden = hidden
        /\ d.win[d.grid[t]].size \in {"own", size}

(* A call keeps the references; and of a window that is referenced, the    *)
(* events, and if it ends its life, it leaves an event that says so.       *)
KeepsWindow(d, e, w) ==
    /\ e.win[w].refs = d.win[w].refs
    /\ e.win[w].active => d.win[w].active
    /\ d.win[w].refs > 0 =>
         /\ d.win[w].n > 0 => e.win[w].n > 0
         /\ d.win[w].active => e.win[w].active \/ e.win[w].n > 0

Keeps(d, e) == \A w \in Win : KeepsWindow(d, e, w)

OnlyTile(d, e, t) ==
    /\ e.grid[t] \in {d.grid[t], W!Nobody}
    /\ \A u \in W!Tile : u # t =>
          e.grid[u] = d.grid[u] /\ (d.grid[u] # W!Nobody => e.win[d.grid[u]] = d.win[d.grid[u]])

Tells(d, e, t) ==
    SoundDesk(e) /\ e.focus = d.focus /\ e.single = d.single /\ Keeps(d, e) /\ OnlyTile(d, e, t)

(* w is the window of tile t; or it was before it ended its life.          *)
Holds(d, t, w) == d.grid[t] = w
At(d, w, t) == d.grid[t] \in {w, W!Nobody} /\ \A u \in W!Tile : d.grid[u] = w /\ w \in Win => u = t

LEMMA WindowFacts ==
    /\ W!Nobody \notin Win /\ EqCap \in Nat /\ EqCap > 0
    /\ W!Gone \in WinRec /\ W!Gone.refs = 0 /\ W!Gone.active = FALSE /\ W!Gone.n = 0
    /\ \A r \in WinRec : r = [active |-> r.active, refs |-> r.refs, kind |-> r.kind,
          focused |-> r.focused, hidden |-> r.hidden, size |-> r.size, n |-> r.n]
<1>1. W!Gone \in WinRec /\ W!Gone.refs = 0 /\ W!Gone.active = FALSE /\ W!Gone.n = 0
    BY DEF W!Gone, WinRec
<1>2. QED BY <1>1, WindowsAssumption DEF WinRec

LEMMA QueuedIs ==
    ASSUME NEW r \in WinRec
    PROVE  /\ W!Queued(r) \in WinRec /\ W!Queued(r).n > 0
           /\ W!Queued(r).active = r.active /\ W!Queued(r).refs = r.refs
           /\ W!Queued(r).focused = r.focused /\ W!Queued(r).hidden = r.hidden
           /\ W!Queued(r).size = r.size /\ W!Queued(r).kind = r.kind
<1> DEFINE m == IF r.n < EqCap THEN r.n + 1 ELSE r.n
<1>1. W!Queued(r) = [r EXCEPT !.n = m]
    BY DEF W!Queued
<1>2. m \in Nat /\ m > 0
    BY WindowFacts DEF WinRec
<1> HIDE DEF m
<1>3. QED BY <1>1, <1>2 DEF WinRec

LEMMA TellsTwice ==
    ASSUME NEW a, NEW b, NEW c, NEW t \in W!Tile, SoundDesk(a), Tells(a, b, t), Tells(b, c, t)
    PROVE  Tells(a, c, t)
<1>1. \A w \in Win : a.win[w].refs \in Nat
    BY DEF SoundDesk, Desks, WinRec
<1>2. QED BY <1>1 DEF Tells, Keeps, KeepsWindow, OnlyTile

LEMMA TellsNothing ==
    ASSUME NEW d, SoundDesk(d), NEW t \in W!Tile
    PROVE  Tells(d, d, t)
BY DEF Tells, Keeps, KeepsWindow, OnlyTile

(* Of a desk one window's record changes, and that window stays active.    *)
LEMMA RecordChanges ==
    ASSUME NEW d, SoundDesk(d), NEW t \in W!Tile, NEW w \in Win, Holds(d, t, w),
           NEW r \in WinRec, r.active = d.win[w].active, r.refs = d.win[w].refs,
           d.win[w].n > 0 => r.n > 0
    PROVE  /\ Tells(d, [d EXCEPT !.win[w] = r], t)
           /\ [d EXCEPT !.win[w] = r].grid = d.grid /\ [d EXCEPT !.win[w] = r].win[w] = r
<1> DEFINE e == [d EXCEPT !.win[w] = r]
<1>1. d \in Desks
    BY DEF SoundDesk
<1>2. /\ e.grid = d.grid /\ e.focus = d.focus /\ e.single = d.single
      /\ e.win = [d.win EXCEPT ![w] = r] /\ e \in Desks
    BY <1>1 DEF Desks
<1> HIDE DEF e
<1>3. e.win[w] = r /\ \A x \in Win : x # w => e.win[x] = d.win[x]
    BY <1>1, <1>2 DEF Desks
<1>4. d.win[w].active /\ d.grid[t] = w
    BY DEF SoundDesk, W!InGrid, Holds
<1>5. SoundDesk(e)
  <2>1. \A x \in Win : W!InGrid(e, x) <=> W!InGrid(d, x)
      BY <1>2 DEF W!InGrid
  <2>2. \A x \in Win : e.win[x].active = d.win[x].active
      BY <1>3
  <2>3. \A t1, u \in W!Tile : e.grid[t1] # W!Nobody /\ e.grid[t1] = e.grid[u] => t1 = u
      BY <1>2 DEF SoundDesk
  <2>4. \A x \in Win : W!InGrid(e, x) <=> e.win[x].active
      BY <2>1, <2>2, Zenon DEF SoundDesk
  <2>5. \A x \in Win : e.win[x] # W!Gone => e.win[x].refs > 0 \/ e.win[x].active
      BY <1>3, <1>4, <2>2 DEF SoundDesk
  <2>6. QED BY <1>2, <2>3, <2>4, <2>5 DEF SoundDesk
<1>6. Keeps(d, e)
    BY <1>2, <1>3, <1>4 DEF Keeps, KeepsWindow
<1>7. OnlyTile(d, e, t)
    BY <1>1, <1>2, <1>3, <1>4 DEF OnlyTile, SoundDesk, Desks, WinOrNobody
<1>8. QED BY <1>2, <1>3, <1>5, <1>6, <1>7 DEF Tells, e

(* A window that is, or was, at t is told something.                       *)
LEMMA Forwarding ==
    ASSUME NEW d, SoundDesk(d), NEW t \in W!Tile, NEW w \in WinOrNobody, At(d, w, t),
           NEW r, w \in Win => /\ r \in WinRec /\ r.active = d.win[w].active
                               /\ r.refs = d.win[w].refs
    PROVE  /\ Tells(d, W!Forward(d, w, r), t) /\ At(W!Forward(d, w, r), w, t)
           /\ W!Forward(d, w, r).grid = d.grid
           /\ d.grid[t] # W!Nobody => /\ w \in Win /\ w = d.grid[t]
                                      /\ W!Forward(d, w, r).win[w] = W!Queued(r)
<1>1. CASE d.grid[t] = W!Nobody
  <2>1. W!Forward(d, w, r) = d
    <3>1. CASE w = W!Nobody
        BY <3>1 DEF W!Forward
    <3>2. CASE w # W!Nobody
      <4>1. w \in Win
          BY <3>2 DEF WinOrNobody
      <4>2. ~W!InGrid(d, w)
          BY <1>1, <3>2, <4>1 DEF At, W!InGrid
      <4>3. QED BY <4>2 DEF W!Forward
    <3>3. QED BY <3>1, <3>2
  <2>2. QED BY <1>1, <2>1, TellsNothing
<1>2. CASE d.grid[t] # W!Nobody
  <2>1. w = d.grid[t] /\ w \in Win
      BY <1>2 DEF At, WinOrNobody
  <2>2. r \in WinRec /\ r.active = d.win[w].active /\ r.refs = d.win[w].refs
      BY <2>1
  <2>3. /\ W!Queued(r) \in WinRec /\ W!Queued(r).n > 0
        /\ W!Queued(r).active = d.win[w].active /\ W!Queued(r).refs = d.win[w].refs
      BY <2>2, QueuedIs
  <2>4. W!Forward(d, w, r) = [d EXCEPT !.win[w] = W!Queued(r)]
      BY <1>2, <2>1 DEF W!Forward, W!InGrid
  <2>5. Tells(d, W!Forward(d, w, r), t) /\ W!Forward(d, w, r).grid = d.grid
        /\ W!Forward(d, w, r).win[w] = W!Queued(r)
      BY <2>1, <2>3, <2>4, RecordChanges DEF Holds
  <2>6. QED BY <2>1, <2>5 DEF At
<1>3. QED BY <1>1, <1>2

LEMMA Focusing ==
    ASSUME NEW d, SoundDesk(d), NEW t \in W!Tile, NEW w \in WinOrNobody, At(d, w, t),
           NEW b \in BOOLEAN, NEW f, NEW h, NEW z, Shows(d, t, f, h, z)
    PROVE  /\ Tells(d, W!Focused(d, w, b), t) /\ At(W!Focused(d, w, b), w, t)
           /\ Shows(W!Focused(d, w, b), t, b, h, z)
<1> DEFINE r == [d.win[w] EXCEPT !.focused = b]
<1>1. w \in Win => /\ r \in WinRec /\ r.active = d.win[w].active /\ r.refs = d.win[w].refs
                   /\ r.focused = b /\ r.hidden = d.win[w].hidden /\ r.size = d.win[w].size
    BY DEF SoundDesk, Desks, WinRec
<1>2. W!Focused(d, w, b) = W!Forward(d, w, r)
    BY DEF W!Focused
<1> HIDE DEF r
<1>3. /\ Tells(d, W!Forward(d, w, r), t) /\ At(W!Forward(d, w, r), w, t)
      /\ W!Forward(d, w, r).grid = d.grid
      /\ d.grid[t] # W!Nobody => /\ w \in Win /\ w = d.grid[t]
                                 /\ W!Forward(d, w, r).win[w] = W!Queued(r)
    BY <1>1, Forwarding
<1>4. w \in Win => W!Queued(r).focused = b /\ W!Queued(r).hidden = d.win[w].hidden
                   /\ W!Queued(r).size = d.win[w].size
    BY <1>1, QueuedIs
<1>5. QED BY <1>2, <1>3, <1>4 DEF Shows

LEMMA Hiding ==
    ASSUME NEW d, SoundDesk(d), NEW t \in W!Tile, NEW w \in WinOrNobody, At(d, w, t),
           NEW b \in BOOLEAN, NEW f, NEW h, NEW z, Shows(d, t, f, h, z)
    PROVE  /\ Tells(d, W!Hidden(d, w, b), t) /\ At(W!Hidden(d, w, b), w, t)
           /\ Shows(W!Hidden(d, w, b), t, f, b, z)
<1> DEFINE r == [d.win[w] EXCEPT !.hidden = b]
<1>1. w \in Win => /\ r \in WinRec /\ r.active = d.win[w].active /\ r.refs = d.win[w].refs
                   /\ r.hidden = b /\ r.focused = d.win[w].focused /\ r.size = d.win[w].size
    BY DEF SoundDesk, Desks, WinRec
<1>2. W!Hidden(d, w, b) = W!Forward(d, w, r)
    BY DEF W!Hidden
<1> HIDE DEF r
<1>3. /\ Tells(d, W!Forward(d, w, r), t) /\ At(W!Forward(d, w, r), w, t)
      /\ W!Forward(d, w, r).grid = d.grid
      /\ d.grid[t] # W!Nobody => /\ w \in Win /\ w = d.grid[t]
                                 /\ W!Forward(d, w, r).win[w] = W!Queued(r)
    BY <1>1, Forwarding
<1>4. w \in Win => W!Queued(r).hidden = b /\ W!Queued(r).focused = d.win[w].focused
                   /\ W!Queued(r).size = d.win[w].size
    BY <1>1, QueuedIs
<1>5. QED BY <1>2, <1>3, <1>4 DEF Shows

LEMMA Inputting ==
    ASSUME NEW d, SoundDesk(d), NEW t \in W!Tile, NEW f, NEW h, NEW z, Shows(d, t, f, h, z)
    PROVE  LET e == W!KeyInput(d, d.grid[t]) IN Tells(d, e, t) /\ Shows(e, t, f, h, z)
<1> DEFINE w == d.grid[t]
           r == d.win[w]
<1>1. w \in WinOrNobody /\ At(d, w, t)
    BY WindowFacts DEF SoundDesk, Desks, At, WinOrNobody
<1>2. w \in Win => r \in WinRec
    BY DEF SoundDesk, Desks
<1>3. W!KeyInput(d, w) = W!Forward(d, w, r)
    BY DEF W!KeyInput
<1>4. d.grid[t] = w
    OBVIOUS
<1> HIDE DEF w
<1>5. /\ Tells(d, W!Forward(d, w, r), t) /\ W!Forward(d, w, r).grid = d.grid
      /\ d.grid[t] # W!Nobody => /\ w \in Win /\ w = d.grid[t]
                                 /\ W!Forward(d, w, r).win[w] = W!Queued(r)
    BY <1>1, <1>2, Forwarding
<1>6. w \in Win => W!Queued(r).hidden = r.hidden /\ W!Queued(r).focused = r.focused
                   /\ W!Queued(r).size = r.size
    BY <1>2, QueuedIs
<1>7. QED BY <1>3, <1>4, <1>5, <1>6 DEF Shows, w

(* A window is deregistered, if it has not been: it is in no tile then,    *)
(* and either referenced or deleted.                                       *)
LEMMA LettingGo ==
    ASSUME NEW d, SoundDesk(d), NEW t \in W!Tile, NEW w \in Win, At(d, w, t)
    PROVE  /\ Tells(d, W!Deregister(d, w), t) /\ At(W!Deregister(d, w), w, t)
           /\ W!Deregister(d, w).grid[t] = W!Nobody
           /\ ~W!Deregister(d, w).win[w].active
<1> DEFINE e == W!Deregister(d, w)
           r == [d.win[w] EXCEPT !.active = FALSE]
           g == [u \in W!Tile |-> IF d.grid[u] = w THEN W!Nobody ELSE d.grid[u]]
           new == IF d.win[w].refs = 0 THEN W!Gone ELSE W!Queued(r)
<1>1. d \in Desks /\ w # W!Nobody
    BY WindowFacts DEF SoundDesk
<1>2. /\ r \in WinRec /\ r.active = FALSE /\ r.refs = d.win[w].refs /\ r.n = d.win[w].n
    BY <1>1 DEF Desks, WinRec
<1>3. e = [d EXCEPT !.grid = g, !.win[w] = new]
    BY DEF W!Deregister
<1> HIDE DEF e, r
<1>4. /\ new \in WinRec /\ new.active = FALSE /\ new.refs = d.win[w].refs
      /\ new.refs > 0 => new.n > 0
      /\ new.refs = 0 => new = W!Gone
  <2>1. CASE d.win[w].refs = 0
      BY <2>1, WindowFacts
  <2>2. CASE d.win[w].refs # 0
      BY <1>2, <2>2, QueuedIs
  <2>3. QED BY <2>1, <2>2
<1>5. /\ g \in [W!Tile -> WinOrNobody]
      /\ \A u \in W!Tile : g[u] = IF d.grid[u] = w THEN W!Nobody ELSE d.grid[u]
    BY <1>1 DEF Desks, WinOrNobody
<1> HIDE DEF g, new
<1>6. /\ e.grid = g /\ e.focus = d.focus /\ e.single = d.single
      /\ e.win = [d.win EXCEPT ![w] = new] /\ e \in Desks
    BY <1>1, <1>3, <1>4, <1>5 DEF Desks
<1>7. e.win[w] = new /\ \A x \in Win : x # w => e.win[x] = d.win[x]
    BY <1>1, <1>6 DEF Desks
<1>8. \A u \in W!Tile : d.grid[u] = w => u = t
    BY DEF At
<1>9. g[t] = W!Nobody
    BY <1>5 DEF At
<1>10. SoundDesk(e)
  <2>1. \A x \in Win : W!InGrid(e, x) <=> x # w /\ W!InGrid(d, x)
      BY <1>1, <1>5, <1>6, WindowFacts DEF W!InGrid
  <2>2. \A t1, u \in W!Tile : e.grid[t1] # W!Nobody /\ e.grid[t1] = e.grid[u] => t1 = u
      BY <1>5, <1>6 DEF SoundDesk
  <2>3. \A x \in Win : W!InGrid(e, x) <=> e.win[x].active
      BY <1>4, <1>7, <2>1 DEF SoundDesk
  <2>4. \A x \in Win : e.win[x] # W!Gone => e.win[x].refs > 0 \/ e.win[x].active
      BY <1>4, <1>7 DEF SoundDesk, WinRec
  <2>5. QED BY <1>6, <2>2, <2>3, <2>4 DEF SoundDesk
<1>11. Keeps(d, e)
    BY <1>4, <1>6, <1>7 DEF Keeps, KeepsWindow
<1>12. OnlyTile(d, e, t)
  <2>1. ASSUME NEW u \in W!Tile, u # t
        PROVE  e.grid[u] = d.grid[u] /\ (d.grid[u] # W!Nobody => e.win[d.grid[u]] = d.win[d.grid[u]])
    <3>1. d.grid[u] # w /\ e.grid[u] = d.grid[u]
        BY <1>5, <1>6, <1>8, <2>1
    <3>2. d.grid[u] \in WinOrNobody
        BY <1>1 DEF Desks
    <3>3. QED BY <1>7, <3>1, <3>2 DEF WinOrNobody
  <2>2. QED BY <1>6, <1>9, <2>1 DEF OnlyTile
<1>13. At(e, w, t)
    BY <1>1, <1>5, <1>6, <1>9 DEF At
<1>14. QED BY <1>4, <1>6, <1>7, <1>9, <1>10, <1>11, <1>12, <1>13 DEF Tells, e

(* win_resize of a window, by its outcomes.                                *)
LEMMA ResizedNoBuffer ==
    ASSUME NEW d, SoundDesk(d), NEW t \in W!Tile, NEW w \in Win, Holds(d, t, w),
           NEW size \in {"tile", "whole"}
    PROVE  LET e == W!Resize(d, w, size, "no buffer") IN
           /\ Tells(d, e, t) /\ e.grid = d.grid
           /\ e.win[w].focused = d.win[w].focused /\ e.win[w].hidden = d.win[w].hidden
           /\ e.win[w].size = "own"
<1> DEFINE r == [d.win[w] EXCEPT !.size = "own"]
           e == W!Resize(d, w, size, "no buffer")
<1>1. d.win[w] \in WinRec
    BY DEF SoundDesk, Desks
<1>2. /\ r \in WinRec /\ r.active = d.win[w].active /\ r.refs = d.win[w].refs /\ r.n = d.win[w].n
      /\ r.focused = d.win[w].focused /\ r.hidden = d.win[w].hidden /\ r.size = "own"
    BY <1>1 DEF WinRec
<1>3. e = [d EXCEPT !.win[w] = r]
    BY WindowFacts DEF W!Resize
<1> HIDE DEF r, e
<1>4. Tells(d, [d EXCEPT !.win[w] = r], t) /\ [d EXCEPT !.win[w] = r].grid = d.grid
      /\ [d EXCEPT !.win[w] = r].win[w] = r
    BY <1>2, RecordChanges
<1>5. QED BY <1>2, <1>3, <1>4 DEF e

LEMMA ResizedDone ==
    ASSUME NEW d, SoundDesk(d), NEW t \in W!Tile, NEW w \in Win, Holds(d, t, w),
           NEW size \in {"tile", "whole"}
    PROVE  LET e == W!Resize(d, w, size, "done") IN
           /\ Tells(d, e, t) /\ e.grid = d.grid
           /\ e.win[w].focused = d.win[w].focused /\ e.win[w].hidden = d.win[w].hidden
           /\ e.win[w].size = size
<1> DEFINE r == [d.win[w] EXCEPT !.size = size]
           e == W!Resize(d, w, size, "done")
<1>1. d.win[w] \in WinRec /\ w \in WinOrNobody /\ w # W!Nobody /\ d.grid[t] = w
    BY WindowFacts DEF SoundDesk, Desks, WinOrNobody, Holds
<1>2. At(d, w, t)
    BY <1>1 DEF SoundDesk, At, Holds
<1>3. /\ r \in WinRec /\ r.active = d.win[w].active /\ r.refs = d.win[w].refs
      /\ r.focused = d.win[w].focused /\ r.hidden = d.win[w].hidden /\ r.size = size
    BY <1>1 DEF WinRec
<1>4. e = W!Forward(d, w, r)
    BY <1>1 DEF W!Resize
<1> HIDE DEF r, e
<1>5. Tells(d, W!Forward(d, w, r), t) /\ W!Forward(d, w, r).grid = d.grid
      /\ (d.grid[t] # W!Nobody => W!Forward(d, w, r).win[w] = W!Queued(r))
    BY <1>1, <1>2, <1>3, Forwarding
<1>6. W!Queued(r).hidden = r.hidden /\ W!Queued(r).focused = r.focused /\ W!Queued(r).size = size
    BY <1>3, QueuedIs
<1>7. QED BY <1>1, <1>3, <1>4, <1>5, <1>6 DEF e

LEMMA Resizing ==
    ASSUME NEW d, SoundDesk(d), NEW t \in W!Tile, NEW w \in WinOrNobody, Holds(d, t, w),
           NEW size \in {"tile", "whole"}, NEW how \in {"done", "no buffer", "no cells"},
           NEW f, NEW h, NEW z, Shows(d, t, f, h, z)
    PROVE  /\ Tells(d, W!Resize(d, w, size, how), t) /\ At(W!Resize(d, w, size, how), w, t)
           /\ Shows(W!Resize(d, w, size, how), t, f, h, size)
<1> DEFINE e == W!Resize(d, w, size, how)
<1>1. At(d, w, t)
    BY WindowFacts DEF SoundDesk, At, Holds
<1>2. w # W!Nobody => w \in Win /\ d.win[w].focused = f /\ d.win[w].hidden = h
    BY DEF WinOrNobody, Shows, Holds
<1>3. CASE w = W!Nobody
  <2>1. e = d
      BY <1>3 DEF W!Resize
  <2>2. QED BY <1>1, <1>3, <2>1, TellsNothing DEF Shows, Holds
<1>4. CASE w # W!Nobody /\ how = "no buffer"
  <2>1. /\ Tells(d, e, t) /\ e.grid = d.grid
        /\ e.win[w].focused = f /\ e.win[w].hidden = h /\ e.win[w].size = "own"
      BY <1>2, <1>4, ResizedNoBuffer, ZenonT(60)
  <2> HIDE DEF e
  <2>2. QED BY <1>1, <2>1 DEF Shows, At, e, Holds
<1>5. CASE w # W!Nobody /\ how = "no cells"
  <2>1. e = W!Deregister(d, w)
      BY <1>5 DEF W!Resize
  <2> HIDE DEF e
  <2>2. Tells(d, e, t) /\ At(e, w, t) /\ e.grid[t] = W!Nobody
      BY <1>1, <1>2, <1>5, <2>1, LettingGo
  <2>3. QED BY <2>2 DEF Shows, e
<1>6. CASE w # W!Nobody /\ how = "done"
  <2>1. /\ Tells(d, e, t) /\ e.grid = d.grid
        /\ e.win[w].focused = f /\ e.win[w].hidden = h /\ e.win[w].size = size
      BY <1>2, <1>6, ResizedDone
  <2> HIDE DEF e
  <2>2. QED BY <1>1, <2>1 DEF Shows, At, e, Holds
<1>7. QED BY <1>3, <1>4, <1>5, <1>6

(* What is shown in the other tiles is as it was.                          *)
LEMMA ShownElsewhere ==
    ASSUME NEW d, NEW e, NEW t \in W!Tile, NEW u \in W!Tile, u # t, OnlyTile(d, e, t),
           NEW f, NEW h, NEW z
    PROVE  /\ Shows(d, u, f, h, z) => Shows(e, u, f, h, z)
           /\ e.grid[u] = d.grid[u]
BY DEF OnlyTile, Shows

-----------------------------------------------------------------------------
(* Windows: what the user asks for *)

(* What a window in a tile of a desk at rest was told.                     *)
ShownIn(d, t) ==
    Shows(d, t, t = d.focus, d.single /\ t # d.focus,
          IF t = d.focus THEN W!FocusSize(d) ELSE "tile")

AtRest(d) == SoundDesk(d) /\ \A t \in W!Tile : ShownIn(d, t)

Leads(d, e) == AtRest(e) /\ Keeps(d, e)

LEMMA KeyLeads ==
    ASSUME NEW d, AtRest(d)
    PROVE  Leads(d, W!KeyInput(d, d.grid[d.focus]))
<1> DEFINE e == W!KeyInput(d, d.grid[d.focus])
           t == d.focus
<1>1. t \in W!Tile /\ SoundDesk(d)
    BY DEF AtRest, SoundDesk, Desks
<1>2. Shows(d, t, TRUE, FALSE, W!FocusSize(d))
    BY <1>1 DEF AtRest, ShownIn, Shows
<1>3. Tells(d, e, t) /\ Shows(e, t, TRUE, FALSE, W!FocusSize(d))
    BY <1>1, <1>2, Inputting
<1> HIDE DEF e
<1>4. e.focus = t /\ e.single = d.single
    BY <1>3 DEF Tells
<1>5. ASSUME NEW u \in W!Tile PROVE ShownIn(e, u)
  <2>1. CASE u = t
      BY <1>3, <1>4, <2>1 DEF ShownIn, Shows, W!FocusSize
  <2>2. CASE u # t
    <3>1. ShownIn(d, u) /\ OnlyTile(d, e, t)
        BY <1>3 DEF AtRest, Tells
    <3>2. QED BY <1>1, <1>4, <2>2, <3>1, ShownElsewhere DEF ShownIn
  <2>3. QED BY <2>1, <2>2
<1>6. QED BY <1>3, <1>5 DEF Leads, AtRest, Tells, e

LEMMA CloseLeads ==
    ASSUME NEW d, AtRest(d), d.grid[d.focus] # W!Nobody
    PROVE  Leads(d, W!Deregister(d, d.grid[d.focus]))
<1> DEFINE e == W!Deregister(d, d.grid[d.focus])
           t == d.focus
           w == d.grid[t]
<1>1. t \in W!Tile /\ SoundDesk(d) /\ w \in Win
    BY DEF AtRest, SoundDesk, Desks, WinOrNobody
<1>2. At(d, w, t)
    BY <1>1 DEF At, SoundDesk
<1>3. Tells(d, e, t) /\ e.grid[t] = W!Nobody
    BY <1>1, <1>2, LettingGo
<1> HIDE DEF e
<1>4. e.focus = t /\ e.single = d.single
    BY <1>3 DEF Tells
<1>5. ASSUME NEW u \in W!Tile PROVE ShownIn(e, u)
  <2>1. CASE u = t
      BY <1>3, <2>1 DEF ShownIn, Shows
  <2>2. CASE u # t
    <3>1. ShownIn(d, u) /\ OnlyTile(d, e, t)
        BY <1>3 DEF AtRest, Tells
    <3>2. QED BY <1>1, <1>4, <2>2, <3>1, ShownElsewhere DEF ShownIn
  <2>3. QED BY <2>1, <2>2
<1>6. QED BY <1>3, <1>5 DEF Leads, AtRest, Tells, e

LEMMA KeepsTwice ==
    ASSUME NEW a, NEW b, NEW c, a \in Desks, Keeps(a, b), Keeps(b, c)
    PROVE  Keeps(a, c)
<1>1. \A w \in Win : a.win[w].refs \in Nat
    BY DEF Desks, WinRec
<1>2. QED BY <1>1 DEF Keeps, KeepsWindow

LEMMA AtElsewhere ==
    ASSUME NEW d, NEW e, NEW t \in W!Tile, NEW u \in W!Tile, u # t, OnlyTile(d, e, t), NEW w, At(d, w, u)
    PROVE  At(e, w, u)
BY WindowFacts DEF OnlyTile, At

(* The two tiles of a move of the focus, one after the other: first the    *)
(* one that is left is resized and hidden, then the other is shown.        *)
LEMMA ResizedAndHidden ==
    ASSUME NEW d, SoundDesk(d), NEW t \in W!Tile, NEW w \in WinOrNobody, Holds(d, t, w),
           NEW size \in {"tile", "whole"}, NEW how \in {"done", "no buffer", "no cells"},
           NEW b \in BOOLEAN, NEW f, NEW h, NEW z, Shows(d, t, f, h, z)
    PROVE  LET e == W!Hidden(W!Resize(d, w, size, how), w, b) IN
           Tells(d, e, t) /\ At(e, w, t) /\ Shows(e, t, f, b, size)
<1> DEFINE c == W!Resize(d, w, size, how)
           e == W!Hidden(c, w, b)
<1>1. Tells(d, c, t) /\ At(c, w, t) /\ Shows(c, t, f, h, size)
    BY Resizing
<1> HIDE DEF c
<1>2. SoundDesk(c)
    BY <1>1 DEF Tells
<1>3. Tells(c, e, t) /\ At(e, w, t) /\ Shows(e, t, f, b, size)
    BY <1>1, <1>2, Hiding
<1> HIDE DEF e
<1>4. Tells(d, e, t)
    BY <1>1, <1>3, TellsTwice
<1>5. QED BY <1>3, <1>4 DEF e, c

LEMMA HoldsWindow ==
    ASSUME NEW d, SoundDesk(d), NEW t \in W!Tile
    PROVE  d.grid[t] \in WinOrNobody /\ Holds(d, t, d.grid[t]) /\ At(d, d.grid[t], t)
BY WindowFacts DEF SoundDesk, Desks, Holds, At

LEMMA SameWindows ==
    ASSUME NEW d, SoundDesk(d), NEW e, e \in Desks, e.grid = d.grid, e.win = d.win
    PROVE  SoundDesk(e) /\ Keeps(d, e)
<1>1. \A w \in Win : W!InGrid(e, w) <=> W!InGrid(d, w)
    BY DEF W!InGrid
<1>2. Keeps(d, e)
    BY DEF Keeps, KeepsWindow
<1>3. \A w \in Win : W!InGrid(e, w) <=> e.win[w].active
    BY <1>1, Zenon DEF SoundDesk
<1>4. QED BY <1>2, <1>3 DEF SoundDesk

FocusLeads(d, e, t) ==
    /\ Leads(d, e) /\ e.focus = t /\ e.single = d.single
    /\ d.grid[t] = W!Nobody => e.grid[t] = W!Nobody

LEMMA SetFocusLeads ==
    ASSUME NEW d, AtRest(d), NEW t \in W!Tile,
           NEW how1 \in {"done", "no buffer", "no cells"},
           NEW how2 \in {"done", "no buffer", "no cells"}
    PROVE  FocusLeads(d, W!SetFocus(d, t, how1, how2), t)
<1> DEFINE s  == d.focus
           a  == d.grid[s]
           b  == d.grid[t]
           d1 == IF d.single THEN W!Hidden(W!Resize(d, a, "tile", how1), a, TRUE) ELSE d
           d2 == IF d.single THEN W!Hidden(W!Resize(d1, b, "whole", how2), b, FALSE) ELSE d1
           d3 == W!Focused(d2, a, FALSE)
           d4 == W!Focused(d3, b, TRUE)
           e  == [d4 EXCEPT !.focus = t]
<1>1. s \in W!Tile /\ SoundDesk(d) /\ d \in Desks /\ d.single \in BOOLEAN
    BY DEF AtRest, SoundDesk, Desks
<1>2. CASE t = s
  <2>1. W!SetFocus(d, t, how1, how2) = d
      BY <1>2 DEF W!SetFocus
  <2>2. QED BY <1>2, <2>1 DEF FocusLeads, Leads, Keeps, KeepsWindow
<1>3. CASE t # s
  <2>1. W!SetFocus(d, t, how1, how2) = e
      BY <1>3 DEF W!SetFocus
  <2>2. Shows(d, s, TRUE, FALSE, W!FocusSize(d)) /\ Shows(d, t, FALSE, d.single, "tile")
    <3>1. ShownIn(d, s) /\ ShownIn(d, t)
        BY <1>1 DEF AtRest
    <3>2. QED BY <1>1, <1>3, <3>1 DEF ShownIn, Shows
  <2>3. /\ a \in WinOrNobody /\ Holds(d, s, a) /\ At(d, a, s)
        /\ b \in WinOrNobody /\ Holds(d, t, b) /\ At(d, b, t)
      BY <1>1, HoldsWindow
  <2> HIDE DEF a, b
  <2>4. Tells(d, d1, s) /\ At(d1, a, s) /\ Shows(d1, s, TRUE, d.single, "tile")
    <3>1. CASE d.single
      <4>1. d1 = W!Hidden(W!Resize(d, a, "tile", how1), a, TRUE) /\ d.single = TRUE
          BY <1>1, <3>1
      <4> HIDE DEF d1
      <4>2. QED BY <1>1, <2>2, <2>3, <4>1, ResizedAndHidden
    <3>2. CASE ~d.single
      <4>1. d1 = d /\ W!FocusSize(d) = "tile"
          BY <3>2 DEF W!FocusSize
      <4>2. d.single = FALSE
          BY <1>1, <3>2
      <4> HIDE DEF d1
      <4>3. QED BY <1>1, <2>2, <2>3, <4>1, <4>2, TellsNothing
    <3>3. QED BY <3>1, <3>2
  <2> HIDE DEF d1
  <2>5. SoundDesk(d1) /\ d1.focus = s /\ d1.single = d.single /\ OnlyTile(d, d1, s)
      BY <2>4 DEF Tells
  <2>6. Shows(d1, t, FALSE, d.single, "tile") /\ Holds(d1, t, b) /\ At(d1, b, t)
    <3>1. At(d1, b, t)
        BY <1>1, <1>3, <2>3, <2>5, AtElsewhere
    <3>2. QED BY <1>1, <1>3, <2>2, <2>3, <2>5, <3>1, ShownElsewhere DEF Holds
  <2>7. Tells(d1, d2, t) /\ At(d2, b, t) /\ Shows(d2, t, FALSE, FALSE, W!FocusSize(d))
    <3>1. CASE d.single
      <4>1. W!FocusSize(d) = "whole"
          BY <3>1 DEF W!FocusSize
      <4>2. d2 = W!Hidden(W!Resize(d1, b, "whole", how2), b, FALSE)
          BY <3>1
      <4> HIDE DEF d2
      <4>3. QED BY <2>3, <2>5, <2>6, <4>1, <4>2, ResizedAndHidden
    <3>2. CASE ~d.single
      <4>1. d2 = d1 /\ W!FocusSize(d) = "tile"
          BY <3>2 DEF W!FocusSize
      <4>2. d.single = FALSE
          BY <1>1, <3>2
      <4> HIDE DEF d2
      <4>3. QED BY <2>5, <2>6, <4>1, <4>2, TellsNothing
    <3>3. QED BY <3>1, <3>2
  <2> HIDE DEF d2
  <2>8. SoundDesk(d2) /\ d2.focus = s /\ d2.single = d.single /\ OnlyTile(d1, d2, t)
      BY <2>5, <2>7 DEF Tells
  <2>9. At(d2, a, s) /\ Shows(d2, s, TRUE, d.single, "tile")
      BY <1>1, <1>3, <2>4, <2>8, AtElsewhere, ShownElsewhere
  <2>10. Tells(d2, d3, s) /\ Shows(d3, s, FALSE, d.single, "tile")
      BY <1>1, <2>3, <2>8, <2>9, Focusing
  <2> HIDE DEF d3
  <2>11. SoundDesk(d3) /\ d3.focus = s /\ d3.single = d.single /\ OnlyTile(d2, d3, s)
      BY <2>8, <2>10 DEF Tells
  <2>12. At(d3, b, t) /\ Shows(d3, t, FALSE, FALSE, W!FocusSize(d))
      BY <1>1, <1>3, <2>7, <2>11, AtElsewhere, ShownElsewhere
  <2>13. Tells(d3, d4, t) /\ Shows(d4, t, TRUE, FALSE, W!FocusSize(d))
      BY <2>3, <2>11, <2>12, Focusing
  <2> HIDE DEF d4
  <2>14. SoundDesk(d4) /\ d4.focus = s /\ d4.single = d.single /\ OnlyTile(d3, d4, t)
      BY <2>11, <2>13 DEF Tells
  <2>15. Shows(d4, s, FALSE, d.single, "tile")
      BY <1>1, <1>3, <2>10, <2>14, ShownElsewhere
  <2>16. Keeps(d, d4)
    <3>1. Keeps(d, d1) /\ Keeps(d1, d2) /\ Keeps(d2, d3) /\ Keeps(d3, d4)
        BY <2>4, <2>7, <2>10, <2>13 DEF Tells
    <3>2. Keeps(d, d2)
        BY <1>1, <3>1, KeepsTwice
    <3>3. Keeps(d, d3)
        BY <1>1, <3>1, <3>2, KeepsTwice
    <3>4. QED BY <1>1, <3>1, <3>3, KeepsTwice
  <2>17. /\ e.grid = d4.grid /\ e.win = d4.win /\ e.single = d4.single /\ e.focus = t /\ e \in Desks
      BY <2>14 DEF SoundDesk, Desks
  <2> HIDE DEF e
  <2>18. SoundDesk(e) /\ Keeps(d, e) /\ W!FocusSize(e) = W!FocusSize(d)
    <3>1. SoundDesk(e)
        BY <2>14, <2>17, SameWindows
    <3>2. Keeps(d, e)
        BY <2>16, <2>17 DEF Keeps, KeepsWindow
    <3>3. W!FocusSize(e) = W!FocusSize(d)
        BY <2>14, <2>17 DEF W!FocusSize
    <3>4. QED BY <3>1, <3>2, <3>3
  <2>19. d.grid[t] = W!Nobody => e.grid[t] = W!Nobody
    <3>1. d1.grid[t] = d.grid[t] /\ d3.grid[t] = d2.grid[t]
        BY <1>3, <2>5, <2>11 DEF OnlyTile
    <3>2. d2.grid[t] \in {d1.grid[t], W!Nobody} /\ d4.grid[t] \in {d3.grid[t], W!Nobody}
        BY <2>8, <2>14 DEF OnlyTile
    <3>3. QED BY <2>17, <3>1, <3>2
  <2>20. ASSUME NEW u \in W!Tile PROVE ShownIn(e, u)
    <3>1. CASE u = t
        BY <2>13, <2>17, <2>18, <3>1 DEF ShownIn, Shows
    <3>2. CASE u = s
      <4>1. Shows(e, s, FALSE, d.single, "tile")
          BY <2>15, <2>17 DEF Shows
      <4>2. QED BY <1>1, <1>3, <2>14, <2>17, <3>2, <4>1 DEF ShownIn, Shows
    <3>3. CASE u # s /\ u # t
      <4>1. Shows(d, u, FALSE, d.single, "tile")
          BY <1>1, <3>3 DEF AtRest, ShownIn, Shows
      <4>2. Shows(d1, u, FALSE, d.single, "tile")
          BY <1>1, <2>5, <3>3, <4>1, ShownElsewhere
      <4>3. Shows(d2, u, FALSE, d.single, "tile")
          BY <2>8, <3>3, <4>2, ShownElsewhere
      <4>4. Shows(d3, u, FALSE, d.single, "tile")
          BY <1>1, <2>11, <3>3, <4>3, ShownElsewhere
      <4>5. Shows(d4, u, FALSE, d.single, "tile")
          BY <2>14, <3>3, <4>4, ShownElsewhere
      <4>6. QED BY <1>1, <2>14, <2>17, <3>3, <4>5 DEF ShownIn, Shows
    <3>4. QED BY <3>1, <3>2, <3>3
  <2>21. QED BY <2>1, <2>14, <2>17, <2>18, <2>19, <2>20 DEF FocusLeads, Leads, AtRest, e
<1>4. QED BY <1>2, <1>3

LEMMA MoveLeads ==
    ASSUME NEW d, AtRest(d), NEW t \in W!Tile
    PROVE  Leads(d, W!MovePane(d, t))
<1> DEFINE s == d.focus
           e == W!MovePane(d, t)
           From(u) == IF u = s THEN t ELSE IF u = t THEN s ELSE u
<1>1. s \in W!Tile /\ SoundDesk(d) /\ d \in Desks
    BY DEF AtRest, SoundDesk, Desks
<1>2. \A u \in W!Tile : From(u) \in W!Tile /\ From(From(u)) = u /\ (From(u) = s <=> u = t)
    BY <1>1
<1>3. e = [d EXCEPT !.grid = [d.grid EXCEPT ![t] = d.grid[s], ![s] = d.grid[t]], !.focus = t]
    BY DEF W!MovePane
<1> HIDE DEF s, e
<1>4. /\ e.grid = [d.grid EXCEPT ![t] = d.grid[s], ![s] = d.grid[t]]
      /\ e.win = d.win /\ e.single = d.single /\ e.focus = t /\ e \in Desks
    BY <1>1, <1>3 DEF Desks
<1>5. \A u \in W!Tile : e.grid[u] = d.grid[From(u)]
    BY <1>1, <1>4 DEF Desks
<1> HIDE DEF From
<1>6. \A w \in Win : W!InGrid(e, w) <=> W!InGrid(d, w)
    BY <1>2, <1>5 DEF W!InGrid
<1>7. SoundDesk(e)
  <2>1. \A u, v \in W!Tile : e.grid[u] # W!Nobody /\ e.grid[u] = e.grid[v] => u = v
      BY <1>1, <1>2, <1>5 DEF SoundDesk
  <2>2. \A w \in Win : W!InGrid(e, w) <=> e.win[w].active
      BY <1>1, <1>4, <1>6, Zenon DEF SoundDesk
  <2>3. QED BY <1>1, <1>4, <2>1, <2>2 DEF SoundDesk
<1>8. Keeps(d, e) /\ W!FocusSize(e) = W!FocusSize(d)
    BY <1>4 DEF Keeps, KeepsWindow, W!FocusSize
<1>9. ASSUME NEW u \in W!Tile PROVE ShownIn(e, u)
  <2>1. ShownIn(d, From(u)) /\ From(u) \in W!Tile /\ (From(u) = d.focus <=> u = e.focus)
      BY <1>2, <1>4 DEF AtRest, s
  <2>2. QED BY <1>4, <1>5, <1>8, <2>1 DEF ShownIn, Shows
<1>10. QED BY <1>7, <1>8, <1>9 DEF Leads, AtRest, e

LEMMA ToggleLeads ==
    ASSUME NEW d, AtRest(d), NEW how \in {"done", "no buffer", "no cells"}
    PROVE  Leads(d, W!Toggle(d, how))
<1> DEFINE s == d.focus
           c == [d EXCEPT !.single = ~d.single]
           r == W!Resize(c, c.grid[c.focus], W!FocusSize(c), how)
           told == [w \in Win |-> IF W!InGrid(r, w) /\ w # r.grid[r.focus]
                                  THEN W!Queued([r.win[w] EXCEPT !.hidden = r.single])
                                  ELSE r.win[w]]
           e == [r EXCEPT !.win = told]
<1>1. s \in W!Tile /\ SoundDesk(d) /\ d \in Desks /\ d.single \in BOOLEAN
    BY DEF AtRest, SoundDesk, Desks
<1>2. W!Toggle(d, how) = e
    BY DEF W!Toggle
<1>3. c.grid = d.grid /\ c.win = d.win /\ c.focus = s /\ c.single = ~d.single /\ c \in Desks
    BY <1>1 DEF Desks
<1> HIDE DEF c
<1>4. SoundDesk(c) /\ Keeps(d, c)
    BY <1>1, <1>3, SameWindows
<1>5. Shows(c, s, TRUE, FALSE, W!FocusSize(d)) /\ W!FocusSize(c) \in {"tile", "whole"}
  <2>1. ShownIn(d, s)
      BY <1>1 DEF AtRest
  <2>2. QED BY <1>3, <2>1 DEF ShownIn, Shows, W!FocusSize
<1>6. c.grid[s] \in WinOrNobody /\ Holds(c, s, c.grid[s])
    BY <1>1, <1>4, HoldsWindow
<1>7. Tells(c, r, s) /\ Shows(r, s, TRUE, FALSE, W!FocusSize(c))
  <2> DEFINE w == c.grid[s]
  <2>1. r = W!Resize(c, w, W!FocusSize(c), how)
      BY <1>3
  <2>2. w \in WinOrNobody /\ Holds(c, s, w)
      BY <1>6
  <2> HIDE DEF r, w
  <2>3. QED BY <1>1, <1>4, <1>5, <2>1, <2>2, Resizing
<1> HIDE DEF r
<1>8. /\ SoundDesk(r) /\ r.focus = s /\ r.single = c.single /\ OnlyTile(c, r, s) /\ Keeps(c, r)
      /\ r \in Desks /\ r.single \in BOOLEAN
    BY <1>3, <1>7 DEF Tells, SoundDesk, Desks
<1>9. ASSUME NEW w \in Win
      PROVE  /\ told[w] \in WinRec /\ told[w].refs = r.win[w].refs
             /\ told[w].active = r.win[w].active /\ (r.win[w].n > 0 => told[w].n > 0)
             /\ told[w].focused = r.win[w].focused /\ told[w].size = r.win[w].size
             /\ W!InGrid(r, w) /\ w # r.grid[s] => told[w].hidden = r.single
             /\ w = r.grid[s] => told[w].hidden = r.win[w].hidden
  <2> DEFINE q == [r.win[w] EXCEPT !.hidden = r.single]
  <2>1. r.win[w] \in WinRec
      BY <1>8 DEF Desks
  <2>2. /\ q \in WinRec /\ q.refs = r.win[w].refs /\ q.active = r.win[w].active
        /\ q.focused = r.win[w].focused /\ q.size = r.win[w].size /\ q.hidden = r.single
      BY <1>8, <2>1 DEF WinRec
  <2>3. told[w] = IF W!InGrid(r, w) /\ w # r.grid[s] THEN W!Queued(q) ELSE r.win[w]
      BY <1>8
  <2> HIDE DEF q, told
  <2>4. /\ W!Queued(q) \in WinRec /\ W!Queued(q).n > 0
        /\ W!Queued(q).active = q.active /\ W!Queued(q).refs = q.refs
        /\ W!Queued(q).focused = q.focused /\ W!Queued(q).hidden = q.hidden
        /\ W!Queued(q).size = q.size
      BY <2>2, QueuedIs
  <2>5. QED BY <2>1, <2>2, <2>3, <2>4
<1>10. told \in [Win -> WinRec]
  <2>1. told = [w \in Win |-> told[w]]
      OBVIOUS
  <2> HIDE DEF told
  <2>2. QED BY <1>9, <2>1
<1> HIDE DEF told
<1>11. e.grid = r.grid /\ e.win = told /\ e.focus = s /\ e.single = r.single /\ e \in Desks
    BY <1>8, <1>10 DEF Desks
<1> HIDE DEF e
<1>12. SoundDesk(e)
  <2>1. \A w \in Win : W!InGrid(e, w) <=> W!InGrid(r, w)
      BY <1>11 DEF W!InGrid
  <2>2. \A w \in Win : W!InGrid(e, w) <=> e.win[w].active
      BY <1>8, <1>9, <1>11, <2>1 DEF SoundDesk
  <2>3. \A w \in Win : e.win[w] # W!Gone => e.win[w].refs > 0 \/ e.win[w].active
    <3>1. SUFFICES ASSUME NEW w \in Win, ~(told[w].refs > 0 \/ told[w].active)
                   PROVE  told[w] = W!Gone
        BY <1>11
    <3>2. r.win[w] = W!Gone /\ ~W!InGrid(r, w)
        BY <1>8, <1>9, <3>1 DEF SoundDesk
    <3>3. QED BY <3>2 DEF told
  <2>4. QED BY <1>8, <1>11, <2>2, <2>3 DEF SoundDesk
<1>13. Keeps(d, e)
  <2>1. Keeps(r, e)
      BY <1>9, <1>11 DEF Keeps, KeepsWindow
  <2>2. Keeps(d, r)
      BY <1>1, <1>4, <1>8, KeepsTwice
  <2>3. QED BY <1>1, <2>1, <2>2, KeepsTwice
<1>14. W!FocusSize(e) = W!FocusSize(c)
    BY <1>8, <1>11 DEF W!FocusSize
<1>15. ASSUME NEW u \in W!Tile, e.grid[u] # W!Nobody PROVE ShownIn(e, u)
  <2> DEFINE w == r.grid[u]
  <2>1. w \in Win /\ W!InGrid(r, w) /\ (w = r.grid[s] <=> u = s)
    <3>1. r.grid[u] \in WinOrNobody /\ r.grid[u] # W!Nobody
        BY <1>8, <1>11, <1>15 DEF Desks
    <3>2. w \in Win /\ W!InGrid(r, w)
        BY <3>1 DEF WinOrNobody, W!InGrid
    <3>3. r.grid[u] = r.grid[s] => u = s
        BY <1>1, <1>8, <3>1 DEF SoundDesk
    <3>4. QED BY <3>2, <3>3
  <2>2. e.grid[u] = w /\ e.win[w] = told[w] /\ w # W!Nobody
      BY <1>11, <1>15
  <2>3. CASE u = s
    <3>1. /\ r.win[w].focused = TRUE /\ r.win[w].hidden = FALSE
          /\ r.win[w].size \in {"own", W!FocusSize(c)}
        BY <1>7, <2>2, <2>3 DEF Shows
    <3>2. w = r.grid[s]
        BY <2>1, <2>3
    <3> HIDE DEF w
    <3>3. /\ told[w].focused = TRUE /\ told[w].hidden = FALSE
          /\ told[w].size \in {"own", W!FocusSize(e)}
        BY <1>9, <1>14, <2>1, <3>1, <3>2
    <3>4. QED BY <1>11, <2>2, <2>3, <3>3 DEF ShownIn, Shows
  <2>4. CASE u # s
    <3>1. ShownIn(d, u) /\ c.grid[u] = d.grid[u] /\ r.grid[u] = c.grid[u]
          /\ r.win[w] = c.win[w]
        BY <1>1, <1>3, <1>8, <2>2, <2>4 DEF AtRest, OnlyTile
    <3>2. r.win[w].focused = FALSE /\ r.win[w].size \in {"own", "tile"}
        BY <1>3, <2>2, <2>4, <3>1 DEF ShownIn, Shows
    <3> HIDE DEF w
    <3>3. /\ told[w].focused = FALSE /\ told[w].hidden = r.single
          /\ told[w].size \in {"own", "tile"}
        BY <1>9, <2>1, <2>4, <3>2
    <3>4. QED BY <1>8, <1>11, <2>2, <2>4, <3>3 DEF ShownIn, Shows
  <2>5. QED BY <2>3, <2>4
<1>16. \A u \in W!Tile : ShownIn(e, u)
    BY <1>15 DEF ShownIn, Shows
<1>17. QED BY <1>2, <1>12, <1>13, <1>16 DEF Leads, AtRest

-----------------------------------------------------------------------------
(* Windows: a window is made, in the first free tile *)

LEMMA FirstIsFree ==
    ASSUME NEW d, W!FreeTiles(d) # {}
    PROVE  W!FirstFree(d) \in W!Tile /\ d.grid[W!FirstFree(d)] = W!Nobody
<1> DEFINE Rank(t) == t[1] * Cols + t[2]
           free == W!FreeTiles(d)
           N == {Rank(t) : t \in free}
<1>1. free \subseteq W!Tile
    BY DEF W!FreeTiles
<1>2. \A t \in W!Tile : Rank(t) \in Nat
  <2>1. SUFFICES ASSUME NEW t \in W!Tile PROVE Rank(t) \in Nat
      OBVIOUS
  <2>2. t[1] \in Nat /\ t[2] \in Nat /\ Cols \in Nat
      BY WindowsAssumption DEF W!Tile
  <2>3. \A i, j \in Nat : i * j \in Nat
      OBVIOUS
  <2>4. t[1] * Cols \in Nat
      BY <2>2, <2>3
  <2>5. QED BY <2>2, <2>4
<1> HIDE DEF Rank, free
<1>3. N \subseteq Nat /\ N # {}
    BY <1>1, <1>2 DEF free
<1>4. \E n \in N : \A m \in N : n <= m
    BY <1>3, LeastNat
<1>5. \E t \in free : \A u \in free : Rank(t) <= Rank(u)
    BY <1>4
<1>6. W!FirstFree(d) = CHOOSE t \in free : \A u \in free : Rank(t) <= Rank(u)
    BY DEF W!FirstFree, free, Rank
<1>7. W!FirstFree(d) \in free
    BY <1>5, <1>6
<1>8. QED BY <1>1, <1>7 DEF free, W!FreeTiles

(* Of the others, the call keeps the references.                           *)
KeepsOthers(d, e, w) == \A x \in Win : x # w => KeepsWindow(d, e, x)

LEMMA KeepsOthersTwice ==
    ASSUME NEW a, NEW b, NEW c, a \in Desks, NEW w, KeepsOthers(a, b, w), KeepsOthers(b, c, w)
    PROVE  KeepsOthers(a, c, w)
<1>1. \A x \in Win : a.win[x].refs \in Nat
    BY DEF Desks, WinRec
<1>2. QED BY <1>1 DEF KeepsOthers, KeepsWindow

(* The new window is in its tile, which has the focus.                     *)
LEMMA Placed ==
    ASSUME NEW d, AtRest(d), d.grid[d.focus] = W!Nobody,
           NEW w \in Win, ~d.win[w].active, NEW kind \in {"term", "gfx"}
    PROVE  LET e == [d EXCEPT !.grid[d.focus] = w, !.win[w] = W!New(kind)] IN
           /\ SoundDesk(e) /\ e.focus = d.focus /\ e.single = d.single
           /\ Holds(e, d.focus, w) /\ Shows(e, d.focus, FALSE, TRUE, "own")
           /\ e.win[w].refs = 1 /\ KeepsOthers(d, e, w)
           /\ \A u \in W!Tile : u # d.focus => ShownIn(e, u)
<1> DEFINE t == d.focus
           new == W!New(kind)
           e == [d EXCEPT !.grid[t] = w, !.win[w] = new]
<1>1. SoundDesk(d) /\ d \in Desks /\ t \in W!Tile /\ w # W!Nobody
    BY WindowFacts DEF AtRest, SoundDesk, Desks
<1>2. /\ new \in WinRec /\ new.active /\ new.refs = 1 /\ new.focused = FALSE
      /\ new.hidden = TRUE /\ new.size = "own"
    BY DEF W!New, W!Gone, WinRec
<1>3. \A u \in W!Tile : d.grid[u] # w
    BY <1>1 DEF SoundDesk, W!InGrid
<1> HIDE DEF new
<1>4. e = [d EXCEPT !.grid = [d.grid EXCEPT ![t] = w], !.win = [d.win EXCEPT ![w] = new]]
    OBVIOUS
<1>e. d.grid[t] = W!Nobody /\ d.focus = t
    OBVIOUS
<1> HIDE DEF t, e
<1>5. /\ e.grid = [d.grid EXCEPT ![t] = w] /\ e.win = [d.win EXCEPT ![w] = new]
      /\ e.focus = d.focus /\ e.single = d.single
    BY <1>1, <1>4 DEF Desks
<1>6. e.grid[t] = w /\ \A u \in W!Tile : u # t => e.grid[u] = d.grid[u]
    BY <1>1, <1>5 DEF Desks
<1>7. e.win[w] = new /\ \A x \in Win : x # w => e.win[x] = d.win[x]
    BY <1>1, <1>5 DEF Desks
<1>8. e \in Desks
  <2>1. [d.grid EXCEPT ![t] = w] \in [W!Tile -> WinOrNobody]
      BY <1>1 DEF Desks, WinOrNobody
  <2>2. [d.win EXCEPT ![w] = new] \in [Win -> WinRec]
      BY <1>1, <1>2 DEF Desks
  <2>3. QED BY <1>1, <1>4, <2>1, <2>2 DEF Desks
<1>9. SoundDesk(e)
  <2>1. \A u, v \in W!Tile : e.grid[u] # W!Nobody /\ e.grid[u] = e.grid[v] => u = v
      BY <1>1, <1>3, <1>6 DEF SoundDesk
  <2>3. \A x \in Win : W!InGrid(e, x) <=> x = w \/ W!InGrid(d, x)
      BY <1>1, <1>6, <1>e, WindowFacts DEF W!InGrid
  <2>4. \A x \in Win : W!InGrid(e, x) <=> e.win[x].active
      BY <1>1, <1>2, <1>7, <2>3 DEF SoundDesk
  <2>5. \A x \in Win : e.win[x] # W!Gone => e.win[x].refs > 0 \/ e.win[x].active
      BY <1>1, <1>2, <1>7 DEF SoundDesk
  <2>6. QED BY <1>8, <2>1, <2>4, <2>5 DEF SoundDesk
<1>10. KeepsOthers(d, e, w)
    BY <1>7 DEF KeepsOthers, KeepsWindow
<1>11. Shows(e, t, FALSE, TRUE, "own")
    BY <1>2, <1>6, <1>7 DEF Shows
<1>12. ASSUME NEW u \in W!Tile, u # t PROVE ShownIn(e, u)
  <2>1. ShownIn(d, u) /\ e.grid[u] = d.grid[u]
      BY <1>6, <1>12 DEF AtRest
  <2>2. e.grid[u] # W!Nobody => e.win[e.grid[u]] = d.win[e.grid[u]]
    <3>1. d.grid[u] \in WinOrNobody /\ d.grid[u] # w
        BY <1>1, <1>3 DEF Desks
    <3>2. QED BY <1>7, <2>1, <3>1 DEF WinOrNobody
  <2>3. QED BY <1>5, <1>e, <1>12, <2>1, <2>2 DEF ShownIn, Shows
<1>13. QED BY <1>2, <1>5, <1>6, <1>7, <1>9, <1>10, <1>11, <1>12 DEF e, new, t, Holds

Registers(d, e, w) ==
    AtRest(e) /\ At(e, w, e.focus) /\ e.win[w].refs = 1 /\ KeepsOthers(d, e, w)

LEMMA RegisterLeads ==
    ASSUME NEW d, AtRest(d), W!FreeTiles(d) # {}, NEW w \in Win, ~d.win[w].active,
           NEW kind \in {"term", "gfx"},
           NEW how1 \in {"done", "no buffer", "no cells"},
           NEW how2 \in {"done", "no buffer", "no cells"}
    PROVE  Registers(d, W!Register(d, w, kind, how1, how2), w)
<1> DEFINE t == W!FirstFree(d)
           c == W!SetFocus(d, t, how1, "done")
           e == [c EXCEPT !.grid[t] = w, !.win[w] = W!New(kind)]
           r == W!Resize(e, w, W!FocusSize(e), how2)
           h == W!Hidden(r, w, FALSE)
           f == W!Focused(h, w, TRUE)
<1>1. W!Register(d, w, kind, how1, how2) = f
    BY DEF W!Register
<1>2. t \in W!Tile /\ d.grid[t] = W!Nobody
    BY FirstIsFree
<1> HIDE DEF t
<1>3. Leads(d, c) /\ c.focus = t /\ c.grid[t] = W!Nobody
  <2>1. FocusLeads(d, c, t)
      BY <1>2, SetFocusLeads
  <2>2. QED BY <1>2, <2>1 DEF FocusLeads
<1> HIDE DEF c
<1>4. AtRest(c) /\ ~c.win[w].active /\ KeepsOthers(d, c, w) /\ d \in Desks
    BY <1>3 DEF Leads, Keeps, KeepsWindow, KeepsOthers, AtRest, SoundDesk
<1>5. /\ SoundDesk(e) /\ e.focus = t /\ e.single = c.single
      /\ Holds(e, t, w) /\ Shows(e, t, FALSE, TRUE, "own")
      /\ e.win[w].refs = 1 /\ KeepsOthers(c, e, w)
      /\ \A u \in W!Tile : u # t => ShownIn(e, u)
  <2>1. c.grid[c.focus] = W!Nobody /\ e = [c EXCEPT !.grid[c.focus] = w, !.win[w] = W!New(kind)]
      BY <1>3
  <2> HIDE DEF e
  <2>2. QED BY <1>3, <1>4, <2>1, Placed, ZenonT(60)
<1> HIDE DEF e
<1>6. w \in WinOrNobody /\ W!FocusSize(e) \in {"tile", "whole"}
    BY DEF WinOrNobody, W!FocusSize
<1>7. Tells(e, h, t) /\ At(h, w, t) /\ Shows(h, t, FALSE, FALSE, W!FocusSize(e))
    BY <1>2, <1>5, <1>6, ResizedAndHidden
<1> HIDE DEF h
<1>8. SoundDesk(h)
    BY <1>7 DEF Tells
<1>9. Tells(h, f, t) /\ At(f, w, t) /\ Shows(f, t, TRUE, FALSE, W!FocusSize(e))
    BY <1>2, <1>6, <1>7, <1>8, Focusing
<1> HIDE DEF f
<1>10. Tells(e, f, t)
    BY <1>2, <1>5, <1>7, <1>9, TellsTwice
<1>11. /\ SoundDesk(f) /\ f.focus = t /\ f.single = e.single /\ OnlyTile(e, f, t)
       /\ W!FocusSize(f) = W!FocusSize(e) /\ f.win[w].refs = 1 /\ KeepsOthers(e, f, w)
    BY <1>5, <1>10 DEF Tells, Keeps, KeepsWindow, KeepsOthers, W!FocusSize
<1>12. ASSUME NEW u \in W!Tile PROVE ShownIn(f, u)
  <2>1. CASE u = t
      BY <1>9, <1>11, <2>1 DEF ShownIn, Shows
  <2>2. CASE u # t
    <3>1. ShownIn(e, u)
        BY <1>5, <2>2
    <3>2. QED BY <1>2, <1>5, <1>11, <2>2, <3>1, ShownElsewhere DEF ShownIn
  <2>3. QED BY <2>1, <2>2
<1>13. KeepsOthers(d, f, w)
  <2>1. c \in Desks
      BY <1>4 DEF AtRest, SoundDesk
  <2>2. KeepsOthers(c, f, w)
      BY <1>5, <1>11, <2>1, KeepsOthersTwice
  <2>3. QED BY <1>4, <2>2, KeepsOthersTwice
<1>14. QED BY <1>1, <1>9, <1>11, <1>12, <1>13 DEF AtRest, Registers

(* It is taken back.                                                       *)
LEMMA TakenBack ==
    ASSUME NEW d, AtRest(d), NEW w \in Win, At(d, w, d.focus)
    PROVE  LET e == [W!Deregister(d, w) EXCEPT !.win[w] = W!Gone] IN
           AtRest(e) /\ e.win[w] = W!Gone /\ KeepsOthers(d, e, w)
<1> DEFINE t == d.focus
           c == W!Deregister(d, w)
           e == [c EXCEPT !.win[w] = W!Gone]
<1>1. t \in W!Tile /\ SoundDesk(d)
    BY DEF AtRest, SoundDesk, Desks
<1>2. /\ Tells(d, c, t) /\ At(c, w, t) /\ c.grid[t] = W!Nobody /\ ~c.win[w].active
    BY <1>1, LettingGo
<1> HIDE DEF c
<1>3. /\ SoundDesk(c) /\ c \in Desks /\ c.focus = t /\ c.single = d.single
      /\ OnlyTile(d, c, t) /\ Keeps(d, c)
    BY <1>2 DEF Tells, SoundDesk
<1>4. /\ e.grid = c.grid /\ e.win = [c.win EXCEPT ![w] = W!Gone] /\ e.focus = t
      /\ e.single = c.single /\ e \in Desks
    BY <1>3, WindowFacts DEF Desks
<1> HIDE DEF e
<1>5. e.win[w] = W!Gone /\ \A x \in Win : x # w => e.win[x] = c.win[x]
    BY <1>3, <1>4 DEF Desks
<1>6. ~W!InGrid(c, w)
    BY <1>2, <1>3 DEF SoundDesk
<1>7. SoundDesk(e)
  <2>1. \A x \in Win : W!InGrid(e, x) <=> W!InGrid(c, x)
      BY <1>4 DEF W!InGrid
  <2>2. \A x \in Win : W!InGrid(e, x) <=> e.win[x].active
      BY <1>3, <1>5, <1>6, <2>1, WindowFacts DEF SoundDesk
  <2>3. \A x \in Win : e.win[x] # W!Gone => e.win[x].refs > 0 \/ e.win[x].active
      BY <1>3, <1>5 DEF SoundDesk
  <2>4. QED BY <1>3, <1>4, <2>2, <2>3 DEF SoundDesk
<1>8. KeepsOthers(d, e, w)
    BY <1>3, <1>5 DEF Keeps, KeepsOthers, KeepsWindow
<1>9. ASSUME NEW u \in W!Tile PROVE ShownIn(e, u)
  <2>1. CASE u = t
      BY <1>2, <1>4, <2>1 DEF ShownIn, Shows
  <2>2. CASE u # t
    <3>1. ShownIn(d, u)
        BY DEF AtRest
    <3>2. ShownIn(c, u)
        BY <1>1, <1>3, <2>2, <3>1, ShownElsewhere DEF ShownIn
    <3>3. c.grid[u] # W!Nobody => c.grid[u] \in Win /\ c.grid[u] # w
        BY <1>3, <1>6 DEF Desks, WinOrNobody, W!InGrid
    <3>4. QED BY <1>3, <1>4, <1>5, <2>2, <3>2, <3>3 DEF ShownIn, Shows
  <2>3. QED BY <2>1, <2>2
<1>10. QED BY <1>5, <1>7, <1>8, <1>9 DEF AtRest, e, c

-----------------------------------------------------------------------------
(* Windows: the invariant *)

Opened(w) == {h \in Pos : hs[h] = w}

WinTypes ==
    /\ pst \in [Procs -> {"free", "live", "zombie"}]
    /\ tst \in [Threads -> {"none", "ready", "waiting", "detached"}]
    /\ hs \in [Pos -> WinOrNobody] /\ gfxWaitsOn \in [Threads -> WinOrNobody]

(* Whoever waits for events of a window has it open, and one will come.    *)
EventWaiter(th) ==
    tst[th] = "waiting" /\ gfxWaitsOn[th] \in Win =>
        /\ desk.win[gfxWaitsOn[th]].active /\ desk.win[gfxWaitsOn[th]].n = 0
        /\ \E h \in Pos : h[1] = th[1] /\ hs[h] = gfxWaitsOn[th]

WinInv ==
    /\ WinTypes /\ ThreadsAreOfLive /\ AtRest(desk)
    /\ \A w \in Win : desk.win[w].refs = Cardinality(Opened(w))
    /\ \A h \in Pos : hs[h] # W!Nobody => pst[h[1]] # "free"
    /\ gfxMisused \/ \A th \in Threads : EventWaiter(th)

DeskInv ==
    /\ hs \in [Pos -> WinOrNobody] /\ AtRest(desk)
    /\ \A w \in Win : desk.win[w].refs = Cardinality(Opened(w))

LEMMA WinOps ==
    /\ W!Handle = Pos /\ W!Thread = Threads
    /\ \A X : W!Cardinality(X) = Cardinality(X)
BY DEF W!Handle, Pos, W!Thread, Threads, W!Cardinality, Cardinality

LEMMA OpenedIs ==
    ASSUME NEW w
    PROVE  /\ IsFiniteSet(Opened(w)) /\ Cardinality(Opened(w)) \in Nat
           /\ Cardinality(Opened(w)) > 0 <=> \E h \in Pos : hs[h] = w
<1>1. IsFiniteSet(Pos)
    BY TablesAreFinite, FS_Product DEF Pos
<1>2. IsFiniteSet(Opened(w)) /\ Cardinality(Opened(w)) \in Nat
    BY <1>1, FS_Subset, FS_CardinalityType DEF Opened
<1>3. Cardinality(Opened(w)) = 0 <=> Opened(w) = {}
    BY <1>2, FS_EmptySet
<1>4. Opened(w) = {} <=> ~\E h \in Pos : hs[h] = w
    BY DEF Opened
<1>5. QED BY <1>2, <1>3, <1>4

LEMMA NoneOpened ==
    ASSUME NEW w, Cardinality(Opened(w)) = 0
    PROVE  \A h \in Pos : hs[h] # w
<1>1. ~(Cardinality(Opened(w)) > 0)
    OBVIOUS
<1>2. QED BY <1>1, OpenedIs

(* A window that stays without events has not ended its life.              *)
LEMMA StillAwaited ==
    ASSUME NEW d, NEW e, NEW w, KeepsWindow(d, e, w), d.win[w].active, d.win[w].refs > 0,
           e.win[w].n \in Nat, ~(e.win[w].n > 0)
    PROVE  e.win[w].active /\ e.win[w].n = 0
BY DEF KeepsWindow

LEMMA WinInvIsRight ==
    /\ DeskInv => W!WindowsKnowTheirPlace /\ W!WindowsLiveAsNeeded
    /\ WinInv => DeskInv /\ W!EventWaitersAreRight
<1>1. ASSUME DeskInv PROVE W!WindowsKnowTheirPlace
  <2>1. ASSUME NEW t \in W!Tile, desk.grid[t] # W!Nobody
        PROVE  desk.grid[t] \in Win /\ desk.win[desk.grid[t]].active
    <3>1. desk.grid[t] \in Win
        BY <1>1, <2>1 DEF DeskInv, AtRest, SoundDesk, Desks, WinOrNobody
    <3>2. QED BY <1>1, <3>1 DEF DeskInv, AtRest, SoundDesk, W!InGrid
  <2>2. ASSUME NEW t \in W!Tile, desk.grid[t] # W!Nobody
        PROVE  LET r == desk.win[desk.grid[t]] IN
               /\ r.focused = (t = desk.focus) /\ r.hidden = (desk.single /\ t # desk.focus)
               /\ r.size \in {"own", IF t = desk.focus THEN W!FocusSize(desk) ELSE "tile"}
      BY <1>1, <2>2 DEF DeskInv, AtRest, ShownIn, Shows
  <2>3. \A t, u \in W!Tile : desk.grid[t] # W!Nobody /\ desk.grid[u] = desk.grid[t] => u = t
      BY <1>1 DEF DeskInv, AtRest, SoundDesk
  <2>4. QED BY <2>1, <2>2, <2>3 DEF W!WindowsKnowTheirPlace
<1>2. ASSUME DeskInv PROVE W!WindowsLiveAsNeeded
  <2>1. \A w \in Win : Opened(w) = {h \in W!Handle : hs[h] = w}
      BY WinOps DEF Opened
  <2>2. ASSUME NEW w \in Win
        PROVE  desk.win[w].refs = W!Cardinality({h \in W!Handle : hs[h] = w})
      BY <1>2, <2>1, WinOps DEF DeskInv
  <2>3. QED BY <1>2, <2>2 DEF DeskInv, AtRest, SoundDesk, W!WindowsLiveAsNeeded
<1>3. ASSUME WinInv PROVE DeskInv /\ W!EventWaitersAreRight
  <2>1. DeskInv
      BY <1>3 DEF WinInv, DeskInv, WinTypes
  <2>2. ASSUME NEW w \in Win, NEW th \in W!Waiters(w), ~gfxMisused
        PROVE  /\ desk.win[w].active /\ desk.win[w].n = 0
               /\ \E h \in W!Handle : h[1] = th[1] /\ hs[h] = w
    <3>1. th \in Threads /\ tst[th] = "waiting" /\ gfxWaitsOn[th] = w
        BY WinOps DEF W!Waiters
    <3>2. QED BY <1>3, <2>2, <3>1, WinOps DEF WinInv, EventWaiter
  <2>3. QED BY <2>1, <2>2 DEF W!EventWaitersAreRight
<1>4. QED BY <1>1, <1>2, <1>3

LEMMA WinInit ==
    ASSUME Init
    PROVE  WinInv
<1> DEFINE g == [t \in W!Tile |-> W!Nobody]
           f == [w \in Win |-> W!Gone]
<1>1. /\ desk = [grid |-> g, focus |-> <<0, 0>>, single |-> FALSE, win |-> f]
      /\ hs = [h \in Pos |-> W!Nobody] /\ gfxWaitsOn = [th \in Threads |-> W!Nobody]
      /\ pst = [p \in Procs |-> IF p = First THEN "live" ELSE "free"]
      /\ tst = [th \in Threads |-> IF th = <<First, 0>> THEN "ready" ELSE "none"]
    BY WinOps DEF Init, W!Init, W!ProcessInit
<1>2. <<0, 0>> \in W!Tile
    BY WindowsAssumption DEF W!Tile
<1>3. /\ g \in [W!Tile -> WinOrNobody] /\ f \in [Win -> WinRec]
      /\ \A t \in W!Tile : g[t] = W!Nobody
      /\ \A w \in Win : f[w] = W!Gone
    BY WindowFacts DEF WinOrNobody
<1> HIDE DEF g, f
<1>4. /\ desk \in Desks /\ desk.grid = g /\ desk.win = f
    BY <1>1, <1>2, <1>3 DEF Desks
<1>5. SoundDesk(desk)
    BY <1>3, <1>4, WindowFacts DEF SoundDesk, W!InGrid
<1>6. AtRest(desk)
    BY <1>3, <1>4, <1>5 DEF AtRest, ShownIn, Shows
<1>7. \A h \in Pos : hs[h] = W!Nobody
    BY <1>1
<1>8. \A w \in Win : desk.win[w].refs = Cardinality(Opened(w))
  <2>1. ASSUME NEW w \in Win PROVE Opened(w) = {} /\ desk.win[w].refs = 0
      BY <1>3, <1>4, <1>7, WindowFacts DEF Opened
  <2>2. QED BY <2>1, FS_EmptySet
<1>9. WinTypes
    BY <1>1, PluginsAssumption DEF WinTypes, WinOrNobody
<1>10. ThreadsAreOfLive
    BY <1>1 DEF ThreadsAreOfLive, Threads
<1>11. \A th \in Threads : EventWaiter(th)
    BY <1>1 DEF EventWaiter
<1>12. QED BY <1>6, <1>7, <1>8, <1>9, <1>10, <1>11 DEF WinInv

(* Who is not woken waits for a window that has no event.                  *)
LEMMA WakesForIs ==
    ASSUME WinTypes, NEW d, W!WakesFor(d)
    PROVE  /\ tst' \in [Threads -> {"none", "ready", "waiting", "detached"}]
           /\ gfxWaitsOn' \in [Threads -> WinOrNobody]
           /\ \A th \in Threads :
                 /\ tst'[th] # "none" => tst[th] # "none"
                 /\ tst'[th] = "waiting" =>
                       /\ tst[th] = "waiting" /\ gfxWaitsOn'[th] = gfxWaitsOn[th]
                       /\ ~(d.win[gfxWaitsOn[th]].n > 0)
<1> DEFINE woken == {th \in Threads : tst[th] = "waiting" /\ d.win[gfxWaitsOn[th]].n > 0}
<1>1. /\ tst' = [th \in Threads |-> IF th \in woken THEN "ready" ELSE tst[th]]
      /\ gfxWaitsOn' = [th \in Threads |-> IF th \in woken THEN W!Nobody ELSE gfxWaitsOn[th]]
    BY WinOps DEF W!WakesFor, W!Wakes
<1>2. \A th \in Threads : th \in woken => tst[th] = "waiting"
    OBVIOUS
<1>3. \A th \in Threads : th \notin woken /\ tst[th] = "waiting" => ~(d.win[gfxWaitsOn[th]].n > 0)
    OBVIOUS
<1> HIDE DEF woken
<1>4. QED BY <1>1, <1>2, <1>3 DEF WinTypes, WinOrNobody

(* What waits, waits with a handle: its window is referenced.              *)
LEMMA WaitersRefer ==
    ASSUME WinInv, NEW th \in Threads, EventWaiter(th), tst[th] = "waiting",
           NEW w \in Win, gfxWaitsOn[th] = w
    PROVE  desk.win[w].active /\ desk.win[w].n = 0 /\ desk.win[w].refs > 0
           /\ \E h \in Pos : h[1] = th[1] /\ hs[h] = w
<1>1. desk.win[w].active /\ desk.win[w].n = 0 /\ \E h \in Pos : h[1] = th[1] /\ hs[h] = w
    BY DEF EventWaiter
<1>2. desk.win[w].refs = Cardinality(Opened(w))
    BY DEF WinInv
<1>3. QED BY <1>1, <1>2, OpenedIs

LEMMA WinEvent ==
    ASSUME WinInv, NEW d, Leads(desk, d), W!Event(d)
    PROVE  WinInv'
<1>1. /\ desk' = d /\ W!WakesFor(d) /\ pst' = pst /\ hs' = hs /\ gfxMisused' = gfxMisused
    BY DEF W!Event
<1>2. /\ tst' \in [Threads -> {"none", "ready", "waiting", "detached"}]
      /\ gfxWaitsOn' \in [Threads -> WinOrNobody]
      /\ \A th \in Threads :
            /\ tst'[th] # "none" => tst[th] # "none"
            /\ tst'[th] = "waiting" =>
                  /\ tst[th] = "waiting" /\ gfxWaitsOn'[th] = gfxWaitsOn[th]
                  /\ ~(d.win[gfxWaitsOn[th]].n > 0)
    BY <1>1, WakesForIs DEF WinInv
<1>3. WinTypes' /\ ThreadsAreOfLive'
    BY <1>1, <1>2 DEF WinInv, WinTypes, ThreadsAreOfLive
<1>4. AtRest(desk)' /\ \A w \in Win : desk'.win[w].refs = Cardinality(Opened(w)')
  <2>1. \A w \in Win : Opened(w)' = Opened(w)
      BY <1>1 DEF Opened
  <2>2. AtRest(d) /\ \A w \in Win : d.win[w].refs = desk.win[w].refs
      BY DEF Leads, Keeps, KeepsWindow
  <2>3. AtRest(desk)'
      BY <1>1, <2>2
  <2>4. QED BY <1>1, <2>1, <2>2, <2>3 DEF WinInv
<1>5. ASSUME NEW th \in Threads, EventWaiter(th) PROVE EventWaiter(th)'
  <2>1. SUFFICES ASSUME tst'[th] = "waiting", gfxWaitsOn'[th] \in Win
                 PROVE  /\ d.win[gfxWaitsOn'[th]].active /\ d.win[gfxWaitsOn'[th]].n = 0
                        /\ \E h \in Pos : h[1] = th[1] /\ hs[h] = gfxWaitsOn'[th]
      BY <1>1 DEF EventWaiter
  <2> DEFINE w == gfxWaitsOn[th]
  <2>2. /\ tst[th] = "waiting" /\ gfxWaitsOn'[th] = w /\ w \in Win /\ ~(d.win[w].n > 0)
      BY <1>2, <2>1
  <2> HIDE DEF w
  <2>3. /\ desk.win[w].active /\ desk.win[w].refs > 0
        /\ \E h \in Pos : h[1] = th[1] /\ hs[h] = w
      BY <1>5, <2>2, WaitersRefer DEF w
  <2>4. KeepsWindow(desk, d, w) /\ d.win[w] \in WinRec
      BY <2>2 DEF Leads, Keeps, AtRest, SoundDesk, Desks
  <2>5. d.win[w].active /\ d.win[w].n = 0
      BY <2>2, <2>3, <2>4 DEF KeepsWindow, WinRec
  <2>6. QED BY <2>2, <2>3, <2>5
<1>6. QED BY <1>1, <1>3, <1>4, <1>5 DEF WinInv

LEMMA WinUser ==
    ASSUME WinInv,
           \/ W!Key \/ W!CloseFocused \/ W!MoveFocus \/ W!MoveFocusedPane \/ W!ToggleSingle
    PROVE  WinInv'
<1>1. AtRest(desk) /\ desk.focus \in W!Tile
    BY DEF WinInv, AtRest, SoundDesk, Desks
<1>2. \A w : W!Outcomes(desk, w) \subseteq {"done", "no buffer", "no cells"}
    BY DEF W!Outcomes
<1>3. \A t : W!Near(t) \subseteq W!Tile
    BY DEF W!Near
<1>4. CASE W!Key
    BY <1>1, <1>4, KeyLeads, WinEvent DEF W!Key
<1>5. CASE W!CloseFocused
    BY <1>1, <1>5, CloseLeads, WinEvent DEF W!CloseFocused
<1>6. CASE W!MoveFocus
  <2>1. PICK t \in W!Tile, how1 \in {"done", "no buffer", "no cells"},
             how2 \in {"done", "no buffer", "no cells"} :
                W!Event(W!SetFocus(desk, t, how1, how2))
    <3>1. PICK t \in W!Near(desk.focus) :
            \E how1 \in W!Outcomes(desk, desk.grid[desk.focus]), how2 \in W!Outcomes(desk, desk.grid[t]) :
                W!Event(W!SetFocus(desk, t, how1, how2))
        BY <1>6 DEF W!MoveFocus
    <3>2. PICK how1 \in W!Outcomes(desk, desk.grid[desk.focus]), how2 \in W!Outcomes(desk, desk.grid[t]) :
                W!Event(W!SetFocus(desk, t, how1, how2))
        BY <3>1
    <3>3. /\ t \in W!Tile /\ how1 \in {"done", "no buffer", "no cells"}
          /\ how2 \in {"done", "no buffer", "no cells"}
        BY <1>2, <1>3
    <3>4. QED BY <3>2, <3>3, Zenon
  <2>2. FocusLeads(desk, W!SetFocus(desk, t, how1, how2), t)
      BY <1>1, SetFocusLeads
  <2>3. QED BY <2>1, <2>2, WinEvent DEF FocusLeads
<1>7. CASE W!MoveFocusedPane
  <2>1. PICK t \in W!Tile : W!Event(W!MovePane(desk, t))
      BY <1>3, <1>7 DEF W!MoveFocusedPane
  <2>2. QED BY <1>1, <2>1, MoveLeads, WinEvent
<1>8. CASE W!ToggleSingle
  <2>1. PICK how \in {"done", "no buffer", "no cells"} : W!Event(W!Toggle(desk, how))
      BY <1>2, <1>8 DEF W!ToggleSingle
  <2>2. QED BY <1>1, <2>1, ToggleLeads, WinEvent
<1>9. QED BY <1>4, <1>5, <1>6, <1>7, <1>8

-----------------------------------------------------------------------------
(* Windows: what a thread asks for *)

LEMMA WinNewWindow ==
    ASSUME WinInv, NEW th \in Threads, NEW h \in Pos, NEW w \in Win,
           NEW kind \in {"term", "gfx"}, W!NewWindow(th, h, w, kind)
    PROVE  WinInv'
<1>1. /\ tst[th] = "ready" /\ h[1] = th[1] /\ hs[h] = W!Nobody
      /\ desk.win[w] = W!Gone /\ W!Waiters(w) = {} /\ W!FreeTiles(desk) # {}
      /\ pst' = pst /\ gfxMisused' = gfxMisused
    BY DEF W!NewWindow, W!Enter, W!Running
<1>2. PICK how1 \in {"done", "no buffer", "no cells"}, how2 \in {"done", "no buffer", "no cells"},
           made \in BOOLEAN :
         LET d == W!Register(desk, w, kind, how1, how2)
             e == IF made THEN d ELSE [W!Deregister(d, w) EXCEPT !.win[w] = W!Gone]
         IN  /\ desk' = e /\ W!WakesFor(e)
             /\ hs' = [hs EXCEPT ![h] = IF made THEN w ELSE W!Nobody]
  <2>1. PICK how1 \in W!Outcomes(desk, desk.grid[desk.focus]),
             how2 \in IF kind = "term" THEN {"done", "no buffer", "no cells"} ELSE {"done"},
             copied \in BOOLEAN :
          LET d == W!Register(desk, w, kind, how1, how2)
              made == copied /\ how2 # "no cells"
              e == IF made THEN d ELSE [W!Deregister(d, w) EXCEPT !.win[w] = W!Gone]
          IN  /\ desk' = e /\ W!WakesFor(e)
              /\ hs' = [hs EXCEPT ![h] = IF made THEN w ELSE W!Nobody]
      BY DEF W!NewWindow
  <2>2. how1 \in {"done", "no buffer", "no cells"} /\ how2 \in {"done", "no buffer", "no cells"}
      BY DEF W!Outcomes
  <2>3. (copied /\ how2 # "no cells") \in BOOLEAN
      OBVIOUS
  <2>4. QED BY <2>1, <2>2, <2>3
<1> DEFINE d == W!Register(desk, w, kind, how1, how2)
           g == [W!Deregister(d, w) EXCEPT !.win[w] = W!Gone]
           e == IF made THEN d ELSE g
<1>3. AtRest(desk) /\ desk \in Desks /\ ~desk.win[w].active /\ w # W!Nobody
    BY <1>1, WindowFacts DEF WinInv, AtRest, SoundDesk
<1>4. AtRest(d) /\ At(d, w, d.focus) /\ d.win[w].refs = 1 /\ KeepsOthers(desk, d, w)
  <2>1. Registers(desk, d, w)
      BY <1>1, <1>3, RegisterLeads
  <2>2. QED BY <2>1 DEF Registers
<1>5. desk' = e /\ W!WakesFor(e) /\ hs' = [hs EXCEPT ![h] = IF made THEN w ELSE W!Nobody]
    BY <1>2
<1>6. e = IF made THEN d ELSE g
    OBVIOUS
<1> HIDE DEF d
<1>7. AtRest(g) /\ g.win[w] = W!Gone /\ KeepsOthers(d, g, w)
    BY <1>4, TakenBack
<1> HIDE DEF g, e
<1>8. KeepsOthers(desk, g, w)
    BY <1>3, <1>4, <1>7, KeepsOthersTwice
<1>9. AtRest(e) /\ KeepsOthers(desk, e, w) /\ e.win[w].refs = IF made THEN 1 ELSE 0
    BY <1>4, <1>6, <1>7, <1>8, WindowFacts
<1>10. /\ tst' \in [Threads -> {"none", "ready", "waiting", "detached"}]
       /\ gfxWaitsOn' \in [Threads -> WinOrNobody]
       /\ \A u \in Threads :
             /\ tst'[u] # "none" => tst[u] # "none"
             /\ tst'[u] = "waiting" =>
                   /\ tst[u] = "waiting" /\ gfxWaitsOn'[u] = gfxWaitsOn[u]
                   /\ ~(e.win[gfxWaitsOn[u]].n > 0)
    BY <1>5, WakesForIs DEF WinInv
<1>11. /\ hs' \in [Pos -> WinOrNobody] /\ hs'[h] = IF made THEN w ELSE W!Nobody
       /\ \A x \in Pos : x # h => hs'[x] = hs[x]
    BY <1>5 DEF WinInv, WinTypes, WinOrNobody
<1>12. WinTypes' /\ ThreadsAreOfLive'
    BY <1>1, <1>10, <1>11 DEF WinInv, WinTypes, ThreadsAreOfLive
<1>13. \A x \in Pos : hs'[x] # W!Nobody => pst'[x[1]] # "free"
  <2>1. pst[h[1]] # "free"
      BY <1>1 DEF WinInv, ThreadsAreOfLive
  <2>2. QED BY <1>1, <1>11, <2>1 DEF WinInv
<1>14. ASSUME NEW x \in Win PROVE desk'.win[x].refs = Cardinality(Opened(x)')
  <2>1. CASE x # w
    <3>1. Opened(x)' = Opened(x)
        BY <1>1, <1>11, <2>1, WindowFacts DEF Opened
    <3>2. e.win[x].refs = desk.win[x].refs
        BY <1>9, <2>1 DEF KeepsOthers, KeepsWindow
    <3>3. QED BY <1>5, <3>1, <3>2 DEF WinInv
  <2>2. CASE x = w
    <3>1. Cardinality(Opened(w)) = 0
        BY <1>1, WindowFacts DEF WinInv
    <3>2. \A y \in Pos : hs[y] # w
        BY <3>1, NoneOpened
    <3>3. Opened(w)' = IF made THEN {h} ELSE {}
        BY <1>3, <1>11, <3>2 DEF Opened
    <3>4. Cardinality({}) = 0 /\ Cardinality({h}) = 1
        BY FS_EmptySet, FS_Singleton
    <3>5. QED BY <1>5, <1>9, <2>2, <3>3, <3>4
  <2>3. QED BY <2>1, <2>2
<1>15. ASSUME NEW u \in Threads, EventWaiter(u) PROVE EventWaiter(u)'
  <2>1. SUFFICES ASSUME tst'[u] = "waiting", gfxWaitsOn'[u] \in Win
                 PROVE  /\ e.win[gfxWaitsOn'[u]].active /\ e.win[gfxWaitsOn'[u]].n = 0
                        /\ \E y \in Pos : y[1] = u[1] /\ hs'[y] = gfxWaitsOn'[u]
      BY <1>5 DEF EventWaiter
  <2> DEFINE x == gfxWaitsOn[u]
  <2>2. /\ tst[u] = "waiting" /\ gfxWaitsOn'[u] = x /\ x \in Win /\ ~(e.win[x].n > 0)
      BY <1>10, <2>1
  <2>3. x # w
      BY <1>1, <2>2, WinOps DEF W!Waiters
  <2> HIDE DEF x
  <2>4. /\ desk.win[x].active /\ desk.win[x].refs > 0
        /\ \E y \in Pos : y[1] = u[1] /\ hs[y] = x
      BY <1>15, <2>2, WaitersRefer DEF x
  <2>5. KeepsWindow(desk, e, x) /\ e.win[x].n \in Nat
    <3>1. KeepsWindow(desk, e, x)
        BY <1>9, <2>2, <2>3 DEF KeepsOthers
    <3>2. e \in Desks
        BY <1>9 DEF AtRest, SoundDesk
    <3>3. e.win[x].n \in Nat
        BY <2>2, <3>2 DEF Desks, WinRec
    <3>4. QED BY <3>1, <3>3
  <2>6. e.win[x].active /\ e.win[x].n = 0
    <3>1. KeepsWindow(desk, e, x)
        BY <2>5, Zenon
    <3>2. desk.win[x].active
        BY <2>4, Zenon
    <3>3. desk.win[x].refs > 0
        BY <2>4, Zenon
    <3>4. e.win[x].n \in Nat
        BY <2>5, Zenon
    <3>5. ~(e.win[x].n > 0)
        BY <2>2, Zenon
    <3>6. QED BY <3>1, <3>2, <3>3, <3>4, <3>5, StillAwaited, Zenon
  <2>7. \E y \in Pos : y[1] = u[1] /\ hs'[y] = x
      BY <1>1, <1>11, <2>2, <2>4, WindowFacts
  <2>8. QED BY <2>2, <2>6, <2>7
<1>16. AtRest(desk)'
    BY <1>5, <1>9
<1>17. QED BY <1>1, <1>12, <1>13, <1>14, <1>15, <1>16 DEF WinInv

(* Windows' counts change, and windows that nobody needs are deleted.      *)
Recounts(d, e) ==
    /\ e \in Desks /\ e.grid = d.grid /\ e.focus = d.focus /\ e.single = d.single
    /\ \A w \in Win :
        LET r == e.win[w] IN
        \/ /\ r.active = d.win[w].active /\ r.focused = d.win[w].focused
           /\ r.hidden = d.win[w].hidden /\ r.size = d.win[w].size
           /\ r.refs > 0 \/ r.active
        \/ r = W!Gone /\ ~d.win[w].active

LEMMA Recounted ==
    ASSUME NEW d, AtRest(d), NEW e, Recounts(d, e)
    PROVE  AtRest(e)
<1>1. \A w \in Win : e.win[w].active = d.win[w].active
  <2>1. \A w \in Win : d.win[w].active \in BOOLEAN
      BY DEF AtRest, SoundDesk, Desks, WinRec
  <2>2. QED BY <2>1, WindowFacts DEF Recounts
<1>2. SoundDesk(e)
  <2>1. \A w \in Win : W!InGrid(e, w) <=> W!InGrid(d, w)
      BY DEF Recounts, W!InGrid
  <2>2. \A w \in Win : W!InGrid(e, w) <=> e.win[w].active
      BY <1>1, <2>1, Zenon DEF AtRest, SoundDesk
  <2>3. \A w \in Win : e.win[w] # W!Gone => e.win[w].refs > 0 \/ e.win[w].active
      BY DEF Recounts
  <2>4. \A t, u \in W!Tile : e.grid[t] # W!Nobody /\ e.grid[t] = e.grid[u] => t = u
      BY DEF Recounts, AtRest, SoundDesk
  <2>5. QED BY <2>2, <2>3, <2>4 DEF SoundDesk, Recounts
<1>3. ASSUME NEW t \in W!Tile PROVE ShownIn(e, t)
  <2>1. ShownIn(d, t) /\ e.grid = d.grid /\ e.focus = d.focus /\ e.single = d.single
        /\ W!FocusSize(e) = W!FocusSize(d)
      BY DEF AtRest, Recounts, W!FocusSize
  <2>2. CASE d.grid[t] = W!Nobody
      BY <2>1, <2>2 DEF ShownIn, Shows
  <2>3. CASE d.grid[t] # W!Nobody
    <3> DEFINE w == d.grid[t]
    <3>1. w \in Win
        BY <2>3 DEF AtRest, SoundDesk, Desks, WinOrNobody
    <3>2. d.win[w].active
        BY <3>1 DEF AtRest, SoundDesk, W!InGrid
    <3>3. /\ e.win[w].focused = d.win[w].focused /\ e.win[w].hidden = d.win[w].hidden
          /\ e.win[w].size = d.win[w].size
        BY <3>1, <3>2 DEF Recounts
    <3>4. QED BY <2>1, <2>3, <3>3 DEF ShownIn, Shows
  <2>4. QED BY <2>2, <2>3
<1>4. QED BY <1>2, <1>3 DEF AtRest

-----------------------------------------------------------------------------
(* Windows: handles that go, by a close, an exec or a reap *)

LEMMA SomeHandles ==
    ASSUME NEW X, X \subseteq Pos
    PROVE  IsFiniteSet(X) /\ Cardinality(X) \in Nat /\ (Cardinality(X) > 0 <=> X # {})
<1>1. IsFiniteSet(Pos)
    BY TablesAreFinite, FS_Product DEF Pos
<1>2. IsFiniteSet(X) /\ Cardinality(X) \in Nat
    BY <1>1, FS_Subset, FS_CardinalityType
<1>3. Cardinality(X) = 0 <=> X = {}
    BY <1>2, FS_EmptySet
<1>4. QED BY <1>2, <1>3

LEMMA WithoutIs ==
    ASSUME NEW r \in WinRec, r # W!Gone => r.refs > 0 \/ r.active, NEW k \in Nat, k <= r.refs
    PROVE  LET q == W!Without(r, k) IN
           /\ q \in WinRec /\ q.refs = r.refs - k
           /\ \/ /\ q.active = r.active /\ q.focused = r.focused /\ q.hidden = r.hidden
                 /\ q.size = r.size /\ (q.refs > 0 \/ q.active)
              \/ q = W!Gone /\ ~r.active
           /\ k < r.refs => q.active = r.active /\ q.n = r.n
           /\ k = 0 => q = r
<1> DEFINE q == W!Without(r, k)
<1>1. r.refs \in Nat /\ r.active \in BOOLEAN
    BY DEF WinRec
<1>2. CASE r.refs = k /\ ~r.active
  <2>1. q = W!Gone
      BY <1>2 DEF W!Without
  <2> HIDE DEF q
  <2>2. q \in WinRec /\ q.refs = 0 /\ r.refs - k = 0 /\ ~(k < r.refs)
      BY <1>1, <1>2, <2>1, WindowFacts
  <2>3. k = 0 => q = r
      BY <1>2, <2>1
  <2>4. QED BY <1>2, <2>1, <2>2, <2>3 DEF q
<1>3. CASE ~(r.refs = k /\ ~r.active)
  <2> DEFINE m == r.refs - k
  <2>1. q = [r EXCEPT !.refs = m]
      BY <1>3 DEF W!Without
  <2>2. m \in Nat /\ (m > 0 \/ r.active) /\ (k = 0 => m = r.refs)
      BY <1>1, <1>3
  <2> HIDE DEF q, m
  <2>3. /\ q \in WinRec /\ q.refs = m /\ q.active = r.active /\ q.focused = r.focused
        /\ q.hidden = r.hidden /\ q.size = r.size /\ q.n = r.n
        /\ m = r.refs => q = r
      BY <2>1, <2>2 DEF WinRec
  <2>4. QED BY <2>2, <2>3 DEF q, m
<1>4. QED BY <1>2, <1>3

OpenAmong(hset, w) == {h \in hset : hs[h] = w}
ReleasedOf(hset) == [w \in Win |-> W!Without(desk.win[w], Cardinality(OpenAmong(hset, w)))]

LEMMA WinReleases ==
    ASSUME DeskInv, NEW hset, hset \subseteq Pos,
           desk' = [desk EXCEPT !.win = ReleasedOf(hset)],
           hs' = [h \in Pos |-> IF h \in hset THEN W!Nobody ELSE hs[h]]
    PROVE  /\ DeskInv'
           /\ \A h \in Pos : hs'[h] = IF h \in hset THEN W!Nobody ELSE hs[h]
           /\ \A w \in Win, h \in Pos : h \notin hset /\ hs[h] = w =>
                 desk'.win[w].active = desk.win[w].active /\ desk'.win[w].n = desk.win[w].n
<1> DEFINE k(w) == Cardinality(OpenAmong(hset, w))
           f == ReleasedOf(hset)
<1>1. AtRest(desk) /\ SoundDesk(desk) /\ desk \in Desks
    BY DEF DeskInv, AtRest, SoundDesk
<1>2. /\ hs' \in [Pos -> WinOrNobody]
      /\ \A h \in Pos : hs'[h] = IF h \in hset THEN W!Nobody ELSE hs[h]
    BY DEF DeskInv, WinOrNobody
<1>3. ASSUME NEW w \in Win
      PROVE  /\ k(w) \in Nat /\ k(w) <= desk.win[w].refs
             /\ Cardinality(Opened(w)') = desk.win[w].refs - k(w)
             /\ (\E h \in Pos : h \notin hset /\ hs[h] = w) => k(w) < desk.win[w].refs
  <2> DEFINE A == Opened(w)
             B == OpenAmong(hset, w)
             C == Opened(w)'
  <2>1. B \subseteq A /\ A \subseteq Pos /\ C \subseteq Pos
      BY DEF Opened, OpenAmong
  <2>2. C = A \ B
      BY <1>2, WindowFacts DEF Opened, OpenAmong
  <2>3. (\E h \in Pos : h \notin hset /\ hs[h] = w) => C # {}
      BY <2>2 DEF Opened, OpenAmong
  <2>4. desk.win[w].refs = Cardinality(A)
      BY DEF DeskInv
  <2> HIDE DEF A, B, C
  <2>5. /\ IsFiniteSet(A) /\ IsFiniteSet(B) /\ Cardinality(A) \in Nat /\ Cardinality(B) \in Nat
        /\ Cardinality(C) \in Nat /\ (Cardinality(C) > 0 <=> C # {})
    <3>1. B \subseteq Pos
        BY <2>1
    <3>2. QED BY <2>1, <3>1, SomeHandles
  <2>6. A \cap B = B
      BY <2>1
  <2>7. Cardinality(C) = Cardinality(A) - Cardinality(B)
      BY <2>2, <2>5, <2>6, FS_Difference
  <2>8. Cardinality(B) <= Cardinality(A) /\ (C # {} => Cardinality(B) < Cardinality(A))
      BY <2>5, <2>7
  <2>9. QED BY <2>3, <2>4, <2>5, <2>7, <2>8 DEF A, B, C
<1>4. \A w \in Win : f[w] = W!Without(desk.win[w], k(w))
    BY DEF ReleasedOf
<1> HIDE DEF k, f
<1>5. ASSUME NEW w \in Win
      PROVE  /\ f[w] \in WinRec /\ f[w].refs = Cardinality(Opened(w)')
             /\ \/ /\ f[w].active = desk.win[w].active /\ f[w].focused = desk.win[w].focused
                   /\ f[w].hidden = desk.win[w].hidden /\ f[w].size = desk.win[w].size
                   /\ (f[w].refs > 0 \/ f[w].active)
                \/ f[w] = W!Gone /\ ~desk.win[w].active
             /\ (\E h \in Pos : h \notin hset /\ hs[h] = w) =>
                   f[w].active = desk.win[w].active /\ f[w].n = desk.win[w].n
  <2> DEFINE r == desk.win[w]
             j == k(w)
             q == W!Without(r, j)
  <2>1. r \in WinRec /\ (r # W!Gone => r.refs > 0 \/ r.active)
      BY <1>1 DEF Desks, SoundDesk
  <2>2. /\ j \in Nat /\ j <= r.refs /\ Cardinality(Opened(w)') = r.refs - j
        /\ (\E h \in Pos : h \notin hset /\ hs[h] = w) => j < r.refs
      BY <1>3
  <2>3. f[w] = q
      BY <1>4
  <2> HIDE DEF r, j
  <2>4. /\ q \in WinRec /\ q.refs = r.refs - j
        /\ \/ /\ q.active = r.active /\ q.focused = r.focused /\ q.hidden = r.hidden
              /\ q.size = r.size /\ (q.refs > 0 \/ q.active)
           \/ q = W!Gone /\ ~r.active
        /\ j < r.refs => q.active = r.active /\ q.n = r.n
      BY <2>1, <2>2, WithoutIs
  <2> HIDE DEF q
  <2>5. QED BY <2>2, <2>3, <2>4, Zenon DEF r
<1>6. f \in [Win -> WinRec]
  <2>1. f = [w \in Win |-> f[w]]
      BY DEF f, ReleasedOf
  <2>2. QED BY <1>5, <2>1
<1>7. /\ desk' \in Desks /\ desk'.grid = desk.grid /\ desk'.focus = desk.focus
      /\ desk'.single = desk.single /\ desk'.win = f
    BY <1>1, <1>6 DEF Desks, f
<1>8. Recounts(desk, desk')
    BY <1>5, <1>7 DEF Recounts
<1>9. AtRest(desk')
    BY <1>1, <1>8, Recounted
<1>10. DeskInv'
    BY <1>2, <1>5, <1>7, <1>9 DEF DeskInv
<1>11. QED BY <1>2, <1>5, <1>7, <1>10

(* Who waits with a handle that stays, waits as before.                    *)
LEMMA StillRight ==
    ASSUME NEW hset, NEW u, EventWaiter(u),
           tst'[u] = "waiting" => tst[u] = "waiting" /\ gfxWaitsOn'[u] = gfxWaitsOn[u],
           tst'[u] = "waiting" => \A h \in Pos : h[1] = u[1] /\ hs[h] = gfxWaitsOn[u] => h \notin hset,
           \A h \in Pos : hs'[h] = IF h \in hset THEN W!Nobody ELSE hs[h],
           \A w \in Win, h \in Pos : h \notin hset /\ hs[h] = w =>
                 desk'.win[w].active = desk.win[w].active /\ desk'.win[w].n = desk.win[w].n
    PROVE  EventWaiter(u)'
<1>1. SUFFICES ASSUME tst'[u] = "waiting", gfxWaitsOn'[u] \in Win
               PROVE  /\ desk'.win[gfxWaitsOn'[u]].active /\ desk'.win[gfxWaitsOn'[u]].n = 0
                      /\ \E h \in Pos : h[1] = u[1] /\ hs'[h] = gfxWaitsOn'[u]
    BY DEF EventWaiter
<1> DEFINE w == gfxWaitsOn[u]
<1>2. tst[u] = "waiting" /\ gfxWaitsOn'[u] = w /\ w \in Win
    BY <1>1
<1>3. /\ desk.win[w].active /\ desk.win[w].n = 0
      /\ \E h \in Pos : h[1] = u[1] /\ hs[h] = w
    BY <1>2 DEF EventWaiter
<1>4. PICK h \in Pos : h[1] = u[1] /\ hs[h] = w
    BY <1>3
<1>5. h \notin hset
    BY <1>1, <1>4
<1> HIDE DEF w
<1>6. hs'[h] = w /\ desk'.win[w].active = desk.win[w].active /\ desk'.win[w].n = desk.win[w].n
    BY <1>2, <1>4, <1>5
<1>7. QED BY <1>2, <1>3, <1>4, <1>6

LEMMA OneReleased ==
    ASSUME DeskInv, NEW h \in Pos, hs[h] # W!Nobody
    PROVE  W!Released(desk, hs[h], 1) = [desk EXCEPT !.win = ReleasedOf({h})]
<1> DEFINE w == hs[h]
           f == ReleasedOf({h})
           g == [desk.win EXCEPT ![w] = W!Without(desk.win[w], 1)]
<1>1. w \in Win /\ desk \in Desks /\ desk.win \in [Win -> WinRec]
    BY DEF DeskInv, AtRest, SoundDesk, Desks, WinOrNobody
<1>2. W!Released(desk, w, 1) = [desk EXCEPT !.win = g]
    BY <1>1 DEF W!Released, W!Without, Desks
<1>3. ASSUME NEW x \in Win PROVE f[x] = g[x]
  <2>1. OpenAmong({h}, x) = IF x = w THEN {h} ELSE {}
      BY DEF OpenAmong
  <2>2. Cardinality(OpenAmong({h}, x)) = IF x = w THEN 1 ELSE 0
      BY <2>1, FS_EmptySet, FS_Singleton
  <2>3. f[x] = W!Without(desk.win[x], IF x = w THEN 1 ELSE 0)
      BY <2>2 DEF ReleasedOf
  <2>4. W!Without(desk.win[x], 0) = desk.win[x]
    <3>1. desk.win[x] \in WinRec /\ (desk.win[x] # W!Gone => desk.win[x].refs > 0 \/ desk.win[x].active)
        BY <1>1 DEF DeskInv, AtRest, SoundDesk
    <3>2. 0 \in Nat /\ 0 <= desk.win[x].refs
        BY <3>1 DEF WinRec
    <3>3. QED BY <3>1, <3>2, WithoutIs
  <2>5. g[x] = IF x = w THEN W!Without(desk.win[w], 1) ELSE desk.win[x]
      BY <1>1
  <2>6. QED BY <2>3, <2>4, <2>5
<1>4. f = g
  <2>1. f = [x \in Win |-> f[x]] /\ g = [x \in Win |-> g[x]]
      BY <1>1 DEF ReleasedOf
  <2> HIDE DEF f, g
  <2>2. QED BY <1>3, <2>1
<1>5. QED BY <1>2, <1>4

LEMMA WinClose ==
    ASSUME WinInv, NEW th \in Threads, NEW h \in Pos, W!Close(th, h)
    PROVE  WinInv'
<1>0. ~gfxMisused' => ~gfxMisused /\ \A u \in W!Waiters(hs[h]) : u[1] # th[1]
    BY Zenon DEF W!Close
<1>1. /\ h[1] = th[1] /\ hs[h] # W!Nobody
      /\ desk' = W!Released(desk, hs[h], 1) /\ hs' = [hs EXCEPT ![h] = W!Nobody]
      /\ pst' = pst /\ tst' = tst /\ gfxWaitsOn' = gfxWaitsOn
  <2>1. W!Uses(th, h) /\ UNCHANGED <<W!processVars, gfxWaitsOn, gfxFatal>>
      BY Zenon DEF W!Close
  <2>2. desk' = W!Released(desk, hs[h], 1) /\ hs' = [hs EXCEPT ![h] = W!Nobody]
      BY Zenon DEF W!Close
  <2>3. pst' = pst /\ tst' = tst /\ gfxWaitsOn' = gfxWaitsOn
      BY <2>1 DEF W!processVars
  <2>4. h[1] = th[1] /\ hs[h] # W!Nobody
      BY <2>1 DEF W!Uses
  <2>5. QED BY <2>2, <2>3, <2>4
<1>2. DeskInv /\ hs \in [Pos -> WinOrNobody]
    BY DEF WinInv, WinTypes, DeskInv
<1>3. desk' = [desk EXCEPT !.win = ReleasedOf({h})]
    BY <1>1, <1>2, OneReleased
<1>4. hs' = [x \in Pos |-> IF x \in {h} THEN W!Nobody ELSE hs[x]]
    BY <1>1, <1>2
<1>5. {h} \subseteq Pos
    OBVIOUS
<1>6. /\ DeskInv'
      /\ \A x \in Pos : hs'[x] = IF x \in {h} THEN W!Nobody ELSE hs[x]
      /\ \A w \in Win, x \in Pos : x \notin {h} /\ hs[x] = w =>
            desk'.win[w].active = desk.win[w].active /\ desk'.win[w].n = desk.win[w].n
    BY <1>2, <1>3, <1>4, <1>5, WinReleases
<1>7. WinTypes' /\ ThreadsAreOfLive' /\ \A x \in Pos : hs'[x] # W!Nobody => pst'[x[1]] # "free"
    BY <1>1, <1>6 DEF WinInv, WinTypes, ThreadsAreOfLive, DeskInv
<1>8. ASSUME ~gfxMisused', NEW u \in Threads PROVE EventWaiter(u)'
  <2>1. EventWaiter(u) /\ (tst'[u] = "waiting" => tst[u] = "waiting" /\ gfxWaitsOn'[u] = gfxWaitsOn[u])
      BY <1>0, <1>1, <1>8 DEF WinInv
  <2>2. ASSUME tst'[u] = "waiting", NEW x \in Pos, x[1] = u[1], hs[x] = gfxWaitsOn[u]
        PROVE  x \notin {h}
    <3>1. gfxWaitsOn[u] = hs[h] => u \in W!Waiters(hs[h])
        BY <1>1, <2>2, WinOps DEF W!Waiters
    <3>2. QED BY <1>0, <1>1, <1>8, <2>2, <3>1
  <2>3. QED BY <1>6, <2>1, <2>2, StillRight
<1>9. QED BY <1>6, <1>7, <1>8 DEF WinInv, DeskInv

LEMMA AllReleased ==
    ASSUME DeskInv, NEW p, W!ReleaseAll(p)
    PROVE  LET hset == {h \in Pos : h[1] = p} IN
           /\ hset \subseteq Pos /\ desk' = [desk EXCEPT !.win = ReleasedOf(hset)]
           /\ hs' = [h \in Pos |-> IF h \in hset THEN W!Nobody ELSE hs[h]]
           /\ gfxMisused' = gfxMisused
<1> DEFINE hset == {h \in Pos : h[1] = p}
           f == [w \in Win |-> W!Released(desk, w, W!Count(p, w)).win[w]]
<1>1. /\ desk' = [desk EXCEPT !.win = f] /\ gfxMisused' = gfxMisused
      /\ hs' = [h \in Pos |-> IF h[1] = p THEN W!Nobody ELSE hs[h]]
    BY WinOps DEF W!ReleaseAll
<1>2. ASSUME NEW w \in Win
      PROVE  W!Released(desk, w, W!Count(p, w)).win[w] = W!Without(desk.win[w], Cardinality(OpenAmong(hset, w)))
  <2>1. OpenAmong(hset, w) = {h \in W!Handle : h[1] = p /\ hs[h] = w}
      BY WinOps DEF OpenAmong
  <2>2. W!Count(p, w) = Cardinality(OpenAmong(hset, w))
      BY <2>1, WinOps DEF W!Count
  <2> HIDE DEF hset
  <2>3. desk \in Desks /\ desk.win \in [Win -> WinRec]
      BY DEF DeskInv, AtRest, SoundDesk, Desks
  <2>4. \A k : W!Released(desk, w, k).win[w] = W!Without(desk.win[w], k)
      BY <2>3 DEF W!Released, Desks
  <2>5. QED BY <2>2, <2>4
<1>3. f = ReleasedOf(hset)
    BY <1>2 DEF ReleasedOf
<1>4. QED BY <1>1, <1>3

LEMMA WinReap ==
    ASSUME WinInv, NEW p \in Procs, W!Reap(p)
    PROVE  WinInv'
<1> DEFINE hset == {h \in Pos : h[1] = p}
<1>1. /\ pst[p] = "zombie" /\ pst' = [pst EXCEPT ![p] = "free"] /\ tst' = tst
      /\ gfxWaitsOn' = gfxWaitsOn /\ W!ReleaseAll(p)
    BY DEF W!Reap, W!Reaps
<1>2. DeskInv
    BY DEF WinInv, WinTypes, DeskInv
<1>3. /\ hset \subseteq Pos /\ desk' = [desk EXCEPT !.win = ReleasedOf(hset)]
      /\ hs' = [h \in Pos |-> IF h \in hset THEN W!Nobody ELSE hs[h]]
      /\ gfxMisused' = gfxMisused
    BY <1>1, <1>2, AllReleased
<1>4. \A h \in Pos : h \in hset <=> h[1] = p
    OBVIOUS
<1> HIDE DEF hset
<1>5. /\ DeskInv'
      /\ \A h \in Pos : hs'[h] = IF h \in hset THEN W!Nobody ELSE hs[h]
      /\ \A w \in Win, h \in Pos : h \notin hset /\ hs[h] = w =>
            desk'.win[w].active = desk.win[w].active /\ desk'.win[w].n = desk.win[w].n
    BY <1>2, <1>3, WinReleases
<1>6. \A u \in Threads : tst[u] # "none" => u[1] # p
    BY <1>1 DEF WinInv, ThreadsAreOfLive
<1>7. WinTypes' /\ ThreadsAreOfLive'
    BY <1>1, <1>5, <1>6 DEF WinInv, WinTypes, ThreadsAreOfLive, DeskInv, Threads
<1>8. \A h \in Pos : hs'[h] # W!Nobody => pst'[h[1]] # "free"
    BY <1>1, <1>4, <1>5 DEF WinInv, WinTypes, Pos
<1>9. ASSUME ~gfxMisused', NEW u \in Threads PROVE EventWaiter(u)'
  <2>1. EventWaiter(u) /\ (tst'[u] = "waiting" => tst[u] = "waiting" /\ gfxWaitsOn'[u] = gfxWaitsOn[u])
      BY <1>1, <1>3, <1>9 DEF WinInv
  <2>2. tst'[u] = "waiting" => \A h \in Pos : h[1] = u[1] /\ hs[h] = gfxWaitsOn[u] => h \notin hset
      BY <1>1, <1>4, <1>6
  <2>3. QED BY <1>5, <2>1, <2>2, StillRight
<1>10. QED BY <1>5, <1>7, <1>8, <1>9 DEF WinInv, DeskInv

LEMMA WinExec ==
    ASSUME WinInv, NEW th \in Threads, W!Exec(th)
    PROVE  WinInv'
<1> DEFINE p == th[1]
           hset == {h \in Pos : h[1] = p}
<1>1. /\ tst[th] = "ready" /\ pst' = pst /\ W!ReleaseAll(p)
      /\ tst' = [u \in Threads |-> IF u[1] # p THEN tst[u]
                                   ELSE IF u[2] = main[p] THEN "ready" ELSE "none"]
      /\ gfxWaitsOn' = [u \in Threads |-> IF u[1] = p THEN W!Nobody ELSE gfxWaitsOn[u]]
    BY WinOps DEF W!Exec, W!Execs, W!AfterExec, W!Running, W!Detach
<1>2. DeskInv
    BY DEF WinInv, WinTypes, DeskInv
<1>3. /\ hset \subseteq Pos /\ desk' = [desk EXCEPT !.win = ReleasedOf(hset)]
      /\ hs' = [h \in Pos |-> IF h \in hset THEN W!Nobody ELSE hs[h]]
      /\ gfxMisused' = gfxMisused
    BY <1>1, <1>2, AllReleased
<1>4. \A h \in Pos : h \in hset <=> h[1] = p
    OBVIOUS
<1>5. pst[p] = "live"
    BY <1>1 DEF WinInv, ThreadsAreOfLive
<1> HIDE DEF hset, p
<1>6. /\ DeskInv'
      /\ \A h \in Pos : hs'[h] = IF h \in hset THEN W!Nobody ELSE hs[h]
      /\ \A w \in Win, h \in Pos : h \notin hset /\ hs[h] = w =>
            desk'.win[w].active = desk.win[w].active /\ desk'.win[w].n = desk.win[w].n
    BY <1>2, <1>3, WinReleases
<1>7. /\ \A u \in Threads : tst'[u] = IF u[1] # p THEN tst[u]
                                      ELSE IF u[2] = main[p] THEN "ready" ELSE "none"
      /\ \A u \in Threads : gfxWaitsOn'[u] = IF u[1] = p THEN W!Nobody ELSE gfxWaitsOn[u]
    BY <1>1
<1>8. WinTypes'
    BY <1>1, <1>6 DEF WinInv, WinTypes, DeskInv, WinOrNobody
<1>9. ThreadsAreOfLive'
    BY <1>1, <1>5, <1>7 DEF WinInv, ThreadsAreOfLive
<1>10. \A h \in Pos : hs'[h] # W!Nobody => pst'[h[1]] # "free"
    BY <1>1, <1>6 DEF WinInv
<1>11. ASSUME ~gfxMisused', NEW u \in Threads PROVE EventWaiter(u)'
  <2>1. EventWaiter(u)
      BY <1>3, <1>11 DEF WinInv
  <2>2. tst'[u] = "waiting" => u[1] # p /\ tst[u] = "waiting" /\ gfxWaitsOn'[u] = gfxWaitsOn[u]
      BY <1>7
  <2>3. tst'[u] = "waiting" => \A h \in Pos : h[1] = u[1] /\ hs[h] = gfxWaitsOn[u] => h \notin hset
      BY <1>4, <2>2
  <2>4. QED BY <1>6, <2>1, <2>2, <2>3, StillRight
<1>12. QED BY <1>6, <1>8, <1>9, <1>10, <1>11 DEF WinInv, DeskInv

-----------------------------------------------------------------------------
(* Windows: what is left of a thread's calls, and the steps together *)

(* A window with k more references.                                        *)
More(r, k) == [r EXCEPT !.refs = @ + k]

LEMMA MoreIs ==
    ASSUME NEW r \in WinRec, NEW k \in Nat, r.refs = 0 => k = 0,
           r # W!Gone => r.refs > 0 \/ r.active
    PROVE  LET q == More(r, k) IN
           /\ q \in WinRec /\ q.refs = r.refs + k /\ q.active = r.active /\ q.n = r.n
           /\ \/ /\ q.focused = r.focused /\ q.hidden = r.hidden
                 /\ q.size = r.size /\ (q.refs > 0 \/ q.active)
              \/ q = W!Gone /\ ~r.active
<1> DEFINE q == More(r, k)
           m == r.refs + k
<1>1. r.refs \in Nat /\ r.active \in BOOLEAN /\ m \in Nat
    BY DEF WinRec
<1>2. q = [r EXCEPT !.refs = m]
    BY DEF More
<1>3. (r.refs > 0 => m > 0) /\ (r.refs = 0 => m = r.refs)
    BY <1>1
<1> HIDE DEF q, m
<1>4. /\ q \in WinRec /\ q.refs = m /\ q.active = r.active /\ q.n = r.n
      /\ q.focused = r.focused /\ q.hidden = r.hidden /\ q.size = r.size
      /\ m = r.refs => q = r
    BY <1>1, <1>2 DEF WinRec
<1>5. CASE r = W!Gone
  <2>1. q = W!Gone /\ ~r.active
      BY <1>3, <1>4, <1>5, WindowFacts
  <2>2. QED BY <1>4, <2>1 DEF q, m
<1>6. CASE r # W!Gone
  <2>1. q.refs > 0 \/ q.active
      BY <1>3, <1>4, <1>6
  <2>2. QED BY <1>4, <2>1 DEF q, m
<1>7. QED BY <1>5, <1>6

LEMMA CopiedHandles ==
    ASSUME NEW p \in Procs, NEW c \in Procs, p # c, NEW w \in Win,
           \A h \in Pos : h[1] = c => hs[h] = W!Nobody,
           \A h \in Pos : hs'[h] = IF h[1] = c THEN hs[<<p, h[2]>>] ELSE hs[h]
    PROVE  LET k == W!Count(p, w) IN
           /\ k \in Nat /\ Cardinality(Opened(w)') = Cardinality(Opened(w)) + k
           /\ Cardinality(Opened(w)) = 0 => k = 0
<1> DEFINE X == {h \in Pos : h[1] = p /\ hs[h] = w}
           Y == {h \in Pos : h[1] = c /\ hs[<<p, h[2]>>] = w}
<1>1. W!Count(p, w) = Cardinality(X)
    BY WinOps DEF W!Count
<1>2. Opened(w)' = Opened(w) \cup Y /\ Opened(w) \cap Y = {} /\ X \subseteq Opened(w)
    BY WindowFacts DEF Opened
<1>3. X \subseteq Pos /\ Y \subseteq Pos /\ Opened(w) \subseteq Pos
    BY DEF Opened
<1>4. X \subseteq {p} \X Hids
    BY DEF Pos
<1>5. \A y : y \in Y <=> \E x \in X : y = <<c, x[2]>>
  <2>1. ASSUME NEW y \in Y PROVE \E x \in X : y = <<c, x[2]>>
    <3>1. <<p, y[2]>> \in X /\ y = <<c, <<p, y[2]>>[2]>>
        BY DEF Pos
    <3>2. QED BY <3>1
  <2>2. ASSUME NEW x \in X PROVE <<c, x[2]>> \in Y
    <3>1. x = <<p, x[2]>> /\ x[2] \in Hids
        BY DEF Pos
    <3>2. QED BY <3>1 DEF Pos
  <2>3. QED BY <2>1, <2>2
<1> HIDE DEF X, Y
<1>6. IsFiniteSet(X)
    BY <1>3, SomeHandles
<1>7. Cardinality(Y) = Cardinality(X)
    BY <1>4, <1>5, <1>6, Copied
<1>8. /\ IsFiniteSet(Opened(w)) /\ IsFiniteSet(Y) /\ Cardinality(Opened(w)) \in Nat
      /\ Cardinality(Y) \in Nat /\ (Cardinality(X) > 0 => X # {})
      /\ (Cardinality(Opened(w)) > 0 <=> Opened(w) # {})
    BY <1>3, SomeHandles
<1>9. Cardinality(Opened(w) \cup Y) = Cardinality(Opened(w)) + Cardinality(Y)
  <2>1. Cardinality(Opened(w) \cap Y) = 0
      BY <1>2, FS_EmptySet
  <2>2. Cardinality(Opened(w) \cup Y)
          = Cardinality(Opened(w)) + Cardinality(Y) - Cardinality(Opened(w) \cap Y)
      BY <1>8, FS_Union
  <2>3. QED BY <1>8, <2>1, <2>2
<1>10. QED BY <1>1, <1>2, <1>7, <1>8, <1>9

LEMMA WinFork ==
    ASSUME WinInv, NEW th \in Threads, NEW c \in Procs, W!Fork(th, c)
    PROVE  WinInv'
<1> DEFINE p == th[1]
           f == [w \in Win |-> More(desk.win[w], W!Count(p, w))]
<1>1. /\ tst[th] = "ready" /\ pst[c] = "free"
      /\ pst' = [pst EXCEPT ![c] = "live"] /\ tst' = [tst EXCEPT ![<<c, th[2]>>] = "ready"]
      /\ gfxWaitsOn' = gfxWaitsOn /\ gfxMisused' = gfxMisused
      /\ desk' = [desk EXCEPT !.win = f]
      /\ hs' = [h \in Pos |-> IF h[1] = c THEN hs[<<p, h[2]>>] ELSE hs[h]]
    BY WinOps DEF W!Fork, W!Forks, W!Running, More
<1>2. /\ p \in Procs /\ pst[p] = "live" /\ p # c /\ <<c, th[2]>> \in Threads
      /\ \A h \in Pos : h[1] = c => hs[h] = W!Nobody
    BY <1>1 DEF WinInv, ThreadsAreOfLive, Threads
<1>3. /\ hs' \in [Pos -> WinOrNobody]
      /\ \A h \in Pos : hs'[h] = IF h[1] = c THEN hs[<<p, h[2]>>] ELSE hs[h]
  <2>1. \A h \in Pos : <<p, h[2]>> \in Pos
      BY <1>2 DEF Pos
  <2>2. QED BY <1>1, <2>1 DEF WinInv, WinTypes
<1> HIDE DEF p
<1>4. desk \in Desks /\ SoundDesk(desk) /\ AtRest(desk)
    BY DEF WinInv, AtRest, SoundDesk
<1>5. ASSUME NEW w \in Win
      PROVE  /\ f[w] \in WinRec /\ f[w].refs = Cardinality(Opened(w)')
             /\ f[w].active = desk.win[w].active /\ f[w].n = desk.win[w].n
             /\ \/ /\ f[w].focused = desk.win[w].focused /\ f[w].hidden = desk.win[w].hidden
                   /\ f[w].size = desk.win[w].size /\ (f[w].refs > 0 \/ f[w].active)
                \/ f[w] = W!Gone /\ ~desk.win[w].active
  <2> DEFINE r == desk.win[w]
             k == W!Count(p, w)
             q == More(r, k)
  <2>1. f[w] = q
      OBVIOUS
  <2>2. r \in WinRec /\ (r # W!Gone => r.refs > 0 \/ r.active) /\ r.refs = Cardinality(Opened(w))
      BY <1>4 DEF SoundDesk, Desks, WinInv
  <2>3. /\ k \in Nat /\ Cardinality(Opened(w)') = Cardinality(Opened(w)) + k
        /\ Cardinality(Opened(w)) = 0 => k = 0
      BY <1>2, <1>3, CopiedHandles
  <2> HIDE DEF r, k, f
  <2>4. /\ q \in WinRec /\ q.refs = r.refs + k /\ q.active = r.active /\ q.n = r.n
        /\ \/ /\ q.focused = r.focused /\ q.hidden = r.hidden
              /\ q.size = r.size /\ (q.refs > 0 \/ q.active)
           \/ q = W!Gone /\ ~r.active
      BY <2>2, <2>3, MoreIs
  <2> HIDE DEF q
  <2>5. q.refs = Cardinality(Opened(w)')
      BY <2>2, <2>3, <2>4
  <2>6. QED BY <2>1, <2>4, <2>5, Zenon DEF r
<1>6. f \in [Win -> WinRec]
    BY <1>5
<1> HIDE DEF f
<1>7. /\ desk' \in Desks /\ desk'.grid = desk.grid /\ desk'.focus = desk.focus
      /\ desk'.single = desk.single /\ desk'.win = f
    BY <1>1, <1>4, <1>6 DEF Desks
<1>8. Recounts(desk, desk')
    BY <1>5, <1>7 DEF Recounts
<1>9. AtRest(desk')
    BY <1>4, <1>8, Recounted
<1>10. /\ \A u \in Threads : u # <<c, th[2]>> => tst'[u] = tst[u]
       /\ tst'[<<c, th[2]>>] = "ready"
    BY <1>1, <1>2 DEF WinInv, WinTypes
<1>11. \A x \in Procs : pst'[x] = IF x = c THEN "live" ELSE pst[x]
    BY <1>1 DEF WinInv, WinTypes
<1>12. WinTypes' /\ ThreadsAreOfLive'
  <2>1. WinTypes'
      BY <1>1, <1>2, <1>3 DEF WinInv, WinTypes
  <2>2. ThreadsAreOfLive'
      BY <1>10, <1>11 DEF WinInv, ThreadsAreOfLive, Threads
  <2>3. QED BY <2>1, <2>2
<1>13. \A h \in Pos : hs'[h] # W!Nobody => pst'[h[1]] # "free"
    BY <1>3, <1>11 DEF WinInv, Pos
<1>14. ASSUME ~gfxMisused', NEW u \in Threads PROVE EventWaiter(u)'
  <2>1. EventWaiter(u)
      BY <1>1, <1>14 DEF WinInv
  <2>2. SUFFICES ASSUME tst'[u] = "waiting", gfxWaitsOn'[u] \in Win
                 PROVE  /\ desk'.win[gfxWaitsOn'[u]].active /\ desk'.win[gfxWaitsOn'[u]].n = 0
                        /\ \E h \in Pos : h[1] = u[1] /\ hs'[h] = gfxWaitsOn'[u]
      BY DEF EventWaiter
  <2> DEFINE w == gfxWaitsOn[u]
  <2>3. tst[u] = "waiting" /\ gfxWaitsOn'[u] = w /\ w \in Win /\ u[1] # c
      BY <1>1, <1>10, <2>2 DEF WinInv, ThreadsAreOfLive
  <2>4. desk.win[w].active /\ desk.win[w].n = 0 /\ \E h \in Pos : h[1] = u[1] /\ hs[h] = w
      BY <2>1, <2>3 DEF EventWaiter
  <2> HIDE DEF w
  <2>5. desk'.win[w].active /\ desk'.win[w].n = 0
      BY <1>5, <1>7, <2>3, <2>4
  <2>6. \E h \in Pos : h[1] = u[1] /\ hs'[h] = w
      BY <1>3, <2>3, <2>4
  <2>7. QED BY <2>3, <2>5, <2>6
<1>15. \A w \in Win : desk'.win[w].refs = Cardinality(Opened(w)')
    BY <1>5, <1>7
<1>16. QED BY <1>9, <1>12, <1>13, <1>14, <1>15 DEF WinInv

LEMMA WinWaitEvents ==
    ASSUME WinInv, NEW th \in Threads, NEW h \in Pos, W!WaitEvents(th, h)
    PROVE  WinInv'
<1> DEFINE w == hs[h]
<1>1. /\ tst[th] = "ready" /\ h[1] = th[1] /\ w # W!Nobody
      /\ desk.win[w].n = 0 /\ desk.win[w].active
      /\ tst' = [tst EXCEPT ![th] = "waiting"] /\ gfxWaitsOn' = [gfxWaitsOn EXCEPT ![th] = w]
      /\ pst' = pst /\ desk' = desk /\ hs' = hs /\ gfxMisused' = gfxMisused
    BY DEF W!WaitEvents, W!Uses, W!Enter, W!Running, W!Sleeps
<1>2. hs[h] = w /\ w \in Win
    BY <1>1 DEF WinInv, WinTypes, WinOrNobody
<1> HIDE DEF w
<1>3. /\ tst'[th] = "waiting" /\ gfxWaitsOn'[th] = w
      /\ \A u \in Threads : u # th => tst'[u] = tst[u] /\ gfxWaitsOn'[u] = gfxWaitsOn[u]
    BY <1>1 DEF WinInv, WinTypes
<1>4. WinTypes'
    BY <1>1, <1>2 DEF WinInv, WinTypes, WinOrNobody
<1>5. ThreadsAreOfLive'
    BY <1>1, <1>3 DEF WinInv, ThreadsAreOfLive
<1>6. \A x \in Win : Opened(x)' = Opened(x)
    BY <1>1 DEF Opened
<1>7. ASSUME ~gfxMisused', NEW u \in Threads PROVE EventWaiter(u)'
  <2>1. CASE u = th
      BY <1>1, <1>2, <1>3, <2>1 DEF EventWaiter
  <2>2. CASE u # th
    <3>1. EventWaiter(u)
        BY <1>1, <1>7 DEF WinInv
    <3>2. QED BY <1>1, <1>3, <2>2, <3>1 DEF EventWaiter
  <2>3. QED BY <2>1, <2>2
<1>8. AtRest(desk)' /\ \A x \in Win : desk'.win[x].refs = Cardinality(Opened(x)')
    BY <1>1, <1>6 DEF WinInv
<1>9. \A x \in Pos : hs'[x] # W!Nobody => pst'[x[1]] # "free"
    BY <1>1 DEF WinInv
<1>10. QED BY <1>4, <1>5, <1>7, <1>8, <1>9 DEF WinInv

LEMMA WinReadEvents ==
    ASSUME WinInv, NEW th \in Threads, NEW h \in Pos, W!ReadEvents(th, h)
    PROVE  WinInv'
<1> DEFINE w == hs[h]
<1>1. /\ w # W!Nobody /\ pst' = pst /\ tst' = tst /\ gfxWaitsOn' = gfxWaitsOn
      /\ hs' = hs /\ gfxMisused' = gfxMisused
      /\ \E k \in 1 .. desk.win[w].n : desk' = [desk EXCEPT !.win[w].n = @ - k]
    BY DEF W!ReadEvents, W!Uses, W!processVars
<1>2. hs[h] = w /\ w \in Win
    BY <1>1 DEF WinInv, WinTypes, WinOrNobody
<1> HIDE DEF w
<1>3. desk \in Desks /\ SoundDesk(desk) /\ AtRest(desk) /\ desk.win[w] \in WinRec
    BY <1>2 DEF WinInv, AtRest, SoundDesk, Desks
<1>4. PICK m \in Nat : desk' = [desk EXCEPT !.win[w].n = m] /\ desk.win[w].n > 0
  <2>1. PICK k \in 1 .. desk.win[w].n : desk' = [desk EXCEPT !.win[w].n = @ - k]
      BY <1>1
  <2>2. desk.win[w].n - k \in Nat /\ desk.win[w].n > 0
      BY <1>3 DEF WinRec
  <2>3. QED BY <2>1, <2>2
<1>5. /\ desk' \in Desks /\ desk'.grid = desk.grid /\ desk'.focus = desk.focus
      /\ desk'.single = desk.single /\ desk'.win = [desk.win EXCEPT ![w].n = m]
    BY <1>2, <1>3, <1>4 DEF Desks, WinRec
<1>6. ASSUME NEW x \in Win
      PROVE  /\ desk'.win[x].active = desk.win[x].active /\ desk'.win[x].focused = desk.win[x].focused
             /\ desk'.win[x].hidden = desk.win[x].hidden /\ desk'.win[x].size = desk.win[x].size
             /\ desk'.win[x].refs = desk.win[x].refs /\ (x # w => desk'.win[x] = desk.win[x])
    BY <1>2, <1>3, <1>5 DEF Desks, WinRec
<1>7. desk.win[w].refs > 0
    BY <1>2, OpenedIs DEF WinInv
<1>8. ASSUME NEW x \in Win
      PROVE  \/ desk'.win[x].refs > 0 \/ desk'.win[x].active
             \/ desk'.win[x] = W!Gone /\ ~desk.win[x].active
  <2>1. CASE x = w
      BY <1>6, <1>7, <2>1
  <2>2. CASE x # w
      BY <1>3, <1>6, <2>2, WindowFacts DEF SoundDesk
  <2>3. QED BY <2>1, <2>2
<1>9. Recounts(desk, desk')
    BY <1>5, <1>6, <1>8 DEF Recounts
<1>10. AtRest(desk')
    BY <1>3, <1>9, Recounted
<1>11. \A x \in Win : Opened(x)' = Opened(x)
    BY <1>1 DEF Opened
<1>12. \A x \in Win : desk'.win[x].refs = Cardinality(Opened(x)')
    BY <1>6, <1>11 DEF WinInv
<1>13. ASSUME ~gfxMisused', NEW u \in Threads PROVE EventWaiter(u)'
  <2>1. EventWaiter(u)
      BY <1>1, <1>13 DEF WinInv
  <2>2. tst[u] = "waiting" => gfxWaitsOn[u] # w
    <3>1. desk.win[w].n # 0
        BY <1>3, <1>4 DEF WinRec
    <3>2. QED BY <1>2, <2>1, <3>1 DEF EventWaiter
  <2>3. QED BY <1>1, <1>6, <2>1, <2>2 DEF EventWaiter
<1>14. WinTypes' /\ ThreadsAreOfLive' /\ \A x \in Pos : hs'[x] # W!Nobody => pst'[x[1]] # "free"
    BY <1>1 DEF WinInv, WinTypes, ThreadsAreOfLive
<1>15. QED BY <1>10, <1>12, <1>13, <1>14 DEF WinInv

(* What changes neither desk nor handles, and lets no thread wait, keeps   *)
(* what is right.                                                          *)
LEMMA WinElsewhere ==
    ASSUME WinInv, desk' = desk, hs' = hs, gfxMisused' = gfxMisused, WinTypes', ThreadsAreOfLive',
           \A p \in Procs : pst[p] # "free" => pst'[p] # "free",
           \A u \in Threads : tst'[u] = "waiting" =>
              tst[u] = "waiting" /\ gfxWaitsOn'[u] = gfxWaitsOn[u]
    PROVE  WinInv'
<1>1. \A x \in Win : Opened(x)' = Opened(x)
    BY DEF Opened
<1>2. AtRest(desk)' /\ \A x \in Win : desk'.win[x].refs = Cardinality(Opened(x)')
    BY <1>1 DEF WinInv
<1>3. \A x \in Pos : hs'[x] # W!Nobody => pst'[x[1]] # "free"
    BY DEF WinInv, Pos
<1>4. ASSUME ~gfxMisused', NEW u \in Threads PROVE EventWaiter(u)'
    BY <1>4 DEF WinInv, EventWaiter
<1>5. QED BY <1>2, <1>3, <1>4 DEF WinInv

LEMMA WinSpawn ==
    ASSUME WinInv, NEW th \in Threads, NEW u \in Threads, W!Spawn(th, u)
    PROVE  WinInv'
<1>1. /\ tst[th] = "ready" /\ u[1] = th[1] /\ tst' = [tst EXCEPT ![u] = "ready"] /\ pst' = pst
      /\ desk' = desk /\ hs' = hs /\ gfxWaitsOn' = gfxWaitsOn /\ gfxMisused' = gfxMisused
    BY DEF W!Spawn, W!Spawns, W!Running, W!gfxVars
<1>2. \A x \in Threads : tst'[x] = IF x = u THEN "ready" ELSE tst[x]
    BY <1>1 DEF WinInv, WinTypes
<1>3. WinTypes'
    BY <1>1 DEF WinInv, WinTypes
<1>4. ThreadsAreOfLive'
    BY <1>1, <1>2 DEF WinInv, ThreadsAreOfLive
<1>5. \A x \in Threads : tst'[x] = "waiting" => tst[x] = "waiting" /\ gfxWaitsOn'[x] = gfxWaitsOn[x]
    BY <1>1, <1>2
<1>6. QED BY <1>1, <1>3, <1>4, <1>5, WinElsewhere

LEMMA WinExit ==
    ASSUME WinInv, NEW th \in Threads, W!Exit(th)
    PROVE  WinInv'
<1> DEFINE p == th[1]
<1>1. /\ pst' = [pst EXCEPT ![p] = "zombie"]
      /\ tst' = [u \in Threads |-> IF u[1] = p THEN "none" ELSE tst[u]]
      /\ gfxWaitsOn' = [u \in Threads |-> IF u[1] = p THEN W!Nobody ELSE gfxWaitsOn[u]]
      /\ desk' = desk /\ hs' = hs /\ gfxMisused' = gfxMisused
    BY WinOps DEF W!Exit, W!Exits, W!Detach
<1> HIDE DEF p
<1>2. /\ \A u \in Threads : tst'[u] = IF u[1] = p THEN "none" ELSE tst[u]
      /\ \A u \in Threads : gfxWaitsOn'[u] = IF u[1] = p THEN W!Nobody ELSE gfxWaitsOn[u]
      /\ \A x \in Procs : pst'[x] = IF x = p THEN "zombie" ELSE pst[x]
    BY <1>1 DEF WinInv, WinTypes
<1>3. WinTypes'
    BY <1>1 DEF WinInv, WinTypes, WinOrNobody
<1>4. ThreadsAreOfLive'
    BY <1>2 DEF WinInv, ThreadsAreOfLive, Threads
<1>5. \A x \in Threads : tst'[x] = "waiting" => tst[x] = "waiting" /\ gfxWaitsOn'[x] = gfxWaitsOn[x]
    BY <1>2
<1>6. \A x \in Procs : pst[x] # "free" => pst'[x] # "free"
    BY <1>2
<1>7. QED BY <1>1, <1>3, <1>4, <1>5, <1>6, WinElsewhere

LEMMA WinStep ==
    ASSUME WinInv, W!Next
    PROVE  WinInv'
<1>1. CASE W!Key \/ W!CloseFocused \/ W!MoveFocus \/ W!MoveFocusedPane \/ W!ToggleSingle
    BY <1>1, WinUser
<1>2. ASSUME NEW th \in Threads, NEW h \in Pos,
             \/ \E w \in Win, kind \in {"term", "gfx"} : W!NewWindow(th, h, w, kind)
             \/ W!WaitEvents(th, h) \/ W!ReadEvents(th, h) \/ W!Close(th, h)
      PROVE  WinInv'
    BY <1>2, WinNewWindow, WinWaitEvents, WinReadEvents, WinClose
<1>3. ASSUME NEW th \in Threads,
             \/ \E u \in Threads : W!Spawn(th, u)
             \/ \E c \in Procs : W!Fork(th, c)
             \/ W!Exit(th) \/ W!Exec(th)
      PROVE  WinInv'
    BY <1>3, WinSpawn, WinFork, WinExit, WinExec
<1>4. ASSUME NEW th \in Threads, W!NoTileLeft(th)
      PROVE  WinInv'
  <2>1. pst' = pst /\ tst' = tst /\ desk' = desk /\ hs' = hs /\ gfxWaitsOn' = gfxWaitsOn
        /\ gfxMisused' = gfxMisused
      BY <1>4 DEF W!NoTileLeft, W!processVars
  <2>2. WinTypes' /\ ThreadsAreOfLive'
      BY <2>1 DEF WinInv, WinTypes, ThreadsAreOfLive
  <2>3. QED BY <2>1, <2>2, WinElsewhere
<1>5. ASSUME NEW p \in Procs, W!Reap(p)
      PROVE  WinInv'
    BY <1>5, WinReap
<1>6. QED BY <1>1, <1>2, <1>3, <1>4, <1>5, WinOps DEF W!Next

WinPart == DeskInv /\ (part = "windows" => WinInv)

LEMMA WinPartStep ==
    ASSUME WinPart, [Next]_vars
    PROVE  WinPart'
<1>1. part' = part
    BY DEF Next, vars
<1>2. CASE part = "windows" /\ W!Next
  <2>1. WinInv'
      BY <1>2, WinStep DEF WinPart
  <2>2. DeskInv'
      BY <2>1 DEF WinInv, WinTypes, DeskInv
  <2>3. QED BY <2>1, <2>2 DEF WinPart
<1>3. CASE UNCHANGED vars
  <2>1. /\ pst' = pst /\ tst' = tst /\ desk' = desk /\ hs' = hs /\ gfxWaitsOn' = gfxWaitsOn
        /\ gfxMisused' = gfxMisused
      BY <1>3 DEF vars, gfxVars
  <2>2. DeskInv'
    <3>1. \A x \in Win : Opened(x)' = Opened(x)
        BY <2>1 DEF Opened
    <3>2. QED BY <2>1, <3>1 DEF WinPart, DeskInv
  <2>3. ASSUME WinInv PROVE WinInv'
    <3>1. WinTypes' /\ ThreadsAreOfLive'
        BY <2>1, <2>3 DEF WinInv, WinTypes, ThreadsAreOfLive
    <3>2. QED BY <2>1, <2>3, <3>1, WinElsewhere
  <2>4. QED BY <1>1, <2>2, <2>3 DEF WinPart
<1>4. CASE part # "windows" /\ UNCHANGED gfxVars
  <2>1. desk' = desk /\ hs' = hs
      BY <1>4 DEF gfxVars
  <2>2. \A x \in Win : Opened(x)' = Opened(x)
      BY <2>1 DEF Opened
  <2>3. DeskInv'
      BY <2>1, <2>2 DEF WinPart, DeskInv
  <2>4. QED BY <1>1, <1>4, <2>3 DEF WinPart
<1>5. (part = "windows" /\ W!Next) \/ UNCHANGED vars \/ (part # "windows" /\ UNCHANGED gfxVars)
    BY DEF Next
<1>6. QED BY <1>2, <1>3, <1>4, <1>5

(* What the windows were told is what the root window shows, whatever the  *)
(* user and the programs ask for; a window lives as long as a handle or    *)
(* the root window refers to it; and whoever waits for its events has it   *)
(* open and will be told when it ends (plugin_gfx.c, window_qgrid.c).      *)
THEOREM WindowsStayRight == Spec => []WindowsAreRight
<1>1. Init => WinPart
  <2>1. ASSUME Init PROVE DeskInv /\ WinInv
    <3>1. WinInv
        BY <2>1, WinInit
    <3>2. QED BY <3>1 DEF WinInv, WinTypes, DeskInv
  <2>2. QED BY <2>1 DEF WinPart
<1>2. WinPart /\ [Next]_vars => WinPart'
    BY WinPartStep
<1>3. WinPart => WindowsAreRight
    BY WinInvIsRight DEF WinPart, WindowsAreRight
<1>4. QED BY <1>1, <1>2, <1>3, PTL DEF Spec
=============================================================================
