----------------------------- MODULE FilePlugin -----------------------------
(***************************************************************************)
(* The file system plugin (k_startup/src/plugin_fs.c) on a file system     *)
(* that is the tree of FileTree: node keys that are registered for as long *)
(* as a process works in a directory or has a file open, handles with a    *)
(* position, and threads that wait for a file to grow.  Sizes count        *)
(* transfers of KS_FS_TX_MAX_LEN.                                          *)
(***************************************************************************)
EXTENDS Processes, FileTree

CONSTANTS
    Hids,
    Sharing     \* may two threads of a process use one handle at a time?

VARIABLES
    refs,       \* nk_map: references of each registered node
    bwq,        \* nk_map: the threads that wait for each node to grow
    cwds,
    handles,    \* <<p, h>> -> [nk, pos], for the open ones
    ctx,        \* a waiting thread's handle, or Free once that is freed
    down        \* the system has shut down on a failed check

fileVars == <<processVars, tree, refs, bwq, cwds, handles, ctx, down>>

Free == << >>
Up(th) == Running(th) /\ ~down

FileInit ==
    /\ ProcessInit /\ TreeInit
    /\ refs = [k \in {Root} |-> 1] /\ bwq = [k \in {Root} |-> {}]
    /\ cwds = [p \in Procs |-> Root] /\ handles = << >>
    /\ ctx = [th \in Thread |-> Free] /\ down = FALSE

-----------------------------------------------------------------------------
(* The node key map *)

(* The plugin's state, as the calls below pass it on. *)
State == [refs |-> refs, bwq |-> bwq, woken |-> {}]

(* plg_fs_register_nk *)
Registered(st, k) ==
    [st EXCEPT
       !.refs = [x \in DOMAIN @ \cup {k} |-> IF x # k THEN @[x]
                                             ELSE IF k \in DOMAIN @ THEN @[k] + 1 ELSE 1],
       !.bwq  = [x \in DOMAIN @ \cup {k} |-> IF x \in DOMAIN @ THEN @[x] ELSE {}]]

(* plg_fs_deregister_nk: the last reference wakes those who wait, with     *)
(* FOS_E_STATE_MISMATCH.                                                   *)
Deregistered(st, k) ==
    IF st.refs[k] > 1 THEN [st EXCEPT !.refs[k] = @ - 1]
    ELSE [refs |-> [x \in DOMAIN st.refs \ {k} |-> st.refs[x]],
          bwq  |-> [x \in DOMAIN st.bwq \ {k} |-> st.bwq[x]],
          woken |-> st.woken \cup st.bwq[k]]

(* plg_fs_deregister_nk for each handle of hs, in whatever order: a key is *)
(* freed, and its waiters wake, with the last of its references.           *)
Closed(st, hs) ==
    LET Of(k) == Cardinality({h \in hs : handles[h].nk = k})
        last  == {k \in DOMAIN st.refs : st.refs[k] = Of(k)}
    IN  [refs |-> [k \in DOMAIN st.refs \ last |-> st.refs[k] - Of(k)],
         bwq  |-> [k \in DOMAIN st.bwq \ last |-> st.bwq[k]],
         woken |-> st.woken \cup UNION {st.bwq[k] : k \in last}]

Becomes(st) == refs' = st.refs /\ bwq' = st.bwq

(* Threads that are deleted or detached leave the queues. *)
Leave(st, ths) == [st EXCEPT !.bwq = [k \in DOMAIN @ |-> @[k] \ ths]]

Without(hs) == handles' = [h \in DOMAIN handles \ hs |-> handles[h]]

(* What a waiting thread's saved pointer leads to, once hs are freed. *)
Dangling(hs) == [th \in Thread |-> IF ctx[th] \in hs THEN Free ELSE ctx[th]]

-----------------------------------------------------------------------------
(* Paths *)

(* PLG_FS_PCID_SET_WD: the old directory is let go first. *)
SetWd(th, d) ==
    /\ Up(th) /\ IsDir(d)
    /\ Becomes(Registered(Deregistered(State, cwds[th[1]]), d))
    /\ cwds' = [cwds EXCEPT ![th[1]] = d]
    /\ UNCHANGED <<processVars, tree, handles, ctx, down>>

(* PLG_FS_PCID_TOUCH, PLG_FS_PCID_MKDIR *)
NewPath(th, d, n, dir) ==
    /\ Up(th) /\ NewNode(d, n, dir)
    /\ UNCHANGED <<processVars, refs, bwq, cwds, handles, ctx, down>>

(* Variant for a mutant: nobody asks who uses the node. *)
InUse_Not(d, n) == FALSE

InUse(d, n) == Child(d, n) \cap DOMAIN refs # {}

(* PLG_FS_PCID_REMOVE *)
RemovePath(th, d, n) ==
    /\ Up(th) /\ ~InUse(d, n) /\ Remove(d, n)
    /\ UNCHANGED <<processVars, refs, bwq, cwds, handles, ctx, down>>

(* PLG_FS_PCID_OPEN; what fails gives back what it has registered. *)
Open(th, f, h) ==
    /\ Up(th) /\ IsFile(f) /\ h[1] = th[1] /\ h \notin DOMAIN handles
    /\ Becomes(Registered(State, f))
    /\ handles' = [x \in DOMAIN handles \cup {h} |->
                     IF x = h THEN [nk |-> f, pos |-> 0] ELSE handles[x]]
    /\ UNCHANGED <<processVars, tree, cwds, ctx, down>>

-----------------------------------------------------------------------------
(* Handles *)

WaitsWith(h) == {th \in Thread : tst[th] = "waiting" /\ ctx[th] = h}

(* th, a thread of the process, makes a call on handle h. *)
Uses(th, h) ==
    Up(th) /\ h \in DOMAIN handles /\ h[1] = th[1] /\ (Sharing \/ WaitsWith(h) = {})

SizeOf(h) == tree[handles[h].nk].size

(* sc_handle_close with delete_fs_handle_state *)
Close(th, h) ==
    /\ Uses(th, h)
    /\ LET st == Deregistered(State, handles[h].nk) IN
       Becomes(st) /\ Wakes(st.woken)
    /\ Without({h}) /\ ctx' = Dangling({h})
    /\ UNCHANGED <<pst, main, tree, cwds, down>>

(* Variant for a mutant: whoever waits is not told of the growth. *)
Grown_Silent(f, checked) == down' = FALSE /\ UNCHANGED <<tst, bwq>>

(* The end of fs_hs_write once file f has grown: everyone who waits is     *)
(* woken; the check of the saved handle's position shuts the system down,  *)
(* and what it reads of a handle that is freed may be anything.            *)
Grown(f, checked) ==
    /\ bwq' = [bwq EXCEPT ![f] = {}]
    /\ down' \in {\E th \in bwq[f] : ctx[th] # Free /\ ~checked[ctx[th]],
                  \E th \in bwq[f] : ctx[th] = Free \/ ~checked[ctx[th]]}
    /\ Wakes(bwq[f])

(* fs_hs_write of one transfer: within the file, or at its end, where the  *)
(* file grows first; the write itself may fail after that.                 *)
Write(th, h) ==
    LET f == handles[h].nk
        pos == handles[h].pos
        moved == [handles EXCEPT ![h].pos = pos + 1]
        At(hs) == [x \in DOMAIN hs |-> hs[x].pos = SizeOf(h)]
    IN
    /\ Uses(th, h)
    /\ \/ /\ pos < SizeOf(h) /\ handles' = moved
          /\ UNCHANGED <<tree, bwq, tst, down>>
       \/ /\ pos = SizeOf(h) /\ pos < MaxSize
          /\ Resize(f, pos + 1)
          /\ \/ handles' = moved /\ Grown(f, At(moved))
             \/ UNCHANGED handles /\ Grown(f, At(handles))
    /\ UNCHANGED <<pst, main, refs, cwds, ctx>>

(* fs_hs_read of one transfer *)
Read(th, h) ==
    /\ Uses(th, h) /\ handles[h].pos < SizeOf(h)
    /\ handles' = [handles EXCEPT ![h].pos = @ + 1]
    /\ UNCHANGED <<processVars, tree, refs, bwq, cwds, ctx, down>>

(* fs_hs_wait_read_ready of a thread that has read all there is *)
WaitRead(th, h) ==
    /\ Uses(th, h) /\ handles[h].pos = SizeOf(h)
    /\ Sleeps(th) /\ ctx' = [ctx EXCEPT ![th] = h]
    /\ bwq' = [bwq EXCEPT ![handles[h].nk] = @ \cup {th}]
    /\ UNCHANGED <<pst, main, tree, refs, cwds, handles, down>>

(* PLG_FS_HCID_SEEK, with a position past the end cut to the end *)
Seek(th, h, pos) ==
    /\ Uses(th, h) /\ pos <= SizeOf(h)
    /\ handles' = [handles EXCEPT ![h].pos = pos]
    /\ UNCHANGED <<processVars, tree, refs, bwq, cwds, ctx, down>>

-----------------------------------------------------------------------------
(* The life of processes *)

HandlesOf(p) == {h \in DOMAIN handles : h[1] = p}

(* The references of a child that shares p's directory and open files:     *)
(* plg_fs_on_fork_proc, and copy_fs_handle_state for each handle.          *)
Shared(st, p) ==
    LET Count(k) == Cardinality({h \in HandlesOf(p) : handles[h].nk = k})
                    + (IF cwds[p] = k THEN 1 ELSE 0)
    IN  [st EXCEPT !.refs = [k \in DOMAIN @ |-> @[k] + Count(k)]]

Fork(th, c) ==
    /\ ~down /\ Forks(th, c)
    /\ Becomes(Shared(State, th[1]))
    /\ cwds' = [cwds EXCEPT ![c] = cwds[th[1]]]
    /\ handles' = [h \in DOMAIN handles \cup {<<c, x[2]>> : x \in HandlesOf(th[1])} |->
                     IF h[1] = c THEN handles[<<th[1], h[2]>>] ELSE handles[h]]
    /\ UNCHANGED <<tree, ctx, down>>

(* A zombie keeps its handles and its directory. *)
Exit(th) ==
    /\ ~down /\ Exits(th)
    /\ Becomes(Leave(State, ThreadsOf(th[1])))
    /\ UNCHANGED <<tree, cwds, handles, ctx, down>>

(* plg_fs_on_reap_proc, and delete_process with all handles.  The entry of *)
(* cwds is left as it is.                                                  *)
Reap(p) ==
    /\ ~down /\ pst[p] = "zombie" /\ pst' = [pst EXCEPT ![p] = "free"]
    /\ LET st == Closed(Deregistered(State, cwds[p]), HandlesOf(p)) IN
       Becomes(st) /\ Wakes(st.woken)
    /\ Without(HandlesOf(p)) /\ ctx' = Dangling(HandlesOf(p))
    /\ UNCHANGED <<main, tree, cwds, down>>

(* proc_exec: the handles that are not the default ones are deleted, after *)
(* the threads.                                                            *)
Exec(th, kept) ==
    LET gone == HandlesOf(th[1]) \ kept
        st   == Closed(Leave(State, ThreadsOf(th[1])), gone)
    IN
    /\ Up(th) /\ Becomes(st)
    /\ tst' = [u \in Thread |-> IF u \in st.woken THEN "ready" ELSE AfterExec(th)[u]]
    /\ Without(gone) /\ ctx' = Dangling(gone)
    /\ UNCHANGED <<pst, main, tree, cwds, down>>

FileNext ==
    \/ \E th \in Thread :
        \/ \E d \in Exists : SetWd(th, d)
        \/ \E d \in Exists, n \in Names :
              \/ NewPath(th, d, n, TRUE) \/ NewPath(th, d, n, FALSE)
              \/ RemovePath(th, d, n)
        \/ \E h \in Procs \X Hids :
              \/ \E f \in Exists : Open(th, f, h)
              \/ Close(th, h) \/ Write(th, h) \/ Read(th, h) \/ WaitRead(th, h)
              \/ \E pos \in Sizes : Seek(th, h, pos)
        \/ \E u \in Thread : /\ ~down /\ Spawns(th, u)
                             /\ UNCHANGED <<tree, refs, bwq, cwds, handles, ctx, down>>
        \/ \E c \in Procs : Fork(th, c)
        \/ \E kept \in SUBSET (Procs \X Hids) : kept \subseteq HandlesOf(th[1]) /\ Exec(th, kept)
        \/ Exit(th)
    \/ \E p \in Procs : Reap(p)

Spec == FileInit /\ [][FileNext]_fileVars

-----------------------------------------------------------------------------
Holders(k) ==
    Cardinality({p \in Procs : pst[p] # "free" /\ cwds[p] = k})
    + Cardinality({h \in DOMAIN handles : handles[h].nk = k})

(***************************************************************************)
(* The references of a registered key are the processes that work in the   *)
(* directory, zombies too, and the handles on the file, of all processes:  *)
(* no fork, exec, exit, failure or change of directory loses or invents    *)
(* one, so the key is freed with its last user and not before              *)
(* (plugin_fs.c:107-202, 505-594).                                         *)
(***************************************************************************)
ReferencesAreHolders ==
    /\ \A k \in DOMAIN refs : refs[k] = Holders(k)
    /\ \A k \in Exists : Holders(k) > 0 => k \in DOMAIN refs

(***************************************************************************)
(* What a process works in or has open still exists, directory or file as  *)
(* it was, and no handle points past the end of its file: the positions    *)
(* and entries inside a key stay good while it is held, whatever is        *)
(* removed and made by others (plugin_fs.c:318-351, 607-760).              *)
(***************************************************************************)
HeldNodesExist ==
    /\ \A p \in Procs : pst[p] # "free" => IsDir(cwds[p])
    /\ \A h \in DOMAIN handles : IsFile(handles[h].nk) /\ handles[h].pos <= SizeOf(h)

(***************************************************************************)
(* With one thread to a handle, a thread waits for a file only while it    *)
(* has read all of it, with a handle that is open: it is woken by whatever *)
(* ends that, growth or the last reference, and the check of positions     *)
(* never shuts the system down (plugin_fs.c:732-766).                      *)
(***************************************************************************)
WaitersAreAtTheEnd ==
    /\ ~down
    /\ \A th \in Thread : tst[th] = "waiting" =>
          /\ ctx[th] \in DOMAIN handles /\ ctx[th][1] = th[1]
          /\ th \in bwq[handles[ctx[th]].nk]
          /\ handles[ctx[th]].pos = SizeOf(ctx[th])
=============================================================================
