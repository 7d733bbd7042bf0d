----------------------------- MODULE FlushMerge -----------------------------
(***************************************************************************)
(* Merging of cache flushes: f2fs_issue_flush, issue_flush_thread and the  *)
(* creation and destruction of the thread at remount (segment.c, super.c). *)
(*                                                                         *)
(* fsync ends with f2fs_issue_flush.  The first caller flushes the device  *)
(* itself; callers that arrive meanwhile put a command on issue_list for   *)
(* the flush thread, or, when there is no thread, one of them serves the   *)
(* list for all.  Each caller syncs a file of its own, so a caller stands  *)
(* for its process, its struct flush_cmd and its inode.                    *)
(***************************************************************************)
EXTENDS Integers, Sequences, FiniteSets, SequencesExt

CONSTANTS
    Callers,      \* processes that call fsync
    Options,      \* what remounts ask for, a subset of AllOptions
    RoFlags,      \* SB_RDONLY of the mount and of remounts, a subset of BOOLEAN
    MaxRemounts,  \* bound: number of remounts
    MaxIssing,    \* bound: no call starts when issing_flush has come to this
    InitMerge,    \* FLUSH_MERGE at mount
    NoBarrier,    \* mount option nobarrier
    DevCounts,    \* what s_ndevs may be: 0, 1 (a single zoned device) or more
    IoErrors,     \* the device may fail a flush
    Thread,       \* the flush thread
    Idle          \* no flush submitted

AllOptions == {"flush_merge", "noflush_merge", "bad option"}

ASSUME FlushAssumption ==
    /\ IsFiniteSet(Callers) /\ Thread \notin Callers
    /\ {InitMerge, NoBarrier, IoErrors} \subseteq BOOLEAN
    /\ DevCounts \cup {MaxRemounts, MaxIssing} \subseteq Nat
    /\ Options \subseteq AllOptions /\ RoFlags \subseteq BOOLEAN

Procs == Callers \cup {Thread}
Results == {"ok", "EIO"}

VARIABLES
    flush_merge,      \* test_opt(sbi, FLUSH_MERGE)
    issing_flush,     \* fcc->issing_flush
    issue_list,       \* fcc->issue_list, newest first
    f2fs_issue_flush, \* fcc->f2fs_issue_flush is not NULL
    dispatch_list,    \* fcc->dispatch_list
    pc,               \* where each caller and the thread are
    list,             \* the list a caller has taken to serve it
    ret,              \* the local variable ret of each process
    cmd_ret,          \* what each caller returns: cmd.ret, or ret of its own flush
    done,             \* cmd.wait is completed
    flight,           \* inodes a flush in flight covers, or Idle
    should_stop,      \* kthread_should_stop
    queued,           \* the thread is on flush_wait_queue
    woken,            \* the thread has been woken since
    remount,          \* progress of a remount
    org_mount_opt,    \* FLUSH_MERGE before it
    readonly,         \* f2fs_readonly(sb)
    rdonly,           \* *flags & SB_RDONLY of the last mount or remount
    fcc_info,         \* SM_I(sbi)->fcc_info is not NULL
    cached,           \* inodes with written data in the device's volatile cache
    flush_ino,        \* inodes with an entry in the FLUSH_INO list
    s_ndevs,          \* sbi->s_ndevs, set at mount
    remounts          \* counter for the bound

fcc == <<flush_merge, issing_flush, issue_list, f2fs_issue_flush, dispatch_list>>
thread == <<should_stop, queued, woken>>
data == <<cached, flush_ino, s_ndevs>>
mount == <<remount, org_mount_opt, remounts, readonly, rdonly, fcc_info>>
vars == <<fcc, pc, list, ret, cmd_ret, done, flight, thread, mount, data>>

(* build_segment_manager sets fcc up on a writable mount only.             *)
Init ==
    /\ readonly \in RoFlags /\ rdonly = readonly /\ fcc_info = ~readonly
    /\ flush_merge = InitMerge
    /\ issing_flush = 0 /\ issue_list = <<>> /\ dispatch_list = <<>>
    /\ f2fs_issue_flush = (InitMerge /\ ~readonly)
    /\ pc = [p \in Procs |-> IF p # Thread THEN "idle"
                             ELSE IF f2fs_issue_flush THEN "repeat" ELSE "exited"]
    /\ list = [c \in Callers |-> <<>>]
    /\ ret = [p \in Procs |-> "ok"] /\ cmd_ret = [c \in Callers |-> "ok"]
    /\ done = [c \in Callers |-> FALSE]
    /\ flight = [p \in Procs |-> Idle]
    /\ should_stop = FALSE /\ queued = FALSE /\ woken = FALSE
    /\ remount = "none" /\ remounts = 0 /\ org_mount_opt = InitMerge
    /\ cached = {} /\ flush_ino = {} /\ s_ndevs \in DevCounts

Goto(p, l) == pc' = [pc EXCEPT ![p] = l]

----------------------------------------------------------------------------
(* Writes and checkpoints, as far as flushes see them                      *)

(* Nothing is written any more once a remount has synced the file system   *)
(* to make it read-only.                                                   *)
Writable == ~readonly /\ ~(rdonly /\ remount \in {"destroy", "stop", "join"})

(* A page of c's file is written (update_device_state): the data stays in  *)
(* the cache until a flush that starts after the write has finished.       *)
update_device_state(c) ==
    /\ pc[c] \in {"idle", "sync"} /\ c \notin cached /\ Writable
    /\ cached' = cached \cup {c}
    /\ flush_ino' = IF s_ndevs > 0 THEN flush_ino \cup {c} ELSE flush_ino
    /\ flight' = [p \in Procs |-> IF flight[p] = Idle THEN Idle ELSE flight[p] \ {c}]
    /\ UNCHANGED <<fcc, pc, list, ret, cmd_ret, done, thread, mount, s_ndevs>>

----------------------------------------------------------------------------
(* submit_flush_wait(sbi, ino) by process p: with s_ndevs it flushes the   *)
(* devices that ino has dirtied, and none if there is no FLUSH_INO entry.  *)

Covered(ino) ==
    IF s_ndevs = 0 THEN cached
    ELSE IF ino \notin flush_ino THEN {}
    ELSE IF s_ndevs = 1 THEN cached ELSE cached \cap {ino}
Submits(ino) == s_ndevs = 0 \/ ino \in flush_ino

FlushBegins(p, ino) ==
    /\ flight[p] = Idle
    /\ flight' = [flight EXCEPT ![p] = Covered(ino)]

(* The result r of the flush that p has submitted.                         *)
FlushEnds(p, ino, r) ==
    /\ flight[p] # Idle
    /\ r = "EIO" => IoErrors /\ Submits(ino)
    /\ flight' = [flight EXCEPT ![p] = Idle]
    /\ cached' = IF r = "ok" THEN cached \ flight[p] ELSE cached

----------------------------------------------------------------------------
(* f2fs_issue_flush, called by c                                           *)

Lists == {issue_list, dispatch_list} \cup {list[c] : c \in Callers}
OnList(c) == \E s \in Lists : c \in Range(s)

(* fsync tests once, at its start, that the file system is writable.       *)
f2fs_do_sync_file(c) ==
    /\ pc[c] = "idle" /\ ~readonly
    /\ Goto(c, "sync")
    /\ UNCHANGED <<fcc, list, ret, cmd_ret, done, flight, thread, mount, data>>

(* A caller whose command is still on a list has lost its stack frame to   *)
(* the list: what its next call would do is undefined, and not modelled.   *)
(* Without fcc_info (mounted read-only, remounted with noflush_merge) the  *)
(* caller dies of its NULL pointer.                                        *)
f2fs_issue_flush_call(c) ==
    /\ pc[c] = "sync" /\ ~OnList(c) /\ issing_flush < MaxIssing
    /\ Goto(c, IF NoBarrier THEN "return" ELSE IF ~fcc_info THEN "oops"
               ELSE IF flush_merge THEN "count" ELSE "nomerge")
    /\ UNCHANGED <<fcc, list, ret, cmd_ret, done, flight, thread, mount, data>>

atomic_inc_return(c) ==
    /\ pc[c] = "count"
    /\ issing_flush' = issing_flush + 1
    /\ Goto(c, IF issing_flush' = 1 \/ s_ndevs > 1 THEN "direct" ELSE "add")
    /\ UNCHANGED <<flush_merge, issue_list, f2fs_issue_flush, dispatch_list, list, ret, cmd_ret, done,
                   flight, thread, mount, data>>

submit_flush_wait_begins(c) ==
    /\ pc[c] \in {"nomerge", "direct", "serve"}
    /\ FlushBegins(c, c)
    /\ UNCHANGED <<fcc, pc, list, ret, cmd_ret, done, thread, mount, data>>

(* The caller's own flush, counted in issing_flush or not.                 *)
submit_flush_wait_ends(c) ==
    /\ pc[c] \in {"nomerge", "direct"}
    /\ \E r \in Results : FlushEnds(c, c, r) /\ cmd_ret' = [cmd_ret EXCEPT ![c] = r]
    /\ issing_flush' = issing_flush - (IF pc[c] = "direct" THEN 1 ELSE 0)
    /\ Goto(c, "return")
    /\ UNCHANGED <<flush_merge, issue_list, f2fs_issue_flush, dispatch_list, list, ret, done,
                   thread, mount, flush_ino, s_ndevs>>

(* cmd is a local variable: its ret is whatever the stack holds.           *)
llist_add(c) ==
    /\ pc[c] = "add"
    /\ issue_list' = <<c>> \o issue_list
    /\ done' = [done EXCEPT ![c] = FALSE]
    /\ \E r \in Results : cmd_ret' = [cmd_ret EXCEPT ![c] = r]
    /\ Goto(c, "wake")
    /\ UNCHANGED <<flush_merge, issing_flush, f2fs_issue_flush, dispatch_list, list, ret,
                   flight, thread, mount, data>>

(* The barrier before waitqueue_active orders it after the addition.       *)
wake_up(c) ==
    /\ pc[c] = "wake"
    /\ woken' = (woken \/ queued)
    /\ Goto(c, "choose")
    /\ UNCHANGED <<fcc, list, ret, cmd_ret, done, flight, should_stop, queued, mount, data>>

choose(c) ==
    /\ pc[c] = "choose"
    /\ Goto(c, IF f2fs_issue_flush THEN "wait" ELSE "take")
    /\ UNCHANGED <<fcc, list, ret, cmd_ret, done, flight, thread, mount, data>>

(* No thread: c takes the list, or waits for the one that has taken it.    *)
llist_del_all(c) ==
    /\ pc[c] = "take"
    /\ list' = [list EXCEPT ![c] = issue_list]
    /\ issue_list' = <<>>
    /\ Goto(c, IF issue_list = <<>> THEN "wait" ELSE "serve")
    /\ UNCHANGED <<flush_merge, issing_flush, f2fs_issue_flush, dispatch_list, ret, cmd_ret, done,
                   flight, thread, mount, data>>

serve_ends(c) ==
    /\ pc[c] = "serve"
    /\ \E r \in Results : FlushEnds(c, c, r) /\ ret' = [ret EXCEPT ![c] = r]
    /\ Goto(c, "complete")
    /\ UNCHANGED <<fcc, list, cmd_ret, done, thread, mount, flush_ino, s_ndevs>>

(* The next command of the list: c's own, or one whose caller waits.       *)
serve_complete(c) ==
    /\ pc[c] = "complete" /\ list[c] # <<>>
    /\ LET tmp == Head(list[c])
       IN  /\ cmd_ret' = [cmd_ret EXCEPT ![tmp] = ret[c]]
           /\ IF tmp = c THEN issing_flush' = issing_flush - 1 /\ done' = done
              ELSE done' = [done EXCEPT ![tmp] = TRUE] /\ issing_flush' = issing_flush
    /\ list' = [list EXCEPT ![c] = Tail(@)]
    /\ UNCHANGED <<flush_merge, issue_list, f2fs_issue_flush, dispatch_list, pc, ret, flight,
                   thread, mount, data>>

serve_return(c) ==
    /\ pc[c] = "complete" /\ list[c] = <<>>
    /\ Goto(c, "return")
    /\ UNCHANGED <<fcc, list, ret, cmd_ret, done, flight, thread, mount, data>>

\* wrong variant: the counter is not given back
WaitKeepsCount(c) ==
    /\ pc[c] = "wait" /\ done[c]
    /\ Goto(c, "return")
    /\ UNCHANGED <<fcc, list, ret, cmd_ret, done, flight, thread, mount, data>>

wait_for_completion(c) ==
    /\ pc[c] = "wait" /\ done[c]
    /\ issing_flush' = issing_flush - 1
    /\ Goto(c, "return")
    /\ UNCHANGED <<flush_merge, issue_list, f2fs_issue_flush, dispatch_list, list, ret, cmd_ret,
                   done, flight, thread, mount, data>>

(* Back in f2fs_do_sync_file, which forgets the FLUSH_INO entry; the stack *)
(* frame with ret and cmd is gone.                                         *)
f2fs_do_sync_file_out(c) ==
    /\ pc[c] = "return"
    /\ Goto(c, "idle")
    /\ flush_ino' = IF cmd_ret[c] = "ok" THEN flush_ino \ {c} ELSE flush_ino
    /\ cmd_ret' = [cmd_ret EXCEPT ![c] = "ok"] /\ ret' = [ret EXCEPT ![c] = "ok"]
    /\ done' = [done EXCEPT ![c] = FALSE]
    /\ UNCHANGED <<fcc, list, flight, thread, mount, cached, s_ndevs>>

----------------------------------------------------------------------------
(* issue_flush_thread                                                      *)

thread_repeat ==
    /\ pc[Thread] = "repeat"
    /\ Goto(Thread, IF should_stop THEN "exited"
                    ELSE IF issue_list # <<>> THEN "take" ELSE "prepare")
    /\ UNCHANGED <<fcc, list, ret, cmd_ret, done, flight, thread, mount, data>>

thread_llist_del_all ==
    /\ pc[Thread] = "take"
    /\ dispatch_list' = Reverse(issue_list)
    /\ issue_list' = <<>>
    /\ Goto(Thread, "dispatch")
    /\ UNCHANGED <<flush_merge, issing_flush, f2fs_issue_flush, list, ret, cmd_ret, done, flight,
                   thread, mount, data>>

(* One flush, for the inode of the oldest command, answers all of them.    *)
thread_flush_begins ==
    /\ pc[Thread] = "dispatch" /\ dispatch_list # <<>>
    /\ FlushBegins(Thread, Head(dispatch_list))
    /\ UNCHANGED <<fcc, pc, list, ret, cmd_ret, done, thread, mount, data>>

\* wrong variant: commands that came during the flush are answered by it
TakeAfterFlush ==
    /\ pc[Thread] = "dispatch" /\ dispatch_list # <<>>
    /\ \E r \in Results : /\ FlushEnds(Thread, Head(dispatch_list), r)
                          /\ ret' = [ret EXCEPT ![Thread] = r]
    /\ dispatch_list' = dispatch_list \o Reverse(issue_list)
    /\ issue_list' = <<>>
    /\ Goto(Thread, "complete")
    /\ UNCHANGED <<flush_merge, issing_flush, f2fs_issue_flush, list, cmd_ret, done, thread, mount,
                   flush_ino, s_ndevs>>

thread_flush_ends ==
    /\ pc[Thread] = "dispatch" /\ dispatch_list # <<>>
    /\ \E r \in Results : /\ FlushEnds(Thread, Head(dispatch_list), r)
                          /\ ret' = [ret EXCEPT ![Thread] = r]
    /\ Goto(Thread, "complete")
    /\ UNCHANGED <<fcc, list, cmd_ret, done, thread, mount, flush_ino, s_ndevs>>

\* wrong variants: the result is not handed over; a command may be answered twice
CompleteForgetsRet ==
    /\ pc[Thread] = "complete" /\ dispatch_list # <<>>
    /\ done' = [done EXCEPT ![Head(dispatch_list)] = TRUE]
    /\ dispatch_list' = Tail(dispatch_list)
    /\ UNCHANGED <<flush_merge, issing_flush, issue_list, f2fs_issue_flush, pc, list, ret, cmd_ret,
                   flight, thread, mount, data>>
CompleteTwice ==
    /\ pc[Thread] = "complete" /\ dispatch_list # <<>>
    /\ cmd_ret' = [cmd_ret EXCEPT ![Head(dispatch_list)] = ret[Thread]]
    /\ done' = [done EXCEPT ![Head(dispatch_list)] = TRUE]
    /\ dispatch_list' \in {dispatch_list, Tail(dispatch_list)}
    /\ UNCHANGED <<flush_merge, issing_flush, issue_list, f2fs_issue_flush, pc, list, ret,
                   flight, thread, mount, data>>

thread_complete ==
    /\ pc[Thread] = "complete" /\ dispatch_list # <<>>
    /\ cmd_ret' = [cmd_ret EXCEPT ![Head(dispatch_list)] = ret[Thread]]
    /\ done' = [done EXCEPT ![Head(dispatch_list)] = TRUE]
    /\ dispatch_list' = Tail(dispatch_list)
    /\ UNCHANGED <<flush_merge, issing_flush, issue_list, f2fs_issue_flush, pc, list, ret,
                   flight, thread, mount, data>>

thread_dispatched ==
    /\ pc[Thread] = "complete" /\ dispatch_list = <<>>
    /\ Goto(Thread, "prepare")
    /\ ret' = [ret EXCEPT ![Thread] = "ok"]
    /\ UNCHANGED <<fcc, list, cmd_ret, done, flight, thread, mount, data>>

\* wrong variant: the condition is not tested once the thread is queued
PrepareSkipsTest ==
    /\ pc[Thread] = "prepare"
    /\ queued' = TRUE /\ woken' = FALSE
    /\ Goto(Thread, "asleep")
    /\ UNCHANGED <<fcc, list, ret, cmd_ret, done, flight, should_stop, mount, data>>

(* wait_event_interruptible: queue up, test the condition, sleep           *)
prepare_to_wait ==
    /\ pc[Thread] = "prepare"
    /\ queued' = TRUE /\ woken' = FALSE
    /\ Goto(Thread, "test")
    /\ UNCHANGED <<fcc, list, ret, cmd_ret, done, flight, should_stop, mount, data>>

wait_event_test ==
    /\ pc[Thread] = "test"
    /\ IF should_stop \/ issue_list # <<>>
       THEN Goto(Thread, "repeat") /\ queued' = FALSE
       ELSE Goto(Thread, "asleep") /\ queued' = TRUE
    /\ UNCHANGED <<fcc, list, ret, cmd_ret, done, flight, should_stop, woken, mount, data>>

schedule_returns ==
    /\ pc[Thread] = "asleep" /\ woken
    /\ woken' = FALSE
    /\ Goto(Thread, "test")
    /\ UNCHANGED <<fcc, list, ret, cmd_ret, done, flight, should_stop, queued, mount, data>>

----------------------------------------------------------------------------
(* f2fs_remount, under s_umount.  default_options turns FLUSH_MERGE on,    *)
(* parse_options may turn it off again or fail, and only then is the       *)
(* thread created or destroyed.  A remount from read-only to read-only     *)
(* skips that and keeps the option as parsed.  When f2fs_remount succeeds  *)
(* the VFS takes the new SB_RDONLY over.                                   *)

f2fs_remount ==
    /\ remount = "none" /\ remounts < MaxRemounts /\ Options # {}
    /\ remounts' = remounts + 1
    /\ rdonly' \in RoFlags
    /\ org_mount_opt' = flush_merge
    /\ flush_merge' = TRUE
    /\ remount' = "parse"
    /\ UNCHANGED <<issing_flush, issue_list, f2fs_issue_flush, dispatch_list, pc, list, ret, cmd_ret,
                   done, flight, thread, data, readonly, fcc_info>>

parse_options(opt) ==
    /\ remount = "parse"
    /\ flush_merge' = CASE opt = "flush_merge" -> TRUE
                         [] opt = "noflush_merge" -> FALSE
                         [] opt = "bad option" -> org_mount_opt
    /\ remount' = CASE opt = "bad option" -> "none"
                     [] opt # "bad option" /\ readonly /\ rdonly -> "none"
                     [] opt # "bad option" /\ ~readonly /\ rdonly -> "sync"
                     [] opt = "flush_merge" /\ ~rdonly -> "create"
                     [] opt = "noflush_merge" /\ ~rdonly -> "destroy"
    /\ UNCHANGED <<issing_flush, issue_list, f2fs_issue_flush, dispatch_list, pc, list, ret, cmd_ret,
                   done, flight, thread, data, org_mount_opt, remounts, readonly, rdonly, fcc_info>>

(* To read-only: sync with a checkpoint, whose result nobody looks at, and *)
(* clear FLUSH_MERGE.                                                      *)
f2fs_sync_fs ==
    /\ remount = "sync" /\ remount' = "destroy"
    /\ \/ /\ cached' = IF NoBarrier THEN cached ELSE {}
          /\ flush_ino' = {}
       \/ IoErrors /\ UNCHANGED <<cached, flush_ino>>
    /\ flush_merge' = FALSE
    /\ UNCHANGED <<issing_flush, issue_list, f2fs_issue_flush, dispatch_list, pc, list, ret, cmd_ret,
                   done, flight, thread, s_ndevs, org_mount_opt, remounts, readonly, rdonly, fcc_info>>

create_flush_cmd_control ==
    /\ remount = "create" /\ remount' = "none"
    /\ f2fs_issue_flush' = TRUE /\ fcc_info' = TRUE
    /\ pc' = IF f2fs_issue_flush THEN pc ELSE [pc EXCEPT ![Thread] = "repeat"]
    /\ readonly' = rdonly
    /\ UNCHANGED <<flush_merge, issing_flush, issue_list, dispatch_list, list, ret, cmd_ret, done,
                   flight, thread, data, org_mount_opt, remounts, rdonly>>

\* wrong variant: the pointer is cleared and the thread left alone
DestroyLeavesThread ==
    /\ remount = "destroy" /\ remount' = "none"
    /\ f2fs_issue_flush' = FALSE
    /\ readonly' = rdonly
    /\ UNCHANGED <<flush_merge, issing_flush, issue_list, dispatch_list, pc, list, ret, cmd_ret, done,
                   flight, thread, data, org_mount_opt, remounts, rdonly, fcc_info>>

(* The pointer is cleared first, then kthread_stop wakes the thread and    *)
(* waits for its exit.                                                     *)
destroy_flush_cmd_control ==
    /\ remount = "destroy"
    /\ remount' = IF f2fs_issue_flush THEN "stop" ELSE "none"
    /\ readonly' = IF f2fs_issue_flush THEN readonly ELSE rdonly
    /\ f2fs_issue_flush' = FALSE
    /\ UNCHANGED <<flush_merge, issing_flush, issue_list, dispatch_list, pc, list, ret, cmd_ret, done,
                   flight, thread, data, org_mount_opt, remounts, rdonly, fcc_info>>

kthread_stop ==
    /\ remount = "stop" /\ remount' = "join"
    /\ should_stop' = TRUE /\ woken' = TRUE
    /\ UNCHANGED <<fcc, pc, list, ret, cmd_ret, done, flight, queued, data, org_mount_opt, remounts,
                   readonly, rdonly, fcc_info>>

kthread_joined ==
    /\ remount = "join" /\ pc[Thread] = "exited"
    /\ remount' = "none" /\ readonly' = rdonly
    /\ should_stop' = FALSE /\ woken' = FALSE
    /\ UNCHANGED <<fcc, pc, list, ret, cmd_ret, done, flight, queued, data, org_mount_opt, remounts,
                   rdonly, fcc_info>>

----------------------------------------------------------------------------
issue_flush(c) ==
    \/ f2fs_issue_flush_call(c) \/ atomic_inc_return(c)
    \/ submit_flush_wait_begins(c) \/ submit_flush_wait_ends(c)
    \/ llist_add(c) \/ wake_up(c) \/ choose(c) \/ llist_del_all(c)
    \/ serve_ends(c) \/ serve_complete(c) \/ serve_return(c)
    \/ wait_for_completion(c) \/ f2fs_do_sync_file_out(c)

issue_flush_thread ==
    \/ thread_repeat \/ thread_llist_del_all
    \/ thread_flush_begins \/ thread_flush_ends \/ thread_complete \/ thread_dispatched
    \/ prepare_to_wait \/ wait_event_test \/ schedule_returns

remounting ==
    \/ \E opt \in Options : parse_options(opt)
    \/ f2fs_sync_fs \/ create_flush_cmd_control \/ destroy_flush_cmd_control \/ kthread_stop \/ kthread_joined

Next ==
    \/ \E c \in Callers : update_device_state(c) \/ f2fs_do_sync_file(c) \/ issue_flush(c)
    \/ issue_flush_thread
    \/ f2fs_remount
    \/ remounting

(* The scheduler runs every process that can run, and devices answer.      *)
Fairness ==
    /\ \A c \in Callers : WF_vars(issue_flush(c))
    /\ WF_vars(issue_flush_thread) /\ WF_vars(remounting)

Spec == Init /\ [][Next]_vars /\ Fairness

----------------------------------------------------------------------------
(* Properties                                                              *)

TypeOK ==
    /\ issing_flush \in 0 .. Cardinality(Callers)
    /\ issue_list \in Seq(Callers) /\ dispatch_list \in Seq(Callers)
    /\ list \in [Callers -> Seq(Callers)]
    /\ ret \in [Procs -> Results] /\ cmd_ret \in [Callers -> Results]
    /\ flight \in [Procs -> (SUBSET Callers) \cup {Idle}]
    /\ cached \subseteq Callers /\ flush_ino \subseteq Callers

(* fsync is "able to be recovered from sudden-power-off" (file.c): when    *)
(* f2fs_issue_flush returns 0, what the caller wrote before has left the   *)
(* volatile cache, whoever submitted the flush.                            *)
FlushDurable == \A c \in Callers :
    pc[c] = "return" /\ cmd_ret[c] = "ok" /\ ~NoBarrier => c \notin cached

(* A struct flush_cmd lives on its caller's stack: while it is on a list,  *)
(* its caller is inside f2fs_issue_flush and has not been answered.        *)
CmdAlive == \A c \in Callers : OnList(c) =>
    pc[c] \in {"wake", "choose", "take", "wait", "serve", "complete"} /\ ~done[c]

(* issing_flush counts the callers inside, so that the first one of a      *)
(* burst, and nobody else, flushes directly.                               *)
CountExact == issing_flush = Cardinality(
    {c \in Callers : \/ pc[c] \in {"direct", "add", "wake", "choose", "take", "wait", "serve"}
                     \/ pc[c] = "complete" /\ c \in Range(list[c])})

(* Between remounts the flush thread exists exactly when FLUSH_MERGE is on *)
(* and the file system is writable (remounts that keep it read-only turn   *)
(* the option on or off and leave the thread out):                         *)
(* create_flush_cmd_control starts no second thread, and                   *)
(* destroy_flush_cmd_control returns when the last one has exited.         *)
OneThread ==
    /\ remount = "none" => /\ f2fs_issue_flush <=> flush_merge /\ ~readonly
                           /\ f2fs_issue_flush <=> pc[Thread] # "exited"
                           /\ ~should_stop
    /\ f2fs_issue_flush => pc[Thread] # "exited"

(* The commands that a wake-up announces ("update issue_list before we     *)
(* wake up issue_flush thread", segment.c) are answered: fsync returns.    *)
QueuedIsServed == \A c \in Callers : pc[c] = "wait" ~> pc[c] = "idle"

(* Every call of f2fs_issue_flush returns.                                 *)
CallReturns == \A c \in Callers : pc[c] # "idle" ~> pc[c] = "idle"

=============================================================================
