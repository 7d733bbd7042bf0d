-------------------------- MODULE FlushMergeProofs --------------------------
(***************************************************************************)
(* Theorems about FlushMerge for every number of callers and devices.      *)
(***************************************************************************)
EXTENDS FlushMerge, FiniteSetTheorems, TLAPS

----------------------------------------------------------------------------
(* Types                                                                   *)

(* Where callers and the thread can be, and what a flush may cover.        *)
CallerLabels == {"idle", "sync", "count", "nomerge", "direct", "add", "wake", "choose", "take",
                 "wait", "serve", "complete", "return", "oops"}
ThreadLabels == {"repeat", "take", "dispatch", "complete", "prepare", "test", "asleep", "exited"}
Labels == CallerLabels \cup ThreadLabels
Flights == (SUBSET Callers) \cup {Idle}

(* The sets a flight may hold: idle, a smaller flight, and what a bio      *)
(* covers.                                                                 *)
LEMMA FlightsFacts ==
    /\ Idle \in Flights
    /\ \A S \in Flights, c \in Callers : S # Idle => S \ {c} \in Flights
    /\ \A c \in Callers : cached \subseteq Callers => Covered(c) \in Flights
<1>1. Idle \in Flights
  BY Zenon DEF Flights
<1>2. \A S \in Flights, c \in Callers : S # Idle => S \ {c} \in Flights
  BY DEF Flights
<1>3. ASSUME NEW c \in Callers, cached \subseteq Callers PROVE Covered(c) \in Flights
  BY <1>3 DEF Flights, Covered
<1>. QED
  BY <1>1, <1>2, <1>3

(* The sets the variables live in, but for the value of the counter.       *)
Typed ==
    /\ issue_list \in Seq(Callers) /\ dispatch_list \in Seq(Callers)
    /\ list \in [Callers -> Seq(Callers)]
    /\ pc \in [Procs -> Labels]
    /\ ret \in [Procs -> Results] /\ cmd_ret \in [Callers -> Results]
    /\ done \in [Callers -> BOOLEAN]
    /\ flight \in [Procs -> Flights]
    /\ cached \subseteq Callers /\ flush_ino \subseteq Callers
    /\ s_ndevs \in DevCounts /\ issing_flush \in Int

(* What tail, reversal and extension at the front do to a list of commands. *)
LEMMA ListFacts ==
    ASSUME NEW s \in Seq(Callers)
    PROVE  /\ Reverse(s) \in Seq(Callers) /\ Range(Reverse(s)) = Range(s)
           /\ \A c \in Callers : /\ <<c>> \o s \in Seq(Callers)
                                 /\ Range(<<c>> \o s) = Range(s) \cup {c}
           /\ s # <<>> => /\ Head(s) \in Callers /\ Tail(s) \in Seq(Callers)
                          /\ Range(s) = Range(Tail(s)) \cup {Head(s)}
           /\ Range(s) \subseteq Callers
           /\ s = <<>> <=> Range(s) = {}
<1>0. \A t \in Seq(Callers) : \A x : x \in Range(t) <=> \E i \in 1 .. Len(t) : t[i] = x
  BY DEF Range
<1>1. Reverse(s) \in Seq(Callers) /\ Range(Reverse(s)) = Range(s)
  <2>1. Reverse(s) \in Seq(Callers) /\ Len(Reverse(s)) = Len(s)
    BY DEF Reverse
  <2>2. \A i \in 1 .. Len(s) : Reverse(s)[i] = s[(Len(s) - i) + 1] /\ (Len(s) - i) + 1 \in 1 .. Len(s)
    BY DEF Reverse
  <2>3. \A i \in 1 .. Len(s) : s[i] = Reverse(s)[(Len(s) - i) + 1]
    BY DEF Reverse
  <2>. DEFINE t == Reverse(s)
  <2>4. t \in Seq(Callers) /\ Len(t) = Len(s)
        /\ \A i \in 1 .. Len(s) : /\ (Len(s) - i) + 1 \in 1 .. Len(s)
                                  /\ t[i] = s[(Len(s) - i) + 1] /\ s[i] = t[(Len(s) - i) + 1]
    BY <2>1, <2>2, <2>3
  <2>. HIDE DEF t
  <2>5. \A x : x \in Range(t) <=> x \in Range(s)
    <3>1. ASSUME NEW x, x \in Range(s) PROVE x \in Range(t)
      <4>1. PICK i \in 1 .. Len(s) : s[i] = x
        BY <3>1, <1>0
      <4>. QED
        BY <4>1, <1>0, <2>4
    <3>2. ASSUME NEW x, x \in Range(t) PROVE x \in Range(s)
      <4>1. PICK i \in 1 .. Len(s) : t[i] = x
        BY <3>2, <1>0, <2>4
      <4>. QED
        BY <4>1, <1>0, <2>4
    <3>. QED
      BY <3>1, <3>2
  <2>6. Range(t) = Range(s)
    BY <2>5
  <2>. QED
    BY <2>1, <2>6 DEF t
<1>2. ASSUME NEW c \in Callers
      PROVE  <<c>> \o s \in Seq(Callers) /\ Range(<<c>> \o s) = Range(s) \cup {c}
  <2>1. /\ <<c>> \o s \in Seq(Callers) /\ Len(<<c>> \o s) = Len(s) + 1
        /\ (<<c>> \o s)[1] = c /\ \A i \in 1 .. Len(s) : (<<c>> \o s)[i + 1] = s[i]
    OBVIOUS
  <2>2. \A i \in 1 .. (Len(s) + 1) : i = 1 \/ (i - 1 \in 1 .. Len(s) /\ (<<c>> \o s)[i] = s[i - 1])
    OBVIOUS
  <2>3. 1 \in 1 .. (Len(s) + 1) /\ \A i \in 1 .. Len(s) : i + 1 \in 1 .. (Len(s) + 1)
    OBVIOUS
  <2>. DEFINE t == <<c>> \o s
  <2>4. t \in Seq(Callers) /\ Len(t) = Len(s) + 1 /\ t[1] = c
        /\ (\A i \in 1 .. Len(s) : t[i + 1] = s[i])
        /\ \A i \in 1 .. (Len(s) + 1) : i = 1 \/ (i - 1 \in 1 .. Len(s) /\ t[i] = s[i - 1])
    BY <2>1, <2>2
  <2>. HIDE DEF t
  <2>5. \A x : x \in Range(t) <=> x \in Range(s) \/ x = c
    <3>1. ASSUME NEW x, x \in Range(t) PROVE x \in Range(s) \/ x = c
      BY <3>1, <1>0, <2>4
    <3>2. ASSUME NEW x \in Range(s) PROVE x \in Range(t)
      BY <3>2, <1>0, <2>3, <2>4
    <3>3. c \in Range(t)
      BY <1>0, <2>3, <2>4
    <3>. QED
      BY <3>1, <3>2, <3>3
  <2>6. Range(t) = Range(s) \cup {c}
    BY <2>5
  <2>. QED
    BY <2>4, <2>6 DEF t
<1>3. ASSUME s # <<>>
      PROVE  /\ Head(s) \in Callers /\ Tail(s) \in Seq(Callers)
             /\ Range(s) = Range(Tail(s)) \cup {Head(s)}
  <2>1. /\ Head(s) \in Callers /\ Tail(s) \in Seq(Callers) /\ Head(s) = s[1]
        /\ Len(s) \in Nat /\ Len(s) >= 1 /\ Len(Tail(s)) = Len(s) - 1
        /\ \A i \in 1 .. (Len(s) - 1) : Tail(s)[i] = s[i + 1]
    BY <1>3
  <2>. DEFINE t == Tail(s)  h == Head(s)
  <2>2. t \in Seq(Callers) /\ Len(t) = Len(s) - 1 /\ h = s[1]
        /\ \A i \in 1 .. (Len(s) - 1) : t[i] = s[i + 1]
    BY <2>1
  <2>. HIDE DEF t, h
  <2>3. \A x : x \in Range(s) <=> x \in Range(t) \/ x = h
    <3>1. ASSUME NEW x, x \in Range(s) PROVE x \in Range(t) \/ x = h
      <4>1. PICK i \in 1 .. Len(s) : s[i] = x
        BY <3>1, <1>0
      <4>2. i = 1 \/ (i - 1 \in 1 .. (Len(s) - 1) /\ t[i - 1] = x)
        BY <4>1, <2>1, <2>2
      <4>. QED
        BY <4>1, <4>2, <1>0, <2>2
    <3>2. ASSUME NEW x \in Range(t) PROVE x \in Range(s)
      BY <3>2, <1>0, <2>1, <2>2
    <3>3. h \in Range(s)
      BY <1>0, <2>1, <2>2
    <3>. QED
      BY <3>1, <3>2, <3>3
  <2>4. Range(s) = Range(t) \cup {h}
    BY <2>3
  <2>. QED
    BY <2>1, <2>4 DEF t, h
<1>4. Range(s) \subseteq Callers /\ (s = <<>> <=> Range(s) = {})
  <2>1. Range(s) \subseteq Callers
    BY <1>0
  <2>2. s = <<>> => Range(s) = {}
    <3>1. Range(s) = {s[i] : i \in DOMAIN s}
      BY DEF Range
    <3>2. s = <<>> => DOMAIN s = {}
      OBVIOUS
    <3>. QED
      BY <3>1, <3>2
  <2>3. s # <<>> => Range(s) # {}
    BY <1>3
  <2>. QED
    BY <2>1, <2>2, <2>3
<1>. QED
  BY <1>1, <1>2, <1>3, <1>4

(* Every step keeps the types.                                             *)
LEMMA TypedInit == Init => Typed
BY FlushAssumption, FlightsFacts DEF Init, Typed, Procs, Results, Labels, CallerLabels, ThreadLabels

(* No step of a caller, the flush thread or a remount leaves the types.    *)
LEMMA TypedStep ==
    ASSUME Typed, [Next]_vars
    PROVE  Typed'
<1>. USE FlightsFacts DEF Typed, Results, Procs, Goto, Labels, CallerLabels, ThreadLabels, fcc, thread, data, mount
<1>1. ASSUME NEW c \in Callers, update_device_state(c) \/ f2fs_do_sync_file(c) \/ issue_flush(c)
      PROVE  Typed'
  <2>1. CASE update_device_state(c)
    BY <2>1 DEF update_device_state
  <2>15. CASE f2fs_do_sync_file(c)
    BY <2>15 DEF f2fs_do_sync_file
  <2>2. CASE f2fs_issue_flush_call(c)
    BY <2>2 DEF f2fs_issue_flush_call
  <2>3. CASE atomic_inc_return(c)
    BY <2>3 DEF atomic_inc_return
  <2>4. CASE submit_flush_wait_begins(c)
    BY <2>4 DEF submit_flush_wait_begins, FlushBegins
  <2>5. CASE submit_flush_wait_ends(c)
    BY <2>5 DEF submit_flush_wait_ends, FlushEnds
  <2>6. CASE llist_add(c)
    BY <2>6, ListFacts DEF llist_add
  <2>7. CASE wake_up(c)
    BY <2>7 DEF wake_up
  <2>12. CASE choose(c)
    BY <2>12 DEF choose
  <2>13. CASE llist_del_all(c)
    BY <2>13 DEF llist_del_all
  <2>8. CASE serve_ends(c)
    BY <2>8 DEF serve_ends, FlushEnds
  <2>9. CASE serve_complete(c)
    <3>1. list[c] \in Seq(Callers) /\ list[c] # <<>>
      BY <2>9 DEF serve_complete
    <3>2. Head(list[c]) \in Callers /\ Tail(list[c]) \in Seq(Callers)
      BY <3>1, ListFacts
    <3>3. CASE Head(list[c]) = c
      BY <2>9, <3>2, <3>3 DEF serve_complete
    <3>4. CASE Head(list[c]) # c
      BY <2>9, <3>2, <3>4 DEF serve_complete
    <3>. QED
      BY <3>3, <3>4
  <2>10. CASE serve_return(c)
    BY <2>10 DEF serve_return
  <2>14. CASE wait_for_completion(c)
    BY <2>14 DEF wait_for_completion
  <2>11. CASE f2fs_do_sync_file_out(c)
    BY <2>11 DEF f2fs_do_sync_file_out
  <2>. QED
    BY <1>1, <2>1, <2>2, <2>3, <2>4, <2>5, <2>6, <2>7, <2>8, <2>9, <2>10, <2>11,
       <2>12, <2>13, <2>14, <2>15 DEF issue_flush
<1>2. ASSUME issue_flush_thread PROVE Typed'
  <2>1. CASE thread_repeat \/ prepare_to_wait \/ wait_event_test \/ schedule_returns
    BY <2>1 DEF thread_repeat, prepare_to_wait, wait_event_test, schedule_returns
  <2>2. CASE thread_llist_del_all
    BY <2>2, ListFacts DEF thread_llist_del_all
  <2>3. CASE thread_flush_begins
    BY <2>3 DEF thread_flush_begins, FlushBegins
  <2>4. CASE thread_flush_ends
    BY <2>4 DEF thread_flush_ends, FlushEnds
  <2>5. CASE thread_complete
    BY <2>5, ListFacts DEF thread_complete
  <2>6. CASE thread_dispatched
    BY <2>6 DEF thread_dispatched
  <2>. QED
    BY <1>2, <2>1, <2>2, <2>3, <2>4, <2>5, <2>6 DEF issue_flush_thread
<1>3. CASE f2fs_remount
  BY <1>3 DEF f2fs_remount
<1>4. CASE remounting
  BY <1>4 DEF remounting, parse_options, f2fs_sync_fs, create_flush_cmd_control,
              destroy_flush_cmd_control, kthread_stop, kthread_joined
<1>5. CASE UNCHANGED vars
  BY <1>5 DEF vars
<1>. QED
  BY <1>1, <1>2, <1>3, <1>4, <1>5 DEF Next

----------------------------------------------------------------------------
(* The flush thread and remounts                                           *)

(* How far a remount has come says what the option, the pointer and the    *)
(* thread are: the thread runs while the pointer is set, and kthread_stop  *)
(* is asked of a running thread only.                                      *)
ThreadInv ==
    /\ pc \in [Procs -> Labels]
    /\ flush_merge \in BOOLEAN /\ f2fs_issue_flush \in BOOLEAN
    /\ org_mount_opt \in BOOLEAN /\ should_stop \in BOOLEAN
    /\ readonly \in BOOLEAN /\ rdonly \in BOOLEAN
    /\ remount \in {"none", "parse", "sync", "create", "destroy", "stop", "join"}
    /\ remount # "join" => ~should_stop
    /\ remount \in {"none", "parse", "sync", "create", "destroy"} =>
         (f2fs_issue_flush <=> pc[Thread] # "exited")
    /\ remount = "none" => (f2fs_issue_flush <=> flush_merge /\ ~readonly)
    /\ remount = "parse" => (f2fs_issue_flush <=> org_mount_opt /\ ~readonly)
    /\ remount = "create" => flush_merge /\ ~rdonly
    /\ remount \in {"destroy", "stop", "join"} => ~flush_merge
    /\ remount \in {"stop", "join"} => ~f2fs_issue_flush
    /\ remount = "stop" => pc[Thread] # "exited"

(* The mount leaves the thread running exactly when flushes are merged.    *)
LEMMA ThreadInvInit == Init => ThreadInv
<1>1. Init => /\ flush_merge = InitMerge /\ f2fs_issue_flush = (InitMerge /\ ~readonly)
              /\ org_mount_opt = InitMerge /\ should_stop = FALSE /\ remount = "none"
              /\ readonly \in BOOLEAN /\ rdonly = readonly
              /\ pc[Thread] = (IF f2fs_issue_flush THEN "repeat" ELSE "exited")
              /\ pc \in [Procs -> Labels]
  BY FlushAssumption DEF Init, Procs, Labels, CallerLabels, ThreadLabels
<1>2. InitMerge \in BOOLEAN
  BY FlushAssumption, Zenon
<1>3. CASE InitMerge = TRUE
  BY <1>1, <1>3 DEF ThreadInv
<1>4. CASE InitMerge = FALSE
  BY <1>1, <1>4 DEF ThreadInv
<1>. QED
  BY <1>2, <1>3, <1>4, Zenon

(* Every step keeps the option, the thread and the remount in step.        *)
LEMMA ThreadInvStep ==
    ASSUME ThreadInv, [Next]_vars
    PROVE  ThreadInv'
<1>. USE FlushAssumption DEF ThreadInv, Procs, Goto, Labels, CallerLabels, ThreadLabels, fcc, thread, data, mount
<1>1. ASSUME NEW c \in Callers, update_device_state(c) \/ f2fs_do_sync_file(c) \/ issue_flush(c)
      PROVE  ThreadInv'
  <2>1. /\ \E l \in Labels : pc' = [pc EXCEPT ![c] = l] \/ pc' = pc
        /\ UNCHANGED <<flush_merge, f2fs_issue_flush, org_mount_opt, should_stop, remount, readonly, rdonly>>
    BY <1>1 DEF issue_flush, update_device_state, f2fs_do_sync_file, f2fs_issue_flush_call,
                atomic_inc_return, submit_flush_wait_begins, submit_flush_wait_ends, llist_add, wake_up, choose,
                llist_del_all, serve_ends, serve_complete, serve_return, wait_for_completion,
                f2fs_do_sync_file_out
  <2>. QED
    BY <2>1
<1>2. ASSUME issue_flush_thread PROVE ThreadInv'
  <2>1. /\ \E l \in Labels : /\ pc' = [pc EXCEPT ![Thread] = l] \/ pc' = pc
                             /\ l = "exited" => should_stop
        /\ pc[Thread] # "exited"
        /\ UNCHANGED <<flush_merge, f2fs_issue_flush, org_mount_opt, should_stop, remount, readonly, rdonly>>
    BY <1>2 DEF issue_flush_thread, thread_repeat, thread_llist_del_all, thread_flush_begins,
                thread_flush_ends, thread_complete, thread_dispatched, prepare_to_wait,
                wait_event_test, schedule_returns
  <2>. QED
    BY <2>1
<1>3. CASE f2fs_remount
  BY <1>3 DEF f2fs_remount
<1>4. ASSUME NEW opt \in Options, parse_options(opt) PROVE ThreadInv'
  <2>1. opt \in AllOptions
    BY DEF AllOptions
  <2>2. CASE opt = "flush_merge"
    BY <1>4, <2>2 DEF parse_options
  <2>3. CASE opt = "noflush_merge"
    BY <1>4, <2>3 DEF parse_options
  <2>4. CASE opt = "bad option"
    BY <1>4, <2>4 DEF parse_options
  <2>. QED
    BY <2>1, <2>2, <2>3, <2>4 DEF AllOptions
<1>10. CASE f2fs_sync_fs
  BY <1>10 DEF f2fs_sync_fs
<1>5. CASE create_flush_cmd_control
  BY <1>5 DEF create_flush_cmd_control
<1>6. CASE destroy_flush_cmd_control
  BY <1>6 DEF destroy_flush_cmd_control
<1>7. CASE kthread_stop
  BY <1>7 DEF kthread_stop
<1>9. CASE kthread_joined
  BY <1>9 DEF kthread_joined
<1>8. CASE UNCHANGED vars
  BY <1>8 DEF vars
<1>. QED
  BY <1>1, <1>2, <1>3, <1>4, <1>5, <1>6, <1>7, <1>8, <1>9, <1>10 DEF Next, remounting

(* The thread is one, and lives while its pointer is set (create_ and      *)
(* destroy_flush_cmd_control, f2fs_remount), whatever the callers do.      *)
THEOREM ThreadIsOne == Spec => []OneThread
<1>1. ThreadInv => OneThread
  BY DEF ThreadInv, OneThread
<1>. QED
  BY <1>1, ThreadInvInit, ThreadInvStep, PTL DEF Spec

----------------------------------------------------------------------------
(* Flushes and the data they make durable                                  *)

(* The commands that process p answers with the flush it submits.          *)
Cmds(p) == IF p = Thread THEN Range(dispatch_list) ELSE Range(list[p]) \cup {p}

(* Where a caller waits for its command, and where it can only come when   *)
(* FLUSH_MERGE is on and the thread is gone.                               *)
Queued == {"add", "wake", "choose", "take", "wait", "serve", "complete"}
Serving == {"take", "serve", "complete"}
Outside == {"idle", "sync"}

(* A flush in flight covers what the callers it answers have written, since *)
(* none of them has left f2fs_issue_flush to write again; when it ends, a  *)
(* result of 0 finds their data out of the cache, and remains true until   *)
(* the caller has read it.  Zombie commands (their callers are outside     *)
(* f2fs_issue_flush) are what the tests of pc are for.                     *)
Covers == \A p \in Procs : flight[p] # Idle =>
    /\ pc[p] \in {"nomerge", "direct", "serve", "dispatch"}
    /\ \A d \in Cmds(p) : pc[d] \notin Outside /\ d \in cached => d \in flight[p]
Flushed == \A p \in Procs : pc[p] = "complete" /\ ret[p] = "ok" =>
    \A d \in Cmds(p) : pc[d] \notin Outside => d \notin cached
Answered == \A c \in Callers :
    done[c] /\ pc[c] \in {"wake", "choose", "take", "wait"} /\ cmd_ret[c] = "ok" => c \notin cached

(* Several devices: no merging, and an inode with data has its entry.      *)
Direct ==
    /\ s_ndevs # 0 => /\ issue_list = <<>> /\ dispatch_list = <<>>
                      /\ \A c \in Callers : pc[c] \notin Queued /\ list[c] = <<>>
                      /\ ~NoBarrier => cached \subseteq flush_ino
    /\ NoBarrier => \A c \in Callers : pc[c] \in Outside \cup {"return"}

(* A caller serves the list itself only while a remount takes the thread   *)
(* away; without errors every result is 0.                                 *)
Served ==
    /\ \A c \in Callers : pc[c] \in CallerLabels
    /\ pc[Thread] \in ThreadLabels
    /\ Options = {} => /\ remount = "none"
                       /\ \A c \in Callers : /\ pc[c] \in Queued \cup {"count"} => f2fs_issue_flush
                                             /\ pc[c] \notin Serving
                                             /\ readonly => pc[c] = "idle"
    /\ ~IoErrors => \A p \in Procs : ret[p] = "ok"

SyncInv == Typed /\ ThreadInv /\ Covers /\ Flushed /\ Answered /\ Direct /\ Served /\ FlushDurable
(* The results of flushes that callers and the thread see: without errors  *)
(* a flush succeeds.                                                       *)
LEMMA NoErrors ==
    ASSUME ~IoErrors, NEW p, NEW ino, NEW r \in Results, FlushEnds(p, ino, r)
    PROVE  r = "ok"
BY DEF FlushEnds, Results

(* Steps of a caller keep SyncInv.                                         *)
LEMMA SyncCaller ==
    ASSUME SyncInv, Typed', ThreadInv', 1 \notin DevCounts, Options = {} \/ ~IoErrors,
           NEW c \in Callers
    PROVE  (update_device_state(c) \/ f2fs_do_sync_file(c) \/ issue_flush(c)) => SyncInv'
<1>. USE FlushAssumption DEF SyncInv, Typed, Procs, Goto, Cmds, Queued, Serving, Outside, CallerLabels,
         ThreadLabels, fcc, thread, data, mount
<1>1. CASE update_device_state(c)
  <2>1. Covers'
    BY <1>1 DEF update_device_state, Covers, Flushed, Answered, Direct, Served, FlushDurable
  <2>2. Flushed'
    BY <1>1 DEF update_device_state, Covers, Flushed, Answered, Direct, Served, FlushDurable
  <2>3. Answered'
    BY <1>1 DEF update_device_state, Covers, Flushed, Answered, Direct, Served, FlushDurable
  <2>4. Direct'
    BY <1>1 DEF update_device_state, Covers, Flushed, Answered, Direct, Served, FlushDurable
  <2>5. Served'
    BY <1>1 DEF update_device_state, Covers, Flushed, Answered, Direct, Served, FlushDurable
  <2>6. FlushDurable'
    BY <1>1 DEF update_device_state, Covers, Flushed, Answered, Direct, Served, FlushDurable
  <2>. QED
    BY <2>1, <2>2, <2>3, <2>4, <2>5, <2>6
<1>15. CASE f2fs_do_sync_file(c)
  BY <1>15 DEF f2fs_do_sync_file, Covers, Flushed, Answered, Direct, Served, FlushDurable
<1>2. CASE f2fs_issue_flush_call(c)
  <2>1. Covers'
    BY <1>2 DEF f2fs_issue_flush_call, OnList, Lists, Covers, Flushed, Answered, Direct, Served, FlushDurable
  <2>2. Flushed'
    BY <1>2 DEF f2fs_issue_flush_call, OnList, Lists, Covers, Flushed, Answered, Direct, Served, FlushDurable
  <2>3. Answered'
    BY <1>2 DEF f2fs_issue_flush_call, OnList, Lists, Covers, Flushed, Answered, Direct, Served, FlushDurable
  <2>4. Direct'
    BY <1>2 DEF f2fs_issue_flush_call, OnList, Lists, Covers, Flushed, Answered, Direct, Served, FlushDurable
  <2>5. Served'
    <3>1. Options = {} /\ flush_merge => f2fs_issue_flush
      BY <1>2 DEF ThreadInv, Served, f2fs_issue_flush_call
    <3>. QED
      BY <1>2, <3>1 DEF f2fs_issue_flush_call, Served, Direct
  <2>6. FlushDurable'
    BY <1>2 DEF f2fs_issue_flush_call, OnList, Lists, Covers, Flushed, Answered, Direct, Served, FlushDurable
  <2>. QED
    BY <2>1, <2>2, <2>3, <2>4, <2>5, <2>6
<1>3. CASE atomic_inc_return(c)
  BY <1>3 DEF atomic_inc_return, Covers, Flushed, Answered, Direct, Served, FlushDurable
<1>4. CASE submit_flush_wait_begins(c)
  <2>1. Covers'
    <3>1. \A d \in Cmds(c) : d \in cached => d \in Covered(c)
      <4>1. CASE s_ndevs = 0
        BY <4>1 DEF Covered
      <4>2. CASE s_ndevs # 0
        <5>1. Cmds(c) = {c}
          BY <4>2, ListFacts DEF Direct
        <5>2. ~NoBarrier
          BY <1>4 DEF submit_flush_wait_begins, Direct
        <5>. QED
          BY <4>2, <5>1, <5>2 DEF Direct, Covered
      <4>. QED
        BY <4>1, <4>2
    <3>. QED
      BY <1>4, <3>1 DEF submit_flush_wait_begins, FlushBegins, Covers
  <2>2. Flushed'
    BY <1>4 DEF submit_flush_wait_begins, FlushBegins, Covered, Covers, Flushed, Answered, Direct, Served, FlushDurable
  <2>3. Answered'
    BY <1>4 DEF submit_flush_wait_begins, FlushBegins, Covered, Covers, Flushed, Answered, Direct, Served, FlushDurable
  <2>4. Direct'
    BY <1>4 DEF submit_flush_wait_begins, FlushBegins, Covered, Covers, Flushed, Answered, Direct, Served, FlushDurable
  <2>5. Served'
    BY <1>4 DEF submit_flush_wait_begins, FlushBegins, Covered, Covers, Flushed, Answered, Direct, Served, FlushDurable
  <2>6. FlushDurable'
    BY <1>4 DEF submit_flush_wait_begins, FlushBegins, Covered, Covers, Flushed, Answered, Direct, Served, FlushDurable
  <2>. QED
    BY <2>1, <2>2, <2>3, <2>4, <2>5, <2>6
<1>5. CASE submit_flush_wait_ends(c)
  <2>1. Covers'
    BY <1>5 DEF submit_flush_wait_ends, FlushEnds, Covers, Flushed, Answered, Direct, Served, FlushDurable
  <2>2. Flushed'
    BY <1>5 DEF submit_flush_wait_ends, FlushEnds, Covers, Flushed, Answered, Direct, Served, FlushDurable
  <2>3. Answered'
    BY <1>5 DEF submit_flush_wait_ends, FlushEnds, Covers, Flushed, Answered, Direct, Served, FlushDurable
  <2>4. Direct'
    BY <1>5 DEF submit_flush_wait_ends, FlushEnds, Covers, Flushed, Answered, Direct, Served, FlushDurable
  <2>5. Served'
    BY <1>5 DEF submit_flush_wait_ends, FlushEnds, Covers, Flushed, Answered, Direct, Served, FlushDurable
  <2>6. FlushDurable'
    BY <1>5 DEF submit_flush_wait_ends, FlushEnds, Covers, Flushed, Answered, Direct, Served, FlushDurable
  <2>. QED
    BY <2>1, <2>2, <2>3, <2>4, <2>5, <2>6
<1>6. CASE llist_add(c)
  BY <1>6 DEF llist_add, Covers, Flushed, Answered, Direct, Served, FlushDurable
<1>7. CASE wake_up(c)
  BY <1>7 DEF wake_up, Covers, Flushed, Answered, Direct, Served, FlushDurable
<1>8. CASE choose(c)
  BY <1>8 DEF choose, Covers, Flushed, Answered, Direct, Served, FlushDurable
<1>9. CASE llist_del_all(c)
  BY <1>9 DEF llist_del_all, Covers, Flushed, Answered, Direct, Served, FlushDurable
<1>10. CASE serve_ends(c)
  <2>1. Covers'
    BY <1>10 DEF serve_ends, FlushEnds, Covers, Flushed, Answered, Direct, Served, FlushDurable
  <2>2. Flushed'
    BY <1>10 DEF serve_ends, FlushEnds, Covers, Flushed, Answered, Direct, Served, FlushDurable
  <2>3. Answered'
    BY <1>10 DEF serve_ends, FlushEnds, Covers, Flushed, Answered, Direct, Served, FlushDurable
  <2>4. Direct'
    BY <1>10 DEF serve_ends, FlushEnds, Covers, Flushed, Answered, Direct, Served, FlushDurable
  <2>5. Served'
    BY <1>10, NoErrors DEF serve_ends, Served
  <2>6. FlushDurable'
    BY <1>10 DEF serve_ends, FlushEnds, Covers, Flushed, Answered, Direct, Served, FlushDurable
  <2>. QED
    BY <2>1, <2>2, <2>3, <2>4, <2>5, <2>6
<1>11. CASE serve_complete(c)
  <2>7. list[c] \in Seq(Callers) /\ list[c] # <<>>
    BY <1>11 DEF serve_complete
  <2>0. /\ Head(list[c]) \in Range(list[c]) /\ Head(list[c]) \in Callers
        /\ Range(Tail(list[c])) \subseteq Range(list[c])
    <3>1. /\ Range(list[c]) = Range(Tail(list[c])) \cup {Head(list[c])}
          /\ Head(list[c]) \in Callers
      BY <2>7, ListFacts
    <3>. QED
      BY <3>1, Zenon
  <2>1. Covers'
    BY <1>11, <2>0 DEF serve_complete, Covers, Flushed, Answered, Direct, Served, FlushDurable
  <2>2. Flushed'
    BY <1>11, <2>0 DEF serve_complete, Covers, Flushed, Answered, Direct, Served, FlushDurable
  <2>3. Answered'
    <3>1. CASE Head(list[c]) = c
      BY <1>11, <2>0, <3>1 DEF serve_complete, Answered
    <3>2. CASE Head(list[c]) # c
      BY <1>11, <2>0, <3>2 DEF serve_complete, Answered, Flushed
    <3>. QED
      BY <3>1, <3>2
  <2>4. Direct'
    BY <1>11 DEF serve_complete, Covers, Flushed, Answered, Direct, Served, FlushDurable
  <2>5. Served'
    BY <1>11 DEF serve_complete, Covers, Flushed, Answered, Direct, Served, FlushDurable
  <2>6. FlushDurable'
    BY <1>11, <2>0 DEF serve_complete, Covers, Flushed, Answered, Direct, Served, FlushDurable
  <2>. QED
    BY <2>1, <2>2, <2>3, <2>4, <2>5, <2>6
<1>12. CASE serve_return(c)
  BY <1>12 DEF serve_return, Covers, Flushed, Answered, Direct, Served, FlushDurable
<1>13. CASE wait_for_completion(c)
  BY <1>13 DEF wait_for_completion, Covers, Flushed, Answered, Direct, Served, FlushDurable
<1>14. CASE f2fs_do_sync_file_out(c)
  BY <1>14 DEF f2fs_do_sync_file_out, Covers, Flushed, Answered, Direct, Served, FlushDurable
<1>. QED
  BY <1>1, <1>2, <1>3, <1>4, <1>5, <1>6, <1>7,
     <1>8, <1>9, <1>10, <1>11, <1>12, <1>13, <1>14, <1>15 DEF issue_flush

(* Steps of the flush thread keep SyncInv.                                 *)
LEMMA SyncThread ==
    ASSUME SyncInv, Typed', ThreadInv', 1 \notin DevCounts, Options = {} \/ ~IoErrors
    PROVE  issue_flush_thread => SyncInv'
<1>. USE FlushAssumption DEF SyncInv, Typed, Procs, Goto, Cmds, Queued, Serving, Outside, CallerLabels,
         ThreadLabels, fcc, thread, data, mount
<1>1. CASE thread_repeat
  BY <1>1 DEF thread_repeat, Covers, Flushed, Answered, Direct, Served, FlushDurable
<1>2. CASE thread_llist_del_all
  <2>0. issue_list = <<>> => dispatch_list' = <<>>
    <3>1. issue_list \in Seq(Callers) /\ dispatch_list' = Reverse(issue_list)
      BY <1>2 DEF thread_llist_del_all
    <3>2. Range(dispatch_list') = Range(issue_list) /\ dispatch_list' \in Seq(Callers)
      BY <3>1, ListFacts
    <3>. QED
      BY <3>1, <3>2, ListFacts
  <2>1. Covers'
    BY <1>2 DEF thread_llist_del_all, Covers, Flushed, Answered, Direct, Served, FlushDurable
  <2>2. Flushed'
    BY <1>2 DEF thread_llist_del_all, Covers, Flushed, Answered, Direct, Served, FlushDurable
  <2>3. Answered'
    BY <1>2 DEF thread_llist_del_all, Covers, Flushed, Answered, Direct, Served, FlushDurable
  <2>4. Direct'
    BY <1>2, <2>0 DEF thread_llist_del_all, Covers, Flushed, Answered, Direct, Served, FlushDurable
  <2>5. Served'
    BY <1>2 DEF thread_llist_del_all, Covers, Flushed, Answered, Direct, Served, FlushDurable
  <2>6. FlushDurable'
    BY <1>2 DEF thread_llist_del_all, Covers, Flushed, Answered, Direct, Served, FlushDurable
  <2>. QED
    BY <2>1, <2>2, <2>3, <2>4, <2>5, <2>6
<1>3. CASE thread_flush_begins
  BY <1>3 DEF thread_flush_begins, FlushBegins, Covered, Covers, Flushed, Answered, Direct, Served, FlushDurable
<1>4. CASE thread_flush_ends
  <2>1. Covers'
    BY <1>4 DEF thread_flush_ends, FlushEnds, Covers, Flushed, Answered, Direct, Served, FlushDurable
  <2>2. Flushed'
    BY <1>4 DEF thread_flush_ends, FlushEnds, Covers, Flushed, Answered, Direct, Served, FlushDurable
  <2>3. Answered'
    BY <1>4 DEF thread_flush_ends, FlushEnds, Covers, Flushed, Answered, Direct, Served, FlushDurable
  <2>4. Direct'
    BY <1>4 DEF thread_flush_ends, FlushEnds, Covers, Flushed, Answered, Direct, Served, FlushDurable
  <2>5. Served'
    BY <1>4, NoErrors DEF thread_flush_ends, Served
  <2>6. FlushDurable'
    BY <1>4 DEF thread_flush_ends, FlushEnds, Covers, Flushed, Answered, Direct, Served, FlushDurable
  <2>. QED
    BY <2>1, <2>2, <2>3, <2>4, <2>5, <2>6
<1>5. CASE thread_complete
  <2>7. dispatch_list \in Seq(Callers) /\ dispatch_list # <<>>
    BY <1>5 DEF thread_complete
  <2>0. /\ Head(dispatch_list) \in Range(dispatch_list) /\ Head(dispatch_list) \in Callers
        /\ Range(Tail(dispatch_list)) \subseteq Range(dispatch_list)
    <3>1. /\ Range(dispatch_list) = Range(Tail(dispatch_list)) \cup {Head(dispatch_list)}
          /\ Head(dispatch_list) \in Callers
      BY <2>7, ListFacts
    <3>. QED
      BY <3>1, Zenon
  <2>1. Covers'
    BY <1>5, <2>0 DEF thread_complete, Covers, Flushed, Answered, Direct, Served, FlushDurable
  <2>2. Flushed'
    BY <1>5, <2>0 DEF thread_complete, Covers, Flushed, Answered, Direct, Served, FlushDurable
  <2>3. Answered'
    BY <1>5, <2>0 DEF thread_complete, Flushed, Answered
  <2>4. Direct'
    BY <1>5 DEF thread_complete, Covers, Flushed, Answered, Direct, Served, FlushDurable
  <2>5. Served'
    BY <1>5 DEF thread_complete, Covers, Flushed, Answered, Direct, Served, FlushDurable
  <2>6. FlushDurable'
    BY <1>5, <2>0 DEF thread_complete, Flushed, FlushDurable
  <2>. QED
    BY <2>1, <2>2, <2>3, <2>4, <2>5, <2>6
<1>6. CASE thread_dispatched
  BY <1>6 DEF thread_dispatched, Covers, Flushed, Answered, Direct, Served, FlushDurable
<1>7. CASE prepare_to_wait
  BY <1>7 DEF prepare_to_wait, Covers, Flushed, Answered, Direct, Served, FlushDurable
<1>9. CASE schedule_returns
  BY <1>9 DEF schedule_returns, Covers, Flushed, Answered, Direct, Served, FlushDurable
<1>8. CASE wait_event_test
  <2>1. Covers'
    BY <1>8 DEF wait_event_test, Covers, Flushed, Answered, Direct, Served, FlushDurable
  <2>2. Flushed'
    BY <1>8 DEF wait_event_test, Covers, Flushed, Answered, Direct, Served, FlushDurable
  <2>3. Answered'
    BY <1>8 DEF wait_event_test, Covers, Flushed, Answered, Direct, Served, FlushDurable
  <2>4. Direct'
    BY <1>8 DEF wait_event_test, Covers, Flushed, Answered, Direct, Served, FlushDurable
  <2>5. Served'
    BY <1>8 DEF wait_event_test, Served
  <2>6. FlushDurable'
    BY <1>8 DEF wait_event_test, Covers, Flushed, Answered, Direct, Served, FlushDurable
  <2>. QED
    BY <2>1, <2>2, <2>3, <2>4, <2>5, <2>6
<1>. QED
  BY <1>1, <1>2, <1>3, <1>4, <1>5, <1>6, <1>7, <1>8, <1>9 DEF issue_flush_thread

(* A remount keeps SyncInv: a thread is created when none runs.            *)
LEMMA SyncRemount ==
    ASSUME SyncInv, Typed', ThreadInv', 1 \notin DevCounts, Options = {} \/ ~IoErrors
    PROVE  f2fs_remount \/ remounting => SyncInv'
<1>. USE FlushAssumption DEF SyncInv, Typed, Procs, Goto, Cmds, Queued, Serving, Outside, CallerLabels,
         ThreadLabels, fcc, thread, data, mount
<1>1. CASE f2fs_remount
  BY <1>1 DEF f2fs_remount, Covers, Flushed, Answered, Direct, Served, FlushDurable
<1>2. CASE \E opt \in Options : parse_options(opt)
  BY <1>2 DEF parse_options, Covers, Flushed, Answered, Direct, Served, FlushDurable
<1>7. CASE f2fs_sync_fs
  BY <1>7 DEF f2fs_sync_fs, Covers, Flushed, Answered, Direct, Served, FlushDurable
<1>3. CASE create_flush_cmd_control
  <2>1. (pc'[Thread] \in ThreadLabels /\ pc'[Thread] # "complete") \/ pc'[Thread] = pc[Thread]
    BY <1>3 DEF create_flush_cmd_control
  <2>2. flight[Thread] # Idle => pc' = pc
    BY <1>3 DEF create_flush_cmd_control, ThreadInv, Covers
  <2>3. \A c \in Callers : pc'[c] = pc[c]
    BY <1>3 DEF create_flush_cmd_control
  <2>. QED
    BY <1>3, <2>1, <2>2, <2>3 DEF create_flush_cmd_control, Covers, Flushed, Answered, Direct, Served, FlushDurable
<1>4. CASE destroy_flush_cmd_control
  BY <1>4 DEF destroy_flush_cmd_control, Covers, Flushed, Answered, Direct, Served, FlushDurable
<1>5. CASE kthread_stop
  BY <1>5 DEF kthread_stop, Covers, Flushed, Answered, Direct, Served, FlushDurable
<1>6. CASE kthread_joined
  BY <1>6 DEF kthread_joined, Covers, Flushed, Answered, Direct, Served, FlushDurable
<1>. QED
  BY <1>1, <1>2, <1>3, <1>4, <1>5, <1>6, <1>7 DEF remounting

(* fsync that returns 0 has made its data durable, whoever submitted the   *)
(* flush and however remounts start and stop the thread (f2fs_issue_flush, *)
(* issue_flush_thread): with one device that every flush covers, or with   *)
(* several, which are never merged; and with errors as long as no remount  *)
(* makes callers serve the list, whose cmd.ret is not initialised.         *)
THEOREM SyncedIsDurable ==
    ASSUME 1 \notin DevCounts, Options = {} \/ ~IoErrors
    PROVE  Spec => []FlushDurable
<1>1. Init => SyncInv
  <2>1. Init => Typed /\ ThreadInv
    BY TypedInit, ThreadInvInit
  <2>2. Init => Covers /\ Flushed /\ Answered /\ Direct /\ Served /\ FlushDurable
    BY FlushAssumption DEF Init, Covers, Flushed, Answered, Direct, Served, FlushDurable, Procs, CallerLabels, ThreadLabels, Queued, Serving, Outside
  <2>. QED
    BY <2>1, <2>2 DEF SyncInv
<1>2. SyncInv /\ [Next]_vars => SyncInv'
  <2>. SUFFICES ASSUME SyncInv, [Next]_vars PROVE SyncInv'
    OBVIOUS
  <2>1. Typed' /\ ThreadInv'
    BY TypedStep, ThreadInvStep DEF SyncInv
  <2>2. CASE UNCHANGED vars
    BY <2>1, <2>2 DEF vars, fcc, thread, data, mount, SyncInv, Cmds, Outside, Covers, Flushed, Answered, Direct, Served, FlushDurable
  <2>. QED
    BY <2>1, <2>2, SyncCaller, SyncThread, SyncRemount DEF Next
<1>3. SyncInv => FlushDurable
  BY DEF SyncInv
<1>. QED
  BY <1>1, <1>2, <1>3, PTL DEF Spec

----------------------------------------------------------------------------
(* The life of a command                                                   *)

(* Without remounts callers only queue: the thread takes every command.    *)
Merging ==
    /\ remount = "none" /\ pc[Thread] \in ThreadLabels
    /\ \A c \in Callers :
         /\ list[c] = <<>>
         /\ pc[c] \in {"idle", "sync", "count", "nomerge", "direct", "add", "wake", "choose", "wait",
                       "return", "oops"}
         /\ readonly => pc[c] = "idle"
         /\ pc[c] \in {"count", "add", "wake", "choose", "wait"} => f2fs_issue_flush

(* A command is on one list, and there once.                               *)
OnceListed ==
    /\ IsInjective(issue_list) /\ IsInjective(dispatch_list)
    /\ Range(issue_list) \cap Range(dispatch_list) = {}

(* The callers that issing_flush counts.                                   *)
Counted == {c \in Callers : \/ pc[c] \in {"direct", "add", "wake", "choose", "take", "wait", "serve"}
                            \/ pc[c] = "complete" /\ c \in Range(list[c])}

QueueInv == Typed /\ ThreadInv /\ Merging /\ OnceListed /\ CmdAlive /\ CountExact

(* What the operations on lists do to the uniqueness of their commands.    *)
LEMMA OnceFacts ==
    ASSUME NEW s \in Seq(Callers), IsInjective(s)
    PROVE  /\ IsInjective(Reverse(s))
           /\ s # <<>> => IsInjective(Tail(s)) /\ Head(s) \notin Range(Tail(s))
           /\ \A c \in Callers : c \notin Range(s) => IsInjective(<<c>> \o s)
<1>0. \A i, j \in 1 .. Len(s) : s[i] = s[j] => i = j
  BY DEF IsInjective
<1>1. IsInjective(Reverse(s))
  <2>1. DOMAIN Reverse(s) = 1 .. Len(s)
    BY DEF Reverse
  <2>2. \A i \in 1 .. Len(s) : Reverse(s)[i] = s[(Len(s) - i) + 1] /\ (Len(s) - i) + 1 \in 1 .. Len(s)
    BY DEF Reverse
  <2>3. ASSUME NEW i \in 1 .. Len(s), NEW j \in 1 .. Len(s), Reverse(s)[i] = Reverse(s)[j]
        PROVE  i = j
    <3>1. (Len(s) - i) + 1 = (Len(s) - j) + 1
      BY <1>0, <2>2, <2>3
    <3>. QED
      BY <3>1
  <2>. QED
    BY <2>1, <2>3 DEF IsInjective
<1>2. ASSUME s # <<>> PROVE IsInjective(Tail(s)) /\ Head(s) \notin Range(Tail(s))
  <2>1. /\ Head(s) = s[1] /\ Len(s) \in Nat /\ Len(s) >= 1 /\ DOMAIN Tail(s) = 1 .. (Len(s) - 1)
        /\ \A i \in 1 .. (Len(s) - 1) : Tail(s)[i] = s[i + 1] /\ i + 1 \in 1 .. Len(s)
    BY <1>2
  <2>2. ASSUME NEW i \in 1 .. (Len(s) - 1), NEW j \in 1 .. (Len(s) - 1), Tail(s)[i] = Tail(s)[j]
        PROVE  i = j
    BY <1>0, <2>1, <2>2
  <2>3. \A i \in 1 .. (Len(s) - 1) : Tail(s)[i] # Head(s)
    BY <1>0, <2>1
  <2>. QED
    BY <2>1, <2>2, <2>3 DEF IsInjective, Range
<1>3. ASSUME NEW c \in Callers, c \notin Range(s) PROVE IsInjective(<<c>> \o s)
  <2>. DEFINE t == <<c>> \o s
  <2>1. DOMAIN t = 1 .. (Len(s) + 1) /\ t[1] = c
    OBVIOUS
  <2>2. \A i \in 1 .. (Len(s) + 1) : i # 1 => i - 1 \in 1 .. Len(s) /\ t[i] = s[i - 1]
    OBVIOUS
  <2>3. \A i \in 1 .. Len(s) : s[i] # c
    BY <1>3 DEF Range
  <2>. HIDE DEF t
  <2>4. ASSUME NEW i \in 1 .. (Len(s) + 1), NEW j \in 1 .. (Len(s) + 1), t[i] = t[j] PROVE i = j
    <3>1. CASE i = 1 \/ j = 1
      BY <2>1, <2>2, <2>3, <2>4, <3>1
    <3>2. CASE i # 1 /\ j # 1
      <4>1. i - 1 = j - 1
        BY <1>0, <2>2, <2>4, <3>2
      <4>. QED
        BY <4>1
    <3>. QED
      BY <3>1, <3>2
  <2>5. IsInjective(t)
    BY <2>1, <2>4 DEF IsInjective
  <2>. QED
    BY <2>5 DEF t
<1>. QED
  BY <1>1, <1>2, <1>3
(* Without remounts a command is on a list when it is on one of the two    *)
(* lists of fcc.                                                           *)
Alive == \A c \in Callers : c \in Range(issue_list) \cup Range(dispatch_list) =>
    pc[c] \in {"wake", "choose", "wait"} /\ ~done[c]

(* Without remounts CmdAlive is about the two lists of fcc only.           *)
LEMMA AliveIsCmdAlive == Typed /\ Merging => (CmdAlive <=> Alive)
<1>. SUFFICES ASSUME Typed, Merging PROVE CmdAlive <=> Alive
  OBVIOUS
<1>1. \A c \in Callers : OnList(c) <=> c \in Range(issue_list) \cup Range(dispatch_list)
  <2>1. \A c, d \in Callers : c \notin Range(list[d])
    BY ListFacts DEF Typed, Merging
  <2>2. ASSUME NEW c \in Callers
        PROVE  OnList(c) <=> \/ c \in Range(issue_list) \/ c \in Range(dispatch_list)
                             \/ \E d \in Callers : c \in Range(list[d])
    BY DEF OnList, Lists
  <2>. QED
    BY <2>1, <2>2
<1>. QED
  BY <1>1 DEF CmdAlive, Alive, Merging

(* A step moves at most one caller in or out of the callers counted.       *)
LEMMA CountFacts ==
    /\ CountExact <=> issing_flush = Cardinality(Counted)
    /\ IsFiniteSet(Counted) /\ Cardinality(Counted) \in 0 .. Cardinality(Callers)
<1>1. CountExact <=> issing_flush = Cardinality(Counted)
  BY DEF CountExact, Counted
<1>2. Counted \in SUBSET Callers /\ IsFiniteSet(Callers)
  BY FlushAssumption DEF Counted
<1>3. /\ IsFiniteSet(Counted) /\ Cardinality(Counted) <= Cardinality(Callers)
  BY <1>2, FS_Subset
<1>4. Cardinality(Counted) \in Nat /\ Cardinality(Callers) \in Nat
  BY <1>2, <1>3, FS_CardinalityType
<1>. QED
  BY <1>1, <1>3, <1>4

(* CountExact survives a step that moves the counter and the counted       *)
(* callers together.                                                       *)
LEMMA CountStep ==
    ASSUME CountExact, issing_flush \in Int,
           NEW c,
           \/ UNCHANGED issing_flush /\ Counted' = Counted
           \/ issing_flush' = issing_flush + 1 /\ c \notin Counted /\ Counted' = Counted \cup {c}
           \/ issing_flush' = issing_flush - 1 /\ c \in Counted /\ Counted' = Counted \ {c}
    PROVE  CountExact'
<1>1. issing_flush = Cardinality(Counted) /\ IsFiniteSet(Counted)
  BY CountFacts
<1>2. CountExact' <=> issing_flush' = Cardinality(Counted')
  BY DEF CountExact, Counted
<1>3. CASE UNCHANGED issing_flush /\ Counted' = Counted
  BY <1>1, <1>2, <1>3
<1>4. CASE issing_flush' = issing_flush + 1 /\ c \notin Counted /\ Counted' = Counted \cup {c}
  <2>1. Cardinality(Counted') = Cardinality(Counted) + 1
    BY <1>1, <1>4, FS_AddElement
  <2>. QED
    BY <1>1, <1>2, <1>4, <2>1
<1>5. CASE issing_flush' = issing_flush - 1 /\ c \in Counted /\ Counted' = Counted \ {c}
  <2>1. Cardinality(Counted') = Cardinality(Counted) - 1
    BY <1>1, <1>5, FS_RemoveElement
  <2>. QED
    BY <1>1, <1>2, <1>5, <2>1
<1>. QED
  BY <1>3, <1>4, <1>5

(* Where a caller is counted, and what a step of one caller does to that.  *)
Inside == {"direct", "add", "wake", "choose", "wait"}

(* A caller enters or leaves the counted set as it enters or leaves those  *)
(* labels.                                                                 *)
LEMMA CountedMoves ==
    ASSUME Merging, Merging', NEW c \in Callers, \A d \in Callers \ {c} : pc'[d] = pc[d]
    PROVE  /\ c \in Counted <=> pc[c] \in Inside
           /\ pc[c] \in Inside /\ pc'[c] \in Inside => Counted' = Counted
           /\ pc[c] \notin Inside /\ pc'[c] \notin Inside => Counted' = Counted
           /\ pc[c] \notin Inside /\ pc'[c] \in Inside => Counted' = Counted \cup {c}
           /\ pc[c] \in Inside /\ pc'[c] \notin Inside => Counted' = Counted \ {c}
<1>1. Counted \subseteq Callers /\ \A d \in Callers : d \in Counted <=> pc[d] \in Inside
  BY DEF Counted, Merging, Inside
<1>2. Counted' \subseteq Callers /\ \A d \in Callers : d \in Counted' <=> pc'[d] \in Inside
  BY DEF Counted, Merging, Inside
<1>3. pc[c] \in Inside /\ pc'[c] \in Inside => Counted' = Counted
  BY <1>1, <1>2
<1>4. pc[c] \notin Inside /\ pc'[c] \notin Inside => Counted' = Counted
  BY <1>1, <1>2
<1>5. pc[c] \notin Inside /\ pc'[c] \in Inside => Counted' = Counted \cup {c}
  BY <1>1, <1>2
<1>6. pc[c] \in Inside /\ pc'[c] \notin Inside => Counted' = Counted \ {c}
  BY <1>1, <1>2
<1>. QED
  BY <1>1, <1>3, <1>4, <1>5, <1>6

(* Steps of a caller keep the life of the commands, and count it.          *)
LEMMA QueueCaller ==
    ASSUME Typed, ThreadInv, Merging, OnceListed, Alive, NEW c \in Callers,
           update_device_state(c) \/ f2fs_do_sync_file(c) \/ issue_flush(c)
    PROVE  /\ Merging' /\ OnceListed' /\ Alive'
           /\ \/ UNCHANGED issing_flush /\ Counted' = Counted
              \/ issing_flush' = issing_flush + 1 /\ c \notin Counted /\ Counted' = Counted \cup {c}
              \/ issing_flush' = issing_flush - 1 /\ c \in Counted /\ Counted' = Counted \ {c}
<1>. USE FlushAssumption DEF Typed, Procs, Goto, fcc, thread, data, mount
<1>. DEFINE Moved ==
                    \/ UNCHANGED issing_flush /\ Counted' = Counted
                    \/ issing_flush' = issing_flush + 1 /\ c \notin Counted /\ Counted' = Counted \cup {c}
                    \/ issing_flush' = issing_flush - 1 /\ c \in Counted /\ Counted' = Counted \ {c}
<1>1. CASE update_device_state(c)
  <2>1. Merging'
    BY <1>1 DEF Merging, ThreadInv, update_device_state
  <2>2. OnceListed' /\ Alive'
    BY <1>1 DEF OnceListed, Alive, Merging, update_device_state
  <2>8. \A d \in Callers \ {c} : pc'[d] = pc[d]
    BY <1>1 DEF update_device_state
  <2>9. UNCHANGED issing_flush /\ (pc[c] \in Inside <=> pc'[c] \in Inside)
    BY <1>1 DEF update_device_state, Inside, Merging
  <2>3. Moved
    BY <2>1, <2>8, <2>9, CountedMoves
  <2>. QED
    BY <2>1, <2>2, <2>3
<1>2. CASE f2fs_issue_flush_call(c)
  <2>1. Merging'
    BY <1>2 DEF Merging, ThreadInv, f2fs_issue_flush_call
  <2>2. OnceListed' /\ Alive'
    BY <1>2 DEF OnceListed, Alive, Merging, f2fs_issue_flush_call
  <2>8. \A d \in Callers \ {c} : pc'[d] = pc[d]
    BY <1>2 DEF f2fs_issue_flush_call
  <2>9. UNCHANGED issing_flush /\ (pc[c] \in Inside <=> pc'[c] \in Inside)
    BY <1>2 DEF f2fs_issue_flush_call, Inside, Merging
  <2>3. Moved
    BY <2>1, <2>8, <2>9, CountedMoves
  <2>. QED
    BY <2>1, <2>2, <2>3
<1>12. CASE f2fs_do_sync_file(c)
  <2>1. Merging'
    BY <1>12 DEF Merging, ThreadInv, f2fs_do_sync_file
  <2>2. OnceListed' /\ Alive'
    BY <1>12 DEF OnceListed, Alive, Merging, f2fs_do_sync_file
  <2>8. \A d \in Callers \ {c} : pc'[d] = pc[d]
    BY <1>12 DEF f2fs_do_sync_file
  <2>9. UNCHANGED issing_flush /\ (pc[c] \in Inside <=> pc'[c] \in Inside)
    BY <1>12 DEF f2fs_do_sync_file, Inside, Merging
  <2>3. Moved
    BY <2>1, <2>8, <2>9, CountedMoves
  <2>. QED
    BY <2>1, <2>2, <2>3
<1>3. CASE atomic_inc_return(c)
  <2>1. Merging'
    BY <1>3 DEF Merging, ThreadInv, atomic_inc_return
  <2>2. OnceListed' /\ Alive'
    BY <1>3 DEF OnceListed, Alive, Merging, atomic_inc_return
  <2>8. \A d \in Callers \ {c} : pc'[d] = pc[d]
    BY <1>3 DEF atomic_inc_return
  <2>9. issing_flush' = issing_flush + 1 /\ pc[c] \notin Inside /\ pc'[c] \in Inside
    BY <1>3 DEF atomic_inc_return, Inside, Merging
  <2>3. Moved
    BY <2>1, <2>8, <2>9, CountedMoves
  <2>. QED
    BY <2>1, <2>2, <2>3
<1>4. CASE submit_flush_wait_begins(c)
  <2>1. Merging'
    BY <1>4 DEF Merging, ThreadInv, submit_flush_wait_begins, FlushBegins
  <2>2. OnceListed' /\ Alive'
    BY <1>4 DEF OnceListed, Alive, Merging, submit_flush_wait_begins, FlushBegins
  <2>8. \A d \in Callers \ {c} : pc'[d] = pc[d]
    BY <1>4 DEF submit_flush_wait_begins, FlushBegins
  <2>9. UNCHANGED issing_flush /\ (pc[c] \in Inside <=> pc'[c] \in Inside)
    BY <1>4 DEF submit_flush_wait_begins, FlushBegins, Inside, Merging
  <2>3. Moved
    BY <2>1, <2>8, <2>9, CountedMoves
  <2>. QED
    BY <2>1, <2>2, <2>3
<1>5. CASE submit_flush_wait_ends(c)
  <2>1. Merging'
    BY <1>5 DEF Merging, ThreadInv, submit_flush_wait_ends, FlushEnds
  <2>2. OnceListed' /\ Alive'
    BY <1>5 DEF OnceListed, Alive, Merging, submit_flush_wait_ends, FlushEnds
  <2>8. \A d \in Callers \ {c} : pc'[d] = pc[d]
    BY <1>5 DEF submit_flush_wait_ends, FlushEnds
  <2>9. IF pc[c] \in Inside THEN issing_flush' = issing_flush - 1 /\ pc'[c] \notin Inside
           ELSE UNCHANGED issing_flush /\ pc'[c] \notin Inside
    BY <1>5 DEF submit_flush_wait_ends, FlushEnds, Inside, Merging
  <2>3. Moved
    BY <2>1, <2>8, <2>9, CountedMoves
  <2>. QED
    BY <2>1, <2>2, <2>3
<1>6. CASE wake_up(c)
  <2>1. Merging'
    BY <1>6 DEF Merging, ThreadInv, wake_up
  <2>2. OnceListed' /\ Alive'
    BY <1>6 DEF OnceListed, Alive, Merging, wake_up
  <2>8. \A d \in Callers \ {c} : pc'[d] = pc[d]
    BY <1>6 DEF wake_up
  <2>9. UNCHANGED issing_flush /\ (pc[c] \in Inside <=> pc'[c] \in Inside)
    BY <1>6 DEF wake_up, Inside, Merging
  <2>3. Moved
    BY <2>1, <2>8, <2>9, CountedMoves
  <2>. QED
    BY <2>1, <2>2, <2>3
<1>7. CASE choose(c)
  <2>1. Merging'
    BY <1>7 DEF Merging, ThreadInv, choose
  <2>2. OnceListed' /\ Alive'
    BY <1>7 DEF OnceListed, Alive, Merging, choose
  <2>8. \A d \in Callers \ {c} : pc'[d] = pc[d]
    BY <1>7 DEF choose
  <2>9. UNCHANGED issing_flush /\ (pc[c] \in Inside <=> pc'[c] \in Inside)
    BY <1>7 DEF choose, Inside, Merging
  <2>3. Moved
    BY <2>1, <2>8, <2>9, CountedMoves
  <2>. QED
    BY <2>1, <2>2, <2>3
<1>8. CASE wait_for_completion(c)
  <2>1. Merging'
    BY <1>8 DEF Merging, ThreadInv, wait_for_completion
  <2>2. OnceListed' /\ Alive'
    BY <1>8 DEF OnceListed, Alive, Merging, wait_for_completion
  <2>8. \A d \in Callers \ {c} : pc'[d] = pc[d]
    BY <1>8 DEF wait_for_completion
  <2>9. issing_flush' = issing_flush - 1 /\ pc[c] \in Inside /\ pc'[c] \notin Inside
    BY <1>8 DEF wait_for_completion, Inside, Merging
  <2>3. Moved
    BY <2>1, <2>8, <2>9, CountedMoves
  <2>. QED
    BY <2>1, <2>2, <2>3
<1>9. CASE f2fs_do_sync_file_out(c)
  <2>1. Merging'
    BY <1>9 DEF Merging, ThreadInv, f2fs_do_sync_file_out
  <2>2. OnceListed' /\ Alive'
    BY <1>9 DEF OnceListed, Alive, Merging, f2fs_do_sync_file_out
  <2>8. \A d \in Callers \ {c} : pc'[d] = pc[d]
    BY <1>9 DEF f2fs_do_sync_file_out
  <2>9. UNCHANGED issing_flush /\ (pc[c] \in Inside <=> pc'[c] \in Inside)
    BY <1>9 DEF f2fs_do_sync_file_out, Inside, Merging
  <2>3. Moved
    BY <2>1, <2>8, <2>9, CountedMoves
  <2>. QED
    BY <2>1, <2>2, <2>3
<1>10. CASE llist_add(c)
  <2>1. Merging'
    BY <1>10 DEF Merging, ThreadInv, llist_add
  <2>4. /\ c \notin Range(issue_list) /\ c \notin Range(dispatch_list)
        /\ issue_list' = <<c>> \o issue_list /\ dispatch_list' = dispatch_list
        /\ pc'[c] = "wake" /\ done'[c] = FALSE
        /\ \A d \in Callers \ {c} : pc'[d] = pc[d] /\ done'[d] = done[d]
    BY <1>10 DEF llist_add, Alive
  <2>5. Range(issue_list') = Range(issue_list) \cup {c} /\ IsInjective(issue_list')
    BY <2>4, ListFacts, OnceFacts DEF OnceListed
  <2>2. OnceListed' /\ Alive'
    BY <2>4, <2>5 DEF OnceListed, Alive
  <2>8. \A d \in Callers \ {c} : pc'[d] = pc[d]
    BY <1>10 DEF llist_add
  <2>9. UNCHANGED issing_flush /\ (pc[c] \in Inside <=> pc'[c] \in Inside)
    BY <1>10 DEF llist_add, Inside, Merging
  <2>3. Moved
    BY <2>1, <2>8, <2>9, CountedMoves
  <2>. QED
    BY <2>1, <2>2, <2>3
<1>11. CASE llist_del_all(c) \/ serve_ends(c) \/ serve_complete(c) \/ serve_return(c)
  BY <1>11 DEF llist_del_all, serve_ends, serve_complete, serve_return, Merging
<1>. QED
  BY <1>1, <1>2, <1>3, <1>4, <1>5, <1>6, <1>7, <1>8, <1>9, <1>10, <1>11, <1>12
     DEF issue_flush

(* Steps of the thread keep the life of the commands.                      *)
LEMMA QueueThread ==
    ASSUME Typed, ThreadInv, Merging, OnceListed, Alive, issue_flush_thread
    PROVE  /\ Merging' /\ OnceListed' /\ Alive'
           /\ UNCHANGED issing_flush /\ Counted' = Counted
<1>. USE FlushAssumption DEF Typed, Procs, Goto, ThreadLabels, fcc, thread, data, mount
<1>1. CASE thread_repeat
  <2>1. Merging'
    BY <1>1 DEF Merging, ThreadInv, thread_repeat
  <2>2. OnceListed' /\ Alive'
    BY <1>1 DEF OnceListed, Alive, Merging, thread_repeat
  <2>3. UNCHANGED issing_flush /\ Counted' = Counted
    BY <1>1 DEF Counted, thread_repeat
  <2>. QED
    BY <2>1, <2>2, <2>3
<1>2. CASE thread_flush_begins
  <2>1. Merging'
    BY <1>2 DEF Merging, ThreadInv, thread_flush_begins, FlushBegins
  <2>2. OnceListed' /\ Alive'
    BY <1>2 DEF OnceListed, Alive, Merging, thread_flush_begins, FlushBegins
  <2>3. UNCHANGED issing_flush /\ Counted' = Counted
    BY <1>2 DEF Counted, thread_flush_begins, FlushBegins
  <2>. QED
    BY <2>1, <2>2, <2>3
<1>3. CASE thread_flush_ends
  <2>1. Merging'
    BY <1>3 DEF Merging, ThreadInv, thread_flush_ends, FlushEnds
  <2>2. OnceListed' /\ Alive'
    BY <1>3 DEF OnceListed, Alive, Merging, thread_flush_ends, FlushEnds
  <2>3. UNCHANGED issing_flush /\ Counted' = Counted
    BY <1>3 DEF Counted, thread_flush_ends, FlushEnds
  <2>. QED
    BY <2>1, <2>2, <2>3
<1>4. CASE thread_dispatched
  <2>1. Merging'
    BY <1>4 DEF Merging, ThreadInv, thread_dispatched
  <2>2. OnceListed' /\ Alive'
    BY <1>4 DEF OnceListed, Alive, Merging, thread_dispatched
  <2>3. UNCHANGED issing_flush /\ Counted' = Counted
    BY <1>4 DEF Counted, thread_dispatched
  <2>. QED
    BY <2>1, <2>2, <2>3
<1>5. CASE prepare_to_wait
  <2>1. Merging'
    BY <1>5 DEF Merging, ThreadInv, prepare_to_wait
  <2>2. OnceListed' /\ Alive'
    BY <1>5 DEF OnceListed, Alive, Merging, prepare_to_wait
  <2>3. UNCHANGED issing_flush /\ Counted' = Counted
    BY <1>5 DEF Counted, prepare_to_wait
  <2>. QED
    BY <2>1, <2>2, <2>3
<1>6. CASE wait_event_test
  <2>1. Merging'
    BY <1>6 DEF Merging, ThreadInv, wait_event_test
  <2>2. OnceListed' /\ Alive'
    BY <1>6 DEF OnceListed, Alive, Merging, wait_event_test
  <2>3. UNCHANGED issing_flush /\ Counted' = Counted
    BY <1>6 DEF Counted, wait_event_test
  <2>. QED
    BY <2>1, <2>2, <2>3
<1>7. CASE schedule_returns
  <2>1. Merging'
    BY <1>7 DEF Merging, ThreadInv, schedule_returns
  <2>2. OnceListed' /\ Alive'
    BY <1>7 DEF OnceListed, Alive, Merging, schedule_returns
  <2>3. UNCHANGED issing_flush /\ Counted' = Counted
    BY <1>7 DEF Counted, schedule_returns
  <2>. QED
    BY <2>1, <2>2, <2>3
<1>8. CASE thread_llist_del_all
  <2>1. Merging'
    BY <1>8 DEF Merging, ThreadInv, thread_llist_del_all
  <2>4. /\ issue_list' = <<>> /\ dispatch_list' = Reverse(issue_list) /\ done' = done
        /\ \A c \in Callers : pc'[c] = pc[c]
    BY <1>8 DEF thread_llist_del_all
  <2>5. Range(dispatch_list') = Range(issue_list) /\ IsInjective(dispatch_list')
    BY <2>4, ListFacts, OnceFacts DEF OnceListed
  <2>6. Range(issue_list') = {} /\ IsInjective(issue_list')
    BY <2>4 DEF Range, IsInjective
  <2>2. OnceListed' /\ Alive'
    BY <2>4, <2>5, <2>6 DEF OnceListed, Alive
  <2>3. UNCHANGED issing_flush /\ Counted' = Counted
    BY <1>8 DEF Counted, thread_llist_del_all
  <2>. QED
    BY <2>1, <2>2, <2>3
<1>9. CASE thread_complete
  <2>1. Merging'
    BY <1>9 DEF Merging, ThreadInv, thread_complete
  <2>4. /\ issue_list' = issue_list /\ dispatch_list' = Tail(dispatch_list) /\ pc' = pc
        /\ dispatch_list # <<>>
        /\ \A c \in Callers : c # Head(dispatch_list) => done'[c] = done[c]
    BY <1>9 DEF thread_complete
  <2>5. /\ Range(dispatch_list) = Range(dispatch_list') \cup {Head(dispatch_list)}
        /\ IsInjective(dispatch_list') /\ Head(dispatch_list) \notin Range(dispatch_list')
    BY <2>4, ListFacts, OnceFacts DEF OnceListed
  <2>2. OnceListed' /\ Alive'
    BY <2>4, <2>5 DEF OnceListed, Alive
  <2>3. UNCHANGED issing_flush /\ Counted' = Counted
    BY <1>9 DEF Counted, thread_complete
  <2>. QED
    BY <2>1, <2>2, <2>3
<1>. QED
  BY <1>1, <1>2, <1>3, <1>4, <1>5, <1>6, <1>7, <1>8, <1>9 DEF issue_flush_thread

(* Without remounts, the lists hold the commands of waiting callers, each  *)
(* once, and the counter counts the callers inside (f2fs_issue_flush,      *)
(* issue_flush_thread): the inductive invariant.                           *)
THEOREM QueueInductive ==
    ASSUME Options = {}
    PROVE  Spec => []QueueInv
<1>1. Init => QueueInv
  <2>. SUFFICES ASSUME Init PROVE QueueInv
    OBVIOUS
  <2>1. Typed /\ ThreadInv
    BY TypedInit, ThreadInvInit
  <2>2. Merging /\ OnceListed
    BY FlushAssumption DEF Init, Merging, OnceListed, IsInjective, Range, Procs, ThreadLabels
  <2>3. Alive
    BY DEF Init, Alive, Range
  <2>4. Counted = {} /\ issing_flush = 0
    BY FlushAssumption DEF Init, Counted, Procs
  <2>5. CountExact
    BY <2>4, FS_EmptySet, CountFacts
  <2>. QED
    BY <2>1, <2>2, <2>3, <2>5, AliveIsCmdAlive DEF QueueInv
<1>2. QueueInv /\ [Next]_vars => QueueInv'
  <2>. SUFFICES ASSUME QueueInv, [Next]_vars PROVE QueueInv'
    OBVIOUS
  <2>1. Typed /\ ThreadInv /\ Merging /\ OnceListed /\ Alive /\ CountExact /\ issing_flush \in Int
    BY AliveIsCmdAlive DEF QueueInv, Typed
  <2>2. Typed' /\ ThreadInv'
    BY <2>1, TypedStep, ThreadInvStep
  <2>3. Merging' /\ OnceListed' /\ Alive' /\ CountExact'
    <3>1. CASE UNCHANGED vars
      BY <2>1, <3>1 DEF vars, fcc, thread, data, mount, Merging, OnceListed, Alive, CountExact
    <3>2. ASSUME NEW c \in Callers,
                 update_device_state(c) \/ f2fs_do_sync_file(c) \/ issue_flush(c)
          PROVE  Merging' /\ OnceListed' /\ Alive' /\ CountExact'
      BY <2>1, <3>2, QueueCaller, CountStep
    <3>3. CASE issue_flush_thread
      BY <2>1, <3>3, QueueThread, CountStep
    <3>4. CASE f2fs_remount
      BY <3>4 DEF f2fs_remount
    <3>5. CASE remounting
      BY <2>1, <3>5 DEF remounting, Merging, f2fs_sync_fs, create_flush_cmd_control,
                        destroy_flush_cmd_control, kthread_stop, kthread_joined
    <3>. QED
      BY <3>1, <3>2, <3>3, <3>4, <3>5 DEF Next
  <2>4. CmdAlive'
    <3>1. Typed' /\ Merging' => (CmdAlive' <=> Alive')
      BY AliveIsCmdAlive, PTL
    <3>. QED
      BY <2>2, <2>3, <3>1
  <2>. QED
    BY <2>2, <2>3, <2>4 DEF QueueInv
<1>. QED
  BY <1>1, <1>2, PTL DEF Spec

(* A struct flush_cmd on a list belongs to a caller that still waits: no   *)
(* list points into a stack frame that is gone (f2fs_issue_flush).         *)
THEOREM CommandsAlive == ASSUME Options = {} PROVE Spec => []CmdAlive
<1>1. QueueInv => CmdAlive
  BY DEF QueueInv
<1>. QED
  BY <1>1, QueueInductive, PTL

(* issing_flush is the number of callers inside (atomic_inc_return,        *)
(* atomic_dec): none is forgotten, none given back twice.                  *)
THEOREM CounterExact == ASSUME Options = {} PROVE Spec => []CountExact
<1>1. QueueInv => CountExact
  BY DEF QueueInv
<1>. QED
  BY <1>1, QueueInductive, PTL

(* Types, with the counter between 0 and the number of callers.            *)
THEOREM FlushTypeCorrect == ASSUME Options = {} PROVE Spec => []TypeOK
<1>1. QueueInv => TypeOK
  BY CountFacts DEF QueueInv, Typed, TypeOK, Flights
<1>. QED
  BY <1>1, QueueInductive, PTL
=============================================================================
