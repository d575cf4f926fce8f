------------------------------- MODULE Daemon -------------------------------
(***************************************************************************)
(* The watch daemon (mirror-cli: watch.rs, daemon.rs, events.rs, ops.rs;   *)
(* mirror-core: control.rs; rfm-tray: app.rs, state.rs): the lock and the  *)
(* control socket of a root, the main loop, the worker that runs passes,   *)
(* the backup worker, the control connections and a subscriber.            *)
(*                                                                         *)
(* Processes come and go: daemons, which may crash, be stopped or be       *)
(* aborted; "rfm evict", which runs a pass itself when no daemon answers;  *)
(* "rfm sync", which always does.  What a pass does is in Mirror; here it  *)
(* scans, claims a Lamport clock, writes its delta and ends.               *)
(***************************************************************************)
EXTENDS Naturals, Sequences, FiniteSets, FiniteSetsExt

CONSTANTS
    MaxDaemons,  \* bound: "rfm watch" processes, numbered as they are started
    Evicts,      \* "rfm evict" processes that found no daemon
    Syncs,       \* "rfm sync" processes
    Clients,     \* control connections
    None,
    ResidencyCap,\* capacity of the residency channel (8 in the code)
    RingCap,     \* CHANNEL_CAPACITY of the event hub
    MayLinger,   \* whether an aborted daemon's tasks outlive its lock
    MaxChanges,  \* bound: changes in the folder
    MaxFaults    \* bound: crashes, aborts, failed passes and lost notices

Daemons == 1..MaxDaemons
Proc == Daemons \cup Evicts \cup Syncs

ASSUME ProcAssumption == /\ Daemons \cap Evicts = {} /\ Syncs \cap (Daemons \cup Evicts) = {}
                          /\ None \notin Proc \cup Clients
ASSUME CapAssumption == /\ {ResidencyCap, RingCap} \subseteq Nat \ {0}
                         /\ {MaxDaemons, MaxChanges, MaxFaults} \subseteq Nat
                         /\ MayLinger \in BOOLEAN

VARIABLES
    lock,       \* holder of .mirror/daemon.lock
    sock,       \* the process whose listener .mirror/daemon.sock names
    life,       \* life[p]: where the process stands
    queue,      \* queue[d]: the sync channel, of capacity 1, holds a trigger
    jobs,       \* jobs[d]: the clients whose requests the residency channel holds
    work,       \* work[p]: the pass of the worker
    bqueue,     \* bqueue[d]: the backup channel, of capacity 1
    backup,     \* backup[d]: where the backup worker stands
    status,     \* status[d]: DaemonStatus
    changes, synced,  \* changes in the folder; those a pass has covered
    notice,     \* the debouncer's: "none", "pending", or "missed"
    due,        \* "off" without interval_hours; "due" when the newest snapshot is
                \*     older than that, "fresh" when it is not
    client,     \* client[c]: a control connection
    tray,       \* the subscriber
    clock,      \* device_lamport, and lamports logged, counted from the last
    logged,     \*     moment at which no pass ran
    clobbered,  \* ghost: a delta object was written over another
    faults

folder == <<changes, synced, notice, due>>
stamps == <<clock, logged, clobbered>>
procs == <<lock, sock, life>>
channels == <<queue, jobs, bqueue>>
vars == <<procs, channels, work, backup, status, folder, client, tray, stamps, faults>>

Idle == [at |-> "idle", saw |-> 0, lam |-> 0, for |-> None]
Gone == [Idle EXCEPT !.at = "gone"]
Fresh == [syncing |-> FALSE, last |-> "none", backing_up |-> FALSE]

Init ==
    /\ lock = None /\ sock = None
    /\ \E present \in SUBSET Evicts :
           life = [p \in Proc |-> IF p \in Evicts \ present THEN "dead" ELSE "off"]
    /\ queue = [d \in Daemons |-> FALSE]
    /\ jobs = [d \in Daemons |-> <<>>]
    /\ work = [p \in Proc |-> Gone]
    /\ bqueue = [d \in Daemons |-> "none"]
    /\ backup = [d \in Daemons |-> "gone"]
    /\ status = [d \in Daemons |-> Fresh]
    /\ changes = 0 /\ synced = 0 /\ notice = "none"
    /\ due \in {"off", "due"}
    /\ \E present \in SUBSET Clients :
           client = [c \in Clients |->
                       [at |-> IF c \in present THEN "idle" ELSE "done", cmd |-> "none",
                        to |-> None, reply |-> "none", served |-> FALSE]]
    /\ \E conn \in {"connecting", "closed"} :
           tray = [conn |-> conn, to |-> None, rx |-> <<>>, skipped |-> {}, view |-> Fresh]
    /\ clock = 0 /\ logged = {} /\ clobbered = FALSE
    /\ faults \in 0..MaxFaults

Fault == faults < MaxFaults /\ faults' = faults + 1

-----------------------------------------------------------------------------
(* Processes, their lock and their socket. *)

(* A client that has given up hears nothing more. *)
Told(c, text) == IF client[c].reply = "none" THEN text ELSE client[c].reply

(* What a client sees when the process it talks to is gone. *)
HangUp(d) ==
    /\ client' = [c \in Clients |->
           IF client[c].to = d /\ client[c].at \in {"backlog", "open", "waiting"}
           THEN [client[c] EXCEPT !.at = "done", !.reply = Told(c, "eof")] ELSE client[c]]
    /\ tray' = IF tray.to = d
               THEN [tray EXCEPT !.conn = "lost", !.to = None, !.rx = <<>>, !.skipped = {},
                                 !.view.syncing = FALSE, !.view.backing_up = FALSE]
               ELSE tray

(* The memory of a process is gone; lock and clients' ends are not its own. *)
Forget(d) ==
    /\ queue' = [queue EXCEPT ![d] = FALSE]
    /\ jobs' = [jobs EXCEPT ![d] = <<>>]
    /\ work' = [work EXCEPT ![d] = Gone]
    /\ bqueue' = [bqueue EXCEPT ![d] = "none"]
    /\ backup' = [backup EXCEPT ![d] = "gone"]
    /\ status' = [status EXCEPT ![d] = Fresh]

(* try_lock_exclusive; a second daemon bails out and may be started again. *)
Launch(d) ==
    /\ life[d] = "off" /\ \A x \in 1..(d - 1) : life[x] # "off"
    /\ lock = None
    /\ lock' = d
    /\ life' = [life EXCEPT ![d] = "locked"]
    /\ UNCHANGED <<sock, channels, work, backup, status, folder, client, tray, stamps, faults>>

(* Whatever socket file is left is unlinked and replaced by this listener's. *)
Bind(d) ==
    /\ life[d] = "locked"
    /\ sock' = d
    /\ life' = [life EXCEPT ![d] = "bound"]
    /\ UNCHANGED <<lock, channels, work, backup, status, folder, client, tray, stamps, faults>>

(* Store and keys are ready: both workers are spawned and the watcher starts. *)
Serve(d) ==
    /\ life[d] = "bound"
    /\ life' = [life EXCEPT ![d] = "serving"]
    /\ work' = [work EXCEPT ![d] = Idle]
    /\ backup' = [backup EXCEPT ![d] = "idle"]
    /\ UNCHANGED <<lock, sock, channels, status, folder, client, tray, stamps, faults>>

(* Any error before that unwinds watch: the guard unlinks the socket first. *)
StartFails(d) ==
    /\ life[d] = "bound" /\ Fault
    /\ sock' = None
    /\ life' = [life EXCEPT ![d] = "exiting"]
    /\ UNCHANGED <<lock, channels, work, backup, status, folder, client, tray, stamps>>

(* The main loop ends: a signal, the stop command, or the dashboard closed. *)
BreakLoop(d) ==
    /\ life[d] = "serving"
    /\ life' = [life EXCEPT ![d] = "stopping"]
    /\ notice' = "none"
    /\ UNCHANGED <<lock, sock, channels, work, backup, status, changes, synced, due, client,
                   tray, stamps>>
Signal(d) == BreakLoop(d) /\ Fault
Stop(d) ==
    /\ \E c \in Clients : client[c].to = d /\ client[c].cmd = "stop" /\ client[c].at = "done"
    /\ BreakLoop(d) /\ UNCHANGED faults

(* Both workers have ended and watch returns.  Its locals are dropped in
   reverse order: the socket is unlinked before the lock is released. *)
Exit(d) ==
    /\ life[d] = "stopping"
    /\ work[d].at = "gone" /\ backup[d] = "gone"
    /\ sock' = None
    /\ life' = [life EXCEPT ![d] = "exiting"]
    /\ UNCHANGED <<lock, channels, work, backup, status, folder, client, tray, stamps, faults>>

(* A second signal returns from watch without waiting for the workers. *)
Abort(d) ==
    /\ life[d] = "stopping" /\ Fault
    /\ sock' = None
    /\ life' = [life EXCEPT ![d] = "exiting"]
    /\ IF MayLinger THEN UNCHANGED <<work, backup>>
       ELSE /\ work' = [work EXCEPT ![d] = Gone]
            /\ backup' = [backup EXCEPT ![d] = "gone"]
    /\ UNCHANGED <<lock, channels, status, folder, client, tray, stamps>>

Unlock(d) ==
    /\ life[d] = "exiting"
    /\ lock' = None
    /\ life' = [life EXCEPT ![d] = "lingering"]
    /\ UNCHANGED <<sock, channels, work, backup, status, folder, client, tray, stamps, faults>>

(* The runtime is dropped, and with it every task that is left. *)
Down(d) ==
    /\ life[d] = "lingering"
    /\ life' = [life EXCEPT ![d] = "dead"]
    /\ Forget(d) /\ HangUp(d)
    /\ UNCHANGED <<lock, sock, folder, stamps, faults>>

(* The system releases the lock of a killed process; its socket file stays. *)
Crash(d) ==
    /\ life[d] \notin {"off", "dead"} /\ Fault
    /\ life' = [life EXCEPT ![d] = "dead"]
    /\ lock' = IF lock = d THEN None ELSE lock
    /\ notice' = IF life[d] = "serving" THEN "none" ELSE notice
    /\ Forget(d) /\ HangUp(d)
    /\ UNCHANGED <<sock, changes, synced, due, stamps>>

Serving == \E d \in Daemons : life[d] = "serving"

-----------------------------------------------------------------------------
(* The folder, the watcher and the triggers of the main loop. *)

Change ==
    /\ changes < MaxChanges
    /\ changes' = changes + 1
    /\ notice' = IF Serving THEN "pending" ELSE notice
    /\ UNCHANGED <<procs, channels, work, backup, status, synced, due, client, tray, stamps, faults>>

(* try_send: a trigger already queued absorbs this one. *)
FsEvent_busy(d) ==
    /\ life[d] = "serving" /\ notice = "pending"
    /\ queue' = [queue EXCEPT ![d] = @ \/ work[d].at = "idle"]
    /\ notice' = "none"
    /\ UNCHANGED <<procs, jobs, bqueue, work, backup, status, changes, synced, due, client,
                   tray, stamps, faults>>

FsEvent(d) ==
    /\ life[d] = "serving" /\ notice = "pending"
    /\ queue' = [queue EXCEPT ![d] = TRUE]
    /\ notice' = "none"
    /\ UNCHANGED <<procs, jobs, bqueue, work, backup, status, changes, synced, due, client,
                   tray, stamps, faults>>

(* The debouncer reports errors instead of events; they are only logged. *)
WatcherError(d) ==
    /\ life[d] = "serving" /\ notice = "pending" /\ Fault
    /\ notice' = "missed"
    /\ UNCHANGED <<procs, channels, work, backup, status, changes, synced, due, client, tray, stamps>>

Poll_healthy(d) ==
    /\ life[d] = "serving" /\ status[d].last # "failed"
    /\ queue' = [queue EXCEPT ![d] = TRUE]
    /\ notice' = IF notice = "missed" THEN "none" ELSE notice
    /\ UNCHANGED <<procs, jobs, bqueue, work, backup, status, changes, synced, due, client,
                   tray, stamps, faults>>

Poll(d) ==
    /\ life[d] = "serving"
    /\ queue' = [queue EXCEPT ![d] = TRUE]
    /\ notice' = IF notice = "missed" THEN "none" ELSE notice
    /\ UNCHANGED <<procs, jobs, bqueue, work, backup, status, changes, synced, due, client,
                   tray, stamps, faults>>

BackupTick(d) ==
    /\ life[d] = "serving" /\ due # "off" /\ bqueue[d] = "none"
    /\ bqueue' = [bqueue EXCEPT ![d] = "scheduled"]
    /\ UNCHANGED <<procs, queue, jobs, work, backup, status, folder, client, tray, stamps, faults>>

-----------------------------------------------------------------------------
(* Events.  The hub keeps the newest RingCap events for its subscriber; skipped
   holds the kinds of which the subscriber missed one since their last end. *)

Event(kind, what) == [kind |-> kind, what |-> what]

Publish_full(d, e) ==
    IF tray.to = d /\ Len(tray.rx) < RingCap
    THEN tray' = [tray EXCEPT !.rx = Append(@, e)] ELSE UNCHANGED tray

Publish(d, e) ==
    IF tray.to # d THEN UNCHANGED tray
    ELSE IF Len(tray.rx) < RingCap THEN tray' = [tray EXCEPT !.rx = Append(@, e)]
    ELSE tray' = [tray EXCEPT !.rx = Append(Tail(@), e),
                              !.skipped = @ \cup {Head(tray.rx).kind}]

(* The tray's reducer, for the events that change what it says of the daemon. *)
apply_event(view, e) ==
    CASE e = Event("sync", "started")   -> [view EXCEPT !.syncing = TRUE]
      [] e = Event("backup", "started") -> [view EXCEPT !.backing_up = TRUE]
      [] e.kind = "sync" /\ e.what # "started" ->
             [view EXCEPT !.syncing = FALSE, !.last = e.what]
      [] e.kind = "backup" /\ e.what # "started" ->
             [view EXCEPT !.backing_up = FALSE]

(* subscribe_forever: the connection is accepted and the hub subscribed ... *)
Subscribe(d) ==
    /\ tray.conn \in {"connecting", "lost"}
    /\ sock = d /\ life[d] = "serving"
    /\ tray' = [tray EXCEPT !.conn = "subscribed", !.to = d]
    /\ UNCHANGED <<procs, channels, work, backup, status, folder, client, stamps, faults>>

(* ... and only then is the snapshot taken that the client starts from. *)
Hello(d) ==
    /\ tray.conn = "subscribed" /\ tray.to = d
    /\ tray' = [tray EXCEPT !.conn = "connected", !.view = status[d]]
    /\ UNCHANGED <<procs, channels, work, backup, status, folder, client, stamps, faults>>

Receive(d) ==
    /\ tray.conn = "connected" /\ tray.to = d /\ tray.rx # <<>>
    /\ LET e == Head(tray.rx) IN
       tray' = [tray EXCEPT !.rx = Tail(@), !.view = apply_event(@, e),
                            !.skipped = IF e.what = "started" THEN @ ELSE @ \ {e.kind}]
    /\ UNCHANGED <<procs, channels, work, backup, status, folder, client, stamps, faults>>

-----------------------------------------------------------------------------
(* The sync worker, and passes. *)

InPass(p) == work[p].at \in {"started", "planning", "looked", "logged"}
Passing == {p \in Proc : InPass(p)}

(* A pass that begins serves every sync asked for before it. *)
Served(d) ==
    client' = [c \in Clients |->
        IF client[c].to = d /\ client[c].cmd = "sync" /\ client[c].reply # "none"
        THEN [client[c] EXCEPT !.served = TRUE] ELSE client[c]]

(* The select of Worker::run is biased: shutdown, then requests, then syncs. *)
Take(d, next) ==
    /\ life[d] = "serving" /\ work[d].at = "idle"
    /\ work' = [work EXCEPT ![d] = [Idle EXCEPT !.at = "started", !.for = next]]
    /\ status' = [status EXCEPT ![d].syncing = TRUE]
    /\ Served(d)
    /\ UNCHANGED <<procs, bqueue, backup, folder, tray, stamps, faults>>

TakeResidency(d) ==
    /\ jobs[d] # <<>>
    /\ Take(d, Head(jobs[d]))
    /\ jobs' = [jobs EXCEPT ![d] = Tail(@)]
    /\ UNCHANGED queue

TakeSync(d) ==
    /\ jobs[d] = <<>> /\ queue[d]
    /\ Take(d, None)
    /\ queue' = [queue EXCEPT ![d] = FALSE]
    /\ UNCHANGED jobs

(* The permit of shutdown ends the worker between two passes; dropping the
   receivers fails every request still queued. *)
WorkerStops(d) ==
    /\ life[d] \in {"stopping", "exiting", "lingering"} /\ work[d].at = "idle"
    /\ work' = [work EXCEPT ![d] = Gone]
    /\ queue' = [queue EXCEPT ![d] = FALSE]
    /\ jobs' = [jobs EXCEPT ![d] = <<>>]
    /\ client' = [c \in Clients |->
           IF c \in {jobs[d][i] : i \in DOMAIN jobs[d]}
           THEN [client[c] EXCEPT !.at = "done", !.reply = "stopping"] ELSE client[c]]
    /\ UNCHANGED <<procs, bqueue, backup, status, folder, tray, stamps, faults>>

(* status.started and hub.send are two steps; a subscriber may come between. *)
Announce(d) ==
    /\ work[d].at = "started" /\ d \in Daemons
    /\ work' = [work EXCEPT ![d].at = "planning"]
    /\ Publish(d, Event("sync", "started"))
    /\ UNCHANGED <<procs, channels, backup, status, folder, client, stamps, faults>>

(* plan_pass reads the remote log and scans the folder; apply then reads the
   device's own counter. *)
Look(p) ==
    /\ work[p].at = "planning"
    /\ work' = [work EXCEPT ![p].at = "looked", ![p].saw = changes,
                            ![p].lam = Max(logged \cup {clock}) + 1]
    /\ UNCHANGED <<procs, channels, backup, status, folder, client, tray, stamps, faults>>

(* The delta object is named by that number, if there is anything to log ... *)
LogDelta(p) ==
    /\ work[p].at = "looked"
    /\ work' = [work EXCEPT ![p].at = "logged"]
    /\ IF work[p].saw > synced
       THEN /\ logged' = logged \cup {work[p].lam}
            /\ clobbered' = (clobbered \/ work[p].lam \in logged)
       ELSE UNCHANGED <<logged, clobbered>>
    /\ UNCHANGED <<procs, channels, backup, status, folder, client, tray, clock, faults>>

(* The counters are counted from the last moment at which no pass ran. *)
Rebase(p, lam) ==
    /\ clock' = IF Passing = {p} THEN 0 ELSE lam
    /\ logged' = IF Passing = {p} THEN {} ELSE logged
    /\ UNCHANGED clobbered

Record(p, result) ==
    IF p \in Daemons
    THEN /\ work' = [work EXCEPT ![p].at = result]
         /\ status' = [status EXCEPT ![p].syncing = FALSE, ![p].last = result]
         /\ UNCHANGED <<lock, life>>
    ELSE /\ work' = [work EXCEPT ![p] = Gone]
         /\ life' = [life EXCEPT ![p] = "dead"]
         /\ lock' = IF lock = p THEN None ELSE lock
         /\ UNCHANGED status

(* ... and records it when it is done. *)
PassEnds(p) ==
    /\ work[p].at = "logged"
    /\ synced' = Max({synced, work[p].saw})
    /\ Rebase(p, work[p].lam)
    /\ Record(p, "ok")
    /\ UNCHANGED <<sock, channels, backup, changes, notice, due, client, tray, faults>>

PassFails(p) ==
    /\ work[p].at \in {"planning", "looked"} /\ Fault
    /\ Rebase(p, clock)
    /\ Record(p, "failed")
    /\ UNCHANGED <<sock, channels, backup, folder, client, tray>>

(* The event follows the status, the answer follows the event. *)
Report(d) ==
    /\ work[d].at \in {"ok", "failed"}
    /\ work' = [work EXCEPT ![d] = Idle]
    /\ Publish(d, Event("sync", work[d].at))
    /\ client' = [c \in Clients |->
           IF c = work[d].for THEN [client[c] EXCEPT !.at = "done", !.reply = work[d].at]
           ELSE client[c]]
    /\ UNCHANGED <<procs, channels, backup, status, folder, stamps, faults>>

(* A pass outside the daemon: rfm evict holds the daemon's lock, rfm sync
   looks for nobody. *)
DirectEvict(p) ==
    /\ life[p] = "off" /\ lock = None
    /\ ~(sock \in Daemons /\ life[sock] \in {"bound", "serving", "stopping"})
    /\ lock' = p
    /\ life' = [life EXCEPT ![p] = "direct"]
    /\ work' = [work EXCEPT ![p] = [Idle EXCEPT !.at = "planning"]]
    /\ UNCHANGED <<sock, channels, backup, status, folder, client, tray, stamps, faults>>

DirectSync(p) ==
    /\ life[p] = "off"
    /\ life' = [life EXCEPT ![p] = "direct"]
    /\ work' = [work EXCEPT ![p] = [Idle EXCEPT !.at = "planning"]]
    /\ UNCHANGED <<lock, sock, channels, backup, status, folder, client, tray, stamps, faults>>

-----------------------------------------------------------------------------
(* The backup worker. *)

TakeBackup(d) ==
    /\ life[d] = "serving" /\ backup[d] = "idle" /\ bqueue[d] # "none"
    /\ backup' = [backup EXCEPT ![d] = bqueue[d]]
    /\ bqueue' = [bqueue EXCEPT ![d] = "none"]
    /\ UNCHANGED <<procs, queue, jobs, work, status, folder, client, tray, stamps, faults>>

(* Waiting for the queue to close is not enough: connections hold senders. *)
BackupStops_closed(d) ==
    /\ life[d] \in {"stopping", "exiting", "lingering"} /\ backup[d] = "idle"
    /\ tray.to # d
    /\ backup' = [backup EXCEPT ![d] = "gone"]
    /\ bqueue' = [bqueue EXCEPT ![d] = "none"]
    /\ UNCHANGED <<procs, queue, jobs, work, status, folder, client, tray, stamps, faults>>

BackupStops(d) ==
    /\ life[d] \in {"stopping", "exiting", "lingering"} /\ backup[d] = "idle"
    /\ backup' = [backup EXCEPT ![d] = "gone"]
    /\ bqueue' = [bqueue EXCEPT ![d] = "none"]
    /\ UNCHANGED <<procs, queue, jobs, work, status, folder, client, tray, stamps, faults>>

(* maybe_backup: the repository may not open, a scheduled one may not be due. *)
SkipBackup(d) ==
    /\ \/ backup[d] = "scheduled" /\ due # "due" /\ UNCHANGED faults
       \/ backup[d] \in {"scheduled", "manual"} /\ Fault
    /\ backup' = [backup EXCEPT ![d] = "idle"]
    /\ UNCHANGED <<procs, channels, work, status, folder, client, tray, stamps>>

StartBackup(d) ==
    /\ backup[d] = "manual" \/ (backup[d] = "scheduled" /\ due = "due")
    /\ backup' = [backup EXCEPT ![d] = "started"]
    /\ status' = [status EXCEPT ![d].backing_up = TRUE]
    /\ UNCHANGED <<procs, channels, work, folder, client, tray, stamps, faults>>

AnnounceBackup(d) ==
    /\ backup[d] = "started"
    /\ backup' = [backup EXCEPT ![d] = "running"]
    /\ Publish(d, Event("backup", "started"))
    /\ UNCHANGED <<procs, channels, work, status, folder, client, stamps, faults>>

(* The cancel flag of a stopping daemon, or an error, ends it without a snapshot. *)
EndBackup(d) ==
    /\ backup[d] = "running"
    /\ \E result \in {"ok", "failed"} :
           /\ IF result = "failed" /\ life[d] = "serving" THEN Fault ELSE UNCHANGED faults
           /\ backup' = [backup EXCEPT ![d] = result]
           /\ status' = [status EXCEPT ![d].backing_up = FALSE]
           /\ due' = IF result = "ok" /\ due = "due" THEN "fresh" ELSE due
    /\ UNCHANGED <<procs, channels, work, changes, synced, notice, client, tray, stamps>>

ReportBackup(d) ==
    /\ backup[d] \in {"ok", "failed"}
    /\ backup' = [backup EXCEPT ![d] = "idle"]
    /\ Publish(d, Event("backup", backup[d]))
    /\ UNCHANGED <<procs, channels, work, status, folder, client, stamps, faults>>

-----------------------------------------------------------------------------
(* Control connections. *)

Commands == {"sync", "backup", "stop", "evict", "status"}

(* A listener that no longer accepts still takes connections. *)
Connect(c) ==
    /\ client[c].at = "idle"
    /\ \E cmd \in Commands :
           client' = [client EXCEPT ![c] =
               IF sock \in Daemons /\ life[sock] \in {"bound", "serving", "stopping"}
               THEN [@ EXCEPT !.at = "backlog", !.cmd = cmd, !.to = sock]
               ELSE [@ EXCEPT !.at = "done", !.cmd = cmd, !.reply = "not running"]]
    /\ UNCHANGED <<procs, channels, work, backup, status, folder, tray, stamps, faults>>

Accept(c) ==
    /\ client[c].at = "backlog" /\ life[client[c].to] = "serving"
    /\ client' = [client EXCEPT ![c].at = "open"]
    /\ UNCHANGED <<procs, channels, work, backup, status, folder, tray, stamps, faults>>

(* REPLY_TIMEOUT: a daemon that starts or stops takes a connection without
   answering it.  One that starts will still read the command. *)
Unresponsive(c) ==
    /\ client[c].at = "backlog" /\ life[client[c].to] # "serving"
    /\ client[c].cmd # "evict" /\ client[c].reply = "none"
    /\ client' = [client EXCEPT ![c].reply = "unresponsive"]
    /\ UNCHANGED <<procs, channels, work, backup, status, folder, tray, stamps, faults>>

Reply(c, text) == client' = [client EXCEPT ![c].at = "done", ![c].reply = Told(c, text)]

(* handle_control, once the line is read.  A request waits for room in the
   residency channel and then for its answer; the rest is answered at once. *)
HandleSync_busy(c, d) ==
    /\ client[c].cmd = "sync"
    /\ queue' = [queue EXCEPT ![d] = @ \/ work[d].at = "idle"]
    /\ Reply(c, IF work[d].at = "gone" THEN "stopping" ELSE "queued")
    /\ UNCHANGED <<jobs, bqueue>>

HandleSync(c, d) ==
    /\ client[c].cmd = "sync"
    /\ queue' = [queue EXCEPT ![d] = work[d].at # "gone"]
    /\ Reply(c, IF work[d].at = "gone" THEN "stopping" ELSE "queued")
    /\ UNCHANGED <<jobs, bqueue>>

HandleBackup(c, d) ==
    /\ client[c].cmd = "backup"
    /\ bqueue' = [bqueue EXCEPT ![d] = IF backup[d] = "gone" THEN "none"
                                       ELSE IF @ = "none" THEN "manual" ELSE @]
    /\ Reply(c, IF backup[d] = "gone" THEN "stopping"
                ELSE IF bqueue[d] = "none" THEN "queued" ELSE "already queued")
    /\ UNCHANGED <<queue, jobs>>

HandleEvict(c, d) ==
    /\ client[c].cmd = "evict"
    /\ IF work[d].at = "gone" THEN Reply(c, "stopping") /\ UNCHANGED jobs
       ELSE /\ Len(jobs[d]) < ResidencyCap
            /\ jobs' = [jobs EXCEPT ![d] = Append(@, c)]
            /\ client' = [client EXCEPT ![c].at = "waiting"]
    /\ UNCHANGED <<queue, bqueue>>

HandleOther(c) ==
    /\ client[c].cmd \in {"stop", "status"}
    /\ Reply(c, client[c].cmd)
    /\ UNCHANGED channels

Handle(c) ==
    /\ client[c].at = "open"
    /\ LET d == client[c].to IN
       HandleSync(c, d) \/ HandleBackup(c, d) \/ HandleEvict(c, d) \/ HandleOther(c)
    /\ UNCHANGED <<procs, work, backup, status, folder, tray, stamps, faults>>

-----------------------------------------------------------------------------
ProcessStep(d) == Bind(d) \/ Serve(d) \/ Stop(d) \/ Exit(d) \/ Unlock(d) \/ Down(d)
WorkerStep(d) == TakeResidency(d) \/ TakeSync(d) \/ WorkerStops(d) \/ Announce(d) \/ Report(d)
PassStep(p) == Look(p) \/ LogDelta(p) \/ PassEnds(p)
BackupStep(d) == TakeBackup(d) \/ BackupStops(d) \/ StartBackup(d) \/ AnnounceBackup(d)
                 \/ EndBackup(d) \/ ReportBackup(d) \/ SkipBackup(d)
TrayStep(d) == Subscribe(d) \/ Hello(d) \/ Receive(d)

Next ==
    \/ Change
    \/ \E d \in Daemons :
           \/ Launch(d) \/ StartFails(d) \/ Signal(d) \/ Abort(d) \/ Crash(d)
           \/ FsEvent(d) \/ WatcherError(d) \/ Poll(d) \/ BackupTick(d)
           \/ ProcessStep(d) \/ WorkerStep(d) \/ BackupStep(d) \/ TrayStep(d)
    \/ \E p \in Proc : PassStep(p) \/ PassFails(p)
    \/ \E p \in Evicts : DirectEvict(p)
    \/ \E p \in Syncs : DirectSync(p)
    \/ \E c \in Clients : Connect(c) \/ Accept(c) \/ Unresponsive(c) \/ Handle(c)

Spec == Init /\ [][Next]_vars

(* Timers fire and tasks that can run are run; nothing is assumed of users,
   clients, faults, or when processes are started. *)
Fairness ==
    /\ WF_vars(\E d \in Daemons : ProcessStep(d))
    /\ WF_vars((\E d \in Daemons : WorkerStep(d)) \/ (\E p \in Proc : PassStep(p)))
    /\ WF_vars(\E d \in Daemons : BackupStep(d))
    /\ WF_vars(\E d \in Daemons : Poll(d))
    /\ WF_vars(\E d \in Daemons : BackupTick(d))

FairSpec == Spec /\ Fairness

-----------------------------------------------------------------------------
TypeOK ==
    /\ {lock, sock} \subseteq Proc \cup {None}
    /\ life \in [Proc -> {"off", "locked", "bound", "serving", "stopping", "exiting",
                          "lingering", "direct", "dead"}]
    /\ queue \in [Daemons -> BOOLEAN]
    /\ \A d \in Daemons : jobs[d] \in Seq(Clients) /\ Len(jobs[d]) <= ResidencyCap
    /\ bqueue \in [Daemons -> {"none", "scheduled", "manual"}]
    /\ status \in [Daemons -> [syncing : BOOLEAN, last : {"none", "ok", "failed"},
                               backing_up : BOOLEAN]]
    /\ \A d \in Daemons : InPass(d) => status[d].syncing
    /\ Len(tray.rx) <= RingCap
    /\ synced \in 0..changes

(* The control socket leads to the daemon: while one serves, the path names its
   listener, whatever exits, crashes and restarts went before. *)
SocketIsLive == \A d \in Daemons : life[d] = "serving" => sock = d

(* A client told that its sync is queued, whether by its own trigger or by one
   that was there before, gets a pass that begins after it asked, as long as
   the daemon is not being stopped. *)
QueuedIsRun ==
    \A c \in Clients :
        client[c].cmd = "sync" /\ client[c].reply = "queued" /\ ~client[c].served
        /\ life[client[c].to] = "serving" => queue[client[c].to]

(* The daemon is well formed, reachable, and keeps the promise of a queued
   sync (TypeOK, SocketIsLive, QueuedIsRun). *)
Consistent == TypeOK /\ SocketIsLive /\ QueuedIsRun

(* A subscriber that has read every event shows what the daemon's status says,
   of passes and of backups alike, unless it fell behind and missed the end of
   the last one of that kind. *)
ViewAgrees ==
    \A d \in Daemons :
        tray.conn = "connected" /\ tray.to = d /\ tray.rx = <<>>
        /\ life[d] \in {"serving", "stopping"} =>
            /\ "sync" \in tray.skipped \/ work[d].at \in {"started", "ok", "failed"}
               \/ (tray.view.syncing = status[d].syncing /\ tray.view.last = status[d].last)
            /\ "backup" \in tray.skipped \/ backup[d] \in {"started", "ok", "failed"}
               \/ tray.view.backing_up = status[d].backing_up

(* No delta object is ever written over: "every write goes to a unique key". *)
WritesNeverContend == ~clobbered

(* What the daemon is for: while one serves, every change reaches a pass that
   finishes, and an overdue backup is taken. *)
Settles == /\ []<>(Serving => synced = changes)
           /\ []<>(Serving => due # "due")

(* A daemon told to stop ends, though a pass or a backup is running and
   clients and subscribers stay connected. *)
Stops == \A d \in Daemons : life[d] = "stopping" ~> life[d] = "dead"

(* A forwarded request is answered, or its connection closed. *)
Answered == \A c \in Clients : client[c].at = "waiting" ~> client[c].at = "done"

(* Nothing that was asked of a daemon hangs (Stops, Answered). *)
Ends == Stops /\ Answered

-----------------------------------------------------------------------------
(* The refinement.  A pass is owed when nobody serves, and else when a trigger
   or a notice waits or the last pass did not succeed. *)
Asked(d) == queue[d] \/ jobs[d] # <<>> \/ notice # "none"
Owed == \A d \in Daemons : life[d] = "serving" => Asked(d) \/ status[d].last # "ok"

PassIn(w) ==
    LET passing == {p \in Proc : w[p].at \in {"started", "planning", "looked", "logged"}}
        runs == CHOOSE p \in passing : TRUE
    IN  IF passing = {} THEN [at |-> "none", saw |-> 0]
        ELSE IF w[runs].at \in {"started", "planning"} THEN [at |-> "begun", saw |-> 0]
        ELSE [at |-> "seen", saw |-> w[runs].saw]

Service == INSTANCE SyncService WITH owed <- Owed, pass <- PassIn(work)

(* The daemon, with its crashes, restarts and coalesced triggers, and the
   direct evictions beside it, implement SyncService. *)
Implements == Service!Spec
=============================================================================
