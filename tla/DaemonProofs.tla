---------------------------- MODULE DaemonProofs ----------------------------
(***************************************************************************)
(* The watch daemon, for any number of daemons, clients, direct evictions, *)
(* changes and faults and any capacities: theorems about Daemon, and that  *)
(* it implements SyncService.                                              *)
(*                                                                         *)
(* Whoever serves holds the lock and owns the socket (Locks), so a client  *)
(* that was accepted talks to a daemon that does not go back to starting   *)
(* (Connections), and passes run one at a time (Passes).  What a subscriber*)
(* shows follows from the newest event of each kind in its ring, or, once  *)
(* it has read them all and missed no end, from its view (Subscriber).     *)
(***************************************************************************)
EXTENDS Daemon, TLAPS

Stages == {"idle", "gone", "started", "planning", "looked", "logged", "ok", "failed"}
BackupStages == {"idle", "gone", "scheduled", "manual", "started", "running", "ok", "failed"}
Places == {"off", "locked", "bound", "serving", "stopping", "exiting", "lingering", "direct",
           "dead"}
Kinds == {"sync", "backup"}
Events == [kind : Kinds, what : {"started", "ok", "failed"}]
Shown == [syncing : BOOLEAN, last : {"none", "ok", "failed"}, backing_up : BOOLEAN]
Replies == {"none", "eof", "stopping", "not running", "unresponsive", "queued",
            "already queued", "stop", "status", "ok", "failed"}

Pass(L) == [at : Stages, saw : Nat, lam : L, for : Clients \cup {None}]
Connection == [at : {"idle", "backlog", "open", "waiting", "done"},
               cmd : Commands \cup {"none"}, to : Daemons \cup {None},
               reply : Replies, served : BOOLEAN]
Tray == [conn : {"connecting", "closed", "subscribed", "connected", "lost"},
         to : Daemons \cup {None}, rx : Seq(Events), skipped : SUBSET Kinds, view : Shown]

(* What TypeOK leaves unsaid.  A pass's lamport is left open: no property here
   depends on it. *)
Typed ==
    /\ jobs \in [Daemons -> Seq(Clients)]
    /\ \E L : work \in [Proc -> Pass(L)]
    /\ backup \in [Daemons -> BackupStages]
    /\ changes \in Nat /\ synced \in Nat
    /\ notice \in {"none", "pending", "missed"}
    /\ client \in [Clients -> Connection]
    /\ tray \in Tray
    /\ \A p \in Proc : work[p].saw <= changes

Types == TypeOK /\ Typed

Unborn == {"off", "locked", "bound"}
Up == {"serving", "stopping"}

(* The daemon's lock is held from launch to unlock, the socket names the holder
   from Bind until it stops. *)
Holding(p) == \/ p \in Daemons /\ life[p] \in {"locked", "bound", "serving", "stopping", "exiting"}
              \/ p \in Evicts /\ life[p] = "direct"
Locks ==
    /\ \A p \in Proc : Holding(p) => lock = p
    /\ \A d \in Daemons : life[d] \in {"bound", "serving", "stopping"} => sock = d

(* A daemon has a worker while it serves and an empty memory before. *)
Workers ==
    \A d \in Daemons :
        /\ life[d] = "serving" => work[d].at # "gone"
        /\ life[d] \in Unborn => /\ work[d].at = "gone" /\ status[d] = Fresh
                                 /\ backup[d] = "gone"

(* Who has been accepted talks to a daemon that served, and to the same one
   until it is answered. *)
Connections ==
    \A c \in Clients :
        /\ client[c].at = "idle" => client[c].reply = "none"
        /\ client[c].at \in {"backlog", "open", "waiting"} => client[c].to \in Daemons
        /\ client[c].at \in {"open", "waiting"} \/ client[c].reply = "queued" =>
               client[c].to \in Daemons /\ life[client[c].to] \notin Unborn

(* Passes run in daemons that are up and in direct evictions, which hold the
   lock; what a pass has seen covers what was synced before, and what it has
   not is asked for. *)
Guarded ==
    \A p \in Proc : InPass(p) => Holding(p) /\ (p \in Daemons => life[p] \in Up)

Covering ==
    \A p \in Proc :
        work[p].at \in {"looked", "logged"} =>
            /\ synced <= work[p].saw
            /\ p \in Daemons /\ life[p] = "serving" /\ work[p].saw < changes => Asked(p)

(* The subscriber: t is the tray, stage the worker's, s the daemon's status. *)
Announced == {"planning", "looked", "logged", "running", "ok", "failed"}
Active == {"started", "planning", "looked", "logged", "running"}
Between == {"started", "ok", "failed"}
Busy(view, k) == IF k = "sync" THEN view.syncing ELSE view.backing_up
IsEnd(e) == e.kind = "sync" /\ e.what # "started"

Of(k) == {e \in Events : e.kind = k}
EndEvents == {e \in Events : IsEnd(e)}

Has(rx, C) == \E i \in DOMAIN rx : rx[i] \in C
Newest(rx, C, i) == i \in DOMAIN rx /\ rx[i] \in C /\ \A j \in DOMAIN rx : rx[j] \in C => j <= i
Says(rx, C, W) == \A i \in DOMAIN rx : Newest(rx, C, i) => rx[i].what \in W

Follows(t, k, stage, s) ==
    /\ Says(t.rx, Of(k), IF stage \in Announced THEN {"started"} ELSE {"ok", "failed"})
    /\ \/ t.conn # "connected" \/ k \in t.skipped \/ stage \in Between
       \/ Has(t.rx, Of(k)) \/ Busy(t.view, k) = Busy(s, k)

Recalls(t, stage, s) ==
    \/ stage \in {"ok", "failed"}
    \/ /\ Says(t.rx, EndEvents, {s.last})
       /\ t.conn # "connected" \/ "sync" \in t.skipped \/ Has(t.rx, EndEvents) \/ t.view.last = s.last

Subscriber ==
    /\ tray.to = None => tray.rx = <<>> /\ tray.skipped = {}
    /\ tray.to # None => tray.conn \in {"subscribed", "connected"}
    /\ \A d \in Daemons :
          tray.to = d =>
              /\ life[d] \notin Unborn
              /\ life[d] \in Up =>
                    /\ Follows(tray, "sync", work[d].at, status[d])
                    /\ Follows(tray, "backup", backup[d], status[d])
                    /\ Recalls(tray, work[d].at, status[d])

Statuses ==
    \A d \in Daemons : life[d] \in Up =>
        /\ status[d].syncing <=> work[d].at \in Active
        /\ status[d].backing_up <=> backup[d] \in Active
        /\ work[d].at \in {"ok", "failed"} => status[d].last = work[d].at
-----------------------------------------------------------------------------
(* Which steps change what. *)

USE ProcAssumption, CapAssumption

LEMMA ProcsFrame ==
    ASSUME [Next]_vars
    PROVE  \/ UNCHANGED procs
           \/ \E d \in Daemons : \/ Launch(d) \/ Bind(d) \/ Serve(d) \/ StartFails(d)
                                 \/ BreakLoop(d) \/ Exit(d) \/ Abort(d) \/ Unlock(d)
                                 \/ Down(d) \/ Crash(d)
           \/ \E p \in Proc : PassEnds(p) \/ PassFails(p)
           \/ \E p \in Evicts : DirectEvict(p)
           \/ \E p \in Syncs : DirectSync(p)
  <1>1. CASE UNCHANGED vars
    BY <1>1 DEF vars, procs
  <1>2. CASE Change
    BY <1>2 DEF Change
  <1>3. ASSUME NEW d \in Daemons, FsEvent(d) \/ WatcherError(d) \/ Poll(d) \/ BackupTick(d)
        PROVE UNCHANGED procs
    BY <1>3 DEF FsEvent, WatcherError, Poll, BackupTick
  <1>4. ASSUME NEW d \in Daemons, Signal(d) \/ Stop(d)
        PROVE BreakLoop(d)
    BY <1>4 DEF Signal, Stop
  <1>5. ASSUME NEW d \in Daemons, WorkerStep(d)
        PROVE UNCHANGED procs
    BY <1>5 DEF WorkerStep, TakeResidency, TakeSync, Take, WorkerStops, Announce, Report
  <1>6. ASSUME NEW d \in Daemons, BackupStep(d)
        PROVE UNCHANGED procs
    BY <1>6 DEF BackupStep, TakeBackup, BackupStops, StartBackup, AnnounceBackup, EndBackup,
                ReportBackup, SkipBackup
  <1>7. ASSUME NEW d \in Daemons, TrayStep(d)
        PROVE UNCHANGED procs
    BY <1>7 DEF TrayStep, Subscribe, Hello, Receive
  <1>8. ASSUME NEW p \in Proc, Look(p) \/ LogDelta(p)
        PROVE UNCHANGED procs
    BY <1>8 DEF Look, LogDelta
  <1>9. ASSUME NEW c \in Clients, Connect(c) \/ Accept(c) \/ Unresponsive(c) \/ Handle(c)
        PROVE UNCHANGED procs
    BY <1>9 DEF Connect, Accept, Unresponsive, Handle
  <1>10. QED
    BY <1>1, <1>2, <1>3, <1>4, <1>5, <1>6, <1>7, <1>8, <1>9
       DEF Next, ProcessStep, PassStep

LEMMA WorkFrame ==
    ASSUME [Next]_vars
    PROVE  \/ UNCHANGED work
           \/ \E d \in Daemons : \/ Serve(d) \/ Abort(d) \/ Down(d) \/ Crash(d)
                                 \/ WorkerStep(d)
           \/ \E p \in Proc : PassStep(p) \/ PassFails(p)
           \/ \E p \in Evicts : DirectEvict(p)
           \/ \E p \in Syncs : DirectSync(p)
  <1>1. CASE UNCHANGED vars
    BY <1>1 DEF vars
  <1>2. CASE Change
    BY <1>2 DEF Change
  <1>3. ASSUME NEW d \in Daemons,
               FsEvent(d) \/ WatcherError(d) \/ Poll(d) \/ BackupTick(d) \/ Launch(d)
               \/ StartFails(d) \/ Signal(d)
        PROVE UNCHANGED work
    BY <1>3 DEF FsEvent, WatcherError, Poll, BackupTick, Launch, StartFails, Signal, BreakLoop
  <1>4. ASSUME NEW d \in Daemons, Bind(d) \/ Stop(d) \/ Exit(d) \/ Unlock(d)
        PROVE UNCHANGED work
    BY <1>4 DEF Bind, Stop, BreakLoop, Exit, Unlock
  <1>6. ASSUME NEW d \in Daemons, BackupStep(d)
        PROVE UNCHANGED work
    BY <1>6 DEF BackupStep, TakeBackup, BackupStops, StartBackup, AnnounceBackup, EndBackup,
                ReportBackup, SkipBackup
  <1>7. ASSUME NEW d \in Daemons, TrayStep(d)
        PROVE UNCHANGED work
    BY <1>7 DEF TrayStep, Subscribe, Hello, Receive
  <1>9. ASSUME NEW c \in Clients, Connect(c) \/ Accept(c) \/ Unresponsive(c) \/ Handle(c)
        PROVE UNCHANGED work
    BY <1>9 DEF Connect, Accept, Unresponsive, Handle
  <1>10. QED
    BY <1>1, <1>2, <1>3, <1>4, <1>6, <1>7, <1>9 DEF Next, ProcessStep

LEMMA BackupFrame ==
    ASSUME [Next]_vars
    PROVE  \/ UNCHANGED <<backup, bqueue>>
           \/ \E d \in Daemons : \/ Serve(d) \/ Abort(d) \/ Down(d) \/ Crash(d)
                                 \/ BackupTick(d) \/ BackupStep(d)
           \/ \E c \in Clients : Handle(c)
  <1>1. CASE UNCHANGED vars
    BY <1>1 DEF vars, channels
  <1>2. CASE Change
    BY <1>2 DEF Change, channels
  <1>3. ASSUME NEW d \in Daemons,
               \/ Launch(d) \/ StartFails(d) \/ Signal(d) \/ FsEvent(d) \/ WatcherError(d)
               \/ Poll(d)
        PROVE  UNCHANGED <<backup, bqueue>>
    BY <1>3 DEF Launch, StartFails, Signal, BreakLoop, FsEvent, WatcherError, Poll, channels
  <1>4. ASSUME NEW d \in Daemons, Bind(d) \/ Stop(d) \/ Exit(d) \/ Unlock(d)
        PROVE  UNCHANGED <<backup, bqueue>>
    BY <1>4 DEF Bind, Stop, BreakLoop, Exit, Unlock, channels
  <1>5. ASSUME NEW d \in Daemons, WorkerStep(d)
        PROVE  UNCHANGED <<backup, bqueue>>
    BY <1>5 DEF WorkerStep, TakeResidency, Take, TakeSync, WorkerStops, Announce, Report,
                channels
  <1>6. ASSUME NEW d \in Daemons, TrayStep(d)
        PROVE  UNCHANGED <<backup, bqueue>>
    BY <1>6 DEF TrayStep, Subscribe, Hello, Receive, channels
  <1>7. ASSUME NEW p \in Proc, Look(p) \/ LogDelta(p) \/ PassEnds(p) \/ PassFails(p)
        PROVE  UNCHANGED <<backup, bqueue>>
    BY <1>7 DEF Look, LogDelta, PassEnds, PassFails, channels
  <1>8. ASSUME NEW p \in Evicts \cup Syncs, DirectEvict(p) \/ DirectSync(p)
        PROVE  UNCHANGED <<backup, bqueue>>
    BY <1>8 DEF DirectEvict, DirectSync, channels
  <1>9. ASSUME NEW c \in Clients, Connect(c) \/ Accept(c) \/ Unresponsive(c)
        PROVE  UNCHANGED <<backup, bqueue>>
    BY <1>9 DEF Connect, Accept, Unresponsive, channels
  <1> QED
    BY <1>1, <1>2, <1>3, <1>4, <1>5, <1>6, <1>7, <1>8, <1>9 DEF Next, ProcessStep, PassStep

LEMMA QueueFrame ==
    ASSUME [Next]_vars
    PROVE  \/ UNCHANGED <<queue, jobs>>
           \/ \E d \in Daemons : \/ Down(d) \/ Crash(d) \/ FsEvent(d) \/ Poll(d)
                                 \/ TakeResidency(d) \/ TakeSync(d) \/ WorkerStops(d)
           \/ \E c \in Clients : Handle(c)
  <1>1. CASE UNCHANGED vars
    BY <1>1 DEF vars, channels
  <1>2. CASE Change
    BY <1>2 DEF Change, channels
  <1>3. ASSUME NEW d \in Daemons,
               \/ Launch(d) \/ StartFails(d) \/ Signal(d) \/ Abort(d) \/ WatcherError(d)
               \/ BackupTick(d)
        PROVE  UNCHANGED <<queue, jobs>>
    BY <1>3 DEF Launch, StartFails, Signal, BreakLoop, Abort, WatcherError, BackupTick, channels
  <1>4. ASSUME NEW d \in Daemons, Bind(d) \/ Serve(d) \/ Stop(d) \/ Exit(d) \/ Unlock(d)
        PROVE  UNCHANGED <<queue, jobs>>
    BY <1>4 DEF Bind, Serve, Stop, BreakLoop, Exit, Unlock, channels
  <1>5. ASSUME NEW d \in Daemons, Announce(d) \/ Report(d)
        PROVE  UNCHANGED <<queue, jobs>>
    BY <1>5 DEF Announce, Report, channels
  <1>6. ASSUME NEW d \in Daemons, BackupStep(d)
        PROVE  UNCHANGED <<queue, jobs>>
    BY <1>6 DEF BackupStep, TakeBackup, BackupStops, StartBackup, AnnounceBackup, EndBackup,
                ReportBackup, SkipBackup, channels
  <1>7. ASSUME NEW d \in Daemons, TrayStep(d)
        PROVE  UNCHANGED <<queue, jobs>>
    BY <1>7 DEF TrayStep, Subscribe, Hello, Receive, channels
  <1>8. ASSUME NEW p \in Proc, Look(p) \/ LogDelta(p) \/ PassEnds(p) \/ PassFails(p)
        PROVE  UNCHANGED <<queue, jobs>>
    BY <1>8 DEF Look, LogDelta, PassEnds, PassFails, channels
  <1>9. ASSUME NEW p \in Evicts \cup Syncs, DirectEvict(p) \/ DirectSync(p)
        PROVE  UNCHANGED <<queue, jobs>>
    BY <1>9 DEF DirectEvict, DirectSync, channels
  <1>10. ASSUME NEW c \in Clients, Connect(c) \/ Accept(c) \/ Unresponsive(c)
        PROVE  UNCHANGED <<queue, jobs>>
    BY <1>10 DEF Connect, Accept, Unresponsive, channels
  <1> QED
    BY <1>1, <1>2, <1>3, <1>4, <1>5, <1>6, <1>7, <1>8, <1>9, <1>10 DEF Next, ProcessStep,
       WorkerStep, PassStep

LEMMA StatusFrame ==
    ASSUME [Next]_vars
    PROVE  \/ UNCHANGED status
           \/ \E d \in Daemons : \/ Down(d) \/ Crash(d) \/ TakeResidency(d) \/ TakeSync(d)
                                 \/ StartBackup(d) \/ EndBackup(d)
           \/ \E p \in Proc : PassEnds(p) \/ PassFails(p)
  <1>1. CASE UNCHANGED vars
    BY <1>1 DEF vars
  <1>2. CASE Change
    BY <1>2 DEF Change
  <1>3. ASSUME NEW d \in Daemons,
               \/ Launch(d) \/ StartFails(d) \/ Signal(d) \/ Abort(d) \/ FsEvent(d)
               \/ WatcherError(d) \/ Poll(d) \/ BackupTick(d)
        PROVE  UNCHANGED status
    BY <1>3 DEF Launch, StartFails, Signal, BreakLoop, Abort, FsEvent, WatcherError, Poll,
                BackupTick
  <1>4. ASSUME NEW d \in Daemons, Bind(d) \/ Serve(d) \/ Stop(d) \/ Exit(d) \/ Unlock(d)
        PROVE  UNCHANGED status
    BY <1>4 DEF Bind, Serve, Stop, BreakLoop, Exit, Unlock
  <1>5. ASSUME NEW d \in Daemons, WorkerStops(d) \/ Announce(d) \/ Report(d)
        PROVE  UNCHANGED status
    BY <1>5 DEF WorkerStops, Announce, Report
  <1>6. ASSUME NEW d \in Daemons,
               \/ TakeBackup(d) \/ BackupStops(d) \/ AnnounceBackup(d) \/ ReportBackup(d)
               \/ SkipBackup(d)
        PROVE  UNCHANGED status
    BY <1>6 DEF TakeBackup, BackupStops, AnnounceBackup, ReportBackup, SkipBackup
  <1>7. ASSUME NEW d \in Daemons, TrayStep(d)
        PROVE  UNCHANGED status
    BY <1>7 DEF TrayStep, Subscribe, Hello, Receive
  <1>8. ASSUME NEW p \in Proc, Look(p) \/ LogDelta(p)
        PROVE  UNCHANGED status
    BY <1>8 DEF Look, LogDelta
  <1>9. ASSUME NEW p \in Evicts \cup Syncs, DirectEvict(p) \/ DirectSync(p)
        PROVE  UNCHANGED status
    BY <1>9 DEF DirectEvict, DirectSync
  <1>10. ASSUME NEW c \in Clients, Connect(c) \/ Accept(c) \/ Unresponsive(c) \/ Handle(c)
        PROVE  UNCHANGED status
    BY <1>10 DEF Connect, Accept, Unresponsive, Handle
  <1> QED
    BY <1>1, <1>2, <1>3, <1>4, <1>5, <1>6, <1>7, <1>8, <1>9, <1>10 DEF Next, ProcessStep,
       WorkerStep, BackupStep, PassStep

LEMMA FolderFrame ==
    ASSUME [Next]_vars
    PROVE  \/ UNCHANGED <<changes, synced, notice>>
           \/ Change
           \/ \E d \in Daemons : \/ Crash(d) \/ Signal(d) \/ Stop(d) \/ FsEvent(d)
                                 \/ WatcherError(d) \/ Poll(d)
           \/ \E p \in Proc : PassEnds(p)
  <1>1. CASE UNCHANGED vars
    BY <1>1 DEF vars, folder
  <1>2. ASSUME NEW d \in Daemons, Launch(d) \/ StartFails(d) \/ Abort(d) \/ BackupTick(d)
        PROVE  UNCHANGED <<changes, synced, notice>>
    BY <1>2 DEF Launch, StartFails, Abort, BackupTick, folder
  <1>3. ASSUME NEW d \in Daemons, Bind(d) \/ Serve(d) \/ Exit(d) \/ Unlock(d) \/ Down(d)
        PROVE  UNCHANGED <<changes, synced, notice>>
    BY <1>3 DEF Bind, Serve, Exit, Unlock, Down, folder
  <1>4. ASSUME NEW d \in Daemons, WorkerStep(d)
        PROVE  UNCHANGED <<changes, synced, notice>>
    BY <1>4 DEF WorkerStep, TakeResidency, Take, TakeSync, WorkerStops, Announce, Report, folder
  <1>5. ASSUME NEW d \in Daemons, BackupStep(d)
        PROVE  UNCHANGED <<changes, synced, notice>>
    BY <1>5 DEF BackupStep, TakeBackup, BackupStops, StartBackup, AnnounceBackup, EndBackup,
                ReportBackup, SkipBackup, folder
  <1>6. ASSUME NEW d \in Daemons, TrayStep(d)
        PROVE  UNCHANGED <<changes, synced, notice>>
    BY <1>6 DEF TrayStep, Subscribe, Hello, Receive, folder
  <1>7. ASSUME NEW p \in Proc, Look(p) \/ LogDelta(p) \/ PassFails(p)
        PROVE  UNCHANGED <<changes, synced, notice>>
    BY <1>7 DEF Look, LogDelta, PassFails, folder
  <1>8. ASSUME NEW p \in Evicts \cup Syncs, DirectEvict(p) \/ DirectSync(p)
        PROVE  UNCHANGED <<changes, synced, notice>>
    BY <1>8 DEF DirectEvict, DirectSync, folder
  <1>9. ASSUME NEW c \in Clients, Connect(c) \/ Accept(c) \/ Unresponsive(c) \/ Handle(c)
        PROVE  UNCHANGED <<changes, synced, notice>>
    BY <1>9 DEF Connect, Accept, Unresponsive, Handle, folder
  <1> QED
    BY <1>1, <1>2, <1>3, <1>4, <1>5, <1>6, <1>7, <1>8, <1>9 DEF Next, ProcessStep, PassStep

LEMMA ClientFrame ==
    ASSUME [Next]_vars
    PROVE  \/ UNCHANGED client
           \/ \E d \in Daemons : \/ Down(d) \/ Crash(d) \/ TakeResidency(d) \/ TakeSync(d)
                                 \/ WorkerStops(d) \/ Report(d)
           \/ \E c \in Clients : Connect(c) \/ Accept(c) \/ Unresponsive(c) \/ Handle(c)
  <1>1. CASE UNCHANGED vars
    BY <1>1 DEF vars
  <1>2. CASE Change
    BY <1>2 DEF Change
  <1>3. ASSUME NEW d \in Daemons,
               \/ Launch(d) \/ StartFails(d) \/ Signal(d) \/ Abort(d) \/ FsEvent(d)
               \/ WatcherError(d) \/ Poll(d) \/ BackupTick(d)
        PROVE  UNCHANGED client
    BY <1>3 DEF Launch, StartFails, Signal, BreakLoop, Abort, FsEvent, WatcherError, Poll,
                BackupTick
  <1>4. ASSUME NEW d \in Daemons, Bind(d) \/ Serve(d) \/ Stop(d) \/ Exit(d) \/ Unlock(d)
        PROVE  UNCHANGED client
    BY <1>4 DEF Bind, Serve, Stop, BreakLoop, Exit, Unlock
  <1>5. ASSUME NEW d \in Daemons, Announce(d)
        PROVE  UNCHANGED client
    BY <1>5 DEF Announce
  <1>6. ASSUME NEW d \in Daemons, BackupStep(d)
        PROVE  UNCHANGED client
    BY <1>6 DEF BackupStep, TakeBackup, BackupStops, StartBackup, AnnounceBackup, EndBackup,
                ReportBackup, SkipBackup
  <1>7. ASSUME NEW d \in Daemons, TrayStep(d)
        PROVE  UNCHANGED client
    BY <1>7 DEF TrayStep, Subscribe, Hello, Receive
  <1>8. ASSUME NEW p \in Proc, Look(p) \/ LogDelta(p) \/ PassEnds(p) \/ PassFails(p)
        PROVE  UNCHANGED client
    BY <1>8 DEF Look, LogDelta, PassEnds, PassFails
  <1>9. ASSUME NEW p \in Evicts \cup Syncs, DirectEvict(p) \/ DirectSync(p)
        PROVE  UNCHANGED client
    BY <1>9 DEF DirectEvict, DirectSync
  <1> QED
    BY <1>1, <1>2, <1>3, <1>4, <1>5, <1>6, <1>7, <1>8, <1>9 DEF Next, ProcessStep, WorkerStep,
       PassStep

LEMMA TrayFrame ==
    ASSUME [Next]_vars
    PROVE  \/ UNCHANGED tray
           \/ \E d \in Daemons : \/ Down(d) \/ Crash(d) \/ Announce(d) \/ Report(d)
                                 \/ AnnounceBackup(d) \/ ReportBackup(d) \/ TrayStep(d)
  <1>1. CASE UNCHANGED vars
    BY <1>1 DEF vars
  <1>2. CASE Change
    BY <1>2 DEF Change
  <1>3. ASSUME NEW d \in Daemons,
               \/ Launch(d) \/ StartFails(d) \/ Signal(d) \/ Abort(d) \/ FsEvent(d)
               \/ WatcherError(d) \/ Poll(d) \/ BackupTick(d)
        PROVE  UNCHANGED tray
    BY <1>3 DEF Launch, StartFails, Signal, BreakLoop, Abort, FsEvent, WatcherError, Poll,
                BackupTick
  <1>4. ASSUME NEW d \in Daemons, Bind(d) \/ Serve(d) \/ Stop(d) \/ Exit(d) \/ Unlock(d)
        PROVE  UNCHANGED tray
    BY <1>4 DEF Bind, Serve, Stop, BreakLoop, Exit, Unlock
  <1>5. ASSUME NEW d \in Daemons, TakeResidency(d) \/ TakeSync(d) \/ WorkerStops(d)
        PROVE  UNCHANGED tray
    BY <1>5 DEF TakeResidency, Take, TakeSync, WorkerStops
  <1>6. ASSUME NEW d \in Daemons,
               \/ TakeBackup(d) \/ BackupStops(d) \/ StartBackup(d) \/ EndBackup(d)
               \/ SkipBackup(d)
        PROVE  UNCHANGED tray
    BY <1>6 DEF TakeBackup, BackupStops, StartBackup, EndBackup, SkipBackup
  <1>7. ASSUME NEW p \in Proc, Look(p) \/ LogDelta(p) \/ PassEnds(p) \/ PassFails(p)
        PROVE  UNCHANGED tray
    BY <1>7 DEF Look, LogDelta, PassEnds, PassFails
  <1>8. ASSUME NEW p \in Evicts \cup Syncs, DirectEvict(p) \/ DirectSync(p)
        PROVE  UNCHANGED tray
    BY <1>8 DEF DirectEvict, DirectSync
  <1>9. ASSUME NEW c \in Clients, Connect(c) \/ Accept(c) \/ Unresponsive(c) \/ Handle(c)
        PROVE  UNCHANGED tray
    BY <1>9 DEF Connect, Accept, Unresponsive, Handle
  <1> QED
    BY <1>1, <1>2, <1>3, <1>4, <1>5, <1>6, <1>7, <1>8, <1>9 DEF Next, ProcessStep, WorkerStep,
       BackupStep, PassStep

-----------------------------------------------------------------------------
(* Types. *)

LEMMA MaxOfTwo ==
    ASSUME NEW a \in Nat, NEW b \in Nat
    PROVE  Max({a, b}) \in {a, b} /\ a <= Max({a, b}) /\ b <= Max({a, b})
  <1>1. \E x \in {a, b} : \A y \in {a, b} : x >= y
    <2>1. CASE a >= b
      BY <2>1
    <2>2. CASE b >= a
      BY <2>2
    <2>3. QED
      BY <2>1, <2>2
  <1>2. QED
    BY <1>1 DEF Max

LEMMA TypeProcs ==
    ASSUME Types, [Next]_vars
    PROVE  {lock, sock}' \subseteq Proc \cup {None} /\ life' \in [Proc -> Places]
  <1>1. {lock, sock} \subseteq Proc \cup {None} /\ life \in [Proc -> Places]
    BY DEF Types, TypeOK, Places
  <1>2. CASE UNCHANGED procs
    BY <1>1, <1>2 DEF procs
  <1>3. ASSUME NEW d \in Daemons,
               Launch(d) \/ Bind(d) \/ Serve(d) \/ StartFails(d) \/ BreakLoop(d)
        PROVE  {lock, sock}' \subseteq Proc \cup {None} /\ life' \in [Proc -> Places]
    BY <1>1, <1>3 DEF Launch, Bind, Serve, StartFails, BreakLoop, Places, Proc
  <1>4. ASSUME NEW d \in Daemons,
               Exit(d) \/ Abort(d) \/ Unlock(d) \/ Down(d) \/ Crash(d)
        PROVE  {lock, sock}' \subseteq Proc \cup {None} /\ life' \in [Proc -> Places]
    BY <1>1, <1>4 DEF Exit, Abort, Unlock, Down, Crash, Places, Proc
  <1>5. ASSUME NEW p \in Proc, PassEnds(p) \/ PassFails(p)
        PROVE  {lock, sock}' \subseteq Proc \cup {None} /\ life' \in [Proc -> Places]
    BY <1>1, <1>5 DEF PassEnds, PassFails, Record, Places
  <1>6. ASSUME NEW p \in Evicts \cup Syncs, DirectEvict(p) \/ DirectSync(p)
        PROVE  {lock, sock}' \subseteq Proc \cup {None} /\ life' \in [Proc -> Places]
    BY <1>1, <1>6 DEF DirectEvict, DirectSync, Places, Proc
  <1>7. QED
    BY <1>2, <1>3, <1>4, <1>5, <1>6, ProcsFrame

LEMMA TypeWork ==
    ASSUME Types, [Next]_vars
    PROVE  \E L : work' \in [Proc -> Pass(L)]
  <1>1. PICK L : work \in [Proc -> Pass(L)]
    BY DEF Types, Typed
  <1>2. changes \in Nat /\ jobs \in [Daemons -> Seq(Clients)] /\ \A d \in Daemons : d \in Proc
    BY DEF Types, Typed, Proc
  <1>3. \A M : work \in [Proc -> Pass(L \cup M)]
    BY <1>1 DEF Pass
  <1>4. Idle \in Pass(L \cup {0}) /\ Gone \in Pass(L \cup {0})
    BY DEF Idle, Gone, Pass, Stages
  <1>5. ASSUME NEW p \in Proc, NEW r \in Pass(L \cup {0}), work' = [work EXCEPT ![p] = r]
        PROVE  \E K : work' \in [Proc -> Pass(K)]
    <2>1. work' \in [Proc -> Pass(L \cup {0})]
      BY <1>3, <1>5
    <2>2. QED
      BY <2>1
  <1>6. CASE UNCHANGED work
    BY <1>1, <1>6
  <1>7. ASSUME NEW d \in Daemons, Serve(d) \/ Abort(d) \/ Down(d) \/ Crash(d)
        PROVE  \E K : work' \in [Proc -> Pass(K)]
    <2>1. \/ work' = [work EXCEPT ![d] = Idle] \/ work' = [work EXCEPT ![d] = Gone]
          \/ UNCHANGED work
      BY <1>7 DEF Serve, Abort, Down, Crash, Forget
    <2>2. QED
      BY <1>1, <1>2, <1>4, <1>5, <2>1
  <1>8. ASSUME NEW d \in Daemons, NEW next \in Clients \cup {None}, Take(d, next)
        PROVE  \E K : work' \in [Proc -> Pass(K)]
    <2>1. [Idle EXCEPT !.at = "started", !.for = next] \in Pass(L \cup {0})
      BY DEF Idle, Pass, Stages
    <2>2. QED
      BY <1>2, <1>5, <1>8, <2>1 DEF Take
  <1>9. ASSUME NEW d \in Daemons, TakeResidency(d) \/ TakeSync(d)
        PROVE  \E K : work' \in [Proc -> Pass(K)]
    <2>1. jobs[d] # <<>> => Head(jobs[d]) \in Clients
      BY <1>2
    <2>2. QED
      BY <1>8, <1>9, <2>1 DEF TakeResidency, TakeSync
  <1>10. ASSUME NEW d \in Daemons, WorkerStops(d) \/ Report(d)
         PROVE  \E K : work' \in [Proc -> Pass(K)]
    BY <1>2, <1>4, <1>5, <1>10 DEF WorkerStops, Report
  <1>11. ASSUME NEW p \in Proc, NEW at \in Stages
         PROVE  [work[p] EXCEPT !.at = at] \in Pass(L \cup {0})
    <2>1. work[p] \in Pass(L \cup {0})
      BY <1>3
    <2>2. QED
      BY <2>1 DEF Pass
  <1>12. ASSUME NEW d \in Daemons, Announce(d)
         PROVE  \E K : work' \in [Proc -> Pass(K)]
    <2>1. work' = [work EXCEPT ![d] = [work[d] EXCEPT !.at = "planning"]]
      BY <1>1, <1>2, <1>12 DEF Announce
    <2>2. QED
      BY <1>2, <1>5, <1>11, <2>1 DEF Stages
  <1>13. ASSUME NEW p \in Proc, Look(p)
         PROVE  \E K : work' \in [Proc -> Pass(K)]
    <2>1. PICK n : work' = [work EXCEPT ![p].at = "looked", ![p].saw = changes, ![p].lam = n]
      BY <1>13 DEF Look
    <2>2. work \in [Proc -> Pass(L \cup {n})]
      BY <1>3
    <2> DEFINE r == [work[p] EXCEPT !.at = "looked", !.saw = changes, !.lam = n]
    <2>3. r \in Pass(L \cup {n})
      BY <1>2, <2>2 DEF Pass, Stages
    <2>4. work' = [work EXCEPT ![p] = r]
      BY <2>1, <2>2
    <2> HIDE DEF r
    <2>5. work' \in [Proc -> Pass(L \cup {n})]
      BY <2>2, <2>3, <2>4
    <2>6. QED
      BY <2>5
  <1>14. ASSUME NEW p \in Proc, LogDelta(p)
         PROVE  \E K : work' \in [Proc -> Pass(K)]
    <2>1. work' = [work EXCEPT ![p] = [work[p] EXCEPT !.at = "logged"]]
      BY <1>1, <1>14 DEF LogDelta
    <2>2. QED
      BY <1>5, <1>11, <2>1 DEF Stages
  <1>15. ASSUME NEW p \in Proc, NEW result \in {"ok", "failed"}, Record(p, result)
         PROVE  \E K : work' \in [Proc -> Pass(K)]
    <2>1. \/ work' = [work EXCEPT ![p] = [work[p] EXCEPT !.at = result]]
          \/ work' = [work EXCEPT ![p] = Gone]
      BY <1>1, <1>15 DEF Record
    <2>2. QED
      BY <1>4, <1>5, <1>11, <2>1 DEF Stages
  <1>16. ASSUME NEW p \in Proc, PassEnds(p) \/ PassFails(p)
         PROVE  \E K : work' \in [Proc -> Pass(K)]
    BY <1>15, <1>16 DEF PassEnds, PassFails
  <1>17. ASSUME NEW p \in Evicts \cup Syncs, DirectEvict(p) \/ DirectSync(p)
         PROVE  \E K : work' \in [Proc -> Pass(K)]
    <2>1. [Idle EXCEPT !.at = "planning"] \in Pass(L \cup {0})
      BY DEF Idle, Pass, Stages
    <2>2. QED
      BY <1>5, <1>17, <2>1 DEF DirectEvict, DirectSync, Proc
  <1>18. QED
    BY <1>6, <1>7, <1>9, <1>10, <1>12, <1>13, <1>14, <1>16, <1>17, WorkFrame
       DEF WorkerStep, PassStep

LEMMA TypeQueues ==
    ASSUME Types, [Next]_vars
    PROVE  /\ queue' \in [Daemons -> BOOLEAN]
           /\ jobs' \in [Daemons -> Seq(Clients)]
           /\ \A d \in Daemons : Len(jobs'[d]) <= ResidencyCap
  <1> DEFINE Good == /\ queue' \in [Daemons -> BOOLEAN]
                     /\ jobs' \in [Daemons -> Seq(Clients)]
                     /\ \A d \in Daemons : Len(jobs'[d]) <= ResidencyCap
  <1>1. /\ queue \in [Daemons -> BOOLEAN] /\ jobs \in [Daemons -> Seq(Clients)]
        /\ \A d \in Daemons : Len(jobs[d]) <= ResidencyCap
    BY DEF Types, Typed, TypeOK
  <1>2. CASE UNCHANGED <<queue, jobs>>
    BY <1>1, <1>2
  <1>3. ASSUME NEW d \in Daemons, NEW s \in Seq(Clients), Len(s) <= ResidencyCap,
               jobs' = [jobs EXCEPT ![d] = s] \/ UNCHANGED jobs,
               NEW b \in BOOLEAN, queue' = [queue EXCEPT ![d] = b] \/ UNCHANGED queue
        PROVE  Good
    BY <1>1, <1>3
  <1>4. <<>> \in Seq(Clients) /\ Len(<<>>) <= ResidencyCap
    OBVIOUS
  <1>5. ASSUME NEW d \in Daemons, Down(d) \/ Crash(d)
        PROVE  Good
    BY <1>3, <1>4, <1>5 DEF Down, Crash, Forget
  <1>6. ASSUME NEW d \in Daemons, FsEvent(d) \/ Poll(d)
        PROVE  Good
    BY <1>3, <1>4, <1>6 DEF FsEvent, Poll
  <1>7. ASSUME NEW d \in Daemons, TakeResidency(d)
        PROVE  Good
    <2>1. Tail(jobs[d]) \in Seq(Clients) /\ Len(Tail(jobs[d])) <= ResidencyCap
      BY <1>1, <1>7 DEF TakeResidency
    <2>2. QED
      BY <1>1, <1>3, <1>7, <2>1 DEF TakeResidency
  <1>8. ASSUME NEW d \in Daemons, TakeSync(d) \/ WorkerStops(d)
        PROVE  Good
    BY <1>3, <1>4, <1>8 DEF TakeSync, WorkerStops
  <1>9. ASSUME NEW c \in Clients, Handle(c)
        PROVE  Good
    <2>1. PICK d : HandleSync(c, d) \/ HandleBackup(c, d) \/ HandleEvict(c, d) \/ HandleOther(c)
      BY <1>9 DEF Handle
    <2>2. CASE HandleSync(c, d)
      BY <1>1, <2>2 DEF HandleSync
    <2>3. CASE HandleBackup(c, d) \/ HandleOther(c)
      BY <1>1, <2>3 DEF HandleBackup, HandleOther, channels
    <2>4. CASE HandleEvict(c, d)
      <3>1. CASE UNCHANGED jobs
        BY <1>1, <2>4, <3>1 DEF HandleEvict
      <3>2. CASE d \in Daemons /\ Len(jobs[d]) < ResidencyCap
                 /\ jobs' = [jobs EXCEPT ![d] = Append(@, c)]
        <4>1. Append(jobs[d], c) \in Seq(Clients) /\ Len(Append(jobs[d], c)) <= ResidencyCap
          BY <1>1, <3>2
        <4>2. QED
          BY <1>1, <2>4, <3>2, <4>1 DEF HandleEvict
      <3>3. CASE d \notin Daemons /\ jobs' = [jobs EXCEPT ![d] = Append(@, c)]
        BY <1>1, <2>4, <3>3 DEF HandleEvict
      <3>4. QED
        BY <2>4, <3>1, <3>2, <3>3 DEF HandleEvict
    <2>5. QED
      BY <2>1, <2>2, <2>3, <2>4
  <1>10. QED
    BY <1>2, <1>5, <1>6, <1>7, <1>8, <1>9, QueueFrame

LEMMA TypeBackup ==
    ASSUME Types, [Next]_vars
    PROVE  backup' \in [Daemons -> BackupStages]
           /\ bqueue' \in [Daemons -> {"none", "scheduled", "manual"}]
  <1> DEFINE Good == backup' \in [Daemons -> BackupStages]
                     /\ bqueue' \in [Daemons -> {"none", "scheduled", "manual"}]
  <1>1. /\ backup \in [Daemons -> BackupStages]
        /\ bqueue \in [Daemons -> {"none", "scheduled", "manual"}]
    BY DEF Types, Typed, TypeOK
  <1>2. CASE UNCHANGED <<backup, bqueue>>
    BY <1>1, <1>2
  <1>3. ASSUME NEW d \in Daemons, Serve(d) \/ Abort(d) \/ Down(d) \/ Crash(d) \/ BackupTick(d)
        PROVE  Good
    BY <1>1, <1>3 DEF Serve, Abort, Down, Crash, Forget, BackupTick, BackupStages, channels
  <1>4. ASSUME NEW d \in Daemons,
               TakeBackup(d) \/ BackupStops(d) \/ StartBackup(d) \/ AnnounceBackup(d)
        PROVE  Good
    BY <1>1, <1>4 DEF TakeBackup, BackupStops, StartBackup, AnnounceBackup, BackupStages, channels
  <1>5. ASSUME NEW d \in Daemons, EndBackup(d) \/ ReportBackup(d) \/ SkipBackup(d)
        PROVE  Good
    BY <1>1, <1>5 DEF EndBackup, ReportBackup, SkipBackup, BackupStages, channels
  <1>6. ASSUME NEW c \in Clients, Handle(c)
        PROVE  Good
    BY <1>1, <1>6 DEF Handle, HandleSync, HandleBackup, HandleEvict, HandleOther, channels
  <1>7. QED
    BY <1>2, <1>3, <1>4, <1>5, <1>6, BackupFrame DEF BackupStep

LEMMA TypeStatus ==
    ASSUME Types, [Next]_vars
    PROVE  status' \in [Daemons -> Shown]
  <1>1. status \in [Daemons -> Shown]
    BY DEF Types, TypeOK, Shown
  <1>2. CASE UNCHANGED status
    BY <1>1, <1>2
  <1>3. Fresh \in Shown
    BY DEF Fresh, Shown
  <1>4. ASSUME NEW s \in Shown, NEW b \in BOOLEAN, NEW last \in {"ok", "failed"}
        PROVE  /\ [s EXCEPT !.syncing = b] \in Shown /\ [s EXCEPT !.backing_up = b] \in Shown
               /\ [s EXCEPT !.syncing = b, !.last = last] \in Shown
    BY DEF Shown
  <1>5. ASSUME NEW d \in Daemons, NEW s \in Shown, status' = [status EXCEPT ![d] = s]
        PROVE  status' \in [Daemons -> Shown]
    BY <1>1, <1>5
  <1>6. ASSUME NEW d \in Daemons, Down(d) \/ Crash(d)
        PROVE  status' \in [Daemons -> Shown]
    BY <1>3, <1>5, <1>6 DEF Down, Crash, Forget
  <1>7. ASSUME NEW d \in Daemons, TakeResidency(d) \/ TakeSync(d)
        PROVE  status' \in [Daemons -> Shown]
    <2>1. status' = [status EXCEPT ![d] = [status[d] EXCEPT !.syncing = TRUE]]
      BY <1>1, <1>7 DEF TakeResidency, TakeSync, Take
    <2>2. QED
      BY <1>1, <1>4, <1>5, <2>1
  <1>8. ASSUME NEW d \in Daemons, StartBackup(d) \/ EndBackup(d)
        PROVE  status' \in [Daemons -> Shown]
    <2>1. \E b \in BOOLEAN : status' = [status EXCEPT ![d] = [status[d] EXCEPT !.backing_up = b]]
      BY <1>1, <1>8 DEF StartBackup, EndBackup
    <2>2. QED
      BY <1>1, <1>4, <1>5, <2>1
  <1>9. ASSUME NEW p \in Proc, NEW result \in {"ok", "failed"}, Record(p, result)
        PROVE  status' \in [Daemons -> Shown]
    <2>1. CASE p \in Daemons
      <3>1. status' = [status EXCEPT ![p] = [status[p] EXCEPT !.syncing = FALSE, !.last = result]]
        BY <1>1, <1>9, <2>1 DEF Record
      <3>2. QED
        BY <1>1, <1>4, <1>5, <2>1, <3>1
    <2>2. CASE p \notin Daemons
      BY <1>2, <1>9, <2>2 DEF Record
    <2>3. QED
      BY <2>1, <2>2
  <1>10. ASSUME NEW p \in Proc, PassEnds(p) \/ PassFails(p)
         PROVE  status' \in [Daemons -> Shown]
    BY <1>9, <1>10 DEF PassEnds, PassFails
  <1>11. QED
    BY <1>2, <1>6, <1>7, <1>8, <1>10, StatusFrame

(* What a pass has seen was changed before, what is covered was seen. *)
LEMMA TypeFolder ==
    ASSUME Types, [Next]_vars
    PROVE  /\ changes' \in Nat /\ synced' \in 0..changes' /\ changes <= changes'
           /\ notice' \in {"none", "pending", "missed"}
  <1> DEFINE Good == /\ changes' \in Nat /\ synced' \in 0..changes' /\ changes <= changes'
                     /\ notice' \in {"none", "pending", "missed"}
  <1>1. /\ changes \in Nat /\ synced \in 0..changes
        /\ notice \in {"none", "pending", "missed"}
    BY DEF Types, Typed, TypeOK
  <1>2. CASE UNCHANGED <<changes, synced, notice>>
    BY <1>1, <1>2
  <1>3. CASE Change
    BY <1>1, <1>3 DEF Change
  <1>4. ASSUME NEW d \in Daemons, Crash(d) \/ Signal(d) \/ Stop(d)
        PROVE  Good
    BY <1>1, <1>4 DEF Crash, Signal, Stop, BreakLoop
  <1>5. ASSUME NEW d \in Daemons, FsEvent(d) \/ WatcherError(d) \/ Poll(d)
        PROVE  Good
    BY <1>1, <1>5 DEF FsEvent, WatcherError, Poll
  <1>6. ASSUME NEW p \in Proc, PassEnds(p)
        PROVE  Good
    <2>1. synced' = Max({synced, work[p].saw}) /\ changes' = changes /\ notice' = notice
      BY <1>6 DEF PassEnds
    <2>2. work[p].saw \in Nat /\ work[p].saw <= changes
      BY DEF Types, Typed, Pass
    <2>3. QED
      BY <1>1, <2>1, <2>2, MaxOfTwo
  <1>7. QED
    BY <1>2, <1>3, <1>4, <1>5, <1>6, FolderFrame

LEMMA TypeSaw ==
    ASSUME Types, [Next]_vars
    PROVE  \A p \in Proc : work'[p].saw <= changes'
  <1>1. PICK L : work \in [Proc -> Pass(L)]
    BY DEF Types, Typed
  <1>2. /\ changes \in Nat /\ changes' \in Nat /\ changes <= changes'
        /\ \A d \in Daemons : d \in Proc
        /\ \A p \in Proc : work[p].saw \in Nat /\ work[p].saw <= changes
    BY <1>1, TypeFolder DEF Types, Typed, Proc, Pass
  <1>3. Idle.saw = 0 /\ Gone.saw = 0
    BY DEF Idle, Gone
  <1>4. ASSUME NEW p \in Proc, NEW r, work' = [work EXCEPT ![p] = r],
               r.saw \in {0, work[p].saw, changes}
        PROVE  \A q \in Proc : work'[q].saw <= changes'
    <2>1. ASSUME NEW q \in Proc
          PROVE  work'[q].saw \in {0, work[q].saw, changes}
      BY <1>1, <1>4
    <2>2. QED
      BY <1>2, <2>1
  <1>5. CASE UNCHANGED work
    BY <1>2, <1>5
  <1>6. ASSUME NEW d \in Daemons, Serve(d) \/ Abort(d) \/ Down(d) \/ Crash(d)
        PROVE  \A q \in Proc : work'[q].saw <= changes'
    <2>1. \/ work' = [work EXCEPT ![d] = Idle] \/ work' = [work EXCEPT ![d] = Gone]
          \/ UNCHANGED work
      BY <1>6 DEF Serve, Abort, Down, Crash, Forget
    <2>2. QED
      BY <1>2, <1>3, <1>4, <1>5, <2>1
  <1>7. ASSUME NEW d \in Daemons, WorkerStep(d)
        PROVE  \A q \in Proc : work'[q].saw <= changes'
    <2>1. \E r : work' = [work EXCEPT ![d] = r] /\ r.saw \in {0, work[d].saw}
      <3>1. ASSUME NEW n PROVE [Idle EXCEPT !.at = "started", !.for = n].saw = 0
        BY DEF Idle
      <3>2. [work[d] EXCEPT !.at = "planning"].saw = work[d].saw
        BY <1>1, <1>2 DEF Pass
      <3>3. CASE TakeResidency(d) \/ TakeSync(d)
        BY <3>1, <3>3 DEF TakeResidency, TakeSync, Take
      <3>4. CASE WorkerStops(d) \/ Report(d)
        BY <1>3, <3>4 DEF WorkerStops, Report
      <3>5. CASE Announce(d)
        BY <1>1, <1>2, <3>2, <3>5 DEF Announce
      <3>6. QED
        BY <1>7, <3>3, <3>4, <3>5 DEF WorkerStep
    <2>2. QED
      BY <1>2, <1>4, <2>1
  <1>8. ASSUME NEW p \in Proc, PassStep(p) \/ PassFails(p)
        PROVE  \A q \in Proc : work'[q].saw <= changes'
    <2>1. \E r : work' = [work EXCEPT ![p] = r] /\ r.saw \in {0, work[p].saw, changes}
      <3>1. ASSUME NEW x PROVE [work[p] EXCEPT !.at = x].saw = work[p].saw
        BY <1>1 DEF Pass
      <3>2. CASE Look(p)
        <4>1. PICK n : work' = [work EXCEPT ![p].at = "looked", ![p].saw = changes, ![p].lam = n]
          BY <3>2 DEF Look
        <4> DEFINE r == [work[p] EXCEPT !.at = "looked", !.saw = changes, !.lam = n]
        <4>2. r.saw = changes
          BY <1>1 DEF Pass
        <4>3. work' = [work EXCEPT ![p] = r]
          BY <1>1, <4>1
        <4> HIDE DEF r
        <4>4. QED
          BY <4>2, <4>3
      <3>3. CASE LogDelta(p)
        BY <1>1, <3>1, <3>3 DEF LogDelta
      <3>4. CASE PassEnds(p) \/ PassFails(p)
        BY <1>1, <1>3, <3>1, <3>4 DEF PassEnds, PassFails, Record
      <3>5. QED
        BY <1>8, <3>2, <3>3, <3>4 DEF PassStep
    <2>2. QED
      BY <1>4, <2>1
  <1>9. ASSUME NEW p \in Evicts \cup Syncs, DirectEvict(p) \/ DirectSync(p)
        PROVE  \A q \in Proc : work'[q].saw <= changes'
    <2>1. [Idle EXCEPT !.at = "planning"].saw = 0 /\ p \in Proc
      BY DEF Idle, Proc
    <2>2. QED
      BY <1>4, <1>9, <2>1 DEF DirectEvict, DirectSync
  <1>10. QED
    BY <1>5, <1>6, <1>7, <1>8, <1>9, WorkFrame

LEMMA TypeClient ==
    ASSUME Types, [Next]_vars
    PROVE  client' \in [Clients -> Connection]
  <1>1. /\ client \in [Clients -> Connection]
        /\ \A c \in Clients : client[c] \in Connection
    BY DEF Types, Typed
  <1>2. CASE UNCHANGED client
    BY <1>1, <1>2
  <1>3. ASSUME NEW x \in Connection, NEW at \in {"idle", "backlog", "open", "waiting", "done"},
               NEW reply \in Replies
        PROVE  /\ [x EXCEPT !.at = at] \in Connection /\ [x EXCEPT !.reply = reply] \in Connection
               /\ [x EXCEPT !.at = at, !.reply = reply] \in Connection
               /\ [x EXCEPT !.served = TRUE] \in Connection
    BY DEF Connection
  <1>4. /\ {"eof", "stopping", "ok", "failed", "not running", "unresponsive", "queued",
            "already queued", "stop", "status"} \subseteq Replies
        /\ {"backlog", "open", "waiting", "done"}
             \subseteq {"idle", "backlog", "open", "waiting", "done"}
    BY DEF Replies
  <1>5. ASSUME NEW c \in Clients, NEW text \in Replies
        PROVE  Told(c, text) \in Replies
    BY <1>1 DEF Told, Connection
  <1>6. ASSUME NEW d \in Daemons, HangUp(d)
        PROVE  client' \in [Clients -> Connection]
    <2>1. ASSUME NEW c \in Clients
          PROVE  [client[c] EXCEPT !.at = "done", !.reply = Told(c, "eof")] \in Connection
      BY <1>1, <1>3, <1>4, <1>5
    <2>2. QED
      BY <1>1, <1>6, <2>1 DEF HangUp
  <1>7. ASSUME NEW d \in Daemons, TakeResidency(d) \/ TakeSync(d)
        PROVE  client' \in [Clients -> Connection]
    <2>1. ASSUME NEW c \in Clients
          PROVE  [client[c] EXCEPT !.served = TRUE] \in Connection
      BY <1>1, <1>3, <1>4
    <2>2. Served(d)
      BY <1>7 DEF TakeResidency, TakeSync, Take
    <2>3. QED
      BY <1>1, <2>1, <2>2 DEF Served
  <1>8. ASSUME NEW d \in Daemons, WorkerStops(d) \/ Report(d)
        PROVE  client' \in [Clients -> Connection]
    <2>1. ASSUME NEW c \in Clients
          PROVE  /\ [client[c] EXCEPT !.at = "done", !.reply = "stopping"] \in Connection
                 /\ work[d].at \in {"ok", "failed"} =>
                       [client[c] EXCEPT !.at = "done", !.reply = work[d].at] \in Connection
      BY <1>1, <1>3, <1>4
    <2>2. CASE WorkerStops(d)
      BY <1>1, <2>1, <2>2 DEF WorkerStops
    <2>3. CASE Report(d)
      BY <1>1, <2>1, <2>3 DEF Report
    <2>4. QED
      BY <1>8, <2>2, <2>3
  <1>9. ASSUME NEW c \in Clients, Connect(c)
         PROVE  client' \in [Clients -> Connection]
    <2>1. PICK cmd \in Commands :
             client' = [client EXCEPT ![c] =
               IF sock \in Daemons /\ life[sock] \in {"bound", "serving", "stopping"}
               THEN [client[c] EXCEPT !.at = "backlog", !.cmd = cmd, !.to = sock]
               ELSE [client[c] EXCEPT !.at = "done", !.cmd = cmd, !.reply = "not running"]]
      BY <1>1, <1>9 DEF Connect
    <2>2. [client[c] EXCEPT !.at = "done", !.cmd = cmd, !.reply = "not running"] \in Connection
      BY <1>1, <1>4 DEF Connection
    <2>3. sock \in Daemons =>
            [client[c] EXCEPT !.at = "backlog", !.cmd = cmd, !.to = sock] \in Connection
      BY <1>1, <1>4 DEF Connection
    <2>4. QED
      BY <1>1, <2>1, <2>2, <2>3
  <1>10. ASSUME NEW c \in Clients, NEW at \in {"open", "waiting"},
                \/ client' = [client EXCEPT ![c].at = at]
                \/ client' = [client EXCEPT ![c].reply = "unresponsive"]
         PROVE  client' \in [Clients -> Connection]
    <2>1. /\ [client[c] EXCEPT !.at = at] \in Connection
          /\ [client[c] EXCEPT !.reply = "unresponsive"] \in Connection
      BY <1>1, <1>3, <1>4
    <2>2. QED
      BY <1>1, <1>10, <2>1
  <1>11. ASSUME NEW c \in Clients, NEW text \in Replies, Reply(c, text)
         PROVE  client' \in [Clients -> Connection]
    <2>1. [client[c] EXCEPT !.at = "done", !.reply = Told(c, text)] \in Connection
      BY <1>1, <1>3, <1>4, <1>5
    <2>2. QED
      BY <1>1, <1>11, <2>1 DEF Reply
  <1>12. ASSUME NEW c \in Clients, Handle(c)
         PROVE  client' \in [Clients -> Connection]
    <2>1. PICK d : HandleSync(c, d) \/ HandleBackup(c, d) \/ HandleEvict(c, d) \/ HandleOther(c)
      BY <1>12 DEF Handle
    <2>2. CASE HandleSync(c, d)
      BY <1>4, <1>11, <2>2 DEF HandleSync
    <2>3. CASE HandleBackup(c, d)
      BY <1>4, <1>11, <2>3 DEF HandleBackup
    <2>4. CASE HandleEvict(c, d)
      BY <1>4, <1>10, <1>11, <2>4 DEF HandleEvict
    <2>5. CASE HandleOther(c)
      BY <1>4, <1>11, <2>5 DEF HandleOther
    <2>6. QED
      BY <2>1, <2>2, <2>3, <2>4, <2>5
  <1>13. QED
    BY <1>2, <1>6, <1>7, <1>8, <1>9, <1>10, <1>12, ClientFrame
       DEF Down, Crash, Accept, Unresponsive

(* What the hub's ring holds after one more event, and the tray after reading one. *)
Sent(t, e) ==
    IF Len(t.rx) < RingCap THEN [t EXCEPT !.rx = Append(t.rx, e)]
    ELSE [t EXCEPT !.rx = Append(Tail(t.rx), e), !.skipped = t.skipped \cup {Head(t.rx).kind}]

Read(t) ==
    [t EXCEPT !.rx = Tail(t.rx), !.view = apply_event(t.view, Head(t.rx)),
              !.skipped = IF Head(t.rx).what = "started" THEN t.skipped
                          ELSE t.skipped \ {Head(t.rx).kind}]

LEMMA SentFields ==
    ASSUME NEW t \in Tray, NEW e \in Events, Len(t.rx) <= RingCap
    PROVE  /\ Sent(t, e) \in Tray /\ Len(Sent(t, e).rx) <= RingCap
           /\ Sent(t, e).conn = t.conn /\ Sent(t, e).to = t.to /\ Sent(t, e).view = t.view
           /\ \/ /\ Sent(t, e).rx = Append(t.rx, e) /\ Sent(t, e).skipped = t.skipped
              \/ /\ t.rx # <<>> /\ Sent(t, e).rx = Append(Tail(t.rx), e)
                 /\ Sent(t, e).skipped = t.skipped \cup {Head(t.rx).kind}
  <1>1. /\ t.rx \in Seq(Events) /\ t.skipped \subseteq Kinds /\ RingCap \in Nat /\ RingCap > 0
    BY DEF Tray
  <1>2. CASE Len(t.rx) < RingCap
    <2> DEFINE rx == Append(t.rx, e)
    <2>1. rx \in Seq(Events) /\ Len(rx) <= RingCap
      BY <1>1, <1>2
    <2>2. Sent(t, e) = [t EXCEPT !.rx = rx]
      BY <1>2 DEF Sent
    <2> HIDE DEF rx
    <2>3. /\ Sent(t, e) \in Tray /\ Sent(t, e).rx = rx /\ Sent(t, e).conn = t.conn
          /\ Sent(t, e).to = t.to /\ Sent(t, e).view = t.view /\ Sent(t, e).skipped = t.skipped
      BY <2>1, <2>2 DEF Tray
    <2>4. QED
      BY <2>1, <2>3 DEF rx
  <1>3. CASE ~(Len(t.rx) < RingCap)
    <2> DEFINE rx == Append(Tail(t.rx), e)
               sk == t.skipped \cup {Head(t.rx).kind}
    <2>1. t.rx # <<>> /\ Tail(t.rx) \in Seq(Events) /\ Head(t.rx) \in Events
          /\ Len(Tail(t.rx)) = Len(t.rx) - 1
      BY <1>1, <1>3
    <2>2. rx \in Seq(Events) /\ Len(rx) <= RingCap
      BY <1>1, <1>3, <2>1
    <2>3. sk \subseteq Kinds
      BY <1>1, <2>1 DEF Events
    <2>4. Sent(t, e) = [t EXCEPT !.rx = rx, !.skipped = sk]
      BY <1>3 DEF Sent
    <2> HIDE DEF rx, sk
    <2>5. /\ Sent(t, e) \in Tray /\ Sent(t, e).rx = rx /\ Sent(t, e).conn = t.conn
          /\ Sent(t, e).to = t.to /\ Sent(t, e).view = t.view /\ Sent(t, e).skipped = sk
      BY <2>2, <2>3, <2>4 DEF Tray
    <2>6. QED
      BY <2>1, <2>2, <2>5 DEF rx, sk
  <1>4. QED
    BY <1>2, <1>3

LEMMA AppliedEvent ==
    ASSUME NEW view \in Shown, NEW e \in Events
    PROVE  /\ apply_event(view, e) \in Shown
           /\ \A k \in Kinds : Busy(apply_event(view, e), k)
                 = IF e.kind = k THEN e.what = "started" ELSE Busy(view, k)
           /\ apply_event(view, e).last = IF IsEnd(e) THEN e.what ELSE view.last
  <1>1. /\ e.kind \in Kinds /\ e.what \in {"started", "ok", "failed"}
        /\ e = Event(e.kind, e.what)
    BY DEF Events, Event
  <1>2. /\ "started" # e.what => Event("sync", "started") # e /\ Event("backup", "started") # e
        /\ e.kind # "sync" => Event("sync", "started") # e
        /\ e.kind # "backup" => Event("backup", "started") # e
    BY DEF Event
  <1>3. CASE e = Event("sync", "started")
    <2>1. apply_event(view, e) = [view EXCEPT !.syncing = TRUE]
      BY <1>1, <1>2, <1>3 DEF apply_event, Event
    <2>2. e.kind = "sync" /\ e.what = "started"
      BY <1>3 DEF Event
    <2>3. QED
      BY <2>1, <2>2 DEF Shown, Busy, IsEnd, Kinds
  <1>4. CASE e = Event("backup", "started")
    <2>1. apply_event(view, e) = [view EXCEPT !.backing_up = TRUE]
      BY <1>1, <1>2, <1>4 DEF apply_event, Event
    <2>2. e.kind = "backup" /\ e.what = "started"
      BY <1>4 DEF Event
    <2>3. QED
      BY <2>1, <2>2 DEF Shown, Busy, IsEnd, Kinds
  <1>5. CASE e.kind = "sync" /\ e.what # "started"
    <2>1. apply_event(view, e) = [view EXCEPT !.syncing = FALSE, !.last = e.what]
      BY <1>1, <1>2, <1>5 DEF apply_event
    <2>2. QED
      BY <1>1, <1>5, <2>1 DEF Shown, Busy, IsEnd, Kinds
  <1>6. CASE e.kind = "backup" /\ e.what # "started"
    <2>1. apply_event(view, e) = [view EXCEPT !.backing_up = FALSE]
      BY <1>1, <1>2, <1>6 DEF apply_event
    <2>2. QED
      BY <1>1, <1>6, <2>1 DEF Shown, Busy, IsEnd, Kinds
  <1>7. QED
    BY <1>1, <1>3, <1>4, <1>5, <1>6 DEF Kinds

LEMMA ReadFields ==
    ASSUME NEW t \in Tray, t.rx # <<>>
    PROVE  /\ Read(t) \in Tray /\ Len(Read(t).rx) <= Len(t.rx) /\ Head(t.rx) \in Events
           /\ Read(t).conn = t.conn /\ Read(t).to = t.to /\ Read(t).rx = Tail(t.rx)
           /\ Read(t).view = apply_event(t.view, Head(t.rx))
           /\ Read(t).skipped = IF Head(t.rx).what = "started" THEN t.skipped
                                ELSE t.skipped \ {Head(t.rx).kind}
  <1>1. /\ t.rx \in Seq(Events) /\ t.skipped \subseteq Kinds /\ t.view \in Shown
    BY DEF Tray
  <1> DEFINE rx == Tail(t.rx)
             view == apply_event(t.view, Head(t.rx))
             sk == IF Head(t.rx).what = "started" THEN t.skipped
                   ELSE t.skipped \ {Head(t.rx).kind}
  <1>2. rx \in Seq(Events) /\ Head(t.rx) \in Events /\ Len(rx) <= Len(t.rx)
    BY <1>1
  <1>3. view \in Shown
    BY <1>1, <1>2, AppliedEvent
  <1>4. sk \subseteq Kinds
    BY <1>1
  <1>5. Read(t) = [t EXCEPT !.rx = rx, !.view = view, !.skipped = sk]
    BY DEF Read
  <1> HIDE DEF rx, view, sk
  <1>6. /\ Read(t) \in Tray /\ Read(t).conn = t.conn /\ Read(t).to = t.to /\ Read(t).rx = rx
        /\ Read(t).view = view /\ Read(t).skipped = sk
    BY <1>2, <1>3, <1>4, <1>5 DEF Tray
  <1>7. QED
    BY <1>2, <1>6 DEF rx, view, sk

(* What happens to the subscriber, by the step. *)
Lost(t) == [t EXCEPT !.conn = "lost", !.to = None, !.rx = <<>>, !.skipped = {},
                     !.view.syncing = FALSE, !.view.backing_up = FALSE]

LEMMA LostFields ==
    ASSUME NEW t \in Tray
    PROVE  /\ Lost(t) \in Tray /\ Lost(t).to = None /\ Lost(t).rx = <<>> /\ Lost(t).skipped = {}
  <1> DEFINE v == [t.view EXCEPT !.syncing = FALSE, !.backing_up = FALSE]
  <1>1. v \in Shown
    BY DEF Tray, Shown
  <1>2. Lost(t) = [t EXCEPT !.conn = "lost", !.to = None, !.rx = <<>>, !.skipped = {},
                            !.view = v]
    BY DEF Lost, Tray
  <1> HIDE DEF v
  <1>3. <<>> \in Seq(Events)
    OBVIOUS
  <1>4. QED
    BY <1>1, <1>2, <1>3 DEF Tray

LEMMA TrayStepForms ==
    ASSUME Types, [Next]_vars
    PROVE  \/ UNCHANGED tray
           \/ \E d \in Daemons :
                 /\ Down(d) \/ Crash(d)
                 /\ tray' = IF tray.to = d THEN Lost(tray) ELSE tray
           \/ \E d \in Daemons, e \in Events :
                 /\ \/ Announce(d) /\ e = Event("sync", "started")
                    \/ Report(d) /\ e = Event("sync", work[d].at)
                    \/ AnnounceBackup(d) /\ e = Event("backup", "started")
                    \/ ReportBackup(d) /\ e = Event("backup", backup[d])
                 /\ tray' = IF tray.to = d THEN Sent(tray, e) ELSE tray
           \/ \E d \in Daemons :
                 \/ Subscribe(d) /\ tray' = [tray EXCEPT !.conn = "subscribed", !.to = d]
                 \/ Hello(d) /\ tray' = [tray EXCEPT !.conn = "connected", !.view = status[d]]
                 \/ Receive(d) /\ tray' = Read(tray)
  <1>1. tray \in Tray
    BY DEF Types, Typed
  <1>2. ASSUME NEW d, NEW e, Publish(d, e)
        PROVE  tray' = IF tray.to = d THEN Sent(tray, e) ELSE tray
    BY <1>1, <1>2 DEF Publish, Sent, Tray
  <1>3. ASSUME NEW k \in Kinds, NEW what \in {"started", "ok", "failed"}
        PROVE  Event(k, what) \in Events
    BY DEF Event, Events
  <1>4. ASSUME NEW d \in Daemons, Down(d) \/ Crash(d)
        PROVE  tray' = IF tray.to = d THEN Lost(tray) ELSE tray
    BY <1>4 DEF Down, Crash, HangUp, Lost
  <1>5. ASSUME NEW d \in Daemons, Announce(d) \/ Report(d) \/ AnnounceBackup(d) \/ ReportBackup(d)
        PROVE  \E e \in Events :
                 /\ \/ Announce(d) /\ e = Event("sync", "started")
                    \/ Report(d) /\ e = Event("sync", work[d].at)
                    \/ AnnounceBackup(d) /\ e = Event("backup", "started")
                    \/ ReportBackup(d) /\ e = Event("backup", backup[d])
                 /\ tray' = IF tray.to = d THEN Sent(tray, e) ELSE tray
    <2>1. CASE Announce(d)
      <3>1. Publish(d, Event("sync", "started"))
        BY <2>1 DEF Announce
      <3>2. QED
        BY <1>2, <1>3, <2>1, <3>1 DEF Kinds
    <2>2. CASE Report(d)
      <3>1. Publish(d, Event("sync", work[d].at)) /\ work[d].at \in {"ok", "failed"}
        BY <2>2 DEF Report
      <3>2. QED
        BY <1>2, <1>3, <2>2, <3>1 DEF Kinds
    <2>3. CASE AnnounceBackup(d)
      <3>1. Publish(d, Event("backup", "started"))
        BY <2>3 DEF AnnounceBackup
      <3>2. QED
        BY <1>2, <1>3, <2>3, <3>1 DEF Kinds
    <2>4. CASE ReportBackup(d)
      <3>1. Publish(d, Event("backup", backup[d])) /\ backup[d] \in {"ok", "failed"}
        BY <2>4 DEF ReportBackup
      <3>2. QED
        BY <1>2, <1>3, <2>4, <3>1 DEF Kinds
    <2>5. QED
      BY <1>5, <2>1, <2>2, <2>3, <2>4
  <1>6. ASSUME NEW d \in Daemons, TrayStep(d)
        PROVE  \/ Subscribe(d) /\ tray' = [tray EXCEPT !.conn = "subscribed", !.to = d]
               \/ Hello(d) /\ tray' = [tray EXCEPT !.conn = "connected", !.view = status[d]]
               \/ Receive(d) /\ tray' = Read(tray)
    <2>1. CASE Receive(d)
      BY <1>1, <2>1 DEF Receive, Read, Tray
    <2>2. QED
      BY <1>6, <2>1 DEF TrayStep, Subscribe, Hello
  <1>7. QED
    BY <1>4, <1>5, <1>6, TrayFrame

LEMMA TypeTray ==
    ASSUME Types, [Next]_vars
    PROVE  tray' \in Tray /\ Len(tray'.rx) <= RingCap
  <1>1. tray \in Tray /\ Len(tray.rx) <= RingCap /\ status \in [Daemons -> Shown]
    BY DEF Types, Typed, TypeOK, Shown
  <1>2. Len(<<>>) <= RingCap
    BY DEF Tray
  <1>3. ASSUME NEW d \in Daemons
        PROVE  LET a == [tray EXCEPT !.conn = "subscribed", !.to = d]
                   b == [tray EXCEPT !.conn = "connected", !.view = status[d]]
               IN  a \in Tray /\ a.rx = tray.rx /\ b \in Tray /\ b.rx = tray.rx
    BY <1>1 DEF Tray
  <1>4. ASSUME tray.rx # <<>>
        PROVE  Read(tray) \in Tray /\ Len(Read(tray).rx) <= RingCap
    <2>1. Read(tray) \in Tray /\ Len(Read(tray).rx) <= Len(tray.rx)
      BY <1>1, <1>4, ReadFields
    <2>2. Len(tray.rx) \in Nat
      BY <1>1 DEF Tray
    <2>3. Len(Read(tray).rx) \in Nat
      BY <2>1 DEF Tray
    <2>4. QED
      BY <1>1, <2>1, <2>2, <2>3
  <1>5. CASE UNCHANGED tray
    BY <1>1, <1>5
  <1>6. ASSUME tray' = Lost(tray)
        PROVE  tray' \in Tray /\ Len(tray'.rx) <= RingCap
    BY <1>1, <1>2, <1>6, LostFields
  <1>7. ASSUME NEW e \in Events, tray' = Sent(tray, e)
        PROVE  tray' \in Tray /\ Len(tray'.rx) <= RingCap
    BY <1>1, <1>7, SentFields
  <1>8. ASSUME NEW d \in Daemons,
               \/ tray' = [tray EXCEPT !.conn = "subscribed", !.to = d]
               \/ tray' = [tray EXCEPT !.conn = "connected", !.view = status[d]]
               \/ Receive(d) /\ tray' = Read(tray)
        PROVE  tray' \in Tray /\ Len(tray'.rx) <= RingCap
    BY <1>1, <1>3, <1>4, <1>8 DEF Receive
  <1>9. QED
    BY <1>5, <1>6, <1>7, <1>8, TrayStepForms

-----------------------------------------------------------------------------
(* What a step does to the process that takes it. *)

Alone(p) ==
    \A q \in Proc \ {p} :
        /\ life'[q] = life[q] /\ work'[q] = work[q]
        /\ q \in Daemons => backup'[q] = backup[q] /\ status'[q] = status[q]

Kept(p) ==
    work'[p] = work[p] /\ (p \in Daemons => backup'[p] = backup[p] /\ status'[p] = status[p])

Lives(d) == \* its life goes on, its tasks do not move
    /\ Kept(d)
    /\ \/ Launch(d) /\ life'[d] = "locked"
       \/ Bind(d) /\ life'[d] = "bound"
       \/ BreakLoop(d) /\ life'[d] = "stopping"
       \/ (StartFails(d) \/ Exit(d)) /\ life'[d] = "exiting"
       \/ Unlock(d) /\ life'[d] = "lingering"

Turns(d) == \* its tasks begin or end
    \/ /\ Serve(d) /\ life'[d] = "serving" /\ work'[d].at = "idle" /\ backup'[d] = "idle"
       /\ status'[d] = status[d]
    \/ /\ Abort(d) /\ life'[d] = "exiting" /\ status'[d] = status[d]
       /\ \/ work'[d] = work[d] /\ backup'[d] = backup[d] /\ MayLinger
          \/ work'[d].at = "gone" /\ backup'[d] = "gone"
    \/ /\ Down(d) \/ Crash(d)
       /\ life'[d] = "dead" /\ work'[d].at = "gone" /\ backup'[d] = "gone"
       /\ status'[d] = Fresh

Works(d) == \* its worker moves, between two passes or around one
    /\ life'[d] = life[d] /\ backup'[d] = backup[d]
    /\ status'[d].last = status[d].last /\ status'[d].backing_up = status[d].backing_up
    /\ \/ /\ TakeResidency(d) \/ TakeSync(d)
          /\ work'[d].at = "started" /\ status'[d].syncing
       \/ /\ status'[d].syncing = status[d].syncing
          /\ \/ WorkerStops(d) /\ work'[d].at = "gone"
             \/ Announce(d) /\ work'[d].at = "planning"
             \/ Report(d) /\ work'[d].at = "idle"

Scans(p) == \* a pass goes on
    /\ life'[p] = life[p]
    /\ p \in Daemons => backup'[p] = backup[p] /\ status'[p] = status[p]
    /\ \/ Look(p) /\ work'[p].at = "looked" /\ work'[p].saw = changes
       \/ LogDelta(p) /\ work'[p].at = "logged" /\ work'[p].saw = work[p].saw

Finishes(p) == \* a pass ends
    \E result \in {"ok", "failed"} :
        /\ (result = "ok" /\ PassEnds(p)) \/ (result = "failed" /\ PassFails(p))
        /\ \/ /\ p \in Daemons /\ life'[p] = life[p] /\ work'[p].at = result
              /\ backup'[p] = backup[p] /\ ~status'[p].syncing /\ status'[p].last = result
              /\ status'[p].backing_up = status[p].backing_up
           \/ p \notin Daemons /\ life'[p] = "dead" /\ work'[p].at = "gone"

Direct(p) == \* a pass of its own begins
    /\ life'[p] = "direct" /\ work'[p].at = "planning"
    /\ (p \in Evicts /\ DirectEvict(p)) \/ (p \in Syncs /\ DirectSync(p))

Backs(d) == \* its backup worker moves
    /\ life'[d] = life[d] /\ work'[d] = work[d]
    /\ status'[d].last = status[d].last /\ status'[d].syncing = status[d].syncing
    /\ \/ /\ StartBackup(d) /\ backup'[d] = "started" /\ status'[d].backing_up
       \/ /\ EndBackup(d) /\ backup'[d] \in {"ok", "failed"} /\ ~status'[d].backing_up
       \/ /\ status'[d].backing_up = status[d].backing_up
          /\ \/ TakeBackup(d) /\ backup'[d] \in {"scheduled", "manual"}
             \/ BackupStops(d) /\ backup'[d] = "gone"
             \/ AnnounceBackup(d) /\ backup'[d] = "running"
             \/ (ReportBackup(d) \/ SkipBackup(d)) /\ backup'[d] = "idle"

LEMMA Moves ==
    ASSUME Types, [Next]_vars
    PROVE  \/ UNCHANGED <<procs, work, backup, status>>
           \/ \E d \in Daemons : Alone(d) /\ (Lives(d) \/ Turns(d) \/ Works(d) \/ Backs(d))
           \/ \E p \in Proc : Alone(p) /\ (Scans(p) \/ Finishes(p) \/ Direct(p))
  <1>1. PICK L : work \in [Proc -> Pass(L)]
    BY DEF Types, Typed
  <1>2. /\ DOMAIN work = Proc /\ \A d \in Daemons : d \in Proc
        /\ \A p \in Evicts \cup Syncs : p \in Proc /\ p \notin Daemons
        /\ life \in [Proc -> Places] /\ backup \in [Daemons -> BackupStages]
        /\ status \in [Daemons -> Shown]
    BY <1>1 DEF Proc, Types, TypeOK, Typed, Places, Shown
  <1>3. Idle.at = "idle" /\ Gone.at = "gone" /\ [Idle EXCEPT !.at = "planning"].at = "planning"
        /\ \A n : [Idle EXCEPT !.at = "started", !.for = n].at = "started"
    BY DEF Idle, Gone
  <1>4. ASSUME NEW p \in Proc, NEW at
        PROVE  [work[p] EXCEPT !.at = at].at = at /\ [work[p] EXCEPT !.at = at].saw = work[p].saw
    BY <1>1 DEF Pass
  <1>5. ASSUME NEW d \in Daemons, NEW b \in BOOLEAN, NEW last
        PROVE  LET s == status[d]
                   x == [s EXCEPT !.syncing = b]
                   y == [s EXCEPT !.backing_up = b]
                   z == [s EXCEPT !.syncing = b, !.last = last]
               IN  /\ x.syncing = b /\ x.last = s.last /\ x.backing_up = s.backing_up
                   /\ y.backing_up = b /\ y.last = s.last /\ y.syncing = s.syncing
                   /\ z.syncing = b /\ z.last = last /\ z.backing_up = s.backing_up
    BY <1>2 DEF Shown
  <1>6. ASSUME NEW d \in Daemons,
               Launch(d) \/ Bind(d) \/ BreakLoop(d) \/ StartFails(d) \/ Exit(d) \/ Unlock(d)
        PROVE  Alone(d) /\ Lives(d)
    BY <1>2, <1>6 DEF Alone, Lives, Kept, Launch, Bind, BreakLoop, StartFails, Exit, Unlock
  <1>7. ASSUME NEW d \in Daemons, Serve(d) \/ Abort(d)
        PROVE  Alone(d) /\ Turns(d)
    BY <1>2, <1>3, <1>7 DEF Alone, Turns, Serve, Abort
  <1>8. ASSUME NEW d \in Daemons, Down(d) \/ Crash(d)
        PROVE  Alone(d) /\ Turns(d)
    BY <1>2, <1>3, <1>8 DEF Alone, Turns, Down, Crash, Forget
  <1>9. ASSUME NEW d \in Daemons, TakeResidency(d) \/ TakeSync(d)
        PROVE  Alone(d) /\ Works(d)
    <2>1. \E n : work' = [work EXCEPT ![d] = [Idle EXCEPT !.at = "started", !.for = n]]
      BY <1>9 DEF TakeResidency, TakeSync, Take
    <2>2. status' = [status EXCEPT ![d] = [status[d] EXCEPT !.syncing = TRUE]]
      BY <1>2, <1>9 DEF TakeResidency, TakeSync, Take
    <2>3. life' = life /\ backup' = backup
      BY <1>9 DEF TakeResidency, TakeSync, Take, procs
    <2>4. Alone(d)
      BY <1>2, <2>1, <2>2, <2>3 DEF Alone
    <2>5. work'[d].at = "started"
      BY <1>2, <1>3, <2>1
    <2>6. /\ status'[d].syncing /\ status'[d].last = status[d].last
          /\ status'[d].backing_up = status[d].backing_up
      BY <1>2, <1>5, <2>2
    <2>7. QED
      BY <1>9, <2>3, <2>4, <2>5, <2>6 DEF Works
  <1>10. ASSUME NEW d \in Daemons, WorkerStops(d) \/ Announce(d) \/ Report(d)
         PROVE  Alone(d) /\ Works(d)
    <2>1. life' = life /\ backup' = backup /\ status' = status
      BY <1>10 DEF WorkerStops, Announce, Report, procs
    <2>2. CASE Announce(d)
      <3>1. work' = [work EXCEPT ![d] = [work[d] EXCEPT !.at = "planning"]]
        BY <1>1, <1>2, <2>2 DEF Announce
      <3>2. QED
        BY <1>2, <1>4, <2>1, <2>2, <3>1 DEF Alone, Works
    <2>3. CASE WorkerStops(d) \/ Report(d)
      <3>1. \/ WorkerStops(d) /\ work' = [work EXCEPT ![d] = Gone]
            \/ Report(d) /\ work' = [work EXCEPT ![d] = Idle]
        BY <2>3 DEF WorkerStops, Report
      <3>2. QED
        BY <1>2, <1>3, <2>1, <3>1 DEF Alone, Works
    <2>4. QED
      BY <1>10, <2>2, <2>3
  <1>11. ASSUME NEW p \in Proc, Look(p) \/ LogDelta(p)
         PROVE  Alone(p) /\ Scans(p)
    <2>1. life' = life /\ backup' = backup /\ status' = status
      BY <1>11 DEF Look, LogDelta, procs
    <2>2. CASE Look(p)
      <3>1. PICK n : work' = [work EXCEPT ![p].at = "looked", ![p].saw = changes, ![p].lam = n]
        BY <2>2 DEF Look
      <3> DEFINE r == [work[p] EXCEPT !.at = "looked", !.saw = changes, !.lam = n]
      <3>2. r.at = "looked" /\ r.saw = changes
        BY <1>1 DEF Pass
      <3>3. work' = [work EXCEPT ![p] = r]
        BY <1>1, <3>1
      <3> HIDE DEF r
      <3>4. QED
        BY <1>2, <2>1, <2>2, <3>2, <3>3 DEF Alone, Scans
    <2>3. CASE LogDelta(p)
      <3>1. work' = [work EXCEPT ![p] = [work[p] EXCEPT !.at = "logged"]]
        BY <1>1, <2>3 DEF LogDelta
      <3>2. QED
        BY <1>2, <1>4, <2>1, <2>3, <3>1 DEF Alone, Scans
    <2>4. QED
      BY <1>11, <2>2, <2>3
  <1>12. ASSUME NEW p \in Proc, NEW result \in {"ok", "failed"}, Record(p, result), backup' = backup,
                (result = "ok" /\ PassEnds(p)) \/ (result = "failed" /\ PassFails(p))
         PROVE  Alone(p) /\ Finishes(p)
    <2>1. CASE p \in Daemons
      <3>1. /\ work' = [work EXCEPT ![p] = [work[p] EXCEPT !.at = result]] /\ life' = life
            /\ status' = [status EXCEPT ![p] = [status[p] EXCEPT !.syncing = FALSE, !.last = result]]
        BY <1>1, <1>2, <1>12, <2>1 DEF Record
      <3>2. QED
        BY <1>2, <1>4, <1>5, <1>12, <2>1, <3>1 DEF Alone, Finishes
    <2>2. CASE p \notin Daemons
      BY <1>2, <1>3, <1>12, <2>2 DEF Record, Alone, Finishes
    <2>3. QED
      BY <2>1, <2>2
  <1>13. ASSUME NEW p \in Proc, PassEnds(p) \/ PassFails(p)
         PROVE  Alone(p) /\ Finishes(p)
    <2>1. CASE PassEnds(p)
      <3>1. Record(p, "ok") /\ backup' = backup
        BY <2>1 DEF PassEnds
      <3>2. QED
        BY <1>12, <2>1, <3>1
    <2>2. CASE PassFails(p)
      <3>1. Record(p, "failed") /\ backup' = backup
        BY <2>2 DEF PassFails
      <3>2. QED
        BY <1>12, <2>2, <3>1
    <2>3. QED
      BY <1>13, <2>1, <2>2
  <1>14. ASSUME NEW p \in Evicts \cup Syncs,
                (p \in Evicts /\ DirectEvict(p)) \/ (p \in Syncs /\ DirectSync(p))
         PROVE  p \in Proc /\ Alone(p) /\ Direct(p)
    BY <1>2, <1>3, <1>14 DEF DirectEvict, DirectSync, Alone, Direct
  <1>15. ASSUME NEW d \in Daemons, BackupStep(d)
         PROVE  Alone(d) /\ Backs(d)
    <2>1. life' = life /\ work' = work
      BY <1>15 DEF BackupStep, TakeBackup, BackupStops, StartBackup, AnnounceBackup, EndBackup,
                   ReportBackup, SkipBackup, procs
    <2>2. CASE StartBackup(d)
      <3>1. status' = [status EXCEPT ![d] = [status[d] EXCEPT !.backing_up = TRUE]]
        BY <1>2, <2>2 DEF StartBackup
      <3>2. QED
        BY <1>2, <1>5, <2>1, <2>2, <3>1 DEF StartBackup, Alone, Backs
    <2>3. CASE EndBackup(d)
      <3>1. /\ status' = [status EXCEPT ![d] = [status[d] EXCEPT !.backing_up = FALSE]]
            /\ \E result \in {"ok", "failed"} : backup' = [backup EXCEPT ![d] = result]
        BY <1>2, <2>3 DEF EndBackup
      <3>2. QED
        BY <1>2, <1>5, <2>1, <2>3, <3>1 DEF Alone, Backs
    <2>4. CASE TakeBackup(d) \/ BackupStops(d) \/ AnnounceBackup(d) \/ ReportBackup(d) \/ SkipBackup(d)
      <3>1. bqueue[d] \in {"none", "scheduled", "manual"}
        BY DEF Types, TypeOK
      <3>2. /\ status' = status
            /\ \/ TakeBackup(d) /\ bqueue[d] # "none" /\ backup' = [backup EXCEPT ![d] = bqueue[d]]
               \/ BackupStops(d) /\ backup' = [backup EXCEPT ![d] = "gone"]
               \/ AnnounceBackup(d) /\ backup' = [backup EXCEPT ![d] = "running"]
               \/ (ReportBackup(d) \/ SkipBackup(d)) /\ backup' = [backup EXCEPT ![d] = "idle"]
        BY <2>4 DEF TakeBackup, BackupStops, AnnounceBackup, ReportBackup, SkipBackup
      <3>3. QED
        BY <1>2, <2>1, <3>1, <3>2 DEF Alone, Backs
    <2>5. QED
      BY <1>15, <2>2, <2>3, <2>4 DEF BackupStep
  <1>16. CASE UNCHANGED vars \/ Change
    BY <1>16 DEF vars, Change
  <1>17. ASSUME NEW d \in Daemons,
                FsEvent(d) \/ WatcherError(d) \/ Poll(d) \/ BackupTick(d) \/ TrayStep(d)
         PROVE  UNCHANGED <<procs, work, backup, status>>
    BY <1>17 DEF FsEvent, WatcherError, Poll, BackupTick, TrayStep, Subscribe, Hello, Receive
  <1>18. ASSUME NEW c \in Clients, Connect(c) \/ Accept(c) \/ Unresponsive(c) \/ Handle(c)
         PROVE  UNCHANGED <<procs, work, backup, status>>
    BY <1>18 DEF Connect, Accept, Unresponsive, Handle
  <1>19. ASSUME NEW d \in Daemons, Signal(d) \/ Stop(d)
         PROVE  BreakLoop(d)
    BY <1>19 DEF Signal, Stop
  <1>20. ASSUME NEW d \in Daemons, ProcessStep(d) \/ WorkerStep(d) \/ BackupStep(d)
                                   \/ Launch(d) \/ StartFails(d) \/ Abort(d) \/ Crash(d)
         PROVE  Alone(d) /\ (Lives(d) \/ Turns(d) \/ Works(d) \/ Backs(d))
    BY <1>6, <1>7, <1>8, <1>9, <1>10, <1>15, <1>19, <1>20 DEF ProcessStep, WorkerStep
  <1>21. ASSUME NEW p \in Proc, PassStep(p) \/ PassFails(p)
         PROVE  Alone(p) /\ (Scans(p) \/ Finishes(p) \/ Direct(p))
    BY <1>11, <1>13, <1>21 DEF PassStep
  <1>22. ASSUME (\E p \in Evicts : DirectEvict(p)) \/ (\E p \in Syncs : DirectSync(p))
         PROVE  \E p \in Proc : Alone(p) /\ Direct(p)
    BY <1>14, <1>22
  <1>23. ASSUME NEW d \in Daemons, Signal(d)
         PROVE  Alone(d) /\ Lives(d)
    BY <1>6, <1>19, <1>23
  <1>24. QED
    BY <1>16, <1>17, <1>18, <1>20, <1>21, <1>22, <1>23 DEF Next

(* A pass is under way only while the status says so. *)
LEMMA TypeInPass ==
    ASSUME Types, [Next]_vars
    PROVE  \A d \in Daemons : InPass(d)' => status'[d].syncing
  <1>1. \A d \in Daemons : d \in Proc /\ (InPass(d) => status[d].syncing)
    BY DEF Types, TypeOK, Proc
  <1>2. CASE UNCHANGED <<procs, work, backup, status>>
    BY <1>1, <1>2 DEF InPass
  <1>3. ASSUME NEW p \in Proc, Alone(p), NEW d \in Daemons, d # p, InPass(d)'
        PROVE  status'[d].syncing
    BY <1>1, <1>3 DEF Alone, InPass
  <1>4. ASSUME NEW d \in Daemons, Lives(d) \/ Turns(d) \/ Works(d) \/ Backs(d), InPass(d)'
        PROVE  status'[d].syncing
    <2>1. CASE Lives(d)
      BY <1>1, <1>4, <2>1 DEF Lives, Kept, InPass
    <2>2. CASE Turns(d)
      BY <1>1, <1>4, <2>2 DEF Turns, InPass
    <2>3. CASE Works(d)
      <3>1. Announce(d) => InPass(d)
        BY DEF Announce, InPass
      <3>2. QED
        BY <1>1, <1>4, <2>3, <3>1 DEF Works, InPass
    <2>4. CASE Backs(d)
      BY <1>1, <1>4, <2>4 DEF Backs, InPass
    <2>5. QED
      BY <1>4, <2>1, <2>2, <2>3, <2>4
  <1>5. ASSUME NEW p \in Proc, p \in Daemons, Scans(p) \/ Finishes(p) \/ Direct(p), InPass(p)'
        PROVE  status'[p].syncing
    <2>1. CASE Scans(p)
      BY <1>1, <1>5, <2>1 DEF Scans, Look, LogDelta, InPass
    <2>2. CASE Finishes(p)
      BY <1>5, <2>2 DEF Finishes, InPass
    <2>3. CASE Direct(p)
      BY <1>5, <2>3 DEF Direct
    <2>4. QED
      BY <1>5, <2>1, <2>2, <2>3
  <1>6. QED
    BY <1>1, <1>2, <1>3, <1>4, <1>5, Moves

LEMMA TypesNext == Types /\ [Next]_vars => Types'
  <1> SUFFICES ASSUME Types, [Next]_vars
               PROVE  Types'
    OBVIOUS
  <1>1. TypeOK'
    BY TypeProcs, TypeQueues, TypeBackup, TypeStatus, TypeFolder, TypeTray, TypeInPass
       DEF TypeOK, Shown, Places
  <1>2. synced' \in Nat
    BY TypeFolder
  <1>3. Typed'
    BY <1>2, TypeQueues, TypeWork, TypeBackup, TypeFolder, TypeSaw, TypeClient, TypeTray DEF Typed
  <1>4. QED
    BY <1>1, <1>3 DEF Types

LEMMA TypesInit == Init => Types
  <1> SUFFICES ASSUME Init
               PROVE  Types
    OBVIOUS
  <1>1. Gone \in Pass({0}) /\ Gone.saw = 0 /\ Gone.at = "gone"
    BY DEF Gone, Idle, Pass, Stages
  <1>2. Fresh \in Shown
    BY DEF Fresh, Shown
  <1>3. work \in [Proc -> Pass({0})] /\ \A p \in Proc : work[p].at = "gone" /\ work[p].saw = 0
    BY <1>1 DEF Init
  <1>4. tray \in Tray /\ tray.rx = <<>>
    BY <1>2 DEF Init, Tray
  <1>5. client \in [Clients -> Connection]
    BY DEF Init, Connection, Replies
  <1>6. jobs \in [Daemons -> Seq(Clients)] /\ \A d \in Daemons : jobs[d] = <<>>
    BY DEF Init
  <1>7. Len(<<>>) = 0 /\ ResidencyCap \in Nat /\ RingCap \in Nat
    OBVIOUS
  <1>8. TypeOK
    <2>1. life \in [Proc -> Places]
      BY DEF Init, Places
    <2>2. \A d \in Daemons : ~InPass(d)
      BY <1>3 DEF InPass, Proc
    <2>3. queue \in [Daemons -> BOOLEAN] /\ bqueue \in [Daemons -> {"none", "scheduled", "manual"}]
          /\ status \in [Daemons -> Shown] /\ synced = 0 /\ changes = 0
          /\ lock = None /\ sock = None
      BY <1>2 DEF Init
    <2>4. QED
      BY <1>4, <1>6, <1>7, <2>1, <2>2, <2>3 DEF TypeOK, Shown, Places
  <1>9. Typed
    <2>1. changes = 0 /\ synced = 0 /\ notice = "none" /\ backup \in [Daemons -> BackupStages]
      BY DEF Init, BackupStages
    <2>2. \E L : work \in [Proc -> Pass(L)]
      BY <1>3
    <2>3. QED
      BY <1>3, <1>4, <1>5, <1>6, <2>1, <2>2 DEF Typed
  <1>10. QED
    BY <1>8, <1>9 DEF Types

-----------------------------------------------------------------------------
(* One daemon at a time, behind the socket. *)

LEMMA LocksNext == Types /\ Locks /\ [Next]_vars => Locks'
  <1> SUFFICES ASSUME Types, Locks, [Next]_vars
               PROVE  Locks'
    OBVIOUS
  <1>1. /\ \A d \in Daemons : d \in Proc /\ d \notin Evicts /\ d \notin Syncs
        /\ \A p \in Evicts : p \in Proc /\ p \notin Daemons /\ p \notin Syncs
        /\ None \notin Proc /\ life \in [Proc -> Places]
    BY DEF Proc, Types, TypeOK, Places
  <1>2. CASE UNCHANGED <<procs, work, backup, status>>
    BY <1>2 DEF Locks, Holding, procs
  <1>3. ASSUME NEW d \in Daemons, Alone(d), Lives(d) \/ Turns(d)
        PROVE  Locks'
    <2>1. \A q \in Proc \ {d} : life'[q] = life[q]
      BY <1>3 DEF Alone
    <2>2. \A q \in Proc \ {d} : Holding(q)' = Holding(q)
      BY <2>1 DEF Holding
    <2>3. CASE Launch(d)
      <3>1. life'[d] = "locked" /\ lock = None /\ lock' = d /\ sock' = sock
        BY <1>1, <2>3 DEF Launch
      <3>2. \A q \in Proc : ~Holding(q)
        BY <1>1, <3>1 DEF Locks
      <3>3. QED
        BY <1>1, <2>1, <2>2, <3>1, <3>2 DEF Locks, Holding
    <2>4. CASE Bind(d)
      <3>1. life[d] = "locked" /\ life'[d] = "bound" /\ lock' = lock /\ sock' = d
        BY <1>1, <2>4 DEF Bind
      <3>2. Holding(d) /\ lock = d
        BY <1>1, <3>1 DEF Locks, Holding
      <3>3. \A q \in Proc \ {d} : ~Holding(q)
        BY <1>1, <3>2 DEF Locks
      <3>4. QED
        BY <1>1, <2>1, <2>2, <3>1, <3>2, <3>3 DEF Locks, Holding
    <2>5. CASE Serve(d) \/ BreakLoop(d)
      <3>1. /\ life[d] \in {"bound", "serving"} /\ life'[d] \in {"serving", "stopping"}
            /\ lock' = lock /\ sock' = sock
        BY <1>1, <2>5 DEF Serve, BreakLoop
      <3>2. QED
        BY <1>1, <2>1, <2>2, <3>1 DEF Locks, Holding
    <2>6. CASE StartFails(d) \/ Exit(d) \/ Abort(d)
      <3>1. life[d] \in {"bound", "stopping"} /\ life'[d] = "exiting" /\ lock' = lock
        BY <1>1, <2>6 DEF StartFails, Exit, Abort
      <3>2. Holding(d) /\ lock = d
        BY <1>1, <3>1 DEF Locks, Holding
      <3>3. \A q \in Proc \ {d} : ~Holding(q)
        BY <1>1, <3>2 DEF Locks
      <3>4. QED
        BY <1>1, <2>1, <2>2, <3>1, <3>2, <3>3 DEF Locks, Holding
    <2>7. CASE Unlock(d) \/ Down(d) \/ Crash(d)
      <3>1. /\ life'[d] \in {"lingering", "dead"} /\ sock' = sock
            /\ lock' = lock \/ lock = d \/ Unlock(d)
        BY <1>1, <2>7 DEF Unlock, Down, Crash
      <3>2. Unlock(d) => lock = d
        BY <1>1 DEF Unlock, Locks, Holding
      <3>3. \A q \in Proc \ {d} : Holding(q) => lock' = q
        BY <3>1, <3>2 DEF Locks
      <3>4. ~Holding(d)'
        BY <1>1, <3>1 DEF Holding
      <3>5. \A q \in Proc : Holding(q)' => lock' = q
        BY <2>2, <3>3, <3>4
      <3>6. QED
        BY <1>1, <2>1, <3>1, <3>5 DEF Locks
    <2>8. QED
      BY <1>3, <2>3, <2>4, <2>5, <2>6, <2>7 DEF Lives, Turns
  <1>4. ASSUME NEW d \in Daemons, Alone(d), Works(d) \/ Backs(d)
        PROVE  Locks'
    <2>1. \A q \in Proc : life'[q] = life[q]
      BY <1>4 DEF Alone, Works, Backs
    <2>2. UNCHANGED <<lock, sock>>
      BY <1>4 DEF Works, Backs, TakeResidency, TakeSync, Take, WorkerStops, Announce, Report,
                  StartBackup, EndBackup, TakeBackup, BackupStops, AnnounceBackup, ReportBackup,
                  SkipBackup, procs
    <2>3. QED
      BY <1>1, <2>1, <2>2 DEF Locks, Holding
  <1>5. ASSUME NEW p \in Proc, Alone(p), Scans(p)
        PROVE  Locks'
    <2>1. \A q \in Proc : life'[q] = life[q]
      BY <1>5 DEF Alone, Scans
    <2>2. UNCHANGED <<lock, sock>>
      BY <1>5 DEF Scans, Look, LogDelta, procs
    <2>3. QED
      BY <1>1, <2>1, <2>2 DEF Locks, Holding
  <1>6. ASSUME NEW p \in Proc, Alone(p), Finishes(p)
        PROVE  Locks'
    <2>1. /\ sock' = sock
          /\ \/ p \in Daemons /\ lock' = lock /\ life'[p] = life[p]
             \/ p \notin Daemons /\ life'[p] = "dead" /\ lock' = IF lock = p THEN None ELSE lock
      BY <1>6 DEF Finishes, PassEnds, PassFails, Record
    <2>2. \A q \in Proc \ {p} : life'[q] = life[q]
      BY <1>6 DEF Alone
    <2>3. \A q \in Proc : Holding(q)' => Holding(q) /\ (q # p \/ p \in Daemons)
      BY <1>1, <2>1, <2>2 DEF Holding
    <2>4. \A q \in Proc : Holding(q)' => lock' = q
      BY <2>1, <2>3 DEF Locks
    <2>5. QED
      BY <1>1, <2>1, <2>2, <2>4 DEF Locks
  <1>7. ASSUME NEW p \in Proc, Alone(p), Direct(p)
        PROVE  Locks'
    <2>1. \A q \in Proc \ {p} : life'[q] = life[q] /\ Holding(q)' = Holding(q)
      BY <1>7 DEF Alone, Holding
    <2>2. p \notin Daemons /\ life'[p] = "direct"
      BY <1>1, <1>7 DEF Direct
    <2>3. CASE p \in Evicts /\ DirectEvict(p)
      <3>1. lock = None /\ lock' = p /\ sock' = sock
        BY <2>3 DEF DirectEvict
      <3>2. \A q \in Proc : ~Holding(q)
        BY <1>1, <3>1 DEF Locks
      <3>3. QED
        BY <1>1, <2>1, <2>2, <3>1, <3>2 DEF Locks
    <2>4. CASE p \in Syncs /\ DirectSync(p)
      <3>1. lock' = lock /\ sock' = sock /\ ~Holding(p)'
        BY <1>1, <2>2, <2>4 DEF DirectSync, Holding
      <3>2. QED
        BY <1>1, <2>1, <2>2, <3>1 DEF Locks
    <2>5. QED
      BY <1>7, <2>3, <2>4 DEF Direct
  <1>8. QED
    BY <1>2, <1>3, <1>4, <1>5, <1>6, <1>7, Moves

LEMMA WorkersNext == Types /\ Workers /\ [Next]_vars => Workers'
  <1> SUFFICES ASSUME Types, Workers, [Next]_vars
               PROVE  Workers'
    OBVIOUS
  <1> DEFINE Fine(d) == /\ life[d] = "serving" => work[d].at # "gone"
                        /\ life[d] \in Unborn => /\ work[d].at = "gone" /\ status[d] = Fresh
                                                 /\ backup[d] = "gone"
  <1>1. \A d \in Daemons : d \in Proc /\ Fine(d)
    BY DEF Proc, Workers
  <1>2. ASSUME UNCHANGED <<procs, work, backup, status>>
        PROVE  \A d \in Daemons : Fine(d)'
    BY <1>1, <1>2 DEF procs
  <1>3. ASSUME NEW p \in Proc, Alone(p), NEW d \in Daemons, d # p
        PROVE  Fine(d)'
    BY <1>1, <1>3 DEF Alone
  <1>4. ASSUME NEW d \in Daemons, Lives(d)
        PROVE  Fine(d)'
    BY <1>1, <1>4 DEF Lives, Kept, Launch, Bind, Unborn
  <1>5. ASSUME NEW d \in Daemons, Turns(d)
        PROVE  Fine(d)'
    BY <1>5 DEF Turns, Unborn
  <1>6. ASSUME NEW d \in Daemons, Works(d)
        PROVE  Fine(d)'
    <2>1. life[d] \notin Unborn
      BY <1>1, <1>6 DEF Works, TakeResidency, TakeSync, Take, WorkerStops, Announce, Report, Unborn
    <2>2. WorkerStops(d) => life[d] # "serving"
      BY DEF WorkerStops
    <2>3. QED
      BY <1>6, <2>1, <2>2 DEF Works
  <1>7. ASSUME NEW d \in Daemons, Backs(d)
        PROVE  Fine(d)'
    <2>1. life[d] \notin Unborn
      BY <1>1, <1>7 DEF Backs, TakeBackup, BackupStops, StartBackup, AnnounceBackup, EndBackup,
                        ReportBackup, SkipBackup, Unborn
    <2>2. QED
      BY <1>1, <1>7, <2>1 DEF Backs
  <1>8. ASSUME NEW p \in Daemons, Scans(p) \/ Finishes(p) \/ Direct(p)
        PROVE  Fine(p)'
    <2>1. ~Direct(p)
      BY DEF Direct
    <2>2. work[p].at # "gone"
      BY <1>8, <2>1 DEF Scans, Finishes, Look, LogDelta, PassEnds, PassFails
    <2>3. QED
      BY <1>1, <1>8, <2>1, <2>2 DEF Scans, Finishes
  <1> HIDE DEF Fine
  <1>9. \A d \in Daemons : Fine(d)'
    BY <1>1, <1>2, <1>3, <1>4, <1>5, <1>6, <1>7, <1>8, Moves
  <1>10. QED
    BY <1>9 DEF Workers, Fine

LEMMA StatusesNext == Types /\ Workers /\ Statuses /\ [Next]_vars => Statuses'
  <1> SUFFICES ASSUME Types, Workers, Statuses, [Next]_vars
               PROVE  Statuses'
    OBVIOUS
  <1> DEFINE Fine(d) == life[d] \in Up => /\ status[d].syncing <=> work[d].at \in Active
                                          /\ status[d].backing_up <=> backup[d] \in Active
                                          /\ work[d].at \in {"ok", "failed"} => status[d].last = work[d].at
  <1>1. \A d \in Daemons : d \in Proc /\ Fine(d)
    BY DEF Proc, Statuses
  <1>2. ASSUME UNCHANGED <<procs, work, backup, status>>
        PROVE  \A d \in Daemons : Fine(d)'
    BY <1>1, <1>2 DEF procs
  <1>3. ASSUME NEW p \in Proc, Alone(p), NEW d \in Daemons, d # p
        PROVE  Fine(d)'
    BY <1>1, <1>3 DEF Alone
  <1>4. ASSUME NEW d \in Daemons, Lives(d)
        PROVE  Fine(d)'
    BY <1>1, <1>4 DEF Lives, Kept, BreakLoop, Up
  <1>5. ASSUME NEW d \in Daemons, Turns(d)
        PROVE  Fine(d)'
    <2>1. CASE Serve(d)
      <3>1. status[d] = Fresh
        BY <2>1 DEF Serve, Workers, Unborn
      <3>2. QED
        BY <1>5, <2>1, <3>1 DEF Turns, Fresh, Active, Serve, Abort, Down, Crash, Up
    <2>2. CASE ~Serve(d)
      BY <1>5, <2>2 DEF Turns, Up
    <2>3. QED
      BY <2>1, <2>2
  <1>6. ASSUME NEW d \in Daemons, Works(d)
        PROVE  Fine(d)'
    <2>1. CASE TakeResidency(d) \/ TakeSync(d)
      BY <1>1, <1>6, <2>1 DEF Works, TakeResidency, TakeSync, Take, WorkerStops, Announce, Report, Active
    <2>2. CASE WorkerStops(d)
      BY <1>1, <1>6, <2>2 DEF Works, TakeResidency, TakeSync, Take, WorkerStops, Announce, Report, Active
    <2>3. CASE Announce(d)
      BY <1>1, <1>6, <2>3 DEF Works, TakeResidency, TakeSync, Take, WorkerStops, Announce, Report, Active
    <2>4. CASE Report(d)
      BY <1>1, <1>6, <2>4 DEF Works, TakeResidency, TakeSync, Take, WorkerStops, Announce, Report, Active
    <2>5. QED
      BY <1>6, <2>1, <2>2, <2>3, <2>4 DEF Works
  <1>7. ASSUME NEW d \in Daemons, Backs(d)
        PROVE  Fine(d)'
    <2>1. CASE StartBackup(d) /\ backup'[d] = "started" /\ status'[d].backing_up
      BY <1>1, <1>7, <2>1 DEF Backs, Active
    <2>2. CASE EndBackup(d) /\ backup'[d] \in {"ok", "failed"} /\ ~status'[d].backing_up
      BY <1>1, <1>7, <2>2 DEF Backs, Active
    <2>3. CASE /\ status'[d].backing_up = status[d].backing_up
               /\ \/ TakeBackup(d) /\ backup'[d] \in {"scheduled", "manual"}
                  \/ BackupStops(d) /\ backup'[d] = "gone"
                  \/ AnnounceBackup(d) /\ backup'[d] = "running"
                  \/ (ReportBackup(d) \/ SkipBackup(d)) /\ backup'[d] = "idle"
      <3>1. backup[d] \in Active <=> backup'[d] \in Active
        BY <2>3 DEF TakeBackup, BackupStops, AnnounceBackup, ReportBackup, SkipBackup, Active
      <3>2. QED
        BY <1>1, <1>7, <2>3, <3>1 DEF Backs
    <2>4. QED
      BY <1>7, <2>1, <2>2, <2>3 DEF Backs
  <1>8. ASSUME NEW p \in Daemons, Scans(p) \/ Finishes(p) \/ Direct(p)
        PROVE  Fine(p)'
    <2>1. CASE Scans(p)
      BY <1>1, <2>1 DEF Scans, Look, LogDelta, Active
    <2>2. CASE Finishes(p)
      BY <1>1, <2>2 DEF Finishes, Active
    <2>3. ~Direct(p)
      BY DEF Direct
    <2>4. QED
      BY <1>8, <2>1, <2>2, <2>3
  <1> HIDE DEF Fine
  <1>9. \A d \in Daemons : Fine(d)'
    BY <1>1, <1>2, <1>3, <1>4, <1>5, <1>6, <1>7, <1>8, Moves
  <1>10. QED
    BY <1>9 DEF Statuses, Fine

-----------------------------------------------------------------------------
(* Clients. *)

(* A daemon that served does not go back to starting; one that serves did, or
   was about to. *)
LEMMA LifeGoesOn ==
    ASSUME Types, [Next]_vars, NEW d \in Daemons
    PROVE  /\ life[d] \notin Unborn => life'[d] \notin Unborn
           /\ life'[d] = "serving" => life[d] \in {"serving", "bound"}
           /\ life'[d] \in Up => life[d] \in Up \/ Serve(d)
  <1>1. \A x \in Daemons : x \in Proc
    BY DEF Proc
  <1>2. CASE UNCHANGED <<procs, work, backup, status>>
    BY <1>2 DEF procs, Up
  <1>3. CASE \E p \in Proc \ {d} : Alone(p)
    BY <1>1, <1>3 DEF Alone
  <1>4. CASE Lives(d)
    BY <1>4 DEF Lives, Launch, Bind, BreakLoop, Unborn, Up
  <1>5. CASE Turns(d)
    BY <1>5 DEF Turns, Serve, Unborn, Up
  <1>6. CASE Works(d) \/ Backs(d) \/ Scans(d) \/ Finishes(d) \/ Direct(d)
    BY <1>6 DEF Works, Backs, Scans, Finishes, Direct
  <1>7. QED
    BY <1>1, <1>2, <1>3, <1>4, <1>5, <1>6, Moves

SameTalk(c) ==
    /\ client'[c].to = client[c].to /\ client'[c].cmd = client[c].cmd
    /\ client'[c].served = client[c].served

LEMMA ClientSteps ==
    ASSUME Types, [Next]_vars, NEW c \in Clients
    PROVE  \/ client'[c] = client[c]
           \/ /\ \E d \in Daemons : TakeResidency(d) \/ TakeSync(d)
              /\ client'[c] = [client[c] EXCEPT !.served = TRUE]
           \/ /\ SameTalk(c) /\ client'[c].at = "done"
              /\ client'[c].reply \in {client[c].reply, "eof", "stopping", "ok", "failed"}
           \/ /\ Connect(c) /\ client'[c].reply \in {client[c].reply, "not running"}
              /\ \/ client'[c].at = "backlog" /\ client'[c].to \in Daemons
                 \/ client'[c].at = "done"
           \/ /\ Accept(c) /\ SameTalk(c) /\ client'[c].at = "open"
              /\ client'[c].reply = client[c].reply
           \/ Unresponsive(c) /\ client'[c] = [client[c] EXCEPT !.reply = "unresponsive"]
           \/ /\ Handle(c) /\ SameTalk(c) /\ client'[c].at \in {"waiting", "done"}
              /\ \/ client'[c].reply = client[c].reply
                 \/ client'[c].reply # "queued"
                 \/ HandleBackup(c, client[c].to) /\ client[c].cmd = "backup"
                 \/ HandleSync(c, client[c].to)
  <1>1. client \in [Clients -> Connection] /\ client[c] \in Connection /\ DOMAIN client = Clients
    BY DEF Types, Typed
  <1>2. ASSUME NEW at, NEW reply
        PROVE  LET x == [client[c] EXCEPT !.at = at]
                   y == [client[c] EXCEPT !.at = at, !.reply = reply]
               IN  /\ x.at = at /\ x.reply = client[c].reply /\ x.to = client[c].to
                   /\ x.cmd = client[c].cmd /\ x.served = client[c].served
                   /\ y.at = at /\ y.reply = reply /\ y.to = client[c].to
                   /\ y.cmd = client[c].cmd /\ y.served = client[c].served
    BY <1>1 DEF Connection
  <1>3. ASSUME NEW d \in Daemons, HangUp(d)
        PROVE  \/ client'[c] = client[c]
               \/ client'[c] = [client[c] EXCEPT !.at = "done", !.reply = Told(c, "eof")]
    BY <1>1, <1>3 DEF HangUp
  <1>4. ASSUME NEW d \in Daemons, TakeResidency(d) \/ TakeSync(d)
        PROVE  client'[c] = client[c] \/ client'[c] = [client[c] EXCEPT !.served = TRUE]
    BY <1>1, <1>4 DEF TakeResidency, TakeSync, Take, Served
  <1>5. ASSUME NEW d \in Daemons, WorkerStops(d) \/ Report(d)
        PROVE  \/ client'[c] = client[c]
               \/ \E reply \in {"stopping", "ok", "failed"} :
                     client'[c] = [client[c] EXCEPT !.at = "done", !.reply = reply]
    BY <1>1, <1>5 DEF WorkerStops, Report
  <1>6. ASSUME NEW b \in Clients, b # c, Connect(b) \/ Accept(b) \/ Unresponsive(b) \/ Handle(b)
        PROVE  client'[c] = client[c]
    BY <1>1, <1>6 DEF Connect, Accept, Unresponsive, Handle, HandleSync, HandleBackup, HandleEvict,
                      HandleOther, Reply
  <1>7. ASSUME Connect(c)
        PROVE  /\ client'[c].reply \in {client[c].reply, "not running"}
               /\ \/ client'[c].at = "backlog" /\ client'[c].to \in Daemons
                  \/ client'[c].at = "done"
    <2>1. PICK cmd \in Commands :
             client'[c] =
               IF sock \in Daemons /\ life[sock] \in {"bound", "serving", "stopping"}
               THEN [client[c] EXCEPT !.at = "backlog", !.cmd = cmd, !.to = sock]
               ELSE [client[c] EXCEPT !.at = "done", !.cmd = cmd, !.reply = "not running"]
      BY <1>1, <1>7 DEF Connect
    <2>2. QED
      BY <1>1, <2>1 DEF Connection
  <1>8. ASSUME Accept(c)
        PROVE  client'[c] = [client[c] EXCEPT !.at = "open"]
    BY <1>1, <1>8 DEF Accept
  <1>9. ASSUME Unresponsive(c)
        PROVE  client'[c] = [client[c] EXCEPT !.reply = "unresponsive"]
    BY <1>1, <1>9 DEF Unresponsive
  <1>10. ASSUME NEW text, Reply(c, text)
         PROVE  client'[c] = [client[c] EXCEPT !.at = "done", !.reply = Told(c, text)]
    BY <1>1, <1>10 DEF Reply
  <1>11. \A text : Told(c, text) = client[c].reply \/ Told(c, text) = text
    BY DEF Told
  <1>12. ASSUME Handle(c)
         PROVE  /\ SameTalk(c) /\ client'[c].at \in {"waiting", "done"}
                /\ \/ client'[c].reply = client[c].reply
                   \/ client'[c].reply # "queued"
                   \/ HandleBackup(c, client[c].to) /\ client[c].cmd = "backup"
                   \/ HandleSync(c, client[c].to)
    <2> DEFINE d == client[c].to
    <2>1. \/ HandleSync(c, d) /\ \E text : Reply(c, text)
          \/ HandleBackup(c, d) /\ client[c].cmd = "backup" /\ \E text : Reply(c, text)
          \/ HandleEvict(c, d) /\ Reply(c, "stopping")
          \/ client' = [client EXCEPT ![c].at = "waiting"]
          \/ HandleOther(c) /\ \E text \in {"stop", "status"} : Reply(c, text)
      BY <1>12 DEF Handle, HandleSync, HandleBackup, HandleEvict, HandleOther
    <2>2. CASE client' = [client EXCEPT ![c].at = "waiting"]
      <3>1. client'[c] = [client[c] EXCEPT !.at = "waiting"]
        BY <1>1, <2>2
      <3>2. QED
        BY <1>2, <3>1 DEF SameTalk
    <2>3. ASSUME NEW text, Reply(c, text)
          PROVE  SameTalk(c) /\ client'[c].at = "done" /\ client'[c].reply \in {client[c].reply, text}
      <3>1. client'[c] = [client[c] EXCEPT !.at = "done", !.reply = Told(c, text)]
        BY <1>10, <2>3
      <3>2. QED
        BY <1>2, <1>11, <3>1 DEF SameTalk
    <2>4. QED
      BY <2>1, <2>2, <2>3
  <1>13. CASE UNCHANGED client
    BY <1>13
  <1>14. CASE \E d \in Daemons : \/ Down(d) \/ Crash(d) \/ TakeResidency(d) \/ TakeSync(d)
                                 \/ WorkerStops(d) \/ Report(d)
    <2>1. PICK d \in Daemons : \/ HangUp(d) \/ TakeResidency(d) \/ TakeSync(d)
                               \/ WorkerStops(d) \/ Report(d)
      BY <1>14 DEF Down, Crash
    <2>2. CASE HangUp(d)
      <3>1. CASE client'[c] = [client[c] EXCEPT !.at = "done", !.reply = Told(c, "eof")]
        <4>1. SameTalk(c) /\ client'[c].at = "done" /\ client'[c].reply = Told(c, "eof")
          BY <1>2, <3>1 DEF SameTalk
        <4>2. QED
          BY <1>11, <4>1
      <3>2. QED
        BY <1>3, <2>2, <3>1
    <2>3. CASE TakeResidency(d) \/ TakeSync(d)
      BY <1>4, <2>3
    <2>4. CASE WorkerStops(d) \/ Report(d)
      <3>1. ASSUME NEW reply \in {"stopping", "ok", "failed"},
                   client'[c] = [client[c] EXCEPT !.at = "done", !.reply = reply]
            PROVE  SameTalk(c) /\ client'[c].at = "done" /\ client'[c].reply = reply
        BY <1>2, <3>1 DEF SameTalk
      <3>2. QED
        BY <1>5, <2>4, <3>1
    <2>5. QED
      BY <2>1, <2>2, <2>3, <2>4
  <1>15. CASE \E b \in Clients : Connect(b) \/ Accept(b) \/ Unresponsive(b) \/ Handle(b)
    <2>1. CASE Accept(c)
      <3>1. client'[c] = [client[c] EXCEPT !.at = "open"]
        BY <1>8, <2>1
      <3>2. SameTalk(c) /\ client'[c].at = "open" /\ client'[c].reply = client[c].reply
        BY <1>2, <3>1 DEF SameTalk
      <3>3. QED
        BY <2>1, <3>2
    <2>2. QED
      BY <1>6, <1>7, <1>9, <1>12, <1>15, <2>1
  <1>16. QED
    BY <1>13, <1>14, <1>15, ClientFrame

LEMMA ConnectionsNext == Types /\ Connections /\ [Next]_vars => Connections'
  <1> SUFFICES ASSUME Types, Connections, [Next]_vars
               PROVE  Connections'
    OBVIOUS
  <1> DEFINE Fine(c) ==
        /\ client[c].at = "idle" => client[c].reply = "none"
        /\ client[c].at \in {"backlog", "open", "waiting"} => client[c].to \in Daemons
        /\ client[c].at \in {"open", "waiting"} \/ client[c].reply = "queued" =>
               client[c].to \in Daemons /\ life[client[c].to] \notin Unborn
  <1>1. \A c \in Clients : client[c] \in Connection /\ Fine(c)
    BY DEF Types, Typed, Connections
  <1>2. \A d \in Daemons : life[d] \notin Unborn => life'[d] \notin Unborn
    BY LifeGoesOn
  <1>3. ASSUME NEW c \in Clients
        PROVE  Fine(c)'
    <2>1. CASE client'[c] = client[c]
      BY <1>1, <1>2, <2>1
    <2>2. CASE client'[c] = [client[c] EXCEPT !.served = TRUE]
      <3>1. /\ client'[c].at = client[c].at /\ client'[c].reply = client[c].reply
            /\ client'[c].to = client[c].to
        BY <1>1, <2>2 DEF Connection
      <3>2. QED
        BY <1>1, <1>2, <3>1
    <2>3. CASE /\ SameTalk(c) /\ client'[c].at = "done"
               /\ client'[c].reply \in {client[c].reply, "eof", "stopping", "ok", "failed"}
      BY <1>1, <1>2, <2>3 DEF SameTalk
    <2>4. CASE /\ Connect(c) /\ client'[c].reply \in {client[c].reply, "not running"}
               /\ \/ client'[c].at = "backlog" /\ client'[c].to \in Daemons
                  \/ client'[c].at = "done"
      <3>1. client[c].at = "idle" /\ client[c].reply = "none"
        BY <1>1, <2>4 DEF Connect
      <3>2. QED
        BY <2>4, <3>1
    <2>5. CASE /\ Accept(c) /\ SameTalk(c) /\ client'[c].at = "open"
               /\ client'[c].reply = client[c].reply
      <3>1. client[c].to \in Daemons /\ life[client[c].to] \notin Unborn
        BY <1>1, <2>5 DEF Accept, Unborn
      <3>2. QED
        BY <1>2, <2>5, <3>1 DEF SameTalk
    <2>6. CASE Unresponsive(c) /\ client'[c] = [client[c] EXCEPT !.reply = "unresponsive"]
      <3>1. /\ client'[c].at = client[c].at /\ client'[c].reply = "unresponsive"
            /\ client'[c].to = client[c].to /\ client[c].at = "backlog"
        BY <1>1, <2>6 DEF Connection, Unresponsive
      <3>2. QED
        BY <1>1, <1>2, <3>1
    <2>7. CASE Handle(c) /\ SameTalk(c) /\ client'[c].at \in {"waiting", "done"}
      <3>1. client[c].to \in Daemons /\ life[client[c].to] \notin Unborn
        BY <1>1, <2>7 DEF Handle
      <3>2. QED
        BY <1>2, <2>7, <3>1 DEF SameTalk
    <2>8. QED
      BY <2>1, <2>2, <2>3, <2>4, <2>5, <2>6, <2>7, ClientSteps
  <1>4. QED
    BY <1>3 DEF Connections

(* A trigger is taken out of the channel only by a pass that begins, or by a
   worker that has ended or will not live on. *)
LEMMA QueueKept ==
    ASSUME Types, Workers, [Next]_vars, NEW d \in Daemons,
           queue[d], life[d] = "serving", life'[d] = "serving", ~TakeSync(d)
    PROVE  queue'[d]
  <1>1. d \in Proc /\ queue \in [Daemons -> BOOLEAN] /\ work[d].at # "gone"
        /\ life \in [Proc -> Places]
    BY DEF Proc, Types, TypeOK, Workers, Places
  <1>2. CASE UNCHANGED <<queue, jobs>>
    BY <1>2
  <1>3. ASSUME NEW x \in Daemons, Down(x) \/ Crash(x)
        PROVE  queue'[d]
    BY <1>1, <1>3 DEF Down, Crash, Forget
  <1>4. ASSUME NEW x \in Daemons,
               FsEvent(x) \/ Poll(x) \/ TakeResidency(x) \/ TakeSync(x) \/ WorkerStops(x)
        PROVE  queue'[d]
    BY <1>1, <1>4 DEF FsEvent, Poll, TakeResidency, TakeSync, WorkerStops
  <1>5. ASSUME NEW c \in Clients, Handle(c)
        PROVE  queue'[d]
    <2>1. PICK x : HandleSync(c, x) \/ UNCHANGED queue
      BY <1>5 DEF Handle, HandleSync, HandleBackup, HandleEvict, HandleOther, channels
    <2>2. QED
      BY <1>1, <2>1 DEF HandleSync
  <1>6. QED
    BY <1>2, <1>3, <1>4, <1>5, QueueFrame

LEMMA QueuedNext ==
    ASSUME Types, Workers, Connections, QueuedIsRun, [Next]_vars
    PROVE  QueuedIsRun'
  <1> SUFFICES ASSUME NEW c \in Clients, client'[c].cmd = "sync", client'[c].reply = "queued",
                      ~client'[c].served, life'[client'[c].to] = "serving"
               PROVE  queue'[client'[c].to]
    BY DEF QueuedIsRun
  <1>1. client[c] \in Connection
    BY DEF Types, Typed
  <1> DEFINE d == client[c].to
  <1>2. ASSUME SameTalk(c), client[c].reply = "queued"
        PROVE  queue'[client'[c].to]
    <2>1. client[c].cmd = "sync" /\ ~client[c].served /\ client'[c].to = d /\ life'[d] = "serving"
      BY <1>2 DEF SameTalk
    <2>2. d \in Daemons /\ life[d] \notin Unborn
      BY <1>2 DEF Connections
    <2>3. life[d] = "serving"
      BY <2>1, <2>2, LifeGoesOn DEF Unborn
    <2>4. queue[d]
      BY <1>2, <2>1, <2>3 DEF QueuedIsRun
    <2>5. ASSUME TakeSync(d)
          PROVE  FALSE
      <3>1. client'[c] = [client[c] EXCEPT !.served = TRUE]
        BY <1>2, <2>1, <2>5 DEF TakeSync, Take, Served
      <3>2. QED
        BY <1>1, <3>1 DEF Connection
    <2>6. QED
      BY <2>1, <2>2, <2>3, <2>4, <2>5, QueueKept
  <1>3. CASE client'[c] = client[c]
    BY <1>2, <1>3 DEF SameTalk
  <1>4. client'[c] # [client[c] EXCEPT !.served = TRUE]
    BY <1>1 DEF Connection
  <1>5. CASE SameTalk(c) /\ client'[c].reply = client[c].reply
    BY <1>2, <1>5
  <1>6. ~Connect(c) \/ client'[c].reply \notin {client[c].reply, "not running"}
    BY DEF Connect, Connections
  <1>7. client'[c] # [client[c] EXCEPT !.reply = "unresponsive"]
    BY <1>1 DEF Connection
  <1>8. ASSUME Handle(c), SameTalk(c), HandleSync(c, d)
        PROVE  queue'[client'[c].to]
    <2>1. d \in Daemons /\ life[d] \notin Unborn /\ client'[c].to = d
      BY <1>8 DEF Connections, Handle, SameTalk
    <2>2. life[d] = "serving"
      BY <2>1, LifeGoesOn DEF Unborn
    <2>3. work[d].at # "gone" /\ queue \in [Daemons -> BOOLEAN]
      BY <2>1, <2>2 DEF Workers, Types, TypeOK
    <2>4. QED
      BY <1>8, <2>1, <2>3 DEF HandleSync
  <1>9. ASSUME SameTalk(c), client[c].cmd = "backup"
        PROVE  FALSE
    BY <1>9 DEF SameTalk
  <1>10. QED
    BY <1>3, <1>4, <1>5, <1>6, <1>7, <1>8, <1>9, ClientSteps

Consistency == Types /\ Locks /\ Workers /\ Connections /\ QueuedIsRun

LEMMA ConsistencyInit == Init => Consistency
  <1> SUFFICES ASSUME Init
               PROVE  Consistency
    OBVIOUS
  <1>1. \A p \in Proc : life[p] \in {"off", "dead"} /\ (p \notin Evicts => life[p] = "off")
    BY DEF Init
  <1>2. Locks
    BY <1>1 DEF Locks, Holding, Proc
  <1>3. Workers
    BY <1>1 DEF Workers, Init, Gone, Idle, Proc
  <1>4. \A c \in Clients : client[c].at \in {"idle", "done"} /\ client[c].reply = "none"
    BY DEF Init
  <1>5. Connections /\ QueuedIsRun
    BY <1>4 DEF Connections, QueuedIsRun
  <1>6. QED
    BY <1>2, <1>3, <1>5, TypesInit DEF Consistency

LEMMA ConsistencyNext == Consistency /\ [Next]_vars => Consistency'
  BY TypesNext, LocksNext, WorkersNext, ConnectionsNext, QueuedNext DEF Consistency

(* The daemon is well formed, is reachable while it serves, and keeps what it
   promises with "sync queued": however daemons, direct evictions, direct syncs
   and clients overlap, crash and restart, and even if the tasks of an aborted
   daemon outlive its lock (watch.rs, daemon.rs, control.rs). *)
THEOREM DaemonIsConsistent == Spec => []Consistent
  <1>1. Consistency => Consistent
    BY DEF Consistency, Consistent, Types, Locks, SocketIsLive
  <1>2. QED
    BY <1>1, ConsistencyInit, ConsistencyNext, PTL DEF Spec

-----------------------------------------------------------------------------
(* One pass at a time, and no change forgotten.  These hold without rfm sync,
   which asks nobody, and if an aborted daemon's tasks end with its lock. *)

LEMMA GuardedNext ==
    ASSUME Types, Locks, Guarded, [Next]_vars, Syncs = {}, ~MayLinger
    PROVE  Guarded'
  <1> DEFINE Fine(p) == InPass(p) => Holding(p) /\ (p \in Daemons => life[p] \in Up)
  <1>1. /\ \A d \in Daemons : d \in Proc /\ d \notin Evicts
        /\ \A p \in Proc : Fine(p)
    BY DEF Proc, Guarded
  <1>2. CASE UNCHANGED <<procs, work, backup, status>>
    <2>1. \A p \in Proc : Fine(p)'
      BY <1>1, <1>2 DEF InPass, Holding, procs
    <2>2. QED
      BY <2>1 DEF Guarded
  <1>3. ASSUME NEW p \in Proc, Alone(p), NEW q \in Proc, q # p
        PROVE  Fine(q)'
    BY <1>1, <1>3 DEF Alone, InPass, Holding
  <1>4. ASSUME NEW d \in Daemons, Lives(d)
        PROVE  Fine(d)'
    BY <1>1, <1>4 DEF Lives, Kept, Launch, Bind, BreakLoop, StartFails, Exit, Unlock, InPass,
                      Holding, Up
  <1>5. ASSUME NEW d \in Daemons, Turns(d)
        PROVE  Fine(d)'
    BY <1>5 DEF Turns, InPass
  <1>6. ASSUME NEW d \in Daemons, Works(d)
        PROVE  Fine(d)'
    BY <1>1, <1>6 DEF Works, TakeResidency, TakeSync, Take, Announce, InPass, Holding, Up
  <1>7. ASSUME NEW d \in Daemons, Backs(d)
        PROVE  Fine(d)'
    BY <1>1, <1>7 DEF Backs, InPass, Holding
  <1>8. ASSUME NEW p \in Proc, Scans(p) \/ Finishes(p)
        PROVE  Fine(p)'
    BY <1>1, <1>8 DEF Scans, Finishes, Look, LogDelta, InPass, Holding
  <1>9. ASSUME NEW p \in Proc, Direct(p)
        PROVE  Fine(p)'
    BY <1>1, <1>9 DEF Direct, Holding
  <1> HIDE DEF Fine
  <1>10. CASE ~UNCHANGED <<procs, work, backup, status>>
    <2>1. \A p \in Proc : Fine(p)'
      BY <1>1, <1>3, <1>4, <1>5, <1>6, <1>7, <1>8, <1>9, <1>10, Moves
    <2>2. QED
      BY <2>1 DEF Guarded, Fine
  <1>11. QED
    BY <1>2, <1>10

LEMMA OneHolder ==
    ASSUME Locks, NEW p \in Proc, NEW q \in Proc, Holding(p), Holding(q)
    PROVE  p = q /\ lock # None
  BY DEF Locks

LEMMA ServingHolds ==
    ASSUME NEW d \in Daemons, life[d] = "serving"
    PROVE  d \in Proc /\ Holding(d)
  BY DEF Holding, Proc

(* Who asks for a pass keeps asking until one begins. *)
LEMMA AskedKept ==
    ASSUME Types, Locks, Workers, [Next]_vars, NEW d \in Daemons,
           life[d] = "serving", life'[d] = "serving", Asked(d),
           ~TakeSync(d), ~TakeResidency(d)
    PROVE  Asked(d)'
  <1>1. /\ d \in Proc /\ queue \in [Daemons -> BOOLEAN] /\ jobs \in [Daemons -> Seq(Clients)]
        /\ life \in [Proc -> Places] /\ \A x \in Daemons : x \in Proc
    BY DEF Proc, Types, TypeOK, Typed, Places
  <1>2. \A x \in Daemons : life[x] = "serving" => x = d
    BY OneHolder, ServingHolds
  <1>3. CASE queue[d]
    BY <1>3, QueueKept DEF Asked
  <1>4. CASE jobs[d] # <<>>
    <2>1. CASE UNCHANGED <<queue, jobs>>
      BY <1>4, <2>1 DEF Asked
    <2>2. ASSUME NEW x \in Daemons, Down(x) \/ Crash(x)
          PROVE  Asked(d)'
      BY <1>1, <1>4, <2>2 DEF Down, Crash, Forget, Asked
    <2>3. ASSUME NEW x \in Daemons,
                 FsEvent(x) \/ Poll(x) \/ TakeResidency(x) \/ TakeSync(x) \/ WorkerStops(x)
          PROVE  Asked(d)'
      BY <1>1, <1>4, <2>3 DEF FsEvent, Poll, TakeResidency, TakeSync, WorkerStops, Asked
    <2>4. ASSUME NEW c \in Clients, Handle(c)
          PROVE  Asked(d)'
      <3>1. PICK x : HandleEvict(c, x) \/ UNCHANGED jobs
        BY <2>4 DEF Handle, HandleSync, HandleBackup, HandleEvict, HandleOther, channels
      <3>2. Append(jobs[d], c) # <<>>
        BY <1>1
      <3>3. jobs'[d] # <<>>
        BY <1>1, <1>4, <3>1, <3>2 DEF HandleEvict
      <3>4. QED
        BY <3>3 DEF Asked
    <2>5. QED
      BY <2>1, <2>2, <2>3, <2>4, QueueFrame
  <1>5. CASE notice # "none"
    <2>1. CASE UNCHANGED <<changes, synced, notice>>
      BY <1>5, <2>1 DEF Asked
    <2>2. CASE Change
      BY <1>5, <2>2 DEF Change, Asked
    <2>3. ASSUME NEW x \in Daemons, Crash(x) \/ Signal(x) \/ Stop(x)
          PROVE  Asked(d)'
      <3>1. life'[x] # "serving"
        BY <1>1, <2>3 DEF Crash, Signal, Stop, BreakLoop
      <3>2. life[x] # "serving" /\ Crash(x)
        BY <1>2, <2>3, <3>1 DEF Signal, Stop, BreakLoop
      <3>3. QED
        BY <1>5, <3>2 DEF Crash, Asked
    <2>4. ASSUME NEW x \in Daemons, FsEvent(x) \/ WatcherError(x) \/ Poll(x)
          PROVE  Asked(d)'
      BY <1>1, <1>2, <2>4 DEF FsEvent, WatcherError, Poll, Asked
    <2>5. ASSUME NEW p \in Proc, PassEnds(p)
          PROVE  Asked(d)'
      BY <1>5, <2>5 DEF PassEnds, Asked
    <2>6. QED
      BY <2>1, <2>2, <2>3, <2>4, <2>5, FolderFrame
  <1>6. QED
    BY <1>3, <1>4, <1>5 DEF Asked

LEMMA FolderSteps ==
    ASSUME [Next]_vars
    PROVE  Change \/ (changes' = changes /\ (synced' = synced \/ \E p \in Proc : PassEnds(p)))
  BY FolderFrame DEF Crash, Signal, Stop, BreakLoop, FsEvent, WatcherError, Poll, PassEnds

LEMMA CoveringNext ==
    ASSUME Types, Locks, Workers, Guarded, Covering, [Next]_vars
    PROVE  Covering'
  <1> SUFFICES ASSUME NEW p \in Proc, work'[p].at \in {"looked", "logged"}
               PROVE  /\ synced' <= work'[p].saw
                      /\ p \in Daemons /\ life'[p] = "serving" /\ work'[p].saw < changes' => Asked(p)'
    BY DEF Covering
  <1>1. /\ changes \in Nat /\ synced \in Nat /\ synced <= changes
        /\ changes' \in Nat /\ changes <= changes'
    BY TypeFolder DEF Types, TypeOK, Typed
  <1>2. \/ work'[p] = work[p]
        \/ Look(p) /\ work'[p].saw = changes
        \/ LogDelta(p) /\ work'[p].saw = work[p].saw
    <2>1. CASE UNCHANGED <<procs, work, backup, status>>
      BY <2>1
    <2>2. ASSUME NEW d \in Daemons, Alone(d), Lives(d) \/ Turns(d) \/ Works(d) \/ Backs(d)
          PROVE  work'[p] = work[p]
      BY <2>2 DEF Alone, Lives, Kept, Turns, Works, Backs
    <2>3. ASSUME NEW q \in Proc, Alone(q), Scans(q) \/ Finishes(q) \/ Direct(q)
          PROVE  work'[p] = work[p] \/ (q = p /\ Scans(p))
      BY <2>3 DEF Alone, Finishes, Direct
    <2>4. QED
      BY <2>1, <2>2, <2>3, Moves DEF Scans
  <1>3. CASE Look(p) /\ work'[p].saw = changes
    <2>1. synced' = synced /\ changes' = changes
      BY <1>3 DEF Look, folder
    <2>2. QED
      BY <1>1, <1>3, <2>1
  <1>4. CASE ~Look(p)
    <2>1. work[p].at \in {"looked", "logged"} /\ work'[p].saw = work[p].saw
      BY <1>2, <1>4 DEF LogDelta
    <2>2. InPass(p) /\ Holding(p)
      BY <2>1 DEF InPass, Guarded
    <2>3. ASSUME NEW q \in Proc, PassEnds(q)
          PROVE  FALSE
      <3>1. InPass(q) /\ Holding(q)
        BY <2>3 DEF PassEnds, InPass, Guarded
      <3>2. q = p
        BY <2>2, <3>1, OneHolder
      <3>3. Record(p, "ok")
        BY <2>3, <3>2 DEF PassEnds
      <3>4. work'[p].at \in {"ok", "gone"}
        BY <3>3 DEF Record, Gone, Idle, Types, Typed, Pass
      <3>5. QED
        BY <3>4
    <2>4. synced' = synced
      BY <2>3, FolderSteps DEF Change
    <2>5. ASSUME p \in Daemons, life'[p] = "serving", work'[p].saw < changes'
          PROVE  Asked(p)'
      <3>1. life[p] = "serving"
        BY <2>2, <2>5, LifeGoesOn DEF Guarded, Up
      <3>2. CASE Change
        BY <2>5, <3>1, <3>2 DEF Change, Serving, Asked
      <3>3. CASE changes' = changes
        <4>1. Asked(p)
          BY <2>1, <2>5, <3>1, <3>3 DEF Covering
        <4>2. ~TakeSync(p) /\ ~TakeResidency(p)
          BY <2>1 DEF TakeSync, TakeResidency, Take
        <4>3. QED
          BY <2>5, <3>1, <4>1, <4>2, AskedKept
      <3>4. QED
        BY <3>2, <3>3, FolderSteps
    <2>6. QED
      BY <2>1, <2>4, <2>5 DEF Covering
  <1>5. Look(p) => work'[p].saw = changes
    <2> SUFFICES ASSUME Look(p) PROVE work'[p].saw = changes
      OBVIOUS
    <2>1. work[p].at = "planning" /\ work'[p].at # work[p].at
      BY DEF Look
    <2>2. QED
      BY <1>2, <2>1 DEF LogDelta
  <1>6. QED
    BY <1>3, <1>4, <1>5


-----------------------------------------------------------------------------
(* The refinement. *)

NoPass == [at |-> "none", saw |-> 0]
Begun == [at |-> "begun", saw |-> 0]

(* What a worker's pass is to SyncService. *)
Standing(x) == IF x.at \in {"started", "planning"} THEN Begun
               ELSE IF x.at \in {"looked", "logged"} THEN [at |-> "seen", saw |-> x.saw]
               ELSE NoPass

LEMMA NoPassIn ==
    ASSUME NEW w, \A p \in Proc : Standing(w[p]) = NoPass
    PROVE  PassIn(w) = NoPass
  BY DEF PassIn, NoPass, Begun, Standing

LEMMA OnePassIn ==
    ASSUME NEW w, NEW p \in Proc, \A q \in Proc \ {p} : Standing(w[q]) = NoPass
    PROVE  PassIn(w) = Standing(w[p])
  <1> DEFINE passing == {q \in Proc : w[q].at \in {"started", "planning", "looked", "logged"}}
  <1>1. \A q \in Proc : Standing(w[q]) = NoPass <=> q \notin passing
    BY DEF Standing, NoPass, Begun
  <1>2. CASE Standing(w[p]) = NoPass
    BY <1>2, NoPassIn
  <1>3. CASE Standing(w[p]) # NoPass
    <2>1. passing = {p}
      BY <1>1, <1>3
    <2>2. (CHOOSE q \in passing : TRUE) = p
      BY <2>1
    <2>3. QED
      BY <2>1, <2>2 DEF PassIn, Begun, Standing
  <1>4. QED
    BY <1>2, <1>3

(* The steps of SyncService, told apart by what they do to the pass. *)
LEMMA OwedIsBoolean == Owed \in BOOLEAN /\ Owed' \in BOOLEAN
  BY DEF Owed

LEMMA AsStutter ==
    ASSUME UNCHANGED <<changes, synced>>, PassIn(work') = PassIn(work), Owed => Owed'
    PROVE  [Service!Next]_(Service!vars)
  <1>1. CASE Owed'
    BY <1>1 DEF Service!Next, Service!Demand
  <1>2. CASE ~Owed'
    <2>1. Owed' = Owed
      BY <1>2, OwedIsBoolean
    <2>2. QED
      BY <2>1 DEF Service!vars
  <1>3. QED
    BY <1>1, <1>2

LEMMA AsChange ==
    ASSUME changes' = changes + 1, synced' = synced, PassIn(work') = PassIn(work), Owed'
    PROVE  Service!Next
  BY DEF Service!Next, Service!Change

LEMMA AsBegin ==
    ASSUME UNCHANGED <<changes, synced>>, PassIn(work) = NoPass, PassIn(work') = Begun
    PROVE  Service!Next
  BY OwedIsBoolean DEF Service!Next, Service!Begin, Service!NoPass, Service!Begun, NoPass, Begun

LEMMA AsLook ==
    ASSUME UNCHANGED <<changes, synced>>, Owed' <=> Owed, PassIn(work) = Begun,
           PassIn(work') = [at |-> "seen", saw |-> changes]
    PROVE  Service!Next
  <1>1. Owed' = Owed
    BY OwedIsBoolean
  <1>2. QED
    BY <1>1 DEF Service!Next, Service!Look, Service!Begun, Service!Seen, Begun

LEMMA AsFail ==
    ASSUME UNCHANGED <<changes, synced>>, PassIn(work) # NoPass, PassIn(work') = NoPass, Owed'
    PROVE  Service!Next
  BY DEF Service!Next, Service!Fail, Service!NoPass, NoPass

LEMMA AsDone ==
    ASSUME NEW n, PassIn(work) = [at |-> "seen", saw |-> n], changes' = changes, synced' = n,
           PassIn(work') = NoPass, Owed' \/ synced' = changes
    PROVE  Service!Next
  BY OwedIsBoolean DEF Service!Next, Service!Done, Service!NoPass, NoPass

(* At most one process is in a pass, and it holds the lock. *)
LEMMA OnePass ==
    ASSUME Locks, Guarded, NEW p \in Proc, Holding(p)
    PROVE  PassIn(work) = Standing(work[p])
  <1>1. ASSUME NEW q \in Proc \ {p}
        PROVE  Standing(work[q]) = NoPass
    <2>1. ~InPass(q)
      BY OneHolder DEF Guarded
    <2>2. QED
      BY <2>1 DEF InPass, Standing
  <1>2. QED
    BY <1>1, OnePassIn

LEMMA PassAlone ==
    ASSUME Locks, Guarded, NEW p \in Proc, Holding(p), Alone(p)
    PROVE  PassIn(work') = Standing(work'[p])
  <1>1. ASSUME NEW q \in Proc \ {p}
        PROVE  Standing(work'[q]) = NoPass
    <2>1. ~InPass(q)
      BY OneHolder DEF Guarded
    <2>2. work'[q] = work[q]
      BY DEF Alone
    <2>3. QED
      BY <2>1, <2>2 DEF InPass, Standing
  <1>2. QED
    BY <1>1, OnePassIn

(* A step of a process whose pass stands as it did changes no pass. *)
LEMMA SamePass ==
    ASSUME Locks, Guarded, NEW p \in Proc, Alone(p), Standing(work'[p]) = Standing(work[p])
    PROVE  PassIn(work') = PassIn(work)
  <1>1. \A q \in Proc : Standing(work'[q]) = Standing(work[q])
    BY DEF Alone
  <1>2. CASE \A q \in Proc : Standing(work[q]) = NoPass
    BY <1>1, <1>2, NoPassIn
  <1>3. CASE \E q \in Proc : Standing(work[q]) # NoPass
    <2>1. PICK q \in Proc : Standing(work[q]) # NoPass
      BY <1>3
    <2>2. Holding(q)
      BY <2>1 DEF Standing, InPass, Guarded
    <2>3. \A x \in Proc \ {q} : Standing(work[x]) = NoPass
      <3> SUFFICES ASSUME NEW x \in Proc \ {q}, Standing(work[x]) # NoPass
                   PROVE  FALSE
        OBVIOUS
      <3>1. Holding(x)
        BY DEF Standing, InPass, Guarded
      <3>2. QED
        BY <2>2, <3>1, OneHolder
    <2>4. PassIn(work) = Standing(work[q])
      BY <2>3, OnePassIn
    <2>5. PassIn(work') = Standing(work'[q])
      BY <1>1, <2>3, OnePassIn
    <2>6. QED
      BY <1>1, <2>4, <2>5
  <1>4. QED
    BY <1>2, <1>3

(* What is owed stays owed, but for the pass that begins or succeeds. *)
LEMMA OwedKept ==
    ASSUME Types, Locks, Workers, [Next]_vars, Owed,
           \A d \in Daemons : ~TakeSync(d) /\ ~TakeResidency(d),
           \A p \in Proc : ~PassEnds(p)
    PROVE  Owed'
  <1> SUFFICES ASSUME NEW d \in Daemons, life'[d] = "serving"
               PROVE  Asked(d)' \/ status'[d].last # "ok"
    BY DEF Owed
  <1>1. d \in Proc /\ \A x \in Daemons : x \in Proc
    BY DEF Proc
  <1>2. CASE Serve(d)
    BY <1>2 DEF Serve, Workers, Unborn, Fresh
  <1>3. CASE ~Serve(d)
    <2>1. life[d] = "serving"
      BY <1>3, LifeGoesOn DEF Up
    <2>2. CASE Asked(d)
      BY <2>1, <2>2, AskedKept
    <2>3. CASE status[d].last # "ok"
      <3>1. CASE UNCHANGED <<procs, work, backup, status>>
        BY <2>3, <3>1
      <3>2. ASSUME NEW p \in Proc, p # d, Alone(p)
            PROVE  status'[d].last # "ok"
        BY <1>1, <2>3, <3>2 DEF Alone
      <3>3. ASSUME Lives(d) \/ Works(d) \/ Backs(d)
            PROVE  status'[d].last # "ok"
        BY <2>3, <3>3 DEF Lives, Kept, Works, Backs
      <3>4. ASSUME Turns(d)
            PROVE  FALSE
        BY <1>3, <3>4 DEF Turns
      <3>5. ASSUME Scans(d) \/ Finishes(d) \/ Direct(d)
            PROVE  status'[d].last # "ok"
        <4>1. ~Direct(d)
          BY ProcAssumption DEF Direct
        <4>2. CASE Scans(d)
          BY <2>3, <4>2 DEF Scans
        <4>3. CASE Finishes(d)
          BY <1>1, <2>3, <4>3 DEF Finishes
        <4>4. QED
          BY <3>5, <4>1, <4>2, <4>3
      <3>6. QED
        BY <1>1, <3>1, <3>2, <3>3, <3>4, <3>5, Moves
    <2>4. QED
      BY <2>1, <2>2, <2>3 DEF Owed
  <1>4. QED
    BY <1>2, <1>3

LEMMA SimulateChange ==
    ASSUME Types, Change
    PROVE  Service!Next
  <1>1. changes' = changes + 1 /\ synced' = synced /\ PassIn(work') = PassIn(work)
    BY DEF Change
  <1>2. Owed'
    BY DEF Change, procs, Owed, Asked, Serving
  <1>3. QED
    BY <1>1, <1>2, AsChange

LEMMA SimulateEnd ==
    ASSUME Types, Locks, Guarded, Covering, [Next]_vars, NEW p \in Proc, PassEnds(p)
    PROVE  Service!Next
  <1>1. PICK L : work \in [Proc -> Pass(L)]
    BY DEF Types, Typed
  <1>2. /\ work[p].saw \in Nat /\ synced \in Nat /\ synced <= work[p].saw /\ work[p].saw <= changes
        /\ changes \in Nat /\ \A d \in Daemons : d \in Proc /\ life \in [Proc -> Places]
    BY <1>1 DEF Types, TypeOK, Typed, Places, Pass, PassEnds, Covering, Proc
  <1>3. InPass(p) /\ Holding(p)
    BY DEF PassEnds, InPass, Guarded
  <1>4. PassIn(work) = [at |-> "seen", saw |-> work[p].saw]
    BY <1>3, OnePass DEF PassEnds, Standing
  <1>5. synced' = work[p].saw
    <2>1. Max({synced, work[p].saw}) \in {synced, work[p].saw}
          /\ work[p].saw <= Max({synced, work[p].saw})
      BY <1>2, MaxOfTwo
    <2>2. QED
      BY <1>2, <2>1 DEF PassEnds
  <1>6. Record(p, "ok")
    BY DEF PassEnds
  <1>7. /\ \A q \in Proc \ {p} : work'[q] = work[q]
        /\ work'[p].at \in {"ok", "gone"}
        /\ \A d \in Daemons : life'[d] = "serving" => life[d] = "serving"
    <2>1. CASE p \in Daemons
      <3>1. life' = life /\ work' = [work EXCEPT ![p].at = "ok"]
        BY <1>6, <2>1 DEF Record
      <3>2. work'[p].at = "ok"
        BY <1>1, <3>1 DEF Pass
      <3>3. QED
        BY <1>1, <3>1, <3>2
    <2>2. CASE p \notin Daemons
      BY <1>1, <1>2, <1>6, <2>2 DEF Record, Gone, Idle
    <2>3. QED
      BY <2>1, <2>2
  <1>8. PassIn(work') = NoPass
    <2>1. \A q \in Proc \ {p} : Standing(work[q]) = NoPass
      BY <1>3, OneHolder DEF Standing, InPass, Guarded
    <2>2. \A q \in Proc : Standing(work'[q]) = NoPass
      BY <1>7, <2>1 DEF Standing
    <2>3. QED
      BY <2>2, NoPassIn
  <1>9. CASE work[p].saw = changes
    BY <1>4, <1>5, <1>8, <1>9, AsDone DEF PassEnds
  <1>10. CASE work[p].saw < changes
    <2>1. Owed'
      <3> SUFFICES ASSUME NEW d \in Daemons, life'[d] = "serving"
                   PROVE  Asked(d)'
        BY DEF Owed
      <3>1. life[d] = "serving" /\ d = p
        BY <1>3, <1>7, ServingHolds, OneHolder
      <3>2. Asked(d)
        BY <1>10, <3>1 DEF Covering, PassEnds
      <3>3. QED
        BY <3>2 DEF PassEnds, Asked, channels
    <2>2. QED
      BY <1>4, <1>5, <1>8, <2>1, AsDone DEF PassEnds
  <1>11. QED
    BY <1>2, <1>9, <1>10

LEMMA SimulateTake ==
    ASSUME Types, Locks, Guarded, [Next]_vars, NEW d \in Daemons, TakeSync(d) \/ TakeResidency(d)
    PROVE  Service!Next
  <1>1. /\ d \in Proc /\ Holding(d)
        /\ work[d].at = "idle" /\ \E n : work' = [work EXCEPT ![d] = [Idle EXCEPT !.at = "started", !.for = n]]
        /\ UNCHANGED <<changes, synced>>
    BY DEF TakeSync, TakeResidency, Take, Holding, Proc, folder
  <1>2. work'[d].at = "started" /\ \A q \in Proc \ {d} : work'[q] = work[q]
    BY <1>1 DEF Types, Typed, Idle
  <1>3. PassIn(work) = NoPass
    BY <1>1, OnePass DEF Standing
  <1>4. PassIn(work') = Begun
    <2>1. \A q \in Proc \ {d} : Standing(work'[q]) = NoPass
      BY <1>1, <1>2, OneHolder DEF Standing, InPass, Guarded
    <2>2. QED
      BY <1>1, <1>2, <2>1, OnePassIn DEF Standing
  <1>5. QED
    BY <1>1, <1>3, <1>4, AsBegin

LEMMA Simulates ==
    ASSUME Consistency, Guarded, Covering, [Next]_vars, Syncs = {}, ~MayLinger
    PROVE  [Service!Next]_(Service!vars)
  <1>1. Types /\ Locks /\ Workers
    BY DEF Consistency
  <1>2. /\ \A d \in Daemons : d \in Proc /\ d \notin Evicts
        /\ \A p \in Evicts : p \in Proc /\ p \notin Daemons
    BY ProcAssumption DEF Proc
  <1>3. CASE Change \/ (\E p \in Proc : PassEnds(p)) \/ \E d \in Daemons : TakeSync(d) \/ TakeResidency(d)
    BY <1>1, <1>3, SimulateChange, SimulateEnd, SimulateTake
  <1>4. CASE /\ ~Change /\ \A p \in Proc : ~PassEnds(p)
             /\ \A d \in Daemons : ~TakeSync(d) /\ ~TakeResidency(d)
    <2>1. UNCHANGED <<changes, synced>>
      BY <1>4, FolderSteps
    <2>2. Owed => Owed'
      BY <1>1, <1>4, OwedKept
    <2>3. ASSUME PassIn(work') = PassIn(work)
          PROVE  [Service!Next]_(Service!vars)
      BY <2>1, <2>2, <2>3, AsStutter
    <2>4. CASE UNCHANGED <<procs, work, backup, status>>
      BY <2>3, <2>4
    <2>5. ASSUME NEW p \in Proc, Alone(p), Standing(work'[p]) = Standing(work[p])
          PROVE  [Service!Next]_(Service!vars)
      BY <1>1, <2>3, <2>5, SamePass
    <2>6. ASSUME NEW d \in Daemons, Alone(d), Lives(d) \/ Works(d) \/ Backs(d)
          PROVE  [Service!Next]_(Service!vars)
      <3>1. Standing(work'[d]) = Standing(work[d])
        <4>1. CASE Lives(d) \/ Backs(d)
          BY <4>1 DEF Lives, Kept, Backs
        <4>2. CASE Works(d)
          BY <1>4, <4>2 DEF Works, WorkerStops, Announce, Report, Standing
        <4>3. QED
          BY <2>6, <4>1, <4>2
      <3>2. QED
        BY <1>2, <2>5, <2>6, <3>1
    <2>7. ASSUME NEW d \in Daemons, Alone(d), Turns(d)
          PROVE  [Service!Next]_(Service!vars)
      <3>1. CASE ~InPass(d)
        <4>1. Standing(work'[d]) = NoPass /\ Standing(work[d]) = NoPass
          BY <2>7, <3>1 DEF Turns, InPass, Standing
        <4>2. QED
          BY <1>2, <2>5, <2>7, <4>1
      <3>2. CASE InPass(d)
        <4>1. Holding(d) /\ ~Serve(d)
          BY <1>1, <1>2, <3>2 DEF Guarded, Serve, Up
        <4>2. Standing(work'[d]) = NoPass /\ Standing(work[d]) # NoPass /\ life'[d] # "serving"
          BY <2>7, <3>2, <4>1 DEF Turns, InPass, Standing, NoPass, Begun
        <4>3. PassIn(work) # NoPass /\ PassIn(work') = NoPass
          BY <1>1, <1>2, <2>7, <4>1, <4>2, OnePass, PassAlone
        <4>4. \A x \in Daemons : life'[x] # "serving"
          BY <1>1, <1>2, <2>7, <4>1, <4>2, ServingHolds, OneHolder DEF Alone
        <4>5. Owed'
          BY <4>4 DEF Owed
        <4>6. QED
          BY <2>1, <4>3, <4>5, AsFail
      <3>3. QED
        BY <3>1, <3>2
    <2>8. ASSUME NEW p \in Proc, Alone(p), Scans(p)
          PROVE  [Service!Next]_(Service!vars)
      <3>1. CASE Look(p)
        <4>1. Holding(p)
          BY <3>1 DEF Look, InPass, Guarded
        <4>2. work'[p].at = "looked" /\ work'[p].saw = changes
          BY <2>8, <3>1 DEF Scans, Look, LogDelta
        <4>3. PassIn(work) = Begun /\ PassIn(work') = [at |-> "seen", saw |-> changes]
          BY <1>1, <2>8, <3>1, <4>1, <4>2, OnePass, PassAlone DEF Look, Standing
        <4>4. Owed' <=> Owed
          BY <3>1 DEF Look, Owed, Asked, procs, channels, folder
        <4>5. QED
          BY <2>1, <4>3, <4>4, AsLook
      <3>2. CASE LogDelta(p) /\ work'[p].at = "logged" /\ work'[p].saw = work[p].saw
        BY <2>5, <2>8, <3>2 DEF LogDelta, Standing
      <3>3. QED
        BY <2>8, <3>1, <3>2 DEF Scans
    <2>9. ASSUME NEW p \in Proc, Alone(p), Finishes(p)
          PROVE  [Service!Next]_(Service!vars)
      <3>1. PassFails(p) /\ work'[p].at \in {"failed", "gone"}
            /\ (p \in Daemons => status'[p].last = "failed" /\ life'[p] = life[p])
        BY <1>4, <2>9 DEF Finishes
      <3>2. Holding(p) /\ Standing(work[p]) # NoPass /\ Standing(work'[p]) = NoPass
        BY <3>1 DEF PassFails, InPass, Guarded, Standing, NoPass, Begun
      <3>3. PassIn(work) # NoPass /\ PassIn(work') = NoPass
        BY <1>1, <2>9, <3>2, OnePass, PassAlone
      <3>4. Owed'
        <4> SUFFICES ASSUME NEW d \in Daemons, life'[d] = "serving"
                     PROVE  status'[d].last # "ok"
          BY DEF Owed
        <4>1. d = p
          BY <1>1, <1>2, <2>9, <3>1, <3>2, ServingHolds, OneHolder DEF Alone
        <4>2. QED
          BY <3>1, <4>1
      <3>5. QED
        BY <2>1, <3>3, <3>4, AsFail
    <2>10. ASSUME NEW p \in Proc, Alone(p), Direct(p)
           PROVE  [Service!Next]_(Service!vars)
      <3>1. p \in Evicts /\ lock = None /\ work'[p].at = "planning"
        BY <2>10 DEF Direct, DirectEvict
      <3>2. \A q \in Proc : Standing(work[q]) = NoPass
        BY <1>1, <3>1, ProcAssumption DEF Locks, Guarded, InPass, Standing
      <3>3. PassIn(work) = NoPass
        BY <3>2, NoPassIn
      <3>4. PassIn(work') = Begun
        <4>1. \A q \in Proc \ {p} : Standing(work'[q]) = NoPass
          BY <2>10, <3>2 DEF Alone
        <4>2. QED
          BY <3>1, <4>1, OnePassIn DEF Standing
      <3>5. QED
        BY <2>1, <3>3, <3>4, AsBegin
    <2>11. QED
      BY <1>1, <1>2, <2>4, <2>6, <2>7, <2>8, <2>9, <2>10, Moves
  <1>5. QED
    BY <1>3, <1>4

LEMMA RefinesInit == Init => Guarded /\ Covering /\ Service!Init
  <1> SUFFICES ASSUME Init
               PROVE  Guarded /\ Covering /\ Service!Init
    OBVIOUS
  <1>1. \A p \in Proc : work[p].at = "gone" /\ Standing(work[p]) = NoPass
    BY DEF Init, Gone, Idle, Standing
  <1>2. Guarded /\ Covering
    BY <1>1 DEF Guarded, InPass, Covering
  <1>3. PassIn(work) = NoPass
    BY <1>1, NoPassIn
  <1>4. Owed
    BY DEF Init, Owed, Proc
  <1>5. QED
    BY <1>2, <1>3, <1>4, OwedIsBoolean DEF Init, Service!Init, Service!NoPass, NoPass

(* The daemon, with its crashes, restarts and coalesced triggers, and the
   direct evictions beside it, implement SyncService (watch.rs: the worker, the
   triggers and the guard; ops.rs).  Two of Daemon's parameters describe what
   the promise does not extend to and are fixed: rfm sync, which takes no lock,
   and tasks of an aborted daemon that outlive its lock. *)
THEOREM DaemonImplementsService ==
    ASSUME Syncs = {}, ~MayLinger
    PROVE  Spec => Implements
  <1> DEFINE Inv == Consistency /\ Guarded /\ Covering
  <1>1. Init => Inv /\ Service!Init
    BY ConsistencyInit, RefinesInit
  <1>2. Inv /\ [Next]_vars => Inv'
    BY ConsistencyNext, GuardedNext, CoveringNext DEF Consistency
  <1>3. Inv /\ [Next]_vars => [Service!Next]_(Service!vars)
    BY Simulates
  <1>4. QED
    BY <1>1, <1>2, <1>3, PTL DEF Spec, Implements, Service!Spec

(* No change is forgotten: at every moment each change is covered by a pass
   that finished, seen or about to be seen by the one that runs, or owed a
   pass.  Only Done counts a pass as finished, and it may stop owing one only
   if its scan saw the latest change (watch.rs, the coalesced triggers). *)
THEOREM ChangesAreNotForgotten ==
    ASSUME Syncs = {}, ~MayLinger
    PROVE  Spec => []Service!NothingForgotten
  <1>1. Service!Init => Service!NothingForgotten
    BY DEF Service!Init, Service!NothingForgotten
  <1>2. Service!NothingForgotten /\ [Service!Next]_(Service!vars) => Service!NothingForgotten'
    <2> SUFFICES ASSUME Service!NothingForgotten, [Service!Next]_(Service!vars)
                 PROVE  Service!NothingForgotten'
      OBVIOUS
    <2>1. CASE Service!Change
      BY <2>1 DEF Service!Change, Service!NothingForgotten
    <2>2. CASE Service!Demand
      BY <2>2 DEF Service!Demand, Service!NothingForgotten
    <2>3. CASE Service!Begin
      BY <2>3 DEF Service!Begin, Service!NothingForgotten
    <2>4. CASE Service!Look
      BY <2>4 DEF Service!Look, Service!Seen, Service!NothingForgotten
    <2>5. CASE Service!Done
      BY <2>5 DEF Service!Done, Service!NothingForgotten
    <2>6. CASE Service!Fail
      BY <2>6 DEF Service!Fail, Service!NothingForgotten
    <2>7. CASE UNCHANGED Service!vars
      BY <2>7 DEF Service!vars, Service!NothingForgotten
    <2>8. QED
      BY <2>1, <2>2, <2>3, <2>4, <2>5, <2>6, <2>7 DEF Service!Next
  <1>3. QED
    BY <1>1, <1>2, DaemonImplementsService, PTL DEF Implements, Service!Spec

-----------------------------------------------------------------------------
(* What the subscriber shows. *)

LEMMA AppendOwn ==
    ASSUME NEW rx \in Seq(Events), NEW C, NEW W, NEW e \in Events, e \in C, e.what \in W
    PROVE  Has(Append(rx, e), C) /\ Says(Append(rx, e), C, W)
  <1>1. /\ Len(rx) \in Nat /\ DOMAIN Append(rx, e) = 1..(Len(rx) + 1)
        /\ Append(rx, e)[Len(rx) + 1] = e
    OBVIOUS
  <1> DEFINE n == Len(rx) + 1
             ry == Append(rx, e)
  <1>2. n \in DOMAIN ry /\ ry[n] = e /\ \A i \in DOMAIN ry : i \in Nat /\ i <= n
    BY <1>1
  <1> HIDE DEF ry, n
  <1>3. Has(ry, C)
    BY <1>2 DEF Has
  <1>4. Says(ry, C, W)
    <2> SUFFICES ASSUME NEW i \in DOMAIN ry, Newest(ry, C, i)
                 PROVE  ry[i].what \in W
      BY DEF Says
    <2>1. n <= i
      BY <1>2 DEF Newest
    <2>2. i = n
      BY <1>1, <1>2, <2>1 DEF n
    <2>3. QED
      BY <1>2, <2>2
  <1>5. QED
    BY <1>3, <1>4 DEF ry

LEMMA AppendOther ==
    ASSUME NEW rx \in Seq(Events), NEW C, NEW W, NEW e \in Events, e \notin C
    PROVE  /\ Has(rx, C) => Has(Append(rx, e), C)
           /\ Says(rx, C, W) => Says(Append(rx, e), C, W)
  <1> DEFINE ry == Append(rx, e)
             n == Len(rx) + 1
  <1>1. /\ DOMAIN rx \subseteq DOMAIN ry /\ \A i \in DOMAIN rx : ry[i] = rx[i]
        /\ DOMAIN ry \subseteq DOMAIN rx \cup {n} /\ ry[n] = e
    OBVIOUS
  <1> HIDE DEF ry, n
  <1>2. \A i \in DOMAIN ry : Newest(ry, C, i) => i \in DOMAIN rx /\ Newest(rx, C, i)
    BY <1>1 DEF Newest
  <1>3. QED
    BY <1>1, <1>2 DEF Has, Says, ry

LEMMA TailEvents ==
    ASSUME NEW rx \in Seq(Events), rx # <<>>, NEW C, NEW W
    PROVE  /\ Tail(rx) \in Seq(Events) /\ Head(rx) \in Events
           /\ Has(rx, C) => Head(rx) \in C \/ Has(Tail(rx), C)
           /\ Says(rx, C, W) => Says(Tail(rx), C, W)
           /\ Says(rx, C, W) /\ Head(rx) \in C /\ ~Has(Tail(rx), C) => Head(rx).what \in W
  <1> DEFINE ry == Tail(rx)
  <1>1. /\ ry \in Seq(Events) /\ Head(rx) \in Events /\ Head(rx) = rx[1]
        /\ Len(ry) = Len(rx) - 1 /\ Len(rx) \in Nat /\ Len(rx) >= 1
        /\ \A i \in 1..(Len(rx) - 1) : ry[i] = rx[i + 1]
    OBVIOUS
  <1> HIDE DEF ry
  <1>2. /\ DOMAIN rx = 1..Len(rx) /\ DOMAIN ry = 1..(Len(rx) - 1)
    BY <1>1
  <1>3. \A i \in DOMAIN rx : i = 1 \/ (i - 1 \in DOMAIN ry /\ ry[i - 1] = rx[i])
    <2> SUFFICES ASSUME NEW i \in DOMAIN rx, i # 1
                 PROVE  i - 1 \in DOMAIN ry /\ ry[i - 1] = rx[i]
      OBVIOUS
    <2>1. i - 1 \in 1..(Len(rx) - 1) /\ (i - 1) + 1 = i
      BY <1>1, <1>2
    <2>2. QED
      BY <1>1, <1>2, <2>1
  <1>4. \A i \in DOMAIN ry : i \in Nat /\ i + 1 \in DOMAIN rx /\ ry[i] = rx[i + 1]
    BY <1>1, <1>2
  <1>5. Has(rx, C) => Head(rx) \in C \/ Has(ry, C)
    BY <1>1, <1>3 DEF Has
  <1>6. ASSUME Says(rx, C, W)
        PROVE  Says(ry, C, W)
    <2> SUFFICES ASSUME NEW i \in DOMAIN ry, Newest(ry, C, i)
                 PROVE  ry[i].what \in W
      BY DEF Says
    <2>1. i + 1 \in DOMAIN rx /\ ry[i] = rx[i + 1] /\ i \in Nat
      BY <1>4
    <2>2. ASSUME NEW j \in DOMAIN rx, rx[j] \in C
          PROVE  j <= i + 1
      <3>1. CASE j = 1
        BY <2>1, <3>1
      <3>2. CASE j - 1 \in DOMAIN ry /\ ry[j - 1] = rx[j]
        <4>1. j - 1 <= i
          BY <2>2, <3>2 DEF Newest
        <4>2. QED
          BY <1>1, <1>2, <2>1, <4>1
      <3>3. QED
        BY <1>3, <3>1, <3>2
    <2>3. Newest(rx, C, i + 1)
      BY <2>1, <2>2 DEF Newest
    <2>4. QED
      BY <1>6, <2>1, <2>3 DEF Says
  <1>7. ASSUME Says(rx, C, W), Head(rx) \in C, ~Has(ry, C)
        PROVE  Head(rx).what \in W
    <2>1. 1 \in DOMAIN rx
      BY <1>1, <1>2
    <2>2. \A j \in DOMAIN rx : rx[j] \in C => j = 1
      BY <1>3, <1>7 DEF Has
    <2>3. Newest(rx, C, 1)
      BY <1>1, <1>7, <2>1, <2>2 DEF Newest
    <2>4. QED
      BY <1>1, <1>7, <2>1, <2>3 DEF Says
  <1>8. QED
    BY <1>1, <1>5, <1>6, <1>7 DEF ry

(* An event sent, and one read, by the newest event and the view. *)
What(stage) == IF stage \in Announced THEN {"started"} ELSE {"ok", "failed"}

LEMMA SentHas ==
    ASSUME NEW t \in Tray, NEW e \in Events, Len(t.rx) <= RingCap, NEW C, NEW W
    PROVE  /\ e \in C /\ e.what \in W => Has(Sent(t, e).rx, C) /\ Says(Sent(t, e).rx, C, W)
           /\ e \notin C /\ Says(t.rx, C, W) => Says(Sent(t, e).rx, C, W)
           /\ e \notin C /\ Has(t.rx, C) =>
                  \/ Has(Sent(t, e).rx, C)
                  \/ t.rx # <<>> /\ Head(t.rx) \in C /\ Head(t.rx).kind \in Sent(t, e).skipped
           /\ t.skipped \subseteq Sent(t, e).skipped
  <1>1. t.rx \in Seq(Events)
    BY DEF Tray
  <1>2. CASE Sent(t, e).rx = Append(t.rx, e) /\ Sent(t, e).skipped = t.skipped
    BY <1>1, <1>2, AppendOwn, AppendOther
  <1>3. CASE /\ t.rx # <<>> /\ Sent(t, e).rx = Append(Tail(t.rx), e)
             /\ Sent(t, e).skipped = t.skipped \cup {Head(t.rx).kind}
    <2>1. /\ Tail(t.rx) \in Seq(Events)
          /\ Has(t.rx, C) => Head(t.rx) \in C \/ Has(Tail(t.rx), C)
          /\ Says(t.rx, C, W) => Says(Tail(t.rx), C, W)
      BY <1>1, <1>3, TailEvents
    <2> DEFINE ry == Tail(t.rx)
    <2>2. ry \in Seq(Events) /\ Sent(t, e).rx = Append(ry, e)
      BY <1>3, <2>1
    <2> HIDE DEF ry
    <2>3. e \in C /\ e.what \in W => /\ Has(Append(ry, e), C)
                                   /\ Says(Append(ry, e), C, W)
      BY <2>2, AppendOwn
    <2>4. e \notin C => /\ (Has(ry, C) => Has(Append(ry, e), C))
                       /\ (Says(ry, C, W) => Says(Append(ry, e), C, W))
      BY <2>2, AppendOther
    <2>5. /\ Has(t.rx, C) => Head(t.rx) \in C \/ Has(ry, C)
          /\ Says(t.rx, C, W) => Says(ry, C, W)
      BY <2>1 DEF ry
    <2>6. /\ e \in C /\ e.what \in W => Has(Sent(t, e).rx, C) /\ Says(Sent(t, e).rx, C, W)
          /\ e \notin C /\ Says(t.rx, C, W) => Says(Sent(t, e).rx, C, W)
          /\ e \notin C /\ Has(t.rx, C) => Has(Sent(t, e).rx, C) \/ Head(t.rx) \in C
      BY <2>2, <2>3, <2>4, <2>5, Zenon
    <2>7. QED
      BY <1>3, <2>6
  <1>4. QED
    BY <1>2, <1>3, SentFields

LEMMA SentOwn ==
    ASSUME NEW t \in Tray, NEW e \in Events, Len(t.rx) <= RingCap, NEW stage, NEW s,
           e.what \in What(stage)
    PROVE  Follows(Sent(t, e), e.kind, stage, s)
  <1>1. e \in Of(e.kind)
    BY DEF Of
  <1>2. Has(Sent(t, e).rx, Of(e.kind)) /\ Says(Sent(t, e).rx, Of(e.kind), What(stage))
    BY <1>1, SentHas
  <1>3. QED
    BY <1>2 DEF Follows, What

LEMMA SentOther ==
    ASSUME NEW t \in Tray, NEW e \in Events, Len(t.rx) <= RingCap, NEW k, k # e.kind,
           NEW stage, NEW s, Follows(t, k, stage, s)
    PROVE  Follows(Sent(t, e), k, stage, s)
  <1>1. e \notin Of(k) /\ \A x \in Of(k) : x.kind = k
    BY DEF Of
  <1>2. Says(Sent(t, e).rx, Of(k), What(stage))
    BY <1>1, SentHas DEF Follows, What
  <1>3. Has(t.rx, Of(k)) => Has(Sent(t, e).rx, Of(k)) \/ k \in Sent(t, e).skipped
    BY <1>1, SentHas
  <1>4. Sent(t, e).conn = t.conn /\ Sent(t, e).view = t.view /\ t.skipped \subseteq Sent(t, e).skipped
    BY SentFields, SentHas
  <1>5. QED
    BY <1>2, <1>3, <1>4 DEF Follows, What

LEMMA SentEnd ==
    ASSUME NEW t \in Tray, NEW e \in Events, Len(t.rx) <= RingCap, NEW stage, NEW s,
           IsEnd(e), e.what = s.last
    PROVE  Recalls(Sent(t, e), stage, s)
  <1>1. e \in EndEvents /\ e.what \in {s.last}
    BY DEF EndEvents
  <1>2. QED
    BY <1>1, SentHas DEF Recalls

LEMMA SentNoEnd ==
    ASSUME NEW t \in Tray, NEW e \in Events, Len(t.rx) <= RingCap, NEW stage, NEW s,
           ~IsEnd(e), Recalls(t, stage, s)
    PROVE  Recalls(Sent(t, e), stage, s)
  <1>1. e \notin EndEvents /\ \A x \in EndEvents : x.kind = "sync"
    BY DEF EndEvents, IsEnd
  <1>2. Says(t.rx, EndEvents, {s.last}) => Says(Sent(t, e).rx, EndEvents, {s.last})
    BY <1>1, SentHas
  <1>3. Has(t.rx, EndEvents) => Has(Sent(t, e).rx, EndEvents) \/ "sync" \in Sent(t, e).skipped
    BY <1>1, SentHas
  <1>4. Sent(t, e).conn = t.conn /\ Sent(t, e).view = t.view /\ t.skipped \subseteq Sent(t, e).skipped
    BY SentFields, SentHas
  <1>5. QED
    BY <1>2, <1>3, <1>4 DEF Recalls

LEMMA ReadFollows ==
    ASSUME NEW t \in Tray, t.rx # <<>>, NEW k \in Kinds, NEW stage, NEW s,
           Busy(s, k) \in BOOLEAN, stage \in Between \/ (Busy(s, k) <=> stage \in Announced),
           Follows(t, k, stage, s)
    PROVE  Follows(Read(t), k, stage, s)
  <1> DEFINE e == Head(t.rx)
             rx == Tail(t.rx)
  <1>1. t.rx \in Seq(Events) /\ t.view \in Shown
    BY DEF Tray
  <1>2. /\ rx \in Seq(Events) /\ e \in Events
        /\ Has(t.rx, Of(k)) => e \in Of(k) \/ Has(rx, Of(k))
        /\ Says(t.rx, Of(k), What(stage)) => Says(rx, Of(k), What(stage))
        /\ Says(t.rx, Of(k), What(stage)) /\ e \in Of(k) /\ ~Has(rx, Of(k)) => e.what \in What(stage)
    BY <1>1, TailEvents
  <1>3. /\ Read(t).conn = t.conn /\ Read(t).rx = rx /\ Read(t).view = apply_event(t.view, e)
        /\ k \in t.skipped => k \in Read(t).skipped \/ e.kind = k
    BY ReadFields
  <1> HIDE DEF e, rx
  <1>4. /\ e.kind = k => Busy(Read(t).view, k) = (e.what = "started")
        /\ e.kind # k => Busy(Read(t).view, k) = Busy(t.view, k)
    BY <1>1, <1>2, <1>3, AppliedEvent
  <1>5. Says(t.rx, Of(k), What(stage))
    BY DEF Follows, What
  <1>6. Says(rx, Of(k), What(stage))
    BY <1>2, <1>5
  <1>7. CASE e.kind = k /\ ~Has(rx, Of(k)) /\ stage \notin Between
    <2>1. e.what \in What(stage)
      BY <1>2, <1>5, <1>7 DEF Of
    <2>2. (e.what = "started") <=> stage \in Announced
      BY <2>1 DEF What
    <2>3. Busy(Read(t).view, k) = Busy(s, k)
      BY <1>4, <1>7, <2>2
    <2>4. QED
      BY <1>3, <1>6, <2>3 DEF Follows, What
  <1>8. CASE e.kind # k
    <2>1. e \notin Of(k)
      BY <1>8 DEF Of
    <2>2. QED
      BY <1>2, <1>3, <1>4, <1>6, <1>8, <2>1 DEF Follows, What
  <1>9. CASE Has(rx, Of(k)) \/ stage \in Between
    BY <1>3, <1>6, <1>9 DEF Follows, What
  <1>10. QED
    BY <1>7, <1>8, <1>9

LEMMA ReadRecalls ==
    ASSUME NEW t \in Tray, t.rx # <<>>, NEW stage, NEW s, Recalls(t, stage, s)
    PROVE  Recalls(Read(t), stage, s)
  <1> DEFINE e == Head(t.rx)
             rx == Tail(t.rx)
  <1>1. t.rx \in Seq(Events) /\ t.view \in Shown
    BY DEF Tray
  <1>2. /\ rx \in Seq(Events) /\ e \in Events
        /\ Has(t.rx, EndEvents) => e \in EndEvents \/ Has(rx, EndEvents)
        /\ Says(t.rx, EndEvents, {s.last}) => Says(rx, EndEvents, {s.last})
        /\ Says(t.rx, EndEvents, {s.last}) /\ e \in EndEvents /\ ~Has(rx, EndEvents)
              => e.what = s.last
    BY <1>1, TailEvents
  <1>3. /\ Read(t).conn = t.conn /\ Read(t).rx = rx /\ Read(t).view = apply_event(t.view, e)
        /\ "sync" \in t.skipped => "sync" \in Read(t).skipped \/ (e.kind = "sync" /\ e.what # "started")
    BY ReadFields
  <1> HIDE DEF e, rx
  <1>4. Read(t).view.last = IF IsEnd(e) THEN e.what ELSE t.view.last
    <2>1. apply_event(t.view, e).last = IF IsEnd(e) THEN e.what ELSE t.view.last
      BY <1>1, <1>2, AppliedEvent
    <2>2. QED
      BY <1>3, <2>1
  <1>5. e \in EndEvents <=> IsEnd(e)
    BY <1>2 DEF EndEvents
  <1>6. "sync" \in t.skipped => "sync" \in Read(t).skipped \/ IsEnd(e)
    BY <1>3 DEF IsEnd
  <1>7. QED
    BY <1>2, <1>3, <1>4, <1>5, <1>6 DEF Recalls

(* What a daemon's step leaves of the subscriber's view of it. *)
Mirrors(t, stage, bstage, s) ==
    Follows(t, "sync", stage, s) /\ Follows(t, "backup", bstage, s) /\ Recalls(t, stage, s)

Announces(d) == Announce(d) \/ Report(d) \/ AnnounceBackup(d) \/ ReportBackup(d)

LEMMA FollowsOn ==
    ASSUME NEW t, NEW k \in Kinds, NEW stage, NEW s, NEW stage2, NEW s2, Follows(t, k, stage, s),
           stage2 \in Announced <=> stage \in Announced,
           stage2 \in Between \/ (stage \notin Between /\ Busy(s2, k) = Busy(s, k))
    PROVE  Follows(t, k, stage2, s2)
  BY DEF Follows

LEMMA QuietMirrors ==
    ASSUME Types, [Next]_vars, NEW d \in Daemons, life[d] \in Up, life'[d] \in Up,
           ~Announces(d), NEW t, Mirrors(t, work[d].at, backup[d], status[d])
    PROVE  Mirrors(t, work'[d].at, backup'[d], status'[d])
  <1>1. d \in Proc /\ \A x \in Daemons : x \in Proc
    BY DEF Proc
  <1>2. /\ Follows(t, "sync", work[d].at, status[d]) /\ Recalls(t, work[d].at, status[d])
        /\ Follows(t, "backup", backup[d], status[d])
    BY DEF Mirrors
  <1>3. /\ "sync" \in Kinds /\ "backup" \in Kinds
        /\ Busy(status[d], "sync") = status[d].syncing /\ Busy(status[d], "backup") = status[d].backing_up
        /\ Busy(status'[d], "sync") = status'[d].syncing
        /\ Busy(status'[d], "backup") = status'[d].backing_up
    BY DEF Kinds, Busy
  <1>4. ASSUME backup'[d] = backup[d], status'[d].backing_up = status[d].backing_up
        PROVE  Follows(t, "backup", backup'[d], status'[d])
    BY <1>2, <1>3, <1>4 DEF Follows
  <1>5. ASSUME work'[d].at = work[d].at, status'[d].syncing = status[d].syncing,
               status'[d].last = status[d].last
        PROVE  Follows(t, "sync", work'[d].at, status'[d]) /\ Recalls(t, work'[d].at, status'[d])
    BY <1>2, <1>3, <1>5 DEF Follows, Recalls
  <1>6. CASE UNCHANGED <<procs, work, backup, status>>
    BY <1>2, <1>6 DEF Mirrors
  <1>7. ASSUME NEW p \in Proc, p # d, Alone(p)
        PROVE  Mirrors(t, work'[d].at, backup'[d], status'[d])
    BY <1>1, <1>2, <1>7 DEF Alone, Mirrors
  <1>8. ASSUME Lives(d)
        PROVE  Mirrors(t, work'[d].at, backup'[d], status'[d])
    BY <1>2, <1>8 DEF Lives, Kept, Mirrors
  <1>9. ASSUME Turns(d)
        PROVE  FALSE
    BY <1>9 DEF Turns, Serve, Up
  <1>10. ASSUME Works(d)
         PROVE  Mirrors(t, work'[d].at, backup'[d], status'[d])
    <2>1. /\ Follows(t, "backup", backup'[d], status'[d])
          /\ status'[d].last = status[d].last
      BY <1>4, <1>10 DEF Works
    <2>2. CASE work[d].at = "idle" /\ work'[d].at = "started"
      <3>1. Follows(t, "sync", work'[d].at, status'[d])
        BY <1>2, <1>3, <2>2, FollowsOn DEF Announced, Between
      <3>2. Recalls(t, work'[d].at, status'[d])
        BY <1>2, <2>1, <2>2 DEF Recalls
      <3>3. QED
        BY <2>1, <3>1, <3>2 DEF Mirrors
    <2>3. CASE work[d].at = "idle" /\ work'[d].at = "gone" /\ status'[d].syncing = status[d].syncing
      <3>1. Follows(t, "sync", work'[d].at, status'[d])
        BY <1>2, <1>3, <2>3, FollowsOn DEF Announced, Between
      <3>2. Recalls(t, work'[d].at, status'[d])
        BY <1>2, <2>1, <2>3 DEF Recalls
      <3>3. QED
        BY <2>1, <3>1, <3>2 DEF Mirrors
    <2>4. QED
      BY <1>10, <2>2, <2>3 DEF Works, Announces, TakeResidency, TakeSync, Take, WorkerStops
  <1>11. ASSUME Backs(d)
         PROVE  Mirrors(t, work'[d].at, backup'[d], status'[d])
    <2>1. Follows(t, "sync", work'[d].at, status'[d]) /\ Recalls(t, work'[d].at, status'[d])
      BY <1>5, <1>11 DEF Backs
    <2>2. \/ /\ backup[d] \in {"idle", "scheduled", "manual"} /\ backup'[d] \in {"idle", "scheduled", "manual", "gone"}
             /\ status'[d].backing_up = status[d].backing_up
          \/ backup[d] \in {"scheduled", "manual"} /\ backup'[d] = "started"
          \/ backup[d] = "running" /\ backup'[d] \in {"ok", "failed"}
      BY <1>11 DEF Backs, Announces, TakeBackup, BackupStops, SkipBackup, StartBackup, EndBackup
    <2>3. Follows(t, "backup", backup'[d], status'[d])
      BY <1>2, <1>3, <2>2, FollowsOn DEF Announced, Between
    <2>4. QED
      BY <2>1, <2>3 DEF Mirrors
  <1>12. ASSUME Scans(d)
         PROVE  Mirrors(t, work'[d].at, backup'[d], status'[d])
    <2>1. Follows(t, "backup", backup'[d], status'[d]) /\ status'[d] = status[d]
      BY <1>4, <1>12 DEF Scans
    <2>2. work[d].at \in {"planning", "looked"} /\ work'[d].at \in {"looked", "logged"}
      BY <1>12 DEF Scans, Look, LogDelta
    <2>3. Follows(t, "sync", work'[d].at, status'[d])
      BY <1>2, <1>3, <2>1, <2>2, FollowsOn DEF Announced, Between
    <2>4. Recalls(t, work'[d].at, status'[d])
      BY <1>2, <2>1, <2>2 DEF Recalls
    <2>5. QED
      BY <2>1, <2>3, <2>4 DEF Mirrors
  <1>13. ASSUME Finishes(d)
         PROVE  Mirrors(t, work'[d].at, backup'[d], status'[d])
    <2>1. Follows(t, "backup", backup'[d], status'[d])
      BY <1>4, <1>13 DEF Finishes
    <2>2. work[d].at \in {"planning", "looked", "logged"} /\ work'[d].at \in {"ok", "failed"}
      BY <1>13 DEF Finishes, PassEnds, PassFails
    <2>3. Follows(t, "sync", work'[d].at, status'[d])
      BY <1>2, <1>3, <2>2, FollowsOn DEF Announced, Between
    <2>4. Recalls(t, work'[d].at, status'[d])
      BY <2>2 DEF Recalls
    <2>5. QED
      BY <2>1, <2>3, <2>4 DEF Mirrors
  <1>14. ~Direct(d)
    BY ProcAssumption DEF Direct
  <1>15. QED
    BY <1>1, <1>6, <1>7, <1>8, <1>9, <1>10, <1>11, <1>12, <1>13, <1>14, Moves

LEMMA PublishForms ==
    ASSUME Types, NEW d \in Daemons, tray.to = d
    PROVE  /\ Announce(d) => tray' = Sent(tray, Event("sync", "started"))
           /\ Report(d) => tray' = Sent(tray, Event("sync", work[d].at))
           /\ AnnounceBackup(d) => tray' = Sent(tray, Event("backup", "started"))
           /\ ReportBackup(d) => tray' = Sent(tray, Event("backup", backup[d]))
  <1>1. ASSUME NEW e, Publish(d, e)
        PROVE  tray' = Sent(tray, e)
    BY <1>1 DEF Publish, Sent, Types, Typed, Tray
  <1>2. QED
    BY <1>1 DEF Announce, Report, AnnounceBackup, ReportBackup

LEMMA SpokenMirrors ==
    ASSUME Types, Statuses, NEW d \in Daemons, life[d] \in Up, tray.to = d, Announces(d),
           Mirrors(tray, work[d].at, backup[d], status[d])
    PROVE  Mirrors(tray', work'[d].at, backup'[d], status'[d])
  <1>1. /\ tray \in Tray /\ Len(tray.rx) <= RingCap /\ d \in Proc
        /\ \E L : work \in [Proc -> Pass(L)]
        /\ backup \in [Daemons -> BackupStages]
    BY DEF Types, TypeOK, Typed, Proc
  <1>2. ASSUME NEW k \in Kinds, NEW what \in {"started", "ok", "failed"}
        PROVE  LET e == Event(k, what) IN
               /\ e \in Events /\ e.kind = k /\ e.what = what
               /\ IsEnd(e) <=> k = "sync" /\ what # "started"
    BY DEF Event, Events, IsEnd
  <1>3. /\ Follows(tray, "sync", work[d].at, status[d]) /\ Recalls(tray, work[d].at, status[d])
        /\ Follows(tray, "backup", backup[d], status[d]) /\ "sync" \in Kinds /\ "backup" \in Kinds
    BY DEF Mirrors, Kinds
  <1>4. CASE Announce(d)
    <2>1. /\ work'[d].at = "planning" /\ backup'[d] = backup[d] /\ status'[d] = status[d]
          /\ work[d].at = "started"
      BY <1>1, <1>4 DEF Announce, Pass
    <2> DEFINE e == Event("sync", "started")
    <2>2. tray' = Sent(tray, e)
      BY <1>4, PublishForms
    <2>3. e \in Events /\ e.kind = "sync" /\ e.what = "started" /\ ~IsEnd(e)
      BY <1>2, <1>3
    <2> HIDE DEF e
    <2>4. Follows(tray', "sync", "planning", status[d])
      <3>1. e.what \in What("planning")
        BY <2>3 DEF What, Announced
      <3>2. QED
        BY <1>1, <2>2, <2>3, <3>1, SentOwn
    <2>5. Follows(tray', "backup", backup[d], status[d])
      BY <1>1, <1>3, <2>2, <2>3, SentOther
    <2>6. Recalls(tray', "planning", status[d])
      <3>1. Recalls(tray, "planning", status[d])
        BY <1>3, <2>1 DEF Recalls
      <3>2. QED
        BY <1>1, <2>2, <2>3, <3>1, SentNoEnd
    <2>7. QED
      BY <2>1, <2>4, <2>5, <2>6 DEF Mirrors
  <1>5. CASE Report(d)
    <2>1. /\ work'[d].at = "idle" /\ backup'[d] = backup[d] /\ status'[d] = status[d]
          /\ work[d].at \in {"ok", "failed"} /\ status[d].last = work[d].at
      BY <1>1, <1>5 DEF Report, Idle, Statuses
    <2> DEFINE e == Event("sync", work[d].at)
    <2>2. tray' = Sent(tray, e)
      BY <1>5, PublishForms
    <2>3. e \in Events /\ e.kind = "sync" /\ e.what = work[d].at /\ IsEnd(e)
      BY <1>2, <1>3, <2>1
    <2> HIDE DEF e
    <2>4. Follows(tray', "sync", "idle", status[d])
      <3>1. e.what \in What("idle")
        BY <2>1, <2>3 DEF What, Announced
      <3>2. QED
        BY <1>1, <2>2, <2>3, <3>1, SentOwn
    <2>5. Follows(tray', "backup", backup[d], status[d])
      BY <1>1, <1>3, <2>2, <2>3, SentOther
    <2>6. Recalls(tray', "idle", status[d])
      BY <1>1, <2>1, <2>2, <2>3, SentEnd
    <2>7. QED
      BY <2>1, <2>4, <2>5, <2>6 DEF Mirrors
  <1>6. CASE AnnounceBackup(d) \/ ReportBackup(d)
    <2>1. PICK e \in Events : /\ e.kind = "backup" /\ ~IsEnd(e) /\ tray' = Sent(tray, e)
                              /\ \/ e.what = "started" /\ backup'[d] = "running"
                                 \/ e.what \in {"ok", "failed"} /\ backup'[d] = "idle"
      <3>1. CASE AnnounceBackup(d)
        <4>1. tray' = Sent(tray, Event("backup", "started")) /\ backup'[d] = "running"
          BY <1>1, <3>1, PublishForms DEF AnnounceBackup
        <4>2. QED
          BY <1>2, <1>3, <4>1
      <3>2. CASE ReportBackup(d)
        <4>1. /\ tray' = Sent(tray, Event("backup", backup[d])) /\ backup'[d] = "idle"
              /\ backup[d] \in {"ok", "failed"}
          BY <1>1, <3>2, PublishForms DEF ReportBackup
        <4>2. QED
          BY <1>2, <1>3, <4>1
      <3>3. QED
        BY <1>6, <3>1, <3>2
    <2>2. work'[d] = work[d] /\ status'[d] = status[d]
      BY <1>6 DEF AnnounceBackup, ReportBackup
    <2>3. Follows(tray', "backup", backup'[d], status[d])
      <3>1. e.what \in What(backup'[d])
        BY <2>1 DEF What, Announced
      <3>2. QED
        BY <1>1, <2>1, <3>1, SentOwn
    <2>4. Follows(tray', "sync", work[d].at, status[d])
      BY <1>1, <1>3, <2>1, SentOther
    <2>5. Recalls(tray', work[d].at, status[d])
      BY <1>1, <1>3, <2>1, SentNoEnd
    <2>6. QED
      BY <2>2, <2>3, <2>4, <2>5 DEF Mirrors
  <1>7. QED
    BY <1>4, <1>5, <1>6 DEF Announces

LEMMA SubscriberNext ==
    ASSUME Types, Workers, Statuses, Subscriber, [Next]_vars
    PROVE  Subscriber'
  <1>1. /\ tray \in Tray /\ None \notin Daemons /\ tray.rx \in Seq(Events)
        /\ status \in [Daemons -> Shown] /\ \A x \in Daemons : x \in Proc
    BY ProcAssumption DEF Types, TypeOK, Typed, Proc, Tray, Shown
  <1>2. ASSUME NEW d \in Daemons
        PROVE  LET a == [tray EXCEPT !.conn = "subscribed", !.to = d]
                   b == [tray EXCEPT !.conn = "connected", !.view = status[d]]
               IN  /\ a.conn = "subscribed" /\ a.to = d /\ a.rx = tray.rx /\ a.skipped = tray.skipped
                   /\ b.conn = "connected" /\ b.to = tray.to /\ b.rx = tray.rx
                   /\ b.skipped = tray.skipped /\ b.view = status[d]
    BY <1>1 DEF Tray
  <1>3. ASSUME NEW d \in Daemons,
                \/ Subscribe(d) /\ tray' = [tray EXCEPT !.conn = "subscribed", !.to = d]
                \/ Hello(d) /\ tray' = [tray EXCEPT !.conn = "connected", !.view = status[d]]
                \/ Receive(d) /\ tray' = Read(tray)
         PROVE  /\ tray'.to = d /\ tray'.conn \in {"subscribed", "connected"}
                /\ Subscribe(d) \/ tray.to = d
    <2>1. CASE Subscribe(d) /\ tray' = [tray EXCEPT !.conn = "subscribed", !.to = d]
      BY <1>2, <2>1
    <2>2. CASE Hello(d) /\ tray' = [tray EXCEPT !.conn = "connected", !.view = status[d]]
      <3>1. tray.to = d
        BY <2>2 DEF Hello
      <3>2. QED
        BY <1>2, <2>2, <3>1
    <2>3. CASE Receive(d) /\ tray' = Read(tray)
      <3>1. tray.to = d /\ tray.conn = "connected" /\ tray.rx # <<>>
        BY <2>3 DEF Receive
      <3>2. Read(tray).to = d /\ Read(tray).conn = "connected"
        BY <1>1, <3>1, ReadFields
      <3>3. QED
        BY <2>3, <3>1, <3>2
    <2>4. QED
      BY <1>3, <2>1, <2>2, <2>3
  <1>4. /\ tray.to = None => tray.rx = <<>> /\ tray.skipped = {}
        /\ tray.to # None => tray.conn \in {"subscribed", "connected"}
    BY DEF Subscriber
  <1>5. /\ tray'.to = None => tray'.rx = <<>> /\ tray'.skipped = {}
        /\ tray'.to # None => tray'.conn \in {"subscribed", "connected"}
    <2>1. CASE UNCHANGED tray
      BY <1>4, <2>1
    <2>2. ASSUME NEW d \in Daemons, tray' = IF tray.to = d THEN Lost(tray) ELSE tray
          PROVE  /\ tray'.to = None => tray'.rx = <<>> /\ tray'.skipped = {}
                 /\ tray'.to # None => tray'.conn \in {"subscribed", "connected"}
      BY <1>1, <1>4, <2>2, LostFields
    <2>3. ASSUME NEW d \in Daemons, NEW e \in Events,
                 tray' = IF tray.to = d THEN Sent(tray, e) ELSE tray
          PROVE  /\ tray'.to = None => tray'.rx = <<>> /\ tray'.skipped = {}
                 /\ tray'.to # None => tray'.conn \in {"subscribed", "connected"}
      <3>1. CASE tray.to = d
        <4>1. tray'.to = tray.to /\ tray'.conn = tray.conn
          BY <1>1, <2>3, <3>1, SentFields DEF Types, TypeOK
        <4>2. QED
          BY <1>1, <1>4, <3>1, <4>1
      <3>2. QED
        BY <1>4, <2>3, <3>1
    <2>4. ASSUME NEW d \in Daemons,
                 \/ Subscribe(d) /\ tray' = [tray EXCEPT !.conn = "subscribed", !.to = d]
                 \/ Hello(d) /\ tray' = [tray EXCEPT !.conn = "connected", !.view = status[d]]
                 \/ Receive(d) /\ tray' = Read(tray)
          PROVE  /\ tray'.to = None => tray'.rx = <<>> /\ tray'.skipped = {}
                 /\ tray'.to # None => tray'.conn \in {"subscribed", "connected"}
      <3>1. tray'.to = d /\ tray'.conn \in {"subscribed", "connected"}
        BY <1>3, <2>4
      <3>2. QED
        BY <1>1, <3>1
    <2>5. QED
      BY <2>1, <2>2, <2>3, <2>4, TrayStepForms
  <1>6. ASSUME NEW d \in Daemons, tray'.to = d
        PROVE  /\ life'[d] \notin Unborn
               /\ life'[d] \in Up => Mirrors(tray', work'[d].at, backup'[d], status'[d])
    <2>1. CASE Subscribe(d)
      <3>1. /\ life[d] = "serving" /\ life' = life /\ tray.to = None
            /\ tray' = [tray EXCEPT !.conn = "subscribed", !.to = d]
        BY <1>4, <2>1 DEF Subscribe, procs
      <3>2. tray'.rx = <<>> /\ tray'.conn = "subscribed"
        BY <1>2, <1>4, <3>1
      <3>3. Mirrors(tray', work'[d].at, backup'[d], status'[d])
        BY <3>2 DEF Mirrors, Follows, Recalls, Says
      <3>4. QED
        BY <3>1, <3>3 DEF Unborn
    <2>2. CASE tray.to = d
      <3>1. life[d] \notin Unborn /\ (life[d] \in Up => Mirrors(tray, work[d].at, backup[d], status[d]))
        BY <2>2 DEF Subscriber, Mirrors
      <3>2. life'[d] \notin Unborn
        BY <3>1, LifeGoesOn
      <3> SUFFICES ASSUME life'[d] \in Up
                   PROVE  Mirrors(tray', work'[d].at, backup'[d], status'[d])
        BY <3>2
      <3>3. life[d] \in Up
        BY <3>1, LifeGoesOn DEF Serve, Unborn
      <3>4. CASE Announces(d)
        BY <2>2, <3>1, <3>3, <3>4, SpokenMirrors
      <3>5. CASE ~Announces(d)
        <4>1. ASSUME tray' = tray
              PROVE  Mirrors(tray', work'[d].at, backup'[d], status'[d])
          BY <3>1, <3>3, <3>5, <4>1, QuietMirrors
        <4>2. ASSUME NEW x \in Daemons, Down(x) \/ Crash(x),
                     tray' = IF tray.to = x THEN Lost(tray) ELSE tray
              PROVE  Mirrors(tray', work'[d].at, backup'[d], status'[d])
          <5>1. x # d
            BY <1>1, <2>2, <1>6, <4>2, LostFields
          <5>2. QED
            BY <2>2, <4>1, <4>2, <5>1
        <4>3. ASSUME NEW x \in Daemons, NEW e \in Events, Announces(x),
                     tray' = IF tray.to = x THEN Sent(tray, e) ELSE tray
              PROVE  Mirrors(tray', work'[d].at, backup'[d], status'[d])
          BY <2>2, <3>5, <4>1, <4>3
        <4>4. ASSUME NEW x \in Daemons, Hello(x),
                     tray' = [tray EXCEPT !.conn = "connected", !.view = status[x]]
              PROVE  Mirrors(tray', work'[d].at, backup'[d], status'[d])
          <5>1. x = d /\ work' = work /\ backup' = backup /\ status' = status
            BY <2>2, <4>4 DEF Hello
          <5>2. tray'.rx = tray.rx /\ tray'.view = status[d]
            BY <1>2, <4>4, <5>1
          <5>3. QED
            BY <3>1, <3>3, <5>1, <5>2 DEF Mirrors, Follows, Recalls
        <4>5. ASSUME NEW x \in Daemons, Receive(x), tray' = Read(tray)
              PROVE  Mirrors(tray', work'[d].at, backup'[d], status'[d])
          <5>1. tray.rx # <<>> /\ work' = work /\ backup' = backup /\ status' = status
            BY <4>5 DEF Receive
          <5>2. /\ "sync" \in Kinds /\ Busy(status[d], "sync") \in BOOLEAN
                /\ "backup" \in Kinds /\ Busy(status[d], "backup") \in BOOLEAN
            BY <1>1 DEF Kinds, Busy, Shown
          <5>3. work[d].at \in Between \/ (Busy(status[d], "sync") <=> work[d].at \in Announced)
            BY <3>3 DEF Statuses, Busy, Between, Active, Announced
          <5>4. backup[d] \in Between \/ (Busy(status[d], "backup") <=> backup[d] \in Announced)
            BY <3>3 DEF Statuses, Busy, Between, Active, Announced
          <5>5. Follows(Read(tray), "sync", work[d].at, status[d])
            BY <1>1, <3>1, <3>3, <5>1, <5>2, <5>3, ReadFollows DEF Mirrors
          <5>6. Follows(Read(tray), "backup", backup[d], status[d])
            BY <1>1, <3>1, <3>3, <5>1, <5>2, <5>4, ReadFollows DEF Mirrors
          <5>7. Recalls(Read(tray), work[d].at, status[d])
            BY <1>1, <3>1, <3>3, <5>1, ReadRecalls DEF Mirrors
          <5>8. QED
            BY <4>5, <5>1, <5>5, <5>6, <5>7 DEF Mirrors
        <4>6. \A x \in Daemons : ~Subscribe(x)
          BY <1>1, <1>4, <2>2 DEF Subscribe
        <4>7. QED
          BY <4>1, <4>2, <4>3, <4>4, <4>5, <4>6, TrayStepForms DEF Announces
      <3>6. QED
        BY <3>4, <3>5
    <2>3. CASE tray.to # d /\ ~Subscribe(d)
      <3>1. ASSUME NEW x \in Daemons, tray' = IF tray.to = x THEN Lost(tray) ELSE tray
            PROVE  FALSE
        BY <1>1, <1>6, <2>3, <3>1, LostFields
      <3>2. ASSUME NEW x \in Daemons, NEW e \in Events,
                   tray' = IF tray.to = x THEN Sent(tray, e) ELSE tray
            PROVE  FALSE
        BY <1>1, <1>6, <2>3, <3>2, SentFields DEF Types, TypeOK
      <3>3. ASSUME NEW x \in Daemons,
                   \/ Subscribe(x) /\ tray' = [tray EXCEPT !.conn = "subscribed", !.to = x]
                   \/ Hello(x) /\ tray' = [tray EXCEPT !.conn = "connected", !.view = status[x]]
                   \/ Receive(x) /\ tray' = Read(tray)
            PROVE  FALSE
        BY <1>6, <1>3, <2>3, <3>3
      <3>4. QED
        BY <1>6, <2>3, <3>1, <3>2, <3>3, TrayStepForms
    <2>4. QED
      BY <2>1, <2>2, <2>3
  <1>7. QED
    BY <1>5, <1>6 DEF Subscriber, Mirrors

(* A subscriber that has read every event shows what the daemon's status says,
   unless it fell behind and missed the end of the last pass or backup: though
   the hub drops the oldest events of a full ring, the snapshot is taken after
   the subscription, and the status changes before its event is sent
   (events.rs, daemon.rs, rfm-tray's state.rs). *)
THEOREM SubscriberAgrees == Spec => []ViewAgrees
  <1> DEFINE Inv == Consistency /\ Statuses /\ Subscriber
  <1>1. Init => Inv
    <2> SUFFICES ASSUME Init
                 PROVE  Inv
      OBVIOUS
    <2>1. Statuses /\ Subscriber
      <3>1. \A d \in Daemons : life[d] \in {"off", "dead"}
        BY DEF Init, Proc
      <3>2. tray.to = None /\ tray.rx = <<>> /\ tray.skipped = {} /\ None \notin Daemons
        BY ProcAssumption DEF Init, Proc
      <3>3. QED
        BY <3>1, <3>2 DEF Statuses, Subscriber, Up
    <2>2. QED
      BY <2>1, ConsistencyInit
  <1>2. Inv /\ [Next]_vars => Inv'
    BY ConsistencyNext, StatusesNext, SubscriberNext DEF Consistency
  <1>3. Inv => ViewAgrees
    <2> SUFFICES ASSUME Inv, NEW d \in Daemons, tray.conn = "connected", tray.to = d,
                        tray.rx = <<>>, life[d] \in {"serving", "stopping"}
                 PROVE  /\ \/ "sync" \in tray.skipped \/ work[d].at \in {"started", "ok", "failed"}
                           \/ tray.view.syncing = status[d].syncing /\ tray.view.last = status[d].last
                        /\ \/ "backup" \in tray.skipped \/ backup[d] \in {"started", "ok", "failed"}
                           \/ tray.view.backing_up = status[d].backing_up
      BY DEF ViewAgrees
    <2>1. /\ Follows(tray, "sync", work[d].at, status[d]) /\ Follows(tray, "backup", backup[d], status[d])
          /\ Recalls(tray, work[d].at, status[d])
      BY DEF Subscriber, Up
    <2>2. \A C : ~Has(tray.rx, C)
      BY DEF Has
    <2>3. QED
      BY <2>1, <2>2 DEF Follows, Recalls, Busy, Between
  <1>4. QED
    BY <1>1, <1>2, <1>3, PTL DEF Spec
=============================================================================
