------------------------------ MODULE Lifecycle ------------------------------
(***************************************************************************)
(* The life of the Shared State Store across server runs: the coordinator *)
(* (coordinator.c) shutting a run down on SIGINT, the snapshot it writes  *)
(* to server.dat, and the next start, which is either the secure server   *)
(* (server_main.c: always fresh, the file is ignored) or the insecure     *)
(* server (insecure_server.c -> ipc_init: restore the file if it loads).  *)
(*                                                                         *)
(* Within a run the workers and the monitor are those of RideDispatch;   *)
(* the insecure workers (insecure_dispatcher.c) skip the rate limiter.    *)
(***************************************************************************)
EXTENDS RideDispatch


CONSTANTS
    NoFile,        \* server.dat does not exist
    Truncated,     \* server.dat is shorter than sizeof(SharedState)
    MaxRuns        \* bound on the number of server runs

ASSUME MaxRuns \in Nat \ {0}

VARIABLES
    server,        \* which program runs: "secure" or "insecure"
    phase,         \* "running", "stopping" (in handle_sigint) or "down"
    file,          \* contents of server.dat
    monitorLeft,   \* the monitor may still finish one pass after g_running = 0
    runs           \* server runs started so far (bound only)

life == <<server, phase, file, monitorLeft, runs>>
allVars == <<vars, life>>

\* A worker whose process is gone: killed by the coordinator's SIGTERM, or
\* by SIGPIPE while replying (RideDispatch's "dead").
Gone(w) == pc[w] \in {"killed", "dead"}

\* The image write(fd, g_shared_state, sizeof(SharedState)) puts on disk:
\* every field, the mutex word included, as it is at that moment.
Snapshot == [drivers |-> drivers, driver_count |-> driver_count,
             total_requests_handled |-> total_requests_handled,
             total_success_requests |-> total_success_requests,
             total_revenue |-> total_revenue,
             client_last_seen |-> client_last_seen,
             client_req_count |-> client_req_count,
             dispatch_mode |-> dispatch_mode, mutex |-> mutex]

\* open/fopen fails: the old file stays; the write succeeds; or it is short
\* (disk full): the file was truncated on open and keeps only a prefix.
Saved(snap) == file' \in {file, snap, Truncated}

\* Workers back in accept() with no connection; the clock keeps running.
WorkersRestart ==
    /\ pc' = [w \in Workers |-> "accept"]
    /\ client' = [w \in Workers |-> 0]
    /\ now' = [w \in Workers |-> 0]
    /\ best' = [w \in Workers |-> NoDriver]
    /\ accepted' = 0
    /\ trips' = {}
    /\ admitted' = [c \in TrackedClients |-> [t \in 0..MaxSecond |-> 0]]
    /\ UNCHANGED clock

-----------------------------------------------------------------------------
\* The first run is a secure server on a machine with no server.dat.
LifeInit ==
    /\ Init
    /\ server = "secure"
    /\ phase = "running"
    /\ file = NoFile
    /\ monitorLeft = FALSE
    /\ runs = 1


\* save_data_to_file of server_main.c: fopen("wb") truncates server.dat,
\* fwrite puts the whole SharedState; a failed fopen only logs.  Its
\* outcomes are those of save_state.
save_data_to_file(snap) == Saved(snap)

\* cleanup_resources: save_data_to_file, then the mutex is destroyed and
\* the segment unmapped and unlinked, which ends the store with the run.
cleanup_resources(snap) == save_data_to_file(snap)

-----------------------------------------------------------------------------
(* Within a run                                                            *)

\* dispatcher_loop_insecure / process_ride_request_insecure_wrapper: a ride
\* request goes straight to handle_ride_request_logic, with no rate limit.
AcceptRideInsecure(w) ==
    /\ pc[w] = "accept"
    /\ accepted < MaxRequests
    /\ \E c \in Clients : client' = [client EXCEPT ![w] = c]
    /\ pc' = [pc EXCEPT ![w] = "search"]
    /\ accepted' = accepted + 1
    /\ UNCHANGED <<Store, mutex, clock, now, best, trips, admitted>>

\* handle_client_insecure returns without a reply or a ledger change: the
\* peer closed before a header, the header's length is over 1024, the body
\* came short, or the opcode is neither a ride request nor a join.
AcceptDroppedInsecure(w) ==
    /\ pc[w] = "accept"
    /\ accepted < MaxRequests
    /\ accepted' = accepted + 1
    /\ UNCHANGED <<Store, mutex, clock, pc, client, now, best, trips, admitted>>

\* One step of a live worker of the program that runs; none runs while the
\* program is down (e.g. after a start whose socket failed before the
\* fork).  The insecure build shares the join, matching, ledger and reply
\* code of the secure one.
WorkerStep(w) ==
    /\ phase # "down"
    /\ \/ server = "secure" /\ (AcceptRide(w) \/ ReadClock(w) \/ RateLimit(w))
       \/ server = "insecure" /\ (AcceptRideInsecure(w) \/ AcceptDroppedInsecure(w))
       \/ AcceptJoin(w) \/ MatchSearch(w) \/ MatchClaim(w) \/ MatchLedger(w)
       \/ DriverJoin(w) \/ SendJoinReply(w) \/ Reply(w) \/ ReplyToClosed(w)
    /\ UNCHANGED life

\* map_monitor_thread runs its passes while g_running is set ...
MonitorRun ==
    /\ phase = "running"
    /\ MonitorTick
    /\ UNCHANGED life

\* ... and a pass under way (or blocked on the mutex) when SIGINT clears it
\* still completes; the while (g_running) test then ends the thread.
MonitorLastPass ==
    /\ phase = "stopping"
    /\ monitorLeft
    /\ MonitorTick
    /\ monitorLeft' = FALSE
    /\ UNCHANGED <<server, phase, file, runs>>

ClockTick == Tick /\ UNCHANGED life

-----------------------------------------------------------------------------
(* Shutdown: handle_sigint and the end of start_coordinator_process        *)

\* g_running = 0 and SIGTERM to every worker pid.  The signals land at once
\* but each worker dies at its own moment (Kill); until then it runs on.
Sigint ==
    /\ phase = "running"
    /\ phase' = "stopping"
    /\ monitorLeft' = TRUE
    /\ UNCHANGED <<vars, server, file, runs>>

\* The default action of SIGTERM ends worker w wherever it is: between two
\* statements of the critical section, or holding the mutex.
Kill(w) ==
    /\ phase = "stopping"
    /\ ~Gone(w)
    /\ pc' = [pc EXCEPT ![w] = "killed"]
    /\ UNCHANGED <<Store, mutex, clock, client, now, best, accepted, trips,
                   admitted, life>>

\* while (wait(NULL) > 0); returns once every worker is reaped; then
\* save_state() writes the store without taking the mutex, ipc_cleanup()
\* and exit(0) end the monitor thread with the process.
SaveOnSigint ==
    /\ phase = "stopping"
    /\ \A w \in Workers : Gone(w)
    /\ Saved(Snapshot)
    /\ phase' = "down"
    /\ monitorLeft' = FALSE
    /\ UNCHANGED <<vars, server, runs>>

\* Every worker died of SIGPIPE: wait() fails with ECHILD and the loop of
\* start_coordinator_process breaks.  main() of the secure server then
\* runs cleanup_resources(), whose save_data_to_file() writes the store;
\* the insecure main only calls ipc_cleanup().
PoolExhausted ==
    /\ phase = "running"
    /\ \A w \in Workers : pc[w] = "dead"
    /\ IF server = "secure" THEN cleanup_resources(Snapshot) ELSE UNCHANGED file
    /\ phase' = "down"
    /\ UNCHANGED <<vars, server, monitorLeft, runs>>

-----------------------------------------------------------------------------
(* The next start                                                          *)

\* main() of server_main.c: a fresh store (as MainInit) whatever server.dat
\* holds.  If create_server_socket then fails (port taken), main calls
\* cleanup_resources(), which saves that fresh store, and exits.  A failed
\* shm_open, ftruncate or mmap exits before anything is written: the file
\* stays as it was, one of the outcomes of that save.
StartSecure ==
    /\ phase = "down"
    /\ runs < MaxRuns
    /\ runs' = runs + 1
    /\ server' = "secure"
    /\ driver_count' = InitDrivers
    /\ drivers' \in FreshDriverTables
    /\ total_requests_handled' = 0
    /\ total_success_requests' = 0
    /\ total_revenue' = 0
    /\ client_last_seen' = [c \in TrackedClients |-> 0]
    /\ client_req_count' = [c \in TrackedClients |-> 0]
    /\ dispatch_mode' \in Modes
    /\ mutex' = NoOwner
    /\ WorkersRestart
    /\ monitorLeft' = FALSE
    /\ \/ phase' = "running" /\ UNCHANGED file
       \/ phase' = "down" /\ cleanup_resources(Snapshot')

\* ipc_init, fresh branch: memset, driver_count capped at MAX_DRIVERS,
\* drivers 1000+i available with fuel 10 at BASE + i*0.001 (the first one
\* at the dispatch origin), rating 0 and dispatch_mode 0 from the memset.
FreshDist(i) == IF i = 1 THEN 0 ELSE CHOOSE x \in Dists : x > 0

IpcFresh ==
    LET n == IF InitDrivers > MaxDrivers THEN MaxDrivers ELSE InitDrivers IN
    /\ driver_count' = n
    /\ drivers' = [i \in Slots |->
                     IF i <= n
                     THEN [ZeroDriver EXCEPT !.avail = TRUE, !.fuel = FULL_FUEL,
                                             !.dist = FreshDist(i)]
                     ELSE ZeroDriver]
    /\ total_requests_handled' = 0
    /\ total_success_requests' = 0
    /\ total_revenue' = 0
    /\ client_last_seen' = [c \in TrackedClients |-> 0]
    /\ client_req_count' = [c \in TrackedClients |-> 0]
    /\ dispatch_mode' = 0

\* load_state read the whole image; ipc_init then sets is_available = 1
\* on drivers 0..driver_count-1 and nothing else.
IpcRestore(f) ==
    /\ driver_count' = f.driver_count
    /\ drivers' = [i \in Slots |->
                     IF i <= f.driver_count THEN [f.drivers[i] EXCEPT !.avail = TRUE]
                     ELSE f.drivers[i]]
    /\ total_requests_handled' = f.total_requests_handled
    /\ total_success_requests' = f.total_success_requests
    /\ total_revenue' = f.total_revenue
    /\ client_last_seen' = f.client_last_seen
    /\ client_req_count' = f.client_req_count
    /\ dispatch_mode' = f.dispatch_mode

\* Mutant: the mutex word of the image is used as loaded.
IpcMutexInherited ==
    mutex' = IF file \in {NoFile, Truncated} THEN NoOwner ELSE file.mutex

\* pthread_mutex_init on the loaded or fresh store, after load_state.
IpcMutexInit == mutex' = NoOwner

\* main() of insecure_server.c: ipc_init, which restores server.dat if
\* open and a full-size read succeed (load_state), else starts fresh.
StartInsecure ==
    /\ phase = "down"
    /\ runs < MaxRuns
    /\ runs' = runs + 1
    /\ server' = "insecure"
    /\ IF file \in {NoFile, Truncated} THEN IpcFresh ELSE IpcRestore(file)
    /\ IpcMutexInit
    /\ WorkersRestart
    /\ phase' = "running"
    /\ monitorLeft' = FALSE
    /\ UNCHANGED file

\* The last run is over: the system stops for good.
Terminated ==
    /\ phase = "down"
    /\ runs = MaxRuns
    /\ UNCHANGED allVars

LifeNext ==
    \/ \E w \in Workers : WorkerStep(w) \/ Kill(w)
    \/ MonitorRun
    \/ MonitorLastPass
    \/ ClockTick
    \/ Sigint
    \/ SaveOnSigint
    \/ PoolExhausted
    \/ StartSecure
    \/ StartInsecure
    \/ Terminated

LifeSpec == LifeInit /\ [][LifeNext]_allVars

-----------------------------------------------------------------------------
(* Properties                                                              *)

Images == {NoFile, Truncated} \cup
          [drivers : [Slots -> [avail : BOOLEAN, refuel : BOOLEAN, fuel : Int,
                                 rides : Nat, target : BOOLEAN, rating : Nat,
                                 dist : Dists \cup {UnsetDist}]],
           driver_count : 0..MaxDrivers, total_requests_handled : Nat,
           total_success_requests : Nat, total_revenue : Nat,
           client_last_seen : [TrackedClients -> 0..MaxSecond],
           client_req_count : [TrackedClients -> Nat],
           dispatch_mode : {0, 1}, mutex : Workers \cup {Monitor, NoOwner}]

LifeTypeOK ==
    /\ server \in {"secure", "insecure"}
    /\ phase \in {"running", "stopping", "down"}
    /\ file \in Images
    /\ monitorLeft \in BOOLEAN
    /\ runs \in 1..MaxRuns
    /\ pc \in [Workers -> Status \cup {"killed"}]
    /\ mutex \in Workers \cup {Monitor, NoOwner}
    /\ driver_count \in 0..MaxDrivers

\* While a server runs, the mutex is held only by a worker that is inside
\* handle_ride_request_logic's critical section (the only place a worker
\* keeps it across steps), so it will be released.  A worker killed by
\* SIGTERM in that section leaves the mutex word locked in the image that
\* save_state writes; the next run's workers are new processes, and only
\* the pthread_mutex_init of ipc_init (and of server_main) keeps them and
\* the monitor from waiting forever on a lock no process will release.
MutexHeldInCriticalSection ==
    phase = "running" =>
        \A w \in Workers : mutex = w => pc[w] \in {"claim", "ledger"}

RidesInImage(f) == Fun!SumFunction([i \in Slots |-> f.drivers[i].rides])

\* The snapshot is a consistent store: the rides its drivers count are the
\* rides its ledger recorded (each successful match adds one to both, in
\* one critical section).  save_state runs after SIGTERM may have ended a
\* worker between the claim and the ledger update (ride_service.c 34-55),
\* and it writes without the lock (spec: the snapshot is taken after the
\* workers exit, every mutation is made in a critical section).
SnapshotLedgerBalanced ==
    file \notin {NoFile, Truncated} =>
        RidesInImage(file) = file.total_success_requests

\* server.dat is written only by the shutdown of a run that was serving
\* (spec: persisted exactly once, at controlled shutdown).  A secure start
\* whose socket cannot be created saves its fresh store over it.
SnapshotOnlyFromServingRun ==
    [][file' # file => phase \in {"running", "stopping"}]_allVars

=============================================================================
