---------------------------- MODULE RideDispatch ----------------------------
(***************************************************************************)
(* The Shared State Store and everything that mutates it while the server  *)
(* runs: the dispatcher worker processes (one connection at a time, from   *)
(* rate limiting to the reply), the map monitor thread of the coordinator  *)
(* process, and the process-shared mutex they all take.                    *)
(*                                                                         *)
(* The wire protocol in front of the business logic (handshake, RC4,      *)
(* checksum) changes no shared state and is modelled in Session; here a    *)
(* connection arrives as an already-decoded ride request or driver join.  *)
(***************************************************************************)
EXTENDS Integers, FiniteSets, Sequences, Matching

Fun == INSTANCE Functions

CONSTANTS
    Workers,       \* dispatcher processes (WORKER_COUNT of them)
    Monitor,       \* the map monitor thread, as a mutex owner
    NoOwner,       \* the mutex is free
    Clients,       \* client ids as the C int the server reads
    MaxDrivers,    \* MAX_DRIVERS, capacity of the driver array
    InitDrivers,   \* driver_count given on the command line
    HighRatings,   \* ratings of the first two drivers (4.9 or 5.0)
    LowRatings,    \* ratings of the others (3.5 + k/10)
    Dists,         \* distances from the dispatch origin on the map
    Modes,         \* dispatch_mode values given on the command line
    MaxSecond,     \* bound on the wall clock (seconds)
    MaxRequests    \* bound on the connections accepted

ASSUME InitDrivers \in 0..MaxDrivers
ASSUME 0 \in Dists
ASSUME Modes \subseteq {0, 1}

VARIABLES
    drivers,       \* g_shared_state->drivers
    driver_count,
    total_requests_handled,
    total_success_requests,
    total_revenue,
    client_last_seen,
    client_req_count,
    dispatch_mode,
    mutex,         \* owner of g_shared_state->mutex
    clock,         \* time(NULL)
    pc,            \* per worker: where it is in handle_client
    client,        \* per worker: client id of the current request
    now,           \* per worker: the second read by the rate limiter
    best,          \* per worker: best_driver_index
    accepted,      \* connections accepted so far (bound only)
    trips,         \* ghost: rides assigned and not yet finished
    admitted       \* ghost: admitted[c][t] requests of c let through
                   \*        by the rate limiter with now = t

vars == <<drivers, driver_count, total_requests_handled,
          total_success_requests, total_revenue, client_last_seen,
          client_req_count, dispatch_mode, mutex, clock, pc, client, now,
          best, accepted, trips, admitted>>

FULL_FUEL == 10
RATE_LIMIT == 3                 \* more than 3 per second is a DoS
BASE_FARE == 100
VIP_SURCHARGE == 50
\* lat = lon = 0, the position of a joined driver: off the map, far away
UnsetDist == 1000
\* the client_last_seen / client_req_count tables have 2000 entries;
\* ids outside 1..1999 are not rate limited
RateTracked(c) == c > 0 /\ c < 2000
IsVip(c) == c <= 10
Fare(c) == BASE_FARE + (IF IsVip(c) THEN VIP_SURCHARGE ELSE 0)

ZeroDriver == [avail |-> FALSE, refuel |-> FALSE, fuel |-> 0, rides |-> 0,
               target |-> FALSE, rating |-> 0, dist |-> UnsetDist]
Slots == 1..MaxDrivers
TrackedClients == {c \in Clients : RateTracked(c)}

-----------------------------------------------------------------------------
(***************************************************************************)
(* main() of server_main.c: memset, then InitDrivers fresh drivers (full  *)
(* fuel, available, random position and rating); the saved file is never *)
(* read (fp is forced to NULL).  The mutex is initialized last.           *)
(***************************************************************************)
\* The driver tables main() can build: the first two rated 4.9 or 5.0, the
\* others 3.5 + k/10, every one at a random position near the base.
FreshDriverTables ==
    {t \in {[i \in Slots |->
               IF i <= InitDrivers
               THEN [avail |-> TRUE, refuel |-> FALSE, fuel |-> FULL_FUEL,
                     rides |-> 0, target |-> FALSE, dist |-> p[i], rating |-> r[i]]
               ELSE ZeroDriver] :
             r \in [Slots -> HighRatings \cup LowRatings], p \in [Slots -> Dists]} :
        \A i \in 1..InitDrivers :
            t[i].rating \in (IF i <= 2 THEN HighRatings ELSE LowRatings)}

MainInit ==
    /\ driver_count = InitDrivers
    /\ drivers \in FreshDriverTables
    /\ total_requests_handled = 0
    /\ total_success_requests = 0
    /\ total_revenue = 0
    /\ client_last_seen = [c \in TrackedClients |-> 0]
    /\ client_req_count = [c \in TrackedClients |-> 0]
    /\ dispatch_mode \in Modes
    /\ mutex = NoOwner

\* start_coordinator_process forks the workers, each blocking in accept().
Init ==
    /\ MainInit
    /\ clock = 1
    /\ pc = [w \in Workers |-> "accept"]
    /\ client = [w \in Workers |-> 0]
    /\ now = [w \in Workers |-> 0]
    /\ best = [w \in Workers |-> NoDriver]
    /\ accepted = 0
    /\ trips = {}
    /\ admitted = [c \in TrackedClients |-> [t \in 0..MaxSecond |-> 0]]

Store == <<drivers, driver_count, total_requests_handled,
           total_success_requests, total_revenue, client_last_seen,
           client_req_count, dispatch_mode>>

-----------------------------------------------------------------------------
(* Worker actions: dispatcher_loop / handle_client of dispatcher.c.        *)

\* accept() returns a connection carrying a ride request (OP_REQ_RIDE)
\* from client c; check_and_update_rate_limit returns at once for ids it
\* does not track.
AcceptRide(w) ==
    /\ pc[w] = "accept"
    /\ accepted < MaxRequests
    /\ \E c \in Clients :
         /\ client' = [client EXCEPT ![w] = c]
         /\ pc' = [pc EXCEPT ![w] = IF RateTracked(c) THEN "clock" ELSE "search"]
    /\ accepted' = accepted + 1
    /\ UNCHANGED <<Store, mutex, clock, now, best, trips, admitted>>

\* accept() returns a connection carrying OP_DRIVER_JOIN.
AcceptJoin(w) ==
    /\ pc[w] = "accept"
    /\ accepted < MaxRequests
    /\ pc' = [pc EXCEPT ![w] = "join"]
    /\ accepted' = accepted + 1
    /\ UNCHANGED <<Store, mutex, clock, client, now, best, trips, admitted>>

\* time_t now = time(NULL), read before the mutex is taken.
ReadClock(w) ==
    /\ pc[w] = "clock"
    /\ now' = [now EXCEPT ![w] = clock]
    /\ pc' = [pc EXCEPT ![w] = "ratelimit"]
    /\ UNCHANGED <<Store, mutex, clock, client, best, accepted, trips, admitted>>

\* Mutant: a new second restarts the count but forgets to record the second.
RateLimitNoStamp(w) ==
    LET c     == client[w]
        t     == now[w]
        count == IF client_last_seen[c] = t THEN client_req_count[c] + 1 ELSE 1
        spam  == count > RATE_LIMIT
    IN
    /\ pc[w] = "ratelimit"
    /\ mutex = NoOwner
    /\ client_req_count' = [client_req_count EXCEPT ![c] = count]
    /\ pc' = [pc EXCEPT ![w] = IF spam THEN "reply" ELSE "search"]
    /\ admitted' = IF spam THEN admitted
                   ELSE [admitted EXCEPT ![c][t] = @ + 1]
    /\ UNCHANGED <<drivers, driver_count, total_requests_handled,
                   total_success_requests, total_revenue, dispatch_mode,
                   client_last_seen, mutex, clock, client, now, best,
                   accepted, trips>>

\* Under the mutex: same second -> count+1, else restart the second with
\* count 1; more than RATE_LIMIT is blocked (the record is kept either way).
RateLimit(w) ==
    LET c     == client[w]
        t     == now[w]
        count == IF client_last_seen[c] = t THEN client_req_count[c] + 1 ELSE 1
        spam  == count > RATE_LIMIT
    IN
    /\ pc[w] = "ratelimit"
    /\ mutex = NoOwner
    /\ client_last_seen' = [client_last_seen EXCEPT ![c] = t]
    /\ client_req_count' = [client_req_count EXCEPT ![c] = count]
    /\ pc' = [pc EXCEPT ![w] = IF spam THEN "reply" ELSE "search"]
    /\ admitted' = IF spam THEN admitted
                   ELSE [admitted EXCEPT ![c][t] = @ + 1]
    /\ UNCHANGED <<drivers, driver_count, total_requests_handled,
                   total_success_requests, total_revenue, dispatch_mode,
                   mutex, clock, client, now, best, accepted, trips>>

\* Mutant: the mutex is released between the search and the claim.
MatchSearchUnlocked(w) ==
    LET found == IF dispatch_mode = 0
                 THEN find_driver_basic(drivers, driver_count)
                 ELSE find_driver_smart(drivers, driver_count, IsVip(client[w]))
    IN
    /\ pc[w] = "search"
    /\ mutex = NoOwner
    /\ best' = [best EXCEPT ![w] = found]
    /\ pc' = [pc EXCEPT ![w] = IF found = NoDriver THEN "reply" ELSE "claim"]
    /\ UNCHANGED <<Store, mutex, clock, client, now, accepted, trips, admitted>>

\* handle_ride_request_logic: lock, then search with the strategy of
\* dispatch_mode.  No driver: unlock and reply "No drivers available".
MatchSearch(w) ==
    LET found == IF dispatch_mode = 0
                 THEN find_driver_basic(drivers, driver_count)
                 ELSE find_driver_smart(drivers, driver_count, IsVip(client[w]))
    IN
    /\ pc[w] = "search"
    /\ mutex = NoOwner
    /\ best' = [best EXCEPT ![w] = found]
    /\ IF found = NoDriver
       THEN /\ mutex' = NoOwner
            /\ pc' = [pc EXCEPT ![w] = "reply"]
       ELSE /\ mutex' = w
            /\ pc' = [pc EXCEPT ![w] = "claim"]
    /\ UNCHANGED <<Store, clock, client, now, accepted, trips, admitted>>

\* Still holding the mutex: the driver becomes busy with a target.
MatchClaim(w) ==
    LET i == best[w] IN
    /\ pc[w] = "claim"
    /\ drivers' = [drivers EXCEPT ![i].avail = FALSE, ![i].rides = @ + 1,
                                  ![i].fuel = @ - 1, ![i].target = TRUE]
    /\ trips' = trips \cup {[client |-> client[w], driver |-> i]}
    /\ pc' = [pc EXCEPT ![w] = "ledger"]
    /\ UNCHANGED <<driver_count, total_requests_handled,
                   total_success_requests, total_revenue, client_last_seen,
                   client_req_count, dispatch_mode, mutex, clock, client,
                   now, best, accepted, admitted>>

\* Mutant: the success counter is not incremented.
MatchLedgerNoSuccess(w) ==
    /\ pc[w] = "ledger"
    /\ total_requests_handled' = total_requests_handled + 1
    /\ total_revenue' = total_revenue + Fare(client[w])
    /\ mutex' = NoOwner
    /\ pc' = [pc EXCEPT ![w] = "reply"]
    /\ UNCHANGED <<drivers, driver_count, total_success_requests,
                   client_last_seen, client_req_count, dispatch_mode, clock,
                   client, now, best, accepted, trips, admitted>>

\* Global counters and the fare, then unlock.
MatchLedger(w) ==
    /\ pc[w] = "ledger"
    /\ total_requests_handled' = total_requests_handled + 1
    /\ total_success_requests' = total_success_requests + 1
    /\ total_revenue' = total_revenue + Fare(client[w])
    /\ mutex' = NoOwner
    /\ pc' = [pc EXCEPT ![w] = "reply"]
    /\ UNCHANGED <<drivers, driver_count, client_last_seen, client_req_count,
                   dispatch_mode, clock, client, now, best, accepted, trips,
                   admitted>>

\* Mutant: the capacity check is missing.
DriverJoinUnchecked(w) ==
    /\ pc[w] = "join"
    /\ mutex = NoOwner
    /\ drivers' = [drivers EXCEPT ![driver_count + 1].avail = TRUE,
                                  ![driver_count + 1].fuel = FULL_FUEL]
    /\ driver_count' = driver_count + 1
    /\ pc' = [pc EXCEPT ![w] = "joined"]
    /\ UNCHANGED <<total_requests_handled, total_success_requests,
                   total_revenue, client_last_seen, client_req_count,
                   dispatch_mode, mutex, clock, client, now, best, accepted,
                   trips, admitted>>

\* process_driver_join: under the mutex, append a driver if there is room
\* (id, available, fuel 10; position and rating stay zero), then reply.
DriverJoin(w) ==
    /\ pc[w] = "join"
    /\ mutex = NoOwner
    /\ IF driver_count < MaxDrivers
       THEN /\ drivers' = [drivers EXCEPT ![driver_count + 1].avail = TRUE,
                                          ![driver_count + 1].fuel = FULL_FUEL]
            /\ driver_count' = driver_count + 1
       ELSE UNCHANGED <<drivers, driver_count>>
    /\ pc' = [pc EXCEPT ![w] = "joined"]
    /\ UNCHANGED <<total_requests_handled, total_success_requests,
                   total_revenue, client_last_seen, client_req_count,
                   dispatch_mode, mutex, clock, client, now, best, accepted,
                   trips, admitted>>

\* The reply is written with send_n, then the connection is closed and the
\* worker goes back to accept().
Reply(w) ==
    /\ pc[w] = "reply"
    /\ pc' = [pc EXCEPT ![w] = "accept"]
    /\ UNCHANGED <<Store, mutex, clock, client, now, best, accepted, trips,
                   admitted>>

\* process_driver_join answers with a bare header: one send_n.  A single
\* write after the peer's close succeeds (it only draws an RST), so the
\* worker closes the socket and goes back to accept() whether or not the
\* client is still there.
SendJoinReply(w) ==
    /\ pc[w] = "joined"
    /\ pc' = [pc EXCEPT ![w] = "accept"]
    /\ UNCHANGED <<Store, mutex, clock, client, now, best, accepted, trips,
                   admitted>>

\* The client has already closed the connection (its 2 s receive timeout
\* expired): the header write draws an RST and the body write raises
\* SIGPIPE, whose default action kills the worker process.  Nothing in the
\* server ignores SIGPIPE and the coordinator never forks a replacement.
ReplyToClosed(w) ==
    /\ pc[w] = "reply"
    /\ pc' = [pc EXCEPT ![w] = "dead"]
    /\ UNCHANGED <<Store, mutex, clock, client, now, best, accepted, trips,
                   admitted>>

-----------------------------------------------------------------------------
(***************************************************************************)
(* map_monitor_thread: every 200 ms, under the mutex, one pass over all    *)
(* drivers.  The random and geometric outcomes of a driver's pass are the  *)
(* fields of a choice:                                                     *)
(*   offMap  its cell is an obstacle or off the map (respawn at the base) *)
(*   arrive  within 0.01 of its target, or the 20% early arrival           *)
(*   burn    the 10% fuel burn while navigating                            *)
(*   stuck   A* returns its own cell                                       *)
(*   dist    where it ends up after moving or walking                      *)
(* A driver still at lat = lon = 0 (joined, never moved) is off the map.   *)
(***************************************************************************)
Choice == [offMap : BOOLEAN, arrive : BOOLEAN, burn : BOOLEAN,
           stuck : BOOLEAN, dist : Dists]

\* Mutant: the respawn leaves is_refueling alone.
RespawnKeepsRefuel(d, ch) ==
    IF ch.offMap THEN [d EXCEPT !.target = FALSE, !.avail = TRUE] ELSE d

\* 1. respawn
Respawn(d, ch) ==
    IF ch.offMap
    THEN [d EXCEPT !.target = FALSE, !.avail = TRUE, !.refuel = FALSE]
    ELSE d

\* 2. arrival and fuel burn while navigating
Navigate(d, ch) ==
    IF d.target
    THEN LET a == IF ch.arrive
                  THEN [d EXCEPT !.target = FALSE, !.avail = TRUE, !.refuel = FALSE]
                  ELSE d
         IN  IF a.fuel > 0 /\ ch.burn THEN [a EXCEPT !.fuel = @ - 1] ELSE a
    ELSE d

\* Mutant: refuelling starts at fuel <= 1.
StartRefuelEarly(d) ==
    IF d.avail /\ d.fuel <= 1 /\ ~d.refuel
    THEN [d EXCEPT !.refuel = TRUE, !.avail = FALSE, !.target = FALSE]
    ELSE d

\* 3. an available driver with no fuel goes refuelling
StartRefuel(d) ==
    IF d.avail /\ d.fuel <= 0 /\ ~d.refuel
    THEN [d EXCEPT !.refuel = TRUE, !.avail = FALSE, !.target = FALSE]
    ELSE d

\* Mutant: a full tank never ends refuelling.
RefuelNeverDone(d) ==
    IF d.refuel /\ d.fuel < FULL_FUEL THEN [d EXCEPT !.fuel = @ + 2] ELSE d

\* 3. refuel by 2 per pass; when full, available again
Refuel(d) ==
    IF d.refuel
    THEN IF d.fuel < FULL_FUEL THEN [d EXCEPT !.fuel = @ + 2]
         ELSE [d EXCEPT !.refuel = FALSE, !.avail = TRUE]
    ELSE d

\* 4. a busy driver with no target is freed
FreeZombie(d) ==
    IF ~d.avail /\ ~d.refuel /\ ~d.target THEN [d EXCEPT !.avail = TRUE] ELSE d

\* 5. one A* step towards the target (stuck: counted as arrived), or a
\*    random walk; either way the driver ends at ch.dist
Move(d, ch) ==
    LET m == IF d.target /\ ~d.refuel /\ ch.stuck
             THEN [d EXCEPT !.target = FALSE, !.avail = TRUE]
             ELSE d
    IN  [m EXCEPT !.dist = ch.dist]

MonitorDriver(d, ch) ==
    Move(FreeZombie(Refuel(StartRefuel(Navigate(Respawn(d, ch), ch)))), ch)

\* The random outcomes only matter for a driver with a target; any other
\* driver can only be respawned or moved.
ChoicesFor(d) ==
    IF d.target THEN Choice
    ELSE {ch \in Choice : ~ch.arrive /\ ~ch.burn /\ ~ch.stuck}

\* The states a pass can leave driver d in (a joined driver still at
\* lat = lon = 0 is off the map).
PassOutcomes(d) ==
    {MonitorDriver(d, ch) : ch \in {x \in ChoicesFor(d) :
                                        d.dist = UnsetDist => x.offMap}}

\* Every result of one pass over drivers 1..k.
RECURSIVE Passes(_)
Passes(k) ==
    IF k = 0 THEN {<<>>}
    ELSE {Append(p, o) : p \in Passes(k - 1), o \in PassOutcomes(drivers[k])}

MonitorTick ==
    /\ mutex = NoOwner
    /\ \E p \in Passes(driver_count) :
         drivers' = [i \in Slots |-> IF i <= driver_count THEN p[i] ELSE drivers[i]]
    \* a ride is over once its driver has no target any more
    /\ trips' = {t \in trips : drivers'[t.driver].target}
    /\ UNCHANGED <<driver_count, total_requests_handled, total_success_requests,
                   total_revenue, client_last_seen, client_req_count,
                   dispatch_mode, mutex, clock, pc, client, now, best,
                   accepted, admitted>>

\* The wall clock advances one second.
Tick ==
    /\ clock < MaxSecond
    /\ clock' = clock + 1
    /\ UNCHANGED <<Store, mutex, pc, client, now, best, accepted, trips,
                   admitted>>

-----------------------------------------------------------------------------
Next ==
    \/ \E w \in Workers :
         \/ AcceptRide(w)
         \/ AcceptJoin(w)
         \/ ReadClock(w)
         \/ RateLimit(w)
         \/ MatchSearch(w)
         \/ MatchClaim(w)
         \/ MatchLedger(w)
         \/ DriverJoin(w)
         \/ Reply(w)
         \/ SendJoinReply(w)
         \/ ReplyToClosed(w)
    \/ MonitorTick
    \/ Tick

Spec == Init /\ [][Next]_vars

(***************************************************************************)
(* Fairness.  A worker inside the critical section of a match never blocks *)
(* until it unlocks.  The monitor thread loops forever and waits only for  *)
(* the mutex, which every holder releases: it is strongly fair.  Each pass *)
(* ends a navigating driver's ride with probability at least 0.2           *)
(* (rand() % 100 < 20), so with probability 1 a pass that ends every open  *)
(* ride happens whenever passes keep happening: that pass is strongly fair *)
(* too.  Accepting a connection depends on clients and gets no fairness.  *)
(***************************************************************************)
MonitorArrivals ==
    /\ MonitorTick
    /\ \A i \in 1..driver_count : drivers[i].target => ~drivers'[i].target

LiveSpec ==
    /\ Spec
    /\ \A w \in Workers : WF_vars(MatchClaim(w) \/ MatchLedger(w))
    /\ SF_vars(MonitorTick)
    /\ SF_vars(MonitorArrivals)

-----------------------------------------------------------------------------
(* Properties                                                              *)

Status == {"accept", "clock", "ratelimit", "search", "claim", "ledger",
           "join", "joined", "reply", "dead"}

TypeOK ==
    /\ driver_count \in 0..MaxDrivers
    /\ drivers \in [Slots -> [avail : BOOLEAN, refuel : BOOLEAN, fuel : Int,
                               rides : Nat, target : BOOLEAN, rating : Nat,
                               dist : Dists \cup {UnsetDist}]]
    /\ total_requests_handled \in Nat
    /\ total_success_requests \in Nat
    /\ total_revenue \in Nat
    /\ client_last_seen \in [TrackedClients -> 0..MaxSecond]
    /\ client_req_count \in [TrackedClients -> Nat]
    /\ mutex \in Workers \cup {Monitor, NoOwner}
    /\ clock \in 1..MaxSecond
    /\ pc \in [Workers -> Status]
    /\ client \in [Workers -> Clients \cup {0}]
    /\ best \in [Workers -> {NoDriver} \cup Slots]

\* A driver is in at most one of the states the map shows: available (D),
\* navigating to a target (>) or refuelling (F).  Matching, the five
\* steps of the monitor pass and a join each set these flags in several
\* places; a state with two of them is a driver the search would offer
\* while it is busy, or one the monitor would never release.
DriverStatusConsistent ==
    \A i \in 1..driver_count :
        LET d == drivers[i] IN
        /\ ~(d.avail /\ d.refuel)
        /\ ~(d.avail /\ d.target)
        /\ ~(d.refuel /\ d.target)

\* Fuel stays within the tank: matching takes one unit only from a driver
\* with fuel, the monitor burns only while there is fuel, and refuelling
\* (+2 per pass, started at 0) stops at 10.
FuelInRange == \A i \in 1..driver_count : drivers[i].fuel \in 0..FULL_FUEL

\* No double booking: a driver is never assigned a second ride before the
\* first one is over, however the workers' searches, claims and the
\* monitor's passes interleave (spec: selection and mutation are atomic).
NoDoubleBooking ==
    \A i \in Slots : Cardinality({t \in trips : t.driver = i}) <= 1

\* At most RATE_LIMIT requests of one client that read the same second are
\* let through by check_and_update_rate_limit (spec 8: the 4th and later
\* within a second are blocked).
RateLimitHolds ==
    \A c \in TrackedClients, t \in 0..MaxSecond : admitted[c][t] <= RATE_LIMIT

\* Transport errors are local to one connection: no worker process is ever
\* lost because a client went away (spec 7).
WorkerPoolIntact == \A w \in Workers : pc[w] # "dead"

\* A driver given a ride is available again later: the monitor ends the
\* ride (arrival, the early arrival, a stuck A* step or a respawn), sends a
\* driver whose tank ran dry refuelling until the tank is full, and frees a
\* busy driver with no target, whatever the workers do meanwhile
\* (map_monitor.c; spec: a driver returns to the pool after its trip).
DriverReturns ==
    \A i \in Slots : (\E t \in trips : t.driver = i) ~> drivers[i].avail

\* Refinement mapping onto DispatchContract.  A ride is booked when its
\* driver is claimed; the counters and the fare of that booking are owed
\* by the worker still in the ledger step and are added to the totals.
InLedger == {w \in Workers : pc[w] = "ledger"}

Abs == INSTANCE DispatchContract WITH
    registered <- driver_count,
    booked     <- {t.driver : t \in trips},
    handled    <- total_requests_handled + Cardinality(InLedger),
    success    <- total_success_requests + Cardinality(InLedger),
    revenue    <- total_revenue + Fun!SumFunction([w \in InLedger |-> Fare(client[w])])

\* The workers, the mutex and the monitor together implement the contract:
\* every claim, seen with the ledger update that follows it under the same
\* lock, is one atomic booking of a free registered driver that counts one
\* handled and one successful request and the client's fare; only the
\* monitor ends rides and only a join with room grows the roster
\* (ride_service.c handle_ride_request_logic, spec ordering guarantees).
ImplementsContract == Abs!Spec

=============================================================================
