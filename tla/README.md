# TLA+ models of the secure ride-dispatch server

This directory holds TLA+ models of the C server under `src/src/`, with TLC
configurations that check them.

## The system

`server_main.c` sets up one `SharedState` in `mmap`'d shared memory. It holds:
- the driver table;
- the counters (`total_requests_handled`, `total_success_requests`, `total_revenue`);
- the rate-limiter arrays;
- `dispatch_mode`;
- a process-shared mutex.

`start_coordinator_process` (`coordinator.c`) then forks `WORKER_COUNT` (100)
workers and starts the map-monitor thread in the coordinator. The parts
interact only through the shared state, under the mutex:

| part | code | what it does to the shared state |
|------|------|----------------------------------|
| worker (`dispatcher_loop`, `handle_client`) | `dispatcher.c` | For each connection: DH handshake, RC4 decryption, checksum check. Then it runs a ride request or a driver join, writes the reply and closes. |
| admission control | `resource_service.c` `check_and_update_rate_limit` | Counts the requests of one client per second. The 4th and later requests in a second are blocked. The clock is read *before* the lock. |
| matching + ledger | `ride_service.c`, `dispatch_algorithms.c` | Under the lock: find the nearest usable driver (basic), or a driver rated ≥ 4.8 for a VIP (smart). Mark that driver busy with a target, take one unit of fuel and add the fare (100, plus 50 for client ids ≤ 10). |
| driver join | `coordinator.c` `process_driver_join` | Under the lock: append a driver if there is room. |
| map monitor | `map_monitor.c` | Every 200 ms, under the lock, one pass over all drivers: respawn, arrival and fuel burn, start refuelling, refuel +2, free a "zombie", then one A* step or a random walk. |
| shutdown | `coordinator.c` `handle_sigint` | Sends SIGTERM to the workers, waits for them, then calls `save_state` without the lock. If every worker dies of SIGPIPE, the coordinator's `wait` loop ends instead and the secure `main` saves through `cleanup_resources`. |
| restart | `server_main.c`, `insecure_server.c` + `ipc_init` | The secure server always starts fresh and ignores `server.dat`. The insecure server restores `server.dat` if it reads in full, setting only `is_available`. Both re-initialise the mutex. |

## Modules

* `Matching.tla` models the Matching Engine.
  - `find_driver_basic` and `find_driver_smart` become the recursive operator `ScanLoop`. One call is one run of the C `for` loop. Ties go to the lowest index.
  - The spec's definition (§4.6) is written as `SpecBasic`/`SpecSmart`, using `CHOOSE`.
  - A driver's position is abstracted to its distance class from the dispatch origin. Ratings are in tenths, so 4.8 is 48. `3.5 + 13/10.0` is exactly 4.8, so the boundary is reachable.
* `RideDispatch.tla` composes the workers, the rate limiter, matching, the ledger, driver join and the map monitor over the shared store. Each worker is a program counter:

  | `pc` | step | code |
  |------|------|------|
  | `accept` | `AcceptRide` / `AcceptJoin` | `dispatcher_loop` |
  | `clock` | `ReadClock` | `time(NULL)`, outside the lock |
  | `ratelimit` | `RateLimit` | the locked update |
  | `search` | `MatchSearch` | lock, find a driver; unlock when there is none |
  | `claim` | `MatchClaim` | the driver's fields |
  | `ledger` | `MatchLedger` | the counters, the fare, unlock |
  | `join` | `DriverJoin` | `process_driver_join` |
  | `joined` | `SendJoinReply` | `process_driver_join`'s one-write bare header, harmless after the peer's close |
  | `reply` | `Reply` / `ReplyToClosed` | `send_response_packet`'s two writes, the second of which raises SIGPIPE after the peer's close |
  | `dead` | — | a worker killed by SIGPIPE |

  More on this module:
  - The monitor pass is one atomic step, `MonitorTick`, because the code holds the lock for the whole loop.
  - For each driver the pass is the composition `MonitorDriver` of the five C steps, in the C order. The random and geometric outcomes (`rand() % 100 < 20`, `< 10`, the A* "stuck" answer, off-map, and the new position) are the fields of a `Choice`.
  - `Tick` advances the wall clock.
  - The ghost variables `trips` (rides not yet ended) and `admitted` (requests let through, per client and second) exist only for the properties.
* `DispatchContract.tla` is the abstract specification of the dispatch path, written from the spec (§4.7 and the ordering guarantees). Its variables are the roster size, the set of booked drivers, and the handled and successful counts and revenue. `Book(i, c)` atomically books a registered driver that is not booked, counts the request and adds the client's fare. `Finish` ends some rides, and `Join` grows the roster while there is room. `RideDispatch` maps onto it with `Abs == INSTANCE DispatchContract WITH ...`:
  - the roster size is `driver_count`;
  - the booked drivers are the drivers of `trips`;
  - each counter and the revenue is its `g_shared_state` total, plus what the worker in the `ledger` step still owes.

  A claim is therefore the abstract `Book`, and the ledger step that follows it under the same lock is a stuttering step. `ImplementsContract == Abs!Spec` is checked as a `PROPERTY`.
* `SessionShort.tla` adds to `Session` the one frame a peer can build without the key: a ride request of length 0, whose checksum is that of no bytes (`AtkEmptyRequest`).
* `MCRideDispatch.tla` declares the worker model values and worker symmetry. The symmetry is sound because workers are interchangeable forks of one loop.
* `Codec.tla` holds the pure primitives, as operators on byte sequences:
  - `calculate_checksum` (`protocol.c`): the byte sum `SumUpTo`, the end-around fold `Fold16`, the complement.
  - `rc4_crypt` (`net_wrapper.c`): the KSA (`KsaSteps` in blocks of 16 by `KsaLoop`) and the PRGA, with `^^` for XOR.
  - `power_mod` with C's truncating `%` (`CRem`), the key pair, the shared secret and `derive_session_key`'s `"KEY_%lld_SECURE"` string (`dh_crypto.c`).
  - TLC evaluates operator arguments and LET definitions lazily. Where it does not cache them, which includes checking fairness, a recursion that uses its argument several times is re-evaluated exponentially. The byte-level operators therefore bind each intermediate value once with `x \in {e}` (`Only`).
* `Pathfinding.tla` models `pathfinding.c`: the 40 × 20 grid with its river and two buildings (`Obstacles`), `is_obstacle`, and `get_next_step_astar`. The function clamps the start and the target into the grid and returns the start when they are equal. Otherwise it returns the greedy step `GreedyDir`: the first free neighbour, in the order up, down, left, right, with the smallest Manhattan distance to the target. The A* search the function runs first only breaks out of its loop, and nothing it computes is read afterwards, so it is not modelled.
* `MCPure.tla` checks the pure functions of `Matching`, `Codec` and `Pathfinding` against reference definitions. Every test case is an initial state: every driver table of up to 3 drivers, every byte sum up to 1024 × 255, three published RC4 vectors, and bases around 0, p and 2p with every exponent up to 64, and every free start cell against every cell a ride can target.
* `Session.tla` models one connection: `handle_client` against either the honest client of `client_core.c` or an adversary.
  - Each direction of the TCP stream is a sequence of whole messages (`c2s`, `s2c`). A message is the header fields plus a body of bytes, and a ghost field `enc` records the key its sender encrypted with.
  - The server has one action per branch of the loop: `SrvEOF`, `SrvOversize`, `SrvHandshake`, `SrvRequestNoKey`, `SrvBadChecksum`, `SrvRide`, `SrvRideOtherOp` (a join or an unknown opcode under the request type), `SrvOther`.
  - `generate_private_key` is a choice from `PrivKeys`. The ride's answer is one of the three texts of `process_ride_request_wrapper`, reduced to the words the client looks for. Rate limiting and matching are `RideDispatch`'s.
  - The honest client has `CliHandshake`, `CliRecvAck`, `CliRecvResp` and `CliRecvFail`. The last one is `recv_n` returning ≤ 0: EOF, or the 2 s `SO_RCVTIMEO` of `single_client.c`/`stress_client.c` when `Timeouts` is TRUE.
  - The adversary sends up to `MaxSends` frames: handshakes with its own key pair or any number, ride requests under a wrong key (among them `WRONG_SECRET_KEY` of `malicious_client.c`) or under the key it derived, oversized or other-type frames. It reads replies and closes whenever it likes.
* `Lifecycle.tla` extends `RideDispatch` with the life of the store across runs. Its variables:
  - `server`: the program running, `"secure"` or `"insecure"`;
  - `phase`: `running`, `stopping` (inside `handle_sigint`) or `down`;
  - `file`: the contents of `server.dat`, which is `NoFile`, `Truncated`, or the image `Snapshot` of every store field with the mutex owner;
  - `monitorLeft`: the monitor may finish one pass after `g_running = 0`;
  - `runs`: a bound.

  Its actions:
  - `WorkerStep`: the RideDispatch worker steps. In the insecure build a ride request goes straight to the search (`AcceptRideInsecure`, `process_ride_request_insecure_wrapper` without the rate limit), and a connection that ends on EOF, a length over 1024, a short body or an unknown opcode is dropped with no reply and no change to the store (`AcceptDroppedInsecure`).
  - `MonitorRun` and `MonitorLastPass`.
  - `Sigint`.
  - `Kill(w)`: SIGTERM ends w at any `pc`, even holding the mutex.
  - `SaveOnSigint`: after every worker is gone. The write succeeds, fails to open (the old file stays), or is short (`Truncated`).
  - `PoolExhausted`: every worker died of SIGPIPE. The secure `main` then runs `cleanup_resources`, whose `save_data_to_file` has the same outcomes as `save_state`.
  - `StartSecure`: a fresh store. If the socket fails, `cleanup_resources` saves the fresh store and the server exits. A failed `shm_open`, `ftruncate` or `mmap` exits before any write, which leaves the file as a failed save does.
  - `StartInsecure`: `ipc_init` restores the file (`IpcRestore`) or starts fresh (`IpcFresh`), then `IpcMutexInit`.

  `RideDispatch`'s `MainInit` (server_main's store) and `FreshDriverTables` are shared by its `Init` and by `StartSecure`.
* `MCLifecycle.tla` declares the worker model values for the Lifecycle runs.
* `MCSession.tla` gives the wrong keys: `"HACKER_WRONG_2025_KEY!"` and two keys of the right shape derived from other secrets.

## Runs

| run | cfg | expect | what it shows |
|-----|-----|--------|---------------|
| pure_vs_reference | MCPure.cfg | pass | Both searches equal the spec's definition on every table of ≤ 3 drivers. Ratings are {4.5, 4.8, 5.0}, distances {0,1} and fuel {0,1}, so boundary ratings, ties and empty tanks all occur. The checksum equals the complement of the ones'-complement sum (including sums needing two folds), RC4 reproduces the published vectors, and `power_mod` equals repeated multiplication for bases at and above the modulus. `StepContract`: from a free cell, the step returns the start exactly on the target cell and otherwise moves onto a free neighbouring cell. This is the assumption behind the monitor reading "no move" as arrival, and it holds because no free cell of this map is walled in. |
| dispatch_safety | MCRideDispatch.cfg | pass | See below. |
| dispatch_liveness | MCRideDispatch_live.cfg | pass | `DriverReturns`: a driver given a ride is available again later. Two workers, one driver and a join slot, under the fairness below. The way back can pass through a refuelling cycle (the tank can run dry during the ride) and through the zombie failsafe. About 9,400 states in 90 s. |
| ratelimit_serial | MCRideDispatch_rate.cfg | pass | With one worker, at most 3 requests per client-second are admitted over two seconds and six requests. |
| ratelimit_race | MCRideDispatch_rate_race.cfg | violation | With two workers, a request holding a stale `time(NULL)` resets the count. 4 requests of second 1 are admitted (finding 1). |
| worker_sigpipe | MCRideDispatch_sigpipe.cfg | violation | A client that has closed before its ride reply kills the worker through SIGPIPE on the reply's second write; a join's one-write reply does not. The worker is never re-forked (finding 2). |
| session_safety | MCSession.cfg | pass | `KeysAgree`: client and handler hold the same key once the request is sent, for every choice of private keys. `NoForgedDispatch`: only requests encrypted with the connection's session key reach the business logic, whatever up to 3 adversary frames do (re-handshakes, wrong keys, stale keys). `TypeOK` bounds both keys by the secrets `power_mod` can return, negative ones included. |
| lifecycle_safety | MCLifecycle.cfg | pass | `MutexHeldInCriticalSection`: while a server runs, only a worker inside the matching critical section holds the mutex. This holds across SIGTERM inside that section, a save of the locked mutex word, and a restore by either server. `LifeTypeOK` keeps `driver_count` within capacity across restores. |
| snapshot_torn | MCLifecycle_torn.cfg | violation | `SnapshotLedgerBalanced`: a worker killed between `MatchClaim` and `MatchLedger` leaves a snapshot whose drivers count one ride more than `total_success_requests` (finding 3). |
| start_failure_overwrites | MCLifecycle_startfail.cfg | violation | `SnapshotOnlyFromServingRun`: a secure start whose socket fails writes its fresh store over the last run's snapshot (finding 4). |
| session_liveness | MCSession_live.cfg | pass | `HonestAnswered`: without timeouts, the honest client always ends with a reply it can decrypt, verify and classify. |
| session_empty_request | SessionShort.cfg | violation | `NoForgedDispatch`: a ride request of length 0 carries checksum 0xFFFF. It passes under any key, after any handshake, and is dispatched with a `client_id` read from the handshake bytes left in `body[]` (finding 5). |

Session bounds: p = 23 with generator 5 keeps every product small, and two or three private keys per side give distinct shared secrets. Three adversary frames are enough for handshake, request and a second handshake or request, the sequences behind a stale-key or repeated request. The adversary's own public keys are 0 and -5: the wire carries an int64, and under C's truncating `%` a negative key gives a negative secret (-5 with private key 3 gives -10, key `KEY_-10_SECURE`), which `TypeOK`'s set of session keys takes in. The wrong keys cover the malicious client's key and keys of the right form. An offline computation over the 24-byte request found no wrong key whose decryption matches the checksum, so no collision is missed by the small set.

The dispatch_safety run has two workers, one initial driver, one free slot for
a join, two clients (5 is a VIP, 50 is not), both dispatch modes and 3
connections. Its properties:
- `NoDoubleBooking`: a driver never has two open rides.
- `DriverStatusConsistent`: a driver is never two of available / navigating / refuelling at once.
- `FuelInRange`: fuel stays in 0..10.
- `ImplementsContract`: the workers, the mutex and the monitor together implement `DispatchContract`. Every booking is atomic, only a free registered driver is booked, each booking is counted exactly once with its client's fare, only the monitor ends rides, and only a join with room adds a driver.

Why these bounds are enough:
- One driver and two workers is the smallest system in which two searches can race for the same driver.
- Each of these properties is about one driver's flags, so adding more drivers only multiplies the states.
- The join slot makes the full-table guard and a joined driver at (0,0) both occur. The monitor's pass then respawns that driver.
- For the rate limiter, 8 connections across 2 seconds with two workers is the smallest bound in which a stale reader can overtake.

Lifecycle bounds: one worker, one driver slot and client 5, over two seconds, with 2 connections per run and 2 runs. This is the smallest instance in which a worker can be killed at every `pc` of a ride (inside the critical section included), and a snapshot of that state can be restored by the other server. One worker suffices because the properties are about one holder of the mutex and one ledger entry. The fuel level is not bounded apart from the tank, so a refuelling driver, which needs 10 burns, is reached. The passing run has 1.8 M states and takes about 20 s.

Each property of a passing run has a mutant in `PROJECT.json`: a plausible bug in the code that TLC must catch.

## Fairness

`Session`'s `Spec` has weak fairness on the handler (`Server`) and on the honest client (`Honest`): each is a separate process blocked only in `recv_n`, and it runs whenever its input is there. The adversary has no fairness. `HonestAnswered` is checked with `Timeouts = FALSE`, because a 2 s timeout can always end the wait; timeouts are on in the safety run. `RideDispatch`'s `LiveSpec` (the dispatch_liveness run) adds three conditions:
- Weak fairness on a worker's `MatchClaim` and `MatchLedger`: inside the critical section a worker never blocks until it unlocks.
- Strong fairness on `MonitorTick`: the monitor thread loops forever, blocked only by the mutex, and every holder releases it.
- Strong fairness on `MonitorArrivals`, a pass that ends every open ride. Each pass ends a navigating driver's ride with probability at least 0.2 (`rand() % 100 < 20`), so with probability 1 such a pass comes while passes keep coming.

Accepting a connection depends on the clients and gets no fairness.

## Not modelled (yet)

- **Short reads.** `Session`'s messages always carry a body of their declared length, so a short body (`dispatcher.c:122`) and a handshake body under 8 bytes are not modelled. A request shorter than `RideRequestData` is modelled only at length 0 (`SessionShort`), the one length whose checksum needs no key.
- **Session × RideDispatch.** The two are checked separately. A composition would bring wire client ids (negative, 0) into the rate limiter, and many stalled connections into the worker pool. Spec §5 states the second as the design: the server has no read timeout, and a stalled client holds its worker until it goes away, so no property claims otherwise.
- **A save in the middle of a monitor pass.** The pass is atomic in the model, so an image with some drivers moved and others not is not produced. The flags such an image could leave out of step are the ones the restore keeps as saved anyway (next item).
- **The restore rule of spec §4.5.** `ipc_init` sets only `is_available` on restore, so a driver saved while refuelling comes back available and refuelling, and one saved mid-trip keeps its target. `IpcRestore` does what the code does, and this divergence is not checked by a run.
- **`malicious_client.c`.** It never assigns the header type of its frame and waits with no timeout. The frames it can send are among `Session`'s adversary frames; the test tool itself is not modelled.
- **Positions in the monitor.** `RideDispatch` abstracts a driver's position to a distance class, and the monitor's A* step is a choice (`Move`); `Pathfinding` checks the step on its own. The double-precision round trip between a cell and a coordinate is not modelled. That round trip loses a cell: the monitor writes a step as `BASE + cell/2000` and reads it back with `(int)((lat - BASE) * 2000)`, which gives `cell - 1` for y ∈ {1, 4, 7, 10, 13, 16, 19} and for 19 of the 40 x values (computed in IEEE double, as on x86-64). A driver whose next step is such a cell is read back one cell short, gets the same step again, and never moves; only the 20% random arrival ends its ride. `Move` allows this outcome, so no run is affected. The header's claim that an unreachable target returns the start does not hold either: for a target inside a building the step oscillates between free cells.
- **Pricing** is never called.
- **The insecure server's protocol** (plaintext replies, no checksum) changes no state and is not modelled. Its shared-state path is in `Lifecycle`.
- **Out of the spec's scope (§1), and changing no state of the server:** the mains of the clients (argument parsing; the load generator's retry loop, whose 2 s timeout can count a failure for a ride the server booked, and its report), text logging (`log_system.c`), the console dashboard the monitor draws after releasing the mutex (it reads drivers unlocked, so it can show a state no driver had), and the dump tool (`dump_dat.c`), which prints the `server.dat` image `Lifecycle` models as `file`.
- **The insecure wrapper's request body.** `process_ride_request_insecure_wrapper` reads `client_id` from the body even when the header's length is 0, so the id is whatever the stack held. `AcceptRideInsecure` takes any id of `Clients`, and no property is about which client is served.

## Plan

1. A composition of Session and RideDispatch that carries wire client ids (0, and ids of 2^31 and over, which arrive negative) into the rate limiter and the VIP test.
2. Lifecycle liveness: a SIGINT ends in a saved snapshot under fairness of the kernel's signal delivery.
