------------------------------- MODULE MCPure -------------------------------
(***************************************************************************)
(* Checks the pure functions of the server against reference definitions. *)
(* Each initial state is one test case; Next only stutters.                *)
(*   match  a driver table of up to MaxN drivers and a VIP flag.  Ratings  *)
(*          are those the program can give a driver: 4.5 and 4.8 (3.5 +   *)
(*          k/10 at startup; 4.8 is exactly the threshold) and 5.0;        *)
(*          distances 0..1 make ties and strict order both occur.          *)
(*   fold   every accumulator value a checksum can reach (a body is at     *)
(*          most 1024 bytes, so the byte sum is at most 1024 * 255)        *)
(*   rc4    published RC4 test vectors                                     *)
(*   pow    bases around 0, the modulus and twice the modulus, every       *)
(*          exponent up to MaxExp                                          *)
(*   step   every free cell of the city grid as the start, every cell a    *)
(*          ride can target (rand() % 90 and % 180 hundredths of a         *)
(*          thousandth: x 0..35, y 0..17) as the target                    *)
(* DH_PRIME is a prime whose square fits TLC's 32-bit integers; the C code *)
(* uses 2^31 - 1, whose square still fits the long long products.          *)
(***************************************************************************)
EXTENDS Matching, Codec, Pathfinding, Naturals

CONSTANTS MaxN, Ratings, Dists, Fuels, MaxSum, Bases, MaxExp

Driver == [avail : BOOLEAN, refuel : BOOLEAN, fuel : Fuels,
           rating : Ratings, dist : Dists]

\* Test vectors: key, plaintext and ciphertext as byte sequences.
Vectors ==
    << [key |-> <<75, 101, 121>>,                                   \* "Key"
        plain |-> <<80, 108, 97, 105, 110, 116, 101, 120, 116>>,   \* "Plaintext"
        cipher |-> <<187, 243, 22, 232, 217, 64, 175, 10, 211>>],
       [key |-> <<87, 105, 107, 105>>,                              \* "Wiki"
        plain |-> <<112, 101, 100, 105, 97>>,                       \* "pedia"
        cipher |-> <<16, 33, 191, 4, 32>>],
       [key |-> <<83, 101, 99, 114, 101, 116>>,                     \* "Secret"
        plain |-> <<65, 116, 116, 97, 99, 107, 32, 97, 116, 32,     \* "Attack at dawn"
                    100, 97, 119, 110>>,
        cipher |-> <<69, 160, 31, 100, 95, 195, 91, 56, 53, 82, 84,
                     75, 155, 245>>] >>

Cases ==
    UNION {[kind : {"match"}, n : {k}, ds : [1..k -> Driver], vip : BOOLEAN] :
               k \in 0..MaxN}
    \cup [kind : {"fold"}, s : 0..MaxSum]
    \cup [kind : {"rc4"}, v : DOMAIN Vectors]
    \cup [kind : {"pow"}, b : Bases, e : 0..MaxExp]
    \cup [kind : {"step"}, s : Grid \ Obstacles, t : (0..35) \X (0..17)]

VARIABLE case

Init == case \in Cases

Next == UNCHANGED case

Spec == Init /\ [][Next]_case

\* The Internet checksum: the ones'-complement sum (end-around carry, so 0
\* only for an all-zero sum) and its complement.
OnesComplementSum(s) == IF s = 0 THEN 0 ELSE 1 + ((s - 1) % 65535)

\* b^e mod m, one multiplication at a time.
RECURSIVE RefPow(_, _, _)
RefPow(b, e, m) == IF e = 0 THEN 1 ELSE (b * RefPow(b, e - 1, m)) % m

\* The free cells next to cell c.
FreeNeighbours(c) ==
    {<<c[1] + dx, c[2] + dy>> : <<dx, dy>> \in {<<0, -1>>, <<0, 1>>, <<-1, 0>>, <<1, 0>>}}
        \cap (Grid \ Obstacles)

\* find_driver_basic returns the nearest available, non-refuelling driver
\* with fuel, the lowest index among equally near ones, or -1.
BasicMatchesSpec ==
    case.kind = "match" =>
        find_driver_basic(case.ds, case.n) = SpecBasic(case.ds, case.n)

\* find_driver_smart gives a VIP the nearest such driver rated >= 4.8 when
\* there is one, and otherwise (or for a standard client) falls back to the
\* basic search.
SmartMatchesSpec ==
    case.kind = "match" =>
        find_driver_smart(case.ds, case.n, case.vip) = SpecSmart(case.ds, case.n, case.vip)

\* calculate_checksum's fold-and-complement equals the complement of the
\* ones'-complement sum of the bytes (spec 4.1), for every byte sum a
\* 1024-byte body can have, including those that need a second fold.
ChecksumMatchesSpec ==
    case.kind = "fold" =>
        Complement16(Fold16(case.s)) = 65535 - OnesComplementSum(case.s)

\* rc4_crypt reproduces the published RC4 keystream for each test vector.
Rc4KnownAnswer ==
    case.kind = "rc4" =>
        rc4_crypt(Vectors[case.v].plain, Vectors[case.v].key) = Vectors[case.v].cipher

\* power_mod computes base^exp mod DH_PRIME for a base already reduced or
\* not (a public key from the wire may be >= P).
PowModMatchesSpec ==
    case.kind = "pow" =>
        power_mod(case.b, case.e, DH_PRIME) = RefPow(case.b % DH_PRIME, case.e, DH_PRIME)

\* The map monitor takes "get_next_step_astar returned the driver's own
\* cell" to mean the ride is over (map_monitor.c 102-103).  From any free
\* cell the step returns the start exactly when the driver is on its target
\* cell, and otherwise moves it onto a free neighbouring cell, never into
\* the river, a building or off the grid: on this map no free cell is
\* walled in.
StepContract ==
    case.kind = "step" =>
        LET n == get_next_step_astar(case.s, case.t) IN
        IF case.s = case.t THEN n = case.s ELSE n \in FreeNeighbours(case.s)

=============================================================================
