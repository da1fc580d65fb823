-------------------------- MODULE DispatchContract --------------------------
(***************************************************************************)
(* What the dispatch path promises, with no workers, mutex or monitor:    *)
(* each booking is one indivisible step that takes a registered driver    *)
(* not already on a ride, counts one handled and one successful request   *)
(* and adds the client's fare (100, plus 50 for a VIP id <= 10) to the    *)
(* revenue (spec, Matching Engine and Resource Ledger; ordering           *)
(* guarantees: "no two concurrent requests can be assigned the same       *)
(* driver").  A ride ends at some later point, and a driver can join      *)
(* while the roster has room.  RideDispatch is checked to implement it.   *)
(***************************************************************************)
EXTENDS Naturals

CONSTANTS MaxDrivers, Clients

VARIABLES
    registered,    \* drivers on the roster: 1..registered
    booked,        \* drivers on a ride
    handled,       \* requests handled
    success,       \* requests that got a driver
    revenue        \* fares earned

cvars == <<registered, booked, handled, success, revenue>>

ContractFare(c) == 100 + (IF c <= 10 THEN 50 ELSE 0)

CInit ==
    /\ registered \in 0..MaxDrivers
    /\ booked = {}
    /\ handled = 0
    /\ success = 0
    /\ revenue = 0

\* One atomic booking of a free registered driver for client c.
Book(i, c) ==
    /\ i \in 1..registered
    /\ i \notin booked
    /\ booked' = booked \cup {i}
    /\ handled' = handled + 1
    /\ success' = success + 1
    /\ revenue' = revenue + ContractFare(c)
    /\ UNCHANGED registered

\* Some rides end.
Finish ==
    /\ \E done \in SUBSET booked : done # {} /\ booked' = booked \ done
    /\ UNCHANGED <<registered, handled, success, revenue>>

\* A driver joins while there is room.
Join ==
    /\ registered < MaxDrivers
    /\ registered' = registered + 1
    /\ UNCHANGED <<booked, handled, success, revenue>>

CNext ==
    \/ \E i \in 1..MaxDrivers, c \in Clients : Book(i, c)
    \/ Finish
    \/ Join

Spec == CInit /\ [][CNext]_cvars

=============================================================================
