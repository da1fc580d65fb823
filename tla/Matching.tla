------------------------------ MODULE Matching ------------------------------
(***************************************************************************)
(* The Matching Engine: find_driver_basic and find_driver_smart of         *)
(* src/server/dispatch_algorithms.c, as pure operators over a driver      *)
(* table.                                                                  *)
(*                                                                         *)
(* A driver is a record with the fields the search reads:                  *)
(*   avail   is_available                                                  *)
(*   refuel  is_refueling                                                  *)
(*   fuel    fuel                                                          *)
(*   rating  rating, in tenths (4.8 is 48)                                 *)
(*   dist    calculate_distance from the dispatch origin, abstracted to a  *)
(*           small natural number that keeps the order and the ties of     *)
(*           the real distances                                            *)
(* A table is a function from 1..driver_count to drivers (C index i is     *)
(* model index i+1).                                                       *)
(***************************************************************************)
EXTENDS Integers

\* best_index = -1: no driver found
NoDriver == -1

\* #define VIP_RATING_THRESHOLD 4.8, in tenths
VIP_RATING_THRESHOLD == 48

\* The loop guard of both searches: available, not refueling, fuel left;
\* in the VIP layer also a rating at or above the threshold.
Candidate(d, vipOnly) ==
    /\ d.avail
    /\ ~d.refuel
    /\ d.fuel > 0
    /\ vipOnly => d.rating >= VIP_RATING_THRESHOLD

\* Mutant: "<=" in place of "<", so ties go to the highest index.
RECURSIVE ScanLoopTieLast(_, _, _, _, _)
ScanLoopTieLast(ds, n, vipOnly, i, b) ==
    IF i > n THEN b
    ELSE ScanLoopTieLast(ds, n, vipOnly, i + 1,
                         IF Candidate(ds[i], vipOnly)
                            /\ (b = NoDriver \/ ds[i].dist <= ds[b].dist)
                         THEN i ELSE b)

(***************************************************************************)
(* The for loop, from index i with best index b found so far.  min_dist    *)
(* starts at 1000000.0, which every modelled distance is below, so "no     *)
(* best yet" is b = NoDriver; a later driver replaces the best only when   *)
(* strictly nearer (dist < min_dist), so ties go to the lowest index.      *)
(***************************************************************************)
RECURSIVE ScanLoop(_, _, _, _, _)
ScanLoop(ds, n, vipOnly, i, b) ==
    IF i > n THEN b
    ELSE ScanLoop(ds, n, vipOnly, i + 1,
                  IF Candidate(ds[i], vipOnly)
                     /\ (b = NoDriver \/ ds[i].dist < ds[b].dist)
                  THEN i ELSE b)

find_driver_basic(ds, n) == ScanLoop(ds, n, FALSE, 1, NoDriver)

\* Mutant: a VIP with no high-rated driver gets no fallback.
find_driver_smart_nofallback(ds, n, is_vip) ==
    IF is_vip THEN ScanLoop(ds, n, TRUE, 1, NoDriver) ELSE find_driver_basic(ds, n)

\* VIP layer first; when it finds nobody, or the request is not VIP,
\* fall back to the basic search.
find_driver_smart(ds, n, is_vip) ==
    LET vip == IF is_vip THEN ScanLoop(ds, n, TRUE, 1, NoDriver) ELSE NoDriver
    IN  IF vip # NoDriver THEN vip ELSE find_driver_basic(ds, n)

-----------------------------------------------------------------------------
(***************************************************************************)
(* Reference definitions, from the spec's Matching Engine section (4.6):  *)
(* the nearest usable driver, lowest index on ties; for a VIP in smart     *)
(* mode the nearest usable driver rated at least 4.8 if there is one.      *)
(***************************************************************************)
Usable(d) == d.avail /\ ~d.refuel /\ d.fuel # 0

Nearest(ds, S) ==
    IF S = {} THEN NoDriver
    ELSE CHOOSE i \in S : \A j \in S :
             ds[i].dist < ds[j].dist \/ (ds[i].dist = ds[j].dist /\ i <= j)

SpecBasic(ds, n) == Nearest(ds, {i \in 1..n : Usable(ds[i])})

SpecSmart(ds, n, is_vip) ==
    LET rated == {i \in 1..n : Usable(ds[i]) /\ ds[i].rating >= 48}
    IN  IF is_vip /\ rated # {} THEN Nearest(ds, rated) ELSE SpecBasic(ds, n)

=============================================================================
