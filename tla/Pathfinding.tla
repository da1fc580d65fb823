---------------------------- MODULE Pathfinding ----------------------------
(***************************************************************************)
(* pathfinding.c: the static city grid and get_next_step_astar, the step  *)
(* the map monitor takes towards a driver's target.  Cells are <<x, y>>.   *)
(*                                                                         *)
(* get_next_step_astar runs an A* search from start to target, but the    *)
(* search only breaks out of its loop: nothing it computes is read after  *)
(* it.  The step returned is the greedy one of its last loop, the first   *)
(* free neighbour (up, down, left, right) with the smallest Manhattan      *)
(* distance to the target, or the start when no neighbour is free.  The   *)
(* A* loop therefore has no part in the result and is not modelled.        *)
(***************************************************************************)
EXTENDS Integers

MAP_WIDTH == 40
MAP_HEIGHT == 20

Grid == (0..MAP_WIDTH - 1) \X (0..MAP_HEIGHT - 1)

\* init_map_obstacles: a river at x = 20 and two buildings.
Obstacles ==
    ({20} \X (5..14)) \cup ((5..9) \X (3..6)) \cup ((30..34) \X (12..15))

\* Off the grid counts as an obstacle.
is_obstacle(x, y) == <<x, y>> \notin Grid \/ <<x, y>> \in Obstacles

AbsVal(n) == IF n < 0 THEN -n ELSE n

calculate_h(x, y, tx, ty) == AbsVal(x - tx) + AbsVal(y - ty)

\* The four directions in the order of dx[] / dy[].
Dirs == << <<0, -1>>, <<0, 1>>, <<-1, 0>>, <<1, 0>> >>

\* Boundary protection: a coordinate is clamped into the grid.
Clamp(v, hi) == IF v < 0 THEN 0 ELSE IF v >= hi THEN hi - 1 ELSE v

\* Mutant: the greedy search checks only the grid bounds, not obstacles.
RECURSIVE GreedyDirIntoWalls(_, _, _, _, _)
GreedyDirIntoWalls(sx, sy, tx, ty, i) ==
    IF i = 0 THEN 0
    ELSE LET best == GreedyDirIntoWalls(sx, sy, tx, ty, i - 1)
             nx == sx + Dirs[i][1]
             ny == sy + Dirs[i][2]
             score(d) == calculate_h(sx + Dirs[d][1], sy + Dirs[d][2], tx, ty)
         IN  IF <<nx, ny>> \in Grid
                /\ (best = 0 \/ score(i) < score(best))
             THEN i ELSE best

\* The local greedy search: the first direction of strictly smallest score
\* among the free in-grid neighbours; 0 when there is none.
RECURSIVE GreedyDir(_, _, _, _, _)
GreedyDir(sx, sy, tx, ty, i) ==
    IF i = 0 THEN 0
    ELSE LET best == GreedyDir(sx, sy, tx, ty, i - 1)
             nx == sx + Dirs[i][1]
             ny == sy + Dirs[i][2]
             score(d) == calculate_h(sx + Dirs[d][1], sy + Dirs[d][2], tx, ty)
         IN  IF ~is_obstacle(nx, ny)
                /\ (best = 0 \/ score(i) < score(best))
             THEN i ELSE best

get_next_step_astar(start, target) ==
    LET sx == Clamp(start[1], MAP_WIDTH)
        sy == Clamp(start[2], MAP_HEIGHT)
        tx == Clamp(target[1], MAP_WIDTH)
        ty == Clamp(target[2], MAP_HEIGHT)
        d  == GreedyDir(sx, sy, tx, ty, 4)
    IN  IF sx = tx /\ sy = ty THEN <<sx, sy>>
        ELSE IF d = 0 THEN <<sx, sy>>
        ELSE <<sx + Dirs[d][1], sy + Dirs[d][2]>>

=============================================================================
