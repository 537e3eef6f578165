--------------------------- MODULE FiremenMobility ---------------------------
(***************************************************************************)
(* FiremenMobilityModel: a fireman goes to a waypoint in the strip of his  *)
(* team, walks at random in a rectangle around it for about m_fallTime and *)
(* falls back to a waypoint in the next strip.                             *)
(*                                                                         *)
(* Time advances with the simulator, from event to event.  Positions are   *)
(* on a grid; a unit of length is what he covers of either axis in a unit  *)
(* of time in the four diagonal directions.  The halves of the spread      *)
(* differ in parity: then no walk meets a corner of the rectangle exactly, *)
(* which has no chance to happen in doubles either.                        *)
(***************************************************************************)
EXTENDS Integers, FiniteSets

CONSTANTS
  XMax, YMax,          \* m_area, from (0, 0)
  NumTeams, TeamId,
  HeightWpArea,
  HalfX, HalfY,        \* halves of SpreadX and SpreadY
  WalkTime, FallbackTime,
  TravelTimes,         \* the times a way to a waypoint may take
  Positions,           \* what SetPosition may be called with
  Below,               \* bound: no waypoints further below the area
  MaxMoves             \* bound: calls of SetPosition

ASSUME TimesAssumption ==
  /\ WalkTime \in Nat \ {0} /\ FallbackTime \in Nat
  /\ TravelTimes \subseteq Nat \ {0}

ASSUME SpaceAssumption ==
  /\ HalfX \in Nat \ {0} /\ HalfY \in Nat \ {0} /\ (HalfX + HalfY) % 2 = 1
  /\ {XMax, YMax, TeamId, HeightWpArea, Below, MaxMoves} \subseteq Nat
  /\ NumTeams \in Nat \ {0} /\ XMax % NumTeams = 0
  /\ Positions \subseteq Int \X Int

VARIABLES
  initialized,   \* DoInitialize has run
  m_minY, m_bounds, m_cur,
  pos, vel,      \* m_helper: the position at the last update; a velocity is
                 \* a way per time
  pending,       \* the events in the simulator; held: the one of m_event
  stay,          \* time since he reached his waypoint, or OnTheWay
  moves, moved   \* calls of SetPosition, and one since m_cur was 0

vars == << initialized, m_minY, m_bounds, m_cur, pos, vel, pending, stay, moves, moved >>

OnTheWay == -1

(* The first whole number of walks that is longer than FallbackTime *)
WholeStay == WalkTime * ((FallbackTime \div WalkTime) + 1)

(* Beyond that stay tells no more. *)
Longer(time) == IF stay + time <= WholeStay THEN stay + time ELSE WholeStay + 1

Event(fun, delay, left) == [fun |-> fun, in |-> delay, left |-> left, held |-> TRUE]

KeepEvents(events) == events

(* m_event.Cancel () and Simulator::Remove (m_event) *)
Cancel(events) == {e \in events : ~ e.held}

(* m_event = Simulator::Schedule (...): an event it held before goes on. *)
Schedule(events, event) == {[e EXCEPT !.held = FALSE] : e \in events} \cup {event}

(* The other events when that much time has passed *)
After(time, events) == {[e EXCEPT !.in = @ - time] : e \in events}

-----------------------------------------------------------------------------
(* Rectangle and ConstantVelocityHelper of ns-3 *)
Around(waypoint) ==
  [xMin |-> waypoint[1] - HalfX, xMax |-> waypoint[1] + HalfX,
   yMin |-> waypoint[2] - HalfY, yMax |-> waypoint[2] + HalfY]

IsInside(bounds, p) ==
  /\ bounds.xMin <= p[1] /\ p[1] <= bounds.xMax
  /\ bounds.yMin <= p[2] /\ p[2] <= bounds.yMax

Least(a, b) == IF a <= b THEN a ELSE b

Greatest(a, b) == IF a <= b THEN b ELSE a

(* UpdateWithBounds *)
Clamp(bounds, p) ==
  << Greatest(bounds.xMin, Least(bounds.xMax, p[1])),
     Greatest(bounds.yMin, Least(bounds.yMax, p[2])) >>

Moved(p, v, time) ==
  << p[1] + (time \div v.per) * v.x, p[2] + (time \div v.per) * v.y >>

(* The time to the side that he meets first: CalculateIntersection. *)
TimeToSide(bounds, p, v) ==
  Least(IF v.x > 0 THEN bounds.xMax - p[1] ELSE p[1] - bounds.xMin,
        IF v.y > 0 THEN bounds.yMax - p[2] ELSE p[2] - bounds.yMin)

(* GetClosestSide is the left or the right one. *)
ClosestIsLeftOrRight(bounds, p) ==
  Least(p[1] - bounds.xMin, bounds.xMax - p[1])
    < Least(p[2] - bounds.yMin, bounds.yMax - p[2])

-----------------------------------------------------------------------------
Diagonals == [x : {-1, 1}, y : {-1, 1}, per : {1}]

WalkThrough(p, v, delayLeft, events) ==
  Schedule(Cancel(events), Event("RandomWalk", delayLeft, 0))

(* DoWalkRandom: the events after it *)
DoWalkRandom(p, v, delayLeft, events) ==
  LET delay == TimeToSide(m_bounds, p, v)
      event == IF IsInside(m_bounds, Moved(p, v, delayLeft))
               THEN Event("RandomWalk", delayLeft, 0)
               ELSE Event("Rebound", delay, delayLeft - delay)
  IN Schedule(Cancel(events), event)

(* DoInitializePrivate and DoWalk.  The lower edge of the next strip is    *)
(* tested for 0 only: there it comes to 0 either way, and goes on below.   *)
SelectWaypoint(minY, p, events) ==
  LET length == XMax \div NumTeams
      xLowLeft == TeamId * length
      yLowLeft == IF minY - HeightWpArea # 0 THEN minY - HeightWpArea ELSE 0
  IN /\ m_minY' = yLowLeft
     /\ \E waypoint \in (xLowLeft..xLowLeft + length)
                          \X (yLowLeft..yLowLeft + HeightWpArea),
           time \in TravelTimes :
          /\ m_bounds' = Around(waypoint)
          /\ vel' = [x |-> waypoint[1] - p[1], y |-> waypoint[2] - p[2], per |-> time]
          /\ pending' = Schedule(Cancel(events), Event("RandomWalk", time, 0))
     /\ pos' = p /\ stay' = OnTheWay

(* The helper that installs the model has set the position: an event to    *)
(* select a waypoint is pending, behind the one to initialise the node.    *)
Init ==
  /\ initialized = FALSE /\ m_minY = YMax /\ m_bounds = Around(<<0, 0>>)
  /\ m_cur = 0 /\ pos \in Positions /\ vel = [x |-> 0, y |-> 0, per |-> 1]
  /\ pending = {Event("Select", 0, 0)}
  /\ stay = OnTheWay /\ moves = 0 /\ moved = FALSE

DoInitialize ==
  /\ ~ initialized /\ initialized' = TRUE
  /\ m_cur' = 0
  /\ SelectWaypoint(YMax, pos, pending)
  /\ UNCHANGED << moves, moved >>

(* The simulator runs the event that is due next. *)
IsNext(e, fun) ==
  initialized /\ e.fun = fun /\ \A f \in pending : e.in <= f.in

DoInitializePrivate ==
  /\ m_minY > - Below
  /\ \E e \in pending :
       /\ IsNext(e, "Select")
       /\ SelectWaypoint(m_minY, Moved(pos, vel, e.in), After(e.in, pending \ {e}))
  /\ UNCHANGED << initialized, m_cur, moves, moved >>

SpentNothing(cur) == cur

RestedAlready(cur) == cur >= FallbackTime

Rested(cur) == cur > FallbackTime

(* What the next walk adds to m_cur *)
Spent(cur) == cur + WalkTime

(* DoInitializePrivateRandomWalk: at the waypoint and after each walk *)
DoInitializePrivateRandomWalk ==
  /\ \E e \in pending, v \in Diagonals :
       LET here == Moved(pos, vel, e.in)
           others == After(e.in, pending \ {e})
       IN /\ IsNext(e, "RandomWalk")
          /\ pos' = here /\ vel' = v
          /\ stay' = IF stay = OnTheWay THEN 0 ELSE Longer(e.in)
          /\ \/ /\ Rested(m_cur)
                /\ m_cur' = 0 /\ moved' = FALSE
                /\ pending' = Schedule(Cancel(others), Event("Select", 0, 0))
             \/ /\ ~ Rested(m_cur)
                /\ m_cur' = Spent(m_cur)
                /\ pending' = DoWalkRandom(here, v, WalkTime, others)
                /\ UNCHANGED moved
  /\ UNCHANGED << initialized, m_minY, m_bounds, moves >>

(* The velocity after a side is met *)
Bounce(bounds, p, v) ==
  IF ClosestIsLeftOrRight(bounds, p) THEN [v EXCEPT !.x = - @] ELSE [v EXCEPT !.y = - @]

Rebound ==
  /\ \E e \in pending :
       LET here == Clamp(m_bounds, Moved(pos, vel, e.in))
           v == Bounce(m_bounds, here, vel)
       IN /\ IsNext(e, "Rebound")
          /\ pos' = here /\ vel' = v /\ stay' = Longer(e.in)
          /\ pending' = DoWalkRandom(here, v, e.left, After(e.in, pending \ {e}))
  /\ UNCHANGED << initialized, m_minY, m_bounds, m_cur, moves, moved >>

(* DoSetPosition, at any time until the next event; m_cur stays as it is.  *)
DoSetPosition(p) ==
  /\ initialized /\ moves < MaxMoves
  /\ \E e \in pending : \E time \in 0..e.in :
       /\ \A f \in pending : e.in <= f.in
       /\ pending' = Schedule(Cancel(After(time, pending)), Event("Select", 0, 0))
  /\ pos' = p /\ vel' = [x |-> 0, y |-> 0, per |-> 1]
  /\ stay' = OnTheWay /\ moves' = moves + 1 /\ moved' = TRUE
  /\ UNCHANGED << initialized, m_minY, m_bounds, m_cur >>

Run ==
  DoInitialize \/ DoInitializePrivate \/ DoInitializePrivateRandomWalk \/ Rebound

Next == Run \/ \E p \in Positions : DoSetPosition(p)

(* The simulator goes on to the next event. *)
Spec == Init /\ [][Next]_vars /\ WF_vars(Run)

-----------------------------------------------------------------------------
(* One chain of events moves a fireman: whatever is set, cancelled and     *)
(* scheduled, exactly one event is pending and m_event holds it.           *)
OneEvent == initialized => \E e \in pending : pending = {e} /\ e.held

Walks == stay # OnTheWay /\ \A e \in pending : e.fun # "Select"

(* On a walk he is in the rectangle around his waypoint, now and, as it is *)
(* convex, until the next event, after any number of rebounds.             *)
StaysInBounds ==
  Walks => \A e \in pending :
             IsInside(m_bounds, pos) /\ IsInside(m_bounds, Moved(pos, vel, e.in))

(* He falls back after the first whole number of walks that is longer than *)
(* FallbackTime: rebounds take nothing from a walk and add nothing to it.  *)
(* Where SetPosition came in between, m_cur is not reset, and the next     *)
(* stay is shorter.                                                        *)
FallsBackInTime ==
  [][m_cur' < m_cur =>
       stay' <= WholeStay /\ (~ moved => stay' = WholeStay)]_vars

(* No walk is without end: a fireman at a waypoint leaves it. *)
FallsBack == Walks ~> ~ Walks
=============================================================================
