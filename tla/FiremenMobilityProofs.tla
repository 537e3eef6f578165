------------------------ MODULE FiremenMobilityProofs ------------------------
(***************************************************************************)
(* For every area, spread, walk time and fallback time: one event moves a  *)
(* fireman, his walks stay in the rectangle around his waypoint, and he    *)
(* falls back after a whole number of walks.                               *)
(***************************************************************************)
EXTENDS FiremenMobility, TLAPS

Points == Int \X Int

Rectangles == [xMin : Int, xMax : Int, yMin : Int, yMax : Int]

Velocities == [x : Int, y : Int, per : Nat \ {0}]

Events ==
  [fun : {"Select", "RandomWalk", "Rebound"}, in : Nat, left : Nat, held : {TRUE}]

(* The number of walks in a whole stay *)
Walkings == (FallbackTime \div WalkTime) + 1

Types ==
  /\ initialized \in BOOLEAN /\ m_minY \in Int /\ m_bounds \in Rectangles
  /\ pos \in Points /\ vel \in Velocities /\ stay \in Int /\ moved \in BOOLEAN

(* m_cur counts walks, and one that is not finished. *)
Counts == \E k \in 0..Walkings : m_cur = k * WalkTime

Selects(e) == e.fun = "Select" /\ e.in = 0 /\ (~ moved => m_cur = 0)

Arrives(e) ==
  /\ e.fun = "RandomWalk" /\ stay = OnTheWay /\ (~ moved => m_cur = 0)
  /\ IsInside(m_bounds, Moved(pos, vel, e.in))

(* The walk under way ends when m_cur says, or before if he was set. *)
OnWalk(e) ==
  /\ e.fun \in {"RandomWalk", "Rebound"} /\ vel \in Diagonals /\ stay \in Nat
  /\ IsInside(m_bounds, pos) /\ IsInside(m_bounds, Moved(pos, vel, e.in))
  /\ e.fun = "RandomWalk" => e.left = 0
  /\ stay + e.in + e.left <= m_cur
  /\ ~ moved => stay + e.in + e.left = m_cur

Inv ==
  /\ Types /\ Counts /\ (initialized \/ m_cur = 0)
  /\ \E e \in Events :
       /\ pending = {e}
       /\ Selects(e) \/ (initialized /\ (Arrives(e) \/ OnWalk(e)))

-----------------------------------------------------------------------------
(* m_cur exceeds FallbackTime exactly when it counts a whole stay. *)
LEMMA WholeWalks ==
  ASSUME NEW k \in 0..Walkings
  PROVE  /\ Walkings \in Nat /\ WholeStay = Walkings * WalkTime
         /\ k * WalkTime \in Nat /\ k * WalkTime <= WholeStay
         /\ k * WalkTime > FallbackTime <=> k = Walkings
         /\ (k + 1) * WalkTime = k * WalkTime + WalkTime
<1> DEFINE q == FallbackTime \div WalkTime
<1> DEFINE r == FallbackTime % WalkTime
<1>1. /\ FallbackTime \in Nat /\ WalkTime \in Nat /\ WalkTime > 0
  BY TimesAssumption
<1>2. /\ q \in Nat /\ r \in Nat /\ r < WalkTime /\ FallbackTime = q * WalkTime + r
  BY <1>1, SMT
<1>3. Walkings = q + 1 /\ WholeStay = WalkTime * (q + 1)
  BY DEF Walkings, WholeStay
<1> HIDE DEF q, r
<1>4. /\ k \in Nat /\ k <= q + 1
  BY <1>2, <1>3
<1>5. /\ (q + 1) * WalkTime = q * WalkTime + WalkTime
      /\ (k + 1) * WalkTime = k * WalkTime + WalkTime
      /\ WalkTime * (q + 1) = (q + 1) * WalkTime
      /\ k * WalkTime \in Nat /\ q * WalkTime \in Nat
  BY <1>1, <1>2, <1>4, SMT
<1>6. CASE k = q + 1
  BY <1>1, <1>2, <1>3, <1>5, <1>6
<1>7. CASE k <= q
  <2>1. k * WalkTime <= q * WalkTime
    BY <1>1, <1>2, <1>4, <1>7, SMT
  <2>2. QED
    BY <1>1, <1>2, <1>3, <1>4, <1>5, <1>7, <2>1
<1>8. QED
  BY <1>2, <1>4, <1>6, <1>7

(* Of one event that is held nothing is left once it has run or been       *)
(* cancelled.                                                              *)
LEMMA NothingLeft ==
  ASSUME NEW e \in Events
  PROVE  /\ After(e.in, {e} \ {e}) = {}
         /\ Cancel({}) = {} /\ Cancel({e}) = {}
         /\ \A time : Cancel(After(time, {e})) = {}
         /\ \A event : Schedule({}, event) = {event}
<1>1. e.held
  BY Zenon DEF Events
<1>2. After(e.in, {e} \ {e}) = {}
  BY DEF After
<1>3. Cancel({}) = {} /\ Cancel({e}) = {}
  BY <1>1 DEF Cancel
<1>4. ASSUME NEW time
      PROVE  Cancel(After(time, {e})) = {}
  <2>1. [e EXCEPT !.in = @ - time].held = e.held
    BY DEF Events
  <2>2. QED
    BY <1>1, <2>1 DEF Cancel, After
<1>5. \A event : Schedule({}, event) = {event}
  BY DEF Schedule
<1>6. QED
  BY <1>2, <1>3, <1>4, <1>5

(* After DoWalkRandom one event is pending; until then he stays inside,    *)
(* and what is left of the walk is left.                                   *)
LEMMA WalkRandom ==
  ASSUME NEW p \in Points, NEW v \in Diagonals, NEW left \in Nat,
         m_bounds \in Rectangles, IsInside(m_bounds, p)
  PROVE  \E f \in Events :
           /\ DoWalkRandom(p, v, left, {}) = {f}
           /\ f.fun \in {"RandomWalk", "Rebound"}
           /\ f.fun = "RandomWalk" => f.left = 0
           /\ f.in + f.left = left
           /\ IsInside(m_bounds, Moved(p, v, f.in))
<1> DEFINE delay == TimeToSide(m_bounds, p, v)
<1> DEFINE straight == Event("RandomWalk", left, 0)
<1> DEFINE bent == Event("Rebound", delay, left - delay)
<1>1. /\ v.x \in {-1, 1} /\ v.y \in {-1, 1} /\ v.per = 1
      /\ p[1] \in Int /\ p[2] \in Int
      /\ m_bounds.xMin \in Int /\ m_bounds.xMax \in Int
      /\ m_bounds.yMin \in Int /\ m_bounds.yMax \in Int
  BY DEF Diagonals, Points, Rectangles
<1>2. \A time \in Nat : Moved(p, v, time) = <<p[1] + time * v.x, p[2] + time * v.y>>
  BY <1>1, SMT DEF Moved
<1>3. DoWalkRandom(p, v, left, {})
        = {IF IsInside(m_bounds, Moved(p, v, left)) THEN straight ELSE bent}
  BY DEF DoWalkRandom, Schedule, Cancel
<1>4. CASE IsInside(m_bounds, Moved(p, v, left))
  <2>1. straight \in Events
    BY DEF Event, Events
  <2>2. /\ straight.fun = "RandomWalk" /\ straight.left = 0 /\ straight.in = left
    BY DEF Event
  <2> HIDE DEF straight
  <2>3. QED
    BY <1>3, <1>4, <2>1, <2>2
<1>5. CASE ~ IsInside(m_bounds, Moved(p, v, left))
  <2>1. delay \in Nat /\ IsInside(m_bounds, Moved(p, v, delay))
    BY <1>1, <1>2 DEF TimeToSide, Least, IsInside
  <2>2. delay < left
    BY <1>1, <1>2, <1>5 DEF TimeToSide, Least, IsInside
  <2> HIDE DEF delay
  <2>3. bent \in Events
    BY <2>1, <2>2 DEF Event, Events
  <2>4. /\ bent.fun = "Rebound" /\ bent.in = delay /\ bent.left = left - delay
    BY DEF Event
  <2> HIDE DEF bent
  <2>5. QED
    BY <1>3, <1>5, <2>1, <2>2, <2>3, <2>4
<1>6. QED
  BY <1>4, <1>5

(* After SelectWaypoint one event is pending, and it finds him at his new  *)
(* waypoint, in the middle of the rectangle.                               *)
LEMMA Selected ==
  ASSUME NEW minY \in Int, NEW p \in Points, NEW S, Cancel(S) = {},
         SelectWaypoint(minY, p, S)
  PROVE  /\ m_minY' \in Int /\ m_bounds' \in Rectangles
         /\ pos' \in Points /\ vel' \in Velocities /\ stay' = OnTheWay
         /\ \E f \in Events :
              /\ pending' = {f} /\ f.fun = "RandomWalk"
              /\ IsInside(m_bounds', Moved(pos', vel', f.in))
<1> DEFINE length == XMax \div NumTeams
<1> DEFINE xLowLeft == TeamId * length
<1> DEFINE yLowLeft == IF minY - HeightWpArea # 0 THEN minY - HeightWpArea ELSE 0
<1>1. /\ XMax \in Nat /\ TeamId \in Nat /\ HeightWpArea \in Nat
      /\ NumTeams \in Nat /\ NumTeams > 0 /\ HalfX \in Nat /\ HalfY \in Nat
  BY SpaceAssumption
<1>2. length \in Int
  BY <1>1, SMT
<1>3. xLowLeft \in Int /\ yLowLeft \in Int
  <2> HIDE DEF length
  <2>1. QED
    BY <1>1, <1>2, SMT
<1>4. m_minY' = yLowLeft /\ pos' = p /\ stay' = OnTheWay
  BY DEF SelectWaypoint
<1>5. PICK waypoint \in (xLowLeft..xLowLeft + length) \X (yLowLeft..yLowLeft + HeightWpArea),
           time \in TravelTimes :
        /\ m_bounds' = Around(waypoint)
        /\ vel' = [x |-> waypoint[1] - p[1], y |-> waypoint[2] - p[2], per |-> time]
        /\ pending' = Schedule({}, Event("RandomWalk", time, 0))
  BY DEF SelectWaypoint
<1> HIDE DEF length, xLowLeft, yLowLeft
<1>6. waypoint[1] \in Int /\ waypoint[2] \in Int /\ time \in Nat /\ time > 0
  BY <1>1, <1>2, <1>3, TimesAssumption
<1>7. p[1] \in Int /\ p[2] \in Int
  BY DEF Points
<1>8. m_bounds' \in Rectangles /\ vel' \in Velocities
  BY <1>1, <1>5, <1>6, <1>7 DEF Around, Rectangles, Velocities
<1> DEFINE f == Event("RandomWalk", time, 0)
<1>9. f \in Events /\ f.fun = "RandomWalk" /\ f.in = time /\ pending' = {f}
  BY <1>5, <1>6 DEF Event, Events, Schedule
<1> HIDE DEF f
<1>10. Moved(pos', vel', time) = <<waypoint[1], waypoint[2]>>
  <2>1. time \div time = 1
    BY <1>6, SMT
  <2>2. vel'.x = waypoint[1] - p[1] /\ vel'.y = waypoint[2] - p[2] /\ vel'.per = time
    BY <1>5
  <2>3. QED
    BY <1>4, <1>6, <1>7, <2>1, <2>2 DEF Moved
<1>11. IsInside(m_bounds', Moved(pos', vel', f.in))
  BY <1>1, <1>5, <1>6, <1>9, <1>10 DEF Around, IsInside
<1>12. QED
  BY <1>3, <1>4, <1>8, <1>9, <1>11

-----------------------------------------------------------------------------
LEMMA InitInv == Init => Inv
<1> SUFFICES ASSUME Init
             PROVE  Inv
  OBVIOUS
<1>1. /\ YMax \in Nat /\ HalfX \in Nat /\ HalfY \in Nat /\ Positions \subseteq Points
  BY SpaceAssumption DEF Points
<1>2. Types
  <2>1. m_bounds \in Rectangles
    BY <1>1 DEF Init, Around, Rectangles
  <2>2. vel \in Velocities
    BY DEF Init, Velocities
  <2>3. pos \in Points
    BY <1>1 DEF Init
  <2>4. initialized = FALSE /\ m_minY = YMax /\ stay = OnTheWay /\ moved = FALSE
    BY Zenon DEF Init
  <2>5. m_minY \in Int /\ stay \in Int
    BY <1>1, <2>4, SMT DEF OnTheWay
  <2>6. QED
    BY Zenon, <2>1, <2>2, <2>3, <2>4, <2>5 DEF Types
<1>3. Counts
  <2>1. Walkings \in Nat
    BY WholeWalks, TimesAssumption, SMT DEF Walkings
  <2>2. WalkTime \in Nat
    BY TimesAssumption
  <2>3. 0 \in 0..Walkings /\ 0 = 0 * WalkTime
    BY <2>1, <2>2, SMT
  <2>4. QED
    BY <2>3 DEF Init, Counts
<1> DEFINE e == Event("Select", 0, 0)
<1>4. e \in Events /\ e.fun = "Select" /\ e.in = 0
  BY DEF Event, Events
<1>5. pending = {e} /\ m_cur = 0
  BY DEF Init
<1> HIDE DEF e
<1>6. QED
  BY <1>2, <1>3, <1>4, <1>5 DEF Inv, Selects

(* The event that runs is the one that is pending. *)
LEMMA DoInitializeStep == Inv /\ DoInitialize => Inv'
<1> SUFFICES ASSUME Inv, DoInitialize
             PROVE  Inv'
  OBVIOUS
<1>1. PICK e \in Events : pending = {e}
  BY DEF Inv
<1>2. Cancel(pending) = {}
  BY <1>1, NothingLeft
<1>3. YMax \in Int /\ pos \in Points /\ SelectWaypoint(YMax, pos, pending)
  BY SpaceAssumption DEF Inv, Types, DoInitialize
<1>4. /\ m_minY' \in Int /\ m_bounds' \in Rectangles
      /\ pos' \in Points /\ vel' \in Velocities /\ stay' = OnTheWay
      /\ \E f \in Events :
           /\ pending' = {f} /\ f.fun = "RandomWalk"
           /\ IsInside(m_bounds', Moved(pos', vel', f.in))
  BY <1>2, <1>3, Selected
<1>5. m_cur' = 0 /\ initialized' = TRUE /\ moved' = moved /\ moved \in BOOLEAN
  BY DEF DoInitialize, Inv, Types
<1>6. Types'
  BY <1>4, <1>5 DEF Types, OnTheWay
<1>7. Counts'
  <2>1. Walkings \in Nat /\ WalkTime \in Nat
    BY TimesAssumption, SMT DEF Walkings
  <2>2. 0 \in 0..Walkings /\ 0 = 0 * WalkTime
    BY <2>1, SMT
  <2>3. QED
    BY <1>5, <2>2 DEF Counts
<1>8. QED
  BY <1>4, <1>5, <1>6, <1>7 DEF Inv, Arrives

LEMMA DoInitializePrivateStep == Inv /\ DoInitializePrivate => Inv'
<1> SUFFICES ASSUME Inv, DoInitializePrivate
             PROVE  Inv'
  OBVIOUS
<1>1. PICK e \in Events :
        /\ pending = {e}
        /\ Selects(e) \/ (initialized /\ (Arrives(e) \/ OnWalk(e)))
  BY DEF Inv
<1>2. /\ initialized /\ e.fun = "Select"
      /\ SelectWaypoint(m_minY, Moved(pos, vel, e.in), After(e.in, {e} \ {e}))
  BY <1>1 DEF DoInitializePrivate, IsNext
<1>3. Selects(e)
  BY <1>1, <1>2 DEF Arrives, OnWalk
<1>4. Moved(pos, vel, e.in) \in Points
  <2>1. e.in = 0 /\ pos[1] \in Int /\ pos[2] \in Int /\ vel.x \in Int /\ vel.y \in Int
        /\ vel.per \in Nat /\ vel.per > 0
    BY <1>3 DEF Selects, Inv, Types, Points, Velocities
  <2> DEFINE n == e.in \div vel.per
  <2>2. n = 0
    BY <2>1, SMT
  <2> HIDE DEF n
  <2>3. n * vel.x = 0 /\ n * vel.y = 0
    BY <2>1, <2>2, SMT
  <2>4. Moved(pos, vel, e.in) = <<pos[1] + n * vel.x, pos[2] + n * vel.y>>
    BY DEF Moved, n
  <2>5. QED
    BY <2>1, <2>3, <2>4 DEF Points
<1>5. /\ m_minY' \in Int /\ m_bounds' \in Rectangles
      /\ pos' \in Points /\ vel' \in Velocities /\ stay' = OnTheWay
      /\ \E f \in Events :
           /\ pending' = {f} /\ f.fun = "RandomWalk"
           /\ IsInside(m_bounds', Moved(pos', vel', f.in))
  <2>1. Cancel(After(e.in, {e} \ {e})) = {} /\ m_minY \in Int
    BY NothingLeft DEF Inv, Types
  <2>2. QED
    BY <1>2, <1>4, <2>1, Selected
<1>6. /\ m_cur' = m_cur /\ initialized' = initialized /\ moved' = moved
      /\ initialized \in BOOLEAN /\ moved \in BOOLEAN /\ Counts
  BY DEF DoInitializePrivate, Inv, Types
<1>7. Types'
  BY <1>5, <1>6 DEF Types, OnTheWay
<1>8. Counts'
  BY <1>6 DEF Counts
<1>9. (~ moved => m_cur = 0)
  BY <1>3 DEF Selects
<1>10. QED
  BY <1>2, <1>5, <1>6, <1>7, <1>8, <1>9 DEF Inv, Arrives

(* Where the event that ends a way or a walk finds him *)
LEMMA FoundInside ==
  ASSUME Types, NEW e \in Events, Arrives(e) \/ OnWalk(e)
  PROVE  /\ Moved(pos, vel, e.in) \in Points
         /\ IsInside(m_bounds, Moved(pos, vel, e.in))
<1>1. /\ pos[1] \in Int /\ pos[2] \in Int /\ vel.x \in Int /\ vel.y \in Int
      /\ vel.per \in Nat /\ vel.per > 0 /\ e.in \in Nat
  BY DEF Types, Points, Velocities, Events
<1> DEFINE n == e.in \div vel.per
<1>2. n \in Int
  BY <1>1, SMT
<1> HIDE DEF n
<1>3. n * vel.x \in Int /\ n * vel.y \in Int
  BY <1>1, <1>2, SMT
<1>4. Moved(pos, vel, e.in) = <<pos[1] + n * vel.x, pos[2] + n * vel.y>>
  BY DEF Moved, n
<1>5. QED
  BY <1>1, <1>3, <1>4 DEF Points, Arrives, OnWalk

(* A walk ends after stay has grown by what was left of it; he falls back  *)
(* after a whole stay.                                                     *)
LEMMA RandomWalkStep ==
  Inv /\ DoInitializePrivateRandomWalk
    => /\ Inv'
       /\ Rested(m_cur) => stay' <= WholeStay /\ (~ moved => stay' = WholeStay)
<1> SUFFICES ASSUME Inv, DoInitializePrivateRandomWalk
             PROVE  /\ Inv'
                    /\ Rested(m_cur) =>
                         stay' <= WholeStay /\ (~ moved => stay' = WholeStay)
  OBVIOUS
<1>1. PICK e \in Events :
        /\ pending = {e}
        /\ Selects(e) \/ (initialized /\ (Arrives(e) \/ OnWalk(e)))
  BY DEF Inv
<1> DEFINE here == Moved(pos, vel, e.in)
<1>2. PICK v \in Diagonals :
        /\ initialized /\ e.fun = "RandomWalk" /\ pos' = here /\ vel' = v
        /\ stay' = IF stay = OnTheWay THEN 0 ELSE Longer(e.in)
        /\ \/ /\ Rested(m_cur) /\ m_cur' = 0 /\ moved' = FALSE
              /\ pending' = Schedule(Cancel({}), Event("Select", 0, 0))
           \/ /\ ~ Rested(m_cur) /\ m_cur' = Spent(m_cur)
              /\ pending' = DoWalkRandom(here, v, WalkTime, {})
              /\ moved' = moved
  BY <1>1, NothingLeft DEF DoInitializePrivateRandomWalk, IsNext
<1>3. /\ initialized' = initialized /\ m_minY' = m_minY /\ m_bounds' = m_bounds
  BY DEF DoInitializePrivateRandomWalk
<1>4. Arrives(e) \/ OnWalk(e)
  BY <1>1, <1>2 DEF Selects
<1>5. here \in Points /\ IsInside(m_bounds, here)
  BY <1>4, FoundInside DEF Inv
<1> HIDE DEF here
<1>6. v \in Velocities
  BY DEF Diagonals, Velocities
<1>7. PICK k \in 0..Walkings : m_cur = k * WalkTime
  BY DEF Inv, Counts
<1>8. /\ Walkings \in Nat /\ WholeStay = Walkings * WalkTime
      /\ m_cur \in Nat /\ m_cur <= WholeStay /\ WholeStay \in Nat
      /\ Rested(m_cur) <=> k = Walkings
      /\ (k + 1) * WalkTime = m_cur + WalkTime
      /\ WalkTime \in Nat
  <2>1. Walkings \in 0..Walkings
    BY <1>7, WholeWalks
  <2>2. WholeStay \in Nat
    BY <2>1, WholeWalks
  <2>3. QED
    BY <1>7, <2>2, WholeWalks, TimesAssumption DEF Rested
<1>9. /\ stay' \in Nat /\ stay' <= m_cur
      /\ ~ moved => stay' = m_cur
  <2>1. CASE Arrives(e)
    BY <1>2, <1>8, <2>1 DEF Arrives
  <2>2. CASE OnWalk(e)
    <3>1. /\ stay \in Nat /\ e.in \in Nat /\ e.left = 0 /\ stay # OnTheWay
          /\ stay + e.in <= m_cur /\ (~ moved => stay + e.in = m_cur)
      BY <1>2, <2>2 DEF OnWalk, Events, OnTheWay
    <3>2. stay' = stay + e.in
      BY <1>2, <1>8, <3>1 DEF Longer
    <3>3. QED
      BY <3>1, <3>2
  <2>3. QED
    BY <1>4, <2>1, <2>2
<1>10. CASE Rested(m_cur)
  <2>1. m_cur = WholeStay
    BY <1>7, <1>8, <1>10
  <2>2. Counts'
    <3>1. 0 \in 0..Walkings /\ 0 = 0 * WalkTime /\ m_cur' = 0
      BY <1>2, <1>8, <1>10, SMT
    <3>2. QED
      BY <3>1 DEF Counts
  <2> DEFINE f == Event("Select", 0, 0)
  <2>3. f \in Events /\ f.fun = "Select" /\ f.in = 0
    BY DEF Event, Events
  <2>4. pending' = {f} /\ m_cur' = 0 /\ moved' = FALSE
    BY <1>2, <1>10 DEF Schedule, Cancel
  <2> HIDE DEF f
  <2>5. Types'
    <3>1. pos' \in Points /\ vel' \in Velocities /\ stay' \in Int
      BY <1>2, <1>5, <1>6, <1>9
    <3>2. moved' \in BOOLEAN
      BY Zenon, <2>4
    <3>3. QED
      BY <1>3, <3>1, <3>2 DEF Inv, Types
  <2>6. Inv'
    BY <2>2, <2>3, <2>4, <2>5 DEF Inv, Selects
  <2>7. QED
    BY <1>8, <1>9, <2>1, <2>6
<1>11. CASE ~ Rested(m_cur)
  <2>1. /\ m_cur' = m_cur + WalkTime /\ moved' = moved
        /\ pending' = DoWalkRandom(here, v, WalkTime, {})
    BY <1>2, <1>11 DEF Spent
  <2>2. Counts'
    <3>1. k + 1 \in 0..Walkings /\ m_cur' = (k + 1) * WalkTime
      BY <1>7, <1>8, <1>11, <2>1
    <3>2. QED
      BY <3>1 DEF Counts
  <2>3. PICK f \in Events :
          /\ pending' = {f} /\ f.fun \in {"RandomWalk", "Rebound"}
          /\ f.fun = "RandomWalk" => f.left = 0
          /\ f.in + f.left = WalkTime
          /\ IsInside(m_bounds, Moved(here, v, f.in))
    <3>1. m_bounds \in Rectangles
      BY DEF Inv, Types
    <3>2. QED
      BY <1>5, <1>8, <2>1, <3>1, WalkRandom
  <2>4. Types'
    BY <1>2, <1>3, <1>5, <1>6, <1>9, <2>1 DEF Inv, Types
  <2>5. f.in \in Nat /\ f.left \in Nat
    BY DEF Events
  <2>6. /\ stay' + f.in + f.left <= m_cur'
        /\ ~ moved' => stay' + f.in + f.left = m_cur'
    BY <1>8, <1>9, <2>1, <2>3, <2>5
  <2>7. OnWalk(f)'
    BY <1>2, <1>3, <1>5, <1>9, <2>3, <2>6 DEF OnWalk
  <2>8. QED
    BY <1>2, <1>3, <1>11, <2>2, <2>3, <2>4, <2>7 DEF Inv
<1>12. QED
  BY <1>10, <1>11

LEMMA ReboundStep == Inv /\ Rebound => Inv'
<1> SUFFICES ASSUME Inv, Rebound
             PROVE  Inv'
  OBVIOUS
<1>1. PICK e \in Events :
        /\ pending = {e}
        /\ Selects(e) \/ (initialized /\ (Arrives(e) \/ OnWalk(e)))
  BY DEF Inv
<1> DEFINE here == Clamp(m_bounds, Moved(pos, vel, e.in))
<1> DEFINE v == Bounce(m_bounds, here, vel)
<1>2. /\ initialized /\ e.fun = "Rebound" /\ pos' = here /\ vel' = v
      /\ stay' = Longer(e.in) /\ pending' = DoWalkRandom(here, v, e.left, {})
  BY <1>1, NothingLeft DEF Rebound, IsNext
<1>3. /\ initialized' = initialized /\ m_minY' = m_minY /\ m_bounds' = m_bounds
      /\ m_cur' = m_cur /\ moved' = moved
  BY DEF Rebound
<1>4. OnWalk(e) /\ m_bounds \in Rectangles
  BY <1>1, <1>2 DEF Selects, Arrives, Inv, Types
<1>5. here \in Points /\ IsInside(m_bounds, here)
  <2> DEFINE p == Moved(pos, vel, e.in)
  <2>1. p \in Points /\ IsInside(m_bounds, p)
    BY <1>4, FoundInside DEF Inv
  <2> HIDE DEF p
  <2>2. Clamp(m_bounds, p) = p
    BY <1>4, <2>1 DEF Clamp, Least, Greatest, IsInside, Points, Rectangles
  <2>3. QED
    BY <2>1, <2>2 DEF p
<1>6. v \in Diagonals /\ v \in Velocities
  BY <1>4 DEF OnWalk, Bounce, Diagonals, Velocities
<1> HIDE DEF here, v
<1>7. PICK f \in Events :
        /\ pending' = {f} /\ f.fun \in {"RandomWalk", "Rebound"}
        /\ f.fun = "RandomWalk" => f.left = 0
        /\ f.in + f.left = e.left
        /\ IsInside(m_bounds, Moved(here, v, f.in))
  <2>1. e.left \in Nat
    BY DEF Events
  <2>2. QED
    BY <1>2, <1>4, <1>5, <1>6, <2>1, WalkRandom
<1>8. stay' = stay + e.in
  <2>1. PICK k \in 0..Walkings : m_cur = k * WalkTime
    BY DEF Inv, Counts
  <2>2. m_cur \in Nat /\ m_cur <= WholeStay
    BY <2>1, WholeWalks
  <2>3. WholeStay \in Nat
    <3>1. Walkings \in 0..Walkings
      BY <2>1, WholeWalks
    <3>2. QED
      BY <3>1, WholeWalks
  <2>4. QED
    BY <1>2, <1>4, <2>2, <2>3 DEF OnWalk, Events, Longer
<1>9. /\ stay' \in Nat /\ stay' + f.in + f.left <= m_cur'
      /\ ~ moved' => stay' + f.in + f.left = m_cur'
  <2>1. /\ stay \in Nat /\ e.in \in Nat /\ e.left \in Nat
        /\ f.in \in Nat /\ f.left \in Nat
        /\ stay + e.in + e.left <= m_cur
        /\ ~ moved => stay + e.in + e.left = m_cur
    BY <1>4 DEF OnWalk, Events
  <2>2. m_cur \in Nat
    BY WholeWalks DEF Inv, Counts
  <2>3. QED
    BY <1>3, <1>7, <1>8, <2>1, <2>2
<1>10. Types' /\ Counts'
  BY <1>2, <1>3, <1>5, <1>6, <1>9 DEF Inv, Types, Counts
<1>11. OnWalk(f)'
  BY <1>2, <1>3, <1>5, <1>6, <1>7, <1>9 DEF OnWalk
<1>12. QED
  BY <1>2, <1>3, <1>7, <1>10, <1>11 DEF Inv

LEMMA SetPositionStep ==
  ASSUME Inv, NEW p \in Positions, DoSetPosition(p)
  PROVE  Inv'
<1>1. PICK e \in Events : pending = {e}
  BY DEF Inv
<1>2. PICK time : pending' = Schedule(Cancel(After(time, {e})), Event("Select", 0, 0))
  BY <1>1 DEF DoSetPosition
<1> DEFINE f == Event("Select", 0, 0)
<1>3. f \in Events /\ f.fun = "Select" /\ f.in = 0
  BY DEF Event, Events
<1>4. pending' = {f}
  BY <1>2, NothingLeft
<1> HIDE DEF f
<1>5. /\ pos' = p /\ vel' = [x |-> 0, y |-> 0, per |-> 1] /\ stay' = OnTheWay
      /\ moved' = TRUE /\ initialized /\ initialized' = initialized /\ m_minY' = m_minY
      /\ m_bounds' = m_bounds /\ m_cur' = m_cur
  BY DEF DoSetPosition
<1>6. p \in Points /\ vel' \in Velocities
  BY <1>5, SpaceAssumption DEF Points, Velocities
<1>7. Types' /\ Counts'
  BY <1>5, <1>6 DEF Inv, Types, Counts, OnTheWay
<1>8. QED
  BY <1>3, <1>4, <1>5, <1>7 DEF Inv, Selects

-----------------------------------------------------------------------------
(* Every step keeps the invariant. *)
LEMMA InvStep == Inv /\ [Next]_vars => Inv'
<1> SUFFICES ASSUME Inv, [Next]_vars
             PROVE  Inv'
  OBVIOUS
<1>1. CASE DoInitialize
  BY <1>1, DoInitializeStep
<1>2. CASE DoInitializePrivate
  BY <1>2, DoInitializePrivateStep
<1>3. CASE DoInitializePrivateRandomWalk
  BY <1>3, RandomWalkStep
<1>4. CASE Rebound
  BY <1>4, ReboundStep
<1>5. ASSUME NEW p \in Positions, DoSetPosition(p)
      PROVE  Inv'
  BY <1>5, SetPositionStep
<1>6. CASE UNCHANGED vars
  BY <1>6 DEF vars, Inv, Types, Counts, Selects, Arrives, OnWalk
<1>7. QED
  BY <1>1, <1>2, <1>3, <1>4, <1>5, <1>6 DEF Next, Run

LEMMA InvAlways == Spec => []Inv
BY InitInv, InvStep, PTL DEF Spec

(* However SetPosition, walks and rebounds come one after another, exactly *)
(* one event moves a fireman and m_event holds it.                         *)
THEOREM OneEventMoves == Spec => []OneEvent
<1>1. Inv => OneEvent
  <2> SUFFICES ASSUME Inv
               PROVE  OneEvent
    OBVIOUS
  <2>1. PICK e \in Events : pending = {e}
    BY DEF Inv
  <2>2. e.held
    BY Zenon DEF Events
  <2>3. QED
    BY <2>1, <2>2 DEF OneEvent
<1>2. QED
  BY <1>1, InvAlways, PTL

(* On a walk he is in the rectangle around his waypoint, whatever the      *)
(* rectangle, the length of a walk and the number of rebounds.             *)
THEOREM WalksStayInBounds == Spec => []StaysInBounds
<1>1. Inv => StaysInBounds
  BY DEF Inv, Selects, Arrives, OnWalk, StaysInBounds, Walks
<1>2. QED
  BY <1>1, InvAlways, PTL

(* He falls back after the first whole number of walks that is longer than *)
(* FallbackTime, and not later where SetPosition came in between.          *)
THEOREM WholeStays == Spec => FallsBackInTime
<1> DEFINE InTime == m_cur' < m_cur =>
                       stay' <= WholeStay /\ (~ moved => stay' = WholeStay)
<1>1. ASSUME Inv, Next
      PROVE  InTime
  <2>1. PICK k \in 0..Walkings : m_cur = k * WalkTime
    BY <1>1 DEF Inv, Counts
  <2>2. m_cur \in Nat
    BY <2>1, WholeWalks
  <2>3. CASE DoInitialize
    BY <1>1, <2>2, <2>3 DEF Inv, DoInitialize
  <2>4. CASE DoInitializePrivate
    BY <2>2, <2>4 DEF DoInitializePrivate
  <2>5. CASE DoInitializePrivateRandomWalk
    <3>1. CASE Rested(m_cur)
      BY <1>1, <2>5, <3>1, RandomWalkStep
    <3>2. CASE ~ Rested(m_cur)
      <4>1. m_cur' = m_cur + WalkTime
        BY <2>5, <3>2 DEF DoInitializePrivateRandomWalk, Spent
      <4>2. QED
        BY <2>2, <4>1, TimesAssumption
    <3>3. QED
      BY <3>1, <3>2
  <2>6. CASE Rebound
    BY <2>2, <2>6 DEF Rebound
  <2>7. ASSUME NEW p \in Positions, DoSetPosition(p)
        PROVE  InTime
    BY <2>2, <2>7 DEF DoSetPosition
  <2>8. QED
    BY <1>1, <2>3, <2>4, <2>5, <2>6, <2>7 DEF Next, Run
<1>2. QED
  BY <1>1, InvAlways, PTL DEF Spec, FallsBackInTime
=============================================================================
