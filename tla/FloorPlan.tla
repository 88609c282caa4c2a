------------------------------ MODULE FloorPlan ------------------------------
(***************************************************************************)
(* The designer of floor plans (ui/src/components/FloorPlanDesigner.tsx),  *)
(* a dialogue of the page of an area.  It has a list of elements of its    *)
(* own and tells the page after each change; a drag is told at its end.    *)
(* When the design of the page changes, it takes that over, unless         *)
(* something is being dragged.                                             *)
(*                                                                         *)
(* Points are pairs of numbers.  A wall goes from a to b; any other        *)
(* element has its corner at a, the size b and is turned.                  *)
(***************************************************************************)
EXTENDS WebPage

CONSTANTS
    Points,         \* where the mouse goes
    NoPoint,
    Angles,         \* by how many degrees an element is turned
    Threshold,      \* SNAP_THRESHOLD
    MinSize,        \* of an element that is resized
    Defaults,       \* Defaults[kind]: the size a new element has
    MaxElements,    \* elements of a plan (bound)
    MaxStrokes      \* events handled (bound)

ASSUME PointsAssumption ==
    Points \subseteq Int \X Int /\ NoPoint \notin Int \X Int
ASSUME SizesAssumption ==
    /\ Angles \subseteq Int
    /\ MinSize \in Nat /\ Threshold \in Nat
    /\ \A kind \in DOMAIN Defaults : Defaults[kind] \in Nat \X Nat

Kinds == DOMAIN Defaults
OnWalls == {"door", "window"}

Plus(p, q) == <<p[1] + q[1], p[2] + q[2]>>
Minus(p, q) == <<p[1] - q[1], p[2] - q[2]>>
AtLeast(m, n) == IF n < m THEN m ELSE n
Size(n) == IF n < 0 THEN -n ELSE n
Distance2(p, q) == LET d == Minus(p, q) IN d[1] * d[1] + d[2] * d[2]

Element(id, kind, a, b, turn) ==
    [id |-> id, kind |-> kind, a |-> a, b |-> b, turn |-> turn]

-----------------------------------------------------------------------------
(* Where a point snaps to: the first end of a wall that is near.           *)
Ends(elements) ==
    [i \in 1 .. 2 * Len(elements) |->
        LET e == elements[(i + 1) \div 2] IN IF i % 2 = 1 THEN e.a ELSE e.b]

WallEnds(elements, except) ==
    {i \in DOMAIN Ends(elements) :
        LET e == elements[(i + 1) \div 2] IN e.kind = "wall" /\ e.id # except}

First(elements, near, default) ==
    IF near = {} THEN default
    ELSE Ends(elements)[CHOOSE i \in near : \A j \in near : i <= j]

SnapPoint(p, elements, except) ==
    First(elements, {i \in WallEnds(elements, except) :
             Distance2(p, Ends(elements)[i]) <= Threshold * Threshold}, p)

(* snapAxisValue, for the axis (1 or 2) on which the point is free.        *)
SnapAxis(p, axis, elements) ==
    [p EXCEPT ![axis] = First(elements, {i \in WallEnds(elements, 0) :
             Size(@ - Ends(elements)[i][axis]) <= Threshold}, p)[axis]]

(* The angles below 15 degrees, seen from the x axis or from the y axis.   *)
Flat(d) == 1000 * Size(d[2]) < 268 * Size(d[1])
Steep(d) == 1000 * Size(d[1]) < 268 * Size(d[2])

(* getConstrainedPoint: an end of a wall, else straight from the start,    *)
(* again with an end of a wall or with the axis of one.                    *)
ConstrainedPoint(p, start, elements) ==
    LET snapped == SnapPoint(p, elements, 0)
        d == Minus(p, start)
        straight == IF start = NoPoint THEN p
                    ELSE IF Flat(d) THEN <<p[1], start[2]>>
                    ELSE IF Steep(d) THEN <<start[1], p[2]>> ELSE p
        again == SnapPoint(straight, elements, 0)
    IN  IF snapped # p THEN snapped
        ELSE IF straight # p /\ again # straight THEN again
        ELSE IF start = NoPoint THEN p
        ELSE IF Flat(d) THEN SnapAxis(straight, 1, elements)
        ELSE IF Steep(d) THEN SnapAxis(straight, 2, elements) ELSE p

(* closestPointOnSegment, rounded to whole numbers.                        *)
Closest(c, wall) ==
    LET d == Minus(wall.b, wall.a)  e == Minus(c, wall.a)
        length2 == Distance2(wall.a, wall.b)
        along == e[1] * d[1] + e[2] * d[2]
        t == IF along < 0 THEN 0 ELSE IF along > length2 THEN length2 ELSE along
    IN  IF length2 = 0 THEN wall.a
        ELSE <<wall.a[1] + (t * d[1]) \div length2, wall.a[2] + (t * d[2]) \div length2>>

(* By n at a right angle to d, rounded; a wall without length lies flat.   *)
Across(d, n) ==
    LET length == Cardinality({k \in 1 .. Size(d[1]) + Size(d[2]) :
                                  k * k <= d[1] * d[1] + d[2] * d[2]})
    IN  IF length = 0 THEN <<0, n>>
        ELSE <<-((d[2] * n) \div length), (d[1] * n) \div length>>

(* The angle of a wall; 45 stands for every slanting one.                  *)
Heading(d) ==
    CASE d[2] = 0 -> IF d[1] < 0 THEN 180 ELSE 0
      [] d[1] = 0 /\ d[2] # 0 -> IF d[2] < 0 THEN -90 ELSE 90
      [] d[1] # 0 /\ d[2] # 0 -> 45

(* The walls nearer than WALL_SNAP_THRESHOLD, and the nearest of them, the *)
(* first one if there are several.                                         *)
NearWalls(c, elements) ==
    {i \in DOMAIN elements :
        /\ elements[i].kind = "wall"
        /\ Distance2(c, Closest(c, elements[i])) < 4 * Threshold * Threshold}

NearestWall(c, elements) ==
    LET far(i) == Distance2(c, Closest(c, elements[i])) IN
    {i \in NearWalls(c, elements) : \A j \in NearWalls(c, elements) :
        far(i) < far(j) \/ (far(i) = far(j) /\ i <= j)}

(* snapEntityToWall: a window with its centre on the wall, a door with the *)
(* edge of its panel there, both turned like the wall.                     *)
OnWall(el, elements) ==
    LET half == <<el.b[1] \div 2, el.b[2] \div 2>>
        c == Plus(el.a, half)
        at(wall) == LET d == Minus(wall.b, wall.a) IN
            Plus(Closest(c, wall),
                 IF el.kind = "door" THEN Across(d, half[2]) ELSE <<0, 0>>)
    IN  IF el.kind \notin OnWalls \/ NearWalls(c, elements) = {} THEN {el}
        ELSE {[el EXCEPT !.a = Minus(at(elements[i]), half),
                         !.turn = Heading(Minus(elements[i].b, elements[i].a))] :
                    i \in NearestWall(c, elements)}

(* The rotation near a right angle becomes one.                            *)
Settled(angle) ==
    LET right == {k \in -8 .. 8 : Size(angle - 90 * k) < 10} IN
    IF right = {} THEN angle ELSE 90 * CHOOSE k \in right : TRUE

-----------------------------------------------------------------------------
(* The mutated form of Resized: the corner follows the mouse also when the *)
(* element cannot become smaller.                                          *)
ResizedAtMouse(from, handle, by) ==
    LET w == from.b[1]  h == from.b[2]
        east == AtLeast(MinSize, w + by[1])
        south == AtLeast(MinSize, h + by[2])
        west == AtLeast(MinSize, w - by[1])
        north == AtLeast(MinSize, h - by[2])
    IN
    CASE handle = "se" -> [from EXCEPT !.b = <<east, south>>]
      [] handle = "sw" -> [from EXCEPT !.a[1] = @ + by[1], !.b = <<west, south>>]
      [] handle = "ne" -> [from EXCEPT !.a[2] = @ + by[2], !.b = <<east, north>>]
      [] handle = "nw" -> [from EXCEPT !.a = Plus(@, by), !.b = <<west, north>>]

(* An element by one of its corners: it stays as large as MinSize.         *)
Resized(from, handle, by) ==
    LET w == from.b[1]  h == from.b[2]
        east == AtLeast(MinSize, w + by[1])
        south == AtLeast(MinSize, h + by[2])
        west == AtLeast(MinSize, w - by[1])
        north == AtLeast(MinSize, h - by[2])
    IN
    CASE handle = "se" -> [from EXCEPT !.b = <<east, south>>]
      [] handle = "sw" -> [from EXCEPT !.a = <<@[1] + w - west, @[2]>>,
                                       !.b = <<west, south>>]
      [] handle = "ne" -> [from EXCEPT !.a = <<@[1], @[2] + h - north>>,
                                       !.b = <<east, north>>]
      [] handle = "nw" -> [from EXCEPT !.a = <<@[1] + w - west, @[2] + h - north>>,
                                       !.b = <<west, north>>]

(* applyDragMove for one element: from is the element when the drag began, *)
(* by how far the mouse is from there.                                     *)
Dragged(from, handle, by, elements) ==
    CASE from.kind = "wall" /\ handle = "ep1" ->
            {[from EXCEPT !.a = SnapPoint(Plus(@, by), elements, from.id)]}
      [] from.kind = "wall" /\ handle = "ep2" ->
            {[from EXCEPT !.b = SnapPoint(Plus(@, by), elements, from.id)]}
      [] from.kind = "wall" /\ handle = "body" ->
            {[from EXCEPT !.a = Plus(@, by), !.b = Plus(@, by)]}
      [] from.kind # "wall" /\ handle = "body" ->
            OnWall([from EXCEPT !.a = Plus(@, by)], elements)
      [] handle \in {"nw", "ne", "se", "sw"} -> {Resized(from, handle, by)}
      [] handle = "rotate" ->
            {[from EXCEPT !.turn = Settled(@ + angle)] : angle \in Angles}

Handles(kind) == IF kind = "wall" THEN {"body", "ep1", "ep2"}
                 ELSE {"body", "nw", "ne", "se", "sw", "rotate"}

Nothing == [dragging |-> FALSE, startMouse |-> NoPoint, handle |-> "none",
            start |-> Element(0, "wall", NoPoint, NoPoint, 0)]

Opened(design) ==
    [elements |-> design, mode |-> "select", selected |-> 0,
     wallStart |-> NoPoint, drag |-> Nothing]

(* The page may still be loading the design that it saved before.          *)
PlanInit ==
    /\ page = "plan" /\ blocked = FALSE /\ clicks = 0
    /\ server = <<>> /\ calls \in SUBSET {"load"}
    /\ state = [design |-> <<>>, nextId |-> 1, view |-> Opened(<<>>)]

-----------------------------------------------------------------------------
Stroke == Click("plan") /\ clicks < MaxStrokes /\ UNCHANGED <<calls, server>>

View(view) == state' = [state EXCEPT !.view = view]

(* setState and notifyChange; componentDidUpdate then takes over what the  *)
(* page has been told, which is the same.                                  *)
Told(view) == state' = [state EXCEPT !.view = view, !.design = view.elements]

Idle == ~state.view.drag.dragging
Index(id) == {i \in DOMAIN state.view.elements : state.view.elements[i].id = id}

ChooseMode(mode) ==
    /\ Stroke /\ Idle
    /\ View([state.view EXCEPT
                !.mode = mode,
                !.selected = IF mode = "select" THEN @ ELSE 0,
                !.wallStart = IF mode = "draw-wall" THEN @ ELSE NoPoint])

Drawn(kind, a, b, turn) ==
    Append(state.view.elements, Element(state.nextId, kind, a, b, turn))

(* handleCanvasClick: the second point ends a wall and begins the next.    *)
DrawWall(p) ==
    LET view == state.view
        q == ConstrainedPoint(p, view.wallStart, view.elements)
        elements == Drawn("wall", view.wallStart, q, 0)
    IN
    /\ Stroke /\ Idle /\ view.mode = "draw-wall"
    /\ IF view.wallStart = NoPoint THEN View([view EXCEPT !.wallStart = q])
       ELSE /\ Len(view.elements) < MaxElements
            /\ state' = [state EXCEPT
                    !.view = [view EXCEPT !.elements = elements, !.wallStart = q],
                    !.design = elements, !.nextId = @ + 1]

AddEntity(p) ==
    LET view == state.view  kind == view.mode IN
    /\ Stroke /\ Idle /\ kind \in Kinds /\ Len(view.elements) < MaxElements
    /\ \E el \in OnWall(Element(state.nextId, kind,
                            <<p[1] - Defaults[kind][1] \div 2,
                              p[2] - Defaults[kind][2] \div 2>>,
                            Defaults[kind], 0), view.elements) :
          LET elements == Append(view.elements, el) IN
          state' = [state EXCEPT
                !.view = [view EXCEPT !.elements = elements, !.mode = "select",
                                      !.selected = state.nextId],
                !.design = elements, !.nextId = @ + 1]

(* The right button, or Escape.                                            *)
StopWall ==
    /\ Stroke /\ state.view.mode = "draw-wall" /\ state.view.wallStart # NoPoint
    /\ View([state.view EXCEPT !.wallStart = NoPoint])

(* startDrag and startRotateHandle: of the body, or of a handle of the     *)
(* element that is selected.                                               *)
StartDrag(i, handle, p) ==
    LET el == state.view.elements[i] IN
    /\ Stroke /\ Idle
    /\ handle \in Handles(el.kind)
    /\ IF handle = "body" THEN state.view.mode = "select"
       ELSE state.view.selected = el.id
    /\ View([state.view EXCEPT
                !.selected = el.id,
                !.drag = [dragging |-> TRUE, startMouse |-> p, handle |-> handle,
                          start |-> el]])

DragTo(p) ==
    LET view == state.view  drag == view.drag IN
    /\ Stroke /\ drag.dragging
    /\ IF Index(view.selected) = {} THEN View(view)
       ELSE \E i \in Index(view.selected) :
            \E el \in Dragged([drag.start EXCEPT
                                    !.turn = IF drag.handle = "rotate" THEN @
                                             ELSE view.elements[i].turn],
                              drag.handle, Minus(p, drag.startMouse),
                              view.elements) :
                View([view EXCEPT !.elements[i] = el])

FinalizeDrag ==
    /\ Stroke /\ state.view.drag.dragging
    /\ Told([state.view EXCEPT !.drag = Nothing])

WithoutSelected ==
    LET gone == Index(state.view.selected) IN
    IF gone = {} THEN state.view.elements
    ELSE RemovedAt(state.view.elements, CHOOSE i \in gone : TRUE)

(* The mutated form of DeleteSelected: the page is not told.               *)
DeleteSelectedUntold ==
    /\ Stroke /\ state.view.selected # 0
    /\ View([state.view EXCEPT
                !.elements = WithoutSelected,
                !.selected = 0])

(* The button or the key; the key also while something is dragged.         *)
DeleteSelected ==
    /\ Stroke /\ state.view.selected # 0
    /\ Told([state.view EXCEPT
                !.elements = WithoutSelected,
                !.selected = 0])

(* The dialogue is closed and opened again.                                *)
Reopen == Stroke /\ Idle /\ View(Opened(state.design))

(* The page has loaded the area anew.                                      *)
DesignLoaded ==
    /\ Goes("plan") /\ "load" \in calls
    /\ state' = [state EXCEPT
            !.design = server,
            !.view.elements = IF state.design # server /\ Idle THEN server ELSE @]
    /\ calls' = calls \ {"load"} /\ UNCHANGED server

PlanNext ==
    /\ page = "plan"
    /\ \/ \E mode \in {"select", "draw-wall"} \cup Kinds : ChooseMode(mode)
       \/ \E p \in Points : DrawWall(p) \/ AddEntity(p) \/ DragTo(p)
       \/ \E i \in DOMAIN state.view.elements, p \in Points :
            \E handle \in Handles(state.view.elements[i].kind) :
                StartDrag(i, handle, p)
       \/ StopWall \/ FinalizeDrag \/ DeleteSelected \/ Reopen \/ DesignLoaded

PlanSpec == PlanInit /\ [][PlanNext]_webVars

-----------------------------------------------------------------------------
(* What is on the screen is what the page will save, unless something is   *)
(* being dragged, whatever is pressed or loaded during a drag.             *)
PageKnowsPlan == page = "plan" /\ Idle => state.view.elements = state.design

(* While a corner is dragged the opposite one stays where it was, also     *)
(* when the element has become as small as it can be.  That is so of an    *)
(* element that is not turned: a turned one is drawn turned about its      *)
(* centre, which moves, while the mouse moves the corners it has unturned. *)
Corner(el, handle) ==
    <<IF handle \in {"nw", "sw"} THEN el.a[1] + el.b[1] ELSE el.a[1],
      IF handle \in {"nw", "ne"} THEN el.a[2] + el.b[2] ELSE el.a[2]>>

DrawnAsStored(el) == el.turn % 360 = 0

OppositeCornerStays ==
    page = "plan" =>
        LET view == state.view  drag == view.drag IN
        drag.dragging /\ drag.handle \in {"nw", "ne", "se", "sw"}
        => \A i \in Index(view.selected) :
              DrawnAsStored(view.elements[i])
              => Corner(view.elements[i], drag.handle) = Corner(drag.start, drag.handle)
=============================================================================
