---------------------------- MODULE Pages_proofs -----------------------------
(***************************************************************************)
(* What holds of three pages of the web client for any areas, spaces,      *)
(* times, elements, points and calls: the designer of floor plans, the     *)
(* dialogue that books a space, and the search page. A visit is to one     *)
(* page, so that each page is proved on its own and carried over to        *)
(* ClientSpec by OnePage.                                                  *)
(***************************************************************************)
EXTENDS Client, WellFoundedInduction, FiniteSetTheorems, TLAPS

(* A step of a page is a step of that page only, and leaves the visitor    *)
(* there: one lemma for each page.                                         *)
LEMMA SearchStays == SearchNext => page = "search" /\ page' = page
BY DEF SearchNext, SearchUser, PickDate, PickTime, StepDay, ToggleMultiDay,
   ToggleAllDay, ChangeArea, EditFilters, ApplySearch, ResetSearch,
   RefreshPage, Answer, Fail, User, Click, Goes, Blocks

LEMMA DialogStays == DialogNext => page = "booking" /\ page' = page
BY DEF DialogNext, SelectSpace, SpaceTaken, HideConfirm, ShowRecurring,
   ResetRecurrence, ApplyRecurrence, ChooseOption, ConfirmBooking, HideNames,
   TickSeries, AskCancel, DenyCancel, CancelBooking, AddBuddy, OpenCalendar,
   NavigateCalendar, CloseCalendar, CloseSuccess, CloseError, DialogAnswer,
   Prechecked, Saved, SaveRefused, SeriesRead, Cancelled, BuddyAdded,
   BuddyRefused, CalendarLoaded, CalendarFails, Refreshed, DialogTakes, CallFails, DialogUser, Click, Goes,
   Blocks

LEMMA AreaStays == AreaNext => page = "area" /\ page' = page
<1>1. ASSUME AreaAdmin PROVE page = "area" /\ page' = page
  BY <1>1 DEF AreaAdmin, EditForm, ChooseFile, EditDesign, AddSpace, ChooseType,
   SelectArea, MoveSpace, OpenDetails, CloseDetails, EditSpace,
   EditSpaceAttribute, CopySpace, DeleteSpace, SetMapScale, DeleteAttribute,
   SetAttribute, GoBack, AskDelete, SubmitArea, ConfirmDialog, Edits, Admin,
   Click
<1>2. ASSUME AreaAnswer PROVE page = "area" /\ page' = page
  BY <1>2 DEF AreaAnswer, AreaSaved, SpacesSaved, PlanSaved, AttributeSaved,
   AttributesSaved, SpacesLoaded, AreaLoaded, AreaDeleted, AreaCallRefused,
   AttributeRefused, AreaTakes, Goes
<1> QED BY <1>1, <1>2 DEF AreaNext, AreaCallFails, Blocks

LEMMA PlanStays == PlanNext => page = "plan" /\ page' = page
BY DEF PlanNext, ChooseMode, DrawWall, AddEntity, DragTo, StartDrag, StopWall,
   FinalizeDrag, DeleteSelected, Reopen, DesignLoaded, Stroke, Click, Goes

LEMMA LoginStays == LoginNext => page = "login" /\ page' = page
<1>1. ASSUME LoginAnswer PROVE page = "login" /\ page' = page
  BY <1>1 DEF LoginAnswer, OrgFound, OrgNotFound, PasswordAnswered,
   AssertionAnswered, DialogueAnswered, UpdateAnswered, PasskeyBegun,
   PasskeyFinished, LoginSettingsLoaded, LoginTakes, Goes
<1>2. ASSUME LoginNext, ~LoginAnswer PROVE page = "login" /\ page' = page
  BY <1>2 DEF LoginNext, UseProvider, UsePassword, TypePassword, TypeCode,
   SubmitPassword, BackToLogin, SubmitNewPassword, AssertAgain, UseTotpInstead,
   LoginWithPasskey, LoginCallFails, OnForm, Trier, Click, Blocks
<1> QED BY <1>1, <1>2

LEMMA PrefStays == PrefNext => page = "preferences" /\ page' = page
BY DEF PrefNext, PrefLoaded, SelectTab, PickWorkdayStart, PickWorkdayEnd,
   EditBookingForm, EditColours, TickPassword, EditAccount, ChooseCalendar,
   SubmitBookings, SubmitColours, SubmitSecurity, ConnectCalDav,
   DisconnectCalDav, SaveCalDav, BookingsStored, ColoursStored, PasswordStored,
   CalendarsListed, CalDavItemStored, CalDavStored, PrefCallFails, PrefTakes,
   PrefEdit, Submits, Changer, Click, Goes, Blocks

LEMMA UserStays == UserNext => page = "user" /\ page' = page
BY DEF UserNext, UserLoaded, EditEmail, GeneratePassword, TickChange,
   ChangeRole, ChooseMethod, TypeNewPassword, SubmitUser, GenerateApiToken,
   HideToken, AskReset, AnswerReset, UserSaved, UserRefused, ResetDone,
   TokenGenerated, UserCallFails, UserTakes, UserEdit, UserAdmin, Click, Goes,
   Blocks

LEMMA EditorStays == EditorNext => page = "adminBooking" /\ page' = page
BY DEF EditorNext, BookingLoaded, EditorReady, PickEnter, PickLeave,
   ChooseUser, ChooseLocation, ChooseSpace, EditSubject, SubmitBooking,
   AskDeleteBooking, ConfirmDeleteBooking, TimerEnds, BookingRemoved,
   EditorCallFails, SpacesListed, BookingStored, BookingRefused, BookingEdit,
   BookingAdmin, Click, Goes, Blocks

LEMMA SettingsStays == SettingsNext => page = "settings" /\ page' = page
BY DEF SettingsNext, SettingsLoaded, DomainsLoaded, OthersLoaded, Arrives,
   TickUnlimited, ToggleDaily, GenerateSecret, TypeConcurrent, TypeMaxDuration, TypeMinDuration,
   SaveSecret, SubmitSettings, AddDomain, AskDeleteOrg, TypeDomain,
   MakePrimary, AskDomain, AnswerQuestion, CloseAlert, ChooseAuthProvider,
   DomainChanged, VerifyFails, DomainsRead, DomainsListed, SecretSaved,
   OrgDeletionMailed, SettingsSaved, SettingsRefused, SettingsCallFails,
   SettingsTakes, OnSettings, OnSettingsCall, SettingsAdmin, Click, Goes,
   Blocks

(* The page that is opened is the one whose initial state it is.           *)
LEMMA WhichPage ==
    /\ SearchInit => page = "search"
    /\ DialogInit => page = "booking"
    /\ AreaInit => page = "area"
    /\ PlanInit => page = "plan"
    /\ LoginInit => page = "login"
    /\ PrefInit => page = "preferences"
    /\ UserInit => page = "user"
    /\ EditorInit => page = "adminBooking"
    /\ SettingsInit => page = "settings"
BY DEF SearchInit, DialogInit, AreaInit, PlanInit, LoginInit, PrefInit,
   UserInit, EditorInit, SettingsInit

(* One visit, one page: it begins as that page does, goes on as that page  *)
(* does, and never becomes another.                                        *)
LEMMA OnePage ==
    /\ ClientInit => /\ page = "search" => SearchInit
                     /\ page = "booking" => DialogInit
                     /\ page = "area" => AreaInit
                     /\ page = "plan" => PlanInit
                     /\ page = "login" => LoginInit
                     /\ page = "preferences" => PrefInit
                     /\ page = "user" => UserInit
                     /\ page = "adminBooking" => EditorInit
                     /\ page = "settings" => SettingsInit
    /\ [ClientNext]_webVars =>
          /\ page' = page
          /\ page = "search" => [SearchNext]_webVars
          /\ page = "booking" => [DialogNext]_webVars
          /\ page = "area" => [AreaNext]_webVars
          /\ page = "plan" => [PlanNext]_webVars
          /\ page = "login" => [LoginNext]_webVars
          /\ page = "preferences" => [PrefNext]_webVars
          /\ page = "user" => [UserNext]_webVars
          /\ page = "adminBooking" => [EditorNext]_webVars
          /\ page = "settings" => [SettingsNext]_webVars
<1>1. ASSUME ClientInit
      PROVE  /\ page = "search" => SearchInit
             /\ page = "booking" => DialogInit
             /\ page = "area" => AreaInit
             /\ page = "plan" => PlanInit
             /\ page = "login" => LoginInit
             /\ page = "preferences" => PrefInit
             /\ page = "user" => UserInit
             /\ page = "adminBooking" => EditorInit
             /\ page = "settings" => SettingsInit
  BY <1>1, WhichPage DEF ClientInit
<1>2. ASSUME [ClientNext]_webVars
      PROVE  /\ page' = page
             /\ page = "search" => [SearchNext]_webVars
             /\ page = "booking" => [DialogNext]_webVars
             /\ page = "area" => [AreaNext]_webVars
             /\ page = "plan" => [PlanNext]_webVars
             /\ page = "login" => [LoginNext]_webVars
             /\ page = "preferences" => [PrefNext]_webVars
             /\ page = "user" => [UserNext]_webVars
             /\ page = "adminBooking" => [EditorNext]_webVars
             /\ page = "settings" => [SettingsNext]_webVars
  BY <1>2, SearchStays, DialogStays, AreaStays, PlanStays, LoginStays,
     PrefStays, UserStays, EditorStays, SettingsStays DEF ClientNext, webVars
<1> QED BY <1>1, <1>2

------------------------------------------------------------------------------
(* The designer of floor plans.                                            *)

(* The points of the plan, and the elements drawn on it: walls and the     *)
(* entities placed beside them.                                            *)
Pt == Int \X Int
Elements ==
    [id : Nat, kind : Kinds \cup {"wall"}, a : Pt, b : Pt, turn : Int]

(* A set of numbers that is not empty has a least one: the choice of the   *)
(* first of several ends rests on it.                                      *)
LEMMA LeastIndex ==
    ASSUME NEW S \in SUBSET Nat, S # {}
    PROVE  \E i \in S : \A j \in S : i <= j
<1> DEFINE less == {ss \in Nat \X Nat : ss[1] < ss[2]}
<1>1. IsWellFoundedOn(less, Nat)
  BY NatLessThanWellFounded, Zenon DEF OpToRel
<1>2. PICK i \in S : \A j \in S : <<j, i>> \notin less
  <2> HIDE DEF less
  <2> QED
    BY <1>1, WFMin, Zenon
<1>3. i \in Nat /\ \A j \in S : j \in Nat /\ ~(j < i)
  BY <1>2
<1> QED
  BY <1>3

(* What is left of a sequence without its element at i.                    *)
LEMMA RemovedIsSeq ==
    ASSUME NEW S, NEW s \in Seq(S), NEW i \in DOMAIN s
    PROVE  /\ RemovedAt(s, i) \in Seq(S)
           /\ Len(RemovedAt(s, i)) = Len(s) - 1
           /\ DOMAIN RemovedAt(s, i) = 1 .. Len(s) - 1
           /\ \A j \in 1 .. Len(s) - 1 :
                RemovedAt(s, i)[j] = IF j < i THEN s[j] ELSE s[j + 1]
BY DEF RemovedAt

(* The ends of the walls are points, and are numbered two to an element.   *)
LEMMA EndsType ==
    ASSUME NEW elements \in Seq(Elements), NEW except
    PROVE  /\ WallEnds(elements, except) \subseteq 1 .. 2 * Len(elements)
           /\ \A i \in 1 .. 2 * Len(elements) : Ends(elements)[i] \in Pt
<1>1. \A i \in 1 .. 2 * Len(elements) : (i + 1) \div 2 \in 1 .. Len(elements)
  OBVIOUS
<1>2. \A i \in 1 .. Len(elements) : elements[i].a \in Pt /\ elements[i].b \in Pt
  <2>1. \A i \in 1 .. Len(elements) : elements[i] \in Elements
    OBVIOUS
  <2> QED BY <2>1 DEF Elements
<1> QED
  BY <1>1, <1>2 DEF Ends, WallEnds

(* The first of some ends is a point, and so is the default.               *)
LEMMA FirstType ==
    ASSUME NEW elements \in Seq(Elements),
           NEW near \in SUBSET (1 .. 2 * Len(elements)), NEW default \in Pt
    PROVE  First(elements, near, default) \in Pt
<1>1. CASE near = {} BY <1>1 DEF First
<1>2. CASE near # {}
  <2>1. PICK i \in near : \A j \in near : i <= j
    BY <1>2, LeastIndex
  <2> DEFINE c == CHOOSE k \in near : \A j \in near : k <= j
  <2>2. c \in near
    BY <2>1
  <2>3. Ends(elements)[c] \in Pt
    BY <2>2, EndsType
  <2> QED BY <1>2, <2>3 DEF First
<1> QED BY <1>1, <1>2

(* A point that snaps to the end of a wall, or to its horizontal or        *)
(* vertical, is a point of the plan again, ...                             *)
LEMMA SnapPointType ==
    ASSUME NEW elements \in Seq(Elements), NEW except, NEW p \in Pt
    PROVE  SnapPoint(p, elements, except) \in Pt
<1>1. {i \in WallEnds(elements, except) :
             Distance2(p, Ends(elements)[i]) <= Threshold * Threshold}
        \in SUBSET (1 .. 2 * Len(elements))
  BY EndsType
<1> QED BY <1>1, FirstType DEF SnapPoint

(* ... on either axis, ...                                                 *)
LEMMA SnapAxisType ==
    ASSUME NEW elements \in Seq(Elements), NEW axis \in {1, 2}, NEW p \in Pt
    PROVE  SnapAxis(p, axis, elements) \in Pt
<1> DEFINE near == {i \in WallEnds(elements, 0) :
             Size(p[axis] - Ends(elements)[i][axis]) <= Threshold}
<1>1. near \in SUBSET (1 .. 2 * Len(elements))
  BY EndsType
<1> DEFINE f == First(elements, near, p)
<1>2. f \in Pt
  BY <1>1, FirstType
<1>3. SnapAxis(p, axis, elements) = [p EXCEPT ![axis] = f[axis]]
  BY DEF SnapAxis
<1> HIDE DEF f
<1>4. f[axis] \in Int BY <1>2 DEF Pt
<1> QED BY <1>2, <1>3, <1>4 DEF Pt

(* ... and with the constraint of the wall that is being drawn.            *)
LEMMA ConstrainedType ==
    ASSUME NEW elements \in Seq(Elements), NEW start \in Pt \cup {NoPoint},
           NEW p \in Pt
    PROVE  ConstrainedPoint(p, start, elements) \in Pt
<1> DEFINE d == Minus(p, start)
           straight == IF start = NoPoint THEN p
                    ELSE IF Flat(d) THEN <<p[1], start[2]>>
                    ELSE IF Steep(d) THEN <<start[1], p[2]>> ELSE p
<1>1. straight \in Pt
  BY DEF Pt
<1>2. SnapPoint(p, elements, 0) \in Pt
  BY SnapPointType
<1>3. SnapPoint(straight, elements, 0) \in Pt
  BY <1>1, SnapPointType
<1>4. SnapAxis(straight, 1, elements) \in Pt /\ SnapAxis(straight, 2, elements) \in Pt
  BY <1>1, SnapAxisType
<1> QED
  BY <1>1, <1>2, <1>3, <1>4, Zenon DEF ConstrainedPoint

(* A square is not negative.                                               *)
LEMMA SquareType ==
    ASSUME NEW n \in Int
    PROVE  n * n \in Nat
<1>1. CASE n >= 0 BY <1>1
<1>2. CASE n < 0
  <2>1. -n \in Nat /\ n * n = (-n) * (-n) BY <1>2
  <2> QED BY <2>1
<1> QED BY <1>1, <1>2

(* The point of a wall that is nearest to another one is a point, ...      *)
LEMMA ClosestType ==
    ASSUME NEW c \in Pt, NEW wall \in Elements
    PROVE  Closest(c, wall) \in Pt
<1> DEFINE d == Minus(wall.b, wall.a)
           e == Minus(c, wall.a)
           l == Distance2(wall.a, wall.b)
           g == e[1] * d[1] + e[2] * d[2]
           t == IF g < 0 THEN 0 ELSE IF g > l THEN l ELSE g
<1>1. wall.a \in Pt /\ wall.b \in Pt BY DEF Elements
<1>2. /\ d[1] \in Int /\ d[2] \in Int /\ e[1] \in Int /\ e[2] \in Int
      /\ Minus(wall.a, wall.b)[1] \in Int /\ Minus(wall.a, wall.b)[2] \in Int
  BY <1>1 DEF Minus, Pt
<1>3. l = Minus(wall.a, wall.b)[1] * Minus(wall.a, wall.b)[1]
          + Minus(wall.a, wall.b)[2] * Minus(wall.a, wall.b)[2]
  BY DEF Distance2
<1> DEFINE x == Minus(wall.a, wall.b)[1]
           y == Minus(wall.a, wall.b)[2]
<1> HIDE DEF d, e, x, y
<1>4. x * x \in Nat /\ y * y \in Nat /\ l = x * x + y * y
  <2>1. \A n \in Int : n * n \in Nat BY SquareType
  <2>2. x \in Int /\ y \in Int BY <1>2 DEF x, y
  <2> QED BY <1>3, <2>1, <2>2 DEF x, y
<1> HIDE DEF l
<1>5. l \in Nat
  <2> DEFINE m == x * x  n == y * y
  <2> HIDE DEF m, n
  <2> QED BY <1>4 DEF m, n
<1>6. g \in Int BY <1>2
<1> HIDE DEF g
<1>7. t \in Int BY <1>5, <1>6
<1> HIDE DEF t
<1>8. t * d[1] \in Int /\ t * d[2] \in Int BY <1>2, <1>7
<1> DEFINE u == t * d[1]  v == t * d[2]
<1> HIDE DEF u, v
<1>9. l # 0 => u \div l \in Int /\ v \div l \in Int
  BY <1>5, <1>8 DEF u, v
<1>10. l # 0 => <<wall.a[1] + u \div l, wall.a[2] + v \div l>> \in Pt
  BY <1>1, <1>9 DEF Pt
<1>11. Closest(c, wall) = IF l = 0 THEN wall.a
                          ELSE <<wall.a[1] + u \div l, wall.a[2] + v \div l>>
  BY DEF Closest, d, e, l, g, t, u, v
<1> QED BY <1>1, <1>10, <1>11

(* ... so is that across it, ...                                           *)
LEMMA AcrossType ==
    ASSUME NEW d \in Pt, NEW n \in Int
    PROVE  Across(d, n) \in Pt
<1> DEFINE K == {k \in 1 .. Size(d[1]) + Size(d[2]) :
                    k * k <= d[1] * d[1] + d[2] * d[2]}
           m == Cardinality(K)
<1>1. d[1] \in Int /\ d[2] \in Int BY DEF Pt
<1>2. Size(d[1]) + Size(d[2]) \in Int BY <1>1 DEF Size
<1>3. IsFiniteSet(1 .. Size(d[1]) + Size(d[2])) BY <1>2, FS_Interval
<1>4. m \in Nat BY <1>3, FS_Subset, FS_CardinalityType
<1> HIDE DEF K, m
<1> DEFINE u == d[2] * n  v == d[1] * n
<1>5. u \in Int /\ v \in Int BY <1>1
<1> HIDE DEF u, v
<1>6. m # 0 => <<-(u \div m), v \div m>> \in Pt BY <1>4, <1>5 DEF Pt
<1>7. Across(d, n) = IF m = 0 THEN <<0, n>> ELSE <<-(u \div m), v \div m>>
  BY DEF Across, K, m, u, v
<1> QED BY <1>6, <1>7 DEF Pt

(* ... and the angle of a wall is a number.                                *)
LEMMA HeadingType ==
    ASSUME NEW d \in Pt
    PROVE  Heading(d) \in Int
BY DEF Heading, Pt

(* An entity put on the wall nearest to it stays that entity.              *)
LEMMA OnWallType ==
    ASSUME NEW elements \in Seq(Elements), NEW el \in Elements
    PROVE  \A e \in OnWall(el, elements) : e \in Elements /\ e.id = el.id
<1> DEFINE half == <<el.b[1] \div 2, el.b[2] \div 2>>
           c == Plus(el.a, half)
           by(wall) == IF el.kind = "door"
                       THEN Across(Minus(wall.b, wall.a), half[2]) ELSE <<0, 0>>
           at(wall) == Plus(Closest(c, wall), by(wall))
           on(q, n) == [el EXCEPT !.a = q, !.turn = n]
<1>1. \A q \in Pt, n \in Int : on(q, n) \in Elements /\ on(q, n).id = el.id
  BY DEF Elements
<1>2. half \in Pt /\ c \in Pt
  BY DEF Elements, Pt, Plus
<1>3. half[2] \in Int BY <1>2 DEF Pt
<1> HIDE DEF half, c
<1>4. ASSUME NEW wall \in Elements
      PROVE  /\ Minus(at(wall), half) \in Pt
             /\ Heading(Minus(wall.b, wall.a)) \in Int
  <2>1. Minus(wall.b, wall.a) \in Pt BY DEF Elements, Pt, Minus
  <2>a. <<0, 0>> \in Pt BY DEF Pt
  <2>2. Across(Minus(wall.b, wall.a), half[2]) \in Pt
    BY <1>3, <2>1, AcrossType
  <2>3. Closest(c, wall) \in Pt BY <1>2, ClosestType
  <2>4. by(wall) \in Pt BY <2>a, <2>2
  <2> HIDE DEF by
  <2>5. at(wall) \in Pt BY <2>3, <2>4 DEF Plus, Pt
  <2> HIDE DEF at
  <2>6. Minus(at(wall), half) \in Pt BY <1>2, <2>5 DEF Minus, Pt
  <2>7. Heading(Minus(wall.b, wall.a)) \in Int BY <2>1, HeadingType
  <2> QED BY <2>6, <2>7
<1>5. ASSUME NEW e \in OnWall(el, elements), e # el
      PROVE  \E q \in Pt, n \in Int : e = on(q, n)
  <2>1. PICK i \in DOMAIN elements :
          e = on(Minus(at(elements[i]), half),
                 Heading(Minus(elements[i].b, elements[i].a)))
    BY <1>5 DEF OnWall, NearestWall, NearWalls, half, c
  <2>2. elements[i] \in Elements OBVIOUS
  <2> HIDE DEF on, at
  <2> QED BY <1>4, <2>1, <2>2
<1> HIDE DEF on, at
<1> QED BY <1>1, <1>5

(* The handles at the corners of an entity.                                *)
Corners == {"nw", "ne", "se", "sw"}

(* An entity resized at a corner keeps the opposite corner, also where the *)
(* least size stops the pointer.                                           *)
LEMMA ResizedKeepsCorner ==
    ASSUME NEW from \in Elements, NEW handle \in Corners, NEW by \in Pt
    PROVE  LET el == Resized(from, handle, by) IN
           /\ el \in Elements /\ el.id = from.id
           /\ Corner(el, handle) = Corner(from, handle)
<1> DEFINE w == from.b[1]  h == from.b[2]
           east == AtLeast(MinSize, w + by[1])
           south == AtLeast(MinSize, h + by[2])
           west == AtLeast(MinSize, w - by[1])
           north == AtLeast(MinSize, h - by[2])
<1>1. /\ w \in Int /\ h \in Int /\ from.a[1] \in Int /\ from.a[2] \in Int
      /\ by[1] \in Int /\ by[2] \in Int
  BY DEF Elements, Pt
<1>2. /\ east \in Int /\ south \in Int /\ west \in Int /\ north \in Int
  BY <1>1, SizesAssumption DEF AtLeast
<1>3. ASSUME NEW a \in Pt, NEW b \in Pt
      PROVE  LET el == [from EXCEPT !.a = a, !.b = b] IN
             el \in Elements /\ el.id = from.id /\ el.a = a /\ el.b = b
  BY DEF Elements
<1> DEFINE el == Resized(from, handle, by)
<1>4. CASE handle = "se"
  <2>1. el = [from EXCEPT !.b = <<east, south>>] BY <1>4 DEF Resized
  <2> HIDE DEF el, east, south
  <2>2. <<east, south>> \in Pt BY <1>2 DEF Pt
  <2>3. el \in Elements /\ el.id = from.id /\ el.a = from.a
    BY <2>1, <2>2 DEF Elements
  <2>4. Corner(el, handle) = Corner(from, handle)
    BY <1>4, <2>3 DEF Corner
  <2> QED BY <2>3, <2>4 DEF el
<1>5. CASE handle = "sw"
  <2> DEFINE a == <<from.a[1] + w - west, from.a[2]>>  b == <<west, south>>
  <2>1. el = [from EXCEPT !.a = a, !.b = b] BY <1>5 DEF Resized
  <2> HIDE DEF el, west, south
  <2>2. a \in Pt /\ b \in Pt BY <1>1, <1>2 DEF Pt
  <2> HIDE DEF a, b
  <2>3. el \in Elements /\ el.id = from.id /\ el.a = a /\ el.b = b
    BY <1>3, <2>1, <2>2
  <2>4. Corner(el, handle) = Corner(from, handle)
    BY <1>1, <1>2, <1>5, <2>3 DEF Corner, a, b
  <2> QED BY <2>3, <2>4 DEF el
<1>6. CASE handle = "ne"
  <2> DEFINE a == <<from.a[1], from.a[2] + h - north>>  b == <<east, north>>
  <2>1. el = [from EXCEPT !.a = a, !.b = b] BY <1>6 DEF Resized
  <2> HIDE DEF el, east, north
  <2>2. a \in Pt /\ b \in Pt BY <1>1, <1>2 DEF Pt
  <2> HIDE DEF a, b
  <2>3. el \in Elements /\ el.id = from.id /\ el.a = a /\ el.b = b
    BY <1>3, <2>1, <2>2
  <2>4. Corner(el, handle) = Corner(from, handle)
    BY <1>1, <1>2, <1>6, <2>3 DEF Corner, a, b
  <2> QED BY <2>3, <2>4 DEF el
<1>7. CASE handle = "nw"
  <2> DEFINE a == <<from.a[1] + w - west, from.a[2] + h - north>>
             b == <<west, north>>
  <2>1. el = [from EXCEPT !.a = a, !.b = b] BY <1>7 DEF Resized
  <2> HIDE DEF el, west, north
  <2>2. a \in Pt /\ b \in Pt BY <1>1, <1>2 DEF Pt
  <2> HIDE DEF a, b
  <2>3. el \in Elements /\ el.id = from.id /\ el.a = a /\ el.b = b
    BY <1>3, <2>1, <2>2
  <2>4. Corner(el, handle) = Corner(from, handle)
    BY <1>1, <1>2, <1>7, <2>3 DEF Corner, a, b
  <2> QED BY <2>3, <2>4 DEF el
<1> QED BY <1>4, <1>5, <1>6, <1>7 DEF Corners

(* An angle settles at a multiple of the step, a whole number.             *)
LEMMA SettledType == ASSUME NEW n \in Int PROVE Settled(n) \in Int
<1> DEFINE right == {k \in -8 .. 8 : Size(n - 90 * k) < 10}
           c == CHOOSE k \in right : TRUE
<1>1. CASE right = {} BY <1>1 DEF Settled
<1>2. CASE right # {}
  <2>1. c \in right BY <1>2
  <2>2. Settled(n) = 90 * c BY <1>2 DEF Settled
  <2> HIDE DEF c
  <2>3. c \in Int BY <2>1
  <2> QED BY <2>2, <2>3
<1> QED BY <1>1, <1>2

(* Every handle an element may be dragged at.                              *)
HandleNames == {"body", "ep1", "ep2", "rotate"} \cup Corners

(* Whatever handle an element is dragged at, it stays that element, and a  *)
(* corner handle leaves the opposite corner where it was.                  *)
LEMMA DraggedType ==
    ASSUME NEW elements \in Seq(Elements), NEW from \in Elements,
           NEW handle \in Handles(from.kind), NEW by \in Pt
    PROVE  \A el \in Dragged(from, handle, by, elements) :
              /\ el \in Elements /\ el.id = from.id
              /\ handle \in Corners =>
                    Corner(el, handle) = Corner(from, handle)
<1> SUFFICES ASSUME NEW el \in Dragged(from, handle, by, elements)
             PROVE  /\ el \in Elements /\ el.id = from.id
                    /\ handle \in Corners =>
                         Corner(el, handle) = Corner(from, handle)
  OBVIOUS
<1>0. \A p, q \in Pt : Plus(p, q) \in Pt
  BY DEF Pt, Plus
<1>1. Plus(from.a, by) \in Pt /\ Plus(from.b, by) \in Pt
  BY <1>0 DEF Elements
<1>2. /\ SnapPoint(Plus(from.a, by), elements, from.id) \in Pt
      /\ SnapPoint(Plus(from.b, by), elements, from.id) \in Pt
  BY <1>1, SnapPointType
<1> DEFINE E(x) == /\ x \in Elements
                   /\ x.id = from.id
<1>3. \A q \in Pt : E([from EXCEPT !.a = q]) /\ E([from EXCEPT !.b = q])
  BY DEF Elements
<1>4. \A q, r \in Pt : E([from EXCEPT !.a = q, !.b = r])
  BY DEF Elements
<1>5. \A n \in Int : E([from EXCEPT !.turn = n])
  BY DEF Elements
<1>6. \A n \in Angles : Settled(from.turn + n) \in Int
  <2>1. \A n \in Angles : from.turn + n \in Int BY SizesAssumption DEF Elements
  <2> QED BY <2>1, SettledType
<1> HIDE DEF E
<1>7. CASE from.kind = "wall" /\ handle = "ep1"
  <2>1. el = [from EXCEPT !.a = SnapPoint(Plus(from.a, by), elements, from.id)]
    BY <1>7 DEF Dragged
  <2> QED BY <1>7, <1>2, <1>3, <2>1 DEF E, Corners
<1>8. CASE from.kind = "wall" /\ handle = "ep2"
  <2>1. el = [from EXCEPT !.b = SnapPoint(Plus(from.b, by), elements, from.id)]
    BY <1>8 DEF Dragged
  <2> QED BY <1>8, <1>2, <1>3, <2>1 DEF E, Corners
<1>9. CASE from.kind = "wall" /\ handle = "body"
  <2>1. el = [from EXCEPT !.a = Plus(from.a, by), !.b = Plus(from.b, by)]
    BY <1>9 DEF Dragged
  <2> QED BY <1>9, <1>1, <1>4, <2>1 DEF E, Corners
<1>10. CASE from.kind # "wall" /\ handle = "body"
  <2>1. el \in OnWall([from EXCEPT !.a = Plus(from.a, by)], elements)
    BY <1>10 DEF Dragged
  <2>2. E([from EXCEPT !.a = Plus(from.a, by)]) BY <1>1, <1>3
  <2> DEFINE f == [from EXCEPT !.a = Plus(from.a, by)]
  <2> HIDE DEF f
  <2>3. el \in Elements /\ el.id = f.id
    BY <2>1, <2>2, OnWallType DEF f, E
  <2> QED BY <1>10, <2>2, <2>3 DEF E, Corners, f
<1>11. CASE handle \in Corners
  <2>1. el = Resized(from, handle, by)
    BY <1>11 DEF Dragged, Corners
  <2> QED BY <1>11, <2>1, ResizedKeepsCorner
<1>12. CASE handle = "rotate"
  <2>1. PICK angle \in Angles : el = [from EXCEPT !.turn = Settled(from.turn + angle)]
    BY <1>12 DEF Dragged
  <2> QED BY <1>12, <1>5, <1>6, <2>1 DEF E, Corners
<1> QED BY <1>7, <1>8, <1>9, <1>10, <1>11, <1>12 DEF Handles, Corners

(* What the refs and the state of the editor hold.                         *)
Drags ==
    [dragging : BOOLEAN, startMouse : Pt \cup {NoPoint},
     handle : HandleNames \cup {"none"}, start : Elements \cup {Nothing.start}]
Views ==
    [elements : Seq(Elements), mode : {"select", "draw-wall"} \cup Kinds,
     selected : Nat, wallStart : Pt \cup {NoPoint}, drag : Drags]

(* No two elements have the same id, and the counter is above all of them. *)
UniqueIds(elements, next) ==
    /\ \A i \in DOMAIN elements : 0 < elements[i].id /\ elements[i].id < next
    /\ \A i, j \in DOMAIN elements :
          elements[i].id = elements[j].id => i = j

(* While something is dragged, the refs hold where the drag began, and     *)
(* what is selected is the element it began with, or nothing any more.     *)
DragKnown(view) ==
    LET drag == view.drag IN
    drag.dragging => /\ drag.start \in Elements /\ drag.startMouse \in Pt
                     /\ drag.handle \in Handles(drag.start.kind)
                     /\ view.selected \in {0, drag.start.id}

(* The element dragged at a corner still has its opposite corner where it  *)
(* was when the drag began.                                                *)
CornerStays(view) ==
    LET drag == view.drag IN
    drag.dragging /\ drag.handle \in Corners
    => \A i \in DOMAIN view.elements :
          view.elements[i].id = view.selected
          => Corner(view.elements[i], drag.handle) = Corner(drag.start, drag.handle)

(* The view of the plan in order: between two drags it is what the page    *)
(* has been told.                                                          *)
Good(design, next, view) ==
    /\ UniqueIds(view.elements, next)
    /\ DragKnown(view)
    /\ CornerStays(view)
    /\ ~view.drag.dragging => view.elements = design

(* The inductive invariant of the floor plan. Of the properties it adds    *)
(* the types, that ids are unique (a drag finds its element by the id),    *)
(* and what the refs hold during a drag.                                   *)
PlanInv ==
    /\ server = <<>>
    /\ state \in [design : Seq(Elements), nextId : Nat \ {0}, view : Views]
    /\ Good(state.design, state.nextId, state.view)

(* It implies both properties of the floor plan.                           *)
LEMMA GoodIsEnough ==
    PlanInv => PageKnowsPlan /\ OppositeCornerStays
BY DEF PlanInv, Good, CornerStays, PageKnowsPlan, OppositeCornerStays, Idle,
   Index, Corners

(* A design that is opened anew is in order.                               *)
LEMMA OpenedIsGood ==
    ASSUME NEW design \in Seq(Elements), NEW next \in Nat, UniqueIds(design, next)
    PROVE  Opened(design) \in Views /\ Good(design, next, Opened(design))
<1> DEFINE v == Opened(design)
<1>1. /\ v.elements = design /\ v.mode = "select" /\ v.selected = 0
      /\ v.wallStart = NoPoint /\ v.drag = Nothing
  BY DEF Opened
<1>2. Nothing \in Drags /\ ~Nothing.dragging
  BY DEF Nothing, Drags
<1>3. v \in Views
  BY <1>2 DEF Views, Opened
<1> HIDE DEF v
<1> QED BY <1>1, <1>2, <1>3 DEF Good, DragKnown, CornerStays, v

(* The page opens with an empty plan.                                      *)
LEMMA PlanBegins == PlanInit => PlanInv
<1> SUFFICES ASSUME PlanInit PROVE PlanInv
  OBVIOUS
<1>1. <<>> \in Seq(Elements) /\ 1 \in Nat /\ UniqueIds(<<>>, 1)
  BY DEF UniqueIds
<1>2. Opened(<<>>) \in Views /\ Good(<<>>, 1, Opened(<<>>))
  BY <1>1, OpenedIsGood
<1> QED BY <1>1, <1>2 DEF PlanInit, PlanInv

(* A step that changes the view, and tells the page of the elements or     *)
(* not, keeps the invariant if the new view is in order.                   *)
LEMMA ViewChanges ==
    ASSUME PlanInv, UNCHANGED server, NEW v \in Views,
           \/ View(v) /\ Good(state.design, state.nextId, v)
           \/ Told(v) /\ Good(v.elements, state.nextId, v)
    PROVE  PlanInv'
BY DEF PlanInv, View, Told, Views

(* What a step of the user finds.                                          *)
LEMMA Kept ==
    ASSUME PlanInv
    PROVE  /\ state.view \in Views /\ state.design \in Seq(Elements)
           /\ state.nextId \in Nat \ {0}
           /\ UniqueIds(state.view.elements, state.nextId)
           /\ DragKnown(state.view) /\ CornerStays(state.view)
           /\ Idle => state.view.elements = state.design
           /\ state.view.elements \in Seq(Elements)
           /\ state.view.wallStart \in Pt \cup {NoPoint}
           /\ state.view.selected \in Nat
BY DEF PlanInv, Good, Views, Idle

(* A new element takes the id of the counter.                              *)
LEMMA Appended ==
    ASSUME NEW elements \in Seq(Elements), NEW next \in Nat,
           UniqueIds(elements, next), NEW el \in Elements, el.id = next, next > 0
    PROVE  /\ Append(elements, el) \in Seq(Elements)
           /\ UniqueIds(Append(elements, el), next + 1)
<1> DEFINE s == Append(elements, el)
<1>1. s \in Seq(Elements) /\ Len(s) = Len(elements) + 1 /\ DOMAIN s = 1 .. Len(elements) + 1
  OBVIOUS
<1>2. \A i \in DOMAIN s : \/ i \in DOMAIN elements /\ s[i] = elements[i]
                          \/ i = Len(elements) + 1 /\ s[i] = el
  OBVIOUS
<1>3. \A i \in DOMAIN elements : elements[i].id \in Nat
  <2>1. \A i \in DOMAIN elements : elements[i] \in Elements OBVIOUS
  <2> QED BY <2>1 DEF Elements
<1> HIDE DEF s
<1> QED BY <1>1, <1>2, <1>3 DEF UniqueIds, s

(* Removing an element leaves the ids of the others unique.                *)
LEMMA Removed ==
    ASSUME NEW elements \in Seq(Elements), NEW next \in Nat,
           UniqueIds(elements, next), NEW i \in DOMAIN elements
    PROVE  /\ RemovedAt(elements, i) \in Seq(Elements)
           /\ UniqueIds(RemovedAt(elements, i), next)
<1> DEFINE s == RemovedAt(elements, i)
<1>1. /\ s \in Seq(Elements) /\ DOMAIN s = 1 .. Len(elements) - 1
      /\ \A j \in 1 .. Len(elements) - 1 :
           s[j] = IF j < i THEN elements[j] ELSE elements[j + 1]
  BY RemovedIsSeq
<1>2. i \in 1 .. Len(elements) /\ Len(elements) \in Nat
  OBVIOUS
<1> DEFINE k(j) == IF j < i THEN j ELSE j + 1
<1>3. \A j \in DOMAIN s : k(j) \in DOMAIN elements /\ s[j] = elements[k(j)]
  BY <1>1, <1>2
<1>4. \A j, m \in DOMAIN s : k(j) = k(m) => j = m
  BY <1>1, <1>2
<1> HIDE DEF s, k
<1>5. \A j \in DOMAIN s : 0 < s[j].id /\ s[j].id < next
  BY <1>3 DEF UniqueIds
<1>6. \A j, m \in DOMAIN s : s[j].id = s[m].id => j = m
  BY <1>3, <1>4 DEF UniqueIds
<1> QED BY <1>1, <1>5, <1>6 DEF UniqueIds, s

(* Choosing a tool, ending a wall, ending a drag and opening the plan      *)
(* again change no element.                                                *)
LEMMA StopsAndStarts ==
    ASSUME PlanInv,
           \/ \E mode \in {"select", "draw-wall"} \cup Kinds : ChooseMode(mode)
           \/ StopWall \/ FinalizeDrag \/ Reopen
    PROVE  PlanInv'
<1> DEFINE view == state.view
<1>0. UNCHANGED server
  BY DEF ChooseMode, StopWall, FinalizeDrag, Reopen, Stroke
<1>1. ASSUME NEW mode \in {"select", "draw-wall"} \cup Kinds, ChooseMode(mode)
      PROVE  PlanInv'
  <2>1. Idle BY <1>1 DEF ChooseMode
  <2> DEFINE v == [view EXCEPT
                !.mode = mode,
                !.selected = IF mode = "select" THEN @ ELSE 0,
                !.wallStart = IF mode = "draw-wall" THEN @ ELSE NoPoint]
  <2>2. v \in Views /\ v.elements = view.elements /\ v.drag = view.drag
    BY Kept DEF Views
  <2>3. View(v) BY <1>1 DEF ChooseMode
  <2> HIDE DEF v
  <2>4. Good(state.design, state.nextId, v)
    BY <2>1, <2>2, Kept DEF Good, DragKnown, CornerStays, Idle
  <2> QED BY <1>0, <2>2, <2>3, <2>4, ViewChanges
<1>2. CASE StopWall
  <2> DEFINE v == [view EXCEPT !.wallStart = NoPoint]
  <2>1. /\ v \in Views /\ v.elements = view.elements /\ v.drag = view.drag
        /\ v.selected = view.selected
    BY Kept DEF Views
  <2>2. View(v) BY <1>2 DEF StopWall
  <2> HIDE DEF v
  <2>3. Good(state.design, state.nextId, v)
    BY <2>1, Kept DEF Good, DragKnown, CornerStays, Idle
  <2> QED BY <1>0, <2>1, <2>2, <2>3, ViewChanges
<1>3. CASE FinalizeDrag
  <2> DEFINE v == [view EXCEPT !.drag = Nothing]
  <2>1. Nothing \in Drags /\ ~Nothing.dragging
    BY DEF Nothing, Drags
  <2>2. /\ v \in Views /\ v.elements = view.elements /\ v.drag = Nothing
    BY <2>1, Kept DEF Views
  <2>3. Told(v) BY <1>3 DEF FinalizeDrag
  <2> HIDE DEF v
  <2>4. Good(v.elements, state.nextId, v)
    BY <2>1, <2>2, Kept DEF Good, DragKnown, CornerStays
  <2> QED BY <1>0, <2>2, <2>3, <2>4, ViewChanges
<1>4. CASE Reopen
  <2>1. View(Opened(state.design)) /\ Idle BY <1>4 DEF Reopen
  <2>2. UniqueIds(state.design, state.nextId) BY <2>1, Kept
  <2>3. /\ Opened(state.design) \in Views
        /\ Good(state.design, state.nextId, Opened(state.design))
    BY <2>2, Kept, OpenedIsGood
  <2> QED BY <1>0, <2>1, <2>3, ViewChanges
<1> QED BY <1>1, <1>2, <1>3, <1>4

(* An element is added and told to the page.                               *)
LEMMA PlanGrows ==
    ASSUME PlanInv, UNCHANGED server, Idle,
           NEW el \in Elements, el.id = state.nextId, NEW v \in Views,
           v.elements = Append(state.view.elements, el), v.drag = state.view.drag,
           state' = [state EXCEPT !.view = v, !.design = v.elements, !.nextId = @ + 1]
    PROVE  PlanInv'
<1>1. /\ v.elements \in Seq(Elements)
      /\ UniqueIds(v.elements, state.nextId + 1)
  BY Kept, Appended
<1>2. Good(v.elements, state.nextId + 1, v)
  BY <1>1, Kept DEF Good, DragKnown, CornerStays, Idle
<1>3. /\ state'.design = v.elements /\ state'.nextId = state.nextId + 1
      /\ state'.view = v
      /\ state' \in [design : Seq(Elements), nextId : Nat \ {0}, view : Views]
  <2> DEFINE e == v.elements
  <2>1. /\ state \in [design : Seq(Elements), nextId : Nat \ {0}, view : Views]
        /\ state.nextId + 1 \in Nat \ {0} /\ e \in Seq(Elements)
        /\ state' = [state EXCEPT !.view = v, !.design = e, !.nextId = @ + 1]
    BY <1>1, Kept DEF PlanInv
  <2> HIDE DEF e
  <2>2. /\ state'.design = e /\ state'.nextId = state.nextId + 1
        /\ state'.view = v
        /\ state' \in [design : Seq(Elements), nextId : Nat \ {0}, view : Views]
    BY <2>1
  <2> QED BY <2>2 DEF e
<1> QED BY <1>2, <1>3 DEF PlanInv

(* A click of the wall tool begins a wall, draws one, or does nothing.     *)
LEMMA WallIsDrawn ==
    ASSUME PlanInv, NEW p \in Points, DrawWall(p)
    PROVE  PlanInv'
<1> DEFINE view == state.view
           q == ConstrainedPoint(p, view.wallStart, view.elements)
           el == Element(state.nextId, "wall", view.wallStart, q, 0)
<1>1. q \in Pt
  BY Kept, ConstrainedType, PointsAssumption DEF Pt
<1>2. UNCHANGED server /\ Idle
  BY DEF DrawWall, Stroke
<1>3. CASE view.wallStart = NoPoint
  <2> DEFINE v == [view EXCEPT !.wallStart = q]
  <2>2. View(v) BY <1>3 DEF DrawWall
  <2> HIDE DEF q
  <2>1. /\ v \in Views /\ v.elements = view.elements /\ v.drag = view.drag
        /\ v.selected = view.selected
    BY <1>1, Kept DEF Views
  <2> HIDE DEF v
  <2>3. Good(state.design, state.nextId, v)
    BY <2>1, Kept DEF Good, DragKnown, CornerStays, Idle
  <2> QED BY <1>2, <2>1, <2>2, <2>3, ViewChanges
<1>4. CASE view.wallStart # NoPoint
  <2> DEFINE elements == Append(view.elements, el)
             v == [view EXCEPT !.elements = elements, !.wallStart = q]
  <2>1. state' = [state EXCEPT !.view = v, !.design = elements, !.nextId = @ + 1]
    <3>1. state' = [state EXCEPT
                    !.view = [view EXCEPT !.elements = Drawn("wall", view.wallStart, q, 0), !.wallStart = q],
                    !.design = Drawn("wall", view.wallStart, q, 0), !.nextId = @ + 1]
      BY <1>4 DEF DrawWall
    <3> HIDE DEF q
    <3> QED BY <3>1 DEF Drawn
  <2> HIDE DEF q
  <2>2. el \in Elements /\ el.id = state.nextId
    BY <1>1, <1>4, Kept DEF Element, Elements
  <2> HIDE DEF el
  <2>3. elements \in Seq(Elements)
    BY <2>2, Kept
  <2>4. v \in Views /\ v.elements = elements /\ v.drag = view.drag
    BY <1>1, <2>3, Kept DEF Views
  <2> HIDE DEF v
  <2> QED BY <1>2, <2>1, <2>2, <2>4, PlanGrows
<1> QED BY <1>3, <1>4

(* A click of a tool for entities adds one, snapped to a wall or not.      *)
LEMMA EntityIsAdded ==
    ASSUME PlanInv, NEW p \in Points, AddEntity(p)
    PROVE  PlanInv'
<1> DEFINE view == state.view  kind == view.mode
           at == <<p[1] - Defaults[kind][1] \div 2,
                   p[2] - Defaults[kind][2] \div 2>>
           new == Element(state.nextId, kind, at, Defaults[kind], 0)
<1>1. UNCHANGED server /\ Idle /\ kind \in Kinds
  BY DEF AddEntity, Stroke
<1>2. PICK el \in OnWall(new, view.elements) :
         state' = [state EXCEPT
                !.view = [view EXCEPT !.elements = Append(view.elements, el),
                                      !.mode = "select",
                                      !.selected = state.nextId],
                !.design = Append(view.elements, el), !.nextId = @ + 1]
  BY DEF AddEntity
<1>3. new \in Elements /\ new.id = state.nextId
  <2>1. p \in Pt /\ Defaults[kind] \in Nat \X Nat
    BY <1>1, PointsAssumption, SizesAssumption DEF Kinds, Pt
  <2>2. p[1] \in Int /\ p[2] \in Int /\ Defaults[kind][1] \in Nat /\ Defaults[kind][2] \in Nat
        /\ Defaults[kind] \in Pt
    BY <2>1 DEF Pt
  <2>3. at \in Pt
    BY <2>2 DEF Pt
  <2> HIDE DEF at, kind
  <2> QED BY <1>1, <2>2, <2>3, Kept DEF Element, Elements
<1> HIDE DEF new
<1>4. el \in Elements /\ el.id = state.nextId
  BY <1>2, <1>3, Kept, OnWallType
<1> DEFINE elements == Append(view.elements, el)
           v == [view EXCEPT !.elements = elements, !.mode = "select",
                             !.selected = state.nextId]
<1>5. elements \in Seq(Elements)
  BY <1>4, Kept
<1>6. v \in Views /\ v.elements = elements /\ v.drag = view.drag
  BY <1>5, Kept DEF Views
<1>7. state' = [state EXCEPT !.view = v, !.design = v.elements, !.nextId = @ + 1]
  BY <1>2, <1>6
<1> HIDE DEF v
<1> QED BY <1>1, <1>4, <1>6, <1>7, PlanGrows

(* A pointer that goes down on a handle selects the element and notes      *)
(* where the drag starts.                                                  *)
LEMMA DragBegins ==
    ASSUME PlanInv, NEW i \in DOMAIN state.view.elements, NEW p \in Points,
           NEW handle \in Handles(state.view.elements[i].kind),
           StartDrag(i, handle, p)
    PROVE  PlanInv'
<1> DEFINE view == state.view  el == view.elements[i]
           drag == [dragging |-> TRUE, startMouse |-> p, handle |-> handle,
                    start |-> el]
           v == [view EXCEPT !.selected = el.id, !.drag = drag]
<1>1. UNCHANGED server /\ Idle /\ View(v)
  BY DEF StartDrag, Stroke
<1>2. el \in Elements BY Kept
<1>3. el.id \in Nat BY <1>2 DEF Elements
<1>4. handle \in HandleNames /\ p \in Pt
  BY PointsAssumption DEF Handles, HandleNames, Corners, Pt
<1> HIDE DEF el
<1>5. drag \in Drags BY <1>2, <1>4 DEF Drags
<1>6. /\ drag.start = el /\ drag.handle = handle /\ drag.startMouse = p
      /\ drag.dragging /\ drag.start \in Elements
      /\ drag.handle \in Handles(drag.start.kind)
  BY <1>2 DEF el
<1> HIDE DEF drag
<1>7. /\ v \in Views /\ v.elements = view.elements /\ v.drag = drag
      /\ v.selected = el.id
  BY <1>3, <1>5, Kept DEF Views
<1> HIDE DEF v
<1>8. \A j \in DOMAIN v.elements :
         v.elements[j].id = v.selected => v.elements[j] = drag.start
  <2>1. ASSUME NEW j \in DOMAIN view.elements, view.elements[j].id = el.id PROVE i = j
    BY <2>1, Kept DEF UniqueIds, el
  <2> QED BY <2>1, <1>6, <1>7 DEF el
<1>9. Good(state.design, state.nextId, v)
  BY <1>4, <1>6, <1>7, <1>8, Kept DEF Good, DragKnown, CornerStays
<1> QED BY <1>1, <1>7, <1>9, ViewChanges

(* Every move of the pointer computes the element from where the drag      *)
(* began, never from the last move: the opposite corner does not drift.    *)
LEMMA DragGoesOn ==
    ASSUME PlanInv, NEW p \in Points, DragTo(p)
    PROVE  PlanInv'
<1> DEFINE view == state.view  drag == view.drag
<1>1. UNCHANGED server /\ drag.dragging
  BY DEF DragTo, Stroke
<1>2. CASE Index(view.selected) = {}
  <2>1. View(view) BY <1>2 DEF DragTo
  <2> QED BY <1>1, <2>1, Kept, ViewChanges DEF Good, Idle
<1>3. CASE Index(view.selected) # {}
  <2>1. PICK i \in Index(view.selected) :
          \E el \in Dragged([drag.start EXCEPT
                                    !.turn = IF drag.handle = "rotate" THEN @
                                             ELSE view.elements[i].turn],
                              drag.handle, Minus(p, drag.startMouse),
                              view.elements) :
                View([view EXCEPT !.elements[i] = el])
    BY <1>3 DEF DragTo
  <2> DEFINE old == view.elements[i]
             from == [drag.start EXCEPT
                         !.turn = IF drag.handle = "rotate" THEN @ ELSE old.turn]
             by == Minus(p, drag.startMouse)
  <2>2. PICK el \in Dragged(from, drag.handle, by, view.elements) :
          View([view EXCEPT !.elements[i] = el])
    BY <2>1
  <2>3. /\ drag.start \in Elements /\ drag.startMouse \in Pt
        /\ drag.handle \in Handles(drag.start.kind)
        /\ view.selected \in {0, drag.start.id}
    BY <1>1, Kept DEF DragKnown
  <2>4. i \in DOMAIN view.elements /\ old \in Elements /\ old.id = view.selected
    BY Kept DEF Index
  <2>5. old.id = drag.start.id
    BY <2>3, <2>4, Kept DEF UniqueIds
  <2>6. /\ from \in Elements /\ from.id = drag.start.id
        /\ from.a = drag.start.a /\ from.b = drag.start.b
        /\ from.kind = drag.start.kind
    <3>1. old.turn \in Int BY <2>4 DEF Elements
    <3> HIDE DEF old
    <3> QED BY <2>3, <3>1 DEF Elements
  <2>7. by \in Pt
    <3>1. p \in Pt BY PointsAssumption DEF Pt
    <3> QED BY <2>3, <3>1 DEF Minus, Pt
  <2> HIDE DEF from, by
  <2>8. /\ el \in Elements /\ el.id = from.id
        /\ drag.handle \in Corners =>
             Corner(el, drag.handle) = Corner(from, drag.handle)
    BY <2>2, <2>3, <2>6, <2>7, Kept, DraggedType
  <2>9. Corner(from, drag.handle) = Corner(drag.start, drag.handle)
    BY <2>6 DEF Corner
  <2> DEFINE elements == [view.elements EXCEPT ![i] = el]
             v == [view EXCEPT !.elements = elements]
  <2>10. /\ elements \in Seq(Elements)
         /\ DOMAIN elements = DOMAIN view.elements
         /\ \A j \in DOMAIN elements :
               elements[j] = IF j = i THEN el ELSE view.elements[j]
    BY <2>4, <2>8, Kept
  <2>11. View(v)
    BY <2>2
  <2> HIDE DEF elements
  <2>12. /\ v \in Views /\ v.elements = elements /\ v.drag = view.drag
         /\ v.selected = view.selected
    BY <2>10, Kept DEF Views
  <2> HIDE DEF v
  <2>13. \A j \in DOMAIN elements : elements[j].id = view.elements[j].id
    BY <2>4, <2>5, <2>6, <2>8, <2>10
  <2>14. UniqueIds(elements, state.nextId)
    <3> HIDE DEF old
    <3> QED BY <2>10, <2>13, Kept DEF UniqueIds
  <2>15. CornerStays(v)
    <3>1. ASSUME NEW j \in DOMAIN elements, elements[j].id = view.selected
          PROVE  elements[j] = el
      <4>1. view.elements[j].id = view.elements[i].id
        BY <2>4, <2>13, <3>1
      <4>2. j = i BY <2>4, <2>10, <4>1, Kept DEF UniqueIds
      <4> QED BY <2>10, <4>2
    <3> QED BY <2>8, <2>9, <2>12, <3>1 DEF CornerStays
  <2>16. Good(state.design, state.nextId, v)
    BY <1>1, <2>12, <2>14, <2>15, Kept DEF Good, DragKnown
  <2> QED BY <1>1, <2>11, <2>12, <2>16, ViewChanges
<1> QED BY <1>2, <1>3

(* Deleting ends a drag of the element that is deleted.                    *)
LEMMA ElementGoes ==
    ASSUME PlanInv, DeleteSelected
    PROVE  PlanInv'
<1> DEFINE view == state.view
           v == [view EXCEPT !.elements = WithoutSelected, !.selected = 0]
<1>1. UNCHANGED server /\ Told(v)
  BY DEF DeleteSelected, Stroke
<1>2. WithoutSelected \in Seq(Elements) /\ UniqueIds(WithoutSelected, state.nextId)
  <2>1. CASE Index(view.selected) = {}
    BY <2>1, Kept DEF WithoutSelected
  <2>2. CASE Index(view.selected) # {}
    <3> DEFINE i == CHOOSE i \in Index(view.selected) : TRUE
    <3>1. i \in DOMAIN view.elements BY <2>2 DEF Index
    <3>2. WithoutSelected = RemovedAt(view.elements, i)
      BY <2>2 DEF WithoutSelected
    <3> HIDE DEF i
    <3> QED BY <3>1, <3>2, Kept, Removed
  <2> QED BY <2>1, <2>2
<1>3. /\ v \in Views /\ v.elements = WithoutSelected /\ v.drag = view.drag
      /\ v.selected = 0
  BY <1>2, Kept DEF Views
<1> HIDE DEF v
<1>4. \A j \in DOMAIN v.elements : v.elements[j].id # 0
  BY <1>2, <1>3 DEF UniqueIds
<1>5. Good(v.elements, state.nextId, v)
  BY <1>2, <1>3, <1>4, Kept DEF Good, DragKnown, CornerStays
<1> QED BY <1>1, <1>3, <1>5, ViewChanges

(* The page has loaded the area anew, perhaps during a drag; the editor    *)
(* takes the design over when it drags nothing.                            *)
LEMMA DesignIsLoaded ==
    ASSUME PlanInv, DesignLoaded
    PROVE  PlanInv'
<1>1. server = <<>> /\ server' = <<>> /\ <<>> \in Seq(Elements)
  BY DEF DesignLoaded, PlanInv
<1>2. UniqueIds(<<>>, state.nextId)
  BY DEF UniqueIds
<1> DEFINE view == state.view
           v == [view EXCEPT !.elements = <<>>]
<1>3. v \in Views /\ v.elements = <<>> /\ v.drag = view.drag
  BY <1>1, Kept DEF Views
<1>4. CASE state.design # <<>> /\ Idle
  <2>1. state' = [state EXCEPT !.design = <<>>, !.view = v]
    BY <1>1, <1>4 DEF DesignLoaded
  <2> HIDE DEF v
  <2>2. Good(<<>>, state.nextId, v)
    BY <1>2, <1>3, <1>4, Kept DEF Good, DragKnown, CornerStays, Idle
  <2> QED BY <1>1, <1>3, <2>1, <2>2 DEF PlanInv
<1>5. CASE ~(state.design # <<>> /\ Idle)
  <2>1. state' = [state EXCEPT !.design = <<>>, !.view = view]
    <3>1. state' = [state EXCEPT !.design = <<>>, !.view = [@ EXCEPT !.elements = view.elements]]
      BY <1>1, <1>5 DEF DesignLoaded
    <3>2. [view EXCEPT !.elements = view.elements] = view BY Kept DEF Views
    <3> QED BY <3>1, <3>2
  <2>2. Good(<<>>, state.nextId, view)
    BY <1>5, Kept DEF Good, Idle
  <2> QED BY <1>1, <2>1, <2>2 DEF PlanInv
<1> QED BY <1>4, <1>5

(* Every step of the floor plan keeps the invariant.                       *)
LEMMA PlanSteps == PlanInv /\ [PlanNext]_webVars => PlanInv'
<1> SUFFICES ASSUME PlanInv, [PlanNext]_webVars PROVE PlanInv'
  OBVIOUS
<1>1. CASE PlanNext
  BY <1>1, StopsAndStarts, WallIsDrawn, EntityIsAdded, DragBegins, DragGoesOn,
     ElementGoes, DesignIsLoaded DEF PlanNext
<1>2. CASE UNCHANGED webVars
  BY <1>2 DEF webVars, PlanInv
<1> QED BY <1>1, <1>2

(* In a visit to the floor plan the invariant holds at every step.         *)
LEMMA PlanAlways == ClientSpec => [](page = "plan" => PlanInv)
<1> DEFINE Inv == page = "plan" => PlanInv
<1>1. ClientInit => Inv
  BY OnePage, PlanBegins
<1>2. Inv /\ [ClientNext]_webVars => Inv'
  <2> SUFFICES ASSUME Inv, [ClientNext]_webVars, page' = "plan" PROVE PlanInv'
    OBVIOUS
  <2>1. page = "plan" /\ [PlanNext]_webVars
    BY OnePage
  <2> QED BY <2>1, PlanSteps
<1> HIDE DEF Inv
<1>3. ClientSpec => []Inv
  BY <1>1, <1>2, PTL DEF ClientSpec
<1> QED BY <1>3 DEF Inv

(* Unless something is being dragged, the page that would save the plan    *)
(* knows it as the editor shows it (FloorPlan!PageKnowsPlan), for every    *)
(* set of points, angles and elements.                                     *)
THEOREM ThePageKnowsThePlan == ClientSpec => []PageKnowsPlan
<1>1. (page = "plan" => PlanInv) => PageKnowsPlan
  BY GoodIsEnough DEF PageKnowsPlan
<1> QED BY <1>1, PlanAlways, PTL

(* An entity that is drawn unturned and dragged at a corner keeps the      *)
(* opposite corner where it was when the drag began                        *)
(* (FloorPlan!OppositeCornerStays).                                        *)
THEOREM CornersStay == ClientSpec => []OppositeCornerStays
<1>1. (page = "plan" => PlanInv) => OppositeCornerStays
  BY GoodIsEnough DEF OppositeCornerStays
<1> QED BY <1>1, PlanAlways, PTL

------------------------------------------------------------------------------
(* The dialogue that books a space.                                        *)

(* The types of the booking dialogue: the recurrence that is asked for,    *)
(* the calls under way and what the page holds.                            *)
Recurrences ==
    [option : Options \cup {0}, final : Nat, checked : BOOLEAN,
     errors : BOOLEAN, loading : BOOLEAN]
CallRecords ==
    [what : {"none", "precheck", "save", "series", "delete", "buddy",
             "calendar", "refresh"},
     space : Spaces \cup {NoSpace}, option : Options \cup {0, 1}]
DialogStates ==
    [rows : [Spaces -> Holders], space : Spaces \cup {NoSpace},
     holder : Holders, open : Seq(Dialogs), recurring : BOOLEAN,
     recurrence : Recurrences, confirming : BOOLEAN,
     cancelSeries : BOOLEAN, created : CallRecords,
     returnTo : {"confirm", "names"}, calendar : Spaces \cup {NoSpace},
     calendarLoading : BOOLEAN, outdated : BOOLEAN, loading : BOOLEAN,
     buddies : SUBSET (Spaces \cup {NoSpace}), waits : BOOLEAN]

(* A precheck is about a recurrence, and a blocked page waits for nothing. *)
DialogTypes ==
    /\ state \in DialogStates
    /\ server \in [Spaces -> Holders]
    /\ calls \subseteq CallRecords
    /\ \A call \in calls :
          call.what = "precheck" => call.option \in Options
    /\ blocked => calls = {}

(* What is asked before a cancellation is asked on top of everything but a *)
(* message of an error, and only while nothing else is under way.          *)
OnlyErrorsOver(open) ==
    \A i, j \in DOMAIN open : open[i] = "cancel" /\ i < j => open[j] = "error"

Locked ==
    ~blocked =>
        /\ state.confirming <=> \E call \in calls : call.what \in Busy
        /\ \A c, d \in calls : c.what \in Busy /\ d.what \in Busy => c = d
        /\ \A i \in DOMAIN state.open :
              state.open[i] = "cancel"
              => ~state.confirming
        /\ OnlyErrorsOver(state.open)

(* Which call is under way when: of a user who waits.                      *)
Alone(d) == Len(state.open) = 1 /\ state.open[1] = d

(* A call under way, and what is open on the page meanwhile.               *)
Matches(call) ==
    /\ call.what # "none"
    /\ call.what = "precheck" =>
          /\ state.recurrence.loading /\ call.option = state.recurrence.option
          /\ Alone("confirm")
    /\ call.what = "save" =>
          /\ state.confirming /\ Alone("confirm")
          /\ call.space = state.space /\ call.option = state.recurrence.option
    /\ call.what \in {"series", "delete"} => state.confirming /\ Alone("names")
    /\ call.what = "calendar" =>
          /\ state.calendarLoading /\ Alone("calendar")
          /\ call.space = state.space
    /\ call.what = "buddy" => state.loading /\ Len(state.open) = 0
    /\ call.what = "refresh" =>
          state.loading /\ (Len(state.open) = 0 \/ Alone("alert"))

(* The confirmation is ahead: open, or behind the calendar opened from it. *)
Ahead ==
    \/ Alone("confirm")
    \/ Alone("calendar") /\ state.returnTo = "confirm"

(* One dialogue at a time, but for the question on top of the list of      *)
(* names.                                                                  *)
FewOpen ==
    \/ Len(state.open) <= 1 /\ ~Alone("cancel")
    \/ /\ Len(state.open) = 2
       /\ state.open[1] = "names" /\ state.open[2] = "cancel"

(* What is shown of the recurrence is what was prechecked for the option   *)
(* still chosen; what is reported is what was created; the calendar is     *)
(* that of the space.                                                      *)
Shown ==
    /\ state.recurrence.checked
       => state.recurrence.final = Fits[state.recurrence.option]
    /\ Ahead /\ ~state.recurring /\ state.recurrence.option # 0
          /\ state.recurrence.final > 0
       => state.recurrence.final = Fits[state.recurrence.option]
    /\ Alone("success") =>
          /\ state.created.space = state.space
          /\ state.created.option = state.recurrence.option
    /\ Alone("calendar") /\ ~state.calendarLoading /\ ~state.outdated
       => state.calendar = state.space

(* The invariant of a user who waits for each call: one call at a time,    *)
(* matching what is open.                                                  *)
InStep ==
    state.waits /\ ~blocked =>
        /\ \A c, d \in calls : c = d
        /\ \A call \in calls : Matches(call)
        /\ FewOpen
        /\ Shown

(* Closing a dialogue leaves dialogues that were open.                     *)
LEMMA WithoutIs ==
    ASSUME state.open \in Seq(Dialogs), NEW d
    PROVE  /\ Without(d) \in Seq(Dialogs)
           /\ \A i \in DOMAIN Without(d) : \E j \in DOMAIN state.open :
                 Without(d)[i] = state.open[j]
<1>1. CASE ~Open(d) BY <1>1 DEF Without
<1>2. CASE Open(d)
  <2> DEFINE i == CHOOSE i \in DOMAIN state.open : state.open[i] = d
  <2>1. i \in DOMAIN state.open
    BY <1>2 DEF Open
  <2>2. Without(d) = RemovedAt(state.open, i)
    BY <1>2 DEF Without
  <2> HIDE DEF i
  <2>3. /\ RemovedAt(state.open, i) \in Seq(Dialogs)
        /\ DOMAIN RemovedAt(state.open, i) = 1 .. Len(state.open) - 1
        /\ \A j \in 1 .. Len(state.open) - 1 :
              RemovedAt(state.open, i)[j]
                = IF j < i THEN state.open[j] ELSE state.open[j + 1]
    BY <2>1, RemovedIsSeq
  <2>4. \A j \in 1 .. Len(state.open) - 1 :
           j \in DOMAIN state.open /\ j + 1 \in DOMAIN state.open
    OBVIOUS
  <2> QED BY <2>2, <2>3, <2>4
<1> QED BY <1>1, <1>2

(* Opening one puts it on top.                                             *)
LEMMA AppendIs ==
    ASSUME NEW s \in Seq(Dialogs), NEW d \in Dialogs
    PROVE  /\ Append(s, d) \in Seq(Dialogs)
           /\ DOMAIN Append(s, d) = 1 .. Len(s) + 1
           /\ Len(Append(s, d)) = Len(s) + 1
           /\ \A i \in DOMAIN s : Append(s, d)[i] = s[i]
           /\ Append(s, d)[Len(s) + 1] = d
OBVIOUS

(* The types hold at first, and every step keeps them.                     *)
LEMMA DialogTypesBegin == DialogInit => DialogTypes
<1> SUFFICES ASSUME DialogInit PROVE DialogTypes OBVIOUS
<1>1. PICK waits \in BOOLEAN :
          state = [rows |-> server, space |-> NoSpace, holder |-> "nobody",
                   open |-> <<>>,
                   recurring |-> FALSE, recurrence |-> NoRecurrence,
                   confirming |-> FALSE, cancelSeries |-> FALSE,
                   created |-> Call("none", NoSpace, 0),
                   returnTo |-> "names", calendar |-> NoSpace,
                   calendarLoading |-> FALSE, outdated |-> FALSE,
                   loading |-> FALSE, buddies |-> {}, waits |-> waits]
  BY DEF DialogInit
<1>2. NoRecurrence \in Recurrences /\ Call("none", NoSpace, 0) \in CallRecords
  BY DEF NoRecurrence, Recurrences, Call, CallRecords
<1>3. server \in [Spaces -> Holders] /\ calls = {}
  BY DEF DialogInit
<1>4. state \in DialogStates
  BY <1>1, <1>2, <1>3 DEF DialogStates, Holders
<1> QED BY <1>3, <1>4 DEF DialogTypes

LEMMA DialogTypesStay == DialogTypes /\ [DialogNext]_webVars => DialogTypes'
<1> SUFFICES ASSUME DialogTypes, [DialogNext]_webVars PROVE DialogTypes'
  OBVIOUS
<1>1. /\ state \in DialogStates /\ server \in [Spaces -> Holders]
      /\ calls \subseteq CallRecords
      /\ \A call \in calls :
          call.what = "precheck" => call.option \in Options
      /\ blocked => calls = {}
  BY DEF DialogTypes
<1>2. /\ state.open \in Seq(Dialogs) /\ state.recurrence \in Recurrences
      /\ state.space \in Spaces \cup {NoSpace} /\ state.rows \in [Spaces -> Holders]
      /\ state.recurrence.option \in Options \cup {0}
      /\ state.returnTo \in {"confirm", "names"}
  BY <1>1 DEF DialogStates, Recurrences
<1>3. \A d : Without(d) \in Seq(Dialogs)
  BY <1>2, WithoutIs
<1>4. \A d, e \in Dialogs : Append(Without(d), e) \in Seq(Dialogs)
  BY <1>3, AppendIs
<1>5. NoRecurrence \in Recurrences
  BY DEF NoRecurrence, Recurrences
<1>6. \A what \in {"none", "precheck", "save", "series", "delete", "buddy",
                   "calendar", "refresh"},
         space \in Spaces \cup {NoSpace}, option \in Options \cup {0, 1} :
         /\ Call(what, space, option) \in CallRecords
         /\ Call(what, space, option).what = what
         /\ Call(what, space, option).space = space
         /\ Call(what, space, option).option = option
  BY DEF Call, CallRecords
<1>7. <<"confirm">> \in Seq(Dialogs) /\ <<"names">> \in Seq(Dialogs)
  <2>1. \A d \in Dialogs : <<d>> \in Seq(Dialogs)
    OBVIOUS
  <2>2. "confirm" \in Dialogs /\ "names" \in Dialogs
    BY DEF Dialogs
  <2> QED BY <2>1, <2>2
<1> DEFINE Typed == state' \in DialogStates
           Called == /\ calls' \subseteq CallRecords
                     /\ \A call \in calls' :
                          call.what = "precheck" => call.option \in Options
<1>8. ASSUME Typed, Called, server' \in [Spaces -> Holders], blocked' => calls' = {}
      PROVE  DialogTypes'
  BY <1>8 DEF DialogTypes
<1>9. ASSUME NEW c \in CallRecords, c.what = "precheck" => c.option \in Options,
             calls' = calls \cup {c} \/ calls' = calls
      PROVE  Called
  BY <1>1, <1>9
<1>11. ASSUME DialogUser
       PROVE /\ server' \in [Spaces -> Holders] /\ ~blocked'
             /\ ~blocked
  BY <1>11, <1>1 DEF DialogUser, Click
<1>12. ASSUME NEW s \in Spaces, SelectSpace(s) PROVE DialogTypes'
  <2>1. Typed
    BY <1>12, <1>1, <1>2, <1>5, <1>7 DEF SelectSpace, DialogStates, Holders
  <2> QED BY <1>1, <1>8, <1>11, <1>12, <2>1 DEF SelectSpace
<1>13. ASSUME NEW s \in Spaces, SpaceTaken(s) PROVE DialogTypes'
  BY <1>1, <1>8, <1>13 DEF SpaceTaken, Holders
<1>14. CASE HideConfirm
  <2>1. Typed
    BY <1>14, <1>1, <1>3 DEF HideConfirm, DialogStates
  <2> QED BY <1>1, <1>8, <1>11, <1>14, <2>1 DEF HideConfirm
<1>15. CASE ShowRecurring
  <2>1. Typed
    BY <1>15, <1>1 DEF ShowRecurring, DialogStates
  <2> QED BY <1>1, <1>8, <1>11, <1>15, <2>1 DEF ShowRecurring
<1>16. ASSUME NEW o \in Options \cup {0}, ChooseOption(o) PROVE DialogTypes'
  <2> DEFINE r == [state.recurrence EXCEPT !.option = o, !.checked = FALSE,
                                          !.errors = FALSE]
  <2>0. r \in Recurrences /\ state' = [state EXCEPT !.recurrence = r]
    BY <1>16, <1>2 DEF ChooseOption, Recurrences
  <2> HIDE DEF r
  <2>1. Typed
    BY <1>1, <2>0 DEF DialogStates
  <2> QED BY <1>1, <1>8, <1>11, <1>16, <2>1 DEF ChooseOption
<1>17. CASE ResetRecurrence
  <2>1. Typed
    BY <1>17, <1>1, <1>5 DEF ResetRecurrence, DialogStates
  <2> QED BY <1>1, <1>8, <1>11, <1>17, <2>1 DEF ResetRecurrence
<1>18. CASE ApplyRecurrence
  <2>1. Typed
    BY <1>18, <1>1, <1>2, ZenonT(40) DEF ApplyRecurrence, DialogStates,
       Recurrences
  <2> DEFINE c == Call("precheck", state.space, state.recurrence.option)
  <2>3. c \in CallRecords /\ c.option = state.recurrence.option
    BY <1>2 DEF Call, CallRecords
  <2>4. \/ calls' = calls \cup {c} /\ state.recurrence.option # 0
        \/ calls' = calls
    BY <1>18 DEF ApplyRecurrence
  <2> HIDE DEF c
  <2>2. Called
    BY <1>1, <1>2, <1>9, <2>3, <2>4
  <2> QED BY <1>8, <1>11, <1>18, <2>1, <2>2 DEF ApplyRecurrence
<1>19. CASE ConfirmBooking
  <2>1. Typed
    BY <1>19, <1>1 DEF ConfirmBooking, DialogStates
  <2>2. Called
    BY <1>19, <1>1, <1>2, <1>6 DEF ConfirmBooking
  <2> QED BY <1>8, <1>11, <1>19, <2>1, <2>2 DEF ConfirmBooking
<1>20. CASE HideNames
  <2>1. Typed
    BY <1>20, <1>1, <1>3 DEF HideNames, DialogStates
  <2> QED BY <1>1, <1>8, <1>11, <1>20, <2>1 DEF HideNames
<1>21. CASE TickSeries
  <2>1. Typed
    BY <1>21, <1>1 DEF TickSeries, DialogStates
  <2> QED BY <1>1, <1>8, <1>11, <1>21, <2>1 DEF TickSeries
<1>22. CASE AskCancel
  <2>1. Typed
    BY <1>22, <1>1, <1>4 DEF AskCancel, DialogStates, With, Dialogs
  <2> QED BY <1>1, <1>8, <1>11, <1>22, <2>1 DEF AskCancel
<1>23. CASE DenyCancel
  <2>1. Typed
    BY <1>23, <1>1, <1>3 DEF DenyCancel, DialogStates
  <2> QED BY <1>1, <1>8, <1>11, <1>23, <2>1 DEF DenyCancel
<1>24. CASE CancelBooking
  <2>1. Typed
    BY <1>24, <1>1, <1>3 DEF CancelBooking, DialogStates
  <2> DEFINE series == state.cancelSeries /\ state.holder = "series"
             c == Call(IF series THEN "series" ELSE "delete", state.space, 0)
  <2>3. c \in CallRecords /\ c.what # "precheck"
    BY <1>2 DEF Call, CallRecords
  <2>4. calls' = calls \cup {c}
    BY <1>24 DEF CancelBooking
  <2> HIDE DEF c
  <2>2. Called
    BY <1>9, <2>3, <2>4
  <2> QED BY <1>8, <1>11, <1>24, <2>1, <2>2 DEF CancelBooking
<1>25. CASE AddBuddy
  <2>1. Typed
    BY <1>25, <1>1, <1>3 DEF AddBuddy, DialogStates
  <2> DEFINE c == Call("buddy", state.space, 0)
  <2>3. c \in CallRecords /\ c.what = "buddy"
    BY <1>2 DEF Call, CallRecords
  <2>4. calls' = calls \cup {c}
    BY <1>25 DEF AddBuddy
  <2> HIDE DEF c
  <2>2. Called
    BY <1>9, <2>3, <2>4
  <2> QED BY <1>8, <1>11, <1>25, <2>1, <2>2 DEF AddBuddy
<1>26. ASSUME NEW d \in {"confirm", "names"}, OpenCalendar(d) PROVE DialogTypes'
  <2>1. Typed
    BY <1>26, <1>1, <1>4 DEF OpenCalendar, DialogStates, Dialogs
  <2>2. Called
    BY <1>26, <1>1, <1>2, <1>6 DEF OpenCalendar
  <2> QED BY <1>8, <1>11, <1>26, <2>1, <2>2 DEF OpenCalendar
<1>27. CASE NavigateCalendar
  <2>1. Typed
    BY <1>27, <1>1 DEF NavigateCalendar, DialogStates
  <2>2. Called
    BY <1>27, <1>1, <1>2, <1>6 DEF NavigateCalendar
  <2> QED BY <1>8, <1>11, <1>27, <2>1, <2>2 DEF NavigateCalendar
<1>28. CASE CloseCalendar
  <2>1. Typed
    BY <1>28, <1>1, <1>2, <1>4 DEF CloseCalendar, DialogStates, Dialogs
  <2> QED BY <1>1, <1>8, <1>11, <1>28, <2>1 DEF CloseCalendar
<1>29. CASE CloseSuccess
  <2>1. Typed
    BY <1>29, <1>1, <1>3 DEF CloseSuccess, DialogStates
  <2> DEFINE c == Call("refresh", NoSpace, 0)
  <2>3. c \in CallRecords /\ c.what = "refresh"
    BY <1>2 DEF Call, CallRecords
  <2>4. calls' = calls \cup {c}
    BY <1>29 DEF CloseSuccess
  <2> HIDE DEF c
  <2>2. Called
    BY <1>9, <2>3, <2>4
  <2> QED BY <1>8, <1>11, <1>29, <2>1, <2>2 DEF CloseSuccess
<1>30. CASE CloseError
  <2>1. Typed
    <3>1. PICK d : state' = [state EXCEPT !.open = Without(d)]
      BY <1>30 DEF CloseError
    <3> QED BY <1>1, <1>3, <3>1 DEF DialogStates
  <2> QED BY <1>1, <1>8, <1>11, <1>30, <2>1 DEF CloseError
<1>31. CASE CallFails
  <2>1. Typed
    BY <1>31, <1>1 DEF CallFails, Blocks
  <2> QED BY <1>1, <1>8, <1>31, <2>1 DEF CallFails
<1>32. CASE UNCHANGED webVars
  BY <1>1, <1>8, <1>32 DEF webVars
<1>40. ASSUME NEW call \in calls, DialogAnswer, DialogTakes(call)
       PROVE  ~blocked /\ ~blocked' /\ call \in CallRecords
  BY <1>1, <1>40 DEF DialogTakes, Goes
<1>41. ASSUME NEW call \in calls, Prechecked(call) PROVE DialogTypes'
  <2>1. Fits[call.option] \in Nat
    BY <1>1, <1>41, OptionsAssumption DEF Prechecked
  <2> DEFINE errors == Fits[call.option] < 2
             r == [state.recurrence EXCEPT !.loading = FALSE,
                       !.final = Fits[call.option], !.checked = TRUE,
                       !.errors = errors]
  <2>6. errors \in BOOLEAN
    OBVIOUS
  <2>5. state' = [state EXCEPT !.recurring = errors, !.recurrence = r]
    BY <1>41 DEF Prechecked
  <2> HIDE DEF errors
  <2>4. r \in Recurrences
    BY <1>2, <2>1, <2>6 DEF Recurrences
  <2> HIDE DEF r
  <2>2. Typed
    BY <1>1, <2>4, <2>5, <2>6 DEF DialogStates
  <2>3. Called /\ UNCHANGED server /\ UNCHANGED blocked
    BY <1>1, <1>41 DEF Prechecked, DialogTakes, Goes
  <2> QED BY <1>1, <1>8, <2>2, <2>3
<1>42. ASSUME NEW call \in calls, Saved(call) PROVE DialogTypes'
  <2>2. Typed
    BY <1>1, <1>4, <1>42 DEF Saved, DialogStates, Dialogs
  <2>3. Called /\ UNCHANGED blocked
    BY <1>1, <1>42 DEF Saved, DialogTakes, Goes
  <2>4. server' \in [Spaces -> Holders]
    BY <1>1, <1>42 DEF Saved, Holders
  <2> QED BY <1>1, <1>8, <2>2, <2>3, <2>4
<1>43. ASSUME NEW call \in calls, SaveRefused(call) PROVE DialogTypes'
  <2> DEFINE next == IF Open("error") THEN Without("confirm")
                     ELSE Append(Without("confirm"), "error")
  <2>1. next \in Seq(Dialogs)
    BY <1>1, WithoutIs DEF Dialogs, DialogStates
  <2>4. state' = [state EXCEPT !.confirming = FALSE, !.open = next]
    BY <1>43 DEF SaveRefused
  <2> HIDE DEF next
  <2>2. Typed
    BY <1>1, <2>1, <2>4 DEF DialogStates
  <2>3. Called /\ UNCHANGED server /\ UNCHANGED blocked
    BY <1>1, <1>43 DEF SaveRefused, DialogTakes, Goes
  <2> QED BY <1>1, <1>8, <2>2, <2>3
<1>44. ASSUME NEW call \in calls, SeriesRead(call) PROVE DialogTypes'
  <2> DEFINE next == [call EXCEPT !.what = "delete", !.option = 1]
  <2>1. next \in CallRecords /\ next.what = "delete" /\ next.space = call.space
    BY <1>1 DEF CallRecords
  <2>2. calls' = (calls \ {call}) \cup {next} /\ UNCHANGED <<state, server, blocked>>
    BY <1>44 DEF SeriesRead, DialogTakes, Goes
  <2>3. call.what = "series" BY <1>44 DEF SeriesRead
  <2> HIDE DEF next
  <2>4. Called
    BY <1>1, <2>1, <2>2, <2>3
  <2> QED BY <1>1, <1>8, <2>2, <2>4
<1>45. ASSUME NEW call \in calls, Cancelled(call) PROVE DialogTypes'
  <2> DEFINE to(open) == [state EXCEPT !.space = NoSpace, !.holder = "nobody",
                             !.confirming = FALSE, !.loading = TRUE, !.open = open]
  <2>1. \/ state' = to(Without("names"))
        \/ state' = to(Append(Without("names"), "alert"))
    BY <1>45 DEF Cancelled
  <2>5. \A open \in Seq(Dialogs) : to(open) \in DialogStates
    BY <1>1 DEF DialogStates, Holders
  <2> HIDE DEF to
  <2>2. Typed
    <3>1. /\ Without("names") \in Seq(Dialogs)
          /\ Append(Without("names"), "alert") \in Seq(Dialogs)
      BY <1>3, <1>4 DEF Dialogs
    <3> QED BY <2>1, <2>5, <3>1
  <2>3. Called
    BY <1>1, <1>6, <1>45 DEF Cancelled
  <2>4. server' \in [Spaces -> Holders] /\ UNCHANGED blocked
    BY <1>1, <1>45 DEF Cancelled, Holders, DialogTakes, Goes
  <2> QED BY <1>1, <1>8, <2>2, <2>3, <2>4
<1>46. ASSUME NEW call \in calls, BuddyAdded(call) PROVE DialogTypes'
  <2>1. call.space \in Spaces \cup {NoSpace}
    BY <1>1 DEF CallRecords
  <2>2. Typed
    BY <1>1, <1>46, <2>1 DEF BuddyAdded, DialogStates
  <2>3. Called /\ UNCHANGED server /\ UNCHANGED blocked
    BY <1>1, <1>46 DEF BuddyAdded, DialogTakes, Goes
  <2> QED BY <1>1, <1>8, <2>2, <2>3
<1>47. ASSUME NEW call \in calls, CalendarLoaded(call) PROVE DialogTypes'
  <2>1. call.space \in Spaces \cup {NoSpace}
    BY <1>1 DEF CallRecords
  <2>2. Typed
    BY <1>1, <1>47, <2>1 DEF CalendarLoaded, DialogStates
  <2>3. Called /\ UNCHANGED server /\ UNCHANGED blocked
    BY <1>1, <1>47 DEF CalendarLoaded, DialogTakes, Goes
  <2> QED BY <1>1, <1>8, <2>2, <2>3
<1>49. ASSUME NEW call \in calls, BuddyRefused(call) PROVE DialogTypes'
  <2>1. With("error") \in Seq(Dialogs)
    BY <1>1, WithoutIs DEF With, Dialogs, DialogStates
  <2>2. Typed
    BY <1>1, <1>49, <2>1 DEF BuddyRefused, DialogStates
  <2>3. Called /\ UNCHANGED server /\ UNCHANGED blocked
    BY <1>1, <1>49 DEF BuddyRefused, DialogTakes, Goes
  <2> QED BY <1>1, <1>8, <2>2, <2>3
<1>50. ASSUME NEW call \in calls, CalendarFails(call) PROVE DialogTypes'
  <2>2. Typed
    BY <1>1, <1>50 DEF CalendarFails, DialogStates
  <2>3. Called /\ UNCHANGED server /\ UNCHANGED blocked
    BY <1>1, <1>50 DEF CalendarFails, DialogTakes, Goes
  <2> QED BY <1>1, <1>8, <2>2, <2>3
<1>48. ASSUME NEW call \in calls, Refreshed(call) PROVE DialogTypes'
  <2>2. Typed
    BY <1>1, <1>48 DEF Refreshed, DialogStates
  <2>3. Called /\ UNCHANGED server /\ UNCHANGED blocked
    BY <1>1, <1>48 DEF Refreshed, DialogTakes, Goes
  <2> QED BY <1>1, <1>8, <2>2, <2>3
<1> HIDE DEF Typed, Called
<1> QED
  BY <1>12, <1>13, <1>14, <1>15, <1>16, <1>17, <1>18, <1>19, <1>20, <1>21,
     <1>22, <1>23, <1>24, <1>25, <1>26, <1>27, <1>28, <1>29, <1>30, <1>31,
     <1>32, <1>41, <1>42, <1>43, <1>44, <1>45, <1>46, <1>47, <1>48,
     <1>49, <1>50
  DEF DialogNext, DialogAnswer

(* No question of a cancellation is open.                                  *)
NoCancel(open) == \A i \in DOMAIN open : open[i] # "cancel"

(* The flag confirming is up exactly while a booking is created or         *)
(* deleted, and one is at most.                                            *)
LockedBy(confirming, cs) ==
    /\ confirming <=> \E call \in cs : call.what \in Busy
    /\ \A c, d \in cs : c.what \in Busy /\ d.what \in Busy => c = d

(* A call that comes or goes leaves it so: with the flag when it is a      *)
(* booking or a deletion, without when not.                                *)
LEMMA LockKept ==
    ASSUME NEW confirming, NEW cs, LockedBy(confirming, cs), NEW call
    PROVE  /\ call.what \notin Busy => /\ LockedBy(confirming, cs \cup {call})
                                       /\ LockedBy(confirming, cs \ {call})
           /\ call.what \in Busy /\ call \notin cs /\ ~confirming
              => LockedBy(TRUE, cs \cup {call})
           /\ call.what \in Busy /\ call \in cs => LockedBy(FALSE, cs \ {call})
BY DEF LockedBy

(* No question is open while a booking is under way, nor under another     *)
(* dialogue.                                                               *)
LEMMA NoneToCancel ==
    ASSUME DialogTypes, Locked, ~blocked
    PROVE  /\ state.confirming => NoCancel(state.open)
           /\ \A d : Top(d) /\ d \notin {"cancel", "error"}
                 => NoCancel(state.open)
<1>1. state.open \in Seq(Dialogs)
  BY DEF DialogTypes, DialogStates
<1>2. ASSUME NEW d, Top(d), d \notin {"cancel", "error"}, NEW i \in DOMAIN state.open,
             state.open[i] = "cancel"
      PROVE  FALSE
  <2>1. Len(state.open) \in DOMAIN state.open /\ state.open[Len(state.open)] = d
    BY <1>1, <1>2 DEF Top
  <2>2. i < Len(state.open) BY <1>1, <1>2, <2>1
  <2> QED BY <1>2, <2>1, <2>2 DEF Locked, OnlyErrorsOver
<1> QED BY <1>2 DEF Locked, NoCancel

(* Opening or closing another dialogue opens no question.                  *)
LEMMA StillNoneToCancel ==
    ASSUME DialogTypes, NoCancel(state.open), NEW d
    PROVE  /\ NoCancel(Without(d))
           /\ \A e \in Dialogs \ {"cancel"} : NoCancel(Append(Without(d), e))
<1>1. state.open \in Seq(Dialogs)
  BY DEF DialogTypes, DialogStates
<1>2. Without(d) \in Seq(Dialogs) /\ NoCancel(Without(d))
  BY <1>1, WithoutIs DEF NoCancel
<1>3. ASSUME NEW e \in Dialogs \ {"cancel"} PROVE NoCancel(Append(Without(d), e))
  <2>1. \A i \in DOMAIN Append(Without(d), e) :
           i \in DOMAIN Without(d) \/ i = Len(Without(d)) + 1
    BY <1>2, AppendIs
  <2> QED BY <1>2, <1>3, <2>1, AppendIs DEF NoCancel
<1> QED BY <1>2, <1>3

(* When the question closes, no other is open.                             *)
LEMMA NotToCancel ==
    ASSUME DialogTypes, Locked, ~blocked, Top("cancel")
    PROVE  NoCancel(Without("cancel")) /\ ~state.confirming
<1>1. state.open \in Seq(Dialogs)
  BY DEF DialogTypes, DialogStates
<1>2. Len(state.open) \in DOMAIN state.open /\ state.open[Len(state.open)] = "cancel"
  BY <1>1 DEF Top
<1>3. ~state.confirming
  BY <1>2 DEF Locked
<1> DEFINE n == Len(state.open)
           i == CHOOSE i \in DOMAIN state.open : state.open[i] = "cancel"
<1>4. i \in DOMAIN state.open /\ state.open[i] = "cancel"
  BY <1>2
<1>5. i = n
  <2>1. i <= n /\ i \in Nat /\ n \in Nat BY <1>1, <1>4
  <2>2. ~(i < n) BY <1>2, <1>4 DEF Locked, OnlyErrorsOver
  <2> HIDE DEF i, n
  <2> QED BY <2>1, <2>2
<1>6. Without("cancel") = RemovedAt(state.open, i)
  BY <1>4 DEF Without, Open
<1> HIDE DEF i
<1>7. /\ DOMAIN Without("cancel") = 1 .. n - 1
      /\ \A j \in 1 .. n - 1 : Without("cancel")[j] = state.open[j]
  BY <1>1, <1>2, <1>5, <1>6, RemovedIsSeq
<1>8. \A j \in 1 .. n - 1 : j \in DOMAIN state.open /\ j < n
  BY <1>1
<1>9. \A j \in 1 .. n - 1 : state.open[j] # "cancel"
  BY <1>2, <1>8 DEF Locked, OnlyErrorsOver
<1> QED BY <1>3, <1>7, <1>9 DEF NoCancel

(* A message of an error over the question comes and goes.                 *)
LEMMA ErrorsOver ==
    ASSUME DialogTypes, OnlyErrorsOver(state.open)
    PROVE  OnlyErrorsOver(Without("error")) /\ OnlyErrorsOver(With("error"))
<1>1. state.open \in Seq(Dialogs) /\ Without("error") \in Seq(Dialogs)
  BY WithoutIs DEF DialogTypes, DialogStates
<1>2. OnlyErrorsOver(Without("error"))
  <2>1. CASE ~Open("error") BY <2>1 DEF Without
  <2>2. CASE Open("error")
    <3> DEFINE k == CHOOSE i \in DOMAIN state.open : state.open[i] = "error"
               from(j) == IF j < k THEN j ELSE j + 1
    <3>1. k \in DOMAIN state.open /\ Without("error") = RemovedAt(state.open, k)
      BY <2>2 DEF Without, Open
    <3> HIDE DEF k
    <3>2. /\ DOMAIN Without("error") = 1 .. Len(state.open) - 1
          /\ \A j \in 1 .. Len(state.open) - 1 :
                /\ Without("error")[j] = state.open[from(j)]
                /\ from(j) \in DOMAIN state.open
      <4>1. DOMAIN Without("error") = 1 .. Len(state.open) - 1
        BY <1>1, <3>1, RemovedIsSeq
      <4>2. ASSUME NEW j \in 1 .. Len(state.open) - 1
            PROVE  Without("error")[j] = state.open[from(j)]
        BY <1>1, <3>1, RemovedIsSeq
      <4>3. \A j \in 1 .. Len(state.open) - 1 :
               j \in DOMAIN state.open /\ j + 1 \in DOMAIN state.open
        BY <1>1
      <4> QED BY <4>1, <4>2, <4>3
    <3>3. \A i, j \in 1 .. Len(state.open) - 1 : i < j => from(i) < from(j)
      BY <1>1, <3>1
    <3> HIDE DEF from
    <3> QED BY <3>2, <3>3 DEF OnlyErrorsOver
  <2> QED BY <2>1, <2>2
<1>3. OnlyErrorsOver(With("error"))
  <2> DEFINE w == Without("error")
  <2>1. "error" \in Dialogs BY DEF Dialogs
  <2> HIDE DEF w
  <2>2. /\ With("error") = Append(w, "error") /\ w \in Seq(Dialogs)
        /\ OnlyErrorsOver(w)
    BY <1>1, <1>2 DEF With, w
  <2>3. /\ DOMAIN Append(w, "error") = 1 .. Len(w) + 1 /\ DOMAIN w = 1 .. Len(w)
        /\ Len(w) \in Nat
        /\ \A i \in DOMAIN w : Append(w, "error")[i] = w[i]
        /\ Append(w, "error")[Len(w) + 1] = "error"
    BY <2>1, <2>2, AppendIs
  <2>4. \A i, j \in 1 .. Len(w) + 1 :
          i < j => j = Len(w) + 1 \/ (i \in DOMAIN w /\ j \in DOMAIN w)
    BY <2>3
  <2> QED BY <2>2, <2>3, <2>4 DEF OnlyErrorsOver
<1> QED BY <1>2, <1>3

(* Nothing is under way at first.                                          *)
LEMMA LockedBegins == DialogInit => Locked
<1> SUFFICES ASSUME DialogInit PROVE Locked OBVIOUS
<1>1. state.open = <<>> /\ calls = {} /\ state.confirming = FALSE
  BY DEF DialogInit
<1> QED BY <1>1 DEF Locked, OnlyErrorsOver

(* When the lock is known after a step, what remains is the question.      *)
LEMMA Relocked ==
    ASSUME LockedBy(state.confirming, calls)',
           \/ NoCancel(state.open)'
           \/ /\ ~blocked /\ Locked
              /\ UNCHANGED <<state.open, state.confirming>>
    PROVE  Locked'
BY DEF LockedBy, Locked, NoCancel, OnlyErrorsOver

LEMMA RelockedUnderError ==
    ASSUME DialogTypes, Locked, ~blocked, LockedBy(state.confirming, calls)',
           UNCHANGED <<state.confirming>>,
           state'.open \in {Without("error"), With("error")}
    PROVE  Locked'
<1>1. OnlyErrorsOver(state'.open)
  BY ErrorsOver DEF Locked
<1>2. ASSUME state'.confirming PROVE NoCancel(state'.open)
  <2>1. NoCancel(state.open) BY <1>2, NoneToCancel
  <2>2. "error" \in Dialogs \ {"cancel"} BY DEF Dialogs
  <2> QED BY <2>1, <2>2, StillNoneToCancel DEF With
<1> QED BY <1>1, <1>2 DEF Locked, LockedBy, NoCancel

(* Every step keeps the lock, of a user who does not wait for anything     *)
(* too.                                                                    *)
LEMMA LockedStays == DialogTypes /\ Locked /\ [DialogNext]_webVars => Locked'
<1> SUFFICES ASSUME DialogTypes, Locked, [DialogNext]_webVars, ~blocked'
             PROVE  Locked'
  BY DEF Locked
<1>1. ~blocked
  BY DEF DialogNext, SelectSpace, SpaceTaken, HideConfirm, ShowRecurring,
   ResetRecurrence, ApplyRecurrence, ChooseOption, ConfirmBooking, HideNames,
   TickSeries, AskCancel, DenyCancel, CancelBooking, AddBuddy, OpenCalendar,
   NavigateCalendar, CloseCalendar, CloseSuccess, CloseError, DialogAnswer,
   Prechecked, Saved, SaveRefused, SeriesRead, Cancelled, BuddyAdded,
   BuddyRefused, CalendarLoaded, CalendarFails, Refreshed, DialogTakes, CallFails, DialogUser, Click, Goes,
   Blocks, webVars
<1>2. LockedBy(state.confirming, calls)
  BY <1>1 DEF Locked, LockedBy
<1>3. state \in DialogStates
  BY DEF DialogTypes
<1>4. \A what, space, option : Call(what, space, option).what = what
  BY DEF Call
<1> DEFINE same == UNCHANGED <<state.open, state.confirming>>
<1>5. ASSUME NEW d, Top(d), d \notin {"cancel", "error"}, calls' = calls,
             state'.confirming = state.confirming,
             \/ state'.open = Without(d)
             \/ \E e \in Dialogs \ {"cancel"} : state'.open = Append(Without(d), e)
      PROVE  Locked'
  <2>1. NoCancel(state'.open)
    BY <1>1, <1>5, NoneToCancel, StillNoneToCancel
  <2> QED BY <1>2, <1>5, <2>1, Relocked
<1>6. ASSUME same, calls' = calls PROVE Locked'
  BY <1>1, <1>2, <1>6, Relocked
<1>7. ASSUME same, NEW c, c.what \notin Busy, calls' = calls \cup {c} PROVE Locked'
  BY <1>1, <1>2, <1>7, LockKept, Relocked
<1>8. ASSUME same, NEW c, c.what \notin Busy, calls' = calls \ {c} PROVE Locked'
  BY <1>1, <1>2, <1>8, LockKept, Relocked
<1>12. ASSUME NEW s \in Spaces, SelectSpace(s) PROVE Locked'
  <2>1. /\ state'.open \in {<<"confirm">>, <<"names">>} /\ calls' = calls
        /\ state'.confirming = state.confirming
    BY <1>3, <1>12 DEF SelectSpace, DialogStates
  <2>2. NoCancel(state'.open) BY <2>1 DEF NoCancel
  <2> QED BY <1>2, <2>1, <2>2, Relocked
<1>13. ASSUME NEW s \in Spaces, SpaceTaken(s) PROVE Locked'
  BY <1>6, <1>13 DEF SpaceTaken
<1>14. CASE HideConfirm
  <2>1. /\ state'.open = Without("confirm") /\ calls' = calls
        /\ state'.confirming = state.confirming /\ Top("confirm")
    BY <1>3, <1>14 DEF HideConfirm, DialogStates
  <2> QED BY <1>5, <2>1
<1>15. CASE ShowRecurring
  BY <1>3, <1>6, <1>15 DEF ShowRecurring, DialogStates
<1>16. ASSUME NEW o, ChooseOption(o) PROVE Locked'
  BY <1>3, <1>6, <1>16 DEF ChooseOption, DialogStates
<1>17. CASE ResetRecurrence
  BY <1>3, <1>6, <1>17 DEF ResetRecurrence, DialogStates
<1>18. CASE ApplyRecurrence
  <2>1. same BY <1>3, <1>18 DEF ApplyRecurrence, DialogStates
  <2> DEFINE c == Call("precheck", state.space, state.recurrence.option)
  <2>2. calls' = calls \cup {c} \/ calls' = calls
    BY <1>18 DEF ApplyRecurrence
  <2>3. c.what \notin Busy BY DEF Call, Busy
  <2> HIDE DEF c
  <2> QED BY <1>6, <1>7, <2>1, <2>2, <2>3
<1>19. CASE ConfirmBooking
  <2> DEFINE c == Call("save", state.space, state.recurrence.option)
  <2>1. /\ state'.open = state.open /\ state'.confirming = TRUE
        /\ ~state.confirming /\ calls' = calls \cup {c} /\ Top("confirm")
    BY <1>3, <1>19 DEF ConfirmBooking, DialogStates
  <2>2. c.what \in Busy BY DEF Call, Busy
  <2> HIDE DEF c
  <2>4. LockedBy(TRUE, calls \cup {c})
    BY <1>2, <2>1, <2>2 DEF LockedBy
  <2>5. NoCancel(state.open) BY <1>1, <2>1, NoneToCancel
  <2> QED BY <2>1, <2>4, <2>5, Relocked
<1>20. CASE HideNames
  <2>1. /\ state'.open = Without("names") /\ calls' = calls
        /\ state'.confirming = state.confirming /\ Top("names")
    BY <1>3, <1>20 DEF HideNames, DialogStates
  <2> QED BY <1>5, <2>1
<1>21. CASE TickSeries
  BY <1>3, <1>6, <1>21 DEF TickSeries, DialogStates
<1>22. CASE AskCancel
  <2> DEFINE w == Without("cancel")
  <2>1. /\ state'.open = Append(w, "cancel") /\ calls' = calls
        /\ state'.confirming = state.confirming /\ Top("names")
        /\ ~state.confirming
    BY <1>3, <1>22 DEF AskCancel, With, DialogStates
  <2>2. NoCancel(w)
    BY <1>1, <2>1, NoneToCancel, StillNoneToCancel
  <2>3. w \in Seq(Dialogs)
    BY <1>3, WithoutIs DEF DialogStates
  <2> HIDE DEF w
  <2>4. /\ DOMAIN state'.open = 1 .. Len(w) + 1 /\ Len(state'.open) = Len(w) + 1
        /\ \A i \in 1 .. Len(w) + 1 : i # Len(w) + 1 => state'.open[i] # "cancel"
    <3>1. "cancel" \in Dialogs BY DEF Dialogs
    <3>2. \A i \in 1 .. Len(w) + 1 : i # Len(w) + 1 => i \in DOMAIN w
      BY <2>3
    <3> QED BY <2>1, <2>2, <2>3, <3>1, <3>2, AppendIs DEF NoCancel
  <2>5. Len(w) \in Nat BY <2>3
  <2>6. OnlyErrorsOver(state'.open) BY <2>4, <2>5 DEF OnlyErrorsOver
  <2> QED BY <1>2, <2>1, <2>6 DEF Locked, LockedBy
<1>23. CASE DenyCancel
  <2>1. /\ state'.open = Without("cancel") /\ calls' = calls
        /\ state'.confirming = state.confirming /\ Top("cancel")
    BY <1>3, <1>23 DEF DenyCancel, DialogStates
  <2> QED BY <1>1, <1>2, <2>1, NotToCancel, Relocked
<1>24. CASE CancelBooking
  <2> DEFINE series == state.cancelSeries /\ state.holder = "series"
             c == Call(IF series THEN "series" ELSE "delete", state.space, 0)
  <2>1. /\ state'.open = Without("cancel") /\ state'.confirming = TRUE
        /\ calls' = calls \cup {c} /\ Top("cancel")
    BY <1>3, <1>24 DEF CancelBooking, DialogStates
  <2>2. c.what \in Busy BY DEF Call, Busy
  <2>3. ~state.confirming /\ NoCancel(Without("cancel"))
    BY <1>1, <2>1, NotToCancel
  <2> HIDE DEF c
  <2>5. LockedBy(TRUE, calls \cup {c})
    BY <1>2, <2>2, <2>3 DEF LockedBy
  <2> QED BY <2>1, <2>3, <2>5, Relocked
<1>25. CASE AddBuddy
  <2> DEFINE c == Call("buddy", state.space, 0)
  <2>1. /\ state'.open = Without("names") /\ calls' = calls \cup {c}
        /\ state'.confirming = state.confirming /\ Top("names")
    BY <1>3, <1>25 DEF AddBuddy, DialogStates
  <2>2. c.what \notin Busy BY DEF Call, Busy
  <2> HIDE DEF c
  <2>3. LockedBy(state.confirming, calls \cup {c}) BY <1>2, <2>2, LockKept
  <2>4. NoCancel(state'.open)
    BY <1>1, <2>1, NoneToCancel, StillNoneToCancel
  <2> QED BY <2>1, <2>3, <2>4, Relocked
<1>26. ASSUME NEW d \in {"confirm", "names"}, OpenCalendar(d) PROVE Locked'
  <2> DEFINE c == Call("calendar", state.space, 0)
  <2>1. /\ state'.open = Append(Without(d), "calendar") /\ calls' = calls \cup {c}
        /\ state'.confirming = state.confirming /\ Top(d)
    BY <1>3, <1>26 DEF OpenCalendar, DialogStates
  <2>2. c.what \notin Busy BY DEF Call, Busy
  <2> HIDE DEF c
  <2>3. LockedBy(state.confirming, calls \cup {c}) BY <1>2, <2>2, LockKept
  <2>4. NoCancel(state.open)
    BY <1>1, <2>1, NoneToCancel
  <2>5. "calendar" \in Dialogs \ {"cancel"} BY DEF Dialogs
  <2>6. NoCancel(state'.open)
    BY <2>1, <2>4, <2>5, StillNoneToCancel
  <2> QED BY <2>1, <2>3, <2>6, Relocked
<1>27. CASE NavigateCalendar
  <2> DEFINE c == Call("calendar", state.space, 0)
  <2>1. same /\ calls' = calls \cup {c}
    BY <1>3, <1>27 DEF NavigateCalendar, DialogStates
  <2>2. c.what \notin Busy BY DEF Call, Busy
  <2> HIDE DEF c
  <2> QED BY <1>7, <2>1, <2>2
<1>28. CASE CloseCalendar
  <2>1. /\ state'.open = Append(Without("calendar"), state.returnTo) /\ calls' = calls
        /\ state'.confirming = state.confirming /\ Top("calendar")
        /\ state.returnTo \in Dialogs \ {"cancel"}
    BY <1>3, <1>28 DEF CloseCalendar, DialogStates, Dialogs
  <2> QED BY <1>5, <2>1
<1>29. CASE CloseSuccess
  <2> DEFINE c == Call("refresh", NoSpace, 0)
  <2>1. /\ state'.open = Without("success") /\ calls' = calls \cup {c}
        /\ state'.confirming = state.confirming /\ Top("success")
    BY <1>3, <1>29 DEF CloseSuccess, DialogStates
  <2>2. c.what \notin Busy BY DEF Call, Busy
  <2> HIDE DEF c
  <2>3. LockedBy(state.confirming, calls \cup {c}) BY <1>2, <2>2, LockKept
  <2>4. NoCancel(state'.open)
    BY <1>1, <2>1, NoneToCancel, StillNoneToCancel
  <2> QED BY <2>1, <2>3, <2>4, Relocked
<1>30. CASE CloseError
  <2>1. PICK d \in {"error", "alert"} :
          /\ state'.open = Without(d) /\ calls' = calls
          /\ state'.confirming = state.confirming /\ Top(d)
    BY <1>3, <1>30 DEF CloseError, DialogStates
  <2>2. CASE d = "error"
    BY <1>1, <1>2, <2>1, <2>2, RelockedUnderError
  <2> QED BY <1>5, <2>1, <2>2
<1>31. CASE CallFails
  BY <1>31 DEF CallFails, Blocks
<1>32. CASE UNCHANGED webVars
  BY <1>6, <1>32 DEF webVars
<1>33. ASSUME NEW call \in calls, call.what \in Busy
       PROVE  /\ LockedBy(FALSE, calls \ {call}) /\ state.confirming
              /\ NoCancel(state.open)
  BY <1>1, <1>2, <1>33, LockKept, NoneToCancel DEF LockedBy
<1>34. "success" \in Dialogs \ {"cancel"} /\ "error" \in Dialogs \ {"cancel"}
       /\ "alert" \in Dialogs \ {"cancel"}
  BY DEF Dialogs
<1>41. ASSUME NEW call \in calls, Prechecked(call) PROVE Locked'
  <2>1. same /\ calls' = calls \ {call} /\ call.what \notin Busy
    BY <1>3, <1>41 DEF Prechecked, DialogStates, Busy
  <2> QED BY <1>8, <2>1
<1>42. ASSUME NEW call \in calls, Saved(call) PROVE Locked'
  <2>1. /\ state'.open = Append(Without("confirm"), "success")
        /\ calls' = calls \ {call} /\ call.what \in Busy
        /\ state'.confirming = FALSE
    BY <1>3, <1>42 DEF Saved, DialogStates, Busy
  <2>2. NoCancel(state'.open)
    BY <1>33, <1>34, <2>1, StillNoneToCancel
  <2> QED BY <1>33, <2>1, <2>2, Relocked
<1>43. ASSUME NEW call \in calls, SaveRefused(call) PROVE Locked'
  <2>1. /\ state'.open \in {Without("confirm"),
                             Append(Without("confirm"), "error")}
        /\ calls' = calls \ {call} /\ call.what \in Busy
        /\ state'.confirming = FALSE
    <3> DEFINE next == IF Open("error") THEN Without("confirm")
                       ELSE Append(Without("confirm"), "error")
    <3>1. /\ state' = [state EXCEPT !.confirming = FALSE, !.open = next]
          /\ calls' = calls \ {call} /\ call.what \in Busy
      BY <1>43 DEF SaveRefused, Busy
    <3>2. next \in {Without("confirm"), Append(Without("confirm"), "error")}
      OBVIOUS
    <3> HIDE DEF next
    <3> QED BY <1>3, <3>1, <3>2 DEF DialogStates
  <2>2. NoCancel(state'.open)
    BY <1>33, <1>34, <2>1, StillNoneToCancel
  <2> QED BY <1>33, <2>1, <2>2, Relocked
<1>44. ASSUME NEW call \in calls, SeriesRead(call) PROVE Locked'
  <2> DEFINE next == [call EXCEPT !.what = "delete", !.option = 1]
  <2>1. /\ calls' = (calls \ {call}) \cup {next} /\ state' = state
        /\ call.what \in Busy
    BY <1>44 DEF SeriesRead, Busy
  <2>2. next.what \in Busy
    BY DEF DialogTypes, CallRecords, Busy
  <2> HIDE DEF next
  <2>3. LockedBy(FALSE, calls \ {call}) /\ state.confirming
    BY <1>33, <2>1
  <2>4. next \notin calls \ {call}
    BY <2>2, <2>3 DEF LockedBy
  <2>5. LockedBy(TRUE, (calls \ {call}) \cup {next})
    BY <2>2, <2>3, <2>4, LockKept
  <2>6. LockedBy(state.confirming, (calls \ {call}) \cup {next})
    BY <2>3, <2>5 DEF LockedBy
  <2> QED BY <1>1, <2>1, <2>6, Relocked
<1>45. ASSUME NEW call \in calls, Cancelled(call) PROVE Locked'
  <2> DEFINE c == Call("refresh", NoSpace, 0)
  <2>1. /\ \/ state'.open = Without("names")
           \/ state'.open = Append(Without("names"), "alert")
        /\ calls' = (calls \ {call}) \cup {c} /\ call.what \in Busy
        /\ state'.confirming = FALSE
    BY <1>3, <1>45 DEF Cancelled, DialogStates, Busy
  <2>2. NoCancel(state'.open)
    BY <1>33, <1>34, <2>1, StillNoneToCancel
  <2>3. c.what \notin Busy BY DEF Call, Busy
  <2> HIDE DEF c
  <2>4. LockedBy(FALSE, (calls \ {call}) \cup {c})
    BY <1>33, <2>1, <2>3, LockKept
  <2> QED BY <2>1, <2>2, <2>4, Relocked
<1>46. ASSUME NEW call \in calls, BuddyAdded(call) PROVE Locked'
  <2>1. same /\ calls' = calls \ {call} /\ call.what \notin Busy
    BY <1>3, <1>46 DEF BuddyAdded, DialogStates, Busy
  <2> QED BY <1>8, <2>1
<1>47. ASSUME NEW call \in calls, CalendarLoaded(call) PROVE Locked'
  <2>1. same /\ calls' = calls \ {call} /\ call.what \notin Busy
    BY <1>3, <1>47 DEF CalendarLoaded, DialogStates, Busy
  <2> QED BY <1>8, <2>1
<1>49. ASSUME NEW call \in calls, BuddyRefused(call) PROVE Locked'
  <2>1. /\ state'.open = With("error")
        /\ UNCHANGED <<state.confirming>>
        /\ calls' = calls \ {call} /\ call.what \notin Busy
    BY <1>3, <1>49 DEF BuddyRefused, DialogStates, Busy
  <2>2. LockedBy(state.confirming, calls') BY <1>2, <2>1, LockKept
  <2> QED BY <1>1, <2>1, <2>2, RelockedUnderError
<1>50. ASSUME NEW call \in calls, CalendarFails(call) PROVE Locked'
  <2>1. same /\ calls' = calls \ {call} /\ call.what \notin Busy
    BY <1>3, <1>50 DEF CalendarFails, DialogStates, Busy
  <2> QED BY <1>8, <2>1
<1>48. ASSUME NEW call \in calls, Refreshed(call) PROVE Locked'
  <2>1. same /\ calls' = calls \ {call} /\ call.what \notin Busy
    BY <1>3, <1>48 DEF Refreshed, DialogStates, Busy
  <2> QED BY <1>8, <2>1
<1> QED
  BY <1>12, <1>13, <1>14, <1>15, <1>16, <1>17, <1>18, <1>19, <1>20, <1>21,
     <1>22, <1>23, <1>24, <1>25, <1>26, <1>27, <1>28, <1>29, <1>30, <1>31,
     <1>32, <1>41, <1>42, <1>43, <1>44, <1>45, <1>46, <1>47, <1>48,
     <1>49, <1>50
  DEF DialogNext, DialogAnswer

(* It implies that bookings are made one at a time.                        *)
LEMMA LockedIsEnough == DialogTypes /\ Locked => OneAtATime
<1> SUFFICES ASSUME Locked, ~blocked
             PROVE  LET busy == {call \in calls : call.what \in Busy} IN
                    /\ state.confirming <=> busy # {}
                    /\ Cardinality(busy) <= 1
  BY DEF OneAtATime
<1> DEFINE busy == {call \in calls : call.what \in Busy}
<1>1. state.confirming <=> busy # {}
  BY DEF Locked
<1>2. Cardinality(busy) <= 1
  <2>1. CASE busy = {} BY <2>1, FS_EmptySet
  <2>2. CASE busy # {}
    <3>1. PICK c \in busy : busy = {c} BY <2>2 DEF Locked
    <3>2. Cardinality({c}) = 1 BY FS_Singleton
    <3> QED BY <3>1, <3>2
  <2> QED BY <2>1, <2>2
<1> QED BY <1>1, <1>2

(* At first nothing is open and nothing is under way.                      *)
LEMMA InStepBegins == DialogInit => InStep
<1> SUFFICES ASSUME DialogInit PROVE InStep OBVIOUS
<1>1. /\ calls = {} /\ state.open = <<>> /\ state.recurrence = NoRecurrence
  BY DEF DialogInit
<1>2. Len(state.open) = 0 /\ ~state.recurrence.checked /\ state.recurrence.option = 0
  BY <1>1 DEF NoRecurrence
<1> QED BY <1>1, <1>2 DEF InStep, FewOpen, Shown, Alone, Ahead

(* What opening and closing make of the few that are open.                 *)
LEMMA OpenIs ==
    ASSUME DialogTypes, FewOpen
    PROVE  /\ \A d : Top(d) /\ d # "cancel" => Alone(d)
           /\ Top("cancel") => /\ Len(Without("cancel")) = 1
                               /\ Without("cancel")[1] = "names"
           /\ \A d : Alone(d) => Len(Without(d)) = 0
           /\ \A d, e : Alone(d) => /\ Len(Append(Without(d), e)) = 1
                                    /\ Append(Without(d), e)[1] = e
           /\ Alone("names") => /\ Len(With("cancel")) = 2
                                /\ With("cancel")[1] = "names"
                                /\ With("cancel")[2] = "cancel"
<1>1. state.open \in Seq(Dialogs)
  BY DEF DialogTypes, DialogStates
<1>0. /\ Len(state.open) \in Nat /\ DOMAIN state.open = 1 .. Len(state.open)
      /\ state.open # <<>> => Len(state.open) # 0
  BY <1>1
<1>2. \A d : Top(d) /\ d # "cancel" => Alone(d)
  <2> SUFFICES ASSUME NEW d, Top(d), d # "cancel" PROVE Alone(d)
    OBVIOUS
  <2>1. Len(state.open) # 0 /\ state.open[Len(state.open)] = d
    BY <1>0 DEF Top
  <2>2. CASE Len(state.open) <= 1
    <3>1. \A n \in Nat : n # 0 /\ n <= 1 => n = 1
      OBVIOUS
    <3>2. Len(state.open) \in Nat BY <1>0
    <3>3. Len(state.open) = 1 BY <2>1, <2>2, <3>1, <3>2
    <3> QED BY <2>1, <3>3 DEF Alone
  <2>3. CASE Len(state.open) = 2 /\ state.open[2] = "cancel"
    BY <2>1, <2>3
  <2> QED BY <2>2, <2>3 DEF FewOpen
<1>3. Top("cancel") => /\ Len(Without("cancel")) = 1
                       /\ Without("cancel")[1] = "names"
  <2> SUFFICES ASSUME Top("cancel")
               PROVE  Len(Without("cancel")) = 1 /\ Without("cancel")[1] = "names"
    OBVIOUS
  <2>1. /\ Len(state.open) = 2 /\ state.open[1] = "names"
        /\ state.open[2] = "cancel" /\ DOMAIN state.open = 1 .. 2
    <3>1. Len(state.open) # 0 /\ state.open[Len(state.open)] = "cancel"
      BY <1>0 DEF Top
    <3>2. CASE Len(state.open) <= 1 /\ ~Alone("cancel")
      <4>1. \A n \in Nat : n # 0 /\ n <= 1 => n = 1
        OBVIOUS
      <4>2. Len(state.open) \in Nat BY <1>0
      <4>3. Len(state.open) = 1 BY <3>1, <3>2, <4>1, <4>2
      <4> QED BY <3>1, <3>2, <4>3 DEF Alone
    <3> QED BY <1>0, <3>2 DEF FewOpen
  <2> DEFINE i == CHOOSE i \in DOMAIN state.open : state.open[i] = "cancel"
  <2>2. i \in DOMAIN state.open /\ state.open[i] = "cancel"
    BY <2>1
  <2>3. Without("cancel") = RemovedAt(state.open, i)
    BY <2>2 DEF Without, Open
  <2> HIDE DEF i
  <2>4. i = 2 BY <2>1, <2>2
  <2>5. /\ Without("cancel") = RemovedAt(state.open, 2) /\ 2 \in DOMAIN state.open
        /\ 1 \in 1 .. Len(state.open) - 1
    BY <2>1, <2>3, <2>4
  <2>6. /\ Len(RemovedAt(state.open, 2)) = Len(state.open) - 1
        /\ \A j \in 1 .. Len(state.open) - 1 : RemovedAt(state.open, 2)[j]
              = IF j < 2 THEN state.open[j] ELSE state.open[j + 1]
    BY <1>1, <2>5, RemovedIsSeq
  <2> QED BY <2>1, <2>5, <2>6
<1>4. ASSUME NEW d, Alone(d)
      PROVE  Without(d) \in Seq(Dialogs) /\ Len(Without(d)) = 0
  <2>1. DOMAIN state.open = 1 .. 1 /\ state.open[1] = d
    BY <1>1, <1>4 DEF Alone
  <2> DEFINE i == CHOOSE i \in DOMAIN state.open : state.open[i] = d
  <2>2. i \in DOMAIN state.open /\ state.open[i] = d
    BY <2>1
  <2>3. Without(d) = RemovedAt(state.open, i)
    BY <2>2 DEF Without, Open
  <2> HIDE DEF i
  <2> QED BY <1>1, <1>4, <2>2, <2>3, RemovedIsSeq DEF Alone
<1>5. \A d, e : Alone(d) => /\ Len(Append(Without(d), e)) = 1
                            /\ Append(Without(d), e)[1] = e
  <2>1. ASSUME NEW s \in Seq(Dialogs), Len(s) = 0, NEW e
        PROVE  Len(Append(s, e)) = 1 /\ Append(s, e)[1] = e
    BY <2>1
  <2> QED BY <1>4, <2>1
<1>6. Alone("names") => /\ Len(With("cancel")) = 2
                        /\ With("cancel")[1] = "names"
                        /\ With("cancel")[2] = "cancel"
  <2> SUFFICES ASSUME Alone("names")
               PROVE  /\ Len(With("cancel")) = 2
                      /\ With("cancel")[1] = "names"
                      /\ With("cancel")[2] = "cancel"
    OBVIOUS
  <2>1. DOMAIN state.open = 1 .. 1 /\ state.open[1] = "names" /\ Len(state.open) = 1
    BY <1>1 DEF Alone
  <2>2. ~Open("cancel") BY <2>1 DEF Open
  <2>3. With("cancel") = Append(state.open, "cancel") BY <2>2 DEF With, Without
  <2>4. "cancel" \in Dialogs /\ 1 \in DOMAIN state.open BY <2>1 DEF Dialogs
  <2>5. /\ Len(Append(state.open, "cancel")) = 2
        /\ Append(state.open, "cancel")[1] = state.open[1]
        /\ Append(state.open, "cancel")[2] = "cancel"
    BY <1>1, <2>1, <2>4, AppendIs
  <2> QED BY <2>1, <2>3, <2>5
<1> QED BY <1>2, <1>3, <1>4, <1>5, <1>6

(* To be in step after a step: at most one call, matching what is open.    *)
LEMMA GoesInStep ==
    ASSUME \/ calls' = {}
           \/ \E c : calls' = {c} /\ Matches(c)',
           FewOpen', Shown'
    PROVE  InStep'
BY DEF InStep

(* Of a user who waits.                                                    *)
OnePatient == DialogTypes /\ InStep /\ state.waits /\ ~blocked

(* What a step finds: the only call there is, and for a step of the user   *)
(* none and no spinner.                                                    *)
LEMMA WaitingFor ==
    ASSUME OnePatient
    PROVE  /\ \A c, d \in calls : c = d
           /\ \A call \in calls : calls = {call} /\ Matches(call)
           /\ FewOpen /\ Shown /\ state \in DialogStates
           /\ DialogUser => /\ calls = {} /\ ~state.loading /\ ~state.confirming
                            /\ ~state.calendarLoading /\ ~state.recurrence.loading
<1>1. /\ \A c, d \in calls : c = d
      /\ \A call \in calls : Matches(call)
      /\ FewOpen /\ Shown /\ state \in DialogStates /\ calls \subseteq CallRecords
  BY DEF OnePatient, InStep, DialogTypes
<1>2. ASSUME DialogUser, NEW call \in calls PROVE FALSE
  <2>1. call.what \in {"none", "precheck", "save", "series", "delete", "buddy",
             "calendar", "refresh"}
    BY <1>1 DEF CallRecords
  <2>2. Matches(call) /\ ~Spinning
    BY <1>1, <1>2 DEF DialogUser, OnePatient
  <2> QED BY <2>1, <2>2 DEF Matches, Spinning
<1> QED BY <1>1, <1>2 DEF DialogUser, OnePatient, Spinning

(* Every step keeps it.                                                    *)
LEMMA InStepStays == DialogTypes /\ InStep /\ [DialogNext]_webVars => InStep'
<1> SUFFICES ASSUME DialogTypes, InStep, [DialogNext]_webVars,
                    state'.waits, ~blocked'
             PROVE  InStep'
  BY DEF InStep
<1>0. state \in DialogStates
  BY DEF DialogTypes
<1>1. OnePatient
  <2>1. ~blocked
    BY DEF DialogNext, SelectSpace, SpaceTaken, HideConfirm, ShowRecurring,
     ResetRecurrence, ApplyRecurrence, ChooseOption, ConfirmBooking, HideNames,
     TickSeries, AskCancel, DenyCancel, CancelBooking, AddBuddy, OpenCalendar,
     NavigateCalendar, CloseCalendar, CloseSuccess, CloseError, DialogAnswer,
     Prechecked, Saved, SaveRefused, SeriesRead, Cancelled, BuddyAdded,
     BuddyRefused, CalendarLoaded, CalendarFails, Refreshed, DialogTakes, CallFails, DialogUser, Click, Goes,
     Blocks, webVars
  <2>2. state.waits
    <3>1. CASE DialogAnswer
      BY <1>0, <3>1, ZenonT(40) DEF DialogStates, DialogAnswer, Prechecked,
         Saved,
         SaveRefused, SeriesRead, Cancelled, BuddyAdded, BuddyRefused,
         CalendarLoaded, CalendarFails,
         Refreshed
    <3>2. CASE ~DialogAnswer
      BY <1>0, <3>2 DEF DialogStates, DialogNext, SelectSpace, SpaceTaken,
       HideConfirm, ShowRecurring, ResetRecurrence, ApplyRecurrence,
       ChooseOption, ConfirmBooking, HideNames, TickSeries, AskCancel,
       DenyCancel, CancelBooking, AddBuddy, OpenCalendar, NavigateCalendar,
       CloseCalendar, CloseSuccess, CloseError, CallFails, Blocks, webVars
    <3> QED BY <3>1, <3>2
  <2> QED BY <2>1, <2>2 DEF OnePatient
<1>2. /\ \A call \in calls : calls = {call} /\ Matches(call)
      /\ FewOpen /\ Shown
      /\ DialogUser => /\ calls = {} /\ ~state.loading /\ ~state.confirming
                       /\ ~state.calendarLoading /\ ~state.recurrence.loading
  BY <1>1, WaitingFor
<1>3. /\ \A d : Top(d) /\ d # "cancel" => Alone(d)
      /\ Top("cancel") => /\ Len(Without("cancel")) = 1
                          /\ Without("cancel")[1] = "names"
      /\ \A d : Alone(d) => Len(Without(d)) = 0
      /\ \A d, e : Alone(d) => /\ Len(Append(Without(d), e)) = 1
                               /\ Append(Without(d), e)[1] = e
      /\ Alone("names") => /\ Len(With("cancel")) = 2
                           /\ With("cancel")[1] = "names"
                           /\ With("cancel")[2] = "cancel"
  BY <1>2, OpenIs
<1>4. /\ state.recurrence \in Recurrences /\ state.open \in Seq(Dialogs)
      /\ state.returnTo \in {"confirm", "names"}
  BY <1>0 DEF DialogStates
<1>11. ASSUME NEW s \in Spaces, SelectSpace(s) PROVE InStep'
  <2>1. /\ calls' = {} /\ Len(state'.open) = 1
        /\ \/ state'.open[1] = "confirm" /\ state'.recurrence.option = 0
              /\ ~state'.recurrence.checked
           \/ state'.open[1] = "names"
              /\ UNCHANGED <<state.recurrence>>
    BY <1>0, <1>2, <1>11 DEF SelectSpace, DialogStates, NoRecurrence
  <2>2. FewOpen' /\ Shown'
    BY <1>2, <2>1 DEF FewOpen, Shown, Alone, Ahead
  <2> QED BY <2>1, <2>2, GoesInStep
<1>12. ASSUME NEW s \in Spaces, SpaceTaken(s) PROVE InStep'
  <2>1. UNCHANGED <<state, calls, blocked>>
    BY <1>12 DEF SpaceTaken
  <2> QED BY <1>1, <2>1
    DEF OnePatient, InStep, FewOpen, Shown, Alone, Ahead, Matches
<1>13. CASE UNCHANGED webVars
  BY <1>1, <1>13
  DEF OnePatient, InStep, FewOpen, Shown, Alone, Ahead, Matches, webVars
<1>14. CASE HideConfirm
  <2>1. /\ calls' = {}
        /\ Len(state'.open) = 0 /\ UNCHANGED <<state.recurrence>>
    BY <1>0, <1>2, <1>3, <1>4, <1>14
    DEF HideConfirm, DialogStates, Recurrences
  <2>2. FewOpen' /\ Shown'
    BY <1>2, <1>3, <2>1 DEF FewOpen, Shown, Alone, Ahead
  <2> QED BY <2>1, <2>2, GoesInStep
<1>15. CASE ShowRecurring
  <2>1. /\ calls' = {}
        /\ Alone("confirm") /\ state'.recurring
        /\ UNCHANGED <<state.open, state.recurrence>>
    BY <1>0, <1>2, <1>3, <1>4, <1>15
    DEF ShowRecurring, DialogStates, Recurrences
  <2>2. FewOpen' /\ Shown'
    BY <1>2, <1>3, <2>1 DEF FewOpen, Shown, Alone, Ahead
  <2> QED BY <2>1, <2>2, GoesInStep
<1>16. ASSUME NEW o, ChooseOption(o) PROVE InStep'
  <2>1. /\ calls' = {}
        /\ Alone("confirm") /\ state'.recurring
        /\ UNCHANGED <<state.open>> /\ ~state'.recurrence.checked
    BY <1>0, <1>2, <1>3, <1>4, <1>16
    DEF ChooseOption, DialogStates, Recurrences
  <2>2. FewOpen' /\ Shown'
    BY <1>2, <1>3, <2>1 DEF FewOpen, Shown, Alone, Ahead
  <2> QED BY <2>1, <2>2, GoesInStep
<1>17. CASE ResetRecurrence
  <2>1. /\ calls' = {}
        /\ Alone("confirm") /\ UNCHANGED <<state.open>>
        /\ ~state'.recurrence.checked /\ state'.recurrence.option = 0
    BY <1>0, <1>2, <1>3, <1>4, <1>17
    DEF ResetRecurrence, NoRecurrence, DialogStates, Recurrences
  <2>2. FewOpen' /\ Shown'
    BY <1>2, <1>3, <2>1 DEF FewOpen, Shown, Alone, Ahead
  <2> QED BY <2>1, <2>2, GoesInStep
<1>18. CASE ApplyRecurrence
  <2> DEFINE required == state.recurrence.option # 0 /\ ~state.recurrence.checked
             c == Call("precheck", state.space, state.recurrence.option)
             r == [state.recurrence EXCEPT !.loading = required,
                      !.checked = FALSE, !.errors = FALSE]
  <2>1. /\ Alone("confirm") /\ calls' = IF required THEN {c} ELSE {}
        /\ state' = [state EXCEPT !.recurrence = r, !.recurring = required]
    BY <1>2, <1>3, <1>18 DEF ApplyRecurrence
  <2>2. /\ r.loading = required /\ ~r.checked
        /\ r.option = state.recurrence.option
        /\ r.final = state.recurrence.final
    BY <1>4 DEF Recurrences
  <2>3. c.what = "precheck" /\ c.option = state.recurrence.option
    BY DEF Call
  <2> HIDE DEF c, r
  <2>4. /\ state'.open = state.open /\ state'.recurrence = r
        /\ state'.recurring = required
    BY <1>0, <2>1 DEF DialogStates
  <2>5. FewOpen' /\ Shown'
    BY <1>2, <2>1, <2>2, <2>4 DEF FewOpen, Shown, Alone, Ahead
  <2>6. \A x : /\ x.what = "precheck" /\ x.option = state'.recurrence.option
               /\ state'.recurrence.loading /\ Alone("confirm")'
               => Matches(x)'
    BY DEF Matches
  <2>7. Alone("confirm")' BY <2>1, <2>4 DEF Alone
  <2>8. \/ calls' = {} \/ \E x : calls' = {x} /\ Matches(x)'
    BY <2>1, <2>2, <2>3, <2>4, <2>6, <2>7
  <2> QED BY <2>5, <2>8, GoesInStep
<1>19. CASE ConfirmBooking
  <2> DEFINE c == Call("save", state.space, state.recurrence.option)
  <2>1. /\ calls' = {c}
        /\ Alone("confirm") /\ state'.confirming
        /\ UNCHANGED <<state.open, state.recurrence, state.space,
                       state.recurring, state.returnTo>>
    BY <1>0, <1>2, <1>3, <1>4, <1>19 DEF ConfirmBooking, DialogStates
  <2>2. c.what = "save" /\ c.space = state.space /\ c.option = state.recurrence.option
    BY DEF Call
  <2> HIDE DEF c
  <2>3. FewOpen' /\ Shown'
    BY <1>2, <1>3, <2>1 DEF FewOpen, Shown, Alone, Ahead
  <2>4. \A x : /\ x.what = "save" /\ x.space = state'.space
               /\ x.option = state'.recurrence.option
               /\ state'.confirming /\ Alone("confirm")'
               => Matches(x)'
    BY DEF Matches
  <2>5. \E x : calls' = {x} /\ Matches(x)'
    BY <2>1, <2>2, <2>4 DEF Alone
  <2> QED BY <2>3, <2>5, GoesInStep
<1>20. CASE HideNames
  <2>1. /\ calls' = {}
        /\ Len(state'.open) = 0 /\ UNCHANGED <<state.recurrence>>
    BY <1>0, <1>2, <1>3, <1>4, <1>20
    DEF HideNames, DialogStates, Recurrences
  <2>2. FewOpen' /\ Shown'
    BY <1>2, <1>3, <2>1 DEF FewOpen, Shown, Alone, Ahead
  <2> QED BY <2>1, <2>2, GoesInStep
<1>21. CASE TickSeries
  <2>1. /\ calls' = {}
        /\ Alone("names") /\ UNCHANGED <<state.open, state.recurrence>>
    BY <1>0, <1>2, <1>3, <1>4, <1>21
    DEF TickSeries, DialogStates, Recurrences
  <2>2. FewOpen' /\ Shown'
    BY <1>2, <1>3, <2>1 DEF FewOpen, Shown, Alone, Ahead
  <2> QED BY <2>1, <2>2, GoesInStep
<1>22. CASE AskCancel
  <2>1. /\ calls' = {}
        /\ Len(state'.open) = 2 /\ state'.open[1] = "names"
        /\ state'.open[2] = "cancel"
        /\ UNCHANGED <<state.recurrence>>
    BY <1>0, <1>2, <1>3, <1>4, <1>22
    DEF AskCancel, DialogStates, Recurrences
  <2>2. FewOpen' /\ Shown'
    BY <1>2, <1>3, <2>1 DEF FewOpen, Shown, Alone, Ahead
  <2> QED BY <2>1, <2>2, GoesInStep
<1>23. CASE DenyCancel
  <2>1. /\ calls' = {}
        /\ Len(state'.open) = 1 /\ state'.open[1] = "names"
        /\ UNCHANGED <<state.recurrence>>
    BY <1>0, <1>2, <1>3, <1>4, <1>23
    DEF DenyCancel, DialogStates, Recurrences
  <2>2. FewOpen' /\ Shown'
    BY <1>2, <1>3, <2>1 DEF FewOpen, Shown, Alone, Ahead
  <2> QED BY <2>1, <2>2, GoesInStep
<1>24. CASE CancelBooking
  <2> DEFINE series == state.cancelSeries /\ state.holder = "series"
             c == Call(IF series THEN "series" ELSE "delete", state.space, 0)
  <2>1. /\ calls' = {c} /\ state'.confirming
        /\ Len(state'.open) = 1 /\ state'.open[1] = "names"
        /\ UNCHANGED <<state.recurrence>>
    BY <1>0, <1>2, <1>3, <1>24 DEF CancelBooking, DialogStates
  <2>2. c.what \in {"series", "delete"}
    BY DEF Call
  <2> HIDE DEF c
  <2>3. FewOpen' /\ Shown'
    BY <1>2, <2>1 DEF FewOpen, Shown, Alone, Ahead
  <2>4. \A x : /\ x.what \in {"series", "delete"}
               /\ state'.confirming /\ Alone("names")'
               => Matches(x)'
    BY DEF Matches
  <2>5. \E x : calls' = {x} /\ Matches(x)'
    BY <2>1, <2>2, <2>4 DEF Alone
  <2> QED BY <2>3, <2>5, GoesInStep
<1>25. CASE AddBuddy
  <2> DEFINE c == Call("buddy", state.space, 0)
  <2>1. /\ calls' = {c}
        /\ Len(state'.open) = 0 /\ state'.loading
        /\ UNCHANGED <<state.recurrence>>
    BY <1>0, <1>2, <1>3, <1>4, <1>25 DEF AddBuddy, DialogStates
  <2>2. c.what = "buddy"
    BY DEF Call
  <2> HIDE DEF c
  <2>3. FewOpen' /\ Shown'
    BY <1>2, <1>3, <2>1 DEF FewOpen, Shown, Alone, Ahead
  <2>4. \A x : /\ x.what = "buddy" /\ state'.loading /\ Len(state'.open) = 0
               => Matches(x)'
    BY DEF Matches
  <2>5. \E x : calls' = {x} /\ Matches(x)'
    BY <2>1, <2>2, <2>4 DEF Alone
  <2> QED BY <2>3, <2>5, GoesInStep
<1>26. ASSUME NEW d \in {"confirm", "names"}, OpenCalendar(d) PROVE InStep'
  <2> DEFINE c == Call("calendar", state.space, 0)
  <2>1. /\ calls' = {c}
        /\ Len(state'.open) = 1 /\ state'.open[1] = "calendar"
        /\ state'.calendarLoading /\ Alone(d) /\ state'.returnTo = d
        /\ UNCHANGED <<state.recurrence, state.space, state.recurring>>
    BY <1>0, <1>2, <1>3, <1>4, <1>26 DEF OpenCalendar, DialogStates
  <2>2. c.what = "calendar" /\ c.space = state.space
    BY DEF Call
  <2> HIDE DEF c
  <2>3. FewOpen' /\ Shown'
    BY <1>2, <1>3, <2>1 DEF FewOpen, Shown, Alone, Ahead
  <2>4. \A x : /\ x.what = "calendar" /\ x.space = state'.space
               /\ state'.calendarLoading /\ Alone("calendar")'
               => Matches(x)'
    BY DEF Matches
  <2>5. \E x : calls' = {x} /\ Matches(x)'
    BY <2>1, <2>2, <2>4 DEF Alone
  <2> QED BY <2>3, <2>5, GoesInStep
<1>27. CASE NavigateCalendar
  <2> DEFINE c == Call("calendar", state.space, 0)
  <2>1. /\ calls' = {c}
        /\ Alone("calendar") /\ state'.calendarLoading
        /\ UNCHANGED <<state.open, state.recurrence, state.space,
                       state.recurring, state.returnTo>>
    BY <1>0, <1>2, <1>3, <1>4, <1>27 DEF NavigateCalendar, DialogStates
  <2>2. c.what = "calendar" /\ c.space = state.space
    BY DEF Call
  <2> HIDE DEF c
  <2>3. FewOpen' /\ Shown'
    BY <1>2, <1>3, <2>1 DEF FewOpen, Shown, Alone, Ahead
  <2>4. \A x : /\ x.what = "calendar" /\ x.space = state'.space
               /\ state'.calendarLoading /\ Alone("calendar")'
               => Matches(x)'
    BY DEF Matches
  <2>5. \E x : calls' = {x} /\ Matches(x)'
    BY <2>1, <2>2, <2>4 DEF Alone
  <2> QED BY <2>3, <2>5, GoesInStep
<1>28. CASE CloseCalendar
  <2>1. /\ calls' = {}
        /\ Alone("calendar")
        /\ Len(state'.open) = 1 /\ state'.open[1] = state.returnTo
        /\ state.returnTo \in {"confirm", "names"}
        /\ UNCHANGED <<state.recurrence, state.recurring>>
    BY <1>0, <1>2, <1>3, <1>4, <1>28
    DEF CloseCalendar, DialogStates, Recurrences
  <2>2. FewOpen' /\ Shown'
    BY <1>2, <1>3, <2>1 DEF FewOpen, Shown, Alone, Ahead
  <2> QED BY <2>1, <2>2, GoesInStep
<1>29. CASE CloseSuccess
  <2> DEFINE c == Call("refresh", NoSpace, 0)
  <2>1. /\ calls' = {c}
        /\ Len(state'.open) = 0 /\ state'.loading
        /\ UNCHANGED <<state.recurrence>>
    BY <1>0, <1>2, <1>3, <1>4, <1>29 DEF CloseSuccess, DialogStates
  <2>2. c.what = "refresh"
    BY DEF Call
  <2> HIDE DEF c
  <2>3. FewOpen' /\ Shown'
    BY <1>2, <1>3, <2>1 DEF FewOpen, Shown, Alone, Ahead
  <2>4. \A x : /\ x.what = "refresh" /\ state'.loading /\ Len(state'.open) = 0
               => Matches(x)'
    BY DEF Matches
  <2>5. \E x : calls' = {x} /\ Matches(x)'
    BY <2>1, <2>2, <2>4 DEF Alone
  <2> QED BY <2>3, <2>5, GoesInStep
<1>30. CASE CloseError
  <2>1. /\ calls' = {}
        /\ Len(state'.open) = 0 /\ UNCHANGED <<state.recurrence>>
    BY <1>0, <1>2, <1>3, <1>4, <1>30
    DEF CloseError, DialogStates, Recurrences
  <2>2. FewOpen' /\ Shown'
    BY <1>2, <1>3, <2>1 DEF FewOpen, Shown, Alone, Ahead
  <2> QED BY <2>1, <2>2, GoesInStep
<1>31. CASE CallFails
  BY <1>31 DEF CallFails, Blocks
<1>32. ASSUME NEW call \in calls, Prechecked(call) PROVE InStep'
  <2> DEFINE errors == Fits[call.option] < 2
             r == [state.recurrence EXCEPT !.loading = FALSE,
                       !.final = Fits[call.option], !.checked = TRUE,
                       !.errors = errors]
  <2>1. /\ calls' = {} /\ Alone("confirm") /\ call.option = state.recurrence.option
        /\ state' = [state EXCEPT !.recurring = errors, !.recurrence = r]
    BY <1>2, <1>32 DEF Prechecked, Matches
  <2>2. r.option = state.recurrence.option /\ r.final = Fits[call.option]
    BY <1>4 DEF Recurrences
  <2> HIDE DEF r, errors
  <2>3. state'.open = state.open /\ state'.recurrence = r
    BY <1>0, <2>1 DEF DialogStates
  <2>4. FewOpen' /\ Shown'
    BY <1>2, <2>1, <2>2, <2>3 DEF FewOpen, Shown, Alone, Ahead
  <2> QED BY <2>1, <2>4, GoesInStep
<1>33. ASSUME NEW call \in calls, Saved(call) PROVE InStep'
  <2>1. /\ calls' = {}
        /\ Len(state'.open) = 1 /\ state'.open[1] = "success"
        /\ state'.created = call /\ call.space = state.space
        /\ call.option = state.recurrence.option
        /\ UNCHANGED <<state.recurrence, state.space>>
    BY <1>0, <1>2, <1>3, <1>4, <1>33
    DEF Saved, DialogStates, Recurrences, Matches
  <2>2. FewOpen' /\ Shown'
    BY <1>2, <1>3, <2>1 DEF FewOpen, Shown, Alone, Ahead
  <2> QED BY <2>1, <2>2, GoesInStep
<1>34. ASSUME NEW call \in calls, SaveRefused(call) PROVE InStep'
  <2>1. /\ calls' = {}
        /\ Len(state'.open) = 1 /\ state'.open[1] = "error"
        /\ UNCHANGED <<state.recurrence>>
    <3> DEFINE open == Append(Without("confirm"), "error")
    <3>1. Alone("confirm") /\ calls = {call}
      BY <1>2, <1>34 DEF SaveRefused, Matches
    <3>2. ~Open("error") BY <1>4, <3>1 DEF Open, Alone
    <3>3. /\ state' = [state EXCEPT !.confirming = FALSE, !.open = open]
          /\ calls' = {}
      BY <1>34, <3>1, <3>2 DEF SaveRefused
    <3>4. Len(open) = 1 /\ open[1] = "error" BY <1>3, <3>1
    <3> HIDE DEF open
    <3> QED BY <1>0, <3>3, <3>4 DEF DialogStates
  <2>2. FewOpen' /\ Shown'
    BY <1>2, <1>3, <2>1 DEF FewOpen, Shown, Alone, Ahead
  <2> QED BY <2>1, <2>2, GoesInStep
<1>35. ASSUME NEW call \in calls, SeriesRead(call) PROVE InStep'
  <2> DEFINE c == [call EXCEPT !.what = "delete", !.option = 1]
  <2>1. /\ calls' = {c} /\ state' = state /\ state.confirming /\ Alone("names")
    BY <1>2, <1>35 DEF SeriesRead, Matches
  <2>2. c.what = "delete"
    BY DEF DialogTypes, CallRecords
  <2> HIDE DEF c
  <2>3. FewOpen' /\ Shown'
    BY <1>2, <2>1 DEF FewOpen, Shown, Alone, Ahead
  <2>4. \A x : /\ x.what \in {"series", "delete"}
               /\ state'.confirming /\ Alone("names")'
               => Matches(x)'
    BY DEF Matches
  <2>5. \E x : calls' = {x} /\ Matches(x)'
    BY <2>1, <2>2, <2>4 DEF Alone
  <2> QED BY <2>3, <2>5, GoesInStep
<1>36. ASSUME NEW call \in calls, Cancelled(call) PROVE InStep'
  <2> DEFINE c == Call("refresh", NoSpace, 0)
             to(open) == [state EXCEPT !.space = NoSpace, !.holder = "nobody",
                             !.confirming = FALSE, !.loading = TRUE, !.open = open]
  <2>0. /\ calls' = {c} /\ Alone("names")
        /\ \/ state' = to(Without("names"))
           \/ state' = to(Append(Without("names"), "alert"))
    BY <1>2, <1>36 DEF Cancelled, Matches
  <2>5. \A open : /\ to(open).loading /\ to(open).open = open
                  /\ to(open).recurrence = state.recurrence
    BY <1>0 DEF DialogStates
  <2>2. c.what = "refresh"
    BY DEF Call
  <2> HIDE DEF c, to
  <2>1. /\ state'.loading /\ UNCHANGED <<state.recurrence>>
        /\ \/ Len(state'.open) = 0
           \/ Len(state'.open) = 1 /\ state'.open[1] = "alert"
    <3>1. /\ Len(Without("names")) = 0
          /\ Len(Append(Without("names"), "alert")) = 1
          /\ Append(Without("names"), "alert")[1] = "alert"
      BY <1>3, <2>0
    <3>2. state'.loading /\ state'.recurrence = state.recurrence
      BY <2>0, <2>5
    <3>3. \/ state'.open = Without("names")
          \/ state'.open = Append(Without("names"), "alert")
      BY <2>0, <2>5
    <3> QED BY <3>1, <3>2, <3>3
  <2>3. FewOpen' /\ Shown'
    BY <1>2, <1>3, <2>1 DEF FewOpen, Shown, Alone, Ahead
  <2>4. \A x : /\ x.what = "refresh" /\ state'.loading
               /\ Len(state'.open) = 0 \/ Alone("alert")'
               => Matches(x)'
    BY DEF Matches
  <2>6. \E x : calls' = {x} /\ Matches(x)'
    BY <2>0, <2>1, <2>2, <2>4 DEF Alone
  <2> QED BY <2>3, <2>6, GoesInStep
<1>37. ASSUME NEW call \in calls, BuddyAdded(call) PROVE InStep'
  <2>1. /\ calls' = {}
        /\ Len(state'.open) = 0
        /\ UNCHANGED <<state.recurrence>>
    BY <1>0, <1>2, <1>3, <1>4, <1>37
    DEF BuddyAdded, DialogStates, Recurrences, Matches
  <2>2. FewOpen' /\ Shown'
    BY <1>2, <1>3, <2>1 DEF FewOpen, Shown, Alone, Ahead
  <2> QED BY <2>1, <2>2, GoesInStep
<1>38. ASSUME NEW call \in calls, CalendarLoaded(call) PROVE InStep'
  <2>1. /\ calls' = {}
        /\ Alone("calendar") /\ state'.calendar = state.space
        /\ UNCHANGED <<state.open, state.recurrence, state.space,
                       state.recurring, state.returnTo>>
    BY <1>0, <1>2, <1>3, <1>4, <1>38
    DEF CalendarLoaded, DialogStates, Recurrences, Matches
  <2>2. FewOpen' /\ Shown'
    BY <1>2, <1>3, <2>1 DEF FewOpen, Shown, Alone, Ahead
  <2> QED BY <2>1, <2>2, GoesInStep
<1>40. ASSUME NEW call \in calls, BuddyRefused(call) PROVE InStep'
  <2>1. /\ calls' = {} /\ Len(state.open) = 0
        /\ state'.open = With("error")
        /\ UNCHANGED <<state.recurrence>>
    BY <1>0, <1>2, <1>40 DEF BuddyRefused, DialogStates, Matches
  <2>2. ~Open("error") BY <1>4, <2>1 DEF Open
  <2>3. Len(state'.open) = 1 /\ state'.open[1] = "error"
    BY <1>4, <2>1, <2>2 DEF With, Without
  <2>4. FewOpen' /\ Shown'
    BY <1>2, <1>3, <2>1, <2>3 DEF FewOpen, Shown, Alone, Ahead
  <2> QED BY <2>1, <2>4, GoesInStep
<1>41. ASSUME NEW call \in calls, CalendarFails(call) PROVE InStep'
  <2>1. /\ calls' = {} /\ Alone("calendar") /\ state'.outdated
        /\ UNCHANGED <<state.open, state.recurrence, state.space,
                       state.recurring, state.returnTo>>
    BY <1>0, <1>2, <1>3, <1>4, <1>41
    DEF CalendarFails, DialogStates, Recurrences, Matches
  <2>2. FewOpen' /\ Shown'
    BY <1>2, <1>3, <2>1 DEF FewOpen, Shown, Alone, Ahead
  <2> QED BY <2>1, <2>2, GoesInStep
<1>39. ASSUME NEW call \in calls, Refreshed(call) PROVE InStep'
  <2>1. /\ calls' = {}
        /\ (Len(state.open) = 0 \/ Alone("alert"))
        /\ UNCHANGED <<state.open, state.recurrence>>
    BY <1>0, <1>2, <1>3, <1>4, <1>39
    DEF Refreshed, DialogStates, Recurrences, Matches
  <2>2. FewOpen' /\ Shown'
    BY <1>2, <1>3, <2>1 DEF FewOpen, Shown, Alone, Ahead
  <2> QED BY <2>1, <2>2, GoesInStep
<1> QED
  BY <1>11, <1>12, <1>13, <1>14, <1>15, <1>16, <1>17, <1>18, <1>19, <1>20,
     <1>21, <1>22, <1>23, <1>24, <1>25, <1>26, <1>27, <1>28, <1>29, <1>30,
     <1>31, <1>32, <1>33, <1>34, <1>35, <1>36, <1>37, <1>38, <1>39,
     <1>40, <1>41
  DEF DialogNext, DialogAnswer

(* It implies that the dialogue says what will happen, or did.             *)
LEMMA InStepIsEnough == DialogTypes /\ InStep => SaysWhatHappens
<1> SUFFICES ASSUME DialogTypes, InStep, state.waits, ~blocked
             PROVE
        /\ Top("confirm") /\ ~state.recurring /\ state.recurrence.option # 0
              /\ state.recurrence.final > 0
           => state.recurrence.final = Fits[state.recurrence.option]
        /\ Top("success") => /\ state.created.space = state.space
                             /\ state.created.option = state.recurrence.option
        /\ Top("calendar") /\ ~state.calendarLoading /\ ~state.outdated
           => state.calendar = state.space
  BY DEF SaysWhatHappens
<1>1. FewOpen /\ Shown
  BY DEF InStep
<1>2. \A d : Top(d) /\ d # "cancel" => Alone(d)
  BY <1>1, OpenIs
<1> QED BY <1>1, <1>2 DEF Shown, Ahead

(* The three parts of the invariant together, at every step of a visitor   *)
(* of the booking page.                                                    *)
LEMMA DialogKeeps ==
    (page = "booking" => DialogTypes /\ Locked /\ InStep)
        /\ [ClientNext]_webVars
    => (page = "booking" => DialogTypes /\ Locked /\ InStep)'
<1> SUFFICES ASSUME page = "booking" => DialogTypes /\ Locked /\ InStep,
                    [ClientNext]_webVars, page' = "booking"
             PROVE  (DialogTypes /\ Locked /\ InStep)'
  OBVIOUS
<1>1. page = "booking" /\ [DialogNext]_webVars
  BY OnePage
<1> QED BY <1>1, DialogTypesStay, LockedStays, InStepStays

(* However the user clicks, one visit never has two bookings, series or    *)
(* deletions under way at once (BookingDialog!OneAtATime): the flag        *)
(* confirming, the dialogues that open on each other and the answers out   *)
(* of order never let a second one start.                                  *)
THEOREM BookedOneAtATime == ClientSpec => []OneAtATime
<1> DEFINE Inv == page = "booking" => DialogTypes /\ Locked /\ InStep
<1>1. ClientInit => Inv
  BY OnePage, DialogTypesBegin, LockedBegins, InStepBegins
<1>2. Inv /\ [ClientNext]_webVars => Inv'
  BY DialogKeeps
<1>3. Inv => OneAtATime
  BY LockedIsEnough DEF OneAtATime
<1> HIDE DEF Inv
<1> QED BY <1>1, <1>2, <1>3, PTL DEF ClientSpec

(* To a user who waits for each call, the dialogue announces as many       *)
(* bookings as the precheck found room for, reports the booking that was   *)
(* created, and shows the calendar of the space selected                   *)
(* (BookingDialog!SaysWhatHappens).                                        *)
THEOREM DialogSaysWhatHappens == ClientSpec => []SaysWhatHappens
<1> DEFINE Inv == page = "booking" => DialogTypes /\ Locked /\ InStep
<1>1. ClientInit => Inv
  BY OnePage, DialogTypesBegin, LockedBegins, InStepBegins
<1>2. Inv /\ [ClientNext]_webVars => Inv'
  BY DialogKeeps
<1>3. Inv => SaysWhatHappens
  BY InStepIsEnough DEF SaysWhatHappens
<1> HIDE DEF Inv
<1> QED BY <1>1, <1>2, <1>3, PTL DEF ClientSpec

------------------------------------------------------------------------------
(* The search page.                                                        *)

(* The types of the search page: a chain of calls, its URL, and what the   *)
(* page holds.                                                             *)
Slots == 0 .. SlotsPerDay - 1
Moments == [day : Int, slot : Slots]
AreaOrNone == Areas \cup {NoArea}

ChainKinds == {"none", "mount", "area", "times", "search", "refresh"}

(* What is left of a chain.                                                *)
MountTodo == <<"items", "attributes", "location", "spaces", "map">>
AreaTodo == <<"attributes", "location", "spaces", "map">>
RefreshTodo == <<"location", "spaces", "map">>
SpacesTodo == <<"spaces", "map">>
MapTodo == <<"map">>
TimesTodo == <<"spaces">>
SearchTodo == <<"search", "location", "spaces", "map", "attributes">>
SearchTodo2 == <<"location", "spaces", "map", "attributes">>
SearchTodo3 == <<"spaces", "map", "attributes">>
SearchTodo4 == <<"map", "attributes">>
SearchTodo5 == <<"attributes">>

Begun == {MountTodo, AreaTodo, RefreshTodo, SpacesTodo, MapTodo, TimesTodo,
          SearchTodo, SearchTodo2, SearchTodo3, SearchTodo4, SearchTodo5}
Todos == Begun \cup {<<>>}

ChainRecords ==
    [kind : ChainKinds, todo : Todos, area : AreaOrNone, enter : Moments,
     leave : Moments]

Urls == [area : AreaOrNone, enter : Moments, leave : Moments, allDay : BOOLEAN,
         multiDay : BOOLEAN]

ShownSpaces == [area : AreaOrNone, enter : Moments, leave : Moments]

SearchStates ==
    [area : AreaOrNone, enter : Moments, leave : Moments, multiDay : BOOLEAN,
     allDay : BOOLEAN, resetEnter : Moments, resetLeave : Moments,
     auto : BOOLEAN, daily : BOOLEAN, hour : 1 .. SlotsPerDay,
     areas : SUBSET Areas, filtered : BOOLEAN, loading : BOOLEAN,
     spaces : ShownSpaces, map : AreaOrNone, url : Urls, searched : BOOLEAN,
     waits : BOOLEAN]

SearchTypes ==
    /\ state \in SearchStates
    /\ calls \in [Chains -> ChainRecords]

(* What is to be done next, and afterwards.                                *)
LEMMA TodoIs ==
    ASSUME NEW todo \in Begun
    PROVE  /\ todo # <<>> /\ Tail(todo) \in Todos /\ Len(todo) \in Nat
           /\ Head(todo) \in Steps
           /\ Head(todo) = "items" => todo = MountTodo
           /\ Len(todo) # 1 => Tail(todo) \in Begun
           /\ Len(todo) # 1 => Head(Tail(todo)) \in Steps \ {"items", "search"}
           /\ todo[1] = Head(todo)
<1>1. CASE todo = MountTodo
  <2>1. Tail(todo) = AreaTodo /\ Head(todo) = "items" /\ Len(todo) = 5
        /\ Head(AreaTodo) = "attributes"
    BY <1>1 DEF MountTodo, AreaTodo
  <2> QED BY <1>1, <2>1 DEF Todos, Begun, Steps, MountTodo
<1>2. CASE todo = AreaTodo
  <2>1. Tail(todo) = RefreshTodo /\ Head(todo) = "attributes" /\ Len(todo) = 4
        /\ Head(RefreshTodo) = "location"
    BY <1>2 DEF RefreshTodo, AreaTodo
  <2> QED BY <1>2, <2>1 DEF Todos, Begun, Steps, AreaTodo
<1>3. CASE todo = RefreshTodo
  <2>1. Tail(todo) = SpacesTodo /\ Head(todo) = "location" /\ Len(todo) = 3
        /\ Head(SpacesTodo) = "spaces"
    BY <1>3 DEF RefreshTodo, SpacesTodo
  <2> QED BY <1>3, <2>1 DEF Todos, Begun, Steps, RefreshTodo
<1>4. CASE todo = SpacesTodo
  <2>1. Tail(todo) = MapTodo /\ Head(todo) = "spaces" /\ Len(todo) = 2
        /\ Head(MapTodo) = "map"
    BY <1>4 DEF MapTodo, SpacesTodo
  <2> QED BY <1>4, <2>1 DEF Todos, Begun, Steps, SpacesTodo
<1>5. CASE todo = MapTodo
  <2>1. Tail(todo) = <<>> /\ Head(todo) = "map" /\ Len(todo) = 1
    BY <1>5 DEF MapTodo
  <2> QED BY <1>5, <2>1 DEF Todos, Begun, Steps, MapTodo
<1>6. CASE todo = TimesTodo
  <2>1. Tail(todo) = <<>> /\ Head(todo) = "spaces" /\ Len(todo) = 1
    BY <1>6 DEF TimesTodo
  <2> QED BY <1>6, <2>1 DEF Todos, Begun, Steps, TimesTodo
<1>7. CASE todo = SearchTodo
  <2>1. Tail(todo) = SearchTodo2 /\ Head(todo) = "search" /\ Len(todo) = 5
        /\ Head(SearchTodo2) = "location"
    BY <1>7 DEF SearchTodo, SearchTodo2
  <2> QED BY <1>7, <2>1 DEF Todos, Begun, Steps, SearchTodo
<1>8. CASE todo = SearchTodo2
  <2>1. Tail(todo) = SearchTodo3 /\ Head(todo) = "location" /\ Len(todo) = 4
        /\ Head(SearchTodo3) = "spaces"
    BY <1>8 DEF SearchTodo3, SearchTodo2
  <2> QED BY <1>8, <2>1 DEF Todos, Begun, Steps, SearchTodo2
<1>9. CASE todo = SearchTodo3
  <2>1. Tail(todo) = SearchTodo4 /\ Head(todo) = "spaces" /\ Len(todo) = 3
        /\ Head(SearchTodo4) = "map"
    BY <1>9 DEF SearchTodo3, SearchTodo4
  <2> QED BY <1>9, <2>1 DEF Todos, Begun, Steps, SearchTodo3
<1>10. CASE todo = SearchTodo4
  <2>1. Tail(todo) = SearchTodo5 /\ Head(todo) = "map" /\ Len(todo) = 2
        /\ Head(SearchTodo5) = "attributes"
    BY <1>10 DEF SearchTodo5, SearchTodo4
  <2> QED BY <1>10, <2>1 DEF Todos, Begun, Steps, SearchTodo4
<1>11. CASE todo = SearchTodo5
  <2>1. Tail(todo) = <<>> /\ Head(todo) = "attributes" /\ Len(todo) = 1
    BY <1>11 DEF SearchTodo5
  <2> QED BY <1>11, <2>1 DEF Todos, Begun, Steps, SearchTodo5
<1> QED BY <1>1, <1>2, <1>3, <1>4, <1>5, <1>6, <1>7, <1>8, <1>9, <1>10, <1>11
        DEF Begun

-----------------------------------------------------------------------------
(* The operators on times.                                                 *)
LEMMA TodayIs == Today \in Moments
BY SlotsAssumption DEF Today, Moments, Slots

(* Moments with another day or another time.                               *)
LEMMA MomentsAre ==
    ASSUME NEW t \in Moments, NEW d \in Int, NEW x \in Slots
    PROVE  /\ HoursToMin(t) \in Moments /\ HoursToMin(t).day = t.day
           /\ HoursToMin(t).slot = 0
           /\ HoursToMax(t) \in Moments /\ HoursToMax(t).day = t.day
           /\ HoursToMax(t).slot = SlotsPerDay - 1
           /\ [t EXCEPT !.slot = x] \in Moments
           /\ [t EXCEPT !.slot = x].day = t.day
           /\ [t EXCEPT !.slot = x].slot = x
           /\ [t EXCEPT !.day = d] \in Moments
           /\ [t EXCEPT !.day = d].day = d
           /\ [t EXCEPT !.day = d].slot = t.slot
BY SlotsAssumption DEF HoursToMin, HoursToMax, Moments, Slots

(* setTime with a time of the day keeps the day.                           *)
LEMMA SetTimeIs ==
    ASSUME NEW t \in Moments, NEW x \in 0 .. SlotsPerDay
    PROVE  /\ SetTime(t, x) \in Moments
           /\ x < SlotsPerDay =>
                 /\ SetTime(t, x).day = t.day /\ SetTime(t, x).slot = x
<1>1. CASE x = SlotsPerDay
  <2>1. SetTime(t, x) = [day |-> t.day + 1, slot |-> 0]
    BY <1>1 DEF SetTime
  <2>2. t.day + 1 \in Int /\ 0 \in Slots
    BY SlotsAssumption DEF Moments, Slots
  <2>3. ~(x < SlotsPerDay) BY <1>1, SlotsAssumption
  <2>4. [day |-> t.day + 1, slot |-> 0] \in Moments BY <2>2 DEF Moments
  <2>5. SetTime(t, x) \in Moments BY <2>1, <2>4
  <2> QED BY <2>3, <2>5
<1>2. CASE x # SlotsPerDay
  <2>1. x \in Slots BY <1>2, SlotsAssumption DEF Slots
  <2>2. SetTime(t, x) = [t EXCEPT !.slot = x] BY <1>2 DEF SetTime
  <2>3. /\ [t EXCEPT !.slot = x] \in Moments
        /\ [t EXCEPT !.slot = x].day = t.day
        /\ [t EXCEPT !.slot = x].slot = x
    BY <2>1 DEF Moments
  <2> QED BY <2>2, <2>3
<1> QED BY <1>1, <1>2

(* An end moved along with the other keeps its distance and, unless the    *)
(* other one's time changed, its time.                                     *)
LEMMA SameDurationIs ==
    ASSUME NEW t \in Moments, NEW e \in Moments, NEW l \in Moments
    PROVE  /\ SameDuration(t, e, l) \in Moments
           /\ t.slot = e.slot =>
                /\ SameDuration(t, e, l).slot = l.slot
                /\ SameDuration(t, e, l).day = t.day + l.day - e.day
<1> DEFINE day == t.day + l.day - e.day
           slot == t.slot + l.slot - e.slot
<1>1. /\ day \in Int /\ slot \in Int /\ slot > 0 - SlotsPerDay
      /\ slot < 2 * SlotsPerDay
      /\ t.slot = e.slot => slot = l.slot /\ slot \in 0 .. SlotsPerDay - 1
  BY SlotsAssumption DEF Moments, Slots
<1>2. SameDuration(t, e, l) =
        CASE slot < 0 -> [day |-> day - 1, slot |-> slot + SlotsPerDay]
          [] slot \in 0 .. SlotsPerDay - 1 -> [day |-> day, slot |-> slot]
          [] slot >= SlotsPerDay -> [day |-> day + 1, slot |-> slot - SlotsPerDay]
  BY DEF SameDuration
<1> HIDE DEF day, slot
<1>3. CASE slot < 0
  <2>1. SameDuration(t, e, l) = [day |-> day - 1, slot |-> slot + SlotsPerDay]
    BY <1>1, <1>2, <1>3, SlotsAssumption
  <2> QED BY <1>1, <1>3, <2>1, SlotsAssumption DEF Moments, Slots
<1>4. CASE slot \in 0 .. SlotsPerDay - 1
  <2>1. SameDuration(t, e, l) = [day |-> day, slot |-> slot]
    BY <1>1, <1>2, <1>4, SlotsAssumption
  <2> QED BY <1>1, <1>4, <2>1, SlotsAssumption DEF Moments, Slots, day
<1>5. CASE slot >= SlotsPerDay
  <2>1. SameDuration(t, e, l) = [day |-> day + 1, slot |-> slot - SlotsPerDay]
    BY <1>1, <1>2, <1>5, SlotsAssumption
  <2> QED BY <1>1, <1>5, <2>1, SlotsAssumption DEF Moments, Slots
<1> QED BY <1>1, <1>3, <1>4, <1>5, SlotsAssumption

(* Which ends of the selection a step asks to move.                        *)
EndsMoved == SUBSET {"enter", "leave"}

(* What becomes of the end: moved along with the start, and onto its day   *)
(* when one day is selected; its time stays if the start's does, but for   *)
(* the end of a day cut off from several.                                  *)
LEMMA NewLeaveIs ==
    ASSUME NEW s \in SearchStates, NEW e \in Moments, NEW l \in Moments,
           NEW moved \in EndsMoved
    PROVE  LET n == NewLeave(s, e, l, moved) IN
           /\ n \in Moments
           /\ "leave" \in moved => n = l
           /\ "leave" \notin moved /\ ~s.multiDay => n.day = e.day
           /\ "leave" \notin moved /\ e.slot = s.enter.slot
                 => \/ n.slot = s.leave.slot
                    \/ /\ n.slot = SlotsPerDay - 1
                       /\ ~s.multiDay /\ s.enter.day # s.leave.day
<1> DEFINE n == NewLeave(s, e, l, moved)
           kept == SameDuration(e, s.enter, s.leave)
<1>0. s.enter \in Moments /\ s.leave \in Moments /\ s.multiDay \in BOOLEAN
  BY DEF SearchStates
<1>1. n = IF "leave" \in moved THEN l
          ELSE IF s.multiDay \/ SameDay(kept, e) THEN kept ELSE HoursToMax(e)
  BY DEF NewLeave
<1>2. /\ kept \in Moments
      /\ e.slot = s.enter.slot =>
           /\ kept.slot = s.leave.slot
           /\ kept.day = e.day + s.leave.day - s.enter.day
  BY <1>0, SameDurationIs
<1> HIDE DEF n, kept
<1>3. CASE "leave" \in moved
  BY <1>1, <1>3 DEF n
<1>4. CASE "leave" \notin moved /\ (s.multiDay \/ SameDay(kept, e))
  <2>1. n = kept BY <1>1, <1>4
  <2> QED BY <1>2, <1>4, <2>1 DEF SameDay, n
<1>5. CASE "leave" \notin moved /\ ~(s.multiDay \/ SameDay(kept, e))
  <2>1. n = HoursToMax(e) BY <1>1, <1>5
  <2>2. /\ n \in Moments /\ n.day = e.day /\ n.slot = SlotsPerDay - 1
    BY <2>1, MomentsAre, SlotsAssumption DEF Moments
  <2>3. e.slot = s.enter.slot => s.enter.day # s.leave.day
    BY <1>0, <1>2, <1>5 DEF SameDay, Moments
  <2> QED BY <1>5, <2>2, <2>3 DEF n
<1> QED BY <1>3, <1>4, <1>5 DEF n

(* What becomes of the start: the day asked for, and the time too unless   *)
(* the page still follows the working day.                                 *)
LEMMA NewEnterIs ==
    ASSUME NEW s \in SearchStates, NEW e \in Moments, NEW moved \in EndsMoved
    PROVE  LET n == NewEnter(s, e, moved) IN
           /\ n \in Moments
           /\ "enter" \notin moved => n = s.enter
           /\ "enter" \in moved /\ s.hour < SlotsPerDay => n.day = e.day
           /\ "enter" \in moved /\ ~s.daily
                 => \/ n = e
                    \/ /\ s.auto /\ OnlyDayMoved(s, e, moved)
                       /\ s.hour < SlotsPerDay => n.slot \in {WorkStart, s.hour}
<1> DEFINE n == NewEnter(s, e, moved)
           o == OnlyDayMoved(s, e, moved)
           late == e.day > 0 \/ WorkStart >= s.hour
<1>0. /\ s.enter \in Moments /\ s.daily \in BOOLEAN /\ s.auto \in BOOLEAN
      /\ s.hour \in 1 .. SlotsPerDay /\ s.hour \in 0 .. SlotsPerDay
      /\ WorkStart \in 0 .. SlotsPerDay /\ WorkStart < SlotsPerDay
  BY SlotsAssumption DEF SearchStates
<1>1. CASE "enter" \notin moved
  <2>1. n = s.enter BY <1>1 DEF NewEnter
  <2> QED BY <1>0, <1>1, <2>1
<1>2. CASE "enter" \in moved /\ s.daily
  <2>1. n = HoursToMin(e) BY <1>2 DEF NewEnter
  <2>2. n \in Moments /\ n.day = e.day
    BY <2>1, MomentsAre, SlotsAssumption DEF Moments
  <2> QED BY <1>2, <2>2
<1>3. CASE "enter" \in moved /\ ~s.daily
  <2>1. n = IF ~s.auto \/ ~o THEN e
            ELSE IF late THEN SetTime(e, WorkStart) ELSE SetTime(e, s.hour)
    BY <1>3 DEF NewEnter
  <2> HIDE DEF n, o, late
  <2>2. CASE ~s.auto \/ ~o BY <1>3, <2>1, <2>2 DEF n
  <2>3. CASE s.auto /\ o
    <3>1. n = SetTime(e, WorkStart) \/ n = SetTime(e, s.hour)
      BY <2>1, <2>3
    <3>2. /\ SetTime(e, WorkStart) \in Moments
          /\ SetTime(e, WorkStart).day = e.day
          /\ SetTime(e, WorkStart).slot = WorkStart
      BY <1>0, SetTimeIs
    <3>3. /\ SetTime(e, s.hour) \in Moments
          /\ s.hour < SlotsPerDay => /\ SetTime(e, s.hour).day = e.day
                                     /\ SetTime(e, s.hour).slot = s.hour
      BY <1>0, SetTimeIs
    <3> QED BY <1>3, <2>3, <3>1, <3>2, <3>3 DEF n, o
  <2> QED BY <2>2, <2>3
<1> QED BY <1>1, <1>2, <1>3

(* What a step that moves an end leaves of the page: nothing but the times *)
(* and the flag of the working day, which goes down and never up.          *)
LEMMA WithTimesIs ==
    ASSUME NEW s \in SearchStates, NEW e \in Moments, NEW l \in Moments,
           NEW moved \in EndsMoved
    PROVE  LET t == WithTimes(s, e, l, moved)
               n == NewLeave(s, e, l, moved) IN
           /\ t \in SearchStates
           /\ t.area = s.area /\ t.multiDay = s.multiDay
           /\ t.allDay = s.allDay /\ t.resetEnter = s.resetEnter
           /\ t.resetLeave = s.resetLeave /\ t.daily = s.daily
           /\ t.hour = s.hour /\ t.areas = s.areas /\ t.map = s.map
           /\ t.filtered = s.filtered /\ t.loading = s.loading
           /\ t.spaces = s.spaces /\ t.url = s.url /\ t.waits = s.waits
           /\ t.searched = s.searched
           /\ ~Moves(s, e, l, moved) => t = s
           /\ Moves(s, e, l, moved) =>
                /\ t.enter = NewEnter(s, e, moved)
                /\ t.leave = IF s.daily THEN HoursToMax(n) ELSE n
                /\ t.auto => s.auto /\ StaysAuto(s, e, n, moved)
<1> DEFINE t == WithTimes(s, e, l, moved)
           n == NewLeave(s, e, l, moved)
           x == NewEnter(s, e, moved)
           y == IF s.daily THEN HoursToMax(n) ELSE n
           a == s.auto /\ StaysAuto(s, e, n, moved)
           r == [s EXCEPT !.enter = x, !.leave = y]
           q == [r EXCEPT !.auto = a]
<1>1. x \in Moments /\ n \in Moments
  BY NewLeaveIs, NewEnterIs
<1>2. t = IF ~Moves(s, e, l, moved) THEN s ELSE q
  BY DEF WithTimes, SearchStates
<1> HIDE DEF x, n
<1>3. y \in Moments
  BY <1>1, MomentsAre, SlotsAssumption DEF Moments
<1>4. a \in BOOLEAN
  BY DEF SearchStates
<1> HIDE DEF y, a
<1>5. r \in SearchStates BY <1>1, <1>3 DEF SearchStates
<1>6. /\ r.area = s.area /\ r.multiDay = s.multiDay
      /\ r.allDay = s.allDay /\ r.resetEnter = s.resetEnter
      /\ r.resetLeave = s.resetLeave /\ r.daily = s.daily
      /\ r.hour = s.hour /\ r.areas = s.areas /\ r.map = s.map
      /\ r.filtered = s.filtered /\ r.loading = s.loading
      /\ r.spaces = s.spaces /\ r.url = s.url /\ r.waits = s.waits
      /\ r.searched = s.searched
      /\ r.enter = x /\ r.leave = y
  BY DEF SearchStates
<1> HIDE DEF r
<1>7. q \in SearchStates BY <1>4, <1>5 DEF SearchStates
<1>8. /\ q.area = s.area /\ q.multiDay = s.multiDay
      /\ q.allDay = s.allDay /\ q.resetEnter = s.resetEnter
      /\ q.resetLeave = s.resetLeave /\ q.daily = s.daily
      /\ q.hour = s.hour /\ q.areas = s.areas /\ q.map = s.map
      /\ q.filtered = s.filtered /\ q.loading = s.loading
      /\ q.spaces = s.spaces /\ q.url = s.url /\ q.waits = s.waits
      /\ q.searched = s.searched
      /\ q.enter = x /\ q.leave = y /\ q.auto = a
  BY <1>5, <1>6 DEF SearchStates
<1> HIDE DEF q, t
<1>9. CASE ~Moves(s, e, l, moved)
  <2>1. t = s BY <1>2, <1>9
  <2> QED BY <1>9, <2>1 DEF t
<1>10. CASE Moves(s, e, l, moved)
  <2>1. t = q BY <1>2, <1>10
  <2> QED BY <1>7, <1>8, <1>10, <2>1 DEF t, x, y, a, n
<1> QED BY <1>9, <1>10

(* While several days are not allowed, and were not when the page was      *)
(* reset, the selection is one day.                                        *)
OneDay(s) ==
    ~s.multiDay /\ SameDay(s.resetEnter, s.resetLeave)
        => SameDay(s.enter, s.leave)

(* What is ticked as all day is all day, and no longer follows the working *)
(* day.                                                                    *)
WholeDay(s) ==
    s.allDay => /\ ~s.daily /\ ~s.auto
                /\ s.enter.slot = 0 /\ s.leave.slot = SlotsPerDay - 1

(* While the page follows the working day, it ends with it.                *)
Workday(s) ==
    s.auto /\ ~s.daily => /\ s.enter.slot = 0 => WorkStart = 0
                          /\ s.leave.slot = WorkEnd
                          /\ ~s.multiDay => SameDay(s.enter, s.leave)

(* The order of the selection, but in the last hour of the day, where the  *)
(* next full hour is on another day. With a working day from 0:00 to 23:59 *)
(* (RoundTheClock), all day changes no time, and the page goes on          *)
(* following the working day: WholeDay fails then.                         *)
InOrder(s) ==
    s.hour < SlotsPerDay =>
        /\ OneDay(s)
        /\ ~RoundTheClock => WholeDay(s) /\ Workday(s)

(* The order is a matter of the fields it names.                           *)
LEMMA OrderOf ==
    ASSUME NEW s, NEW t, InOrder(s),
           t.enter = s.enter, t.leave = s.leave, t.multiDay = s.multiDay,
           t.allDay = s.allDay, t.resetEnter = s.resetEnter,
           t.resetLeave = s.resetLeave, t.auto = s.auto,
           t.daily = s.daily, t.hour = s.hour
    PROVE  InOrder(t)
BY DEF InOrder, OneDay, WholeDay, Workday

(* What the pickers and the arrows ask for.                                *)
Asked(s, e, l, moved) ==
    \/ /\ moved = {"enter"}
       /\ \/ e.slot = s.enter.slot
          \/ e.day = s.enter.day /\ ~s.allDay
    \/ /\ moved = {"leave"}
       /\ l.slot = s.leave.slot \/ ~s.allDay \/ ~WholeDay(s)
       /\ s.multiDay \/ l.day = s.leave.day
    \/ /\ moved = {"enter", "leave"}
       /\ e.slot = s.enter.slot /\ l.slot = s.leave.slot
       /\ e.day - s.enter.day = l.day - s.leave.day

(* A picker or an arrow keeps the order.                                   *)
LEMMA OrderKept ==
    ASSUME NEW s \in SearchStates, NEW e \in Moments, NEW l \in Moments,
           NEW moved \in EndsMoved, Asked(s, e, l, moved), InOrder(s)
    PROVE  InOrder(WithTimes(s, e, l, moved))
<1> DEFINE t == WithTimes(s, e, l, moved)
           n == NewLeave(s, e, l, moved)
           x == NewEnter(s, e, moved)
<1>0. /\ s.enter \in Moments /\ s.leave \in Moments
      /\ s.multiDay \in BOOLEAN /\ s.daily \in BOOLEAN /\ s.auto \in BOOLEAN
      /\ s.allDay \in BOOLEAN /\ s.hour \in 1 .. SlotsPerDay
      /\ \A m \in Moments : m.day \in Int /\ m.slot \in Int
      /\ SlotsPerDay \in Int
  BY SlotsAssumption DEF SearchStates, Moments, Slots
<1>1. CASE ~Moves(s, e, l, moved)
  <2>1. t = s BY <1>1, WithTimesIs
  <2> QED BY <2>1, OrderOf
<1>h. t.hour = s.hour BY WithTimesIs
<1>2. SUFFICES ASSUME Moves(s, e, l, moved), s.hour < SlotsPerDay
               PROVE  /\ OneDay(t)
                      /\ ~RoundTheClock => WholeDay(t) /\ Workday(t)
  BY <1>1, <1>h DEF InOrder
<1>3. /\ t \in SearchStates
      /\ t.multiDay = s.multiDay /\ t.allDay = s.allDay
      /\ t.resetEnter = s.resetEnter /\ t.resetLeave = s.resetLeave
      /\ t.daily = s.daily /\ t.enter = x
      /\ t.leave = IF s.daily THEN HoursToMax(n) ELSE n
      /\ t.auto => s.auto /\ StaysAuto(s, e, n, moved)
  BY <1>2, WithTimesIs
<1>4. /\ n \in Moments
      /\ "leave" \in moved => n = l
      /\ "leave" \notin moved /\ ~s.multiDay => n.day = e.day
      /\ "leave" \notin moved /\ e.slot = s.enter.slot
            => \/ n.slot = s.leave.slot
               \/ /\ n.slot = SlotsPerDay - 1
                  /\ ~s.multiDay /\ s.enter.day # s.leave.day
  BY NewLeaveIs
<1>5. /\ x \in Moments
      /\ "enter" \notin moved => x = s.enter
      /\ "enter" \in moved => x.day = e.day
      /\ "enter" \in moved /\ ~s.daily
            => \/ x = e
               \/ /\ s.auto /\ OnlyDayMoved(s, e, moved)
                  /\ x.slot \in {WorkStart, s.hour}
  BY <1>2, NewEnterIs
<1>6. t.leave.day = n.day
  BY <1>3, <1>4, MomentsAre, SlotsAssumption DEF Moments
<1> HIDE DEF t, n, x
<1>7. OneDay(s) /\ (~RoundTheClock => WholeDay(s) /\ Workday(s))
  BY <1>2 DEF InOrder
<1>8. OneDay(t)
  <2> SUFFICES ASSUME ~s.multiDay, SameDay(s.resetEnter, s.resetLeave)
               PROVE  x.day = n.day
    BY <1>3, <1>6 DEF OneDay, SameDay
  <2>1. s.enter.day = s.leave.day BY <1>7 DEF OneDay, SameDay
  <2> QED BY <1>0, <1>4, <1>5, <2>1 DEF Asked
<1>9. ASSUME WholeDay(s) PROVE WholeDay(t)
  <2> SUFFICES ASSUME s.allDay
               PROVE  /\ ~t.auto /\ t.enter.slot = 0
                      /\ t.leave.slot = SlotsPerDay - 1 /\ ~t.daily
    BY <1>3 DEF WholeDay
  <2>1. /\ ~s.daily /\ ~s.auto /\ s.enter.slot = 0
        /\ s.leave.slot = SlotsPerDay - 1
    BY <1>9 DEF WholeDay
  <2>2. t.leave = n /\ ~t.auto /\ ~t.daily BY <1>3, <2>1
  <2>3. n.slot = SlotsPerDay - 1 BY <1>4, <1>9, <2>1 DEF Asked
  <2>4. x.slot = 0 BY <1>5, <2>1 DEF Asked
  <2> QED BY <1>3, <2>2, <2>3, <2>4
<1>10. ASSUME Workday(s) PROVE Workday(t)
  <2> SUFFICES ASSUME t.auto, ~s.daily
               PROVE  /\ x.slot = 0 => WorkStart = 0
                      /\ n.slot = WorkEnd
                      /\ ~s.multiDay => x.day = n.day
    BY <1>3 DEF Workday, SameDay
  <2>1. /\ s.auto /\ StaysAuto(s, e, n, moved)
        /\ s.enter.slot = 0 => WorkStart = 0
        /\ s.leave.slot = WorkEnd
        /\ ~s.multiDay => s.enter.day = s.leave.day
    BY <1>3, <1>10 DEF Workday, SameDay
  <2>2. /\ moved = {"enter"} => e.slot = s.enter.slot
        /\ moved = {"leave"} => n.slot = s.leave.slot
    BY <1>0, <2>1 DEF Asked, StaysAuto, OnlyDayMoved, SameTime, SameDay
  <2>3. x.slot = 0 => WorkStart = 0
    <3>1. "enter" \in moved => e.slot = s.enter.slot BY <2>2 DEF Asked
    <3>2. s.hour # 0 BY <1>0
    <3> QED BY <1>5, <2>1, <3>1, <3>2
  <2>4. n.slot = WorkEnd BY <1>4, <2>1, <2>2 DEF Asked
  <2>5. ~s.multiDay => x.day = n.day
    BY <1>0, <1>4, <1>5, <2>1 DEF Asked
  <2> QED BY <2>3, <2>4, <2>5
<1> QED BY <1>7, <1>8, <1>9, <1>10

(* What is asked of the URL, for a page that is opened with it.            *)
UrlInOrder(s) ==
    s.hour < SlotsPerDay /\ ~RoundTheClock =>
        /\ s.url.allDay => /\ ~s.daily /\ ~s.auto
                           /\ s.url.enter.slot = 0
                           /\ s.url.leave.slot = SlotsPerDay - 1
        /\ s.auto /\ ~s.daily =>
              /\ s.url.enter.slot = 0 => WorkStart = 0
              /\ s.url.leave.slot = WorkEnd
              /\ ~s.url.multiDay => SameDay(s.url.enter, s.url.leave)

(* The selection is the one the page makes of its URL.                     *)
Restores(s) ==
    s.hour < SlotsPerDay /\ ~RoundTheClock =>
        /\ s.url.enter = s.enter /\ s.url.allDay = s.allDay
        /\ s.url.multiDay = s.multiDay
        /\ \/ s.leave = s.url.leave
           \/ s.leave = IF s.url.multiDay \/ SameDay(s.url.enter, s.url.leave)
                        THEN s.url.leave ELSE HoursToMax(s.url.enter)

(* So is the area, unless a search has selected it or none is selected.    *)
AreaRestores(s) ==
    ~s.searched /\ s.area # NoArea =>
        \/ s.url.area = s.area
        \/ s.url.area = NoArea /\ s.area = PrefArea

(* What only loads anew leaves the selection as it is.                     *)
SameSelection(s, t) ==
    /\ t.area = s.area /\ t.enter = s.enter /\ t.leave = s.leave
    /\ t.multiDay = s.multiDay /\ t.allDay = s.allDay
    /\ t.resetEnter = s.resetEnter /\ t.resetLeave = s.resetLeave
    /\ t.auto = s.auto /\ t.daily = s.daily /\ t.hour = s.hour

(* The order, that of the URL, and whether it restores are a matter of the *)
(* selection and the URL.                                                  *)
LEMMA TimesKept ==
    ASSUME NEW s, NEW t,
           t.enter = s.enter, t.leave = s.leave, t.multiDay = s.multiDay,
           t.allDay = s.allDay, t.resetEnter = s.resetEnter,
           t.resetLeave = s.resetLeave, t.auto = s.auto,
           t.daily = s.daily, t.hour = s.hour, t.url = s.url
    PROVE  /\ InOrder(s) => InOrder(t)
           /\ UrlInOrder(s) => UrlInOrder(t)
           /\ Restores(s) => Restores(t)
BY OrderOf DEF UrlInOrder, Restores

(* The same, where the selection as a whole is the same.                   *)
LEMMA SelectionKept ==
    ASSUME NEW s, NEW t, SameSelection(s, t), t.url = s.url,
           t.searched = s.searched
    PROVE  /\ InOrder(s) => InOrder(t)
           /\ UrlInOrder(s) => UrlInOrder(t)
           /\ Restores(s) => Restores(t)
           /\ AreaRestores(s) => AreaRestores(t)
<1>1. AreaRestores(s) => AreaRestores(t) BY DEF SameSelection, AreaRestores
<1> QED BY <1>1, TimesKept DEF SameSelection

(* The URL keeps the selection.                                            *)
LEMMA UrlIs ==
    ASSUME NEW s \in SearchStates
    PROVE  /\ Url(s) \in Urls /\ Url(s).area = s.area
           /\ Url(s).enter = s.enter /\ Url(s).leave = s.leave
           /\ Url(s).allDay = s.allDay /\ Url(s).multiDay = s.multiDay
BY DEF Url, Urls, SearchStates

(* The URL written after a selection restores it.                          *)
LEMMA RecordedIs ==
    ASSUME NEW s \in SearchStates, NEW t, InOrder(s), SameSelection(s, t),
           t.url = Url(s)
    PROVE  InOrder(t) /\ UrlInOrder(t) /\ Restores(t) /\ AreaRestores(t)
<1>1. InOrder(t) BY OrderOf DEF SameSelection
<1>2. /\ t.url.enter = t.enter /\ t.url.leave = t.leave
      /\ t.url.allDay = t.allDay /\ t.url.multiDay = t.multiDay
  BY UrlIs DEF SameSelection
<1>3. UrlInOrder(t)
  BY <1>1, <1>2 DEF InOrder, UrlInOrder, WholeDay, Workday
<1>4. Restores(t) BY <1>2 DEF Restores
<1>5. AreaRestores(t) BY UrlIs DEF SameSelection, AreaRestores
<1> QED BY <1>1, <1>3, <1>4, <1>5

(* What a chain has to do, and what its first call asks for.               *)
LEMMA ChainIs ==
    ASSUME NEW s, NEW kind, s.area \in AreaOrNone, s.enter \in Moments,
           s.leave \in Moments,
           kind \in {"mount", "area", "times", "search", "refresh"}
    PROVE  LET c == Chain(kind, s) IN
           /\ c \in ChainRecords /\ c.kind = kind /\ c.area = s.area
           /\ c.enter = s.enter /\ c.leave = s.leave
           /\ kind = "mount" => c.todo = MountTodo
           /\ kind = "area" => c.todo = AreaTodo
           /\ kind = "times" => c.todo = TimesTodo
           /\ kind = "search" => c.todo = SearchTodo
           /\ kind = "refresh" => c.todo = RefreshTodo
<1> DEFINE c == Chain(kind, s)
           x == CASE kind = "mount" -> <<"items", "attributes", "location",
                                          "spaces", "map">>
                   [] kind = "area" -> <<"attributes", "location", "spaces",
                                         "map">>
                   [] kind = "times" -> <<"spaces">>
                   [] kind = "search" -> <<"search", "location", "spaces",
                                           "map", "attributes">>
                   [] kind = "refresh" -> <<"location", "spaces", "map">>
<1>1. /\ kind = "mount" => x = MountTodo
      /\ kind = "area" => x = AreaTodo
      /\ kind = "times" => x = TimesTodo
      /\ kind = "search" => x = SearchTodo
      /\ kind = "refresh" => x = RefreshTodo
  BY DEF MountTodo, AreaTodo, TimesTodo, SearchTodo, RefreshTodo
<1>2. x \in Todos BY <1>1 DEF Todos, Begun
<1>3. NoChain \in ChainRecords
  BY TodayIs DEF NoChain, ChainRecords, ChainKinds, Todos, AreaOrNone
<1>4. c = [NoChain EXCEPT !.kind = kind, !.area = s.area, !.enter = s.enter,
                          !.leave = s.leave, !.todo = x]
  BY DEF Chain
<1>5. DOMAIN NoChain = {"kind", "todo", "area", "enter", "leave"}
  BY DEF NoChain
<1> HIDE DEF c, x
<1>6. /\ c.kind = kind /\ c.todo = x /\ c.area = s.area /\ c.enter = s.enter
      /\ c.leave = s.leave
  BY <1>4, <1>5
<1>7. c \in ChainRecords BY <1>2, <1>3, <1>4 DEF ChainRecords, ChainKinds
<1> QED BY <1>1, <1>6, <1>7 DEF c

(* A new chain has nothing to do with the answer to what there is.         *)
Begins(kind) ==
    \E c \in Chains : Free(c) /\ calls' = [calls EXCEPT ![c] = Chain(kind, state')]

(* A chain depends on the area and the times only, ...                     *)
LEMMA ChainOf ==
    ASSUME NEW s, NEW t, NEW kind, t.area = s.area, t.enter = s.enter,
           t.leave = s.leave
    PROVE  Chain(kind, t) = Chain(kind, s)
BY DEF Chain, NoChain

(* ... so that it begins with those of the next state ...                  *)
LEMMA StartIs ==
    ASSUME NEW s, NEW kind, Start(kind, s), state'.area = s.area,
           state'.enter = s.enter, state'.leave = s.leave
    PROVE  Begins(kind)
<1>1. Chain(kind, state') = Chain(kind, s) BY ChainOf
<1> QED BY <1>1 DEF Start, Begins

(* ... and is one of the chains there may be. What begins later is not     *)
(* what opens the page.                                                    *)
LEMMA ChainBegun ==
    ASSUME SearchTypes, state' \in SearchStates,
           NEW kind \in {"area", "times", "search", "refresh"}, Begins(kind)
    PROVE  /\ calls' \in [Chains -> ChainRecords]
           /\ Mounted' => Mounted
<1>1. PICK c \in Chains :
         Free(c) /\ calls' = [calls EXCEPT ![c] = Chain(kind, state')]
  BY DEF Begins
<1>2. state'.area \in AreaOrNone /\ state'.enter \in Moments
      /\ state'.leave \in Moments
  BY DEF SearchStates
<1>3. Chain(kind, state') \in ChainRecords BY <1>2, ChainIs
<1> DEFINE k == Chain(kind, state')
<1>k. k \in ChainRecords /\ calls' = [calls EXCEPT ![c] = k] BY <1>1, <1>3
<1> HIDE DEF k
<1>4. calls' \in [Chains -> ChainRecords] BY <1>k DEF SearchTypes
<1>5. ASSUME Mounted' PROVE Mounted
  <2> SUFFICES ASSUME NEW d \in Chains
               PROVE  calls[d].todo = <<>> \/ Head(calls[d].todo) # "items"
    BY DEF Mounted
  <2>1. CASE d = c BY <1>1, <2>1 DEF Free
  <2>2. CASE d # c
    <3>1. calls'[d] = calls[d] BY <1>k, <2>2 DEF SearchTypes
    <3> QED BY <1>5, <3>1 DEF Mounted
  <2> QED BY <2>1, <2>2
<1> QED BY <1>4, <1>5

(* What a user can ask the page to load.                                   *)
StartedKinds == {"area", "times", "search", "refresh"}

(* What a step of the user does to the selection, and what it loads.       *)
UserSelects ==
    /\ state' \in SearchStates
    /\ InOrder(state') /\ UrlInOrder(state') /\ AreaRestores(state')
    /\ Restores(state) => Restores(state')
    /\ state'.waits = state.waits /\ state'.spaces = state.spaces
    /\ state'.map = state.map
    /\ \/ /\ UNCHANGED calls
          /\ state'.area = state.area /\ state'.enter = state.enter
          /\ state'.leave = state.leave /\ state'.loading = state.loading
       \/ /\ state'.loading
          /\ \E kind \in StartedKinds :
                /\ Begins(kind)
                /\ kind \in {"times", "refresh"} => state.area # NoArea
                /\ kind = "times" => state'.area = state.area

(* The part of the invariant that is about the selection.                  *)
InReach ==
    SearchTypes /\ InOrder(state) /\ UrlInOrder(state) /\ AreaRestores(state)

(* Moving an end is such a step, and records the selection in the URL.     *)
LEMMA MoveKeeps ==
    ASSUME InReach, NEW e \in Moments, NEW l \in Moments,
           NEW moved \in EndsMoved, Asked(state, e, l, moved),
           state.area # NoArea, Move(e, l, moved)
    PROVE  UserSelects
<1> DEFINE s == WithTimes(state, e, l, moved)
           u == Url(s)
<1>0. state \in SearchStates /\ InOrder(state) BY DEF InReach, SearchTypes
<1>1. /\ s \in SearchStates /\ s.area = state.area /\ s.spaces = state.spaces
      /\ s.map = state.map /\ s.waits = state.waits
  BY <1>0, WithTimesIs
<1>2. InOrder(s) BY <1>0, OrderKept
<1>3. u \in Urls BY <1>1, UrlIs
<1>4. /\ state' = [s EXCEPT !.loading = TRUE, !.url = u, !.searched = FALSE]
      /\ Start("times", s)
  BY DEF Move
<1>u. u = Url(s) OBVIOUS
<1> HIDE DEF s, u
<1>5. state' \in SearchStates BY <1>1, <1>3, <1>4 DEF SearchStates
<1>6. /\ SameSelection(s, state') /\ state'.url = Url(s) /\ state'.loading
      /\ state'.spaces = s.spaces /\ state'.map = s.map
      /\ state'.waits = s.waits
  BY <1>1, <1>4, <1>u DEF SearchStates, SameSelection
<1>7. InOrder(state') /\ UrlInOrder(state') /\ Restores(state')
      /\ AreaRestores(state')
  BY <1>1, <1>2, <1>6, RecordedIs
<1>8. Begins("times") BY <1>4, <1>6, StartIs DEF SameSelection
<1>9. state'.area = state.area BY <1>1, <1>6 DEF SameSelection
<1> QED BY <1>1, <1>5, <1>6, <1>7, <1>8, <1>9 DEF UserSelects, StartedKinds

(* The pickers and the arrows move an end.                                 *)
LEMMA PickDateKeeps ==
    ASSUME InReach, NEW day \in Days, PickDate(day)
    PROVE  UserSelects
<1>0. /\ state.enter \in Moments /\ state.leave \in Moments
      /\ day \in Int /\ state.area # NoArea
  BY DaysAssumption DEF InReach, SearchTypes, SearchStates, PickDate
<1> DEFINE e == CopyDate([day |-> day, slot |-> 0], state.enter)
           l == CopyDate([day |-> day, slot |-> 0], state.leave)
<1>1. /\ e \in Moments /\ e.slot = state.enter.slot
      /\ l \in Moments /\ l.slot = state.leave.slot
  BY <1>0 DEF CopyDate, Moments
<1>2. \/ Move(e, state.leave, {"enter"})
      \/ state.multiDay /\ Move(state.enter, l, {"leave"})
  BY DEF PickDate
<1> HIDE DEF e, l
<1>3. {"enter"} \in EndsMoved /\ {"leave"} \in EndsMoved BY DEF EndsMoved
<1>4. CASE Move(e, state.leave, {"enter"})
  <2>1. Asked(state, e, state.leave, {"enter"}) BY <1>1 DEF Asked
  <2> QED BY <1>0, <1>1, <1>3, <1>4, <2>1, MoveKeeps
<1>5. CASE state.multiDay /\ Move(state.enter, l, {"leave"})
  <2>1. Asked(state, state.enter, l, {"leave"}) BY <1>1, <1>5 DEF Asked
  <2> QED BY <1>0, <1>1, <1>3, <1>5, <2>1, MoveKeeps
<1> QED BY <1>2, <1>4, <1>5

LEMMA PickTimeKeeps ==
    ASSUME InReach, NEW slot \in 0 .. SlotsPerDay - 1, PickTime(slot)
    PROVE  UserSelects
<1>0. /\ state.enter \in Moments /\ state.leave \in Moments
      /\ slot \in Slots /\ state.area # NoArea /\ ~state.allDay
  BY DEF InReach, SearchTypes, SearchStates, PickTime, Slots
<1> DEFINE e == CopyTime([day |-> 0, slot |-> slot], state.enter)
           l == CopyTime([day |-> 0, slot |-> slot], state.leave)
<1>1. /\ e \in Moments /\ e.day = state.enter.day
      /\ l \in Moments /\ l.day = state.leave.day
  BY <1>0 DEF CopyTime, Moments
<1>2. \/ Move(e, state.leave, {"enter"})
      \/ Move(state.enter, l, {"leave"})
  BY DEF PickTime
<1> HIDE DEF e, l
<1>3. {"enter"} \in EndsMoved /\ {"leave"} \in EndsMoved BY DEF EndsMoved
<1>4. CASE Move(e, state.leave, {"enter"})
  <2>1. Asked(state, e, state.leave, {"enter"}) BY <1>0, <1>1 DEF Asked
  <2> QED BY <1>0, <1>1, <1>3, <1>4, <2>1, MoveKeeps
<1>5. CASE Move(state.enter, l, {"leave"})
  <2>1. Asked(state, state.enter, l, {"leave"}) BY <1>0, <1>1 DEF Asked
  <2> QED BY <1>0, <1>1, <1>3, <1>5, <2>1, MoveKeeps
<1> QED BY <1>2, <1>4, <1>5

LEMMA StepDayKeeps ==
    ASSUME InReach, NEW by \in {-1, 1}, StepDay(by)
    PROVE  UserSelects
<1>0. /\ state.enter \in Moments /\ state.leave \in Moments
      /\ state.area # NoArea /\ by \in Int
  BY DEF InReach, SearchTypes, SearchStates, StepDay
<1> DEFINE e == [state.enter EXCEPT !.day = @ + by]
           l == [state.leave EXCEPT !.day = @ + by]
<1>1. /\ e \in Moments /\ e.slot = state.enter.slot
      /\ e.day = state.enter.day + by
      /\ l \in Moments /\ l.slot = state.leave.slot
      /\ l.day = state.leave.day + by
      /\ state.enter.day \in Int /\ state.leave.day \in Int
  BY <1>0 DEF Moments
<1>2. Move(e, l, {"enter", "leave"}) BY DEF StepDay
<1> HIDE DEF e, l
<1>3. {"enter", "leave"} \in EndsMoved BY DEF EndsMoved
<1>4. e.day - state.enter.day = l.day - state.leave.day BY <1>0, <1>1
<1>5. Asked(state, e, l, {"enter", "leave"}) BY <1>1, <1>4 DEF Asked
<1> QED BY <1>0, <1>1, <1>2, <1>3, <1>5, MoveKeeps

(* Only the list is filtered, or what is shown is loaded anew.             *)
LEMMA LoadKeeps ==
    ASSUME InReach, NEW kind \in StartedKinds, NEW f \in BOOLEAN,
           kind = "refresh" => state.area # NoArea, kind # "times",
           state' = [state EXCEPT !.loading = TRUE, !.filtered = f],
           Start(kind, state)
    PROVE  UserSelects
<1>0. state \in SearchStates BY DEF InReach, SearchTypes
<1>1. state' \in SearchStates BY <1>0 DEF SearchStates
<1>2. /\ SameSelection(state, state') /\ state'.url = state.url
      /\ state'.searched = state.searched
      /\ state'.loading /\ state'.spaces = state.spaces
      /\ state'.map = state.map /\ state'.waits = state.waits
  BY <1>0 DEF SearchStates, SameSelection
<1>3. /\ InOrder(state') /\ UrlInOrder(state') /\ AreaRestores(state')
      /\ Restores(state) => Restores(state')
  BY <1>2, SelectionKept DEF InReach
<1>4. Begins(kind) BY <1>2, StartIs DEF SameSelection
<1> QED BY <1>1, <1>2, <1>3, <1>4 DEF UserSelects

(* Searching, resetting the search and loading anew leave the selection.   *)
LEMMA SearchKeeps ==
    ASSUME InReach, ApplySearch \/ ResetSearch \/ RefreshPage
    PROVE  UserSelects
<1>0. state \in SearchStates BY DEF InReach, SearchTypes
<1>1. CASE ApplySearch
  <2>1. state' = [state EXCEPT !.loading = TRUE, !.filtered = state.filtered]
        /\ Start("search", state)
    BY <1>0, <1>1 DEF ApplySearch, SearchStates
  <2>2. state.filtered \in BOOLEAN /\ "search" \in StartedKinds
    BY <1>0 DEF SearchStates, StartedKinds
  <2> QED BY <2>1, <2>2, LoadKeeps
<1>2. CASE ResetSearch
  <2>1. state' = [state EXCEPT !.loading = TRUE, !.filtered = FALSE]
        /\ Start("search", state)
    BY <1>2 DEF ResetSearch
  <2>2. "search" \in StartedKinds BY DEF StartedKinds
  <2> QED BY <2>1, <2>2, LoadKeeps
<1>3. CASE RefreshPage
  <2>1. state' = [state EXCEPT !.loading = TRUE, !.filtered = state.filtered]
        /\ Start("refresh", state) /\ state.area # NoArea
    BY <1>0, <1>3 DEF RefreshPage, SearchStates
  <2>2. state.filtered \in BOOLEAN /\ "refresh" \in StartedKinds
    BY <1>0 DEF SearchStates, StartedKinds
  <2> QED BY <2>1, <2>2, LoadKeeps
<1> QED BY <1>1, <1>2, <1>3

(* Editing filters leaves everything but them.                             *)
LEMMA EditKeeps ==
    ASSUME InReach, EditFilters
    PROVE  UserSelects
<1>0. state \in SearchStates BY DEF InReach, SearchTypes
<1> DEFINE f == ~state.filtered
<1>f. f \in BOOLEAN OBVIOUS
<1>1. state' = [state EXCEPT !.filtered = f] /\ UNCHANGED calls
  BY <1>0 DEF EditFilters, SearchStates
<1> HIDE DEF f
<1>2. state' \in SearchStates BY <1>0, <1>1, <1>f DEF SearchStates
<1>3. /\ SameSelection(state, state') /\ state'.url = state.url
      /\ state'.searched = state.searched
      /\ state'.loading = state.loading /\ state'.spaces = state.spaces
      /\ state'.map = state.map /\ state'.waits = state.waits
  BY <1>0, <1>1 DEF SearchStates, SameSelection
<1>4. /\ InOrder(state') /\ UrlInOrder(state') /\ AreaRestores(state')
      /\ Restores(state) => Restores(state')
  BY <1>3, SelectionKept DEF InReach
<1> QED BY <1>1, <1>2, <1>3, <1>4 DEF UserSelects, SameSelection

(* Another area leaves the times.                                          *)
LEMMA AreaKeeps ==
    ASSUME InReach, NEW area \in Areas, ChangeArea(area)
    PROVE  UserSelects
<1> DEFINE s == [state EXCEPT !.area = area, !.loading = TRUE]
           u == Url(s)
<1>0. state \in SearchStates /\ InOrder(state) BY DEF InReach, SearchTypes
<1>1. state' = [s EXCEPT !.url = u, !.searched = FALSE] /\ Start("area", s)
  BY DEF ChangeArea
<1>2. s \in SearchStates BY <1>0 DEF SearchStates, AreaOrNone
<1>3. /\ s.enter = state.enter /\ s.leave = state.leave
      /\ s.multiDay = state.multiDay /\ s.allDay = state.allDay
      /\ s.resetEnter = state.resetEnter /\ s.resetLeave = state.resetLeave
      /\ s.auto = state.auto /\ s.daily = state.daily /\ s.hour = state.hour
      /\ s.spaces = state.spaces /\ s.map = state.map
      /\ s.waits = state.waits /\ s.loading
  BY <1>0 DEF SearchStates
<1>4. InOrder(s) BY <1>0, <1>3, OrderOf
<1>5. u \in Urls /\ u = Url(s) BY <1>2, UrlIs
<1> HIDE DEF s, u
<1>6. state' \in SearchStates BY <1>1, <1>2, <1>5 DEF SearchStates
<1>7. /\ SameSelection(s, state') /\ state'.url = Url(s) /\ state'.loading
      /\ state'.spaces = state.spaces /\ state'.map = state.map
      /\ state'.waits = state.waits
  BY <1>1, <1>2, <1>3, <1>5 DEF SearchStates, SameSelection
<1>8. InOrder(state') /\ UrlInOrder(state') /\ Restores(state')
      /\ AreaRestores(state')
  BY <1>2, <1>4, <1>7, RecordedIs
<1>9. Begins("area") BY <1>1, <1>7, StartIs DEF SameSelection
<1> QED BY <1>6, <1>7, <1>8, <1>9 DEF UserSelects, StartedKinds

(* The selection x is kept in the URL, and loaded if it is another one.    *)
LEMMA KeptInUrl ==
    ASSUME InReach, NEW x \in SearchStates, InOrder(x), NEW b \in BOOLEAN,
           NEW s, x.area = state.area, x.spaces = state.spaces,
           x.map = state.map, x.waits = state.waits,
           s.area = x.area, s.enter = x.enter, s.leave = x.leave,
           state' = [x EXCEPT !.url = Url(x), !.searched = FALSE, !.loading = b],
           state.area # NoArea,
           \/ /\ UNCHANGED calls /\ b = state.loading
              /\ x.enter = state.enter /\ x.leave = state.leave
           \/ b /\ Start("times", s)
    PROVE  UserSelects
<1> DEFINE u == Url(x)
<1>1. /\ u \in Urls /\ u = Url(x)
      /\ state' = [x EXCEPT !.url = u, !.searched = FALSE, !.loading = b]
  BY UrlIs
<1> HIDE DEF u
<1>2. state' \in SearchStates BY <1>1 DEF SearchStates
<1>3. /\ SameSelection(x, state') /\ state'.url = Url(x)
      /\ state'.loading = b /\ state'.spaces = state.spaces
      /\ state'.map = state.map /\ state'.waits = state.waits
  BY <1>1 DEF SearchStates, SameSelection
<1>4. InOrder(state') /\ UrlInOrder(state') /\ Restores(state')
      /\ AreaRestores(state')
  BY <1>3, RecordedIs
<1>5. /\ state'.area = state.area /\ state'.enter = x.enter
      /\ state'.leave = x.leave
  BY <1>3 DEF SameSelection
<1>6. CASE UNCHANGED calls /\ b = state.loading
           /\ x.enter = state.enter /\ x.leave = state.leave
  BY <1>2, <1>3, <1>4, <1>5, <1>6 DEF UserSelects
<1>7. CASE b /\ Start("times", s)
  <2>1. Begins("times") BY <1>5, <1>7, StartIs
  <2> QED BY <1>2, <1>3, <1>4, <1>5, <1>7, <2>1 DEF UserSelects, StartedKinds
<1> QED BY <1>6, <1>7

(* Ticking and unticking several days: unticked, the end returns to the    *)
(* day of the start.                                                       *)
LEMMA SeveralDaysKeep ==
    ASSUME InReach, ToggleMultiDay
    PROVE  UserSelects
<1> DEFINE day == CopyDate(state.enter, state.leave)
           l == IF day.slot < state.enter.slot THEN HoursToMax(day) ELSE day
           t == WithTimes(state, state.enter, l, {"leave"})
           s == IF state.multiDay THEN t ELSE state
           m == ~s.multiDay
           x == [s EXCEPT !.multiDay = m]
           b == state.loading \/ s # state
<1>0. /\ state \in SearchStates /\ InOrder(state) /\ state.area # NoArea
      /\ state.enter \in Moments /\ state.leave \in Moments
      /\ state.multiDay \in BOOLEAN /\ state.loading \in BOOLEAN
      /\ \A z \in Moments : z.day \in Int /\ z.slot \in Int /\ z.slot >= 0
  BY DEF InReach, SearchTypes, SearchStates, ToggleMultiDay, Moments, Slots
<1>1. /\ day \in Moments /\ day.day = state.enter.day
      /\ day.slot = state.leave.slot
  BY <1>0 DEF CopyDate, Moments
<1>a. /\ state' = [[s EXCEPT !.multiDay = ~@] EXCEPT
                      !.url = Url([s EXCEPT !.multiDay = ~@]),
                      !.searched = FALSE,
                      !.loading = @ \/ s # state]
      /\ IF s = state THEN UNCHANGED calls ELSE Start("times", s)
  BY DEF ToggleMultiDay
<1> HIDE DEF day
<1>2. /\ HoursToMax(day) \in Moments /\ HoursToMax(day).day = day.day
      /\ HoursToMax(day).slot = SlotsPerDay - 1
  BY <1>1, MomentsAre, SlotsAssumption DEF Moments
<1>3. l \in Moments /\ l.day = state.enter.day BY <1>1, <1>2
<1>4. l.slot = state.leave.slot \/ day.slot < state.enter.slot BY <1>1
<1> HIDE DEF l
<1>5. {"leave"} \in EndsMoved BY DEF EndsMoved
<1>6. /\ t \in SearchStates /\ t.area = state.area /\ t.spaces = state.spaces
      /\ t.map = state.map /\ t.waits = state.waits
      /\ t.multiDay = state.multiDay /\ t.loading = state.loading
  BY <1>0, <1>3, <1>5, WithTimesIs
<1>7. state.multiDay => t.enter.day = t.leave.day
  <2> DEFINE n == NewLeave(state, state.enter, l, {"leave"})
  <2>1. n = l BY <1>0, <1>3, <1>5, NewLeaveIs
  <2>2. NewEnter(state, state.enter, {"leave"}) = state.enter
    BY <1>0, <1>5, NewEnterIs
  <2> HIDE DEF n
  <2>3. CASE Moves(state, state.enter, l, {"leave"})
    <3>1. /\ t.enter = state.enter
          /\ t.leave = IF state.daily THEN HoursToMax(n) ELSE n
      BY <1>0, <1>3, <1>5, <2>2, <2>3, WithTimesIs DEF n
    <3>2. HoursToMax(l).day = l.day
      BY <1>3, MomentsAre, SlotsAssumption DEF Moments
    <3> HIDE DEF t
    <3> QED BY <1>3, <2>1, <3>1, <3>2
  <2>4. CASE ~Moves(state, state.enter, l, {"leave"})
    <3>1. t = state BY <1>0, <1>3, <1>5, <2>4, WithTimesIs
    <3>2. l = state.leave BY <2>4 DEF Moves
    <3> HIDE DEF t
    <3> QED BY <1>3, <3>1, <3>2
  <2> QED BY <2>3, <2>4
<1>8. state.multiDay => InOrder(t)
  <2> SUFFICES ASSUME state.multiDay PROVE InOrder(t) OBVIOUS
  <2>1. ASSUME state.allDay, WholeDay(state) PROVE l.slot = state.leave.slot
    BY <1>0, <1>1, <1>4, <2>1 DEF WholeDay
  <2>2. Asked(state, state.enter, l, {"leave"}) BY <2>1 DEF Asked
  <2> QED BY <1>0, <1>3, <1>5, <2>2, OrderKept
<1>o. /\ s = t \/ s = state
      /\ state.multiDay => s = t
      /\ ~state.multiDay => s = state
  OBVIOUS
<1> HIDE DEF t, s
<1>9. /\ s \in SearchStates /\ s.area = state.area /\ s.spaces = state.spaces
      /\ s.map = state.map /\ s.waits = state.waits
      /\ s.multiDay = state.multiDay /\ s.loading = state.loading
      /\ InOrder(s)
      /\ state.multiDay => s.enter.day = s.leave.day
  BY <1>0, <1>6, <1>7, <1>8, <1>o
<1>10. m = ~state.multiDay /\ m \in BOOLEAN BY <1>9
<1>c. x = [s EXCEPT !.multiDay = ~@] BY <1>9 DEF SearchStates
<1> HIDE DEF m
<1>11. x \in SearchStates BY <1>9, <1>10 DEF SearchStates
<1>12. /\ x.area = state.area /\ x.spaces = state.spaces
       /\ x.map = state.map /\ x.waits = state.waits /\ x.multiDay = m
       /\ x.loading = state.loading
       /\ x.enter = s.enter /\ x.leave = s.leave
       /\ x.allDay = s.allDay /\ x.resetEnter = s.resetEnter
       /\ x.resetLeave = s.resetLeave /\ x.auto = s.auto
       /\ x.daily = s.daily /\ x.hour = s.hour
  BY <1>9 DEF SearchStates
<1>b. b \in BOOLEAN OBVIOUS
<1>13. state' = [x EXCEPT !.url = Url(x), !.searched = FALSE, !.loading = b]
  <2>1. state' = [x EXCEPT !.url = Url(x), !.searched = FALSE,
                           !.loading = @ \/ s # state]
    BY <1>a, <1>c
  <2> HIDE DEF x
  <2>2. (x.loading \/ s # state) = b BY <1>12
  <2> QED BY <1>11, <2>1, <2>2 DEF SearchStates
<1> HIDE DEF x
<1>14. InOrder(x)
  BY <1>9, <1>10, <1>12 DEF InOrder, OneDay, WholeDay, Workday, SameDay
<1>15. \/ /\ UNCHANGED calls /\ b = state.loading
          /\ x.enter = state.enter /\ x.leave = state.leave
       \/ b /\ Start("times", s)
  BY <1>0, <1>a, <1>12
<1> HIDE DEF b
<1> QED BY <1>0, <1>b, <1>9, <1>11, <1>12, <1>13, <1>14, <1>15, KeptInUrl

(* What moving both ends at once makes of the times.                       *)
LEMMA BothEndsMoved ==
    ASSUME NEW s \in SearchStates, NEW e \in Moments, NEW l \in Moments
    PROVE  LET t == WithTimes(s, e, l, {"enter", "leave"}) IN
           /\ s.hour < SlotsPerDay => t.enter.day = e.day /\ t.leave.day = l.day
           /\ ~s.daily /\ SameDay(e, s.enter) => t.enter = e
           /\ ~s.daily => t.leave = l
           /\ t.auto /\ ~s.daily /\ SameDay(e, s.enter)
                 => s.auto /\ SameTime(e, s.enter) /\ SameTime(l, s.leave)
<1> DEFINE moved == {"enter", "leave"}
           t == WithTimes(s, e, l, moved)
           n == NewLeave(s, e, l, moved)
           x == NewEnter(s, e, moved)
<1>0. s.enter \in Moments /\ s.leave \in Moments /\ moved \in EndsMoved
  BY DEF SearchStates, EndsMoved
<1>1. n = l BY <1>0, NewLeaveIs
<1>2. /\ x \in Moments
      /\ s.hour < SlotsPerDay => x.day = e.day
      /\ ~s.daily => x = e \/ OnlyDayMoved(s, e, moved)
  BY <1>0, NewEnterIs
<1>3. HoursToMax(l).day = l.day BY MomentsAre, SlotsAssumption DEF Moments
<1>4. ~Moves(s, e, l, moved) => t = s /\ e = s.enter /\ l = s.leave
  BY <1>0, WithTimesIs DEF Moves
<1>5. Moves(s, e, l, moved) =>
        /\ t.enter = x /\ t.leave = IF s.daily THEN HoursToMax(n) ELSE n
        /\ t.auto => s.auto /\ StaysAuto(s, e, n, moved)
  BY <1>0, WithTimesIs
<1> HIDE DEF t, n, x
<1>6. SameDay(e, s.enter) => ~OnlyDayMoved(s, e, moved)
  BY DEF OnlyDayMoved
<1>7. "enter" \in moved OBVIOUS
<1>8. StaysAuto(s, e, n, moved) /\ ~s.daily /\ SameDay(e, s.enter)
        => SameTime(e, s.enter) /\ SameTime(n, s.leave)
  BY <1>6, <1>7 DEF StaysAuto
<1> HIDE DEF moved
<1>9. CASE ~Moves(s, e, l, moved)
  <2>1. SameTime(e, s.enter) /\ SameTime(l, s.leave)
    BY <1>4, <1>9 DEF SameTime
  <2> QED BY <1>4, <1>9, <2>1 DEF t, moved
<1>10. CASE Moves(s, e, l, moved)
  BY <1>1, <1>2, <1>3, <1>5, <1>6, <1>8, <1>10 DEF t, moved
<1> QED BY <1>9, <1>10

(* Ticking all day takes the times from 0:00 to 23:59, and the page stops  *)
(* following the working day, unless that is the working day; unticking    *)
(* returns to what was selected at first.                                  *)
LEMMA AllDayKeeps ==
    ASSUME InReach, ToggleAllDay
    PROVE  UserSelects
<1> DEFINE moved == {"enter", "leave"}
           r == [state EXCEPT !.resetEnter = state.enter,
                              !.resetLeave = state.leave]
           off == WithTimes(state, state.resetEnter, state.resetLeave, moved)
           on == WithTimes(r, HoursToMin(state.enter), HoursToMax(state.leave),
                           moved)
           s == IF state.allDay THEN off ELSE on
           m == ~s.allDay
           x == [s EXCEPT !.allDay = m]
           b == state.loading
                  \/ (s.enter # state.enter \/ s.leave # state.leave)
<1>0. /\ state \in SearchStates /\ InOrder(state) /\ state.area # NoArea
      /\ state.enter \in Moments /\ state.leave \in Moments
      /\ state.resetEnter \in Moments /\ state.resetLeave \in Moments
      /\ state.allDay \in BOOLEAN /\ state.loading \in BOOLEAN
      /\ moved \in EndsMoved /\ ~state.daily
  BY DEF InReach, SearchTypes, SearchStates, ToggleAllDay, EndsMoved
<1>a. /\ state' = [[s EXCEPT !.allDay = ~@] EXCEPT
                      !.url = Url([s EXCEPT !.allDay = ~@]),
                      !.searched = FALSE,
                      !.loading = @ \/ (s.enter # state.enter
                                        \/ s.leave # state.leave)]
      /\ IF s.enter # state.enter \/ s.leave # state.leave
         THEN Start("times", s) ELSE UNCHANGED calls
  BY DEF ToggleAllDay
<1>1. /\ r \in SearchStates
      /\ r.enter = state.enter /\ r.leave = state.leave /\ r.area = state.area
      /\ r.spaces = state.spaces /\ r.map = state.map /\ r.waits = state.waits
      /\ r.loading = state.loading /\ r.allDay = state.allDay
      /\ r.multiDay = state.multiDay /\ r.auto = state.auto /\ ~r.daily
      /\ r.hour = state.hour
      /\ r.resetEnter = state.enter /\ r.resetLeave = state.leave
  BY <1>0 DEF SearchStates
<1> HIDE DEF r
<1>2. /\ HoursToMin(state.enter) \in Moments
      /\ HoursToMin(state.enter).day = state.enter.day
      /\ HoursToMin(state.enter).slot = 0
      /\ HoursToMax(state.leave) \in Moments
      /\ HoursToMax(state.leave).day = state.leave.day
      /\ HoursToMax(state.leave).slot = SlotsPerDay - 1
  BY <1>0, MomentsAre, SlotsAssumption DEF Moments, Slots
<1>3. /\ off \in SearchStates /\ off.area = state.area
      /\ off.spaces = state.spaces
      /\ off.map = state.map /\ off.waits = state.waits
      /\ off.loading = state.loading /\ off.allDay = state.allDay
      /\ off.multiDay = state.multiDay /\ off.hour = state.hour
      /\ ~off.daily
      /\ off.resetEnter = state.resetEnter
      /\ off.resetLeave = state.resetLeave
      /\ off.auto => state.auto
  <2>1. /\ off \in SearchStates /\ off.area = state.area
        /\ off.spaces = state.spaces
        /\ off.map = state.map /\ off.waits = state.waits
        /\ off.loading = state.loading /\ off.allDay = state.allDay
        /\ off.multiDay = state.multiDay /\ off.hour = state.hour
        /\ off.daily = state.daily
        /\ off.resetEnter = state.resetEnter
        /\ off.resetLeave = state.resetLeave
    BY <1>0, WithTimesIs, SMTT(30)
  <2>2. off.auto => state.auto BY <1>0, WithTimesIs
  <2> HIDE DEF off
  <2> QED BY <1>0, <2>1, <2>2
<1>4. state.hour < SlotsPerDay => /\ off.enter.day = state.resetEnter.day
                                  /\ off.leave.day = state.resetLeave.day
  BY <1>0, BothEndsMoved
<1>5. /\ on \in SearchStates /\ on.area = state.area
      /\ on.spaces = state.spaces
      /\ on.map = state.map /\ on.waits = state.waits
      /\ on.loading = state.loading /\ on.allDay = state.allDay
      /\ on.multiDay = state.multiDay /\ on.hour = state.hour
      /\ ~on.daily
      /\ on.resetEnter = state.enter /\ on.resetLeave = state.leave
  <2>1. /\ on \in SearchStates /\ on.area = r.area /\ on.spaces = r.spaces
        /\ on.map = r.map /\ on.waits = r.waits
        /\ on.loading = r.loading /\ on.allDay = r.allDay
        /\ on.multiDay = r.multiDay /\ on.hour = r.hour
        /\ on.daily = r.daily
        /\ on.resetEnter = r.resetEnter /\ on.resetLeave = r.resetLeave
    BY <1>0, <1>1, <1>2, WithTimesIs
  <2> HIDE DEF on
  <2> QED BY <1>1, <2>1
<1>6. /\ on.enter = HoursToMin(state.enter)
      /\ on.leave = HoursToMax(state.leave)
      /\ on.auto => /\ state.auto
                    /\ SameTime(HoursToMin(state.enter), state.enter)
                    /\ SameTime(HoursToMax(state.leave), state.leave)
  <2>1. SameDay(HoursToMin(state.enter), r.enter) BY <1>1, <1>2 DEF SameDay
  <2>2. /\ on.enter = HoursToMin(state.enter)
        /\ on.leave = HoursToMax(state.leave)
        /\ on.auto => /\ r.auto
                      /\ SameTime(HoursToMin(state.enter), r.enter)
                      /\ SameTime(HoursToMax(state.leave), r.leave)
    BY <1>1, <1>2, <2>1, BothEndsMoved
  <2> HIDE DEF on
  <2> QED BY <1>1, <2>2
<1> HIDE DEF off, on
<1>7. /\ s \in SearchStates /\ s.area = state.area /\ s.spaces = state.spaces
      /\ s.map = state.map /\ s.waits = state.waits
      /\ s.allDay = state.allDay /\ s.loading = state.loading
      /\ s.multiDay = state.multiDay /\ s.hour = state.hour /\ ~s.daily
  BY <1>3, <1>5
<1>8. /\ state.allDay => s = off
      /\ ~state.allDay => s = on
  OBVIOUS
<1> HIDE DEF s
<1>9. m = ~state.allDay /\ m \in BOOLEAN BY <1>7
<1>c. x = [s EXCEPT !.allDay = ~@] BY <1>7 DEF SearchStates
<1> HIDE DEF m
<1>11. x \in SearchStates BY <1>7, <1>9 DEF SearchStates
<1>12. /\ x.area = state.area /\ x.spaces = state.spaces
       /\ x.map = state.map /\ x.waits = state.waits /\ x.allDay = m
       /\ x.loading = state.loading
       /\ x.enter = s.enter /\ x.leave = s.leave
       /\ x.multiDay = state.multiDay /\ x.resetEnter = s.resetEnter
       /\ x.resetLeave = s.resetLeave /\ x.auto = s.auto
       /\ ~x.daily /\ x.hour = state.hour
  BY <1>7 DEF SearchStates
<1>b. b \in BOOLEAN OBVIOUS
<1>13. state' = [x EXCEPT !.url = Url(x), !.searched = FALSE, !.loading = b]
  <2>1. state' = [x EXCEPT !.url = Url(x), !.searched = FALSE,
                           !.loading = @ \/ (s.enter # state.enter
                                             \/ s.leave # state.leave)]
    BY <1>a, <1>c
  <2> HIDE DEF x
  <2>2. (x.loading \/ (s.enter # state.enter \/ s.leave # state.leave)) = b
    BY <1>12
  <2> QED BY <1>11, <2>1, <2>2 DEF SearchStates
<1> HIDE DEF x
<1>14. InOrder(x)
  <2> SUFFICES ASSUME state.hour < SlotsPerDay
               PROVE  /\ OneDay(x)
                      /\ ~RoundTheClock => WholeDay(x) /\ Workday(x)
    BY <1>12 DEF InOrder
  <2>1. ~RoundTheClock => WholeDay(state) /\ Workday(state)
    BY <1>0 DEF InOrder
  <2>2. CASE state.allDay
    <3>1. OneDay(x) BY <1>3, <1>4, <1>8, <1>12, <2>2 DEF OneDay, SameDay
    <3>2. ~x.allDay BY <1>9, <1>12, <2>2
    <3>3. ~RoundTheClock => ~x.auto
      BY <1>3, <1>8, <1>12, <2>1, <2>2 DEF WholeDay
    <3> QED BY <3>1, <3>2, <3>3 DEF WholeDay, Workday
  <2>3. CASE ~state.allDay
    <3>1. x.enter = HoursToMin(state.enter) /\ x.leave = HoursToMax(state.leave)
          /\ x.resetEnter = state.enter /\ x.resetLeave = state.leave
      BY <1>5, <1>6, <1>8, <1>12, <2>3
    <3>2. OneDay(x) BY <1>2, <3>1 DEF OneDay, SameDay
    <3>3. ~RoundTheClock => ~x.auto
      <4> SUFFICES ASSUME ~RoundTheClock, x.auto PROVE FALSE OBVIOUS
      <4>1. state.auto /\ state.enter.slot = 0
            /\ state.leave.slot = SlotsPerDay - 1
        BY <1>2, <1>6, <1>8, <1>12, <2>3 DEF SameTime
      <4>2. WorkStart = 0 /\ state.leave.slot = WorkEnd
        BY <1>0, <2>1, <4>1 DEF Workday
      <4> QED BY <4>1, <4>2 DEF RoundTheClock
    <3>4. x.enter.slot = 0 /\ x.leave.slot = SlotsPerDay - 1
      BY <1>2, <3>1
    <3> QED BY <1>12, <3>2, <3>3, <3>4 DEF WholeDay, Workday
  <2> QED BY <2>2, <2>3
<1>15. \/ /\ UNCHANGED calls /\ b = state.loading
          /\ x.enter = state.enter /\ x.leave = state.leave
       \/ b /\ Start("times", s)
  BY <1>0, <1>a, <1>12
<1> HIDE DEF b
<1> QED BY <1>0, <1>b, <1>7, <1>11, <1>12, <1>13, <1>14, <1>15, KeptInUrl

(* Every step of the user, then.                                           *)
LEMMA UserKeeps ==
    ASSUME InReach, SearchUser
    PROVE  UserSelects
BY PickDateKeeps, PickTimeKeeps, StepDayKeeps, SeveralDaysKeep, AllDayKeeps,
   AreaKeeps, EditKeeps, SearchKeeps DEF SearchUser

(* The bounds of a day are kept.                                           *)
LEMMA AlreadyThere ==
    ASSUME NEW t \in Moments
    PROVE  /\ t.slot = 0 => HoursToMin(t) = t
           /\ t.slot = SlotsPerDay - 1 => HoursToMax(t) = t
BY DEF HoursToMin, HoursToMax, Moments

(* What a page that is opened makes of its URL.                            *)
LEMMA InitialIs ==
    ASSUME NEW s \in SearchStates, UrlInOrder(s)
    PROVE  LET t == InitialTimes(s, s.url) IN
           /\ t \in SearchStates /\ t.area = s.area /\ t.spaces = s.spaces
           /\ t.map = s.map /\ t.url = s.url /\ t.waits = s.waits
           /\ t.loading = s.loading /\ t.searched = s.searched
           /\ InOrder(t) /\ UrlInOrder(t) /\ Restores(t)
<1> DEFINE u == s.url
           t == InitialTimes(s, u)
           a == u.allDay /\ ~s.daily
           e == IF a THEN HoursToMin(u.enter) ELSE u.enter
           l == IF a THEN HoursToMax(u.leave) ELSE u.leave
           z == IF u.multiDay \/ SameDay(e, l) THEN l ELSE HoursToMax(e)
           m == u.multiDay
           r == [s EXCEPT !.enter = e, !.leave = z]
           q == [r EXCEPT !.allDay = a, !.multiDay = m]
<1>1. /\ u \in Urls /\ u.enter \in Moments /\ u.leave \in Moments
      /\ u.allDay \in BOOLEAN /\ m \in BOOLEAN /\ s.daily \in BOOLEAN
      /\ SlotsPerDay \in Int /\ 0 \in Slots
  BY SlotsAssumption DEF SearchStates, Urls, Slots
<1>t. t = q BY DEF InitialTimes, SearchStates
<1>2. /\ HoursToMin(u.enter) \in Moments
      /\ HoursToMin(u.enter).slot = 0
      /\ HoursToMax(u.leave) \in Moments
      /\ HoursToMax(u.leave).slot = SlotsPerDay - 1
      /\ u.enter.slot = 0 => HoursToMin(u.enter) = u.enter
      /\ u.leave.slot = SlotsPerDay - 1 => HoursToMax(u.leave) = u.leave
  BY <1>1, MomentsAre, AlreadyThere
<1> HIDE DEF u, m
<1>a. a \in BOOLEAN BY <1>1
<1>3. /\ e \in Moments /\ l \in Moments
      /\ a => e.slot = 0 /\ l.slot = SlotsPerDay - 1
      /\ ~a => e = u.enter /\ l = u.leave
      /\ a /\ u.enter.slot = 0 => e = u.enter
      /\ a /\ u.leave.slot = SlotsPerDay - 1 => l = u.leave
  BY <1>1, <1>2
<1>ad. a <=> (u.allDay /\ ~s.daily) OBVIOUS
<1> HIDE DEF e, l, a
<1>4. /\ HoursToMax(e) \in Moments /\ HoursToMax(e).day = e.day
      /\ HoursToMax(e).slot = SlotsPerDay - 1
  BY <1>1, <1>3, MomentsAre
<1>5. /\ z \in Moments
      /\ m \/ SameDay(e, l) => z = l
      /\ ~m /\ ~SameDay(e, l) => z = HoursToMax(e)
      /\ ~m => z.day = e.day
      /\ a => z.slot = SlotsPerDay - 1
  BY <1>3, <1>4 DEF SameDay, m
<1> HIDE DEF z
<1>6. r \in SearchStates BY <1>3, <1>5 DEF SearchStates
<1>7. /\ r.area = s.area /\ r.spaces = s.spaces
      /\ r.map = s.map /\ r.url = s.url /\ r.waits = s.waits
      /\ r.searched = s.searched
      /\ r.loading = s.loading /\ r.enter = e /\ r.leave = z
      /\ r.auto = s.auto /\ r.daily = s.daily /\ r.hour = s.hour
  BY DEF SearchStates
<1> HIDE DEF r
<1>8. q \in SearchStates BY <1>1, <1>6, <1>a DEF SearchStates
<1>9. /\ q.area = s.area /\ q.spaces = s.spaces
      /\ q.map = s.map /\ q.url = s.url /\ q.waits = s.waits
      /\ q.searched = s.searched
      /\ q.loading = s.loading /\ q.enter = e /\ q.leave = z
      /\ q.auto = s.auto /\ q.daily = s.daily /\ q.hour = s.hour
      /\ q.allDay = a /\ q.multiDay = m
  BY <1>6, <1>7 DEF SearchStates
<1> HIDE DEF q
<1>10. UrlInOrder(q) BY <1>9 DEF UrlInOrder
<1>11. OneDay(q) BY <1>5, <1>9 DEF OneDay, SameDay
<1>12. ASSUME s.hour < SlotsPerDay, ~RoundTheClock
       PROVE  /\ u.allDay => /\ ~s.daily /\ ~s.auto
                             /\ u.enter.slot = 0
                             /\ u.leave.slot = SlotsPerDay - 1
              /\ s.auto /\ ~s.daily =>
                    /\ u.enter.slot = 0 => WorkStart = 0
                    /\ u.leave.slot = WorkEnd
                    /\ ~m => SameDay(u.enter, u.leave)
  BY <1>12 DEF UrlInOrder, u, m
<1>13. ASSUME s.hour < SlotsPerDay, ~RoundTheClock
       PROVE  WholeDay(q) /\ Workday(q)
  <2>1. WholeDay(q) BY <1>3, <1>5, <1>9, <1>12, <1>13, <1>ad DEF WholeDay
  <2>2. Workday(q)
    <3> SUFFICES ASSUME s.auto, ~s.daily
                 PROVE  /\ e.slot = 0 => WorkStart = 0
                        /\ z.slot = WorkEnd
                        /\ ~m => SameDay(e, z)
      BY <1>9 DEF Workday
    <3>1. ~a BY <1>12, <1>13, <1>ad
    <3>2. e = u.enter /\ l = u.leave BY <1>3, <3>1
    <3>3. z = l BY <1>5, <1>12, <1>13, <3>2
    <3> QED BY <1>12, <1>13, <3>2, <3>3
  <2> QED BY <2>1, <2>2
<1>14. Restores(q)
  <2> SUFFICES ASSUME s.hour < SlotsPerDay, ~RoundTheClock
               PROVE  /\ u.enter = e /\ u.allDay = a
                      /\ z = IF m \/ SameDay(u.enter, u.leave)
                             THEN u.leave ELSE HoursToMax(u.enter)
    BY <1>9 DEF Restores, u, m
  <2>1. u.allDay = a BY <1>1, <1>a, <1>12, <1>ad
  <2>2. e = u.enter /\ l = u.leave BY <1>3, <1>12, <1>ad
  <2> QED BY <1>5, <2>1, <2>2
<1>15. InOrder(q) BY <1>9, <1>11, <1>13 DEF InOrder
<1> QED BY <1>8, <1>9, <1>10, <1>14, <1>15, <1>t DEF u

(* The area that the page prefers is one, or none.                         *)
LEMMA AreasAre ==
    ASSUME NEW found \in SUBSET Areas, NEW wanted,
           NEW area \in PreferredAreas(found, wanted)
    PROVE  area \in AreaOrNone
BY AreasAssumption DEF PreferredAreas, AreaOrNone

(* That of the whole organisation is the one asked for, if there is one.   *)
LEMMA AreaPreferred ==
    ASSUME NEW wanted \in AreaOrNone, NEW area
    PROVE  area \in PreferredAreas(Areas, wanted) <=>
              \/ wanted # NoArea /\ area = wanted
              \/ wanted = NoArea /\ area = PrefArea
BY AreasAssumption DEF PreferredAreas, AreaOrNone

(* What an answer makes of the page: the first one the selection of its    *)
(* URL, the others only what is shown.                                     *)
LEMMA ArrivedIs ==
    ASSUME NEW call \in ChainRecords, call.todo \in Begun,
           NEW s \in SearchStates, InOrder(s), UrlInOrder(s),
           NEW found \in SUBSET Areas, NEW area \in AreaOrNone,
           AreaRestores(s),
           Head(call.todo) = "items"
              => area \in PreferredAreas(Areas, s.url.area)
    PROVE  LET t == Arrived(call, s, found, area) IN
           /\ t \in SearchStates /\ t.waits = s.waits /\ t.loading = s.loading
           /\ InOrder(t) /\ UrlInOrder(t) /\ AreaRestores(t)
           /\ Head(call.todo) = "items" => Restores(t)
           /\ Restores(s) => Restores(t)
           /\ Head(call.todo) # "items"
                => t.enter = s.enter /\ t.leave = s.leave
           /\ Head(call.todo) \notin {"items", "search"} => t.area = s.area
           /\ Head(call.todo) = "spaces"
                => t.spaces = [area |-> call.area, enter |-> call.enter,
                               leave |-> call.leave]
           /\ Head(call.todo) # "spaces" => t.spaces = s.spaces
           /\ Head(call.todo) = "map" => t.map = call.area
           /\ Head(call.todo) # "map" => t.map = s.map
<1> DEFINE t == Arrived(call, s, found, area)
           h == Head(call.todo)
           i == InitialTimes(s, s.url)
           x == [area |-> call.area, enter |-> call.enter, leave |-> call.leave]
           b == IF i.area = NoArea THEN area ELSE i.area
           g == s.searched \/ area # s.area
<1>1. h \in Steps BY TodoIs
<1>2. /\ call.area \in AreaOrNone /\ call.enter \in Moments
      /\ call.leave \in Moments
  BY DEF ChainRecords
<1>3. x \in ShownSpaces BY <1>2 DEF ShownSpaces
<1>4. /\ h = "items" => t = [i EXCEPT !.areas = found, !.area = b]
      /\ h = "search" => t = [s EXCEPT !.areas = found, !.area = area,
                                        !.searched = g]
      /\ h = "spaces" => t = [s EXCEPT !.spaces = x]
      /\ h = "map" => t = [s EXCEPT !.map = call.area]
      /\ h \in {"attributes", "location"} => t = s
  <2>1. i \in SearchStates BY InitialIs
  <2> HIDE DEF i
  <2> QED BY <2>1 DEF Arrived, SearchStates, i
<1> HIDE DEF h, x, t
<1>5. CASE h = "items"
  <2>1. /\ i \in SearchStates /\ i.waits = s.waits /\ i.loading = s.loading
        /\ i.spaces = s.spaces /\ i.map = s.map /\ i.area = s.area
        /\ i.url = s.url /\ i.searched = s.searched
        /\ InOrder(i) /\ UrlInOrder(i) /\ Restores(i)
    BY InitialIs
  <2> HIDE DEF i
  <2>2. b \in AreaOrNone BY <2>1 DEF SearchStates
  <2>a. \/ s.area # NoArea /\ b = s.area
        \/ s.area = NoArea /\ b = area
    BY <2>1
  <2>b. /\ s.url.area \in AreaOrNone
        /\ area \in PreferredAreas(Areas, s.url.area)
    BY <1>5 DEF SearchStates, Urls, h
  <2>c. \/ area = s.url.area
        \/ s.url.area = NoArea /\ area = PrefArea
    BY <2>b, AreaPreferred
  <2> HIDE DEF b
  <2>3. t \in SearchStates
    BY <1>4, <1>5, <2>1, <2>2, ZenonT(40) DEF SearchStates
  <2>4. /\ t.waits = i.waits /\ t.loading = i.loading /\ t.spaces = i.spaces
        /\ t.map = i.map
        /\ t.enter = i.enter /\ t.leave = i.leave
        /\ t.multiDay = i.multiDay
        /\ t.allDay = i.allDay /\ t.resetEnter = i.resetEnter
        /\ t.resetLeave = i.resetLeave /\ t.auto = i.auto
        /\ t.daily = i.daily /\ t.hour = i.hour /\ t.url = i.url
        /\ t.area = b /\ t.searched = i.searched
    BY <1>4, <1>5, <2>1 DEF SearchStates
  <2>5. InOrder(t) /\ UrlInOrder(t) /\ Restores(t) BY <2>1, <2>4, TimesKept
  <2>6. AreaRestores(t) BY <2>1, <2>4, <2>a, <2>c DEF AreaRestores
  <2> QED BY <1>5, <2>1, <2>3, <2>4, <2>5, <2>6 DEF t, h
<1>6. CASE h # "items"
  <2>g. /\ g \in BOOLEAN
        /\ ~g => ~s.searched /\ area = s.area
    BY DEF SearchStates
  <2> HIDE DEF i, b, g
  <2>1. t \in SearchStates
    BY <2>g, <1>1, <1>2, <1>3, <1>4, <1>6, ZenonT(40) DEF Steps, SearchStates
  <2>2. /\ t.waits = s.waits /\ t.loading = s.loading
        /\ t.enter = s.enter /\ t.leave = s.leave
        /\ t.multiDay = s.multiDay
        /\ t.allDay = s.allDay /\ t.resetEnter = s.resetEnter
        /\ t.resetLeave = s.resetLeave /\ t.auto = s.auto
        /\ t.daily = s.daily /\ t.hour = s.hour /\ t.url = s.url
        /\ h # "search" => t.area = s.area /\ t.searched = s.searched
        /\ h = "search" => t.area = area /\ t.searched = g
        /\ h = "spaces" => t.spaces = x
        /\ h # "spaces" => t.spaces = s.spaces
        /\ h = "map" => t.map = call.area
        /\ h # "map" => t.map = s.map
    BY <1>1, <1>2, <1>3, <1>4, <1>6 DEF Steps, SearchStates
  <2>3. /\ InOrder(t) /\ UrlInOrder(t)
        /\ Restores(s) => Restores(t)
    BY <2>2, TimesKept
  <2>4. AreaRestores(t)
    <3>1. CASE h = "search" BY <2>2, <2>g, <3>1 DEF AreaRestores
    <3>2. CASE h # "search" BY <2>2, <3>2 DEF AreaRestores
    <3> QED BY <3>1, <3>2
  <2> QED BY <1>6, <2>1, <2>2, <2>3, <2>4 DEF t, h, x
<1> QED BY <1>5, <1>6

(* What the next call of a chain asks for.                                 *)
LEMMA NextIs ==
    ASSUME NEW call \in ChainRecords, call.todo \in Begun,
           Len(call.todo) # 1, NEW s \in SearchStates
    PROVE  LET n == Next1(call, s)
               h == Head(Tail(call.todo)) IN
           /\ n \in ChainRecords /\ n.kind = call.kind
           /\ n.todo = Tail(call.todo)
           /\ h = "location" =>
                 n.area = IF call.kind \in {"mount", "search"} THEN s.area
                          ELSE call.area
           /\ h = "spaces" => /\ n.area = call.area /\ n.enter = s.enter
                              /\ n.leave = s.leave
           /\ h \notin {"location", "spaces"} => n.area = call.area
<1> DEFINE n == Next1(call, s)
           todo == Tail(call.todo)
           h == Head(todo)
           a == IF call.kind \in {"mount", "search"} THEN s.area ELSE call.area
<1>1. todo \in Todos BY TodoIs DEF Begun, Todos
<1>2. /\ a \in AreaOrNone /\ s.enter \in Moments /\ s.leave \in Moments
      /\ call.kind \in ChainKinds /\ call.area \in AreaOrNone
  BY DEF ChainRecords, SearchStates
<1>3. /\ h = "location" => n = [call EXCEPT !.todo = todo, !.area = a]
      /\ h = "spaces" => n = [call EXCEPT !.todo = todo, !.enter = s.enter,
                                          !.leave = s.leave]
      /\ h \notin {"location", "spaces"} => n = [call EXCEPT !.todo = todo]
  BY DEF Next1, ChainRecords
<1> HIDE DEF n, todo, h, a
<1>4. CASE h = "location"
  <2>1. /\ n \in ChainRecords /\ n.kind = call.kind /\ n.todo = todo
        /\ n.area = a
    BY <1>1, <1>2, <1>3, <1>4 DEF ChainRecords
  <2> QED BY <1>4, <2>1 DEF n, todo, h, a
<1>5. CASE h = "spaces"
  <2>1. /\ n \in ChainRecords /\ n.kind = call.kind /\ n.todo = todo
        /\ n.area = call.area /\ n.enter = s.enter /\ n.leave = s.leave
    BY <1>1, <1>2, <1>3, <1>5 DEF ChainRecords
  <2> QED BY <1>5, <2>1 DEF n, todo, h, a
<1>6. CASE h \notin {"location", "spaces"}
  <2>1. /\ n \in ChainRecords /\ n.kind = call.kind /\ n.todo = todo
        /\ n.area = call.area
    BY <1>1, <1>2, <1>3, <1>6 DEF ChainRecords
  <2> QED BY <1>6, <2>1 DEF n, todo, h, a
<1> QED BY <1>4, <1>5, <1>6

(* A chain that ended has nothing to do.                                   *)
LEMMA NoChainIs ==
    NoChain \in ChainRecords /\ NoChain.todo = <<>>
BY TodayIs DEF NoChain, ChainRecords, ChainKinds, Todos, AreaOrNone

(* The answer to the first call of chain c, taken apart.                   *)
SearchAnswered(c, found, area) ==
    LET s == Arrived(calls[c], state, found, area) IN
    /\ Head(calls[c].todo) = "items"
          => area \in PreferredAreas(Areas, state.url.area)
    /\ \/ /\ SpinnerStops(calls[c], state, s)
          /\ calls' = [calls EXCEPT ![c] = NoChain]
          /\ state' = [s EXCEPT
               !.loading = StillLoading(calls[c], s),
               !.url = IF calls[c].kind = "mount" THEN Url(s) ELSE @,
               !.searched = @ /\ calls[c].kind # "mount"]
       \/ /\ ~SpinnerStops(calls[c], state, s)
          /\ calls' = [calls EXCEPT ![c] = Next1(calls[c], s)]
          /\ state' = [s EXCEPT
               !.loading = @ \/ calls'[c].todo[1] \in {"location", "spaces"}]

LEMMA AnswerIs ==
    ASSUME SearchTypes, NEW c \in Chains, Answer(c)
    PROVE  /\ calls[c] \in ChainRecords /\ calls[c].todo \in Begun
           /\ \E found \in SUBSET Areas : \E area \in AreaOrNone :
                 SearchAnswered(c, found, area)
<1>1. calls[c] \in ChainRecords /\ calls[c].todo # <<>>
  BY DEF SearchTypes, Answer
<1>2. calls[c].todo \in Begun BY <1>1 DEF ChainRecords, Todos
<1>3. PICK found \in IF Head(calls[c].todo) = "search" /\ state.filtered
                     THEN SUBSET Areas ELSE {Areas} :
         \E area \in PreferredAreas(found, IF Head(calls[c].todo) = "items"
                                           THEN state.url.area ELSE state.area) :
           LET s == Arrived(calls[c], state, found, area) IN
           IF SpinnerStops(calls[c], state, s)
           THEN /\ calls' = [calls EXCEPT ![c] = NoChain]
                /\ state' = [s EXCEPT
                     !.loading = StillLoading(calls[c], s),
                     !.url = IF calls[c].kind = "mount" THEN Url(s) ELSE @,
                     !.searched = @ /\ calls[c].kind # "mount"]
           ELSE /\ calls' = [calls EXCEPT ![c] = Next1(calls[c], s)]
                /\ state' = [s EXCEPT
                     !.loading = @ \/ calls'[c].todo[1] \in {"location", "spaces"}]
  BY DEF Answer
<1>4. PICK area \in PreferredAreas(found, IF Head(calls[c].todo) = "items"
                                   THEN state.url.area ELSE state.area) :
           LET s == Arrived(calls[c], state, found, area) IN
           IF SpinnerStops(calls[c], state, s)
           THEN /\ calls' = [calls EXCEPT ![c] = NoChain]
                /\ state' = [s EXCEPT
                     !.loading = StillLoading(calls[c], s),
                     !.url = IF calls[c].kind = "mount" THEN Url(s) ELSE @,
                     !.searched = @ /\ calls[c].kind # "mount"]
           ELSE /\ calls' = [calls EXCEPT ![c] = Next1(calls[c], s)]
                /\ state' = [s EXCEPT
                     !.loading = @ \/ calls'[c].todo[1] \in {"location", "spaces"}]
  BY <1>3
<1>5. found \in SUBSET Areas /\ area \in AreaOrNone BY AreasAre
<1>6. Head(calls[c].todo) = "items"
        => area \in PreferredAreas(Areas, state.url.area)
  OBVIOUS
<1>7. SearchAnswered(c, found, area) BY <1>4, <1>6 DEF SearchAnswered
<1> QED BY <1>1, <1>2, <1>5, <1>7

(* Once the page is mounted, its URL restores the selection.               *)
WhileMounted == Mounted => Restores(state)

(* Every answer keeps this.                                                *)
LEMMA AnswerKeeps ==
    ASSUME InReach, NEW c \in Chains, Answer(c)
    PROVE  InReach' /\ (WhileMounted => WhileMounted')
<1>0. /\ SearchTypes /\ state \in SearchStates /\ InOrder(state)
      /\ UrlInOrder(state) /\ AreaRestores(state)
  BY DEF InReach, SearchTypes
<1>1. /\ calls[c] \in ChainRecords /\ calls[c].todo \in Begun
      /\ calls \in [Chains -> ChainRecords]
  BY <1>0, AnswerIs DEF SearchTypes
<1>2. PICK found \in SUBSET Areas :
         \E area \in AreaOrNone : SearchAnswered(c, found, area)
  BY <1>0, AnswerIs
<1>3. PICK area \in AreaOrNone : SearchAnswered(c, found, area)
  BY <1>2
<1> DEFINE s == Arrived(calls[c], state, found, area)
           b == StillLoading(calls[c], s)
           d == s.loading \/ calls'[c].todo[1] \in {"location", "spaces"}
           u == IF calls[c].kind = "mount" THEN Url(s) ELSE s.url
           v == s.searched /\ calls[c].kind # "mount"
           n == Next1(calls[c], s)
           k == [s EXCEPT !.loading = b]
<1>4. /\ s \in SearchStates /\ InOrder(s) /\ UrlInOrder(s)
      /\ AreaRestores(s)
      /\ Head(calls[c].todo) = "items" => Restores(s)
      /\ Restores(state) => Restores(s)
  <2>1. Head(calls[c].todo) = "items"
          => area \in PreferredAreas(Areas, state.url.area)
    BY <1>3 DEF SearchAnswered
  <2> QED BY <1>0, <1>1, <2>1, ArrivedIs
<1>5. \/ /\ calls' = [calls EXCEPT ![c] = NoChain]
         /\ state' = [s EXCEPT !.loading = b, !.url = u, !.searched = v]
      \/ /\ Len(calls[c].todo) # 1 /\ calls' = [calls EXCEPT ![c] = n]
         /\ state' = [s EXCEPT !.loading = d]
  BY <1>3, <1>4 DEF SearchAnswered, SpinnerStops, SearchStates
<1> HIDE DEF s
<1>6. /\ u \in Urls /\ Url(s) \in Urls
      /\ b \in BOOLEAN /\ d \in BOOLEAN /\ v \in BOOLEAN
  BY <1>4, UrlIs DEF StillLoading, SearchStates
<1>7. calls[c].kind = "mount" => u = Url(s)
  OBVIOUS
<1>8. calls[c].kind # "mount" => u = s.url /\ v = s.searched
  BY <1>4 DEF SearchStates
<1> HIDE DEF u, b, d, v, n
<1>9. \E x \in ChainRecords :
         /\ calls' = [calls EXCEPT ![c] = x]
         /\ x.todo = <<>> \/ Head(x.todo) # "items"
  <2>1. CASE calls' = [calls EXCEPT ![c] = NoChain] BY <2>1, NoChainIs
  <2>2. CASE Len(calls[c].todo) # 1 /\ calls' = [calls EXCEPT ![c] = n]
    <3>1. n \in ChainRecords /\ n.todo = Tail(calls[c].todo)
      BY <1>1, <1>4, <2>2, NextIs DEF n
    <3>2. Head(Tail(calls[c].todo)) # "items" BY <1>1, <2>2, TodoIs
    <3> QED BY <2>2, <3>1, <3>2
  <2> QED BY <1>5, <2>1, <2>2
<1>10. calls' \in [Chains -> ChainRecords] BY <1>1, <1>9
<1>11. ASSUME Mounted', Head(calls[c].todo) # "items" PROVE Mounted
  BY <1>1, <1>9, <1>11 DEF Mounted
<1>12. WhileMounted /\ Mounted' => Restores(s)
  BY <1>4, <1>11 DEF WhileMounted
<1>13. CASE state' = [s EXCEPT !.loading = d]
  <2>1. state' \in SearchStates BY <1>4, <1>6, <1>13 DEF SearchStates
  <2>2. /\ SameSelection(s, state') /\ state'.url = s.url
        /\ state'.searched = s.searched
    BY <1>4, <1>13 DEF SearchStates, SameSelection
  <2>3. /\ InOrder(state') /\ UrlInOrder(state') /\ AreaRestores(state')
        /\ Restores(s) => Restores(state')
    BY <1>4, <2>2, SelectionKept
  <2>4. InReach' BY <1>10, <2>1, <2>3 DEF InReach, SearchTypes, InOrder,
     UrlInOrder, OneDay, WholeDay, Workday, AreaRestores
  <2>5. WhileMounted /\ Mounted' => Restores(state') BY <1>12, <2>3
  <2> QED BY <2>4, <2>5 DEF WhileMounted, Restores
<1>14. CASE state' = [s EXCEPT !.loading = b, !.url = u, !.searched = v]
  <2>1. state' \in SearchStates BY <1>4, <1>6, <1>14 DEF SearchStates
  <2>2. /\ SameSelection(s, state') /\ state'.url = u
        /\ state'.searched = v
    BY <1>4, <1>14 DEF SearchStates, SameSelection
  <2>3. CASE calls[c].kind = "mount"
    <3>1. /\ InOrder(state') /\ UrlInOrder(state') /\ Restores(state')
          /\ AreaRestores(state')
      BY <1>4, <1>7, <2>2, <2>3, RecordedIs
    <3>2. InReach' BY <1>10, <2>1, <3>1 DEF InReach, SearchTypes, InOrder,
       UrlInOrder, OneDay, WholeDay, Workday, AreaRestores
    <3> QED BY <3>1, <3>2 DEF WhileMounted, Restores
  <2>4. CASE calls[c].kind # "mount"
    <3>1. /\ InOrder(state') /\ UrlInOrder(state') /\ AreaRestores(state')
          /\ Restores(s) => Restores(state')
      BY <1>4, <1>8, <2>2, <2>4, SelectionKept
    <3>2. InReach' BY <1>10, <2>1, <3>1 DEF InReach, SearchTypes, InOrder,
       UrlInOrder, OneDay, WholeDay, Workday, AreaRestores
    <3>3. WhileMounted /\ Mounted' => Restores(state') BY <1>12, <3>1
    <3> QED BY <3>2, <3>3 DEF WhileMounted, Restores
  <2> QED BY <2>3, <2>4
<1> QED BY <1>5, <1>13, <1>14

(* The times a user prefers are one day's, and end with the working day.   *)
LEMMA PreferredIs ==
    ASSUME NEW mode \in {"now", "nextDay"}, NEW hour \in {1, SlotsPerDay},
           NEW daily \in BOOLEAN
    PROVE  LET t == PreferredTimes(mode, hour, daily) IN
           /\ t.enter \in Moments /\ t.leave \in Moments
           /\ t.enter.day = t.leave.day
           /\ ~daily => t.leave.slot = WorkEnd
           /\ ~daily /\ hour < SlotsPerDay /\ t.enter.slot = 0 => WorkStart = 0
<1> DEFINE now == SetTime(Today, hour)
           e == CASE mode = "nextDay" -> [day |-> 1, slot |-> WorkStart]
                  [] mode = "now" /\ now.slot >= WorkEnd ->
                        [day |-> now.day + 1, slot |-> WorkStart]
                  [] mode = "now" /\ now.slot < WorkEnd ->
                        IF now.slot < WorkStart
                        THEN [now EXCEPT !.slot = WorkStart] ELSE now
           l == [e EXCEPT !.slot = WorkEnd]
           t == PreferredTimes(mode, hour, daily)
<1>0. /\ hour \in 0 .. SlotsPerDay /\ hour # 0 /\ WorkStart \in Slots
      /\ WorkEnd \in Slots /\ WorkStart \in Int /\ WorkEnd \in Int
      /\ SlotsPerDay \in Int
  BY SlotsAssumption DEF Slots
<1>1. /\ now \in Moments /\ now.slot \in Int
      /\ hour < SlotsPerDay => now.slot = hour
  <2>1. /\ now \in Moments
        /\ hour < SlotsPerDay => now.slot = hour
    BY <1>0, TodayIs, SetTimeIs
  <2> QED BY <2>1 DEF Moments, Slots
<1>2. t = IF daily THEN [enter |-> HoursToMin(e), leave |-> HoursToMax(l)]
          ELSE [enter |-> e, leave |-> l]
  BY DEF PreferredTimes
<1> HIDE DEF now, t
<1>3. /\ [now EXCEPT !.slot = WorkStart] \in Moments
      /\ [now EXCEPT !.slot = WorkStart].slot = WorkStart
      /\ [day |-> 1, slot |-> WorkStart] \in Moments
      /\ [day |-> now.day + 1, slot |-> WorkStart] \in Moments
  BY <1>0, <1>1 DEF Moments
<1>4. /\ e \in Moments
      /\ hour < SlotsPerDay /\ e.slot = 0 => WorkStart = 0
  <2>1. CASE mode = "nextDay"
    <3>1. e = [day |-> 1, slot |-> WorkStart] BY <2>1
    <3> HIDE DEF e
    <3> QED BY <1>3, <3>1
  <2>2. CASE mode = "now" /\ now.slot >= WorkEnd
    <3>1. e = [day |-> now.day + 1, slot |-> WorkStart] BY <1>0, <1>1, <2>2
    <3> HIDE DEF e
    <3> QED BY <1>3, <3>1
  <2>3. CASE mode = "now" /\ now.slot < WorkEnd
    <3>1. e = IF now.slot < WorkStart THEN [now EXCEPT !.slot = WorkStart]
              ELSE now
      BY <1>0, <1>1, <2>3
    <3> HIDE DEF e
    <3> QED BY <1>0, <1>1, <1>3, <3>1
  <2> QED BY <1>0, <1>1, <2>1, <2>2, <2>3
<1> HIDE DEF e
<1>5. l \in Moments /\ l.day = e.day /\ l.slot = WorkEnd
  BY <1>0, <1>4 DEF Moments
<1> HIDE DEF l
<1>6. /\ HoursToMin(e) \in Moments /\ HoursToMin(e).day = e.day
      /\ HoursToMax(l) \in Moments /\ HoursToMax(l).day = l.day
  BY <1>0, <1>4, <1>5, MomentsAre
<1>7. CASE daily
  <2>1. t.enter = HoursToMin(e) /\ t.leave = HoursToMax(l) BY <1>2, <1>7
  <2> QED BY <1>5, <1>6, <1>7, <2>1 DEF t
<1>8. CASE ~daily
  <2>1. t.enter = e /\ t.leave = l BY <1>2, <1>8
  <2> QED BY <1>4, <1>5, <1>8, <2>1 DEF t
<1> QED BY <1>7, <1>8

(* How the page begins.                                                    *)
LEMMA SearchBegins ==
    ASSUME SearchInit
    PROVE  /\ InReach /\ state.area = NoArea /\ state.loading
           /\ calls[1].kind = "mount" /\ calls[1].todo = MountTodo
           /\ \A c \in Chains \ {1} : calls[c].todo = <<>>
<1>1. PICK waits \in BOOLEAN, daily \in BOOLEAN, multi \in BOOLEAN,
           mode \in {"now", "nextDay"}, hour \in {1, SlotsPerDay} :
          LET t == PreferredTimes(mode, hour, daily) IN
          state = [area |-> NoArea, enter |-> t.enter, leave |-> t.leave,
                   multiDay |-> FALSE, allDay |-> FALSE,
                   resetEnter |-> t.enter, resetLeave |-> t.leave,
                   auto |-> TRUE, daily |-> daily, hour |-> hour,
                   areas |-> {}, filtered |-> FALSE, loading |-> TRUE,
                   spaces |-> [area |-> NoArea, enter |-> Today, leave |-> Today],
                   map |-> NoArea,
                   url |-> [area |-> NoArea, enter |-> t.enter,
                            leave |-> t.leave, allDay |-> FALSE,
                            multiDay |-> multi],
                   searched |-> FALSE, waits |-> waits]
  BY DEF SearchInit
<1> DEFINE t == PreferredTimes(mode, hour, daily)
           e == t.enter
           l == t.leave
           u == [area |-> NoArea, enter |-> e, leave |-> l,
                 allDay |-> FALSE, multiDay |-> multi]
           x == [area |-> NoArea, enter |-> Today, leave |-> Today]
<1>2. /\ e \in Moments /\ l \in Moments /\ e.day = l.day
      /\ ~daily => l.slot = WorkEnd
      /\ ~daily /\ hour < SlotsPerDay /\ e.slot = 0 => WorkStart = 0
  BY PreferredIs
<1>3. state = [area |-> NoArea, enter |-> e, leave |-> l,
               multiDay |-> FALSE, allDay |-> FALSE,
               resetEnter |-> e, resetLeave |-> l,
               auto |-> TRUE, daily |-> daily, hour |-> hour,
               areas |-> {}, filtered |-> FALSE, loading |-> TRUE,
               spaces |-> x, map |-> NoArea, url |-> u,
               searched |-> FALSE, waits |-> waits]
  BY <1>1
<1> HIDE DEF e, l
<1>4. /\ u \in Urls /\ u.enter = e /\ u.leave = l /\ ~u.allDay
      /\ x \in ShownSpaces
  BY <1>2, TodayIs DEF Urls, ShownSpaces, AreaOrNone
<1>5. hour \in 1 .. SlotsPerDay /\ NoArea \in AreaOrNone /\ {} \in SUBSET Areas
  BY SlotsAssumption DEF AreaOrNone
<1> HIDE DEF u, x
<1>6. state \in SearchStates BY <1>2, <1>3, <1>4, <1>5 DEF SearchStates
<1>7. /\ state.enter = e /\ state.leave = l /\ ~state.allDay
      /\ ~state.multiDay /\ state.daily = daily /\ state.hour = hour
      /\ state.url = u /\ state.area = NoArea /\ state.loading
  BY <1>3
<1>8. InOrder(state)
  BY <1>2, <1>7 DEF InOrder, OneDay, WholeDay, Workday, SameDay
<1>9. UrlInOrder(state) BY <1>2, <1>4, <1>7 DEF UrlInOrder, SameDay
<1> DEFINE k == Chain("mount", state)
<1>10. k \in ChainRecords /\ k.kind = "mount" /\ k.todo = MountTodo
  BY <1>2, <1>5, <1>7, ChainIs
<1>11. calls = [c \in Chains |-> IF c = 1 THEN k ELSE NoChain]
  BY DEF SearchInit
<1> HIDE DEF k
<1>12. calls \in [Chains -> ChainRecords] BY <1>10, <1>11, NoChainIs
<1>13. calls[1] = k /\ \A c \in Chains \ {1} : calls[c] = NoChain
  BY <1>11, ChainsAssumption
<1>14. InReach
  BY <1>6, <1>7, <1>8, <1>9, <1>12 DEF InReach, SearchTypes, AreaRestores
<1> QED BY <1>7, <1>10, <1>13, <1>14, NoChainIs

(* A step of the user keeps it too.                                        *)
LEMMA UserGoesOn ==
    ASSUME InReach, WhileMounted, SearchUser
    PROVE  InReach' /\ WhileMounted'
<1>1. /\ state' \in SearchStates /\ InOrder(state') /\ UrlInOrder(state')
      /\ AreaRestores(state')
      /\ Restores(state) => Restores(state')
      /\ UNCHANGED calls \/ \E kind \in StartedKinds : Begins(kind)
  BY UserKeeps DEF UserSelects
<1>2. SearchTypes /\ calls \in [Chains -> ChainRecords]
  BY DEF InReach, SearchTypes
<1>3. /\ calls' \in [Chains -> ChainRecords]
      /\ Mounted' => Mounted
  <2>1. CASE UNCHANGED calls BY <1>2, <2>1 DEF Mounted
  <2>2. CASE \E kind \in StartedKinds : Begins(kind)
    BY <1>1, <1>2, <2>2, ChainBegun DEF StartedKinds
  <2> QED BY <1>1, <2>1, <2>2
<1>4. InReach' BY <1>1, <1>3 DEF InReach, SearchTypes, InOrder, UrlInOrder,
   OneDay, WholeDay, Workday, AreaRestores
<1> QED BY <1>1, <1>3, <1>4 DEF WhileMounted, Restores

(* The inductive invariant of the search page: of InOrder and UrlInOrder   *)
(* the types and the flags the properties do not name; a blocked page may  *)
(* have been blocked before it recorded its URL.                           *)
InSearch == page = "search" => InReach /\ (blocked \/ WhileMounted)

(* Every step keeps it, ...                                                *)
LEMMA SearchOnward ==
    ASSUME InSearch, [ClientNext]_webVars
    PROVE  InSearch'
<1> SUFFICES ASSUME page' = "search"
             PROVE  InReach' /\ (blocked \/ WhileMounted)'
  BY DEF InSearch
<1>1. page = "search" /\ [SearchNext]_webVars BY OnePage
<1>2. InReach /\ (blocked \/ WhileMounted) BY <1>1 DEF InSearch
<1>3. CASE UNCHANGED webVars
  BY <1>2, <1>3 DEF webVars, InReach, SearchTypes, InOrder, UrlInOrder,
     OneDay, WholeDay, Workday, AreaRestores, WhileMounted, Restores, Mounted
<1>4. ASSUME NEW c \in Chains, Fail(c)
      PROVE  InReach' /\ (blocked \/ WhileMounted)'
  <2>1. state' = state /\ blocked' /\ calls' = [d \in Chains |-> NoChain]
    BY <1>4 DEF Fail, Blocks
  <2>2. calls' \in [Chains -> ChainRecords] BY <2>1, NoChainIs
  <2> QED BY <1>2, <2>1, <2>2 DEF InReach, SearchTypes, InOrder, UrlInOrder,
     OneDay, WholeDay, Workday, AreaRestores
<1>5. ASSUME NEW c \in Chains, Answer(c)
      PROVE  InReach' /\ (blocked \/ WhileMounted)'
  <2>1. InReach' /\ (WhileMounted => WhileMounted')
    BY <1>2, <1>5, AnswerKeeps
  <2>2. blocked' = blocked BY <1>5 DEF Answer, Goes
  <2> QED BY <1>2, <2>1, <2>2
<1>6. ASSUME SearchUser
      PROVE  InReach' /\ (blocked \/ WhileMounted)'
  <2>1. ~blocked
    BY <1>6 DEF SearchUser, PickDate, PickTime, StepDay, ToggleMultiDay,
       ToggleAllDay, ChangeArea, EditFilters, ApplySearch, ResetSearch,
       RefreshPage, User, Click
  <2> QED BY <1>2, <1>6, <2>1, UserGoesOn
<1> QED BY <1>1, <1>3, <1>4, <1>5, <1>6 DEF SearchNext

(* ... it holds when the page is opened, ...                               *)
LEMMA SearchFromTheStart == ClientInit => InSearch
<1> SUFFICES ASSUME ClientInit, page = "search"
             PROVE  InReach /\ WhileMounted
  BY DEF InSearch
<1>1. SearchInit BY OnePage
<1>2. ~Mounted
  BY <1>1, SearchBegins, ChainsAssumption, TodoIs
     DEF Mounted, MountTodo, Begun
<1> QED BY <1>1, <1>2, SearchBegins DEF WhileMounted

(* ... and so it always holds.                                             *)
LEMMA Searching == ClientSpec => []InSearch
BY SearchFromTheStart, SearchOnward, PTL DEF ClientSpec

(* When several days are not allowed the selection is always within one    *)
(* day, whatever order the pickers, the arrows, all day and several days   *)
(* were clicked in (SearchSelection!SingleDay).                            *)
THEOREM OneDayAtATime == ClientSpec => []SingleDay
<1>1. InSearch => SingleDay
  BY DEF InSearch, InReach, InOrder, OneDay, SingleDay
<1> QED BY <1>1, Searching, PTL

(* Under what UrlRestores asks, the URL gives what is selected.            *)
LEMMA RestoresAll ==
    ASSUME InReach, Restores(state), state.hour < SlotsPerDay,
           ~RoundTheClock,
           state.multiDay \/ SameDay(state.enter, state.leave)
    PROVE  Url(InitialTimes(state, state.url)) = Url(state)
<1> DEFINE u == state.url
           t == InitialTimes(state, u)
           a == u.allDay /\ ~state.daily
           e == IF a THEN HoursToMin(u.enter) ELSE u.enter
           l == IF a THEN HoursToMax(u.leave) ELSE u.leave
           z == IF u.multiDay \/ SameDay(e, l) THEN l ELSE HoursToMax(e)
<1>0. state \in SearchStates BY DEF InReach, SearchTypes
<1>1. /\ u.enter \in Moments /\ u.leave \in Moments /\ u.allDay \in BOOLEAN
      /\ u.allDay => /\ ~state.daily /\ u.enter.slot = 0
                     /\ u.leave.slot = SlotsPerDay - 1
  BY <1>0 DEF InReach, UrlInOrder, SearchStates, Urls
<1>2. /\ u.enter.slot = 0 => HoursToMin(u.enter) = u.enter
      /\ u.leave.slot = SlotsPerDay - 1 => HoursToMax(u.leave) = u.leave
  BY <1>1, AlreadyThere
<1>3. /\ u.enter = state.enter /\ u.allDay = state.allDay
      /\ u.multiDay = state.multiDay
      /\ \/ state.leave = u.leave
         \/ state.leave = IF u.multiDay \/ SameDay(u.enter, u.leave)
                          THEN u.leave ELSE HoursToMax(u.enter)
  BY DEF Restores
<1>4. /\ t.area = state.area /\ t.enter = e /\ t.leave = z
      /\ t.allDay = a /\ t.multiDay = u.multiDay
  BY <1>0 DEF InitialTimes, SearchStates
<1> HIDE DEF u, t
<1>5. e = u.enter /\ l = u.leave BY <1>1, <1>2
<1>6. a = u.allDay BY <1>1
<1> HIDE DEF a, e, l
<1>7. z = state.leave BY <1>3, <1>5
<1> HIDE DEF z
<1>8. Url(t) = Url(state) BY <1>3, <1>4, <1>5, <1>6, <1>7 DEF Url
<1> QED BY <1>8 DEF t, u

(* A page that is loaded anew from the URL it recorded shows the times and *)
(* the flags it showed before, and the area too unless a search has        *)
(* selected it, which does not write the URL (SearchSelection!UrlRestores; *)
(* who works round the clock excepted).                                    *)
THEOREM ReloadRestores == ClientSpec => []UrlRestores
<1>1. ASSUME InReach, ~state.searched, state.area # NoArea
      PROVE  PreferredAreas(Areas, state.url.area) = {state.area}
  <2>1. /\ state.url.area \in AreaOrNone
        /\ \/ state.url.area = state.area
           \/ state.url.area = NoArea /\ state.area = PrefArea
    BY <1>1 DEF InReach, SearchTypes, SearchStates, Urls, AreaRestores
  <2> QED BY <1>1, <2>1, AreaPreferred
<1>2. InSearch => UrlRestores
  BY <1>1, RestoresAll DEF InSearch, WhileMounted, UrlRestores
<1> QED BY <1>2, Searching, PTL

(* What a chain of some kind can be at.                                    *)
OfKind(kind, todo) ==
    \/ /\ kind \in {"mount", "area", "refresh"}
       /\ todo \in {MountTodo, AreaTodo, RefreshTodo, SpacesTodo, MapTodo}
    \/ kind = "times" /\ todo = TimesTodo
    \/ /\ kind = "search"
       /\ todo \in {SearchTodo, SearchTodo2, SearchTodo3, SearchTodo4,
                    SearchTodo5}

(* What follows what in a chain.                                           *)
LEMMA OnceMore ==
    ASSUME NEW kind, NEW todo, OfKind(kind, todo), Len(todo) # 1
    PROVE  /\ OfKind(kind, Tail(todo))
           /\ Head(todo) = "items" => Head(Tail(todo)) = "attributes"
           /\ Head(todo) = "search" => Head(Tail(todo)) = "location"
           /\ Head(todo) = "attributes" => Head(Tail(todo)) = "location"
           /\ Head(todo) = "location" => Head(Tail(todo)) = "spaces"
           /\ Head(todo) = "spaces" => Head(Tail(todo)) = "map"
           /\ Head(todo) = "map" => Head(Tail(todo)) = "attributes"
           /\ Head(todo) \in {"search", "map"} => kind = "search"
           /\ kind # "times"
           /\ kind = "search" => Head(todo) \notin {"items", "attributes"}
<1>1. CASE todo = MountTodo /\ kind \in {"mount", "area", "refresh"}
  <2>1. Tail(todo) = AreaTodo /\ Head(todo) = "items"
        /\ Head(AreaTodo) = "attributes"
    BY <1>1 DEF MountTodo, AreaTodo
  <2> QED BY <1>1, <2>1 DEF OfKind
<1>2. CASE todo = AreaTodo /\ kind \in {"mount", "area", "refresh"}
  <2>1. Tail(todo) = RefreshTodo /\ Head(todo) = "attributes"
        /\ Head(RefreshTodo) = "location"
    BY <1>2 DEF RefreshTodo, AreaTodo
  <2> QED BY <1>2, <2>1 DEF OfKind
<1>3. CASE todo = RefreshTodo /\ kind \in {"mount", "area", "refresh"}
  <2>1. Tail(todo) = SpacesTodo /\ Head(todo) = "location"
        /\ Head(SpacesTodo) = "spaces"
    BY <1>3 DEF RefreshTodo, SpacesTodo
  <2> QED BY <1>3, <2>1 DEF OfKind
<1>4. CASE todo = SpacesTodo /\ kind \in {"mount", "area", "refresh"}
  <2>1. Tail(todo) = MapTodo /\ Head(todo) = "spaces"
        /\ Head(MapTodo) = "map"
    BY <1>4 DEF MapTodo, SpacesTodo
  <2> QED BY <1>4, <2>1 DEF OfKind
<1>5. todo # MapTodo
  <2>1. Len(MapTodo) = 1 BY DEF MapTodo
  <2> QED BY <2>1
<1>6. todo # TimesTodo
  <2>1. Len(TimesTodo) = 1 BY DEF TimesTodo
  <2> QED BY <2>1
<1>7. CASE todo = SearchTodo /\ kind = "search"
  <2>1. Tail(todo) = SearchTodo2 /\ Head(todo) = "search"
        /\ Head(SearchTodo2) = "location"
    BY <1>7 DEF SearchTodo, SearchTodo2
  <2> QED BY <1>7, <2>1 DEF OfKind
<1>8. CASE todo = SearchTodo2 /\ kind = "search"
  <2>1. Tail(todo) = SearchTodo3 /\ Head(todo) = "location"
        /\ Head(SearchTodo3) = "spaces"
    BY <1>8 DEF SearchTodo3, SearchTodo2
  <2> QED BY <1>8, <2>1 DEF OfKind
<1>9. CASE todo = SearchTodo3 /\ kind = "search"
  <2>1. Tail(todo) = SearchTodo4 /\ Head(todo) = "spaces"
        /\ Head(SearchTodo4) = "map"
    BY <1>9 DEF SearchTodo3, SearchTodo4
  <2> QED BY <1>9, <2>1 DEF OfKind
<1>10. CASE todo = SearchTodo4 /\ kind = "search"
  <2>1. Tail(todo) = SearchTodo5 /\ Head(todo) = "map"
        /\ Head(SearchTodo5) = "attributes"
    BY <1>10 DEF SearchTodo5, SearchTodo4
  <2> QED BY <1>10, <2>1 DEF OfKind
<1>11. todo # SearchTodo5
  <2>1. Len(SearchTodo5) = 1 BY DEF SearchTodo5
  <2> QED BY <2>1
<1> QED BY <1>1, <1>2, <1>3, <1>4, <1>5, <1>6, <1>7, <1>8, <1>9, <1>10, <1>11
        DEF OfKind

(* How a chain ends.                                                       *)
LEMMA LastOne ==
    ASSUME NEW kind, NEW todo, OfKind(kind, todo), Len(todo) = 1
    PROVE  \/ Head(todo) = "map" /\ kind \in {"mount", "area", "refresh"}
           \/ Head(todo) = "spaces" /\ kind = "times"
           \/ Head(todo) = "attributes" /\ kind = "search"
<1>1. /\ Head(MapTodo) = "map" /\ Head(TimesTodo) = "spaces"
      /\ Head(SearchTodo5) = "attributes"
  BY DEF MapTodo, TimesTodo, SearchTodo5
<1>2. Len(MountTodo) = 5 /\ Len(AreaTodo) = 4 /\ Len(RefreshTodo) = 3
      /\ Len(SpacesTodo) = 2
  BY DEF MountTodo, AreaTodo, RefreshTodo, SpacesTodo
<1>3. Len(SearchTodo) = 5 /\ Len(SearchTodo2) = 4 /\ Len(SearchTodo3) = 3
      /\ Len(SearchTodo4) = 2
  BY DEF SearchTodo, SearchTodo2, SearchTodo3, SearchTodo4
<1> QED BY <1>1, <1>2, <1>3 DEF OfKind

(* The list is that of the selection.                                      *)
Listed(s) == s.spaces = [area |-> s.area, enter |-> s.enter, leave |-> s.leave]

(* A chain under way, of a user who waits for it, is about the selection.  *)
Within(call, s) ==
    /\ OfKind(call.kind, call.todo)
    /\ Head(call.todo) = "items" => call.kind = "mount" /\ s.area = NoArea
    /\ \/ Head(call.todo) \in {"location", "spaces", "map"}
       \/ call.kind \in {"area", "refresh", "times"}
       => call.area = s.area
    /\ Head(call.todo) = "spaces" => call.enter = s.enter /\ call.leave = s.leave
    /\ Head(call.todo) = "map" => Listed(s)
    /\ call.kind = "times" => s.map = s.area
    /\ call.kind = "search" /\ Head(call.todo) = "attributes"
          => Listed(s) /\ s.map = s.area

(* The invariant of a user who waits: one chain at a time, about what is   *)
(* selected; and once it has ended the list and the map are those of the   *)
(* selection.                                                              *)
Followed ==
    page = "search" /\ state.waits /\ ~blocked =>
        /\ \A c, d \in Chains :
              calls[c].todo # <<>> /\ calls[d].todo # <<>> => c = d
        /\ \A c \in Chains :
              calls[c].todo # <<>> => state.loading /\ Within(calls[c], state)
        /\ ~state.loading /\ state.area # NoArea
              => Listed(state) /\ state.map = state.area

(* A step that changes neither the selection nor the list.                 *)
SameShown(s, t) ==
    /\ t.area = s.area /\ t.enter = s.enter /\ t.leave = s.leave
    /\ t.spaces = s.spaces /\ t.map = s.map

LEMMA WithinKept ==
    ASSUME NEW call, NEW s, NEW t, SameShown(s, t)
    PROVE  /\ Within(call, s) => Within(call, t)
           /\ Listed(s) => Listed(t)
BY DEF SameShown, Within, Listed

(* The answer to a call about the selection.                               *)
LEMMA AnswerWithin ==
    ASSUME NEW call \in ChainRecords, call.todo \in Begun,
           NEW s \in SearchStates, InOrder(s), UrlInOrder(s), s.loading,
           Within(call, s), AreaRestores(s),
           NEW found \in SUBSET Areas, NEW area \in AreaOrNone,
           Head(call.todo) = "items"
              => area \in PreferredAreas(Areas, s.url.area)
    PROVE  LET t == Arrived(call, s, found, area)
               n == Next1(call, t) IN
           /\ ~SpinnerStops(call, s, t) => n.todo # <<>> /\ Within(n, t)
           /\ SpinnerStops(call, s, t) /\ ~StillLoading(call, t)
                /\ t.area # NoArea
              => Listed(t) /\ t.map = t.area
<1> DEFINE t == Arrived(call, s, found, area)
           n == Next1(call, t)
           h == Head(call.todo)
           h2 == Head(Tail(call.todo))
<1>1. /\ t \in SearchStates /\ t.loading
      /\ h # "items" => t.enter = s.enter /\ t.leave = s.leave
      /\ h \notin {"items", "search"} => t.area = s.area
      /\ h = "spaces"
           => t.spaces = [area |-> call.area, enter |-> call.enter,
                          leave |-> call.leave]
      /\ h # "spaces" => t.spaces = s.spaces
      /\ h = "map" => t.map = call.area
      /\ h # "map" => t.map = s.map
  BY ArrivedIs
<1>2. h \in Steps BY TodoIs
<1> HIDE DEF t
<1>3. OfKind(call.kind, call.todo) BY DEF Within
<1>4. ASSUME ~SpinnerStops(call, s, t) PROVE n.todo # <<>> /\ Within(n, t)
  <2>1. Len(call.todo) # 1 BY <1>4 DEF SpinnerStops
  <2>2. /\ n \in ChainRecords /\ n.kind = call.kind
        /\ n.todo = Tail(call.todo)
        /\ h2 = "location" =>
              n.area = IF call.kind \in {"mount", "search"} THEN t.area
                       ELSE call.area
        /\ h2 = "spaces" => /\ n.area = call.area /\ n.enter = t.enter
                            /\ n.leave = t.leave
        /\ h2 \notin {"location", "spaces"} => n.area = call.area
    BY <1>1, <2>1, NextIs
  <2>3. /\ OfKind(call.kind, Tail(call.todo))
        /\ h = "items" => h2 = "attributes"
        /\ h = "search" => h2 = "location"
        /\ h = "attributes" => h2 = "location"
        /\ h = "location" => h2 = "spaces"
        /\ h = "spaces" => h2 = "map"
        /\ h = "map" => h2 = "attributes"
        /\ h \in {"search", "map"} => call.kind = "search"
        /\ call.kind # "times"
        /\ call.kind = "search" => h \notin {"items", "attributes"}
    BY <1>3, <2>1, OnceMore
  <2>4. Tail(call.todo) # <<>> BY <2>1, TodoIs DEF Begun
  <2>5. n.todo # <<>> BY <2>2, <2>4
  <2>6. OfKind(n.kind, n.todo) BY <2>2, <2>3
  <2>7. h2 = Head(n.todo) BY <2>2
  <2>8. call.kind \in {"area", "refresh", "times"} => h # "items"
    BY DEF Within
  <2> HIDE DEF n, h, h2
  <2>h. /\ h = "items" => call.kind = "mount" /\ s.area = NoArea
        /\ h \in {"location", "spaces", "map"} => call.area = s.area
        /\ call.kind \in {"area", "refresh", "times"} => call.area = s.area
        /\ h = "spaces" => call.enter = s.enter /\ call.leave = s.leave
        /\ h = "map" => Listed(s)
    BY <1>3 DEF Within, h
  <2>k. call.kind \in {"mount", "area", "refresh", "times", "search"}
    BY <1>3 DEF OfKind
  <2>9. \/ h2 \in {"location", "spaces", "map"}
        \/ n.kind \in {"area", "refresh", "times"}
        => n.area = t.area
    BY <1>1, <1>2, <2>2, <2>3, <2>8, <2>h, <2>k DEF Steps
  <2>10. h2 = "spaces" => n.enter = t.enter /\ n.leave = t.leave
    BY <2>2
  <2>11. h2 = "map" => Listed(t)
    BY <1>1, <1>2, <2>3, <2>h DEF Steps, Listed
  <2>12. n.kind = "search" /\ h2 = "attributes" => Listed(t) /\ t.map = t.area
    BY <1>1, <1>2, <2>2, <2>3, <2>h DEF Steps, Listed
  <2>13. h2 # "items" /\ n.kind # "times" BY <1>2, <2>2, <2>3 DEF Steps
  <2> QED BY <2>5, <2>6, <2>7, <2>9, <2>10, <2>11, <2>12, <2>13 DEF Within
<1>5. ASSUME SpinnerStops(call, s, t), ~StillLoading(call, t), t.area # NoArea
      PROVE  Listed(t) /\ t.map = t.area
  <2>1. /\ h = "items" => call.kind = "mount" /\ s.area = NoArea
        /\ h \in {"location", "spaces", "map"} => call.area = s.area
        /\ h = "spaces" => call.enter = s.enter /\ call.leave = s.leave
        /\ h = "map" => Listed(s)
        /\ call.kind = "times" => s.map = s.area
        /\ call.kind = "search" /\ h = "attributes"
              => Listed(s) /\ s.map = s.area
    BY <1>3 DEF Within
  <2>2. ~(h = "map" /\ call.kind = "search")
    BY <1>1, <1>5 DEF StillLoading
  <2>3. Len(call.todo) = 1
    BY <1>5, <2>1, <2>2 DEF SpinnerStops
  <2>4. \/ h = "map" /\ call.kind \in {"mount", "area", "refresh"}
        \/ h = "spaces" /\ call.kind = "times"
        \/ h = "attributes" /\ call.kind = "search"
    BY <1>3, <2>3, LastOne
  <2> HIDE DEF h
  <2> QED BY <1>1, <2>1, <2>4 DEF Listed
<1> QED BY <1>4, <1>5 DEF t

(* An answer leaves the chain about the selection, or ends it with what is *)
(* shown following the selection.                                          *)
LEMMA AnswerFollowed ==
    ASSUME InReach, Followed, page = "search", NEW c \in Chains, Answer(c)
    PROVE  Followed'
<1> SUFFICES ASSUME page' = "search", state'.waits, ~blocked'
             PROVE  /\ \A d, e \in Chains :
                          calls'[d].todo # <<>> /\ calls'[e].todo # <<>> => d = e
                    /\ \A d \in Chains :
                          calls'[d].todo # <<>>
                             => state'.loading /\ Within(calls'[d], state')
                    /\ ~state'.loading /\ state'.area # NoArea
                          => Listed(state') /\ state'.map = state'.area
  BY DEF Followed, Within, Listed
<1>0. /\ SearchTypes /\ state \in SearchStates /\ InOrder(state)
      /\ UrlInOrder(state) /\ AreaRestores(state)
  BY DEF InReach, SearchTypes
<1>1. /\ calls[c] \in ChainRecords /\ calls[c].todo \in Begun
      /\ calls \in [Chains -> ChainRecords]
  BY <1>0, AnswerIs DEF SearchTypes
<1>2. PICK found \in SUBSET Areas :
         \E area \in AreaOrNone : SearchAnswered(c, found, area)
  BY <1>0, AnswerIs
<1>3. PICK area \in AreaOrNone : SearchAnswered(c, found, area)
  BY <1>2
<1> DEFINE s == Arrived(calls[c], state, found, area)
           b == StillLoading(calls[c], s)
           d == s.loading \/ calls'[c].todo[1] \in {"location", "spaces"}
           u == IF calls[c].kind = "mount" THEN Url(s) ELSE s.url
           v == s.searched /\ calls[c].kind # "mount"
           n == Next1(calls[c], s)
<1>p. Head(calls[c].todo) = "items"
        => area \in PreferredAreas(Areas, state.url.area)
  BY <1>3 DEF SearchAnswered
<1>4. s \in SearchStates /\ s.waits = state.waits /\ s.loading = state.loading
  BY <1>0, <1>1, <1>p, ArrivedIs, ZenonT(40)
<1>5. \/ /\ SpinnerStops(calls[c], state, s)
         /\ calls' = [calls EXCEPT ![c] = NoChain]
         /\ state' = [s EXCEPT !.loading = b, !.url = u, !.searched = v]
      \/ /\ ~SpinnerStops(calls[c], state, s)
         /\ calls' = [calls EXCEPT ![c] = n]
         /\ state' = [s EXCEPT !.loading = d]
  BY <1>3, <1>4 DEF SearchAnswered, SearchStates
<1>6. ~blocked BY DEF Answer, Goes
<1>7. state'.waits => state.waits BY <1>4, <1>5 DEF SearchStates
<1>8. /\ calls[c].todo # <<>>
      /\ \A e \in Chains : e # c => calls[e].todo = <<>>
      /\ state.loading /\ Within(calls[c], state)
  BY <1>6, <1>7 DEF Followed, Answer
<1>9. /\ ~SpinnerStops(calls[c], state, s) => n.todo # <<>> /\ Within(n, s)
      /\ SpinnerStops(calls[c], state, s) /\ ~b /\ s.area # NoArea
           => Listed(s) /\ s.map = s.area
  BY <1>0, <1>1, <1>p, <1>8, AnswerWithin
<1>d. d <=> (s.loading \/ calls'[c].todo[1] \in {"location", "spaces"})
  OBVIOUS
<1> HIDE DEF s, b, d, u, v, n
<1>10. /\ SameShown(s, state')
  BY <1>4, <1>5 DEF SearchStates, SameShown
<1>11. CASE /\ ~SpinnerStops(calls[c], state, s)
            /\ calls' = [calls EXCEPT ![c] = n]
            /\ state' = [s EXCEPT !.loading = d]
  <2>1. d BY <1>4, <1>8, <1>d
  <2>2. state'.loading BY <1>4, <1>11, <2>1 DEF SearchStates
  <2>3. calls'[c] = n /\ \A e \in Chains : e # c => calls'[e] = calls[e]
    BY <1>1, <1>11
  <2>4. Within(n, state') BY <1>9, <1>10, <1>11, WithinKept
  <2> QED BY <1>8, <2>2, <2>3, <2>4
<1>12. CASE /\ SpinnerStops(calls[c], state, s)
            /\ calls' = [calls EXCEPT ![c] = NoChain]
            /\ state' = [s EXCEPT !.loading = b, !.url = u, !.searched = v]
  <2>1. \A e \in Chains : calls'[e].todo = <<>>
    BY <1>1, <1>8, <1>12, NoChainIs
  <2>2. state'.loading = b BY <1>4, <1>12 DEF SearchStates
  <2>3. ~b /\ s.area # NoArea => Listed(state') /\ state'.map = state'.area
    BY <1>9, <1>10, <1>12, WithinKept DEF SameShown
  <2> QED BY <1>10, <2>1, <2>2, <2>3 DEF SameShown
<1> QED BY <1>5, <1>11, <1>12

(* A step of the user begins one chain for the new selection, or leaves    *)
(* the selection alone.                                                    *)
LEMMA UserFollowed ==
    ASSUME InReach, Followed, page = "search", SearchUser
    PROVE  Followed'
<1> SUFFICES ASSUME page' = "search", state'.waits, ~blocked'
             PROVE  /\ \A d, e \in Chains :
                          calls'[d].todo # <<>> /\ calls'[e].todo # <<>> => d = e
                    /\ \A d \in Chains :
                          calls'[d].todo # <<>>
                             => state'.loading /\ Within(calls'[d], state')
                    /\ ~state'.loading /\ state'.area # NoArea
                          => Listed(state') /\ state'.map = state'.area
  BY DEF Followed, Within, Listed
<1>1. UserSelects BY UserKeeps
<1>2. /\ state'.waits = state.waits /\ state'.spaces = state.spaces
      /\ state'.map = state.map
      /\ \/ /\ UNCHANGED calls
            /\ state'.area = state.area /\ state'.enter = state.enter
            /\ state'.leave = state.leave /\ state'.loading = state.loading
         \/ /\ state'.loading
            /\ \E kind \in StartedKinds :
                  /\ Begins(kind)
                  /\ kind \in {"times", "refresh"} => state.area # NoArea
                  /\ kind = "times" => state'.area = state.area
  BY <1>1 DEF UserSelects
<1>3. ~blocked /\ (state.waits => ~state.loading)
  BY DEF SearchUser, PickDate, PickTime, StepDay, ToggleMultiDay,
     ToggleAllDay, ChangeArea, EditFilters, ApplySearch, ResetSearch,
     RefreshPage, User, Click
<1>4. /\ \A d \in Chains : calls[d].todo = <<>>
      /\ state.area # NoArea => Listed(state) /\ state.map = state.area
  BY <1>2, <1>3 DEF Followed
<1>5. CASE UNCHANGED calls /\ state'.area = state.area
           /\ state'.enter = state.enter /\ state'.leave = state.leave
  <2>1. Listed(state) => Listed(state') BY <1>2, <1>5 DEF Listed
  <2> QED BY <1>2, <1>4, <1>5, <2>1
<1>6. ASSUME state'.loading, NEW kind \in StartedKinds, Begins(kind),
             kind = "times" => state.area # NoArea /\ state'.area = state.area
      PROVE  /\ \A d, e \in Chains :
                   calls'[d].todo # <<>> /\ calls'[e].todo # <<>> => d = e
             /\ \A d \in Chains :
                   calls'[d].todo # <<>>
                      => state'.loading /\ Within(calls'[d], state')
  <2>1. PICK c \in Chains : calls' = [calls EXCEPT ![c] = Chain(kind, state')]
    BY <1>6 DEF Begins
  <2>2. state'.area \in AreaOrNone /\ state'.enter \in Moments
        /\ state'.leave \in Moments
    BY <1>1 DEF UserSelects, SearchStates
  <2> DEFINE k == Chain(kind, state')
  <2>3. /\ k.kind = kind /\ k.area = state'.area
        /\ k.enter = state'.enter /\ k.leave = state'.leave
        /\ kind = "area" => k.todo = AreaTodo
        /\ kind = "times" => k.todo = TimesTodo
        /\ kind = "search" => k.todo = SearchTodo
        /\ kind = "refresh" => k.todo = RefreshTodo
    BY <2>2, ChainIs DEF StartedKinds
  <2>4. calls' = [calls EXCEPT ![c] = k] BY <2>1
  <2> HIDE DEF k
  <2>5. /\ Head(AreaTodo) = "attributes" /\ Head(TimesTodo) = "spaces"
        /\ Head(SearchTodo) = "search" /\ Head(RefreshTodo) = "location"
    BY DEF AreaTodo, TimesTodo, SearchTodo, RefreshTodo
  <2>6. OfKind(kind, k.todo) BY <2>3 DEF OfKind, StartedKinds
  <2>7. kind = "times" => state'.map = state'.area BY <1>2, <1>4, <1>6
  <2>8. Within(k, state') BY <2>3, <2>5, <2>6, <2>7 DEF Within, StartedKinds
  <2>9. \A d \in Chains : calls'[d].todo # <<>> => d = c /\ calls'[d] = k
    BY <1>4, <2>4 DEF InReach, SearchTypes
  <2> QED BY <1>6, <2>8, <2>9
<1> QED BY <1>2, <1>5, <1>6

(* Every step keeps this, ...                                              *)
LEMMA FollowedOnward ==
    ASSUME InSearch, Followed, [ClientNext]_webVars
    PROVE  Followed'
<1>1. CASE page = "search"
  <2>1. [SearchNext]_webVars /\ InReach BY <1>1, OnePage DEF InSearch
  <2>2. CASE UNCHANGED webVars
    BY <2>2 DEF webVars, Followed, Within, Listed
  <2>3. ASSUME NEW c \in Chains, Fail(c) PROVE Followed'
    BY <2>3 DEF Fail, Blocks, Followed
  <2> QED BY <1>1, <2>1, <2>2, <2>3, AnswerFollowed, UserFollowed DEF SearchNext
<1>2. CASE page # "search"
  <2>1. page' # "search" BY <1>2, OnePage
  <2> QED BY <2>1 DEF Followed
<1> QED BY <1>1, <1>2

(* ... and it holds when the page is opened.                               *)
LEMMA FollowedFromTheStart == ClientInit => Followed
<1> SUFFICES ASSUME ClientInit, page = "search" PROVE Followed
  BY DEF Followed
<1>1. SearchInit BY OnePage
<1>2. /\ state.area = NoArea /\ state.loading
      /\ calls[1].kind = "mount" /\ calls[1].todo = MountTodo
      /\ \A c \in Chains \ {1} : calls[c].todo = <<>>
  BY <1>1, SearchBegins
<1>3. Head(MountTodo) = "items" BY DEF MountTodo
<1>4. Within(calls[1], state) BY <1>2, <1>3 DEF Within, OfKind
<1> QED BY <1>2, <1>4 DEF Followed

(* To a user who waits for each list, the spaces listed are those of the   *)
(* area and the times selected, and the map is the area's                  *)
(* (SearchSelection!ShownAsSelected).                                      *)
THEOREM ListFollowsSelection == ClientSpec => []ShownAsSelected
<1>1. ClientInit => Followed BY FollowedFromTheStart
<1>2. InSearch /\ Followed /\ [ClientNext]_webVars => Followed'
  BY FollowedOnward
<1>3. Followed => ShownAsSelected BY DEF Followed, ShownAsSelected, Listed
<1> QED BY <1>1, <1>2, <1>3, Searching, PTL DEF ClientSpec
==============================================================================
