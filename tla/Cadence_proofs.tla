--------------------------- MODULE Cadence_proofs ---------------------------
(***************************************************************************)
(* Proofs about Cadence for every set of requests and every limit: the     *)
(* loops stay on the weekdays asked for and within the limit, and when the *)
(* weekdays come in the order of the week the occurrences follow one       *)
(* another from the start to before the end.                               *)
(***************************************************************************)
EXTENDS Cadence, FiniteSetTheorems, TLAPS

USE RequestsAssumption, LimitAssumption

LEMMA RequestFields ==
  ASSUME NEW r \in Request
  PROVE  /\ r.cadence \in {"daily", "weekly"}
         /\ r.cycle \in Nat /\ r.cycle > 0
         /\ r.weekdays \in Seq(0 .. 6)
         /\ Len(r.weekdays) \in Nat
         /\ DOMAIN r.weekdays = 1 .. Len(r.weekdays)
         /\ \A k \in DOMAIN r.weekdays :
               r.weekdays[k] \in 0 .. 6
         /\ r.enter \in Nat /\ r.end \in Nat
  <1>1. /\ r.cadence \in {"daily", "weekly"}
        /\ r.cycle \in Nat \ {0}
        /\ r.weekdays \in Seq(0 .. 6)
        /\ r.enter \in Nat /\ r.end \in Nat
    BY DEF Request
  <1> QED
    BY <1>1

(* slices.Index finds a weekday of the list, at its first place.           *)
LEMMA FirstIndex ==
  ASSUME NEW r \in Request, NEW day \in Int,
         Weekday(day) \in Elements(r.weekdays)
  PROVE  \E k \in DOMAIN r.weekdays :
            /\ r.weekdays[k] = Weekday(day)
            /\ \A j \in 1 .. k - 1 : r.weekdays[j] # Weekday(day)
  <1> DEFINE w == r.weekdays
             P == {k \in DOMAIN w : w[k] = Weekday(day)}
  <1>1. P # {} /\ P \subseteq Nat
    BY RequestFields DEF Elements
  <1>2. \E k \in P : \A j \in P : k <= j
    <2> DEFINE less == {ss \in Nat \X Nat : ss[1] < ss[2]}
    <2>1. IsWellFoundedOn(less, Nat)
      BY NatLessThanWellFounded, Zenon DEF OpToRel
    <2> HIDE DEF P
    <2>2. PICK k \in P : \A j \in P : <<j, k>> \notin less
      <3> HIDE DEF less
      <3> QED
        BY <1>1, <2>1, WFMin, Zenon
    <2>3. k \in Nat /\ \A j \in P : j \in Nat /\ ~(j < k)
      BY <1>1, <2>2
    <2> QED
      BY <2>3
  <1> QED
    BY <1>1, <1>2, RequestFields

LEMMA InWeek ==
  ASSUME NEW d \in Int, NEW a \in 0 .. 6
  PROVE  d % 7 = a <=> \E q \in Int : d = 7 * q + a
  <1>1. d = 7 * (d \div 7) + (d % 7) /\ d \div 7 \in Int
    OBVIOUS
  <1>2. ASSUME NEW q \in Int, d = 7 * q + a PROVE d % 7 = a
    BY <1>2
  <1> QED
    BY <1>1, <1>2

(* The weekdays come in the order of the week, none twice.                 *)
WeekOrder(r) ==
  \A j, k \in DOMAIN r.weekdays : j < k => r.weekdays[j] < r.weekdays[k]

(* getNextBookingTime in terms of the place of the day in the list.        *)
LEMMA NextIndex ==
  ASSUME NEW r \in Request, NEW day \in Int, r.cadence = "weekly",
         Weekday(day) \in Elements(r.weekdays)
  PROVE  \E i \in DOMAIN r.weekdays :
            /\ r.weekdays[i] = Weekday(day)
            /\ NextDay(r, day) =
                  IF i = Len(r.weekdays)
                  THEN day + (7 - r.weekdays[i] + r.weekdays[1])
                           + 7 * (r.cycle - 1)
                  ELSE day + (r.weekdays[i + 1] - r.weekdays[i])
  <1> DEFINE w == r.weekdays
             First(k) == /\ w[k] = Weekday(day)
                         /\ \A j \in 1 .. k - 1 : w[j] # Weekday(day)
             idx == CHOOSE k \in DOMAIN w : First(k)
  <1>1. idx \in DOMAIN w /\ w[idx] = Weekday(day)
    <2>1. \E k \in DOMAIN w : First(k)
      BY FirstIndex
    <2> HIDE DEF First
    <2>2. idx \in DOMAIN w /\ First(idx)
      BY <2>1
    <2> QED
      BY <2>2 DEF First
  <1>2. NextDay(r, day) =
          IF idx = Len(w)
          THEN day + (7 - w[idx] + w[1]) + 7 * (r.cycle - 1)
          ELSE day + (w[idx + 1] - w[idx])
    BY DEF NextDay
  <1> HIDE DEF idx, First
  <1> QED
    BY <1>1, <1>2

(* getNextBookingTime goes from one of the weekdays to one of the weekdays *)
(* in any list, and forward in an ordered one.                             *)
LEMMA NextWeekday ==
  ASSUME NEW r \in Request, NEW day \in Int, r.cadence = "weekly",
         Weekday(day) \in Elements(r.weekdays)
  PROVE  /\ NextDay(r, day) \in Int
         /\ Weekday(NextDay(r, day)) \in Elements(r.weekdays)
         /\ WeekOrder(r) => NextDay(r, day) > day
  <1> DEFINE w == r.weekdays
  <1>1. PICK idx \in DOMAIN w :
          /\ w[idx] = Weekday(day)
          /\ NextDay(r, day) =
                IF idx = Len(w)
                THEN day + (7 - w[idx] + w[1]) + 7 * (r.cycle - 1)
                ELSE day + (w[idx + 1] - w[idx])
    BY NextIndex
  <1>2. NextDay(r, day) =
          IF idx = Len(w)
          THEN day + (7 - w[idx] + w[1]) + 7 * (r.cycle - 1)
          ELSE day + (w[idx + 1] - w[idx])
    BY <1>1
  <1>3. /\ idx \in 1 .. Len(w) /\ Len(w) \in Nat
        /\ \A k \in 1 .. Len(w) : w[k] \in 0 .. 6
        /\ r.cycle \in Nat /\ r.cycle > 0
    BY <1>1, RequestFields
  <1>4. CASE idx = Len(w)
    <2>1. /\ w[1] \in 0 .. 6 /\ w[idx] \in 0 .. 6 /\ 1 \in DOMAIN w
          /\ r.cycle \in Int /\ r.cycle > 0
      BY <1>3, RequestFields
    <2> DEFINE a == w[idx]
               b == w[1]
               c == r.cycle
    <2>2. /\ a \in 0 .. 6 /\ b \in 0 .. 6 /\ c \in Int /\ c > 0
          /\ day % 7 = a
          /\ NextDay(r, day) = day + (7 - a + b) + 7 * (c - 1)
      BY <2>1, <1>1, <1>2, <1>4 DEF Weekday
    <2>3. b = w[1] /\ 1 \in DOMAIN w
      BY <2>1
    <2> HIDE DEF a, b, c
    <2>4. NextDay(r, day) = day + (b - a) + 7 * c
      BY <2>2
    <2>5. NextDay(r, day) % 7 = b
      <3>1. PICK q \in Int : day = 7 * q + a
        BY <2>2, InWeek
      <3>2. NextDay(r, day) = 7 * (q + c) + b /\ q + c \in Int
        BY <2>2, <2>4, <3>1
      <3> QED
        BY <2>2, <3>2, InWeek
    <2>6. NextDay(r, day) \in Int /\ NextDay(r, day) > day
      BY <2>2, <2>4
    <2> QED
      BY <2>3, <2>5, <2>6 DEF Weekday, Elements
  <1>5. CASE idx # Len(w)
    <2>1. /\ idx + 1 \in DOMAIN w /\ idx \in DOMAIN w /\ idx < idx + 1
          /\ w[idx + 1] \in 0 .. 6 /\ w[idx] \in 0 .. 6
      BY <1>3, <1>5, RequestFields
    <2> DEFINE a == w[idx]
               b == w[idx + 1]
    <2>2. /\ a \in 0 .. 6 /\ b \in 0 .. 6 /\ day % 7 = a
          /\ NextDay(r, day) = day + (b - a)
      BY <2>1, <1>1, <1>2, <1>5 DEF Weekday
    <2>3. b \in Elements(w)
      BY <2>1 DEF Elements
    <2>4. WeekOrder(r) => a < b
      BY <2>1 DEF WeekOrder
    <2> HIDE DEF a, b
    <2>5. NextDay(r, day) % 7 = b
      <3>1. PICK q \in Int : day = 7 * q + a
        BY <2>2, InWeek
      <3>2. NextDay(r, day) = 7 * q + b
        BY <2>2, <3>1
      <3> QED
        BY <2>2, <3>2, InWeek
    <2>6. NextDay(r, day) \in Int /\ (a < b => NextDay(r, day) > day)
      BY <2>2
    <2> QED
      BY <2>3, <2>4, <2>5, <2>6 DEF Weekday
  <1> QED
    BY <1>4, <1>5

LEMMA NextDaily ==
  ASSUME NEW r \in Request, NEW day \in Int, r.cadence = "daily"
  PROVE  NextDay(r, day) \in Int /\ NextDay(r, day) > day
  BY RequestFields DEF NextDay

-----------------------------------------------------------------------------
(* The loop only ever stands on a day that is to be booked.                *)
Aligned ==
  (at = "loop" /\ req.cadence = "weekly") =>
      Weekday(cur) \in Elements(req.weekdays)

WeekdaysInv == TypeOK /\ Aligned /\ OnWeekdaysOnly

LEMMA InitWeekdays == Init => WeekdaysInv
  BY DEF Init, WeekdaysInv, TypeOK, Aligned, OnWeekdaysOnly, Request

LEMMA NextTyped ==
  ASSUME TypeOK, Aligned, at = "loop"
  PROVE  NextDay(req, cur) \in Int
  <1>1. req \in Request /\ cur \in Int /\ req.cadence \in {"daily", "weekly"}
    BY RequestFields DEF TypeOK
  <1>2. CASE req.cadence = "daily"
    BY <1>1, <1>2, NextDaily
  <1>3. CASE req.cadence = "weekly"
    BY <1>1, <1>3, NextWeekday DEF Aligned
  <1> QED
    BY <1>1, <1>2, <1>3

LEMMA StepWeekdays == WeekdaysInv /\ [Next]_vars => WeekdaysInv'
  <1> SUFFICES ASSUME WeekdaysInv, [Next]_vars PROVE WeekdaysInv'
    OBVIOUS
  <1> USE DEF WeekdaysInv
  <1>1. CASE Start
    BY <1>1 DEF Start, TypeOK, Aligned, OnWeekdaysOnly
  <1>2. CASE Align
    BY <1>2 DEF Align, TypeOK, Aligned, OnWeekdaysOnly
  <1>3. CASE Turn
    <2>1. /\ at = "loop" /\ at' = at /\ req' = req
          /\ res' = Append(res, cur) /\ cur' = NextDay(req, cur)
          /\ req \in Request /\ cur \in Int /\ res \in Seq(Int)
      BY <1>3 DEF Turn, TypeOK
    <2>2. TypeOK'
      BY <2>1, NextTyped DEF TypeOK
    <2>3. Aligned'
      BY <2>1, NextWeekday DEF Aligned
    <2>4. OnWeekdaysOnly'
      <3> SUFFICES ASSUME req.cadence = "weekly", NEW k \in DOMAIN res'
                   PROVE  Weekday(res'[k]) \in Elements(req.weekdays)
        BY <2>1 DEF OnWeekdaysOnly
      <3>1. CASE k \in DOMAIN res
        BY <2>1, <3>1 DEF OnWeekdaysOnly
      <3>2. CASE k \notin DOMAIN res
        BY <2>1, <3>2 DEF Aligned
      <3> QED
        BY <3>1, <3>2
    <2> QED
      BY <2>2, <2>3, <2>4
  <1>4. CASE TurnLimit
    BY <1>4 DEF TurnLimit, TypeOK, Aligned, OnWeekdaysOnly
  <1>5. CASE End
    BY <1>5 DEF End, TypeOK, Aligned, OnWeekdaysOnly
  <1>6. CASE UNCHANGED vars
    BY <1>6 DEF vars, TypeOK, Aligned, OnWeekdaysOnly
  <1> QED
    BY <1>1, <1>2, <1>3, <1>4, <1>5, <1>6 DEF Next

(* The loop variables keep their types, for every list of weekdays and     *)
(* every limit: the step to the next occurrence is always defined.         *)
THEOREM CadenceTyped == Spec => []TypeOK
  <1>1. WeekdaysInv => TypeOK
    BY DEF WeekdaysInv
  <1> QED
    BY <1>1, InitWeekdays, StepWeekdays, PTL DEF Spec

(* Whatever the order of the list of weekdays, no weekly occurrence falls  *)
(* on a weekday that is not in it.                                         *)
THEOREM OnlyWeekdaysAskedFor == Spec => []OnWeekdaysOnly
  <1>1. WeekdaysInv => OnWeekdaysOnly
    BY DEF WeekdaysInv
  <1> QED
    BY <1>1, InitWeekdays, StepWeekdays, PTL DEF Spec

-----------------------------------------------------------------------------
(* Occurrences made so far lie before the one the loop stands on.          *)
OrderInv ==
  /\ req \in Requests
  /\ req.enter <= cur
  /\ InOrderFromStart
  /\ at = "loop" => \A k \in DOMAIN res : res[k] < cur
  /\ at \in {"start", "align"} => res = <<>>

LEMMA InitOrder == Init => OrderInv
  BY RequestFields DEF Init, OrderInv, InOrderFromStart

LEMMA StepOrder ==
  ASSUME \A r \in Requests : r.cadence = "weekly" => WeekOrder(r)
  PROVE  WeekdaysInv /\ OrderInv /\ [Next]_vars => OrderInv'
  <1> SUFFICES ASSUME WeekdaysInv, OrderInv, [Next]_vars PROVE OrderInv'
    OBVIOUS
  <1>0. /\ req \in Request /\ cur \in Int /\ res \in Seq(Int)
        /\ req.enter \in Int /\ req.end \in Int
        /\ req.cadence \in {"daily", "weekly"}
    BY RequestFields DEF WeekdaysInv, TypeOK
  <1>1. CASE Start
    BY <1>0, <1>1 DEF Start, OrderInv, InOrderFromStart
  <1>2. CASE Align
    BY <1>0, <1>2 DEF Align, OrderInv, InOrderFromStart
  <1>3. CASE Turn
    <2>1. /\ at = "loop" /\ at' = at /\ req' = req /\ cur < req.end
          /\ res' = Append(res, cur) /\ cur' = NextDay(req, cur)
      BY <1>3 DEF Turn
    <2>2. cur' \in Int /\ cur' > cur
      <3>1. CASE req.cadence = "daily"
        BY <1>0, <2>1, <3>1, NextDaily
      <3>2. CASE req.cadence = "weekly"
        BY <1>0, <2>1, <3>2, NextWeekday DEF WeekdaysInv, Aligned, OrderInv
      <3> QED
        BY <1>0, <3>1, <3>2
    <2>3. \A k \in DOMAIN res' :
            res'[k] \in Int /\ req.enter <= res'[k] /\ res'[k] <= cur
      BY <1>0, <2>1 DEF OrderInv, InOrderFromStart
    <2>4. \A k \in DOMAIN res' : req.enter <= res'[k] /\ res'[k] < req.end
      BY <1>0, <2>1, <2>3
    <2>5. \A j, k \in DOMAIN res' : j < k => res'[j] < res'[k]
      BY <1>0, <2>1 DEF OrderInv, InOrderFromStart
    <2>6. \A k \in DOMAIN res' : res'[k] < cur'
      BY <1>0, <2>2, <2>3
    <2> QED
      BY <1>0, <2>1, <2>2, <2>4, <2>5, <2>6 DEF OrderInv, InOrderFromStart
  <1>4. CASE TurnLimit
    BY <1>0, <1>4 DEF TurnLimit, OrderInv, InOrderFromStart
  <1>5. CASE End
    BY <1>0, <1>5 DEF End, OrderInv, InOrderFromStart
  <1>6. CASE UNCHANGED vars
    BY <1>6 DEF vars, OrderInv, InOrderFromStart
  <1> QED
    BY <1>1, <1>2, <1>3, <1>4, <1>5, <1>6 DEF Next

(* When every list of weekdays is in the order of the week, no occurrence  *)
(* lies before the start, at the end or after it, or before an earlier one:*)
(* the order the validator does not ask for is enough.                     *)
THEOREM OccurrencesFollowOneAnother ==
  ASSUME \A r \in Requests : r.cadence = "weekly" => WeekOrder(r)
  PROVE  Spec => []InOrderFromStart
  <1>1. OrderInv => InOrderFromStart
    BY DEF OrderInv
  <1>2. WeekdaysInv /\ OrderInv /\ [Next]_vars => OrderInv'
    BY StepOrder
  <1> QED
    BY <1>1, <1>2, InitWeekdays, StepWeekdays, InitOrder, PTL DEF Spec

-----------------------------------------------------------------------------
(* Weeks and multiples.                                                    *)

(* Multiples of the same number are ordered like their factors.            *)
LEMMA Monotonic ==
  ASSUME NEW c \in Nat, c > 0, NEW a \in Int, NEW b \in Int
  PROVE  /\ a <= b <=> c * a <= c * b
         /\ a < b <=> c * a < c * b
  <1>1. ASSUME NEW x \in Int, NEW y \in Int, x < y PROVE c * x < c * y
    <2>1. c * (y - x) > 0
      BY <1>1
    <2>2. c * (y - x) = c * y - c * x
      OBVIOUS
    <2> QED
      BY <2>1, <2>2
  <1>2. c * a \in Int /\ c * b \in Int
    OBVIOUS
  <1>3. a < b => c * a < c * b
    BY <1>1
  <1>4. b < a => c * b < c * a
    BY <1>1
  <1>5. a = b => c * a = c * b
    OBVIOUS
  <1> QED
    BY <1>2, <1>3, <1>4, <1>5

LEMMA Multiple ==
  ASSUME NEW c \in Nat, c > 0, NEW x \in Int
  PROVE  x % c = 0 <=> \E k \in Int : x = c * k
  <1>1. /\ x = c * (x \div c) + (x % c) /\ x \div c \in Int
        /\ x % c \in Int /\ 0 <= x % c /\ x % c < c
    OBVIOUS
  <1>2. ASSUME x % c = 0 PROVE \E k \in Int : x = c * k
    BY <1>1, <1>2
  <1>3. ASSUME NEW k \in Int, x = c * k PROVE x % c = 0
    <2> DEFINE q == x \div c
               m == x % c
    <2>1. c * k = c * q + m /\ q \in Int /\ m \in Int /\ 0 <= m /\ m < c
      BY <1>1, <1>3
    <2> HIDE DEF q, m
    <2>2. c * q <= c * k /\ c * k < c * (q + 1)
      <3>1. c * (q + 1) = c * q + c
        BY <2>1
      <3> QED
        BY <2>1, <3>1
    <2>3. q <= k /\ k < q + 1
      BY <2>1, <2>2, Monotonic
    <2>4. k = q
      BY <2>1, <2>3
    <2>5. m = 0
      BY <2>1, <2>4
    <2> QED
      BY <2>5 DEF m
  <1> QED
    BY <1>2, <1>3

(* From one multiple of c the next one is c away.                          *)
LEMMA NextMultiple ==
  ASSUME NEW c \in Nat, c > 0, NEW x \in Int, x % c = 0
  PROVE  /\ (x + c) % c = 0
         /\ \A y \in Int : x < y /\ y < x + c => y % c # 0
  <1>1. PICK k \in Int : x = c * k
    BY Multiple
  <1>2. x + c = c * (k + 1) /\ k + 1 \in Int /\ x + c \in Int
    BY <1>1
  <1>3. (x + c) % c = 0
    BY <1>2, Multiple
  <1>4. ASSUME NEW y \in Int, x < y, y < x + c, y % c = 0 PROVE FALSE
    <2>1. PICK j \in Int : y = c * j
      BY <1>4, Multiple
    <2>2. k < j /\ j < k + 1
      BY <1>1, <1>2, <1>4, <2>1, Monotonic
    <2> QED
      BY <2>2
  <1> QED
    BY <1>3, <1>4

(* A day is a day of its week, and of no other.                            *)
LEMMA DayOfWeek ==
  /\ \A d \in Int : /\ d = 7 * (d \div 7) + Weekday(d)
                    /\ d \div 7 \in Int /\ Weekday(d) \in 0 .. 6
  /\ \A q \in Int, a \in 0 .. 6 :
        (7 * q + a) \div 7 = q /\ Weekday(7 * q + a) = a
  BY DEF Weekday

-----------------------------------------------------------------------------
(* The days asked for.                                                     *)

Fits(d) == Weekday(d) \in Elements(req.weekdays)

(* The first day of a weekly series.                                       *)
FirstDay ==
  LET starts == {d \in req.enter .. req.enter + 6 : Fits(d)}
  IN  CHOOSE d \in starts : \A e \in starts : d <= e

InCadence(d) ==
  IF req.cadence = "daily" THEN (d - req.enter) % req.cycle = 0
  ELSE Fits(d) /\ ((d \div 7) - (FirstDay \div 7)) % req.cycle = 0

LEMMA WantedDays == Wanted = {d \in req.enter .. req.end - 1 : InCadence(d)}
  <1>1. CASE req.cadence = "daily"
    BY <1>1 DEF Wanted, InCadence
  <1>2. CASE req.cadence # "daily"
    <2>1. Wanted = {d \in req.enter .. req.end - 1 :
                       /\ Fits(d)
                       /\ ((d \div 7) - (FirstDay \div 7)) % req.cycle = 0}
      BY <1>2 DEF Wanted, FirstDay, Fits
    <2> QED
      BY <1>2, <2>1 DEF InCadence
  <1> QED
    BY <1>1, <1>2

(* A week from the start there is a day that fits, and the first of them   *)
(* is the one that has none before it.                                     *)
LEMMA FirstDayFound ==
  ASSUME req \in Request, req.weekdays # <<>>, NEW d \in Int, Fits(d),
         req.enter <= d, \A e \in req.enter .. d - 1 : ~Fits(e)
  PROVE  FirstDay = d
  <1> DEFINE starts == {e \in req.enter .. req.enter + 6 : Fits(e)}
  <1>0. req.enter \in Int
    BY RequestFields
  <1>1. d <= req.enter + 6
    <2>1. SUFFICES ASSUME d > req.enter + 6 PROVE FALSE
      BY <1>0
    <2>2. Weekday(d) \in 0 .. 6
      BY DayOfWeek
    <2>3. \E e \in req.enter .. req.enter + 6 : Weekday(e) = Weekday(d)
      <3> DEFINE a == Weekday(d)
                 b == Weekday(req.enter)
                 q == req.enter \div 7
      <3>1. a \in 0 .. 6 /\ b \in 0 .. 6 /\ q \in Int /\ req.enter = 7 * q + b
        BY <1>0, <2>2, DayOfWeek
      <3> HIDE DEF a, b, q
      <3>2. Weekday(7 * q + a) = a /\ Weekday(7 * (q + 1) + a) = a
        <4>1. q + 1 \in Int
          BY <3>1
        <4> QED
          BY <3>1, <4>1, DayOfWeek
      <3>3. CASE b <= a
        <4>1. 7 * q + a \in req.enter .. req.enter + 6
          BY <3>1, <3>3
        <4> QED
          BY <3>2, <4>1 DEF a
      <3>4. CASE a < b
        <4>1. 7 * (q + 1) + a \in req.enter .. req.enter + 6
          BY <3>1, <3>4
        <4> QED
          BY <3>2, <4>1 DEF a
      <3> QED
        BY <3>1, <3>3, <3>4
    <2>4. PICK e \in req.enter .. req.enter + 6 : Weekday(e) = Weekday(d)
      BY <2>3
    <2>5. Fits(e) /\ e \in req.enter .. d - 1
      BY <1>0, <2>1, <2>4 DEF Fits
    <2> QED
      BY <2>5
  <1>2. d \in starts /\ \A e \in starts : d <= e
    BY <1>0, <1>1
  <1>3. starts \subseteq Int
    BY <1>0
  <1>4. FirstDay = CHOOSE e \in starts : \A f \in starts : e <= f
    BY DEF FirstDay
  <1> HIDE DEF starts
  <1>5. FirstDay \in starts /\ \A e \in starts : FirstDay <= e
    BY <1>2, <1>4
  <1> QED
    BY <1>2, <1>3, <1>5

(* From one day of a weekly series getNextBookingTime goes to another one, *)
(* and there is none in between.                                           *)
LEMMA NextInCadence ==
  ASSUME req \in Request, NEW day \in Int, InCadence(day),
         req.cadence = "weekly" => FirstDay \in Int /\ WeekOrder(req)
  PROVE  /\ InCadence(NextDay(req, day))
         /\ \A d \in Int : day < d /\ d < NextDay(req, day) => ~InCadence(d)
  <1> DEFINE c == req.cycle
             w == req.weekdays
             f == FirstDay \div 7
             q == day \div 7
  <1>1. /\ req.cadence \in {"daily", "weekly"} /\ c \in Nat /\ c > 0
        /\ req.enter \in Int
        /\ Len(w) \in Nat /\ DOMAIN w = 1 .. Len(w)
        /\ \A k \in DOMAIN w : w[k] \in 0 .. 6
    BY RequestFields
  <1>2. CASE req.cadence = "daily"
    <2> DEFINE x == day - req.enter
    <2>1. x \in Int /\ x % c = 0
      BY <1>1, <1>2 DEF InCadence
    <2> HIDE DEF c
    <2>2. (x + c) % c = 0 /\ \A y \in Int : x < y /\ y < x + c => y % c # 0
      <3> HIDE DEF x
      <3> QED
        BY <1>1, <2>1, NextMultiple
    <2>3. NextDay(req, day) = day + c
      BY <1>2 DEF NextDay, c
    <2>4. (day + c) - req.enter = x + c
      BY <1>1
    <2>5. InCadence(day + c)
      BY <1>2, <2>2, <2>4 DEF InCadence, c
    <2>6. ASSUME NEW d \in Int, day < d, d < day + c PROVE ~InCadence(d)
      <3>1. d - req.enter \in Int /\ x < d - req.enter /\ d - req.enter < x + c
        BY <1>1, <2>6
      <3>2. (d - req.enter) % c # 0
        BY <2>2, <3>1
      <3> QED
        BY <1>2, <3>2 DEF InCadence, c
    <2> QED
      BY <2>3, <2>5, <2>6
  <1>3. CASE req.cadence = "weekly"
    <2>1. Fits(day) /\ (q - f) % c = 0 /\ q \in Int /\ f \in Int
      <3>1. FirstDay \in Int
        BY <1>3
      <3> QED
        BY <1>3, <3>1, DayOfWeek DEF InCadence
    <2>2. PICK i \in DOMAIN w :
            /\ w[i] = Weekday(day)
            /\ NextDay(req, day) =
                  IF i = Len(w) THEN day + (7 - w[i] + w[1]) + 7 * (c - 1)
                  ELSE day + (w[i + 1] - w[i])
      BY <1>3, <2>1, NextIndex DEF Fits
    <2> DEFINE a == w[i]
    <2>3. day = 7 * q + a /\ a \in 0 .. 6
      BY <2>2, DayOfWeek
    <2>4. ASSUME NEW d \in Int, InCadence(d)
          PROVE  \E p \in Int, k \in DOMAIN w :
                    d = 7 * p + w[k] /\ (p - f) % c = 0
      <3>1. Fits(d) /\ ((d \div 7) - f) % c = 0
        BY <1>3, <2>4 DEF InCadence
      <3>2. PICK k \in DOMAIN w : w[k] = Weekday(d)
        BY <3>1 DEF Fits, Elements
      <3> QED
        BY <3>1, <3>2, DayOfWeek
    <2>5. ASSUME NEW p \in Int, NEW k \in DOMAIN w, (p - f) % c = 0
          PROVE  InCadence(7 * p + w[k])
      <3>1. w[k] \in 0 .. 6
        BY <1>1
      <3>2. Weekday(7 * p + w[k]) = w[k] /\ (7 * p + w[k]) \div 7 = p
        BY <3>1, DayOfWeek
      <3> QED
        BY <1>3, <2>5, <3>2 DEF InCadence, Fits, Elements
    <2>6. \A j, k \in DOMAIN w : j < k => w[j] < w[k]
      BY <1>3 DEF WeekOrder
    <2>7. CASE i = Len(w)
      <3> DEFINE b == w[1]
      <3>1. 1 \in DOMAIN w /\ b \in 0 .. 6
        BY <1>1, <2>2
      <3>2. NextDay(req, day) = 7 * (q + c) + b
        <4>1. NextDay(req, day) = day + (7 - a + b) + 7 * (c - 1)
          BY <2>2, <2>7
        <4> HIDE DEF a, b, c, q
        <4> QED
          BY <1>1, <2>1, <2>3, <3>1, <4>1
      <3>3. ((q + c) - f) % c = 0
        <4> HIDE DEF c, q, f
        <4>1. (q + c) - f = (q - f) + c /\ q - f \in Int
          BY <1>1, <2>1
        <4> QED
          BY <1>1, <2>1, <4>1, NextMultiple
      <3>4. InCadence(7 * (q + c) + b)
        <4>1. q + c \in Int
          BY <1>1, <2>1
        <4> QED
          BY <2>5, <3>1, <3>3, <4>1
      <3>5. ASSUME NEW d \in Int, day < d, d < 7 * (q + c) + b, InCadence(d)
            PROVE  FALSE
        <4>1. PICK p \in Int, k \in DOMAIN w :
                d = 7 * p + w[k] /\ (p - f) % c = 0
          BY <2>4, <3>5
        <4>2. w[k] \in 0 .. 6 /\ b <= w[k] /\ w[k] <= a
          <5>1. k \in 1 .. Len(w) /\ Len(w) \in Nat
            BY <1>1
          <5>2. (k = 1 \/ 1 < k) /\ (k = i \/ k < i)
            BY <2>7, <5>1
          <5>3. w[k] \in 0 .. 6
            BY <1>1
          <5>4. b <= w[k]
            BY <2>6, <3>1, <5>2, <5>3
          <5>5. w[k] <= a
            BY <2>2, <2>3, <2>6, <5>2, <5>3
          <5> QED
            BY <5>3, <5>4, <5>5
        <4> DEFINE e == w[k]
        <4>3. /\ d = 7 * p + e /\ e \in 0 .. 6 /\ b <= e /\ e <= a
          BY <4>1, <4>2
        <4> HIDE DEF a, b, c, q, f, e
        <4>4. q < p /\ p < q + c
          BY <1>1, <2>1, <2>3, <3>1, <3>5, <4>3
        <4>5. (p - f) \in Int /\ (q - f) \in Int /\ q - f < p - f
              /\ p - f < (q - f) + c
          BY <1>1, <2>1, <4>4
        <4> QED
          BY <1>1, <2>1, <4>1, <4>5, NextMultiple
      <3> QED
        BY <3>2, <3>4, <3>5
    <2>8. CASE i # Len(w)
      <3> DEFINE b == w[i + 1]
      <3>1. i + 1 \in DOMAIN w /\ b \in 0 .. 6 /\ a < b
        BY <1>1, <2>2, <2>6, <2>8
      <3>2. NextDay(req, day) = 7 * q + b
        <4>1. NextDay(req, day) = day + (b - a)
          BY <2>2, <2>8
        <4> HIDE DEF a, b, q
        <4> QED
          BY <2>1, <2>3, <3>1, <4>1
      <3>3. InCadence(7 * q + b)
        BY <2>1, <2>5, <3>1
      <3>4. ASSUME NEW d \in Int, day < d, d < 7 * q + b, InCadence(d)
            PROVE  FALSE
        <4>1. PICK p \in Int, k \in DOMAIN w : d = 7 * p + w[k]
          BY <2>4, <3>4
        <4>2. w[k] \in 0 .. 6 /\ (w[k] <= a \/ b <= w[k])
          <5>1. k \in Int /\ i \in Int
            BY <1>1
          <5>2. k < i \/ k = i \/ k = i + 1 \/ i + 1 < k
            BY <5>1
          <5>3. w[k] \in 0 .. 6
            BY <1>1
          <5>4. k \in DOMAIN w /\ i \in DOMAIN w /\ i + 1 \in DOMAIN w
            BY <3>1
          <5>5. CASE k < i
            BY <2>3, <2>6, <5>3, <5>4, <5>5
          <5>6. CASE i + 1 < k
            BY <2>6, <3>1, <5>3, <5>4, <5>6
          <5> QED
            BY <2>3, <3>1, <5>2, <5>3, <5>5, <5>6
        <4> DEFINE e == w[k]
        <4>3. d = 7 * p + e /\ e \in 0 .. 6 /\ (e <= a \/ b <= e)
          BY <4>1, <4>2
        <4> HIDE DEF a, b, q, e
        <4> QED
          BY <2>1, <2>3, <3>1, <3>4, <4>3
      <3> QED
        BY <3>2, <3>3, <3>4
    <2> QED
      BY <2>7, <2>8
  <1> QED
    BY <1>1, <1>2, <1>3

-----------------------------------------------------------------------------
(* The loop books the days asked for.                                      *)

(* Where the loop stands is one of the days, and what it has booked are    *)
(* all those before.                                                       *)
DaysInv ==
  /\ at = "start" => cur = req.enter
  /\ at = "align" => /\ req.cadence = "weekly" /\ req.weekdays # <<>>
                     /\ \A e \in req.enter .. cur - 1 : ~Fits(e)
  /\ at = "loop" => /\ InCadence(cur)
                    /\ req.cadence = "weekly" => FirstDay \in Int
                    /\ Elements(res) = {d \in Wanted : d < cur}
  /\ at = "done" => Elements(res) = Wanted
  /\ Len(res) <= MaxRecurringBookings
  /\ at = "error" => Cardinality(Wanted) > MaxRecurringBookings

LEMMA InitDays == Init => DaysInv
  BY DEF Init, DaysInv

LEMMA SameRequest ==
  ASSUME req' = req
  PROVE  /\ Wanted' = Wanted /\ FirstDay' = FirstDay
         /\ \A d : Fits(d)' = Fits(d)
  <1>1. \A d : Fits(d)' = Fits(d)
    BY DEF Fits
  <1>2. Wanted' = Wanted
    BY DEF Wanted
  <1>3. FirstDay' = FirstDay
    BY DEF FirstDay, Fits
  <1> QED
    BY <1>1, <1>2, <1>3

LEMMA ElementsOfAppend ==
  ASSUME NEW s \in Seq(Int), NEW x \in Int
  PROVE  Elements(Append(s, x)) = Elements(s) \cup {x}
  <1>1. /\ DOMAIN Append(s, x) = 1 .. Len(s) + 1 /\ DOMAIN s = 1 .. Len(s)
        /\ Len(s) \in Nat
        /\ Append(s, x)[Len(s) + 1] = x
        /\ \A k \in 1 .. Len(s) : Append(s, x)[k] = s[k]
    OBVIOUS
  <1> DEFINE t == Append(s, x)
  <1> HIDE DEF t
  <1>2. 1 .. Len(s) + 1 = (1 .. Len(s)) \cup {Len(s) + 1}
    BY <1>1
  <1>3. DOMAIN t = (DOMAIN s) \cup {Len(s) + 1} /\ t[Len(s) + 1] = x
        /\ \A k \in DOMAIN s : t[k] = s[k]
    BY <1>1, <1>2 DEF t
  <1>4. Elements(t) = Elements(s) \cup {x}
    BY <1>3 DEF Elements
  <1> QED
    BY <1>4 DEF t

(* A list in order has as many elements as it is long.                     *)
LEMMA ElementsOfOrdered ==
  ASSUME NEW s \in Seq(Int), \A j, k \in DOMAIN s : j < k => s[j] < s[k]
  PROVE  IsFiniteSet(Elements(s)) /\ Cardinality(Elements(s)) = Len(s)
  <1>1. /\ Len(s) \in Nat /\ DOMAIN s = 1 .. Len(s)
        /\ \A k \in 1 .. Len(s) : s[k] \in Int
    OBVIOUS
  <1>2. s \in [1 .. Len(s) -> Elements(s)]
    BY <1>1 DEF Elements
  <1>3. \A j, k \in 1 .. Len(s) : s[j] = s[k] => j = k
    BY <1>1
  <1>4. \A t \in Elements(s) : \E k \in 1 .. Len(s) : s[k] = t
    BY <1>1 DEF Elements
  <1>5. s \in Bijection(1 .. Len(s), Elements(s))
    BY <1>1, <1>2, <1>3, <1>4
       DEF Bijection, Injection, Surjection, IsInjective
  <1>6. ExistsBijection(1 .. Len(s), Elements(s))
    BY <1>5 DEF ExistsBijection
  <1> QED
    BY <1>1, <1>6, FS_CountingElements, FS_NatBijection

LEMMA StepDays ==
  ASSUME \A r \in Requests : r.cadence = "weekly" => WeekOrder(r)
  PROVE  WeekdaysInv /\ OrderInv /\ DaysInv /\ [Next]_vars => DaysInv'
  <1> SUFFICES ASSUME WeekdaysInv, OrderInv, DaysInv, [Next]_vars PROVE DaysInv'
    OBVIOUS
  <1>0. /\ req \in Request /\ cur \in Int /\ res \in Seq(Int) /\ Len(res) \in Nat
        /\ req.enter \in Int /\ req.end \in Int /\ req.enter <= cur
        /\ req.cadence \in {"daily", "weekly"}
        /\ req.cycle \in Nat /\ req.cycle > 0
        /\ req.cadence = "weekly" => WeekOrder(req)
        /\ MaxRecurringBookings \in Nat
    BY RequestFields DEF WeekdaysInv, TypeOK, OrderInv
  <1>1. CASE Start
    <2>1. req' = req /\ cur' = cur /\ res' = res /\ res = <<>> /\ cur = req.enter
      BY <1>1 DEF Start, OrderInv, DaysInv
    <2>2. Elements(res) = {} /\ Len(res) = 0
      BY <2>1 DEF Elements
    <2>3. CASE req.cadence = "daily"
      <3>1. at' = "loop" /\ 0 % req.cycle = 0 /\ cur - req.enter = 0
        BY <1>0, <1>1, <2>1, <2>3 DEF Start
      <3>2. InCadence(cur)'
        BY <2>1, <2>3, <3>1 DEF InCadence
      <3>3. {d \in Wanted : d < cur} = {}
        BY <1>0, <2>1, WantedDays
      <3> QED
        BY <1>0, <2>1, <2>2, <2>3, <3>1, <3>2, <3>3, SameRequest DEF DaysInv
    <2>4. CASE req.cadence = "weekly" /\ req.weekdays = <<>>
      <3>1. at' = "done"
        BY <1>1, <2>4 DEF Start
      <3>2. \A d : ~InCadence(d)
        BY <2>4 DEF InCadence, Fits, Elements
      <3>3. Wanted = {}
        BY <3>2, WantedDays
      <3> QED
        BY <1>0, <2>1, <2>2, <3>1, <3>3, SameRequest DEF DaysInv
    <2>5. CASE req.cadence = "weekly" /\ req.weekdays # <<>>
      <3>1. at' = "align"
        BY <1>1, <2>5 DEF Start
      <3>2. req.enter .. cur - 1 = {}
        BY <1>0, <2>1
      <3> QED
        BY <1>0, <2>1, <2>2, <2>5, <3>1, <3>2 DEF DaysInv
    <2> QED
      BY <1>0, <2>3, <2>4, <2>5
  <1>2. CASE Align
    <2>1. /\ req' = req /\ res' = res /\ res = <<>>
          /\ req.cadence = "weekly" /\ req.weekdays # <<>>
          /\ \A e \in req.enter .. cur - 1 : ~Fits(e)
      BY <1>2 DEF Align, OrderInv, DaysInv
    <2>2. Elements(res) = {} /\ Len(res) = 0
      BY <2>1 DEF Elements
    <2>3. CASE Fits(cur)
      <3>1. at' = "loop" /\ cur' = cur
        BY <1>2, <2>3 DEF Align, Fits
      <3>2. FirstDay = cur
        BY <1>0, <2>1, <2>3, FirstDayFound
      <3>3. InCadence(cur)
        <4>1. (cur \div 7) - (cur \div 7) = 0 /\ 0 % req.cycle = 0
          BY <1>0
        <4> QED
          BY <2>1, <2>3, <3>2, <4>1 DEF InCadence
      <3>4. InCadence(cur)'
        BY <2>1, <3>1, <3>3, SameRequest DEF InCadence
      <3>5. {d \in Wanted : d < cur} = {}
        <4>1. SUFFICES ASSUME NEW d \in Wanted, d < cur PROVE FALSE
          OBVIOUS
        <4>2. d \in Int /\ req.enter <= d /\ Fits(d)
          BY <1>0, <2>1, <4>1, WantedDays DEF InCadence
        <4>3. d \in req.enter .. cur - 1
          BY <1>0, <4>1, <4>2
        <4> QED
          BY <2>1, <4>2, <4>3
      <3> QED
        BY <1>0, <2>1, <2>2, <3>1, <3>2, <3>4, <3>5, SameRequest DEF DaysInv
    <2>4. CASE ~Fits(cur)
      <3>1. at' = "align" /\ cur' = cur + 1
        BY <1>2, <2>4 DEF Align, Fits
      <3>2. \A e \in req.enter .. (cur + 1) - 1 : ~Fits(e)
        <4>1. \A e \in req.enter .. (cur + 1) - 1 :
                 e = cur \/ e \in req.enter .. cur - 1
          BY <1>0
        <4> QED
          BY <2>1, <2>4, <4>1
      <3> QED
        BY <1>0, <2>1, <2>2, <3>1, <3>2, SameRequest DEF DaysInv
    <2> QED
      BY <2>3, <2>4
  <1>3. CASE Turn
    <2>1. /\ at = "loop" /\ at' = at /\ req' = req /\ cur < req.end
          /\ res' = Append(res, cur) /\ cur' = NextDay(req, cur)
          /\ Len(res) < MaxRecurringBookings
      BY <1>0, <1>3 DEF Turn, Full
    <2>2. /\ InCadence(cur)
          /\ req.cadence = "weekly" => FirstDay \in Int
          /\ Elements(res) = {d \in Wanted : d < cur}
      BY <2>1 DEF DaysInv
    <2>3. /\ InCadence(cur')
          /\ \A d \in Int : cur < d /\ d < cur' => ~InCadence(d)
      BY <1>0, <2>1, <2>2, NextInCadence
    <2>4. cur' \in Int /\ cur < cur'
      <3>1. CASE req.cadence = "daily"
        BY <1>0, <2>1, <3>1, NextDaily
      <3>2. CASE req.cadence = "weekly"
        BY <1>0, <2>1, <3>2, NextWeekday DEF WeekdaysInv, Aligned
      <3> QED
        BY <1>0, <3>1, <3>2
    <2>5. {d \in Wanted : d < cur'} = {d \in Wanted : d < cur} \cup {cur}
      <3>1. cur \in Wanted
        BY <1>0, <2>1, <2>2, WantedDays
      <3>2. \A d \in Wanted : d \in Int /\ InCadence(d)
        BY <1>0, WantedDays
      <3>3. \A d \in Wanted : d < cur' => d < cur \/ d = cur
        BY <1>0, <2>3, <2>4, <3>2
      <3>4. \A d \in Wanted : d < cur => d < cur'
        BY <1>0, <2>4, <3>2
      <3> QED
        BY <2>4, <3>1, <3>3, <3>4
    <2>6. Elements(res') = {d \in Wanted : d < cur'}
      BY <1>0, <2>1, <2>2, <2>5, ElementsOfAppend
    <2>7. InCadence(cur)'
      BY <2>1, <2>3, SameRequest DEF InCadence
    <2>8. Len(res') <= MaxRecurringBookings
      BY <1>0, <2>1
    <2> QED
      BY <2>1, <2>2, <2>6, <2>7, <2>8, SameRequest DEF DaysInv
  <1>4. CASE TurnLimit
    <2>1. /\ at = "loop" /\ at' = "error" /\ req' = req /\ cur < req.end
          /\ res' = <<>> /\ Len(res) >= MaxRecurringBookings
      BY <1>4 DEF TurnLimit, Full
    <2>2. InCadence(cur) /\ Elements(res) = {d \in Wanted : d < cur}
      BY <2>1 DEF DaysInv
    <2>3. IsFiniteSet(Elements(res)) /\ Cardinality(Elements(res)) = Len(res)
      BY <1>0, ElementsOfOrdered DEF OrderInv, InOrderFromStart
    <2>4. cur \notin Elements(res) /\ Elements(res) \cup {cur} \subseteq Wanted
      BY <1>0, <2>1, <2>2, WantedDays
    <2>5. IsFiniteSet(Wanted)
      <3>1. Wanted \subseteq req.enter .. req.end - 1
        BY WantedDays
      <3>2. IsFiniteSet(req.enter .. req.end - 1)
        <4>1. req.end - 1 \in Int
          BY <1>0
        <4> QED
          BY <1>0, <4>1, FS_Interval
      <3> QED
        BY <3>1, <3>2, FS_Subset
    <2>6. Cardinality(Elements(res) \cup {cur}) = Len(res) + 1
      BY <2>3, <2>4, FS_AddElement
    <2>7. Cardinality(Elements(res) \cup {cur}) <= Cardinality(Wanted)
      BY <2>4, <2>5, FS_Subset
    <2>8. Cardinality(Wanted) \in Nat
      BY <2>5, FS_CardinalityType
    <2>9. Cardinality(Wanted) > MaxRecurringBookings
      BY <1>0, <2>1, <2>6, <2>7, <2>8
    <2> QED
      BY <1>0, <2>1, <2>9, SameRequest DEF DaysInv
  <1>5. CASE End
    <2>1. /\ at = "loop" /\ at' = "done" /\ req' = req /\ res' = res
          /\ cur >= req.end
      BY <1>5 DEF End
    <2>2. Elements(res) = {d \in Wanted : d < cur}
      BY <2>1 DEF DaysInv
    <2>3. \A d \in Wanted : d < cur
      BY <1>0, <2>1, WantedDays
    <2>4. Elements(res) = Wanted
      BY <2>2, <2>3
    <2> QED
      BY <2>1, <2>4, SameRequest DEF DaysInv
  <1>6. CASE UNCHANGED vars
    <2>1. req' = req /\ cur' = cur /\ res' = res /\ at' = at
      BY <1>6 DEF vars
    <2>2. InCadence(cur)' = InCadence(cur)
      BY <2>1, SameRequest DEF InCadence
    <2> QED
      BY <2>1, <2>2, SameRequest DEF DaysInv
  <1> QED
    BY <1>1, <1>2, <1>3, <1>4, <1>5, <1>6 DEF Next

LEMMA DaysImply ==
  WeekdaysInv /\ OrderInv /\ DaysInv => ExactlyTheDays /\ RefusedWhenTooLong
  <1> SUFFICES ASSUME WeekdaysInv, OrderInv, DaysInv
               PROVE  ExactlyTheDays /\ RefusedWhenTooLong
    OBVIOUS
  <1>1. /\ res \in Seq(Int) /\ Len(res) \in Nat /\ DOMAIN res = 1 .. Len(res)
        /\ \A j, k \in DOMAIN res : j < k => res[j] < res[k]
    BY DEF WeekdaysInv, TypeOK, OrderInv, InOrderFromStart
  <1>2. Cardinality(Elements(res)) = Len(res)
    BY <1>1, ElementsOfOrdered
  <1>3. \A k \in 1 .. Len(res) - 1 : res[k] < res[k + 1]
    BY <1>1
  <1> QED
    BY <1>2, <1>3 DEF DaysInv, ExactlyTheDays, RefusedWhenTooLong

(* When every list of weekdays is in the order of the week, the loop books *)
(* exactly the days asked for: every cycle-th day, or the weekdays asked   *)
(* for of every cycle-th week, none missing and none twice.                *)
THEOREM ExactlyTheDaysAskedFor ==
  ASSUME \A r \in Requests : r.cadence = "weekly" => WeekOrder(r)
  PROVE  Spec => []ExactlyTheDays
  <1>1. WeekdaysInv /\ OrderInv /\ [Next]_vars => OrderInv'
    BY StepOrder
  <1>2. WeekdaysInv /\ OrderInv /\ DaysInv /\ [Next]_vars => DaysInv'
    BY StepDays
  <1> QED
    BY <1>1, <1>2, InitWeekdays, StepWeekdays, InitOrder, InitDays, DaysImply,
       PTL DEF Spec

(* And it gives up exactly when there are more of them than a series may   *)
(* have.                                                                   *)
THEOREM RefusedOnlyWhenTooLong ==
  ASSUME \A r \in Requests : r.cadence = "weekly" => WeekOrder(r)
  PROVE  Spec => []RefusedWhenTooLong
  <1>1. WeekdaysInv /\ OrderInv /\ [Next]_vars => OrderInv'
    BY StepOrder
  <1>2. WeekdaysInv /\ OrderInv /\ DaysInv /\ [Next]_vars => DaysInv'
    BY StepDays
  <1> QED
    BY <1>1, <1>2, InitWeekdays, StepWeekdays, InitOrder, InitDays, DaysImply,
       PTL DEF Spec
=============================================================================
