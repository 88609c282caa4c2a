--------------------------- MODULE Sessions_proofs --------------------------
(***************************************************************************)
(* What holds of Sessions for any number of tabs, queries, logins, tokens  *)
(* and faults.                                                             *)
(***************************************************************************)
EXTENDS Sessions, FiniteSetTheorems, TLAPS

(* The queries that hold the mutex of their tab, and those in line for it. *)
Holds(r) ==
    \/ r.step \in RefreshReplies
    \/ r.step \in RefreshSteps /\ r.heard

InLine(r) == r.step = "queued" \/ Holds(r)

AtHead(q) == line[tabOf[q]] # <<>> /\ line[tabOf[q]][1] = q

(* Nobody releases a mutex another one holds.                              *)
Mutex ==
    \A q \in Queries :
        /\ InLine(queries[q]) => \E i \in 1 .. Len(line[tabOf[q]]) :
                                     line[tabOf[q]][i] = q
        /\ Holds(queries[q]) => AtHead(q)

(* A token is issued for a session there has been.                         *)
SessionKnown ==
    /\ \A q \in Queries : At(q, {"insert", "newToken"}) =>
                              queries[q].sid \in 1 .. opened
    /\ \A k \in 1 .. Len(owner) : owner[k] \in 1 .. opened

TypeInv == TypeOK /\ Mutex /\ SessionKnown

(* Logins for which room was made count like the sessions they insert.     *)
Opening == {q \in Queries : queries[q].step = "newSession"}

RoomMade ==
    Cardinality(sessions) + Cardinality(Opening)
        <= MaxSessions - 1 + Cardinality(Queries)

(* A query that brings its tab a new refresh token, and one that presents, *)
(* or is about to present, an old one.                                     *)
Brings(r) ==
    \/ r.step \in {"delete", "refreshed"}
    \/ r.step = "answered" /\ r.kind = "login"

Presents(r) == r.step \in {"queued"} \cup RefreshSteps

(* Tokens that are stored or presented have been issued.                   *)
Issued ==
    /\ storage.refresh \in 0 .. Len(owner)
    /\ \A q \in Queries : Presents(queries[q]) =>
                              queries[q].token \in 1 .. Len(owner)

(* A token on its way to a tab is known to nobody else.                    *)
Secret ==
    \A q \in Queries : Brings(queries[q]) =>
        /\ queries[q].fresh \in 1 .. Len(owner)
        /\ queries[q].fresh # storage.refresh
        /\ \A p \in Queries :
              /\ Presents(queries[p]) => queries[p].token # queries[q].fresh
              /\ Brings(queries[p]) /\ p # q
                    => queries[p].fresh # queries[q].fresh

(* So it is not used before it arrives.                                    *)
Works(k) == k \in alive \/ owner[k] \notin sessions \/ k <= lapsed

ArrivesUnused ==
    \A q \in Queries : Brings(queries[q]) => Works(queries[q].fresh)

(* A stored token that was used is about to be replaced, unless whoever    *)
(* used it is not listened to any more.                                    *)
Renewed ==
    /\ storage.access = storage.refresh
    /\ storage.refresh # None /\ ~missed =>
          Works(storage.refresh) \/ \E q \in Queries : queries[q].step = "refreshed"
    /\ \A q \in Queries : Presents(queries[q]) /\ ~queries[q].heard => missed

(* To log in one needs no token, so that no token is looked at.            *)
Checked(r) == r.step \in {"verify", "end"}

NoLoginChecked ==
    \A q \in Queries : Checked(queries[q]) => queries[q].kind # "login"

LoginInv == Issued /\ Secret /\ ArrivesUnused /\ Renewed /\ NoLoginChecked

-----------------------------------------------------------------------------
(* The records of the queries.                                             *)
LEMMA IdleTyped == Idle \in Query /\ Idle.step = "idle" /\ Idle.heard = TRUE
BY DEF Idle, Query, Steps, Kinds, None

LEMMA RequestTyped ==
    ASSUME NEW kind \in Kinds, NEW k \in Tokens \cup {None}
    PROVE  /\ Request(kind, k) \in Query
           /\ Request(kind, k).step \in {"count", "verify"}
           /\ Checked(Request(kind, k)) => Request(kind, k).kind # "login"
<1>1. CASE kind = "login"
  BY <1>1, IdleTyped DEF Request, Checked, Query, Steps, RequestSteps
<1>2. CASE kind # "login"
  BY <1>2, IdleTyped DEF Request, Checked, Query, Steps, RequestSteps
<1> QED BY <1>1, <1>2

LEMMA UnheardTyped ==
    ASSUME NEW r \in Query
    PROVE  /\ Unheard(r) \in Query
           /\ ~InLine(Unheard(r))
           /\ Unheard(r).step = "idle" \/ Unheard(r) = [r EXCEPT !.heard = FALSE]
<1>1. CASE Unheard(r) = Idle
  BY <1>1, IdleTyped DEF InLine, Holds, RefreshSteps, RefreshReplies
<1>2. CASE /\ Unheard(r) = [r EXCEPT !.heard = FALSE]
           /\ r.step \notin {"idle", "queued"} \cup RefreshReplies \cup Replies
  BY <1>2 DEF InLine, Holds, RefreshSteps, RefreshReplies, Query
<1> QED BY <1>1, <1>2 DEF Unheard

(* Three ways in which a query and the line for the mutex go on.           *)
LEMMA StaysInLine ==
    ASSUME TypeInv, NEW q \in Queries, NEW r \in Query,
           queries' = [queries EXCEPT ![q] = r], UNCHANGED <<tabOf, line>>,
           InLine(r) => InLine(queries[q]), Holds(r) => Holds(queries[q]) \/ AtHead(q)
    PROVE  Mutex'
BY DEF TypeInv, TypeOK, Mutex, AtHead

LEMMA JoinsLine ==
    ASSUME TypeInv, NEW q \in Queries, NEW r \in Query, r.step = "queued",
           queries' = [queries EXCEPT ![q] = r], UNCHANGED tabOf,
           line' = [line EXCEPT ![tabOf[q]] = Append(line[tabOf[q]], q)]
    PROVE  /\ Mutex'
           /\ line' \in [Tabs -> Seq(Queries)]
<1>1. ~Holds(r) /\ line \in [Tabs -> Seq(Queries)] /\ tabOf \in [Queries -> Tabs]
  BY DEF Holds, RefreshSteps, RefreshReplies, TypeInv, TypeOK
<1> DEFINE t == tabOf[q]
<1>2. /\ line'[t] # <<>> /\ Len(line'[t]) = Len(line[t]) + 1
      /\ line'[t][Len(line'[t])] = q
      /\ \A i \in 1 .. Len(line[t]) : line'[t][i] = line[t][i]
      /\ \A u \in Tabs \ {t} : line'[u] = line[u]
      /\ line' \in [Tabs -> Seq(Queries)]
  <2>1. t \in Tabs /\ line[t] \in Seq(Queries)
    BY <1>1
  <2>2. line'[t] = Append(line[t], q)
    BY <1>1, <2>1
  <2>3. Append(line[t], q) \in Seq(Queries)
    BY <2>1
  <2>4. /\ Len(Append(line[t], q)) = Len(line[t]) + 1
        /\ Append(line[t], q)[Len(line[t]) + 1] = q
        /\ \A i \in 1 .. Len(line[t]) : Append(line[t], q)[i] = line[t][i]
    BY <2>1
  <2>5. line'[t] # <<>>
    BY <2>1, <2>2, <2>4
  <2> QED BY <1>1, <2>1, <2>2, <2>3, <2>4, <2>5
<1>3. ASSUME NEW p \in Queries
      PROVE  /\ InLine(queries'[p]) => \E i \in 1 .. Len(line'[tabOf[p]]) :
                                      line'[tabOf[p]][i] = p
             /\ Holds(queries'[p])
                   => line'[tabOf[p]] # <<>> /\ line'[tabOf[p]][1] = p
  <2>1. CASE p = q
    BY <2>1, <1>1, <1>2 DEF TypeInv, TypeOK
  <2>2. CASE p # q
    <3>1. queries'[p] = queries[p]
      BY <2>2
    <3>2. CASE tabOf[p] # t
      BY <3>1, <3>2, <1>1, <1>2 DEF TypeInv, Mutex, AtHead
    <3>3. CASE tabOf[p] = t
      <4>1. InLine(queries[p]) => \E i \in 1 .. Len(line[t]) : line[t][i] = p
        BY <3>3 DEF TypeInv, Mutex
      <4>2. Holds(queries[p]) => line[t] # <<>> /\ line[t][1] = p
        BY <3>3 DEF TypeInv, Mutex, AtHead
      <4>3. line[t] # <<>> => line'[t][1] = line[t][1]
        BY <1>1, <1>2
      <4> QED BY <3>1, <3>3, <4>1, <4>2, <4>3, <1>1, <1>2
    <3> QED BY <3>2, <3>3
  <2> QED BY <2>1, <2>2
<1> QED BY <1>2, <1>3 DEF Mutex, AtHead

LEMMA LeavesLine ==
    ASSUME TypeInv, NEW q \in Queries, NEW r \in Query, ~InLine(r), AtHead(q),
           queries' = [queries EXCEPT ![q] = r], UNCHANGED tabOf,
           line' = [line EXCEPT ![tabOf[q]] = Tail(line[tabOf[q]])]
    PROVE  /\ Mutex'
           /\ line' \in [Tabs -> Seq(Queries)]
<1> DEFINE t == tabOf[q]
<1>1. ~Holds(r) /\ line \in [Tabs -> Seq(Queries)] /\ tabOf \in [Queries -> Tabs]
  BY DEF InLine, TypeInv, TypeOK
<1>2. line[t] # <<>> /\ line[t][1] = q /\ line[t] \in Seq(Queries)
  BY <1>1 DEF AtHead
<1>3. /\ line'[t] \in Seq(Queries)
      /\ Len(line'[t]) = Len(line[t]) - 1
      /\ \A i \in 2 .. Len(line[t]) : line'[t][i-1] = line[t][i]
      /\ \A u \in Tabs \ {t} : line'[u] = line[u]
  BY <1>1, <1>2
<1>4. ASSUME NEW p \in Queries
      PROVE  /\ InLine(queries'[p]) => \E i \in 1 .. Len(line'[tabOf[p]]) :
                                      line'[tabOf[p]][i] = p
             /\ Holds(queries'[p])
                   => line'[tabOf[p]] # <<>> /\ line'[tabOf[p]][1] = p
  <2>1. CASE p = q
    BY <2>1, <1>1 DEF TypeInv, TypeOK
  <2>2. CASE p # q
    <3>1. queries'[p] = queries[p]
      BY <2>2
    <3>2. CASE tabOf[p] # t
      BY <3>1, <3>2, <1>1, <1>3 DEF TypeInv, Mutex, AtHead
    <3>3. CASE tabOf[p] = t
      <4>1. ~Holds(queries[p])
        BY <3>3, <2>2, <1>2 DEF TypeInv, Mutex, AtHead
      <4>2. ASSUME InLine(queries[p])
            PROVE  \E i \in 1 .. Len(line'[t]) : line'[t][i] = p
        <5>1. PICK i \in 1 .. Len(line[t]) : line[t][i] = p
          BY <4>2, <3>3 DEF TypeInv, Mutex
        <5>2. i \in 2 .. Len(line[t]) 
          BY <5>1, <1>2, <2>2
        <5>3. i - 1 \in 1 .. Len(line'[t]) /\ line'[t][i-1] = p
          BY <5>1, <5>2, <1>2, <1>3
        <5> QED BY <5>3
      <4> QED BY <3>1, <3>3, <4>1, <4>2
    <3> QED BY <3>2, <3>3
  <2> QED BY <2>1, <2>2
<1> QED BY <1>1, <1>3, <1>4 DEF Mutex, AtHead

(* A query goes on to r; what is left to show of the state.                *)
LEMMA ClientStep ==
    ASSUME TypeInv, NEW q \in Queries, NEW r \in Query,
           queries' = [queries EXCEPT ![q] = r], Mutex',
           r.step \in {"insert", "newToken"}
               => r.step = queries[q].step /\ r.sid = queries[q].sid,
           page' \in [Tabs -> Pages], line' \in [Tabs -> Seq(Queries)],
           storage' \in [access : Tokens \cup {None}, refresh : Tokens \cup {None}],
           missed' \in BOOLEAN, faults' \in Nat,
           UNCHANGED <<tabOf, server, time>>
    PROVE  TypeInv'
<1>1. UNCHANGED <<tabOf, sessions, opened, owner, alive, expired, lapsed, banned>>
  BY DEF server, time
<1>2. TypeOK'
  BY <1>1 DEF TypeInv, TypeOK
<1>3. SessionKnown'
  BY <1>1 DEF TypeInv, TypeOK, SessionKnown, At
<1> QED BY <1>2, <1>3 DEF TypeInv

LEMMA HandlerStep ==
    ASSUME TypeInv, NEW q \in Queries, NEW r \in Query,
           queries' = [queries EXCEPT ![q] = r],
           InLine(r) => InLine(queries[q]),
           Holds(r) => Holds(queries[q]) \/ AtHead(q),
           r.step \in {"insert", "newToken"} => r.sid \in 1 .. opened',
           opened' \in opened .. MaxLogins, sessions' \subseteq 1 .. opened',
           owner' \in Seq(Sids), Len(owner') \in Len(owner) .. MaxTokens,
           \A k \in 1 .. Len(owner') : owner'[k] \in 1 .. opened',
           alive' \subseteq Tokens,
           UNCHANGED <<tabOf, browser, time, missed, faults>>
    PROVE  TypeInv'
<1>1. UNCHANGED <<tabOf, page, storage, line, expired, lapsed, banned, missed,
                  faults>>
  BY DEF browser, time
<1>2. Mutex'
  BY <1>1, StaysInLine
<1>3. TypeOK'
  BY <1>1, BoundsAssumption DEF TypeInv, TypeOK
<1>4. SessionKnown'
  BY <1>1, BoundsAssumption DEF TypeInv, TypeOK, SessionKnown, At
<1> QED BY <1>2, <1>3, <1>4 DEF TypeInv

(* Each action of a query.                                                 *)
LEMMA StartQueryTyped ==
    ASSUME TypeInv, NEW q \in Queries, NEW kind \in Kinds,
           StartQuery(q, kind), page' \in [Tabs -> Pages], At(q, {"idle"})
    PROVE  TypeInv'
<1> USE DEF StartQuery, Become
<1>1. UNCHANGED <<tabOf, storage, server, time, missed, faults>>
  OBVIOUS
<1>2. CASE storage.refresh # None
  <2> DEFINE r == [Idle EXCEPT !.kind = kind, !.step = "queued",
                               !.token = storage.refresh]
  <2>1. r \in Query /\ r.step = "queued"
    BY IdleTyped DEF TypeInv, TypeOK, Query, Steps
  <2>2. /\ queries' = [queries EXCEPT ![q] = r]
        /\ line' = [line EXCEPT ![tabOf[q]] = Append(line[tabOf[q]], q)]
    BY <1>2
  <2> HIDE DEF r
  <2>3. Mutex' /\ line' \in [Tabs -> Seq(Queries)]
    BY <1>1, <2>1, <2>2, JoinsLine
  <2> QED BY <1>1, <2>1, <2>2, <2>3, ClientStep DEF TypeInv, TypeOK
<1>3. CASE ~(storage.refresh # None)
  <2> DEFINE r == Request(kind, storage.access)
  <2>1. r \in Query /\ r.step \in {"count", "verify"}
    BY RequestTyped DEF TypeInv, TypeOK
  <2>2. queries' = [queries EXCEPT ![q] = r] /\ line' = line
    BY <1>3
  <2> HIDE DEF r
  <2>3. Mutex'
    BY <1>1, <2>1, <2>2, StaysInLine
       DEF InLine, Holds, RefreshSteps, RefreshReplies
  <2> QED BY <1>1, <2>1, <2>2, <2>3, ClientStep DEF TypeInv, TypeOK
<1> QED BY <1>2, <1>3

LEMMA AcquireTyped ==
    ASSUME TypeInv, NEW q \in Queries, Acquire(q)
    PROVE  TypeInv'
<1>1. UNCHANGED <<tabOf, page, storage, server, time, missed,
                  faults>> /\ queries[q] \in Query
  BY DEF Acquire, TypeInv, TypeOK
<1>2. queries[q].step = "queued" /\ AtHead(q)
  <2>1. queries[q].step = "queued" /\ Head(line[tabOf[q]]) = q
    BY DEF Acquire, At
  <2>2. PICK i \in 1 .. Len(line[tabOf[q]]) : line[tabOf[q]][i] = q
    BY <2>1 DEF TypeInv, Mutex, InLine
  <2>3. line[tabOf[q]] \in Seq(Queries)
    BY DEF TypeInv, TypeOK
  <2> QED BY <2>1, <2>2, <2>3 DEF AtHead
<1>3. CASE storage.access # None /\ storage.access > expired
  <2> DEFINE r == Request(queries[q].kind, storage.access)
  <2>1. r \in Query /\ r.step \in {"count", "verify"}
    BY <1>1, RequestTyped DEF TypeInv, TypeOK, Query
  <2>2. /\ queries' = [queries EXCEPT ![q] = r]
        /\ line' = [line EXCEPT ![tabOf[q]] = Tail(line[tabOf[q]])]
    BY <1>3 DEF Acquire, Become
  <2> HIDE DEF r
  <2>3. Mutex' /\ line' \in [Tabs -> Seq(Queries)]
    BY <1>1, <1>2, <2>1, <2>2, LeavesLine
       DEF InLine, Holds, RefreshSteps, RefreshReplies
  <2> QED BY <1>1, <2>1, <2>2, <2>3, ClientStep DEF TypeInv, TypeOK
<1>4. CASE ~(storage.access # None /\ storage.access > expired)
  <2> DEFINE r == [queries[q] EXCEPT !.step = "token"]
  <2>1. r \in Query /\ r.step = "token"
    BY <1>1 DEF Query, Steps, RefreshSteps
  <2>2. queries' = [queries EXCEPT ![q] = r] /\ line' = line
    BY <1>4 DEF Acquire, Go
  <2> HIDE DEF r
  <2>3. Mutex'
    BY <1>1, <1>2, <2>1, <2>2, StaysInLine DEF InLine
  <2> QED BY <1>1, <2>1, <2>2, <2>3, ClientStep DEF TypeInv, TypeOK
<1> QED BY <1>3, <1>4

LEMMA TakeRefreshReplyTyped ==
    ASSUME TypeInv, NEW q \in Queries, TakeRefreshed(q) \/ TakeRefused(q)
    PROVE  TypeInv'
<1>1. UNCHANGED <<tabOf, page, server, time, missed,
                  faults>> /\ queries[q] \in Query
  BY DEF TakeRefreshed, TakeRefused, TypeInv, TypeOK
<1>2. AtHead(q)
  <2>1. queries[q].step \in RefreshReplies
    BY DEF TakeRefreshed, TakeRefused, At, RefreshReplies
  <2> QED BY <2>1 DEF TypeInv, Mutex, Holds
<1> DEFINE k == IF TakeRefreshed(q) THEN queries[q].fresh ELSE None
           w == Request(queries[q].kind, k)
           r == IF TakeRefreshed(q)
                THEN [w EXCEPT !.overtaken = queries[q].overtaken] ELSE w
<1>3. k \in Tokens \cup {None}
  BY <1>1 DEF Query
<1>4. /\ storage' = [access |-> k, refresh |-> k]
      /\ queries' = [queries EXCEPT ![q] = r]
      /\ line' = [line EXCEPT ![tabOf[q]] = Tail(line[tabOf[q]])]
  <2>1. CASE TakeRefreshed(q)
    BY <2>1 DEF TakeRefreshed, Become, Login
  <2>2. CASE ~TakeRefreshed(q)
    BY <2>2 DEF TakeRefused, Become, NoLogin
  <2> QED BY <2>1, <2>2
<1> HIDE DEF k
<1>5. r \in Query /\ r.step \in {"count", "verify"}
  <2>1. w \in Query /\ w.step \in {"count", "verify"}
    BY <1>1, <1>3, RequestTyped DEF Query
  <2> HIDE DEF w
  <2> QED BY <1>1, <2>1 DEF Query
<1> HIDE DEF r
<1>6. Mutex' /\ line' \in [Tabs -> Seq(Queries)]
  BY <1>1, <1>2, <1>4, <1>5, LeavesLine
     DEF InLine, Holds, RefreshSteps, RefreshReplies
<1> QED BY <1>1, <1>3, <1>4, <1>5, <1>6, ClientStep DEF TypeInv, TypeOK

(* A tab that loads a new document.                                        *)
LEMMA LeaveTabTyped ==
    ASSUME TypeInv, NEW t \in Tabs, LeaveTab(t),
           storage' \in [access : Tokens \cup {None}, refresh : Tokens \cup {None}],
           faults' \in Nat, UNCHANGED <<tabOf, server, time>>
    PROVE  TypeInv'
<1>1. UNCHANGED <<tabOf, sessions, opened, owner, alive, expired, lapsed, banned>>
  BY DEF server, time
<1>2. /\ line' = [line EXCEPT ![t] = <<>>]
      /\ page' = [page EXCEPT ![t] = "starting"]
      /\ missed' \in BOOLEAN
  BY DEF LeaveTab, Show, TypeInv, TypeOK
<1>3. ASSUME NEW q \in Queries
      PROVE  /\ queries'[q] \in Query
             /\ \/ queries'[q] = queries[q] /\ tabOf[q] # t
                \/ ~InLine(queries'[q])
             /\ queries'[q].step \in {"insert", "newToken"}
                  => queries'[q].step = queries[q].step /\ queries'[q].sid = queries[q].sid
  <2>1. queries[q] \in Query
    BY DEF TypeInv, TypeOK
  <2>2. CASE tabOf[q] = t
    <3>1. queries'[q] = Unheard(queries[q])
      BY <2>2 DEF LeaveTab
    <3>2. [queries[q] EXCEPT !.heard = FALSE].step = queries[q].step
          /\ [queries[q] EXCEPT !.heard = FALSE].sid = queries[q].sid
      BY <2>1 DEF Query
    <3> QED BY <2>1, <3>1, <3>2, UnheardTyped
  <2>3. CASE tabOf[q] # t
    BY <2>1, <2>3 DEF LeaveTab
  <2> QED BY <2>2, <2>3
<1>4. queries' \in [Queries -> Query]
  BY <1>3 DEF LeaveTab
<1>5. TypeOK'
  BY <1>1, <1>2, <1>4 DEF TypeInv, TypeOK, Pages
<1>6. Mutex'
  <2> SUFFICES ASSUME NEW q \in Queries, InLine(queries'[q])
      PROVE  /\ \E i \in 1 .. Len(line'[tabOf[q]]) : line'[tabOf[q]][i] = q
             /\ Holds(queries'[q]) =>
                   line'[tabOf[q]] # <<>> /\ line'[tabOf[q]][1] = q
    BY <1>1 DEF Mutex, AtHead, InLine
  <2>1. queries'[q] = queries[q] /\ tabOf[q] # t /\ tabOf[q] \in Tabs
    BY <1>3 DEF TypeInv, TypeOK
  <2>2. line'[tabOf[q]] = line[tabOf[q]]
    BY <1>2, <2>1 DEF TypeInv, TypeOK
  <2> QED BY <2>1, <2>2 DEF TypeInv, Mutex, AtHead
<1>7. SessionKnown'
  BY <1>1, <1>3 DEF TypeInv, SessionKnown, At
<1> QED BY <1>5, <1>6, <1>7 DEF TypeInv

LEMMA BlockTyped ==
    ASSUME TypeInv, NEW t \in Tabs, NEW dialogue \in {"expired", "failed"},
           Block(t, dialogue)
    PROVE  page' \in [Tabs -> Pages]
BY DEF TypeInv, TypeOK, Block, Pages

LEMMA TakeAnswerTyped ==
    ASSUME TypeInv, NEW q \in Queries, TakeAnswer(q)
    PROVE  TypeInv'
<1> DEFINE kind == queries[q].kind
           t == tabOf[q]
<1>1. /\ UNCHANGED <<tabOf, server, time, faults>>
      /\ kind # "logout" => UNCHANGED missed
      /\ queries[q].step = "answered"
      /\ queries[q] \in Query /\ kind \in Kinds /\ t \in Tabs
  BY DEF TakeAnswer, At, TypeInv, TypeOK, Query
<1>2. CASE kind = "get" \/ kind = "load"
  <2>1. queries' = [queries EXCEPT ![q] = Idle] /\ UNCHANGED <<storage, line>>
    BY <1>2 DEF TakeAnswer, Become, browser
  <2>2. page' \in [Tabs -> Pages]
    BY <1>1, <1>2 DEF TakeAnswer, browser, Show, TypeInv, TypeOK, Pages
  <2>3. Mutex'
    BY <1>1, <2>1, IdleTyped, StaysInLine
       DEF InLine, Holds, RefreshSteps, RefreshReplies
  <2> QED BY <1>1, <1>2, <2>1, <2>2, <2>3, IdleTyped, ClientStep
             DEF TypeInv, TypeOK
<1>3. CASE kind = "login"
  <2> DEFINE r == [Idle EXCEPT !.kind = "load", !.step = "queued",
                               !.token = queries[q].fresh]
  <2>1. /\ queries' = [queries EXCEPT ![q] = r]
        /\ storage' = [access |-> queries[q].fresh, refresh |-> queries[q].fresh]
        /\ line' = [line EXCEPT ![t] = Append(line[t], q)]
        /\ UNCHANGED page
    BY <1>3 DEF TakeAnswer, Become, Login
  <2>2. r \in Query /\ r.step = "queued"
    BY <1>1, IdleTyped DEF Query, Steps, Kinds
  <2> HIDE DEF r
  <2>3. Mutex' /\ line' \in [Tabs -> Seq(Queries)]
    BY <1>1, <2>1, <2>2, JoinsLine
  <2>4. storage' \in [access : Tokens \cup {None}, refresh : Tokens \cup {None}]
    BY <1>1, <2>1 DEF Query
  <2> QED BY <1>1, <1>3, <2>1, <2>2, <2>3, <2>4, ClientStep DEF TypeInv, TypeOK
<1>4. CASE kind = "logout"
  <2>1. LeaveTab(t) /\ storage' = [access |-> None, refresh |-> None]
    BY <1>4 DEF TakeAnswer, NoLogin
  <2> QED BY <1>1, <2>1, LeaveTabTyped DEF TypeInv, TypeOK
<1> QED BY <1>1, <1>2, <1>3, <1>4 DEF Kinds

LEMMA TakeErrorTyped ==
    ASSUME TypeInv, NEW q \in Queries, TakeError(q)
    PROVE  TypeInv'
<1>1. /\ UNCHANGED <<tabOf, line, server, time, missed, faults>>
      /\ queries' = [queries EXCEPT ![q] = Idle] /\ tabOf[q] \in Tabs
  BY DEF TakeError, Become, TypeInv, TypeOK
<1>2. page' \in [Tabs -> Pages]
  BY <1>1, BlockTyped DEF TakeError
<1>3. storage' \in [access : Tokens \cup {None}, refresh : Tokens \cup {None}]
  BY DEF TakeError, NoLogin, TypeInv, TypeOK
<1>4. Mutex'
  BY <1>1, IdleTyped, StaysInLine
     DEF InLine, Holds, RefreshSteps, RefreshReplies
<1> QED BY <1>1, <1>2, <1>3, <1>4, IdleTyped, ClientStep DEF TypeInv, TypeOK

LEMMA NetworkFailsTyped ==
    ASSUME TypeInv, NEW q \in Queries, NetworkFails(q)
    PROVE  TypeInv'
<1> DEFINE t == tabOf[q]
           refreshing == At(q, RefreshSteps \cup RefreshReplies)
           login == queries[q].kind = "login"
<1>1. /\ UNCHANGED <<tabOf, server, time>>
      /\ queries[q] \in Query /\ t \in Tabs
      /\ queries[q].heard
  BY DEF NetworkFails, TypeInv, TypeOK
<1>2. PICK r \in Query :
         /\ queries' = [queries EXCEPT ![q] = r]
         /\ ~InLine(r)
         /\ r.step \in {"insert", "newToken"}
               => r.step = queries[q].step /\ r.sid = queries[q].sid
  <2>1. CASE queries' = [queries EXCEPT ![q] = Idle]
    BY <2>1, IdleTyped DEF InLine, Holds, RefreshSteps, RefreshReplies
  <2>2. CASE queries' = [queries EXCEPT ![q] = Unheard(queries[q])]
    <3>1. [queries[q] EXCEPT !.heard = FALSE].step = queries[q].step
          /\ [queries[q] EXCEPT !.heard = FALSE].sid = queries[q].sid
      BY <1>1 DEF Query
    <3> QED BY <1>1, <2>2, <3>1, UnheardTyped
  <2> QED BY <2>1, <2>2 DEF NetworkFails, Become
<1>3. Mutex' /\ line' \in [Tabs -> Seq(Queries)]
  <2>1. CASE refreshing
    <3>1. line' = [line EXCEPT ![t] = Tail(line[t])]
      BY <2>1 DEF NetworkFails
    <3>2. AtHead(q)
      BY <1>1, <2>1 DEF TypeInv, Mutex, Holds, At
    <3> QED BY <1>1, <1>2, <3>1, <3>2, LeavesLine
  <2>2. CASE ~refreshing
    <3>1. line' = line
      BY <2>2 DEF NetworkFails
    <3> QED BY <1>1, <1>2, <3>1, StaysInLine DEF InLine, TypeInv, TypeOK
  <2> QED BY <2>1, <2>2
<1>4. page' \in [Tabs -> Pages]
  <2>1. page' = page \/ Block(t, "expired") \/ Block(t, "failed")
    BY DEF NetworkFails
  <2> QED BY <1>1, <2>1, BlockTyped DEF TypeInv, TypeOK
<1>5. storage' \in [access : Tokens \cup {None}, refresh : Tokens \cup {None}]
  BY DEF NetworkFails, NoLogin, TypeInv, TypeOK
<1>6. missed' \in BOOLEAN /\ faults' \in Nat
  BY DEF NetworkFails, TypeInv, TypeOK
<1> QED BY <1>1, <1>2, <1>3, <1>4, <1>5, <1>6, ClientStep

LEMMA ReloadTyped ==
    ASSUME TypeInv, NEW t \in Tabs, Reload(t)
    PROVE  TypeInv'
<1>1. LeaveTab(t) /\ UNCHANGED <<tabOf, storage, server, time>>
  BY DEF Reload
<1>2. faults' \in Nat
  BY DEF Reload, FaultUnlessIdle, TypeInv, TypeOK
<1> QED BY <1>1, <1>2, LeaveTabTyped DEF TypeInv, TypeOK

LEMMA FollowTyped ==
    ASSUME TypeInv, NEW t \in Tabs, FollowStorage(t)
    PROVE  TypeInv'
<1>1. UNCHANGED <<tabOf, storage, line, queries, sessions, opened, owner, alive,
                  expired, lapsed, banned, missed, faults>>
  BY DEF FollowStorage, server, time
<1>2. page' \in [Tabs -> Pages]
  BY DEF FollowStorage, Show, TypeInv, TypeOK, Pages
<1>3. TypeOK'
  BY <1>1, <1>2 DEF TypeInv, TypeOK
<1>4. Mutex'
  BY <1>1 DEF TypeInv, Mutex, AtHead
<1>5. SessionKnown'
  BY <1>1 DEF TypeInv, SessionKnown, At
<1> QED BY <1>3, <1>4, <1>5 DEF TypeInv

(* Time passes: queries are marked, and stay where they are.               *)
TimePasses == AccessExpires \/ RefreshExpires \/ DeleteExpired \/ Ban \/ LiftBan

SameBut(r, s) ==
    /\ s.step = r.step /\ s.kind = r.kind /\ s.token = r.token
    /\ s.sid = r.sid /\ s.fresh = r.fresh /\ s.heard = r.heard
    /\ r.overtaken => s.overtaken

Refusable(r) ==
    r.step \in {"verify", "delete", "refreshed", "refused", "unauthorized"}

LEMMA TimeMarks ==
    ASSUME TypeInv, TimePasses
    PROVE  /\ queries' \in [Queries -> Query]
           /\ \A q \in Queries : SameBut(queries[q], queries'[q])
           /\ \/ expired' = expired /\ (banned => banned')
              \/ \A q \in Queries :
                    Refusable(queries'[q]) => queries'[q].overtaken
<1>1. queries \in [Queries -> Query]
  BY DEF TypeInv, TypeOK
<1>2. CASE Overtake
  <2>1. queries' \in [Queries -> Query]
    <3>1. ASSUME NEW q \in Queries, NEW b \in BOOLEAN
          PROVE  [queries[q] EXCEPT !.overtaken = b] \in Query
      BY <1>1 DEF Query
    <3>2. ASSUME NEW q \in Queries
          PROVE  [queries[q] EXCEPT !.overtaken =
                     @ \/ At(q, {"count", "verify", "delete", "refreshed",
                                 "refused", "unauthorized"})] \in Query
      <4>1. queries[q].overtaken \in BOOLEAN
        BY <1>1 DEF Query
      <4> QED BY <1>1, <3>1, <4>1 DEF Query
    <3> QED BY <1>2, <3>2 DEF Overtake
  <2>2. ASSUME NEW q \in Queries
        PROVE  /\ SameBut(queries[q], queries'[q])
               /\ Refusable(queries'[q]) => queries'[q].overtaken
    <3>1. queries[q] \in Query
      BY <1>1
    <3>2. queries'[q] = [queries[q] EXCEPT !.overtaken =
                     @ \/ At(q, {"count", "verify", "delete", "refreshed",
                                 "refused", "unauthorized"})]
      BY <1>2 DEF Overtake
    <3> QED BY <3>1, <3>2 DEF SameBut, Refusable, At, Query
  <2> QED BY <2>1, <2>2
<1>3. CASE RefreshExpires \/ DeleteExpired
  <2>1. queries' = queries /\ expired' = expired /\ banned' = banned
    BY <1>3 DEF RefreshExpires, DeleteExpired, time
  <2> QED BY <1>1, <2>1 DEF SameBut
<1> QED BY <1>2, <1>3 DEF TimePasses, AccessExpires, Ban, LiftBan

LEMMA TimeIs ==
    ASSUME TypeInv, TimePasses
    PROVE  /\ UNCHANGED <<tabOf, page, storage, line, sessions, opened, owner,
                          missed>>
           /\ alive' \in SUBSET alive
           /\ \A k \in alive : k \in alive' \/ k <= lapsed'
           /\ expired \in Nat /\ expired' \in Nat /\ expired <= expired'
           /\ lapsed \in Nat /\ lapsed' \in Nat /\ lapsed <= lapsed'
           /\ expired' \in 0 .. Len(owner) /\ lapsed' \in 0 .. expired'
           /\ banned' \in BOOLEAN /\ faults' \in Nat
<1>1. /\ expired \in 0 .. Len(owner) /\ lapsed \in 0 .. expired
      /\ banned \in BOOLEAN /\ faults \in Nat /\ Len(owner) \in Nat
  BY DEF TypeInv, TypeOK
<1>2. CASE AccessExpires
  BY <1>1, <1>2 DEF AccessExpires, FaultUnlessIdle, browser, server
<1>3. CASE RefreshExpires
  BY <1>1, <1>3 DEF RefreshExpires, FaultUnlessIdle, browser, server
<1>4. CASE DeleteExpired
  <2>1. /\ UNCHANGED <<tabOf, page, storage, line, sessions, opened, owner,
                       expired, lapsed, banned, missed, faults>>
        /\ alive' = alive \ (1 .. lapsed)
    BY <1>4 DEF DeleteExpired, browser, time
  <2>2. ASSUME NEW k \in alive
        PROVE  k \in alive' \/ k <= lapsed
    <3>1. k \in 1 .. MaxTokens /\ MaxTokens \in Nat
      BY BoundsAssumption DEF TypeInv, TypeOK, Tokens
    <3> QED BY <1>1, <2>1, <3>1
  <2>3. /\ alive' \in SUBSET alive /\ banned' \in BOOLEAN
        /\ faults' \in Nat
    BY <1>1, <2>1
  <2>4. /\ expired \in Nat /\ expired' \in Nat /\ expired <= expired'
        /\ lapsed \in Nat /\ lapsed' \in Nat /\ lapsed <= lapsed'
        /\ expired' \in 0 .. Len(owner) /\ lapsed' \in 0 .. expired'
    BY <1>1, <2>1
  <2>5. \A k \in alive : k \in alive' \/ k <= lapsed'
    BY <2>1, <2>2
  <2> QED BY <2>1, <2>3, <2>4, <2>5
<1>5. CASE Ban \/ LiftBan
  <2>1. /\ UNCHANGED <<tabOf, page, storage, line, sessions, opened, owner,
                       alive, expired, lapsed, missed>>
        /\ faults' \in Nat
    BY <1>1, <1>5 DEF Ban, LiftBan, browser, server
  <2>2. banned' \in BOOLEAN
    BY <1>5 DEF Ban, LiftBan
  <2>3. /\ expired \in Nat /\ expired' \in Nat /\ expired <= expired'
        /\ lapsed \in Nat /\ lapsed' \in Nat /\ lapsed <= lapsed'
        /\ expired' \in 0 .. Len(owner) /\ lapsed' \in 0 .. expired'
    BY <1>1, <2>1
  <2> QED BY <2>1, <2>2, <2>3
<1> QED BY <1>2, <1>3, <1>4, <1>5 DEF TimePasses

LEMMA TimeTyped ==
    ASSUME TypeInv, TimePasses
    PROVE  TypeInv'
<1> USE TimeMarks, TimeIs
<1>1. TypeOK'
  BY DEF TypeInv, TypeOK
<1>2. \A q \in Queries : /\ InLine(queries'[q]) = InLine(queries[q])
                         /\ Holds(queries'[q]) = Holds(queries[q])
  BY DEF SameBut, InLine, Holds
<1>3. Mutex'
  BY <1>2 DEF TypeInv, Mutex, AtHead
<1>4. SessionKnown'
  BY DEF TypeInv, SessionKnown, At, SameBut
<1> QED BY <1>1, <1>3, <1>4 DEF TypeInv

LEMMA RevokeTyped ==
    ASSUME TypeInv, NEW s \in Sids, Revoke(s)
    PROVE  TypeInv'
<1>1. UNCHANGED <<tabOf, page, storage, line, queries, opened, owner, expired,
                  lapsed, banned, missed, faults>>
  BY DEF Revoke, DeleteSession, browser, time
<1>2. sessions' \subseteq sessions /\ alive' \subseteq alive
  BY DEF Revoke, DeleteSession
<1>4. TypeOK'
  BY <1>1, <1>2 DEF TypeInv, TypeOK
<1>5. Mutex'
  BY <1>1 DEF TypeInv, Mutex, AtHead
<1>6. SessionKnown'
  BY <1>1 DEF TypeInv, SessionKnown, At
<1> QED BY <1>4, <1>5, <1>6 DEF TypeInv

(* The steps of the handlers.                                              *)
LEMMA ReplyIs ==
    ASSUME TypeInv, NEW q \in Queries, NEW reply \in Query, Reply(q, reply)
    PROVE  \E r \in {reply, Idle} : queries' = [queries EXCEPT ![q] = r]
BY DEF Reply, Become

LEMMA ServerUnchanged ==
    ASSUME TypeInv, UNCHANGED server
    PROVE  /\ opened' \in opened .. MaxLogins /\ sessions' \subseteq 1 .. opened'
           /\ owner' \in Seq(Sids) /\ Len(owner') \in Len(owner) .. MaxTokens
           /\ \A k \in 1 .. Len(owner') : owner'[k] \in 1 .. opened'
           /\ alive' \subseteq Tokens
<1>1. UNCHANGED <<sessions, opened, owner, alive>>
  BY DEF server
<1> QED BY <1>1, BoundsAssumption DEF TypeInv, TypeOK, SessionKnown

LEMMA ReadTokenTyped ==
    ASSUME TypeInv, NEW q \in Queries, ReadToken(q)
    PROVE  TypeInv'
<1> DEFINE k == queries[q].token
<1>1. /\ UNCHANGED <<tabOf, browser, server, time, missed, faults>>
      /\ queries[q] \in Query /\ queries[q].step = "token"
  BY DEF ReadToken, At, TypeInv, TypeOK
<1>2. CASE Accepted(k)
  <2> DEFINE r == [queries[q] EXCEPT !.step = "insert", !.sid = owner[k]]
  <2>1. owner[k] \in 1 .. opened /\ owner[k] \in Sids
    <3>1. sessions \subseteq 1 .. opened /\ opened \in 0 .. MaxLogins
      BY DEF TypeInv, TypeOK
    <3>2. MaxLogins \in Nat
      BY BoundsAssumption
    <3>3. owner[k] \in 1 .. opened
      BY <1>2, <3>1 DEF Accepted
    <3> QED BY <3>1, <3>2, <3>3 DEF Sids
  <2>2. /\ r \in Query /\ r.step = "insert" /\ r.sid = owner[k]
        /\ r.heard = queries[q].heard
    BY <1>1, <2>1 DEF Query, Steps, RefreshSteps
  <2>3. queries' = [queries EXCEPT ![q] = r]
    BY <1>2 DEF ReadToken, Become
  <2> HIDE DEF r
  <2>4. opened' = opened
    BY <1>1 DEF server
  <2> QED BY <1>1, <2>1, <2>2, <2>3, <2>4, ServerUnchanged, HandlerStep
             DEF InLine, Holds, RefreshSteps, RefreshReplies
<1>3. CASE ~Accepted(k)
  <2> DEFINE r == IF queries[q].heard
                  THEN [queries[q] EXCEPT !.step = "refused"]
                  ELSE Idle
  <2>1. /\ r \in Query
        /\ r.step # "idle" => queries[q].heard /\ r.step = "refused"
    BY <1>1, IdleTyped DEF Query, Steps, RefreshReplies
  <2>3. queries' = [queries EXCEPT ![q] = r]
    BY <1>3 DEF ReadToken, Reply, Become
  <2> HIDE DEF r
  <2> QED BY <1>1, <2>1, <2>3, ServerUnchanged, HandlerStep
             DEF InLine, Holds, RefreshSteps, RefreshReplies
<1> QED BY <1>2, <1>3

LEMMA IssueTokenTyped ==
    ASSUME TypeInv, NEW q \in Queries, RenewToken(q) \/ FirstToken(q)
    PROVE  TypeInv'
<1> DEFINE k == Len(owner) + 1
           renew == [queries[q] EXCEPT !.step = "delete", !.fresh = k, !.sid = None]
           first == IF queries[q].heard
                    THEN [queries[q] EXCEPT !.step = "answered", !.fresh = k, !.sid = None]
                    ELSE Idle
           r == IF At(q, {"insert"}) THEN renew ELSE first
<1>1. /\ UNCHANGED <<tabOf, browser, sessions, opened, time, missed, faults>>
      /\ queries[q] \in Query /\ queries[q].step \in {"insert", "newToken"}
      /\ k \in Tokens
      /\ owner' = Append(owner, queries[q].sid)
      /\ alive' = alive \cup {k}
      /\ queries' = [queries EXCEPT ![q] = r]
  <2>1. IssueToken(q) /\ queries[q].step \in {"insert", "newToken"}
    BY DEF RenewToken, FirstToken, At
  <2> QED BY <2>1, BoundsAssumption
             DEF IssueToken, Reply, Become, TypeInv, TypeOK, Tokens
<1>2. queries[q].sid \in 1 .. opened /\ queries[q].sid \in Sids
  BY <1>1, BoundsAssumption DEF TypeInv, TypeOK, SessionKnown, At, Sids
<1>3. /\ renew \in Query /\ renew.step = "delete"
      /\ renew.heard = queries[q].heard
  BY <1>1 DEF Query, Steps, RefreshSteps
<1>4. first \in Query /\ first.step \in {"idle", "answered"}
  BY <1>1, IdleTyped DEF Query, Steps, Replies
<1>5. /\ r \in Query
      /\ \/ r.step \in {"idle", "answered"}
         \/ queries[q].step = "insert" /\ r.step = "delete" /\ r.heard = queries[q].heard
  BY <1>3, <1>4 DEF At
<1> HIDE DEF r
<1>6. /\ owner' \in Seq(Sids) /\ Len(owner') = Len(owner) + 1
      /\ \A j \in 1 .. Len(owner') : owner'[j] \in 1 .. opened
  <2>1. owner \in Seq(Sids) /\ \A j \in 1 .. Len(owner) : owner[j] \in 1 .. opened
    BY DEF TypeInv, TypeOK, SessionKnown
  <2> QED BY <1>1, <1>2, <2>1
<1>7. Len(owner') \in Len(owner) .. MaxTokens /\ alive' \subseteq Tokens
  <2>1. owner \in Seq(Sids) /\ alive \subseteq Tokens
    BY DEF TypeInv, TypeOK
  <2>2. Len(owner) \in Nat /\ Len(owner) + 1 \in 1 .. MaxTokens
    BY <1>1, <2>1 DEF Tokens
  <2> QED BY <1>1, <1>6, <2>1, <2>2, BoundsAssumption
<1>8. opened' \in opened .. MaxLogins /\ sessions' \subseteq 1 .. opened'
  BY <1>1, BoundsAssumption DEF TypeInv, TypeOK
<1> QED BY <1>1, <1>5, <1>6, <1>7, <1>8, HandlerStep
           DEF InLine, Holds, RefreshSteps, RefreshReplies

LEMMA SameServerHandlerTyped ==
    ASSUME TypeInv, NEW q \in Queries,
           Verify(q) \/ CountSessions(q) \/ RefuseLogin(q)
    PROVE  TypeInv'
<1>1. /\ UNCHANGED <<tabOf, browser, server, time, missed, faults>>
      /\ queries[q] \in Query
  BY DEF Verify, CountSessions, RefuseLogin, TypeInv, TypeOK
<1>2. PICK r \in Query : /\ queries' = [queries EXCEPT ![q] = r]
                         /\ r.step \in {"idle", "unauthorized", "answered",
                                        "end", "evict", "newSession"}
  <2>1. CASE CountSessions(q)
    <3>1. \A step \in {"evict", "newSession"} :
             /\ [queries[q] EXCEPT !.step = step] \in Query
             /\ [queries[q] EXCEPT !.step = step].step = step
      BY <1>1 DEF Query, Steps, RequestSteps
    <3> QED BY <2>1, <3>1 DEF CountSessions, Go
  <2>2. CASE Verify(q)
    <3> DEFINE k == queries[q].token
               valid == k # None /\ k > expired /\ owner[k] \in sessions /\ ~banned
    <3>1. \A step \in {"unauthorized", "answered"} :
             /\ [queries[q] EXCEPT !.step = step] \in Query
             /\ [queries[q] EXCEPT !.step = step].step = step
      BY <1>1 DEF Query, Steps, Replies
    <3>2. CASE valid /\ queries[q].kind = "logout"
      <4>1. owner[k] \in Sids
        <5>1. sessions \subseteq 1 .. opened /\ opened \in 0 .. MaxLogins
          BY DEF TypeInv, TypeOK
        <5>2. MaxLogins \in Nat
          BY BoundsAssumption
        <5>3. owner[k] \in 1 .. opened
          BY <3>2, <5>1
        <5> QED BY <5>1, <5>2, <5>3 DEF Sids
      <4>2. [queries[q] EXCEPT !.step = "end", !.sid = owner[k]] \in Query
        BY <1>1, <4>1 DEF Query, Steps, RequestSteps
      <4>3. [queries[q] EXCEPT !.step = "end", !.sid = owner[k]].step = "end"
        BY <1>1 DEF Query
      <4>4. queries' = [queries EXCEPT
                 ![q] = [queries[q] EXCEPT !.step = "end", !.sid = owner[k]]]
        BY <2>2, <3>2 DEF Verify, Become
      <4> QED BY <4>2, <4>3, <4>4
    <3>3. CASE ~(valid /\ queries[q].kind = "logout")
      <4>1. \E step \in {"unauthorized", "answered"} :
               Reply(q, [queries[q] EXCEPT !.step = step])
        BY <2>2, <3>3 DEF Verify
      <4> QED BY <3>1, <4>1, IdleTyped DEF Reply, Become
    <3> QED BY <3>2, <3>3
  <2>3. CASE RefuseLogin(q)
    BY <2>3, IdleTyped DEF RefuseLogin, Become
  <2> QED BY <2>1, <2>2, <2>3
<1> QED BY <1>1, <1>2, ServerUnchanged, HandlerStep
           DEF InLine, Holds, RefreshSteps, RefreshReplies

LEMMA DeletingHandlerTyped ==
    ASSUME TypeInv, NEW q \in Queries,
           DeleteToken(q) \/ EndSession(q) \/ EvictOldest(q)
    PROVE  TypeInv'
<1>1. /\ UNCHANGED <<tabOf, browser, opened, owner, time, missed, faults>>
      /\ sessions' \subseteq sessions /\ alive' \subseteq alive
      /\ queries[q] \in Query
  BY DEF DeleteToken, EndSession, DeleteSession, EvictOldest, TypeInv, TypeOK
<1>2. PICK r \in Query :
         /\ queries' = [queries EXCEPT ![q] = r]
         /\ \/ r.step \in {"idle", "answered", "rejected", "newSession"}
            \/ r.step = "refreshed" /\ queries[q].step = "delete" /\ queries[q].heard
  <2>1. CASE EvictOldest(q)
    <3>1. /\ [queries[q] EXCEPT !.step = "newSession"] \in Query
          /\ [queries[q] EXCEPT !.step = "newSession"].step = "newSession"
      BY <1>1 DEF Query, Steps, RequestSteps
    <3> QED BY <2>1, <3>1 DEF EvictOldest, Go
  <2>2. CASE DeleteToken(q)
    <3>1. /\ [queries[q] EXCEPT !.step = "refreshed", !.token = None] \in Query
          /\ [queries[q] EXCEPT !.step = "refreshed", !.token = None].step = "refreshed"
      BY <1>1 DEF Query, Steps, RefreshReplies
    <3> QED BY <2>2, <3>1, IdleTyped DEF DeleteToken, Reply, Become, At
  <2>3. CASE EndSession(q)
    <3>1. \A step \in {"answered", "rejected"} :
             /\ [queries[q] EXCEPT !.step = step, !.sid = None] \in Query
             /\ [queries[q] EXCEPT !.step = step, !.sid = None].step = step
      BY <1>1 DEF Query, Steps, Replies
    <3>2. PICK step \in {"answered", "rejected"} :
             Reply(q, [queries[q] EXCEPT !.step = step, !.sid = None])
      BY <2>3 DEF EndSession
    <3> QED BY <3>1, <3>2, IdleTyped DEF Reply, Become
  <2> QED BY <2>1, <2>2, <2>3
<1>3. /\ opened' \in opened .. MaxLogins /\ sessions' \subseteq 1 .. opened'
      /\ owner' \in Seq(Sids) /\ Len(owner') \in Len(owner) .. MaxTokens
      /\ \A k \in 1 .. Len(owner') : owner'[k] \in 1 .. opened'
      /\ alive' \subseteq Tokens
  BY <1>1, BoundsAssumption DEF TypeInv, TypeOK, SessionKnown
<1> QED BY <1>1, <1>2, <1>3, HandlerStep
           DEF InLine, Holds, RefreshSteps, RefreshReplies

LEMMA InsertSessionTyped ==
    ASSUME TypeInv, NEW q \in Queries, InsertSession(q)
    PROVE  TypeInv'
<1> DEFINE r == [queries[q] EXCEPT !.step = "newToken", !.sid = opened + 1]
<1>1. /\ UNCHANGED <<tabOf, browser, owner, alive, time, missed, faults>>
      /\ queries[q] \in Query
      /\ opened < MaxLogins /\ opened' = opened + 1
      /\ sessions' = sessions \cup {opened + 1}
      /\ queries' = [queries EXCEPT ![q] = r]
  BY DEF InsertSession, Become, TypeInv, TypeOK
<1>2. /\ opened \in Nat /\ MaxLogins \in Nat /\ sessions \subseteq 1 .. opened
      /\ owner \in Seq(Sids) /\ Len(owner) <= MaxTokens /\ MaxTokens \in Nat
      /\ \A k \in 1 .. Len(owner) : owner[k] \in 1 .. opened
      /\ alive \subseteq Tokens
  BY BoundsAssumption DEF TypeInv, TypeOK, SessionKnown
<1>3. opened + 1 \in Sids
  BY <1>1, <1>2 DEF Sids
<1>4. r \in Query /\ r.step = "newToken" /\ r.sid = opened + 1
  BY <1>1, <1>3 DEF Query, Steps, RequestSteps
<1> HIDE DEF r
<1>5. /\ opened' \in opened .. MaxLogins /\ sessions' \subseteq 1 .. opened'
      /\ owner' \in Seq(Sids) /\ Len(owner') \in Len(owner) .. MaxTokens
      /\ \A k \in 1 .. Len(owner') : owner'[k] \in 1 .. opened'
      /\ alive' \subseteq Tokens
      /\ opened + 1 \in 1 .. opened'
  BY <1>1, <1>2
<1> QED BY <1>1, <1>4, <1>5, HandlerStep
           DEF InLine, Holds, RefreshSteps, RefreshReplies

LEMMA InitTyped == Init => TypeInv
<1> SUFFICES ASSUME Init PROVE TypeInv
  OBVIOUS
<1>1. TypeOK
  <2>1. queries \in [Queries -> Query]
    BY IdleTyped DEF Init
  <2>2. owner \in Seq(Sids) /\ Len(owner) = 0
    BY DEF Init
  <2>3. page \in [Tabs -> Pages] /\ line \in [Tabs -> Seq(Queries)]
    BY DEF Init, Pages
  <2>4. /\ tabOf \in [Queries -> Tabs]
        /\ storage \in [access : Tokens \cup {None}, refresh : Tokens \cup {None}]
    BY LayoutsAssumption DEF Init, NoLogin
  <2>5. /\ opened = 0 /\ expired = 0 /\ faults = 0 /\ missed = FALSE
        /\ lapsed = 0 /\ banned = FALSE
        /\ sessions = {} /\ alive = {}
    BY DEF Init
  <2>6. MaxLogins \in Nat /\ MaxTokens \in Nat
    BY BoundsAssumption
  <2>7. /\ opened \in 0 .. MaxLogins /\ expired \in 0 .. Len(owner)
        /\ faults \in Nat /\ Len(owner) <= MaxTokens
        /\ lapsed \in 0 .. expired
    BY <2>2, <2>5, <2>6
  <2>8. /\ sessions \subseteq 1 .. opened /\ alive \subseteq Tokens
        /\ missed \in BOOLEAN /\ banned \in BOOLEAN
    BY <2>5
  <2> QED BY <2>1, <2>2, <2>3, <2>4, <2>7, <2>8 DEF TypeOK
<1>2. Mutex
  BY IdleTyped DEF Init, Mutex, InLine, Holds, RefreshSteps, RefreshReplies
<1>3. SessionKnown
  BY IdleTyped DEF Init, SessionKnown, At
<1> QED BY <1>1, <1>2, <1>3 DEF TypeInv

LEMMA NextTyped == TypeInv /\ [Next]_vars => TypeInv'
<1> SUFFICES ASSUME TypeInv, [Next]_vars PROVE TypeInv'
  OBVIOUS
<1>1. ASSUME NEW q \in Queries,
             StartGet(q) \/ StartLogout(q) \/ StartLogin(q) \/ StartApp(q)
      PROVE  TypeInv'
  <2>1. CASE StartGet(q) \/ StartLogout(q) \/ StartLogin(q)
    <3>1. At(q, {"idle"}) /\ UNCHANGED page
          /\ \E kind \in Kinds : StartQuery(q, kind)
      BY <2>1 DEF StartGet, StartLogout, StartLogin, Kinds
    <3> QED BY <3>1, StartQueryTyped DEF TypeInv, TypeOK
  <2>2. CASE StartApp(q)
    <3>1. At(q, {"idle"}) /\ page' \in [Tabs -> Pages]
      BY <2>2 DEF StartApp, Show, TypeInv, TypeOK, Pages
    <3>2. CASE storage.access # None
      BY <2>2, <3>1, <3>2, StartQueryTyped DEF StartApp, Kinds
    <3>3. CASE storage.access = None
      <4>1. UNCHANGED <<tabOf, storage, line, queries, sessions, opened, owner,
                        alive, expired, lapsed, banned, missed, faults>>
        BY <2>2, <3>3 DEF StartApp, server, time
      <4>2. TypeOK'
        BY <3>1, <4>1 DEF TypeInv, TypeOK
      <4>3. Mutex' /\ SessionKnown'
        BY <4>1 DEF TypeInv, Mutex, AtHead, SessionKnown, At
      <4> QED BY <4>2, <4>3 DEF TypeInv
    <3> QED BY <3>2, <3>3
  <2> QED BY <1>1, <2>1, <2>2
<1>2. ASSUME NEW q \in Queries, Client(q) \/ NetworkFails(q)
      PROVE  TypeInv'
  BY <1>2, AcquireTyped, TakeRefreshReplyTyped, TakeAnswerTyped, TakeErrorTyped,
     NetworkFailsTyped DEF Client
<1>3. ASSUME NEW q \in Queries, Handler(q)
      PROVE  TypeInv'
  BY <1>3, ReadTokenTyped, IssueTokenTyped, SameServerHandlerTyped,
     DeletingHandlerTyped, InsertSessionTyped DEF Handler
<1>4. ASSUME NEW t \in Tabs, Reload(t) \/ FollowStorage(t)
      PROVE  TypeInv'
  BY <1>4, ReloadTyped, FollowTyped
<1>5. ASSUME NEW s \in Sids, Revoke(s)
      PROVE  TypeInv'
  BY <1>5, RevokeTyped
<1>7. ASSUME TimePasses
      PROVE  TypeInv'
  BY <1>7, TimeTyped
<1>6. CASE UNCHANGED vars
  <2>1. TypeOK'
    BY <1>6 DEF vars, TypeInv, TypeOK
  <2>2. Mutex' /\ SessionKnown'
    BY <1>6 DEF vars, TypeInv, Mutex, AtHead, SessionKnown, At
  <2> QED BY <2>1, <2>2 DEF TypeInv
<1> QED BY <1>1, <1>2, <1>3, <1>4, <1>5, <1>6, <1>7 DEF Next, TimePasses

LEMMA AlwaysTyped == Spec => []TypeInv
BY InitTyped, NextTyped, PTL DEF Spec

(* Every state is well formed, for any number of tabs and queries: a step  *)
(* finds the row, the token or the place in line it works on.              *)
THEOREM TypeCorrect == Spec => []TypeOK
<1>1. TypeInv => TypeOK
  BY DEF TypeInv
<1> QED BY <1>1, AlwaysTyped, PTL

-----------------------------------------------------------------------------
(* The steps that neither issue, deliver nor delete a token.               *)
Harmless ==
    /\ storage' = storage \/ storage' = NoLogin
    /\ owner' = owner /\ missed' \in BOOLEAN /\ (missed => missed')
    /\ \A k \in 1 .. Len(owner) : Works(k) => Works(k)'
    /\ \A p \in Queries :
          /\ Brings(queries'[p]) => /\ Brings(queries[p])
                                    /\ queries'[p].fresh = queries[p].fresh
          /\ Presents(queries'[p]) =>
                \/ /\ Presents(queries[p])
                   /\ queries'[p].token = queries[p].token
                \/ queries'[p].token = storage.refresh /\ storage.refresh # None
          /\ queries[p].step = "refreshed" =>
                \/ queries'[p].step = "refreshed"
                \/ missed' = TRUE \/ storage' = NoLogin
          /\ Checked(queries'[p]) =>
                \/ queries'[p].kind # "login"
                \/ Checked(queries[p]) /\ queries'[p].kind = queries[p].kind
          /\ Presents(queries'[p]) /\ ~queries'[p].heard =>
                \/ Presents(queries[p]) /\ ~queries[p].heard
                \/ missed' = TRUE

LEMMA HarmlessKeeps ==
    ASSUME TypeInv, LoginInv, Harmless
    PROVE  LoginInv'
<1>1. owner \in Seq(Sids) /\ Len(owner) \in Nat
  BY DEF TypeInv, TypeOK
<1>0. storage'.refresh # None => storage' = storage
  BY DEF Harmless, NoLogin
<1>00. storage'.access = storage'.refresh
  BY DEF Harmless, NoLogin, LoginInv, Renewed
<1>2. Issued'
  BY <1>1, <1>0 DEF Harmless, LoginInv, Issued, None
<1>3. Secret'
  <2> SUFFICES ASSUME NEW q \in Queries, Brings(queries'[q])
      PROVE /\ queries'[q].fresh \in 1 .. Len(owner)
            /\ queries'[q].fresh # storage'.refresh
            /\ \A p \in Queries :
                  /\ Presents(queries'[p])
                        => queries'[p].token # queries'[q].fresh
                  /\ Brings(queries'[p]) /\ p # q
                        => queries'[p].fresh # queries'[q].fresh
    BY DEF Secret, Harmless
  <2>1. Brings(queries[q]) /\ queries'[q].fresh = queries[q].fresh
    BY DEF Harmless
  <2>2. /\ queries[q].fresh \in 1 .. Len(owner)
        /\ queries[q].fresh # storage.refresh
    BY <2>1 DEF LoginInv, Secret
  <2>3. ASSUME NEW p \in Queries
        PROVE  /\ Presents(queries'[p]) => queries'[p].token # queries'[q].fresh
               /\ Brings(queries'[p]) /\ p # q
                     => queries'[p].fresh # queries'[q].fresh
    BY <2>1, <2>2 DEF Harmless, LoginInv, Secret
  <2> QED BY <1>1, <1>0, <2>1, <2>2, <2>3 DEF None
<1>4. ArrivesUnused'
  BY <1>3 DEF ArrivesUnused, Harmless, LoginInv, Secret
<1>5. Renewed'
  <2>1. ASSUME storage'.refresh # None, ~missed'
        PROVE  Works(storage.refresh)' 
                  \/ \E q \in Queries : queries'[q].step = "refreshed"
    <3>1. storage' = storage /\ ~missed /\ storage' # NoLogin
      BY <1>0, <2>1 DEF Harmless, NoLogin
    <3>2. storage.refresh \in 1 .. Len(owner)
      BY <1>1, <2>1, <3>1 DEF LoginInv, Issued, None
    <3>3. CASE Works(storage.refresh)
      BY <3>1, <3>2, <3>3 DEF Harmless, Works
    <3>4. CASE \E q \in Queries : queries[q].step = "refreshed"
      BY <2>1, <3>1, <3>4 DEF Harmless
    <3> QED BY <2>1, <3>1, <3>3, <3>4 DEF LoginInv, Renewed
  <2>2. ASSUME NEW q \in Queries, Presents(queries'[q]), ~queries'[q].heard
        PROVE  missed'
    BY <2>2 DEF Harmless, LoginInv, Renewed
  <2> QED BY <1>00, <2>1, <2>2 DEF Renewed
<1>6. NoLoginChecked'
  BY DEF Harmless, LoginInv, NoLoginChecked
<1> QED BY <1>2, <1>3, <1>4, <1>5, <1>6 DEF LoginInv

(* No session and no login on its way to one is added.                     *)
NoneAdded ==
    /\ sessions' \subseteq sessions
    /\ \A p \in Queries : queries'[p].step = "newSession"
                             => queries[p].step = "newSession"

Plain == {"idle", "queued", "token", "insert", "refused", "verify", "end",
          "count", "evict", "newToken", "unauthorized", "rejected"}

LEMMA OneHarmless ==
    ASSUME TypeInv, NEW q \in Queries, NEW r \in Query,
           queries' = [queries EXCEPT ![q] = r],
           storage' = storage \/ storage' = NoLogin,
           owner' = owner, missed' \in BOOLEAN, missed => missed',
           \A k \in 1 .. Len(owner) : Works(k) => Works(k)',
           \/ r.step \in Plain \cup {"newSession"}
           \/ r.step = "answered" /\ r.kind # "login",
           \/ ~Presents(r)
           \/ Presents(queries[q]) /\ r.token = queries[q].token
           \/ r.token = storage.refresh /\ storage.refresh # None,
           \/ queries[q].step # "refreshed"
           \/ missed' = TRUE \/ storage' = NoLogin,
           \/ ~Checked(r) \/ r.kind # "login"
           \/ Checked(queries[q]) /\ r.kind = queries[q].kind,
           \/ ~Presents(r) \/ r.heard
           \/ missed' = TRUE
           \/ Presents(queries[q]) /\ ~queries[q].heard
    PROVE  Harmless
<1>1. ~Brings(r) /\ r.step # "refreshed"
  BY DEF Brings, Plain
<1>2. queries'[q] = r /\ \A p \in Queries : p # q => queries'[p] = queries[p]
  BY DEF TypeInv, TypeOK
<1> QED BY <1>1, <1>2 DEF Harmless

LEMMA SameServer ==
    ASSUME UNCHANGED <<server, time>>
    PROVE  /\ owner' = owner /\ sessions' = sessions /\ alive' = alive
           /\ \A k \in 1 .. Len(owner) : Works(k) => Works(k)'
BY DEF server, time, Works

LEMMA OneNotAdded ==
    ASSUME TypeInv, NEW q \in Queries, NEW r \in Query,
           queries' = [queries EXCEPT ![q] = r], r.step # "newSession",
           sessions' \subseteq sessions
    PROVE  NoneAdded
BY DEF TypeInv, TypeOK, NoneAdded

LEMMA StartQueryHarmless ==
    ASSUME TypeInv, NEW q \in Queries, NEW kind \in Kinds, StartQuery(q, kind),
           At(q, {"idle"})
    PROVE  Harmless /\ NoneAdded
<1>1. UNCHANGED <<tabOf, storage, server, time, missed, faults>>
  BY DEF StartQuery
<1>2. CASE storage.refresh # None
  <2> DEFINE r == [Idle EXCEPT !.kind = kind, !.step = "queued",
                               !.token = storage.refresh]
  <2>1. /\ r \in Query /\ r.step = "queued" /\ r.token = storage.refresh /\ r.heard
        /\ queries' = [queries EXCEPT ![q] = r]
    BY <1>2, IdleTyped DEF StartQuery, Become, TypeInv, TypeOK, Query, Steps
  <2> HIDE DEF r
  <2>2. Harmless
    BY <1>1, <1>2, <2>1, SameServer, OneHarmless
       DEF At, Checked, RefreshSteps, Plain, TypeInv, TypeOK
  <2> QED BY <1>1, <2>1, <2>2, SameServer, OneNotAdded
<1>3. CASE ~(storage.refresh # None)
  <2> DEFINE r == Request(kind, storage.access)
  <2>1. /\ r \in Query /\ r.step \in {"count", "verify"}
        /\ Checked(r) => r.kind # "login"
        /\ queries' = [queries EXCEPT ![q] = r]
    BY <1>3, RequestTyped DEF StartQuery, Become, TypeInv, TypeOK
  <2> HIDE DEF r
  <2>2. Harmless
    BY <1>1, <2>1, SameServer, OneHarmless
       DEF At, Checked, RefreshSteps, Plain, Presents, TypeInv, TypeOK
  <2> QED BY <1>1, <2>1, <2>2, SameServer, OneNotAdded
<1> QED BY <1>2, <1>3

LEMMA AcquireHarmless ==
    ASSUME TypeInv, NEW q \in Queries, Acquire(q)
    PROVE  Harmless /\ NoneAdded
<1>1. /\ UNCHANGED <<tabOf, page, storage, server, time, missed, faults>>
      /\ queries[q] \in Query /\ queries[q].step = "queued"
  BY DEF Acquire, At, TypeInv, TypeOK
<1>2. PICK r \in Query : /\ queries' = [queries EXCEPT ![q] = r]
                         /\ Checked(r) => r.kind # "login"
                         /\ \/ r.step \in {"count", "verify"}
                            \/ /\ r.step = "token" /\ r.token = queries[q].token
                               /\ r.heard = queries[q].heard
  <2>1. CASE storage.access # None /\ storage.access > expired
    BY <1>1, <2>1, RequestTyped DEF Acquire, Become, TypeInv, TypeOK, Query
  <2>2. CASE ~(storage.access # None /\ storage.access > expired)
    <3> DEFINE r == [queries[q] EXCEPT !.step = "token"]
    <3>1. /\ r \in Query /\ r.step = "token" /\ r.token = queries[q].token
          /\ r.heard = queries[q].heard
      BY <1>1 DEF Query, Steps, RefreshSteps
    <3>2. queries' = [queries EXCEPT ![q] = r]
      BY <2>2 DEF Acquire, Go
    <3> QED BY <3>1, <3>2 DEF Checked
  <2> QED BY <2>1, <2>2
<1>3. Harmless
  BY <1>1, <1>2, SameServer, OneHarmless
     DEF Presents, Checked, RefreshSteps, Plain, TypeInv, TypeOK
<1>4. NoneAdded
  BY <1>1, <1>2, SameServer, OneNotAdded
<1> QED BY <1>3, <1>4

LEMMA TakeRefusedHarmless ==
    ASSUME TypeInv, NEW q \in Queries, TakeRefused(q)
    PROVE  Harmless /\ NoneAdded
<1> DEFINE r == Request(queries[q].kind, None)
<1>1. /\ UNCHANGED <<tabOf, page, server, time, missed, faults>>
      /\ queries[q] \in Query
      /\ storage' = NoLogin
      /\ queries' = [queries EXCEPT ![q] = r]
  BY DEF TakeRefused, Become, TypeInv, TypeOK
<1>2. /\ r \in Query /\ r.step \in {"count", "verify"}
      /\ Checked(r) => r.kind # "login"
  BY <1>1, RequestTyped DEF Query
<1> HIDE DEF r
<1>3. Harmless
  BY <1>1, <1>2, SameServer, OneHarmless
     DEF Presents, Checked, RefreshSteps, Plain, TypeInv, TypeOK
<1> QED BY <1>1, <1>2, <1>3, SameServer, OneNotAdded

LEMMA TakeErrorHarmless ==
    ASSUME TypeInv, NEW q \in Queries, TakeError(q)
    PROVE  Harmless /\ NoneAdded
<1>1. /\ UNCHANGED <<tabOf, server, time, missed, faults>>
      /\ storage' = storage \/ storage' = NoLogin
      /\ queries' = [queries EXCEPT ![q] = Idle]
      /\ queries[q].step # "refreshed"
  BY DEF TakeError, Become, At
<1>2. Harmless
  BY <1>1, IdleTyped, SameServer, OneHarmless
     DEF Presents, Checked, RefreshSteps, Plain, TypeInv, TypeOK
<1> QED BY <1>1, <1>2, IdleTyped, SameServer, OneNotAdded

(* Queries that are not waited for any more.                               *)
LEMMA UnheardHarmless ==
    ASSUME NEW r \in Query
    PROVE  LET u == Unheard(r) IN
           /\ Brings(u) => Brings(r) /\ u.fresh = r.fresh
           /\ Presents(u)
                 => Presents(r) /\ u.token = r.token /\ r.step \in RefreshSteps
           /\ u.step # "refreshed"
           /\ Checked(u) => Checked(r) /\ u.kind = r.kind
           /\ u.step = "newSession" => r.step = "newSession"
<1> DEFINE v == [r EXCEPT !.heard = FALSE]
<1>1. /\ v.step = r.step /\ v.token = r.token /\ v.fresh = r.fresh /\ v.kind = r.kind
  BY DEF Query
<1> HIDE DEF v
<1>2. CASE Unheard(r) = Idle
  BY <1>2, IdleTyped DEF Brings, Presents, Checked, RefreshSteps
<1>3. CASE /\ Unheard(r) = v
           /\ r.step \notin {"idle", "queued"} \cup RefreshReplies \cup Replies
  BY <1>1, <1>3 DEF Brings, Presents, Checked, RefreshSteps, RefreshReplies
<1> QED BY <1>2, <1>3 DEF Unheard, v

LEMMA LeaveTabHarmless ==
    ASSUME TypeInv, NEW t \in Tabs, LeaveTab(t), UNCHANGED <<tabOf, server, time>>,
           storage' = storage \/ storage' = NoLogin
    PROVE  Harmless /\ NoneAdded
<1>1. missed' \in BOOLEAN /\ (missed => missed')
  BY DEF LeaveTab, TypeInv, TypeOK
<1>2. ASSUME NEW p \in Queries
      PROVE  /\ Brings(queries'[p]) => /\ Brings(queries[p])
                                       /\ queries'[p].fresh = queries[p].fresh
             /\ Presents(queries'[p]) => /\ Presents(queries[p])
                                         /\ queries'[p].token = queries[p].token
             /\ queries[p].step = "refreshed" =>
                   queries'[p].step = "refreshed" \/ missed' = TRUE
             /\ Checked(queries'[p]) =>
                   Checked(queries[p]) /\ queries'[p].kind = queries[p].kind
             /\ Presents(queries'[p]) /\ ~queries'[p].heard =>
                   \/ Presents(queries[p]) /\ ~queries[p].heard
                   \/ missed' = TRUE
             /\ queries'[p].step = "newSession"
                   => queries[p].step = "newSession"
  <2>1. queries[p] \in Query
    BY DEF TypeInv, TypeOK
  <2>2. CASE tabOf[p] # t
    <3>1. queries'[p] = queries[p]
      BY <2>2 DEF LeaveTab
    <3> QED BY <3>1
  <2>3. CASE tabOf[p] = t
    <3>1. queries'[p] = Unheard(queries[p])
      BY <2>3 DEF LeaveTab
    <3>2. Refreshing(p) => missed' = TRUE
      BY <2>3 DEF LeaveTab
    <3> QED BY <2>1, <3>1, <3>2, UnheardHarmless DEF Refreshing, At
  <2> QED BY <2>2, <2>3
<1> QED BY <1>1, <1>2, SameServer DEF Harmless, NoneAdded

LEMMA TakeAnswerHarmless ==
    ASSUME TypeInv, NEW q \in Queries, TakeAnswer(q), queries[q].kind # "login"
    PROVE  Harmless /\ NoneAdded
<1>1. /\ UNCHANGED <<tabOf, server, time, faults>>
      /\ queries[q].kind # "logout" => UNCHANGED missed
      /\ queries[q].step = "answered"
      /\ queries[q].kind \in {"get", "load", "logout"} /\ tabOf[q] \in Tabs
  BY DEF TakeAnswer, At, TypeInv, TypeOK, Query, Kinds
<1>2. CASE queries[q].kind \in {"get", "load"}
  <2>1. queries' = [queries EXCEPT ![q] = Idle] /\ UNCHANGED storage
    BY <1>2 DEF TakeAnswer, Become, browser
  <2>2. missed' = missed /\ missed \in BOOLEAN
    BY <1>1, <1>2 DEF TypeInv, TypeOK
  <2>3. Idle.step \in Plain /\ ~Presents(Idle) /\ ~Checked(Idle)
    BY IdleTyped DEF Plain, Presents, Checked, RefreshSteps
  <2>4. Harmless
    BY <1>1, <2>1, <2>2, <2>3, IdleTyped, SameServer, OneHarmless
  <2> QED BY <1>1, <2>1, <2>4, IdleTyped, SameServer, OneNotAdded
<1>3. CASE queries[q].kind = "logout"
  BY <1>1, <1>3, LeaveTabHarmless DEF TakeAnswer
<1> QED BY <1>1, <1>2, <1>3

LEMMA NetworkFailsHarmless ==
    ASSUME TypeInv, NEW q \in Queries, NetworkFails(q)
    PROVE  Harmless /\ NoneAdded
<1>1. /\ UNCHANGED <<tabOf, server, time>>
      /\ missed' \in BOOLEAN /\ (missed => missed')
      /\ Refreshing(q) => missed' = TRUE
      /\ storage' = storage \/ storage' = NoLogin
      /\ queries[q] \in Query
  BY DEF NetworkFails, TypeInv, TypeOK
<1>2. PICK r \in {Idle, Unheard(queries[q])} : queries' = [queries EXCEPT ![q] = r]
  BY DEF NetworkFails, Become
<1>3. /\ Brings(r) => Brings(queries[q]) /\ r.fresh = queries[q].fresh
      /\ Presents(r) => /\ Presents(queries[q]) /\ r.token = queries[q].token
                        /\ queries[q].step \in RefreshSteps
      /\ Checked(r) => Checked(queries[q]) /\ r.kind = queries[q].kind
      /\ r.step = "newSession" => queries[q].step = "newSession"
  BY <1>1, <1>2, IdleTyped, UnheardHarmless
     DEF Brings, Presents, Checked, RefreshSteps
<1>4. queries'[q] = r /\ \A p \in Queries : p # q => queries'[p] = queries[p]
  BY <1>2 DEF TypeInv, TypeOK
<1>5. queries[q].step \in RefreshSteps \cup {"refreshed"} => missed' = TRUE
  BY <1>1 DEF Refreshing, At
<1>6. Harmless
  BY <1>1, <1>3, <1>4, <1>5, SameServer DEF Harmless
<1> QED BY <1>1, <1>3, <1>4, <1>6, SameServer DEF NoneAdded

LEMMA SameQueriesHarmless ==
    ASSUME TypeInv,
           \/ \E t \in Tabs : FollowStorage(t)
           \/ UNCHANGED vars
           \/ \E s \in Sids : Revoke(s)
    PROVE  Harmless /\ NoneAdded
<1>1. UNCHANGED <<storage, queries, owner, missed, lapsed>>
  BY DEF FollowStorage, browser, server, time, vars, Revoke, DeleteSession
<1>2. sessions' \subseteq sessions /\ \A k \in 1 .. Len(owner) : Works(k)
         => Works(k)'
  <2>1. CASE UNCHANGED <<owner, sessions, alive>>
    BY <1>1, <2>1 DEF Works
  <2>2. CASE \E s \in Sids : Revoke(s)
    BY <1>1, <2>2 DEF Revoke, DeleteSession, Works
  <2> QED BY <2>1, <2>2 DEF FollowStorage, server, vars
<1> QED BY <1>1, <1>2 DEF Harmless, NoneAdded, TypeInv, TypeOK

(* What time does to the login: it marks queries and makes tokens lapse.   *)
LEMMA TimeHarmless ==
    ASSUME TypeInv, TimePasses
    PROVE  Harmless /\ NoneAdded
<1>1. /\ \A q \in Queries : SameBut(queries[q], queries'[q])
      /\ UNCHANGED <<storage, owner, missed, sessions>>
  BY TimeMarks, TimeIs
<1>2. ASSUME NEW k \in 1 .. Len(owner), Works(k)
      PROVE  Works(k)'
  <2>1. Len(owner) \in Nat
    BY DEF TypeInv, TypeOK
  <2>2. CASE k \in alive
    BY <2>2, TimeIs DEF Works
  <2>3. CASE owner[k] \notin sessions
    BY <1>1, <2>3 DEF Works
  <2>4. CASE k <= lapsed
    <3>1. lapsed \in Nat /\ lapsed' \in Nat /\ lapsed <= lapsed'
      BY TimeIs
    <3>2. k <= lapsed'
      BY <2>1, <2>4, <3>1
    <3> QED BY <3>2 DEF Works
  <2> QED BY <1>2, <2>2, <2>3, <2>4 DEF Works
<1>3. Harmless
  BY <1>1, <1>2 DEF Harmless, SameBut, Brings, Presents, Checked, TypeInv, TypeOK
<1>4. NoneAdded
  BY <1>1 DEF NoneAdded, SameBut
<1> QED BY <1>3, <1>4

-----------------------------------------------------------------------------
(* The handlers.                                                           *)
LEMMA ReadTokenHarmless ==
    ASSUME TypeInv, NEW q \in Queries, ReadToken(q)
    PROVE  Harmless /\ NoneAdded
<1> DEFINE k == queries[q].token
<1>1. /\ UNCHANGED <<tabOf, storage, server, time, missed, faults>>
      /\ queries[q] \in Query /\ queries[q].step = "token"
  BY DEF ReadToken, At, browser, TypeInv, TypeOK
<1>2. PICK r \in Query : /\ queries' = [queries EXCEPT ![q] = r]
                         /\ \/ r.step \in {"refused", "idle"}
                            \/ /\ r.step = "insert" /\ r.token = queries[q].token
                               /\ r.heard = queries[q].heard
  <2>1. CASE Accepted(k)
    <3> DEFINE r == [queries[q] EXCEPT !.step = "insert", !.sid = owner[k]]
    <3>1. owner[k] \in Sids
      <4>1. sessions \subseteq 1 .. opened /\ opened \in 0 .. MaxLogins
        BY DEF TypeInv, TypeOK
      <4>2. MaxLogins \in Nat
        BY BoundsAssumption
      <4>3. owner[k] \in 1 .. opened
        BY <2>1, <4>1 DEF Accepted
      <4> QED BY <4>1, <4>2, <4>3 DEF Sids
    <3>2. /\ r \in Query /\ r.step = "insert" /\ r.token = queries[q].token
          /\ r.heard = queries[q].heard
      BY <1>1, <3>1 DEF Query, Steps, RefreshSteps
    <3>3. queries' = [queries EXCEPT ![q] = r]
      BY <2>1 DEF ReadToken, Become
    <3> QED BY <3>2, <3>3
  <2>2. CASE ~Accepted(k)
    <3> DEFINE r == [queries[q] EXCEPT !.step = "refused"]
    <3>1. r \in Query /\ r.step = "refused"
      BY <1>1 DEF Query, Steps, RefreshReplies
    <3>2. \/ queries' = [queries EXCEPT ![q] = r]
          \/ queries' = [queries EXCEPT ![q] = Idle]
      BY <2>2 DEF ReadToken, Reply, Become
    <3> QED BY <3>1, <3>2, IdleTyped
  <2> QED BY <2>1, <2>2
<1>3. Harmless
  BY <1>1, <1>2, SameServer, OneHarmless
     DEF Presents, Checked, RefreshSteps, Plain, TypeInv, TypeOK
<1> QED BY <1>1, <1>2, <1>3, SameServer, OneNotAdded

LEMMA VerifyHarmless ==
    ASSUME TypeInv, LoginInv, NEW q \in Queries, Verify(q)
    PROVE  Harmless /\ NoneAdded
<1> DEFINE k == queries[q].token
           valid == k # None /\ k > expired /\ owner[k] \in sessions /\ ~banned
           u == [queries[q] EXCEPT !.step = "unauthorized"]
           a == [queries[q] EXCEPT !.step = "answered"]
           e == [queries[q] EXCEPT !.step = "end", !.sid = owner[k]]
<1>1. /\ UNCHANGED <<tabOf, storage, server, time, missed, faults>>
      /\ queries[q] \in Query /\ queries[q].step = "verify"
  BY DEF Verify, At, browser, TypeInv, TypeOK
<1>2. PICK r \in Query : /\ queries' = [queries EXCEPT ![q] = r]
                         /\ Checked(r) => r.kind # "login"
                         /\ \/ r.step \in {"unauthorized", "idle", "end"}
                            \/ r.step = "answered" /\ r.kind # "login"
  <2>1. /\ u \in Query /\ u.step = "unauthorized"
        /\ a \in Query /\ a.step = "answered" /\ a.kind = queries[q].kind
    BY <1>1 DEF Query, Steps, Replies
  <2>2. CASE ~valid
    <3>1. \/ queries' = [queries EXCEPT ![q] = u]
          \/ queries' = [queries EXCEPT ![q] = Idle]
      BY <2>2 DEF Verify, Reply, Become
    <3> QED BY <2>1, <3>1, IdleTyped DEF Checked
  <2>3. CASE valid /\ queries[q].kind = "logout"
    <3>1. owner[k] \in Sids
      <4>1. sessions \subseteq 1 .. opened /\ opened \in 0 .. MaxLogins
        BY DEF TypeInv, TypeOK
      <4>2. MaxLogins \in Nat
        BY BoundsAssumption
      <4>3. owner[k] \in 1 .. opened
        BY <2>3, <4>1
      <4> QED BY <4>1, <4>2, <4>3 DEF Sids
    <3>2. e \in Query /\ e.step = "end" /\ e.kind = "logout"
      BY <1>1, <2>3, <3>1 DEF Query, Steps, RequestSteps
    <3>3. queries' = [queries EXCEPT ![q] = e]
      BY <2>3 DEF Verify, Become
    <3> QED BY <3>2, <3>3
  <2>4. CASE valid /\ queries[q].kind # "logout"
    <3>1. \/ queries' = [queries EXCEPT ![q] = a]
          \/ queries' = [queries EXCEPT ![q] = Idle]
      BY <2>4 DEF Verify, Reply, Become
    <3>2. queries[q].kind # "login"
      BY <1>1 DEF LoginInv, NoLoginChecked, Checked
    <3> QED BY <2>1, <3>1, <3>2, IdleTyped DEF Checked
  <2> QED BY <2>2, <2>3, <2>4
<1>3. Harmless
  BY <1>1, <1>2, SameServer, OneHarmless
     DEF Presents, Checked, RefreshSteps, Plain, TypeInv, TypeOK
<1> QED BY <1>1, <1>2, <1>3, SameServer, OneNotAdded

LEMMA EndSessionHarmless ==
    ASSUME TypeInv, LoginInv, NEW q \in Queries, EndSession(q)
    PROVE  Harmless /\ NoneAdded
<1> DEFINE s == queries[q].sid
<1>1. /\ UNCHANGED <<tabOf, storage, owner, time, missed, faults>>
      /\ queries[q] \in Query /\ queries[q].step = "end"
      /\ sessions' \subseteq sessions
  BY DEF EndSession, DeleteSession, At, browser, TypeInv, TypeOK
<1>2. \A k \in 1 .. Len(owner) : Works(k) => Works(k)'
  <2>1. lapsed' = lapsed
    BY <1>1 DEF time
  <2> QED BY <1>1, <2>1 DEF EndSession, DeleteSession, Works
<1>3. PICK r \in Query : /\ queries' = [queries EXCEPT ![q] = r]
                         /\ \/ r.step \in {"rejected", "idle"}
                            \/ r.step = "answered" /\ r.kind # "login"
  <2>1. \A step \in {"answered", "rejected"} :
           /\ [queries[q] EXCEPT !.step = step, !.sid = None] \in Query
           /\ [queries[q] EXCEPT !.step = step, !.sid = None].step = step
           /\ [queries[q] EXCEPT !.step = step, !.sid = None].kind = queries[q].kind
    BY <1>1 DEF Query, Steps, Replies
  <2>2. PICK step \in {"answered", "rejected"} :
           Reply(q, [queries[q] EXCEPT !.step = step, !.sid = None])
    BY DEF EndSession
  <2>3. queries[q].kind # "login"
    BY <1>1 DEF LoginInv, NoLoginChecked, Checked
  <2> QED BY <2>1, <2>2, <2>3, IdleTyped DEF Reply, Become
<1>4. Harmless
  BY <1>1, <1>2, <1>3, OneHarmless
     DEF Presents, Checked, RefreshSteps, Plain, TypeInv, TypeOK
<1> QED BY <1>1, <1>3, <1>4, OneNotAdded

LEMMA LoginHandlersHarmless ==
    ASSUME TypeInv, NEW q \in Queries,
           \/ CountSessions(q) \/ EvictOldest(q) \/ InsertSession(q)
           \/ RefuseLogin(q)
    PROVE  Harmless
<1>1. /\ UNCHANGED <<tabOf, storage, owner, alive, time, missed, faults>>
      /\ queries[q] \in Query /\ queries[q].step \in {"count", "evict", "newSession"}
  BY DEF CountSessions, EvictOldest, InsertSession, RefuseLogin, At, browser,
      server, TypeInv, TypeOK
<1>2. /\ opened \in Nat /\ MaxLogins \in Nat /\ sessions \subseteq 1 .. opened
      /\ \A k \in 1 .. Len(owner) : owner[k] \in 1 .. opened
  BY BoundsAssumption DEF TypeInv, TypeOK, SessionKnown
<1>3. PICK r \in Query : /\ queries' = [queries EXCEPT ![q] = r]
                         /\ r.step \in {"evict", "newSession", "newToken", "idle"}
  <2>1. \A step \in {"evict", "newSession"} :
           /\ [queries[q] EXCEPT !.step = step] \in Query
           /\ [queries[q] EXCEPT !.step = step].step = step
    BY <1>1 DEF Query, Steps, RequestSteps
  <2>2. CASE CountSessions(q)
    BY <2>1, <2>2 DEF CountSessions, Go
  <2>3. CASE EvictOldest(q)
    BY <2>1, <2>3 DEF EvictOldest, Go
  <2>4. CASE InsertSession(q)
    <3> DEFINE r == [queries[q] EXCEPT !.step = "newToken", !.sid = opened + 1]
    <3>1. queries' = [queries EXCEPT ![q] = r] /\ opened + 1 \in Sids
      BY <1>2, <2>4 DEF InsertSession, Become, Sids
    <3>2. r \in Query /\ r.step = "newToken"
      BY <1>1, <3>1 DEF Query, Steps, RequestSteps
    <3> QED BY <3>1, <3>2
  <2>5. CASE RefuseLogin(q)
    BY <2>5, IdleTyped DEF RefuseLogin, Become
  <2> QED BY <2>2, <2>3, <2>4, <2>5
<1>5. lapsed' = lapsed
  BY <1>1 DEF time
<1>4. \A k \in 1 .. Len(owner) : Works(k) => Works(k)'
  <2>1. CASE InsertSession(q)
    <3>1. sessions' = sessions \cup {opened + 1}
      BY <2>1 DEF InsertSession
    <3> QED BY <1>1, <1>2, <1>5, <3>1 DEF Works
  <2>2. CASE sessions' \subseteq sessions
    BY <1>1, <1>5, <2>2 DEF Works
  <2> QED BY <2>1, <2>2 DEF CountSessions, EvictOldest, RefuseLogin, server
<1> QED BY <1>1, <1>3, <1>4, OneHarmless
        DEF Presents, Checked, RefreshSteps, Plain, TypeInv, TypeOK

(* A token arrives: after a refresh, or at the end of a login.             *)
LEMMA DeliveryKeeps ==
    ASSUME TypeInv, LoginInv, NEW q \in Queries, Brings(queries[q]),
           NEW r \in Query, queries' = [queries EXCEPT ![q] = r],
           storage' = Login(queries[q].fresh), ~Brings(r),
           Presents(r) => r.token = queries[q].fresh /\ r.heard,
           Checked(r) => r.kind # "login",
           UNCHANGED <<server, time, missed>>
    PROVE  LoginInv'
<1>0. PICK k : k = queries[q].fresh
  OBVIOUS
<1>1. UNCHANGED <<owner, sessions, alive, lapsed>>
  BY DEF server, time
<1>2. queries'[q] = r /\ \A p \in Queries : p # q => queries'[p] = queries[p]
  BY DEF TypeInv, TypeOK
<1>3. /\ storage'.refresh = k /\ storage'.access = k
      /\ k \in 1 .. Len(owner) /\ Len(owner) \in Nat /\ Works(k)
  BY <1>0 DEF Login, LoginInv, Secret, ArrivesUnused, TypeInv, TypeOK
<1>4. Issued'
  BY <1>0, <1>1, <1>2, <1>3 DEF LoginInv, Issued
<1>5. Secret'
  <2> SUFFICES ASSUME NEW p \in Queries, Brings(queries'[p])
      PROVE /\ queries'[p].fresh \in 1 .. Len(owner)
            /\ queries'[p].fresh # storage'.refresh
            /\ \A o \in Queries :
                  /\ Presents(queries'[o])
                        => queries'[o].token # queries'[p].fresh
                  /\ Brings(queries'[o]) /\ o # p
                        => queries'[o].fresh # queries'[p].fresh
    BY <1>1 DEF Secret
  <2>1. p # q /\ queries'[p] = queries[p] /\ Brings(queries[p])
    BY <1>2
  <2>2. /\ queries[p].fresh \in 1 .. Len(owner) /\ queries[p].fresh # k
        /\ \A o \in Queries :
              /\ Presents(queries[o]) => queries[o].token # queries[p].fresh
              /\ Brings(queries[o]) /\ o # p
                    => queries[o].fresh # queries[p].fresh
    BY <1>0, <2>1 DEF LoginInv, Secret
  <2> QED BY <1>0, <1>2, <1>3, <2>1, <2>2
<1>6. ArrivesUnused'
  BY <1>1, <1>2 DEF LoginInv, ArrivesUnused, Works
<1>7. Works(k)'
  BY <1>1, <1>3 DEF Works
<1>8. Renewed'
  BY <1>0, <1>1, <1>2, <1>3, <1>7 DEF LoginInv, Renewed, Works
<1>9. NoLoginChecked'
  BY <1>2 DEF LoginInv, NoLoginChecked
<1> QED BY <1>4, <1>5, <1>6, <1>8, <1>9 DEF LoginInv

LEMMA TakeRefreshedKeeps ==
    ASSUME TypeInv, LoginInv, NEW q \in Queries, TakeRefreshed(q)
    PROVE  LoginInv' /\ NoneAdded
<1> DEFINE w == Request(queries[q].kind, queries[q].fresh)
           r == [w EXCEPT !.overtaken = queries[q].overtaken]
<1>1. /\ UNCHANGED <<tabOf, page, server, time, missed, faults>>
      /\ queries[q] \in Query /\ queries[q].step = "refreshed"
      /\ storage' = Login(queries[q].fresh)
      /\ queries' = [queries EXCEPT ![q] = r]
  BY DEF TakeRefreshed, Become, At, TypeInv, TypeOK
<1>2. /\ r \in Query /\ r.step \in {"count", "verify"}
      /\ Checked(r) => r.kind # "login"
  <2>1. /\ w \in Query /\ w.step \in {"count", "verify"}
        /\ Checked(w) => w.kind # "login"
    BY <1>1, RequestTyped DEF Query
  <2> HIDE DEF w
  <2>2. r \in Query /\ r.step = w.step /\ r.kind = w.kind
    BY <1>1, <2>1 DEF Query
  <2> QED BY <2>1, <2>2 DEF Checked
<1> HIDE DEF r
<1>3. Brings(queries[q]) /\ ~Brings(r) /\ ~Presents(r)
  BY <1>1, <1>2 DEF Brings, Presents, RefreshSteps
<1> QED BY <1>1, <1>2, <1>3, DeliveryKeeps, SameServer, OneNotAdded

LEMMA TakeLoginKeeps ==
    ASSUME TypeInv, LoginInv, NEW q \in Queries, TakeAnswer(q), queries[q].kind = "login"
    PROVE  LoginInv' /\ NoneAdded
<1> DEFINE r == [Idle EXCEPT !.kind = "load", !.step = "queued",
                             !.token = queries[q].fresh]
<1>1. /\ UNCHANGED <<tabOf, server, time, missed, faults>>
      /\ queries[q] \in Query /\ queries[q].step = "answered"
      /\ storage' = Login(queries[q].fresh)
      /\ queries' = [queries EXCEPT ![q] = r]
  BY DEF TakeAnswer, Become, At, TypeInv, TypeOK
<1>2. /\ r \in Query /\ r.step = "queued" /\ r.token = queries[q].fresh /\ r.heard
  BY <1>1, IdleTyped DEF Query, Steps, Kinds
<1> HIDE DEF r
<1>3. Brings(queries[q]) /\ ~Brings(r) /\ ~Checked(r)
  BY <1>1, <1>2 DEF Brings, Checked
<1> QED BY <1>1, <1>2, <1>3, DeliveryKeeps, SameServer, OneNotAdded

LEMMA IssueTokenKeeps ==
    ASSUME TypeInv, LoginInv, NEW q \in Queries, RenewToken(q) \/ FirstToken(q)
    PROVE  LoginInv' /\ NoneAdded
<1>0. PICK k : k = Len(owner) + 1
  OBVIOUS
<1> DEFINE renew == [queries[q] EXCEPT !.step = "delete", !.fresh = k, !.sid = None]
           first == [queries[q] EXCEPT !.step = "answered", !.fresh = k, !.sid = None]
<1>1. /\ UNCHANGED <<tabOf, storage, sessions, opened, time, missed, faults>>
      /\ queries[q] \in Query /\ queries[q].step \in {"insert", "newToken"}
      /\ k \in Tokens /\ owner \in Seq(Sids) /\ queries[q].sid \in Sids
      /\ owner' = Append(owner, queries[q].sid)
      /\ alive' = alive \cup {k}
  <2>1. IssueToken(q) /\ queries[q].step \in {"insert", "newToken"}
    BY DEF RenewToken, FirstToken, At
  <2>2. queries[q].sid \in 1 .. opened /\ queries[q].sid \in Sids
    BY <2>1, BoundsAssumption DEF TypeInv, TypeOK, SessionKnown, At, Sids
  <2> QED BY <1>0, <2>1, <2>2, BoundsAssumption
             DEF IssueToken, browser, TypeInv, TypeOK, Tokens
<1>2. PICK r \in Query :
         /\ queries' = [queries EXCEPT ![q] = r]
         /\ r.step \in {"delete", "answered", "idle"}
         /\ Brings(r) => r.fresh = k
         /\ Presents(r) => /\ Presents(queries[q]) /\ r.token = queries[q].token
                           /\ r.heard = queries[q].heard
  <2>1. CASE At(q, {"insert"})
    <3>1. /\ renew \in Query /\ renew.step = "delete" /\ renew.fresh = k
          /\ renew.token = queries[q].token /\ renew.heard = queries[q].heard
      BY <1>1 DEF Query, Steps, RefreshSteps
    <3>2. queries' = [queries EXCEPT ![q] = renew]
      BY <1>0, <2>1 DEF RenewToken, FirstToken, IssueToken, Become
    <3>3. Presents(queries[q])
      BY <2>1 DEF At, Presents, RefreshSteps
    <3> QED BY <3>1, <3>2, <3>3
  <2>2. CASE ~At(q, {"insert"})
    <3>1. first \in Query /\ first.step = "answered" /\ first.fresh = k
      BY <1>1 DEF Query, Steps, Replies
    <3>2. \/ queries' = [queries EXCEPT ![q] = first]
          \/ queries' = [queries EXCEPT ![q] = Idle]
      BY <1>0, <2>2 DEF RenewToken, FirstToken, IssueToken, Reply, Become
    <3>3. ~Presents(first) /\ ~Presents(Idle) /\ ~Brings(Idle)
      BY <3>1, IdleTyped DEF Presents, Brings, RefreshSteps
    <3> QED BY <3>1, <3>2, <3>3, IdleTyped
  <2> QED BY <2>1, <2>2
<1>3. queries'[q] = r /\ \A p \in Queries : p # q => queries'[p] = queries[p]
  BY <1>2 DEF TypeInv, TypeOK
<1>4. /\ Len(owner) \in Nat /\ Len(owner') = Len(owner) + 1
      /\ \A j \in 1 .. Len(owner) : owner'[j] = owner[j]
  BY <1>1
<1>5. Works(k)' /\ \A j \in 1 .. Len(owner) : Works(j) => Works(j)'
  BY <1>1, <1>4 DEF Works, time
<1>6. Issued'
  BY <1>1, <1>2, <1>3, <1>4 DEF LoginInv, Issued
<1>7. Secret'
  <2> SUFFICES ASSUME NEW p \in Queries, Brings(queries'[p])
      PROVE /\ queries'[p].fresh \in 1 .. Len(owner')
            /\ queries'[p].fresh # storage.refresh
            /\ \A o \in Queries :
                  /\ Presents(queries'[o])
                        => queries'[o].token # queries'[p].fresh
                  /\ Brings(queries'[o]) /\ o # p
                        => queries'[o].fresh # queries'[p].fresh
    BY <1>1 DEF Secret
  <2>1. \A o \in Queries : Presents(queries'[o]) =>
           Presents(queries[o]) /\ queries'[o].token = queries[o].token
    BY <1>2, <1>3
  <2>2. CASE p = q
    <3>1. queries'[p].fresh = k
      BY <1>2, <1>3, <2>2
    <3>2. \A o \in Queries : Brings(queries'[o]) /\ o # q
             => queries'[o].fresh \in 1 .. Len(owner)
      BY <1>3 DEF LoginInv, Secret
    <3>3. \A o \in Queries : Presents(queries'[o])
             => queries'[o].token \in 1 .. Len(owner)
      BY <2>1 DEF LoginInv, Issued
    <3>4. storage.refresh \in 0 .. Len(owner)
      BY DEF LoginInv, Issued
    <3> QED BY <1>0, <1>4, <2>2, <3>1, <3>2, <3>3, <3>4
  <2>3. CASE p # q
    <3>1. queries'[p] = queries[p] /\ Brings(queries[p])
      BY <1>3, <2>3
    <3>2. /\ queries[p].fresh \in 1 .. Len(owner) /\ queries[p].fresh # storage.refresh
          /\ \A o \in Queries :
                /\ Presents(queries[o]) => queries[o].token # queries[p].fresh
                /\ Brings(queries[o]) /\ o # p
                      => queries[o].fresh # queries[p].fresh
      BY <3>1 DEF LoginInv, Secret
    <3> QED BY <1>0, <1>2, <1>3, <1>4, <2>1, <2>3, <3>1, <3>2
  <2> QED BY <2>2, <2>3
<1>8. ArrivesUnused'
  <2> SUFFICES ASSUME NEW p \in Queries, Brings(queries'[p])
      PROVE  Works(queries[p].fresh)'
    BY DEF ArrivesUnused
  <2>1. PICK j : j = queries'[p].fresh
    OBVIOUS
  <2>2. Works(j)'
    <3>1. CASE p = q
      BY <1>2, <1>3, <1>5, <2>1, <3>1
    <3>2. CASE p # q
      <4>1. queries'[p] = queries[p]
        BY <1>3, <3>2
      <4>2. j \in 1 .. Len(owner) /\ Works(j)
        BY <2>1, <4>1 DEF LoginInv, ArrivesUnused, Secret
      <4> QED BY <1>5, <4>2
    <3> QED BY <3>1, <3>2
  <2> QED BY <2>1, <2>2 DEF Works
<1>9. Renewed'
  <2>1. storage.refresh # None => storage.refresh \in 1 .. Len(owner)
    BY <1>4 DEF LoginInv, Issued, None
  <2>2. \A p \in Queries : queries[p].step = "refreshed"
           => queries'[p].step = "refreshed"
    BY <1>1, <1>3
  <2>3. \A p \in Queries : Presents(queries'[p]) /\ ~queries'[p].heard
                              => Presents(queries[p]) /\ ~queries[p].heard
    BY <1>2, <1>3
  <2>4. storage.refresh # None /\ Works(storage.refresh)
           => Works(storage.refresh)'
    BY <1>1, <1>4, <2>1 DEF Works, time
  <2> QED BY <1>1, <2>2, <2>3, <2>4 DEF LoginInv, Renewed
<1>10. NoLoginChecked'
  BY <1>2, <1>3 DEF LoginInv, NoLoginChecked, Checked
<1>11. NoneAdded
  BY <1>1, <1>2, OneNotAdded
<1> QED BY <1>6, <1>7, <1>8, <1>9, <1>10, <1>11 DEF LoginInv

LEMMA DeleteTokenKeeps ==
    ASSUME TypeInv, LoginInv, NEW q \in Queries, DeleteToken(q)
    PROVE  LoginInv' /\ NoneAdded
<1>0. PICK k : k = queries[q].token
  OBVIOUS
<1> DEFINE v == [queries[q] EXCEPT !.step = "refreshed", !.token = None]
           r == IF queries[q].heard THEN v ELSE Idle
<1>1. /\ UNCHANGED <<tabOf, storage, sessions, opened, owner, time, missed,
                     faults>>
      /\ queries[q] \in Query /\ queries[q].step = "delete"
      /\ alive' = alive \ {k}
      /\ queries' = [queries EXCEPT ![q] = r]
  BY <1>0 DEF DeleteToken, At, Reply, Become, browser, TypeInv, TypeOK
<1>2. v \in Query /\ v.step = "refreshed" /\ v.fresh = queries[q].fresh
      /\ v.overtaken = queries[q].overtaken
  BY <1>1 DEF Query, Steps, RefreshReplies
<1>3. /\ Brings(queries[q]) /\ Presents(queries[q])
      /\ r \in Query /\ ~Presents(r) /\ ~Checked(r) /\ r.step # "newSession"
      /\ Brings(r) => r.fresh = queries[q].fresh
      /\ queries[q].heard => r.step = "refreshed"
  BY <1>1, <1>2, IdleTyped DEF Brings, Presents, Checked, RefreshSteps
<1> HIDE DEF r
<1>4. queries'[q] = r /\ \A p \in Queries : p # q => queries'[p] = queries[p]
  BY <1>1 DEF TypeInv, TypeOK
<1>5. \A j \in 1 .. Len(owner) : j # k /\ Works(j) => Works(j)'
  BY <1>1 DEF Works, time
<1>6. Issued'
  BY <1>1, <1>3, <1>4 DEF LoginInv, Issued
<1>7. ASSUME NEW p \in Queries, Brings(queries'[p])
      PROVE  Brings(queries[p]) /\ queries'[p].fresh = queries[p].fresh
  BY <1>3, <1>4, <1>7
<1>8. ASSUME NEW p \in Queries, Presents(queries'[p])
      PROVE  Presents(queries[p]) /\ queries'[p] = queries[p]
  BY <1>3, <1>4, <1>8
<1>9. Secret'
  BY <1>1, <1>7, <1>8 DEF LoginInv, Secret
<1>10. ArrivesUnused'
  <2> SUFFICES ASSUME NEW p \in Queries, Brings(queries'[p])
      PROVE  Works(queries[p].fresh)'
    BY DEF ArrivesUnused
  <2>1. PICK j : j = queries[p].fresh
    OBVIOUS
  <2>2. j \in 1 .. Len(owner) /\ j # k /\ Works(j)
    BY <1>0, <1>3, <1>7, <2>1 DEF LoginInv, Secret, ArrivesUnused
  <2>3. Works(j)' /\ j = queries'[p].fresh
    BY <1>5, <1>7, <2>1, <2>2
  <2> QED BY <2>3 DEF Works
<1>11. Renewed'
  <2>1. storage.refresh # None => storage.refresh \in 1 .. Len(owner)
    BY DEF LoginInv, Issued, None, TypeInv, TypeOK
  <2>2. ASSUME storage.refresh # None, ~missed
        PROVE  Works(storage.refresh)' \/ \E p \in Queries : queries'[p].step = "refreshed"
    <3>1. queries[q].heard
      BY <1>3, <2>2 DEF LoginInv, Renewed
    <3> QED BY <1>3, <1>4, <3>1
  <2>3. \A p \in Queries : Presents(queries'[p]) /\ ~queries'[p].heard => missed
    BY <1>8 DEF LoginInv, Renewed
  <2> QED BY <1>1, <2>2, <2>3 DEF LoginInv, Renewed
<1>12. NoLoginChecked'
  BY <1>3, <1>4 DEF LoginInv, NoLoginChecked
<1>13. NoneAdded
  BY <1>1, <1>3, OneNotAdded
<1> QED BY <1>6, <1>9, <1>10, <1>11, <1>12, <1>13 DEF LoginInv

-----------------------------------------------------------------------------
(* All actions together.                                                   *)
LEMMA InitLogin == Init => LoginInv
<1> SUFFICES ASSUME Init PROVE LoginInv
  OBVIOUS
<1>1. /\ \A q \in Queries : queries[q] = Idle
      /\ storage.access = 0 /\ storage.refresh = 0 /\ Len(owner) = 0
  BY DEF Init, NoLogin, None
<1>2. ~Brings(Idle) /\ ~Presents(Idle) /\ ~Checked(Idle)
  BY IdleTyped DEF Brings, Presents, Checked, RefreshSteps
<1> QED BY <1>1, <1>2 DEF LoginInv, Issued, Secret, ArrivesUnused, Renewed,
                          NoLoginChecked, None

LEMMA NextLogin == TypeInv /\ LoginInv /\ [Next]_vars => LoginInv'
<1> SUFFICES ASSUME TypeInv, LoginInv, [Next]_vars PROVE LoginInv'
  OBVIOUS
<1>1. ASSUME NEW q \in Queries,
             StartGet(q) \/ StartLogout(q) \/ StartLogin(q) \/ StartApp(q)
      PROVE  Harmless
  <2>1. CASE StartGet(q) \/ StartLogout(q) \/ StartLogin(q)
    <3>1. At(q, {"idle"}) /\ \E kind \in Kinds : StartQuery(q, kind)
      BY <2>1 DEF StartGet, StartLogout, StartLogin, Kinds
    <3> QED BY <3>1, StartQueryHarmless
  <2>2. CASE StartApp(q)
    <3>1. At(q, {"idle"})
      BY <2>2 DEF StartApp
    <3>2. CASE storage.access # None
      BY <2>2, <3>1, <3>2, StartQueryHarmless DEF StartApp, Kinds
    <3>3. CASE storage.access = None
      <4>1. UNCHANGED <<storage, queries, owner, missed, server, time>>
        BY <2>2, <3>3 DEF StartApp, server
      <4> QED BY <4>1, SameServer DEF Harmless, TypeInv, TypeOK
    <3> QED BY <3>2, <3>3
  <2> QED BY <1>1, <2>1, <2>2
<1>2. ASSUME NEW q \in Queries, Client(q) \/ NetworkFails(q)
      PROVE  Harmless \/ LoginInv'
  BY <1>2, AcquireHarmless, TakeRefreshedKeeps, TakeRefusedHarmless,
     TakeAnswerHarmless, TakeLoginKeeps, TakeErrorHarmless,
     NetworkFailsHarmless DEF Client
<1>3. ASSUME NEW q \in Queries, Handler(q)
      PROVE  Harmless \/ LoginInv'
  BY <1>3, ReadTokenHarmless, IssueTokenKeeps, DeleteTokenKeeps, VerifyHarmless,
     EndSessionHarmless, LoginHandlersHarmless DEF Handler
<1>4. ASSUME NEW t \in Tabs, Reload(t)
      PROVE  Harmless
  BY <1>4, LeaveTabHarmless DEF Reload
<1>5. ASSUME \/ \E t \in Tabs : FollowStorage(t)
             \/ TimePasses
             \/ UNCHANGED vars
             \/ \E s \in Sids : Revoke(s)
      PROVE  Harmless
  BY <1>5, SameQueriesHarmless, TimeHarmless
<1>6. Harmless \/ LoginInv'
  BY <1>1, <1>2, <1>3, <1>4, <1>5 DEF Next, TimePasses
<1>7. CASE Harmless
  BY <1>7, HarmlessKeeps
<1> QED BY <1>6, <1>7

LEMMA AlwaysLogin == Spec => []LoginInv
BY AlwaysTyped, InitLogin, NextLogin, PTL DEF Spec

(* The login in localStorage is one login and can still be refreshed,      *)
(* however the queries of any number of tabs interleave (Ajax.ts and       *)
(* refreshAccessToken): unless a reply went missing, the session ended,    *)
(* the refresh token's 28 days are over or the user is banned.             *)
THEOREM StoredLoginIsGood == Spec => []StoredLoginWorks
<1>2. TypeInv /\ LoginInv => StoredLoginWorks
  <2> SUFFICES ASSUME TypeInv, LoginInv PROVE StoredLoginWorks
    OBVIOUS
  <2>1. ASSUME storage.refresh # None, ~missed,
               owner[storage.refresh] \in sessions,
               storage.refresh > lapsed, ~banned,
               \A q \in Queries : ~At(q, RefreshSteps \cup RefreshReplies)
        PROVE  Accepted(storage.refresh)
    <3>1. \A q \in Queries : queries[q].step # "refreshed"
      BY <2>1 DEF At, RefreshReplies
    <3>2. storage.refresh \in Nat /\ lapsed \in Nat
      <4>1. /\ lapsed \in 0 .. expired /\ expired \in 0 .. Len(owner)
            /\ storage.refresh \in 0 .. Len(owner) /\ Len(owner) \in Nat
        BY DEF TypeInv, TypeOK, LoginInv, Issued
      <4> QED BY <4>1
    <3>3. Works(storage.refresh)
      BY <2>1, <3>1 DEF LoginInv, Renewed
    <3> QED BY <2>1, <3>2, <3>3 DEF Works, Accepted
  <2> QED BY <2>1 DEF StoredLoginWorks, LoginInv, Renewed
<1> QED BY <1>2, AlwaysTyped, AlwaysLogin, PTL

LEMMA OpeningFinite ==
    ASSUME TypeInv
    PROVE  /\ IsFiniteSet(sessions) /\ IsFiniteSet(Opening)
           /\ Cardinality(sessions) \in Nat /\ Cardinality(Opening) \in Nat
           /\ Cardinality(Opening) <= Cardinality(Queries)
           /\ Cardinality(Queries) \in Nat
<1>1. IsFiniteSet(1 .. opened)
  BY FS_Interval DEF TypeInv, TypeOK
<1>2. sessions \subseteq 1 .. opened /\ Opening \subseteq Queries
  BY DEF TypeInv, TypeOK, Opening
<1>3. /\ IsFiniteSet(sessions) /\ IsFiniteSet(Opening)
      /\ Cardinality(Opening) <= Cardinality(Queries)
  BY <1>1, <1>2, ActorsAreFinite, FS_Subset
<1> QED BY <1>3, ActorsAreFinite, FS_CardinalityType

LEMMA NoneAddedKeeps ==
    ASSUME TypeInv, RoomMade, NoneAdded
    PROVE  RoomMade'
<1>1. sessions' \subseteq sessions /\ Opening' \subseteq Opening
  BY DEF NoneAdded, Opening
<1>2. /\ IsFiniteSet(sessions') /\ Cardinality(sessions') <= Cardinality(sessions)
      /\ IsFiniteSet(Opening') /\ Cardinality(Opening') <= Cardinality(Opening)
  BY <1>1, OpeningFinite, FS_Subset
<1>3. Cardinality(sessions') \in Nat /\ Cardinality(Opening') \in Nat
  BY <1>2, FS_CardinalityType
<1> QED BY <1>2, <1>3, OpeningFinite, BoundsAssumption DEF RoomMade

LEMMA OpeningGrows ==
    ASSUME TypeInv, NEW q \in Queries, queries[q].step # "newSession",
           queries' = [queries EXCEPT ![q].step = "newSession"]
    PROVE  /\ Cardinality(Opening') = Cardinality(Opening) + 1
           /\ Cardinality(Opening') <= Cardinality(Queries)
<1>1. Opening' = Opening \cup {q} /\ Opening' \subseteq Queries
  BY DEF Opening, TypeInv, TypeOK, Query
<1>2. q \notin Opening
  BY DEF Opening
<1> QED BY <1>1, <1>2, ActorsAreFinite, OpeningFinite, FS_AddElement, FS_Subset

LEMMA LoginHandlersRoom ==
    ASSUME TypeInv, RoomMade, NEW q \in Queries,
           \/ CountSessions(q) \/ EvictOldest(q) \/ InsertSession(q)
           \/ RefuseLogin(q)
    PROVE  RoomMade'
<1>1. MaxSessions \in Nat \ {0}
  BY BoundsAssumption
<1>2. CASE CountSessions(q)
  <2>1. sessions' = sessions /\ queries[q].step = "count"
    BY <1>2 DEF CountSessions, server, At
  <2>2. CASE Cardinality(sessions) >= MaxSessions
    <3>1. queries' = [queries EXCEPT ![q].step = "evict"]
      BY <1>2, <2>2 DEF CountSessions, Go
    <3>2. NoneAdded
      BY <2>1, <3>1 DEF NoneAdded, TypeInv, TypeOK, Query
    <3> QED BY <3>2, NoneAddedKeeps
  <2>3. CASE ~(Cardinality(sessions) >= MaxSessions)
    <3>1. queries' = [queries EXCEPT ![q].step = "newSession"]
      BY <1>2, <2>3 DEF CountSessions, Go
    <3>2. Cardinality(Opening') <= Cardinality(Queries)
          /\ Cardinality(Opening') = Cardinality(Opening) + 1
      BY <2>1, <3>1, OpeningGrows
    <3> QED BY <1>1, <2>1, <2>3, <3>2, OpeningFinite DEF RoomMade
  <2> QED BY <2>2, <2>3
<1>3. CASE EvictOldest(q)
  <2>1. /\ queries[q].step = "evict"
        /\ queries' = [queries EXCEPT ![q].step = "newSession"]
    BY <1>3 DEF EvictOldest, Go, At
  <2>2. Cardinality(Opening') <= Cardinality(Queries)
        /\ Cardinality(Opening') = Cardinality(Opening) + 1
    BY <2>1, OpeningGrows
  <2>3. CASE sessions = {} /\ sessions' = sessions
    <3>1. Cardinality(sessions') = 0
      BY <2>3, FS_EmptySet
    <3> QED BY <1>1, <2>2, <3>1, OpeningFinite DEF RoomMade
  <2>4. CASE \E s \in sessions : sessions' = sessions \ {s}
    <3>1. Cardinality(sessions') = Cardinality(sessions) - 1
      BY <2>4, OpeningFinite, FS_RemoveElement
    <3> QED BY <1>1, <2>2, <3>1, OpeningFinite DEF RoomMade
  <2> QED BY <1>3, <2>3, <2>4 DEF EvictOldest
<1>4. CASE InsertSession(q)
  <2> DEFINE r == [queries[q] EXCEPT !.step = "newToken", !.sid = opened']
  <2>1. /\ queries[q].step = "newSession"
        /\ queries' = [queries EXCEPT ![q] = r]
        /\ sessions' = sessions \cup {opened + 1}
        /\ queries[q] \in Query
    BY <1>4 DEF InsertSession, Become, At, TypeInv, TypeOK
  <2>2. r.step = "newToken"
    BY <2>1 DEF Query
  <2> HIDE DEF r
  <2>3. Opening' = Opening \ {q} /\ q \in Opening
    BY <2>1, <2>2 DEF Opening, TypeInv, TypeOK
  <2>4. Cardinality(Opening') = Cardinality(Opening) - 1
    BY <2>3, OpeningFinite, FS_RemoveElement
  <2>5. opened + 1 \notin sessions
    BY DEF TypeInv, TypeOK
  <2>6. Cardinality(sessions') = Cardinality(sessions) + 1
    BY <2>1, <2>5, OpeningFinite, FS_AddElement
  <2> QED BY <1>1, <2>4, <2>6, OpeningFinite DEF RoomMade
<1>5. CASE RefuseLogin(q)
  <2>1. queries' = [queries EXCEPT ![q] = Idle] /\ sessions' = sessions
    BY <1>5 DEF RefuseLogin, Become, server
  <2>2. NoneAdded
    BY <2>1, IdleTyped DEF NoneAdded, TypeInv, TypeOK
  <2> QED BY <2>2, NoneAddedKeeps
<1> QED BY <1>2, <1>3, <1>4, <1>5

LEMMA NextRoom == TypeInv /\ LoginInv /\ RoomMade /\ [Next]_vars => RoomMade'
<1> SUFFICES ASSUME TypeInv, LoginInv, RoomMade, [Next]_vars PROVE RoomMade'
  OBVIOUS
<1>1. ASSUME NEW q \in Queries,
             StartGet(q) \/ StartLogout(q) \/ StartLogin(q) \/ StartApp(q)
      PROVE  NoneAdded
  <2>1. CASE StartGet(q) \/ StartLogout(q) \/ StartLogin(q)
    <3>1. At(q, {"idle"}) /\ \E kind \in Kinds : StartQuery(q, kind)
      BY <2>1 DEF StartGet, StartLogout, StartLogin, Kinds
    <3> QED BY <3>1, StartQueryHarmless
  <2>2. CASE StartApp(q)
    <3>1. At(q, {"idle"})
      BY <2>2 DEF StartApp
    <3>2. CASE storage.access # None
      BY <2>2, <3>1, <3>2, StartQueryHarmless DEF StartApp, Kinds
    <3>3. CASE storage.access = None
      BY <2>2, <3>3 DEF StartApp, server, NoneAdded
    <3> QED BY <3>2, <3>3
  <2> QED BY <1>1, <2>1, <2>2
<1>2. ASSUME NEW q \in Queries, Client(q) \/ NetworkFails(q)
      PROVE  NoneAdded
  BY <1>2, AcquireHarmless, TakeRefreshedKeeps, TakeRefusedHarmless,
     TakeAnswerHarmless, TakeLoginKeeps, TakeErrorHarmless,
     NetworkFailsHarmless DEF Client
<1>3. ASSUME NEW q \in Queries, Handler(q)
      PROVE  NoneAdded \/ RoomMade'
  BY <1>3, ReadTokenHarmless, IssueTokenKeeps, DeleteTokenKeeps, VerifyHarmless,
     EndSessionHarmless, LoginHandlersRoom DEF Handler
<1>4. ASSUME NEW t \in Tabs, Reload(t)
      PROVE  NoneAdded
  BY <1>4, LeaveTabHarmless DEF Reload
<1>5. ASSUME \/ \E t \in Tabs : FollowStorage(t)
             \/ TimePasses
             \/ UNCHANGED vars
             \/ \E s \in Sids : Revoke(s)
      PROVE  NoneAdded
  BY <1>5, SameQueriesHarmless, TimeHarmless
<1>6. NoneAdded \/ RoomMade'
  BY <1>1, <1>2, <1>3, <1>4, <1>5 DEF Next, TimePasses
<1>7. CASE NoneAdded
  BY <1>7, NoneAddedKeeps
<1> QED BY <1>6, <1>7

(* Parallel logins leave at most MaxSessionsPerUser - 1 sessions more than *)
(* there are queries (CreateSession), however often they are repeated.     *)
THEOREM SessionsAreBounded == Spec => []SessionBound
<1>1. Init => RoomMade
  <2> SUFFICES ASSUME Init PROVE RoomMade
    OBVIOUS
  <2>1. sessions = {} /\ Opening = {}
    BY IdleTyped DEF Init, Opening
  <2>2. Cardinality(sessions) = 0 /\ Cardinality(Opening) = 0
    BY <2>1, FS_EmptySet
  <2>3. Cardinality(Queries) \in Nat
    BY ActorsAreFinite, FS_CardinalityType
  <2> QED BY <2>2, <2>3, BoundsAssumption DEF RoomMade
<1>2. Spec => []RoomMade
  BY <1>1, AlwaysTyped, AlwaysLogin, NextRoom, PTL DEF Spec
<1>3. TypeInv /\ RoomMade => SessionBound
  BY OpeningFinite, BoundsAssumption DEF RoomMade, SessionBound
<1> QED BY <1>2, <1>3, AlwaysTyped, PTL

-----------------------------------------------------------------------------
(* Nobody is logged out whose session is alive.                            *)

LoginAnswered(r) == r.step = "answered" /\ r.kind = "login"

(* A login opens a session of its own: until its token arrives no other    *)
(* token belongs to that session.  A refresh stays within the session of   *)
(* the token it presents.                                                  *)
OwnSession ==
    /\ \A q \in Queries : queries[q].step = "newToken" =>
          /\ \A k \in 1 .. Len(owner) : owner[k] # queries[q].sid
          /\ \A p \in Queries : queries[p].step = "newToken" /\ p # q
                                   => queries[p].sid # queries[q].sid
    /\ \A q \in Queries : LoginAnswered(queries[q]) =>
          \A k \in 1 .. Len(owner) :
             owner[k] = owner[queries[q].fresh] => k = queries[q].fresh
    /\ \A q \in Queries : queries[q].step = "insert" =>
          queries[q].sid = owner[queries[q].token]

RefusedKnown ==
    \A q \in Queries : queries[q].step = "refused" =>
        /\ queries[q].token \in 1 .. Len(owner)
        /\ \A p \in Queries :
              Brings(queries[p]) => queries[p].fresh # queries[q].token

(* A request leaves with an access token that has not run out, or is       *)
(* overtaken; it is turned away only if its session has ended or there is  *)
(* a ban.                                                                  *)
Unexpired ==
    /\ \A q \in Queries : queries[q].step \in {"verify", "unauthorized"} =>
          queries[q].token \in 0 .. Len(owner)
    /\ \A q \in Queries : queries[q].step \in {"delete", "refreshed"} =>
          queries[q].fresh > expired \/ queries[q].overtaken
    /\ \A q \in Queries : queries[q].step = "verify" =>
          \/ queries[q].token = None \/ queries[q].token > expired
          \/ queries[q].overtaken
    /\ \A q \in Queries : queries[q].step = "unauthorized" =>
          \/ queries[q].token = None
          \/ owner[queries[q].token] \notin sessions
          \/ banned \/ queries[q].overtaken

(* What one tab presents is what it has stored, unless the login is        *)
(* another one by now, or a query that waited found it renewed and already *)
(* over.                                                                   *)
Foreign(k) == storage.refresh = None \/ owner[k] # owner[storage.refresh]

Stale(k) == k # storage.refresh /\ storage.access <= expired

InTime ==
    OneTab /\ ~missed => \A q \in Queries :
        LET k == queries[q].token IN
        /\ queries[q].step = "token" =>
              Foreign(k) \/ k = storage.refresh \/ storage.access <= expired
        /\ queries[q].step = "refused" =>
              \/ Foreign(k) \/ Stale(k) \/ queries[q].overtaken
              \/ owner[k] \notin sessions \/ storage.refresh <= lapsed \/ banned

KeepInv == OwnSession /\ RefusedKnown /\ Unexpired /\ InTime

(* How a query may go on, r to s, in a step that neither issues nor        *)
(* delivers a token.                                                       *)
GoesOn(r, s) ==
    /\ s.step = "newToken" =>
          (r.step = "newToken" /\ s.sid = r.sid) \/ s.sid = opened + 1
    /\ LoginAnswered(s) => LoginAnswered(r) /\ s.fresh = r.fresh
    /\ Brings(s) => Brings(r) /\ s.fresh = r.fresh
    /\ s.step = "insert" =>
          \/ r.step = "insert" /\ s.sid = r.sid /\ s.token = r.token
          \/ s.sid = owner[s.token]
    /\ s.step \in {"delete", "refreshed"} /\ r.step \in {"delete", "refreshed"}
          /\ r.overtaken => s.overtaken
    /\ s.step \in {"delete", "refreshed"} => r.step \in {"delete", "refreshed"}
    /\ s.step = "refused" =>
          /\ s.token = r.token
          /\ \/ r.step = "refused" /\ (r.overtaken => s.overtaken)
             \/ /\ r.step = "token"
                /\ s.token \notin alive \/ s.token <= lapsed
                      \/ owner[s.token] \notin sessions \/ banned
    /\ s.step = "verify" =>
          \/ r.step = "verify" /\ s.token = r.token /\ (r.overtaken => s.overtaken)
          \/ s.token = None
          \/ s.token = storage.refresh /\ s.token > expired
    /\ s.step = "unauthorized" =>
          /\ s.token = r.token /\ (r.overtaken => s.overtaken)
          /\ \/ r.step = "unauthorized"
             \/ /\ r.step = "verify"
                /\ \/ s.token = None \/ s.token <= expired
                   \/ owner[s.token] \notin sessions \/ banned
    /\ s.step = "token" =>
          /\ s.token = r.token
          /\ \/ r.step = "token"
             \/ /\ r.step = "queued"
                /\ storage.access = None \/ storage.access <= expired

Steady ==
    /\ tabOf' = tabOf /\ owner' = owner
    /\ storage' = storage \/ storage' = NoLogin
    /\ missed => missed'
    /\ expired <= expired' /\ lapsed <= lapsed'
    /\ \/ expired' = expired /\ (banned => banned')
       \/ \A q \in Queries : Refusable(queries'[q]) => queries'[q].overtaken
    /\ \A k \in 1 .. Len(owner) :
          owner[k] \in sessions' => owner[k] \in sessions
    /\ \A q \in Queries : GoesOn(queries[q], queries'[q])
    /\ \A p, q \in Queries :
          \/ p = q
          \/ queries'[p].step = "newToken" => queries'[p].sid = queries[p].sid
                                                /\ queries[p].step = "newToken"
          \/ queries'[q].step = "newToken" => queries'[q].sid = queries[q].sid
                                                /\ queries[q].step = "newToken"

LEMMA OneHolder ==
    ASSUME TypeInv, OneTab, NEW p \in Queries, NEW q \in Queries,
           Holds(queries[p]), Holds(queries[q])
    PROVE  p = q
BY DEF TypeInv, Mutex, AtHead, OneTab

LEMMA SteadyKeeps ==
    ASSUME TypeInv, LoginInv, KeepInv, Steady, TypeInv'
    PROVE  KeepInv'
<1>1. /\ owner' = owner /\ tabOf' = tabOf /\ Len(owner) \in Nat
      /\ expired \in Nat /\ expired' \in Nat /\ lapsed \in Nat /\ lapsed' \in Nat
      /\ queries \in [Queries -> Query] /\ opened \in Nat
      /\ \A q \in Queries : GoesOn(queries[q], queries'[q])
  BY BoundsAssumption DEF Steady, TypeInv, TypeOK
<1>2. /\ storage.access = storage.refresh
      /\ storage.refresh \in 0 .. Len(owner)
  BY DEF LoginInv, Renewed, Issued
<1>3. OwnSession'
  <2>1. ASSUME NEW q \in Queries, queries'[q].step = "newToken"
        PROVE  /\ \A k \in 1 .. Len(owner) : owner[k] # queries'[q].sid
               /\ \A p \in Queries : queries'[p].step = "newToken" /\ p # q
                                        => queries'[p].sid # queries'[q].sid
    <3>1. \A k \in 1 .. Len(owner) : owner[k] \in 1 .. opened
      BY DEF TypeInv, SessionKnown
    <3>2. \A p \in Queries : queries[p].step = "newToken" =>
             /\ queries[p].sid \in 1 .. opened
             /\ \A k \in 1 .. Len(owner) : owner[k] # queries[p].sid
      BY DEF TypeInv, SessionKnown, At, KeepInv, OwnSession
    <3>3. \A p \in Queries : queries'[p].step = "newToken" =>
             \/ queries[p].step = "newToken" /\ queries'[p].sid = queries[p].sid
             \/ queries'[p].sid = opened + 1
      BY <1>1 DEF GoesOn
    <3>4. \A k \in 1 .. Len(owner) : owner[k] # queries'[q].sid
      BY <1>1, <2>1, <3>1, <3>2, <3>3
    <3>5. ASSUME NEW p \in Queries, queries'[p].step = "newToken", p # q
          PROVE  queries'[p].sid # queries'[q].sid
      <4>1. CASE /\ queries[p].step = "newToken"
                 /\ queries'[p].sid = queries[p].sid
                 /\ queries[q].step = "newToken"
                 /\ queries'[q].sid = queries[q].sid
        BY <3>5, <4>1 DEF KeepInv, OwnSession
      <4>2. \/ queries[p].step = "newToken" /\ queries'[p].sid = queries[p].sid
            \/ queries[q].step = "newToken" /\ queries'[q].sid = queries[q].sid
        BY <2>1, <3>5 DEF Steady
      <4> QED BY <1>1, <2>1, <3>5, <3>2, <3>3, <4>1, <4>2
    <3> QED BY <3>4, <3>5
  <2>2. ASSUME NEW q \in Queries, LoginAnswered(queries'[q]),
               NEW k \in 1 .. Len(owner), owner[k] = owner[queries'[q].fresh]
        PROVE  k = queries'[q].fresh
    BY <1>1, <2>2 DEF GoesOn, KeepInv, OwnSession
  <2>3. ASSUME NEW q \in Queries, queries'[q].step = "insert"
        PROVE  queries'[q].sid = owner[queries'[q].token]
    BY <1>1, <2>3 DEF GoesOn, KeepInv, OwnSession
  <2> QED BY <1>1, <2>1, <2>2, <2>3 DEF OwnSession, LoginAnswered
<1>4. RefusedKnown'
  <2>1. ASSUME NEW q \in Queries, queries'[q].step = "refused"
        PROVE  /\ queries'[q].token \in 1 .. Len(owner)
               /\ \A p \in Queries : Brings(queries'[p]) =>
                     queries'[p].fresh # queries'[q].token
    <3>1. /\ queries'[q].token = queries[q].token
          /\ queries[q].step \in {"token", "refused"}
      BY <1>1, <2>1 DEF GoesOn
    <3>2. \A p \in Queries : Brings(queries'[p]) =>
             Brings(queries[p]) /\ queries'[p].fresh = queries[p].fresh
      BY <1>1 DEF GoesOn
    <3>3. CASE queries[q].step = "refused"
      BY <3>1, <3>2, <3>3 DEF KeepInv, RefusedKnown
    <3>4. CASE queries[q].step = "token"
      <4>1. Presents(queries[q])
        BY <3>4 DEF Presents, RefreshSteps
      <4> QED BY <3>1, <3>2, <4>1 DEF LoginInv, Issued, Secret
    <3> QED BY <3>1, <3>3, <3>4
  <2> QED BY <1>1, <2>1 DEF RefusedKnown, Brings
<1>5. Unexpired'
  <2>1. ASSUME NEW q \in Queries, queries'[q].step \in {"verify", "unauthorized"}
        PROVE  queries'[q].token \in 0 .. Len(owner)
    BY <1>1, <1>2, <2>1 DEF GoesOn, KeepInv, Unexpired, None
  <2>2. CASE \A q \in Queries : Refusable(queries'[q]) => queries'[q].overtaken
    BY <1>1, <2>1, <2>2 DEF Unexpired, Refusable
  <2>3. CASE expired' = expired /\ (banned => banned')
    <3>1. ASSUME NEW q \in Queries, queries'[q].step \in {"delete", "refreshed"}
          PROVE  queries'[q].fresh > expired \/ queries'[q].overtaken
      <4>1. /\ queries[q].step \in {"delete", "refreshed"}
            /\ queries[q].overtaken => queries'[q].overtaken
        BY <1>1, <3>1 DEF GoesOn
      <4>2. queries'[q].fresh = queries[q].fresh
        BY <1>1, <3>1 DEF GoesOn, Brings
      <4> QED BY <4>1, <4>2 DEF KeepInv, Unexpired
    <3>2. ASSUME NEW q \in Queries, queries'[q].step = "verify"
          PROVE  \/ queries'[q].token = None \/ queries'[q].token > expired
                 \/ queries'[q].overtaken
      BY <1>1, <1>2, <3>2 DEF GoesOn, KeepInv, Unexpired, None
    <3>3. ASSUME NEW q \in Queries, queries'[q].step = "unauthorized"
          PROVE  \/ queries'[q].token = None
                 \/ owner[queries'[q].token] \notin sessions'
                 \/ banned' \/ queries'[q].overtaken
      <4>1. /\ queries[q].token \in 0 .. Len(owner)
            /\ queries'[q].token = queries[q].token
            /\ queries[q].overtaken => queries'[q].overtaken
            /\ queries[q].step \in {"verify", "unauthorized"}
        BY <1>1, <3>3 DEF GoesOn, KeepInv, Unexpired
      <4>2. \/ queries'[q].token = None
            \/ owner[queries[q].token] \notin sessions
            \/ banned \/ queries'[q].overtaken
        <5>1. CASE queries[q].step = "unauthorized"
          BY <4>1, <5>1 DEF KeepInv, Unexpired
        <5>2. CASE queries[q].step = "verify"
          <6>1. \/ queries[q].token = None \/ queries[q].token > expired
                \/ queries[q].overtaken
            BY <5>2 DEF KeepInv, Unexpired
          <6>2. \/ queries[q].token = None \/ queries[q].token <= expired
                \/ owner[queries[q].token] \notin sessions \/ banned
            BY <1>1, <3>3, <4>1, <5>2 DEF GoesOn
          <6>3. queries[q].token \in Nat
            BY <1>1, <4>1
          <6> QED BY <1>1, <4>1, <6>1, <6>2, <6>3
        <5> QED BY <4>1, <5>1, <5>2
      <4> QED BY <2>3, <4>1, <4>2 DEF Steady, None
    <3> QED BY <1>1, <2>1, <2>3, <3>1, <3>2, <3>3 DEF Unexpired
  <2> QED BY <2>2, <2>3 DEF Steady
<1>6. InTime'
  <2> SUFFICES ASSUME OneTab', ~missed', NEW q \in Queries, NEW k,
                      k = queries'[q].token
      PROVE /\ queries'[q].step = "token" =>
                  \/ Foreign(k)' \/ k = storage'.refresh
                  \/ storage'.access <= expired'
            /\ queries'[q].step = "refused" =>
                  \/ Foreign(k)' \/ Stale(k)' \/ queries'[q].overtaken
                  \/ owner[k] \notin sessions' \/ storage'.refresh <= lapsed'
                  \/ banned'
    BY <1>1 DEF InTime, Foreign, Stale
  <2>1. OneTab /\ ~missed
    BY DEF OneTab, Steady
  <2>2. CASE storage' # storage
    BY <2>2 DEF Steady, NoLogin, Foreign
  <2>3. CASE storage' = storage
    <3>1. Foreign(k)' <=> Foreign(k)
      BY <1>1, <2>3 DEF Foreign
    <3>2. storage.access \in Nat /\ storage.refresh \in Nat
          /\ expired <= expired' /\ lapsed <= lapsed'
      BY <1>1, <1>2 DEF Steady, TypeInv, TypeOK
    <3>3. /\ queries[q].step = "token" =>
                \/ Foreign(queries[q].token)
                \/ queries[q].token = storage.refresh
                \/ storage.access <= expired
          /\ queries[q].step = "refused" =>
                \/ Foreign(queries[q].token) \/ Stale(queries[q].token)
                \/ queries[q].overtaken
                \/ owner[queries[q].token] \notin sessions
                \/ storage.refresh <= lapsed \/ banned
      BY <2>1 DEF KeepInv, InTime
    <3>4. storage.access <= expired => storage.access <= expired'
      BY <1>1, <3>2
    <3>5. ASSUME queries'[q].step = "token"
          PROVE  \/ Foreign(k) \/ k = storage.refresh
                 \/ storage.access <= expired
      <4>1. /\ k = queries[q].token
            /\ \/ queries[q].step = "token"
               \/ storage.access = None \/ storage.access <= expired
        BY <1>1, <3>5 DEF GoesOn
      <4>2. storage.access = None => Foreign(k)
        BY <1>2 DEF Foreign
      <4> QED BY <3>3, <4>1, <4>2
    <3>6. ASSUME queries'[q].step = "refused"
          PROVE  \/ Foreign(k) \/ Stale(k)' \/ queries'[q].overtaken
                 \/ owner[k] \notin sessions' \/ storage.refresh <= lapsed'
                 \/ banned'
      <4>1. /\ k = queries[q].token
            /\ \/ /\ queries[q].step = "refused"
                  /\ queries[q].overtaken => queries'[q].overtaken
               \/ /\ queries[q].step = "token"
                  /\ k \notin alive \/ k <= lapsed
                        \/ owner[k] \notin sessions \/ banned
        BY <1>1, <3>6 DEF GoesOn
      <4>2. k \in 1 .. Len(owner)
        BY <1>1, <1>4, <3>6 DEF RefusedKnown
      <4>3. banned => banned' \/ queries'[q].overtaken
        BY <3>6 DEF Steady, Refusable
      <4>4. owner[k] \notin sessions => owner[k] \notin sessions'
        BY <4>2 DEF Steady
      <4>5. Stale(k) => Stale(k)'
        BY <2>3, <3>4 DEF Stale
      <4>6. storage.refresh <= lapsed => storage.refresh <= lapsed'
        BY <1>1, <3>2
      <4>7. CASE /\ queries[q].step = "refused"
                 /\ queries[q].overtaken => queries'[q].overtaken
        BY <3>3, <4>1, <4>3, <4>4, <4>5, <4>6, <4>7
      <4>8. CASE /\ queries[q].step = "token"
                 /\ k \notin alive \/ k <= lapsed
                       \/ owner[k] \notin sessions \/ banned
                 /\ ~Foreign(k) /\ k = storage.refresh
        <5>1. storage.refresh # None
          BY <4>8 DEF Foreign
        <5>2. Presents(queries[q]) /\ queries[q].heard /\ Holds(queries[q])
          BY <2>1, <4>8 DEF LoginInv, Renewed, Presents, RefreshSteps, Holds
        <5>3. ~\E p \in Queries : queries[p].step = "refreshed"
          BY <2>1, <4>8, <5>2, OneHolder DEF Holds, RefreshReplies
        <5>4. Works(k)
          BY <2>1, <4>8, <5>1, <5>3 DEF LoginInv, Renewed
        <5>5. k <= lapsed \/ owner[k] \notin sessions \/ banned
          BY <4>8, <5>4 DEF Works
        <5>6. k <= lapsed => storage.refresh <= lapsed'
          BY <4>6, <4>8
        <5> QED BY <4>3, <4>4, <5>5, <5>6
      <4>9. CASE queries[q].step = "token" /\ ~Foreign(k) /\ k # storage.refresh
        <5>1. storage.access <= expired
          BY <3>3, <4>1, <4>9
        <5>2. Stale(k)
          BY <4>9, <5>1 DEF Stale
        <5> QED BY <4>5, <5>2
      <4> QED BY <4>1, <4>7, <4>8, <4>9
    <3> QED BY <2>3, <3>1, <3>4, <3>5, <3>6
  <2> QED BY <2>2, <2>3
<1> QED BY <1>3, <1>4, <1>5, <1>6 DEF KeepInv

(* A record in a step nobody looks at may follow any other.                *)
Silent == {"idle", "delete", "refreshed", "rejected", "end", "count", "evict",
           "newSession", "answered"}

LEMMA QuietGoesOn ==
    ASSUME NEW r, NEW s, s.step \in Silent, ~Brings(s)
    PROVE  GoesOn(r, s)
BY DEF Silent, GoesOn, Brings, LoginAnswered

LEMMA SameGoesOn ==
    ASSUME NEW r
    PROVE  GoesOn(r, r)
BY DEF GoesOn

LEMMA SameButGoesOn ==
    ASSUME NEW r, NEW s, SameBut(r, s)
    PROVE  GoesOn(r, s)
BY DEF GoesOn, SameBut, Brings, LoginAnswered

LEMMA OneSteady ==
    ASSUME TypeInv, NEW q \in Queries, NEW r \in Query,
           queries' = [queries EXCEPT ![q] = r], GoesOn(queries[q], r),
           UNCHANGED <<tabOf, owner, time>>, missed => missed',
           storage' = storage \/ storage' = NoLogin,
           \A k \in 1 .. Len(owner) :
              owner[k] \in sessions' => owner[k] \in sessions
    PROVE  Steady
<1>1. queries'[q] = r /\ \A p \in Queries : p # q => queries'[p] = queries[p]
  BY DEF TypeInv, TypeOK
<1>2. \A p \in Queries : GoesOn(queries[p], queries'[p])
  BY <1>1, SameGoesOn
<1>3. /\ expired' = expired /\ lapsed' = lapsed /\ banned' = banned
      /\ expired <= expired /\ lapsed <= lapsed
  <2>1. expired \in 0 .. Len(owner) /\ lapsed \in 0 .. expired
    BY DEF TypeInv, TypeOK
  <2> QED BY <2>1 DEF time
<1> QED BY <1>1, <1>2, <1>3 DEF Steady

LEMMA StartQuerySteady ==
    ASSUME TypeInv, LoginInv, NEW q \in Queries, NEW kind \in Kinds,
           StartQuery(q, kind)
    PROVE  Steady
<1>1. UNCHANGED <<tabOf, storage, server, time, missed, faults>>
  BY DEF StartQuery
<1>2. CASE storage.refresh # None
  <2> DEFINE r == [Idle EXCEPT !.kind = kind, !.step = "queued",
                               !.token = storage.refresh]
  <2>1. /\ r \in Query /\ r.step = "queued" /\ r.token = storage.refresh
        /\ queries' = [queries EXCEPT ![q] = r]
    BY <1>2, IdleTyped DEF StartQuery, Become, TypeInv, TypeOK, Query, Steps
  <2> HIDE DEF r
  <2>2. GoesOn(queries[q], r)
    BY <2>1 DEF GoesOn, Brings, LoginAnswered
  <2> QED BY <1>1, <2>1, <2>2, OneSteady DEF server
<1>3. CASE ~(storage.refresh # None)
  <2> DEFINE r == Request(kind, storage.access)
  <2>1. /\ r \in Query /\ r.step \in {"count", "verify"}
        /\ queries' = [queries EXCEPT ![q] = r]
    BY <1>3, RequestTyped DEF StartQuery, Become, TypeInv, TypeOK
  <2>2. r.token = None
    BY <1>3, IdleTyped DEF Request, Query, LoginInv, Renewed
  <2> HIDE DEF r
  <2>3. GoesOn(queries[q], r)
    BY <2>1, <2>2 DEF GoesOn, Brings, LoginAnswered
  <2> QED BY <1>1, <2>1, <2>3, OneSteady DEF server
<1> QED BY <1>2, <1>3

LEMMA AcquireSteady ==
    ASSUME TypeInv, LoginInv, NEW q \in Queries, Acquire(q)
    PROVE  Steady
<1>1. /\ UNCHANGED <<tabOf, page, storage, server, time, missed, faults>>
      /\ queries[q] \in Query /\ queries[q].step = "queued"
  BY DEF Acquire, At, TypeInv, TypeOK
<1>2. PICK r \in Query :
         queries' = [queries EXCEPT ![q] = r] /\ GoesOn(queries[q], r)
  <2>1. CASE storage.access # None /\ storage.access > expired
    <3> DEFINE r == Request(queries[q].kind, storage.access)
    <3>1. r \in Query /\ r.step \in {"count", "verify"}
      BY <1>1, RequestTyped DEF TypeInv, TypeOK, Query
    <3>2. r.token = storage.refresh /\ r.token > expired
      BY <2>1, IdleTyped DEF Request, Query, LoginInv, Renewed
    <3>3. queries' = [queries EXCEPT ![q] = r]
      BY <2>1 DEF Acquire, Become
    <3> HIDE DEF r
    <3> QED BY <3>1, <3>2, <3>3 DEF GoesOn, Brings, LoginAnswered
  <2>2. CASE ~(storage.access # None /\ storage.access > expired)
    <3> DEFINE r == [queries[q] EXCEPT !.step = "token"]
    <3>1. r \in Query /\ r.step = "token" /\ r.token = queries[q].token
      BY <1>1 DEF Query, Steps, RefreshSteps
    <3>2. queries' = [queries EXCEPT ![q] = r]
      BY <2>2 DEF Acquire, Go
    <3>3. storage.access = None \/ storage.access <= expired
      <4>1. storage.access \in Int /\ expired \in Int
        BY BoundsAssumption DEF TypeInv, TypeOK, None, Tokens
      <4> QED BY <2>2, <4>1
    <3> HIDE DEF r
    <3> QED BY <1>1, <3>1, <3>2, <3>3 DEF GoesOn, Brings, LoginAnswered
  <2> QED BY <2>1, <2>2
<1> QED BY <1>1, <1>2, OneSteady DEF server

LEMMA TakeRefusedSteady ==
    ASSUME TypeInv, NEW q \in Queries, TakeRefused(q)
    PROVE  Steady
<1> DEFINE r == Request(queries[q].kind, None)
<1>1. /\ UNCHANGED <<tabOf, page, server, time, missed, faults>>
      /\ queries[q] \in Query
      /\ storage' = NoLogin
      /\ queries' = [queries EXCEPT ![q] = r]
  BY DEF TakeRefused, Become, TypeInv, TypeOK
<1>2. r \in Query /\ r.step \in {"count", "verify"}
  BY <1>1, RequestTyped DEF Query
<1>3. r.token = None
  BY <1>1, IdleTyped DEF Request, Query
<1> HIDE DEF r
<1>4. GoesOn(queries[q], r)
  BY <1>2, <1>3 DEF GoesOn, Brings, LoginAnswered
<1> QED BY <1>1, <1>2, <1>4, OneSteady DEF server

LEMMA TakeErrorSteady ==
    ASSUME TypeInv, NEW q \in Queries, TakeError(q)
    PROVE  Steady
<1>1. /\ UNCHANGED <<tabOf, server, time, missed, faults>>
      /\ storage' = storage \/ storage' = NoLogin
      /\ queries' = [queries EXCEPT ![q] = Idle]
  BY DEF TakeError, Become, At
<1>2. GoesOn(queries[q], Idle)
  BY IdleTyped, QuietGoesOn DEF Silent, Brings
<1> QED BY <1>1, <1>2, IdleTyped, OneSteady DEF server

LEMMA UnheardGoesOn ==
    ASSUME NEW r \in Query
    PROVE  GoesOn(r, Unheard(r)) /\ Unheard(r) \in Query
<1> DEFINE v == [r EXCEPT !.heard = FALSE]
<1>1. /\ v.step = r.step /\ v.token = r.token /\ v.fresh = r.fresh
      /\ v.kind = r.kind /\ v.sid = r.sid /\ v \in Query
      /\ v.overtaken = r.overtaken
  BY DEF Query
<1>2. GoesOn(r, Idle)
  BY IdleTyped, QuietGoesOn DEF Silent, Brings
<1> HIDE DEF v
<1>3. GoesOn(r, v)
  BY <1>1 DEF GoesOn, Brings, LoginAnswered
<1> QED BY <1>1, <1>2, <1>3, IdleTyped DEF Unheard, v

LEMMA LeaveTabSteady ==
    ASSUME TypeInv, NEW t \in Tabs, LeaveTab(t),
           UNCHANGED <<tabOf, server, time>>,
           storage' = storage \/ storage' = NoLogin
    PROVE  Steady
<1>1. \A p \in Queries :
         queries'[p] = queries[p] \/ queries'[p] = Unheard(queries[p])
  BY DEF LeaveTab
<1>2. ASSUME NEW p \in Queries
      PROVE  /\ GoesOn(queries[p], queries'[p])
             /\ queries'[p].step = "newToken" =>
                   /\ queries'[p].sid = queries[p].sid
                   /\ queries[p].step = "newToken"
  <2>1. queries[p] \in Query
    BY DEF TypeInv, TypeOK
  <2>2. GoesOn(queries[p], queries'[p])
    BY <1>1, <2>1, SameGoesOn, UnheardGoesOn
  <2>3. /\ [queries[p] EXCEPT !.heard = FALSE].step = queries[p].step
        /\ [queries[p] EXCEPT !.heard = FALSE].sid = queries[p].sid
    BY <2>1 DEF Query
  <2> QED BY <1>1, <2>2, <2>3, IdleTyped DEF Unheard
<1>3. /\ expired' = expired /\ lapsed' = lapsed /\ banned' = banned
      /\ expired <= expired /\ lapsed <= lapsed
  <2>1. expired \in 0 .. Len(owner) /\ lapsed \in 0 .. expired
    BY DEF TypeInv, TypeOK
  <2> QED BY <2>1 DEF time
<1> QED BY <1>2, <1>3 DEF Steady, LeaveTab, server

LEMMA TakeAnswerSteady ==
    ASSUME TypeInv, NEW q \in Queries, TakeAnswer(q), queries[q].kind # "login"
    PROVE  Steady
<1>1. /\ UNCHANGED <<tabOf, server, time, faults>>
      /\ queries[q].kind # "logout" => UNCHANGED missed
      /\ queries[q].kind \in {"get", "load", "logout"} /\ tabOf[q] \in Tabs
  BY DEF TakeAnswer, At, TypeInv, TypeOK, Query, Kinds
<1>2. CASE queries[q].kind \in {"get", "load"}
  <2>1. queries' = [queries EXCEPT ![q] = Idle] /\ UNCHANGED <<storage, missed>>
    BY <1>1, <1>2 DEF TakeAnswer, Become, browser
  <2>2. GoesOn(queries[q], Idle)
    BY IdleTyped, QuietGoesOn DEF Silent, Brings
  <2> QED BY <1>1, <2>1, <2>2, IdleTyped, OneSteady DEF server
<1>3. CASE queries[q].kind = "logout"
  BY <1>1, <1>3, LeaveTabSteady DEF TakeAnswer
<1> QED BY <1>1, <1>2, <1>3

LEMMA NetworkFailsSteady ==
    ASSUME TypeInv, NEW q \in Queries, NetworkFails(q)
    PROVE  Steady
<1>1. /\ UNCHANGED <<tabOf, server, time>>
      /\ missed => missed'
      /\ storage' = storage \/ storage' = NoLogin
      /\ queries[q] \in Query
  BY DEF NetworkFails, TypeInv, TypeOK
<1>2. PICK r \in {Idle, Unheard(queries[q])} :
         queries' = [queries EXCEPT ![q] = r]
  BY DEF NetworkFails, Become
<1>3. GoesOn(queries[q], r) /\ r \in Query
  <2>1. GoesOn(queries[q], Idle)
    BY IdleTyped, QuietGoesOn DEF Silent, Brings
  <2> QED BY <1>1, <1>2, <2>1, IdleTyped, UnheardGoesOn
<1> QED BY <1>1, <1>2, <1>3, OneSteady DEF server

LEMMA SameQueriesSteady ==
    ASSUME TypeInv,
           \/ \E t \in Tabs : FollowStorage(t)
           \/ UNCHANGED vars
           \/ \E s \in Sids : Revoke(s)
    PROVE  Steady
<1>1. UNCHANGED <<tabOf, storage, queries, owner, missed, expired, lapsed, banned>>
  BY DEF FollowStorage, browser, server, time, vars, Revoke, DeleteSession
<1>2. sessions' \subseteq sessions
  BY DEF FollowStorage, server, vars, Revoke, DeleteSession
<1>3. expired <= expired /\ lapsed <= lapsed
  <2>1. expired \in 0 .. Len(owner) /\ lapsed \in 0 .. expired
    BY DEF TypeInv, TypeOK
  <2> QED BY <2>1
<1>4. \A q \in Queries : GoesOn(queries[q], queries'[q])
  BY <1>1, SameGoesOn
<1> QED BY <1>1, <1>2, <1>3, <1>4 DEF Steady

LEMMA TimeSteady ==
    ASSUME TypeInv, TimePasses
    PROVE  Steady
<1>1. \A q \in Queries : GoesOn(queries[q], queries'[q])
  BY TimeMarks, SameButGoesOn
<1>2. \A q \in Queries : queries'[q].step = queries[q].step
                             /\ queries'[q].sid = queries[q].sid
  BY TimeMarks DEF SameBut
<1> QED BY <1>1, <1>2, TimeMarks, TimeIs DEF Steady

LEMMA ReadTokenSteady ==
    ASSUME TypeInv, NEW q \in Queries, ReadToken(q)
    PROVE  Steady
<1>0. PICK k : k = queries[q].token
  OBVIOUS
<1> DEFINE go == [queries[q] EXCEPT !.step = "insert", !.sid = owner[k]]
           no == [queries[q] EXCEPT !.step = "refused"]
<1>1. /\ UNCHANGED <<tabOf, storage, server, time, missed>>
      /\ queries[q] \in Query /\ queries[q].step = "token"
  BY DEF ReadToken, At, browser, TypeInv, TypeOK
<1>2. CASE Accepted(k)
  <2>1. queries' = [queries EXCEPT ![q] = go]
    BY <1>0, <1>2 DEF ReadToken, Become
  <2>2. go.step = "insert" /\ go.sid = owner[k] /\ go.token = k /\ go \in Query
    <3>1. owner[k] \in Sids
      <4>1. sessions \subseteq 1 .. opened /\ opened \in 0 .. MaxLogins
        BY DEF TypeInv, TypeOK
      <4>2. MaxLogins \in Nat
        BY BoundsAssumption
      <4>3. owner[k] \in 1 .. opened
        BY <1>2, <4>1 DEF Accepted
      <4> QED BY <4>1, <4>2, <4>3 DEF Sids
    <3> QED BY <1>0, <1>1, <3>1 DEF Query, Steps, RefreshSteps
  <2> HIDE DEF go
  <2>3. GoesOn(queries[q], go)
    BY <2>2 DEF GoesOn, Brings, LoginAnswered
  <2> QED BY <1>1, <2>1, <2>2, <2>3, OneSteady DEF server
<1>3. CASE ~Accepted(k) /\ queries[q].heard
  <2>1. queries' = [queries EXCEPT ![q] = no]
    BY <1>0, <1>3 DEF ReadToken, Reply, Become
  <2>2. no.step = "refused" /\ no.token = k /\ no \in Query
    BY <1>0, <1>1 DEF Query, Steps, RefreshReplies
  <2> HIDE DEF no
  <2>4. k \notin alive \/ k <= lapsed \/ owner[k] \notin sessions \/ banned
    <3>1. k \in Int /\ lapsed \in Int
      BY <1>0, <1>1, BoundsAssumption
         DEF TypeInv, TypeOK, Query, None, Tokens
    <3> QED BY <1>3, <3>1 DEF Accepted
  <2>3. GoesOn(queries[q], no)
    BY <1>0, <1>1, <2>2, <2>4 DEF GoesOn, Brings, LoginAnswered
  <2> QED BY <1>1, <2>1, <2>2, <2>3, OneSteady DEF server
<1>4. CASE ~Accepted(k) /\ ~queries[q].heard
  <2>1. queries' = [queries EXCEPT ![q] = Idle]
    BY <1>0, <1>4 DEF ReadToken, Reply, Become
  <2>2. GoesOn(queries[q], Idle)
    BY IdleTyped, QuietGoesOn DEF Silent, Brings
  <2> QED BY <1>1, <2>1, <2>2, IdleTyped, OneSteady DEF server
<1> QED BY <1>2, <1>3, <1>4

LEMMA DeleteTokenSteady ==
    ASSUME TypeInv, NEW q \in Queries, DeleteToken(q)
    PROVE  Steady
<1> DEFINE v == [queries[q] EXCEPT !.step = "refreshed", !.token = None]
           r == IF queries[q].heard THEN v ELSE Idle
<1>1. /\ UNCHANGED <<tabOf, storage, sessions, opened, owner, time, missed>>
      /\ queries[q] \in Query /\ queries[q].step = "delete"
      /\ queries' = [queries EXCEPT ![q] = r]
  BY DEF DeleteToken, At, Reply, Become, browser, TypeInv, TypeOK
<1>2. v \in Query /\ v.step = "refreshed" /\ v.fresh = queries[q].fresh
      /\ v.overtaken = queries[q].overtaken
  BY <1>1 DEF Query, Steps, RefreshReplies, None
<1> HIDE DEF v
<1>3. GoesOn(queries[q], v)
  BY <1>1, <1>2 DEF GoesOn, Brings, LoginAnswered
<1>4. GoesOn(queries[q], Idle)
  BY IdleTyped, QuietGoesOn DEF Silent, Brings
<1> QED BY <1>1, <1>2, <1>3, <1>4, IdleTyped, OneSteady

LEMMA VerifySteady ==
    ASSUME TypeInv, LoginInv, NEW q \in Queries, Verify(q)
    PROVE  Steady
<1>0. PICK k : k = queries[q].token
  OBVIOUS
<1> DEFINE valid == k # None /\ k > expired /\ owner[k] \in sessions /\ ~banned
           no == [queries[q] EXCEPT !.step = "unauthorized"]
           yes == [queries[q] EXCEPT !.step = "answered"]
           end == [queries[q] EXCEPT !.step = "end", !.sid = owner[k]]
<1>1. /\ UNCHANGED <<tabOf, storage, server, time, missed>>
      /\ queries[q] \in Query /\ queries[q].step = "verify"
      /\ queries[q].kind # "login"
  BY DEF Verify, At, browser, TypeInv, TypeOK, LoginInv, NoLoginChecked, Checked
<1>2. k \in Int /\ expired \in Int
  BY <1>0, <1>1, BoundsAssumption DEF TypeInv, TypeOK, Query, None, Tokens
<1>3. PICK r \in Query :
         queries' = [queries EXCEPT ![q] = r] /\ GoesOn(queries[q], r)
  <2>1. CASE ~queries[q].heard /\ queries' = [queries EXCEPT ![q] = Idle]
    <3>1. GoesOn(queries[q], Idle)
      BY IdleTyped, QuietGoesOn DEF Silent, Brings
    <3> QED BY <2>1, <3>1, IdleTyped
  <2>2. CASE ~valid /\ queries' = [queries EXCEPT ![q] = no]
    <3>1. no \in Query /\ no.step = "unauthorized" /\ no.token = k
          /\ no.overtaken = queries[q].overtaken
      BY <1>0, <1>1 DEF Query, Steps, Replies
    <3>2. \/ no.token = None \/ no.token <= expired
          \/ owner[no.token] \notin sessions \/ banned
      BY <1>2, <2>2, <3>1
    <3> HIDE DEF no
    <3>3. GoesOn(queries[q], no)
      BY <1>0, <1>1, <3>1, <3>2 DEF GoesOn, Brings, LoginAnswered
    <3> QED BY <2>2, <3>1, <3>3
  <2>3. CASE valid /\ queries' = [queries EXCEPT ![q] = yes]
    <3>1. yes \in Query /\ yes.step = "answered" /\ yes.kind = queries[q].kind
      BY <1>1 DEF Query, Steps, Replies
    <3> HIDE DEF yes
    <3>2. GoesOn(queries[q], yes)
      BY <1>1, <3>1 DEF GoesOn, Brings, LoginAnswered
    <3> QED BY <2>3, <3>1, <3>2
  <2>4. CASE valid /\ queries' = [queries EXCEPT ![q] = end]
    <3>1. owner[k] \in Sids \cup {None}
      <4>1. sessions \subseteq 1 .. opened /\ opened \in 0 .. MaxLogins
        BY DEF TypeInv, TypeOK
      <4>2. MaxLogins \in Nat
        BY BoundsAssumption
      <4>3. owner[k] \in 1 .. opened
        BY <2>4, <4>1
      <4> QED BY <4>1, <4>2, <4>3 DEF Sids
    <3>2. end \in Query /\ end.step = "end"
      BY <1>1, <3>1 DEF Query, Steps, RequestSteps
    <3> HIDE DEF end
    <3>3. GoesOn(queries[q], end)
      BY <3>2 DEF GoesOn, Brings, LoginAnswered
    <3> QED BY <2>4, <3>2, <3>3
  <2> QED BY <1>0, <2>1, <2>2, <2>3, <2>4 DEF Verify, Reply, Become
<1> QED BY <1>1, <1>3, OneSteady DEF server

LEMMA EndSessionSteady ==
    ASSUME TypeInv, LoginInv, NEW q \in Queries, EndSession(q)
    PROVE  Steady
<1> DEFINE s == queries[q].sid
           v == [queries[q] EXCEPT !.step = IF s \in sessions THEN "answered"
                                            ELSE "rejected", !.sid = None]
           r == IF queries[q].heard THEN v ELSE Idle
<1>1. /\ UNCHANGED <<tabOf, storage, owner, time, missed>>
      /\ sessions' \subseteq sessions
      /\ queries[q] \in Query /\ queries[q].step = "end"
      /\ queries[q].kind # "login"
      /\ queries' = [queries EXCEPT ![q] = r]
  BY DEF EndSession, DeleteSession, At, Reply, Become, browser, TypeInv, TypeOK,
         LoginInv, NoLoginChecked, Checked
<1>2. v \in Query /\ v.step \in {"answered", "rejected"}
      /\ v.kind = queries[q].kind
  BY <1>1 DEF Query, Steps, Replies, None
<1> HIDE DEF v
<1>3. GoesOn(queries[q], v)
  BY <1>1, <1>2 DEF GoesOn, Brings, LoginAnswered
<1>4. GoesOn(queries[q], Idle)
  BY IdleTyped, QuietGoesOn DEF Silent, Brings
<1> QED BY <1>1, <1>2, <1>3, <1>4, IdleTyped, OneSteady

LEMMA LoginHandlersSteady ==
    ASSUME TypeInv, NEW q \in Queries,
           \/ CountSessions(q) \/ EvictOldest(q) \/ InsertSession(q)
           \/ RefuseLogin(q)
    PROVE  Steady
<1>1. /\ UNCHANGED <<tabOf, storage, owner, time, missed>>
      /\ queries[q] \in Query
  BY DEF CountSessions, EvictOldest, InsertSession, RefuseLogin, browser, server,
         TypeInv, TypeOK
<1>4. CASE RefuseLogin(q)
  <2>1. queries' = [queries EXCEPT ![q] = Idle] /\ sessions' = sessions
    BY <1>4 DEF RefuseLogin, Become, server
  <2>2. GoesOn(queries[q], Idle)
    BY IdleTyped, QuietGoesOn DEF Silent, Brings
  <2> QED BY <1>1, <2>1, <2>2, IdleTyped, OneSteady
<1>2. CASE CountSessions(q) \/ EvictOldest(q)
  <2>1. PICK step \in {"evict", "newSession"} :
           queries' = [queries EXCEPT ![q].step = step]
    BY <1>2 DEF CountSessions, EvictOldest, Go
  <2> DEFINE r == [queries[q] EXCEPT !.step = step]
  <2>2. r \in Query /\ r.step = step
    BY <1>1, <2>1 DEF Query, Steps, RequestSteps
  <2>3. queries' = [queries EXCEPT ![q] = r] /\ sessions' \subseteq sessions
    BY <1>2, <2>1 DEF CountSessions, EvictOldest, server
  <2> HIDE DEF r
  <2>4. GoesOn(queries[q], r)
    BY <2>2 DEF GoesOn, Brings, LoginAnswered
  <2> QED BY <1>1, <2>2, <2>3, <2>4, OneSteady
<1>3. CASE InsertSession(q)
  <2> DEFINE r == [queries[q] EXCEPT !.step = "newToken", !.sid = opened']
  <2>1. opened' = opened + 1 /\ opened' \in Sids /\ opened \in Nat
    BY <1>3, BoundsAssumption DEF InsertSession, TypeInv, TypeOK, Sids
  <2>2. r \in Query /\ r.step = "newToken" /\ r.sid = opened + 1
    BY <1>1, <2>1 DEF Query, Steps, RequestSteps
  <2>3. queries' = [queries EXCEPT ![q] = r]
        /\ sessions' = sessions \cup {opened + 1}
    BY <1>3, <2>1 DEF InsertSession, Become
  <2> HIDE DEF r
  <2>4. GoesOn(queries[q], r)
    BY <2>2 DEF GoesOn, Brings, LoginAnswered
  <2>5. \A k \in 1 .. Len(owner) : owner[k] \in 1 .. opened
    BY DEF TypeInv, SessionKnown
  <2>6. \A k \in 1 .. Len(owner) : owner[k] \in sessions' => owner[k] \in sessions
    BY <2>1, <2>3, <2>5
  <2> QED BY <1>1, <2>2, <2>3, <2>4, <2>6, OneSteady
<1> QED BY <1>2, <1>3, <1>4

(* A tab receives the token of a refresh or of a login.                    *)
LEMMA DeliveryInTime ==
    ASSUME TypeInv, LoginInv, KeepInv, NEW q \in Queries, Brings(queries[q]),
           NEW r \in Query, queries' = [queries EXCEPT ![q] = r],
           storage' = Login(queries[q].fresh),
           r.step \in {"queued", "verify", "count"},
           r.step # "count" => r.token = queries[q].fresh,
           r.step = "verify" => /\ queries[q].step = "refreshed"
                                /\ r.overtaken = queries[q].overtaken,
           UNCHANGED <<tabOf, server, time, missed>>,
           OneTab /\ ~missed => \A p \in Queries \ {q} :
              queries[p].step \in {"token", "refused"} =>
                 owner[queries[p].token] # owner[queries[q].fresh]
    PROVE  KeepInv'
<1>0. PICK k : k = queries[q].fresh
  OBVIOUS
<1>1. UNCHANGED <<owner, sessions, tabOf, expired, lapsed, banned, missed, opened>>
  BY DEF server, time
<1>2. queries'[q] = r /\ \A p \in Queries : p # q => queries'[p] = queries[p]
  BY DEF TypeInv, TypeOK
<1>3. /\ storage'.refresh = k /\ storage'.access = k
      /\ k \in 1 .. Len(owner) /\ Len(owner) \in Nat
  BY <1>0 DEF Login, LoginInv, Secret, TypeInv, TypeOK
<1>4. OwnSession'
  BY <1>1, <1>2 DEF KeepInv, OwnSession, LoginAnswered
<1>5. ~Brings(r)
  BY DEF Brings
<1>6. RefusedKnown'
  BY <1>1, <1>2, <1>5 DEF KeepInv, RefusedKnown
<1>7. Unexpired'
  <2>1. ASSUME NEW p \in Queries, queries'[p].step \in {"delete", "refreshed"}
        PROVE  queries'[p].fresh > expired \/ queries'[p].overtaken
    BY <1>2, <2>1 DEF KeepInv, Unexpired
  <2>2. ASSUME NEW p \in Queries, queries'[p].step = "verify"
        PROVE  /\ queries'[p].token \in 0 .. Len(owner)
               /\ \/ queries'[p].token = None \/ queries'[p].token > expired
                  \/ queries'[p].overtaken
    <3>1. CASE p = q
      <4>1. /\ queries'[p].token = k /\ queries'[p].overtaken = queries[q].overtaken
            /\ queries[q].step = "refreshed"
        BY <1>0, <1>2, <2>2, <3>1
      <4>2. k > expired \/ queries[q].overtaken
        BY <1>0, <4>1 DEF KeepInv, Unexpired
      <4> QED BY <1>3, <4>1, <4>2
    <3>2. CASE p # q
      BY <1>2, <2>2, <3>2 DEF KeepInv, Unexpired
    <3> QED BY <3>1, <3>2
  <2>3. ASSUME NEW p \in Queries, queries'[p].step = "unauthorized"
        PROVE  /\ queries'[p].token \in 0 .. Len(owner)
               /\ \/ queries'[p].token = None
                  \/ owner[queries'[p].token] \notin sessions
                  \/ banned \/ queries'[p].overtaken
    BY <1>2, <2>3 DEF KeepInv, Unexpired
  <2> QED BY <1>1, <2>1, <2>2, <2>3 DEF Unexpired
<1>8. InTime'
  <2> SUFFICES ASSUME OneTab, ~missed, NEW p \in Queries, NEW j,
                      j = queries'[p].token
      PROVE queries'[p].step \in {"token", "refused"} => Foreign(j)'
    BY <1>1 DEF InTime, OneTab, Foreign, Stale
  <2>1. queries'[p].step \in {"token", "refused"} => owner[j] # owner[k]
    BY <1>0, <1>2
  <2> QED BY <1>1, <1>3, <2>1 DEF Foreign
<1> QED BY <1>4, <1>6, <1>7, <1>8 DEF KeepInv

LEMMA TakeRefreshedInTime ==
    ASSUME TypeInv, LoginInv, KeepInv, NEW q \in Queries, TakeRefreshed(q)
    PROVE  KeepInv'
<1> DEFINE w == Request(queries[q].kind, queries[q].fresh)
           r == [w EXCEPT !.overtaken = queries[q].overtaken]
<1>1. /\ UNCHANGED <<tabOf, server, time, missed>>
      /\ queries[q] \in Query /\ queries[q].step = "refreshed"
      /\ storage' = Login(queries[q].fresh)
      /\ queries' = [queries EXCEPT ![q] = r]
  BY DEF TakeRefreshed, Become, At, TypeInv, TypeOK
<1>2. w \in Query /\ w.step \in {"count", "verify"} /\ w.token = queries[q].fresh
  BY <1>1, RequestTyped, IdleTyped DEF Request, Query
<1> HIDE DEF w
<1>3. /\ r \in Query /\ r.step \in {"count", "verify"}
      /\ r.token = queries[q].fresh /\ r.overtaken = queries[q].overtaken
  BY <1>1, <1>2 DEF Query
<1> HIDE DEF r
<1>4. Brings(queries[q]) /\ Holds(queries[q])
  BY <1>1 DEF Brings, Holds, RefreshReplies
<1>5. ASSUME OneTab, ~missed, NEW p \in Queries \ {q},
             queries[p].step \in {"token", "refused"}
      PROVE  FALSE
  <2>1. Holds(queries[p])
    BY <1>5 DEF Holds, RefreshReplies, RefreshSteps, LoginInv, Renewed, Presents
  <2> QED BY <1>4, <1>5, <2>1, OneHolder
<1> QED BY <1>1, <1>2, <1>3, <1>4, <1>5, DeliveryInTime

LEMMA TakeLoginInTime ==
    ASSUME TypeInv, LoginInv, KeepInv, NEW q \in Queries, TakeAnswer(q),
           queries[q].kind = "login"
    PROVE  KeepInv'
<1> DEFINE r == [Idle EXCEPT !.kind = "load", !.step = "queued",
                             !.token = queries[q].fresh]
<1>1. /\ UNCHANGED <<tabOf, server, time, missed, faults>>
      /\ queries[q] \in Query /\ queries[q].step = "answered"
      /\ storage' = Login(queries[q].fresh)
      /\ queries' = [queries EXCEPT ![q] = r]
  BY DEF TakeAnswer, Become, At, TypeInv, TypeOK
<1>2. r \in Query /\ r.step = "queued" /\ r.token = queries[q].fresh
  BY <1>1, IdleTyped DEF Query, Steps, Kinds
<1> HIDE DEF r
<1>3. Brings(queries[q]) /\ LoginAnswered(queries[q])
  BY <1>1 DEF Brings, LoginAnswered
<1>4. ASSUME NEW p \in Queries, queries[p].step \in {"token", "refused"}
      PROVE  owner[queries[p].token] # owner[queries[q].fresh]
  <2>1. CASE queries[p].step = "token"
    <3>1. Presents(queries[p])
      BY <2>1 DEF Presents, RefreshSteps
    <3>2. queries[p].token \in 1 .. Len(owner)
          /\ queries[p].token # queries[q].fresh
      BY <1>3, <3>1 DEF LoginInv, Issued, Secret
    <3> QED BY <1>3, <3>2 DEF KeepInv, OwnSession
  <2>2. CASE queries[p].step = "refused"
    <3>1. queries[p].token \in 1 .. Len(owner)
          /\ queries[p].token # queries[q].fresh
      BY <1>3, <2>2 DEF KeepInv, RefusedKnown
    <3> QED BY <1>3, <3>1 DEF KeepInv, OwnSession
  <2> QED BY <1>4, <2>1, <2>2
<1> QED BY <1>1, <1>2, <1>3, <1>4, DeliveryInTime

(* A token is issued.                                                      *)
LEMMA IssueTokenInTime ==
    ASSUME TypeInv, LoginInv, KeepInv, NEW q \in Queries,
           RenewToken(q) \/ FirstToken(q)
    PROVE  KeepInv'
<1>0. PICK k : k = Len(owner) + 1
  OBVIOUS
<1> DEFINE renew == [queries[q] EXCEPT !.step = "delete", !.fresh = k, !.sid = None]
           first == [queries[q] EXCEPT !.step = "answered", !.fresh = k, !.sid = None]
<1>1. /\ UNCHANGED <<tabOf, storage, sessions, opened, time, missed>>
      /\ queries[q] \in Query /\ queries[q].step \in {"insert", "newToken"}
      /\ k \in Tokens /\ owner \in Seq(Sids) /\ queries[q].sid \in Sids
      /\ owner' = Append(owner, queries[q].sid)
      /\ expired \in 0 .. Len(owner)
  <2>1. IssueToken(q) /\ queries[q].step \in {"insert", "newToken"}
    BY DEF RenewToken, FirstToken, At
  <2>2. queries[q].sid \in 1 .. opened /\ queries[q].sid \in Sids
    BY <2>1, BoundsAssumption DEF TypeInv, TypeOK, SessionKnown, At, Sids
  <2> QED BY <1>0, <2>1, <2>2, BoundsAssumption
             DEF IssueToken, browser, TypeInv, TypeOK, Tokens
<1>2. PICK r \in Query :
         /\ queries' = [queries EXCEPT ![q] = r]
         /\ \/ r.step = "delete" /\ queries[q].step = "insert"
            \/ r.step = "answered" /\ queries[q].step = "newToken"
            \/ r.step = "idle"
         /\ Brings(r) => r.fresh = k
  <2>1. CASE At(q, {"insert"})
    <3>1. renew \in Query /\ renew.step = "delete" /\ renew.fresh = k
      BY <1>1 DEF Query, Steps, RefreshSteps, None
    <3>2. queries' = [queries EXCEPT ![q] = renew]
      BY <1>0, <2>1 DEF RenewToken, FirstToken, IssueToken, Become
    <3> QED BY <2>1, <3>1, <3>2 DEF At
  <2>2. CASE ~At(q, {"insert"})
    <3>1. first \in Query /\ first.step = "answered" /\ first.fresh = k
      BY <1>1 DEF Query, Steps, Replies, None
    <3>2. \/ queries' = [queries EXCEPT ![q] = first]
          \/ queries' = [queries EXCEPT ![q] = Idle]
      BY <1>0, <2>2 DEF RenewToken, FirstToken, IssueToken, Reply, Become
    <3>3. ~Brings(Idle) /\ queries[q].step = "newToken"
      BY <1>1, <2>2, IdleTyped DEF Brings, At
    <3> QED BY <3>1, <3>2, <3>3, IdleTyped
  <2> QED BY <2>1, <2>2
<1>3. queries'[q] = r /\ \A p \in Queries : p # q => queries'[p] = queries[p]
  BY <1>2 DEF TypeInv, TypeOK
<1>4. /\ Len(owner) \in Nat /\ Len(owner') = k
      /\ owner'[k] = queries[q].sid
      /\ \A j \in 1 .. Len(owner) : owner'[j] = owner[j]
      /\ \A j \in 1 .. Len(owner') : j = k \/ j \in 1 .. Len(owner)
  BY <1>0, <1>1
<1>5. /\ \A p \in Queries : Brings(queries[p]) =>
            queries[p].fresh \in 1 .. Len(owner)
      /\ storage.refresh \in 0 .. Len(owner)
      /\ \A p \in Queries : Presents(queries[p]) =>
            queries[p].token \in 1 .. Len(owner)
  BY DEF LoginInv, Issued, Secret
<1>6. OwnSession'
  <2>1. ASSUME NEW p \in Queries, queries'[p].step = "newToken"
        PROVE  /\ \A j \in 1 .. Len(owner') : owner'[j] # queries'[p].sid
               /\ \A o \in Queries : queries'[o].step = "newToken" /\ o # p
                                        => queries'[o].sid # queries'[p].sid
    <3>1. p # q /\ queries'[p] = queries[p] /\ queries[p].step = "newToken"
      BY <1>2, <1>3, <2>1
    <3>2. \A j \in 1 .. Len(owner) : owner[j] # queries[p].sid
      BY <3>1 DEF KeepInv, OwnSession
    <3>3. queries[q].sid # queries[p].sid
      <4>1. CASE queries[q].step = "newToken"
        BY <3>1, <4>1 DEF KeepInv, OwnSession
      <4>2. CASE queries[q].step = "insert"
        <5>1. queries[q].token \in 1 .. Len(owner)
          BY <1>5, <4>2 DEF Presents, RefreshSteps
        <5> QED BY <3>2, <4>2, <5>1 DEF KeepInv, OwnSession
      <4> QED BY <1>1, <4>1, <4>2
    <3>4. \A o \in Queries : queries'[o].step = "newToken" =>
             queries[o].step = "newToken" /\ queries'[o].sid = queries[o].sid
      BY <1>2, <1>3
    <3>5. \A o \in Queries : queries'[o].step = "newToken" /\ o # p
                                => queries'[o].sid # queries'[p].sid
      BY <3>1, <3>4 DEF KeepInv, OwnSession
    <3> QED BY <1>4, <3>1, <3>2, <3>3, <3>5
  <2>2. ASSUME NEW p \in Queries, LoginAnswered(queries'[p]),
               NEW j \in 1 .. Len(owner'), owner'[j] = owner'[queries'[p].fresh]
        PROVE  j = queries'[p].fresh
    <3>1. CASE p = q
      <4>1. queries[q].step = "newToken" /\ queries'[p].fresh = k
        BY <1>2, <1>3, <2>2, <3>1 DEF LoginAnswered, Brings
      <4>2. \A i \in 1 .. Len(owner) : owner[i] # queries[q].sid
        BY <4>1 DEF KeepInv, OwnSession
      <4> QED BY <1>4, <2>2, <4>1, <4>2
    <3>2. CASE p # q
      <4>1. LoginAnswered(queries[p]) /\ queries'[p] = queries[p]
        BY <1>3, <2>2, <3>2
      <4>2. \A i \in 1 .. Len(owner) :
               owner[i] = owner[queries[p].fresh] => i = queries[p].fresh
        BY <4>1 DEF KeepInv, OwnSession
      <4>3. Brings(queries[p]) /\ queries[p].fresh \in 1 .. Len(owner)
        BY <1>5, <4>1 DEF Brings, LoginAnswered
      <4>4. CASE j \in 1 .. Len(owner)
        BY <1>4, <2>2, <4>1, <4>2, <4>3, <4>4
      <4>5. CASE j = k
        <5>1. owner[queries[p].fresh] = queries[q].sid
          BY <1>4, <2>2, <4>1, <4>3, <4>5
        <5>2. queries[q].step = "insert"
          BY <1>1, <4>3, <5>1 DEF KeepInv, OwnSession
        <5>3. Presents(queries[q]) /\ queries[q].token \in 1 .. Len(owner)
          BY <1>5, <5>2 DEF Presents, RefreshSteps
        <5>4. owner[queries[q].token] = owner[queries[p].fresh]
          BY <5>1, <5>2 DEF KeepInv, OwnSession
        <5>5. queries[q].token # queries[p].fresh
          BY <4>3, <5>3 DEF LoginInv, Secret
        <5> QED BY <4>2, <5>3, <5>4, <5>5
      <4> QED BY <1>4, <4>4, <4>5
    <3> QED BY <3>1, <3>2
  <2>3. ASSUME NEW p \in Queries, queries'[p].step = "insert"
        PROVE  queries'[p].sid = owner'[queries'[p].token]
    <3>1. queries'[p] = queries[p] /\ Presents(queries[p])
      BY <1>2, <1>3, <2>3 DEF Presents, RefreshSteps
    <3>2. queries[p].sid = owner[queries[p].token]
      BY <2>3, <3>1 DEF KeepInv, OwnSession
    <3> QED BY <1>4, <1>5, <3>1, <3>2
  <2> QED BY <2>1, <2>2, <2>3 DEF OwnSession
<1>7. RefusedKnown'
  <2> SUFFICES ASSUME NEW p \in Queries, queries'[p].step = "refused"
      PROVE /\ queries'[p].token \in 1 .. Len(owner')
            /\ \A o \in Queries : Brings(queries'[o]) =>
                  queries'[o].fresh # queries'[p].token
    BY DEF RefusedKnown
  <2>1. /\ queries'[p] = queries[p]
        /\ queries[p].token \in 1 .. Len(owner)
        /\ \A o \in Queries : Brings(queries[o]) =>
              queries[o].fresh # queries[p].token
    BY <1>2, <1>3 DEF KeepInv, RefusedKnown
  <2> QED BY <1>0, <1>2, <1>3, <1>4, <2>1
<1>10. UNCHANGED <<expired, lapsed, banned>>
  BY <1>1 DEF time
<1>8. Unexpired'
  <2>1. ASSUME NEW p \in Queries, queries'[p].step \in {"delete", "refreshed"}
        PROVE  queries'[p].fresh > expired \/ queries'[p].overtaken
    <3>1. CASE p = q
      <4>1. queries'[p].fresh = k
        BY <1>2, <1>3, <2>1, <3>1 DEF Brings
      <4> QED BY <1>0, <1>1, <1>4, <4>1
    <3>2. CASE p # q
      BY <1>3, <2>1, <3>2 DEF KeepInv, Unexpired
    <3> QED BY <3>1, <3>2
  <2>2. ASSUME NEW p \in Queries, queries'[p].step = "verify"
        PROVE  /\ queries'[p].token \in 0 .. Len(owner')
               /\ \/ queries'[p].token = None \/ queries'[p].token > expired
                  \/ queries'[p].overtaken
    BY <1>0, <1>2, <1>3, <1>4, <2>2 DEF KeepInv, Unexpired
  <2>3. ASSUME NEW p \in Queries, queries'[p].step = "unauthorized"
        PROVE  /\ queries'[p].token \in 0 .. Len(owner')
               /\ \/ queries'[p].token = None
                  \/ owner'[queries'[p].token] \notin sessions
                  \/ banned \/ queries'[p].overtaken
    <3>1. /\ queries'[p] = queries[p]
          /\ queries[p].token \in 0 .. Len(owner)
          /\ \/ queries[p].token = None
             \/ owner[queries[p].token] \notin sessions
             \/ banned \/ queries[p].overtaken
      BY <1>2, <1>3, <2>3 DEF KeepInv, Unexpired
    <3> QED BY <1>0, <1>4, <3>1 DEF None
  <2> QED BY <1>1, <1>10, <2>1, <2>2, <2>3 DEF Unexpired
<1>9. InTime'
  <2> SUFFICES ASSUME OneTab, ~missed, NEW p \in Queries, NEW j,
                      j = queries'[p].token
      PROVE /\ queries'[p].step = "token" =>
                  \/ Foreign(j)' \/ j = storage.refresh
                  \/ storage.access <= expired
            /\ queries'[p].step = "refused" =>
                  \/ Foreign(j)' \/ Stale(j) \/ queries'[p].overtaken
                  \/ owner'[j] \notin sessions \/ storage.refresh <= lapsed
                  \/ banned
    BY <1>1, <1>10 DEF InTime, OneTab, Foreign, Stale
  <2>1. CASE queries'[p].step \in {"token", "refused"}
    <3>1. queries'[p] = queries[p]
      BY <1>2, <1>3, <2>1
    <3>2. j \in 1 .. Len(owner)
      BY <1>5, <2>1, <3>1 DEF Presents, RefreshSteps, KeepInv, RefusedKnown
    <3>3. (Foreign(j)' <=> Foreign(j)) /\ owner'[j] = owner[j]
      BY <1>1, <1>4, <1>5, <3>2 DEF Foreign, None
    <3> QED BY <3>1, <3>3 DEF KeepInv, InTime
  <2> QED BY <2>1
<1> QED BY <1>6, <1>7, <1>8, <1>9 DEF KeepInv

LEMMA InitKeep == Init => KeepInv
<1> SUFFICES ASSUME Init PROVE KeepInv
  OBVIOUS
<1>1. \A q \in Queries : queries[q] = Idle
  BY DEF Init
<1>2. Idle.step = "idle" /\ ~Brings(Idle) /\ ~LoginAnswered(Idle)
  BY IdleTyped DEF Brings, LoginAnswered
<1> QED BY <1>1, <1>2 DEF KeepInv, OwnSession, RefusedKnown, Unexpired, InTime

LEMMA NextKeep == TypeInv /\ LoginInv /\ KeepInv /\ [Next]_vars => KeepInv'
<1> SUFFICES ASSUME TypeInv, LoginInv, KeepInv, [Next]_vars PROVE KeepInv'
  OBVIOUS
<1>0. TypeInv'
  BY NextTyped
<1>1. ASSUME NEW q \in Queries,
             StartGet(q) \/ StartLogout(q) \/ StartLogin(q) \/ StartApp(q)
      PROVE  Steady
  <2>1. CASE StartGet(q) \/ StartLogout(q) \/ StartLogin(q)
    <3>1. \E kind \in Kinds : StartQuery(q, kind)
      BY <2>1 DEF StartGet, StartLogout, StartLogin, Kinds
    <3> QED BY <3>1, StartQuerySteady
  <2>2. CASE StartApp(q)
    <3>1. CASE storage.access # None
      BY <2>2, <3>1, StartQuerySteady DEF StartApp, Kinds
    <3>2. CASE storage.access = None
      <4>1. UNCHANGED <<tabOf, storage, queries, owner, sessions, expired, lapsed,
                        banned, missed>>
        BY <2>2, <3>2 DEF StartApp, server, time
      <4>2. \A p \in Queries : GoesOn(queries[p], queries'[p])
        BY <4>1, SameGoesOn
      <4>3. expired <= expired /\ lapsed <= lapsed
        <5>1. expired \in 0 .. Len(owner) /\ lapsed \in 0 .. expired
          BY DEF TypeInv, TypeOK
        <5> QED BY <5>1
      <4> QED BY <4>1, <4>2, <4>3 DEF Steady
    <3> QED BY <3>1, <3>2
  <2> QED BY <1>1, <2>1, <2>2
<1>2. ASSUME NEW q \in Queries, Client(q) \/ NetworkFails(q)
      PROVE  Steady \/ KeepInv'
  BY <1>2, AcquireSteady, TakeRefreshedInTime, TakeRefusedSteady,
     TakeAnswerSteady, TakeLoginInTime, TakeErrorSteady, NetworkFailsSteady
     DEF Client
<1>3. ASSUME NEW q \in Queries, Handler(q)
      PROVE  Steady \/ KeepInv'
  BY <1>3, ReadTokenSteady, IssueTokenInTime, DeleteTokenSteady, VerifySteady,
     EndSessionSteady, LoginHandlersSteady DEF Handler
<1>4. ASSUME NEW t \in Tabs, Reload(t)
      PROVE  Steady
  BY <1>4, LeaveTabSteady DEF Reload
<1>5. ASSUME \/ \E t \in Tabs : FollowStorage(t)
             \/ TimePasses
             \/ UNCHANGED vars
             \/ \E s \in Sids : Revoke(s)
      PROVE  Steady
  BY <1>5, SameQueriesSteady, TimeSteady
<1>6. Steady \/ KeepInv'
  BY <1>1, <1>2, <1>3, <1>4, <1>5 DEF Next, TimePasses
<1>7. CASE Steady
  BY <1>0, <1>7, SteadyKeeps
<1> QED BY <1>6, <1>7

LEMMA AlwaysKeep == Spec => []KeepInv
BY AlwaysTyped, AlwaysLogin, InitKeep, NextKeep, PTL DEF Spec

(* A single step of a tab in whose login everything is in order.           *)
InOrder ==
    /\ OneTab /\ ~missed'
    /\ storage.refresh # None /\ owner[storage.refresh] \in sessions
    /\ storage.refresh > lapsed /\ ~banned
    /\ ~\E q \in Queries : MayLogOut(q) /\ queries'[q] # queries[q]

(* A refresh that was refused, or a request that was turned away, belongs  *)
(* to another login or was overtaken: the step is not its own.             *)
LEMMA OnlyOthersRefused ==
    ASSUME TypeInv, LoginInv, KeepInv, InOrder, ~missed, NEW q \in Queries,
           queries'[q] # queries[q]
    PROVE  queries[q].step \notin {"refused", "unauthorized"}
<1>0. PICK k : k = queries[q].token
  OBVIOUS
<1>1. ~MayLogOut(q)
  BY DEF InOrder
<1>2. ASSUME queries[q].step = "refused"
      PROVE  FALSE
  <2>1. \/ Foreign(k) \/ Stale(k) \/ queries[q].overtaken
        \/ owner[k] \notin sessions \/ storage.refresh <= lapsed \/ banned
    BY <1>0, <1>2 DEF KeepInv, InTime, InOrder
  <2>2. owner[k] = owner[storage.refresh] /\ ~Stale(k) /\ ~queries[q].overtaken
    BY <1>0, <1>1, <1>2 DEF MayLogOut, OfAnotherLogin, Overtaken, Stale, At
  <2>3. ~(storage.refresh <= lapsed)
    <3>1. /\ lapsed \in 0 .. expired /\ expired \in 0 .. Len(owner)
          /\ storage.refresh \in 0 .. Len(owner) /\ Len(owner) \in Nat
      BY DEF TypeInv, TypeOK, LoginInv, Issued
    <3> QED BY <3>1 DEF InOrder
  <2> QED BY <2>1, <2>2, <2>3 DEF Foreign, InOrder
<1>3. ASSUME queries[q].step = "unauthorized"
      PROVE  FALSE
  <2>1. k = None \/ owner[k] \notin sessions \/ banned \/ queries[q].overtaken
    BY <1>0, <1>3 DEF KeepInv, Unexpired
  <2>2. k # None /\ owner[k] = owner[storage.refresh] /\ ~queries[q].overtaken
    BY <1>0, <1>1, <1>3 DEF MayLogOut, OfAnotherLogin, Overtaken, At
  <2> QED BY <2>1, <2>2 DEF InOrder
<1> QED BY <1>2, <1>3

LEMMA StepKeepsLogin ==
    TypeInv /\ LoginInv /\ KeepInv /\ [Next]_vars
        => (InOrder => storage'.refresh # None)
<1> SUFFICES ASSUME TypeInv, LoginInv, KeepInv, [Next]_vars, InOrder
             PROVE  storage'.refresh # None
  OBVIOUS
<1>1. /\ storage.refresh # None /\ ~missed'
      /\ storage' = storage => storage'.refresh # None
  BY DEF InOrder
<1>2. ASSUME ~missed, NEW q \in Queries, queries'[q] # queries[q]
      PROVE  queries[q].step \notin {"refused", "unauthorized"}
  BY <1>2, OnlyOthersRefused
<1>3. ASSUME NEW q \in Queries, Brings(queries[q])
      PROVE  Login(queries[q].fresh).refresh # None
  BY <1>3 DEF LoginInv, Secret, Login, None, TypeInv, TypeOK
<1>4. ASSUME NEW q \in Queries,
             StartGet(q) \/ StartLogout(q) \/ StartLogin(q) \/ StartApp(q)
      PROVE  storage' = storage
  BY <1>4 DEF StartGet, StartLogout, StartLogin, StartApp, StartQuery
<1>5. ASSUME NEW q \in Queries, Client(q)
      PROVE  storage'.refresh # None
  <2>1. CASE Acquire(q)
    BY <1>1, <2>1 DEF Acquire
  <2>2. CASE TakeRefreshed(q)
    BY <1>3, <2>2 DEF TakeRefreshed, At, Brings
  <2>3. CASE TakeRefused(q)
    <3>1. ~missed /\ queries[q].step = "refused"
      BY <1>1, <2>3 DEF TakeRefused, At
    <3>2. \E kind \in Kinds : queries'[q] = Request(kind, None)
      BY <2>3 DEF TakeRefused, Become, TypeInv, TypeOK, Query
    <3>3. queries'[q].step # "refused"
      BY <3>2, RequestTyped DEF None
    <3> QED BY <1>2, <3>1, <3>3
  <2>4. CASE TakeAnswer(q)
    <3>1. queries[q].step = "answered" /\ queries[q].kind # "logout"
      <4>1. At(q, {"answered"}) /\ queries[q] \in Query /\ tabOf[q] \in Tabs
        BY <2>4 DEF TakeAnswer, TypeInv, TypeOK
      <4>2. ASSUME queries[q].kind = "logout"
            PROVE  FALSE
        <5>1. queries'[q] = Unheard(queries[q])
          BY <2>4, <4>2 DEF TakeAnswer, LeaveTab
        <5>2. queries'[q].step = "idle"
          BY <4>1, <5>1, IdleTyped DEF Unheard, At, Replies
        <5>3. queries'[q] # queries[q]
          BY <4>1, <5>2 DEF At
        <5> QED BY <4>1, <4>2, <5>3 DEF InOrder, MayLogOut
      <4> QED BY <4>1, <4>2 DEF At
    <3>2. CASE queries[q].kind = "login"
      BY <1>3, <2>4, <3>1, <3>2 DEF TakeAnswer, Brings
    <3>3. CASE queries[q].kind \in {"get", "load"}
      BY <1>1, <2>4, <3>3 DEF TakeAnswer, browser
    <3> QED BY <3>1, <3>2, <3>3 DEF TypeInv, TypeOK, Query, Kinds
  <2>5. CASE TakeError(q)
    <3>1. queries'[q] = Idle
      BY <2>5 DEF TakeError, Become, TypeInv, TypeOK
    <3>2. queries'[q] # queries[q]
      BY <2>5, <3>1, IdleTyped DEF TakeError, At
    <3> QED BY <1>1, <1>2, <2>5, <3>2 DEF TakeError, At
  <2> QED BY <1>5, <2>1, <2>2, <2>3, <2>4, <2>5 DEF Client
<1>6. ASSUME NEW q \in Queries, Handler(q)
      PROVE  storage' = storage
  BY <1>6 DEF Handler, ReadToken, RenewToken, FirstToken, IssueToken,
     DeleteToken, Verify, EndSession, CountSessions, EvictOldest,
     InsertSession, RefuseLogin, browser
<1>7. ASSUME NEW q \in Queries, NetworkFails(q)
      PROVE  storage' = storage
  <2>1. ~missed /\ ~Refreshing(q)
    BY <1>1, <1>7 DEF NetworkFails
  <2>2. queries[q].step # "refused"
    <3>1. ASSUME queries[q].step = "refused"
          PROVE  FALSE
      <4>1. queries'[q] = Unheard(queries[q])
        BY <1>7, <3>1 DEF NetworkFails, Become, At, TypeInv, TypeOK
      <4>2. queries'[q].step = "idle"
        BY <3>1, <4>1, IdleTyped DEF Unheard, RefreshReplies
      <4> QED BY <1>2, <2>1, <3>1, <4>2
    <3> QED BY <3>1
  <2>3. ~At(q, RefreshSteps \cup RefreshReplies)
    BY <2>1, <2>2 DEF Refreshing, At, RefreshReplies
  <2> QED BY <1>7, <2>3 DEF NetworkFails
<1>8. ASSUME \/ \E t \in Tabs : Reload(t) \/ FollowStorage(t)
             \/ TimePasses
             \/ UNCHANGED vars
             \/ \E s \in Sids : Revoke(s)
      PROVE  storage' = storage
  BY <1>8, TimeIs DEF Reload, FollowStorage, vars, Revoke, browser
<1> QED BY <1>1, <1>4, <1>5, <1>6, <1>7, <1>8 DEF Next, TimePasses

(* In a browser with one tab nobody is logged out whose session and        *)
(* refresh token last and who is not banned: the mutex of Ajax.ts keeps    *)
(* queries from presenting a token another one has used.  What is left are *)
(* the logout itself and a query of another login or overtaken by time.    *)
THEOREM NobodyIsLoggedOut == Spec => KeptWhileAlive
<1>1. TypeInv /\ LoginInv /\ KeepInv /\ [Next]_vars
         => [InOrder => storage'.refresh # None]_vars
  BY StepKeepsLogin
<1>2. Spec => [][InOrder => storage'.refresh # None]_vars
  BY <1>1, AlwaysTyped, AlwaysLogin, AlwaysKeep, PTL DEF Spec
<1> QED BY <1>2 DEF KeptWhileAlive, InOrder
=============================================================================
