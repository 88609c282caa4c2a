------------------------------ MODULE Sessions ------------------------------
(***************************************************************************)
(* The login of one user in one browser: the tabs of the browser, each     *)
(* with the queries of ui/src/util/Ajax.ts and the mutex around the        *)
(* refresh of the access token, the localStorage all tabs share, and the   *)
(* handlers of server/router/auth-router.go with the tables sessions and   *)
(* refresh_tokens.  Every SQL statement and every task of the browser is a *)
(* step; a reply may be lost, a tab reloaded, a session ended elsewhere,    *)
(* a token run out, the user banned for a time.                            *)
(*                                                                         *)
(* An access token is named after the refresh token it was issued with.    *)
(* Tokens run out in the order they were issued in, the access token after *)
(* fifteen minutes, the refresh token after 28 days; a session may last 90.*)
(* Abstracted: the three requests of loadUserAndSettings are one query of  *)
(* kind "load"; logins that are refused leave no trace and are left out.   *)
(***************************************************************************)
EXTENDS Integers, Sequences, FiniteSets

CONSTANTS
    Tabs,           \* tabs of the browser
    Queries,        \* queries in progress at the same time (bound)
    Layouts,        \* which tab each query is in: functions of Queries
    MaxLogins,      \* sessions ever opened (bound)
    MaxTokens,      \* refresh tokens ever issued (bound)
    MaxSessions,    \* MaxSessionsPerUser
    MaxFaults       \* lost requests and replies, bans, reloads and tokens that
                    \* run out amid queries, for each layout (bound)

ASSUME LayoutsAssumption == Layouts \subseteq [Queries -> Tabs]
ASSUME ActorsAreFinite == IsFiniteSet(Queries)
ASSUME BoundsAssumption ==
    /\ MaxSessions \in Nat \ {0}
    /\ {MaxLogins, MaxTokens} \subseteq Nat
    /\ MaxFaults \in [Layouts -> Nat]

(* The ids are uuids; here they are numbered in the order they are made.   *)
Sids == 1 .. MaxLogins
Tokens == 1 .. MaxTokens
None == 0

VARIABLES
    tabOf,      \* the layout of this behaviour
    page,       \* page[t]: what the tab shows
    storage,    \* localStorage: the access and the refresh token
    line,       \* line[t]: REFRESH_TOKEN_MUTEX, its head holds it
    queries,    \* queries[q]: a query and the handler that works on it
    sessions,   \* ids of the rows of sessions
    opened,     \* how many sessions there ever were
    owner,      \* owner[k]: the session the k-th token was issued for
    alive,      \* ids of the rows of refresh_tokens
    expired,    \* the access tokens 1 .. expired are over
    lapsed,     \* the refresh tokens 1 .. lapsed are over
    banned,     \* Disabled in the row of the user
    missed,     \* whether a pair of tokens was issued that nobody received
    faults

vars == <<tabOf, page, storage, line, queries, sessions, opened, owner, alive,
          expired, lapsed, banned, missed, faults>>

server == <<sessions, opened, owner, alive>>
time == <<expired, lapsed, banned>>
browser == <<page, storage, line>>

Pages == {"closed", "starting", "loading", "open", "login", "expired",
          "failed"}

Kinds == {"load", "get", "login", "logout"}

(* Where a query waits for its handler, in the handlers' order.            *)
RefreshSteps == {"token", "insert", "delete"}
RefreshReplies == {"refreshed", "refused"}
RequestSteps == {"verify", "end", "count", "evict", "newSession", "newToken"}
Replies == {"answered", "unauthorized", "rejected"}
Steps == {"idle", "queued"} \cup RefreshSteps \cup RefreshReplies
             \cup RequestSteps \cup Replies

Query == [kind : Kinds,
          step : Steps,
          token : Tokens \cup {None},   \* refresh or access token presented
          sid : Sids \cup {None},       \* session the handler works on
          fresh : Tokens \cup {None},   \* token it has issued
          heard : BOOLEAN,              \* whether the tab still waits for it
          overtaken : BOOLEAN]          \* a token ran out meanwhile, or a ban
                                        \* began or ended

Idle == [kind |-> "get", step |-> "idle", token |-> None, sid |-> None,
         fresh |-> None, heard |-> TRUE, overtaken |-> FALSE]

NoLogin == [access |-> None, refresh |-> None]
Login(k) == [access |-> k, refresh |-> k]

At(q, steps) == queries[q].step \in steps
Become(q, r) == queries' = [queries EXCEPT ![q] = r]
Go(q, step) == queries' = [queries EXCEPT ![q].step = step]
Show(t, what) == page' = [page EXCEPT ![t] = what]

Init ==
    /\ tabOf \in Layouts
    /\ page = [t \in Tabs |-> IF \E q \in Queries : tabOf[q] = t
                              THEN "starting" ELSE "closed"]
    /\ storage = NoLogin
    /\ sessions = {} /\ opened = 0 /\ alive = {} /\ owner = <<>>
    /\ line = [t \in Tabs |-> <<>>]
    /\ queries = [q \in Queries |-> Idle]
    /\ expired = 0 /\ lapsed = 0 /\ banned = FALSE
    /\ missed = FALSE
    /\ faults = 0

-----------------------------------------------------------------------------
(* The browser: Ajax.query.                                                *)

(* The request itself, with access token k.  Logging in needs none.        *)
Request(kind, k) ==
    [Idle EXCEPT !.kind = kind, !.token = k,
                 !.step = IF kind = "login" THEN "count" ELSE "verify"]

(* query up to its first await: with a refresh token the query joins the   *)
(* line for the mutex, remembering the token it has read.                  *)
StartQuery(q, kind) ==
    LET t == tabOf[q] IN
    /\ IF storage.refresh # None
       THEN /\ line' = [line EXCEPT ![t] = Append(@, q)]
            /\ Become(q, [Idle EXCEPT !.kind = kind, !.step = "queued",
                                      !.token = storage.refresh])
       ELSE /\ Become(q, Request(kind, storage.access))
            /\ UNCHANGED line
    /\ UNCHANGED <<tabOf, storage, server, time, missed, faults>>

(* A page asks the server for something.                                   *)
StartGet(q) ==
    /\ At(q, {"idle"}) /\ page[tabOf[q]] = "open"
    /\ StartQuery(q, "get")
    /\ UNCHANGED page

(* RuntimeConfig.logOut                                                    *)
StartLogout(q) ==
    /\ At(q, {"idle"}) /\ page[tabOf[q]] = "open"
    /\ StartQuery(q, "logout")
    /\ UNCHANGED page

(* onPasswordSubmit of the login page, and the other ways to log in; with  *)
(* a token in place the page is left instead (FollowStorage).              *)
StartLogin(q) ==
    /\ At(q, {"idle"}) /\ page[tabOf[q]] = "login" /\ storage.access = None
    /\ StartQuery(q, "login")
    /\ UNCHANGED page

(* verifyToken: a tab with an access token loads the user first, one       *)
(* without goes on to the login page.                                      *)
StartApp(q) ==
    LET t == tabOf[q] IN
    /\ page[t] = "starting" /\ At(q, {"idle"})
    /\ IF storage.access # None
       THEN Show(t, "loading") /\ StartQuery(q, "load")
       ELSE /\ Show(t, "login")
            /\ UNCHANGED <<tabOf, storage, line, queries, server, time,
                           missed, faults>>

(* The mutated form of Acquire: the token is renewed without another look, *)
(* though whoever had the mutex before may have renewed it.                *)
AcquireAtOnce(q) ==
    /\ At(q, {"queued"}) /\ Head(line[tabOf[q]]) = q
    /\ Go(q, "token") /\ UNCHANGED line
    /\ UNCHANGED <<tabOf, page, storage, server, time, missed, faults>>

(* refreshAccessToken once the mutex is acquired: only an access token     *)
(* that is missing or expired is renewed.  What follows in query runs      *)
(* before any other task of the tab: the request leaves in the same step.  *)
Acquire(q) ==
    LET t == tabOf[q] IN
    /\ At(q, {"queued"}) /\ Head(line[t]) = q
    /\ IF storage.access # None /\ storage.access > expired
       THEN /\ Become(q, Request(queries[q].kind, storage.access))
            /\ line' = [line EXCEPT ![t] = Tail(@)]
       ELSE Go(q, "token") /\ UNCHANGED line
    /\ UNCHANGED <<tabOf, page, storage, server, time, missed, faults>>

(* Mutated forms of the two that follow: the new refresh token is not      *)
(* stored; the mutex is not released.                                      *)
TakeAccessTokenOnly(q) ==
    /\ At(q, {"refreshed"})
    /\ storage' = [storage EXCEPT !.access = queries[q].fresh]
    /\ line' = [line EXCEPT ![tabOf[q]] = Tail(@)]
    /\ Become(q, Request(queries[q].kind, queries[q].fresh))
    /\ UNCHANGED <<tabOf, page, server, time, missed, faults>>

TakeRefusedLocked(q) ==
    /\ At(q, {"refused"})
    /\ storage' = NoLogin
    /\ Become(q, Request(queries[q].kind, None))
    /\ UNCHANGED <<tabOf, page, line, server, time, missed, faults>>

(* The refresh succeeded: both tokens are stored and the mutex released.   *)
TakeRefreshed(q) ==
    /\ At(q, {"refreshed"})
    /\ storage' = Login(queries[q].fresh)
    /\ line' = [line EXCEPT ![tabOf[q]] = Tail(@)]
    /\ Become(q, [Request(queries[q].kind, queries[q].fresh)
                     EXCEPT !.overtaken = queries[q].overtaken])
    /\ UNCHANGED <<tabOf, page, server, time, missed, faults>>

(* "token invalid": the query goes on without credentials.                 *)
TakeRefused(q) ==
    /\ At(q, {"refused"})
    /\ storage' = NoLogin
    /\ line' = [line EXCEPT ![tabOf[q]] = Tail(@)]
    /\ Become(q, Request(queries[q].kind, None))
    /\ UNCHANGED <<tabOf, page, server, time, missed, faults>>

(* A query nobody waits for any longer lives on if its handler still has   *)
(* something to write.                                                     *)
Unheard(r) ==
    IF \/ r.step \in {"idle", "queued"} \cup RefreshReplies \cup Replies
       \/ r.step = "verify" /\ r.kind # "logout"
    THEN Idle ELSE [r EXCEPT !.heard = FALSE]

Refreshing(q) == At(q, RefreshSteps \cup {"refreshed"})

(* The tab loads a new document: its queries are gone, their handlers not. *)
LeaveTab(t) ==
    /\ queries' = [q \in Queries |->
                      IF tabOf[q] = t THEN Unheard(queries[q]) ELSE queries[q]]
    /\ missed' = (missed \/ \E q \in Queries : tabOf[q] = t /\ Refreshing(q))
    /\ line' = [line EXCEPT ![t] = <<>>]
    /\ Show(t, "starting")

(* A reply with the data asked for.  logOut then leaves the application,   *)
(* login stores the new pair and loads the user before it shows a page.    *)
TakeAnswer(q) ==
    LET t == tabOf[q]
        kind == queries[q].kind
    IN
    /\ At(q, {"answered"})
    /\ CASE kind = "get" -> /\ Become(q, Idle)
                            /\ UNCHANGED browser
         [] kind = "load" -> /\ Become(q, Idle)
                             /\ Show(t, "open")
                             /\ UNCHANGED <<storage, line>>
         [] kind = "login" -> /\ storage' = Login(queries[q].fresh)
                              /\ Become(q, [Idle EXCEPT !.kind = "load",
                                                        !.step = "queued",
                                                        !.token = queries[q].fresh])
                              /\ line' = [line EXCEPT ![t] = Append(@, q)]
                              /\ UNCHANGED page
         [] kind = "logout" -> /\ storage' = NoLogin
                               /\ LeaveTab(t)
    /\ UNCHANGED <<tabOf, server, time, faults>>
    /\ kind # "logout" => UNCHANGED missed

(* handleGlobalError: a dialogue the user can only leave by loading the    *)
(* page again.  While the application starts only the spinner is rendered. *)
Block(t, dialogue) ==
    page' = IF page[t] = "loading" THEN page
            ELSE [page EXCEPT ![t] = dialogue]

(* A reply with an error, which the login page handles itself.  The promise *)
(* of any other query never settles.                                       *)
TakeError(q) ==
    LET t == tabOf[q] IN
    /\ At(q, {"unauthorized", "rejected"})
    /\ Become(q, Idle)
    /\ IF At(q, {"unauthorized"})
       THEN storage' = NoLogin /\ Block(t, "expired")
       ELSE Block(t, "failed") /\ UNCHANGED storage
    /\ UNCHANGED <<tabOf, line, server, time, missed, faults>>

-----------------------------------------------------------------------------
(* What else happens in the browser.                                       *)

(* The request or its reply is lost; in the second case the handler goes   *)
(* on.  A refresh that fails counts as 401, the request itself as 0.       *)
NetworkFails(q) ==
    LET t == tabOf[q]
        refreshing == At(q, RefreshSteps \cup RefreshReplies)
        login == queries[q].kind = "login"
    IN
    /\ faults < MaxFaults[tabOf] /\ queries[q].heard
    /\ ~At(q, {"idle", "queued"})
    /\ \/ At(q, {"token", "verify", "count"}) /\ Become(q, Idle)
       \/ Become(q, Unheard(queries[q]))
    /\ missed' = (missed \/ Refreshing(q))
    /\ line' = IF refreshing THEN [line EXCEPT ![t] = Tail(@)] ELSE line
    /\ IF refreshing /\ ~login THEN storage' = NoLogin ELSE UNCHANGED storage
    /\ CASE refreshing /\ login -> UNCHANGED page
         [] refreshing /\ ~login -> Block(t, "expired")
         [] ~refreshing -> Block(t, "failed")
    /\ faults' = faults + 1
    /\ UNCHANGED <<tabOf, server, time>>

(* What happens amid queries counts as a fault.                            *)
FaultUnlessIdle(busy) ==
    /\ faults' = IF \A q \in busy : At(q, {"idle"}) THEN faults ELSE faults + 1
    /\ faults' <= MaxFaults[tabOf]

(* The user loads the page again, from a dialogue or at any other time;    *)
(* amid queries it counts as a fault.                                      *)
Reload(t) ==
    /\ page[t] # "closed"
    /\ LeaveTab(t)
    /\ FaultUnlessIdle({q \in Queries : tabOf[q] = t})
    /\ UNCHANGED <<tabOf, storage, server, time>>

(* A page that is mounted without a token, or the login page with one.     *)
FollowStorage(t) ==
    /\ \/ page[t] = "open" /\ storage.access = None /\ Show(t, "login")
       \/ page[t] = "login" /\ storage.access # None /\ Show(t, "open")
    /\ UNCHANGED <<tabOf, storage, line, queries, server, time, missed,
                   faults>>

-----------------------------------------------------------------------------
(* Time.  An access token runs out, perhaps with queries under way; the    *)
(* refresh token issued with it does so long after.                        *)
Overtake ==
    queries' = [q \in Queries |->
                  [queries[q] EXCEPT !.overtaken =
                      @ \/ At(q, {"count", "verify", "delete", "refreshed",
                                  "refused", "unauthorized"})]]

AccessExpires ==
    /\ \E k \in expired + 1 .. Len(owner) : expired' = k
    /\ Overtake
    /\ FaultUnlessIdle(Queries)
    /\ UNCHANGED <<tabOf, browser, server, lapsed, banned, missed>>

RefreshExpires ==
    /\ \E k \in lapsed + 1 .. expired : lapsed' = k
    /\ FaultUnlessIdle(Queries)
    /\ UNCHANGED <<tabOf, browser, queries, server, expired, banned, missed>>

(* The timer: DeleteExpired of the refresh tokens.                         *)
DeleteExpired ==
    /\ alive' = alive \ (1 .. lapsed)
    /\ UNCHANGED <<tabOf, browser, queries, sessions, opened, owner, time,
                   missed, faults>>

(* checkBanUser after too many failed logins, or an admin disables the     *)
(* user; EnableUsersWithExpiredBan once the ban is over, or a handler that *)
(* writes back the whole row it had read before.                           *)
Ban ==
    /\ ~banned /\ faults < MaxFaults[tabOf]
    /\ banned' = TRUE /\ faults' = faults + 1
    /\ Overtake
    /\ UNCHANGED <<tabOf, browser, server, expired, lapsed, missed>>

LiftBan ==
    /\ banned
    /\ banned' = FALSE
    /\ Overtake
    /\ UNCHANGED <<tabOf, browser, server, expired, lapsed, missed, faults>>

-----------------------------------------------------------------------------
(* The server: refreshAccessToken.  The rows of the token, its user and    *)
(* its session are read together: a session that ends between the reads    *)
(* might as well end right after them.                                     *)
Reply(q, reply) ==
    Become(q, IF queries[q].heard THEN reply ELSE Idle)

Accepted(k) == k \in alive /\ k > lapsed /\ owner[k] \in sessions /\ ~banned

ReadToken(q) ==
    LET k == queries[q].token IN
    /\ At(q, {"token"})
    /\ IF Accepted(k)
       THEN Become(q, [queries[q] EXCEPT !.step = "insert", !.sid = owner[k]])
       ELSE Reply(q, [queries[q] EXCEPT !.step = "refused"])
    /\ UNCHANGED <<tabOf, browser, server, time, missed, faults>>

(* createRefreshToken, and the access token that goes with it.             *)
IssueToken(q) ==
    /\ Len(owner) < MaxTokens
    /\ LET k == Len(owner) + 1 IN
          /\ owner' = Append(owner, queries[q].sid)
          /\ alive' = alive \cup {k}
          /\ IF At(q, {"insert"})
             THEN Become(q, [queries[q] EXCEPT !.step = "delete", !.fresh = k,
                                               !.sid = None])
             ELSE Reply(q, [queries[q] EXCEPT !.step = "answered", !.fresh = k,
                                              !.sid = None])
    /\ UNCHANGED <<tabOf, browser, sessions, opened, time, missed, faults>>

RenewToken(q) == At(q, {"insert"}) /\ IssueToken(q)
FirstToken(q) == At(q, {"newToken"}) /\ IssueToken(q)

DeleteToken(q) ==
    /\ At(q, {"delete"})
    /\ alive' = alive \ {queries[q].token}
    /\ Reply(q, [queries[q] EXCEPT !.step = "refreshed", !.token = None])
    /\ UNCHANGED <<tabOf, browser, sessions, opened, owner, time, missed,
                   faults>>

(* VerifyAuthMiddleware in front of any other request.                     *)
Verify(q) ==
    LET k == queries[q].token
        valid == k # None /\ k > expired /\ owner[k] \in sessions /\ ~banned
    IN
    /\ At(q, {"verify"})
    /\ CASE ~valid -> Reply(q, [queries[q] EXCEPT !.step = "unauthorized"])
         [] valid /\ queries[q].kind # "logout" ->
                Reply(q, [queries[q] EXCEPT !.step = "answered"])
         [] valid /\ queries[q].kind = "logout" ->
                Become(q, [queries[q] EXCEPT !.step = "end", !.sid = owner[k]])
    /\ UNCHANGED <<tabOf, browser, server, time, missed, faults>>

DeleteSession(s) ==
    /\ sessions' = sessions \ {s}
    /\ alive' = IF s \in sessions THEN {k \in alive : owner[k] # s} ELSE alive
    /\ UNCHANGED <<opened, owner>>

(* logout: the session is read once more, then deleted with its tokens.    *)
EndSession(q) ==
    LET s == queries[q].sid IN
    /\ At(q, {"end"})
    /\ DeleteSession(s)
    /\ Reply(q, [queries[q] EXCEPT !.step = IF s \in sessions THEN "answered"
                                            ELSE "rejected", !.sid = None])
    /\ UNCHANGED <<tabOf, browser, time, missed, faults>>

(* The same on another device, or the end of a session's ninety days.      *)
Revoke(s) ==
    /\ s \in sessions
    /\ DeleteSession(s)
    /\ UNCHANGED <<tabOf, browser, queries, time, missed, faults>>

(* Mutated forms: room is made too late; an id is given twice.             *)
CountSessionsTooFew(q) ==
    /\ At(q, {"count"}) /\ (~banned \/ queries[q].overtaken)
    /\ Go(q, IF Cardinality(sessions) > MaxSessions THEN "evict"
             ELSE "newSession")
    /\ UNCHANGED <<tabOf, browser, server, time, missed, faults>>

InsertSessionAgain(q) ==
    /\ At(q, {"newSession"})
    /\ opened < MaxLogins
    /\ sessions' = sessions \cup {opened + 1}
    /\ Become(q, [queries[q] EXCEPT !.step = "newToken", !.sid = opened + 1])
    /\ UNCHANGED <<tabOf, browser, opened, owner, alive, time, missed,
                   faults>>

(* The handlers of a login read the row of the user before they create the *)
(* session: of a ban meanwhile they do not learn.  The page says why.      *)
RefuseLogin(q) ==
    /\ At(q, {"count"}) /\ (banned \/ queries[q].overtaken)
    /\ Become(q, Idle)
    /\ UNCHANGED <<tabOf, browser, server, time, missed, faults>>

(* CreateSession: count, make room, insert.  Which session is the oldest   *)
(* depends on writes of last_activity that nobody waits for.               *)
CountSessions(q) ==
    /\ At(q, {"count"}) /\ (~banned \/ queries[q].overtaken)
    /\ Go(q, IF Cardinality(sessions) >= MaxSessions THEN "evict"
             ELSE "newSession")
    /\ UNCHANGED <<tabOf, browser, server, time, missed, faults>>

EvictOldest(q) ==
    /\ At(q, {"evict"})
    /\ \/ \E s \in sessions : sessions' = sessions \ {s}
       \/ sessions = {} /\ UNCHANGED sessions
    /\ Go(q, "newSession")
    /\ UNCHANGED <<tabOf, browser, opened, owner, alive, time, missed,
                   faults>>

InsertSession(q) ==
    /\ At(q, {"newSession"})
    /\ opened < MaxLogins
    /\ opened' = opened + 1
    /\ sessions' = sessions \cup {opened'}
    /\ Become(q, [queries[q] EXCEPT !.step = "newToken", !.sid = opened'])
    /\ UNCHANGED <<tabOf, browser, owner, alive, time, missed, faults>>

-----------------------------------------------------------------------------
Client(q) == Acquire(q) \/ TakeRefreshed(q) \/ TakeRefused(q)
                \/ TakeAnswer(q) \/ TakeError(q)

Handler(q) == ReadToken(q) \/ RenewToken(q) \/ DeleteToken(q)
                 \/ Verify(q) \/ EndSession(q) \/ CountSessions(q)
                 \/ EvictOldest(q) \/ InsertSession(q) \/ FirstToken(q)
                 \/ RefuseLogin(q)

Next ==
    \/ \E q \in Queries :
          \/ StartGet(q) \/ StartLogout(q) \/ StartLogin(q) \/ StartApp(q)
          \/ Client(q) \/ Handler(q) \/ NetworkFails(q)
    \/ \E t \in Tabs : Reload(t) \/ FollowStorage(t)
    \/ AccessExpires \/ RefreshExpires \/ DeleteExpired
    \/ Ban \/ LiftBan
    \/ \E s \in Sids : Revoke(s)

Spec == Init /\ [][Next]_vars

(* Nothing keeps the tasks of a tab or a handler from running; nobody has  *)
(* to ask for anything but what the application starts with.               *)
Fairness == \A q \in Queries : WF_vars(StartApp(q) \/ Client(q) \/ Handler(q))

FairSpec == Spec /\ Fairness

-----------------------------------------------------------------------------
(* Every state is well formed: rows, tokens and replies are what their     *)
(* columns and the steps of Ajax.query say.                                *)
TypeOK ==
    /\ tabOf \in [Queries -> Tabs]
    /\ page \in [Tabs -> Pages]
    /\ storage \in [access : Tokens \cup {None}, refresh : Tokens \cup {None}]
    /\ line \in [Tabs -> Seq(Queries)]
    /\ queries \in [Queries -> Query]
    /\ opened \in 0 .. MaxLogins /\ sessions \subseteq 1 .. opened
    /\ owner \in Seq(Sids) /\ Len(owner) <= MaxTokens
    /\ alive \subseteq Tokens
    /\ expired \in 0 .. Len(owner) /\ lapsed \in 0 .. expired
    /\ banned \in BOOLEAN
    /\ missed \in BOOLEAN /\ faults \in Nat

(* CreateSession counts before it inserts: parallel logins may leave more  *)
(* than MaxSessionsPerUser sessions, but never more than one extra for     *)
(* each of the other logins, however often they are repeated.              *)
SessionBound ==
    Cardinality(sessions) < MaxSessions + Cardinality(Queries)

(* What localStorage holds is one login, written by whichever tab came     *)
(* last, and unless a reply went missing a refresh token that is not being *)
(* used just now is accepted until its 28 days are over, as long as its    *)
(* session lasts and the user is not banned.                               *)
StoredLoginWorks ==
    /\ storage.access = storage.refresh
    /\ LET k == storage.refresh IN
       /\ k # None /\ ~missed /\ owner[k] \in sessions
       /\ k > lapsed /\ ~banned
       /\ \A q \in Queries : ~At(q, RefreshSteps \cup RefreshReplies)
       => Accepted(k)

(* In a browser with one tab nobody is logged out who did not ask for it   *)
(* while session and refresh token last and there is no ban: the mutex     *)
(* keeps a query from presenting a token another one has used.  Except by  *)
(* the refusal of a query, or of its refresh, that belongs to another      *)
(* login, or that time has overtaken: a token ran out or a ban came or     *)
(* went on its way, or the token it waited for was over when its turn came.*)
OneTab == \A q, r \in Queries : tabOf[q] = tabOf[r]

OfAnotherLogin(q) ==
    queries[q].token = None \/ owner[queries[q].token] # owner[storage.refresh]

Overtaken(q) ==
    \/ queries[q].overtaken
    \/ At(q, {"refused"}) /\ queries[q].token # storage.refresh
          /\ storage.access <= expired

MayLogOut(q) ==
    \/ At(q, {"answered"}) /\ queries[q].kind = "logout"
    \/ /\ At(q, {"unauthorized", "refused"})
       /\ OfAnotherLogin(q) \/ Overtaken(q)

KeptWhileAlive ==
    [][/\ OneTab /\ ~missed'
       /\ storage.refresh # None /\ owner[storage.refresh] \in sessions
       /\ storage.refresh > lapsed /\ ~banned
       /\ ~\E q \in Queries : MayLogOut(q) /\ queries'[q] # queries[q]
       => storage'.refresh # None]_vars

(* No query waits forever: every path through refreshAccessToken releases  *)
(* the mutex, and those in line get their turn.  (A behaviour in which the *)
(* model runs out of ids for rows is cut short and promises nothing.)      *)
OutOfIds ==
    \E q \in Queries :
        \/ At(q, {"insert", "newToken"}) /\ Len(owner) = MaxTokens
        \/ At(q, {"newSession"}) /\ opened = MaxLogins

QueriesEnd ==
    \A q \in Queries : []<>(At(q, {"idle"}) \/ OutOfIds)
=============================================================================
