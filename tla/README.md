# Seatsurfing, modelled in TLA+

Seatsurfing is a Go server for booking desks and rooms, with a React client. These
modules model the parts of the server that change shared state, the bookings, the
recurring bookings and the logins, and the pages of the client that keep state of
their own. TLC checks them on small instances and TLAPS proves the central
properties for instances of every size.

Paths below are relative to `src/server/` or, for the client, to `src/ui/src/`.

## 1. The system

    browser, kiosk, plugins ──HTTP──► router/*  ──► repository/* ──SQL──► PostgreSQL
                                        │                │
                                        │                └─ settings, read through a cache
                                        └─ go router.on…  (CalDAV, mail, plugin hooks)
    app/app.go: a timer every minute, reminders every five, one watcher per plugin

* **Every HTTP request is a goroutine.** A handler of `router/` reads rows, checks,
  and writes. There is no lock around that.
* **PostgreSQL is used one statement at a time**: no transactions, no foreign
  keys, no row versions. `UPDATE`s write the whole row that was read earlier.
  So between any two statements of a handler any statement of another one may run,
  and a failure between two statements leaves the first one done.
* **Work after the response.** `go router.onBookingCreated(e)` and its relatives
  talk to the user's CalDAV server and then write the row again, from the copy
  they were given. Nothing of this survives a restart of the process.
* **The client** is one document per page. A page is a React component whose handlers
  run one at a time, but at every `await` other handlers run, and an answer finds
  the state as it is by then. What tabs share is `localStorage`, with the login.
* **Background work.** A one-minute timer runs retention, expiry and reminder
  jobs. Plugins are separate processes, watched over their gRPC connection.

### Components

| Component (code) | State | Operations | Behaviours that are hard | What makes it correct |
|---|---|---|---|---|
| Bookings (`router/booking-router.go`, `repository/booking-repository.go`) | `bookings` | create, update, approve/decline, delete, pre-check, queries | check then insert; full-row updates; goroutines with stale copies | one booking per space and instant; capacity and user limits; deleted stays deleted; approval is kept; approved bookings reach the calendar |
| Recurring bookings (`router/recurring-booking-router.go`, `repository/recurring-booking-repository.go`) | `recurring_bookings`, `bookings.recurring_id` | create, delete, pre-check; days of a series | several statements; deletes during a create; retention job | no booking names a series that is gone; deleted series has no bookings to come; the days are those asked for |
| CalDAV (`util/caldav-client.go`) | events on a foreign server, `caldav_id` | PUT, DELETE | order of two goroutines; failure | a recorded event exists |
| Sessions, login (`router/auth-router.go`, the repositories of sessions and refresh tokens; `util/Ajax.ts`, `components/RuntimeConfig.ts`, `pages/_app.tsx`) | `sessions`, `refresh_tokens`; access and refresh token in `localStorage`, a mutex per tab | login, refresh, logout, limit, expiry, ban | refresh by two queries or tabs, refresh against logout, count then insert, lost replies, tokens over amid a refresh | the stored login works until its 28 days, its session or the user's access end; nobody is logged out by own queries; the mutex is released; sessions within the limit |
| Search page (`pages/search.tsx`, `util/SearchUtil.ts`, `util/DateUtil.ts`) | selected area and time, URL, map, list of spaces, spinner | pick, step, toggle, filter, load | overlapping chains of calls; dates that rewrite each other | map and list are of the selection; the URL gives its times back, and the area that was chosen; the spinner ends |
| Booking dialogues (`pages/search.tsx`) | open dialogues, lock, options of a series, result | book, cancel, precheck, calendar | closed or changed while a call is under way | one call at a time; what is said is what was done |
| Area editor, floor plan (`pages/admin/locations/[id].tsx`, `components/FloorPlanDesigner.tsx`) | spaces and what of them is to be saved; elements of the plan, drag | edit, copy, delete, save, reload; draw, drag, resize, delete | save is a chain of calls any of which may be refused; keys amid drags | nothing unsaved is taken for saved; the page knows what is on the screen |
| Login page (`pages/login/index.tsx`, `components/TotpInput.tsx`) | flags for password, passkey, code, new password | submit, assert, type, fall back | each answer flips some flags | exactly one form to go on with |
| Preferences (`pages/preferences.tsx`) | forms of the tabs, CalDAV account and calendar | edit, save, connect, disconnect | one flag for all calls; items stored one by one | bookings go to a calendar of the account |
| User, booking and settings pages (`pages/admin/users/[id].tsx`, `pages/admin/bookings/[id].tsx`, `pages/admin/settings/index.tsx`) with `update`, `create` of `router/user-router.go`, domains of `router/organization-router.go` | a copy of the row or the settings, what to send of it | load, edit, save, reset, list spaces | the page decides what to send, the server what to keep; loads beside each other; debounced lists | what is said to be saved is stored as shown |
| Reminders, timer (`app/app.go`) | `reminder_sent_at_utc`, ticker, mutex | onTimerTick, sendBookingReminders | batch of 25, stamp after mail, update in between | everybody due is reminded, once per time booked |
| Plugin host (`app/app.go`, `api/plugin_grpc_client.go`) | instances, `Ready`, routes | connect, register, forward, notify | connection flaps during registration | requests go to registered plugins only; a plugin that is back is used again |
| Settings cache (`repository/settings-repository.go`, `repository/cache.go`) | `settings`, cache | Get, Set, Delete | cache filled after it was cleared | a reader never keeps a value older than the last write |
| Deletes of users, locations, spaces, organizations | their rows and those that name them | delete | several statements | no row names a parent that is gone |
| Mail, statistics, start-up, update check, generated gRPC code, pages that only list | – | – | – | not modelled, see section 8 |

`PROJECT.json` lists the same components with their files, and under `hazards`
each place in the code where something can go wrong that a test hardly reaches,
together with the property that covers it or the reason why none does.

## 2. The modules

    Intervals ◄── Ledger              what the API promises: one atomic table
        ▲           ▲ refined by
        └────── Bookings ◄── MCBookings         Series ◄── MCSeries   Cadence ◄── MCCadence
                    ▲                              ▲                     ▲
        Intervals_proofs, Bookings_proofs    Series_proofs          Cadence_proofs
                         ▲
                    Ledger_proofs                 extends MCBookings, where the refinement mapping stands

    Sessions ◄── MCSessions, Sessions_proofs

    WebPage ◄─┬─ SearchSelection, BookingDialog      search page
              ├─ AreaEditor, FloorPlan, UserEditor, BookingEditor, SettingsPage      admin pages
              ├─ LoginPage, Preferences
              └─ (all of them) ◄── Client ◄── MCClient
                                      ▲
                                 Pages_proofs ◄── Forms_proofs

**Intervals** holds the WHERE clauses of `GetConflicts` (closed ranges) and
`GetTimeRangeByUser` (half-open) and the test of the capacity sweep (strictly
inside), as operators, with the plain definition of "share an instant" next to them.

**Ledger** is the abstract specification: one table, every operation one step.
`Book` and `Move` need a free seat at every instant and room in the location,
approval is only gained, a removed id is spent. It is written from what the API
promises, without the code's clauses, and `map` therefore does not mention it.

**Bookings** is the core: everybody who writes a row of `bookings`.

| Definition | Code |
|---|---|
| `bookings`, `issued` | the table; the ids ever inserted (uuids) |
| `handlers[h]` | one request: operation, next statement, who sends it, the row it will write |
| `jobs[w]` | one goroutine and its copy of the row |
| `calendar` | external: events on CalDAV servers |
| `BeginCreate`, `BeginUpdate`, `BeginDecide`, `BeginDelete` | `create`, `update`, `approveBooking`, `delete`, up to the first check or the write |
| `CheckUser`, `CheckUpcoming`, `CheckLocation`, `CheckConflicts` | the counting queries, in the order the code sends them |
| `WriteCreate`, `WriteUpdate`, `WriteDecline`, `WriteDelete`, `WriteFails` | the INSERT, UPDATE or DELETE and the `go …` beside it, or its error |
| `JobPut`, `JobSave`, `JobRemove`, `JobFails` | `createCalDavEvent`/`updateCalDavEvent`: PUT, then the full-row UPDATE; `onBookingDeleted`; errors |
| `Restart` | the process ends: requests and goroutines are lost |

Details of the code that the model keeps because properties depend on them: the
limit per user counts for the sender, not for the person booked for; `update`
is not asked for the limit of upcoming bookings; `update` keeps `approved`, even into a
space that needs approval; `WriteUpdate` starts a goroutine whether or not the
booking is approved; `delete` starts its goroutine before the DELETE and
ignores whether that fails; a goroutine is only started with an event to remove when the copy knows
of one; `UPDATE … WHERE id` of a deleted row does nothing.

**Series** is the `recurring_bookings` table and the link to its bookings. Each
statement of `create` (row of the series, then one occurrence after the other),
of `Delete` (three statements), of a single booking's `Delete` (two) and of the
retention job (two) is an action; so are the moves and approvals of single occurrences and the
goroutines, which put copies into the calendar one by one or sweep it. A PUT may fail: the row is then not
written back (`PutFails`); so may the DELETE of an event. Time goes in days.

**Cadence** is the algorithm that finds the days of a series: `CreateBookings` and
`getNextBookingTime`, loop for loop, against `Wanted`, the set of days in
closed form.

**Sessions** joins both sides of a login: the browser of one user, tab by tab, and the
handlers it calls. Composing the two is the point: the mutex of `Ajax.ts` is per tab, the
storage is per browser, and the server deletes a refresh token when it has issued the next.

| Definition | Code |
|---|---|
| `storage` | access and refresh token in `localStorage` (`AjaxConfigBrowserPersister`) |
| `line[t]` | `REFRESH_TOKEN_MUTEX` of a tab; its head holds it |
| `queries[q]` | one `Ajax.query` and the handler that works for it: which await or statement is next |
| `page[t]` | what the tab shows, the dialogues of `handleGlobalError` included |
| `StartQuery`, `Acquire`, `TakeRefreshed`, `TakeRefused`, `TakeAnswer`, `TakeError` | `Ajax.query` and `refreshAccessToken`, from await to await; `RuntimeConfig.verifyToken`, `logOut` |
| `ReadToken`, `RenewToken`, `DeleteToken` | `refreshAccessToken` of the server: read, INSERT, DELETE |
| `CountSessions`, `EvictOldest`, `InsertSession`, `FirstToken` | `CreateSession` and the first token |
| `Verify`, `EndSession` | `VerifyAuthMiddleware`, `logout` |
| `RefuseLogin`, `Ban`, `LiftBan` | a login refused to a disabled user; `checkBanUser`, `EnableUsersWithExpiredBan` or an admin |
| `AccessExpires`, `RefreshExpires`, `DeleteExpired` | fifteen minutes, 28 days, the timer's removal of expired rows |
| `NetworkFails`, `Reload`, `Revoke` | a lost request or reply, F5, logout elsewhere or the session's 90 days |

A refresh token is accepted (`Accepted`) while its row and its session exist, its 28 days are not over and its user is
not disabled; `Verify` asks the same of an access token. What happens between the reads of one handler could
as well have happened right after them, so they are one step, except that a login reads the row of the user before
it counts: a ban meanwhile stops it or not (`overtaken`).

**WebPage** is what the pages have in common: the mounted component with its `state`, the
`calls` it waits for, the part of the `server` it works on, and the dialogue of
`handleGlobalError`, which `blocked` stands for. A handler of a page is an action up to its first
`await`; what follows an answer is another, and a call is carried out when it is answered.
An answer may be an error without an application code, after which the handlers of the page never run again.

| Module | State kept | What is modelled in detail |
|---|---|---|
| **SearchSelection** | area, times, flags, URL, `spaces`, `map` | every control that moves the selection, and the chains of calls (`Chains`) they start, one answer at a time |
| **BookingDialog** | stack of dialogues, `confirming`, options, result | book, cancel (one or the series), precheck, calendar, buddies; each dialogue closed at any time |
| **AreaEditor** | spaces with the objects they refer to, rows to delete, attributes to set and delete | the chain of `onSubmit` with `saveAttributes` beside it; reload after the floor plan; a call that is refused, after which `onError` lets the page go on; attributes refused one by one, spaces failing one by one |
| **FloorPlan** | elements, selection, drag | snapping, constrained and turned walls, resize at the minimum, keys and designs that arrive during a drag |
| **LoginPage** | flags for the forms, code, challenge | `loginPassword` and the passkey handlers of the server decide; a failing server is a refusal for the page's `catch`; passkey, fallback to a code, new password |
| **Preferences** | the forms, account and calendar | `setAll` item by item; connect, list calendars, disconnect |
| **UserEditor** | role, way to sign in, password, boxes | what the page sends and what `create` and `update` keep of it; which fields are required, those of service accounts being disabled |
| **BookingEditor** | times, area, space, the list on offer | the shared timer that delays `setEnterDate` and `setLeaveDate`; ranges sent reversed by an unrestricted admin; the locked choice of the space |
| **SettingsPage** | limit, durations, domains, kiosk secret | separate loads that come in any order, one of which may undo another; unlimited, empty fields, hours shown as days; domains read again after each change |

**Client** is a visit to one of the pages: they share no state but the login, which is Sessions' subject,
so their union has the states of each and no product. A user in these modules either waits
(`waits`, `careful`: does nothing while a button is locked or a spinner turns, and leaves alone the few things
a page is known not to deal with, listed at its `Init`) or does not and then has fewer clicks; a
property that needs patience says so. What happens without it is in section 3.

`map` names, for each handler, the definition that stands for it, and for an action of a control the handler and
the condition under which `render` shows or enables it, not the rest of `render`. The handlers of the server that a page calls
are mapped to the action that answers the call.

Bookings and Series overlap on purpose. Bookings has the ranges, checks and limits of a
single booking; Series leaves those out and has the links. Composing
the two would multiply their states without a property that needs both.

## 3. What TLC checks

| Run | Shows |
|---|---|
| `bookings_race` | Two requests of any kind at once. At any instant a space is held by at most two bookings (`OverlapBound`), the capacity of the location (`CapacityBound`) and the limit of a user (`UserBound`) are passed by at most the other request, all of it counting even what is still to be written (`ClaimBound`, `ActiveClaimBound`). A removed booking stays removed (`GoneStaysGone`). |
| `bookings_serial` | One request at a time, by a user and by an unrestricted admin who may even send reversed ranges: `Bookings` implements `Ledger` (`KeepsThePromise`), nothing is booked twice, approval is kept. |
| `bookings_calendar` | The life of one booking with two goroutines and a fault: while nothing has failed, a row that names an event has one (`RecordedEventExists`), and an approved booking of a user with a calendar gets there unless it is deleted, given away or loses its approval, provided every call of the calendar returns (`ReachesCalendar`). |
| `series_races` | Creates, deletes of series, deletes and approvals of single bookings, two at a time, with two goroutines, the retention job and the passing of days: when all is quiet no series has lost all its bookings; deleted bookings stay deleted. |
| `series_serial` | One request at a time, one statement of which may fail: no booking names a missing series (`SeriesHasRow`). |
| `cadence_in_order` | Exactly the days asked for, in order, refused exactly when too long, and the loops end. |

| `sessions` | Two queries in one tab or in two. The stored pair is one login and its refresh token works until its 28 days are over, its session ends or the user is banned, unless a reply got lost (`StoredLoginWorks`). With one tab nobody is logged out by own queries while these three last (`KeptWhileAlive`; excepted are a logout that was asked for, and the refusal of a query of another login or of one that an expiry or a ban has overtaken). Every query ends, so the mutex is always released (`QueriesEnd`). Parallel logins pass the limit on sessions by at most one each (`SessionBound`). |
| `client` | **Search**: map and list are of the selection (`ShownAsSelected`), a single day stays one (`SingleDay`), the URL gives back times and flags, and the area unless a search selected it (`UrlRestores`), the spinner ends (`SpinnerEnds`). **Dialogues**: one booking or cancellation at a time and the buttons locked exactly then (`OneAtATime`), what is said is of what was done, the calendar excepted whose load failed (`SaysWhatHappens`). **Area**: whichever call was refused, what is not in the database is still to be sent, unless rows failed one by one (`NothingLost`). **Floor plan**: what is on the screen is what will be saved (`PageKnowsPlan`); a resize leaves the opposite corner of an element that is not turned (`OppositeCornerStays`). **Login**: exactly one form (`OneForm`). **Preferences, user, booking, settings**: saved means stored as shown (`PreferencesKept`, `UserAsShown`, `BookingAsShown`, `SettingsAsShown`); the domains shown are the server's unless the load of the settings undid them. |

### Where the code does not do what its documents say

Four runs expect a violation. Each is listed under `findings` with the line it contradicts.

| Run | What happens |
|---|---|
| `bookings_write_back` | Requests do not overlap: the goroutine of a create writes its copy back after the booking was moved, and moves it back onto a range meanwhile given to somebody else, in spite of the 409 of `specs/openapi.yaml`. |
| `bookings_minutes` | Capacity is sampled each minute from the start of the request, strictly inside other bookings; bookings that share a minute between two samples are never counted together. |
| `series_delete_during_create` | A series deleted while its occurrences are being inserted keeps the rest of them. |
| `cadence_as_clicked` | Weekdays in the order they were clicked (the client does not sort, nor does the server): days are skipped or lie before the start. |

Three more races follow from the same two causes, check-then-write and full-row write-back,
and can be seen by changing one constant. With a second handler in
`BookingsWriteBack.cfg` two creates both find the space free and both insert (this is why
`OverlapBound` speaks of two bookings, not of one). With `Purges = TRUE` in `SeriesSerial.cfg`
the retention job removes the row of a series that is still being created. With two workers there,
a goroutine writes `recurring_id` back into a booking detached from a deleted series.

The modules of the client need a user who waits, one tab, or messages that arrive, for some properties.
Each of these conditions came from a counterexample; no document promises the contrary, so they are
listed here and not as findings:

* *Sessions.* Two tabs that refresh with the same token: the second is told 404 and removes the login the first
  has just stored (`util/Ajax.ts:118`). A request lost during a refresh counts as 401 and
  removes the login. A refresh token lasts 28 days and a session 90 (`router/auth-router.go:1325`, `repository/session-repository.go:56`): who stays away
  for longer is logged out although the session lasts. A query that waited for the mutex while the token it remembers ran out
  is refused although the login is good. A ban ends logins that outlive it.
  A late 401, or the answer to a logout, of an old login removes a newer one. `verifyToken` never
  settles when its first request fails (`components/RuntimeConfig.ts:117`).
* *Search.* Answers that overtake each other leave the map or list of another area or time. Two overlapping filter searches
  can leave the spinner (`pages/search.tsx:1590`). A search that selects an area does not write it to the URL (`applySearch`, 1615), so that a reload
  restores the area of before. Taking back "all day" brings back the days of before (2197).
  With a working day from 0:00 to 23:59, "all day" changes no time, so the page goes on following the working day; a step back to today then moves
  the start to the next full hour while "all day" stays ticked, and a reload restores 0:00 (`util/SearchUtil.ts:84`, `RoundTheClock`).
  After 23 o'clock the next full hour is tomorrow while the end stays today.
* *Dialogues.* A precheck's answer is taken for options changed meanwhile; a dialogue closed while booking shows the success, and
  offers the calendar file, of another space; of two calendars being loaded the last answer wins.
  A calendar that fails to load keeps the bookings of the space shown before (1164). Enter in the options submits the form and books without a precheck of what was just typed (2431).
* *Floor plan.* An element is drawn turned about its centre (`components/FloorPlanDesigner.tsx:812`) but resized along the unturned axes (494): of a turned
  element the opposite corner moves on the screen.
* *Area.* The page does not look at the result of each row of the call with the spaces: all are taken for saved. A copy shares the attributes of its original (`pages/admin/locations/[id].tsx:1008`). `saveAttributes` is not
  awaited (575), so the reload after a floor plan may show old ones. Edits during a save are marked as saved (659).
  `setMapScale` computes from the positions last saved and undoes moves. Fields of the form do not make Back ask.
* *Login.* The password form is not locked while it is being sent, so two requests can lead to two forms.
* *User.* A change of the way to sign in without the box ticked is accepted by the page and ignored by the server. For a service account
  whose hidden choice is not "password" the generated password is shown but not stored (`pages/admin/users/[id].tsx:180`).
* *Booking.* One timer serves both ends: a change of one within a second of the other is lost (`pages/admin/bookings/[id].tsx:518`).
  The first list of spaces is for times shifted by the browser's offset (168). Two clicks on save make two bookings.
* *Settings.* `loadSettings` writes back all of the state it started from (`pages/admin/settings/index.tsx:284`), so that the domains, when they come first, vanish again. An emptied number is refused after the settings before it were stored. Saving the kiosk page in an overlapping order stores an older secret
  than the one copied. With daily basis on, hours stored before are rounded to days by the next save.
* *Preferences.* Editing the account while its calendars are being listed can store a calendar of another account.

`OverlapBound` and `CapacityBound` are the other side: what goes wrong is bounded by the actors at
work at the same time and does not accumulate.

## 4. Bounds and why they are enough

* **Ids** (1-4 booking ids, 1-2 series ids). Ids are never reused, so they also
  bound the number of creates in a behaviour. The bounds of `bookings_race` are broken by three
  bookings at one instant, so there are three ids; the refinement needs two, the calendar of one booking one.
* **Handlers** (1 or 2), **Workers** (0 to 2). Races are between two; the proofs
  cover every number. A run has no workers when its property is not about
  goroutines (nobody has configured a calendar), and one handler when it asks
  what happens although requests do not overlap.
* **MaxFaults** (0 or 1): one failed statement, PUT or restart at any place.
* **Slots**: in `bookings_race` one range without an instant strictly inside, which the capacity
  does not see, and one with: each of the three bounds can be approached without the other
  checks refusing first. Elsewhere two disjoint ranges and one around both; ranges that share a
  single minute; one inside another; one reversed.
* **Limits** of one or two, so that they are reached.
* **Series**: `Plans` of two days (`MaxRecurring` two) and one that is too long; `LastDay`
  <= 2 and `Retention` 0 so that bookings get old within the run. The code's retention is at
  least 30 days and its batch 100; neither changes the order of steps.
* **Cadence**: every start within a week, lengths up to 20 days, cycles 1-2 (3 for daily),
  all sets of up to three weekdays in order and all unordered pairs, limit 5. The step depends on
  the weekday only, so every step the loop can take with three weekdays occurs.
* **Sessions**: two queries, because the mutex and the races are between two; both layouts (one tab, two tabs); one session
  allowed and three logins, so that the limit is reached and passed; two tokens, so that one is renewed;
  with one tab one fault anywhere: a lost message, a ban, a reload or an expiry amid queries (those between queries are free); none with two tabs,
  where the tabs disturb each other enough (`OneFaultInOneTab`). `OutOfIds` marks behaviours cut short by these bounds.
* **Client**: four to seven clicks per page (two to four for a user who does not wait), enough for an edit, a save, a
  failure, another edit and another save; two areas, spaces, chains, domains, calendars; three slots per day, of which one is before,
  one in and one after the working hours. Three mouse points: a corner, one nearly level with it,
  one nearly above that, so that each way of snapping occurs. Every bound is named at its constant.
* **Symmetry** of ids, handlers, users and spaces in `bookings_race` only, whose properties are
  safety properties and whose instance treats them alike.
* Deadlock is not checked: clients may stop sending requests, ids run out, and the loops of Cadence end.

## 5. Fairness

Safety properties need none. `bookings_calendar` assumes weak fairness of `JobSave` and of
`WriteDelete`: the Go scheduler starves no goroutine, and a handler or a goroutine that has its answer
waits for nothing but its statements. The calls of the calendar, `JobPut` and `JobRemove`, are not fair:
`caldav-client.go:39` wraps `http.DefaultClient`, which has no timeout, and every call uses
`context.Background()`, so that a server that accepts and never answers keeps the goroutine for good.
`ReachesCalendar` names this as its condition (`CalendarReturns`: no goroutine stays with a call forever)
and excuses a fault, since a failed PUT is not retried and a restart loses the goroutine. Nobody is assumed
to send a request.
Cadence is sequential code: weak fairness of `Next`.

`sessions` assumes weak fairness of each query, client and handler together: the event loop runs what can
run, an HTTP request ends (or `NetworkFails`), and the application starts by itself. `client` assumes that
the calls of each chain of the search page are answered; nobody is assumed to click.

## 6. What is proved

Proofs are for all finite sets of handlers and workers, all sets of ids,
spaces and users, all limits and all integer ranges. The assumptions are those at the head of
the modules (types of the constants, finiteness of the actors); TLC evaluates
them in every run.

**`Intervals_proofs`.** `ConflictIsSharedInstant`: the four clauses of `GetConflicts`
select a booking exactly when it shares an instant with the request.
`UserOverlapIsProper`: the clauses of `GetTimeRangeByUser` are exactly proper overlap.
Both need ranges that do not end before they begin; `bookings_serial` says what happens
when an admin sends others.

**`Bookings_proofs`.**
* `TypeCorrect`: `Spec => []TypeOK`. `TypeOK` is inductive with its part `WellFormed`
  (who is not idle has an id and a row).
* `OverlapIsBounded`, `CapacityIsBounded`. The bounds themselves are not inductive: a step that
  inserts adds a booking, and nothing in the table says that the inserting request had
  seen all but its competitors. So `Claims(s, t)` counts, for a space and an instant, the
  rows of the table **and** the rows that may still be written: those of requests past
  their check and those of goroutines. `SeatBound` says that at every instant the
  claims are no more than the actors. The argument has two cases (`ClaimsStep`):
  either a step adds no claim, because what it writes was already claimed; or it is a check
  that passes, and then the table is free at that instant, so that all claims are those of
  actors, one each. `RoomBound` is the same with `GetConcurrent` and the capacity added.
  TLC checks the same invariants as `ClaimBound` and `ActiveClaimBound` on the
  instants of the run.
  `ClaimsAreBounded` and `ActiveClaimsAreBounded` state those two.
* `UserIsBounded`: the same argument for the limit per user, with two differences. The check counts for the
  sender, so the invariant holds where nobody may book for others (`Admins = {}`) and rests on `OwnRows`: whoever is past the
  check writes rows of the user it counted for. And the ranges are half-open, so `UserClaims` counts proper overlap.
* `AloneNothingIsBookedTwice`: with a single actor, `NoDoubleBooking`. It follows from
  `SeatBound`, and it is the reason why the run `bookings_write_back` needs a goroutine.
* `RemovedStaysRemoved`: `Spec => GoneStaysGone`. Needs `FreshIds`: a running create
  holds an id never inserted before and held by no other.

**`Cadence_proofs`.**
* `CadenceTyped` and `OnlyWeekdaysAskedFor`, for every list of weekdays: the loop stands on a
  weekday of the list (`Aligned`), so `slices.Index` finds it, and the distance to the next one is right
  modulo seven.
* `OccurrencesFollowOneAnother`: **if** every list is in the order of the week, then occurrences are
  strictly increasing, from the start to before the end. `cadence_as_clicked` shows that the
  condition is needed and that nothing in the code establishes it.

* `ExactlyTheDaysAskedFor` and `RefusedOnlyWhenTooLong`, under the same condition: the loop is correct and
  complete. Its invariant `DaysInv` says that the loop stands on a day of the cadence and has booked exactly the wanted days before it.
  The work is in `NextInCadence`: the next day is again in the cadence, and none lies between, also over the end of a week
  and over the weeks that `Cycle` skips.

**`Series_proofs`**, for any number of requests, goroutines, bookings and series.
* `TypeCorrect`. `TypeInv` adds to `TypeOK` what each step of a request has in hand.
* `DeletedIsGone`: an id is inserted once, so a row that is gone can only come back by a write of a stale
  copy, and the writes of the goroutines are UPDATEs.
* `SerialSeriesHaveRows`: for one request at a time, without goroutines and retention job, every booking of a series finds the row of
  its series, **whatever statement fails**. The order of the writes does it (`SeriesInv`): the series before its bookings,
  its bookings before the series.
* `LastBookingTakesSeriesWithIt`: for any number of requests and goroutines and the retention job, **if** no statement
  fails and no occurrence is moved, a series whose bookings are all gone is gone when all is quiet. The property says nothing of the moments
  in between; `EmptyIsWatched` does: while a series is empty, somebody is about to look whether it can go. For that the one who
  deletes its last booking must take it for one of this series, although a goroutine may have rewritten the row:
  `NamesInv` says that nobody believes anything else, unless the series itself is already being removed (`Leaving`).

**`Sessions_proofs`**, for any number of tabs, queries, logins, tokens and faults.
* `TypeCorrect`. `TypeInv` adds to `TypeOK` that who holds the mutex is the head of the line of its tab and who waits is
  in it (`Mutex`), without which `Tail` and `Head` have no value, and that a handler works on a session that was opened.
* `StoredLoginIsGood`: until its 28 days, its session or the user's access end, the stored refresh token is accepted. `StoredLoginWorks` is not inductive: when a refresh is answered, nothing in it says that the new token is
  alive. `LoginInv` adds: tokens in storage or presented were issued (`Issued`); a token on its way to a tab is known to nobody
  else (`Secret`) and arrives unused (`ArrivesUnused`); while a stored token is dead, a query that
  has renewed it is about to bring its successor (`Renewed`); a login never goes through `verify`
  (`NoLoginChecked`). The hard case is the DELETE of the old token: it kills the stored one exactly when this query is the one that brings the next.
* `SessionsAreBounded`. `RoomMade` counts the logins past their eviction with the sessions: together they are at most
  `MaxSessions - 1` plus the queries. A step into "newSession" either found room, and then everybody else in
  that state accounts for one query each, or has just removed a session.

* `NobodyIsLoggedOut`: `KeptWhileAlive`, with expiry of both tokens and bans at any moment.
  The property is about steps: one that empties the storage must not happen while session and refresh token live, the user is not banned and nothing went wrong. Its
  invariant `KeepInv` says that a login's token is alone in its session (`OwnSession`), that a token that was refused is not one on its way
  (`RefusedKnown`), that what is on its way has not expired or is known to be overtaken (`Unexpired`), and that within one tab a query presents the stored token, because it
  reads it after it got the mutex, unless the login is another one by now (`InTime`).
  The attempt corrected the property: an answer that refuses a token of *another* login had not been excepted.
  TLC finds `TypeInv`, `LoginInv` and `KeepInv` to hold in the 896218 states of the run `sessions`, too.

**`Ledger_proofs`**, for any bookings, spaces, users, limits and slots.
* `OneAtATimeKeepsThePromise`: with one request at a time and nobody who uses a calendar, `Bookings` implements `Ledger`, whatever statement
  fails and whenever the process restarts. Checks are stutters of the ledger; the write is its `Book`, `Move`, `Approve` or
  `Remove`. The ledger's guard speaks of the table at the write, the code's checks of the table at the check: `StillTrue` carries what was
  counted to the moment of the write, which it survives because nobody else is at work. `SameCount`, `TableWrite` and `TableDelete`
  relate the code's counts to those of the ledger.
* `OneAtATimeKeepsApproval`: `ApprovalIsKept` from the same invariant.
* `RecordedEventsExist`: for any number of requests and goroutines. `EventsAccounted`: an event that a row, a request or a goroutine
  has in its copy is in the calendar, unless its booking is gone or a delete is about to see to that; an event is taken away only then.

For the refinement the table with absent rows is written as an operator (`Table` in MCBookings), and `ForgetAssumption` there says
that the mark of an absent row is no entry of the ledger; TLC evaluates it.

**`Pages_proofs`** and **`Forms_proofs`**: the pages of the client, for any number of clicks, areas, spaces, elements, chains, accounts and
domains. `OnePage`: a visit is to one page, whose steps are the page's own. For each page there is one inductive
invariant, and one lemma for each action or group of actions. TLC finds all of these invariants to hold in the
755924 states of the run `client`, too.

* *Floor plan* (`ThePageKnowsThePlan`; `CornersStay`, for elements that are not turned), invariant `PlanInv`. A drag finds its element by its id, so ids must be unique and below
  the counter; what the refs hold must be where the drag began. `ResizedKeepsCorner` is the arithmetic: the opposite corner stays also where the
  least size stops the pointer. The model's list of walls was reformulated with `RemovedAt` in place of `SelectSeq`, which is recursive.
* *Dialogues* (`BookedOneAtATime`, `DialogSaysWhatHappens`). `Locked` holds of everybody: the flag is up exactly while a booking or a cancellation
  is under way, and the question before a cancellation is on top and open only when the flag is down. `InStep` is about a user who waits: one call at
  a time, and for each kind of call what is open meanwhile.
* *Search* (`OneDayAtATime`, `ReloadRestores`, `ListFollowsSelection`). `ReloadRestores` speaks of times and flags, and of the area unless a search selected it: the URL then has the one chosen before. `InOrder` ties the flags to the times: what is ticked as all day is all day; while the page
  follows the working day it ends with it; what is not several days is one. `OrderKept` shows it for a step that moves an end
  (`WithTimes`); `Restores` says that `InitialTimes` of the URL gives what is selected. The attempt found the case of a working day round the clock (section 3), where `InOrder` is not kept and
  `UrlRestores` is false; TLC confirms it with `WorkStart = 0` and `WorkEnd = 2`, and the property now names its condition `RoundTheClock`. For the list, `Followed` says of each chain at each of
  its calls which of area, times and list it has in hand.
* *Login* (`OneFormForThePatient`), invariant `LoginInv`: which of the forms can be open at the same time depends on what the account has, so
  `Factors` relates the flags of the page to the account on the server. `TotpVerdict` and `PasskeyVerdicts` had been a CASE
  whose guards overlap, of which TLA+ does not say which holds; they are now written in the order of the code.
* *Preferences* (`PreferencesStayKept`): the four items of a calendar are stored one by one, so that account and calendar do not belong together
  in between; `Kempt` says at which call this is so.
* *User, booking, settings* (`AccountShownAsItIs`, `BookingIsAsShown`, `SettingsAreAsShown`): each has an invariant that says of every call under way what of the form it carries
  (`WillFit`, `EditorSent`, `SettingsSent`), for a visitor who waits. `SavedFits` is the argument of the user editor:
  what the page decides to send makes the server store what is shown. `ShownStays` is the one of the settings: hours shown as days and sent back
  are shown as the same days; it needs that quotient and remainder are unique (`QuotientIs`, `RemainderIs`).
* *Area* (`NothingIsLost`), invariant `AreaInv`, for any number of spaces and attributes, and whichever calls are refused. `RowsKnown`: every row of the table is shown by exactly one
  space of the page or is noted to be deleted, and a space that is not marked is stored as it is shown; `AttrsKnown` says the like of the attributes.
  `AreaSent` says of the calls of a save what they carry: what is under way is what is still marked, and a call after which the page is loaded
  anew finds nothing unsaved. The hard step is the answer to the spaces (`SpacesAreSaved`): the rows created by it are given to the marked spaces without a row, by
  their order alone. `RankGrows` and `RankTaken` show that the ranks of these spaces are distinct and all taken, so that each space gets the row
  that was made of it, and `RowsLoaded` that loading makes one space of each row. For this proof the model's save was rewritten: what it sends is a function
  on the marked positions of the list in place of a `SelectSeq`, which is recursive.

The assumptions added for these proofs are types only: `Angles`, `Offset`, `Days` and `Chains` are integers or naturals, and 1 is a chain.

Only model-checked:
* liveness (`ReachesCalendar`, `Terminates`, `QueriesEnd`, `SpinnerEnds`), which is out of the prover's reach;
* `KeepsThePromise` with goroutines is false (`bookings_write_back`), and `UserBound` where admins book for others is not proved.

## 7. Order of the work and what is left

Intervals, Ledger, Bookings and their proofs; Series and its proofs; Cadence and its proofs; Sessions and its proofs; WebPage, then the
pages from the one with the most state to the one with the least; Client; Ledger_proofs, then Pages_proofs and Forms_proofs.

What would come next: `SeriesHasRow` with goroutines; an abstract store of forms that the five pages with a form refine; of modules, the settings cache as a register with a reader that
writes back, the reminder job against `Update`, and the deletes of users and locations after the pattern of Series.

## 8. What is not modelled

* **Range checks** (duration, advance, daily basis, allowed bookers): they touch no state. `Slots` are the ranges that pass.
* **All bookings are upcoming and in one location** in Bookings; days pass in Series.
* **Mail and plugin hooks** in the goroutines write nothing that the modelled parts read.
* **Presence, statistics, searches**: queries.
* **Pre-check of bookings**: runs the same checks and writes nothing.
* **Generated gRPC code, start-up migrations, update check**: I/O, generated, or run once alone.
* **Plugin host**: the plugins are outside the repository and what the watcher sees are the states of a gRPC connection.
* **Reminders, settings cache, other deletes**: see their hazards in `PROJECT.json` and section 7.
* **In Sessions**: OAuth redirects, recovery of a password, the counting of failed attempts that leads to a ban (`Ban` may come at any
  moment), the authentication of service accounts, which have no session. The end of a session's 90 days is `Revoke`.
* **In the client**: pages that list rows (bookings, buddies, groups, users), statistics, the kiosk, plugin pages, the sidebar, translations and
  layout; filters by attribute values; fields that influence no other; second factors and sessions in the
  security tab; registration of passkeys, whose cryptography is a library's.

## 9. Running

    tlc -config BookingsRace.cfg MCBookings.tla
    tlapm Bookings_proofs.tla

`PROJECT.json` names module and configuration of each run, the lines each definition
models (`map`), and for each property a mutated definition that breaks it (`mutants`; the
mutated forms stand in a section of their own in each module and are used nowhere else).
