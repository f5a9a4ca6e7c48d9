# A TLA+ model of the ChainVerse backend

ChainVerse is a course platform: a NestJS application on Node.js that keeps its
data in MongoDB through Mongoose. This directory specifies what the application
does to its data, checks the specifications with TLC on small instances, and
proves the central ones with TLAPS for every instance. Paths below are relative
to `src/src/`.

## 1. The system

### Execution model

A request runs in one Node process and gives control away at every `await`.
Synchronous code between two awaits is one step; other requests run between the
steps. MongoDB applies each call to one document atomically; no service opens a
transaction. Mongoose saves only the paths a handler changed, and tests the
version key only when an array is replaced. A rejected call becomes an exception
which `common/filters/http-exception.filter.ts` answers; nothing is undone. If
the process stops, the requests in flight are gone and the data stays.
Events go through an in-process emitter whose listeners run inside `emit`.

The modules model the services as the controllers and the tests call them. Three
facts about the application as a whole are left aside:

- `main.ts` installs a `ValidationPipe` with `whitelist` and
  `forbidNonWhitelisted`, while most DTOs carry no class-validator decorator: it
  would answer 400 to every property of such a body.
- `AppModule` cannot be loaded as it is: `VerificationModule` imports modules
  that are not in the repository, and the controller of google-auth names
  `Throttle` without importing it.
- `TutorModule` (`tutor/tutor.module.ts:15-19`) and `StudentAuthModule`
  (`student-auth/student-auth.module.ts:18-22`) register models of the same
  names, `RefreshToken` and `PasswordResetToken`, with different schemas (a
  student's token has `studentId`, `tokenFamily`, `isRevoked`, a tutor's
  `userId`, `family`, `revoked`) on one default connection. A Mongoose connection
  holds one model for a name, so in the assembled application one of the two
  services would work on the other's schema and collection. What becomes of its
  fields is the library's business; StudentSession and TutorSession model each
  service with the collections its own schemas describe.

### Inventory

| Component | State | Operations | Interacts with | Hard behaviour | What makes it correct |
|---|---|---|---|---|---|
| `student-enrollment` | enrolments (unique per student and course), `Course.totalEnrollments` | `enrollFree`, `checkoutCart`, three reads | course, cart, events | check-then-insert races, insertion without its increment, a loop over a stale snapshot, items failing one by one | counted and announced once each; the answer of a checkout is true and complete |
| `student-cart` | cart items (unique per student and course), `Course.totalCarts` | `add`, `remove`, `update`, `clearCart` (no route), reads | course; checkout deletes its items | increment before insertion, deletion before decrement | the counter covers the items |
| `student-saved-courses` | saved courses (unique), `Course.totalWishlists` | `add`, `remove`, reads | course, events | a decrement overtaking its increment | the counter is conserved |
| `events`, `points`, `notification` | points records, notices | listeners of the events; CRUD | emitters | promises nobody awaits, loss when the process stops | one reward per enrolment |
| `admin-course`, `tutor-course` | course documents, `Tutor.totalCourses` | create, update, submit, review, publish, unpublish, delete | enrolment and cart read the status | load-change-save on stale documents | only reviewed courses are offered; no edit overwritten unseen |
| `student-auth` | the account, refresh tokens in families, reset and verification links | register, verify, resend, login, refresh, logout, forgotten and reset password | mail, events | two exchanges of one token, counters lost by overlapping saves, a login beside a reset | a family has one live token, and an ended family stays ended |
| `tutor` | the same for tutors | the same, with an activation by the support | mail | the same, and a refresh that looks at the account after the token is revoked | the same, and only an active tutor gets a session |
| `course-ratings-feedback` | ratings (unique), `totalReviews`, `averageRating` | create, update, remove, each recomputes the statistics | enrolment, course | recomputation from a list read earlier | the statistics are those of the ratings |
| `course-certification-nft-achievements`, `stellar` | certificates (in memory), `certificate_txs`, the ledger | issue, poll, periodic synchronisation | Soroban RPC, Horizon, events | a transaction that succeeds after the poll has given up, overlapping passes | a confirmed record matches the ledger |
| `idempotency` | stored answers | look up, run, store | the decorated route | concurrent requests with one key, a save nobody awaits | a key runs its handler once |
| `faq-management`, cache | FAQ entries, cached lists and entries | cached reads, mutations with eviction | cache interceptor | a stale list cached after the eviction | the cache catches up |
| resources with create, list, fetch, update, remove (26 controllers) | an array of the process, or a collection | the five routes | guards, cache | arrays vanish with the process; ids of one kind on routes of the other | what was created is there and can be fetched |
| `organization-member`, `removal-request` | memberships (unique), requests with a verdict and notes | `addMember`, `removeMember`, `moderate`, `remove` | organization | check-then-insert, two moderators on one request | one membership each; no moderator undoes another |
| `course-analytics` | none | reports of a course, a tutor, the platform | course, enrolment | a report is many queries while enrolments go on | the figures of a report add up |
| `course-discovery` | none | search with pages, lists by a criterion | course | a page is a query of its own, ties in the order | the pages show each course once |
| `metrics` | counters and samples of durations per route | record, snapshot, text for Prometheus | every request | a bounded sample | the figures are those of the requests |
| `protocols` | DeFi positions, transactions, risk assessments | track, synchronise, claim, close, portfolio; assess, stress, monitor, alert | Aave adapter | whole-entity saves, assessments from separate readings | a closed position stays closed; figures and levels agree |
| `financial-aid`, `verification`, `google-auth`, reports, infrastructure | | | | | see section 6 |

`PROJECT.json` lists every component with its status and every hazard with its
line.

## 2. The modules

### EnrollmentLedger

The abstract promise of enrolment: for each student and course a stage
(`none`, `stored`, `counted`, `announced`) that only advances, and for each
course a tally raised exactly when a pair is counted. There are no requests,
carts or failures in it; a failure shows as a stage that never advances.

### StudentEnrollment

`student-enrollment.service.ts`. `pc[r]` is the awaited store call of request
`r`, and `student`, `course`, `itemId`, `checkout` are its locals.

| Code | Action |
|---|---|
| route, then `findById` (34) with its three refusals | `StartFree`, `FreeReadCourse` |
| `findOne` (50) | `FreeReadExisting` |
| `save` (65); a duplicate key ends the request | `FreeInsert` |
| `$inc`, `emit`, return (68-82) | `FreeCount` |
| `find` of the items (90), of the courses (98), refusal of a priced cart (102) | `StartCheckout`, `ReadCart`, `ReadCourses` |
| head of the loop (113-130) | `TakeItem` |
| `findOne` (133) | `ItemReadExisting` |
| `findByIdAndDelete` (128, 137) | `ItemDrop` |
| `save` (176), `$inc` (179), `findByIdAndDelete` with the event (186-197) | `ItemInsert`, `ItemCount`, `ItemUncart` |
| `catch` (198) | `ItemFails`, and the duplicate-key branch of `ItemInsert` |
| return (203) | `FinishCheckout` |
| a call rejected outside the loop; the process stopping | `RequestFails`, `Crash` |

A cart with one priced course is refused before the loop (line 103), so the
payment branch (141-164) cannot be reached and is not an action. An item's
course id is always a valid object id, because the cart route parses it. Other
services act on the catalogue and on the cart through `CourseStatusChanges`,
`CoursePriceChanges`, `CourseIsDeleted`, `ItemIsAdded`, `ItemIsRemoved`, at any
moment. History variables, `openSince` (for each request, the courses that were
open at some moment since it came in) and `uncounted`, are read by no guard.

A rejected call is taken as not applied. A driver may also report a failure of a
call that was applied; that case is not modelled.

### StudentCart

`student-cart.service.ts` composed with StudentEnrollment: the actions
`ItemIsAdded` and `ItemIsRemoved`, which StudentEnrollment allows at any time,
happen here only as steps of cart requests. `AddReadCourse`, `AddReadExisting`,
`AddCount`, `AddInsert` are the calls of `add`; `RemoveDelete` and `RemoveCount`
those of `remove`. `CartServiceFits` is the specification of StudentEnrollment:
the composition is one of the behaviours it allows.

### SavedCourses

`student-saved-courses.service.ts`, the two listeners of `STUDENT_ENROLLED`
(`events/listeners/`), and enrolment as EnrollmentLedger, which
StudentEnrollment was shown to implement. `EmitStudentEnrolled` starts both
insertions inside the emitter's step; `AwardPoints` and `CreateNotification`
complete them later. `ProcessStops` covers a crash and also the rejection of a
promise that a listener dropped, on which Node ends the process.

### CourseLifecycle

`admin-course.service.ts` for both controllers. A request receives (`Receive`),
loads and decides (`Load`: `Guard` and `DeltaOf` per operation), saves
(`Save`, `Insert`), and after a creation or deletion updates the tutor's
statistics (`Stats`). A delta is the set of changed paths; `SaveMatches` is
Mongoose's version test, made only for a delta that replaces the curriculum.
The data is reduced to what decides something: status, curriculum revision,
whether priced, who deleted the course, whether it has students. Two histories
are kept apart: `approval`, whether an administrator's approval of the course
stands, that is, was saved and not followed by a save that asks for a review or
rejects (`stale` where a request that had loaded the course before such a save
puts it on offer after it); and `vetted`, whether an administrator has approved
or written the curriculum as it is.

### CertificateIssuance

`course-certification-nft-achievements.service.ts` (`create` with its mint),
`stellar-sync.service.ts`, and the Stellar ledger as an external component.

| Code | Action |
|---|---|
| `push` (54), configuration test (128) | `Create` |
| `getAccount` (134), `prepareTransaction` (151), `sendTransaction` (154) | `GetAccount`, `PrepareTransaction`, `SendTransaction` |
| `getTransaction` and the loop (162-176) | `GetTransaction` |
| `certTxModel.create` (71) | `CreateRecord` |
| `emit` and return (86-95), reached on every path | `Finish`, part of the actions above |
| both `catch` blocks (62, 80) | `CallFails` |
| `find` (53), Horizon (64), `save` (72), `catch` (77) of `syncPending` | `StartPass`, `AskHorizon`, `SaveStatus`, `JobFails` |

The ledger applies a transaction whose sequence number is the account's next
(`LedgerApplies`), at any time or never (`LedgerDrops`); Horizon learns of it
later (`HorizonIngests`). `OtherTransaction` uses up a sequence number: the
reward listener signs with the same key. A submission that is reported failed
may have reached the ledger. Certificates are an array in memory and vanish with
the process (`ProcessStops`); records stay. The routes that change or remove a
certificate parse the id as an object id (`*.controller.ts:36-51`) while ids are
UUIDs (line 51), so those handlers are never reached.

### SessionFamilies, StudentSession, TutorSession

SessionFamilies is what rotating refresh tokens promise, without tokens: a login
opens a family (`Open`), two exchanges of one token fork it (`Fork`), and
logouts, failures, resets and detected reuse take branches from it (`Cut`). A
family without branches has ended for good.

StudentSession is `student-auth.service.ts` for one account, call by call.

| Code | Actions |
|---|---|
| `register` | `RegisterLookup`, `RegisterInsert`, `RegisterMail` |
| `verifyEmail`, `resendVerification` | `VerifyRead`, `VerifyCount`, `VerifySave`; `ResendRead`, `ResendSave` |
| `login` | `LoginRead`, then `LoginFail` (one more attempt, perhaps the lock) or `LoginPass` |
| `forgotPassword` | `ForgetRead`, `ForgetInvalidate`, `ForgetInsert`, `ForgetMail` |
| `resetPassword` | `ResetRead`, `ResetSave`, `ResetMark`, `ResetClear` |
| `refresh` | `RefreshRead`, `RefreshRevoke` (reuse: the family), `RefreshMark` |
| the insertion of a session that ends several of these | `Grant` |
| `logout` | `Logout` |
| a call rejected, the process stopping | `SessionCallFails`, `SessionProcessStops` |

`Write` is the save of a document: only a path that differs from what was read is
sent. `raced` counts, per family, the exchanges that read their token unrevoked
and saved it after another had revoked it; no guard reads it. `branches` of the
refinement are the live tokens of a family and the exchanges in flight.

TutorSession is the same for `tutor.service.ts`, where the later of two methods
of one name runs (lines 249-304 are replaced by lines further down), a logout
revokes, a reset leaves the tokens, and an account must be active.
`SupportDecides` is the change of status from outside.

### CachedLists

`CacheInterceptor` around the FAQ: `FaqGet`, `FaqFind` and `FaqSet` are the calls
of a read, `FaqStore`, `FaqEvictList` and `FaqEvictEntry` those of a creation, an
update or a removal. The list's route names its key (`@CacheKey`); an entry's
names none, so its answers are cached under the URL as it was written, with the
query string: `UrlForms` are the ways to write it and `Plain` is the one a
mutation deletes. An update may change what an entry says, show it or hide it;
`version` counts the writes.

### RatingStats

`course-ratings-feedback.service.ts` for one course: the lookups of a request
(`RatingCourse`, `RatingEnrolment`, `RatingExisting`), its storing
(`RatingStore`), then the list (`StatsRead`) and the statistics computed from it
(`StatsWrite`), each a call of its own.

### Idempotency

`idempotency.interceptor.ts` and its service: `IdemFind`, the handler with its
answer (`IdemAnswer`), and the save that was started and is awaited by nobody
(`IdemSave`). A key is unique over all users, so the save of a key another user
has stored is rejected, and the rejection, which nobody handles, ends the
process. No route of the repository is decorated; the handler is external.

### CourseAnalytics and CourseDirectory

`course-analytics.service.ts`: a report is asked (`AskReport`), then one figure
after the other is read (`ReadFigure`), in any order the code leaves open
(`After`), while students enrol, courses change and time passes.
`course-discovery.service.ts`: a visitor pages through a search (`StartWalk`,
`SearchFinds`, `SearchCounts`, `NextPage`). Courses with the same sort value
come in any order, and in another for the next page.

### PositionTracking and PositionRisk

`protocols/de-fi/services`. A request loads a position as an entity
(`LoadPosition`), may ask the chain (`SyncPosition`) and saves the whole entity
(`SavePosition`); columns written in between are overwritten. PositionRisk
assesses the positions it has listed, each from its own reading (`AssessRead`,
`AssessSave`), and reports when the last is stored (`EndMonitoring`). A loan may
be repaid and keep its ratio: nothing in the code ties the two columns. Ratios are
exact until `Math.round`. Entities, registry and the borrowing services are not
in the repository; `Borrows` is what they do to a position.

### Resources

The controllers and services that create, list, fetch, update and remove
records. `Controller` says who may call what, `InArray` and `InCollection` where
the records are, `ForOneRecord` and `ValidObjectId` which ids a route takes; one
record each names the controller and the service of a resource (`AppResources`).
A request makes at most one database call that changes something, so it is one
step. `BelowCourses` are the lists whose path `courses/:id` of
`CourseDiscoveryController` takes first.

### Memberships

`addMember` (`MemberFind`, `MemberInsert`) beside `removeMember`, and `moderate`
of removal requests (`ModerateLoad`, `ModerateSave`), whose save writes the
paths that differ from the loaded document (`Saved`).

### RequestMetrics

`MetricsInterceptor` and `MetricsService`: a handler ends and is recorded
(`Record`: a counter and a sorted sample that drops its first, smallest element
when full), and `Snapshot` and `PrometheusText` compute what is shown.

### Accounts, Services, MC modules and proof modules

`Accounts` and `Services` put parts together that, as modelled, have no state in
common (for the tokens of the two accounts see section 1): a behaviour runs one
of them (`role`, `service`) and leaves the others alone.
`MC*` modules only add constants, symmetry and owners.

`StudentEnrollmentProofs`, `StudentCartProofs`, `CourseLifecycleProofs`,
`MembershipsProofs`, `SavedCoursesProofs`, `CertificateIssuanceProofs`,
`SessionProofs` (both accounts and SessionFamilies) and `ServicesProofs` (the
services other than Memberships, and all of them together) hold the theorems.
Operators whose names end in a suffix such as `_NoIndex` are faulty variants of
the definition that follows them; `PROJECT.json` names the property each of them
violates.

## 3. The runs

| Run | Instance | Shows |
|---|---|---|
| `enrollment` | two requests, two courses or students, bounded disturbances | all safety properties of enrolment, the refinement to EnrollmentLedger |
| `enrollment_live` | the same module under `FairSpec`: one student, two courses, one request, two items, three disturbances | `RequestsAnswered`, with loops that go on after an item has failed |
| `course_lifecycle` | one course, its tutor, an administrator, two requests, two curriculum revisions | no offer without a standing approval unless a review overtook the request, no blind overwrite, statistics not inflated, no students left by a deletion unless counted behind its back |
| `course_review` | the same | a disagreement, below |
| `student_cart` | two students, one course, one enrolment request, two cart requests, two items | composition and the cart counter |
| `saved_courses` | one student and course, two wish-list requests, three additions, one fault | conservation, rewards, liveness of the listeners |
| `certificates` | two mints, two overlapping passes, one competing transaction, one fault, one repeated poll | what is stored agrees with the ledger; records settle; requests are answered |
| `certificate_record` | the same without faults | a disagreement, below |
| `accounts` | one student or one tutor, two calls in flight, five calls, one fault, two passwords, two decisions of the support | families of tokens fork only by the race of two exchanges, and end for good; inactive tutors get no session |
| `services` | one of nine services, see below | what each keeps, serves, counts or computes is right except after one named order of steps |
| `idempotency_path`, `items_by_id` | the same | two disagreements, below |

Why the bounds are enough: every race in these services is between two requests
about one student and one course, or one account, or one document and two
actors, so two request slots (reused after an answer) show each of them. The
bounds limit counters that would make the space infinite: `MaxDisturbances`
(catalogue changes, failures and crashes together), `ItemIds` (cart items ever
added), `MaxMishaps` (failed cart requests), `MaxSaves` and `MaxFaults` (wish
lists), `MaxRevisions` (curricula ever written), `MaxPolls` (10 in the code; one
repetition already separates the first answer, a later one and the last),
`MaxOthers` and `MaxFaults` (certificates). What is proved does not depend on
the bounds.

- Accounts: `MaxCalls` and `MaxTutorCalls` are 5: a registration, a login and
  three more, enough for two exchanges of one token and the reuse of it that
  meets their successors. `MaxLoginAttempts` and `MaxVerificationAttempts` are 2
  (5 in the code): the first, the last, and the refusal after it.
- `enrollment_live`: a cart holds an item of each of the two courses, so that
  one item fails and the loop goes on to the next, and both may fail; the third
  disturbance is a crash, or a change of the catalogue.
- `services`: the FAQ has two entries, each new or shown at the start, URLs in
  two forms, one reader, two writers and two mutations; ratings
  two calls at a time, four in all, one fault, scores 2 and 5 (their average is
  rounded); idempotency one key, two users, two paths, five calls; analytics two
  courses of one tutor, one buyer, three instants, a week of 1 and a month of 2;
  the directory three courses, sort values 0 to 2, pages of 1 (default) or 2
  (maximum, asked for as 3); positions two, with three calls, loans on both
  sides of each threshold of the risk and a repaid one; resources two UUIDs and two object ids;
  memberships one organization, two persons, two rows, three calls; metrics one
  route, durations 0 to 2, five requests and a `Window` of 2 (1000 in the code),
  so that the sample overflows three times.

Fairness. `enrollment_live` assumes weak fairness of `Continue(r)`: the event
loop resumes a request when the driver settles its call, and the driver settles
every call, by its own timeouts if need be. `saved_courses` assumes the same of
the insertions the listeners started. `certificates` assumes that calls are
settled, that the timer fires (the passes start) and that Horizon catches up
with the ledger; the ledger itself is not fair, since it may drop any
transaction. Nothing is assumed of users, of other
services, of failures or of crashes. The other runs check safety only and state
no fairness. Deadlock is checked where a model cannot
legitimately stop; the cfg of any other run says so (the calls of a behaviour
are used up, the clock has come to its end).

## 4. Where code and text disagree

Shown by a run:

- `course_review`: `admin-course.service.ts:148` says "Mark for re-review if
  significant changes", and the code does so for a published course only. An
  approved course whose curriculum is changed goes on offer unreviewed.
- `certificate_record`: `course-certification-nft-achievements.service.ts:67`
  says "Record the on-chain transaction so StellarSyncService can poll Horizon".
  Polling ends about 20 seconds after the submission and the transaction is
  valid for 30 (line 148): a mint applied in between has neither hash nor record.
- `idempotency_path`: `idempotency.interceptor.ts:57` says "Path validation:
  reject if path does not match". `find` (`idempotency.service.ts:31`) returns
  no path, so the test never refuses.
- `items_by_id`: `test/admin-crud.e2e-spec.ts` says "returns the created item by
  id" (163), "updates the item with an admin token" (193) and "deletes the item
  with an admin token" (237). The services that keep an array give UUIDs, and the
  three routes take the id through `ParseObjectIdPipe`, which answers 400.

Seen while modelling:

- `admin-course.service.ts:267`, "Only approved or unpublished courses can be
  published": the test is made on the loaded document, the save is
  unconditional, so a course another request has sent back to review is
  published by a request that loaded it before.
- `Course.totalCarts`, "a denormalized statistic"
  (`admin-course/schemas/course.schema.ts:101`), drifts upwards with nothing
  failed: two overlapping additions count twice, checkout never counts down.
- `events/event-names.ts:10`, "Fired after a student is enrolled in a course":
  the wish list fires it for a bookmark.
- The list of privacy policies is cached under `privacy-policy` and mutations
  delete `/privacy-policy` (compare
  `privacy-policy-management.service.spec.ts:70`, "invalidates the privacy policy
  list cache"): readers see the old list until it expires.
- `GET faq/:id` is cached under the URL of the request, query string included,
  while `update` and `remove` delete `/api/v1/faq/<id>` only
  (`faq-management.service.ts:52`, `64`): what was cached under another form of
  the URL outlives every mutation until it expires. `FaqStaleOnlyByRace`
  therefore speaks of the keys that mutations delete.
- A repaid loan that keeps its ratio: the assessment looks at `borrowed_amount`
  (`de-fi.service.ts:57`, `83`), the stress test (`206`-`208`) and
  `getPositionsAtRisk` do not, so the first sees no liquidation where the others
  do. `AaveNeverCritical` names that loan as the only exception.
- The portfolio adds its totals and its groups by protocol with BigNumber
  (`position.service.ts:69-71`, `105`) and its groups by type with `+=` on the
  column's own value (`127`), so that fractions, or a driver that returns
  decimals as strings, can make the two breakdowns disagree. The analytics are
  not modelled.
- Certificates are listed from an array of the process
  (`course-certification-nft-achievements.service.ts:54`): after a restart records
  are confirmed for certificates nobody can list.
- `GET courses/:id` of `CourseDiscoveryController` comes before the list routes
  of the course categories, the leaderboard and the course reports, which are
  answered 400.
- The metrics count a failed request under the status of success, and no request
  that a guard refuses or no route matches. A full sample drops the smallest
  duration, not the oldest.
- `resendVerification` sends no mail. A tutor whose mail address is verified is
  still refused while `pending`.
- A checkout without a payment hash is refused as a whole when one course has a
  price; with one, too (line 103).
- Positions: a synchronisation adds the difference of value and balance,
  `claimRewards` passes an empty list, `executeTransaction` looks at no status.
- Analytics: the title of a recent enrolment is always "Unknown", the earnings
  of a month leave out its last day, and a report on a course tests its
  ownership after it is made.

## 5. The proofs

Every safety invariant, action property and refinement that a passing run checks
is also a theorem, for arbitrary sets and bounds, under the named assumptions of
its module (finitely many of the things that are counted, a sentinel that is
none of the values it stands beside, numbers where there is arithmetic, each
evaluated by TLC in the runs). `PROJECT.json` lists the theorems with the
properties they state.

### Enrolment, cart, courses, memberships

`StudentEnrollmentProofs` proves, for arbitrary sets of students, courses,
requests and items and arbitrary bounds, under the named assumptions of
`StudentEnrollment` (finitely many students, `None` outside the other sets, the
bound a natural number):

- `TypeCorrect`: `Spec => []TypeOK`, one step per action.
- `CounterIsExact`: `Spec => []CounterMatches`. The property is not inductive: a
  request about to increment must be the only one for its pair. The
  strengthening says that a pair awaiting its increment belongs to one request
  (the one whose insertion the index accepted), is stored, was not lost before,
  and has not been announced. The step then changes the counted students of
  one course by at most one; the library's facts on cardinalities finish it.
- `AnnouncedAtMostOnce`: from the same invariant.
- `EnrollmentImplementsLedger`: the stage of a pair is a function of the
  enrolments, the pending and lost increments and the announcements. Each
  action moves at most one pair by one stage, or none.
- `OpenCoursesEntered`: `Spec => []OpenSinceAsked`. Both routes test the course
  several calls, or a whole loop, before they insert; the invariant carries the
  outcome of the test, which only history can confirm, through the request's
  locals. What is open now is in the history of every request in flight, and an
  idle slot keeps no snapshot that a next request could read.
- `CheckoutLosesNothing`, `CheckoutAnswersTruthfully` and, for the steps,
  `CheckoutRemovesOnlyItsItems`: the invariant describes the loop. Its items are
  those read at the start with ids nobody reuses, the item in hand is one of
  them, an item that was visited is enrolled or on the failed list, and one on
  the enrolled list was announced. That list needs the order of the calls inside
  an item: a failure between the insertion and the event puts it on the other.

`StudentCartProofs` proves that every step of the composed system is a step of
StudentEnrollment or leaves its variables alone (`CartFitsEnrollment`), hence
`CounterIsExactWithCart` without a second proof, and `CartCountCovers`, whose
invariant adds that a cart is finite and that a request about to insert or to
decrement names a student and a course (`CartLocal`, the types of the cart's
own state, is proved on the way).

`CourseLifecycleProofs` assumes finitely many courses, an owner among the tutors
for each, an administrator who is no tutor, and `None` outside the other sets.
What a request is about to save was decided on a document that has changed
since; the invariant says what of the decision survives.

- `CourseTypeCorrect`: documents, statistics and requests have their types.
- `OfferedOnlyWhileApproved`: `Spec => []OfferedUnlessOvertaken`. A request about
  to put a course on offer is an approval, or the approval it has seen still
  stands, or it is among those a review has overtaken; a save that takes the
  approval away takes the course off offer too and marks the others.
- `EditsSeeWhatTheyReplace`: `Spec => NoBlindOverwrite`. A version seen that is
  still the document's belongs to the curriculum seen; an insertion cannot
  interfere, because nobody else works on a course that is not there.
- `ProfilesNotInflated`: `Spec => []ProfileNotInflated`. The strengthening keeps
  room in the profile for every creation that is stored and not yet counted;
  each update then moves one element of a finite set.
- `DeletionsLeaveNoStudents`: `Spec => []DeletedEmptyUnlessOvertaken`.

`MembershipsProofs` proves `MembershipsTyped`, `OneMembershipEach` and
`ModeratorsApart` for any organizations, persons and rows. The invariant: a call
on its way has seen its membership if the collection has it, because each
insertion tells the calls in flight; a moderator that is about to save, and
that no save has overtaken, has loaded the request as it is.

### Wish lists and certificates

`SavedCoursesProofs`:

- `WishlistIsConserved`: the collection is finite, and each call moves one
  student between the sets of the law (saved, about to be counted, about to be
  uncounted) or into one of the losses.
- `RewardedAtMostOnce`: nothing is started for a pair before its enrolment is
  announced, which happens once; a request about to count an addition has
  stored it, so a pair that was never saved stays out of its path.

`CertificateIssuanceProofs`: `RecordsAreTruthful`. A mint is sent once, so
nothing replaces a success on the ledger; a request that is about to write its
record has seen the success and has written none; what a pass has in hand is a
record that exists and what Horizon said of it.

### Accounts

`SessionProofs` (`SessionTypes`, `RotationForksOnlyByRace`,
`AccountImplementsFamilies`; `TutorTypes`, `InactiveTutorGetsNoSession`,
`TutorAccountImplementsFamilies`). Tokens and links get the next number; that it
is free, and within the type, is a matter of counting the requests that may
still insert one against the bound (`Budget`). Each request in flight knows a
student, a token of a known family, or nothing (`CallOK`). The steps of an
account are then sorted by what they do to the tokens (nothing, open, fork, cut),
once, and the race count and both refinements follow from the four kinds.
`AccountsRunEach` carries all of it to `AccountsSpec`, and `AccountsTypeCorrect`
states the types there.

### Services

`ServicesProofs`, one section each:

| Theorem | The invariant adds |
|---|---|
| `FaqIsStaleOnlyByRace` | an answer about to be cached is what the database holds, unless a change of what it shows came after it was read; an entry that is being created is nobody else's, and one that is not there yet is cached nowhere |
| `IsRepeatedOnlyByRace` | without a race, what a handler answered is stored or being stored, and a handler that runs is alone with its user and key |
| `IsReopenedOnlyByStaleSave` | an entity loaded since the last close of its position is closed |
| `IsAaveNeverCritical` | a stored assessment lies between the bounds of its level, and a report counts what was listed |
| `StatsOffOnlyByRace` | the list of a writer that nothing overtook is the ratings as they are |
| `DoPagesPartitionUnlessTied` | without ties there is one set of first k matches, and a visitor has seen the first ones up to his page |
| `DoReportsAddUp` | each figure of a report that nothing overtook is what its query would answer now |
| `DoMetricsRememberTheSlowest` | a full sample is the largest `Window` - 1 durations before the last, with the last |

`ServicesRunEach` proves that a behaviour of the composition is a behaviour of
each service (and `RiskRunsPositions` that PositionRisk leaves positions to
PositionTracking), so the theorems hold of the specification that the run
checks; `ServicesTypeCorrect` states the types of all. For ratings that needs
that a rounded average of scores from 1 to 5 lies between 1.00 and 5.00, for the
directory that a page before the last leaves courses for the next.

Sums and counts. The figures are sums over sets (`SumFunctionOnSet`), a
recursive function on subsets. What such a function computes is proved here
without induction on data: from the recursion, by looking at a smallest subset
for which the claim fails (`SmallestSubset`, from the well-foundedness of strict
inclusion on a finite set). So are proved that an element can be taken out in
any order, and bounds.

What the proofs changed in the models:

- A duration of 0 ms was taken for "no handler has ended yet" in RequestMetrics:
  the invariant failed for it. `NotYet` is now no duration, and the run includes
  0.
- The levels of risk were given by overlapping arms of a CASE, of which TLA+ may
  choose any; they are IF chains now, as in the code.
- The pages of a search and the averages are sums and
  comprehensions the prover can reason about; assumptions that the models relied
  on silently are named (`ShownFinite`, `AnalyticsFinite`, `NamesOfFigures`,
  `NoRecordOutside`, `NoRowOutside`, `BorrowingTypes`).

### Only model-checked

Liveness: `RequestsAnswered`, `AnnouncedIsRewarded`, `RecordsSettle` and
`IssuanceAnswered`. The prover handles neither fairness nor `ENABLED`. The
properties of the four runs that expect a violation are false, so there is
nothing to prove. The theorems speak of the specifications without fairness, which those with fairness
imply.

## 6. What is not modelled

- `verification`: the service names `Ticket` without importing it, so every
  verification ends in the handler of a ReferenceError.
- `financial-aid`: the repository's save looks an aggregate up by a UUID in an
  object-id field and fails, so nothing is ever stored.
- `google-auth` cannot be loaded (`Throttle`); `reports` and `certification`
  return constants; the soft-delete policy has no caller.
- The reward listener uses `SorobanRpc`, which the installed
  `@stellar/stellar-sdk` no longer exports; payment verification and the creation
  of accounts in `stellar` call a remote network and keep nothing.
- The Aave adapter: `ethers` is not a dependency, and its calls are external.
- Infrastructure: configuration, probes, mail, logs, traces, profiles, HTTP
  formatting and validation.
- Reads that answer one query as it is: lists, searches within an array, the
  dashboards, the portfolio analytics and the list of a user's positions. Fields
  that are written and never read.
- Calls that are applied although they are reported failed (certificates have
  them); several processes on one database would add no interleaving, since the
  steps already interleave at every call.
- In the cart: `clearCart` (no route) and the quantity. Unique indexes are taken
  as built.

## 7. Plan

1. `Marketplace`: a refinement of the catalogue actions of StudentEnrollment by
   CourseLifecycle, so that the courses of the two are the same documents.
2. Theorems: that SavedCourses, whose enrolments are those of EnrollmentLedger,
   implements it; that a course which was ever offered in CourseLifecycle is what
   StudentEnrollment calls open.
