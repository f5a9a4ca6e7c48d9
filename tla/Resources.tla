----------------------------- MODULE Resources -----------------------------
(***************************************************************************)
(* The resources with the routes create, list, fetch, update and remove.   *)
(* A controller says who may call which route, a service where the records *)
(* are kept: in an array of the process, under UUIDs, or in a collection,  *)
(* under object ids.  Every route for one record refuses an id that is not *)
(* an object id.  One operation of the database stores or changes one      *)
(* document, so a request is one step.                                     *)
(***************************************************************************)
EXTENDS Naturals, FiniteSets

CONSTANTS
  Uuids, ObjectIds,  \* ids of the two kinds
  Bodies,            \* what a record says
  NoRecordId,        \* "no id", of a route for the whole resource
  NoBody             \* "no value"

ASSUME IdsDiffer == Uuids \cap ObjectIds = {} /\ NoRecordId \notin Uuids \cup ObjectIds
ASSUME NoBodyOutside == NoBody \notin Bodies

VARIABLES
  resource,   \* the resource the behaviour is about
  records,    \* its records, id to body
  listCached, \* the list CacheInterceptor keeps for it
  given,      \* the ids given out since the records were last all lost
  reply       \* the last request and its answer

resourceVars == <<resource, records, listCached, given, reply>>

----------------------------------------------------------------------------
(***************************************************************************)
(* Guards and routes                                                       *)
(***************************************************************************)

Roles == {"admin", "moderator", "tutor", "student"}

\* A caller shows an access token with a role, a refresh token or no token.
Callers == Roles \cup {"refresh token", "no token"}

\* JwtAuthGuard
SignedIn == Roles

\* RolesGuard refuses a role it does not list, JwtAuthGuard any other caller.
GuardStatus(admitted, caller) ==
  IF caller \in admitted THEN 200
  ELSE IF caller \in SignedIn THEN 403 ELSE 401

Editors == {"admin", "moderator", "tutor"}
Managers == {"admin", "moderator"}
Admins == {"admin"}

\* A controller: who may read the list, fetch, create, update and remove, and
\* the key its list is cached under.
Controller(list, fetch, create, update, remove) ==
  [list |-> list, fetch |-> fetch, create |-> create, update |-> update,
   remove |-> remove, cacheKey |-> "none"]

PublicController(create, update, remove) ==
  Controller(Callers, Callers, create, update, remove)

CachedController(key) ==
  [PublicController(Editors, Editors, Managers) EXCEPT !.cacheKey = key]

AboutManagementController == PublicController(Editors, Editors, Managers)
AdminAuthController == PublicController(Editors, Editors, Managers)
AdminFinancialAidManagementController == PublicController(Editors, Editors, Managers)
AdminModeratorAccountSettingsController == PublicController(Editors, Editors, Managers)
CertificateSocialSharingController == PublicController(Editors, Editors, Managers)
ContactMessageController == PublicController(Callers, Editors, Managers)
CourseCategorizationFilteringController == CachedController("course-discovery")
CoursePerformanceLeaderboardController == CachedController("leaderboard")
CourseReportsAnalyticsController == PublicController(Editors, Editors, Managers)
GamificationPointsController == PublicController(Editors, Editors, Managers)
PrivacyPolicyManagementController == CachedController("privacy-policy")
StudentAccountSettingsController == PublicController(Editors, Editors, Managers)
StudentCertificateNameChangeRequestController == PublicController(Editors, Editors, Managers)
StudentReportsAnalyticsController ==
  Controller(Managers, Managers, Managers, Managers, Managers)
TermsConditionsManagementController == PublicController(Editors, Editors, Managers)
TutorAccountSettingsController == PublicController(Editors, Editors, Managers)
TutorReportsAnalyticsController == PublicController(Editors, Editors, Managers)

TutorJwtAuthController == PublicController(Editors, Editors, Managers)
PrivateTutoringBookingsController == PublicController(Editors, Editors, Managers)
BadgeController == PublicController(Managers, Managers, Admins)
SubscriptionPlanController == PublicController(Admins, Admins, Admins)
OrganizationController == PublicController(Admins, Admins, Admins)
ReportAbuseController ==
  Controller(Managers, Managers, {"student", "tutor", "moderator"}, Managers, Admins)
PointsController == Controller(Managers, SignedIn, Editors, Managers, Admins)
NotificationController == Controller(Admins, SignedIn, Managers, SignedIn, SignedIn)
SessionController == Controller(Admins, SignedIn, SignedIn, SignedIn, Admins)

----------------------------------------------------------------------------
(***************************************************************************)
(* Services: where the records are kept, and the key of the cached list    *)
(* that a mutation deletes.                                                *)
(***************************************************************************)

InArray(key) == [kept |-> "process", evicts |-> key]
InCollection == [kept |-> "database", evicts |-> "none"]

AboutManagementService == InArray("none")
AdminAuthService == InArray("none")
AdminFinancialAidManagementService == InArray("none")
AdminModeratorAccountSettingsService == InArray("none")
CertificateSocialSharingService == InArray("none")
ContactMessageService == InArray("none")
CourseCategorizationFilteringService == InArray("/courses/categorization-filtering")
CoursePerformanceLeaderboardService == InArray("/courses/performance-leaderboard")
CourseReportsAnalyticsService == InArray("none")
GamificationPointsService == InArray("none")
PrivacyPolicyManagementService == InArray("/privacy-policy")
StudentAccountSettingsService == InArray("none")
StudentCertificateNameChangeRequestService == InArray("none")
StudentReportsAnalyticsService == InArray("none")
TermsConditionsManagementService == InArray("none")
TutorAccountSettingsService == InArray("none")
TutorReportsAnalyticsService == InArray("none")

TutorJwtAuthService == InCollection
PrivateTutoringBookingsService == InCollection
BadgeService == InCollection
SubscriptionPlanService == InCollection
OrganizationService == InCollection
ReportAbuseService == InCollection
PointsService == InCollection
NotificationService == InCollection
SessionService == InCollection

\* CourseDiscoveryController is registered first, and its route courses/:id
\* takes GET requests for every other list one segment below courses.
BelowCourses == {"categorization", "leaderboard", "courseReports"}

Served(name, controller, service) ==
  [name |-> name, routes |-> controller, store |-> service,
   shadowed |-> name \in BelowCourses]

\* The resources of AppModule.
AppResources ==
  { Served("about", AboutManagementController, AboutManagementService),
    Served("adminAuth", AdminAuthController, AdminAuthService),
    Served("adminAid", AdminFinancialAidManagementController,
           AdminFinancialAidManagementService),
    Served("moderatorSettings", AdminModeratorAccountSettingsController,
           AdminModeratorAccountSettingsService),
    Served("sharing", CertificateSocialSharingController, CertificateSocialSharingService),
    Served("contact", ContactMessageController, ContactMessageService),
    Served("categorization", CourseCategorizationFilteringController,
           CourseCategorizationFilteringService),
    Served("leaderboard", CoursePerformanceLeaderboardController,
           CoursePerformanceLeaderboardService),
    Served("courseReports", CourseReportsAnalyticsController,
           CourseReportsAnalyticsService),
    Served("gamification", GamificationPointsController, GamificationPointsService),
    Served("privacy", PrivacyPolicyManagementController, PrivacyPolicyManagementService),
    Served("studentSettings", StudentAccountSettingsController,
           StudentAccountSettingsService),
    Served("nameChange", StudentCertificateNameChangeRequestController,
           StudentCertificateNameChangeRequestService),
    Served("studentReports", StudentReportsAnalyticsController,
           StudentReportsAnalyticsService),
    Served("terms", TermsConditionsManagementController, TermsConditionsManagementService),
    Served("tutorSettings", TutorAccountSettingsController, TutorAccountSettingsService),
    Served("tutorReports", TutorReportsAnalyticsController, TutorReportsAnalyticsService),
    Served("tutorJwtAuth", TutorJwtAuthController, TutorJwtAuthService),
    Served("bookings", PrivateTutoringBookingsController, PrivateTutoringBookingsService),
    Served("badges", BadgeController, BadgeService),
    Served("plans", SubscriptionPlanController, SubscriptionPlanService),
    Served("organizations", OrganizationController, OrganizationService),
    Served("abuse", ReportAbuseController, ReportAbuseService),
    Served("points", PointsController, PointsService),
    Served("notifications", NotificationController, NotificationService),
    Served("sessions", SessionController, SessionService) }

----------------------------------------------------------------------------
(***************************************************************************)
(* The state                                                               *)
(***************************************************************************)

Ids == IF resource.store.kept = "process" THEN Uuids ELSE ObjectIds
RequestKinds == {"list", "fetch", "create", "update", "remove"}
ForOneRecord == {"fetch", "update", "remove"}

NoReply == [request |-> "none", id |-> NoRecordId, body |-> NoBody, status |-> 0]

ResourceTypeOK ==
  /\ resource \in AppResources
  /\ records \in [Ids -> Bodies \cup {NoBody}]
  /\ given \in SUBSET Ids
  /\ listCached \in {NoBody} \cup [Ids -> Bodies \cup {NoBody}]
  /\ reply \in {NoReply} \cup
       [request: RequestKinds, id: Uuids \cup ObjectIds \cup {NoRecordId},
        body: Bodies \cup {NoBody}, status: {200, 400, 401, 403, 404}]

Nothing == [i \in Ids |-> NoBody]

ResourceInit ==
  /\ resource \in AppResources
  /\ records = Nothing /\ given = {}
  /\ listCached = NoBody /\ reply = NoReply

----------------------------------------------------------------------------
(***************************************************************************)
(* Requests                                                                *)
(***************************************************************************)

\* Faulty variant of the pipe: any id will do.
ValidObjectId_Any(i) == i \in Uuids \cup ObjectIds

\* ParseObjectIdPipe
ValidObjectId(i) == i \in ObjectIds

Kept(i) == i \in Ids /\ records[i] # NoBody

\* The answer: guards come before pipes, pipes before the service.
Status(request, caller, i) ==
  LET guarded == GuardStatus(resource.routes[request], caller)
  IN  IF request = "list" /\ resource.shadowed THEN 400
      ELSE IF guarded # 200 THEN guarded
      ELSE IF request \notin ForOneRecord THEN 200
      ELSE IF ~ValidObjectId(i) THEN 400
      ELSE IF Kept(i) THEN 200 ELSE 404

Answer(request, i, body, status) ==
  reply' = [request |-> request, id |-> i, body |-> body, status |-> status]

\* The key of the list is deleted when the service knows it.
EvictList ==
  listCached' = IF resource.store.evicts = resource.routes.cacheKey
                  THEN NoBody ELSE listCached

Store(i, body) ==
  /\ records' = [records EXCEPT ![i] = body]
  /\ EvictList

Refuse(request, caller, i) ==
  /\ Status(request, caller, i) # 200
  /\ Answer(request, IF request \in ForOneRecord THEN i ELSE NoRecordId, NoBody,
            Status(request, caller, i))
  /\ UNCHANGED <<resource, records, listCached, given>>

Create(caller, i, body) ==
  /\ i \in Ids \ given
  /\ Status("create", caller, i) = 200
  /\ Store(i, body)
  /\ given' = given \cup {i}
  /\ Answer("create", i, body, 200)
  /\ UNCHANGED resource

\* A hit answers with the list as it was cached.
List(caller) ==
  /\ Status("list", caller, NoRecordId) = 200
  /\ listCached' = IF resource.routes.cacheKey = "none" \/ listCached # NoBody
                     THEN listCached ELSE records
  /\ Answer("list", NoRecordId, NoBody, 200)
  /\ UNCHANGED <<resource, records, given>>

Fetch(caller, i) ==
  /\ Status("fetch", caller, i) = 200
  /\ Answer("fetch", i, records[i], 200)
  /\ UNCHANGED <<resource, records, listCached, given>>

Update(caller, i, body) ==
  /\ Status("update", caller, i) = 200
  /\ Store(i, body)
  /\ Answer("update", i, body, 200)
  /\ UNCHANGED <<resource, given>>

Remove(caller, i) ==
  /\ Status("remove", caller, i) = 200
  /\ Store(i, NoBody)
  /\ Answer("remove", i, NoBody, 200)
  /\ UNCHANGED <<resource, given>>

\* The process starts again: its arrays and its cache are empty.
Restart ==
  /\ IF resource.store.kept = "process"
       THEN records' = Nothing /\ given' = {}
       ELSE UNCHANGED <<records, given>>
  /\ listCached' = NoBody /\ reply' = NoReply
  /\ UNCHANGED resource

ListCacheExpires ==
  /\ listCached # NoBody
  /\ listCached' = NoBody
  /\ UNCHANGED <<resource, records, given, reply>>

ResourceNext ==
  \/ \E caller \in Callers :
       \/ \E request \in RequestKinds, i \in Uuids \cup ObjectIds : Refuse(request, caller, i)
       \/ List(caller)
       \/ \E i \in Uuids \cup ObjectIds :
            \/ Fetch(caller, i) \/ Remove(caller, i)
            \/ \E body \in Bodies : Create(caller, i, body) \/ Update(caller, i, body)
  \/ Restart \/ ListCacheExpires

ResourceSpec == ResourceInit /\ [][ResourceNext]_resourceVars

----------------------------------------------------------------------------
(***************************************************************************)
(* Properties                                                              *)
(***************************************************************************)

\* A record that was created can be fetched, changed and removed by its id, as
\* the tests of the resources say.  Violated by every resource kept in an array,
\* on each of the three routes: the services give UUIDs, the routes demand object
\* ids.
CreatedIsReachable ==
  reply.request \in ForOneRecord /\ Kept(reply.id) => reply.status \notin {400, 404}
=============================================================================
