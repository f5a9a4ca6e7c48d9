------------------------------ MODULE Services ------------------------------
(***************************************************************************)
(* The services that have no state in common with each other: a behaviour  *)
(* runs one of them and leaves the others alone, so they can share the     *)
(* names of requests and of what they are about.                           *)
(***************************************************************************)
EXTENDS CachedLists, RatingStats, Idempotency, CourseAnalytics, CourseDirectory,
        PositionRisk, Resources, Memberships, RequestMetrics

VARIABLE service  \* the service that is at work

servicesVars == <<cacheVars, ratingVars, idemVars, analyticsVars, directoryVars,
                  defiVars, riskVars, resourceVars, membershipVars, metricsVars, service>>

Running == {"lists", "ratings", "idempotency", "analytics", "directory", "defi", "resources",
            "memberships", "metrics"}

ServicesInit ==
  /\ CacheInit /\ RatingInit /\ IdemInit /\ AnalyticsInit /\ DirectoryInit
  /\ DefiInit /\ RiskInit /\ ResourceInit /\ MembershipInit /\ MetricsInit
  /\ service \in Running
  /\ service # "resources" => resource.name = "about"
  /\ service # "lists" => \A i \in FaqIds : faq[i].stage = "new"

KeepLists == UNCHANGED cacheVars
KeepRatings == UNCHANGED ratingVars
KeepIdempotency == UNCHANGED idemVars
KeepAnalytics == UNCHANGED analyticsVars
KeepDirectory == UNCHANGED directoryVars
KeepDefi == UNCHANGED <<defiVars, riskVars>>
KeepResources == UNCHANGED resourceVars
KeepMemberships == UNCHANGED membershipVars
KeepMetrics == UNCHANGED metricsVars

ServicesNext ==
  /\ \/ /\ service = "lists" /\ CacheNext
        /\ KeepRatings /\ KeepIdempotency /\ KeepAnalytics /\ KeepDirectory
        /\ KeepDefi /\ KeepResources /\ KeepMemberships /\ KeepMetrics
     \/ /\ service = "ratings" /\ RatingNext
        /\ KeepLists /\ KeepIdempotency /\ KeepAnalytics /\ KeepDirectory
        /\ KeepDefi /\ KeepResources /\ KeepMemberships /\ KeepMetrics
     \/ /\ service = "idempotency" /\ IdemNext
        /\ KeepLists /\ KeepRatings /\ KeepAnalytics /\ KeepDirectory
        /\ KeepDefi /\ KeepResources /\ KeepMemberships /\ KeepMetrics
     \/ /\ service = "analytics" /\ AnalyticsNext
        /\ KeepLists /\ KeepRatings /\ KeepIdempotency /\ KeepDirectory
        /\ KeepDefi /\ KeepResources /\ KeepMemberships /\ KeepMetrics
     \/ /\ service = "directory" /\ DirectoryNext
        /\ KeepLists /\ KeepRatings /\ KeepIdempotency /\ KeepAnalytics
        /\ KeepDefi /\ KeepResources /\ KeepMemberships /\ KeepMetrics
     \/ /\ service = "defi" /\ RiskNext
        /\ KeepLists /\ KeepRatings /\ KeepIdempotency /\ KeepAnalytics
        /\ KeepDirectory /\ KeepResources /\ KeepMemberships /\ KeepMetrics
     \/ /\ service = "resources" /\ ResourceNext
        /\ KeepLists /\ KeepRatings /\ KeepIdempotency /\ KeepAnalytics
        /\ KeepDirectory /\ KeepDefi /\ KeepMemberships /\ KeepMetrics
     \/ /\ service = "memberships" /\ MembershipNext
        /\ KeepLists /\ KeepRatings /\ KeepIdempotency /\ KeepAnalytics
        /\ KeepDirectory /\ KeepDefi /\ KeepResources /\ KeepMetrics
     \/ /\ service = "metrics" /\ MetricsNext
        /\ KeepLists /\ KeepRatings /\ KeepIdempotency /\ KeepAnalytics
        /\ KeepDirectory /\ KeepDefi /\ KeepResources /\ KeepMemberships
  /\ UNCHANGED service

ServicesSpec == ServicesInit /\ [][ServicesNext]_servicesVars

\* The collections, the caches and the requests in flight have their types.
ServicesTypeOK ==
  /\ CacheTypeOK /\ RatingTypeOK /\ IdemTypeOK /\ AnalyticsTypeOK /\ DirectoryTypeOK
  /\ DefiTypeOK /\ RiskTypeOK /\ ResourceTypeOK /\ MembershipTypeOK /\ MetricsTypeOK
  /\ service \in Running
=============================================================================
