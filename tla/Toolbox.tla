-------------------------------- MODULE Toolbox --------------------------------
(***************************************************************************)
(* What keeps things around the engine, in one specification: storage      *)
(* adapters, the cached storage, the metric buffer and reports, batching,  *)
(* health checks, the session manager's counters and translations.  The    *)
(* parts share nothing: a behaviour is of one part, and the others stay as *)
(* they are.                                                               *)
(***************************************************************************)
EXTENDS Storage, CachedStorage, MetricBuffer, Batching, Health, SessionBooks,
        Reports, I18n

VARIABLE part

BoxInit ==
  /\ part \in {"storage", "cache", "metrics", "batching", "health", "books", "reports", "texts"}
  /\ Init /\ CacheInit /\ MetricInit /\ BatchInit /\ HealthInit /\ BooksInit /\ ReportInit /\ I18nInit
  /\ part # "storage" => adapter = "memory"
  /\ part # "texts" => language = FallbackLanguage

BoxNext ==
  /\ UNCHANGED part
  /\ \/ /\ part = "storage" /\ Next
        /\ UNCHANGED <<cacheVars, metricVars, batchVars, healthVars, booksVars, reportVars, i18nVars>>
     \/ /\ part = "cache" /\ CacheNext
        /\ UNCHANGED <<vars, metricVars, batchVars, healthVars, booksVars, reportVars, i18nVars>>
     \/ /\ part = "metrics" /\ MetricNext
        /\ UNCHANGED <<vars, cacheVars, batchVars, healthVars, booksVars, reportVars, i18nVars>>
     \/ /\ part = "batching" /\ BatchNext
        /\ UNCHANGED <<vars, cacheVars, metricVars, healthVars, booksVars, reportVars, i18nVars>>
     \/ /\ part = "health" /\ HealthNext
        /\ UNCHANGED <<vars, cacheVars, metricVars, batchVars, booksVars, reportVars, i18nVars>>
     \/ /\ part = "books" /\ BooksNext
        /\ UNCHANGED <<vars, cacheVars, metricVars, batchVars, healthVars, reportVars, i18nVars>>
     \/ /\ part = "reports" /\ ReportNext
        /\ UNCHANGED <<vars, cacheVars, metricVars, batchVars, healthVars, booksVars, i18nVars>>
     \/ /\ part = "texts" /\ I18nNext
        /\ UNCHANGED <<vars, cacheVars, metricVars, batchVars, healthVars, booksVars, reportVars>>

BoxSpec ==
  BoxInit /\ [][BoxNext]_<<part, vars, cacheVars, metricVars, batchVars,
                           healthVars, booksVars, reportVars, i18nVars>>

\* Neither of the two caches gives out what is not so any more: of stored
\* sessions (Performance.js:472) and of finished texts (I18n.js:129).
CachesAreCurrent == HitsAreCurrent /\ TextsAreCurrent
=============================================================================
