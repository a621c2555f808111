-------------------------- MODULE MCFetchScheduler --------------------------
EXTENDS FetchScheduler
CONSTANTS t1, t2, k1, k2
MCTargets == {t1, t2}
MCVoices == {t2}
MCTicks == {k1, k2}
MCBackends == {"sqlite", "postgres"}
=============================================================================
