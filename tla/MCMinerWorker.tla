--------------------------- MODULE MCMinerWorker ---------------------------
(* A small instance of MinerWorker for TLC: the feed knows the release of   *)
(* the seed, under the seed's error signature and under another, and one    *)
(* release more; the harvester knows the seed's.                            *)
EXTENDS MinerWorker

MCEntry(from, release, id) == [from |-> from, key |-> release, id |-> id]

MCSeeds == <<MCEntry("seed", "s", "s1")>>
MCFeed == <<MCEntry("feed", "s", "s1"), MCEntry("feed", "s", "s2"), MCEntry("feed", "n", "n1")>>
MCReleases == <<MCEntry("harvest", "s", "s1")>>
=============================================================================
