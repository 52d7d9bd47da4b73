---------------------------- MODULE MCVulnLookup ----------------------------
(* An instance of VulnLookup for TLC. *)
EXTENDS VulnLookup, TLC

CONSTANTS o1, o2

TwoRecords == {o1, o2}
OneRecord == {o2}
PolicyAndEndpoint == {"policy", "endpoint"}
PolicyOnly == {"policy"}
NpmAndPyPI == {"npm", "pypi"}
MavenOnly == {"maven"}

\* Version 4 does not parse for npm and PyPI, whose orders differ on 1 and 2.
FourVersions == 1 .. 4
MCRank == "semver" :> <<1, 2, 3, 0>> @@ "pep440" :> <<2, 1, 3, 0>> @@
          "maven" :> <<1, 2, 3, 4>>
MCText == <<1, 2, 3, 4>>

Entry(i, f, l) == [introduced |-> i, fixed |-> f, lastAffected |-> l]
RangeIn(type, events) == [type |-> type, events |-> events]
AffOf(package, eco, versions, severities, ranges) ==
    [ecosystem |-> eco, package |-> package, versions |-> versions, severities |-> severities,
     ranges |-> ranges]
Aff(eco, versions, severities, ranges) == AffOf("p", eco, versions, severities, ranges)

\* The first record moves from a range to a list of versions and a commit range;
\* the second has two entries for PyPI, one for Maven, one for npm and
\* one for another package of npm, which is fixed first.
AllContent ==
    o1 :> << [malicious |-> FALSE, severities |-> {3},
              affected |-> << Aff("npm", {}, {},
                 << RangeIn("SEMVER", << Entry(Zero, None, None), Entry(None, 2, None),
                                         Entry(3, None, None) >>) >>) >>],
             [malicious |-> TRUE, severities |-> {},
              affected |-> << Aff("npm", {2, 4}, {1},
                 << RangeIn("GIT", << Entry(Zero, None, None) >>) >>) >>] >> @@
    o2 :> << [malicious |-> FALSE, severities |-> {1, 4},
              affected |-> << AffOf("q", "npm", {}, {},
                 << RangeIn("SEMVER", << Entry(Zero, None, None), Entry(None, 1, None) >>) >>),
                              Aff("npm", {}, {},
                 << RangeIn("SEMVER", << Entry(2, None, None), Entry(None, 3, None) >>) >>),
                              Aff("PyPI", {1}, {2},
                 << RangeIn("ECOSYSTEM", << Entry(2, None, 2), Entry(3, None, None) >>) >>),
                              Aff("PyPI", {}, {},
                 << RangeIn("ECOSYSTEM", << Entry(2, None, None), Entry(None, 3, None) >>) >>),
                              Aff("Maven", {}, {},
                 << RangeIn("ECOSYSTEM", << Entry(Zero, None, None) >>) >>) >>] >>
MCContent == [v \in Osv |-> AllContent[v]]
=============================================================================
