-------------------------------- MODULE Rewrite --------------------------------
(***************************************************************************)
(* The rewrite rules, internal/rewrite/rewrite.go, over the version parser  *)
(* and comparators of internal/vercmp/vercmp.go.                            *)
(*                                                                         *)
(* The text of a version is what its ecosystem's parser tells apart: a "v"  *)
(* in front, its numbers, and the suffix after them.  A text without        *)
(* numbers is one that no parser accepts.                                   *)
(***************************************************************************)
EXTENDS Integers, Sequences, Functions

CONSTANT Numbers    \* the numbers a version is made of

Ecosystems == {"npm", "go", "pypi", "maven"}
Semver(eco) == eco \in {"npm", "go"}

\* Suffixes of each ecosystem; that of Maven may be behind a dot.
SuffixesOf(eco) == IF Semver(eco) THEN {"", "-rc", "+build"}
                 ELSE IF eco = "pypi" THEN {"", "rc", ".post"}
                 ELSE {"", "-rc", ".Final", "Final"}

Junk == [v |-> FALSE, nums |-> <<>>, suffix |-> "latest"]
Texts(eco) ==
    {Junk} \cup [v : IF Semver(eco) THEN BOOLEAN ELSE {FALSE},
                 nums : UNION {[1..n -> Numbers] : n \in 1..4}, suffix : SuffixesOf(eco)]

-----------------------------------------------------------------------------
(* vercmp.go *)

\* Whether ParseVersion gives TRUE, and the components it then gives.
Parses(text) == text.nums # <<>>

Num(text, i) == IF i <= Len(text.nums) THEN text.nums[i] ELSE 0

\* The library pads the numbers to three; a fourth is dropped.
ParseSemver(text) ==
    [prefix |-> text.v, major |-> Num(text, 1), minor |-> Num(text, 2), patch |-> Num(text, 3),
     pre |-> text.suffix, segments |-> 3]

\* The third part is everything after the second dot: it is no number when
\* another number or a dotted suffix follows it, and then neither is read.
ExtractSegments(text) ==
    LET n == Len(text.nums)
        plain == n = 3 /\ text.suffix # ".Final"
    IN  [prefix |-> text.v, major |-> Num(text, 1), minor |-> Num(text, 2),
         patch |-> IF plain THEN Num(text, 3) ELSE 0,
         pre |-> IF text.suffix = ".Final" THEN "Final" ELSE text.suffix,
         segments |-> IF n < 3 THEN n ELSE IF plain THEN 3 ELSE 2]

\* PyPI cuts its suffix off first and Maven leaves it to ExtractSegments, which
\* makes no difference to the suffixes either has here.
ParseVersion(text, eco) == IF Semver(eco) THEN ParseSemver(text) ELSE ExtractSegments(text)

Format(pv) ==
    [v |-> pv.prefix, nums |-> SubSeq(<<pv.major, pv.minor, pv.patch>>, 1, pv.segments),
     suffix |-> pv.pre]

Sign(n) == IF n < 0 THEN -1 ELSE IF n > 0 THEN 1 ELSE 0

\* Fallback: the order of the texts; digits come before letters, "latest" before "v1".
Fallback(a, b) ==
    LET Place(text) == IF text.v THEN 2 ELSE IF Parses(text) THEN 0 ELSE 1
    IN  Sign(Place(a) - Place(b))

\* What the libraries of CompareSemver, CompareMaven and ComparePyPI do: the
\* numbers in turn, a missing one being 0; then a pre-release before its release
\* and a post-release after it.
SuffixRank(suffix) == IF suffix \in {"rc", "-rc"} THEN -1 ELSE IF suffix = ".post" THEN 1 ELSE 0

Compare(a, b) ==
    IF ~Parses(a) \/ ~Parses(b) THEN Fallback(a, b)
    ELSE LET differ == {i \in 1..4 : Num(a, i) # Num(b, i)}
         IN  IF differ = {} THEN Sign(SuffixRank(a.suffix) - SuffixRank(b.suffix))
             ELSE LET i == CHOOSE i \in differ : \A j \in differ : i <= j
                  IN  Sign(Num(a, i) - Num(b, i))

-----------------------------------------------------------------------------
(* rewrite.go *)

AtLeast(n, pv) == [pv EXCEPT !.segments = IF @ < n THEN n ELSE @]

\* Mutant of SnapToMinor: a version of two numbers keeps two.
SnapToMinorUnpadded(text, eco) ==
    IF ~Parses(text) THEN text
    ELSE Format([ParseVersion(text, eco) EXCEPT !.patch = 0, !.pre = ""])

SnapToMinor(text, eco) ==
    IF ~Parses(text) THEN text
    ELSE Format(AtLeast(3, [ParseVersion(text, eco) EXCEPT !.patch = 0, !.pre = ""]))

SnapToMajor(text, eco) ==
    IF ~Parses(text) THEN text
    ELSE Format(AtLeast(3, [ParseVersion(text, eco) EXCEPT !.minor = 0, !.patch = 0, !.pre = ""]))

ApplyMin(text, target) == IF Compare(text, target) < 0 THEN target ELSE text

\* Mutant of ApplyMax: only the numbers are compared.
ApplyMaxByNumbers(text, target) ==
    LET Bare(t) == [t EXCEPT !.suffix = ""]
    IN  IF Compare(Bare(text), Bare(target)) > 0 THEN target ELSE text

ApplyMax(text, target) == IF Compare(text, target) > 0 THEN target ELSE text

\* The target of a replacement must be one number.
IsNumber(target) == Len(target.nums) = 1 /\ ~target.v /\ target.suffix = ""
Replaceable(text, target) == Parses(text) /\ IsNumber(target)

ReplaceMajor(text, target, eco) ==
    IF ~Replaceable(text, target) THEN text
    ELSE Format([ParseVersion(text, eco) EXCEPT !.major = target.nums[1]])

\* Mutant of ReplaceMinor: a version of one number stays one.
ReplaceMinorUnpadded(text, target, eco) ==
    IF ~Replaceable(text, target) THEN text
    ELSE Format([ParseVersion(text, eco) EXCEPT !.minor = target.nums[1]])

ReplaceMinor(text, target, eco) ==
    IF ~Replaceable(text, target) THEN text
    ELSE Format(AtLeast(2, [ParseVersion(text, eco) EXCEPT !.minor = target.nums[1]]))

ReplacePatch(text, target, eco) ==
    IF ~Replaceable(text, target) THEN text
    ELSE Format(AtLeast(3, [ParseVersion(text, eco) EXCEPT !.patch = target.nums[1]]))

ApplyVersionStrategy(text, rule, eco) ==
    CASE rule.strategy = "pin"           -> rule.target
      [] rule.strategy = "nearest-minor" -> SnapToMinor(text, eco)
      [] rule.strategy = "nearest-major" -> SnapToMajor(text, eco)
      [] rule.strategy = "min"           -> ApplyMin(text, rule.target)
      [] rule.strategy = "max"           -> ApplyMax(text, rule.target)
      [] rule.strategy = "replace-major" -> ReplaceMajor(text, rule.target, eco)
      [] rule.strategy = "replace-minor" -> ReplaceMinor(text, rule.target, eco)
      [] rule.strategy = "replace-patch" -> ReplacePatch(text, rule.target, eco)
      [] OTHER                           -> text

\* A rule holds what its patterns match: ecosystems, names and versions.
MatchesRule(rule, eco, name, text) ==
    eco \in rule.ecosystems /\ name \in rule.names /\ text \in rule.versions

\* The first rule that matches; rename is the name it gives, or "" for none.
Apply(rules, eco, name, text) ==
    LET matching == {i \in DOMAIN rules : MatchesRule(rules[i], eco, name, text)}
    IN  IF matching = {}
        THEN [matched |-> FALSE, name |-> name, version |-> text, mode |-> "transparent"]
        ELSE LET rule == rules[CHOOSE i \in matching : \A j \in matching : i <= j]
             IN  [matched |-> TRUE, name |-> IF rule.rename = "" THEN name ELSE rule.rename,
                  version |-> ApplyVersionStrategy(text, rule, eco), mode |-> rule.mode]

Abs(n) == IF n < 0 THEN -n ELSE n

\* Mutant of Distance: a version below the target is not further away.
DistanceUnbiased(text, target, eco) ==
    LET a == ParseVersion(text, eco)
        t == ParseVersion(target, eco)
    IN  Abs(1000000 * (a.major - t.major) + 1000 * (a.minor - t.minor) + (a.patch - t.patch))

\* How far a version is from the target; one below it is further by one.
Distance(text, target, eco) ==
    LET a == ParseVersion(text, eco)
        t == ParseVersion(target, eco)
    IN  Abs(1000000 * (a.major - t.major) + 1000 * (a.minor - t.minor) + (a.patch - t.patch))
            + (IF Compare(text, target) < 0 THEN 1 ELSE 0)

SameMajor(a, b, eco) == ParseVersion(a, eco).major = ParseVersion(b, eco).major
SameMinor(a, b, eco) ==
    SameMajor(a, b, eco) /\ ParseVersion(a, eco).minor = ParseVersion(b, eco).minor

\* The first of the least distance: among the versions of the target's minor,
\* or else those of its major, or else all; as their places in the list.
Nearest(places, target, available, eco) ==
    CHOOSE i \in places : \A j \in places :
        LET near == Distance(available[i], target, eco)
            other == Distance(available[j], target, eco)
        IN  near < other \/ (near = other /\ i <= j)

FindClosestVersion(target, available, eco) ==
    LET parsed == {i \in DOMAIN available : Parses(available[i])}
        inMajor == {i \in parsed : SameMajor(available[i], target, eco)}
        inMinor == {i \in parsed : SameMinor(available[i], target, eco)}
        tier == IF inMinor # {} THEN inMinor ELSE IF inMajor # {} THEN inMajor ELSE parsed
    IN  IF ~Parses(target) \/ parsed = {} THEN Junk
        ELSE available[Nearest(tier, target, available, eco)]

ApplyWithAvailable(rules, eco, name, text, available) ==
    LET result == Apply(rules, eco, name, text)
        closest == FindClosestVersion(result.version, available, eco)
    IN  IF ~result.matched \/ result.version = text \/ result.version \in Range(available)
        THEN result
        ELSE IF closest # Junk THEN [result EXCEPT !.version = closest]
        ELSE [result EXCEPT !.version = text, !.matched = FALSE]
=============================================================================
