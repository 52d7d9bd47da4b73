-------------------------- MODULE RewriteCalls_proof --------------------------
(***************************************************************************)
(* Proofs about RewriteCalls, for versions of up to four numbers of any     *)
(* size: what the strategies of rewrite.go do to the order of versions and  *)
(* to their components, and which version of a list is taken.               *)
(***************************************************************************)
EXTENDS RewriteCalls, SequenceTheorems, WellFoundedInduction, TLAPS

\* A text as the parsers take it.
WellFormed(text) == text.nums \in Seq(Nat) /\ Len(text.nums) <= 4

\* The order of versions, spelled out: their numbers in turn, then the suffix.
NotAbove(a, b) ==
    \/ Num(a, 1) < Num(b, 1)
    \/ /\ Num(a, 1) = Num(b, 1)
       /\ \/ Num(a, 2) < Num(b, 2)
          \/ /\ Num(a, 2) = Num(b, 2)
             /\ \/ Num(a, 3) < Num(b, 3)
                \/ /\ Num(a, 3) = Num(b, 3)
                   /\ \/ Num(a, 4) < Num(b, 4)
                      \/ /\ Num(a, 4) = Num(b, 4)
                         /\ SuffixRank(a.suffix) <= SuffixRank(b.suffix)

-----------------------------------------------------------------------------
(* The order *)

LEMMA NumType ==
    ASSUME NEW text, WellFormed(text)
    PROVE  \A i \in 1..4 : Num(text, i) \in Nat
BY DEF WellFormed, Num

LEMMA RankType == \A suffix : SuffixRank(suffix) \in -1..1
BY DEF SuffixRank

LEMMA SignFacts ==
    \A n \in Int : /\ Sign(n) <= 0 <=> n <= 0
                   /\ Sign(n) < 0 <=> n < 0
                   /\ Sign(n) > 0 <=> n > 0
BY DEF Sign

\* Compare takes the first number that differs.
LEMMA FirstDiffers ==
    ASSUME NEW a, NEW b, Parses(a), Parses(b), NEW i \in 1..4, Num(a, i) # Num(b, i),
           \A j \in 1..4 : j < i => Num(a, j) = Num(b, j)
    PROVE  Compare(a, b) = Sign(Num(a, i) - Num(b, i))
<1> DEFINE differ == {k \in 1..4 : Num(a, k) # Num(b, k)}
           first == CHOOSE k \in differ : \A j \in differ : k <= j
<1>1. i \in differ /\ \A j \in differ : i <= j
    OBVIOUS
<1>2. first \in differ /\ \A j \in differ : first <= j
    BY <1>1
<1>3. first = i
    BY <1>1, <1>2
<1>4. Compare(a, b) = Sign(Num(a, first) - Num(b, first))
    BY <1>1 DEF Compare
<1> QED
    BY <1>3, <1>4

LEMMA NoneDiffers ==
    ASSUME NEW a, NEW b, Parses(a), Parses(b), \A j \in 1..4 : Num(a, j) = Num(b, j)
    PROVE  Compare(a, b) = Sign(SuffixRank(a.suffix) - SuffixRank(b.suffix))
<1>1. {k \in 1..4 : Num(a, k) # Num(b, k)} = {}
    OBVIOUS
<1> QED
    BY <1>1 DEF Compare

LEMMA CompareIsOrder ==
    ASSUME NEW a, NEW b, WellFormed(a), WellFormed(b), Parses(a), Parses(b)
    PROVE  /\ Compare(a, b) <= 0 <=> NotAbove(a, b)
           /\ Compare(a, b) < 0 <=> ~NotAbove(b, a)
           /\ Compare(a, b) > 0 <=> ~NotAbove(a, b)
<1>1. /\ Num(a, 1) \in Nat /\ Num(a, 2) \in Nat /\ Num(a, 3) \in Nat /\ Num(a, 4) \in Nat
      /\ Num(b, 1) \in Nat /\ Num(b, 2) \in Nat /\ Num(b, 3) \in Nat /\ Num(b, 4) \in Nat
      /\ SuffixRank(a.suffix) \in Int /\ SuffixRank(b.suffix) \in Int
    BY NumType, RankType
<1>2. CASE Num(a, 1) # Num(b, 1)
    <2>1. Compare(a, b) = Sign(Num(a, 1) - Num(b, 1))
        BY <1>2, FirstDiffers
    <2> QED
        BY <1>1, <1>2, <2>1, SignFacts DEF NotAbove
<1>3. CASE Num(a, 1) = Num(b, 1) /\ Num(a, 2) # Num(b, 2)
    <2>1. Compare(a, b) = Sign(Num(a, 2) - Num(b, 2))
        BY <1>3, FirstDiffers
    <2> QED
        BY <1>1, <1>3, <2>1, SignFacts DEF NotAbove
<1>4. CASE Num(a, 1) = Num(b, 1) /\ Num(a, 2) = Num(b, 2) /\ Num(a, 3) # Num(b, 3)
    <2>1. Compare(a, b) = Sign(Num(a, 3) - Num(b, 3))
        BY <1>4, FirstDiffers
    <2> QED
        BY <1>1, <1>4, <2>1, SignFacts DEF NotAbove
<1>5. CASE /\ Num(a, 1) = Num(b, 1) /\ Num(a, 2) = Num(b, 2) /\ Num(a, 3) = Num(b, 3)
           /\ Num(a, 4) # Num(b, 4)
    <2>1. Compare(a, b) = Sign(Num(a, 4) - Num(b, 4))
        BY <1>5, FirstDiffers
    <2> QED
        BY <1>1, <1>5, <2>1, SignFacts DEF NotAbove
<1>6. CASE /\ Num(a, 1) = Num(b, 1) /\ Num(a, 2) = Num(b, 2) /\ Num(a, 3) = Num(b, 3)
           /\ Num(a, 4) = Num(b, 4)
    <2>1. Compare(a, b) = Sign(SuffixRank(a.suffix) - SuffixRank(b.suffix))
        BY <1>6, NoneDiffers
    <2> QED
        BY <1>1, <1>6, <2>1, SignFacts DEF NotAbove
<1> QED
    BY <1>2, <1>3, <1>4, <1>5, <1>6

LEMMA OrderTransitive ==
    ASSUME NEW a, NEW b, NEW c, WellFormed(a), WellFormed(b), WellFormed(c),
           NotAbove(a, b), NotAbove(b, c)
    PROVE  NotAbove(a, c)
<1>1. \A x \in {a, b, c} : /\ Num(x, 1) \in Nat /\ Num(x, 2) \in Nat
                           /\ Num(x, 3) \in Nat /\ Num(x, 4) \in Nat
                           /\ SuffixRank(x.suffix) \in Int
    BY NumType, RankType
<1> QED
    BY <1>1 DEF NotAbove

LEMMA OrderTotal ==
    ASSUME NEW a, NEW b, WellFormed(a), WellFormed(b)
    PROVE  NotAbove(a, b) \/ NotAbove(b, a)
<1>1. \A x \in {a, b} : /\ Num(x, 1) \in Nat /\ Num(x, 2) \in Nat
                        /\ Num(x, 3) \in Nat /\ Num(x, 4) \in Nat
                        /\ SuffixRank(x.suffix) \in Int
    BY NumType, RankType
<1> QED
    BY <1>1 DEF NotAbove

-----------------------------------------------------------------------------
(* The texts the strategies give *)

\* A text with the components of pv, as many as it has segments.
Written(pv, text) ==
    /\ WellFormed(text) /\ Parses(text)
    /\ text.v = pv.prefix /\ text.suffix = pv.pre
    /\ Num(text, 1) = pv.major
    /\ Num(text, 2) = IF pv.segments >= 2 THEN pv.minor ELSE 0
    /\ Num(text, 3) = IF pv.segments = 3 THEN pv.patch ELSE 0
    /\ Num(text, 4) = 0

LEMMA FormatNums ==
    ASSUME NEW pv, pv.major \in Nat, pv.minor \in Nat, pv.patch \in Nat, pv.segments \in 1..3
    PROVE  Written(pv, Format(pv))
<1> DEFINE all == <<pv.major, pv.minor, pv.patch>>
           nums == SubSeq(all, 1, pv.segments)
<1>1. all \in Seq(Nat) /\ Len(all) = 3
    OBVIOUS
<1>2. /\ nums \in Seq(Nat) /\ Len(nums) = pv.segments
      /\ \A i \in 1..pv.segments : nums[i] = all[i]
    BY <1>1
<1>3. /\ all[1] = pv.major /\ all[2] = pv.minor /\ all[3] = pv.patch
    OBVIOUS
<1> HIDE DEF all
<1>4. Format(pv) = [v |-> pv.prefix, nums |-> nums, suffix |-> pv.pre]
    BY DEF Format, all
<1> HIDE DEF nums
<1>5. Format(pv).nums = nums /\ Format(pv).v = pv.prefix /\ Format(pv).suffix = pv.pre
    BY <1>4
<1>6. nums # <<>>
    BY <1>2
<1> QED
    BY <1>2, <1>3, <1>5, <1>6 DEF Written, WellFormed, Parses, Num

LEMMA LenFacts ==
    ASSUME NEW text, WellFormed(text), Parses(text) PROVE Len(text.nums) \in 1..4
<1>1. text.nums \in Seq(Nat) /\ text.nums # <<>>
    BY DEF WellFormed, Parses
<1> DEFINE n == Len(text.nums)
<1>2. n \in Nat \ {0}
    BY <1>1, EmptySeq
<1>3. n <= 4
    BY DEF WellFormed
<1> HIDE DEF n
<1>4. n \in 1..4
    BY <1>2, <1>3
<1> QED
    BY <1>4 DEF n

\* What either parser gives for a version.
LEMMA ParsedType ==
    ASSUME NEW text, WellFormed(text), Parses(text), NEW eco
    PROVE  LET pv == ParseVersion(text, eco)
           IN  /\ pv.major = Num(text, 1) /\ pv.minor = Num(text, 2)
               /\ pv.patch \in Nat /\ pv.segments \in 1..3 /\ pv.prefix = text.v
               /\ pv.major \in Nat /\ pv.minor \in Nat
<1>1. Len(text.nums) \in 1..4
    BY LenFacts
<1>2. Num(text, 1) \in Nat /\ Num(text, 2) \in Nat /\ Num(text, 3) \in Nat
    BY NumType
<1>3. CASE Semver(eco)
    BY <1>2, <1>3 DEF ParseVersion, ParseSemver
<1>4. CASE ~Semver(eco)
    BY <1>1, <1>2, <1>4 DEF ParseVersion, ExtractSegments
<1> QED
    BY <1>3, <1>4

\* A version the properties claim is read whole.
LEMMA ReadWhole ==
    ASSUME NEW text, WellFormed(text), Parses(text), NEW eco,
           Len(text.nums) <= 3, text.suffix # ".Final"
    PROVE  LET pv == ParseVersion(text, eco)
           IN  /\ pv.patch = Num(text, 3) /\ pv.pre = text.suffix
               /\ pv.segments < 2 => Num(text, 2) = 0
               /\ pv.segments < 3 => Num(text, 3) = 0
<1>l. Len(text.nums) \in 1..4
    BY LenFacts
<1>1. Len(text.nums) \in 1..3
    BY <1>l
<1>2. /\ Len(text.nums) < 2 => Num(text, 2) = 0
      /\ Len(text.nums) < 3 => Num(text, 3) = 0
    BY <1>1 DEF Num
<1>3. CASE Semver(eco)
    BY <1>3 DEF ParseVersion, ParseSemver
<1>4. CASE ~Semver(eco)
    <2> DEFINE n == Len(text.nums)
               pv == ParseVersion(text, eco)
    <2>1. n = 3 => pv.patch = Num(text, 3)
        BY <1>4 DEF ParseVersion, ExtractSegments
    <2>2. n < 3 => pv.patch = 0
        BY <1>1, <1>4 DEF ParseVersion, ExtractSegments
    <2>a. n < 3 => pv.segments = n
        BY <1>1, <1>4 DEF ParseVersion, ExtractSegments
    <2>b. n = 3 => pv.segments = 3
        BY <1>1, <1>4 DEF ParseVersion, ExtractSegments
    <2>4. pv.pre = text.suffix
        BY <1>4 DEF ParseVersion, ExtractSegments
    <2>5. n \in 1..3
        BY <1>1
    <2>7. (n < 2 => Num(text, 2) = 0) /\ (n < 3 => Num(text, 3) = 0)
        BY <1>2
    <2> HIDE DEF n, pv
    <2>3. pv.segments = n
        BY <2>a, <2>b, <2>5
    <2>6. pv.patch = Num(text, 3)
        BY <2>1, <2>2, <2>5, <2>7
    <2> QED
        BY <2>3, <2>4, <2>6, <2>7 DEF pv
<1> QED
    BY <1>3, <1>4

LEMMA ParsedFields ==
    ASSUME NEW text, NEW eco
    PROVE  ParseVersion(text, eco) \in
               [prefix : {text.v}, major : {Num(text, 1)}, minor : {Num(text, 2)},
                patch : {Num(text, 3), 0}, pre : {text.suffix, "Final"},
                segments : {ParseVersion(text, eco).segments}]
BY DEF ParseVersion, ParseSemver, ExtractSegments

\* A snapped version: three numbers and nothing after them.
Snapped(text, minor, snap) ==
    /\ WellFormed(snap) /\ Parses(snap)
    /\ Num(snap, 1) = Num(text, 1) /\ Num(snap, 2) = minor
    /\ Num(snap, 3) = 0 /\ Num(snap, 4) = 0
    /\ SuffixRank(snap.suffix) = 0

\* "" is neither of the suffixes that rank.
LEMMA NoSuffix == SuffixRank("") = 0
BY Zenon DEF SuffixRank

LEMMA SnapToMinorText ==
    ASSUME NEW text, WellFormed(text), Parses(text), NEW eco
    PROVE  /\ Snapped(text, Num(text, 2), SnapToMinor(text, eco))
           /\ SnapToMinor(text, eco) =
                  [v |-> text.v, nums |-> SubSeq(<<Num(text, 1), Num(text, 2), 0>>, 1, 3),
                   suffix |-> ""]
<1> DEFINE pv == ParseVersion(text, eco)
           snap == AtLeast(3, [pv EXCEPT !.patch = 0, !.pre = ""])
<1>1. /\ pv.major = Num(text, 1) /\ pv.minor = Num(text, 2) /\ pv.segments \in 1..3
      /\ pv.prefix = text.v /\ pv.major \in Nat /\ pv.minor \in Nat
    BY ParsedType
<1>2. /\ snap.major = pv.major /\ snap.minor = pv.minor /\ snap.patch = 0 /\ snap.pre = ""
      /\ snap.segments = 3 /\ snap.prefix = pv.prefix
    <2>1. pv \in [prefix : {text.v}, major : {Num(text, 1)}, minor : {Num(text, 2)},
                  patch : {Num(text, 3), 0}, pre : {text.suffix, "Final"},
                  segments : {pv.segments}]
        BY ParsedFields
    <2> HIDE DEF pv
    <2> QED
        BY <1>1, <2>1 DEF AtLeast
<1>3. SnapToMinor(text, eco) = Format(snap)
    BY DEF SnapToMinor
<1> HIDE DEF snap, pv
<1>s. snap.pre = "" /\ snap.prefix = text.v
    BY <1>1, <1>2, Zenon
<1>m. snap.major = Num(text, 1) /\ snap.patch = 0 /\ snap.segments = 3
    BY <1>1, <1>2, Zenon
<1>n. snap.minor = Num(text, 2)
    BY <1>1, <1>2, Zenon
<1>w. Written(snap, Format(snap))
    BY <1>m, <1>n, NumType, FormatNums
<1>r. SuffixRank(Format(snap).suffix) = 0
    <2>1. Format(snap).suffix = ""
        BY <1>s, <1>w, Zenon DEF Written
    <2> QED
        BY <2>1, NoSuffix, Zenon
<1>4. Snapped(text, Num(text, 2), Format(snap))
    BY <1>m, <1>n, <1>r, <1>w DEF Snapped, Written
<1>5. Format(snap) = [v |-> text.v, nums |-> SubSeq(<<Num(text, 1), Num(text, 2), 0>>, 1, 3),
                   suffix |-> ""]
    BY <1>m, <1>n, <1>s, Zenon DEF Format
<1> QED
    BY <1>3, <1>4, <1>5

LEMMA SnapToMajorText ==
    ASSUME NEW text, WellFormed(text), Parses(text), NEW eco
    PROVE  /\ Snapped(text, 0, SnapToMajor(text, eco))
           /\ SnapToMajor(text, eco) =
                  [v |-> text.v, nums |-> SubSeq(<<Num(text, 1), 0, 0>>, 1, 3), suffix |-> ""]
<1> DEFINE pv == ParseVersion(text, eco)
           snap == AtLeast(3, [pv EXCEPT !.minor = 0, !.patch = 0, !.pre = ""])
<1>1. /\ pv.major = Num(text, 1) /\ pv.segments \in 1..3
      /\ pv.prefix = text.v /\ pv.major \in Nat
    BY ParsedType
<1>2. /\ snap.major = pv.major /\ snap.minor = 0 /\ snap.patch = 0 /\ snap.pre = ""
      /\ snap.segments = 3 /\ snap.prefix = pv.prefix
    <2>1. pv \in [prefix : {text.v}, major : {Num(text, 1)}, minor : {Num(text, 2)},
                  patch : {Num(text, 3), 0}, pre : {text.suffix, "Final"},
                  segments : {pv.segments}]
        BY ParsedFields
    <2> HIDE DEF pv
    <2> QED
        BY <1>1, <2>1 DEF AtLeast
<1>3. SnapToMajor(text, eco) = Format(snap)
    BY DEF SnapToMajor
<1> HIDE DEF snap, pv
<1>s. snap.pre = "" /\ snap.prefix = text.v
    BY <1>1, <1>2, Zenon
<1>m. snap.major = Num(text, 1) /\ snap.patch = 0 /\ snap.segments = 3
    BY <1>1, <1>2, Zenon
<1>n. snap.minor = 0
    BY <1>2, Zenon
<1>w. Written(snap, Format(snap))
    BY <1>m, <1>n, NumType, FormatNums
<1>r. SuffixRank(Format(snap).suffix) = 0
    <2>1. Format(snap).suffix = ""
        BY <1>s, <1>w, Zenon DEF Written
    <2> QED
        BY <2>1, NoSuffix, Zenon
<1>4. Snapped(text, 0, Format(snap))
    BY <1>m, <1>n, <1>r, <1>w DEF Snapped, Written
<1>5. Format(snap) = [v |-> text.v, nums |-> SubSeq(<<Num(text, 1), 0, 0>>, 1, 3), suffix |-> ""]
    BY <1>m, <1>n, <1>s, Zenon DEF Format
<1> QED
    BY <1>3, <1>4, <1>5
\* What the two give, without the text of it.
LEMMA SnappedTexts ==
    ASSUME NEW text, WellFormed(text), Parses(text), NEW eco
    PROVE  /\ Snapped(text, Num(text, 2), SnapToMinor(text, eco))
           /\ Snapped(text, 0, SnapToMajor(text, eco))
BY SnapToMinorText, SnapToMajorText, Zenon

-----------------------------------------------------------------------------
(* The strategies keep the order *)

LEMMA SnapMinorOrder ==
    ASSUME NEW a, NEW b, NEW x, NEW y, WellFormed(a), WellFormed(b), NotAbove(a, b),
           Snapped(a, Num(a, 2), x), Snapped(b, Num(b, 2), y)
    PROVE  Compare(x, y) <= 0
<1>1. /\ Num(a, 1) \in Nat /\ Num(a, 2) \in Nat /\ Num(b, 1) \in Nat /\ Num(b, 2) \in Nat
      /\ SuffixRank(x.suffix) = 0 /\ SuffixRank(y.suffix) = 0
    BY NumType DEF Snapped
<1>2. NotAbove(x, y)
    BY <1>1 DEF NotAbove, Snapped
<1> QED
    BY <1>2, CompareIsOrder DEF Snapped

LEMMA SnapMajorOrder ==
    ASSUME NEW a, NEW b, NEW x, NEW y, WellFormed(a), WellFormed(b), NotAbove(a, b),
           Snapped(a, 0, x), Snapped(b, 0, y)
    PROVE  Compare(x, y) <= 0
<1>1. /\ Num(a, 1) \in Nat /\ Num(b, 1) \in Nat
      /\ SuffixRank(x.suffix) = 0 /\ SuffixRank(y.suffix) = 0
    BY NumType DEF Snapped
<1>2. NotAbove(x, y)
    BY <1>1 DEF NotAbove, Snapped
<1> QED
    BY <1>2, CompareIsOrder DEF Snapped

LEMMA BoundOrder ==
    ASSUME NEW a, NEW b, NEW target, WellFormed(a), WellFormed(b), WellFormed(target),
           Parses(a), Parses(b), Parses(target), Compare(a, b) <= 0
    PROVE  /\ Compare(ApplyMin(a, target), ApplyMin(b, target)) <= 0
           /\ Compare(ApplyMax(a, target), ApplyMax(b, target)) <= 0
<1>1. NotAbove(a, b) /\ NotAbove(target, target)
    BY CompareIsOrder, OrderTotal
<1>2. /\ NotAbove(target, a) => NotAbove(target, b)
      /\ NotAbove(b, target) => NotAbove(a, target)
    BY <1>1, OrderTransitive
<1>3. /\ NotAbove(a, target) \/ NotAbove(target, a)
      /\ NotAbove(b, target) \/ NotAbove(target, b)
    BY OrderTotal
<1>4. /\ ApplyMin(a, target) = IF NotAbove(target, a) THEN a ELSE target
      /\ ApplyMin(b, target) = IF NotAbove(target, b) THEN b ELSE target
    BY CompareIsOrder DEF ApplyMin
<1>5. /\ ApplyMax(a, target) = IF NotAbove(a, target) THEN a ELSE target
      /\ ApplyMax(b, target) = IF NotAbove(b, target) THEN b ELSE target
    BY CompareIsOrder DEF ApplyMax
<1>6. NotAbove(ApplyMin(a, target), ApplyMin(b, target))
    BY <1>1, <1>2, <1>3, <1>4
<1>7. NotAbove(ApplyMax(a, target), ApplyMax(b, target))
    BY <1>1, <1>2, <1>3, <1>5
<1>8. \A x, y \in {a, b, target} : NotAbove(x, y) => Compare(x, y) <= 0
    BY CompareIsOrder
<1> QED
    BY <1>4, <1>5, <1>6, <1>7, <1>8

-----------------------------------------------------------------------------
(* What Apply answers *)

LEMMA SnapStrategies ==
    ASSUME NEW text, NEW rule, NEW eco
    PROVE  /\ rule.strategy = "nearest-minor" =>
                  ApplyVersionStrategy(text, rule, eco) = SnapToMinor(text, eco)
           /\ rule.strategy = "nearest-major" =>
                  ApplyVersionStrategy(text, rule, eco) = SnapToMajor(text, eco)
BY DEF ApplyVersionStrategy

LEMMA BoundStrategies ==
    ASSUME NEW text, NEW rule, NEW eco
    PROVE  /\ rule.strategy = "min" =>
                  ApplyVersionStrategy(text, rule, eco) = ApplyMin(text, rule.target)
           /\ rule.strategy = "max" =>
                  ApplyVersionStrategy(text, rule, eco) = ApplyMax(text, rule.target)
BY DEF ApplyVersionStrategy

LEMMA ReplaceStrategies ==
    ASSUME NEW text, NEW rule, NEW eco
    PROVE  /\ rule.strategy = "replace-major" =>
                  ApplyVersionStrategy(text, rule, eco) = ReplaceMajor(text, rule.target, eco)
           /\ rule.strategy = "replace-minor" =>
                  ApplyVersionStrategy(text, rule, eco) = ReplaceMinor(text, rule.target, eco)
           /\ rule.strategy = "replace-patch" =>
                  ApplyVersionStrategy(text, rule, eco) = ReplacePatch(text, rule.target, eco)
BY DEF ApplyVersionStrategy

\* An engine of one rule answers what the rule's strategy makes of the text.
LEMMA OneRule ==
    ASSUME NEW rule, NEW eco, NEW name, NEW text, MatchesRule(rule, eco, name, text)
    PROVE  Apply(<<rule>>, eco, name, text).version = ApplyVersionStrategy(text, rule, eco)
<1> DEFINE rules == <<rule>>
           matching == {i \in DOMAIN rules : MatchesRule(rules[i], eco, name, text)}
           first == CHOOSE i \in matching : \A j \in matching : i <= j
<1>1. matching = {1} /\ rules[1] = rule
    OBVIOUS
<1>2. first = 1
    BY <1>1
<1> HIDE DEF rules
<1>3. Apply(rules, eco, name, text).version = ApplyVersionStrategy(text, rules[first], eco)
    BY <1>1, Zenon DEF Apply
<1> QED
    BY <1>1, <1>2, <1>3 DEF rules

LEMMA RuleFields ==
    /\ Rule.strategy = case.strategy /\ Rule.target = case.target
    /\ \A text \in Asked[case.eco][case.strategy] : MatchesRule(Rule, case.eco, "a", text)
BY Zenon DEF Rule, MatchesRule

-----------------------------------------------------------------------------
(* The strategies that replace a number *)

\* The parts of a text: its three numbers, its "v" and its suffix.
Parts(text, major, minor, patch, v, suffix) ==
    /\ Num(text, 1) = major /\ Num(text, 2) = minor /\ Num(text, 3) = patch
    /\ text.v = v /\ text.suffix = suffix

LEMMA TargetNumber ==
    ASSUME NEW target, WellFormed(target), IsNumber(target) PROVE target.nums[1] \in Nat
<1>1. Len(target.nums) = 1
    BY Zenon DEF IsNumber
<1> QED
    BY <1>1 DEF WellFormed

\* What the parsers give for a version that they read whole.
LEMMA WholeFields ==
    ASSUME NEW text, WellFormed(text), Parses(text), NEW eco,
           Len(text.nums) <= 3, text.suffix # ".Final", NEW pv, pv = ParseVersion(text, eco)
    PROVE  /\ pv \in [prefix : {text.v}, major : {Num(text, 1)}, minor : {Num(text, 2)},
                      patch : {Num(text, 3)}, pre : {text.suffix}, segments : 1..3]
           /\ pv.segments < 2 => Num(text, 2) = 0
           /\ pv.segments < 3 => Num(text, 3) = 0
           /\ Num(text, 1) \in Nat /\ Num(text, 2) \in Nat /\ Num(text, 3) \in Nat
<1>1. pv \in [prefix : {text.v}, major : {Num(text, 1)}, minor : {Num(text, 2)},
              patch : {Num(text, 3), 0}, pre : {text.suffix, "Final"},
              segments : {pv.segments}]
    BY ParsedFields
<1>2. pv.segments \in 1..3
    BY ParsedType
<1>3. /\ pv.patch = Num(text, 3) /\ pv.pre = text.suffix
      /\ pv.segments < 2 => Num(text, 2) = 0
      /\ pv.segments < 3 => Num(text, 3) = 0
    BY ReadWhole
<1> QED
    BY <1>1, <1>2, <1>3, NumType

LEMMA ReplaceOne ==
    ASSUME NEW text, WellFormed(text), Parses(text), NEW eco,
           Len(text.nums) <= 3, text.suffix # ".Final",
           NEW target, WellFormed(target), IsNumber(target), NEW n, n = target.nums[1]
    PROVE  /\ Parts(ReplaceMajor(text, target, eco), n, Num(text, 2), Num(text, 3),
                    text.v, text.suffix)
           /\ Parts(ReplaceMinor(text, target, eco), Num(text, 1), n, Num(text, 3),
                    text.v, text.suffix)
           /\ Parts(ReplacePatch(text, target, eco), Num(text, 1), Num(text, 2), n,
                    text.v, text.suffix)
<1> DEFINE pv == ParseVersion(text, eco)
           newMajor == [pv EXCEPT !.major = n]
           newMinor == AtLeast(2, [pv EXCEPT !.minor = n])
           newPatch == AtLeast(3, [pv EXCEPT !.patch = n])
<1>n. n \in Nat
    BY TargetNumber
<1>p. /\ pv \in [prefix : {text.v}, major : {Num(text, 1)}, minor : {Num(text, 2)},
                 patch : {Num(text, 3)}, pre : {text.suffix}, segments : 1..3]
      /\ pv.segments < 2 => Num(text, 2) = 0
      /\ pv.segments < 3 => Num(text, 3) = 0
      /\ Num(text, 1) \in Nat /\ Num(text, 2) \in Nat /\ Num(text, 3) \in Nat
    BY WholeFields
<1>1. /\ ReplaceMajor(text, target, eco) = Format(newMajor)
      /\ ReplaceMinor(text, target, eco) = Format(newMinor)
      /\ ReplacePatch(text, target, eco) = Format(newPatch)
    BY Zenon DEF ReplaceMajor, ReplaceMinor, ReplacePatch, Replaceable
<1> HIDE DEF pv
<1>2. Parts(Format(newMajor), n, Num(text, 2), Num(text, 3), text.v, text.suffix)
    <2>1. newMajor \in [prefix : {text.v}, major : {n}, minor : {Num(text, 2)},
                        patch : {Num(text, 3)}, pre : {text.suffix}, segments : {pv.segments}]
        BY <1>p
    <2> HIDE DEF newMajor
    <2>2. Written(newMajor, Format(newMajor))
        BY <1>n, <1>p, <2>1, FormatNums
    <2> QED
        BY <1>p, <2>1, <2>2 DEF Written, Parts
<1>3. Parts(Format(newMinor), Num(text, 1), n, Num(text, 3), text.v, text.suffix)
    <2>1. newMinor \in [prefix : {text.v}, major : {Num(text, 1)}, minor : {n},
                        patch : {Num(text, 3)}, pre : {text.suffix},
                        segments : {IF pv.segments < 2 THEN 2 ELSE pv.segments}]
        BY <1>p DEF AtLeast
    <2> HIDE DEF newMinor
    <2>2. Written(newMinor, Format(newMinor))
        BY <1>n, <1>p, <2>1, FormatNums
    <2> QED
        BY <1>p, <2>1, <2>2 DEF Written, Parts
<1>4. Parts(Format(newPatch), Num(text, 1), Num(text, 2), n, text.v, text.suffix)
    <2>1. newPatch \in [prefix : {text.v}, major : {Num(text, 1)}, minor : {Num(text, 2)},
                        patch : {n}, pre : {text.suffix},
                        segments : {IF pv.segments < 3 THEN 3 ELSE pv.segments}]
        BY <1>p DEF AtLeast
    <2> HIDE DEF newPatch
    <2>2. Written(newPatch, Format(newPatch))
        BY <1>n, <1>p, <2>1, FormatNums
    <2> QED
        BY <1>p, <2>1, <2>2 DEF Written, Parts
<1> QED
    BY <1>1, <1>2, <1>3, <1>4

-----------------------------------------------------------------------------
(* The engines *)

\* What is known of an engine: each answer is its strategy's rewrite of a text
\* it was asked about.
GivenInv ==
    /\ case \in Cases
    /\ \A p \in given : /\ p[1] \in Asked[case.eco][case.strategy]
                        /\ p[2] = ApplyVersionStrategy(p[1], Rule, case.eco)

LEMMA GivenInit == Init => GivenInv
BY DEF Init, GivenInv

LEMMA GivenStep == GivenInv /\ [Next]_vars => GivenInv'
<1> SUFFICES ASSUME GivenInv, [Next]_vars PROVE GivenInv'
    OBVIOUS
<1> USE DEF GivenInv
<1>1. CASE CallApply
    <2>1. PICK text \in Asked[case.eco][case.strategy] :
              given' = given \cup {<<text, Apply(<<Rule>>, case.eco, "a", text).version>>}
        BY <1>1 DEF CallApply
    <2>2. case' = case
        BY <1>1 DEF CallApply
    <2>3. Rule' = Rule
        BY <2>2, Zenon DEF Rule
    <2>4. Apply(<<Rule>>, case.eco, "a", text).version
              = ApplyVersionStrategy(text, Rule, case.eco)
        BY OneRule, RuleFields
    <2> QED
        BY <2>1, <2>2, <2>3, <2>4
<1>2. CASE CallApplyWithAvailable
    <2>1. case' = case /\ given' = given
        BY <1>2 DEF CallApplyWithAvailable
    <2>2. Rule' = Rule
        BY <2>1, Zenon DEF Rule
    <2> QED
        BY <2>1, <2>2
<1>3. CASE UNCHANGED vars
    <2>1. case' = case /\ given' = given
        BY <1>3 DEF vars
    <2>2. Rule' = Rule
        BY <2>1, Zenon DEF Rule
    <2> QED
        BY <2>1, <2>2
<1> QED
    BY <1>1, <1>2, <1>3 DEF Next

\* The texts of an engine are such as the parsers take.
LEMMA GivenTexts ==
    ASSUME GivenInv
    PROVE  WellFormed(case.target) /\ \A p \in given : WellFormed(p[1])
BY TextAssumption, Zenon DEF GivenInv, WellFormed

LEMMA OrderKept == GivenInv => RewriteKeepsOrder
<1> SUFFICES ASSUME GivenInv,
                    Snaps \/ (case.strategy \in {"min", "max"} /\ Parses(case.target)),
                    NEW p \in given, NEW q \in given,
                    Parses(p[1]), Parses(q[1]), Compare(p[1], q[1]) <= 0
             PROVE  Compare(p[2], q[2]) <= 0
    BY Zenon DEF RewriteKeepsOrder
<1>1. WellFormed(p[1]) /\ WellFormed(q[1]) /\ WellFormed(case.target)
    BY GivenTexts
<1>2. /\ p[2] = ApplyVersionStrategy(p[1], Rule, case.eco)
      /\ q[2] = ApplyVersionStrategy(q[1], Rule, case.eco)
    BY DEF GivenInv
<1>3. NotAbove(p[1], q[1])
    BY <1>1, CompareIsOrder
<1>4. CASE case.strategy = "nearest-minor"
    <2>1. /\ Snapped(p[1], Num(p[1], 2), p[2])
          /\ Snapped(q[1], Num(q[1], 2), q[2])
        BY <1>1, <1>2, <1>4, RuleFields, SnapStrategies, SnappedTexts
    <2> QED
        BY <1>1, <1>3, <2>1, SnapMinorOrder
<1>5. CASE case.strategy = "nearest-major"
    <2>1. Snapped(p[1], 0, p[2]) /\ Snapped(q[1], 0, q[2])
        BY <1>1, <1>2, <1>5, RuleFields, SnapStrategies, SnappedTexts
    <2> QED
        BY <1>1, <1>3, <2>1, SnapMajorOrder
<1>6. CASE case.strategy \in {"min", "max"} /\ Parses(case.target)
    <2>1. /\ Compare(ApplyMin(p[1], case.target), ApplyMin(q[1], case.target)) <= 0
          /\ Compare(ApplyMax(p[1], case.target), ApplyMax(q[1], case.target)) <= 0
        BY <1>1, <1>6, BoundOrder
    <2> QED
        BY <1>2, <1>6, <2>1, RuleFields, BoundStrategies
<1> QED
    BY <1>4, <1>5, <1>6, Zenon DEF Snaps

LEMMA OneText == GivenInv => LineSnapsToOne
<1> SUFFICES ASSUME GivenInv, Snaps, NEW p \in given, NEW q \in given,
                    Parses(p[1]), Parses(q[1]), p[1].v = q[1].v,
                    IF case.strategy = "nearest-minor" THEN SameMinor(p[1], q[1], case.eco)
                                                       ELSE SameMajor(p[1], q[1], case.eco)
             PROVE  p[2] = q[2]
    BY Zenon DEF LineSnapsToOne
<1>1. WellFormed(p[1]) /\ WellFormed(q[1])
    BY GivenTexts
<1>2. /\ p[2] = ApplyVersionStrategy(p[1], Rule, case.eco)
      /\ q[2] = ApplyVersionStrategy(q[1], Rule, case.eco)
    BY DEF GivenInv
<1>3. Num(p[1], 1) = Num(q[1], 1)
    BY <1>1, ParsedType DEF SameMinor, SameMajor
<1>4. CASE case.strategy = "nearest-minor"
    <2>1. Num(p[1], 2) = Num(q[1], 2)
        BY <1>1, <1>4, ParsedType DEF SameMinor
    <2>2. p[2] = SnapToMinor(p[1], case.eco) /\ q[2] = SnapToMinor(q[1], case.eco)
        BY <1>2, <1>4, RuleFields, SnapStrategies
    <2> QED
        BY <1>1, <1>3, <2>1, <2>2, SnapToMinorText, Zenon
<1>5. CASE case.strategy = "nearest-major"
    <2>1. p[2] = SnapToMajor(p[1], case.eco) /\ q[2] = SnapToMajor(q[1], case.eco)
        BY <1>2, <1>5, RuleFields, SnapStrategies
    <2> QED
        BY <1>1, <1>3, <2>1, SnapToMajorText, Zenon
<1> QED
    BY <1>4, <1>5, Zenon DEF Snaps

LEMMA OthersKept == GivenInv => ReplacesJustOne
<1> SUFFICES ASSUME GivenInv, NEW p \in given, IsNumber(case.target), Parses(p[1]),
                    Len(p[1].nums) <= 3, p[1].suffix # ".Final", NEW n, n = case.target.nums[1]
             PROVE  /\ case.strategy = "replace-major" =>
                           Parts(p[2], n, Num(p[1], 2), Num(p[1], 3), p[1].v, p[1].suffix)
                    /\ case.strategy = "replace-minor" =>
                           Parts(p[2], Num(p[1], 1), n, Num(p[1], 3), p[1].v, p[1].suffix)
                    /\ case.strategy = "replace-patch" =>
                           Parts(p[2], Num(p[1], 1), Num(p[1], 2), n, p[1].v, p[1].suffix)
    BY Zenon DEF ReplacesJustOne, Parts
<1>1. WellFormed(p[1]) /\ WellFormed(case.target)
    BY GivenTexts
<1>2. p[2] = ApplyVersionStrategy(p[1], Rule, case.eco)
    BY DEF GivenInv
<1>3. /\ Parts(ReplaceMajor(p[1], case.target, case.eco), n, Num(p[1], 2), Num(p[1], 3),
               p[1].v, p[1].suffix)
      /\ Parts(ReplaceMinor(p[1], case.target, case.eco), Num(p[1], 1), n, Num(p[1], 3),
               p[1].v, p[1].suffix)
      /\ Parts(ReplacePatch(p[1], case.target, case.eco), Num(p[1], 1), Num(p[1], 2), n,
               p[1].v, p[1].suffix)
    BY <1>1, ReplaceOne
<1> QED
    BY <1>2, <1>3, RuleFields, ReplaceStrategies

\* Versions in order stay in order when a rule of the engine (rewrite.go:154)
\* snaps them or bounds them by a version, of whatever numbers they are.
THEOREM OrderIsKept == Spec => []RewriteKeepsOrder
<1>1. Spec => []GivenInv
    BY GivenInit, GivenStep, PTL DEF Spec
<1> QED
    BY <1>1, OrderKept, PTL

\* All versions of a line are snapped to one text (rewrite.go:178, 192).
THEOREM LineHasOneText == Spec => []LineSnapsToOne
<1>1. Spec => []GivenInv
    BY GivenInit, GivenStep, PTL DEF Spec
<1> QED
    BY <1>1, OneText, PTL

\* A rule that replaces a number leaves the other numbers, the suffix and the "v"
\* of a version of up to three numbers as they were (rewrite.go:224-269).
THEOREM OneIsReplaced == Spec => []ReplacesJustOne
<1>1. Spec => []GivenInv
    BY GivenInit, GivenStep, PTL DEF Spec
<1> QED
    BY <1>1, OthersKept, PTL

-----------------------------------------------------------------------------
(* The version taken from a registry's list *)

LEMMA LeastNumber ==
    ASSUME NEW S \in SUBSET Nat, S # {}
    PROVE  \E n \in S : \A m \in S : n <= m
<1> DEFINE Less == {p \in Nat \X Nat : p[1] < p[2]}
<1>1. IsWellFoundedOn(Less, Nat)
    BY NatLessThanWellFounded, Zenon DEF OpToRel
<1> HIDE DEF Less
<1>2. PICK n \in S : \A m \in S : ~(<<m, n>> \in Less)
    BY <1>1, WFMin
<1>3. \A m \in S : ~(m < n)
    BY <1>2 DEF Less
<1> QED
    BY <1>2, <1>3

\* The distance is a number, and in the target's minor that of the patches, with
\* the penalty of a version below it.
LEMMA DistanceIs ==
    ASSUME NEW text, NEW target, WellFormed(text), WellFormed(target),
           Parses(text), Parses(target), NEW eco
    PROVE  /\ Distance(text, target, eco) \in Nat
           /\ SameMinor(text, target, eco) =>
                Distance(text, target, eco) =
                    Abs(ParseVersion(text, eco).patch - ParseVersion(target, eco).patch)
                      + (IF Compare(text, target) < 0 THEN 1 ELSE 0)
<1> DEFINE a == ParseVersion(text, eco)
           t == ParseVersion(target, eco)
<1>1. /\ a.major \in Nat /\ a.minor \in Nat /\ a.patch \in Nat
      /\ t.major \in Nat /\ t.minor \in Nat /\ t.patch \in Nat
    BY ParsedType
<1>2. Distance(text, target, eco) =
          Abs(1000000 * (a.major - t.major) + 1000 * (a.minor - t.minor) + (a.patch - t.patch))
            + (IF Compare(text, target) < 0 THEN 1 ELSE 0)
    BY DEF Distance
<1>3. SameMinor(text, target, eco) => a.major = t.major /\ a.minor = t.minor
    BY DEF SameMinor, SameMajor
<1> HIDE DEF a, t
<1>4. \A n \in Int : Abs(n) \in Nat
    BY DEF Abs
<1>5. 1000000 * (a.major - t.major) + 1000 * (a.minor - t.minor) + (a.patch - t.patch) \in Int
    BY <1>1
<1>6. Distance(text, target, eco) \in Nat
    BY <1>2, <1>4, <1>5
<1>7. ASSUME a.major = t.major, a.minor = t.minor
      PROVE  1000000 * (a.major - t.major) + 1000 * (a.minor - t.minor) + (a.patch - t.patch)
                = a.patch - t.patch
    BY <1>1, <1>7
<1> QED
    BY <1>2, <1>3, <1>6, <1>7 DEF a, t

LEMMA NearestIs ==
    ASSUME NEW places \in SUBSET Nat, places # {}, NEW target, NEW available, NEW eco,
           \A i \in places : Distance(available[i], target, eco) \in Nat
    PROVE  LET n == Nearest(places, target, available, eco)
           IN  /\ n \in places
               /\ \A j \in places : Distance(available[n], target, eco)
                                        <= Distance(available[j], target, eco)
<1> DEFINE D(i) == Distance(available[i], target, eco)
           First(i) == \A j \in places : D(i) < D(j) \/ (D(i) = D(j) /\ i <= j)
           ds == {D(i) : i \in places}
<1>1. PICK d \in ds : \A e \in ds : d <= e
    <2>1. ds \in SUBSET Nat /\ ds # {}
        OBVIOUS
    <2> HIDE DEF ds
    <2> QED
        BY <2>1, LeastNumber
<1> DEFINE is == {i \in places : D(i) = d}
<1>2. PICK i \in is : \A j \in is : i <= j
    <2>1. is \in SUBSET Nat /\ is # {}
        BY <1>1
    <2> HIDE DEF is
    <2> QED
        BY <2>1, LeastNumber
<1>3. First(i) /\ i \in places
    <2> SUFFICES ASSUME NEW j \in places PROVE D(i) < D(j) \/ (D(i) = D(j) /\ i <= j)
        BY <1>2
    <2>1. D(i) = d /\ D(j) \in Nat /\ D(i) \in Nat /\ d <= D(j)
        BY <1>1, <1>2
    <2>2. D(j) = d => i <= j
        BY <1>2
    <2> HIDE DEF D
    <2> QED
        BY <2>1, <2>2
<1>4. Nearest(places, target, available, eco) = CHOOSE k \in places : First(k)
    BY DEF Nearest
<1> DEFINE n == CHOOSE k \in places : First(k)
<1>5. n \in places /\ First(n)
    BY <1>3
<1> HIDE DEF n
<1>6. \A j \in places : D(n) <= D(j)
    <2> SUFFICES ASSUME NEW j \in places PROVE D(n) <= D(j)
        OBVIOUS
    <2>1. D(n) \in Nat /\ D(j) \in Nat /\ (D(n) < D(j) \/ D(n) = D(j))
        BY <1>5
    <2> HIDE DEF D
    <2> QED
        BY <2>1
<1> QED
    BY <1>4, <1>5, <1>6 DEF n

\* A list of texts as a registry offers it.
Offerable(available) ==
    DOMAIN available \subseteq Nat /\ \A i \in DOMAIN available : WellFormed(available[i])

LEMMA ClosestIs ==
    ASSUME NEW target, WellFormed(target), Parses(target), NEW available, Offerable(available),
           NEW eco, \E i \in DOMAIN available : Parses(available[i])
    PROVE  \E i \in DOMAIN available :
             /\ FindClosestVersion(target, available, eco) = available[i] /\ Parses(available[i])
             /\ \A j \in DOMAIN available : Parses(available[j]) =>
                  /\ SameMajor(available[j], target, eco) => SameMajor(available[i], target, eco)
                  /\ SameMinor(available[j], target, eco) =>
                        /\ SameMinor(available[i], target, eco)
                        /\ Distance(available[i], target, eco) <= Distance(available[j], target, eco)
<1> DEFINE parsed == {i \in DOMAIN available : Parses(available[i])}
           inMajor == {i \in parsed : SameMajor(available[i], target, eco)}
           inMinor == {i \in parsed : SameMinor(available[i], target, eco)}
           tier == IF inMinor # {} THEN inMinor ELSE IF inMajor # {} THEN inMajor ELSE parsed
           n == Nearest(tier, target, available, eco)
<1>1. parsed # {} /\ inMinor \subseteq inMajor /\ inMajor \subseteq parsed /\ parsed \subseteq Nat
    BY DEF SameMinor, Offerable
<1>2. tier # {} /\ tier \in SUBSET Nat /\ tier \subseteq parsed
    BY <1>1
<1>3. \A i \in parsed : Distance(available[i], target, eco) \in Nat
    BY DistanceIs DEF Offerable
<1>4. FindClosestVersion(target, available, eco) = available[n]
    BY <1>1 DEF FindClosestVersion
<1>5. \A i \in tier : Distance(available[i], target, eco) \in Nat
    BY <1>2, <1>3
<1>6. n \in tier /\ \A j \in tier : Distance(available[n], target, eco)
                                        <= Distance(available[j], target, eco)
    <2> HIDE DEF tier
    <2> QED
        BY <1>2, <1>5, NearestIs
<1> HIDE DEF n
<1>7. n \in DOMAIN available /\ Parses(available[n])
    BY <1>2, <1>6
<1>8. inMajor # {} => SameMajor(available[n], target, eco)
    BY <1>1, <1>6
<1>9. inMinor # {} => SameMinor(available[n], target, eco) /\ tier = inMinor
    BY <1>6
<1> HIDE DEF tier
<1>10. ASSUME NEW j \in DOMAIN available, Parses(available[j])
       PROVE  /\ SameMajor(available[j], target, eco) => SameMajor(available[n], target, eco)
              /\ SameMinor(available[j], target, eco) =>
                    /\ SameMinor(available[n], target, eco)
                    /\ Distance(available[n], target, eco) <= Distance(available[j], target, eco)
    BY <1>6, <1>8, <1>9, <1>10
<1> QED
    BY <1>4, <1>7, <1>10

\* What a strategy makes of a text is a text the parsers take.
LEMMA FormattedText ==
    ASSUME NEW pv, pv.major \in Nat, pv.minor \in Nat, pv.patch \in Nat, pv.segments \in 1..3
    PROVE  WellFormed(Format(pv))
BY FormatNums DEF Written

LEMMA StrategyText ==
    ASSUME NEW text, NEW rule, NEW eco, WellFormed(text), WellFormed(rule.target)
    PROVE  WellFormed(ApplyVersionStrategy(text, rule, eco))
<1> DEFINE pv == ParseVersion(text, eco)
           result == ApplyVersionStrategy(text, rule, eco)
           target == rule.target
<1>1. ASSUME Parses(text)
      PROVE  /\ pv.major \in Nat /\ pv.minor \in Nat /\ pv.patch \in Nat /\ pv.segments \in 1..3
             /\ pv \in [prefix : {pv.prefix}, major : Nat, minor : Nat, patch : Nat,
                        pre : {pv.pre}, segments : 1..3]
    BY <1>1, ParsedType, ParsedFields
<1>2. WellFormed(SnapToMinor(text, eco))
    <2>1. CASE Parses(text)
        <3> DEFINE snapped == [pv EXCEPT !.patch = 0, !.pre = ""]
                   all == AtLeast(3, snapped)
        <3>1. snapped.major = pv.major /\ snapped.minor = pv.minor /\ snapped.patch = 0
              /\ snapped.segments = pv.segments
            BY <1>1, <2>1
        <3>2. all.major \in Nat /\ all.minor \in Nat /\ all.patch \in Nat /\ all.segments \in 1..3
            BY <1>1, <2>1, <3>1 DEF AtLeast
        <3> HIDE DEF all
        <3>3. WellFormed(Format(all))
            BY <3>2, FormattedText
        <3> QED
            BY <2>1, <3>3 DEF SnapToMinor, all
    <2>2. CASE ~Parses(text)
        BY <2>2 DEF SnapToMinor
    <2> QED
        BY <2>1, <2>2
<1>3. WellFormed(SnapToMajor(text, eco))
    <2>1. CASE Parses(text)
        <3> DEFINE snapped == [pv EXCEPT !.minor = 0, !.patch = 0, !.pre = ""]
                   all == AtLeast(3, snapped)
        <3>1. snapped.major = pv.major /\ snapped.minor = 0 /\ snapped.patch = 0
              /\ snapped.segments = pv.segments
            BY <1>1, <2>1
        <3>2. all.major \in Nat /\ all.minor \in Nat /\ all.patch \in Nat /\ all.segments \in 1..3
            BY <1>1, <2>1, <3>1 DEF AtLeast
        <3> HIDE DEF all
        <3>3. WellFormed(Format(all))
            BY <3>2, FormattedText
        <3> QED
            BY <2>1, <3>3 DEF SnapToMajor, all
    <2>2. CASE ~Parses(text)
        BY <2>2 DEF SnapToMajor
    <2> QED
        BY <2>1, <2>2
<1>4. WellFormed(ApplyMin(text, target)) /\ WellFormed(ApplyMax(text, target))
    BY DEF ApplyMin, ApplyMax
<1>5. ASSUME Replaceable(text, target), NEW field \in {"major", "minor", "patch"}, NEW n \in 1..3
      PROVE  LET replaced == [pv EXCEPT ![field] = target.nums[1]]
             IN  WellFormed(Format(replaced)) /\ WellFormed(Format(AtLeast(n, replaced)))
    <2> DEFINE number == target.nums[1]
               replaced == [pv EXCEPT ![field] = number]
               all == AtLeast(n, replaced)
    <2>1. number \in Nat /\ Parses(text)
        BY <1>5, TargetNumber DEF Replaceable
    <2>2. /\ replaced.major \in {pv.major, number} /\ replaced.minor \in {pv.minor, number}
          /\ replaced.patch \in {pv.patch, number} /\ replaced.segments = pv.segments
        <3> HIDE DEF number
        <3> QED
            BY <1>1, <1>5, <2>1
    <2>3. /\ replaced.major \in Nat /\ replaced.minor \in Nat /\ replaced.patch \in Nat
          /\ replaced.segments \in 1..3
        BY <1>1, <2>1, <2>2
    <2>4. all.major \in Nat /\ all.minor \in Nat /\ all.patch \in Nat /\ all.segments \in 1..3
        <3> HIDE DEF number
        <3> QED
            BY <1>1, <1>5, <2>1, <2>3 DEF AtLeast
    <2> HIDE DEF replaced, all
    <2>5. WellFormed(Format(replaced)) /\ WellFormed(Format(all))
        BY <2>3, <2>4, FormattedText
    <2> QED
        BY <2>5 DEF replaced, all
<1>6. WellFormed(ReplaceMajor(text, target, eco))
    <2>1. CASE Replaceable(text, target)
        <3> DEFINE replaced == [pv EXCEPT !["major"] = target.nums[1]]
        <3>0. WellFormed(Format(replaced)) /\ WellFormed(Format(AtLeast(2, replaced)))
            BY <1>5, <2>1, 2 \in 1..3
        <3> HIDE DEF pv
        <3>1. WellFormed(Format([pv EXCEPT !.major = target.nums[1]]))
            BY <3>0
        <3>2. ReplaceMajor(text, target, eco) = Format([pv EXCEPT !.major = target.nums[1]])
            BY <2>1 DEF ReplaceMajor, pv
        <3> QED
            BY <3>1, <3>2
    <2>2. CASE ~Replaceable(text, target)
        BY <2>2 DEF ReplaceMajor
    <2> QED
        BY <2>1, <2>2
<1>7. WellFormed(ReplaceMinor(text, target, eco))
    <2>1. CASE Replaceable(text, target)
        <3> DEFINE replaced == [pv EXCEPT !["minor"] = target.nums[1]]
        <3>0. WellFormed(Format(replaced)) /\ WellFormed(Format(AtLeast(2, replaced)))
            BY <1>5, <2>1, 2 \in 1..3
        <3> HIDE DEF pv
        <3>1. WellFormed(Format(AtLeast(2, [pv EXCEPT !.minor = target.nums[1]])))
            BY <3>0
        <3>2. ReplaceMinor(text, target, eco) = Format(AtLeast(2, [pv EXCEPT !.minor = target.nums[1]]))
            BY <2>1 DEF ReplaceMinor, pv
        <3> QED
            BY <3>1, <3>2
    <2>2. CASE ~Replaceable(text, target)
        BY <2>2 DEF ReplaceMinor
    <2> QED
        BY <2>1, <2>2
<1>8. WellFormed(ReplacePatch(text, target, eco))
    BY <1>5 DEF ReplacePatch
<1> QED
    BY <1>2, <1>3, <1>4, <1>6, <1>7, <1>8 DEF ApplyVersionStrategy

\* What is known of an answer that was checked against a list.
CheckedInv ==
    /\ case \in Cases
    /\ \A i \in DOMAIN checked :
         LET call == checked[i]
         IN  /\ call.text \in Asked[case.eco][case.strategy]
             /\ call.available \in Offers[case.strategy]
             /\ call.result = ApplyWithAvailable(<<Rule>>, case.eco, "a", call.text, call.available)

LEMMA CheckedStep == CheckedInv /\ [Next]_vars => CheckedInv'
<1> SUFFICES ASSUME CheckedInv, [Next]_vars PROVE CheckedInv'
    OBVIOUS
<1>0. case' = case
    BY DEF Next, CallApply, CallApplyWithAvailable, vars
<1>1. Rule' = Rule
    BY <1>0, Zenon DEF Rule
<1>2. CASE CallApplyWithAvailable
    <2>1. PICK text \in Asked[case.eco][case.strategy], available \in Offers[case.strategy] :
            checked' = <<[text |-> text, available |-> available,
                          result |-> ApplyWithAvailable(<<Rule>>, case.eco, "a", text, available)]>>
        BY <1>2 DEF CallApplyWithAvailable
    <2> DEFINE result == ApplyWithAvailable(<<Rule>>, case.eco, "a", text, available)
               call == [text |-> text, available |-> available, result |-> result]
    <2>2. call.text = text /\ call.available = available /\ call.result = result
        OBVIOUS
    <2>3. checked' = <<call>>
        BY <2>1
    <2> HIDE DEF call
    <2>4. DOMAIN checked' = {1} /\ checked'[1] = call
        BY <2>3
    <2> QED
        BY <1>0, <1>1, <2>2, <2>4 DEF CheckedInv
<1>3. CASE UNCHANGED checked
    BY <1>0, <1>1, <1>3 DEF CheckedInv
<1> QED
    BY <1>2, <1>3 DEF Next, CallApply, vars

\* The answer, told apart as ApplyWithAvailable does.
LEMMA AnswerIs ==
    ASSUME NEW rule, NEW eco, NEW name, NEW text, MatchesRule(rule, eco, name, text), NEW available
    PROVE  LET target == ApplyVersionStrategy(text, rule, eco)
               closest == FindClosestVersion(target, available, eco)
               result == ApplyWithAvailable(<<rule>>, eco, name, text, available)
               offered == \E i \in DOMAIN available : available[i] = target
           IN  /\ Apply(<<rule>>, eco, name, text).version = target
               /\ target = text \/ offered => result.version = target
               /\ target # text /\ ~offered /\ closest # Junk => result.version = closest
               /\ target # text /\ ~offered /\ closest = Junk =>
                      result.version = text /\ ~result.matched
<1> DEFINE rules == <<rule>>
           matching == {i \in DOMAIN rules : MatchesRule(rules[i], eco, name, text)}
           first == CHOOSE i \in matching : \A j \in matching : i <= j
           target == ApplyVersionStrategy(text, rule, eco)
           closest == FindClosestVersion(target, available, eco)
           named == IF rule.rename = "" THEN name ELSE rule.rename
           applied == [matched |-> TRUE, name |-> named, version |-> target, mode |-> rule.mode]
           offered == \E i \in DOMAIN available : available[i] = target
<1>1. matching = {1} /\ rules[1] = rule
    OBVIOUS
<1>2. first = 1
    BY <1>1
<1>3. Apply(rules, eco, name, text) = applied
    <2> HIDE DEF rules
    <2>1. Apply(rules, eco, name, text) =
              [matched |-> TRUE,
               name |-> IF rules[first].rename = "" THEN name ELSE rules[first].rename,
               version |-> ApplyVersionStrategy(text, rules[first], eco), mode |-> rules[first].mode]
        BY <1>1, Zenon DEF Apply
    <2> QED
        BY <1>1, <1>2, <2>1
<1> HIDE DEF named, target, closest, rules
<1>4. applied.matched = TRUE /\ applied.version = target
    OBVIOUS
<1>5. /\ [applied EXCEPT !.version = closest].version = closest
      /\ [applied EXCEPT !.version = text, !.matched = FALSE].version = text
      /\ [applied EXCEPT !.version = text, !.matched = FALSE].matched = FALSE
    OBVIOUS
<1> HIDE DEF applied
<1>6. ApplyWithAvailable(rules, eco, name, text, available) =
          IF target = text \/ offered THEN applied
          ELSE IF closest # Junk THEN [applied EXCEPT !.version = closest]
          ELSE [applied EXCEPT !.version = text, !.matched = FALSE]
    BY <1>3, <1>4 DEF ApplyWithAvailable, Range, closest
<1> QED
    BY <1>3, <1>4, <1>5, <1>6 DEF rules, target, closest

\* In one minor the order of the distances is that of the patches, but for a
\* version below the target beside one that is not.
LEMMA NearerPatch ==
    ASSUME NEW a, NEW b, NEW target, NEW eco, WellFormed(a), WellFormed(b), WellFormed(target),
           Parses(a), Parses(b), Parses(target),
           SameMinor(a, target, eco), SameMinor(b, target, eco),
           Distance(a, target, eco) <= Distance(b, target, eco)
    PROVE  LET Below(text) == Compare(text, target) < 0
               Off(text) == Abs(ParseVersion(text, eco).patch - ParseVersion(target, eco).patch)
           IN  /\ Below(b) = Below(a) => Off(a) <= Off(b)
               /\ Below(a) /\ ~Below(b) => Off(a) < Off(b)
<1> DEFINE below(text) == Compare(text, target) < 0
           off(text) == Abs(ParseVersion(text, eco).patch - ParseVersion(target, eco).patch)
<1>1. ParseVersion(a, eco).patch \in Nat /\ ParseVersion(b, eco).patch \in Nat
      /\ ParseVersion(target, eco).patch \in Nat
    BY ParsedType
<1>2. off(a) \in Nat /\ off(b) \in Nat
    BY <1>1 DEF Abs
<1>3. /\ Distance(a, target, eco) = off(a) + (IF below(a) THEN 1 ELSE 0)
      /\ Distance(b, target, eco) = off(b) + (IF below(b) THEN 1 ELSE 0)
    BY DistanceIs
<1> HIDE DEF off, below
<1>4. /\ below(b) = below(a) => off(a) <= off(b)
      /\ below(a) /\ ~below(b) => off(a) < off(b)
    BY <1>2, <1>3
<1> QED
    BY <1>4 DEF off, below

LEMMA LineKept == CheckedInv => ClosestKeepsLine
<1> SUFFICES ASSUME CheckedInv, NEW k \in DOMAIN checked
             PROVE  LET call == checked[k]
                        target == Apply(<<Rule>>, case.eco, "a", call.text).version
                        usable == {text \in Range(call.available) : Parses(text)}
                        taken == call.result.version
                        Below(text) == Compare(text, target) < 0
                        Off(text) == Abs(ParseVersion(text, case.eco).patch
                                            - ParseVersion(target, case.eco).patch)
                    IN  IF target = call.text \/ target \in Range(call.available) THEN taken = target
                        ELSE IF ~Parses(target) \/ usable = {}
                        THEN taken = call.text /\ ~call.result.matched
                        ELSE /\ taken \in usable
                             /\ \A text \in usable :
                                   /\ SameMajor(text, target, case.eco) =>
                                         SameMajor(taken, target, case.eco)
                                   /\ SameMinor(text, target, case.eco) =>
                                        /\ SameMinor(taken, target, case.eco)
                                        /\ Below(text) = Below(taken) => Off(taken) <= Off(text)
                                        /\ Below(taken) /\ ~Below(text) => Off(taken) < Off(text)
    BY DEF ClosestKeepsLine, Range
<1> DEFINE eco == case.eco
           text == checked[k].text
           available == checked[k].available
           result == checked[k].result
           target == ApplyVersionStrategy(text, Rule, eco)
           closest == FindClosestVersion(target, available, eco)
           offered == \E i \in DOMAIN available : available[i] = target
           usable == {other \in Range(available) : Parses(other)}
           Off(other) == Abs(ParseVersion(other, eco).patch - ParseVersion(target, eco).patch)
           Below(other) == Compare(other, target) < 0
<1>1. /\ case \in Cases /\ text \in Asked[eco][case.strategy] /\ available \in Offers[case.strategy]
      /\ result = ApplyWithAvailable(<<Rule>>, eco, "a", text, available)
    BY DEF CheckedInv
<1>2. MatchesRule(Rule, eco, "a", text) /\ Rule.target = case.target
    BY <1>1, RuleFields
<1>3. WellFormed(text) /\ WellFormed(case.target) /\ Offerable(available)
    BY <1>1, TextAssumption, OfferAssumption, Zenon DEF WellFormed, Offerable
<1>4. WellFormed(target)
    BY <1>2, <1>3, StrategyText
<1>5. /\ Apply(<<Rule>>, eco, "a", text).version = target
      /\ target = text \/ offered => result.version = target
      /\ target # text /\ ~offered /\ closest # Junk => result.version = closest
      /\ target # text /\ ~offered /\ closest = Junk => result.version = text /\ ~result.matched
    BY <1>1, <1>2, AnswerIs
<1>6. offered <=> target \in Range(available)
    BY DEF Range
<1>7. usable = {} <=> \A i \in DOMAIN available : ~Parses(available[i])
    BY DEF Range
<1> HIDE DEF eco, text, available, result, target
<1>8. CASE ~Parses(target) \/ usable = {}
    <2>1. closest = Junk
        BY <1>7, <1>8 DEF FindClosestVersion
    <2> QED
        BY <1>5, <1>6, <1>8, <2>1 DEF eco, text, available, result
<1>9. CASE Parses(target) /\ usable # {}
    <2>1. PICK i \in DOMAIN available :
            /\ closest = available[i] /\ Parses(available[i])
            /\ \A j \in DOMAIN available : Parses(available[j]) =>
                 /\ SameMajor(available[j], target, eco) => SameMajor(available[i], target, eco)
                 /\ SameMinor(available[j], target, eco) =>
                       /\ SameMinor(available[i], target, eco)
                       /\ Distance(available[i], target, eco) <= Distance(available[j], target, eco)
        BY <1>3, <1>4, <1>7, <1>9, ClosestIs
    <2> HIDE DEF closest
    <2>2. closest # Junk /\ closest \in usable /\ WellFormed(closest)
        BY <1>3, <2>1 DEF Parses, Junk, Range, Offerable
    <2>3. ASSUME NEW other \in usable
          PROVE  /\ SameMajor(other, target, eco) => SameMajor(closest, target, eco)
                 /\ SameMinor(other, target, eco) =>
                      /\ SameMinor(closest, target, eco)
                      /\ Below(other) = Below(closest) => Off(closest) <= Off(other)
                      /\ Below(closest) /\ ~Below(other) => Off(closest) < Off(other)
        <3>1. PICK j \in DOMAIN available : available[j] = other /\ Parses(other)
            BY DEF Range
        <3>2. WellFormed(other)
            BY <1>3, <3>1 DEF Offerable
        <3>3. SameMajor(other, target, eco) => SameMajor(closest, target, eco)
            BY <2>1, <3>1
        <3>4. ASSUME SameMinor(other, target, eco)
              PROVE  /\ SameMinor(closest, target, eco)
                     /\ Below(other) = Below(closest) => Off(closest) <= Off(other)
                     /\ Below(closest) /\ ~Below(other) => Off(closest) < Off(other)
            <4>1. /\ SameMinor(closest, target, eco)
                  /\ Distance(closest, target, eco) <= Distance(other, target, eco)
                BY <2>1, <3>1, <3>4
            <4>2. Parses(closest)
                BY <2>1
            <4> QED
                BY <1>4, <1>9, <2>2, <3>1, <3>2, <3>4, <4>1, <4>2, NearerPatch
        <3> QED
            BY <3>3, <3>4
    <2>4. CASE target = text \/ offered
        BY <1>5, <1>6, <2>4 DEF eco, text, available, result
    <2>5. CASE target # text /\ ~offered
        <3>1. result.version = closest
            BY <1>5, <2>2, <2>5
        <3> HIDE DEF usable, Off, Below
        <3> QED
            BY <1>5, <1>6, <1>9, <2>2, <2>3, <2>5, <3>1 DEF eco, text, available, result, usable, Off, Below
    <2> QED
        BY <2>4, <2>5
<1> QED
    BY <1>8, <1>9

(***************************************************************************)
(* The version taken from a list, for any rule and any list a registry     *)
(* offers: of the target's minor, or else its major, where the list has    *)
(* one, and the nearest of its minor (findClosestVersion, rewrite.go:273). *)
(***************************************************************************)
THEOREM ClosestIsOfTheLine == Spec => []ClosestKeepsLine
<1>1. Init => CheckedInv
    BY DEF Init, CheckedInv
<1>2. Spec => []CheckedInv
    BY <1>1, CheckedStep, PTL DEF Spec
<1> QED
    BY <1>2, LineKept, PTL
=============================================================================
