---------------------------- MODULE MCRewriteCalls ----------------------------
(* Instances of RewriteCalls for TLC. *)
EXTENDS RewriteCalls

FewNumbers == 0..1
OfferedNumbers == 0..2

Number(n) == [v |-> FALSE, nums |-> <<n>>, suffix |-> ""]
Offered(suffixes) == [v : {FALSE}, nums : [1..3 -> OfferedNumbers], suffix : suffixes]

Engines(ecosystems, strategies, targets) ==
    [eco : ecosystems, strategy : strategies, target : targets]

Snapping == {"nearest-minor", "nearest-major"}
Replacing == {"replace-major", "replace-minor", "replace-patch"}
Bounding == {"min", "max"}

MCCases ==
    Engines(Ecosystems, Snapping, {Junk})
    \cup Engines(Ecosystems, Replacing \cup Bounding, {Number(n) : n \in FewNumbers})
    \cup Engines({"npm"}, {"pin"}, Offered({""}) \cup {Junk})

\* Those that parse are asked about every text; a version that is pinned, to each
\* target, is looked for where a registry offers up to two others.
MCAsked == [eco \in Ecosystems |->
  [strategy \in Snapping \cup Replacing \cup Bounding \cup {"pin"} |->
    IF strategy = "pin" THEN {Number(5)}
    ELSE IF strategy \in Bounding THEN {text \in Texts(eco) : Len(text.nums) <= 2}
    ELSE Texts(eco)]]

Lists == UNION {[1..n -> {Junk} \cup Offered({"", "-rc"})] : n \in 0..2}
MCOffers == [strategy \in Snapping \cup Replacing \cup Bounding \cup {"pin"} |->
    IF strategy = "pin" THEN Lists ELSE {}]
=============================================================================
