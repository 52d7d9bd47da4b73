------------------------- MODULE MetadataFilter_proof -------------------------
(* Proofs about MetadataFilter, for every package, policies, rewrite rules  *)
(* and any number of requests, reloads and changes of the mirror.           *)
EXTENDS MetadataFilter, TLAPS

USE VersionAssumption, PolicyAssumption, RewriteAssumption, KindAssumption

-----------------------------------------------------------------------------
(* The inductive invariant, of a request r while policy pol is in force and   *)
(* the versions fl are known to be vulnerable.                              *)

\* What is allowed of the kept versions, and what the evaluation under way may see.
VerdictInv(r, pol, fl) ==
    /\ pol \in r.inForce
    /\ Versions \ fl \subseteq r.clean
    /\ r.pc = "eval" => r.known \/ r.asked \in r.clean
    /\ \A v \in r.kept : \E p \in r.inForce : Allows(p, v, r)

\* The listed versions are split into those to visit, kept, removed, and asked for.
SplitInv(r) ==
    /\ r.todo \cup r.kept \cup r.removed \subseteq r.listed
    /\ r.kept \cap r.removed = {} /\ r.todo \cap (r.kept \cup r.removed) = {}
    /\ r.pc = "eval" => r.asked \in r.listed \ (r.todo \cup r.kept \cup r.removed)
    /\ r.pc = "fetch" => r.listed = {} /\ r.tags = NoTags
    /\ r.pc # "idle" => r.answer = "none"
    /\ r.answer = "ok" => r.todo = {}

\* A version that no other one in the document replaces.
Stands(r, v) == Target[v] = v \/ Target[v] \notin r.listed \ r.removed

TargetInv(r) ==
    /\ \A v \in r.kept : Stands(r, v)
    /\ r.pc = "eval" => Stands(r, r.asked)
    /\ r.kind \notin MapKinds => \A v \in r.todo : Stands(r, v)

\* What has become of a visited version.
Settled(r, v) ==
    \/ \E allowed \in BOOLEAN : <<v, allowed>> \in r.recorded
    \/ Target[v] # v
    \/ r.kind = "go list" /\
         \E p \in r.inForce : \E k \in BOOLEAN : Verdict[p][v][k] = "error"

RecordInv(r) ==
    /\ \A v \in Versions : v \in r.kept <=> <<v, TRUE>> \in r.recorded
    /\ \A v \in Versions : <<v, FALSE>> \in r.recorded => v \in r.removed
    /\ r.pc # "idle" \/ r.answer = "ok" =>
         \A v \in r.listed \ r.todo : Settled(r, v) \/ (r.pc = "eval" /\ v = r.asked)

TagsInv(r) ==
    /\ r.kind \in MapKinds =>
         /\ \A t \in Tags : r.tags[t] \in r.listed \cup {0}
         /\ r.pc # "idle" =>
              \A v \in r.listed \ (r.todo \cup r.kept \cup r.removed) : r.pc = "eval" /\ v = r.asked
    /\ r.kind \notin MapKinds \cup {"maven"} => r.tags = NoTags
    /\ r.answer = "ok" => \A t \in Tags : r.given[t] # 0 => r.given[t] \in r.kept

RequestInv(r, pol, fl) ==
    /\ r \in Request
    /\ VerdictInv(r, pol, fl) /\ SplitInv(r) /\ TargetInv(r) /\ RecordInv(r) /\ TagsInv(r)

FilterInv ==
    /\ policy \in Policies /\ flagged \subseteq Versions /\ changes \in Nat
    /\ req \in [Requests -> Request]
    /\ \A q \in Requests : RequestInv(req[q], policy, flagged)

-----------------------------------------------------------------------------
(* What the steps of a request make of its record. *)

LEMMA FreshInv ==
    ASSUME policy \in Policies, flagged \subseteq Versions, NEW kind \in AllKinds
    PROVE  /\ RequestInv(Fresh(kind), policy, flagged)
           /\ RequestInv([Fresh(kind) EXCEPT !.pc = "idle"], policy, flagged)
           /\ \A v \in Versions : kind = "go info" =>
                 /\ RequestInv([Fresh(kind) EXCEPT !.asked = Target[v]], policy, flagged)
                 /\ RequestInv(Answered([Fresh(kind) EXCEPT !.asked = Target[v]], "redirect"),
                               policy, flagged)
<1>1. NoTags \in [Tags -> Versions \cup {0}] /\ (\A t \in Tags : NoTags[t] = 0)
  BY DEF NoTags, Versions
<1>2. Fresh(kind) \in Request
  BY <1>1 DEF Fresh, Request
<1> DEFINE Empty(r) ==
             /\ r \in Request /\ r.kind = kind /\ r.pc \in {"fetch", "idle"} /\ r.answer # "ok"
             /\ r.pc = "fetch" => r.answer = "none"
             /\ r.listed = {} /\ r.todo = {} /\ r.kept = {} /\ r.removed = {}
             /\ r.recorded = {} /\ r.tags = NoTags
             /\ r.inForce = {policy} /\ r.clean = Versions \ flagged
<1>3. Empty(Fresh(kind)) /\ Empty([Fresh(kind) EXCEPT !.pc = "idle"])
  BY <1>2 DEF Fresh, Request
<1>4. ASSUME NEW v \in Versions
      PROVE  /\ Empty([Fresh(kind) EXCEPT !.asked = Target[v]])
             /\ Empty(Answered([Fresh(kind) EXCEPT !.asked = Target[v]], "redirect"))
  BY <1>2 DEF Fresh, Answered, Request
<1>5. ASSUME NEW r, Empty(r) PROVE RequestInv(r, policy, flagged)
  <2>1. VerdictInv(r, policy, flagged) /\ SplitInv(r) /\ TargetInv(r)
    BY <1>5 DEF VerdictInv, SplitInv, TargetInv
  <2>2. RecordInv(r)
    BY <1>5 DEF RecordInv
  <2>3. TagsInv(r)
    BY <1>1, <1>5 DEF TagsInv
  <2> QED
    BY <1>5, <2>1, <2>2, <2>3 DEF RequestInv
<1> HIDE DEF Empty
<1> QED
  BY <1>3, <1>4, <1>5

LEMMA AnsweredInv ==
    ASSUME NEW r, RequestInv(r, policy, flagged), NEW answer \in {"as is", "denied", "error"}
    PROVE  RequestInv(Answered(r, answer), policy, flagged)
BY DEF RequestInv, VerdictInv, SplitInv, TargetInv, RecordInv, TagsInv, Answered, Request,
       Allows, Stands

\* The answer "ok" is given when nothing is left to visit.
LEMMA FinishedInv ==
    ASSUME NEW r, RequestInv(r, policy, flagged), r.pc = "visit", r.todo = {},
           NEW last \in LastKept(r)
    PROVE  RequestInv(Answered([r EXCEPT !.given = CleanTags(r, last)], "ok"), policy, flagged)
<1> DEFINE given == CleanTags(r, last)
           new == Answered([r EXCEPT !.given = given], "ok")
<1>1. r \in Request
  BY DEF RequestInv
<1>2. /\ given \in [Tags -> Versions \cup {0}]
      /\ \A t \in Tags : given[t] # 0 => given[t] \in r.kept
  <2>1. last \in r.kept \cup {0} /\ r.kept \subseteq Versions
    BY <1>1 DEF LastKept, Request
  <2>2. \A t \in Tags : r.tags[t] \in Versions \cup {0}
    BY <1>1 DEF Request
  <2>3. CASE r.kind = "maven"
    BY <2>1, <2>3 DEF CleanTags
  <2>4. CASE r.kind # "maven"
    <3>1. given = [t \in Tags |-> IF r.tags[t] \in r.removed THEN 0 ELSE r.tags[t]]
      BY <2>4 DEF CleanTags
    <3>2. CASE r.kind \in MapKinds
      BY <2>2, <3>1, <3>2 DEF RequestInv, TagsInv
    <3>3. CASE r.kind \notin MapKinds
      <4>1. \A t \in Tags : r.tags[t] = 0
        BY <2>4, <3>3 DEF RequestInv, TagsInv, NoTags
      <4> QED
        BY <3>1, <4>1
    <3> QED
      BY <3>2, <3>3
  <2> QED
    BY <2>3, <2>4
<1> HIDE DEF given
<1>3. new = [r EXCEPT !.pc = "idle", !.answer = "ok", !.given = given]
  BY <1>1 DEF Answered, Request
<1> HIDE DEF new
<1>4. new \in Request
  BY <1>1, <1>2, <1>3 DEF Request
<1>5. /\ new.pc = "idle" /\ new.answer = "ok" /\ new.given = given /\ new.kind = r.kind
      /\ new.listed = r.listed /\ new.tags = r.tags /\ new.todo = r.todo /\ new.kept = r.kept
      /\ new.removed = r.removed /\ new.recorded = r.recorded /\ new.inForce = r.inForce
      /\ new.clean = r.clean
  BY <1>1, <1>3 DEF Request
<1>6. VerdictInv(new, policy, flagged) /\ SplitInv(new) /\ TargetInv(new)
  BY <1>5 DEF RequestInv, VerdictInv, SplitInv, TargetInv, Allows, Stands
<1>7. RecordInv(new) /\ TagsInv(new)
  BY <1>2, <1>5 DEF RequestInv, RecordInv, TagsInv, Settled
<1>8. RequestInv(new, policy, flagged)
  BY <1>4, <1>6, <1>7 DEF RequestInv
<1> QED
  BY <1>8 DEF new, given

LEMMA ListedInv ==
    ASSUME NEW r, RequestInv(r, policy, flagged), r.pc = "fetch",
           NEW listed \in SUBSET Versions, NEW tags \in [Tags -> listed \cup {0}],
           r.kind \notin MapKinds \cup {"maven"} => tags = NoTags
    PROVE  RequestInv([r EXCEPT !.pc = "visit", !.listed = listed, !.tags = tags,
                              !.todo = ToVisit(r.kind, listed)], policy, flagged)
<1> DEFINE todo == ToVisit(r.kind, listed)
           new == [r EXCEPT !.pc = "visit", !.listed = listed, !.tags = tags, !.todo = todo]
<1>1. r \in Request /\ r.kept = {} /\ r.removed = {} /\ r.answer = "none" /\ r.recorded \subseteq Versions \X BOOLEAN
  BY DEF RequestInv, SplitInv, Request
<1>2. /\ todo \subseteq listed
      /\ r.kind \in MapKinds => todo = listed
      /\ r.kind \notin MapKinds => \A v \in todo : Target[v] = v \/ Target[v] \notin listed
      /\ \A v \in listed \ todo : Target[v] # v
  BY DEF ToVisit, RewrittenAway
<1> HIDE DEF todo
<1>3. new \in Request
  BY <1>1, <1>2 DEF Request
<1>4. /\ new.pc = "visit" /\ new.answer = "none" /\ new.kind = r.kind
      /\ new.listed = listed /\ new.tags = tags /\ new.todo = todo /\ new.kept = {}
      /\ new.removed = {} /\ new.recorded = r.recorded /\ new.inForce = r.inForce
      /\ new.clean = r.clean
  BY <1>1 DEF Request
<1> HIDE DEF new
<1>5. VerdictInv(new, policy, flagged) /\ SplitInv(new) /\ TargetInv(new)
  BY <1>2, <1>4 DEF RequestInv, VerdictInv, SplitInv, TargetInv, Allows, Stands
<1>6. RecordInv(new)
  BY <1>1, <1>2, <1>4 DEF RequestInv, RecordInv, Settled
<1>7. TagsInv(new)
  BY <1>2, <1>4 DEF TagsInv
<1> QED
  BY <1>3, <1>5, <1>6, <1>7 DEF RequestInv, new, todo

LEMMA RemovedInv ==
    ASSUME NEW r, RequestInv(r, policy, flagged), r.pc = "visit",
           NEW v \in r.todo, Skips(r, v)
    PROVE  RequestInv([r EXCEPT !.todo = @ \ {v}, !.removed = @ \cup {v}], policy, flagged)
<1> DEFINE new == [r EXCEPT !.todo = @ \ {v}, !.removed = @ \cup {v}]
<1>1. r \in Request /\ v \in Versions
  BY DEF RequestInv, Request
<1>2. new \in Request
  BY <1>1 DEF Request
<1>3. /\ new.pc = "visit" /\ new.answer = r.answer /\ new.kind = r.kind
      /\ new.listed = r.listed /\ new.tags = r.tags /\ new.todo = r.todo \ {v}
      /\ new.kept = r.kept /\ new.removed = r.removed \cup {v} /\ new.recorded = r.recorded
      /\ new.inForce = r.inForce /\ new.clean = r.clean
  BY <1>1 DEF Request
<1> HIDE DEF new
<1>4. VerdictInv(new, policy, flagged) /\ SplitInv(new) /\ TargetInv(new)
  BY <1>3 DEF RequestInv, VerdictInv, SplitInv, TargetInv, Allows, Stands
<1>5. Target[v] # v
  BY DEF Skips
<1>6. RecordInv(new) /\ TagsInv(new)
  BY <1>3, <1>5 DEF RequestInv, SplitInv, RecordInv, TagsInv, Settled
<1> QED
  BY <1>2, <1>4, <1>6 DEF RequestInv, new

LEMMA LookedUpInv ==
    ASSUME NEW r, RequestInv(r, policy, flagged), r.pc = "visit",
           NEW v \in r.todo, ~Skips(r, v), NEW known \in BOOLEAN,
           NEW clean, clean = r.clean \/ clean = r.clean \cup {v}, known \/ v \in clean
    PROVE  RequestInv([r EXCEPT !.pc = "eval", !.asked = v, !.todo = @ \ {v},
                              !.known = known, !.clean = clean], policy, flagged)
<1> DEFINE new == [r EXCEPT !.pc = "eval", !.asked = v, !.todo = @ \ {v},
                          !.known = known, !.clean = clean]
<1>1. r \in Request /\ v \in Versions /\ r.clean \subseteq clean
  BY DEF RequestInv, Request
<1>2. new \in Request
  BY <1>1 DEF Request
<1>3. /\ new.pc = "eval" /\ new.answer = r.answer /\ new.kind = r.kind /\ new.asked = v
      /\ new.listed = r.listed /\ new.tags = r.tags /\ new.todo = r.todo \ {v}
      /\ new.kept = r.kept /\ new.removed = r.removed /\ new.recorded = r.recorded
      /\ new.inForce = r.inForce /\ new.clean = clean /\ new.known = known
  BY <1>1 DEF Request
<1> HIDE DEF new
<1>4. Stands(r, v)
  BY DEF Skips, Stands, RequestInv, TargetInv
<1>5. VerdictInv(new, policy, flagged)
  BY <1>1, <1>3 DEF RequestInv, VerdictInv, Allows
<1>6. SplitInv(new) /\ TargetInv(new)
  BY <1>3, <1>4 DEF RequestInv, SplitInv, TargetInv, Stands
<1>7. RecordInv(new) /\ TagsInv(new)
  BY <1>3 DEF RequestInv, SplitInv, RecordInv, TagsInv, Settled
<1> QED
  BY <1>2, <1>5, <1>6, <1>7 DEF RequestInv, new

LEMMA DecidedInv ==
    ASSUME policy \in Policies, NEW r, RequestInv(r, policy, flagged), r.pc = "eval"
    PROVE  RequestInv(Decided(r), policy, flagged)
<1> DEFINE v == r.asked
           keep == [r EXCEPT !.pc = "visit", !.kept = @ \cup {v}, !.recorded = @ \cup {<<v, TRUE>>}]
           drop == [r EXCEPT !.pc = "visit", !.removed = @ \cup {v}, !.recorded = @ \cup {<<v, FALSE>>}]
<1>1. /\ r \in Request /\ v \in Versions /\ r.recorded \subseteq Versions \X BOOLEAN
      /\ v \in r.listed \ (r.todo \cup r.kept \cup r.removed)
  BY DEF RequestInv, SplitInv, Request
<1> HIDE DEF v
<1>2. CASE Decision(r) = "allow"
  <2>1. Decided(r) = keep
    BY <1>2 DEF Decided, v
  <2>2. keep \in Request
    <3>1. r.recorded \cup {<<v, TRUE>>} \in SUBSET (Versions \X BOOLEAN)
      <4>1. <<v, TRUE>> \in Versions \X BOOLEAN
        BY <1>1
      <4> QED
        BY <1>1, <4>1, Zenon
    <3>2. r.kept \cup {v} \in SUBSET Versions
      BY <1>1 DEF Request
    <3> QED
      BY <1>1, <3>1, <3>2 DEF Request
  <2>3. /\ keep.pc = "visit" /\ keep.answer = r.answer /\ keep.kind = r.kind
        /\ keep.listed = r.listed /\ keep.tags = r.tags /\ keep.todo = r.todo
        /\ keep.kept = r.kept \cup {v} /\ keep.removed = r.removed
        /\ keep.recorded = r.recorded \cup {<<v, TRUE>>}
        /\ keep.inForce = r.inForce /\ keep.clean = r.clean
    BY <1>1 DEF Request
  <2> HIDE DEF keep
  <2>4. Allows(policy, v, r) /\ policy \in r.inForce
    <3>1. Verdict[policy][v][r.known] = "allow" /\ r.known \in BOOLEAN
      BY <1>1, <1>2 DEF Decision, Request, v
    <3>2. r.known \/ v \in r.clean
      BY DEF RequestInv, VerdictInv, v
    <3>3. CASE r.known
      <4>1. r.known = TRUE
        BY <3>1, <3>3
      <4> QED
        BY <3>1, <4>1 DEF RequestInv, VerdictInv, Allows
    <3>4. CASE ~r.known
      <4>1. r.known = FALSE
        BY <3>1, <3>4
      <4> QED
        BY <3>1, <3>2, <3>4, <4>1 DEF RequestInv, VerdictInv, Allows
    <3> QED
      BY <3>3, <3>4
  <2>5. VerdictInv(keep, policy, flagged)
    BY <2>3, <2>4 DEF RequestInv, VerdictInv, Allows
  <2>6. SplitInv(keep) /\ TargetInv(keep)
    BY <1>1, <2>3 DEF RequestInv, SplitInv, TargetInv, Stands, v
  <2>7. RecordInv(keep)
    BY <1>1, <2>3 DEF RequestInv, RecordInv, Settled, v
  <2>8. TagsInv(keep)
    BY <1>1, <2>3 DEF RequestInv, SplitInv, TagsInv, v
  <2> QED
    BY <2>1, <2>2, <2>5, <2>6, <2>7, <2>8 DEF RequestInv
<1>3. CASE Decision(r) # "allow"
  <2>1. Decided(r) = drop
    BY <1>3 DEF Decided, v
  <2>2. drop \in Request
    <3>1. r.recorded \cup {<<v, FALSE>>} \in SUBSET (Versions \X BOOLEAN)
      <4>1. <<v, FALSE>> \in Versions \X BOOLEAN
        BY <1>1
      <4> QED
        BY <1>1, <4>1, Zenon
    <3>2. r.removed \cup {v} \in SUBSET Versions
      BY <1>1 DEF Request
    <3> QED
      BY <1>1, <3>1, <3>2 DEF Request
  <2>3. /\ drop.pc = "visit" /\ drop.answer = r.answer /\ drop.kind = r.kind
        /\ drop.listed = r.listed /\ drop.tags = r.tags /\ drop.todo = r.todo
        /\ drop.kept = r.kept /\ drop.removed = r.removed \cup {v}
        /\ drop.recorded = r.recorded \cup {<<v, FALSE>>}
        /\ drop.inForce = r.inForce /\ drop.clean = r.clean
    BY <1>1 DEF Request
  <2> HIDE DEF drop
  <2>4. VerdictInv(drop, policy, flagged)
    BY <2>3 DEF RequestInv, VerdictInv, Allows
  <2>5. SplitInv(drop) /\ TargetInv(drop)
    BY <1>1, <2>3 DEF RequestInv, SplitInv, TargetInv, Stands
  <2>6. RecordInv(drop)
    BY <1>1, <2>3 DEF RequestInv, RecordInv, Settled, v
  <2>7. TagsInv(drop)
    BY <1>1, <2>3 DEF RequestInv, SplitInv, TagsInv, v
  <2> QED
    BY <2>1, <2>2, <2>4, <2>5, <2>6, <2>7 DEF RequestInv
<1> QED
  BY <1>2, <1>3

\* The Go list leaves out a version whose evaluation failed.
LEMMA LeftOutInv ==
    ASSUME policy \in Policies, NEW r, RequestInv(r, policy, flagged), r.pc = "eval",
           r.kind = "go list", Decision(r) = "error"
    PROVE  RequestInv([r EXCEPT !.pc = "visit"], policy, flagged)
<1> DEFINE new == [r EXCEPT !.pc = "visit"]
<1>1. r \in Request /\ r.asked \in Versions /\ r.known \in BOOLEAN
  BY DEF RequestInv, SplitInv, Request
<1>2. new \in Request
  BY <1>1 DEF Request
<1>3. /\ new.pc = "visit" /\ new.answer = r.answer /\ new.kind = r.kind
      /\ new.listed = r.listed /\ new.tags = r.tags /\ new.todo = r.todo
      /\ new.kept = r.kept /\ new.removed = r.removed /\ new.recorded = r.recorded
      /\ new.inForce = r.inForce /\ new.clean = r.clean /\ new.given = r.given
  BY <1>1 DEF Request
<1> HIDE DEF new
<1>4. VerdictInv(new, policy, flagged) /\ SplitInv(new) /\ TargetInv(new)
  BY <1>3 DEF RequestInv, VerdictInv, SplitInv, TargetInv, Allows, Stands
<1>5. Settled(r, r.asked)
  BY <1>1 DEF Settled, Decision, RequestInv, VerdictInv
<1>6. RecordInv(new)
  BY <1>3, <1>5 DEF RequestInv, RecordInv, Settled
<1>7. TagsInv(new)
  BY <1>3 DEF RequestInv, TagsInv, MapKinds
<1> QED
  BY <1>2, <1>4, <1>6, <1>7 DEF RequestInv, new

\* Another policy is in force, or a vulnerability is no longer known.
LEMMA ReloadedInv ==
    ASSUME NEW r, RequestInv(r, policy, flagged), NEW p \in Policies
    PROVE  RequestInv([r EXCEPT !.inForce = @ \cup {p}], p, flagged)
<1> DEFINE new == [r EXCEPT !.inForce = @ \cup {p}]
<1>1. new \in Request
  BY DEF RequestInv, Request
<1>2. /\ new.pc = r.pc /\ new.answer = r.answer /\ new.kind = r.kind
      /\ new.listed = r.listed /\ new.tags = r.tags /\ new.todo = r.todo
      /\ new.kept = r.kept /\ new.removed = r.removed /\ new.recorded = r.recorded
      /\ new.inForce = r.inForce \cup {p} /\ new.clean = r.clean
      /\ new.asked = r.asked /\ new.known = r.known /\ new.given = r.given
  BY DEF RequestInv, Request
<1> HIDE DEF new
<1>3. VerdictInv(new, p, flagged)
  BY <1>2 DEF RequestInv, VerdictInv, Allows
<1>4. SplitInv(new) /\ TargetInv(new)
  BY <1>2 DEF RequestInv, SplitInv, TargetInv, Stands
<1>5. RecordInv(new)
  BY <1>2 DEF RequestInv, RecordInv, Settled
<1>6. TagsInv(new)
  BY <1>2 DEF RequestInv, TagsInv
<1> QED
  BY <1>1, <1>3, <1>4, <1>5, <1>6 DEF RequestInv, new

LEMMA DroppedInv ==
    ASSUME NEW r, RequestInv(r, policy, flagged), NEW v \in Versions
    PROVE  RequestInv([r EXCEPT !.clean = @ \cup {v}], policy, flagged \ {v})
<1> DEFINE new == [r EXCEPT !.clean = @ \cup {v}]
<1>1. new \in Request
  BY DEF RequestInv, Request
<1>2. /\ new.pc = r.pc /\ new.answer = r.answer /\ new.kind = r.kind
      /\ new.listed = r.listed /\ new.tags = r.tags /\ new.todo = r.todo
      /\ new.kept = r.kept /\ new.removed = r.removed /\ new.recorded = r.recorded
      /\ new.inForce = r.inForce /\ new.clean = r.clean \cup {v}
      /\ new.asked = r.asked /\ new.known = r.known /\ new.given = r.given
  BY DEF RequestInv, Request
<1> HIDE DEF new
<1>3. VerdictInv(new, policy, flagged \ {v})
  BY <1>2 DEF RequestInv, VerdictInv, Allows
<1>4. SplitInv(new) /\ TargetInv(new)
  BY <1>2 DEF RequestInv, SplitInv, TargetInv, Stands
<1>5. RecordInv(new)
  BY <1>2 DEF RequestInv, RecordInv, Settled
<1>6. TagsInv(new)
  BY <1>2 DEF RequestInv, TagsInv
<1> QED
  BY <1>1, <1>3, <1>4, <1>5, <1>6 DEF RequestInv, new

-----------------------------------------------------------------------------
(* The invariant is inductive. *)

LEMMA FilterInit == Init => FilterInv
<1> SUFFICES ASSUME Init PROVE FilterInv
  OBVIOUS
<1>1. (CHOOSE k \in AllKinds : TRUE) \in AllKinds
  BY DEF AllKinds
<1> DEFINE first == CHOOSE k \in AllKinds : TRUE
<1> HIDE DEF first
<1>2. RequestInv([Fresh(first) EXCEPT !.pc = "idle"], policy, flagged)
  BY <1>1, FreshInv DEF Init, first
<1>3. req = [q \in Requests |-> [Fresh(first) EXCEPT !.pc = "idle"]]
  BY DEF Init, first
<1>4. req \in [Requests -> Request] /\ \A q \in Requests : RequestInv(req[q], policy, flagged)
  BY <1>2, <1>3 DEF RequestInv
<1> QED
  BY <1>4 DEF Init, FilterInv

LEMMA PutInv ==
    ASSUME FilterInv, NEW q \in Requests, NEW new, RequestInv(new, policy, flagged), Put(q, new)
    PROVE  FilterInv'
<1>1. req' = [req EXCEPT ![q] = new] /\ new \in Request /\ UNCHANGED <<policy, flagged, changes>>
  BY DEF Put, RequestInv
<1>2. req' \in [Requests -> Request]
  BY <1>1 DEF FilterInv
<1>3. \A p \in Requests : req'[p] = IF p = q THEN new ELSE req[p]
  BY <1>1 DEF FilterInv
<1>4. \A p \in Requests : RequestInv(req'[p], policy, flagged)
  BY <1>3 DEF FilterInv
<1> QED
  BY <1>1, <1>2, <1>4 DEF FilterInv

LEMMA FilterStep == FilterInv /\ [Next]_vars => FilterInv'
<1> SUFFICES ASSUME FilterInv, [Next]_vars PROVE FilterInv'
  OBVIOUS
<1>0. /\ policy \in Policies /\ flagged \subseteq Versions
      /\ \A q \in Requests : RequestInv(req[q], policy, flagged) /\ req[q] \in Request
  BY DEF FilterInv
<1>1. CASE UNCHANGED vars
  BY <1>1 DEF vars, FilterInv
<1>2. ASSUME NEW p \in Policies, Reload(p) PROVE FilterInv'
  <2>1. ASSUME NEW q \in Requests
        PROVE  RequestInv([req[q] EXCEPT !.inForce = @ \cup {p}], p, flagged)
    BY <1>0, ReloadedInv
  <2>2. policy' = p /\ flagged' = flagged /\ changes' \in Nat
    BY <1>2 DEF Reload, FilterInv
  <2>3. req' = [q \in Requests |-> [req[q] EXCEPT !.inForce = @ \cup {p}]]
    BY <1>2 DEF Reload
  <2>4. \A q \in Requests : RequestInv(req'[q], policy', flagged')
    BY <2>1, <2>2, <2>3
  <2>5. req' \in [Requests -> Request]
    BY <2>1, <2>3 DEF RequestInv
  <2> QED
    BY <1>0, <2>2, <2>4, <2>5 DEF FilterInv
<1>3. ASSUME NEW v \in Versions, Sync(v) PROVE FilterInv'
  <2>1. policy' = policy /\ changes' \in Nat
    BY <1>3 DEF Sync, FilterInv
  <2>2. CASE v \in flagged
    <3>1. flagged' = flagged \ {v} /\ req' = [q \in Requests |-> [req[q] EXCEPT !.clean = @ \cup {v}]]
      BY <1>3, <2>2 DEF Sync
    <3>2. ASSUME NEW q \in Requests
          PROVE  RequestInv([req[q] EXCEPT !.clean = @ \cup {v}], policy, flagged \ {v})
      BY <1>0, DroppedInv
    <3>3. \A q \in Requests : RequestInv(req'[q], policy', flagged')
      BY <2>1, <3>1, <3>2
    <3>4. req' \in [Requests -> Request]
      BY <3>1, <3>2 DEF RequestInv
    <3> QED
      BY <1>0, <2>1, <3>1, <3>3, <3>4 DEF FilterInv
  <2>3. CASE v \notin flagged
    <3>1. flagged' = flagged \cup {v} /\ req' = req
      BY <1>3, <2>3 DEF Sync
    <3>2. \A q \in Requests : RequestInv(req[q], policy, flagged \cup {v})
      BY <1>0 DEF RequestInv, VerdictInv
    <3> QED
      BY <1>0, <2>1, <3>1, <3>2 DEF FilterInv
  <2> QED
    BY <2>2, <2>3
<1>4. ASSUME NEW q \in Requests, Arrive(q) PROVE FilterInv'
  <2>1. ASSUME NEW kind \in Kinds, Put(q, Fresh(kind)) PROVE FilterInv'
    BY <1>0, <2>1, FreshInv, PutInv
  <2>2. ASSUME NEW v \in Versions,
               LET new == [Fresh("go info") EXCEPT !.asked = Target[v]]
               IN  Put(q, IF Target[v] # v /\ v \in Redirects
                          THEN Answered(new, "redirect") ELSE new)
        PROVE  FilterInv'
    <3> DEFINE new == [Fresh("go info") EXCEPT !.asked = Target[v]]
    <3>1. RequestInv(new, policy, flagged) /\ RequestInv(Answered(new, "redirect"), policy, flagged)
      BY <1>0, FreshInv DEF AllKinds
    <3>2. Put(q, new) \/ Put(q, Answered(new, "redirect"))
      BY <2>2
    <3> HIDE DEF new
    <3> QED
      BY <3>1, <3>2, PutInv
  <2> QED
    BY <1>4, <2>1, <2>2 DEF Arrive
<1>5. ASSUME NEW q \in Requests, FetchFails(q) \/ FetchAsIs(q) PROVE FilterInv'
  BY <1>0, <1>5, AnsweredInv, PutInv DEF FetchFails, FetchAsIs
<1>6. ASSUME NEW q \in Requests, FetchList(q) PROVE FilterInv'
  <2>1. PICK listed \in SUBSET Versions : \E tags \in [Tags -> listed \cup {0}] :
          /\ req[q].kind = "go list" => tags = NoTags
          /\ Put(q, [req[q] EXCEPT !.pc = "visit", !.listed = listed, !.tags = tags,
                                !.todo = ToVisit(req[q].kind, listed)])
    BY <1>6 DEF FetchList
  <2>2. PICK tags \in [Tags -> listed \cup {0}] :
          /\ req[q].kind = "go list" => tags = NoTags
          /\ Put(q, [req[q] EXCEPT !.pc = "visit", !.listed = listed, !.tags = tags,
                                !.todo = ToVisit(req[q].kind, listed)])
    BY <2>1
  <2>3. req[q].pc = "fetch" /\ (req[q].kind \notin MapKinds \cup {"maven"} => tags = NoTags)
    BY <1>6, <2>2 DEF FetchList, ListKinds, MapKinds
  <2>4. RequestInv([req[q] EXCEPT !.pc = "visit", !.listed = listed, !.tags = tags,
                                !.todo = ToVisit(req[q].kind, listed)], policy, flagged)
    BY <1>0, <2>3, ListedInv
  <2> QED
    BY <2>2, <2>4, PutInv
<1>7. ASSUME NEW q \in Requests, FetchOne(q) PROVE FilterInv'
  <2>1. PICK v \in Versions : Put(q, [req[q] EXCEPT !.pc = "visit", !.listed = {v}, !.todo = {v}])
    BY <1>7 DEF FetchOne
  <2>2. /\ req[q].pc = "fetch" /\ req[q].kind \notin MapKinds \cup {"maven"}
        /\ req[q].tags = NoTags /\ req[q] \in Request
    BY <1>0, <1>7 DEF FetchOne, ListKinds, MapKinds, RequestInv, SplitInv
  <2>3. ToVisit(req[q].kind, {v}) = {v} /\ NoTags \in [Tags -> {v} \cup {0}]
    BY <2>2 DEF ToVisit, RewrittenAway, NoTags
  <2>4. RequestInv([req[q] EXCEPT !.pc = "visit", !.listed = {v}, !.tags = NoTags,
                                !.todo = {v}], policy, flagged)
    BY <1>0, <2>2, <2>3, ListedInv
  <2>5. [req[q] EXCEPT !.pc = "visit", !.listed = {v}, !.tags = NoTags, !.todo = {v}]
          = [req[q] EXCEPT !.pc = "visit", !.listed = {v}, !.todo = {v}]
    BY <2>2 DEF Request
  <2> QED
    BY <2>1, <2>4, <2>5, PutInv
<1>8. ASSUME NEW q \in Requests, Remove(q) PROVE FilterInv'
  <2>1. PICK v \in NextVersions(req[q]) :
          Skips(req[q], v) /\ Put(q, [req[q] EXCEPT !.todo = @ \ {v}, !.removed = @ \cup {v}])
    BY <1>8 DEF Remove
  <2>2. v \in req[q].todo /\ req[q].pc = "visit"
    BY <1>8 DEF Remove, NextVersions
  <2> QED
    BY <1>0, <2>1, <2>2, RemovedInv, PutInv
<1>9. ASSUME NEW q \in Requests, Lookup(q) PROVE FilterInv'
  <2>1. PICK v \in NextVersions(req[q]) :
          /\ ~Skips(req[q], v)
          /\ LET looked == [req[q] EXCEPT !.pc = "eval", !.asked = v, !.todo = @ \ {v}]
             IN  \/ Put(q, [looked EXCEPT !.known = v \in flagged])
                 \/ Put(q, [looked EXCEPT !.known = FALSE, !.clean = @ \cup {v}])
    BY <1>9 DEF Lookup
  <2>2. v \in req[q].todo /\ req[q].pc = "visit" /\ req[q] \in Request /\ v \in Versions
    BY <1>0, <1>9 DEF Lookup, NextVersions, Request
  <2> DEFINE New(known, clean) == [req[q] EXCEPT !.pc = "eval", !.asked = v, !.todo = @ \ {v},
                                              !.known = known, !.clean = clean]
  <2>3. RequestInv(New(v \in flagged, req[q].clean), policy, flagged)
    <3> DEFINE known == v \in flagged
    <3>1. (known \/ v \in req[q].clean) /\ known \in BOOLEAN
      BY <1>0, <2>2 DEF RequestInv, VerdictInv
    <3> HIDE DEF known
    <3>2. RequestInv(New(known, req[q].clean), policy, flagged)
      BY <1>0, <2>1, <2>2, <3>1, LookedUpInv
    <3> QED
      BY <3>2 DEF known
  <2>4. RequestInv(New(FALSE, req[q].clean \cup {v}), policy, flagged)
    BY <1>0, <2>1, <2>2, LookedUpInv
  <2>5. \/ Put(q, New(v \in flagged, req[q].clean))
        \/ Put(q, New(FALSE, req[q].clean \cup {v}))
    BY <2>1, <2>2 DEF Request
  <2> HIDE DEF New
  <2> QED
    BY <2>3, <2>4, <2>5, PutInv
<1>10. ASSUME NEW q \in Requests, Evaluate(q) PROVE FilterInv'
  <2>1. req[q].pc = "eval"
    BY <1>10 DEF Evaluate
  <2>2. CASE Decision(req[q]) # "error"
    <3>1. Put(q, Decided(req[q]))
      BY <1>10, <2>2 DEF Evaluate
    <3> QED
      BY <1>0, <2>1, <3>1, DecidedInv, PutInv
  <2>3. CASE Decision(req[q]) = "error" /\ req[q].kind = "go list"
    <3>1. Put(q, [req[q] EXCEPT !.pc = "visit"])
      BY <1>10, <2>3 DEF Evaluate
    <3> QED
      BY <1>0, <2>1, <2>3, <3>1, LeftOutInv, PutInv
  <2>4. CASE Decision(req[q]) = "error" /\ req[q].kind # "go list"
    <3>1. Put(q, Answered(req[q], "error"))
      BY <1>10, <2>4 DEF Evaluate
    <3> QED
      BY <1>0, <3>1, AnsweredInv, PutInv
  <2> QED
    BY <2>2, <2>3, <2>4
<1>11. ASSUME NEW q \in Requests, Finish(q) PROVE FilterInv'
  <2>1. PICK last \in LastKept(req[q]) :
          \/ Put(q, Answered(req[q], "denied"))
          \/ Put(q, Answered([req[q] EXCEPT !.given = CleanTags(req[q], last)], "ok"))
    BY <1>11 DEF Finish
  <2>2. RequestInv(Answered(req[q], "denied"), policy, flagged)
    BY <1>0, AnsweredInv
  <2>3. RequestInv(Answered([req[q] EXCEPT !.given = CleanTags(req[q], last)], "ok"), policy, flagged)
    BY <1>0, <1>11, FinishedInv DEF Finish
  <2> QED
    BY <2>1, <2>2, <2>3, PutInv
<1> QED
  BY <1>1, <1>2, <1>3, <1>4, <1>5, <1>6, <1>7, <1>8, <1>9, <1>10, <1>11 DEF Next, Handle

LEMMA FilterCorrect == Spec => []FilterInv
BY FilterInit, FilterStep, PTL DEF Spec

-----------------------------------------------------------------------------
(* What it gives. *)

LEMMA FilterInvGives ==
    FilterInv => /\ TypeOK /\ ServedWasAllowed /\ TagsAreServed
                 /\ RecordMatchesAnswer /\ TargetReplacesSource
<1>1. FilterInv => TypeOK
  BY DEF FilterInv, TypeOK
<1>2. FilterInv => ServedWasAllowed
  BY DEF FilterInv, RequestInv, VerdictInv, ServedWasAllowed
<1>3. FilterInv => TagsAreServed
  BY DEF FilterInv, RequestInv, TagsInv, TagsAreServed, Ok
<1>4. FilterInv => RecordMatchesAnswer
  <2> SUFFICES ASSUME FilterInv, NEW q \in Requests, Ok(q), NEW v \in req[q].listed
               PROVE  /\ v \in req[q].kept <=> <<v, TRUE>> \in req[q].recorded
                      /\ ~(<<v, TRUE>> \in req[q].recorded /\ <<v, FALSE>> \in req[q].recorded)
                      /\ Settled(req[q], v)
    BY DEF RecordMatchesAnswer, Settled
  <2>1. RequestInv(req[q], policy, flagged) /\ v \in Versions /\ req[q].pc = "idle"
    BY DEF FilterInv, RequestInv, SplitInv, Request, Ok
  <2> QED
    BY <2>1 DEF RequestInv, SplitInv, RecordInv, Ok
<1>5. FilterInv => TargetReplacesSource
  BY DEF FilterInv, RequestInv, SplitInv, TargetInv, Stands, TargetReplacesSource
<1> QED
  BY <1>1, <1>2, <1>3, <1>4, <1>5

\* Requests keep their types.
THEOREM TypeCorrect == Spec => []TypeOK
BY FilterInvGives, FilterCorrect, PTL

\* What a client is given was allowed by a policy in force during its request.
THEOREM ServedVersionsWereAllowed == Spec => []ServedWasAllowed
BY FilterInvGives, FilterCorrect, PTL

\* The tags of an answer point at versions it serves.
THEOREM TagsPointAtServed == Spec => []TagsAreServed
BY FilterInvGives, FilterCorrect, PTL

\* The decision log has what an answer was made of.
THEOREM RecordIsComplete == Spec => []RecordMatchesAnswer
BY FilterInvGives, FilterCorrect, PTL

\* No version is served beside the one that a rule rewrites it to.
THEOREM RewrittenNotBesideTarget == Spec => []TargetReplacesSource
BY FilterInvGives, FilterCorrect, PTL
=============================================================================
