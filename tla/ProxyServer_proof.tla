--------------------------- MODULE ProxyServer_proof ---------------------------
(* What MetadataFilter_proof shows of the filters holds of them inside the    *)
(* server, for every set of requests, registry of POMs, policies and rewrite  *)
(* rules; a request reaches the handler of its client's ecosystem; the walk   *)
(* to the parents of a POM stays within its limit; and the dependencies of a  *)
(* POM are evaluated with the versions that they have.                        *)
EXTENDS ProxyServer, MetadataFilter_proof, SequenceTheorems, FiniteSetTheorems,
        WellFoundedInduction

-----------------------------------------------------------------------------
(* The filters *)

LEMMA ServerFilterInit == ServerInit => FilterInv
BY FilterInit DEF ServerInit

\* When an answer has been delivered the request is as at the beginning.
LEMMA DeliveredInv == FilterInv /\ Deliver => FilterInv'
<1> SUFFICES ASSUME FilterInv, Deliver PROVE FilterInv'
  OBVIOUS
<1> DEFINE kind == CHOOSE k \in AllKinds : TRUE
<1>1. kind \in AllKinds
  <2>1. "npm" \in AllKinds
    BY DEF AllKinds
  <2> QED
    BY <2>1
<1>2. policy \in Policies /\ flagged \subseteq Versions /\ changes \in Nat
  BY DEF FilterInv
<1>3. RequestInv(NoRequest, policy, flagged)
  <2> HIDE DEF kind
  <2>1. RequestInv([Fresh(kind) EXCEPT !.pc = "idle"], policy, flagged)
    BY <1>1, <1>2, FreshInv
  <2> QED
    BY <2>1 DEF NoRequest, kind
<1>4. NoRequest \in Request
  BY <1>3 DEF RequestInv
<1>5. /\ policy' = policy /\ flagged' = flagged /\ changes' = changes
      /\ req' = [q \in Requests |-> NoRequest]
  BY DEF Deliver
<1> HIDE DEF kind
<1>6. req' \in [Requests -> Request] /\ \A q \in Requests : req'[q] = NoRequest
  BY <1>4, <1>5
<1> QED
  BY <1>2, <1>3, <1>5, <1>6 DEF FilterInv

\* Every step of the server is one of the filters, delivers, or leaves them alone.
LEMMA ServerStep == [ServerNext]_server => [Next]_vars \/ Deliver
<1> SUFFICES ASSUME [ServerNext]_server PROVE [Next]_vars \/ Deliver
  OBVIOUS
<1>1. CASE UNCHANGED server
  BY <1>1 DEF server
<1>2. CASE \E ask \in Asks : Receive(ask)
  BY <1>2 DEF Receive
<1>3. ASSUME NEW q \in Requests, Filter(q) PROVE Next
  BY <1>3 DEF Filter, Next
<1>4. CASE (\E c \in Coordinates : Pom(c)) \/ Answer
  BY <1>4 DEF Pom, Answer
<1>5. ASSUME NEW q \in Requests, Handle(q) PROVE Next
  BY <1>5 DEF Next
<1>6. CASE HandlePom /\ UNCHANGED <<vars, http>>
  BY <1>6
<1>7. ASSUME NEW bearer \in Bearers, HandlePolicyReload(bearer) PROVE Next
  BY <1>7 DEF HandlePolicyReload, Next
<1>8. ASSUME NEW v \in Versions, Sync(v) PROVE Next
  BY <1>8 DEF Next
<1> QED
  BY <1>1, <1>2, <1>3, <1>4, <1>5, <1>6, <1>7, <1>8 DEF ServerNext, Work

LEMMA ServerFilterCorrect == ServerSpec => []FilterInv
<1>1. FilterInv /\ [ServerNext]_server => FilterInv'
  BY ServerStep, FilterStep, DeliveredInv
<1> QED
  BY ServerFilterInit, <1>1, PTL DEF ServerSpec

\* The type invariant of the filters, in the server.
THEOREM ServerTypeCorrect == ServerSpec => []TypeOK
BY FilterInvGives, ServerFilterCorrect, PTL

\* Whatever client it was routed from and whatever came before it: a version that
\* a list is answered with was allowed while the list was handled.
THEOREM ServerServesAllowed == ServerSpec => []ServedWasAllowed
BY FilterInvGives, ServerFilterCorrect, PTL

\* The tags of an answer point at versions in it.
THEOREM ServerTagsAreServed == ServerSpec => []TagsAreServed
BY FilterInvGives, ServerFilterCorrect, PTL

\* The decision log and the answer agree.
THEOREM ServerRecordIsComplete == ServerSpec => []RecordMatchesAnswer
BY FilterInvGives, ServerFilterCorrect, PTL

\* No version is served beside the one that a rule rewrites it to.
THEOREM ServerReplacesSources == ServerSpec => []TargetReplacesSource
BY FilterInvGives, ServerFilterCorrect, PTL

-----------------------------------------------------------------------------
(* Routing *)

\* A client shows itself as of the ecosystems that its headers mention.
LEMMA ShownIsMentioned ==
    ASSUME NEW ask, NEW e \in Ecosystems
    PROVE  Shows(ask, e) <=> e \in Mentioned(ask)
BY DEF Shows, Mentioned, Ecosystems

\* When the signs are of one ecosystem only, the order they are looked for in does
\* not matter.
LEMMA DetectedByItsSigns ==
    ASSUME NEW ask, NEW e \in Ecosystems, \A o \in Ecosystems : Shows(ask, o) <=> o = e
    PROVE  DetectEcosystem(ask) = e
<1> DEFINE shown == {i \in 1..4 : Shows(ask, DetectionOrder[i])}
           first == CHOOSE i \in shown : \A j \in shown : i <= j
<1>1. PICK n \in 1..4 : DetectionOrder[n] = e
  BY DEF Ecosystems, DetectionOrder
<1>2. \A i \in 1..4 : DetectionOrder[i] \in Ecosystems /\ (DetectionOrder[i] = e => i = n)
  BY <1>1 DEF Ecosystems, DetectionOrder
<1>3. shown = {n}
  BY <1>1, <1>2
<1>4. first = n
  <2> HIDE DEF shown
  <2> QED
    BY <1>1, <1>3
<1>5. DetectEcosystem(ask) = DetectionOrder[first]
  <2>1. shown # {}
    BY <1>3
  <2> QED
    BY <2>1, Zenon DEF DetectEcosystem
<1> HIDE DEF shown, first
<1> QED
  BY <1>1, <1>4, <1>5

LEMMA DetectedByArtifactory ==
    ASSUME NEW ask, \A e \in Ecosystems : ~Shows(ask, e)
    PROVE  DetectEcosystem(ask) = IF ask.repoType \in Ecosystems THEN ask.repoType
                                  ELSE IF "artifactory" \in ask.says
                                  THEN FromArtifactoryPath(ask.path) ELSE "none"
<1>1. {i \in 1..4 : Shows(ask, DetectionOrder[i])} = {}
  <2>1. \A i \in 1..4 : DetectionOrder[i] \in Ecosystems
    BY DEF Ecosystems, DetectionOrder
  <2> QED
    BY <2>1
<1> QED
  BY <1>1, Zenon DEF DetectEcosystem

\* A request that tells its ecosystem is routed to that ecosystem's handler.
LEMMA RoutedAsTold ==
    ASSUME ClientsTell, NEW ask \in Asks, ask.client \in Ecosystems
    PROVE  Route(ask) = ServeHTTP(ask.client, ask.sends)
<1>1. ask.sends \in Seq(STRING) /\ ask.sends # << >>
  BY AskAssumption DEF ClientsTell, Ask
<1>2. CASE ask.path = <<ask.client>> \o ask.sends
  <2> DEFINE Segments == STRING \cup Ecosystems
  <2>1. ask.client \in Segments /\ ask.sends \in Seq(Segments)
    BY <1>1
  <2> HIDE DEF Segments
  <2>2. ASSUME NEW e \in Segments, NEW below \in Seq(Segments), below # << >>
        PROVE  LET path == <<e>> \o below
               IN  Len(path) > 1 /\ Head(path) = e /\ Tail(path) = below
    <3>1. <<e>> \in Seq(Segments) /\ Len(<<e>>) = 1
      OBVIOUS
    <3>2. Len(below) > 0
      BY <2>2, EmptySeq
    <3>3. Len(<<e>> \o below) = 1 + Len(below) /\ Head(<<e>> \o below) = e
      BY <3>1, <3>2
    <3>4. Tail(<<e>> \o below) = below
      BY <3>1, <3>2
    <3> QED
      BY <3>2, <3>3, <3>4
  <2>3. Len(ask.path) > 1 /\ Head(ask.path) = ask.client /\ Tail(ask.path) = ask.sends
    BY <1>1, <1>2, <2>1, <2>2
  <2> QED
    BY <2>3 DEF Route
<1>3. CASE /\ ask.path = ask.sends
           /\ Head(ask.sends) \notin Ecosystems /\ ask.sends \notin Pages
           /\ \/ Mentioned(ask) = {ask.client}
              \/ Mentioned(ask) = {} /\ ArtifactoryTells(ask)
  <2>1. DetectEcosystem(ask) = ask.client
    <3>1. CASE Mentioned(ask) = {ask.client}
      <4>1. \A o \in Ecosystems : Shows(ask, o) <=> o = ask.client
        BY <3>1, ShownIsMentioned
      <4> QED
        BY <4>1, DetectedByItsSigns
    <3>2. CASE Mentioned(ask) = {} /\ ArtifactoryTells(ask)
      <4>1. "other" \notin Ecosystems
        BY DEF Ecosystems
      <4>2. \A e \in Ecosystems : ~Shows(ask, e)
        BY <3>2, ShownIsMentioned
      <4> QED
        BY <1>3, <3>2, <4>1, <4>2, DetectedByArtifactory DEF ArtifactoryTells
    <3> QED
      BY <1>3, <3>1, <3>2
  <2>2. ask.client # "none"
    BY DEF Ecosystems
  <2> QED
    BY <1>3, <2>1, <2>2 DEF Route
<1> QED
  BY <1>2, <1>3 DEF ClientsTell

\* What is being routed came from a client and has been routed once.
Routed == http = Nobody \/ (http.ask \in Asks /\ http.kind = Route(http.ask))

LEMMA RoutedStep == Routed /\ [ServerNext]_server => Routed'
<1> SUFFICES ASSUME Routed, [ServerNext]_server PROVE Routed'
  OBVIOUS
<1>1. CASE UNCHANGED http
  BY <1>1 DEF Routed
<1>2. CASE http' = Nobody
  BY <1>2 DEF Routed
<1>3. ASSUME NEW ask \in Asks, Receive(ask) PROVE Routed'
  BY <1>3 DEF Receive, Routed
<1>4. CASE UNCHANGED server
  BY <1>1, <1>4 DEF server
<1>5. CASE Work
  BY <1>1, <1>2, <1>5 DEF Work, Filter, Pom, Answer, Deliver
<1>6. CASE (\E bearer \in Bearers : HandlePolicyReload(bearer))
            \/ (\E v \in Versions : Sync(v) /\ UNCHANGED <<pom, http>>)
  BY <1>1, <1>6 DEF HandlePolicyReload
<1> QED
  BY <1>3, <1>4, <1>5, <1>6 DEF ServerNext

LEMMA RoutedFinds == ASSUME ClientsTell PROVE Routed => ClientsFindTheirHandler
<1> SUFFICES ASSUME Routed, http.ask.client \in Ecosystems
             PROVE  http.kind = ServeHTTP(http.ask.client, http.ask.sends)
  BY DEF ClientsFindTheirHandler
<1>1. http # Nobody
  <2>1. Nobody.ask.client = "none" /\ "none" \notin Ecosystems
    BY DEF Nobody, NoAsk, Ecosystems
  <2> QED
    BY <2>1
<1> QED
  BY <1>1, RoutedAsTold DEF Routed

\* For every set of requests that tell their ecosystem: while one is routed, after
\* whatever others, it is to the handler of its client's ecosystem that it goes
\* (server.go:119-163, 207-224, 456-526).
THEOREM ClientsAreServedByTheirOwn ==
    ASSUME ClientsTell PROVE ServerSpec => []ClientsFindTheirHandler
<1>1. ServerInit => Routed
  BY DEF ServerInit, Routed
<1>2. Routed => ClientsFindTheirHandler
  BY RoutedFinds
<1> QED
  BY <1>1, <1>2, RoutedStep, PTL DEF ServerSpec

-----------------------------------------------------------------------------
(* Recursion: what holds at 0 and passes from each number to the next one,    *)
(* because there would be a least number without it.                          *)

LEMMA LeastNumber ==
    ASSUME NEW S \in SUBSET Nat, S # {}
    PROVE  \E n \in S : \A m \in S : n <= m
<1> DEFINE Less == {p \in Nat \X Nat : p[1] < p[2]}
<1>1. IsWellFoundedOn(Less, Nat)
  BY NatLessThanWellFounded, Zenon DEF OpToRel
<1> HIDE DEF Less
<1>2. PICK n \in S : \A m \in S : ~(<<m, n>> \in Less)
  BY <1>1, WFMin
<1>3. \A m \in S : ~(m < n)
  BY <1>2 DEF Less
<1> QED
  BY <1>2, <1>3

LEMMA UpTo ==
    ASSUME NEW N \in Nat, NEW S, 0 \in S, \A n \in 1..N : n - 1 \in S => n \in S
    PROVE  0..N \subseteq S
<1> SUFFICES ASSUME 0..N \ S # {} PROVE FALSE
  OBVIOUS
<1> DEFINE missing == 0..N \ S
<1>1. missing \in SUBSET Nat /\ missing # {}
  OBVIOUS
<1>2. PICK n \in missing : \A m \in missing : n <= m
  <2> HIDE DEF missing
  <2> QED
    BY <1>1, LeastNumber
<1>3. n # 0 /\ n \in 1..N
  BY <1>2
<1>4. n - 1 \in S
  BY <1>2, <1>3
<1> QED
  BY <1>2, <1>3, <1>4

\* A function that starts with x and is continued by step: there is one.
Continued(N, X, x, step, f) ==
    /\ f \in [0..N -> X]
    /\ f[0] = x
    /\ \A n \in 1..N : f[n] = step[n][f[n - 1]]

LEMMA Iterated ==
    ASSUME NEW N \in Nat, NEW X, NEW x \in X, NEW step \in [1..N -> [X -> X]]
    PROVE  \E f : Continued(N, X, x, step, f)
<1> DEFINE Reaches(n, f) == f[0] = x /\ \A i \in 1..n : f[i] = step[i][f[i - 1]]
           S == {n \in 0..N : \E f \in [0..n -> X] : Reaches(n, f)}
<1>1. 0 \in S
  <2> DEFINE f == [i \in 0..0 |-> x]
  <2>1. f \in [0..0 -> X] /\ Reaches(0, f)
    OBVIOUS
  <2> HIDE DEF f, Reaches
  <2> QED
    BY <2>1
<1>2. ASSUME NEW n \in 1..N, n - 1 \in S PROVE n \in S
  <2>1. PICK f \in [0..(n - 1) -> X] : Reaches(n - 1, f)
    BY <1>2
  <2> DEFINE next == step[n][f[n - 1]]
             g == [i \in 0..n |-> IF i = n THEN next ELSE f[i]]
  <2>2. next \in X
    <3>1. f[n - 1] \in X
      BY <2>1
    <3> QED
      BY <3>1
  <2>3. g[n] = next /\ \A i \in 0..(n - 1) : g[i] = f[i]
    OBVIOUS
  <2>4. g \in [0..n -> X]
    <3> HIDE DEF next
    <3> QED
      BY <2>2
  <2>5. Reaches(n, g)
    <3>1. g[0] = x
      BY <2>1, <2>3
    <3>2. ASSUME NEW i \in 1..n PROVE g[i] = step[i][g[i - 1]]
      <4>1. CASE i = n
        BY <2>3, <4>1
      <4>2. CASE i # n
        <5>1. i \in 0..(n - 1) /\ i - 1 \in 0..(n - 1) /\ i \in 1..(n - 1)
          BY <4>2
        <5> QED
          BY <2>1, <2>3, <5>1
      <4> QED
        BY <4>1, <4>2
    <3> QED
      BY <3>1, <3>2
  <2> HIDE DEF g, Reaches
  <2> QED
    BY <2>4, <2>5
<1>3. N \in S
  <2> HIDE DEF S
  <2>1. 0..N \subseteq S
    BY <1>1, <1>2, UpTo
  <2> QED
    BY <2>1
<1>4. PICK f \in [0..N -> X] : Reaches(N, f)
  BY <1>3
<1> QED
  BY <1>4 DEF Continued

-----------------------------------------------------------------------------
(* Texts *)

Table == [Parts -> Text]
Alone == [part \in Parts |-> <<part>>]

\* Every text is made by appending parts.
LEMMA TextsByAppending ==
    ASSUME NEW S, << >> \in S, \A t \in Text, p \in Parts : t \in S => Append(t, p) \in S
    PROVE  Text \subseteq S
<1> SUFFICES ASSUME NEW t \in Text PROVE t \in S
  OBVIOUS
<1>0. t \in Seq(Parts) /\ Len(t) \in Nat
  BY DEF Text
<1> DEFINE First(n) == SubSeq(t, 1, n)
           R == {n \in 0..Len(t) : First(n) \in S}
<1>1. 0 \in R
  <2>1. First(0) = << >>
    BY <1>0
  <2> HIDE DEF First
  <2> QED
    BY <1>0, <2>1
<1>2. ASSUME NEW n \in 1..Len(t), n - 1 \in R PROVE n \in R
  <2>1. First(n - 1) \in Seq(Parts) /\ t[n] \in Parts
    BY <1>0, <1>2
  <2>2. First(n) = Append(First(n - 1), t[n])
    BY <1>0, <1>2
  <2> HIDE DEF First
  <2>3. First(n) \in S
    BY <1>2, <2>1, <2>2 DEF Text
  <2> QED
    BY <2>3
<1>3. Len(t) \in R
  <2> HIDE DEF R
  <2>1. 0..Len(t) \subseteq R
    BY <1>0, <1>1, <1>2, UpTo
  <2> QED
    BY <1>0, <2>1
<1>4. First(Len(t)) = t
  BY <1>0
<1> QED
  BY <1>3, <1>4

\* The recursion in Spelled.
LEMMA SpelledBy ==
    ASSUME NEW text \in Text, NEW of \in Table
    PROVE  \E done \in [0..Len(text) -> Text] :
               /\ done[0] = << >>
               /\ \A n \in 1..Len(text) : done[n] = done[n - 1] \o of[text[n]]
               /\ Spelled(text, of) = done[Len(text)]
<1> DEFINE N == Len(text)
           step == [n \in 1..N |-> [t \in Text |-> t \o of[text[n]]]]
           Equation(f) ==
               f = [n \in 0..N |-> IF n = 0 THEN << >> ELSE f[n - 1] \o of[text[n]]]
           chosen == CHOOSE f : Equation(f)
<1>1. N \in Nat /\ \A n \in 1..N : text[n] \in Parts /\ of[text[n]] \in Text
  BY DEF Text, Table
<1>2. << >> \in Text /\ \A t \in Text, u \in Text : t \o u \in Text
  BY DEF Text
<1>3. step \in [1..N -> [Text -> Text]]
  <2> HIDE DEF N
  <2> QED
    BY <1>1, <1>2
<1>4. PICK f : Continued(N, Text, << >>, step, f)
  <2> HIDE DEF N, step
  <2> QED
    BY <1>1, <1>2, <1>3, Iterated
<1>5. f \in [0..N -> Text] /\ f[0] = << >> /\ \A n \in 1..N : f[n] = step[n][f[n - 1]]
  <2> HIDE DEF N, step
  <2> QED
    BY <1>4 DEF Continued
<1>6. \A n \in 1..N : f[n - 1] \in Text /\ f[n] = f[n - 1] \o of[text[n]]
  <2> HIDE DEF N
  <2> SUFFICES ASSUME NEW n \in 1..N
               PROVE f[n - 1] \in Text /\ f[n] = f[n - 1] \o of[text[n]]
    OBVIOUS
  <2>1. n - 1 \in 0..N
    BY <1>1
  <2> QED
    BY <1>5, <2>1
<1>7. Equation(f)
  <2> HIDE DEF N, step
  <2> DEFINE g == [n \in 0..N |-> IF n = 0 THEN << >> ELSE f[n - 1] \o of[text[n]]]
  <2>1. ASSUME NEW n \in 0..N PROVE f[n] = g[n]
    <3>1. CASE n = 0
      BY <1>5, <3>1
    <3>2. CASE n # 0
      <4>1. n \in 1..N
        BY <1>1, <3>2
      <4>2. g[n] = f[n - 1] \o of[text[n]]
        BY <3>2
      <4>3. f[n] = f[n - 1] \o of[text[n]]
        BY <1>6, <4>1
      <4> QED
        BY <4>2, <4>3
    <3> QED
      BY <3>1, <3>2
  <2>2. f = [n \in 0..N |-> f[n]]
    BY <1>5
  <2> QED
    BY <2>1, <2>2
<1>8. Equation(chosen)
  BY <1>7
<1>9. Spelled(text, of) = chosen[N]
  BY DEF Spelled
<1> HIDE DEF chosen, N, step
<1>10. /\ chosen[0] = << >>
      /\ \A n \in 1..N : chosen[n] = chosen[n - 1] \o of[text[n]]
  BY <1>1, <1>8
<1>11. \A n \in 0..N : chosen[n] = f[n]
  <2> DEFINE S == {n \in 0..N : chosen[n] = f[n]}
  <2>1. 0 \in S
    BY <1>1, <1>5, <1>10
  <2>2. ASSUME NEW n \in 1..N, n - 1 \in S PROVE n \in S
    <3>1. chosen[n - 1] = f[n - 1] /\ n \in 0..N
      BY <1>1, <2>2
    <3> QED
      BY <1>6, <1>10, <3>1
  <2> HIDE DEF S
  <2>3. 0..N \subseteq S
    BY <1>1, <2>1, <2>2, UpTo
  <2> QED
    BY <2>3 DEF S
<1>12. chosen \in [0..N -> Text]
  <2>1. DOMAIN chosen = 0..N /\ chosen = [n \in 0..N |-> chosen[n]]
    BY <1>8, Zenon
  <2> QED
    BY <1>5, <1>11, <2>1
<1> QED
  BY <1>1, <1>9, <1>10, <1>12 DEF N

LEMMA SpelledIsText ==
    ASSUME NEW text \in Text, NEW of \in Table
    PROVE  Spelled(text, of) \in Text
<1>1. Len(text) \in Nat
  BY DEF Text
<1>2. PICK done \in [0..Len(text) -> Text] : Spelled(text, of) = done[Len(text)]
  BY SpelledBy
<1> QED
  BY <1>1, <1>2

LEMMA SpelledEmpty ==
    ASSUME NEW of \in Table
    PROVE  Spelled(<< >>, of) = << >>
<1>1. << >> \in Text /\ Len(<< >>) = 0
  BY DEF Text
<1> QED
  BY <1>1, SpelledBy

LEMMA SpelledAppend ==
    ASSUME NEW text \in Text, NEW part \in Parts, NEW of \in Table
    PROVE  Spelled(Append(text, part), of) = Spelled(text, of) \o of[part]
<1> DEFINE longer == Append(text, part)
           N == Len(text)
<1>1. N \in Nat
  BY DEF Text
<1>2. longer \in Text /\ Len(longer) = N + 1
  BY DEF Text
<1>3. longer[N + 1] = part /\ \A n \in 1..N : longer[n] = text[n]
  BY DEF Text
<1>4. PICK done \in [0..N -> Text] :
          /\ done[0] = << >>
          /\ \A n \in 1..N : done[n] = done[n - 1] \o of[text[n]]
          /\ Spelled(text, of) = done[N]
  BY SpelledBy
<1>5. PICK more \in [0..(N + 1) -> Text] :
          /\ more[0] = << >>
          /\ \A n \in 1..(N + 1) : more[n] = more[n - 1] \o of[longer[n]]
          /\ Spelled(longer, of) = more[N + 1]
  <2> HIDE DEF longer, N
  <2>1. PICK f \in [0..Len(longer) -> Text] :
          /\ f[0] = << >>
          /\ \A n \in 1..Len(longer) : f[n] = f[n - 1] \o of[longer[n]]
          /\ Spelled(longer, of) = f[Len(longer)]
    BY <1>2, SpelledBy
  <2> QED
    BY <1>2, <2>1
<1> HIDE DEF longer, N
<1>6. more[N] = done[N]
  <2> DEFINE S == {n \in 0..N : more[n] = done[n]}
  <2>1. 0 \in S
    BY <1>1, <1>4, <1>5
  <2>2. ASSUME NEW n \in 1..N, n - 1 \in S PROVE n \in S
    <3>1. /\ n \in 1..(N + 1) /\ n \in 0..N
          /\ more[n - 1] = done[n - 1] /\ longer[n] = text[n]
      BY <1>1, <1>3, <2>2
    <3> QED
      BY <1>4, <1>5, <3>1
  <2> HIDE DEF S
  <2>3. 0..N \subseteq S
    BY <1>1, <2>1, <2>2, UpTo
  <2> QED
    BY <1>1, <2>3 DEF S
<1>7. N + 1 \in 1..(N + 1) /\ (N + 1) - 1 = N
  BY <1>1
<1>8. more[N + 1] = more[N] \o of[part]
  BY <1>3, <1>5, <1>7
<1> QED
  BY <1>4, <1>5, <1>6, <1>8 DEF longer

LEMMA SpelledAlone ==
    ASSUME NEW text \in Text
    PROVE  Alone \in Table /\ Spelled(text, Alone) = text
<1>1. Alone \in Table
  BY DEF Alone, Table, Text
<1> DEFINE S == {t \in Text : Spelled(t, Alone) = t}
<1>2. << >> \in S
  BY <1>1, SpelledEmpty DEF Text
<1>3. ASSUME NEW t \in Text, NEW p \in Parts, t \in S PROVE Append(t, p) \in S
  <2>1. Append(t, p) \in Text /\ Append(t, p) = t \o <<p>>
    BY DEF Text
  <2>2. Spelled(Append(t, p), Alone) = t \o <<p>>
    BY <1>1, <1>3, SpelledAppend DEF Alone
  <2> QED
    BY <2>1, <2>2
<1> HIDE DEF S
<1>4. Text \subseteq S
  BY <1>2, <1>3, TextsByAppending
<1> QED
  BY <1>1, <1>4 DEF S

LEMMA SpelledPart ==
    ASSUME NEW part \in Parts, NEW of \in Table
    PROVE  Spelled(<<part>>, of) = of[part]
<1>1. << >> \in Text /\ of[part] \in Seq(Parts)
  BY DEF Text, Table
<1>2. Append(<< >>, part) = <<part>> /\ << >> \o of[part] = of[part]
  BY <1>1
<1> QED
  BY <1>1, <1>2, SpelledAppend, SpelledEmpty

LEMMA SpelledConcat ==
    ASSUME NEW s \in Text, NEW text \in Text, NEW of \in Table
    PROVE  Spelled(s \o text, of) = Spelled(s, of) \o Spelled(text, of)
<1> DEFINE S == {t \in Text : Spelled(s \o t, of) = Spelled(s, of) \o Spelled(t, of)}
<1>0. Spelled(s, of) \in Text /\ \A t \in Text : Spelled(t, of) \in Text
  BY SpelledIsText
<1>1. << >> \in S
  <2>1. s \o << >> = s /\ Spelled(s, of) \o << >> = Spelled(s, of) /\ << >> \in Text
    BY <1>0 DEF Text
  <2> QED
    BY <2>1, SpelledEmpty
<1>2. ASSUME NEW t \in Text, NEW p \in Parts, t \in S PROVE Append(t, p) \in S
  <2>1. /\ Append(t, p) \in Text /\ s \o t \in Text
        /\ s \o Append(t, p) = Append(s \o t, p)
    BY DEF Text
  <2>2. Spelled(Append(s \o t, p), of) = (Spelled(s, of) \o Spelled(t, of)) \o of[p]
    BY <1>2, <2>1, SpelledAppend
  <2>3. Spelled(Append(t, p), of) = Spelled(t, of) \o of[p]
    BY SpelledAppend
  <2>4. of[p] \in Text
    BY DEF Table
  <2>5. (Spelled(s, of) \o Spelled(t, of)) \o of[p] = Spelled(s, of) \o (Spelled(t, of) \o of[p])
    <3>1. ASSUME NEW a \in Seq(Parts), NEW b \in Seq(Parts), NEW c \in Seq(Parts)
          PROVE  (a \o b) \o c = a \o (b \o c)
      <4> DEFINE left == (a \o b) \o c
                 right == a \o (b \o c)
      <4>1. left \in Seq(Parts) /\ right \in Seq(Parts)
        OBVIOUS
      <4>2. Len(left) = Len(right)
        OBVIOUS
      <4>3. \A i \in 1..Len(left) : left[i] = right[i]
        OBVIOUS
      <4> HIDE DEF left, right
      <4>4. left = right
        BY <4>1, <4>2, <4>3, SeqEqual
      <4> QED
        BY <4>4 DEF left, right
    <3> DEFINE x == Spelled(s, of)
               y == Spelled(t, of)
               z == of[p]
    <3>2. x \in Seq(Parts) /\ y \in Seq(Parts) /\ z \in Seq(Parts)
      BY <1>0, <2>4 DEF Text
    <3> HIDE DEF x, y, z
    <3>3. (x \o y) \o z = x \o (y \o z)
      BY <3>1, <3>2, Zenon
    <3> QED
      BY <3>3, Zenon DEF x, y, z
  <2> QED
    BY <2>1, <2>2, <2>3, <2>5
<1> HIDE DEF S
<1>3. Text \subseteq S
  BY <1>1, <1>2, TextsByAppending
<1> QED
  BY <1>3 DEF S

\* A table of texts that are spelled in turn.
Through(f, of) == [part \in Parts |-> Spelled(f[part], of)]

LEMMA SpelledThrough ==
    ASSUME NEW text \in Text, NEW f \in Table, NEW of \in Table
    PROVE  /\ Through(f, of) \in Table
           /\ Spelled(Spelled(text, f), of) = Spelled(text, Through(f, of))
<1>1. Through(f, of) \in Table
  BY SpelledIsText DEF Through, Table
<1> DEFINE S == {t \in Text : Spelled(Spelled(t, f), of) = Spelled(t, Through(f, of))}
<1>2. << >> \in S
  BY <1>1, SpelledEmpty DEF Text
<1>3. ASSUME NEW t \in Text, NEW p \in Parts, t \in S PROVE Append(t, p) \in S
  <2>1. Append(t, p) \in Text /\ Spelled(t, f) \in Text /\ f[p] \in Text
    BY SpelledIsText DEF Text, Table
  <2>2. Spelled(Append(t, p), f) = Spelled(t, f) \o f[p]
    BY SpelledAppend
  <2>3. Spelled(Spelled(t, f) \o f[p], of) = Spelled(Spelled(t, f), of) \o Spelled(f[p], of)
    BY <2>1, SpelledConcat
  <2>4. Spelled(Append(t, p), Through(f, of)) = Spelled(t, Through(f, of)) \o Spelled(f[p], of)
    BY <1>1, SpelledAppend DEF Through
  <2> QED
    BY <1>3, <2>1, <2>2, <2>3, <2>4
<1> HIDE DEF S
<1>4. Text \subseteq S
  BY <1>2, <1>3, TextsByAppending
<1> QED
  BY <1>1, <1>4 DEF S

\* Only what a table has for the parts of a text counts,
LEMMA SpelledAlike ==
    ASSUME NEW text \in Text, NEW f \in Table, NEW g \in Table,
           \A i \in DOMAIN text : f[text[i]] = g[text[i]]
    PROVE  Spelled(text, f) = Spelled(text, g)
<1> DEFINE S == {t \in Text : (\A i \in DOMAIN t : f[t[i]] = g[t[i]])
                                  => Spelled(t, f) = Spelled(t, g)}
<1>1. << >> \in S
  BY SpelledEmpty DEF Text
<1>2. ASSUME NEW t \in Text, NEW p \in Parts, t \in S PROVE Append(t, p) \in S
  <2>1. Append(t, p) \in Text
    BY DEF Text
  <2> SUFFICES ASSUME \A i \in DOMAIN Append(t, p) : f[Append(t, p)[i]] = g[Append(t, p)[i]]
               PROVE  Spelled(Append(t, p), f) = Spelled(Append(t, p), g)
    BY <2>1
  <2>2. Len(t) \in Nat /\ DOMAIN t = 1..Len(t) /\ DOMAIN Append(t, p) = 1..(Len(t) + 1)
    BY DEF Text
  <2>3. Append(t, p)[Len(t) + 1] = p /\ \A i \in 1..Len(t) : Append(t, p)[i] = t[i]
    BY DEF Text
  <2>4. \A i \in DOMAIN t : f[t[i]] = g[t[i]]
    BY <2>2, <2>3
  <2>5. f[p] = g[p]
    BY <2>2, <2>3
  <2>6. Spelled(t, f) = Spelled(t, g)
    BY <1>2, <2>4
  <2>7. /\ Spelled(Append(t, p), f) = Spelled(t, f) \o f[p]
        /\ Spelled(Append(t, p), g) = Spelled(t, g) \o g[p]
    BY SpelledAppend
  <2> QED
    BY <2>5, <2>6, <2>7
<1> HIDE DEF S
<1>3. Text \subseteq S
  BY <1>1, <1>2, TextsByAppending
<1> QED
  BY <1>3 DEF S

\* and the references in a text that is spelled are those of its parts.
LEMMA SpelledReferences ==
    ASSUME NEW text \in Text, NEW of \in Table
    PROVE  Unresolved(Spelled(text, of)) <=> \E i \in DOMAIN text : Unresolved(of[text[i]])
<1> DEFINE S == {t \in Text : Unresolved(Spelled(t, of))
                                  <=> \E i \in DOMAIN t : Unresolved(of[t[i]])}
<1>1. << >> \in S
  BY SpelledEmpty DEF Text, Unresolved
<1>2. ASSUME NEW t \in Text, NEW p \in Parts, t \in S PROVE Append(t, p) \in S
  <2>1. Append(t, p) \in Text /\ Spelled(t, of) \in Text /\ of[p] \in Text
    BY SpelledIsText DEF Text, Table
  <2>2. Len(t) \in Nat /\ DOMAIN t = 1..Len(t) /\ DOMAIN Append(t, p) = 1..(Len(t) + 1)
    BY DEF Text
  <2>3. Append(t, p)[Len(t) + 1] = p /\ \A i \in 1..Len(t) : Append(t, p)[i] = t[i]
    BY DEF Text
  <2>4. (\E i \in DOMAIN Append(t, p) : Unresolved(of[Append(t, p)[i]]))
            <=> (\E i \in DOMAIN t : Unresolved(of[t[i]])) \/ Unresolved(of[p])
    BY <2>2, <2>3
  <2>5. ASSUME NEW u \in Text, NEW w \in Text
        PROVE  Unresolved(u \o w) <=> Unresolved(u) \/ Unresolved(w)
    <3>1. /\ u \in Seq(Parts) /\ w \in Seq(Parts) /\ u \o w \in Seq(Parts)
          /\ Len(u) \in Nat /\ Len(w) \in Nat /\ Len(u \o w) = Len(u) + Len(w)
          /\ DOMAIN u = 1..Len(u) /\ DOMAIN w = 1..Len(w)
          /\ DOMAIN (u \o w) = 1..(Len(u) + Len(w))
      BY DEF Text
    <3>2. /\ \A i \in 1..Len(u) : (u \o w)[i] = u[i]
          /\ \A i \in 1..Len(w) : (u \o w)[Len(u) + i] = w[i]
      BY <3>1
    <3>3. ASSUME NEW i \in DOMAIN u, u[i] \in Keys PROVE Unresolved(u \o w)
      <4>1. i \in DOMAIN (u \o w) /\ (u \o w)[i] = u[i]
        BY <3>1, <3>2
      <4> QED
        BY <3>3, <4>1 DEF Unresolved
    <3>4. ASSUME NEW i \in DOMAIN w, w[i] \in Keys PROVE Unresolved(u \o w)
      <4>1. Len(u) + i \in DOMAIN (u \o w) /\ (u \o w)[Len(u) + i] = w[i]
        <5>1. i \in 1..Len(w) /\ Len(u) + i \in 1..(Len(u) + Len(w))
          BY <3>1
        <5> QED
          BY <3>1, <3>2, <5>1
      <4> QED
        BY <3>4, <4>1 DEF Unresolved
    <3>5. ASSUME NEW i \in DOMAIN (u \o w), (u \o w)[i] \in Keys
          PROVE  Unresolved(u) \/ Unresolved(w)
      <4>1. CASE i <= Len(u)
        <5>1. i \in DOMAIN u /\ (u \o w)[i] = u[i]
          BY <3>1, <3>2, <4>1
        <5> QED
          BY <3>5, <5>1 DEF Unresolved
      <4>2. CASE ~(i <= Len(u))
        <5>1. i - Len(u) \in 1..Len(w) /\ i = Len(u) + (i - Len(u))
          BY <3>1, <4>2
        <5>2. i - Len(u) \in DOMAIN w /\ (u \o w)[i] = w[i - Len(u)]
          BY <3>1, <3>2, <5>1
        <5> QED
          BY <3>5, <5>2 DEF Unresolved
      <4> QED
        BY <4>1, <4>2
    <3> QED
      BY <3>3, <3>4, <3>5 DEF Unresolved
  <2>6. Unresolved(Spelled(Append(t, p), of)) <=> Unresolved(Spelled(t, of)) \/ Unresolved(of[p])
    <3>1. Spelled(Append(t, p), of) = Spelled(t, of) \o of[p]
      BY SpelledAppend
    <3> QED
      BY <2>1, <2>5, <3>1
  <2>7. Unresolved(Spelled(Append(t, p), of))
            <=> \E i \in DOMAIN Append(t, p) : Unresolved(of[Append(t, p)[i]])
    BY <1>2, <2>4, <2>6
  <2> QED
    BY <2>1, <2>7
<1> HIDE DEF S
<1>3. Text \subseteq S
  BY <1>1, <1>2, TextsByAppending
<1> QED
  BY <1>3 DEF S

-----------------------------------------------------------------------------
(* The properties of a POM *)

Poms == {Registry[c] : c \in Coordinates}
Given == UNION {[names -> Text] : names \in SUBSET Keys}

LEMMA PomsAreProjects ==
    ASSUME NEW p \in Poms
    PROVE  PomProject(p)
BY PomAssumption DEF Poms

LEMMA OverIsGiven ==
    ASSUME NEW f, NEW g, Entries(Keys, f), Entries(Keys, g)
    PROVE  /\ Over(f, g) \in Given
           /\ Entries(Keys, Over(f, g))
           /\ DOMAIN Over(f, g) = DOMAIN f \cup DOMAIN g
           /\ \A k \in DOMAIN f : Over(f, g)[k] = f[k]
           /\ \A k \in DOMAIN g : k \notin DOMAIN f => Over(f, g)[k] = g[k]
<1> DEFINE names == DOMAIN f \cup DOMAIN g
           h == [k \in names |-> IF k \in DOMAIN f THEN f[k] ELSE g[k]]
<1>1. names \in SUBSET Keys /\ \A k \in names : (IF k \in DOMAIN f THEN f[k] ELSE g[k]) \in Text
  BY DEF Entries
<1>2. h \in [names -> Text]
  <2> HIDE DEF names
  <2> QED
    BY <1>1
<1>3. Over(f, g) = h
  BY DEF Over
<1>4. h \in Given
  <2> HIDE DEF h, names
  <2> QED
    BY <1>1, <1>2 DEF Given
<1>5. Entries(Keys, h)
  BY <1>1 DEF Entries
<1> QED
  BY <1>3, <1>4, <1>5

LEMMA GivenIsEntries ==
    ASSUME NEW f \in Given
    PROVE  Entries(Keys, f)
BY DEF Given, Entries

LEMMA NothingGiven == NoEntries \in Given /\ DOMAIN NoEntries = {}
<1>1. NoEntries \in [{} -> Text]
  BY DEF NoEntries
<1>2. {} \in SUBSET Keys
  OBVIOUS
<1> QED
  BY <1>1, <1>2 DEF Given

LEMMA ImplicitIsGiven ==
    ASSUME NEW p \in Poms
    PROVE  Entries(Keys, Implicit(p))
<1> DEFINE inherited == IF p.parent # "none" /\ p.parentVersion # << >>
                        THEN [k \in {"project.version"} |-> p.parentVersion] ELSE NoEntries
<1>1. PomProject(p)
  BY PomsAreProjects
<1>2. Entries(Keys, p.own)
  BY <1>1, PomAssumption DEF PomProject, Entries
<1>3. Entries(Keys, inherited)
  <2>1. "project.version" \in Keys
    BY PomAssumption DEF ImplicitKeys
  <2>2. CASE inherited = NoEntries
    BY <2>2, NothingGiven DEF Entries
  <2>3. CASE inherited = [k \in {"project.version"} |-> p.parentVersion]
    BY <1>1, <2>1, <2>3 DEF PomProject, Entries
  <2> QED
    BY <2>2, <2>3
<1> HIDE DEF inherited
<1>4. Entries(Keys, Over(p.own, inherited))
  BY <1>2, <1>3, OverIsGiven
<1> QED
  BY <1>4 DEF Implicit, inherited

\* The recursion in CollectProperties.
LEMMA CollectedBy ==
    ASSUME NEW p \in Poms, NEW chain \in Seq(Poms)
    PROVE  \E set \in [0..Len(chain) -> Given] :
               /\ set[0] = NoEntries
               /\ \A n \in 1..Len(chain) : set[n] = Over(chain[n].properties, set[n - 1])
               /\ CollectProperties(p, chain)
                      = Over(Implicit(p), Over(p.properties, set[Len(chain)]))
<1> DEFINE N == Len(chain)
           step == [n \in 1..N |-> [props \in Given |-> Over(chain[n].properties, props)]]
           Equation(f) ==
               f = [n \in 0..N |-> IF n = 0 THEN NoEntries
                                   ELSE Over(chain[n].properties, f[n - 1])]
           chosen == CHOOSE f : Equation(f)
<1>1. N \in Nat /\ \A n \in 1..N : chain[n] \in Poms
  OBVIOUS
<1>2. ASSUME NEW n \in 1..N, NEW props \in Given
      PROVE  Over(chain[n].properties, props) \in Given
  <2>1. Entries(Keys, chain[n].properties)
    BY <1>1, PomsAreProjects DEF PomProject
  <2> QED
    BY <2>1, GivenIsEntries, OverIsGiven
<1>3. step \in [1..N -> [Given -> Given]]
  <2> HIDE DEF N
  <2> QED
    BY <1>2
<1>4. PICK f : Continued(N, Given, NoEntries, step, f)
  <2> HIDE DEF N, step
  <2> QED
    BY <1>1, <1>3, NothingGiven, Iterated
<1>5. f \in [0..N -> Given] /\ f[0] = NoEntries /\ \A n \in 1..N : f[n] = step[n][f[n - 1]]
  <2> HIDE DEF N, step
  <2> QED
    BY <1>4 DEF Continued
<1>6. \A n \in 1..N : f[n - 1] \in Given /\ f[n] = Over(chain[n].properties, f[n - 1])
  <2> HIDE DEF N
  <2> SUFFICES ASSUME NEW n \in 1..N
               PROVE f[n - 1] \in Given /\ f[n] = Over(chain[n].properties, f[n - 1])
    OBVIOUS
  <2>1. n - 1 \in 0..N
    BY <1>1
  <2> QED
    BY <1>5, <2>1
<1>7. Equation(f)
  <2> HIDE DEF N, step
  <2> DEFINE g == [n \in 0..N |-> IF n = 0 THEN NoEntries
                                  ELSE Over(chain[n].properties, f[n - 1])]
  <2>1. ASSUME NEW n \in 0..N PROVE f[n] = g[n]
    <3>1. CASE n = 0
      BY <1>5, <3>1
    <3>2. CASE n # 0
      <4>1. n \in 1..N
        BY <1>1, <3>2
      <4>2. g[n] = Over(chain[n].properties, f[n - 1])
        BY <3>2
      <4>3. f[n] = Over(chain[n].properties, f[n - 1])
        BY <1>6, <4>1
      <4> QED
        BY <4>2, <4>3
    <3> QED
      BY <3>1, <3>2
  <2>2. f = [n \in 0..N |-> f[n]]
    BY <1>5
  <2> QED
    BY <2>1, <2>2
<1>8. Equation(chosen)
  BY <1>7
<1>9. CollectProperties(p, chain) = Over(Implicit(p), Over(p.properties, chosen[N]))
  BY DEF CollectProperties
<1> HIDE DEF chosen, N, step
<1>10. /\ chosen[0] = NoEntries
       /\ \A n \in 1..N : chosen[n] = Over(chain[n].properties, chosen[n - 1])
  BY <1>1, <1>8
<1>11. \A n \in 0..N : chosen[n] = f[n]
  <2> DEFINE S == {n \in 0..N : chosen[n] = f[n]}
  <2>1. 0 \in S
    BY <1>1, <1>5, <1>10
  <2>2. ASSUME NEW n \in 1..N, n - 1 \in S PROVE n \in S
    <3>1. chosen[n - 1] = f[n - 1] /\ n \in 0..N
      BY <1>1, <2>2
    <3> QED
      BY <1>6, <1>10, <3>1
  <2> HIDE DEF S
  <2>3. 0..N \subseteq S
    BY <1>1, <2>1, <2>2, UpTo
  <2> QED
    BY <2>3 DEF S
<1>12. chosen \in [0..N -> Given]
  <2>1. DOMAIN chosen = 0..N /\ chosen = [n \in 0..N |-> chosen[n]]
    BY <1>8, Zenon
  <2> QED
    BY <1>5, <1>11, <2>1
<1> QED
  BY <1>1, <1>9, <1>10, <1>12 DEF N

\* An ancestor at place i of a chain that defines k, with none nearer that does.
NearestAt(chain, k, i) ==
    /\ k \in DOMAIN chain[i].properties
    /\ \A j \in (i + 1)..Len(chain) : k \notin DOMAIN chain[j].properties

\* collectProperties: the POM's own elements, its properties, then those of the
\* nearest ancestor; and nothing else.
LEMMA CollectedIs ==
    ASSUME NEW p \in Poms, NEW chain \in Seq(Poms), NEW k \in Keys
    PROVE  LET props == CollectProperties(p, chain)
           IN  /\ Entries(Keys, props)
               /\ k \in DOMAIN Implicit(p) =>
                      k \in DOMAIN props /\ props[k] = Implicit(p)[k]
               /\ k \notin DOMAIN Implicit(p) /\ k \in DOMAIN p.properties =>
                      k \in DOMAIN props /\ props[k] = p.properties[k]
               /\ k \notin DOMAIN Implicit(p) /\ k \notin DOMAIN p.properties =>
                      /\ \A i \in 1..Len(chain) : NearestAt(chain, k, i) =>
                             k \in DOMAIN props /\ props[k] = chain[i].properties[k]
                      /\ (\A i \in 1..Len(chain) : k \notin DOMAIN chain[i].properties) =>
                             k \notin DOMAIN props
<1> DEFINE N == Len(chain)
           Has(i) == k \in DOMAIN chain[i].properties
<1>1. PICK set \in [0..N -> Given] :
          /\ set[0] = NoEntries
          /\ \A n \in 1..N : set[n] = Over(chain[n].properties, set[n - 1])
          /\ CollectProperties(p, chain) = Over(Implicit(p), Over(p.properties, set[N]))
  BY CollectedBy
<1>2. N \in Nat /\ \A n \in 1..N : chain[n] \in Poms
  OBVIOUS
<1>3. ASSUME NEW n \in 1..N
      PROVE  /\ Has(n) => k \in DOMAIN set[n] /\ set[n][k] = chain[n].properties[k]
             /\ ~Has(n) => (k \in DOMAIN set[n] <=> k \in DOMAIN set[n - 1])
             /\ ~Has(n) /\ k \in DOMAIN set[n - 1] => set[n][k] = set[n - 1][k]
  <2>1. set[n - 1] \in Given /\ Entries(Keys, chain[n].properties)
    <3>1. n - 1 \in 0..N
      BY <1>2
    <3> QED
      BY <1>2, <3>1, PomsAreProjects DEF PomProject
  <2>2. Entries(Keys, set[n - 1]) /\ set[n] = Over(chain[n].properties, set[n - 1])
    BY <1>1, <2>1, GivenIsEntries
  <2> DEFINE f == chain[n].properties
             g == set[n - 1]
  <2> HIDE DEF f, g
  <2>3. /\ DOMAIN Over(f, g) = DOMAIN f \cup DOMAIN g
        /\ \A x \in DOMAIN f : Over(f, g)[x] = f[x]
        /\ \A x \in DOMAIN g : x \notin DOMAIN f => Over(f, g)[x] = g[x]
    BY <2>1, <2>2, OverIsGiven DEF f, g
  <2> QED
    BY <2>2, <2>3 DEF f, g
<1> DEFINE Last(i, n) == Has(i) /\ \A j \in (i + 1)..n : ~Has(j)
           Right(n) == /\ \A i \in 1..n : Last(i, n) =>
                              k \in DOMAIN set[n] /\ set[n][k] = chain[i].properties[k]
                       /\ (\A i \in 1..n : ~Has(i)) => k \notin DOMAIN set[n]
           S == {n \in 0..N : Right(n)}
<1> HIDE DEF N, Has
<1>4. 0 \in S
  BY <1>1, <1>2, NothingGiven
<1>5. ASSUME NEW n \in 1..N, n - 1 \in S PROVE n \in S
  <2>0. n \in 0..N /\ n - 1 \in 0..N
    BY <1>2
  <2>1. ASSUME NEW i \in 1..n, Last(i, n)
        PROVE  k \in DOMAIN set[n] /\ set[n][k] = chain[i].properties[k]
    <3>1. CASE i = n
      BY <1>3, <2>1, <3>1
    <3>2. CASE i # n
      <4>1. i \in 1..(n - 1) /\ n \in (i + 1)..n
        BY <1>2, <3>2
      <4>2. Last(i, n - 1) /\ ~Has(n)
        BY <2>1, <4>1
      <4> QED
        BY <1>3, <1>5, <4>1, <4>2
    <3> QED
      BY <3>1, <3>2
  <2>2. ASSUME \A i \in 1..n : ~Has(i) PROVE k \notin DOMAIN set[n]
    BY <1>3, <1>5, <2>2
  <2> QED
    BY <2>0, <2>1, <2>2
<1>6. Right(N)
  <2> HIDE DEF S
  <2>1. 0..N \subseteq S
    BY <1>2, <1>4, <1>5, UpTo
  <2> QED
    BY <1>2, <2>1 DEF S
<1> DEFINE all == set[N]
           inner == Over(p.properties, all)
           own == Implicit(p)
<1>7. Entries(Keys, own) /\ Entries(Keys, p.properties) /\ Entries(Keys, all)
  BY <1>2, ImplicitIsGiven, PomsAreProjects, GivenIsEntries DEF PomProject
<1> HIDE DEF all, own
<1>8. /\ Entries(Keys, inner)
      /\ DOMAIN inner = DOMAIN p.properties \cup DOMAIN all
      /\ \A x \in DOMAIN p.properties : inner[x] = p.properties[x]
      /\ \A x \in DOMAIN all : x \notin DOMAIN p.properties => inner[x] = all[x]
  BY <1>7, OverIsGiven
<1> HIDE DEF inner
<1>9. /\ Entries(Keys, Over(own, inner))
      /\ DOMAIN Over(own, inner) = DOMAIN own \cup DOMAIN inner
      /\ \A x \in DOMAIN own : Over(own, inner)[x] = own[x]
      /\ \A x \in DOMAIN inner : x \notin DOMAIN own => Over(own, inner)[x] = inner[x]
  BY <1>7, <1>8, OverIsGiven
<1>10. CollectProperties(p, chain) = Over(own, inner)
  BY <1>1 DEF own, inner, all
<1>11. \A i \in 1..N : NearestAt(chain, k, i) => Last(i, N)
  BY DEF NearestAt, Has, N
<1>12. /\ \A i \in 1..N : NearestAt(chain, k, i) =>
              k \in DOMAIN all /\ all[k] = chain[i].properties[k]
       /\ (\A i \in 1..N : k \notin DOMAIN chain[i].properties) => k \notin DOMAIN all
  BY <1>6, <1>11 DEF all, Has
<1> QED
  BY <1>8, <1>9, <1>10, <1>12 DEF own, N

-----------------------------------------------------------------------------
(* What the parts of a text mean *)

Places == Coordinates \cup {"none", "incomplete"}

LEMMA Bounds ==
    /\ AllGenerations \in Nat /\ MaxParentDepth \in 0..AllGenerations
    /\ AllDepths \in Nat /\ Rounds \in 0..AllDepths
<1>1. Cardinality(Coordinates) \in Nat /\ Cardinality(Keys) \in Nat
  BY PomAssumption, FS_CardinalityType
<1> QED
  BY <1>1, PomAssumption DEF AllGenerations, AllDepths

\* The recursion in Generation.
LEMMA GenerationBy ==
    ASSUME NEW c \in Coordinates
    PROVE  /\ Generation(c) \in [0..AllGenerations -> Places]
           /\ Generation(c)[0] = c
           /\ \A n \in 1..AllGenerations :
                  Generation(c)[n] = IF Generation(c)[n - 1] \in Coordinates
                                     THEN Registry[Generation(c)[n - 1]].parent ELSE "none"
<1> DEFINE N == AllGenerations
           Next1(x) == IF x \in Coordinates THEN Registry[x].parent ELSE "none"
           step == [n \in 1..N |-> [x \in Places |-> Next1(x)]]
           Equation(f) == f = [n \in 0..N |-> IF n = 0 THEN c ELSE Next1(f[n - 1])]
           chosen == CHOOSE f : Equation(f)
<1>1. N \in Nat /\ c \in Places
  BY Bounds DEF Places
<1>2. \A x \in Places : Next1(x) \in Places
  BY PomAssumption DEF PomProject, Places
<1> HIDE DEF Next1, N
<1>3. step \in [1..N -> [Places -> Places]]
  BY <1>2
<1>4. PICK f : Continued(N, Places, c, step, f)
  <2> HIDE DEF step
  <2> QED
    BY <1>1, <1>3, Iterated
<1>5. f \in [0..N -> Places] /\ f[0] = c /\ \A n \in 1..N : f[n] = step[n][f[n - 1]]
  <2> HIDE DEF step
  <2> QED
    BY <1>4 DEF Continued
<1>6. \A n \in 1..N : f[n - 1] \in Places /\ f[n] = Next1(f[n - 1])
  <2> SUFFICES ASSUME NEW n \in 1..N
               PROVE f[n - 1] \in Places /\ f[n] = Next1(f[n - 1])
    OBVIOUS
  <2>1. n - 1 \in 0..N
    BY <1>1
  <2> QED
    BY <1>5, <2>1
<1>7. Equation(f)
  <2> HIDE DEF step
  <2> DEFINE g == [n \in 0..N |-> IF n = 0 THEN c ELSE Next1(f[n - 1])]
  <2>1. ASSUME NEW n \in 0..N PROVE f[n] = g[n]
    <3>1. CASE n = 0
      BY <1>5, <3>1
    <3>2. CASE n # 0
      <4>1. n \in 1..N
        BY <1>1, <3>2
      <4>2. g[n] = Next1(f[n - 1])
        BY <3>2
      <4>3. f[n] = Next1(f[n - 1])
        BY <1>6, <4>1
      <4> QED
        BY <4>2, <4>3
    <3> QED
      BY <3>1, <3>2
  <2>2. f = [n \in 0..N |-> f[n]]
    BY <1>5
  <2> QED
    BY <2>1, <2>2
<1>8. Equation(chosen)
  BY <1>7
<1>9. Generation(c) = chosen
  BY DEF Generation, Next1, N
<1> HIDE DEF chosen, step
<1>10. chosen[0] = c /\ \A n \in 1..N : chosen[n] = Next1(chosen[n - 1])
  BY <1>1, <1>8
<1>11. \A n \in 0..N : chosen[n] = f[n]
  <2> DEFINE S == {n \in 0..N : chosen[n] = f[n]}
  <2>1. 0 \in S
    BY <1>1, <1>5, <1>10
  <2>2. ASSUME NEW n \in 1..N, n - 1 \in S PROVE n \in S
    <3>1. chosen[n - 1] = f[n - 1] /\ n \in 0..N
      BY <1>1, <2>2
    <3> QED
      BY <1>6, <1>10, <3>1
  <2> HIDE DEF S
  <2>3. 0..N \subseteq S
    BY <1>1, <2>1, <2>2, UpTo
  <2> QED
    BY <2>3 DEF S
<1>12. chosen \in [0..N -> Places]
  <2>1. DOMAIN chosen = 0..N /\ chosen = [n \in 0..N |-> chosen[n]]
    BY <1>8, Zenon
  <2> QED
    BY <1>5, <1>11, <2>1
<1> QED
  BY <1>9, <1>10, <1>12 DEF N, Next1

\* The i-th ancestor of c defines k, and none of those before it does.
Defines(c, k, i) ==
    Generation(c)[i] \in Coordinates /\ k \in DOMAIN Registry[Generation(c)[i]].properties
FirstDefines(c, k, i) == Defines(c, k, i) /\ \A j \in 0..(i - 1) : ~Defines(c, k, j)

LEMMA DefinitionIs ==
    ASSUME NEW c \in Coordinates, NEW k \in Keys, NEW n \in 0..AllGenerations
    PROVE  /\ k \in DOMAIN Implicit(Registry[c]) =>
                  Definition(c, k, n) = Implicit(Registry[c])[k]
           /\ k \notin DOMAIN Implicit(Registry[c]) =>
                  /\ \A i \in 0..n : FirstDefines(c, k, i) =>
                         Definition(c, k, n) = Registry[Generation(c)[i]].properties[k]
                  /\ (\A i \in 0..n : ~Defines(c, k, i)) => Definition(c, k, n) = <<k>>
<1> DEFINE line == Generation(c)
           defining == {i \in 0..n : Defines(c, k, i)}
           nearest == CHOOSE i \in defining : \A j \in defining : i <= j
<1>1. Definition(c, k, n) =
          IF k \in DOMAIN Implicit(Registry[c]) THEN Implicit(Registry[c])[k]
          ELSE IF defining # {} THEN Registry[line[nearest]].properties[k]
          ELSE <<k>>
  BY DEF Definition, Defines
<1>2. n \in Nat
  BY Bounds
<1>3. ASSUME NEW i \in 0..n, FirstDefines(c, k, i) PROVE defining # {} /\ nearest = i
  <2>1. i \in defining
    BY <1>3 DEF FirstDefines
  <2>2. \A j \in defining : i <= j
    BY <1>2, <1>3 DEF FirstDefines
  <2>3. nearest \in defining /\ \A j \in defining : nearest <= j
    BY <2>1, <2>2
  <2>4. \A j \in defining : j \in Nat
    BY <1>2
  <2> HIDE DEF defining, nearest
  <2> QED
    BY <2>1, <2>2, <2>3, <2>4
<1> HIDE DEF nearest
<1> QED
  BY <1>1, <1>3

\* Either none of the first n ancestors defines k, or there is a first that does.
LEMMA SomeDefines ==
    ASSUME NEW c \in Coordinates, NEW k \in Keys, NEW n \in 0..AllGenerations
    PROVE  (\A i \in 0..n : ~Defines(c, k, i)) \/ \E i \in 0..n : FirstDefines(c, k, i)
<1> DEFINE defining == {i \in 0..n : Defines(c, k, i)}
<1>1. n \in Nat
  BY Bounds
<1>2. CASE defining = {}
  BY <1>2
<1>3. CASE defining # {}
  <2>1. defining \in SUBSET Nat
    BY <1>1
  <2>2. PICK i \in defining : \A j \in defining : i <= j
    <3> HIDE DEF defining
    <3> QED
      BY <1>3, <2>1, LeastNumber
  <2>3. i \in 0..n /\ Defines(c, k, i) /\ \A j \in 0..(i - 1) : ~Defines(c, k, j)
    BY <1>1, <2>2
  <2> QED
    BY <2>3 DEF FirstDefines
<1> QED
  BY <1>2, <1>3

LEMMA DefinitionIsText ==
    ASSUME NEW c \in Coordinates, NEW k \in Keys, NEW n \in 0..AllGenerations
    PROVE  Definition(c, k, n) \in Text
<1>1. CASE k \in DOMAIN Implicit(Registry[c])
  <2>1. Registry[c] \in Poms
    BY DEF Poms
  <2> QED
    BY <1>1, <2>1, DefinitionIs, ImplicitIsGiven DEF Entries
<1>2. CASE k \notin DOMAIN Implicit(Registry[c])
  <2>1. ASSUME NEW i \in 0..n, FirstDefines(c, k, i) PROVE Definition(c, k, n) \in Text
    <3>1. Generation(c)[i] \in Coordinates /\ k \in DOMAIN Registry[Generation(c)[i]].properties
      BY <2>1 DEF FirstDefines, Defines
    <3>2. Registry[Generation(c)[i]].properties[k] \in Text
      BY <3>1, PomAssumption DEF PomProject, Entries
    <3> QED
      BY <1>2, <2>1, <3>2, DefinitionIs
  <2>2. <<k>> \in Text
    BY DEF Text, Parts
  <2> QED
    BY <1>2, <2>1, <2>2, SomeDefines, DefinitionIs
<1> QED
  BY <1>1, <1>2

\* What every part stands for, with n ancestors.
Defined(c, n) ==
    [part \in Parts |-> IF part \in Literals THEN <<part>> ELSE Definition(c, part, n)]

LEMMA DefinedIsTable ==
    ASSUME NEW c \in Coordinates, NEW n \in 0..AllGenerations
    PROVE  Defined(c, n) \in Table
<1>1. ASSUME NEW part \in Parts
      PROVE  (IF part \in Literals THEN <<part>> ELSE Definition(c, part, n)) \in Text
  <2>1. <<part>> \in Text
    BY DEF Text
  <2>2. part \in Literals \/ part \in Keys
    BY DEF Parts
  <2> QED
    BY <2>1, <2>2, DefinitionIsText
<1> QED
  BY <1>1 DEF Defined, Table

\* The recursion in Unfolded.
LEMMA UnfoldedBy ==
    ASSUME NEW c \in Coordinates, NEW n \in 0..AllGenerations
    PROVE  /\ Unfolded[c][n] \in [0..AllDepths -> Table]
           /\ Unfolded[c][n][0] = Alone
           /\ \A d \in 1..AllDepths :
                  Unfolded[c][n][d] = Through(Defined(c, n), Unfolded[c][n][d - 1])
<1> DEFINE N == AllDepths
           Deeper(of) == [part \in Parts |-> IF part \in Literals THEN <<part>>
                                             ELSE Spelled(Definition(c, part, n), of)]
           step == [d \in 1..N |-> [of \in Table |-> Deeper(of)]]
           Equation(f) ==
               f = [d \in 0..N |->
                       [part \in Parts |->
                           IF d = 0 \/ part \in Literals THEN <<part>>
                           ELSE Spelled(Definition(c, part, n), f[d - 1])]]
           chosen == CHOOSE f : Equation(f)
<1>1. N \in Nat /\ Alone \in Table
  BY Bounds DEF Alone, Table, Text
<1>2. ASSUME NEW of \in Table PROVE Deeper(of) \in Table
  <2>1. ASSUME NEW part \in Parts
        PROVE (IF part \in Literals THEN <<part>> ELSE Spelled(Definition(c, part, n), of)) \in Text
    <3>1. <<part>> \in Text
      BY DEF Text
    <3>2. part \in Literals \/ part \in Keys
      BY DEF Parts
    <3> QED
      BY <3>1, <3>2, DefinitionIsText, SpelledIsText
  <2> QED
    BY <2>1 DEF Table
<1>3. step \in [1..N -> [Table -> Table]]
  <2> HIDE DEF N, Deeper
  <2> QED
    BY <1>2
<1>4. PICK f : Continued(N, Table, Alone, step, f)
  <2> HIDE DEF step, N
  <2> QED
    BY <1>1, <1>3, Iterated
<1>5. f \in [0..N -> Table] /\ f[0] = Alone /\ \A d \in 1..N : f[d] = step[d][f[d - 1]]
  <2> HIDE DEF step, N
  <2> QED
    BY <1>4 DEF Continued
<1>6. \A d \in 1..N : f[d - 1] \in Table /\ f[d] = Deeper(f[d - 1])
  <2> HIDE DEF Deeper, N
  <2> SUFFICES ASSUME NEW d \in 1..N
               PROVE f[d - 1] \in Table /\ f[d] = Deeper(f[d - 1])
    OBVIOUS
  <2>1. d - 1 \in 0..N
    BY <1>1
  <2> QED
    BY <1>5, <2>1
<1>7. Equation(f)
  <2> HIDE DEF step, N
  <2> DEFINE g == [d \in 0..N |->
                      [part \in Parts |->
                          IF d = 0 \/ part \in Literals THEN <<part>>
                          ELSE Spelled(Definition(c, part, n), f[d - 1])]]
  <2>1. ASSUME NEW d \in 0..N PROVE f[d] = g[d]
    <3>1. CASE d = 0
      BY <1>5, <3>1 DEF Alone
    <3>2. CASE d # 0
      <4>1. d \in 1..N
        BY <1>1, <3>2
      <4>2. g[d] = Deeper(f[d - 1])
        BY <3>2
      <4>3. f[d] = Deeper(f[d - 1])
        BY <1>6, <4>1
      <4> QED
        BY <4>2, <4>3
    <3> QED
      BY <3>1, <3>2
  <2>2. f = [d \in 0..N |-> f[d]]
    BY <1>5
  <2> QED
    BY <2>1, <2>2
<1>8. Equation(chosen)
  BY <1>7
<1>9. Unfolded[c][n] = [d \in 0..N |-> [part \in Parts |-> chosen[d][part]]]
  BY DEF Unfolded
<1> HIDE DEF chosen, step, N
<1>10. chosen[0] = Alone /\ \A d \in 1..N : chosen[d] = Deeper(chosen[d - 1])
  <2>1. chosen[0] = Alone
    BY <1>1, <1>8 DEF Alone
  <2>2. ASSUME NEW d \in 1..N PROVE chosen[d] = Deeper(chosen[d - 1])
    <3>1. d \in 0..N /\ d # 0
      BY <1>1
    <3> QED
      BY <1>8, <3>1
  <2> QED
    BY <2>1, <2>2
<1>11. \A d \in 0..N : chosen[d] = f[d]
  <2> DEFINE S == {d \in 0..N : chosen[d] = f[d]}
  <2> HIDE DEF Deeper, Equation
  <2>1. 0 \in S
    BY <1>1, <1>5, <1>10
  <2>2. ASSUME NEW d \in 1..N, d - 1 \in S PROVE d \in S
    <3>1. chosen[d - 1] = f[d - 1] /\ d \in 0..N
      BY <1>1, <2>2
    <3> QED
      BY <1>6, <1>10, <3>1
  <2> HIDE DEF S
  <2>3. 0..N \subseteq S
    BY <1>1, <2>1, <2>2, UpTo
  <2> QED
    BY <2>3 DEF S
<1>12. ASSUME NEW d \in 0..N PROVE Unfolded[c][n][d] = f[d] /\ f[d] \in Table
  <2>1. f[d] \in [Parts -> Text]
    BY <1>5 DEF Table
  <2>2. Unfolded[c][n][d] = [part \in Parts |-> f[d][part]]
    BY <1>9, <1>11
  <2> QED
    BY <2>1, <2>2 DEF Table
<1>13. ASSUME NEW d \in 1..N
       PROVE Unfolded[c][n][d] = Through(Defined(c, n), Unfolded[c][n][d - 1])
  <2>1. d \in 0..N /\ d - 1 \in 0..N
    BY <1>1
  <2>2. /\ Unfolded[c][n][d] = f[d] /\ Unfolded[c][n][d - 1] = f[d - 1]
        /\ f[d - 1] \in Table /\ f[d] = Deeper(f[d - 1])
    BY <1>6, <1>12, <2>1
  <2>3. ASSUME NEW part \in Literals, part \in Parts PROVE Spelled(<<part>>, f[d - 1]) = <<part>>
    <3>1. f[d - 1][part] = <<part>>
      <4>1. CASE d - 1 = 0
        BY <1>5, <2>3, <4>1 DEF Alone
      <4>2. CASE d - 1 # 0
        <5>1. d - 1 \in 1..N
          BY <1>1, <4>2
        <5>2. f[d - 1] = Deeper(f[(d - 1) - 1])
          BY <1>6, <5>1
        <5> QED
          BY <2>3, <5>2
      <4> QED
        BY <4>1, <4>2
    <3> QED
      BY <2>2, <2>3, <3>1, SpelledPart
  <2>4. Deeper(f[d - 1]) = Through(Defined(c, n), f[d - 1])
    <3>1. ASSUME NEW part \in Parts
          PROVE (IF part \in Literals THEN <<part>> ELSE Spelled(Definition(c, part, n), f[d - 1]))
                    = Spelled(Defined(c, n)[part], f[d - 1])
      BY <2>3 DEF Defined
    <3> QED
      BY <3>1 DEF Through
  <2> QED
    BY <2>2, <2>4
<1>14. Unfolded[c][n] \in [0..N -> Table]
  BY <1>9, <1>12
<1>15. Unfolded[c][n][0] = Alone
  BY <1>1, <1>5, <1>12
<1> QED
  BY <1>13, <1>14, <1>15 DEF N

LEMMA UnfoldedTable ==
    ASSUME NEW c \in Coordinates, NEW n \in 0..AllGenerations, NEW d \in 0..AllDepths
    PROVE  Unfolded[c][n][d] \in Table
BY UnfoldedBy

LEMMA WithinIsText ==
    ASSUME NEW c \in Coordinates, NEW n \in 0..AllGenerations, NEW d \in 0..AllDepths,
           NEW text \in Text
    PROVE  Within(c, text, n, d) \in Text
BY UnfoldedTable, SpelledIsText DEF Within

\* A part that stands for itself does so at every depth.
LEMMA StandsForItself ==
    ASSUME NEW c \in Coordinates, NEW n \in 0..AllGenerations, NEW part \in Parts,
           Defined(c, n)[part] = <<part>>
    PROVE  \A d \in 0..AllDepths : Unfolded[c][n][d][part] = <<part>>
<1> DEFINE U == Unfolded[c][n]
           S == {d \in 0..AllDepths : U[d][part] = <<part>>}
<1>1. /\ U \in [0..AllDepths -> Table] /\ U[0] = Alone
      /\ \A d \in 1..AllDepths : U[d] = Through(Defined(c, n), U[d - 1])
  BY UnfoldedBy
<1>2. AllDepths \in Nat
  BY Bounds
<1> HIDE DEF U
<1>3. 0 \in S
  BY <1>1, <1>2 DEF Alone
<1>4. ASSUME NEW d \in 1..AllDepths, d - 1 \in S PROVE d \in S
  <2>1. d \in 0..AllDepths /\ d - 1 \in 0..AllDepths
    BY <1>2
  <2>2. U[d - 1] \in Table
    BY <1>1, <2>1
  <2>3. U[d][part] = Spelled(<<part>>, U[d - 1])
    <3>1. U[d][part] = Spelled(Defined(c, n)[part], U[d - 1])
      BY <1>1 DEF Through
    <3> QED
      BY <3>1
  <2>4. U[d][part] = U[d - 1][part]
    BY <2>2, <2>3, SpelledPart
  <2> QED
    BY <1>4, <2>1, <2>4
<1> HIDE DEF S
<1>5. 0..AllDepths \subseteq S
  BY <1>2, <1>3, <1>4, UpTo
<1> QED
  BY <1>5 DEF S, U

\* It is the same to unfold a part and then look up once more, or to look it up and
\* then unfold what is found.
LEMMA LookedUpOnceMore ==
    ASSUME NEW c \in Coordinates, NEW n \in 0..AllGenerations
    PROVE  \A d \in 0..AllDepths :
               Through(Unfolded[c][n][d], Defined(c, n))
                   = Through(Defined(c, n), Unfolded[c][n][d])
<1> DEFINE U == Unfolded[c][n]
           D == Defined(c, n)
           S == {d \in 0..AllDepths : Through(U[d], D) = Through(D, U[d])}
<1>1. /\ U \in [0..AllDepths -> Table] /\ U[0] = Alone
      /\ \A d \in 1..AllDepths : U[d] = Through(D, U[d - 1])
  BY UnfoldedBy
<1>2. AllDepths \in Nat /\ D \in Table
  BY Bounds, DefinedIsTable
<1> HIDE DEF U, D
<1>3. 0 \in S
  <2>1. ASSUME NEW part \in Parts PROVE Spelled(Alone[part], D) = Spelled(D[part], Alone)
    <3>1. Spelled(<<part>>, D) = D[part]
      BY <1>2, SpelledPart
    <3>2. D[part] \in Text
      BY <1>2 DEF Table
    <3> QED
      BY <3>1, <3>2, SpelledAlone DEF Alone
  <2>2. Through(Alone, D) = Through(D, Alone)
    BY <2>1 DEF Through
  <2> QED
    BY <1>1, <1>2, <2>2
<1>4. ASSUME NEW d \in 1..AllDepths, d - 1 \in S PROVE d \in S
  <2>1. d \in 0..AllDepths /\ d - 1 \in 0..AllDepths
    BY <1>2
  <2>2. U[d - 1] \in Table /\ U[d] = Through(D, U[d - 1])
    BY <1>1, <2>1
  <2>3. ASSUME NEW part \in Parts PROVE Spelled(U[d][part], D) = Spelled(D[part], U[d])
    <3>1. D[part] \in Text /\ U[d][part] = Spelled(D[part], U[d - 1])
      BY <1>2, <2>2 DEF Table, Through
    <3>2. Spelled(Spelled(D[part], U[d - 1]), D) = Spelled(D[part], Through(U[d - 1], D))
      BY <1>2, <2>2, <3>1, SpelledThrough
    <3>3. Through(U[d - 1], D) = U[d]
      BY <1>4, <2>2
    <3> QED
      BY <3>1, <3>2, <3>3
  <2>4. Through(U[d], D) = Through(D, U[d])
    BY <2>3 DEF Through
  <2> QED
    BY <2>1, <2>4
<1> HIDE DEF S
<1>5. 0..AllDepths \subseteq S
  BY <1>2, <1>3, <1>4, UpTo
<1> QED
  BY <1>5 DEF S, U, D

\* The recursion in ResolveVersion.
LEMMA ResolvedBy ==
    ASSUME NEW props, NEW text \in Text, NEW table \in Table,
           \A t \in Text : Replaced(t, props) = Spelled(t, table)
    PROVE  \E round \in [0..Rounds -> Text] :
               /\ round[0] = text
               /\ \A n \in 1..Rounds : round[n] = Spelled(round[n - 1], table)
               /\ ResolveVersion(text, props) = round[Rounds]
<1> DEFINE N == Rounds
           step == [n \in 1..N |-> [t \in Text |-> Replaced(t, props)]]
           Equation(f) ==
               f = [n \in 0..N |-> IF n = 0 THEN text ELSE Replaced(f[n - 1], props)]
           chosen == CHOOSE f : Equation(f)
<1>1. N \in Nat
  BY PomAssumption
<1>2. \A t \in Text : Replaced(t, props) \in Text
  BY SpelledIsText
<1> HIDE DEF N
<1>3. step \in [1..N -> [Text -> Text]]
  BY <1>2
<1>4. PICK f : Continued(N, Text, text, step, f)
  <2> HIDE DEF step
  <2> QED
    BY <1>1, <1>3, Iterated
<1>5. f \in [0..N -> Text] /\ f[0] = text /\ \A n \in 1..N : f[n] = step[n][f[n - 1]]
  <2> HIDE DEF step
  <2> QED
    BY <1>4 DEF Continued
<1>6. \A n \in 1..N : f[n - 1] \in Text /\ f[n] = Replaced(f[n - 1], props)
  <2> SUFFICES ASSUME NEW n \in 1..N
               PROVE f[n - 1] \in Text /\ f[n] = Replaced(f[n - 1], props)
    OBVIOUS
  <2>1. n - 1 \in 0..N
    BY <1>1
  <2> QED
    BY <1>5, <2>1
<1>7. Equation(f)
  <2> HIDE DEF step
  <2> DEFINE g == [n \in 0..N |-> IF n = 0 THEN text ELSE Replaced(f[n - 1], props)]
  <2>1. ASSUME NEW n \in 0..N PROVE f[n] = g[n]
    <3>1. CASE n = 0
      BY <1>5, <3>1
    <3>2. CASE n # 0
      <4>1. n \in 1..N
        BY <1>1, <3>2
      <4>2. g[n] = Replaced(f[n - 1], props)
        BY <3>2
      <4>3. f[n] = Replaced(f[n - 1], props)
        BY <1>6, <4>1
      <4> QED
        BY <4>2, <4>3
    <3> QED
      BY <3>1, <3>2
  <2>2. f = [n \in 0..N |-> f[n]]
    BY <1>5
  <2> QED
    BY <2>1, <2>2
<1>8. Equation(chosen)
  BY <1>7
<1>9. ResolveVersion(text, props) = chosen[N]
  BY DEF ResolveVersion, N
<1> HIDE DEF chosen, step
<1>10. chosen[0] = text /\ \A n \in 1..N : chosen[n] = Replaced(chosen[n - 1], props)
  BY <1>1, <1>8
<1>11. \A n \in 0..N : chosen[n] = f[n]
  <2> DEFINE S == {n \in 0..N : chosen[n] = f[n]}
  <2>1. 0 \in S
    BY <1>1, <1>5, <1>10
  <2>2. ASSUME NEW n \in 1..N, n - 1 \in S PROVE n \in S
    <3>1. chosen[n - 1] = f[n - 1] /\ n \in 0..N
      BY <1>1, <2>2
    <3> QED
      BY <1>6, <1>10, <3>1
  <2> HIDE DEF S
  <2>3. 0..N \subseteq S
    BY <1>1, <2>1, <2>2, UpTo
  <2> QED
    BY <2>3 DEF S
<1>12. \A n \in 1..N : f[n] = Spelled(f[n - 1], table)
  BY <1>6
<1>13. ResolveVersion(text, props) = f[N]
  BY <1>1, <1>9, <1>11
<1> QED
  BY <1>5, <1>12, <1>13 DEF N

\* What resolveVersion makes of a text is the text unfolded, with the ancestors whose
\* properties were collected and as deep as there are rounds.
LEMMA ResolvedIsWithin ==
    ASSUME NEW c \in Coordinates, NEW n \in 0..AllGenerations, NEW text \in Text,
           NEW props, Entries(Keys, props),
           \A k \in Keys : Definition(c, k, n) = IF k \in DOMAIN props THEN props[k] ELSE <<k>>
    PROVE  ResolveVersion(text, props) = Within(c, text, n, Rounds)
<1> DEFINE U == Unfolded[c][n]
           D == Defined(c, n)
<1>1. /\ U \in [0..AllDepths -> Table] /\ U[0] = Alone
      /\ \A d \in 1..AllDepths : U[d] = Through(D, U[d - 1])
  BY UnfoldedBy
<1>2. AllDepths \in Nat /\ Rounds \in 0..AllDepths /\ Rounds \in Nat /\ D \in Table
  BY Bounds, PomAssumption, DefinedIsTable
<1>3. \A d \in 0..AllDepths : Through(U[d], D) = Through(D, U[d])
  BY LookedUpOnceMore
<1>4. D = [part \in Parts |-> IF part \in DOMAIN props THEN props[part] ELSE <<part>>]
  <2>1. ASSUME NEW part \in Parts
        PROVE  (IF part \in Literals THEN <<part>> ELSE Definition(c, part, n))
                   = IF part \in DOMAIN props THEN props[part] ELSE <<part>>
    <3>1. CASE part \in Literals
      BY <3>1, PomAssumption DEF Entries
    <3>2. CASE part \notin Literals
      BY <3>2 DEF Parts
    <3> QED
      BY <3>1, <3>2
  <2> QED
    BY <2>1 DEF Defined
<1>5. \A t \in Text : Replaced(t, props) = Spelled(t, D)
  BY <1>4 DEF Replaced
<1> HIDE DEF U, D
<1>6. PICK round \in [0..Rounds -> Text] :
          /\ round[0] = text
          /\ \A i \in 1..Rounds : round[i] = Spelled(round[i - 1], D)
          /\ ResolveVersion(text, props) = round[Rounds]
  BY <1>2, <1>5, ResolvedBy
<1> DEFINE S == {i \in 0..Rounds : round[i] = Spelled(text, U[i])}
<1>7. 0 \in S
  BY <1>1, <1>2, <1>6, SpelledAlone
<1>8. ASSUME NEW i \in 1..Rounds, i - 1 \in S PROVE i \in S
  <2>1. i \in 0..Rounds /\ i \in 1..AllDepths /\ i - 1 \in 0..AllDepths
    BY <1>2
  <2>2. U[i - 1] \in Table /\ U[i] = Through(D, U[i - 1])
    BY <1>1, <2>1
  <2>3. round[i] = Spelled(Spelled(text, U[i - 1]), D)
    BY <1>6, <1>8
  <2>4. Spelled(Spelled(text, U[i - 1]), D) = Spelled(text, Through(U[i - 1], D))
    BY <1>2, <2>2, SpelledThrough
  <2>5. Through(U[i - 1], D) = U[i]
    BY <1>3, <2>1, <2>2
  <2> QED
    BY <2>1, <2>3, <2>4, <2>5
<1>9. Rounds \in S
  <2> HIDE DEF S
  <2>1. 0..Rounds \subseteq S
    BY <1>2, <1>7, <1>8, UpTo
  <2> QED
    BY <1>2, <2>1
<1> QED
  BY <1>6, <1>9 DEF Within, U

\* Further ancestors and more depth change nothing of a text without references.
LEMMA DefinitionStays ==
    ASSUME NEW c \in Coordinates, NEW n \in 0..AllGenerations, NEW m \in n..AllGenerations,
           NEW part \in Parts, Defined(c, n)[part] # <<part>>
    PROVE  Defined(c, m)[part] = Defined(c, n)[part]
<1>1. m \in 0..AllGenerations /\ n \in Nat /\ m \in Nat /\ n <= m
  BY Bounds
<1>2. CASE part \in Literals
  BY <1>2 DEF Defined
<1>3. CASE part \notin Literals
  <2>1. /\ part \in Keys
        /\ Defined(c, n)[part] = Definition(c, part, n)
        /\ Defined(c, m)[part] = Definition(c, part, m)
    BY <1>3 DEF Parts, Defined
  <2>2. CASE part \in DOMAIN Implicit(Registry[c])
    BY <1>1, <2>1, <2>2, DefinitionIs
  <2>3. CASE part \notin DOMAIN Implicit(Registry[c])
    <3>1. PICK i \in 0..n : FirstDefines(c, part, i)
      BY <2>1, <2>3, SomeDefines, DefinitionIs
    <3>2. i \in 0..m
      BY <1>1
    <3> QED
      BY <1>1, <2>1, <2>3, <3>1, <3>2, DefinitionIs
  <2> QED
    BY <2>2, <2>3
<1> QED
  BY <1>2, <1>3

LEMMA UnfoldedStays ==
    ASSUME NEW c \in Coordinates, NEW n \in 0..AllGenerations, NEW m \in n..AllGenerations
    PROVE  \A d \in 0..AllDepths : \A e \in d..AllDepths : \A part \in Parts :
               ~Unresolved(Unfolded[c][n][d][part])
                   => Unfolded[c][m][e][part] = Unfolded[c][n][d][part]
<1> DEFINE U == Unfolded[c][n]
           V == Unfolded[c][m]
           D == Defined(c, n)
           E == Defined(c, m)
           Stays(d, e, part) == ~Unresolved(U[d][part]) => V[e][part] = U[d][part]
           S == {d \in 0..AllDepths : \A e \in d..AllDepths : \A part \in Parts : Stays(d, e, part)}
<1>0. m \in 0..AllGenerations
  BY Bounds
<1>1. /\ U \in [0..AllDepths -> Table] /\ U[0] = Alone
      /\ \A d \in 1..AllDepths : U[d] = Through(D, U[d - 1])
  BY UnfoldedBy
<1>2. /\ V \in [0..AllDepths -> Table] /\ V[0] = Alone
      /\ \A d \in 1..AllDepths : V[d] = Through(E, V[d - 1])
  BY <1>0, UnfoldedBy
<1>3. AllDepths \in Nat /\ D \in Table /\ E \in Table
  BY <1>0, Bounds, DefinedIsTable
<1>4. ASSUME NEW part \in Parts, D[part] = <<part>>
      PROVE  \A d \in 0..AllDepths : U[d][part] = <<part>>
  BY <1>4, StandsForItself
<1>5. ASSUME NEW part \in Parts, E[part] = <<part>>
      PROVE  \A d \in 0..AllDepths : V[d][part] = <<part>>
  BY <1>0, <1>5, StandsForItself
<1>6. ASSUME NEW part \in Parts, D[part] # <<part>> PROVE E[part] = D[part]
  BY <1>6, DefinitionStays
<1>7. \A part \in Literals : part \in Parts /\ D[part] = <<part>> /\ E[part] = <<part>>
  BY DEF Defined, Parts
<1>8. ASSUME NEW part \in Parts, ~Unresolved(<<part>>) PROVE part \in Literals
  <2>1. 1 \in DOMAIN <<part>> /\ <<part>>[1] = part
    OBVIOUS
  <2> QED
    BY <1>8, <2>1 DEF Unresolved, Parts
<1> HIDE DEF U, V, D, E
\* A part that stands for itself is a literal when it is no reference.
<1>9. ASSUME NEW d \in 0..AllDepths, NEW e \in 0..AllDepths, NEW part \in Parts,
             U[d][part] = <<part>>
      PROVE  Stays(d, e, part)
  <2> SUFFICES ASSUME ~Unresolved(<<part>>) PROVE V[e][part] = <<part>>
    BY <1>9
  <2>1. E[part] = <<part>>
    BY <1>7, <1>8
  <2> QED
    BY <1>5, <2>1
<1>10. 0 \in S
  <2>1. ASSUME NEW e \in 0..AllDepths, NEW part \in Parts PROVE Stays(0, e, part)
    <3>1. 0 \in 0..AllDepths /\ U[0][part] = <<part>>
      BY <1>1, <1>3 DEF Alone
    <3> QED
      BY <1>9, <3>1
  <2> QED
    BY <1>3, <2>1
<1>11. ASSUME NEW d \in 1..AllDepths, d - 1 \in S PROVE d \in S
  <2>1. d \in 0..AllDepths /\ d - 1 \in 0..AllDepths
    BY <1>3
  <2>2. ASSUME NEW e \in d..AllDepths, NEW part \in Parts PROVE Stays(d, e, part)
    <3>1. e \in 1..AllDepths /\ e \in 0..AllDepths /\ e - 1 \in 0..AllDepths
          /\ e - 1 \in (d - 1)..AllDepths
      BY <1>3
    <3>2. CASE D[part] = <<part>>
      BY <1>4, <1>9, <2>1, <3>1, <3>2
    <3>3. CASE D[part] # <<part>>
      <4> SUFFICES ASSUME ~Unresolved(U[d][part]) PROVE V[e][part] = U[d][part]
        OBVIOUS
      <4>1. U[d - 1] \in Table /\ V[e - 1] \in Table /\ D[part] \in Text
        BY <1>1, <1>2, <1>3, <2>1, <3>1 DEF Table
      <4>2. U[d][part] = Spelled(D[part], U[d - 1])
        BY <1>1 DEF Through
      <4>3. V[e][part] = Spelled(D[part], V[e - 1])
        <5>1. V[e][part] = Spelled(E[part], V[e - 1])
          BY <1>2, <3>1 DEF Through
        <5>2. E[part] = D[part]
          BY <1>6, <3>3
        <5> QED
          BY <5>1, <5>2
      <4>4. \A i \in DOMAIN D[part] : ~Unresolved(U[d - 1][D[part][i]])
        BY <4>1, <4>2, SpelledReferences
      <4>5. \A i \in DOMAIN D[part] : D[part][i] \in Parts
        BY <4>1 DEF Text
      <4>6. \A i \in DOMAIN D[part] : V[e - 1][D[part][i]] = U[d - 1][D[part][i]]
        <5>1. \A q \in Parts : Stays(d - 1, e - 1, q)
          BY <1>11, <3>1
        <5> QED
          BY <4>4, <4>5, <5>1
      <4> QED
        BY <4>1, <4>2, <4>3, <4>6, SpelledAlike
    <3> QED
      BY <3>2, <3>3
  <2> QED
    BY <2>1, <2>2
<1> HIDE DEF S
<1>12. 0..AllDepths \subseteq S
  BY <1>3, <1>10, <1>11, UpTo
<1> QED
  BY <1>12 DEF S, U, V

LEMMA KnownStays ==
    ASSUME NEW c \in Coordinates, NEW n \in 0..AllGenerations, NEW m \in n..AllGenerations,
           NEW d \in 0..AllDepths, NEW e \in d..AllDepths,
           NEW text \in Text, ~Unresolved(Within(c, text, n, d))
    PROVE  Within(c, text, m, e) = Within(c, text, n, d)
<1>0. m \in 0..AllGenerations /\ e \in 0..AllDepths
  BY Bounds
<1> DEFINE U == Unfolded[c][n][d]
           V == Unfolded[c][m][e]
<1>1. U \in Table /\ V \in Table
  BY <1>0, UnfoldedTable
<1>2. \A part \in Parts : ~Unresolved(U[part]) => V[part] = U[part]
  BY UnfoldedStays
<1>3. Within(c, text, n, d) = Spelled(text, U) /\ Within(c, text, m, e) = Spelled(text, V)
  BY DEF Within
<1> HIDE DEF U, V
<1>4. \A i \in DOMAIN text : text[i] \in Parts /\ ~Unresolved(U[text[i]])
  BY <1>1, <1>3, SpelledReferences DEF Text
<1>5. \A i \in DOMAIN text : V[text[i]] = U[text[i]]
  BY <1>2, <1>4
<1> QED
  BY <1>1, <1>3, <1>5, SpelledAlike

-----------------------------------------------------------------------------
(* The ancestors of a POM *)

\* The type of the part of the request that the walk depends on.
WalkType ==
    /\ pom = [pc |-> pom.pc, of |-> pom.of, chain |-> pom.chain, props |-> pom.props,
              rest |-> pom.rest, todo |-> pom.todo, recorded |-> pom.recorded,
              failed |-> pom.failed, answer |-> pom.answer, complete |-> pom.complete]
    /\ pom.chain \in Seq(Poms)
    /\ Len(pom.chain) <= MaxParentDepth
    /\ pom.pc \in {"fetch", "idle"} \/ pom.of \in Coordinates
    /\ pom.pc = "fetch" => pom.of \in Coordinates /\ pom.chain = << >>

WalkInv == WalkType /\ LineOfParents

LEMMA WalkInit == ServerInit => WalkInv
<1> SUFFICES ASSUME ServerInit PROVE WalkInv
  OBVIOUS
<1>1. pom = NoPom
  BY DEF ServerInit, PomInit
<1>2. << >> \in Seq(Poms) /\ Len(<< >>) = 0 /\ MaxParentDepth \in Nat
  BY PomAssumption
<1> QED
  BY <1>1, <1>2 DEF NoPom, WalkInv, WalkType, LineOfParents

\* A step that leaves the chain and the POM alone, or ends the request.
LEMMA SameWalk ==
    ASSUME WalkInv, pom'.chain = pom.chain, pom'.of = pom.of,
           pom' = [pc |-> pom'.pc, of |-> pom'.of, chain |-> pom'.chain, props |-> pom'.props,
                   rest |-> pom'.rest, todo |-> pom'.todo, recorded |-> pom'.recorded,
                   failed |-> pom'.failed, answer |-> pom'.answer, complete |-> pom'.complete],
           pom.pc # "idle",
           pom'.pc \in {"idle", "parents", "resolve", "evaluate"}
    PROVE  WalkInv'
<1>1. pom.of \in Coordinates
  BY DEF WalkInv, WalkType
<1>2. WalkType'
  BY <1>1 DEF WalkInv, WalkType
<1>3. LineOfParents'
  BY DEF WalkInv, LineOfParents
<1> QED
  BY <1>2, <1>3 DEF WalkInv

\* An ancestor is put before those there are.
LEMMA LongerWalk == WalkInv /\ ParentFetched => WalkInv'
<1> SUFFICES ASSUME WalkInv, ParentFetched PROVE WalkInv'
  OBVIOUS
<1> DEFINE next == Registry[Outermost.parent]
           old == pom.chain
           new == <<next>> \o old
<1>1. /\ pom.pc = "parents" /\ Outermost.parent \in Coordinates
      /\ pom' = [pom EXCEPT !.chain = new] /\ Len(old) < MaxParentDepth
  BY DEF ParentFetched, MoreParents
<1>2. next \in Poms /\ old \in Seq(Poms) /\ pom.of \in Coordinates
  BY <1>1 DEF WalkInv, WalkType, Poms
<1>3. /\ pom'.chain = new /\ pom'.of = pom.of /\ pom'.pc = "parents"
      /\ pom' = [pc |-> pom'.pc, of |-> pom'.of, chain |-> pom'.chain, props |-> pom'.props,
                 rest |-> pom'.rest, todo |-> pom'.todo, recorded |-> pom'.recorded,
                 failed |-> pom'.failed, answer |-> pom'.answer, complete |-> pom'.complete]
  BY <1>1 DEF WalkInv, WalkType
<1>4. /\ Outermost = IF old = << >> THEN Registry[pom.of] ELSE old[1]
  BY <1>2 DEF Outermost
<1> HIDE DEF next
<1>5. /\ new \in Seq(Poms) /\ Len(new) = Len(old) + 1
      /\ new[1] = next /\ \A i \in 1..Len(old) : new[i + 1] = old[i]
  BY <1>2
<1>6. WalkType'
  BY <1>1, <1>2, <1>3, <1>5, PomAssumption DEF WalkType
<1>7. ASSUME NEW i \in 1..Len(new)
      PROVE  LET child == IF i = Len(new) THEN Registry[pom.of] ELSE new[i + 1]
             IN  child.parent \in Coordinates /\ new[i] = Registry[child.parent]
  <2>1. CASE i = 1
    <3>1. CASE old = << >>
      BY <1>1, <1>4, <1>5, <2>1, <3>1 DEF next
    <3>2. CASE old # << >>
      <4>1. Len(old) # 0 /\ Len(old) \in Nat
        BY <1>2, <3>2
      <4>2. new[2] = old[1]
        BY <1>5, <4>1
      <4> QED
        BY <1>1, <1>4, <1>5, <2>1, <3>2, <4>1, <4>2 DEF next
    <3> QED
      BY <3>1, <3>2
  <2>2. CASE i # 1
    <3>1. i - 1 \in 1..Len(old) /\ Len(old) \in Nat /\ i \in Nat
      BY <1>2, <1>5, <2>2
    <3>2. LET child == IF i - 1 = Len(old) THEN Registry[pom.of] ELSE old[(i - 1) + 1]
          IN  child.parent \in Coordinates /\ old[i - 1] = Registry[child.parent]
      BY <1>1, <3>1 DEF WalkInv, LineOfParents
    <3>3. new[i] = old[i - 1] /\ (i - 1 # Len(old) => new[i + 1] = old[(i - 1) + 1])
      BY <1>5, <3>1
    <3> QED
      BY <1>5, <3>1, <3>2, <3>3
  <2> QED
    BY <2>1, <2>2
<1>8. LineOfParents'
  <2>1. DOMAIN new = 1..Len(new)
    BY <1>5
  <2> HIDE DEF new
  <2> QED
    BY <1>3, <1>7, <2>1 DEF LineOfParents
<1> QED
  BY <1>6, <1>8 DEF WalkInv

LEMMA WalkStep == WalkInv /\ [ServerNext]_server => WalkInv'
<1> SUFFICES ASSUME WalkInv, [ServerNext]_server PROVE WalkInv'
  OBVIOUS
<1> DEFINE Whole(p) ==
        p = [pc |-> p.pc, of |-> p.of, chain |-> p.chain, props |-> p.props,
             rest |-> p.rest, todo |-> p.todo, recorded |-> p.recorded,
             failed |-> p.failed, answer |-> p.answer, complete |-> p.complete]
<1>0. Whole(pom)
  BY DEF WalkInv, WalkType
<1>1. CASE UNCHANGED pom
  BY <1>1 DEF WalkInv, WalkType, LineOfParents
<1>2. CASE pom' = NoPom
  <2>1. << >> \in Seq(Poms) /\ Len(<< >>) = 0 /\ MaxParentDepth \in Nat
    BY PomAssumption
  <2> QED
    BY <1>2, <2>1 DEF NoPom, WalkInv, WalkType, LineOfParents
<1>3. ASSUME NEW c \in Coordinates, PomArrive(c) PROVE WalkInv'
  <2>1. << >> \in Seq(Poms) /\ Len(<< >>) = 0 /\ MaxParentDepth \in Nat
    BY PomAssumption
  <2>2. /\ Whole(pom') /\ pom'.pc = "fetch" /\ pom'.of = c /\ pom'.chain = << >>
    BY <1>3 DEF PomArrive, NoPom
  <2>3. WalkType'
    BY <2>1, <2>2 DEF WalkType
  <2>4. LineOfParents'
    BY <2>1, <2>2 DEF LineOfParents
  <2> QED
    BY <2>3, <2>4 DEF WalkInv
<1>4. ASSUME NEW answer, PomAnswered(answer), pom.pc # "idle" PROVE WalkInv'
  <2>1. Whole(pom') /\ pom'.chain = pom.chain /\ pom'.of = pom.of /\ pom'.pc = "idle"
    BY <1>0, <1>4 DEF PomAnswered
  <2> QED
    BY <1>4, <2>1, SameWalk
<1>5. CASE PomFetchFails \/ PomUnparsed \/ ServePom
  BY <1>4, <1>5 DEF PomFetchFails, PomUnparsed, ServePom
<1>6. CASE PomFetched
  <2>1. /\ Whole(pom') /\ pom'.chain = pom.chain /\ pom'.of = pom.of /\ pom'.pc = "parents"
        /\ pom.pc = "fetch"
    BY <1>0, <1>6 DEF PomFetched
  <2> QED
    BY <2>1, SameWalk
<1>7. CASE ParentFetched
  BY <1>7, LongerWalk
<1>8. ASSUME NEW complete, Collect(complete), pom.pc # "idle" PROVE WalkInv'
  <2>1. Whole(pom') /\ pom'.chain = pom.chain /\ pom'.of = pom.of /\ pom'.pc = "resolve"
    BY <1>0, <1>8 DEF Collect
  <2> QED
    BY <1>8, <2>1, SameWalk
<1>9. CASE ParentFails \/ ParentsDone
  BY <1>8, <1>9 DEF ParentFails, ParentsDone
<1>10. CASE Resolve
  <2>1. /\ Whole(pom') /\ pom'.chain = pom.chain /\ pom'.of = pom.of
        /\ pom'.pc \in {"resolve", "evaluate"} /\ pom.pc # "idle"
    BY <1>0, <1>10 DEF Resolve
  <2> QED
    BY <2>1, SameWalk
<1>11. CASE EvaluateDependency
  <2>1. /\ Whole(pom') /\ pom'.chain = pom.chain /\ pom'.of = pom.of
        /\ pom'.pc = "evaluate" /\ pom.pc # "idle"
    BY <1>0, <1>11 DEF EvaluateDependency
  <2> QED
    BY <2>1, SameWalk
<1>12. CASE HandlePom
  BY <1>5, <1>6, <1>7, <1>9, <1>10, <1>11, <1>12 DEF HandlePom
<1>13. UNCHANGED pom \/ pom' = NoPom \/ HandlePom \/ \E c \in Coordinates : PomArrive(c)
  BY DEF ServerNext, Work, server, Receive, Filter, Pom, Answer, Deliver, HandlePolicyReload
<1> QED
  BY <1>1, <1>2, <1>3, <1>12, <1>13

\* Whatever the registry has, also when POMs are each other's parents: the
\* ancestors that properties are taken from are a line of parents, outermost first,
\* and no more than the limit of pom.go:16.
THEOREM AncestorsInLine ==
    ServerSpec => [](LineOfParents /\ Len(pom.chain) <= MaxParentDepth)
<1>1. WalkInv => LineOfParents /\ Len(pom.chain) <= MaxParentDepth
  BY DEF WalkInv, WalkType
<1> QED
  BY WalkInit, WalkStep, <1>1, PTL DEF ServerSpec


-----------------------------------------------------------------------------
(* The inspection of a POM *)

\* The ancestors whose properties count, and a dependency as they let it be read.
Reach == IF pom.complete THEN MaxParentDepth ELSE Len(pom.chain)
AsRead(dep) == [f \in DOMAIN dep |-> Within(pom.of, dep[f], Reach, Rounds)]

InspectionType ==
    /\ pom.pc \in {"idle", "fetch", "parents", "resolve", "evaluate"}
    /\ pom.of \in Coordinates \cup {"none"}
    /\ pom.pc # "idle" => pom.of \in Coordinates
    /\ Entries(Keys, pom.props)
    /\ pom.answer \in {"none", "ok", "as is", "error"}
    /\ pom.complete \in BOOLEAN
    /\ pom.rest \in Seq(Dependency)
    /\ pom.todo \in Seq(Dependency)
    /\ pom.recorded \in Seq(Dependency)
    /\ pom.failed \in SUBSET Dependency

\* What a phase has not come to is empty.
Phases ==
    /\ pom.pc \in {"fetch", "parents", "resolve"} => pom.recorded = << >> /\ pom.failed = {}
    /\ pom.pc \in {"fetch", "parents"} => pom.todo = << >>
    /\ pom.pc # "resolve" => pom.rest = << >>

\* The properties collected are the definitions of the POM and of the ancestors
\* within reach.
PropsInv ==
    pom.pc = "resolve" =>
        \A k \in Keys : Definition(pom.of, k, Reach)
                            = IF k \in DOMAIN pom.props THEN pom.props[k] ELSE <<k>>

\* What is evaluated is a declared dependency as read, with a version;
OriginInv ==
    /\ \A dep \in Range(pom.rest) : dep \in Declared(pom.of)
    /\ \A new \in Evaluated :
          /\ pom.of \in Coordinates
          /\ \E dep \in Declared(pom.of) : new = AsRead(dep)
          /\ Known(new.version)

\* each that has one is evaluated or is still to be resolved;
NoneMissing ==
    pom.pc \in {"resolve", "evaluate"} \/ pom.recorded # << >> =>
        \A dep \in Declared(pom.of) :
            Known(AsRead(dep).version) => dep \in Range(pom.rest) \/ AsRead(dep) \in Evaluated

\* and none twice.
OnceEach ==
    /\ IsInjective(pom.recorded \o pom.todo)
    /\ pom.failed \cap Range(pom.recorded \o pom.todo) = {}

InspectionInv ==
    WalkInv /\ InspectionType /\ Phases /\ PropsInv /\ OriginInv /\ NoneMissing /\ OnceEach


LEMMA RangeOfAppended ==
    ASSUME NEW S, NEW s \in Seq(S), NEW x \in S
    PROVE  Range(Append(s, x)) = Range(s) \cup {x}
<1> DEFINE m == Len(s)
           longer == Append(s, x)
<1>1. m \in Nat /\ DOMAIN s = 1..m /\ DOMAIN longer = 1..(m + 1)
  OBVIOUS
<1>2. longer[m + 1] = x /\ \A i \in 1..m : longer[i] = s[i]
  OBVIOUS
<1> HIDE DEF longer, m
<1>3. \A i \in 1..(m + 1) : i \in 1..m \/ i = m + 1
  BY <1>1
<1>4. m + 1 \in 1..(m + 1) /\ \A i \in 1..m : i \in 1..(m + 1)
  BY <1>1
<1>5. Range(longer) = Range(s) \cup {x}
  BY <1>1, <1>2, <1>3, <1>4 DEF Range
<1> QED
  BY <1>5 DEF longer

\* An element moved from the front of a sequence to the end of another.
LEMMA MovedElement ==
    ASSUME NEW S, NEW s \in Seq(S), NEW t \in Seq(S), t # << >>
    PROVE  /\ Head(t) \in S /\ Tail(t) \in Seq(S) /\ Append(s, Head(t)) \in Seq(S)
           /\ Append(s, Head(t)) \o Tail(t) = s \o t
           /\ Range(t) = Range(Tail(t)) \cup {Head(t)}
           /\ Range(Append(s, Head(t))) = Range(s) \cup {Head(t)}
<1> DEFINE m == Len(s)
           n == Len(t)
           h == Head(t)
           tail == Tail(t)
           longer == Append(s, h)
<1>1. m \in Nat /\ n \in Nat /\ n # 0 /\ s \in [1..m -> S] /\ t \in [1..n -> S]
  OBVIOUS
<1>2. /\ h = t[1] /\ h \in S /\ tail \in Seq(S) /\ Len(tail) = n - 1
      /\ \A i \in 1..(n - 1) : tail[i] = t[i + 1]
  BY <1>1
<1>3. /\ longer \in Seq(S) /\ Len(longer) = m + 1 /\ longer[m + 1] = h
      /\ \A i \in 1..m : longer[i] = s[i]
  BY <1>1, <1>2
<1>4. longer \o tail = s \o t
  <2> DEFINE left == longer \o tail
             right == s \o t
  <2> HIDE DEF h, tail, longer
  <2>0. /\ left \in Seq(S) /\ Len(left) = Len(longer) + Len(tail)
        /\ \A i \in 1..(Len(longer) + Len(tail)) :
               left[i] = IF i <= Len(longer) THEN longer[i] ELSE tail[i - Len(longer)]
    BY <1>2, <1>3, ConcatProperties
  <2>1. left \in Seq(S) /\ Len(left) = m + n
    <3> HIDE DEF left, m, n
    <3> QED
      BY <1>1, <1>2, <1>3, <2>0
  <2>2. right \in Seq(S) /\ Len(right) = m + n
    BY <1>1
  <2>3. ASSUME NEW i \in 1..(m + n) PROVE left[i] = right[i]
    <3>1. CASE i <= m
      BY <1>1, <1>2, <1>3, <3>1
    <3>2. CASE i = m + 1
      BY <1>1, <1>2, <1>3, <3>2
    <3>3. CASE i > m + 1
      <4>1. /\ i - (m + 1) \in 1..(n - 1) /\ i - m \in 1..n
            /\ (i - (m + 1)) + 1 = i - m
        BY <1>1, <3>3
      <4>2. left[i] = tail[i - (m + 1)]
        <5> HIDE DEF left, m, n
        <5> QED
          BY <1>1, <1>2, <1>3, <2>0, <3>3
      <4>3. right[i] = t[i - m]
        BY <1>1, <3>3
      <4> QED
        BY <1>2, <4>1, <4>2, <4>3
    <3>4. i <= m \/ i = m + 1 \/ i > m + 1
      BY <1>1
    <3> HIDE DEF left, right, m
    <3> QED
      BY <3>1, <3>2, <3>3, <3>4
  <2> HIDE DEF left, right
  <2>4. left = right
    BY <2>1, <2>2, <2>3, SeqEqual
  <2> QED
    BY <2>4 DEF left, right
<1>5. Range(t) = Range(tail) \cup {h}
  <2>1. DOMAIN t = 1..n /\ DOMAIN tail = 1..(n - 1)
    BY <1>1, <1>2
  <2>2. ASSUME NEW x \in Range(t) PROVE x \in Range(tail) \cup {h}
    <3>1. PICK i \in 1..n : t[i] = x
      BY <2>1 DEF Range
    <3>2. CASE i = 1
      BY <1>2, <3>1, <3>2
    <3>3. CASE i # 1
      <4>1. i - 1 \in 1..(n - 1) /\ (i - 1) + 1 = i
        BY <1>1, <3>3
      <4>2. tail[i - 1] = x
        BY <1>2, <3>1, <4>1
      <4> HIDE DEF tail, h
      <4> QED
        BY <2>1, <4>1, <4>2 DEF Range
    <3> QED
      BY <3>2, <3>3
  <2>3. ASSUME NEW x \in Range(tail) PROVE x \in Range(t)
    <3> HIDE DEF tail, h
    <3>1. PICK i \in 1..(n - 1) : tail[i] = x
      BY <2>1 DEF Range
    <3>2. i + 1 \in 1..n /\ t[i + 1] = x
      BY <1>1, <1>2, <3>1
    <3> QED
      BY <2>1, <3>2 DEF Range
  <2>4. h \in Range(t)
    <3>1. 1 \in 1..n
      BY <1>1
    <3> HIDE DEF h
    <3> QED
      BY <1>2, <2>1, <3>1 DEF Range
  <2> HIDE DEF tail, h
  <2> QED
    BY <2>2, <2>3, <2>4
<1>6. Range(longer) = Range(s) \cup {h}
  <2> HIDE DEF h
  <2> QED
    BY <1>2, RangeOfAppended
<1> QED
  BY <1>2, <1>3, <1>4, <1>5, <1>6

\* Leaving out the element in the middle.
LEMMA LeftOutElement ==
    ASSUME NEW S, NEW s \in Seq(S), NEW t \in Seq(S), t # << >>, IsInjective(s \o t)
    PROVE  /\ IsInjective(s \o Tail(t))
           /\ Head(t) \in Range(s \o t)
           /\ Head(t) \notin Range(s \o Tail(t))
           /\ Range(s \o Tail(t)) \subseteq Range(s \o t)
<1> DEFINE m == Len(s)
           n == Len(t)
           all == s \o t
           rest == s \o Tail(t)
           At(i) == IF i <= m THEN i ELSE i + 1
<1>1. m \in Nat /\ n \in Nat /\ n # 0
  OBVIOUS
<1>2. /\ DOMAIN all = 1..(m + n) /\ DOMAIN rest = 1..(m + n - 1)
      /\ all[m + 1] = Head(t)
  BY <1>1
<1>3. ASSUME NEW i \in 1..(m + n - 1)
      PROVE  At(i) \in 1..(m + n) /\ At(i) # m + 1 /\ rest[i] = all[At(i)]
  <2>1. CASE i <= m
    BY <1>1, <2>1
  <2>2. CASE i > m
    <3>1. i - m \in 1..(n - 1) /\ Len(Tail(t)) = n - 1 /\ Tail(t) \in Seq(S)
      BY <1>1, <2>2
    <3>2. rest[i] = Tail(t)[i - m]
      BY <1>1, <2>2, <3>1
    <3>3. Tail(t)[i - m] = t[(i - m) + 1]
      BY <1>1, <3>1
    <3>4. all[i + 1] = t[(i + 1) - m] /\ (i + 1) - m = (i - m) + 1
      BY <1>1, <2>2
    <3> QED
      BY <1>1, <2>2, <3>2, <3>3, <3>4
  <2> QED
    BY <1>1, <2>1, <2>2
<1>4. \A i, j \in 1..(m + n - 1) : At(i) = At(j) => i = j
  BY <1>1
<1>5. m + 1 \in 1..(m + n)
  BY <1>1
<1>6. \A i, j \in 1..(m + n) : all[i] = all[j] => i = j
  BY <1>2 DEF IsInjective
<1> HIDE DEF all, rest, At, m, n
<1>7. IsInjective(rest)
  BY <1>2, <1>3, <1>4, <1>6 DEF IsInjective
<1>8. Head(t) \in Range(all)
  BY <1>2, <1>5 DEF Range
<1>9. Head(t) \notin Range(rest)
  <2> SUFFICES ASSUME NEW i \in 1..(m + n - 1), rest[i] = Head(t) PROVE FALSE
    BY <1>2 DEF Range
  <2>1. all[At(i)] = all[m + 1]
    BY <1>2, <1>3
  <2> QED
    BY <1>3, <1>5, <1>6, <2>1
<1>10. Range(rest) \subseteq Range(all)
  BY <1>2, <1>3 DEF Range
<1> QED
  BY <1>7, <1>8, <1>9, <1>10 DEF all, rest

LEMMA AddedElement ==
    ASSUME NEW S, NEW s \in Seq(S), NEW x \in S, x \notin Range(s), IsInjective(s)
    PROVE  IsInjective(Append(s, x))
<1> DEFINE m == Len(s)
           longer == Append(s, x)
<1>1. m \in Nat /\ DOMAIN s = 1..m /\ DOMAIN longer = 1..(m + 1)
  OBVIOUS
<1>2. longer[m + 1] = x /\ \A i \in 1..m : longer[i] = s[i]
  OBVIOUS
<1>3. \A i \in 1..m : s[i] # x
  BY <1>1 DEF Range
<1>4. \A i, j \in 1..m : s[i] = s[j] => i = j
  BY <1>1 DEF IsInjective
<1>5. \A i \in 1..(m + 1) : i \in 1..m \/ i = m + 1
  BY <1>1
<1> HIDE DEF m, longer
<1>6. \A i, j \in 1..(m + 1) : longer[i] = longer[j] => i = j
  BY <1>2, <1>3, <1>4, <1>5
<1> QED
  BY <1>1, <1>6 DEF IsInjective, longer


\* The ancestors fetched are the first generations.
LEMMA GenerationsInLine ==
    ASSUME WalkInv, pom.pc # "idle", pom.of \in Coordinates
    PROVE  /\ \A i \in 1..Len(pom.chain) :
                  /\ Generation(pom.of)[i] \in Coordinates
                  /\ pom.chain[Len(pom.chain) + 1 - i] = Registry[Generation(pom.of)[i]]
           /\ Generation(pom.of)[Len(pom.chain)] \in Coordinates
           /\ Outermost = Registry[Generation(pom.of)[Len(pom.chain)]]
<1> DEFINE chain == pom.chain
           m == Len(chain)
           line == Generation(pom.of)
           Is(i) == line[i] \in Coordinates /\ (i # 0 => chain[m + 1 - i] = Registry[line[i]])
           S == {i \in 0..m : Is(i)}
<1>1. m \in Nat /\ chain \in Seq(Poms) /\ m <= AllGenerations /\ AllGenerations \in Nat
  BY Bounds DEF WalkInv, WalkType
<1>2. /\ line[0] = pom.of
      /\ \A n \in 1..AllGenerations :
             line[n] = IF line[n - 1] \in Coordinates THEN Registry[line[n - 1]].parent ELSE "none"
  BY GenerationBy
<1>3. ASSUME NEW i \in 1..m
      PROVE  LET child == IF i = m THEN Registry[pom.of] ELSE chain[i + 1]
             IN  child.parent \in Coordinates /\ chain[i] = Registry[child.parent]
  BY <1>1 DEF WalkInv, LineOfParents
<1> HIDE DEF chain, m, line
<1>4. 0 \in S
  BY <1>1, <1>2
<1>5. ASSUME NEW i \in 1..m, i - 1 \in S PROVE i \in S
  <2>1. /\ i \in 0..m /\ i \in 1..AllGenerations /\ m + 1 - i \in 1..m
        /\ line[i - 1] \in Coordinates
    BY <1>1, <1>5
  <2> DEFINE child == IF m + 1 - i = m THEN Registry[pom.of] ELSE chain[(m + 1 - i) + 1]
  <2>2. child = Registry[line[i - 1]]
    <3>1. CASE i = 1
      <4>1. m + 1 - i = m /\ i - 1 = 0
        BY <1>1, <3>1
      <4> QED
        BY <1>2, <4>1
    <3>2. CASE i # 1
      <4>1. m + 1 - i # m /\ i - 1 # 0 /\ (m + 1 - i) + 1 = m + 1 - (i - 1)
        BY <1>1, <3>2
      <4> QED
        BY <1>5, <4>1
    <3> QED
      BY <3>1, <3>2
  <2>3. child.parent \in Coordinates /\ chain[m + 1 - i] = Registry[child.parent]
    BY <1>3, <2>1
  <2>4. line[i] = Registry[line[i - 1]].parent
    BY <1>2, <2>1
  <2> QED
    BY <2>1, <2>2, <2>3, <2>4
<1>6. 0..m \subseteq S
  <2> HIDE DEF S
  <2> QED
    BY <1>1, <1>4, <1>5, UpTo
<1>7. \A i \in 1..m : line[i] \in Coordinates /\ chain[m + 1 - i] = Registry[line[i]]
  BY <1>1, <1>6
<1>8. line[m] \in Coordinates
  BY <1>1, <1>6
<1>9. Outermost = Registry[line[m]]
  <2>1. CASE chain = << >>
    <3>1. m = 0
      BY <2>1 DEF m
    <3> QED
      BY <1>2, <2>1, <3>1 DEF Outermost, chain
  <2>2. CASE chain # << >>
    <3>1. m \in 1..m /\ m + 1 - m = 1 /\ Head(chain) = chain[1]
      BY <1>1, <2>2 DEF m
    <3>2. chain[1] = Registry[line[m]]
      BY <1>7, <3>1
    <3> QED
      BY <2>2, <3>1, <3>2 DEF Outermost, chain
  <2> QED
    BY <2>1, <2>2
<1> QED
  BY <1>7, <1>8, <1>9 DEF m, chain, line

\* Beyond an ancestor without a parent there are none.
LEMMA EndOfLine ==
    ASSUME NEW c \in Coordinates, NEW n \in 0..AllGenerations, Generation(c)[n] \in Coordinates,
           Registry[Generation(c)[n]].parent \notin Coordinates
    PROVE  \A i \in (n + 1)..AllGenerations : Generation(c)[i] \notin Coordinates
<1> DEFINE line == Generation(c)
           N == AllGenerations - n
           S == {j \in 0..N : j # 0 => line[n + j] \notin Coordinates}
<1>1. AllGenerations \in Nat /\ n \in Nat /\ N \in Nat
  BY Bounds
<1>2. \A i \in 1..AllGenerations :
          line[i] = IF line[i - 1] \in Coordinates THEN Registry[line[i - 1]].parent ELSE "none"
  BY GenerationBy
<1>3. "none" \notin Coordinates
  BY PomAssumption
<1>4. line[n] \in Coordinates /\ Registry[line[n]].parent \notin Coordinates
  OBVIOUS
<1> HIDE DEF line
<1>5. 0 \in S
  BY <1>1
<1>6. ASSUME NEW j \in 1..N, j - 1 \in S PROVE j \in S
  <2>1. j \in 0..N /\ n + j \in 1..AllGenerations /\ (n + j) - 1 = n + (j - 1)
    BY <1>1
  <2>2. line[n + j] = IF line[n + (j - 1)] \in Coordinates
                      THEN Registry[line[n + (j - 1)]].parent ELSE "none"
    BY <1>2, <2>1
  <2>3. CASE j = 1
    <3>1. n + (j - 1) = n
      BY <1>1, <2>3
    <3> QED
      BY <1>4, <2>1, <2>2, <3>1
  <2>4. CASE j # 1
    <3>1. line[n + (j - 1)] \notin Coordinates
      BY <1>1, <1>6, <2>4
    <3> QED
      BY <1>3, <2>1, <2>2, <3>1
  <2> QED
    BY <2>3, <2>4
<1>7. 0..N \subseteq S
  <2> HIDE DEF S, N
  <2> QED
    BY <1>1, <1>5, <1>6, UpTo
<1>8. ASSUME NEW i \in (n + 1)..AllGenerations PROVE line[i] \notin Coordinates
  <2>1. i - n \in 0..N /\ i - n # 0 /\ n + (i - n) = i
    BY <1>1
  <2>2. i - n \in S
    BY <1>7, <2>1
  <2> QED
    BY <2>1, <2>2
<1> QED
  BY <1>8 DEF line

\* Ancestors that do not define k do not change what it stands for.
LEMMA NoneBeyond ==
    ASSUME NEW c \in Coordinates, NEW k \in Keys,
           NEW n \in 0..AllGenerations, NEW m \in n..AllGenerations,
           \A i \in (n + 1)..m : ~Defines(c, k, i)
    PROVE  Definition(c, k, m) = Definition(c, k, n)
<1>1. m \in 0..AllGenerations /\ n \in Nat /\ m \in Nat /\ n <= m
  BY Bounds
<1>2. CASE k \in DOMAIN Implicit(Registry[c])
  BY <1>1, <1>2, DefinitionIs
<1>3. CASE k \notin DOMAIN Implicit(Registry[c])
  <2>1. ASSUME NEW i \in 0..n, FirstDefines(c, k, i)
        PROVE  Definition(c, k, m) = Definition(c, k, n)
    <3>1. i \in 0..m
      BY <1>1
    <3> QED
      BY <1>1, <1>3, <2>1, <3>1, DefinitionIs
  <2>2. ASSUME \A i \in 0..n : ~Defines(c, k, i) PROVE Definition(c, k, m) = Definition(c, k, n)
    <3>1. \A i \in 0..m : i \in 0..n \/ i \in (n + 1)..m
      BY <1>1
    <3>2. \A i \in 0..m : ~Defines(c, k, i)
      BY <2>2, <3>1
    <3> QED
      BY <1>1, <1>3, <2>2, <3>2, DefinitionIs
  <2> QED
    BY <2>1, <2>2, SomeDefines
<1> QED
  BY <1>2, <1>3

\* What is collected from the first ancestors are the definitions within their reach.
LEMMA CollectedAreDefinitions ==
    ASSUME NEW c \in Coordinates, NEW chain \in Seq(Poms), NEW k \in Keys,
           Len(chain) <= AllGenerations,
           \A i \in 1..Len(chain) : /\ Generation(c)[i] \in Coordinates
                                    /\ chain[Len(chain) + 1 - i] = Registry[Generation(c)[i]]
    PROVE  LET props == CollectProperties(Registry[c], chain)
           IN  Definition(c, k, Len(chain)) = IF k \in DOMAIN props THEN props[k] ELSE <<k>>
<1> DEFINE p == Registry[c]
           m == Len(chain)
           props == CollectProperties(p, chain)
           line == Generation(c)
<1>1. p \in Poms /\ m \in Nat /\ m \in 0..AllGenerations
  BY Bounds DEF Poms
<1>2. /\ k \in DOMAIN Implicit(p) =>
             k \in DOMAIN props /\ props[k] = Implicit(p)[k]
      /\ k \notin DOMAIN Implicit(p) /\ k \in DOMAIN p.properties =>
             k \in DOMAIN props /\ props[k] = p.properties[k]
      /\ k \notin DOMAIN Implicit(p) /\ k \notin DOMAIN p.properties =>
             /\ \A i \in 1..m : NearestAt(chain, k, i) =>
                    k \in DOMAIN props /\ props[k] = chain[i].properties[k]
             /\ (\A i \in 1..m : k \notin DOMAIN chain[i].properties) => k \notin DOMAIN props
  <2> HIDE DEF p
  <2> QED
    BY <1>1, CollectedIs
<1>3. /\ k \in DOMAIN Implicit(p) => Definition(c, k, m) = Implicit(p)[k]
      /\ k \notin DOMAIN Implicit(p) =>
             /\ \A i \in 0..m : FirstDefines(c, k, i) =>
                    Definition(c, k, m) = Registry[line[i]].properties[k]
             /\ (\A i \in 0..m : ~Defines(c, k, i)) => Definition(c, k, m) = <<k>>
  BY <1>1, DefinitionIs
<1>4. Defines(c, k, 0) <=> k \in DOMAIN p.properties
  BY GenerationBy DEF Defines
<1>5. line[0] = c
  BY GenerationBy
<1>6. ASSUME NEW j \in 1..m
      PROVE  /\ m + 1 - j \in 1..m
             /\ chain[j] = Registry[line[m + 1 - j]]
             /\ k \in DOMAIN chain[j].properties <=> Defines(c, k, m + 1 - j)
  <2>1. m + 1 - j \in 1..m /\ m + 1 - (m + 1 - j) = j
    BY <1>1
  <2>2. line[m + 1 - j] \in Coordinates /\ chain[j] = Registry[line[m + 1 - j]]
    BY <2>1
  <2> QED
    BY <2>1, <2>2 DEF Defines
<1>7. (\A i \in 0..m : ~Defines(c, k, i)) \/ \E i \in 0..m : FirstDefines(c, k, i)
  BY <1>1, SomeDefines
<1> HIDE DEF p, props, m, line
<1>8. CASE k \in DOMAIN Implicit(p)
  BY <1>2, <1>3, <1>8 DEF p, m, props
<1>9. CASE k \notin DOMAIN Implicit(p)
  <2>1. CASE \A i \in 0..m : ~Defines(c, k, i)
    <3>1. k \notin DOMAIN p.properties
      BY <1>1, <1>4, <2>1
    <3>2. \A j \in 1..m : k \notin DOMAIN chain[j].properties
      <4>1. ASSUME NEW j \in 1..m PROVE k \notin DOMAIN chain[j].properties
        <5>1. m + 1 - j \in 0..m
          BY <1>1
        <5> QED
          BY <1>6, <2>1, <5>1
      <4> QED
        BY <4>1
    <3> QED
      BY <1>2, <1>3, <1>9, <2>1, <3>1, <3>2 DEF p, m, props
  <2>2. ASSUME NEW i \in 0..m, FirstDefines(c, k, i)
        PROVE  Definition(c, k, m) = IF k \in DOMAIN props THEN props[k] ELSE <<k>>
    <3>0. Definition(c, k, m) = Registry[line[i]].properties[k]
      BY <1>3, <1>9, <2>2
    <3>1. CASE i = 0
      <4>1. k \in DOMAIN p.properties
        BY <1>4, <2>2, <3>1 DEF FirstDefines
      <4>2. Registry[line[i]] = p
        BY <1>5, <3>1 DEF p
      <4> QED
        BY <1>2, <1>9, <3>0, <4>1, <4>2
    <3>2. CASE i # 0
      <4> DEFINE j == m + 1 - i
      <4>1. j \in 1..m /\ m + 1 - j = i
        BY <1>1, <3>2
      <4>2. k \notin DOMAIN p.properties
        BY <1>1, <1>4, <2>2, <3>2 DEF FirstDefines
      <4>3. k \in DOMAIN chain[j].properties /\ chain[j] = Registry[line[i]]
        BY <1>6, <2>2, <4>1 DEF FirstDefines
      <4>4. ASSUME NEW l \in (j + 1)..m PROVE k \notin DOMAIN chain[l].properties
        <5>1. l \in 1..m /\ m + 1 - l \in 0..(i - 1)
          BY <1>1, <4>1
        <5> QED
          BY <1>6, <2>2, <5>1 DEF FirstDefines
      <4>5. NearestAt(chain, k, j)
        BY <4>3, <4>4 DEF NearestAt, m
      <4> QED
        BY <1>2, <1>9, <3>0, <4>1, <4>2, <4>3, <4>5
    <3> QED
      BY <3>1, <3>2
  <2> QED
    BY <1>7, <2>1, <2>2 DEF p, m, props
<1> QED
  BY <1>8, <1>9


LEMMA RangeType ==
    ASSUME NEW S, NEW s \in Seq(S)
    PROVE  Range(s) \subseteq S
BY DEF Range

LEMMA NothingInRange == Range(<< >>) = {} /\ IsInjective(<< >>) /\ << >> \o << >> = << >>
BY DEF Range, IsInjective

LEMMA DeclaredAre ==
    ASSUME NEW c \in Coordinates
    PROVE  /\ Registry[c].dependencies \o Registry[c].managed \in Seq(Dependency)
           /\ Declared(c) = Range(Registry[c].dependencies \o Registry[c].managed)
           /\ Declared(c) \subseteq Dependency
<1>1. Registry[c].dependencies \o Registry[c].managed \in Seq(Dependency)
  BY PomAssumption DEF PomProject
<1> QED
  BY <1>1, RangeType DEF Declared

LEMMA ReachIsBounded ==
    ASSUME WalkInv, InspectionType
    PROVE  Reach \in 0..AllGenerations /\ Reach \in 0..MaxParentDepth
<1>1. Len(pom.chain) \in Nat /\ Len(pom.chain) <= MaxParentDepth
  BY DEF WalkInv, WalkType
<1> QED
  <2>1. Len(pom.chain) \in 0..MaxParentDepth
    BY <1>1, PomAssumption
  <2>2. MaxParentDepth \in 0..MaxParentDepth /\ 0..MaxParentDepth \subseteq 0..AllGenerations
    BY Bounds
  <2>3. Reach \in 0..MaxParentDepth
    BY <2>1, <2>2 DEF Reach
  <2> QED
    BY <2>2, <2>3

LEMMA AsReadIs ==
    ASSUME NEW dep \in Dependency, pom.of \in Coordinates, WalkInv, InspectionType
    PROVE  /\ AsRead(dep) \in Dependency
           /\ DOMAIN dep = {"group", "artifact", "version"}
           /\ \A f \in DOMAIN dep : dep[f] \in Text
           /\ AsRead(dep).version = Within(pom.of, dep.version, Reach, Rounds)
<1>1. Reach \in 0..AllGenerations /\ Rounds \in 0..AllDepths
  BY ReachIsBounded, Bounds
<1>2. /\ DOMAIN dep = {"group", "artifact", "version"}
      /\ \A f \in DOMAIN dep : dep[f] \in Text
  BY DEF Dependency
<1>3. \A f \in DOMAIN dep : Within(pom.of, dep[f], Reach, Rounds) \in Text
  BY <1>1, <1>2, WithinIsText
<1>4. AsRead(dep) \in Dependency
  BY <1>2, <1>3 DEF AsRead, Dependency
<1>5. AsRead(dep).version = Within(pom.of, dep.version, Reach, Rounds)
  BY <1>2 DEF AsRead
<1> QED
  BY <1>2, <1>4, <1>5

\* A dependency as the code resolves it.
LEMMA ResolvedAsRead ==
    ASSUME InspectionInv, pom.pc = "resolve", NEW dep \in Dependency
    PROVE  Resolved(dep, pom.props) = AsRead(dep)
<1>1. /\ pom.of \in Coordinates /\ Entries(Keys, pom.props) /\ Reach \in 0..AllGenerations
      /\ \A k \in Keys : Definition(pom.of, k, Reach)
                             = IF k \in DOMAIN pom.props THEN pom.props[k] ELSE <<k>>
  BY ReachIsBounded DEF InspectionInv, InspectionType, PropsInv
<1>2. \A f \in DOMAIN dep : dep[f] \in Text
  BY <1>1, AsReadIs DEF InspectionInv
<1>3. \A f \in DOMAIN dep :
          ResolveVersion(dep[f], pom.props) = Within(pom.of, dep[f], Reach, Rounds)
  BY <1>1, <1>2, ResolvedIsWithin
<1> QED
  BY <1>3 DEF Resolved, AsRead

-----------------------------------------------------------------------------
(* Its steps *)

\* Nothing has been inspected yet.
NotInspected ==
    /\ pom.chain = << >> /\ pom.props = NoEntries /\ pom.rest = << >> /\ pom.todo = << >>
    /\ pom.recorded = << >> /\ pom.failed = {} /\ pom.answer = "none" /\ pom.complete = TRUE
    /\ pom.pc \in {"idle", "fetch"} /\ pom.of \in Coordinates \cup {"none"}
    /\ pom.pc = "fetch" => pom.of \in Coordinates

LEMMA InspectionInit ==
    NotInspected /\ WalkInv => InspectionInv
<1> SUFFICES ASSUME NotInspected, WalkInv PROVE InspectionInv
  OBVIOUS
<1> USE DEF NotInspected
<1>1. InspectionType
  <2>1. Entries(Keys, NoEntries) /\ << >> \in Seq(Dependency)
    BY NothingGiven, GivenIsEntries
  <2> QED
    BY <2>1 DEF InspectionType
<1>2. Phases /\ PropsInv /\ NoneMissing
  BY DEF Phases, PropsInv, NoneMissing
<1>3. OriginInv
  BY NothingInRange DEF OriginInv, Evaluated
<1>4. OnceEach
  BY NothingInRange DEF OnceEach
<1> QED
  BY <1>1, <1>2, <1>3, <1>4 DEF InspectionInv

\* A step that only changes the phase, and the answer.
LEMMA SameInspection ==
    ASSUME InspectionInv, WalkInv',
           pom'.of = pom.of, pom'.chain = pom.chain, pom'.props = pom.props,
           pom'.rest = pom.rest, pom'.todo = pom.todo, pom'.recorded = pom.recorded,
           pom'.failed = pom.failed, pom'.complete = pom.complete,
           pom'.answer \in {"none", "ok", "as is", "error"},
           \/ pom.pc \in {"fetch", "evaluate"} /\ pom'.pc = "idle"
           \/ pom.pc = "fetch" /\ pom'.pc = "parents"
           \/ pom.pc = "resolve" /\ pom'.pc = "evaluate" /\ pom.rest = << >>
    PROVE  InspectionInv'
<1>1. InspectionType'
  BY DEF InspectionInv, InspectionType
<1>2. Phases'
  BY DEF InspectionInv, Phases
<1>3. PropsInv'
  BY DEF PropsInv
<1>4. Reach' = Reach /\ Evaluated' = Evaluated
  BY DEF Reach, Evaluated
<1>5. ASSUME NEW dep PROVE AsRead(dep)' = AsRead(dep)
  BY <1>4 DEF AsRead
<1>6. OriginInv'
  BY <1>4, <1>5 DEF InspectionInv, OriginInv
<1>7. NoneMissing'
  <2>1. pom.pc \in {"resolve", "evaluate"} \/ pom'.recorded = << >>
    BY DEF InspectionInv, Phases
  <2>2. CASE pom.pc \in {"resolve", "evaluate"}
    BY <1>4, <1>5, <2>2 DEF InspectionInv, NoneMissing
  <2>3. CASE pom.pc \notin {"resolve", "evaluate"}
    BY <2>1, <2>3 DEF NoneMissing
  <2> QED
    BY <2>2, <2>3
<1>8. OnceEach'
  BY DEF InspectionInv, OnceEach
<1> QED
  BY <1>1, <1>2, <1>3, <1>6, <1>7, <1>8 DEF InspectionInv

LEMMA FetchInspection ==
    ASSUME InspectionInv, WalkInv', ParentFetched
    PROVE  InspectionInv'
<1>1. /\ pom.pc = "parents" /\ pom'.pc = "parents" /\ pom'.of = pom.of
      /\ pom'.props = pom.props /\ pom'.rest = pom.rest /\ pom'.todo = pom.todo
      /\ pom'.recorded = pom.recorded /\ pom'.failed = pom.failed
      /\ pom'.complete = pom.complete /\ pom'.answer = pom.answer
  BY DEF InspectionInv, WalkInv, WalkType, ParentFetched
<1>2. /\ pom.todo = << >> /\ pom.recorded = << >> /\ pom.failed = {} /\ pom.rest = << >>
  BY <1>1 DEF InspectionInv, Phases
<1>3. InspectionType' /\ Phases'
  BY <1>1 DEF InspectionInv, InspectionType, Phases
<1>4. PropsInv' /\ NoneMissing'
  BY <1>1, <1>2 DEF PropsInv, NoneMissing
<1>5. OriginInv'
  BY <1>1, <1>2, NothingInRange DEF OriginInv, Evaluated
<1>6. OnceEach'
  BY <1>1 DEF InspectionInv, OnceEach
<1> QED
  BY <1>3, <1>4, <1>5, <1>6 DEF InspectionInv

\* When no parent is left, or the limit is reached, the ancestors fetched are all
\* within reach.
LEMMA PropsCollected ==
    ASSUME WalkInv, InspectionType, pom.pc = "parents",
           NEW complete \in BOOLEAN, complete => ~MoreParents,
           NEW k \in Keys
    PROVE  LET props == CollectProperties(Registry[pom.of], pom.chain)
           IN  Definition(pom.of, k, IF complete THEN MaxParentDepth ELSE Len(pom.chain))
                   = IF k \in DOMAIN props THEN props[k] ELSE <<k>>
<1> DEFINE c == pom.of
           m == Len(pom.chain)
           props == CollectProperties(Registry[c], pom.chain)
           value == IF k \in DOMAIN props THEN props[k] ELSE <<k>>
<1>1. /\ c \in Coordinates /\ pom.chain \in Seq(Poms) /\ m \in Nat /\ m <= MaxParentDepth
      /\ m \in 0..AllGenerations /\ m <= AllGenerations /\ MaxParentDepth \in m..AllGenerations
  <2>1. c \in Coordinates /\ pom.chain \in Seq(Poms) /\ m <= MaxParentDepth
    BY DEF WalkInv, WalkType, InspectionType
  <2>2. m \in Nat
    BY <2>1
  <2> HIDE DEF m
  <2> QED
    BY <2>1, <2>2, Bounds
<1>2. /\ \A i \in 1..m : /\ Generation(c)[i] \in Coordinates
                         /\ pom.chain[m + 1 - i] = Registry[Generation(c)[i]]
      /\ Generation(c)[m] \in Coordinates
      /\ Outermost = Registry[Generation(c)[m]]
  BY <1>1, GenerationsInLine
<1>3. Definition(c, k, m) = value
  <2> HIDE DEF c
  <2> QED
    BY <1>1, <1>2, CollectedAreDefinitions
<1>4. ASSUME complete PROVE Definition(c, k, MaxParentDepth) = Definition(c, k, m)
  <2>1. Outermost.parent = "none" \/ m = MaxParentDepth
    BY <1>1, <1>4, PomAssumption DEF MoreParents
  <2>2. CASE m = MaxParentDepth
    BY <2>2
  <2>3. CASE Outermost.parent = "none"
    <3>1. Registry[Generation(c)[m]].parent \notin Coordinates
      BY <1>2, <2>3, PomAssumption
    <3>2. \A i \in (m + 1)..AllGenerations : Generation(c)[i] \notin Coordinates
      BY <1>1, <1>2, <3>1, EndOfLine
    <3>3. \A i \in (m + 1)..MaxParentDepth : ~Defines(c, k, i)
      <4>1. (m + 1)..MaxParentDepth \subseteq (m + 1)..AllGenerations
        <5> HIDE DEF m
        <5> QED
          BY <1>1, Bounds
      <4> QED
        BY <3>2, <4>1 DEF Defines
    <3> QED
      BY <1>1, <3>3, NoneBeyond
  <2> QED
    BY <2>1, <2>2, <2>3
<1> QED
  BY <1>3, <1>4

LEMMA CollectInspection ==
    ASSUME InspectionInv, WalkInv', pom.pc = "parents",
           NEW complete \in BOOLEAN, complete => ~MoreParents, Collect(complete)
    PROVE  InspectionInv'
<1> DEFINE c == pom.of
           props == CollectProperties(Registry[c], pom.chain)
           listed == Registry[c].dependencies \o Registry[c].managed
<1>1. /\ pom'.pc = "resolve" /\ pom'.of = c /\ pom'.chain = pom.chain
      /\ pom'.props = props /\ pom'.rest = listed /\ pom'.complete = complete
      /\ pom'.todo = pom.todo /\ pom'.recorded = pom.recorded
      /\ pom'.failed = pom.failed /\ pom'.answer = pom.answer
  BY DEF InspectionInv, WalkInv, WalkType, Collect
<1>2. /\ pom.todo = << >> /\ pom.recorded = << >> /\ pom.failed = {}
      /\ c \in Coordinates /\ pom.chain \in Seq(Poms)
  BY DEF InspectionInv, Phases, InspectionType, WalkInv, WalkType
<1>3. listed \in Seq(Dependency) /\ Declared(c) = Range(listed)
  BY <1>2, DeclaredAre
<1>4. \A k \in Keys :
          Definition(c, k, IF complete THEN MaxParentDepth ELSE Len(pom.chain))
              = IF k \in DOMAIN props THEN props[k] ELSE <<k>>
  BY PropsCollected DEF InspectionInv
<1>5. Entries(Keys, props)
  <2>1. Registry[c] \in Poms /\ "project.version" \in Keys
    BY <1>2, PomAssumption DEF Poms, ImplicitKeys
  <2> HIDE DEF c
  <2> QED
    BY <1>2, <2>1, CollectedIs
<1> HIDE DEF c, props, listed
<1>6. InspectionType'
  BY <1>1, <1>2, <1>3, <1>5 DEF InspectionInv, InspectionType
<1>7. Phases'
  BY <1>1, <1>2 DEF Phases
<1>8. PropsInv'
  BY <1>1, <1>4 DEF PropsInv, Reach
<1>9. OriginInv'
  BY <1>1, <1>2, <1>3, NothingInRange DEF OriginInv, Evaluated
<1>10. NoneMissing'
  BY <1>1, <1>3 DEF NoneMissing
<1>11. OnceEach'
  BY <1>1 DEF InspectionInv, OnceEach
<1> QED
  BY <1>6, <1>7, <1>8, <1>9, <1>10, <1>11 DEF InspectionInv

LEMMA ResolveInspection ==
    ASSUME InspectionInv, WalkInv', Resolve, pom.rest # << >>
    PROVE  InspectionInv'
<1> DEFINE dep == Head(pom.rest)
           new == AsRead(dep)
<1>1. pom.pc = "resolve"
  BY DEF Resolve
<1>2. /\ pom.rest \in Seq(Dependency) /\ pom.todo \in Seq(Dependency)
      /\ pom.recorded = << >> /\ pom.failed = {} /\ pom.of \in Coordinates
  BY <1>1 DEF InspectionInv, InspectionType, Phases
<1>3. /\ dep \in Dependency /\ Tail(pom.rest) \in Seq(Dependency)
      /\ Range(pom.rest) = Range(Tail(pom.rest)) \cup {dep}
  <2>1. pom.todo \in Seq(Dependency) /\ pom.rest \in Seq(Dependency)
    BY <1>2
  <2> QED
    BY <2>1, MovedElement
<1>4. Resolved(dep, pom.props) = new /\ new \in Dependency
  <2> HIDE DEF dep
  <2> QED
    BY <1>1, <1>2, <1>3, ResolvedAsRead, AsReadIs DEF InspectionInv
<1>5. /\ pom'.pc = "resolve" /\ pom'.of = pom.of /\ pom'.chain = pom.chain
      /\ pom'.props = pom.props /\ pom'.rest = Tail(pom.rest) /\ pom'.complete = pom.complete
      /\ pom'.todo = Added(pom.todo, Resolved(dep, pom.props))
      /\ pom'.recorded = pom.recorded /\ pom'.failed = pom.failed /\ pom'.answer = pom.answer
  BY DEF InspectionInv, WalkInv, WalkType, Resolve
<1>6. dep \in Declared(pom.of)
  BY <1>3 DEF InspectionInv, OriginInv
<1> HIDE DEF dep, new
<1>7. /\ pom'.todo \in Seq(Dependency) /\ IsInjective(pom'.todo)
      /\ Range(pom'.todo) = IF Known(new.version) THEN Range(pom.todo) \cup {new}
                            ELSE Range(pom.todo)
  <2>1. IsInjective(pom.todo)
    <3>1. << >> \o pom.todo = pom.todo
      BY <1>2
    <3> QED
      BY <1>2, <3>1 DEF InspectionInv, OnceEach
  <2>2. CASE Known(new.version) /\ new \notin Range(pom.todo)
    <3>1. pom'.todo = Append(pom.todo, new)
      BY <1>4, <1>5, <2>2 DEF Added
    <3>2. Append(pom.todo, new) \in Seq(Dependency)
      BY <1>2, <1>4
    <3>3. IsInjective(Append(pom.todo, new))
      BY <1>2, <1>4, <2>1, <2>2, AddedElement
    <3>4. Range(Append(pom.todo, new)) = Range(pom.todo) \cup {new}
      BY <1>2, <1>4, RangeOfAppended
    <3> QED
      BY <2>2, <3>1, <3>2, <3>3, <3>4
  <2>3. CASE ~(Known(new.version) /\ new \notin Range(pom.todo))
    BY <1>2, <1>4, <1>5, <2>1, <2>3 DEF Added
  <2> QED
    BY <2>2, <2>3
<1>8. Reach' = Reach
  BY <1>5 DEF Reach
<1>9. ASSUME NEW d PROVE AsRead(d)' = AsRead(d)
  BY <1>5, <1>8 DEF AsRead
<1>10. Evaluated' = IF Known(new.version) THEN Evaluated \cup {new} ELSE Evaluated
  BY <1>5, <1>7 DEF Evaluated
<1>11. InspectionType'
  <2>1. pom'.rest \in Seq(Dependency) /\ pom'.todo \in Seq(Dependency)
    BY <1>3, <1>5, <1>7
  <2> QED
    BY <1>1, <1>5, <2>1 DEF InspectionInv, InspectionType
<1>12. Phases'
  BY <1>5 DEF InspectionInv, Phases
<1>13. PropsInv'
  BY <1>1, <1>5, <1>8 DEF InspectionInv, PropsInv
<1>14. OriginInv'
  <2>1. \A d \in Range(pom'.rest) : d \in Declared(pom'.of)
    BY <1>3, <1>5 DEF InspectionInv, OriginInv
  <2>2. ASSUME NEW e \in Evaluated'
        PROVE /\ pom'.of \in Coordinates
              /\ \E d \in Declared(pom'.of) : e = AsRead(d)'
              /\ Known(e.version)
    <3>1. CASE e \in Evaluated
      BY <1>5, <1>9, <3>1 DEF InspectionInv, OriginInv
    <3>2. CASE e \notin Evaluated
      <4>1. e = new /\ Known(new.version)
        BY <1>10, <3>2, <2>2
      <4> QED
        BY <1>2, <1>5, <1>6, <1>9, <4>1 DEF new
    <3> QED
      BY <3>1, <3>2
  <2> QED
    BY <2>1, <2>2 DEF OriginInv
<1>15. NoneMissing'
  <2>1. ASSUME NEW d \in Declared(pom.of), Known(AsRead(d).version)
        PROVE  d \in Range(Tail(pom.rest)) \/ AsRead(d) \in Evaluated'
    <3>1. d \in Range(pom.rest) \/ AsRead(d) \in Evaluated
      BY <1>1, <2>1 DEF InspectionInv, NoneMissing
    <3>2. CASE d = dep
      BY <1>10, <2>1, <3>2 DEF new
    <3>3. CASE d # dep
      BY <1>3, <1>10, <3>1, <3>3
    <3> QED
      BY <3>2, <3>3
  <2> QED
    BY <1>5, <1>9, <2>1 DEF NoneMissing
<1>16. OnceEach'
  <2>1. << >> \o pom'.todo = pom'.todo
    BY <1>7
  <2> QED
    BY <1>2, <1>5, <1>7, <2>1 DEF OnceEach
<1> QED
  BY <1>11, <1>12, <1>13, <1>14, <1>15, <1>16 DEF InspectionInv

LEMMA EvaluateInspection ==
    ASSUME InspectionInv, WalkInv', EvaluateDependency
    PROVE  InspectionInv'
<1> DEFINE new == Head(pom.todo)
<1>1. pom.pc = "evaluate" /\ pom.todo # << >>
  BY DEF EvaluateDependency
<1>2. /\ pom.todo \in Seq(Dependency) /\ pom.recorded \in Seq(Dependency)
      /\ pom.failed \in SUBSET Dependency /\ pom.rest = << >>
  BY <1>1 DEF InspectionInv, InspectionType, Phases
<1>3. /\ new \in Dependency /\ Tail(pom.todo) \in Seq(Dependency)
      /\ Append(pom.recorded, new) \in Seq(Dependency)
      /\ Append(pom.recorded, new) \o Tail(pom.todo) = pom.recorded \o pom.todo
      /\ Range(pom.todo) = Range(Tail(pom.todo)) \cup {new}
      /\ Range(Append(pom.recorded, new)) = Range(pom.recorded) \cup {new}
  <2> DEFINE s == pom.recorded
             t == pom.todo
  <2>1. s \in Seq(Dependency) /\ t \in Seq(Dependency) /\ t # << >>
    BY <1>1, <1>2
  <2> HIDE DEF s, t
  <2>2. /\ Head(t) \in Dependency /\ Tail(t) \in Seq(Dependency)
        /\ Append(s, Head(t)) \in Seq(Dependency)
        /\ Append(s, Head(t)) \o Tail(t) = s \o t
        /\ Range(t) = Range(Tail(t)) \cup {Head(t)}
        /\ Range(Append(s, Head(t))) = Range(s) \cup {Head(t)}
    BY <2>1, MovedElement
  <2> QED
    BY <2>2, Zenon DEF s, t
<1>4. /\ IsInjective(pom.recorded \o Tail(pom.todo))
      /\ new \in Range(pom.recorded \o pom.todo)
      /\ new \notin Range(pom.recorded \o Tail(pom.todo))
      /\ Range(pom.recorded \o Tail(pom.todo)) \subseteq Range(pom.recorded \o pom.todo)
  <2>1. IsInjective(pom.recorded \o pom.todo)
    BY DEF InspectionInv, OnceEach
  <2> QED
    BY <1>1, <1>2, <2>1, LeftOutElement
<1>5. /\ pom'.pc = "evaluate" /\ pom'.of = pom.of /\ pom'.chain = pom.chain
      /\ pom'.props = pom.props /\ pom'.rest = pom.rest /\ pom'.complete = pom.complete
      /\ pom'.todo = Tail(pom.todo) /\ pom'.answer = pom.answer
  BY DEF InspectionInv, WalkInv, WalkType, EvaluateDependency
<1>6. \/ pom'.recorded = Append(pom.recorded, new) /\ pom'.failed = pom.failed
      \/ pom'.recorded = pom.recorded /\ pom'.failed = pom.failed \cup {new}
  BY DEF InspectionInv, WalkInv, WalkType, EvaluateDependency
<1> HIDE DEF new
<1>7. Reach' = Reach
  BY <1>5 DEF Reach
<1>8. ASSUME NEW d PROVE AsRead(d)' = AsRead(d)
  BY <1>5, <1>7 DEF AsRead
<1>9. Evaluated' = Evaluated
  BY <1>3, <1>5, <1>6 DEF Evaluated
<1>10. InspectionType'
  <2>1. /\ pom'.rest \in Seq(Dependency) /\ pom'.todo \in Seq(Dependency)
        /\ pom'.recorded \in Seq(Dependency) /\ pom'.failed \in SUBSET Dependency
    <3>1. << >> \in Seq(Dependency) /\ pom'.rest = << >> /\ pom'.todo = Tail(pom.todo)
      BY <1>2, <1>5
    <3>2. pom'.recorded = pom.recorded \/ pom'.recorded = Append(pom.recorded, new)
      BY <1>6
    <3>3. pom'.failed = pom.failed \/ pom'.failed = pom.failed \cup {new}
      BY <1>6
    <3>4. pom'.failed \in SUBSET Dependency
      BY <1>2, <1>3, <3>3
    <3>5. pom'.recorded \in Seq(Dependency)
      BY <1>2, <1>3, <3>2, Zenon
    <3> QED
      BY <1>3, <3>1, <3>4, <3>5, Zenon
  <2> QED
    BY <1>1, <1>5, <2>1 DEF InspectionInv, InspectionType
<1>11. Phases'
  BY <1>2, <1>5 DEF Phases
<1>12. PropsInv'
  BY <1>5 DEF PropsInv
<1>13. OriginInv'
  BY <1>5, <1>8, <1>9 DEF InspectionInv, OriginInv
<1>14. NoneMissing'
  BY <1>1, <1>5, <1>8, <1>9 DEF InspectionInv, NoneMissing
<1>15. OnceEach'
  <2>1. CASE pom'.recorded = Append(pom.recorded, new) /\ pom'.failed = pom.failed
    BY <1>3, <1>5, <2>1 DEF InspectionInv, OnceEach
  <2>2. CASE pom'.recorded = pom.recorded /\ pom'.failed = pom.failed \cup {new}
    BY <1>4, <1>5, <2>2 DEF InspectionInv, OnceEach
  <2> QED
    BY <1>6, <2>1, <2>2
<1> QED
  BY <1>10, <1>11, <1>12, <1>13, <1>14, <1>15 DEF InspectionInv


LEMMA InspectionInitially == ServerInit => InspectionInv
<1> SUFFICES ASSUME ServerInit PROVE InspectionInv
  OBVIOUS
<1>1. WalkInv
  BY WalkInit
<1>2. /\ pom.chain = << >> /\ pom.props = NoEntries /\ pom.rest = << >> /\ pom.todo = << >>
      /\ pom.recorded = << >> /\ pom.failed = {} /\ pom.answer = "none" /\ pom.complete = TRUE
      /\ pom.pc = "idle" /\ pom.of = "none"
  BY DEF ServerInit, PomInit, NoPom
<1> QED
  BY <1>1, <1>2, InspectionInit DEF NotInspected

LEMMA PomStep == InspectionInv /\ WalkInv' /\ HandlePom => InspectionInv'
<1> SUFFICES ASSUME InspectionInv, WalkInv', HandlePom PROVE InspectionInv'
  OBVIOUS
<1>0. pom = [pc |-> pom.pc, of |-> pom.of, chain |-> pom.chain, props |-> pom.props,
             rest |-> pom.rest, todo |-> pom.todo, recorded |-> pom.recorded,
             failed |-> pom.failed, answer |-> pom.answer, complete |-> pom.complete]
  BY DEF InspectionInv, WalkInv, WalkType
<1>1. pom.answer \in {"none", "ok", "as is", "error"}
  BY DEF InspectionInv, InspectionType
<1>2. ASSUME NEW answer \in {"ok", "as is", "error"}, PomAnswered(answer),
             pom.pc \in {"fetch", "evaluate"}
      PROVE  InspectionInv'
  <2>1. /\ pom'.of = pom.of /\ pom'.chain = pom.chain /\ pom'.props = pom.props
        /\ pom'.rest = pom.rest /\ pom'.todo = pom.todo /\ pom'.recorded = pom.recorded
        /\ pom'.failed = pom.failed /\ pom'.complete = pom.complete
        /\ pom'.answer = answer /\ pom'.pc = "idle"
    BY <1>0, <1>2 DEF PomAnswered
  <2>2. pom'.answer \in {"none", "ok", "as is", "error"}
    BY <2>1
  <2> QED
    BY <1>2, <2>1, <2>2, SameInspection
<1>3. CASE PomFetchFails
  BY <1>2, <1>3 DEF PomFetchFails
<1>4. CASE PomUnparsed
  BY <1>2, <1>4 DEF PomUnparsed
<1>5. CASE ServePom
  BY <1>2, <1>5 DEF ServePom
<1>6. CASE PomFetched
  <2>1. /\ pom'.of = pom.of /\ pom'.chain = pom.chain /\ pom'.props = pom.props
        /\ pom'.rest = pom.rest /\ pom'.todo = pom.todo /\ pom'.recorded = pom.recorded
        /\ pom'.failed = pom.failed /\ pom'.complete = pom.complete
        /\ pom'.answer = pom.answer /\ pom.pc = "fetch" /\ pom'.pc = "parents"
    BY <1>0, <1>6 DEF PomFetched
  <2>2. pom'.answer \in {"none", "ok", "as is", "error"}
    BY <1>1, <2>1
  <2> QED
    BY <2>1, <2>2, SameInspection
<1>7. CASE ParentFetched
  BY <1>7, FetchInspection
<1>8. CASE ParentFails
  <2>1. pom.pc = "parents" /\ Collect(FALSE)
    BY <1>8 DEF ParentFails
  <2> QED
    BY <2>1, CollectInspection
<1>9. CASE ParentsDone
  <2>1. pom.pc = "parents" /\ ~MoreParents /\ Collect(TRUE)
    BY <1>9 DEF ParentsDone
  <2> QED
    BY <2>1, CollectInspection
<1>10. CASE Resolve
  <2>1. CASE pom.rest # << >>
    BY <1>10, <2>1, ResolveInspection
  <2>2. CASE pom.rest = << >>
    <3>1. /\ pom'.of = pom.of /\ pom'.chain = pom.chain /\ pom'.props = pom.props
          /\ pom'.rest = pom.rest /\ pom'.todo = pom.todo /\ pom'.recorded = pom.recorded
          /\ pom'.failed = pom.failed /\ pom'.complete = pom.complete
          /\ pom'.answer = pom.answer /\ pom.pc = "resolve" /\ pom'.pc = "evaluate"
      BY <1>0, <1>10, <2>2 DEF Resolve
    <3>2. pom'.answer \in {"none", "ok", "as is", "error"}
      BY <1>1, <3>1
    <3> QED
      BY <2>2, <3>1, <3>2, SameInspection
  <2> QED
    BY <2>1, <2>2
<1>11. CASE EvaluateDependency
  BY <1>11, EvaluateInspection
<1> QED
  BY <1>3, <1>4, <1>5, <1>6, <1>7, <1>8, <1>9, <1>10, <1>11 DEF HandlePom

LEMMA InspectionStep == InspectionInv /\ [ServerNext]_server => InspectionInv'
<1> SUFFICES ASSUME InspectionInv, [ServerNext]_server PROVE InspectionInv'
  OBVIOUS
<1>1. WalkInv'
  BY WalkStep DEF InspectionInv
<1>2. CASE UNCHANGED pom
  <2>1. Reach' = Reach /\ Evaluated' = Evaluated
    BY <1>2 DEF Reach, Evaluated
  <2>2. ASSUME NEW d PROVE AsRead(d)' = AsRead(d)
    BY <1>2, <2>1 DEF AsRead
  <2>3. InspectionType' /\ Phases' /\ OnceEach'
    BY <1>2 DEF InspectionInv, InspectionType, Phases, OnceEach
  <2>4. PropsInv'
    BY <1>2, <2>1 DEF InspectionInv, PropsInv
  <2>5. OriginInv'
    BY <1>2, <2>1, <2>2 DEF InspectionInv, OriginInv
  <2>6. NoneMissing'
    BY <1>2, <2>1, <2>2 DEF InspectionInv, NoneMissing
  <2> QED
    BY <1>1, <2>3, <2>4, <2>5, <2>6 DEF InspectionInv
<1>3. ASSUME NotInspected' PROVE InspectionInv'
  BY <1>1, <1>3, InspectionInit, PTL
<1>4. CASE pom' = NoPom
  <2>1. /\ pom'.chain = << >> /\ pom'.props = NoEntries /\ pom'.rest = << >>
        /\ pom'.todo = << >> /\ pom'.recorded = << >> /\ pom'.failed = {}
        /\ pom'.answer = "none" /\ pom'.complete = TRUE /\ pom'.pc = "idle" /\ pom'.of = "none"
    BY <1>4 DEF NoPom
  <2> QED
    BY <1>3, <2>1 DEF NotInspected
<1>5. ASSUME NEW c \in Coordinates, PomArrive(c) PROVE InspectionInv'
  <2>1. /\ pom'.chain = << >> /\ pom'.props = NoEntries /\ pom'.rest = << >>
        /\ pom'.todo = << >> /\ pom'.recorded = << >> /\ pom'.failed = {}
        /\ pom'.answer = "none" /\ pom'.complete = TRUE /\ pom'.pc = "fetch" /\ pom'.of = c
    BY <1>5 DEF PomArrive, NoPom
  <2> QED
    BY <1>3, <2>1 DEF NotInspected
<1>6. UNCHANGED pom \/ pom' = NoPom \/ HandlePom \/ \E c \in Coordinates : PomArrive(c)
  BY DEF ServerNext, Work, server, Receive, Filter, Pom, Answer, Deliver, HandlePolicyReload
<1> QED
  BY <1>1, <1>2, <1>4, <1>5, <1>6, PomStep

THEOREM InspectionInvariance == ServerSpec => []InspectionInv
BY InspectionInitially, InspectionStep, PTL DEF ServerSpec

-----------------------------------------------------------------------------
(* What it shows *)

LEMMA InspectionTyped == InspectionInv => PomTypeOK
<1> SUFFICES ASSUME InspectionInv PROVE PomTypeOK
  OBVIOUS
<1>1. pom.chain \in Seq(Poms) /\ Len(pom.chain) <= MaxParentDepth
  BY DEF InspectionInv, WalkInv, WalkType
<1>2. /\ Range(pom.recorded) \subseteq Dependency /\ Range(pom.todo) \subseteq Dependency
      /\ pom.failed \subseteq Dependency
  BY RangeType DEF InspectionInv, InspectionType
<1>3. Evaluated \subseteq Dependency
  BY <1>2 DEF Evaluated
<1> QED
  BY <1>1, <1>3 DEF InspectionInv, InspectionType, PomTypeOK, Poms

LEMMA InspectedAsMeant == InspectionInv => EvaluatedAsMeant
<1> SUFFICES ASSUME InspectionInv, NEW new \in Evaluated
             PROVE  \E dep \in Declared(pom.of) : \A f \in DOMAIN dep :
                        \/ new[f] = Meaning(pom.of, dep[f])
                        \/ f # "version" /\ Unresolved(new[f])
  BY DEF EvaluatedAsMeant
<1>1. pom.of \in Coordinates /\ Known(new.version)
  BY DEF InspectionInv, OriginInv
<1>2. PICK dep \in Declared(pom.of) : new = AsRead(dep)
  BY DEF InspectionInv, OriginInv
<1>3. dep \in Dependency
  BY <1>1, DeclaredAre
<1>4. /\ DOMAIN dep = {"group", "artifact", "version"}
      /\ \A f \in DOMAIN dep : dep[f] \in Text
  BY <1>1, <1>3, AsReadIs DEF InspectionInv
<1>5. /\ Reach \in 0..AllGenerations /\ AllGenerations \in Reach..AllGenerations
      /\ Rounds \in 0..AllDepths /\ AllDepths \in Rounds..AllDepths
  <2>1. Reach \in 0..AllGenerations
    BY ReachIsBounded DEF InspectionInv
  <2> QED
    BY <2>1, Bounds
<1>6. ASSUME NEW f \in DOMAIN dep
      PROVE  \/ new[f] = Meaning(pom.of, dep[f])
             \/ f # "version" /\ Unresolved(new[f])
  <2>1. dep[f] \in Text /\ new[f] = Within(pom.of, dep[f], Reach, Rounds)
    BY <1>2, <1>4 DEF AsRead
  <2>2. CASE Unresolved(new[f])
    <3>1. f # "version"
      <4>1. ASSUME f = "version" PROVE FALSE
        <5>1. new[f] = new.version
          BY <4>1
        <5> QED
          BY <1>1, <2>2, <5>1 DEF Known
      <4> QED
        BY <4>1
    <3> QED
      BY <2>2, <3>1
  <2>3. CASE ~Unresolved(new[f])
    <3>1. Within(pom.of, dep[f], AllGenerations, AllDepths) = Within(pom.of, dep[f], Reach, Rounds)
      BY <1>1, <1>5, <2>1, <2>3, KnownStays
    <3> QED
      BY <2>1, <3>1 DEF Meaning
  <2> QED
    BY <2>2, <2>3
<1> QED
  BY <1>6

LEMMA InspectedInFull == InspectionInv => ReachableAreEvaluated
<1> SUFFICES ASSUME InspectionInv, pom.pc = "evaluate" \/ pom.recorded # << >>
             PROVE  LET reach == IF pom.complete THEN MaxParentDepth ELSE Len(pom.chain)
                        known == {dep \in Declared(pom.of) :
                                    Known(Within(pom.of, dep.version, reach, Rounds))}
                    IN  /\ \A dep \in known : \E new \in Evaluated :
                              \A f \in DOMAIN dep : new[f] = Within(pom.of, dep[f], reach, Rounds)
                        /\ IsInjective(pom.recorded \o pom.todo)
                        /\ pom.failed \cap Range(pom.recorded \o pom.todo) = {}
  BY DEF ReachableAreEvaluated
<1>1. IsInjective(pom.recorded \o pom.todo) /\ pom.failed \cap Range(pom.recorded \o pom.todo) = {}
  BY DEF InspectionInv, OnceEach
<1>2. pom.of \in Coordinates
  <2>1. CASE pom.pc = "evaluate"
    BY <2>1 DEF InspectionInv, InspectionType
  <2>2. CASE pom.recorded # << >>
    <3>1. pom.recorded \in Seq(Dependency)
      BY DEF InspectionInv, InspectionType
    <3>2. 1 \in DOMAIN pom.recorded
      BY <2>2, <3>1
    <3>3. pom.recorded[1] \in Evaluated
      BY <3>2 DEF Evaluated, Range
    <3> QED
      BY <3>3 DEF InspectionInv, OriginInv
  <2> QED
    BY <2>1, <2>2
<1>3. pom.rest = << >>
  <2>1. pom.pc # "resolve"
    BY DEF InspectionInv, Phases
  <2> QED
    BY <2>1 DEF InspectionInv, Phases
<1>4. ASSUME NEW dep \in Declared(pom.of), Known(Within(pom.of, dep.version, Reach, Rounds))
      PROVE  \E new \in Evaluated :
                 \A f \in DOMAIN dep : new[f] = Within(pom.of, dep[f], Reach, Rounds)
  <2>1. dep \in Dependency
    BY <1>2, DeclaredAre
  <2>2. Known(AsRead(dep).version)
    BY <1>2, <1>4, <2>1, AsReadIs DEF InspectionInv
  <2>3. AsRead(dep) \in Evaluated
    BY <1>3, <2>2, NothingInRange DEF InspectionInv, NoneMissing
  <2>4. \A f \in DOMAIN dep : AsRead(dep)[f] = Within(pom.of, dep[f], Reach, Rounds)
    BY DEF AsRead
  <2> QED
    BY <2>3, <2>4
<1> QED
  BY <1>1, <1>4 DEF Reach

\* The request for a POM has the values that its phases give it, whatever properties
\* refer to each other and whatever POMs are each other's parents.
THEOREM PomTypeCorrect == ServerSpec => []PomTypeOK
BY InspectionTyped, InspectionInvariance, PTL

\* For every registry: a version that the inspection of a POM has evaluated is one
\* that a declared dependency has when all ancestors are read and all references
\* followed, however soon the walk to the parents ended and however few rounds of
\* substitution there are (pom.go:398-436, 494-518).
THEOREM OnlyMeantAreEvaluated == ServerSpec => []EvaluatedAsMeant
BY InspectedAsMeant, InspectionInvariance, PTL

\* For every registry: a dependency whose version the ancestors within reach and the
\* rounds of substitution give is evaluated, and none twice.
THEOREM AllReachableAreEvaluated == ServerSpec => []ReachableAreEvaluated
BY InspectedInFull, InspectionInvariance, PTL
=============================================================================
