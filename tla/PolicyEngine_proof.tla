-------------------------- MODULE PolicyEngine_proof --------------------------
(* Proofs about PolicyEngine, for every directory, set of policies that     *)
(* compile, and number of reloads and evaluations.                          *)
EXTENDS PolicyEngine, TLAPS

USE FilesAssumption DEF Files, None

LEMMA PolicyHasNoFiles == NoFiles \in Policy
BY DEF NoFiles, Policy

\* A step of reload r that keeps the write lock as its new record says.
LEMMA PutType ==
    ASSUME TypeOK, NEW r \in Reloads, NEW new \in Reload, Put(r, new),
           UNCHANGED <<disk, edits, eval>>, policy' \in Policy, overlapped' \subseteq Reloads,
           \/ /\ writer' = writer
              /\ reload[r].pc # "install" /\ new.pc # "install"
           \/ writer = None /\ writer' = r /\ new.pc = "install"
           \/ reload[r].pc = "install" /\ writer' = None /\ new.pc # "install"
    PROVE  TypeOK'
<1>1. reload \in [Reloads -> Reload] /\ reload' = [reload EXCEPT ![r] = new]
  BY DEF TypeOK, Put
<1>2. reload' \in [Reloads -> Reload]
  BY <1>1
<1>3. reload'[r] = new /\ \A q \in Reloads \ {r} : reload'[q] = reload[q]
  BY <1>1
<1>4. writer' \in Reloads \cup {None}
  BY DEF TypeOK
<1>5. \A q \in Reloads : reload'[q].pc = "install" <=> writer' = q
  BY <1>3, NoneAssumption DEF TypeOK
<1> QED
  BY <1>2, <1>4, <1>5 DEF TypeOK

\* Init and every step keep types, and the write lock with its owner.
THEOREM TypeCorrect == Spec => []TypeOK
<1>1. Init => TypeOK
  BY NoneAssumption, PolicyHasNoFiles DEF Init, TypeOK, Policy, Reload, Eval
<1>2. TypeOK /\ [Next]_vars => TypeOK'
  <2> SUFFICES ASSUME TypeOK, [Next]_vars PROVE TypeOK'
    OBVIOUS
  <2>1. CASE UNCHANGED vars
    BY <2>1 DEF vars, TypeOK, Readers
  <2>2. ASSUME NEW f \in Files, Edit(f) PROVE TypeOK'
    <3>1. edits' \in 1..MaxEdits /\ disk' \in Policy
      BY <2>2 DEF Edit, TypeOK, Policy
    <3> QED
      BY <2>2, <3>1 DEF Edit, TypeOK
  <2>3. ASSUME NEW r \in Reloads, Begin(r) PROVE TypeOK'
    <3> DEFINE new == [pc |-> "walk", left |-> {f \in Files : disk[f] # 0},
                       read |-> NoFiles, begun |-> edits, answer |-> "none"]
    <3>1. new \in Reload /\ new.pc # "install"
      BY PolicyHasNoFiles DEF TypeOK, Reload
    <3>2. /\ Put(r, new) /\ reload[r].pc # "install" /\ UNCHANGED <<disk, edits, policy, writer, eval>>
          /\ overlapped' \subseteq Reloads
      BY <2>3 DEF Begin, NowOverlapped, UnderWay, TypeOK
    <3> HIDE DEF new
    <3> QED
      BY <3>1, <3>2, PutType DEF TypeOK
  <2>4. ASSUME NEW r \in Reloads, ReadFile(r) PROVE TypeOK'
    <3> DEFINE f == Min(reload[r].left)
               failed == Answer(r, "failed")
               next == [reload[r] EXCEPT !.left = @ \ {f}, !.read[f] = disk[f]]
    <3>1. failed \in Reload /\ failed.pc = "idle"
      BY DEF Answer, TypeOK, Reload
    <3>2. next \in Reload /\ next.pc = "walk"
      <4>1. reload[r] \in Reload /\ reload[r].pc = "walk" /\ disk \in Policy
        BY <2>4 DEF ReadFile, TypeOK
      <4>2. [reload[r].read EXCEPT ![f] = disk[f]] \in Policy
        BY <4>1 DEF Policy, Reload
      <4>3. next = [reload[r] EXCEPT !.left = @ \ {f},
                                     !.read = [reload[r].read EXCEPT ![f] = disk[f]]]
        OBVIOUS
      <4> QED
        BY <4>1, <4>2, <4>3 DEF Reload
    <3>3. Put(r, failed) \/ Put(r, next)
      BY <2>4 DEF ReadFile
    <3> HIDE DEF failed, next
    <3>4. UNCHANGED <<disk, edits, policy, writer, eval, overlapped>> /\ reload[r].pc = "walk"
      BY <2>4 DEF ReadFile
    <3> QED
      BY <3>1, <3>2, <3>3, <3>4, PutType DEF TypeOK
  <2>5. ASSUME NEW r \in Reloads, Compile(r) PROVE TypeOK'
    <3> DEFINE failed == Answer(r, "failed")
               next == [reload[r] EXCEPT !.pc = "lock"]
    <3>1. failed \in Reload /\ failed.pc = "idle" /\ next \in Reload /\ next.pc = "lock"
      BY DEF Answer, TypeOK, Reload
    <3>2. Put(r, failed) \/ Put(r, next)
      BY <2>5 DEF Compile
    <3>3. UNCHANGED <<disk, edits, policy, writer, eval, overlapped>> /\ reload[r].pc = "walk"
      BY <2>5 DEF Compile
    <3> HIDE DEF failed, next
    <3> QED
      BY <3>1, <3>2, <3>3, PutType DEF TypeOK
  <2>6. ASSUME NEW r \in Reloads, Lock(r) PROVE TypeOK'
    <3> DEFINE next == [reload[r] EXCEPT !.pc = "install"]
    <3>1. next \in Reload /\ next.pc = "install"
      BY DEF TypeOK, Reload
    <3>2. Put(r, next) /\ writer = None /\ writer' = r /\ UNCHANGED <<disk, edits, policy, eval, overlapped>>
      BY <2>6 DEF Lock
    <3> HIDE DEF next
    <3> QED
      BY <3>1, <3>2, PutType DEF TypeOK
  <2>7. ASSUME NEW r \in Reloads, Install(r) PROVE TypeOK'
    <3> DEFINE done == Answer(r, "reloaded")
    <3>1. done \in Reload /\ done.pc = "idle"
      BY DEF Answer, TypeOK, Reload
    <3>2. /\ Put(r, done) /\ writer' = None /\ UNCHANGED <<disk, edits, eval, overlapped>>
          /\ reload[r].pc = "install" /\ policy' = reload[r].read
      BY <2>7 DEF Install
    <3>3. policy' \in Policy /\ overlapped' \subseteq Reloads
      BY <3>2 DEF TypeOK, Reload
    <3> HIDE DEF done
    <3> QED
      BY <3>1, <3>2, <3>3, PutType
  <2>8. ASSUME NEW e \in Evals, StartEval(e) PROVE TypeOK'
    BY <2>8 DEF StartEval, TypeOK, Eval
  <2>9. ASSUME NEW e \in Evals, EndEval(e) PROVE TypeOK'
    BY <2>9 DEF EndEval, TypeOK, Eval
  <2> QED
    BY <2>1, <2>2, <2>3, <2>4, <2>5, <2>6, <2>7, <2>8, <2>9 DEF Next, ReloadStep
<1> QED
  BY <1>1, <1>2, PTL DEF Spec

-----------------------------------------------------------------------------
(* The policy in force. *)

\* A reload that has passed Compile holds a policy that compiles.
ReadyCompiles ==
    \A r \in Reloads : reload[r].pc \in {"lock", "install"} => reload[r].read \in Compiling

PolicyInv == EvalUsesOnePolicy /\ PolicyCompiles /\ ReadyCompiles

LEMMA PolicyInvInit == Init => PolicyInv
BY CompilingAssumption
  DEF Init, PolicyInv, EvalUsesOnePolicy, PolicyCompiles, ReadyCompiles

LEMMA PolicyInvStep == TypeOK /\ PolicyInv /\ [Next]_vars => PolicyInv'
<1> SUFFICES ASSUME TypeOK, PolicyInv, [Next]_vars PROVE PolicyInv'
  OBVIOUS
<1> USE DEF PolicyInv, EvalUsesOnePolicy, PolicyCompiles, ReadyCompiles
<1>1. CASE UNCHANGED vars
  BY <1>1 DEF vars
<1>2. ASSUME NEW f \in Files, Edit(f) PROVE PolicyInv'
  BY <1>2 DEF Edit
<1>3. ASSUME NEW r \in Reloads, Begin(r) PROVE PolicyInv'
  BY <1>3 DEF Begin, Put, TypeOK
<1>4. ASSUME NEW r \in Reloads, ReadFile(r) PROVE PolicyInv'
  <2>1. reload'[r].pc \in {"idle", "walk"} /\ \A q \in Reloads \ {r} : reload'[q] = reload[q]
    BY <1>4 DEF ReadFile, Put, Answer, TypeOK, Reload
  <2> QED
    BY <1>4, <2>1 DEF ReadFile
<1>5. ASSUME NEW r \in Reloads, Compile(r) PROVE PolicyInv'
  BY <1>5 DEF Compile, Put, Answer, TypeOK, Reload
<1>6. ASSUME NEW r \in Reloads, Lock(r) PROVE PolicyInv'
  BY <1>6 DEF Lock, Put, TypeOK, Reload
<1>7. ASSUME NEW r \in Reloads, Install(r) PROVE PolicyInv'
  BY <1>7 DEF Install, Put, Answer, Readers, TypeOK, Reload
<1>8. ASSUME NEW e \in Evals, StartEval(e) PROVE PolicyInv'
  BY <1>8 DEF StartEval, TypeOK, Eval
<1>9. ASSUME NEW e \in Evals, EndEval(e) PROVE PolicyInv'
  BY <1>9 DEF EndEval, TypeOK, Eval
<1> QED
  BY <1>1, <1>2, <1>3, <1>4, <1>5, <1>6, <1>7, <1>8, <1>9 DEF Next, ReloadStep

LEMMA PolicyCorrect == Spec => []PolicyInv
<1>1. Init => PolicyInv
  BY PolicyInvInit
<1>2. TypeOK /\ PolicyInv /\ [Next]_vars => PolicyInv'
  BY PolicyInvStep
<1> QED
  BY <1>1, <1>2, TypeCorrect, PTL DEF Spec

\* No reload replaces the policy under an evaluation.
THEOREM EvaluationsAreWhole == Spec => []EvalUsesOnePolicy
BY PolicyCorrect, PTL DEF PolicyInv

\* What is in force compiles, whatever the directory holds and whichever reloads fail.
THEOREM PolicyInForceCompiles == Spec => []PolicyCompiles
BY PolicyCorrect, PTL DEF PolicyInv

-----------------------------------------------------------------------------
(* Reloads that overlap no other. *)

\* While nothing has been edited since a reload began, it has read what there is.
ReadIsCurrent(r) ==
    /\ reload[r].left \subseteq {f \in Files : disk[f] # 0}
    /\ \A f \in Files \ reload[r].left : reload[r].read[f] = disk[f]

UnderWayInv(r) ==
    /\ reload[r].begun <= edits
    /\ reload[r].pc \in {"lock", "install"} => reload[r].left = {}
    /\ reload[r].pc # "idle" /\ reload[r].begun = edits => ReadIsCurrent(r)
    /\ reload[r].pc # "idle" => reload[r].answer = "none"

\* A reload under way that has overlapped none is the only one.
AloneInv(r) ==
    r \notin overlapped /\ reload[r].pc # "idle" => \A q \in Reloads \ {r} : reload[q].pc = "idle"

\* The reloads under way began after a reload that overlapped none, and if
\* nothing was edited they bring the same policy.
InForceInv(r) ==
    r \notin overlapped /\ reload[r].answer = "reloaded" /\ reload[r].begun = edits =>
        /\ policy = disk
        /\ \A q \in Reloads : reload[q].pc # "idle" => reload[q].begun = edits

SoloInv(r) == UnderWayInv(r) /\ AloneInv(r) /\ InForceInv(r)

\* What an action other than Begin and Edit does to the reload q it belongs to.
Goes(q, new) ==
    /\ reload[q].pc # "idle" /\ reload' = [reload EXCEPT ![q] = new]
    /\ new \in Reload /\ new.begun = reload[q].begun
    /\ UNCHANGED <<disk, edits, overlapped>>

LEMMA GoesInv ==
    ASSUME TypeOK, \A r \in Reloads : SoloInv(r), NEW q \in Reloads, NEW new, Goes(q, new),
           new.pc \in {"lock", "install"} => new.left = {},
           new.pc # "idle" /\ new.begun = edits => ReadIsCurrent(q)',
           new.pc # "idle" => new.answer = "none",
           \/ policy' = policy /\ new.answer # "reloaded"
           \/ policy' = reload[q].read /\ reload[q].left = {} /\ new.pc = "idle",
           NEW r \in Reloads
    PROVE  SoloInv(r)'
<1>1. /\ reload \in [Reloads -> Reload] /\ edits \in Nat /\ disk \in Policy
      /\ reload'[q] = new /\ \A p \in Reloads \ {q} : reload'[p] = reload[p]
      /\ \A p \in Reloads : reload[p] \in Reload
      /\ UNCHANGED <<disk, edits, overlapped>>
  BY DEF TypeOK, Goes
<1>2. /\ \A p \in Reloads : reload'[p].begun = reload[p].begun
      /\ \A p \in Reloads : reload'[p].pc # "idle" => reload[p].pc # "idle"
  BY <1>1 DEF Goes
<1>3. UnderWayInv(r)'
  BY <1>1, <1>2 DEF SoloInv, UnderWayInv, ReadIsCurrent
<1>4. AloneInv(r)'
  BY <1>1, <1>2 DEF SoloInv, AloneInv
<1>5. reload[q].begun = edits /\ reload[q].left = {} => reload[q].read = disk
  <2> SUFFICES ASSUME reload[q].begun = edits, reload[q].left = {} PROVE reload[q].read = disk
    OBVIOUS
  <2>1. ReadIsCurrent(q)
    BY DEF SoloInv, UnderWayInv, Goes
  <2>2. reload[q].read \in Policy
    BY <1>1 DEF Reload
  <2> QED
    BY <1>1, <2>1, <2>2 DEF ReadIsCurrent, Policy
<1>6. InForceInv(r)'
  <2> SUFFICES ASSUME r \notin overlapped, reload'[r].answer = "reloaded",
                      reload[r].begun = edits
               PROVE  policy' = disk /\
                      \A p \in Reloads : reload'[p].pc # "idle" => reload[p].begun = edits
    BY <1>1, <1>2 DEF InForceInv
  <2>1. CASE r = q
    <3>1. policy' = reload[q].read /\ reload[q].left = {} /\ new.pc = "idle"
      BY <1>1, <2>1
    <3>2. \A p \in Reloads \ {r} : reload[p].pc = "idle"
      BY <2>1 DEF SoloInv, AloneInv, Goes
    <3> QED
      BY <1>1, <1>2, <1>5, <2>1, <3>1, <3>2
  <2>2. CASE r # q
    <3>1. policy = disk /\ \A p \in Reloads : reload[p].pc # "idle" => reload[p].begun = edits
      BY <1>1, <2>2 DEF SoloInv, InForceInv
    <3>2. reload[q].begun = edits
      BY <3>1 DEF Goes
    <3> QED
      BY <1>2, <1>5, <3>1, <3>2
  <2> QED
    BY <2>1, <2>2
<1> QED
  BY <1>3, <1>4, <1>6 DEF SoloInv

LEMMA SoloStep ==
    ASSUME TypeOK, \A r \in Reloads : SoloInv(r), [Next]_vars, NEW r \in Reloads
    PROVE  SoloInv(r)'
<1>0. /\ reload \in [Reloads -> Reload] /\ \A q \in Reloads : reload[q] \in Reload
      /\ edits \in Nat /\ disk \in Policy /\ policy \in Policy /\ SoloInv(r)
  BY DEF TypeOK
<1>1. CASE UNCHANGED vars
  BY <1>0, <1>1 DEF vars, SoloInv, UnderWayInv, AloneInv, InForceInv, ReadIsCurrent
<1>2. ASSUME NEW f \in Files, Edit(f) PROVE SoloInv(r)'
  <2>1. edits' = edits + 1 /\ reload' = reload /\ overlapped' = overlapped
    BY <1>2 DEF Edit
  <2>2. \A q \in Reloads : reload[q].begun < edits' /\ reload[q].begun \in Nat
    BY <1>0, <2>1 DEF Reload, SoloInv, UnderWayInv
  <2> QED
    BY <1>0, <2>1, <2>2 DEF SoloInv, UnderWayInv, AloneInv, InForceInv
<1>3. ASSUME NEW q \in Reloads, Begin(q) PROVE SoloInv(r)'
  <2> DEFINE new == [pc |-> "walk", left |-> {f \in Files : disk[f] # 0},
                     read |-> NoFiles, begun |-> edits, answer |-> "none"]
  <2>1. /\ reload'[q] = new /\ \A p \in Reloads \ {q} : reload'[p] = reload[p]
        /\ UNCHANGED <<disk, edits, policy>> /\ overlapped' = NowOverlapped(q)
        /\ reload[q].pc = "idle"
    BY <1>0, <1>3 DEF Begin, Put
  <2>2. /\ new.pc = "walk" /\ new.left = {f \in Files : disk[f] # 0} /\ new.read = NoFiles
        /\ new.begun = edits /\ new.answer = "none"
    OBVIOUS
  <2> HIDE DEF new
  <2>3. UnderWayInv(r)'
    <3>1. CASE r = q
      <4>1. \A f \in Files : disk[f] = 0 => NoFiles[f] = disk[f]
        BY DEF NoFiles
      <4>2. ReadIsCurrent(q)'
        BY <2>1, <2>2, <4>1 DEF ReadIsCurrent
      <4> QED
        BY <1>0, <2>1, <2>2, <3>1, <4>2 DEF UnderWayInv
    <3>2. CASE r # q
      BY <1>0, <2>1, <3>2 DEF SoloInv, UnderWayInv, ReadIsCurrent
    <3> QED
      BY <3>1, <3>2
  <2>4. AloneInv(r)'
    BY <1>0, <2>1, <2>2 DEF SoloInv, AloneInv, NowOverlapped, UnderWay
  <2>5. InForceInv(r)'
    <3>1. r # q => (r \in overlapped => r \in overlapped')
      BY <2>1 DEF NowOverlapped
    <3> QED
      BY <1>0, <2>1, <2>2, <3>1 DEF SoloInv, InForceInv
  <2> QED
    BY <2>3, <2>4, <2>5 DEF SoloInv
<1>4. ASSUME NEW q \in Reloads, ReadFile(q) PROVE SoloInv(r)'
  <2> DEFINE f == Min(reload[q].left)
             failed == Answer(q, "failed")
             next == [reload[q] EXCEPT !.left = @ \ {f}, !.read[f] = disk[f]]
  <2>1. /\ reload[q].pc = "walk" /\ UNCHANGED <<disk, edits, policy, overlapped>>
        /\ \/ reload' = [reload EXCEPT ![q] = failed]
           \/ reload' = [reload EXCEPT ![q] = next]
    BY <1>4 DEF ReadFile, Put
  <2>2. CASE reload' = [reload EXCEPT ![q] = failed]
    <3>1. /\ failed \in Reload /\ failed.pc = "idle" /\ failed.begun = reload[q].begun
          /\ failed.answer = "failed"
      BY <1>0 DEF Answer, Reload
    <3> HIDE DEF failed
    <3>2. Goes(q, failed)
      BY <2>1, <2>2, <3>1 DEF Goes
    <3> QED
      BY <2>1, <3>1, <3>2, GoesInv
  <2>3. CASE reload' = [reload EXCEPT ![q] = next]
    <3> HIDE DEF f
    <3>1. next = [reload[q] EXCEPT !.left = @ \ {f}, !.read = [reload[q].read EXCEPT ![f] = disk[f]]]
      OBVIOUS
    <3>2. [reload[q].read EXCEPT ![f] = disk[f]] \in Policy
      BY <1>0 DEF Policy, Reload
    <3>3. /\ next \in Reload /\ next.pc = "walk" /\ next.begun = reload[q].begun
          /\ next.answer = reload[q].answer /\ next.left = reload[q].left \ {f}
          /\ next.read = [reload[q].read EXCEPT ![f] = disk[f]]
      BY <1>0, <2>1, <3>1, <3>2 DEF Reload
    <3> HIDE DEF next
    <3>4. Goes(q, next)
      BY <2>1, <2>3, <3>3 DEF Goes
    <3>5. next.begun = edits => ReadIsCurrent(q)'
      <4>1. next.begun = edits => ReadIsCurrent(q)
        BY <2>1, <3>3 DEF SoloInv, UnderWayInv
      <4>2. reload'[q] = next
        BY <1>0, <2>3
      <4> SUFFICES ASSUME next.begun = edits PROVE ReadIsCurrent(q)'
        OBVIOUS
      <4>3. next.left \subseteq {g \in Files : disk[g] # 0}
        BY <3>3, <4>1 DEF ReadIsCurrent
      <4>4. ASSUME NEW g \in Files \ next.left PROVE next.read[g] = disk[g]
        <5>1. DOMAIN reload[q].read = Files
          BY <1>0 DEF Reload, Policy
        <5>2. CASE g = f
          BY <3>3, <5>1, <5>2
        <5>3. CASE g # f
          BY <3>3, <4>1, <5>1, <5>3 DEF ReadIsCurrent
        <5> QED
          BY <5>2, <5>3
      <4> QED
        BY <2>1, <4>2, <4>3, <4>4 DEF ReadIsCurrent
    <3>6. reload[q].answer = "none"
      BY <2>1 DEF SoloInv, UnderWayInv
    <3> QED
      BY <2>1, <3>3, <3>4, <3>5, <3>6, GoesInv
  <2> QED
    BY <2>1, <2>2, <2>3
<1>5. ASSUME NEW q \in Reloads, Compile(q) PROVE SoloInv(r)'
  <2> DEFINE failed == Answer(q, "failed")
             next == [reload[q] EXCEPT !.pc = "lock"]
  <2>1. /\ reload[q].pc = "walk" /\ reload[q].left = {}
        /\ UNCHANGED <<disk, edits, policy, overlapped>>
        /\ \/ reload' = [reload EXCEPT ![q] = failed]
           \/ reload' = [reload EXCEPT ![q] = next]
    BY <1>5 DEF Compile, Put
  <2>2. CASE reload' = [reload EXCEPT ![q] = failed]
    <3>1. /\ failed \in Reload /\ failed.pc = "idle" /\ failed.begun = reload[q].begun
          /\ failed.answer = "failed"
      BY <1>0 DEF Answer, Reload
    <3> HIDE DEF failed
    <3>2. Goes(q, failed)
      BY <2>1, <2>2, <3>1 DEF Goes
    <3> QED
      BY <2>1, <3>1, <3>2, GoesInv
  <2>3. CASE reload' = [reload EXCEPT ![q] = next]
    <3>1. /\ next \in Reload /\ next.pc = "lock" /\ next.begun = reload[q].begun
          /\ next.answer = reload[q].answer /\ next.left = {} /\ next.read = reload[q].read
      BY <1>0, <2>1 DEF Reload
    <3> HIDE DEF next
    <3>2. Goes(q, next)
      BY <2>1, <2>3, <3>1 DEF Goes
    <3>3. next.begun = edits => ReadIsCurrent(q)'
      <4>1. reload'[q] = next
        BY <1>0, <2>3
      <4> QED
        BY <2>1, <3>1, <4>1 DEF SoloInv, UnderWayInv, ReadIsCurrent
    <3>4. reload[q].answer = "none"
      BY <2>1 DEF SoloInv, UnderWayInv
    <3> QED
      BY <2>1, <3>1, <3>2, <3>3, <3>4, GoesInv
  <2> QED
    BY <2>1, <2>2, <2>3
<1>6. ASSUME NEW q \in Reloads, Lock(q) PROVE SoloInv(r)'
  <2> DEFINE next == [reload[q] EXCEPT !.pc = "install"]
  <2>1. /\ reload[q].pc = "lock" /\ UNCHANGED <<disk, edits, policy, overlapped>>
        /\ reload' = [reload EXCEPT ![q] = next]
    BY <1>6 DEF Lock, Put
  <2>2. /\ reload[q].left = {} /\ reload[q].answer = "none"
    BY <2>1 DEF SoloInv, UnderWayInv
  <2>3. /\ next \in Reload /\ next.pc = "install" /\ next.begun = reload[q].begun
        /\ next.answer = reload[q].answer /\ next.left = {} /\ next.read = reload[q].read
    BY <1>0, <2>2 DEF Reload
  <2> HIDE DEF next
  <2>4. Goes(q, next)
    BY <2>1, <2>3 DEF Goes
  <2>5. next.begun = edits => ReadIsCurrent(q)'
    <3>1. reload'[q] = next
      BY <1>0, <2>1
    <3>2. next.begun = edits => ReadIsCurrent(q)
      BY <2>1, <2>3 DEF SoloInv, UnderWayInv
    <3> QED
      BY <2>1, <2>2, <2>3, <3>1, <3>2 DEF ReadIsCurrent
  <2> QED
    BY <2>1, <2>2, <2>3, <2>4, <2>5, GoesInv
<1>7. ASSUME NEW q \in Reloads, Install(q) PROVE SoloInv(r)'
  <2> DEFINE done == Answer(q, "reloaded")
  <2>1. /\ reload[q].pc = "install" /\ UNCHANGED <<disk, edits, overlapped>>
        /\ reload' = [reload EXCEPT ![q] = done] /\ policy' = reload[q].read
    BY <1>7 DEF Install, Put
  <2>2. done \in Reload /\ done.pc = "idle" /\ done.begun = reload[q].begun
    BY <1>0 DEF Answer, Reload
  <2> HIDE DEF done
  <2>3. Goes(q, done) /\ reload[q].left = {}
    BY <2>1, <2>2 DEF Goes, SoloInv, UnderWayInv
  <2> QED
    BY <2>1, <2>2, <2>3, GoesInv
<1>8. ASSUME NEW e \in Evals, StartEval(e) \/ EndEval(e) PROVE SoloInv(r)'
  <2>1. UNCHANGED <<disk, edits, policy, reload, overlapped>>
    BY <1>8 DEF StartEval, EndEval
  <2> QED
    BY <1>0, <2>1 DEF SoloInv, UnderWayInv, AloneInv, InForceInv, ReadIsCurrent
<1> QED
  BY <1>1, <1>2, <1>3, <1>4, <1>5, <1>6, <1>7, <1>8 DEF Next, ReloadStep

\* A reload that overlapped no other and said "reloaded" has put in force the
\* directory, and no later one takes it back, as long as nothing is edited.
THEOREM SoloReloadedIsInForce == Spec => []SoloReloadInForce
<1> DEFINE Inv == \A r \in Reloads : SoloInv(r)
<1>1. Init => Inv
  BY DEF Init, SoloInv, UnderWayInv, AloneInv, InForceInv
<1>2. TypeOK /\ Inv /\ [Next]_vars => Inv'
  <2> SUFFICES ASSUME TypeOK, Inv, [Next]_vars, NEW r \in Reloads
               PROVE  SoloInv(r)'
    OBVIOUS
  <2> QED
    BY SoloStep
<1>3. Inv => SoloReloadInForce
  BY DEF SoloInv, InForceInv, SoloReloadInForce
<1> HIDE DEF Inv
<1> QED
  BY <1>1, <1>2, <1>3, TypeCorrect, PTL DEF Spec
=============================================================================
