----------------------------- MODULE PolicyEngine -----------------------------
(***************************************************************************)
(* The policy engine, internal/policy/engine.go, and its reload endpoint    *)
(* (internal/proxy/server.go): policies are read from a directory one file  *)
(* at a time, compiled, and put in force under the write lock of a          *)
(* sync.RWMutex; every evaluation holds the read lock.                      *)
(*                                                                         *)
(* The files are numbered in the order filepath.Walk visits them.  The      *)
(* content of a file is the number of the edit that wrote it, 0 when there  *)
(* is no file.  A policy is the files it was compiled from.                 *)
(***************************************************************************)
EXTENDS Integers, FiniteSets, FiniteSetsExt

CONSTANTS
    NumFiles,   \* .rego files the directory may have
    Compiling,  \* the policies that compile
    Reloads,    \* requests to /policy/reload
    Evals,      \* goroutines that evaluate
    MaxEdits    \* bound: edits of the directory

Files == 1..NumFiles
Policy == [Files -> 0..MaxEdits]
NoFiles == [f \in Files |-> 0]
None == "none"

ASSUME FilesAssumption == NumFiles \in Nat \ {0} /\ MaxEdits \in Nat \ {0}
ASSUME CompilingAssumption ==
    /\ Compiling \subseteq Policy \ {NoFiles}
    /\ [f \in Files |-> 1] \in Compiling
ASSUME NoneAssumption == None \notin Reloads

VARIABLES
    disk,       \* the directory
    edits,      \* edits so far
    policy,     \* e.compiler and e.prepared
    writer,     \* e.mu: the reload that has announced Lock, or None
    reload,     \* what each reload holds
    eval,       \* what each goroutine evaluates
    overlapped  \* the reloads that ran beside another one; only the properties read it

vars == <<disk, edits, policy, writer, reload, eval, overlapped>>

(***************************************************************************)
(* A reload: the files it has yet to read, what it has read, the edits      *)
(* there had been when it began and the answer it gave last.                *)
(***************************************************************************)
Reload == [pc : {"idle", "walk", "lock", "install"}, left : SUBSET Files,
           read : Policy, begun : Nat, answer : {"none", "reloaded", "failed"}]
Eval == [running : BOOLEAN, policy : Policy]

\* NewEngine has loaded the directory; when it cannot, the process exits.
Init ==
    /\ disk = [f \in Files |-> 1]
    /\ edits = 1
    /\ policy = disk
    /\ writer = None
    /\ reload = [r \in Reloads |-> [pc |-> "idle", left |-> {}, read |-> NoFiles,
                                    begun |-> 0, answer |-> "none"]]
    /\ eval = [e \in Evals |-> [running |-> FALSE, policy |-> NoFiles]]
    /\ overlapped = {}

\* Somebody writes, creates or removes a file.
Edit(f) ==
    /\ edits < MaxEdits
    /\ edits' = edits + 1
    /\ \E content \in {0, edits'} : disk' = [disk EXCEPT ![f] = content]
    /\ UNCHANGED <<policy, writer, reload, eval, overlapped>>

-----------------------------------------------------------------------------
(* handlePolicyReload and Engine.Reload *)

Put(r, new) == reload' = [reload EXCEPT ![r] = new]
Answer(r, answer) == [reload[r] EXCEPT !.pc = "idle", !.left = {}, !.answer = answer]

\* What overlapped becomes when r begins.
UnderWay == {q \in Reloads : reload[q].pc # "idle"}
NowOverlapped(r) ==
    IF UnderWay = {} THEN overlapped \ {r} ELSE overlapped \cup UnderWay \cup {r}

\* Mutant of Begin: files read by the reload before are not read again.
BeginCached(r) ==
    /\ reload[r].pc = "idle"
    /\ Put(r, [reload[r] EXCEPT !.pc = "walk", !.begun = edits, !.answer = "none",
                  !.left = {f \in Files : disk[f] # 0 /\ reload[r].read[f] = 0}])
    /\ overlapped' = NowOverlapped(r)
    /\ UNCHANGED <<disk, edits, policy, writer, eval>>

\* The request arrives and the walk lists the directory.
Begin(r) ==
    /\ reload[r].pc = "idle"
    /\ Put(r, [pc |-> "walk", left |-> {f \in Files : disk[f] # 0}, read |-> NoFiles,
               begun |-> edits, answer |-> "none"])
    /\ overlapped' = NowOverlapped(r)
    /\ UNCHANGED <<disk, edits, policy, writer, eval>>

\* The walk reads the next file it has listed; it fails when the file has gone.
ReadFile(r) ==
    /\ reload[r].pc = "walk"
    /\ reload[r].left # {}
    /\ LET f == Min(reload[r].left)
       IN  Put(r, IF disk[f] = 0
                  THEN Answer(r, "failed")
                  ELSE [reload[r] EXCEPT !.left = @ \ {f}, !.read[f] = disk[f]])
    /\ UNCHANGED <<disk, edits, policy, writer, eval, overlapped>>

\* Mutant of Compile: what was read is put in force even if it does not compile.
CompileAnyway(r) ==
    /\ reload[r].pc = "walk"
    /\ reload[r].left = {}
    /\ Put(r, [reload[r] EXCEPT !.pc = "lock"])
    /\ UNCHANGED <<disk, edits, policy, writer, eval, overlapped>>

\* No file, or files that do not compile, fail the reload.
Compile(r) ==
    /\ reload[r].pc = "walk"
    /\ reload[r].left = {}
    /\ Put(r, IF reload[r].read \in Compiling
              THEN [reload[r] EXCEPT !.pc = "lock"]
              ELSE Answer(r, "failed"))
    /\ UNCHANGED <<disk, edits, policy, writer, eval, overlapped>>

Readers == {e \in Evals : eval[e].running}

\* Mutant of Lock: writers do not exclude each other.
LockShared(r) ==
    /\ reload[r].pc = "lock"
    /\ writer' = r
    /\ Put(r, [reload[r] EXCEPT !.pc = "install"])
    /\ UNCHANGED <<disk, edits, policy, eval, overlapped>>

\* Lock: one writer at a time announces itself, and then no reader gets in.
Lock(r) ==
    /\ reload[r].pc = "lock"
    /\ writer = None
    /\ writer' = r
    /\ Put(r, [reload[r] EXCEPT !.pc = "install"])
    /\ UNCHANGED <<disk, edits, policy, eval, overlapped>>

\* Mutant of Install: the policy is replaced without waiting for the readers.
InstallAtOnce(r) ==
    /\ reload[r].pc = "install"
    /\ policy' = reload[r].read
    /\ writer' = None
    /\ Put(r, Answer(r, "reloaded"))
    /\ UNCHANGED <<disk, edits, eval, overlapped>>

\* The readers that were in have left; the policy is replaced and Unlock runs.
Install(r) ==
    /\ reload[r].pc = "install"
    /\ Readers = {}
    /\ policy' = reload[r].read
    /\ writer' = None
    /\ Put(r, Answer(r, "reloaded"))
    /\ UNCHANGED <<disk, edits, eval, overlapped>>

-----------------------------------------------------------------------------
(* Engine.Evaluate *)

\* Mutant of StartEval: readers go before a writer that waits.
StartEvalFirst(e) ==
    /\ ~eval[e].running
    /\ eval' = [eval EXCEPT ![e] = [running |-> TRUE, policy |-> policy]]
    /\ UNCHANGED <<disk, edits, policy, writer, reload, overlapped>>

\* RLock, and the evaluation begins with the policy in force.
StartEval(e) ==
    /\ ~eval[e].running
    /\ writer = None
    /\ eval' = [eval EXCEPT ![e] = [running |-> TRUE, policy |-> policy]]
    /\ UNCHANGED <<disk, edits, policy, writer, reload, overlapped>>

\* The evaluation returns, with or without an error, and RUnlock runs.
EndEval(e) ==
    /\ eval[e].running
    /\ eval' = [eval EXCEPT ![e].running = FALSE]
    /\ UNCHANGED <<disk, edits, policy, writer, reload, overlapped>>

ReloadStep(r) == ReadFile(r) \/ Compile(r) \/ Lock(r) \/ Install(r)

Next ==
    \/ \E f \in Files : Edit(f)
    \/ \E r \in Reloads : Begin(r) \/ ReloadStep(r)
    \/ \E e \in Evals : StartEval(e) \/ EndEval(e)

Spec == Init /\ [][Next]_vars

\* A reload that has begun and an evaluation that has the lock go on running.
\* No fairness for requests: none need arrive.  sync.RWMutex hands its lock over
\* to the writers that queue for it, hence SF for Lock.
Fairness ==
    /\ \A r \in Reloads : WF_vars(ReadFile(r) \/ Compile(r)) /\ SF_vars(Lock(r))
                            /\ WF_vars(Install(r))
    /\ \A e \in Evals : WF_vars(EndEval(e))

FairSpec == Spec /\ Fairness

-----------------------------------------------------------------------------
(* Properties *)

\* Types, and who holds the write lock: the reload about to install, and no other.
TypeOK ==
    /\ disk \in Policy
    /\ edits \in 1..MaxEdits
    /\ policy \in Policy
    /\ writer \in Reloads \cup {None}
    /\ reload \in [Reloads -> Reload]
    /\ eval \in [Evals -> Eval]
    /\ overlapped \subseteq Reloads
    /\ \A r \in Reloads : reload[r].pc = "install" <=> writer = r

\* The policy an evaluation runs with stays whole, and in force, until the
\* evaluation returns: no reload swaps e.prepared under it (engine.go:64, 104).
EvalUsesOnePolicy == \A e \in Evals : eval[e].running => eval[e].policy = policy

\* Whatever happens to the directory while it is read, and however reloads
\* interleave, what is in force compiles: a reload that fails leaves the old
\* policy alone (engine_test.go:414 "engine should keep old policy").
PolicyCompiles == policy \in Compiling

\* "Update Rego files on disk and reload without restarting" (README.md:35): as
\* long as the directory has not changed since a reload began that said
\* "reloaded" and overlapped no other, the policy in force is the one in the
\* directory, whatever the reloads after it do, fail or overlap.
SoloReloadInForce ==
    \A r \in Reloads \ overlapped :
        reload[r].pc = "idle" /\ reload[r].answer = "reloaded" /\ reload[r].begun = edits
            => policy = disk

\* A reload is answered, however many evaluations keep arriving: a waiting
\* writer is not starved by readers.
ReloadEnds == \A r \in Reloads : reload[r].pc # "idle" ~> reload[r].pc = "idle"
=============================================================================
