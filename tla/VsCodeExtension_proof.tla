------------------------ MODULE VsCodeExtension_proof ------------------------
(***************************************************************************)
(* What holds of one window of the extension for any number of processes,  *)
(* starts and polls, and of the decision logs for any size.                *)
(***************************************************************************)
EXTENDS VsCodeExtension, FiniteSetTheorems, TLAPS

-----------------------------------------------------------------------------
(* The manager *)

ManagerTypes ==
    /\ up \in [Procs -> States]
    /\ process \in Procs \cup {0}
    /\ isRunning \in BOOLEAN /\ open \in BOOLEAN /\ overlapped \in BOOLEAN

ManagerInv == ManagerTypes /\ RunningIsServed /\ NoneOrphaned

\* Steps that leave the processes and the manager alone.
Elsewhere == UNCHANGED <<up, told, open, process, isRunning, overlapped>>

LEMMA ElsewhereKeeps ==
    ASSUME ManagerInv, Elsewhere
    PROVE  ManagerInv'
  BY DEF ManagerInv, ManagerTypes, RunningIsServed, NoneOrphaned, Elsewhere, Alive

\* A process that listens, closes its listener or exits.
LEMMA ProcStepKeeps ==
    ASSUME ManagerInv, NEW p \in Procs, ProcStep(p)
    PROVE  ManagerInv'
<1> USE DEF ManagerInv, ManagerTypes
<1>1. CASE Listen(p)
  BY <1>1 DEF Listen, Become, RunningIsServed, NoneOrphaned, Alive, States, managerVars
<1>2. CASE Drain(p)
  BY <1>2 DEF Drain, Become, RunningIsServed, NoneOrphaned, Alive, States, managerVars
<1>3. CASE Exit(p)
  <2>1. /\ up' = [up EXCEPT ![p] = "exited"] /\ told' = told \ {p}
        /\ UNCHANGED <<open, process, isRunning, overlapped>>
    BY <1>3 DEF Exit, Become, managerVars
  <2>2. ManagerTypes'
    BY <2>1 DEF States
  <2>3. RunningIsServed'
    BY <2>1 DEF RunningIsServed
  <2>4. NoneOrphaned'
    BY <2>1 DEF NoneOrphaned, Alive
  <2> QED BY <2>2, <2>3, <2>4
<1>4. CASE Decide(p)
  <2>1. Elsewhere
    BY <1>4 DEF Decide, Elsewhere, procVars, managerVars
  <2> QED BY <2>1, ElsewhereKeeps
<1> QED BY <1>1, <1>2, <1>3, <1>4 DEF ProcStep

\* A start, its end, and the event of an exit.
LEMMA StartStepKeeps ==
    ASSUME ManagerInv, NEW p \in Procs, StartStep(p)
    PROVE  ManagerInv'
<1> USE DEF ManagerInv, ManagerTypes
<1>1. CASE Start(p)
  <2>1. /\ ~isRunning /\ ~isRunning' /\ up' = [up EXCEPT ![p] = "starting"]
        /\ process' = p /\ UNCHANGED <<told, open, isRunning>>
        /\ overlapped' = (overlapped \/ \E q \in Procs : Alive(q) /\ q \notin told)
    BY <1>1 DEF Start, Become
  <2>2. ManagerTypes' /\ RunningIsServed'
    BY <2>1 DEF States, RunningIsServed
  <2>3. NoneOrphaned'
    <3> SUFFICES ASSUME ~overlapped', NEW q \in Procs, Alive(q)', q \notin told'
                 PROVE  q = process'
      BY DEF NoneOrphaned
    <3>1. ~Alive(q) \/ q \in told
      BY <2>1
    <3>2. q # p => Alive(q)
      BY <2>1 DEF Alive
    <3> QED BY <2>1, <3>1, <3>2
  <2> QED BY <2>2, <2>3
<1>2. CASE HealthOk(p)
  BY <1>2 DEF HealthOk, procVars, RunningIsServed, NoneOrphaned, Alive, Listening
<1>3. CASE HealthTimeout(p)
  <2>1. Elsewhere
    BY <1>3 DEF HealthTimeout, Elsewhere, procVars
  <2> QED BY <2>1, ElsewhereKeeps
<1>4. CASE ExitEvent(p)
  <2>1. /\ up[p] = "exited" /\ up' = [up EXCEPT ![p] = "gone"]
        /\ ~isRunning' /\ isRunning' \in BOOLEAN
        /\ UNCHANGED <<told, open, process, overlapped>>
    BY <1>4 DEF ExitEvent, Become
  <2>2. ManagerTypes' /\ RunningIsServed'
    BY <2>1 DEF States, RunningIsServed
  <2>3. NoneOrphaned'
    BY <2>1 DEF NoneOrphaned, Alive
  <2> QED BY <2>2, <2>3
<1> QED BY <1>1, <1>2, <1>3, <1>4 DEF StartStep

LEMMA CommandKeeps ==
    ASSUME ManagerInv, StartAgain \/ Stop \/ Clear \/ Close
    PROVE  ManagerInv'
<1> USE DEF ManagerInv, ManagerTypes
<1>1. CASE StartAgain \/ Clear
  <2>1. Elsewhere
    BY <1>1 DEF StartAgain, Clear, Elsewhere, procVars, managerVars
  <2> QED BY <2>1, ElsewhereKeeps
<1>2. CASE Stop
  <2>1. /\ ~isRunning' /\ isRunning' \in BOOLEAN /\ UNCHANGED <<up, open, overlapped>>
        /\ \/ /\ told' = told \cup {p \in Procs : p = process /\ Alive(p)}
              /\ process' = 0
           \/ UNCHANGED <<told, process>>
    BY <1>2 DEF Stop, StopProcess, Disconnect
  <2>2. ManagerTypes' /\ RunningIsServed'
    BY <2>1 DEF RunningIsServed
  <2>3. NoneOrphaned'
    <3>1. CASE UNCHANGED <<told, process>>
      BY <2>1, <3>1 DEF NoneOrphaned, Alive
    <3>2. CASE /\ told' = told \cup {p \in Procs : p = process /\ Alive(p)}
               /\ process' = 0
      BY <2>1, <3>2 DEF NoneOrphaned, Alive
    <3> QED BY <2>1, <3>1, <3>2
  <2> QED BY <2>2, <2>3
<1>3. CASE Close
  <2>1. /\ ~open' /\ open' \in BOOLEAN /\ UNCHANGED <<up, overlapped>>
        /\ process' \in {process, 0} /\ isRunning' \in {isRunning, FALSE}
    BY <1>3 DEF Close, StopProcess, Disconnect
  <2> QED BY <2>1 DEF RunningIsServed, NoneOrphaned
<1> QED BY <1>1, <1>2, <1>3

THEOREM ManagerInvariance == Spec => []ManagerInv
<1>1. Init => ManagerInv
  BY DEF Init, ManagerInv, ManagerTypes, RunningIsServed, NoneOrphaned, Alive, States
<1>2. ManagerInv /\ [Next]_vars => ManagerInv'
  <2> SUFFICES ASSUME ManagerInv, [Next]_vars PROVE ManagerInv'
    OBVIOUS
  <2>1. CASE \E p \in Procs : ProcStep(p) \/ StartStep(p)
    BY <2>1, ProcStepKeeps, StartStepKeeps
  <2>2. CASE StartAgain \/ Stop \/ Clear \/ Close
    BY <2>2, CommandKeeps
  <2>3. CASE \E k \in Polls : Refresh(k) \/ PollStep(k)
    <3>1. Elsewhere
      BY <2>3 DEF Refresh, PollStep, AnswerDecisions, AnswerStats, Refused,
                  ShowDecisions, ShowStats, Elsewhere, procVars, managerVars
    <3> QED BY <3>1, ElsewhereKeeps
  <2>4. CASE UNCHANGED vars
    <3>1. Elsewhere
      BY <2>4 DEF vars, Elsewhere, procVars, managerVars
    <3> QED BY <3>1, ElsewhereKeeps
  <2> QED BY <2>1, <2>2, <2>3, <2>4 DEF Next
<1> QED BY <1>1, <1>2, PTL DEF Spec

\* "Proxy: Running" is never shown once the exit of every proxy that listened
\* has been delivered.
THEOREM RunningMeansServed == Spec => []RunningIsServed
<1>1. ManagerInv => RunningIsServed
  BY DEF ManagerInv
<1> QED BY <1>1, ManagerInvariance, PTL

\* Unless a start found a process alive that no one had told to stop, the
\* manager has every process that is still to be stopped.
THEOREM ManagerHoldsProcess == Spec => []NoneOrphaned
<1>1. ManagerInv => NoneOrphaned
  BY DEF ManagerInv
<1> QED BY <1>1, ManagerInvariance, PTL

-----------------------------------------------------------------------------
(* The decision log *)

\* Log l holds the newest MaxSize of the nextID first verdicts of h.
WindowSize(l, h) ==
    /\ l.entries \in Seq(Entry)
    /\ l.nextID \in 0..Len(h)
    /\ Len(l.entries) = IF l.nextID < MaxSize THEN l.nextID ELSE MaxSize

EntryAt(h, n) == [id |-> n, allowed |-> h[n]]

Window(l, h) ==
    /\ WindowSize(l, h)
    /\ \A i \in 1..Len(l.entries) :
          l.entries[i] = EntryAt(h, l.nextID - Len(l.entries) + i)

LEMMA SizeIsNat ==
    ASSUME NEW h \in Seq(BOOLEAN), NEW l, WindowSize(l, h)
    PROVE  /\ Len(h) \in Nat /\ l.nextID \in Nat /\ l.nextID <= Len(h)
           /\ Len(l.entries) \in Nat
           /\ MaxSize \in Nat /\ MaxSize > 0
<1>1. Len(h) \in Nat
  OBVIOUS
<1>2. l.nextID \in 0..Len(h) /\ l.entries \in Seq(Entry)
  BY DEF WindowSize
<1>3. Len(l.entries) \in Nat
  BY <1>2
<1> QED BY <1>1, <1>2, <1>3, LogAssumption

LEMMA RecordKeepsWindow ==
    ASSUME NEW h \in Seq(BOOLEAN), NEW l, Window(l, h), l.nextID < Len(h)
    PROVE  Window(Record(l, h[l.nextID + 1]), h)
<1> DEFINE next == l.nextID + 1
           entry == EntryAt(h, next)
           full == Len(l.entries) >= MaxSize
           kept == IF full THEN Tail(l.entries) ELSE l.entries
           r == Record(l, h[next])
           len == Len(l.entries)
<1>1. /\ MaxSize \in Nat /\ MaxSize > 0 /\ l.nextID \in Nat /\ len \in Nat
      /\ Len(h) \in Nat /\ next <= Len(h) /\ next \in 1..Len(h)
  BY SizeIsNat DEF Window
<1>2. l.entries \in Seq(Entry) /\ len = IF l.nextID < MaxSize THEN l.nextID ELSE MaxSize
  BY DEF Window, WindowSize
<1>3. entry \in Entry
  BY <1>1 DEF Entry, EntryAt
<1>4. kept \in Seq(Entry) /\ Len(kept) = IF full THEN len - 1 ELSE len
  BY <1>1, <1>2
<1>5. r.entries = Append(kept, entry) /\ r.nextID = next
  BY DEF Record, EntryAt
<1>6. r.entries \in Seq(Entry) /\ Len(r.entries) = Len(kept) + 1
  BY <1>3, <1>4, <1>5
<1>7. Len(r.entries) = IF next < MaxSize THEN next ELSE MaxSize
  BY <1>1, <1>2, <1>4, <1>6
<1> HIDE DEF r
<1>8. ASSUME NEW i \in 1..Len(r.entries)
      PROVE  r.entries[i] = EntryAt(h, next - Len(r.entries) + i)
  <2>1. CASE i = Len(r.entries)
    <3>1. r.entries[i] = entry
      BY <1>3, <1>4, <1>5, <1>6, <2>1
    <3>2. next - Len(r.entries) + i = next
      BY <1>1, <1>7, <2>1
    <3> QED BY <3>1, <3>2
  <2>2. CASE i # Len(r.entries)
    <3>1. i \in 1..Len(kept) /\ r.entries[i] = kept[i]
      BY <1>3, <1>4, <1>5, <1>6, <2>2
    <3>2. CASE full
      <4>1. kept[i] = l.entries[i + 1] /\ i + 1 \in 1..len
        BY <1>1, <1>2, <1>4, <3>1, <3>2
      <4>2. Len(r.entries) = len /\ i \in Nat
        BY <1>1, <1>4, <1>6, <3>2
      <4>3. \A n, m, o \in Nat : (n + 1) - m + o = n - m + (o + 1)
        OBVIOUS
      <4>4. next - len + i = l.nextID - len + (i + 1)
        <5> HIDE DEF len
        <5> QED BY <1>1, <4>2, <4>3
      <4> QED BY <3>1, <4>1, <4>2, <4>4 DEF Window
    <3>3. CASE ~full
      <4>1. Len(r.entries) = len + 1 /\ i \in Nat
        BY <1>1, <1>4, <1>6, <3>3
      <4>2. next - Len(r.entries) + i = l.nextID - len + i
        BY <1>1, <4>1
      <4> QED BY <1>4, <3>1, <3>3, <4>2 DEF Window
    <3> QED BY <3>2, <3>3
  <2> QED BY <2>1, <2>2
<1>9. WindowSize(r, h)
  BY <1>1, <1>5, <1>6, <1>7 DEF WindowSize
<1>10. Window(r, h)
  BY <1>5, <1>8, <1>9 DEF Window
<1> QED BY <1>10 DEF r

LogInv ==
    /\ log \in [Procs -> Log]
    /\ \A p \in Procs : Window(log[p], Traffic[p])

\* What a client that asks for everything is given is the newest MaxSize
\* decisions, newest first, however many there have been.
AllIsNewest == \A p \in Procs : Recent(log[p], 0) = Newest(p, MaxSize)

LEMMA NewLogIsWindow ==
    ASSUME NEW h \in Seq(BOOLEAN)
    PROVE  Window(NewLog, h)
<1>1. Len(h) \in Nat /\ NewLog.entries = <<>> /\ NewLog.nextID = 0
  BY DEF NewLog
<1> QED BY <1>1, LogAssumption DEF Window, WindowSize

LEMMA RecordTyped ==
    ASSUME NEW l \in Log, NEW a \in BOOLEAN
    PROVE  Record(l, a) \in Log
<1>1. [id |-> l.nextID + 1, allowed |-> a] \in Entry
  BY DEF Log, Entry
<1>2. (IF Len(l.entries) >= MaxSize THEN Tail(l.entries) ELSE l.entries) \in Seq(Entry)
  BY LogAssumption DEF Log
<1>3. [l.total EXCEPT ![a] = @ + 1] \in [BOOLEAN -> Nat]
  BY DEF Log
<1> QED BY <1>1, <1>2, <1>3 DEF Record, Log

THEOREM LogInvariance == Spec => []LogInv
<1>1. Init => LogInv
  <2>1. NewLog \in Log
    BY DEF NewLog, Log
  <2>2. \A p \in Procs : Window(NewLog, Traffic[p])
    BY NewLogIsWindow, ExtensionAssumption DEF Procs
  <2> QED BY <2>1, <2>2 DEF Init, LogInv
<1>2. LogInv /\ [Next]_vars => LogInv'
  <2> SUFFICES ASSUME LogInv, [Next]_vars PROVE LogInv'
    OBVIOUS
  <2>1. ASSUME NEW p \in Procs, Decide(p) PROVE LogInv'
    <3> DEFINE new == Record(log[p], Traffic[p][log[p].nextID + 1])
    <3>1. log' = [log EXCEPT ![p] = new] /\ log[p].nextID < Len(Traffic[p])
      BY <2>1 DEF Decide
    <3>2. Window(log[p], Traffic[p]) /\ Traffic[p] \in Seq(BOOLEAN) /\ log[p] \in Log
      BY ExtensionAssumption DEF LogInv, Log, Procs
    <3>3. Traffic[p][log[p].nextID + 1] \in BOOLEAN
      BY <3>1, <3>2, SizeIsNat DEF Window
    <3>4. new \in Log /\ Window(new, Traffic[p])
      BY <3>1, <3>2, <3>3, RecordKeepsWindow, RecordTyped
    <3> QED BY <3>1, <3>4 DEF LogInv, Log
  <2>2. ASSUME NEW p \in Procs, Exit(p) PROVE LogInv'
    <3>1. log' = [log EXCEPT ![p] = NewLog]
      BY <2>2 DEF Exit
    <3>2. Window(NewLog, Traffic[p]) /\ NewLog \in Log
      BY NewLogIsWindow, ExtensionAssumption DEF NewLog, Log, Procs
    <3> QED BY <3>1, <3>2 DEF LogInv, Log
  <2>3. CASE UNCHANGED log
    BY <2>3 DEF LogInv
  <2>4. ASSUME NEW p \in Procs, Listen(p) \/ Drain(p) \/ StartStep(p) PROVE UNCHANGED log
    BY <2>4 DEF Listen, Drain, StartStep, Start, HealthOk, HealthTimeout, ExitEvent
  <2>5. ASSUME StartAgain \/ Stop \/ Clear \/ Close PROVE UNCHANGED log
    BY <2>5 DEF StartAgain, Stop, Clear, Close
  <2>6. ASSUME NEW k \in Polls, Refresh(k) \/ PollStep(k) PROVE UNCHANGED log
    BY <2>6 DEF Refresh, PollStep, AnswerDecisions, AnswerStats, Refused, ShowDecisions, ShowStats
  <2>7. UNCHANGED vars => UNCHANGED log
    BY DEF vars
  <2> QED BY <2>1, <2>2, <2>3, <2>4, <2>5, <2>6, <2>7 DEF Next, ProcStep
<1> QED BY <1>1, <1>2, PTL DEF Spec

\* For any size and any number of decisions, a proxy's log holds the newest of
\* them and serves them newest first (Record, Recent: the shift of a full log).
THEOREM LogHoldsNewest == Spec => []AllIsNewest
<1>1. LogInv => AllIsNewest
  <2> SUFFICES ASSUME LogInv, NEW p \in Procs PROVE Recent(log[p], 0) = Newest(p, MaxSize)
    BY DEF AllIsNewest
  <2> DEFINE l == log[p]
             len == Len(l.entries)
  <2>1. Window(l, Traffic[p])
    BY DEF LogInv
  <2>2. /\ len \in Nat /\ l.nextID \in Nat /\ MaxSize \in Nat
        /\ len = IF l.nextID < MaxSize THEN l.nextID ELSE MaxSize
    BY <2>1, SizeIsNat, ExtensionAssumption DEF Window, WindowSize, Procs
  <2>3. Recent(l, 0) = [i \in 1..len |-> l.entries[len + 1 - i]]
    BY DEF Recent
  <2>4. Newest(p, MaxSize) = [i \in 1..len |->
            [id |-> l.nextID + 1 - i, allowed |-> Traffic[p][l.nextID + 1 - i]]]
    BY <2>2 DEF Newest
  <2>5. ASSUME NEW i \in 1..len
        PROVE  l.entries[len + 1 - i] =
                 [id |-> l.nextID + 1 - i, allowed |-> Traffic[p][l.nextID + 1 - i]]
    <3>1. len + 1 - i \in 1..len /\ l.nextID - len + (len + 1 - i) = l.nextID + 1 - i
      BY <2>2
    <3> QED BY <2>1, <3>1 DEF Window, EntryAt
  <2> QED BY <2>3, <2>4, <2>5
<1> QED BY <1>1, LogInvariance, PTL
-----------------------------------------------------------------------------
(* Types *)

OneListens == \A p, q \in Listening : p = q

\* A process that decided something still has its log.
LogsLive == \A p \in Procs : log[p].nextID # 0 => up[p] \in {"listening", "draining"}

Counters == /\ told \subseteq Procs /\ waiting \subseteq Procs /\ polling \in BOOLEAN
            /\ commands \in 0..MaxCommands

\* The view, which has its fields, knows the id of the entry on top of its list.
ViewOK ==
    /\ view = [list |-> view.list, lastSeenId |-> view.lastSeenId, denied |-> view.denied,
               stats |-> view.stats, manifest |-> view.manifest, baseUrl |-> view.baseUrl]
    /\ view.lastSeenId = (IF view.list = <<>> THEN 0 ELSE view.list[1].id)

TypeInv == ManagerTypes /\ OneListens /\ LogsLive /\ Counters /\ ViewOK

\* One process moves from a state to another: whoever listened still does.
LEMMA MoveKeeps ==
    ASSUME TypeInv, LogInv, NEW p \in Procs, NEW s \in States, up' = [up EXCEPT ![p] = s],
           s = "listening" => Listening = {},
           s \in {"listening", "draining"} \/ log'[p].nextID = 0,
           \A q \in Procs : q # p => log'[q] = log[q]
    PROVE  OneListens' /\ LogsLive'
<1>1. \A q \in Procs : up'[q] = IF q = p THEN s ELSE up[q]
  BY DEF TypeInv, ManagerTypes
<1>2. Listening' = {q \in Procs : up'[q] = "listening"}
  BY DEF Listening
<1>3. OneListens'
  BY <1>1, <1>2 DEF TypeInv, OneListens, Listening
<1>4. LogsLive'
  BY <1>1 DEF TypeInv, LogsLive
<1> QED BY <1>3, <1>4

LEMMA ProcTypes ==
    ASSUME TypeInv, LogInv, NEW p \in Procs, ProcStep(p) \/ Start(p) \/ ExitEvent(p)
    PROVE  OneListens' /\ LogsLive'
<1>0. /\ up[p] \in States
      /\ log[p].nextID # 0 => up[p] \in {"listening", "draining"}
  BY DEF TypeInv, ManagerTypes, LogsLive
<1>1. CASE Listen(p)
  BY <1>1, MoveKeeps DEF Listen, Become, States
<1>2. CASE Drain(p)
  BY <1>2, MoveKeeps DEF Drain, Become, States
<1>3. CASE Exit(p)
  <2>1. \A q \in Procs : log'[q] = IF q = p THEN NewLog ELSE log[q]
    BY <1>3 DEF Exit, LogInv
  <2>2. NewLog.nextID = 0
    BY DEF NewLog
  <2> QED BY <1>3, <2>1, <2>2, MoveKeeps DEF Exit, Become, States
<1>4. CASE Decide(p)
  <2>1. up' = up /\ up[p] = "listening" /\ \A q \in Procs : q # p => log'[q] = log[q]
    BY <1>4 DEF Decide, procVars, LogInv
  <2>2. Listening' = Listening
    BY <2>1 DEF Listening
  <2> QED BY <2>1, <2>2 DEF TypeInv, OneListens, LogsLive
<1>5. CASE Start(p)
  <2>1. log[p].nextID = 0
    BY <1>0, <1>5 DEF Start
  <2> QED BY <1>5, <2>1, MoveKeeps DEF Start, Become, States
<1>6. CASE ExitEvent(p)
  <2>1. log[p].nextID = 0
    BY <1>0, <1>6 DEF ExitEvent
  <2> QED BY <1>6, <2>1, MoveKeeps DEF ExitEvent, Become, States
<1> QED BY <1>1, <1>2, <1>3, <1>4, <1>5, <1>6 DEF ProcStep

LEMMA RestTypes ==
    ASSUME TypeInv, Next
    PROVE  Counters' /\ ViewOK'
<1> USE DEF TypeInv, Counters
<1>1. ASSUME NEW p \in Procs, ProcStep(p) PROVE Counters' /\ ViewOK'
  BY <1>1 DEF ProcStep, Listen, Drain, Exit, Decide, procVars, managerVars, ViewOK
<1>2. ASSUME NEW p \in Procs, StartStep(p) PROVE Counters'
  BY <1>2 DEF StartStep, Start, HealthOk, HealthTimeout, ExitEvent, procVars
<1>3. ASSUME NEW p \in Procs, StartStep(p) PROVE ViewOK'
  <2>1. view' = view \/ view' = [view EXCEPT !.baseUrl = TRUE]
    BY <1>3 DEF StartStep, Start, HealthOk, HealthTimeout, ExitEvent
  <2> QED BY <2>1 DEF ViewOK
<1>4. CASE StartAgain
  BY <1>4 DEF StartAgain, procVars, ViewOK
<1>5. CASE Clear \/ Stop \/ Close
  <2>0. MaxCommands \in Nat
    BY ExtensionAssumption
  <2>c. commands < MaxCommands /\ commands' = commands + 1
    BY <1>5 DEF Clear, Stop, Close, Command
  <2>1. commands' \in 0..MaxCommands
    BY <2>0, <2>c
  <2>2. waiting' \subseteq Procs /\ polling' \in BOOLEAN
    BY <1>5 DEF Clear, Stop, Close, procVars, managerVars
  <2>3. told' \subseteq Procs
    BY <1>5 DEF Clear, Stop, Close, procVars, managerVars, StopProcess, Disconnect
  <2>4. \/ view' = view
        \/ view' = ClearViews
        \/ view' = [ClearViews EXCEPT !.manifest = <<>>, !.baseUrl = FALSE]
    BY <1>5 DEF Clear, Stop, Close
  <2>5. ViewOK'
    BY <2>4 DEF ClearViews, ViewOK
  <2> QED BY <2>1, <2>2, <2>3, <2>5
<1>6. ASSUME NEW k \in Polls, Refresh(k) \/ PollStep(k) PROVE Counters'
  BY <1>6 DEF Refresh, PollStep, AnswerDecisions, AnswerStats, Refused, ShowDecisions,
              ShowStats, procVars, managerVars
<1>7. ASSUME NEW k \in Polls, Refresh(k) \/ PollStep(k) PROVE ViewOK'
  <2>1. CASE UNCHANGED view
    BY <2>1 DEF ViewOK
  <2>2. CASE ShowDecisions(k)
    BY <2>2 DEF ShowDecisions, Updated, ViewOK
  <2>3. CASE ShowStats(k)
    BY <2>3 DEF ShowStats, ViewOK
  <2> QED BY <1>7, <2>1, <2>2, <2>3
          DEF Refresh, PollStep, AnswerDecisions, AnswerStats, Refused
<1> QED BY <1>1, <1>2, <1>3, <1>4, <1>5, <1>6, <1>7 DEF Next

LEMMA TypesStep ==
    ASSUME TypeInv, LogInv, ManagerTypes', [Next]_vars
    PROVE  TypeInv'
<1>1. CASE UNCHANGED vars
  <2>1. Listening' = Listening
    BY <1>1 DEF vars, procVars, Listening
  <2> QED BY <1>1, <2>1 DEF vars, procVars, managerVars, TypeInv, OneListens, LogsLive,
                            Counters, ViewOK
<1>2. CASE Next
  <2>1. Counters' /\ ViewOK'
    BY <1>2, RestTypes
  <2>2. CASE UNCHANGED <<up, log>>
    <3>1. Listening' = Listening
      BY <2>2 DEF Listening
    <3> QED BY <2>1, <2>2, <3>1 DEF TypeInv, OneListens, LogsLive
  <2>3. CASE \E p \in Procs : ProcStep(p) \/ Start(p) \/ ExitEvent(p)
    BY <2>1, <2>3, ProcTypes DEF TypeInv
  <2>4. (\E p \in Procs : ProcStep(p) \/ Start(p) \/ ExitEvent(p)) \/ UNCHANGED <<up, log>>
    <3>1. ASSUME NEW p \in Procs, HealthOk(p) \/ HealthTimeout(p) PROVE UNCHANGED <<up, log>>
      BY <3>1 DEF HealthOk, HealthTimeout, procVars
    <3>2. ASSUME StartAgain \/ Stop \/ Clear \/ Close PROVE UNCHANGED <<up, log>>
      BY <3>2 DEF StartAgain, Stop, Clear, Close, procVars
    <3>3. ASSUME NEW k \in Polls, Refresh(k) \/ PollStep(k) PROVE UNCHANGED <<up, log>>
      BY <3>3 DEF Refresh, PollStep, AnswerDecisions, AnswerStats, Refused, ShowDecisions,
                  ShowStats, procVars
    <3> QED BY <1>2, <3>1, <3>2, <3>3 DEF Next, StartStep
  <2> QED BY <2>2, <2>3, <2>4
<1> QED BY <1>1, <1>2

LEMMA TypesHold == TypeInv => TypeOK
<1> SUFFICES ASSUME TypeInv PROVE TypeOK
  OBVIOUS
<1>1. Cardinality(Listening) <= 1
  <2>1. CASE Listening = {}
    BY <2>1, FS_EmptySet
  <2>2. CASE \E p \in Listening : TRUE
    <3>1. PICK p \in Listening : TRUE
      BY <2>2
    <3>2. Listening = {p}
      BY DEF TypeInv, OneListens
    <3>3. Cardinality({p}) = 1
      BY FS_Singleton
    <3> QED BY <3>2, <3>3
  <2> QED BY <2>1, <2>2
<1> QED BY <1>1 DEF TypeInv, ManagerTypes, Counters, LogsLive, ViewOK, TypeOK

\* The types hold for any number of processes, polls and commands: one process at
\* a time listens, a log is a living process's, and the decision list knows the
\* id of its top entry (decisions.ts:24, the test that skips a list already shown).
THEOREM TypeCorrect == Spec => []TypeOK
<1>1. Init => TypeInv
  <2> SUFFICES ASSUME Init PROVE TypeInv
    OBVIOUS
  <2>1. ManagerTypes
    BY DEF Init, ManagerTypes, States
  <2>2. OneListens
    BY DEF Init, OneListens, Listening
  <2>3. LogsLive
    BY DEF Init, LogsLive, NewLog
  <2>4. Counters
    <3>1. told = {} /\ waiting = {} /\ polling = FALSE /\ commands = 0
      BY DEF Init
    <3>2. 0 \in 0..MaxCommands /\ FALSE \in BOOLEAN
      BY ExtensionAssumption
    <3> QED BY <3>1, <3>2 DEF Counters
  <2>5. ViewOK
    BY DEF Init, NoView, ViewOK
  <2> QED BY <2>1, <2>2, <2>3, <2>4, <2>5 DEF TypeInv
<1>2. ManagerInv' => ManagerTypes'
  BY DEF ManagerInv
<1>3. TypeInv /\ LogInv /\ ManagerInv' /\ [Next]_vars => TypeInv'
  BY <1>2, TypesStep
<1>4. Spec => []TypeInv
  BY <1>1, <1>3, LogInvariance, ManagerInvariance, PTL DEF Spec
<1> QED BY <1>4, TypesHold, PTL
=============================================================================
