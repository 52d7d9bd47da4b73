--------------------------- MODULE VsCodeExtension ---------------------------
(***************************************************************************)
(* One window of the VS Code extension (vscode-extension/src): the manager *)
(* that starts and stops guardian processes (proxy.ts), the commands and   *)
(* the polls (extension.ts) and what the views hold (decisions.ts,         *)
(* denied.ts, statusTree.ts, manifest.ts).  JavaScript code runs to its    *)
(* next await without interruption, so a step is what lies between two     *)
(* awaits, one event, or one answer of the proxy.                          *)
(*                                                                         *)
(* The p-th spawn makes process p; every process wants the same port.      *)
(***************************************************************************)
EXTENDS DecisionLog, FiniteSets

CONSTANTS
    Limit,          \* decisions a poll asks for
    NoAnswer,       \* what a poll has before an answer
    Polls,          \* calls of refreshData that can be under way at once
    MaxSpawns,      \* bound: processes spawned
    Traffic,        \* bound: Traffic[p], the verdicts process p is asked for
    MaxCommands     \* bound: commands that stop, clear or close

ASSUME ExtensionAssumption ==
    /\ Limit \in Nat \ {0}
    /\ MaxSpawns \in Nat /\ MaxCommands \in Nat
    /\ Traffic \in [1..MaxSpawns -> Seq(BOOLEAN)]

VARIABLES
    up,         \* each process: none, starting, listening, draining, exited
                \* (its exit event is pending), gone
    told,       \* the living processes that were sent SIGTERM
    log,        \* each process's decision log
    open,       \* the window is open
    process,    \* ProxyManager.process, 0 for undefined
    isRunning,  \* ProxyManager._isRunning
    waiting,    \* the starts that wait for health, by the process they spawned
    polling,    \* the poll timer is set
    poll,       \* each call of refreshData
    view,       \* what the views and the manifest analyzer hold
    commands,   \* how many bounded commands there have been
    overlapped  \* history: a start found a process alive and not told to stop

procVars == <<up, told>>
managerVars == <<open, process, isRunning, waiting, polling, overlapped>>
vars == <<procVars, log, managerVars, poll, view, commands>>

Procs == 1..MaxSpawns
Alive(p) == up[p] \in {"starting", "listening", "draining"}
Listening == {p \in Procs : up[p] = "listening"}

Idle == [pc |-> "idle"]
Pending(recent, stats) == [pc |-> "waiting", recent |-> recent, stats |-> stats]
NoView == [list |-> <<>>, lastSeenId |-> 0, denied |-> <<>>,
           stats |-> NewLog.total, manifest |-> <<>>, baseUrl |-> FALSE]

Init ==
    /\ up = [p \in Procs |-> "none"]
    /\ told = {}
    /\ log = [p \in Procs |-> NewLog]
    /\ open = TRUE
    /\ process = 0
    /\ isRunning = FALSE
    /\ waiting = {}
    /\ polling = FALSE
    /\ poll = [k \in Polls |-> Idle]
    /\ view = NoView
    /\ commands = 0
    /\ overlapped = FALSE

-----------------------------------------------------------------------------
(* The guardian processes *)

Become(p, s) == up' = [up EXCEPT ![p] = s]

\* Only one process has the port; another one that tries exits.
Listen(p) ==
    /\ up[p] = "starting"
    /\ Listening = {}
    /\ Become(p, "listening")
    /\ UNCHANGED <<told, log, managerVars, poll, view, commands>>

\* Told to stop, it closes its listener, and exits once its jobs have ended.
Drain(p) ==
    /\ up[p] = "listening" /\ p \in told
    /\ Become(p, "draining")
    /\ UNCHANGED <<told, log, managerVars, poll, view, commands>>

\* It ends, told or not, and its log with it.
Exit(p) ==
    /\ Alive(p)
    /\ Become(p, "exited")
    /\ told' = told \ {p}
    /\ log' = [log EXCEPT ![p] = NewLog]
    /\ UNCHANGED <<managerVars, poll, view, commands>>

\* A package manager asks the proxy for a version.
Decide(p) ==
    /\ up[p] = "listening"
    /\ log[p].nextID < Len(Traffic[p])
    /\ log' = [log EXCEPT ![p] = Record(@, Traffic[p][log[p].nextID + 1])]
    /\ UNCHANGED <<procVars, managerVars, poll, view, commands>>

-----------------------------------------------------------------------------
(* The manager and the commands *)

\* Mutant of ExitEvent: only the exit of the current process counts.
ExitEventOfCurrent(p) ==
    /\ open
    /\ up[p] = "exited"
    /\ Become(p, "gone")
    /\ isRunning' = (isRunning /\ process # p)
    /\ UNCHANGED <<told, log, open, process, waiting, polling, overlapped,
                   poll, view, commands>>

\* The exit or error event of any process, the current one or another.
ExitEvent(p) ==
    /\ open
    /\ up[p] = "exited"
    /\ Become(p, "gone")
    /\ isRunning' = FALSE
    /\ UNCHANGED <<told, log, open, process, waiting, polling, overlapped,
                   poll, view, commands>>

\* The start command while the manager says it runs: polling is set again.
StartAgain ==
    /\ open /\ isRunning
    /\ polling' = TRUE
    /\ view' = [view EXCEPT !.baseUrl = TRUE]
    /\ UNCHANGED <<procVars, log, open, process, isRunning, waiting, overlapped,
                   poll, commands>>

\* The start command otherwise: a process is spawned, whatever the last one does.
Start(p) ==
    /\ open /\ ~isRunning
    /\ up[p] = "none" /\ \A q \in 1..(p - 1) : up[q] # "none"
    /\ Become(p, "starting")
    /\ process' = p
    /\ waiting' = waiting \cup {p}
    /\ overlapped' = (overlapped \/ \E q \in Procs : Alive(q) /\ q \notin told)
    /\ UNCHANGED <<told, log, open, isRunning, polling, poll, view, commands>>

\* /health answers, whichever process listens: the start is complete.
HealthOk(p) ==
    /\ open
    /\ p \in waiting
    /\ Listening # {}
    /\ waiting' = waiting \ {p}
    /\ isRunning' = TRUE
    /\ polling' = TRUE
    /\ view' = [view EXCEPT !.baseUrl = TRUE]
    /\ UNCHANGED <<procVars, log, open, process, overlapped, poll, commands>>

\* Ten seconds have passed: the start fails and leaves the process alone.
HealthTimeout(p) ==
    /\ p \in waiting
    /\ waiting' = waiting \ {p}
    /\ UNCHANGED <<procVars, log, open, process, isRunning, polling, overlapped,
                   poll, view, commands>>

Command == open /\ commands < MaxCommands /\ commands' = commands + 1

\* Mutant of StopProcess: nothing to stop unless the manager says it runs.
StopProcessIfRunning ==
    /\ told' = told \cup {p \in Procs : p = process /\ Alive(p) /\ isRunning}
    /\ process' = 0

\* ProxyManager.stop kills the process it has, if any.
StopProcess ==
    /\ told' = told \cup {p \in Procs : p = process /\ Alive(p)}
    /\ process' = 0

\* ProxyManager.disconnect, for a hosted service, leaves it.
Disconnect == UNCHANGED <<told, process>>

\* Mutant of ClearViews: the last id is kept.
ClearViewsKeepingId == [view EXCEPT !.list = <<>>, !.denied = <<>>]

ClearViews == [view EXCEPT !.list = <<>>, !.lastSeenId = 0, !.denied = <<>>]

\* The stop command; connectionMode is read when it runs.
Stop ==
    /\ Command
    /\ polling' = FALSE
    /\ StopProcess \/ Disconnect
    /\ isRunning' = FALSE
    /\ view' = [ClearViews EXCEPT !.manifest = <<>>, !.baseUrl = FALSE]
    /\ UNCHANGED <<up, log, open, waiting, overlapped, poll>>

Clear ==
    /\ Command
    /\ view' = ClearViews
    /\ UNCHANGED <<procVars, log, managerVars, poll>>

\* The window closes (deactivate): what awaits an answer is abandoned.  With
\* autoStopOnClose off, or hosted, the process is left to run.
Close ==
    /\ Command
    /\ open' = FALSE
    /\ polling' = FALSE
    /\ waiting' = {}
    /\ poll' = [k \in Polls |-> Idle]
    /\ \/ StopProcess /\ isRunning' = FALSE
       \/ Disconnect /\ isRunning' \in {isRunning, FALSE}
    /\ UNCHANGED <<up, log, overlapped, view>>

-----------------------------------------------------------------------------
(* refreshData *)

PollSet(k, r) == poll' = [poll EXCEPT ![k] = r]

\* The refresh command, or the timer.
Refresh(k) ==
    /\ open /\ isRunning
    /\ poll[k] = Idle
    /\ PollSet(k, Pending(NoAnswer, NoAnswer))
    /\ UNCHANGED <<procVars, log, managerVars, view, commands>>

Tick(k) == polling /\ Refresh(k)

\* /api/decisions and /api/stats are answered at moments of their own.
AnswerDecisions(k) ==
    /\ poll[k].pc = "waiting" /\ poll[k].recent = NoAnswer
    /\ \E p \in Listening : PollSet(k, [poll[k] EXCEPT !.recent = Recent(log[p], Limit)])
    /\ UNCHANGED <<procVars, log, managerVars, view, commands>>

AnswerStats(k) ==
    /\ poll[k].pc = "waiting" /\ poll[k].stats = NoAnswer
    /\ \E p \in Listening : PollSet(k, [poll[k] EXCEPT !.stats = GetStats(log[p])])
    /\ UNCHANGED <<procVars, log, managerVars, view, commands>>

\* No one listens: the promise is rejected and the poll is given up.
Refused(k) ==
    /\ poll[k].pc = "waiting" /\ NoAnswer \in {poll[k].recent, poll[k].stats}
    /\ Listening = {}
    /\ PollSet(k, Idle)
    /\ UNCHANGED <<procVars, log, managerVars, view, commands>>

\* DecisionTreeProvider.update skips a list whose newest id it has seen.
Updated(recent) ==
    IF recent # <<>> /\ recent[1].id # view.lastSeenId
    THEN [view EXCEPT !.list = recent, !.lastSeenId = recent[1].id]
    ELSE view

\* Both answers are in: the decisions are parsed and shown.  Nothing asks again
\* whether the proxy still runs.
ShowDecisions(k) ==
    /\ poll[k].pc = "waiting" /\ NoAnswer \notin {poll[k].recent, poll[k].stats}
    /\ view' = [Updated(poll[k].recent) EXCEPT !.manifest = poll[k].recent]
    /\ PollSet(k, [pc |-> "stats", stats |-> poll[k].stats])
    /\ UNCHANGED <<procVars, log, managerVars, commands>>

\* Mutant of ShowStats: what is blocked is taken from the decisions shown.
ShowStatsOfList(k) ==
    /\ poll[k].pc = "stats"
    /\ view' = [view EXCEPT !.denied = Denied(view.list), !.stats = poll[k].stats.total]
    /\ PollSet(k, Idle)
    /\ UNCHANGED <<procVars, log, managerVars, commands>>

ShowStats(k) ==
    /\ poll[k].pc = "stats"
    /\ view' = [view EXCEPT !.denied = poll[k].stats.denied, !.stats = poll[k].stats.total]
    /\ PollSet(k, Idle)
    /\ UNCHANGED <<procVars, log, managerVars, commands>>

-----------------------------------------------------------------------------
ProcStep(p) == Listen(p) \/ Drain(p) \/ Exit(p) \/ Decide(p)

StartStep(p) == Start(p) \/ HealthOk(p) \/ HealthTimeout(p) \/ ExitEvent(p)

PollStep(k) ==
    \/ AnswerDecisions(k) \/ AnswerStats(k) \/ Refused(k)
    \/ ShowDecisions(k) \/ ShowStats(k)

Next ==
    \/ \E p \in Procs : ProcStep(p) \/ StartStep(p)
    \/ StartAgain
    \/ Stop \/ Clear \/ Close
    \/ \E k \in Polls : Refresh(k) \/ PollStep(k)

Spec == Init /\ [][Next]_vars

\* The timer fires for ever, and what a poll asked is answered and handled.
Fairness == \A k \in Polls : WF_vars(Tick(k)) /\ WF_vars(PollStep(k))

FairSpec == Spec /\ Fairness

-----------------------------------------------------------------------------
(* Properties *)

States == {"none", "starting", "listening", "draining", "exited", "gone"}

TypeOK ==
    /\ up \in [Procs -> States]
    /\ told \subseteq Procs /\ waiting \subseteq Procs
    /\ Cardinality(Listening) <= 1
    /\ process \in Procs \cup {0}
    /\ {open, isRunning, polling, overlapped} \subseteq BOOLEAN
    /\ view.lastSeenId = (IF view.list = <<>> THEN 0 ELSE view.list[1].id)
    /\ commands \in 0..MaxCommands
    /\ \A p \in Procs : log[p].nextID # 0 => up[p] \in {"listening", "draining"}

\* "Proxy: Running" is never shown for a proxy that has exited, once its exit
\* has been delivered: however starts, stops, failed health checks and exits of
\* this and earlier processes interleave (proxy.ts:76-97).
RunningIsServed ==
    open /\ isRunning => \E p \in Procs : up[p] \in {"listening", "draining", "exited"}

\* As long as no start found a process alive that no one had told to stop, the
\* manager holds every process that is to be stopped: stopping during a start,
\* after a failed start or when closing the window reaches it.
NoneOrphaned ==
    ~overlapped /\ open =>
        \A p \in Procs : Alive(p) /\ p \notin told => p = process

\* The newest n verdicts of process p as entries, newest first.
Newest(p, n) ==
    LET h == log[p].nextID
    IN  [i \in 1..(IF h < n THEN h ELSE n) |->
            [id |-> h + 1 - i, allowed |-> Traffic[p][h + 1 - i]]]

\* The views show what process p has decided: the newest Limit decisions, every
\* denied one among the newest MaxSize, and the totals.  The decision list is
\* compared in a window with one process only: a later process reuses ids, and
\* a list whose newest id has been seen is skipped (decisions.ts:24).
Shown(p) ==
    /\ view.denied = FirstOf(Denied(Newest(p, MaxSize)), DeniedLimit)
    /\ view.stats = [a \in BOOLEAN |->
            Cardinality({i \in 1..log[p].nextID : Traffic[p][i] = a})]
    /\ view.manifest = Newest(p, Limit)
    /\ (\A q \in Procs \ {p} : up[q] = "none") => view.list = Newest(p, Limit)

\* While the manager says Running, the timer is set and a proxy listens, the
\* views catch up with it: through answers that overtake each other, views
\* cleared while a poll is under way and answers of an earlier process.
ViewsCatchUp ==
    []<>(open /\ isRunning /\ polling => \A p \in Listening : Shown(p))
=============================================================================
