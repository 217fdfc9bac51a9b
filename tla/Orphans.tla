------------------------------ MODULE Orphans ------------------------------
(***************************************************************************)
(* One unit played by an orchestrator that may be killed at any point: the *)
(* process groups it starts (local_runtime.py, subprocess_runner.py), the  *)
(* ledger it keeps of them in the unit's directory, and the reaping of     *)
(* what a killed orchestrator left running (orphans.py, side.py).          *)
(*                                                                         *)
(* A pid is given again once nothing has it, as its own or as its group's; *)
(* `born` counts the processes a pid has had since the machine booted and  *)
(* stands for the start time of the one that has it.  Checking a group and *)
(* killing it is one step, and a process that was sent SIGKILL is gone.    *)
(***************************************************************************)
EXTENDS Integers, Sequences, FiniteSets

CONSTANTS
    Pids,
    MaxBorn,        \* bound: processes that get the same pid between two boots
    MaxAttempts,    \* bound: attempts at the unit
    MaxAccidents    \* bound: kills, boots and ledger writes that fail

ASSUME OrphansAssumption ==
    /\ IsFiniteSet(Pids) /\ 0 \notin Pids
    /\ MaxBorn \in Nat /\ MaxAttempts \in Nat /\ MaxAccidents \in Nat

NoGroup == [pid |-> 0, start |-> 0]
Unplayed == [author |-> 0, attempt |-> 0]

VARIABLES
    procs,      \* the processes of the machine that this unit or a stranger started
    born, boot,
    at,         \* how far the orchestrator is, "down" while there is none
    todo,       \* groups of the ledger still to be looked at by the reaper
    policy,     \* the policy server of the attempt, as the orchestrator holds it
    bench,      \* the benchmark of the attempt
    got,        \* who wrote the result that was read: an attempt, 0 for none
    leaving,    \* whether the attempt was interrupted and the orchestrator ends after it
    unit,       \* the unit's directory: whether it is there, its ledger, who wrote its result
    attempt,    \* the number of the attempt
    record,     \* the unit's record in results.jsonl: who wrote its result, in which attempt
    decided,    \* whether outcome.json is there
    gap,        \* whether a group was left that no ledger names
    accidents

machineVars == <<procs, born, boot>>
attemptVars == <<policy, bench, got, leaving, attempt>>
diskVars == <<unit, record, decided>>
groupVars == <<machineVars, at, todo, attemptVars, diskVars, gap, accidents>>

Roles == {"policy", "benchmark", "stranger"}
Places == {"down", "reaping", "idle", "rereaping", "moving", "serving", "notingPolicy", "served",
           "cleared", "notingBench", "running", "waited", "killed", "stopping", "seen", "stopped",
           "recording"}

GroupsTypeOK ==
    /\ procs \subseteq [pid : Pids, start : 1 .. MaxBorn, group : Pids, role : Roles,
                        attempt : 0 .. MaxAttempts, noted : BOOLEAN]
    /\ \A p, q \in procs : p.pid = q.pid => p = q
    /\ born \in [Pids -> 0 .. MaxBorn]
    /\ boot \in 0 .. MaxAccidents
    /\ at \in Places
    /\ {policy, bench} \subseteq [pid : Pids \cup {0}, start : 0 .. MaxBorn]
    /\ got \in 0 .. MaxAttempts /\ attempt \in 0 .. MaxAttempts
    /\ unit.there \/ (unit.ledger = <<>> /\ unit.result = 0)
    /\ Len(unit.ledger) <= 2 /\ Len(todo) <= 2
    /\ unit.result \in 0 .. attempt
    /\ record \in [author : 0 .. MaxAttempts, attempt : 0 .. MaxAttempts]
    /\ {leaving, decided, gap} \subseteq BOOLEAN
    /\ accidents \in 0 .. MaxAccidents

NoUnit == [there |-> FALSE, ledger |-> <<>>, result |-> 0]

GroupsInit ==
    /\ procs = {} /\ born = [p \in Pids |-> 0] /\ boot = 0
    /\ at = "down" /\ todo = <<>>
    /\ policy = NoGroup /\ bench = NoGroup /\ got = 0 /\ leaving = FALSE /\ attempt = 0
    /\ unit = NoUnit /\ record = Unplayed /\ decided = FALSE
    /\ gap = FALSE /\ accidents = 0

Accident == accidents < MaxAccidents /\ accidents' = accidents + 1
NoAccident == UNCHANGED <<gap, accidents>>
Goes(to) == at' = to /\ UNCHANGED todo

-----------------------------------------------------------------------------
(* The machine. *)

(* A group's id is not given to anybody while it has a member, nor the pid of *)
(* a leader its orchestrator has not waited for.                              *)
FreePids ==
    {p \in Pids : /\ born[p] < MaxBorn
                  /\ \A q \in procs : p \notin {q.pid, q.group}
                  /\ p = policy.pid => at \in {"seen", "stopped"}
                  /\ p = bench.pid => at \in {"waited", "killed"}}

Process(p, g, role, n, noted) ==
    [pid |-> p, start |-> born[p] + 1, group |-> g, role |-> role, attempt |-> n, noted |-> noted]

(* A process that leads a session and a group of its own. *)
Begins(p, role, n) ==
    /\ procs' = procs \cup {Process(p, p, role, n, FALSE)}
    /\ born' = [born EXCEPT ![p] = @ + 1]
    /\ UNCHANGED boot

GroupOf(pgid) == {p \in procs : p.group = pgid}
Killed(pgid) == procs' = procs \ GroupOf(pgid) /\ UNCHANGED <<born, boot>>

StrangerBegins ==
    /\ \E p \in FreePids : Begins(p, "stranger", 0)
    /\ UNCHANGED <<at, todo, attemptVars, diskVars, gap, accidents>>

(* A leader, of whatever kind, starts one more process in its group, which    *)
(* may outlive it.                                                            *)
Forks ==
    /\ \E b \in procs, p \in FreePids :
        /\ GroupOf(b.pid) = {b}
        /\ procs' = procs \cup {Process(p, b.group, b.role, b.attempt, b.noted)}
        /\ born' = [born EXCEPT ![p] = @ + 1]
    /\ UNCHANGED <<boot, at, todo, attemptVars, diskVars, gap, accidents>>

(* What a benchmark started writes its result where it was told to. *)
Writes ==
    /\ unit.there
    /\ \E b \in procs :
        /\ b.role = "benchmark"
        /\ unit' = [unit EXCEPT !.result = b.attempt]
    /\ UNCHANGED <<machineVars, at, todo, attemptVars, record, decided, gap, accidents>>

Exits ==
    /\ \E p \in procs : procs' = procs \ {p}
    /\ UNCHANGED <<born, boot, at, todo, attemptVars, diskVars, gap, accidents>>

-----------------------------------------------------------------------------
(* The ledger and its reaper. *)

Entry(g) == [pgid |-> g.pid, start |-> g.start, boot |-> boot]

(* Slips: a group without its leader is over; a boot's ids are another's. *)
LedLive(g) == g.boot = boot /\ \E p \in procs : p.pid = g.pgid /\ p.start = g.start
AnyBoot(g) == (\A p \in procs : p.pid = g.pgid => p.start = g.start) /\ GroupOf(g.pgid) # {}

(* The group is the one recorded: this boot's, with the leader recorded or,   *)
(* with no leader, with members.                                              *)
StillRecorded(g) ==
    /\ g.boot = boot
    /\ \A p \in procs : p.pid = g.pgid => p.start = g.start
    /\ GroupOf(g.pgid) # {}

(* Slip: the ledger keeps the group started last. *)
StartedOver(g) ==
    /\ unit' = [unit EXCEPT !.ledger = <<Entry(g)>>]
    /\ procs' = {[p EXCEPT !.noted = @ \/ p.group = g.pid] : p \in procs}
    /\ NoAccident

(* Ledger.started; a write that fails is only logged. *)
Started(g) ==
    \/ /\ unit' = [unit EXCEPT !.ledger = Append(@, Entry(g))]
       /\ procs' = {[p EXCEPT !.noted = @ \/ p.group = g.pid] : p \in procs}
       /\ NoAccident
    \/ Accident /\ gap' = TRUE /\ UNCHANGED <<unit, procs>>

(* A ledger names a group once, so striking its entry is striking all it says  *)
(* of the group.                                                              *)
Struck(ledger, pgid) ==
    IF \E i \in DOMAIN ledger : ledger[i].pgid = pgid
    THEN LET place == CHOOSE i \in DOMAIN ledger : ledger[i].pgid = pgid
         IN  SubSeq(ledger, 1, place - 1) \o SubSeq(ledger, place + 1, Len(ledger))
    ELSE ledger

(* Ledger.ended. *)
Ended(g) ==
    \/ /\ unit' = [unit EXCEPT !.ledger = Struck(@, g.pid)]
       /\ NoAccident
    \/ Accident /\ UNCHANGED <<unit, gap>>

(* The newest group first. *)
Reaps ==
    /\ at \in {"reaping", "rereaping"} /\ todo # <<>>
    /\ LET g == todo[Len(todo)]
       IN  IF StillRecorded(g) THEN Killed(g.pgid) ELSE UNCHANGED machineVars
    /\ todo' = SubSeq(todo, 1, Len(todo) - 1)
    /\ UNCHANGED <<at, attemptVars, diskVars, gap, accidents>>

Reaped ==
    /\ at \in {"reaping", "rereaping"} /\ todo = <<>>
    /\ unit' = [unit EXCEPT !.ledger = <<>>]
    /\ Goes(IF at = "reaping" THEN "idle" ELSE "moving")
    /\ UNCHANGED <<machineVars, attemptVars, record, decided, gap, accidents>>

-----------------------------------------------------------------------------
(* The orchestrator. *)

(* On start, holding the store's lock: the ledgers of undecided duels. *)
Starts ==
    /\ at = "down" /\ ~decided
    /\ at' = "reaping" /\ todo' = unit.ledger
    /\ UNCHANGED <<machineVars, attemptVars, diskVars, gap, accidents>>

(* run_side comes to the unit; a directory is an interrupted attempt's. *)
ComesToUnit ==
    /\ at = "idle" /\ record = Unplayed /\ attempt < MaxAttempts
    /\ IF unit.there THEN at' = "rereaping" /\ todo' = unit.ledger ELSE Goes("serving")
    /\ UNCHANGED <<machineVars, attemptVars, diskVars, gap, accidents>>

MovesAside ==
    /\ at = "moving"
    /\ unit' = NoUnit
    /\ Goes("serving")
    /\ UNCHANGED <<machineVars, attemptVars, record, decided, gap, accidents>>

StartsPolicy ==
    /\ at = "serving"
    /\ \E p \in FreePids :
        /\ Begins(p, "policy", attempt + 1)
        /\ policy' = [pid |-> p, start |-> born[p] + 1]
    /\ attempt' = attempt + 1
    /\ unit' = [unit EXCEPT !.there = TRUE]
    /\ Goes("notingPolicy")
    /\ UNCHANGED <<bench, got, leaving, record, decided, gap, accidents>>

NotesPolicy ==
    /\ at = "notingPolicy"
    /\ Started(policy)
    /\ Goes("served")
    /\ UNCHANGED <<born, boot, attemptVars, record, decided>>

(* The policy did not listen, took its whole budget to start, or the benchmark *)
(* could not be started; or the attempt is interrupted here.                   *)
GoesWithout ==
    /\ at \in {"served", "cleared"}
    /\ leaving' \in BOOLEAN
    /\ Goes("stopping")
    /\ UNCHANGED <<machineVars, policy, bench, got, attempt, diskVars, gap, accidents>>

ClearsStale ==
    /\ at = "served"
    /\ unit' = [unit EXCEPT !.result = 0]
    /\ Goes("cleared")
    /\ UNCHANGED <<machineVars, attemptVars, record, decided, gap, accidents>>

StartsBenchmark ==
    /\ at = "cleared"
    /\ \E p \in FreePids :
        /\ Begins(p, "benchmark", attempt)
        /\ bench' = [pid |-> p, start |-> born[p] + 1]
    /\ Goes("notingBench")
    /\ UNCHANGED <<policy, got, leaving, attempt, diskVars, gap, accidents>>

NotesBenchmark ==
    /\ at = "notingBench"
    /\ Started(bench)
    /\ Goes("running")
    /\ UNCHANGED <<born, boot, attemptVars, record, decided>>

(* proc.wait returns: the benchmark ended by itself, and its pid is free. *)
Waits ==
    /\ at = "running"
    /\ \A p \in procs : p.pid # bench.pid
    /\ Goes("waited")
    /\ UNCHANGED <<machineVars, attemptVars, diskVars, gap, accidents>>

(* The wait is over - the benchmark's end, its timeout or an interruption -   *)
(* and its whole group is killed, by its number; what is left is waited for.  *)
KillsBenchmark ==
    /\ at \in {"running", "waited"}
    /\ Killed(bench.pid)
    /\ leaving' \in BOOLEAN
    /\ Goes("killed")
    /\ UNCHANGED <<policy, bench, got, attempt, diskVars, gap, accidents>>

StrikesBenchmark ==
    /\ at = "killed" /\ bench # NoGroup
    /\ Ended(bench)
    /\ bench' = NoGroup
    /\ Goes("killed")
    /\ UNCHANGED <<machineVars, policy, got, leaving, attempt, record, decided>>

(* The result of a benchmark that exited 0, and nothing of any other. *)
ReadsResult ==
    /\ at = "killed" /\ bench = NoGroup
    /\ got' \in IF leaving THEN {0} ELSE {0, unit.result}
    /\ Goes("stopping")
    /\ UNCHANGED <<machineVars, policy, bench, leaving, attempt, diskVars, gap, accidents>>

(* _wait_listening or _died finds that the policy's process ended, and its pid *)
(* is free.                                                                   *)
SeesPolicyEnd ==
    /\ at = "stopping"
    /\ \A p \in procs : p.pid # policy.pid
    /\ Goes("seen")
    /\ UNCHANGED <<machineVars, attemptVars, diskVars, gap, accidents>>

StopsPolicy ==
    /\ at \in {"stopping", "seen"}
    /\ Killed(policy.pid)
    /\ Goes("stopped")
    /\ UNCHANGED <<attemptVars, diskVars, gap, accidents>>

StrikesPolicy ==
    /\ at = "stopped"
    /\ Ended(policy)
    /\ policy' = NoGroup
    /\ Goes(IF leaving THEN "down" ELSE "recording")
    /\ leaving' = FALSE
    /\ UNCHANGED <<machineVars, bench, got, attempt, record, decided>>

Records ==
    /\ at = "recording"
    /\ record' = [author |-> got, attempt |-> attempt]
    /\ got' = 0
    /\ Goes("idle")
    /\ UNCHANGED <<machineVars, policy, bench, leaving, attempt, unit, decided, gap, accidents>>

Decides ==
    /\ at = "idle" /\ record # Unplayed
    /\ decided' = TRUE
    /\ Goes("down")
    /\ UNCHANGED <<machineVars, attemptVars, unit, record, gap, accidents>>

(* What the orchestrator's end forgets. *)
Forgets ==
    /\ at' = "down" /\ todo' = <<>>
    /\ policy' = NoGroup /\ bench' = NoGroup /\ got' = 0 /\ leaving' = FALSE
    /\ UNCHANGED <<attempt, diskVars>>

KillsOrchestrator ==
    /\ at # "down"
    /\ Accident /\ Forgets
    /\ gap' = (gap \/ at \in {"notingPolicy", "notingBench"})
    /\ UNCHANGED machineVars

Boots ==
    /\ Accident /\ Forgets
    /\ procs' = {} /\ born' = [p \in Pids |-> 0] /\ boot' = boot + 1
    /\ UNCHANGED gap

GroupsNext ==
    \/ StrangerBegins \/ Forks \/ Writes \/ Exits \/ Boots \/ KillsOrchestrator
    \/ Starts \/ Reaps \/ Reaped \/ ComesToUnit \/ MovesAside
    \/ StartsPolicy \/ NotesPolicy \/ GoesWithout \/ ClearsStale
    \/ StartsBenchmark \/ NotesBenchmark \/ Waits \/ KillsBenchmark \/ StrikesBenchmark
    \/ ReadsResult \/ SeesPolicyEnd \/ StopsPolicy \/ StrikesPolicy \/ Records \/ Decides

-----------------------------------------------------------------------------

Strangers == {p \in procs : p.role = "stranger"}

(* The entry the reaper looks at names p's group, whose leader is gone. *)
LooksLeft(p) ==
    /\ at \in {"reaping", "rereaping"} /\ todo # <<>>
    /\ todo[Len(todo)].pgid = p.group /\ todo[Len(todo)].boot = boot
    /\ \A q \in procs : q.pid # p.group

(* The number of p's group was a group's that the orchestrator has waited for. *)
WaitedFor(p) ==
    \/ at = "waited" /\ p.group = bench.pid
    \/ at = "seen" /\ p.group = policy.pid

(* Whatever pids are given again, and whatever a stale ledger names after a   *)
(* boot or a write of it that failed, a step of the orchestrator ends a       *)
(* process it did not start (orphans.py:20-23, subprocess_runner.py:222) in   *)
(* two cases only, in both because the number was given again: this boot's    *)
(* ledger names its group and the group's leader has ended (orphans.py:133),  *)
(* or the number is that of a group whose leader was waited for before it is  *)
(* killed (subprocess_runner.py:218, local_runtime.py:271).                   *)
StrangersLeft ==
    [][<<at, todo>>' # <<at, todo>> /\ boot' = boot =>
          \A p \in Strangers : p \in procs' \/ LooksLeft(p) \/ WaitedFor(p)]_groupVars

(* orphans.py:20: "A process group is killed only while it is still the one   *)
(* recorded": the reaper ends no process the orchestrator did not start.      *)
OnlyRecordedReaped ==
    [][at' = at /\ todo' # todo => Strangers \subseteq Strangers']_groupVars

(* While an attempt is played nothing of an earlier one runs, unless the      *)
(* orchestrator was killed, or its ledger's write failed, between the group's *)
(* start and the ledger's note of it (orphans.py:13-18).                      *)
OneAttemptAtATime ==
    at \notin {"down", "reaping", "idle", "rereaping", "moving", "serving"} =>
        \A p \in procs \ Strangers : p.attempt = attempt \/ ~p.noted

(* Nothing an orphan wrote is read as the unit's result (orphans.py:18), but  *)
(* for the same gap.                                                          *)
ReadsOwnResult == record.author \in {0, record.attempt} \/ gap

=============================================================================
