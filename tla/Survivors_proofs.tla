-------------------------- MODULE Survivors_proofs --------------------------
(***************************************************************************)
(* What outlives a killed orchestrator, for any pids, programs, pid        *)
(* namespaces, attempts, containers and accidents: no reaper ends what is  *)
(* not its own to end, an attempt is played alone and reads its own        *)
(* result, and no container, nor a mount, is left behind uncounted.        *)
(***************************************************************************)
EXTENDS Survivors, FiniteSetTheorems, TLAPS

Stages == {"down", "up", "reaping", "releasing", "mounted", "serving", "closing"}

(* ContainersTypeOK but for what names of a container or of a process say. *)
ContainersShape ==
    /\ space \in [Actors -> Spaces]
    /\ process \in [Actors -> Owners]
    /\ starts \in [Spaces \X PidsOf -> 0 .. MaxStarts]
    /\ step \in [Actors -> Stages]
    /\ listed \in [Actors -> SUBSET Containers]
    /\ owed \in [Actors -> SUBSET Containers]
    /\ victim \in [Actors -> SUBSET Containers]
    /\ held \in [Actors -> 0 .. MaxContainers]
    /\ containers \subseteq Containers
    /\ mounted \subseteq Dirs
    /\ serial \in 0 .. MaxContainers /\ mishaps \in 0 .. MaxMishaps

(* A process that was started, now or before: none to come has its identity. *)
WasStarted(owner) ==
    /\ owner.pidns \in Spaces /\ owner.pid \in PidsOf
    /\ owner.start \in 1 .. starts[<<owner.pidns, owner.pid>>]

ProcessesInv ==
    /\ \A a \in Actors : (step[a] = "down") <=> (process[a] = Nobody)
    /\ \A a \in Actors : process[a] # Nobody => /\ process[a].pidns = space[a]
                                                /\ WasStarted(process[a])
    /\ \A a, b \in Actors : (process[a] = process[b] /\ process[a] # Nobody) => a = b

(* A container that runs, or that some reaper still has in its lists. *)
Seen(c) == c \in containers \/ \E a \in Actors : c \in listed[a] \cup owed[a] \cup victim[a]

OwnersInv == \A c : Seen(c) => WasStarted(c.owner)

(* A name is given once; the container a process is at is its own. *)
NamesInv ==
    /\ \A c, d : (Seen(c) /\ Seen(d) /\ c.name = d.name) => c = d
    /\ \A c : Seen(c) => (c.name <= serial /\ (c.dir[1] \in Checks \/ c.dir[2] = c.name))
    /\ \A a \in Actors : /\ held[a] <= serial
                         /\ (held[a] # NoContainer) <=> (step[a] \in {"mounted", "serving", "closing"})
    /\ \A a, b \in Actors : (held[a] = held[b] /\ held[a] # NoContainer) => a = b
    /\ \A a \in Actors : \A c : (Seen(c) /\ c.name = held[a]) =>
          step[a] # "mounted" /\ c.owner = process[a] /\ c.dir = DirOf(a, held[a])

(* What a reaper owes and has reaped are containers of ended processes, and    *)
(* what it owes is still listed while it runs.                                 *)
ReaperInv(a) ==
    /\ victim[a] # {} => step[a] = "releasing"
    /\ \A c, d \in victim[a] : c = d
    /\ \A c \in victim[a] : ~Alive(c.owner)
    /\ \A c \in owed[a] : ~Alive(c.owner) /\ c.owner.pidns = space[a]
    /\ owed[a] \cap containers \subseteq listed[a]
    /\ step[a] \notin {"reaping", "releasing"} => listed[a] = {}

ReapersInv == \A a \in Actors : ReaperInv(a)

MountsInv == IsFiniteSet(mounted) /\ MountsBounded

ContainersInv ==
    ContainersShape /\ ProcessesInv /\ OwnersInv /\ NamesInv /\ ReapersInv /\ MountsInv

ProcessStep(a) == Launches(a) \/ Leaves(a) \/ IsKilled(a)

ReaperStep(a) ==
    \/ Lists(a) \/ ReapsNext(a) \/ ReleasesVictim(a) \/ Prepares(a)
    \/ PrepareFails(a) \/ Runs(a) \/ Closes(a) \/ Closed(a)

-----------------------------------------------------------------------------
(* Helpers: a directory is a pair, an owner's identity its three parts. *)
LEMMA DirIsDir ==
    ASSUME NEW a \in Actors, NEW n \in 0 .. MaxContainers
    PROVE  /\ DirOf(a, n) \in Dirs
           /\ DirOf(a, n)[1] = a /\ (a \notin Checks => DirOf(a, n)[2] = n)
  BY ContainersAssumption DEF DirOf, Dirs

LEMMA SamePidAndStart ==
    ASSUME NEW o \in Owners, NEW q \in Owners, o.pid = q.pid, o.start = q.start, o.pidns = q.pidns
    PROVE  o = q
  BY DEF Owners

LEMMA Typed ==
    ASSUME ContainersShape
    PROVE  /\ \A c : Seen(c) => (c \in Containers /\ c.owner \in Owners /\ c.dir \in Dirs
                                 /\ c.name \in 1 .. MaxContainers)
           /\ \A a \in Actors : process[a] \in Owners /\ space[a] \in Spaces
           /\ Nobody.start = 0 /\ Nobody \in Owners
  BY ContainersAssumption DEF ContainersShape, Seen, Containers, Owners, Nobody

LEMMA ContainersShapeStep ==
    ASSUME ContainersInv, NEW a \in Actors, ProcessStep(a) \/ ReaperStep(a)
    PROVE  ContainersShape'
<1>0. ContainersShape
  BY DEF ContainersInv
<1> USE <1>0, ContainersAssumption DEF Mishap, At, Steps, ContainersShape, Stages, reaperVars, dockerVars,
            processVars
<1>1. CASE Launches(a)
  <2>1. PICK p \in PidsOf :
           LET slot == <<space[a], p>>
           IN  /\ starts[slot] < MaxStarts
               /\ starts' = [starts EXCEPT ![slot] = @ + 1]
               /\ process' = [process EXCEPT ![a] = [pid |-> p, start |-> starts[slot] + 1,
                                                     pidns |-> space[a]]]
    BY <1>1 DEF Launches
  <2>2. space[a] \in Spaces /\ <<space[a], p>> \in Spaces \X PidsOf
    OBVIOUS
  <2>3. starts[<<space[a], p>>] + 1 \in 0 .. MaxStarts
    BY <2>1, <2>2
  <2>4. [pid |-> p, start |-> starts[<<space[a], p>>] + 1, pidns |-> space[a]] \in Owners
    BY <2>2, <2>3 DEF Owners
  <2>5. process' \in [Actors -> Owners]
    BY <2>1, <2>4
  <2>6. starts' \in [Spaces \X PidsOf -> 0 .. MaxStarts]
    BY <2>1, <2>3
  <2> QED
    BY <1>1, <2>5, <2>6 DEF Launches
<1>2. CASE Leaves(a)
  <2>1. process' \in [Actors -> Owners]
    BY <1>2, Typed DEF Leaves
  <2> QED
    BY <1>2, <2>1 DEF Leaves
<1>3. CASE IsKilled(a)
  <2>1. process' \in [Actors -> Owners]
    BY <1>3, Typed DEF IsKilled
  <2> QED
    BY <1>3, <2>1 DEF IsKilled, NoContainer
<1>4. CASE Lists(a)
  BY <1>4 DEF Lists
<1>5. CASE ReapsNext(a)
  <2>1. PICK c \in listed[a] :
           /\ listed' = [listed EXCEPT ![a] = @ \ {c}]
           /\ IF IsOrphan(a, c)
              THEN /\ \/ Removed(c) /\ UNCHANGED owed
                      \/ NotRemoved /\ owed' = [owed EXCEPT ![a] = @ \ {c}]
                   /\ victim' = [victim EXCEPT ![a] = {c}]
                   /\ Steps(a, "releasing")
              ELSE UNCHANGED <<containers, owed, victim, step, mishaps>>
    BY <1>5 DEF ReapsNext
  <2>2. c \in Containers
    OBVIOUS
  <2>3. UNCHANGED <<processVars, held, serial, mounted>>
    BY <1>5 DEF ReapsNext
  <2>4. containers' \subseteq Containers /\ mishaps' \in 0 .. MaxMishaps
    BY <2>1 DEF Removed, NotRemoved
  <2>5. /\ listed' \in [Actors -> SUBSET Containers] /\ owed' \in [Actors -> SUBSET Containers]
        /\ victim' \in [Actors -> SUBSET Containers] /\ step' \in [Actors -> Stages]
    BY <2>1, <2>2
  <2> QED
    BY <2>3, <2>4, <2>5
<1>6. CASE ReleasesVictim(a)
  <2>1. /\ mounted' \subseteq Dirs /\ mishaps' \in 0 .. MaxMishaps
    BY <1>6 DEF ReleasesVictim, Releases
  <2> QED
    BY <1>6, <2>1 DEF ReleasesVictim
<1>7. CASE Prepares(a)
  <2>1. NextName \in 0 .. MaxContainers /\ DirOf(a, NextName) \in Dirs
    BY <1>7, DirIsDir DEF Prepares, NextName
  <2> QED
    BY <1>7, <2>1 DEF Prepares, NextName
<1>8. CASE PrepareFails(a)
  <2>1. NextName \in 0 .. MaxContainers /\ DirOf(a, NextName) \in Dirs
    BY <1>8, DirIsDir DEF PrepareFails, NextName
  <2> QED
    BY <1>8, <2>1 DEF PrepareFails, NextName
<1>9. CASE Runs(a)
  <2>1. held[a] # NoContainer
    BY <1>9 DEF Runs, ContainersInv, NamesInv
  <2>2. [name |-> held[a], owner |-> process[a], dir |-> DirOf(a, held[a])] \in Containers
    BY <2>1, DirIsDir DEF Containers, NoContainer
  <2> QED
    BY <1>9, <2>2 DEF Runs
<1>10. CASE Closes(a)
  BY <1>10 DEF Closes, NotRemoved
<1>11. CASE Closed(a)
  <2>1. /\ mounted' \subseteq Dirs /\ mishaps' \in 0 .. MaxMishaps
    BY <1>11 DEF Closed, Releases
  <2> QED
    BY <1>11, <2>1 DEF Closed, NoContainer
<1> QED
  BY <1>1, <1>2, <1>3, <1>4, <1>5, <1>6, <1>7, <1>8, <1>9, <1>10, <1>11 DEF ProcessStep, ReaperStep

-----------------------------------------------------------------------------
(* Frames: what each step of a program leaves alone. *)
LEMMA ReapsOne ==
    ASSUME ContainersInv, NEW a \in Actors, ReapsNext(a)
    PROVE  \E c \in listed[a] :
              /\ step[a] = "reaping"
              /\ listed' = [listed EXCEPT ![a] = @ \ {c}]
              /\ UNCHANGED <<processVars, held, serial, mounted>>
              /\ \/ /\ IsOrphan(a, c) /\ containers' = {d \in containers : d.name # c.name}
                    /\ UNCHANGED owed
                    /\ victim' = [victim EXCEPT ![a] = {c}]
                    /\ step' = [step EXCEPT ![a] = "releasing"]
                 \/ /\ IsOrphan(a, c) /\ UNCHANGED containers
                    /\ owed' = [owed EXCEPT ![a] = @ \ {c}]
                    /\ victim' = [victim EXCEPT ![a] = {c}]
                    /\ step' = [step EXCEPT ![a] = "releasing"]
                 \/ ~IsOrphan(a, c) /\ UNCHANGED <<containers, owed, victim, step>>
  BY DEF ReapsNext, Removed, NotRemoved, Steps, At

(* Only docker run shows a new container, and only a start makes a new process. *)
LEMMA SeenBefore ==
    ASSUME ContainersInv, NEW a \in Actors, ProcessStep(a) \/ ReaperStep(a), ~Runs(a),
           NEW c, Seen(c)'
    PROVE  Seen(c)
<1>0. ContainersShape
  BY DEF ContainersInv
<1> USE <1>0 DEF ContainersShape, Seen
<1>1. CASE Launches(a) \/ Leaves(a)
  BY <1>1 DEF Launches, Leaves, reaperVars, dockerVars
<1>2. CASE IsKilled(a)
  BY <1>2 DEF IsKilled, dockerVars
<1>3. CASE Lists(a)
  BY <1>3 DEF Lists, dockerVars
<1>4. CASE ReapsNext(a)
  <2>1. PICK d \in listed[a] :
           /\ listed' = [listed EXCEPT ![a] = @ \ {d}]
           /\ containers' \subseteq containers
           /\ owed' = owed \/ owed' = [owed EXCEPT ![a] = @ \ {d}]
           /\ victim' = victim \/ victim' = [victim EXCEPT ![a] = {d}]
    BY <1>4, ReapsOne
  <2> QED
    BY <2>1
<1>5. CASE ReleasesVictim(a)
  BY <1>5 DEF ReleasesVictim, dockerVars
<1>6. CASE Prepares(a) \/ PrepareFails(a) \/ Closed(a)
  BY <1>6 DEF Prepares, PrepareFails, Closed, reaperVars, dockerVars
<1>7. CASE Closes(a)
  BY <1>7 DEF Closes, NotRemoved
<1> QED
  BY <1>1, <1>2, <1>3, <1>4, <1>5, <1>6, <1>7 DEF ProcessStep, ReaperStep

LEMMA ReaperKeepsProcesses ==
    ASSUME NEW a \in Actors, ReaperStep(a)
    PROVE  UNCHANGED processVars
  BY DEF ReaperStep, Lists, ReapsNext, ReleasesVictim, Prepares, PrepareFails, Runs, Closes, Closed

(* A process that is started is one that never was. *)
LEMMA LaunchIsNew ==
    ASSUME ContainersInv, NEW a \in Actors, Launches(a)
    PROVE  \E p \in PidsOf :
              LET slot == <<space[a], p>>
                  new == [pid |-> p, start |-> starts[slot] + 1, pidns |-> space[a]]
              IN  /\ process' = [process EXCEPT ![a] = new]
                  /\ starts' = [starts EXCEPT ![slot] = starts[slot] + 1]
                  /\ new \in Owners /\ new # Nobody
                  /\ starts[slot] + 1 \in 1 .. MaxStarts
                  /\ space[a] \in Spaces
                  /\ \A o : WasStarted(o) => o # new
                  /\ step[a] = "down" /\ step' = [step EXCEPT ![a] = "up"]
                  /\ UNCHANGED <<space, reaperVars, held, dockerVars, mounted, mishaps>>
<1>0. ContainersShape
  BY DEF ContainersInv
<1>1. PICK p \in PidsOf :
         LET slot == <<space[a], p>>
         IN  /\ starts[slot] < MaxStarts
             /\ starts' = [starts EXCEPT ![slot] = @ + 1]
             /\ process' = [process EXCEPT ![a] = [pid |-> p, start |-> starts[slot] + 1,
                                                   pidns |-> space[a]]]
  BY DEF Launches
<1>2. /\ space[a] \in Spaces /\ <<space[a], p>> \in Spaces \X PidsOf
      /\ starts[<<space[a], p>>] \in 0 .. MaxStarts
  BY <1>0 DEF ContainersShape
<1>3. starts[<<space[a], p>>] + 1 \in 1 .. MaxStarts
  BY <1>1, <1>2, ContainersAssumption
<1>4. PICK new : new = [pid |-> p, start |-> starts[<<space[a], p>>] + 1, pidns |-> space[a]]
  OBVIOUS
<1>5. /\ new.pid = p /\ new.start = starts[<<space[a], p>>] + 1 /\ new.pidns = space[a]
      /\ new \in Owners
  BY <1>2, <1>3, <1>4 DEF Owners
<1>6. new # Nobody
  BY <1>2, <1>5 DEF Nobody
<1>7. \A o : WasStarted(o) => o # new
  <2>1. SUFFICES ASSUME WasStarted(new)
                 PROVE  FALSE
    OBVIOUS
  <2> QED
    BY <1>2, <1>5, <2>1 DEF WasStarted
<1> QED
  BY <1>1, <1>2, <1>3, <1>4, <1>5, <1>6, <1>7 DEF Launches, At, Steps

LEMMA StartedStays ==
    ASSUME ContainersInv, NEW a \in Actors, ProcessStep(a) \/ ReaperStep(a), NEW o, WasStarted(o)
    PROVE  WasStarted(o)'
<1>1. CASE Launches(a)
  <2>1. PICK p \in PidsOf : /\ <<space[a], p>> \in Spaces \X PidsOf
                            /\ starts' = [starts EXCEPT ![<<space[a], p>>] = starts[<<space[a], p>>] + 1]
    BY <1>1, LaunchIsNew
  <2>2. /\ starts \in [Spaces \X PidsOf -> 0 .. MaxStarts]
        /\ <<o.pidns, o.pid>> \in Spaces \X PidsOf
    BY DEF ContainersInv, ContainersShape, WasStarted
  <2>3. starts'[<<o.pidns, o.pid>>] >= starts[<<o.pidns, o.pid>>] /\ starts'[<<o.pidns, o.pid>>] \in Nat
    BY <2>1, <2>2, ContainersAssumption
  <2>4. starts[<<o.pidns, o.pid>>] \in Nat
    BY <2>2, ContainersAssumption
  <2> QED
    BY <2>3, <2>4 DEF WasStarted
<1>2. CASE ~Launches(a)
  <2>1. starts' = starts
    BY <1>2, ReaperKeepsProcesses DEF ProcessStep, Leaves, IsKilled, processVars
  <2> QED
    BY <2>1 DEF WasStarted
<1> QED
  BY <1>1, <1>2

(* A process that has ended does not come back, whoever is given its pid. *)
LEMMA GoneForGood ==
    ASSUME ContainersInv, NEW a \in Actors, ProcessStep(a) \/ ReaperStep(a),
           NEW o \in Owners, WasStarted(o), ~Alive(o)
    PROVE  ~Alive(o)'
<1>0. process \in [Actors -> Owners]
  BY DEF ContainersInv, ContainersShape
<1>1. CASE Launches(a)
  <2>1. \E new : new # o /\ process' = [process EXCEPT ![a] = new]
    <3>1. PICK p \in PidsOf :
             LET new == [pid |-> p, start |-> starts[<<space[a], p>>] + 1, pidns |-> space[a]]
             IN  process' = [process EXCEPT ![a] = new] /\ \A w : WasStarted(w) => w # new
      BY <1>1, LaunchIsNew
    <3> QED
      BY <3>1
  <2> QED
    BY <1>0, <2>1 DEF Alive
<1>2. CASE Leaves(a) \/ IsKilled(a)
  <2>1. process' = [process EXCEPT ![a] = Nobody]
    BY <1>2 DEF Leaves, IsKilled
  <2>2. o # Nobody
    <3>1. o.start \in 1 .. starts[<<o.pidns, o.pid>>] /\ starts[<<o.pidns, o.pid>>] \in Nat
      BY ContainersAssumption DEF WasStarted, ContainersInv, ContainersShape
    <3> QED
      BY <3>1 DEF Nobody
  <2> QED
    BY <1>0, <2>1, <2>2 DEF Alive
<1>3. CASE ReaperStep(a)
  BY <1>3, ReaperKeepsProcesses DEF Alive, processVars
<1> QED
  BY <1>1, <1>2, <1>3 DEF ProcessStep

(* container.py, Owner.gone, asked in the owner's namespace of a process that   *)
(* was started: whether it has ended.                                           *)
LEMMA GoneIsEnded ==
    ASSUME ContainersInv, NEW a \in Actors, NEW o \in Owners, o.pidns = space[a]
    PROVE  Gone(o, space[a]) <=> ~Alive(o)
<1>0. process \in [Actors -> Owners]
  BY DEF ContainersInv, ContainersShape
<1>1. ASSUME Alive(o)
      PROVE  ~Gone(o, space[a])
  BY <1>0, <1>1 DEF Alive, Gone
<1>2. ASSUME ~Gone(o, space[a])
      PROVE  Alive(o)
  <2>1. PICK b \in Actors : process[b].pidns = space[a] /\ process[b].pid = o.pid
                            /\ process[b].start = o.start
    BY <1>2 DEF Gone
  <2>2. process[b] = o
    BY <1>0, <2>1, SamePidAndStart
  <2> QED
    BY <2>2 DEF Alive
<1> QED
  BY <1>1, <1>2

-----------------------------------------------------------------------------
LEMMA ProcessesStep ==
    ASSUME ContainersInv, NEW a \in Actors, ProcessStep(a) \/ ReaperStep(a)
    PROVE  ProcessesInv'
<1>0. ContainersShape /\ ProcessesInv
  BY DEF ContainersInv
<1> USE <1>0 DEF ContainersShape
<1>1. CASE Launches(a)
  <2>1. PICK p \in PidsOf :
           LET slot == <<space[a], p>>
               new == [pid |-> p, start |-> starts[slot] + 1, pidns |-> space[a]]
           IN  /\ process' = [process EXCEPT ![a] = new]
               /\ starts' = [starts EXCEPT ![slot] = starts[slot] + 1]
               /\ new # Nobody
               /\ starts[slot] + 1 \in 1 .. MaxStarts
               /\ space[a] \in Spaces
               /\ \A o : WasStarted(o) => o # new
               /\ step[a] = "down" /\ step' = [step EXCEPT ![a] = "up"]
               /\ space' = space
    BY <1>1, LaunchIsNew
  <2>2. PICK new : new = [pid |-> p, start |-> starts[<<space[a], p>>] + 1, pidns |-> space[a]]
    OBVIOUS
  <2>3. /\ process'[a] = new /\ new # Nobody /\ new.pidns = space[a] /\ new.pid = p
        /\ new.start = starts[<<space[a], p>>] + 1
        /\ \A b \in Actors : b # a => process'[b] = process[b]
        /\ \A b \in Actors : step'[b] = IF b = a THEN "up" ELSE step[b]
    BY <2>1, <2>2
  <2>4. WasStarted(new)'
    <3>1. starts'[<<space[a], p>>] = new.start
      BY <2>1, <2>3
    <3> QED
      BY <2>1, <2>3, <3>1 DEF WasStarted
  <2>5. ASSUME NEW b \in Actors, b # a, process[b] # Nobody
        PROVE  process[b].pidns = space[b] /\ WasStarted(process[b])' /\ process[b] # new
    <3>1. process[b].pidns = space[b] /\ WasStarted(process[b])
      BY <2>5 DEF ProcessesInv
    <3>2. PICK o : o = process[b]
      OBVIOUS
    <3>3. WasStarted(o)'
      BY <1>1, <3>1, <3>2, StartedStays
    <3>4. process[b] # new
      BY <2>1, <2>2, <3>1
    <3>5. process'[b] = o
      BY <2>3, <2>5, <3>2
    <3> QED
      BY <3>1, <3>2, <3>3, <3>4, <3>5 DEF WasStarted
  <2>6. \A b \in Actors : (step'[b] = "down") <=> (process'[b] = Nobody)
    BY <2>3 DEF ProcessesInv
  <2>7. \A b \in Actors : process'[b] # Nobody => /\ process'[b].pidns = space'[b]
                                                  /\ WasStarted(process[b])'
    <3>1. SUFFICES ASSUME NEW b \in Actors, process'[b] # Nobody
                   PROVE  process'[b].pidns = space'[b] /\ WasStarted(process[b])'
      OBVIOUS
    <3>2. CASE b = a
      BY <2>1, <2>3, <2>4, <3>2 DEF WasStarted
    <3>3. CASE b # a
      BY <2>1, <2>3, <2>5, <3>1, <3>3 DEF WasStarted
    <3> QED
      BY <3>2, <3>3
  <2>8. \A b, d \in Actors : (process'[b] = process'[d] /\ process'[b] # Nobody) => b = d
    BY <2>3, <2>5 DEF ProcessesInv
  <2> QED
    BY <2>6, <2>7, <2>8 DEF ProcessesInv
<1>2. CASE Leaves(a) \/ IsKilled(a)
  <2>1. /\ process' = [process EXCEPT ![a] = Nobody] /\ step' = [step EXCEPT ![a] = "down"]
        /\ UNCHANGED <<space, starts>>
    BY <1>2 DEF Leaves, IsKilled, Steps
  <2> QED
    BY <2>1 DEF ProcessesInv, WasStarted
<1>3. CASE ReaperStep(a)
  <2>1. UNCHANGED <<space, process, starts>>
    BY <1>3, ReaperKeepsProcesses DEF processVars
  <2>2. \A b \in Actors : (step'[b] = "down") <=> (step[b] = "down")
    <3>1. CASE ReapsNext(a)
      BY <3>1, ReapsOne
    <3>2. CASE ~ReapsNext(a)
      BY <1>3, <3>2 DEF ReaperStep, Lists, ReleasesVictim, Prepares, PrepareFails, Runs, Closes, Closed,
                        Steps, At
    <3> QED
      BY <3>1, <3>2
  <2> QED
    BY <2>1, <2>2 DEF ProcessesInv, WasStarted
<1> QED
  BY <1>1, <1>2, <1>3 DEF ProcessStep

LEMMA OwnersStep ==
    ASSUME ContainersInv, NEW a \in Actors, ProcessStep(a) \/ ReaperStep(a)
    PROVE  OwnersInv'
<1>1. SUFFICES ASSUME NEW c, Seen(c)'
               PROVE  WasStarted(c.owner)'
  BY DEF OwnersInv
<1>2. ContainersShape /\ OwnersInv /\ ProcessesInv
  BY DEF ContainersInv
<1>3. WasStarted(c.owner)
  <2>1. CASE ~Runs(a)
    BY <1>1, <1>2, <2>1, SeenBefore DEF OwnersInv
  <2>2. CASE Runs(a)
    <3>1. \/ Seen(c)
          \/ c = [name |-> held[a], owner |-> process[a], dir |-> DirOf(a, held[a])]
      BY <1>1, <2>2 DEF Runs, Seen, reaperVars
    <3>2. WasStarted(process[a])
      BY <1>2, <2>2 DEF Runs, At, ProcessesInv
    <3> QED
      BY <1>2, <3>1, <3>2 DEF OwnersInv
  <2> QED
    BY <2>1, <2>2
<1>4. PICK o : o = c.owner
  OBVIOUS
<1> QED
  BY <1>3, <1>4, StartedStays

LEMMA NamesStep ==
    ASSUME ContainersInv, NEW a \in Actors, ProcessStep(a) \/ ReaperStep(a)
    PROVE  NamesInv'
<1>0. ContainersShape /\ NamesInv /\ ProcessesInv
  BY DEF ContainersInv
<1>n. \A c : Seen(c) => c.name \in Nat \ {0}
  BY <1>0, Typed, ContainersAssumption
<1>h. \A b \in Actors : held[b] \in Nat
  BY <1>0, ContainersAssumption DEF ContainersShape
<1> USE <1>0, <1>n, <1>h DEF NoContainer
(* The steps that name no container and run none. *)
<1>1. ASSUME \A c : Seen(c)' => Seen(c), serial' \in {serial, serial + 1},
             \A b \in Actors : /\ b # a => held'[b] = held[b] /\ step'[b] = step[b]
                                           /\ process'[b] = process[b]
                               /\ held'[a] \in {held[a], NoContainer}
                               /\ held'[a] # NoContainer => process'[a] = process[a] /\ step'[a] # "mounted"
                               /\ (held'[a] # NoContainer) <=> (step'[a] \in {"mounted", "serving", "closing"})
      PROVE  NamesInv'
  <2>1. /\ \A c, d : (Seen(c)' /\ Seen(d)' /\ c.name = d.name) => c = d
        /\ \A c : Seen(c)' => (c.name <= serial' /\ (c.dir[1] \in Checks \/ c.dir[2] = c.name))
    <3>1. serial \in Nat
      BY ContainersAssumption DEF ContainersShape
    <3> QED
      BY <1>1, <3>1 DEF NamesInv
  <2>2. \A b \in Actors : /\ held'[b] <= serial'
                          /\ (held'[b] # NoContainer) <=> (step'[b] \in {"mounted", "serving", "closing"})
    <3>1. serial \in Nat
      BY ContainersAssumption DEF ContainersShape
    <3> QED
      BY <1>1, <3>1 DEF NamesInv
  <2>3. \A b, d \in Actors : (held'[b] = held'[d] /\ held'[b] # NoContainer) => b = d
    BY <1>1 DEF NamesInv
  <2>4. \A b \in Actors : \A c : (Seen(c)' /\ c.name = held'[b]) =>
           step'[b] # "mounted" /\ c.owner = process'[b] /\ c.dir = DirOf(b, held'[b])
    <3>1. SUFFICES ASSUME NEW b \in Actors, NEW c, Seen(c)', c.name = held'[b]
                   PROVE  step'[b] # "mounted" /\ c.owner = process'[b] /\ c.dir = DirOf(b, held'[b])
      OBVIOUS
    <3>2. Seen(c) /\ held'[b] # NoContainer /\ held'[b] = held[b] /\ process'[b] = process[b]
      BY <1>1, <3>1
    <3>3. step[b] # "mounted" /\ c.owner = process[b] /\ c.dir = DirOf(b, held[b])
      BY <3>1, <3>2 DEF NamesInv
    <3> QED
      BY <1>1, <3>2, <3>3
  <2> QED
    BY <2>1, <2>2, <2>3, <2>4 DEF NamesInv
<1>2. CASE Launches(a) \/ Leaves(a)
  <2>1. step[a] \in {"down", "up"} /\ held[a] = NoContainer
    BY <1>2 DEF Launches, Leaves, At, NamesInv
  <2>2. /\ held' = held /\ serial' = serial /\ step'[a] \in {"down", "up"}
        /\ \A b \in Actors : b # a => step'[b] = step[b] /\ process'[b] = process[b]
    BY <1>2 DEF Launches, Leaves, Steps, dockerVars, ContainersShape
  <2>3. \A c : Seen(c)' => Seen(c)
    BY <1>2, SeenBefore DEF ProcessStep, Runs, Launches, Leaves, At
  <2> QED
    BY <1>1, <2>1, <2>2, <2>3
<1>3. CASE IsKilled(a)
  <2>1. /\ held'[a] = NoContainer /\ serial' = serial /\ step'[a] = "down"
        /\ \A b \in Actors : b # a => step'[b] = step[b] /\ process'[b] = process[b] /\ held'[b] = held[b]
    BY <1>3 DEF IsKilled, Steps, dockerVars, ContainersShape
  <2>2. \A c : Seen(c)' => Seen(c)
    <3>1. ~Runs(a)
      BY <2>1, <1>3 DEF Runs, Steps, ContainersShape
    <3> QED
      BY <1>3, <3>1, SeenBefore DEF ProcessStep
  <2> QED
    BY <1>1, <2>1, <2>2
<1>4. CASE Lists(a) \/ ReapsNext(a) \/ ReleasesVictim(a) \/ PrepareFails(a)
  <2>1. /\ step[a] \in {"up", "reaping", "releasing"} /\ step'[a] \in {"up", "reaping", "releasing"}
        /\ held' = held /\ serial' \in {serial, serial + 1} /\ process' = process
        /\ \A b \in Actors : b # a => step'[b] = step[b]
    <3>1. CASE Lists(a)
      BY <3>1 DEF Lists, At, Steps, ContainersShape, dockerVars, processVars
    <3>2. CASE ReapsNext(a)
      BY <3>2, ReapsOne DEF ContainersShape, processVars
    <3>3. CASE ReleasesVictim(a)
      BY <3>3 DEF ReleasesVictim, At, Steps, ContainersShape, dockerVars, processVars
    <3>4. CASE PrepareFails(a)
      BY <3>4 DEF PrepareFails, At, Steps, ContainersShape, dockerVars, processVars
    <3> QED
      BY <1>4, <3>1, <3>2, <3>3, <3>4
  <2>2. held[a] = NoContainer
    BY <2>1 DEF NamesInv
  <2>3. \A c : Seen(c)' => Seen(c)
    BY <1>4, <2>1, SeenBefore DEF ReaperStep, Runs, At
  <2> QED
    BY <1>1, <2>1, <2>2, <2>3
<1>5. CASE Closes(a) \/ Closed(a)
  <2>1. /\ step[a] \in {"serving", "closing"}
        /\ \/ held' = held /\ step'[a] = "closing"
           \/ held' = [held EXCEPT ![a] = NoContainer] /\ step'[a] = "up"
        /\ serial' = serial /\ process' = process
        /\ \A b \in Actors : b # a => step'[b] = step[b]
    BY <1>5 DEF Closes, Closed, At, Steps, ContainersShape, dockerVars, processVars
  <2>2. held[a] # NoContainer
    BY <2>1 DEF NamesInv
  <2>3. \A c : Seen(c)' => Seen(c)
    BY <1>5, <2>1, SeenBefore DEF ReaperStep, Runs, At
  <2> QED
    BY <1>1, <2>1, <2>2, <2>3 DEF ContainersShape
<1>6. CASE Prepares(a)
  <2>1. /\ serial' = serial + 1 /\ serial \in Nat
        /\ held' = [held EXCEPT ![a] = serial + 1]
        /\ step' = [step EXCEPT ![a] = "mounted"]
        /\ process' = process
        /\ UNCHANGED <<containers, listed, owed, victim>>
    BY <1>6, ContainersAssumption
    DEF Prepares, Steps, NextName, reaperVars, processVars, ContainersShape
  <2>2. \A c : Seen(c)' <=> Seen(c)
    BY <2>1 DEF Seen
  <2>3. \A b \in Actors : /\ held'[b] = IF b = a THEN serial + 1 ELSE held[b]
                          /\ step'[b] = IF b = a THEN "mounted" ELSE step[b]
    BY <2>1 DEF ContainersShape
  <2>4. /\ \A c, d : (Seen(c)' /\ Seen(d)' /\ c.name = d.name) => c = d
        /\ \A c : Seen(c)' => (c.name <= serial' /\ (c.dir[1] \in Checks \/ c.dir[2] = c.name))
    BY <2>1, <2>2 DEF NamesInv
  <2>5. \A b \in Actors : /\ held'[b] <= serial'
                          /\ (held'[b] # NoContainer) <=> (step'[b] \in {"mounted", "serving", "closing"})
    BY <2>1, <2>3 DEF NamesInv
  <2>6. \A b, d \in Actors : (held'[b] = held'[d] /\ held'[b] # NoContainer) => b = d
    BY <2>1, <2>3 DEF NamesInv
  <2>7. \A b \in Actors : \A c : (Seen(c)' /\ c.name = held'[b]) =>
           step'[b] # "mounted" /\ c.owner = process'[b] /\ c.dir = DirOf(b, held'[b])
    BY <2>1, <2>2, <2>3 DEF NamesInv
  <2> QED
    BY <2>4, <2>5, <2>6, <2>7 DEF NamesInv
<1>7. CASE Runs(a)
  <2> DEFINE new == [name |-> held[a], owner |-> process[a], dir |-> DirOf(a, held[a])]
  <2>1. /\ step[a] = "mounted" /\ step' = [step EXCEPT ![a] = "serving"]
        /\ containers' \subseteq containers \cup {new}
        /\ UNCHANGED <<held, serial, process, listed, owed, victim>>
    BY <1>7 DEF Runs, Steps, At, reaperVars, processVars
  <2>2. \A c : Seen(c)' => (Seen(c) \/ c = new)
    BY <2>1 DEF Seen
  <2>3. /\ new.name = held[a] /\ new.owner = process[a] /\ new.dir = DirOf(a, held[a])
        /\ new.dir[1] \in Checks \/ new.dir[2] = new.name
    <3>1. held[a] \in 0 .. MaxContainers
      BY DEF ContainersShape
    <3> QED
      BY <3>1, DirIsDir
  <2>4. \A c : Seen(c) => c.name # held[a]
    BY <2>1 DEF NamesInv
  <2> HIDE DEF new
  <2>5. \A b \in Actors : step'[b] = IF b = a THEN "serving" ELSE step[b]
    BY <2>1 DEF ContainersShape
  <2>6. /\ \A c, d : (Seen(c)' /\ Seen(d)' /\ c.name = d.name) => c = d
        /\ \A c : Seen(c)' => (c.name <= serial' /\ (c.dir[1] \in Checks \/ c.dir[2] = c.name))
    BY <2>1, <2>2, <2>3, <2>4 DEF NamesInv
  <2>7. \A b \in Actors : /\ held'[b] <= serial'
                          /\ (held'[b] # NoContainer) <=> (step'[b] \in {"mounted", "serving", "closing"})
    BY <2>1, <2>5 DEF NamesInv
  <2>8. \A b, d \in Actors : (held'[b] = held'[d] /\ held'[b] # NoContainer) => b = d
    BY <2>1 DEF NamesInv
  <2>9. \A b \in Actors : \A c : (Seen(c)' /\ c.name = held'[b]) =>
           step'[b] # "mounted" /\ c.owner = process'[b] /\ c.dir = DirOf(b, held'[b])
    <3>1. SUFFICES ASSUME NEW b \in Actors, NEW c, Seen(c)', c.name = held'[b]
                   PROVE  step'[b] # "mounted" /\ c.owner = process'[b] /\ c.dir = DirOf(b, held'[b])
      OBVIOUS
    <3>2. CASE c = new
      <4>1. b = a
        BY <2>1, <2>3, <3>1, <3>2 DEF NamesInv
      <4> QED
        BY <2>1, <2>3, <2>5, <3>2, <4>1
    <3>3. CASE Seen(c)
      BY <2>1, <2>5, <3>1, <3>3 DEF NamesInv
    <3> QED
      BY <2>2, <3>1, <3>2, <3>3
  <2> QED
    BY <2>6, <2>7, <2>8, <2>9 DEF NamesInv
<1> QED
  BY <1>2, <1>3, <1>4, <1>5, <1>6, <1>7 DEF ProcessStep, ReaperStep

(* Docker runs a container for a process that lives. *)
LEMMA RunByTheLiving ==
    ASSUME ContainersInv, NEW a \in Actors, ProcessStep(a) \/ ReaperStep(a), NEW c \in containers'
    PROVE  c \in containers \/ Alive(c.owner)
<1>1. CASE Launches(a) \/ Leaves(a) \/ IsKilled(a)
  BY <1>1 DEF Launches, Leaves, IsKilled, dockerVars
<1>2. CASE Lists(a) \/ ReleasesVictim(a) \/ Prepares(a) \/ PrepareFails(a) \/ Closed(a)
  BY <1>2 DEF Lists, ReleasesVictim, Prepares, PrepareFails, Closed, dockerVars
<1>3. CASE ReapsNext(a)
  BY <1>3, ReapsOne
<1>4. CASE Closes(a)
  BY <1>4 DEF Closes, NotRemoved
<1>5. CASE Runs(a)
  BY <1>5 DEF Runs, Alive
<1> QED
  BY <1>1, <1>2, <1>3, <1>4, <1>5 DEF ProcessStep, ReaperStep

(* What a program does leaves the lists of the others alone. *)
LEMMA OthersKeep ==
    ASSUME ContainersInv, NEW a \in Actors, ProcessStep(a) \/ ReaperStep(a),
           NEW b \in Actors, b # a
    PROVE  /\ step'[b] = step[b] /\ space' = space /\ process'[b] = process[b] /\ held'[b] = held[b]
           /\ listed'[b] = listed[b] /\ owed'[b] = owed[b] /\ victim'[b] = victim[b]
<1>0. ContainersShape
  BY DEF ContainersInv
<1> USE <1>0 DEF ContainersShape, Steps, processVars, reaperVars, dockerVars
<1>1. CASE Launches(a) \/ Leaves(a) \/ IsKilled(a)
  BY <1>1 DEF Launches, Leaves, IsKilled
<1>2. CASE Lists(a) \/ ReleasesVictim(a) \/ Prepares(a) \/ PrepareFails(a) \/ Closed(a)
  BY <1>2 DEF Lists, ReleasesVictim, Prepares, PrepareFails, Closed
<1>3. CASE ReapsNext(a)
  BY <1>3, ReapsOne
<1>4. CASE Closes(a) \/ Runs(a)
  BY <1>4 DEF Closes, Runs
<1> QED
  BY <1>1, <1>2, <1>3, <1>4 DEF ProcessStep, ReaperStep

(* An ended process stays so, in any list of containers that some reaper has. *)
LEMMA EndedStays ==
    ASSUME ContainersInv, NEW a \in Actors, ProcessStep(a) \/ ReaperStep(a),
           NEW c, Seen(c), ~Alive(c.owner)
    PROVE  ~Alive(c.owner)'
<1>1. c.owner \in Owners /\ WasStarted(c.owner)
  BY Typed DEF ContainersInv, OwnersInv
<1>2. PICK o \in Owners : o = c.owner
  BY <1>1
<1>3. ~Alive(o)'
  BY <1>1, <1>2, GoneForGood
<1> QED
  BY <1>2, <1>3

LEMMA ReapersStep ==
    ASSUME ContainersInv, NEW a \in Actors, ProcessStep(a) \/ ReaperStep(a)
    PROVE  ReapersInv'
<1>0. ContainersShape /\ ReapersInv /\ ProcessesInv /\ ReaperInv(a)
  BY DEF ContainersInv, ReapersInv
<1>1. ASSUME NEW b \in Actors, b # a
      PROVE  ReaperInv(b)'
  <2>1. /\ step'[b] = step[b] /\ space' = space
        /\ listed'[b] = listed[b] /\ owed'[b] = owed[b] /\ victim'[b] = victim[b]
    BY <1>1, OthersKeep
  <2>2. ReaperInv(b)
    BY <1>0 DEF ReapersInv
  <2>3. \A c \in victim[b] \cup owed[b] : ~Alive(c.owner)'
    <3>1. SUFFICES ASSUME NEW c \in victim[b] \cup owed[b]
                   PROVE  ~Alive(c.owner)'
      OBVIOUS
    <3> QED
      BY <2>2, EndedStays DEF ReaperInv, Seen
  <2>4. owed'[b] \cap containers' \subseteq listed'[b]
    <3>1. SUFFICES ASSUME NEW c \in owed[b], c \in containers'
                   PROVE  c \in listed[b]
      BY <2>1
    <3> QED
      BY <2>2, <3>1, RunByTheLiving DEF ReaperInv
  <2>5. \A c \in victim'[b] : ~Alive(c.owner)'
    BY <2>1, <2>3
  <2>6. \A c \in owed'[b] : ~Alive(c.owner)' /\ c.owner.pidns = space'[b]
    BY <2>1, <2>2, <2>3 DEF ReaperInv
  <2> QED
    BY <2>1, <2>2, <2>4, <2>5, <2>6 DEF ReaperInv
<1>r. SUFFICES ReaperInv(a)'
  BY <1>1 DEF ReapersInv
<1>k. \A c \in victim[a] \cup owed[a] : ~Alive(c.owner)'
  <2>1. SUFFICES ASSUME NEW c \in victim[a] \cup owed[a]
                 PROVE  ~Alive(c.owner)'
    OBVIOUS
  <2> QED
    BY <1>0, EndedStays DEF ReaperInv, Seen
<1> USE <1>0 DEF ContainersShape, Steps, At, processVars, reaperVars, dockerVars
<1>2. CASE Launches(a) \/ Leaves(a)
  <2>1. /\ step[a] \in {"down", "up"} /\ UNCHANGED <<space, listed, owed, victim, containers>>
        /\ step'[a] \in {"down", "up"}
    BY <1>2 DEF Launches, Leaves
  <2> QED
    BY <2>1, <1>k DEF ReaperInv
<1>3. CASE IsKilled(a)
  <2>1. /\ listed'[a] = {} /\ owed'[a] = {} /\ victim'[a] = {}
    BY <1>3 DEF IsKilled
  <2> QED
    BY <2>1 DEF ReaperInv
<1>4. CASE Lists(a)
  <2>1. /\ step[a] = "up" /\ step'[a] = "reaping"
        /\ UNCHANGED <<victim, containers, space, process>>
    BY <1>4 DEF Lists
  <2>2. victim[a] = {} /\ listed[a] = {}
    BY <2>1 DEF ReaperInv
  <2>3. \/ listed'[a] = listed[a] /\ owed'[a] = owed[a]
        \/ listed'[a] = containers /\ owed'[a] = {c \in containers : /\ c.owner.pidns = space[a]
                                                                     /\ ~Alive(c.owner)}
    BY <1>4 DEF Lists
  <2>4. \A c \in owed'[a] : ~Alive(c.owner)' /\ c.owner.pidns = space'[a]
    <3>1. CASE owed'[a] = owed[a]
      BY <2>1, <3>1, <1>k DEF ReaperInv
    <3>2. CASE owed'[a] = {c \in containers : c.owner.pidns = space[a] /\ ~Alive(c.owner)}
      BY <2>1, <3>2 DEF Alive
    <3> QED
      BY <2>3, <3>1, <3>2
  <2>5. owed'[a] \cap containers' \subseteq listed'[a]
    BY <2>1, <2>3 DEF ReaperInv
  <2> QED
    BY <2>1, <2>2, <2>4, <2>5 DEF ReaperInv
<1>5. CASE ReapsNext(a)
  <2>1. PICK c \in listed[a] :
           /\ step[a] = "reaping"
           /\ listed' = [listed EXCEPT ![a] = @ \ {c}]
           /\ UNCHANGED <<space, process>>
           /\ \/ /\ IsOrphan(a, c) /\ containers' = {d \in containers : d.name # c.name}
                 /\ UNCHANGED owed
                 /\ victim' = [victim EXCEPT ![a] = {c}]
                 /\ step' = [step EXCEPT ![a] = "releasing"]
              \/ /\ IsOrphan(a, c) /\ UNCHANGED containers
                 /\ owed' = [owed EXCEPT ![a] = @ \ {c}]
                 /\ victim' = [victim EXCEPT ![a] = {c}]
                 /\ step' = [step EXCEPT ![a] = "releasing"]
              \/ ~IsOrphan(a, c) /\ UNCHANGED <<containers, owed, victim, step>>
    BY <1>5, ReapsOne
  <2>2. c.owner \in Owners /\ Seen(c) /\ victim[a] = {}
    BY <2>1, Typed DEF Seen, ReaperInv
  <2>3. (c.owner.pidns = space[a]) => (Gone(c.owner, space[a]) <=> ~Alive(c.owner))
    BY <2>2, GoneIsEnded
  <2>4. IsOrphan(a, c) => ~Alive(c.owner)
    BY <2>3 DEF IsOrphan
  <2>5. c \in owed[a] => IsOrphan(a, c)
    <3>1. SUFFICES ASSUME c \in owed[a]
                   PROVE  IsOrphan(a, c)
      OBVIOUS
    <3>2. ~Alive(c.owner) /\ c.owner.pidns = space[a]
      BY <3>1 DEF ReaperInv
    <3>3. c.owner # process[a]
      BY <3>2 DEF Alive
    <3> QED
      BY <2>3, <3>2, <3>3 DEF IsOrphan
  <2>6. listed'[a] = listed[a] \ {c}
    BY <2>1
  <2>7. ~Alive(c.owner) => ~Alive(c.owner)'
    BY <2>2, EndedStays
  <2>8. CASE /\ IsOrphan(a, c) /\ containers' = {d \in containers : d.name # c.name}
             /\ UNCHANGED owed
             /\ victim' = [victim EXCEPT ![a] = {c}]
             /\ step' = [step EXCEPT ![a] = "releasing"]
    <3>1. victim'[a] = {c} /\ step'[a] = "releasing" /\ owed'[a] = owed[a] /\ space' = space
      BY <2>1, <2>8
    <3>2. owed'[a] \cap containers' \subseteq listed'[a]
      BY <2>6, <2>8, <3>1 DEF ReaperInv
    <3>3. \A d \in owed'[a] : ~Alive(d.owner)' /\ d.owner.pidns = space'[a]
      BY <3>1, <1>k DEF ReaperInv
    <3> QED
      BY <2>4, <2>7, <2>8, <3>1, <3>2, <3>3 DEF ReaperInv
  <2>9. CASE /\ IsOrphan(a, c) /\ UNCHANGED containers
             /\ owed' = [owed EXCEPT ![a] = @ \ {c}]
             /\ victim' = [victim EXCEPT ![a] = {c}]
             /\ step' = [step EXCEPT ![a] = "releasing"]
    <3>1. victim'[a] = {c} /\ step'[a] = "releasing" /\ owed'[a] = owed[a] \ {c} /\ space' = space
      BY <2>1, <2>9
    <3>2. owed'[a] \cap containers' \subseteq listed'[a]
      BY <2>6, <2>9, <3>1 DEF ReaperInv
    <3>3. \A d \in owed'[a] : ~Alive(d.owner)' /\ d.owner.pidns = space'[a]
      BY <3>1, <1>k DEF ReaperInv
    <3> QED
      BY <2>4, <2>7, <2>9, <3>1, <3>2, <3>3 DEF ReaperInv
  <2>10. CASE ~IsOrphan(a, c) /\ UNCHANGED <<containers, owed, victim, step>>
    <3>1. owed'[a] \cap containers' \subseteq listed'[a]
      BY <2>5, <2>6, <2>10 DEF ReaperInv
    <3>2. \A d \in owed'[a] : ~Alive(d.owner)' /\ d.owner.pidns = space'[a]
      BY <2>1, <2>10, <1>k DEF ReaperInv
    <3> QED
      BY <2>1, <2>2, <2>10, <3>1, <3>2 DEF ReaperInv
  <2> QED
    BY <2>1, <2>8, <2>9, <2>10
<1>6. CASE ReleasesVictim(a)
  <2>1. /\ step[a] = "releasing" /\ step'[a] = "reaping" /\ victim'[a] = {}
        /\ UNCHANGED <<listed, owed, containers, space>>
    BY <1>6 DEF ReleasesVictim
  <2> QED
    BY <2>1, <1>k DEF ReaperInv
<1>7. CASE Prepares(a) \/ PrepareFails(a)
  <2>1. /\ step[a] = "reaping" /\ listed[a] = {} /\ step'[a] \in {"up", "mounted"}
        /\ UNCHANGED <<listed, owed, victim, containers, space>>
    BY <1>7 DEF Prepares, PrepareFails
  <2> QED
    BY <2>1, <1>k DEF ReaperInv
<1>8. CASE Runs(a)
  <2>1. /\ step[a] = "mounted" /\ step'[a] = "serving"
        /\ UNCHANGED <<listed, owed, victim, space>>
    BY <1>8 DEF Runs
  <2>2. owed'[a] \cap containers' \subseteq listed'[a]
    <3>1. SUFFICES ASSUME NEW c \in owed[a], c \in containers'
                   PROVE  c \in listed[a]
      BY <2>1
    <3>2. ~Alive(c.owner)
      BY DEF ReaperInv
    <3> QED
      BY <1>8, <3>1, <3>2, RunByTheLiving DEF ReaperInv, ReaperStep
  <2> QED
    BY <2>1, <2>2, <1>k DEF ReaperInv
<1>9. CASE Closes(a) \/ Closed(a)
  <2>1. /\ step[a] \in {"serving", "closing"} /\ step'[a] \in {"closing", "up"}
        /\ UNCHANGED <<listed, victim, space>>
        /\ owed'[a] = owed[a] \/ owed'[a] = {}
        /\ containers' \subseteq containers
    BY <1>9 DEF Closes, Closed, NotRemoved
  <2>2. \A d \in owed'[a] : ~Alive(d.owner)' /\ d.owner.pidns = space'[a]
    BY <2>1, <1>k DEF ReaperInv
  <2> QED
    BY <2>1, <2>2 DEF ReaperInv
<1> QED
  BY <1>2, <1>3, <1>4, <1>5, <1>6, <1>7, <1>8, <1>9 DEF ProcessStep, ReaperStep

(* Where a program has no directory in hand. *)
LEMMA HandsEmpty ==
    ASSUME ContainersInv, NEW a \in Actors,
           step[a] \in {"down", "up", "reaping"}
    PROVE  InHand(a) = {}
<1>1. held[a] = NoContainer /\ victim[a] = {}
  BY DEF ContainersInv, NamesInv, ReapersInv, ReaperInv
<1> QED
  BY <1>1 DEF InHand

LEMMA HandHoldsOne ==
    ASSUME ContainersInv, NEW a \in Actors
    PROVE  \A d, e \in InHand(a) : d = e
<1>1. \/ held[a] = NoContainer
      \/ victim[a] = {}
  BY DEF ContainersInv, NamesInv, ReapersInv, ReaperInv
<1>2. \A c, d \in victim[a] : c = d
  BY DEF ContainersInv, ReapersInv, ReaperInv
<1> QED
  BY <1>1, <1>2 DEF InHand

(* What a program leaves mounted, with nothing to name it, is what it had in   *)
(* hand or was preparing, and costs a mishap.                                  *)
LEMMA LeftByMishap ==
    ASSUME ContainersInv, NEW a \in Actors, ProcessStep(a) \/ ReaperStep(a),
           NEW d \in Unnamed' \ Unnamed
    PROVE  /\ mishaps' = mishaps + 1
           /\ d \in InHand(a) \/ (PrepareFails(a) /\ d = DirOf(a, NextName))
<1>0. ContainersShape /\ NamesInv /\ ReaperInv(a)
  BY DEF ContainersInv, ReapersInv
<1>1. \A b \in Actors : b # a => InHand(b)' = InHand(b)
  BY OthersKeep DEF InHand
<1>2. d \in mounted' /\ ~Named(d)' /\ d \notin InHand(a)' /\ (d \in mounted => Named(d) \/ d \in InHand(a))
  BY <1>1 DEF Unnamed
<1> USE <1>0 DEF ContainersShape, Mishap, Steps, At, processVars, reaperVars, dockerVars
<1>3. CASE Launches(a) \/ Leaves(a) \/ Lists(a)
  <2>1. UNCHANGED <<mounted, containers>>
    BY <1>3 DEF Launches, Leaves, Lists
  <2>2. step[a] \in {"down", "up"}
    BY <1>3 DEF Launches, Leaves, Lists
  <2> QED
    BY <1>2, <2>1, <2>2, HandsEmpty DEF Named
<1>4. CASE IsKilled(a)
  <2>1. mishaps' = mishaps + 1 /\ UNCHANGED <<mounted, containers>>
    BY <1>4 DEF IsKilled
  <2> QED
    BY <1>2, <2>1 DEF Named
<1>5. CASE ReapsNext(a)
  <2>1. PICK c \in listed[a] :
           /\ step[a] = "reaping"
           /\ UNCHANGED mounted
           /\ \/ /\ containers' = {e \in containers : e.name # c.name}
                 /\ victim' = [victim EXCEPT ![a] = {c}]
              \/ UNCHANGED containers
    BY <1>5, ReapsOne
  <2>2. Named(d)
    BY <1>2, <2>1, HandsEmpty
  <2>3. PICK e \in containers : e.dir = d
    BY <2>2 DEF Named
  <2>4. /\ containers' = {f \in containers : f.name # c.name}
        /\ victim' = [victim EXCEPT ![a] = {c}]
        /\ e.name = c.name
    BY <1>2, <2>1, <2>3 DEF Named
  <2>5. e = c
    BY <2>3, <2>4 DEF NamesInv, Seen
  <2> QED
    BY <1>2, <2>3, <2>4, <2>5 DEF InHand
<1>6. CASE ReleasesVictim(a)
  <2>1. PICK c \in victim[a] : Releases(c.dir)
    BY <1>6 DEF ReleasesVictim
  <2>2. UNCHANGED containers /\ d \in mounted
    BY <1>2, <1>6, <2>1 DEF ReleasesVictim, Releases
  <2>3. d \in InHand(a) /\ InHand(a) = {c.dir}
    <3>1. held[a] = NoContainer /\ victim[a] = {c}
      BY <1>6, <2>1 DEF ReleasesVictim, NamesInv, ReaperInv
    <3> QED
      BY <1>2, <2>2, <3>1 DEF Named, InHand
  <2>4. d = c.dir
    BY <2>3
  <2> QED
    BY <1>2, <2>1, <2>3, <2>4 DEF Releases
<1>7. CASE Prepares(a)
  <2>1. /\ mounted' = mounted \cup {DirOf(a, NextName)}
        /\ held' = [held EXCEPT ![a] = NextName] /\ UNCHANGED containers
        /\ step[a] = "reaping" /\ serial \in Nat
    BY <1>7, ContainersAssumption DEF Prepares
  <2>2. d = DirOf(a, NextName)
    BY <1>2, <2>1, HandsEmpty DEF Named
  <2>3. held'[a] = NextName /\ NextName # NoContainer
    BY <2>1 DEF NextName, NoContainer
  <2> QED
    BY <1>2, <2>2, <2>3 DEF InHand
<1>8. CASE PrepareFails(a)
  <2>1. /\ mounted' \subseteq mounted \cup {DirOf(a, NextName)} /\ mishaps' = mishaps + 1
        /\ step[a] = "reaping" /\ UNCHANGED containers
    BY <1>8 DEF PrepareFails
  <2> QED
    BY <1>2, <1>8, <2>1, HandsEmpty DEF Named
<1>9. CASE Runs(a)
  <2>1. containers \subseteq containers' /\ UNCHANGED <<mounted, held, victim>>
    BY <1>9 DEF Runs
  <2> QED
    BY <1>2, <2>1 DEF Named, InHand
<1>10. CASE Closes(a)
  <2>1. /\ containers' = {c \in containers : c.name # held[a]} \/ UNCHANGED containers
        /\ UNCHANGED <<mounted, held, victim>> /\ step[a] = "serving"
    BY <1>10 DEF Closes, NotRemoved
  <2>2. d \notin InHand(a)
    BY <1>2, <2>1 DEF InHand
  <2>3. PICK e \in containers : e.dir = d /\ e.name = held[a]
    BY <1>2, <2>1, <2>2 DEF Named
  <2>4. d = DirOf(a, held[a]) /\ held[a] # NoContainer
    BY <2>1, <2>3 DEF NamesInv, Seen
  <2> QED
    BY <2>2, <2>4 DEF InHand
<1>11. CASE Closed(a)
  <2>1. Releases(DirOf(a, held[a])) /\ UNCHANGED containers /\ step[a] = "closing"
    BY <1>11 DEF Closed
  <2>2. d \in mounted /\ d \in InHand(a)
    BY <1>2, <2>1 DEF Releases, Named
  <2>3. victim[a] = {}
    BY <2>1 DEF ReaperInv
  <2>4. d = DirOf(a, held[a])
    BY <2>2, <2>3 DEF InHand
  <2> QED
    BY <1>2, <2>1, <2>2, <2>4 DEF Releases
<1> QED
  BY <1>3, <1>4, <1>5, <1>6, <1>7, <1>8, <1>9, <1>10, <1>11 DEF ProcessStep, ReaperStep

LEMMA MountsStep ==
    ASSUME ContainersInv, NEW a \in Actors, ProcessStep(a) \/ ReaperStep(a)
    PROVE  MountsInv'
<1>0. ContainersShape /\ MountsInv
  BY DEF ContainersInv
<1>1. mishaps \in Nat /\ mishaps' \in {mishaps, mishaps + 1}
  <2>1. mishaps \in Nat
    BY <1>0, ContainersAssumption DEF ContainersShape
  <2>2. ProcessStep(a) => mishaps' \in {mishaps, mishaps + 1}
    BY DEF ProcessStep, Launches, Leaves, IsKilled, Mishap
  <2>3. ReaperStep(a) => mishaps' \in {mishaps, mishaps + 1}
    BY DEF ReaperStep, Lists, ReapsNext, ReleasesVictim, Prepares, PrepareFails, Runs, Closes,
           Closed, Removed, NotRemoved, Releases, Mishap
  <2> QED
    BY <2>1, <2>2, <2>3
<1>2. IsFiniteSet(mounted')
  <2>1. mounted' \subseteq mounted \cup {DirOf(a, NextName)}
    <3>1. ProcessStep(a) => mounted' = mounted
      BY DEF ProcessStep, Launches, Leaves, IsKilled
    <3>2. ReaperStep(a) => mounted' \subseteq mounted \cup {DirOf(a, NextName)}
      BY DEF ReaperStep, Lists, ReapsNext, ReleasesVictim, Prepares, PrepareFails, Runs, Closes,
             Closed, Releases
    <3> QED
      BY <3>1, <3>2
  <2>2. IsFiniteSet(mounted \cup {DirOf(a, NextName)})
    BY <1>0, FS_AddElement DEF MountsInv
  <2> QED
    BY <2>1, <2>2, FS_Subset
<1>3. /\ IsFiniteSet(Unnamed) /\ Unnamed \subseteq mounted /\ Unnamed' \subseteq mounted'
      /\ Cardinality(Unnamed) \in Nat /\ Cardinality(Unnamed) <= mishaps
  <2>1. Unnamed \subseteq mounted /\ Unnamed' \subseteq mounted'
    BY DEF Unnamed
  <2>2. IsFiniteSet(Unnamed)
    BY <1>0, <2>1, FS_Subset DEF MountsInv
  <2> QED
    BY <1>0, <2>1, <2>2, FS_CardinalityType DEF MountsInv, MountsBounded
<1>4. CASE Unnamed' \subseteq Unnamed
  <2>1. Cardinality(Unnamed') <= Cardinality(Unnamed) /\ Cardinality(Unnamed') \in Nat
    BY <1>3, <1>4, FS_Subset, FS_CardinalityType
  <2> QED
    BY <1>1, <1>2, <1>3, <2>1 DEF MountsInv, MountsBounded
<1>5. ASSUME NEW d \in Unnamed' \ Unnamed
      PROVE  MountsInv'
  <2>1. \A e \in Unnamed' \ Unnamed : e = d
    <3>1. SUFFICES ASSUME NEW e \in Unnamed' \ Unnamed
                   PROVE  e = d
      OBVIOUS
    <3>2. \/ d \in InHand(a)
          \/ PrepareFails(a) /\ d = DirOf(a, NextName)
      BY <1>5, LeftByMishap
    <3>3. \/ e \in InHand(a)
          \/ PrepareFails(a) /\ e = DirOf(a, NextName)
      BY <3>1, LeftByMishap
    <3>4. PrepareFails(a) => InHand(a) = {}
      BY HandsEmpty DEF PrepareFails, At
    <3> QED
      BY <3>2, <3>3, <3>4, HandHoldsOne
  <2>2. Unnamed' \subseteq Unnamed \cup {d}
    BY <2>1
  <2>3. /\ IsFiniteSet(Unnamed \cup {d})
        /\ Cardinality(Unnamed \cup {d}) = Cardinality(Unnamed) + 1
    BY <1>3, <1>5, FS_AddElement
  <2>4. Cardinality(Unnamed') <= Cardinality(Unnamed) + 1 /\ Cardinality(Unnamed') \in Nat
    BY <2>2, <2>3, FS_Subset, FS_CardinalityType
  <2>5. mishaps' = mishaps + 1
    BY <1>5, LeftByMishap
  <2> QED
    BY <1>1, <1>2, <1>3, <2>4, <2>5 DEF MountsInv, MountsBounded
<1> QED
  BY <1>4, <1>5

LEMMA ContainersStepInv ==
    ASSUME ContainersInv, [ContainersNext]_containerVars
    PROVE  ContainersInv'
<1>1. CASE ContainersNext
  <2>1. PICK a \in Actors : ProcessStep(a) \/ ReaperStep(a)
    BY <1>1 DEF ContainersNext, ProcessStep, ReaperStep
  <2> QED
    BY <2>1, ContainersShapeStep, ProcessesStep, OwnersStep, NamesStep, ReapersStep, MountsStep
    DEF ContainersInv
<1>2. CASE UNCHANGED containerVars
  <2>1. /\ UNCHANGED <<space, process, starts, step, listed, owed, victim, held>>
        /\ UNCHANGED <<containers, serial, mounted, mishaps>>
    BY <1>2 DEF containerVars, processVars, reaperVars, dockerVars
  <2>2. ContainersShape' /\ ProcessesInv'
    BY <2>1 DEF ContainersInv, ContainersShape, ProcessesInv, WasStarted
  <2>3. \A c : Seen(c)' <=> Seen(c)
    BY <2>1 DEF Seen
  <2>4. OwnersInv' /\ NamesInv'
    <3>1. OwnersInv'
      BY <2>1, <2>3 DEF ContainersInv, OwnersInv, WasStarted
    <3>2. NamesInv'
      BY <2>1, <2>3 DEF ContainersInv, NamesInv
    <3> QED
      BY <3>1, <3>2
  <2>5. ReapersInv' /\ MountsInv'
    <3>1. ReapersInv'
      BY <2>1 DEF ContainersInv, ReapersInv, ReaperInv, Alive
    <3>2. Unnamed' = Unnamed
      BY <2>1 DEF Unnamed, Named, InHand
    <3>3. MountsInv'
      BY <2>1, <3>2 DEF ContainersInv, MountsInv, MountsBounded
    <3> QED
      BY <3>1, <3>3
  <2> QED
    BY <2>2, <2>4, <2>5 DEF ContainersInv
<1> QED
  BY <1>1, <1>2

LEMMA ContainersInitInv == ContainersInit => ContainersInv
<1> SUFFICES ASSUME ContainersInit
             PROVE  ContainersInv
  OBVIOUS
<1>1. Nobody \in Owners /\ Nobody.start = 0
  BY ContainersAssumption DEF Nobody, Owners
<1>2. ContainersShape
  <2>1. process \in [Actors -> Owners]
    BY <1>1 DEF ContainersInit
  <2> QED
    BY <2>1, ContainersAssumption DEF ContainersInit, ContainersShape, NoContainer, Stages
<1>3. \A c : ~Seen(c)
  BY DEF ContainersInit, Seen
<1>4. ProcessesInv /\ OwnersInv
  BY <1>3 DEF ContainersInit, ProcessesInv, OwnersInv
<1>5. NamesInv
  BY <1>3 DEF ContainersInit, NamesInv, NoContainer
<1>6. ReapersInv
  BY DEF ContainersInit, ReapersInv, ReaperInv
<1>7. MountsInv
  <2>1. mounted = {} /\ Unnamed = {} /\ mishaps = 0
    BY DEF ContainersInit, Unnamed
  <2> QED
    BY <2>1, FS_EmptySet DEF MountsInv, MountsBounded
<1> QED
  BY <1>2, <1>4, <1>5, <1>6, <1>7 DEF ContainersInv

(* No reaper, nor anyone else, takes a container or its tmpfs from under a     *)
(* process that serves with it.                                                *)
LEMMA ServedStayStep ==
    ASSUME ContainersInv, ContainersNext,
           NEW a \in Actors, step'[a] = step[a], step[a] = "serving"
    PROVE  /\ \A c \in containers : c.name = held[a] => c \in containers'
           /\ (a \notin Checks /\ DirOf(a, held[a]) \in mounted) => DirOf(a, held[a]) \in mounted'
<1>0. ContainersShape /\ NamesInv /\ ProcessesInv /\ ReapersInv
  BY DEF ContainersInv
<1> USE <1>0 DEF ContainersShape, Steps, At, processVars, reaperVars, dockerVars
<1>1. PICK b \in Actors : ProcessStep(b) \/ ReaperStep(b)
  BY DEF ContainersNext, ProcessStep, ReaperStep
<1>2. held[a] # NoContainer /\ held[a] \in 0 .. MaxContainers
  BY DEF NamesInv
(* The container, wherever it is listed, is that of a process that lives. *)
<1>3. \A c : (Seen(c) /\ c.name = held[a]) => Alive(c.owner)
  BY DEF NamesInv, Alive
<1>4. b # a => held[b] # held[a]
  BY <1>2 DEF NamesInv
<1>5. ASSUME NEW n \in 0 .. MaxContainers, b # a
      PROVE  DirOf(b, n) # DirOf(a, held[a])
  BY <1>2, <1>5, DirIsDir
<1>6. CASE Launches(b) \/ Leaves(b) \/ IsKilled(b) \/ Lists(b)
  BY <1>6 DEF Launches, Leaves, IsKilled, Lists
<1>7. CASE ReapsNext(b)
  <2>1. PICK c \in listed[b] :
           /\ UNCHANGED mounted
           /\ \/ IsOrphan(b, c) /\ containers' = {d \in containers : d.name # c.name}
              \/ UNCHANGED containers
    BY <1>7, ReapsOne
  <2>2. IsOrphan(b, c) => ~Alive(c.owner)
    BY Typed, GoneIsEnded DEF IsOrphan, Seen
  <2>3. IsOrphan(b, c) => c.name # held[a]
    BY <1>3, <2>2 DEF Seen
  <2> QED
    BY <2>1, <2>3
<1>8. CASE ReleasesVictim(b)
  <2>1. PICK c \in victim[b] : mounted' = mounted \ {c.dir} \/ UNCHANGED mounted
    BY <1>8 DEF ReleasesVictim, Releases
  <2>2. UNCHANGED containers
    BY <1>8 DEF ReleasesVictim
  <2>3. Seen(c) /\ ~Alive(c.owner)
    BY DEF Seen, ReapersInv, ReaperInv
  <2>4. a \notin Checks => c.dir # DirOf(a, held[a])
    <3>1. SUFFICES ASSUME a \notin Checks, c.dir = DirOf(a, held[a])
                   PROVE  FALSE
      OBVIOUS
    <3>2. c.dir[1] = a /\ c.dir[2] = held[a]
      BY <1>2, <3>1, DirIsDir
    <3>3. c.name = held[a]
      BY <2>3, <3>1, <3>2 DEF NamesInv
    <3> QED
      BY <1>3, <2>3, <3>3
  <2> QED
    BY <2>1, <2>2, <2>4
<1>9. CASE Prepares(b)
  BY <1>9 DEF Prepares
<1>10. CASE PrepareFails(b)
  <2>1. b # a /\ mounted \ {DirOf(b, NextName)} \subseteq mounted' /\ UNCHANGED containers
    BY <1>10 DEF PrepareFails
  <2>2. NextName \in 0 .. MaxContainers
    BY <1>10, ContainersAssumption DEF PrepareFails, NextName
  <2> QED
    BY <1>5, <2>1, <2>2
<1>11. CASE Runs(b)
  BY <1>11 DEF Runs
<1>12. CASE Closes(b)
  <2>1. b # a
    BY <1>12 DEF Closes
  <2> QED
    BY <1>4, <1>12, <2>1 DEF Closes, NotRemoved
<1>13. CASE Closed(b)
  <2>1. b # a /\ UNCHANGED containers
    BY <1>13 DEF Closed
  <2>2. mounted' = mounted \ {DirOf(b, held[b])} \/ UNCHANGED mounted
    BY <1>13 DEF Closed, Releases
  <2> QED
    BY <1>5, <2>1, <2>2
<1> QED
  BY <1>1, <1>6, <1>7, <1>8, <1>9, <1>10, <1>11, <1>12, <1>13 DEF ProcessStep, ReaperStep

-----------------------------------------------------------------------------
(* The groups: types and invariants. *)

Processes == [pid : Pids, start : 1 .. MaxBorn, group : Pids, role : Roles,
              attempt : 0 .. MaxAttempts, noted : BOOLEAN]
Entries == [pgid : Pids, start : 1 .. MaxBorn, boot : 0 .. MaxAccidents]
HeldGroups == [pid : Pids \cup {0}, start : 0 .. MaxBorn]
Units == [there : BOOLEAN, ledger : Seq(Entries), result : 0 .. MaxAttempts]
Results == [author : 0 .. MaxAttempts, attempt : 0 .. MaxAttempts]

(* The places before an attempt's policy server is started. *)
Before == {"down", "reaping", "idle", "rereaping", "moving", "serving"}

GroupsShape ==
    /\ procs \subseteq Processes /\ born \in [Pids -> 0 .. MaxBorn]
    /\ boot \in 0 .. MaxAccidents /\ accidents \in 0 .. MaxAccidents
    /\ at \in Places /\ todo \in Seq(Entries)
    /\ policy \in HeldGroups /\ bench \in HeldGroups
    /\ got \in 0 .. MaxAttempts /\ attempt \in 0 .. MaxAttempts
    /\ leaving \in BOOLEAN /\ decided \in BOOLEAN /\ gap \in BOOLEAN
    /\ unit \in Units /\ record \in Results

(* What is counted, against its counter; the directory is there once an        *)
(* attempt is.                                                                *)
CountsInv ==
    /\ boot <= accidents
    /\ at \in {"rereaping", "moving", "serving"} => attempt < MaxAttempts
    /\ \A p \in procs : p.attempt <= attempt /\ p.start <= born[p.pid]
    /\ unit.result <= attempt
    /\ at \notin Before => unit.there
    /\ unit.there \/ (unit.ledger = <<>> /\ unit.result = 0)

(* Who has the pid that names a group leads it; its members are one attempt's. *)
GroupsInv ==
    /\ \A p, q \in procs : p.pid = q.pid => p = q
    /\ \A p, q \in procs : p.pid = q.group => p.group = p.pid
    /\ \A p, q \in procs : p.group = q.group =>
          p.attempt = q.attempt /\ p.noted = q.noted /\ p.role = q.role

(* The groups the orchestrator holds, and where it holds them. *)
HeldInv ==
    /\ policy # NoGroup => at \notin Before \cup {"recording"}
    /\ at \notin Before \cup {"recording"} =>
          policy.pid \in Pids /\ policy.start \in 1 .. born[policy.pid]
    /\ bench # NoGroup => at \in {"notingBench", "running", "waited", "killed"}
    /\ at \in {"notingBench", "running", "waited"} => bench.pid \in Pids
    /\ bench # NoGroup =>
          bench.pid # policy.pid /\ bench.pid \in Pids /\ bench.start \in 1 .. born[bench.pid]

(* Nobody but the attempt's own processes has a pid or a group it holds, until *)
(* the group's leader was waited for; and once the group was killed, only       *)
(* strangers are in the group that has its number.                             *)
OwnPolicy(p) ==
    /\ p.group = policy.pid /\ p.role = "policy" /\ p.attempt = attempt
    /\ p.pid = policy.pid => p.start = policy.start
OwnBenchmark(p) ==
    /\ p.group = bench.pid /\ p.role = "benchmark" /\ p.attempt = attempt
    /\ p.pid = bench.pid => p.start = bench.start

OwnInv ==
    /\ at \notin {"down", "seen", "stopped"} =>
          \A p \in procs : policy.pid \in {p.pid, p.group} => OwnPolicy(p)
    /\ at \notin {"down", "waited", "killed"} =>
          \A p \in procs : bench.pid \in {p.pid, p.group} => OwnBenchmark(p)

EndedInv ==
    /\ at = "killed" => \A p \in GroupOf(bench.pid) : p.role = "stranger"
    /\ at = "stopped" => \A p \in GroupOf(policy.pid) : p.role = "stranger"

(* The ledger names a group once, and at the start of an attempt none that is  *)
(* another's.                                                                 *)
LedgerInv ==
    /\ \A i, j \in DOMAIN unit.ledger : unit.ledger[i].pgid = unit.ledger[j].pgid => i = j
    /\ at \in {"moving", "serving", "notingPolicy"} => unit.ledger = <<>>
    /\ at \in {"served", "cleared", "notingBench"} =>
          /\ Len(unit.ledger) <= 1
          /\ \A i \in DOMAIN unit.ledger : unit.ledger[i].pgid = policy.pid
    /\ Len(unit.ledger) <= 2 /\ Len(todo) <= 2

(* An entry of this boot names a process that was started, and no stranger. *)
Ours(e) ==
    /\ e.boot <= boot
    /\ e.boot = boot => /\ e.start <= born[e.pgid]
                        /\ \A p \in procs : p.pid = e.pgid /\ p.start = e.start => p.role # "stranger"

OursInv ==
    /\ \A i \in DOMAIN unit.ledger : Ours(unit.ledger[i])
    /\ \A i \in DOMAIN todo : Ours(todo[i])

(* The reaper would end p by this ledger. *)
NamesGroup(ledger, p) == \E i \in DOMAIN ledger : ledger[i].pgid = p.group /\ StillRecorded(ledger[i])

(* What was noted is named until it is reaped; what is not noted was left in   *)
(* the gap, or is being noted.                                                *)
NotedInv ==
    \A p \in procs \ Strangers :
        /\ p.noted => NamesGroup(unit.ledger, p)
        /\ p.noted /\ at \in {"reaping", "rereaping"} => NamesGroup(todo, p)
        /\ \/ p.noted \/ gap
           \/ at = "notingPolicy" /\ p.group = policy.pid
           \/ at = "notingBench" /\ p.group = bench.pid

ResultInv ==
    /\ at \in {"cleared", "notingBench", "running", "waited", "killed"} =>
          unit.result \in {0, attempt} \/ gap
    /\ at \notin {"stopping", "seen", "stopped", "recording"} => got = 0
    /\ got \in {0, attempt} \/ gap
    /\ leaving => at \in {"killed", "stopping", "seen", "stopped"} /\ got = 0

OrphansInv ==
    /\ GroupsShape /\ CountsInv /\ GroupsInv /\ HeldInv /\ OwnInv /\ EndedInv
    /\ LedgerInv /\ OursInv /\ NotedInv /\ ResultInv /\ OneAttemptAtATime /\ ReadsOwnResult

LEMMA GroupsInitInv == ASSUME GroupsInit PROVE OrphansInv
  <1> USE OrphansAssumption
  <1>1. GroupsShape /\ CountsInv /\ HeldInv /\ ResultInv /\ ReadsOwnResult
    <2>1. /\ procs \subseteq Processes /\ born \in [Pids -> 0 .. MaxBorn]
          /\ boot \in 0 .. MaxAccidents /\ accidents \in 0 .. MaxAccidents
          /\ at \in Places /\ todo \in Seq(Entries)
      BY DEF GroupsInit, Places
    <2>2. NoGroup \in HeldGroups
      BY DEF HeldGroups, NoGroup
    <2>6. /\ policy \in HeldGroups /\ bench \in HeldGroups
          /\ got \in 0 .. MaxAttempts /\ attempt \in 0 .. MaxAttempts
      BY <2>2 DEF GroupsInit
    <2>7. leaving \in BOOLEAN /\ decided \in BOOLEAN /\ gap \in BOOLEAN
      BY DEF GroupsInit
    <2>3. <<>> \in Seq(Entries)
      OBVIOUS
    <2>4. unit \in Units /\ record \in Results
      BY <2>3 DEF GroupsInit, Units, NoUnit, Results, Unplayed
    <2>5. GroupsShape
      BY <2>1, <2>4, <2>6, <2>7 DEF GroupsShape
    <2> QED
      BY <2>5 DEF GroupsInit, CountsInv, HeldInv, ResultInv, ReadsOwnResult, NoUnit, Before, Unplayed
  <1>2. GroupsInv /\ OwnInv /\ EndedInv /\ NotedInv /\ OneAttemptAtATime
    BY DEF GroupsInit, GroupsInv, OwnInv, EndedInv, NotedInv, OneAttemptAtATime, GroupOf
  <1>3. LedgerInv /\ OursInv
    BY DEF GroupsInit, LedgerInv, OursInv, NoUnit
  <1> QED
    BY <1>1, <1>2, <1>3 DEF OrphansInv

(* Ledger.ended strikes one entry: the others stay as they were. *)
LEMMA StruckEntries ==
    ASSUME NEW ledger \in Seq(Entries), NEW pgid
    PROVE  /\ Struck(ledger, pgid) \in Seq(Entries)
           /\ Len(Struck(ledger, pgid)) <= Len(ledger)
           /\ \A i \in DOMAIN Struck(ledger, pgid) :
                \E j \in DOMAIN ledger : j >= i /\ Struck(ledger, pgid)[i] = ledger[j]
           /\ \A j \in DOMAIN ledger : ledger[j].pgid # pgid =>
                \E i \in DOMAIN Struck(ledger, pgid) : Struck(ledger, pgid)[i] = ledger[j]
           /\ (\A i, j \in DOMAIN ledger : ledger[i].pgid = ledger[j].pgid => i = j) =>
                 \A i, j \in DOMAIN Struck(ledger, pgid) :
                    Struck(ledger, pgid)[i].pgid = Struck(ledger, pgid)[j].pgid => i = j
  <1> DEFINE left == Struck(ledger, pgid)
  <1>1. CASE ~\E i \in DOMAIN ledger : ledger[i].pgid = pgid
    <2>1. left = ledger
      BY <1>1 DEF Struck
    <2> QED
      BY <2>1
  <1>2. CASE \E i \in DOMAIN ledger : ledger[i].pgid = pgid
    <2> DEFINE place == CHOOSE i \in DOMAIN ledger : ledger[i].pgid = pgid
    <2>1. place \in DOMAIN ledger /\ ledger[place].pgid = pgid
      BY <1>2
    <2> HIDE DEF place
    <2>2. left = SubSeq(ledger, 1, place - 1) \o SubSeq(ledger, place + 1, Len(ledger))
      BY <1>2 DEF Struck, place
    <2>3. place \in 1 .. Len(ledger) /\ Len(ledger) \in Nat
      BY <2>1
    <2>4. /\ left \in Seq(Entries)
          /\ Len(left) = Len(ledger) - 1
          /\ \A i \in 1 .. Len(left) : left[i] = IF i < place THEN ledger[i] ELSE ledger[i + 1]
      <3> DEFINE front == SubSeq(ledger, 1, place - 1)
                 back == SubSeq(ledger, place + 1, Len(ledger))
      <3>1. /\ front \in Seq(Entries) /\ Len(front) = place - 1
            /\ \A i \in 1 .. place - 1 : front[i] = ledger[i]
        BY <2>3
      <3>2. /\ back \in Seq(Entries) /\ Len(back) = Len(ledger) - place
            /\ \A i \in 1 .. Len(ledger) - place : back[i] = ledger[place + i]
        BY <2>3
      <3> HIDE DEF front, back
      <3>3. left = front \o back
        BY <2>2 DEF front, back
      <3> HIDE DEF left
      <3>4. left \in Seq(Entries) /\ Len(left) = Len(ledger) - 1
        BY <2>3, <3>1, <3>2, <3>3
      <3>5. ASSUME NEW i \in 1 .. Len(left)
            PROVE  left[i] = IF i < place THEN ledger[i] ELSE ledger[i + 1]
        <4>1. CASE i < place
          BY <2>3, <3>1, <3>2, <3>3, <3>4, <4>1
        <4>2. CASE i >= place
          <5>1. left[i] = back[i - Len(front)]
            BY <2>3, <3>1, <3>2, <3>3, <3>4, <4>2
          <5>2. i - Len(front) \in 1 .. Len(ledger) - place /\ place + (i - Len(front)) = i + 1
            BY <2>3, <3>1, <3>4, <4>2
          <5> QED
            BY <2>3, <3>1, <3>2, <4>2, <5>1, <5>2
        <4> QED
          BY <2>3, <4>1, <4>2
      <3> QED
        BY <3>4, <3>5
    <2> HIDE DEF left
    <2>5. \A i \in DOMAIN left : \E j \in DOMAIN ledger : j >= i /\ left[i] = ledger[j]
      BY <2>3, <2>4
    <2>6. \A j \in DOMAIN ledger : ledger[j].pgid # pgid => \E i \in DOMAIN left : left[i] = ledger[j]
      <3> SUFFICES ASSUME NEW j \in DOMAIN ledger, ledger[j].pgid # pgid
                   PROVE  \E i \in DOMAIN left : left[i] = ledger[j]
        OBVIOUS
      <3>1. j # place
        BY <2>1
      <3>2. CASE j < place
        BY <2>3, <2>4, <3>2
      <3>3. CASE j > place
        BY <2>3, <2>4, <3>3, j - 1 \in DOMAIN left
      <3> QED
        BY <2>3, <3>1, <3>2, <3>3
    <2>7. ASSUME \A i, j \in DOMAIN ledger : ledger[i].pgid = ledger[j].pgid => i = j,
                 NEW i \in DOMAIN left, NEW j \in DOMAIN left, left[i].pgid = left[j].pgid
          PROVE  i = j
      <3>1. i \in 1 .. Len(ledger) - 1 /\ j \in 1 .. Len(ledger) - 1
        BY <2>3, <2>4, <2>7
      <3>2. PICK k \in DOMAIN ledger : k = (IF i < place THEN i ELSE i + 1) /\ left[i] = ledger[k]
        BY <2>3, <2>4, <3>1
      <3>3. PICK l \in DOMAIN ledger : l = (IF j < place THEN j ELSE j + 1) /\ left[j] = ledger[l]
        BY <2>3, <2>4, <3>1
      <3>4. k = l
        BY <2>7, <3>2, <3>3
      <3> QED
        BY <2>3, <3>1, <3>2, <3>3, <3>4
    <2> QED
      BY <2>4, <2>5, <2>6, <2>7, <2>3 DEF left
  <1> QED
    BY <1>1, <1>2

-----------------------------------------------------------------------------
(* What a step does to the machine, and what it leaves. *)

Grown(n) ==
    /\ n \in Processes /\ n.pid \in FreePids /\ n.start = born[n.pid] + 1
    /\ procs' = procs \cup {n} /\ born' = [born EXCEPT ![n.pid] = @ + 1] /\ boot' = boot

Shrunk == procs' \subseteq procs /\ UNCHANGED <<born, boot>>

Noting(p, pid) == [p EXCEPT !.noted = @ \/ p.group = pid]
NotedAs(pid) == procs' = {Noting(p, pid) : p \in procs} /\ UNCHANGED <<born, boot>>

RestStays == UNCHANGED <<at, todo, policy, bench, got, leaving, attempt, record, decided, gap, accidents>>

(* A step of the orchestrator that leaves processes, ledger and what it holds  *)
(* of them, or only forgets them.                                             *)
QuietStep ==
    \/ Starts \/ ComesToUnit \/ GoesWithout \/ ClearsStale \/ Waits \/ ReadsResult
    \/ SeesPolicyEnd \/ Records \/ Decides

LEMMA FreeIsFree ==
    ASSUME OrphansInv, NEW p \in FreePids
    PROVE  /\ p \in Pids /\ born[p] \in 0 .. MaxBorn - 1
           /\ \A q \in procs : p # q.pid /\ p # q.group
           /\ p = policy.pid => at \in {"seen", "stopped"}
           /\ p = bench.pid => at \in {"waited", "killed"}
  <1>1. p \in Pids /\ born[p] < MaxBorn
    BY DEF FreePids
  <1>2. born[p] \in 0 .. MaxBorn
    BY <1>1 DEF OrphansInv, GroupsShape
  <1>3. \A q \in procs : p # q.pid /\ p # q.group
    BY DEF FreePids
  <1>4. /\ p = policy.pid => at \in {"seen", "stopped"}
        /\ p = bench.pid => at \in {"waited", "killed"}
    BY DEF FreePids
  <1> QED
    BY <1>1, <1>2, <1>3, <1>4, OrphansAssumption

LEMMA ProcessFields ==
    ASSUME OrphansInv, NEW p \in FreePids, NEW g \in Pids, NEW role \in Roles,
           NEW n \in 0 .. MaxAttempts, NEW noted \in BOOLEAN
    PROVE  LET new == Process(p, g, role, n, noted)
           IN  /\ new \in Processes
               /\ new.pid = p /\ new.start = born[p] + 1 /\ new.group = g
               /\ new.role = role /\ new.attempt = n /\ new.noted = noted
  <1>1. p \in Pids /\ born[p] + 1 \in 1 .. MaxBorn
    BY FreeIsFree, OrphansAssumption
  <1> QED
    BY <1>1 DEF Process, Processes

LEMMA NotingFields ==
    ASSUME NEW p \in Processes, NEW pid
    PROVE  LET q == Noting(p, pid)
           IN  /\ q \in Processes
               /\ q.pid = p.pid /\ q.start = p.start /\ q.group = p.group /\ q.role = p.role
               /\ q.attempt = p.attempt /\ q.noted = (p.noted \/ p.group = pid)
               /\ p.group # pid => q = p
  <1>1. p.noted \in BOOLEAN
    BY DEF Processes
  <1>2. (p.noted \/ p.group = pid) \in BOOLEAN
    OBVIOUS
  <1>3. Noting(p, pid) = [p EXCEPT !.noted = (p.noted \/ p.group = pid)]
    BY DEF Noting
  <1>4. p.group # pid => (p.noted \/ p.group = pid) = p.noted
    BY <1>1
  <1> DEFINE value == (p.noted \/ p.group = pid)
  <1>5. value \in BOOLEAN
    BY <1>2
  <1> HIDE DEF value
  <1>6. Noting(p, pid) = [p EXCEPT !.noted = value]
    BY <1>3 DEF value
  <1>7. p.group # pid => value = p.noted
    BY <1>4 DEF value
  <1>8. LET q == Noting(p, pid)
        IN  /\ q \in Processes
            /\ q.pid = p.pid /\ q.start = p.start /\ q.group = p.group /\ q.role = p.role
            /\ q.attempt = p.attempt /\ q.noted = value
            /\ p.group # pid => q = p
    BY <1>5, <1>6, <1>7 DEF Processes
  <1> QED
    BY <1>8 DEF value

LEMMA UnitFields ==
    ASSUME NEW u \in Units, NEW l \in Seq(Entries), NEW r \in 0 .. MaxAttempts
    PROVE  /\ [u EXCEPT !.ledger = l] \in Units /\ [u EXCEPT !.result = r] \in Units
           /\ [u EXCEPT !.there = TRUE] \in Units
           /\ [u EXCEPT !.ledger = l].there = u.there /\ [u EXCEPT !.ledger = l].ledger = l
           /\ [u EXCEPT !.ledger = l].result = u.result
           /\ [u EXCEPT !.result = r].there = u.there /\ [u EXCEPT !.result = r].ledger = u.ledger
           /\ [u EXCEPT !.result = r].result = r
           /\ [u EXCEPT !.there = TRUE].there = TRUE /\ [u EXCEPT !.there = TRUE].ledger = u.ledger
           /\ [u EXCEPT !.there = TRUE].result = u.result
  BY DEF Units

LEMMA StrangerFrame ==
    ASSUME OrphansInv, StrangerBegins
    PROVE  /\ RestStays /\ UNCHANGED unit
           /\ \E n : /\ Grown(n) /\ n.role = "stranger" /\ n.group = n.pid
                     /\ n.attempt = 0 /\ n.noted = FALSE
  <1>1. RestStays /\ UNCHANGED unit
    BY DEF StrangerBegins, RestStays, attemptVars, diskVars
  <1>2. PICK p \in FreePids : Begins(p, "stranger", 0)
    BY DEF StrangerBegins
  <1>3. PICK n : n = Process(p, p, "stranger", 0, FALSE)
    OBVIOUS
  <1>4. /\ n \in Processes /\ n.pid = p /\ n.start = born[p] + 1 /\ n.group = p
        /\ n.role = "stranger" /\ n.attempt = 0 /\ n.noted = FALSE
    <2>1. p \in Pids /\ "stranger" \in Roles /\ 0 \in 0 .. MaxAttempts /\ FALSE \in BOOLEAN
      BY FreeIsFree, OrphansAssumption DEF Roles
    <2>3. born[p] + 1 \in 1 .. MaxBorn
      BY FreeIsFree, OrphansAssumption
    <2> QED
      BY <1>3, <2>1, <2>3 DEF Process, Processes
  <1>5. Grown(n)
    BY <1>2, <1>3, <1>4 DEF Grown, Begins
  <1> QED
    BY <1>1, <1>4, <1>5

LEMMA ForkFrame ==
    ASSUME OrphansInv, Forks
    PROVE  /\ RestStays /\ UNCHANGED unit
           /\ \E b \in procs : \E n :
                 /\ Grown(n) /\ n.role = b.role /\ n.group = b.pid
                 /\ n.group = b.group /\ n.attempt = b.attempt /\ n.noted = b.noted
  <1>1. RestStays /\ UNCHANGED unit
    BY DEF Forks, RestStays, attemptVars, diskVars
  <1>2. PICK b \in procs, p \in FreePids :
           /\ GroupOf(b.pid) = {b}
           /\ procs' = procs \cup {Process(p, b.group, b.role, b.attempt, b.noted)}
           /\ born' = [born EXCEPT ![p] = @ + 1]
    BY DEF Forks
  <1>3. boot' = boot
    BY DEF Forks
  <1>4. PICK n : n = Process(p, b.group, b.role, b.attempt, b.noted)
    OBVIOUS
  <1>5. b \in Processes /\ b.group = b.pid
    BY <1>2 DEF OrphansInv, GroupsShape, GroupOf
  <1>6. /\ n \in Processes /\ n.pid = p /\ n.start = born[p] + 1 /\ n.group = b.group
        /\ n.role = b.role /\ n.attempt = b.attempt /\ n.noted = b.noted
    <2>1. /\ b.group \in Pids /\ b.role \in Roles /\ b.attempt \in 0 .. MaxAttempts
          /\ b.noted \in BOOLEAN
      BY <1>5 DEF Processes
    <2> QED
      BY <1>4, <2>1, ProcessFields
  <1>7. Grown(n)
    BY <1>2, <1>3, <1>4, <1>6 DEF Grown
  <1> QED
    BY <1>1, <1>5, <1>6, <1>7

LEMMA PolicyFrame ==
    ASSUME OrphansInv, StartsPolicy
    PROVE  /\ at = "serving" /\ at' = "notingPolicy" /\ attempt' = attempt + 1
           /\ attempt < MaxAttempts
           /\ UNCHANGED <<todo, bench, got, leaving, record, decided, gap, accidents>>
           /\ unit' \in Units /\ unit'.there = TRUE /\ unit'.ledger = unit.ledger
           /\ unit'.result = unit.result
           /\ \E n : /\ Grown(n) /\ n.role = "policy" /\ n.group = n.pid /\ n.attempt = attempt'
                     /\ n.noted = FALSE /\ policy' = [pid |-> n.pid, start |-> n.start]
  <1>1. /\ at = "serving" /\ at' = "notingPolicy" /\ attempt' = attempt + 1
        /\ UNCHANGED <<todo, bench, got, leaving, record, decided, gap, accidents>>
        /\ unit' = [unit EXCEPT !.there = TRUE]
    BY DEF StartsPolicy, Goes
  <1>2. attempt < MaxAttempts /\ unit \in Units
    BY <1>1 DEF OrphansInv, CountsInv, GroupsShape
  <1>3. /\ unit' \in Units /\ unit'.there = TRUE /\ unit'.ledger = unit.ledger
        /\ unit'.result = unit.result
    <2>1. unit.ledger \in Seq(Entries) /\ unit.result \in 0 .. MaxAttempts
      BY <1>2 DEF Units
    <2> QED
      BY <1>1, <1>2, <2>1, UnitFields
  <1>4. PICK p \in FreePids : Begins(p, "policy", attempt + 1) /\ policy' = [pid |-> p, start |-> born[p] + 1]
    BY DEF StartsPolicy
  <1>5. PICK n : n = Process(p, p, "policy", attempt + 1, FALSE)
    OBVIOUS
  <1>6. /\ n \in Processes /\ n.pid = p /\ n.start = born[p] + 1 /\ n.group = p
        /\ n.role = "policy" /\ n.attempt = attempt + 1 /\ n.noted = FALSE
    <2>1. attempt + 1 \in 0 .. MaxAttempts
      BY <1>2, OrphansAssumption DEF OrphansInv, GroupsShape
    <2>2. p \in Pids /\ "policy" \in Roles /\ FALSE \in BOOLEAN
      BY FreeIsFree DEF Roles
    <2>3. born[p] + 1 \in 1 .. MaxBorn
      BY FreeIsFree, OrphansAssumption
    <2> QED
      BY <1>5, <2>1, <2>2, <2>3 DEF Process, Processes
  <1>7. Grown(n)
    BY <1>4, <1>5, <1>6 DEF Grown, Begins
  <1> QED
    BY <1>1, <1>2, <1>3, <1>4, <1>6, <1>7

LEMMA BenchmarkFrame ==
    ASSUME OrphansInv, StartsBenchmark
    PROVE  /\ at = "cleared" /\ at' = "notingBench"
           /\ UNCHANGED <<todo, policy, got, leaving, attempt, unit, record, decided, gap, accidents>>
           /\ \E n : /\ Grown(n) /\ n.role = "benchmark" /\ n.group = n.pid /\ n.attempt = attempt
                     /\ n.noted = FALSE /\ bench' = [pid |-> n.pid, start |-> n.start]
  <1>1. /\ at = "cleared" /\ at' = "notingBench"
        /\ UNCHANGED <<todo, policy, got, leaving, attempt, unit, record, decided, gap, accidents>>
    BY DEF StartsBenchmark, Goes, diskVars
  <1>4. PICK p \in FreePids : Begins(p, "benchmark", attempt) /\ bench' = [pid |-> p, start |-> born[p] + 1]
    BY DEF StartsBenchmark
  <1>5. PICK n : n = Process(p, p, "benchmark", attempt, FALSE)
    OBVIOUS
  <1>6. /\ n \in Processes /\ n.pid = p /\ n.start = born[p] + 1 /\ n.group = p
        /\ n.role = "benchmark" /\ n.attempt = attempt /\ n.noted = FALSE
    <2>2. p \in Pids /\ "benchmark" \in Roles /\ FALSE \in BOOLEAN /\ attempt \in 0 .. MaxAttempts
      BY FreeIsFree DEF Roles, OrphansInv, GroupsShape
    <2>3. born[p] + 1 \in 1 .. MaxBorn
      BY FreeIsFree, OrphansAssumption
    <2> QED
      BY <1>5, <2>2, <2>3 DEF Process, Processes
  <1>7. Grown(n)
    BY <1>4, <1>5, <1>6 DEF Grown, Begins
  <1> QED
    BY <1>1, <1>4, <1>6, <1>7

(* Ledger.started, as it goes well and as it fails. *)
Notes(g) ==
    /\ unit' \in Units /\ unit'.ledger = Append(unit.ledger, Entry(g))
    /\ unit'.there = unit.there /\ unit'.result = unit.result
    /\ NotedAs(g.pid) /\ UNCHANGED <<gap, accidents>>
Misses ==
    /\ UNCHANGED <<unit, procs, born, boot>> /\ gap' = TRUE
    /\ accidents' = accidents + 1 /\ accidents < MaxAccidents

LEMMA NoteFrame ==
    ASSUME OrphansInv, NotesPolicy \/ NotesBenchmark
    PROVE  /\ UNCHANGED <<todo, policy, bench, got, leaving, attempt, record, decided>>
           /\ \/ at = "notingPolicy" /\ at' = "served" /\ (Notes(policy) \/ Misses)
                 /\ Entry(policy) \in Entries /\ Entry(policy).pgid = policy.pid
                 /\ Entry(policy).start = policy.start /\ Entry(policy).boot = boot
              \/ at = "notingBench" /\ at' = "running" /\ (Notes(bench) \/ Misses)
                 /\ Entry(bench) \in Entries /\ Entry(bench).pgid = bench.pid
                 /\ Entry(bench).start = bench.start /\ Entry(bench).boot = boot
  <1>1. UNCHANGED <<todo, policy, bench, got, leaving, attempt, record, decided, born, boot>>
    BY DEF NotesPolicy, NotesBenchmark, Goes, attemptVars
  <1>2. ASSUME NEW g \in HeldGroups, g.pid \in Pids, g.start \in 1 .. born[g.pid]
        PROVE  /\ Entry(g) \in Entries /\ Entry(g).pgid = g.pid
               /\ Entry(g).start = g.start /\ Entry(g).boot = boot
    <2>1. g.start \in 1 .. MaxBorn /\ boot \in 0 .. MaxAccidents
      <3>1. born[g.pid] \in 0 .. MaxBorn /\ boot \in 0 .. MaxAccidents
        BY <1>2 DEF OrphansInv, GroupsShape
      <3> QED
        BY <1>2, <3>1, OrphansAssumption
    <2> QED
      BY <1>2, <2>1 DEF Entry, Entries
  <1>3. ASSUME NEW g, Entry(g) \in Entries, Started(g)
        PROVE  Notes(g) \/ Misses
    <2>1. CASE Accident /\ gap' = TRUE /\ UNCHANGED <<unit, procs>>
      BY <1>1, <2>1 DEF Misses, Accident
    <2>2. CASE /\ unit' = [unit EXCEPT !.ledger = Append(@, Entry(g))]
               /\ procs' = {[p EXCEPT !.noted = @ \/ p.group = g.pid] : p \in procs}
               /\ NoAccident
      <3>1. unit \in Units /\ unit.ledger \in Seq(Entries) /\ unit.result \in 0 .. MaxAttempts
        BY DEF OrphansInv, GroupsShape, Units
      <3>2. Append(unit.ledger, Entry(g)) \in Seq(Entries)
        BY <1>3, <3>1
      <3>3. unit' = [unit EXCEPT !.ledger = Append(unit.ledger, Entry(g))]
        BY <2>2
      <3>4. /\ unit' \in Units /\ unit'.ledger = Append(unit.ledger, Entry(g))
            /\ unit'.there = unit.there /\ unit'.result = unit.result
        BY <3>1, <3>2, <3>3, UnitFields
      <3>5. NotedAs(g.pid) /\ UNCHANGED <<gap, accidents>>
        BY <1>1, <2>2 DEF NotedAs, Noting, NoAccident
      <3> QED
        BY <3>4, <3>5 DEF Notes
    <2> QED
      BY <1>3, <2>1, <2>2 DEF Started
  <1>4. CASE NotesPolicy
    <2>1. at = "notingPolicy" /\ at' = "served" /\ Started(policy)
      BY <1>4 DEF NotesPolicy, Goes
    <2>2. policy \in HeldGroups /\ policy.pid \in Pids /\ policy.start \in 1 .. born[policy.pid]
      BY <2>1 DEF OrphansInv, GroupsShape, HeldInv, Before
    <2> QED
      BY <1>1, <1>2, <1>3, <2>1, <2>2
  <1>5. CASE NotesBenchmark
    <2>1. at = "notingBench" /\ at' = "running" /\ Started(bench)
      BY <1>5 DEF NotesBenchmark, Goes
    <2>2. bench \in HeldGroups /\ bench.pid \in Pids
      BY <2>1 DEF OrphansInv, GroupsShape, HeldInv
    <2>3. bench # NoGroup
      BY <2>2, OrphansAssumption DEF NoGroup
    <2>4. bench.start \in 1 .. born[bench.pid]
      BY <2>3 DEF OrphansInv, HeldInv
    <2> QED
      BY <1>1, <1>2, <1>3, <2>1, <2>2, <2>4
  <1> QED
    BY <1>4, <1>5

(* Ledger.ended, as it goes well and as it fails. *)
Strikes(pid) ==
    /\ unit' \in Units /\ unit'.there = unit.there /\ unit'.result = unit.result
    /\ unit'.ledger = Struck(unit.ledger, pid) \/ unit' = unit
    /\ accidents' \in accidents .. MaxAccidents
    /\ UNCHANGED <<gap, procs, born, boot, todo, got, attempt, record, decided>>

LEMMA StrikeFrame ==
    ASSUME OrphansInv, StrikesBenchmark \/ StrikesPolicy
    PROVE  \/ /\ at = "killed" /\ at' = "killed" /\ Strikes(bench.pid) /\ bench' = NoGroup
              /\ UNCHANGED <<policy, leaving>>
           \/ /\ at = "stopped" /\ Strikes(policy.pid) /\ policy' = NoGroup
              /\ at' = (IF leaving THEN "down" ELSE "recording") /\ leaving' = FALSE /\ UNCHANGED bench
  <1>1. UNCHANGED <<procs, born, boot, todo, got, attempt, record, decided>>
    BY DEF StrikesBenchmark, StrikesPolicy, Goes, machineVars
  <1>2. ASSUME NEW g, Ended(g) PROVE Strikes(g.pid)
    <2>1. unit \in Units /\ unit.ledger \in Seq(Entries) /\ unit.result \in 0 .. MaxAttempts
      BY DEF OrphansInv, GroupsShape, Units
    <2>2. accidents \in 0 .. MaxAccidents /\ MaxAccidents \in Nat
      BY OrphansAssumption DEF OrphansInv, GroupsShape
    <2>3. CASE Accident /\ UNCHANGED <<unit, gap>>
      BY <1>1, <2>1, <2>2, <2>3 DEF Strikes, Accident
    <2>4. CASE unit' = [unit EXCEPT !.ledger = Struck(@, g.pid)] /\ NoAccident
      <3>1. Struck(unit.ledger, g.pid) \in Seq(Entries)
        BY <2>1, StruckEntries
      <3>2. unit' = [unit EXCEPT !.ledger = Struck(unit.ledger, g.pid)]
        BY <2>4
      <3>3. /\ unit' \in Units /\ unit'.there = unit.there /\ unit'.result = unit.result
            /\ unit'.ledger = Struck(unit.ledger, g.pid)
        BY <2>1, <3>1, <3>2, UnitFields
      <3> QED
        BY <1>1, <2>2, <2>4, <3>3 DEF Strikes, NoAccident
    <2> QED
      BY <1>2, <2>3, <2>4 DEF Ended
  <1>3. CASE StrikesBenchmark
    BY <1>2, <1>3 DEF StrikesBenchmark, Goes
  <1>4. CASE StrikesPolicy
    BY <1>2, <1>4 DEF StrikesPolicy, Goes
  <1> QED
    BY <1>3, <1>4

(* A step that only ends processes. *)
LEMMA ShrinkFrame ==
    ASSUME Exits \/ Reaps \/ KillsBenchmark \/ StopsPolicy
    PROVE  /\ Shrunk
           /\ UNCHANGED <<policy, bench, got, attempt, unit, record, decided, gap, accidents>>
           /\ \/ Exits /\ UNCHANGED <<at, todo, leaving>>
              \/ /\ Reaps /\ UNCHANGED <<at, leaving>> /\ at \in {"reaping", "rereaping"}
                 /\ todo # <<>> /\ todo' = SubSeq(todo, 1, Len(todo) - 1)
              \/ /\ at \in {"running", "waited"} /\ at' = "killed" /\ procs' = procs \ GroupOf(bench.pid)
                 /\ leaving' \in BOOLEAN /\ UNCHANGED todo
              \/ /\ at \in {"stopping", "seen"} /\ at' = "stopped" /\ procs' = procs \ GroupOf(policy.pid)
                 /\ UNCHANGED <<todo, leaving>>
  <1>1. CASE Exits
    BY <1>1 DEF Exits, Shrunk, attemptVars, diskVars
  <1>2. CASE Reaps
    BY <1>2 DEF Reaps, Shrunk, Killed, machineVars, attemptVars, diskVars
  <1>3. CASE KillsBenchmark
    <2>1. leaving' \in BOOLEAN
      BY <1>3 DEF KillsBenchmark
    <2> QED
      BY <1>3, <2>1 DEF KillsBenchmark, Shrunk, Killed, Goes, diskVars
  <1>4. CASE StopsPolicy
    BY <1>4 DEF StopsPolicy, Shrunk, Killed, Goes, attemptVars, diskVars
  <1> QED
    BY <1>1, <1>2, <1>3, <1>4

(* A step of the orchestrator that leaves the processes and the ledger. *)
LEMMA QuietFrame ==
    ASSUME OrphansInv, QuietStep
    PROVE  /\ UNCHANGED <<procs, born, boot, policy, bench, attempt, gap, accidents>>
           /\ \/ /\ at = "down" /\ at' = "reaping" /\ todo' = unit.ledger
                 /\ UNCHANGED <<got, leaving, unit, record, decided>>
              \/ /\ at = "idle" /\ attempt < MaxAttempts
                 /\ \/ unit.there /\ at' = "rereaping" /\ todo' = unit.ledger
                    \/ ~unit.there /\ at' = "serving" /\ UNCHANGED todo
                 /\ UNCHANGED <<got, leaving, unit, record, decided>>
              \/ /\ at \in {"served", "cleared"} /\ at' = "stopping" /\ leaving' \in BOOLEAN
                 /\ UNCHANGED <<todo, got, unit, record, decided>>
              \/ /\ at = "served" /\ at' = "cleared"
                 /\ unit' \in Units /\ unit'.there = unit.there /\ unit'.result = 0
                 /\ unit'.ledger = unit.ledger
                 /\ UNCHANGED <<todo, got, leaving, record, decided>>
              \/ /\ \/ at = "running" /\ at' = "waited"
                    \/ at = "stopping" /\ at' = "seen"
                 /\ UNCHANGED <<todo, got, leaving, unit, record, decided>>
              \/ /\ at = "killed" /\ bench = NoGroup /\ at' = "stopping"
                 /\ got' \in (IF leaving THEN {0} ELSE {0, unit.result})
                 /\ UNCHANGED <<todo, leaving, unit, record, decided>>
              \/ /\ at = "recording" /\ at' = "idle" /\ got' = 0
                 /\ record' = [author |-> got, attempt |-> attempt]
                 /\ UNCHANGED <<todo, leaving, unit, decided>>
              \/ /\ at = "idle" /\ at' = "down" /\ decided' = TRUE
                 /\ UNCHANGED <<todo, got, leaving, unit, record>>
  <1>1. UNCHANGED <<procs, born, boot, policy, bench, attempt, gap, accidents>>
    BY DEF QuietStep, Starts, ComesToUnit, GoesWithout, ClearsStale, Waits, ReadsResult,
           SeesPolicyEnd, Records, Decides, machineVars, attemptVars
  <1>2. CASE Starts
    BY <1>1, <1>2 DEF Starts, attemptVars, diskVars
  <1>3. CASE ComesToUnit
    BY <1>1, <1>3 DEF ComesToUnit, Goes, attemptVars, diskVars
  <1>4. CASE GoesWithout
    <2>1. leaving' \in BOOLEAN
      BY <1>4 DEF GoesWithout
    <2> QED
      BY <1>1, <1>4, <2>1 DEF GoesWithout, Goes, diskVars
  <1>5. CASE ClearsStale
    <2>1. unit \in Units /\ unit.ledger \in Seq(Entries) /\ 0 \in 0 .. MaxAttempts
      BY OrphansAssumption DEF OrphansInv, GroupsShape, Units
    <2>2. unit' = [unit EXCEPT !.result = 0]
      BY <1>5 DEF ClearsStale
    <2>3. unit' \in Units /\ unit'.there = unit.there /\ unit'.result = 0 /\ unit'.ledger = unit.ledger
      BY <2>1, <2>2, UnitFields
    <2> QED
      BY <1>1, <1>5, <2>3 DEF ClearsStale, Goes, attemptVars
  <1>6. CASE ReadsResult
    BY <1>1, <1>6 DEF ReadsResult, Goes, diskVars
  <1>7. CASE Records
    BY <1>1, <1>7 DEF Records, Goes
  <1>8. CASE Decides
    BY <1>1, <1>8 DEF Decides, Goes, attemptVars
  <1>9. CASE Waits \/ SeesPolicyEnd
    BY <1>1, <1>9 DEF Waits, SeesPolicyEnd, Goes, attemptVars, diskVars
  <1> QED
    BY <1>2, <1>3, <1>4, <1>5, <1>6, <1>7, <1>8, <1>9 DEF QuietStep

(* A result is written by what runs; a ledger is emptied, or moved aside. *)
LEMMA UnitFrame ==
    ASSUME OrphansInv, Writes \/ Reaped \/ MovesAside
    PROVE  /\ UNCHANGED <<procs, born, boot, todo, policy, bench, got, leaving, attempt,
                          record, decided, gap, accidents>>
           /\ unit' \in Units
           /\ \/ /\ UNCHANGED at /\ unit.there /\ unit'.there = unit.there /\ unit'.ledger = unit.ledger
                 /\ \E b \in procs : b.role = "benchmark" /\ unit'.result = b.attempt
              \/ /\ todo = <<>> /\ unit'.ledger = <<>>
                 /\ unit'.there = unit.there /\ unit'.result = unit.result
                 /\ \/ at = "reaping" /\ at' = "idle"
                    \/ at = "rereaping" /\ at' = "moving"
              \/ /\ at = "moving" /\ at' = "serving" /\ unit'.there = FALSE
                 /\ unit'.ledger = <<>> /\ unit'.result = 0
  <1>1. UNCHANGED <<procs, born, boot, todo, policy, bench, got, leaving, attempt,
                    record, decided, gap, accidents>>
    BY DEF Writes, Reaped, MovesAside, Goes, machineVars, attemptVars
  <1>2. unit \in Units /\ unit.ledger \in Seq(Entries) /\ unit.result \in 0 .. MaxAttempts
    BY DEF OrphansInv, GroupsShape, Units
  <1>3. CASE Writes
    <2>1. PICK b \in procs : b.role = "benchmark" /\ unit' = [unit EXCEPT !.result = b.attempt]
      BY <1>3 DEF Writes
    <2>2. b.attempt \in 0 .. MaxAttempts
      BY DEF OrphansInv, GroupsShape, Processes
    <2>3. /\ unit' \in Units /\ unit'.there = unit.there /\ unit'.ledger = unit.ledger
          /\ unit'.result = b.attempt
      BY <1>2, <2>1, <2>2, UnitFields
    <2> QED
      BY <1>1, <1>3, <2>1, <2>3 DEF Writes
  <1>4. CASE Reaped
    <2>1. unit' = [unit EXCEPT !.ledger = <<>>] /\ <<>> \in Seq(Entries)
      BY <1>4 DEF Reaped
    <2>2. /\ unit' \in Units /\ unit'.there = unit.there /\ unit'.ledger = <<>>
          /\ unit'.result = unit.result
      BY <1>2, <2>1, UnitFields
    <2> QED
      BY <1>1, <1>4, <2>2 DEF Reaped, Goes
  <1>5. CASE MovesAside
    <2>1. NoUnit \in Units
      BY OrphansAssumption DEF NoUnit, Units
    <2> QED
      BY <1>1, <1>5, <2>1 DEF MovesAside, Goes, NoUnit
  <1> QED
    BY <1>3, <1>4, <1>5

(* The orchestrator's end, or the machine's. *)
LEMMA EndFrame ==
    ASSUME KillsOrchestrator \/ Boots
    PROVE  /\ at' = "down" /\ todo' = <<>> /\ policy' = NoGroup /\ bench' = NoGroup
           /\ got' = 0 /\ leaving' = FALSE
           /\ UNCHANGED <<attempt, unit, record, decided>>
           /\ accidents' = accidents + 1 /\ accidents < MaxAccidents
           /\ \/ /\ UNCHANGED <<procs, born, boot>>
                 /\ gap' = (gap \/ at \in {"notingPolicy", "notingBench"})
              \/ /\ procs' = {} /\ born' = [p \in Pids |-> 0] /\ boot' = boot + 1 /\ UNCHANGED gap
  <1>1. CASE KillsOrchestrator
    BY <1>1 DEF KillsOrchestrator, Forgets, Accident, diskVars, machineVars
  <1>2. CASE Boots
    BY <1>2 DEF Boots, Forgets, Accident, diskVars
  <1> QED
    BY <1>1, <1>2

(* Every step is one of these. *)
Kinds ==
    \/ StrangerBegins \/ Forks \/ StartsPolicy \/ StartsBenchmark
    \/ NotesPolicy \/ NotesBenchmark \/ StrikesBenchmark \/ StrikesPolicy
    \/ Exits \/ Reaps \/ KillsBenchmark \/ StopsPolicy
    \/ QuietStep \/ Writes \/ Reaped \/ MovesAside \/ KillsOrchestrator \/ Boots

LEMMA KindsCover == ASSUME GroupsNext PROVE Kinds
  BY DEF GroupsNext, Kinds, QuietStep

-----------------------------------------------------------------------------
(* Each part of the invariant is kept by every step. *)

LEMMA GrownFacts ==
    ASSUME OrphansInv, NEW n, Grown(n)
    PROVE  /\ procs' \subseteq Processes /\ born' \in [Pids -> 0 .. MaxBorn] /\ boot' \in 0 .. MaxAccidents
           /\ procs' = procs \cup {n} /\ n \in Processes /\ boot' = boot
           /\ \A q \in procs : n.pid # q.pid /\ n.pid # q.group
           /\ n.pid = policy.pid => at \in {"seen", "stopped"}
           /\ n.pid = bench.pid => at \in {"waited", "killed"}
           /\ n.pid \in Pids /\ n.start = born'[n.pid]
           /\ \A p \in Pids : born'[p] >= born[p] /\ born[p] \in Nat /\ born'[p] \in Nat
           /\ n.start > born[n.pid] /\ n.start \in 1 .. MaxBorn
  <1>1. /\ procs' = procs \cup {n} /\ n \in Processes /\ boot' = boot /\ n.pid \in FreePids
        /\ n.start = born[n.pid] + 1 /\ born' = [born EXCEPT ![n.pid] = @ + 1]
    BY DEF Grown
  <1>2. /\ n.pid \in Pids /\ born[n.pid] \in 0 .. MaxBorn - 1
        /\ \A q \in procs : n.pid # q.pid /\ n.pid # q.group
        /\ n.pid = policy.pid => at \in {"seen", "stopped"}
        /\ n.pid = bench.pid => at \in {"waited", "killed"}
    BY <1>1, FreeIsFree
  <1>3. procs \subseteq Processes /\ born \in [Pids -> 0 .. MaxBorn] /\ boot \in 0 .. MaxAccidents
    BY DEF OrphansInv, GroupsShape
  <1>4. procs' \subseteq Processes /\ boot' \in 0 .. MaxAccidents
    BY <1>1, <1>3
  <1>5. born' \in [Pids -> 0 .. MaxBorn] /\ n.start = born'[n.pid]
    BY <1>1, <1>2, <1>3, OrphansAssumption
  <1>6. \A p \in Pids : born'[p] >= born[p] /\ born[p] \in Nat /\ born'[p] \in Nat
    BY <1>1, <1>2, <1>3, OrphansAssumption
  <1>7. n.start > born[n.pid] /\ n.start \in 1 .. MaxBorn
    BY <1>1, <1>2, OrphansAssumption
  <1> QED
    BY <1>1, <1>2, <1>4, <1>5, <1>6, <1>7

LEMMA NotedFacts ==
    ASSUME OrphansInv, NEW pid, NotedAs(pid)
    PROVE  /\ procs' \subseteq Processes /\ UNCHANGED <<born, boot>>
           /\ \A q \in procs' : \E p \in procs :
                 /\ q.pid = p.pid /\ q.start = p.start /\ q.group = p.group /\ q.role = p.role
                 /\ q.attempt = p.attempt /\ q.noted = (p.noted \/ p.group = pid)
                 /\ q = Noting(p, pid)
           /\ \A p \in procs : /\ Noting(p, pid) \in procs'
                               /\ Noting(p, pid).pid = p.pid /\ Noting(p, pid).group = p.group
                               /\ Noting(p, pid).start = p.start
                               /\ p.group # pid => Noting(p, pid) = p
  <1>1. procs' = {Noting(p, pid) : p \in procs} /\ UNCHANGED <<born, boot>>
    BY DEF NotedAs
  <1>2. \A p \in procs : p \in Processes
    BY DEF OrphansInv, GroupsShape
  <1>3. \A p \in procs :
           /\ Noting(p, pid) \in Processes
           /\ Noting(p, pid).pid = p.pid /\ Noting(p, pid).start = p.start
           /\ Noting(p, pid).group = p.group /\ Noting(p, pid).role = p.role
           /\ Noting(p, pid).attempt = p.attempt
           /\ Noting(p, pid).noted = (p.noted \/ p.group = pid)
           /\ p.group # pid => Noting(p, pid) = p
    BY <1>2, NotingFields
  <1>4. procs' \subseteq Processes
    BY <1>1, <1>3
  <1>5. \A q \in procs' : \E p \in procs : q = Noting(p, pid)
    BY <1>1
  <1>6. \A p \in procs : Noting(p, pid) \in procs'
    BY <1>1
  <1> QED
    BY <1>1, <1>3, <1>4, <1>5, <1>6

LEMMA GroupsShapeStep == ASSUME OrphansInv, Kinds PROVE GroupsShape'
  <1> USE OrphansAssumption
  <1>0. GroupsShape
    BY DEF OrphansInv
  <1>1. CASE StrangerBegins \/ Forks
    <2>1. PICK n : Grown(n)
      BY <1>1, StrangerFrame, ForkFrame
    <2>2. RestStays /\ UNCHANGED unit
      BY <1>1, StrangerFrame, ForkFrame
    <2> QED
      BY <1>0, <2>1, <2>2, GrownFacts DEF GroupsShape, RestStays
  <1>2. CASE StartsPolicy
    <2>1. PICK n : Grown(n) /\ policy' = [pid |-> n.pid, start |-> n.start]
      BY <1>2, PolicyFrame
    <2>2. /\ procs' \subseteq Processes /\ born' \in [Pids -> 0 .. MaxBorn] /\ boot' \in 0 .. MaxAccidents
          /\ n.pid \in Pids /\ n.start \in 1 .. MaxBorn
      BY <2>1, GrownFacts
    <2>3. policy' \in HeldGroups
      BY <2>1, <2>2 DEF HeldGroups
    <2>4. attempt' \in 0 .. MaxAttempts
      BY <1>0, <1>2, PolicyFrame DEF GroupsShape
    <2>5. /\ at' = "notingPolicy" /\ unit' \in Units
          /\ UNCHANGED <<todo, bench, got, leaving, record, decided, gap, accidents>>
      BY <1>2, PolicyFrame
    <2> QED
      BY <1>0, <2>2, <2>3, <2>4, <2>5 DEF GroupsShape, Places
  <1>3. CASE StartsBenchmark
    <2>1. PICK n : Grown(n) /\ bench' = [pid |-> n.pid, start |-> n.start]
      BY <1>3, BenchmarkFrame
    <2>2. /\ procs' \subseteq Processes /\ born' \in [Pids -> 0 .. MaxBorn] /\ boot' \in 0 .. MaxAccidents
          /\ n.pid \in Pids /\ n.start \in 1 .. MaxBorn
      BY <2>1, GrownFacts
    <2>3. bench' \in HeldGroups
      BY <2>1, <2>2 DEF HeldGroups
    <2>4. /\ at' = "notingBench"
          /\ UNCHANGED <<todo, policy, got, leaving, attempt, unit, record, decided, gap, accidents>>
      BY <1>3, BenchmarkFrame
    <2> QED
      BY <1>0, <2>2, <2>3, <2>4 DEF GroupsShape, Places
  <1>4. CASE NotesPolicy \/ NotesBenchmark
    <2>1. /\ UNCHANGED <<todo, policy, bench, got, leaving, attempt, record, decided>>
          /\ at' \in Places
      BY <1>4, NoteFrame DEF Places
    <2>2. PICK g : Notes(g) \/ Misses
      BY <1>4, NoteFrame
    <2>3. CASE Notes(g)
      <3>1. procs' \subseteq Processes /\ UNCHANGED <<born, boot>>
        BY <2>3, NotedFacts DEF Notes
      <3> QED
        BY <1>0, <2>1, <2>3, <3>1 DEF GroupsShape, Notes
    <2>4. CASE Misses
      BY <1>0, <2>1, <2>4 DEF GroupsShape, Misses
    <2> QED
      BY <2>2, <2>3, <2>4
  <1>5. CASE StrikesBenchmark \/ StrikesPolicy
    <2>1. PICK pid : Strikes(pid)
      BY <1>5, StrikeFrame
    <2>2. at' \in Places
      BY <1>5, StrikeFrame DEF Places
    <2>3. NoGroup \in HeldGroups
      BY DEF NoGroup, HeldGroups
    <2>4. policy' \in HeldGroups /\ bench' \in HeldGroups
      BY <1>0, <1>5, <2>3, StrikeFrame DEF GroupsShape
    <2>5. leaving' \in BOOLEAN
      BY <1>0, <1>5, StrikeFrame DEF GroupsShape
    <2>6. accidents' \in 0 .. MaxAccidents
      BY <1>0, <2>1 DEF GroupsShape, Strikes
    <2> QED
      BY <1>0, <2>1, <2>2, <2>4, <2>5, <2>6 DEF GroupsShape, Strikes
  <1>6. CASE Exits \/ Reaps \/ KillsBenchmark \/ StopsPolicy
    <2>1. /\ procs' \subseteq procs
          /\ UNCHANGED <<born, boot, policy, bench, got, attempt, unit, record, decided, gap, accidents>>
      BY <1>6, ShrinkFrame DEF Shrunk
    <2>2. at' \in Places
      BY <1>0, <1>6, ShrinkFrame DEF Places, GroupsShape
    <2>3. leaving' \in BOOLEAN
      BY <1>0, <1>6, ShrinkFrame DEF GroupsShape
    <2>4. todo' = todo \/ (todo # <<>> /\ todo' = SubSeq(todo, 1, Len(todo) - 1))
      BY <1>6, ShrinkFrame
    <2>5. todo' \in Seq(Entries)
      BY <1>0, <2>4 DEF GroupsShape
    <2> QED
      BY <1>0, <2>1, <2>2, <2>3, <2>5 DEF GroupsShape
  <1>7. CASE QuietStep
    <2>1. UNCHANGED <<procs, born, boot, policy, bench, attempt, gap, accidents>>
      BY <1>7, QuietFrame
    <2>2. at' \in Places
      BY <1>7, QuietFrame DEF Places
    <2>3. unit.ledger \in Seq(Entries) /\ unit.result \in 0 .. MaxAttempts
      BY <1>0 DEF GroupsShape, Units
    <2>4. todo' \in Seq(Entries) /\ unit' \in Units
      BY <1>0, <1>7, <2>3, QuietFrame DEF GroupsShape
    <2>5. got' = got \/ got' = 0 \/ got' = unit.result
      BY <1>7, QuietFrame
    <2>6. got' \in 0 .. MaxAttempts
      BY <1>0, <2>3, <2>5 DEF GroupsShape
    <2>7. leaving' \in BOOLEAN /\ decided' \in BOOLEAN
      BY <1>0, <1>7, QuietFrame DEF GroupsShape
    <2>8. record' = record \/ record' = [author |-> got, attempt |-> attempt]
      BY <1>7, QuietFrame
    <2>9. record' \in Results
      BY <1>0, <2>8 DEF GroupsShape, Results
    <2> QED
      BY <1>0, <2>1, <2>2, <2>4, <2>6, <2>7, <2>9 DEF GroupsShape
  <1>8. CASE Writes \/ Reaped \/ MovesAside
    <2>1. /\ UNCHANGED <<procs, born, boot, todo, policy, bench, got, leaving, attempt,
                         record, decided, gap, accidents>>
          /\ unit' \in Units
      BY <1>8, UnitFrame
    <2>2. at' \in Places
      BY <1>0, <1>8, UnitFrame DEF Places, GroupsShape
    <2> QED
      BY <1>0, <2>1, <2>2 DEF GroupsShape
  <1>9. CASE KillsOrchestrator \/ Boots
    <2>1. at' \in Places /\ got' \in 0 .. MaxAttempts /\ <<>> \in Seq(Entries)
      <3>1. at' = "down" /\ got' = 0
        BY <1>9, EndFrame
      <3> QED
        BY <3>1 DEF Places
    <2>2. NoGroup \in HeldGroups
      BY DEF NoGroup, HeldGroups
    <2>3. accidents' \in 0 .. MaxAccidents
      <3>1. accidents' = accidents + 1 /\ accidents < MaxAccidents
        BY <1>9, EndFrame
      <3> QED
        BY <1>0, <3>1 DEF GroupsShape
    <2>4. boot' \in 0 .. MaxAccidents
      <3>1. boot' = boot \/ boot' = boot + 1
        BY <1>9, EndFrame
      <3>2. boot <= accidents /\ accidents < MaxAccidents
        BY <1>9, EndFrame DEF OrphansInv, CountsInv
      <3> QED
        BY <1>0, <3>1, <3>2 DEF GroupsShape
    <2>5. procs' \subseteq Processes /\ born' \in [Pids -> 0 .. MaxBorn]
      <3>1. UNCHANGED <<procs, born>> \/ (procs' = {} /\ born' = [p \in Pids |-> 0])
        BY <1>9, EndFrame
      <3> QED
        BY <1>0, <3>1 DEF GroupsShape
    <2>6. gap' \in BOOLEAN
      <3>1. gap' = gap \/ gap' = (gap \/ at \in {"notingPolicy", "notingBench"})
        BY <1>9, EndFrame
      <3> QED
        BY <1>0, <3>1, Zenon DEF GroupsShape
    <2>7. /\ todo' = <<>> /\ policy' = NoGroup /\ bench' = NoGroup /\ leaving' = FALSE
          /\ UNCHANGED <<attempt, unit, record, decided>>
      BY <1>9, EndFrame
    <2> QED
      BY <1>0, <2>1, <2>2, <2>3, <2>4, <2>5, <2>6, <2>7 DEF GroupsShape
  <1> QED
    BY <1>1, <1>2, <1>3, <1>4, <1>5, <1>6, <1>7, <1>8, <1>9 DEF Kinds

LEMMA CountsStep == ASSUME OrphansInv, Kinds PROVE CountsInv'
  <1> USE OrphansAssumption
  <1>0. GroupsShape /\ CountsInv
    BY DEF OrphansInv
  <1>t. /\ \A p \in procs : p.pid \in Pids /\ p.start \in Nat /\ p.attempt \in Nat
        /\ attempt \in Nat /\ boot \in Nat /\ accidents \in Nat
        /\ \A p \in Pids : born[p] \in Nat
        /\ unit.result \in Nat
    BY <1>0 DEF GroupsShape, Processes, Units
  <1>1. CASE StrangerBegins \/ Forks
    <2>1. PICK n : Grown(n) /\ (n.attempt = 0 \/ \E b \in procs : n.attempt = b.attempt)
      BY <1>1, StrangerFrame, ForkFrame
    <2>2. UNCHANGED <<at, attempt, accidents, unit, boot>>
      BY <1>1, <2>1, GrownFacts, StrangerFrame, ForkFrame DEF RestStays
    <2>3. \A p \in procs' : p.attempt <= attempt /\ p.start <= born'[p.pid]
      BY <1>0, <1>t, <2>1, GrownFacts DEF CountsInv
    <2> QED
      BY <1>0, <2>2, <2>3 DEF CountsInv
  <1>2. CASE StartsPolicy
    <2>1. PICK n : Grown(n) /\ n.attempt = attempt'
      BY <1>2, PolicyFrame
    <2>2. /\ at' = "notingPolicy" /\ attempt' = attempt + 1 /\ UNCHANGED <<accidents, boot>>
          /\ unit'.there = TRUE /\ unit'.result = unit.result
      BY <1>2, <2>1, GrownFacts, PolicyFrame
    <2>3. \A p \in procs' : p.attempt <= attempt' /\ p.start <= born'[p.pid]
      <3>1. \A p \in procs : p.attempt <= attempt' /\ p.start <= born'[p.pid]
        BY <1>0, <1>t, <2>1, <2>2, GrownFacts DEF CountsInv
      <3>2. n.attempt <= attempt' /\ n.start <= born'[n.pid]
        BY <1>t, <2>1, <2>2, GrownFacts
      <3> QED
        BY <2>1, <3>1, <3>2, GrownFacts
    <2> QED
      BY <1>0, <1>t, <2>2, <2>3 DEF CountsInv
  <1>3. CASE StartsBenchmark
    <2>1. PICK n : Grown(n) /\ n.attempt = attempt
      BY <1>3, BenchmarkFrame
    <2>2. /\ at = "cleared" /\ at' = "notingBench" /\ UNCHANGED <<attempt, accidents, unit, boot>>
      BY <1>3, <2>1, GrownFacts, BenchmarkFrame
    <2>3. \A p \in procs' : p.attempt <= attempt /\ p.start <= born'[p.pid]
      BY <1>0, <1>t, <2>1, GrownFacts DEF CountsInv
    <2> QED
      BY <1>0, <2>2, <2>3 DEF CountsInv, Before
  <1>4. CASE NotesPolicy \/ NotesBenchmark
    <2>1. /\ at \in {"notingPolicy", "notingBench"} /\ at' \in {"served", "running"}
          /\ UNCHANGED attempt
      BY <1>4, NoteFrame
    <2>2. PICK g : Notes(g) \/ Misses
      BY <1>4, NoteFrame
    <2>3. CASE Notes(g)
      <3>1. \A p \in procs' : p.attempt <= attempt /\ p.start <= born'[p.pid]
        BY <1>0, <2>3, NotedFacts DEF CountsInv, Notes
      <3>2. UNCHANGED <<boot, accidents>> /\ unit'.there = unit.there /\ unit'.result = unit.result
        BY <2>3, NotedFacts DEF Notes
      <3> QED
        BY <1>0, <2>1, <3>1, <3>2 DEF CountsInv, Before
    <2>4. CASE Misses
      BY <1>0, <1>t, <2>1, <2>4 DEF CountsInv, Misses, Before
    <2> QED
      BY <2>2, <2>3, <2>4
  <1>5. CASE StrikesBenchmark \/ StrikesPolicy
    <2>1. PICK pid : Strikes(pid)
      BY <1>5, StrikeFrame
    <2>2. at \notin Before /\ at' \in {"killed", "down", "recording"}
      BY <1>5, StrikeFrame DEF Before
    <2>3. unit'.there = TRUE
      BY <1>0, <2>1, <2>2 DEF CountsInv, Strikes, GroupsShape, Units
    <2> QED
      BY <1>0, <1>t, <2>1, <2>2, <2>3 DEF CountsInv, Strikes
  <1>6. CASE Exits \/ Reaps \/ KillsBenchmark \/ StopsPolicy
    <2>1. procs' \subseteq procs /\ UNCHANGED <<born, boot, attempt, unit, accidents>>
      BY <1>6, ShrinkFrame DEF Shrunk
    <2>2. \/ at' = at
          \/ at \in {"running", "waited", "stopping", "seen"} /\ at' \in {"killed", "stopped"}
      BY <1>6, ShrinkFrame
    <2> QED
      BY <1>0, <2>1, <2>2 DEF CountsInv, Before
  <1>7. CASE QuietStep
    <2>1. UNCHANGED <<procs, born, boot, attempt, accidents>>
      BY <1>7, QuietFrame
    <2>2. /\ unit'.there = unit.there /\ unit'.ledger = unit.ledger
          /\ unit'.result \in {0, unit.result}
      BY <1>7, QuietFrame
    <2>3. \/ at' \in {"reaping", "idle", "down"}
          \/ at' \in {"rereaping", "serving"} /\ attempt < MaxAttempts
          \/ at \notin Before /\ at' \in {"stopping", "cleared", "waited", "seen"}
      BY <1>7, QuietFrame DEF Before
    <2> QED
      BY <1>0, <1>t, <2>1, <2>2, <2>3 DEF CountsInv, Before
  <1>8. CASE Writes \/ Reaped \/ MovesAside
    <2>1. UNCHANGED <<procs, born, boot, attempt, accidents>>
      BY <1>8, UnitFrame
    <2>2. CASE /\ UNCHANGED at /\ unit.there /\ unit'.there = unit.there
               /\ \E b \in procs : unit'.result = b.attempt
      BY <1>0, <1>t, <2>1, <2>2 DEF CountsInv
    <2>3. CASE /\ unit'.ledger = <<>> /\ unit'.there = unit.there /\ unit'.result = unit.result
               /\ \/ at = "reaping" /\ at' = "idle"
                  \/ at = "rereaping" /\ at' = "moving"
      BY <1>0, <2>1, <2>3 DEF CountsInv, Before
    <2>4. CASE /\ at = "moving" /\ at' = "serving" /\ unit'.there = FALSE
               /\ unit'.ledger = <<>> /\ unit'.result = 0
      BY <1>0, <1>t, <2>1, <2>4 DEF CountsInv, Before
    <2> QED
      BY <1>8, <2>2, <2>3, <2>4, UnitFrame
  <1>9. CASE KillsOrchestrator \/ Boots
    <2>1. at' = "down" /\ UNCHANGED <<attempt, unit>> /\ accidents' = accidents + 1
      BY <1>9, EndFrame
    <2>2. UNCHANGED <<procs, born, boot>> \/ (procs' = {} /\ boot' = boot + 1)
      BY <1>9, EndFrame
    <2> QED
      BY <1>0, <1>t, <2>1, <2>2 DEF CountsInv, Before
  <1> QED
    BY <1>1, <1>2, <1>3, <1>4, <1>5, <1>6, <1>7, <1>8, <1>9 DEF Kinds

(* Steps that start no process and note none leave, of the processes, those    *)
(* they do not end as they were.                                              *)
LEMMA NoneCome ==
    ASSUME OrphansInv,
           \/ StrikesBenchmark \/ StrikesPolicy \/ Exits \/ Reaps \/ KillsBenchmark \/ StopsPolicy
           \/ QuietStep \/ Writes \/ Reaped \/ MovesAside \/ KillsOrchestrator \/ Boots
    PROVE  procs' \subseteq procs
  <1>1. CASE StrikesBenchmark \/ StrikesPolicy
    BY <1>1, StrikeFrame DEF Strikes
  <1>2. CASE Exits \/ Reaps \/ KillsBenchmark \/ StopsPolicy
    BY <1>2, ShrinkFrame DEF Shrunk
  <1>3. CASE QuietStep
    BY <1>3, QuietFrame
  <1>4. CASE Writes \/ Reaped \/ MovesAside
    BY <1>4, UnitFrame
  <1>5. CASE KillsOrchestrator \/ Boots
    BY <1>5, EndFrame
  <1> QED
    BY <1>1, <1>2, <1>3, <1>4, <1>5

LEMMA GroupsInvStep == ASSUME OrphansInv, Kinds PROVE GroupsInv'
  <1>0. GroupsInv /\ procs \subseteq Processes
    BY DEF OrphansInv, GroupsShape
  <1>1. CASE \E n : Grown(n) /\ n.group = n.pid
    <2>1. PICK n : Grown(n) /\ n.group = n.pid
      BY <1>1
    <2>2. procs' = procs \cup {n} /\ \A q \in procs : n.pid # q.pid /\ n.pid # q.group
      BY <2>1, GrownFacts
    <2> QED
      BY <1>0, <2>1, <2>2 DEF GroupsInv
  <1>2. CASE Forks
    <2>1. PICK b \in procs :
             \E n : /\ Grown(n) /\ n.role = b.role /\ n.group = b.pid
                   /\ n.group = b.group /\ n.attempt = b.attempt /\ n.noted = b.noted
      BY <1>2, ForkFrame
    <2>2. PICK n : /\ Grown(n) /\ n.role = b.role /\ n.group = b.pid
                   /\ n.group = b.group /\ n.attempt = b.attempt /\ n.noted = b.noted
      BY <2>1
    <2>3. procs' = procs \cup {n} /\ \A q \in procs : n.pid # q.pid /\ n.pid # q.group
      BY <2>2, GrownFacts
    <2>4. \A p, q \in procs' : p.pid = q.pid => p = q
      BY <1>0, <2>3 DEF GroupsInv
    <2>5. \A p, q \in procs' : p.pid = q.group => p.group = p.pid
      <3>1. \A p \in procs : p.pid = n.group => p.group = p.pid
        BY <1>0, <2>2 DEF GroupsInv
      <3>2. n.pid # n.group
        BY <2>2, <2>3
      <3> QED
        BY <1>0, <2>3, <3>1, <3>2 DEF GroupsInv
    <2>6. \A p, q \in procs' : p.group = q.group =>
             p.attempt = q.attempt /\ p.noted = q.noted /\ p.role = q.role
      <3>1. \A q \in procs : q.group = n.group =>
               q.attempt = n.attempt /\ q.noted = n.noted /\ q.role = n.role
        BY <1>0, <2>2 DEF GroupsInv
      <3> QED
        BY <1>0, <2>3, <3>1 DEF GroupsInv
    <2> QED
      BY <2>4, <2>5, <2>6 DEF GroupsInv
  <1>3. CASE NotesPolicy \/ NotesBenchmark
    <2>1. PICK g : Notes(g) \/ Misses
      BY <1>3, NoteFrame
    <2>2. CASE Misses
      BY <1>0, <2>2 DEF Misses, GroupsInv
    <2>3. CASE Notes(g)
      <3>1. \A q \in procs' : \E p \in procs :
               /\ q.pid = p.pid /\ q.group = p.group /\ q.role = p.role
               /\ q.attempt = p.attempt /\ q.noted = (p.noted \/ p.group = g.pid)
               /\ q = Noting(p, g.pid)
        BY <2>3, NotedFacts DEF Notes
      <3>2. \A p, q \in procs' : p.pid = q.pid => p = q
        BY <1>0, <3>1 DEF GroupsInv
      <3>3. \A p, q \in procs' : p.pid = q.group => p.group = p.pid
        BY <1>0, <3>1 DEF GroupsInv
      <3>4. ASSUME NEW p \in procs', NEW q \in procs', p.group = q.group
            PROVE  p.attempt = q.attempt /\ p.noted = q.noted /\ p.role = q.role
        <4>1. PICK o \in procs :
                 /\ p.group = o.group /\ p.role = o.role /\ p.attempt = o.attempt
                 /\ p.noted = (o.noted \/ o.group = g.pid)
          BY <3>1
        <4>2. PICK r \in procs :
                 /\ q.group = r.group /\ q.role = r.role /\ q.attempt = r.attempt
                 /\ q.noted = (r.noted \/ r.group = g.pid)
          BY <3>1
        <4>3. /\ o.group = r.group /\ o.attempt = r.attempt /\ o.noted = r.noted
              /\ o.role = r.role
          BY <1>0, <3>4, <4>1, <4>2 DEF GroupsInv
        <4>4. p.noted = q.noted
          BY <4>1, <4>2, <4>3
        <4> QED
          BY <4>1, <4>2, <4>3, <4>4
      <3> QED
        BY <3>2, <3>3, <3>4 DEF GroupsInv
    <2> QED
      BY <2>1, <2>2, <2>3
  <1>4. CASE procs' \subseteq procs
    BY <1>0, <1>4 DEF GroupsInv
  <1> QED
    BY <1>1, <1>2, <1>3, <1>4, NoneCome, StrangerFrame, PolicyFrame, BenchmarkFrame DEF Kinds

LEMMA HeldStep == ASSUME OrphansInv, Kinds PROVE HeldInv'
  <1>0. /\ GroupsShape /\ HeldInv /\ \A p \in Pids : born[p] \in Nat
        /\ NoGroup.pid = 0 /\ NoGroup.start = 0 /\ 0 \notin Pids
    BY OrphansAssumption DEF OrphansInv, GroupsShape, NoGroup
  <1>h. policy.start \in Nat /\ bench.start \in Nat
    BY <1>0, OrphansAssumption DEF GroupsShape, HeldGroups
  <1>1. CASE StrangerBegins \/ Forks
    <2>1. PICK n : Grown(n)
      BY <1>1, StrangerFrame, ForkFrame
    <2>2. UNCHANGED <<at, policy, bench>> /\ \A p \in Pids : born'[p] >= born[p] /\ born'[p] \in Nat
      BY <1>1, <2>1, GrownFacts, StrangerFrame, ForkFrame DEF RestStays
    <2> QED
      BY <1>0, <1>h, <2>2 DEF HeldInv
  <1>2. CASE StartsPolicy
    <2>1. PICK n : Grown(n) /\ policy' = [pid |-> n.pid, start |-> n.start]
      BY <1>2, PolicyFrame
    <2>2. at = "serving" /\ at' = "notingPolicy" /\ UNCHANGED bench
      BY <1>2, PolicyFrame
    <2>3. bench = NoGroup
      BY <1>0, <2>2 DEF HeldInv
    <2>4. policy'.pid \in Pids /\ policy'.start \in 1 .. born'[policy'.pid]
      BY <1>0, <2>1, GrownFacts
    <2> QED
      BY <2>2, <2>3, <2>4 DEF HeldInv, Before
  <1>3. CASE StartsBenchmark
    <2>1. PICK n : Grown(n) /\ bench' = [pid |-> n.pid, start |-> n.start]
      BY <1>3, BenchmarkFrame
    <2>2. at = "cleared" /\ at' = "notingBench" /\ UNCHANGED policy
      BY <1>3, BenchmarkFrame
    <2>3. policy.pid \in Pids /\ policy.start \in 1 .. born'[policy.pid]
      <3>1. policy.pid \in Pids /\ policy.start \in 1 .. born[policy.pid]
        BY <1>0, <2>2 DEF HeldInv, Before
      <3> QED
        BY <2>1, <3>1, GrownFacts
    <2>4. /\ bench'.pid \in Pids /\ bench'.start \in 1 .. born'[bench'.pid]
          /\ bench'.pid # policy.pid
      BY <1>0, <2>1, <2>2, GrownFacts
    <2> QED
      BY <2>2, <2>3, <2>4 DEF HeldInv, Before
  <1>4. CASE NotesPolicy \/ NotesBenchmark
    <2>1. /\ at \in {"notingPolicy", "notingBench"} /\ at' \in {"served", "running"}
          /\ UNCHANGED <<policy, bench>> /\ (at' = "running" <=> at = "notingBench")
      BY <1>4, NoteFrame
    <2>2. UNCHANGED born
      BY <1>4, NoteFrame, NotedFacts DEF Notes, Misses
    <2> QED
      BY <1>0, <2>1, <2>2 DEF HeldInv, Before
  <1>5. CASE StrikesBenchmark \/ StrikesPolicy
    <2>1. UNCHANGED born
      BY <1>5, StrikeFrame DEF Strikes
    <2>2. \/ at = "killed" /\ at' = "killed" /\ bench' = NoGroup /\ UNCHANGED policy
          \/ at = "stopped" /\ policy' = NoGroup /\ at' \in {"down", "recording"} /\ UNCHANGED bench
      BY <1>5, StrikeFrame
    <2> QED
      BY <1>0, <2>1, <2>2 DEF HeldInv, Before
  <1>6. CASE Exits \/ Reaps \/ KillsBenchmark \/ StopsPolicy
    <2>1. UNCHANGED <<born, policy, bench>>
      BY <1>6, ShrinkFrame DEF Shrunk
    <2>2. \/ at' = at
          \/ at \in {"running", "waited"} /\ at' = "killed"
          \/ at \in {"stopping", "seen"} /\ at' = "stopped"
      BY <1>6, ShrinkFrame
    <2> QED
      BY <1>0, <2>1, <2>2 DEF HeldInv, Before
  <1>7. CASE QuietStep
    <2>1. UNCHANGED <<born, policy, bench>>
      BY <1>7, QuietFrame
    <2>2. \/ at \in {"down", "idle", "recording"} /\ at' \in Before
          \/ at \in {"served", "cleared"} /\ at' \in {"stopping", "cleared"}
          \/ at = "running" /\ at' = "waited"
          \/ at = "stopping" /\ at' = "seen"
          \/ at = "killed" /\ bench = NoGroup /\ at' = "stopping"
      BY <1>7, QuietFrame DEF Before
    <2> QED
      BY <1>0, <2>1, <2>2 DEF HeldInv, Before
  <1>8. CASE Writes \/ Reaped \/ MovesAside
    <2>1. UNCHANGED <<born, policy, bench>>
      BY <1>8, UnitFrame
    <2>2. at' = at \/ (at \in Before /\ at' \in Before)
      BY <1>8, UnitFrame DEF Before
    <2> QED
      BY <1>0, <2>1, <2>2 DEF HeldInv, Before
  <1>9. CASE KillsOrchestrator \/ Boots
    <2>1. at' = "down" /\ policy' = NoGroup /\ bench' = NoGroup
      BY <1>9, EndFrame
    <2> QED
      BY <2>1 DEF HeldInv, Before
  <1> QED
    BY <1>1, <1>2, <1>3, <1>4, <1>5, <1>6, <1>7, <1>8, <1>9 DEF Kinds

LEMMA OwnStep == ASSUME OrphansInv, Kinds PROVE OwnInv'
  <1>0. /\ GroupsShape /\ HeldInv /\ OwnInv /\ NoGroup.pid = 0
        /\ \A p \in procs : p.pid # 0 /\ p.group # 0
    BY OrphansAssumption DEF OrphansInv, GroupsShape, Processes, NoGroup
  <1>1. CASE StrangerBegins
    <2>1. PICK n : Grown(n) /\ n.role = "stranger" /\ n.group = n.pid
      BY <1>1, StrangerFrame
    <2>2. UNCHANGED <<at, policy, bench, attempt>>
      BY <1>1, StrangerFrame DEF RestStays
    <2>3. /\ procs' = procs \cup {n}
          /\ n.pid = policy.pid => at \in {"seen", "stopped"}
          /\ n.pid = bench.pid => at \in {"waited", "killed"}
      BY <2>1, GrownFacts
    <2> QED
      BY <1>0, <2>1, <2>2, <2>3 DEF OwnInv, OwnPolicy, OwnBenchmark
  <1>2. CASE Forks
    <2>1. PICK b \in procs :
             \E n : /\ Grown(n) /\ n.role = b.role
                    /\ n.group = b.group /\ n.attempt = b.attempt
      BY <1>2, ForkFrame
    <2>2. PICK n : /\ Grown(n) /\ n.role = b.role
                   /\ n.group = b.group /\ n.attempt = b.attempt
      BY <2>1
    <2>3. UNCHANGED <<at, policy, bench, attempt>>
      BY <1>2, ForkFrame DEF RestStays
    <2>4. /\ procs' = procs \cup {n}
          /\ n.pid = policy.pid => at \in {"seen", "stopped"}
          /\ n.pid = bench.pid => at \in {"waited", "killed"}
      BY <2>2, GrownFacts
    <2>5. at \notin {"down", "seen", "stopped"} /\ policy.pid \in {n.pid, n.group} => OwnPolicy(n)
      BY <1>0, <2>2, <2>4 DEF OwnInv, OwnPolicy
    <2>6. at \notin {"down", "waited", "killed"} /\ bench.pid \in {n.pid, n.group} => OwnBenchmark(n)
      BY <1>0, <2>2, <2>4 DEF OwnInv, OwnBenchmark
    <2> QED
      BY <1>0, <2>3, <2>4, <2>5, <2>6 DEF OwnInv, OwnPolicy, OwnBenchmark
  <1>3. CASE StartsPolicy
    <2>1. PICK n : /\ Grown(n) /\ n.role = "policy" /\ n.group = n.pid /\ n.attempt = attempt'
                   /\ policy' = [pid |-> n.pid, start |-> n.start]
      BY <1>3, PolicyFrame
    <2>2. at = "serving" /\ UNCHANGED bench
      BY <1>3, PolicyFrame
    <2>3. bench'.pid = 0
      BY <1>0, <2>2 DEF HeldInv
    <2>4. /\ procs' = procs \cup {n} /\ n.pid # 0
          /\ \A q \in procs : n.pid # q.pid /\ n.pid # q.group
      BY <2>1, GrownFacts, OrphansAssumption
    <2>5. policy'.pid = n.pid /\ policy'.start = n.start
      BY <2>1
    <2> QED
      BY <1>0, <2>1, <2>3, <2>4, <2>5 DEF OwnInv, OwnPolicy
  <1>4. CASE StartsBenchmark
    <2>1. PICK n : /\ Grown(n) /\ n.role = "benchmark" /\ n.group = n.pid /\ n.attempt = attempt
                   /\ bench' = [pid |-> n.pid, start |-> n.start]
      BY <1>4, BenchmarkFrame
    <2>2. at = "cleared" /\ UNCHANGED <<policy, attempt>>
      BY <1>4, BenchmarkFrame
    <2>4. /\ procs' = procs \cup {n} /\ n.pid # policy.pid
          /\ \A q \in procs : n.pid # q.pid /\ n.pid # q.group
      BY <2>1, <2>2, GrownFacts
    <2>5. bench'.pid = n.pid /\ bench'.start = n.start
      BY <2>1
    <2> QED
      BY <1>0, <2>1, <2>2, <2>4, <2>5 DEF OwnInv, OwnPolicy, OwnBenchmark
  <1>5. CASE NotesPolicy \/ NotesBenchmark
    <2>1. at \in {"notingPolicy", "notingBench"} /\ UNCHANGED <<policy, bench, attempt>>
      BY <1>5, NoteFrame
    <2>2. PICK g : Notes(g) \/ Misses
      BY <1>5, NoteFrame
    <2>3. CASE Notes(g)
      <3>1. \A q \in procs' : \E p \in procs :
               /\ q.pid = p.pid /\ q.start = p.start /\ q.group = p.group /\ q.role = p.role
               /\ q.attempt = p.attempt
        BY <2>3, NotedFacts DEF Notes
      <3> QED
        BY <1>0, <2>1, <3>1 DEF OwnInv, OwnPolicy, OwnBenchmark
    <2>4. CASE Misses
      BY <1>0, <2>1, <2>4 DEF OwnInv, OwnPolicy, OwnBenchmark, Misses
    <2> QED
      BY <2>2, <2>3, <2>4
  <1>6. CASE StrikesBenchmark \/ StrikesPolicy
    <2>1. UNCHANGED attempt /\ procs' = procs
      BY <1>6, StrikeFrame DEF Strikes
    <2>2. \/ at = "killed" /\ at' = "killed" /\ bench' = NoGroup /\ UNCHANGED policy
          \/ at = "stopped" /\ policy' = NoGroup /\ UNCHANGED bench
      BY <1>6, StrikeFrame
    <2> QED
      BY <1>0, <2>1, <2>2 DEF OwnInv, OwnPolicy, OwnBenchmark
  <1>7. CASE Exits \/ Reaps \/ KillsBenchmark \/ StopsPolicy
    <2>1. procs' \subseteq procs /\ UNCHANGED <<policy, bench, attempt>>
      BY <1>7, ShrinkFrame DEF Shrunk
    <2>2. \/ at' = at
          \/ at \in {"running", "waited"} /\ at' = "killed"
          \/ at \in {"stopping", "seen"} /\ at' = "stopped"
      BY <1>7, ShrinkFrame
    <2> QED
      BY <1>0, <2>1, <2>2 DEF OwnInv, OwnPolicy, OwnBenchmark
  <1>8. CASE QuietStep \/ Writes \/ Reaped \/ MovesAside
    <2>1. UNCHANGED <<procs, policy, bench, attempt>>
      BY <1>8, QuietFrame, UnitFrame
    <2>2. at = "down" => policy.pid = 0 /\ bench.pid = 0
      BY <1>0 DEF HeldInv, Before
    <2>3. at = "killed" /\ at' # "killed" => bench.pid = 0
      BY <1>0, <1>8, QuietFrame, UnitFrame
    <2>4. /\ at \in {"seen", "stopped"} => at' \in {"down", "seen", "stopped"}
          /\ at = "waited" => at' = "waited"
      BY <1>8, QuietFrame, UnitFrame
    <2> QED
      BY <1>0, <2>1, <2>2, <2>3, <2>4 DEF OwnInv, OwnPolicy, OwnBenchmark
  <1>9. CASE KillsOrchestrator \/ Boots
    BY <1>9, EndFrame DEF OwnInv
  <1> QED
    BY <1>1, <1>2, <1>3, <1>4, <1>5, <1>6, <1>7, <1>8, <1>9 DEF Kinds

LEMMA EndedStep == ASSUME OrphansInv, Kinds PROVE EndedInv'
  <1>0. /\ EndedInv /\ NoGroup.pid = 0 /\ \A p \in procs : p.group # 0
    BY OrphansAssumption DEF OrphansInv, GroupsShape, Processes, NoGroup
  <1>1. CASE StrangerBegins \/ Forks
    <2>1. PICK n : Grown(n) /\ (n.role = "stranger" \/ \E b \in procs : n.role = b.role /\ n.group = b.group)
      BY <1>1, StrangerFrame, ForkFrame
    <2>2. UNCHANGED <<at, policy, bench>>
      BY <1>1, StrangerFrame, ForkFrame DEF RestStays
    <2>3. procs' = procs \cup {n}
      BY <2>1, GrownFacts
    <2> QED
      BY <1>0, <2>1, <2>2, <2>3 DEF EndedInv, GroupOf
  <1>3. CASE StartsPolicy \/ StartsBenchmark \/ NotesPolicy \/ NotesBenchmark \/ QuietStep
    <2>1. at' \notin {"killed", "stopped"}
      BY <1>3, PolicyFrame, BenchmarkFrame, NoteFrame, QuietFrame
    <2> QED
      BY <2>1 DEF EndedInv
  <1>4. CASE StrikesBenchmark \/ StrikesPolicy
    <2>1. \/ at' = "killed" /\ bench' = NoGroup
          \/ at' \in {"down", "recording"}
      BY <1>4, StrikeFrame
    <2>2. procs' = procs
      BY <1>4, StrikeFrame DEF Strikes
    <2> QED
      BY <1>0, <2>1, <2>2 DEF EndedInv, GroupOf
  <1>5. CASE Exits \/ Reaps \/ KillsBenchmark \/ StopsPolicy
    <2>1. procs' \subseteq procs /\ UNCHANGED <<policy, bench>>
      BY <1>5, ShrinkFrame DEF Shrunk
    <2>2. \/ at' = at
          \/ at' = "killed" /\ procs' = procs \ GroupOf(bench.pid)
          \/ at' = "stopped" /\ procs' = procs \ GroupOf(policy.pid)
      BY <1>5, ShrinkFrame
    <2> QED
      BY <1>0, <2>1, <2>2 DEF EndedInv, GroupOf
  <1>6. CASE Writes \/ Reaped \/ MovesAside
    <2>1. UNCHANGED <<procs, policy, bench>> /\ (at' = at \/ at' \in {"idle", "moving", "serving"})
      BY <1>6, UnitFrame
    <2> QED
      BY <1>0, <2>1 DEF EndedInv, GroupOf
  <1>7. CASE KillsOrchestrator \/ Boots
    BY <1>7, EndFrame DEF EndedInv
  <1> QED
    BY <1>1, <1>3, <1>4, <1>5, <1>6, <1>7 DEF Kinds

LEMMA LedgerStep == ASSUME OrphansInv, Kinds PROVE LedgerInv'
  <1>0. /\ LedgerInv /\ HeldInv /\ CountsInv /\ NoGroup.pid = 0 /\ 0 \notin Pids
        /\ unit.ledger \in Seq(Entries) /\ todo \in Seq(Entries)
    BY OrphansAssumption DEF OrphansInv, GroupsShape, Units, NoGroup
  <1>1. CASE StrangerBegins \/ Forks
    <2>1. UNCHANGED <<at, policy, unit, todo>>
      BY <1>1, StrangerFrame, ForkFrame DEF RestStays
    <2> QED
      BY <1>0, <2>1 DEF LedgerInv
  <1>2. CASE StartsPolicy
    BY <1>0, <1>2, PolicyFrame DEF LedgerInv
  <1>3. CASE StartsBenchmark
    BY <1>0, <1>3, BenchmarkFrame DEF LedgerInv
  <1>4. CASE NotesPolicy \/ NotesBenchmark
    <2>1. UNCHANGED <<policy, todo>> /\ at \in {"notingPolicy", "notingBench"}
      BY <1>4, NoteFrame
    <2>2. CASE Misses
      <3>1. UNCHANGED unit /\ (at' = "running" \/ (at = "notingPolicy" /\ at' = "served"))
        BY <1>4, <2>2, NoteFrame DEF Misses
      <3> QED
        BY <1>0, <2>1, <3>1 DEF LedgerInv
    <2>3. CASE /\ at = "notingPolicy" /\ at' = "served" /\ Notes(policy)
               /\ Entry(policy) \in Entries /\ Entry(policy).pgid = policy.pid
      <3>1. unit.ledger = <<>> /\ unit'.ledger = Append(unit.ledger, Entry(policy))
        BY <1>0, <2>3 DEF LedgerInv, Notes
      <3>2. PICK e : e = Entry(policy)
        OBVIOUS
      <3>3. unit'.ledger = <<e>> /\ e.pgid = policy.pid
        BY <2>3, <3>1, <3>2
      <3> QED
        BY <1>0, <2>1, <2>3, <3>3 DEF LedgerInv
    <2>4. CASE /\ at = "notingBench" /\ at' = "running" /\ Notes(bench)
               /\ Entry(bench) \in Entries /\ Entry(bench).pgid = bench.pid
      <3>1. PICK e : e = Entry(bench)
        OBVIOUS
      <3>2. unit'.ledger = Append(unit.ledger, e) /\ e.pgid = bench.pid
        BY <2>4, <3>1 DEF Notes
      <3>3. bench.pid # policy.pid
        BY <1>0, <2>4 DEF HeldInv
      <3>4. Len(unit.ledger) <= 1 /\ \A i \in DOMAIN unit.ledger : unit.ledger[i].pgid = policy.pid
        BY <1>0, <2>4 DEF LedgerInv
      <3>5. PICK ledger \in Seq(Entries) : ledger = unit.ledger
        BY <1>0
      <3>6. /\ Len(Append(ledger, e)) = Len(ledger) + 1 /\ Append(ledger, e)[Len(ledger) + 1] = e
            /\ \A i \in 1 .. Len(ledger) : Append(ledger, e)[i] = ledger[i]
            /\ DOMAIN Append(ledger, e) = 1 .. Len(ledger) + 1 /\ Len(ledger) \in Nat
        BY <3>5
      <3>7. Len(unit'.ledger) <= 2
        BY <3>2, <3>4, <3>5, <3>6
      <3>8. \A i, j \in DOMAIN unit'.ledger : unit'.ledger[i].pgid = unit'.ledger[j].pgid => i = j
        <4>1. Len(ledger) = 0 \/ Len(ledger) = 1
          <5>1. Len(ledger) <= 1
            BY <3>4, <3>5
          <5>2. Len(ledger) \in Nat
            BY <3>5
          <5> QED
            BY ONLY <5>1, <5>2
        <4>2. CASE Len(ledger) = 0
          BY <3>2, <3>5, <3>6, <4>2
        <4>3. CASE Len(ledger) = 1
          <5>1. DOMAIN unit'.ledger = {1, 2} /\ unit'.ledger[2] = e /\ unit'.ledger[1].pgid = policy.pid
            BY <3>2, <3>4, <3>5, <3>6, <4>3
          <5> QED
            BY <3>2, <3>3, <5>1
        <4> QED
          BY <4>1, <4>2, <4>3
      <3> QED
        BY <1>0, <2>1, <2>4, <3>7, <3>8 DEF LedgerInv
    <2> QED
      BY <1>4, <2>2, <2>3, <2>4, NoteFrame
  <1>5. CASE StrikesBenchmark \/ StrikesPolicy
    <2>1. PICK pid : Strikes(pid)
      BY <1>5, StrikeFrame
    <2>2. at' \in {"killed", "down", "recording"}
      BY <1>5, StrikeFrame
    <2>3. PICK ledger \in Seq(Entries) : ledger = unit.ledger
      BY <1>0
    <2>4. unit'.ledger = Struck(ledger, pid) \/ unit'.ledger = ledger
      BY <2>1, <2>3 DEF Strikes
    <2>5. Struck(ledger, pid) \in Seq(Entries) /\ Len(Struck(ledger, pid)) <= Len(ledger)
      BY StruckEntries
    <2>6. Len(unit'.ledger) <= 2 /\ Len(todo') <= 2
      BY <1>0, <2>1, <2>3, <2>4, <2>5 DEF LedgerInv, Strikes
    <2>7. \A i, j \in DOMAIN unit'.ledger : unit'.ledger[i].pgid = unit'.ledger[j].pgid => i = j
      <3>1. \A i, j \in DOMAIN ledger : ledger[i].pgid = ledger[j].pgid => i = j
        BY <1>0, <2>3 DEF LedgerInv
      <3>2. \A i, j \in DOMAIN Struck(ledger, pid) :
               Struck(ledger, pid)[i].pgid = Struck(ledger, pid)[j].pgid => i = j
        BY ONLY <3>1, StruckEntries, ledger \in Seq(Entries)
      <3> QED
        BY <2>4, <3>1, <3>2
    <2> QED
      BY <2>2, <2>6, <2>7 DEF LedgerInv
  <1>6. CASE Exits \/ Reaps \/ KillsBenchmark \/ StopsPolicy
    <2>1. UNCHANGED <<unit, policy>>
      BY <1>6, ShrinkFrame
    <2>2. at' = at \/ at' \in {"killed", "stopped"}
      BY <1>6, ShrinkFrame
    <2>3. todo' = todo \/ (todo # <<>> /\ todo' = SubSeq(todo, 1, Len(todo) - 1))
      BY <1>6, ShrinkFrame
    <2>4. Len(todo') <= 2
      BY <1>0, <2>3 DEF LedgerInv
    <2> QED
      BY <1>0, <2>1, <2>2, <2>4 DEF LedgerInv
  <1>7. CASE QuietStep
    <2>1. /\ unit'.ledger = unit.ledger /\ UNCHANGED policy
          /\ todo' \in {todo, unit.ledger}
      BY <1>7, QuietFrame
    <2>2. \/ at' \in {"reaping", "rereaping", "waited", "stopping", "seen", "idle", "down"}
          \/ at = "served" /\ at' = "cleared"
          \/ at' = "serving" /\ ~unit.there
      BY <1>7, QuietFrame
    <2> QED
      BY <1>0, <2>1, <2>2 DEF LedgerInv, CountsInv
  <1>8. CASE Writes \/ Reaped \/ MovesAside
    <2>1. UNCHANGED <<policy, todo>>
      BY <1>8, UnitFrame
    <2>2. \/ UNCHANGED at /\ unit'.ledger = unit.ledger
          \/ at' \in {"idle", "moving", "serving"} /\ unit'.ledger = <<>>
      BY <1>8, UnitFrame
    <2> QED
      BY <1>0, <2>1, <2>2 DEF LedgerInv
  <1>9. CASE KillsOrchestrator \/ Boots
    <2>1. at' = "down" /\ todo' = <<>> /\ UNCHANGED unit
      BY <1>9, EndFrame
    <2> QED
      BY <1>0, <2>1 DEF LedgerInv
  <1> QED
    BY <1>1, <1>2, <1>3, <1>4, <1>5, <1>6, <1>7, <1>8, <1>9 DEF Kinds

(* What an entry says of a pid stays so: a pid is given again only as a later  *)
(* process, and a boot's entries are no later boot's.                         *)
LEMMA OursKept ==
    ASSUME OrphansInv, Kinds, NEW e \in Entries, Ours(e)
    PROVE  Ours(e)'
  <1>0. /\ GroupsShape /\ boot \in Nat /\ e.pgid \in Pids /\ e.start \in Nat /\ e.boot \in Nat
        /\ born[e.pgid] \in Nat
    BY OrphansAssumption DEF OrphansInv, GroupsShape, Entries
  <1>1. CASE \E n : Grown(n)
    <2>1. PICK n : Grown(n)
      BY <1>1
    <2>2. /\ procs' = procs \cup {n} /\ boot' = boot /\ n.start > born[n.pid]
          /\ n.start \in Nat /\ born'[e.pgid] >= born[e.pgid] /\ born'[e.pgid] \in Nat
      BY <1>0, <2>1, GrownFacts
    <2>3. e.boot = boot => ~(n.pid = e.pgid /\ n.start = e.start)
      BY <1>0, <2>2 DEF Ours
    <2> QED
      BY <1>0, <2>2, <2>3 DEF Ours
  <1>2. CASE NotesPolicy \/ NotesBenchmark
    <2>1. PICK g : Notes(g) \/ Misses
      BY <1>2, NoteFrame
    <2>2. CASE Notes(g)
      <3>1. \A q \in procs' : \E p \in procs : q.pid = p.pid /\ q.start = p.start /\ q.role = p.role
        BY <2>2, NotedFacts DEF Notes
      <3>2. UNCHANGED <<born, boot>>
        BY <2>2, NotedFacts DEF Notes
      <3> QED
        BY <3>1, <3>2 DEF Ours
    <2>3. CASE Misses
      BY <2>3 DEF Misses, Ours
    <2> QED
      BY <2>1, <2>2, <2>3
  <1>3. CASE procs' \subseteq procs /\ UNCHANGED <<born, boot>>
    BY <1>3 DEF Ours
  <1>4. CASE boot' = boot + 1
    BY <1>0, <1>4 DEF Ours
  <1>5. CASE \/ StrikesBenchmark \/ StrikesPolicy \/ Exits \/ Reaps \/ KillsBenchmark \/ StopsPolicy
             \/ QuietStep \/ Writes \/ Reaped \/ MovesAside
    <2>1. UNCHANGED <<born, boot>>
      BY <1>5, StrikeFrame, ShrinkFrame, QuietFrame, UnitFrame DEF Strikes, Shrunk
    <2> QED
      BY <1>3, <1>5, <2>1, NoneCome
  <1>6. CASE KillsOrchestrator \/ Boots
    BY <1>3, <1>4, <1>6, EndFrame
  <1> QED
    BY <1>1, <1>2, <1>5, <1>6, StrangerFrame, ForkFrame, PolicyFrame, BenchmarkFrame DEF Kinds

LEMMA OursStep == ASSUME OrphansInv, Kinds PROVE OursInv'
  <1>0. OursInv /\ unit.ledger \in Seq(Entries) /\ todo \in Seq(Entries)
    BY DEF OrphansInv, GroupsShape, Units
  <1> DEFINE OursAfter(e) == /\ e.boot <= boot'
                             /\ e.boot = boot' =>
                                  /\ e.start <= born'[e.pgid]
                                  /\ \A p \in procs' : p.pid = e.pgid /\ p.start = e.start => p.role # "stranger"
  <1>1. \A e \in Entries : Ours(e) => OursAfter(e)
    BY OursKept DEF Ours
  <1>2. \A l \in Seq(Entries) :
           (\A i \in DOMAIN l : Ours(l[i])) => \A i \in DOMAIN l : OursAfter(l[i])
    BY <1>1
  <1>3. /\ \A i \in DOMAIN unit.ledger : OursAfter(unit.ledger[i])
        /\ \A i \in DOMAIN todo : OursAfter(todo[i])
    BY <1>0, <1>2 DEF OursInv
  <1> HIDE DEF OursAfter
  <1>4. ASSUME \A i \in DOMAIN unit'.ledger : OursAfter(unit'.ledger[i]),
               \A i \in DOMAIN todo' : OursAfter(todo'[i])
        PROVE  OursInv'
    BY <1>4 DEF OursInv, Ours, OursAfter
  <1>5. CASE StrangerBegins \/ Forks \/ StartsPolicy \/ StartsBenchmark
    <2>1. unit'.ledger = unit.ledger /\ UNCHANGED todo
      BY <1>5, StrangerFrame, ForkFrame, PolicyFrame, BenchmarkFrame DEF RestStays
    <2> QED
      BY <1>3, <1>4, <2>1
  <1>6. CASE NotesPolicy \/ NotesBenchmark
    <2>1. UNCHANGED todo
      BY <1>6, NoteFrame
    <2>2. CASE Misses
      BY <1>3, <1>4, <2>1, <2>2 DEF Misses
    <2>3. ASSUME NEW g, Notes(g), Entry(g) \in Entries, OursAfter(Entry(g))
          PROVE  OursInv'
      <3>1. PICK e \in Entries : e = Entry(g)
        BY <2>3
      <3>2. unit'.ledger = Append(unit.ledger, e) /\ OursAfter(e)
        BY <2>3, <3>1 DEF Notes
      <3>3. \A i \in DOMAIN unit'.ledger : OursAfter(unit'.ledger[i])
        <4> SUFFICES ASSUME NEW i \in DOMAIN unit'.ledger
                     PROVE  OursAfter(unit'.ledger[i])
          OBVIOUS
        <4>1. (i \in DOMAIN unit.ledger /\ unit'.ledger[i] = unit.ledger[i]) \/ unit'.ledger[i] = e
          BY <1>0, <3>2
        <4> QED
          BY <1>3, <3>2, <4>1
      <3> QED
        BY <1>3, <1>4, <2>1, <3>3
    <2>4. ASSUME NEW g \in {policy, bench}, Entry(g) \in Entries, Entry(g).pgid = g.pid,
                 Entry(g).start = g.start, Entry(g).boot = boot, g.start <= born[g.pid],
                 \A p \in procs : p.pid = g.pid => p.role # "stranger"
          PROVE  OursAfter(Entry(g))
      <3>1. PICK e \in Entries : e = Entry(g)
        BY <2>4
      <3>2. boot \in Nat
        BY DEF OrphansInv, GroupsShape
      <3>3. Ours(e)
        BY <2>4, <3>1, <3>2 DEF Ours
      <3> QED
        BY <1>1, <3>1, <3>3
    <2>5. CASE /\ at = "notingPolicy" /\ Notes(policy)
               /\ Entry(policy) \in Entries /\ Entry(policy).pgid = policy.pid
               /\ Entry(policy).start = policy.start /\ Entry(policy).boot = boot
      <3>1. policy.start <= born[policy.pid]
        BY <2>5 DEF OrphansInv, HeldInv, Before
      <3>2. \A p \in procs : p.pid = policy.pid => p.role # "stranger"
        BY <2>5 DEF OrphansInv, OwnInv, OwnPolicy
      <3> QED
        BY <2>3, <2>4, <2>5, <3>1, <3>2
    <2>6. CASE /\ at = "notingBench" /\ Notes(bench)
               /\ Entry(bench) \in Entries /\ Entry(bench).pgid = bench.pid
               /\ Entry(bench).start = bench.start /\ Entry(bench).boot = boot
      <3>1. bench # NoGroup
        BY <2>6, OrphansAssumption DEF OrphansInv, HeldInv, NoGroup
      <3>2. bench.start <= born[bench.pid]
        BY <3>1 DEF OrphansInv, HeldInv
      <3>3. \A p \in procs : p.pid = bench.pid => p.role # "stranger"
        BY <2>6 DEF OrphansInv, OwnInv, OwnBenchmark
      <3> QED
        BY <2>3, <2>4, <2>6, <3>2, <3>3
    <2> QED
      BY <1>6, <2>2, <2>5, <2>6, NoteFrame
  <1>7. CASE StrikesBenchmark \/ StrikesPolicy
    <2>1. PICK pid : Strikes(pid)
      BY <1>7, StrikeFrame
    <2>2. \A i \in DOMAIN Struck(unit.ledger, pid) :
             \E j \in DOMAIN unit.ledger : Struck(unit.ledger, pid)[i] = unit.ledger[j]
      BY <1>0, StruckEntries
    <2>3. \A i \in DOMAIN unit'.ledger : OursAfter(unit'.ledger[i])
      BY <1>3, <2>1, <2>2 DEF Strikes
    <2> QED
      BY <1>3, <1>4, <2>1, <2>3 DEF Strikes
  <1>8. CASE Exits \/ Reaps \/ KillsBenchmark \/ StopsPolicy
    <2>1. UNCHANGED unit
      BY <1>8, ShrinkFrame
    <2>2. todo' = todo \/ (todo # <<>> /\ todo' = SubSeq(todo, 1, Len(todo) - 1))
      BY <1>8, ShrinkFrame
    <2>3. \A i \in DOMAIN todo' : i \in DOMAIN todo /\ todo'[i] = todo[i]
      BY <1>0, <2>2
    <2> QED
      BY <1>3, <1>4, <2>1, <2>3
  <1>9. CASE QuietStep \/ Writes \/ Reaped \/ MovesAside
    <2>1. unit'.ledger \in {unit.ledger, <<>>} /\ todo' \in {todo, unit.ledger}
      BY <1>9, QuietFrame, UnitFrame
    <2> QED
      BY <1>3, <1>4, <2>1
  <1>10. CASE KillsOrchestrator \/ Boots
    <2>1. todo' = <<>> /\ UNCHANGED unit
      BY <1>10, EndFrame
    <2> QED
      BY <1>3, <1>4, <2>1
  <1> QED
    BY <1>5, <1>6, <1>7, <1>8, <1>9, <1>10 DEF Kinds

(* What the reaper will find of an entry, and of a group's, after the step. *)
RecordedAfter(e) ==
    /\ e.boot = boot'
    /\ \A p \in procs' : p.pid = e.pgid => p.start = e.start
    /\ \E p \in procs' : p.group = e.pgid
NamedAfter(ledger, group) == \E i \in DOMAIN ledger : ledger[i].pgid = group /\ RecordedAfter(ledger[i])

LEMMA AfterIsPrimed ==
    ASSUME \A q \in procs' : q.role # "stranger" =>
              /\ q.noted => NamedAfter(unit'.ledger, q.group)
              /\ q.noted /\ at' \in {"reaping", "rereaping"} => NamedAfter(todo', q.group)
              /\ \/ q.noted \/ gap'
                 \/ at' = "notingPolicy" /\ q.group = policy'.pid
                 \/ at' = "notingBench" /\ q.group = bench'.pid
    PROVE  NotedInv'
  <1>1. ASSUME NEW q \in procs', NamedAfter(unit'.ledger, q.group)
        PROVE  NamesGroup(unit.ledger, q)'
    BY <1>1 DEF NamedAfter, RecordedAfter, NamesGroup, StillRecorded, GroupOf
  <1>2. ASSUME NEW q \in procs', NamedAfter(todo', q.group)
        PROVE  NamesGroup(todo, q)'
    BY <1>2 DEF NamedAfter, RecordedAfter, NamesGroup, StillRecorded, GroupOf
  <1>3. ASSUME NEW q \in procs', q.role # "stranger"
        PROVE  /\ q.noted => NamesGroup(unit.ledger, q)'
               /\ q.noted /\ at' \in {"reaping", "rereaping"} => NamesGroup(todo, q)'
               /\ \/ q.noted \/ gap'
                  \/ at' = "notingPolicy" /\ q.group = policy'.pid
                  \/ at' = "notingBench" /\ q.group = bench'.pid
    BY <1>1, <1>2, <1>3
  <1>4. \A q \in (procs \ Strangers)' : q \in procs' /\ q.role # "stranger"
    BY DEF Strangers
  <1> QED
    BY <1>3, <1>4 DEF NotedInv

(* An entry the reaper would end a group by stays one while a process of the   *)
(* group is left.                                                             *)
LEMMA RecordedKept ==
    ASSUME OrphansInv, NEW e \in Entries, StillRecorded(e),
           NEW p \in procs, p.group = e.pgid, NEW q \in procs', q.group = e.pgid, boot' = boot,
           (\E n : Grown(n)) \/ (\E pid : NotedAs(pid)) \/ procs' \subseteq procs
    PROVE  RecordedAfter(e)
  <1>1. e.boot = boot /\ \A x \in procs : x.pid = e.pgid => x.start = e.start
    BY DEF StillRecorded
  <1>2. CASE \E n : Grown(n)
    <2>1. PICK n : Grown(n)
      BY <1>2
    <2>2. procs' = procs \cup {n} /\ n.pid # p.group
      BY <2>1, GrownFacts
    <2> QED
      BY <1>1, <2>2 DEF RecordedAfter
  <1>3. CASE \E pid : NotedAs(pid)
    <2>1. PICK pid : NotedAs(pid)
      BY <1>3
    <2>2. \A x \in procs' : \E y \in procs : x.pid = y.pid /\ x.start = y.start
      BY <2>1, NotedFacts
    <2> QED
      BY <1>1, <2>2 DEF RecordedAfter
  <1>4. CASE procs' \subseteq procs
    BY <1>1, <1>4 DEF RecordedAfter
  <1> QED
    BY <1>2, <1>3, <1>4

LEMMA NamesKept ==
    ASSUME OrphansInv, NEW l \in Seq(Entries), NEW l2,
           NEW p \in procs, NamesGroup(l, p), NEW q \in procs', q.group = p.group, boot' = boot,
           (\E n : Grown(n)) \/ (\E pid : NotedAs(pid)) \/ procs' \subseteq procs,
           \A i \in DOMAIN l : l[i].pgid = p.group => \E j \in DOMAIN l2 : l2[j] = l[i]
    PROVE  NamedAfter(l2, q.group)
  <1>1. PICK i \in DOMAIN l : l[i].pgid = p.group /\ StillRecorded(l[i])
    BY DEF NamesGroup
  <1>2. PICK e \in Entries : e = l[i]
    OBVIOUS
  <1>3. RecordedAfter(e)
    <2>1. StillRecorded(e) /\ e.pgid = p.group
      BY <1>1, <1>2
    <2> QED
      BY <2>1, RecordedKept
  <1> QED
    BY <1>1, <1>2, <1>3 DEF NamedAfter

LEMMA NotedStep == ASSUME OrphansInv, Kinds PROVE NotedInv'
  <1>0. /\ unit.ledger \in Seq(Entries) /\ todo \in Seq(Entries)
        /\ \A p \in procs : p.role # "stranger" =>
              /\ p.noted => NamesGroup(unit.ledger, p)
              /\ p.noted /\ at \in {"reaping", "rereaping"} => NamesGroup(todo, p)
              /\ \/ p.noted \/ gap
                 \/ at = "notingPolicy" /\ p.group = policy.pid
                 \/ at = "notingBench" /\ p.group = bench.pid
    BY DEF OrphansInv, GroupsShape, Units, NotedInv, Strangers
  <1>e. unit.ledger = <<>> => \A p \in procs : p.role # "stranger" => ~p.noted
    BY <1>0 DEF NamesGroup
  <1> DEFINE Kept(q) == /\ q.noted => NamedAfter(unit'.ledger, q.group)
                        /\ q.noted /\ at' \in {"reaping", "rereaping"} => NamedAfter(todo', q.group)
                        /\ \/ q.noted \/ gap'
                           \/ at' = "notingPolicy" /\ q.group = policy'.pid
                           \/ at' = "notingBench" /\ q.group = bench'.pid
  <1> SUFFICES ASSUME NEW q \in procs', q.role # "stranger"
               PROVE  Kept(q)
    BY AfterIsPrimed
  <1>1. CASE StrangerBegins \/ Forks
    <2>1. PICK n : Grown(n)
      BY <1>1, StrangerFrame, ForkFrame
    <2>2. UNCHANGED <<at, todo, policy, bench, gap, unit>> /\ boot' = boot
      BY <1>1, <2>1, StrangerFrame, ForkFrame, GrownFacts DEF RestStays
    <2>3. PICK p \in procs : p.role # "stranger" /\ p.group = q.group /\ p.noted = q.noted
      <3>1. CASE StrangerBegins
        <4>1. PICK m : Grown(m) /\ m.role = "stranger"
          BY <3>1, StrangerFrame
        <4> QED
          BY <4>1, GrownFacts
      <3>2. CASE Forks
        <4>1. PICK b \in procs : \E m : /\ Grown(m) /\ m.role = b.role
                                        /\ m.group = b.group /\ m.noted = b.noted
          BY <3>2, ForkFrame
        <4>2. PICK m : Grown(m) /\ m.role = b.role /\ m.group = b.group /\ m.noted = b.noted
          BY <4>1
        <4> QED
          BY <4>2, GrownFacts
      <3> QED
        BY <1>1, <3>1, <3>2
    <2>4. q.noted => NamedAfter(unit.ledger, q.group)
      BY <1>0, <2>1, <2>2, <2>3, NamesKept
    <2>5. q.noted /\ at \in {"reaping", "rereaping"} => NamedAfter(todo, q.group)
      BY <1>0, <2>1, <2>2, <2>3, NamesKept
    <2> QED
      BY <1>0, <2>2, <2>3, <2>4, <2>5
  <1>2. CASE StartsPolicy
    <2>1. PICK n : Grown(n) /\ n.group = n.pid /\ n.noted = FALSE /\ policy' = [pid |-> n.pid, start |-> n.start]
      BY <1>2, PolicyFrame
    <2>2. procs' = procs \cup {n} /\ at = "serving" /\ at' = "notingPolicy" /\ gap' = gap
      BY <1>2, <2>1, PolicyFrame, GrownFacts
    <2>3. unit.ledger = <<>>
      BY <2>2 DEF OrphansInv, LedgerInv
    <2>4. CASE q = n
      BY <2>1, <2>2, <2>4
    <2>5. CASE q \in procs
      BY <1>0, <1>e, <2>2, <2>3, <2>5
    <2> QED
      BY <2>2, <2>4, <2>5
  <1>3. CASE StartsBenchmark
    <2>1. PICK n : Grown(n) /\ n.group = n.pid /\ n.noted = FALSE /\ bench' = [pid |-> n.pid, start |-> n.start]
      BY <1>3, BenchmarkFrame
    <2>2. /\ procs' = procs \cup {n} /\ at = "cleared" /\ at' = "notingBench" /\ gap' = gap
          /\ boot' = boot /\ UNCHANGED unit
      BY <1>3, <2>1, BenchmarkFrame, GrownFacts
    <2>4. CASE q = n
      BY <2>1, <2>2, <2>4
    <2>5. CASE q \in procs
      <3>1. q.noted => NamedAfter(unit.ledger, q.group)
        BY <1>0, <2>1, <2>2, <2>5, NamesKept
      <3> QED
        BY <1>0, <2>2, <2>5, <3>1
    <2> QED
      BY <2>2, <2>4, <2>5
  <1>4. CASE NotesPolicy \/ NotesBenchmark
    <2>1. at' \notin {"reaping", "rereaping"} /\ UNCHANGED <<policy, bench>>
      BY <1>4, NoteFrame
    <2>2. CASE Misses
      <3>1. UNCHANGED <<unit, procs, boot>> /\ gap' = TRUE
        BY <2>2 DEF Misses
      <3>2. q.noted => NamedAfter(unit.ledger, q.group)
        BY <1>0, <3>1, NamesKept
      <3> QED
        BY <2>1, <3>1, <3>2
    <2>3. ASSUME NEW g \in {policy, bench}, Notes(g), Entry(g) \in Entries, Entry(g).pgid = g.pid,
                 Entry(g).start = g.start, Entry(g).boot = boot,
                 \A p \in procs : p.pid = g.pid => p.start = g.start,
                 \A p \in procs : p.role # "stranger" => p.noted \/ gap \/ p.group = g.pid
          PROVE  Kept(q)
      <3>1. PICK e \in Entries : e = Entry(g)
        BY <2>3
      <3>2. unit'.ledger = Append(unit.ledger, e) /\ NotedAs(g.pid) /\ gap' = gap
        BY <2>3, <3>1 DEF Notes
      <3>3. boot' = boot
        BY <3>2 DEF NotedAs
      <3>4. /\ \A i \in DOMAIN unit.ledger : i \in DOMAIN unit'.ledger /\ unit'.ledger[i] = unit.ledger[i]
            /\ Len(unit.ledger) + 1 \in DOMAIN unit'.ledger
            /\ unit'.ledger[Len(unit.ledger) + 1] = e
        BY <1>0, <3>2
      <3>5. PICK p \in procs : /\ q.group = p.group /\ q.role = p.role
                               /\ q.noted = (p.noted \/ p.group = g.pid)
        BY <3>2, NotedFacts
      <3>6. p.noted => NamedAfter(unit'.ledger, q.group)
        <4>1. \A i \in DOMAIN unit.ledger : unit.ledger[i].pgid = p.group =>
                 \E j \in DOMAIN unit'.ledger : unit'.ledger[j] = unit.ledger[i]
          BY <3>4
        <4>2. p.role # "stranger" /\ q.group = p.group
          BY <3>5
        <4>3. PICK ledger : ledger = unit'.ledger
          OBVIOUS
        <4>4. \A i \in DOMAIN unit.ledger : unit.ledger[i].pgid = p.group =>
                 \E j \in DOMAIN ledger : ledger[j] = unit.ledger[i]
          BY <4>1, <4>3
        <4>5. \E pid : NotedAs(pid)
          BY <3>2
        <4>6. p.noted => NamedAfter(ledger, q.group)
          BY <1>0, <3>3, <4>2, <4>4, <4>5, NamesKept
        <4> QED
          BY <4>3, <4>6
      <3>7. p.group = g.pid => NamedAfter(unit'.ledger, q.group)
        <4>1. SUFFICES ASSUME p.group = g.pid PROVE NamedAfter(unit'.ledger, q.group)
          OBVIOUS
        <4>2. \A x \in procs' : x.pid = e.pgid => x.start = e.start
          BY <2>3, <3>1, <3>2, NotedFacts
        <4>3. RecordedAfter(e)
          BY <2>3, <3>1, <3>3, <3>5, <4>1, <4>2 DEF RecordedAfter
        <4> QED
          BY <2>3, <3>1, <3>4, <3>5, <4>1, <4>3 DEF NamedAfter
      <3>8. p.noted \/ gap \/ p.group = g.pid
        BY <2>3, <3>5
      <3> QED
        BY <2>1, <3>2, <3>5, <3>6, <3>7, <3>8
    <2>5. CASE /\ at = "notingPolicy" /\ Notes(policy)
               /\ Entry(policy) \in Entries /\ Entry(policy).pgid = policy.pid
               /\ Entry(policy).start = policy.start /\ Entry(policy).boot = boot
      <3>1. \A p \in procs : p.pid = policy.pid => p.start = policy.start
        BY <2>5 DEF OrphansInv, OwnInv, OwnPolicy
      <3>2. \A p \in procs : p.role # "stranger" => p.noted \/ gap \/ p.group = policy.pid
        BY <1>0, <2>5
      <3> QED
        BY <2>3, <2>5, <3>1, <3>2
    <2>6. CASE /\ at = "notingBench" /\ Notes(bench)
               /\ Entry(bench) \in Entries /\ Entry(bench).pgid = bench.pid
               /\ Entry(bench).start = bench.start /\ Entry(bench).boot = boot
      <3>1. \A p \in procs : p.pid = bench.pid => p.start = bench.start
        BY <2>6 DEF OrphansInv, OwnInv, OwnBenchmark
      <3>2. \A p \in procs : p.role # "stranger" => p.noted \/ gap \/ p.group = bench.pid
        BY <1>0, <2>6
      <3> QED
        BY <2>3, <2>6, <3>1, <3>2
    <2> QED
      BY <1>4, <2>2, <2>5, <2>6, NoteFrame
  <1>5. CASE StrikesBenchmark \/ StrikesPolicy
    <2>1. PICK pid : Strikes(pid) /\ \A p \in GroupOf(pid) : p.role = "stranger"
      BY <1>5, StrikeFrame DEF OrphansInv, EndedInv
    <2>2. /\ UNCHANGED <<procs, boot, gap>>
          /\ unit'.ledger = Struck(unit.ledger, pid) \/ unit'.ledger = unit.ledger
      BY <2>1 DEF Strikes
    <2>3. at \in {"killed", "stopped"} /\ at' \notin {"reaping", "rereaping"}
      BY <1>5, StrikeFrame
    <2>4. q.group # pid
      BY <2>1, <2>2 DEF GroupOf
    <2>5. \A i \in DOMAIN unit.ledger : unit.ledger[i].pgid = q.group =>
             \E j \in DOMAIN unit'.ledger : unit'.ledger[j] = unit.ledger[i]
      BY <1>0, <2>2, <2>4, StruckEntries
    <2>6. q.noted => NamedAfter(unit'.ledger, q.group)
      BY <1>0, <2>2, <2>5, NamesKept
    <2> QED
      BY <1>0, <2>2, <2>3, <2>6
  <1>6. CASE Exits \/ Reaps \/ KillsBenchmark \/ StopsPolicy
    <2>1. procs' \subseteq procs /\ boot' = boot /\ UNCHANGED <<unit, gap, policy, bench>>
      BY <1>6, ShrinkFrame DEF Shrunk
    <2>2. q.noted => NamedAfter(unit.ledger, q.group)
      BY <1>0, <2>1, NamesKept
    <2>3. CASE Reaps
      <3>1. at' = at /\ at \in {"reaping", "rereaping"} /\ todo # <<>> /\ todo' = SubSeq(todo, 1, Len(todo) - 1)
        BY <2>3 DEF Reaps
      <3>2. PICK last \in Entries : last = todo[Len(todo)]
        BY <1>0, <3>1
      <3>3. StillRecorded(last) => procs' = procs \ GroupOf(last.pgid)
        BY <2>3, <3>2 DEF Reaps, Killed
      <3>4. ASSUME q.noted PROVE NamedAfter(todo', q.group)
        <4>1. PICK i \in DOMAIN todo : todo[i].pgid = q.group /\ StillRecorded(todo[i])
          BY <1>0, <2>1, <3>1, <3>4 DEF NamesGroup
        <4>2. i # Len(todo)
          BY <2>1, <3>2, <3>3, <4>1 DEF GroupOf
        <4>3. i \in DOMAIN todo' /\ todo'[i] = todo[i]
          BY <1>0, <3>1, <4>2
        <4>4. PICK e \in Entries : e = todo[i]
          BY <1>0
        <4>5. RecordedAfter(e)
          <5>1. StillRecorded(e) /\ e.pgid = q.group
            BY <4>1, <4>4
          <5> QED
            BY <2>1, <5>1, RecordedKept
        <4> QED
          BY <4>1, <4>3, <4>4, <4>5 DEF NamedAfter
      <3> QED
        BY <1>0, <2>1, <2>2, <3>1, <3>4
    <2>4. CASE Exits
      <3>1. UNCHANGED <<at, todo>>
        BY <2>4 DEF Exits
      <3>2. q.noted /\ at \in {"reaping", "rereaping"} => NamedAfter(todo, q.group)
        BY <1>0, <2>1, NamesKept
      <3> QED
        BY <1>0, <2>1, <2>2, <3>1, <3>2
    <2>5. CASE KillsBenchmark \/ StopsPolicy
      <3>1. /\ at \in {"running", "waited", "stopping", "seen"}
            /\ at' \in {"killed", "stopped"}
        BY <2>5 DEF KillsBenchmark, StopsPolicy, Goes
      <3> QED
        BY <1>0, <2>1, <2>2, <3>1
    <2> QED
      BY <1>6, <2>3, <2>4, <2>5
  <1>7. CASE QuietStep
    <2>1. UNCHANGED <<procs, boot, gap, policy, bench>> /\ unit'.ledger = unit.ledger
      BY <1>7, QuietFrame
    <2>2. q.noted => NamedAfter(unit.ledger, q.group)
      BY <1>0, <2>1, NamesKept
    <2>3. /\ at \notin {"notingPolicy", "notingBench"}
          /\ at' \in {"reaping", "rereaping"} => todo' = unit.ledger
      BY <1>7, QuietFrame
    <2> QED
      BY <1>0, <2>1, <2>2, <2>3
  <1>8. CASE Writes \/ Reaped \/ MovesAside
    <2>1. UNCHANGED <<procs, boot, gap, policy, bench, todo>>
      BY <1>8, UnitFrame
    <2>2. CASE UNCHANGED at /\ unit'.ledger = unit.ledger
      <3>1. q.noted => NamedAfter(unit.ledger, q.group)
        BY <1>0, <2>1, NamesKept
      <3>2. q.noted /\ at \in {"reaping", "rereaping"} => NamedAfter(todo, q.group)
        BY <1>0, <2>1, NamesKept
      <3> QED
        BY <1>0, <2>1, <2>2, <3>1, <3>2
    <2>3. CASE /\ todo = <<>> /\ at \in {"reaping", "rereaping"}
      <3>1. ~q.noted
        BY <1>0, <2>1, <2>3 DEF NamesGroup
      <3> QED
        BY <1>0, <2>1, <2>3, <3>1
    <2>4. CASE at = "moving"
      <3>1. unit.ledger = <<>>
        BY <2>4 DEF OrphansInv, LedgerInv
      <3> QED
        BY <1>0, <1>e, <2>1, <2>4, <3>1
    <2> QED
      BY <1>8, <2>2, <2>3, <2>4, UnitFrame
  <1>9. CASE KillsOrchestrator \/ Boots
    <2>1. at' = "down" /\ UNCHANGED unit /\ procs' # {}
      BY <1>9, EndFrame
    <2>2. UNCHANGED <<procs, boot>> /\ (gap' <=> (gap \/ at \in {"notingPolicy", "notingBench"}))
      BY <1>9, <2>1, EndFrame
    <2>3. q.noted => NamedAfter(unit.ledger, q.group)
      BY <1>0, <2>2, NamesKept
    <2> QED
      BY <1>0, <2>1, <2>2, <2>3
  <1> QED
    BY <1>1, <1>2, <1>3, <1>4, <1>5, <1>6, <1>7, <1>8, <1>9 DEF Kinds

LEMMA ResultStep == ASSUME OrphansInv, Kinds PROVE ResultInv'
  <1>0. ResultInv /\ gap \in BOOLEAN
    BY DEF OrphansInv, GroupsShape
  <1>1. CASE StrangerBegins \/ Forks
    <2>1. UNCHANGED <<at, unit, attempt, gap, got, leaving>>
      BY <1>1, StrangerFrame, ForkFrame DEF RestStays
    <2> QED
      BY <1>0, <2>1 DEF ResultInv
  <1>2. CASE StartsPolicy
    <2>1. at = "serving" /\ at' = "notingPolicy" /\ UNCHANGED <<got, leaving, gap>>
      BY <1>2, PolicyFrame
    <2> QED
      BY <1>0, <2>1 DEF ResultInv
  <1>3. CASE StartsBenchmark
    <2>1. at = "cleared" /\ at' = "notingBench" /\ UNCHANGED <<unit, attempt, gap, got, leaving>>
      BY <1>3, BenchmarkFrame
    <2> QED
      BY <1>0, <2>1 DEF ResultInv
  <1>4. CASE NotesPolicy \/ NotesBenchmark
    <2>1. /\ UNCHANGED <<got, leaving, attempt>>
          /\ \/ at = "notingPolicy" /\ at' = "served"
             \/ at = "notingBench" /\ at' = "running"
      BY <1>4, NoteFrame
    <2>2. unit'.result = unit.result /\ (gap => gap')
      <3>1. PICK g : Notes(g) \/ Misses
        BY <1>4, NoteFrame
      <3>2. gap' = gap \/ gap' = TRUE
        BY <3>1 DEF Notes, Misses
      <3>3. unit'.result = unit.result
        BY <3>1 DEF Notes, Misses
      <3>4. gap => gap'
        BY <3>2
      <3> QED
        BY <3>3, <3>4
    <2> QED
      BY <1>0, <2>1, <2>2 DEF ResultInv
  <1>5. CASE StrikesBenchmark \/ StrikesPolicy
    <2>1. PICK pid : Strikes(pid)
      BY <1>5, StrikeFrame
    <2>2. unit'.result = unit.result /\ UNCHANGED <<gap, got, attempt>>
      BY <2>1 DEF Strikes
    <2>3. \/ at = "killed" /\ at' = "killed" /\ UNCHANGED leaving
          \/ at = "stopped" /\ at' = (IF leaving THEN "down" ELSE "recording") /\ leaving' = FALSE
      BY <1>5, StrikeFrame
    <2> QED
      BY <1>0, <2>2, <2>3 DEF ResultInv
  <1>6. CASE Exits \/ Reaps \/ KillsBenchmark \/ StopsPolicy
    <2>1. UNCHANGED <<unit, attempt, gap, got>>
      BY <1>6, ShrinkFrame
    <2>2. \/ UNCHANGED <<at, leaving>>
          \/ at \in {"running", "waited"} /\ at' = "killed"
          \/ at \in {"stopping", "seen"} /\ at' = "stopped" /\ UNCHANGED leaving
      BY <1>6, ShrinkFrame
    <2> QED
      BY <1>0, <2>1, <2>2 DEF ResultInv
  <1>7. CASE QuietStep
    <2>1. UNCHANGED <<attempt, gap>>
      BY <1>7, QuietFrame
    <2>2. CASE /\ UNCHANGED <<got, leaving>> /\ at \in {"down", "idle"} /\ at' \in {"reaping", "rereaping", "serving", "down"}
      BY <1>0, <2>1, <2>2 DEF ResultInv
    <2>3. CASE at \in {"served", "cleared"} /\ at' = "stopping" /\ got' = got
      BY <1>0, <2>1, <2>3 DEF ResultInv
    <2>4. CASE at = "served" /\ at' = "cleared" /\ unit'.result = 0 /\ UNCHANGED <<got, leaving>>
      BY <1>0, <2>1, <2>4 DEF ResultInv
    <2>5. CASE /\ at = "killed" /\ at' = "stopping" /\ leaving' = leaving
               /\ got' \in (IF leaving THEN {0} ELSE {0, unit.result})
      BY <1>0, <2>1, <2>5 DEF ResultInv
    <2>6. CASE at = "recording" /\ at' = "idle" /\ got' = 0 /\ leaving' = leaving
      BY <1>0, <2>1, <2>6 DEF ResultInv
    <2>7. CASE /\ \/ at = "running" /\ at' = "waited"
                  \/ at = "stopping" /\ at' = "seen"
               /\ UNCHANGED <<got, leaving, unit>>
      BY <1>0, <2>1, <2>7 DEF ResultInv
    <2> QED
      BY <1>7, <2>2, <2>3, <2>4, <2>5, <2>6, <2>7, QuietFrame
  <1>8. CASE Writes \/ Reaped \/ MovesAside
    <2>1. UNCHANGED <<attempt, gap, got, leaving>>
      BY <1>8, UnitFrame
    <2>2. CASE UNCHANGED at /\ \E b \in procs : b.role = "benchmark" /\ unit'.result = b.attempt
      <3>1. PICK b \in procs : b.role = "benchmark" /\ unit'.result = b.attempt
        BY <2>2
      <3>2. b \in procs \ Strangers
        BY <3>1 DEF Strangers
      <3>3. ASSUME at \in {"cleared", "notingBench", "running", "waited", "killed"}
            PROVE  b.attempt = attempt \/ gap
        <4>1. b.attempt = attempt \/ ~b.noted
          BY <3>2, <3>3 DEF OrphansInv, OneAttemptAtATime
        <4>2. ~b.noted => gap \/ (at = "notingBench" /\ b.group = bench.pid)
          BY <3>2, <3>3 DEF OrphansInv, NotedInv
        <4>3. at = "notingBench" /\ b.group = bench.pid => b.attempt = attempt
          BY DEF OrphansInv, OwnInv, OwnBenchmark
        <4> QED
          BY <4>1, <4>2, <4>3
      <3> QED
        BY <1>0, <2>1, <2>2, <3>1, <3>3 DEF ResultInv
    <2>3. CASE at \in {"reaping", "rereaping", "moving"} /\ at' \in {"idle", "moving", "serving"}
      BY <1>0, <2>1, <2>3 DEF ResultInv
    <2> QED
      BY <1>8, <2>2, <2>3, UnitFrame
  <1>9. CASE KillsOrchestrator \/ Boots
    <2>1. at' = "down" /\ got' = 0 /\ leaving' = FALSE
      BY <1>9, EndFrame
    <2> QED
      BY <2>1 DEF ResultInv
  <1> QED
    BY <1>1, <1>2, <1>3, <1>4, <1>5, <1>6, <1>7, <1>8, <1>9 DEF Kinds

LEMMA OneAttemptStep == ASSUME OrphansInv, Kinds PROVE OneAttemptAtATime'
  <1>0. at \notin Before =>
           \A p \in procs : p.role # "stranger" => p.attempt = attempt \/ ~p.noted
    BY DEF OrphansInv, OneAttemptAtATime, Strangers, Before
  <1>1. SUFFICES ASSUME at' \notin Before, NEW q \in procs', q.role # "stranger"
                 PROVE  q.attempt = attempt' \/ ~q.noted
    BY DEF OneAttemptAtATime, Strangers, Before
  <1>2. CASE StrangerBegins
    <2>1. PICK n : Grown(n) /\ n.role = "stranger"
      BY <1>2, StrangerFrame
    <2>2. procs' = procs \cup {n} /\ UNCHANGED <<at, attempt>>
      BY <1>2, <2>1, GrownFacts, StrangerFrame DEF RestStays
    <2> QED
      BY <1>0, <1>1, <2>1, <2>2
  <1>3. CASE Forks
    <2>1. PICK b \in procs : \E n : /\ Grown(n) /\ n.role = b.role
                                    /\ n.attempt = b.attempt /\ n.noted = b.noted
      BY <1>3, ForkFrame
    <2>2. PICK n : Grown(n) /\ n.role = b.role /\ n.attempt = b.attempt /\ n.noted = b.noted
      BY <2>1
    <2>3. procs' = procs \cup {n} /\ UNCHANGED <<at, attempt>>
      BY <1>3, <2>2, GrownFacts, ForkFrame DEF RestStays
    <2> QED
      BY <1>0, <1>1, <2>2, <2>3
  <1>4. CASE StartsPolicy
    <2>1. PICK n : Grown(n) /\ n.attempt = attempt'
      BY <1>4, PolicyFrame
    <2>2. unit.ledger = <<>>
      BY <1>4, PolicyFrame DEF OrphansInv, LedgerInv
    <2>3. q \in procs => ~q.noted
      BY <1>1, <2>2 DEF OrphansInv, NotedInv, NamesGroup, Strangers
    <2> QED
      BY <2>1, <2>3, GrownFacts
  <1>5. CASE StartsBenchmark
    <2>1. PICK n : Grown(n) /\ n.attempt = attempt
      BY <1>5, BenchmarkFrame
    <2>2. procs' = procs \cup {n} /\ at = "cleared" /\ UNCHANGED attempt
      BY <1>5, <2>1, GrownFacts, BenchmarkFrame
    <2> QED
      BY <1>0, <1>1, <2>1, <2>2 DEF Before
  <1>6. CASE NotesPolicy \/ NotesBenchmark
    <2>1. at \in {"notingPolicy", "notingBench"} /\ UNCHANGED attempt
      BY <1>6, NoteFrame
    <2>2. PICK g \in {policy, bench} : Notes(g) \/ Misses
      BY <1>6, NoteFrame
    <2>3. CASE Misses
      BY <1>0, <1>1, <2>1, <2>3 DEF Misses, Before
    <2>4. CASE Notes(g)
      <3>1. PICK p \in procs : /\ q.group = p.group /\ q.role = p.role /\ q.attempt = p.attempt
                               /\ q.noted = (p.noted \/ p.group = g.pid)
        BY <2>4, NotedFacts DEF Notes
      <3>2. p.group = g.pid => p.attempt = attempt
        BY <2>1, <2>2 DEF OrphansInv, OwnInv, OwnPolicy, OwnBenchmark
      <3> QED
        BY <1>0, <1>1, <2>1, <3>1, <3>2 DEF Before
    <2> QED
      BY <2>2, <2>3, <2>4
  <1>7. CASE at \notin Before /\ UNCHANGED attempt /\ procs' \subseteq procs
    BY <1>0, <1>1, <1>7
  <1>8. CASE StrikesBenchmark \/ StrikesPolicy
    <2>1. at \notin Before /\ UNCHANGED attempt
      BY <1>8, StrikeFrame DEF Strikes, Before
    <2> QED
      BY <1>7, <1>8, <2>1, NoneCome
  <1>9. CASE Exits \/ Reaps \/ KillsBenchmark \/ StopsPolicy
    <2>1. at \notin Before /\ UNCHANGED attempt
      BY <1>1, <1>9, ShrinkFrame DEF Before
    <2> QED
      BY <1>7, <1>9, <2>1, NoneCome
  <1>10. CASE QuietStep
    <2>1. at \notin Before /\ UNCHANGED attempt
      BY <1>1, <1>10, QuietFrame DEF Before
    <2> QED
      BY <1>7, <1>10, <2>1, NoneCome
  <1>11. CASE Writes \/ Reaped \/ MovesAside
    <2>1. at \notin Before /\ UNCHANGED attempt
      BY <1>1, <1>11, UnitFrame DEF Before
    <2> QED
      BY <1>7, <1>11, <2>1, NoneCome
  <1>12. CASE KillsOrchestrator \/ Boots
    BY <1>1, <1>12, EndFrame DEF Before
  <1> QED
    BY <1>2, <1>3, <1>4, <1>5, <1>6, <1>8, <1>9, <1>10, <1>11, <1>12 DEF Kinds

LEMMA ReadsOwnStep == ASSUME OrphansInv, Kinds PROVE ReadsOwnResult'
  <1>0. ReadsOwnResult /\ (got \in {0, attempt} \/ gap)
    BY DEF OrphansInv, ResultInv
  <1>1. CASE StrangerBegins \/ Forks
    BY <1>0, <1>1, StrangerFrame, ForkFrame DEF RestStays, ReadsOwnResult
  <1>2. CASE StartsPolicy
    BY <1>0, <1>2, PolicyFrame DEF ReadsOwnResult
  <1>3. CASE StartsBenchmark
    BY <1>0, <1>3, BenchmarkFrame DEF ReadsOwnResult
  <1>4. CASE NotesPolicy \/ NotesBenchmark
    <2>1. UNCHANGED record /\ (gap => gap')
      <3>1. PICK g : Notes(g) \/ Misses
        BY <1>4, NoteFrame
      <3>2. gap' = gap \/ gap' = TRUE
        BY <3>1 DEF Notes, Misses
      <3>3. gap => gap'
        BY <3>2
      <3> QED
        BY <1>4, <3>3, NoteFrame
    <2> QED
      BY <1>0, <2>1 DEF ReadsOwnResult
  <1>5. CASE StrikesBenchmark \/ StrikesPolicy
    BY <1>0, <1>5, StrikeFrame DEF Strikes, ReadsOwnResult
  <1>6. CASE Exits \/ Reaps \/ KillsBenchmark \/ StopsPolicy
    BY <1>0, <1>6, ShrinkFrame DEF ReadsOwnResult
  <1>7. CASE QuietStep
    <2>1. gap' = gap /\ (record' = record \/ record' = [author |-> got, attempt |-> attempt])
      BY <1>7, QuietFrame
    <2> QED
      BY <1>0, <2>1 DEF ReadsOwnResult
  <1>8. CASE Writes \/ Reaped \/ MovesAside
    BY <1>0, <1>8, UnitFrame DEF ReadsOwnResult
  <1>9. CASE KillsOrchestrator \/ Boots
    <2>1. UNCHANGED record /\ (gap => gap')
      <3>1. gap' = gap \/ gap' = (gap \/ at \in {"notingPolicy", "notingBench"})
        BY <1>9, EndFrame
      <3>2. gap => gap'
        BY <3>1, Zenon
      <3> QED
        BY <1>9, <3>2, EndFrame
    <2> QED
      BY <1>0, <2>1 DEF ReadsOwnResult
  <1> QED
    BY <1>1, <1>2, <1>3, <1>4, <1>5, <1>6, <1>7, <1>8, <1>9 DEF Kinds

LEMMA OrphansStepInv ==
    ASSUME OrphansInv, [GroupsNext]_groupVars
    PROVE  OrphansInv'
  <1>1. CASE GroupsNext
    <2>1. Kinds
      BY <1>1, KindsCover
    <2>2. GroupsShape' /\ CountsInv' /\ GroupsInv' /\ HeldInv'
      BY <2>1, GroupsShapeStep, CountsStep, GroupsInvStep, HeldStep
    <2>3. OwnInv' /\ EndedInv' /\ LedgerInv' /\ OursInv'
      BY <2>1, OwnStep, EndedStep, LedgerStep, OursStep
    <2>4. NotedInv' /\ ResultInv' /\ OneAttemptAtATime' /\ ReadsOwnResult'
      BY <2>1, NotedStep, ResultStep, OneAttemptStep, ReadsOwnStep
    <2> QED
      BY <2>2, <2>3, <2>4 DEF OrphansInv
  <1>2. CASE UNCHANGED groupVars
    <2>1. UNCHANGED <<procs, born, boot, at, todo, policy, bench, got, leaving, attempt,
                      unit, record, decided, gap, accidents>>
      BY <1>2 DEF groupVars, machineVars, attemptVars, diskVars
    <2>2. GroupsShape' /\ CountsInv' /\ GroupsInv' /\ HeldInv'
      BY <2>1 DEF OrphansInv, GroupsShape, CountsInv, GroupsInv, HeldInv
    <2>3. OwnInv' /\ EndedInv' /\ LedgerInv'
      BY <2>1 DEF OrphansInv, OwnInv, OwnPolicy, OwnBenchmark, EndedInv, GroupOf, LedgerInv
    <2>4. OursInv' /\ ResultInv' /\ OneAttemptAtATime' /\ ReadsOwnResult'
      BY <2>1 DEF OrphansInv, OursInv, Ours, ResultInv, OneAttemptAtATime, Strangers, ReadsOwnResult
    <2>5. NotedInv'
      BY <2>1 DEF OrphansInv, NotedInv, NamesGroup, StillRecorded, GroupOf, Strangers
    <2> QED
      BY <2>2, <2>3, <2>4, <2>5 DEF OrphansInv
  <1> QED
    BY <1>1, <1>2

LEMMA StrangersStep ==
    ASSUME OrphansInv, GroupsNext, <<at, todo>>' # <<at, todo>>, boot' = boot,
           NEW p \in Strangers
    PROVE  p \in procs' \/ LooksLeft(p) \/ WaitedFor(p)
  <1>0. Kinds
    BY KindsCover
  <1>1. p \in procs /\ p.role = "stranger"
    BY DEF Strangers
  <1>3. CASE StrangerBegins \/ Forks \/ Exits \/ Writes
    <2>1. UNCHANGED <<at, todo>>
      BY <1>3 DEF StrangerBegins, Forks, Exits, Writes
    <2> QED
      BY <1>1, <2>1
  <1>4. CASE StartsPolicy \/ StartsBenchmark
    <2>1. PICK n : Grown(n)
      BY <1>4, PolicyFrame, BenchmarkFrame
    <2> QED
      BY <1>1, <2>1 DEF Grown
  <1>5. CASE NotesPolicy \/ NotesBenchmark
    <2>1. PICK g \in {policy, bench} : Notes(g) \/ Misses
      BY <1>5, NoteFrame
    <2>2. CASE Misses
      BY <1>1, <2>2 DEF Misses
    <2>3. CASE Notes(g)
      <3>1. p.group # g.pid
        BY <1>1, <1>5, <2>1, NoteFrame DEF OrphansInv, OwnInv, OwnPolicy, OwnBenchmark
      <3> QED
        BY <1>1, <2>3, <3>1, NotedFacts DEF Notes
    <2> QED
      BY <2>1, <2>2, <2>3
  <1>6. CASE Reaps
    <2>1. PICK last \in Entries : last = todo[Len(todo)] /\ Ours(last)
      <3>1. todo # <<>> /\ todo \in Seq(Entries)
        BY <1>6 DEF Reaps, OrphansInv, GroupsShape
      <3>2. Len(todo) \in DOMAIN todo
        BY <3>1
      <3> QED
        BY <3>1, <3>2 DEF OrphansInv, OursInv
    <2>2. procs' = procs \/ (StillRecorded(last) /\ procs' = procs \ GroupOf(last.pgid))
      BY <1>6, <2>1 DEF Reaps, Killed, machineVars
    <2>3. CASE StillRecorded(last) /\ p.group = last.pgid /\ \E q \in procs : q.pid = p.group
      <3>1. PICK q \in procs : q.pid = last.pgid /\ q.start = last.start
        BY <2>3 DEF StillRecorded
      <3>2. q.role # "stranger"
        BY <2>1, <2>3, <3>1 DEF StillRecorded, Ours
      <3>3. q.group = p.group
        BY <1>1, <2>3, <3>1 DEF OrphansInv, GroupsInv
      <3> QED
        BY <1>1, <3>2, <3>3 DEF OrphansInv, GroupsInv
    <2>4. CASE StillRecorded(last) /\ p.group = last.pgid /\ \A q \in procs : q.pid # p.group
      BY <1>6, <2>1, <2>4 DEF LooksLeft, Reaps, StillRecorded
    <2> QED
      BY <1>1, <2>2, <2>3, <2>4 DEF GroupOf
  <1>7. CASE KillsBenchmark
    <2>1. procs' = procs \ GroupOf(bench.pid) /\ at \in {"running", "waited"}
      BY <1>7 DEF KillsBenchmark, Killed
    <2>2. at = "running" => p.group # bench.pid
      BY <1>1 DEF OrphansInv, OwnInv, OwnBenchmark
    <2> QED
      BY <1>1, <2>1, <2>2 DEF GroupOf, WaitedFor
  <1>11. CASE StopsPolicy
    <2>1. procs' = procs \ GroupOf(policy.pid) /\ at \in {"stopping", "seen"}
      BY <1>11 DEF StopsPolicy, Killed
    <2>2. at = "stopping" => p.group # policy.pid
      BY <1>1 DEF OrphansInv, OwnInv, OwnPolicy
    <2> QED
      BY <1>1, <2>1, <2>2 DEF GroupOf, WaitedFor
  <1>8. CASE StrikesBenchmark \/ StrikesPolicy \/ QuietStep \/ Reaped \/ MovesAside
    <2>1. procs' = procs
      BY <1>8, StrikeFrame, QuietFrame, UnitFrame DEF Strikes
    <2> QED
      BY <1>1, <2>1
  <1>9. CASE KillsOrchestrator
    BY <1>1, <1>9 DEF KillsOrchestrator, machineVars
  <1>10. CASE Boots
    <2>1. boot' = boot + 1 /\ boot \in Nat
      BY <1>10 DEF Boots, OrphansInv, GroupsShape
    <2> QED
      BY <2>1
  <1> QED
    BY <1>0, <1>3, <1>4, <1>5, <1>6, <1>7, <1>8, <1>9, <1>10, <1>11 DEF Kinds

-----------------------------------------------------------------------------
(* Both runtimes. *)

SurvivorsInv == OrphansInv /\ ContainersInv /\ runtime \in {"local", "docker"}

LEMMA SurvivorsStep == SurvivorsInv /\ [SurvivorsNext]_survivorVars => SurvivorsInv'
  <1> SUFFICES ASSUME SurvivorsInv, [SurvivorsNext]_survivorVars
               PROVE  SurvivorsInv'
    OBVIOUS
  <1>1. OrphansInv /\ ContainersInv /\ runtime \in {"local", "docker"}
    BY DEF SurvivorsInv
  <1>2. [GroupsNext]_groupVars /\ [ContainersNext]_containerVars /\ runtime' = runtime
    <2>1. CASE runtime = "local" /\ GroupsNext /\ UNCHANGED <<containerVars, runtime>>
      BY <2>1
    <2>2. CASE runtime = "docker" /\ ContainersNext /\ UNCHANGED <<groupVars, runtime>>
      BY <2>2
    <2>3. CASE UNCHANGED survivorVars
      BY <2>3 DEF survivorVars
    <2> QED
      BY <2>1, <2>2, <2>3 DEF SurvivorsNext
  <1> QED
    BY <1>1, <1>2, OrphansStepInv, ContainersStepInv DEF SurvivorsInv

(* The inductive invariant of groups and containers holds always. *)
THEOREM SurvivorsInvariance == Spec => []SurvivorsInv
  <1>1. SurvivorsInit => SurvivorsInv
    BY GroupsInitInv, ContainersInitInv DEF SurvivorsInit, SurvivorsInv
  <1> QED
    BY <1>1, SurvivorsStep, PTL DEF Spec

(* Every variable keeps its type: no pid is two processes', no name two        *)
(* containers', and a result is no later attempt's.                           *)
THEOREM SurvivorsTypeCorrect == Spec => []SurvivorsTypeOK
  <1>1. OrphansInv => GroupsTypeOK
    <2> SUFFICES ASSUME OrphansInv PROVE GroupsTypeOK
      OBVIOUS
    <2>1. GroupsShape /\ CountsInv /\ GroupsInv /\ LedgerInv
      BY DEF OrphansInv
    <2>2. /\ procs \subseteq [pid : Pids, start : 1 .. MaxBorn, group : Pids, role : Roles,
                              attempt : 0 .. MaxAttempts, noted : BOOLEAN]
          /\ born \in [Pids -> 0 .. MaxBorn] /\ boot \in 0 .. MaxAccidents /\ at \in Places
      BY <2>1 DEF GroupsShape, Processes
    <2>3. \A p, q \in procs : p.pid = q.pid => p = q
      BY <2>1 DEF GroupsInv
    <2>4. /\ {policy, bench} \subseteq [pid : Pids \cup {0}, start : 0 .. MaxBorn]
          /\ got \in 0 .. MaxAttempts /\ attempt \in 0 .. MaxAttempts
          /\ record \in [author : 0 .. MaxAttempts, attempt : 0 .. MaxAttempts]
          /\ accidents \in 0 .. MaxAccidents
      BY <2>1 DEF GroupsShape, HeldGroups, Results
    <2>5. leaving \in BOOLEAN /\ decided \in BOOLEAN /\ gap \in BOOLEAN
      BY <2>1 DEF GroupsShape
    <2>6. {leaving, decided, gap} \subseteq BOOLEAN
      BY <2>5
    <2>7. /\ unit.there \/ (unit.ledger = <<>> /\ unit.result = 0)
          /\ Len(unit.ledger) <= 2 /\ Len(todo) <= 2
      BY <2>1 DEF CountsInv, LedgerInv
    <2>8. unit.result \in 0 .. attempt
      <3>1. unit.result \in Nat /\ attempt \in Nat /\ unit.result <= attempt
        BY <2>1 DEF GroupsShape, Units, CountsInv
      <3> QED
        BY <3>1
    <2> QED
      BY <2>2, <2>3, <2>4, <2>6, <2>7, <2>8 DEF GroupsTypeOK
  <1>2. ContainersInv => ContainersTypeOK
    <2> SUFFICES ASSUME ContainersInv PROVE ContainersTypeOK
      OBVIOUS
    <2>1. \A a \in Actors : listed[a] \cup owed[a] \cup victim[a] \subseteq Containers
      BY DEF ContainersInv, ContainersShape
    <2>2. /\ \A c, d \in containers : c.name = d.name => c = d
          /\ \A c \in containers : c.name <= serial
      BY DEF ContainersInv, NamesInv, Seen
    <2>3. \A a, b \in Actors : process[a] = process[b] /\ process[a] # Nobody => a = b
      BY DEF ContainersInv, ProcessesInv
    <2> QED
      BY <2>1, <2>2, <2>3 DEF ContainersInv, ContainersShape, ContainersTypeOK, Stages
  <1>3. SurvivorsInv => SurvivorsTypeOK
    BY <1>1, <1>2 DEF SurvivorsInv, SurvivorsTypeOK
  <1> QED
    BY <1>3, SurvivorsInvariance, PTL

(* orphans.py, reap and the ledger: while an attempt is played nothing that is *)
(* noted of an earlier one runs, whenever the orchestrator was killed and      *)
(* whatever pids were given again.                                             *)
THEOREM OneAttemptPlays == Spec => []OneAttemptAtATime
  <1>1. SurvivorsInv => OneAttemptAtATime
    BY DEF SurvivorsInv, OrphansInv
  <1> QED
    BY <1>1, SurvivorsInvariance, PTL

(* side.py and subprocess_runner.py, clearing what is there before a benchmark *)
(* starts and reading what is there after its group was killed: the result     *)
(* recorded is the attempt's own, but for a group no ledger names.             *)
THEOREM OwnResultRead == Spec => []ReadsOwnResult
  <1>1. SurvivorsInv => ReadsOwnResult
    BY DEF SurvivorsInv, OrphansInv
  <1> QED
    BY <1>1, SurvivorsInvariance, PTL

(* container.py, reap_orphans before prepare: what a program serves, it serves *)
(* with none left of the containers it listed as an ended owner's.             *)
THEOREM OrphansAreGone == Spec => []OrphansGone
  <1>1. SurvivorsInv => OrphansGone
    <2> SUFFICES ASSUME ContainersInv, NEW a \in Actors, step[a] \in {"mounted", "serving"}
                 PROVE  owed[a] \cap containers = {}
      BY DEF SurvivorsInv, OrphansGone
    <2>1. owed[a] \cap containers \subseteq listed[a] /\ listed[a] = {}
      BY DEF ContainersInv, ReapersInv, ReaperInv
    <2> QED
      BY <2>1
  <1> QED
    BY <1>1, SurvivorsInvariance, PTL

(* container.py, prepare, remove and release: no order of starts, reaps and    *)
(* closes leaves a tmpfs that no container, and nobody at work, names; a kill, *)
(* a command that fails or a preparation that raises leaves one at most.       *)
THEOREM MountsAreBounded == Spec => []MountsBounded
<1>1. SurvivorsInv => MountsBounded
  BY DEF SurvivorsInv, ContainersInv, MountsInv
<1> QED
  BY <1>1, SurvivorsInvariance, PTL

(* orphans.py, _still_recorded, and the two killpg: a step of the orchestrator *)
(* ends a process it did not start only in a group that has no leader left and *)
(* that this boot's ledger names, or by a number it has already waited for.    *)
THEOREM StrangersAreLeft == Spec => StrangersLeft
  <1> DEFINE Spared == <<at, todo>>' # <<at, todo>> /\ boot' = boot =>
                          \A p \in Strangers : p \in procs' \/ LooksLeft(p) \/ WaitedFor(p)
  <1>1. SurvivorsInv /\ [SurvivorsNext]_survivorVars => [Spared]_groupVars
    <2> SUFFICES ASSUME SurvivorsInv, [SurvivorsNext]_survivorVars, groupVars' # groupVars
                 PROVE  Spared
      OBVIOUS
    <2>1. GroupsNext
      BY DEF SurvivorsNext, survivorVars
    <2> QED
      BY <2>1, StrangersStep DEF SurvivorsInv
  <1> QED
    BY <1>1, SurvivorsInvariance, PTL DEF Spec, StrangersLeft

(* container.py, reap_orphans: no reaper removes a container whose owner       *)
(* lives, nor takes away what is mounted on its directory.                     *)
THEOREM ServedAreLeft == Spec => ServedStay
  <1> DEFINE Stays ==
        \A a \in Actors : step'[a] = step[a] /\ step[a] = "serving" =>
            /\ \A c \in containers : c.name = held[a] => c \in containers'
            /\ a \notin Checks /\ DirOf(a, held[a]) \in mounted => DirOf(a, held[a]) \in mounted'
  <1>1. SurvivorsInv /\ [SurvivorsNext]_survivorVars => [Stays]_containerVars
    <2> SUFFICES ASSUME SurvivorsInv, [SurvivorsNext]_survivorVars, containerVars' # containerVars
                 PROVE  Stays
      OBVIOUS
    <2>1. ContainersNext
      BY DEF SurvivorsNext, survivorVars
    <2>2. ASSUME NEW a \in Actors, step'[a] = step[a], step[a] = "serving"
          PROVE  /\ \A c \in containers : c.name = held[a] => c \in containers'
                 /\ (a \notin Checks /\ DirOf(a, held[a]) \in mounted) => DirOf(a, held[a]) \in mounted'
      BY <2>1, <2>2, ServedStayStep DEF SurvivorsInv
    <2> QED
      BY <2>2
  <1> QED
    BY <1>1, SurvivorsInvariance, PTL DEF Spec, ServedStay

=============================================================================
