-------------------------- MODULE PolicyContainers --------------------------
(***************************************************************************)
(* Policy containers and their shared directories (container.py), started  *)
(* by several processes of one host that may each be killed at any point:  *)
(* the orchestrator, which gives every container a directory of its own    *)
(* (docker_runtime.py), and submission checks, each at one work directory  *)
(* (check.py).  Every start first reaps what ended processes left.         *)
(*                                                                         *)
(* A process is named as the kernel names it: by its pid, its start time   *)
(* (`starts` counts the processes that have had the pid) and the pid       *)
(* namespace it runs in.                                                   *)
(***************************************************************************)
EXTENDS Integers, FiniteSets

CONSTANTS
    Actors,         \* the programs that start containers
    Checks,         \* those that use one work directory
    Spaces, PidsOf, \* pid namespaces and the pids of one
    MaxStarts,      \* bound: processes that get the same pid of a namespace
    MaxContainers,  \* bound: containers started
    MaxMishaps      \* bound: kills, and commands and preparations that fail

ASSUME ContainersAssumption ==
    /\ IsFiniteSet(Actors) /\ Checks \subseteq Actors
    /\ MaxStarts \in Nat /\ MaxContainers \in Nat /\ MaxMishaps \in Nat

Nobody == [pid |-> 0, start |-> 0, pidns |-> "none"]
NoContainer == 0

VARIABLES
    space,       \* the pid namespace each program is started in
    process,     \* each program's process, or Nobody
    starts,
    step,        \* how far each process is
    listed,      \* containers its reaper has listed and not looked at
    victim,      \* the container it has reaped and whose directory it is about to release
    held,        \* the container it is starting, serving or removing
    owed,        \* containers whose owner was gone when its reaper listed them
    containers,  \* docker's: number, owner label and shared directory label of each
    mounted,     \* directories with our tmpfs on them
    serial,      \* containers named so far
    mishaps

processVars == <<space, process, starts>>
reaperVars == <<listed, owed, victim>>
dockerVars == <<containers, serial>>
containerVars == <<processVars, step, reaperVars, held, dockerVars, mounted, mishaps>>

Owners == [pid : PidsOf \cup {0}, start : 0 .. MaxStarts, pidns : Spaces \cup {"none"}]
DirOf(a, n) == IF a \in Checks THEN <<a, 0>> ELSE <<a, n>>
Dirs == Actors \X (0 .. MaxContainers)
Containers == [name : 1 .. MaxContainers, owner : Owners, dir : Dirs]

ContainersTypeOK ==
    /\ space \in [Actors -> Spaces]
    /\ process \in [Actors -> Owners]
    /\ \A a, b \in Actors : process[a] = process[b] /\ process[a] # Nobody => a = b
    /\ starts \in [Spaces \X PidsOf -> 0 .. MaxStarts]
    /\ step \in [Actors -> {"down", "up", "reaping", "releasing", "mounted",
                            "serving", "closing"}]
    /\ \A a \in Actors : listed[a] \cup owed[a] \cup victim[a] \subseteq Containers
    /\ held \in [Actors -> 0 .. MaxContainers]
    /\ \A c, d \in containers : c.name = d.name => c = d
    /\ containers \subseteq Containers /\ \A c \in containers : c.name <= serial
    /\ mounted \subseteq Dirs
    /\ serial \in 0 .. MaxContainers /\ mishaps \in 0 .. MaxMishaps

ContainersInit ==
    /\ space \in [Actors -> Spaces]
    /\ process = [a \in Actors |-> Nobody]
    /\ starts = [p \in Spaces \X PidsOf |-> 0]
    /\ step = [a \in Actors |-> "down"]
    /\ listed = [a \in Actors |-> {}] /\ owed = [a \in Actors |-> {}]
    /\ victim = [a \in Actors |-> {}]
    /\ held = [a \in Actors |-> NoContainer]
    /\ containers = {} /\ mounted = {} /\ serial = 0
    /\ mishaps = 0

Mishap == mishaps < MaxMishaps /\ mishaps' = mishaps + 1
At(a, s) == step[a] = s
Steps(a, s) == step' = [step EXCEPT ![a] = s]

-----------------------------------------------------------------------------
(* Processes. *)

Alive(owner) == \E a \in Actors : process[a] = owner

(* Slip: a pid that some process has is still the owner's. *)
GoneByPid(owner, pidns) ==
    \A a \in Actors : ~(process[a].pidns = pidns /\ process[a].pid = owner.pid)

(* Owner.gone, asked in the owner's namespace: no process has the pid, or a   *)
(* later one has.  Asked in another, it answers for that namespace's pid.     *)
Gone(owner, pidns) ==
    \A a \in Actors : process[a].pidns = pidns /\ process[a].pid = owner.pid
                          => process[a].start # owner.start

Launches(a) ==
    /\ At(a, "down")
    /\ \E p \in PidsOf :
        LET slot == <<space[a], p>>
        IN  /\ \A b \in Actors : <<process[b].pidns, process[b].pid>> # slot
            /\ starts[slot] < MaxStarts
            /\ starts' = [starts EXCEPT ![slot] = @ + 1]
            /\ process' = [process EXCEPT ![a] = [pid |-> p, start |-> starts[slot] + 1,
                                                  pidns |-> space[a]]]
    /\ Steps(a, "up")
    /\ UNCHANGED <<space, reaperVars, held, dockerVars, mounted, mishaps>>

Leaves(a) ==
    /\ At(a, "up")
    /\ process' = [process EXCEPT ![a] = Nobody]
    /\ Steps(a, "down")
    /\ UNCHANGED <<space, starts, reaperVars, held, dockerVars, mounted, mishaps>>

IsKilled(a) ==
    /\ step[a] # "down"
    /\ Mishap
    /\ process' = [process EXCEPT ![a] = Nobody]
    /\ listed' = [listed EXCEPT ![a] = {}]
    /\ owed' = [owed EXCEPT ![a] = {}]
    /\ held' = [held EXCEPT ![a] = NoContainer]
    /\ victim' = [victim EXCEPT ![a] = {}]
    /\ Steps(a, "down")
    /\ UNCHANGED <<space, starts, dockerVars, mounted>>

-----------------------------------------------------------------------------
(* PolicyContainer.start: the reaper, the shared directory, docker run. *)

(* Slip: whatever namespace the owner is in. *)
IsOrphanAnywhere(a, c) == c.owner # process[a] /\ Gone(c.owner, space[a])

IsOrphan(a, c) ==
    /\ c.owner.pidns = space[a] /\ c.owner # process[a]
    /\ Gone(c.owner, space[a])

Lists(a) ==
    /\ At(a, "up") /\ serial < MaxContainers
    /\ \/ /\ listed' = [listed EXCEPT ![a] = containers]
          /\ owed' = [owed EXCEPT ![a] = {c \in containers : /\ c.owner.pidns = space[a]
                                                           /\ ~Alive(c.owner)}]
          /\ UNCHANGED mishaps
       \/ Mishap /\ UNCHANGED <<listed, owed>>
    /\ Steps(a, "reaping")
    /\ UNCHANGED <<processVars, victim, held, dockerVars, mounted>>

(* docker rm --force, which may fail and says nothing then. *)
Removed(c) == containers' = {d \in containers : d.name # c.name} /\ UNCHANGED mishaps
NotRemoved == Mishap /\ UNCHANGED containers

ReapsNext(a) ==
    /\ At(a, "reaping")
    /\ \E c \in listed[a] :
        /\ listed' = [listed EXCEPT ![a] = @ \ {c}]
        /\ IF IsOrphan(a, c)
           THEN /\ \/ Removed(c) /\ UNCHANGED owed
                   \/ NotRemoved /\ owed' = [owed EXCEPT ![a] = @ \ {c}]
                /\ victim' = [victim EXCEPT ![a] = {c}]
                /\ Steps(a, "releasing")
           ELSE UNCHANGED <<containers, owed, victim, step, mishaps>>
    /\ UNCHANGED <<processVars, held, serial, mounted>>

(* Slip: a directory is left to the next start there. *)
ReleasesNothing(d) == UNCHANGED <<mounted, mishaps>>

(* release_socket_dir; a umount that fails leaves the tmpfs. *)
Releases(d) ==
    \/ mounted' = mounted \ {d} /\ UNCHANGED mishaps
    \/ d \in mounted /\ Mishap /\ UNCHANGED mounted

ReleasesVictim(a) ==
    /\ At(a, "releasing")
    /\ \E c \in victim[a] : Releases(c.dir)
    /\ victim' = [victim EXCEPT ![a] = {}]
    /\ Steps(a, "reaping")
    /\ UNCHANGED <<processVars, listed, owed, held, dockerVars>>

(* Slip: a container is named for its submission alone. *)
NameOfRef == 1

(* Every container has a name of its own. *)
NextName == serial + 1

(* prepare_socket_dir: what an earlier run left mounted there comes off. *)
Prepares(a) ==
    /\ At(a, "reaping") /\ listed[a] = {} /\ serial < MaxContainers
    /\ serial' = serial + 1
    /\ held' = [held EXCEPT ![a] = NextName]
    /\ mounted' = mounted \cup {DirOf(a, NextName)}
    /\ Steps(a, "mounted")
    /\ UNCHANGED <<processVars, reaperVars, containers, mishaps>>

(* A preparation that raises - at the unmount, at the mount or after it -     *)
(* leaves the directory as it is then: nothing was run, and close releases    *)
(* only what start was told is bounded.                                       *)
PrepareFails(a) ==
    /\ At(a, "reaping") /\ listed[a] = {} /\ serial < MaxContainers
    /\ Mishap
    /\ serial' = serial + 1
    /\ LET d == DirOf(a, NextName)
       IN  mounted' \in {mounted \ {d}, mounted \cup {d}}
    /\ Steps(a, "up")
    /\ UNCHANGED <<processVars, reaperVars, held, containers>>

(* docker run, under the owner's labels; a start that failed is closed too. *)
Runs(a) ==
    /\ At(a, "mounted")
    /\ \/ /\ containers' = containers \cup
                {[name |-> held[a], owner |-> process[a], dir |-> DirOf(a, held[a])]}
          /\ Steps(a, "serving")
          /\ UNCHANGED mishaps
       \/ Mishap /\ Steps(a, "serving") /\ UNCHANGED containers
    /\ UNCHANGED <<processVars, reaperVars, held, serial, mounted>>

(* PolicyContainer.close. *)
Closes(a) ==
    /\ At(a, "serving")
    /\ \/ containers' = {c \in containers : c.name # held[a]} /\ UNCHANGED mishaps
       \/ NotRemoved
    /\ owed' = [owed EXCEPT ![a] = {}]
    /\ Steps(a, "closing")
    /\ UNCHANGED <<processVars, listed, victim, held, serial, mounted>>

Closed(a) ==
    /\ At(a, "closing")
    /\ Releases(DirOf(a, held[a]))
    /\ held' = [held EXCEPT ![a] = NoContainer]
    /\ Steps(a, "up")
    /\ UNCHANGED <<processVars, reaperVars, dockerVars>>

ContainersNext ==
    \E a \in Actors :
        \/ Launches(a) \/ Leaves(a) \/ IsKilled(a)
        \/ Lists(a) \/ ReapsNext(a) \/ ReleasesVictim(a) \/ Prepares(a)
        \/ PrepareFails(a) \/ Runs(a) \/ Closes(a) \/ Closed(a)

-----------------------------------------------------------------------------

(* No reaper removes a container of a process that lives, in its namespace or *)
(* in another, nor takes the tmpfs from under one with a directory of its own *)
(* (container.py:394-398).                                                    *)
ServedStay ==
    [][\A a \in Actors : step'[a] = step[a] /\ step[a] = "serving" =>
        /\ \A c \in containers : c.name = held[a] => c \in containers'
        /\ a \notin Checks /\ DirOf(a, held[a]) \in mounted => DirOf(a, held[a]) \in mounted']_containerVars

(* Once a process serves, every container whose owner had ended when it       *)
(* listed them is gone, whoever has been given the owner's pid since, unless  *)
(* docker would not remove it.                                                *)
OrphansGone == \A a \in Actors : step[a] \in {"mounted", "serving"} => owed[a] \cap containers = {}

(* The directories mounted that no container names, for the next reaper, and  *)
(* no process works at.                                                       *)
Named(d) == \E c \in containers : c.dir = d
InHand(a) == {DirOf(a, n) : n \in {held[a]} \ {NoContainer}} \cup {c.dir : c \in victim[a]}
Unnamed == {d \in mounted : ~Named(d) /\ \A a \in Actors : d \notin InHand(a)}

(* Nothing takes the tmpfs off such a directory but a start there, and a duel *)
(* never starts twice at one; so what bounds them is that a kill, a command   *)
(* that fails or a preparation that raises leaves one at most, and nothing    *)
(* else leaves any ("at most SHARED_DIR_BYTES stay mounted",                  *)
(* container.py:547).                                                         *)
MountsBounded == Cardinality(Unnamed) <= mishaps

=============================================================================
