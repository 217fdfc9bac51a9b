----------------------------- MODULE DuelUnits -----------------------------
(***************************************************************************)
(* One duel between its request and its record (duel/orchestrate.py _run,  *)
(* duel/materialize.py, duel/side.py): every unit's prompt is materialized *)
(* once, then each side plays every unit from it.  What is done is kept in *)
(* two kinds of JSON-lines files, the prompt manifest and a side's         *)
(* results, so that a duel killed anywhere resumes.                        *)
(*                                                                         *)
(* A prompt is the number of the materialization that made its file: two   *)
(* of one unit never hash alike.  A file that was changed after it was     *)
(* made is the negative of it.  Order, budgets and attribution are kept;   *)
(* how long anything takes, and what a side scores, is not.                *)
(***************************************************************************)
EXTENDS Integers, Sequences, FiniteSets

CONSTANTS
    N,         \* the units of the duel
    Sides,     \* the sides in the order they play
    MaxVoid,   \* how many units may be void before the duel is
    TornIn,    \* the files an append may be cut in, of {"manifest", "results"}
    Changes,   \* whether a prompt's file may change under the duel
    MaxFaults  \* bound: kills of a behaviour

Units == 1 .. N
Players == {Sides[i] : i \in DOMAIN Sides}

VARIABLES
    manifest,  \* prompts/manifest.jsonl
    results,   \* each side's results.jsonl
    file,      \* each unit's prompt file, 0 when there is none
    made,      \* how often each unit was materialized
    left,      \* the prompt the result in a side's unit directory was played from, 0 for no result
    orphans,   \* the units whose benchmark a killed process left running
    forfeit,   \* king_forfeit.json: the king was refused
    outcome,   \* outcome.json
    pc,        \* where the process is
    turn,      \* the side that plays, an index of Sides
    prompts,   \* each unit's prompt, as this process knows it
    rows,      \* the duel's published rows, so far
    done,      \* the units the playing side has finished
    pending,   \* the line about to be appended
    faults     \* kills so far

disk == <<manifest, results, file, made, left, orphans, forfeit, outcome>>
memory == <<pc, turn, prompts, rows, done, pending>>
vars == <<disk, memory, faults>>

VoidPrompt == [void |-> TRUE, sha |-> 0]
PromptOf(sha) == [void |-> FALSE, sha |-> sha]
Unread == [void |-> FALSE, sha |-> 0]

(* What a side's line says of a unit, and the prompt it was played from, if any. *)
Kinds == {"scored", "failed", "void"}
NoResult == [kind |-> "none", from |-> 0]
NoLine == [unit |-> 0]
EmptyRow == [void |-> FALSE, result |-> [s \in Players |-> NoResult]]

Prompts == [void : BOOLEAN, sha : Nat]
Results == [kind : Kinds, from : Int]
JsonLines(Line) == [lines : Seq(Line), tail : {"none", "cut", "whole"}]
ManifestLines == [unit : Units, prompt : Prompts]
ResultLines == [unit : Units, result : Results]

(* Types.  A recorded hash is that of a file as a materialization made it, never *)
(* of one changed since.                                                        *)
TypeOK ==
    /\ manifest \in JsonLines(ManifestLines)
    /\ results \in [Players -> JsonLines(ResultLines)]
    /\ file \in [Units -> Int]
    /\ made \in [Units -> Nat]
    /\ left \in [Players \X Units -> Int]
    /\ orphans \in SUBSET (Players \X Units)
    /\ forfeit \in BOOLEAN
    /\ outcome \in {"none", "published", "refused", "void"}
    /\ pc \in {"off", "fetch", "materialize", "prompted", "evaluate", "playing", "ended", "result",
               "over"}
    /\ turn \in DOMAIN Sides
    /\ prompts \in [Units -> Prompts]
    /\ rows \in [Units -> [void : BOOLEAN, result : [Players -> Results \cup {NoResult}]]]
    /\ done \in SUBSET Units
    /\ pending \in ManifestLines \cup ResultLines \cup {NoLine}
    /\ faults \in Nat

ASSUME UnitsAssumption ==
    /\ N \in Nat \ {0}
    /\ Sides \in {<<"challenger">>, <<"challenger", "king">>}
    /\ MaxVoid \in Nat
    /\ TornIn \subseteq {"manifest", "results"}
    /\ Changes \in BOOLEAN
    /\ MaxFaults \in Nat

Init ==
    /\ manifest = [lines |-> <<>>, tail |-> "none"]
    /\ results = [s \in Players |-> [lines |-> <<>>, tail |-> "none"]]
    /\ file = [u \in Units |-> 0]
    /\ made = [u \in Units |-> 0]
    /\ left = [p \in Players \X Units |-> 0]
    /\ orphans = {}
    /\ forfeit = FALSE
    /\ outcome = "none"
    /\ pc = "off"
    /\ turn = 1
    /\ prompts = [u \in Units |-> Unread]
    /\ rows = [u \in Units |-> EmptyRow]
    /\ done = {}
    /\ pending = NoLine
    /\ faults = 0

-----------------------------------------------------------------------------
(* JSON-lines files.  `lines` is what parses; a stopped append leaves a last    *)
(* line with no newline, cut short or whole.  Whatever is appended after it     *)
(* goes onto the same line, and neither parses then.                            *)

Appended(f, line) ==
    [lines |-> CASE f.tail = "none" -> Append(f.lines, line)
                 [] f.tail = "cut" -> f.lines
                 [] f.tail = "whole" -> SubSeq(f.lines, 1, Len(f.lines) - 1),
     tail |-> "none"]

Torn(f, line) ==
    CASE f.tail = "none" -> {[f EXCEPT !.tail = "cut"],
                             [lines |-> Append(f.lines, line), tail |-> "whole"]}
      [] OTHER -> {[Appended(f, line) EXCEPT !.tail = "cut"]}

LinesOf(f, u) == {i \in DOMAIN f.lines : f.lines[i].unit = u}

(* read_manifest and read_results: a unit's last line that parses. *)
Has(f, u) == LinesOf(f, u) # {}

LastLine(f, u) == f.lines[CHOOSE i \in LinesOf(f, u) : \A j \in LinesOf(f, u) : j <= i]

-----------------------------------------------------------------------------
Side == Sides[turn]

First(units) == CHOOSE u \in units : \A v \in units : u <= v

VoidRows(r) == {u \in Units : r[u].void}

(* too_void: more units void than the spec allows.  Every unit counts. *)
TooVoid(r) == Cardinality(VoidRows(r)) > MaxVoid

(* _on_prompt. *)
WithPrompt(row, prompt) == [row EXCEPT !.void = @ \/ prompt.void]

(* Slip: a side's own result clears what the other side voided. *)
MergedAfresh(row, s, result) ==
    [void |-> result.kind = "void", result |-> [row.result EXCEPT ![s] = result]]

(* _merge: void on either side, or for its prompt, is void for both. *)
Merged(row, s, result) ==
    [void |-> row.void \/ result.kind = "void", result |-> [row.result EXCEPT ![s] = result]]

(* _evaluate: what an earlier run of the side finished is merged first. *)
WithFinished(r, s) ==
    [u \in Units |-> IF Has(results[s], u) THEN Merged(r[u], s, LastLine(results[s], u).result)
                     ELSE r[u]]

(* The units the other side's results say are void. *)
VoidElsewhere ==
    {u \in Units : \E s \in Players \ {Side} :
        Has(results[s], u) /\ LastLine(results[s], u).result.kind = "void"}

(* The process forgets: it was killed, or it ended. *)
Forget ==
    /\ pc' = "off"
    /\ turn' = 1
    /\ prompts' = [u \in Units |-> Unread]
    /\ rows' = [u \in Units |-> EmptyRow]
    /\ done' = {}
    /\ pending' = NoLine

(* reap_ledger: every group the ledgers name is killed. *)
Reap(groups) == orphans' = orphans \ groups

-----------------------------------------------------------------------------
(* The duel is run, or resumed: orphans are reaped, the submissions fetched and *)
(* checked.  A refused challenger decides it, a refused king forfeits for good. *)

Run ==
    /\ pc = "off" /\ outcome = "none"
    /\ Reap(orphans)
    /\ pc' = "fetch"
    /\ UNCHANGED <<manifest, results, file, made, left, forfeit, outcome, turn, prompts, rows, done,
                   pending, faults>>

ChallengerRefused ==
    /\ pc = "fetch"
    /\ outcome' = "refused"
    /\ pc' = "over"
    /\ UNCHANGED <<manifest, results, file, made, left, orphans, forfeit, turn, prompts, rows, done,
                   pending, faults>>

(* The runtime is away: the duel stays as it is, to be run again. *)
HarnessUnavailable ==
    /\ pc = "fetch"
    /\ Forget
    /\ UNCHANGED <<disk, faults>>

Fetched ==
    /\ pc = "fetch"
    /\ forfeit' \in {forfeit, "king" \in Players}
    /\ forfeit => forfeit'
    /\ pc' = "materialize"
    /\ UNCHANGED <<manifest, results, file, made, left, orphans, outcome, turn, prompts, rows, done,
                   pending, faults>>

-----------------------------------------------------------------------------
(* materialize_units: the units in order, until the duel is certain to be void. *)

Unprompted == {u \in Units : prompts[u] = Unread}

Materializing == pc = "materialize" /\ Unprompted # {} /\ ~TooVoid(rows)

Known(u, prompt) ==
    /\ prompts' = [prompts EXCEPT ![u] = prompt]
    /\ rows' = [rows EXCEPT ![u] = WithPrompt(@, prompt)]

(* A line to append; the unit is known once it is there. *)
PromptLine(u, prompt) ==
    /\ pending' = [unit |-> u, prompt |-> prompt]
    /\ pc' = "prompted"
    /\ UNCHANGED <<turn, prompts, rows, done>>

(* Slip: a prompt written over is published under its new hash. *)
RecordedAsFound(u) == PromptOf(file[u])

(* A prompt that is no longer the one recorded is void, not made again. *)
RecordedChanged(u) == VoidPrompt

(* Prompt.changed: its file no longer hashes to what was recorded. *)
Changed(u, prompt) == ~prompt.void /\ file[u] # prompt.sha

ReusePrompt ==
    /\ Materializing
    /\ LET u == First(Unprompted) IN
          /\ Has(manifest, u)
          /\ LET prompt == LastLine(manifest, u).prompt IN
                IF Changed(u, prompt)
                THEN PromptLine(u, RecordedChanged(u))
                ELSE Known(u, prompt) /\ UNCHANGED <<pc, turn, done, pending>>
    /\ UNCHANGED <<disk, faults>>

(* materialize_unit: a new file, or none and the reason; or no time was left. *)
MakePrompt ==
    /\ Materializing
    /\ LET u == First(Unprompted) IN
          /\ ~Has(manifest, u)
          /\ \/ /\ made' = [made EXCEPT ![u] = @ + 1]
                /\ file' = [file EXCEPT ![u] = made'[u]]
                /\ PromptLine(u, PromptOf(made'[u]))
             \/ /\ file' \in {file, [file EXCEPT ![u] = 0]}
                /\ PromptLine(u, VoidPrompt)
                /\ UNCHANGED made
    /\ UNCHANGED <<manifest, results, left, orphans, forfeit, outcome, faults>>

RecordPrompt ==
    /\ pc = "prompted"
    /\ manifest' = Appended(manifest, pending)
    /\ Known(pending.unit, pending.prompt)
    /\ pc' = "materialize"
    /\ pending' = NoLine
    /\ UNCHANGED <<results, file, made, left, orphans, forfeit, outcome, turn, done, faults>>

Decide(what) ==
    /\ outcome' = what
    /\ pc' = "over"
    /\ UNCHANGED <<manifest, results, file, made, left, orphans, forfeit, turn, prompts, rows, done,
                   pending, faults>>

(* _evaluate, up to run_side's loop. *)
StartSide(i) ==
    /\ turn' = i
    /\ rows' = WithFinished(rows, Sides[i])
    /\ done' = {u \in Units : Has(results[Sides[i]], u)}
    /\ pc' = "evaluate"
    /\ UNCHANGED <<disk, prompts, pending, faults>>

Materialized ==
    /\ pc = "materialize"
    /\ \/ TooVoid(rows) /\ Decide("void")
       \/ ~TooVoid(rows) /\ Unprompted = {} /\ StartSide(1)

-----------------------------------------------------------------------------
(* run_side: the units this side has not finished, in order, until the duel is  *)
(* certain to be void.                                                          *)

Unplayed == Units \ done

Evaluating == pc = "evaluate" /\ Unplayed # {} /\ ~TooVoid(rows)

ResultLine(u, kind, from) ==
    /\ pending' = [unit |-> u, result |-> [kind |-> kind, from |-> from]]
    /\ pc' = "result"
    /\ UNCHANGED <<turn, prompts, rows, done>>

Refused == Side = "king" /\ forfeit

(* Not played: no prompt, void on the other side, a forfeit, no time left, or   *)
(* its prompt changed.                                                          *)
NotPlayed ==
    /\ Evaluating
    /\ LET u == First(Unplayed) IN
          IF prompts[u].void \/ u \in VoidElsewhere THEN ResultLine(u, "void", 0)
          ELSE IF Refused THEN ResultLine(u, "failed", 0)
          ELSE ResultLine(u, "void", 0)
    /\ UNCHANGED <<disk, faults>>

(* Played: what an interrupted attempt left running is ended and what it wrote  *)
(* moved aside; a policy is served and the benchmark started in an empty        *)
(* directory.                                                                   *)
PlayUnit ==
    /\ Evaluating
    /\ LET u == First(Unplayed) IN
          /\ ~prompts[u].void /\ u \notin VoidElsewhere /\ ~Refused
          /\ ~Changed(u, prompts[u])
          /\ Reap({<<Side, u>>})
          /\ left' = [left EXCEPT ![<<Side, u>>] = 0]
    /\ pc' = "playing"
    /\ UNCHANGED <<manifest, results, file, made, forfeit, outcome, turn, prompts, rows, done,
                   pending, faults>>

(* The benchmark reads the prompt and writes what happened... *)
BenchmarkWrites ==
    /\ pc = "playing"
    /\ LET u == First(Unplayed) IN
          /\ file[u] # 0
          /\ left' = [left EXCEPT ![<<Side, u>>] = file[u]]
    /\ pc' = "ended"
    /\ UNCHANGED <<manifest, results, file, made, orphans, forfeit, outcome, turn, prompts, rows,
                   done, pending, faults>>

(* ...or ends, by itself or at its timeout, having written nothing. *)
BenchmarkEnds ==
    /\ pc = "playing"
    /\ pc' = "ended"
    /\ UNCHANGED <<disk, turn, prompts, rows, done, pending, faults>>

(* Slip: the prompt is hashed before a unit and not after it. *)
PlayedAsWritten(u) == left[<<Side, u>>] # 0

(* A result counts if the file still hashes to what was recorded. *)
PlayedFromRecord(u) == left[<<Side, u>>] # 0 /\ ~Changed(u, prompts[u])

(* The result is read and attributed: scored, the side's own failure (its       *)
(* policy did not start, died or ran out of its budget), or void.               *)
UnitEnds ==
    /\ pc = "ended"
    /\ LET u == First(Unplayed) IN
          \/ PlayedFromRecord(u) /\ ResultLine(u, "scored", left[<<Side, u>>])
          \/ ~Changed(u, prompts[u]) /\ ResultLine(u, "failed", 0)
          \/ ResultLine(u, "void", 0)
    /\ UNCHANGED <<disk, faults>>

RecordResult ==
    /\ pc = "result"
    /\ results' = [results EXCEPT ![Side] = Appended(@, pending)]
    /\ rows' = [rows EXCEPT ![pending.unit] = Merged(@, Side, pending.result)]
    /\ done' = done \cup {pending.unit}
    /\ pc' = "evaluate"
    /\ pending' = NoLine
    /\ UNCHANGED <<manifest, file, made, left, orphans, forfeit, outcome, turn, prompts, faults>>

(* Slip: only a side that played every unit ends. *)
SideEndsComplete ==
    /\ pc = "evaluate"
    /\ Unplayed = {}
    /\ \/ TooVoid(rows) /\ Decide("void")
       \/ ~TooVoid(rows) /\ turn < Len(Sides) /\ StartSide(turn + 1)
       \/ ~TooVoid(rows) /\ turn = Len(Sides) /\ Decide("published")

(* After a side: void, the next side, or the record (its own steps are          *)
(* Orchestration's).                                                            *)
SideEnds ==
    /\ pc = "evaluate"
    /\ \/ TooVoid(rows) /\ Decide("void")
       \/ ~TooVoid(rows) /\ Unplayed = {} /\ turn < Len(Sides) /\ StartSide(turn + 1)
       \/ ~TooVoid(rows) /\ Unplayed = {} /\ turn = Len(Sides) /\ Decide("published")

-----------------------------------------------------------------------------
(* Killed anywhere: a unit's benchmark may go on, and an append be cut. *)
Kill ==
    /\ pc \notin {"off", "over"}
    /\ faults < MaxFaults
    /\ faults' = faults + 1
    /\ Forget
    /\ orphans' \in {orphans} \cup
          IF pc = "playing" THEN {orphans \cup {<<Side, First(Unplayed)>>}} ELSE {}
    /\ \/ UNCHANGED <<manifest, results>>
       \/ /\ pc = "prompted" /\ "manifest" \in TornIn
          /\ manifest' \in Torn(manifest, pending)
          /\ UNCHANGED results
       \/ /\ pc = "result" /\ "results" \in TornIn
          /\ \E f \in Torn(results[Side], pending) : results' = [results EXCEPT ![Side] = f]
          /\ UNCHANGED manifest
    /\ UNCHANGED <<file, made, left, forfeit, outcome>>

(* A benchmark nobody waits for writes its result where it was told to. *)
OrphanWrites ==
    /\ \E o \in orphans :
          /\ orphans' = orphans \ {o}
          /\ left' \in {left, [left EXCEPT ![o] = file[o[2]]]}
    /\ UNCHANGED <<manifest, results, file, made, forfeit, outcome, memory, faults>>

(* A prompt's file is written over by something on the host. *)
FileChanges ==
    /\ Changes /\ pc # "over"
    /\ \E u \in Units : file[u] > 0 /\ file' = [file EXCEPT ![u] = -@]
    /\ UNCHANGED <<manifest, results, made, left, orphans, forfeit, outcome, memory, faults>>

UnitSteps ==
    \/ ReusePrompt \/ MakePrompt \/ RecordPrompt \/ Materialized
    \/ NotPlayed \/ PlayUnit \/ BenchmarkWrites \/ BenchmarkEnds \/ UnitEnds \/ RecordResult
    \/ SideEnds

Next ==
    \/ Run \/ ChallengerRefused \/ HarnessUnavailable \/ Fetched
    \/ UnitSteps
    \/ Kill
    \/ OrphanWrites
    \/ FileChanges

Spec == Init /\ [][Next]_vars

(* The duel is resumed until it is decided, the harness is not always away, and *)
(* every subprocess ends by its timeout.                                        *)
FairSpec == Spec /\ WF_vars(Run) /\ SF_vars(Fetched) /\ WF_vars(UnitSteps)

-----------------------------------------------------------------------------
Published == pc = "over" /\ outcome = "published"

Scored(u) == ~rows[u].void

(* "A unit is void for both sides when it is void for either": however often    *)
(* the duel was killed and resumed, a published unit counts only with a result  *)
(* of each side - one finished by an earlier run is neither lost nor waited     *)
(* for - and with no void prompt, and no void result of this run or of the      *)
(* file, on either side.                                                        *)
CountsForBoth ==
    Published => \A u \in Units :
        Scored(u) => /\ ~prompts[u].void
                     /\ \A s \in Players :
                           /\ rows[u].result[s].kind \in {"scored", "failed"}
                           /\ Has(results[s], u) => LastLine(results[s], u).result.kind # "void"

(* materialize.py: "Both sides then run from those same files": a unit both     *)
(* sides are scored on was played by both from the prompt that is published.    *)
SamePrompt ==
    Published => \A u \in Units, s \in Players :
        (Scored(u) /\ rows[u].result[s].kind = "scored") => rows[u].result[s].from = prompts[u].sha

(* orchestrate.py _run: a duel that is resumed is decided, whatever stops it    *)
(* early: a kill, a forfeit, more void units than the spec allows.              *)
DuelDecided == <>(outcome # "none")
=============================================================================
