-------------------------- MODULE DuelUnits_proofs --------------------------
(***************************************************************************)
(* Any number of units, kills and voids, one side or two: what a duel      *)
(* publishes counts for both sides, however often it was resumed; both     *)
(* were played from the published prompt, unless a kill cut a line of the  *)
(* manifest; and, for any skills, outcomes and margins, the crown is the   *)
(* one their paired outcomes give.                                         *)
(***************************************************************************)
EXTENDS DuelVerdict, WellFoundedInduction, FiniteSetTheorems, TLAPS

(* Where the playing side's state means what it says. *)
Evaluation == {"evaluate", "playing", "ended", "result"}

ControlInv ==
    /\ pc \in {"off", "fetch", "materialize", "prompted"} => turn = 1 /\ done = {}
    /\ pc = "prompted" => pending \in ManifestLines
    /\ pc = "result" => pending \in ResultLines /\ pending.unit \in Unplayed
    /\ pc \in {"playing", "ended"} => Unplayed # {}
    /\ Published => turn = Len(Sides) /\ done = Units

(* A unit has one line of a side's results: it is played again only when the  *)
(* line an earlier run wrote no longer parses.                                 *)
Single(f) == \A i, j \in DOMAIN f.lines : f.lines[i].unit = f.lines[j].unit => i = j

LinesInv ==
    /\ \A s \in Players : Single(results[s])
    /\ pc \in Evaluation => \A u \in Units : Has(results[Side], u) => u \in done

(* A side's result of a unit is in the rows, as its file has it if it has one. *)
Finished(s, u) ==
    /\ rows[u].result[s].kind \in Kinds
    /\ rows[u].result[s].kind = "void" => rows[u].void
    /\ Has(results[s], u) => LastLine(results[s], u).result = rows[u].result[s]

RowsInv ==
    /\ \A u \in Units : prompts[u].void => rows[u].void
    /\ \A u \in done : Finished(Side, u)
    /\ \A i \in DOMAIN Sides : i < turn => \A u \in Units : Finished(Sides[i], u)

UnitsInv == TypeOK /\ ControlInv /\ LinesInv /\ RowsInv

(* A scored result was played from the prompt the manifest has, unless that    *)
(* has become void since.                                                      *)
FromRecord(u, result) ==
    result.kind = "scored" =>
        /\ Has(manifest, u)
        /\ \/ LastLine(manifest, u).prompt.void
           \/ LastLine(manifest, u).prompt.sha = result.from

(* The manifest is only added to: a new prompt for a unit it has none of, or   *)
(* that a unit's is void; and what a process knows is what the manifest has.   *)
ManifestInv ==
    /\ manifest.tail = "none"
    /\ \A i \in DOMAIN manifest.lines : manifest.lines[i].prompt # Unread
    /\ \A u \in Units : prompts[u] # Unread =>
           Has(manifest, u) /\ prompts[u] = LastLine(manifest, u).prompt
    /\ pc = "prompted" => /\ pending.prompt # Unread
                          /\ pending.prompt.void \/ ~Has(manifest, pending.unit)
    /\ pc \in Evaluation \/ Published => \A u \in Units : prompts[u] # Unread

(* The unit being played: what its directory holds was played from the file as *)
(* it is, or the file was changed since.                                       *)
PlayingInv ==
    pc \in {"playing", "ended"} =>
        LET u == First(Unplayed) IN
           /\ <<Side, u>> \notin orphans
           /\ left[<<Side, u>>] \in {0, file[u]} \/ file[u] < 0
           /\ ~prompts[u].void

ResultsInv ==
    /\ \A s \in Players : \A i \in DOMAIN results[s].lines :
           FromRecord(results[s].lines[i].unit, results[s].lines[i].result)
    /\ pc = "result" => FromRecord(pending.unit, pending.result)
    /\ \A s \in Players, u \in Units : FromRecord(u, rows[u].result[s])

PromptInv == UnitsInv /\ ManifestInv /\ PlayingInv /\ ResultsInv
-----------------------------------------------------------------------------
LEMMA LeastNumber ==
    ASSUME NEW T \in SUBSET Nat, T # {}
    PROVE  \E x \in T : \A y \in T : x <= y
<1> DEFINE R == OpToRel(<, Nat)
<1>1. IsWellFoundedOn(R, Nat)
  BY NatLessThanWellFounded
<1>2. PICK x \in T : \A y \in T : ~(<<y, x>> \in R)
  BY <1>1, WFMin
<1>3. \A y \in T : y \in Nat /\ x \in Nat /\ ~(y < x)
  BY <1>2 DEF OpToRel
<1> QED
  BY <1>3

LEMMA GreatestNumber ==
    ASSUME NEW n \in Nat, NEW T \in SUBSET (1 .. n), T # {}
    PROVE  \E x \in T : \A y \in T : y <= x
<1> DEFINE Mirrored == {n - y : y \in T}
<1>1. Mirrored \in SUBSET Nat /\ Mirrored # {}
  <2>1. PICK y \in T : TRUE
    OBVIOUS
  <2>2. n - y \in Mirrored
    BY <2>1
  <2> QED
    BY <2>2
<1>2. PICK z \in Mirrored : \A y \in Mirrored : z <= y
  BY <1>1, LeastNumber
<1>3. PICK x \in T : z = n - x
  BY <1>2
<1>4. \A y \in T : n - x <= n - y /\ x \in 1 .. n /\ y \in 1 .. n
  BY <1>2, <1>3
<1> QED
  BY <1>4

LEMMA FirstIsThere ==
    ASSUME NEW units \in SUBSET Units, units # {}
    PROVE  First(units) \in units
<1>1. units \in SUBSET Nat
  BY DEF Units
<1>2. \E u \in units : \A v \in units : u <= v
  BY <1>1, LeastNumber
<1> QED
  BY <1>2 DEF First

LEMMA SidesTypes ==
    /\ Len(Sides) \in {1, 2} /\ DOMAIN Sides = 1 .. Len(Sides)
    /\ Players # {} /\ \A i \in DOMAIN Sides : Sides[i] \in Players
    /\ \A s \in Players : \E i \in DOMAIN Sides : s = Sides[i]
    /\ \A i, j \in DOMAIN Sides : Sides[i] = Sides[j] => i = j
<1>1. CASE Sides = <<"challenger">>
  BY <1>1 DEF Players
<1>2. CASE Sides = <<"challenger", "king">>
  BY <1>2 DEF Players
<1> QED
  BY <1>1, <1>2, UnitsAssumption

-----------------------------------------------------------------------------
(* What a stopped append does to a JSON-lines file. *)
LEMMA FileShape ==
    ASSUME NEW S, NEW f \in JsonLines(S)
    PROVE  /\ f.lines \in Seq(S) /\ f.tail \in {"none", "cut", "whole"}
           /\ f = [lines |-> f.lines, tail |-> f.tail]
BY DEF JsonLines

(* An append adds the line or not, and takes away at most the last. *)
LEMMA AppendedLines ==
    ASSUME NEW S, NEW f \in JsonLines(S), NEW line \in S,
           NEW g \in {Appended(f, line)} \cup Torn(f, line)
    PROVE  /\ g \in JsonLines(S)
           /\ \A i \in DOMAIN g.lines :
                 \/ i \in DOMAIN f.lines /\ g.lines[i] = f.lines[i]
                 \/ i \notin DOMAIN f.lines /\ i = Len(f.lines) + 1 /\ g.lines[i] = line
<1> USE FileShape
<1> DEFINE Kept == f.lines
           Added == Append(f.lines, line)
           Dropped == SubSeq(f.lines, 1, Len(f.lines) - 1)
<1>1. /\ Kept \in Seq(S) /\ Added \in Seq(S) /\ Dropped \in Seq(S)
      /\ \A i \in DOMAIN Added :
            \/ i \in DOMAIN f.lines /\ Added[i] = f.lines[i]
            \/ i \notin DOMAIN f.lines /\ i = Len(f.lines) + 1 /\ Added[i] = line
      /\ \A i \in DOMAIN Dropped : i \in DOMAIN f.lines /\ Dropped[i] = f.lines[i]
  OBVIOUS
<1> HIDE DEF Added, Dropped
<1>2. g.lines \in {Kept, Added, Dropped} /\ g.tail \in {"none", "cut", "whole"}
      /\ g = [lines |-> g.lines, tail |-> g.tail]
  <2>1. Appended(f, line).lines \in {Kept, Added, Dropped} /\ Appended(f, line).tail = "none"
    BY DEF Appended, Added, Dropped
  <2>2. Appended(f, line) = [lines |-> Appended(f, line).lines, tail |-> "none"]
    BY <2>1 DEF Appended
  <2>3. \/ g = Appended(f, line)
        \/ g = [f EXCEPT !.tail = "cut"]
        \/ g = [lines |-> Added, tail |-> "whole"]
        \/ g = [Appended(f, line) EXCEPT !.tail = "cut"]
    BY DEF Torn, Added
  <2>4. [f EXCEPT !.tail = "cut"] = [lines |-> Kept, tail |-> "cut"]
    OBVIOUS
  <2>5. [Appended(f, line) EXCEPT !.tail = "cut"] = [lines |-> Appended(f, line).lines, tail |-> "cut"]
    BY <2>2
  <2> QED
    BY <2>1, <2>2, <2>3, <2>4, <2>5
<1>3. g \in JsonLines(S)
  BY <1>1, <1>2 DEF JsonLines
<1> QED
  BY <1>1, <1>2, <1>3

LEMMA LastLineIs ==
    ASSUME NEW S, NEW f \in JsonLines(S), NEW u, Has(f, u)
    PROVE  \E i \in LinesOf(f, u) :
              LastLine(f, u) = f.lines[i] /\ \A j \in LinesOf(f, u) : j <= i
<1>1. LinesOf(f, u) \in SUBSET (1 .. Len(f.lines)) /\ Len(f.lines) \in Nat
  BY FileShape DEF LinesOf
<1>2. \E i \in LinesOf(f, u) : \A j \in LinesOf(f, u) : j <= i
  BY <1>1, GreatestNumber DEF Has
<1> QED
  BY <1>2 DEF LastLine

LEMMA LastLineTyped ==
    ASSUME NEW S, NEW f \in JsonLines(S), NEW u, Has(f, u)
    PROVE  LastLine(f, u) \in S /\ LastLine(f, u).unit = u
BY LastLineIs, FileShape DEF LinesOf

(* A unit with one line: an append leaves what is read of the others as it is, *)
(* or takes one away.                                                          *)
LEMMA AppendKeepsSingle ==
    ASSUME NEW S, NEW f \in JsonLines(S), NEW line \in S, Single(f), ~Has(f, line.unit),
           NEW g \in {Appended(f, line)} \cup Torn(f, line)
    PROVE  /\ Single(g)
           /\ \A u : Has(g, u) =>
                 \/ Has(f, u) /\ LastLine(g, u) = LastLine(f, u)
                 \/ u = line.unit /\ LastLine(g, u) = line
<1>1. /\ g \in JsonLines(S)
      /\ \A i \in DOMAIN g.lines :
            \/ i \in DOMAIN f.lines /\ g.lines[i] = f.lines[i]
            \/ i \notin DOMAIN f.lines /\ i = Len(f.lines) + 1 /\ g.lines[i] = line
  BY AppendedLines
<1>2. \A i \in DOMAIN f.lines : f.lines[i].unit # line.unit
  BY DEF Has, LinesOf
<1>3. Single(g)
  BY <1>1, <1>2 DEF Single
<1>4. ASSUME NEW u, Has(g, u)
      PROVE  \/ Has(f, u) /\ LastLine(g, u) = LastLine(f, u)
             \/ u = line.unit /\ LastLine(g, u) = line
  <2>1. PICK i \in LinesOf(g, u) : LastLine(g, u) = g.lines[i]
    BY <1>1, <1>4, LastLineIs
  <2>2. CASE i \in DOMAIN f.lines /\ g.lines[i] = f.lines[i]
    <3>1. i \in LinesOf(f, u) /\ Has(f, u)
      BY <2>1, <2>2 DEF LinesOf, Has
    <3>2. PICK j \in LinesOf(f, u) : LastLine(f, u) = f.lines[j]
      BY <3>1, LastLineIs
    <3>3. i = j
      BY <3>1, <3>2 DEF LinesOf, Single
    <3> QED
      BY <2>1, <2>2, <3>1, <3>2, <3>3
  <2>3. CASE g.lines[i] = line
    BY <2>1, <2>3 DEF LinesOf
  <2> QED
    BY <1>1, <2>1, <2>2, <2>3 DEF LinesOf
<1> QED
  BY <1>3, <1>4
-----------------------------------------------------------------------------
(* The shape of the state, part by part. *)
FilesTypeOK ==
    /\ manifest \in JsonLines(ManifestLines)
    /\ results \in [Players -> JsonLines(ResultLines)]

PromptsTypeOK ==
    /\ file \in [Units -> Int]
    /\ made \in [Units -> Nat]
    /\ left \in [Players \X Units -> Int]
    /\ orphans \in SUBSET (Players \X Units)

StageTypeOK ==
    /\ forfeit \in BOOLEAN
    /\ outcome \in {"none", "published", "refused", "void"}
    /\ pc \in {"off", "fetch", "materialize", "prompted", "evaluate", "playing", "ended", "result",
               "over"}
    /\ turn \in DOMAIN Sides
    /\ done \in SUBSET Units
    /\ pending \in ManifestLines \cup ResultLines \cup {NoLine}
    /\ faults \in Nat

RowTypes == [void : BOOLEAN, result : [Players -> Results \cup {NoResult}]]

KnownTypeOK ==
    /\ prompts \in [Units -> Prompts]
    /\ rows \in [Units -> RowTypes]

LEMMA TypeParts == TypeOK <=> FilesTypeOK /\ PromptsTypeOK /\ StageTypeOK /\ KnownTypeOK
BY DEF TypeOK, FilesTypeOK, PromptsTypeOK, StageTypeOK, KnownTypeOK, RowTypes

LEMMA PromptsTyped == VoidPrompt \in Prompts /\ Unread \in Prompts /\ \A n \in Nat : PromptOf(n) \in Prompts
BY DEF VoidPrompt, Unread, PromptOf, Prompts

LEMMA SideIsAPlayer == StageTypeOK => Side \in Players
BY SidesTypes DEF StageTypeOK, Side

(* A unit's row, with a prompt or a side's result in it. *)
LEMMA RowWithPrompt ==
    ASSUME NEW row \in RowTypes, NEW prompt \in Prompts
    PROVE  /\ WithPrompt(row, prompt) \in RowTypes
           /\ WithPrompt(row, prompt).void = (row.void \/ prompt.void)
           /\ WithPrompt(row, prompt).result = row.result
BY DEF RowTypes, Prompts, WithPrompt

LEMMA RowMerged ==
    ASSUME NEW row \in RowTypes, NEW s \in Players, NEW result \in Results
    PROVE  /\ Merged(row, s, result) \in RowTypes
           /\ Merged(row, s, result).void = (row.void \/ result.kind = "void")
           /\ Merged(row, s, result).result[s] = result
           /\ \A r \in Players \ {s} : Merged(row, s, result).result[r] = row.result[r]
<1> DEFINE Outcomes == Results \cup {NoResult}
<1>1. result \in Outcomes
  OBVIOUS
<1> HIDE DEF Outcomes
<1>2. row.void \in BOOLEAN /\ row.result \in [Players -> Outcomes]
  BY DEF RowTypes, Outcomes
<1>3. /\ [row.result EXCEPT ![s] = result] \in [Players -> Outcomes]
      /\ [row.result EXCEPT ![s] = result][s] = result
      /\ \A r \in Players \ {s} : [row.result EXCEPT ![s] = result][r] = row.result[r]
  BY <1>1, <1>2
<1>4. (row.void \/ result.kind = "void") \in BOOLEAN
  BY <1>2
<1> QED
  BY <1>3, <1>4 DEF Merged, RowTypes, Outcomes

LEMMA RowsWithFinished ==
    ASSUME FilesTypeOK, KnownTypeOK, NEW s \in Players
    PROVE  /\ WithFinished(rows, s) \in [Units -> RowTypes]
           /\ \A u \in Units :
                 /\ rows[u].void => WithFinished(rows, s)[u].void
                 /\ \A r \in Players \ {s} :
                       WithFinished(rows, s)[u].result[r] = rows[u].result[r]
                 /\ IF Has(results[s], u)
                    THEN /\ LastLine(results[s], u).result \in Results
                         /\ WithFinished(rows, s)[u].result[s] = LastLine(results[s], u).result
                         /\ LastLine(results[s], u).result.kind = "void" =>
                               WithFinished(rows, s)[u].void
                    ELSE WithFinished(rows, s)[u] = rows[u]
<1>1. ASSUME NEW u \in Units
      PROVE  rows[u] \in RowTypes /\ (Has(results[s], u) => LastLine(results[s], u).result \in Results)
  <2>1. results[s] \in JsonLines(ResultLines) /\ rows[u] \in RowTypes
    BY DEF FilesTypeOK, KnownTypeOK
  <2>2. Has(results[s], u) => LastLine(results[s], u) \in ResultLines
    BY <2>1, LastLineTyped
  <2> QED
    BY <2>1, <2>2 DEF ResultLines
<1>2. ASSUME NEW u \in Units
      PROVE  /\ WithFinished(rows, s)[u] \in RowTypes
             /\ rows[u].void => WithFinished(rows, s)[u].void
             /\ \A r \in Players \ {s} : WithFinished(rows, s)[u].result[r] = rows[u].result[r]
             /\ IF Has(results[s], u)
                THEN /\ LastLine(results[s], u).result \in Results
                     /\ WithFinished(rows, s)[u].result[s] = LastLine(results[s], u).result
                     /\ LastLine(results[s], u).result.kind = "void" => WithFinished(rows, s)[u].void
                ELSE WithFinished(rows, s)[u] = rows[u]
  <2>1. CASE Has(results[s], u)
    <3>1. WithFinished(rows, s)[u] = Merged(rows[u], s, LastLine(results[s], u).result)
      BY <2>1 DEF WithFinished
    <3> DEFINE result == LastLine(results[s], u).result
               merged == Merged(rows[u], s, result)
    <3>2. result \in Results /\ rows[u] \in RowTypes
      BY <1>1, <2>1
    <3> HIDE DEF result
    <3>3. /\ merged \in RowTypes
          /\ merged.void = (rows[u].void \/ result.kind = "void")
          /\ merged.result[s] = result
          /\ \A r \in Players \ {s} : merged.result[r] = rows[u].result[r]
      BY <3>2, RowMerged
    <3>4. WithFinished(rows, s)[u] = merged
      BY <3>1 DEF result
    <3> HIDE DEF merged
    <3> QED
      BY <2>1, <3>2, <3>3, <3>4 DEF result
  <2>2. CASE ~Has(results[s], u)
    BY <1>1, <2>2 DEF WithFinished
  <2> QED
    BY <2>1, <2>2
<1>3. WithFinished(rows, s) = [u \in Units |-> WithFinished(rows, s)[u]]
  BY DEF WithFinished
<1> QED
  BY <1>2, <1>3

-----------------------------------------------------------------------------
LEMMA FilesTypes ==
    ASSUME UnitsInv, Next
    PROVE  FilesTypeOK'
<1>0. FilesTypeOK /\ StageTypeOK /\ ControlInv /\ Side \in Players
  BY TypeParts, SideIsAPlayer DEF UnitsInv
<1>1. CASE RecordPrompt
  BY <1>0, <1>1, AppendedLines DEF RecordPrompt, FilesTypeOK, ControlInv
<1>2. CASE RecordResult
  BY <1>0, <1>2, AppendedLines DEF RecordResult, FilesTypeOK, ControlInv
<1>3. CASE Kill
  <2>1. ASSUME pc = "prompted", NEW f \in Torn(manifest, pending)
        PROVE  f \in JsonLines(ManifestLines)
    BY <1>0, <2>1, AppendedLines DEF FilesTypeOK, ControlInv
  <2>2. ASSUME pc = "result", NEW f \in Torn(results[Side], pending)
        PROVE  f \in JsonLines(ResultLines)
    BY <1>0, <2>2, AppendedLines DEF FilesTypeOK, ControlInv
  <2> QED
    BY <1>0, <1>3, <2>1, <2>2 DEF Kill, FilesTypeOK
<1>4. CASE UNCHANGED <<manifest, results>>
  BY <1>0, <1>4 DEF FilesTypeOK
<1> QED
  BY <1>1, <1>2, <1>3, <1>4
  DEF Next, UnitSteps, Run, ChallengerRefused, HarnessUnavailable, Fetched, ReusePrompt, MakePrompt,
      Materialized, NotPlayed, PlayUnit, BenchmarkWrites, BenchmarkEnds, UnitEnds, SideEnds, Decide,
      StartSide, OrphanWrites, FileChanges, disk

LEMMA PromptsTypes ==
    ASSUME UnitsInv, Next
    PROVE  PromptsTypeOK'
<1>0. PromptsTypeOK /\ StageTypeOK /\ ControlInv /\ Side \in Players
  BY TypeParts, SideIsAPlayer DEF UnitsInv
<1>1. CASE MakePrompt
  <2>1. First(Unprompted) \in Units
    BY <1>1, FirstIsThere DEF MakePrompt, Materializing, Unprompted
  <2> QED
    BY <1>0, <1>1, <2>1 DEF MakePrompt, PromptsTypeOK
<1>2. CASE PlayUnit \/ BenchmarkWrites
  <2>1. First(Unplayed) \in Units
    BY <1>0, <1>2, FirstIsThere DEF PlayUnit, BenchmarkWrites, Evaluating, Unplayed, ControlInv
  <2>2. <<Side, First(Unplayed)>> \in Players \X Units
    BY <1>0, <2>1
  <2> QED
    BY <1>0, <1>2, <2>1, <2>2 DEF PlayUnit, BenchmarkWrites, Reap, PromptsTypeOK
<1>3. CASE Kill
  <2>1. pc = "playing" => <<Side, First(Unplayed)>> \in Players \X Units
    BY <1>0, FirstIsThere DEF Unplayed, ControlInv
  <2> QED
    BY <1>0, <1>3, <2>1 DEF Kill, PromptsTypeOK
<1>4. CASE OrphanWrites
  <2>1. PICK o \in orphans : /\ orphans' = orphans \ {o}
                             /\ left' \in {left, [left EXCEPT ![o] = file[o[2]]]}
    BY <1>4 DEF OrphanWrites
  <2>2. file[o[2]] \in Int
    BY <1>0 DEF PromptsTypeOK
  <2> QED
    BY <1>0, <1>4, <2>1, <2>2 DEF OrphanWrites, PromptsTypeOK
<1>5. CASE FileChanges
  BY <1>0, <1>5 DEF FileChanges, PromptsTypeOK
<1>6. CASE Run
  BY <1>0, <1>6 DEF Run, Reap, PromptsTypeOK
<1>7. CASE UNCHANGED <<file, made, left, orphans>>
  BY <1>0, <1>7 DEF PromptsTypeOK
<1> QED
  BY <1>1, <1>2, <1>3, <1>4, <1>5, <1>6, <1>7
  DEF Next, UnitSteps, ChallengerRefused, HarnessUnavailable, Fetched, ReusePrompt, RecordPrompt,
      RecordResult, Materialized, NotPlayed, BenchmarkEnds, UnitEnds, SideEnds, Decide, StartSide, disk
LEMMA KnownTypes ==
    ASSUME UnitsInv, Next
    PROVE  KnownTypeOK'
<1>0. FilesTypeOK /\ KnownTypeOK /\ StageTypeOK /\ ControlInv /\ Side \in Players
  BY TypeParts, SideIsAPlayer DEF UnitsInv
<1>1. ASSUME NEW u \in Units, NEW prompt \in Prompts, Known(u, prompt)
      PROVE  KnownTypeOK'
  <2>1. WithPrompt(rows[u], prompt) \in RowTypes
    BY <1>0, RowWithPrompt DEF KnownTypeOK
  <2> QED
    BY <1>0, <1>1, <2>1 DEF Known, KnownTypeOK
<1>2. CASE ReusePrompt
  <2> DEFINE u == First(Unprompted)
  <2>1. u \in Units /\ Has(manifest, u)
    BY <1>2, FirstIsThere DEF ReusePrompt, Materializing, Unprompted
  <2>2. LastLine(manifest, u).prompt \in Prompts
    <3>1. LastLine(manifest, u) \in ManifestLines
      BY <1>0, <2>1, LastLineTyped DEF FilesTypeOK
    <3> QED
      BY <3>1 DEF ManifestLines
  <2>3. Known(u, LastLine(manifest, u).prompt) \/ UNCHANGED <<prompts, rows>>
    BY <1>2 DEF ReusePrompt, PromptLine
  <2> HIDE DEF u
  <2> QED
    BY <1>0, <1>1, <2>1, <2>2, <2>3 DEF KnownTypeOK
<1>3. CASE RecordPrompt
  BY <1>0, <1>1, <1>3 DEF RecordPrompt, ControlInv, ManifestLines
<1>4. CASE RecordResult
  <2>1. pending.unit \in Units /\ pending.result \in Results
    BY <1>0, <1>4 DEF RecordResult, ControlInv, ResultLines
  <2>2. Merged(rows[pending.unit], Side, pending.result) \in RowTypes
    BY <1>0, <2>1, RowMerged DEF KnownTypeOK
  <2> QED
    BY <1>0, <1>4, <2>2 DEF RecordResult, KnownTypeOK
<1>5. ASSUME NEW i \in DOMAIN Sides, StartSide(i)
      PROVE  KnownTypeOK'
  <2>1. WithFinished(rows, Sides[i]) \in [Units -> RowTypes]
    BY <1>0, RowsWithFinished, SidesTypes
  <2> QED
    BY <1>0, <1>5, <2>1 DEF StartSide, KnownTypeOK
<1>6. CASE Materialized \/ SideEnds
  <2>1. UNCHANGED <<prompts, rows>> \/ \E i \in DOMAIN Sides : StartSide(i)
    BY <1>0, <1>6, SidesTypes DEF Materialized, SideEnds, Decide, StageTypeOK
  <2> QED
    BY <1>0, <1>5, <2>1 DEF KnownTypeOK
<1>7. CASE Forget
  <2> DEFINE Outcomes == Results \cup {NoResult}
  <2>1. NoResult \in Outcomes
    OBVIOUS
  <2> HIDE DEF Outcomes
  <2>2. [s \in Players |-> NoResult] \in [Players -> Outcomes]
    BY <2>1
  <2>3. EmptyRow \in RowTypes
    BY <2>2 DEF EmptyRow, RowTypes, Outcomes
  <2> QED
    BY <1>7, <2>3, PromptsTyped DEF Forget, KnownTypeOK
<1>8. CASE UNCHANGED <<prompts, rows>>
  BY <1>0, <1>8 DEF KnownTypeOK
<1> QED
  BY <1>2, <1>3, <1>4, <1>6, <1>7, <1>8
  DEF Next, UnitSteps, Run, ChallengerRefused, HarnessUnavailable, Fetched, MakePrompt, PromptLine,
      NotPlayed, ResultLine, PlayUnit, BenchmarkWrites, BenchmarkEnds, UnitEnds, Kill, OrphanWrites,
      FileChanges, memory

(* What a process is about to append is a line of the file it goes to. *)
LEMMA PendingTyped ==
    ASSUME UnitsInv
    PROVE  /\ \A u \in Units, prompt \in Prompts : PromptLine(u, prompt) => pending' \in ManifestLines
           /\ \A u \in Units, kind \in Kinds, from \in Int :
                 ResultLine(u, kind, from) => pending' \in ResultLines /\ pending'.unit = u
BY DEF PromptLine, ResultLine, ManifestLines, ResultLines, Results

LEMMA StageStep ==
    ASSUME UnitsInv, Next
    PROVE  StageTypeOK' /\ ControlInv'
<1> USE DEF StageTypeOK, ControlInv
<1>0. FilesTypeOK /\ PromptsTypeOK /\ StageTypeOK /\ ControlInv /\ Side \in Players
      /\ 1 \in DOMAIN Sides
  BY TypeParts, SideIsAPlayer, SidesTypes DEF UnitsInv
<1> USE DEF Published, Unplayed
<1>1. CASE Run \/ ChallengerRefused \/ Fetched
  <2>1. CASE Run
    BY <1>0, <2>1 DEF Run
  <2>2. CASE ChallengerRefused
    BY <1>0, <2>2 DEF ChallengerRefused
  <2>3. CASE Fetched
    <3>1. forfeit' = forfeit \/ forfeit' = ("king" \in Players)
      BY <2>3 DEF Fetched
    <3>2. ("king" \in Players) \in BOOLEAN
      OBVIOUS
    <3>3. forfeit' \in BOOLEAN
      BY <1>0, <3>1, <3>2, Zenon
    <3> QED
      BY <1>0, <2>3, <3>3 DEF Fetched
  <2> QED
    BY <1>1, <2>1, <2>2, <2>3
<1>2. CASE HarnessUnavailable
  BY <1>0, <1>2 DEF HarnessUnavailable, Forget, disk
<1>3. CASE Kill
  BY <1>0, <1>3, UnitsAssumption DEF Kill, Forget
<1>4. CASE ReusePrompt \/ MakePrompt
  <2>1. First(Unprompted) \in Units /\ pc = "materialize"
    BY <1>4, FirstIsThere DEF ReusePrompt, MakePrompt, Materializing, Unprompted
  <2>2. \/ pc' = "materialize" /\ UNCHANGED pending
        \/ \E prompt \in Prompts : PromptLine(First(Unprompted), prompt)
    <3>1. CASE ReusePrompt
      BY <1>0, <2>1, <3>1, PromptsTyped DEF ReusePrompt, RecordedChanged
    <3>2. CASE MakePrompt
      <4>1. \A u \in Units : made[u] + 1 \in Nat
        BY <1>0 DEF PromptsTypeOK
      <4> QED
        BY <1>0, <2>1, <3>2, <4>1, PromptsTyped DEF MakePrompt, PromptsTypeOK
    <3> QED
      BY <1>4, <3>1, <3>2
  <2>3. UNCHANGED <<forfeit, outcome, turn, done, faults>>
    BY <1>4 DEF ReusePrompt, MakePrompt, PromptLine, disk
  <2>4. \/ pc' = "materialize" /\ UNCHANGED pending
        \/ pc' = "prompted" /\ pending' \in ManifestLines
    <3>1. CASE \E prompt \in Prompts : PromptLine(First(Unprompted), prompt)
      BY <2>1, <3>1, PendingTyped DEF PromptLine
    <3> QED
      BY <2>2, <3>1
  <2> QED
    BY <1>0, <2>1, <2>3, <2>4
<1>5. CASE RecordPrompt
  BY <1>0, <1>5 DEF RecordPrompt
<1>6. CASE Materialized \/ SideEnds
  <2>1. UNCHANGED <<forfeit, pending, faults>>
    BY <1>6 DEF Materialized, SideEnds, StartSide, Decide, disk
  <2>2. CASE \E i \in DOMAIN Sides : StartSide(i)
    BY <1>0, <2>1, <2>2 DEF StartSide, disk
  <2>3. CASE Decide("void")
    BY <1>0, <2>1, <2>3 DEF Decide
  <2>4. CASE Decide("published") /\ turn = Len(Sides) /\ Unplayed = {}
    BY <1>0, <2>1, <2>4 DEF Decide
  <2>5. turn + 1 \in DOMAIN Sides \/ ~(turn < Len(Sides))
    BY <1>0, SidesTypes
  <2> QED
    BY <1>0, <1>6, <2>2, <2>3, <2>4, <2>5 DEF Materialized, SideEnds
<1>7. CASE NotPlayed \/ UnitEnds
  <2>1. First(Unplayed) \in Unplayed /\ First(Unplayed) \in Units
    BY <1>0, <1>7, FirstIsThere DEF NotPlayed, UnitEnds, Evaluating
  <2>2. \E kind \in Kinds, from \in Int : ResultLine(First(Unplayed), kind, from)
    <3>0. <<Side, First(Unplayed)>> \in Players \X Units
      BY <1>0, <2>1
    <3>1. left[<<Side, First(Unplayed)>>] \in Int /\ 0 \in Int
      BY <1>0, <3>0 DEF PromptsTypeOK
    <3> QED
      BY <1>7, <3>1 DEF NotPlayed, UnitEnds, Kinds
  <2>3. pc' = "result" /\ UNCHANGED <<forfeit, outcome, turn, done, faults>>
        /\ pending' \in ResultLines /\ pending'.unit \in Unplayed
    BY <1>7, <2>1, <2>2, PendingTyped DEF NotPlayed, UnitEnds, ResultLine, disk
  <2> QED
    BY <1>0, <2>3
<1>8. CASE PlayUnit \/ BenchmarkWrites \/ BenchmarkEnds
  BY <1>0, <1>8 DEF PlayUnit, BenchmarkWrites, BenchmarkEnds, Evaluating, disk
<1>9. CASE RecordResult
  BY <1>0, <1>9 DEF RecordResult
<1>10. CASE OrphanWrites \/ FileChanges
  BY <1>0, <1>10 DEF OrphanWrites, FileChanges, memory
<1> QED
  BY <1>1, <1>2, <1>3, <1>4, <1>5, <1>6, <1>7, <1>8, <1>9, <1>10 DEF Next, UnitSteps
-----------------------------------------------------------------------------
(* Which steps change the results, or what the process knows of the units. *)
Knows(u, prompt) ==
    /\ Known(u, prompt)
    /\ pc \in {"materialize", "prompted"} /\ pc' = "materialize"
    /\ UNCHANGED <<results, done, turn>>

Other ==
    /\ UNCHANGED <<results, prompts, rows, done, turn>>
    /\ pc' \in Evaluation => pc \in Evaluation

LEMMA RowsFrame ==
    ASSUME UnitsInv, Next
    PROVE  \/ \E u \in Units, prompt \in Prompts : Knows(u, prompt)
           \/ RecordResult
           \/ \E i \in DOMAIN Sides :
                 StartSide(i) /\ (i = 1 \/ (pc = "evaluate" /\ i = turn + 1 /\ done = Units))
           \/ Kill
           \/ HarnessUnavailable
           \/ Other
<1>0. FilesTypeOK /\ StageTypeOK /\ ControlInv
  BY TypeParts DEF UnitsInv
<1>1. CASE ReusePrompt
  <2> DEFINE u == First(Unprompted)
  <2>1. u \in Units /\ Has(manifest, u)
    BY <1>1, FirstIsThere DEF ReusePrompt, Materializing, Unprompted
  <2>2. LastLine(manifest, u).prompt \in Prompts
    <3>1. LastLine(manifest, u) \in ManifestLines
      BY <1>0, <2>1, LastLineTyped DEF FilesTypeOK
    <3> QED
      BY <3>1 DEF ManifestLines
  <2>3. Knows(u, LastLine(manifest, u).prompt) \/ Other
    BY <1>1 DEF ReusePrompt, Materializing, PromptLine, disk, Evaluation, Knows, Other
  <2> HIDE DEF u
  <2> QED
    BY <2>1, <2>2, <2>3
<1>2. CASE RecordPrompt
  <2>1. pending.unit \in Units /\ pending.prompt \in Prompts
    BY <1>0, <1>2 DEF RecordPrompt, ControlInv, ManifestLines
  <2> QED
    BY <1>2, <2>1 DEF RecordPrompt, Knows
<1>3. CASE Materialized \/ SideEnds
  <2>1. \/ \E what : Decide(what)
        \/ StartSide(1)
        \/ pc = "evaluate" /\ Unplayed = {} /\ turn < Len(Sides) /\ StartSide(turn + 1)
    BY <1>3 DEF Materialized, SideEnds
  <2>2. CASE \E what : Decide(what)
    BY <2>2 DEF Decide, Evaluation, Other
  <2>3. Unplayed = {} => done = Units
    BY <1>0 DEF Unplayed, StageTypeOK
  <2>4. 1 \in DOMAIN Sides /\ (turn < Len(Sides) => turn + 1 \in DOMAIN Sides)
    BY <1>0, SidesTypes DEF StageTypeOK
  <2> QED
    BY <2>1, <2>2, <2>3, <2>4
<1>4. CASE Run \/ ChallengerRefused \/ Fetched \/ MakePrompt
  BY <1>4 DEF Run, ChallengerRefused, Fetched, MakePrompt, PromptLine, Evaluation, Other
<1>5. CASE NotPlayed \/ UnitEnds \/ PlayUnit \/ BenchmarkWrites \/ BenchmarkEnds
  BY <1>5 DEF NotPlayed, UnitEnds, ResultLine, PlayUnit, BenchmarkWrites, BenchmarkEnds, Evaluating,
              Evaluation, Other, disk
<1>6. CASE OrphanWrites \/ FileChanges
  BY <1>6 DEF OrphanWrites, FileChanges, memory, Other
<1> QED
  BY <1>1, <1>2, <1>3, <1>4, <1>5, <1>6 DEF Next, UnitSteps

LEMMA LinesStep ==
    ASSUME UnitsInv, Next
    PROVE  LinesInv'
<1> USE DEF LinesInv
<1>0. FilesTypeOK /\ StageTypeOK /\ ControlInv /\ LinesInv /\ Side \in Players
  BY TypeParts, SideIsAPlayer DEF UnitsInv
<1>1. ASSUME pc = "result"
      PROVE  /\ pending \in ResultLines /\ ~Has(results[Side], pending.unit)
             /\ results[Side] \in JsonLines(ResultLines) /\ Single(results[Side])
  BY <1>0, <1>1 DEF ControlInv, ResultLines, Evaluation, FilesTypeOK, Unplayed
<1>2. CASE RecordResult
  <2> DEFINE g == Appended(results[Side], pending)
  <2>1. /\ Single(g)
        /\ \A u : Has(g, u) => Has(results[Side], u) \/ u = pending.unit
    BY <1>1, <1>2, AppendKeepsSingle DEF RecordResult
  <2>2. /\ results' = [results EXCEPT ![Side] = g] /\ Side' = Side
        /\ done' = done \cup {pending.unit} /\ pc \in Evaluation
    BY <1>2 DEF RecordResult, Side, Evaluation
  <2> HIDE DEF g
  <2>3. results'[Side] = g /\ \A s \in Players \ {Side} : results'[s] = results[s]
    BY <1>0, <2>2 DEF FilesTypeOK
  <2> QED
    BY <1>0, <2>1, <2>2, <2>3
<1>3. CASE Kill
  <2>1. pc' \notin Evaluation
    BY <1>3 DEF Kill, Forget, Evaluation
  <2>2. CASE results' = results
    BY <1>0, <2>1, <2>2
  <2>3. CASE \E f \in Torn(results[Side], pending) : results' = [results EXCEPT ![Side] = f]
             /\ pc = "result"
    <3>1. PICK f \in Torn(results[Side], pending) : results' = [results EXCEPT ![Side] = f]
      BY <2>3
    <3>2. Single(f)
      BY <1>1, <2>3, AppendKeepsSingle
    <3> QED
      BY <1>0, <2>1, <3>1, <3>2 DEF FilesTypeOK
  <2> QED
    BY <1>3, <2>2, <2>3 DEF Kill
<1>4. ASSUME NEW i \in DOMAIN Sides, StartSide(i)
      PROVE  LinesInv'
  BY <1>0, <1>4 DEF StartSide, disk, Side
<1>5. ASSUME NEW u \in Units, NEW prompt \in Prompts, Knows(u, prompt)
      PROVE  LinesInv'
  BY <1>0, <1>5 DEF Knows, Evaluation
<1>6. CASE HarnessUnavailable
  BY <1>0, <1>6 DEF HarnessUnavailable, Forget, disk, Evaluation
<1>7. CASE Other
  BY <1>0, <1>7 DEF Other, Side
<1> QED
  BY <1>2, <1>3, <1>4, <1>5, <1>6, <1>7, RowsFrame

(* A finished unit stays so, while its side's results and row do. *)
LEMMA FinishedKept ==
    ASSUME NEW s, NEW u, Finished(s, u), results'[s] = results[s],
           rows'[u].result[s] = rows[u].result[s], rows[u].void => rows'[u].void
    PROVE  Finished(s, u)'
BY DEF Finished

LEMMA RowsStep ==
    ASSUME UnitsInv, Next
    PROVE  RowsInv'
<1> USE DEF RowsInv
<1>0. FilesTypeOK /\ StageTypeOK /\ KnownTypeOK /\ ControlInv /\ LinesInv /\ RowsInv /\ Side \in Players
  BY TypeParts, SideIsAPlayer DEF UnitsInv
<1>1. ASSUME NEW u \in Units, NEW prompt \in Prompts, Knows(u, prompt)
      PROVE  RowsInv'
  <2>1. done' = {} /\ turn' = 1
    BY <1>0, <1>1 DEF Knows, ControlInv
  <2>2. WithPrompt(rows[u], prompt).void = (rows[u].void \/ prompt.void)
    BY <1>0, RowWithPrompt DEF KnownTypeOK
  <2>3. \A v \in Units : prompts'[v].void => rows'[v].void
    BY <1>0, <1>1, <2>2 DEF Knows, Known, KnownTypeOK
  <2> QED
    BY <2>1, <2>3, SidesTypes
<1>2. CASE RecordResult
  <2>0. PICK u : u = pending.unit
    OBVIOUS
  <2> DEFINE g == Appended(results[Side], pending)
  <2>1. u \in Unplayed /\ u \in Units /\ pending.result \in Results /\ pending \in ResultLines
        /\ ~Has(results[Side], u)
    BY <1>0, <1>2, <2>0 DEF RecordResult, ControlInv, LinesInv, ResultLines, Evaluation, Unplayed
  <2>2. /\ results' = [results EXCEPT ![Side] = g] /\ Side' = Side /\ prompts' = prompts
        /\ rows' = [rows EXCEPT ![u] = Merged(rows[u], Side, pending.result)]
        /\ done' = done \cup {u} /\ turn' = turn
    BY <1>2, <2>0 DEF RecordResult, Side
  <2>3. \A v : Has(g, v) =>
           \/ Has(results[Side], v) /\ LastLine(g, v) = LastLine(results[Side], v)
           \/ v = u /\ LastLine(g, v) = pending
    <3>1. results[Side] \in JsonLines(ResultLines) /\ Single(results[Side])
      BY <1>0 DEF FilesTypeOK, LinesInv
    <3> QED
      BY <2>0, <2>1, <3>1, AppendKeepsSingle
  <2>4. /\ rows'[u].void = (rows[u].void \/ pending.result.kind = "void")
        /\ rows'[u].result[Side] = pending.result
        /\ \A r \in Players \ {Side} : rows'[u].result[r] = rows[u].result[r]
        /\ \A v \in Units \ {u} : rows'[v] = rows[v]
    <3>1. rows[u] \in RowTypes
      BY <1>0, <2>1 DEF KnownTypeOK
    <3> DEFINE merged == Merged(rows[u], Side, pending.result)
    <3>2. /\ merged.void = (rows[u].void \/ pending.result.kind = "void")
          /\ merged.result[Side] = pending.result
          /\ \A r \in Players \ {Side} : merged.result[r] = rows[u].result[r]
      BY <1>0, <2>1, <3>1, RowMerged
    <3>3. rows'[u] = merged /\ \A v \in Units \ {u} : rows'[v] = rows[v]
      BY <1>0, <2>1, <2>2 DEF KnownTypeOK
    <3> HIDE DEF merged
    <3> QED
      BY <3>2, <3>3
  <2> HIDE DEF g
  <2>5. results'[Side] = g /\ \A s \in Players \ {Side} : results'[s] = results[s]
    BY <1>0, <2>2 DEF FilesTypeOK
  <2>6. \A v \in Units : rows[v].void => rows'[v].void
    BY <2>4
  <2>7. Finished(Side, u)'
    <3>1. rows'[u].result[Side] = pending.result /\ pending.result.kind \in Kinds
      BY <2>1, <2>4 DEF Results
    <3>2. pending.result.kind = "void" => rows'[u].void
      BY <2>4
    <3>3. Has(g, u) => LastLine(g, u).result = pending.result
      BY <2>1, <2>3
    <3> QED
      BY <2>2, <2>5, <3>1, <3>2, <3>3 DEF Finished
  <2>8. ASSUME NEW v \in done, v # u
        PROVE  Finished(Side, v)'
    <3>1. v \in Units /\ rows'[v] = rows[v] /\ Finished(Side, v)
      BY <1>0, <2>4, <2>8 DEF StageTypeOK
    <3> QED
      BY <2>2, <2>3, <2>5, <2>8, <3>1 DEF Finished
  <2>9. ASSUME NEW i \in DOMAIN Sides, i < turn, NEW v \in Units
        PROVE  Finished(Sides[i], v)'
    <3>1. Sides[i] \in Players \ {Side}
      BY <1>0, <2>9, SidesTypes DEF Side, StageTypeOK
    <3>2. rows'[v].result[Sides[i]] = rows[v].result[Sides[i]]
      BY <2>4, <3>1
    <3> QED
      BY <1>0, <2>5, <2>6, <2>9, <3>1, <3>2, FinishedKept
  <2>10. \A v \in done' : Finished(Side, v)'
    BY <2>2, <2>7, <2>8
  <2>11. \A v \in Units : prompts'[v].void => rows'[v].void
    BY <1>0, <2>2, <2>6
  <2> QED
    BY <2>2, <2>9, <2>10, <2>11
<1>3. ASSUME NEW i \in DOMAIN Sides, StartSide(i),
             i = 1 \/ (pc = "evaluate" /\ i = turn + 1 /\ done = Units)
      PROVE  RowsInv'
  <2> DEFINE s == Sides[i]
  <2>0. s \in Players /\ s = Side'
    BY <1>3, SidesTypes DEF StartSide, Side
  <2>1. /\ rows' = WithFinished(rows, s) /\ turn' = i /\ prompts' = prompts /\ results' = results
        /\ done' = {u \in Units : Has(results[s], u)}
    BY <1>3 DEF StartSide, disk
  <2>2. \A u \in Units :
           /\ rows[u].void => rows'[u].void
           /\ \A r \in Players \ {s} : rows'[u].result[r] = rows[u].result[r]
           /\ Has(results[s], u) => /\ LastLine(results[s], u).result \in Results
                                    /\ rows'[u].result[s] = LastLine(results[s], u).result
                                    /\ LastLine(results[s], u).result.kind = "void" => rows'[u].void
    BY <1>0, <2>0, <2>1, RowsWithFinished
  <2> HIDE DEF s
  <2>3. ASSUME NEW u \in done'
        PROVE  Finished(s, u)'
    BY <2>1, <2>2, <2>3 DEF Finished, Results
  <2>4. ASSUME NEW j \in DOMAIN Sides, j < i, NEW u \in Units
        PROVE  Finished(Sides[j], u)'
    <3>1. Sides[j] \in Players \ {s} /\ i \in Nat /\ j \in Nat /\ j # 0
      BY <2>4, SidesTypes DEF s
    <3>2. Finished(Sides[j], u)
      <4>1. i = turn + 1 /\ done = Units /\ turn \in Nat
        BY <1>0, <1>3, <2>4, <3>1, SidesTypes DEF StageTypeOK
      <4>2. j < turn \/ Sides[j] = Side
        BY <2>4, <3>1, <4>1 DEF Side
      <4> QED
        BY <1>0, <2>4, <4>1, <4>2
    <3> QED
      BY <2>1, <2>2, <3>1, <3>2, FinishedKept
  <2> QED
    BY <1>0, <2>0, <2>1, <2>2, <2>3, <2>4
<1>4. CASE Forget
  BY <1>4, SidesTypes DEF Forget, Unread
<1>5. CASE Other
  BY <1>0, <1>5 DEF Other, Side, Finished
<1> QED
  BY <1>1, <1>2, <1>3, <1>4, <1>5, RowsFrame DEF Kill, HarnessUnavailable
-----------------------------------------------------------------------------
LEMMA InitUnits == Init => UnitsInv
<1> SUFFICES ASSUME Init
             PROVE  UnitsInv
  OBVIOUS
<1>1. FilesTypeOK
  <2>1. \A S : [lines |-> <<>>, tail |-> "none"] \in JsonLines(S)
    BY DEF JsonLines
  <2> QED
    BY <2>1 DEF Init, FilesTypeOK
<1>2. PromptsTypeOK
  BY DEF Init, PromptsTypeOK
<1>3. StageTypeOK
  <2>1. 1 \in DOMAIN Sides
    BY SidesTypes
  <2>2. pending \in ManifestLines \cup ResultLines \cup {NoLine}
    BY DEF Init
  <2> QED
    BY <2>1, <2>2 DEF Init, StageTypeOK
<1>4. KnownTypeOK
  <2> DEFINE Outcomes == Results \cup {NoResult}
  <2>1. NoResult \in Outcomes
    OBVIOUS
  <2> HIDE DEF Outcomes
  <2>2. [s \in Players |-> NoResult] \in [Players -> Outcomes]
    BY <2>1
  <2>3. EmptyRow \in RowTypes
    BY <2>2 DEF EmptyRow, RowTypes, Outcomes
  <2> QED
    BY <2>3, PromptsTyped DEF Init, KnownTypeOK
<1>5. ControlInv
  BY DEF Init, ControlInv, Published
<1>6. LinesInv
  BY DEF Init, LinesInv, Single, Evaluation
<1>7. RowsInv
  BY SidesTypes DEF Init, RowsInv, Unread
<1> QED
  BY <1>1, <1>2, <1>3, <1>4, <1>5, <1>6, <1>7, TypeParts DEF UnitsInv

LEMMA UnitsStep == UnitsInv /\ [Next]_vars => UnitsInv'
<1>1. ASSUME UnitsInv, Next
      PROVE  UnitsInv'
  <2>1. TypeOK'
    BY <1>1, FilesTypes, PromptsTypes, KnownTypes, StageStep
    DEF TypeOK, FilesTypeOK, PromptsTypeOK, StageTypeOK, KnownTypeOK, RowTypes
  <2> QED
    BY <1>1, <2>1, StageStep, LinesStep, RowsStep DEF UnitsInv
<1>2. ASSUME UnitsInv, UNCHANGED vars
      PROVE  UnitsInv'
  BY <1>2
  DEF vars, disk, memory, UnitsInv, TypeOK, ControlInv, LinesInv, RowsInv, Finished, Published,
      Side, Unplayed
<1> QED
  BY <1>1, <1>2

(* The inductive invariant holds always. *)
THEOREM UnitsInvariance == Spec => []UnitsInv
BY InitUnits, UnitsStep, PTL DEF Spec

(* Files, memory and what is known of the units keep their types, whatever     *)
(* append a kill cuts.                                                         *)
THEOREM UnitsTypeCorrect == Spec => []TypeOK
<1>1. UnitsInv => TypeOK
  BY DEF UnitsInv
<1> QED
  BY <1>1, UnitsInvariance, PTL

(* orchestrate.py, _merge: however often the duel was killed, resumed or torn, *)
(* a unit that is published as counting has a result of each side, none void.  *)
THEOREM CountedForBoth == Spec => []CountsForBoth
<1>1. UnitsInv => CountsForBoth
  <2> SUFFICES ASSUME UnitsInv, Published, NEW u \in Units, Scored(u), NEW s \in Players
               PROVE  /\ ~prompts[u].void
                      /\ rows[u].result[s].kind \in {"scored", "failed"}
                      /\ Has(results[s], u) => LastLine(results[s], u).result.kind # "void"
    <3>1. Players # {}
      BY SidesTypes
    <3> QED
      BY <3>1 DEF CountsForBoth
  <2>0. StageTypeOK /\ RowsInv /\ turn = Len(Sides) /\ done = Units
    BY TypeParts DEF UnitsInv, ControlInv
  <2>1. Finished(s, u)
    <3>1. PICK i \in DOMAIN Sides : s = Sides[i]
      BY SidesTypes
    <3>2. i < turn \/ s = Side
      BY <2>0, <3>1, SidesTypes DEF Side
    <3> QED
      BY <2>0, <3>1, <3>2 DEF RowsInv
  <2> QED
    BY <2>0, <2>1 DEF Finished, Scored, RowsInv, Kinds
<1> QED
  BY <1>1, UnitsInvariance, PTL

-----------------------------------------------------------------------------
(* With every line whole: what is appended last is what is read. *)
LEMMA AppendedLast ==
    ASSUME NEW S, NEW f \in JsonLines(S), f.tail = "none", NEW line \in S
    PROVE  LET g == Appended(f, line) IN
           /\ g.tail = "none" /\ g \in JsonLines(S)
           /\ Has(g, line.unit) /\ LastLine(g, line.unit) = line
           /\ \A u : Has(f, u) => Has(g, u)
           /\ \A u : u # line.unit /\ Has(f, u) => LastLine(g, u) = LastLine(f, u)
           /\ \A i \in DOMAIN g.lines : g.lines[i] = line \/
                 (i \in DOMAIN f.lines /\ g.lines[i] = f.lines[i])
<1> DEFINE g == Appended(f, line)
           n == Len(f.lines)
<1>1. g.lines = Append(f.lines, line) /\ g.tail = "none" /\ f.lines \in Seq(S)
  BY FileShape DEF Appended
<1>2. g \in JsonLines(S)
  BY AppendedLines
<1> HIDE DEF g
<1>3. /\ n \in Nat /\ DOMAIN f.lines = 1 .. n /\ DOMAIN g.lines = 1 .. n + 1
      /\ g.lines[n + 1] = line /\ \A i \in 1 .. n : g.lines[i] = f.lines[i]
  BY <1>1
<1>4. Has(g, line.unit) /\ n + 1 \in LinesOf(g, line.unit)
  BY <1>3 DEF Has, LinesOf
<1>5. LastLine(g, line.unit) = line
  <2>1. PICK i \in LinesOf(g, line.unit) :
           LastLine(g, line.unit) = g.lines[i] /\ \A j \in LinesOf(g, line.unit) : j <= i
    BY <1>2, <1>4, LastLineIs
  <2>2. i = n + 1
    BY <1>3, <1>4, <2>1 DEF LinesOf
  <2> QED
    BY <1>3, <2>1, <2>2
<1>6. ASSUME NEW u, Has(f, u)
      PROVE  Has(g, u) /\ (u # line.unit => LastLine(g, u) = LastLine(f, u))
  <2>1. PICK i \in LinesOf(f, u) : LastLine(f, u) = f.lines[i] /\ \A j \in LinesOf(f, u) : j <= i
    BY <1>6, LastLineIs
  <2>2. i \in LinesOf(g, u)
    BY <1>3, <2>1 DEF LinesOf
  <2>3. Has(g, u)
    BY <2>2 DEF Has
  <2>4. PICK k \in LinesOf(g, u) : LastLine(g, u) = g.lines[k] /\ \A j \in LinesOf(g, u) : j <= k
    BY <1>2, <2>3, LastLineIs
  <2>5. ASSUME u # line.unit
        PROVE  k = i
    <3>1. k \in LinesOf(f, u)
      BY <1>3, <2>4, <2>5 DEF LinesOf
    <3> QED
      BY <1>3, <2>1, <2>2, <2>4, <3>1 DEF LinesOf
  <2> QED
    BY <1>3, <2>1, <2>3, <2>4, <2>5 DEF LinesOf
<1> QED
  BY <1>1, <1>2, <1>3, <1>4, <1>5, <1>6 DEF g

LEMMA ManifestFrame ==
    ASSUME "manifest" \notin TornIn, Next
    PROVE  RecordPrompt \/ manifest' = manifest
BY DEF Next, UnitSteps, Run, ChallengerRefused, HarnessUnavailable, Fetched, ReusePrompt, MakePrompt,
       Materialized, NotPlayed, PlayUnit, BenchmarkWrites, BenchmarkEnds, UnitEnds, SideEnds, Decide,
       StartSide, OrphanWrites, FileChanges, Kill, RecordResult, disk

LEMMA ManifestStep ==
    ASSUME "manifest" \notin TornIn, UnitsInv, ManifestInv, Next
    PROVE  ManifestInv'
<1>0. FilesTypeOK /\ PromptsTypeOK /\ StageTypeOK /\ KnownTypeOK /\ ControlInv
  BY TypeParts DEF UnitsInv
<1>1. CASE RecordPrompt
  <2>1. pending \in ManifestLines /\ pending.unit \in Units /\ pending.prompt # Unread
    BY <1>0, <1>1 DEF RecordPrompt, ControlInv, ManifestLines, ManifestInv
  <2>2. PICK line \in ManifestLines : line = pending
    BY <2>1
  <2>3. manifest \in JsonLines(ManifestLines) /\ manifest.tail = "none" /\ manifest' = Appended(manifest, line)
    BY <1>0, <1>1, <2>2 DEF RecordPrompt, FilesTypeOK, ManifestInv
  <2>4. /\ manifest'.tail = "none"
        /\ Has(manifest', line.unit) /\ LastLine(manifest', line.unit) = line
        /\ \A u : Has(manifest, u) => Has(manifest', u)
        /\ \A u : u # line.unit /\ Has(manifest, u) => LastLine(manifest', u) = LastLine(manifest, u)
        /\ \A i \in DOMAIN manifest'.lines : manifest'.lines[i] = line \/
              (i \in DOMAIN manifest.lines /\ manifest'.lines[i] = manifest.lines[i])
    BY <2>3, AppendedLast
  <2>5. prompts' = [prompts EXCEPT ![line.unit] = line.prompt] /\ pc' = "materialize"
    BY <1>1, <2>2 DEF RecordPrompt, Known
  <2>6. \A u \in Units : prompts'[u] # Unread =>
           Has(manifest', u) /\ prompts'[u] = LastLine(manifest', u).prompt
    BY <1>0, <2>1, <2>2, <2>4, <2>5 DEF ManifestInv, KnownTypeOK
  <2>7. \A i \in DOMAIN manifest'.lines : manifest'.lines[i].prompt # Unread
    BY <2>1, <2>2, <2>4 DEF ManifestInv
  <2> QED
    BY <2>4, <2>5, <2>6, <2>7 DEF ManifestInv, Evaluation, Published
<1>2. CASE manifest' = manifest
  <2>1. \A u \in Units : prompts'[u] # Unread => prompts'[u] = prompts[u]
           \/ (Has(manifest, u) /\ prompts'[u] = LastLine(manifest, u).prompt)
    <3>1. CASE ReusePrompt
      BY <1>0, <3>1 DEF ReusePrompt, Known, PromptLine, KnownTypeOK
    <3>2. CASE Forget
      BY <3>2 DEF Forget
    <3>3. CASE RecordPrompt
      BY <1>0, <1>2, <3>3, <1>1 DEF ManifestInv
    <3>4. CASE prompts' = prompts
      BY <3>4
    <3> QED
      BY <3>1, <3>2, <3>3, <3>4
      DEF Next, UnitSteps, Run, ChallengerRefused, HarnessUnavailable, Fetched, MakePrompt, PromptLine,
          Materialized, NotPlayed, ResultLine, PlayUnit, BenchmarkWrites, BenchmarkEnds, UnitEnds,
          SideEnds, Decide, StartSide, OrphanWrites, FileChanges, Kill, RecordResult, memory
  <2>2. pc' = "prompted" => /\ pending'.prompt # Unread
                            /\ pending'.prompt.void \/ ~Has(manifest, pending'.unit)
    <3>1. CASE ReusePrompt
      BY <3>1 DEF ReusePrompt, Materializing, PromptLine, RecordedChanged, VoidPrompt, Unread
    <3>2. CASE MakePrompt
      <4>1. First(Unprompted) \in Units
        BY <3>2, FirstIsThere DEF MakePrompt, Materializing, Unprompted
      <4>2. PICK u \in Units : u = First(Unprompted) /\ ~Has(manifest, u)
        BY <3>2, <4>1 DEF MakePrompt
      <4>3. CASE made' = [made EXCEPT ![u] = @ + 1] /\ PromptLine(u, PromptOf(made'[u]))
        <5>1. made'[u] \in Nat \ {0}
          BY <1>0, <4>3 DEF PromptsTypeOK
        <5>2. PromptOf(made'[u]) # Unread
          BY <5>1 DEF PromptOf, Unread
        <5> QED
          BY <4>2, <4>3, <5>2 DEF PromptLine
      <4>4. CASE PromptLine(u, VoidPrompt)
        BY <4>2, <4>4 DEF PromptLine, VoidPrompt, Unread
      <4> QED
        BY <3>2, <4>2, <4>3, <4>4 DEF MakePrompt
    <3>3. CASE pc = "prompted" /\ UNCHANGED <<pc, pending>>
      BY <3>3 DEF ManifestInv
    <3> QED
      BY <3>1, <3>2, <3>3
      DEF Next, UnitSteps, Run, ChallengerRefused, HarnessUnavailable, Fetched, Forget, RecordPrompt,
          Materialized, NotPlayed, ResultLine, PlayUnit, BenchmarkWrites, BenchmarkEnds, UnitEnds,
          SideEnds, Decide, StartSide, OrphanWrites, FileChanges, Kill, RecordResult, memory,
          Evaluating, Materializing
  <2>3. pc' \in Evaluation \/ Published' => \A u \in Units : prompts'[u] # Unread
    <3>1. CASE Materialized
      BY <1>0, <3>1 DEF Materialized, Decide, StartSide, disk, Evaluation, Published, Unprompted
    <3>2. CASE UNCHANGED prompts /\ (pc' \in Evaluation \/ Published' => pc \in Evaluation \/ Published)
      BY <3>2 DEF ManifestInv
    <3>3. CASE ~(pc' \in Evaluation \/ Published')
      BY <3>3
    <3> QED
      BY <3>1, <3>2, <3>3
      DEF Next, UnitSteps, Run, ChallengerRefused, HarnessUnavailable, Fetched, Forget, ReusePrompt,
          MakePrompt, PromptLine, RecordPrompt, NotPlayed, ResultLine, PlayUnit, BenchmarkWrites,
          BenchmarkEnds, UnitEnds, SideEnds, Decide, StartSide, OrphanWrites, FileChanges, Kill,
          RecordResult, memory, disk, Evaluating, Materializing, Evaluation, Published
  <2> QED
    BY <1>2, <2>1, <2>2, <2>3 DEF ManifestInv
<1> QED
  BY <1>1, <1>2, ManifestFrame
LEMMA PlayingStep ==
    ASSUME UnitsInv, PlayingInv, Next
    PROVE  PlayingInv'
<1>0. PromptsTypeOK /\ StageTypeOK /\ ControlInv /\ Side \in Players
  BY TypeParts, SideIsAPlayer DEF UnitsInv
<1>1. CASE PlayUnit \/ BenchmarkWrites \/ BenchmarkEnds
  <2>1. PICK u : u = First(Unplayed)
    OBVIOUS
  <2>2. PICK s : s = Side
    OBVIOUS
  <2>3. u \in Units /\ <<s, u>> \in Players \X Units
    <3>1. Unplayed # {} /\ Unplayed \in SUBSET Units
      BY <1>0, <1>1 DEF PlayUnit, BenchmarkWrites, BenchmarkEnds, Evaluating, ControlInv, Unplayed
    <3> QED
      BY <1>0, <2>1, <2>2, <3>1, FirstIsThere
  <2>4. u = First(Unplayed') /\ s = Side'
    BY <1>1, <2>1, <2>2 DEF PlayUnit, BenchmarkWrites, BenchmarkEnds, Unplayed, Side, disk
  <2>5. <<s, u>> \notin orphans' /\ ~prompts'[u].void
    BY <1>1, <2>1, <2>2 DEF PlayUnit, BenchmarkWrites, BenchmarkEnds, Reap, PlayingInv, disk
  <2>6. left'[<<s, u>>] \in {0, file'[u]} \/ file'[u] < 0
    BY <1>0, <1>1, <2>1, <2>2, <2>3
    DEF PlayUnit, BenchmarkWrites, BenchmarkEnds, PlayingInv, PromptsTypeOK, disk
  <2> QED
    BY <2>4, <2>5, <2>6 DEF PlayingInv
<1>2. CASE OrphanWrites \/ FileChanges
  <2> SUFFICES ASSUME pc \in {"playing", "ended"}
               PROVE  PlayingInv'
    BY <1>2 DEF OrphanWrites, FileChanges, PlayingInv, memory
  <2>1. PICK u : u = First(Unplayed)
    OBVIOUS
  <2>2. PICK s : s = Side
    OBVIOUS
  <2>3. u \in Units /\ <<s, u>> \in Players \X Units
    BY <1>0, <2>1, <2>2, FirstIsThere DEF ControlInv, Unplayed
  <2>4. u = First(Unplayed') /\ s = Side' /\ prompts' = prompts /\ orphans' \subseteq orphans
    BY <1>2, <2>1, <2>2 DEF OrphanWrites, FileChanges, memory, Unplayed, Side
  <2>5. <<s, u>> \notin orphans /\ ~prompts[u].void /\ (left[<<s, u>>] \in {0, file[u]} \/ file[u] < 0)
    BY <2>1, <2>2 DEF PlayingInv
  <2>6. left'[<<s, u>>] = left[<<s, u>>]
    BY <1>0, <1>2, <2>3, <2>5 DEF OrphanWrites, FileChanges, PromptsTypeOK
  <2>7. file'[u] = file[u] \/ file'[u] < 0
    BY <1>0, <1>2, <2>3 DEF OrphanWrites, FileChanges, PromptsTypeOK
  <2>8. file[u] < 0 => file'[u] < 0
    BY <1>0, <1>2, <2>3 DEF OrphanWrites, FileChanges, PromptsTypeOK
  <2> QED
    BY <2>4, <2>5, <2>6, <2>7, <2>8 DEF PlayingInv
<1>3. CASE pc' \notin {"playing", "ended"}
  BY <1>3 DEF PlayingInv
<1> QED
  BY <1>1, <1>2, <1>3
  DEF Next, UnitSteps, Run, ChallengerRefused, HarnessUnavailable, Fetched, Forget, ReusePrompt,
      MakePrompt, PromptLine, RecordPrompt, Materialized, NotPlayed, ResultLine, UnitEnds, SideEnds,
      Decide, StartSide, Kill, RecordResult, Evaluating, Materializing

(* A result that was played from the recorded prompt stays so, or the prompt   *)
(* has become void.                                                            *)
LEMMA FromRecordKept ==
    ASSUME "manifest" \notin TornIn, UnitsInv, ManifestInv, Next
    PROVE  \A u, result : FromRecord(u, result) =>
              (result.kind = "scored" =>
                 /\ Has(manifest', u)
                 /\ \/ LastLine(manifest', u).prompt.void
                    \/ LastLine(manifest', u).prompt.sha = result.from)
<1> SUFFICES ASSUME NEW u, NEW result, FromRecord(u, result), result.kind = "scored"
             PROVE  /\ Has(manifest', u)
                    /\ \/ LastLine(manifest', u).prompt.void
                       \/ LastLine(manifest', u).prompt.sha = result.from
  OBVIOUS
<1>1. Has(manifest, u) /\ (LastLine(manifest, u).prompt.void \/ LastLine(manifest, u).prompt.sha = result.from)
  BY DEF FromRecord
<1>2. CASE RecordPrompt
  <2>1. PICK line \in ManifestLines : line = pending
    BY <1>2 DEF RecordPrompt, UnitsInv, ControlInv
  <2>2. manifest \in JsonLines(ManifestLines) /\ manifest.tail = "none" /\ manifest' = Appended(manifest, line)
    BY <1>2, <2>1, TypeParts DEF RecordPrompt, FilesTypeOK, ManifestInv, UnitsInv
  <2>3. /\ Has(manifest', u) /\ LastLine(manifest', line.unit) = line
        /\ u # line.unit => LastLine(manifest', u) = LastLine(manifest, u)
    BY <1>1, <2>2, AppendedLast
  <2>4. u = line.unit => line.prompt.void
    BY <1>1, <1>2, <2>1 DEF RecordPrompt, ManifestInv
  <2> QED
    BY <1>1, <2>3, <2>4
<1> QED
  BY <1>1, <1>2, ManifestFrame

LEMMA ResultsStep ==
    ASSUME "manifest" \notin TornIn, PromptInv, Next
    PROVE  ResultsInv'
<1>0. /\ FilesTypeOK /\ PromptsTypeOK /\ StageTypeOK /\ KnownTypeOK /\ Side \in Players
      /\ UnitsInv /\ ControlInv /\ LinesInv /\ ManifestInv /\ PlayingInv /\ ResultsInv
  BY TypeParts, SideIsAPlayer DEF PromptInv, UnitsInv
<1> DEFINE Played(u, result) ==
              result.kind = "scored" =>
                 /\ Has(manifest', u)
                 /\ \/ LastLine(manifest', u).prompt.void
                    \/ LastLine(manifest', u).prompt.sha = result.from
<1>1. \A u, result : FromRecord(u, result) => Played(u, result)
  BY <1>0, FromRecordKept
<1> HIDE DEF Played
<1>2. ASSUME NEW s \in Players, NEW i \in DOMAIN results'[s].lines
      PROVE  Played(results'[s].lines[i].unit, results'[s].lines[i].result)
  <2>1. CASE i \in DOMAIN results[s].lines /\ results'[s].lines[i] = results[s].lines[i]
    BY <1>0, <1>1, <2>1 DEF ResultsInv
  <2>2. CASE pc = "result" /\ results'[s].lines[i] = pending
    BY <1>0, <1>1, <2>2 DEF ResultsInv
  <2>3. CASE pc = "result" /\ s = Side /\ results'[s] \in {Appended(results[s], pending)} \cup Torn(results[s], pending)
    <3>1. results[s] \in JsonLines(ResultLines) /\ pending \in ResultLines
      BY <1>0, <2>3 DEF FilesTypeOK, ControlInv
    <3> QED
      BY <2>1, <2>2, <2>3, <3>1, AppendedLines
  <2>4. CASE results'[s] = results[s]
    BY <2>1, <2>4
  <2>5. CASE RecordResult
    BY <1>0, <2>3, <2>4, <2>5 DEF RecordResult, FilesTypeOK
  <2>6. CASE Kill
    BY <1>0, <2>3, <2>4, <2>6 DEF Kill, FilesTypeOK
  <2> QED
    BY <1>0, <2>4, <2>5, <2>6, RowsFrame DEF Knows, StartSide, HarnessUnavailable, Other, disk
<1>3. ASSUME pc' = "result"
      PROVE  Played(pending'.unit, pending'.result)
  <2>1. CASE UnitEnds
    <3>1. PICK u : u = First(Unplayed)
      OBVIOUS
    <3>2. u \in Units /\ pc = "ended"
      BY <1>0, <2>1, <3>1, FirstIsThere DEF UnitEnds, ControlInv, Unplayed
    <3>3. CASE PlayedFromRecord(u) /\ ResultLine(u, "scored", left[<<Side, u>>])
      <4>1. Has(manifest, u) /\ prompts[u] = LastLine(manifest, u).prompt /\ prompts[u].sha \in Nat
        BY <1>0, <3>2 DEF ManifestInv, Evaluation, KnownTypeOK, Prompts
      <4>2. file[u] = prompts[u].sha /\ left[<<Side, u>>] = file[u]
        <5>1. ~prompts[u].void /\ (left[<<Side, u>>] \in {0, file[u]} \/ file[u] < 0)
          BY <1>0, <3>1, <3>2 DEF PlayingInv
        <5> QED
          BY <3>3, <4>1, <5>1 DEF PlayedFromRecord, Changed
      <4>3. pending'.unit = u /\ pending'.result = [kind |-> "scored", from |-> left[<<Side, u>>]]
        BY <3>3 DEF ResultLine
      <4>4. FromRecord(pending'.unit, pending'.result)
        BY <4>1, <4>2, <4>3 DEF FromRecord
      <4> QED
        BY <1>1, <4>4
    <3>4. CASE ResultLine(u, "failed", 0) \/ ResultLine(u, "void", 0)
      BY <3>4 DEF ResultLine, Played
    <3> QED
      BY <2>1, <3>1, <3>3, <3>4 DEF UnitEnds
  <2>2. CASE NotPlayed
    BY <2>2 DEF NotPlayed, ResultLine, Played
  <2>3. CASE pc = "result" /\ UNCHANGED pending
    BY <1>0, <1>1, <2>3 DEF ResultsInv
  <2> QED
    BY <1>3, <2>1, <2>2, <2>3
    DEF Next, UnitSteps, Run, ChallengerRefused, HarnessUnavailable, Fetched, Forget, ReusePrompt,
        MakePrompt, PromptLine, RecordPrompt, Materialized, PlayUnit, BenchmarkWrites, BenchmarkEnds,
        SideEnds, Decide, StartSide, Kill, RecordResult, OrphanWrites, FileChanges, memory, disk,
        Materializing
<1>4. ASSUME NEW s \in Players, NEW u \in Units
      PROVE  Played(u, rows'[u].result[s])
  <2>0. Played(u, rows[u].result[s])
    BY <1>0, <1>1 DEF ResultsInv
  <2>1. ASSUME NEW v \in Units, NEW prompt \in Prompts, Knows(v, prompt)
        PROVE  rows'[u].result = rows[u].result
    <3>1. WithPrompt(rows[v], prompt).result = rows[v].result
      BY <1>0, RowWithPrompt DEF KnownTypeOK
    <3> QED
      BY <1>0, <2>1, <3>1 DEF Knows, Known, KnownTypeOK
  <2>2. CASE RecordResult
    <3>1. PICK v \in Units : v = pending.unit /\ pending.result \in Results
      BY <1>0, <2>2 DEF RecordResult, ControlInv, ResultLines
    <3>2. rows'[u] = rows[u] \/ (u = v /\ rows'[u] = Merged(rows[u], Side, pending.result))
      BY <1>0, <2>2, <3>1 DEF RecordResult, KnownTypeOK
    <3>3. /\ Merged(rows[u], Side, pending.result).result[Side] = pending.result
          /\ \A r \in Players \ {Side} : Merged(rows[u], Side, pending.result).result[r] = rows[u].result[r]
      BY <1>0, <3>1, RowMerged DEF KnownTypeOK
    <3>4. rows'[u].result[s] = rows[u].result[s] \/ (u = v /\ rows'[u].result[s] = pending.result)
      BY <3>2, <3>3
    <3>5. Played(v, pending.result)
      BY <1>0, <1>1, <2>2, <3>1 DEF RecordResult, ResultsInv
    <3> QED
      BY <2>0, <3>4, <3>5
  <2>3. ASSUME NEW i \in DOMAIN Sides, StartSide(i)
        PROVE  Played(u, rows'[u].result[s])
    <3>1. Sides[i] \in Players /\ rows' = WithFinished(rows, Sides[i])
      BY <2>3, SidesTypes DEF StartSide
    <3>2. CASE s = Sides[i] /\ Has(results[s], u)
      <4>1. rows'[u].result[s] = LastLine(results[s], u).result
        BY <1>0, <3>1, <3>2, RowsWithFinished
      <4>2. results[s] \in JsonLines(ResultLines)
        BY <1>0 DEF FilesTypeOK
      <4>3. PICK j \in LinesOf(results[s], u) : LastLine(results[s], u) = results[s].lines[j]
        BY <3>2, <4>2, LastLineIs
      <4>4. FromRecord(u, results[s].lines[j].result)
        BY <1>0, <4>3 DEF ResultsInv, LinesOf
      <4> QED
        BY <1>1, <4>1, <4>3, <4>4
    <3>3. CASE ~(s = Sides[i] /\ Has(results[s], u))
      <4>1. rows'[u].result[s] = rows[u].result[s]
        BY <1>0, <3>1, <3>3, RowsWithFinished
      <4> QED
        BY <2>0, <4>1
    <3> QED
      BY <3>2, <3>3
  <2>4. CASE Forget
    BY <2>4 DEF Forget, EmptyRow, NoResult, Played
  <2>5. CASE Other
    BY <2>0, <2>5 DEF Other
  <2> QED
    BY <1>0, <2>0, <2>1, <2>2, <2>3, <2>4, <2>5, RowsFrame DEF Kill, HarnessUnavailable
<1> QED
  BY <1>2, <1>3, <1>4 DEF ResultsInv, FromRecord, Played
-----------------------------------------------------------------------------
LEMMA InitPrompts == Init => PromptInv
<1> SUFFICES ASSUME Init
             PROVE  PromptInv
  OBVIOUS
<1>1. UnitsInv
  BY InitUnits
<1>2. ManifestInv /\ PlayingInv
  BY DEF Init, ManifestInv, PlayingInv, Evaluation, Published
<1>3. \A s \in Players : results[s].lines = <<>>
  BY DEF Init
<1>4. \A s \in Players, u \in Units : rows[u].result[s] = NoResult
  BY DEF Init, EmptyRow
<1>5. ResultsInv
  BY <1>3, <1>4 DEF Init, ResultsInv, FromRecord, NoResult
<1> QED
  BY <1>1, <1>2, <1>5 DEF PromptInv

LEMMA PromptStep ==
    ASSUME "manifest" \notin TornIn
    PROVE  PromptInv /\ [Next]_vars => PromptInv'
<1>1. ASSUME PromptInv, Next
      PROVE  PromptInv'
  BY <1>1, UnitsStep, ManifestStep, PlayingStep, ResultsStep DEF PromptInv
<1>2. ASSUME PromptInv, UNCHANGED vars
      PROVE  PromptInv'
  <2>1. UnitsInv'
    BY <1>2, UnitsStep DEF PromptInv
  <2> QED
    BY <1>2, <2>1
    DEF vars, disk, memory, PromptInv, ManifestInv, PlayingInv, ResultsInv, FromRecord, Published,
        Side, Unplayed
<1> QED
  BY <1>1, <1>2

(* materialize.py: as long as no kill cuts a line of the manifest, a published *)
(* unit was played by each side that scored from the prompt that is published, *)
(* whatever became of the prompts' files and the results' lines.               *)
THEOREM PlayedFromOnePrompt ==
    ASSUME "manifest" \notin TornIn
    PROVE  Spec => []SamePrompt
<1>1. PromptInv /\ [Next]_vars => PromptInv'
  BY PromptStep
<1>2. PromptInv => SamePrompt
  <2> SUFFICES ASSUME PromptInv, Published, NEW u \in Units, NEW s \in Players, Scored(u),
                      rows[u].result[s].kind = "scored"
               PROVE  rows[u].result[s].from = prompts[u].sha
    BY DEF SamePrompt
  <2>1. FromRecord(u, rows[u].result[s])
    BY DEF PromptInv, ResultsInv
  <2>2. Has(manifest, u) /\ prompts[u] = LastLine(manifest, u).prompt
    BY DEF PromptInv, ManifestInv
  <2>3. ~prompts[u].void
    BY DEF PromptInv, UnitsInv, RowsInv, Scored
  <2> QED
    BY <2>1, <2>2, <2>3 DEF FromRecord
<1> QED
  BY <1>1, <1>2, InitPrompts, PTL DEF Spec

-----------------------------------------------------------------------------
(* score.py adds the rates of some skills up one after another.  That the sum  *)
(* is there, for any finite set of skills: *)
AddsUp(fractions, sum) ==
    sum = [S \in SUBSET DOMAIN fractions |->
             IF S = {} THEN <<0, 1>>
             ELSE Crown!Plus(fractions[Crown!Any(S)], sum[S \ {Crown!Any(S)}])]

LEMMA SumIsThere ==
    ASSUME NEW fractions, IsFiniteSet(DOMAIN fractions)
    PROVE  \E sum : AddsUp(fractions, sum)
<1> DEFINE Small(n) == {S \in SUBSET DOMAIN fractions : Cardinality(S) <= n}
           Next1(g, S) == IF S = {} THEN <<0, 1>>
                          ELSE Crown!Plus(fractions[Crown!Any(S)], g[S \ {Crown!Any(S)}])
           Upto(n, g) == g = [S \in Small(n) |-> Next1(g, S)]
           Missed == {n \in Nat : ~ \E g : Upto(n, g)}
<1>1. \A S \in SUBSET DOMAIN fractions : IsFiniteSet(S) /\ Cardinality(S) \in Nat
  BY FS_Subset, FS_CardinalityType
<1>2. Missed = {}
  <2> SUFFICES ASSUME Missed # {} PROVE FALSE
    OBVIOUS
  <2> HIDE DEF Small, Next1
  <2>1. PICK n \in Missed : \A m \in Missed : n <= m
    <3>1. Missed \in SUBSET Nat
      OBVIOUS
    <3> QED
      BY <3>1, LeastNumber
  <2>2. CASE n = 0
    <3>1. \A S \in Small(0) : S = {}
      BY <1>1, FS_EmptySet DEF Small
    <3> DEFINE g == [S \in Small(0) |-> <<0, 1>>]
    <3>2. \A S \in Small(0) : g[S] = Next1(g, S)
      BY <3>1 DEF Next1
    <3>3. g = [S \in Small(0) |-> Next1(g, S)]
      BY <3>2
    <3>4. Upto(0, g)
      BY <3>3
    <3> QED
      BY <2>1, <2>2, <3>4
  <2>3. CASE n # 0
    <3>1. n \in Nat /\ n - 1 \in Nat /\ n - 1 \notin Missed
      BY <2>1, <2>3
    <3>2. PICK g : Upto(n - 1, g)
      BY <3>1
    <3> DEFINE h == [S \in Small(n) |-> Next1(g, S)]
    <3>3. \A S \in Small(n - 1) : S \in Small(n) /\ g[S] = Next1(g, S)
      <4>1. \A S \in Small(n - 1) : S \in Small(n)
        BY <1>1, <3>1 DEF Small
      <4> QED
        BY <4>1, <3>2
    <3>4. \A S \in Small(n - 1) : h[S] = g[S]
      BY <3>3
    <3>5. \A S \in Small(n) : h[S] = Next1(h, S)
      <4> SUFFICES ASSUME NEW S \in Small(n), S # {}
                   PROVE  h[S] = Next1(h, S)
        BY DEF Next1
      <4>1. Crown!Any(S) \in S
        BY DEF Crown!Any
      <4>2. S \ {Crown!Any(S)} \in Small(n - 1)
        <5>1. /\ IsFiniteSet(S) /\ S \in SUBSET DOMAIN fractions
              /\ Cardinality(S) \in Nat /\ Cardinality(S) <= n
          BY <1>1 DEF Small
        <5>2. Cardinality(S \ {Crown!Any(S)}) = Cardinality(S) - 1
          BY <4>1, <5>1, FS_RemoveElement
        <5> QED
          BY <3>1, <5>1, <5>2 DEF Small
      <4>3. h[S \ {Crown!Any(S)}] = g[S \ {Crown!Any(S)}]
        BY <3>4, <4>2
      <4> QED
        BY <4>3 DEF Next1
    <3>6. h = [S \in Small(n) |-> Next1(h, S)]
      <4> HIDE DEF h
      <4>1. h = [S \in Small(n) |-> h[S]]
        BY DEF h
      <4> QED
        BY <3>5, <4>1
    <3> QED
      <4> HIDE DEF h
      <4>1. Upto(n, h)
        BY <3>6
      <4> QED
        BY <2>1, <4>1
  <2> QED
    BY <2>2, <2>3
<1>3. PICK g : Upto(Cardinality(DOMAIN fractions), g)
  <2>1. Cardinality(DOMAIN fractions) \in Nat
    BY <1>1
  <2> HIDE DEF Upto
  <2> QED
    BY <1>2, <2>1
<1>4. Small(Cardinality(DOMAIN fractions)) = SUBSET DOMAIN fractions
  BY FS_Subset
<1> QED
  BY <1>3, <1>4 DEF AddsUp

LEMMA TotalAddsUp ==
    ASSUME NEW fractions, IsFiniteSet(DOMAIN fractions)
    PROVE  \E sum : AddsUp(fractions, sum) /\ Crown!Total(fractions) = sum[DOMAIN fractions]
<1>1. Crown!Total(fractions) = (CHOOSE sum : AddsUp(fractions, sum))[DOMAIN fractions]
  BY DEF Crown!Total, Crown!MapThenFoldSet, AddsUp
<1> HIDE DEF AddsUp
<1>2. AddsUp(fractions, CHOOSE sum : AddsUp(fractions, sum))
  BY SumIsThere
<1> QED
  BY <1>1, <1>2

(* Where a fraction is the sum of two others for each skill, all three of the    *)
(* same denominator there, so are their totals.                                *)
Fractions(f, numerators, n) ==
    DOMAIN f = DOMAIN n /\ \A s \in DOMAIN n : f[s] = <<numerators[s], n[s]>>

EachAdds(k, l, c) == \A s \in DOMAIN c : k[s] + l[s] = c[s]

TotalsAdd(kf, lf, cf) ==
    \E K \in Nat, C \in Nat, L \in Int, d \in Nat \ {0} :
       /\ Crown!Total(kf) = <<K, d>>
       /\ Crown!Total(lf) = <<L, d>>
       /\ Crown!Total(cf) = <<C, d>>
       /\ K + L = C

LEMMA TotalsTogether ==
    ASSUME NEW D, IsFiniteSet(D),
           NEW k \in [D -> Nat], NEW c \in [D -> Nat], NEW l \in [D -> Int],
           NEW n \in [D -> Nat \ {0}],
           EachAdds(k, l, c),
           NEW kf, Fractions(kf, k, n),
           NEW lf, Fractions(lf, l, n),
           NEW cf, Fractions(cf, c, n)
    PROVE  TotalsAdd(kf, lf, cf)
<1>0. /\ DOMAIN kf = D /\ \A s \in D : kf[s] = <<k[s], n[s]>>
      /\ DOMAIN cf = D /\ \A s \in D : cf[s] = <<c[s], n[s]>>
      /\ DOMAIN lf = D /\ \A s \in D : lf[s] = <<l[s], n[s]>>
      /\ \A s \in D : k[s] + l[s] = c[s]
  BY DEF Fractions, EachAdds
<1>1. PICK ks : AddsUp(kf, ks) /\ Crown!Total(kf) = ks[D]
  BY <1>0, TotalAddsUp
<1>2. PICK cs : AddsUp(cf, cs) /\ Crown!Total(cf) = cs[D]
  BY <1>0, TotalAddsUp
<1>3. PICK ls : AddsUp(lf, ls) /\ Crown!Total(lf) = ls[D]
  BY <1>0, TotalAddsUp
<1> DEFINE Together(S) ==
             \E K \in Nat, C \in Nat, L \in Int, d \in Nat \ {0} :
                ks[S] = <<K, d>> /\ cs[S] = <<C, d>> /\ ls[S] = <<L, d>> /\ K + L = C
           Missed == {m \in Nat : \E S \in SUBSET D : Cardinality(S) = m /\ ~ Together(S)}
<1>4. \A S \in SUBSET D : S # {} =>
         /\ ks[S] = Crown!Plus(kf[Crown!Any(S)], ks[S \ {Crown!Any(S)}])
         /\ cs[S] = Crown!Plus(cf[Crown!Any(S)], cs[S \ {Crown!Any(S)}])
         /\ ls[S] = Crown!Plus(lf[Crown!Any(S)], ls[S \ {Crown!Any(S)}])
  BY <1>0, <1>1, <1>2, <1>3 DEF AddsUp
<1>5. Together({})
  <2>1. ks[{}] = <<0, 1>> /\ cs[{}] = <<0, 1>> /\ ls[{}] = <<0, 1>>
    BY <1>0, <1>1, <1>2, <1>3 DEF AddsUp
  <2>2. 0 = 0 + 0 /\ 0 \in Nat /\ 0 \in Int /\ 1 \in Nat \ {0}
    OBVIOUS
  <2> QED
    BY <2>1, <2>2
<1>6. Missed = {}
  <2> SUFFICES ASSUME Missed # {} PROVE FALSE
    OBVIOUS
  <2>1. PICK m \in Missed : \A o \in Missed : m <= o
    <3>1. Missed \in SUBSET Nat
      OBVIOUS
    <3> QED
      BY <3>1, LeastNumber
  <2>2. PICK S \in SUBSET D : Cardinality(S) = m /\ ~ Together(S)
    BY <2>1
  <2>3. S # {} /\ IsFiniteSet(S)
    BY <1>5, <2>2, FS_Subset
  <2> DEFINE x == Crown!Any(S)
  <2>4. x \in S /\ x \in D
    BY <2>2, <2>3 DEF Crown!Any
  <2> HIDE DEF x
  <2>5. Cardinality(S \ {x}) \in Nat /\ Cardinality(S \ {x}) = m - 1 /\ S \ {x} \in SUBSET D
    BY <2>2, <2>3, <2>4, FS_RemoveElement, FS_CardinalityType
  <2>6. Together(S \ {x})
    <3>1. Cardinality(S \ {x}) \notin Missed
      <4>1. m \in Nat /\ \A o \in Missed : m <= o
        BY <2>1
      <4> HIDE DEF Missed
      <4> QED
        BY <2>5, <4>1
    <3> QED
      BY <2>5, <3>1
  <2>7. PICK K \in Nat, C \in Nat, L \in Int, d \in Nat \ {0} :
           /\ ks[S \ {x}] = <<K, d>> /\ cs[S \ {x}] = <<C, d>> /\ ls[S \ {x}] = <<L, d>>
           /\ K + L = C
    BY <2>6
  <2>8. kf[x] = <<k[x], n[x]>> /\ cf[x] = <<c[x], n[x]>> /\ lf[x] = <<l[x], n[x]>>
    BY <1>0, <2>4
  <2>9. PICK kx \in Nat, cx \in Nat, lx \in Int, nx \in Nat :
           kx = k[x] /\ cx = c[x] /\ lx = l[x] /\ nx = n[x] /\ nx # 0 /\ kx + lx = cx
    BY <1>0, <2>4
  <2>10. /\ ks[S] = Crown!Plus(<<kx, nx>>, <<K, d>>)
         /\ cs[S] = Crown!Plus(<<cx, nx>>, <<C, d>>)
         /\ ls[S] = Crown!Plus(<<lx, nx>>, <<L, d>>)
    <3>1. kf[x] = <<kx, nx>> /\ cf[x] = <<cx, nx>> /\ lf[x] = <<lx, nx>>
      BY <2>8, <2>9
    <3>2. /\ ks[S \ {x}] = <<K, d>> /\ cs[S \ {x}] = <<C, d>> /\ ls[S \ {x}] = <<L, d>>
      BY <2>7
    <3> QED
      BY <1>4, <2>2, <2>3, <3>1, <3>2 DEF x
  <2>11. /\ ks[S] = <<kx * d + K * nx, nx * d>>
         /\ cs[S] = <<cx * d + C * nx, nx * d>>
         /\ ls[S] = <<lx * d + L * nx, nx * d>>
    BY <2>10 DEF Crown!Plus
  <2>12. /\ kx * d + K * nx \in Nat /\ cx * d + C * nx \in Nat /\ lx * d + L * nx \in Int
         /\ (kx * d + K * nx) + (lx * d + L * nx) = cx * d + C * nx
    <3>1. (kx + lx) * d = kx * d + lx * d /\ (K + L) * nx = K * nx + L * nx
      OBVIOUS
    <3>2. /\ kx * d \in Nat /\ K * nx \in Nat /\ cx * d \in Nat /\ C * nx \in Nat
          /\ lx * d \in Int /\ L * nx \in Int
      OBVIOUS
    <3>3. cx * d = kx * d + lx * d /\ C * nx = K * nx + L * nx
      BY <2>7, <2>9, <3>1
    <3>4. /\ kx * d + K * nx \in Nat /\ cx * d + C * nx \in Nat
          /\ lx * d + L * nx \in Int
      BY ONLY <3>2
    <3>5. \A p, q, r, w \in Int : (p + q) + (r + w) = (p + r) + (q + w)
      OBVIOUS
    <3>6. (kx * d + K * nx) + (lx * d + L * nx) = (kx * d + lx * d) + (K * nx + L * nx)
      BY ONLY <3>2, <3>5
    <3> QED
      BY ONLY <3>3, <3>4, <3>6
  <2>13. nx * d \in Nat \ {0}
    <3>1. nx # 0
      BY <2>9
    <3>2. nx * d # 0
      BY <3>1
    <3> QED
      BY <3>2
  <2>14. Together(S)
    BY <2>11, <2>12, <2>13, Zenon
  <2> QED
    BY <2>2, <2>14
<1>7. Together(D)
  <2>1. Cardinality(D) \in Nat /\ D \in SUBSET D
    BY FS_CardinalityType
  <2> QED
    BY <1>6, <2>1
<1> QED
  BY <1>1, <1>2, <1>3, <1>7 DEF TotalsAdd

(* Of the units a skill counts, those one side won and the other did not. *)
LEMMA WonAlone ==
    ASSUME NEW A, NEW B, IsFiniteSet(A)
    PROVE  Cardinality(A \ B) + Cardinality(A \cap B) = Cardinality(A)
<1> DEFINE x == A \ B
           y == A \cap B
<1>1. x = A \ B /\ y = A \cap B
  OBVIOUS
<1> HIDE DEF x, y
<1>2. IsFiniteSet(y) /\ y \subseteq A
  BY <1>1, FS_Subset
<1>3. Cardinality(x) = Cardinality(A) - Cardinality(y)
  BY <1>1, FS_Difference
<1>4. Cardinality(A) \in Nat /\ Cardinality(y) \in Nat
  BY <1>2, FS_CardinalityType
<1>5. Cardinality(x) + Cardinality(y) = Cardinality(A)
  BY <1>3, <1>4
<1> QED
  BY <1>1, <1>5

LEMMA CountedApart ==
    ASSUME NEW x, NEW y, IsFiniteSet(x), IsFiniteSet(y), x \cap y = {}
    PROVE  Cardinality(x) + Cardinality(y) = Cardinality(x \cup y)
<1>1. Cardinality(x \cup y) = Cardinality(x) + Cardinality(y) - Cardinality(x \cap y)
  BY FS_Union
<1>2. Cardinality(x \cap y) = 0
  BY FS_EmptySet
<1>3. Cardinality(x) \in Nat /\ Cardinality(y) \in Nat
  BY FS_CardinalityType
<1> QED
  BY <1>1, <1>2, <1>3

(* Score.tla counts its units as any module does. *)
LEMMA SameCount == \A S : Crown!Cardinality(S) = Cardinality(S)
BY DEF Crown!Cardinality, Cardinality, Crown!IsFiniteSet, IsFiniteSet

Counting(published, s) == {u \in DOMAIN published : published[u].skill = s /\ ~published[u].void}
WonBy(published, side, s) == {u \in Counting(published, s) : published[u][side] = "yes"}

(* Rows in which a unit that is not void has a success of each side. *)
BothScored(published) ==
    /\ IsFiniteSet(DOMAIN published)
    /\ \A u \in DOMAIN published :
          /\ published[u].void \in BOOLEAN
          /\ ~published[u].void => /\ published[u].king \in {"yes", "no"}
                                   /\ published[u].challenger \in {"yes", "no"}

(* score.py skill_rate: both sides are rated on the units that count. *)
LEMMA RatedOnTheSame ==
    ASSUME NEW published, BothScored(published), NEW s, NEW side \in {"king", "challenger"}
    PROVE  Crown!SkillRate(published, side, s) =
             IF Counting(published, s) = {} THEN Crown!NoRate
             ELSE <<Cardinality(WonBy(published, side, s)), Cardinality(Counting(published, s))>>
<1>1. Crown!Scored(published, side, s) = Counting(published, s)
  BY DEF Crown!Scored, Counting, BothScored
<1>2. Crown!Successes(published, side, s) = WonBy(published, side, s)
  BY <1>1 DEF Crown!Successes, WonBy
<1> QED
  BY <1>1, <1>2, SameCount DEF Crown!SkillRate

(* score.py tally: the challenger's successes are the king's and wins less      *)
(* losses; wins, losses and ties are the units that count.                 *)
LEMMA TalliedTogether ==
    ASSUME NEW published, BothScored(published), NEW s
    PROVE  LET t == Crown!Tally(published, s)
           IN  /\ t.wins - t.losses \in Int
               /\ Cardinality(WonBy(published, "king", s)) + (t.wins - t.losses)
                    = Cardinality(WonBy(published, "challenger", s))
               /\ t.wins + t.losses + t.ties = Cardinality(Counting(published, s))
<1> DEFINE U == Counting(published, s)
           A == WonBy(published, "challenger", s)
           B == WonBy(published, "king", s)
           Of(who) ==
             {u \in DOMAIN published :
                /\ published[u].skill = s /\ ~published[u].void
                /\ Crown!PairedOutcome(published[u].king, published[u].challenger) = who}
<1>1. Of("challenger") = A \ B
  BY DEF BothScored, Counting, WonBy, Crown!PairedOutcome
<1>2. Of("king") = B \ A
  BY DEF BothScored, Counting, WonBy, Crown!PairedOutcome
<1>3. Of("tie") = U \ ((A \ B) \cup (B \ A))
  BY DEF BothScored, Counting, WonBy, Crown!PairedOutcome
<1>4. IsFiniteSet(U) /\ A \in SUBSET U /\ B \in SUBSET U
  <2>1. U \in SUBSET DOMAIN published
    BY DEF Counting
  <2> QED
    BY <2>1, FS_Subset DEF BothScored, WonBy
<1>5. Crown!Tally(published, s) = [wins |-> Cardinality(Of("challenger")),
                                   losses |-> Cardinality(Of("king")),
                                   ties |-> Cardinality(Of("tie"))]
  BY SameCount DEF Crown!Tally
<1> HIDE DEF U, A, B, Of
<1> DEFINE x == A \ B
           y == B \ A
           z == A \cap B
           e == U \ (x \cup y)
           t == Crown!Tally(published, s)
<1>6. t.wins = Cardinality(x) /\ t.losses = Cardinality(y) /\ t.ties = Cardinality(e)
  BY <1>1, <1>2, <1>3, <1>5
<1> HIDE DEF t
<1>7. IsFiniteSet(A) /\ IsFiniteSet(B)
  BY <1>4, FS_Subset
<1>8. IsFiniteSet(x) /\ IsFiniteSet(y) /\ IsFiniteSet(z) /\ IsFiniteSet(e)
  BY <1>4, <1>7, FS_Subset
<1>9. Cardinality(x) + Cardinality(z) = Cardinality(A)
  BY <1>7, WonAlone
<1>10. Cardinality(y) + Cardinality(z) = Cardinality(B)
  <2>1. z = B \cap A
    OBVIOUS
  <2> QED
    BY <1>7, <2>1, WonAlone
<1>11. Cardinality(x) + Cardinality(y) = Cardinality(x \cup y)
  BY <1>8, CountedApart
<1>12. Cardinality(x \cup y) + Cardinality(e) = Cardinality(U)
  <2>1. IsFiniteSet(x \cup y) /\ (x \cup y) \cap e = {} /\ (x \cup y) \cup e = U
    BY <1>4, FS_Subset
  <2> HIDE DEF e, x, y
  <2> QED
    BY <1>8, <2>1, CountedApart
<1>13. /\ Cardinality(x) \in Nat /\ Cardinality(y) \in Nat /\ Cardinality(z) \in Nat
       /\ Cardinality(e) \in Nat
  BY <1>8, FS_CardinalityType
<1> HIDE DEF x, y, z, e
<1>14. /\ t.wins - t.losses \in Int
       /\ Cardinality(B) + (t.wins - t.losses) = Cardinality(A)
  BY <1>6, <1>9, <1>10, <1>13
<1>15. t.wins + t.losses + t.ties = Cardinality(U)
  BY <1>6, <1>11, <1>12, <1>13
<1> QED
  BY <1>14, <1>15 DEF t, U, A, B

(* A margin over two means of one denominator, the code's way and by pairs. *)
LEMMA MarginTogether ==
    ASSUME NEW K \in Nat, NEW C \in Nat, NEW L \in Int, K + L = C,
           NEW q \in Nat, q # 0, NEW margin \in Nat
    PROVE  C * (q * 100) >= (K * 100 + margin * q) * q <=> 100 * L >= margin * q
<1>1. C * (q * 100) = (K * 100) * q + (100 * L) * q
  OBVIOUS
<1>2. (K * 100 + margin * q) * q = (K * 100) * q + (margin * q) * q
  OBVIOUS
<1>3. \A x, y \in Int : x >= y <=> x * q >= y * q
  <2> SUFFICES ASSUME NEW x \in Int, NEW y \in Int PROVE x >= y <=> x * q >= y * q
    OBVIOUS
  <2>1. x >= y => x * q >= y * q
    OBVIOUS
  <2>2. y > x => y * q > x * q
    OBVIOUS
  <2> QED
    BY <2>1, <2>2
<1>4. /\ 100 * L \in Int /\ margin * q \in Int
      /\ (K * 100) * q \in Int /\ (100 * L) * q \in Int /\ (margin * q) * q \in Int
  OBVIOUS
<1>5. C * (q * 100) >= (K * 100 + margin * q) * q <=> (100 * L) * q >= (margin * q) * q
  BY <1>1, <1>2, <1>4
<1> QED
  BY <1>3, <1>4, <1>5

(* score.py verdict, for rows that are scored for both sides or for neither:    *)
(* the crown decided by each side's own rates is the paired outcomes'.          *)
LEMMA CrownTogether ==
    ASSUME NEW published, BothScored(published), DOMAIN published = Units,
           NEW margin \in Nat,
           NEW counted, IsFiniteSet(counted),
           counted = {s \in Skills : \E u \in Units : published[u].skill = s /\ ~published[u].void}
    PROVE  Crown!Dethroned(published, margin, Skills) <=> MarginMet(published, margin)
<1> DEFINE n == [s \in counted |-> Cardinality(Counting(published, s))]
           k == [s \in counted |-> Cardinality(WonBy(published, "king", s))]
           c == [s \in counted |-> Cardinality(WonBy(published, "challenger", s))]
<1>1. \A s \in Skills : Counting(published, s) # {} <=> s \in counted
  BY DEF Counting
<1>2. \A s : IsFiniteSet(Counting(published, s)) /\ Cardinality(Counting(published, s)) \in Nat
  <2>1. \A s : Counting(published, s) \in SUBSET DOMAIN published
    BY DEF Counting
  <2> QED
    BY <2>1, FS_Subset, FS_CardinalityType DEF BothScored
<1>3. k \in [counted -> Nat] /\ c \in [counted -> Nat] /\ n \in [counted -> Nat \ {0}]
  <2>1. \A s, side : Cardinality(WonBy(published, side, s)) \in Nat
    BY <1>2, FS_Subset, FS_CardinalityType DEF WonBy
  <2>2. \A s \in counted : Cardinality(Counting(published, s)) # 0
    BY <1>1, <1>2, FS_EmptySet
  <2> QED
    BY <1>2, <2>1, <2>2
<1>4. \A side \in {"king", "challenger"}, s \in Skills :
         Crown!SkillRate(published, side, s) =
            IF s \in counted
            THEN <<Cardinality(WonBy(published, side, s)), Cardinality(Counting(published, s))>>
            ELSE Crown!NoRate
  BY <1>1, RatedOnTheSame
<1>5. \A side \in {"king", "challenger"} : Crown!Rated(published, side, Skills) = counted
  <2>1. \A s \in counted : Cardinality(Counting(published, s)) # 0
    BY <1>3
  <2> QED
    BY <1>4, <2>1 DEF Crown!Rated, Crown!NoRate
<1>6. /\ Crown!SumOfRates(published, "king", counted)
           = Crown!Total([s \in counted |-> <<k[s], n[s]>>])
      /\ Crown!SumOfRates(published, "challenger", counted)
           = Crown!Total([s \in counted |-> <<c[s], n[s]>>])
  <2>1. [s \in counted |-> Crown!SkillRate(published, "king", s)]
          = [s \in counted |-> <<k[s], n[s]>>]
    BY <1>4
  <2>2. [s \in counted |-> Crown!SkillRate(published, "challenger", s)]
          = [s \in counted |-> <<c[s], n[s]>>]
    BY <1>4
  <2> QED
    BY <2>1, <2>2 DEF Crown!SumOfRates
<1> DEFINE l == [s \in counted |-> LET t == Crown!Tally(published, s) IN t.wins - t.losses]
           lead(s) == LET t == Crown!Tally(published, s)
                      IN  <<t.wins - t.losses, t.wins + t.losses + t.ties>>
<1>7. /\ l \in [counted -> Int] /\ \A s \in counted : k[s] + l[s] = c[s]
      /\ [s \in counted |-> lead(s)] = [s \in counted |-> <<l[s], n[s]>>]
  BY TalliedTogether
<1>8. PICK K \in Nat, C \in Nat, L \in Int, d \in Nat \ {0} :
         /\ Crown!Total([s \in counted |-> <<k[s], n[s]>>]) = <<K, d>>
         /\ Crown!Total([s \in counted |-> <<c[s], n[s]>>]) = <<C, d>>
         /\ Crown!Total([s \in counted |-> <<l[s], n[s]>>]) = <<L, d>>
         /\ K + L = C
  <2> DEFINE kf == [s \in counted |-> <<k[s], n[s]>>]
             cf == [s \in counted |-> <<c[s], n[s]>>]
             lf == [s \in counted |-> <<l[s], n[s]>>]
  <2> HIDE DEF k, c, n, l
  <2>1. Fractions(kf, k, n) /\ Fractions(cf, c, n) /\ Fractions(lf, l, n)
    BY <1>3 DEF Fractions
  <2>2. EachAdds(k, l, c)
    BY <1>3, <1>7 DEF EachAdds
  <2> HIDE DEF kf, cf, lf
  <2>3. TotalsAdd(kf, lf, cf)
    BY <1>3, <1>7, <2>1, <2>2, TotalsTogether
  <2> QED
    BY <2>3 DEF kf, cf, lf, TotalsAdd
<1> DEFINE m == Cardinality(counted)
<1>9. MarginMet(published, margin) <=> counted # {} /\ 100 * L >= margin * m * d
  <2>1. Crown!Total([s \in counted |-> lead(s)]) = <<L, d>>
    BY <1>7, <1>8
  <2> DEFINE total == Crown!Total([s \in counted |-> lead(s)])
  <2>2. MarginMet(published, margin) <=>
          counted # {} /\ 100 * total[1] >= margin * m * total[2]
    BY DEF MarginMet
  <2> HIDE DEF total
  <2> QED
    BY <2>1, <2>2 DEF total
<1> HIDE DEF k, c, n, l, lead
<1>10. CASE counted = {}
  <2>1. Crown!Average(published, "king", Skills) = Crown!NoRate
    BY <1>5, <1>10 DEF Crown!Average
  <2> QED
    BY <1>9, <1>10, <2>1 DEF Crown!Dethroned, Crown!CrownMoves
<1>11. CASE counted # {}
  <2>1. m \in Nat /\ m # 0
    BY <1>11, FS_EmptySet, FS_CardinalityType
  <2> HIDE DEF m
  <2>2. PICK q \in Nat : q = d * m /\ q # 0
    BY <2>1
  <2>3. /\ Crown!Average(published, "king", Skills) = <<K, q>>
        /\ Crown!Average(published, "challenger", Skills) = <<C, q>>
    <3>1. \A side \in {"king", "challenger"} :
             Crown!Average(published, side, Skills)
               = Crown!MeanOver(Crown!SumOfRates(published, side, counted), m)
      BY <1>5, <1>11, SameCount DEF Crown!Average, m
    <3>2. /\ Crown!SumOfRates(published, "king", counted) = <<K, d>>
          /\ Crown!SumOfRates(published, "challenger", counted) = <<C, d>>
      BY <1>6, <1>8
    <3>3. Crown!MeanOver(<<K, d>>, m) = <<K, q>> /\ Crown!MeanOver(<<C, d>>, m) = <<C, q>>
      BY <2>2 DEF Crown!MeanOver
    <3> QED
      BY <3>1, <3>2, <3>3
  <2>4. <<K, q>> # Crown!NoRate /\ <<C, q>> # Crown!NoRate
    BY <2>2 DEF Crown!NoRate
  <2>5. Crown!Dethroned(published, margin, Skills)
          <=> C * (q * 100) >= (K * 100 + margin * q) * q
    BY <2>3, <2>4 DEF Crown!Dethroned, Crown!CrownMoves, Crown!AtLeast, Crown!Plus
  <2>6. C * (q * 100) >= (K * 100 + margin * q) * q <=> 100 * L >= margin * q
    BY <1>8, <2>2, MarginTogether
  <2>7. margin * m * d = margin * q
    BY <2>1, <2>2
  <2> QED
    BY <1>9, <1>11, <2>5, <2>6, <2>7
<1> QED
  BY <1>10, <1>11

-----------------------------------------------------------------------------
(* score.py, "a side that could not be scored on a unit must not let the other  *)
(* side be scored on it alone": for any units, skills, margins and outcomes, the *)
(* crown that each side's rates and their mean decide is the one the paired     *)
(* outcomes give, since a unit that counts, counts for both sides.              *)
THEOREM CrownIsThePairs == Spec => []CrownByPairs
<1>1. UnitsInv /\ CountsForBoth => CrownByPairs
  <2> SUFFICES ASSUME UnitsInv, CountsForBoth, Published, "king" \in Players,
                      NEW skill \in SkillMaps,
                      NEW won \in SUBSET {p \in Units \X Players : MayWin(p[1], p[2])},
                      NEW margin \in Margins
               PROVE  Crown!Dethroned(PublishedRows(skill, won), margin, Skills)
                        <=> MarginMet(PublishedRows(skill, won), margin)
    BY DEF CrownByPairs
  <2>1. {"king", "challenger"} \subseteq Players
    BY UnitsAssumption DEF Players
  <2>2. PICK published : published = PublishedRows(skill, won)
    OBVIOUS
  <2>3. /\ DOMAIN published = Units
        /\ \A u \in Units :
              /\ published[u].skill = skill[u] /\ published[u].void = rows[u].void
              /\ published[u].king = Success(u, "king", won)
              /\ published[u].challenger = Success(u, "challenger", won)
    BY <2>2 DEF PublishedRows
  <2>4. IsFiniteSet(Units)
    BY UnitsAssumption, FS_Interval DEF Units
  <2>5. BothScored(published)
    <3> SUFFICES ASSUME NEW u \in Units
                 PROVE  /\ rows[u].void \in BOOLEAN
                        /\ ~rows[u].void => /\ Success(u, "king", won) \in {"yes", "no"}
                                            /\ Success(u, "challenger", won) \in {"yes", "no"}
      BY <2>3, <2>4 DEF BothScored
    <3>1. rows[u].void \in BOOLEAN
      BY TypeParts DEF UnitsInv, KnownTypeOK, RowTypes
    <3>2. ASSUME ~rows[u].void
          PROVE  \A s \in {"king", "challenger"} : Success(u, s, won) \in {"yes", "no"}
      <4>1. \A s \in {"king", "challenger"} : rows[u].result[s].kind \in {"scored", "failed"}
        BY <2>1, <3>2 DEF CountsForBoth, Scored
      <4> QED
        BY <3>2, <4>1 DEF Success
    <3> QED
      BY <3>1, <3>2
  <2> DEFINE counted ==
               {s \in Skills : \E u \in Units : published[u].skill = s /\ ~published[u].void}
  <2>6. IsFiniteSet(counted)
    <3>1. skill \in [Units -> Skills]
      BY VerdictAssumption
    <3>2. IsFiniteSet({skill[u] : u \in Units})
      <4> DEFINE used == {skill[u] : u \in Units}
      <4>1. skill \in Surjection(Units, used)
        BY <3>1 DEF Surjection
      <4> QED
        BY <2>4, <4>1, FS_Surjection
    <3>3. counted \subseteq {skill[u] : u \in Units}
      BY <2>3
    <3> QED
      BY <3>2, <3>3, FS_Subset
  <2>7. margin \in Nat
    BY VerdictAssumption
  <2> HIDE DEF counted
  <2>8. Crown!Dethroned(published, margin, Skills) <=> MarginMet(published, margin)
    BY <2>3, <2>5, <2>6, <2>7, CrownTogether DEF counted
  <2> QED
    BY <2>2, <2>8
<1> QED
  BY <1>1, UnitsInvariance, CountedForBoth, PTL

=============================================================================
