---------------------------- MODULE StoreVerify ----------------------------
(***************************************************************************)
(* store/verify.py: what a reader's check of a store reports, as a set of  *)
(* errors over the writer's state.  Signatures, hashes and schemas hold of *)
(* what the writer wrote whole; a line that is torn has lost its signature *)
(* or its newline, and an event file matches its record when it still says *)
(* what the record was made from.  The manifest, media and the snapshot    *)
(* are not of the writer's model.                                          *)
(***************************************************************************)
EXTENDS ResultStore

(* The lines that are checked: a line whose body is cut is an error and no     *)
(* record.  A line with no tab has no signature and is no record either; one   *)
(* cut inside the signature is a record with a bad one.                        *)
CheckedLines(signed) ==
    IF tail.cut = "newline" \/ (tail.cut = "signature" /\ signed)
    THEN Append(index, tail.record)
    ELSE index

LineErrors(lines) ==
    {e \in {"no newline", "bad line", "seq", "event"} :
        CASE e = "no newline" -> tail # NoTail
          [] e = "bad line" -> tail.cut \in {"body", "signature"}
          [] e = "seq" -> \E i \in DOMAIN lines :
                lines[i].seq # (IF i = 1 THEN 1 ELSE lines[i - 1].seq + 1)
          [] OTHER -> \E i \in DOMAIN lines :
                [event |-> lines[i].event, dethroned |-> lines[i].dethroned] \notin events}

(* Slip: the king the last record's duel was asked against. *)
HeadErrorsOfDuel(lines) ==
    {e \in {"head", "king"} :
        /\ lines # <<>>
        /\ CASE e = "head" -> head.seq # lines[Len(lines)].seq
             [] OTHER -> head.king # lines[Len(lines)].event.king}

(* head.json is rebuilt from the records, by the king_after its writer used, and *)
(* compared.                                                                    *)
HeadErrors(lines) ==
    {e \in {"head", "king"} :
        CASE e = "head" -> IF lines = <<>> THEN head.seq # 0
                           ELSE \/ head.seq # lines[Len(lines)].seq
                                \/ head.event # lines[Len(lines)].event
          [] OTHER -> head.king # Holder(lines)}

VerifyErrors(signed) == LineErrors(CheckedLines(signed)) \cup HeadErrors(CheckedLines(signed))

(* Nobody is appending, no line is torn, and the head is of the last line. *)
AtRest ==
    /\ appending = Unlocked
    /\ tail = NoTail
    /\ head = IF index = <<>> THEN EmptyHead ELSE HeadOf(index[Len(index)])

-----------------------------------------------------------------------------
(* cli.py, store verify ("check signatures, sequence, events, media, schema"): *)
(* whatever kills, torn lines and repairs came before, a store that is healed   *)
(* verifies, and one that is not is reported: a writer's history never makes    *)
(* the check cry wolf, or pass over a head that names the wrong king.           *)
VerifiesAtRest ==
    appending = Unlocked =>
       \A signed \in BOOLEAN : VerifyErrors(signed) = {} <=> AtRest
=============================================================================
