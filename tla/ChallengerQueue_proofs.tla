----------------------- MODULE ChallengerQueue_proofs -----------------------
(***************************************************************************)
(* The queue file, for any submissions, sizes and blocks: its shape, that  *)
(* no submission ever waits twice, and that none is overtaken but by a     *)
(* stale duel's entry.                                                     *)
(***************************************************************************)
EXTENDS ChallengerQueue, TLAPS

QueueInv == QueueTypeOK /\ UniqueKeys

(* What a concatenation holds. *)
LEMMA Concatenation ==
    ASSUME NEW S, NEW a \in Seq(S), NEW b \in Seq(S)
    PROVE  /\ a \o b \in Seq(S)
           /\ Len(a \o b) = Len(a) + Len(b)
           /\ \A i \in 1 .. Len(a) + Len(b) :
                 (a \o b)[i] = IF i <= Len(a) THEN a[i] ELSE b[i - Len(a)]
  OBVIOUS

(* The queue without a key that waits: every entry but one, in their order. *)
LEMMA WithoutPlaces ==
    ASSUME QueueInv, NEW k \in Submissions, Waiting(k)
    PROVE  \E p \in DOMAIN entries :
              /\ entries[p].key = k
              /\ Without(k) \in Seq(Entries)
              /\ Len(Without(k)) = Len(entries) - 1
              /\ \A i \in DOMAIN Without(k) :
                    Without(k)[i] = entries[IF i < p THEN i ELSE i + 1]
<1>0. entries \in Seq(Entries)
  BY DEF QueueInv, QueueTypeOK
<1> DEFINE p == PlaceOf(k)
           n == Len(entries)
           w == SubSeq(entries, 1, p - 1) \o SubSeq(entries, p + 1, n)
<1>1. p \in 1 .. n /\ entries[p].key = k
  BY <1>0 DEF Waiting, PlaceOf
<1>2. Without(k) = w
  BY DEF Without
<1> HIDE DEF p
<1>3. /\ SubSeq(entries, 1, p - 1) \in Seq(Entries)
      /\ SubSeq(entries, p + 1, n) \in Seq(Entries)
      /\ Len(SubSeq(entries, 1, p - 1)) = p - 1
      /\ Len(SubSeq(entries, p + 1, n)) = n - p
  BY <1>0, <1>1
<1>a. /\ \A i \in 1 .. p - 1 : SubSeq(entries, 1, p - 1)[i] = entries[i]
      /\ \A i \in 1 .. n - p : SubSeq(entries, p + 1, n)[i] = entries[p + i]
  BY <1>0, <1>1
<1>c. /\ w \in Seq(Entries)
      /\ Len(w) = (p - 1) + (n - p)
      /\ \A i \in 1 .. (p - 1) + (n - p) :
            w[i] = IF i <= p - 1 THEN SubSeq(entries, 1, p - 1)[i]
                                 ELSE SubSeq(entries, p + 1, n)[i - (p - 1)]
  BY <1>3, Concatenation
<1>d. n \in Nat /\ p \in Nat /\ p >= 1 /\ p <= n
  BY <1>0, <1>1
<1> HIDE DEF w, n
<1>4. w \in Seq(Entries) /\ Len(w) = n - 1
  BY <1>c, <1>d
<1>5. \A i \in 1 .. n - 1 : w[i] = entries[IF i < p THEN i ELSE i + 1]
  <2> SUFFICES ASSUME NEW i \in 1 .. n - 1
               PROVE  w[i] = entries[IF i < p THEN i ELSE i + 1]
    OBVIOUS
  <2>1. CASE i < p
    BY <1>a, <1>c, <1>d, <2>1
  <2>2. CASE i >= p
    <3>1. i - (p - 1) \in 1 .. n - p /\ p + (i - (p - 1)) = i + 1
      BY <1>d, <2>2
    <3>2. w[i] = SubSeq(entries, p + 1, n)[i - (p - 1)]
      BY <1>c, <1>d, <2>2
    <3> QED
      BY <1>a, <1>d, <2>2, <3>1, <3>2
  <2> QED
    BY <1>d, <2>1, <2>2
<1>6. DOMAIN w = 1 .. n - 1
  BY <1>4, <1>d
<1>7. p \in DOMAIN entries /\ n = Len(entries)
  BY <1>0, <1>1 DEF n
<1> QED
  BY <1>1, <1>2, <1>4, <1>5, <1>6, <1>7

(* Dropping a key from the queue leaves a queue, of the other keys, once each. *)
LEMMA WithoutKeeps ==
    ASSUME QueueInv, NEW k \in Submissions
    PROVE  /\ Without(k) \in Seq(Entries)
           /\ \A i \in DOMAIN Without(k) : Without(k)[i].key # k
           /\ \A i, j \in DOMAIN Without(k) : Without(k)[i].key = Without(k)[j].key => i = j
<1>1. entries \in Seq(Entries)
  BY DEF QueueInv, QueueTypeOK
<1>2. CASE ~Waiting(k)
  BY <1>1, <1>2 DEF Without, Waiting, QueueInv, UniqueKeys
<1>3. CASE Waiting(k)
  <2> DEFINE w == Without(k)
             n == Len(entries)
  <2>1. PICK p \in DOMAIN entries :
           /\ entries[p].key = k
           /\ w \in Seq(Entries)
           /\ Len(w) = n - 1
           /\ \A i \in DOMAIN w : w[i] = entries[IF i < p THEN i ELSE i + 1]
    BY <1>3, WithoutPlaces
  <2> HIDE DEF w
  <2>2. n \in Nat /\ DOMAIN entries = 1 .. n /\ p \in 1 .. n /\ DOMAIN w = 1 .. n - 1
    BY <1>1, <2>1
  <2> HIDE DEF n
  <2>3. \A i \in DOMAIN w : (IF i < p THEN i ELSE i + 1) \in DOMAIN entries \ {p}
    BY <2>2
  <2>4. \A i, j \in DOMAIN entries : entries[i].key = entries[j].key => i = j
    BY DEF QueueInv, UniqueKeys
  <2>5. \A i \in DOMAIN w : w[i].key # k
    BY <2>1, <2>3, <2>4
  <2>6. \A i, j \in DOMAIN w : w[i].key = w[j].key => i = j
    BY <2>1, <2>2, <2>3, <2>4
  <2> QED
    BY <2>1, <2>5, <2>6 DEF w
<1> QED
  BY <1>2, <1>3

(* An entry behind a queue that does not hold its key. *)
LEMMA OneBehind ==
    ASSUME NEW q \in Seq(Entries), NEW e \in Entries,
           \A i \in DOMAIN q : q[i].key # e.key,
           \A i, j \in DOMAIN q : q[i].key = q[j].key => i = j
    PROVE  /\ Append(q, e) \in Seq(Entries)
           /\ \A i, j \in DOMAIN Append(q, e) : Append(q, e)[i].key = Append(q, e)[j].key => i = j
<1>1. \A i \in DOMAIN Append(q, e) :
         \/ i \in DOMAIN q /\ Append(q, e)[i] = q[i]
         \/ i = Len(q) + 1 /\ Append(q, e)[i] = e
  OBVIOUS
<1> QED
  BY <1>1

(* An entry in front of a queue that does not hold its key. *)
LEMMA OneInFront ==
    ASSUME NEW q \in Seq(Entries), NEW e \in Entries,
           \A i \in DOMAIN q : q[i].key # e.key,
           \A i, j \in DOMAIN q : q[i].key = q[j].key => i = j
    PROVE  /\ <<e>> \o q \in Seq(Entries)
           /\ \A i, j \in DOMAIN (<<e>> \o q) :
                 (<<e>> \o q)[i].key = (<<e>> \o q)[j].key => i = j
<1> DEFINE f == <<e>>
<1>1. f \in Seq(Entries) /\ Len(f) = 1 /\ f[1] = e
  OBVIOUS
<1> HIDE DEF f
<1> DEFINE g == f \o q
<1>2. /\ f \o q \in Seq(Entries)
      /\ Len(f \o q) = Len(f) + Len(q)
      /\ \A i \in 1 .. Len(f) + Len(q) :
            (f \o q)[i] = IF i <= Len(f) THEN f[i] ELSE q[i - Len(f)]
  BY <1>1, Concatenation
<1> HIDE DEF g
<1>3. /\ g \in Seq(Entries)
      /\ Len(g) = 1 + Len(q)
      /\ \A i \in 1 .. 1 + Len(q) : g[i] = IF i <= 1 THEN f[i] ELSE q[i - 1]
  BY <1>1, <1>2 DEF g
<1>4. DOMAIN g = 1 .. 1 + Len(q) /\ Len(q) \in Nat /\ DOMAIN q = 1 .. Len(q)
  BY <1>3
<1>5. \A i \in DOMAIN g : \/ i = 1 /\ g[i] = e
                          \/ i - 1 \in DOMAIN q /\ i \in Nat /\ g[i] = q[i - 1]
  BY <1>1, <1>3, <1>4
<1>6. \A i, j \in DOMAIN g : g[i].key = g[j].key => i = j
  <2> SUFFICES ASSUME NEW i \in DOMAIN g, NEW j \in DOMAIN g, g[i].key = g[j].key
               PROVE  i = j
    OBVIOUS
  <2>1. (i = 1 /\ g[i] = e) \/ (i - 1 \in DOMAIN q /\ i \in Nat /\ g[i] = q[i - 1])
    BY <1>5
  <2>2. (j = 1 /\ g[j] = e) \/ (j - 1 \in DOMAIN q /\ j \in Nat /\ g[j] = q[j - 1])
    BY <1>5
  <2>3. CASE i = 1
    BY <2>1, <2>2, <2>3, <1>4
  <2>4. CASE j = 1
    BY <2>1, <2>2, <2>4, <1>4
  <2>5. CASE i # 1 /\ j # 1
    BY <2>1, <2>2, <2>5
  <2> QED
    BY <2>3, <2>4, <2>5
<1> QED
  BY <1>3, <1>6 DEF f, g

(* The first entry of a waiting key, and the entry a put-back queues, are entries. *)
LEMMA Waits ==
    ASSUME QueueInv, NEW k \in Submissions, Waiting(k)
    PROVE  EntryOf(k) \in Entries
  BY DEF QueueInv, QueueTypeOK, Waiting, EntryOf, PlaceOf

LEMMA QueueInitInv == QueueInit => QueueInv
  BY DEF QueueInit, QueueInv, QueueTypeOK, UniqueKeys

(* One step per operation of the queue. *)
LEMMA QueueStepInv ==
    ASSUME QueueInv, [QueueNext(EventIds, Nat)]_queueVars
    PROVE  QueueInv'
<1>0. QueueTypeOK /\ UniqueKeys /\ entries \in Seq(Entries)
  BY DEF QueueInv, QueueTypeOK
<1>1. ASSUME NEW k \in Submissions, NEW z \in Sizes, Add(k, z)
      PROVE  QueueInv'
  <2>1. [key |-> k, size |-> z] \in Entries
    BY DEF Entries
  <2>2. entries' = Append(Without(k), [key |-> k, size |-> z])
    BY <1>1 DEF Add
  <2>3. /\ entries' \in Seq(Entries)
        /\ \A i, j \in DOMAIN entries' : entries'[i].key = entries'[j].key => i = j
    BY <2>1, <2>2, WithoutKeeps, OneBehind
  <2> QED
    BY <1>0, <1>1, <2>3 DEF Add, QueueInv, QueueTypeOK, UniqueKeys
<1>2. ASSUME NEW k \in Submissions, NEW z \in Sizes, Offer(k, z)
      PROVE  QueueInv'
  <2>1. [key |-> k, size |-> z] \in Entries
    BY DEF Entries
  <2>2. /\ entries' \in Seq(Entries)
        /\ \A i, j \in DOMAIN entries' : entries'[i].key = entries'[j].key => i = j
    <3>1. CASE Waiting(k)
      BY <1>0, <1>2, <3>1 DEF Offer, UniqueKeys
    <3>2. CASE ~Waiting(k)
      <4>1. /\ \A i \in DOMAIN entries : entries[i].key # k
            /\ \A i, j \in DOMAIN entries : entries[i].key = entries[j].key => i = j
            /\ entries' = Append(entries, [key |-> k, size |-> z])
        BY <1>0, <1>2, <3>2 DEF Offer, Waiting, UniqueKeys
      <4> QED
        BY <1>0, <2>1, <4>1, OneBehind
    <3> QED
      BY <3>1, <3>2
  <2> QED
    BY <1>0, <1>2, <2>2 DEF Offer, QueueInv, QueueTypeOK, UniqueKeys
<1>3. ASSUME NEW k \in Submissions, Remove(k) \/ TakeGone(k)
      PROVE  QueueInv'
  <2>1. CASE Remove(k)
    BY <1>0, <2>1, WithoutKeeps DEF Remove, QueueInv, QueueTypeOK, UniqueKeys
  <2>2. CASE TakeGone(k)
    BY <1>0, <2>2 DEF TakeGone, queueVars, QueueInv, QueueTypeOK, UniqueKeys
  <2> QED
    BY <1>3, <2>1, <2>2
<1>4. ASSUME Pop
      PROVE  QueueInv'
  <2>1. CASE entries = <<>>
    BY <1>0, <1>4, <2>1 DEF Pop, QueueInv, QueueTypeOK, UniqueKeys
  <2>2. CASE entries # <<>>
    <3>1. /\ Tail(entries) \in Seq(Entries)
          /\ \A i \in DOMAIN Tail(entries) : /\ i + 1 \in DOMAIN entries /\ i \in Nat
                                             /\ Tail(entries)[i] = entries[i + 1]
      BY <1>0, <2>2
    <3>2. entries' = Tail(entries)
      BY <1>4, <2>2 DEF Pop
    <3>3. UniqueKeys'
      BY <1>0, <3>1, <3>2 DEF UniqueKeys
    <3> QED
      BY <1>0, <1>4, <3>1, <3>2, <3>3 DEF Pop, QueueInv, QueueTypeOK
  <2> QED
    BY <2>1, <2>2
<1>5. ASSUME NEW event \in EventIds, Take(event.challenger, event)
      PROVE  QueueInv'
  <2>1. event.challenger \in Submissions /\ event.block \in Nat
    BY DEF EventIds
  <2>2. Waiting(event.challenger) /\ EntryOf(event.challenger) \in Entries
    BY <1>5, <2>1, Waits DEF Take
  <2>3. inProgress' \in InProgress
    BY <1>5, <2>2 DEF Take, InProgress
  <2>4. block' \in Nat
    BY <1>0, <1>5, <2>1 DEF Take, Max2, QueueTypeOK
  <2> QED
    BY <1>5, <2>1, <2>3, <2>4, WithoutKeeps DEF Take, QueueInv, QueueTypeOK, UniqueKeys
<1>6. ASSUME NEW event \in EventIds, Start(event)
      PROVE  QueueInv'
  BY <1>0, <1>6 DEF Start, InProgress, QueueInv, QueueTypeOK, UniqueKeys
<1>7. ASSUME NEW fallback \in Entries \cup {None}, PutBack(fallback)
      PROVE  QueueInv'
  <2> DEFINE entry == PutBackEntry(fallback)
  <2>1. entry \in Entries \cup {None}
    BY <1>0 DEF PutBackEntry, QueueTypeOK, InProgress
  <2>2. /\ entries' = IF entry = None THEN entries ELSE <<entry>> \o Without(entry.key)
        /\ inProgress' = None
        /\ UNCHANGED block
    BY <1>7 DEF PutBack
  <2> HIDE DEF entry
  <2>3. /\ entries' \in Seq(Entries)
        /\ \A i, j \in DOMAIN entries' : entries'[i].key = entries'[j].key => i = j
    <3>1. CASE entry = None
      BY <1>0, <2>2, <3>1 DEF UniqueKeys
    <3>2. CASE entry # None
      <4>1. entry \in Entries /\ entry.key \in Submissions
        BY <2>1, <3>2 DEF Entries
      <4>2. entries' = <<entry>> \o Without(entry.key)
        BY <2>2, <3>2
      <4> QED
        BY <4>1, <4>2, WithoutKeeps, OneInFront
    <3> QED
      BY <3>1, <3>2
  <2> QED
    BY <1>0, <2>2, <2>3 DEF QueueInv, QueueTypeOK, UniqueKeys
<1>8. ASSUME Finish
      PROVE  QueueInv'
  BY <1>0, <1>8 DEF Finish, QueueInv, QueueTypeOK, UniqueKeys
<1>9. ASSUME NEW b \in Nat, ClaimBlock(b) \/ SetBlock(b)
      PROVE  QueueInv'
  BY <1>0, <1>9 DEF ClaimBlock, ClaimedBlock, SetBlock, Max2, QueueInv, QueueTypeOK, UniqueKeys
<1>10. CASE UNCHANGED queueVars
  BY <1>0, <1>10 DEF queueVars, QueueInv, QueueTypeOK, UniqueKeys
<1> QED
  BY <1>1, <1>2, <1>3, <1>4, <1>5, <1>6, <1>7, <1>8, <1>9, <1>10 DEF QueueNext, AdvanceBlock

THEOREM QueueInvariance == QueueSpec => []QueueInv
<1>1. QueueInit => QueueInv
  BY QueueInitInv
<1>2. QueueInv /\ [QueueNext(EventIds, Nat)]_queueVars => QueueInv'
  BY QueueStepInv
<1> QED
  BY <1>1, <1>2, PTL DEF QueueSpec

(* queue.py: the file is a list of entries, at most one duel in progress and a  *)
(* block, whatever sequence of operations its users run.                        *)
THEOREM QueueTypeCorrect == QueueSpec => []QueueTypeOK
<1>1. QueueInv => QueueTypeOK
  BY DEF QueueInv
<1> QED
  BY <1>1, QueueInvariance, PTL

(* queue.py add, offer and put_back: a submission never waits twice, however    *)
(* adds, takes and put-backs of it interleave.                                  *)
THEOREM OneEntryPerKey == QueueSpec => []UniqueKeys
<1>1. QueueInv => UniqueKeys
  BY DEF QueueInv
<1> QED
  BY <1>1, QueueInvariance, PTL

-----------------------------------------------------------------------------
(* A queue whose entries are another's, in its order, has nobody more ahead. *)
LEMMA SameOrder ==
    ASSUME NEW q, NEW r, NEW k,
           \A a, b \in DOMAIN q : a < b =>
              \E c, d \in DOMAIN r : c < d /\ r[c].key = q[a].key /\ r[d].key = q[b].key
    PROVE  Ahead(q, k) \subseteq Ahead(r, k)
<1> SUFFICES ASSUME NEW key \in Ahead(q, k)
             PROVE  key \in Ahead(r, k)
  OBVIOUS
<1>1. PICK a \in DOMAIN q : key = q[a].key /\ \E b \in DOMAIN q : a < b /\ q[b].key = k
  BY DEF Ahead
<1>2. PICK b \in DOMAIN q : a < b /\ q[b].key = k
  BY <1>1
<1>3. PICK c \in DOMAIN r : \E d \in DOMAIN r : c < d /\ r[c].key = q[a].key /\ r[d].key = q[b].key
  BY <1>2
<1> QED
  BY <1>1, <1>2, <1>3 DEF Ahead

(* Nobody comes ahead of anyone when an entry leaves... *)
LEMMA WithoutOrder ==
    ASSUME QueueInv, NEW k \in Submissions, NEW x
    PROVE  Ahead(Without(k), x) \subseteq Ahead(entries, x)
<1>1. entries \in Seq(Entries)
  BY DEF QueueInv, QueueTypeOK
<1>2. CASE ~Waiting(k)
  BY <1>2 DEF Without
<1>3. CASE Waiting(k)
  <2> DEFINE w == Without(k)
             At(p, i) == IF i < p THEN i ELSE i + 1
  <2>1. PICK p \in DOMAIN entries :
           /\ w \in Seq(Entries)
           /\ Len(w) = Len(entries) - 1
           /\ \A i \in DOMAIN w : w[i] = entries[At(p, i)]
    BY <1>3, WithoutPlaces
  <2> HIDE DEF w
  <2>2. \A i \in DOMAIN w : At(p, i) \in DOMAIN entries
    BY <1>1, <2>1
  <2>3. \A a, b \in DOMAIN w : a < b => At(p, a) < At(p, b)
    BY <1>1, <2>1
  <2> HIDE DEF At
  <2>4. \A a, b \in DOMAIN w : a < b =>
           \E c, d \in DOMAIN entries :
              c < d /\ entries[c].key = w[a].key /\ entries[d].key = w[b].key
    BY <2>1, <2>2, <2>3
  <2> QED
    BY <2>4, SameOrder DEF w
<1> QED
  BY <1>2, <1>3

(* ...or comes behind... *)
LEMMA BehindOrder ==
    ASSUME NEW q \in Seq(Entries), NEW e \in Entries, NEW x, x # e.key
    PROVE  Ahead(Append(q, e), x) \subseteq Ahead(q, x)
<1> SUFFICES ASSUME NEW key \in Ahead(Append(q, e), x)
             PROVE  key \in Ahead(q, x)
  OBVIOUS
<1> DEFINE g == Append(q, e)
<1>1. \A i \in DOMAIN g : \/ i \in DOMAIN q /\ g[i] = q[i]
                          \/ i = Len(q) + 1 /\ g[i] = e
  OBVIOUS
<1>2. PICK a \in DOMAIN g : key = g[a].key /\ \E b \in DOMAIN g : a < b /\ g[b].key = x
  BY DEF Ahead
<1>3. PICK b \in DOMAIN g : a < b /\ g[b].key = x
  BY <1>2
<1>4. b \in DOMAIN q /\ g[b] = q[b]
  BY <1>1, <1>3
<1>5. a # Len(q) + 1
  BY <1>3, <1>4
<1>6. a \in DOMAIN q /\ g[a] = q[a]
  BY <1>1, <1>5
<1> HIDE DEF g
<1> QED
  BY <1>2, <1>3, <1>4, <1>6 DEF Ahead

(* ...and one put in front comes ahead of everyone else, and nobody of it. *)
LEMMA InFrontOrder ==
    ASSUME NEW q \in Seq(Entries), NEW e \in Entries, NEW x,
           \A i \in DOMAIN q : q[i].key # e.key
    PROVE  /\ x # e.key => Ahead(<<e>> \o q, x) \subseteq Ahead(q, x) \cup {e.key}
           /\ Ahead(<<e>> \o q, e.key) = {}
           /\ (<<e>> \o q)[1] = e
<1> DEFINE f == <<e>>
           g == f \o q
<1>1. f \in Seq(Entries) /\ Len(f) = 1 /\ f[1] = e
  OBVIOUS
<1> HIDE DEF f
<1>2. /\ f \o q \in Seq(Entries)
      /\ Len(f \o q) = Len(f) + Len(q)
      /\ \A i \in 1 .. Len(f) + Len(q) :
            (f \o q)[i] = IF i <= Len(f) THEN f[i] ELSE q[i - Len(f)]
  BY <1>1, Concatenation
<1> HIDE DEF g
<1>3. Len(q) \in Nat /\ DOMAIN q = 1 .. Len(q) /\ DOMAIN g = 1 .. 1 + Len(q)
  BY <1>1, <1>2 DEF g
<1>4. \A i \in 1 .. 1 + Len(q) : g[i] = IF i <= 1 THEN f[i] ELSE q[i - 1]
  BY <1>1, <1>2 DEF g
<1>5. \A i \in DOMAIN g : \/ i = 1 /\ g[i] = e
                          \/ i \in Nat /\ i - 1 \in DOMAIN q /\ g[i] = q[i - 1]
  BY <1>1, <1>3, <1>4
<1>6. g[1] = e
  BY <1>1, <1>3, <1>4
<1>7. Ahead(g, e.key) = {}
  <2> SUFFICES ASSUME NEW key \in Ahead(g, e.key)
               PROVE  FALSE
    OBVIOUS
  <2>1. PICK a \in DOMAIN g : \E b \in DOMAIN g : a < b /\ g[b].key = e.key
    BY DEF Ahead
  <2>2. PICK b \in DOMAIN g : a < b /\ g[b].key = e.key
    BY <2>1
  <2>3. b = 1
    BY <1>5, <2>2
  <2> QED
    BY <1>3, <2>2, <2>3
<1>8. ASSUME x # e.key, NEW key \in Ahead(g, x)
      PROVE  key \in Ahead(q, x) \cup {e.key}
  <2>1. PICK a \in DOMAIN g : key = g[a].key /\ \E b \in DOMAIN g : a < b /\ g[b].key = x
    BY <1>8 DEF Ahead
  <2>2. PICK b \in DOMAIN g : a < b /\ g[b].key = x
    BY <2>1
  <2>3. b \in Nat /\ b - 1 \in DOMAIN q /\ g[b] = q[b - 1]
    BY <1>5, <1>8, <2>2
  <2>4. CASE a = 1
    BY <1>6, <2>1, <2>4
  <2>5. CASE a \in Nat /\ a - 1 \in DOMAIN q /\ g[a] = q[a - 1]
    <3>1. a - 1 < b - 1
      BY <2>2, <2>3, <2>5
    <3> QED
      BY <2>1, <2>2, <2>3, <2>5, <3>1 DEF Ahead
  <2> QED
    BY <1>5, <2>4, <2>5
<1> QED
  BY <1>6, <1>7, <1>8 DEF f, g

(* queue.py add, offer, take, put_back: no step of the queue's users puts anyone *)
(* in front of a submission that waits, except the entry of a stale duel put     *)
(* back at the head; only its own re-add costs a submission its place.           *)
THEOREM NobodyIsOvertaken == QueueSpec => NoOvertaking
<1> DEFINE Fair(i, j) ==
              entries[i].key = entries'[j].key =>
                 \/ Ahead(entries', entries[i].key) \subseteq Ahead(entries, entries[i].key)
                 \/ j = Len(entries') /\ Len(entries') = Len(entries)
                 \/ /\ inProgress # None /\ inProgress' = None
                    /\ Ahead(entries', entries[i].key) \ Ahead(entries, entries[i].key)
                          \subseteq {entries'[1].key}
<1>1. ASSUME QueueInv, QueueNext(EventIds, Nat), NEW i \in DOMAIN entries, NEW j \in DOMAIN entries'
      PROVE  Fair(i, j)
  <2> SUFFICES ASSUME entries[i].key = entries'[j].key
               PROVE  \/ Ahead(entries', entries[i].key) \subseteq Ahead(entries, entries[i].key)
                      \/ j = Len(entries') /\ Len(entries') = Len(entries)
                      \/ /\ inProgress # None /\ inProgress' = None
                         /\ Ahead(entries', entries[i].key) \ Ahead(entries, entries[i].key)
                               \subseteq {entries'[1].key}
    OBVIOUS
  <2>0. PICK x : x = entries[i].key
    OBVIOUS
  <2> DEFINE Stays == Ahead(entries', x) \subseteq Ahead(entries, x)
             LosesItsPlace == j = Len(entries') /\ Len(entries') = Len(entries)
             PutInFront == /\ inProgress # None /\ inProgress' = None
                           /\ Ahead(entries', x) \ Ahead(entries, x) \subseteq {entries'[1].key}
  <2>a. entries \in Seq(Entries)
    BY <1>1 DEF QueueInv, QueueTypeOK
  <2>1. ASSUME NEW k \in Submissions, NEW z \in Sizes, Add(k, z)
        PROVE  Stays \/ LosesItsPlace
    <3>1. PICK e \in Entries : e = [key |-> k, size |-> z] /\ e.key = k
      <4>1. [key |-> k, size |-> z] \in Entries
        BY DEF Entries
      <4> QED
        BY <4>1
    <3>2. entries' = Append(Without(k), e)
      BY <2>1, <3>1 DEF Add
    <3>3. Without(k) \in Seq(Entries) /\ \A a \in DOMAIN Without(k) : Without(k)[a].key # k
      BY <1>1, WithoutKeeps
    <3>4. CASE x # k
      <4>1. Ahead(entries', x) \subseteq Ahead(Without(k), x)
        BY <3>1, <3>2, <3>3, <3>4, BehindOrder
      <4> QED
        BY <1>1, <4>1, WithoutOrder
    <3>5. CASE x = k
      <4>1. Len(Without(k)) = Len(entries) - 1
        BY <1>1, <2>0, <3>5, WithoutPlaces DEF Waiting
      <4>2. j = Len(Without(k)) + 1
        BY <2>0, <3>2, <3>3, <3>5, <1>1
      <4> QED
        BY <2>a, <3>1, <3>2, <3>3, <4>1, <4>2
    <3> QED
      BY <3>4, <3>5
  <2>2. ASSUME NEW k \in Submissions, NEW z \in Sizes, Offer(k, z)
        PROVE  Stays
    <3>1. CASE Waiting(k)
      BY <2>2, <3>1 DEF Offer
    <3>2. CASE ~Waiting(k)
      <4>1. PICK e \in Entries : e = [key |-> k, size |-> z] /\ e.key = k
        <5>1. [key |-> k, size |-> z] \in Entries
          BY DEF Entries
        <5> QED
          BY <5>1
      <4>2. entries' = Append(entries, e)
        BY <2>2, <3>2, <4>1 DEF Offer
      <4>3. x # k
        BY <1>1, <2>0, <3>2 DEF Waiting
      <4> QED
        BY <2>a, <4>1, <4>2, <4>3, BehindOrder
    <3> QED
      BY <3>1, <3>2
  <2>3. ASSUME NEW k \in Submissions, entries' = Without(k)
        PROVE  Stays
    BY <1>1, <2>3, WithoutOrder
  <2>4. ASSUME Pop
        PROVE  Stays
    <3>1. CASE entries = <<>>
      BY <2>4, <3>1 DEF Pop
    <3>2. CASE entries # <<>>
      <4>1. /\ entries' = Tail(entries)
            /\ \A a \in DOMAIN entries' : /\ a + 1 \in DOMAIN entries
                                          /\ a \in Nat
                                          /\ entries'[a] = entries[a + 1]
        BY <2>4, <2>a, <3>2 DEF Pop
      <4>2. \A a, b \in DOMAIN entries' : a < b => a + 1 < b + 1
        BY <4>1
      <4>3. \A a, b \in DOMAIN entries' : a < b =>
               \E c, d \in DOMAIN entries :
                  c < d /\ entries[c].key = entries'[a].key /\ entries[d].key = entries'[b].key
        BY <4>1, <4>2
      <4> QED
        BY <4>3, SameOrder
    <3> QED
      BY <3>1, <3>2
  <2>5. ASSUME NEW fallback \in Entries \cup {None}, PutBack(fallback)
        PROVE  Stays \/ PutInFront
    <3> DEFINE entry == PutBackEntry(fallback)
    <3>1. entry \in Entries \cup {None} /\ (entry # None => inProgress # None)
      BY <1>1 DEF PutBackEntry, QueueInv, QueueTypeOK, InProgress
    <3>2. /\ entries' = IF entry = None THEN entries ELSE <<entry>> \o Without(entry.key)
          /\ inProgress' = None
      BY <2>5 DEF PutBack
    <3> HIDE DEF entry
    <3>3. CASE entry = None
      BY <3>2, <3>3
    <3>4. CASE entry # None
      <4>1. entry \in Entries /\ entry.key \in Submissions /\ inProgress # None
        BY <3>1, <3>4 DEF Entries
      <4>2. entries' = <<entry>> \o Without(entry.key)
        BY <3>2, <3>4
      <4>3. /\ Without(entry.key) \in Seq(Entries)
            /\ \A a \in DOMAIN Without(entry.key) : Without(entry.key)[a].key # entry.key
        BY <1>1, <4>1, WithoutKeeps
      <4>4. /\ x # entry.key => Ahead(entries', x) \subseteq
                                   Ahead(Without(entry.key), x) \cup {entry.key}
            /\ Ahead(entries', entry.key) = {}
            /\ entries'[1] = entry
        BY <4>1, <4>2, <4>3, InFrontOrder
      <4>5. Ahead(Without(entry.key), x) \subseteq Ahead(entries, x)
        BY <1>1, <4>1, WithoutOrder
      <4> QED
        BY <3>2, <4>1, <4>4, <4>5
    <3> QED
      BY <3>3, <3>4
  <2>6. CASE entries' = entries
    BY <2>6
  <2>7. Stays \/ LosesItsPlace \/ PutInFront
    <3>1. CASE \E k \in Submissions, z \in Sizes : Add(k, z) \/ Offer(k, z)
      BY <2>1, <2>2, <3>1
    <3>2. CASE \E k \in Submissions : Remove(k) \/ TakeGone(k)
      BY <2>3, <2>6, <3>2 DEF Remove, TakeGone, queueVars
    <3>3. CASE Pop
      BY <2>4, <3>3
    <3>4. ASSUME NEW event \in EventIds, Take(event.challenger, event) \/ Start(event)
          PROVE  Stays
      <4>1. event.challenger \in Submissions
        BY DEF EventIds
      <4> QED
        BY <2>3, <2>6, <3>4, <4>1 DEF Take, Start
    <3>5. CASE \E fallback \in Entries \cup {None} : PutBack(fallback)
      BY <2>5, <3>5
    <3>6. CASE Finish \/ AdvanceBlock
      BY <2>6, <3>6 DEF Finish, AdvanceBlock, ClaimBlock
    <3>7. CASE \E b \in Nat : ClaimBlock(b) \/ SetBlock(b)
      BY <2>6, <3>7 DEF ClaimBlock, SetBlock
    <3> QED
      BY <1>1, <3>1, <3>2, <3>3, <3>4, <3>5, <3>6, <3>7 DEF QueueNext
  <2> QED
    BY <2>0, <2>7
<1>2. QueueInv /\ [QueueNext(EventIds, Nat)]_queueVars
        => [\A i \in DOMAIN entries, j \in DOMAIN entries' : Fair(i, j)]_queueVars
  BY <1>1
<1> QED
  BY <1>2, QueueInvariance, PTL DEF QueueSpec, NoOvertaking

=============================================================================
