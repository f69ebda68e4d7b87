-------------------------- MODULE RunJournalProofs --------------------------
(***************************************************************************)
(* What a host may rely on holds for any entries, limits, times and        *)
(* number of operations and restarts, and for every damage of the text.    *)
(***************************************************************************)
EXTENDS RunJournalProperties, FiniteSetTheorems, WellFoundedInduction, TLAPS

Records == [entry : Entries, fingerprint : [sha256 : Entries],
            retained : BOOLEAN, historical : BOOLEAN]

Kept(record, now) ==
  /\ record.entry \in Keepable
  /\ EntryAccepted(record.entry, now)
  /\ record.fingerprint = Fingerprint(record.entry)
  /\ ~record.retained => record.entry.payload = None

(***************************************************************************)
(* Record j has an id and a retry of its own among the records before it;  *)
(* if it is a retry, its target had ended by what is before it, and if it  *)
(* is a revocation, what it revokes is before it.                          *)
(***************************************************************************)
Earned(history, j, now) ==
  /\ \A i \in 1..(j - 1) :
       /\ history[i].entry.id # history[j].entry.id
       /\ history[j].entry.retryOf # None /\ history[i].entry.retryOf = history[j].entry.retryOf
            => history[i].entry.attempt # history[j].entry.attempt
  /\ history[j].entry.retryOf # None =>
       /\ history[j].entry.state = "QUEUED"
       /\ \E i \in 1..(j - 1) :
            /\ history[i].entry.id = history[j].entry.retryOf
            /\ history[i].entry.runId = history[j].entry.runId
            /\ history[i].entry.attempt < history[j].entry.attempt
            /\ history[i].entry.createdAt <= history[j].entry.createdAt
            /\ \/ history[i].entry.state \in Ended
               \/ Expired(history[i].entry, now)
               \/ \E k \in 1..(j - 1) : history[k].entry.revokes = history[i].entry.id
  /\ history[j].entry.revokes # None =>
       \E i \in 1..(j - 1) :
         /\ history[i].entry.id = history[j].entry.revokes
         /\ history[i].entry.runId = history[j].entry.runId
         /\ history[i].entry.attempt = history[j].entry.attempt
         /\ history[i].entry.candidate = history[j].entry.candidate
         /\ history[i].entry.createdAt <= history[j].entry.createdAt

NewestFirst(history, now) ==
  \A i, j \in DOMAIN history :
    i < j /\ history[i].retained /\ ~history[j].retained => Expired(history[j].entry, now)

\* What a history is before it is pruned: all but the limit of MaxEntries.
Orderly(history, now) ==
  /\ history \in Seq(Records)
  /\ Len(history) <= HistoryLimit
  /\ \A i \in DOMAIN history : Kept(history[i], now) /\ Earned(history, i, now)
  /\ NewestFirst(history, now)
  /\ now \in Nat /\ now <= MaxSafe

Sound(history, now) ==
  Orderly(history, now) /\ Cardinality(RetainedOf(history)) <= MaxEntries

\* The host's text is a sound history serialised, however old.
Written ==
  text # None =>
    \E history \in Seq(Records), now \in Nat :
      Sound(history, now) /\ text = Serialized(history, now)

Replies ==
  [op : {"create", "append", "list", "retain", "serialize"}, answer : Answers]
    \union [op : {"reopen"}, answer : Diagnoses]

IInv ==
  /\ status \in {"open", "sealed", "none"}
  /\ Sound(records, mark)
  /\ Written
  /\ reply \in Replies

(***************************************************************************)
(* Entries.                                                                *)
(***************************************************************************)
\* Entries that differ in their payload only.
SameButPayload(e, f) ==
  /\ e.id = f.id /\ e.project = f.project /\ e.runId = f.runId /\ e.candidate = f.candidate
  /\ e.attempt = f.attempt /\ e.createdAt = f.createdAt /\ e.ttl = f.ttl /\ e.state = f.state
  /\ e.heartbeatAt = f.heartbeatAt /\ e.retryOf = f.retryOf /\ e.revokes = f.revokes

LEMMA WithoutPayloads ==
  ASSUME NEW e \in Entries
  PROVE  /\ WithoutPayload(e) \in Entries /\ SameButPayload(WithoutPayload(e), e)
         /\ WithoutPayload(e).payload = None
         /\ WithoutPayload(WithoutPayload(e)) = WithoutPayload(e)
         /\ e.payload = None => WithoutPayload(e) = e
BY DEF Entries, WithoutPayload, SameButPayload

LEMMA Redactions ==
  ASSUME NEW e \in Entries
  PROVE  /\ Redacted(e) \in Entries /\ SameButPayload(Redacted(e), e)
         /\ Redacted(e).payload = None <=> e.payload = None
         /\ WithoutPayload(Redacted(e)) = WithoutPayload(e)
         /\ e.payload = None => Redacted(e) = e
<1>1. CASE e.payload = None
  BY <1>1 DEF Redacted, SameButPayload
<1>2. CASE e.payload # None /\ e.payload.secret = "missing"
  BY <1>2 DEF Redacted, SameButPayload
<1>3. CASE e.payload # None /\ e.payload.secret # "missing"
  <2>1. e.payload \in Payloads
    BY <1>3 DEF Entries
  <2>2. [e.payload EXCEPT !.secret = "[REDACTED]"] \in Payloads
    BY <2>1 DEF Payloads
  <2>3. Redacted(e) = [e EXCEPT !.payload = [e.payload EXCEPT !.secret = "[REDACTED]"]]
    BY <1>3, <2>1 DEF Redacted, Entries
  <2>4. Redacted(e) \in Entries /\ SameButPayload(Redacted(e), e)
        /\ Redacted(e).payload = [e.payload EXCEPT !.secret = "[REDACTED]"]
    BY <2>2, <2>3 DEF Entries, SameButPayload
  <2>5. Redacted(e).payload # None
    BY <2>2, <2>4, InputAssumption
  <2>6. WithoutPayload(Redacted(e)) = WithoutPayload(e)
    BY <2>3 DEF WithoutPayload, Entries
  <2> QED BY <1>3, <2>4, <2>5, <2>6
<1> QED BY <1>1, <1>2, <1>3

LEMMA Keeping ==
  ASSUME NEW e \in Keepable
  PROVE  e \in Entries /\ WithoutPayload(e) \in Keepable
<1>1. CASE \E f \in Inputs : f.project = ProjectId /\ e = Redacted(f)
  BY <1>1, InputAssumption, Redactions DEF Keepable
<1>2. CASE \E f \in Inputs : f.project = ProjectId /\ e = WithoutPayload(f)
  BY <1>2, InputAssumption, WithoutPayloads DEF Keepable
<1> QED BY <1>1, <1>2 DEF Keepable

LEMMA AcceptedLater ==
  ASSUME NEW e \in Entries, NEW f \in Entries, SameButPayload(e, f),
         NEW mark0 \in Nat, NEW now \in Nat, mark0 <= now, EntryAccepted(e, mark0)
  PROVE  EntryAccepted(f, now)
BY DEF EntryAccepted, SameButPayload, Entries

LEMMA ExpiredLater ==
  ASSUME NEW e \in Entries, NEW f \in Entries, SameButPayload(e, f),
         NEW mark0 \in Nat, NEW now \in Nat, mark0 <= now, Expired(e, mark0)
  PROVE  Expired(f, now)
BY DEF Expired, SameButPayload, Entries

(***************************************************************************)
(* Pruning.                                                                *)
(***************************************************************************)
LEMMA RetiredRecord ==
  ASSUME NEW r \in Records
  PROVE  /\ Retired(r) \in Records
         /\ Retired(r).entry = WithoutPayload(r.entry)
         /\ Retired(r).fingerprint = Fingerprint(WithoutPayload(r.entry))
         /\ Retired(r).retained = FALSE
         /\ Retired(r).historical = r.historical
BY WithoutPayloads DEF Records, Retired, WithoutPayload, Fingerprint, Entries

LEMMA RetainedFinite ==
  ASSUME NEW history \in Seq(Records)
  PROVE  /\ IsFiniteSet(RetainedOf(history))
         /\ RetainedOf(history) \subseteq 1..Len(history)
         /\ \A S \in SUBSET RetainedOf(history) : IsFiniteSet(S) /\ Cardinality(S) \in Nat
<1>1. IsFiniteSet(1..Len(history))
  BY FS_Interval
<1>2. RetainedOf(history) \subseteq 1..Len(history)
  BY DEF RetainedOf
<1>3. IsFiniteSet(RetainedOf(history))
  BY <1>1, <1>2, FS_Subset
<1> QED BY <1>2, <1>3, FS_Subset, FS_CardinalityType

Live(history, now) == {i \in RetainedOf(history) : ~Expired(history[i].entry, now)}

Newer(history, now, i) == {j \in Live(history, now) : j > i}

Survivors(history, now) ==
  {i \in Live(history, now) : Cardinality(Newer(history, now, i)) < MaxEntries}

LEMMA PrunedFields ==
  ASSUME NEW history \in Seq(Records), NEW now \in Nat
  PROVE  /\ Pruned(history, now) \in Seq(Records)
         /\ Len(Pruned(history, now)) = Len(history)
         /\ DOMAIN Pruned(history, now) = 1..Len(history)
         /\ \A i \in 1..Len(history) :
              /\ SameButPayload(Pruned(history, now)[i].entry, history[i].entry)
              /\ \/ Pruned(history, now)[i] = history[i]
                 \/ history[i].retained /\ Pruned(history, now)[i] = Retired(history[i])
              /\ Pruned(history, now)[i].retained <=> i \in Survivors(history, now)
<1>1. Pruned(history, now) =
        [i \in 1..Len(history) |->
           IF i \in RetainedOf(history) \ Survivors(history, now) THEN Retired(history[i]) ELSE history[i]]
  BY DEF Pruned, Survivors, Newer, Live
<1>0. DOMAIN history = 1..Len(history) /\ \A i \in 1..Len(history) : history[i] \in Records
  OBVIOUS
<1>2. \A i \in 1..Len(history) : history[i] \in Records /\ Retired(history[i]) \in Records
  BY <1>0, RetiredRecord
<1>3. \A i \in 1..Len(history) : Pruned(history, now)[i] \in Records
  BY <1>1, <1>2
<1>4. /\ Pruned(history, now) \in Seq(Records)
      /\ Len(Pruned(history, now)) = Len(history)
      /\ DOMAIN Pruned(history, now) = 1..Len(history)
  BY <1>1, <1>3
<1>5. ASSUME NEW i \in 1..Len(history)
      PROVE  /\ SameButPayload(Pruned(history, now)[i].entry, history[i].entry)
             /\ \/ Pruned(history, now)[i] = history[i]
                \/ history[i].retained /\ Pruned(history, now)[i] = Retired(history[i])
             /\ Pruned(history, now)[i].retained <=> i \in Survivors(history, now)
  <2>1. history[i].entry \in Entries /\ history[i].retained \in BOOLEAN
    BY <1>2 DEF Records
  <2>2. SameButPayload(history[i].entry, history[i].entry)
    BY DEF SameButPayload
  <2>3. CASE i \in RetainedOf(history) \ Survivors(history, now)
    <3>1. Pruned(history, now)[i] = Retired(history[i])
      BY <1>1, <2>3
    <3>2. history[i].retained /\ i \notin Survivors(history, now)
      BY <2>3 DEF RetainedOf
    <3>3. /\ Retired(history[i]).entry = WithoutPayload(history[i].entry)
          /\ Retired(history[i]).retained = FALSE
      BY <1>0, RetiredRecord
    <3>4. SameButPayload(WithoutPayload(history[i].entry), history[i].entry)
      BY <2>1, WithoutPayloads
    <3> QED BY <3>1, <3>2, <3>3, <3>4
  <2>4. CASE i \notin RetainedOf(history)
    <3>1. Pruned(history, now)[i] = history[i] /\ i \notin Survivors(history, now)
      BY <1>1, <2>4 DEF Survivors, Live
    <3>2. history[i].retained = FALSE
      BY <1>0, <2>1, <2>4 DEF RetainedOf
    <3> QED BY <2>2, <3>1, <3>2
  <2>5. CASE i \in RetainedOf(history) /\ i \in Survivors(history, now)
    BY <1>1, <2>1, <2>2, <2>5 DEF RetainedOf
  <2> QED BY <2>3, <2>4, <2>5
<1> QED BY <1>4, <1>5

\* Later survivors have fewer newer live records.
LEMMA FewerNewer ==
  ASSUME NEW history \in Seq(Records), NEW now \in Nat, NEW i \in Nat, NEW j \in Live(history, now), i < j
  PROVE  /\ Cardinality(Newer(history, now, i)) \in Nat /\ Cardinality(Newer(history, now, j)) \in Nat
         /\ Cardinality(Newer(history, now, j)) < Cardinality(Newer(history, now, i))
<1>1. \A k \in Nat : IsFiniteSet(Newer(history, now, k)) /\ Cardinality(Newer(history, now, k)) \in Nat
  <2>1. \A k \in Nat : Newer(history, now, k) \in SUBSET RetainedOf(history)
    BY DEF Newer, Live
  <2> QED BY <2>1, RetainedFinite
<1>2. j \in Nat
  BY RetainedFinite DEF Live
<1>3. Newer(history, now, j) \union {j} \subseteq Newer(history, now, i)
  <2>1. Live(history, now) \subseteq Nat
    BY RetainedFinite DEF Live
  <2> QED BY <1>2, <2>1 DEF Newer
<1>4. j \notin Newer(history, now, j)
  BY <1>2 DEF Newer
<1>5. Cardinality(Newer(history, now, j) \union {j}) = Cardinality(Newer(history, now, j)) + 1
  BY <1>1, <1>2, <1>4, FS_AddElement
<1>6. Cardinality(Newer(history, now, j) \union {j}) <= Cardinality(Newer(history, now, i))
  BY <1>1, <1>3, FS_Subset
<1> QED BY <1>1, <1>2, <1>5, <1>6

LEMMA PrunedCount ==
  ASSUME NEW history \in Seq(Records), NEW now \in Nat
  PROVE  Cardinality(RetainedOf(Pruned(history, now))) <= MaxEntries
<1> DEFINE S == Survivors(history, now)
           f == [i \in S |-> Cardinality(Newer(history, now, i))]
           T == 0..(MaxEntries - 1)
<1>1. S \subseteq Nat /\ S \subseteq Live(history, now)
  BY RetainedFinite DEF Survivors, Live
<1>2. RetainedOf(Pruned(history, now)) = S
  <2>1. S \subseteq 1..Len(history)
    BY RetainedFinite DEF Survivors, Live
  <2> QED BY <2>1, PrunedFields DEF RetainedOf
<1>3. f \in [S -> T]
  <2>1. \A i \in S : Cardinality(Newer(history, now, i)) \in Nat
    <3>1. \A i \in S : Newer(history, now, i) \in SUBSET RetainedOf(history)
      BY DEF Newer, Live
    <3> QED BY <3>1, RetainedFinite
  <2>2. \A i \in S : Cardinality(Newer(history, now, i)) < MaxEntries
    BY DEF Survivors
  <2> QED BY <2>1, <2>2, JournalAssumption
<1>4. \A i, j \in S : i < j => f[j] < f[i]
  BY <1>1, FewerNewer
<1>5. \A i, j \in S : f[i] = f[j] => i = j
  <2> SUFFICES ASSUME NEW i \in S, NEW j \in S, f[i] = f[j], i # j PROVE FALSE
    OBVIOUS
  <2>1. i < j \/ j < i
    BY <1>1
  <2>2. f[i] \in Int /\ f[j] \in Int
    BY <1>3, JournalAssumption
  <2> QED BY <1>4, <2>1, <2>2
<1>6. f \in Injection(S, T)
  BY <1>3, <1>5 DEF Injection, IsInjective
<1>7. IsFiniteSet(T) /\ Cardinality(T) = MaxEntries
  BY FS_Interval, JournalAssumption
<1>8. Cardinality(S) <= Cardinality(T)
  BY <1>6, <1>7, FS_Injection
<1> QED BY <1>2, <1>7, <1>8

LEMMA StaysEarned ==
  ASSUME NEW before \in Nat, NEW now \in Nat, before <= now, NEW j \in Nat,
         NEW history \in Seq(Records), NEW later \in Seq(Records),
         j \in 1..Len(history), j \in 1..Len(later),
         \A i \in 1..j : SameButPayload(later[i].entry, history[i].entry),
         Earned(history, j, before)
  PROVE  Earned(later, j, now)
<1>1. \A i \in 1..j : history[i].entry \in Entries /\ later[i].entry \in Entries
  <2> SUFFICES ASSUME NEW i \in 1..j PROVE history[i].entry \in Entries /\ later[i].entry \in Entries
    OBVIOUS
  <2>1. history[i] \in Records /\ later[i] \in Records
    OBVIOUS
  <2> QED BY <2>1 DEF Records
<1>2. \A i \in 1..j : Expired(history[i].entry, before) => Expired(later[i].entry, now)
  <2> SUFFICES ASSUME NEW i \in 1..j, Expired(history[i].entry, before)
               PROVE  Expired(later[i].entry, now)
    OBVIOUS
  <2>1. SameButPayload(history[i].entry, later[i].entry)
    BY DEF SameButPayload
  <2> QED BY <1>1, <2>1, ExpiredLater
<1>3. \A i \in 1..j : /\ later[i].entry.id = history[i].entry.id
                      /\ later[i].entry.retryOf = history[i].entry.retryOf
                      /\ later[i].entry.attempt = history[i].entry.attempt
                      /\ later[i].entry.runId = history[i].entry.runId
                      /\ later[i].entry.state = history[i].entry.state
                      /\ later[i].entry.revokes = history[i].entry.revokes
                      /\ later[i].entry.candidate = history[i].entry.candidate
                      /\ later[i].entry.createdAt = history[i].entry.createdAt
  BY DEF SameButPayload
<1>4. j \in 1..j /\ \A i \in 1..(j - 1) : i \in 1..j
  OBVIOUS
<1> QED BY <1>2, <1>3, <1>4 DEF Earned

LEMMA PrunedNewest ==
  ASSUME NEW history \in Seq(Records), NEW before \in Nat, NEW now \in Nat, before <= now,
         NewestFirst(history, before)
  PROVE  NewestFirst(Pruned(history, now), now)
<1> DEFINE P == Pruned(history, now)
<1> SUFFICES ASSUME NEW i \in 1..Len(history), NEW j \in 1..Len(history), i < j,
                    P[i].retained, ~P[j].retained
             PROVE  Expired(P[j].entry, now)
  BY PrunedFields DEF NewestFirst
<1>1. P[j] \in Records /\ history[j] \in Records /\ history[i] \in Records
  BY PrunedFields
<1>2. SameButPayload(P[j].entry, history[j].entry)
  BY PrunedFields
<1>3. SameButPayload(history[j].entry, P[j].entry)
  BY <1>2 DEF SameButPayload
<1>4. i \in Survivors(history, now) /\ j \notin Survivors(history, now)
  BY PrunedFields
<1>5. history[i].retained
  BY <1>4 DEF Survivors, Live, RetainedOf
<1>6. CASE ~history[j].retained
  <2>1. Expired(history[j].entry, before)
    BY <1>5, <1>6 DEF NewestFirst
  <2> QED BY <1>1, <1>3, <2>1, ExpiredLater DEF Records
<1>7. CASE history[j].retained
  <2>1. j \notin Live(history, now)
    <3> SUFFICES ASSUME j \in Live(history, now) PROVE FALSE
      OBVIOUS
    <3>1. Cardinality(Newer(history, now, j)) < Cardinality(Newer(history, now, i))
          /\ Cardinality(Newer(history, now, i)) \in Nat /\ Cardinality(Newer(history, now, j)) \in Nat
      BY FewerNewer
    <3>2. Cardinality(Newer(history, now, i)) < MaxEntries
      BY <1>4 DEF Survivors
    <3>3. Cardinality(Newer(history, now, j)) < MaxEntries
      BY <3>1, <3>2, JournalAssumption
    <3> QED BY <1>4, <3>3 DEF Survivors
  <2>2. Expired(history[j].entry, now)
    BY <1>7, <2>1 DEF Live, RetainedOf
  <2> QED BY <1>1, <1>3, <2>2, ExpiredLater DEF Records
<1> QED BY <1>6, <1>7

\* Pruning makes an orderly history sound, at this time or a later one.
LEMMA PrunedSound ==
  ASSUME NEW history, NEW before, Orderly(history, before),
         NEW now \in Nat, before <= now, now <= MaxSafe
  PROVE  Sound(Pruned(history, now), now)
<1> DEFINE P == Pruned(history, now)
<1>1. history \in Seq(Records) /\ before \in Nat
  BY DEF Orderly
<1>2. P \in Seq(Records) /\ Len(P) <= HistoryLimit
  BY <1>1, PrunedFields DEF Orderly
<1>3. ASSUME NEW i \in DOMAIN P PROVE Kept(P[i], now)
  <2>1. i \in 1..Len(history) /\ i \in DOMAIN history
    BY <1>1, PrunedFields
  <2>2. Kept(history[i], before) /\ history[i] \in Records /\ P[i] \in Records
    BY <1>1, <1>2, <2>1, PrunedFields DEF Orderly
  <2>3. history[i].entry \in Entries /\ P[i].entry \in Entries
    BY <2>2 DEF Records
  <2>4. SameButPayload(history[i].entry, P[i].entry)
    BY <1>1, <2>1, PrunedFields DEF SameButPayload
  <2>5. EntryAccepted(P[i].entry, now)
    BY <1>1, <2>2, <2>3, <2>4, AcceptedLater DEF Kept
  <2>6. CASE P[i] = history[i]
    BY <2>2, <2>5, <2>6 DEF Kept
  <2>7. CASE P[i] = Retired(history[i])
    <3>1. P[i].entry = WithoutPayload(history[i].entry) /\ P[i].fingerprint = Fingerprint(P[i].entry)
      <4>1. /\ Retired(history[i]).entry = WithoutPayload(history[i].entry)
            /\ Retired(history[i]).fingerprint = Fingerprint(WithoutPayload(history[i].entry))
        BY <2>2, RetiredRecord
      <4> QED BY <2>7, <4>1
    <3>2. P[i].entry \in Keepable
      BY <2>2, <3>1, Keeping DEF Kept
    <3>3. P[i].entry.payload = None
      BY <2>3, <3>1, WithoutPayloads
    <3> QED BY <2>5, <3>1, <3>2, <3>3 DEF Kept
  <2> QED BY <1>1, <2>1, <2>6, <2>7, PrunedFields
<1>4. ASSUME NEW j \in DOMAIN P PROVE Earned(P, j, now)
  <2>1. j \in 1..Len(history) /\ j \in 1..Len(P) /\ j \in DOMAIN history /\ j \in Nat
    BY <1>1, PrunedFields
  <2>2. Earned(history, j, before)
    BY <2>1 DEF Orderly
  <2>3. \A i \in 1..j : SameButPayload(P[i].entry, history[i].entry)
    BY <1>1, <2>1, PrunedFields
  <2> QED BY <1>1, <1>2, <2>1, <2>2, <2>3, StaysEarned
<1>5. NewestFirst(P, now)
  BY <1>1, PrunedNewest DEF Orderly
<1>6. Cardinality(RetainedOf(P)) <= MaxEntries
  BY <1>1, PrunedCount
<1> QED BY <1>2, <1>3, <1>4, <1>5, <1>6 DEF Orderly, Sound

(***************************************************************************)
(* Appending.                                                              *)
(***************************************************************************)
LEMMA Verdicts ==
  ASSUME NEW input \in Inputs, NEW now, Verdict(input, now) = "APPENDED"
  PROVE  /\ TimeFits(now) /\ EntryAccepted(input, now) /\ status # "sealed"
         /\ Redacted(input).project = ProjectId
         /\ Redacted(input).id \notin Ids(records)
         /\ ~(Len(records) >= HistoryLimit)
         /\ Redacted(input).retryOf # None =>
              ~RetryTaken(records, Redacted(input)) /\ RetryFits(records, Redacted(input), now)
         /\ Redacted(input).revokes # None => RevocationFits(records, Redacted(input))
BY DEF Verdict, Known, Closed

LEMMA AppendedOrderly ==
  ASSUME Sound(records, mark), NEW input \in Inputs, NEW now \in Times, Verdict(input, now) = "APPENDED"
  PROVE  /\ Orderly(Append(records, NewRecord(input)), now)
         /\ now \in Nat /\ now >= mark /\ now <= MaxSafe
<1> DEFINE e == Redacted(input)
           history == Append(records, NewRecord(input))
           n == Len(records) + 1
<1>1. now \in Nat /\ now <= MaxSafe /\ mark \in Nat /\ mark <= now
  BY Verdicts, JournalAssumption DEF TimeFits, Sound, Orderly
<1>2. input \in Entries /\ e \in Entries /\ SameButPayload(e, input)
  BY InputAssumption, Redactions
<1>3. e \in Keepable
  BY <1>2, Verdicts DEF Keepable, SameButPayload
<1>4. NewRecord(input) \in Records
  BY <1>2 DEF NewRecord, Records, Fingerprint
<1>5. /\ records \in Seq(Records) /\ Len(records) \in Nat /\ DOMAIN records = 1..Len(records)
      /\ history \in Seq(Records) /\ Len(history) = n /\ DOMAIN history = 1..n
      /\ \A i \in 1..Len(records) : history[i] = records[i]
      /\ history[n] = NewRecord(input)
  BY <1>4 DEF Sound, Orderly
<1>6. Len(history) <= HistoryLimit
  BY <1>5, Verdicts, JournalAssumption
<1>7. ASSUME NEW i \in DOMAIN history PROVE Kept(history[i], now)
  <2>1. CASE i = n
    <3>1. EntryAccepted(input, now)
      BY Verdicts
    <3>2. SameButPayload(input, e)
      BY <1>2 DEF SameButPayload
    <3>3. EntryAccepted(e, now)
      BY <1>1, <1>2, <3>1, <3>2, AcceptedLater
    <3>4. history[i].entry = e /\ history[i].fingerprint = Fingerprint(e) /\ history[i].retained = TRUE
      BY <1>5, <2>1 DEF NewRecord
    <3> QED BY <1>3, <3>3, <3>4 DEF Kept
  <2>2. CASE i \in 1..Len(records)
    <3>1. Kept(records[i], mark) /\ records[i] \in Records /\ history[i] = records[i]
      BY <1>5, <2>2 DEF Sound, Orderly
    <3>2. SameButPayload(records[i].entry, records[i].entry) /\ records[i].entry \in Entries
      BY <3>1 DEF SameButPayload, Records
    <3>3. EntryAccepted(records[i].entry, now)
      BY <1>1, <3>1, <3>2, AcceptedLater DEF Kept
    <3> QED BY <3>1, <3>3 DEF Kept
  <2> QED BY <1>5, <2>1, <2>2
<1>8. ASSUME NEW j \in DOMAIN history PROVE Earned(history, j, now)
  <2>1. CASE j = n
    <3>1. history[j].entry = e /\ \A i \in 1..(j - 1) : history[i] = records[i] /\ i \in DOMAIN records
      BY <1>5, <2>1 DEF NewRecord
    <3>2. \A i \in 1..(j - 1) : history[i].entry.id # e.id
      BY <3>1, Verdicts DEF Ids
    <3>3. ASSUME e.retryOf # None, NEW i \in 1..(j - 1), history[i].entry.retryOf = e.retryOf
          PROVE  history[i].entry.attempt # e.attempt
      BY <3>1, <3>3, Verdicts DEF RetryTaken
    <3>4. ASSUME e.retryOf # None
          PROVE  /\ e.state = "QUEUED"
                 /\ \E i \in 1..(j - 1) :
                      /\ history[i].entry.id = e.retryOf
                      /\ history[i].entry.runId = e.runId
                      /\ history[i].entry.attempt < e.attempt
                      /\ history[i].entry.createdAt <= e.createdAt
                      /\ \/ history[i].entry.state \in Ended
                         \/ Expired(history[i].entry, now)
                         \/ \E k \in 1..(j - 1) : history[k].entry.revokes = history[i].entry.id
      <4>1. RetryFits(records, e, now)
        BY <3>4, Verdicts
      <4>2. DOMAIN records = 1..(j - 1)
        BY <1>5, <2>1
      <4>3. PICK i \in 1..(j - 1) :
              /\ records[i].entry.id = e.retryOf
              /\ e.state = "QUEUED"
              /\ records[i].entry.runId = e.runId
              /\ records[i].entry.attempt < e.attempt
              /\ records[i].entry.createdAt <= e.createdAt
              /\ \/ records[i].entry.state \in Ended
                 \/ Expired(records[i].entry, now)
                 \/ Revoked(records, records[i].entry.id)
        BY <4>1, <4>2 DEF RetryFits
      <4>4. Revoked(records, records[i].entry.id) =>
              \E k \in 1..(j - 1) : history[k].entry.revokes = history[i].entry.id
        BY <3>1, <4>2 DEF Revoked
      <4> QED BY <3>1, <4>3, <4>4
    <3>5. ASSUME e.revokes # None
          PROVE  \E i \in 1..(j - 1) :
                   /\ history[i].entry.id = e.revokes
                   /\ history[i].entry.runId = e.runId
                   /\ history[i].entry.attempt = e.attempt
                   /\ history[i].entry.candidate = e.candidate
                   /\ history[i].entry.createdAt <= e.createdAt
      <4>1. RevocationFits(records, e) /\ DOMAIN records = 1..(j - 1)
        BY <1>5, <2>1, <3>5, Verdicts
      <4> QED BY <3>1, <4>1 DEF RevocationFits
    <3> QED BY <3>1, <3>2, <3>3, <3>4, <3>5 DEF Earned
  <2>2. CASE j \in 1..Len(records)
    <3>1. Earned(records, j, mark) /\ j \in Nat
      BY <1>5, <2>2 DEF Sound, Orderly
    <3>2. \A i \in 1..j : SameButPayload(history[i].entry, records[i].entry)
      BY <1>5, <2>2 DEF SameButPayload
    <3>3. j \in 1..Len(history)
      BY <1>5, <2>2
    <3> QED BY <1>1, <1>5, <2>2, <3>1, <3>2, <3>3, StaysEarned
  <2> QED BY <1>5, <2>1, <2>2
<1>9. NewestFirst(history, now)
  <2> SUFFICES ASSUME NEW i \in 1..n, NEW j \in 1..n, i < j, history[i].retained, ~history[j].retained
               PROVE  Expired(history[j].entry, now)
    BY <1>5 DEF NewestFirst
  <2>1. j # n
    BY <1>5 DEF NewRecord
  <2>2. /\ i \in 1..Len(records) /\ j \in 1..Len(records)
        /\ history[j] = records[j] /\ history[i] = records[i] /\ records[j] \in Records
    BY <1>5, <2>1
  <2>3. Expired(records[j].entry, mark)
    BY <1>5, <2>2 DEF Sound, Orderly, NewestFirst
  <2>4. SameButPayload(records[j].entry, records[j].entry) /\ records[j].entry \in Entries
    BY <2>2 DEF SameButPayload, Records
  <2> QED BY <1>1, <2>2, <2>3, <2>4, ExpiredLater
<1> QED BY <1>1, <1>5, <1>6, <1>7, <1>8, <1>9 DEF Orderly

(***************************************************************************)
(* The text.  Its hashes play no part here: a line is recognised by its    *)
(* place in the text and by the fingerprint of its entry.                  *)
(***************************************************************************)
\* The text of a history, line by line.
Spells(lines, history, now) ==
  /\ \E S : lines \in Seq(S)
  /\ Len(lines) = Len(history) + 2
  /\ lines[1] = [type |-> "header", now |-> now]
  /\ \A n \in 2..(Len(history) + 1) :
       lines[n].type = "entry" /\ lines[n].seq = n - 1 /\ lines[n].record = Stored(history[n - 1])
  /\ lines[Len(history) + 2].type = "footer"
  /\ lines[Len(history) + 2].count = Len(history)

\* Its entries have no other fields than those.
Plainly(lines, history) ==
  \A n \in 2..(Len(history) + 1) :
    lines[n] = [type |-> "entry", seq |-> n - 1, previous |-> lines[n].previous,
                record |-> Stored(history[n - 1]), hash |-> lines[n].hash]

\* Its hashes are those of the chain.
Linked(lines, history, hash) ==
  /\ \A n \in 2..(Len(history) + 1) : lines[n].previous = hash[n - 2] /\ lines[n].hash = hash[n - 1]
  /\ lines[Len(history) + 2].last = hash[Len(history)]

LEMMA SerializedSpells ==
  ASSUME NEW history \in Seq(Records), NEW now
  PROVE  /\ Serialized(history, now).torn = FALSE
         /\ Spells(Serialized(history, now).lines, history, now)
         /\ Plainly(Serialized(history, now).lines, history)
         /\ Linked(Serialized(history, now).lines, history,
                   Chain(history, [type |-> "header", now |-> now]))
<1> DEFINE header == [type |-> "header", now |-> now]
           hash == Chain(history, header)
           line(n) == [type |-> "entry", seq |-> n, previous |-> hash[n - 1],
                       record |-> Stored(history[n]), hash |-> hash[n]]
           footer == [type |-> "footer", count |-> Len(history), last |-> hash[Len(history)]]
           body == [n \in 1..Len(history) |-> line(n)]
           lines == <<header>> \o body \o <<footer>>
           S == {header, footer} \union {line(n) : n \in 1..Len(history)}
<1>1. Serialized(history, now) = [lines |-> lines, torn |-> FALSE]
  BY DEF Serialized
<1> HIDE DEF hash
<1>2. Len(history) \in Nat /\ body \in Seq(S) /\ Len(body) = Len(history)
  OBVIOUS
<1>3. <<header>> \in Seq(S) /\ <<footer>> \in Seq(S)
  OBVIOUS
<1> HIDE DEF S, body, header, footer
<1>4. /\ <<header>> \o body \in Seq(S)
      /\ Len(<<header>> \o body) = Len(history) + 1
      /\ (<<header>> \o body)[1] = header
      /\ \A n \in 2..(Len(history) + 1) : (<<header>> \o body)[n] = body[n - 1]
  BY <1>2, <1>3
<1>5. /\ lines \in Seq(S) /\ Len(lines) = Len(history) + 2
      /\ \A n \in 1..(Len(history) + 1) : lines[n] = (<<header>> \o body)[n]
      /\ lines[Len(history) + 2] = footer
  BY <1>2, <1>3, <1>4
<1> HIDE DEF lines
<1>6. /\ lines[1] = header
      /\ \A n \in 2..(Len(history) + 1) : lines[n] = body[n - 1]
  BY <1>2, <1>4, <1>5
<1>7. \A n \in 2..(Len(history) + 1) : body[n - 1] = line(n - 1)
  BY <1>2 DEF body
<1>8. ASSUME NEW n \in 2..(Len(history) + 1)
      PROVE  /\ lines[n].type = "entry" /\ lines[n].seq = n - 1 /\ lines[n].record = Stored(history[n - 1])
             /\ lines[n] = [type |-> "entry", seq |-> n - 1, previous |-> lines[n].previous,
                            record |-> Stored(history[n - 1]), hash |-> lines[n].hash]
             /\ lines[n].previous = hash[n - 2] /\ lines[n].hash = hash[n - 1]
  <2>1. lines[n] = line(n - 1)
    BY <1>6, <1>7
  <2>2. (n - 1) - 1 = n - 2
    OBVIOUS
  <2> QED BY <2>1, <2>2
<1>9. lines[1] = [type |-> "header", now |-> now]
  BY <1>6 DEF header
<1>10. lines[Len(history) + 2].type = "footer" /\ lines[Len(history) + 2].count = Len(history)
  BY <1>5 DEF footer
<1>11. \E T : lines \in Seq(T)
  BY <1>5
<1>12. Spells(lines, history, now)
  BY <1>5, <1>8, <1>9, <1>10, <1>11 DEF Spells
<1>13. Plainly(lines, history)
  BY <1>8 DEF Plainly
<1>14. lines[Len(history) + 2].last = hash[Len(history)]
  BY <1>5 DEF footer
<1>15. Linked(lines, history, hash)
  BY <1>8, <1>14 DEF Linked
<1> QED BY <1>1, <1>12, <1>13, <1>15 DEF hash, header

LEMMA LastExists ==
  ASSUME NEW S, NEW lines \in Seq(S), lines # <<>>
  PROVE  /\ LastAccepted(lines) \in 1..Len(lines)
         /\ \A n \in 2..LastAccepted(lines) : LineAccepted(lines, n)
         /\ LastAccepted(lines) < Len(lines) => ~LineAccepted(lines, LastAccepted(lines) + 1)
<1> DEFINE T == {k \in 1..Len(lines) : k < Len(lines) => ~LineAccepted(lines, k + 1)}
<1>1. Len(lines) \in Nat /\ Len(lines) >= 1
  OBVIOUS
<1>2. T \subseteq Nat /\ T # {}
  <2>1. Len(lines) \in T
    BY <1>1
  <2> QED BY <2>1
<1> HIDE DEF T
<1>3. PICK k \in T : \A m \in T : ~(<<m, k>> \in OpToRel(<, Nat))
  BY <1>2, WFMin, NatLessThanWellFounded
<1>4. \A m \in T : ~(m < k)
  BY <1>2, <1>3 DEF OpToRel
<1>5. \A n \in 2..k : LineAccepted(lines, n)
  <2> SUFFICES ASSUME NEW n \in 2..k, ~LineAccepted(lines, n) PROVE FALSE
    OBVIOUS
  <2>1. k \in 1..Len(lines)
    BY DEF T
  <2>2. n - 1 \in 1..Len(lines) /\ (n - 1) + 1 = n /\ n - 1 < k
    BY <1>1, <2>1
  <2>3. n - 1 \in T
    BY <2>2 DEF T
  <2> QED BY <1>4, <2>2, <2>3
<1>6. k \in 1..Len(lines) /\ (k < Len(lines) => ~LineAccepted(lines, k + 1))
  BY DEF T
<1> HIDE DEF T
<1> QED BY <1>5, <1>6 DEF LastAccepted

(***************************************************************************)
(* A text in which an entry at its place, with its own fingerprint, is the *)
(* entry that was serialised at that place.                                *)
(***************************************************************************)
Genuine(lines, history, now) ==
  /\ \E S : lines \in Seq(S)
  /\ lines # <<>>
  /\ lines[1] = [type |-> "header", now |-> now]
  /\ \A n \in 2..Len(lines) :
       /\ lines[n].type = "entry" /\ lines[n].seq = n - 1
       /\ lines[n].record.fingerprint = Fingerprint(lines[n].record.entry)
       => n <= Len(history) + 1 /\ lines[n].record = Stored(history[n - 1])

LEMMA RecoveredGenuine ==
  ASSUME NEW history \in Seq(Records), NEW now, NEW lines, Genuine(lines, history, now)
  PROVE  /\ LastAccepted(lines) \in 1..Len(lines)
         /\ LastAccepted(lines) <= Len(history) + 1
         /\ \A n \in 2..LastAccepted(lines) : LineAccepted(lines, n)
         /\ Recovered(lines, LastAccepted(lines)) =
              [i \in 1..(LastAccepted(lines) - 1) |->
                 [entry |-> history[i].entry, fingerprint |-> history[i].fingerprint,
                  retained |-> history[i].retained, historical |-> TRUE]]
<1> DEFINE last == LastAccepted(lines)
<1>1. PICK S : lines \in Seq(S)
  BY DEF Genuine
<1>2. last \in 1..Len(lines) /\ \A n \in 2..last : LineAccepted(lines, n)
  BY <1>1, LastExists DEF Genuine
<1> HIDE DEF last
<1>3. ASSUME NEW n \in 2..last
      PROVE  n <= Len(history) + 1 /\ lines[n].record = Stored(history[n - 1])
  <2>1. lines[n].type = "entry" /\ lines[n].seq = n - 1
        /\ lines[n].record.fingerprint = Fingerprint(lines[n].record.entry)
    BY <1>2 DEF LineAccepted, Continues, RecordAccepted
  <2>2. n \in 2..Len(lines)
    BY <1>1, <1>2
  <2> QED BY <2>1, <2>2 DEF Genuine
<1>4. last <= Len(history) + 1
  BY <1>1, <1>2, <1>3
<1>5. ASSUME NEW i \in 1..(last - 1)
      PROVE  /\ lines[i + 1].record.entry = history[i].entry
             /\ lines[i + 1].record.fingerprint = history[i].fingerprint
             /\ lines[i + 1].record.retained = history[i].retained
  <2>1. i + 1 \in 2..last /\ (i + 1) - 1 = i
    BY <1>1, <1>2
  <2>2. lines[i + 1].record = Stored(history[i])
    BY <1>3, <2>1
  <2> QED BY <2>2 DEF Stored
<1>6. Recovered(lines, last) =
        [i \in 1..(last - 1) |->
           [entry |-> history[i].entry, fingerprint |-> history[i].fingerprint,
            retained |-> history[i].retained, historical |-> TRUE]]
  BY <1>5 DEF Recovered
<1> QED BY <1>2, <1>4, <1>6 DEF last

\* The beginning of a sound history is sound.
LEMMA BeginningSound ==
  ASSUME NEW history, NEW now, Sound(history, now), NEW k \in 0..Len(history)
  PROVE  Sound([i \in 1..k |-> [entry |-> history[i].entry, fingerprint |-> history[i].fingerprint,
                                retained |-> history[i].retained, historical |-> TRUE]], now)
<1> DEFINE g == [i \in 1..k |-> [entry |-> history[i].entry, fingerprint |-> history[i].fingerprint,
                                 retained |-> history[i].retained, historical |-> TRUE]]
<1>1. history \in Seq(Records) /\ now \in Nat
  BY DEF Sound, Orderly
<1>2. \A i \in 1..k : history[i] \in Records /\ i \in DOMAIN history /\ i \in 1..Len(history)
  BY <1>1
<1>3. \A i \in 1..k : /\ g[i].entry = history[i].entry /\ g[i].fingerprint = history[i].fingerprint
                      /\ g[i].retained = history[i].retained /\ g[i] \in Records
  BY <1>2 DEF Records
<1>4. g \in Seq(Records) /\ Len(g) = k /\ DOMAIN g = 1..k
  BY <1>3
<1> HIDE DEF g
<1>5. Len(g) <= HistoryLimit
  BY <1>1, <1>4, JournalAssumption DEF Sound, Orderly
<1>6. ASSUME NEW i \in DOMAIN g PROVE Kept(g[i], now)
  BY <1>2, <1>3, <1>4, <1>6 DEF Sound, Orderly, Kept
<1>7. ASSUME NEW j \in DOMAIN g PROVE Earned(g, j, now)
  <2>1. Earned(history, j, now) /\ j \in Nat /\ j \in 1..Len(history)
    BY <1>2, <1>4 DEF Sound, Orderly
  <2>2. \A i \in 1..j : SameButPayload(g[i].entry, history[i].entry)
    BY <1>3, <1>4 DEF SameButPayload
  <2> QED BY <1>1, <1>4, <2>1, <2>2, StaysEarned
<1>8. NewestFirst(g, now)
  BY <1>2, <1>3, <1>4 DEF Sound, Orderly, NewestFirst
<1>9. Cardinality(RetainedOf(g)) <= MaxEntries
  <2>1. RetainedOf(g) \subseteq RetainedOf(history)
    BY <1>2, <1>3, <1>4 DEF RetainedOf
  <2>2. Cardinality(RetainedOf(g)) <= Cardinality(RetainedOf(history))
    BY <1>1, <2>1, RetainedFinite, FS_Subset
  <2>3. Cardinality(RetainedOf(history)) <= MaxEntries
    BY DEF Sound
  <2>4. Cardinality(RetainedOf(history)) \in Nat /\ Cardinality(RetainedOf(g)) \in Nat
    BY <1>1, <2>1, RetainedFinite
  <2> QED BY <2>2, <2>3, <2>4, JournalAssumption
<1>10. Sound(g, now)
  BY <1>4, <1>5, <1>6, <1>7, <1>8, <1>9 DEF Sound, Orderly
<1> QED BY <1>10 DEF g

(***************************************************************************)
(* Damage, kind by kind.                                                   *)
(***************************************************************************)
\* The text says it is complete: the last line is a footer for what is
\* before it, and all of that is accepted.
Finished(lines) ==
  /\ LastAccepted(lines) + 1 = Len(lines)
  /\ lines[Len(lines)].type = "footer"
  /\ lines[Len(lines)].count = Len(lines) - 2

Noticed(lines, history, now) ==
  Genuine(lines, history, now) /\ ~Finished(lines)

LEMMA CompleteIsFinished ==
  ASSUME NEW S, NEW given, given.lines \in Seq(S), given.lines # <<>>,
         Diagnosis(given).status = "COMPLETE"
  PROVE  Finished(given.lines) /\ given.torn # TRUE
<1> DEFINE lines == given.lines
           last == LastAccepted(lines)
<1>1. last \in 1..Len(lines) /\ Len(lines) \in Nat
  BY LastExists
<1> HIDE DEF lines, last
<1>2. /\ last # Len(lines) /\ lines[last + 1].type = "footer" /\ FooterFits(lines, last + 1)
      /\ ~(last + 1 < Len(lines)) /\ given.torn # TRUE
  BY DEF Diagnosis, lines, last
<1>3. last + 1 = Len(lines)
  BY <1>1, <1>2
<1> QED BY <1>1, <1>2, <1>3 DEF Finished, FooterFits, lines, last

LEMMA SpelledGenuine ==
  ASSUME NEW history \in Seq(Records), NEW now, NEW L, Spells(L, history, now)
  PROVE  Genuine(L, history, now)
<1>1. Len(history) \in Nat /\ Len(L) = Len(history) + 2 /\ L # <<>>
  BY DEF Spells
<1>2. ASSUME NEW n \in 2..Len(L), L[n].type = "entry"
      PROVE  n <= Len(history) + 1 /\ L[n].record = Stored(history[n - 1])
  <2>1. n # Len(history) + 2
    BY <1>2 DEF Spells
  <2>2. n \in 2..(Len(history) + 1)
    BY <1>1, <2>1
  <2> QED BY <2>2 DEF Spells
<1> QED BY <1>1, <1>2 DEF Genuine, Spells

LEMMA CutNoticed ==
  ASSUME NEW history \in Seq(Records), NEW now, NEW L, Spells(L, history, now), NEW n \in 1..Len(L)
  PROVE  /\ Genuine(SubSeq(L, 1, n), history, now)
         /\ n # Len(L) => ~Finished(SubSeq(L, 1, n))
         /\ n = Len(L) => SubSeq(L, 1, n) = L
<1> DEFINE G == SubSeq(L, 1, n)
<1>1. PICK S : L \in Seq(S)
  BY DEF Spells
<1>2. G \in Seq(S) /\ Len(G) = n /\ \A i \in 1..n : G[i] = L[i]
  BY <1>1
<1>3. Len(history) \in Nat /\ Len(L) = Len(history) + 2
  BY DEF Spells
<1>4. Genuine(L, history, now)
  BY SpelledGenuine
<1> HIDE DEF G
<1>5. \A i \in 2..Len(G) : i \in 2..Len(L) /\ G[i] = L[i]
  BY <1>1, <1>2
<1>6. G # <<>> /\ G[1] = L[1]
  BY <1>1, <1>2
<1>7. Genuine(G, history, now)
  BY <1>2, <1>4, <1>5, <1>6 DEF Genuine
<1>8. ASSUME n # Len(L) PROVE ~Finished(G)
  <2>1. G[Len(G)] = L[n] /\ (n = 1 \/ n \in 2..(Len(history) + 1))
    BY <1>1, <1>2, <1>3, <1>8
  <2>2. L[n].type # "footer"
    BY <2>1 DEF Spells
  <2> QED BY <2>1, <2>2 DEF Finished
<1>9. n = Len(L) => G = L
  BY <1>1, <1>2
<1> QED BY <1>7, <1>8, <1>9 DEF G

LEMMA Joined ==
  ASSUME NEW T, NEW front \in Seq(T), NEW back \in Seq(T)
  PROVE  /\ front \o back \in Seq(T) /\ Len(front \o back) = Len(front) + Len(back)
         /\ \A i \in 1..Len(front) : (front \o back)[i] = front[i]
         /\ \A i \in 1..Len(back) : (front \o back)[Len(front) + i] = back[i]
OBVIOUS

LEMMA WithoutOne ==
  ASSUME NEW S, NEW L \in Seq(S), NEW n \in 1..Len(L)
  PROVE  LET G == SubSeq(L, 1, n - 1) \o SubSeq(L, n + 1, Len(L))
         IN  /\ G \in Seq(S) /\ Len(G) = Len(L) - 1
             /\ \A i \in 1..(n - 1) : G[i] = L[i]
             /\ \A i \in n..(Len(L) - 1) : G[i] = L[i + 1]
<1> DEFINE A == SubSeq(L, 1, n - 1)
           B == SubSeq(L, n + 1, Len(L))
<1>1. Len(L) \in Nat /\ n \in Nat /\ n >= 1 /\ n <= Len(L)
  OBVIOUS
<1>2. A \in Seq(S) /\ Len(A) = n - 1 /\ \A i \in 1..(n - 1) : A[i] = L[i]
  OBVIOUS
<1>3. B \in Seq(S) /\ Len(B) = Len(L) - n /\ \A i \in 1..(Len(L) - n) : B[i] = L[n + i]
  OBVIOUS
<1> HIDE DEF A, B
<1>4. /\ A \o B \in Seq(S) /\ Len(A \o B) = Len(A) + Len(B)
      /\ \A i \in 1..Len(A) : (A \o B)[i] = A[i]
      /\ \A i \in 1..Len(B) : (A \o B)[Len(A) + i] = B[i]
  <2>1. A \in Seq(S) /\ B \in Seq(S)
    BY <1>2, <1>3
  <2> QED BY <2>1, Joined
<1> DEFINE G == A \o B
<1> HIDE DEF G
<1>5. /\ G \in Seq(S) /\ Len(G) = Len(A) + Len(B)
      /\ \A i \in 1..Len(A) : G[i] = A[i]
      /\ \A i \in 1..Len(B) : G[Len(A) + i] = B[i]
  BY <1>4, Zenon DEF G
<1>6. ASSUME NEW i \in n..(Len(L) - 1) PROVE G[i] = L[i + 1]
  <2>1. /\ i - (n - 1) \in 1..(Len(L) - n)
        /\ (n - 1) + (i - (n - 1)) = i /\ n + (i - (n - 1)) = i + 1
    BY <1>1
  <2>2. G[(n - 1) + (i - (n - 1))] = B[i - (n - 1)]
    BY <1>2, <1>3, <1>5, <2>1
  <2>3. B[i - (n - 1)] = L[n + (i - (n - 1))]
    BY <1>3, <2>1
  <2> QED BY <2>1, <2>2, <2>3
<1>7. Len(G) = Len(L) - 1
  BY <1>1, <1>2, <1>3, <1>5
<1>8. \A i \in 1..(n - 1) : G[i] = L[i]
  BY <1>2, <1>5
<1> QED BY <1>5, <1>6, <1>7, <1>8 DEF A, B, G

LEMMA LostNoticed ==
  ASSUME NEW history \in Seq(Records), NEW now, NEW L, Spells(L, history, now), NEW n \in 1..Len(L),
         NEW S, NEW G \in Seq(S), Len(G) = Len(L) - 1,
         \A i \in 1..(n - 1) : G[i] = L[i],
         \A i \in n..(Len(L) - 1) : G[i] = L[i + 1],
         G # <<>>, G[1].type = "header"
  PROVE  Noticed(G, history, now)
<1>2. Len(history) \in Nat /\ Len(L) = Len(history) + 2 /\ Len(L) \in Nat /\ n \in Nat /\ n >= 1
  BY DEF Spells
<1>5. Len(G) = Len(history) + 1
  BY <1>2
<1>6. n # 1
  <2> SUFFICES ASSUME n = 1 PROVE FALSE
    OBVIOUS
  <2>1. G[1] = L[2] /\ 2 \in 2..(Len(history) + 2)
    BY <1>2, <1>5
  <2>2. L[2].type # "header"
    <3>1. 2 = Len(history) + 2 \/ 2 \in 2..(Len(history) + 1)
      BY <1>2
    <3> QED BY <3>1 DEF Spells
  <2> QED BY <2>1, <2>2
<1>7. G[1] = L[1]
  BY <1>2, <1>5, <1>6
<1>8. ASSUME NEW i \in 2..Len(G), G[i].type = "entry", G[i].seq = i - 1
      PROVE  i <= Len(history) + 1 /\ G[i].record = Stored(history[i - 1])
  <2>1. CASE i < n
    <3>1. G[i] = L[i] /\ i \in 2..(Len(history) + 1)
      BY <1>2, <1>5, <2>1
    <3> QED BY <3>1 DEF Spells
  <2>2. CASE i >= n
    <3>1. G[i] = L[i + 1] /\ i + 1 \in 2..(Len(history) + 2)
      BY <1>2, <1>5, <2>2
    <3>2. i + 1 # Len(history) + 2
      BY <1>8, <3>1 DEF Spells
    <3>3. i + 1 \in 2..(Len(history) + 1)
      BY <1>2, <3>1, <3>2
    <3>4. L[i + 1].seq = (i + 1) - 1
      BY <3>3 DEF Spells
    <3> QED BY <1>2, <1>5, <1>8, <3>1, <3>4
  <2> QED BY <1>2, <1>5, <2>1, <2>2
<1>9. Genuine(G, history, now)
  BY <1>5, <1>7, <1>8 DEF Spells, Genuine
<1>10. ~Finished(G)
  <2>1. CASE n = Len(L)
    <3>1. G[Len(G)] = L[Len(L) - 1] /\ (Len(L) - 1 = 1 \/ Len(L) - 1 \in 2..(Len(history) + 1))
      BY <1>2, <1>5, <1>6, <2>1
    <3>2. L[Len(L) - 1].type # "footer"
      BY <3>1 DEF Spells
    <3> QED BY <3>1, <3>2 DEF Finished
  <2>2. CASE n # Len(L)
    <3>1. G[Len(G)] = L[Len(history) + 2]
      BY <1>2, <1>5, <2>2
    <3>2. G[Len(G)].count = Len(history) /\ Len(G) - 2 = Len(history) - 1
      BY <1>2, <1>5, <3>1 DEF Spells
    <3> QED BY <1>2, <3>2 DEF Finished
  <2> QED BY <2>1, <2>2
<1> QED BY <1>9, <1>10 DEF Noticed

LEMMA UnreadableNoticed ==
  ASSUME NEW history \in Seq(Records), NEW now, NEW L, Spells(L, history, now), NEW n \in 1..Len(L),
         n # 1
  PROVE  Noticed([L EXCEPT ![n] = Unreadable], history, now)
<1> DEFINE G == [L EXCEPT ![n] = Unreadable]
<1>1. PICK S : L \in Seq(S)
  BY DEF Spells
<1>2. Len(history) \in Nat /\ Len(L) = Len(history) + 2
  BY DEF Spells
<1>3. L \in Seq(S \union {Unreadable})
  BY <1>1
<1>4. /\ G \in Seq(S \union {Unreadable}) /\ Len(G) = Len(L)
      /\ G[n] = Unreadable /\ \A i \in 1..Len(L) : i # n => G[i] = L[i]
  BY <1>3
<1> HIDE DEF G
<1>5. Genuine(L, history, now) /\ Unreadable.type = "unreadable"
  BY SpelledGenuine DEF Unreadable
<1>6. \A i \in 2..Len(G) : G[i].type = "entry" => G[i] = L[i] /\ i \in 2..Len(L)
  BY <1>2, <1>4, <1>5
<1>7. G # <<>> /\ G[1] = L[1]
  BY <1>2, <1>4
<1>8. \E T : G \in Seq(T)
  BY <1>4
<1>9. Genuine(G, history, now)
  BY <1>5, <1>6, <1>7, <1>8 DEF Genuine
<1>10. ~Finished(G)
  <2> SUFFICES ASSUME Finished(G) PROVE FALSE
    OBVIOUS
  <2>1. n # Len(G)
    BY <1>4, <1>5 DEF Finished
  <2>2. n \in 2..LastAccepted(G)
    BY <1>2, <1>4, <1>9, <2>1, RecoveredGenuine DEF Finished
  <2>3. LineAccepted(G, n)
    BY <1>9, <2>2, RecoveredGenuine
  <2> QED BY <1>4, <1>5, <2>3 DEF LineAccepted
<1>11. Noticed(G, history, now)
  BY <1>9, <1>10 DEF Noticed
<1> QED BY <1>11 DEF G

Edited(lines, n) == [lines EXCEPT ![n].record.entry.state = "SUCCEEDED"]

LEMMA EditNoticed ==
  ASSUME NEW history \in Seq(Records), NEW now, NEW L, Spells(L, history, now), Plainly(L, history),
         \A i \in DOMAIN history : history[i].fingerprint = Fingerprint(history[i].entry),
         NEW n \in 2..(Len(L) - 1),
         Edited(L, n) # L
  PROVE  Noticed(Edited(L, n), history, now)
<1> DEFINE G == Edited(L, n)
           kept == history[n - 1]
           edited == [kept.entry EXCEPT !.state = "SUCCEEDED"]
           x == [L[n] EXCEPT !.record.entry.state = "SUCCEEDED"]
<1>1. PICK S : L \in Seq(S)
  BY DEF Spells
<1>2. Len(history) \in Nat /\ Len(L) = Len(history) + 2 /\ n \in 2..(Len(history) + 1) /\ n - 1 \in DOMAIN history
  BY DEF Spells
<1>3. L[n] = [type |-> "entry", seq |-> n - 1, previous |-> L[n].previous,
              record |-> Stored(kept), hash |-> L[n].hash]
  BY <1>2 DEF Plainly
<1>4. kept \in Records /\ kept.entry \in Entries /\ kept.fingerprint = Fingerprint(kept.entry)
  <2>1. kept \in Records
    BY <1>2
  <2> QED BY <1>2, <2>1 DEF Records
<1>5. Stored(kept) = [entry |-> kept.entry, fingerprint |-> kept.fingerprint, retained |-> kept.retained]
  BY DEF Stored
<1>6. G = [L EXCEPT ![n] = x]
  BY <1>1 DEF Edited
<1> HIDE DEF G, x
<1>7. L \in Seq(S \union {x}) /\ n \in 1..Len(L)
  BY <1>1, <1>2
<1>8. /\ G \in Seq(S \union {x}) /\ Len(G) = Len(L)
      /\ G[n] = x /\ \A i \in 1..Len(L) : i # n => G[i] = L[i]
  BY <1>6, <1>7
<1>9. /\ x.record.entry = edited /\ x.record.fingerprint = kept.fingerprint
  <2>1. x = [L[n] EXCEPT !.record = [Stored(kept) EXCEPT !.entry = edited]]
    BY <1>3, <1>5 DEF x
  <2>2. x.record = [Stored(kept) EXCEPT !.entry = edited]
    BY <1>3, <2>1
  <2>3. x.record.entry = edited /\ x.record.fingerprint = Stored(kept).fingerprint
    BY <1>5, <2>2
  <2> QED BY <1>5, <2>3
<1>10. x.record.fingerprint # Fingerprint(x.record.entry)
  <2> SUFFICES ASSUME kept.fingerprint = Fingerprint(edited) PROVE FALSE
    BY <1>9
  <2>1. edited = kept.entry
    BY <1>4 DEF Fingerprint
  <2>2. [Stored(kept) EXCEPT !.entry = edited] = Stored(kept)
    BY <1>5, <2>1
  <2>3. x = L[n]
    <3>1. x = [L[n] EXCEPT !.record = [Stored(kept) EXCEPT !.entry = edited]]
      BY <1>3, <1>5 DEF x
    <3> QED BY <1>3, <2>2, <3>1
  <2>4. G = L
    BY <1>1, <1>6, <1>7, <2>3
  <2> QED BY <2>4 DEF G
<1>11. Genuine(L, history, now)
  BY SpelledGenuine
<1>12. G # <<>> /\ G[1] = L[1] /\ (\E T : G \in Seq(T))
  BY <1>2, <1>8
<1>13. ASSUME NEW i \in 2..Len(G), G[i].record.fingerprint = Fingerprint(G[i].record.entry)
       PROVE  i \in 2..Len(L) /\ G[i] = L[i]
  BY <1>2, <1>8, <1>10, <1>13
<1>14. Genuine(G, history, now)
  BY <1>11, <1>12, <1>13 DEF Genuine
<1>15. ~Finished(G)
  <2> SUFFICES ASSUME Finished(G) PROVE FALSE
    OBVIOUS
  <2>1. n \in 2..LastAccepted(G)
    BY <1>2, <1>8, <1>14, RecoveredGenuine DEF Finished
  <2>2. LineAccepted(G, n)
    BY <1>14, <2>1, RecoveredGenuine
  <2> QED BY <1>8, <1>10, <2>2 DEF LineAccepted, RecordAccepted
<1>16. Noticed(G, history, now)
  BY <1>14, <1>15 DEF Noticed
<1> QED BY <1>16 DEF G

LEMMA TrailingNoticed ==
  ASSUME NEW history \in Seq(Records), NEW now, NEW L, Spells(L, history, now),
         NEW x, x.type # "entry"
  PROVE  Noticed(Append(L, x), history, now)
<1> DEFINE G == Append(L, x)
<1>1. PICK S : L \in Seq(S)
  BY DEF Spells
<1>2. Len(history) \in Nat /\ Len(L) = Len(history) + 2
  BY DEF Spells
<1>3. L \in Seq(S \union {x})
  BY <1>1
<1>4. /\ G \in Seq(S \union {x}) /\ Len(G) = Len(L) + 1
      /\ G[Len(L) + 1] = x /\ \A i \in 1..Len(L) : G[i] = L[i]
  BY <1>3
<1> HIDE DEF G
<1>5. Genuine(L, history, now)
  BY SpelledGenuine
<1>6. \A i \in 2..Len(G) : G[i].type = "entry" => G[i] = L[i] /\ i \in 2..Len(L)
  BY <1>2, <1>4
<1>7. G # <<>> /\ G[1] = L[1] /\ (\E T : G \in Seq(T))
  BY <1>2, <1>4
<1>8. Genuine(G, history, now)
  BY <1>5, <1>6, <1>7 DEF Genuine
<1>9. ~Finished(G)
  <2> SUFFICES ASSUME Finished(G) PROVE FALSE
    OBVIOUS
  <2>1. Len(L) \in 2..LastAccepted(G)
    BY <1>2, <1>4, <1>8, RecoveredGenuine DEF Finished
  <2>2. LineAccepted(G, Len(L))
    BY <1>8, <2>1, RecoveredGenuine
  <2>3. G[Len(L)].type = "footer"
    BY <1>2, <1>4 DEF Spells
  <2> QED BY <2>2, <2>3 DEF LineAccepted
<1>10. Noticed(G, history, now)
  BY <1>8, <1>9 DEF Noticed
<1> QED BY <1>10 DEF G

LEMMA DamageNoticed ==
  ASSUME NEW history \in Seq(Records), NEW now,
         \A i \in DOMAIN history : history[i].fingerprint = Fingerprint(history[i].entry),
         NEW given \in Damaged(Serialized(history, now)), HeaderReadable(given)
  PROVE  Genuine(given.lines, history, now) /\ Diagnosis(given).status # "COMPLETE"
<1> DEFINE whole == Serialized(history, now)
           L == whole.lines
           G == given.lines
           cut(n) == SubSeq(L, 1, n)
           without(n) == SubSeq(L, 1, n - 1) \o SubSeq(L, n + 1, Len(L))
           edited(n) == Edited(L, n)
           others == {without(n) : n \in 1..Len(L)}
                       \union {[L EXCEPT ![n] = Unreadable] : n \in 1..Len(L)}
                       \union {edited(n) : n \in 2..(Len(L) - 1)}
                       \union {Append(L, Unreadable), Append(L, L[Len(L)])}
<1>1. Spells(L, history, now) /\ Plainly(L, history) /\ whole = [lines |-> L, torn |-> FALSE]
  BY SerializedSpells DEF Serialized
<1>2. /\ given \in [lines : {cut(n) : n \in 0..Len(L)}, torn : BOOLEAN] \union [lines : others, torn : {FALSE}]
      /\ given # whole
  BY DEF Damaged, Edited
<1> HIDE DEF whole, L, cut, without, edited, others
<1>3. PICK S : L \in Seq(S)
  BY <1>1 DEF Spells
<1>4. Len(L) \in Nat /\ Len(L) = Len(history) + 2 /\ Len(history) \in Nat
  BY <1>1 DEF Spells
<1>5. G # <<>> /\ G[1].type = "header"
  BY DEF HeaderReadable
<1>6. ASSUME Noticed(G, history, now)
      PROVE  Genuine(G, history, now) /\ Diagnosis(given).status # "COMPLETE"
  BY <1>5, <1>6, CompleteIsFinished DEF Noticed, Genuine
<1>7. CASE given \in [lines : {cut(n) : n \in 0..Len(L)}, torn : BOOLEAN]
  <2>1. PICK n \in 0..Len(L) : G = SubSeq(L, 1, n)
    BY <1>7 DEF cut
  <2>2. n # 0
    <3> SUFFICES ASSUME n = 0 PROVE FALSE
      OBVIOUS
    <3>1. SubSeq(L, 1, 0) = <<>>
      BY <1>3
    <3> QED BY <1>5, <2>1, <3>1
  <2>3. /\ Genuine(G, history, now)
        /\ n # Len(L) => ~Finished(G)
        /\ n = Len(L) => G = L
    BY <1>1, <1>4, <2>1, <2>2, CutNoticed
  <2>4. CASE n # Len(L)
    BY <1>6, <2>3, <2>4 DEF Noticed
  <2>5. CASE n = Len(L)
    <3>1. given = [lines |-> L, torn |-> given.torn] /\ given.torn \in BOOLEAN
      BY <1>7, <2>3, <2>5
    <3>2. given.torn = TRUE
      BY <1>1, <1>2, <3>1
    <3> QED BY <1>5, <2>3, <3>2, CompleteIsFinished DEF Genuine
  <2> QED BY <2>4, <2>5
<1>8. CASE given \in [lines : others, torn : {FALSE}]
  <2>1. G \in others /\ given = [lines |-> G, torn |-> FALSE]
    BY <1>8
  <2>2. G # L
    BY <1>1, <1>2, <2>1
  <2>3. CASE \E n \in 1..Len(L) : G = without(n)
    <3>1. PICK n \in 1..Len(L) : G = SubSeq(L, 1, n - 1) \o SubSeq(L, n + 1, Len(L))
      BY <2>3 DEF without
    <3>2. /\ G \in Seq(S) /\ Len(G) = Len(L) - 1
          /\ \A i \in 1..(n - 1) : G[i] = L[i]
          /\ \A i \in n..(Len(L) - 1) : G[i] = L[i + 1]
      BY <1>3, <3>1, WithoutOne
    <3> QED BY <1>1, <1>5, <1>6, <3>2, LostNoticed
  <2>4. CASE \E n \in 1..Len(L) : G = [L EXCEPT ![n] = Unreadable]
    <3>1. PICK n \in 1..Len(L) : G = [L EXCEPT ![n] = Unreadable]
      BY <2>4
    <3>2. n # 1
      BY <1>3, <1>4, <1>5, <3>1 DEF Unreadable
    <3> QED BY <1>1, <1>6, <3>1, <3>2, UnreadableNoticed
  <2>5. CASE \E n \in 2..(Len(L) - 1) : G = edited(n)
    <3>1. PICK n \in 2..(Len(L) - 1) : G = Edited(L, n)
      BY <2>5 DEF edited
    <3> QED BY <1>1, <1>6, <2>2, <3>1, EditNoticed
  <2>6. CASE G = Append(L, Unreadable)
    <3>1. Unreadable.type # "entry"
      BY DEF Unreadable
    <3> QED BY <1>1, <1>6, <2>6, <3>1, TrailingNoticed
  <2>7. CASE G = Append(L, L[Len(L)])
    <3>1. L[Len(L)].type # "entry"
      BY <1>1, <1>4 DEF Spells
    <3> QED BY <1>1, <1>6, <2>7, <3>1, TrailingNoticed
  <2> QED BY <2>1, <2>3, <2>4, <2>5, <2>6, <2>7 DEF others
<1> QED BY <1>2, <1>7, <1>8

(***************************************************************************)
(* The invariant is inductive.                                             *)
(***************************************************************************)
LEMMA InitIInv == Init => IInv
<1> SUFFICES ASSUME Init PROVE IInv
  OBVIOUS
<1>1. records = <<>> /\ mark = 0 /\ text = None /\ status = "open"
      /\ reply = [op |-> "create", answer |-> "OK"]
  BY DEF Init
<1>2. records \in Seq(Records) /\ Len(records) = 0 /\ DOMAIN records = {}
  BY <1>1
<1>3. RetainedOf(records) = {}
  BY <1>2 DEF RetainedOf
<1>4. Cardinality(RetainedOf(records)) = 0
  BY <1>3, FS_EmptySet
<1>5. Sound(records, mark)
  BY <1>1, <1>2, <1>4, JournalAssumption DEF Sound, Orderly, NewestFirst
<1>6. reply \in Replies
  BY <1>1 DEF Replies, Answers
<1> QED BY <1>1, <1>5, <1>6 DEF IInv, Written

LEMMA AppendIInv ==
  ASSUME IInv, NEW input \in Inputs, NEW now \in Times, AppendEntry(input, now)
  PROVE  IInv'
<1>1. status' = status /\ text' = text /\ status \in {"open", "sealed", "none"}
  BY DEF AppendEntry, IInv
<1>2. reply' \in Replies
  <2>1. Verdict(input, now) \in Answers
    BY DEF Verdict, Answers
  <2> QED BY <2>1 DEF AppendEntry, Replies
<1>3. Sound(records', mark')
  <2>1. CASE Verdict(input, now) = "APPENDED"
    <3>1. Orderly(Append(records, NewRecord(input)), now) /\ now \in Nat /\ now <= MaxSafe
      BY <2>1, AppendedOrderly DEF IInv
    <3>2. records' = Pruned(Append(records, NewRecord(input)), now) /\ mark' = now
      BY <2>1 DEF AppendEntry
    <3> QED BY <3>1, <3>2, PrunedSound
  <2>2. CASE Verdict(input, now) # "APPENDED"
    BY <2>2 DEF AppendEntry, IInv
  <2> QED BY <2>1, <2>2
<1>4. Written'
  BY <1>1 DEF IInv, Written
<1> QED BY <1>1, <1>2, <1>3, <1>4 DEF IInv

LEMMA AdvanceSound ==
  ASSUME IInv, NEW op \in {"list", "retain", "serialize"}, NEW now \in Times, Advance(op, now)
  PROVE  /\ status' \in {"open", "sealed", "none"} /\ reply' \in Replies /\ Sound(records', mark')
         /\ TimeFits(now) => mark' = now /\ records' = Pruned(records, now) /\ now \in Nat
<1>1. mark \in Nat /\ Orderly(records, mark)
  BY DEF IInv, Sound, Orderly
<1>2. CASE TimeFits(now)
  <2>1. now \in Nat /\ mark <= now /\ now <= MaxSafe
    BY <1>2, JournalAssumption DEF TimeFits
  <2>2. records' = Pruned(records, now) /\ mark' = now
    BY <1>2 DEF Advance
  <2>3. Sound(records', mark')
    BY <1>1, <2>1, <2>2, PrunedSound
  <2> QED BY <1>2, <2>1, <2>2, <2>3 DEF Advance, IInv, Replies, Answers
<1>3. CASE ~TimeFits(now)
  BY <1>3 DEF Advance, IInv, Replies, Answers
<1> QED BY <1>2, <1>3

LEMMA SerializeIInv ==
  ASSUME IInv, NEW now \in Times, Serialize(now)
  PROVE  IInv'
<1>1. CASE Closed
  <2>1. UNCHANGED <<status, records, mark, text>> /\ reply' \in Replies
    BY <1>1 DEF Serialize, Replies, Answers
  <2> QED BY <2>1 DEF IInv, Written
<1>2. CASE ~Closed
  <2>1. Advance("serialize", now)
        /\ text' = IF TimeFits(now) THEN Serialized(Pruned(records, now), now) ELSE text
    BY <1>2 DEF Serialize
  <2>2. /\ status' \in {"open", "sealed", "none"} /\ reply' \in Replies /\ Sound(records', mark')
        /\ TimeFits(now) => mark' = now /\ records' = Pruned(records, now) /\ now \in Nat
    BY <2>1, AdvanceSound
  <2>3. CASE TimeFits(now)
    <3>1. text' = Serialized(records', mark') /\ records' \in Seq(Records) /\ mark' \in Nat
      BY <2>1, <2>2, <2>3 DEF Sound, Orderly
    <3>2. Written'
      BY <2>2, <3>1 DEF Written
    <3> QED BY <2>2, <3>2 DEF IInv
  <2>4. CASE ~TimeFits(now)
    <3>1. text' = text
      BY <2>1, <2>4
    <3>2. Written'
      BY <3>1 DEF IInv, Written
    <3> QED BY <2>2, <3>2 DEF IInv
  <2> QED BY <2>3, <2>4
<1> QED BY <1>1, <1>2

LEMMA ListIInv ==
  ASSUME IInv, NEW now \in Times, List(now) \/ Retain(now)
  PROVE  IInv'
<1>1. (Advance("list", now) \/ Advance("retain", now)) /\ text' = text
  BY DEF List, Retain
<1>2. status' \in {"open", "sealed", "none"} /\ reply' \in Replies /\ Sound(records', mark')
  BY <1>1, AdvanceSound
<1>3. Written'
  BY <1>1 DEF IInv, Written
<1> QED BY <1>2, <1>3 DEF IInv

LEMMA DiagnosisType ==
  ASSUME NEW given, LastAccepted(given.lines) \in Nat
  PROVE  Diagnosis(given) \in Diagnoses
BY DEF Diagnosis, Diagnoses

LEMMA ReopenIInv ==
  ASSUME IInv, text # None, NEW given \in Damaged(text) \union {text}, Reopen(given)
  PROVE  IInv'
<1>1. PICK history \in Seq(Records), now \in Nat : Sound(history, now) /\ text = Serialized(history, now)
  BY DEF IInv, Written
<1>2. text' = text /\ Written'
  BY DEF Reopen, IInv, Written
<1>3. CASE ~HeaderReadable(given)
  <2>1. records' = <<>> /\ mark' = 0 /\ status' = "none"
        /\ reply' = [op |-> "reopen", answer |-> [status |-> "INVALID", line |-> 1, reason |-> "HEADER"]]
    BY <1>3 DEF Reopen
  <2>2. records' \in Seq(Records) /\ Len(records') = 0 /\ DOMAIN records' = {}
    BY <2>1
  <2>3. RetainedOf(records') = {}
    BY <2>2 DEF RetainedOf
  <2>4. Cardinality(RetainedOf(records')) = 0
    BY <2>3, FS_EmptySet
  <2>5. Sound(records', mark')
    BY <2>1, <2>2, <2>4, JournalAssumption DEF Sound, Orderly, NewestFirst
  <2>6. reply' \in Replies
    BY <2>1 DEF Replies, Diagnoses
  <2> QED BY <1>2, <2>1, <2>5, <2>6 DEF IInv
<1>4. CASE HeaderReadable(given)
  <2>1. Genuine(given.lines, history, now)
    <3>1. CASE given = text
      BY <1>1, <3>1, SerializedSpells, SpelledGenuine
    <3>2. CASE given \in Damaged(text)
      <4>1. \A i \in DOMAIN history : history[i].fingerprint = Fingerprint(history[i].entry)
        BY <1>1 DEF Sound, Orderly, Kept
      <4> QED BY <1>1, <1>4, <3>2, <4>1, DamageNoticed
    <3> QED BY <3>1, <3>2
  <2> DEFINE last == LastAccepted(given.lines)
  <2>2. /\ last \in Nat /\ last - 1 \in 0..Len(history)
        /\ Recovered(given.lines, last) =
             [i \in 1..(last - 1) |->
                [entry |-> history[i].entry, fingerprint |-> history[i].fingerprint,
                 retained |-> history[i].retained, historical |-> TRUE]]
    <3>1. /\ last \in 1..Len(given.lines) /\ last <= Len(history) + 1
          /\ Recovered(given.lines, last) =
             [i \in 1..(last - 1) |->
                [entry |-> history[i].entry, fingerprint |-> history[i].fingerprint,
                 retained |-> history[i].retained, historical |-> TRUE]]
      BY <2>1, RecoveredGenuine
    <3>2. Len(given.lines) \in Nat /\ Len(history) \in Nat
      BY <2>1 DEF Genuine
    <3> QED BY <3>1, <3>2
  <2> HIDE DEF last
  <2>3. Sound(Recovered(given.lines, last), now)
    BY <1>1, <2>2, BeginningSound
  <2>4. records' = Recovered(given.lines, last) /\ mark' = now
    BY <1>4, <2>1 DEF Reopen, Genuine, last
  <2>5. status' \in {"open", "sealed"}
    BY <1>4 DEF Reopen
  <2>6. reply' \in Replies
    <3>1. Diagnosis(given) \in Diagnoses
      BY <2>2, DiagnosisType DEF last
    <3> QED BY <1>4, <3>1 DEF Reopen, Replies
  <2> QED BY <1>2, <2>3, <2>4, <2>5, <2>6 DEF IInv
<1> QED BY <1>3, <1>4

LEMMA NextIInv == IInv /\ [Next]_vars => IInv'
<1> SUFFICES ASSUME IInv, [Next]_vars PROVE IInv'
  OBVIOUS
<1>1. ASSUME NEW now \in Times, NEW input \in Inputs, AppendEntry(input, now) PROVE IInv'
  BY <1>1, AppendIInv
<1>2. ASSUME NEW now \in Times, List(now) \/ Retain(now) PROVE IInv'
  BY <1>2, ListIInv
<1>3. ASSUME NEW now \in Times, Serialize(now) PROVE IInv'
  BY <1>3, SerializeIInv
<1>4. CASE Restart
  BY <1>4, ReopenIInv DEF Restart
<1>5. CASE UNCHANGED vars
  BY <1>5 DEF vars, IInv, Written
<1> QED BY <1>1, <1>2, <1>3, <1>4, <1>5 DEF Next

LEMMA Invariant == Spec => []IInv
BY InitIInv, NextIInv, PTL DEF Spec

(***************************************************************************)
(* What follows from it.                                                   *)
(***************************************************************************)
\* An entry is held once, as it was accepted or without its payload, and
\* the answers are the ones the code gives.
THEOREM JournalTypes == Spec => []JournalTypeOK
<1>1. IInv => JournalTypeOK
  <2> SUFFICES ASSUME IInv PROVE JournalTypeOK
    OBVIOUS
  <2>1. records \in Seq(Records) /\ Orderly(records, mark)
    BY DEF IInv, Sound, Orderly
  <2>2. ASSUME NEW i \in DOMAIN records
        PROVE  /\ records[i].entry \in Keepable /\ EntryAccepted(records[i].entry, mark)
               /\ records[i].retained \in BOOLEAN /\ records[i].historical \in BOOLEAN
    <3>1. records[i] \in Records /\ Kept(records[i], mark)
      BY <2>1 DEF Orderly
    <3> QED BY <3>1 DEF Records, Kept
  <2>3. Len(records) <= HistoryLimit /\ mark \in Nat /\ mark <= MaxSafe
    BY <2>1 DEF Orderly
  <2>4. reply \in [op : {"create", "append", "list", "retain", "serialize"}, answer : Answers]
                   \union [op : {"reopen"}, answer : Diagnoses]
    BY DEF IInv, Replies
  <2> QED BY <2>2, <2>3, <2>4 DEF JournalTypeOK, IInv
<1> QED BY <1>1, Invariant, PTL

\* Retention keeps at most maxEntries payloads, and the newest ones.
THEOREM RetentionKeepsTheNewest == Spec => []NewestRetained
<1>1. IInv => NewestRetained
  BY DEF IInv, Sound, Orderly, NewestFirst, NewestRetained
<1> QED BY <1>1, Invariant, PTL

\* However often the journal was reopened, a retry in it follows an attempt
\* that has come to an end, and it is the only one for its attempt.
THEOREM RetriesAreEarned == Spec => []RetriesFollowEnds
<1>1. IInv => RetriesFollowEnds
  <2> SUFFICES ASSUME IInv, NEW j \in DOMAIN records
               PROVE  /\ \A i \in 1..(j - 1) :
                           /\ records[i].entry.id # records[j].entry.id
                           /\ records[j].entry.retryOf # None
                                /\ records[i].entry.retryOf = records[j].entry.retryOf
                                => records[i].entry.attempt # records[j].entry.attempt
                      /\ records[j].entry.retryOf # None =>
                           \E i \in 1..(j - 1) :
                             /\ records[i].entry.id = records[j].entry.retryOf
                             /\ records[i].entry.runId = records[j].entry.runId
                             /\ records[i].entry.attempt < records[j].entry.attempt
                             /\ Liveness(records, i, mark) \notin {"QUEUED", "RUNNING", "UNKNOWN"}
    BY DEF RetriesFollowEnds
  <2>1. records \in Seq(Records) /\ Earned(records, j, mark)
    BY DEF IInv, Sound, Orderly
  <2>2. ASSUME NEW i \in 1..(j - 1),
               \/ records[i].entry.state \in Ended
               \/ Expired(records[i].entry, mark)
               \/ \E k \in 1..(j - 1) : records[k].entry.revokes = records[i].entry.id
        PROVE  Liveness(records, i, mark) \notin {"QUEUED", "RUNNING", "UNKNOWN"}
    <3>1. CASE \E k \in 1..(j - 1) : records[k].entry.revokes = records[i].entry.id
      <4>1. Revoked(records, records[i].entry.id)
        BY <2>1, <3>1 DEF Revoked
      <4> QED BY <4>1 DEF Liveness
    <3>2. CASE records[i].entry.state \in Ended
      BY <3>2 DEF Liveness, Ended
    <3>3. CASE Expired(records[i].entry, mark)
      BY <3>3 DEF Liveness, Ended
    <3> QED BY <2>2, <3>1, <3>2, <3>3
  <2>3. ASSUME records[j].entry.retryOf # None
        PROVE  \E i \in 1..(j - 1) :
                 /\ records[i].entry.id = records[j].entry.retryOf
                 /\ records[i].entry.runId = records[j].entry.runId
                 /\ records[i].entry.attempt < records[j].entry.attempt
                 /\ Liveness(records, i, mark) \notin {"QUEUED", "RUNNING", "UNKNOWN"}
    BY <2>1, <2>2, <2>3 DEF Earned
  <2> QED BY <2>1, <2>3 DEF Earned
<1> QED BY <1>1, Invariant, PTL

\* A recovered history is spelled out of the one that was serialised.
LEMMA AsWritten ==
  ASSUME NEW history \in Seq(Records), NEW L, NEW now, Spells(L, history, now)
  PROVE  Recovered(L, Len(L) - 1) =
           [i \in 1..Len(history) |->
              [entry |-> history[i].entry, fingerprint |-> history[i].fingerprint,
               retained |-> history[i].retained, historical |-> TRUE]]
<1>1. Len(history) \in Nat /\ Len(L) = Len(history) + 2 /\ (Len(L) - 1) - 1 = Len(history)
  BY DEF Spells
<1>2. ASSUME NEW i \in 1..Len(history)
      PROVE  /\ L[i + 1].record.entry = history[i].entry
             /\ L[i + 1].record.fingerprint = history[i].fingerprint
             /\ L[i + 1].record.retained = history[i].retained
  <2>1. i + 1 \in 2..(Len(history) + 1) /\ (i + 1) - 1 = i
    BY <1>1
  <2>2. L[i + 1].record = Stored(history[i])
    BY <2>1 DEF Spells
  <2> QED BY <2>2 DEF Stored
<1> QED BY <1>1, <1>2 DEF Recovered

\* A damaged text is never taken for complete, and what is recovered from
\* it is a beginning of what was written.
THEOREM DamageAlwaysNoticed == Spec => []DamageIsNoticed
<1>1. IInv => DamageIsNoticed
  <2> SUFFICES ASSUME IInv, text # None,
                      NEW given \in Damaged(text), HeaderReadable(given)
               PROVE  /\ Diagnosis(given).status # "COMPLETE"
                      /\ IsPrefix(Recovered(given.lines, LastAccepted(given.lines)),
                                  Recovered(text.lines, Len(text.lines) - 1))
    BY DEF DamageIsNoticed
  <2>1. PICK history \in Seq(Records), now \in Nat : Sound(history, now) /\ text = Serialized(history, now)
    BY DEF IInv, Written
  <2> DEFINE back(i) == [entry |-> history[i].entry, fingerprint |-> history[i].fingerprint,
                         retained |-> history[i].retained, historical |-> TRUE]
             last == LastAccepted(given.lines)
             part == Recovered(given.lines, last)
             whole == Recovered(text.lines, Len(text.lines) - 1)
  <2>2. \A i \in DOMAIN history : history[i].fingerprint = Fingerprint(history[i].entry)
    BY <2>1 DEF Sound, Orderly, Kept
  <2>3. Genuine(given.lines, history, now) /\ Diagnosis(given).status # "COMPLETE"
    BY <2>1, <2>2, DamageNoticed
  <2>4. whole = [i \in 1..Len(history) |-> back(i)]
    BY <2>1, SerializedSpells, AsWritten
  <2>5. /\ last \in 1..Len(given.lines) /\ last <= Len(history) + 1
        /\ part = [i \in 1..(last - 1) |-> back(i)]
    BY <2>3, RecoveredGenuine
  <2>6. Len(given.lines) \in Nat /\ Len(history) \in Nat
    BY <2>3 DEF Genuine
  <2> HIDE DEF last, part, whole, back
  <2>7. /\ last - 1 \in 0..Len(history)
        /\ Len(part) = last - 1 /\ Len(whole) = Len(history)
    BY <2>4, <2>5, <2>6
  <2>8. SubSeq(part, 1, Len(part)) = SubSeq(whole, 1, Len(part))
    <3>1. \A i \in 1..(last - 1) : part[i] = back(i) /\ whole[i] = back(i)
      BY <2>4, <2>5, <2>6, <2>7
    <3> QED BY <2>7, <3>1
  <2>9. IsPrefix(part, whole)
    BY <2>6, <2>7, <2>8 DEF IsPrefix
  <2> QED BY <2>3, <2>9 DEF last, part, whole
<1> QED BY <1>1, Invariant, PTL

LEMMA SameIdentity ==
  ASSUME NEW e \in Entries, NEW f \in Entries, WithoutPayload(e) = WithoutPayload(f)
  PROVE  SameButPayload(e, f)
BY WithoutPayloads DEF SameButPayload

\* An id names one record.
LEMMA OnlyRecord ==
  ASSUME IInv, NEW i \in DOMAIN records
  PROVE  RecordOf(records, records[i].entry.id) = records[i]
<1>1. records \in Seq(Records) /\ DOMAIN records = 1..Len(records) /\ Len(records) \in Nat
  BY DEF IInv, Sound, Orderly
<1>2. \A j, k \in DOMAIN records : j < k => records[j].entry.id # records[k].entry.id
  BY <1>1 DEF IInv, Sound, Orderly, Earned
<1>3. \A j \in DOMAIN records : records[j].entry.id = records[i].entry.id => j = i
  <2> SUFFICES ASSUME NEW j \in DOMAIN records, records[j].entry.id = records[i].entry.id, j # i
               PROVE  FALSE
    OBVIOUS
  <2>1. j < i \/ i < j
    BY <1>1
  <2> QED BY <1>2, <2>1
<1> QED BY <1>3 DEF RecordOf

\* Repeating an append adds nothing, and says so.
THEOREM ReplaysAreDuplicates == Spec => []ReplayIsDuplicate
<1>1. IInv => ReplayIsDuplicate
  <2> SUFFICES ASSUME IInv, status = "open", NEW input \in Inputs, NEW i \in DOMAIN records,
                      Identity(records[i]) = WithoutPayload(input)
               PROVE  /\ records[i].retained /\ records[i].entry = Redacted(input)
                           => Verdict(input, mark) = "DUPLICATE"
                      /\ ~records[i].retained =>
                           Verdict(input, mark) = IF input.payload = None THEN "DUPLICATE" ELSE "CONFLICT"
    BY DEF ReplayIsDuplicate
  <2> DEFINE e == records[i].entry
             f == Redacted(input)
  <2>1. mark \in Nat /\ mark <= MaxSafe /\ Kept(records[i], mark)
    BY DEF IInv, Sound, Orderly
  <2>2. e \in Keepable /\ e \in Entries /\ input \in Entries /\ f \in Entries
    BY <2>1, Keeping, InputAssumption, Redactions DEF Kept
  <2>3. SameButPayload(e, input)
    BY <2>2, SameIdentity DEF Identity
  <2>4. SameButPayload(f, input) /\ SameButPayload(input, input)
    BY <2>2, Redactions DEF SameButPayload
  <2>5. EntryAccepted(input, mark)
    BY <2>1, <2>2, <2>3, AcceptedLater DEF Kept
  <2>6. f.id = e.id /\ f.project = e.project
    BY <2>3, <2>4 DEF SameButPayload
  <2>7. e.project = ProjectId
    <3>1. CASE \E g \in Inputs : g.project = ProjectId /\ e = Redacted(g)
      BY <3>1, InputAssumption, Redactions DEF SameButPayload
    <3>2. CASE \E g \in Inputs : g.project = ProjectId /\ e = WithoutPayload(g)
      BY <3>2, InputAssumption, WithoutPayloads DEF SameButPayload
    <3> QED BY <2>2, <3>1, <3>2 DEF Keepable
  <2>8. RecordOf(records, f.id).fingerprint = Fingerprint(e)
    BY <2>1, <2>6, OnlyRecord DEF Kept
  <2>9. f.id \in Ids(records)
    BY <2>6 DEF Ids
  <2>10. Verdict(input, mark) = IF Fingerprint(e) = Fingerprint(f) THEN "DUPLICATE" ELSE "CONFLICT"
    BY <2>1, <2>5, <2>6, <2>7, <2>8, <2>9 DEF Verdict, TimeFits, Closed, Known
  <2>11. Fingerprint(e) = Fingerprint(f) <=> e = f
    BY DEF Fingerprint
  <2>12. ASSUME ~records[i].retained
         PROVE  e = f <=> input.payload = None
    <3>1. e.payload = None
      BY <2>1, <2>12 DEF Kept
    <3>2. e = WithoutPayload(input)
      BY <2>2, <3>1, WithoutPayloads DEF Identity
    <3>3. input.payload = None => f = input /\ input = WithoutPayload(input)
      BY <2>2, Redactions, WithoutPayloads
    <3>4. input.payload # None => f.payload # None
      BY <2>2, Redactions
    <3> QED BY <3>1, <3>2, <3>3, <3>4
  <2> QED BY <2>10, <2>11, <2>12
<1> QED BY <1>1, Invariant, PTL

(***************************************************************************)
(* The steps between restarts.                                             *)
(***************************************************************************)
\* A history that continues another, which may have lost payloads since.
Continued(before, after) ==
  /\ before \in Seq(Records) /\ after \in Seq(Records)
  /\ Len(before) <= Len(after)
  /\ \A i \in 1..Len(before) :
       /\ SameButPayload(after[i].entry, before[i].entry)
       /\ Identity(after[i]) = Identity(before[i])
       /\ after[i].retained => Stored(after[i]) = Stored(before[i])

LEMMA Itself ==
  ASSUME NEW history \in Seq(Records)
  PROVE  Continued(history, history)
BY DEF Continued, SameButPayload

LEMMA PrunedContinued ==
  ASSUME NEW history \in Seq(Records), NEW now \in Nat
  PROVE  Continued(history, Pruned(history, now))
<1> DEFINE P == Pruned(history, now)
<1>1. ASSUME NEW i \in 1..Len(history)
      PROVE  /\ SameButPayload(P[i].entry, history[i].entry)
             /\ Identity(P[i]) = Identity(history[i])
             /\ P[i].retained => Stored(P[i]) = Stored(history[i])
  <2>1. /\ SameButPayload(P[i].entry, history[i].entry)
        /\ P[i] = history[i] \/ P[i] = Retired(history[i])
    BY PrunedFields
  <2>2. CASE P[i] = Retired(history[i])
    <3>1. history[i] \in Records /\ history[i].entry \in Entries
      <4>1. history[i] \in Records
        OBVIOUS
      <4> QED BY <4>1 DEF Records
    <3>2. /\ P[i].entry = WithoutPayload(history[i].entry)
          /\ P[i].retained = FALSE
      BY <2>2, <3>1, RetiredRecord
    <3>3. Identity(P[i]) = Identity(history[i])
      BY <3>1, <3>2, WithoutPayloads DEF Identity
    <3> QED BY <2>1, <3>2, <3>3
  <2> QED BY <2>1, <2>2
<1>2. P \in Seq(Records) /\ Len(P) = Len(history)
  BY PrunedFields
<1>3. Len(history) <= Len(P)
  BY <1>2
<1> QED BY <1>1, <1>2, <1>3 DEF Continued

LEMMA AppendedContinued ==
  ASSUME NEW history \in Seq(Records), NEW record \in Records, NEW now \in Nat
  PROVE  Continued(history, Pruned(Append(history, record), now))
<1> DEFINE longer == Append(history, record)
           P == Pruned(longer, now)
<1>1. /\ longer \in Seq(Records) /\ Len(longer) = Len(history) + 1 /\ Len(history) \in Nat
      /\ \A i \in 1..Len(history) : longer[i] = history[i]
  OBVIOUS
<1> HIDE DEF longer
<1>2. Continued(longer, P)
  BY <1>1, PrunedContinued
<1> HIDE DEF P
<1>3. \A i \in 1..Len(history) : i \in 1..Len(longer) /\ longer[i] = history[i]
  BY <1>1
<1>4. Len(history) <= Len(P)
  <2>1. Len(P) \in Nat /\ Len(longer) <= Len(P)
    BY <1>2 DEF Continued
  <2> QED BY <1>1, <2>1
<1>5. Continued(history, P)
  BY <1>1, <1>2, <1>3, <1>4 DEF Continued
<1> QED BY <1>5 DEF P, longer

LEMMA Growth ==
  ASSUME IInv, Next, reply'.op # "reopen"
  PROVE  /\ Continued(records, records')
         /\ mark \in Nat /\ mark' \in Nat /\ mark <= mark'
         /\ status' = status
         /\ status = "sealed" => Len(records') = Len(records) /\ text' = text
<1>1. records \in Seq(Records) /\ mark \in Nat
  BY DEF IInv, Sound, Orderly
<1>2. ASSUME NEW now \in Times, NEW input \in Inputs, AppendEntry(input, now)
      PROVE  /\ Continued(records, records')
             /\ mark' \in Nat /\ mark <= mark'
             /\ status' = status
             /\ status = "sealed" => Len(records') = Len(records) /\ text' = text
  <2>1. CASE Verdict(input, now) = "APPENDED"
    <3>1. records' = Pruned(Append(records, NewRecord(input)), now) /\ mark' = now
          /\ UNCHANGED <<status, text>>
      BY <1>2, <2>1 DEF AppendEntry
    <3>2. status # "sealed" /\ now \in Nat /\ mark <= now
      BY <2>1, Verdicts, JournalAssumption DEF TimeFits
    <3>3. NewRecord(input) \in Records
      BY InputAssumption, Redactions DEF NewRecord, Records, Fingerprint
    <3> QED BY <1>1, <3>1, <3>2, <3>3, AppendedContinued
  <2>2. CASE Verdict(input, now) # "APPENDED"
    <3>1. UNCHANGED <<records, mark, status, text>>
      BY <1>2, <2>2 DEF AppendEntry
    <3> QED BY <1>1, <3>1, Itself
  <2> QED BY <2>1, <2>2
<1>3. ASSUME NEW now \in Times, NEW op, Advance(op, now)
      PROVE  /\ Continued(records, records')
             /\ mark' \in Nat /\ mark <= mark'
             /\ status' = status /\ Len(records') = Len(records)
  <2>1. CASE TimeFits(now)
    <3>1. now \in Nat /\ mark <= now
      BY <2>1, JournalAssumption DEF TimeFits
    <3>2. records' = Pruned(records, now) /\ mark' = now /\ status' = status
      BY <1>3, <2>1 DEF Advance
    <3> QED BY <1>1, <3>1, <3>2, PrunedContinued, PrunedFields
  <2>2. CASE ~TimeFits(now)
    <3>1. UNCHANGED <<records, mark, status>>
      BY <1>3, <2>2 DEF Advance
    <3> QED BY <1>1, <3>1, Itself
  <2> QED BY <2>1, <2>2
<1>4. ASSUME NEW now \in Times, List(now) \/ Retain(now)
      PROVE  /\ Continued(records, records')
             /\ mark' \in Nat /\ mark <= mark'
             /\ status' = status
             /\ status = "sealed" => Len(records') = Len(records) /\ text' = text
  BY <1>3, <1>4 DEF List, Retain
<1>5. ASSUME NEW now \in Times, Serialize(now)
      PROVE  /\ Continued(records, records')
             /\ mark' \in Nat /\ mark <= mark'
             /\ status' = status
             /\ status = "sealed" => Len(records') = Len(records) /\ text' = text
  <2>1. CASE Closed
    <3>1. UNCHANGED <<status, records, mark, text>>
      BY <1>5, <2>1 DEF Serialize
    <3> QED BY <1>1, <3>1, Itself
  <2>2. CASE ~Closed
    <3>1. Advance("serialize", now)
      BY <1>5, <2>2 DEF Serialize
    <3> QED BY <1>3, <2>2, <3>1 DEF Closed
  <2> QED BY <2>1, <2>2
<1>6. ~Restart
  BY DEF Restart, Reopen
<1> QED BY <1>1, <1>2, <1>4, <1>5, <1>6 DEF Next

\* Between restarts nothing that was recorded is lost but payloads, and a
\* sealed journal stays as it was recovered.
THEOREM HistoriesOnlyGrow == Spec => HistoryOnlyGrows
<1>1. IInv /\ [Next]_vars =>
        [reply'.op # "reopen" =>
           /\ Len(records') >= Len(records)
           /\ \A i \in DOMAIN records :
                /\ Identity(records'[i]) = Identity(records[i])
                /\ records'[i].retained => Stored(records'[i]) = Stored(records[i])
           /\ mark' >= mark
           /\ status' = status
           /\ status = "sealed" => Len(records') = Len(records) /\ text' = text]_vars
  <2> SUFFICES ASSUME IInv, Next, reply'.op # "reopen"
               PROVE  /\ Len(records') >= Len(records)
                      /\ \A i \in DOMAIN records :
                           /\ Identity(records'[i]) = Identity(records[i])
                           /\ records'[i].retained => Stored(records'[i]) = Stored(records[i])
                      /\ mark' >= mark
                      /\ status' = status
                      /\ status = "sealed" => Len(records') = Len(records) /\ text' = text
    OBVIOUS
  <2>1. /\ Continued(records, records')
        /\ mark \in Nat /\ mark' \in Nat /\ mark <= mark'
        /\ status' = status
        /\ status = "sealed" => Len(records') = Len(records) /\ text' = text
    BY Growth
  <2>2. /\ DOMAIN records = 1..Len(records)
        /\ Len(records) \in Nat /\ Len(records') \in Nat
    BY <2>1 DEF Continued
  <2> QED BY <2>1, <2>2 DEF Continued
<1> QED BY <1>1, Invariant, PTL DEF Spec, HistoryOnlyGrows

LEMMA Decay ==
  ASSUME NEW before \in Seq(Records), NEW after, Continued(before, after),
         NEW mark0 \in Nat, NEW now \in Nat, mark0 <= now,
         NEW i \in 1..Len(before), before[i].entry.state \in States
  PROVE  Decays(Liveness(before, i, mark0), Liveness(after, i, now))
<1> DEFINE e == before[i].entry
           f == after[i].entry
<1>1. /\ after \in Seq(Records) /\ DOMAIN before = 1..Len(before) /\ DOMAIN after = 1..Len(after)
      /\ \A k \in 1..Len(before) : k \in 1..Len(after)
  BY DEF Continued
<1>2. before[i] \in Records /\ after[i] \in Records
  BY <1>1
<1>3. e \in Entries /\ f \in Entries /\ SameButPayload(f, e) /\ SameButPayload(e, f)
  BY <1>2 DEF Continued, Records, SameButPayload
<1>4. f.id = e.id /\ f.state = e.state /\ f.heartbeatAt = e.heartbeatAt
  BY <1>3 DEF SameButPayload
<1>5. Revoked(before, e.id) => Revoked(after, f.id)
  <2> SUFFICES ASSUME Revoked(before, e.id) PROVE Revoked(after, f.id)
    OBVIOUS
  <2>1. PICK k \in 1..Len(before) : before[k].entry.revokes = e.id
    BY <1>1 DEF Revoked
  <2>2. after[k].entry.revokes = e.id
    BY <2>1 DEF Continued, SameButPayload
  <2> QED BY <1>1, <1>4, <2>2 DEF Revoked
<1>6. Expired(e, mark0) => Expired(f, now)
  BY <1>3, ExpiredLater
<1>7. e.heartbeatAt # None /\ mark0 > e.heartbeatAt + HeartbeatTtl => now > f.heartbeatAt + HeartbeatTtl
  <2>1. e.heartbeatAt # None => e.heartbeatAt \in Nat
    BY <1>3 DEF Entries
  <2> QED BY <1>4, <2>1, JournalAssumption
<1> DEFINE Silent(entry, at) == entry.heartbeatAt = None \/ at > entry.heartbeatAt + HeartbeatTtl
<1>8. Silent(e, mark0) => Silent(f, now)
  BY <1>4, <1>7
<1>9. Liveness(before, i, mark0) =
        IF Revoked(before, e.id) THEN "REVOKED"
        ELSE IF e.state \in Ended THEN e.state
        ELSE IF Expired(e, mark0) THEN "EXPIRED"
        ELSE IF e.state = "RUNNING" /\ Silent(e, mark0) THEN "UNKNOWN" ELSE e.state
  BY DEF Liveness
<1>10. Liveness(after, i, now) =
        IF Revoked(after, f.id) THEN "REVOKED"
        ELSE IF e.state \in Ended THEN e.state
        ELSE IF Expired(f, now) THEN "EXPIRED"
        ELSE IF e.state = "RUNNING" /\ Silent(f, now) THEN "UNKNOWN" ELSE e.state
  BY <1>4 DEF Liveness
<1>11. e.state \in Ended \/ e.state \in {"QUEUED", "RUNNING"}
  BY DEF States
<1> HIDE DEF e, f, Silent
<1> QED BY <1>5, <1>6, <1>8, <1>9, <1>10, <1>11 DEF Decays

\* Between restarts no entry comes back to life.
THEOREM NothingRevives == Spec => LivenessOnlyDecays
<1>1. IInv /\ [Next]_vars =>
        [reply'.op # "reopen" =>
           \A i \in DOMAIN records : Decays(Liveness(records, i, mark), Liveness(records', i, mark'))]_vars
  <2> SUFFICES ASSUME IInv, Next, reply'.op # "reopen", NEW i \in DOMAIN records
               PROVE  Decays(Liveness(records, i, mark), Liveness(records', i, mark'))
    OBVIOUS
  <2>1. Continued(records, records') /\ mark \in Nat /\ mark' \in Nat /\ mark <= mark'
    BY Growth
  <2>2. records \in Seq(Records) /\ i \in 1..Len(records)
    BY <2>1 DEF Continued
  <2>3. records[i].entry.state \in States
    BY DEF IInv, Sound, Orderly, Kept, EntryAccepted
  <2> QED BY <2>1, <2>2, <2>3, Decay
<1> QED BY <1>1, Invariant, PTL DEF Spec, LivenessOnlyDecays

(***************************************************************************)
(* Reopening what was serialised.                                          *)
(***************************************************************************)
\* The hashes of the first m lines after the header.
ChainOf(history, header, m, hash) ==
  hash = [n \in 0..m |->
            IF n = 0 THEN HeaderHash(header) ELSE RecordHash(n, hash[n - 1], Stored(history[n]))]

\* There is a chain of every length: the shortest without one would
\* continue the chain of its beginning.
LEMMA ChainExists ==
  ASSUME NEW history, NEW header, NEW m \in Nat
  PROVE  \E hash : ChainOf(history, header, m, hash)
<1> DEFINE T == {k \in Nat : ~\E hash : ChainOf(history, header, k, hash)}
<1> SUFFICES ASSUME T # {} PROVE FALSE
  OBVIOUS
<1>1. PICK k \in T : \A l \in T : ~(<<l, k>> \in OpToRel(<, Nat))
  <2>1. T \subseteq Nat
    OBVIOUS
  <2> HIDE DEF T
  <2> QED BY <2>1, WFMin, NatLessThanWellFounded
<1>2. k \in Nat /\ \A l \in T : ~(l < k)
  BY <1>1 DEF OpToRel
<1>3. k # 0
  <2> SUFFICES ASSUME k = 0 PROVE FALSE
    OBVIOUS
  <2> DEFINE f == [n \in 0..0 |-> HeaderHash(header)]
  <2>1. ChainOf(history, header, 0, f)
    BY DEF ChainOf
  <2> QED BY <1>1, <2>1
<1>4. k - 1 \in Nat /\ k - 1 < k
  BY <1>2, <1>3
<1>5. k - 1 \notin T
  BY <1>2, <1>4
<1>6. PICK f : ChainOf(history, header, k - 1, f)
  BY <1>4, <1>5
<1> DEFINE g == [n \in 0..k |-> IF n = k THEN RecordHash(k, f[k - 1], Stored(history[k])) ELSE f[n]]
<1>7. /\ f[0] = HeaderHash(header)
      /\ \A n \in 1..(k - 1) : f[n] = RecordHash(n, f[n - 1], Stored(history[n]))
  BY <1>4, <1>6 DEF ChainOf
<1>8. ASSUME NEW n \in 0..k
      PROVE  g[n] = IF n = 0 THEN HeaderHash(header) ELSE RecordHash(n, g[n - 1], Stored(history[n]))
  <2>1. CASE n = 0
    BY <1>2, <1>3, <1>7, <2>1
  <2>2. CASE n = k
    <3>1. g[k - 1] = f[k - 1] /\ g[k] = RecordHash(k, f[k - 1], Stored(history[k]))
      BY <1>2, <1>4
    <3> QED BY <1>3, <2>2, <3>1
  <2>3. CASE n \in 1..(k - 1)
    <3>1. g[n] = f[n] /\ g[n - 1] = f[n - 1]
      BY <1>2, <2>3
    <3> QED BY <1>7, <2>3, <3>1
  <2> QED BY <1>2, <2>1, <2>2, <2>3
<1> HIDE DEF g
<1>9. g = [n \in 0..k |-> IF n = 0 THEN HeaderHash(header) ELSE RecordHash(n, g[n - 1], Stored(history[n]))]
  <2>1. g = [n \in 0..k |-> g[n]]
    BY DEF g
  <2> QED BY <1>8, <2>1
<1> QED BY <1>1, <1>9 DEF ChainOf

LEMMA Chained ==
  ASSUME NEW history \in Seq(Records), NEW header
  PROVE  /\ Chain(history, header)[0] = HeaderHash(header)
         /\ \A n \in 1..Len(history) :
              Chain(history, header)[n] = RecordHash(n, Chain(history, header)[n - 1], Stored(history[n]))
<1> DEFINE hash == Chain(history, header)
<1>1. Len(history) \in Nat
  OBVIOUS
<1>2. PICK f : ChainOf(history, header, Len(history), f)
  BY <1>1, ChainExists
<1>3. ChainOf(history, header, Len(history), hash)
  BY <1>2, Zenon DEF Chain, ChainOf
<1> HIDE DEF hash
<1> QED BY <1>1, <1>3 DEF ChainOf, hash

\* Redacting a second time changes nothing.
LEMMA RedactedOnce ==
  ASSUME NEW e \in Keepable
  PROVE  e = Redacted(e)
<1>1. ASSUME NEW f \in Entries, e = Redacted(f) PROVE e = Redacted(e)
  <2>1. CASE f.payload = None \/ f.payload.secret = "missing"
    BY <1>1, <2>1 DEF Redacted
  <2>2. CASE f.payload # None /\ f.payload.secret # "missing"
    <3>1. f.payload \in Payloads
      BY <2>2 DEF Entries
    <3> DEFINE p == [f.payload EXCEPT !.secret = "[REDACTED]"]
    <3>2. p \in Payloads /\ p.secret = "[REDACTED]" /\ [p EXCEPT !.secret = "[REDACTED]"] = p
      BY <3>1 DEF Payloads
    <3>3. e = [f EXCEPT !.payload = p]
      BY <1>1, <2>2, <3>1 DEF Redacted, Entries
    <3> HIDE DEF p
    <3>4. e.payload = p /\ e \in Entries /\ p # None
      BY <3>2, <3>3, InputAssumption DEF Entries
    <3>5. Redacted(e) = [e EXCEPT !.payload = p]
      BY <3>2, <3>4 DEF Redacted, Entries
    <3>6. [e EXCEPT !.payload = e.payload] = e
      BY <3>4 DEF Entries
    <3> QED BY <3>4, <3>5, <3>6
  <2> QED BY <2>1, <2>2
<1>2. CASE \E f \in Inputs : e = Redacted(f)
  BY <1>1, <1>2, InputAssumption
<1>3. CASE \E f \in Inputs : e = WithoutPayload(f)
  BY <1>3, InputAssumption, WithoutPayloads, Redactions
<1> QED BY <1>2, <1>3 DEF Keepable

\* Nothing that is retained has expired.
Fresh(history, now) ==
  \A i \in DOMAIN history : history[i].retained => ~Expired(history[i].entry, now)

LEMMA PrunedFresh ==
  ASSUME NEW history \in Seq(Records), NEW now \in Nat
  PROVE  Fresh(Pruned(history, now), now)
<1> DEFINE P == Pruned(history, now)
<1> SUFFICES ASSUME NEW i \in 1..Len(history), P[i].retained PROVE ~Expired(P[i].entry, now)
  BY PrunedFields DEF Fresh
<1>1. P[i] = history[i] \/ P[i] = Retired(history[i])
  BY PrunedFields
<1>2. i \in Live(history, now)
  BY PrunedFields DEF Survivors
<1>3. history[i] \in Records
  OBVIOUS
<1>4. P[i] = history[i]
  BY <1>1, <1>3, RetiredRecord
<1> QED BY <1>2, <1>4 DEF Live

\* Each record of a sound history is accepted behind those before it.
LEMMA Reaccepted ==
  ASSUME NEW history, NEW now, Sound(history, now), Fresh(history, now), NEW j \in DOMAIN history,
         NEW front, front \in Seq(Records), Len(front) = j - 1,
         \A i \in 1..(j - 1) : front[i].entry = history[i].entry /\ front[i].retained = history[i].retained
  PROVE  RecordAccepted(Stored(history[j]), front, now)
<1> DEFINE e == history[j].entry
<1>1. /\ history \in Seq(Records) /\ Len(history) \in Nat /\ DOMAIN history = 1..Len(history)
      /\ j \in Nat /\ j >= 1 /\ j <= Len(history) /\ DOMAIN front = 1..(j - 1)
  BY DEF Sound, Orderly
<1>2. Kept(history[j], now) /\ Earned(history, j, now)
  BY DEF Sound, Orderly
<1>3. /\ Stored(history[j]).entry = e
      /\ Stored(history[j]).fingerprint = history[j].fingerprint
      /\ Stored(history[j]).retained = history[j].retained
  BY DEF Stored
<1>4. RoomLeft(front)
  BY <1>1, JournalAssumption DEF RoomLeft, Sound, Orderly
<1>5. e.project = ProjectId /\ e = Redacted(e)
  <2>1. CASE \E g \in Inputs : g.project = ProjectId /\ e = Redacted(g)
    BY <1>2, <2>1, InputAssumption, Redactions, RedactedOnce DEF SameButPayload, Kept
  <2>2. CASE \E g \in Inputs : g.project = ProjectId /\ e = WithoutPayload(g)
    BY <1>2, <2>2, InputAssumption, WithoutPayloads, RedactedOnce DEF SameButPayload, Kept
  <2> QED BY <1>2, <2>1, <2>2 DEF Keepable, Kept
<1>6. e.id \notin Ids(front)
  <2>1. \A i \in 1..(j - 1) : history[i].entry.id # e.id
    BY <1>2 DEF Earned
  <2>2. \A i \in DOMAIN front : front[i].entry.id # e.id
    BY <1>1, <2>1
  <2> QED BY <2>2 DEF Ids
<1>7. ASSUME history[j].retained
      PROVE  ~Expired(e, now) /\ Cardinality(RetainedOf(front)) < MaxEntries
  <2>1. RetainedOf(front) \union {j} \subseteq RetainedOf(history) /\ j \notin RetainedOf(front)
    BY <1>1, <1>7 DEF RetainedOf
  <2>2. IsFiniteSet(RetainedOf(front)) /\ Cardinality(RetainedOf(front)) \in Nat
    BY RetainedFinite
  <2>3. Cardinality(RetainedOf(front) \union {j}) = Cardinality(RetainedOf(front)) + 1
    BY <2>1, <2>2, FS_AddElement
  <2>4. IsFiniteSet(RetainedOf(history)) /\ Cardinality(RetainedOf(history)) \in Nat
    BY <1>1, RetainedFinite
  <2>5. Cardinality(RetainedOf(front) \union {j}) <= Cardinality(RetainedOf(history))
    BY <2>1, <2>4, FS_Subset
  <2>6. Cardinality(RetainedOf(history)) <= MaxEntries
    BY DEF Sound
  <2>7. ~Expired(e, now)
    BY <1>7 DEF Fresh
  <2> QED BY <2>2, <2>3, <2>4, <2>5, <2>6, <2>7, JournalAssumption
<1>8. ASSUME e.retryOf # None
      PROVE  ~RetryTaken(front, e) /\ RetryFits(front, e, now)
  <2>1. ~RetryTaken(front, e)
    BY <1>1, <1>2, <1>8 DEF RetryTaken, Earned
  <2>2. e.state = "QUEUED"
    BY <1>2, <1>8 DEF Earned
  <2>3. PICK i \in 1..(j - 1) :
          /\ history[i].entry.id = e.retryOf
          /\ history[i].entry.runId = e.runId
          /\ history[i].entry.attempt < e.attempt
          /\ history[i].entry.createdAt <= e.createdAt
          /\ \/ history[i].entry.state \in Ended
             \/ Expired(history[i].entry, now)
             \/ \E k \in 1..(j - 1) : history[k].entry.revokes = history[i].entry.id
    BY <1>2, <1>8 DEF Earned
  <2>4. (\E k \in 1..(j - 1) : history[k].entry.revokes = history[i].entry.id)
          => Revoked(front, front[i].entry.id)
    BY <1>1 DEF Revoked
  <2>5. front[i].entry = history[i].entry /\ i \in DOMAIN front
    BY <1>1
  <2> QED BY <2>1, <2>2, <2>3, <2>4, <2>5 DEF RetryFits
<1>9. ASSUME e.revokes # None
      PROVE  RevocationFits(front, e)
  <2>1. PICK i \in 1..(j - 1) :
          /\ history[i].entry.id = e.revokes
          /\ history[i].entry.runId = e.runId
          /\ history[i].entry.attempt = e.attempt
          /\ history[i].entry.candidate = e.candidate
          /\ history[i].entry.createdAt <= e.createdAt
    BY <1>2, <1>9 DEF Earned
  <2>2. front[i].entry = history[i].entry /\ i \in DOMAIN front
    BY <1>1
  <2> QED BY <2>1, <2>2 DEF RevocationFits
<1> HIDE DEF e
<1>10. EntryAccepted(e, now) /\ history[j].fingerprint = Fingerprint(e)
       /\ (~history[j].retained => e.payload = None)
  BY <1>2 DEF Kept, e
<1> QED BY <1>3, <1>4, <1>5, <1>6, <1>7, <1>8, <1>9, <1>10 DEF RecordAccepted

\* The hashes of a serialised text lead from line to line.
LEMMA LinesContinue ==
  ASSUME NEW history \in Seq(Records), NEW now, NEW L, Spells(L, history, now),
         Linked(L, history, Chain(history, [type |-> "header", now |-> now]))
  PROVE  /\ \A n \in 2..(Len(history) + 1) : Continues(L, n)
         /\ FooterFits(L, Len(history) + 2)
<1> DEFINE header == [type |-> "header", now |-> now]
           hash == Chain(history, header)
<1>1. Len(history) \in Nat /\ L[1] = header
  BY DEF Spells
<1>2. /\ hash[0] = HeaderHash(L[1])
      /\ \A n \in 1..Len(history) : hash[n] = RecordHash(n, hash[n - 1], Stored(history[n]))
  BY <1>1, Chained
<1>3. Linked(L, history, hash)
  OBVIOUS
<1> HIDE DEF hash, header
<1>4. \A n \in 2..(Len(history) + 1) : L[n].previous = hash[n - 2] /\ L[n].hash = hash[n - 1]
  BY <1>3 DEF Linked
<1>5. ASSUME NEW n \in 2..(Len(history) + 1) PROVE Continues(L, n)
  <2>1. n - 1 \in 1..Len(history) /\ (n - 1) - 1 = n - 2
    BY <1>1
  <2>2. hash[n - 1] = RecordHash(n - 1, hash[n - 2], Stored(history[n - 1]))
    BY <1>2, <2>1
  <2>3. L[n].seq = n - 1 /\ L[n].record = Stored(history[n - 1])
    BY DEF Spells
  <2>4. L[n].hash = RecordHash(L[n].seq, L[n].previous, L[n].record)
    BY <1>4, <2>2, <2>3
  <2>5. L[n].previous = IF n = 2 THEN HeaderHash(L[1]) ELSE L[n - 1].hash
    <3>1. CASE n = 2
      <4>1. n - 2 = 0
        BY <3>1
      <4> QED BY <1>2, <1>4, <3>1, <4>1
    <3>2. CASE n # 2
      <4>1. n - 1 \in 2..(Len(history) + 1)
        BY <1>1, <3>2
      <4>2. L[n - 1].hash = hash[(n - 1) - 1]
        BY <1>4, <4>1
      <4> QED BY <1>4, <2>1, <3>2, <4>2
    <3> QED BY <3>1, <3>2
  <2> QED BY <2>3, <2>4, <2>5 DEF Continues
<1>6. FooterFits(L, Len(history) + 2)
  <2>1. L[Len(history) + 2].count = Len(history) /\ (Len(history) + 2) - 2 = Len(history)
    BY <1>1 DEF Spells
  <2>2. L[Len(history) + 2].last = hash[Len(history)]
    BY <1>3 DEF Linked
  <2>3. CASE Len(history) = 0
    BY <1>2, <2>1, <2>2, <2>3 DEF FooterFits
  <2>4. CASE Len(history) # 0
    <3>1. Len(history) + 1 \in 2..(Len(history) + 1)
      BY <1>1, <2>4
    <3>2. (Len(history) + 1) - 1 = Len(history) /\ (Len(history) + 2) - 1 = Len(history) + 1
          /\ Len(history) + 2 # 2
      BY <1>1, <2>4
    <3>3. L[Len(history) + 1].hash = hash[Len(history)]
      BY <1>4, <3>1, <3>2
    <3> QED BY <2>1, <2>2, <3>2, <3>3 DEF FooterFits
  <2> QED BY <2>3, <2>4
<1> QED BY <1>5, <1>6

\* A sound history, pruned when it was written, reopens complete.
LEMMA WrittenReopens ==
  ASSUME NEW history, NEW now, Sound(history, now), Fresh(history, now)
  PROVE  LET written == Serialized(history, now)
             again == Recovered(written.lines, LastAccepted(written.lines))
         IN  /\ Diagnosis(written).status = "COMPLETE"
             /\ Len(again) = Len(history)
             /\ \A i \in DOMAIN history : Stored(again[i]) = Stored(history[i])
<1> DEFINE written == Serialized(history, now)
           L == written.lines
           last == LastAccepted(L)
           back(i) == [entry |-> history[i].entry, fingerprint |-> history[i].fingerprint,
                       retained |-> history[i].retained, historical |-> TRUE]
<1>1. history \in Seq(Records) /\ Len(history) \in Nat /\ DOMAIN history = 1..Len(history)
  BY DEF Sound, Orderly
<1>2. /\ written.torn = FALSE
      /\ Spells(L, history, now)
      /\ Linked(L, history, Chain(history, [type |-> "header", now |-> now]))
  BY <1>1, SerializedSpells
<1>3. /\ \A n \in 2..(Len(history) + 1) : Continues(L, n)
      /\ FooterFits(L, Len(history) + 2)
  BY <1>1, <1>2, LinesContinue
<1>4. Genuine(L, history, now)
  BY <1>1, <1>2, SpelledGenuine
<1> HIDE DEF written, L
<1>5. /\ last \in 1..Len(L) /\ last <= Len(history) + 1
      /\ Recovered(L, last) = [i \in 1..(last - 1) |-> back(i)]
  BY <1>1, <1>4, RecoveredGenuine
<1>6. Len(L) = Len(history) + 2 /\ \E S : L \in Seq(S)
  BY <1>2 DEF Spells
<1>7. last < Len(L) => ~LineAccepted(L, last + 1)
  BY <1>1, <1>6, LastExists DEF Genuine
<1>8. ASSUME NEW n \in 2..(Len(history) + 1) PROVE LineAccepted(L, n)
  <2> DEFINE front == Recovered(L, n - 1)
             j == n - 1
  <2>1. j \in DOMAIN history /\ j \in Nat /\ j >= 1 /\ j <= Len(history)
    BY <1>1
  <2>2. front = [i \in 1..(j - 1) |-> back(i)]
    <3>1. ASSUME NEW i \in 1..(j - 1)
          PROVE  /\ L[i + 1].record.entry = history[i].entry
                 /\ L[i + 1].record.fingerprint = history[i].fingerprint
                 /\ L[i + 1].record.retained = history[i].retained
      <4>1. i + 1 \in 2..(Len(history) + 1) /\ (i + 1) - 1 = i
        BY <1>1, <2>1
      <4>2. L[i + 1].record = Stored(history[i])
        BY <1>2, <4>1 DEF Spells
      <4> QED BY <4>2 DEF Stored
    <3> QED BY <3>1 DEF Recovered
  <2>3. \A i \in 1..(j - 1) : back(i) \in Records
    <3> SUFFICES ASSUME NEW i \in 1..(j - 1) PROVE back(i) \in Records
      OBVIOUS
    <3>1. history[i] \in Records
      BY <1>1, <2>1
    <3> QED BY <3>1 DEF Records
  <2>4. /\ front \in Seq(Records) /\ Len(front) = j - 1
        /\ \A i \in 1..(j - 1) : front[i].entry = history[i].entry /\ front[i].retained = history[i].retained
    BY <2>1, <2>2, <2>3
  <2> HIDE DEF front
  <2>5. RecordAccepted(Stored(history[j]), front, now)
    BY <2>1, <2>4, Reaccepted
  <2>6. L[n].type = "entry" /\ L[n].record = Stored(history[j]) /\ L[1].now = now
    BY <1>2 DEF Spells
  <2> QED BY <1>3, <2>5, <2>6 DEF LineAccepted, front
<1>9. last = Len(history) + 1
  <2> SUFFICES ASSUME last # Len(history) + 1 PROVE FALSE
    OBVIOUS
  <2>1. last + 1 \in 2..(Len(history) + 1) /\ last < Len(L)
    BY <1>1, <1>5, <1>6
  <2> QED BY <1>7, <1>8, <2>1
<1>10. Diagnosis(written).status = "COMPLETE"
  <2>1. last # Len(L) /\ last + 1 = Len(history) + 2 /\ ~(last + 1 < Len(L))
    BY <1>1, <1>6, <1>9
  <2>2. L[Len(history) + 2].type = "footer"
    BY <1>2 DEF Spells
  <2> HIDE DEF last
  <2> QED BY <1>2, <1>3, <2>1, <2>2 DEF Diagnosis, L, last
<1>11. last - 1 = Len(history)
  BY <1>1, <1>9
<1> DEFINE again == Recovered(L, last)
<1>12. again = [i \in 1..Len(history) |-> back(i)]
  BY <1>5, <1>11
<1> HIDE DEF last, again
<1>13. Len(again) = Len(history) /\ \A i \in DOMAIN history : again[i] = back(i)
  BY <1>1, <1>12
<1>14. ASSUME NEW i \in DOMAIN history PROVE Stored(again[i]) = Stored(history[i])
  <2>1. /\ again[i].entry = history[i].entry /\ again[i].fingerprint = history[i].fingerprint
        /\ again[i].retained = history[i].retained
    <3>1. again[i] = back(i)
      BY <1>13
    <3> HIDE DEF again
    <3> QED BY <3>1
  <2> QED BY <2>1 DEF Stored
<1> QED BY <1>10, <1>13, <1>14 DEF written, L, last, again

\* What append accepts and what reopen accepts are the same journals.
THEOREM JournalsReopenComplete == Spec => []ReopensComplete
<1>1. IInv => ReopensComplete
  <2> SUFFICES ASSUME IInv, NEW now \in Times, TimeFits(now)
               PROVE  LET history == Pruned(records, now)
                          written == Serialized(history, now)
                          again == Recovered(written.lines, LastAccepted(written.lines))
                      IN  /\ Diagnosis(written).status = "COMPLETE"
                          /\ Len(again) = Len(history)
                          /\ \A i \in DOMAIN history : Stored(again[i]) = Stored(history[i])
    BY DEF ReopensComplete
  <2>1. Orderly(records, mark) /\ records \in Seq(Records)
    BY DEF IInv, Sound, Orderly
  <2>2. now \in Nat /\ mark <= now /\ now <= MaxSafe
    BY JournalAssumption DEF TimeFits
  <2>3. Sound(Pruned(records, now), now) /\ Fresh(Pruned(records, now), now)
    BY <2>1, <2>2, PrunedSound, PrunedFresh
  <2> QED BY <2>3, WrittenReopens
<1> QED BY <1>1, Invariant, PTL
=============================================================================
