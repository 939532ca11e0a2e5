------------------------- MODULE StatusTimelineProofs -------------------------
(***************************************************************************)
(* What one more row does to a log of transitions.                         *)
(***************************************************************************)
EXTENDS StatusTimeline, SequenceTheorems, TLAPS

\* In the order of the commits, the last change in the log gave the column its
\* value.  No reader sees that order, but the proofs go along it.
LastChange(log, i) ==
  /\ Changes(log, i)
  /\ \A k \in i + 1 .. Len(log) : log[k].from = log[k].to

LastGave(log, status) ==
  \E i \in 1 .. Len(log) : LastChange(log, i) /\ log[i].to = status

\* A transaction begins before it commits, so with fewer rows committed.
BeganBefore(log) == \A k \in 1 .. Len(log) : log[k].began \in Nat /\ log[k].began < k

\* The last change to commit is one that no change is later than: those committed
\* before it have begun before it too.
LEMMA LastGaveExplains ==
  ASSUME NEW R, NEW log \in Seq(R), NEW status, LastGave(log, status), BeganBefore(log)
  PROVE  Explains(log, status)
<1>1. PICK i \in 1 .. Len(log) : LastChange(log, i) /\ log[i].to = status
  BY DEF LastGave
<1>2. ASSUME NEW k \in 1 .. Len(log), Changes(log, k), IsLater(log, k, i)
      PROVE  FALSE
  <2>0. Len(log) \in Nat
    BY LenProperties
  <2>1. log[k].began >= i /\ log[k].began \in Nat /\ log[k].began < k
    BY <1>2 DEF IsLater, BeganBefore
  <2>2. k \in i + 1 .. Len(log) /\ k # 1
    BY <2>0, <2>1
  <2> QED
    BY <1>1, <1>2, <2>2 DEF LastChange, Changes
<1> QED
  BY <1>1, <1>2 DEF Explains, LastChange

\* The first row gives the column its value.
LEMMA FirstGave ==
  ASSUME NEW row
  PROVE  LastGave(<<row>>, row.to)
BY DEF LastGave, LastChange, Changes

LEMMA AppendRow ==
  ASSUME NEW R, NEW log \in Seq(R), NEW row \in R
  PROVE  /\ Append(log, row) \in Seq(R)
         /\ Append(log, row) # <<>>
         /\ Len(Append(log, row)) = Len(log) + 1
         /\ \A i \in 1 .. Len(log) : Append(log, row)[i] = log[i]
         /\ Append(log, row)[Len(log) + 1] = row
         /\ Len(log) \in Nat
BY AppendProperties, LenProperties

\* The last change gave the column its value also after a writer that logs (from, to), whatever
\* the column held when that writer read it: a row that changes nothing leaves
\* both as they were, and one that changes something decides from then on.
LEMMA LastGaveAppend ==
  ASSUME NEW R, NEW log \in Seq(R), NEW row \in R, NEW now, LastGave(log, now)
  PROVE  LastGave(Append(log, row), ColumnAfter(now, row.from, row.to))
<1> DEFINE more == Append(log, row)
           n == Len(log)
<1>1. /\ Len(more) = n + 1 /\ n \in Nat /\ more[n + 1] = row
      /\ \A i \in 1 .. n : more[i] = log[i]
  BY AppendRow
<1> SUFFICES LastGave(more, ColumnAfter(now, row.from, row.to))
  OBVIOUS
<1> HIDE DEF more
<1>2. CASE row.to = row.from
  <2>1. PICK i \in 1 .. n : LastChange(log, i) /\ log[i].to = now
    BY DEF LastGave
  <2>2. i \in 1 .. Len(more) /\ more[i].to = now
    BY <1>1, <2>1
  <2>3. \A k \in i + 1 .. Len(more) : more[k].from = more[k].to
    <3> SUFFICES ASSUME NEW k \in i + 1 .. n + 1 PROVE more[k].from = more[k].to
      BY <1>1
    <3>1. CASE k = n + 1
      BY <1>1, <1>2, <3>1
    <3>2. CASE k # n + 1
      <4>1. k \in i + 1 .. n /\ k \in 1 .. n
        BY <1>1, <3>2
      <4> QED
        BY <1>1, <2>1, <4>1 DEF LastChange, Changes
    <3> QED
      BY <3>1, <3>2
  <2>4. i = 1 \/ more[i].from # more[i].to
    BY <1>1, <2>1 DEF LastChange, Changes
  <2>5. ColumnAfter(now, row.from, row.to) = now
    BY <1>2 DEF ColumnAfter
  <2> QED
    BY <2>2, <2>3, <2>4, <2>5 DEF LastGave, LastChange, Changes
<1>3. CASE row.to # row.from
  <2>1. ColumnAfter(now, row.from, row.to) = row.to
    BY <1>3 DEF ColumnAfter
  <2>2. n + 1 \in 1 .. Len(more) /\ more[n + 1].to = row.to /\ LastChange(more, n + 1)
    BY <1>1, <1>3 DEF LastChange, Changes
  <2> QED
    BY <2>1, <2>2 DEF LastGave
<1> QED
  BY <1>2, <1>3

\* What a transaction that began with some of the log committed adds to it.
LEMMA BeganAppend ==
  ASSUME NEW R, NEW log \in Seq(R), NEW row \in R, BeganBefore(log),
         row.began \in Nat, row.began =< Len(log)
  PROVE  BeganBefore(Append(log, row))
<1> DEFINE more == Append(log, row)
           n == Len(log)
<1>1. /\ Len(more) = n + 1 /\ n \in Nat /\ more[n + 1] = row
      /\ \A i \in 1 .. n : more[i] = log[i]
  BY AppendRow
<1> HIDE DEF more
<1>2. ASSUME NEW k \in 1 .. n + 1
      PROVE  more[k].began \in Nat /\ more[k].began < k
  <2>1. CASE k = n + 1
    BY <1>1, <2>1
  <2>2. CASE k # n + 1
    <3>1. k \in 1 .. n
      BY <1>1, <2>2
    <3> QED
      BY <1>1, <3>1 DEF BeganBefore
  <2> QED
    BY <2>1, <2>2
<1> QED
  BY <1>1, <1>2 DEF BeganBefore

\* A row that starts where the log ends keeps it unbroken.
LEMMA UnbrokenAppend ==
  ASSUME NEW R, NEW log \in Seq(R), NEW row \in R, Unbroken(log), log # <<>>,
         log[Len(log)].to = row.from
  PROVE  Unbroken(Append(log, row))
<1> DEFINE more == Append(log, row)
           n == Len(log)
<1>1. /\ Len(more) = n + 1 /\ n \in Nat /\ more[n + 1] = row
      /\ \A i \in 1 .. n : more[i] = log[i]
  BY AppendRow
<1>2. n \in 1 .. n
  BY EmptySeq, LenProperties
<1> HIDE DEF more
<1> SUFFICES ASSUME NEW i \in 1 .. n PROVE more[i].to = more[i + 1].from
  BY <1>1 DEF Unbroken
<1>3. CASE i = n
  BY <1>1, <1>2, <1>3
<1>4. CASE i # n
  <2>1. i \in 1 .. n - 1 /\ i + 1 \in 1 .. n
    BY <1>1, <1>4
  <2> QED
    BY <1>1, <2>1 DEF Unbroken
<1> QED
  BY <1>3, <1>4

================================================================================
