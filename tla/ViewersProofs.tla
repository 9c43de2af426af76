---------------------------- MODULE ViewersProofs ----------------------------
(***************************************************************************)
(* TLAPS proofs about the readers of the index, for every set of sessions  *)
(* and every bound.                                                        *)
(***************************************************************************)
EXTENDS ViewersProperties, OrderingProofs, NaturalsInduction,
        WellFoundedInduction, TLAPS

-----------------------------------------------------------------------------
(* The steps of one reader are not steps of another *)

LEMMA ListingStep ==
  ASSUME changes \in Nat, NEW scope, NEW bound, ListingNext(scope, bound)
  PROVE  changes' \in {changes, changes + 1}
  BY DEF ListingNext, Hook, Reconcile, GrowStale, LoadPrune, SavePrune, Write

\* Every step is one of the dashboard, of the export, or leaves both alone.
LEMMA Cases ==
  ASSUME changes \in Nat, [Next]_vars
  PROVE  /\ \/ DashboardNext /\ UNCHANGED changes
            \/ UNCHANGED dashboardVars /\ changes' \in {changes, changes + 1}
         /\ ExportNext \/ UNCHANGED exportVars
<1>1. CASE UNCHANGED vars
  BY <1>1 DEF vars, listingVars
<1>2. CASE Next
  BY <1>2, ListingStep DEF Next, listingVars
<1>3. QED
  BY <1>1, <1>2

-----------------------------------------------------------------------------
\* Every set of numbers has a least one: induction, for a set in place of the
\* predicate.
LEMMA LeastNumber ==
  ASSUME NEW T, T \subseteq Nat, T # {}
  PROVE  \E n \in T : \A m \in T : n <= m
<1>1. PICK R : IsWellFoundedOn(R, Nat) /\ \A m, k \in Nat : m < k => <<m, k>> \in R
  <2>1. IsWellFoundedOn(OpToRel(<, Nat), Nat)
    BY NatLessThanWellFounded, Zenon
  <2>2. \A m, k \in Nat : m < k => <<m, k>> \in OpToRel(<, Nat)
    BY Zenon DEF OpToRel
  <2>3. QED
    BY <2>1, <2>2, Zenon
<1>2. PICK n \in T : \A m \in T : ~(<<m, n>> \in R)
  <2>1. IsWellFoundedOn(R, Nat)
    BY <1>1
  <2>2. QED
    BY <2>1, WFMin, Zenon
<1>3. ASSUME NEW m \in T PROVE n <= m
  <2>1. m \in Nat /\ n \in Nat
    BY <1>2
  <2>2. ~(m < n)
    BY <1>1, <1>2, <2>1, Zenon
  <2>3. QED
    BY <2>1, <2>2
<1>4. QED
  BY <1>3

-----------------------------------------------------------------------------
(* The index *)

ListingInv ==
  /\ index \in Indices
  /\ latest \in Nat /\ changes \in Nat
  /\ latest <= changes /\ changes <= MaxChanges
  /\ prune \in [loaded : BOOLEAN, kept : Indices]

\* Any set of sessions in the index is ordered by iter_sessions.
LEMMA EarlierTotal ==
  ASSUME index \in Indices, NEW S \in SUBSET Known(index)
  PROVE  IsFiniteSet(S) /\ TotalOrder(S, Earlier(index))
<1>1. IsFiniteSet(S)
  <2>1. S \in SUBSET Sessions
    BY DEF Known
  <2>2. QED
    BY <2>1, ListingAssumption, FS_Subset
<1>2. \A s \in S : s \in Nat /\ s \in Known(index) /\ index[s].last \in Nat
  BY ListingAssumption DEF Known, Indices, Entry
<1>3. QED
  BY <1>1, <1>2 DEF TotalOrder, Earlier

LEMMA ListingStart == Init => ListingInv
<1> SUFFICES ASSUME Init PROVE ListingInv
  OBVIOUS
<1>1. 0 \in 0 .. MaxChanges
  BY ListingAssumption
<1>2. NoSessions \in Indices
  BY DEF NoSessions, Indices
<1>3. index \in Indices
  BY <1>1, <1>2 DEF Init, ListingInit, Indices, Entry, Displayed
<1>4. prune \in [loaded : BOOLEAN, kept : Indices]
  BY <1>2 DEF Init, ListingInit, NoPrune
<1>5. QED
  BY <1>3, <1>4, ListingAssumption DEF ListingInv, Init, ListingInit

\* Pruning and the passing of time leave an index an index.
LEMMA KeptIsIndex ==
  ASSUME NEW idx \in Indices, NEW limit
  PROVE  Kept(idx, limit) \in Indices /\ Aged(idx, limit) \in Indices
<1>1. \A s \in Known(idx) : [idx[s] EXCEPT !.status = "stale"] \in Entry
  BY DEF Known, Indices, Entry, Displayed
<1>2. QED
  BY <1>1 DEF Kept, Aged, Indices

\* What a change of the index keeps.  The stamps may go back, the latest does not.
LEMMA ListingGrows ==
  ASSUME ListingInv, viewer \in Readers, ListingNext(Scope[viewer], Changes[viewer])
  PROVE  ListingInv'
<1>1. changes < Changes[viewer] /\ Changes[viewer] \in 0 .. MaxChanges
  BY ViewersAssumption DEF ListingNext
<1>2. \A idx : Write(idx) => changes' = changes + 1 /\ changes' \in Nat /\ changes' <= MaxChanges
  BY <1>1, ListingAssumption DEF ListingInv, Write
<1> USE DEF ListingInv
<1>3. ASSUME NEW s \in Sessions, NEW status \in Displayed, NEW at \in 0 .. changes + 1,
             changes + 1 <= MaxChanges
      PROVE  With(s, status, at) \in Indices
  <2>1. [status |-> status, last |-> at] \in Entry
    BY <1>3, ListingAssumption DEF Entry
  <2>2. QED
    BY <2>1 DEF With, Indices
<1>4. ASSUME NEW s \in Sessions, Hook(s) PROVE ListingInv'
  <2>1. PICK status \in {"running", "waiting_approval", "done"}, at \in 0 .. latest + 1 :
          \E cutoff \in 0 .. at :
            Stamped(at) /\ Write(Kept(With(s, status, at), cutoff)) /\ UNCHANGED prune
    BY <1>4 DEF Hook
  <2>2. PICK cutoff \in 0 .. at :
          Stamped(at) /\ Write(Kept(With(s, status, at), cutoff)) /\ UNCHANGED prune
    BY <2>1
  <2>3. latest' \in Nat /\ latest' <= changes + 1
    BY <2>2 DEF Stamped
  <2>4. changes' = changes + 1 /\ changes' \in Nat /\ changes' <= MaxChanges
    BY <1>2, <2>2
  <2>5. at \in 0 .. changes + 1 /\ status \in Displayed
    BY <2>1 DEF Displayed
  <2>6. index' \in Indices
    BY <1>3, <2>2, <2>4, <2>5, KeptIsIndex DEF Write
  <2>7. QED
    BY <2>2, <2>3, <2>4, <2>6
<1>5. ASSUME NEW s \in Sessions, Reconcile(s) PROVE ListingInv'
  <2>1. PICK status \in {"done", "unknown"}, at \in index[s].last + 1 .. latest + 1 :
          Stamped(at) /\ Write(With(s, status, at))
    BY <1>5 DEF Reconcile
  <2>2. changes' = changes + 1 /\ changes' \in Nat /\ changes' <= MaxChanges
    BY <1>2, <2>1
  <2>3. index[s].last \in Nat
    BY <1>5 DEF Reconcile, Indices, Entry
  <2>4. at \in 0 .. changes + 1 /\ status \in Displayed
    BY <2>1, <2>3 DEF Displayed
  <2>5. latest' \in Nat /\ latest' <= changes + 1
    BY <2>1, <2>4 DEF Stamped
  <2>6. index' \in Indices
    BY <1>3, <2>1, <2>2, <2>4 DEF Write
  <2>7. UNCHANGED prune
    BY <1>5 DEF Reconcile
  <2>8. QED
    BY <2>2, <2>5, <2>6, <2>7
<1>6. ASSUME NEW limit, GrowStale(limit) PROVE ListingInv'
  <2>1. changes' = changes + 1 /\ changes' \in Nat /\ changes' <= MaxChanges
    BY <1>2, <1>6 DEF GrowStale
  <2>2. index' \in Indices
    BY <1>6, KeptIsIndex DEF GrowStale, Write
  <2>3. prune' \in [loaded : BOOLEAN, kept : Indices]
    BY <1>6, KeptIsIndex DEF GrowStale
  <2>4. QED
    BY <1>6, <2>1, <2>2, <2>3 DEF GrowStale
<1>7. CASE LoadPrune
  <2>1. prune' \in [loaded : BOOLEAN, kept : Indices]
    BY <1>7, KeptIsIndex DEF LoadPrune
  <2>2. QED
    BY <1>7, <2>1 DEF LoadPrune
<1>8. CASE SavePrune
  <2>1. changes' = changes + 1 /\ changes' \in Nat /\ changes' <= MaxChanges
    BY <1>2, <1>8 DEF SavePrune
  <2>2. index' \in Indices
    BY <1>8 DEF SavePrune, Write
  <2>3. prune' \in [loaded : BOOLEAN, kept : Indices]
    BY <1>8 DEF SavePrune, NoPrune, NoSessions, Indices
  <2>4. QED
    BY <1>8, <2>1, <2>2, <2>3 DEF SavePrune
<1>9. QED
  BY <1>4, <1>5, <1>6, <1>7, <1>8, ViewersAssumption DEF ListingNext

-----------------------------------------------------------------------------
(* The watch.  The one stamp that it remembers of a session is that of the  *)
(* last alert, or the one there was before the first.                       *)

Stamps == Sessions \X (0 .. MaxChanges)

Seens == [Sessions -> (0 .. MaxChanges) \cup {Nothing}]

WatchType ==
  /\ watch \in [phase : {"start", "poll", "ended"}, once : BOOLEAN, existing : BOOLEAN,
                seen : Seens]
  /\ alerts \in Seq(Stamps)
  /\ before \in Seens
  /\ watch.phase = "start" =>
       alerts = <<>> /\ watch.seen = [s \in Sessions |-> Nothing] /\ before = watch.seen

SaidAt(s, i) ==
  /\ alerts[i][1] = s /\ alerts[i][2] = watch.seen[s]
  /\ \A j \in DOMAIN alerts : j > i => alerts[j][1] # s

SeenInv ==
  \A s \in Sessions :
    \/ /\ \A i \in DOMAIN alerts : alerts[i][1] # s
       /\ watch.seen[s] = before[s]
    \/ \E i \in DOMAIN alerts : SaidAt(s, i)

WatchInv == WatchType /\ SeenInv

LEMMA WatchStart == Init => WatchInv
  BY DEF Init, WatchInit, WatchInv, WatchType, SeenInv, Seens

LEMMA WatchRests == WatchInv /\ UNCHANGED watchVars => WatchInv'
  BY DEF watchVars, WatchInv, WatchType, SeenInv, SaidAt

\* The largest index is the one that CHOOSE finds.
LEMMA SaidIsSeen ==
  ASSUME WatchInv, NEW s \in Sessions
  PROVE  Said(s) = watch.seen[s]
<1> DEFINE of == {i \in DOMAIN alerts : alerts[i][1] = s}
<1>1. Said(s) = IF of = {} THEN before[s]
                ELSE alerts[CHOOSE i \in of : \A j \in of : j <= i][2]
  BY DEF Said
<1>2. CASE \A i \in DOMAIN alerts : alerts[i][1] # s
  <2>1. watch.seen[s] = before[s]
    BY <1>2 DEF WatchInv, SeenInv, SaidAt
  <2>2. QED
    BY <1>1, <1>2, <2>1
<1>3. CASE \E i \in DOMAIN alerts : SaidAt(s, i)
  <2>1. PICK i \in DOMAIN alerts : SaidAt(s, i)
    BY <1>3
  <2>2. DOMAIN alerts \subseteq Nat
    BY DEF WatchInv, WatchType
  <2>3. i \in of /\ \A j \in of : j <= i
    BY <2>1, <2>2 DEF SaidAt
  <2>4. \A k \in of : (\A j \in of : j <= k) => k = i
    BY <2>2, <2>3
  <2> HIDE DEF of
  <2>5. (CHOOSE k \in of : \A j \in of : j <= k) = i
    BY <2>3, <2>4
  <2>6. of # {}
    BY <2>3
  <2>7. QED
    BY <1>1, <2>1, <2>5, <2>6 DEF SaidAt
<1>4. QED
  BY <1>2, <1>3 DEF WatchInv, SeenInv

\* What was appended to a sequence is found behind it again.
LEMMA Appended ==
  ASSUME NEW T, NEW a \in Seq(T), NEW b \in Seq(T)
  PROVE  LET tail == SubSeq(a \o b, Len(a) + 1, Len(a \o b))
         IN  /\ Len(tail) = Len(b) /\ DOMAIN tail = 1 .. Len(b)
             /\ \A i \in 1 .. Len(b) : tail[i] = b[i]
<1> DEFINE c == a \o b
           first == Len(a) + 1
           last == Len(c)
           tail == SubSeq(c, first, last)
<1>1. /\ c \in Seq(T) /\ Len(c) = Len(a) + Len(b)
      /\ \A i \in 1 .. Len(a) + Len(b) : c[i] = IF i <= Len(a) THEN a[i] ELSE b[i - Len(a)]
  BY ConcatProperties
<1>2. Len(a) \in Nat /\ Len(b) \in Nat /\ first \in Int /\ last \in Int
  BY <1>1
<1>3. \A i \in first .. last : c[i] \in T
  BY <1>1, <1>2
<1> HIDE DEF c, first, last
<1>4. /\ tail \in Seq(T)
      /\ Len(tail) = IF first <= last THEN last - first + 1 ELSE 0
      /\ \A i \in 1 .. last - first + 1 : tail[i] = c[first + i - 1]
  BY <1>2, <1>3, SubSeqProperties
<1> HIDE DEF tail
<1>5. Len(tail) = Len(b) /\ DOMAIN tail = 1 .. Len(b)
  BY <1>1, <1>2, <1>4 DEF first, last
<1>6. ASSUME NEW i \in 1 .. Len(b) PROVE tail[i] = b[i]
  <2>1. i \in 1 .. last - first + 1 /\ first + i - 1 = Len(a) + i
    BY <1>1, <1>2 DEF first, last
  <2>2. Len(a) + i \in 1 .. Len(a) + Len(b) /\ ~(Len(a) + i <= Len(a)) /\ Len(a) + i - Len(a) = i
    BY <1>2
  <2>3. tail[i] = c[Len(a) + i]
    BY <1>4, <2>1
  <2>4. QED
    BY <1>1, <2>2, <2>3
<1>7. QED
  BY <1>5, <1>6 DEF c, first, last, tail

\* What a poll says: each due session once, behind what was said before.
LEMMA WatchPoll ==
  ASSUME ListingInv, WatchInv, Poll
  PROVE  /\ WatchInv'
         /\ LET said == SubSeq(alerts', Len(alerts) + 1, Len(alerts'))
                news == {s \in Matching : index[s].last # Said(s)}
            IN  /\ {said[i] : i \in DOMAIN said} = {<<s, index[s].last>> : s \in news}
                /\ Len(said) = Cardinality(news)
<1> DEFINE fresh == {s \in Sessions : Due(s)}
           due == Sorted(fresh, Earlier(index))
           new == [i \in DOMAIN due |-> <<due[i], index[due[i]].last>>]
           n == Cardinality(fresh)
           m == Len(alerts)
<1>1. /\ watch.phase = "poll"
      /\ alerts' = alerts \o new
      /\ before' = before
      /\ watch' = [watch EXCEPT !.phase = IF watch.once THEN "ended" ELSE "poll",
                                !.seen = [s \in Sessions |->
                                  IF Due(s) THEN index[s].last ELSE watch.seen[s]]]
  BY DEF Poll
<1>2. /\ fresh \subseteq Known(index)
      /\ \A s \in fresh : s \in Sessions /\ index[s].last \in 0 .. MaxChanges
  BY DEF Due, Matching, ListingInv, Known, Indices, Entry
<1>3. {s \in Matching : index[s].last # Said(s)} = fresh
  <2>1. \A s \in Matching : s \in Sessions
    BY DEF Matching, Known
  <2>2. \A s \in Sessions : Due(s) <=> s \in Matching /\ index[s].last # Said(s)
    BY SaidIsSeen DEF Due
  <2>3. QED
    BY <2>1, <2>2
<1>4. /\ n \in Nat
      /\ due \in [1 .. n -> fresh]
      /\ \A i, j \in 1 .. n : due[i] = due[j] => i = j
      /\ \A s \in fresh : \E i \in 1 .. n : due[i] = s
  <2>1. fresh \in SUBSET Known(index)
    BY <1>2
  <2>2. IsFiniteSet(fresh) /\ TotalOrder(fresh, Earlier(index))
    BY <2>1, EarlierTotal DEF ListingInv
  <2> HIDE DEF fresh
  <2>3. QED
    BY <2>2, SortedLists
<1> HIDE DEF due, fresh, n
<1>5. /\ new \in Seq(Stamps) /\ Len(new) = n /\ DOMAIN new = 1 .. n
      /\ \A i \in 1 .. n : new[i] = <<due[i], index[due[i]].last>>
  <2>1. \A i \in DOMAIN due : <<due[i], index[due[i]].last>> \in Stamps
    BY <1>2, <1>4 DEF Stamps
  <2>2. new \in [1 .. n -> Stamps]
    BY <1>4, <2>1
  <2>3. \A i \in 1 .. n : new[i] = <<due[i], index[due[i]].last>>
    BY <1>4
  <2> HIDE DEF new
  <2>4. new \in Seq(Stamps)
    BY <1>4, <2>2, SeqDef
  <2>5. Len(new) = n
    BY <1>4, <2>2, <2>4
  <2>6. QED
    BY <2>2, <2>3, <2>4, <2>5
<1> HIDE DEF new
<1>6. m \in Nat /\ DOMAIN alerts = 1 .. m /\ alerts \in Seq(Stamps)
  BY DEF WatchInv, WatchType
<1> HIDE DEF m
<1>7. /\ alerts' \in Seq(Stamps) /\ Len(alerts') = m + n /\ DOMAIN alerts' = 1 .. m + n
      /\ \A i \in 1 .. m : alerts'[i] = alerts[i]
      /\ \A i \in 1 .. n : alerts'[m + i] = new[i]
      /\ \A i \in m + 1 .. m + n : alerts'[i] = new[i - m] /\ i - m \in 1 .. n
  <2>1. /\ alerts \o new \in Seq(Stamps)
        /\ Len(alerts \o new) = m + n
        /\ \A i \in 1 .. m + n :
             (alerts \o new)[i] = IF i <= m THEN alerts[i] ELSE new[i - m]
    BY <1>5, <1>6, ConcatProperties DEF m
  <2>2. QED
    BY <1>1, <1>4, <1>6, <2>1
<1>8. /\ watch' \in [phase : {"start", "poll", "ended"}, once : BOOLEAN,
                      existing : BOOLEAN, seen : Seens]
      /\ watch'.phase # "start"
      /\ \A s \in fresh : watch'.seen[s] = index[s].last
      /\ \A s \in Sessions : s \notin fresh => watch'.seen[s] = watch.seen[s]
  <2>1. \A s \in Sessions : Due(s) <=> s \in fresh
    BY DEF fresh
  <2>2. [s \in Sessions |-> IF Due(s) THEN index[s].last ELSE watch.seen[s]] \in Seens
    BY <1>2, <2>1 DEF WatchInv, WatchType, Seens
  <2>3. QED
    BY <1>1, <1>2, <2>1, <2>2 DEF WatchInv, WatchType
<1>9. WatchType'
  BY <1>1, <1>7, <1>8 DEF WatchInv, WatchType
<1>10. ASSUME NEW s \in fresh PROVE \E i \in DOMAIN alerts' : SaidAt(s, i)'
  <2>1. PICK k \in 1 .. n : due[k] = s
    BY <1>4
  <2>2. m + k \in DOMAIN alerts' /\ alerts'[m + k] = <<s, index[s].last>>
    BY <1>4, <1>5, <1>6, <1>7, <2>1
  <2>3. ASSUME NEW j \in DOMAIN alerts', j > m + k PROVE alerts'[j][1] # s
    <3>1. j \in m + 1 .. m + n /\ j - m # k
      BY <1>4, <1>6, <1>7, <2>3
    <3>2. j - m \in 1 .. n /\ alerts'[j] = new[j - m]
      BY <1>7, <3>1
    <3>3. due[j - m] # due[k]
      BY <1>4, <3>1, <3>2
    <3>4. QED
      BY <1>5, <2>1, <3>2, <3>3
  <2>4. QED
    BY <1>8, <2>2, <2>3 DEF SaidAt
<1>11. ASSUME NEW s \in Sessions, s \notin fresh
       PROVE  \A i \in m + 1 .. m + n : alerts'[i][1] # s
  <2>1. \A i \in 1 .. n : new[i][1] \in fresh
    BY <1>4, <1>5
  <2>2. QED
    BY <1>7, <1>11, <2>1
<1>12. SeenInv'
  <2> SUFFICES ASSUME NEW s \in Sessions, s \notin fresh
               PROVE  \/ /\ \A i \in DOMAIN alerts' : alerts'[i][1] # s
                         /\ watch'.seen[s] = before'[s]
                      \/ \E i \in DOMAIN alerts' : SaidAt(s, i)'
    BY <1>10 DEF SeenInv
  <2>1. \A i \in DOMAIN alerts' : i \in 1 .. m \/ i \in m + 1 .. m + n
    BY <1>4, <1>6, <1>7
  <2>2. watch'.seen[s] = watch.seen[s]
    BY <1>8
  <2>3. CASE (\A i \in DOMAIN alerts : alerts[i][1] # s) /\ watch.seen[s] = before[s]
    BY <1>1, <1>6, <1>7, <1>11, <2>1, <2>2, <2>3
  <2>4. CASE \E i \in DOMAIN alerts : SaidAt(s, i)
    <3>1. PICK i \in DOMAIN alerts : SaidAt(s, i)
      BY <2>4
    <3>2. i \in DOMAIN alerts' /\ i \in 1 .. m /\ alerts'[i] = alerts[i]
      BY <1>4, <1>6, <1>7
    <3>3. \A j \in DOMAIN alerts' : j > i => alerts'[j][1] # s
      BY <1>6, <1>7, <1>11, <2>1, <3>1 DEF SaidAt
    <3>4. QED
      BY <2>2, <3>1, <3>2, <3>3 DEF SaidAt
  <2>5. QED
    BY <2>3, <2>4 DEF WatchInv, SeenInv
<1>13. LET said == SubSeq(alerts', m + 1, Len(alerts'))
       IN  /\ {said[i] : i \in DOMAIN said} = {<<s, index[s].last>> : s \in fresh}
           /\ Len(said) = n
  <2> DEFINE said == SubSeq(alerts', m + 1, Len(alerts'))
  <2>1. /\ Len(said) = n /\ DOMAIN said = 1 .. n
        /\ \A i \in 1 .. n : said[i] = new[i]
    BY <1>1, <1>5, <1>6, Appended DEF m
  <2> HIDE DEF said
  <2>2. {said[i] : i \in DOMAIN said} = {<<s, index[s].last>> : s \in fresh}
    <3>1. \A i \in DOMAIN said : said[i] = <<due[i], index[due[i]].last>> /\ due[i] \in fresh
      BY <1>4, <1>5, <2>1
    <3>2. \A s \in fresh : \E i \in DOMAIN said : due[i] = s
      BY <1>4, <2>1
    <3>3. QED
      BY <3>1, <3>2
  <2>3. QED
    BY <2>1, <2>2 DEF said
<1>14. QED
  BY <1>3, <1>9, <1>12, <1>13 DEF WatchInv, m, n

LEMMA WatchStep ==
  ASSUME ListingInv, WatchInv, WatchNext
  PROVE  WatchInv'
<1>1. CASE StartWatch
  <2>1. /\ watch.phase = "start" /\ alerts = <<>> /\ UNCHANGED alerts
        /\ watch' = [watch EXCEPT !.phase = "poll",
                                  !.seen = IF watch.existing THEN @ ELSE Seed(@)]
        /\ before' = [s \in Sessions |->
                       IF s \in Matching /\ ~watch.existing THEN index[s].last ELSE Nothing]
        /\ watch.seen = [s \in Sessions |-> Nothing]
    BY <1>1 DEF StartWatch, WatchInv, WatchType
  <2>2. \A s \in Matching : index[s].last \in 0 .. MaxChanges
    BY DEF Matching, ListingInv, Known, Indices, Entry
  <2>3. before' \in Seens
    BY <2>1, <2>2 DEF Seens
  <2>4. watch'.seen = before'
    <3>1. watch'.seen = IF watch.existing THEN watch.seen ELSE Seed(watch.seen)
      BY <2>1 DEF WatchInv, WatchType
    <3>2. QED
      BY <2>1, <3>1 DEF Seed
  <2>5. /\ watch' \in [phase : {"start", "poll", "ended"}, once : BOOLEAN,
                        existing : BOOLEAN, seen : Seens]
        /\ watch'.phase # "start"
    BY <2>1, <2>3, <2>4 DEF WatchInv, WatchType
  <2>6. alerts' \in Seq(Stamps) /\ alerts' = <<>>
    BY <2>1 DEF WatchInv, WatchType
  <2>7. QED
    BY <2>3, <2>4, <2>5, <2>6 DEF WatchInv, WatchType, SeenInv
<1>2. CASE Interrupt
  <2>1. UNCHANGED <<alerts, before>> /\ watch' = [watch EXCEPT !.phase = "ended"]
    BY <1>2 DEF Interrupt
  <2>2. /\ watch'.seen = watch.seen /\ watch'.phase = "ended"
        /\ watch' \in [phase : {"start", "poll", "ended"}, once : BOOLEAN,
                       existing : BOOLEAN, seen : Seens]
    BY <2>1 DEF WatchInv, WatchType
  <2>3. QED
    BY <2>1, <2>2 DEF WatchInv, WatchType, SeenInv, SaidAt
<1>3. QED
  BY <1>1, <1>2, WatchPoll DEF WatchNext

-----------------------------------------------------------------------------
(* The list of the tui.  Grouping keeps the order total, because the first  *)
(* session of each project decides.                                         *)

\* A nonempty set has a first element.
LEMMA FirstElement ==
  ASSUME NEW S, IsFiniteSet(S), NEW less, TotalOrder(S, less), S # {}
  PROVE  \E x \in S : \A y \in S \ {x} : <<x, y>> \in less
<1> DEFINE x == Sorted(S, less)[1]
<1>1. Cardinality(S) \in Nat /\ Cardinality(S) # 0
  BY FS_EmptySet, FS_CardinalityType
<1>2. 1 \in 1 .. Cardinality(S)
  BY <1>1
<1>3. x \in S /\ Cardinality(Below(S, less, x)) = 0
  BY <1>2, SortedLists
<1> HIDE DEF x
<1>4. Below(S, less, x) \in SUBSET S
  BY DEF Below
<1>5. IsFiniteSet(Below(S, less, x))
  BY <1>4, FS_Subset
<1>6. Below(S, less, x) = {}
  BY <1>3, <1>5, FS_EmptySet
<1>7. QED
  BY <1>3, <1>6 DEF Below, TotalOrder

LEMMA GroupedTotal ==
  ASSUME NEW S, IsFiniteSet(S), NEW less, TotalOrder(S, less)
  PROVE  TotalOrder(S, Grouped(S, less))
<1> DEFINE ahead(p, q) == \E s \in Of(S, p) : \A t \in Of(S, q) : <<s, t>> \in less
<1>1. ASSUME NEW x \in S, NEW y \in S
      PROVE  <<x, y>> \in Grouped(S, less) <=>
               IF Project[x] = Project[y] THEN <<x, y>> \in less
               ELSE ahead(Project[x], Project[y])
  BY DEF Grouped
<1>2. \A x \in S : x \in Of(S, Project[x])
  BY DEF Of
<1>3. \A p : Of(S, p) \subseteq S
  BY DEF Of
<1>4. ASSUME NEW p, NEW q, NEW r, Of(S, r) # {}, ahead(p, q), ahead(q, r)
      PROVE  p # r /\ ahead(p, r)
  <2>1. PICK s \in Of(S, p) : \A t \in Of(S, q) : <<s, t>> \in less
    BY <1>4
  <2>2. PICK u \in Of(S, q) : \A t \in Of(S, r) : <<u, t>> \in less
    BY <1>4
  <2>3. <<s, u>> \in less
    BY <2>1, <2>2
  <2>4. \A t \in Of(S, r) : <<s, t>> \in less
    BY <1>3, <2>2, <2>3 DEF TotalOrder
  <2>5. p # r
    BY <1>3, <2>4 DEF TotalOrder
  <2>6. QED
    BY <2>4, <2>5
<1>5. ASSUME NEW x \in S, NEW y \in S, Project[x] # Project[y]
      PROVE  ahead(Project[x], Project[y]) \/ ahead(Project[y], Project[x])
  <2> DEFINE T == Of(S, Project[x]) \cup Of(S, Project[y])
  <2>1. T \in SUBSET S /\ T # {}
    BY <1>2, <1>3
  <2>2. IsFiniteSet(T) /\ TotalOrder(T, less)
    BY <2>1, FS_Subset DEF TotalOrder
  <2>3. PICK m \in T : \A t \in T \ {m} : <<m, t>> \in less
    <3> HIDE DEF T
    <3>1. QED
      BY <2>1, <2>2, FirstElement
  <2>4. CASE m \in Of(S, Project[x])
    <3>1. m \notin Of(S, Project[y])
      BY <1>5, <2>4 DEF Of
    <3>2. QED
      BY <2>3, <2>4, <3>1
  <2>5. CASE m \in Of(S, Project[y])
    <3>1. m \notin Of(S, Project[x])
      BY <1>5, <2>5 DEF Of
    <3>2. QED
      BY <2>3, <2>5, <3>1
  <2>6. QED
    BY <2>3, <2>4, <2>5
<1> HIDE DEF ahead
<1>6. \A x \in S : <<x, x>> \notin Grouped(S, less)
  BY <1>1 DEF TotalOrder
<1>7. ASSUME NEW x \in S, NEW y \in S, NEW z \in S,
             <<x, y>> \in Grouped(S, less), <<y, z>> \in Grouped(S, less)
      PROVE  <<x, z>> \in Grouped(S, less)
  <2>1. CASE Project[x] = Project[y] /\ Project[y] = Project[z]
    BY <1>1, <1>7, <2>1 DEF TotalOrder
  <2>2. CASE Project[x] = Project[y] /\ Project[y] # Project[z]
    BY <1>1, <1>7, <2>2
  <2>3. CASE Project[x] # Project[y] /\ Project[y] = Project[z]
    BY <1>1, <1>7, <2>3
  <2>4. CASE Project[x] # Project[y] /\ Project[y] # Project[z]
    <3>1. ahead(Project[x], Project[y]) /\ ahead(Project[y], Project[z])
      BY <1>1, <1>7, <2>4
    <3>2. Of(S, Project[z]) # {}
      BY <1>2
    <3>3. QED
      BY <1>1, <1>4, <3>1, <3>2
  <2>5. QED
    BY <2>1, <2>2, <2>3, <2>4
<1>8. \A x, y \in S : x # y => <<x, y>> \in Grouped(S, less) \/ <<y, x>> \in Grouped(S, less)
  BY <1>1, <1>5 DEF TotalOrder
<1>9. QED
  BY <1>6, <1>7, <1>8 DEF TotalOrder

LEMMA VisibleList ==
  ASSUME index \in Indices, NEW filter
  PROVE  VisibleSessions(filter) \in Seq(Sessions)
<1> DEFINE S == {s \in Known(index) : Matches(filter, s)}
<1>1. S \in SUBSET Known(index) /\ S \subseteq Sessions
  BY DEF Known
<1>2. VisibleSessions(filter) = Sorted(S, Grouped(S, Earlier(index)))
  BY DEF VisibleSessions
<1> HIDE DEF S
<1>3. IsFiniteSet(S) /\ TotalOrder(S, Grouped(S, Earlier(index)))
  BY <1>1, EarlierTotal, GroupedTotal
<1>4. /\ Cardinality(S) \in Nat
      /\ VisibleSessions(filter) \in [1 .. Cardinality(S) -> S]
  BY <1>2, <1>3, SortedLists
<1>5. VisibleSessions(filter) \in [1 .. Cardinality(S) -> Sessions]
  BY <1>1, <1>4
<1>6. QED
  BY <1>4, <1>5, SeqDef

-----------------------------------------------------------------------------
(* The rows of the tui *)

Rows == [kind : {"session"}, of : Sessions] \cup [kind : {"group"}, of : Projects]

\* A session is one or two rows behind the session before it.
LEMMA RowSteps ==
  ASSUME NEW list \in Seq(Sessions)
  PROVE  /\ RowOf(list, 0) = 0
         /\ \A i \in 0 .. Len(list) : RowOf(list, i) \in Nat
         /\ \A i \in 1 .. Len(list) :
              RowOf(list, i) - RowOf(list, i - 1) \in {1, 2}
         /\ \A i, j \in 0 .. Len(list) : i < j => RowOf(list, i) < RowOf(list, j)
<1> DEFINE heads(i) == Heads(list) \cap (1 .. i)
<1>0. Len(list) \in Nat
  OBVIOUS
<1>1. ASSUME NEW i \in 0 .. Len(list)
      PROVE  IsFiniteSet(heads(i)) /\ Cardinality(heads(i)) \in Nat
  <2>1. IsFiniteSet(1 .. i)
    BY FS_Interval
  <2>2. heads(i) \in SUBSET (1 .. i)
    OBVIOUS
  <2>3. IsFiniteSet(heads(i))
    BY <2>1, <2>2, FS_Subset
  <2>4. QED
    BY <2>3, FS_CardinalityType
<1>2. Cardinality(heads(0)) = 0
  <2>1. heads(0) = {}
    OBVIOUS
  <2>2. QED
    BY <2>1, FS_EmptySet
<1>3. ASSUME NEW i \in 1 .. Len(list)
      PROVE  Cardinality(heads(i)) \in {Cardinality(heads(i - 1)), Cardinality(heads(i - 1)) + 1}
  <2>1. heads(i) = heads(i - 1) \/ heads(i) = heads(i - 1) \cup {i}
    OBVIOUS
  <2>2. i - 1 \in 0 .. Len(list)
    BY <1>0
  <2>3. IsFiniteSet(heads(i - 1))
    BY <1>1, <2>2
  <2> HIDE DEF heads
  <2>4. Cardinality(heads(i - 1) \cup {i})
          \in {Cardinality(heads(i - 1)), Cardinality(heads(i - 1)) + 1}
    BY <2>3, FS_AddElement
  <2>5. QED
    BY <2>1, <2>4
<1>4. ASSUME NEW i \in 0 .. Len(list), NEW j \in 0 .. Len(list), i < j
      PROVE  Cardinality(heads(i)) <= Cardinality(heads(j))
  <2>1. heads(i) \in SUBSET heads(j)
    BY <1>0, <1>4
  <2>2. IsFiniteSet(heads(j))
    BY <1>1
  <2> HIDE DEF heads
  <2>3. QED
    BY <2>1, <2>2, FS_Subset
<1>5. \A i : RowOf(list, i) = i + Cardinality(heads(i))
  BY DEF RowOf
<1> HIDE DEF heads
<1>6. \A i \in 1 .. Len(list) : i - 1 \in 0 .. Len(list) /\ i \in 0 .. Len(list)
  BY <1>0
<1>7. \A i \in 0 .. Len(list) : RowOf(list, i) \in Nat
  BY <1>0, <1>1, <1>5
<1>8. ASSUME NEW i \in 1 .. Len(list) PROVE RowOf(list, i) - RowOf(list, i - 1) \in {1, 2}
  <2>1. i - 1 \in 0 .. Len(list) /\ i \in 0 .. Len(list) /\ i \in Nat /\ i - 1 \in Nat
    BY <1>0
  <2>2. RowOf(list, i) = i + Cardinality(heads(i))
    BY <1>5
  <2>3. RowOf(list, i - 1) = (i - 1) + Cardinality(heads(i - 1))
    BY <1>5
  <2>4. Cardinality(heads(i - 1)) \in Nat
    BY <1>1, <2>1
  <2>5. \/ Cardinality(heads(i)) = Cardinality(heads(i - 1))
        \/ Cardinality(heads(i)) = Cardinality(heads(i - 1)) + 1
    BY <1>3
  <2>6. QED
    BY <2>1, <2>2, <2>3, <2>4, <2>5
<1>9. \A i, j \in 0 .. Len(list) : i < j => RowOf(list, i) < RowOf(list, j)
  BY <1>0, <1>1, <1>4, <1>5
<1>10. QED
  BY <1>2, <1>5, <1>7, <1>8, <1>9

\* Every session has its row, and every row is one of a session or a project.
LEMMA RowsShown ==
  ASSUME NEW list \in Seq(Sessions)
  PROVE  /\ ViewRows(list) \in Seq(Rows)
         /\ Len(ViewRows(list)) = RowOf(list, Len(list))
         /\ \A i \in 1 .. Len(list) :
              /\ RowOf(list, i) \in 1 .. RowOf(list, Len(list))
              /\ ViewRows(list)[RowOf(list, i)] = SessionRow(list[i])
<1> DEFINE l == Len(list)
           n == RowOf(list, l)
           row(i) == RowOf(list, i)
<1>0. l \in Nat /\ DOMAIN list = 1 .. l /\ \A i \in 1 .. l : list[i] \in Sessions
  OBVIOUS
<1>1. /\ row(0) = 0
      /\ \A i \in 0 .. l : row(i) \in Nat
      /\ \A i \in 1 .. l : row(i) - row(i - 1) \in {1, 2}
      /\ \A i, j \in 0 .. l : i < j => row(i) < row(j)
  BY RowSteps
<1>2. n \in Nat
  BY <1>0, <1>1
<1> HIDE DEF l, row
<1>3. \A i, j \in 1 .. l : row(i) = row(j) => i = j
  <2>1. \A i \in 1 .. l : i \in 0 .. l /\ i \in Nat
    BY <1>0
  <2>2. SUFFICES ASSUME NEW i \in 1 .. l, NEW j \in 1 .. l, i # j PROVE row(i) # row(j)
    OBVIOUS
  <2>3. i < j \/ j < i
    BY <2>1, <2>2
  <2>4. QED
    BY <1>1, <2>1, <2>3
<1>4. \A i \in 1 .. l : row(i) \in 1 .. row(l)
  <2>1. SUFFICES ASSUME NEW i \in 1 .. l PROVE row(i) \in 1 .. row(l)
    OBVIOUS
  <2>2. 0 \in 0 .. l /\ i \in 0 .. l /\ l \in 0 .. l /\ 0 < i /\ (i < l \/ i = l)
    BY <1>0
  <2>3. row(0) < row(i) /\ (row(i) < row(l) \/ row(i) = row(l))
    BY <1>1, <2>2
  <2>4. row(i) \in Nat /\ row(l) \in Nat
    BY <1>1, <2>2
  <2>5. QED
    BY <1>1, <2>3, <2>4
<1>5. ASSUME NEW k \in 1 .. row(l)
      PROVE  \E i \in 1 .. l : k = row(i) \/ k = row(i) - 1
  <2> DEFINE T == {i \in 1 .. l : k <= row(i)}
  <2>0. l # 0 /\ row(l) \in Nat /\ k \in Nat
    BY <1>0, <1>1
  <2>1. l \in T
    BY <1>0, <2>0
  <2>2. T \subseteq Nat
    BY <1>0
  <2>3. PICK i \in T : \A j \in T : i <= j
    <3> HIDE DEF T
    <3>1. QED
      BY <2>1, <2>2, LeastNumber
  <2>4. i \in 1 .. l /\ i - 1 \in 0 .. l /\ k <= row(i) /\ i \in 0 .. l
    BY <1>0, <2>3
  <2>5. row(i - 1) < k
    <3>1. CASE i = 1
      BY <1>1, <3>1
    <3>2. CASE i # 1
      <4>1. i - 1 \in 1 .. l /\ ~(i <= i - 1)
        BY <1>0, <2>4, <3>2
      <4>2. i - 1 \notin T
        BY <2>3, <4>1
      <4>3. ~(k <= row(i - 1)) /\ row(i - 1) \in Nat
        BY <1>1, <2>4, <4>1, <4>2
      <4>4. QED
        BY <2>0, <4>3
    <3>3. QED
      BY <3>1, <3>2
  <2>6. row(i) \in Nat /\ row(i - 1) \in Nat /\ row(i) - row(i - 1) \in {1, 2}
    BY <1>1, <2>4
  <2>7. k = row(i) \/ k = row(i) - 1
    BY <2>0, <2>4, <2>5, <2>6
  <2>8. QED
    BY <2>4, <2>7
<1>6. ViewRows(list) =
        [k \in 1 .. row(l) |->
          IF \E i \in 1 .. l : k = row(i)
          THEN SessionRow(list[CHOOSE i \in 1 .. l : k = row(i)])
          ELSE GroupRow(Project[list[CHOOSE i \in 1 .. l : k = row(i) - 1]])]
  BY <1>0 DEF ViewRows, l, row
<1>7. ASSUME NEW i \in 1 .. l PROVE ViewRows(list)[row(i)] = SessionRow(list[i])
  <2>1. (CHOOSE j \in 1 .. l : row(i) = row(j)) = i
    BY <1>3
  <2>2. QED
    BY <1>4, <1>6, <2>1
<1>8. ASSUME NEW k \in 1 .. row(l) PROVE ViewRows(list)[k] \in Rows
  <2>1. CASE \E i \in 1 .. l : k = row(i)
    <3>1. PICK i \in 1 .. l : k = row(i)
      BY <2>1
    <3>2. ViewRows(list)[k] = SessionRow(list[i])
      BY <1>7, <3>1
    <3>3. list[i] \in Sessions
      BY <1>0
    <3>4. QED
      BY <3>2, <3>3 DEF Rows, SessionRow
  <2>2. CASE ~ \E i \in 1 .. l : k = row(i)
    <3>1. \E i \in 1 .. l : k = row(i) - 1
      BY <1>5, <2>2
    <3> DEFINE c == CHOOSE i \in 1 .. l : k = row(i) - 1
    <3>2. c \in 1 .. l
      BY <3>1
    <3>3. ViewRows(list)[k] = GroupRow(Project[list[c]])
      BY <1>6, <2>2
    <3> HIDE DEF c
    <3>4. Project[list[c]] \in Projects
      BY <1>0, <3>2, ListingAssumption
    <3>5. QED
      BY <3>3, <3>4 DEF Rows, GroupRow
  <2>3. QED
    BY <2>1, <2>2
<1>9. row(l) \in Nat
  BY <1>0, <1>1
<1>10. ViewRows(list) \in [1 .. row(l) -> Rows]
  BY <1>6, <1>8
<1>11. ViewRows(list) \in Seq(Rows) /\ Len(ViewRows(list)) = row(l)
  BY <1>9, <1>10, SeqDef, LenProperties
<1>12. QED
  BY <1>4, <1>7, <1>11 DEF row, l

\* The first row of the window is neither behind the selected row nor so far
\* before it that the row falls out below.
LEMMA StartInside ==
  ASSUME NEW rows, Len(rows) \in Nat, NEW size \in Nat \ {0}, size < Len(rows),
         NEW row \in 0 .. Len(rows) - 1
  PROVE  Start(rows, row, size) \in 0 .. row /\ row - Start(rows, row, size) < size
<1> DEFINE start == Smallest(Largest(0, row - size + 1), Len(rows) - size)
           behindHeader == /\ start > 0
                           /\ rows[start + 1].kind = "session" /\ rows[start].kind = "group"
<1>1. start \in 0 .. row /\ row - start < size
  BY DEF Smallest, Largest
<1>2. Start(rows, row, size)
        = IF behindHeader /\ row - (start - 1) < size THEN start - 1 ELSE start
  BY DEF Start
<1>3. behindHeader => start > 0
  OBVIOUS
<1> HIDE DEF start, behindHeader
<1>4. QED
  BY <1>1, <1>2, <1>3

\* The window contains the row of the selected session, and marks it.
LEMMA WindowShows ==
  ASSUME NEW list \in Seq(Sessions), list # <<>>, NEW selected \in 0 .. Len(list) - 1,
         NEW size \in Nat \ {0}
  PROVE  LET window == ViewWindow(list, selected, size)
         IN  /\ window.marked \in Nat
             /\ window.rows \in Seq(Rows)
             /\ window.marked + 1 \in DOMAIN window.rows
             /\ window.rows[window.marked + 1] = SessionRow(list[selected + 1])
<1> DEFINE rows == ViewRows(list)
           n == Len(rows)
           row == RowOf(list, selected + 1) - 1
           start == IF n <= size THEN 0 ELSE Start(rows, row, size)
           end == Smallest(start + size, n)
           part == SubSeq(rows, start + 1, end)
<1>1. selected + 1 \in 1 .. Len(list)
  OBVIOUS
<1>2. /\ rows \in Seq(Rows) /\ n \in Nat /\ row \in 0 .. n - 1
      /\ rows[row + 1] = SessionRow(list[selected + 1])
  <2>1. /\ rows \in Seq(Rows) /\ n = RowOf(list, Len(list)) /\ n \in Nat
        /\ RowOf(list, selected + 1) \in 1 .. n
        /\ rows[RowOf(list, selected + 1)] = SessionRow(list[selected + 1])
    BY <1>1, RowsShown
  <2> HIDE DEF rows, n
  <2>2. row + 1 = RowOf(list, selected + 1) /\ row \in 0 .. n - 1
    BY <2>1
  <2> HIDE DEF row
  <2>3. QED
    BY <2>1, <2>2
<1>3. ViewWindow(list, selected, size) = [rows |-> part, marked |-> Largest(0, row - start)]
  BY DEF ViewWindow
<1> HIDE DEF rows, row
<1>4. start \in 0 .. row /\ row - start < size
  <2>1. CASE n <= size
    BY <1>2, <2>1
  <2>2. CASE ~(n <= size)
    BY <1>2, <2>2, StartInside
  <2>3. QED
    BY <2>1, <2>2
<1>5. \A i \in 1 .. n : rows[i] \in Rows
  BY <1>2
<1> HIDE DEF n, start
<1>6. end \in Nat /\ end <= n /\ row + 1 <= end /\ start + 1 <= end
  BY <1>2, <1>4 DEF Smallest
<1> HIDE DEF end
<1>7. \A i \in start + 1 .. end : rows[i] \in Rows
  BY <1>2, <1>4, <1>5, <1>6
<1>8. start + 1 \in Int /\ end \in Int
  BY <1>2, <1>4, <1>6
<1>9. /\ part \in Seq(Rows)
      /\ Len(part) = IF start + 1 <= end THEN end - (start + 1) + 1 ELSE 0
      /\ \A i \in 1 .. end - (start + 1) + 1 : part[i] = rows[start + 1 + i - 1]
  BY <1>7, <1>8, SubSeqProperties
<1>10. Largest(0, row - start) = row - start /\ row - start \in Nat
  BY <1>2, <1>4 DEF Largest
<1>11. row - start + 1 \in 1 .. end - (start + 1) + 1 /\ start + 1 + (row - start + 1) - 1 = row + 1
  BY <1>2, <1>4, <1>6
<1> HIDE DEF part
<1>12. DOMAIN part = 1 .. Len(part) /\ Len(part) = end - (start + 1) + 1
  BY <1>6, <1>9
<1>13. row - start + 1 \in DOMAIN part /\ part[row - start + 1] = rows[row + 1]
  BY <1>9, <1>11, <1>12
<1>14. QED
  BY <1>2, <1>3, <1>9, <1>10, <1>13

-----------------------------------------------------------------------------
(* The tui *)

TuiInv ==
  /\ tui \in [phase : {"draw", "keys", "left"}, filter : Filters, selected : Nat,
               list : Seq(Sessions), resumed : Sessions \cup {Nothing}]
  /\ screen.marked \in Nat
  /\ screen.rows \in Seq(Rows)
  /\ tui.phase = "keys" /\ tui.list # <<>> => tui.selected < Len(tui.list)
  /\ tui.resumed # Nothing => tui.phase = "left"
  /\ ResumedWasMarked

LEMMA ClampInside ==
  ASSUME NEW list \in Seq(Sessions), NEW selected \in Int
  PROVE  /\ Clamp(selected, list) \in Nat
         /\ list # <<>> => Clamp(selected, list) \in 0 .. Len(list) - 1
<1>1. Len(list) \in Nat /\ (list # <<>> => Len(list) > 0)
  OBVIOUS
<1>2. QED
  BY <1>1 DEF Clamp

LEMMA TuiStart == Init => TuiInv
<1> SUFFICES ASSUME Init PROVE TuiInv
  OBVIOUS
<1>1. PICK f \in Filters : tui = [phase |-> "draw", filter |-> f, selected |-> 0,
                                 list |-> <<>>, resumed |-> Nothing]
  BY DEF Init, TuiInit
<1>2. screen = [rows |-> <<>>, marked |-> 0]
  BY DEF Init, TuiInit
<1>3. QED
  BY <1>1, <1>2 DEF TuiInv, ResumedWasMarked

LEMMA TuiStep ==
  ASSUME index \in Indices, TuiInv, TuiNext
  PROVE  TuiInv'
<1>1. CASE Draw
  <2> DEFINE list == VisibleSessions(tui.filter)
             selected == Clamp(tui.selected, list)
  <2>1. PICK size \in Heights : screen' = ViewWindow(list, selected, size)
    BY <1>1 DEF Draw
  <2>2. /\ tui.phase = "draw"
        /\ tui' = [tui EXCEPT !.phase = "keys", !.list = list, !.selected = selected]
    BY <1>1 DEF Draw
  <2>3. list \in Seq(Sessions)
    BY VisibleList
  <2> HIDE DEF list
  <2>4. selected \in Nat /\ (list # <<>> => selected \in 0 .. Len(list) - 1)
    BY <2>3, ClampInside DEF TuiInv
  <2> HIDE DEF selected
  <2>5. /\ tui' \in [phase : {"draw", "keys", "left"}, filter : Filters, selected : Nat,
                      list : Seq(Sessions), resumed : Sessions \cup {Nothing}]
        /\ tui'.list = list /\ tui'.selected = selected /\ tui'.resumed = Nothing
    BY <2>2, <2>3, <2>4 DEF TuiInv
  <2>6. size \in Nat \ {0}
    BY TerminalAssumption
  <2>7. CASE list = <<>>
    <3>1. screen' = [rows |-> <<>>, marked |-> 0]
      BY <2>1, <2>7 DEF ViewWindow
    <3>2. QED
      BY <2>5, <2>7, <3>1 DEF TuiInv, ResumedWasMarked
  <2>8. CASE list # <<>>
    <3>1. /\ screen'.marked \in Nat
          /\ screen'.rows \in Seq(Rows)
          /\ screen'.marked + 1 \in DOMAIN screen'.rows
          /\ screen'.rows[screen'.marked + 1] = SessionRow(list[selected + 1])
      BY <2>1, <2>3, <2>4, <2>6, <2>8, WindowShows
    <3>2. QED
      BY <2>3, <2>4, <2>5, <2>8, <3>1 DEF TuiInv, ResumedWasMarked
  <2>9. QED
    BY <2>7, <2>8
<1>2. CASE Redraw \/ Move(1) \/ Move(-1)
  <2>1. PICK selected \in Nat :
          tui.phase = "keys" /\ tui' = [tui EXCEPT !.phase = "draw", !.selected = selected]
    <3>1. CASE Redraw
      BY <3>1 DEF Redraw, TuiInv
    <3>2. ASSUME NEW delta \in Int, Move(delta)
          PROVE  \E selected \in Nat : /\ tui.phase = "keys"
                                       /\ tui' = [tui EXCEPT !.phase = "draw",
                                                             !.selected = selected]
      <4>0. tui.list \in Seq(Sessions) /\ tui.selected + delta \in Int
        BY DEF TuiInv
      <4>1. Clamp(tui.selected + delta, tui.list) \in Nat
        BY <4>0, ClampInside
      <4>2. QED
        BY <3>2, <4>1 DEF Move
    <3>3. 1 \in Int /\ -1 \in Int
      OBVIOUS
    <3>4. CASE Move(1)
      BY <3>2, <3>3, <3>4
    <3>5. CASE Move(-1)
      BY <3>2, <3>3, <3>5
    <3>6. QED
      BY <1>2, <3>1, <3>4, <3>5
  <2>2. UNCHANGED screen
    BY <1>2 DEF Redraw, Move
  <2>3. QED
    BY <2>1, <2>2 DEF TuiInv, ResumedWasMarked
<1>3. CASE Resume
  <2> DEFINE s == tui.list[tui.selected + 1]
  <2>1. /\ tui.phase = "keys" /\ tui.list # <<>> /\ s \notin Anonymous
        /\ tui' = [tui EXCEPT !.phase = "left", !.resumed = s] /\ UNCHANGED screen
    BY <1>3 DEF Resume
  <2>2. s \in Sessions /\ s # Nothing
    <3>1. tui.selected + 1 \in 1 .. Len(tui.list) /\ tui.list \in Seq(Sessions)
      BY <2>1 DEF TuiInv
    <3>2. s \in Sessions
      BY <3>1
    <3>3. QED
      BY <3>2, ListingAssumption, TerminalAssumption
  <2>3. screen.rows[screen.marked + 1] = SessionRow(s)
    BY <2>1 DEF TuiInv, ResumedWasMarked
  <2> HIDE DEF s
  <2>4. /\ tui' \in [phase : {"draw", "keys", "left"}, filter : Filters, selected : Nat,
                      list : Seq(Sessions), resumed : Sessions \cup {Nothing}]
        /\ tui'.phase = "left" /\ tui'.resumed = s
    BY <2>1, <2>2 DEF TuiInv
  <2>5. QED
    BY <2>1, <2>2, <2>3, <2>4 DEF TuiInv, ResumedWasMarked
<1>4. CASE Quit
  <2>1. tui.phase = "keys" /\ tui' = [tui EXCEPT !.phase = "left"] /\ UNCHANGED screen
    BY <1>4 DEF Quit
  <2>2. QED
    BY <2>1 DEF TuiInv, ResumedWasMarked
<1>5. QED
  BY <1>1, <1>2, <1>3, <1>4 DEF TuiNext

-----------------------------------------------------------------------------
(* The dashboard *)

\* What a refresh has read is no younger than the index, and the latest refresh
\* has read nothing older than what is shown.
RefreshOk(r) ==
  /\ DOMAIN r = {"serial", "update", "source", "stage", "read"}
  /\ r.serial \in 0 .. serial
  /\ r.source.at \in 0 .. changes
  /\ r.serial = serial => r.source.at >= shown.at

RefreshInv ==
  /\ changes \in Nat /\ serial \in Nat
  /\ DOMAIN shown = {"at", "list", "read"} /\ shown.at \in 0 .. changes
  /\ \A r \in refreshes : RefreshOk(r)
  /\ \A q, r \in refreshes : q.serial = r.serial => q = r

LEMMA RefreshInit == Init => RefreshInv
  BY DEF Init, ListingInit, DashboardInit, RefreshInv, RefreshOk

LEMMA RefreshStep ==
  ASSUME RefreshInv, [Next]_vars
  PROVE  RefreshInv' /\ shown'.at >= shown.at
<1> USE DEF RefreshInv, RefreshOk
<1>1. CASE UNCHANGED dashboardVars
  BY <1>1, Cases DEF dashboardVars
<1>2. CASE DashboardNext /\ UNCHANGED changes
  <2>1. CASE \E update \in BOOLEAN : StartRefresh(update)
    <3>1. PICK r : /\ \E update, st, read : r = Refresh(update, st, read)
                   /\ refreshes' = refreshes \cup {r}
      BY <2>1, Zenon DEF StartRefresh
    <3>2. UNCHANGED <<shown, changes>> /\ serial' = serial + 1
      BY <1>2, <2>1 DEF StartRefresh
    <3>3. RefreshOk(r)' /\ r.serial = serial + 1
      BY <3>1, <3>2 DEF Refresh, Snapshot
    <3>4. \A q \in refreshes : RefreshOk(q)' /\ q.serial # serial + 1
      BY <3>2
    <3>5. QED
      BY <3>1, <3>2, <3>3, <3>4
  <2>2. CASE \E r \in refreshes : ExportRead(r) \/ ExportUnused(r) \/ Decorate(r)
    <3>1. PICK r \in refreshes : ExportRead(r) \/ ExportUnused(r) \/ Decorate(r)
      BY <2>2
    <3>2. UNCHANGED <<serial, shown, changes>>
      BY <1>2, <3>1 DEF ExportRead, ExportUnused, Decorate
    <3>3. \E s : /\ RefreshOk(s) /\ s.serial = r.serial
               /\ refreshes' = (refreshes \ {r}) \cup {s}
      <4>1. CASE ExportRead(r)
        <5>1. /\ RefreshOk([r EXCEPT !.stage = "loaded", !.source = Snapshot])
              /\ [r EXCEPT !.stage = "loaded", !.source = Snapshot].serial = r.serial
          BY DEF Snapshot
        <5>2. QED
          BY <4>1, <5>1, Zenon DEF ExportRead, Replace
      <4>2. CASE ExportUnused(r)
        <5>1. /\ RefreshOk([r EXCEPT !.stage = "loaded"])
              /\ [r EXCEPT !.stage = "loaded"].serial = r.serial
          OBVIOUS
        <5>2. QED
          BY <4>2, <5>1, Zenon DEF ExportUnused, Replace
      <4>3. CASE Decorate(r)
        <5>1. /\ RefreshOk([r EXCEPT !.stage = "catalog", !.read = Pruned(r.source.list)])
              /\ [r EXCEPT !.stage = "catalog", !.read = Pruned(r.source.list)].serial = r.serial
          OBVIOUS
        <5>2. QED
          BY <4>3, <5>1, Zenon DEF Decorate, Replace
      <4>4. QED
        BY <3>1, <4>1, <4>2, <4>3
    <3>4. QED
      BY <3>2, <3>3
  <2>3. CASE \E r \in refreshes : Finish(r)
    <3>1. PICK r \in refreshes : Finish(r)
      BY <2>3
    <3>2. UNCHANGED <<serial, changes>> /\ refreshes' = refreshes \ {r}
      BY <1>2, <3>1 DEF Finish
    <3>3. CASE r.serial = serial
      <4>1. shown' = [at |-> r.source.at, list |-> r.source.list, read |-> r.read]
        BY <3>1, <3>3 DEF Finish, IsLatest
      <4>2. \A q \in refreshes' : q \in refreshes /\ q.serial # serial
        BY <3>2, <3>3
      <4>3. RefreshOk(r)
        OBVIOUS
      <4>4. QED
        BY <3>2, <3>3, <4>1, <4>2, <4>3
    <3>4. CASE r.serial # serial
      BY <3>1, <3>2, <3>4 DEF Finish, IsLatest
    <3>5. QED
      BY <3>3, <3>4
  <2>4. CASE \E r \in refreshes : Fail(r)
    BY <1>2, <2>4 DEF Fail
  <2>5. CASE \E s \in Sessions : OpenPreview(s) \/ MarkRead(s) \/ MarkUnread(s)
    BY <1>2, <2>5 DEF OpenPreview, MarkRead, MarkUnread
  <2>6. CASE (\E p \in previews : PreviewArrives(p)) \/ ClosePanel \/ PreviewReady
    <3>1. UNCHANGED <<serial, shown, refreshes>>
      BY <2>6, Zenon DEF PreviewArrives, ClosePanel, PreviewReady
    <3>2. QED
      BY <1>2, <3>1
  <2>7. QED
    BY <1>2, <2>1, <2>2, <2>3, <2>4, <2>5, <2>6 DEF DashboardNext
<1>3. QED
  BY <1>1, <1>2, Cases

\* The panel has the fields that opening and closing it leave it with; a webview
\* that has been given a session is ready, and a pending session goes with it.
PanelInv ==
  /\ DOMAIN panel = {"number", "open", "key", "ready", "pending", "seen"}
  /\ panel.ready \in BOOLEAN
  /\ panel.seen # None => panel.ready

LEMMA PanelInit == Init => PanelInv
  BY DEF Init, DashboardInit, NoPanel, PanelInv

\* A panel that shows the session it is for goes on doing so.
LEMMA PanelStep ==
  ASSUME changes \in Nat, PanelInv, [Next]_vars
  PROVE  /\ PanelInv'
         /\ panel.open /\ panel.key # None /\ panel.seen = panel.key
              /\ panel'.open /\ panel'.key = panel.key => panel'.seen = panel.key
<1> USE DEF PanelInv
<1>1. CASE UNCHANGED panel
  BY <1>1
<1>2. CASE DashboardNext
  <2>1. CASE \/ \E update \in BOOLEAN : StartRefresh(update)
             \/ \E r \in refreshes :
                  ExportRead(r) \/ ExportUnused(r) \/ Decorate(r) \/ Finish(r) \/ Fail(r)
             \/ \E s \in Sessions : MarkRead(s) \/ MarkUnread(s)
    BY <1>1, <2>1, Zenon DEF StartRefresh, ExportRead, ExportUnused, Decorate, Finish, Fail,
       MarkRead, MarkUnread
  <2>2. CASE \E s \in Sessions : OpenPreview(s)
    BY <2>2 DEF OpenPreview
  <2>3. CASE ClosePanel
    BY <2>3 DEF ClosePanel, NoPanel
  <2>4. CASE \E p \in previews : PreviewArrives(p)
    BY <2>4 DEF PreviewArrives, IsAwaited, Posted
  <2>5. CASE PreviewReady
    BY <2>5 DEF PreviewReady, Posted
  <2>6. QED
    BY <1>2, <2>1, <2>2, <2>3, <2>4, <2>5, Zenon DEF DashboardNext
<1>3. CASE UNCHANGED dashboardVars
  BY <1>1, <1>3 DEF dashboardVars
<1>4. changes \in Nat => DashboardNext \/ UNCHANGED dashboardVars
  BY Cases
<1>5. QED
  BY <1>2, <1>3, <1>4

-----------------------------------------------------------------------------
(* The export *)

ExportFields == {"stage", "wanted", "source", "sessions", "listed", "full", "archive",
                 "pending", "code", "attention", "held"}

ExportType ==
  /\ rollouts \in [Sessions -> Places \cup {"absent"}]
  /\ moved \in [Sessions -> Nat]
  /\ DOMAIN export = ExportFields
  /\ export.full \in BOOLEAN
  /\ export.sessions \subseteq Sessions
  /\ export.listed \subseteq Sessions \X Places
  /\ export.archive \in [Sessions -> ArchiveStates]
  /\ DOMAIN export.held = Sessions

\* The reasons for which a file may have been missed.
Excused(s, moves) == "absent" \in export.held[s] \/ export.full \/ moved[s] >= moves

\* What the export knows of a session's file is something the file was; a file
\* that neither listing has is accounted for.
Accounted(s) ==
  /\ rollouts[s] \in export.held[s]
  /\ Newest(s) \subseteq export.held[s]
  /\ export.archive[s] # "unknown" => export.archive[s] \in export.held[s]
  /\ export.stage = "archived" /\ Newest(s) = {} =>
       Excused(s, 1) \/ rollouts[s] = "archived"
  /\ export.stage = "resolve" /\ Newest(s) = {} =>
       /\ Excused(s, 1)
       /\ Excused(s, 2) \/ rollouts[s] = "active"
  /\ export.stage \in {"resolve", "ended"} /\ export.wanted = Sessions =>
       \/ s \in export.pending \/ s \notin export.sessions
       \/ export.archive[s] # "unknown"
       \/ Excused(s, IF s \in Recorded THEN 2 ELSE 1)

ExportInv ==
  /\ ExportType
  /\ export.stage = "idle" => export.listed = {} /\ export.archive = NoResult
  /\ export.stage \in {"active", "archived"} /\ export.wanted = Sessions =>
       export.pending = export.sessions
  /\ export.stage = "ended" => export.pending = {}
  /\ \A s \in Sessions : Accounted(s)

LEMMA ExportStart == Init => ExportInv
<1> SUFFICES ASSUME Init PROVE ExportInv
  OBVIOUS
<1>1. ExportInit
  BY DEF Init
<1>2. ExportType
  BY <1>1 DEF ExportInit, ExportType, ExportFields, NoResult, ArchiveStates
<1>3. \A s \in Sessions : Accounted(s)
  BY <1>1 DEF ExportInit, Accounted, Newest, NoResult
<1>4. QED
  BY <1>1, <1>2, <1>3 DEF ExportInit, ExportInv

\* What one listing adds to the export.
ListingOf(place, next) ==
  /\ export.stage = place /\ export'.stage = next
  /\ ExportType'
  /\ \/ export'.full
     \/ /\ ~export.full
        /\ \A s \in Sessions : rollouts[s] = place => <<s, place>> \in export'.listed
  /\ export.listed \subseteq export'.listed
  /\ \A x \in export'.listed \ export.listed :
       \E s \in Sessions : rollouts[s] = place /\ x = <<s, place>>
  /\ export'.wanted = export.wanted /\ export'.sessions = export.sessions
  /\ export'.pending = export.pending /\ export'.held = export.held
  /\ export'.archive = export.archive
  /\ UNCHANGED <<rollouts, moved>>

LEMMA Listed ==
  ASSUME ExportType, NEW place \in Places, NEW next, List(place, next)
  PROVE  ListingOf(place, next)
<1> DEFINE room == FileLimit - Cardinality(export.listed)
<1> DEFINE full == export.full \/ Cardinality(In(place)) > room
<1>1. PICK found \in SUBSET In(place) :
        /\ IF export.full THEN found = {}
           ELSE IF full THEN Cardinality(found) = room ELSE found = In(place)
        /\ export' = [export EXCEPT !.stage = next, !.full = full,
                        !.listed = @ \cup {<<s, place>> : s \in found}]
  BY DEF List
<1>2. full \in BOOLEAN
  BY DEF ExportType
<1>3. ~full => ~export.full /\ found = In(place)
  BY <1>1
<1> HIDE DEF full, room
<1>4. /\ export'.stage = next /\ export'.full = full
      /\ export'.listed = export.listed \cup {<<s, place>> : s \in found}
      /\ export'.wanted = export.wanted /\ export'.sessions = export.sessions
      /\ export'.pending = export.pending /\ export'.held = export.held
      /\ export'.archive = export.archive
      /\ DOMAIN export' = ExportFields
  BY <1>1 DEF ExportType, ExportFields
<1>5. export.stage = place /\ UNCHANGED <<rollouts, moved>>
  BY DEF List
<1>6. export'.listed \subseteq Sessions \X Places
  BY <1>4 DEF ExportType, In
<1>7. ExportType'
  BY <1>2, <1>4, <1>5, <1>6 DEF ExportType
<1>8. \/ full
      \/ /\ ~export.full
         /\ \A s \in Sessions : rollouts[s] = place => <<s, place>> \in export'.listed
  BY <1>2, <1>3, <1>4 DEF In
<1>9. \A x \in export'.listed \ export.listed :
        \E s \in Sessions : rollouts[s] = place /\ x = <<s, place>>
  BY <1>4 DEF In
<1>10. QED
  BY <1>4, <1>5, <1>7, <1>8, <1>9 DEF ListingOf

\* And to what is known of one session.
LEMMA NewestListed ==
  ASSUME NEW place \in Places, NEW next, ListingOf(place, next), NEW s \in Sessions
  PROVE  /\ Newest(s) \subseteq Newest(s)'
         /\ Newest(s)' \subseteq Newest(s) \cup {rollouts[s]}
         /\ rollouts[s] = place => place \in Newest(s)' \/ export'.full
         /\ export.full => export'.full
  BY DEF ListingOf, Newest

LEMMA ExportStep ==
  ASSUME ExportInv, ExportNext
  PROVE  ExportInv'
<1> USE DEF ExportInv
<1>0. DOMAIN export = ExportFields
  BY DEF ExportType
<1>1. CASE \E wanted : Begin(wanted)
  <2>1. PICK wanted : Begin(wanted)
    BY <1>1
  <2>2. PICK source \in Sources(index) :
          /\ export'.stage = (IF export'.pending = {} THEN "ended" ELSE "active")
          /\ export'.wanted = wanted /\ export'.sessions = source.sessions
          /\ export'.pending = Targets(wanted, source)
          /\ export'.held = [s \in Sessions |-> {rollouts[s]}]
          /\ export'.listed = export.listed /\ export'.archive = export.archive
          /\ export'.full = export.full
          /\ DOMAIN export' = ExportFields
    BY <1>0, <2>1 DEF Begin, ExportFields
  <2>3. /\ export.listed = {} /\ export.archive = NoResult /\ UNCHANGED rollouts
        /\ moved' = [s \in Sessions |-> 0]
    BY <2>1 DEF Begin
  <2>4. source.sessions \subseteq Sessions
    BY DEF Sources, Known
  <2>5. ExportType'
    BY <2>2, <2>3, <2>4 DEF ExportType
  <2>6. wanted = Sessions => export'.pending = export'.sessions
    BY <2>2 DEF Targets
  <2>7. \A s \in Sessions : Accounted(s)'
    BY <2>2, <2>3, <2>6 DEF Accounted, Newest, NoResult
  <2>8. QED
    BY <2>2, <2>5, <2>6, <2>7
<1>2. CASE List("active", "archived")
  <2>1. ListingOf("active", "archived")
    BY <1>2, Listed DEF Places
  <2>2. ASSUME NEW s \in Sessions PROVE Accounted(s)'
    <3>1. Newest(s)' \subseteq export'.held[s]
      BY <2>1, NewestListed DEF Accounted, ListingOf, Places
    <3>2. Newest(s)' = {} => Excused(s, 1)' \/ rollouts'[s] = "archived"
      <4>1. Newest(s)' = {} /\ ~export'.full => rollouts[s] # "active"
        BY <2>1, NewestListed DEF Places
      <4>2. rollouts[s] \in {"active", "archived", "absent"} /\ rollouts[s] \in export.held[s]
        BY DEF ExportType, Accounted, Places
      <4>3. QED
        BY <2>1, <4>1, <4>2 DEF ListingOf, Excused
    <3>3. QED
      BY <2>1, <3>1, <3>2 DEF Accounted, ListingOf
  <2>3. QED
    BY <2>1, <2>2 DEF ListingOf
<1>3. CASE List("archived", "resolve")
  <2>1. ListingOf("archived", "resolve")
    BY <1>3, Listed DEF Places
  <2>2. ASSUME NEW s \in Sessions PROVE Accounted(s)'
    <3>1. Newest(s)' \subseteq export'.held[s]
      BY <2>1, NewestListed DEF Accounted, ListingOf, Places
    <3>2. Newest(s)' = {} =>
            /\ Excused(s, 1)'
            /\ Excused(s, 2)' \/ rollouts'[s] = "active"
      <4>1. Newest(s)' = {} => Newest(s) = {} /\ (~export'.full => rollouts[s] # "archived")
        BY <2>1, NewestListed DEF Places
      <4>2. rollouts[s] \in {"active", "archived", "absent"} /\ rollouts[s] \in export.held[s]
        BY DEF ExportType, Accounted, Places
      <4>3. Newest(s) = {} => Excused(s, 1) \/ rollouts[s] = "archived"
        BY <2>1 DEF Accounted, ListingOf
      <4>4. QED
        BY <2>1, <4>1, <4>2, <4>3 DEF ListingOf, Excused, ExportType
    <3>3. export'.wanted = Sessions => s \in export'.pending \/ s \notin export'.sessions
      BY <2>1 DEF ListingOf
    <3>4. QED
      BY <2>1, <3>1, <3>2, <3>3 DEF Accounted, ListingOf
  <2>3. QED
    BY <2>1, <2>2 DEF ListingOf
<1>4. CASE Build
  <2>1. /\ export'.stage = "ended" /\ export.stage = "resolve" /\ export.pending = {}
        /\ export'.wanted = export.wanted /\ export'.sessions = export.sessions
        /\ export'.pending = export.pending /\ export'.held = export.held
        /\ export'.listed = export.listed /\ export'.archive = export.archive
        /\ export'.full = export.full
        /\ DOMAIN export' = ExportFields
        /\ UNCHANGED <<rollouts, moved>>
    BY <1>0, <1>4 DEF Build, ExportFields
  <2>2. ExportType'
    BY <2>1 DEF ExportType
  <2>3. \A s \in Sessions : Accounted(s)'
    BY <2>1 DEF Accounted, Newest, Excused
  <2>4. QED
    BY <2>1, <2>2, <2>3
<1>5. CASE Again
  <2>1. /\ export'.stage = "idle"
        /\ export'.sessions = {} /\ export'.pending = export.pending
        /\ export'.held = export.held /\ export'.listed = {} /\ export'.archive = NoResult
        /\ export'.full \in BOOLEAN
        /\ DOMAIN export' = ExportFields
        /\ UNCHANGED <<rollouts, moved>>
    BY <1>0, <1>5 DEF Again, ExportFields
  <2>2. ExportType'
    BY <2>1 DEF ExportType, NoResult, ArchiveStates
  <2>3. \A s \in Sessions : Accounted(s)'
    BY <2>1 DEF Accounted, Newest, NoResult
  <2>4. QED
    BY <2>1, <2>2, <2>3
<1>6. CASE \E s \in Sessions : Resolve(s)
  <2>1. PICK s \in Sessions : Resolve(s)
    BY <1>6
  <2>2. PICK place \in IF Candidates(s) = {} THEN {"unknown"} ELSE Candidates(s) :
          /\ export'.stage = "resolve" /\ export.stage = "resolve" /\ s \in export.pending
          /\ export'.wanted = export.wanted /\ export'.sessions = export.sessions
          /\ export'.pending = export.pending \ {s} /\ export'.held = export.held
          /\ export'.listed = export.listed
          /\ export'.archive = [export.archive EXCEPT ![s] = place]
          /\ export'.full = export.full
          /\ DOMAIN export' = ExportFields
          /\ UNCHANGED <<rollouts, moved>>
    BY <1>0, <2>1 DEF Resolve, ExportFields
  <2>3. place \in ArchiveStates
    BY <2>2 DEF Candidates, Newest, ArchiveStates, Places
  <2>4. ExportType'
    BY <2>2, <2>3 DEF ExportType
  <2>5. place # "unknown" => place \in export.held[s]
    BY <2>2 DEF Candidates, Accounted
  <2>6. place = "unknown" => Excused(s, IF s \in Recorded THEN 2 ELSE 1)
    <3>1. place = "unknown" => Candidates(s) = {}
      BY <2>2 DEF Candidates, Newest, Places
    <3>2. Candidates(s) = {} => Newest(s) = {} /\ (s \in Recorded => rollouts[s] # "active")
      BY DEF Candidates
    <3>3. QED
      BY <2>2, <3>1, <3>2 DEF Accounted
  <2>7. \A t \in Sessions : Accounted(t)'
    BY <2>2, <2>4, <2>5, <2>6 DEF Accounted, Newest, Excused, ExportType
  <2>8. QED
    BY <2>2, <2>4, <2>7
<1>7. CASE \E s \in Sessions : OpenCandidate(s)
  <2>1. PICK s \in Sessions : OpenCandidate(s)
    BY <1>7
  <2>2. /\ export'.stage = "ended" /\ export.stage = "resolve" /\ export.pending = {}
        /\ export'.wanted = export.wanted /\ export'.sessions = export.sessions
        /\ export'.pending = export.pending /\ export'.held = export.held
        /\ export'.listed = export.listed /\ export'.archive = export.archive
        /\ export'.full = export.full
        /\ DOMAIN export' = ExportFields
        /\ UNCHANGED <<rollouts, moved>>
    BY <1>0, <2>1 DEF OpenCandidate, ExportFields
  <2>3. ExportType'
    BY <2>2 DEF ExportType
  <2>4. \A t \in Sessions : Accounted(t)'
    BY <2>2 DEF Accounted, Newest, Excused
  <2>5. QED
    BY <2>2, <2>3, <2>4
<1>8. CASE \E s \in Sessions : MoveRollout(s)
  <2>1. PICK s \in Sessions : MoveRollout(s)
    BY <1>8
  <2>2. PICK place \in Places \cup {"absent"} :
          /\ rollouts' = [rollouts EXCEPT ![s] = place]
          /\ moved' = [moved EXCEPT ![s] = moved[s] + 1]
          /\ export'.stage = export.stage
          /\ export'.wanted = export.wanted /\ export'.sessions = export.sessions
          /\ export'.pending = export.pending
          /\ export'.held = [export.held EXCEPT ![s] = @ \cup {place}]
          /\ export'.listed = export.listed /\ export'.archive = export.archive
          /\ export'.full = export.full
          /\ DOMAIN export' = ExportFields
    BY <1>0, <2>1 DEF MoveRollout, ExportFields
  <2>3. ExportType'
    BY <2>2 DEF ExportType
  <2>4. \A t \in Sessions : t # s => Accounted(t)'
    BY <2>2, <2>3 DEF Accounted, Newest, Excused, ExportType
  <2>5. Accounted(s)'
    BY <2>2, <2>3 DEF Accounted, Newest, Excused, ExportType
  <2>6. QED
    BY <2>2, <2>3, <2>4, <2>5
<1>9. QED
  BY <1>1, <1>2, <1>3, <1>4, <1>5, <1>6, <1>7, <1>8 DEF ExportNext

-----------------------------------------------------------------------------
(* The types of the dashboard and the bound of the export *)

DashboardType ==
  /\ \A r \in refreshes : /\ DOMAIN r = {"serial", "update", "source", "stage", "read"}
                          /\ r.serial \in 1 .. serial
                          /\ r.source \in Lists
                          /\ r.read \in Marks
  /\ serial \in Nat
  /\ marks \in Marks
  /\ DOMAIN shown = {"at", "list", "read"} /\ shown.list \in Indices \cup {None}
  /\ panel \in [number : 0 .. MaxRounds, open : BOOLEAN, key : SessionOrNone,
                ready : BOOLEAN, pending : SessionOrNone, seen : SessionOrNone]
  /\ panel.open => panel.number # 0
  /\ previews \subseteq [panel : 1 .. MaxRounds, session : Sessions]

LEMMA DashboardStart == Init => DashboardType
<1> SUFFICES ASSUME Init PROVE DashboardType
  OBVIOUS
<1>1. /\ refreshes = {} /\ serial = 0 /\ marks = {} /\ previews = {} /\ panel = NoPanel
      /\ shown = [at |-> 0, list |-> None, read |-> {}]
  BY DEF Init, DashboardInit
<1>2. 0 \in 0 .. MaxRounds
  BY DashboardAssumption
<1>3. QED
  BY <1>1, <1>2 DEF DashboardType, Marks, NoPanel, SessionOrNone

\* What pruning keeps is a set of marks, and so is a mark of a listed session.
LEMMA MarksOf ==
  ASSUME marks \in Marks
  PROVE  /\ \A list : Pruned(list) \in Marks
         /\ \A list \in Indices : \A s \in Known(list) :
              Key(list, s) \in Sessions \X (0 .. MaxChanges)
<1>1. \A list : Pruned(list) \in Marks
  BY DEF Pruned, Marks
<1>2. ASSUME NEW list \in Indices, NEW s \in Known(list)
      PROVE  Key(list, s) \in Sessions \X (0 .. MaxChanges)
  <2>1. s \in Sessions /\ list[s] \in Entry
    BY DEF Indices, Known
  <2>2. QED
    BY <2>1 DEF Entry, Key
<1>3. QED
  BY <1>1, <1>2

LEMMA DashboardStep ==
  ASSUME ListingInv, DashboardType, DashboardNext
  PROVE  DashboardType'
<1>0. Snapshot \in Lists /\ \A list : Pruned(list) \in Marks
  BY MarksOf DEF ListingInv, Snapshot, Lists, DashboardType
<1>1. CASE \E update \in BOOLEAN : StartRefresh(update)
  <2>1. PICK update \in BOOLEAN : StartRefresh(update)
    BY <1>1
  <2>2. /\ serial' = serial + 1
        /\ UNCHANGED <<shown, panel, previews>>
        /\ \/ /\ refreshes' = refreshes \cup {Refresh(update, "catalog", Pruned(index))}
              /\ marks' = Pruned(index)
           \/ /\ refreshes' = refreshes \cup {Refresh(update, "export", {})}
              /\ UNCHANGED marks
    BY <2>1 DEF StartRefresh
  <2>3. PICK r : /\ refreshes' = refreshes \cup {r} /\ r.serial = serial + 1
                 /\ r.source \in Lists /\ r.read \in Marks
                 /\ DOMAIN r = {"serial", "update", "source", "stage", "read"}
    <3>1. {} \in Marks
      BY DEF Marks
    <3>2. PICK stage \in {"export", "catalog"}, read \in Marks :
            refreshes' = refreshes \cup {Refresh(update, stage, read)}
      <4>1. CASE refreshes' = refreshes \cup {Refresh(update, "export", {})}
        BY <3>1, <4>1, Zenon
      <4>2. CASE refreshes' = refreshes \cup {Refresh(update, "catalog", Pruned(index))}
        BY <1>0, <4>2, Zenon
      <4>3. QED
        BY <2>2, <4>1, <4>2
    <3> DEFINE r == Refresh(update, stage, read)
    <3>3. /\ r.serial = serial + 1 /\ r.source \in Lists /\ r.read \in Marks
          /\ DOMAIN r = {"serial", "update", "source", "stage", "read"}
      BY <1>0, <3>2 DEF Refresh
    <3> HIDE DEF r
    <3>4. QED
      BY <3>2, <3>3 DEF r
  <2>4. marks' \in Marks
    BY <1>0, <2>2 DEF DashboardType
  <2>5. QED
    BY <2>2, <2>3, <2>4 DEF DashboardType
<1>2. CASE \E r \in refreshes : ExportRead(r) \/ ExportUnused(r) \/ Decorate(r)
  <2>1. PICK r \in refreshes : ExportRead(r) \/ ExportUnused(r) \/ Decorate(r)
    BY <1>2
  <2>2. /\ UNCHANGED <<serial, shown, panel, previews>>
        /\ marks' \in Marks
    BY <1>0, <2>1 DEF ExportRead, ExportUnused, Decorate, DashboardType
  <2>3. PICK q : /\ refreshes' = (refreshes \ {r}) \cup {q} /\ q.serial = r.serial
                 /\ q.source \in Lists /\ q.read \in Marks
                 /\ DOMAIN q = {"serial", "update", "source", "stage", "read"}
    <3>1. /\ DOMAIN r = {"serial", "update", "source", "stage", "read"}
          /\ r.source \in Lists /\ r.read \in Marks
      BY DEF DashboardType
    <3>2. ASSUME NEW q, Replace(r, q), q.serial = r.serial, q.source \in Lists, q.read \in Marks,
                 DOMAIN q = DOMAIN r
          PROVE  \E p : /\ refreshes' = (refreshes \ {r}) \cup {p} /\ p.serial = r.serial
                        /\ p.source \in Lists /\ p.read \in Marks
                        /\ DOMAIN p = {"serial", "update", "source", "stage", "read"}
      BY <3>1, <3>2 DEF Replace
    <3>3. CASE ExportRead(r)
      <4> DEFINE q == [r EXCEPT !.stage = "loaded", !.source = Snapshot]
      <4>1. /\ q.serial = r.serial /\ q.source \in Lists /\ q.read \in Marks
            /\ DOMAIN q = DOMAIN r
        BY <1>0, <3>1
      <4>2. Replace(r, q)
        BY <3>3 DEF ExportRead
      <4> HIDE DEF q
      <4>3. QED
        BY <3>2, <4>1, <4>2
    <3>4. CASE ExportUnused(r)
      <4> DEFINE q == [r EXCEPT !.stage = "loaded"]
      <4>1. /\ q.serial = r.serial /\ q.source \in Lists /\ q.read \in Marks
            /\ DOMAIN q = DOMAIN r
        BY <3>1
      <4>2. Replace(r, q)
        BY <3>4 DEF ExportUnused
      <4> HIDE DEF q
      <4>3. QED
        BY <3>2, <4>1, <4>2
    <3>5. CASE Decorate(r)
      <4> DEFINE q == [r EXCEPT !.stage = "catalog", !.read = Pruned(r.source.list)]
      <4>1. /\ q.serial = r.serial /\ q.source \in Lists /\ q.read \in Marks
            /\ DOMAIN q = DOMAIN r
        BY <1>0, <3>1
      <4>2. Replace(r, q)
        BY <3>5 DEF Decorate
      <4> HIDE DEF q
      <4>3. QED
        BY <3>2, <4>1, <4>2
    <3>6. QED
      BY <2>1, <3>3, <3>4, <3>5
  <2>4. QED
    BY <2>2, <2>3 DEF DashboardType
<1>3. CASE \E r \in refreshes : Finish(r)
  <2>1. PICK r \in refreshes : Finish(r)
    BY <1>3
  <2>2. /\ refreshes' = refreshes \ {r} /\ UNCHANGED <<serial, marks, panel>>
        /\ shown' = shown \/ shown' = [at |-> r.source.at, list |-> r.source.list, read |-> r.read]
        /\ \/ UNCHANGED previews
           \/ /\ panel.open /\ panel.key \in Known(r.source.list)
              /\ previews' = Request(panel, panel.key)
    BY <2>1 DEF Finish, UpdatePreview
  <2>3. r.source.list \in Indices
    BY DEF DashboardType, Lists
  <2>4. DOMAIN shown' = {"at", "list", "read"} /\ shown'.list \in Indices \cup {None}
    BY <2>2, <2>3 DEF DashboardType
  <2>5. previews' \subseteq [panel : 1 .. MaxRounds, session : Sessions]
    <3>1. panel.open => panel.number \in 1 .. MaxRounds
      BY DashboardAssumption DEF DashboardType
    <3>2. QED
      BY <2>2, <3>1 DEF Known, Request, DashboardType
  <2>6. QED
    BY <2>2, <2>4, <2>5 DEF DashboardType
<1>4. CASE \E r \in refreshes : Fail(r)
  <2>1. PICK r \in refreshes : Fail(r)
    BY <1>4
  <2>2. /\ refreshes' = refreshes \ {r} /\ UNCHANGED <<serial, marks, panel, previews>>
        /\ shown' = shown \/ shown' = [shown EXCEPT !.list = None, !.read = {}]
    BY <2>1 DEF Fail
  <2>3. DOMAIN shown' = {"at", "list", "read"} /\ shown'.list \in Indices \cup {None}
    BY <2>2 DEF DashboardType
  <2>4. QED
    BY <2>2, <2>3 DEF DashboardType
<1>5. CASE \E s \in Sessions : MarkRead(s) \/ MarkUnread(s)
  <2>1. PICK s \in Sessions : MarkRead(s) \/ MarkUnread(s)
    BY <1>5
  <2>2. UNCHANGED <<serial, refreshes, shown, panel, previews>> /\ s \in Selectable
    BY <2>1 DEF MarkRead, MarkUnread
  <2>3. Key(shown.list, s) \in Sessions \X (0 .. MaxChanges)
    BY <2>2, MarksOf DEF Selectable, DashboardType
  <2>4. marks' \in Marks
    BY <2>1, <2>3 DEF MarkRead, MarkUnread, DashboardType, Marks
  <2>5. QED
    BY <2>2, <2>4 DEF DashboardType
<1>6. CASE \E s \in Sessions : OpenPreview(s)
  <2>1. PICK s \in Sessions : OpenPreview(s)
    BY <1>6
  <2>2. PICK opened :
          /\ opened = IF panel.open THEN panel
                      ELSE [panel EXCEPT !.number = @ + 1, !.open = TRUE]
          /\ panel.open \/ serial + panel.number < MaxRounds
          /\ panel' = [opened EXCEPT !.key = s]
          /\ previews' = Request(opened, s)
          /\ UNCHANGED <<serial, refreshes, shown, marks>>
    BY <2>1 DEF OpenPreview
  <2>3. /\ opened \in [number : 0 .. MaxRounds, open : BOOLEAN, key : SessionOrNone,
                        ready : BOOLEAN, pending : SessionOrNone, seen : SessionOrNone]
        /\ opened.number \in 1 .. MaxRounds
    <3>1. CASE panel.open
      BY <2>2, <3>1, DashboardAssumption DEF DashboardType
    <3>2. CASE ~panel.open
      <4>1. panel.number + 1 \in 1 .. MaxRounds
        BY <2>2, <3>2, DashboardAssumption DEF DashboardType
      <4>2. opened = [panel EXCEPT !.number = panel.number + 1, !.open = TRUE]
        BY <2>2, <3>2
      <4>3. 1 .. MaxRounds \subseteq 0 .. MaxRounds
        BY DashboardAssumption
      <4>4. QED
        BY <4>1, <4>2, <4>3 DEF DashboardType
    <3>3. QED
      BY <3>1, <3>2
  <2>4. /\ panel' \in [number : 0 .. MaxRounds, open : BOOLEAN, key : SessionOrNone,
                        ready : BOOLEAN, pending : SessionOrNone, seen : SessionOrNone]
        /\ panel'.number # 0
    BY <2>2, <2>3 DEF SessionOrNone
  <2>5. previews' \subseteq [panel : 1 .. MaxRounds, session : Sessions]
    BY <2>2, <2>3 DEF Request, DashboardType
  <2>6. QED
    BY <2>2, <2>4, <2>5 DEF DashboardType
<1>7. CASE ClosePanel \/ PreviewReady \/ \E p \in previews : PreviewArrives(p)
  <2>1. UNCHANGED <<serial, refreshes, shown, marks>> /\ previews' \subseteq previews
    BY <1>7 DEF ClosePanel, PreviewReady, PreviewArrives
  <2>2. /\ panel' \in [number : 0 .. MaxRounds, open : BOOLEAN, key : SessionOrNone,
                        ready : BOOLEAN, pending : SessionOrNone, seen : SessionOrNone]
        /\ panel'.open => panel'.number # 0
    <3>1. CASE ClosePanel
      BY <3>1 DEF ClosePanel, NoPanel, DashboardType, SessionOrNone
    <3>2. CASE PreviewReady
      BY <3>2 DEF PreviewReady, Posted, DashboardType
    <3>3. CASE \E p \in previews : PreviewArrives(p)
      <4>1. PICK p \in previews : PreviewArrives(p)
        BY <3>3
      <4>2. p.session \in SessionOrNone
        BY DEF DashboardType, SessionOrNone
      <4>3. QED
        BY <4>1, <4>2 DEF PreviewArrives, Posted, DashboardType
    <3>4. QED
      BY <1>7, <3>1, <3>2, <3>3
  <2>3. QED
    BY <2>1, <2>2 DEF DashboardType
<1>8. QED
  BY <1>1, <1>2, <1>3, <1>4, <1>5, <1>6, <1>7 DEF DashboardNext

ExportBound ==
  /\ export.pending \subseteq export.sessions
  /\ export.attention \subseteq export.sessions
  /\ IsFiniteSet(export.listed) /\ Cardinality(export.listed) <= FileLimit

LEMMA BoundStart == Init => ExportBound
<1> SUFFICES ASSUME Init PROVE ExportBound
  OBVIOUS
<1>1. export.pending = {} /\ export.attention = {} /\ export.listed = {}
  BY DEF Init, ExportInit
<1>2. IsFiniteSet(export.listed) /\ Cardinality(export.listed) = 0
  BY <1>1, FS_EmptySet
<1>3. QED
  BY <1>1, <1>2, ExportAssumption DEF ExportBound

\* A listing goes no further than the limit allows.
LEMMA ListedWithin ==
  ASSUME ExportType, ExportBound, NEW place, NEW next, List(place, next)
  PROVE  /\ IsFiniteSet(export'.listed) /\ Cardinality(export'.listed) <= FileLimit
<1> DEFINE room == FileLimit - Cardinality(export.listed)
           full == export.full \/ Cardinality(In(place)) > room
<1>1. PICK found \in SUBSET In(place) :
        /\ IF export.full THEN found = {}
           ELSE IF full THEN Cardinality(found) = room ELSE found = In(place)
        /\ export' = [export EXCEPT !.stage = next, !.full = full,
                        !.listed = @ \cup {<<s, place>> : s \in found}]
  BY DEF List
<1> DEFINE added == {<<s, place>> : s \in found}
<1>2. export'.listed = export.listed \cup added
  BY <1>1 DEF ExportType, ExportFields
<1>3. IsFiniteSet(In(place)) /\ Cardinality(In(place)) \in Nat
  <2>1. In(place) \in SUBSET Sessions
    BY DEF In
  <2>2. QED
    BY <2>1, ListingAssumption, FS_Subset, FS_CardinalityType
<1>4. IsFiniteSet(found) /\ Cardinality(found) \in Nat
  BY <1>3, FS_Subset, FS_CardinalityType
<1>5. Cardinality(export.listed) \in Nat /\ Cardinality(export.listed) <= FileLimit
  BY FS_CardinalityType DEF ExportBound
<1>6. Cardinality(found) <= room
  <2>1. CASE export.full
    <3>1. Cardinality(found) = 0
      BY <1>1, <2>1, FS_EmptySet
    <3>2. QED
      BY <1>5, <3>1, ExportAssumption
  <2>2. CASE ~export.full /\ Cardinality(In(place)) > room
    BY <1>1, <1>4, <2>2
  <2>3. CASE ~export.full /\ ~(Cardinality(In(place)) > room)
    BY <1>1, <1>3, <1>5, <2>3, ExportAssumption
  <2>4. QED
    BY <2>1, <2>2, <2>3
<1>7. IsFiniteSet(added) /\ Cardinality(added) <= Cardinality(found)
  <2> DEFINE pair == [s \in found |-> <<s, place>>]
  <2>1. pair \in Surjection(found, added)
    BY DEF Surjection
  <2> HIDE DEF pair, added
  <2>2. QED
    BY <1>4, <2>1, FS_Surjection
<1> HIDE DEF added, full
<1>8. IsFiniteSet(export.listed) /\ IsFiniteSet(added)
  BY <1>7 DEF ExportBound
<1>9. /\ IsFiniteSet(export.listed \cup added)
      /\ Cardinality(export.listed \cup added)
           = Cardinality(export.listed) + Cardinality(added)
               - Cardinality(export.listed \cap added)
  BY <1>8, FS_Union
<1>10. Cardinality(added) \in Nat /\ Cardinality(export.listed \cap added) \in Nat
  <2>1. IsFiniteSet(export.listed \cap added)
    BY <1>8, FS_Intersection
  <2>2. QED
    BY <1>8, <2>1, FS_CardinalityType
<1>11. QED
  BY <1>2, <1>4, <1>5, <1>6, <1>7, <1>9, <1>10, ExportAssumption

LEMMA BoundStep ==
  ASSUME ExportInv, ExportBound, ExportNext
  PROVE  ExportBound'
<1>0. DOMAIN export = ExportFields
  BY DEF ExportInv, ExportType
<1>1. CASE \E wanted : Begin(wanted)
  <2>1. PICK wanted : Begin(wanted)
    BY <1>1
  <2>2. PICK source \in Sources(index) :
          /\ export'.sessions = source.sessions
          /\ export'.pending = Targets(wanted, source)
          /\ export'.attention = {s \in source.sessions : index[s].status = "waiting_approval"}
          /\ export'.listed = export.listed
    BY <1>0, <2>1 DEF Begin, ExportFields
  <2>3. QED
    BY <2>2 DEF ExportBound, Targets
<1>2. ASSUME NEW place, NEW next, List(place, next) PROVE ExportBound'
  <2>1. /\ export'.sessions = export.sessions /\ export'.pending = export.pending
        /\ export'.attention = export.attention
    BY <1>0, <1>2 DEF List, ExportFields
  <2>2. IsFiniteSet(export'.listed) /\ Cardinality(export'.listed) <= FileLimit
    BY <1>2, ListedWithin DEF ExportInv
  <2>3. QED
    BY <2>1, <2>2 DEF ExportBound
<1>3. CASE Build
  <2>1. /\ export'.sessions = export.sessions /\ export'.pending = export.pending
        /\ export'.attention \subseteq export.attention /\ export'.listed = export.listed
    BY <1>0, <1>3 DEF Build, ExportFields
  <2>2. QED
    BY <2>1 DEF ExportBound
<1>4. CASE Again
  <2>1. /\ export'.sessions = {} /\ export'.pending = {}
        /\ export'.attention = {} /\ export'.listed = {}
    BY <1>0, <1>4 DEF Again, ExportFields, ExportInv
  <2>2. IsFiniteSet(export'.listed) /\ Cardinality(export'.listed) = 0
    BY <2>1, FS_EmptySet
  <2>3. QED
    BY <2>1, <2>2, ExportAssumption DEF ExportBound
<1>5. CASE \E s \in Sessions : Resolve(s) \/ OpenCandidate(s) \/ MoveRollout(s)
  <2>1. PICK s \in Sessions : Resolve(s) \/ OpenCandidate(s) \/ MoveRollout(s)
    BY <1>5
  <2>2. /\ export'.sessions = export.sessions /\ export'.pending \subseteq export.pending
        /\ export'.attention = export.attention /\ export'.listed = export.listed
    BY <1>0, <2>1 DEF Resolve, OpenCandidate, MoveRollout, ExportFields
  <2>3. QED
    BY <2>2 DEF ExportBound
<1>6. QED
  BY <1>1, <1>2, <1>3, <1>4, <1>5 DEF ExportNext

-----------------------------------------------------------------------------
(* The results *)

IInv ==
  ListingInv /\ WatchInv /\ TuiInv /\ RefreshInv /\ PanelInv /\ DashboardType
  /\ ExportInv /\ ExportBound

\* A step is one of a reader, with the index and the other readers at rest, or
\* one of the index.
LEMMA OneMoves ==
  ASSUME viewer \in Readers, [Next]_vars
  PROVE  /\ UNCHANGED viewer
         /\ ListingNext(Scope[viewer], Changes[viewer]) \/ UNCHANGED listingVars
         /\ TuiNext \/ UNCHANGED tuiVars
         /\ WatchNext \/ UNCHANGED watchVars
         /\ DashboardNext \/ UNCHANGED dashboardVars
         /\ ExportNext \/ UNCHANGED exportVars
  BY DEF Next, vars

LEMMA ListingKept == ListingInv /\ viewer \in Readers /\ [Next]_vars => ListingInv'
<1> SUFFICES ASSUME ListingInv, viewer \in Readers, [Next]_vars PROVE ListingInv'
  OBVIOUS
<1>1. CASE UNCHANGED listingVars
  BY <1>1 DEF listingVars, ListingInv, Known
<1>2. QED
  BY <1>1, OneMoves, ListingGrows

LEMMA WatchKept == ListingInv /\ WatchInv /\ viewer \in Readers /\ [Next]_vars => WatchInv'
  BY OneMoves, WatchStep, WatchRests

LEMMA TuiKept == ListingInv /\ TuiInv /\ viewer \in Readers /\ [Next]_vars => TuiInv'
<1> SUFFICES ASSUME ListingInv, TuiInv, viewer \in Readers, [Next]_vars PROVE TuiInv'
  OBVIOUS
<1>1. CASE UNCHANGED tuiVars
  BY <1>1 DEF tuiVars, TuiInv, ResumedWasMarked
<1>2. QED
  BY <1>1, OneMoves, TuiStep DEF ListingInv

LEMMA DashboardKept ==
  ListingInv /\ DashboardType /\ viewer \in Readers /\ [Next]_vars => DashboardType'
<1> SUFFICES ASSUME ListingInv, DashboardType, viewer \in Readers, [Next]_vars
             PROVE  DashboardType'
  OBVIOUS
<1>1. CASE UNCHANGED dashboardVars
  BY <1>1 DEF dashboardVars, DashboardType
<1>2. QED
  BY <1>1, OneMoves, DashboardStep

LEMMA ExportKept ==
  /\ ExportInv /\ viewer \in Readers /\ [Next]_vars => ExportInv'
  /\ ExportInv /\ ExportBound /\ viewer \in Readers /\ [Next]_vars => ExportBound'
<1>1. ASSUME ExportInv, viewer \in Readers, [Next]_vars
      PROVE  ExportInv' /\ (ExportBound => ExportBound')
  <2>1. CASE UNCHANGED exportVars
    <3>1. ExportInv'
      BY <1>1, <2>1 DEF exportVars, ExportInv, ExportType, Accounted, Newest, Excused
    <3>2. ExportBound => ExportBound'
      BY <2>1 DEF exportVars, ExportBound
    <3>3. QED
      BY <3>1, <3>2
  <2>2. QED
    BY <1>1, <2>1, OneMoves, ExportStep, BoundStep
<1>2. QED
  BY <1>1

\* The inductive invariant holds in every reachable state.
THEOREM Invariant == Spec => [](viewer \in Readers /\ IInv)
<1>1. Init => viewer \in Readers /\ IInv
  BY ListingStart, WatchStart, TuiStart, RefreshInit, PanelInit, DashboardStart, ExportStart,
     BoundStart DEF IInv, Init
<1>2. viewer \in Readers /\ IInv /\ [Next]_vars => (viewer \in Readers /\ IInv)'
  BY OneMoves, ListingKept, WatchKept, TuiKept, RefreshStep, PanelStep, DashboardKept,
     ExportKept DEF IInv, RefreshInv
<1>3. QED
  BY <1>1, <1>2, PTL DEF Spec

\* The index and the variables of its readers have their types, and an export
\* looks at no more files than the limit allows.
THEOREM ViewersAreTyped == Spec => []TypeOK
<1>1. IInv => TypeOK
  <2> SUFFICES ASSUME IInv PROVE TypeOK
    OBVIOUS
  <2>1. index \in Indices /\ {latest, changes} \subseteq 0 .. MaxChanges
    BY ListingAssumption DEF IInv, ListingInv
  <2>2. /\ tui \in [phase : {"draw", "keys", "left"}, filter : Filters, selected : Nat,
                     list : Seq(Sessions), resumed : Sessions \cup {Nothing}]
        /\ screen.marked \in Nat
        /\ \A i \in DOMAIN screen.rows : screen.rows[i] \in Rows
    BY DEF IInv, TuiInv
  <2>3. /\ watch \in [phase : {"start", "poll", "ended"}, once : BOOLEAN, existing : BOOLEAN,
                      seen : [Sessions -> (0 .. MaxChanges) \cup {Nothing}]]
        /\ before \in [Sessions -> (0 .. MaxChanges) \cup {Nothing}]
        /\ prune \in [loaded : BOOLEAN, kept : Indices]
    BY DEF IInv, ListingInv, WatchInv, WatchType, Seens
  <2>4. /\ rollouts \in [Sessions -> Places \cup {"absent"}]
        /\ export.archive \in [Sessions -> ArchiveStates]
        /\ export.pending \cup export.attention \subseteq export.sessions
        /\ export.listed \subseteq Sessions \X Places
        /\ Cardinality(export.listed) <= FileLimit
    BY DEF IInv, ExportInv, ExportType, ExportBound
  <2>5. /\ \A r \in refreshes : /\ r.serial \in 1 .. serial
                                /\ r.source \in Lists
                                /\ r.read \in Marks
        /\ marks \in Marks
        /\ shown.list \in Indices \cup {None}
        /\ {panel.key, panel.pending, panel.seen} \subseteq SessionOrNone
        /\ previews \subseteq [panel : 1 .. MaxRounds, session : Sessions]
    BY DEF IInv, DashboardType
  <2>6. QED
    BY <2>1, <2>2, <2>3, <2>4, <2>5 DEF TypeOK, Rows
<1>2. QED
  BY <1>1, Invariant, PTL

\* Whatever happens to the index, to the filter and to the size of the window,
\* the return key resumes the session that is marked on the screen.
THEOREM MarkedIsResumed == Spec => []ResumedWasMarked
<1>1. IInv => ResumedWasMarked
  BY DEF IInv, TuiInv
<1>2. QED
  BY <1>1, Invariant, PTL

\* One stamp for each session is enough for a poll to say what has changed since
\* it was last said, and nothing else, also when stamps go back.
THEOREM ChangesAreAlertedOnce == Spec => AlertedOnce
<1> DEFINE said == SubSeq(alerts', Len(alerts) + 1, Len(alerts'))
           news == {s \in Matching : index[s].last # Said(s)}
<1>1. IInv /\ [Next]_vars =>
        [Poll => /\ {said[i] : i \in DOMAIN said} = {<<s, index[s].last>> : s \in news}
                 /\ Len(said) = Cardinality(news)]_vars
  BY WatchPoll DEF IInv
<1>2. QED
  BY <1>1, Invariant, PTL DEF Spec, AlertedOnce

\* However many refreshes overlap, and in whatever order they end, the dashboard
\* does not go back to an older list.
THEOREM DashboardGrowsNoOlder == Spec => DashboardNeverOlder
<1>1. IInv /\ [Next]_vars => [shown'.at >= shown.at]_vars
  BY RefreshStep DEF IInv
<1>2. QED
  BY <1>1, Invariant, PTL DEF Spec, DashboardNeverOlder

\* A panel that shows the session it was opened for goes on doing so.
THEOREM PreviewIsKept == Spec => PreviewStays
<1>1. IInv /\ [Next]_vars =>
        [panel.open /\ panel.key # None /\ panel.seen = panel.key
           /\ panel'.open /\ panel'.key = panel.key => panel'.seen = panel.key]_vars
  BY PanelStep DEF IInv, RefreshInv
<1>2. QED
  BY <1>1, Invariant, PTL DEF Spec, PreviewStays

\* However the files move between the two listings and the look at the recorded
\* path, an exported archive state was true at some time of the export, and
\* "unknown" has one of three reasons.
THEOREM ArchiveStateWasHeld == Spec => []ArchiveStateHeld
<1>1. IInv => ArchiveStateHeld
  <2> SUFFICES ASSUME IInv, export.stage = "ended", export.wanted = Sessions,
                      NEW s \in export.sessions
               PROVE  IF export.archive[s] # "unknown" THEN export.archive[s] \in export.held[s]
                      ELSE \/ "absent" \in export.held[s]
                           \/ export.full
                           \/ moved[s] >= (IF s \in Recorded THEN 2 ELSE 1)
    BY DEF ArchiveStateHeld
  <2>1. s \in Sessions /\ Accounted(s) /\ s \notin export.pending
    BY DEF IInv, ExportInv, ExportType
  <2>2. QED
    BY <2>1 DEF Accounted, Excused
<1>2. QED
  BY <1>1, Invariant, PTL
=============================================================================
