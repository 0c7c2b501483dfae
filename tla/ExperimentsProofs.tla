--------------------------- MODULE ExperimentsProofs ---------------------------
(***************************************************************************)
(* What the experiments guarantee for all directories of events, all label *)
(* files and any numbers of partitions and neighbors, as long as there are *)
(* more partitions than neighbors.                                         *)
(*                                                                         *)
(* ExperimentsInv follows an event on its way: it is on the stack once, or *)
(* it was popped and is in the manager (LoadedInv, LabeledInv, ArchiveInv);*)
(* the shuffled events are guessed one stretch after the other, each as    *)
(* what it is (ResultsInv); and while all events are alike the buffers of  *)
(* the calculator are those of any of them (CalculatorInv).                *)
(***************************************************************************)
EXTENDS Experiments, SequenceTheorems, FiniteSetTheorems, NaturalsInduction,
        WellFoundedInduction, TLAPS

-----------------------------------------------------------------------------
(* The invariant.                                                          *)

\* How the archive holds an event with a label, and one without
LabeledEntry(e) == [Feature(e) EXCEPT !.label = getEventLabel(e)]

LabeledEntries(S) == {LabeledEntry(e) : e \in S}

UnlabeledEntries(S) ==
  {[Feature(e) EXCEPT !.label = label] :
     e \in S, label \in {NoLabel, EventUnknown}}

(***************************************************************************)
(* Every event is pushed once.                                             *)
(***************************************************************************)
LoadedInv ==
  /\ directory \in Directories
  /\ uuid \in Nat /\ 0..uuid - 1 \subseteq DOMAIN directory
  /\ pc \in {"stopping", "archived"} => ~HasFile(uuid)
  /\ events \in Seq(Nat)
  /\ \A i \in 1..Len(events) : events[i] < uuid
  /\ \A i, j \in 1..Len(events) : events[i] = events[j] => i = j

\* The labeled events differ, and have equally many features
Consistent(labeled, dir) ==
  \A i, j \in 1..Len(labeled) :
    /\ labeled[i].event = labeled[j].event => i = j
    /\ NumberOfFeatures(dir[labeled[i].event])
         = NumberOfFeatures(dir[labeled[j].event])

\* An event is on the stack or labeled, not both
LabeledInv ==
  /\ manager = [labeled |-> manager.labeled, unlabeled |-> manager.unlabeled]
  /\ manager.labeled \in Seq(LabeledEntries(DOMAIN directory))
  /\ manager.unlabeled \in Seq(UnlabeledEntries(DOMAIN directory))
  /\ \A i \in 1..Len(manager.labeled) : manager.labeled[i].event < uuid
  /\ Consistent(manager.labeled, directory)
  /\ \A i \in 1..Len(manager.labeled), j \in 1..Len(events) :
       manager.labeled[i].event # events[j]

IsArchived(m, event) ==
  IF getEventLabel(event) = NoLabel
    THEN \E f \in Range(m.unlabeled) : f.event = event
    ELSE \E f \in Range(m.labeled) :
           f.event = event /\ f.label = getEventLabel(event)

Archiving == pc \in {"loading", "stopping", "archived"}

\* Nothing that was loaded is lost
ArchiveInv ==
  /\ Archiving =>
       \A e \in 0..uuid - 1 : e \in Range(events) \/ IsArchived(manager, e)
  /\ pc = "archived" => events = <<>>

(***************************************************************************)
(* The first n of the shuffled events, each of them classified as what it  *)
(* is, are the results.                                                    *)
(***************************************************************************)
Guesses(labeled, n) == [i \in 1..n |-> Guess(labeled[i], labeled[i])]

GuessesOf(S) == {Guess(f, f) : f \in S}

ResultsInv ==
  /\ results \in Seq(Seq(GuessesOf(LabeledEntries(DOMAIN directory))))
  /\ Archiving => results = <<>> /\ partition = 0
  /\ pc = "validating" => Len(results) = partition /\ partition < Partitions
  /\ pc = "validated" => Len(results) = Partitions
  /\ Len(results) <= Partitions
  /\ FlattenSeq(results) =
       Guesses(manager.labeled,
               elements_per_partition(manager.labeled) * Len(results))

\* All events alike, and a fresh extractor gets the features of every one
AllExtract ==
  /\ \A d, e \in DOMAIN directory : directory[d] = directory[e]
  /\ \A e \in DOMAIN directory :
       Extraction(FreshCalculator, directory[e]) = "extracted"

\* The sizes of the buffers are those of such an event
CalculatorInv ==
  AllExtract =>
    /\ pc \notin {"undefined", "aborted"}
    /\ \/ calculator = FreshCalculator
       \/ \E e \in DOMAIN directory :
            calculator = AfterFFT(FreshCalculator, NumDataPoints(directory[e]))

ExperimentsInv ==
  LoadedInv /\ LabeledInv /\ ArchiveInv /\ ResultsInv /\ CalculatorInv

-----------------------------------------------------------------------------
(* FlattenSeq.                                                             *)

\* A set of numbers has a least element
LEMMA LeastExists ==
  ASSUME NEW T, T \subseteq Nat, T # {}
  PROVE  \E x \in T : \A y \in T : x <= y
<1> DEFINE R == OpToRel(<, Nat)
<1>1. IsWellFoundedOn(R, Nat)
  BY NatLessThanWellFounded, Zenon
<1>2. \A x, y \in Nat : y < x => <<y, x>> \in R
  BY DEF OpToRel
<1> HIDE DEF R
<1>3. PICK x \in T : \A y \in T : <<y, x>> \notin R
  BY <1>1, WFMin
<1>4. ASSUME NEW y \in T
      PROVE  x <= y
  <2>1. x \in Nat /\ y \in Nat /\ ~(y < x)
    BY <1>2, <1>3
  <2> QED
    BY <2>1
<1> QED
  BY <1>4

\* What the recursive function in FlattenSeq is for the first n sequences
Flattens(f, seqs, n) ==
  f = [i \in 1..n |-> IF i = 1 THEN seqs[i] ELSE f[i - 1] \o seqs[i]]

\* Its value at every position
LEMMA FlattensAt ==
  ASSUME NEW f, NEW seqs, NEW n \in Nat, Flattens(f, seqs, n), NEW i \in 1..n
  PROVE  f[i] = IF i = 1 THEN seqs[i] ELSE f[i - 1] \o seqs[i]
<1> DEFINE g == [j \in 1..n |-> IF j = 1 THEN seqs[j] ELSE f[j - 1] \o seqs[j]]
<1>1. f[i] = g[i]
  BY Zenon DEF Flattens
<1>2. g[i] = IF i = 1 THEN seqs[i] ELSE f[i - 1] \o seqs[i]
  BY Zenon
<1> QED
  BY <1>1, <1>2, Zenon

\* There is such a function
LEMMA FlattensExists ==
  ASSUME NEW seqs, NEW n \in Nat
  PROVE  \E f : Flattens(f, seqs, n)
<1> DEFINE T == {k \in Nat : ~ \E f : Flattens(f, seqs, k)}
<1>1. SUFFICES ASSUME T # {}
               PROVE  FALSE
  OBVIOUS
<1>2. PICK m \in T : \A k \in T : m <= k
  BY <1>1, LeastExists
<1>3. m \in Nat /\ ~ \E f : Flattens(f, seqs, m)
  OBVIOUS
<1>4. m # 0
  <2>1. Flattens(<<>>, seqs, 0)
    BY DEF Flattens
  <2> QED
    BY <1>3, <2>1
<1>5. m - 1 \in Nat /\ m - 1 \notin T
  BY <1>2, <1>3, <1>4
<1>6. PICK f : Flattens(f, seqs, m - 1)
  BY <1>5
<1> DEFINE atF(i) == IF i = 1 THEN seqs[i] ELSE f[i - 1] \o seqs[i]
<1>7. PICK g : g = [i \in 1..m |-> atF(i)]
  OBVIOUS
<1> DEFINE atG(i) == IF i = 1 THEN seqs[i] ELSE g[i - 1] \o seqs[i]
<1>8. \A i \in 1..m : atF(i) = atG(i)
  <2>1. TAKE i \in 1..m
  <2>2. ASSUME i # 1
        PROVE  g[i - 1] = f[i - 1]
    <3>1. i - 1 \in 1..m - 1 /\ i - 1 \in 1..m
      BY <1>3, <2>2
    <3>2. f[i - 1] = atF(i - 1)
      BY <1>5, <1>6, <3>1, FlattensAt
    <3> HIDE DEF atF
    <3>3. g[i - 1] = atF(i - 1)
      BY <1>7, <3>1, Zenon
    <3> QED
      BY <3>2, <3>3, Zenon
  <2> QED
    BY <2>2, Zenon
<1>9. g = [i \in 1..m |-> atG(i)]
  <2> HIDE DEF atF, atG
  <2> QED
    BY <1>7, <1>8, Zenon
<1>10. Flattens(g, seqs, m)
  BY <1>9, Zenon DEF Flattens
<1> QED
  BY <1>3, <1>10, Zenon

Agree(s, t, n) == \A i \in 1..n : s[i] = t[i]

\* It depends on the sequences up to the position only
LEMMA FlattensAgree ==
  ASSUME NEW s, NEW t, NEW f, NEW g, NEW m \in Nat, NEW n,
         n = m + 1, Agree(s, t, m),
         Flattens(f, s, m), Flattens(g, t, n)
  PROVE  Agree(f, g, m)
<1> DEFINE T == {k \in 1..m : f[k] # g[k]}
<1>1. SUFFICES ASSUME T # {}
               PROVE  FALSE
  BY DEF Agree
<1>2. T \subseteq Nat
  OBVIOUS
<1>3. PICK k \in T : \A i \in T : k <= i
  BY <1>1, <1>2, LeastExists
<1>4. k \in 1..m /\ k \in 1..n /\ n \in Nat /\ f[k] # g[k]
  OBVIOUS
<1>5. /\ f[k] = IF k = 1 THEN s[k] ELSE f[k - 1] \o s[k]
      /\ g[k] = IF k = 1 THEN t[k] ELSE g[k - 1] \o t[k]
  BY <1>4, FlattensAt
<1>6. k # 1 /\ f[k - 1] # g[k - 1]
  BY <1>4, <1>5 DEF Agree
<1>7. k - 1 \in T
  BY <1>4, <1>6
<1> QED
  BY <1>3, <1>4, <1>7

\* FlattenSeq is its last value
LEMMA FlattenIs ==
  ASSUME NEW S, NEW seqs \in Seq(S), seqs # <<>>
  PROVE  \E f : /\ Flattens(f, seqs, Len(seqs))
                /\ FlattenSeq(seqs) = f[Len(seqs)]
<1> DEFINE f == CHOOSE f : Flattens(f, seqs, Len(seqs))
<1>1. Len(seqs) \in Nat /\ Len(seqs) # 0
  OBVIOUS
<1>2. Flattens(f, seqs, Len(seqs))
  BY <1>1, FlattensExists
<1>3. FlattenSeq(seqs) = f[Len(seqs)]
  BY <1>1, Zenon DEF FlattenSeq, Flattens
<1> QED
  BY <1>2, <1>3

\* Nothing to flatten
LEMMA FlattenNothing == FlattenSeq(<<>>) = <<>>
BY DEF FlattenSeq

\* One sequence more
LEMMA FlattenStep ==
  ASSUME NEW S, NEW s \in Seq(Seq(S)), NEW t \in Seq(Seq(S)),
         Len(t) = Len(s) + 1, \A i \in 1..Len(s) : s[i] = t[i]
  PROVE  FlattenSeq(t) = FlattenSeq(s) \o t[Len(t)]
<1> DEFINE n == Len(s)
<1>1. n \in Nat /\ n + 1 \in Nat /\ Len(t) = n + 1 /\ t # <<>> /\ n + 1 \in 1..n + 1
  OBVIOUS
<1> HIDE DEF n
<1>2. PICK g : Flattens(g, t, n + 1) /\ FlattenSeq(t) = g[n + 1]
  BY <1>1, FlattenIs
<1>3. g[n + 1] = IF n + 1 = 1 THEN t[n + 1] ELSE g[n] \o t[n + 1]
  <2>1. g[n + 1] = IF n + 1 = 1 THEN t[n + 1] ELSE g[n + 1 - 1] \o t[n + 1]
    BY <1>1, <1>2, FlattensAt
  <2> QED
    BY <1>1, <2>1
<1>4. CASE n = 0
  <2>1. t[n + 1] \in Seq(S) /\ s = <<>>
    BY <1>1, <1>4 DEF n
  <2>2. <<>> \o t[n + 1] = t[n + 1]
    BY <2>1
  <2> QED
    BY <1>2, <1>3, <1>4, <2>1, <2>2, FlattenNothing
<1>5. CASE n # 0
  <2>1. PICK f : Flattens(f, s, n) /\ FlattenSeq(s) = f[n]
    <3>1. s # <<>>
      BY <1>5 DEF n
    <3> QED
      BY <3>1, FlattenIs DEF n
  <2>2. f[n] = g[n]
    <3>1. Agree(s, t, n)
      BY DEF n, Agree
    <3>2. Agree(f, g, n)
      BY <1>1, <1>2, <2>1, <3>1, FlattensAgree
    <3> QED
      BY <1>1, <1>5, <3>2 DEF Agree
  <2>3. n + 1 # 1
    BY <1>1, <1>5
  <2> QED
    BY <1>1, <1>2, <1>3, <2>1, <2>2, <2>3, Zenon
<1> QED
  BY <1>4, <1>5

-----------------------------------------------------------------------------
(* Sequences.                                                              *)

\* Append, entry by entry
LEMMA Appended ==
  ASSUME NEW S, NEW s \in Seq(S), NEW x \in S
  PROVE  /\ Append(s, x) \in Seq(S)
         /\ Len(Append(s, x)) = Len(s) + 1 /\ Len(s) \in Nat
         /\ \A i \in 1..Len(s) : Append(s, x)[i] = s[i]
         /\ Append(s, x)[Len(s) + 1] = x
OBVIOUS

\* Functions on the first numbers are sequences
LEMMA FunctionIsSeq ==
  ASSUME NEW S, NEW n \in Nat, NEW f \in [1..n -> S]
  PROVE  f \in Seq(S) /\ Len(f) = n
OBVIOUS

\* Front and Last, entry by entry
LEMMA FrontAndLast ==
  ASSUME NEW S, NEW s \in Seq(S), s # <<>>
  PROVE  /\ Front(s) \in Seq(S) /\ Len(s) \in Nat \ {0}
         /\ Len(Front(s)) = Len(s) - 1
         /\ \A i \in 1..Len(s) - 1 : Front(s)[i] = s[i]
         /\ Last(s) = s[Len(s)] /\ Last(s) \in S
<1>1. Len(s) \in Nat /\ Len(s) >= 1 /\ \A i \in 1..Len(s) : s[i] \in S
  <2>1. Len(s) \in Nat \ {0}
    BY EmptySeq
  <2> QED
    BY <2>1, ElementOfSeq
<1> DEFINE n == Len(s)
<1>2. 1 \in Int /\ n - 1 \in Int /\ n - 1 - 1 + 1 = n - 1
  BY <1>1
<1>3. \A i \in 1..n - 1 : s[i] \in S
  BY <1>1
<1>4. /\ SubSeq(s, 1, n - 1) \in Seq(S)
      /\ Len(SubSeq(s, 1, n - 1)) = IF 1 <= n - 1 THEN n - 1 - 1 + 1 ELSE 0
      /\ \A i \in 1..n - 1 - 1 + 1 : SubSeq(s, 1, n - 1)[i] = s[1 + i - 1]
  BY <1>2, <1>3, SubSeqProperties
<1> QED
  BY <1>1, <1>2, <1>4 DEF Front, Last

\* The values of a sequence
LEMMA RangeIs ==
  ASSUME NEW S, NEW s \in Seq(S)
  PROVE  /\ Range(s) = {s[i] : i \in 1..Len(s)} /\ Range(s) \subseteq S
         /\ Len(s) \in Nat
<1>1. DOMAIN s = 1..Len(s) /\ Len(s) \in Nat /\ \A i \in 1..Len(s) : s[i] \in S
  BY LenProperties, ElementOfSeq
<1> QED
  BY <1>1 DEF Range

\* The same as a membership
LEMMA InRange ==
  ASSUME NEW S, NEW s \in Seq(S)
  PROVE  \A x : x \in Range(s) <=> \E i \in 1..Len(s) : x = s[i]
BY RangeIs

\* Last is the value that Front may miss
LEMMA FrontRange ==
  ASSUME NEW S, NEW s \in Seq(S), NEW t \in Seq(S), Len(s) \in Nat \ {0},
         Len(t) = Len(s) - 1, \A i \in 1..Len(s) - 1 : t[i] = s[i],
         Last(s) = s[Len(s)]
  PROVE  Range(s) = Range(t) \union {Last(s)}
<1>1. /\ \A x : x \in Range(s) <=> \E i \in 1..Len(s) : x = s[i]
      /\ \A x : x \in Range(t) <=> \E i \in 1..Len(t) : x = t[i]
  BY InRange
<1>2. /\ \A i \in 1..Len(s) : i = Len(s) \/ i \in 1..Len(t)
      /\ \A i \in 1..Len(t) : i \in 1..Len(s) /\ t[i] = s[i]
      /\ Len(s) \in 1..Len(s)
  OBVIOUS
<1>3. ASSUME NEW x \in Range(s)
      PROVE  x \in Range(t) \/ x = Last(s)
  <2>1. PICK i \in 1..Len(s) : x = s[i]
    BY <1>1, <1>3
  <2>2. CASE i = Len(s)
    BY <2>1, <2>2
  <2>3. CASE i \in 1..Len(t)
    BY <1>1, <1>2, <2>1, <2>3, Zenon
  <2> QED
    BY <1>2, <2>2, <2>3
<1>4. ASSUME NEW x \in Range(t)
      PROVE  x \in Range(s)
  BY <1>1, <1>2, Zenon
<1>5. Last(s) \in Range(s)
  BY <1>1, <1>2, Zenon
<1> QED
  BY <1>3, <1>4, <1>5

-----------------------------------------------------------------------------
(* Events are loaded.                                                      *)

\* A directory is a finite set of events with their shapes
LEMMA DirectoryIs ==
  ASSUME LoadedInv
  PROVE  /\ DOMAIN directory \subseteq Nat /\ DOMAIN directory \subseteq Events
         /\ IsFiniteSet(DOMAIN directory)
         /\ \A e \in DOMAIN directory : directory[e] \in Shapes
<1>1. directory \in Directories /\ Events \subseteq Nat
  BY ExperimentAssumption DEF LoadedInv
<1>2. /\ DOMAIN directory \subseteq Events /\ Range(directory) \subseteq Shapes
      /\ IsFiniteSet(DOMAIN directory)
  BY <1>1, ExperimentAssumption
<1> QED
  BY <1>1, <1>2 DEF Range

\* The numbers up to the next one
LEMMA UuidLeft ==
  ASSUME NEW n \in Nat
  PROVE  0..n + 1 - 1 = (0..n - 1) \union {n}
OBVIOUS

\* main pushes an event with a new number
LEMMA LoadEventKeepsLoaded ==
  ASSUME LoadedInv, LoadEvent
  PROVE  LoadedInv'
<1>1. /\ events \in Seq(Nat) /\ uuid \in Nat /\ uuid \in DOMAIN directory
      /\ events' = Append(events, uuid) /\ uuid' = uuid + 1 /\ pc' = "loading"
      /\ UNCHANGED directory
  BY DEF LoadEvent, HasFile, LoadedInv
<1>2. /\ events' \in Seq(Nat) /\ Len(events') = Len(events) + 1
      /\ \A i \in 1..Len(events) : events'[i] = events[i]
      /\ events'[Len(events) + 1] = uuid /\ Len(events) \in Nat
  BY <1>1, Appended
<1>3. \A i \in 1..Len(events') : i \in 1..Len(events) \/ i = Len(events) + 1
  BY <1>2
<1>4. \A i \in 1..Len(events) : events[i] \in Nat /\ events[i] < uuid
  BY <1>1, ElementOfSeq DEF LoadedInv
<1>5. \A i \in 1..Len(events') : events'[i] < uuid'
  <2>1. TAKE i \in 1..Len(events')
  <2>2. CASE i \in 1..Len(events)
    BY <1>1, <1>2, <1>4, <2>2
  <2>3. CASE i = Len(events) + 1
    BY <1>1, <1>2, <2>3
  <2> QED
    BY <1>3, <2>2, <2>3
<1>6. \A i, j \in 1..Len(events') : events'[i] = events'[j] => i = j
  <2>1. TAKE i, j \in 1..Len(events')
  <2>2. CASE i \in 1..Len(events) /\ j \in 1..Len(events)
    BY <1>2, <2>2 DEF LoadedInv
  <2>3. CASE i \in 1..Len(events) /\ j = Len(events) + 1
    BY <1>1, <1>2, <1>4, <2>3
  <2>4. CASE i = Len(events) + 1 /\ j \in 1..Len(events)
    BY <1>1, <1>2, <1>4, <2>4
  <2> QED
    BY <1>3, <2>2, <2>3, <2>4
<1>7. 0..uuid' - 1 \subseteq DOMAIN directory'
  <2>1. 0..uuid + 1 - 1 = (0..uuid - 1) \union {uuid}
    BY <1>1, UuidLeft
  <2> QED
    BY <1>1, <2>1 DEF LoadedInv
<1>8. uuid' \in Nat /\ directory' \in Directories
  BY <1>1 DEF LoadedInv
<1> QED
  BY <1>1, <1>2, <1>5, <1>6, <1>7, <1>8 DEF LoadedInv

\* The stack without its top
LEMMA PopKeepsLoaded ==
  ASSUME LoadedInv, events # <<>>, events' = Front(events),
         UNCHANGED <<directory, pc, uuid>>
  PROVE  /\ LoadedInv' /\ Last(events) \in 0..uuid - 1
         /\ Last(events) \in DOMAIN directory
         /\ Range(events) = Range(events') \union {Last(events)}
         /\ \A i \in 1..Len(events') : events'[i] # Last(events)
         /\ \A i \in 1..Len(events') : i \in 1..Len(events)
                                       /\ events'[i] = events[i]
<1>1. events \in Seq(Nat) /\ uuid \in Nat
  BY DEF LoadedInv
<1>2. /\ events' \in Seq(Nat) /\ Len(events) \in Nat \ {0}
      /\ Len(events') = Len(events) - 1
      /\ \A i \in 1..Len(events) - 1 : events'[i] = events[i]
      /\ Last(events) = events[Len(events)] /\ Last(events) \in Nat
  BY <1>1, FrontAndLast
<1>3. \A i \in 1..Len(events') : i \in 1..Len(events) /\ i # Len(events)
                                 /\ events'[i] = events[i]
  BY <1>2
<1>4. Len(events) \in 1..Len(events)
  BY <1>2
<1>5. Last(events) \in 0..uuid - 1
  <2>1. events[Len(events)] < uuid
    BY <1>4 DEF LoadedInv
  <2> QED
    BY <1>1, <1>2, <2>1
<1>6. \A i \in 1..Len(events') : events'[i] # Last(events)
  <2>1. \A i, j \in 1..Len(events) : events[i] = events[j] => i = j
    BY DEF LoadedInv
  <2> QED
    BY <1>2, <1>3, <1>4, <2>1, Zenon
<1>7. Range(events) = Range(events') \union {Last(events)}
  BY <1>1, <1>2, FrontRange
<1>8. LoadedInv'
  <2>1. \A i \in 1..Len(events') : events'[i] < uuid'
    BY <1>3 DEF LoadedInv
  <2>2. \A i, j \in 1..Len(events') : events'[i] = events'[j] => i = j
    BY <1>3 DEF LoadedInv
  <2> QED
    BY <1>2, <2>1, <2>2 DEF LoadedInv, HasFile
<1>9. Last(events) \in DOMAIN directory
  BY <1>5 DEF LoadedInv
<1> QED
  BY <1>3, <1>5, <1>6, <1>7, <1>8, <1>9

\* The stack holds loaded events, each of them once
LEMMA LoadedStep ==
  ASSUME LoadedInv, Next
  PROVE  LoadedInv'
<1>1. ASSUME NEW event \in Events, AddsLabeled(event) \/ AddsUnlabeled(event)
      PROVE  LoadedInv'
  <2>1. /\ events # <<>> /\ events' = Front(events)
        /\ UNCHANGED <<directory, pc, uuid>>
    BY <1>1 DEF AddsLabeled, AddsUnlabeled, Extracts, Processes, ExtractedAndPopped
  <2> QED
    BY <2>1, PopKeepsLoaded
<1>2. ASSUME UNCHANGED <<directory, uuid, events>>,
             pc' \in {"stopping", "archived"} => ~HasFile(uuid)
      PROVE  LoadedInv'
  BY <1>2 DEF LoadedInv, HasFile
<1>3. CASE LoadThrows \/ StopAnalyzingWhenDone
  BY <1>2, <1>3 DEF LoadThrows, StopAnalyzingWhenDone, setupVars, LoadedInv
<1>4. ASSUME NEW event \in Events, MatrixAborts(event) \/ ExtractionFails(event)
      PROVE  LoadedInv'
  <2>1. /\ pc' \in {"undefined", "aborted", "extracted"}
        /\ UNCHANGED <<directory, uuid, events>>
    BY <1>4 DEF MatrixAborts, ExtractionFails, Terminates, setupVars, Extraction
  <2> QED
    BY <1>2, <2>1
<1>5. CASE InitLabelManagerWithoutMisdetected
  BY <1>2, <1>5 DEF InitLabelManagerWithoutMisdetected, setupVars
<1>6. CASE ValidatePartition
  <2>1. /\ pc' \in {"validating", "validated", "aborted"}
        /\ UNCHANGED <<directory, uuid, events>>
    BY <1>6 DEF ValidatePartition, setupVars
  <2> QED
    BY <1>2, <2>1
<1>7. CASE Visualization
  BY <1>2, <1>7 DEF Visualization, PerformValidationResultsVisualisation,
                    PerformVisualisation, setupVars
<1> QED
  BY <1>1, <1>3, <1>4, <1>5, <1>6, <1>7, LoadEventKeepsLoaded
     DEF Next, Setup, Validation

-----------------------------------------------------------------------------
(* Events are labeled.                                                     *)

\* The entries of an event
LEMMA EntryIs ==
  ASSUME NEW e
  PROVE  /\ LabeledEntry(e) = [event |-> e, label |-> getEventLabel(e),
                               certainty |-> 0]
         /\ LabeledEntry(e).event = e /\ LabeledEntry(e).label = getEventLabel(e)
         /\ Feature(e).event = e /\ Feature(e).label = NoLabel
         /\ [Feature(e) EXCEPT !.label = EventUnknown].event = e
         /\ [Feature(e) EXCEPT !.label = NoLabel] = Feature(e)
<1>1. LabeledEntry(e) = [event |-> e, label |-> getEventLabel(e),
                               certainty |-> 0]
  BY DEF LabeledEntry, Feature
<1> QED
  BY <1>1 DEF Feature

\* A labeled entry is determined by its event
LEMMA LabeledAre ==
  ASSUME NEW S, NEW s \in Seq(LabeledEntries(S)), NEW i \in 1..Len(s)
  PROVE  /\ s[i] \in LabeledEntries(S) /\ s[i].event \in S
         /\ s[i] = LabeledEntry(s[i].event)
         /\ s[i].label = getEventLabel(s[i].event)
<1>1. s[i] \in LabeledEntries(S)
  BY ElementOfSeq
<1>2. PICK e \in S : s[i] = LabeledEntry(e)
  BY <1>1, Zenon DEF LabeledEntries
<1>3. s[i].event = e
  BY <1>2, EntryIs, Zenon
<1> QED
  BY <1>1, <1>2, <1>3, EntryIs, Zenon

\* One labeled event more, with as many features as there are
LEMMA ConsistentAppend ==
  ASSUME NEW S, NEW s \in Seq(S), NEW f \in S, NEW dir, Consistent(s, dir),
         \A i \in 1..Len(s) : /\ s[i].event # f.event
                              /\ NumberOfFeatures(dir[s[i].event])
                                   = NumberOfFeatures(dir[f.event])
  PROVE  Consistent(Append(s, f), dir)
<1> DEFINE t == Append(s, f)
           n == Len(s)
           same(x, y) ==
             /\ t[x].event = t[y].event => x = y
             /\ NumberOfFeatures(dir[t[x].event]) = NumberOfFeatures(dir[t[y].event])
<1>1. /\ Len(t) = n + 1 /\ n \in Nat /\ t[n + 1] = f
      /\ \A i \in 1..n : t[i] = s[i]
  BY Appended
<1>2. \A i \in 1..Len(t) : i \in 1..n \/ i = n + 1
  BY <1>1
<1>3. \A i \in 1..n : \A j \in 1..n : same(i, j)
  BY <1>1, Zenon DEF Consistent
<1>4. \A i \in 1..n : same(i, n + 1) /\ same(n + 1, i)
  BY <1>1, Zenon
<1>5. same(n + 1, n + 1)
  OBVIOUS
<1> HIDE DEF t, n, same
<1>6. \A i, j \in 1..Len(t) : same(i, j)
  BY <1>2, <1>3, <1>4, <1>5, Zenon
<1> QED
  BY <1>6, Zenon DEF same, Consistent, t

\* What the actions do to the vectors
LEMMA AddedLabeled ==
  ASSUME LabeledInv, NEW event \in Events, AddsLabeled(event)
  PROVE  /\ event = Last(events) /\ events # <<>> /\ events' = Front(events)
         /\ getEventLabel(event) # NoLabel
         /\ UNCHANGED <<directory, pc, uuid>>
         /\ manager' = [labeled   |-> Append(manager.labeled, LabeledEntry(event)),
                        unlabeled |-> manager.unlabeled]
         /\ ColumnsFit(manager')
<1>1. manager' = addLabeledEvent(manager, Feature(event), getEventLabel(event))
  BY DEF AddsLabeled
<1>2. manager = [labeled |-> manager.labeled, unlabeled |-> manager.unlabeled]
  BY DEF LabeledInv
<1>3. manager' = [manager EXCEPT !.labeled = Append(@, LabeledEntry(event))]
  BY <1>1, Zenon DEF addLabeledEvent, LabeledEntry
<1>4. manager' = [labeled   |-> Append(manager.labeled, LabeledEntry(event)),
                  unlabeled |-> manager.unlabeled]
  BY <1>2, <1>3
<1>5. /\ event = Last(events) /\ events # <<>> /\ events' = Front(events)
      /\ getEventLabel(event) # NoLabel
      /\ UNCHANGED <<directory, pc, uuid>> /\ ColumnsFit(manager')
  BY DEF AddsLabeled, Extracts, Processes, ExtractedAndPopped
<1> QED
  BY <1>4, <1>5

\* The same for an event without a label
LEMMA AddedUnlabeled ==
  ASSUME LabeledInv, NEW event \in Events, AddsUnlabeled(event)
  PROVE  /\ event = Last(events) /\ events # <<>> /\ events' = Front(events)
         /\ getEventLabel(event) = NoLabel
         /\ UNCHANGED <<directory, pc, uuid>>
         /\ manager' =
              [labeled   |-> manager.labeled,
               unlabeled |-> manager.unlabeled
                               \o Pushed(manager, Feature(event), NoLabel)]
<1>1. manager' = [manager EXCEPT !.unlabeled =
                    @ \o Pushed(manager, Feature(event), NoLabel)]
  BY DEF AddsUnlabeled
<1>2. manager = [labeled |-> manager.labeled, unlabeled |-> manager.unlabeled]
  BY DEF LabeledInv
<1>3. manager' =
              [labeled   |-> manager.labeled,
               unlabeled |-> manager.unlabeled
                               \o Pushed(manager, Feature(event), NoLabel)]
  BY <1>1, <1>2
<1>4. /\ event = Last(events) /\ events # <<>> /\ events' = Front(events)
      /\ getEventLabel(event) = NoLabel
      /\ UNCHANGED <<directory, pc, uuid>>
  BY DEF AddsUnlabeled, Extracts, Processes, ExtractedAndPopped
<1> QED
  BY <1>3, <1>4

\* What is added to the unlabeled events stands for the event
LEMMA PushedIs ==
  ASSUME NEW m, NEW S, NEW event \in S
  PROVE  /\ Pushed(m, Feature(event), NoLabel) \in Seq(UnlabeledEntries(S))
         /\ Len(Pushed(m, Feature(event), NoLabel)) \in {1, 2}
         /\ Pushed(m, Feature(event), NoLabel)[1].event = event
<1> DEFINE f == Feature(event)
           u == [f EXCEPT !.label = EventUnknown]
<1>1. f \in UnlabeledEntries(S) /\ u \in UnlabeledEntries(S)
  <2>1. \A label \in {NoLabel, EventUnknown} :
          [f EXCEPT !.label = label] \in UnlabeledEntries(S)
    BY DEF UnlabeledEntries
  <2>2. f = [f EXCEPT !.label = NoLabel]
    BY EntryIs
  <2> HIDE DEF f
  <2> QED
    BY <2>1, <2>2
<1>2. f.event = event /\ u.event = event
  BY EntryIs
<1>3. Pushed(m, f, NoLabel) = <<f>> \/ Pushed(m, f, NoLabel) = <<u, u>>
  BY Zenon DEF Pushed, Dropped
<1> HIDE DEF f, u
<1>4. /\ <<f>> \in Seq(UnlabeledEntries(S)) /\ <<u, u>> \in Seq(UnlabeledEntries(S))
      /\ Len(<<f>>) = 1 /\ Len(<<u, u>>) = 2 /\ <<f>>[1] = f /\ <<u, u>>[1] = u
  BY <1>1
<1>5. /\ Pushed(m, f, NoLabel) \in Seq(UnlabeledEntries(S))
      /\ Len(Pushed(m, f, NoLabel)) \in {1, 2}
      /\ Pushed(m, f, NoLabel)[1].event = event
  BY <1>2, <1>3, <1>4
<1> QED
  BY <1>5 DEF f

\* Eigen's assertion makes the features as many as those there are
LEMMA MatrixIsRegular ==
  ASSUME LoadedInv, LabeledInv, NEW event \in Events, AddsLabeled(event)
  PROVE  \A i \in 1..Len(manager.labeled) :
           NumberOfFeatures(directory[manager.labeled[i].event])
             = NumberOfFeatures(directory[event])
<1> DEFINE s == manager.labeled
           t == manager'.labeled
<1>1. t = Append(s, LabeledEntry(event)) /\ ColumnsFit(manager')
  BY AddedLabeled
<1>2. s \in Seq(LabeledEntries(DOMAIN directory))
  BY DEF LabeledInv
<1>3. event \in DOMAIN directory
  BY AddedLabeled, PopKeepsLoaded
<1>4. LabeledEntry(event) \in LabeledEntries(DOMAIN directory)
  BY <1>3, Zenon DEF LabeledEntries
<1>5. /\ t \in Seq(LabeledEntries(DOMAIN directory)) /\ Len(t) = Len(s) + 1
      /\ Len(s) \in Nat /\ t[Len(t)] = LabeledEntry(event)
      /\ \A i \in 1..Len(s) : t[i] = s[i]
  BY <1>1, <1>2, <1>4, Appended
<1>6. \A f \in Range(t) : NumberOfFeatures(directory[f.event])
                            = NumberOfFeatures(directory[Last(t).event])
  BY <1>1, Zenon DEF ColumnsFit, MatrixRows, FeatureCount
<1>7. Last(t).event = event
  BY <1>5, EntryIs, Zenon DEF Last
<1>8. \A i \in 1..Len(s) : s[i] \in Range(t)
  <2>1. TAKE i \in 1..Len(s)
  <2>2. i \in 1..Len(t)
    BY <1>5
  <2> QED
    BY <1>5, <2>2, InRange
<1> QED
  BY <1>6, <1>7, <1>8, Zenon

\* The popped event becomes the last labeled one
LEMMA AddsLabeledKeepsLabeled ==
  ASSUME LoadedInv, LabeledInv, NEW event \in Events, AddsLabeled(event)
  PROVE  LabeledInv'
<1> DEFINE s == manager.labeled
<1>1. /\ event = Last(events) /\ events # <<>> /\ events' = Front(events)
      /\ UNCHANGED <<directory, pc, uuid>>
      /\ manager' = [labeled |-> Append(s, LabeledEntry(event)),
                     unlabeled |-> manager.unlabeled]
  BY AddedLabeled
<1>2. /\ event \in DOMAIN directory /\ event \in 0..uuid - 1
      /\ \A i \in 1..Len(events') : /\ events'[i] # event
                                    /\ i \in 1..Len(events)
                                    /\ events'[i] = events[i]
  BY <1>1, PopKeepsLoaded
<1>3. /\ s \in Seq(LabeledEntries(DOMAIN directory))
      /\ \A i \in 1..Len(s) : s[i].event < uuid
      /\ \A i \in 1..Len(s), j \in 1..Len(events) : s[i].event # events[j]
  BY DEF LabeledInv
<1>4. LabeledEntry(event) \in LabeledEntries(DOMAIN directory)
  BY <1>2, Zenon DEF LabeledEntries
<1>5. LabeledEntry(event).event = event /\ uuid \in Nat /\ event < uuid
  BY <1>2, EntryIs DEF LoadedInv
<1>6. PICK t : t = Append(s, LabeledEntry(event))
  OBVIOUS
<1>7. /\ t \in Seq(LabeledEntries(DOMAIN directory)) /\ Len(t) = Len(s) + 1
      /\ Len(s) \in Nat /\ t[Len(s) + 1] = LabeledEntry(event)
      /\ \A i \in 1..Len(s) : t[i] = s[i]
  BY <1>3, <1>4, <1>6, Appended
<1>8. \A i \in 1..Len(t) : i \in 1..Len(s) \/ i = Len(s) + 1
  BY <1>7
<1>9. Len(events) \in 1..Len(events) /\ event = events[Len(events)]
  <2>1. events \in Seq(Nat)
    BY DEF LoadedInv
  <2>2. Len(events) \in Nat \ {0} /\ Last(events) = events[Len(events)]
    BY <1>1, <2>1, FrontAndLast
  <2> QED
    BY <1>1, <2>2
<1>10. Consistent(t, directory)
  <2>1. \A i \in 1..Len(s) : s[i].event # event
    BY <1>3, <1>9
  <2>2. \A i \in 1..Len(s) : NumberOfFeatures(directory[s[i].event])
                               = NumberOfFeatures(directory[event])
    BY MatrixIsRegular
  <2>3. Consistent(s, directory)
    BY DEF LabeledInv
  <2> HIDE DEF s
  <2> QED
    BY <1>3, <1>4, <1>5, <1>6, <2>1, <2>2, <2>3, ConsistentAppend
<1>11. \A i \in 1..Len(t) : t[i].event < uuid
  BY <1>3, <1>5, <1>7, <1>8
<1>12. \A i \in 1..Len(t), j \in 1..Len(events') : t[i].event # events'[j]
  <2>1. TAKE i \in 1..Len(t), j \in 1..Len(events')
  <2>2. CASE i \in 1..Len(s)
    BY <1>2, <1>3, <1>7, <2>2
  <2>3. CASE i = Len(s) + 1
    BY <1>2, <1>5, <1>7, <2>3
  <2> QED
    BY <1>8, <2>2, <2>3
<1>13. manager' = [labeled |-> t, unlabeled |-> manager.unlabeled]
  BY <1>1, <1>6
<1>14. manager'.labeled = t /\ manager'.unlabeled = manager.unlabeled
  BY <1>13
<1>15. directory' = directory /\ uuid' = uuid
  BY <1>1
<1> HIDE DEF s
<1> QED
  BY <1>7, <1>10, <1>11, <1>12, <1>13, <1>14, <1>15 DEF LabeledInv

\* The labeled events stay
LEMMA AddsUnlabeledKeepsLabeled ==
  ASSUME LoadedInv, LabeledInv, NEW event \in Events, AddsUnlabeled(event)
  PROVE  LabeledInv'
<1> DEFINE p == Pushed(manager, Feature(event), NoLabel)
<1>1. /\ event = Last(events) /\ events # <<>> /\ events' = Front(events)
      /\ directory' = directory /\ pc' = pc /\ uuid' = uuid
      /\ manager' = [labeled |-> manager.labeled,
                     unlabeled |-> manager.unlabeled \o p]
  BY AddedUnlabeled
<1>2. /\ event \in DOMAIN directory
      /\ \A i \in 1..Len(events') : /\ i \in 1..Len(events)
                                    /\ events'[i] = events[i]
  BY <1>1, PopKeepsLoaded
<1>3. p \in Seq(UnlabeledEntries(DOMAIN directory))
  BY <1>2, PushedIs
<1> HIDE DEF p
<1>4. manager.unlabeled \o p \in Seq(UnlabeledEntries(DOMAIN directory))
  BY <1>3, ConcatProperties DEF LabeledInv
<1>5. /\ manager'.labeled = manager.labeled
      /\ manager'.unlabeled = manager.unlabeled \o p
  BY <1>1
<1>6. \A i \in 1..Len(manager.labeled), j \in 1..Len(events') :
        manager.labeled[i].event # events'[j]
  BY <1>2 DEF LabeledInv
<1> QED
  BY <1>1, <1>4, <1>5, <1>6 DEF LabeledInv

\* The event that is pushed has not been labeled
LEMMA LoadEventKeepsLabeled ==
  ASSUME LoadedInv, LabeledInv, LoadEvent
  PROVE  LabeledInv'
<1>1. /\ events \in Seq(Nat) /\ uuid \in Nat
      /\ events' = Append(events, uuid) /\ uuid' = uuid + 1
      /\ directory' = directory /\ manager' = manager
  BY DEF LoadEvent, LoadedInv
<1>2. /\ Len(events') = Len(events) + 1 /\ Len(events) \in Nat
      /\ \A i \in 1..Len(events) : events'[i] = events[i]
      /\ events'[Len(events) + 1] = uuid
  BY <1>1, Appended
<1>3. /\ manager.labeled \in Seq(LabeledEntries(DOMAIN directory))
      /\ \A i \in 1..Len(manager.labeled) : manager.labeled[i].event < uuid
      /\ \A i \in 1..Len(manager.labeled), j \in 1..Len(events) :
           manager.labeled[i].event # events[j]
  BY DEF LabeledInv
<1>4. ASSUME NEW i \in 1..Len(manager.labeled)
      PROVE  manager.labeled[i].event \in Nat
  BY <1>3, LabeledAre, DirectoryIs
<1>5. \A i \in 1..Len(manager.labeled) : manager.labeled[i].event < uuid'
  BY <1>1, <1>3, <1>4
<1>6. \A i \in 1..Len(manager.labeled), j \in 1..Len(events') :
        manager.labeled[i].event # events'[j]
  <2>1. TAKE i \in 1..Len(manager.labeled), j \in 1..Len(events')
  <2>2. j \in 1..Len(events) \/ j = Len(events) + 1
    BY <1>2
  <2>3. CASE j \in 1..Len(events)
    BY <1>2, <1>3, <2>3, Zenon
  <2>4. CASE j = Len(events) + 1
    <3>1. events'[j] = uuid
      BY <1>2, <2>4
    <3>2. manager.labeled[i].event < uuid
      BY <1>3
    <3> QED
      BY <1>1, <1>4, <3>1, <3>2
  <2> QED
    BY <2>2, <2>3, <2>4
<1> QED
  BY <1>1, <1>3, <1>5, <1>6 DEF LabeledInv

\* The shuffled events
LEMMA Shuffled ==
  ASSUME NEW S, NEW s \in Seq(S), NEW order \in Bijection(DOMAIN s, DOMAIN s),
         NEW t, t = [i \in DOMAIN s |-> s[order[i]]]
  PROVE  /\ t \in Seq(S) /\ Len(t) = Len(s)
         /\ \A i \in 1..Len(t) : order[i] \in 1..Len(s) /\ t[i] = s[order[i]]
         /\ \A i, j \in 1..Len(t) : order[i] = order[j] => i = j
<1>1. /\ DOMAIN s = 1..Len(s) /\ Len(s) \in Nat
      /\ \A i \in 1..Len(s) : s[i] \in S
  BY LenProperties, ElementOfSeq
<1>2. /\ order \in [1..Len(s) -> 1..Len(s)]
      /\ \A i, j \in 1..Len(s) : order[i] = order[j] => i = j
  BY <1>1 DEF Bijection, Injection, IsInjective
<1>3. t = [i \in 1..Len(s) |-> s[order[i]]]
  BY <1>1
<1>4. t \in [1..Len(s) -> S]
  BY <1>1, <1>2, <1>3
<1>5. t \in Seq(S) /\ Len(t) = Len(s)
  BY <1>1, <1>4
<1> QED
  BY <1>2, <1>3, <1>5

\* The order does not matter
LEMMA ShuffleKeepsLabeled ==
  ASSUME LoadedInv, LabeledInv, InitLabelManagerWithoutMisdetected
  PROVE  LabeledInv'
<1> DEFINE s == manager.labeled
<1>1. PICK order \in Bijection(DOMAIN s, DOMAIN s) :
        manager' = [labeled |-> [i \in DOMAIN s |-> s[order[i]]],
                    unlabeled |-> <<>>]
  BY DEF InitLabelManagerWithoutMisdetected
<1>2. PICK t : t = [i \in DOMAIN s |-> s[order[i]]]
  OBVIOUS
<1>3. /\ s \in Seq(LabeledEntries(DOMAIN directory))
      /\ \A i \in 1..Len(s) : s[i].event < uuid
      /\ Consistent(s, directory)
      /\ \A i \in 1..Len(s), j \in 1..Len(events) : s[i].event # events[j]
  BY DEF LabeledInv
<1>4. directory' = directory /\ events' = events /\ uuid' = uuid
  BY DEF InitLabelManagerWithoutMisdetected, setupVars
<1>5. manager'.labeled = t /\ manager'.unlabeled = <<>>
      /\ manager' = [labeled |-> t, unlabeled |-> <<>>]
  BY <1>1, <1>2
<1> HIDE DEF s
<1>6. /\ t \in Seq(LabeledEntries(DOMAIN directory)) /\ Len(t) = Len(s)
      /\ \A i \in 1..Len(t) : order[i] \in 1..Len(s) /\ t[i] = s[order[i]]
      /\ \A i, j \in 1..Len(t) : order[i] = order[j] => i = j
  BY <1>2, <1>3, Shuffled
<1>7. \A i \in 1..Len(t) : t[i].event < uuid
  BY <1>3, <1>6, Zenon
<1>8. \A i \in 1..Len(t), j \in 1..Len(events) : t[i].event # events[j]
  <2>1. TAKE i \in 1..Len(t), j \in 1..Len(events)
  <2>2. order[i] \in 1..Len(s) /\ t[i] = s[order[i]]
    BY <1>6
  <2>3. s[order[i]].event # events[j]
    BY <1>3, <2>2
  <2> QED
    BY <2>2, <2>3
<1>9. Consistent(t, directory)
  <2>1. ASSUME NEW i \in 1..Len(t), NEW j \in 1..Len(t)
        PROVE  /\ t[i].event = t[j].event => i = j
               /\ NumberOfFeatures(directory[t[i].event])
                    = NumberOfFeatures(directory[t[j].event])
    <3>1. /\ order[i] \in 1..Len(s) /\ t[i] = s[order[i]]
          /\ order[j] \in 1..Len(s) /\ t[j] = s[order[j]]
          /\ order[i] = order[j] => i = j
      BY <1>6
    <3>2. /\ s[order[i]].event = s[order[j]].event => order[i] = order[j]
          /\ NumberOfFeatures(directory[s[order[i]].event])
               = NumberOfFeatures(directory[s[order[j]].event])
      BY <1>3, <3>1, Zenon DEF Consistent
    <3> QED
      BY <3>1, <3>2, Zenon
  <2> QED
    BY <2>1, Zenon DEF Consistent
<1>10. <<>> \in Seq(UnlabeledEntries(DOMAIN directory))
  OBVIOUS
<1> QED
  BY <1>4, <1>5, <1>6, <1>7, <1>8, <1>9, <1>10, Zenon DEF LabeledInv

\* Every step keeps the labeled events apart
LEMMA LabeledStep ==
  ASSUME LoadedInv, LabeledInv, Next
  PROVE  LabeledInv'
<1>1. ASSUME UNCHANGED <<directory, uuid, events, manager>>
      PROVE  LabeledInv'
  BY <1>1 DEF LabeledInv
<1>2. CASE LoadThrows \/ StopAnalyzingWhenDone
  BY <1>1, <1>2 DEF LoadThrows, StopAnalyzingWhenDone, setupVars
<1>3. ASSUME NEW event \in Events, MatrixAborts(event) \/ ExtractionFails(event)
      PROVE  LabeledInv'
  BY <1>1, <1>3 DEF MatrixAborts, ExtractionFails, Terminates, setupVars
<1>4. CASE ValidatePartition
  BY <1>1, <1>4 DEF ValidatePartition, setupVars
<1>5. CASE Visualization
  BY <1>1, <1>5 DEF Visualization, PerformValidationResultsVisualisation,
                    PerformVisualisation, setupVars
<1> QED
  BY <1>2, <1>3, <1>4, <1>5, LoadEventKeepsLabeled, AddsLabeledKeepsLabeled,
     AddsUnlabeledKeepsLabeled, ShuffleKeepsLabeled DEF Next, Setup, Validation

-----------------------------------------------------------------------------
(* Nothing is lost on the way to the archive.                              *)

\* Entries stay when entries are appended
LEMMA RangeGrows ==
  ASSUME NEW S, NEW s \in Seq(S), NEW t \in Seq(S)
  PROVE  /\ Range(s \o t) = Range(s) \union Range(t)
         /\ s \o t \in Seq(S)
<1>1. /\ s \o t \in Seq(S) /\ Len(s \o t) = Len(s) + Len(t)
      /\ \A i \in 1..Len(s) + Len(t) :
           (s \o t)[i] = IF i <= Len(s) THEN s[i] ELSE t[i - Len(s)]
  BY ConcatProperties
<1> DEFINE st == s \o t
<1>2. Len(s) \in Nat /\ Len(t) \in Nat
  OBVIOUS
<1>3. /\ \A x : x \in Range(s) <=> \E i \in 1..Len(s) : x = s[i]
      /\ \A x : x \in Range(t) <=> \E i \in 1..Len(t) : x = t[i]
      /\ \A x : x \in Range(st) <=> \E i \in 1..Len(st) : x = st[i]
  BY <1>1, InRange
<1>4. \A i \in 1..Len(s) : i \in 1..Len(s) + Len(t) /\ i <= Len(s)
  BY <1>2
<1>5. \A i \in 1..Len(t) : /\ Len(s) + i \in 1..Len(s) + Len(t)
                           /\ ~(Len(s) + i <= Len(s)) /\ Len(s) + i - Len(s) = i
  BY <1>2
<1>6. \A i \in 1..Len(s) + Len(t) : i <= Len(s) => i \in 1..Len(s)
  BY <1>2
<1>7. \A i \in 1..Len(s) + Len(t) : ~(i <= Len(s)) => i - Len(s) \in 1..Len(t)
  BY <1>2
<1> HIDE DEF st
<1>8. ASSUME NEW x \in Range(s)
      PROVE  x \in Range(st)
  <2>1. PICK i \in 1..Len(s) : x = s[i]
    BY <1>3, <1>8
  <2>2. i \in 1..Len(st) /\ st[i] = s[i]
    BY <1>1, <1>4 DEF st
  <2> QED
    BY <1>3, <2>1, <2>2
<1>9. ASSUME NEW x \in Range(t)
      PROVE  x \in Range(st)
  <2>1. PICK i \in 1..Len(t) : x = t[i]
    BY <1>3, <1>9
  <2>2. Len(s) + i \in 1..Len(st) /\ st[Len(s) + i] = t[i]
    BY <1>1, <1>5 DEF st
  <2> QED
    BY <1>3, <2>1, <2>2
<1>10. ASSUME NEW x \in Range(st)
       PROVE  x \in Range(s) \/ x \in Range(t)
  <2>1. PICK i \in 1..Len(s) + Len(t) : x = st[i]
    BY <1>1, <1>3, <1>10 DEF st
  <2>2. CASE i <= Len(s)
    <3>1. i \in 1..Len(s) /\ x = s[i]
      BY <1>1, <1>6, <2>1, <2>2 DEF st
    <3> QED
      BY <1>3, <3>1
  <2>3. CASE ~(i <= Len(s))
    <3>1. i - Len(s) \in 1..Len(t) /\ x = t[i - Len(s)]
      BY <1>1, <1>7, <2>1, <2>3 DEF st
    <3> QED
      BY <1>3, <3>1
  <2> QED
    BY <2>2, <2>3
<1> QED
  BY <1>1, <1>8, <1>9, <1>10 DEF st

\* One value more
LEMMA AppendRange ==
  ASSUME NEW S, NEW s \in Seq(S), NEW x \in S
  PROVE  Range(Append(s, x)) = Range(s) \union {x}
<1> DEFINE t == Append(s, x)
<1>1. /\ t \in Seq(S) /\ Len(t) = Len(s) + 1 /\ Len(s) \in Nat
      /\ \A i \in 1..Len(s) : t[i] = s[i]
      /\ t[Len(s) + 1] = x
  BY Appended
<1> HIDE DEF t
<1>2. Last(t) = t[Len(t)] /\ Len(t) - 1 = Len(s) /\ Len(t) \in Nat \ {0}
  BY <1>1 DEF Last
<1>3. Range(t) = Range(s) \union {Last(t)}
  BY <1>1, <1>2, FrontRange
<1> QED
  BY <1>1, <1>2, <1>3 DEF t

\* Every loaded event is on the stack or in the manager
LEMMA ArchiveStep ==
  ASSUME LoadedInv, LabeledInv, ArchiveInv, Next
  PROVE  ArchiveInv'
<1>1. /\ events \in Seq(Nat) /\ uuid \in Nat
      /\ manager.labeled \in Seq(LabeledEntries(DOMAIN directory))
      /\ manager.unlabeled \in Seq(UnlabeledEntries(DOMAIN directory))
  BY DEF LoadedInv, LabeledInv
<1>2. CASE LoadEvent
  <2>1. /\ Archiving /\ pc' = "loading" /\ uuid' = uuid + 1
        /\ events' = Append(events, uuid) /\ manager' = manager
    BY <1>2 DEF LoadEvent, Archiving
  <2>2. Range(events') = Range(events) \union {uuid}
    <3>1. Range(Append(events, uuid)) = Range(events) \union {uuid}
      BY <1>1, AppendRange
    <3> QED
      BY <2>1, <3>1
  <2>3. 0..uuid' - 1 = (0..uuid - 1) \union {uuid}
    BY <1>1, <2>1, UuidLeft
  <2>4. \A e \in 0..uuid' - 1 : e \in Range(events') \/ IsArchived(manager', e)
    BY <2>1, <2>2, <2>3 DEF ArchiveInv
  <2> QED
    BY <2>1, <2>4 DEF ArchiveInv
<1>3. ASSUME NEW event \in Events, AddsLabeled(event) \/ AddsUnlabeled(event),
             IsArchived(manager', event),
             Range(manager.labeled) \subseteq Range(manager'.labeled),
             Range(manager.unlabeled) \subseteq Range(manager'.unlabeled)
      PROVE  ArchiveInv'
  <2>1. /\ pc \in {"loading", "stopping"} /\ events # <<>>
        /\ event = Last(events) /\ events' = Front(events)
        /\ UNCHANGED <<directory, pc, uuid>>
    BY <1>3 DEF AddsLabeled, AddsUnlabeled, Extracts, Processes, ExtractedAndPopped
  <2>2. Range(events) = Range(events') \union {event}
    BY <2>1, PopKeepsLoaded
  <2>3. \A e : IsArchived(manager, e) => IsArchived(manager', e)
    BY <1>3 DEF IsArchived
  <2>4. \A e \in 0..uuid - 1 : e \in Range(events) \/ IsArchived(manager, e)
    BY <2>1 DEF ArchiveInv, Archiving
  <2>5. \A e \in 0..uuid - 1 : e \in Range(events') \/ IsArchived(manager', e)
    BY <1>3, <2>2, <2>3, <2>4, Zenon
  <2> QED
    BY <2>1, <2>5 DEF ArchiveInv
<1>4. ASSUME NEW event \in Events, AddsLabeled(event)
      PROVE  ArchiveInv'
  <2>1. /\ manager'.labeled = Append(manager.labeled, LabeledEntry(event))
        /\ manager'.unlabeled = manager.unlabeled
        /\ event = Last(events) /\ events # <<>> /\ events' = Front(events)
        /\ getEventLabel(event) # NoLabel
        /\ UNCHANGED <<directory, pc, uuid>>
    BY <1>4, AddedLabeled
  <2>2. event \in DOMAIN directory
    BY <2>1, PopKeepsLoaded
  <2>3. LabeledEntry(event) \in LabeledEntries(DOMAIN directory)
    BY <2>2, Zenon DEF LabeledEntries
  <2>4. Range(manager'.labeled) = Range(manager.labeled) \union {LabeledEntry(event)}
    BY <1>1, <2>1, <2>3, AppendRange
  <2>5. /\ LabeledEntry(event).event = event
        /\ LabeledEntry(event).label = getEventLabel(event)
        /\ LabeledEntry(event) \in Range(manager'.labeled)
    BY <2>4, EntryIs
  <2>6. IsArchived(manager', event)
    BY <2>1, <2>5, Zenon DEF IsArchived
  <2> QED
    BY <1>3, <1>4, <2>1, <2>4, <2>6
<1>5. ASSUME NEW event \in Events, AddsUnlabeled(event)
      PROVE  ArchiveInv'
  <2> DEFINE p == Pushed(manager, Feature(event), NoLabel)
  <2>1. /\ manager'.labeled = manager.labeled
        /\ manager'.unlabeled = manager.unlabeled \o p
        /\ event = Last(events) /\ events # <<>> /\ events' = Front(events)
        /\ getEventLabel(event) = NoLabel
        /\ UNCHANGED <<directory, pc, uuid>>
    BY <1>5, AddedUnlabeled
  <2>2. event \in DOMAIN directory
    BY <2>1, PopKeepsLoaded
  <2>3. /\ p \in Seq(UnlabeledEntries(DOMAIN directory)) /\ Len(p) \in {1, 2}
        /\ p[1].event = event
    BY <2>2, PushedIs
  <2> HIDE DEF p
  <2>4. Range(manager'.unlabeled) = Range(manager.unlabeled) \union Range(p)
    BY <1>1, <2>1, <2>3, RangeGrows
  <2>5. p[1] \in Range(p)
    BY <2>3, InRange
  <2>6. IsArchived(manager', event)
    BY <2>1, <2>3, <2>4, <2>5 DEF IsArchived
  <2> QED
    BY <1>3, <1>5, <2>1, <2>4, <2>6
<1>6. CASE LoadThrows \/ StopAnalyzingWhenDone
  <2>1. /\ Archiving /\ (pc' = "archived" => events = <<>>)
        /\ UNCHANGED <<uuid, events, manager>>
    BY <1>6 DEF LoadThrows, StopAnalyzingWhenDone, StackIsEmpty, setupVars, Archiving
  <2> QED
    BY <2>1 DEF ArchiveInv
<1>7. ASSUME NEW event \in Events, MatrixAborts(event) \/ ExtractionFails(event)
      PROVE  ArchiveInv'
  <2>1. pc' \in {"undefined", "aborted"}
    BY <1>7 DEF MatrixAborts, ExtractionFails, Terminates, Extracts, Processes,
                Extraction
  <2> QED
    BY <2>1 DEF ArchiveInv, Archiving
<1>8. CASE Validation \/ Visualization
  <2>1. pc' \in {"validating", "validated", "aborted", "printed"}
    BY <1>8 DEF Validation, InitLabelManagerWithoutMisdetected, ValidatePartition,
                Visualization, PerformValidationResultsVisualisation,
                PerformVisualisation
  <2> QED
    BY <2>1 DEF ArchiveInv, Archiving
<1> QED
  BY <1>2, <1>4, <1>5, <1>6, <1>7, <1>8 DEF Next, Setup

-----------------------------------------------------------------------------
\* Loading ends at the first gap, and archiving with an empty stack
LEMMA ArchiveFollows ==
  ASSUME LoadedInv, ArchiveInv
  PROVE  ArchiveIsComplete
<1>1. SUFFICES ASSUME pc = "archived", NEW event \in DOMAIN directory,
                      0..event \subseteq DOMAIN directory
               PROVE  IsArchived(manager, event)
  BY DEF ArchiveIsComplete, IsArchived
<1>2. event \in Nat /\ uuid \in Nat /\ uuid \notin DOMAIN directory
  BY <1>1, DirectoryIs DEF LoadedInv, HasFile
<1>3. event \in 0..uuid - 1
  BY <1>1, <1>2
<1>4. events = <<>> /\ (event \in Range(events) \/ IsArchived(manager, event))
  BY <1>1, <1>3 DEF ArchiveInv, Archiving
<1>5. Range(<<>>) = {}
  BY DEF Range
<1> QED
  BY <1>4, <1>5

-----------------------------------------------------------------------------
(* Partitions of labeled events.                                           *)

Prefix(s, k) == [i \in 1..k |-> s[i]]

Singles(s, k) == [i \in 1..k |-> <<s[i]>>]

\* Beginnings of a sequence, and their entries one by one
LEMMA PrefixIs ==
  ASSUME NEW S, NEW s \in Seq(S), NEW k \in 0..Len(s)
  PROVE  /\ Prefix(s, k) \in Seq(S) /\ Len(Prefix(s, k)) = k
         /\ Singles(s, k) \in Seq(Seq(S)) /\ Len(Singles(s, k)) = k
         /\ k \in Nat
<1>1. k \in Nat /\ \A i \in 1..k : s[i] \in S /\ <<s[i]>> \in Seq(S)
  OBVIOUS
<1>2. Prefix(s, k) \in [1..k -> S] /\ Singles(s, k) \in [1..k -> Seq(S)]
  BY <1>1 DEF Prefix, Singles
<1> QED
  BY <1>1, <1>2

\* Flattening entries one by one gives the entries
LEMMA FlattenSingles ==
  ASSUME NEW S, NEW s \in Seq(S)
  PROVE  \A k \in 0..Len(s) : FlattenSeq(Singles(s, k)) = Prefix(s, k)
<1> DEFINE T == {k \in 0..Len(s) : FlattenSeq(Singles(s, k)) # Prefix(s, k)}
<1>1. SUFFICES ASSUME T # {}
               PROVE  FALSE
  OBVIOUS
<1>2. T \subseteq Nat
  OBVIOUS
<1>3. PICK k \in T : \A i \in T : k <= i
  BY <1>1, <1>2, LeastExists
<1>4. k \in 0..Len(s) /\ k \in Nat /\ FlattenSeq(Singles(s, k)) # Prefix(s, k)
  OBVIOUS
<1>5. CASE k = 0
  <2>1. Singles(s, 0) = <<>> /\ Prefix(s, 0) = <<>>
    BY DEF Singles, Prefix
  <2> QED
    BY <1>4, <1>5, <2>1, FlattenNothing, Zenon
<1>6. CASE k # 0
  <2>1. k - 1 \in 0..Len(s) /\ k - 1 \in Nat /\ k - 1 \notin T /\ k \in 1..k
    BY <1>3, <1>4, <1>6
  <2>2. FlattenSeq(Singles(s, k - 1)) = Prefix(s, k - 1)
    BY <2>1
  <2>3. /\ Singles(s, k) \in Seq(Seq(S)) /\ Len(Singles(s, k)) = k
        /\ Singles(s, k - 1) \in Seq(Seq(S)) /\ Len(Singles(s, k - 1)) = k - 1
        /\ Prefix(s, k - 1) \in Seq(S) /\ Len(Prefix(s, k - 1)) = k - 1
        /\ Prefix(s, k) \in Seq(S) /\ Len(Prefix(s, k)) = k
    BY <1>4, <2>1, PrefixIs
  <2>4. \A i \in 1..k - 1 : Singles(s, k - 1)[i] = Singles(s, k)[i]
    BY <1>4, <2>1 DEF Singles
  <2>5. Singles(s, k)[k] = <<s[k]>> /\ s[k] \in S
    BY <1>4, <2>1 DEF Singles
  <2>6. FlattenSeq(Singles(s, k)) = FlattenSeq(Singles(s, k - 1)) \o Singles(s, k)[k]
    <3>1. PICK a, b : a = Singles(s, k - 1) /\ b = Singles(s, k)
      OBVIOUS
    <3>2. /\ a \in Seq(Seq(S)) /\ b \in Seq(Seq(S)) /\ Len(b) = Len(a) + 1
          /\ \A i \in 1..Len(a) : a[i] = b[i] /\ Len(b) = k
      BY <1>4, <2>3, <2>4, <3>1
    <3>3. Len(b) = k
      BY <2>3, <3>1
    <3>4. FlattenSeq(b) = FlattenSeq(a) \o b[Len(b)]
      BY <3>2, FlattenStep
    <3> QED
      BY <3>1, <3>3, <3>4, Zenon
  <2>7. Prefix(s, k - 1) \o <<s[k]>> = Prefix(s, k)
    <3>1. PICK a, b : a = Prefix(s, k - 1) /\ b = Prefix(s, k)
      OBVIOUS
    <3>2. /\ a \in Seq(S) /\ Len(a) = k - 1 /\ b \in Seq(S) /\ Len(b) = k
          /\ \A i \in 1..k - 1 : a[i] = b[i] /\ b[k] = s[k]
      BY <1>4, <2>1, <2>3, <3>1 DEF Prefix
    <3>3. b[k] = s[k]
      BY <1>4, <2>1, <3>1 DEF Prefix
    <3>4. a \o <<s[k]>> = b
      BY <1>4, <2>5, <3>2, <3>3
    <3> QED
      BY <3>1, <3>4
  <2> QED
    BY <1>4, <2>2, <2>5, <2>6, <2>7, Zenon
<1> QED
  BY <1>5, <1>6

\* The longest beginning
LEMMA PrefixOfAll ==
  ASSUME NEW S, NEW s \in Seq(S)
  PROVE  Prefix(s, Len(s)) = s
BY DEF Prefix

\* Products of natural numbers
LEMMA Multiplication ==
  /\ \A a, b, e \in Nat : a <= b => a * e <= b * e /\ e * a <= e * b
  /\ \A a, e \in Nat : /\ (a + 1) * e = a * e + e /\ a * e \in Nat
                       /\ e * (a + 1) = e * a + e /\ e * a = a * e
OBVIOUS

\* Partitions of n that are rounded down
LEMMA Division ==
  ASSUME NEW n \in Nat, NEW P \in Nat \ {0}
  PROVE  /\ n \div P \in Nat
         /\ P * (n \div P) <= n /\ n - P * (n \div P) < P
         /\ n < P => n \div P = 0
         /\ n - P * (n \div P) = n % P
OBVIOUS

\* The end of a partition is not cut off
LEMMA MinOfTwo ==
  ASSUME NEW n \in Int, NEW q \in Int, q <= n
  PROVE  Min({n, q}) = q
<1>1. \A x \in {n, q} : (\A y \in {n, q} : x <= y) => x = q
  OBVIOUS
<1>2. q \in {n, q} /\ \A y \in {n, q} : q <= y
  OBVIOUS
<1> QED
  BY <1>1, <1>2, Zenon DEF Min

\* A partition is a stretch of the labeled events
LEMMA PartitionIs ==
  ASSUME NEW S, NEW s \in Seq(S), NEW part \in Nat, part < Partitions
  PROVE  LET e == elements_per_partition(s)
         IN  /\ e \in Nat /\ Partitions * e <= Len(s)
             /\ Len(s) - Partitions * e < Partitions
             /\ EndOfPartition(s, part) = e * part + e
             /\ e * part + e <= Partitions * e /\ e * part \in Nat
             /\ getPartition(s, part) \in Seq(S)
             /\ Len(getPartition(s, part)) = e
             /\ \A i \in 1..e : getPartition(s, part)[i] = s[e * part + i]
             /\ Len(s) <= K => e = 0
<1> DEFINE e == elements_per_partition(s)
           n == Len(s)
           g == getPartition(s, part)
<1>1. n \in Nat /\ Partitions \in Nat \ {0} /\ K \in Nat /\ K < Partitions
  BY ExperimentAssumption
<1>2. /\ e \in Nat /\ Partitions * e <= n /\ n - Partitions * e < Partitions
      /\ n < Partitions => e = 0
  BY <1>1, Division DEF elements_per_partition
<1>3. EndOfPartition(s, part) = Min({n, (part + 1) * e})
  BY DEF EndOfPartition
<1>4. g = SubSeq(s, e * part + 1, EndOfPartition(s, part))
  BY DEF getPartition
<1> HIDE DEF e, n, g
<1>5. part + 1 \in Nat /\ part + 1 <= Partitions
  BY <1>1
<1>6. /\ (part + 1) * e <= Partitions * e /\ (part + 1) * e = e * part + e
      /\ e * part \in Nat /\ Partitions * e \in Nat
  <2>1. (part + 1) * e <= Partitions * e
    BY <1>1, <1>2, <1>5, Multiplication, Zenon
  <2>2. (part + 1) * e = part * e + e /\ part * e = e * part /\ e * part \in Nat
    BY <1>2, Multiplication
  <2>3. Partitions * e \in Nat
    BY <1>1, <1>2
  <2> QED
    BY <2>1, <2>2, <2>3
<1> DEFINE b == e * part
<1>7. PICK c : c = b
  OBVIOUS
<1>8. EndOfPartition(s, part) = c + e /\ c \in Nat /\ c + e <= Partitions * e
  <2>1. c \in Nat /\ (part + 1) * e = c + e /\ c + e <= Partitions * e
    BY <1>6, <1>7
  <2>2. c + e <= n /\ c + e \in Int /\ n \in Int
    BY <1>1, <1>2, <1>6, <2>1
  <2> QED
    BY <1>3, <2>1, <2>2, MinOfTwo
<1>9. /\ g \in Seq(S) /\ Len(g) = e
      /\ \A i \in 1..e : g[i] = s[c + i]
  <2>1. g = SubSeq(s, c + 1, c + e)
    BY <1>4, <1>7, <1>8
  <2>2. c + e <= n /\ c + 1 \in Int /\ c + e \in Int /\ c + e - (c + 1) + 1 = e
    BY <1>1, <1>2, <1>6, <1>8
  <2>3. \A i \in c + 1..c + e : s[i] \in S
    <3>1. \A i \in c + 1..c + e : i \in 1..Len(s)
      BY <1>1, <1>2, <1>8, <2>2 DEF n
    <3> QED
      BY <3>1, ElementOfSeq
  <2>4. PICK x, y : x = c + 1 /\ y = c + e
    OBVIOUS
  <2>5. x \in Int /\ y \in Int /\ \A i \in x..y : s[i] \in S
    BY <2>2, <2>3, <2>4, Zenon
  <2>6. /\ SubSeq(s, x, y) \in Seq(S)
        /\ Len(SubSeq(s, x, y)) = IF x <= y THEN y - x + 1 ELSE 0
        /\ \A i \in 1..y - x + 1 : SubSeq(s, x, y)[i] = s[x + i - 1]
    BY <2>5, SubSeqProperties
  <2>7. g = SubSeq(s, x, y)
    BY <2>1, <2>4, Zenon
  <2>8. Len(g) = e
    BY <1>2, <1>8, <2>4, <2>6, <2>7
  <2>9. \A i \in 1..e : g[i] = s[c + i]
    <3>1. TAKE i \in 1..e
    <3>2. x + i - 1 = c + i /\ i \in 1..y - x + 1
      BY <1>2, <1>8, <2>4
    <3> QED
      BY <2>6, <2>7, <3>2
  <2> QED
    BY <2>6, <2>7, <2>8, <2>9
<1>10. n <= K => e = 0
  BY <1>1, <1>2
<1> QED
  BY <1>2, <1>6, <1>7, <1>8, <1>9, <1>10 DEF e, n, g

-----------------------------------------------------------------------------
(* Every test is classified as what it is.                                 *)

\* Every test gets one result, the event as it was
LEMMA TestIsClassified ==
  ASSUME LabeledInv, NEW part \in Nat, part < Partitions, NEW class,
         NEW test, test = getPartition(manager.labeled, part)
  PROVE  FlattenSeq([i \in DOMAIN test |->
                       Pushed(manager, test[i], class[i])]) = test
<1> DEFINE s == manager.labeled
           e == elements_per_partition(s)
           S == LabeledEntries(DOMAIN directory)
           n == Len(s)
<1>1. s \in Seq(S) /\ Consistent(s, directory) /\ n \in Nat
  BY DEF LabeledInv
<1>2. PICK c \in Nat : c = e * part
  BY <1>1, PartitionIs, Zenon
<1>3. /\ e \in Nat /\ c + e <= Partitions * e /\ Partitions * e <= n
      /\ test \in Seq(S) /\ Len(test) = e
      /\ \A i \in 1..e : test[i] = s[c + i]
      /\ n <= K => e = 0
  BY <1>1, <1>2, PartitionIs
<1> HIDE DEF e, n, S, s
<1>4. Partitions * e \in Nat /\ K \in Nat /\ c \in Nat
  BY <1>2, <1>3, ExperimentAssumption
<1>5. DOMAIN test = 1..e
  BY <1>3
<1>6. ASSUME NEW i \in 1..e
      PROVE  Pushed(manager, test[i], class[i]) = <<test[i]>>
  <2>1. /\ c + i \in 1..n /\ n \in 1..n /\ n > K
    BY <1>1, <1>3, <1>4
  <2>2. MatrixRows(manager) = NumberOfFeatures(directory[s[n].event])
    BY Zenon DEF MatrixRows, FeatureCount, s, n, Last
  <2>3. FeatureCount(test[i].event) = NumberOfFeatures(directory[s[c + i].event])
    BY <1>3, Zenon DEF FeatureCount
  <2>4. NumberOfFeatures(directory[s[c + i].event])
          = NumberOfFeatures(directory[s[n].event])
    BY <1>1, <2>1, Zenon DEF Consistent, n
  <2>5. CanClassify(manager, test[i])
    BY <2>1, <2>2, <2>3, <2>4, Zenon DEF CanClassify, s, n
  <2> QED
    BY <2>5, Zenon DEF Pushed, Dropped
<1>7. [i \in DOMAIN test |-> Pushed(manager, test[i], class[i])] = Singles(test, e)
  BY <1>5, <1>6, Zenon DEF Singles
<1>8. e \in 0..Len(test)
  BY <1>3
<1>9. FlattenSeq(Singles(test, e)) = Prefix(test, e)
  BY <1>3, <1>8, FlattenSingles, Zenon
<1>10. Prefix(test, e) = test
  BY <1>3, PrefixOfAll, Zenon
<1> QED
  BY <1>7, <1>9, <1>10, Zenon

\* What a turn adds to the results
LEMMA ValidatedIs ==
  ASSUME LabeledInv, ResultsInv, ValidatePartition
  PROVE  LET test == getPartition(manager.labeled, partition)
         IN  /\ results' = Append(results, Guesses(test, Len(test)))
             /\ pc' = IF partition + 1 = Partitions THEN "validated"
                      ELSE "validating"
             /\ partition \in Nat /\ partition < Partitions
             /\ partition' = partition + 1 /\ Len(results) = partition
             /\ UNCHANGED <<directory, uuid, events, calculator, manager, output>>
<1> DEFINE s == manager.labeled
           test == getPartition(s, partition)
<1>1. pc = "validating" /\ partition' = partition + 1
      /\ UNCHANGED <<directory, uuid, events, calculator, manager, output>>
  BY DEF ValidatePartition, setupVars
<1>2. results \in Seq(Seq(GuessesOf(LabeledEntries(DOMAIN directory))))
  BY DEF ResultsInv
<1>3. partition \in Nat /\ partition < Partitions /\ Len(results) = partition
  BY <1>1, <1>2 DEF ResultsInv
<1>4. s \in Seq(LabeledEntries(DOMAIN directory))
  BY DEF LabeledInv
<1> DEFINE turn(classified) ==
             IF Len(classified) = Len(test)
               THEN /\ results' = Append(results, validatePartition(test, classified))
                    /\ pc' = IF partition + 1 = Partitions THEN "validated" ELSE pc
               ELSE pc' = "aborted" /\ UNCHANGED results
<1>5. PICK class : turn(FlattenSeq([i \in DOMAIN test |->
                                      Pushed(manager, test[i], class[i])]))
  BY Zenon DEF ValidatePartition
<1>6. FlattenSeq([i \in DOMAIN test |-> Pushed(manager, test[i], class[i])]) = test
  BY <1>3, TestIsClassified
<1>7. turn(test)
  <2> HIDE DEF test, turn
  <2> QED
    BY <1>5, <1>6, Zenon
<1>8. DOMAIN test = 1..Len(test)
  BY <1>3, <1>4, PartitionIs
<1>9. validatePartition(test, test) = Guesses(test, Len(test))
  <2> HIDE DEF test
  <2> QED
    BY <1>8, Zenon DEF validatePartition, Guesses
<1> HIDE DEF test
<1>10. /\ results' = Append(results, Guesses(test, Len(test)))
       /\ pc' = IF partition + 1 = Partitions THEN "validated" ELSE pc
  BY <1>7, <1>9
<1> QED
  BY <1>1, <1>3, <1>10 DEF test

\* Guesses, entry by entry
LEMMA GuessesAre ==
  ASSUME NEW S, NEW s \in Seq(S), NEW k \in 0..Len(s)
  PROVE  /\ Guesses(s, k) \in Seq(GuessesOf(S)) /\ Len(Guesses(s, k)) = k
         /\ k \in Nat
         /\ \A i \in 1..k : Guesses(s, k)[i] = Guess(s[i], s[i])
<1>1. k \in Nat /\ \A i \in 1..k : s[i] \in S
  OBVIOUS
<1>2. \A i \in 1..k : Guess(s[i], s[i]) \in GuessesOf(S)
  BY <1>1, Zenon DEF GuessesOf
<1>3. Guesses(s, k) \in [1..k -> GuessesOf(S)]
  BY <1>2 DEF Guesses
<1>4. Guesses(s, k) \in Seq(GuessesOf(S)) /\ Len(Guesses(s, k)) = k
  BY <1>1, <1>3
<1> QED
  BY <1>1, <1>4 DEF Guesses

\* Guesses on consecutive stretches are guesses on what they make up
LEMMA GuessesConcat ==
  ASSUME NEW S, NEW s \in Seq(S), NEW g \in Seq(S), NEW c \in Nat,
         c + Len(g) <= Len(s), \A i \in 1..Len(g) : g[i] = s[c + i]
  PROVE  Guesses(s, c) \o Guesses(g, Len(g)) = Guesses(s, c + Len(g))
<1> DEFINE e == Len(g)
<1>1. e \in Nat /\ c \in 0..Len(s) /\ c + e \in 0..Len(s) /\ e \in 0..Len(g)
  OBVIOUS
<1>2. PICK a, b, t : a = Guesses(s, c) /\ b = Guesses(g, e) /\ t = Guesses(s, c + e)
  OBVIOUS
<1>3. /\ a \in Seq(GuessesOf(S)) /\ Len(a) = c
      /\ \A i \in 1..c : a[i] = Guess(s[i], s[i])
  BY <1>1, <1>2, GuessesAre, Zenon
<1>4. /\ b \in Seq(GuessesOf(S)) /\ Len(b) = e
      /\ \A i \in 1..e : b[i] = Guess(g[i], g[i])
  BY <1>1, <1>2, GuessesAre, Zenon
<1>5. /\ t \in Seq(GuessesOf(S)) /\ Len(t) = c + e
      /\ \A i \in 1..c + e : t[i] = Guess(s[i], s[i])
  BY <1>1, <1>2, GuessesAre, Zenon
<1> HIDE DEF e
<1>6. /\ a \o b \in Seq(GuessesOf(S)) /\ Len(a \o b) = c + e
      /\ \A i \in 1..c + e : (a \o b)[i] = IF i <= c THEN a[i] ELSE b[i - c]
  <2>1. /\ a \o b \in Seq(GuessesOf(S)) /\ Len(a \o b) = Len(a) + Len(b)
        /\ \A i \in 1..Len(a) + Len(b) :
             (a \o b)[i] = IF i <= Len(a) THEN a[i] ELSE b[i - Len(a)]
    BY <1>3, <1>4, ConcatProperties
  <2> QED
    BY <1>3, <1>4, <2>1
<1>7. \A i \in 1..c + e : (a \o b)[i] = t[i]
  <2>1. TAKE i \in 1..c + e
  <2>2. CASE i <= c
    <3>1. i \in 1..c
      BY <1>1, <2>2
    <3> QED
      BY <1>3, <1>5, <1>6, <2>2, <3>1, Zenon
  <2>3. CASE ~(i <= c)
    <3>1. i - c \in 1..e /\ c + (i - c) = i
      BY <1>1, <2>3
    <3>2. g[i - c] = s[i]
      BY <3>1 DEF e
    <3> QED
      BY <1>4, <1>5, <1>6, <2>3, <3>1, <3>2, Zenon
  <2> QED
    BY <2>2, <2>3
<1>8. a \o b = t
  <2>1. PICK ab : ab = a \o b
    OBVIOUS
  <2>2. /\ ab \in Seq(GuessesOf(S)) /\ Len(ab) = Len(t)
        /\ \A i \in 1..Len(ab) : ab[i] = t[i]
    BY <1>5, <1>6, <1>7, <2>1
  <2> QED
    BY <1>5, <2>1, <2>2, SeqEqual
<1> QED
  BY <1>2, <1>8 DEF e

\* A turn adds the next stretch
LEMMA ValidateKeepsResults ==
  ASSUME LabeledInv, ResultsInv, ValidatePartition
  PROVE  ResultsInv'
<1> DEFINE s == manager.labeled
           test == getPartition(s, partition)
           S == LabeledEntries(DOMAIN directory)
           e == elements_per_partition(s)
           G == GuessesOf(S)
<1>1. /\ results' = Append(results, Guesses(test, Len(test)))
      /\ pc' = IF partition + 1 = Partitions THEN "validated" ELSE "validating"
      /\ partition \in Nat /\ partition < Partitions
      /\ partition' = partition + 1 /\ Len(results) = partition
      /\ directory' = directory /\ manager' = manager
  BY ValidatedIs
<1>2. s \in Seq(S) /\ Partitions \in Nat
  BY ExperimentAssumption DEF LabeledInv
<1>3. results \in Seq(Seq(G)) /\ FlattenSeq(results) = Guesses(s, e * partition)
  BY <1>1 DEF ResultsInv
<1> HIDE DEF s
<1>4. /\ e \in Nat /\ e * partition \in Nat
      /\ e * partition + e <= Len(s)
      /\ test \in Seq(S) /\ Len(test) = e
      /\ \A i \in 1..e : test[i] = s[e * partition + i]
  <2>1. /\ e \in Nat /\ Partitions * e <= Len(s)
        /\ e * partition + e <= Partitions * e /\ e * partition \in Nat
        /\ test \in Seq(S) /\ Len(test) = e
        /\ \A i \in 1..e : test[i] = s[e * partition + i]
    BY <1>1, <1>2, PartitionIs
  <2>2. PICK c, q : c = e * partition /\ q = Partitions * e
    OBVIOUS
  <2>3. c \in Nat /\ q \in Nat /\ Len(s) \in Nat
    BY <1>2, <2>1, <2>2
  <2>4. c + e <= Len(s)
    <3> HIDE DEF e
    <3> QED
      BY <2>1, <2>2, <2>3
  <2> QED
    BY <2>1, <2>2, <2>4, Zenon
<1> HIDE DEF test, e
<1>5. Guesses(test, e) \in Seq(G) /\ Len(Guesses(test, e)) = e
  <2>1. e \in 0..Len(test)
    BY <1>4
  <2> QED
    BY <1>4, <2>1, GuessesAre
<1> HIDE DEF G
<1>6. /\ results' \in Seq(Seq(G)) /\ Len(results') = Len(results) + 1
      /\ \A i \in 1..Len(results) : results[i] = results'[i]
      /\ results'[Len(results')] = Guesses(test, e)
  BY <1>1, <1>3, <1>4, <1>5, Appended
<1>7. FlattenSeq(results') = FlattenSeq(results) \o Guesses(test, e)
  <2>1. PICK r, t : r = results /\ t = results'
    OBVIOUS
  <2>2. /\ r \in Seq(Seq(G)) /\ t \in Seq(Seq(G)) /\ Len(t) = Len(r) + 1
        /\ \A i \in 1..Len(r) : r[i] = t[i]
    BY <1>3, <1>6, <2>1
  <2>3. FlattenSeq(t) = FlattenSeq(r) \o t[Len(t)]
    BY <2>2, FlattenStep
  <2> QED
    BY <1>6, <2>1, <2>3, Zenon
<1>8. FlattenSeq(results') = Guesses(s, e * partition + e)
  <2>1. PICK c \in Nat : c = e * partition
    BY <1>4
  <2>2. Guesses(s, c) \o Guesses(test, e) = Guesses(s, c + e)
    BY <1>2, <1>4, <2>1, GuessesConcat
  <2> QED
    BY <1>3, <1>7, <2>1, <2>2, Zenon
<1>9. e * partition + e = e * (partition + 1) /\ Len(results') = partition + 1
  BY <1>1, <1>4, <1>6, Multiplication
<1>10. FlattenSeq(results') = Guesses(s, e * Len(results'))
  BY <1>8, <1>9, Zenon
<1>11. FlattenSeq(results)'
         = Guesses(manager'.labeled,
                   elements_per_partition(manager'.labeled) * Len(results'))
  BY <1>1, <1>10, Zenon DEF e, s
<1>12. /\ ~Archiving' /\ Len(results') <= Partitions
       /\ pc' = "validating" => Len(results') = partition' /\ partition' < Partitions
       /\ pc' = "validated" => Len(results') = Partitions
  BY <1>1, <1>2, <1>9 DEF Archiving
<1>13. results' \in Seq(Seq(GuessesOf(LabeledEntries(DOMAIN directory'))))
  BY <1>1, <1>6 DEF G
<1> QED
  BY <1>11, <1>12, <1>13 DEF ResultsInv

\* No results before the first turn
LEMMA NoGuesses ==
  ASSUME NEW s, NEW S, s \in Seq(S)
  PROVE  Guesses(s, elements_per_partition(s) * 0) = <<>>
<1>1. Len(s) \in Nat /\ Partitions \in Nat \ {0}
  BY ExperimentAssumption
<1>2. elements_per_partition(s) \in Nat
  BY <1>1, Division DEF elements_per_partition
<1>3. elements_per_partition(s) * 0 = 0
  BY <1>2
<1>4. Guesses(s, 0) = <<>>
  BY DEF Guesses
<1> QED
  BY <1>3, <1>4, Zenon

\* The results are a beginning of the shuffled events
LEMMA ResultsStep ==
  ASSUME LoadedInv, LabeledInv, LabeledInv', ResultsInv, Next
  PROVE  ResultsInv'
<1>1. ASSUME Archiving, pc' # "validated",
             UNCHANGED <<directory, partition, results>>
      PROVE  ResultsInv'
  <2>1. results = <<>> /\ partition = 0 /\ Len(results) = 0
    BY <1>1 DEF ResultsInv
  <2>2. manager'.labeled \in Seq(LabeledEntries(DOMAIN directory))
    BY <1>1 DEF LabeledInv
  <2>3. Guesses(manager'.labeled, elements_per_partition(manager'.labeled) * 0) = <<>>
    BY <2>2, NoGuesses
  <2>4. FlattenSeq(results') =
          Guesses(manager'.labeled,
                  elements_per_partition(manager'.labeled) * Len(results'))
    BY <1>1, <2>1, <2>3, FlattenNothing, Zenon
  <2>5. /\ results' \in Seq(Seq(GuessesOf(LabeledEntries(DOMAIN directory'))))
        /\ Partitions \in Nat \ {0}
    BY <1>1, ExperimentAssumption DEF ResultsInv
  <2>6. /\ Archiving' => results' = <<>> /\ partition' = 0
        /\ pc' = "validating" => Len(results') = partition' /\ partition' < Partitions
        /\ pc' = "validated" => Len(results') = Partitions
        /\ Len(results') <= Partitions
    BY <1>1, <2>1, <2>5
  <2>7. FlattenSeq(results)'
         = Guesses(manager'.labeled,
                   elements_per_partition(manager'.labeled) * Len(results'))
    BY <2>4
  <2> QED
    BY <2>5, <2>6, <2>7 DEF ResultsInv
<1>2. ASSUME pc' \notin {"loading", "stopping", "archived", "validating", "validated"},
             UNCHANGED <<directory, manager, results>>
      PROVE  ResultsInv'
  <2>1. FlattenSeq(results)'
         = Guesses(manager'.labeled,
                   elements_per_partition(manager'.labeled) * Len(results'))
    BY <1>2 DEF ResultsInv
  <2> QED
    BY <1>2, <2>1 DEF ResultsInv, Archiving
<1>3. CASE LoadEvent \/ LoadThrows \/ StopAnalyzingWhenDone
  <2>1. /\ Archiving /\ pc' # "validated"
        /\ UNCHANGED <<directory, partition, results>>
    BY <1>3 DEF LoadEvent, LoadThrows, StopAnalyzingWhenDone, validationVars,
                Archiving
  <2> QED
    BY <1>1, <2>1
<1>4. ASSUME NEW event \in Events, AddsLabeled(event) \/ AddsUnlabeled(event)
      PROVE  ResultsInv'
  <2>1. /\ Archiving /\ pc' # "validated"
        /\ UNCHANGED <<directory, partition, results>>
    BY <1>4 DEF AddsLabeled, AddsUnlabeled, Extracts, Processes, ExtractedAndPopped,
                validationVars, Archiving
  <2> QED
    BY <1>1, <2>1
<1>5. ASSUME NEW event \in Events, MatrixAborts(event) \/ ExtractionFails(event)
      PROVE  ResultsInv'
  <2>1. /\ pc' \in {"undefined", "aborted"}
        /\ UNCHANGED <<directory, manager, results>>
    BY <1>5 DEF MatrixAborts, ExtractionFails, Terminates, Extracts, Processes,
                Extraction, validationVars
  <2> QED
    BY <1>2, <2>1
<1>6. CASE InitLabelManagerWithoutMisdetected
  <2>1. /\ Archiving /\ pc' # "validated"
        /\ UNCHANGED <<directory, partition, results>>
    BY <1>6 DEF InitLabelManagerWithoutMisdetected, validationVars, Archiving
  <2> QED
    BY <1>1, <2>1
<1>7. CASE Visualization
  <2>1. pc' = "printed" /\ UNCHANGED <<directory, manager, results>>
    BY <1>7 DEF Visualization, PerformValidationResultsVisualisation,
                PerformVisualisation, validationVars
  <2> QED
    BY <1>2, <2>1
<1> QED
  BY <1>3, <1>4, <1>5, <1>6, <1>7, ValidateKeepsResults DEF Next, Setup, Validation

-----------------------------------------------------------------------------
(* Cross validation tests no event twice.                                  *)

\* The events in the first n guesses
TestedIn(s, n) == {s[i].event : i \in 1..n}

\* The tested events are the first labeled ones
LEMMA TestedIs ==
  ASSUME LabeledInv, ResultsInv
  PROVE  LET s == manager.labeled
             n == elements_per_partition(s) * Len(results)
         IN  /\ n \in 0..Len(s) /\ n \in Nat /\ Len(s) \in Nat
             /\ FlattenSeq(results) = Guesses(s, n)
             /\ Len(FlattenSeq(results)) = n
             /\ \A i \in 1..n : FlattenSeq(results)[i] = Guess(s[i], s[i])
             /\ Tested = TestedIn(s, n)
             /\ s \in Seq(LabeledEntries(DOMAIN directory))
<1> DEFINE s == manager.labeled
           e == elements_per_partition(s)
           all == FlattenSeq(results)
<1>1. PICK n : n = e * Len(results)
  OBVIOUS
<1>2. s \in Seq(LabeledEntries(DOMAIN directory))
  BY DEF LabeledInv
<1>3. /\ results \in Seq(Seq(GuessesOf(LabeledEntries(DOMAIN directory))))
      /\ Len(results) <= Partitions /\ all = Guesses(s, n)
  BY <1>1 DEF ResultsInv
<1>4. /\ Len(s) \in Nat /\ Len(results) \in Nat /\ Partitions \in Nat \ {0}
  BY <1>2, <1>3, ExperimentAssumption
<1>5. e \in Nat /\ Partitions * e <= Len(s)
  BY <1>4, Division DEF elements_per_partition
<1> HIDE DEF s, e, all
<1>6. n \in 0..Len(s) /\ n \in Nat
  <2>1. e * Len(results) <= e * Partitions /\ e * Partitions = Partitions * e
    BY <1>3, <1>4, <1>5, Multiplication
  <2>2. n \in Nat /\ Partitions * e \in Nat
    BY <1>1, <1>4, <1>5, Multiplication
  <2> QED
    BY <1>1, <1>4, <1>5, <2>1, <2>2
<1>7. /\ all \in Seq(GuessesOf(LabeledEntries(DOMAIN directory)))
      /\ Len(all) = n
      /\ \A i \in 1..n : all[i] = Guess(s[i], s[i])
  BY <1>2, <1>3, <1>6, GuessesAre, Zenon
<1>8. Tested = TestedIn(s, n)
  <2>1. \A x : x \in Range(all) <=> \E i \in 1..Len(all) : x = all[i]
    BY <1>7, InRange
  <2>2. \A i \in 1..n : all[i].event_id = s[i].event
    BY <1>7 DEF Guess
  <2>3. \A x : x \in Range(all) <=> \E i \in 1..n : x = all[i]
    BY <1>7, <2>1, Zenon
  <2>4. Tested = {g.event_id : g \in Range(all)}
    BY DEF Tested, all
  <2>5. Tested = {all[i].event_id : i \in 1..n}
    BY <2>3, <2>4
  <2> QED
    BY <2>2, <2>5 DEF TestedIn
<1> QED
  BY <1>1, <1>2, <1>3, <1>4, <1>6, <1>7, <1>8 DEF s, e, all

\* The first n numbers are n
LEMMA PositionsCounted ==
  ASSUME NEW n \in Nat
  PROVE  IsFiniteSet(1..n) /\ Cardinality(1..n) = n
<1>1. 1 \in Int /\ n \in Int
  OBVIOUS
<1> QED
  BY <1>1, FS_Interval

\* An injective function on the first n numbers has n values
Distinct(f, n) == \A i, j \in 1..n : f[i] = f[j] => i = j

\* f has n values
LEMMA ValuesCounted ==
  ASSUME NEW n \in Nat, NEW T, NEW f \in [1..n -> T], Distinct(f, n),
         \A x \in T : \E i \in 1..n : x = f[i]
  PROVE  IsFiniteSet(T) /\ Cardinality(T) = n
<1>1. IsFiniteSet(1..n) /\ Cardinality(1..n) = n
  BY PositionsCounted
<1>2. f \in Bijection(1..n, T)
  BY DEF Distinct, Bijection, Injection, Surjection, IsInjective
<1>3. ExistsBijection(1..n, T)
  BY <1>2 DEF ExistsBijection
<1>4. IsFiniteSet(T) /\ Cardinality(T) = Cardinality(1..n)
  BY <1>1, <1>3, FS_Bijection
<1> QED
  BY <1>1, <1>4

\* Tested events differ, and those left out are the remainder
LEMMA TestedFollows ==
  ASSUME LabeledInv, ResultsInv
  PROVE  TestedOnce
<1> DEFINE s == manager.labeled
           e == elements_per_partition(s)
<1>1. PICK n : n = e * Len(results)
  OBVIOUS
<1>2. /\ n \in 0..Len(s) /\ n \in Nat /\ Len(s) \in Nat
      /\ Len(FlattenSeq(results)) = n /\ Tested = TestedIn(s, n)
  BY <1>1, TestedIs
<1>3. \A i, j \in 1..Len(s) : s[i].event = s[j].event => i = j
  BY DEF LabeledInv, Consistent
<1>4. PICK f : f = [i \in 1..n |-> s[i].event]
  OBVIOUS
<1>5. f = [i \in 1..n |-> f[i]] /\ \A i \in 1..n : f[i] = s[i].event
  BY <1>4
<1>6. PICK T : T = TestedIn(s, n)
  OBVIOUS
<1>7. Cardinality(Tested) = n
  <2>1. f \in [1..n -> T] /\ Distinct(f, n)
    BY <1>2, <1>3, <1>5, <1>6 DEF TestedIn, Distinct
  <2>2. \A x \in T : \E i \in 1..n : x = f[i]
    BY <1>5, <1>6 DEF TestedIn
  <2>3. Cardinality(T) = n
    BY <1>2, <2>1, <2>2, ValuesCounted
  <2> QED
    BY <1>2, <1>6, <2>3
<1>8. ASSUME pc = "validated"
      PROVE  Len(s) - n < Partitions
  <2>1. Len(results) = Partitions /\ Partitions \in Nat \ {0}
    BY <1>8, ExperimentAssumption DEF ResultsInv
  <2>2. e \in Nat /\ Len(s) - Partitions * e < Partitions
    BY <1>2, <2>1, Division DEF elements_per_partition
  <2>3. n = Partitions * e
    BY <1>1, <2>1, <2>2, Multiplication
  <2> QED
    BY <2>2, <2>3
<1> QED
  BY <1>2, <1>7, <1>8 DEF TestedOnce

-----------------------------------------------------------------------------
(* Events that are alike are safe.                                         *)

\* Numbers of points and features are numbers
LEMMA ShapeOf ==
  ASSUME LoadedInv, NEW event \in DOMAIN directory
  PROVE  /\ NumberOfFeatures(directory[event]) \in Int
         /\ NumDataPoints(directory[event]) \in Int
<1>1. PICK shape \in Shapes : shape = directory[event]
  BY DirectoryIs
<1>2. shape.points \in Nat /\ shape.before \in Nat
  BY DEF Shapes
<1>3. EventPoints(shape) \in Int /\ NumDataPoints(shape) \in Int
  BY <1>2 DEF EventPoints, NumDataPoints, Lower
<1>4. (EventPoints(shape) - 1) \div PeriodPoints \in Int
  BY <1>3, FeatureAssumption
<1>5. NumberOfRmsFeatures(shape) \in Int
  BY <1>4, FeatureAssumption DEF NumberOfRmsFeatures, Lower
<1>6. NumberOfFeatures(shape) \in Int
  BY <1>5, FeatureAssumption DEF NumberOfFeatures
<1> QED
  BY <1>1, <1>3, <1>6

\* A calculator that was used for n points is as good as a new one
LEMMA AgainForAsMany ==
  ASSUME NEW n
  PROVE  AfterFFT(AfterFFT(FreshCalculator, n), n) = AfterFFT(FreshCalculator, n)
BY DEF AfterFFT, MaxDataSize, FreshCalculator

\* The calculator is as good as new
LEMMA UsedForAlike ==
  ASSUME CalculatorInv, AllExtract, NEW event \in DOMAIN directory
  PROVE  /\ AfterFFT(calculator, NumDataPoints(directory[event]))
              = AfterFFT(FreshCalculator, NumDataPoints(directory[event]))
         /\ Extraction(calculator, directory[event]) = "extracted"
<1> DEFINE shape == directory[event]
           n == NumDataPoints(shape)
<1>1. AfterFFT(calculator, n) = AfterFFT(FreshCalculator, n)
  <2>1. CASE calculator = FreshCalculator
    BY <2>1
  <2>2. ASSUME NEW e \in DOMAIN directory,
               calculator = AfterFFT(FreshCalculator, NumDataPoints(directory[e]))
        PROVE  AfterFFT(calculator, n) = AfterFFT(FreshCalculator, n)
    <3>1. directory[e] = directory[event]
      BY DEF AllExtract
    <3>2. calculator = AfterFFT(FreshCalculator, n)
      BY <2>2, <3>1, Zenon
    <3> QED
      BY <3>2, AgainForAsMany, Zenon
  <2> QED
    BY <2>1, <2>2 DEF CalculatorInv
<1>2. ReadsPastBuffer(calculator, shape) <=> ReadsPastBuffer(FreshCalculator, shape)
  <2> DEFINE reads(c) ==
               \/ shape.points < shape.before
               \/ ~WindowFits(c)
               \/ BaseFrequencyPos(n) >= n
               \/ HarmonicsInTransform(n) /\ ~SearchBeginsInTransform(n)
  <2>1. \A c : ReadsPastBuffer(c, shape) <=> reads(AfterFFT(c, n))
    BY Zenon DEF ReadsPastBuffer
  <2> HIDE DEF reads, shape, n
  <2> QED
    BY <1>1, <2>1, Zenon
<1>3. Extraction(FreshCalculator, shape) = "extracted"
  BY DEF AllExtract
<1>4. Extraction(calculator, shape) = Extraction(FreshCalculator, shape)
  <2> HIDE DEF shape
  <2> QED
    BY <1>2, Zenon DEF Extraction
<1> QED
  BY <1>1, <1>3, <1>4

\* The columns of the matrix fit
LEMMA AlikeFit ==
  ASSUME LoadedInv, LabeledInv, AllExtract, NEW event \in DOMAIN directory,
         NEW label, NEW m, m = addLabeledEvent(manager, Feature(event), label)
  PROVE  /\ ColumnsFit(m)
         /\ ~NormalizationAborts(manager, Feature(event))
<1> DEFINE s == manager.labeled
           f == [Feature(event) EXCEPT !.label = label]
           S == {g \in Entry \union LabeledEntries(DOMAIN directory) \union {f} :
                   g.event \in DOMAIN directory}
<1>1. f.event = event
  BY DEF Feature
<1>2. s \in Seq(LabeledEntries(DOMAIN directory))
  BY DEF LabeledInv
<1>3. \A i \in 1..Len(s) : s[i] \in S
  BY <1>2, LabeledAre
<1>4. s \in Seq(S) /\ f \in S /\ Len(s) \in Nat
  <2>1. f \in S
    BY <1>1
  <2> HIDE DEF S, s
  <2>2. s \in [1..Len(s) -> S] /\ Len(s) \in Nat
    BY <1>2, <1>3
  <2> QED
    BY <2>1, <2>2
<1>5. PICK t : t = Append(s, f)
  OBVIOUS
<1>6. m.labeled = t
  <2>1. manager = [labeled |-> s, unlabeled |-> manager.unlabeled]
    BY DEF LabeledInv
  <2> QED
    BY <1>5, <2>1 DEF addLabeledEvent
<1>7. \A g \in S : directory[g.event] = directory[event]
  BY DEF AllExtract
<1> HIDE DEF S, f, s
<1>8. t \in Seq(S) /\ Len(t) \in Nat \ {0}
  BY <1>4, <1>5
<1>9. t[Len(t)] \in S /\ Range(t) \subseteq S
  <2>1. Len(t) \in 1..Len(t)
    BY <1>8
  <2> QED
    BY <1>8, <2>1, ElementOfSeq, RangeIs
<1>10. ColumnsFit(m)
  BY <1>6, <1>7, <1>9 DEF ColumnsFit, MatrixRows, FeatureCount, Last
<1>11. ~NormalizationAborts(manager, Feature(event))
  <2>1. SUFFICES ASSUME Len(s) > K
                 PROVE  ~(FeatureCount(event) > MatrixRows(manager))
    BY EntryIs DEF NormalizationAborts, s
  <2>2. Len(s) \in 1..Len(s)
    BY <1>4, <2>1, ExperimentAssumption
  <2>3. s[Len(s)] \in S
    BY <1>4, <2>2, ElementOfSeq
  <2>4. MatrixRows(manager) = NumberOfFeatures(directory[event])
    BY <1>7, <2>3 DEF MatrixRows, FeatureCount, Last, s
  <2>5. FeatureCount(event) = NumberOfFeatures(directory[event])
        /\ NumberOfFeatures(directory[event]) \in Int
    BY ShapeOf DEF FeatureCount
  <2> QED
    BY <2>4, <2>5
<1> QED
  BY <1>10, <1>11

\* Alike events keep the buffers as one of them needs them
LEMMA CalculatorStep ==
  ASSUME LoadedInv, LabeledInv, ResultsInv, CalculatorInv, Next
  PROVE  CalculatorInv'
<1>1. directory' = directory
  BY DEF Next, Setup, Validation, Visualization, LoadEvent, LoadThrows,
         StopAnalyzingWhenDone, AddsLabeled, AddsUnlabeled, ExtractedAndPopped,
         MatrixAborts, ExtractionFails, Terminates,
         InitLabelManagerWithoutMisdetected, ValidatePartition,
         PerformValidationResultsVisualisation, PerformVisualisation
<1>2. SUFFICES ASSUME AllExtract
               PROVE  CalculatorInv'
  BY <1>1 DEF CalculatorInv, AllExtract
<1>3. ASSUME calculator' = calculator, pc' \notin {"undefined", "aborted"}
      PROVE  CalculatorInv'
  BY <1>1, <1>2, <1>3 DEF CalculatorInv
<1>4. ASSUME NEW event, Processes(event)
      PROVE  /\ event \in DOMAIN directory /\ event = Last(events)
             /\ pc \in {"loading", "stopping"}
  <2>1. events # <<>> /\ event = Last(events) /\ pc \in {"loading", "stopping"}
    BY <1>4 DEF Processes
  <2>2. events \in Seq(Nat) /\ uuid \in Nat /\ 0..uuid - 1 \subseteq DOMAIN directory
    BY DEF LoadedInv
  <2>3. Len(events) \in 1..Len(events) /\ Last(events) = events[Len(events)]
        /\ Last(events) \in Nat
    BY <2>1, <2>2, FrontAndLast
  <2>4. events[Len(events)] < uuid
    BY <2>3 DEF LoadedInv
  <2>5. event \in 0..uuid - 1
    BY <2>1, <2>2, <2>3, <2>4
  <2> QED
    BY <2>1, <2>2, <2>5
<1>5. ASSUME NEW event \in Events, AddsLabeled(event) \/ AddsUnlabeled(event)
      PROVE  CalculatorInv'
  <2>1. /\ Processes(event) /\ pc' = pc
        /\ calculator' = AfterFFT(calculator, NumDataPoints(directory[event]))
    BY <1>5 DEF AddsLabeled, AddsUnlabeled, Extracts, ExtractedAndPopped
  <2>2. calculator' = AfterFFT(FreshCalculator, NumDataPoints(directory'[event]))
    BY <1>1, <1>2, <1>4, <2>1, UsedForAlike
  <2>3. pc' \notin {"undefined", "aborted"} /\ event \in DOMAIN directory'
    BY <1>1, <1>4, <2>1
  <2> QED
    BY <2>2, <2>3 DEF CalculatorInv
<1>6. ASSUME NEW event \in Events
      PROVE  ~MatrixAborts(event) /\ ~ExtractionFails(event)
  <2>1. SUFFICES ASSUME Processes(event)
                 PROVE  ~MatrixAborts(event) /\ ~ExtractionFails(event)
    BY DEF MatrixAborts, ExtractionFails, Extracts
  <2>2. event \in DOMAIN directory
    BY <1>4, <2>1
  <2>3. /\ ColumnsFit(addLabeledEvent(manager, Feature(event), getEventLabel(event)))
        /\ ~NormalizationAborts(manager, Feature(event))
    BY <1>2, <2>2, AlikeFit
  <2>4. Extracts(event)
    BY <1>2, <2>1, <2>2, UsedForAlike DEF Extracts
  <2> QED
    BY <2>3, <2>4, Zenon DEF MatrixAborts, ExtractionFails
<1>7. CASE LoadEvent \/ LoadThrows \/ StopAnalyzingWhenDone
  BY <1>3, <1>7 DEF LoadEvent, LoadThrows, StopAnalyzingWhenDone, setupVars
<1>8. CASE InitLabelManagerWithoutMisdetected \/ Visualization
  BY <1>3, <1>8 DEF InitLabelManagerWithoutMisdetected, Visualization, setupVars,
                    PerformValidationResultsVisualisation, PerformVisualisation
<1>9. CASE ValidatePartition
  <2>1. calculator' = calculator /\ pc' \in {"validated", "validating"}
    BY <1>9, ValidatedIs
  <2> QED
    BY <1>3, <2>1
<1> QED
  BY <1>5, <1>6, <1>7, <1>8, <1>9 DEF Next, Setup, Validation

\* A set of at most one shape makes all events alike
LEMMA AlikeFollows ==
  ASSUME LoadedInv, CalculatorInv
  PROVE  AlikeIsSafe
<1>1. SUFFICES ASSUME Alike,
                      \A e \in DOMAIN directory :
                        Extraction(FreshCalculator, directory[e]) = "extracted"
               PROVE  pc \notin {"undefined", "aborted"}
  BY DEF AlikeIsSafe
<1>2. IsFiniteSet(DOMAIN directory)
  BY DirectoryIs
<1>3. PICK R : R = Range(directory)
  OBVIOUS
<1>4. R = {directory[e] : e \in DOMAIN directory}
  BY <1>3 DEF Range
<1>5. IsFiniteSet(R)
  <2>1. PICK f : f = [e \in DOMAIN directory |-> directory[e]]
    OBVIOUS
  <2>2. f \in Surjection(DOMAIN directory, R)
    BY <1>4, <2>1 DEF Surjection
  <2> QED
    BY <1>2, <2>2, FS_Surjection
<1>6. ASSUME NEW d \in DOMAIN directory, NEW e \in DOMAIN directory
      PROVE  directory[d] = directory[e]
  <2>1. PICK x : x = directory[d]
    OBVIOUS
  <2>2. {x} \in SUBSET R /\ Cardinality({x}) = 1
    BY <1>4, <2>1, FS_Singleton
  <2>3. Cardinality(R) \in Nat /\ Cardinality(R) <= 1
    BY <1>1, <1>3, <1>5, FS_CardinalityType DEF Alike
  <2>4. /\ Cardinality({x}) <= Cardinality(R)
        /\ Cardinality(R) = Cardinality({x}) => R = {x}
    BY <1>5, <2>2, FS_Subset
  <2>5. R = {x}
    BY <2>2, <2>3, <2>4
  <2> QED
    BY <1>4, <2>1, <2>5
<1> QED
  BY <1>1, <1>6 DEF CalculatorInv, AllExtract

-----------------------------------------------------------------------------
(* What dropPartition leaves.                                              *)

\* The position from which dropPartition takes an entry, for the partition
\* that ends at c + e of n
Kept(n, c, e, i) == IF i \in c + 1..c + e THEN n - (i - (c + 1)) ELSE i

\* The positions are those outside of the partition, each once
LEMMA KeptPositions ==
  ASSUME NEW n \in Nat, NEW c \in Nat, NEW e \in Nat, c + e <= n - e
  PROVE  /\ \A i \in 1..n - e : /\ Kept(n, c, e, i) \in 1..n
                                /\ Kept(n, c, e, i) \notin c + 1..c + e
         /\ \A i, j \in 1..n - e : Kept(n, c, e, i) = Kept(n, c, e, j) => i = j
         /\ \A j \in 1..n : j \notin c + 1..c + e =>
              \E i \in 1..n - e : Kept(n, c, e, i) = j
<1>1. \A i \in 1..n - e : /\ Kept(n, c, e, i) \in 1..n
                          /\ Kept(n, c, e, i) \notin c + 1..c + e
  BY DEF Kept
<1>2. \A i, j \in 1..n - e : Kept(n, c, e, i) = Kept(n, c, e, j) => i = j
  BY DEF Kept
<1>3. ASSUME NEW j \in 1..n, j \notin c + 1..c + e
      PROVE  \E i \in 1..n - e : Kept(n, c, e, i) = j
  <2>1. CASE j <= n - e
    BY <1>3, <2>1 DEF Kept
  <2>2. CASE j > n - e
    <3>1. /\ c + 1 + n - j \in c + 1..c + e /\ c + 1 + n - j \in 1..n - e
      BY <2>2
    <3>2. PICK i \in 1..n - e : i = c + 1 + n - j
      BY <3>1
    <3>3. i \in c + 1..c + e /\ n - (i - (c + 1)) = j
      BY <3>1, <3>2
    <3> QED
      BY <3>2, <3>3, Zenon DEF Kept
  <2> QED
    BY <2>1, <2>2
<1> QED
  BY <1>1, <1>2, <1>3

\* The entries of test are those of s after the first c
IsStretch(test, s, c) == \A i \in 1..Len(test) : test[i] = s[c + i]

\* g lists the positions up to n, without those from c + 1 to c + e
Keeps(g, m, n, c, e) ==
  /\ g \in [1..m -> 1..n] /\ Distinct(g, m)
  /\ \A i \in 1..m : g[i] \notin c + 1..c + e
  /\ \A j \in 1..n : j \notin c + 1..c + e => \E i \in 1..m : g[i] = j

\* The entries of s at these positions
Picked(s, g, m) == [i \in 1..m |-> s[g[i]]]

\* The rest of s without the stretch
LEMMA DroppedIs ==
  ASSUME NEW S, NEW s \in Seq(S), Distinct(s, Len(s)),
         NEW c \in Nat, NEW test \in Seq(S), c + Len(test) <= Len(s),
         IsStretch(test, s, c),
         NEW m \in Nat, NEW g, Keeps(g, m, Len(s), c, Len(test)),
         NEW rest, rest = Picked(s, g, m)
  PROVE  /\ Range(rest) = Range(s) \ Range(test)
         /\ Len(rest) = Cardinality(Range(rest))
<1>1. PICK n, e : n = Len(s) /\ e = Len(test)
  OBVIOUS
<1>2. n \in Nat /\ e \in Nat /\ c + e <= n
  BY <1>1
<1>3. \A i \in 1..m : g[i] \in 1..n
  BY <1>1 DEF Keeps
<1>4. rest \in [1..m -> S] /\ \A i \in 1..m : rest[i] = s[g[i]]
  <2>1. \A i \in 1..n : s[i] \in S
    BY <1>1, ElementOfSeq
  <2> QED
    BY <1>3, <2>1 DEF Picked
<1>5. rest \in Seq(S) /\ Len(rest) = m
  BY <1>4, FunctionIsSeq, Zenon
<1>6. \A x : x \in Range(s) <=> \E i \in 1..n : x = s[i]
  BY <1>1, InRange
<1>7. \A x : x \in Range(test) <=> \E i \in 1..e : x = test[i]
  BY <1>1, InRange
<1>8. \A x : x \in Range(rest) <=> \E i \in 1..m : x = rest[i]
  BY <1>4 DEF Range
<1>9. \A i \in 1..m : rest[i] = s[g[i]] /\ g[i] \in 1..n
  BY <1>3, <1>4
<1>10. \A i, j \in 1..n : s[i] = s[j] => i = j
  BY <1>1 DEF Distinct
<1>11. \A i \in 1..e : /\ c + i \in 1..n /\ c + i \in c + 1..c + e
                       /\ test[i] = s[c + i]
  <2>1. \A i \in 1..e : test[i] = s[c + i]
    BY <1>1 DEF IsStretch
  <2> QED
    BY <1>2, <2>1
<1>12. \A j \in c + 1..c + e : j - c \in 1..e /\ c + (j - c) = j
  BY <1>2
<1>13. /\ \A i \in 1..m : g[i] \notin c + 1..c + e
       /\ \A j \in 1..n : j \notin c + 1..c + e => \E i \in 1..m : g[i] = j
  BY <1>1 DEF Keeps
<1>14. ASSUME NEW x \in Range(rest)
       PROVE  x \in Range(s) /\ x \notin Range(test)
  <2>1. PICK i \in 1..m : x = rest[i]
    BY <1>8, <1>14, Zenon
  <2>2. x = s[g[i]] /\ g[i] \in 1..n
    BY <1>9, <2>1, Zenon
  <2>3. ASSUME NEW j \in 1..e, x = test[j]
        PROVE  FALSE
    <3>1. x = s[c + j] /\ c + j \in 1..n /\ c + j \in c + 1..c + e
      BY <1>11, <2>3, Zenon
    <3>2. g[i] = c + j
      BY <1>10, <2>2, <3>1, Zenon
    <3> QED
      BY <1>13, <3>1, <3>2, Zenon
  <2> QED
    BY <1>6, <1>7, <2>2, <2>3, Zenon
<1>15. ASSUME NEW x \in Range(s), x \notin Range(test)
       PROVE  x \in Range(rest)
  <2>1. PICK j \in 1..n : x = s[j]
    BY <1>6, <1>15, Zenon
  <2>2. j \notin c + 1..c + e
    <3>1. SUFFICES ASSUME j \in c + 1..c + e
                   PROVE  FALSE
      OBVIOUS
    <3>2. j - c \in 1..e /\ test[j - c] = x
      <4>1. j - c \in 1..e /\ c + (j - c) = j
        BY <1>12, <3>1
      <4>2. test[j - c] = s[c + (j - c)]
        BY <1>11, <4>1, Zenon
      <4> QED
        BY <2>1, <4>1, <4>2, Zenon
    <3> QED
      BY <1>7, <1>15, <3>2, Zenon
  <2>3. PICK i \in 1..m : g[i] = j
    BY <1>13, <2>2, Zenon
  <2> QED
    BY <1>8, <1>9, <2>1, <2>3, Zenon
<1>16. Cardinality(Range(rest)) = m
  <2>1. PICK T : T = Range(rest)
    OBVIOUS
  <2>2. \A x : x \in T <=> \E i \in 1..m : x = rest[i]
    BY <1>8, <2>1, Zenon
  <2>3. rest \in [1..m -> T]
    BY <1>4, <2>2
  <2>4. Distinct(rest, m)
    <3>1. \A i, j \in 1..m : g[i] = g[j] => i = j
      BY DEF Keeps, Distinct
    <3>2. ASSUME NEW i \in 1..m, NEW j \in 1..m, rest[i] = rest[j]
          PROVE  i = j
      <4>1. /\ rest[i] = s[g[i]] /\ g[i] \in 1..n
            /\ rest[j] = s[g[j]] /\ g[j] \in 1..n
        BY <1>9, Zenon
      <4>2. g[i] = g[j]
        BY <1>10, <3>2, <4>1, Zenon
      <4> QED
        BY <3>1, <4>2, Zenon
    <3> QED
      BY <3>2, Zenon DEF Distinct
  <2>5. Cardinality(T) = m
    BY <2>2, <2>3, <2>4, ValuesCounted, Zenon
  <2> QED
    BY <2>1, <2>5, Zenon
<1> QED
  BY <1>5, <1>14, <1>15, <1>16

\* The begin of a partition
LEMMA MinOfRange ==
  ASSUME NEW a \in Int, NEW b \in Int, a <= b
  PROVE  Min(a..b) = a
<1>1. a \in a..b /\ \A y \in a..b : a <= y
  OBVIOUS
<1>2. \A x \in a..b : (\A y \in a..b : x <= y) => x = a
  OBVIOUS
<1> QED
  BY <1>1, <1>2, Zenon DEF Min

\* dropPartition takes out the partition, except in the last of uneven turns
LEMMA DropIs ==
  ASSUME LabeledInv, NEW part \in Nat, part < Partitions,
         NEW s, s = manager.labeled,
         part # Partitions - 1 \/ Len(s) % Partitions = 0,
         NEW test, test = getPartition(s, part),
         NEW rest, rest = dropPartition(s, part)
  PROVE  /\ Range(rest) = Range(s) \ Range(test)
         /\ Len(rest) = Cardinality(Range(rest))
<1> DEFINE S == LabeledEntries(DOMAIN directory)
<1>1. PICK e, c, n : /\ e = elements_per_partition(s)
                     /\ c = e * part /\ n = Len(s)
  OBVIOUS
<1>2. s \in Seq(S) /\ n \in Nat /\ Partitions \in Nat \ {0}
  BY <1>1, ExperimentAssumption DEF LabeledInv
<1>3. /\ e \in Nat /\ c \in Nat /\ Partitions * e <= n
      /\ EndOfPartition(s, part) = c + e
      /\ c + e <= Partitions * e /\ Partitions * e \in Nat
      /\ test \in Seq(S) /\ Len(test) = e
      /\ \A i \in 1..e : test[i] = s[c + i]
      /\ n - Partitions * e = n % Partitions
  <2> DEFINE e0 == elements_per_partition(s)
             c0 == e0 * part
  <2>1. /\ e \in Nat /\ Partitions * e <= n
        /\ EndOfPartition(s, part) = c + e
        /\ c + e <= Partitions * e /\ c \in Nat
        /\ test \in Seq(S) /\ Len(test) = e
        /\ \A i \in 1..e : test[i] = s[c + i]
    <3>1. /\ e0 \in Nat /\ Partitions * e0 <= Len(s)
          /\ EndOfPartition(s, part) = c0 + e0
          /\ c0 + e0 <= Partitions * e0 /\ c0 \in Nat
          /\ test \in Seq(S) /\ Len(test) = e0
          /\ \A i \in 1..e0 : test[i] = s[c0 + i]
      BY <1>2, PartitionIs
    <3>2. e = e0 /\ c = c0 /\ n = Len(s)
      BY <1>1, Zenon
    <3> HIDE DEF e0, c0
    <3> QED
      BY <3>1, <3>2, Zenon
  <2>2. Partitions * e \in Nat
    BY <1>2, <2>1
  <2>3. n - Partitions * e = n % Partitions
    BY <1>1, <1>2, Division DEF elements_per_partition
  <2> QED
    BY <2>1, <2>2, <2>3
<1> HIDE DEF S
<1>4. c + Len(test) <= Len(s) /\ IsStretch(test, s, c)
  BY <1>1, <1>2, <1>3 DEF IsStretch
<1>5. Distinct(s, Len(s))
  BY DEF LabeledInv, Consistent, Distinct
<1>6. PICK m : m = n - e
  OBVIOUS
<1>7. m \in Nat
  BY <1>2, <1>3, <1>6
<1>8. PartitionRange(s, part) = c + 1..c + e
  BY <1>1, <1>3, Zenon DEF PartitionRange
<1>9. rest = [i \in 1..m |->
                IF part # Partitions - 1 /\ i \in c + 1..c + e
                  THEN FromTheEnd(s, i - Min(c + 1..c + e)) ELSE s[i]]
  BY <1>1, <1>6, <1>8, Zenon DEF dropPartition
<1>10. CASE part # Partitions - 1
  <2>1. c + e <= n - e
    <3>1. part + 1 <= Partitions - 1 /\ part + 1 \in Nat /\ Partitions - 1 \in Nat
      BY <1>2, <1>10
    <3>2. e * (part + 1) <= e * (Partitions - 1) /\ e * (part + 1) = c + e
      BY <1>1, <1>3, <3>1, Multiplication
    <3>3. (Partitions - 1 + 1) * e = (Partitions - 1) * e + e
          /\ e * (Partitions - 1) = (Partitions - 1) * e
          /\ (Partitions - 1) * e \in Nat
      BY <1>3, <3>1, Multiplication
    <3>4. Partitions - 1 + 1 = Partitions
      BY <1>2
    <3>5. PICK q \in Nat : q = (Partitions - 1) * e
      BY <3>3
    <3>6. Partitions * e = q + e /\ c + e <= q
      BY <3>2, <3>3, <3>4, <3>5
    <3> QED
      BY <1>2, <1>3, <3>5, <3>6
  <2>2. PICK g : g = [i \in 1..m |-> Kept(n, c, e, i)]
    OBVIOUS
  <2>3. Keeps(g, m, n, c, e)
    <3>1. /\ \A i \in 1..m : /\ Kept(n, c, e, i) \in 1..n
                             /\ Kept(n, c, e, i) \notin c + 1..c + e
          /\ \A i, j \in 1..m : Kept(n, c, e, i) = Kept(n, c, e, j) => i = j
          /\ \A j \in 1..n : j \notin c + 1..c + e =>
               \E i \in 1..m : Kept(n, c, e, i) = j
      <4>1. n \in Nat /\ c \in Nat /\ e \in Nat
        BY <1>2, <1>3
      <4> QED
        BY <1>6, <2>1, <4>1, KeptPositions
    <3>2. g \in [1..m -> 1..n] /\ \A i \in 1..m : g[i] = Kept(n, c, e, i)
      BY <2>2, <3>1, Zenon
    <3>3. Distinct(g, m)
      BY <3>1, <3>2, Zenon DEF Distinct
    <3>4. ASSUME NEW i \in 1..m
          PROVE  g[i] \notin c + 1..c + e
      <4>1. Kept(n, c, e, i) \notin c + 1..c + e /\ g[i] = Kept(n, c, e, i)
        BY <3>1, <3>2
      <4> QED
        BY <4>1, Zenon
    <3>5. ASSUME NEW j \in 1..n, j \notin c + 1..c + e
          PROVE  \E i \in 1..m : g[i] = j
      <4>1. PICK i \in 1..m : Kept(n, c, e, i) = j
        BY <3>1, <3>5
      <4> QED
        BY <3>2, <4>1, Zenon
    <3> QED
      BY <3>2, <3>3, <3>4, <3>5, Zenon DEF Keeps
  <2>4. rest = Picked(s, g, m)
    <3>1. ASSUME NEW i \in 1..m
          PROVE  s[g[i]] = IF part # Partitions - 1 /\ i \in c + 1..c + e
                             THEN FromTheEnd(s, i - Min(c + 1..c + e)) ELSE s[i]
      <4>1. g[i] = Kept(n, c, e, i)
        BY <2>2
      <4>2. CASE i \in c + 1..c + e
        <5>1. c + 1 \in Int /\ c + e \in Int /\ c + 1 <= c + e
          BY <1>3, <4>2
        <5>2. Min(c + 1..c + e) = c + 1
          BY <5>1, MinOfRange
        <5>3. g[i] = n - (i - (c + 1))
          BY <4>1, <4>2, Zenon DEF Kept
        <5>4. FromTheEnd(s, i - (c + 1)) = s[n - (i - (c + 1))]
          BY <1>1, Zenon DEF FromTheEnd
        <5> QED
          BY <1>10, <4>2, <5>2, <5>3, <5>4, Zenon
      <4>3. CASE i \notin c + 1..c + e
        BY <4>1, <4>3, Zenon DEF Kept
      <4> QED
        BY <4>2, <4>3
    <3> QED
      BY <1>9, <3>1, Zenon DEF Picked
  <2>5. Keeps(g, m, Len(s), c, Len(test))
    BY <1>1, <1>3, <2>3, Zenon
  <2>6. s \in Seq(S) /\ test \in Seq(S) /\ c \in Nat /\ m \in Nat
    BY <1>2, <1>3, <1>7
  <2> QED
    BY <1>4, <1>5, <2>4, <2>5, <2>6, DroppedIs
<1>11. CASE part = Partitions - 1
  <2>1. n = Partitions * e /\ c + e = n /\ m = c
    <3>1. n % Partitions = 0
      BY <1>1, <1>11
    <3>2. n = Partitions * e
      BY <1>2, <1>3, <3>1
    <3>3. e * (part + 1) = c + e /\ part + 1 = Partitions
          /\ e * Partitions = Partitions * e
      <4>1. \A a \in Nat : e * (a + 1) = e * a + e /\ e * a = a * e
        BY <1>3, Multiplication
      <4>2. part + 1 = Partitions
        BY <1>2, <1>11
      <4>3. e * (part + 1) = c + e
        BY <1>1, <4>1, Zenon
      <4>4. e * Partitions = Partitions * e
        BY <1>2, <4>1
      <4> QED
        BY <4>2, <4>3, <4>4
    <3>4. c + e = n
      BY <3>2, <3>3
    <3> QED
      BY <1>3, <1>6, <3>2, <3>4
  <2>2. PICK g : g = [i \in 1..m |-> i]
    OBVIOUS
  <2>3. Keeps(g, m, n, c, e)
    BY <1>2, <1>3, <2>1, <2>2 DEF Keeps, Distinct
  <2>4. rest = Picked(s, g, m)
    BY <1>9, <1>11, <2>2 DEF Picked
  <2>5. Keeps(g, m, Len(s), c, Len(test))
    BY <1>1, <1>3, <2>3, Zenon
  <2>6. s \in Seq(S) /\ test \in Seq(S) /\ c \in Nat /\ m \in Nat
    BY <1>2, <1>3, <1>7
  <2> QED
    BY <1>4, <1>5, <2>4, <2>5, <2>6, DroppedIs
<1> QED
  BY <1>10, <1>11

\* The body of DropLeavesTheRest
Trained ==
  \A part \in {partition} :
     LET test == Range(getPartition(manager.labeled, part))
     IN  \/ ~ValidatePartition
         \/ part = Partitions - 1 /\ Len(manager.labeled) % Partitions # 0
         \/ /\ Range(training_set') = Range(manager.labeled) \ test
            /\ Len(training_set') = Cardinality(Range(training_set'))

\* The training set of every turn
LEMMA TrainedStep ==
  ASSUME LabeledInv, ResultsInv
  PROVE  Trained
<1>1. SUFFICES ASSUME ValidatePartition,
                      \/ partition # Partitions - 1
                      \/ Len(manager.labeled) % Partitions = 0
               PROVE  /\ Range(training_set') =
                           Range(manager.labeled)
                             \ Range(getPartition(manager.labeled, partition))
                      /\ Len(training_set') = Cardinality(Range(training_set'))
  BY DEF Trained
<1>2. training_set' = dropPartition(manager.labeled, partition)
  BY <1>1 DEF ValidatePartition
<1>3. partition \in Nat /\ partition < Partitions
  BY <1>1, ValidatedIs
<1> QED
  BY <1>1, <1>2, <1>3, DropIs

-----------------------------------------------------------------------------
(* The theorems.                                                           *)

\* The invariant holds initially
LEMMA ExperimentsInit ==
  ASSUME Init
  PROVE  ExperimentsInv
<1>1. /\ directory \in Directories /\ pc = "loading" /\ uuid = 0
      /\ events = <<>> /\ calculator = FreshCalculator
      /\ manager = [labeled |-> <<>>, unlabeled |-> <<>>]
      /\ partition = 0 /\ results = <<>>
  BY DEF Init, EmptyManager
<1>2. LoadedInv
  BY <1>1 DEF LoadedInv
<1>3. LabeledInv
  BY <1>1 DEF LabeledInv, Consistent
<1>4. ArchiveInv
  BY <1>1 DEF ArchiveInv
<1>5. ResultsInv
  <2>1. FlattenSeq(results) = Guesses(manager.labeled,
                                elements_per_partition(manager.labeled) * 0)
    BY <1>1, <1>3, FlattenNothing, NoGuesses DEF LabeledInv
  <2>2. Len(results) = 0 /\ Partitions \in Nat \ {0}
    BY <1>1, ExperimentAssumption
  <2>3. FlattenSeq(results) =
          Guesses(manager.labeled,
                  elements_per_partition(manager.labeled) * Len(results))
    BY <2>1, <2>2, Zenon
  <2> QED
    BY <1>1, <2>2, <2>3 DEF ResultsInv, Archiving
<1>6. CalculatorInv
  BY <1>1 DEF CalculatorInv
<1> QED
  BY <1>2, <1>3, <1>4, <1>5, <1>6 DEF ExperimentsInv

\* ... is kept if nothing happens
LEMMA ExperimentsStutter ==
  ASSUME ExperimentsInv, UNCHANGED vars
  PROVE  ExperimentsInv'
<1>1. UNCHANGED <<directory, pc, uuid, events, calculator, manager, partition,
                  results, output>>
  BY DEF vars, setupVars, validationVars
<1>2. LoadedInv' /\ LabeledInv'
  BY <1>1 DEF ExperimentsInv, LoadedInv, LabeledInv, HasFile
<1>3. ArchiveInv' /\ CalculatorInv'
  BY <1>1 DEF ExperimentsInv, ArchiveInv, Archiving, CalculatorInv, AllExtract
<1>4. ResultsInv'
  BY <1>1 DEF ExperimentsInv, ResultsInv, Archiving
<1> QED
  BY <1>2, <1>3, <1>4 DEF ExperimentsInv

\* ... and by every step
LEMMA ExperimentsNext ==
  ASSUME ExperimentsInv, [Next]_vars
  PROVE  ExperimentsInv'
<1>1. LoadedInv /\ LabeledInv /\ ArchiveInv /\ ResultsInv /\ CalculatorInv
  BY DEF ExperimentsInv
<1>2. CASE Next
  <2>1. LoadedInv'
    BY <1>1, <1>2, LoadedStep
  <2>2. LabeledInv'
    BY <1>1, <1>2, LabeledStep
  <2>3. ArchiveInv'
    BY <1>1, <1>2, ArchiveStep
  <2>4. ResultsInv'
    BY <1>1, <1>2, <2>2, ResultsStep
  <2>5. CalculatorInv'
    BY <1>1, <1>2, CalculatorStep
  <2> QED
    BY <2>1, <2>2, <2>3, <2>4, <2>5 DEF ExperimentsInv
<1> QED
  BY <1>2, ExperimentsStutter

(***************************************************************************)
(* The inductive invariant: what the stack, the manager, the results and   *)
(* the calculator have to do with each other and with the directory.       *)
(***************************************************************************)
THEOREM ExperimentsInvariant == Spec => []ExperimentsInv
<1>1. Init => ExperimentsInv
  BY ExperimentsInit
<1>2. ExperimentsInv /\ [Next]_vars => ExperimentsInv'
  BY ExperimentsNext
<1> QED
  BY <1>1, <1>2, PTL DEF Spec

(***************************************************************************)
(* event_classification_setup writes an archive with every event before    *)
(* the first gap of the directory, labeled as the label file says: main    *)
(* pushes while the runner pops, and the runner drops none.                *)
(***************************************************************************)
THEOREM EventsAreArchived == Spec => []ArchiveIsComplete
<1>1. ExperimentsInv => ArchiveIsComplete
  BY ArchiveFollows DEF ExperimentsInv
<1> QED
  BY <1>1, ExperimentsInvariant, PTL

(***************************************************************************)
(* If all events have the shape of one that a fresh extractor manages, no  *)
(* transform reads past a buffer, the columns of the matrix fit and        *)
(* validatePartition finds a result for every test.                        *)
(***************************************************************************)
THEOREM AlikeEventsAreSafe == Spec => []AlikeIsSafe
<1>1. ExperimentsInv => AlikeIsSafe
  BY AlikeFollows DEF ExperimentsInv
<1> QED
  BY <1>1, ExperimentsInvariant, PTL

(***************************************************************************)
(* The partitions of getPartition do not overlap, and leave out fewer      *)
(* events than there are partitions.                                       *)
(***************************************************************************)
THEOREM EventsAreTestedOnce == Spec => []TestedOnce
<1>1. ExperimentsInv => TestedOnce
  BY TestedFollows DEF ExperimentsInv
<1> QED
  BY <1>1, ExperimentsInvariant, PTL

(***************************************************************************)
(* dropPartition leaves just the events that getPartition does not test,   *)
(* in every turn, or in every turn but the last if the partitions are not  *)
(* all of the events.                                                      *)
(***************************************************************************)
THEOREM DroppingLeavesTheRest == Spec => DropLeavesTheRest
<1>1. ExperimentsInv => [Trained]_vars
  BY TrainedStep DEF ExperimentsInv
<1>2. [][Trained]_vars => DropLeavesTheRest
  BY DEF Trained, DropLeavesTheRest
<1> QED
  BY <1>1, <1>2, ExperimentsInvariant, PTL
=============================================================================
