------------------------ MODULE DataClassifierProofs ------------------------
(***************************************************************************)
(* The classifier loses no event and no label of the user, its tree fits   *)
(* its labeled events, these have the labels of devices, and what it does  *)
(* to events and labels is what EventCollection allows, for any            *)
(* events, labels, label files and models, and any number of neighbors.    *)
(***************************************************************************)
EXTENDS DataClassifier, FiniteSetTheorems, WellFoundedInduction, TLAPS

-----------------------------------------------------------------------------
(* Sequences, and the least of a set.                                      *)

\* A set of natural numbers that is not empty has a least one
LEMMA LeastIs ==
  ASSUME NEW T, T \subseteq Nat, T # {}
  PROVE  Min(T) \in T /\ \A t \in T : Min(T) <= t
<1> DEFINE first(x) == \A y \in T : x <= y
           x == CHOOSE x \in T : first(x)
<1>1. Min(T) = x
  BY DEF Min
<1>2. \E y \in T : first(y)
  <2> DEFINE R == OpToRel(<, Nat)
  <2>1. IsWellFoundedOn(R, Nat)
    BY NatLessThanWellFounded, Zenon
  <2>2. \A y, z \in Nat : z < y => <<z, y>> \in R
    BY DEF OpToRel
  <2> HIDE DEF R
  <2>3. PICK y \in T : \A z \in T : <<z, y>> \notin R
    BY <2>1, WFMin
  <2>4. ASSUME NEW z \in T
        PROVE  y <= z
    <3>1. z \in Nat /\ y \in Nat /\ ~(z < y)
      BY <2>2, <2>3
    <3> QED
      BY <3>1
  <2> QED
    BY <2>4
<1>3. x \in T /\ first(x)
  <2> HIDE DEF first
  <2> QED
    BY <1>2, Zenon
<1> HIDE DEF x
<1> QED
  BY <1>1, <1>3

\* What is appended is added to the members
LEMMA AppendRange ==
  ASSUME NEW S, NEW s \in Seq(S), NEW f
  PROVE  /\ Append(s, f) \in Seq(S \union {f})
         /\ Range(Append(s, f)) = Range(s) \union {f}
<1> DEFINE T == S \union {f}
           t == Append(s, f)
<1>1. s \in Seq(T) /\ f \in T
  OBVIOUS
<1>2. /\ t \in Seq(T) /\ Len(t) = Len(s) + 1 /\ Len(s) \in Nat
      /\ t[Len(s) + 1] = f
      /\ \A j \in 1..Len(s) : t[j] = s[j]
  BY <1>1
<1>3. DOMAIN s = 1..Len(s) /\ DOMAIN t = 1..Len(t)
  BY <1>1, <1>2
<1> HIDE DEF T, t
<1>4. Len(s) + 1 \in 1..Len(t) /\ 1..Len(s) \subseteq 1..Len(t)
  BY <1>2
<1>5. \A j \in 1..Len(t) : j \in 1..Len(s) \/ j = Len(s) + 1
  BY <1>2
<1>6. Range(t) = Range(s) \union {f}
  BY <1>2, <1>3, <1>4, <1>5 DEF Range
<1> QED
  BY <1>2, <1>6 DEF T, t

\* A sequence something was appended to has members
LEMMA AppendNotEmpty ==
  ASSUME NEW S, NEW s \in Seq(S), NEW f
  PROVE  Append(s, f) # <<>>
<1>1. s \in Seq(S \union {f}) /\ f \in S \union {f}
  OBVIOUS
<1>2. Len(Append(s, f)) = Len(s) + 1 /\ Len(s) \in Nat
  BY <1>1
<1>3. Len(Append(s, f)) # 0
  BY <1>2
<1>4. Len(<<>>) = 0
  OBVIOUS
<1> QED
  BY <1>3, <1>4, Zenon

\* pop_back removes the last entry only
LEMMA FrontRange ==
  ASSUME NEW S, NEW s \in Seq(S), s # <<>>
  PROVE  /\ Front(s) \in Seq(S) /\ Last(s) \in Range(s)
         /\ Range(s) = Range(Front(s)) \union {Last(s)}
<1> DEFINE t == Front(s)
<1>1. Len(s) \in Nat /\ Len(s) >= 1 /\ DOMAIN s = 1..Len(s)
  OBVIOUS
<1>2. /\ t \in Seq(S) /\ Len(t) = Len(s) - 1
      /\ \A j \in 1..Len(s) - 1 : t[j] = s[j]
  BY <1>1 DEF Front
<1>3. DOMAIN t = 1..Len(s) - 1
  BY <1>2
<1>4. Last(s) = s[Len(s)]
  BY DEF Last
<1> HIDE DEF t
<1>5. /\ Len(s) \in 1..Len(s) /\ 1..Len(s) - 1 \subseteq 1..Len(s)
      /\ \A j \in 1..Len(s) : j \in 1..Len(s) - 1 \/ j = Len(s)
  <2> DEFINE n == Len(s)
  <2>1. n \in Nat /\ n >= 1
    BY <1>1
  <2> HIDE DEF n
  <2>2. /\ n \in 1..n /\ 1..n - 1 \subseteq 1..n
        /\ \A j \in 1..n : j \in 1..n - 1 \/ j = n
    BY <2>1
  <2> QED
    BY <2>2 DEF n
<1>6. Last(s) \in Range(s) /\ Range(s) = Range(t) \union {Last(s)}
  BY <1>1, <1>2, <1>3, <1>4, <1>5 DEF Range
<1> QED
  BY <1>2, <1>6 DEF t

\* An assignment to one position leaves all others as they are
LEMMA ReplaceRange ==
  ASSUME NEW S, NEW s \in Seq(S), NEW i \in 1..Len(s), NEW f
  PROVE  LET t == [s EXCEPT ![i] = f]
         IN  /\ t \in Seq(S \union {f}) /\ Len(t) = Len(s)
             /\ f \in Range(t) /\ s[i] \in Range(s)
             /\ Range(t) \subseteq Range(s) \union {f}
             /\ \A j \in 1..Len(s) : j # i => s[j] \in Range(t)
<1> DEFINE t == [s EXCEPT ![i] = f]
           T == S \union {f}
<1>1. s \in Seq(T) /\ f \in T /\ DOMAIN s = 1..Len(s)
  OBVIOUS
<1>2. /\ t \in Seq(T) /\ Len(t) = Len(s) /\ DOMAIN t = 1..Len(s)
      /\ t[i] = f /\ \A j \in 1..Len(s) : j # i => t[j] = s[j]
  BY <1>1
<1> HIDE DEF t
<1>3. /\ f \in Range(t) /\ s[i] \in Range(s)
      /\ Range(t) \subseteq Range(s) \union {f}
      /\ \A j \in 1..Len(s) : j # i => s[j] \in Range(t)
  BY <1>1, <1>2 DEF Range
<1> QED
  BY <1>2, <1>3 DEF t

\* Swap and pop_back remove one entry
LEMMA SwapRange ==
  ASSUME NEW S, NEW s \in Seq(S), NEW i \in 1..Len(s)
  PROVE  /\ SwappedOut(s, i) \in Seq(S)
         /\ Range(SwappedOut(s, i)) \subseteq Range(s)
         /\ Range(s) \subseteq Range(SwappedOut(s, i)) \union {s[i]}
<1> DEFINE t == [s EXCEPT ![i] = Last(s)]
           u == Front(t)
           n == Len(s)
<1>1. n \in Nat /\ n >= 1 /\ DOMAIN s = 1..n /\ Last(s) = s[n]
      /\ Last(s) \in S
  BY DEF Last
<1>2. /\ t \in Seq(S) /\ Len(t) = n /\ DOMAIN t = 1..n
      /\ t[i] = s[n] /\ \A j \in 1..n : j # i => t[j] = s[j]
  BY <1>1
<1>3. SwappedOut(s, i) = u
  BY DEF SwappedOut
<1> HIDE DEF t
<1>4. /\ u \in Seq(S) /\ DOMAIN u = 1..n - 1
      /\ \A j \in 1..n - 1 : u[j] = t[j]
  BY <1>1, <1>2 DEF Front
<1> HIDE DEF u, n
<1>5. \A j \in 1..n : j \in 1..n - 1 \/ j = n
  BY <1>1
<1>6. 1..n - 1 \subseteq 1..n /\ n \in 1..n /\ i \in 1..n
  BY <1>1 DEF n
<1>7. ASSUME NEW j \in 1..n - 1
      PROVE  u[j] \in Range(s)
  BY <1>1, <1>2, <1>4, <1>6, <1>7 DEF Range
<1>8. ASSUME NEW j \in 1..n, j # i
      PROVE  s[j] \in Range(u)
  <2>1. CASE j = n
    <3>1. i \in 1..n - 1
      BY <1>5, <1>6, <1>8, <2>1
    <3>2. u[i] = s[n]
      BY <1>2, <1>4, <3>1
    <3> QED
      BY <1>4, <2>1, <3>1, <3>2 DEF Range
  <2>2. CASE j # n
    <3>1. j \in 1..n - 1
      BY <1>5, <2>2
    <3>2. u[j] = s[j]
      BY <1>2, <1>4, <1>8, <3>1
    <3> QED
      BY <1>4, <3>1, <3>2 DEF Range
  <2> QED
    BY <2>1, <2>2
<1> QED
  BY <1>1, <1>3, <1>4, <1>7, <1>8 DEF Range

-----------------------------------------------------------------------------
(* What the methods of the label manager keep.                             *)

IsEntry(f) ==
  f = [event |-> f.event, label |-> f.label, certainty |-> f.certainty]

IsEntries(s) == (\E S : s \in Seq(S)) /\ \A f \in Range(s) : IsEntry(f)

IsManager(m) ==
  /\ m = [labeled |-> m.labeled, unlabeled |-> m.unlabeled]
  /\ IsEntries(m.labeled) /\ IsEntries(m.unlabeled)

KeepsEvents(m, n) ==
  IsManager(n) /\ \A e \in Events : IsStored(m, e) => IsStored(n, e)

KeepsLabels(m, n) == Range(m.labeled) \subseteq Range(n.labeled)

\* find_if returns a position with the id
LEMMA IndexOfIdFound ==
  ASSUME NEW s, IsEntries(s), NEW id, IndexOfId(s, id) # 0
  PROVE  /\ IndexOfId(s, id) \in 1..Len(s)
         /\ EventId[s[IndexOfId(s, id)].event] = id
<1> DEFINE I == {i \in 1..Len(s) : EventId[s[i].event] = id}
<1>1. IndexOfId(s, id) = IF I # {} THEN Min(I) ELSE 0
  BY DEF IndexOfId, SelectInSeq
<1>2. I # {} /\ IndexOfId(s, id) = Min(I)
  BY <1>1
<1>3. I \subseteq Nat
  <2>1. Len(s) \in Nat
    BY DEF IsEntries
  <2> QED
    BY <2>1
<1>4. Min(I) \in I
  <2> HIDE DEF I
  <2> QED
    BY <1>2, <1>3, LeastIs
<1> QED
  BY <1>2, <1>4

\* addLabeledEvent keeps all entries and adds this one
LEMMA AddedLabeled ==
  ASSUME NEW m, IsManager(m), NEW f, IsEntry(f), NEW label
  PROVE  LET n == addLabeledEvent(m, f, label)
         IN  KeepsEvents(m, n) /\ KeepsLabels(m, n) /\ IsStored(n, f.event)
<1> DEFINE g == [f EXCEPT !.label = label]
           s == Append(m.labeled, g)
           n == addLabeledEvent(m, f, label)
<1>1. IsEntry(g) /\ g.event = f.event
  BY DEF IsEntry
<1> HIDE DEF g
<1>2. PICK S : m.labeled \in Seq(S)
  BY DEF IsManager, IsEntries
<1>3. s \in Seq(S \union {g}) /\ Range(s) = Range(m.labeled) \union {g}
  BY <1>2, AppendRange
<1> HIDE DEF s
<1>4. n = [labeled |-> s, unlabeled |-> m.unlabeled]
  BY DEF addLabeledEvent, IsManager, s, g
<1> HIDE DEF n
<1>5. n.labeled = s /\ n.unlabeled = m.unlabeled
  BY <1>4
<1>6. IsManager(n)
  BY <1>1, <1>3, <1>4, <1>5 DEF IsManager, IsEntries
<1>7. /\ \A e \in Events : IsStored(m, e) => IsStored(n, e)
      /\ IsStored(n, f.event) /\ KeepsLabels(m, n)
  BY <1>1, <1>3, <1>5 DEF IsStored, KeepsLabels
<1> QED
  BY <1>6, <1>7 DEF KeepsEvents, n

\* addUnLabeledEvent keeps all entries and adds this one
LEMMA AddedUnlabeled ==
  ASSUME NEW m, IsManager(m), NEW f, IsEntry(f)
  PROVE  LET n == addUnLabeledEvent(m, f)
         IN  KeepsEvents(m, n) /\ KeepsLabels(m, n) /\ IsStored(n, f.event)
<1> DEFINE s == Append(m.unlabeled, f)
           n == addUnLabeledEvent(m, f)
<1>1. PICK S : m.unlabeled \in Seq(S)
  BY DEF IsManager, IsEntries
<1>2. s \in Seq(S \union {f}) /\ Range(s) = Range(m.unlabeled) \union {f}
  BY <1>1, AppendRange
<1> HIDE DEF s
<1>3. n = [labeled |-> m.labeled, unlabeled |-> s]
  BY DEF addUnLabeledEvent, IsManager, s
<1> HIDE DEF n
<1>4. n.labeled = m.labeled /\ n.unlabeled = s
  BY <1>3
<1>5. IsManager(n)
  BY <1>2, <1>3, <1>4 DEF IsManager, IsEntries
<1>6. /\ \A e \in Events : IsStored(m, e) => IsStored(n, e)
      /\ IsStored(n, f.event) /\ KeepsLabels(m, n)
  BY <1>2, <1>4 DEF IsStored, KeepsLabels
<1> QED
  BY <1>5, <1>6 DEF KeepsEvents, n

\* The entry that is swapped out is the one that is labeled
LEMMA MovedToLabeled ==
  ASSUME NEW m, IsManager(m), NEW i \in 1..Len(m.unlabeled), NEW label
  PROVE  LET n == MoveToLabeled(m, i, label)
         IN  KeepsEvents(m, n) /\ KeepsLabels(m, n)
<1> DEFINE s == SwappedOut(m.unlabeled, i)
           f == m.unlabeled[i]
           r == [labeled |-> m.labeled, unlabeled |-> s]
           n == MoveToLabeled(m, i, label)
<1>1. PICK S : m.unlabeled \in Seq(S)
  BY DEF IsManager, IsEntries
<1>2. /\ s \in Seq(S) /\ Range(s) \subseteq Range(m.unlabeled)
      /\ Range(m.unlabeled) \subseteq Range(s) \union {f}
  BY <1>1, SwapRange
<1>3. f \in Range(m.unlabeled)
  BY <1>1 DEF Range
<1>4. n = addLabeledEvent(r, f, label)
  BY DEF MoveToLabeled, IsManager
<1> HIDE DEF s, f, n
<1>5. r.labeled = m.labeled /\ r.unlabeled = s
  OBVIOUS
<1>6. IsManager(r) /\ IsEntry(f)
  BY <1>2, <1>3, <1>5 DEF IsManager, IsEntries
<1> HIDE DEF r
<1>7. KeepsEvents(r, n) /\ KeepsLabels(r, n) /\ IsStored(n, f.event)
  BY <1>4, <1>6, AddedLabeled
<1>8. ASSUME NEW e \in Events, IsStored(m, e)
      PROVE  IsStored(n, e)
  <2>1. IsStored(r, e) \/ e = f.event
    BY <1>2, <1>5, <1>8 DEF IsStored
  <2> QED
    BY <1>7, <2>1 DEF KeepsEvents
<1> QED
  BY <1>5, <1>7, <1>8 DEF KeepsEvents, KeepsLabels, n

\* addLabel by id keeps events; only the entry with the id changes its label
LEMMA LabeledById ==
  ASSUME NEW m, IsManager(m), NEW id, NEW label
  PROVE  LET n == addLabelById(m, id, label)
         IN  /\ KeepsEvents(m, n)
             /\ \A f \in Range(m.labeled) :
                  f \in Range(n.labeled) \/ EventId[f.event] = id
<1> DEFINE i == IndexOfId(m.unlabeled, id)
           j == IndexOfId(m.labeled, id)
           n == addLabelById(m, id, label)
<1>1. CASE i # 0
  <2>1. n = MoveToLabeled(m, i, label)
    BY <1>1 DEF addLabelById
  <2>2. i \in 1..Len(m.unlabeled)
    BY <1>1, IndexOfIdFound DEF IsManager
  <2> QED
    BY <2>1, <2>2, MovedToLabeled DEF KeepsLabels
<1>2. CASE i = 0 /\ j # 0
  <2> DEFINE g == [m.labeled[j] EXCEPT !.label = label]
             s == [m.labeled EXCEPT ![j] = g]
  <2>1. j \in 1..Len(m.labeled) /\ EventId[m.labeled[j].event] = id
    BY <1>2, IndexOfIdFound DEF IsManager
  <2>2. PICK S : m.labeled \in Seq(S)
    BY DEF IsManager, IsEntries
  <2>3. /\ s \in Seq(S \union {g}) /\ m.labeled[j] \in Range(m.labeled)
        /\ Range(s) \subseteq Range(m.labeled) \union {g} /\ g \in Range(s)
        /\ \A k \in 1..Len(m.labeled) : k # j => m.labeled[k] \in Range(s)
    <3> HIDE DEF g, i, j
    <3> QED
      BY <2>1, <2>2, ReplaceRange
  <2>4. IsEntry(g) /\ g.event = m.labeled[j].event
    BY <2>3 DEF IsManager, IsEntries, IsEntry
  <2>5. n = [labeled |-> s, unlabeled |-> m.unlabeled]
    BY <1>2 DEF addLabelById, IsManager
  <2> HIDE DEF g, s, n, i, j
  <2>6. n.labeled = s /\ n.unlabeled = m.unlabeled
    BY <2>5
  <2>7. IsManager(n)
    BY <2>3, <2>4, <2>5, <2>6 DEF IsManager, IsEntries
  <2>8. ASSUME NEW f \in Range(m.labeled)
        PROVE  f \in Range(s) \/ f = m.labeled[j]
    BY <2>2, <2>3 DEF Range
  <2>9. \A e \in Events : IsStored(m, e) => IsStored(n, e)
    BY <2>3, <2>4, <2>6, <2>8 DEF IsStored
  <2> QED
    BY <2>1, <2>6, <2>7, <2>8, <2>9 DEF KeepsEvents, n
<1>3. CASE i = 0 /\ j = 0
  <2>1. n = m
    BY <1>3 DEF addLabelById
  <2> QED
    BY <2>1 DEF KeepsEvents
<1> QED
  BY <1>1, <1>2, <1>3

\* addLabel by time keeps events, and labels that were given before
LEMMA LabeledByTime ==
  ASSUME NEW m, IsManager(m), NEW pair
  PROVE  LET n == addLabelByTime(m, pair)
         IN  KeepsEvents(m, n) /\ KeepsLabels(m, n)
<1> DEFINE I == {k \in 1..Len(m.unlabeled) :
                   IsNear(pair.time, EventTime[m.unlabeled[k].event])}
           i == IF I # {} THEN Min(I) ELSE 0
           n == addLabelByTime(m, pair)
<1>1. n = IF i = 0 THEN m ELSE MoveToLabeled(m, i, pair.label)
  BY DEF addLabelByTime, SelectInSeq
<1>2. CASE i = 0
  BY <1>1, <1>2 DEF KeepsEvents, KeepsLabels
<1>3. CASE i # 0
  <2>1. Len(m.unlabeled) \in Nat
    BY DEF IsManager, IsEntries
  <2>2. I \subseteq Nat /\ I # {} /\ i = Min(I)
    BY <1>3, <2>1
  <2>3. i \in I
    <3> HIDE DEF I, i
    <3> QED
      BY <2>2, LeastIs
  <2>4. i \in 1..Len(m.unlabeled)
    BY <2>3
  <2> HIDE DEF I, i, n
  <2> QED
    BY <1>1, <1>3, <2>4, MovedToLabeled DEF n
<1> QED
  BY <1>2, <1>3

\* setEvent replaces an entry by one of the same event
LEMMA EventSet ==
  ASSUME NEW m, IsManager(m), NEW id, IndexOfId(m.unlabeled, id) # 0,
         NEW f, IsEntry(f),
         f.event = m.unlabeled[IndexOfId(m.unlabeled, id)].event
  PROVE  LET n == setEvent(m, id, f)
         IN  KeepsEvents(m, n) /\ KeepsLabels(m, n)
<1> DEFINE i == IndexOfId(m.unlabeled, id)
           s == [m.unlabeled EXCEPT ![i] = f]
           n == setEvent(m, id, f)
<1>1. i \in 1..Len(m.unlabeled)
  BY IndexOfIdFound DEF IsManager
<1>2. PICK S : m.unlabeled \in Seq(S)
  BY DEF IsManager, IsEntries
<1>3. /\ s \in Seq(S \union {f}) /\ f \in Range(s)
      /\ Range(s) \subseteq Range(m.unlabeled) \union {f}
      /\ \A k \in 1..Len(m.unlabeled) : k # i => m.unlabeled[k] \in Range(s)
  BY <1>1, <1>2, ReplaceRange
<1>4. n = [labeled |-> m.labeled, unlabeled |-> s]
  BY DEF setEvent, IsManager
<1> HIDE DEF s, n, i
<1>5. n.labeled = m.labeled /\ n.unlabeled = s
  BY <1>4
<1>6. IsManager(n)
  BY <1>3, <1>4, <1>5 DEF IsManager, IsEntries
<1>7. ASSUME NEW g \in Range(m.unlabeled)
      PROVE  g \in Range(s) \/ g = m.unlabeled[i]
  BY <1>2, <1>3 DEF Range
<1>8. \A e \in Events : IsStored(m, e) => IsStored(n, e)
  BY <1>3, <1>5, <1>7 DEF IsStored, i
<1> QED
  BY <1>5, <1>6, <1>8 DEF KeepsEvents, KeepsLabels, n

-----------------------------------------------------------------------------
(* The invariant: a pushed event is on the stack or in the label manager.  *)

Kept(e) == e \in Range(events) \/ IsStored(manager, e)

ClassifierInv ==
  /\ events \in Seq(NewEvents) /\ pushed \subseteq NewEvents
  /\ IsManager(manager)
  /\ main_pc = "loading" =>
       manager = EmptyManager /\ runner_pc = "none" /\ loop_pc = "none"
  /\ \A e \in pushed : Kept(e)

\* What every step does to events and labels
StepKeeps ==
  /\ IsManager(manager')
  /\ \A e \in Events : Kept(e) => Kept(e)'
  /\ \A f \in Range(manager.labeled) :
       \/ f \in Range(manager'.labeled)
       \/ \E label \in Labels : AddLabelById(EventId[f.event], label)

\* What is on the stack is an event
LEMMA EventsStayEvents ==
  ASSUME events \in Seq(NewEvents)
  PROVE  Range(events) \subseteq Events
BY ClassifierAssumption DEF Range

\* A model that is loaded is a label manager
LEMMA ModelsAreManagers ==
  ASSUME NEW model \in Models
  PROVE  IsManager(model)
<1>1. model \in Managers
  BY ClassifierAssumption
<1>2. model.labeled \in Seq(Entry) /\ model.unlabeled \in Seq(Entry)
      /\ model = [labeled |-> model.labeled, unlabeled |-> model.unlabeled]
  BY <1>1 DEF Managers
<1>3. ASSUME NEW s \in Seq(Entry)
      PROVE  IsEntries(s)
  <2>1. Range(s) \subseteq Entry
    BY DEF Range
  <2> QED
    BY <2>1 DEF IsEntries, IsEntry, Entry
<1> QED
  BY <1>2, <1>3 DEF IsManager

\* Whatever processOneEvent finds, the event gets into the label manager
LEMMA ProcessedIsStored ==
  ASSUME IsManager(manager), NEW event,
         AddsLabeled(event) \/ ClassifiesAndDrops(event)
           \/ CannotClassify(event)
  PROVE  /\ KeepsEvents(manager, manager') /\ KeepsLabels(manager, manager')
         /\ IsStored(manager', event)
<1>1. IsEntry(Feature(event)) /\ Feature(event).event = event
  BY DEF IsEntry, Feature
<1>2. CASE AddsLabeled(event)
  <2>1. manager' = addLabeledEvent(manager, Feature(event),
                                   getEventLabel(event))
    BY <1>2 DEF AddsLabeled
  <2> HIDE DEF Feature
  <2> QED
    BY <1>1, <2>1, AddedLabeled
<1>3. CASE ClassifiesAndDrops(event)
  <2>1. manager' = addUnLabeledEvent(manager, Feature(event))
    BY <1>3 DEF ClassifiesAndDrops, addClassifiedEvent
  <2> QED
    BY <1>1, <2>1, AddedUnlabeled
<1>4. CASE CannotClassify(event)
  <2> DEFINE f == [Feature(event) EXCEPT !.label = EventUnknown]
             n == addUnLabeledEvent(manager, f)
  <2>1. manager' = addUnLabeledEvent(n, f)
    BY <1>4 DEF CannotClassify, addClassifiedEvent
  <2>2. IsEntry(f) /\ f.event = event
    BY DEF IsEntry, Feature
  <2> HIDE DEF f
  <2>3. KeepsEvents(manager, n) /\ KeepsLabels(manager, n)
    BY <2>2, AddedUnlabeled
  <2> HIDE DEF n
  <2>4. /\ KeepsEvents(n, manager') /\ KeepsLabels(n, manager')
        /\ IsStored(manager', event)
    BY <2>1, <2>2, <2>3, AddedUnlabeled DEF KeepsEvents
  <2> QED
    BY <2>3, <2>4 DEF KeepsEvents, KeepsLabels
<1> QED
  BY <1>2, <1>3, <1>4

\* A classification changes the label and certainty of an entry only
LEMMA ClassifiedEntry ==
  ASSUME NEW f, IsEntry(f), NEW neighbors
  PROVE  IsEntry(Classified(f, neighbors))
         /\ Classified(f, neighbors).event = f.event
<1> DEFINE class ==
             Majority([i \in neighbors |-> manager.labeled[i].label])
<1>1. Classified(f, neighbors) =
        [f EXCEPT !.label = class.label, !.certainty = class.certainty]
  BY DEF Classified
<1> HIDE DEF class
<1> QED
  BY <1>1 DEF IsEntry

\* No step loses an event or a label of the user
LEMMA StepsKeep ==
  ASSUME ClassifierInv, [Next]_vars
  PROVE  StepKeeps
<1>1. ASSUME KeepsEvents(manager, manager'), KeepsLabels(manager, manager'),
             Range(events) \subseteq Range(events')
      PROVE  StepKeeps
  BY <1>1 DEF StepKeeps, Kept, KeepsEvents, KeepsLabels
<1>2. ASSUME manager' = manager, Range(events) \subseteq Range(events')
      PROVE  StepKeeps
  <2>1. KeepsEvents(manager, manager') /\ KeepsLabels(manager, manager')
    BY <1>2 DEF ClassifierInv, KeepsEvents, KeepsLabels
  <2> QED
    BY <1>1, <1>2, <2>1
<1>3. ASSUME NEW model \in Models, SetEventLabelManager(model)
      PROVE  StepKeeps
  <2>1. /\ main_pc = "loading" /\ manager = EmptyManager
        /\ manager' = model /\ events' = events
    BY <1>3 DEF SetEventLabelManager, ClassifierInv
  <2>2. Range(manager.labeled) = {} /\ Range(manager.unlabeled) = {}
    BY <2>1 DEF EmptyManager, Range
  <2> QED
    BY <2>1, <2>2, ModelsAreManagers DEF StepKeeps, Kept, IsStored
<1>4. CASE ProcessEvent
  <2>1. events # <<>> /\ events' = Front(events)
        /\ Range(events) = Range(events') \union {Top}
    BY <1>4, FrontRange DEF ProcessEvent, ClassifierInv, Top
  <2>2. /\ KeepsEvents(manager, manager') /\ KeepsLabels(manager, manager')
        /\ IsStored(manager', Top)
    BY <1>4, ProcessedIsStored DEF ProcessEvent, ClassifierInv
  <2> QED
    BY <2>1, <2>2 DEF StepKeeps, Kept, KeepsEvents, KeepsLabels
<1>5. ASSUME NEW id \in Ids, NEW label \in Labels, AddLabelById(id, label)
      PROVE  StepKeeps
  <2>1. manager' = addLabelById(manager, id, label) /\ events' = events
    BY <1>5 DEF AddLabelById
  <2>2. /\ KeepsEvents(manager, manager')
        /\ \A f \in Range(manager.labeled) :
             f \in Range(manager'.labeled) \/ EventId[f.event] = id
    BY <2>1, LabeledById DEF ClassifierInv
  <2> QED
    BY <1>5, <2>1, <2>2 DEF StepKeeps, Kept, KeepsEvents
<1>6. ASSUME NEW pair \in LabelTimePairs, AddLabel(pair)
      PROVE  StepKeeps
  <2>1. manager' = addLabelByTime(manager, pair) /\ events' = events
    BY <1>6 DEF AddLabel
  <2> QED
    BY <1>1, <2>1, LabeledByTime DEF ClassifierInv
<1>7. ASSUME NEW id \in Ids, Reclassify(id)
      PROVE  StepKeeps
  <2> DEFINE i == IndexOfId(manager.unlabeled, id)
  <2>1. PICK neighbors :
          /\ i # 0 /\ events' = events
          /\ manager' = setEvent(manager, id,
                                 Classified(manager.unlabeled[i], neighbors))
    BY <1>7 DEF Reclassify
  <2> DEFINE f == Classified(manager.unlabeled[i], neighbors)
  <2>2. i \in 1..Len(manager.unlabeled)
    BY <2>1, IndexOfIdFound DEF ClassifierInv, IsManager
  <2>3. IsEntry(manager.unlabeled[i])
    BY <2>2 DEF ClassifierInv, IsManager, IsEntries, Range
  <2>4. IsEntry(f) /\ f.event = manager.unlabeled[i].event
    BY <2>3, ClassifiedEntry
  <2> HIDE DEF f
  <2>5. KeepsEvents(manager, manager') /\ KeepsLabels(manager, manager')
    BY <2>1, <2>4, EventSet DEF ClassifierInv, f
  <2> QED
    BY <1>1, <2>1, <2>5
<1>8. ASSUME NEW event \in NewEvents, PushEvent(event)
      PROVE  StepKeeps
  <2>1. manager' = manager /\ events' = Append(events, event)
    BY <1>8 DEF PushEvent
  <2>2. Range(events) \subseteq Range(events')
    BY <2>1, AppendRange DEF ClassifierInv
  <2> QED
    BY <1>2, <2>1, <2>2
<1>9. ASSUME UNCHANGED <<events, manager>>
      PROVE  StepKeeps
  BY <1>2, <1>9
<1>10. CASE StartClassification \/ MainStops \/ MainLocked \/ MainUnlocked
            \/ RunnerTerminates \/ RunnerReturns \/ RunnerFindsNothing
            \/ RunnerWaits \/ SpuriousWakeup \/ UNCHANGED vars
            \/ \E id \in Ids : ReclassifyTerminates(id)
  BY <1>9, <1>10
  DEF StartClassification, MainStops, Stop, MainLocked, SeesDone,
      MainFindsEvents, MainUnlocked, MainWaits, StopAnalyzing, NotifyAll,
      Join, RunnerTerminates, RunnerReturns, RunnerFindsNothing,
      RunnerWaits, SpuriousWakeup, ReclassifyTerminates, vars, dataVars
<1> QED
  BY <1>3, <1>4, <1>5, <1>6, <1>7, <1>8, <1>10
  DEF Next, MainStarts, MainPushes, RunnerLocked, User

\* Nothing runs but the main thread until the model is loaded
LEMMA LoadsFirst ==
  ASSUME ClassifierInv, [Next]_vars, main_pc' = "loading"
  PROVE  UNCHANGED vars
BY DEF ClassifierInv, Next, MainStarts, SetEventLabelManager,
       StartClassification, MainPushes, PushEvent, MainStops, Stop,
       MainLocked, SeesDone, MainFindsEvents, MainUnlocked, MainWaits,
       StopAnalyzing, NotifyAll, Join, RunnerLocked, ProcessEvent,
       RunnerTerminates, RunnerReturns, RunnerFindsNothing, RunnerWaits,
       User, AddLabelById, AddLabel, Reclassify, ReclassifyTerminates,
       Serving, Terminated, SpuriousWakeup, pcVars

\* The stack changes at its top only
LEMMA StackStep ==
  ASSUME ClassifierInv, [Next]_vars
  PROVE  \/ UNCHANGED <<events, pushed>>
         \/ events # <<>> /\ events' = Front(events) /\ pushed' = pushed
         \/ \E event \in NewEvents : /\ events' = Append(events, event)
                                     /\ pushed' = pushed \union {event}
BY DEF ClassifierInv, Next, MainStarts, SetEventLabelManager,
       StartClassification, MainPushes, PushEvent, MainStops, Stop,
       MainLocked, SeesDone, MainFindsEvents, MainUnlocked, MainWaits,
       StopAnalyzing, NotifyAll, Join, RunnerLocked, ProcessEvent,
       RunnerTerminates, RunnerReturns, RunnerFindsNothing, RunnerWaits,
       User, AddLabelById, AddLabel, Reclassify, ReclassifyTerminates,
       SpuriousWakeup, vars, dataVars

\* Every step keeps the invariant
LEMMA ClassifierInvKept == ClassifierInv /\ [Next]_vars => ClassifierInv'
<1> SUFFICES ASSUME ClassifierInv, [Next]_vars
             PROVE  ClassifierInv'
  OBVIOUS
<1>1. StepKeeps
  BY StepsKeep
<1>2. main_pc' = "loading" => UNCHANGED vars
  BY LoadsFirst
<1>3. /\ events' \in Seq(NewEvents) /\ pushed' \subseteq NewEvents
      /\ \A e \in pushed' : e \in pushed \/ e \in Range(events')
  <2>1. CASE UNCHANGED <<events, pushed>>
    BY <2>1 DEF ClassifierInv
  <2>2. CASE events # <<>> /\ events' = Front(events) /\ pushed' = pushed
    BY <2>2, FrontRange DEF ClassifierInv
  <2>3. CASE \E event \in NewEvents : /\ events' = Append(events, event)
                                      /\ pushed' = pushed \union {event}
    <3>1. PICK event \in NewEvents : /\ events' = Append(events, event)
                                     /\ pushed' = pushed \union {event}
      BY <2>3
    <3>2. events \in Seq(NewEvents) /\ pushed \subseteq NewEvents
      BY DEF ClassifierInv
    <3>3. events' \in Seq(NewEvents)
      BY <3>1, <3>2
    <3>4. event \in Range(events')
      BY <3>1, <3>2, AppendRange
    <3> QED
      BY <3>1, <3>2, <3>3, <3>4
  <2> QED
    BY <2>1, <2>2, <2>3, StackStep
<1>4. \A e \in pushed' : Kept(e)'
  BY <1>1, <1>3, ClassifierAssumption DEF ClassifierInv, StepKeeps, Kept
<1>5. main_pc' = "loading" =>
        manager' = EmptyManager /\ runner_pc' = "none" /\ loop_pc' = "none"
  BY <1>2 DEF ClassifierInv, vars, dataVars, pcVars
<1> QED
  BY <1>1, <1>3, <1>4, <1>5 DEF ClassifierInv, StepKeeps

\* ... and it holds before anything is loaded
LEMMA ClassifierInvInitially == Init => ClassifierInv
<1> SUFFICES ASSUME Init
             PROVE  ClassifierInv
  OBVIOUS
<1>1. IsEntries(<<>>)
  BY DEF IsEntries, Range
<1>2. IsManager(EmptyManager)
  BY <1>1 DEF IsManager, EmptyManager
<1> QED
  BY <1>2 DEF Init, ClassifierInv

-----------------------------------------------------------------------------
(***************************************************************************)
(* No event is forgotten, through processOneEvent, labeling (swap and      *)
(* pop_back) and reclassify in any order.                                  *)
(***************************************************************************)
THEOREM EventsAreKept == Spec => NothingForgotten
<1>1. ClassifierInv /\ [Next]_vars =>
        Range(events) \union Stored(manager)
          \subseteq Range(events') \union Stored(manager')
  <2> SUFFICES ASSUME ClassifierInv, [Next]_vars,
                      NEW e \in Range(events) \union Stored(manager)
               PROVE  e \in Range(events') \union Stored(manager')
    OBVIOUS
  <2>1. e \in Events /\ Kept(e)
    BY EventsStayEvents DEF ClassifierInv, Kept, Stored
  <2>2. Kept(e)'
    BY <2>1, StepsKeep DEF StepKeeps
  <2> QED
    BY <2>1, <2>2 DEF Kept, Stored
<1> QED
  BY <1>1, ClassifierInvInitially, ClassifierInvKept, PTL
  DEF Spec, NothingForgotten

(***************************************************************************)
(* The labels of the user are only changed by the user.                    *)
(***************************************************************************)
THEOREM LabelsAreKept == Spec => UserLabelsSurvive
<1>1. ClassifierInv /\ [Next]_vars =>
        \A f \in Range(manager.labeled) :
          \/ f \in Range(manager'.labeled)
          \/ \E label \in Labels : AddLabelById(EventId[f.event], label)
  BY StepsKeep DEF StepKeeps
<1> QED
  BY <1>1, ClassifierInvInitially, ClassifierInvKept, PTL
  DEF Spec, UserLabelsSurvive

(***************************************************************************)
(* When stopAnalyzingWhenDone goes on to stop the runner, every event that *)
(* was pushed is in the label manager.                                     *)
(***************************************************************************)
THEOREM DoneMeansStored == Spec => StoppedWhenDone
<1>1. ClassifierInv => (SeesDone => pushed \subseteq Stored(manager))
  <2> SUFFICES ASSUME ClassifierInv, SeesDone, NEW e \in pushed
               PROVE  e \in Stored(manager)
    OBVIOUS
  <2>1. Range(events) = {}
    BY DEF SeesDone, StackIsEmpty, Range
  <2> QED
    BY <2>1, ClassifierAssumption DEF ClassifierInv, Kept, Stored
<1> QED
  BY <1>1, ClassifierInvInitially, ClassifierInvKept, PTL
  DEF Spec, StoppedWhenDone

-----------------------------------------------------------------------------
(* The search tree.  An index knn returns is at most its length.           *)

WasTimed(event) ==
  \E pair \in LabelTimePairs : IsNear(pair.time, EventTime[event])

Fits(points, entries) ==
  /\ \E S : points \in Seq(S)
  /\ Len(points) <= Len(entries)
  /\ \A i \in 1..Len(points) : points[i] = entries[i].event
  /\ \A i \in Len(points) + 1..Len(entries) : WasTimed(entries[i].event)

TreeInv ==
  /\ Fits(tree, manager.labeled)
  /\ main_pc = "loading" => tree = <<>>

\* A tree that was just built has all labeled events
LEMMA RegeneratedFits ==
  ASSUME NEW m, IsManager(m), m.labeled # <<>>
  PROVE  Fits(RegeneratedTree(m), m.labeled)
<1> DEFINE s == m.labeled
           n == Len(s)
           points == [i \in 1..n |-> s[i].event]
<1>1. PICK S : s \in Seq(S)
  BY DEF IsManager, IsEntries
<1>2. n \in Nat /\ DOMAIN s = 1..n
  BY <1>1
<1>3. RegeneratedTree(m) = points
  BY <1>2 DEF RegeneratedTree, LabeledEvents
<1> DEFINE T == {s[i].event : i \in 1..n}
<1> HIDE DEF s, n
<1>4. points \in [1..n -> T]
  OBVIOUS
<1>5. \A i \in 1..n : points[i] = s[i].event
  OBVIOUS
<1> HIDE DEF points, T
<1>6. points \in Seq(T) /\ Len(points) = n
  BY <1>2, <1>4
<1>7. n <= n /\ n + 1..n = {}
  BY <1>2
<1>8. Fits(points, s)
  BY <1>5, <1>6, <1>7 DEF Fits, n
<1> QED
  BY <1>3, <1>8 DEF s

\* A label by time adds the event it is near to
LEMMA TimedFits ==
  ASSUME NEW m, IsManager(m), NEW pair \in LabelTimePairs,
         NEW points, Fits(points, m.labeled)
  PROVE  Fits(points, addLabelByTime(m, pair).labeled)
<1> DEFINE I == {k \in 1..Len(m.unlabeled) :
                   IsNear(pair.time, EventTime[m.unlabeled[k].event])}
           i == IF I # {} THEN Min(I) ELSE 0
           n == addLabelByTime(m, pair)
<1>1. n = IF i = 0 THEN m ELSE MoveToLabeled(m, i, pair.label)
  BY DEF addLabelByTime, SelectInSeq
<1>2. CASE i = 0
  BY <1>1, <1>2
<1>3. CASE i # 0
  <2> DEFINE f == m.unlabeled[i]
             g == [f EXCEPT !.label = pair.label]
             s == m.labeled
  <2>1. PICK U : m.unlabeled \in Seq(U)
    BY DEF IsManager, IsEntries
  <2>2. I \subseteq Nat /\ I # {} /\ i = Min(I)
    BY <1>3, <2>1
  <2>3. i \in I
    <3> HIDE DEF I, i
    <3> QED
      BY <2>2, LeastIs
  <2>4. WasTimed(f.event) /\ f \in Range(m.unlabeled)
    <3>1. /\ i \in 1..Len(m.unlabeled)
          /\ IsNear(pair.time, EventTime[m.unlabeled[i].event])
      BY <2>3
    <3> HIDE DEF I, i
    <3>2. f \in Range(m.unlabeled)
      BY <2>1, <3>1 DEF Range
    <3> QED
      BY <3>1, <3>2 DEF WasTimed
  <2> HIDE DEF I, i, f
  <2>5. g.event = f.event
    BY <2>4 DEF IsManager, IsEntries, IsEntry
  <2>6. n.labeled = Append(s, g)
    BY <1>1, <1>3 DEF MoveToLabeled, addLabeledEvent, IsManager, f
  <2>7. PICK S : s \in Seq(S)
    BY DEF IsManager, IsEntries
  <2> HIDE DEF g, s, n
  <2>8. s \in Seq(S \union {g}) /\ g \in S \union {g}
    BY <2>7
  <2>9. /\ Len(s) \in Nat /\ Len(Append(s, g)) = Len(s) + 1
        /\ Append(s, g)[Len(s) + 1] = g
        /\ \A k \in 1..Len(s) : Append(s, g)[k] = s[k]
    BY <2>8
  <2>10. /\ \E T : points \in Seq(T)
         /\ Len(points) \in Nat /\ Len(points) <= Len(s)
         /\ \A k \in 1..Len(points) : points[k] = s[k].event
         /\ \A k \in Len(points) + 1..Len(s) : WasTimed(s[k].event)
    BY DEF Fits, s
  <2> DEFINE t == Append(s, g)
             m1 == Len(points)
             m2 == Len(s)
  <2>11. /\ m1 \in Nat /\ m2 \in Nat /\ m1 <= m2 /\ Len(t) = m2 + 1
         /\ t[m2 + 1] = g /\ \A k \in 1..m2 : t[k] = s[k]
    BY <2>9, <2>10
  <2> HIDE DEF t, m2
  <2>12. \A k \in 1..m1 : k \in 1..m2
    BY <2>11
  <2>13. \A k \in m1 + 1..m2 + 1 : k = m2 + 1 \/ (k \in m1 + 1..m2 /\ k \in 1..m2)
    BY <2>11
  <2>14. \A k \in m1 + 1..m2 + 1 : WasTimed(t[k].event)
    BY <2>4, <2>5, <2>10, <2>11, <2>13 DEF m2
  <2>15. \A k \in 1..m1 : points[k] = t[k].event
    BY <2>10, <2>11, <2>12
  <2>16. Fits(points, t)
    BY <2>10, <2>11, <2>14, <2>15 DEF Fits
  <2> QED
    BY <2>6, <2>16 DEF n, t
<1> QED
  BY <1>2, <1>3

\* A known id leaves a labeled event behind, an unknown one the manager
LEMMA KnownIsLabeled ==
  ASSUME NEW m, IsManager(m), NEW id, NEW label
  PROVE  LET n == addLabelById(m, id, label)
         IN  IF KnowsId(m, id) THEN n.labeled # <<>> ELSE n = m
<1> DEFINE i == IndexOfId(m.unlabeled, id)
           j == IndexOfId(m.labeled, id)
           n == addLabelById(m, id, label)
<1>1. CASE i # 0
  <2> DEFINE g == [m.unlabeled[i] EXCEPT !.label = label]
  <2>1. KnowsId(m, id) /\ n.labeled = Append(m.labeled, g)
    BY <1>1 DEF KnowsId, addLabelById, MoveToLabeled, addLabeledEvent,
                IsManager
  <2>2. PICK S : m.labeled \in Seq(S)
    BY DEF IsManager, IsEntries
  <2> HIDE DEF g
  <2>3. Append(m.labeled, g) # <<>>
    BY <2>2, AppendNotEmpty
  <2> QED
    BY <2>1, <2>3
<1>2. CASE i = 0 /\ j # 0
  <2> DEFINE g == [m.labeled[j] EXCEPT !.label = label]
             s == [m.labeled EXCEPT ![j] = g]
  <2>1. j \in 1..Len(m.labeled)
    BY <1>2, IndexOfIdFound DEF IsManager
  <2>2. PICK S : m.labeled \in Seq(S)
    BY DEF IsManager, IsEntries
  <2>3. g \in Range(s)
    <3> HIDE DEF g, j
    <3> QED
      BY <2>1, <2>2, ReplaceRange
  <2>4. KnowsId(m, id) /\ n.labeled = s
    BY <1>2 DEF KnowsId, addLabelById, IsManager
  <2> HIDE DEF s, g
  <2>5. Range(<<>>) = {}
    BY DEF Range
  <2> QED
    BY <2>3, <2>4, <2>5
<1>3. CASE i = 0 /\ j = 0
  BY <1>3 DEF KnowsId, addLabelById
<1> QED
  BY <1>1, <1>2, <1>3

\* Every step leaves a tree that fits the labeled events
LEMMA TreeInvKept ==
  ASSUME ClassifierInv, ClassifierInv', TreeInv, [Next]_vars
  PROVE  TreeInv'
<1>1. IsManager(manager) /\ IsManager(manager')
  BY DEF ClassifierInv
<1>2. main_pc' = "loading" => tree' = <<>>
  BY LoadsFirst DEF TreeInv, vars, dataVars, pcVars
<1>3. ASSUME manager' = manager, tree' = tree
      PROVE  Fits(tree', manager'.labeled)
  BY <1>3 DEF TreeInv
<1>4. ASSUME NEW model \in Models, SetEventLabelManager(model)
      PROVE  Fits(tree', manager'.labeled)
  <2>1. manager' = model /\ tree' = RegeneratedTree(model) /\ tree = <<>>
    BY <1>4 DEF SetEventLabelManager, TreeInv
  <2>2. CASE model.labeled # <<>>
    BY <1>1, <2>1, <2>2, RegeneratedFits
  <2>3. CASE model.labeled = <<>>
    <3>1. tree' = <<>>
      BY <2>1, <2>3 DEF RegeneratedTree
    <3>2. Fits(<<>>, <<>>)
      <4>1. <<>> \in Seq({}) /\ Len(<<>>) = 0 /\ 1..0 = {} /\ 0 + 1..0 = {}
        OBVIOUS
      <4> QED
        BY <4>1 DEF Fits
    <3> QED
      BY <2>1, <2>3, <3>1, <3>2
  <2> QED
    BY <2>2, <2>3
<1>5. ASSUME ProcessEvent
      PROVE  Fits(tree', manager'.labeled)
  <2>1. CASE AddsLabeled(Top)
    <3> DEFINE g == [Feature(Top) EXCEPT !.label = getEventLabel(Top)]
    <3>1. /\ manager'.labeled = Append(manager.labeled, g)
          /\ tree' = RegeneratedTree(manager')
      BY <1>1, <2>1 DEF AddsLabeled, addLabeledEvent, IsManager
    <3> HIDE DEF g
    <3>2. PICK S : manager.labeled \in Seq(S)
      BY <1>1 DEF IsManager, IsEntries
    <3>3. manager'.labeled # <<>>
      BY <3>1, <3>2, AppendNotEmpty
    <3> QED
      BY <1>1, <3>1, <3>3, RegeneratedFits
  <2>2. CASE ClassifiesAndDrops(Top) \/ CannotClassify(Top)
    <3>1. manager'.labeled = manager.labeled /\ tree' = tree
      BY <1>1, <2>2 DEF ClassifiesAndDrops, CannotClassify, IsManager,
                        addClassifiedEvent, addUnLabeledEvent
    <3> QED
      BY <3>1 DEF TreeInv
  <2> QED
    BY <1>5, <2>1, <2>2 DEF ProcessEvent
<1>6. ASSUME NEW id \in Ids, NEW label \in Labels, AddLabelById(id, label)
      PROVE  Fits(tree', manager'.labeled)
  <2>1. /\ manager' = addLabelById(manager, id, label)
        /\ tree' = IF KnowsId(manager, id) THEN RegeneratedTree(manager')
                   ELSE tree
    BY <1>6 DEF AddLabelById
  <2>2. IF KnowsId(manager, id) THEN manager'.labeled # <<>>
        ELSE manager' = manager
    BY <1>1, <2>1, KnownIsLabeled
  <2> QED
    BY <1>1, <1>3, <2>1, <2>2, RegeneratedFits
<1>7. ASSUME NEW pair \in LabelTimePairs, AddLabel(pair)
      PROVE  Fits(tree', manager'.labeled)
  <2>1. manager' = addLabelByTime(manager, pair) /\ tree' = tree
    BY <1>7 DEF AddLabel
  <2> QED
    BY <1>1, <2>1, TimedFits DEF TreeInv
<1>8. ASSUME NEW id \in Ids, Reclassify(id)
      PROVE  Fits(tree', manager'.labeled)
  <2>1. PICK f : manager' = setEvent(manager, id, f) /\ tree' = tree
    BY <1>8 DEF Reclassify
  <2>2. manager'.labeled = manager.labeled
    BY <1>1, <2>1 DEF setEvent, IsManager
  <2> QED
    BY <2>1, <2>2 DEF TreeInv
<1>9. ASSUME \/ StartClassification \/ MainPushes \/ MainStops
             \/ MainLocked \/ MainUnlocked
             \/ RunnerTerminates \/ RunnerReturns \/ RunnerFindsNothing
             \/ RunnerWaits \/ SpuriousWakeup \/ UNCHANGED vars
             \/ \E id \in Ids : ReclassifyTerminates(id)
      PROVE  Fits(tree', manager'.labeled)
  <2>1. manager' = manager /\ tree' = tree
    BY <1>9
    DEF StartClassification, MainPushes, PushEvent, MainStops, Stop,
        MainLocked, SeesDone, MainFindsEvents, MainUnlocked, MainWaits,
        StopAnalyzing, NotifyAll, Join, RunnerTerminates, RunnerReturns,
        RunnerFindsNothing, RunnerWaits, SpuriousWakeup,
        ReclassifyTerminates, vars, dataVars
  <2> QED
    BY <1>3, <2>1
<1>10. Fits(tree', manager'.labeled)
  <2>1. CASE ProcessEvent
    BY <1>5, <2>1
  <2> QED
    BY <1>4, <1>6, <1>7, <1>8, <1>9, <2>1
    DEF Next, MainStarts, RunnerLocked, User
<1> QED
  BY <1>2, <1>10 DEF TreeInv

(***************************************************************************)
(* The points of the tree are the first labeled events, in their order,    *)
(* and the others were labeled by their time: classifyOneEvent reads the   *)
(* labels of the neighbors knn has found, and within the vector.           *)
(***************************************************************************)
THEOREM TreesFit == Spec => []SearchTreeFits
<1>1. Init => TreeInv
  <2>1. <<>> \in Seq({}) /\ Len(<<>>) = 0 /\ 1..0 = {} /\ 0 + 1..0 = {}
    OBVIOUS
  <2> QED
    BY <2>1 DEF Init, TreeInv, Fits, EmptyManager
<1>2. ClassifierInv /\ TreeInv => SearchTreeFits
  <2> SUFFICES ASSUME ClassifierInv, TreeInv
               PROVE  SearchTreeFits
    OBVIOUS
  <2> DEFINE s == manager.labeled
             n == Len(s)
             k == Len(tree)
             points == LabeledEvents(manager)
  <2>1. PICK S : s \in Seq(S)
    BY DEF ClassifierInv, IsManager, IsEntries
  <2>2. PICK T : tree \in Seq(T)
    BY DEF TreeInv, Fits
  <2>3. /\ n \in Nat /\ k \in Nat /\ k <= n /\ DOMAIN s = 1..n
        /\ \A i \in 1..k : tree[i] = s[i].event
        /\ \A i \in k + 1..n : WasTimed(s[i].event)
    BY <2>1, <2>2 DEF TreeInv, Fits
  <2> DEFINE V == {s[i].event : i \in 1..n}
  <2>4. points = [i \in 1..n |-> s[i].event]
    BY <2>3 DEF LabeledEvents
  <2> HIDE DEF points, s, n
  <2>5. points \in [1..n -> V] /\ \A i \in 1..n : points[i] = s[i].event
    BY <2>4
  <2> HIDE DEF V
  <2>6. points \in Seq(V) /\ Len(points) = n
    BY <2>3, <2>5
  <2> HIDE DEF k
  <2>7. k = Len(tree) /\ \A i \in 1..k : i \in 1..n
    BY <2>3 DEF k
  <2>8. \A i \in 1..k : tree[i] = points[i]
    BY <2>3, <2>5, <2>7
  <2>9. SubSeq(tree, 1, k) = SubSeq(points, 1, k)
    <3>1. /\ SubSeq(tree, 1, k) = [i \in 1..k |-> tree[i]]
          /\ SubSeq(points, 1, k) = [i \in 1..k |-> points[i]]
      BY <2>2, <2>3, <2>6, <2>7
    <3> QED
      BY <2>8, <3>1
  <2>10. IsPrefix(tree, points)
    BY <2>3, <2>6, <2>7, <2>9 DEF IsPrefix
  <2> QED
    BY <2>3, <2>7, <2>10 DEF SearchTreeFits, WasTimed, s, n, points
<1> QED
  BY <1>1, <1>2, TreeInvKept, ClassifierInvInitially, ClassifierInvKept, PTL
  DEF Spec

-----------------------------------------------------------------------------
(* The label file.                                                         *)

Line == [label : Labels, time : Int]

\* What the recursive function in LoadedLabels is for the first n lines
Loads(f, n) ==
  f = [i \in 0..n |->
         IF i = 0 THEN {}
         ELSE IF \E l \in f[i - 1] : IsNear(l.time, LabelFile[i].time)
           THEN f[i - 1]
           ELSE f[i - 1] \union {LabelFile[i]}]

\* The pairs there are after line i, if there were these before it
NextLoaded(loaded, i) ==
  IF \E l \in loaded : IsNear(l.time, LabelFile[i].time)
    THEN loaded ELSE loaded \union {LabelFile[i]}

\* Its value at every line
LEMMA LoadsAt ==
  ASSUME NEW f, NEW n \in Nat, Loads(f, n), NEW i \in 0..n
  PROVE  f[i] = IF i = 0 THEN {} ELSE NextLoaded(f[i - 1], i)
<1> DEFINE g == [j \in 0..n |-> IF j = 0 THEN {} ELSE NextLoaded(f[j - 1], j)]
<1>1. f = g
  BY Zenon DEF Loads, NextLoaded
<1>2. g[i] = IF i = 0 THEN {} ELSE NextLoaded(f[i - 1], i)
  BY Zenon
<1> HIDE DEF g
<1> QED
  BY <1>1, <1>2, Zenon

\* There is such a function
LEMMA LoadsExists ==
  ASSUME NEW n \in Nat
  PROVE  \E f : Loads(f, n)
<1> DEFINE T == {k \in Nat : ~ \E f : Loads(f, k)}
<1>1. SUFFICES ASSUME T # {}
               PROVE  FALSE
  OBVIOUS
<1> DEFINE m == Min(T)
<1>2. m \in T
  <2> HIDE DEF T
  <2>1. T \subseteq Nat
    BY DEF T
  <2> QED
    BY <1>1, <2>1, LeastIs
<1>3. \A k \in T : m <= k
  <2> HIDE DEF T
  <2>1. T \subseteq Nat
    BY DEF T
  <2> QED
    BY <1>1, <2>1, LeastIs
<1> HIDE DEF m
<1>4. m \in Nat /\ ~ \E f : Loads(f, m)
  BY <1>2
<1>5. m # 0
  <2>1. PICK f : f = [i \in 0..0 |-> {}]
    OBVIOUS
  <2>2. \A i \in 0..0 : i = 0
    OBVIOUS
  <2>3. f = [i \in 0..0 |-> IF i = 0 THEN {} ELSE NextLoaded(f[i - 1], i)]
    BY <2>1, <2>2, Zenon
  <2>4. Loads(f, 0)
    BY <2>3, Zenon DEF Loads, NextLoaded
  <2> QED
    BY <1>4, <2>4
<1>6. m - 1 \in Nat /\ m - 1 \notin T
  BY <1>3, <1>4, <1>5
<1>7. PICK f : Loads(f, m - 1)
  BY <1>6
<1> DEFINE atF(i) == IF i = 0 THEN {} ELSE NextLoaded(f[i - 1], i)
<1>8. PICK g : g = [i \in 0..m |-> atF(i)]
  OBVIOUS
<1> DEFINE atG(i) == IF i = 0 THEN {} ELSE NextLoaded(g[i - 1], i)
<1>9. \A i \in 0..m : atF(i) = atG(i)
  <2>1. TAKE i \in 0..m
  <2>2. ASSUME i # 0
        PROVE  g[i - 1] = f[i - 1]
    <3>1. i - 1 \in 0..m - 1 /\ i - 1 \in 0..m
      BY <1>4, <2>2
    <3>2. f[i - 1] = atF(i - 1)
      BY <1>6, <1>7, <3>1, LoadsAt
    <3> HIDE DEF atF
    <3>3. g[i - 1] = atF(i - 1)
      BY <1>8, <3>1, Zenon
    <3> QED
      BY <3>2, <3>3, Zenon
  <2> QED
    BY <2>2, Zenon
<1>10. g = [i \in 0..m |-> atG(i)]
  <2> HIDE DEF atF, atG
  <2> QED
    BY <1>8, <1>9, Zenon
<1>11. Loads(g, m)
  BY <1>10, Zenon DEF Loads, NextLoaded
<1> QED
  BY <1>4, <1>11, Zenon

\* A pair that was loaded is a line of the file
LEMMA LoadedAreLines == LoadedLabels \subseteq Line
<1> DEFINE n == Len(LabelFile)
<1>1. LabelFile \in Seq(Line) /\ n \in Nat
  BY LabelAssumption DEF Line
<1>2. PICK f : Loads(f, n) /\ LoadedLabels = f[n]
  <2> DEFINE f == CHOOSE f : Loads(f, n)
  <2>1. Loads(f, n)
    BY <1>1, LoadsExists, Zenon
  <2>2. LoadedLabels = f[n]
    BY Zenon DEF LoadedLabels, Loads
  <2> QED
    BY <2>1, <2>2, Zenon
<1> DEFINE T == {k \in 0..n : ~(f[k] \subseteq Line)}
<1>3. CASE T = {}
  BY <1>1, <1>2, <1>3
<1>4. CASE T # {}
  <2> DEFINE m == Min(T)
  <2>1. T \subseteq Nat
    BY <1>1
  <2>2. m \in T /\ \A k \in T : m <= k
    <3> HIDE DEF T
    <3> QED
      BY <1>4, <2>1, LeastIs
  <2> HIDE DEF m
  <2>3. m \in 0..n /\ ~(f[m] \subseteq Line)
    BY <2>2
  <2> HIDE DEF n
  <2>4. f[m] = IF m = 0 THEN {} ELSE NextLoaded(f[m - 1], m)
    BY <1>1, <1>2, <2>3, LoadsAt
  <2>5. m # 0 /\ m \in 1..n /\ m - 1 \in 0..n
    BY <1>1, <2>3, <2>4
  <2>6. f[m - 1] \subseteq Line
    BY <1>1, <2>2, <2>5
  <2>7. LabelFile[m] \in Line
    BY <1>1, <2>5 DEF n
  <2>8. f[m] \subseteq Line
    BY <2>4, <2>5, <2>6, <2>7 DEF NextLoaded
  <2> QED
    BY <2>3, <2>8
<1> QED
  BY <1>3, <1>4

\* The label of the earliest pair near an event is the label of a device
LEMMA FoundLabel ==
  ASSUME NEW event \in Events
  PROVE  getEventLabel(event) \in Labels \union {NoLabel}
<1> DEFINE near   == {l \in LoadedLabels : IsNear(l.time, EventTime[event])}
           bound  == EventTime[event] - AcceptedDifference
           delays == {l.time - bound : l \in near}
           d      == Min(delays)
<1>1. EventTime[event] \in Int /\ AcceptedDifference \in Nat /\ bound \in Int
  BY LabelAssumption
<1>2. \A l \in near : l.label \in Labels /\ l.time \in Int
  BY LoadedAreLines DEF Line
<1>3. \A l \in near : l.time - bound \in Nat
  BY <1>1, <1>2 DEF IsNear
<1>4. CASE near = {}
  BY <1>4 DEF getEventLabel
<1>5. CASE near # {}
  <2> DEFINE first(l) == \A m \in near : l.time <= m.time
  <2>1. delays \subseteq Nat /\ delays # {}
    BY <1>3, <1>5
  <2>2. d \in delays
    <3> HIDE DEF delays
    <3> QED
      BY <2>1, LeastIs
  <2>3. \A e \in delays : d <= e
    <3> HIDE DEF delays
    <3> QED
      BY <2>1, LeastIs
  <2> HIDE DEF d
  <2>4. PICK l \in near : d = l.time - bound
    BY <2>2
  <2>5. \A m \in near : l.time - bound <= m.time - bound
    BY <2>3, <2>4
  <2> HIDE DEF near, bound
  <2>6. first(l)
    BY <1>1, <1>2, <2>5
  <2>7. (CHOOSE k \in near : first(k)) \in near
    BY <2>6, Zenon
  <2>8. getEventLabel(event) = (CHOOSE k \in near : first(k)).label
    BY <1>5 DEF getEventLabel, near
  <2> HIDE DEF first
  <2> QED
    BY <1>2, <2>7, <2>8
<1> QED
  BY <1>4, <1>5

-----------------------------------------------------------------------------
(* The labels of the neighbors.                                            *)

\* How many of them have this label
Occurs(labels, l) == Cardinality({i \in DOMAIN labels : labels[i] = l})

\* The most frequent label is one of them, and so is the least such label
LEMMA MajorityIs ==
  ASSUME NEW labels, IsFiniteSet(DOMAIN labels), DOMAIN labels # {},
         Range(labels) \subseteq Labels
  PROVE  /\ Majority(labels).label \in Labels
         /\ Majority(labels).certainty \in Nat
<1> DEFINE total == Cardinality(DOMAIN labels)
           rest  == {total - Occurs(labels, l) : l \in Range(labels)}
           best  == {l \in Range(labels) :
                       \A other \in Range(labels) :
                         Occurs(labels, other) <= Occurs(labels, l)}
           d     == Min(rest)
<1>1. total \in Nat
  BY FS_CardinalityType
<1>2. ASSUME NEW l
      PROVE  Occurs(labels, l) \in Nat /\ Occurs(labels, l) <= total
  <2> DEFINE I == {i \in DOMAIN labels : labels[i] = l}
  <2>1. I \in SUBSET DOMAIN labels
    OBVIOUS
  <2> HIDE DEF I
  <2>2. IsFiniteSet(I) /\ Cardinality(I) <= total
    BY <2>1, FS_Subset
  <2>3. Cardinality(I) \in Nat
    BY <2>2, FS_CardinalityType
  <2> QED
    BY <2>2, <2>3 DEF Occurs, I
<1>3. rest \subseteq Nat
  BY <1>1, <1>2
<1>4. rest # {}
  BY DEF Range
<1>5. d \in rest
  <2> HIDE DEF rest
  <2> QED
    BY <1>3, <1>4, LeastIs
<1>6. \A r \in rest : d <= r
  <2> HIDE DEF rest
  <2> QED
    BY <1>3, <1>4, LeastIs
<1> HIDE DEF d
<1>7. PICK l \in Range(labels) : d = total - Occurs(labels, l)
  BY <1>5
<1>8. ASSUME NEW other \in Range(labels)
      PROVE  Occurs(labels, other) <= Occurs(labels, l)
  <2>1. total - Occurs(labels, l) <= total - Occurs(labels, other)
    BY <1>6, <1>7
  <2> HIDE DEF total
  <2> QED
    BY <1>1, <1>2, <2>1
<1>9. best # {}
  BY <1>8
<1>10. best \subseteq Labels /\ best \subseteq Nat
  BY LabelAssumption
<1>11. Min(best) \in best
  <2> HIDE DEF best
  <2> QED
    BY <1>9, <1>10, LeastIs
<1>12. Majority(labels)
         = [label |-> Min(best), certainty |-> Occurs(labels, Min(best))]
  BY DEF Majority, Occurs
<1>13. Min(best) \in Labels /\ Occurs(labels, Min(best)) \in Nat
  <2> HIDE DEF best
  <2> QED
    BY <1>2, <1>10, <1>11
<1> HIDE DEF best
<1> QED
  BY <1>12, <1>13

-----------------------------------------------------------------------------
(* The types of the label manager.                                         *)

LabeledEntry == {f \in Entry : f.label \in Labels}

TypedManager(m) ==
  /\ m = [labeled |-> m.labeled, unlabeled |-> m.unlabeled]
  /\ m.labeled \in Seq(LabeledEntry) /\ m.unlabeled \in Seq(Entry)

\* In the words of TypeOK
LEMMA TypedIs ==
  ASSUME NEW m
  PROVE  TypedManager(m) <=>
           /\ m \in Managers
           /\ \A i \in DOMAIN m.labeled : m.labeled[i].label \in Labels
<1>1. ASSUME TypedManager(m)
      PROVE  /\ m \in Managers
             /\ \A i \in DOMAIN m.labeled : m.labeled[i].label \in Labels
  <2> DEFINE s == m.labeled
  <2>1. s \in Seq(LabeledEntry)
    BY <1>1 DEF TypedManager
  <2> HIDE DEF s
  <2>2. /\ s \in Seq(Entry)
        /\ \A i \in DOMAIN s : s[i].label \in Labels
    <3>1. Len(s) \in Nat /\ s \in [1..Len(s) -> LabeledEntry]
          /\ DOMAIN s = 1..Len(s)
      BY <2>1
    <3>2. \A i \in 1..Len(s) : s[i] \in Entry /\ s[i].label \in Labels
      BY <3>1 DEF LabeledEntry
    <3>3. s \in [1..Len(s) -> Entry]
      BY <3>1, <3>2
    <3> QED
      BY <3>1, <3>2, <3>3
  <2> QED
    BY <1>1, <2>2 DEF TypedManager, Managers, s
<1>2. ASSUME m \in Managers,
             \A i \in DOMAIN m.labeled : m.labeled[i].label \in Labels
      PROVE  TypedManager(m)
  <2> DEFINE s == m.labeled
  <2>1. s \in Seq(Entry) /\ \A i \in DOMAIN s : s[i].label \in Labels
    BY <1>2 DEF Managers
  <2> HIDE DEF s
  <2>2. s \in Seq(LabeledEntry)
    <3>1. Len(s) \in Nat /\ s \in [1..Len(s) -> Entry]
          /\ DOMAIN s = 1..Len(s)
      BY <2>1
    <3>2. \A i \in 1..Len(s) : s[i] \in LabeledEntry
      BY <2>1, <3>1 DEF LabeledEntry
    <3>3. s \in [1..Len(s) -> LabeledEntry]
      BY <3>1, <3>2
    <3> QED
      BY <3>1, <3>3
  <2> QED
    BY <1>2, <2>2 DEF TypedManager, Managers, s
<1> QED
  BY <1>1, <1>2

\* Appending keeps the type of a sequence
LEMMA AppendTyped ==
  ASSUME NEW S, NEW s \in Seq(S), NEW f \in S
  PROVE  Append(s, f) \in Seq(S)
OBVIOUS

\* So does an assignment to one position
LEMMA ReplaceTyped ==
  ASSUME NEW S, NEW s \in Seq(S), NEW f \in S, NEW i \in 1..Len(s)
  PROVE  [s EXCEPT ![i] = f] \in Seq(S)
OBVIOUS

\* What a label does to an entry
LEMMA LabeledTyped ==
  ASSUME NEW f \in Entry, NEW label \in Labels
  PROVE  [f EXCEPT !.label = label] \in LabeledEntry
BY DEF Entry, LabeledEntry

\* The entry of a new event, without a label or with that of an unknown one
LEMMA FeatureTyped ==
  ASSUME NEW event \in Events
  PROVE  /\ Feature(event) \in Entry
         /\ [Feature(event) EXCEPT !.label = EventUnknown] \in Entry
BY DEF Feature, Entry

\* addLabeledEvent keeps the types
LEMMA AddedLabeledTyped ==
  ASSUME NEW m, TypedManager(m), NEW f \in Entry, NEW label \in Labels
  PROVE  TypedManager(addLabeledEvent(m, f, label))
<1> DEFINE g == [f EXCEPT !.label = label]
           s == Append(m.labeled, g)
           n == addLabeledEvent(m, f, label)
<1>1. g \in LabeledEntry
  BY LabeledTyped
<1> HIDE DEF g
<1>2. s \in Seq(LabeledEntry)
  BY <1>1, AppendTyped DEF TypedManager
<1> HIDE DEF s
<1>3. n = [labeled |-> s, unlabeled |-> m.unlabeled]
  <2>1. m = [labeled |-> m.labeled, unlabeled |-> m.unlabeled]
    BY DEF TypedManager
  <2> QED
    BY <2>1 DEF addLabeledEvent, s, g
<1> HIDE DEF n
<1> QED
  BY <1>2, <1>3 DEF TypedManager, n

\* addUnLabeledEvent keeps the types
LEMMA AddedUnlabeledTyped ==
  ASSUME NEW m, TypedManager(m), NEW f \in Entry
  PROVE  TypedManager(addUnLabeledEvent(m, f))
<1> DEFINE s == Append(m.unlabeled, f)
           n == addUnLabeledEvent(m, f)
<1>1. s \in Seq(Entry)
  BY AppendTyped DEF TypedManager
<1> HIDE DEF s
<1>2. n = [labeled |-> m.labeled, unlabeled |-> s]
  BY DEF addUnLabeledEvent, TypedManager, s
<1> HIDE DEF n
<1> QED
  BY <1>1, <1>2 DEF TypedManager, n

\* An entry that is moved to the labeled ones has a label then
LEMMA MovedTyped ==
  ASSUME NEW m, TypedManager(m), NEW i \in 1..Len(m.unlabeled),
         NEW label \in Labels
  PROVE  TypedManager(MoveToLabeled(m, i, label))
<1> DEFINE s == SwappedOut(m.unlabeled, i)
           f == m.unlabeled[i]
           r == [labeled |-> m.labeled, unlabeled |-> s]
<1>1. f \in Entry
  BY DEF TypedManager
<1>2. s \in Seq(Entry)
  BY SwapRange DEF TypedManager
<1>3. MoveToLabeled(m, i, label) = addLabeledEvent(r, f, label)
  BY DEF MoveToLabeled, TypedManager
<1> HIDE DEF s, f
<1>4. TypedManager(r)
  BY <1>2 DEF TypedManager
<1> HIDE DEF r
<1> QED
  BY <1>1, <1>3, <1>4, AddedLabeledTyped

\* The same manager in the words of the sections above
LEMMA TypedIsManager ==
  ASSUME NEW m, TypedManager(m)
  PROVE  IsManager(m)
<1>1. ASSUME NEW s, s \in Seq(Entry) \/ s \in Seq(LabeledEntry)
      PROVE  IsEntries(s)
  <2>1. Range(s) \subseteq Entry
    BY <1>1 DEF Range, LabeledEntry
  <2> QED
    BY <1>1, <2>1 DEF IsEntries, IsEntry, Entry
<1> QED
  BY <1>1 DEF TypedManager, IsManager

\* addLabel by id keeps the types
LEMMA LabeledByIdTyped ==
  ASSUME NEW m, TypedManager(m), NEW id, NEW label \in Labels
  PROVE  TypedManager(addLabelById(m, id, label))
<1> DEFINE i == IndexOfId(m.unlabeled, id)
           j == IndexOfId(m.labeled, id)
           n == addLabelById(m, id, label)
<1>1. CASE i # 0
  <2>1. n = MoveToLabeled(m, i, label)
    BY <1>1 DEF addLabelById
  <2>2. i \in 1..Len(m.unlabeled)
    BY <1>1, IndexOfIdFound, TypedIsManager DEF IsManager
  <2> QED
    BY <2>1, <2>2, MovedTyped
<1>2. CASE i = 0 /\ j # 0
  <2> DEFINE g == [m.labeled[j] EXCEPT !.label = label]
             s == [m.labeled EXCEPT ![j] = g]
  <2>1. j \in 1..Len(m.labeled)
    BY <1>2, IndexOfIdFound, TypedIsManager DEF IsManager
  <2>2. m.labeled[j] \in Entry
    <3> HIDE DEF j
    <3> QED
      BY <2>1 DEF TypedManager, LabeledEntry
  <2>3. g \in LabeledEntry
    BY <2>2, LabeledTyped
  <2>4. n = [labeled |-> s, unlabeled |-> m.unlabeled]
    BY <1>2 DEF addLabelById, TypedManager
  <2> HIDE DEF g
  <2>5. s \in Seq(LabeledEntry)
    <3> HIDE DEF j
    <3> QED
      BY <2>1, <2>3, ReplaceTyped DEF TypedManager
  <2> HIDE DEF s, n
  <2> QED
    BY <2>4, <2>5 DEF TypedManager, n
<1>3. CASE i = 0 /\ j = 0
  BY <1>3 DEF addLabelById
<1> QED
  BY <1>1, <1>2, <1>3

\* addLabel by time keeps the types
LEMMA LabeledByTimeTyped ==
  ASSUME NEW m, TypedManager(m), NEW pair \in LabelTimePairs
  PROVE  TypedManager(addLabelByTime(m, pair))
<1> DEFINE I == {k \in 1..Len(m.unlabeled) :
                   IsNear(pair.time, EventTime[m.unlabeled[k].event])}
           i == IF I # {} THEN Min(I) ELSE 0
           n == addLabelByTime(m, pair)
<1>1. n = IF i = 0 THEN m ELSE MoveToLabeled(m, i, pair.label)
  BY DEF addLabelByTime, SelectInSeq
<1>2. ASSUME i # 0
      PROVE  i \in 1..Len(m.unlabeled)
  <2>1. Len(m.unlabeled) \in Nat
    BY DEF TypedManager
  <2>2. I \subseteq Nat /\ I # {} /\ i = Min(I)
    BY <1>2, <2>1
  <2>3. i \in I
    <3> HIDE DEF I, i
    <3> QED
      BY <2>2, LeastIs
  <2> QED
    BY <2>3
<1>3. pair.label \in Labels
  BY ClassifierAssumption
<1> HIDE DEF i, n
<1> QED
  BY <1>1, <1>2, <1>3, MovedTyped DEF n

\* setEvent keeps the types
LEMMA EventSetTyped ==
  ASSUME NEW m, TypedManager(m), NEW id, NEW f \in Entry
  PROVE  TypedManager(setEvent(m, id, f))
<1> DEFINE i == IndexOfId(m.unlabeled, id)
           s == [m.unlabeled EXCEPT ![i] = f]
           n == setEvent(m, id, f)
<1>1. CASE i = 0
  BY <1>1 DEF setEvent
<1>2. CASE i # 0
  <2>1. i \in 1..Len(m.unlabeled)
    BY <1>2, IndexOfIdFound, TypedIsManager DEF IsManager
  <2> HIDE DEF i
  <2>2. s \in Seq(Entry)
    BY <2>1, ReplaceTyped DEF TypedManager
  <2>3. n = [labeled |-> m.labeled, unlabeled |-> s]
    BY <1>2 DEF setEvent, TypedManager, i
  <2> HIDE DEF s, n
  <2> QED
    BY <2>2, <2>3 DEF TypedManager, n
<1> QED
  BY <1>1, <1>2

\* The tree is built from events
LEMMA RegeneratedTyped ==
  ASSUME NEW m, TypedManager(m), tree \in Seq(Events)
  PROVE  RegeneratedTree(m) \in Seq(Events)
<1> DEFINE s == m.labeled
           n == Len(s)
<1>1. s \in Seq(LabeledEntry) /\ n \in Nat /\ DOMAIN s = 1..n
  BY DEF TypedManager
<1>2. \A i \in 1..n : s[i].event \in Events
  BY <1>1 DEF LabeledEntry, Entry
<1> HIDE DEF s, n
<1>3. [i \in 1..n |-> s[i].event] \in [1..n -> Events]
  BY <1>2
<1>4. LabeledEvents(m) \in Seq(Events)
  BY <1>1, <1>3 DEF LabeledEvents, s
<1> QED
  BY <1>4 DEF RegeneratedTree

\* The neighbors are labeled events, so the class is the label of a device
LEMMA ClassifiedTyped ==
  ASSUME TypedManager(manager), TreeInv, NEW f \in Entry,
         NEW neighbors \in Neighbors
  PROVE  Classified(f, neighbors) \in Entry
<1> DEFINE s      == manager.labeled
           labels == [i \in neighbors |-> s[i].label]
           class  == Majority(labels)
<1>1. s \in Seq(LabeledEntry) /\ Len(s) \in Nat
  BY DEF TypedManager
<1>2. PICK T : tree \in Seq(T)
  BY DEF TreeInv, Fits
<1>3. DOMAIN tree = 1..Len(tree) /\ Len(tree) \in Nat /\ Len(tree) <= Len(s)
  BY <1>2 DEF TreeInv, Fits
<1>4. /\ neighbors \subseteq 1..Len(tree) /\ Cardinality(neighbors) = K
  BY <1>3 DEF Neighbors, kSubset
<1>5. IsFiniteSet(neighbors) /\ neighbors # {}
  <2>1. IsFiniteSet(1..Len(tree))
    BY <1>3, FS_Interval
  <2>2. IsFiniteSet(neighbors)
    BY <1>4, <2>1, FS_Subset
  <2> QED
    BY <1>4, <2>2, FS_EmptySet, ClassifierAssumption
<1>6. \A i \in neighbors : s[i].label \in Labels
  <2>1. 1..Len(tree) \subseteq 1..Len(s)
    BY <1>1, <1>3
  <2>2. \A i \in 1..Len(s) : s[i] \in LabeledEntry
    BY <1>1
  <2> QED
    BY <1>4, <2>1, <2>2 DEF LabeledEntry
<1> HIDE DEF s
<1>7. DOMAIN labels = neighbors /\ Range(labels) \subseteq Labels
  BY <1>6 DEF Range
<1> HIDE DEF labels
<1>8. class.label \in Labels /\ class.certainty \in Nat
  BY <1>5, <1>7, MajorityIs
<1>9. Classified(f, neighbors)
        = [f EXCEPT !.label = class.label, !.certainty = class.certainty]
  BY DEF Classified, labels, s
<1> HIDE DEF class
<1> QED
  BY <1>8, <1>9 DEF Entry

-----------------------------------------------------------------------------
(* The types of all variables.                                             *)

DataTypes ==
  /\ events \in Seq(NewEvents) /\ pushed \subseteq NewEvents
  /\ TypedManager(manager)
  /\ tree \in Seq(Events)

ControlTypes ==
  /\ continue_analyzing \in BOOLEAN
  /\ events_mutex \in {"none", "main", "runner"}
  /\ main_pc \in {"loading", "starting", "detecting", "locking", "blocking",
                  "waiting", "stopping", "notifying", "joining", "stopped",
                  "terminated"}
  /\ runner_pc \in {"none", "locking", "blocking", "waiting", "returned",
                    "terminated"}
  /\ loop_pc \in {"none", "serving", "terminated"}

\* Whatever processOneEvent finds, entries have their types
LEMMA ProcessedTyped ==
  ASSUME DataTypes, NEW event \in Events,
         AddsLabeled(event) \/ ClassifiesAndDrops(event)
           \/ CannotClassify(event)
  PROVE  TypedManager(manager') /\ tree' \in Seq(Events)
<1> DEFINE f == [Feature(event) EXCEPT !.label = EventUnknown]
<1>1. Feature(event) \in Entry /\ f \in Entry
  BY FeatureTyped
<1>2. TypedManager(manager) /\ tree \in Seq(Events)
  BY DEF DataTypes
<1> HIDE DEF f
<1>3. CASE AddsLabeled(event)
  <2>1. /\ getEventLabel(event) \in Labels /\ tree' = RegeneratedTree(manager')
        /\ manager' = addLabeledEvent(manager, Feature(event),
                                      getEventLabel(event))
    BY <1>3, FoundLabel DEF AddsLabeled, FindsLabel
  <2>2. TypedManager(manager')
    BY <1>1, <1>2, <2>1, AddedLabeledTyped
  <2> QED
    BY <1>2, <2>1, <2>2, RegeneratedTyped
<1>4. CASE ClassifiesAndDrops(event)
  <2>1. manager' = addUnLabeledEvent(manager, Feature(event)) /\ tree' = tree
    BY <1>4 DEF ClassifiesAndDrops, addClassifiedEvent
  <2> QED
    BY <1>1, <1>2, <2>1, AddedUnlabeledTyped
<1>5. CASE CannotClassify(event)
  <2> DEFINE n == addUnLabeledEvent(manager, f)
  <2>1. manager' = addUnLabeledEvent(n, f) /\ tree' = tree
    BY <1>5 DEF CannotClassify, addClassifiedEvent, f
  <2>2. TypedManager(n)
    BY <1>1, <1>2, AddedUnlabeledTyped
  <2> HIDE DEF n
  <2> QED
    BY <1>1, <1>2, <2>1, <2>2, AddedUnlabeledTyped
<1> QED
  BY <1>3, <1>4, <1>5

\* Every step keeps the types of events, entries and the tree
LEMMA DataTypesKept ==
  ASSUME DataTypes, TreeInv, [Next]_vars
  PROVE  DataTypes'
<1>1. /\ events \in Seq(NewEvents) /\ pushed \subseteq NewEvents
      /\ TypedManager(manager) /\ tree \in Seq(Events)
  BY DEF DataTypes
<1>2. ASSUME UNCHANGED <<manager, tree>>
      PROVE  TypedManager(manager') /\ tree' \in Seq(Events)
  BY <1>1, <1>2
<1>3. ASSUME NEW model \in Models, SetEventLabelManager(model)
      PROVE  DataTypes'
  <2>1. /\ manager' = model /\ tree' = RegeneratedTree(model)
        /\ UNCHANGED <<events, pushed>>
    BY <1>3 DEF SetEventLabelManager
  <2>2. TypedManager(model)
    BY ClassifierAssumption, TypedIs
  <2>3. tree' \in Seq(Events)
    BY <1>1, <2>1, <2>2, RegeneratedTyped
  <2> QED
    BY <1>1, <2>1, <2>2, <2>3 DEF DataTypes
<1>4. ASSUME NEW event \in NewEvents, PushEvent(event)
      PROVE  DataTypes'
  BY <1>1, <1>4 DEF PushEvent, DataTypes
<1>5. CASE ProcessEvent
  <2>1. /\ events # <<>> /\ events' = Front(events) /\ pushed' = pushed
        /\ AddsLabeled(Top) \/ ClassifiesAndDrops(Top) \/ CannotClassify(Top)
    BY <1>5 DEF ProcessEvent
  <2>2. Front(events) \in Seq(NewEvents) /\ Last(events) \in Range(events)
    BY <1>1, <2>1, FrontRange
  <2>3. Top \in Events
    BY <1>1, <2>2, ClassifierAssumption DEF Top, Range
  <2>4. TypedManager(manager') /\ tree' \in Seq(Events)
    BY <2>1, <2>3, ProcessedTyped
  <2> QED
    BY <1>1, <2>1, <2>2, <2>4 DEF DataTypes
<1>6. ASSUME NEW id \in Ids, NEW label \in Labels, AddLabelById(id, label)
      PROVE  DataTypes'
  <2>1. /\ manager' = addLabelById(manager, id, label)
        /\ tree' = IF KnowsId(manager, id) THEN RegeneratedTree(manager')
                   ELSE tree
        /\ UNCHANGED <<events, pushed>>
    BY <1>6 DEF AddLabelById
  <2>2. TypedManager(manager')
    BY <1>1, <2>1, LabeledByIdTyped
  <2>3. tree' \in Seq(Events)
    BY <1>1, <2>1, <2>2, RegeneratedTyped
  <2> QED
    BY <1>1, <2>1, <2>2, <2>3 DEF DataTypes
<1>7. ASSUME NEW pair \in LabelTimePairs, AddLabel(pair)
      PROVE  DataTypes'
  <2>1. /\ manager' = addLabelByTime(manager, pair)
        /\ UNCHANGED <<events, pushed, tree>>
    BY <1>7 DEF AddLabel
  <2>2. TypedManager(manager')
    BY <1>1, <2>1, LabeledByTimeTyped
  <2> QED
    BY <1>1, <2>1, <2>2 DEF DataTypes
<1>8. ASSUME NEW id \in Ids, Reclassify(id)
      PROVE  DataTypes'
  <2> DEFINE i == IndexOfId(manager.unlabeled, id)
  <2>1. PICK neighbors \in Neighbors :
          /\ i # 0 /\ UNCHANGED <<events, pushed, tree>>
          /\ manager' = setEvent(manager, id,
                                 Classified(manager.unlabeled[i], neighbors))
    BY <1>8 DEF Reclassify
  <2>2. i \in 1..Len(manager.unlabeled)
    BY <1>1, <2>1, IndexOfIdFound, TypedIsManager DEF IsManager
  <2> HIDE DEF i
  <2>3. manager.unlabeled[i] \in Entry
    BY <1>1, <2>2 DEF TypedManager
  <2>4. Classified(manager.unlabeled[i], neighbors) \in Entry
    BY <1>1, <2>3, ClassifiedTyped
  <2>5. TypedManager(manager')
    BY <1>1, <2>1, <2>4, EventSetTyped
  <2> QED
    BY <1>1, <2>1, <2>5 DEF DataTypes
<1>9. ASSUME \/ StartClassification \/ MainStops
             \/ MainLocked \/ MainUnlocked
             \/ RunnerTerminates \/ RunnerReturns \/ RunnerFindsNothing
             \/ RunnerWaits \/ SpuriousWakeup \/ UNCHANGED vars
             \/ \E id \in Ids : ReclassifyTerminates(id)
      PROVE  DataTypes'
  <2>1. UNCHANGED dataVars
    BY <1>9
    DEF StartClassification, MainStops, Stop, MainLocked, SeesDone,
        MainFindsEvents, MainUnlocked, MainWaits, StopAnalyzing, NotifyAll,
        Join, RunnerTerminates, RunnerReturns, RunnerFindsNothing,
        RunnerWaits, SpuriousWakeup, ReclassifyTerminates, vars
  <2> QED
    BY <1>1, <2>1 DEF DataTypes, dataVars
<1> QED
  BY <1>3, <1>4, <1>5, <1>6, <1>7, <1>8, <1>9
  DEF Next, MainStarts, MainPushes, RunnerLocked, User

\* Every step keeps the types of flags and program counters
LEMMA ControlTypesKept == ControlTypes /\ [Next]_vars => ControlTypes'
<1> SUFFICES ASSUME ControlTypes, [Next]_vars
             PROVE  ControlTypes'
  OBVIOUS
<1> USE DEF ControlTypes
<1>1. CASE MainStarts \/ MainPushes \/ MainStops
  BY <1>1 DEF MainStarts, SetEventLabelManager, StartClassification,
              MainPushes, PushEvent, Woken, MainStops, Stop
<1>2. CASE MainLocked \/ MainUnlocked
  BY <1>2 DEF MainLocked, SeesDone, MainFindsEvents, MainUnlocked, MainWaits,
              StopAnalyzing, NotifyAll, Woken, Join
<1>3. CASE RunnerLocked \/ RunnerWaits
  BY <1>3 DEF RunnerLocked, ProcessEvent, RunnerTerminates, Terminated,
              RunnerReturns, RunnerFindsNothing, RunnerWaits, pcVars
<1>4. CASE User \/ SpuriousWakeup
  BY <1>4 DEF User, AddLabelById, AddLabel, Reclassify, ReclassifyTerminates,
              Terminated, SpuriousWakeup, pcVars
<1>5. CASE UNCHANGED vars
  BY <1>5 DEF vars, pcVars
<1> QED
  BY <1>1, <1>2, <1>3, <1>4, <1>5 DEF Next

(***************************************************************************)
(* Types; what a label is: an entry the classifier reads as labeled has    *)
(* the label of a device, whether the file, the user or an earlier run     *)
(* gave it, and never the one of an event that could not be classified.    *)
(***************************************************************************)
THEOREM TypeCorrect == Spec => []TypeOK
<1>1. Init => DataTypes /\ ControlTypes
  <2>1. TypedManager(EmptyManager)
    BY DEF TypedManager, EmptyManager
  <2> QED
    BY <2>1 DEF Init, DataTypes, ControlTypes
<1>2. TreeInv /\ DataTypes /\ [Next]_vars => DataTypes'
  BY DataTypesKept
<1>3. DataTypes /\ ControlTypes => TypeOK
  BY TypedIs DEF DataTypes, ControlTypes, TypeOK
<1>4. Init => TreeInv
  <2>1. <<>> \in Seq({}) /\ Len(<<>>) = 0 /\ 1..0 = {} /\ 0 + 1..0 = {}
    OBVIOUS
  <2> QED
    BY <2>1 DEF Init, TreeInv, Fits, EmptyManager
<1> QED
  BY <1>1, <1>2, <1>3, <1>4, TreeInvKept, ControlTypesKept,
     ClassifierInvInitially, ClassifierInvKept, PTL
  DEF Spec
-----------------------------------------------------------------------------
(* What the methods of the label manager do, in the words of               *)
(* EventCollection.                                                        *)

Labeling(e, label) == [event |-> e, label |-> label]

\* An event that is labeled may stay in the other vector as well
OneLess(S, T, e) == e \in S /\ (T = S \/ T = S \ {e})

\* ... and a label that is changed may be there twice
Changed(S, T, old, new) ==
  old \in S /\ (T = S \union {new} \/ T = (S \ {old}) \union {new})

\* addLabeledEvent adds a label
LEMMA AddedLabel ==
  ASSUME NEW m, IsManager(m), NEW f, IsEntry(f), NEW label
  PROVE  LET n == addLabeledEvent(m, f, label)
         IN  /\ UnlabeledEvents(n) = UnlabeledEvents(m)
             /\ GivenLabels(n)
                  = GivenLabels(m) \union {Labeling(f.event, label)}
<1> DEFINE g == [f EXCEPT !.label = label]
           s == Append(m.labeled, g)
           n == addLabeledEvent(m, f, label)
<1>1. g.event = f.event /\ g.label = label
  BY DEF IsEntry
<1> HIDE DEF g
<1>2. PICK S : m.labeled \in Seq(S)
  BY DEF IsManager, IsEntries
<1>3. Range(s) = Range(m.labeled) \union {g}
  BY <1>2, AppendRange
<1> HIDE DEF s
<1>4. n.labeled = s /\ n.unlabeled = m.unlabeled
  BY DEF addLabeledEvent, IsManager, s, g
<1> HIDE DEF n
<1>5. UnlabeledEvents(n) = UnlabeledEvents(m)
  BY <1>4 DEF UnlabeledEvents
<1>6. GivenLabels(n) = GivenLabels(m) \union {Labeling(f.event, label)}
  BY <1>1, <1>3, <1>4 DEF GivenLabels, Labeling
<1> QED
  BY <1>5, <1>6 DEF n

\* addUnLabeledEvent adds an event
LEMMA AddedEvent ==
  ASSUME NEW m, IsManager(m), NEW f
  PROVE  LET n == addUnLabeledEvent(m, f)
         IN  /\ UnlabeledEvents(n) = UnlabeledEvents(m) \union {f.event}
             /\ GivenLabels(n) = GivenLabels(m)
<1> DEFINE s == Append(m.unlabeled, f)
           n == addUnLabeledEvent(m, f)
<1>1. PICK S : m.unlabeled \in Seq(S)
  BY DEF IsManager, IsEntries
<1>2. Range(s) = Range(m.unlabeled) \union {f}
  BY <1>1, AppendRange
<1> HIDE DEF s
<1>3. n.labeled = m.labeled /\ n.unlabeled = s
  BY DEF addUnLabeledEvent, IsManager, s
<1> HIDE DEF n
<1> QED
  BY <1>2, <1>3 DEF UnlabeledEvents, GivenLabels, n

\* MoveToLabeled labels the event at that position
LEMMA MovedLabel ==
  ASSUME NEW m, IsManager(m), NEW i \in 1..Len(m.unlabeled), NEW label
  PROVE  LET n == MoveToLabeled(m, i, label)
             e == m.unlabeled[i].event
         IN  /\ OneLess(UnlabeledEvents(m), UnlabeledEvents(n), e)
             /\ GivenLabels(n) = GivenLabels(m) \union {Labeling(e, label)}
<1> DEFINE s == SwappedOut(m.unlabeled, i)
           f == m.unlabeled[i]
           r == [labeled |-> m.labeled, unlabeled |-> s]
           n == MoveToLabeled(m, i, label)
<1>1. PICK S : m.unlabeled \in Seq(S)
  BY DEF IsManager, IsEntries
<1>2. /\ s \in Seq(S) /\ Range(s) \subseteq Range(m.unlabeled)
      /\ Range(m.unlabeled) \subseteq Range(s) \union {f}
  BY <1>1, SwapRange
<1>3. f \in Range(m.unlabeled)
  BY <1>1 DEF Range
<1>4. n = addLabeledEvent(r, f, label)
  BY DEF MoveToLabeled, IsManager
<1> HIDE DEF s, f, n
<1>5. r.labeled = m.labeled /\ r.unlabeled = s
  OBVIOUS
<1>6. IsManager(r) /\ IsEntry(f)
  BY <1>2, <1>3, <1>5 DEF IsManager, IsEntries
<1> HIDE DEF r
<1>7. /\ UnlabeledEvents(n) = UnlabeledEvents(r)
      /\ GivenLabels(n) = GivenLabels(r) \union {Labeling(f.event, label)}
  BY <1>4, <1>6, AddedLabel
<1>8. GivenLabels(r) = GivenLabels(m)
  BY <1>5 DEF GivenLabels
<1>9. /\ f.event \in UnlabeledEvents(m)
      /\ UnlabeledEvents(r) \subseteq UnlabeledEvents(m)
      /\ UnlabeledEvents(m) \subseteq UnlabeledEvents(r) \union {f.event}
  BY <1>2, <1>3, <1>5 DEF UnlabeledEvents
<1>10. OneLess(UnlabeledEvents(m), UnlabeledEvents(r), f.event)
  BY <1>9 DEF OneLess
<1> QED
  BY <1>7, <1>8, <1>10 DEF n, f

\* find_if finds every entry with the id
LEMMA IndexOfIdMissed ==
  ASSUME NEW s, IsEntries(s), NEW id, IndexOfId(s, id) = 0
  PROVE  \A f \in Range(s) : EventId[f.event] # id
<1> DEFINE I == {i \in 1..Len(s) : EventId[s[i].event] = id}
<1>1. IndexOfId(s, id) = IF I # {} THEN Min(I) ELSE 0
  BY DEF IndexOfId, SelectInSeq
<1>2. PICK S : s \in Seq(S)
  BY DEF IsEntries
<1>3. Len(s) \in Nat /\ DOMAIN s = 1..Len(s)
  BY <1>2
<1>4. I = {}
  <2>1. SUFFICES ASSUME I # {}
                 PROVE  FALSE
    OBVIOUS
  <2>2. I \subseteq Nat /\ 0 \notin I
    BY <1>3
  <2>3. Min(I) \in I
    <3> HIDE DEF I
    <3> QED
      BY <2>1, <2>2, LeastIs
  <2> HIDE DEF I
  <2> QED
    BY <1>1, <2>1, <2>2, <2>3
<1> QED
  BY <1>3, <1>4 DEF Range

\* What the user may do in EventCollection
LabelsOne(m, n, id, label) ==
  \E e \in UnlabeledEvents(m) :
    /\ EventId[e] = id
    /\ OneLess(UnlabeledEvents(m), UnlabeledEvents(n), e)
    /\ GivenLabels(n) = GivenLabels(m) \union {Labeling(e, label)}

ChangesOne(m, n, id, label) ==
  \E old \in GivenLabels(m) :
    /\ EventId[old.event] = id /\ old.event \notin UnlabeledEvents(m)
    /\ UnlabeledEvents(n) = UnlabeledEvents(m)
    /\ Changed(GivenLabels(m), GivenLabels(n), old, Labeling(old.event, label))

\* addLabel by id labels an unlabeled event that has the id, or changes a
\* label if there is no such event, or does nothing
LEMMA LabelById ==
  ASSUME NEW m, IsManager(m), NEW id, NEW label
  PROVE  LET n == addLabelById(m, id, label)
         IN  n = m \/ LabelsOne(m, n, id, label) \/ ChangesOne(m, n, id, label)
<1> DEFINE i == IndexOfId(m.unlabeled, id)
           j == IndexOfId(m.labeled, id)
           n == addLabelById(m, id, label)
<1>1. CASE i # 0
  <2>1. n = MoveToLabeled(m, i, label)
    BY <1>1 DEF addLabelById
  <2>2. i \in 1..Len(m.unlabeled) /\ EventId[m.unlabeled[i].event] = id
    BY <1>1, IndexOfIdFound DEF IsManager
  <2> HIDE DEF i, n
  <2>3. LabelsOne(m, n, id, label)
    BY <2>1, <2>2, MovedLabel DEF LabelsOne, OneLess
  <2> QED
    BY <2>3 DEF n
<1>2. CASE i = 0 /\ j # 0
  <2> DEFINE f   == m.labeled[j]
             g   == [f EXCEPT !.label = label]
             s   == [m.labeled EXCEPT ![j] = g]
             old == Labeling(f.event, f.label)
             new == Labeling(f.event, label)
  <2>1. j \in 1..Len(m.labeled) /\ EventId[f.event] = id
    BY <1>2, IndexOfIdFound DEF IsManager
  <2>2. PICK S : m.labeled \in Seq(S)
    BY DEF IsManager, IsEntries
  <2>3. /\ f \in Range(m.labeled)
        /\ Range(s) \subseteq Range(m.labeled) \union {g} /\ g \in Range(s)
        /\ \A k \in 1..Len(m.labeled) : k # j => m.labeled[k] \in Range(s)
    <3> HIDE DEF g, i, j
    <3> QED
      BY <2>1, <2>2, ReplaceRange
  <2>4. g.event = f.event /\ g.label = label
    BY <2>3 DEF IsManager, IsEntries, IsEntry
  <2>5. n.labeled = s /\ n.unlabeled = m.unlabeled
    BY <1>2 DEF addLabelById, IsManager
  <2>6. \A e \in Range(m.labeled) : e \in Range(s) \/ e = f
    <3> HIDE DEF g, s, n, i, j
    <3> QED
      BY <2>2, <2>3 DEF Range
  <2>7. \A e \in Range(m.unlabeled) : EventId[e.event] # id
    BY <1>2, IndexOfIdMissed DEF IsManager
  <2> HIDE DEF f, g, s, n, i, j
  <2>8. UnlabeledEvents(n) = UnlabeledEvents(m)
    BY <2>5 DEF UnlabeledEvents
  <2>9. f.event \notin UnlabeledEvents(m)
    BY <2>1, <2>7 DEF UnlabeledEvents
  <2>10. old \in GivenLabels(m) /\ old.event = f.event
    BY <2>3 DEF GivenLabels, Labeling
  <2>11. /\ GivenLabels(n) \subseteq GivenLabels(m) \union {new}
         /\ new \in GivenLabels(n)
    BY <2>3, <2>4, <2>5 DEF GivenLabels, Labeling
  <2>12. GivenLabels(m) \ {old} \subseteq GivenLabels(n)
    BY <2>5, <2>6 DEF GivenLabels, Labeling
  <2> HIDE DEF old, new
  <2>13. Changed(GivenLabels(m), GivenLabels(n), old, new)
    BY <2>10, <2>11, <2>12 DEF Changed
  <2>14. new = Labeling(old.event, label)
    BY <2>10 DEF new
  <2>15. ChangesOne(m, n, id, label)
    BY <2>1, <2>8, <2>9, <2>10, <2>13, <2>14 DEF ChangesOne
  <2> QED
    BY <2>15 DEF n
<1>3. CASE i = 0 /\ j = 0
  BY <1>3 DEF addLabelById
<1> QED
  BY <1>1, <1>2, <1>3

\* ... and to a pair of label and time
LabelsNear(m, n, pair) ==
  \E e \in UnlabeledEvents(m) :
    /\ IsNear(pair.time, EventTime[e])
    /\ OneLess(UnlabeledEvents(m), UnlabeledEvents(n), e)
    /\ GivenLabels(n) = GivenLabels(m) \union {Labeling(e, pair.label)}

\* addLabel by time labels an unlabeled event that is near, if there is one
LEMMA LabelByTime ==
  ASSUME NEW m, IsManager(m), NEW pair
  PROVE  LET n == addLabelByTime(m, pair)
         IN  n = m \/ LabelsNear(m, n, pair)
<1> DEFINE I == {k \in 1..Len(m.unlabeled) :
                   IsNear(pair.time, EventTime[m.unlabeled[k].event])}
           i == IF I # {} THEN Min(I) ELSE 0
           n == addLabelByTime(m, pair)
<1>1. n = IF i = 0 THEN m ELSE MoveToLabeled(m, i, pair.label)
  BY DEF addLabelByTime, SelectInSeq
<1>2. CASE i = 0
  BY <1>1, <1>2
<1>3. CASE i # 0
  <2>1. Len(m.unlabeled) \in Nat
    BY DEF IsManager, IsEntries
  <2>2. I \subseteq Nat /\ I # {} /\ i = Min(I)
    BY <1>3, <2>1
  <2>3. i \in I
    <3> HIDE DEF I, i
    <3> QED
      BY <2>2, LeastIs
  <2>4. /\ i \in 1..Len(m.unlabeled)
        /\ IsNear(pair.time, EventTime[m.unlabeled[i].event])
    BY <2>3
  <2> HIDE DEF I, i, n
  <2>5. n = MoveToLabeled(m, i, pair.label)
    BY <1>1, <1>3
  <2>6. LabelsNear(m, n, pair)
    BY <2>4, <2>5, MovedLabel DEF LabelsNear, OneLess
  <2> QED
    BY <2>6 DEF n
<1> QED
  BY <1>2, <1>3

\* setEvent changes no event and no label
LEMMA EventSetSame ==
  ASSUME NEW m, IsManager(m), NEW id, IndexOfId(m.unlabeled, id) # 0,
         NEW f, f.event = m.unlabeled[IndexOfId(m.unlabeled, id)].event
  PROVE  LET n == setEvent(m, id, f)
         IN  /\ UnlabeledEvents(n) = UnlabeledEvents(m)
             /\ GivenLabels(n) = GivenLabels(m)
<1> DEFINE i == IndexOfId(m.unlabeled, id)
           s == [m.unlabeled EXCEPT ![i] = f]
           n == setEvent(m, id, f)
<1>1. i \in 1..Len(m.unlabeled)
  BY IndexOfIdFound DEF IsManager
<1>2. PICK S : m.unlabeled \in Seq(S)
  BY DEF IsManager, IsEntries
<1>3. /\ f \in Range(s) /\ m.unlabeled[i] \in Range(m.unlabeled)
      /\ Range(s) \subseteq Range(m.unlabeled) \union {f}
      /\ \A k \in 1..Len(m.unlabeled) : k # i => m.unlabeled[k] \in Range(s)
  BY <1>1, <1>2, ReplaceRange
<1>4. n.labeled = m.labeled /\ n.unlabeled = s
  BY DEF setEvent, IsManager
<1> HIDE DEF s, n
<1>5. \A g \in Range(m.unlabeled) : g \in Range(s) \/ g = m.unlabeled[i]
  BY <1>2, <1>3 DEF Range
<1>6. UnlabeledEvents(n) = UnlabeledEvents(m)
  BY <1>3, <1>4, <1>5 DEF UnlabeledEvents
<1>7. GivenLabels(n) = GivenLabels(m)
  BY <1>4 DEF GivenLabels
<1> QED
  BY <1>6, <1>7 DEF n

-----------------------------------------------------------------------------
(* The stack: an event is on it once.                                      *)

Distinct(s) == \A i, j \in 1..Len(s) : s[i] = s[j] => i = j

StackInv ==
  /\ Distinct(events) /\ Range(events) \subseteq pushed
  /\ main_pc = "loading" => events = <<>>

\* pop_back takes the event away
LEMMA FrontDistinct ==
  ASSUME NEW S, NEW s \in Seq(S), s # <<>>, Distinct(s)
  PROVE  Distinct(Front(s)) /\ Range(Front(s)) = Range(s) \ {Last(s)}
<1> DEFINE t == Front(s)
           n == Len(s)
<1>1. n \in Nat /\ n >= 1 /\ DOMAIN s = 1..n /\ Last(s) = s[n]
  BY DEF Last
<1>2. /\ t \in Seq(S) /\ Len(t) = n - 1
      /\ \A j \in 1..n - 1 : t[j] = s[j]
  BY <1>1 DEF Front
<1>3. DOMAIN t = 1..n - 1 /\ Range(s) = Range(t) \union {Last(s)}
  BY <1>2, FrontRange
<1>4. \A i, j \in 1..n : s[i] = s[j] => i = j
  BY DEF Distinct
<1> HIDE DEF t, n
<1>5. /\ \A i \in 1..n - 1 : i \in 1..n /\ i # n
      /\ n \in 1..n
  BY <1>1
<1>6. Last(s) \notin Range(t)
  BY <1>1, <1>2, <1>3, <1>4, <1>5 DEF Range
<1>7. Distinct(t)
  BY <1>2, <1>4, <1>5 DEF Distinct
<1> QED
  BY <1>3, <1>6, <1>7 DEF t

\* push_back of another event
LEMMA AppendDistinct ==
  ASSUME NEW S, NEW s \in Seq(S), Distinct(s), NEW f \in S, f \notin Range(s)
  PROVE  Distinct(Append(s, f))
<1> DEFINE t == Append(s, f)
           n == Len(s)
<1>1. /\ n \in Nat /\ DOMAIN s = 1..n /\ Len(t) = n + 1 /\ t[n + 1] = f
      /\ \A j \in 1..n : t[j] = s[j]
  OBVIOUS
<1>2. \A i, j \in 1..n : s[i] = s[j] => i = j
  BY DEF Distinct
<1>3. \A j \in 1..n : s[j] # f
  BY <1>1 DEF Range
<1> HIDE DEF t, n
<1>4. \A i \in 1..n + 1 : i \in 1..n \/ i = n + 1
  BY <1>1
<1>5. Distinct(t)
  BY <1>1, <1>2, <1>3, <1>4 DEF Distinct
<1> QED
  BY <1>5 DEF t

\* An event is pushed once
LEMMA PushesOnce ==
  ASSUME ClassifierInv, [Next]_vars
  PROVE  \/ UNCHANGED <<events, pushed>>
         \/ events # <<>> /\ events' = Front(events) /\ pushed' = pushed
         \/ \E event \in NewEvents \ pushed :
              /\ events' = Append(events, event)
              /\ pushed' = pushed \union {event}
BY DEF ClassifierInv, Next, MainStarts, SetEventLabelManager,
       StartClassification, MainPushes, PushEvent, MainStops, Stop,
       MainLocked, SeesDone, MainFindsEvents, MainUnlocked, MainWaits,
       StopAnalyzing, NotifyAll, Join, RunnerLocked, ProcessEvent,
       RunnerTerminates, RunnerReturns, RunnerFindsNothing, RunnerWaits,
       User, AddLabelById, AddLabel, Reclassify, ReclassifyTerminates,
       SpuriousWakeup, vars, dataVars

\* Every step keeps this
LEMMA StackInvKept == ClassifierInv /\ StackInv /\ [Next]_vars => StackInv'
<1> SUFFICES ASSUME ClassifierInv, StackInv, [Next]_vars
             PROVE  StackInv'
  OBVIOUS
<1>1. main_pc' = "loading" => events' = <<>>
  BY LoadsFirst DEF StackInv, vars, dataVars, pcVars
<1>2. /\ events \in Seq(NewEvents) /\ Distinct(events)
      /\ Range(events) \subseteq pushed
  BY DEF ClassifierInv, StackInv
<1>3. Distinct(events') /\ Range(events') \subseteq pushed'
  <2>1. CASE UNCHANGED <<events, pushed>>
    BY <1>2, <2>1
  <2>2. CASE events # <<>> /\ events' = Front(events) /\ pushed' = pushed
    BY <1>2, <2>2, FrontDistinct
  <2>3. CASE \E event \in NewEvents \ pushed :
               /\ events' = Append(events, event)
               /\ pushed' = pushed \union {event}
    <3>1. PICK event \in NewEvents \ pushed :
                 /\ events' = Append(events, event)
                 /\ pushed' = pushed \union {event}
      BY <2>3
    <3>2. Distinct(events')
      BY <1>2, <3>1, AppendDistinct
    <3>3. Range(events') = Range(events) \union {event}
      BY <1>2, <3>1, AppendRange
    <3> QED
      BY <1>2, <3>1, <3>2, <3>3
  <2> QED
    BY <2>1, <2>2, <2>3, PushesOnce
<1> QED
  BY <1>1, <1>3 DEF StackInv

-----------------------------------------------------------------------------
(* Every step is one of EventCollection, or leaves it alone.               *)

\* Steps that are none of it
LEMMA SameCollection ==
  ASSUME /\ Range(events') = Range(events) /\ pushed' = pushed
         /\ UnlabeledEvents(manager') = UnlabeledEvents(manager)
         /\ GivenLabels(manager') = GivenLabels(manager)
  PROVE  UNCHANGED Collection!vars
BY DEF Collection!vars

\* What the label file says of an event
LEMMA FileLabelIs ==
  ASSUME NEW event \in Events
  PROVE  /\ FindsLabel(event) =>
              /\ getEventLabel(event) \in Labels
              /\ Labeling(event, getEventLabel(event)) \in FileLabels
         /\ ~FindsLabel(event) => \A given \in FileLabels : given.event # event
<1>1. FindsLabel(event) => getEventLabel(event) \in Labels
  BY FoundLabel DEF FindsLabel
<1>2. FindsLabel(event) => Labeling(event, getEventLabel(event)) \in FileLabels
  BY DEF FileLabels, Labeling
<1>3. ~FindsLabel(event) => \A given \in FileLabels : given.event # event
  BY DEF FileLabels
<1> QED
  BY <1>1, <1>2, <1>3

\* loadOldModel
LEMMA LoadRefines ==
  ASSUME ClassifierInv, StackInv,
         NEW model \in Models, SetEventLabelManager(model)
  PROVE  Collection!Next
<1>1. /\ manager = EmptyManager /\ events = <<>>
      /\ manager' = model /\ events' = events /\ pushed' = pushed
  BY DEF SetEventLabelManager, ClassifierInv, StackInv
<1>2. Range(<<>>) = {}
  BY DEF Range
<1>3. UnlabeledEvents(EmptyManager) = {} /\ GivenLabels(EmptyManager) = {}
  BY <1>2 DEF UnlabeledEvents, GivenLabels, EmptyManager
<1> DEFINE start == [unlabeled |-> UnlabeledEvents(model),
                     labels |-> GivenLabels(model)]
<1>4. Collection!Load(start)
  BY <1>1, <1>2, <1>3 DEF Collection!Load
<1> HIDE DEF start
<1> QED
  BY <1>4 DEF Collection!Next, start

\* pushEvent
LEMMA PushRefines ==
  ASSUME ClassifierInv, NEW event \in NewEvents, PushEvent(event)
  PROVE  Collection!Next
<1>1. /\ event \notin pushed /\ pushed' = pushed \union {event}
      /\ events' = Append(events, event) /\ manager' = manager
  BY DEF PushEvent
<1>2. Range(events') = Range(events) \union {event}
  BY <1>1, AppendRange DEF ClassifierInv
<1>3. Collection!Arrive(event)
  BY <1>1, <1>2 DEF Collection!Arrive
<1> QED
  BY <1>3 DEF Collection!Next

\* processOneEvent
LEMMA ProcessRefines ==
  ASSUME ClassifierInv, StackInv, ProcessEvent
  PROVE  Collection!Next
<1>1. /\ events # <<>> /\ events' = Front(events) /\ pushed' = pushed
      /\ AddsLabeled(Top) \/ ClassifiesAndDrops(Top) \/ CannotClassify(Top)
      /\ IsManager(manager)
  BY DEF ProcessEvent, ClassifierInv
<1>2. Top \in Range(events) /\ Range(events') = Range(events) \ {Top}
  BY <1>1, FrontRange, FrontDistinct DEF ClassifierInv, StackInv, Top
<1>3. Top \in Events
  BY <1>2, EventsStayEvents DEF ClassifierInv
<1>4. IsEntry(Feature(Top)) /\ Feature(Top).event = Top
  BY DEF IsEntry, Feature
<1>5. CASE AddsLabeled(Top)
  <2> DEFINE label == getEventLabel(Top)
  <2>1. /\ label \in Labels /\ Labeling(Top, label) \in FileLabels
        /\ manager' = addLabeledEvent(manager, Feature(Top), label)
    BY <1>3, <1>5, FileLabelIs DEF AddsLabeled
  <2> HIDE DEF label
  <2>2. /\ UnlabeledEvents(manager') = UnlabeledEvents(manager)
        /\ GivenLabels(manager')
             = GivenLabels(manager) \union {Labeling(Top, label)}
    BY <1>1, <1>4, <2>1, AddedLabel
  <2>3. Collection!SettleLabeled(Top, label)
    BY <1>1, <1>2, <2>1, <2>2
    DEF Collection!SettleLabeled, Collection!Given, Labeling
  <2> QED
    BY <1>2, <2>1, <2>3 DEF Collection!Next
<1>6. CASE ClassifiesAndDrops(Top) \/ CannotClassify(Top)
  <2>1. \A given \in FileLabels : given.event # Top
    BY <1>3, <1>6, FileLabelIs DEF ClassifiesAndDrops, CannotClassify
  <2>2. /\ UnlabeledEvents(manager') = UnlabeledEvents(manager) \union {Top}
        /\ GivenLabels(manager') = GivenLabels(manager)
    <3>1. CASE ClassifiesAndDrops(Top)
      <4>1. manager' = addUnLabeledEvent(manager, Feature(Top))
        BY <3>1 DEF ClassifiesAndDrops, addClassifiedEvent
      <4> QED
        BY <1>1, <1>4, <4>1, AddedEvent
    <3>2. CASE CannotClassify(Top)
      <4> DEFINE f == [Feature(Top) EXCEPT !.label = EventUnknown]
                 n == addUnLabeledEvent(manager, f)
      <4>1. manager' = addUnLabeledEvent(n, f)
        BY <3>2 DEF CannotClassify, addClassifiedEvent
      <4>2. IsEntry(f) /\ f.event = Top
        BY DEF IsEntry, Feature
      <4> HIDE DEF f
      <4>3. /\ UnlabeledEvents(n) = UnlabeledEvents(manager) \union {Top}
            /\ GivenLabels(n) = GivenLabels(manager)
        BY <1>1, <4>2, AddedEvent
      <4>4. IsManager(n)
        BY <1>1, <4>2, AddedUnlabeled DEF KeepsEvents
      <4> HIDE DEF n
      <4>5. /\ UnlabeledEvents(manager') = UnlabeledEvents(n) \union {Top}
            /\ GivenLabels(manager') = GivenLabels(n)
        BY <4>1, <4>2, <4>4, AddedEvent
      <4> QED
        BY <4>3, <4>5
    <3> QED
      BY <1>6, <3>1, <3>2
  <2>3. Collection!SettleUnlabeled(Top)
    BY <1>1, <1>2, <2>1, <2>2 DEF Collection!SettleUnlabeled
  <2> QED
    BY <1>2, <2>3 DEF Collection!Next
<1> QED
  BY <1>1, <1>5, <1>6

\* Entries are entries of events
LEMMA UnlabeledAreEvents ==
  ASSUME DataTypes
  PROVE  UnlabeledEvents(manager) \subseteq Events
<1>1. Range(manager.unlabeled) \subseteq Entry
  BY DEF DataTypes, TypedManager, Range
<1> QED
  BY <1>1 DEF UnlabeledEvents, Entry

\* ... and labels are given to events
LEMMA LabeledAreEvents ==
  ASSUME DataTypes, NEW given \in GivenLabels(manager)
  PROVE  given.event \in Events
<1>1. Range(manager.labeled) \subseteq Entry
  BY DEF DataTypes, TypedManager, LabeledEntry, Range
<1> QED
  BY <1>1 DEF GivenLabels, Entry

\* addLabel by id
LEMMA LabelByIdRefines ==
  ASSUME ClassifierInv, DataTypes,
         NEW id \in Ids, NEW label \in Labels, AddLabelById(id, label)
  PROVE  Collection!Next \/ UNCHANGED Collection!vars
<1>1. /\ manager' = addLabelById(manager, id, label)
      /\ events' = events /\ pushed' = pushed
  BY DEF AddLabelById
<1>2. \/ manager' = manager \/ LabelsOne(manager, manager', id, label)
      \/ ChangesOne(manager, manager', id, label)
  BY <1>1, LabelById DEF ClassifierInv
<1>3. id # NoId
  BY DEF Ids
<1>4. CASE manager' = manager
  BY <1>1, <1>4, SameCollection
<1>5. CASE LabelsOne(manager, manager', id, label)
  <2>1. PICK e \in UnlabeledEvents(manager) :
          /\ EventId[e] = id
          /\ OneLess(UnlabeledEvents(manager), UnlabeledEvents(manager'), e)
          /\ GivenLabels(manager')
               = GivenLabels(manager) \union {Labeling(e, label)}
    BY <1>5 DEF LabelsOne
  <2>2. e \in Events
    BY <2>1, UnlabeledAreEvents
  <2>3. Collection!AddLabel(e, label)
    BY <1>1, <1>3, <2>1, <2>2
    DEF Collection!AddLabel, Collection!Given, OneLess, Labeling
  <2> QED
    BY <2>1, <2>3 DEF Collection!Next
<1>6. CASE ChangesOne(manager, manager', id, label)
  <2>1. PICK old \in GivenLabels(manager) :
          /\ EventId[old.event] = id
          /\ old.event \notin UnlabeledEvents(manager)
          /\ UnlabeledEvents(manager') = UnlabeledEvents(manager)
          /\ Changed(GivenLabels(manager), GivenLabels(manager'), old,
                     Labeling(old.event, label))
    BY <1>6 DEF ChangesOne
  <2>2. old.event \in Events
    BY <2>1, LabeledAreEvents
  <2>3. Collection!ChangeLabel(old, label)
    BY <1>1, <1>3, <2>1, <2>2
    DEF Collection!ChangeLabel, Collection!Given, Changed, Labeling
  <2> QED
    BY <2>1, <2>3 DEF Collection!Next
<1> QED
  BY <1>2, <1>4, <1>5, <1>6

\* addLabel by time
LEMMA LabelByTimeRefines ==
  ASSUME ClassifierInv, DataTypes, NEW pair \in LabelTimePairs, AddLabel(pair)
  PROVE  Collection!Next \/ UNCHANGED Collection!vars
<1>1. /\ manager' = addLabelByTime(manager, pair)
      /\ events' = events /\ pushed' = pushed
  BY DEF AddLabel
<1>2. manager' = manager \/ LabelsNear(manager, manager', pair)
  BY <1>1, LabelByTime DEF ClassifierInv
<1>3. CASE manager' = manager
  BY <1>1, <1>3, SameCollection
<1>4. CASE LabelsNear(manager, manager', pair)
  <2>1. PICK e \in UnlabeledEvents(manager) :
          /\ IsNear(pair.time, EventTime[e])
          /\ OneLess(UnlabeledEvents(manager), UnlabeledEvents(manager'), e)
          /\ GivenLabels(manager')
               = GivenLabels(manager) \union {Labeling(e, pair.label)}
    BY <1>4 DEF LabelsNear
  <2>2. e \in Events
    BY <2>1, UnlabeledAreEvents
  <2>3. Labeling(e, pair.label) \in TimedLabels
    BY <2>1, <2>2 DEF TimedLabels, Labeling
  <2>4. Collection!AddLabel(e, pair.label)
    BY <1>1, <2>1, <2>3
    DEF Collection!AddLabel, Collection!Given, OneLess, Labeling
  <2>5. pair.label \in Labels
    BY ClassifierAssumption
  <2> QED
    BY <2>1, <2>4, <2>5 DEF Collection!Next
<1> QED
  BY <1>2, <1>3, <1>4

\* reclassify gives no label
LEMMA ReclassifyRefines ==
  ASSUME ClassifierInv, NEW id \in Ids, Reclassify(id)
  PROVE  UNCHANGED Collection!vars
<1> DEFINE i == IndexOfId(manager.unlabeled, id)
<1>1. PICK neighbors :
        /\ i # 0 /\ events' = events /\ pushed' = pushed
        /\ manager' = setEvent(manager, id,
                               Classified(manager.unlabeled[i], neighbors))
  BY DEF Reclassify
<1> DEFINE f == Classified(manager.unlabeled[i], neighbors)
<1>2. i \in 1..Len(manager.unlabeled)
  BY <1>1, IndexOfIdFound DEF ClassifierInv, IsManager
<1>3. IsEntry(manager.unlabeled[i])
  BY <1>2 DEF ClassifierInv, IsManager, IsEntries, Range
<1>4. f.event = manager.unlabeled[i].event
  BY <1>3, ClassifiedEntry
<1> HIDE DEF f
<1>5. /\ UnlabeledEvents(manager') = UnlabeledEvents(manager)
      /\ GivenLabels(manager') = GivenLabels(manager)
  BY <1>1, <1>4, EventSetSame DEF ClassifierInv, f
<1> QED
  BY <1>1, <1>5, SameCollection

\* All steps
LEMMA CollectionStep ==
  ASSUME ClassifierInv, StackInv, DataTypes, [Next]_vars
  PROVE  [Collection!Next]_(Collection!vars)
<1>1. CASE ProcessEvent
  BY <1>1, ProcessRefines
<1>2. ASSUME NEW id \in Ids, NEW label \in Labels, AddLabelById(id, label)
      PROVE  [Collection!Next]_(Collection!vars)
  BY <1>2, LabelByIdRefines
<1>3. ASSUME NEW pair \in LabelTimePairs, AddLabel(pair)
      PROVE  [Collection!Next]_(Collection!vars)
  BY <1>3, LabelByTimeRefines
<1>4. ASSUME \/ StartClassification \/ MainStops
             \/ MainLocked \/ MainUnlocked
             \/ RunnerTerminates \/ RunnerReturns \/ RunnerFindsNothing
             \/ RunnerWaits \/ SpuriousWakeup \/ UNCHANGED vars
             \/ \E id \in Ids : ReclassifyTerminates(id)
      PROVE  UNCHANGED Collection!vars
  <2>1. UNCHANGED dataVars
    BY <1>4
    DEF StartClassification, MainStops, Stop, MainLocked, SeesDone,
        MainFindsEvents, MainUnlocked, MainWaits, StopAnalyzing, NotifyAll,
        Join, RunnerTerminates, RunnerReturns, RunnerFindsNothing,
        RunnerWaits, SpuriousWakeup, ReclassifyTerminates, vars
  <2>2. events' = events /\ pushed' = pushed /\ manager' = manager
    BY <2>1 DEF dataVars
  <2> QED
    BY <2>2, SameCollection
<1> QED
  BY <1>1, <1>2, <1>3, <1>4, LoadRefines, PushRefines, ReclassifyRefines
  DEF Next, MainStarts, MainPushes, RunnerLocked, User

(***************************************************************************)
(* The classifier is a collection of events as EventCollection describes   *)
(* it, for any events, labels, label files and models.                     *)
(***************************************************************************)
THEOREM ClassifierIsCollection == Spec => ImplementsCollection
<1>1. Init => /\ StackInv /\ TreeInv /\ DataTypes
              /\ Collection!Init
  <2> SUFFICES ASSUME Init
               PROVE  StackInv /\ TreeInv /\ DataTypes /\ Collection!Init
    OBVIOUS
  <2>1. TypedManager(EmptyManager)
    BY DEF TypedManager, EmptyManager
  <2>2. Range(<<>>) = {} /\ Distinct(<<>>)
    BY DEF Range, Distinct
  <2>3. UnlabeledEvents(EmptyManager) = {} /\ GivenLabels(EmptyManager) = {}
    BY <2>2 DEF UnlabeledEvents, GivenLabels, EmptyManager
  <2>4. TreeInv
    <3>1. <<>> \in Seq({}) /\ Len(<<>>) = 0 /\ 1..0 = {} /\ 0 + 1..0 = {}
      OBVIOUS
    <3> QED
      BY <3>1 DEF Init, TreeInv, Fits, EmptyManager
  <2> QED
    BY <2>1, <2>2, <2>3, <2>4 DEF Init, StackInv, DataTypes, Collection!Init
<1>2. TreeInv /\ DataTypes /\ [Next]_vars => DataTypes'
  BY DataTypesKept
<1>3. ClassifierInv /\ StackInv /\ DataTypes /\ [Next]_vars
        => [Collection!Next]_(Collection!vars)
  BY CollectionStep
<1> QED
  BY <1>1, <1>2, <1>3, StackInvKept, TreeInvKept, ClassifierInvInitially,
     ClassifierInvKept, PTL
  DEF Spec, Collection!Spec, ImplementsCollection
=============================================================================
