----------------------- MODULE BluedInputSourceProofs -----------------------
(***************************************************************************)
(* What the converter guarantees for every location of text files and all  *)
(* sizes of the chunks, the queue and the buffer it writes from.           *)
(***************************************************************************)
EXTENDS BluedInputSource, SequenceTheorems, NaturalsInduction,
        WellFoundedInduction, TLAPS

Point == Nat \X Nat

\* What matchLine makes of line j of file i
PointAt(fs, i, j) == IF j <= fs[i].lines THEN <<i, j>> ELSE Indeterminate

\* n lines of file i, behind the line from
Chunk(fs, i, from, n) == [j \in 1..n |-> PointAt(fs, i, from + j)]

\* What is delivered of the first k files
Until(fs, k) == FlattenSeq([i \in 1..k |-> Delivered(fs[i], i)])

-----------------------------------------------------------------------------
(* The invariant.                                                          *)

TypesInv ==
  /\ files \in Seq(File) /\ file \in 0..Len(files) /\ line \in Nat
  /\ {buffer, data_queue, popped, dataset} \subseteq Seq(Point)
  /\ success \in BOOLEAN /\ whole_location \in BOOLEAN
  /\ runner_pc \in {"none", "restarting", "locating", "opening", "reading",
                    "adding", "adding past buffer", "ending", "notifying",
                    "returned"}
  /\ Len(popped) <= WriteSize
  /\ runner_pc # "none" /\ ~whole_location => Len(files) = 1

\* All that has gone into the queue, as long as nothing is discarded
Sent == (dataset \o popped) \o data_queue

Popping == main_pc \in {"popping", "blocking", "waiting", "testing"}

Streaming == main_pc \in {"starting", "creating", "writing", "popped"} \/ Popping

\* A pop that returns nothing has seen the end and left nothing behind
DrainedInv ==
  main_pc \in {"testing", "popped"} /\ popped = <<>> =>
    stream_ended /\ data_queue = <<>>

\* Nothing is read behind the end of a file but once after a last newline
LineInv ==
  /\ line <= files[file].lines + 1
  /\ line = files[file].lines + 1 => files[file].newline

\* The buffer is a chunk that begins at a multiple of its size
ReadingInv ==
  LET from == line - Len(buffer)
  IN  /\ LineInv
      /\ from \in Nat /\ from % BufferSize = 0 /\ Len(buffer) <= BufferSize
      /\ buffer = Chunk(files, file, from, Len(buffer))
      /\ Sent = Until(files, file - 1) \o Chunk(files, file, 0, from)

\* After a full buffer more of the file follows, else the file is through
AddingInv ==
  IF success
    THEN /\ LineInv /\ line % BufferSize = 0
         /\ Sent \o buffer = Until(files, file - 1) \o Chunk(files, file, 0, line)
    ELSE Sent \o buffer = Until(files, file)

(***************************************************************************)
(* Where the reading thread is, as long as the main thread takes points.   *)
(***************************************************************************)
FlowInv ==
  /\ continue_reading
  /\ main_pc = "starting" <=> runner_pc = "none"
  /\ stream_ended => runner_pc \in {"notifying", "returned"}
  /\ runner_pc \in {"opening", "reading", "adding", "adding past buffer"} =>
       file \in 1..Len(files)
  /\ runner_pc \in {"none", "restarting"} => Sent = <<>>
  /\ runner_pc = "locating" => whole_location /\ Sent = Until(files, file)
  /\ runner_pc = "opening" => Sent = Until(files, file - 1)
  /\ runner_pc = "reading" => ReadingInv
  /\ runner_pc = "adding" => AddingInv
  /\ runner_pc = "adding past buffer" => Sent = Until(files, file)
  /\ runner_pc \in {"ending", "notifying", "returned"} =>
       Sent = Until(files, Len(files))

ConverterInv ==
  /\ TypesInv
  /\ Streaming => FlowInv
  /\ DrainedInv
  /\ StreamIsFiles /\ ConversionIsComplete

-----------------------------------------------------------------------------
(* FlattenSeq.                                                             *)

\* A set of numbers has a least element
LEMMA LeastExists ==
  ASSUME NEW T, T \subseteq Nat, T # {}
  PROVE  \E x \in T : \A y \in T : x <= y
<1> DEFINE R == OpToRel(<, Nat)
<1>1. IsWellFoundedOn(R, Nat)
  BY NatLessThanWellFounded, Zenon
<1>2. \A x, y \in Nat : y < x => <<y, x>> \in R
  BY DEF OpToRel
<1> HIDE DEF R
<1>3. PICK x \in T : \A y \in T : <<y, x>> \notin R
  BY <1>1, WFMin
<1>4. ASSUME NEW y \in T
      PROVE  x <= y
  <2>1. x \in Nat /\ y \in Nat /\ ~(y < x)
    BY <1>2, <1>3
  <2> QED
    BY <2>1
<1> QED
  BY <1>4

\* What the recursive function in FlattenSeq is for the first n sequences
Flattens(f, seqs, n) ==
  f = [i \in 1..n |-> IF i = 1 THEN seqs[i] ELSE f[i - 1] \o seqs[i]]

\* Its value at every position
LEMMA FlattensAt ==
  ASSUME NEW f, NEW seqs, NEW n \in Nat, Flattens(f, seqs, n), NEW i \in 1..n
  PROVE  f[i] = IF i = 1 THEN seqs[i] ELSE f[i - 1] \o seqs[i]
<1> DEFINE g == [j \in 1..n |-> IF j = 1 THEN seqs[j] ELSE f[j - 1] \o seqs[j]]
<1>1. f[i] = g[i]
  BY Zenon DEF Flattens
<1>2. g[i] = IF i = 1 THEN seqs[i] ELSE f[i - 1] \o seqs[i]
  BY Zenon
<1> QED
  BY <1>1, <1>2, Zenon

\* There is such a function
LEMMA FlattensExists ==
  ASSUME NEW seqs, NEW n \in Nat
  PROVE  \E f : Flattens(f, seqs, n)
<1> DEFINE T == {k \in Nat : ~ \E f : Flattens(f, seqs, k)}
<1>1. SUFFICES ASSUME T # {}
               PROVE  FALSE
  OBVIOUS
<1>2. PICK m \in T : \A k \in T : m <= k
  BY <1>1, LeastExists
<1>3. m \in Nat /\ ~ \E f : Flattens(f, seqs, m)
  OBVIOUS
<1>4. m # 0
  <2>1. Flattens(<<>>, seqs, 0)
    BY DEF Flattens
  <2> QED
    BY <1>3, <2>1
<1>5. m - 1 \in Nat /\ m - 1 \notin T
  BY <1>2, <1>3, <1>4
<1>6. PICK f : Flattens(f, seqs, m - 1)
  BY <1>5
<1> DEFINE atF(i) == IF i = 1 THEN seqs[i] ELSE f[i - 1] \o seqs[i]
<1>7. PICK g : g = [i \in 1..m |-> atF(i)]
  OBVIOUS
<1> DEFINE atG(i) == IF i = 1 THEN seqs[i] ELSE g[i - 1] \o seqs[i]
<1>8. \A i \in 1..m : atF(i) = atG(i)
  <2>1. TAKE i \in 1..m
  <2>2. ASSUME i # 1
        PROVE  g[i - 1] = f[i - 1]
    <3>1. i - 1 \in 1..m - 1 /\ i - 1 \in 1..m
      BY <1>3, <2>2
    <3>2. f[i - 1] = atF(i - 1)
      BY <1>5, <1>6, <3>1, FlattensAt
    <3> HIDE DEF atF
    <3>3. g[i - 1] = atF(i - 1)
      BY <1>7, <3>1, Zenon
    <3> QED
      BY <3>2, <3>3, Zenon
  <2> QED
    BY <2>2, Zenon
<1>9. g = [i \in 1..m |-> atG(i)]
  <2> HIDE DEF atF, atG
  <2> QED
    BY <1>7, <1>8, Zenon
<1>10. Flattens(g, seqs, m)
  BY <1>9, Zenon DEF Flattens
<1> QED
  BY <1>3, <1>10, Zenon

Agree(s, t, n) == \A i \in 1..n : s[i] = t[i]

\* It depends on the sequences up to the position only
LEMMA FlattensAgree ==
  ASSUME NEW s, NEW t, NEW f, NEW g, NEW m \in Nat, NEW n,
         n = m + 1, Agree(s, t, m),
         Flattens(f, s, m), Flattens(g, t, n)
  PROVE  Agree(f, g, m)
<1> DEFINE T == {k \in 1..m : f[k] # g[k]}
<1>1. SUFFICES ASSUME T # {}
               PROVE  FALSE
  BY DEF Agree
<1>2. T \subseteq Nat
  OBVIOUS
<1>3. PICK k \in T : \A i \in T : k <= i
  BY <1>1, <1>2, LeastExists
<1>4. k \in 1..m /\ k \in 1..n /\ n \in Nat /\ f[k] # g[k]
  OBVIOUS
<1>5. /\ f[k] = IF k = 1 THEN s[k] ELSE f[k - 1] \o s[k]
      /\ g[k] = IF k = 1 THEN t[k] ELSE g[k - 1] \o t[k]
  BY <1>4, FlattensAt
<1>6. k # 1 /\ f[k - 1] # g[k - 1]
  BY <1>4, <1>5 DEF Agree
<1>7. k - 1 \in T
  BY <1>4, <1>6
<1> QED
  BY <1>3, <1>4, <1>7

\* FlattenSeq is its last value
LEMMA FlattenIs ==
  ASSUME NEW S, NEW seqs \in Seq(S), seqs # <<>>
  PROVE  \E f : /\ Flattens(f, seqs, Len(seqs))
                /\ FlattenSeq(seqs) = f[Len(seqs)]
<1> DEFINE f == CHOOSE f : Flattens(f, seqs, Len(seqs))
<1>1. Len(seqs) \in Nat /\ Len(seqs) # 0
  OBVIOUS
<1>2. Flattens(f, seqs, Len(seqs))
  BY <1>1, FlattensExists
<1>3. FlattenSeq(seqs) = f[Len(seqs)]
  BY <1>1, Zenon DEF FlattenSeq, Flattens
<1> QED
  BY <1>2, <1>3

\* Nothing to flatten
LEMMA FlattenNothing == FlattenSeq(<<>>) = <<>>
BY DEF FlattenSeq

\* One sequence more
LEMMA FlattenStep ==
  ASSUME NEW S, NEW s \in Seq(Seq(S)), NEW t \in Seq(Seq(S)),
         Len(t) = Len(s) + 1, \A i \in 1..Len(s) : s[i] = t[i]
  PROVE  FlattenSeq(t) = FlattenSeq(s) \o t[Len(t)]
<1> DEFINE n == Len(s)
<1>1. n \in Nat /\ n + 1 \in Nat /\ Len(t) = n + 1 /\ t # <<>> /\ n + 1 \in 1..n + 1
  OBVIOUS
<1> HIDE DEF n
<1>2. PICK g : Flattens(g, t, n + 1) /\ FlattenSeq(t) = g[n + 1]
  BY <1>1, FlattenIs
<1>3. g[n + 1] = IF n + 1 = 1 THEN t[n + 1] ELSE g[n] \o t[n + 1]
  <2>1. g[n + 1] = IF n + 1 = 1 THEN t[n + 1] ELSE g[n + 1 - 1] \o t[n + 1]
    BY <1>1, <1>2, FlattensAt
  <2> QED
    BY <1>1, <2>1
<1>4. CASE n = 0
  <2>1. t[n + 1] \in Seq(S) /\ s = <<>>
    BY <1>1, <1>4 DEF n
  <2>2. <<>> \o t[n + 1] = t[n + 1]
    BY <2>1
  <2> QED
    BY <1>2, <1>3, <1>4, <2>1, <2>2, FlattenNothing
<1>5. CASE n # 0
  <2>1. PICK f : Flattens(f, s, n) /\ FlattenSeq(s) = f[n]
    <3>1. s # <<>>
      BY <1>5 DEF n
    <3> QED
      BY <3>1, FlattenIs DEF n
  <2>2. f[n] = g[n]
    <3>1. Agree(s, t, n)
      BY DEF n, Agree
    <3>2. Agree(f, g, n)
      BY <1>1, <1>2, <2>1, <3>1, FlattensAgree
    <3> QED
      BY <1>1, <1>5, <3>2 DEF Agree
  <2>3. n + 1 # 1
    BY <1>1, <1>5
  <2> QED
    BY <1>1, <1>2, <1>3, <2>1, <2>2, <2>3, Zenon
<1> QED
  BY <1>4, <1>5

-----------------------------------------------------------------------------
(* What is delivered of the files.                                         *)

\* Concatenation of points
LEMMA Associative ==
  \A s, t, u \in Seq(Point) : (s \o t) \o u = s \o (t \o u)
BY ConcatAssociative

\* The file at a position
LEMMA FileAt ==
  ASSUME NEW fs \in Seq(File), NEW i \in 1..Len(fs)
  PROVE  /\ i \in Nat /\ Len(fs) \in Nat /\ fs[i] \in File
         /\ fs[i].lines \in Nat /\ fs[i].newline \in BOOLEAN
<1>1. fs[i] \in File
  BY ElementOfSeq
<1> QED
  BY <1>1 DEF File

\* A chunk, point by point
LEMMA ChunkType ==
  ASSUME NEW fs \in Seq(File), NEW i \in 1..Len(fs), NEW from \in Nat, NEW n \in Nat
  PROVE  /\ Chunk(fs, i, from, n) \in Seq(Point) /\ Len(Chunk(fs, i, from, n)) = n
         /\ \A j \in 1..n : Chunk(fs, i, from, n)[j] = PointAt(fs, i, from + j)
<1>1. \A j \in 1..n : PointAt(fs, i, from + j) \in Point
  BY FileAt DEF PointAt, Point, Indeterminate
<1> QED
  BY <1>1 DEF Chunk

\* The ways in which a file ends
LEMMA DeliveredIs ==
  ASSUME NEW fs \in Seq(File), NEW i \in 1..Len(fs)
  PROVE  LET n == fs[i].lines
         IN  /\ n \in Nat /\ n % BufferSize \in Nat
             /\ ~fs[i].newline /\ n % BufferSize # 0 =>
                  n - 1 \in Nat /\ Delivered(fs[i], i) = Chunk(fs, i, 0, n - 1)
             /\ fs[i].newline /\ (n + 1) % BufferSize = 0 =>
                  Delivered(fs[i], i) = Chunk(fs, i, 0, n + 1)
             /\ ~fs[i].newline /\ n % BufferSize = 0 =>
                  Delivered(fs[i], i) = Chunk(fs, i, 0, n)
             /\ fs[i].newline /\ (n + 1) % BufferSize # 0 =>
                  Delivered(fs[i], i) = Chunk(fs, i, 0, n)
<1> DEFINE n == fs[i].lines
           Lines(k) == [j \in 1..k |-> <<i, j>>]
<1>1. n \in Nat /\ BufferSize \in Nat \ {0} /\ fs[i].newline \in BOOLEAN
  BY BluedAssumption, FileAt
<1>2. n % BufferSize \in Nat /\ (n # 0 => n - 1 \in Nat) /\ 0 % BufferSize = 0
  BY <1>1
<1>3. \A k \in 0..n : Lines(k) = Chunk(fs, i, 0, k)
  BY <1>1 DEF Chunk, PointAt
<1>4. Append(Lines(n), Indeterminate) = Chunk(fs, i, 0, n + 1)
  <2>1. /\ Lines(n) \in Seq(Point) /\ Len(Lines(n)) = n
        /\ \A j \in 1..n : Lines(n)[j] = PointAt(fs, i, j)
    <3>1. Lines(n) = Chunk(fs, i, 0, n) /\ n \in Nat
      <4>1. n \in 0..n
        BY <1>1
      <4> HIDE DEF Lines
      <4> QED
        BY <1>1, <1>3, <4>1
    <3>2. \A j \in 1..n : 0 + j = j
      BY <1>1
    <3> HIDE DEF Lines, n
    <3>3. /\ Chunk(fs, i, 0, n) \in Seq(Point) /\ Len(Chunk(fs, i, 0, n)) = n
          /\ \A j \in 1..n : Chunk(fs, i, 0, n)[j] = PointAt(fs, i, 0 + j)
      BY <3>1, ChunkType
    <3> QED
      BY <3>1, <3>2, <3>3
  <2>2. Indeterminate \in Point /\ PointAt(fs, i, n + 1) = Indeterminate
    BY <1>1 DEF Point, PointAt, Indeterminate
  <2>3. /\ Chunk(fs, i, 0, n + 1) \in Seq(Point) /\ Len(Chunk(fs, i, 0, n + 1)) = n + 1
        /\ \A j \in 1..n + 1 : Chunk(fs, i, 0, n + 1)[j] = PointAt(fs, i, j)
    <3>1. n + 1 \in Nat /\ 0 \in Nat /\ \A j \in 1..n + 1 : 0 + j = j
      BY <1>1
    <3>2. /\ Chunk(fs, i, 0, n + 1) \in Seq(Point) /\ Len(Chunk(fs, i, 0, n + 1)) = n + 1
          /\ \A j \in 1..n + 1 : Chunk(fs, i, 0, n + 1)[j] = PointAt(fs, i, 0 + j)
      BY <3>1, ChunkType
    <3> HIDE DEF n
    <3> QED
      BY <3>1, <3>2
  <2> HIDE DEF Lines, n
  <2>4. Append(Lines(n), Indeterminate) \in Seq(Point)
    BY <2>1, <2>2
  <2> QED
    BY <1>1, <2>1, <2>2, <2>3, <2>4
<1>5. /\ ~fs[i].newline /\ n % BufferSize # 0 => Delivered(fs[i], i) = Lines(n - 1)
      /\ fs[i].newline /\ (n + 1) % BufferSize = 0 =>
           Delivered(fs[i], i) = Append(Lines(n), Indeterminate)
      /\ ~fs[i].newline /\ n % BufferSize = 0 => Delivered(fs[i], i) = Lines(n)
      /\ fs[i].newline /\ (n + 1) % BufferSize # 0 => Delivered(fs[i], i) = Lines(n)
  BY Zenon DEF Delivered
<1> HIDE DEF n, Lines
<1>6. n \in 0..n /\ (n % BufferSize # 0 => n - 1 \in 0..n /\ n - 1 \in Nat)
  BY <1>1, <1>2
<1> QED
  BY <1>1, <1>2, <1>3, <1>4, <1>5, <1>6 DEF n

\* The points of a file
LEMMA DeliveredType ==
  ASSUME NEW fs \in Seq(File), NEW i \in 1..Len(fs)
  PROVE  Delivered(fs[i], i) \in Seq(Point)
<1> DEFINE n == fs[i].lines
<1>1. /\ n \in Nat /\ n + 1 \in Nat /\ 0 \in Nat /\ fs[i].newline \in BOOLEAN
      /\ n % BufferSize # 0 /\ ~fs[i].newline => n - 1 \in Nat
  BY DeliveredIs, FileAt
<1>2. \A k \in Nat : Chunk(fs, i, 0, k) \in Seq(Point)
  BY ChunkType
<1> QED
  BY <1>1, <1>2, DeliveredIs

\* One file more
LEMMA UntilStep ==
  ASSUME NEW fs \in Seq(File), NEW k \in 1..Len(fs)
  PROVE  Until(fs, k) = Until(fs, k - 1) \o Delivered(fs[k], k)
<1> DEFINE s == [i \in 1..k - 1 |-> Delivered(fs[i], i)]
           t == [i \in 1..k |-> Delivered(fs[i], i)]
<1>1. k \in Nat /\ k - 1 \in Nat /\ k \in 1..k
  OBVIOUS
<1>2. \A i \in 1..k : Delivered(fs[i], i) \in Seq(Point)
  BY DeliveredType
<1>3. s \in Seq(Seq(Point)) /\ t \in Seq(Seq(Point))
  BY <1>1, <1>2
<1>4. Len(t) = Len(s) + 1 /\ Len(t) = k /\ \A i \in 1..Len(s) : s[i] = t[i]
  BY <1>1, <1>3
<1>5. t[k] = Delivered(fs[k], k)
  BY <1>1
<1>6. Until(fs, k) = FlattenSeq(t) /\ Until(fs, k - 1) = FlattenSeq(s)
  BY DEF Until
<1> HIDE DEF s, t
<1> QED
  BY <1>3, <1>4, <1>5, <1>6, FlattenStep

\* No file
LEMMA UntilNothing ==
  ASSUME NEW fs
  PROVE  Until(fs, 0) = <<>>
<1>1. [i \in 1..0 |-> Delivered(fs[i], i)] = <<>>
  OBVIOUS
<1> QED
  BY <1>1, FlattenNothing DEF Until

\* The points of the first files
LEMMA UntilType ==
  ASSUME NEW fs \in Seq(File)
  PROVE  \A k \in 0..Len(fs) : Until(fs, k) \in Seq(Point)
<1> DEFINE T == {k \in 0..Len(fs) : Until(fs, k) \notin Seq(Point)}
<1>1. SUFFICES ASSUME T # {}
               PROVE  FALSE
  OBVIOUS
<1>2. T \subseteq Nat
  OBVIOUS
<1>3. PICK k \in T : \A i \in T : k <= i
  BY <1>1, <1>2, LeastExists
<1>4. k \in 0..Len(fs) /\ Until(fs, k) \notin Seq(Point) /\ Len(fs) \in Nat
  OBVIOUS
<1>5. k # 0
  BY <1>4, UntilNothing, EmptySeq
<1>6. k \in 1..Len(fs) /\ k - 1 \in 0..Len(fs) /\ ~(k <= k - 1)
  BY <1>4, <1>5
<1>7. Until(fs, k - 1) \in Seq(Point)
  BY <1>3, <1>6
<1>8. Until(fs, k) = Until(fs, k - 1) \o Delivered(fs[k], k) /\ Delivered(fs[k], k) \in Seq(Point)
  BY <1>6, UntilStep, DeliveredType
<1> QED
  BY <1>4, <1>7, <1>8, ConcatProperties

\* More files continue the stream of fewer
LEMMA UntilPrefix ==
  ASSUME NEW fs \in Seq(File), NEW k \in 0..Len(fs)
  PROVE  \A n \in k..Len(fs) :
           \E u \in Seq(Point) : Until(fs, n) = Until(fs, k) \o u
<1> DEFINE P(n) == \E u \in Seq(Point) : Until(fs, n) = Until(fs, k) \o u
           T == {n \in k..Len(fs) : ~P(n)}
<1>1. SUFFICES ASSUME T # {}
               PROVE  FALSE
  OBVIOUS
<1>2. T \subseteq Nat
  OBVIOUS
<1>3. PICK n \in T : \A i \in T : n <= i
  BY <1>1, <1>2, LeastExists
<1>4. n \in k..Len(fs) /\ Len(fs) \in Nat /\ k \in Nat
  OBVIOUS
<1>4a. ~P(n)
  OBVIOUS
<1>5. P(k)
  BY UntilType, ConcatEmptySeq, EmptySeq
<1>6. n # k
  BY <1>4a, <1>5
<1>7. n \in 1..Len(fs) /\ n - 1 \in k..Len(fs) /\ ~(n <= n - 1)
  BY <1>4, <1>6
<1>8. P(n - 1)
  BY <1>3, <1>7
<1>9. PICK u \in Seq(Point) : Until(fs, n - 1) = Until(fs, k) \o u
  BY <1>8
<1>10. Until(fs, n) = Until(fs, n - 1) \o Delivered(fs[n], n) /\ Delivered(fs[n], n) \in Seq(Point)
  BY <1>7, UntilStep, DeliveredType
<1>11. /\ Until(fs, n) = Until(fs, k) \o (u \o Delivered(fs[n], n))
       /\ u \o Delivered(fs[n], n) \in Seq(Point)
  <2>1. Until(fs, k) \in Seq(Point)
    BY UntilType
  <2>2. u \o Delivered(fs[n], n) \in Seq(Point)
    BY <1>10, ConcatProperties
  <2>3. (Until(fs, k) \o u) \o Delivered(fs[n], n) = Until(fs, k) \o (u \o Delivered(fs[n], n))
    BY <1>10, <2>1, Associative
  <2> QED
    BY <1>9, <1>10, <2>1, <2>2, <2>3, Zenon
<1> QED
  BY <1>4a, <1>11

\* Where the reader is
LEMMA Sizes ==
  ASSUME TypesInv
  PROVE  /\ files \in Seq(File) /\ Len(files) \in Nat /\ DOMAIN files = 1..Len(files)
         /\ file \in 0..Len(files) /\ file \in Nat /\ line \in Nat
         /\ Len(files) \in 0..Len(files)
         /\ file \in 1..Len(files) => file - 1 \in 0..Len(files)
<1>1. files \in Seq(File) /\ file \in 0..Len(files) /\ line \in Nat
  BY DEF TypesInv
<1>2. Len(files) \in Nat /\ DOMAIN files = 1..Len(files)
  BY <1>1, LenProperties
<1> QED
  BY <1>1, <1>2

\* The points on their way
LEMMA Sequences ==
  ASSUME TypesInv
  PROVE  /\ buffer \in Seq(Point) /\ data_queue \in Seq(Point)
         /\ popped \in Seq(Point) /\ dataset \in Seq(Point)
         /\ Len(buffer) \in Nat /\ Len(data_queue) \in Nat
         /\ Len(popped) \in Nat /\ WriteSize - Len(popped) \in Nat
<1>1. /\ buffer \in Seq(Point) /\ data_queue \in Seq(Point)
      /\ popped \in Seq(Point) /\ dataset \in Seq(Point)
      /\ Len(popped) <= WriteSize
  BY DEF TypesInv
<1>2. Len(popped) \in Nat
  BY <1>1, LenProperties
<1>3. WriteSize - Len(popped) \in Nat
  BY <1>1, <1>2, BluedAssumption
<1> QED
  BY <1>1, <1>2, <1>3, LenProperties

\* Conversion is all files
LEMMA ConversionIs ==
  ASSUME TypesInv
  PROVE  Conversion = Until(files, Len(files))
<1>1. DOMAIN files = 1..Len(files)
  BY Sizes
<1> QED
  BY <1>1 DEF Conversion, Until

\* A chunk in two parts
LEMMA ChunkSplit ==
  ASSUME NEW fs \in Seq(File), NEW i \in 1..Len(fs), NEW from \in Nat,
         NEW m \in Nat, NEW n \in Nat
  PROVE  Chunk(fs, i, from, m + n) =
           Chunk(fs, i, from, m) \o Chunk(fs, i, from + m, n)
<1> DEFINE a == Chunk(fs, i, from, m)
           b == Chunk(fs, i, from + m, n)
           c == Chunk(fs, i, from, m + n)
<1>1. from + m \in Nat /\ m + n \in Nat
  OBVIOUS
<1>2. /\ a \in Seq(Point) /\ Len(a) = m
      /\ \A j \in 1..m : a[j] = PointAt(fs, i, from + j)
  BY ChunkType
<1>3. /\ b \in Seq(Point) /\ Len(b) = n
      /\ \A j \in 1..n : b[j] = PointAt(fs, i, from + m + j)
  BY <1>1, ChunkType
<1>4. /\ c \in Seq(Point) /\ Len(c) = m + n
      /\ \A j \in 1..m + n : c[j] = PointAt(fs, i, from + j)
  BY <1>1, ChunkType
<1> HIDE DEF a, b, c
<1>5. /\ a \o b \in Seq(Point) /\ Len(a \o b) = m + n
      /\ \A j \in 1..m + n :
           (a \o b)[j] = IF j <= m THEN a[j] ELSE b[j - m]
  BY <1>2, <1>3, ConcatProperties
<1>6. \A j \in 1..m + n : (a \o b)[j] = c[j]
  <2>1. TAKE j \in 1..m + n
  <2>2. CASE j <= m
    <3>1. j \in 1..m
      BY <2>2
    <3> QED
      BY <1>2, <1>4, <1>5, <2>2, <3>1
  <2>3. CASE ~(j <= m)
    <3>1. j - m \in 1..n /\ from + m + (j - m) = from + j
      BY <2>3
    <3>2. b[j - m] = PointAt(fs, i, from + j)
      BY <1>3, <3>1
    <3> QED
      BY <1>4, <1>5, <2>3, <3>2
  <2> QED
    BY <2>2, <2>3
<1> QED
  BY <1>4, <1>5, <1>6, SeqEqual DEF a, b, c

\* The write buffer is full once every BufferSize lines
LEMMA Remainders ==
  ASSUME NEW from \in Nat, from % BufferSize = 0, NEW n \in 0..BufferSize
  PROVE  /\ n < BufferSize => (from + n) % BufferSize = n
         /\ n = BufferSize => (from + n) % BufferSize = 0
<1> DEFINE B == BufferSize
           q == from \div B
           p == (from + n) \div B
           r == (from + n) % B
<1>1. B \in Nat /\ B > 0 /\ n \in Nat
  BY BluedAssumption
<1>2. from = B * q /\ q \in Int
  BY <1>1
<1>3. from + n = B * p + r /\ p \in Int /\ r \in 0..B - 1
  BY <1>1
<1> HIDE DEF B, p, q, r
<1>4. B * p - B * q = B * (p - q)
  BY <1>1, <1>2, <1>3
<1>5. B * (p - q) = n - r
  BY <1>1, <1>2, <1>3, <1>4
<1>6. p - q \in 0..1
  <2>1. p - q >= 2 => B * (p - q) >= B * 2
    BY <1>1, <1>2, <1>3
  <2>2. p - q <= -1 => B * (p - q) <= -B
    BY <1>1, <1>2, <1>3
  <2> QED
    BY <1>1, <1>2, <1>3, <1>5, <2>1, <2>2 DEF B
<1>7. CASE p - q = 0
  BY <1>1, <1>3, <1>5, <1>7 DEF B, r
<1>8. CASE p - q = 1
  BY <1>1, <1>3, <1>5, <1>8 DEF B, r
<1> QED
  BY <1>6, <1>7, <1>8

\* What readOnce has handed over is the beginning of what is delivered
LEMMA DeliveredPrefix ==
  ASSUME NEW fs \in Seq(File), NEW i \in 1..Len(fs), NEW m \in Nat,
         m % BufferSize = 0, m <= fs[i].lines + 1,
         m = fs[i].lines + 1 => fs[i].newline
  PROVE  \E u \in Seq(Point) : Delivered(fs[i], i) = Chunk(fs, i, 0, m) \o u
<1> DEFINE n == fs[i].lines
           P(k) == Delivered(fs[i], i) = Chunk(fs, i, 0, k)
<1>1. n \in Nat /\ fs[i].newline \in BOOLEAN /\ m \in Nat
  BY FileAt
<1>2. PICK k \in Nat : P(k) /\ m <= k
  <2> HIDE DEF P
  <2>1. CASE ~fs[i].newline /\ n % BufferSize # 0
    <3>1. P(n - 1) /\ n - 1 \in Nat
      BY <2>1, DeliveredIs DEF P
    <3>2. m # n /\ m # n + 1
      BY <2>1
    <3> QED
      BY <1>1, <3>1, <3>2
  <2>2. CASE fs[i].newline /\ (n + 1) % BufferSize = 0
    <3>1. P(n + 1) /\ n + 1 \in Nat
      BY <1>1, <2>2, DeliveredIs DEF P
    <3> QED
      BY <3>1
  <2>3. CASE ~fs[i].newline /\ n % BufferSize = 0
    <3>1. P(n)
      BY <2>3, DeliveredIs DEF P
    <3> QED
      BY <1>1, <2>3, <3>1
  <2>4. CASE fs[i].newline /\ (n + 1) % BufferSize # 0
    <3>1. P(n)
      BY <2>4, DeliveredIs DEF P
    <3>2. m # n + 1
      BY <2>4
    <3> QED
      BY <1>1, <3>1, <3>2
  <2> QED
    BY <1>1, <2>1, <2>2, <2>3, <2>4
<1>3. k - m \in Nat /\ m + (k - m) = k /\ 0 \in Nat /\ 0 + m = m
  BY <1>2
<1>4. Chunk(fs, i, 0, k) = Chunk(fs, i, 0, m) \o Chunk(fs, i, m, k - m)
  <2>1. \A a, b \in Nat :
          Chunk(fs, i, 0, a + b) = Chunk(fs, i, 0, a) \o Chunk(fs, i, 0 + a, b)
    BY <1>3, ChunkSplit
  <2>2. Chunk(fs, i, 0, m + (k - m)) =
          Chunk(fs, i, 0, m) \o Chunk(fs, i, 0 + m, k - m)
    BY <1>3, <2>1, Zenon
  <2> QED
    BY <1>3, <2>2, Zenon
<1>5. Chunk(fs, i, m, k - m) \in Seq(Point)
  BY <1>3, ChunkType
<1> QED
  BY <1>2, <1>4, <1>5

-----------------------------------------------------------------------------
(* What has been sent is the beginning of the conversion.                  *)

\* A sequence is a prefix of what continues it
LEMMA PrefixIs ==
  ASSUME NEW s \in Seq(Point), NEW u \in Seq(Point)
  PROVE  IsPrefix(s, s \o u)
<1> DEFINE t == s \o u
<1>1. t \in Seq(Point) /\ Len(t) = Len(s) + Len(u) /\ Len(s) \in Nat /\ Len(u) \in Nat
  BY ConcatProperties
<1>2. SubSeq(s, 1, Len(s)) = s
  BY SubSeqFull
<1>3. CASE s = <<>>
  <2>1. Len(s) = 0
    BY <1>3
  <2>2. SubSeq(t, 1, Len(s)) = <<>> /\ SubSeq(s, 1, Len(s)) = <<>>
    BY <2>1, SubSeqEmpty
  <2> QED
    BY <1>1, <2>1, <2>2 DEF IsPrefix
<1>4. CASE s # <<>>
  <2>1. 1 \in 1..Len(s) /\ Len(s) \in 1..Len(s)
    BY <1>4
  <2>2. SubSeq(t, 1, Len(s)) = SubSeq(s, 1, Len(s))
    BY <2>1, SubSeqOfConcat1
  <2> QED
    BY <1>1, <1>2, <2>2 DEF IsPrefix
<1> QED
  BY <1>3, <1>4

\* The points that have left the reader
LEMMA SentType ==
  ASSUME TypesInv
  PROVE  /\ Sent \in Seq(Point) /\ dataset \o popped \in Seq(Point)
         /\ Sent \o buffer \in Seq(Point)
BY Sequences, ConcatProperties DEF Sent

\* A beginning of the first k files
LEMMA PrefixOfFiles ==
  ASSUME TypesInv, NEW k \in 0..Len(files), NEW v \in Seq(Point),
         Until(files, k) = Sent \o v
  PROVE  \E u \in Seq(Point) : Conversion = Sent \o u
<1>1. files \in Seq(File) /\ Len(files) \in k..Len(files)
  BY Sizes
<1>2. PICK w \in Seq(Point) : Until(files, Len(files)) = Until(files, k) \o w
  BY <1>1, UntilPrefix
<1>3. (Sent \o v) \o w = Sent \o (v \o w) /\ v \o w \in Seq(Point)
  BY SentType, Associative, ConcatProperties
<1>4. Conversion = Sent \o (v \o w)
  BY <1>2, <1>3, ConversionIs
<1> QED
  BY <1>3, <1>4

\* ... and of what is delivered of the next one
LEMMA PrefixOfFile ==
  ASSUME TypesInv, file \in 1..Len(files), NEW m \in Nat,
         m % BufferSize = 0, m <= files[file].lines + 1,
         m = files[file].lines + 1 => files[file].newline,
         NEW v \in Seq(Point),
         Sent \o v = Until(files, file - 1) \o Chunk(files, file, 0, m)
  PROVE  \E u \in Seq(Point) : Conversion = Sent \o u
<1>1. files \in Seq(File) /\ file \in 0..Len(files) /\ file - 1 \in 0..Len(files) /\ 0 \in Nat
  BY Sizes
<1>2. PICK w \in Seq(Point) : Delivered(files[file], file) = Chunk(files, file, 0, m) \o w
  BY <1>1, DeliveredPrefix
<1>3. /\ Until(files, file - 1) \in Seq(Point)
      /\ Chunk(files, file, 0, m) \in Seq(Point)
      /\ Sent \in Seq(Point)
  BY <1>1, UntilType, ChunkType, SentType
<1>4. Until(files, file) = Until(files, file - 1) \o Delivered(files[file], file)
  BY <1>1, UntilStep
<1>5. (Until(files, file - 1) \o Chunk(files, file, 0, m)) \o w
        = Until(files, file - 1) \o (Chunk(files, file, 0, m) \o w)
  BY <1>3, Associative
<1>6. (Sent \o v) \o w = Sent \o (v \o w) /\ v \o w \in Seq(Point)
  BY <1>3, Associative, ConcatProperties
<1>7. Until(files, file) = Sent \o (v \o w)
  BY <1>2, <1>4, <1>5, <1>6
<1> QED
  BY <1>1, <1>6, <1>7, PrefixOfFiles

\* What has left the reader is a beginning of the files
LEMMA SentIsPrefix ==
  ASSUME TypesInv, FlowInv
  PROVE  \E u \in Seq(Point) : Conversion = Sent \o u
<1>1. /\ files \in Seq(File) /\ Len(files) \in Nat /\ Len(files) \in 0..Len(files)
      /\ file \in 0..Len(files)
      /\ file \in 1..Len(files) => file - 1 \in 0..Len(files)
  BY Sizes
<1>2. Sent \in Seq(Point) /\ <<>> \in Seq(Point) /\ Sent \o <<>> = Sent
  BY SentType, EmptySeq, ConcatEmptySeq
<1>3. CASE runner_pc \in {"none", "restarting"}
  <2>1. Sent = <<>> /\ Until(files, Len(files)) \in Seq(Point)
    BY <1>1, <1>3, UntilType DEF FlowInv
  <2>2. Until(files, Len(files)) = Sent \o Until(files, Len(files))
    BY <2>1, ConcatEmptySeq
  <2> QED
    BY <1>1, <2>1, <2>2, PrefixOfFiles
<1>4. CASE runner_pc \in {"locating", "adding past buffer"}
  <2>1. Until(files, file) = Sent \o <<>>
    BY <1>2, <1>4 DEF FlowInv
  <2> QED
    BY <1>1, <1>2, <2>1, PrefixOfFiles
<1>5. CASE runner_pc = "opening"
  <2>1. Until(files, file - 1) = Sent \o <<>> /\ file - 1 \in 0..Len(files)
    BY <1>1, <1>2, <1>5 DEF FlowInv
  <2> QED
    BY <1>2, <2>1, PrefixOfFiles
<1>6. CASE runner_pc = "reading"
  <2>1. ReadingInv /\ LineInv /\ file \in 1..Len(files)
    BY <1>6 DEF FlowInv, ReadingInv
  <2>2. /\ line - Len(buffer) \in Nat /\ (line - Len(buffer)) % BufferSize = 0
        /\ line \in Nat /\ Len(buffer) \in Nat
        /\ Sent \o <<>> = Until(files, file - 1)
                            \o Chunk(files, file, 0, line - Len(buffer))
    BY <1>2, <2>1, Sizes, Sequences DEF ReadingInv
  <2>3. files[file].lines \in Nat
    BY <1>1, <2>1, FileAt
  <2>4. /\ line - Len(buffer) <= files[file].lines + 1
        /\ line - Len(buffer) = files[file].lines + 1 => files[file].newline
    BY <2>1, <2>2, <2>3 DEF LineInv
  <2> QED
    BY <1>2, <2>1, <2>2, <2>4, PrefixOfFile
<1>7. CASE runner_pc = "adding" /\ success
  <2>1. AddingInv /\ file \in 1..Len(files)
    BY <1>7 DEF FlowInv
  <2>2. /\ LineInv /\ line \in Nat /\ line % BufferSize = 0 /\ buffer \in Seq(Point)
        /\ Sent \o buffer = Until(files, file - 1) \o Chunk(files, file, 0, line)
    BY <1>7, <2>1, Sizes, Sequences DEF AddingInv
  <2> QED
    BY <2>1, <2>2, PrefixOfFile DEF LineInv
<1>8. CASE runner_pc = "adding" /\ ~success
  <2>1. Until(files, file) = Sent \o buffer /\ buffer \in Seq(Point)
    BY <1>8, Sequences DEF FlowInv, AddingInv
  <2> QED
    BY <1>1, <2>1, PrefixOfFiles
<1>9. CASE runner_pc \in {"ending", "notifying", "returned"}
  <2>1. Until(files, Len(files)) = Sent \o <<>>
    BY <1>2, <1>9 DEF FlowInv
  <2> QED
    BY <1>1, <1>2, <2>1, PrefixOfFiles
<1> QED
  BY <1>3, <1>4, <1>5, <1>6, <1>7, <1>8, <1>9 DEF TypesInv

-----------------------------------------------------------------------------
(* The steps of the reading thread.                                        *)

\* What is taken of a sequence and what is left of it
LEMMA Taken ==
  ASSUME NEW s \in Seq(Point), NEW n \in 0..Len(s)
  PROVE  /\ SubSeq(s, 1, n) \in Seq(Point)
         /\ SubSeq(s, n + 1, Len(s)) \in Seq(Point)
         /\ SubSeq(s, 1, n) \o SubSeq(s, n + 1, Len(s)) = s
<1>1. /\ Len(s) \in Nat /\ n \in Nat /\ 1 \in 1..Len(s) + 1
      /\ n \in 1 - 1..Len(s) /\ Len(s) \in n..Len(s)
  OBVIOUS
<1>2. \A i \in 1..Len(s) : s[i] \in Point
  BY ElementOfSeq
<1>3. SubSeq(s, 1, n) \in Seq(Point)
  BY <1>1, <1>2, SubSeqProperties
<1>4. SubSeq(s, n + 1, Len(s)) \in Seq(Point)
  BY <1>1, <1>2, SubSeqProperties
<1>5. SubSeq(s, 1, n) \o SubSeq(s, n + 1, Len(s)) = SubSeq(s, 1, Len(s))
  BY <1>1, ConcatAdjacentSubSeq
<1>6. SubSeq(s, 1, Len(s)) = s
  BY SubSeqFull
<1> QED
  BY <1>3, <1>4, <1>5, <1>6

\* The lesser of two numbers
LEMMA LesserIs ==
  ASSUME NEW m \in Nat, NEW n \in Nat
  PROVE  Lesser(m, n) \in 0..m /\ Lesser(m, n) \in 0..n
BY DEF Lesser

\* ... as many as asked for
LEMMA TakenLength ==
  ASSUME NEW s \in Seq(Point), NEW n \in 0..Len(s)
  PROVE  Len(SubSeq(s, 1, n)) = n
OBVIOUS

\* The reading thread keeps the types
LEMMA RunnerTypes ==
  ASSUME TypesInv, Runner
  PROVE  TypesInv'
<1>a. /\ Len(files) \in Nat /\ file \in Nat /\ line \in Nat
      /\ buffer \in Seq(Point) /\ data_queue \in Seq(Point)
      /\ popped \in Seq(Point) /\ dataset \in Seq(Point)
      /\ Len(buffer) \in Nat /\ Len(data_queue) \in Nat /\ Len(popped) \in Nat
  BY Sizes, Sequences
<1> USE DEF mainVars, queueVars, runnerVars
<1>1. CASE RestartStreaming
  <2>1. file' \in 0..Len(files)
    <3>1. CASE whole_location
      BY <1>1, <1>a, <3>1 DEF RestartStreaming
    <3>2. CASE ~whole_location
      <4>1. Len(files) = 1 /\ file' = 1
        BY <1>1, <3>2 DEF RestartStreaming, TypesInv
      <4> QED
        BY <4>1
    <3> QED
      BY <3>1, <3>2
  <2> QED
    BY <1>1, <2>1 DEF RestartStreaming, TypesInv
<1>2. CASE RestartsNothing
  BY <1>2 DEF RestartsNothing, TypesInv
<1>3. CASE NextLocation
  <2>1. file' \in 0..Len(files)
    BY <1>3, <1>a DEF NextLocation, TypesInv
  <2> QED
    BY <1>3, <2>1 DEF NextLocation, TypesInv
<1>4. CASE SkipToData
  BY <1>4, EmptySeq DEF SkipToData, TypesInv
<1>5. CASE MatchLine
  <2>1. \A p \in Point : Append(buffer, p) \in Seq(Point)
    BY <1>a
  <2>2. line + 1 \in Nat /\ <<file, line + 1>> \in Point /\ Indeterminate \in Point
    BY <1>a DEF Point, Indeterminate
  <2>3. buffer' \in Seq(Point) /\ line' \in Nat
    BY <1>5, <2>1, <2>2 DEF MatchLine
  <2> QED
    BY <1>5, <2>3 DEF MatchLine, TypesInv
<1>6. CASE MatchLineThrows
  BY <1>6 DEF MatchLineThrows, TypesInv
<1>7. CASE ReadOnce
  <2>1. buffer # <<>> => WithoutLast \in Seq(Point)
    <3>1. SUFFICES ASSUME buffer # <<>>
                   PROVE  WithoutLast \in Seq(Point)
      OBVIOUS
    <3>2. Len(buffer) - 1 \in 0..Len(buffer)
      BY <3>1, <1>a
    <3> QED
      BY <3>2, <1>a, Taken DEF WithoutLast, Front
  <2>2. buffer' \in Seq(Point) /\ success' \in BOOLEAN
    BY <1>7, <2>1, <1>a, EmptySeq DEF ReadOnce
  <2> QED
    BY <1>7, <2>2 DEF ReadOnce, TypesInv
<1>8. CASE AddDataPoints
  <2> DEFINE n == Lesser(Len(buffer), Capacity - Len(data_queue))
  <2>1. n \in 0..Len(buffer)
    BY <1>8, <1>a, LesserIs, BluedAssumption DEF AddDataPoints
  <2>2. /\ SubSeq(buffer, 1, n) \in Seq(Point)
        /\ SubSeq(buffer, n + 1, Len(buffer)) \in Seq(Point)
    BY <2>1, <1>a, Taken
  <2>3. buffer' \in Seq(Point) /\ data_queue' \in Seq(Point)
    BY <1>8, <2>2, <1>a, ConcatProperties DEF AddDataPoints
  <2> QED
    BY <1>8, <2>3 DEF AddDataPoints, TypesInv
<1>9. CASE AddsPastBuffer
  BY <1>9 DEF AddsPastBuffer, TypesInv
<1>10. CASE AddReturns
  BY <1>10, EmptySeq DEF AddReturns, TypesInv
<1>11. CASE NotifyStreamEnd
  BY <1>11 DEF NotifyStreamEnd, TypesInv
<1>12. CASE NotifyReader
  BY <1>12 DEF NotifyReader, TypesInv
<1> QED
  BY <1>1, <1>2, <1>3, <1>4, <1>5, <1>6, <1>7, <1>8, <1>9, <1>10, <1>11,
     <1>12 DEF Runner

\* The main thread keeps the types
LEMMA MainTypes ==
  ASSUME TypesInv, Main \/ StopNow \/ SpuriousWakeup
  PROVE  TypesInv'
<1>a. /\ Len(files) \in Nat /\ file \in Nat /\ line \in Nat
      /\ buffer \in Seq(Point) /\ data_queue \in Seq(Point)
      /\ popped \in Seq(Point) /\ dataset \in Seq(Point)
      /\ Len(buffer) \in Nat /\ Len(data_queue) \in Nat /\ Len(popped) \in Nat
  BY Sizes, Sequences
<1> USE DEF mainVars, queueVars, runnerVars
<1>1. CASE StartReading
  BY <1>1 DEF StartReading, Starts, TypesInv
<1>2. CASE ReadWholeLocation
  BY <1>2 DEF ReadWholeLocation, Starts, TypesInv
<1>3. CASE CreateNewDataSpace
  BY <1>3 DEF CreateNewDataSpace, Catch, TypesInv
<1>4. CASE PopsNothing
  BY <1>4 DEF PopsNothing, TypesInv
<1>5. CASE PopDataPoints
  <2> DEFINE n == elements_pulled
  <2>1. n \in 0..Len(data_queue) /\ n \in 0..WriteSize - Len(popped)
    BY Sequences, LesserIs DEF elements_pulled
  <2>2. /\ SubSeq(data_queue, 1, n) \in Seq(Point)
        /\ SubSeq(data_queue, n + 1, Len(data_queue)) \in Seq(Point)
        /\ Len(SubSeq(data_queue, 1, n)) = n
    BY <2>1, <1>a, Taken, TakenLength
  <2>3. /\ popped' = popped \o SubSeq(data_queue, 1, n)
        /\ data_queue' = SubSeq(data_queue, n + 1, Len(data_queue))
    BY <1>5 DEF PopDataPoints
  <2>4. popped' \in Seq(Point) /\ data_queue' \in Seq(Point)
    BY <2>2, <2>3, <1>a, ConcatProperties
  <2>5. Len(popped') <= WriteSize
    <3>1. Len(popped') = Len(popped) + n
      BY <2>2, <2>3, <1>a, ConcatProperties
    <3> QED
      BY <2>1, <3>1, Sequences, BluedAssumption
  <2> QED
    BY <1>5, <2>4, <2>5 DEF PopDataPoints, TypesInv
<1>6. CASE WriteData
  <2>1. dataset \o popped \in Seq(Point) /\ <<>> \in Seq(Point)
    BY SentType, EmptySeq
  <2>2. CASE Catch
    BY <2>2 DEF Catch, TypesInv
  <2>3. CASE ~Catch
    <3>1. /\ dataset' = dataset \o popped /\ popped' = <<>>
          /\ UNCHANGED <<files, runnerVars, queueVars>>
      BY <1>6, <2>3, Zenon DEF WriteData
    <3>2. dataset' \in Seq(Point) /\ popped' \in Seq(Point)
      BY <2>1, <3>1, Zenon
    <3>3. Len(popped') <= WriteSize
      BY <3>1, BluedAssumption
    <3> QED
      BY <3>1, <3>2, <3>3 DEF TypesInv
  <2> QED
    BY <2>2, <2>3
<1>7. CASE WriteDataReturns
  BY <1>7 DEF WriteDataReturns, TypesInv
<1>8. CASE StopGracefully
  BY <1>8 DEF StopGracefully, TypesInv
<1>9. CASE DiscardRestOfStream
  BY <1>9, EmptySeq DEF DiscardRestOfStream, TypesInv
<1>10. CASE Join
  BY <1>10 DEF Join, TypesInv
<1>11. CASE StopNow
  BY <1>11 DEF StopNow, TypesInv
<1>12. CASE FindsNothing \/ Waits \/ TestsEnd \/ SpuriousWakeup
  BY <1>12 DEF FindsNothing, Waits, TestsEnd, SpuriousWakeup, TypesInv
<1> QED
  BY <1>1, <1>2, <1>3, <1>4, <1>5, <1>6, <1>7, <1>8, <1>9, <1>10, <1>11,
     <1>12 DEF Main

\* A chunk of no points
LEMMA EmptyChunk ==
  ASSUME NEW fs, NEW i, NEW from
  PROVE  Chunk(fs, i, from, 0) = <<>>
BY DEF Chunk

\* Where a file begins
LEMMA FileBegins ==
  ASSUME TypesInv, Streaming, FlowInv, SkipToData
  PROVE  FlowInv'
<1>1. Sent' = Sent
  BY DEF SkipToData, Sent, mainVars, queueVars
<1>2. CASE files[file].header
  <2>1. /\ runner_pc' = "reading" /\ line' = 0 /\ buffer' = <<>> /\ Len(buffer') = 0
        /\ UNCHANGED <<files, file, continue_reading, stream_ended, main_pc>>
    BY <1>2 DEF SkipToData, mainVars, queueVars
  <2>2. line' - Len(buffer') = 0 /\ 0 % BufferSize = 0 /\ 0 \in Nat /\ 0 <= BufferSize
    <3>1. BufferSize \in Nat \ {0}
      BY BluedAssumption
    <3>2. 0 % BufferSize = 0
      BY <3>1
    <3>3. line' = 0 /\ Len(buffer') = 0
      BY <2>1
    <3>4. line' - Len(buffer') = 0
      BY <3>3
    <3> QED
      BY <3>1, <3>2, <3>4
  <2>3. file \in 1..Len(files) /\ file - 1 \in 0..Len(files) /\ files[file].lines \in Nat
    BY Sizes, FileAt DEF FlowInv, SkipToData
  <2>4. Sent = Until(files, file - 1) /\ Until(files, file - 1) \in Seq(Point)
    BY <2>3, Sizes, UntilType DEF FlowInv, SkipToData
  <2>5. Sent' = Until(files, file - 1) \o Chunk(files, file, 0, 0)
    BY <1>1, <2>4, EmptyChunk, ConcatEmptySeq
  <2>6. LineInv'
    BY <2>1, <2>3 DEF LineInv
  <2>7. ReadingInv'
    BY <2>1, <2>2, <2>5, <2>6, EmptyChunk DEF ReadingInv
  <2> QED
    BY <2>1, <2>3, <2>7 DEF FlowInv, SkipToData
<1>3. CASE ~files[file].header
  BY <1>1, <1>3 DEF FlowInv, SkipToData, mainVars, queueVars
<1> QED
  BY <1>2, <1>3

\* matchLine adds the next line to the buffer
LEMMA MatchLineFlows ==
  ASSUME TypesInv, Streaming, FlowInv, MatchLine
  PROVE  FlowInv'
<1> DEFINE b    == Len(buffer)
           from == line - b
           p    == IF line < files[file].lines THEN <<file, line + 1>>
                                               ELSE Indeterminate
<1>1. /\ runner_pc = "reading" /\ runner_pc' = "reading"
      /\ buffer' = Append(buffer, p) /\ line' = line + 1
      /\ UNCHANGED <<files, file, continue_reading, stream_ended, main_pc>>
      /\ b < BufferSize /\ Good
  BY DEF MatchLine, KeepsReading, mainVars, queueVars
<1>2. Sent' = Sent
  BY DEF MatchLine, Sent, mainVars, queueVars
<1>3. /\ file \in 1..Len(files) /\ files[file].lines \in Nat /\ line \in Nat
      /\ buffer \in Seq(Point) /\ b \in Nat /\ BufferSize \in Nat /\ file \in Nat
  BY <1>1, Sizes, Sequences, FileAt, BluedAssumption DEF FlowInv
<1>4. /\ LineInv /\ from \in Nat /\ from % BufferSize = 0
      /\ buffer = Chunk(files, file, from, b)
      /\ Sent = Until(files, file - 1) \o Chunk(files, file, 0, from)
  BY <1>1 DEF FlowInv, ReadingInv
<1>5. LineInv'
  BY <1>1, <1>3 DEF LineInv, Good
<1>6. p = PointAt(files, file, from + (b + 1)) /\ p \in Point
  BY <1>3 DEF PointAt, Point, Indeterminate
<1> HIDE DEF p
<1>7. buffer' \in Seq(Point) /\ Len(buffer') = b + 1
  BY <1>1, <1>3, <1>6
<1>8. line' - Len(buffer') = from
  BY <1>1, <1>3, <1>7
<1>9. buffer' = Chunk(files, file, from, b + 1)
  <2>1. /\ Chunk(files, file, from, b + 1) \in Seq(Point)
        /\ Len(Chunk(files, file, from, b + 1)) = b + 1
        /\ \A j \in 1..b + 1 : Chunk(files, file, from, b + 1)[j]
                                 = PointAt(files, file, from + j)
    <3>1. b + 1 \in Nat /\ from \in Nat /\ files \in Seq(File)
      BY <1>3, <1>4, Sizes
    <3> HIDE DEF b, from
    <3> QED
      BY <1>3, <3>1, ChunkType
  <2>2. \A j \in 1..b : buffer[j] = PointAt(files, file, from + j)
    <3>1. files \in Seq(File)
      BY Sizes
    <3> HIDE DEF b, from
    <3>2. \A j \in 1..b : Chunk(files, file, from, b)[j]
                           = PointAt(files, file, from + j)
      BY <1>3, <1>4, <3>1, ChunkType
    <3> QED
      BY <1>4, <3>2, Zenon
  <2> HIDE DEF from
  <2>3. \A j \in 1..b + 1 : buffer'[j] = PointAt(files, file, from + j)
    <3>1. TAKE j \in 1..b + 1
    <3>2. CASE j = b + 1
      BY <1>1, <1>3, <1>6, <3>2
    <3>3. CASE j # b + 1
      <4>1. j \in 1..b
        BY <1>3, <3>3
      <4> QED
        BY <1>1, <1>3, <2>2, <4>1
    <3> QED
      BY <3>2, <3>3
  <2> HIDE DEF b
  <2> QED
    BY <1>7, <2>1, <2>3, SeqEqual
<1>10. b + 1 <= BufferSize
  BY <1>1, <1>3
<1>11. ReadingInv'
  <2> HIDE DEF b, from
  <2> QED
    BY <1>1, <1>2, <1>4, <1>5, <1>7, <1>8, <1>9, <1>10 DEF ReadingInv
<1> QED
  BY <1>1, <1>3, <1>11 DEF FlowInv

\* What has been sent of a file and a chunk that follows on it
LEMMA Rejoined ==
  ASSUME NEW fs \in Seq(File), NEW i \in 1..Len(fs), NEW u \in Seq(Point),
         NEW m \in Nat, NEW n \in Nat
  PROVE  (u \o Chunk(fs, i, 0, m)) \o Chunk(fs, i, m, n)
           = u \o Chunk(fs, i, 0, m + n)
<1>1. 0 \in Nat /\ 0 + m = m
  OBVIOUS
<1>2. Chunk(fs, i, 0, m) \in Seq(Point) /\ Chunk(fs, i, m, n) \in Seq(Point)
  BY <1>1, ChunkType
<1>3. \A a, b \in Nat :
        Chunk(fs, i, 0, a + b) = Chunk(fs, i, 0, a) \o Chunk(fs, i, 0 + a, b)
  BY <1>1, ChunkSplit
<1>4. Chunk(fs, i, 0, m + n) = Chunk(fs, i, 0, m) \o Chunk(fs, i, m, n)
  BY <1>1, <1>3
<1>5. (u \o Chunk(fs, i, 0, m)) \o Chunk(fs, i, m, n)
        = u \o (Chunk(fs, i, 0, m) \o Chunk(fs, i, m, n))
  BY <1>2, Associative
<1> QED
  BY <1>4, <1>5, Zenon

\* A chunk without its last point
LEMMA ShorterChunk ==
  ASSUME NEW fs \in Seq(File), NEW i \in 1..Len(fs), NEW from \in Nat,
         NEW n \in Nat \ {0}
  PROVE  Front(Chunk(fs, i, from, n)) = Chunk(fs, i, from, n - 1)
<1> DEFINE c == Chunk(fs, i, from, n)
           d == Chunk(fs, i, from, n - 1)
<1>1. n \in Nat /\ n - 1 \in Nat
  OBVIOUS
<1>2. /\ c \in Seq(Point) /\ Len(c) = n
      /\ \A j \in 1..n : c[j] = PointAt(fs, i, from + j)
  BY <1>1, ChunkType
<1>3. /\ d \in Seq(Point) /\ Len(d) = n - 1
      /\ \A j \in 1..n - 1 : d[j] = PointAt(fs, i, from + j)
  BY <1>1, ChunkType
<1> HIDE DEF c, d
<1>4. \A j \in 1..n - 1 : c[j] \in Point
  BY <1>1, <1>2
<1>5. /\ SubSeq(c, 1, n - 1) \in Seq(Point)
      /\ Len(SubSeq(c, 1, n - 1)) = n - 1
      /\ \A j \in 1..n - 1 : SubSeq(c, 1, n - 1)[j] = c[j]
  <2>1. 1 \in Int /\ n - 1 \in Int /\ n - 1 - 1 + 1 = n - 1
    BY <1>1
  <2>2. /\ SubSeq(c, 1, n - 1) \in Seq(Point)
        /\ Len(SubSeq(c, 1, n - 1)) = IF 1 <= n - 1 THEN n - 1 - 1 + 1 ELSE 0
        /\ \A j \in 1..n - 1 - 1 + 1 : SubSeq(c, 1, n - 1)[j] = c[1 + j - 1]
    BY <1>4, <2>1, SubSeqProperties
  <2> QED
    BY <1>1, <2>1, <2>2
<1>6. \A j \in 1..n - 1 : SubSeq(c, 1, n - 1)[j] = d[j]
  <2>1. TAKE j \in 1..n - 1
  <2>2. j \in 1..n
    BY <1>1
  <2> QED
    BY <1>2, <1>3, <1>5, <2>2, Zenon
<1>7. SubSeq(c, 1, n - 1) = d
  BY <1>1, <1>3, <1>5, <1>6, SeqEqual
<1> QED
  BY <1>2, <1>7 DEF Front, c, d

\* A file ends: readOnce drops the last point, or there is none
LEMMA FileEnds ==
  ASSUME NEW fs \in Seq(File), NEW i \in 1..Len(fs), NEW m \in Nat,
         NEW n \in Nat, m % BufferSize = 0, n < BufferSize,
         \/ m + n = fs[i].lines /\ ~fs[i].newline
         \/ m + n = fs[i].lines + 1 /\ fs[i].newline
  PROVE  /\ n = 0 => Delivered(fs[i], i) = Chunk(fs, i, 0, m + n)
         /\ n # 0 => Delivered(fs[i], i) = Chunk(fs, i, 0, m + (n - 1))
<1> DEFINE k == fs[i].lines
<1>1. /\ k \in Nat /\ fs[i].newline \in BOOLEAN /\ BufferSize \in Nat \ {0}
      /\ m + n \in Nat
  BY FileAt, BluedAssumption
<1>2. (m + n) % BufferSize = n
  <2>1. n \in 0..BufferSize
    BY <1>1
  <2> QED
    BY <2>1, Remainders
<1>3. m + (n - 1) = m + n - 1
  BY <1>1
<1> HIDE DEF k
<1>4. CASE m + n = k /\ ~fs[i].newline
  <2>1. n # 0 => Delivered(fs[i], i) = Chunk(fs, i, 0, k - 1)
    BY <1>2, <1>4, DeliveredIs DEF k
  <2>2. n = 0 => Delivered(fs[i], i) = Chunk(fs, i, 0, k)
    BY <1>2, <1>4, DeliveredIs DEF k
  <2> QED
    BY <1>3, <1>4, <2>1, <2>2
<1>5. CASE m + n = k + 1 /\ fs[i].newline
  <2>1. n # 0 => Delivered(fs[i], i) = Chunk(fs, i, 0, k)
    BY <1>2, <1>5, DeliveredIs DEF k
  <2>2. n = 0 => Delivered(fs[i], i) = Chunk(fs, i, 0, k + 1)
    BY <1>2, <1>5, DeliveredIs DEF k
  <2>3. m + (n - 1) = k
    BY <1>1, <1>3, <1>5
  <2> QED
    BY <1>5, <2>1, <2>2, <2>3
<1> QED
  BY <1>4, <1>5 DEF k

\* readOnce hands over a buffer of lines, or what is left at the end of the file
LEMMA ReadOnceFlows ==
  ASSUME TypesInv, Streaming, FlowInv, ReadOnce
  PROVE  FlowInv'
<1> DEFINE b    == Len(buffer)
           from == line - b
           n    == files[file].lines
           U    == Until(files, file - 1)
<1>1. /\ runner_pc = "reading" /\ ~KeepsReading
      /\ UNCHANGED <<files, file, line, continue_reading, stream_ended, main_pc>>
  BY DEF ReadOnce, mainVars, queueVars
<1>2. Sent' = Sent
  BY DEF ReadOnce, Sent, mainVars, queueVars
<1>3. /\ file \in 1..Len(files) /\ n \in Nat /\ line \in Nat /\ files \in Seq(File)
      /\ buffer \in Seq(Point) /\ b \in Nat /\ file \in Nat
      /\ files[file].newline \in BOOLEAN /\ file - 1 \in 0..Len(files)
  BY <1>1, Sizes, Sequences, FileAt DEF FlowInv
<1>4. BufferSize \in Nat /\ BufferSize # 0
  BY BluedAssumption
<1>5. /\ LineInv /\ from \in Nat /\ from % BufferSize = 0 /\ b <= BufferSize
      /\ buffer = Chunk(files, file, from, b)
      /\ Sent = U \o Chunk(files, file, 0, from)
  BY <1>1 DEF FlowInv, ReadingInv
<1>6. /\ from + b = line /\ U \in Seq(Point)
      /\ Until(files, file) = U \o Delivered(files[file], file)
  <2> HIDE DEF b, n
  <2>1. from + b = line
    BY <1>3
  <2> HIDE DEF from
  <2>2. U \in Seq(Point)
    BY <1>3, UntilType
  <2>3. Until(files, file) = U \o Delivered(files[file], file)
    BY <1>3, UntilStep
  <2> QED
    BY <2>1, <2>2, <2>3
<1>Rejoin. \A u \in Seq(Point), k, l \in Nat :
         (u \o Chunk(files, file, 0, k)) \o Chunk(files, file, k, l)
           = u \o Chunk(files, file, 0, k + l)
  BY <1>3, Rejoined
<1> HIDE DEF from
<1>7. CASE b = BufferSize
  <2>1. success' /\ buffer' = buffer /\ runner_pc' = "adding"
    <3>1. buffer # <<>>
      BY <1>4, <1>7
    <3> QED
      BY <1>7, <3>1 DEF ReadOnce
  <2>2. line % BufferSize = 0
    <3>1. b \in 0..BufferSize
      BY <1>3, <1>7
    <3> QED
      BY <1>5, <1>6, <1>7, <3>1, Remainders
  <2>3. Sent \o buffer = U \o Chunk(files, file, 0, line)
    <3>1. (U \o Chunk(files, file, 0, from)) \o Chunk(files, file, from, b)
            = U \o Chunk(files, file, 0, from + b)
      <4> HIDE DEF b, U
      <4> QED
        BY <1>3, <1>5, <1>6, <1>Rejoin, Zenon
    <3> HIDE DEF b, U
    <3> QED
      BY <1>5, <1>6, <3>1, Zenon
  <2>4. AddingInv'
    BY <1>1, <1>2, <1>5, <2>1, <2>2, <2>3 DEF AddingInv, LineInv
  <2> QED
    BY <1>1, <1>3, <2>1, <2>4 DEF FlowInv
<1>8. CASE b < BufferSize
  <2>1. /\ \/ line = n /\ ~files[file].newline
           \/ line = n + 1 /\ files[file].newline
    BY <1>1, <1>3, <1>5, <1>8 DEF KeepsReading, Good, LineInv, FlowInv
  <2>2. /\ b = 0 => Delivered(files[file], file)
                      = Chunk(files, file, 0, from + b)
        /\ b # 0 => Delivered(files[file], file)
                      = Chunk(files, file, 0, from + (b - 1))
    <3> HIDE DEF b
    <3> QED
      BY <1>3, <1>5, <1>6, <1>8, <2>1, FileEnds
  <2>3. CASE b = 0
    <3>1. buffer = <<>> /\ Chunk(files, file, from, 0) = <<>>
      BY <1>3, <2>3, EmptyChunk
    <3>2. ~success' /\ runner_pc' = "adding past buffer"
      BY <1>4, <2>3, <3>1 DEF ReadOnce
    <3>3. from + b = from
      BY <1>5, <2>3
    <3>4. Sent = Until(files, file)
      BY <1>5, <1>6, <2>2, <2>3, <3>3
    <3> QED
      BY <1>1, <1>2, <1>3, <3>2, <3>4 DEF FlowInv
  <2>4. CASE b # 0
    <3>1. buffer # <<>>
      BY <2>4
    <3>2. ~success' /\ runner_pc' = "adding" /\ buffer' = Front(buffer)
      <4>1. ~(Len(buffer) = BufferSize)
        BY <1>3, <1>4, <1>8
      <4> QED
        BY <3>1, <4>1, Zenon DEF ReadOnce, WithoutLast
    <3> HIDE DEF b, U
    <3>3. b \in Nat \ {0} /\ b - 1 \in Nat
      BY <1>3, <2>4
    <3>4. buffer' = Chunk(files, file, from, b - 1)
      <4>1. /\ files \in Seq(File) /\ file \in 1..Len(files) /\ from \in Nat
            /\ buffer = Chunk(files, file, from, b)
        BY <1>3, <1>5, Zenon
      <4> HIDE DEF from, n
      <4>2. Front(Chunk(files, file, from, b)) = Chunk(files, file, from, b - 1)
        BY <3>3, <4>1, ShorterChunk
      <4> QED
        BY <3>2, <4>1, <4>2, Zenon
    <3>5. Sent \o buffer' = U \o Chunk(files, file, 0, from + (b - 1))
      <4>1. (U \o Chunk(files, file, 0, from)) \o Chunk(files, file, from, b - 1)
              = U \o Chunk(files, file, 0, from + (b - 1))
        BY <1>5, <1>6, <1>Rejoin, <3>3, Zenon
      <4> QED
        BY <1>5, <3>4, <4>1, Zenon
    <3>6. Sent \o buffer' = Until(files, file)
      BY <1>6, <2>2, <2>4, <3>5
    <3>7. AddingInv'
      BY <1>1, <1>2, <3>2, <3>6 DEF AddingInv
    <3> QED
      BY <1>1, <1>3, <3>2, <3>7 DEF FlowInv
  <2> QED
    BY <2>3, <2>4
<1> QED
  BY <1>3, <1>4, <1>5, <1>7, <1>8

\* Points that go from the buffer to the queue stay in their order
LEMMA AddDataPointsFlows ==
  ASSUME TypesInv, Streaming, FlowInv, AddDataPoints
  PROVE  FlowInv'
<1> DEFINE n    == Lesser(Len(buffer), Capacity - Len(data_queue))
           part == SubSeq(buffer, 1, n)
           rest == SubSeq(buffer, n + 1, Len(buffer))
           out  == dataset \o popped
<1>1. /\ runner_pc = "adding" /\ runner_pc' = "adding"
      /\ data_queue' = data_queue \o part /\ buffer' = rest
      /\ UNCHANGED <<files, file, line, success, continue_reading,
                     stream_ended, dataset, popped>>
      /\ main_pc' = "starting" <=> main_pc = "starting"
  BY DEF AddDataPoints, Notify
<1>2. n \in 0..Len(buffer)
  BY Sequences, LesserIs, BluedAssumption DEF AddDataPoints
<1>3. /\ part \in Seq(Point) /\ rest \in Seq(Point) /\ part \o rest = buffer
      /\ out \in Seq(Point) /\ data_queue \in Seq(Point)
  BY <1>2, Sequences, Taken, SentType
<1> HIDE DEF part, rest
<1>4. Sent = out \o data_queue /\ Sent' = out \o (data_queue \o part)
  BY <1>1 DEF Sent
<1> HIDE DEF out
<1>5. /\ (out \o (data_queue \o part)) \o rest
           = out \o ((data_queue \o part) \o rest)
      /\ (data_queue \o part) \o rest = data_queue \o (part \o rest)
      /\ (out \o data_queue) \o buffer = out \o (data_queue \o buffer)
  <2>1. data_queue \o part \in Seq(Point) /\ buffer \in Seq(Point)
    BY <1>3, Sequences, ConcatProperties
  <2>2. (out \o (data_queue \o part)) \o rest
          = out \o ((data_queue \o part) \o rest)
    BY <1>3, <2>1, Associative, Zenon
  <2>3. (data_queue \o part) \o rest = data_queue \o (part \o rest)
    BY <1>3, Associative, Zenon
  <2>4. (out \o data_queue) \o buffer = out \o (data_queue \o buffer)
    BY <1>3, <2>1, Associative, Zenon
  <2> QED
    BY <2>2, <2>3, <2>4
<1>6. Sent' \o buffer' = Sent \o buffer
  BY <1>1, <1>3, <1>4, <1>5, Zenon
<1>7. AddingInv
  BY <1>1 DEF FlowInv
<1>8. AddingInv'
  BY <1>1, <1>6, <1>7, Zenon DEF AddingInv, LineInv
<1> QED
  BY <1>1, <1>8 DEF FlowInv

\* After addDataPoints the reading goes on behind what was handed over
LEMMA AddReturnsFlows ==
  ASSUME TypesInv, Streaming, FlowInv, AddReturns
  PROVE  FlowInv'
<1>1. /\ runner_pc = "adding" /\ buffer = <<>> /\ buffer' = <<>>
      /\ runner_pc' = IF success THEN "reading"
                      ELSE IF whole_location THEN "locating" ELSE "ending"
      /\ UNCHANGED <<files, file, line, whole_location, success, continue_reading,
                     stream_ended, main_pc>>
  BY DEF AddReturns, FlowInv, mainVars, queueVars
<1>2. Sent' = Sent
  BY DEF AddReturns, Sent, mainVars, queueVars
<1>3. AddingInv /\ file \in 1..Len(files)
  BY <1>1 DEF FlowInv
<1>4. Sent \o buffer = Sent
  BY <1>1, SentType, ConcatEmptySeq
<1>5. CASE success
  <2>1. /\ LineInv /\ line \in Nat /\ line % BufferSize = 0
        /\ Sent = Until(files, file - 1) \o Chunk(files, file, 0, line)
    BY <1>3, <1>4, <1>5, Sizes DEF AddingInv
  <2>2. Len(buffer') = 0 /\ line' - Len(buffer') = line /\ 0 <= BufferSize
    <3>1. BufferSize \in Nat
      BY BluedAssumption
    <3>2. Len(buffer') = 0
      BY <1>1
    <3> QED
      BY <1>1, <2>1, <3>1, <3>2
  <2>3. buffer' = Chunk(files, file, line, 0)
    BY <1>1, EmptyChunk
  <2>4. ReadingInv'
    BY <1>1, <1>2, <2>1, <2>2, <2>3 DEF ReadingInv, LineInv
  <2> QED
    BY <1>1, <1>3, <1>5, <2>4 DEF FlowInv
<1>6. CASE ~success
  <2>1. Sent' = Until(files, file)
    BY <1>2, <1>3, <1>4, <1>6 DEF AddingInv
  <2>2. CASE whole_location
    BY <1>1, <1>3, <1>6, <2>1, <2>2 DEF FlowInv
  <2>3. CASE ~whole_location
    <3>1. Len(files) = file
      <4>1. Len(files) = 1
        BY <1>1, <2>3 DEF TypesInv
      <4> QED
        BY <1>3, <4>1
    <3> QED
      BY <1>1, <1>3, <1>6, <2>1, <2>3, <3>1 DEF FlowInv
  <2> QED
    BY <2>2, <2>3
<1> QED
  BY <1>5, <1>6

\* Nothing moves
LEMMA NothingFlows ==
  ASSUME FlowInv,
         UNCHANGED <<files, runnerVars, continue_reading, queueVars, mainVars>>
  PROVE  FlowInv'
<1>1. Sent' = Sent
  BY DEF Sent, queueVars, mainVars
<1>2. /\ (ReadingInv => ReadingInv') /\ (AddingInv => AddingInv')
  BY <1>1 DEF ReadingInv, AddingInv, LineInv, runnerVars
<1> QED
  BY <1>1, <1>2 DEF FlowInv, runnerVars, queueVars, mainVars

\* Every step of the reading thread keeps the flow
LEMMA RunnerFlows ==
  ASSUME TypesInv, Streaming, FlowInv, Runner
  PROVE  FlowInv'
<1>1. CASE RestartStreaming
  <2>1. Sent' = Sent /\ Sent = <<>>
    BY <1>1 DEF RestartStreaming, FlowInv, Sent, mainVars
  <2>2. /\ main_pc # "starting" /\ continue_reading
        /\ UNCHANGED <<files, continue_reading, main_pc>> /\ stream_ended' = FALSE
    BY <1>1 DEF RestartStreaming, FlowInv, mainVars
  <2>3. CASE whole_location
    <3>1. runner_pc' = "locating" /\ file' = 0 /\ whole_location'
      BY <1>1, <2>3 DEF RestartStreaming
    <3> QED
      BY <2>1, <2>2, <3>1, UntilNothing DEF FlowInv
  <2>4. CASE ~whole_location
    <3>1. runner_pc' = "opening" /\ file' = 1 /\ Len(files) = 1
      BY <1>1, <2>4 DEF RestartStreaming, TypesInv
    <3>2. file' - 1 = 0 /\ file' \in 1..Len(files')
      BY <2>2, <3>1
    <3> QED
      BY <2>1, <2>2, <3>1, <3>2, UntilNothing DEF FlowInv
  <2> QED
    BY <2>3, <2>4
<1>2. CASE RestartsNothing \/ MatchLineThrows \/ AddsPastBuffer
  <2>1. UNCHANGED <<files, runnerVars, continue_reading, queueVars, mainVars>>
    BY <1>2 DEF RestartsNothing, MatchLineThrows, AddsPastBuffer
  <2> QED
    BY <2>1, NothingFlows
<1>3. CASE NextLocation
  <2>1. /\ Sent' = Sent /\ Sent = Until(files, file) /\ continue_reading
        /\ file \in 0..Len(files) /\ Len(files) \in Nat
        /\ UNCHANGED <<files, whole_location, continue_reading, stream_ended, main_pc>>
    BY <1>3, Sizes DEF NextLocation, FlowInv, Sent, mainVars, queueVars
  <2>2. CASE file < Len(files)
    <3>1. runner_pc' = "opening" /\ file' = file + 1
      BY <1>3, <2>1, <2>2 DEF NextLocation
    <3>2. file' - 1 = file /\ file' \in 1..Len(files)
      BY <2>1, <2>2, <3>1
    <3> QED
      BY <1>3, <2>1, <3>1, <3>2 DEF FlowInv, NextLocation
  <2>3. CASE ~(file < Len(files))
    <3>1. runner_pc' = "ending" /\ file' = file
      BY <1>3, <2>3 DEF NextLocation
    <3>2. file = Len(files)
      BY <2>1, <2>3
    <3> QED
      BY <1>3, <2>1, <3>1, <3>2 DEF FlowInv, NextLocation
  <2> QED
    BY <2>2, <2>3
<1>4. CASE NotifyStreamEnd
  BY <1>4 DEF NotifyStreamEnd, FlowInv, Sent, mainVars
<1>5. CASE NotifyReader
  <2>1. /\ runner_pc = "notifying" /\ runner_pc' = "returned"
        /\ UNCHANGED <<files, continue_reading, stream_ended>>
        /\ main_pc' = "starting" <=> main_pc = "starting"
        /\ Sent' = Sent
    BY <1>5 DEF NotifyReader, Notify, Sent, queueVars
  <2> QED
    BY <2>1 DEF FlowInv
<1> QED
  BY <1>1, <1>2, <1>3, <1>4, <1>5, FileBegins, MatchLineFlows, ReadOnceFlows,
     AddDataPointsFlows, AddReturnsFlows DEF Runner

-----------------------------------------------------------------------------
(* The steps of the main thread.                                           *)

\* Points that are taken and written stay in their order
LEMMA TakenInOrder ==
  ASSUME TypesInv, PopDataPoints \/ (WriteData /\ ~Catch)
  PROVE  Sent' = Sent
<1>1. CASE PopDataPoints
  <2> DEFINE n    == elements_pulled
             part == SubSeq(data_queue, 1, n)
             rest == SubSeq(data_queue, n + 1, Len(data_queue))
  <2>1. /\ popped' = popped \o part /\ data_queue' = rest /\ dataset' = dataset
    BY <1>1 DEF PopDataPoints
  <2>2. n \in 0..Len(data_queue)
    BY Sequences, LesserIs DEF elements_pulled
  <2>3. /\ part \in Seq(Point) /\ rest \in Seq(Point) /\ part \o rest = data_queue
        /\ dataset \in Seq(Point) /\ popped \in Seq(Point)
    BY <2>2, Sequences, Taken
  <2> HIDE DEF part, rest
  <2>4. /\ (dataset \o (popped \o part)) \o rest
             = dataset \o ((popped \o part) \o rest)
        /\ (popped \o part) \o rest = popped \o (part \o rest)
        /\ (dataset \o popped) \o data_queue = dataset \o (popped \o data_queue)
    <3>1. popped \o part \in Seq(Point) /\ data_queue \in Seq(Point)
      BY <2>3, Sequences, ConcatProperties
    <3>2. (dataset \o (popped \o part)) \o rest
            = dataset \o ((popped \o part) \o rest)
      BY <2>3, <3>1, Associative, Zenon
    <3>3. (popped \o part) \o rest = popped \o (part \o rest)
      BY <2>3, Associative, Zenon
    <3>4. (dataset \o popped) \o data_queue = dataset \o (popped \o data_queue)
      BY <2>3, <3>1, Associative, Zenon
    <3> QED
      BY <3>2, <3>3, <3>4
  <2> QED
    BY <2>1, <2>3, <2>4, Zenon DEF Sent
<1>2. CASE WriteData /\ ~Catch
  <2>1. /\ dataset' = dataset \o popped /\ popped' = <<>> /\ data_queue' = data_queue
    BY <1>2 DEF WriteData, queueVars
  <2>2. dataset' \o popped' = dataset \o popped
    BY <2>1, SentType, ConcatEmptySeq
  <2> QED
    BY <2>1, <2>2, Zenon DEF Sent
<1> QED
  BY <1>1, <1>2

\* As long as the main thread takes points
LEMMA MainFlows ==
  ASSUME TypesInv, Streaming, FlowInv, Main \/ StopNow \/ SpuriousWakeup,
         Streaming'
  PROVE  FlowInv'
<1>1. CASE StartReading \/ ReadWholeLocation
  <2>1. /\ runner_pc' = "restarting" /\ main_pc' = "creating" /\ continue_reading'
        /\ main_pc = "starting" /\ UNCHANGED <<data_queue, dataset, popped, stream_ended>>
    BY <1>1 DEF StartReading, ReadWholeLocation, Starts
  <2>2. Sent' = Sent /\ Sent = <<>> /\ ~stream_ended
    BY <2>1 DEF Sent, FlowInv
  <2> QED
    BY <2>1, <2>2 DEF FlowInv
<1> DEFINE Keeps == UNCHANGED <<files, runnerVars, continue_reading, stream_ended>>
<1>2. ASSUME Keeps, Sent' = Sent, main_pc # "starting", main_pc' # "starting"
      PROVE  FlowInv'
  BY <1>2 DEF FlowInv, ReadingInv, AddingInv, LineInv, runnerVars
<1>3. CASE CreateNewDataSpace
  <2>1. Keeps /\ Sent' = Sent /\ main_pc # "starting" /\ main_pc' # "starting"
    BY <1>3 DEF CreateNewDataSpace, Catch, Streaming, Popping, Sent, queueVars
  <2> QED
    BY <1>2, <2>1
<1>4. CASE PopsNothing
  <2>1. Keeps /\ Sent' = Sent /\ main_pc # "starting" /\ main_pc' # "starting"
    BY <1>4 DEF PopsNothing, Sent, queueVars, mainVars
  <2> QED
    BY <1>2, <2>1
<1>5. CASE PopDataPoints \/ (WriteData /\ ~Catch)
  <2>1. Keeps /\ main_pc # "starting" /\ main_pc' # "starting"
    BY <1>5 DEF PopDataPoints, WriteData, queueVars
  <2> QED
    BY <1>2, <1>5, <2>1, TakenInOrder
<1>6. CASE WriteData /\ Catch
  BY <1>6 DEF Catch, Streaming, Popping
<1>7. CASE \/ WriteDataReturns \/ StopGracefully \/ DiscardRestOfStream
           \/ Join \/ StopNow
  BY <1>7 DEF WriteDataReturns, StopGracefully, DiscardRestOfStream, Join,
              StopNow, Streaming, Popping
<1>8. CASE FindsNothing \/ Waits \/ TestsEnd \/ SpuriousWakeup
  <2>1. Keeps /\ Sent' = Sent /\ main_pc # "starting" /\ main_pc' # "starting"
    BY <1>8 DEF FindsNothing, Waits, TestsEnd, SpuriousWakeup, Sent, queueVars
  <2> QED
    BY <1>2, <2>1
<1> QED
  BY <1>1, <1>3, <1>4, <1>5, <1>6, <1>7, <1>8 DEF Main

-----------------------------------------------------------------------------
(* The invariant.                                                          *)

\* Whatever has come first of what was sent
LEMMA SafePrefix ==
  ASSUME TypesInv, FlowInv, NEW s \in Seq(Point), NEW t \in Seq(Point),
         Sent = s \o t
  PROVE  IsPrefix(s, Conversion)
<1>1. PICK u \in Seq(Point) : Conversion = Sent \o u
  BY SentIsPrefix
<1>2. (s \o t) \o u = s \o (t \o u)
  BY Associative, Zenon
<1>3. t \o u \in Seq(Point)
  BY ConcatProperties
<1>4. IsPrefix(s, s \o (t \o u))
  BY <1>3, PrefixIs
<1> QED
  BY <1>1, <1>2, <1>4, Zenon

\* The invariant holds initially
LEMMA ConverterInvInit ==
  ASSUME Init
  PROVE  ConverterInv
<1>1. files \in Seq(File)
  BY BluedAssumption DEF Init
<1>2. TypesInv
  <2>1. /\ Len(files) \in Nat /\ <<>> \in Seq(Point)
        /\ popped = <<>> => Len(popped) <= WriteSize
    BY <1>1, LenProperties, EmptySeq, BluedAssumption
  <2>2. file \in 0..Len(files)
    BY <2>1 DEF Init
  <2> QED
    BY <1>1, <2>1, <2>2 DEF Init, TypesInv
<1>3. Sent = <<>>
  BY DEF Init, Sent
<1>4. FlowInv
  BY <1>3 DEF Init, FlowInv
<1>5. StreamIsFiles
  <2>1. /\ dataset \o popped \in Seq(Point) /\ <<>> \in Seq(Point)
        /\ Sent = (dataset \o popped) \o <<>>
    BY <1>2, SentType, EmptySeq DEF Init, Sent
  <2> QED
    BY <1>2, <1>4, <2>1, SafePrefix DEF StreamIsFiles
<1>6. ConversionIsComplete /\ DrainedInv
  BY DEF Init, ConversionIsComplete, DrainedInv
<1> QED
  BY <1>2, <1>4, <1>5, <1>6 DEF ConverterInv

\* The data set grows by what was sent
LEMMA StreamStep ==
  ASSUME ConverterInv, Next
  PROVE  StreamIsFiles'
<1>1. TypesInv /\ StreamIsFiles
  BY DEF ConverterInv
<1>2. ASSUME UNCHANGED <<files, dataset, popped>>
      PROVE  StreamIsFiles'
  BY <1>1, <1>2 DEF StreamIsFiles, Conversion
<1>3. CASE Runner
  <2>1. UNCHANGED <<files, dataset, popped>>
    BY <1>3 DEF Runner, RestartStreaming, RestartsNothing, NextLocation, SkipToData,
                MatchLine, MatchLineThrows, ReadOnce, AddDataPoints, AddsPastBuffer,
                AddReturns, NotifyStreamEnd, NotifyReader, mainVars
  <2> QED
    BY <1>2, <2>1
<1>4. CASE PopDataPoints \/ (WriteData /\ ~Catch)
  <2>1. Streaming /\ FlowInv
    BY <1>4 DEF ConverterInv, Streaming, Popping, PopDataPoints, WriteData
  <2>2. TypesInv'
    BY <1>1, <1>4, MainTypes DEF Main
  <2>3. /\ dataset' \in Seq(Point) /\ popped' \in Seq(Point)
        /\ data_queue' \in Seq(Point)
    BY <2>2 DEF TypesInv
  <2>4. dataset' \o popped' \in Seq(Point)
    BY <2>3, ConcatProperties
  <2>5. Sent = (dataset' \o popped') \o data_queue'
    BY <1>1, <1>4, TakenInOrder DEF Sent
  <2>6. IsPrefix(dataset' \o popped', Conversion)
    BY <1>1, <2>1, <2>3, <2>4, <2>5, SafePrefix
  <2>7. Conversion' = Conversion
    BY <1>4 DEF PopDataPoints, WriteData, Conversion
  <2> QED
    BY <2>6, <2>7 DEF StreamIsFiles
<1>5. CASE WriteData /\ Catch
  BY <1>2, <1>5 DEF Catch
<1>6. CASE StartReading \/ ReadWholeLocation \/ CreateNewDataSpace \/ PopsNothing
  BY <1>2, <1>6 DEF StartReading, ReadWholeLocation, Starts, CreateNewDataSpace, Catch,
                    PopsNothing, mainVars
<1>7. CASE \/ WriteDataReturns \/ StopGracefully \/ DiscardRestOfStream \/ Join
           \/ StopNow
  BY <1>2, <1>7 DEF WriteDataReturns, StopGracefully, DiscardRestOfStream,
                    Join, StopNow
<1>8. CASE FindsNothing \/ Waits \/ TestsEnd \/ SpuriousWakeup
  BY <1>2, <1>8 DEF FindsNothing, Waits, TestsEnd, SpuriousWakeup
<1> QED
  BY <1>3, <1>4, <1>5, <1>6, <1>7, <1>8 DEF Next, Main

\* writeData returns when nothing comes any more
LEMMA CompleteStep ==
  ASSUME ConverterInv, Next
  PROVE  ConversionIsComplete'
<1>1. TypesInv /\ ConversionIsComplete
  BY DEF ConverterInv
<1>2. CASE WriteDataReturns
  <2>1. /\ main_pc = "popped" /\ popped = <<>>
        /\ UNCHANGED <<files, dataset>>
    BY <1>2 DEF WriteDataReturns
  <2>2. FlowInv
    BY <2>1 DEF ConverterInv, Streaming
  <2>4. stream_ended /\ data_queue = <<>>
    BY <2>1 DEF ConverterInv, DrainedInv
  <2>5. Sent = Until(files, Len(files))
    BY <2>2, <2>4 DEF FlowInv
  <2>6. Sent = dataset
    <3>1. dataset \o <<>> = dataset
      BY <1>1, Sequences, ConcatEmptySeq
    <3> QED
      BY <2>1, <2>4, <3>1, Zenon DEF Sent
  <2>7. dataset' = Conversion'
    BY <1>1, <2>1, <2>5, <2>6, ConversionIs DEF Conversion
  <2> QED
    BY <2>7 DEF ConversionIsComplete
<1>3. CASE Runner
  <2>1. /\ UNCHANGED <<files, dataset, failed>>
        /\ main_pc' = "stopping" => main_pc = "stopping"
    BY <1>3 DEF Runner, RestartStreaming, RestartsNothing, NextLocation, SkipToData,
                MatchLine, MatchLineThrows, ReadOnce, AddDataPoints, AddsPastBuffer,
                AddReturns, NotifyStreamEnd, NotifyReader, Notify, mainVars
  <2> QED
    BY <1>1, <2>1 DEF ConversionIsComplete, Conversion
<1>4. CASE StartReading \/ ReadWholeLocation \/ CreateNewDataSpace \/ PopsNothing
  BY <1>4 DEF StartReading, ReadWholeLocation, Starts, CreateNewDataSpace, Catch,
              PopsNothing, mainVars, ConversionIsComplete
<1>5. CASE PopDataPoints \/ WriteData
  BY <1>5 DEF PopDataPoints, WriteData, Catch, ConversionIsComplete
<1>6. CASE StopGracefully \/ DiscardRestOfStream \/ Join \/ StopNow
  BY <1>6 DEF StopGracefully, DiscardRestOfStream, Join, StopNow,
              ConversionIsComplete
<1>7. CASE FindsNothing \/ Waits \/ TestsEnd \/ SpuriousWakeup
  BY <1>7 DEF FindsNothing, Waits, TestsEnd, SpuriousWakeup,
              ConversionIsComplete
<1> QED
  BY <1>2, <1>3, <1>4, <1>5, <1>6, <1>7 DEF Next, Main

\* popDataPoints returns nothing only when there is nothing, and never will be
LEMMA DrainedStep ==
  ASSUME ConverterInv, Next
  PROVE  DrainedInv'
<1>1. TypesInv /\ DrainedInv
  BY DEF ConverterInv
<1>2. CASE Runner
  <2>1. SUFFICES ASSUME main_pc' \in {"testing", "popped"}, popped' = <<>>
                 PROVE  stream_ended' /\ data_queue' = <<>>
    BY DEF DrainedInv
  <2>2. main_pc' = main_pc /\ popped' = popped
    BY <1>2, <2>1 DEF Runner, RestartStreaming, RestartsNothing, NextLocation,
       SkipToData, MatchLine, MatchLineThrows, ReadOnce, AddDataPoints,
       AddsPastBuffer, AddReturns, NotifyStreamEnd, NotifyReader, Notify,
       mainVars
  <2>3. stream_ended /\ data_queue = <<>>
    BY <1>1, <2>1, <2>2 DEF DrainedInv
  <2>4. FlowInv
    BY <2>1, <2>2 DEF ConverterInv, Streaming, Popping
  <2>5. runner_pc \in {"notifying", "returned"}
    BY <2>3, <2>4 DEF FlowInv
  <2>6. UNCHANGED <<stream_ended, data_queue>>
    BY <1>2, <2>3, <2>5 DEF Runner, RestartStreaming, RestartsNothing,
       NextLocation, SkipToData, MatchLine, MatchLineThrows, ReadOnce,
       AddDataPoints, AddsPastBuffer, AddReturns, NotifyStreamEnd,
       NotifyReader, queueVars
  <2> QED
    BY <2>3, <2>6
<1>3. CASE PopDataPoints
  <2>1. SUFFICES ASSUME popped' = <<>>
                 PROVE  stream_ended' /\ data_queue' = <<>>
    BY DEF DrainedInv
  <2> DEFINE part == SubSeq(data_queue, 1, elements_pulled)
  <2>2. elements_pulled \in 0..Len(data_queue)
    BY <1>1, Sequences, LesserIs DEF elements_pulled
  <2>3. part \in Seq(Point) /\ Len(part) = elements_pulled
    BY <1>1, <2>2, Sequences, Taken, TakenLength
  <2>4. popped \o part = <<>> /\ popped \in Seq(Point)
    BY <1>1, <1>3, <2>1, Sequences DEF PopDataPoints
  <2> HIDE DEF part
  <2>5. Len(popped) = 0 /\ Len(part) = 0
    <3>1. Len(popped \o part) = Len(popped) + Len(part)
      BY <2>3, <2>4, ConcatProperties
    <3>2. Len(popped) \in Nat /\ Len(part) \in Nat
      BY <2>3, <2>4, LenProperties
    <3> QED
      BY <2>4, <3>1, <3>2
  <2>6. Len(data_queue) = 0
    <3>1. Lesser(WriteSize - 0, Len(data_queue)) = 0
      BY <2>3, <2>5 DEF elements_pulled
    <3> QED
      BY <1>1, <3>1, Sequences, BluedAssumption DEF Lesser
  <2>7. data_queue = <<>>
    BY <1>1, <2>6, Sequences, EmptySeq
  <2> QED
    BY <1>3, <2>2, <2>6, <2>7 DEF PopDataPoints, HasPoints
<1>4. CASE TestsEnd
  BY <1>1, <1>4 DEF TestsEnd, DrainedInv, queueVars
<1>5. CASE \/ FindsNothing \/ Waits \/ SpuriousWakeup \/ WriteData
           \/ WriteDataReturns \/ StopGracefully \/ DiscardRestOfStream
           \/ Join \/ StopNow \/ StartReading \/ ReadWholeLocation
           \/ CreateNewDataSpace
  BY <1>5 DEF FindsNothing, Waits, SpuriousWakeup, WriteData, Catch,
     WriteDataReturns, StopGracefully, DiscardRestOfStream, Join, StopNow,
     StartReading, ReadWholeLocation, Starts, CreateNewDataSpace, DrainedInv
<1>6. CASE PopsNothing
  BY <1>1, <1>6 DEF PopsNothing, DrainedInv, mainVars, queueVars
<1> QED
  BY <1>2, <1>3, <1>4, <1>5, <1>6 DEF Next, Main

\* The invariant holds in all states
LEMMA ConverterInvHolds == Spec => []ConverterInv
<1>1. ASSUME ConverterInv, [Next]_vars
      PROVE  ConverterInv'
  <2>1. CASE UNCHANGED vars
    <3>1. UNCHANGED <<files, runnerVars, continue_reading, queueVars, mainVars>>
      BY <2>1 DEF vars
    <3>2. TypesInv' /\ StreamIsFiles' /\ ConversionIsComplete' /\ DrainedInv'
      BY <1>1, <3>1
      DEF ConverterInv, TypesInv, StreamIsFiles, ConversionIsComplete,
          Conversion, DrainedInv, runnerVars, queueVars, mainVars
    <3>3. Streaming' => Streaming
      BY <3>1 DEF Streaming, Popping, mainVars
    <3> QED
      BY <1>1, <3>1, <3>2, <3>3, NothingFlows DEF ConverterInv
  <2>2. CASE Next
    <3>1. TypesInv'
      BY <1>1, <2>2, RunnerTypes, MainTypes DEF ConverterInv, Next
    <3>2. Streaming' => FlowInv'
      <4>1. CASE Runner
        <5>1. Streaming' => Streaming
          BY <4>1 DEF Runner, RestartStreaming, RestartsNothing, NextLocation,
                      SkipToData, MatchLine, MatchLineThrows, ReadOnce, AddDataPoints,
                      AddsPastBuffer, AddReturns, NotifyStreamEnd,
                      NotifyReader, Notify, mainVars, Streaming, Popping
        <5> QED
          BY <1>1, <4>1, <5>1, RunnerFlows DEF ConverterInv
      <4>2. CASE Main \/ StopNow \/ SpuriousWakeup
        <5>1. Streaming' => Streaming
          BY <4>2 DEF Main, StopNow, StartReading, ReadWholeLocation, Starts,
                      CreateNewDataSpace, PopsNothing, PopDataPoints, WriteData,
                      WriteDataReturns, StopGracefully, DiscardRestOfStream,
                      Join, FindsNothing, Waits, TestsEnd, SpuriousWakeup,
                      Streaming, Popping
        <5> QED
          BY <1>1, <4>2, <5>1, MainFlows DEF ConverterInv
      <4> QED
        BY <2>2, <4>1, <4>2 DEF Next
    <3> QED
      BY <1>1, <2>2, <3>1, <3>2, StreamStep, CompleteStep, DrainedStep
         DEF ConverterInv
  <2> QED
    BY <1>1, <2>1, <2>2
<1> QED
  BY <1>1, ConverterInvInit, PTL DEF Spec

(***************************************************************************)
(* For every location, and all sizes of chunks, queue and buffer: what     *)
(* popDataPoints has returned, and writeData has written, is a beginning   *)
(* of what readFile and readOnce make of the files one after the other.    *)
(***************************************************************************)
THEOREM FilesAreStreamed == Spec => []StreamIsFiles
<1>1. ConverterInv => StreamIsFiles
  BY DEF ConverterInv
<1> QED
  BY <1>1, ConverterInvHolds, PTL

(***************************************************************************)
(* ... and when writeData returns without an error, all of it is in the    *)
(* data set: no point is left in the queue or in a buffer behind           *)
(* notifyStreamEnd.                                                        *)
(***************************************************************************)
THEOREM FilesAreConverted == Spec => []ConversionIsComplete
<1>1. ConverterInv => ConversionIsComplete
  BY DEF ConverterInv
<1> QED
  BY <1>1, ConverterInvHolds, PTL
=============================================================================
