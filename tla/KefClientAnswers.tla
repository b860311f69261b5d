-------------------------- MODULE KefClientAnswers -------------------------
(***************************************************************************)
(* Theorems about what KefClient makes of a stream, for any number of      *)
(* operations, any streams, any way they are cut and any limits.  The      *)
(* bytes behind the pieces an operation has passed are what the parser     *)
(* keeps, so that each chunk yields the pieces it completes.               *)
(***************************************************************************)
EXTENDS KefClientProofs

-----------------------------------------------------------------------------
(* The bytes of a stream *)

\* f flattens the sequences up to the n-th one, as the recursion of FlattenSeq does.
Flattens(f, seqs, n) ==
    \A i \in 1..n : f[i] = IF i = 1 THEN seqs[i] ELSE f[i - 1] \o seqs[i]

\* Two functions that flatten the same sequences agree.
LEMMA FlattensAgree ==
    ASSUME NEW f, NEW g, NEW s, NEW t, NEW n \in Nat,
           \A i \in 1..n : s[i] = t[i], Flattens(f, s, n), Flattens(g, t, n)
    PROVE  \A i \in 1..n : f[i] = g[i]
<1> DEFINE T == {k \in Nat : k \in 1..n => f[k] = g[k]}
<1>1. ASSUME NEW k \in Nat, \A m \in Nat : m < k => m \in T PROVE k \in T
  <2> SUFFICES ASSUME k \in 1..n PROVE f[k] = g[k]
    OBVIOUS
  <2>1. CASE k = 1
    BY <2>1 DEF Flattens
  <2>2. CASE k # 1
    <3>1. k - 1 \in Nat /\ k - 1 < k /\ k - 1 \in 1..n
      BY <2>2
    <3>2. f[k - 1] = g[k - 1]
      BY <1>1, <3>1
    <3> QED
      BY <2>2, <3>2 DEF Flattens
  <2> QED
    BY <2>1, <2>2
<1>2. \A k \in Nat : k \in T
  <2> HIDE DEF T
  <2> QED
    BY <1>1, Induction
<1> QED
  BY <1>2

\* There is a function that flattens any sequences.
LEMMA FlattenerExists ==
    ASSUME NEW seqs, NEW n \in Nat
    PROVE  \E f : Flattens(f, seqs, n)
<1> DEFINE T == {k \in Nat : \E f : Flattens(f, seqs, k)}
<1>1. ASSUME NEW k \in Nat, \A m \in Nat : m < k => m \in T PROVE k \in T
  <2>1. PICK f : k > 0 => Flattens(f, seqs, k - 1)
    BY <1>1
  <2> DEFINE g == [i \in 1..k |-> IF i < k THEN f[i]
                                  ELSE IF k = 1 THEN seqs[k] ELSE f[k - 1] \o seqs[k]]
  <2>2. Flattens(g, seqs, k)
    <3> SUFFICES ASSUME NEW i \in 1..k
                 PROVE  g[i] = IF i = 1 THEN seqs[i] ELSE g[i - 1] \o seqs[i]
      BY DEF Flattens
    <3>1. CASE i = k
      BY <3>1
    <3>2. CASE i < k
      <4>1. i \in 1..(k - 1) /\ k > 0
        BY <3>2
      <4>2. f[i] = IF i = 1 THEN seqs[i] ELSE f[i - 1] \o seqs[i]
        BY <2>1, <4>1 DEF Flattens
      <4> QED
        BY <3>2, <4>2
    <3> QED
      BY <3>1, <3>2
  <2> QED
    BY <2>2
<1>2. \A k \in Nat : k \in T
  <2> HIDE DEF T
  <2> QED
    BY <1>1, Induction
<1> QED
  BY <1>2

\* FlattenSeq obeys the recursion it is defined by.
LEMMA FlattenUnfolds ==
    ASSUME NEW S, NEW seqs \in Seq(S), seqs # <<>>
    PROVE  \E f : Flattens(f, seqs, Len(seqs)) /\ FlattenSeq(seqs) = f[Len(seqs)]
<1> DEFINE n == Len(seqs)
           Folded(f) == [i \in 1..n |-> IF i = 1 THEN seqs[i] ELSE f[i - 1] \o seqs[i]]
           whole == CHOOSE f : f = Folded(f)
<1>1. n \in Nat /\ n # 0
  OBVIOUS
<1>2. FlattenSeq(seqs) = whole[n]
  BY <1>1 DEF FlattenSeq
<1>3. PICK f : Flattens(f, seqs, n)
  <2> HIDE DEF n
  <2> QED
    BY <1>1, FlattenerExists
<1> DEFINE g == [i \in 1..n |-> f[i]]
<1>4. g = Folded(g)
  <2>1. ASSUME NEW i \in 1..n PROVE g[i] = Folded(g)[i]
    BY <1>3 DEF Flattens
  <2> QED
    BY <2>1
<1>5. whole = Folded(whole)
  <2> HIDE DEF Folded, g
  <2> QED
    BY <1>4
<1>6. Flattens(whole, seqs, n)
  <2> HIDE DEF whole
  <2> QED
    BY <1>5 DEF Flattens
<1> QED
  BY <1>2, <1>6

\* Flattening one sequence more puts it at the end.
LEMMA FlattenOneMore ==
    ASSUME NEW S, NEW s, NEW n \in Nat, \A i \in 1..(n + 1) : s[i] \in Seq(S)
    PROVE  /\ FlattenSeq([i \in 1..0 |-> s[i]]) = <<>>
           /\ FlattenSeq([i \in 1..(n + 1) |-> s[i]])
              = FlattenSeq([i \in 1..n |-> s[i]]) \o s[n + 1]
<1> DEFINE Part(m) == [i \in 1..m |-> s[i]]
<1>1. \A m \in 0..(n + 1) :
          Part(m) \in Seq(Seq(S)) /\ Len(Part(m)) = m /\ \A i \in 1..m : Part(m)[i] = s[i]
  OBVIOUS
<1>0. Part(0) = <<>>
  OBVIOUS
<1> HIDE DEF Part
<1>2. FlattenSeq(Part(0)) = <<>>
  BY <1>0 DEF FlattenSeq
<1>3. PICK f : Flattens(f, Part(n + 1), n + 1) /\ FlattenSeq(Part(n + 1)) = f[n + 1]
  <2>1. Part(n + 1) # <<>> /\ Part(n + 1) \in Seq(Seq(S)) /\ Len(Part(n + 1)) = n + 1
    BY <1>1
  <2> QED
    BY <2>1, FlattenUnfolds
<1>4. CASE n = 0
  <2>1. f[1] = s[1]
    BY <1>1, <1>3, <1>4 DEF Flattens
  <2>2. <<>> \o s[1] = s[1]
    BY <1>4
  <2> QED
    BY <1>2, <1>3, <1>4, <2>1, <2>2 DEF Part
<1>5. CASE n # 0
  <2>1. PICK g : Flattens(g, Part(n), n) /\ FlattenSeq(Part(n)) = g[n]
    <3>1. Part(n) # <<>> /\ Part(n) \in Seq(Seq(S)) /\ Len(Part(n)) = n
      BY <1>1, <1>5
    <3> QED
      BY <3>1, FlattenUnfolds
  <2>2. f[n + 1] = f[n] \o s[n + 1]
    <3>1. n + 1 \in 1..(n + 1) /\ n + 1 # 1 /\ (n + 1) - 1 = n
      BY <1>5
    <3>2. Part(n + 1)[n + 1] = s[n + 1]
      BY <1>1
    <3> QED
      BY <1>3, <3>1, <3>2 DEF Flattens
  <2>3. Flattens(f, Part(n + 1), n)
    BY <1>3 DEF Flattens
  <2>4. ASSUME NEW i \in 1..n PROVE Part(n + 1)[i] = Part(n)[i]
    <3>1. n \in 0..(n + 1) /\ n + 1 \in 0..(n + 1) /\ i \in 1..(n + 1)
      OBVIOUS
    <3> QED
      BY <1>1, <3>1
  <2>5. f[n] = g[n]
    BY <1>5, <2>1, <2>3, <2>4, FlattensAgree
  <2> QED
    BY <1>2, <1>3, <2>1, <2>2, <2>5 DEF Part
<1> QED
  BY <1>4, <1>5

\* The bytes of the first n pieces, all of them, and how many they are.
UpTo(sent, n) == FlattenSeq([i \in 1..n |-> PieceBytes(sent[i])])
Flow(sent) == UpTo(sent, Len(sent))
Reach(sent, n) == Len(UpTo(sent, n))

\* A piece is a frame, or junk at the end of the stream that begins with none.
LEMMA PieceType ==
    ASSUME NEW sent, Described(sent), NEW i \in 1..Len(sent)
    PROVE  /\ sent[i].kind # "junk" => sent[i] \in Frame /\ PieceBytes(sent[i]) = FrameBytes(sent[i])
           /\ sent[i].kind = "junk" => /\ PieceBytes(sent[i]) = sent[i].bytes /\ i = Len(sent)
                                       /\ ~Whole(sent[i].bytes)
           /\ PieceBytes(sent[i]) \in Seq(Byte) /\ Len(PieceBytes(sent[i])) \in Nat \ {0}
           /\ sent \in Seq(Frame \cup Junk)
<1>1. sent \in Seq(Frame \cup Junk) /\ DOMAIN sent = 1..Len(sent)
  BY DEF Described, Frame
<1>2. sent[i] \in Frame \cup Junk
  BY <1>1
<1>3. CASE sent[i] \in Frame
  <2>1. sent[i].kind # "junk"
    BY <1>3 DEF Frame, GetFrame, SetStatusFrame
  <2>2. PieceBytes(sent[i]) = FrameBytes(sent[i])
    BY <2>1 DEF PieceBytes
  <2>3. FrameBytes(sent[i]) \in Seq(Byte) /\ Len(FrameBytes(sent[i])) \in Nat \ {0}
    BY <1>3, FrameBytesType
  <2> QED
    BY <1>1, <1>3, <2>1, <2>2, <2>3
<1>4. CASE sent[i] \in Junk
  <2>1. sent[i].kind = "junk" /\ sent[i].bytes \in Seq(Byte)
    BY <1>4 DEF Junk
  <2>2. /\ i = Len(sent) /\ sent[i].bytes # <<>>
        /\ Malformed(sent[i].bytes) \/ Incomplete(sent[i].bytes)
    BY <1>1, <2>1 DEF Described
  <2> QED
    BY <1>1, <2>1, <2>2 DEF PieceBytes, Whole
<1> QED
  BY <1>2, <1>3, <1>4

\* The bytes of one piece more.
LEMMA OnePieceMore ==
    ASSUME NEW sent, Described(sent)
    PROVE  /\ UpTo(sent, 0) = <<>>
           /\ \A n \in Nat : n < Len(sent) =>
                UpTo(sent, n + 1) = UpTo(sent, n) \o PieceBytes(sent[n + 1])
<1> DEFINE s == [i \in 1..Len(sent) |-> PieceBytes(sent[i])]
<1>1. Len(sent) \in Nat
  BY DEF Described
<1>2. \A i \in 1..Len(sent) : s[i] \in Seq(Byte)
  BY PieceType
<1>3. ASSUME NEW m \in 0..Len(sent) PROVE UpTo(sent, m) = FlattenSeq([i \in 1..m |-> s[i]])
  <2>1. [i \in 1..m |-> s[i]] = [i \in 1..m |-> PieceBytes(sent[i])]
    BY <1>1
  <2> QED
    BY <2>1 DEF UpTo
<1> HIDE DEF s
<1>4. UpTo(sent, 0) = <<>>
  <2>1. [i \in 1..0 |-> s[i]] = <<>>
    OBVIOUS
  <2>0. 0 \in 0..Len(sent)
    BY <1>1
  <2>2. UpTo(sent, 0) = FlattenSeq([i \in 1..0 |-> s[i]])
    BY <1>3, <2>0, Zenon
  <2> QED
    BY <2>1, <2>2 DEF FlattenSeq
<1>5. ASSUME NEW n \in Nat, n < Len(sent)
      PROVE  UpTo(sent, n + 1) = UpTo(sent, n) \o PieceBytes(sent[n + 1])
  <2>1. \A i \in 1..(n + 1) : s[i] \in Seq(Byte)
    BY <1>1, <1>2, <1>5
  <2>2. FlattenSeq([i \in 1..(n + 1) |-> s[i]]) = FlattenSeq([i \in 1..n |-> s[i]]) \o s[n + 1]
    BY <2>1, FlattenOneMore
  <2>3. s[n + 1] = PieceBytes(sent[n + 1])
    BY <1>1, <1>5 DEF s
  <2>4. n \in 0..Len(sent) /\ n + 1 \in 0..Len(sent)
    BY <1>1, <1>5
  <2> QED
    BY <1>3, <2>2, <2>3, <2>4
<1> QED
  BY <1>4, <1>5

\* The bytes of the pieces are bytes.
LEMMA UpToType ==
    ASSUME NEW sent, Described(sent)
    PROVE  \A n \in 0..Len(sent) : UpTo(sent, n) \in Seq(Byte)
<1> DEFINE T == {n \in Nat : n <= Len(sent) => UpTo(sent, n) \in Seq(Byte)}
<1>0. Len(sent) \in Nat
  BY DEF Described
<1>1. ASSUME NEW n \in Nat, \A m \in Nat : m < n => m \in T PROVE n \in T
  <2> SUFFICES ASSUME n <= Len(sent) PROVE UpTo(sent, n) \in Seq(Byte)
    OBVIOUS
  <2>1. CASE n = 0
    <3>1. UpTo(sent, 0) = <<>>
      BY OnePieceMore
    <3>2. <<>> \in Seq(Byte)
      BY EmptySeq
    <3> QED
      BY <2>1, <3>1, <3>2, Zenon
  <2>2. CASE n # 0
    <3>1. n - 1 \in Nat /\ n - 1 < n /\ n - 1 < Len(sent) /\ (n - 1) + 1 = n
      BY <1>0, <2>2
    <3>2. UpTo(sent, n - 1) \in Seq(Byte)
      BY <1>0, <1>1, <3>1
    <3>3. UpTo(sent, n) = UpTo(sent, n - 1) \o PieceBytes(sent[n])
      BY <3>1, OnePieceMore
    <3>4. PieceBytes(sent[n]) \in Seq(Byte)
      BY <1>0, <2>2, PieceType
    <3> QED
      BY <3>2, <3>3, <3>4, ConcatProperties
  <2> QED
    BY <2>1, <2>2
<1>2. \A n \in Nat : n \in T
  <2> HIDE DEF T
  <2> QED
    BY <1>1, Induction
<1> QED
  BY <1>0, <1>2

\* The bytes up to a piece begin with those up to an earlier one.
LEMMA EarlierBytes ==
    ASSUME NEW sent, Described(sent)
    PROVE  \A n \in 0..Len(sent) : \A m \in 0..n :
             /\ Reach(sent, m) <= Reach(sent, n) /\ (m < n => Reach(sent, m) < Reach(sent, n))
             /\ \A j \in 1..Reach(sent, m) : UpTo(sent, n)[j] = UpTo(sent, m)[j]
<1> DEFINE Begins(m, n) ==
             /\ Reach(sent, m) <= Reach(sent, n) /\ (m < n => Reach(sent, m) < Reach(sent, n))
             /\ \A j \in 1..Reach(sent, m) : UpTo(sent, n)[j] = UpTo(sent, m)[j]
           T == {n \in Nat : n <= Len(sent) => \A m \in 0..n : Begins(m, n)}
<1>0. /\ Len(sent) \in Nat
      /\ \A n \in 0..Len(sent) : UpTo(sent, n) \in Seq(Byte) /\ Reach(sent, n) \in Nat
  BY UpToType DEF Described, Reach
<1>1. ASSUME NEW n \in Nat, \A m \in Nat : m < n => m \in T PROVE n \in T
  <2> SUFFICES ASSUME n <= Len(sent), NEW m \in 0..n PROVE Begins(m, n)
    OBVIOUS
  <2>1. CASE m = n
    BY <1>0, <2>1
  <2>2. CASE m # n
    <3>1. n - 1 \in Nat /\ n - 1 < n /\ n - 1 < Len(sent) /\ (n - 1) + 1 = n /\ m \in 0..(n - 1)
          /\ n \in 1..Len(sent)
      BY <1>0, <2>2
    <3>2. Begins(m, n - 1)
      BY <1>0, <1>1, <3>1
    <3> DEFINE before == UpTo(sent, n - 1)
               now == UpTo(sent, n)
               piece == PieceBytes(sent[n])
    <3>3. now = before \o piece
      BY <3>1, OnePieceMore
    <3>4. piece \in Seq(Byte) /\ Len(piece) \in Nat \ {0} /\ before \in Seq(Byte)
      BY <1>0, <3>1, PieceType
    <3>5. Reach(sent, m) <= Len(before) /\ \A j \in 1..Reach(sent, m) : before[j] = UpTo(sent, m)[j]
      BY <3>2 DEF Reach
    <3>6. Reach(sent, m) \in Nat /\ Reach(sent, n) = Len(now)
      BY <1>0, <3>1 DEF Reach
    <3> HIDE DEF before, now, piece, Begins
    <3>7. Len(now) = Len(before) + Len(piece) /\ \A j \in 1..Len(before) : now[j] = before[j]
      BY <3>3, <3>4, ConcatProperties
    <3>8. Reach(sent, m) < Reach(sent, n) /\ \A j \in 1..Reach(sent, m) : now[j] = UpTo(sent, m)[j]
      BY <3>4, <3>5, <3>6, <3>7
    <3> QED
      BY <1>0, <3>1, <3>8 DEF Begins, now
  <2> QED
    BY <2>1, <2>2
<1>2. \A n \in Nat : n \in T
  <2> HIDE DEF T
  <2> QED
    BY <1>1, Induction
<1> QED
  BY <1>0, <1>2

\* Where the pieces lie in the stream.
LEMMA Layout ==
    ASSUME NEW sent, Described(sent)
    PROVE  /\ Len(sent) \in Nat /\ Flow(sent) \in Seq(Byte)
           /\ Reach(sent, 0) = 0 /\ Reach(sent, Len(sent)) = Len(Flow(sent))
           /\ \A n \in 0..Len(sent) : Reach(sent, n) \in 0..Len(Flow(sent))
           /\ \A n \in 0..Len(sent) : \A m \in 0..n : Reach(sent, m) <= Reach(sent, n)
           /\ \A k \in 0..(Len(sent) - 1) :
                /\ Reach(sent, k + 1) = Reach(sent, k) + Len(PieceBytes(sent[k + 1]))
                /\ Reach(sent, k) < Reach(sent, k + 1)
                /\ \A j \in 1..Len(PieceBytes(sent[k + 1])) :
                     Flow(sent)[Reach(sent, k) + j] = PieceBytes(sent[k + 1])[j]
<1>1. /\ Len(sent) \in Nat
      /\ \A n \in 0..Len(sent) : UpTo(sent, n) \in Seq(Byte) /\ Reach(sent, n) \in Nat
  BY UpToType DEF Described, Reach
<1>2. Flow(sent) \in Seq(Byte) /\ Reach(sent, Len(sent)) = Len(Flow(sent))
  BY <1>1 DEF Flow, Reach
<1>3. Reach(sent, 0) = 0
  BY OnePieceMore DEF Reach
<1>4. \A n \in 0..Len(sent) : \A m \in 0..n : Reach(sent, m) <= Reach(sent, n)
  BY EarlierBytes
<1>5. \A n \in 0..Len(sent) : Reach(sent, n) \in 0..Len(Flow(sent))
  BY <1>1, <1>2, <1>4
<1>6. ASSUME NEW k \in 0..(Len(sent) - 1)
      PROVE  /\ Reach(sent, k + 1) = Reach(sent, k) + Len(PieceBytes(sent[k + 1]))
             /\ Reach(sent, k) < Reach(sent, k + 1)
             /\ \A j \in 1..Len(PieceBytes(sent[k + 1])) :
                  Flow(sent)[Reach(sent, k) + j] = PieceBytes(sent[k + 1])[j]
  <2> DEFINE before == UpTo(sent, k)
             now == UpTo(sent, k + 1)
             piece == PieceBytes(sent[k + 1])
  <2>1. k \in Nat /\ k < Len(sent) /\ k \in 0..Len(sent) /\ k + 1 \in 1..Len(sent) /\ k + 1 \in 0..Len(sent)
    BY <1>1
  <2>2. now = before \o piece
    BY <2>1, OnePieceMore
  <2>3. piece \in Seq(Byte) /\ Len(piece) \in Nat \ {0}
    BY <2>1, PieceType
  <2>4. before \in Seq(Byte) /\ Reach(sent, k) = Len(before) /\ Reach(sent, k + 1) = Len(now)
    BY <1>1, <2>1 DEF Reach
  <2>5. \A j \in 1..Reach(sent, k + 1) : Flow(sent)[j] = now[j]
    <3>1. Len(sent) \in 0..Len(sent) /\ k + 1 \in 0..Len(sent)
      BY <1>1, <2>1
    <3>2. \A j \in 1..Reach(sent, k + 1) : UpTo(sent, Len(sent))[j] = UpTo(sent, k + 1)[j]
      BY <3>1, EarlierBytes
    <3> QED
      BY <3>2 DEF Flow
  <2> HIDE DEF before, now, piece
  <2>6. Len(now) = Len(before) + Len(piece)
        /\ \A j \in 1..(Len(before) + Len(piece)) :
              now[j] = IF j <= Len(before) THEN before[j] ELSE piece[j - Len(before)]
    BY <2>2, <2>3, <2>4, ConcatProperties
  <2>7. \A j \in 1..Len(piece) : Flow(sent)[Len(before) + j] = piece[j]
    <3> SUFFICES ASSUME NEW j \in 1..Len(piece) PROVE Flow(sent)[Len(before) + j] = piece[j]
      OBVIOUS
    <3>1. /\ Len(before) + j \in 1..(Len(before) + Len(piece)) /\ ~(Len(before) + j <= Len(before))
          /\ (Len(before) + j) - Len(before) = j
      BY <2>3, <2>4
    <3> QED
      BY <2>4, <2>5, <2>6, <3>1
  <2> QED
    BY <2>3, <2>4, <2>6, <2>7 DEF piece
<1> QED
  BY <1>1, <1>2, <1>3, <1>4, <1>5, <1>6

\* The bytes of the stream behind its first k pieces, when n were read.
Window(sent, k, n) == SubSeq(Flow(sent), Reach(sent, k) + 1, n)

\* A window on the stream, byte by byte.
LEMMA WindowBytes ==
    ASSUME NEW sent, Described(sent), NEW k \in 0..Len(sent),
           NEW n \in Reach(sent, k)..Len(Flow(sent))
    PROVE  /\ Window(sent, k, n) \in Seq(Byte) /\ Len(Window(sent, k, n)) = n - Reach(sent, k)
           /\ \A j \in 1..(n - Reach(sent, k)) : Window(sent, k, n)[j] = Flow(sent)[Reach(sent, k) + j]
<1>1. Reach(sent, k) \in 0..Len(Flow(sent)) /\ Flow(sent) \in Seq(Byte)
  BY Layout
<1> DEFINE from == Reach(sent, k)
           flow == Flow(sent)
<1>2. \A i \in (from + 1)..n : flow[i] \in Byte
  BY <1>1
<1> HIDE DEF from, flow
<1>3. from \in Nat /\ n \in Nat /\ from <= n
  BY <1>1 DEF from, flow
<1>4. /\ SubSeq(flow, from + 1, n) \in Seq(Byte) /\ Len(SubSeq(flow, from + 1, n)) = n - from
      /\ \A j \in 1..(n - from) : SubSeq(flow, from + 1, n)[j] = flow[from + j]
  BY <1>2, <1>3, SubSeqProperties
<1> QED
  BY <1>4 DEF Window, from, flow

\* What the stream holds from the end of a piece on.
LEMMA WindowShape ==
    ASSUME NEW sent, Described(sent), NEW k \in 0..(Len(sent) - 1),
           NEW n \in Reach(sent, k)..Len(Flow(sent))
    PROVE  LET next == sent[k + 1]  window == Window(sent, k, n) IN
           /\ next.kind = "junk" => ~Whole(window)
           /\ next.kind # "junk" /\ n < Reach(sent, k + 1) =>
                  ~Whole(window) /\ (window # <<>> => ~Malformed(window))
           /\ next.kind # "junk" /\ n >= Reach(sent, k + 1) =>
                  /\ Whole(window) /\ FirstFrame(window) = next
                  /\ After(window) = Window(sent, k + 1, n)
<1> DEFINE next == sent[k + 1]
           window == Window(sent, k, n)
           bytes == PieceBytes(next)
           from == Reach(sent, k)
<1>1. /\ Len(sent) \in Nat /\ k \in 0..Len(sent) /\ k + 1 \in 1..Len(sent) /\ k + 1 \in 0..Len(sent)
      /\ from \in Nat /\ Len(Flow(sent)) \in Nat /\ n \in Nat /\ from <= n /\ n <= Len(Flow(sent))
  BY Layout
<1>2. /\ next.kind # "junk" => next \in Frame /\ bytes = FrameBytes(next)
      /\ next.kind = "junk" => /\ bytes = next.bytes /\ k + 1 = Len(sent) /\ ~Whole(next.bytes)
      /\ bytes \in Seq(Byte) /\ Len(bytes) \in Nat \ {0}
  BY <1>1, PieceType
<1>3. /\ window \in Seq(Byte) /\ Len(window) = n - from
      /\ \A j \in 1..(n - from) : window[j] = Flow(sent)[from + j]
  BY <1>1, WindowBytes
<1>4. /\ Reach(sent, k + 1) = from + Len(bytes)
      /\ \A j \in 1..Len(bytes) : Flow(sent)[from + j] = bytes[j]
  BY Layout
<1>5. \A j \in 1..Len(window) : j <= Len(bytes) => window[j] = bytes[j]
  <2> HIDE DEF window, bytes, from
  <2> SUFFICES ASSUME NEW j \in 1..Len(window), j <= Len(bytes) PROVE window[j] = bytes[j]
    OBVIOUS
  <2>1. j \in 1..Len(bytes) /\ j \in 1..(n - from)
    BY <1>1, <1>2, <1>3
  <2> QED
    BY <1>3, <1>4, <2>1
<1>6. CASE next.kind = "junk"
  <2>1. Len(Flow(sent)) = from + Len(bytes)
    <3>1. Reach(sent, Len(sent)) = Len(Flow(sent))
      BY Layout
    <3> QED
      BY <1>2, <1>4, <1>6, <3>1
  <2>2. bytes # <<>> /\ ~Whole(bytes)
    BY <1>2, <1>6
  <2>3. Len(window) <= Len(bytes)
    BY <1>1, <1>2, <1>3, <2>1
  <2> HIDE DEF window, bytes, from
  <2>4. \A j \in 1..Len(window) : window[j] = bytes[j]
    BY <1>2, <1>3, <1>5, <2>3
  <2>5. ~Whole(window)
    BY <1>2, <1>3, <2>2, <2>3, <2>4, JunkPrefix
  <2> QED
    BY <1>6, <2>5 DEF window
<1>7. CASE next.kind # "junk"
  <2>1. next \in Frame /\ bytes = FrameBytes(next)
    BY <1>2, <1>7
  <2> HIDE DEF window, bytes, from, next
  <2>2. /\ Len(window) < Len(bytes) => Incomplete(window) /\ (window # <<>> => ~Malformed(window))
        /\ Len(window) >= Len(bytes) =>
               Whole(window) /\ FrameLength(window) = Len(bytes) /\ FirstFrame(window) = next
    BY <1>3, <1>5, <2>1, FramePrefix
  <2>3. CASE n < Reach(sent, k + 1)
    <3>1. Len(window) < Len(bytes)
      BY <1>1, <1>2, <1>3, <1>4, <2>3
    <3> QED
      BY <1>1, <1>2, <1>4, <1>7, <2>2, <2>3, <3>1 DEF Whole, window, next
  <2>4. CASE n >= Reach(sent, k + 1)
    <3>1. Len(window) >= Len(bytes)
      BY <1>1, <1>2, <1>3, <1>4, <2>4
    <3>2. Whole(window) /\ FrameLength(window) = Len(bytes) /\ FirstFrame(window) = next
      BY <2>2, <3>1
    <3> DEFINE later == Window(sent, k + 1, n)
               rest == After(window)
    <3>3. /\ later \in Seq(Byte) /\ Len(later) = n - Reach(sent, k + 1)
          /\ \A j \in 1..(n - Reach(sent, k + 1)) :
                 later[j] = Flow(sent)[Reach(sent, k + 1) + j]
      BY <1>1, <1>2, <1>4, <2>4, WindowBytes
    <3>4. rest \in Seq(Byte) /\ Len(rest) = n - (from + Len(bytes))
      BY <1>1, <1>2, <1>3, <3>2, AfterShorter
    <3>5. \A j \in 1..Len(rest) : rest[j] = window[Len(bytes) + j]
      <4>1. \A i \in (Len(bytes) + 1)..Len(window) : window[i] \in Byte
        BY <1>2, <1>3
      <4>2. rest = SubSeq(window, Len(bytes) + 1, Len(window))
        BY <3>2 DEF After
      <4>3. Len(bytes) + 1 \in Int /\ Len(window) \in Int
        BY <1>2, <1>3
      <4>4. \A j \in 1..(Len(window) - (Len(bytes) + 1) + 1) :
                SubSeq(window, Len(bytes) + 1, Len(window))[j] = window[(Len(bytes) + 1) + j - 1]
        BY <4>1, <4>3, SubSeqProperties
      <4>5. Len(window) - (Len(bytes) + 1) + 1 = Len(rest)
        BY <1>1, <1>2, <1>3, <3>4
      <4> HIDE DEF rest
      <4> QED
        BY <1>2, <1>3, <4>2, <4>4, <4>5
    <3> HIDE DEF later, rest
    <3>6. \A j \in 1..Len(rest) : rest[j] = later[j]
      <4> SUFFICES ASSUME NEW j \in 1..Len(rest) PROVE rest[j] = later[j]
        OBVIOUS
      <4>1. Len(bytes) + j \in 1..(n - from) /\ from + (Len(bytes) + j) = (from + Len(bytes)) + j
            /\ j \in 1..(n - (from + Len(bytes)))
        BY <1>1, <1>2, <3>4
      <4>2. window[Len(bytes) + j] = Flow(sent)[from + (Len(bytes) + j)]
        BY <1>3, <4>1
      <4>3. later[j] = Flow(sent)[(from + Len(bytes)) + j]
        BY <1>4, <3>3, <4>1
      <4> QED
        BY <3>5, <4>1, <4>2, <4>3
    <3>7. Len(rest) = Len(later)
      BY <1>4, <3>3, <3>4
    <3>8. rest = later
      BY <3>3, <3>4, <3>6, <3>7, SeqEqual
    <3> QED
      BY <1>1, <1>2, <1>4, <1>7, <2>4, <3>2, <3>8 DEF window, next, rest, later
  <2> QED
    BY <1>1, <1>2, <1>4, <2>3, <2>4 DEF next, window
<1> QED
  BY <1>6, <1>7

-----------------------------------------------------------------------------
(* What the parser makes of a stream *)

\* Of the pieces, the first m have been read, and nothing of the next one may be a
\* frame yet, when n bytes were.
Through(sent, m, n) ==
    /\ Reach(sent, m) <= n
    /\ m < Len(sent) /\ sent[m + 1].kind # "junk" => n < Reach(sent, m + 1)

\* Some of the junk has been read.
FailsOnJunk(sent, n) == \E i \in DOMAIN sent : sent[i].kind = "junk" /\ Reach(sent, i - 1) < n

\* What the parser makes of a window: the pieces up to one, and the bytes behind it.
YieldsPieces(sent, k, n) ==
    \E m \in k..Len(sent) :
        /\ Through(sent, m, n)
        /\ \A i \in (k + 1)..m : sent[i].kind # "junk"
        /\ Parse[Window(sent, k, n)].frames = SubSeq(sent, k + 1, m)
        /\ Parse[Window(sent, k, n)].rest = Window(sent, m, n)

\* Where no frame begins, the parser finds none and keeps the bytes, or fails.
LEMMA YieldsNothing ==
    ASSUME NEW sent, Described(sent), NEW k \in 0..Len(sent),
           NEW n \in Reach(sent, k)..Len(Flow(sent)),
           ~Whole(Window(sent, k, n)), Through(sent, k, n)
    PROVE  /\ Parse[Window(sent, k, n)].failed <=>
                  Window(sent, k, n) # <<>> /\ Malformed(Window(sent, k, n))
           /\ ~Parse[Window(sent, k, n)].failed => YieldsPieces(sent, k, n)
<1> DEFINE window == Window(sent, k, n)
<1>1. window \in Seq(Byte)
  BY WindowBytes
<1> HIDE DEF window
<1>2. Parse[window] = [frames |-> <<>>, rest |-> IF window = <<>> \/ Malformed(window) THEN <<>> ELSE window,
                       failed |-> window # <<>> /\ Malformed(window)]
  BY <1>1, NotWhole DEF window
<1>3. Parse[window].failed <=> window # <<>> /\ Malformed(window)
  <2> DEFINE bad == window # <<>> /\ Malformed(window)
  <2>1. bad \in BOOLEAN /\ Parse[window].failed = bad
    <3> HIDE DEF bad
    <3>1. bad \in BOOLEAN
      BY DEF bad
    <3>2. Parse[window] = [frames |-> <<>>, rest |-> IF window = <<>> \/ Malformed(window) THEN <<>> ELSE window,
                           failed |-> bad]
      BY <1>2 DEF bad
    <3> QED
      BY <3>1, <3>2
  <2> HIDE DEF bad
  <2>2. Parse[window].failed <=> bad
    BY <2>1
  <2> QED
    BY <2>2 DEF bad
<1>4. ASSUME ~Parse[window].failed PROVE YieldsPieces(sent, k, n)
  <2>1. Parse[window].frames = <<>> /\ Parse[window].rest = window
    BY <1>2, <1>3, <1>4
  <2>2. Len(sent) \in Nat
    BY Layout
  <2>3. SubSeq(sent, k + 1, k) = <<>>
    BY <2>2, SubSeqEmpty
  <2>4. k \in k..Len(sent) /\ \A i \in (k + 1)..k : sent[i].kind # "junk"
    BY <2>2
  <2> QED
    BY <2>1, <2>3, <2>4 DEF YieldsPieces, window
<1> QED
  BY <1>3, <1>4 DEF window

\* However much of the stream was read: the parser yields its pieces one after the
\* other, unless it meets junk.
LEMMA ParseStream ==
    ASSUME NEW sent, Described(sent)
    PROVE  \A k \in 0..Len(sent) : \A n \in Reach(sent, k)..Len(Flow(sent)) :
             IF Parse[Window(sent, k, n)].failed THEN FailsOnJunk(sent, n)
             ELSE YieldsPieces(sent, k, n)
<1> DEFINE Good(k, n) == IF Parse[Window(sent, k, n)].failed THEN FailsOnJunk(sent, n)
                         ELSE YieldsPieces(sent, k, n)
           T == {d \in Nat : \A k \in 0..Len(sent) : \A n \in Reach(sent, k)..Len(Flow(sent)) :
                               Len(sent) - k = d => Good(k, n)}
<1>0. Len(sent) \in Nat /\ Len(Flow(sent)) \in Nat
  BY Layout
<1>1. ASSUME NEW d \in Nat, \A e \in Nat : e < d => e \in T PROVE d \in T
  <2> SUFFICES ASSUME NEW k \in 0..Len(sent), NEW n \in Reach(sent, k)..Len(Flow(sent)),
                      Len(sent) - k = d
               PROVE  Good(k, n)
    OBVIOUS
  <2>0. Reach(sent, k) \in Nat /\ n \in Nat /\ Reach(sent, k) <= n /\ n <= Len(Flow(sent))
    BY Layout
  <2>1. CASE k = Len(sent)
    <3>1. n = Reach(sent, k)
      BY <2>0, <2>1, Layout
    <3>2. Window(sent, k, n) = <<>>
      BY <2>0, <3>1, SubSeqEmpty DEF Window
    <3>3. ~Whole(Window(sent, k, n)) /\ Through(sent, k, n)
      BY <2>0, <2>1, <3>2, <1>0 DEF Whole, Through
    <3> QED
      BY <3>2, <3>3, YieldsNothing
  <2>2. CASE k < Len(sent)
    <3>0. k \in 0..(Len(sent) - 1) /\ k + 1 \in DOMAIN sent /\ (k + 1) - 1 = k /\ k + 1 \in 0..Len(sent)
      BY <1>0, <2>2 DEF Described
    <3>1. CASE sent[k + 1].kind = "junk"
      <4>1. ~Whole(Window(sent, k, n)) /\ Through(sent, k, n)
        BY <2>0, <3>0, <3>1, WindowShape DEF Through
      <4>2. Window(sent, k, n) # <<>> => FailsOnJunk(sent, n)
        <5>1. Window(sent, k, n) # <<>> => Reach(sent, k) < n
          BY <2>0, SubSeqEmpty DEF Window
        <5> QED
          BY <3>0, <3>1, <5>1 DEF FailsOnJunk
      <4> QED
        BY <4>1, <4>2, YieldsNothing
    <3>2. CASE sent[k + 1].kind # "junk" /\ n < Reach(sent, k + 1)
      <4>1. /\ ~Whole(Window(sent, k, n)) /\ Through(sent, k, n)
            /\ Window(sent, k, n) # <<>> => ~Malformed(Window(sent, k, n))
        BY <2>0, <3>0, <3>2, WindowShape DEF Through
      <4> QED
        BY <4>1, YieldsNothing
    <3>3. CASE sent[k + 1].kind # "junk" /\ n >= Reach(sent, k + 1)
      <4> DEFINE window == Window(sent, k, n)
                 later == Window(sent, k + 1, n)
      <4>1. Whole(window) /\ FirstFrame(window) = sent[k + 1] /\ After(window) = later
        BY <3>0, <3>3, WindowShape
      <4>2. window \in Seq(Byte)
        BY WindowBytes
      <4>3. Good(k + 1, n)
        <5>1. n \in Reach(sent, k + 1)..Len(Flow(sent))
          BY <2>0, <3>0, <3>3, Layout
        <5>2. d - 1 \in Nat /\ d - 1 < d /\ Len(sent) - (k + 1) = d - 1
          BY <1>0, <2>2
        <5>3. d - 1 \in T
          BY <1>1, <5>2
        <5> HIDE DEF Good
        <5> QED
          BY <3>0, <5>1, <5>2, <5>3
      <4>4. /\ Parse[window].failed = Parse[later].failed
            /\ Parse[window].rest = Parse[later].rest
            /\ ~Parse[window].failed => Parse[window].frames = <<sent[k + 1]>> \o Parse[later].frames
        <5> HIDE DEF window, later
        <5> QED
          BY <4>1, <4>2, WholeFirst
      <4>5. CASE Parse[window].failed
        BY <4>3, <4>4, <4>5
      <4>6. CASE ~Parse[window].failed
        <5>1. YieldsPieces(sent, k + 1, n)
          BY <4>3, <4>4, <4>6
        <5>2. PICK m \in (k + 1)..Len(sent) :
                /\ Through(sent, m, n)
                /\ \A i \in ((k + 1) + 1)..m : sent[i].kind # "junk"
                /\ Parse[later].frames = SubSeq(sent, (k + 1) + 1, m)
                /\ Parse[later].rest = Window(sent, m, n)
          BY <5>1 DEF YieldsPieces
        <5>3. SubSeq(sent, k + 1, m) = <<sent[k + 1]>> \o SubSeq(sent, (k + 1) + 1, m)
          <6>1. sent \in Seq(Frame \cup Junk) /\ k + 1 \in 1..Len(sent) /\ m \in (k + 1)..Len(sent)
            BY <1>0, <2>2, <5>2 DEF Described, Frame
          <6> QED
            BY <6>1, SubSeqRecursiveFirst
        <5>4. Parse[window].frames = SubSeq(sent, k + 1, m) /\ Parse[window].rest = Window(sent, m, n)
          BY <4>4, <4>6, <5>2, <5>3
        <5>5. m \in k..Len(sent) /\ \A i \in (k + 1)..m : sent[i].kind # "junk"
          BY <1>0, <3>3, <5>2
        <5>6. YieldsPieces(sent, k, n)
          BY <5>2, <5>4, <5>5 DEF YieldsPieces
        <5> QED
          BY <4>6, <5>6
      <4> QED
        BY <4>5, <4>6
    <3> QED
      BY <2>0, <3>0, <3>1, <3>2, <3>3, Layout
  <2> QED
    BY <1>0, <2>1, <2>2
<1>2. \A d \in Nat : d \in T
  <2> HIDE DEF T
  <2> QED
    BY <1>1, Induction
<1>3. ASSUME NEW k \in 0..Len(sent), NEW n \in Reach(sent, k)..Len(Flow(sent)) PROVE Good(k, n)
  <2>1. Len(sent) - k \in Nat
    BY <1>0
  <2>2. Len(sent) - k \in T
    BY <1>2, <2>1
  <2> HIDE DEF Good
  <2> QED
    BY <2>2
<1> QED
  BY <1>3

\* Frames sent one after the other are read one after the other.
THEOREM FramesReadBack ==
    \A frames \in Seq(Frame) :
        Parse[Flow(frames)].frames = frames /\ Parse[Flow(frames)].rest = <<>>
        /\ ~Parse[Flow(frames)].failed
<1> SUFFICES ASSUME NEW frames \in Seq(Frame)
             PROVE  Parse[Flow(frames)].frames = frames /\ Parse[Flow(frames)].rest = <<>>
                    /\ ~Parse[Flow(frames)].failed
  OBVIOUS
<1> DEFINE flow == Flow(frames)
           n == Len(flow)
           last == Len(frames)
<1>1. \A i \in 1..last : frames[i].kind # "junk"
  BY DEF Frame, GetFrame, SetStatusFrame
<1>2. Described(frames) /\ DOMAIN frames = 1..last
  BY <1>1 DEF Described, Frame
<1>3. /\ last \in Nat /\ flow \in Seq(Byte) /\ n \in Nat /\ Reach(frames, 0) = 0 /\ Reach(frames, last) = n
      /\ \A m \in 0..last : Reach(frames, m) \in 0..n
  BY <1>2, Layout
<1>4. Window(frames, 0, n) = flow
  <2>1. Window(frames, 0, n) = SubSeq(flow, 1, Len(flow))
    BY <1>3 DEF Window
  <2> HIDE DEF flow
  <2> QED
    BY <1>3, <2>1
<1>5. 0 \in 0..last /\ n \in Reach(frames, 0)..Len(Flow(frames))
  BY <1>3
<1>6. ~FailsOnJunk(frames, n)
  BY <1>1, <1>2 DEF FailsOnJunk
<1>7. ~Parse[flow].failed /\ YieldsPieces(frames, 0, n)
  <2> HIDE DEF n
  <2> QED
    BY <1>2, <1>4, <1>5, <1>6, ParseStream
<1>8. PICK m \in 0..last : /\ Through(frames, m, n)
                           /\ Parse[flow].frames = SubSeq(frames, 0 + 1, m)
                           /\ Parse[flow].rest = Window(frames, m, n)
  BY <1>4, <1>7 DEF YieldsPieces
<1>9. m = last
  <2> SUFFICES ASSUME m < last PROVE FALSE
    BY <1>3
  <2>1. m + 1 \in 0..last /\ m + 1 \in 1..last
    BY <1>3
  <2>2. n < Reach(frames, m + 1)
    BY <1>1, <1>8, <2>1 DEF Through
  <2> QED
    BY <1>3, <2>1, <2>2
<1>10. Parse[flow].frames = frames
  BY <1>3, <1>8, <1>9
<1>11. Parse[flow].rest = <<>>
  <2>1. Window(frames, last, n) = SubSeq(flow, n + 1, n)
    BY <1>3 DEF Window
  <2> HIDE DEF flow, n, last
  <2>2. SubSeq(flow, n + 1, n) = <<>>
    BY <1>3, SubSeqEmpty
  <2> QED
    BY <1>8, <1>9, <2>1, <2>2
<1> QED
  BY <1>7, <1>10, <1>11

\* A frame before what is sent.
LEMMA FrameBefore ==
    ASSUME NEW sent, Described(sent), NEW f \in Frame
    PROVE  Described(<<f>> \o sent) /\ Flow(<<f>> \o sent) = FrameBytes(f) \o Flow(sent)
<1> DEFINE more == <<f>> \o sent
           S == GetFrame \cup SetStatusFrame \cup Junk
<1>1. sent \in Seq(S) /\ DOMAIN sent = 1..Len(sent) /\ Len(sent) \in Nat /\ <<f>> \in Seq(S)
  BY DEF Described, Frame
<1>2. /\ more \in Seq(S) /\ Len(more) = Len(sent) + 1 /\ DOMAIN more = 1..(Len(sent) + 1)
      /\ more[1] = f /\ \A i \in 1..Len(sent) : more[i + 1] = sent[i]
  <2> HIDE DEF S
  <2> QED
    BY <1>1
<1>3. f.kind # "junk"
  BY DEF Frame, GetFrame, SetStatusFrame
<1> HIDE DEF more, S
<1>4. Described(more)
  <2>1. ASSUME NEW i \in 1..(Len(sent) + 1), more[i].kind = "junk"
        PROVE  /\ i = Len(sent) + 1 /\ more[i].bytes # <<>>
               /\ Malformed(more[i].bytes) \/ Incomplete(more[i].bytes)
    <3>1. i # 1
      BY <1>2, <1>3, <2>1
    <3>2. i - 1 \in 1..Len(sent) /\ (i - 1) + 1 = i
      BY <1>1, <3>1
    <3>3. more[i] = sent[i - 1]
      BY <1>2, <3>2
    <3>4. /\ i - 1 = Len(sent) /\ sent[i - 1].bytes # <<>>
          /\ Malformed(sent[i - 1].bytes) \/ Incomplete(sent[i - 1].bytes)
      BY <1>1, <2>1, <3>2, <3>3 DEF Described
    <3> QED
      BY <1>1, <3>3, <3>4
  <2> QED
    BY <1>2, <2>1 DEF Described, S
<1>5. FrameBytes(f) \in Seq(Byte) /\ PieceBytes(f) = FrameBytes(f)
  BY <1>3, FrameBytesType DEF PieceBytes
<1> DEFINE T == {n \in Nat : n <= Len(sent) => UpTo(more, n + 1) = FrameBytes(f) \o UpTo(sent, n)}
<1>6. ASSUME NEW n \in Nat, \A m \in Nat : m < n => m \in T PROVE n \in T
  <2> SUFFICES ASSUME n <= Len(sent) PROVE UpTo(more, n + 1) = FrameBytes(f) \o UpTo(sent, n)
    OBVIOUS
  <2>1. UpTo(more, n + 1) = UpTo(more, n) \o PieceBytes(more[n + 1])
    <3>1. n < Len(more)
      BY <1>1, <1>2
    <3> QED
      BY <1>4, <3>1, OnePieceMore
  <2>2. CASE n = 0
    <3>1. UpTo(more, 0) = <<>> /\ UpTo(sent, 0) = <<>>
      BY <1>4, OnePieceMore
    <3>4. n + 1 = 1
      BY <2>2
    <3>5. UpTo(more, n) = <<>>
      BY <2>2, <3>1, Zenon
    <3>2. UpTo(more, n + 1) = <<>> \o FrameBytes(f)
      BY <1>2, <1>5, <2>1, <3>4, <3>5
    <3>3. UpTo(sent, n) = <<>>
      BY <2>2, <3>1, Zenon
    <3> QED
      BY <1>5, <3>2, <3>3
  <2>3. CASE n # 0
    <3> DEFINE m == n - 1
    <3>1. m \in Nat /\ m < n /\ m + 1 = n /\ m < Len(sent) /\ m <= Len(sent)
      BY <1>1, <2>3
    <3> HIDE DEF m
    <3>2. UpTo(more, n) = FrameBytes(f) \o UpTo(sent, m)
      BY <1>6, <3>1
    <3>3. UpTo(sent, n) = UpTo(sent, m) \o PieceBytes(sent[n])
      BY <3>1, OnePieceMore
    <3>4. n \in 1..Len(sent) /\ more[n + 1] = sent[n]
      BY <1>1, <1>2, <2>3
    <3>5. UpTo(sent, m) \in Seq(Byte) /\ PieceBytes(sent[n]) \in Seq(Byte)
      BY <1>1, <3>1, <3>4, UpToType, PieceType
    <3>6. (FrameBytes(f) \o UpTo(sent, m)) \o PieceBytes(sent[n])
          = FrameBytes(f) \o (UpTo(sent, m) \o PieceBytes(sent[n]))
      BY <1>5, <3>5, ConcatAssociative
    <3> QED
      BY <2>1, <3>2, <3>3, <3>4, <3>6
  <2> QED
    BY <2>2, <2>3
<1>7. \A n \in Nat : n \in T
  <2> HIDE DEF T
  <2> QED
    BY <1>6, Induction
<1>8. Flow(more) = FrameBytes(f) \o Flow(sent)
  BY <1>1, <1>2, <1>7 DEF Flow
<1> QED
  BY <1>4, <1>8 DEF more

\* Whatever the speaker sends can be described, so that Answers leaves nothing out.
THEOREM EveryStreamDescribed ==
    \A bytes \in Seq(Byte) : \E sent : Described(sent) /\ Flow(sent) = bytes
<1> DEFINE Good(b) == \E sent : Described(sent) /\ Flow(sent) = b
           T == {n \in Nat : \A b \in Seq(Byte) : Len(b) = n => Good(b)}
<1>1. ASSUME NEW n \in Nat, \A m \in Nat : m < n => m \in T PROVE n \in T
  <2> SUFFICES ASSUME NEW b \in Seq(Byte), Len(b) = n PROVE Good(b)
    OBVIOUS
  <2>1. CASE b = <<>>
    <3>1. Described(<<>>)
      BY DEF Described
    <3>2. Flow(<<>>) = <<>>
      BY <3>1, OnePieceMore DEF Flow
    <3> QED
      BY <2>1, <3>1, <3>2
  <2>2. CASE b # <<>> /\ ~Whole(b)
    <3> DEFINE junk == [kind |-> "junk", bytes |-> b]
               sent == <<junk>>
    <3>1. junk \in Junk /\ junk.kind = "junk" /\ junk.bytes = b /\ PieceBytes(junk) = b
      BY DEF Junk, PieceBytes
    <3> HIDE DEF junk
    <3>2. sent \in Seq(GetFrame \cup SetStatusFrame \cup Junk) /\ Len(sent) = 1 /\ DOMAIN sent = 1..1
          /\ sent[1] = junk
      BY <3>1
    <3> HIDE DEF sent
    <3>3. Described(sent)
      BY <2>2, <3>1, <3>2 DEF Described, Whole
    <3>4. UpTo(sent, 0) = <<>>
      BY <3>3, OnePieceMore
    <3>5. ASSUME NEW m \in Nat, m = 0 PROVE UpTo(sent, 1) = UpTo(sent, m) \o PieceBytes(sent[1])
      <4>1. m < Len(sent) /\ m + 1 = 1
        BY <3>2, <3>5
      <4>2. UpTo(sent, m + 1) = UpTo(sent, m) \o PieceBytes(sent[m + 1])
        BY <3>3, <4>1, OnePieceMore
      <4> QED
        BY <4>1, <4>2
    <3>6. UpTo(sent, 1) = <<>> \o b
      <4>1. UpTo(sent, 1) = UpTo(sent, 0) \o PieceBytes(sent[1])
        BY <3>5
      <4> QED
        BY <3>1, <3>2, <3>4, <4>1
    <3>7. Flow(sent) = b
      BY <3>2, <3>6 DEF Flow
    <3> QED
      BY <3>3, <3>7
  <2>3. CASE Whole(b)
    <3>1. After(b) \in Seq(Byte) /\ Len(After(b)) \in Nat /\ Len(After(b)) < n
      BY <2>3, AfterShorter
    <3>2. PICK sent : Described(sent) /\ Flow(sent) = After(b)
      BY <1>1, <3>1
    <3>3. FirstFrame(b) \in Frame
      BY <2>3, FirstIsFrame
    <3> QED
      BY <2>3, <3>2, <3>3, FrameBefore, FirstAndAfter
  <2> QED
    BY <2>1, <2>2, <2>3 DEF Whole
<1>2. \A n \in Nat : n \in T
  <2> HIDE DEF T
  <2> QED
    BY <1>1, Induction
<1> QED
  BY <1>2

-----------------------------------------------------------------------------
(* The inductive invariant *)

\* The stages in which there is a connection or what it left.
Busy == {"responding", "closing", "resting"}

\* Between two exchanges nothing is left of the first.
Quiet ==
    (\A o \in Ops : stage[o] \notin Busy) =>
        pieces = <<>> /\ taken = 0 /\ buffer = <<>> /\ examined = 0 /\ answer = None

\* Whoever has called asks for something.
Asking == \A o \in Ops : stage[o] # "idle" => request[o] \in Requests

\* While an operation reads, every piece the parser has passed was a frame that it
\* looked at and that does not concern it, and the parser keeps what lies behind.
Underway ==
    \A o \in Ops : stage[o] = "responding" =>
        /\ examined \in 0..Len(pieces) /\ examined <= MaxFrames
        /\ taken \in Reach(pieces, examined)..Len(Flow(pieces))
        /\ Through(pieces, examined, taken)
        /\ buffer = Window(pieces, examined, taken)
        /\ \A i \in 1..examined : pieces[i].kind # "junk" /\ ~Decides(request[o], pieces[i])

\* What concerns the stream and what is made of it.
Told == RightAnswer /\ MalformedHasReason /\ ReadsWhatWasSet /\ Underway /\ Quiet

\* The types of what belongs to the exchange.
ExchangeTypes ==
    /\ pieces \in Answers \cup {<<>>} /\ taken \in Nat /\ buffer \in Seq(Byte) /\ examined \in Nat
    /\ answer \in SourceStatus \cup VolumeStatus \cup {None, Undecodable} /\ LittleBuffered

\* The inductive invariant: types, control and stream together.
Client == TypeOK /\ Control /\ LittleBuffered /\ Asking /\ Told

-----------------------------------------------------------------------------
(* What concerns an operation *)

\* The minimum of a nonempty set of numbers is one of them and not above any.
LEMMA MinIsLeast ==
    ASSUME NEW S, S \subseteq Nat, S # {}
    PROVE  Min(S) \in S /\ \A n \in S : Min(S) <= n
<1>1. \E m \in S : \A n \in S : m <= n
  BY Least
<1> QED
  BY <1>1 DEF Min

\* The stream and the ends of its pieces, as the specification names them.
LEMMA StreamIsFlow ==
    ASSUME NEW sent, Described(sent), pieces = sent
    PROVE  Stream = Flow(sent) /\ \A n : BytesUpTo(n) = Reach(sent, n)
<1>1. DOMAIN sent = 1..Len(sent)
  BY DEF Described
<1> QED
  BY <1>1 DEF Stream, Flow, UpTo, Reach, BytesUpTo

\* What the speaker sends is described by its pieces, before there is a connection too.
LEMMA PiecesDescribed == pieces \in Answers \cup {<<>>} => Described(pieces)
<1>1. Described(<<>>)
  BY DEF Described
<1> QED
  BY <1>1, ClientAssumption

\* The pieces that concern an operation are the frames that end its exchange.
LEMMA TellingDecides ==
    ASSUME NEW o \in Ops, request[o] \in Requests, NEW i \in DOMAIN pieces,
           pieces[i] \in Frame
    PROVE  i \in Telling(o) <=> Decides(request[o], pieces[i])
<1>1. request[o] \in {"get_source", "get_volume", "set"}
  BY ClientAssumption DEF RequestKinds
<1>2. pieces[i].kind \in {"get", "status"}
  BY DEF Frame, GetFrame, SetStatusFrame
<1> QED
  BY <1>1, <1>2 DEF Telling, Decides, Asked

\* The first piece that concerns the operation, once those before it were looked at.
LEMMA FirstTelling ==
    ASSUME NEW o \in Ops, request[o] \in Requests, Described(pieces), NEW j \in DOMAIN pieces,
           \A i \in 1..j : pieces[i].kind # "junk",
           \A i \in 1..(j - 1) : ~Decides(request[o], pieces[i]), Decides(request[o], pieces[j])
    PROVE  Telling(o) # {} /\ Min(Telling(o)) = j
<1>1. DOMAIN pieces = 1..Len(pieces) /\ Len(pieces) \in Nat
  BY DEF Described
<1>2. \A i \in 1..j : i \in DOMAIN pieces /\ pieces[i] \in Frame
  BY <1>1, PieceType
<1>3. j \in Telling(o) /\ \A i \in 1..(j - 1) : i \notin Telling(o)
  BY <1>1, <1>2, TellingDecides
<1>4. Telling(o) \subseteq Nat /\ Telling(o) # {} /\ \A i \in Telling(o) : i >= 1
  BY <1>1, <1>3 DEF Telling
<1>5. Min(Telling(o)) \in Telling(o) /\ Min(Telling(o)) <= j
  BY <1>3, <1>4, MinIsLeast
<1> QED
  BY <1>1, <1>3, <1>4, <1>5

\* What an operation that reads makes of a chunk: the parser, fed with it, returns
\* what it would have returned for all the bytes behind the pieces already passed.
LEMMA FedWithChunk ==
    ASSUME TypeOK, LittleBuffered, Underway, NEW o \in Ops, stage[o] = "responding",
           NEW size \in 1..Min({ReadSize, Len(Stream) - taken})
    PROVE  /\ taken + size \in Reach(pieces, examined)..Len(Flow(pieces))
           /\ Feed(buffer, SubSeq(Stream, taken + 1, taken + size))
              = Parse[Window(pieces, examined, taken + size)]
<1>1. Described(pieces) /\ Stream = Flow(pieces)
  BY PiecesDescribed, StreamIsFlow DEF TypeOK
<1>2. /\ examined \in 0..Len(pieces) /\ taken \in Reach(pieces, examined)..Len(Flow(pieces))
      /\ buffer = Window(pieces, examined, taken)
  BY DEF Underway
<1> DEFINE flow == Flow(pieces)
           from == Reach(pieces, examined)
           n == taken + size
<1>3. flow \in Seq(Byte) /\ Len(flow) \in Nat /\ from \in Nat /\ taken \in Nat /\ from <= taken
      /\ taken <= Len(flow)
  BY <1>1, <1>2, Layout
<1>4. size \in Nat /\ size >= 1 /\ size <= ReadSize /\ n <= Len(flow)
  <2> DEFINE S == {ReadSize, Len(Stream) - taken}
  <2>1. S \subseteq Nat /\ S # {}
    BY <1>1, <1>3, ClientAssumption
  <2>2. Min(S) \in Nat /\ Min(S) <= ReadSize /\ Min(S) <= Len(Stream) - taken
    BY <2>1, MinIsLeast
  <2> HIDE DEF S
  <2>3. size \in 1..Min(S)
    BY DEF S
  <2> QED
    BY <1>1, <1>3, <2>2, <2>3, ClientAssumption
<1> HIDE DEF flow, from
<1>5. SubSeq(flow, from + 1, taken) \o SubSeq(flow, taken + 1, n) = SubSeq(flow, from + 1, n)
  <2>1. /\ from + 1 \in 1..(Len(flow) + 1) /\ taken \in (from + 1 - 1)..Len(flow) /\ n \in taken..Len(flow)
    BY <1>3, <1>4
  <2> QED
    BY <1>3, <2>1, ConcatAdjacentSubSeq
<1>6. buffer \o SubSeq(Stream, taken + 1, n) = Window(pieces, examined, n)
  BY <1>1, <1>2, <1>5 DEF Window, flow, from
<1>7. n \in from..Len(flow)
  BY <1>3, <1>4
<1>8. Len(Window(pieces, examined, n)) = n - from
  BY <1>1, <1>2, <1>7, WindowBytes DEF flow, from
<1>9. Len(buffer) = taken - from
  BY <1>1, <1>2, WindowBytes DEF from
<1>10. ~(Len(buffer \o SubSeq(Stream, taken + 1, n)) > BufferLimit)
  BY <1>3, <1>4, <1>6, <1>8, <1>9, ClientAssumption, RegisterAssumption DEF LittleBuffered
<1> QED
  BY <1>6, <1>7, <1>10 DEF Feed, flow, from

\* What an operation sees of the frames the parser returned when n bytes were read:
\* those that decide, and how many it looks at.
Looked(o, n, fed, deciding, seen) ==
    /\ n \in Reach(pieces, examined)..Len(Flow(pieces))
    /\ fed = Parse[Window(pieces, examined, n)]
    /\ \A i : i \in deciding <=> i \in DOMAIN fed.frames /\ Decides(request[o], fed.frames[i])
    /\ seen \in Nat /\ (deciding = {} => seen = Len(fed.frames))
    /\ deciding # {} => seen \in deciding /\ \A i \in deciding : seen <= i

\* The frames a chunk completes, and where the first of them that concerns the
\* operation is in the stream.
LEMMA PassedOrDecided ==
    ASSUME TypeOK, Underway, Asking, NEW o \in Ops, stage[o] = "responding",
           NEW n, NEW fed, NEW deciding, NEW seen, Looked(o, n, fed, deciding, seen), ~fed.failed
    PROVE  /\ seen \in Nat /\ examined + seen \in 0..Len(pieces)
           /\ Reach(pieces, examined + seen) <= n
           /\ deciding = {} =>
                /\ Through(pieces, examined + seen, n)
                /\ fed.rest = Window(pieces, examined + seen, n)
                /\ \A i \in 1..(examined + seen) :
                     pieces[i].kind # "junk" /\ ~Decides(request[o], pieces[i])
           /\ deciding # {} =>
                /\ seen >= 1 /\ fed.frames[seen] = pieces[examined + seen]
                /\ fed.frames[seen] \in Frame /\ Decides(request[o], fed.frames[seen])
                /\ Telling(o) # {} /\ Min(Telling(o)) = examined + seen
<1>0. /\ n \in Reach(pieces, examined)..Len(Flow(pieces))
      /\ fed = Parse[Window(pieces, examined, n)]
      /\ \A i : i \in deciding <=> i \in DOMAIN fed.frames /\ Decides(request[o], fed.frames[i])
      /\ seen \in Nat /\ (deciding = {} => seen = Len(fed.frames))
      /\ deciding # {} => seen \in deciding /\ \A i \in deciding : seen <= i
  BY DEF Looked
<1> DEFINE k == examined
<1>1. /\ Described(pieces) /\ Len(pieces) \in Nat /\ k \in 0..Len(pieces) /\ request[o] \in Requests
      /\ \A i \in 1..k : pieces[i].kind # "junk" /\ ~Decides(request[o], pieces[i])
      /\ DOMAIN pieces = 1..Len(pieces)
  BY PiecesDescribed DEF TypeOK, Underway, Asking, Described
<1>2. YieldsPieces(pieces, k, n)
  BY <1>0, <1>1, ParseStream
<1>3. PICK m \in k..Len(pieces) :
        /\ Through(pieces, m, n)
        /\ \A i \in (k + 1)..m : pieces[i].kind # "junk"
        /\ fed.frames = SubSeq(pieces, k + 1, m)
        /\ fed.rest = Window(pieces, m, n)
  BY <1>0, <1>2 DEF YieldsPieces
<1>4. /\ Len(fed.frames) = m - k /\ DOMAIN fed.frames = 1..(m - k)
      /\ \A i \in 1..(m - k) : fed.frames[i] = pieces[k + i]
  <2>1. pieces \in Seq(Frame \cup Junk)
    BY <1>1 DEF Described, Frame
  <2>2. ASSUME NEW i \in (k + 1)..m PROVE pieces[i] \in Frame \cup Junk
    <3>1. i \in 1..Len(pieces)
      BY <1>1, <1>3
    <3> QED
      BY <2>1, <3>1
  <2>3. k + 1 \in Int /\ m \in Int /\ k <= m
    BY <1>1, <1>3
  <2> DEFINE s == SubSeq(pieces, k + 1, m)
  <2>4. /\ s \in Seq(Frame \cup Junk) /\ Len(s) = IF k + 1 <= m THEN m - (k + 1) + 1 ELSE 0
        /\ \A i \in 1..(m - (k + 1) + 1) : s[i] = pieces[(k + 1) + i - 1]
    BY <2>2, <2>3, SubSeqProperties
  <2>6. k \in Nat /\ m \in Nat /\ k <= m
    BY <1>1, <1>3
  <2> HIDE DEF s, k
  <2>7. m - (k + 1) + 1 = m - k /\ (~(k + 1 <= m) => m - k = 0)
    BY <2>6
  <2>8. Len(s) = m - k /\ DOMAIN s = 1..(m - k)
    BY <2>4, <2>6, <2>7
  <2>9. ASSUME NEW i \in 1..(m - k) PROVE s[i] = pieces[k + i]
    <3>1. i \in 1..(m - (k + 1) + 1) /\ (k + 1) + i - 1 = k + i
      BY <2>6
    <3> QED
      BY <2>4, <3>1
  <2>5. Len(s) = m - k /\ DOMAIN s = 1..(m - k) /\ \A i \in 1..(m - k) : s[i] = pieces[k + i]
    BY <2>8, <2>9
  <2> QED
    BY <1>3, <2>5 DEF s
<1>5. deciding \subseteq 1..(m - k)
  BY <1>0, <1>4
<1>6. Reach(pieces, m) <= n /\ Reach(pieces, m) \in Nat /\ n \in Nat
  BY <1>0, <1>1, <1>3, Layout DEF Through
<1>9. k \in Nat /\ m \in Nat /\ k <= m /\ m <= Len(pieces) /\ k = examined
  BY <1>1, <1>3
<1> HIDE DEF k
<1>7. CASE deciding = {}
  <2>1. seen = m - k /\ k + seen = m
    <3>1. seen = Len(fed.frames)
      BY <1>0, <1>7
    <3> QED
      BY <1>4, <1>9, <3>1
  <2>2. ASSUME NEW i \in 1..m PROVE pieces[i].kind # "junk" /\ ~Decides(request[o], pieces[i])
    <3>1. CASE i <= k
      <4>1. i \in 1..k
        BY <1>9, <3>1
      <4> QED
        BY <1>1, <4>1
    <3>2. CASE i > k
      <4>1. i - k \in 1..(m - k) /\ k + (i - k) = i /\ i \in (k + 1)..m
        BY <1>9, <3>2
      <4>2. ~Decides(request[o], fed.frames[i - k])
        BY <1>0, <1>4, <1>7, <4>1
      <4> QED
        BY <1>3, <1>4, <4>1, <4>2
    <3> QED
      BY <1>9, <3>1, <3>2
  <2> QED
    BY <1>0, <1>3, <1>6, <1>7, <1>9, <2>1, <2>2
<1>8. CASE deciding # {}
  <2>2. seen \in deciding /\ \A i \in deciding : seen <= i
    BY <1>0, <1>8
  <2>3. seen \in 1..(m - k)
    BY <1>5, <2>2
  <2>10. seen \in Nat /\ seen >= 1 /\ k + seen \in (k + 1)..m /\ k + seen \in 1..Len(pieces)
    <3> HIDE DEF k
    <3> SUFFICES ASSUME NEW x \in 1..(m - k)
                 PROVE  x \in Nat /\ x >= 1 /\ k + x \in (k + 1)..m /\ k + x \in 1..Len(pieces)
      BY <2>3
    <3> QED
      BY <1>1, <1>9
  <2>4. fed.frames[seen] = pieces[k + seen] /\ Decides(request[o], pieces[k + seen])
    BY <1>0, <1>4, <2>2, <2>3, <1>8
  <2>5. ASSUME NEW i \in 1..(k + seen) PROVE pieces[i].kind # "junk"
    <3>1. i \in 1..k \/ i \in (k + 1)..m
      BY <1>9, <2>10
    <3> QED
      BY <1>1, <1>3, <3>1
  <2>6. ASSUME NEW i \in 1..((k + seen) - 1) PROVE ~Decides(request[o], pieces[i])
    <3>1. CASE i <= k
      <4>1. i \in 1..k
        BY <1>9, <2>10, <3>1
      <4> QED
        BY <1>1, <4>1
    <3>2. CASE i > k
      <4>1. i - k \in 1..(m - k) /\ k + (i - k) = i /\ ~(seen <= i - k)
        BY <1>9, <2>10, <3>2
      <4>2. i - k \notin deciding
        BY <2>2, <4>1
      <4> QED
        BY <1>0, <1>4, <4>1, <4>2
    <3> QED
      BY <1>9, <2>10, <3>1, <3>2
  <2> DEFINE j == k + seen
  <2>11. j \in DOMAIN pieces /\ j \in 1..j
    BY <1>1, <2>10
  <2> HIDE DEF j
  <2>7. pieces[j] \in Frame
    BY <1>1, <2>5, <2>11, PieceType DEF j
  <2>8. Telling(o) # {} /\ Min(Telling(o)) = j
    <3>1. \A i \in 1..j : pieces[i].kind # "junk"
      BY <2>5 DEF j
    <3>2. \A i \in 1..(j - 1) : ~Decides(request[o], pieces[i])
      BY <2>6 DEF j
    <3>3. Decides(request[o], pieces[j])
      BY <2>4 DEF j
    <3> QED
      BY <1>1, <2>11, <3>1, <3>2, <3>3, FirstTelling
  <2>9. Reach(pieces, k + seen) <= n
    <3>1. m \in 0..Len(pieces) /\ j \in 0..m /\ j \in 0..Len(pieces)
      BY <1>9, <2>10 DEF j
    <3>2. Reach(pieces, j) <= Reach(pieces, m) /\ Reach(pieces, j) \in 0..Len(Flow(pieces))
      BY <1>1, <3>1, Layout
    <3>3. Reach(pieces, j) \in Int
      BY <3>2
    <3> QED
      BY <1>6, <3>2, <3>3 DEF j
  <2>12. examined + seen \in 0..Len(pieces)
    BY <1>9, <2>10
  <2> QED
    BY <1>0, <1>8, <1>9, <2>4, <2>7, <2>8, <2>9, <2>10, <2>12 DEF j
<1> QED
  BY <1>7, <1>8

\* What the verdict on the frame that ends an exchange says of that frame.
LEMMA VerdictTells ==
    ASSUME NEW o \in Ops, request[o] \in Requests, NEW f \in Frame, Decides(request[o], f),
           NEW kind, kind = Verdict(request[o], f)
    PROVE  /\ kind \in {"answered", "accepted", "rejected", "malformed"}
           /\ kind = "answered" => f.kind = "get"
           /\ kind \in {"accepted", "rejected"} =>
                /\ f.kind = "status" /\ request[o] = "set"
                /\ kind = "accepted" <=> f.status = SET_OK_STATUS
           /\ kind = "malformed" => Unfit(o, f)
<1>1. f.kind \in {"get", "status"}
  BY DEF Frame, GetFrame, SetStatusFrame
<1>2. CASE f.kind = "get"
  BY <1>2 DEF Verdict, Unfit
<1>3. CASE f.kind = "status"
  BY <1>3 DEF Verdict, Unfit
<1> QED
  BY <1>1, <1>2, <1>3

\* A decoder returns a state of its register or refuses the byte.
LEMMA DecodedType ==
    \A r, value : value \in Byte => Decoded(r, value) \in SourceStatus \cup VolumeStatus \cup {Undecodable}
<1> SUFFICES ASSUME NEW r, NEW value \in Byte
             PROVE  Decoded(r, value) \in SourceStatus \cup VolumeStatus \cup {Undecodable}
  OBVIOUS
<1>1. DecodeSource(value) \in SourceStatus \cup {Undecodable}
  <2> DEFINE meant == {s \in SourceStatus :
                         /\ s.power_on = (Corrected(value) <= 128)
                         /\ \E base \in ReportedBases(s.source) :
                              Corrected(value) % 128
                              = base + StandbyOffset(s.standby) + InverseBit(s.inverse)}
  <2>1. DecodeSource(value) = IF meant = {} THEN Undecodable ELSE CHOOSE s \in meant : TRUE
    BY DEF DecodeSource
  <2>2. meant \subseteq SourceStatus
    OBVIOUS
  <2> HIDE DEF meant
  <2>3. meant # {} => (CHOOSE s \in meant : TRUE) \in meant
    OBVIOUS
  <2> QED
    BY <2>1, <2>2, <2>3
<1>2. DecodeVolume(value) \in VolumeStatus \cup {Undecodable}
  <2>1. CASE value % 128 > 100
    BY <2>1 DEF DecodeVolume
  <2>2. CASE ~(value % 128 > 100)
    <3> DEFINE muted == (value >= 128)
    <3>1. DecodeVolume(value) = [volume |-> value % 128, muted |-> muted]
      BY <2>2 DEF DecodeVolume
    <3>2. muted \in BOOLEAN /\ value % 128 \in 0..100
      BY <2>2 DEF Byte
    <3> HIDE DEF muted
    <3> QED
      BY <3>1, <3>2 DEF VolumeStatus
  <2> QED
    BY <2>1, <2>2
<1> QED
  BY <1>1, <1>2 DEF Decoded

-----------------------------------------------------------------------------
(* How an exchange ends *)

\* What the three invariants about the end of an exchange ask of one that ends in
\* the given way.
TellsRight(o, kind) ==
    kind \in {"answered", "accepted", "rejected"} =>
        /\ Telling(o) # {}
        /\ LET i == Min(Telling(o)) IN
             /\ ReadWhole(i) /\ i <= MaxFrames
             /\ IF kind = "answered"
                THEN pieces[i].kind = "get" /\ answer = Decoded(request[o], pieces[i].value)
                ELSE /\ pieces[i].kind = "status" /\ request[o] = "set"
                     /\ kind = "accepted" <=> pieces[i].status = SET_OK_STATUS

HasReason(o, kind) ==
    kind = "malformed" =>
        \/ \E i \in DOMAIN pieces : pieces[i].kind = "junk" /\ BytesUpTo(i - 1) < taken
        \/ \A n \in 0..Len(pieces) : BytesUpTo(n) # taken
        \/ \E i \in DOMAIN pieces : ReadWhole(i) /\ i > MaxFrames
        \/ /\ Telling(o) # {} /\ ReadWhole(Min(Telling(o)))
           /\ Unfit(o, pieces[Min(Telling(o))])

ReadsBack(o, kind) ==
    /\ kind \in {"answered", "malformed"}
    /\ Len(pieces) = 1 /\ Telling(o) = {1} /\ pieces[1].kind = "get" /\ ReadWhole(1)
    => CASE request[o] = "get_source" ->
              \A s \in SourceStatus : EncodeSource(s) = pieces[1].value => answer = s
         [] request[o] = "get_volume" ->
              \A s \in VolumeStatus : EncodeVolume(s) = pieces[1].value => answer = s

\* Only the operation that has the lock is on the line.
LEMMA OthersAway ==
    ASSUME Control, NEW o \in Ops, stage[o] \in OnLine, NEW p \in Ops, stage[p] \in OnLine
    PROVE  p = o
BY DEF Control, Exclusive, Holds

\* An exchange that ends well, or for a reason, keeps the invariants.
LEMMA EndKeeps ==
    ASSUME Control, NEW o \in Ops, stage[o] = "responding", NEW kind, Finish(o, kind),
           TellsRight(o, kind)', HasReason(o, kind)', ReadsBack(o, kind)'
    PROVE  RightAnswer' /\ MalformedHasReason' /\ ReadsWhatWasSet' /\ Underway' /\ Quiet'
<1>1. /\ stage \in [Ops -> Stages] /\ result \in [Ops -> Result \cup {None}]
  BY DEF Control, ControlTypes
<1>2. stage'[o] = "closing" /\ result'[o].kind = kind
  BY <1>1 DEF Finish, Ended
<1>3. \A p \in Ops : p # o => stage'[p] \notin {"responding", "closing"}
  BY <1>1, OthersAway DEF Finish, OnLine
<1>4. RightAnswer'
  BY <1>2, <1>3 DEF RightAnswer, TellsRight
<1>5. MalformedHasReason'
  BY <1>2, <1>3 DEF MalformedHasReason, HasReason
<1>6. ReadsWhatWasSet'
  BY <1>2, <1>3 DEF ReadsWhatWasSet, ReadsBack
<1>7. Underway' /\ Quiet'
  BY <1>2, <1>3 DEF Underway, Quiet, Busy
<1> QED
  BY <1>4, <1>5, <1>6, <1>7

\* Nothing that concerns the operation has been read as long as it reads.
LEMMA NothingTold ==
    ASSUME TypeOK, Underway, Asking, NEW o \in Ops, stage[o] = "responding",
           NEW i \in Telling(o), pieces[i].kind # "junk"
    PROVE  ~ReadWhole(i)
<1> DEFINE k == examined
<1>1. /\ Described(pieces) /\ Len(pieces) \in Nat /\ k \in 0..Len(pieces) /\ request[o] \in Requests
      /\ \A j \in 1..k : ~Decides(request[o], pieces[j])
      /\ DOMAIN pieces = 1..Len(pieces) /\ Through(pieces, k, taken)
      /\ taken \in Reach(pieces, k)..Len(Flow(pieces))
  BY PiecesDescribed DEF TypeOK, Underway, Asking, Described
<1>2. i \in 1..Len(pieces)
  BY <1>1 DEF Telling
<1>3. pieces[i] \in Frame
  BY <1>1, <1>2, PieceType
<1>4. Decides(request[o], pieces[i])
  BY <1>1, <1>2, <1>3, TellingDecides
<1>5. ~(i <= k)
  BY <1>1, <1>2, <1>4
<1>6. k < Len(pieces) /\ k + 1 \in 1..Len(pieces) /\ k + 1 \in 0..i /\ i \in 0..Len(pieces)
  BY <1>1, <1>2, <1>5
<1>7. pieces[k + 1].kind # "junk"
  <2>1. pieces[k + 1].kind = "junk" => k + 1 = Len(pieces)
    BY <1>1, <1>6, PieceType
  <2>2. k + 1 = Len(pieces) => i = k + 1
    BY <1>1, <1>2, <1>6
  <2> QED
    BY <2>1, <2>2
<1>8. taken < Reach(pieces, k + 1)
  BY <1>1, <1>6, <1>7 DEF Through
<1>9. Reach(pieces, k + 1) <= Reach(pieces, i)
  BY <1>1, <1>6, Layout
<1>10. Reach(pieces, i) \in Int /\ Reach(pieces, k + 1) \in Int /\ taken \in Int
  <2>1. k + 1 \in 0..Len(pieces)
    BY <1>1, <1>6
  <2> QED
    BY <1>1, <1>6, <2>1, Layout
<1>11. BytesUpTo(i) = Reach(pieces, i)
  BY <1>1, StreamIsFlow
<1> QED
  BY <1>8, <1>9, <1>10, <1>11 DEF ReadWhole

\* A buffer that is not empty when the stream ends holds part of a frame, or junk.
LEMMA BrokenOff ==
    ASSUME TypeOK, Underway, NEW o \in Ops, stage[o] = "responding", buffer # <<>>
    PROVE  \/ \E i \in DOMAIN pieces : pieces[i].kind = "junk" /\ BytesUpTo(i - 1) < taken
           \/ \A n \in 0..Len(pieces) : BytesUpTo(n) # taken
<1> DEFINE k == examined
<1>1. /\ Described(pieces) /\ Len(pieces) \in Nat /\ k \in 0..Len(pieces)
      /\ DOMAIN pieces = 1..Len(pieces) /\ Through(pieces, k, taken)
      /\ taken \in Reach(pieces, k)..Len(Flow(pieces))
      /\ buffer = Window(pieces, k, taken)
  BY PiecesDescribed DEF TypeOK, Underway, Described
<1>2. \A n : BytesUpTo(n) = Reach(pieces, n)
  BY <1>1, StreamIsFlow
<1>3. \A n \in 0..Len(pieces) : Reach(pieces, n) \in Nat
  BY <1>1, Layout
<1>4. taken \in Nat /\ Reach(pieces, k) < taken
  <2>1. Reach(pieces, k) \in Nat /\ Len(Flow(pieces)) \in Nat
    BY <1>1, Layout
  <2>2. taken # Reach(pieces, k)
    BY <1>1, <2>1, SubSeqEmpty DEF Window
  <2> QED
    BY <1>1, <2>1, <2>2
<1>5. k < Len(pieces)
  <2>1. Reach(pieces, Len(pieces)) = Len(Flow(pieces)) /\ Len(Flow(pieces)) \in Nat
    BY <1>1, Layout
  <2>2. ~(Reach(pieces, k) >= Len(Flow(pieces)))
    <3> DEFINE r == Reach(pieces, k)
    <3>1. r < taken /\ r \in Nat /\ taken \in Nat
      BY <1>1, <1>3, <1>4
    <3>2. taken <= Len(Flow(pieces))
      BY <1>1, <1>3, <2>1
    <3> HIDE DEF r
    <3>3. ~(r >= Len(Flow(pieces)))
      BY <2>1, <3>1, <3>2
    <3> QED
      BY <3>3 DEF r
  <2> DEFINE last == Len(pieces)
  <2>3. k # last
    <3>1. ASSUME k = last PROVE Reach(pieces, k) = Len(Flow(pieces))
      <4> HIDE DEF k
      <4> QED
        BY <2>1, <3>1, Zenon
    <3>2. Reach(pieces, k) = Len(Flow(pieces)) => Reach(pieces, k) >= Len(Flow(pieces))
      BY <2>1
    <3> QED
      BY <2>2, <3>1, <3>2
  <2>4. k \in 0..last /\ last \in Nat
    BY <1>1
  <2> HIDE DEF k, last
  <2>5. k < last
    BY <2>3, <2>4
  <2> QED
    BY <2>5 DEF last
<1> HIDE DEF k
<1>6. k \in Nat /\ k + 1 \in DOMAIN pieces /\ (k + 1) - 1 = k
  BY <1>1, <1>5
<1>7. CASE pieces[k + 1].kind = "junk"
  BY <1>2, <1>4, <1>6, <1>7
<1>8. CASE pieces[k + 1].kind # "junk"
  <2>1. taken < Reach(pieces, k + 1)
    BY <1>1, <1>5, <1>8 DEF Through
  <2>2. ASSUME NEW n \in 0..Len(pieces) PROVE Reach(pieces, n) # taken
    <3>1. CASE n <= k
      <4>1. n \in 0..k
        BY <1>6, <3>1
      <4>2. Reach(pieces, n) <= Reach(pieces, k)
        BY <1>1, <4>1, Layout
      <4> QED
        BY <1>1, <1>3, <1>4, <4>2
    <3>2. CASE ~(n <= k)
      <4>1. k + 1 \in 0..n /\ k + 1 \in 0..Len(pieces)
        BY <1>1, <1>6, <3>2
      <4>2. Reach(pieces, k + 1) <= Reach(pieces, n)
        BY <1>1, <4>1, Layout
      <4>3. Reach(pieces, k + 1) \in Nat /\ Reach(pieces, n) \in Nat
        BY <1>3, <4>1
      <4> QED
        BY <1>4, <2>1, <4>2, <4>3
    <3> QED
      BY <3>1, <3>2
  <2> QED
    BY <1>2, <2>2
<1> QED
  BY <1>7, <1>8

\* An operation that ends without having read more.
LEMMA EndWithoutReading ==
    ASSUME TypeOK, Control, Underway, Asking, NEW o \in Ops, stage[o] = "responding",
           NEW kind \in {"malformed", "lost", "timeout", "cancelled"}, Finish(o, kind),
           kind = "malformed" => buffer # <<>>, UNCHANGED <<request, exchangeVars>>
    PROVE  RightAnswer' /\ MalformedHasReason' /\ ReadsWhatWasSet' /\ Underway' /\ Quiet'
<1>1. UNCHANGED <<request, pieces, taken, answer>>
  BY DEF exchangeVars
<1>2. TellsRight(o, kind)'
  BY DEF TellsRight
<1>3. HasReason(o, kind)'
  <2> SUFFICES ASSUME kind = "malformed" PROVE HasReason(o, kind)'
    BY DEF HasReason
  <2>1. \/ \E i \in DOMAIN pieces : pieces[i].kind = "junk" /\ BytesUpTo(i - 1) < taken
        \/ \A n \in 0..Len(pieces) : BytesUpTo(n) # taken
    BY BrokenOff
  <2> QED
    BY <1>1, <2>1 DEF HasReason, BytesUpTo
<1>4. ReadsBack(o, kind)'
  <2> SUFFICES ASSUME Telling(o)' = {1}, pieces'[1].kind = "get", ReadWhole(1)' PROVE FALSE
    BY DEF ReadsBack
  <2>1. 1 \in Telling(o) /\ pieces[1].kind = "get" /\ ReadWhole(1)
    BY <1>1 DEF Telling, Asked, ReadWhole, BytesUpTo
  <2> QED
    BY <2>1, NothingTold
<1> QED
  BY <1>2, <1>3, <1>4, EndKeeps

-----------------------------------------------------------------------------
(* Reading *)

\* A chunk that makes the parser fail, or completes more frames than are looked at.
LEMMA ChunkFails ==
    ASSUME TypeOK, Control, Underway, Asking, NEW o \in Ops, stage[o] = "responding",
           NEW n \in Reach(pieces, examined)..Len(Flow(pieces)), taken' = n,
           UNCHANGED <<request, pieces>>, Finish(o, "malformed"),
           \/ FailsOnJunk(pieces, n)
           \/ \E j \in 0..Len(pieces) : j > MaxFrames /\ Reach(pieces, j) <= n
    PROVE  RightAnswer' /\ MalformedHasReason' /\ ReadsWhatWasSet' /\ Underway' /\ Quiet'
<1>1. /\ Described(pieces) /\ Len(pieces) \in Nat /\ DOMAIN pieces = 1..Len(pieces)
      /\ \A i : BytesUpTo(i)' = Reach(pieces, i)
  <2>1. Described(pieces)
    BY PiecesDescribed DEF TypeOK
  <2>2. \A i : BytesUpTo(i) = Reach(pieces, i)
    BY <2>1, StreamIsFlow
  <2>3. \A i : BytesUpTo(i)' = BytesUpTo(i)
    BY DEF BytesUpTo
  <2> QED
    BY <2>1, <2>2, <2>3 DEF Described
<1>2. CASE FailsOnJunk(pieces, n)
  <2>1. PICK i \in DOMAIN pieces : pieces[i].kind = "junk" /\ Reach(pieces, i - 1) < n
    BY <1>2 DEF FailsOnJunk
  <2>2. HasReason(o, "malformed")'
    BY <1>1, <2>1 DEF HasReason
  <2>3. ReadsBack(o, "malformed")'
    BY <1>1, <2>1 DEF ReadsBack
  <2> QED
    BY <2>2, <2>3, EndKeeps DEF TellsRight
<1>3. CASE \E j \in 0..Len(pieces) : j > MaxFrames /\ Reach(pieces, j) <= n
  <2>1. PICK j \in 0..Len(pieces) : j > MaxFrames /\ Reach(pieces, j) <= n
    BY <1>3
  <2>2. j \in DOMAIN pieces /\ j > 1 /\ MaxFrames' = MaxFrames
    BY <1>1, <2>1, ClientAssumption
  <2>3. HasReason(o, "malformed")'
    BY <1>1, <2>1, <2>2 DEF HasReason, ReadWhole
  <2>4. ReadsBack(o, "malformed")'
    BY <1>1, <2>1, <2>2 DEF ReadsBack
  <2> QED
    BY <2>3, <2>4, EndKeeps DEF TellsRight
<1> QED
  BY <1>2, <1>3

\* A chunk that completes the frame the operation waits for.
LEMMA ChunkDecides ==
    ASSUME TypeOK, Control, Underway, Asking, NEW o \in Ops, stage[o] = "responding",
           NEW n \in Reach(pieces, examined)..Len(Flow(pieces)), taken' = n,
           UNCHANGED <<request, pieces>>,
           NEW j \in 1..Len(pieces), Reach(pieces, j) <= n, j <= MaxFrames,
           pieces[j] \in Frame, Decides(request[o], pieces[j]),
           Telling(o) # {}, Min(Telling(o)) = j,
           NEW kind, kind = Verdict(request[o], pieces[j]), Finish(o, kind),
           pieces[j].kind = "get" => answer' = Decoded(request[o], pieces[j].value)
    PROVE  RightAnswer' /\ MalformedHasReason' /\ ReadsWhatWasSet' /\ Underway' /\ Quiet'
<1>1. /\ Described(pieces) /\ Len(pieces) \in Nat /\ DOMAIN pieces = 1..Len(pieces)
      /\ request[o] \in Requests
  BY PiecesDescribed DEF TypeOK, Asking, Described
<1>2. Telling(o)' = Telling(o) /\ Min(Telling(o)') = j /\ Telling(o)' # {}
  <2>1. Telling(o)' = Telling(o)
    BY DEF Telling, Asked
  <2> QED
    BY <2>1
<1>3. ReadWhole(j)'
  <2>1. BytesUpTo(j) = Reach(pieces, j)
    BY <1>1, StreamIsFlow
  <2>2. BytesUpTo(j)' = BytesUpTo(j)
    BY DEF BytesUpTo
  <2> QED
    BY <2>1, <2>2 DEF ReadWhole
<1>4. /\ kind = "answered" => pieces[j].kind = "get"
      /\ kind \in {"accepted", "rejected"} =>
           /\ pieces[j].kind = "status" /\ request[o] = "set"
           /\ kind = "accepted" <=> pieces[j].status = SET_OK_STATUS
      /\ kind = "malformed" => Unfit(o, pieces[j])
  BY <1>1, VerdictTells
<1>5. TellsRight(o, kind)'
  BY <1>2, <1>3, <1>4 DEF TellsRight
<1>6. HasReason(o, kind)'
  <2>1. Unfit(o, pieces[j]) => Unfit(o, pieces[j])'
    BY DEF Unfit
  <2> QED
    BY <1>2, <1>3, <1>4, <2>1 DEF HasReason
<1>7. ReadsBack(o, kind)'
  <2> SUFFICES ASSUME Len(pieces) = 1, pieces[1].kind = "get"
               PROVE  CASE request[o] = "get_source" ->
                             \A s \in SourceStatus : EncodeSource(s) = pieces[1].value => answer' = s
                        [] request[o] = "get_volume" ->
                             \A s \in VolumeStatus : EncodeVolume(s) = pieces[1].value => answer' = s
    BY DEF ReadsBack
  <2>1. j = 1
    OBVIOUS
  <2>2. answer' = Decoded(request[o], pieces[1].value)
    BY <2>1
  <2>3. request[o] \in {"get_source", "get_volume"}
    BY <1>1, <2>1, ClientAssumption DEF Decides, RequestKinds
  <2>4. CASE request[o] = "get_source"
    BY <2>2, <2>4, SourceCodec DEF Decoded
  <2>5. CASE request[o] = "get_volume"
    BY <2>2, <2>5, VolumeCodec DEF Decoded
  <2> QED
    BY <2>3, <2>4, <2>5
<1> QED
  BY <1>5, <1>6, <1>7, EndKeeps

\* A chunk after which the operation reads on.
LEMMA ChunkPassed ==
    ASSUME TypeOK, Control, Underway, Quiet, RightAnswer, MalformedHasReason, ReadsWhatWasSet,
           NEW o \in Ops, stage[o] = "responding",
           NEW n \in Reach(pieces, examined)..Len(Flow(pieces)), taken' = n,
           NEW j \in 0..Len(pieces), j <= MaxFrames, examined' = j,
           UNCHANGED <<request, pieces, stage, result, answer>>,
           Through(pieces, j, n), buffer' = Window(pieces, j, n),
           \A i \in 1..j : pieces[i].kind # "junk" /\ ~Decides(request[o], pieces[i])
    PROVE  RightAnswer' /\ MalformedHasReason' /\ ReadsWhatWasSet' /\ Underway' /\ Quiet'
<1>1. \A p \in Ops : p # o => stage[p] \notin {"responding", "closing"}
  BY OthersAway DEF OnLine
<1>2. RightAnswer'
  BY <1>1 DEF RightAnswer
<1>3. MalformedHasReason'
  BY <1>1 DEF MalformedHasReason
<1>4. ReadsWhatWasSet'
  BY <1>1 DEF ReadsWhatWasSet
<1>5. Quiet'
  BY DEF Quiet, Busy
<1>6. n \in Reach(pieces, j)..Len(Flow(pieces))
  <2>1. Described(pieces)
    BY PiecesDescribed DEF TypeOK
  <2>2. Reach(pieces, j) \in Nat /\ Reach(pieces, examined) \in Nat /\ Len(Flow(pieces)) \in Nat
    BY <2>1, Layout DEF Underway
  <2> QED
    BY <2>2 DEF Through
<1>7. Underway'
  <2> SUFFICES ASSUME NEW p \in Ops, stage'[p] = "responding"
               PROVE  /\ j \in 0..Len(pieces) /\ j <= MaxFrames
                      /\ n \in Reach(pieces, j)..Len(Flow(pieces))
                      /\ Through(pieces, j, n)
                      /\ buffer' = Window(pieces, j, n)
                      /\ \A i \in 1..j : pieces[i].kind # "junk" /\ ~Decides(request[p], pieces[i])
    BY DEF Underway, Reach, UpTo, Flow, Through, Window
  <2>1. p = o
    BY <1>1
  <2> QED
    BY <1>6, <2>1
<1> QED
  BY <1>2, <1>3, <1>4, <1>5, <1>7

\* Reading keeps what the three invariants about the end of an exchange need.
LEMMA ReadKeeps ==
    ASSUME TypeOK, Control, LittleBuffered, Underway, Asking, Quiet,
           RightAnswer, MalformedHasReason, ReadsWhatWasSet, NEW o \in Ops, Read(o)
    PROVE  /\ RightAnswer' /\ MalformedHasReason' /\ ReadsWhatWasSet' /\ Underway' /\ Quiet'
           /\ LittleBuffered' /\ buffer' \in Seq(Byte) /\ taken' \in Nat /\ examined' \in Nat
           /\ answer' \in SourceStatus \cup VolumeStatus \cup {None, Undecodable}
<1>1. stage[o] = "responding" /\ UNCHANGED <<request, lock, closer, received, pieces>>
  BY DEF Read
<1>2. PICK size \in 1..Min({ReadSize, Len(Stream) - taken}) :
        LET fed    == Feed(buffer, SubSeq(Stream, taken + 1, taken + size))
            deciding == {i \in DOMAIN fed.frames : Decides(request[o], fed.frames[i])}
            seen   == IF deciding = {} THEN Len(fed.frames) ELSE Min(deciding)
        IN  /\ taken' = taken + size
            /\ buffer' = fed.rest
            /\ examined' = examined + seen
            /\ \/ /\ fed.failed \/ TooMany(examined + seen)
                  /\ Finish(o, "malformed")
                  /\ UNCHANGED answer
               \/ /\ ~fed.failed /\ ~TooMany(examined + seen) /\ deciding # {}
                  /\ Finish(o, Verdict(request[o], fed.frames[seen]))
                  /\ answer' = IF fed.frames[seen].kind = "get"
                               THEN Decoded(request[o], fed.frames[seen].value) ELSE None
               \/ /\ ~fed.failed /\ ~TooMany(examined + seen) /\ deciding = {}
                  /\ UNCHANGED <<stage, result, line, answer>>
  BY DEF Read
<1> DEFINE n == taken + size
           fed == Parse[Window(pieces, examined, n)]
           deciding == {i \in DOMAIN fed.frames : Decides(request[o], fed.frames[i])}
           seen == IF deciding = {} THEN Len(fed.frames) ELSE Min(deciding)
<1>3. /\ n \in Reach(pieces, examined)..Len(Flow(pieces))
      /\ Feed(buffer, SubSeq(Stream, taken + 1, taken + size)) = fed
  BY <1>1, FedWithChunk
<1>4. /\ taken' = n /\ buffer' = fed.rest /\ examined' = examined + seen
      /\ \/ /\ fed.failed \/ TooMany(examined + seen)
            /\ Finish(o, "malformed")
            /\ UNCHANGED answer
         \/ /\ ~fed.failed /\ ~TooMany(examined + seen) /\ deciding # {}
            /\ Finish(o, Verdict(request[o], fed.frames[seen]))
            /\ answer' = IF fed.frames[seen].kind = "get"
                         THEN Decoded(request[o], fed.frames[seen].value) ELSE None
         \/ /\ ~fed.failed /\ ~TooMany(examined + seen) /\ deciding = {}
            /\ UNCHANGED <<stage, result, line, answer>>
  <2> HIDE DEF fed
  <2> QED
    BY <1>2, <1>3
<1>5. /\ Described(pieces) /\ Len(pieces) \in Nat /\ examined \in 0..Len(pieces)
      /\ n \in Nat /\ Window(pieces, examined, n) \in Seq(Byte)
  <2>1. Described(pieces) /\ examined \in 0..Len(pieces)
    BY <1>1, PiecesDescribed DEF TypeOK, Underway
  <2>2. Window(pieces, examined, n) \in Seq(Byte)
    BY <1>3, <2>1, WindowBytes
  <2>3. Reach(pieces, examined) \in Nat /\ Len(Flow(pieces)) \in Nat
    BY <2>1, Layout
  <2> QED
    BY <1>3, <2>1, <2>2, <2>3, Layout
<1>6. fed \in Parsed /\ Len(fed.rest) < 5
  BY <1>5, ParseType
<1>11. /\ fed = Parse[Window(pieces, examined, n)]
       /\ \A i : i \in deciding <=> i \in DOMAIN fed.frames /\ Decides(request[o], fed.frames[i])
  OBVIOUS
<1> HIDE DEF n, fed
<1>7. /\ seen \in Nat /\ (deciding = {} => seen = Len(fed.frames))
      /\ deciding # {} => seen \in deciding /\ \A i \in deciding : seen <= i
  <2>1. fed.frames \in Seq(Frame)
    BY <1>6 DEF Parsed
  <2>2. deciding \subseteq Nat /\ Len(fed.frames) \in Nat
    BY <2>1
  <2> HIDE DEF deciding
  <2> QED
    BY <2>2, MinIsLeast
<1>8. /\ LittleBuffered' /\ buffer' \in Seq(Byte) /\ taken' \in Nat /\ examined' \in Nat
  <2>1. fed.rest \in Seq(Byte)
    BY <1>6 DEF Parsed
  <2>2. examined + seen \in Nat
    BY <1>5, <1>7
  <2> HIDE DEF seen
  <2> QED
    BY <1>4, <1>5, <1>6, <2>1, <2>2 DEF LittleBuffered
<1> HIDE DEF seen, deciding
<1>9. CASE fed.failed
  <2>1. FailsOnJunk(pieces, n)
    BY <1>3, <1>5, <1>9, ParseStream DEF fed
  <2>2. Finish(o, "malformed") /\ UNCHANGED answer
    BY <1>4, <1>9
  <2>3. RightAnswer' /\ MalformedHasReason' /\ ReadsWhatWasSet' /\ Underway' /\ Quiet'
    BY <1>1, <1>3, <1>4, <2>1, <2>2, ChunkFails
  <2> QED
    BY <1>8, <2>2, <2>3 DEF TypeOK
<1>10. CASE ~fed.failed
  <2>1. /\ examined + seen \in 0..Len(pieces) /\ Reach(pieces, examined + seen) <= n
        /\ deciding = {} =>
             /\ Through(pieces, examined + seen, n)
             /\ fed.rest = Window(pieces, examined + seen, n)
             /\ \A i \in 1..(examined + seen) :
                  pieces[i].kind # "junk" /\ ~Decides(request[o], pieces[i])
        /\ deciding # {} =>
             /\ seen >= 1 /\ fed.frames[seen] = pieces[examined + seen]
             /\ fed.frames[seen] \in Frame /\ Decides(request[o], fed.frames[seen])
             /\ Telling(o) # {} /\ Min(Telling(o)) = examined + seen
    <3>1. Looked(o, n, fed, deciding, seen)
      BY <1>3, <1>7, <1>11 DEF Looked
    <3> QED
      BY <1>1, <1>10, <3>1, PassedOrDecided
  <2> DEFINE j == examined + seen
  <2>2. j \in 0..Len(pieces) /\ (seen >= 1 => j \in 1..Len(pieces))
    BY <1>5, <1>7, <2>1
  <2> HIDE DEF j
  <2>3. CASE TooMany(j)
    <3>1. Finish(o, "malformed") /\ UNCHANGED answer
      BY <1>4, <2>3 DEF j
    <3>2. j > MaxFrames /\ Reach(pieces, j) <= n
      BY <2>1, <2>3 DEF TooMany, j
    <3>3. RightAnswer' /\ MalformedHasReason' /\ ReadsWhatWasSet' /\ Underway' /\ Quiet'
      BY <1>1, <1>3, <1>4, <2>2, <3>1, <3>2, ChunkFails
    <3> QED
      BY <1>8, <3>1, <3>3 DEF TypeOK
  <2>4. CASE ~TooMany(j) /\ deciding = {}
    <3>1. UNCHANGED <<stage, result, line, answer>>
      BY <1>4, <1>10, <2>4 DEF j
    <3>2. j <= MaxFrames
      BY <1>5, <2>2, <2>4, ClientAssumption DEF TooMany
    <3>3. /\ Through(pieces, j, n) /\ buffer' = Window(pieces, j, n) /\ examined' = j
          /\ \A i \in 1..j : pieces[i].kind # "junk" /\ ~Decides(request[o], pieces[i])
      BY <1>4, <2>1, <2>4 DEF j
    <3>4. RightAnswer' /\ MalformedHasReason' /\ ReadsWhatWasSet' /\ Underway' /\ Quiet'
      BY <1>1, <1>3, <1>4, <2>2, <3>1, <3>2, <3>3, ChunkPassed
    <3> QED
      BY <1>8, <3>1, <3>4 DEF TypeOK
  <2>5. CASE ~TooMany(j) /\ deciding # {}
    <3>1. /\ Finish(o, Verdict(request[o], fed.frames[seen]))
          /\ answer' = IF fed.frames[seen].kind = "get"
                       THEN Decoded(request[o], fed.frames[seen].value) ELSE None
      BY <1>4, <1>10, <2>5 DEF j
    <3>2. /\ j \in 1..Len(pieces) /\ fed.frames[seen] = pieces[j] /\ pieces[j] \in Frame
          /\ Decides(request[o], pieces[j]) /\ Reach(pieces, j) <= n
          /\ Telling(o) # {} /\ Min(Telling(o)) = j
      BY <2>1, <2>2, <2>5 DEF j
    <3>3. j <= MaxFrames
      BY <1>5, <2>2, <2>5, ClientAssumption DEF TooMany
    <3>4. PICK kind : kind = Verdict(request[o], pieces[j])
      OBVIOUS
    <3>5. Finish(o, kind)
      BY <3>1, <3>2, <3>4
    <3>6. pieces[j].kind = "get" => answer' = Decoded(request[o], pieces[j].value)
      BY <3>1, <3>2
    <3>7. RightAnswer' /\ MalformedHasReason' /\ ReadsWhatWasSet' /\ Underway' /\ Quiet'
      BY <1>1, <1>3, <1>4, <3>2, <3>3, <3>4, <3>5, <3>6, ChunkDecides
    <3>8. answer' \in SourceStatus \cup VolumeStatus \cup {None, Undecodable}
      <4>1. pieces[j].kind = "get" => pieces[j].value \in Byte
        BY <3>2 DEF Frame, GetFrame, SetStatusFrame
      <4> QED
        BY <3>1, <3>2, <4>1, DecodedType
    <3> QED
      BY <1>8, <3>7, <3>8
  <2> QED
    BY <2>3, <2>4, <2>5
<1> QED
  BY <1>9, <1>10

-----------------------------------------------------------------------------
(* Every step *)

\* Nothing is asked and nothing read at first.
LEMMA InitClient == Init => Client
<1> SUFFICES ASSUME Init PROVE Client
  OBVIOUS
<1>1. Control
  BY InitControl
<1>2. TypeOK
  BY DEF Init, TypeOK, Stages
<1>3. LittleBuffered /\ Asking
  BY DEF Init, LittleBuffered, Asking
<1>4. Told
  BY DEF Init, Told, RightAnswer, MalformedHasReason, ReadsWhatWasSet, Underway, Quiet
<1> QED
  BY <1>1, <1>2, <1>3, <1>4 DEF Client

\* A step that does not touch the exchange.
LEMMA Aside ==
    ASSUME Client, UNCHANGED exchangeVars,
           \A p \in Ops : stage'[p] \in {"responding", "closing"} =>
               stage'[p] = stage[p] /\ result'[p] = result[p] /\ request'[p] = request[p],
           \A p \in Ops : stage[p] \in Busy => stage'[p] \in Busy
    PROVE  Told' /\ ExchangeTypes'
<1>1. UNCHANGED <<pieces, taken, buffer, examined, answer>>
  BY DEF exchangeVars
<1>2. RightAnswer /\ MalformedHasReason /\ ReadsWhatWasSet /\ Underway /\ Quiet
  BY DEF Client, Told
<1>3. \A p \in Ops : stage'[p] \in {"responding", "closing"} =>
         Telling(p)' = Telling(p) /\ \A f : Unfit(p, f)' = Unfit(p, f)
  BY <1>1 DEF Telling, Asked, Unfit
<1>4. \A n : BytesUpTo(n)' = BytesUpTo(n) /\ ReadWhole(n)' = ReadWhole(n)
  BY <1>1 DEF BytesUpTo, ReadWhole
<1>5. RightAnswer'
  BY <1>1, <1>2, <1>3, <1>4 DEF RightAnswer
<1>6. MalformedHasReason'
  <2> SUFFICES ASSUME NEW p \in Ops, stage'[p] = "closing", result'[p].kind = "malformed"
               PROVE  HasReason(p, "malformed")'
    BY DEF MalformedHasReason, HasReason
  <2>1. HasReason(p, "malformed")
    BY <1>2 DEF MalformedHasReason, HasReason
  <2>2. Unfit(p, pieces[Min(Telling(p))]) => Unfit(p, pieces[Min(Telling(p))])'
    BY <1>1, <1>3 DEF Unfit
  <2> QED
    BY <1>1, <1>3, <1>4, <2>1, <2>2 DEF HasReason
<1>7. ReadsWhatWasSet'
  BY <1>1, <1>2, <1>3, <1>4 DEF ReadsWhatWasSet
<1>8. Underway'
  BY <1>1, <1>2 DEF Underway, Through, Window, Reach, UpTo, Flow
<1>9. Quiet'
  BY <1>1, <1>2 DEF Quiet
<1>10. ExchangeTypes'
  BY <1>1 DEF Client, TypeOK, LittleBuffered, ExchangeTypes
<1> QED
  BY <1>5, <1>6, <1>7, <1>8, <1>9, <1>10 DEF Told

\* An operation is over, and with it the exchange.
LEMMA Forgotten ==
    ASSUME Client, NEW o \in Ops, stage[o] \in OnLine, NEW s \in {"done", "cut"},
           stage' = [stage EXCEPT ![o] = s], Forget
    PROVE  Told' /\ ExchangeTypes'
<1>1. \A p \in Ops : stage'[p] \notin Busy
  BY OthersAway DEF Client, Control, ControlTypes, OnLine, Busy
<1>2. Told'
  BY <1>1 DEF Told, RightAnswer, MalformedHasReason, ReadsWhatWasSet, Underway, Quiet, Busy, Forget
<1>3. ExchangeTypes'
  BY DEF Forget, ExchangeTypes, LittleBuffered
<1> QED
  BY <1>2, <1>3

\* At the beginning of an exchange nothing has been read of its stream.
LEMMA Begun ==
    ASSUME Client, NEW o \in Ops, Connected(o)
    PROVE  Told' /\ ExchangeTypes'
<1>1. /\ \A p \in Ops : stage[p] \notin Busy
      /\ \A p \in Ops : stage'[p] \in Busy => p = o /\ stage'[p] = "responding"
  BY OthersAway DEF Client, Control, ControlTypes, OnLine, Busy, Connected
<1>2. taken' = 0 /\ buffer' = <<>> /\ examined' = 0 /\ answer' = None /\ pieces' \in Answers
  BY <1>1 DEF Client, Told, Quiet, Connected
<1>3. RightAnswer' /\ MalformedHasReason' /\ ReadsWhatWasSet' /\ Quiet'
  <2>1. stage'[o] = "responding"
    BY DEF Connected, Client, Control, ControlTypes
  <2> QED
    BY <1>1, <2>1 DEF RightAnswer, MalformedHasReason, ReadsWhatWasSet, Quiet, Busy
<1>4. PICK sent : sent = pieces'
  OBVIOUS
<1>5. Described(sent)
  BY <1>2, <1>4, ClientAssumption
<1>6. /\ Len(sent) \in Nat /\ Flow(sent) \in Seq(Byte) /\ Reach(sent, 0) = 0
      /\ Len(sent) > 0 => Reach(sent, 1) > 0
  <2>1. Len(sent) \in Nat /\ Flow(sent) \in Seq(Byte) /\ Reach(sent, 0) = 0
    BY <1>5, Layout
  <2>2. ASSUME Len(sent) > 0 PROVE Reach(sent, 1) > 0
    <3>1. 0 \in 0..(Len(sent) - 1)
      BY <2>1, <2>2
    <3>2. Reach(sent, 0) < Reach(sent, 0 + 1)
      BY <1>5, <3>1, Layout
    <3> QED
      BY <2>1, <3>2
  <2> QED
    BY <2>1, <2>2
<1>7. Through(sent, 0, 0) /\ Window(sent, 0, 0) = <<>> /\ 0 \in Reach(sent, 0)..Len(Flow(sent))
  <2>1. Window(sent, 0, 0) = <<>>
    BY <1>6, SubSeqEmpty DEF Window
  <2> QED
    BY <1>6, <2>1 DEF Through
<1>8. Underway'
  <2>1. /\ Through(sent, 0, 0) <=> Through(pieces, examined, taken)'
        /\ Window(sent, 0, 0) = Window(pieces, examined, taken)'
        /\ Reach(sent, 0) = Reach(pieces, examined)' /\ Flow(sent) = Flow(pieces)'
    BY <1>2, <1>4
  <2>2. 0 <= MaxFrames
    BY ClientAssumption
  <2>3. 0 \in 0..Len(sent) /\ \A i \in 1..0 : FALSE
    BY <1>6
  <2> QED
    BY <1>2, <1>4, <1>7, <2>1, <2>2, <2>3 DEF Underway
<1>9. ExchangeTypes'
  BY <1>2 DEF ExchangeTypes, LittleBuffered
<1> QED
  BY <1>3, <1>8, <1>9 DEF Told

\* The other operations stay as they are, and the one that moves asks what it did.
LEMMA AskingKept ==
    ASSUME Client, NEW o \in Ops, stage[o] # "idle", NEW s,
           stage' = [stage EXCEPT ![o] = s], UNCHANGED request
    PROVE  Asking'
BY DEF Client, Asking, Control, ControlTypes

\* A step of an operation keeps what is known of the stream.
LEMMA OperationTells ==
    ASSUME Client, NEW o \in Ops, Call(o) \/ Advance(o) \/ Speaker(o) \/ Cancel(o)
    PROVE  /\ Told' /\ ExchangeTypes' /\ Asking'
           /\ request' \in [Ops -> Requests \cup {None}] /\ line' \in {"free", "used", "closing"}
<1>1. /\ stage \in [Ops -> Stages] /\ result \in [Ops -> Result \cup {None}]
      /\ request \in [Ops -> Requests \cup {None}] /\ line \in {"free", "used", "closing"}
      /\ TypeOK /\ Control /\ LittleBuffered /\ Asking /\ Underway /\ Quiet
      /\ RightAnswer /\ MalformedHasReason /\ ReadsWhatWasSet
  BY DEF Client, Told, TypeOK
<1>2. CASE Call(o)
  <2>1. PICK r \in Requests : request' = [request EXCEPT ![o] = r]
    BY <1>2 DEF Call
  <2>2. stage[o] = "idle" /\ stage' = [stage EXCEPT ![o] = "waiting"] /\ UNCHANGED <<result, line, exchangeVars>>
    BY <1>2 DEF Call
  <2>3. Told' /\ ExchangeTypes'
    BY <1>1, <2>1, <2>2, Aside DEF Busy
  <2>4. Asking'
    BY <1>1, <2>1, <2>2 DEF Asking
  <2> QED
    BY <1>1, <2>1, <2>2, <2>3, <2>4
<1>3. CASE \/ BeginConnect(o) \/ RefuseClosed(o) \/ ConnectFails(o) \/ ConnectAbandoned(o)
           \/ CancelEarly(o)
  <2>1. PICK s \in {"connecting", "done", "cut"} :
          /\ stage[o] \in {"waiting", "connecting"} /\ stage' = [stage EXCEPT ![o] = s]
          /\ UNCHANGED <<request, exchangeVars>> /\ line' \in {line, "closing"}
          /\ \A p \in Ops : p # o => result'[p] = result[p]
    BY <1>1, <1>3 DEF BeginConnect, RefuseClosed, ConnectFails, ConnectAbandoned, CancelEarly
  <2>2. Told' /\ ExchangeTypes'
    BY <1>1, <2>1, Aside DEF Busy
  <2> QED
    BY <1>1, <2>1, <2>2, AskingKept
<1>4. CASE Connected(o)
  <2>1. Told' /\ ExchangeTypes'
    BY <1>4, Begun
  <2>2. stage[o] = "connecting" /\ stage' = [stage EXCEPT ![o] = "responding"] /\ UNCHANGED request /\ line' = "used"
    BY <1>4 DEF Connected
  <2> QED
    BY <1>1, <2>1, <2>2, AskingKept
<1>5. CASE Read(o)
  <2>1. /\ RightAnswer' /\ MalformedHasReason' /\ ReadsWhatWasSet' /\ Underway' /\ Quiet'
        /\ LittleBuffered' /\ buffer' \in Seq(Byte) /\ taken' \in Nat /\ examined' \in Nat
        /\ answer' \in SourceStatus \cup VolumeStatus \cup {None, Undecodable}
    BY <1>1, <1>5, ReadKeeps
  <2>2. stage[o] = "responding" /\ UNCHANGED <<request, pieces>>
    BY <1>5 DEF Read
  <2>3. UNCHANGED <<stage, line>> \/ (stage' = [stage EXCEPT ![o] = "closing"] /\ line' = "closing")
    BY <1>5, Reading DEF Finish
  <2>4. Told' /\ ExchangeTypes'
    BY <1>1, <2>1, <2>2 DEF Told, ExchangeTypes, TypeOK
  <2>5. Asking'
    BY <1>1, <2>2, <2>3, AskingKept DEF Asking
  <2> QED
    BY <1>1, <2>2, <2>3, <2>4, <2>5
<1>6. CASE EndOfStream(o) \/ Break(o) \/ ResponseTimesOut(o) \/ CancelExchange(o)
  <2>1. /\ stage[o] = "responding" /\ UNCHANGED <<request, exchangeVars>>
        /\ \E kind \in {"malformed", "lost", "timeout", "cancelled"} :
             Finish(o, kind) /\ (kind = "malformed" => buffer # <<>>)
    BY <1>6 DEF EndOfStream, Break, ResponseTimesOut, CancelExchange
  <2>2. PICK kind \in {"malformed", "lost", "timeout", "cancelled"} :
          Finish(o, kind) /\ (kind = "malformed" => buffer # <<>>)
    BY <2>1
  <2>3. RightAnswer' /\ MalformedHasReason' /\ ReadsWhatWasSet' /\ Underway' /\ Quiet'
    BY <1>1, <2>1, <2>2, EndWithoutReading
  <2>4. ExchangeTypes'
    BY <1>1, <2>1 DEF exchangeVars, ExchangeTypes, TypeOK, LittleBuffered
  <2>5. Asking' /\ line' = "closing"
    BY <2>1, <2>2, AskingKept DEF Finish
  <2> QED
    BY <1>1, <2>1, <2>3, <2>4, <2>5 DEF Told
<1>7. CASE WriterCloses(o)
  <2>1. /\ stage[o] = "closing" /\ stage' = [stage EXCEPT ![o] = "resting"]
        /\ UNCHANGED <<request, result, line, exchangeVars>>
    BY <1>7 DEF WriterCloses
  <2>2. Told' /\ ExchangeTypes'
    BY <1>1, <2>1, Aside DEF Busy
  <2> QED
    BY <1>1, <2>1, <2>2, AskingKept
<1>8. CASE ReconnectDelayEnds(o) \/ CancelCleanup(o)
  <2>1. PICK s \in {"done", "cut"} :
          /\ stage[o] \in {"closing", "resting"} /\ stage' = [stage EXCEPT ![o] = s]
          /\ UNCHANGED request /\ Forget /\ line' \in {line, "free"}
    BY <1>8 DEF ReconnectDelayEnds, CancelCleanup
  <2>2. Told' /\ ExchangeTypes'
    BY <2>1, Forgotten DEF OnLine
  <2> QED
    BY <1>1, <2>1, <2>2, AskingKept
<1> QED
  BY <1>2, <1>3, <1>4, <1>5, <1>6, <1>7, <1>8 DEF Advance, Speaker, Cancel

\* Every step keeps the invariant.
LEMMA ClientStep == Client /\ [Next]_vars => Client'
<1> SUFFICES ASSUME Client, [Next]_vars PROVE Client'
  OBVIOUS
<1>1. Control'
  BY ControlStep DEF Client
<1>2. /\ Told' /\ ExchangeTypes' /\ Asking'
      /\ request' \in [Ops -> Requests \cup {None}] /\ line' \in {"free", "used", "closing"}
  <2>1. CASE \E o \in Ops : Call(o) \/ Advance(o) \/ Speaker(o) \/ Cancel(o)
    BY <2>1, OperationTells
  <2>2. CASE LineRecovers \/ CallClose \/ Close \/ UNCHANGED vars
    <3>1. UNCHANGED <<stage, request, result, exchangeVars>> /\ line' \in {line, "free"}
      BY <2>2 DEF LineRecovers, CallClose, Close, vars
    <3>2. Told' /\ ExchangeTypes'
      BY <3>1, Aside
    <3> QED
      BY <3>1, <3>2 DEF Client, TypeOK, Asking
  <2> QED
    BY <2>1, <2>2 DEF Next
<1>3. TypeOK' /\ LittleBuffered'
  BY <1>1, <1>2 DEF TypeOK, ExchangeTypes, Control, ControlTypes
<1> QED
  BY <1>1, <1>2, <1>3 DEF Client

\* The invariant holds in every behaviour.
LEMMA ClientHolds == Spec => []Client
BY InitClient, ClientStep, PTL DEF Spec

-----------------------------------------------------------------------------
(* Theorems *)

\* Every variable keeps its type: what the decoders and the parser return is what
\* the code declares, for any streams and limits.
THEOREM ClientTyped == Spec => []TypeOK
BY ClientHolds, PTL DEF Client

\* However TCP cuts and joins what any speaker sends, an operation that returns
\* does so with the first frame that concerns it, and with what that frame says.
THEOREM AnswersRight == Spec => []RightAnswer
BY ClientHolds, PTL DEF Client, Told

\* No stream makes the client call an answer malformed without a reason in what was
\* read: junk, part of a frame, too many frames or an unfit answer.
THEOREM MalformedForAReason == Spec => []MalformedHasReason
BY ClientHolds, PTL DEF Client, Told

\* What the speaker was set to is what a GET reports, through the encoder, any way
\* TCP delivers the bytes, the parser and the decoder.
THEOREM SettingsReadBack == Spec => []ReadsWhatWasSet
BY ClientHolds, PTL DEF Client, Told

\* Between two chunks the parser keeps less than a frame, so the limit on its buffer
\* is never what ends an exchange (protocol.py, DEFAULT_BUFFER_LIMIT).
THEOREM BufferStaysSmall == Spec => []LittleBuffered
BY ClientHolds, PTL DEF Client
=============================================================================
