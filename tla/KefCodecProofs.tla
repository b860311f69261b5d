-------------------------- MODULE KefCodecProofs --------------------------
(***************************************************************************)
(* Theorems about KefRegisters, for every byte and every stream: decoding  *)
(* a register undoes encoding it, and the parser yields the same frames    *)
(* wherever a stream is cut.                                               *)
(***************************************************************************)
EXTENDS KefRegisters, SequenceTheorems, WellFoundedInduction, TLAPS

-----------------------------------------------------------------------------
(* Registers *)

\* The byte of a source, and what the decoder sees of it: the power bit and
\* the other bits.
LEMMA EncodedSource ==
    ASSUME NEW s \in SourceStatus
    PROVE  /\ EncodeSource(s) \in Byte /\ EncodeSource(s) # Anomaly
           /\ s.power_on = (EncodeSource(s) <= 128)
           /\ EncodeSource(s) % 128
              = SourceBase[s.source] + StandbyOffset(s.standby) + InverseBit(s.inverse)
<1>1. SourceBase[s.source] \in {2, 9, 10, 11}
  BY DEF SourceStatus, Source, SourceBase
<1>2. StandbyOffset(s.standby) \in {0, 16, 32}
  BY DEF StandbyOffset
<1>3. InverseBit(s.inverse) \in {0, 64}
  BY DEF InverseBit
<1>4. s.power_on \in BOOLEAN
  BY DEF SourceStatus
<1> DEFINE bits == SourceBase[s.source] + StandbyOffset(s.standby) + InverseBit(s.inverse)
<1>5. bits \in 2..107 /\ bits # 48
  BY <1>1, <1>2, <1>3
<1>6. EncodeSource(s) = bits + HighBit(~s.power_on)
  BY DEF EncodeSource
<1> HIDE DEF bits
<1>7. CASE s.power_on
  <2>1. EncodeSource(s) = bits
    BY <1>5, <1>6, <1>7 DEF HighBit
  <2>2. EncodeSource(s) <= 128 /\ bits % 128 = bits
    BY <1>5, <2>1
  <2>3. s.power_on = (EncodeSource(s) <= 128)
    BY <1>4, <1>7, <2>2, Zenon
  <2> QED
    BY <1>5, <2>1, <2>2, <2>3 DEF Byte, Anomaly, bits
<1>8. CASE ~s.power_on
  <2>1. EncodeSource(s) = bits + 128
    BY <1>5, <1>6, <1>8 DEF HighBit
  <2>2. ~(EncodeSource(s) <= 128) /\ (bits + 128) % 128 = bits
    BY <1>5, <2>1
  <2>3. s.power_on = (EncodeSource(s) <= 128)
    <3>1. s.power_on = FALSE
      BY <1>4, <1>8
    <3>2. (EncodeSource(s) <= 128) = FALSE
      BY <2>2
    <3> QED
      BY <3>1, <3>2, Zenon
  <2> QED
    BY <1>5, <2>1, <2>2, <2>3 DEF Byte, Anomaly, bits
<1> QED
  BY <1>4, <1>7, <1>8

\* No two states of the source register share the bits below the power bit.
LEMMA SourceBitsDistinct ==
    ASSUME NEW s \in SourceStatus, NEW t \in SourceStatus,
           NEW base \in ReportedBases(t.source),
           SourceBase[s.source] + StandbyOffset(s.standby) + InverseBit(s.inverse)
           = base + StandbyOffset(t.standby) + InverseBit(t.inverse)
    PROVE  s.source = t.source /\ s.standby = t.standby /\ s.inverse = t.inverse
<1>1. /\ s.source \in {"Wifi", "Bluetooth", "Aux", "Opt"}
      /\ t.source \in {"Wifi", "Bluetooth", "Aux", "Opt"}
      /\ s.standby \in Standby /\ t.standby \in Standby
      /\ s.inverse \in BOOLEAN /\ t.inverse \in BOOLEAN
  BY DEF SourceStatus, Source, SourceBase
<1>2. /\ SourceBase["Wifi"] = 2 /\ SourceBase["Bluetooth"] = 9
      /\ SourceBase["Aux"] = 10 /\ SourceBase["Opt"] = 11
  BY DEF SourceBase
<1>3. \/ t.source = "Wifi" /\ base = 2
      \/ t.source = "Bluetooth" /\ base \in {9, 15}
      \/ t.source = "Aux" /\ base = 10
      \/ t.source = "Opt" /\ base = 11
  BY <1>1, <1>2 DEF ReportedBases, PairedBase
<1>4. \/ s.source = "Wifi" /\ SourceBase[s.source] = 2
      \/ s.source = "Bluetooth" /\ SourceBase[s.source] = 9
      \/ s.source = "Aux" /\ SourceBase[s.source] = 10
      \/ s.source = "Opt" /\ SourceBase[s.source] = 11
  BY <1>1, <1>2
<1>5. NoStandby # 20 /\ NoStandby # 60
  BY RegisterAssumption
<1>6. /\ StandbyOffset(s.standby) \in {0, 16, 32} /\ StandbyOffset(t.standby) \in {0, 16, 32}
      /\ StandbyOffset(s.standby) = StandbyOffset(t.standby) => s.standby = t.standby
  BY <1>1, <1>5 DEF Standby, StandbyOffset
<1>7. /\ InverseBit(s.inverse) \in {0, 64} /\ InverseBit(t.inverse) \in {0, 64}
      /\ InverseBit(s.inverse) = InverseBit(t.inverse) => s.inverse = t.inverse
  BY <1>1 DEF InverseBit
<1> QED
  BY <1>3, <1>4, <1>6, <1>7

\* What the speaker's source register is set to is what a later query reports:
\* the input, the standby time, the orientation and the power, whichever they
\* are, and in spite of the other code for Bluetooth and of the byte that is
\* corrected.
THEOREM SourceCodec ==
    ASSUME NEW s \in SourceStatus
    PROVE  EncodeSource(s) \in Byte /\ DecodeSource(EncodeSource(s)) = s
<1> DEFINE byte == EncodeSource(s)
           Matches(t) == /\ t.power_on = (byte <= 128)
                         /\ \E base \in ReportedBases(t.source) :
                              byte % 128 = base + StandbyOffset(t.standby) + InverseBit(t.inverse)
           meant == {t \in SourceStatus : Matches(t)}
<1>1. Corrected(byte) = byte
  BY EncodedSource DEF Corrected
<1>2. s \in meant
  BY EncodedSource DEF ReportedBases
<1>3. ASSUME NEW t \in meant PROVE t = s
  <2>1. PICK base \in ReportedBases(t.source) :
            byte % 128 = base + StandbyOffset(t.standby) + InverseBit(t.inverse)
    BY <1>3
  <2>2. s.source = t.source /\ s.standby = t.standby /\ s.inverse = t.inverse
    BY <2>1, EncodedSource, SourceBitsDistinct
  <2>3. s.power_on = t.power_on
    BY EncodedSource
  <2> QED
    BY <2>2, <2>3 DEF SourceStatus
<1>4. DecodeSource(byte) = CHOOSE t \in meant : TRUE
  <2> HIDE DEF meant
  <2>1. meant # {}
    BY <1>2
  <2>2. DecodeSource(byte) = IF meant = {} THEN Undecodable ELSE CHOOSE t \in meant : TRUE
    BY <1>1 DEF DecodeSource, meant
  <2> QED
    BY <2>1, <2>2
<1> HIDE DEF meant
<1>5. (CHOOSE t \in meant : TRUE) \in meant
  BY <1>2
<1> QED
  BY <1>3, <1>4, <1>5, EncodedSource

\* What the volume register is set to, a level and whether it is muted, is what
\* a later query reports.
THEOREM VolumeCodec ==
    ASSUME NEW s \in VolumeStatus
    PROVE  EncodeVolume(s) \in Byte /\ DecodeVolume(EncodeVolume(s)) = s
BY DEF VolumeStatus, EncodeVolume, DecodeVolume, HighBit, Byte

-----------------------------------------------------------------------------
(* Induction, and sequences *)

\* A set of numbers that is not empty has a least one.
LEMMA Least ==
    ASSUME NEW S, S \subseteq Nat, S # {}
    PROVE  \E m \in S : \A n \in S : m <= n
<1>1. PICK m \in S : \A n \in S : ~(<<n, m>> \in OpToRel(<, Nat))
  BY NatLessThanWellFounded, WFMin
<1>2. \A n \in S : ~(n < m)
  BY <1>1 DEF OpToRel
<1> QED
  BY <1>2

\* What is true of a number whenever it is true of the smaller ones is true of all.
\* The property is a set here, which the provers can instantiate.
LEMMA Induction ==
    ASSUME NEW T,
           \A n \in Nat : (\A m \in Nat : m < n => m \in T) => n \in T
    PROVE  \A n \in Nat : n \in T
<1> SUFFICES ASSUME Nat \ T # {} PROVE FALSE
  OBVIOUS
<1>1. PICK m \in Nat \ T : \A n \in Nat \ T : m <= n
  BY Least
<1> QED
  BY <1>1

\* Two sequences one after the other, element by element.
LEMMA Concatenated ==
    ASSUME NEW S, NEW s \in Seq(S), NEW t \in Seq(S)
    PROVE  /\ s \o t \in Seq(S) /\ Len(s \o t) = Len(s) + Len(t)
           /\ \A j \in 1..(Len(s) + Len(t)) :
                  (s \o t)[j] = IF j <= Len(s) THEN s[j] ELSE t[j - Len(s)]
OBVIOUS

-----------------------------------------------------------------------------
(* Parse obeys its recursion *)

\* The body of Parse, for any function in the place of the recursive one.
ParseStep(parse, buffer) ==
    CASE buffer = <<>>       -> [frames |-> <<>>, rest |-> <<>>, failed |-> FALSE]
      [] buffer # <<>> /\ Malformed(buffer)
                             -> [frames |-> <<>>, rest |-> <<>>, failed |-> TRUE]
      [] buffer # <<>> /\ ~Malformed(buffer) /\ Incomplete(buffer)
                             -> [frames |-> <<>>, rest |-> buffer, failed |-> FALSE]
      [] OTHER               ->
             LET more == parse[SubSeq(buffer, FrameLength(buffer) + 1, Len(buffer))]
             IN  IF more.failed THEN more
                 ELSE [more EXCEPT !.frames = <<FirstFrame(buffer)>> \o @]

\* What is behind the first frame.
After(buffer) == SubSeq(buffer, FrameLength(buffer) + 1, Len(buffer))

\* A whole frame is at the front.
Whole(buffer) == buffer # <<>> /\ ~Malformed(buffer) /\ ~Incomplete(buffer)

\* What is behind a frame is shorter.
LEMMA AfterShorter ==
    ASSUME NEW b \in Seq(Byte), Whole(b)
    PROVE  /\ After(b) \in Seq(Byte) /\ FrameLength(b) \in {3, 5}
           /\ Len(After(b)) = Len(b) - FrameLength(b)
           /\ Len(b) >= FrameLength(b)
<1>1. FrameLength(b) \in {3, 5} /\ Len(b) >= FrameLength(b)
  BY DEF Whole, Incomplete, FrameLength
<1> QED
  BY <1>1 DEF After

\* Of the recursive function, the body reads what is behind the first frame only.
LEMMA StepDepends ==
    ASSUME NEW b \in Seq(Byte), NEW g, NEW h, Whole(b) => g[After(b)] = h[After(b)]
    PROVE  ParseStep(g, b) = ParseStep(h, b)
<1>1. CASE Whole(b)
  BY <1>1 DEF ParseStep, After
<1>2. CASE ~Whole(b)
  BY <1>2 DEF ParseStep, Whole
<1> QED
  BY <1>1, <1>2

\* g obeys the recursion for all buffers up to a length.
ParsesUpTo(g, n) == \A b \in Seq(Byte) : Len(b) <= n => g[b] = ParseStep(g, b)

\* Two functions that obey the recursion agree.
LEMMA ParsersAgree ==
    ASSUME NEW g, NEW h, NEW n \in Nat, ParsesUpTo(g, n), ParsesUpTo(h, n)
    PROVE  \A b \in Seq(Byte) : Len(b) <= n => g[b] = h[b]
<1> DEFINE T == {k \in Nat : \A b \in Seq(Byte) : Len(b) = k /\ k <= n => g[b] = h[b]}
<1>1. ASSUME NEW k \in Nat, \A m \in Nat : m < k => m \in T PROVE k \in T
  <2> SUFFICES ASSUME NEW b \in Seq(Byte), Len(b) = k, k <= n PROVE g[b] = h[b]
    OBVIOUS
  <2>1. Whole(b) => g[After(b)] = h[After(b)]
    BY <1>1, AfterShorter
  <2> QED
    BY <2>1, StepDepends DEF ParsesUpTo
<1>2. \A k \in Nat : k \in T
  <2> HIDE DEF T
  <2> QED
    BY <1>1, Induction
<1> QED
  BY <1>2

\* There is a function that obeys the recursion up to any length.
LEMMA ParserExists ==
    ASSUME NEW n \in Nat
    PROVE  \E g : ParsesUpTo(g, n)
<1> DEFINE T == {k \in Nat : \E g : ParsesUpTo(g, k)}
<1>1. ASSUME NEW k \in Nat, \A m \in Nat : m < k => m \in T PROVE k \in T
  <2>1. PICK g : k > 0 => ParsesUpTo(g, k - 1)
    BY <1>1
  <2> DEFINE h == [b \in Seq(Byte) |-> ParseStep(g, b)]
  <2>2. ASSUME NEW b \in Seq(Byte), Len(b) <= k PROVE h[b] = ParseStep(h, b)
    <3>1. Whole(b) => h[After(b)] = g[After(b)]
      BY <2>1, <2>2, AfterShorter DEF ParsesUpTo
    <3>2. h[b] = ParseStep(g, b)
      OBVIOUS
    <3> QED
      BY <3>1, <3>2, StepDepends
  <2>3. ParsesUpTo(h, k)
    BY <2>2 DEF ParsesUpTo
  <2> QED
    BY <2>3
<1>2. \A k \in Nat : k \in T
  <2> HIDE DEF T
  <2> QED
    BY <1>1, Induction
<1> QED
  BY <1>2

\* The loop of feed is well defined: Parse obeys its own recursion, for every buffer.
LEMMA ParseUnfolds == \A b \in Seq(Byte) : Parse[b] = ParseStep(Parse, b)
<1> DEFINE Upto(n) == CHOOSE g : ParsesUpTo(g, n)
           p == [b \in Seq(Byte) |-> Upto(Len(b))[b]]
<1>1. \A n \in Nat : ParsesUpTo(Upto(n), n)
  BY ParserExists
<1> HIDE DEF Upto
<1>2. ASSUME NEW b \in Seq(Byte) PROVE p[b] = ParseStep(p, b)
  <2>1. Upto(Len(b))[b] = ParseStep(Upto(Len(b)), b)
    BY <1>1 DEF ParsesUpTo
  <2>2. Whole(b) => Upto(Len(b))[After(b)] = p[After(b)]
    <3> SUFFICES ASSUME Whole(b) PROVE Upto(Len(b))[After(b)] = p[After(b)]
      OBVIOUS
    <3>1. /\ After(b) \in Seq(Byte) /\ Len(After(b)) \in Nat /\ Len(b) \in Nat
          /\ Len(After(b)) <= Len(b)
      BY AfterShorter
    <3>2. ParsesUpTo(Upto(Len(b)), Len(After(b)))
      BY <1>1, <3>1 DEF ParsesUpTo
    <3> QED
      BY <1>1, <3>1, <3>2, ParsersAgree
  <2> QED
    BY <2>1, <2>2, StepDepends
<1>3. p = [b \in Seq(Byte) |-> ParseStep(p, b)]
  BY <1>2
<1>4. Parse = CHOOSE g : g = [b \in Seq(Byte) |-> ParseStep(g, b)]
  BY DEF Parse, ParseStep
<1>5. Parse = [b \in Seq(Byte) |-> ParseStep(Parse, b)]
  <2> HIDE DEF p
  <2> QED
    BY <1>3, <1>4
<1> QED
  BY <1>5

-----------------------------------------------------------------------------
(* What the parser returns *)

\* A buffer that does not begin with a frame yields none: it is kept or refused.
LEMMA NotWhole ==
    ASSUME NEW b \in Seq(Byte), ~Whole(b)
    PROVE  Parse[b] = [frames |-> <<>>, rest |-> IF b = <<>> \/ Malformed(b) THEN <<>> ELSE b,
                       failed |-> b # <<>> /\ Malformed(b)]
<1>1. Parse[b] = ParseStep(Parse, b)
  BY ParseUnfolds
<1>2. CASE b = <<>>
  BY <1>1, <1>2 DEF ParseStep
<1>3. CASE b # <<>> /\ Malformed(b)
  BY <1>1, <1>3 DEF ParseStep
<1>4. CASE b # <<>> /\ ~Malformed(b) /\ Incomplete(b)
  BY <1>1, <1>4 DEF ParseStep
<1> QED
  BY <1>2, <1>3, <1>4 DEF Whole

\* A frame of either kind.
Frame == GetFrame \cup SetStatusFrame

\* What is taken from the front of a buffer is a frame.
LEMMA FirstIsFrame ==
    ASSUME NEW b \in Seq(Byte), Whole(b)
    PROVE  FirstFrame(b) \in Frame
<1>1. Len(b) >= 3 /\ (b[3] # FRAME_END => Len(b) >= 5)
  BY DEF Whole, Incomplete, FrameLength
<1>2. CASE b[3] = FRAME_END
  BY <1>1, <1>2 DEF FirstFrame, Frame, SetStatusFrame
<1>3. CASE b[3] # FRAME_END
  BY <1>1, <1>3 DEF FirstFrame, Frame, GetFrame
<1> QED
  BY <1>2, <1>3

\* What the parser may return.
Parsed == [frames : Seq(Frame), rest : Seq(Byte), failed : BOOLEAN]

\* Prepending a frame to what was parsed.
LEMMA Prepended ==
    ASSUME NEW more \in Parsed, NEW f \in Frame
    PROVE  /\ [more EXCEPT !.frames = <<f>> \o @] \in Parsed
           /\ [more EXCEPT !.frames = <<f>> \o @].frames = <<f>> \o more.frames
           /\ [more EXCEPT !.frames = <<f>> \o @].rest = more.rest
           /\ [more EXCEPT !.frames = <<f>> \o @].failed = more.failed
<1>1. <<f>> \o more.frames \in Seq(Frame)
  BY DEF Parsed
<1> QED
  BY <1>1 DEF Parsed

\* Whatever the bytes: the parser returns frames and bytes, and keeps less than one
\* frame (feed, protocol.py).
LEMMA ParseType ==
    \A b \in Seq(Byte) : Parse[b] \in Parsed /\ Len(Parse[b].rest) < 5
<1> DEFINE Good(b) == Parse[b] \in Parsed /\ Len(Parse[b].rest) < 5
           T == {n \in Nat : \A b \in Seq(Byte) : Len(b) = n => Good(b)}
<1>1. ASSUME NEW n \in Nat, \A m \in Nat : m < n => m \in T PROVE n \in T
  <2> SUFFICES ASSUME NEW b \in Seq(Byte), Len(b) = n PROVE Good(b)
    OBVIOUS
  <2>1. CASE Whole(b)
    <3>1. Good(After(b))
      BY <1>1, <2>1, AfterShorter
    <3>2. FirstFrame(b) \in Frame
      BY <2>1, FirstIsFrame
    <3>3. Parse[b] = IF Parse[After(b)].failed THEN Parse[After(b)]
                     ELSE [Parse[After(b)] EXCEPT !.frames = <<FirstFrame(b)>> \o @]
      BY <2>1, ParseUnfolds DEF ParseStep, Whole, After
    <3> QED
      BY <3>1, <3>2, <3>3, Prepended
  <2>2. CASE ~Whole(b)
    <3>1. ~(b = <<>> \/ Malformed(b)) => Len(b) < 5
      BY <2>2 DEF Whole, Incomplete, FrameLength
    <3> DEFINE rest == IF b = <<>> \/ Malformed(b) THEN <<>> ELSE b
               bad == b # <<>> /\ Malformed(b)
    <3>2. bad \in BOOLEAN
      OBVIOUS
    <3>3. rest \in Seq(Byte) /\ Len(rest) < 5
      BY <3>1
    <3>4. Parse[b] = [frames |-> <<>>, rest |-> rest, failed |-> bad]
      BY <2>2, NotWhole
    <3> HIDE DEF rest, bad
    <3>5. <<>> \in Seq(Frame)
      OBVIOUS
    <3>6. Parse[b] \in Parsed
      BY <3>2, <3>3, <3>4, <3>5 DEF Parsed
    <3>7. Parse[b].rest = rest
      BY <3>4
    <3> QED
      BY <3>3, <3>6, <3>7
  <2> QED
    BY <2>1, <2>2
<1>2. \A n \in Nat : n \in T
  <2> HIDE DEF T
  <2> QED
    BY <1>1, Induction
<1> QED
  BY <1>2

\* A frame at the front comes first, before what the rest yields.
LEMMA WholeFirst ==
    ASSUME NEW b \in Seq(Byte), Whole(b)
    PROVE  /\ Parse[b].failed = Parse[After(b)].failed
           /\ Parse[b].rest = Parse[After(b)].rest
           /\ ~Parse[b].failed => Parse[b].frames = <<FirstFrame(b)>> \o Parse[After(b)].frames
<1>1. FirstFrame(b) \in Frame
  BY FirstIsFrame
<1>2. Parse[After(b)] \in Parsed
  BY AfterShorter, ParseType
<1>3. Parse[b] = IF Parse[After(b)].failed THEN Parse[After(b)]
                 ELSE [Parse[After(b)] EXCEPT !.frames = <<FirstFrame(b)>> \o @]
  BY ParseUnfolds DEF ParseStep, Whole, After
<1> QED
  BY <1>1, <1>2, <1>3, Prepended

-----------------------------------------------------------------------------
(* Streams that are cut *)

\* What is behind a frame, byte by byte.
LEMMA AfterElement ==
    ASSUME NEW b \in Seq(Byte), Whole(b), NEW j \in 1..Len(After(b))
    PROVE  FrameLength(b) + j \in 1..Len(b) /\ After(b)[j] = b[FrameLength(b) + j]
<1> DEFINE k == FrameLength(b)
<1>1. k \in Nat /\ k >= 3 /\ k <= Len(b) /\ Len(After(b)) = Len(b) - k /\ Len(b) \in Nat
  BY AfterShorter
<1>2. After(b) = SubSeq(b, k + 1, Len(b))
  BY DEF After
<1> HIDE DEF k
<1>3. k + 1 \in Nat /\ k + j \in 1..Len(b) /\ (k + 1) + j - 1 = k + j
  BY <1>1
<1>4. SubSeq(b, k + 1, Len(b))[j] = b[k + j]
  BY <1>1, <1>2, <1>3
<1> QED
  BY <1>2, <1>3, <1>4 DEF k

\* More bytes do not change what the bytes before them begin with.
LEMMA MoreBytes ==
    ASSUME NEW s \in Seq(Byte), NEW t \in Seq(Byte), s # <<>>
    PROVE  /\ s \o t \in Seq(Byte) /\ s \o t # <<>>
           /\ Malformed(s) => Malformed(s \o t)
           /\ Whole(s) => /\ Whole(s \o t) /\ FirstFrame(s \o t) = FirstFrame(s)
                          /\ After(s \o t) = After(s) \o t
<1> DEFINE b == s \o t
<1>1. /\ b \in Seq(Byte) /\ Len(b) = Len(s) + Len(t) /\ Len(s) \in Nat /\ Len(t) \in Nat /\ Len(s) >= 1
      /\ \A j \in 1..Len(s) : b[j] = s[j]
      /\ \A j \in 1..Len(t) : b[Len(s) + j] = t[j]
  OBVIOUS
<1> HIDE DEF b
<1>2. b # <<>> /\ (Malformed(s) => Malformed(b))
  BY <1>1 DEF Malformed
<1>3. ASSUME Whole(s) PROVE Whole(b) /\ FirstFrame(b) = FirstFrame(s) /\ After(b) = After(s) \o t
  <2>1. /\ FrameLength(s) \in {3, 5} /\ Len(s) >= FrameLength(s) /\ Len(s) >= 3
        /\ After(s) \in Seq(Byte) /\ Len(After(s)) = Len(s) - FrameLength(s)
    BY <1>3, AfterShorter
  <2>2. b[1] = s[1] /\ b[2] = s[2] /\ b[3] = s[3] /\ FrameLength(b) = FrameLength(s)
    BY <1>1, <2>1 DEF FrameLength
  <2>3. Whole(b)
    BY <1>1, <1>2, <1>3, <2>1, <2>2 DEF Whole, Malformed, Incomplete
  <2>4. FirstFrame(b) = FirstFrame(s)
    <3>1. CASE s[3] = FRAME_END
      BY <2>2, <3>1 DEF FirstFrame
    <3>2. CASE s[3] # FRAME_END
      <4>1. Len(s) >= 5
        BY <2>1, <3>2 DEF FrameLength
      <4>2. b[4] = s[4] /\ b[5] = s[5]
        BY <1>1, <4>1
      <4> QED
        BY <2>2, <3>2, <4>2 DEF FirstFrame
    <3> QED
      BY <3>1, <3>2
  <2>5. After(b) = After(s) \o t
    <3>1. After(b) \in Seq(Byte) /\ Len(After(b)) = Len(b) - FrameLength(s)
      BY <1>1, <2>2, <2>3, AfterShorter
    <3>2. /\ After(s) \o t \in Seq(Byte) /\ Len(After(s) \o t) = Len(After(s)) + Len(t)
          /\ \A j \in 1..(Len(After(s)) + Len(t)) :
                (After(s) \o t)[j] = IF j <= Len(After(s)) THEN After(s)[j] ELSE t[j - Len(After(s))]
      BY <2>1, Concatenated
    <3>3. Len(After(b)) = Len(After(s)) + Len(t)
      BY <1>1, <2>1, <3>1
    <3>4. ASSUME NEW j \in 1..Len(After(b)) PROVE After(b)[j] = (After(s) \o t)[j]
      <4> DEFINE k == FrameLength(s)
      <4>1. k \in {3, 5} /\ k + j \in 1..Len(b) /\ After(b)[j] = b[k + j]
        <5>1. k + j \in 1..Len(b) /\ After(b)[j] = b[k + j]
          BY <1>1, <2>2, <2>3, AfterElement
        <5> QED
          BY <2>1, <5>1
      <4>2. CASE j <= Len(After(s))
        <5>1. k + j \in 1..Len(s) /\ After(s)[j] = s[k + j]
          <6>1. j \in 1..Len(After(s))
            BY <2>1, <4>1, <4>2
          <6> QED
            BY <1>3, <6>1, AfterElement
        <5> QED
          BY <1>1, <3>2, <3>3, <4>1, <4>2, <5>1
      <4>3. CASE ~(j <= Len(After(s)))
        <5> DEFINE i == j - Len(After(s))
        <5>1. i \in 1..Len(t) /\ Len(s) + i = k + j
          BY <1>1, <2>1, <3>3, <4>3
        <5>2. b[k + j] = t[i]
          BY <1>1, <5>1
        <5> QED
          BY <3>2, <3>3, <4>1, <4>3, <5>2
      <4> QED
        BY <4>2, <4>3
    <3> QED
      BY <3>1, <3>2, <3>3, <3>4, SeqEqual
  <2> QED
    BY <2>3, <2>4, <2>5
<1> QED
  BY <1>1, <1>2, <1>3 DEF b

\* The parser, given a stream in two parts, returns what it would have returned for
\* the whole.
InTwoParts(s, t) ==
    IF Parse[s].failed THEN Parse[s \o t].failed
    ELSE LET second == Parse[Parse[s].rest \o t] IN
         /\ Parse[s \o t].failed <=> second.failed
         /\ ~second.failed => /\ Parse[s \o t].frames = Parse[s].frames \o second.frames
                              /\ Parse[s \o t].rest = second.rest

\* TCP chunk boundaries do not change framing (test_protocol.py:78), for every
\* stream and every place to cut it: fed in two parts, the parser yields the frames
\* of the whole, and keeps the same rest. Where it fails on the first part, it fails on
\* the whole; what a failure on the second part loses is no more than that.
THEOREM ChunksJoin == \A s, t \in Seq(Byte) : InTwoParts(s, t)
<1> SUFFICES ASSUME NEW t \in Seq(Byte) PROVE \A s \in Seq(Byte) : InTwoParts(s, t)
  OBVIOUS
<1> DEFINE T == {n \in Nat : \A s \in Seq(Byte) : Len(s) = n => InTwoParts(s, t)}
<1>1. ASSUME NEW n \in Nat, \A m \in Nat : m < n => m \in T PROVE n \in T
  <2> SUFFICES ASSUME NEW s \in Seq(Byte), Len(s) = n PROVE InTwoParts(s, t)
    OBVIOUS
  <2>1. CASE ~Whole(s)
    <3>1. /\ Parse[s].failed <=> s # <<>> /\ Malformed(s)
          /\ ~(s # <<>> /\ Malformed(s)) => Parse[s].rest = s /\ Parse[s].frames = <<>>
      <4> DEFINE bad == s # <<>> /\ Malformed(s)
      <4>1. bad \in BOOLEAN
        OBVIOUS
      <4>2. Parse[s] = [frames |-> <<>>, rest |-> IF s = <<>> \/ Malformed(s) THEN <<>> ELSE s,
                        failed |-> bad]
        BY <2>1, NotWhole
      <4> HIDE DEF bad
      <4>3. Parse[s].failed = bad
        BY <4>2
      <4>4. ~(s # <<>> /\ Malformed(s)) => Parse[s].rest = s /\ Parse[s].frames = <<>>
        BY <4>2
      <4>5. Parse[s].failed <=> bad
        BY <4>1, <4>3
      <4> QED
        BY <4>4, <4>5 DEF bad
    <3>2. CASE s # <<>> /\ Malformed(s)
      <4>1. s \o t \in Seq(Byte) /\ s \o t # <<>> /\ Malformed(s \o t)
        BY <3>2, MoreBytes
      <4>2. Parse[s \o t].failed
        <5>1. ParseStep(Parse, s \o t) = [frames |-> <<>>, rest |-> <<>>, failed |-> TRUE]
          BY <4>1 DEF ParseStep
        <5>2. Parse[s \o t] = [frames |-> <<>>, rest |-> <<>>, failed |-> TRUE]
          BY <4>1, <5>1, ParseUnfolds
        <5> QED
          BY <5>2
      <4> QED
        BY <3>1, <3>2, <4>2 DEF InTwoParts
    <3>3. CASE ~(s # <<>> /\ Malformed(s))
      <4>1. s \o t \in Seq(Byte)
        OBVIOUS
      <4>2. Parse[s \o t].frames \in Seq(Frame)
        BY <4>1, ParseType DEF Parsed
      <4>3. Parse[s \o t].frames = <<>> \o Parse[s \o t].frames
        BY <4>2
      <4> QED
        BY <3>1, <3>3, <4>3 DEF InTwoParts
    <3> QED
      BY <3>2, <3>3
  <2>2. CASE Whole(s)
    <3> DEFINE rest == After(s)
    <3>1. rest \in Seq(Byte) /\ Len(rest) < n
      BY <2>2, AfterShorter
    <3>2. InTwoParts(rest, t)
      <4>1. Len(rest) \in T
        BY <1>1, <3>1
      <4> QED
        BY <3>1, <4>1
    <3>3. /\ s \o t \in Seq(Byte) /\ Whole(s \o t) /\ FirstFrame(s \o t) = FirstFrame(s)
          /\ After(s \o t) = rest \o t
      BY <2>2, MoreBytes DEF Whole
    <3>4. /\ Parse[s].failed = Parse[rest].failed /\ Parse[s].rest = Parse[rest].rest
          /\ ~Parse[s].failed => Parse[s].frames = <<FirstFrame(s)>> \o Parse[rest].frames
      BY <2>2, WholeFirst
    <3>5. /\ Parse[s \o t].failed = Parse[rest \o t].failed
          /\ Parse[s \o t].rest = Parse[rest \o t].rest
          /\ ~Parse[s \o t].failed => Parse[s \o t].frames = <<FirstFrame(s)>> \o Parse[rest \o t].frames
      BY <3>3, WholeFirst
    <3>6. \A b \in Seq(Byte) : Parse[b].frames \in Seq(Frame) /\ Parse[b].rest \in Seq(Byte)
                               /\ Parse[b].failed \in BOOLEAN
      BY ParseType DEF Parsed
    <3>7. FirstFrame(s) \in Frame
      BY <2>2, FirstIsFrame
    <3> HIDE DEF rest
    <3>8. CASE Parse[rest].failed
      BY <3>2, <3>4, <3>5, <3>8 DEF InTwoParts
    <3>9. CASE ~Parse[rest].failed
      <4> DEFINE second == Parse[Parse[rest].rest \o t]
      <4>1. /\ Parse[rest \o t].failed <=> second.failed
            /\ ~second.failed => /\ Parse[rest \o t].frames = Parse[rest].frames \o second.frames
                                 /\ Parse[rest \o t].rest = second.rest
        BY <3>2, <3>9 DEF InTwoParts
      <4>2. Parse[rest].rest \o t \in Seq(Byte)
        BY <3>1, <3>6
      <4>3. second.frames \in Seq(Frame) /\ Parse[rest].frames \in Seq(Frame)
        BY <3>1, <3>6, <4>2
      <4>4. <<FirstFrame(s)>> \o (Parse[rest].frames \o second.frames)
            = (<<FirstFrame(s)>> \o Parse[rest].frames) \o second.frames
        <5>1. <<FirstFrame(s)>> \in Seq(Frame)
          BY <3>7
        <5> QED
          <6> DEFINE f == <<FirstFrame(s)>>
                     g == Parse[rest].frames
                     h == second.frames
          <6>1. f \in Seq(Frame) /\ g \in Seq(Frame) /\ h \in Seq(Frame)
            BY <4>3, <5>1
          <6> HIDE DEF f, g, h
          <6>2. (f \o g) \o h = f \o (g \o h)
            BY <6>1, ConcatAssociative
          <6> QED
            BY <6>2 DEF f, g, h
      <4>5. second = Parse[Parse[s].rest \o t]
        BY <3>4
      <4> HIDE DEF second
      <4>6. Parse[s \o t].failed <=> second.failed
        BY <3>5, <4>1
      <4>7. ~second.failed => Parse[s \o t].rest = second.rest
        BY <3>5, <4>1
      <4>8. ~second.failed => Parse[s \o t].frames = Parse[s].frames \o second.frames
        BY <3>4, <3>5, <3>9, <4>1, <4>4
      <4> QED
        BY <3>4, <3>9, <4>5, <4>6, <4>7, <4>8 DEF InTwoParts
    <3> QED
      BY <3>8, <3>9
  <2> QED
    BY <2>1, <2>2
<1>2. \A n \in Nat : n \in T
  <2> HIDE DEF T
  <2> QED
    BY <1>1, Induction
<1> QED
  BY <1>2

-----------------------------------------------------------------------------
(* Frames and their bytes *)

\* A frame has three bytes or five.
LEMMA FrameBytesType ==
    ASSUME NEW f \in Frame
    PROVE  FrameBytes(f) \in Seq(Byte) /\ Len(FrameBytes(f)) \in {3, 5}
<1>1. RESPONSE \in Byte /\ SET_MARKER \in Byte /\ FRAME_END \in Byte
  BY DEF RESPONSE, SET_MARKER, FRAME_END, Byte
<1>2. CASE f \in GetFrame
  <2>1. f.kind = "get" /\ f.register \in Byte /\ f.value \in Byte /\ f.trailer \in Byte
    BY <1>2 DEF GetFrame
  <2> QED
    BY <1>1, <2>1 DEF FrameBytes
<1>3. CASE f \in SetStatusFrame
  <2>1. f.kind = "status" /\ f.status \in Byte
    BY <1>3 DEF SetStatusFrame
  <2> QED
    BY <1>1, <2>1 DEF FrameBytes
<1> QED
  BY <1>2, <1>3 DEF Frame

\* Bytes that begin like a frame are the beginning of it, or it is their first frame.
LEMMA FramePrefix ==
    ASSUME NEW f \in Frame, NEW w \in Seq(Byte),
           \A j \in 1..Len(w) : j <= Len(FrameBytes(f)) => w[j] = FrameBytes(f)[j]
    PROVE  /\ Len(w) < Len(FrameBytes(f)) => Incomplete(w) /\ (w # <<>> => ~Malformed(w))
           /\ Len(w) >= Len(FrameBytes(f)) =>
                  Whole(w) /\ FrameLength(w) = Len(FrameBytes(f)) /\ FirstFrame(w) = f
<1> USE DEF RESPONSE, SET_MARKER, FRAME_END
<1>1. CASE f \in GetFrame
  <2>1. /\ f = [kind |-> "get", register |-> f.register, value |-> f.value, trailer |-> f.trailer]
        /\ f.kind = "get"
    BY <1>1 DEF GetFrame
  <2>2. /\ Len(FrameBytes(f)) = 5 /\ FrameBytes(f)[1] = RESPONSE /\ FrameBytes(f)[2] = f.register
        /\ FrameBytes(f)[3] = SET_MARKER /\ FrameBytes(f)[4] = f.value /\ FrameBytes(f)[5] = f.trailer
    BY <2>1 DEF FrameBytes
  <2>3. /\ Len(w) >= 1 => w[1] = RESPONSE
        /\ Len(w) >= 3 => w[3] = SET_MARKER
    BY <2>2
  <2>4. CASE Len(w) < 5
    <3>1. Incomplete(w)
      BY <2>3, <2>4 DEF Incomplete, FrameLength
    <3>2. w # <<>> => ~Malformed(w)
      BY <2>3 DEF Malformed
    <3> QED
      BY <2>2, <2>4, <3>1, <3>2
  <2>5. CASE Len(w) >= 5
    <3>1. FrameLength(w) = 5 /\ w[3] # FRAME_END
      BY <2>3, <2>5 DEF FrameLength
    <3>2. Whole(w)
      BY <2>3, <2>5, <3>1 DEF Whole, Malformed, Incomplete
    <3>3. w[2] = f.register /\ w[4] = f.value /\ w[5] = f.trailer
      BY <2>2, <2>5
    <3>4. FirstFrame(w) = f
      BY <2>1, <3>1, <3>3 DEF FirstFrame
    <3> QED
      BY <2>2, <2>5, <3>1, <3>2, <3>4
  <2> QED
    BY <2>4, <2>5
<1>2. CASE f \in SetStatusFrame
  <2>1. f = [kind |-> "status", status |-> f.status] /\ f.kind = "status"
    BY <1>2 DEF SetStatusFrame
  <2>2. /\ Len(FrameBytes(f)) = 3 /\ FrameBytes(f)[1] = RESPONSE /\ FrameBytes(f)[2] = f.status
        /\ FrameBytes(f)[3] = FRAME_END
    BY <2>1 DEF FrameBytes
  <2>3. /\ Len(w) >= 1 => w[1] = RESPONSE
        /\ Len(w) >= 3 => w[3] = FRAME_END
    BY <2>2
  <2>4. CASE Len(w) < 3
    <3>1. Incomplete(w)
      BY <2>4 DEF Incomplete
    <3>2. w # <<>> => ~Malformed(w)
      BY <2>3, <2>4 DEF Malformed
    <3> QED
      BY <2>2, <2>4, <3>1, <3>2
  <2>5. CASE Len(w) >= 3
    <3>1. FrameLength(w) = 3 /\ w[3] = FRAME_END
      BY <2>3, <2>5 DEF FrameLength
    <3>2. Whole(w)
      BY <2>3, <2>5, <3>1 DEF Whole, Malformed, Incomplete
    <3>3. w[2] = f.status
      BY <2>2, <2>5
    <3>4. FirstFrame(w) = f
      BY <2>1, <3>1, <3>3 DEF FirstFrame
    <3> QED
      BY <2>2, <2>5, <3>1, <3>2, <3>4
  <2> QED
    BY <2>4, <2>5
<1> QED
  BY <1>1, <1>2 DEF Frame

\* What begins like junk does not begin with a frame.
LEMMA JunkPrefix ==
    ASSUME NEW bytes \in Seq(Byte), bytes # <<>>, ~Whole(bytes),
           NEW w \in Seq(Byte), Len(w) <= Len(bytes), \A j \in 1..Len(w) : w[j] = bytes[j]
    PROVE  ~Whole(w)
<1>1. CASE Len(w) < 3
  BY <1>1 DEF Whole, Incomplete
<1>2. CASE Len(w) >= 3
  <2>1. w[1] = bytes[1] /\ w[3] = bytes[3]
    BY <1>2
  <2> QED
    BY <1>2, <2>1 DEF Whole, Malformed, Incomplete, FrameLength
<1> QED
  BY <1>1, <1>2

\* The first frame of a buffer and what is behind it are the buffer.
LEMMA FirstAndAfter ==
    ASSUME NEW b \in Seq(Byte), Whole(b)
    PROVE  FrameBytes(FirstFrame(b)) \o After(b) = b
<1>1. b[1] = RESPONSE /\ Len(b) >= 3 /\ Len(b) >= FrameLength(b) /\ (b[3] = SET_MARKER \/ b[3] = FRAME_END)
  <2>1. Len(b) >= 3 /\ Len(b) >= FrameLength(b)
    BY AfterShorter
  <2>2. ~Malformed(b)
    BY DEF Whole
  <2> QED
    BY <2>1, <2>2 DEF Malformed
<1> DEFINE head == FrameBytes(FirstFrame(b))
<1>2. head \in Seq(Byte) /\ Len(head) = FrameLength(b) /\ \A j \in 1..FrameLength(b) : head[j] = b[j]
  <2>1. CASE b[3] = FRAME_END
    <3>1. head = <<RESPONSE, b[2], FRAME_END>> /\ FrameLength(b) = 3
      BY <2>1 DEF FirstFrame, FrameBytes, FrameLength
    <3>2. FirstFrame(b) \in Frame
      BY FirstIsFrame
    <3>3. head \in Seq(Byte)
      BY <3>2, FrameBytesType
    <3> QED
      BY <1>1, <2>1, <3>1, <3>3
  <2>2. CASE b[3] # FRAME_END
    <3>1. head = <<RESPONSE, b[2], SET_MARKER, b[4], b[5]>> /\ FrameLength(b) = 5
      BY <2>2 DEF FirstFrame, FrameBytes, FrameLength
    <3>2. FirstFrame(b) \in Frame
      BY FirstIsFrame
    <3>3. head \in Seq(Byte)
      BY <3>2, FrameBytesType
    <3> QED
      BY <1>1, <2>2, <3>1, <3>3
  <2> QED
    BY <2>1, <2>2
<1> HIDE DEF head
<1>3. /\ After(b) \in Seq(Byte) /\ Len(After(b)) = Len(b) - FrameLength(b) /\ FrameLength(b) \in {3, 5}
  BY AfterShorter
<1>4. /\ head \o After(b) \in Seq(Byte) /\ Len(head \o After(b)) = Len(b)
      /\ \A j \in 1..Len(b) : (head \o After(b))[j] = IF j <= FrameLength(b) THEN head[j] ELSE After(b)[j - FrameLength(b)]
  <2>1. Len(head) + Len(After(b)) = Len(b)
    BY <1>2, <1>3
  <2> QED
    BY <1>2, <1>3, <2>1, Concatenated
<1>5. ASSUME NEW j \in 1..Len(b) PROVE (head \o After(b))[j] = b[j]
  <2>1. CASE j <= FrameLength(b)
    BY <1>2, <1>3, <1>4, <2>1
  <2>2. CASE ~(j <= FrameLength(b))
    <3> DEFINE i == j - FrameLength(b)
    <3>1. i \in 1..Len(After(b)) /\ FrameLength(b) + i = j
      BY <1>3, <2>2
    <3>2. After(b)[i] = b[FrameLength(b) + i]
      BY <3>1, AfterElement
    <3> QED
      BY <1>4, <2>2, <3>1, <3>2
  <2> QED
    BY <2>1, <2>2
<1>6. head \o After(b) = b
  BY <1>4, <1>5, SeqEqual
<1> QED
  BY <1>6 DEF head
=============================================================================
