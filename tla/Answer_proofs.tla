--------------------------- MODULE Answer_proofs ---------------------------
(***************************************************************************)
(* What comes back from the upstream: its frames, in the decoder, and its  *)
(* answers, in the web search loop behind the sessions of a client of the  *)
(* Responses endpoint.                                                     *)
(*                                                                         *)
(* EventDecoder, for streams of any number of frames, chunks cut anywhere, *)
(* frames and buffers of any size and any limit of errors.  The invariant  *)
(* has two parts.  OrderInv holds whatever is damaged: what is in the      *)
(* buffer is in the order in which it was sent, behind every frame handed  *)
(* on.  AlignedInv holds while the preludes are intact: the decoder is at  *)
(* the boundary behind some frame n, has handed on the good ones of the    *)
(* first n, and the errors it counts are of the last of them.              *)
(*                                                                         *)
(* Codex, for answers, tools, rounds and sessions of any number.  What it  *)
(* is built from (sequences filtered, folded, flattened and counted) comes *)
(* first, then what each function of the loop returns, then the invariant: *)
(* what is in the payload was paired, what was searched is in the          *)
(* presentation, the answer was composed of just these, and the calls      *)
(* among the client's items are the ones it was answered with.             *)
(***************************************************************************)
EXTENDS EventDecoder, Codex, SequenceTheorems, FiniteSetTheorems, WellFoundedInduction, TLAPS


Byte == [f : Nat, o : Nat]

LEMMA Sizes ==
    /\ FrameSize \in Nat /\ FrameSize > 1 /\ LengthSize \in Nat /\ LengthSize >= 1
    /\ PreludeSize \in Nat /\ LengthSize <= PreludeSize /\ PreludeSize < FrameSize
    /\ MinMessageSize \in Nat /\ MaxMessageSize \in Nat
    /\ MinMessageSize <= FrameSize /\ FrameSize <= MaxMessageSize
    /\ MaxErrors \in Nat /\ MaxErrors > 0 /\ MaxBufferSize \in Nat
  BY DecoderAssumption

LEMMA Quotient ==
    ASSUME NEW a \in Nat
    PROVE  /\ a \div FrameSize \in Nat /\ a % FrameSize \in 0 .. (FrameSize - 1)
           /\ a = FrameSize * (a \div FrameSize) + (a % FrameSize)
           /\ FrameSize * (a \div FrameSize) \in Nat
  <1> DEFINE d == FrameSize
  <1>1. d \in Nat /\ d > 0
    BY Sizes
  <1> HIDE DEF d
  <1>2. a \div d \in Nat /\ a % d \in 0 .. (d - 1) /\ a = d * (a \div d) + (a % d)
    BY <1>1
  <1>3. d * (a \div d) \in Nat
    BY <1>1, <1>2
  <1> QED
    BY <1>2, <1>3 DEF d

LEMMA Multiples ==
    ASSUME NEW p \in Nat, NEW q \in Nat, p < q
    PROVE  FrameSize * p + FrameSize <= FrameSize * q
           /\ FrameSize * p \in Nat /\ FrameSize * q \in Nat
  <1> DEFINE d == FrameSize
  <1>1. d \in Nat
    BY Sizes
  <1> HIDE DEF d
  <1>2. PICK k \in Nat : q = (p + 1) + k
    <2>1. q - (p + 1) \in Nat /\ q = (p + 1) + (q - (p + 1))
      OBVIOUS
    <2> QED
      BY <2>1
  <1>3. d * q = d * p + d + d * k /\ d * k \in Nat /\ d * p \in Nat /\ d * q \in Nat
    BY <1>1, <1>2
  <1> QED
    BY <1>1, <1>3 DEF d

(* The quotient is the only number between whose multiples a is. *)
LEMMA QuotientIs ==
    ASSUME NEW a \in Nat, NEW q \in Nat, FrameSize * q <= a, a < FrameSize * q + FrameSize
    PROVE  a \div FrameSize = q /\ a % FrameSize = a - FrameSize * q
  <1> DEFINE p == a \div FrameSize
             r == a % FrameSize
             fp == FrameSize * p
             fq == FrameSize * q
  <1>1. p \in Nat /\ r \in 0 .. (FrameSize - 1) /\ a = fp + r /\ fp \in Nat
    BY Quotient
  <1>2. FrameSize \in Nat /\ fq \in Nat
    BY Sizes
  <1>3. fq <= a /\ a < fq + FrameSize
    OBVIOUS
  <1>4. p < q => fp + FrameSize <= fq
    BY <1>1, Multiples
  <1>5. q < p => fq + FrameSize <= fp
    BY <1>1, Multiples
  <1>6. p = q
    <2> HIDE DEF p, r, fp, fq
    <2> QED
      BY <1>1, <1>2, <1>3, <1>4, <1>5
  <1> QED
    BY <1>1, <1>2, <1>6

LEMMA QuotientGrows ==
    ASSUME NEW a \in Nat, NEW b \in Nat, a <= b
    PROVE  a \div FrameSize <= b \div FrameSize
  <1> DEFINE p == a \div FrameSize
             q == b \div FrameSize
             fp == FrameSize * p
             fq == FrameSize * q
             rp == a % FrameSize
             rq == b % FrameSize
  <1>1. /\ p \in Nat /\ rp \in 0 .. (FrameSize - 1) /\ a = fp + rp /\ fp \in Nat
        /\ q \in Nat /\ rq \in 0 .. (FrameSize - 1) /\ b = fq + rq /\ fq \in Nat
    BY Quotient
  <1>2. q < p => fq + FrameSize <= fp
    BY <1>1, Multiples
  <1>3. FrameSize \in Nat
    BY Sizes
  <1>4. p <= q
    <2> HIDE DEF p, q, fp, fq, rp, rq
    <2> QED
      BY <1>1, <1>2, <1>3
  <1> QED
    BY <1>4

(* The byte i of the frame n + 1. *)
LEMMA ByteOf ==
    ASSUME NEW n \in Nat, NEW i \in 1 .. FrameSize
    PROVE  ByteAt(FrameSize * n + i) = [f |-> n + 1, o |-> i]
  <1> DEFINE fn == FrameSize * n
             a == fn + i - 1
  <1>1. FrameSize \in Nat /\ fn \in Nat
    BY Sizes
  <1>2. a \in Nat /\ fn <= a /\ a < fn + FrameSize /\ a - fn + 1 = i
    <2> HIDE DEF fn
    <2> QED
      BY <1>1
  <1>3. a \div FrameSize = n /\ a % FrameSize = a - fn
    <2> HIDE DEF a
    <2> QED
      BY <1>2, QuotientIs
  <1> HIDE DEF fn
  <1>4. (fn + i) - 1 = a
    BY <1>1
  <1>5. ByteAt(fn + i) = [f |-> a \div FrameSize + 1, o |-> (a % FrameSize) + 1]
    BY <1>4 DEF ByteAt
  <1> HIDE DEF a
  <1> QED
    BY <1>2, <1>3, <1>5 DEF fn

LEMMA ByteType ==
    ASSUME NEW p \in Nat \ {0}
    PROVE  /\ ByteAt(p) \in Byte
           /\ ByteAt(p).f = (p - 1) \div FrameSize + 1
           /\ ByteAt(p).o \in 1 .. FrameSize
  <1>1. p - 1 \in Nat
    OBVIOUS
  <1>2. (p - 1) \div FrameSize \in Nat /\ (p - 1) % FrameSize \in 0 .. (FrameSize - 1)
    BY <1>1, Quotient
  <1>3. ByteAt(p).f = (p - 1) \div FrameSize + 1 /\ ByteAt(p).o = ((p - 1) % FrameSize) + 1
    BY DEF ByteAt
  <1>4. FrameSize \in Nat
    BY Sizes
  <1>5. ((p - 1) % FrameSize) + 1 \in 1 .. FrameSize
    BY <1>2, <1>4
  <1>6. ByteAt(p) \in Byte
    BY <1>2, <1>5, <1>4 DEF ByteAt, Byte
  <1> QED
    BY <1>3, <1>5, <1>6

(* The order in which bytes are sent. *)
Before(b, c) == b.f < c.f \/ (b.f = c.f /\ b.o < c.o)

LEMMA ByteOrder ==
    ASSUME NEW p \in Nat \ {0}, NEW q \in Nat \ {0}, p < q
    PROVE  Before(ByteAt(p), ByteAt(q))
  <1> DEFINE a == p - 1
             b == q - 1
             x == a \div FrameSize
             y == b \div FrameSize
             fx == FrameSize * x
             fy == FrameSize * y
             r == a % FrameSize
             s == b % FrameSize
  <1>1. a \in Nat /\ b \in Nat /\ a < b
    OBVIOUS
  <1>2. /\ x \in Nat /\ r \in 0 .. (FrameSize - 1) /\ a = fx + r /\ fx \in Nat
        /\ y \in Nat /\ s \in 0 .. (FrameSize - 1) /\ b = fy + s /\ fy \in Nat
    BY <1>1, Quotient
  <1>3. x <= y
    BY <1>1, QuotientGrows
  <1>4. x = y => fx = fy
    OBVIOUS
  <1>5. ByteAt(p) = [f |-> x + 1, o |-> r + 1] /\ ByteAt(q) = [f |-> y + 1, o |-> s + 1]
    BY DEF ByteAt
  <1>6. FrameSize \in Nat
    BY Sizes
  <1>7. x < y \/ (x = y /\ r < s)
    <2> HIDE DEF a, b, x, y, fx, fy, r, s
    <2> QED
      BY <1>1, <1>2, <1>3, <1>4, <1>6
  <1> HIDE DEF a, b, x, y, fx, fy, r, s
  <1> QED
    BY <1>2, <1>5, <1>6, <1>7 DEF Before

(* A frame whose last byte has been fed is one of the whole frames fed. *)
LEMMA LastByte ==
    ASSUME NEW p \in Nat \ {0}, ByteAt(p).o = FrameSize
    PROVE  p \div FrameSize = ByteAt(p).f
  <1> DEFINE a == p - 1
             x == a \div FrameSize
             r == a % FrameSize
             fx == FrameSize * x
             fy == FrameSize * (x + 1)
  <1>1. a \in Nat
    OBVIOUS
  <1>2. x \in Nat /\ r \in 0 .. (FrameSize - 1) /\ a = fx + r /\ fx \in Nat
    BY <1>1, Quotient
  <1>3. ByteAt(p).f = x + 1 /\ ByteAt(p).o = r + 1
    BY DEF ByteAt
  <1>4. FrameSize \in Nat /\ FrameSize > 0 /\ fy = fx + FrameSize
    BY <1>2, Sizes
  <1>5. fy = p /\ x + 1 \in Nat
    <2> HIDE DEF fx, fy, x, r
    <2>1. r + 1 = FrameSize /\ p = a + 1
      BY <1>1, <1>3 DEF a
    <2> HIDE DEF a
    <2> QED
      BY <1>2, <1>4, <2>1
  <1>6. FrameSize * (x + 1) <= p /\ p < FrameSize * (x + 1) + FrameSize
    BY <1>4, <1>5
  <1> HIDE DEF x
  <1> QED
    BY <1>3, <1>5, <1>6, QuotientIs

DecTypeOK ==
    /\ frames \in Seq(FrameKinds)
    /\ garbage \in Nat
    /\ fed \in Nat /\ fed <= Total
    /\ overflowed \in BOOLEAN
    /\ buffer \in Seq(Byte)
    /\ state \in {"Ready", "Recovering", "Stopped"}
    /\ errors \in Nat
    /\ decoded \in Seq(Nat)
    /\ iterating \in BOOLEAN

(* What is in the buffer has been fed and is in the order in which it was    *)
(* sent; what has been handed on is a good frame, all of whose bytes are     *)
(* before those of the buffer.                                               *)
OrderInv ==
    /\ \A i \in 1 .. Len(buffer) : \E p \in 1 .. fed : buffer[i] = ByteAt(p)
    /\ \A i, j \in 1 .. Len(buffer) : i < j => Before(buffer[i], buffer[j])
    /\ \A k \in 1 .. Len(decoded) :
          /\ decoded[k] <= fed \div FrameSize
          /\ frames[decoded[k]] = "good"
          /\ \A i \in 1 .. Len(buffer) : decoded[k] < buffer[i].f
          /\ \A l \in 1 .. Len(decoded) : k < l => decoded[k] < decoded[l]

GoodOf(n) == {i \in 1 .. n : frames[i] = "good"}

(* MaxErrors whole frames in a row that are not good have been fed. *)
GivenUp ==
    \E last \in MaxErrors .. (fed \div FrameSize) :
        \A i \in (last - MaxErrors + 1) .. last : frames[i] # "good"

(* The decoder is at the boundary behind the frame n. *)
Aligned(n) ==
    /\ FrameSize * n + Len(buffer) = fed
    /\ \A i \in 1 .. Len(buffer) : buffer[i] = ByteAt(FrameSize * n + i)
    /\ Range(decoded) = GoodOf(n)
    /\ state # "Stopped" =>
          errors <= n /\ errors < MaxErrors /\ \A i \in (n - errors + 1) .. n : frames[i] # "good"
    /\ state = "Stopped" => GivenUp
    /\ ~iterating /\ state = "Ready" => Len(buffer) < FrameSize

AlignedInv == PreludesIntact => \E n \in Nat : Aligned(n)

DecoderInv == DecTypeOK /\ OrderInv /\ AlignedInv

LEMMA InitInv == DecoderInit => DecoderInv
  <1> SUFFICES ASSUME DecoderInit PROVE DecoderInv
    OBVIOUS
  <1>1. frames \in Seq(FrameKinds) /\ garbage \in Nat
    BY DecoderAssumption DEF DecoderInit
  <1>2. fed = 0 /\ buffer = <<>> /\ state = "Ready" /\ errors = 0 /\ decoded = <<>>
        /\ iterating = FALSE /\ overflowed = FALSE
    BY DEF DecoderInit
  <1>3. DecTypeOK
    <2>1. buffer \in Seq(Byte) /\ decoded \in Seq(Nat)
      BY <1>2
    <2>2. fed \in Nat /\ errors \in Nat
      BY <1>2
    <2>3. fed <= Total
      BY <1>1, <1>2, Sizes DEF Total
    <2> QED
      BY <1>1, <1>2, <2>1, <2>2, <2>3, Zenon DEF DecTypeOK
  <1>4. OrderInv
    BY <1>2 DEF OrderInv
  <1>5. Aligned(0)
    <2>1. FrameSize * 0 = 0
      BY Sizes
    <2>2. Range(decoded) = {} /\ GoodOf(0) = {}
      BY <1>2 DEF Range, GoodOf
    <2>3. FrameSize * 0 + Len(buffer) = fed /\ Len(buffer) = 0
      BY <1>2, <2>1
    <2>4. \A i \in 1 .. Len(buffer) : buffer[i] = ByteAt(FrameSize * 0 + i)
      BY <2>3
    <2>5. \A i \in (0 - errors + 1) .. 0 : frames[i] # "good"
      BY <1>2
    <2>6. errors <= 0 /\ errors < MaxErrors /\ Len(buffer) < FrameSize
      BY <1>2, <2>3, Sizes
    <2> QED
      BY <1>2, <2>2, <2>3, <2>4, <2>5, <2>6, Zenon DEF Aligned
  <1> QED
    BY <1>3, <1>4, <1>5 DEF DecoderInv, AlignedInv

(* A frame of which a byte has been fed is one of those PreludesIntact is about. *)
LEMMA StartedIntact ==
    ASSUME DecTypeOK, PreludesIntact, NEW n \in Nat, FrameSize * n < fed
    PROVE  frames[n + 1] \in {"good", "message", "header"}
  <1> DEFINE a  == fed + FrameSize - 1
             q  == a \div FrameSize
             fn == FrameSize * (n + 1)
             fm == FrameSize * n
             fq == FrameSize * q
  <1>1. FrameSize \in Nat /\ FrameSize > 0 /\ fed \in Nat
    BY Sizes DEF DecTypeOK
  <1>2. a \in Nat
    BY <1>1
  <1>3. fn = fm + FrameSize /\ fm \in Nat /\ fm < fed
    BY <1>1
  <1>4. q \in Nat /\ a < fq + FrameSize /\ fq \in Nat
    <2>1. q \in Nat /\ a % FrameSize \in 0 .. (FrameSize - 1) /\ a = fq + (a % FrameSize)
          /\ fq \in Nat
      <3> HIDE DEF a
      <3> QED
        BY <1>2, Quotient
    <2> DEFINE r == a % FrameSize
    <2>2. r \in 0 .. (FrameSize - 1) /\ a = fq + r
      BY <2>1
    <2> HIDE DEF r, a, fq
    <2> QED
      BY <1>1, <2>1, <2>2
  <1>5. n + 1 <= q
    <2>1. q < n + 1 => fq + FrameSize <= fn
      <3> HIDE DEF q
      <3> QED
        BY <1>4, Multiples
    <2>2. a >= fn
      <3> HIDE DEF fn, fm
      <3> QED
        BY <1>1, <1>3
    <2> HIDE DEF q, a, fn, fm, fq
    <2> QED
      BY <1>1, <1>2, <1>3, <1>4, <2>1, <2>2
  <1>6. n + 1 \in 1 .. q
    <2> HIDE DEF q
    <2> QED
      BY <1>4, <1>5
  <1>7. \A i \in 1 .. q : frames[i] \in {"good", "message", "header"}
    BY Zenon DEF PreludesIntact
  <1> QED
    <2> HIDE DEF q
    <2> QED
      BY <1>6, <1>7

(* At a boundary what is read is the length of the next frame. *)
LEMMA AlignedLength ==
    ASSUME DecTypeOK, PreludesIntact, NEW n \in Nat, Aligned(n), Len(buffer) > 0
    PROVE  /\ buffer[1].f = n + 1
           /\ frames[n + 1] \in {"good", "message", "header"}
           /\ \A m \in 0 .. FrameSize : m <= Len(buffer) => Together(m)
           /\ Len(buffer) >= LengthSize => LengthRead = FrameSize
  <1>1. Len(buffer) \in Nat /\ FrameSize \in Nat /\ FrameSize > 0 /\ FrameSize * n \in Nat
    BY Sizes DEF DecTypeOK
  <1>2. \A i \in 1 .. FrameSize : i <= Len(buffer) => buffer[i] = [f |-> n + 1, o |-> i]
    <2> SUFFICES ASSUME NEW i \in 1 .. FrameSize, i <= Len(buffer)
                 PROVE  buffer[i] = [f |-> n + 1, o |-> i]
      OBVIOUS
    <2>1. buffer[i] = ByteAt(FrameSize * n + i)
      BY <1>1 DEF Aligned
    <2> QED
      BY <2>1, ByteOf
  <1>3. buffer[1].f = n + 1
    <2>1. 1 \in 1 .. FrameSize /\ 1 <= Len(buffer)
      BY <1>1
    <2>2. buffer[1] = [f |-> n + 1, o |-> 1]
      BY <1>2, <2>1
    <2> QED
      BY <2>2
  <1>4. frames[n + 1] \in {"good", "message", "header"}
    <2>1. FrameSize * n < fed
      <3> DEFINE fn == FrameSize * n
      <3>1. fn + Len(buffer) = fed /\ fn \in Nat
        BY <1>1 DEF Aligned
      <3> HIDE DEF fn
      <3>2. fn < fed
        BY <1>1, <3>1
      <3> QED
        BY <3>2 DEF fn
    <2> QED
      BY <2>1, StartedIntact
  <1>5. \A m \in 0 .. FrameSize : m <= Len(buffer) => Together(m)
    BY <1>1, <1>2, <1>3 DEF Together
  <1>6. Len(buffer) >= LengthSize => LengthRead = FrameSize
    <2>1. LengthSize \in 0 .. FrameSize
      BY Sizes
    <2> QED
      BY <1>3, <1>4, <1>5, <2>1 DEF LengthRead
  <1> QED
    BY <1>3, <1>4, <1>5, <1>6

LEMMA AlignedParse ==
    ASSUME DecTypeOK, PreludesIntact, NEW n \in Nat, Aligned(n), Len(buffer) > 0
    PROVE  /\ Len(buffer) < FrameSize => ParseFrame = "more"
           /\ Len(buffer) >= FrameSize =>
                 /\ LengthRead = FrameSize
                 /\ frames[n + 1] = "good" => ParseFrame = "frame"
                 /\ frames[n + 1] = "message" => ParseFrame = "MessageCrcMismatch"
                 /\ frames[n + 1] = "header" => ParseFrame = "HeaderParseFailed"
  <1>1. Len(buffer) \in Nat
    BY DEF DecTypeOK
  <1>2. /\ buffer[1].f = n + 1 /\ frames[n + 1] \in {"good", "message", "header"}
        /\ \A m \in 0 .. FrameSize : m <= Len(buffer) => Together(m)
        /\ Len(buffer) >= LengthSize => LengthRead = FrameSize
    BY AlignedLength
  <1>3. CASE Len(buffer) < PreludeSize
    <2>1. ParseFrame = "more"
      BY <1>3 DEF ParseFrame
    <2> QED
      BY <2>1, <1>1, <1>3, Sizes
  <1>4. CASE Len(buffer) >= PreludeSize /\ Len(buffer) < FrameSize
    <2>1. LengthRead = FrameSize
      BY <1>1, <1>2, <1>4, Sizes
    <2>2. ParseFrame = "more"
      BY <1>1, <1>4, <2>1, Sizes DEF ParseFrame
    <2> QED
      BY <2>2, <1>1, <1>4, Sizes
  <1>5. CASE Len(buffer) >= FrameSize
    <2>1. LengthRead = FrameSize
      BY <1>1, <1>2, <1>5, Sizes
    <2>2. Together(PreludeSize) /\ Together(FrameSize)
      BY <1>1, <1>2, <1>5, Sizes
    <2>3. ~(Len(buffer) < PreludeSize) /\ ~(FrameSize < MinMessageSize)
          /\ ~(FrameSize > MaxMessageSize) /\ ~(Len(buffer) < FrameSize)
      BY <1>1, <1>5, Sizes
    <2>4. ParseFrame =
            LET kind == frames[n + 1]
            IN  IF kind \in {"length", "prelude"} THEN "PreludeCrcMismatch"
                ELSE IF kind = "message" THEN "MessageCrcMismatch"
                ELSE IF kind = "header" THEN "HeaderParseFailed"
                ELSE IF kind = "headers" THEN "Incomplete"
                ELSE "frame"
      BY <1>2, <2>1, <2>2, <2>3, Zenon DEF ParseFrame
    <2> QED
      BY <2>1, <2>4, <2>3
  <1> QED
    BY <1>1, <1>3, <1>4, <1>5, Sizes

(* A frame is handed on only where one begins, and whatever is wrong. *)
LEMMA FrameParsed ==
    ASSUME DecTypeOK, buffer # <<>>, ParseFrame = "frame",
           frames[buffer[1].f] \in FrameKinds
    PROVE  /\ LengthRead = FrameSize
           /\ frames[buffer[1].f] = "good"
           /\ Len(buffer) >= FrameSize
           /\ \A i \in 1 .. FrameSize : buffer[i] = [f |-> buffer[1].f, o |-> i]
  <1> DEFINE kind == frames[buffer[1].f]
  <1>1. Together(PreludeSize) /\ kind \notin {"length", "prelude"}
    BY DEF ParseFrame
  <1>2. ~(Len(buffer) < LengthRead) /\ Together(LengthRead) /\ kind # "message"
    BY DEF ParseFrame
  <1>3. kind # "header" /\ kind # "headers"
    BY DEF ParseFrame
  <1>4. kind = "good"
    BY <1>1, <1>2, <1>3 DEF FrameKinds
  <1>5. Together(LengthSize)
    BY <1>1, Sizes DEF Together
  <1>6. LengthRead = FrameSize
    BY <1>4, <1>5 DEF LengthRead
  <1>7. Len(buffer) \in Nat
    BY DEF DecTypeOK
  <1>8. Len(buffer) >= FrameSize
    BY <1>2, <1>6, <1>7, Sizes
  <1> QED
    BY <1>2, <1>4, <1>6, <1>8 DEF Together

LEMMA InFrames ==
    ASSUME DecTypeOK, NEW p \in 1 .. fed
    PROVE  ByteAt(p) \in Byte /\ ByteAt(p).f \in 1 .. Len(frames) /\ ByteAt(p).o \in 1 .. FrameSize
  <1> DEFINE x  == (p - 1) \div FrameSize
             l  == Len(frames)
             fx == FrameSize * x
             fl == FrameSize * l
             r  == (p - 1) % FrameSize
  <1>1. fed \in Nat /\ fed <= Total /\ l \in Nat /\ FrameSize \in Nat
    BY Sizes DEF DecTypeOK
  <1>2. p \in Nat \ {0} /\ p <= fed /\ p - 1 \in Nat
    BY <1>1
  <1>3. ByteAt(p) \in Byte /\ ByteAt(p).f = x + 1 /\ ByteAt(p).o \in 1 .. FrameSize
    BY <1>2, ByteType
  <1>4. x \in Nat /\ r \in 0 .. (FrameSize - 1) /\ p - 1 = fx + r /\ fx \in Nat
    BY <1>2, Quotient
  <1>5. fl = Total /\ fl \in Nat
    BY <1>1 DEF Total
  <1>6. l < x => fl + FrameSize <= fx
    BY <1>1, <1>4, Multiples
  <1>7. l = x => fl = fx
    OBVIOUS
  <1>8. x < l
    <2> HIDE DEF x, l, fx, fl, r
    <2> QED
      BY <1>1, <1>2, <1>4, <1>5, <1>6, <1>7
  <1>9. x + 1 \in 1 .. l
    <2> HIDE DEF x, l
    <2> QED
      BY <1>1, <1>4, <1>8
  <1> QED
    BY <1>3, <1>9

LEMMA Dropped ==
    ASSUME NEW s \in Seq(Byte), NEW k \in 0 .. Len(s)
    PROVE  /\ SubSeq(s, k + 1, Len(s)) \in Seq(Byte)
           /\ Len(SubSeq(s, k + 1, Len(s))) = Len(s) - k
           /\ \A i \in 1 .. (Len(s) - k) : SubSeq(s, k + 1, Len(s))[i] = s[k + i]
  <1> DEFINE t == SubSeq(s, k + 1, Len(s))
  <1>1. Len(s) \in Nat
    OBVIOUS
  <1>2. Len(t) = Len(s) - k
    BY <1>1
  <1>3. \A i \in 1 .. (Len(s) - k) : t[i] = s[k + i]
    <2> SUFFICES ASSUME NEW i \in 1 .. (Len(s) - k) PROVE t[i] = s[k + i]
      OBVIOUS
    <2>1. t[i] = s[(k + 1) + i - 1] /\ (k + 1) + i - 1 = k + i
      BY <1>1
    <2> QED
      BY <2>1
  <1>4. t \in Seq(Byte)
    <2>1. \A i \in 1 .. (Len(s) - k) : s[k + i] \in Byte
      BY <1>1
    <2>2. t = [i \in 1 .. (Len(s) - k) |-> s[k + i]]
      BY <1>1
    <2> QED
      BY <2>1, <2>2, <1>1
  <1> QED
    BY <1>2, <1>3, <1>4

LEMMA Handed ==
    ASSUME NEW d \in Seq(Nat), NEW x \in Nat
    PROVE  /\ Append(d, x) \in Seq(Nat) /\ Len(Append(d, x)) = Len(d) + 1
           /\ Append(d, x)[Len(d) + 1] = x
           /\ \A k \in 1 .. Len(d) : Append(d, x)[k] = d[k]
           /\ Range(Append(d, x)) = Range(d) \cup {x}
  <1>1. /\ Append(d, x) \in Seq(Nat) /\ Len(Append(d, x)) = Len(d) + 1
        /\ Append(d, x)[Len(d) + 1] = x
        /\ \A k \in 1 .. Len(d) : Append(d, x)[k] = d[k]
    OBVIOUS
  <1>2. DOMAIN Append(d, x) = 1 .. (Len(d) + 1) /\ DOMAIN d = 1 .. Len(d) /\ Len(d) \in Nat
    BY <1>1
  <1>3. Range(Append(d, x)) = Range(d) \cup {x}
    BY <1>1, <1>2 DEF Range
  <1> QED
    BY <1>1, <1>3

LEMMA QuietStep ==
    ASSUME DecoderInv, IterEnds \/ NeedMore
    PROVE  DecoderInv'
  <1>1. UNCHANGED <<frames, garbage, fed, overflowed, buffer, state, errors, decoded>>
        /\ iterating' = FALSE
    BY DEF IterEnds, NeedMore
  <1>2. DecTypeOK /\ OrderInv /\ AlignedInv
    BY DEF DecoderInv
  <1>3. DecTypeOK'
    BY <1>1, <1>2 DEF DecTypeOK, Total
  <1>4. OrderInv'
    BY <1>1, <1>2 DEF OrderInv
  <1>5. AlignedInv'
    <2> SUFFICES ASSUME PreludesIntact' PROVE \E n \in Nat : Aligned(n)'
      BY DEF AlignedInv
    <2>1. PreludesIntact
      BY <1>1 DEF PreludesIntact
    <2>2. PICK n \in Nat : Aligned(n)
      BY <1>2, <2>1 DEF AlignedInv
    <2>3. Len(buffer) \in Nat /\ FrameSize \in Nat /\ FrameSize > 0
      BY <1>2, Sizes DEF DecTypeOK
    <2>4. state = "Ready" => Len(buffer) < FrameSize
      <3>1. CASE IterEnds
        BY <3>1 DEF IterEnds
      <3>2. CASE NeedMore /\ buffer = <<>>
        BY <3>2, <2>3
      <3>3. CASE NeedMore /\ ParseFrame = "more" /\ buffer # <<>>
        <4>1. Len(buffer) > 0
          BY <1>2, <2>3, <3>3 DEF DecTypeOK
        <4>2. frames[n + 1] \in {"good", "message", "header"}
          BY <1>2, <2>1, <2>2, <4>1, AlignedLength
        <4>3. ~(Len(buffer) >= FrameSize)
          BY <1>2, <2>1, <2>2, <3>3, <4>1, <4>2, AlignedParse
        <4> QED
          BY <2>3, <4>3
      <3> QED
        BY <3>1, <3>2, <3>3 DEF NeedMore
    <2>5. Aligned(n)'
      BY <1>1, <2>2, <2>4 DEF Aligned, GoodOf, GivenUp
    <2> QED
      BY <2>5
  <1> QED
    BY <1>3, <1>4, <1>5 DEF DecoderInv

(* The bytes that stay when the first k ones go are in order as before. *)
LEMMA DropKeepsOrder ==
    ASSUME DecTypeOK, OrderInv, NEW k \in 0 .. Len(buffer), Advance(k), fed' = fed
    PROVE  /\ \A i \in 1 .. Len(buffer)' : \E p \in 1 .. fed' : buffer'[i] = ByteAt(p)
           /\ \A i, j \in 1 .. Len(buffer)' : i < j => Before(buffer'[i], buffer'[j])
           /\ Len(buffer)' = Len(buffer) - k
           /\ \A i \in 1 .. Len(buffer)' : buffer'[i] = buffer[k + i]
           /\ buffer' \in Seq(Byte)
  <1>1. buffer \in Seq(Byte) /\ Len(buffer) \in Nat
    BY DEF DecTypeOK
  <1>2. /\ buffer' \in Seq(Byte) /\ Len(buffer') = Len(buffer) - k
        /\ \A i \in 1 .. (Len(buffer) - k) : buffer'[i] = buffer[k + i]
    BY <1>1, Dropped DEF Advance
  <1>3. \A i \in 1 .. Len(buffer)' : k + i \in 1 .. Len(buffer) /\ buffer'[i] = buffer[k + i]
    BY <1>1, <1>2
  <1>4. \A i \in 1 .. Len(buffer)' : \E p \in 1 .. fed' : buffer'[i] = ByteAt(p)
    BY <1>3 DEF OrderInv
  <1>5. \A i, j \in 1 .. Len(buffer)' : i < j => Before(buffer'[i], buffer'[j])
    <2> SUFFICES ASSUME NEW i \in 1 .. Len(buffer)', NEW j \in 1 .. Len(buffer)', i < j
                 PROVE  Before(buffer'[i], buffer'[j])
      OBVIOUS
    <2>1. k + i \in 1 .. Len(buffer) /\ k + j \in 1 .. Len(buffer) /\ k + i < k + j
      BY <1>1, <1>3
    <2>2. Before(buffer[k + i], buffer[k + j])
      BY <2>1 DEF OrderInv
    <2> QED
      BY <1>3, <2>2
  <1> QED
    BY <1>2, <1>3, <1>4, <1>5

(* A whole frame dropped at a boundary: the decoder is at the next one. *)
LEMMA DropAligned ==
    ASSUME DecTypeOK, NEW n \in Nat, NEW b \in Seq(Byte),
           FrameSize * n + Len(buffer) = fed, Len(buffer) >= FrameSize,
           \A i \in 1 .. Len(buffer) : buffer[i] = ByteAt(FrameSize * n + i),
           Len(b) = Len(buffer) - FrameSize,
           \A i \in 1 .. Len(b) : b[i] = buffer[FrameSize + i]
    PROVE  /\ FrameSize * (n + 1) + Len(b) = fed
           /\ \A i \in 1 .. Len(b) : b[i] = ByteAt(FrameSize * (n + 1) + i)
           /\ n + 1 <= fed \div FrameSize
  <1> DEFINE fn == FrameSize * n
             fm == FrameSize * (n + 1)
  <1>1. fn \in Nat /\ fm = fn + FrameSize /\ FrameSize \in Nat /\ FrameSize > 0
        /\ Len(buffer) \in Nat /\ Len(b) \in Nat /\ fed \in Nat
    BY Sizes DEF DecTypeOK
  <1>2. fn + Len(buffer) = fed
    OBVIOUS
  <1>3. fm + Len(b) = fed
    <2> HIDE DEF fn, fm
    <2> QED
      BY <1>1, <1>2
  <1>4. \A i \in 1 .. Len(b) : b[i] = ByteAt(fm + i)
    <2> SUFFICES ASSUME NEW i \in 1 .. Len(b) PROVE b[i] = ByteAt(fm + i)
      OBVIOUS
    <2>1. FrameSize + i \in 1 .. Len(buffer)
      BY <1>1
    <2>2. b[i] = ByteAt(fn + (FrameSize + i))
      BY <2>1
    <2>3. fn + (FrameSize + i) = fm + i
      <3> HIDE DEF fn, fm
      <3> QED
        BY <1>1
    <2> QED
      BY <2>2, <2>3
  <1>5. n + 1 <= fed \div FrameSize
    <2>1. fm \div FrameSize <= fed \div FrameSize
      <3>1. fm \in Nat /\ fm <= fed
        <4> HIDE DEF fn, fm
        <4> QED
          BY <1>1, <1>3
      <3> QED
        BY <3>1, <1>1, QuotientGrows
    <2>2. fm \div FrameSize = n + 1
      <3>1. FrameSize * (n + 1) <= fm /\ fm < FrameSize * (n + 1) + FrameSize /\ fm \in Nat
        BY <1>1
      <3> HIDE DEF fm
      <3> QED
        BY <3>1, QuotientIs
    <2> QED
      BY <2>1, <2>2
  <1> QED
    BY <1>3, <1>4, <1>5

LEMMA DecodeStep ==
    ASSUME DecoderInv, DecodeFrame
    PROVE  DecoderInv'
  <1>1. DecTypeOK /\ OrderInv /\ AlignedInv
    BY DEF DecoderInv
  <1> DEFINE f == buffer[1].f
  <1>2. /\ buffer # <<>> /\ ParseFrame = "frame" /\ Advance(LengthRead)
        /\ decoded' = Append(decoded, f) /\ errors' = 0 /\ iterating /\ state = "Ready"
        /\ UNCHANGED <<frames, garbage, fed, overflowed, state, iterating>>
    BY DEF DecodeFrame
  <1>3. buffer \in Seq(Byte) /\ Len(buffer) \in Nat /\ Len(buffer) > 0 /\ decoded \in Seq(Nat)
        /\ fed \in Nat
    BY <1>1, <1>2 DEF DecTypeOK
  <1>4. frames[f] \in FrameKinds /\ f \in Nat
    <2>1. PICK p \in 1 .. fed : buffer[1] = ByteAt(p)
      BY <1>1, <1>3 DEF OrderInv
    <2>2. f \in 1 .. Len(frames)
      BY <1>1, <2>1, InFrames
    <2> QED
      BY <1>1, <2>2 DEF DecTypeOK
  <1>5. /\ LengthRead = FrameSize /\ frames[f] = "good" /\ Len(buffer) >= FrameSize
        /\ \A i \in 1 .. FrameSize : buffer[i] = [f |-> f, o |-> i]
    BY <1>1, <1>2, <1>4, FrameParsed
  <1>6. FrameSize \in Nat /\ FrameSize > 0 /\ FrameSize \in 0 .. Len(buffer)
        /\ Advance(FrameSize) /\ fed' = fed
    BY <1>2, <1>3, <1>5, Sizes
  <1>7. /\ \A i \in 1 .. Len(buffer)' : \E p \in 1 .. fed' : buffer'[i] = ByteAt(p)
        /\ \A i, j \in 1 .. Len(buffer)' : i < j => Before(buffer'[i], buffer'[j])
        /\ Len(buffer)' = Len(buffer) - FrameSize
        /\ \A i \in 1 .. Len(buffer)' : buffer'[i] = buffer[FrameSize + i]
        /\ buffer' \in Seq(Byte)
    BY <1>1, <1>6, DropKeepsOrder
  <1>8. /\ decoded' \in Seq(Nat) /\ Len(decoded)' = Len(decoded) + 1
        /\ decoded'[Len(decoded) + 1] = f
        /\ \A k \in 1 .. Len(decoded) : decoded'[k] = decoded[k]
        /\ Range(decoded)' = Range(decoded) \cup {f}
    BY <1>2, <1>3, <1>4, Handed
  <1>9. DecTypeOK'
    BY <1>1, <1>2, <1>7, <1>8 DEF DecTypeOK, Total
  (* The frame's last byte is at hand, and what is behind is of later frames. *)
  <1>10. f <= fed \div FrameSize
    <2>1. buffer[FrameSize] = [f |-> f, o |-> FrameSize]
      BY <1>5, <1>6
    <2>2. PICK p \in 1 .. fed : buffer[FrameSize] = ByteAt(p)
      BY <1>1, <1>3, <1>5, <1>6 DEF OrderInv
    <2>3. ByteAt(p).f = f /\ ByteAt(p).o = FrameSize
      BY <2>1, <2>2
    <2>4. p \in Nat \ {0} /\ p <= fed
      BY <1>3
    <2>5. p \div FrameSize = f
      BY <2>3, <2>4, LastByte
    <2>6. p \div FrameSize <= fed \div FrameSize
      BY <1>3, <2>4, QuotientGrows
    <2> QED
      BY <2>5, <2>6
  <1>11. \A i \in 1 .. Len(buffer)' : f < buffer'[i].f
    <2> SUFFICES ASSUME NEW i \in 1 .. Len(buffer)' PROVE f < buffer'[i].f
      OBVIOUS
    <2>1. FrameSize + i \in 1 .. Len(buffer) /\ FrameSize \in 1 .. Len(buffer)
          /\ FrameSize < FrameSize + i
      BY <1>3, <1>6, <1>7
    <2>2. Before(buffer[FrameSize], buffer[FrameSize + i])
      BY <1>1, <2>1 DEF OrderInv
    <2>3. buffer[FrameSize] = [f |-> f, o |-> FrameSize]
      BY <1>5, <1>6
    <2>4. PICK p \in 1 .. fed : buffer[FrameSize + i] = ByteAt(p)
      BY <1>1, <2>1 DEF OrderInv
    <2>5. buffer[FrameSize + i].o \in 1 .. FrameSize
      BY <1>1, <2>4, InFrames
    <2>6. f < buffer[FrameSize + i].f
      BY <1>6, <2>2, <2>3, <2>5 DEF Before
    <2> QED
      BY <1>7, <2>6
  <1>12. \A k \in 1 .. Len(decoded) : decoded[k] < f
    BY <1>1, <1>3 DEF OrderInv
  <1>13. OrderInv'
    <2>1. \A k \in 1 .. Len(decoded)' :
             /\ decoded'[k] <= fed \div FrameSize
             /\ frames[decoded'[k]] = "good"
             /\ \A i \in 1 .. Len(buffer)' : decoded'[k] < buffer'[i].f
             /\ \A l \in 1 .. Len(decoded)' : k < l => decoded'[k] < decoded'[l]
      <3> SUFFICES ASSUME NEW k \in 1 .. Len(decoded)'
                   PROVE  /\ decoded'[k] <= fed \div FrameSize
                          /\ frames[decoded'[k]] = "good"
                          /\ \A i \in 1 .. Len(buffer)' : decoded'[k] < buffer'[i].f
                          /\ \A l \in 1 .. Len(decoded)' : k < l => decoded'[k] < decoded'[l]
        OBVIOUS
      <3>1. Len(decoded) \in Nat
        BY <1>3
      <3>2. CASE k = Len(decoded) + 1
        BY <3>1, <3>2, <1>5, <1>8, <1>10, <1>11
      <3>3. CASE k \in 1 .. Len(decoded)
        <4>1. /\ decoded[k] <= fed \div FrameSize /\ frames[decoded[k]] = "good"
              /\ \A i \in 1 .. Len(buffer) : decoded[k] < buffer[i].f
              /\ \A l \in 1 .. Len(decoded) : k < l => decoded[k] < decoded[l]
          BY <1>1, <3>3 DEF OrderInv
        <4>2. decoded'[k] = decoded[k]
          BY <1>8, <3>3
        <4>3. \A i \in 1 .. Len(buffer)' : decoded[k] < buffer'[i].f
          <5>1. \A i \in 1 .. Len(buffer)' : FrameSize + i \in 1 .. Len(buffer)
            BY <1>3, <1>6, <1>7
          <5> QED
            BY <1>7, <4>1, <5>1
        <4>4. \A l \in 1 .. Len(decoded)' : k < l => decoded[k] < decoded'[l]
          <5> SUFFICES ASSUME NEW l \in 1 .. Len(decoded)', k < l PROVE decoded[k] < decoded'[l]
            OBVIOUS
          <5>1. CASE l = Len(decoded) + 1
            BY <1>8, <1>12, <3>3, <5>1
          <5>2. CASE l \in 1 .. Len(decoded)
            BY <1>8, <4>1, <5>2
          <5> QED
            BY <1>8, <3>1, <5>1, <5>2
        <4> QED
          BY <4>1, <4>2, <4>3, <4>4
      <3> QED
        BY <1>8, <3>1, <3>2, <3>3
    <2> QED
      BY <1>2, <1>7, <2>1 DEF OrderInv
  <1>14. AlignedInv'
    <2> SUFFICES ASSUME PreludesIntact' PROVE \E n \in Nat : Aligned(n)'
      BY DEF AlignedInv
    <2>1. PreludesIntact
      BY <1>2 DEF PreludesIntact
    <2>2. PICK n \in Nat : Aligned(n)
      BY <1>1, <2>1 DEF AlignedInv
    <2>3. f = n + 1
      BY <1>1, <1>3, <2>1, <2>2, AlignedLength
    <2>4. /\ FrameSize * n + Len(buffer) = fed
          /\ \A i \in 1 .. Len(buffer) : buffer[i] = ByteAt(FrameSize * n + i)
          /\ Range(decoded) = GoodOf(n)
      BY <2>2 DEF Aligned
    <2>5. /\ FrameSize * (n + 1) + Len(buffer') = fed
          /\ \A i \in 1 .. Len(buffer') : buffer'[i] = ByteAt(FrameSize * (n + 1) + i)
      BY <1>1, <1>5, <1>7, <2>4, DropAligned
    <2>6. Range(decoded)' = GoodOf(n + 1)'
      <3>1. GoodOf(n + 1)' = GoodOf(n) \cup {n + 1}
        BY <1>2, <1>5, <2>3 DEF GoodOf
      <3> QED
        BY <1>8, <2>3, <2>4, <3>1
    <2>7. errors' = 0 /\ \A i \in (n + 1 - errors' + 1) .. (n + 1) : FALSE
      <3>1. \A i \in (n + 1 - 0 + 1) .. (n + 1) : FALSE
        OBVIOUS
      <3> QED
        BY <1>2, <3>1
    <2>8. errors' <= n + 1 /\ errors' < MaxErrors
      BY <1>2, Sizes
    <2>9. Aligned(n + 1)'
      BY <1>2, <2>5, <2>6, <2>7, <2>8 DEF Aligned
    <2> QED
      BY <2>9
  <1> QED
    BY <1>9, <1>13, <1>14 DEF DecoderInv

LEMMA Fed ==
    ASSUME NEW s \in Seq(Byte), NEW t \in Seq(Byte)
    PROVE  /\ s \o t \in Seq(Byte) /\ Len(s \o t) = Len(s) + Len(t)
           /\ \A i \in 1 .. Len(s) : (s \o t)[i] = s[i]
           /\ \A i \in 1 .. Len(t) : (s \o t)[Len(s) + i] = t[i]
  OBVIOUS

LEMMA FeedStep ==
    ASSUME DecoderInv, Feed
    PROVE  DecoderInv'
  <1>1. DecTypeOK /\ OrderInv /\ AlignedInv
    BY DEF DecoderInv
  <1> DEFINE Part(m) == [i \in 1 .. (m - fed) |-> ByteAt(fed + i)]
             Fits(m)  == Len(buffer) + Len(Part(m)) <= MaxBufferSize
  <1>2. PICK m \in (fed + 1) .. Total :
          /\ fed' = m
          /\ buffer' = IF Fits(m) THEN buffer \o Part(m) ELSE buffer
          /\ overflowed' = (overflowed \/ ~Fits(m))
          /\ state' = IF Fits(m) /\ state = "Recovering" THEN "Ready" ELSE state
    BY DEF Feed
  <1>3. ~iterating /\ iterating' = TRUE /\ UNCHANGED <<frames, garbage, errors, decoded>>
    BY DEF Feed
  <1> DEFINE chunk == Part(m)
  <1>4. /\ buffer \in Seq(Byte) /\ Len(buffer) \in Nat /\ fed \in Nat /\ fed <= Total
        /\ Total \in Nat /\ m \in Nat /\ fed < m /\ m <= Total /\ decoded \in Seq(Nat)
        /\ m - fed \in Nat
    <2>1. buffer \in Seq(Byte) /\ fed \in Nat /\ fed <= Total /\ frames \in Seq(FrameKinds)
          /\ decoded \in Seq(Nat)
      BY <1>1 DEF DecTypeOK
    <2>2. Total \in Nat
      BY <2>1, Sizes DEF Total
    <2> QED
      BY <1>2, <2>1, <2>2
  <1>5. chunk \in Seq(Byte) /\ Len(chunk) = m - fed
        /\ \A i \in 1 .. (m - fed) : chunk[i] = ByteAt(fed + i)
    <2>1. \A i \in 1 .. (m - fed) : ByteAt(fed + i) \in Byte
      <3> SUFFICES ASSUME NEW i \in 1 .. (m - fed) PROVE ByteAt(fed + i) \in Byte
        OBVIOUS
      <3>1. fed + i \in Nat \ {0}
        BY <1>4
      <3> QED
        BY <3>1, ByteType
    <2> QED
      BY <1>4, <2>1
  <1> HIDE DEF Part
  <1>6. CASE ~Fits(m)
    <2>1. buffer' = buffer /\ overflowed' = TRUE /\ state' = state /\ fed' = m
      BY <1>2, <1>6
    <2>2. DecTypeOK'
      BY <1>1, <1>3, <1>4, <2>1 DEF DecTypeOK, Total
    <2>3. fed \div FrameSize <= m \div FrameSize
      BY <1>4, QuotientGrows
    <2>4. OrderInv'
      <3>1. \A i \in 1 .. Len(buffer) : \E p \in 1 .. m : buffer[i] = ByteAt(p)
        BY <1>1, <1>4 DEF OrderInv
      <3>2. fed \div FrameSize \in Nat /\ m \div FrameSize \in Nat
        BY <1>4, Quotient
      <3>3. \A k \in 1 .. Len(decoded) : decoded[k] <= m \div FrameSize
        <4> DEFINE x == fed \div FrameSize
                   y == m \div FrameSize
        <4>1. \A k \in 1 .. Len(decoded) : decoded[k] <= x /\ decoded[k] \in Nat
          BY <1>1, <1>4 DEF OrderInv
        <4>2. x <= y /\ x \in Nat /\ y \in Nat
          BY <2>3, <3>2
        <4> HIDE DEF x, y
        <4>3. \A k \in 1 .. Len(decoded) : decoded[k] <= y
          BY <4>1, <4>2
        <4> QED
          BY <4>3 DEF y
      <3> QED
        BY <1>1, <1>3, <2>1, <3>1, <3>3 DEF OrderInv
    <2>5. AlignedInv'
      BY <2>1 DEF AlignedInv, PreludesIntact
    <2> QED
      BY <2>2, <2>4, <2>5 DEF DecoderInv
  <1>7. CASE Fits(m)
    <2>1. /\ buffer' = buffer \o chunk /\ overflowed' = overflowed /\ fed' = m
          /\ state' = IF state = "Recovering" THEN "Ready" ELSE state
      BY <1>1, <1>2, <1>7 DEF DecTypeOK
    <2>2. /\ buffer' \in Seq(Byte) /\ Len(buffer') = Len(buffer) + (m - fed)
          /\ \A i \in 1 .. Len(buffer) : buffer'[i] = buffer[i]
          /\ \A i \in 1 .. (m - fed) : buffer'[Len(buffer) + i] = ByteAt(fed + i)
      <3> HIDE DEF chunk
      <3>1. /\ buffer \o chunk \in Seq(Byte)
            /\ Len(buffer \o chunk) = Len(buffer) + Len(chunk)
            /\ \A i \in 1 .. Len(buffer) : (buffer \o chunk)[i] = buffer[i]
            /\ \A i \in 1 .. Len(chunk) : (buffer \o chunk)[Len(buffer) + i] = chunk[i]
        BY <1>4, <1>5, Fed
      <3> QED
        BY <1>4, <1>5, <2>1, <3>1
    <2>3. DecTypeOK'
      <3>1. state' \in {"Ready", "Recovering", "Stopped"}
        BY <1>1, <2>1 DEF DecTypeOK
      <3> QED
        BY <1>1, <1>3, <1>4, <2>1, <2>2, <3>1 DEF DecTypeOK, Total
    <2>4. ASSUME NEW j \in 1 .. Len(buffer')
          PROVE  \/ j \in 1 .. Len(buffer) /\ buffer'[j] = buffer[j]
                 \/ \E i \in 1 .. (m - fed) : j = Len(buffer) + i /\ buffer'[j] = ByteAt(fed + i)
      <3>1. CASE j <= Len(buffer)
        BY <1>4, <2>2, <3>1
      <3>2. CASE j > Len(buffer)
        <4>1. j - Len(buffer) \in 1 .. (m - fed) /\ j = Len(buffer) + (j - Len(buffer))
          BY <1>4, <2>2, <3>2
        <4> QED
          BY <2>2, <4>1
      <3> QED
        BY <1>4, <2>2, <3>1, <3>2
    <2>5. \A j \in 1 .. Len(buffer') : \E p \in 1 .. m : buffer'[j] = ByteAt(p)
      <3> SUFFICES ASSUME NEW j \in 1 .. Len(buffer')
                   PROVE  \E p \in 1 .. m : buffer'[j] = ByteAt(p)
        OBVIOUS
      <3>1. CASE j \in 1 .. Len(buffer) /\ buffer'[j] = buffer[j]
        BY <1>1, <1>4, <3>1 DEF OrderInv
      <3>2. ASSUME NEW i \in 1 .. (m - fed), buffer'[j] = ByteAt(fed + i)
            PROVE  \E p \in 1 .. m : buffer'[j] = ByteAt(p)
        <4>1. fed + i \in 1 .. m
          BY <1>4
        <4> QED
          BY <3>2, <4>1
      <3> QED
        BY <2>4, <3>1, <3>2
    <2>6. \A i, j \in 1 .. Len(buffer') : i < j => Before(buffer'[i], buffer'[j])
      <3> SUFFICES ASSUME NEW i \in 1 .. Len(buffer'), NEW j \in 1 .. Len(buffer'), i < j
                   PROVE  Before(buffer'[i], buffer'[j])
        OBVIOUS
      <3>1. CASE j \in 1 .. Len(buffer) /\ buffer'[j] = buffer[j]
        <4>1. i \in 1 .. Len(buffer)
          BY <1>4, <3>1
        <4> QED
          BY <1>1, <2>2, <3>1, <4>1 DEF OrderInv
      <3>2. ASSUME NEW b \in 1 .. (m - fed), j = Len(buffer) + b, buffer'[j] = ByteAt(fed + b)
            PROVE  Before(buffer'[i], buffer'[j])
        <4>1. CASE i \in 1 .. Len(buffer) /\ buffer'[i] = buffer[i]
          <5>1. PICK p \in 1 .. fed : buffer[i] = ByteAt(p)
            BY <1>1, <4>1 DEF OrderInv
          <5>2. p \in Nat \ {0} /\ fed + b \in Nat \ {0} /\ p < fed + b
            BY <1>4
          <5> QED
            BY <3>2, <4>1, <5>1, <5>2, ByteOrder
        <4>2. ASSUME NEW a \in 1 .. (m - fed), i = Len(buffer) + a, buffer'[i] = ByteAt(fed + a)
              PROVE  Before(buffer'[i], buffer'[j])
          <5>1. fed + a \in Nat \ {0} /\ fed + b \in Nat \ {0} /\ fed + a < fed + b
            BY <1>4, <3>2, <4>2
          <5> QED
            BY <3>2, <4>2, <5>1, ByteOrder
        <4> QED
          BY <2>4, <4>1, <4>2
      <3> QED
        BY <2>4, <3>1, <3>2
    <2> DEFINE x == fed \div FrameSize
               y == m \div FrameSize
    <2>7. x <= y /\ x \in Nat /\ y \in Nat
      <3>1. fed <= m
        BY <1>4
      <3>2. x <= y
        BY <1>4, <3>1, QuotientGrows
      <3>3. x \in Nat /\ y \in Nat
        BY <1>4, Quotient
      <3> QED
        BY <3>2, <3>3
    (* A byte that comes now is of a frame not yet whole. *)
    <2>8. \A i \in 1 .. (m - fed) : ByteAt(fed + i).f > x /\ ByteAt(fed + i).f \in Nat
      <3> SUFFICES ASSUME NEW i \in 1 .. (m - fed)
                   PROVE  ByteAt(fed + i).f > x /\ ByteAt(fed + i).f \in Nat
        OBVIOUS
      <3> DEFINE c == fed + i - 1
                 z == c \div FrameSize
      <3>1. fed + i \in Nat \ {0} /\ c \in Nat /\ fed <= c /\ c = (fed + i) - 1
        BY <1>4
      <3>2. ByteAt(fed + i).f = z + 1
        BY <3>1, ByteType
      <3>3. x <= z /\ z \in Nat
        <4> HIDE DEF c
        <4> QED
          BY <1>4, <3>1, QuotientGrows, Quotient
      <3> HIDE DEF z, x
      <3> QED
        BY <2>7, <3>2, <3>3
    <2>9. \A k \in 1 .. Len(decoded) :
             /\ decoded[k] <= y
             /\ frames[decoded[k]] = "good"
             /\ \A j \in 1 .. Len(buffer') : decoded[k] < buffer'[j].f
             /\ \A l \in 1 .. Len(decoded) : k < l => decoded[k] < decoded[l]
      <3> SUFFICES ASSUME NEW k \in 1 .. Len(decoded)
                   PROVE  /\ decoded[k] <= y
                          /\ frames[decoded[k]] = "good"
                          /\ \A j \in 1 .. Len(buffer') : decoded[k] < buffer'[j].f
                          /\ \A l \in 1 .. Len(decoded) : k < l => decoded[k] < decoded[l]
        OBVIOUS
      <3>1. /\ decoded[k] <= x /\ frames[decoded[k]] = "good" /\ decoded[k] \in Nat
            /\ \A i \in 1 .. Len(buffer) : decoded[k] < buffer[i].f
            /\ \A l \in 1 .. Len(decoded) : k < l => decoded[k] < decoded[l]
        BY <1>1, <1>4 DEF OrderInv
      <3> HIDE DEF x, y
      <3>2. decoded[k] <= y
        BY <2>7, <3>1
      <3>3. \A j \in 1 .. Len(buffer') : decoded[k] < buffer'[j].f
        <4> SUFFICES ASSUME NEW j \in 1 .. Len(buffer') PROVE decoded[k] < buffer'[j].f
          OBVIOUS
        <4>1. ASSUME NEW i \in 1 .. (m - fed), buffer'[j] = ByteAt(fed + i)
              PROVE  decoded[k] < buffer'[j].f
          <5>1. ByteAt(fed + i).f > x /\ ByteAt(fed + i).f \in Nat
            BY <2>8
          <5> QED
            BY <2>7, <3>1, <4>1, <5>1
        <4> QED
          BY <2>4, <3>1, <4>1
      <3> QED
        BY <3>1, <3>2, <3>3
    <2>10. OrderInv'
      BY <1>3, <2>1, <2>5, <2>6, <2>9 DEF OrderInv
    <2>11. AlignedInv'
      <3> SUFFICES ASSUME PreludesIntact' PROVE \E n \in Nat : Aligned(n)'
        BY DEF AlignedInv
      <3> DEFINE s == fed + FrameSize - 1
                 t == m + FrameSize - 1
      <3>1. PreludesIntact
        <4>1. s \in Nat /\ t \in Nat /\ s <= t
          BY <1>4, Sizes
        <4>2. s \div FrameSize <= t \div FrameSize /\ s \div FrameSize \in Nat
              /\ t \div FrameSize \in Nat
          <5> HIDE DEF s, t
          <5> QED
            BY <4>1, QuotientGrows, Quotient
        <4>3. \A i \in 1 .. (t \div FrameSize) : frames[i] \in {"good", "message", "header"}
          BY <1>3, <2>1, Zenon DEF PreludesIntact
        <4>4. \A i \in 1 .. (s \div FrameSize) : i \in 1 .. (t \div FrameSize)
          <5> DEFINE u == s \div FrameSize
                     v == t \div FrameSize
          <5> HIDE DEF u, v
          <5>1. u \in Nat /\ v \in Nat /\ u <= v
            BY <4>2 DEF u, v
          <5>2. \A i \in 1 .. u : i \in 1 .. v
            BY <5>1
          <5> QED
            BY <5>2 DEF u, v
        <4>5. ~overflowed
          BY <2>1 DEF PreludesIntact
        <4> QED
          BY <4>3, <4>4, <4>5, Zenon DEF PreludesIntact
      <3>2. PICK n \in Nat : Aligned(n)
        BY <1>1, <3>1 DEF AlignedInv
      <3> DEFINE fn == FrameSize * n
      <3>3. fn \in Nat /\ fn + Len(buffer) = fed
            /\ \A i \in 1 .. Len(buffer) : buffer[i] = ByteAt(fn + i)
        BY <3>2, Sizes DEF Aligned
      <3>4. fn + Len(buffer') = m
            /\ \A j \in 1 .. Len(buffer') : buffer'[j] = ByteAt(fn + j)
        <4> HIDE DEF fn
        <4> DEFINE b == Len(buffer)
                   c == Len(buffer')
        <4>0. b \in Nat /\ c = b + (m - fed) /\ fn \in Nat /\ fn + b = fed /\ m \in Nat /\ fed \in Nat
          BY <1>4, <2>2, <3>3
        <4>1. fn + Len(buffer') = m
          <5> HIDE DEF b, c
          <5>1. fn + c = m
            BY <4>0
          <5> QED
            BY <5>1 DEF c
        <4>2. ASSUME NEW j \in 1 .. Len(buffer') PROVE buffer'[j] = ByteAt(fn + j)
          <5>1. ASSUME NEW i \in 1 .. (m - fed), j = Len(buffer) + i,
                       buffer'[j] = ByteAt(fed + i)
                PROVE  buffer'[j] = ByteAt(fn + j)
            <6>1. fed + i = fn + j
              <7>1. j = b + i
                BY <5>1
              <7> HIDE DEF b, c
              <7> QED
                BY <4>0, <7>1
            <6> QED
              BY <5>1, <6>1
          <5> QED
            BY <2>4, <3>3, <5>1
        <4> QED
          BY <4>1, <4>2
      <3>5. state' # "Stopped" =>
               /\ errors <= n /\ errors < MaxErrors
               /\ \A i \in (n - errors + 1) .. n : frames[i] # "good"
        <4>1. state' # "Stopped" => state # "Stopped"
          BY <2>1
        <4> QED
          BY <3>2, <4>1 DEF Aligned
      <3>6. state' = "Stopped" => GivenUp'
        <4> SUFFICES ASSUME state' = "Stopped" PROVE GivenUp'
          OBVIOUS
        <4>1. GivenUp
          BY <2>1, <3>2 DEF Aligned
        <4>2. PICK last \in MaxErrors .. x :
                \A i \in (last - MaxErrors + 1) .. last : frames[i] # "good"
          BY <4>1 DEF GivenUp
        <4>3. last \in MaxErrors .. y
          <5> HIDE DEF x, y
          <5> QED
            BY <2>7, <4>2, Sizes
        <4> QED
          BY <1>3, <2>1, <4>2, <4>3 DEF GivenUp
      <3>7. Range(decoded)' = GoodOf(n)'
        BY <1>3, <3>2 DEF Aligned, GoodOf
      <3>8. Aligned(n)'
        BY <1>3, <2>1, <3>4, <3>5, <3>6, <3>7 DEF Aligned
      <3> QED
        BY <3>8
    <2> QED
      BY <2>3, <2>10, <2>11 DEF DecoderInv
  <1> QED
    BY <1>6, <1>7

LEMMA FailStep ==
    ASSUME DecoderInv, Fail
    PROVE  DecoderInv'
  <1>1. DecTypeOK /\ OrderInv /\ AlignedInv
    BY DEF DecoderInv
  <1> DEFINE k == Skip(ParseFrame)
  <1>2. /\ iterating /\ state = "Ready" /\ buffer # <<>> /\ ParseFrame \notin {"frame", "more"}
        /\ errors' = errors + 1
        /\ errors' >= MaxErrors => state' = "Stopped" /\ buffer' = buffer
        /\ ~(errors' >= MaxErrors) => state' = "Recovering" /\ Advance(k)
        /\ UNCHANGED <<frames, garbage, fed, overflowed, decoded, iterating>>
    BY DEF Fail
  <1>3. buffer \in Seq(Byte) /\ Len(buffer) \in Nat /\ Len(buffer) > 0 /\ decoded \in Seq(Nat)
        /\ fed \in Nat /\ errors \in Nat /\ errors' \in Nat
    BY <1>1, <1>2 DEF DecTypeOK
  <1>4. k \in 0 .. Len(buffer)
    <2>1. LengthRead \in MinMessageSize .. Len(buffer) => LengthRead \in 0 .. Len(buffer)
      BY <1>3, Sizes
    <2>2. 1 \in 0 .. Len(buffer)
      BY <1>3
    <2> QED
      BY <2>1, <2>2, Zenon DEF Skip
  <1>5. CASE errors' >= MaxErrors
    <2>1. state' = "Stopped" /\ buffer' = buffer
      BY <1>2, <1>5
    <2>2. DecTypeOK'
      BY <1>1, <1>2, <1>3, <2>1 DEF DecTypeOK, Total
    <2>3. OrderInv'
      BY <1>1, <1>2, <2>1 DEF OrderInv
    <2>4. AlignedInv'
      <3> SUFFICES ASSUME PreludesIntact' PROVE \E n \in Nat : Aligned(n)'
        BY DEF AlignedInv
      <3>1. PreludesIntact
        BY <1>2 DEF PreludesIntact
      <3>2. PICK n \in Nat : Aligned(n)
        BY <1>1, <3>1 DEF AlignedInv
      <3>3. /\ FrameSize * n + Len(buffer) = fed
            /\ \A i \in 1 .. Len(buffer) : buffer[i] = ByteAt(FrameSize * n + i)
            /\ errors <= n /\ errors < MaxErrors
            /\ \A i \in (n - errors + 1) .. n : frames[i] # "good"
        BY <1>2, <3>2 DEF Aligned
      <3>4. Len(buffer) >= FrameSize /\ frames[n + 1] # "good"
        BY <1>1, <1>2, <1>3, <3>1, <3>2, AlignedParse, Sizes
      <3>5. n + 1 <= fed \div FrameSize
        <4>1. FrameSize \in 0 .. Len(buffer)
          BY <1>3, <3>4, Sizes
        <4>2. PICK b \in Seq(Byte) : /\ Len(b) = Len(buffer) - FrameSize
                                     /\ \A i \in 1 .. Len(b) : b[i] = buffer[FrameSize + i]
          BY <1>3, <4>1, Dropped
        <4> QED
          BY <1>1, <3>3, <3>4, <4>2, DropAligned
      <3>6. n + 1 \in MaxErrors .. (fed \div FrameSize)
        <4> DEFINE x == fed \div FrameSize
        <4>1. x \in Nat /\ n + 1 <= x
          BY <1>3, <3>5, Quotient
        <4> HIDE DEF x
        <4>2. MaxErrors <= n + 1
          BY <1>2, <1>3, <1>5, <3>3, Sizes
        <4>3. n + 1 \in MaxErrors .. x
          BY <4>1, <4>2, Sizes
        <4> QED
          BY <4>3 DEF x
      <3>7. \A i \in ((n + 1) - MaxErrors + 1) .. (n + 1) : frames[i] # "good"
        <4> SUFFICES ASSUME NEW i \in ((n + 1) - MaxErrors + 1) .. (n + 1)
                     PROVE  frames[i] # "good"
          OBVIOUS
        <4>1. errors = MaxErrors - 1
          BY <1>2, <1>3, <1>5, <3>3, Sizes
        <4>2. i = n + 1 \/ i \in (n - errors + 1) .. n
          BY <1>3, <4>1, Sizes
        <4> QED
          BY <3>3, <3>4, <4>2
      <3>8. GivenUp'
        <4>1. GivenUp
          BY <3>6, <3>7, Zenon DEF GivenUp
        <4> QED
          BY <1>2, <4>1 DEF GivenUp
      <3>9. Range(decoded)' = GoodOf(n)'
        BY <1>2, <3>2 DEF Aligned, GoodOf
      <3>10. Aligned(n)'
        BY <1>2, <2>1, <3>3, <3>8, <3>9 DEF Aligned
      <3> QED
        BY <3>10
    <2> QED
      BY <2>2, <2>3, <2>4 DEF DecoderInv
  <1>6. CASE ~(errors' >= MaxErrors)
    <2>1. state' = "Recovering" /\ Advance(k) /\ fed' = fed
      BY <1>2, <1>6
    <2>2. /\ \A i \in 1 .. Len(buffer)' : \E p \in 1 .. fed' : buffer'[i] = ByteAt(p)
          /\ \A i, j \in 1 .. Len(buffer)' : i < j => Before(buffer'[i], buffer'[j])
          /\ Len(buffer)' = Len(buffer) - k
          /\ \A i \in 1 .. Len(buffer)' : buffer'[i] = buffer[k + i]
          /\ buffer' \in Seq(Byte)
      <3> HIDE DEF k
      <3> QED
        BY <1>1, <1>4, <2>1, DropKeepsOrder
    <2>3. DecTypeOK'
      BY <1>1, <1>2, <1>3, <2>1, <2>2 DEF DecTypeOK, Total
    <2>4. OrderInv'
      <3>1. \A j \in 1 .. Len(decoded) : \A i \in 1 .. Len(buffer)' : decoded[j] < buffer'[i].f
        <4> SUFFICES ASSUME NEW j \in 1 .. Len(decoded), NEW i \in 1 .. Len(buffer)'
                     PROVE  decoded[j] < buffer'[i].f
          OBVIOUS
        <4> HIDE DEF k
        <4>1. k + i \in 1 .. Len(buffer)
          BY <1>3, <1>4, <2>2
        <4> QED
          BY <1>1, <2>2, <4>1 DEF OrderInv
      <3>2. /\ \A i \in 1 .. Len(buffer)' : \E p \in 1 .. fed' : buffer'[i] = ByteAt(p)
            /\ \A i, j \in 1 .. Len(buffer)' : i < j => Before(buffer'[i], buffer'[j])
        BY <2>2
      <3>3. \A j \in 1 .. Len(decoded) :
               /\ decoded[j] <= fed \div FrameSize
               /\ frames[decoded[j]] = "good"
               /\ \A l \in 1 .. Len(decoded) : j < l => decoded[j] < decoded[l]
        BY <1>1 DEF OrderInv
      <3> QED
        BY <1>2, <3>1, <3>2, <3>3 DEF OrderInv
    <2>5. AlignedInv'
      <3> SUFFICES ASSUME PreludesIntact' PROVE \E n \in Nat : Aligned(n)'
        BY DEF AlignedInv
      <3>1. PreludesIntact
        BY <1>2 DEF PreludesIntact
      <3>2. PICK n \in Nat : Aligned(n)
        BY <1>1, <3>1 DEF AlignedInv
      <3>3. /\ FrameSize * n + Len(buffer) = fed
            /\ \A i \in 1 .. Len(buffer) : buffer[i] = ByteAt(FrameSize * n + i)
            /\ errors <= n /\ errors < MaxErrors
            /\ \A i \in (n - errors + 1) .. n : frames[i] # "good"
            /\ Range(decoded) = GoodOf(n)
        BY <1>2, <3>2 DEF Aligned
      <3>4. Len(buffer) >= FrameSize /\ frames[n + 1] # "good"
        BY <1>1, <1>2, <1>3, <3>1, <3>2, AlignedParse, Sizes
      (* The whole frame is skipped. *)
      <3>5. k = FrameSize
        <4>1. LengthRead = FrameSize
          BY <1>1, <1>3, <3>1, <3>2, <3>4, AlignedParse
        <4>2. ParseFrame \in {"MessageCrcMismatch", "HeaderParseFailed"}
          <5>1. frames[n + 1] \in {"good", "message", "header"}
            BY <1>1, <1>3, <3>1, <3>2, AlignedLength
          <5> QED
            BY <1>1, <1>3, <3>1, <3>2, <3>4, <5>1, AlignedParse
        <4>3. FrameSize \in MinMessageSize .. Len(buffer)
          BY <1>3, <3>4, Sizes
        <4> QED
          BY <4>1, <4>2, <4>3, Zenon DEF Skip
      <3> HIDE DEF k
      <3>6. /\ FrameSize * (n + 1) + Len(buffer') = fed
            /\ \A i \in 1 .. Len(buffer') : buffer'[i] = ByteAt(FrameSize * (n + 1) + i)
        BY <1>1, <2>2, <3>3, <3>4, <3>5, DropAligned
      <3>7. Range(decoded)' = GoodOf(n + 1)'
        <4>1. GoodOf(n + 1)' = GoodOf(n)
          BY <1>2, <3>4 DEF GoodOf
        <4>2. Range(decoded)' = Range(decoded)
          BY <1>2 DEF Range
        <4> QED
          BY <3>3, <4>1, <4>2
      <3>8. /\ errors' <= n + 1 /\ errors' < MaxErrors
            /\ \A i \in (n + 1 - errors' + 1) .. (n + 1) : frames'[i] # "good"
        <4>1. errors' <= n + 1 /\ errors' < MaxErrors
          BY <1>2, <1>3, <1>6, <3>3, Sizes
        <4>2. ASSUME NEW i \in (n + 1 - errors' + 1) .. (n + 1) PROVE frames'[i] # "good"
          <5>1. i = n + 1 \/ i \in (n - errors + 1) .. n
            BY <1>2, <1>3
          <5> QED
            BY <1>2, <3>3, <3>4, <5>1
        <4> QED
          BY <4>1, <4>2
      <3>9. Aligned(n + 1)'
        BY <1>2, <2>1, <3>6, <3>7, <3>8 DEF Aligned
      <3> QED
        BY <3>9
    <2> QED
      BY <2>3, <2>4, <2>5 DEF DecoderInv
  <1> QED
    BY <1>5, <1>6

LEMMA DecoderKeepsInv == DecoderInv /\ [DecoderNext]_decoderVars => DecoderInv'
  <1> SUFFICES ASSUME DecoderInv, [DecoderNext]_decoderVars
               PROVE  DecoderInv'
    OBVIOUS
  <1>1. CASE UNCHANGED decoderVars
    <2>1. DecTypeOK'
      BY <1>1 DEF DecoderInv, DecTypeOK, Total, decoderVars
    <2>2. OrderInv'
      BY <1>1 DEF DecoderInv, OrderInv, decoderVars
    <2>3. AlignedInv'
      BY <1>1 DEF DecoderInv, AlignedInv, PreludesIntact, Aligned, GoodOf, GivenUp, decoderVars
    <2> QED
      BY <2>1, <2>2, <2>3 DEF DecoderInv
  <1> QED
    BY <1>1, FeedStep, QuietStep, DecodeStep, FailStep DEF DecoderNext

LEMMA InvGives == DecoderInv => OnlyDamagedFramesAreLost
  <1> SUFFICES ASSUME DecoderInv PROVE OnlyDamagedFramesAreLost
    OBVIOUS
  <1>1. DecTypeOK /\ OrderInv /\ AlignedInv
    BY DEF DecoderInv
  <1>2. ~iterating /\ state = "Ready" /\ PreludesIntact => Range(decoded) = GoodWithin(fed)
    <2> SUFFICES ASSUME ~iterating, state = "Ready", PreludesIntact
                 PROVE  Range(decoded) = GoodWithin(fed)
      OBVIOUS
    <2>1. PICK n \in Nat : Aligned(n)
      BY <1>1 DEF AlignedInv
    <2> DEFINE fn == FrameSize * n
    <2>2. /\ fn + Len(buffer) = fed /\ Len(buffer) < FrameSize /\ Range(decoded) = GoodOf(n)
          /\ fn \in Nat /\ Len(buffer) \in Nat /\ fed \in Nat /\ FrameSize \in Nat
      BY <1>1, <2>1, Sizes DEF Aligned, DecTypeOK
    <2>3. fn <= fed /\ fed < fn + FrameSize
      <3> HIDE DEF fn
      <3> QED
        BY <2>2
    <2>4. fed \div FrameSize = n
      BY <2>2, <2>3, QuotientIs
    <2> QED
      BY <2>2, <2>4 DEF GoodWithin, GoodOf
  <1>3. state = "Stopped" /\ PreludesIntact => GivenUp
    BY <1>1 DEF AlignedInv, Aligned
  <1>4. \A i, j \in DOMAIN decoded :
           (i < j => decoded[i] < decoded[j]) /\ frames[decoded[i]] = "good"
    <2>1. DOMAIN decoded = 1 .. Len(decoded)
      BY <1>1 DEF DecTypeOK
    <2> QED
      BY <1>1, <2>1 DEF OrderInv
  <1> QED
    BY <1>2, <1>3, <1>4 DEF OnlyDamagedFramesAreLost, GivenUp

(* Of the EventStreamDecoder: a damaged frame costs that frame and no other, *)
(* the decoder gives up only behind MaxErrors damaged frames in a row, and   *)
(* it never hands on what was not sent, twice or out of order; for streams,  *)
(* chunks, frames and buffers of any size.                                   *)
THEOREM OnlyDamagedFramesAreEverLost == DecoderSpec => []OnlyDamagedFramesAreLost
  <1>1. DecoderInit => DecoderInv
    BY InitInv
  <1>2. DecoderInv /\ [DecoderNext]_decoderVars => DecoderInv'
    BY DecoderKeepsInv
  <1>3. DecoderInv => OnlyDamagedFramesAreLost
    BY InvGives
  <1> QED
    BY <1>1, <1>2, <1>3, PTL DEF DecoderSpec

IsSeq(s) == s \in Seq({s[k] : k \in DOMAIN s})

LEMMA LeastNumber ==
    \A T \in SUBSET Nat : T # {} => \E x \in T : \A y \in T : x <= y
  <1> DEFINE R == {ss \in Nat \X Nat : ss[1] < ss[2]}
  <1>1. IsWellFoundedOn(R, Nat)
    BY NatLessThanWellFounded DEF OpToRel
  <1>2. \A a, b \in Nat : a < b => <<a, b>> \in R
    OBVIOUS
  <1> HIDE DEF R
  <1> SUFFICES ASSUME NEW T \in SUBSET Nat, T # {}
               PROVE  \E x \in T : \A y \in T : x <= y
    OBVIOUS
  <1>3. PICK x \in T : \A y \in T : ~ (<<y, x>> \in R)
    BY <1>1, WFMin
  <1>4. \A y \in T : x <= y
    <2>1. \A y \in T : y \in Nat /\ x \in Nat /\ ~ (y < x)
      BY <1>2, <1>3
    <2> QED
      BY <2>1
  <1> QED
    BY <1>4

LEMMA SeqIsSeq ==
    ASSUME NEW T, NEW s \in Seq(T)
    PROVE  IsSeq(s)
  <1> DEFINE R == {s[k] : k \in DOMAIN s}
  <1>1. Len(s) \in Nat /\ DOMAIN s = 1 .. Len(s)
    OBVIOUS
  <1>2. \A k \in 1 .. Len(s) : s[k] \in R
    BY <1>1
  <1> HIDE DEF R
  <1>3. SubSeq(s, 1, Len(s)) \in Seq(R)
    BY <1>1, <1>2, SubSeqProperties
  <1>4. s \in Seq(R)
    BY <1>3, SubSeqFull
  <1> QED
    BY <1>4 DEF IsSeq, R

LEMMA IsSeqFacts ==
    ASSUME NEW s, IsSeq(s)
    PROVE  Len(s) \in Nat /\ DOMAIN s = 1 .. Len(s)
  BY DEF IsSeq

\* What is appended, said of the new sequence.
Appended(s, e, t) ==
    /\ IsSeq(t) /\ Len(s) \in Nat /\ Len(t) = Len(s) + 1
    /\ DOMAIN s = 1 .. Len(s) /\ DOMAIN t = 1 .. (Len(s) + 1)
    /\ \A k \in 1 .. Len(s) : t[k] = s[k]
    /\ t[Len(s) + 1] = e

LEMMA AppendSeq ==
    ASSUME NEW s, IsSeq(s), NEW e
    PROVE  Appended(s, e, Append(s, e))
  <1> DEFINE T == {s[k] : k \in DOMAIN s} \cup {e}
             t == Append(s, e)
  <1>1. s \in Seq({s[k] : k \in DOMAIN s})
    BY DEF IsSeq
  <1>2. s \in Seq(T) /\ e \in T
    BY <1>1, SeqMonotonic
  <1> HIDE DEF T
  <1>3. t \in Seq(T)
    BY <1>2
  <1>4. IsSeq(t)
    BY <1>3, SeqIsSeq
  <1>5. /\ Len(s) \in Nat /\ Len(t) = Len(s) + 1
        /\ DOMAIN s = 1 .. Len(s) /\ DOMAIN t = 1 .. (Len(s) + 1)
        /\ \A k \in 1 .. Len(s) : t[k] = s[k]
        /\ t[Len(s) + 1] = e
    BY <1>2, <1>3
  <1> QED
    BY <1>4, <1>5 DEF Appended

Concats(s, u, t) ==
    /\ IsSeq(t) /\ Len(s) \in Nat /\ Len(u) \in Nat /\ Len(t) = Len(s) + Len(u)
    /\ DOMAIN s = 1 .. Len(s) /\ DOMAIN t = 1 .. (Len(s) + Len(u))
    /\ \A k \in 1 .. Len(s) : t[k] = s[k]
    /\ \A k \in 1 .. Len(u) : t[Len(s) + k] = u[k]

LEMMA ConcatSeq ==
    ASSUME NEW s, IsSeq(s), NEW u, IsSeq(u)
    PROVE  Concats(s, u, s \o u)
  <1> DEFINE t == s \o u
  <1> DEFINE T == {s[k] : k \in DOMAIN s} \cup {u[k] : k \in DOMAIN u}
  <1>1. s \in Seq({s[k] : k \in DOMAIN s}) /\ u \in Seq({u[k] : k \in DOMAIN u})
    BY DEF IsSeq
  <1>2. s \in Seq(T) /\ u \in Seq(T)
    BY <1>1, SeqMonotonic
  <1> HIDE DEF T
  <1>3. t \in Seq(T)
    BY <1>2
  <1>4. /\ Len(t) = Len(s) + Len(u)
        /\ \A i \in 1 .. Len(s) + Len(u) : t[i] = IF i <= Len(s) THEN s[i] ELSE u[i - Len(s)]
    BY <1>2, ConcatProperties
  <1>5. Len(s) \in Nat /\ Len(u) \in Nat /\ DOMAIN s = 1 .. Len(s)
    BY <1>2
  <1>6. \A k \in 1 .. Len(u) : t[Len(s) + k] = u[k]
    <2> SUFFICES ASSUME NEW k \in 1 .. Len(u) PROVE t[Len(s) + k] = u[k]
      OBVIOUS
    <2>1. Len(s) + k \in 1 .. Len(s) + Len(u) /\ ~(Len(s) + k <= Len(s)) /\ (Len(s) + k) - Len(s) = k
      BY <1>5
    <2> QED
      BY <1>4, <2>1
  <1>7. \A k \in 1 .. Len(s) : t[k] = s[k]
    BY <1>4, <1>5
  <1>8. DOMAIN t = 1 .. (Len(s) + Len(u))
    BY <1>3, <1>4
  <1> QED
    BY <1>3, <1>4, <1>5, <1>6, <1>7, <1>8, SeqIsSeq DEF Concats

LEMMA MaxUpTo ==
    ASSUME NEW n \in Nat, NEW T \in SUBSET (1 .. n), T # {}
    PROVE  Max(T) \in T /\ \A y \in T : y <= Max(T)
  <1> DEFINE U == {n - y : y \in T}
  <1>1. U \in SUBSET Nat /\ U # {}
    <2>1. \A y \in T : n - y \in Nat
      OBVIOUS
    <2>2. PICK z \in T : TRUE
      OBVIOUS
    <2>3. n - z \in U
      BY <2>2
    <2>4. \A u \in U : u \in Nat
      BY <2>1
    <2> QED
      BY <2>3, <2>4, Zenon
  <1>2. PICK u \in U : \A y \in U : u <= y
    BY <1>1, LeastNumber
  <1>3. PICK x \in T : u = n - x
    BY <1>2
  <1>4. \A y \in T : x >= y
    <2> SUFFICES ASSUME NEW y \in T PROVE x >= y
      OBVIOUS
    <2>1. n - x <= n - y
      BY <1>2, <1>3
    <2> QED
      BY <2>1
  <1>5. Max(T) \in T /\ \A y \in T : Max(T) >= y
    BY <1>4 DEF Max
  <1> QED
    BY <1>5

LEMMA MaxIsTop ==
    ASSUME NEW n \in Nat, NEW T \in SUBSET (1 .. n), n \in T
    PROVE  Max(T) = n
  <1>1. Max(T) \in T /\ n <= Max(T)
    BY MaxUpTo
  <1>2. Max(T) \in 1 .. n
    BY <1>1
  <1> QED
    BY <1>1, <1>2

\* The recursion equation of a fold, over the first n places.
Folds(f, n, base, next) ==
    f = [s \in SUBSET (1 .. n) |-> IF s = {} THEN base ELSE next[<<f[s \ {Max(s)}], Max(s)>>]]

LEMMA FoldExists ==
    ASSUME NEW N \in Nat, NEW V, NEW base \in V, NEW next \in [V \X (1 .. N) -> V]
    PROVE  \E f \in [SUBSET (1 .. N) -> V] : Folds(f, N, base, next)
  <1> DEFINE Ok(n) == \E f \in [SUBSET (1 .. n) -> V] : Folds(f, n, base, next)
             Bad == {n \in Nat : n <= N /\ ~ Ok(n)}
  <1>1. SUFFICES ASSUME Bad # {} PROVE FALSE
    <2>1. Bad = {} => Ok(N)
      <3>1. N <= N
        OBVIOUS
      <3> HIDE DEF Ok
      <3> QED
        BY <3>1
    <2> QED
      BY <2>1
  <1>2. PICK n \in Bad : \A m \in Bad : n <= m
    <2>1. Bad \in SUBSET Nat
      OBVIOUS
    <2> HIDE DEF Bad
    <2> QED
      BY <1>1, <2>1, LeastNumber, Zenon
  <1>3. CASE n = 0
    <2> DEFINE f == [s \in SUBSET (1 .. n) |-> base]
    <2>1. \A s \in SUBSET (1 .. n) : s = {}
      BY <1>3
    <2>2. f \in [SUBSET (1 .. n) -> V] /\ Folds(f, n, base, next)
      BY <2>1 DEF Folds
    <2> HIDE DEF f
    <2> QED
      BY <1>2, <2>2
  <1>4. CASE n # 0
    <2>1. n \in Nat /\ n <= N
      BY <1>2
    <2>2. n - 1 \in Nat /\ n - 1 <= N /\ n - 1 \notin Bad /\ n \in Nat /\ n <= N /\ n \in 1 .. N
      <3>1. n - 1 \in Nat /\ n - 1 <= N /\ ~ (n <= n - 1) /\ n \in 1 .. N
        BY <1>4, <2>1
      <3> HIDE DEF Bad
      <3> QED
        BY <1>2, <2>1, <3>1
    <2>3. PICK g \in [SUBSET (1 .. n - 1) -> V] : Folds(g, n - 1, base, next)
      BY <2>2
    <2> DEFINE f == [s \in SUBSET (1 .. n) |-> IF n \in s THEN next[<<g[s \ {n}], n>>] ELSE g[s]]
    <2>4. ASSUME NEW s \in SUBSET (1 .. n)
          PROVE  /\ n \in s => s \ {n} \in SUBSET (1 .. n - 1)
                 /\ n \notin s => s \in SUBSET (1 .. n - 1)
      BY <2>2
    <2>5. f \in [SUBSET (1 .. n) -> V]
      <3>1. ASSUME NEW s \in SUBSET (1 .. n)
            PROVE  (IF n \in s THEN next[<<g[s \ {n}], n>>] ELSE g[s]) \in V
        <4>1. CASE n \in s
          <5>1. g[s \ {n}] \in V
            BY <2>3, <2>4, <4>1
          <5> QED
            BY <2>2, <4>1, <5>1
        <4>2. CASE n \notin s
          BY <2>3, <2>4, <4>2
        <4> QED
          BY <4>1, <4>2
      <3> QED
        BY <3>1
    <2>6. ASSUME NEW s \in SUBSET (1 .. n)
          PROVE  f[s] = IF s = {} THEN base ELSE next[<<f[s \ {Max(s)}], Max(s)>>]
      <3>1. CASE n \in s
        <4>1. Max(s) = n
          BY <2>2, <3>1, MaxIsTop
        <4>2. s \ {n} \in SUBSET (1 .. n)
          OBVIOUS
        <4>3. f[s \ {n}] = g[s \ {n}]
          BY <4>2
        <4> QED
          BY <3>1, <4>1, <4>3
      <3>2. CASE n \notin s /\ s = {}
        <4>1. s \in SUBSET (1 .. n - 1)
          BY <2>4, <3>2
        <4>2. g[s] = base
          BY <2>3, <3>2, <4>1 DEF Folds
        <4> QED
          BY <3>2, <4>2
      <3>3. CASE n \notin s /\ s # {}
        <4>1. s \in SUBSET (1 .. n - 1)
          BY <2>4, <3>3
        <4> DEFINE r == s \ {Max(s)}
        <4>2. g[s] = next[<<g[r], Max(s)>>]
          BY <2>3, <3>3, <4>1 DEF Folds
        <4>3. r \in SUBSET (1 .. n) /\ n \notin r
          BY <3>3
        <4>4. f[r] = g[r]
          BY <4>3
        <4> HIDE DEF r
        <4>5. f[s] = g[s]
          BY <3>3
        <4> QED
          BY <3>3, <4>2, <4>4, <4>5 DEF r
      <3> QED
        BY <3>1, <3>2, <3>3
    <2>7. Folds(f, n, base, next)
      <3>1. f = [s \in SUBSET (1 .. n) |-> f[s]]
        OBVIOUS
      <3> HIDE DEF f
      <3>2. [s \in SUBSET (1 .. n) |-> f[s]]
              = [s \in SUBSET (1 .. n) |-> IF s = {} THEN base ELSE next[<<f[s \ {Max(s)}], Max(s)>>]]
        BY <2>6
      <3> QED
        BY <3>1, <3>2 DEF Folds
    <2> HIDE DEF f
    <2>8. Ok(n)
      BY <2>5, <2>7
    <2> QED
      BY <1>2, <2>8
  <1> QED
    BY <1>3, <1>4

\* The first k places.
LEMMA FirstPlaces ==
    ASSUME NEW n \in Nat
    PROVE  /\ 1 .. 0 = {} /\ 1 .. 0 \in SUBSET (1 .. n)
           /\ \A k \in 1 .. n : /\ k - 1 \in 0 .. n /\ 1 .. k \in SUBSET (1 .. n) /\ 1 .. k # {}
                                /\ Max(1 .. k) = k /\ (1 .. k) \ {Max(1 .. k)} = 1 .. (k - 1)
  <1>1. 1 .. 0 = {} /\ 1 .. 0 \in SUBSET (1 .. n)
    OBVIOUS
  <1>2. ASSUME NEW k \in 1 .. n
        PROVE  /\ k - 1 \in 0 .. n /\ 1 .. k \in SUBSET (1 .. n) /\ 1 .. k # {}
               /\ Max(1 .. k) = k /\ (1 .. k) \ {Max(1 .. k)} = 1 .. (k - 1)
    <2>1. k \in Nat /\ 1 .. k \in SUBSET (1 .. n) /\ k \in 1 .. k /\ k - 1 \in 0 .. n
      OBVIOUS
    <2>2. Max(1 .. k) = k
      BY <2>1, MaxIsTop
    <2>3. (1 .. k) \ {k} = 1 .. (k - 1)
      OBVIOUS
    <2> QED
      BY <2>1, <2>2, <2>3
  <1> QED
    BY <1>1, <1>2

\* What every step keeps holds at every place.
LEMMA ChainIn ==
    ASSUME NEW n \in Nat, NEW V, NEW L, L[0] \in V,
           \A k \in 1 .. n : L[k - 1] \in V => L[k] \in V
    PROVE  \A k \in 0 .. n : L[k] \in V
  <1> DEFINE Bad == {k \in Nat : k <= n /\ L[k] \notin V}
  <1>1. SUFFICES ASSUME Bad # {} PROVE FALSE
    OBVIOUS
  <1>2. PICK k \in Bad : \A m \in Bad : k <= m
    <2>1. Bad \in SUBSET Nat
      OBVIOUS
    <2> HIDE DEF Bad
    <2> QED
      BY <1>1, <2>1, LeastNumber, Zenon
  <1>3. k \in Nat /\ k <= n /\ L[k] \notin V
    BY <1>2
  <1>4. k # 0
    BY <1>3
  <1>5. k - 1 \in Nat /\ k - 1 <= n /\ ~ (k <= k - 1) /\ k \in 1 .. n
    BY <1>3, <1>4
  <1>6. L[k - 1] \in V
    BY <1>2, <1>5
  <1> QED
    BY <1>3, <1>5, <1>6

\* Induction over the length of a sequence, for a property that is the set of
\* the sequences that have it.
LEMMA SeqInduct ==
    ASSUME NEW U, NEW V, <<>> \in V,
           \A s \in Seq(U), x \in U : s \in V => Append(s, x) \in V
    PROVE  \A s \in Seq(U) : s \in V
  <1> DEFINE Bad == {k \in Nat : \E s \in Seq(U) : Len(s) = k /\ s \notin V}
  <1>1. SUFFICES ASSUME Bad # {} PROVE FALSE
    BY LenProperties
  <1>2. PICK k \in Bad : \A m \in Bad : k <= m
    <2>1. Bad \in SUBSET Nat
      OBVIOUS
    <2> HIDE DEF Bad
    <2> QED
      BY <1>1, <2>1, LeastNumber, Zenon
  <1>3. PICK s \in Seq(U) : Len(s) = k /\ s \notin V
    BY <1>2
  <1>4. s # <<>>
    BY <1>3
  <1>5. PICK t \in Seq(U), x \in U : s = Append(t, x)
    BY <1>4, SequenceEmptyOrAppend
  <1>6. Len(s) = Len(t) + 1 /\ Len(t) \in Nat
    BY <1>5, AppendProperties, LenProperties
  <1>7. Len(t) \notin Bad
    BY <1>2, <1>3, <1>6
  <1>8. t \in V
    BY <1>6, <1>7
  <1> QED
    BY <1>3, <1>5, <1>8

-----------------------------------------------------------------------------
(* Folds of a sequence from the left, for a step that is a function.         *)

Folded(next, base, s, r) ==
    \E L : /\ L[0] = base /\ L[Len(s)] = r
           /\ \A k \in 1 .. Len(s) : L[k] = next[<<L[k - 1], s[k]>>]

LEMMA FoldedEmpty ==
    ASSUME NEW next, NEW base, NEW r, Folded(next, base, <<>>, r)
    PROVE  r = base
  <1>1. Len(<<>>) = 0
    OBVIOUS
  <1> QED
    BY <1>1 DEF Folded

LEMMA FoldedAppend ==
    ASSUME NEW U, NEW s \in Seq(U), NEW x \in U, NEW next, NEW base, NEW r, NEW q,
           Folded(next, base, s, r), Folded(next, base, Append(s, x), q)
    PROVE  q = next[<<r, x>>]
  <1> DEFINE n == Len(s)
             t == Append(s, x)
  <1>1. n \in Nat /\ Len(t) = n + 1 /\ t[n + 1] = x /\ \A k \in 1 .. n : t[k] = s[k]
    BY AppendProperties, LenProperties
  <1>2. PICK L : L[0] = base /\ L[n] = r /\ \A k \in 1 .. n : L[k] = next[<<L[k - 1], s[k]>>]
    BY DEF Folded
  <1>3. PICK M : /\ M[0] = base /\ M[Len(t)] = q
                 /\ \A k \in 1 .. Len(t) : M[k] = next[<<M[k - 1], t[k]>>]
    BY DEF Folded
  <1> HIDE DEF n, t
  <1> DEFINE W == [k \in 0 .. n |-> IF L[k] = M[k] THEN 1 ELSE 0]
  <1>4. W[0] = 1
    BY <1>1, <1>2, <1>3
  <1>5. ASSUME NEW k \in 1 .. n, W[k - 1] = 1 PROVE W[k] = 1
    <2>1. k - 1 \in 0 .. n /\ k \in 0 .. n /\ k \in 1 .. Len(t)
      BY <1>1
    <2>2. L[k - 1] = M[k - 1] /\ t[k] = s[k]
      BY <1>1, <1>5, <2>1
    <2>3. L[k] = M[k]
      BY <1>2, <1>3, <2>1, <2>2
    <2> QED
      BY <2>1, <2>3
  <1> HIDE DEF W
  <1> DEFINE V == {1}
  <1>6. W[0] \in V /\ \A k \in 1 .. n : W[k - 1] \in V => W[k] \in V
    BY <1>4, <1>5
  <1> HIDE DEF V
  <1>7. \A k \in 0 .. n : W[k] \in V
    BY <1>1, <1>6, ChainIn
  <1>8. n \in 0 .. n /\ n + 1 \in 1 .. Len(t) /\ (n + 1) - 1 = n
    BY <1>1
  <1>9. W[n] = 1
    BY <1>7, <1>8 DEF V
  <1>10. M[n] = r
    BY <1>2, <1>8, <1>9 DEF W
  <1>11. M[n + 1] = next[<<M[(n + 1) - 1], t[n + 1]>>]
    BY <1>3, <1>8
  <1> QED
    BY <1>1, <1>3, <1>8, <1>10, <1>11 DEF t

LEMMA FoldedIn ==
    ASSUME NEW U, NEW s \in Seq(U), NEW V, NEW next \in [V \X U -> V], NEW base \in V, NEW r,
           Folded(next, base, s, r)
    PROVE  r \in V
  <1> DEFINE n == Len(s)
  <1>1. n \in Nat /\ \A k \in 1 .. n : s[k] \in U
    BY LenProperties, ElementOfSeq
  <1>2. PICK L : L[0] = base /\ L[n] = r /\ \A k \in 1 .. n : L[k] = next[<<L[k - 1], s[k]>>]
    BY DEF Folded
  <1> HIDE DEF n
  <1>3. L[0] \in V /\ \A k \in 1 .. n : L[k - 1] \in V => L[k] \in V
    BY <1>1, <1>2
  <1>4. \A k \in 0 .. n : L[k] \in V
    BY <1>1, <1>3, ChainIn
  <1>5. n \in 0 .. n
    BY <1>1
  <1> QED
    BY <1>2, <1>4, <1>5

\* The library's recursion over the places of a sequence is such a fold.
Iterates(iter, next, base, s) ==
    iter = [S \in SUBSET (DOMAIN s) |->
               IF S = {} THEN base ELSE next[<<iter[S \ {Max(S)}], s[Max(S)]>>]]

LEMMA IteratesFolded ==
    ASSUME NEW U, NEW s \in Seq(U), NEW next, NEW base, NEW iter, Iterates(iter, next, base, s)
    PROVE  Folded(next, base, s, iter[DOMAIN s])
  <1> DEFINE n == Len(s)
             L == [k \in 0 .. n |-> iter[1 .. k]]
  <1>1. n \in Nat /\ DOMAIN s = 1 .. n
    BY LenProperties
  <1> HIDE DEF n
  <1>2. iter = [S \in SUBSET (1 .. n) |->
                   IF S = {} THEN base ELSE next[<<iter[S \ {Max(S)}], s[Max(S)]>>]]
    BY <1>1 DEF Iterates
  <1>3. iter[1 .. 0] = base
    BY <1>1, <1>2, FirstPlaces
  <1>4. L[0] = base /\ L[n] = iter[DOMAIN s]
    BY <1>1, <1>3
  <1>5. ASSUME NEW k \in 1 .. n PROVE L[k] = next[<<L[k - 1], s[k]>>]
    <2>1. /\ k - 1 \in 0 .. n /\ 1 .. k \in SUBSET (1 .. n) /\ 1 .. k # {}
          /\ Max(1 .. k) = k /\ (1 .. k) \ {Max(1 .. k)} = 1 .. (k - 1)
      BY <1>1, FirstPlaces
    <2>2. iter[1 .. k] = next[<<iter[1 .. (k - 1)], s[k]>>]
      BY <1>2, <2>1
    <2>3. L[k] = iter[1 .. k] /\ L[k - 1] = iter[1 .. (k - 1)]
      BY <1>1, <2>1
    <2> QED
      BY <2>2, <2>3
  <1> HIDE DEF L
  <1> QED
    BY <1>4, <1>5 DEF Folded, n

LEMMA IteratesExists ==
    ASSUME NEW U, NEW s \in Seq(U), NEW V, NEW next \in [V \X U -> V], NEW base \in V
    PROVE  \E iter \in [SUBSET (DOMAIN s) -> V] : Iterates(iter, next, base, s)
  <1> DEFINE n == Len(s)
             nx == [p \in V \X (1 .. n) |-> next[<<p[1], s[p[2]]>>]]
  <1>1. n \in Nat /\ DOMAIN s = 1 .. n /\ \A k \in 1 .. n : s[k] \in U
    BY LenProperties, ElementOfSeq
  <1> HIDE DEF n
  <1>2. nx \in [V \X (1 .. n) -> V]
    <2>1. \A p \in V \X (1 .. n) : next[<<p[1], s[p[2]]>>] \in V
      BY <1>1
    <2> QED
      BY <2>1
  <1>3. \A v \in V, k \in 1 .. n : nx[<<v, k>>] = next[<<v, s[k]>>]
    OBVIOUS
  <1> HIDE DEF nx
  <1>4. PICK f \in [SUBSET (1 .. n) -> V] : Folds(f, n, base, nx)
    BY <1>1, <1>2, FoldExists
  <1>5. ASSUME NEW S \in SUBSET (1 .. n)
        PROVE  (IF S = {} THEN base ELSE nx[<<f[S \ {Max(S)}], Max(S)>>])
                 = IF S = {} THEN base ELSE next[<<f[S \ {Max(S)}], s[Max(S)]>>]
    <2>1. CASE S = {}
      BY <2>1
    <2>2. CASE S # {}
      <3>1. Max(S) \in 1 .. n /\ S \ {Max(S)} \in SUBSET (1 .. n)
        BY <1>1, <2>2, MaxUpTo
      <3>2. f[S \ {Max(S)}] \in V
        BY <3>1
      <3> QED
        BY <1>3, <2>2, <3>1, <3>2
    <2> QED
      BY <2>1, <2>2
  <1>6. Iterates(f, next, base, s)
    BY <1>1, <1>4, <1>5 DEF Folds, Iterates
  <1> QED
    BY <1>1, <1>4, <1>6

Agree(f, g, V, U) == \A v \in V, x \in U : f[<<v, x>>] = g[<<v, x>>]

LEMMA FoldedSame ==
    ASSUME NEW U, NEW s \in Seq(U), NEW V, NEW next \in [V \X U -> V], NEW base \in V, NEW r,
           NEW other, Agree(other, next, V, U),
           Folded(other, base, s, r)
    PROVE  Folded(next, base, s, r)
  <1> DEFINE n == Len(s)
  <1>1. n \in Nat /\ \A k \in 1 .. n : s[k] \in U
    BY LenProperties, ElementOfSeq
  <1>2. PICK L : L[0] = base /\ L[n] = r /\ \A k \in 1 .. n : L[k] = other[<<L[k - 1], s[k]>>]
    BY DEF Folded
  <1> HIDE DEF n
  <1>3. ASSUME NEW k \in 1 .. n, L[k - 1] \in V
        PROVE  L[k] = next[<<L[k - 1], s[k]>>] /\ L[k] \in V
    <2>1. other[<<L[k - 1], s[k]>>] = next[<<L[k - 1], s[k]>>] /\ next[<<L[k - 1], s[k]>>] \in V
      BY <1>1, <1>3 DEF Agree
    <2> QED
      BY <1>2, <2>1
  <1>4. L[0] \in V /\ \A k \in 1 .. n : L[k - 1] \in V => L[k] \in V
    BY <1>2, <1>3
  <1>5. \A k \in 0 .. n : L[k] \in V
    BY <1>1, <1>4, ChainIn
  <1>6. \A k \in 1 .. n : k - 1 \in 0 .. n
    BY <1>1
  <1>7. \A k \in 1 .. n : L[k] = next[<<L[k - 1], s[k]>>]
    BY <1>3, <1>5, <1>6
  <1> QED
    BY <1>2, <1>7 DEF Folded, n

-----------------------------------------------------------------------------
(* The elements of a sequence that are in a set.                             *)

Keeps(next, U, T) ==
    /\ next \in [Seq(U) \X U -> Seq(U)]
    /\ \A v \in Seq(U), x \in U : next[<<v, x>>] = IF x \in T THEN Append(v, x) ELSE v

LEMMA KeepingExists ==
    ASSUME NEW U, NEW T
    PROVE  \E next : Keeps(next, U, T)
  <1> DEFINE next == [p \in Seq(U) \X U |-> IF p[2] \in T THEN Append(p[1], p[2]) ELSE p[1]]
  <1>1. \A p \in Seq(U) \X U : (IF p[2] \in T THEN Append(p[1], p[2]) ELSE p[1]) \in Seq(U)
    BY AppendProperties
  <1>2. next \in [Seq(U) \X U -> Seq(U)]
    BY <1>1
  <1>3. \A v \in Seq(U), x \in U : next[<<v, x>>] = IF x \in T THEN Append(v, x) ELSE v
    OBVIOUS
  <1> HIDE DEF next
  <1> QED
    BY <1>2, <1>3 DEF Keeps

LEMMA ThoseFolded ==
    ASSUME NEW U, NEW s \in Seq(U), NEW T, NEW next, Keeps(next, U, T)
    PROVE  Folded(next, <<>>, s, Those(s, T))
  <1> DEFINE iter[S \in SUBSET (DOMAIN s)] ==
                 IF S = {} THEN <<>>
                 ELSE IF s[Max(S)] \in T THEN Append(iter[S \ {Max(S)}], s[Max(S)])
                      ELSE iter[S \ {Max(S)}]
             V == Seq(U)
  <1>1. Those(s, T) = iter[DOMAIN s]
    BY DEF Those, FoldLeft, MapThenFoldSet
  <1>2. /\ next \in [V \X U -> V] /\ <<>> \in V
        /\ \A v \in V, x \in U : next[<<v, x>>] = IF x \in T THEN Append(v, x) ELSE v
    BY EmptySeq DEF Keeps
  <1>3. /\ Len(s) \in Nat /\ DOMAIN s = 1 .. Len(s)
        /\ \A S \in SUBSET (DOMAIN s) : S # {} =>
              Max(S) \in DOMAIN s /\ s[Max(S)] \in U /\ S \ {Max(S)} \in SUBSET (DOMAIN s)
    <2>1. Len(s) \in Nat /\ DOMAIN s = 1 .. Len(s) /\ \A k \in DOMAIN s : s[k] \in U
      BY LenProperties, ElementOfSeq
    <2>2. \A S \in SUBSET (DOMAIN s) : S # {} => Max(S) \in DOMAIN s
      BY <2>1, MaxUpTo
    <2> QED
      BY <2>1, <2>2
  <1>4. PICK f \in [SUBSET (DOMAIN s) -> V] : Iterates(f, next, <<>>, s)
    BY <1>2, IteratesExists
  <1>5. f = [S \in SUBSET (DOMAIN s) |->
               IF S = {} THEN <<>>
               ELSE IF s[Max(S)] \in T THEN Append(f[S \ {Max(S)}], s[Max(S)])
                    ELSE f[S \ {Max(S)}]]
    <2>1. ASSUME NEW S \in SUBSET (DOMAIN s)
          PROVE  (IF S = {} THEN <<>> ELSE next[<<f[S \ {Max(S)}], s[Max(S)]>>])
                   = IF S = {} THEN <<>>
                     ELSE IF s[Max(S)] \in T THEN Append(f[S \ {Max(S)}], s[Max(S)])
                          ELSE f[S \ {Max(S)}]
      BY <1>2, <1>3
    <2> QED
      BY <1>4, <2>1 DEF Iterates
  <1>6. iter = [S \in SUBSET (DOMAIN s) |->
                  IF S = {} THEN <<>>
                  ELSE IF s[Max(S)] \in T THEN Append(iter[S \ {Max(S)}], s[Max(S)])
                       ELSE iter[S \ {Max(S)}]]
    BY <1>5
  <1> HIDE DEF iter, V
  <1> DEFINE W == V \cup {iter[S] : S \in SUBSET (DOMAIN s)}
             other == [p \in W \X U |-> IF p[2] \in T THEN Append(p[1], p[2]) ELSE p[1]]
  <1>7. Agree(other, next, V, U)
    BY <1>2 DEF Agree
  <1>8. Iterates(iter, other, <<>>, s)
    <2>1. ASSUME NEW S \in SUBSET (DOMAIN s)
          PROVE  (IF S = {} THEN <<>>
                  ELSE IF s[Max(S)] \in T THEN Append(iter[S \ {Max(S)}], s[Max(S)])
                       ELSE iter[S \ {Max(S)}])
                   = IF S = {} THEN <<>> ELSE other[<<iter[S \ {Max(S)}], s[Max(S)]>>]
      <3>1. CASE S # {}
        <4>1. iter[S \ {Max(S)}] \in W /\ s[Max(S)] \in U
          BY <1>3, <3>1
        <4> HIDE DEF W
        <4> QED
          BY <3>1, <4>1
      <3> QED
        BY <3>1
    <2> HIDE DEF other
    <2> QED
      BY <1>6, <2>1 DEF Iterates
  <1> HIDE DEF other
  <1>9. Folded(other, <<>>, s, iter[DOMAIN s])
    BY <1>8, IteratesFolded
  <1>10. Folded(next, <<>>, s, iter[DOMAIN s])
    BY <1>2, <1>7, <1>9, FoldedSame
  <1> QED
    BY <1>1, <1>10

\* The empty sequence, one more element, and what a sequence is made of.
LEMMA ThoseIs ==
    ASSUME NEW U, NEW T
    PROVE  /\ Those(<<>>, T) = <<>>
           /\ \A s \in Seq(U) : Those(s, T) \in Seq(U)
           /\ \A s \in Seq(U), x \in U :
                 Those(Append(s, x), T) = IF x \in T THEN Append(Those(s, T), x) ELSE Those(s, T)
  <1>0. PICK next : Keeps(next, U, T)
    BY KeepingExists
  <1>1. /\ next \in [Seq(U) \X U -> Seq(U)] /\ <<>> \in Seq(U)
        /\ \A v \in Seq(U), x \in U : next[<<v, x>>] = IF x \in T THEN Append(v, x) ELSE v
    BY <1>0, EmptySeq DEF Keeps
  <1>2. \A s \in Seq(U) : Folded(next, <<>>, s, Those(s, T))
    BY <1>0, ThoseFolded
  <1>3. Those(<<>>, T) = <<>>
    BY <1>1, <1>2, FoldedEmpty
  <1>4. \A s \in Seq(U) : Those(s, T) \in Seq(U)
    BY <1>1, <1>2, FoldedIn
  <1>5. ASSUME NEW s \in Seq(U), NEW x \in U
        PROVE  Those(Append(s, x), T) = IF x \in T THEN Append(Those(s, T), x) ELSE Those(s, T)
    <2>1. Append(s, x) \in Seq(U)
      BY AppendProperties
    <2>2. /\ Folded(next, <<>>, s, Those(s, T))
          /\ Folded(next, <<>>, Append(s, x), Those(Append(s, x), T))
      BY <1>2, <2>1
    <2>3. Those(Append(s, x), T) = next[<<Those(s, T), x>>]
      BY <2>2, FoldedAppend, Zenon
    <2> QED
      BY <1>1, <1>4, <2>3
  <1> QED
    BY <1>3, <1>4, <1>5

-----------------------------------------------------------------------------
(* Sequences joined one after the other.                                     *)

Joins(next, U) ==
    /\ next \in [Seq(U) \X Seq(U) -> Seq(U)]
    /\ \A v \in Seq(U), x \in Seq(U) : next[<<v, x>>] = v \o x

LEMMA JoiningExists ==
    ASSUME NEW U
    PROVE  \E next : Joins(next, U)
  <1> DEFINE next == [p \in Seq(U) \X Seq(U) |-> p[1] \o p[2]]
  <1>1. \A p \in Seq(U) \X Seq(U) : p[1] \o p[2] \in Seq(U)
    BY ConcatProperties
  <1>2. next \in [Seq(U) \X Seq(U) -> Seq(U)]
    BY <1>1
  <1>3. \A v \in Seq(U), x \in Seq(U) : next[<<v, x>>] = v \o x
    OBVIOUS
  <1> HIDE DEF next
  <1> QED
    BY <1>2, <1>3 DEF Joins

LEMMA FlattenFolded ==
    ASSUME NEW U, NEW ss \in Seq(Seq(U)), NEW next, Joins(next, U)
    PROVE  Folded(next, <<>>, ss, FlattenSeq(ss))
  <1> DEFINE n == Len(ss)
             flatten[i \in 1 .. n] == IF i = 1 THEN ss[i] ELSE flatten[i - 1] \o ss[i]
             V == Seq(U)
  <1>1. /\ next \in [V \X V -> V] /\ <<>> \in V
        /\ \A v \in V, x \in V : next[<<v, x>>] = v \o x
    BY EmptySeq DEF Joins
  <1>2. n \in Nat /\ DOMAIN ss = 1 .. n /\ \A k \in 1 .. n : ss[k] \in V
    BY LenProperties, ElementOfSeq
  <1>3. FlattenSeq(ss) = IF n = 0 THEN ss ELSE flatten[n]
    BY DEF FlattenSeq
  <1>4. \A x \in V : <<>> \o x = x
    BY ConcatEmptySeq
  <1> HIDE DEF V
  <1>5. PICK iter \in [SUBSET (DOMAIN ss) -> V] : Iterates(iter, next, <<>>, ss)
    BY <1>1, IteratesExists DEF V
  <1>6. PICK L : /\ L[0] = <<>> /\ L[n] = iter[DOMAIN ss]
                 /\ \A k \in 1 .. n : L[k] = next[<<L[k - 1], ss[k]>>]
    BY <1>5, IteratesFolded DEF Folded
  <1> HIDE DEF n
  <1>7. \A k \in 0 .. n : L[k] \in V
    <2>1. L[0] \in V /\ \A k \in 1 .. n : L[k - 1] \in V => L[k] \in V
      BY <1>1, <1>2, <1>6
    <2> QED
      BY <1>2, <2>1, ChainIn
  <1>8. flatten = [i \in 1 .. n |-> IF i = 1 THEN ss[i] ELSE flatten[i - 1] \o ss[i]]
    <2> DEFINE f == [i \in 1 .. n |-> L[i]]
    <2>1. ASSUME NEW i \in 1 .. n
          PROVE  f[i] = IF i = 1 THEN ss[i] ELSE f[i - 1] \o ss[i]
      <3>1. i - 1 \in 0 .. n /\ L[i] = next[<<L[i - 1], ss[i]>>] /\ L[i - 1] \in V /\ ss[i] \in V
        BY <1>2, <1>6, <1>7
      <3>2. L[i] = L[i - 1] \o ss[i]
        BY <1>1, <3>1
      <3>3. CASE i = 1
        <4>1. L[i - 1] = <<>>
          BY <1>6, <3>3
        <4> QED
          BY <1>4, <3>1, <3>2, <3>3, <4>1
      <3>4. CASE i # 1
        <4>1. i - 1 \in 1 .. n
          BY <1>2, <3>4
        <4> QED
          BY <3>2, <3>4, <4>1
      <3> QED
        BY <3>3, <3>4
    <2>2. f = [i \in 1 .. n |-> IF i = 1 THEN ss[i] ELSE f[i - 1] \o ss[i]]
      <3>1. f = [i \in 1 .. n |-> f[i]]
        OBVIOUS
      <3> HIDE DEF f
      <3> QED
        BY <2>1, <3>1
    <2> HIDE DEF f
    <2> QED
      BY <2>2
  <1> HIDE DEF flatten
  <1> DEFINE M == [k \in 0 .. n |-> IF k = 0 THEN <<>> ELSE flatten[k]]
  <1>9. M[0] = <<>> /\ M[n] = FlattenSeq(ss)
    <2>1. 0 \in 0 .. n /\ n \in 0 .. n
      BY <1>2
    <2>2. CASE n = 0
      <3>1. ss = <<>>
        BY <1>2, <2>2, EmptySeq DEF n
      <3> QED
        BY <1>3, <2>1, <2>2, <3>1
    <2> QED
      BY <1>3, <2>1, <2>2
  <1>10. ASSUME NEW k \in 1 .. n, M[k - 1] \in V
         PROVE  M[k] = next[<<M[k - 1], ss[k]>>] /\ M[k] \in V
    <2>1. k - 1 \in 0 .. n /\ k \in 0 .. n /\ k # 0 /\ M[k] = flatten[k] /\ ss[k] \in V
      BY <1>2
    <2>2. M[k] = M[k - 1] \o ss[k]
      <3>1. CASE k = 1
        <4>1. M[k - 1] = <<>>
          BY <2>1, <3>1
        <4> QED
          BY <1>4, <1>8, <2>1, <3>1, <4>1
      <3>2. CASE k # 1
        <4>1. k - 1 # 0 /\ M[k - 1] = flatten[k - 1]
          BY <2>1, <3>2
        <4> QED
          BY <1>8, <2>1, <3>2, <4>1
      <3> QED
        BY <3>1, <3>2
    <2>3. next[<<M[k - 1], ss[k]>>] = M[k - 1] \o ss[k] /\ next[<<M[k - 1], ss[k]>>] \in V
      BY <1>1, <1>10, <2>1
    <2> QED
      BY <2>2, <2>3
  <1> HIDE DEF M
  <1>11. \A k \in 0 .. n : M[k] \in V
    <2>1. M[0] \in V /\ \A k \in 1 .. n : M[k - 1] \in V => M[k] \in V
      BY <1>1, <1>9, <1>10
    <2> QED
      BY <1>2, <2>1, ChainIn
  <1>12. \A k \in 1 .. n : M[k] = next[<<M[k - 1], ss[k]>>]
    <2>1. \A k \in 1 .. n : k - 1 \in 0 .. n
      BY <1>2
    <2> QED
      BY <1>10, <1>11, <2>1
  <1> QED
    BY <1>9, <1>12 DEF Folded, n

LEMMA FlattenIs ==
    ASSUME NEW U
    PROVE  /\ FlattenSeq(<<>>) = <<>>
           /\ \A ss \in Seq(Seq(U)) : FlattenSeq(ss) \in Seq(U)
           /\ \A ss \in Seq(Seq(U)), s \in Seq(U) :
                 FlattenSeq(Append(ss, s)) = FlattenSeq(ss) \o s
  <1> DEFINE V == Seq(U)
  <1>1. PICK next : Joins(next, U)
    BY JoiningExists
  <1>2. /\ next \in [V \X V -> V] /\ <<>> \in V
        /\ \A v \in V, x \in V : next[<<v, x>>] = v \o x
    BY <1>1, EmptySeq DEF Joins
  <1>3. \A ss \in Seq(V) : Folded(next, <<>>, ss, FlattenSeq(ss))
    BY <1>1, FlattenFolded
  <1> HIDE DEF V
  <1>4. FlattenSeq(<<>>) = <<>>
    <2>1. <<>> \in Seq(V)
      BY EmptySeq
    <2> QED
      BY <1>3, <2>1, FoldedEmpty
  <1>5. \A ss \in Seq(V) : FlattenSeq(ss) \in V
    BY <1>2, <1>3, FoldedIn
  <1>6. ASSUME NEW ss \in Seq(V), NEW s \in V
        PROVE  FlattenSeq(Append(ss, s)) = FlattenSeq(ss) \o s
    <2>1. Append(ss, s) \in Seq(V)
      BY AppendProperties
    <2>2. /\ Folded(next, <<>>, ss, FlattenSeq(ss))
          /\ Folded(next, <<>>, Append(ss, s), FlattenSeq(Append(ss, s)))
      BY <1>3, <2>1
    <2>3. FlattenSeq(Append(ss, s)) = next[<<FlattenSeq(ss), s>>]
      BY <2>2, FoldedAppend, Zenon
    <2>4. FlattenSeq(ss) \in V
      BY <1>5
    <2> QED
      BY <1>2, <2>3, <2>4
  <1> QED
    BY <1>4, <1>5, <1>6 DEF V

\* One more element at the end of the second of two sequences.
LEMMA ConcatAppend ==
    ASSUME NEW U, NEW s \in Seq(U), NEW t \in Seq(U), NEW x \in U
    PROVE  s \o Append(t, x) = Append(s \o t, x)
  <1>1. <<x>> \in Seq(U) /\ s \o t \in Seq(U)
    BY ConcatProperties
  <1>2. Append(t, x) = t \o <<x>> /\ Append(s \o t, x) = (s \o t) \o <<x>>
    BY <1>1, AppendIsConcat
  <1>3. (s \o t) \o <<x>> = s \o (t \o <<x>>)
    BY <1>1, ConcatAssociative
  <1> QED
    BY <1>2, <1>3

LEMMA ThoseConcat ==
    ASSUME NEW U, NEW T, NEW s \in Seq(U), NEW t \in Seq(U)
    PROVE  Those(s \o t, T) = Those(s, T) \o Those(t, T)
  <1> DEFINE V == {q \in Seq(U) : Those(s \o q, T) = Those(s, T) \o Those(q, T)}
  <1>0. /\ Those(<<>>, T) = <<>>
        /\ \A q \in Seq(U) : Those(q, T) \in Seq(U)
        /\ \A q \in Seq(U), x \in U :
              Those(Append(q, x), T) = IF x \in T THEN Append(Those(q, T), x) ELSE Those(q, T)
    BY ThoseIs
  <1>1. <<>> \in V
    <2>1. s \o <<>> = s /\ Those(s, T) \o <<>> = Those(s, T) /\ <<>> \in Seq(U)
      BY <1>0, ConcatEmptySeq, EmptySeq
    <2> QED
      BY <1>0, <2>1
  <1>2. ASSUME NEW q \in Seq(U), NEW x \in U, q \in V PROVE Append(q, x) \in V
    <2>1. s \o q \in Seq(U) /\ Append(q, x) \in Seq(U) /\ s \o Append(q, x) = Append(s \o q, x)
      BY ConcatProperties, AppendProperties, ConcatAppend
    <2>2. Those(s \o q, T) = Those(s, T) \o Those(q, T)
      BY <1>2
    <2>3. CASE x \in T
      <3>1. Those(s, T) \o Append(Those(q, T), x) = Append(Those(s, T) \o Those(q, T), x)
        BY <1>0, ConcatAppend
      <3>2. /\ Those(Append(s \o q, x), T) = Append(Those(s \o q, T), x)
            /\ Those(Append(q, x), T) = Append(Those(q, T), x)
        BY <1>0, <2>1, <2>3
      <3> QED
        BY <2>1, <2>2, <3>1, <3>2
    <2>4. CASE x \notin T
      <3>1. /\ Those(Append(s \o q, x), T) = Those(s \o q, T)
            /\ Those(Append(q, x), T) = Those(q, T)
        BY <1>0, <2>1, <2>4
      <3> QED
        BY <2>1, <2>2, <3>1
    <2> QED
      BY <2>3, <2>4
  <1> HIDE DEF V
  <1>3. t \in V
    BY <1>1, <1>2, SeqInduct
  <1> QED
    BY <1>3 DEF V

\* What an appended sequence is made of.
LEMMA ToSetAppend ==
    ASSUME NEW U, NEW s \in Seq(U), NEW x \in U
    PROVE  ToSet(Append(s, x)) = ToSet(s) \cup {x} /\ ToSet(s) \in SUBSET U
  <1>1. /\ Len(s) \in Nat /\ Len(Append(s, x)) = Len(s) + 1 /\ DOMAIN s = 1 .. Len(s)
        /\ DOMAIN Append(s, x) = 1 .. (Len(s) + 1)
        /\ \A i \in 1 .. Len(s) : Append(s, x)[i] = s[i] /\ s[i] \in U
        /\ Append(s, x)[Len(s) + 1] = x
    BY AppendProperties, LenProperties, ElementOfSeq
  <1>2. \A i \in 1 .. (Len(s) + 1) : i \in 1 .. Len(s) \/ i = Len(s) + 1
    BY <1>1
  <1>3. \A i \in 1 .. Len(s) : i \in 1 .. (Len(s) + 1)
    BY <1>1
  <1>4. Len(s) + 1 \in 1 .. (Len(s) + 1)
    BY <1>1
  <1> QED
    BY <1>1, <1>2, <1>3, <1>4 DEF ToSet

LEMMA ToSetConcat ==
    ASSUME NEW U, NEW s \in Seq(U), NEW t \in Seq(U)
    PROVE  ToSet(s \o t) = ToSet(s) \cup ToSet(t)
  <1> DEFINE V == {q \in Seq(U) : ToSet(s \o q) = ToSet(s) \cup ToSet(q)}
  <1>1. <<>> \in V
    <2>1. s \o <<>> = s /\ <<>> \in Seq(U) /\ ToSet(<<>>) = {}
      BY ConcatEmptySeq, EmptySeq DEF ToSet
    <2> QED
      BY <2>1
  <1>2. ASSUME NEW q \in Seq(U), NEW x \in U, q \in V PROVE Append(q, x) \in V
    <2>1. s \o q \in Seq(U) /\ Append(q, x) \in Seq(U) /\ s \o Append(q, x) = Append(s \o q, x)
      BY ConcatProperties, AppendProperties, ConcatAppend
    <2>2. ToSet(Append(q, x)) = ToSet(q) \cup {x}
      BY ToSetAppend
    <2>4. ToSet(Append(s \o q, x)) = ToSet(s \o q) \cup {x}
      <3> DEFINE r == s \o q
      <3>1. r \in Seq(U)
        BY <2>1
      <3> HIDE DEF r
      <3>2. ToSet(Append(r, x)) = ToSet(r) \cup {x}
        BY <3>1, ToSetAppend
      <3> QED
        BY <3>2 DEF r
    <2>3. ToSet(s \o q) = ToSet(s) \cup ToSet(q)
      BY <1>2
    <2> QED
      BY <2>1, <2>2, <2>3, <2>4
  <1> HIDE DEF V
  <1>3. t \in V
    BY <1>1, <1>2, SeqInduct
  <1> QED
    BY <1>3 DEF V

LEMMA ThoseRange ==
    ASSUME NEW U, NEW T, NEW s \in Seq(U)
    PROVE  ToSet(Those(s, T)) = ToSet(s) \cap T
  <1> DEFINE V == {q \in Seq(U) : ToSet(Those(q, T)) = ToSet(q) \cap T}
  <1>0. /\ Those(<<>>, T) = <<>>
        /\ \A q \in Seq(U) : Those(q, T) \in Seq(U)
        /\ \A q \in Seq(U), x \in U :
              Those(Append(q, x), T) = IF x \in T THEN Append(Those(q, T), x) ELSE Those(q, T)
    BY ThoseIs
  <1>1. <<>> \in V
    <2>1. <<>> \in Seq(U) /\ ToSet(<<>>) = {}
      BY EmptySeq DEF ToSet
    <2> QED
      BY <1>0, <2>1
  <1>2. ASSUME NEW q \in Seq(U), NEW x \in U, q \in V PROVE Append(q, x) \in V
    <2>1. Append(q, x) \in Seq(U) /\ Those(q, T) \in Seq(U)
      BY <1>0, AppendProperties
    <2>2. /\ ToSet(Append(q, x)) = ToSet(q) \cup {x}
          /\ ToSet(Append(Those(q, T), x)) = ToSet(Those(q, T)) \cup {x}
      BY <2>1, ToSetAppend
    <2>3. ToSet(Those(q, T)) = ToSet(q) \cap T
      BY <1>2
    <2>4. Those(Append(q, x), T) = IF x \in T THEN Append(Those(q, T), x) ELSE Those(q, T)
      BY <1>0
    <2> QED
      BY <2>1, <2>2, <2>3, <2>4
  <1> HIDE DEF V
  <1>3. s \in V
    BY <1>1, <1>2, SeqInduct
  <1> QED
    BY <1>3 DEF V

LEMMA ThoseTwice ==
    ASSUME NEW U, NEW T, NEW Q, NEW s \in Seq(U)
    PROVE  Those(Those(s, T), Q) = Those(s, T \cap Q)
  <1> DEFINE V == {q \in Seq(U) : Those(Those(q, T), Q) = Those(q, T \cap Q)}
  <1>0. \A A : /\ Those(<<>>, A) = <<>>
               /\ \A q \in Seq(U) : Those(q, A) \in Seq(U)
               /\ \A q \in Seq(U), x \in U :
                     Those(Append(q, x), A) = IF x \in A THEN Append(Those(q, A), x) ELSE Those(q, A)
    BY ThoseIs
  <1>1. <<>> \in V
    <2>1. Those(<<>>, T) = <<>> /\ Those(<<>>, Q) = <<>> /\ Those(<<>>, T \cap Q) = <<>>
      BY <1>0
    <2> QED
      BY <2>1, EmptySeq
  <1>2. ASSUME NEW q \in Seq(U), NEW x \in U, q \in V PROVE Append(q, x) \in V
    <2>1. Append(q, x) \in Seq(U) /\ Those(q, T) \in Seq(U)
      BY <1>0, AppendProperties
    <2>2. Those(Append(q, x), T) = IF x \in T THEN Append(Those(q, T), x) ELSE Those(q, T)
      BY <1>0
    <2>3. Those(Append(Those(q, T), x), Q)
            = IF x \in Q THEN Append(Those(Those(q, T), Q), x) ELSE Those(Those(q, T), Q)
      BY <1>0, <2>1
    <2>4. Those(Append(q, x), T \cap Q)
            = IF x \in T \cap Q THEN Append(Those(q, T \cap Q), x) ELSE Those(q, T \cap Q)
      BY <1>0
    <2>5. Those(Those(q, T), Q) = Those(q, T \cap Q)
      BY <1>2
    <2>6. Those(Those(Append(q, x), T), Q) = Those(Append(q, x), T \cap Q)
      <3>1. CASE x \in T /\ x \in Q
        BY <2>2, <2>3, <2>4, <2>5, <3>1
      <3>2. CASE x \in T /\ x \notin Q
        BY <2>2, <2>3, <2>4, <2>5, <3>2
      <3>3. CASE x \notin T
        BY <2>2, <2>4, <2>5, <3>3
      <3> QED
        BY <3>1, <3>2, <3>3
    <2> QED
      BY <2>1, <2>6
  <1> HIDE DEF V
  <1>3. s \in V
    BY <1>1, <1>2, SeqInduct
  <1> QED
    BY <1>3 DEF V

\* Two sets with the same elements of a sequence keep the same of it.
LEMMA ThoseSame ==
    ASSUME NEW U, NEW T, NEW Q, NEW s \in Seq(U), ToSet(s) \cap T = ToSet(s) \cap Q
    PROVE  Those(s, T) = Those(s, Q)
  <1> DEFINE V == {q \in Seq(U) : ToSet(q) \cap T = ToSet(q) \cap Q => Those(q, T) = Those(q, Q)}
  <1>0. \A A : /\ Those(<<>>, A) = <<>>
               /\ \A q \in Seq(U), x \in U :
                     Those(Append(q, x), A) = IF x \in A THEN Append(Those(q, A), x) ELSE Those(q, A)
    BY ThoseIs
  <1>1. <<>> \in V
    <2>1. Those(<<>>, T) = <<>> /\ Those(<<>>, Q) = <<>>
      BY <1>0
    <2> QED
      BY <2>1, EmptySeq
  <1>2. ASSUME NEW q \in Seq(U), NEW x \in U, q \in V PROVE Append(q, x) \in V
    <2>1. Append(q, x) \in Seq(U) /\ ToSet(Append(q, x)) = ToSet(q) \cup {x}
      BY AppendProperties, ToSetAppend
    <2>2. /\ Those(Append(q, x), T) = IF x \in T THEN Append(Those(q, T), x) ELSE Those(q, T)
          /\ Those(Append(q, x), Q) = IF x \in Q THEN Append(Those(q, Q), x) ELSE Those(q, Q)
      BY <1>0
    <2>3. ASSUME (ToSet(q) \cup {x}) \cap T = (ToSet(q) \cup {x}) \cap Q
          PROVE  ToSet(q) \cap T = ToSet(q) \cap Q /\ (x \in T <=> x \in Q)
      BY <2>3
    <2> QED
      BY <1>2, <2>1, <2>2, <2>3
  <1> HIDE DEF V
  <1>3. s \in V
    BY <1>1, <1>2, SeqInduct
  <1> QED
    BY <1>3 DEF V

LEMMA ThoseAll ==
    ASSUME NEW U, NEW s \in Seq(U)
    PROVE  Those(s, U) = s /\ Those(s, {}) = <<>>
  <1> DEFINE V == {q \in Seq(U) : Those(q, U) = q /\ Those(q, {}) = <<>>}
  <1>0. \A A : /\ Those(<<>>, A) = <<>>
               /\ \A q \in Seq(U), x \in U :
                     Those(Append(q, x), A) = IF x \in A THEN Append(Those(q, A), x) ELSE Those(q, A)
    BY ThoseIs
  <1>1. <<>> \in V
    <2>1. Those(<<>>, U) = <<>> /\ Those(<<>>, {}) = <<>>
      BY <1>0
    <2> QED
      BY <2>1, EmptySeq
  <1>2. ASSUME NEW q \in Seq(U), NEW x \in U, q \in V PROVE Append(q, x) \in V
    <2>1. /\ Append(q, x) \in Seq(U)
          /\ Those(Append(q, x), U) = Append(Those(q, U), x)
          /\ Those(Append(q, x), {}) = Those(q, {})
      BY <1>0, AppendProperties
    <2> QED
      BY <1>2, <2>1
  <1> HIDE DEF V
  <1>3. s \in V
    BY <1>1, <1>2, SeqInduct
  <1> QED
    BY <1>3 DEF V

\* How many places of a sequence have an element of a set.
LEMMA PlacesLen ==
    ASSUME NEW U, NEW Q, NEW s \in Seq(U)
    PROVE  /\ IsFiniteSet({i \in DOMAIN s : s[i] \in Q})
           /\ Cardinality({i \in DOMAIN s : s[i] \in Q}) = Len(Those(s, Q))
  <1> DEFINE P(q) == {i \in DOMAIN q : q[i] \in Q}
             V == {q \in Seq(U) : IsFiniteSet(P(q)) /\ Cardinality(P(q)) = Len(Those(q, Q))}
  <1>0. /\ Those(<<>>, Q) = <<>>
        /\ \A q \in Seq(U) : Those(q, Q) \in Seq(U)
        /\ \A q \in Seq(U), x \in U :
              Those(Append(q, x), Q) = IF x \in Q THEN Append(Those(q, Q), x) ELSE Those(q, Q)
    BY ThoseIs
  <1>1. <<>> \in V
    <2>1. P(<<>>) = {} /\ <<>> \in Seq(U) /\ Len(Those(<<>>, Q)) = 0
      BY <1>0, EmptySeq
    <2> HIDE DEF P
    <2> QED
      BY <2>1, FS_EmptySet
  <1>2. ASSUME NEW q \in Seq(U), NEW x \in U, q \in V PROVE Append(q, x) \in V
    <2>1. /\ Append(q, x) \in Seq(U) /\ Len(q) \in Nat /\ DOMAIN q = 1 .. Len(q)
          /\ DOMAIN Append(q, x) = 1 .. (Len(q) + 1)
          /\ \A i \in 1 .. Len(q) : Append(q, x)[i] = q[i]
          /\ Append(q, x)[Len(q) + 1] = x
      BY AppendProperties, LenProperties
    <2>2. P(Append(q, x)) = IF x \in Q THEN P(q) \cup {Len(q) + 1} ELSE P(q)
      <3>1. \A i \in 1 .. (Len(q) + 1) : i \in 1 .. Len(q) \/ i = Len(q) + 1
        BY <2>1
      <3>2. Len(q) + 1 \in 1 .. (Len(q) + 1) /\ \A i \in 1 .. Len(q) : i \in 1 .. (Len(q) + 1)
        BY <2>1
      <3>3. ASSUME NEW i PROVE i \in P(Append(q, x))
                                 <=> i \in (IF x \in Q THEN P(q) \cup {Len(q) + 1} ELSE P(q))
        BY <2>1, <3>1, <3>2
      <3> HIDE DEF P
      <3> QED
        BY <3>3
    <2>3. Len(q) + 1 \notin P(q)
      BY <2>1
    <2>4. IsFiniteSet(P(q)) /\ Cardinality(P(q)) = Len(Those(q, Q))
      BY <1>2
    <2>5. CASE x \in Q
      <3>1. P(Append(q, x)) = P(q) \cup {Len(q) + 1} /\ Those(Append(q, x), Q) = Append(Those(q, Q), x)
        BY <1>0, <2>2, <2>5
      <3>2. Len(Append(Those(q, Q), x)) = Len(Those(q, Q)) + 1
        BY <1>0, AppendProperties
      <3> HIDE DEF P
      <3>3. /\ IsFiniteSet(P(q) \cup {Len(q) + 1})
            /\ Cardinality(P(q) \cup {Len(q) + 1}) = Cardinality(P(q)) + 1
        BY <2>3, <2>4, FS_AddElement
      <3> QED
        BY <2>1, <2>4, <3>1, <3>2, <3>3
    <2>6. CASE x \notin Q
      <3>1. P(Append(q, x)) = P(q) /\ Those(Append(q, x), Q) = Those(q, Q)
        BY <1>0, <2>2, <2>6
      <3> HIDE DEF P
      <3> QED
        BY <2>1, <2>4, <3>1
    <2> QED
      BY <2>5, <2>6
  <1> HIDE DEF V
  <1>3. s \in V
    BY <1>1, <1>2, SeqInduct
  <1> QED
    BY <1>3 DEF V

\* What every part of a joined sequence has and joining keeps, the whole has.
LEMMA FlattenClosed ==
    ASSUME NEW U, NEW W \in SUBSET Seq(U), <<>> \in W, \A v, x \in W : v \o x \in W,
           NEW ss \in Seq(W)
    PROVE  FlattenSeq(ss) \in W
  <1> DEFINE V == {q \in Seq(W) : FlattenSeq(q) \in W}
  <1>0. /\ FlattenSeq(<<>>) = <<>>
        /\ \A q \in Seq(Seq(U)), x \in Seq(U) : FlattenSeq(Append(q, x)) = FlattenSeq(q) \o x
    BY FlattenIs
  <1>1. <<>> \in V
    BY <1>0, EmptySeq
  <1>2. ASSUME NEW q \in Seq(W), NEW x \in W, q \in V PROVE Append(q, x) \in V
    <2>1. q \in Seq(Seq(U)) /\ x \in Seq(U) /\ Append(q, x) \in Seq(W)
      BY SeqMonotonic, AppendProperties
    <2> QED
      BY <1>0, <1>2, <2>1
  <1> HIDE DEF V
  <1>3. ss \in V
    BY <1>1, <1>2, SeqInduct
  <1> QED
    BY <1>3 DEF V

\* A joined sequence is made of what its parts are made of.
LEMMA FlattenRange ==
    ASSUME NEW U, NEW ss \in Seq(Seq(U))
    PROVE  \A x : x \in ToSet(FlattenSeq(ss)) <=> \E i \in DOMAIN ss : x \in ToSet(ss[i])
  <1> DEFINE V == {q \in Seq(Seq(U)) : \A x : x \in ToSet(FlattenSeq(q))
                                               <=> \E y \in ToSet(q) : x \in ToSet(y)}
             S == Seq(U)
  <1>0. /\ FlattenSeq(<<>>) = <<>>
        /\ \A q \in Seq(Seq(U)) : FlattenSeq(q) \in Seq(U)
        /\ \A q \in Seq(Seq(U)), x \in Seq(U) : FlattenSeq(Append(q, x)) = FlattenSeq(q) \o x
    BY FlattenIs
  <1>1. <<>> \in V
    <2>1. ToSet(<<>>) = {} /\ <<>> \in Seq(Seq(U))
      BY EmptySeq DEF ToSet
    <2> QED
      BY <1>0, <2>1
  <1>2. ASSUME NEW q \in Seq(S), NEW y \in S, q \in V PROVE Append(q, y) \in V
    <2>1. Append(q, y) \in Seq(S) /\ ToSet(Append(q, y)) = ToSet(q) \cup {y}
      BY AppendProperties, ToSetAppend
    <2>2. FlattenSeq(Append(q, y)) = FlattenSeq(q) \o y /\ FlattenSeq(q) \in Seq(U)
      BY <1>0
    <2>3. ToSet(FlattenSeq(Append(q, y))) = ToSet(FlattenSeq(q)) \cup ToSet(y)
      BY <2>2, ToSetConcat
    <2>4. \A x : x \in ToSet(FlattenSeq(q)) <=> \E z \in ToSet(q) : x \in ToSet(z)
      BY <1>2
    <2>5. \A x : x \in ToSet(FlattenSeq(Append(q, y)))
                   <=> \E z \in ToSet(Append(q, y)) : x \in ToSet(z)
      BY <2>1, <2>3, <2>4
    <2> QED
      BY <2>1, <2>5
  <1> HIDE DEF V
  <1>3. ss \in V
    <2> HIDE DEF S
    <2>1. ss \in Seq(S)
      BY DEF S
    <2> QED
      BY <1>1, <1>2, <2>1, SeqInduct
  <1>4. \A x : x \in ToSet(FlattenSeq(ss)) <=> \E y \in ToSet(ss) : x \in ToSet(y)
    BY <1>3 DEF V
  <1>5. ToSet(ss) = {ss[i] : i \in DOMAIN ss}
    BY DEF ToSet
  <1> QED
    BY <1>4, <1>5

\* Parts with at most one element of a set: as many as the whole has.
AtMostOne(U, Q) == {x \in Seq(U) : Len(Those(x, Q)) \in {0, 1}}
JustOne(U, Q)   == {x \in Seq(U) : Len(Those(x, Q)) = 1}

LEMMA FlattenCount ==
    ASSUME NEW U, NEW Q, NEW ss \in Seq(AtMostOne(U, Q))
    PROVE  Len(Those(FlattenSeq(ss), Q)) = Len(Those(ss, JustOne(U, Q)))
  <1> DEFINE W == AtMostOne(U, Q)
             One == JustOne(U, Q)
             V == {q \in Seq(W) : Len(Those(FlattenSeq(q), Q)) = Len(Those(q, One))}
  <1>0. /\ FlattenSeq(<<>>) = <<>>
        /\ \A q \in Seq(Seq(U)) : FlattenSeq(q) \in Seq(U)
        /\ \A q \in Seq(Seq(U)), x \in Seq(U) : FlattenSeq(Append(q, x)) = FlattenSeq(q) \o x
    BY FlattenIs
  <1>1. /\ Those(<<>>, Q) = <<>> /\ \A q \in Seq(U) : Those(q, Q) \in Seq(U)
    BY ThoseIs
  <1>2. /\ Those(<<>>, One) = <<>>
        /\ \A q \in Seq(W) : Those(q, One) \in Seq(W)
        /\ \A q \in Seq(W), x \in W :
              Those(Append(q, x), One) = IF x \in One THEN Append(Those(q, One), x) ELSE Those(q, One)
    <2> HIDE DEF One, W
    <2> QED
      BY ThoseIs
  <1>3. /\ W \in SUBSET Seq(U) /\ \A x \in W : Len(Those(x, Q)) \in {0, 1}
        /\ \A x \in W : x \in One <=> Len(Those(x, Q)) = 1
    BY DEF AtMostOne, JustOne
  <1> HIDE DEF W, One
  <1>4. <<>> \in V
    BY <1>0, <1>1, <1>2, EmptySeq
  <1>5. ASSUME NEW q \in Seq(W), NEW x \in W, q \in V PROVE Append(q, x) \in V
    <2>1. q \in Seq(Seq(U)) /\ x \in Seq(U) /\ Append(q, x) \in Seq(W)
      BY <1>3, SeqMonotonic, AppendProperties
    <2>2. FlattenSeq(Append(q, x)) = FlattenSeq(q) \o x /\ FlattenSeq(q) \in Seq(U)
      BY <1>0, <2>1
    <2>3. Those(FlattenSeq(Append(q, x)), Q) = Those(FlattenSeq(q), Q) \o Those(x, Q)
      BY <2>1, <2>2, ThoseConcat
    <2>4. Len(Those(FlattenSeq(Append(q, x)), Q)) = Len(Those(FlattenSeq(q), Q)) + Len(Those(x, Q))
      BY <1>1, <2>1, <2>2, <2>3, ConcatProperties
    <2>5. Len(Those(FlattenSeq(q), Q)) = Len(Those(q, One)) /\ Len(Those(q, One)) \in Nat
      BY <1>2, <1>5, LenProperties
    <2>6. CASE x \in One
      <3>1. Len(Those(x, Q)) = 1
        BY <1>3, <2>6
      <3>2. Those(Append(q, x), One) = Append(Those(q, One), x) /\ Those(q, One) \in Seq(W)
        BY <1>2, <2>6
      <3>3. Len(Append(Those(q, One), x)) = Len(Those(q, One)) + 1
        BY <3>2, AppendProperties
      <3> QED
        BY <2>1, <2>4, <2>5, <3>1, <3>2, <3>3
    <2>7. CASE x \notin One
      <3>1. Len(Those(x, Q)) = 0
        BY <1>3, <2>7
      <3>2. Those(Append(q, x), One) = Those(q, One)
        BY <1>2, <2>7
      <3> QED
        BY <2>1, <2>4, <2>5, <3>1, <3>2
    <2> QED
      BY <2>6, <2>7
  <1> HIDE DEF V
  <1>6. ss \in V
    <2>1. ss \in Seq(W)
      BY DEF W
    <2> QED
      BY <1>4, <1>5, <2>1, SeqInduct
  <1> QED
    BY <1>6 DEF V, One

LEMMA ListIsSeq ==
    ASSUME NEW s, IsList(s)
    PROVE  /\ IsSeq(s) /\ Len(s) \in Nat /\ DOMAIN s = 1 .. Len(s)
           /\ \A x : x \in ToSet(s) <=> \E k \in 1 .. Len(s) : x = s[k]
  <1>1. ToSet(s) = {s[k] : k \in DOMAIN s}
    BY DEF ToSet
  <1>2. s \in Seq(ToSet(s))
    BY DEF IsList
  <1>3. IsSeq(s)
    BY <1>1, <1>2 DEF IsSeq
  <1>4. Len(s) \in Nat /\ DOMAIN s = 1 .. Len(s)
    BY <1>2, LenProperties
  <1> QED
    BY <1>1, <1>3, <1>4

LEMMA SeqIsList ==
    ASSUME NEW U, NEW s \in Seq(U)
    PROVE  IsList(s) /\ ToSet(s) \in SUBSET U
  <1>1. ToSet(s) = {s[k] : k \in DOMAIN s}
    BY DEF ToSet
  <1>2. IsSeq(s)
    BY SeqIsSeq
  <1>3. s \in Seq(ToSet(s))
    BY <1>1, <1>2 DEF IsSeq
  <1>4. \A k \in DOMAIN s : s[k] \in U
    BY LenProperties, ElementOfSeq
  <1>5. IsList(s)
    BY <1>3 DEF IsList
  <1> QED
    BY <1>1, <1>4, <1>5

LEMMA ListIn ==
    ASSUME NEW U, NEW s, IsList(s), \A k \in DOMAIN s : s[k] \in U
    PROVE  s \in Seq(U)
  <1>1. ToSet(s) = {s[k] : k \in DOMAIN s}
    BY DEF ToSet
  <1>2. s \in Seq(ToSet(s))
    BY DEF IsList
  <1>3. ToSet(s) \in SUBSET U
    BY <1>1
  <1> QED
    BY <1>2, <1>3, SeqMonotonic

\* A list of what is at each place.
LEMMA PlacesIn ==
    ASSUME NEW U, NEW n \in Nat, NEW f, DOMAIN f = 1 .. n, f = [k \in 1 .. n |-> f[k]],
           \A k \in 1 .. n : f[k] \in U
    PROVE  f \in Seq(U) /\ Len(f) = n
  <1>1. f \in [1 .. n -> U]
    OBVIOUS
  <1>2. f \in Seq(U)
    BY <1>1, SeqDef
  <1>3. DOMAIN f = 1 .. Len(f) /\ Len(f) \in Nat
    BY <1>2, LenProperties
  <1>4. Len(f) = n
    BY <1>3
  <1> QED
    BY <1>2, <1>4

LEMMA ListConcat ==
    ASSUME NEW s, IsList(s), NEW t, IsList(t)
    PROVE  /\ IsList(s \o t) /\ ToSet(s \o t) = ToSet(s) \cup ToSet(t)
           /\ Concats(s, t, s \o t)
  <1> DEFINE U == ToSet(s) \cup ToSet(t)
  <1>1. s \in Seq(ToSet(s)) /\ t \in Seq(ToSet(t))
    BY DEF IsList
  <1>2. s \in Seq(U) /\ t \in Seq(U)
    BY <1>1, SeqMonotonic
  <1> HIDE DEF U
  <1>3. s \o t \in Seq(U)
    BY <1>2, ConcatProperties
  <1>4. IsList(s \o t)
    BY <1>3, SeqIsList
  <1>5. ToSet(s \o t) = ToSet(s) \cup ToSet(t)
    BY <1>2, ToSetConcat
  <1>6. IsSeq(s) /\ IsSeq(t)
    BY ListIsSeq
  <1>7. Concats(s, t, s \o t)
    BY <1>6, ConcatSeq
  <1> QED
    BY <1>4, <1>5, <1>7

-----------------------------------------------------------------------------
(* The items of a client become messages.                                    *)

IsCall(item) == item.type \in {"function_call", "custom_tool_call"}

BlocksOf(U) == {TextPart(i.s) : i \in U} \cup {ResultPart(i.id, i.s) : i \in U}
               \cup {UsePart(i.id, FlatName(i.namespace, i.name), Parsed(i.arguments)) :
                       i \in {j \in U : IsCall(j)}}
               \cup {UsePart(i.id, FlatName(i.namespace, i.name), Raw(i.s)) :
                       i \in {j \in U : IsCall(j)}}

Roles == {"user", "assistant"}
MessagesOf(U) == [role : Roles, blocks : Seq(BlocksOf(U))]
RequestsOf(U) == [system : Seq(BlocksOf(U)), messages : Seq(MessagesOf(U))]

LEMMA PushMergedIn ==
    ASSUME NEW B, NEW M, M = [role : Roles, blocks : Seq(B)],
           NEW merged \in Seq(M), NEW role \in Roles, NEW blocks \in Seq(B)
    PROVE  PushMerged(merged, role, blocks) \in Seq(M)
  <1>1. CASE blocks = <<>>
    BY <1>1 DEF PushMerged
  <1>2. CASE blocks # <<>> /\ merged # <<>> /\ Last(merged).role = role
    <2>1. Len(merged) \in Nat /\ Len(merged) \in 1 .. Len(merged) /\ DOMAIN merged = 1 .. Len(merged)
      BY <1>2, EmptySeq, LenProperties
    <2>2. merged[Len(merged)] \in M
      BY <2>1, ElementOfSeq
    <2> DEFINE e == [merged[Len(merged)] EXCEPT !.blocks = @ \o blocks]
    <2>3. merged[Len(merged)].blocks \o blocks \in Seq(B)
      BY <2>2, ConcatProperties
    <2>4. e \in M
      BY <2>2, <2>3
    <2>5. PushMerged(merged, role, blocks) = [merged EXCEPT ![Len(merged)] = e]
      BY <1>2, <2>1 DEF PushMerged
    <2> HIDE DEF e
    <2>6. [merged EXCEPT ![Len(merged)] = e] \in Seq(M)
      BY <2>1, <2>4, ExceptSeq
    <2> QED
      BY <2>5, <2>6
  <1>3. CASE blocks # <<>> /\ ~ (merged # <<>> /\ Last(merged).role = role)
    <2>1. [role |-> role, blocks |-> blocks] \in M
      OBVIOUS
    <2>2. PushMerged(merged, role, blocks) = Append(merged, [role |-> role, blocks |-> blocks])
      BY <1>3 DEF PushMerged
    <2> QED
      BY <2>1, <2>2, AppendProperties
  <1> QED
    BY <1>1, <1>2, <1>3

LEMMA TextsIn ==
    ASSUME NEW B, NEW s, TextPart(s) \in B
    PROVE  Texts(s) \in Seq(B)
  BY EmptySeq DEF Texts

LEMMA InputItemIn ==
    ASSUME NEW U, NEW acc \in RequestsOf(U), NEW item \in U
    PROVE  InputItem(acc, item) \in RequestsOf(U)
  <1> DEFINE B == BlocksOf(U)
             M == MessagesOf(U)
  <1>1. /\ TextPart(item.s) \in B /\ ResultPart(item.id, item.s) \in B
        /\ IsCall(item) =>
             /\ UsePart(item.id, FlatName(item.namespace, item.name), Parsed(item.arguments)) \in B
             /\ UsePart(item.id, FlatName(item.namespace, item.name), Raw(item.s)) \in B
    BY DEF BlocksOf
  <1>2. Texts(item.s) \in Seq(B)
    BY <1>1, TextsIn
  <1>3. /\ M = [role : Roles, blocks : Seq(B)]
        /\ acc \in [system : Seq(B), messages : Seq(M)]
        /\ RequestsOf(U) = [system : Seq(B), messages : Seq(M)]
    BY DEF RequestsOf, MessagesOf
  <1> HIDE DEF B, M
  <1>4. ASSUME NEW role \in Roles, NEW blocks \in Seq(B)
        PROVE  [acc EXCEPT !.messages = PushMerged(@, role, blocks)] \in RequestsOf(U)
    <2>1. PushMerged(acc.messages, role, blocks) \in Seq(M)
      BY <1>3, PushMergedIn
    <2> QED
      BY <1>3, <2>1
  <1>5. CASE item.type = "function_call"
    <2>1. <<UsePart(item.id, FlatName(item.namespace, item.name), Parsed(item.arguments))>> \in Seq(B)
      BY <1>1, <1>5 DEF IsCall
    <2> QED
      BY <1>4, <1>5, <2>1 DEF InputItem, Roles
  <1>6. CASE item.type = "custom_tool_call"
    <2>1. <<UsePart(item.id, FlatName(item.namespace, item.name), Raw(item.s))>> \in Seq(B)
      BY <1>1, <1>6 DEF IsCall
    <2> QED
      BY <1>4, <1>6, <2>1 DEF InputItem, Roles
  <1>7. CASE item.type = "output"
    <2>1. <<ResultPart(item.id, item.s)>> \in Seq(B)
      BY <1>1
    <2> QED
      BY <1>4, <1>7, <2>1 DEF InputItem, Roles
  <1>8. CASE item.type = "message" /\ item.role \in {"user", "assistant"}
    <2>1. item.role \in Roles
      BY <1>8 DEF Roles
    <2>2. [acc EXCEPT !.messages = PushMerged(@, item.role, Texts(item.s))] \in RequestsOf(U)
      BY <1>2, <1>4, <2>1
    <2> QED
      BY <1>8, <2>2 DEF InputItem
  <1>9. CASE item.type = "message" /\ item.role \in {"system", "developer"}
    <2>1. acc.system \o Texts(item.s) \in Seq(B)
      BY <1>2, <1>3, ConcatProperties
    <2>2. [acc EXCEPT !.system = @ \o Texts(item.s)] \in RequestsOf(U)
      BY <1>3, <2>1
    <2> QED
      BY <1>9, <2>2 DEF InputItem
  <1>10. CASE /\ item.type \notin {"function_call", "custom_tool_call", "output"}
              /\ ~ (item.type = "message" /\ item.role \in {"user", "assistant"})
              /\ ~ (item.type = "message" /\ item.role \in {"system", "developer"})
    BY <1>10 DEF InputItem
  <1> QED
    BY <1>5, <1>6, <1>7, <1>8, <1>9, <1>10

Enters(next, U) ==
    /\ next \in [RequestsOf(U) \X U -> RequestsOf(U)]
    /\ \A v \in RequestsOf(U), x \in U : next[<<v, x>>] = InputItem(v, x)

LEMMA EnteringExists ==
    ASSUME NEW U
    PROVE  \E next : Enters(next, U)
  <1> DEFINE next == [p \in RequestsOf(U) \X U |-> InputItem(p[1], p[2])]
  <1>1. \A p \in RequestsOf(U) \X U : InputItem(p[1], p[2]) \in RequestsOf(U)
    BY InputItemIn
  <1>2. next \in [RequestsOf(U) \X U -> RequestsOf(U)]
    BY <1>1
  <1>3. \A v \in RequestsOf(U), x \in U : next[<<v, x>>] = InputItem(v, x)
    OBVIOUS
  <1> HIDE DEF next
  <1> QED
    BY <1>2, <1>3 DEF Enters

NoRequest == [system |-> <<>>, messages |-> <<>>]

LEMMA NoRequestIn ==
    ASSUME NEW U
    PROVE  NoRequest \in RequestsOf(U)
  BY EmptySeq DEF NoRequest, RequestsOf

LEMMA InputFolded ==
    ASSUME NEW U, NEW s \in Seq(U), NEW next, Enters(next, U)
    PROVE  Folded(next, NoRequest, s, ItemsToAnthropic(s))
  <1> DEFINE base == NoRequest
             iter[S \in SUBSET (DOMAIN s)] ==
                 IF S = {} THEN base ELSE InputItem(iter[S \ {Max(S)}], s[Max(S)])
             V == RequestsOf(U)
  <1>1. ItemsToAnthropic(s) = iter[DOMAIN s]
    BY DEF ItemsToAnthropic, FoldLeft, MapThenFoldSet, NoRequest
  <1> HIDE DEF base
  <1>2. /\ next \in [V \X U -> V] /\ base \in V
        /\ \A v \in V, x \in U : next[<<v, x>>] = InputItem(v, x)
    BY NoRequestIn DEF Enters, base
  <1>3. /\ Len(s) \in Nat /\ DOMAIN s = 1 .. Len(s)
        /\ \A S \in SUBSET (DOMAIN s) : S # {} =>
              Max(S) \in DOMAIN s /\ s[Max(S)] \in U /\ S \ {Max(S)} \in SUBSET (DOMAIN s)
    <2>1. Len(s) \in Nat /\ DOMAIN s = 1 .. Len(s) /\ \A k \in DOMAIN s : s[k] \in U
      BY LenProperties, ElementOfSeq
    <2>2. \A S \in SUBSET (DOMAIN s) : S # {} => Max(S) \in DOMAIN s
      BY <2>1, MaxUpTo
    <2> QED
      BY <2>1, <2>2
  <1> HIDE DEF V
  <1>4. PICK f \in [SUBSET (DOMAIN s) -> V] : Iterates(f, next, base, s)
    BY <1>2, IteratesExists
  <1>5. f = [S \in SUBSET (DOMAIN s) |->
               IF S = {} THEN base ELSE InputItem(f[S \ {Max(S)}], s[Max(S)])]
    <2>1. ASSUME NEW S \in SUBSET (DOMAIN s)
          PROVE  (IF S = {} THEN base ELSE next[<<f[S \ {Max(S)}], s[Max(S)]>>])
                   = IF S = {} THEN base ELSE InputItem(f[S \ {Max(S)}], s[Max(S)])
      BY <1>2, <1>3
    <2> QED
      BY <1>4, <2>1 DEF Iterates
  <1>6. iter = [S \in SUBSET (DOMAIN s) |->
                  IF S = {} THEN base ELSE InputItem(iter[S \ {Max(S)}], s[Max(S)])]
    BY <1>5
  <1> HIDE DEF iter
  <1> DEFINE W == V \cup {iter[S] : S \in SUBSET (DOMAIN s)}
             other == [p \in W \X U |-> InputItem(p[1], p[2])]
  <1>7. Agree(other, next, V, U)
    BY <1>2 DEF Agree
  <1>8. Iterates(iter, other, base, s)
    <2>1. ASSUME NEW S \in SUBSET (DOMAIN s)
          PROVE  (IF S = {} THEN base ELSE InputItem(iter[S \ {Max(S)}], s[Max(S)]))
                   = IF S = {} THEN base ELSE other[<<iter[S \ {Max(S)}], s[Max(S)]>>]
      <3>1. CASE S # {}
        <4>1. iter[S \ {Max(S)}] \in W /\ s[Max(S)] \in U
          BY <1>3, <3>1
        <4> HIDE DEF W
        <4> QED
          BY <3>1, <4>1
      <3> QED
        BY <3>1
    <2> HIDE DEF other
    <2> QED
      BY <1>6, <2>1 DEF Iterates
  <1> HIDE DEF other
  <1>9. Folded(other, base, s, iter[DOMAIN s])
    BY <1>8, IteratesFolded
  <1>10. Folded(next, base, s, iter[DOMAIN s])
    BY <1>2, <1>7, <1>9, FoldedSame
  <1> QED
    BY <1>1, <1>10 DEF base

\* No items, one more item, and what the messages are made of.
LEMMA ItemsIs ==
    ASSUME NEW U
    PROVE  /\ ItemsToAnthropic(<<>>) = NoRequest
           /\ \A s \in Seq(U) : ItemsToAnthropic(s) \in RequestsOf(U)
           /\ \A s \in Seq(U), x \in U :
                 ItemsToAnthropic(Append(s, x)) = InputItem(ItemsToAnthropic(s), x)
  <1>0. PICK next : Enters(next, U)
    BY EnteringExists
  <1>1. /\ next \in [RequestsOf(U) \X U -> RequestsOf(U)] /\ NoRequest \in RequestsOf(U)
        /\ \A v \in RequestsOf(U), x \in U : next[<<v, x>>] = InputItem(v, x)
    BY <1>0, NoRequestIn DEF Enters
  <1>2. \A s \in Seq(U) : Folded(next, NoRequest, s, ItemsToAnthropic(s))
    BY <1>0, InputFolded
  <1>3. ItemsToAnthropic(<<>>) = NoRequest
    BY <1>2, EmptySeq, FoldedEmpty
  <1>4. \A s \in Seq(U) : ItemsToAnthropic(s) \in RequestsOf(U)
    BY <1>1, <1>2, FoldedIn
  <1>5. ASSUME NEW s \in Seq(U), NEW x \in U
        PROVE  ItemsToAnthropic(Append(s, x)) = InputItem(ItemsToAnthropic(s), x)
    <2>1. Append(s, x) \in Seq(U)
      BY AppendProperties
    <2>2. /\ Folded(next, NoRequest, s, ItemsToAnthropic(s))
          /\ Folded(next, NoRequest, Append(s, x), ItemsToAnthropic(Append(s, x)))
      BY <1>2, <2>1
    <2>3. ItemsToAnthropic(Append(s, x)) = next[<<ItemsToAnthropic(s), x>>]
      BY <2>2, FoldedAppend, Zenon
    <2> QED
      BY <1>1, <1>4, <2>3
  <1> QED
    BY <1>3, <1>4, <1>5

LEMMA MapList ==
    ASSUME NEW n \in Nat, NEW f, f = [k \in 1 .. n |-> f[k]]
    PROVE  IsList(f) /\ Len(f) = n /\ DOMAIN f = 1 .. n
  <1> DEFINE U == {f[k] : k \in 1 .. n}
  <1>1. DOMAIN f = 1 .. n
    OBVIOUS
  <1>2. \A k \in 1 .. n : f[k] \in U
    OBVIOUS
  <1> HIDE DEF U
  <1>3. f \in Seq(U) /\ Len(f) = n
    BY <1>1, <1>2, PlacesIn
  <1> QED
    BY <1>1, <1>3, SeqIsList

LEMMA ListOfEmpty ==
    /\ IsList(<<>>) /\ Len(<<>>) = 0 /\ \A x : IsList(<<x>>) /\ Len(<<x>>) = 1
    /\ ToSet(<<>>) = {} /\ \A x : ToSet(<<x>>) = {x}
  <1>1. <<>> \in Seq({}) /\ \A x : <<x>> \in Seq({x})
    BY EmptySeq
  <1>2. IsList(<<>>) /\ \A x : IsList(<<x>>)
    BY <1>1, SeqIsList
  <1>3. ToSet(<<>>) = {}
    BY DEF ToSet
  <1>4. ASSUME NEW x PROVE ToSet(<<x>>) = {x}
    BY DEF ToSet
  <1> QED
    BY <1>2, <1>3, <1>4

\* Lists joined, and what the result is made of.
LEMMA FlattenList ==
    ASSUME NEW ss, IsList(ss), \A k \in DOMAIN ss : IsList(ss[k])
    PROVE  /\ IsList(FlattenSeq(ss))
           /\ \A x : x \in ToSet(FlattenSeq(ss)) <=> \E k \in DOMAIN ss : x \in ToSet(ss[k])
  <1> DEFINE U == UNION {ToSet(ss[k]) : k \in DOMAIN ss}
  <1>1. \A k \in DOMAIN ss : ss[k] \in Seq(ToSet(ss[k])) /\ ToSet(ss[k]) \in SUBSET U
    BY DEF IsList
  <1> HIDE DEF U
  <1>2. \A k \in DOMAIN ss : ss[k] \in Seq(U)
    BY <1>1, SeqMonotonic
  <1> DEFINE V == Seq(U)
  <1>3. ss \in Seq(V)
    <2> HIDE DEF V
    <2>1. \A k \in DOMAIN ss : ss[k] \in V
      BY <1>2 DEF V
    <2> QED
      BY <2>1, ListIn
  <1>4. FlattenSeq(ss) \in Seq(U)
    BY <1>3, FlattenIs
  <1>5. IsList(FlattenSeq(ss))
    BY <1>4, SeqIsList
  <1>6. \A x : x \in ToSet(FlattenSeq(ss)) <=> \E k \in DOMAIN ss : x \in ToSet(ss[k])
    BY <1>3, FlattenRange
  <1> QED
    BY <1>5, <1>6

-----------------------------------------------------------------------------
(* What the items of a session look like.                                    *)

ItemOk(item) ==
    /\ IsCall(item) => FlatName(item.namespace, item.name) # "web_search"
    /\ item.type = "additional_tools" => AreTools(item.tools)

AllOk(s) == IsList(s) /\ \A k \in DOMAIN s : ItemOk(s[k])

ItemsOk == AllOk(items) /\ AreTools(declared)

LEMMA AllOkConcat ==
    ASSUME NEW s, AllOk(s), NEW t, AllOk(t)
    PROVE  AllOk(s \o t)
  <1>1. IsList(s \o t) /\ ToSet(s \o t) = ToSet(s) \cup ToSet(t)
    BY ListConcat DEF AllOk
  <1>2. \A r : ToSet(r) = {r[k] : k \in DOMAIN r}
    BY DEF ToSet
  <1>3. ASSUME NEW k \in DOMAIN (s \o t)
        PROVE  ItemOk((s \o t)[k])
    <2>1. (s \o t)[k] \in ToSet(s) \cup ToSet(t)
      BY <1>1, <1>2
    <2> QED
      BY <1>2, <2>1 DEF AllOk
  <1> QED
    BY <1>1, <1>3 DEF AllOk

\* The messages that are made of the items have no search among their calls.
LEMMA NoSearchOfItems ==
    ASSUME NEW s, AllOk(s)
    PROVE  /\ IsList(ItemsToAnthropic(s).messages)
           /\ \A k \in DOMAIN ItemsToAnthropic(s).messages :
                LET m == ItemsToAnthropic(s).messages[k]
                IN  /\ IsList(m.blocks) /\ m.role \in Roles
                    /\ \A b \in ToSet(m.blocks) : ~ (b.type = "tool_use" /\ b.name = "web_search")
  <1> DEFINE U == ToSet(s)
             r == ItemsToAnthropic(s)
             B == BlocksOf(U)
             M == MessagesOf(U)
  <1>1. s \in Seq(U) /\ U = {s[k] : k \in DOMAIN s}
    BY DEF AllOk, IsList, ToSet
  <1>2. \A i \in U : ItemOk(i)
    BY <1>1 DEF AllOk
  <1>3. \A b \in B : ~ (b.type = "tool_use" /\ b.name = "web_search")
    <2> SUFFICES ASSUME NEW b \in B
                 PROVE  ~ (b.type = "tool_use" /\ b.name = "web_search")
      OBVIOUS
    <2>1. CASE \E i \in U : b = TextPart(i.s) \/ b = ResultPart(i.id, i.s)
      BY <2>1 DEF TextPart, ResultPart
    <2>2. CASE \E i \in U : /\ IsCall(i)
                            /\ \/ b = UsePart(i.id, FlatName(i.namespace, i.name), Parsed(i.arguments))
                               \/ b = UsePart(i.id, FlatName(i.namespace, i.name), Raw(i.s))
      <3>1. PICK i \in U : /\ IsCall(i)
                           /\ \/ b = UsePart(i.id, FlatName(i.namespace, i.name), Parsed(i.arguments))
                              \/ b = UsePart(i.id, FlatName(i.namespace, i.name), Raw(i.s))
        BY <2>2
      <3>2. b.name = FlatName(i.namespace, i.name)
        BY <3>1 DEF UsePart
      <3> QED
        BY <1>2, <3>1, <3>2 DEF ItemOk
    <2> QED
      BY <2>1, <2>2 DEF BlocksOf
  <1> HIDE DEF U
  <1>4. r \in RequestsOf(U)
    BY <1>1, ItemsIs
  <1>5. r.messages \in Seq(M)
    BY <1>4 DEF RequestsOf
  <1> HIDE DEF r, B, M
  <1>6. IsList(r.messages) /\ ToSet(r.messages) \in SUBSET M
    BY <1>5, SeqIsList
  <1>7. ASSUME NEW k \in DOMAIN r.messages
        PROVE  /\ IsList(r.messages[k].blocks) /\ r.messages[k].role \in Roles
               /\ ToSet(r.messages[k].blocks) \in SUBSET B
    <2>1. r.messages[k] \in M
      BY <1>6 DEF ToSet
    <2>2. r.messages[k].blocks \in Seq(B) /\ r.messages[k].role \in Roles
      BY <2>1 DEF M, MessagesOf, B
    <2> QED
      BY <2>2, SeqIsList
  <1>8. \A k \in DOMAIN r.messages :
           /\ IsList(r.messages[k].blocks) /\ r.messages[k].role \in Roles
           /\ \A b \in ToSet(r.messages[k].blocks) : ~ (b.type = "tool_use" /\ b.name = "web_search")
    BY <1>3, <1>7
  <1> QED
    BY <1>6, <1>8 DEF r

-----------------------------------------------------------------------------
(* The declared tools.                                                       *)

ToolOk(tool) == tool.flat = FlatName(tool.namespace, tool.name)
ToolsOk(tools) == IsList(tools) /\ \A t \in ToSet(tools) : ToolOk(t)

LEMMA ToolOfOk ==
    ASSUME NEW entry, NEW space
    PROVE  ToolsOk(ToolOf(entry, space))
  <1> DEFINE t == [flat |-> FlatName(space, entry.name), kind |-> entry.type,
                   name |-> entry.name, namespace |-> space]
  <1>1. ToolOk(t)
    BY DEF ToolOk
  <1>2. ToolOf(entry, space) \in {<<>>, <<t>>}
    BY DEF ToolOf
  <1> HIDE DEF t
  <1>3. ToolsOk(<<>>) /\ ToolsOk(<<t>>)
    BY <1>1, ListOfEmpty DEF ToolsOk
  <1> QED
    BY <1>2, <1>3

LEMMA FlattenTools ==
    ASSUME NEW n \in Nat, NEW f, f = [k \in 1 .. n |-> f[k]], \A k \in 1 .. n : ToolsOk(f[k])
    PROVE  ToolsOk(FlattenSeq(f))
  <1>1. IsList(f) /\ DOMAIN f = 1 .. n
    BY MapList
  <1>2. /\ IsList(FlattenSeq(f))
        /\ \A x : x \in ToSet(FlattenSeq(f)) <=> \E k \in DOMAIN f : x \in ToSet(f[k])
    BY <1>1, FlattenList DEF ToolsOk
  <1> QED
    BY <1>1, <1>2 DEF ToolsOk

LEMMA DeclaredToolsOk ==
    ASSUME NEW entries, AreTools(entries)
    PROVE  ToolsOk(DeclaredTools(entries))
  <1> DEFINE inner(i) == [j \in DOMAIN entries[i].tools |->
                             ToolOf(entries[i].tools[j], entries[i].name)]
             f == [i \in DOMAIN entries |->
                      IF entries[i].type = "namespace" /\ entries[i].name # ""
                      THEN FlattenSeq(inner(i)) ELSE ToolOf(entries[i], "")]
             n == Len(entries)
  <1>1. n \in Nat /\ DOMAIN entries = 1 .. n /\ \A i \in 1 .. n : IsList(entries[i].tools)
    BY ListIsSeq DEF AreTools
  <1> HIDE DEF n
  <1>2. ASSUME NEW i \in 1 .. n PROVE ToolsOk(f[i])
    <2> DEFINE g == inner(i)
               m == Len(entries[i].tools)
    <2>1. m \in Nat /\ DOMAIN entries[i].tools = 1 .. m
      BY <1>1, ListIsSeq
    <2> HIDE DEF m
    <2>2. g = [j \in 1 .. m |-> g[j]]
      BY <2>1
    <2>3. \A j \in 1 .. m : ToolsOk(g[j])
      BY <2>1, ToolOfOk
    <2> HIDE DEF g
    <2>4. ToolsOk(FlattenSeq(g))
      BY <2>1, <2>2, <2>3, FlattenTools
    <2>5. ToolsOk(ToolOf(entries[i], ""))
      BY ToolOfOk
    <2>6. f[i] = IF entries[i].type = "namespace" /\ entries[i].name # ""
                 THEN FlattenSeq(g) ELSE ToolOf(entries[i], "")
      BY <1>1 DEF g
    <2> HIDE DEF f
    <2> QED
      BY <2>4, <2>5, <2>6
  <1>3. f = [i \in 1 .. n |-> f[i]]
    BY <1>1
  <1>4. DeclaredTools(entries) = FlattenSeq(f)
    BY DEF DeclaredTools
  <1> HIDE DEF f
  <1> QED
    BY <1>1, <1>2, <1>3, <1>4, FlattenTools

LEMMA KindsName ==
    ASSUME NEW tools, ToolsOk(tools)
    PROVE  \A c \in DOMAIN ToolKinds(tools) :
             FlatName(ToolKinds(tools)[c].namespace, ToolKinds(tools)[c].name) = c
  <1>1. Len(tools) \in Nat /\ DOMAIN tools = 1 .. Len(tools)
    BY ListIsSeq DEF ToolsOk
  <1>2. ToSet(tools) = {tools[k] : k \in DOMAIN tools}
    BY DEF ToSet
  <1>3. DOMAIN ToolKinds(tools) = {tools[i].flat : i \in DOMAIN tools}
    BY DEF ToolKinds
  <1>4. ASSUME NEW c \in DOMAIN ToolKinds(tools)
        PROVE  FlatName(ToolKinds(tools)[c].namespace, ToolKinds(tools)[c].name) = c
    <2> DEFINE P == {i \in DOMAIN tools : tools[i].flat = c}
    <2>1. P # {} /\ P \in SUBSET (1 .. Len(tools))
      BY <1>1, <1>3
    <2>2. Max(P) \in P
      BY <1>1, <2>1, MaxUpTo
    <2>3. ToolKinds(tools)[c] = tools[Max(P)]
      BY <1>3 DEF ToolKinds
    <2>4. tools[Max(P)].flat = c /\ tools[Max(P)] \in ToSet(tools)
      BY <1>2, <2>2
    <2> HIDE DEF P
    <2>5. ToolOk(tools[Max(P)])
      BY <2>4 DEF ToolsOk
    <2> QED
      BY <2>3, <2>4, <2>5 DEF ToolOk
  <1> QED
    BY <1>4

LEMMA DeclarationsOk ==
    ASSUME NEW tools, AreTools(tools), NEW s, AllOk(s)
    PROVE  AreTools(Declarations(tools, s))
  <1> DEFINE n == Len(s)
             f == [i \in DOMAIN s |-> IF s[i].type = "additional_tools" THEN s[i].tools ELSE <<>>]
  <1>1. n \in Nat /\ DOMAIN s = 1 .. n
    BY ListIsSeq DEF AllOk
  <1>2. f = [i \in 1 .. n |-> f[i]] /\ DOMAIN f = 1 .. n
    BY <1>1
  <1>3. \A i \in 1 .. n : AreTools(f[i])
    <2> SUFFICES ASSUME NEW i \in 1 .. n PROVE AreTools(f[i])
      OBVIOUS
    <2>1. CASE s[i].type = "additional_tools"
      BY <1>1, <2>1 DEF AllOk, ItemOk
    <2>2. CASE s[i].type # "additional_tools"
      <3>1. AreTools(<<>>)
        BY ListOfEmpty DEF AreTools
      <3> QED
        BY <1>1, <2>2, <3>1
    <2> QED
      BY <2>1, <2>2
  <1>4. Declarations(tools, s) = tools \o FlattenSeq(f)
    BY DEF Declarations
  <1> HIDE DEF f, n
  <1>5. IsList(f)
    BY <1>1, <1>2, MapList
  <1>6. /\ IsList(FlattenSeq(f))
        /\ \A x : x \in ToSet(FlattenSeq(f)) <=> \E k \in DOMAIN f : x \in ToSet(f[k])
    BY <1>2, <1>3, <1>5, FlattenList DEF AreTools
  <1>7. \A r : ToSet(r) = {r[k] : k \in DOMAIN r}
    BY DEF ToSet
  <1>8. /\ IsList(tools \o FlattenSeq(f))
        /\ ToSet(tools \o FlattenSeq(f)) = ToSet(tools) \cup ToSet(FlattenSeq(f))
    BY <1>6, ListConcat DEF AreTools
  <1>9. \A x \in ToSet(tools \o FlattenSeq(f)) : IsList(x.tools)
    <2>1. \A x \in ToSet(tools) : IsList(x.tools)
      BY <1>7 DEF AreTools
    <2>2. \A k \in DOMAIN f : \A x \in ToSet(f[k]) : IsList(x.tools)
      BY <1>2, <1>3, <1>7 DEF AreTools
    <2> QED
      BY <1>6, <1>8, <2>1, <2>2
  <1> QED
    BY <1>4, <1>7, <1>8, <1>9 DEF AreTools

LEMMA KindsOk ==
    ASSUME ItemsOk
    PROVE  \A c \in DOMAIN Kinds : FlatName(Kinds[c].namespace, Kinds[c].name) = c
  <1>1. AreTools(Declarations(declared, items))
    BY DeclarationsOk DEF ItemsOk
  <1>2. ToolsOk(Tools)
    BY <1>1, DeclaredToolsOk DEF Tools
  <1> QED
    BY <1>2, KindsName DEF Kinds

\* The blocks of a type, and how many there are.
LEMMA OfTypeIs ==
    ASSUME NEW s, IsList(s), NEW type
    PROVE  /\ IsList(OfType(s, type))
           /\ \A x : x \in ToSet(OfType(s, type)) <=> x \in ToSet(s) /\ x.type = type
           /\ Len(OfType(s, type)) = Cardinality({k \in DOMAIN s : s[k].type = type})
           /\ IsFiniteSet({k \in DOMAIN s : s[k].type = type})
  <1> DEFINE U == ToSet(s)
             T == {b \in ToSet(s) : b.type = type}
  <1>1. s \in Seq(U) /\ ToSet(s) = {s[k] : k \in DOMAIN s}
    BY DEF IsList, ToSet
  <1>2. OfType(s, type) = Those(s, T)
    BY DEF OfType
  <1>3. \A x : x \in T <=> x \in U /\ x.type = type
    OBVIOUS
  <1>4. {k \in DOMAIN s : s[k] \in T} = {k \in DOMAIN s : s[k].type = type}
    BY <1>1
  <1> HIDE DEF T, U
  <1>5. Those(s, T) \in Seq(U)
    BY <1>1, ThoseIs
  <1>6. ToSet(Those(s, T)) = ToSet(s) \cap T
    BY <1>1, ThoseRange
  <1>7. /\ IsFiniteSet({k \in DOMAIN s : s[k] \in T})
        /\ Cardinality({k \in DOMAIN s : s[k] \in T}) = Len(Those(s, T))
    BY <1>1, PlacesLen
  <1>8. IsList(Those(s, T))
    BY <1>5, SeqIsList
  <1>9. ToSet(s) = U
    BY DEF U
  <1> QED
    BY <1>2, <1>3, <1>4, <1>6, <1>7, <1>8, <1>9

\* Items that neither call nor declare anything.
Plain(s) ==
    IsList(s) /\ \A x \in ToSet(s) : ~ IsCall(x) /\ x.type # "additional_tools"

LEMMA PlainOk ==
    ASSUME NEW s, Plain(s)
    PROVE  AllOk(s)
  BY DEF Plain, AllOk, ItemOk, ToSet

LEMMA PlainConcat ==
    ASSUME NEW s, Plain(s), NEW t, Plain(t)
    PROVE  Plain(s \o t)
  BY ListConcat DEF Plain

LEMMA PlainFew ==
    /\ Plain(<<>>)
    /\ \A x : ~ IsCall(x) /\ x.type # "additional_tools" => Plain(<<x>>)
  BY ListOfEmpty DEF Plain

LEMMA PlainTable ==
    ASSUME NEW n \in Nat, NEW f, f = [k \in 1 .. n |-> f[k]],
           \A k \in 1 .. n : ~ IsCall(f[k]) /\ f[k].type # "additional_tools"
    PROVE  Plain(f)
  <1>1. IsList(f) /\ DOMAIN f = 1 .. n
    BY MapList
  <1>2. ToSet(f) = {f[k] : k \in DOMAIN f}
    BY DEF ToSet
  <1> QED
    BY <1>1, <1>2 DEF Plain

LEMMA ListAssoc ==
    ASSUME NEW s, IsList(s), NEW t, IsList(t), NEW u, IsList(u)
    PROVE  (s \o t) \o u = s \o (t \o u)
  <1> DEFINE U == (ToSet(s) \cup ToSet(t)) \cup ToSet(u)
  <1>1. s \in Seq(ToSet(s)) /\ t \in Seq(ToSet(t)) /\ u \in Seq(ToSet(u))
    BY DEF IsList
  <1>2. s \in Seq(U) /\ t \in Seq(U) /\ u \in Seq(U)
    BY <1>1, SeqMonotonic
  <1> HIDE DEF U
  <1> QED
    BY <1>2, ConcatAssociative

Lists(s, v, d, o, m) == IsList(s) /\ IsList(v) /\ IsList(d) /\ IsList(o) /\ IsList(m)

LEMMA Regroup ==
    ASSUME NEW s, NEW v, NEW d, NEW o, NEW m, Lists(s, v, d, o, m)
    PROVE  ((s \o (v \o d)) \o o) \o m = ((s \o v) \o d) \o (o \o m)
  <1> DEFINE b == s \o v
             r == b \o d
  <1>1. IsList(s) /\ IsList(v) /\ IsList(d)
    BY DEF Lists
  <1>2. s \o (v \o d) = r
    BY <1>1, ListAssoc
  <1>3. IsList(b)
    BY <1>1, ListConcat
  <1>4. IsList(r)
    <2> HIDE DEF b
    <2> QED
      BY <1>1, <1>3, ListConcat
  <1> HIDE DEF r
  <1>5. IsList(o) /\ IsList(m)
    BY DEF Lists
  <1>6. (r \o o) \o m = r \o (o \o m)
    BY <1>4, <1>5, ListAssoc
  <1> QED
    BY <1>2, <1>6 DEF r

CallOf(use) == [id |-> use.id, name |-> use.name, arguments |-> use.input]

\* The output items: what is plain, then an item for every call.
CallItems(d, uses, kinds) ==
    /\ IsList(d) /\ DOMAIN d = DOMAIN uses
    /\ \A k \in DOMAIN uses : d[k] = CallItem(CallOf(uses[k]), kinds)

LEMMA ViewParts ==
    ASSUME IsList(reply.content)
    PROVE  \E v, d : /\ View(Answer, Kinds) = v \o d /\ Plain(v)
                     /\ CallItems(d, OfType(reply.content, "tool_use"), Kinds)
  <1> DEFINE uses == OfType(reply.content, "tool_use")
             p == Answer
             a == IF p.thinking = <<>> THEN <<>> ELSE <<[type |-> "reasoning", s |-> p.thinking]>>
             b == [i \in DOMAIN p.searches |-> [type |-> "web_search_call", id |-> p.searches[i]]]
             c == IF p.text = <<>> THEN <<>> ELSE <<Message("assistant", p.text)>>
             d == [i \in DOMAIN p.calls |-> CallItem(p.calls[i], Kinds)]
  <1>1. View(p, Kinds) = ((a \o b) \o c) \o d
    BY DEF View
  <1>2. Plain(a)
    <2> DEFINE e == [type |-> "reasoning", s |-> p.thinking]
    <2>1. ~ IsCall(e) /\ e.type # "additional_tools"
      BY DEF IsCall
    <2>2. a \in {<<>>, <<e>>}
      OBVIOUS
    <2> HIDE DEF e, a
    <2> QED
      BY <2>1, <2>2, PlainFew
  <1>3. Plain(c)
    <2> DEFINE e == Message("assistant", p.text)
    <2>1. ~ IsCall(e) /\ e.type # "additional_tools"
      BY DEF IsCall, Message
    <2>2. c \in {<<>>, <<e>>}
      OBVIOUS
    <2> HIDE DEF e, c
    <2> QED
      BY <2>1, <2>2, PlainFew
  <1>4. Plain(b)
    <2> DEFINE ser == OfType(reply.content, "server_tool_use")
               n == Len(ser)
    <2>1. n \in Nat /\ DOMAIN ser = 1 .. n
      BY OfTypeIs, ListIsSeq
    <2> HIDE DEF n
    <2>2. DOMAIN p.searches = 1 .. n
      BY <2>1 DEF Answer, ParseAnswer
    <2> HIDE DEF p
    <2>3. b = [i \in 1 .. n |-> b[i]] /\ \A i \in 1 .. n : b[i].type = "web_search_call"
      BY <2>2
    <2> HIDE DEF b
    <2>4. \A i \in 1 .. n : ~ IsCall(b[i]) /\ b[i].type # "additional_tools"
      BY <2>3 DEF IsCall
    <2> QED
      BY <2>1, <2>3, <2>4, PlainTable
  <1>5. CallItems(d, uses, Kinds)
    <2> DEFINE n == Len(uses)
    <2>1. n \in Nat /\ DOMAIN uses = 1 .. n
      BY OfTypeIs, ListIsSeq
    <2>2. DOMAIN p.calls = 1 .. n /\ \A k \in 1 .. n : p.calls[k] = CallOf(uses[k])
      BY <2>1 DEF Answer, ParseAnswer, CallOf
    <2> HIDE DEF n, p, uses
    <2>3. d = [i \in 1 .. n |-> d[i]] /\ \A k \in 1 .. n : d[k] = CallItem(CallOf(uses[k]), Kinds)
      BY <2>2
    <2> HIDE DEF d
    <2>4. IsList(d) /\ DOMAIN d = 1 .. n
      BY <2>1, <2>3, MapList
    <2> QED
      BY <2>1, <2>3, <2>4 DEF CallItems
  <1> HIDE DEF a, b, c, d
  <1>6. Plain((a \o b) \o c)
    BY <1>2, <1>3, <1>4, PlainConcat
  <1> QED
    BY <1>1, <1>5, <1>6

\* An item says the name and, but for a custom tool's, the input of its call.
ItemMatch(item, use, kinds) ==
    /\ IsCall(item) /\ item.id = use.id /\ FlatName(item.namespace, item.name) = use.name
    /\ item.type = "function_call" => Parsed(item.arguments) = use.input
    /\ item.type = "custom_tool_call" =>
         \/ Raw(item.s) = use.input
         \/ use.name \in DOMAIN kinds /\ kinds[use.name].kind = "custom" /\ use.input.kind # "input"

NamesKept(kinds) ==
    \A c \in DOMAIN kinds : FlatName(kinds[c].namespace, kinds[c].name) = c

LEMMA CallItemIs ==
    ASSUME NEW use, IsInput(use.input), NEW kinds, NamesKept(kinds)
    PROVE  ItemMatch(CallItem(CallOf(use), kinds), use, kinds)
  <1> DEFINE call == CallOf(use)
             isKnown == use.name \in DOMAIN kinds
             name  == IF isKnown THEN kinds[use.name].name ELSE use.name
             space == IF isKnown THEN kinds[use.name].namespace ELSE ""
             item  == CallItem(call, kinds)
  <1>1. call.id = use.id /\ call.name = use.name /\ call.arguments = use.input
    BY DEF CallOf
  <1>2. FlatName(space, name) = use.name
    <2>1. CASE isKnown
      BY <2>1 DEF NamesKept
    <2>2. CASE ~ isKnown
      BY <2>2 DEF FlatName
    <2> QED
      BY <2>1, <2>2
  <1>3. IF isKnown /\ kinds[use.name].kind = "custom"
        THEN item = [type |-> "custom_tool_call", id |-> use.id, s |-> CustomText(use.input),
                     name |-> name, namespace |-> space]
        ELSE item = [type |-> "function_call", id |-> use.id, arguments |-> use.input,
                     name |-> name, namespace |-> space]
    BY <1>1 DEF CallItem
  <1> HIDE DEF call, name, space, item
  <1>4. use.input.kind # "broken" /\ use.input = [kind |-> use.input.kind, s |-> use.input.s]
    BY DEF IsInput
  <1>5. CASE isKnown /\ kinds[use.name].kind = "custom"
    <2>1. /\ item.type = "custom_tool_call" /\ item.id = use.id /\ item.s = CustomText(use.input)
          /\ item.name = name /\ item.namespace = space
      BY <1>3, <1>5
    <2>2. CASE use.input.kind = "input"
      <3>1. CustomText(use.input) = use.input.s
        BY <2>2 DEF CustomText
      <3>2. Raw(use.input.s) = use.input
        BY <1>4, <2>2 DEF Raw
      <3> QED
        BY <1>2, <2>1, <3>1, <3>2 DEF ItemMatch, IsCall, item, call
    <2>3. CASE use.input.kind # "input"
      BY <1>2, <1>5, <2>1, <2>3 DEF ItemMatch, IsCall, item, call
    <2> QED
      BY <2>2, <2>3
  <1>6. CASE ~ (isKnown /\ kinds[use.name].kind = "custom")
    <2>1. /\ item.type = "function_call" /\ item.id = use.id /\ item.arguments = use.input
          /\ item.name = name /\ item.namespace = space
      BY <1>3, <1>6
    <2>2. Parsed(use.input) = use.input
      BY <1>4 DEF Parsed
    <2> QED
      BY <1>2, <2>1, <2>2 DEF ItemMatch, IsCall, item, call
  <1> QED
    BY <1>5, <1>6

LEMMA CallItemsOk ==
    ASSUME NEW d, NEW uses, NEW kinds, CallItems(d, uses, kinds), NamesKept(kinds), IsList(uses),
           \A u \in ToSet(uses) : IsInput(u.input) /\ u.name # "web_search"
    PROVE  /\ AllOk(d) /\ Len(d) = Len(uses) /\ \A x \in ToSet(d) : IsCall(x)
           /\ \A k \in 1 .. Len(uses) : ItemMatch(d[k], uses[k], kinds)
  <1>1. Len(uses) \in Nat /\ DOMAIN uses = 1 .. Len(uses) /\ \A k \in 1 .. Len(uses) : uses[k] \in ToSet(uses)
    BY ListIsSeq
  <1>2. IsList(d) /\ DOMAIN d = 1 .. Len(uses) /\ DOMAIN d = 1 .. Len(d) /\ Len(d) \in Nat
    BY <1>1, ListIsSeq DEF CallItems
  <1>3. \A k \in 1 .. Len(uses) : ItemMatch(d[k], uses[k], kinds)
    <2> SUFFICES ASSUME NEW k \in 1 .. Len(uses) PROVE ItemMatch(d[k], uses[k], kinds)
      OBVIOUS
    <2>1. d[k] = CallItem(CallOf(uses[k]), kinds) /\ IsInput(uses[k].input)
      BY <1>1 DEF CallItems
    <2>2. ItemMatch(CallItem(CallOf(uses[k]), kinds), uses[k], kinds)
      BY <2>1, CallItemIs
    <2> QED
      BY <2>1, <2>2
  <1>4. \A k \in DOMAIN d : IsCall(d[k]) /\ ItemOk(d[k])
    BY <1>1, <1>2, <1>3 DEF ItemMatch, ItemOk, IsCall
  <1>5. Len(d) = Len(uses)
    BY <1>1, <1>2
  <1>6. ToSet(d) = {d[k] : k \in DOMAIN d}
    BY DEF ToSet
  <1> QED
    BY <1>2, <1>3, <1>4, <1>5, <1>6 DEF AllOk

LEMMA InitItemsOk ==
    ASSUME CodexAssumption, CodexInit
    PROVE  ItemsOk
  <1>1. PICK tools \in Added :
           items = <<[type |-> "additional_tools", tools |-> tools],
                     Message("developer", <<"rules">>), Message("user", <<"go">>)>>
    BY DEF CodexInit
  <1>2. AreTools(tools) /\ AreTools(declared)
    BY DEF CodexAssumption, CodexInit
  <1> DEFINE a == [type |-> "additional_tools", tools |-> tools]
             b == Message("developer", <<"rules">>)
             c == Message("user", <<"go">>)
  <1>3. ItemOk(a) /\ ItemOk(b) /\ ItemOk(c)
    BY <1>2 DEF ItemOk, IsCall, Message
  <1> HIDE DEF a, b, c
  <1>4. <<a, b, c>> \in Seq({a, b, c})
    OBVIOUS
  <1>5. IsList(<<a, b, c>>)
    BY <1>4, SeqIsList
  <1>6. \A k \in DOMAIN <<a, b, c>> : ItemOk(<<a, b, c>>[k])
    BY <1>3
  <1> QED
    BY <1>1, <1>2, <1>5, <1>6 DEF ItemsOk, AllOk, a, b, c

\* What a client that was answered has more than before.
ReceivedItems(v, d, w) ==
    /\ items' = ((items \o v) \o d) \o w
    /\ Plain(v) /\ Plain(w) /\ CallItems(d, OfType(reply.content, "tool_use"), Kinds)

LEMMA ReceiveParts ==
    ASSUME IsList(items), Receive, reply.ok, IsList(reply.content)
    PROVE  \E v, d, w : ReceivedItems(v, d, w)
  <1> DEFINE uses == OfType(reply.content, "tool_use")
             out(n) == [i \in 1 .. n |-> [type |-> "output", id |-> uses[i].id, s |-> <<"done">>]]
             more(n) == IF n = Len(uses) /\ n > 0 THEN <<>> ELSE <<Message("user", <<"more">>)>>
  <1>1. PICK n \in {Len(uses), Len(uses) - 1} \cap Nat :
           items' = ((items \o View(Answer, Kinds)) \o out(n)) \o more(n)
    BY DEF Receive
  <1>2. PICK v, d : /\ View(Answer, Kinds) = v \o d /\ Plain(v)
                    /\ CallItems(d, uses, Kinds)
    BY ViewParts
  <1>3. Plain(out(n))
    <2> DEFINE f == out(n)
    <2>1. f = [i \in 1 .. n |-> f[i]] /\ \A i \in 1 .. n : f[i].type = "output"
      OBVIOUS
    <2> HIDE DEF f
    <2>2. \A i \in 1 .. n : ~ IsCall(f[i]) /\ f[i].type # "additional_tools"
      BY <2>1 DEF IsCall
    <2>3. Plain(f)
      BY <2>1, <2>2, PlainTable
    <2> QED
      BY <2>3 DEF f
  <1>4. Plain(more(n))
    <2> DEFINE e == Message("user", <<"more">>)
    <2>1. ~ IsCall(e) /\ e.type # "additional_tools"
      BY DEF IsCall, Message
    <2>2. more(n) \in {<<>>, <<e>>}
      OBVIOUS
    <2> HIDE DEF e, more
    <2> QED
      BY <2>1, <2>2, PlainFew
  <1> DEFINE o == out(n)
             m == more(n)
  <1>5. items' = ((items \o (v \o d)) \o o) \o m /\ Plain(o) /\ Plain(m)
    BY <1>1, <1>2, <1>3, <1>4
  <1> HIDE DEF o, m, uses
  <1>6. Lists(items, v, d, o, m)
    BY <1>2, <1>5 DEF Plain, CallItems, Lists
  <1>10. Plain(o \o m)
    BY <1>5, PlainConcat
  <1>7. ((items \o (v \o d)) \o o) \o m = ((items \o v) \o d) \o (o \o m)
    BY <1>6, Regroup
  <1>12. ReceivedItems(v, d, o \o m)
    BY <1>2, <1>5, <1>7, <1>10 DEF ReceivedItems, uses
  <1> QED
    BY <1>12

LEMMA ReceiveItemsOk ==
    ASSUME ItemsOk, Receive, IsList(reply.content),
           reply.ok => \A b \in ToSet(reply.content) :
                         b.type = "tool_use" => b.name # "web_search" /\ IsInput(b.input)
    PROVE  ItemsOk'
  <1>1. CASE ~ reply.ok
    <2>1. UNCHANGED <<items, declared>>
      BY <1>1 DEF Receive
    <2> QED
      BY <2>1 DEF ItemsOk, AllOk
  <1>2. CASE reply.ok
    <2> DEFINE uses == OfType(reply.content, "tool_use")
    <2>1. PICK v, d, w : ReceivedItems(v, d, w)
      BY <1>2, ReceiveParts DEF ItemsOk, AllOk
    <2>10. /\ IsList(uses)
           /\ \A x : x \in ToSet(uses) <=> x \in ToSet(reply.content) /\ x.type = "tool_use"
      BY OfTypeIs
    <2>2. IsList(uses) /\ \A u \in ToSet(uses) : IsInput(u.input) /\ u.name # "web_search"
      BY <1>2, <2>10
    <2>3. NamesKept(Kinds)
      BY KindsOk DEF NamesKept
    <2>4. AllOk(d)
      BY <2>1, <2>2, <2>3, CallItemsOk DEF ReceivedItems
    <2>5. AllOk(items) /\ AllOk(v) /\ AllOk(w)
      BY <2>1, PlainOk DEF ReceivedItems, ItemsOk
    <2>6. AllOk(items \o v)
      BY <2>5, AllOkConcat
    <2>7. AllOk((items \o v) \o d)
      BY <2>4, <2>6, AllOkConcat
    <2>8. AllOk(((items \o v) \o d) \o w)
      BY <2>5, <2>7, AllOkConcat
    <2>9. AllOk(items') /\ declared' = declared
      BY <2>1, <2>8 DEF ReceivedItems, Receive
    <2> QED
      BY <2>9 DEF ItemsOk
  <1> QED
    BY <1>1, <1>2

-----------------------------------------------------------------------------
(* The searches the client is shown.                                         *)

PairedUp(s) ==
    \A k \in DOMAIN s : s[k].type = "server_tool_use" =>
        k < Len(s) /\ s[k + 1].type = "web_search_tool_result"

Servers(s) == Cardinality({k \in DOMAIN s : s[k].type = "server_tool_use"})

SameCalls(s, name, input) ==
    Cardinality({k \in DOMAIN s : /\ s[k].type = "tool_use"
                                  /\ s[k].name = name /\ s[k].input = input})

ServersIn(U) == {x \in U : x.type = "server_tool_use"}
CallsIn(U, name, input) == {x \in U : x.type = "tool_use" /\ x.name = name /\ x.input = input}

LEMMA PairedConcat ==
    ASSUME NEW s, IsList(s), PairedUp(s), NEW t, IsList(t), PairedUp(t)
    PROVE  PairedUp(s \o t)
  <1> DEFINE u == s \o t
  <1>1. Concats(s, t, u) /\ IsList(u)
    BY ListConcat
  <1>2. DOMAIN t = 1 .. Len(t)
    BY ListIsSeq
  <1> HIDE DEF u
  <1>3. ASSUME NEW k \in DOMAIN u, u[k].type = "server_tool_use"
        PROVE  k < Len(u) /\ u[k + 1].type = "web_search_tool_result"
    <2>1. /\ Len(s) \in Nat /\ Len(t) \in Nat /\ Len(u) = Len(s) + Len(t)
          /\ DOMAIN s = 1 .. Len(s) /\ k \in 1 .. (Len(s) + Len(t))
      BY <1>1 DEF Concats
    <2>2. CASE k <= Len(s)
      <3>1. k \in 1 .. Len(s) /\ u[k] = s[k]
        BY <1>1, <2>1, <2>2 DEF Concats
      <3>2. k < Len(s) /\ s[k + 1].type = "web_search_tool_result"
        BY <1>3, <2>1, <3>1 DEF PairedUp
      <3>3. k + 1 \in 1 .. Len(s)
        BY <2>1, <3>1, <3>2
      <3>4. u[k + 1] = s[k + 1]
        BY <1>1, <3>3 DEF Concats
      <3> QED
        BY <2>1, <3>2, <3>4
    <2>3. CASE ~ (k <= Len(s))
      <3> DEFINE j == k - Len(s)
      <3>1. j \in 1 .. Len(t) /\ k = Len(s) + j
        BY <2>1, <2>3
      <3> HIDE DEF j
      <3>2. u[k] = t[j]
        BY <1>1, <3>1 DEF Concats
      <3>3. j < Len(t) /\ t[j + 1].type = "web_search_tool_result"
        BY <1>2, <1>3, <3>1, <3>2 DEF PairedUp
      <3>4. j + 1 \in 1 .. Len(t) /\ Len(s) + (j + 1) = k + 1
        BY <2>1, <3>1, <3>3
      <3>5. u[k + 1] = t[j + 1]
        BY <1>1, <3>4 DEF Concats
      <3> QED
        BY <2>1, <3>1, <3>3, <3>5
    <2> QED
      BY <2>2, <2>3
  <1> QED
    BY <1>3 DEF PairedUp, u

\* Counting in a sequence of known elements.
LEMMA CountsIn ==
    ASSUME NEW U, NEW s \in Seq(U)
    PROVE  /\ Servers(s) = Len(Those(s, ServersIn(U))) /\ Servers(s) \in Nat
           /\ \A n, i : /\ SameCalls(s, n, i) = Len(Those(s, CallsIn(U, n, i)))
                        /\ SameCalls(s, n, i) \in Nat
  <1>1. \A k \in DOMAIN s : s[k] \in U
    BY LenProperties, ElementOfSeq
  <1>2. {k \in DOMAIN s : s[k] \in ServersIn(U)} = {k \in DOMAIN s : s[k].type = "server_tool_use"}
    BY <1>1 DEF ServersIn
  <1>3. Servers(s) = Len(Those(s, ServersIn(U)))
    BY <1>2, PlacesLen DEF Servers
  <1>4. ASSUME NEW n, NEW i
        PROVE  SameCalls(s, n, i) = Len(Those(s, CallsIn(U, n, i)))
    <2>1. {k \in DOMAIN s : s[k] \in CallsIn(U, n, i)}
            = {k \in DOMAIN s : s[k].type = "tool_use" /\ s[k].name = n /\ s[k].input = i}
      BY <1>1 DEF CallsIn
    <2> QED
      BY <2>1, PlacesLen DEF SameCalls
  <1>5. \A T : Len(Those(s, T)) \in Nat
    BY ThoseIs, LenProperties
  <1> QED
    BY <1>3, <1>4, <1>5

LEMMA CountsConcat ==
    ASSUME NEW s, IsList(s), NEW t, IsList(t)
    PROVE  /\ Servers(s \o t) = Servers(s) + Servers(t)
           /\ \A n, i : SameCalls(s \o t, n, i) = SameCalls(s, n, i) + SameCalls(t, n, i)
  <1> DEFINE U == ToSet(s) \cup ToSet(t)
  <1>1. s \in Seq(ToSet(s)) /\ t \in Seq(ToSet(t))
    BY DEF IsList
  <1>2. s \in Seq(U) /\ t \in Seq(U)
    BY <1>1, SeqMonotonic
  <1> HIDE DEF U
  <1>3. s \o t \in Seq(U)
    BY <1>2, ConcatProperties
  <1>4. \A T : Len(Those(s \o t, T)) = Len(Those(s, T)) + Len(Those(t, T))
    <2> SUFFICES ASSUME NEW T PROVE Len(Those(s \o t, T)) = Len(Those(s, T)) + Len(Those(t, T))
      OBVIOUS
    <2>1. Those(s \o t, T) = Those(s, T) \o Those(t, T)
      BY <1>2, ThoseConcat
    <2>2. Those(s, T) \in Seq(U) /\ Those(t, T) \in Seq(U)
      BY <1>2, ThoseIs
    <2> QED
      BY <2>1, <2>2, ConcatProperties
  <1>5. /\ Servers(s) = Len(Those(s, ServersIn(U)))
        /\ Servers(t) = Len(Those(t, ServersIn(U)))
        /\ Servers(s \o t) = Len(Those(s \o t, ServersIn(U)))
    BY <1>2, <1>3, CountsIn
  <1>6. ASSUME NEW n, NEW i
        PROVE  SameCalls(s \o t, n, i) = SameCalls(s, n, i) + SameCalls(t, n, i)
    <2>1. /\ SameCalls(s, n, i) = Len(Those(s, CallsIn(U, n, i)))
          /\ SameCalls(t, n, i) = Len(Those(t, CallsIn(U, n, i)))
          /\ SameCalls(s \o t, n, i) = Len(Those(s \o t, CallsIn(U, n, i)))
      BY <1>2, <1>3, CountsIn
    <2> QED
      BY <1>4, <2>1
  <1> QED
    BY <1>4, <1>5, <1>6

LEMMA CountsNone ==
    ASSUME NEW s, IsList(s)
    PROVE  /\ (\A x \in ToSet(s) : x.type # "server_tool_use") => Servers(s) = 0 /\ PairedUp(s)
           /\ \A n, i : (\A x \in ToSet(s) : ~ (x.type = "tool_use" /\ x.name = n /\ x.input = i))
                          => SameCalls(s, n, i) = 0
  <1>1. \A k \in DOMAIN s : s[k] \in ToSet(s)
    BY DEF ToSet
  <1>2. ASSUME \A x \in ToSet(s) : x.type # "server_tool_use"
        PROVE  Servers(s) = 0 /\ PairedUp(s)
    <2>1. {k \in DOMAIN s : s[k].type = "server_tool_use"} = {}
      BY <1>1, <1>2
    <2> QED
      BY <2>1, FS_EmptySet DEF Servers, PairedUp
  <1>3. ASSUME NEW n, NEW i, \A x \in ToSet(s) : ~ (x.type = "tool_use" /\ x.name = n /\ x.input = i)
        PROVE  SameCalls(s, n, i) = 0
    <2>1. {k \in DOMAIN s : s[k].type = "tool_use" /\ s[k].name = n /\ s[k].input = i} = {}
      BY <1>1, <1>3
    <2> QED
      BY <2>1, FS_EmptySet DEF SameCalls
  <1> QED
    BY <1>2, <1>3

LEMMA ThoseOne ==
    ASSUME NEW x, NEW T
    PROVE  Those(<<x>>, T) = IF x \in T THEN <<x>> ELSE <<>>
  <1> DEFINE U == {x}
  <1>0. x \in U
    OBVIOUS
  <1>4. Append(<<>>, x) = <<x>>
    OBVIOUS
  <1> HIDE DEF U
  <1>1. <<>> \in Seq(U) /\ Append(<<>>, x) = <<x>>
    BY <1>4, EmptySeq
  <1>2. Those(Append(<<>>, x), T) = IF x \in T THEN Append(Those(<<>>, T), x) ELSE Those(<<>>, T)
    <2> DEFINE e == <<>>
    <2>1. e \in Seq(U)
      BY <1>1
    <2> HIDE DEF e
    <2>3. \A s \in Seq(U), z \in U :
             Those(Append(s, z), T) = IF z \in T THEN Append(Those(s, T), z) ELSE Those(s, T)
      BY ThoseIs
    <2>2. Those(Append(e, x), T) = IF x \in T THEN Append(Those(e, T), x) ELSE Those(e, T)
      BY <1>0, <2>1, <2>3
    <2> QED
      BY <2>2 DEF e
  <1>3. Those(<<>>, T) = <<>>
    BY ThoseIs
  <1> QED
    BY <1>1, <1>2, <1>3

LEMMA ThoseTwo ==
    ASSUME NEW x, NEW y, NEW T
    PROVE  /\ x \in T /\ y \notin T => Len(Those(<<x, y>>, T)) = 1
           /\ x \notin T /\ y \notin T => Len(Those(<<x, y>>, T)) = 0
  <1> DEFINE U == {x, y}
  <1>0. x \in U /\ y \in U
    OBVIOUS
  <1>5. Append(<<x>>, y) = <<x, y>>
    <2> DEFINE e == <<x>>
               p == <<x, y>>
    <2>1. e \in Seq(U) /\ Len(e) = 1 /\ e[1] = x
      OBVIOUS
    <2>2. p \in Seq(U) /\ Len(p) = 2 /\ p[1] = x /\ p[2] = y
      OBVIOUS
    <2> HIDE DEF e, p, U
    <2>7. \A q \in Seq(U), z \in U :
             /\ Append(q, z) \in Seq(U) /\ Len(Append(q, z)) = Len(q) + 1
             /\ \A i \in 1 .. Len(q) : Append(q, z)[i] = q[i]
             /\ Append(q, z)[Len(q) + 1] = z
      BY AppendProperties
    <2>6. /\ Append(e, y) \in Seq(U) /\ Len(Append(e, y)) = Len(e) + 1
          /\ \A i \in 1 .. Len(e) : Append(e, y)[i] = e[i]
          /\ Append(e, y)[Len(e) + 1] = y
      BY <1>0, <2>1, <2>7
    <2>3. /\ Append(e, y) \in Seq(U) /\ Len(Append(e, y)) = 2
          /\ Append(e, y)[1] = x /\ Append(e, y)[2] = y
      BY <2>1, <2>6
    <2>4. \A i \in 1 .. 2 : Append(e, y)[i] = p[i]
      <3>1. \A i \in 1 .. 2 : i = 1 \/ i = 2
        OBVIOUS
      <3> QED
        BY <2>2, <2>3, <3>1
    <2>5. Append(e, y) = p
      BY <2>2, <2>3, <2>4, SeqEqual
    <2> QED
      BY <2>5 DEF e, p
  <1> HIDE DEF U
  <1>1. <<x>> \in Seq(U)
    BY <1>0
  <1>2. Those(Append(<<x>>, y), T) = IF y \in T THEN Append(Those(<<x>>, T), y) ELSE Those(<<x>>, T)
    <2> DEFINE e == <<x>>
    <2>1. e \in Seq(U)
      BY <1>1
    <2> HIDE DEF e
    <2>3. \A s \in Seq(U), z \in U :
             Those(Append(s, z), T) = IF z \in T THEN Append(Those(s, T), z) ELSE Those(s, T)
      BY ThoseIs
    <2>2. Those(Append(e, y), T) = IF y \in T THEN Append(Those(e, T), y) ELSE Those(e, T)
      BY <1>0, <2>1, <2>3
    <2> QED
      BY <2>2 DEF e
  <1>3. Those(<<x>>, T) = IF x \in T THEN <<x>> ELSE <<>>
    BY ThoseOne
  <1>4. Len(<<x>>) = 1 /\ Len(<<>>) = 0
    OBVIOUS
  <1> QED
    BY <1>2, <1>3, <1>4, <1>5

-----------------------------------------------------------------------------
(* What a round's calls are shown as.                                        *)

OutcomeOk ==
    /\ IsList(outcome.text)
    /\ \A k \in DOMAIN outcome.text :
         /\ outcome.text[k].type \in {"text", "invoke"}
         /\ outcome.text[k].type = "invoke" => IsInput(outcome.text[k].input)
    /\ IsList(outcome.uses)
    /\ \A k \in DOMAIN outcome.uses :
         outcome.uses[k].type = "tool_use" /\ IsInput(outcome.uses[k].input)

ShownCall(k)   == [type |-> "server_tool_use", id |-> Searches[k].id, query |-> Searches[k].input]
ShownResult(k) == [type |-> "web_search_tool_result", s |-> <<searched[k]>>]

LEMMA ShownIs ==
    ASSUME NEW k
    PROVE  /\ Shown(k) = <<ShownCall(k), ShownResult(k)>>
           /\ ShownCall(k).type = "server_tool_use"
           /\ ShownResult(k).type = "web_search_tool_result"
           /\ IsList(Shown(k)) /\ PairedUp(Shown(k)) /\ ToSet(Shown(k)) = {ShownCall(k), ShownResult(k)}
  <1>1. /\ Shown(k) = <<ShownCall(k), ShownResult(k)>>
        /\ ShownCall(k).type = "server_tool_use"
        /\ ShownResult(k).type = "web_search_tool_result"
    BY DEF Shown, ShownCall, ShownResult
  <1> DEFINE a == ShownCall(k)
             b == ShownResult(k)
  <1> HIDE DEF a, b
  <1>2. <<a, b>> \in Seq({a, b})
    OBVIOUS
  <1>3. IsList(<<a, b>>)
    BY <1>2, SeqIsList
  <1>4. ToSet(<<a, b>>) = {a, b}
    BY DEF ToSet
  <1>5. a.type = "server_tool_use" /\ b.type = "web_search_tool_result"
    BY <1>1 DEF a, b
  <1>6. PairedUp(<<a, b>>)
    BY <1>5 DEF PairedUp
  <1> QED
    BY <1>1, <1>3, <1>4, <1>6 DEF a, b

LEMMA SearchesIs ==
    ASSUME OutcomeOk
    PROVE  /\ IsList(Searches)
           /\ ToSet(Searches) = {u \in ToSet(outcome.uses) : IsSearch(u)}
           /\ Len(Searches) = Cardinality({k \in DOMAIN outcome.uses : IsSearch(outcome.uses[k])})
  <1> DEFINE s == outcome.uses
             U == ToSet(s)
             T == {u \in ToSet(s) : IsSearch(u)}
  <1>1. s \in Seq(U) /\ \A k \in DOMAIN s : s[k] \in U
    BY DEF OutcomeOk, IsList, ToSet
  <1>2. Searches = Those(s, T)
    BY DEF Searches
  <1>3. {k \in DOMAIN s : s[k] \in T} = {k \in DOMAIN s : IsSearch(s[k])}
    BY <1>1
  <1>4. T \in SUBSET U
    OBVIOUS
  <1>9. ToSet(s) = U
    OBVIOUS
  <1> HIDE DEF T, U
  <1>5. Those(s, T) \in Seq(U)
    BY <1>1, ThoseIs
  <1>6. ToSet(Those(s, T)) = ToSet(s) \cap T
    BY <1>1, ThoseRange
  <1>7. Cardinality({k \in DOMAIN s : s[k] \in T}) = Len(Those(s, T))
    BY <1>1, PlacesLen
  <1>8. IsList(Those(s, T))
    BY <1>5, SeqIsList
  <1>10. ToSet(Searches) = T
    BY <1>2, <1>4, <1>6, <1>9
  <1> QED
    BY <1>2, <1>3, <1>7, <1>8, <1>10 DEF T

\* A list of such parts, joined.
LEMMA JoinedParts ==
    ASSUME NEW n \in Nat, NEW f, f = [k \in 1 .. n |-> f[k]],
           \A k \in 1 .. n : IsList(f[k]) /\ PairedUp(f[k])
    PROVE  /\ IsList(FlattenSeq(f)) /\ PairedUp(FlattenSeq(f))
           /\ \A x : x \in ToSet(FlattenSeq(f)) <=> \E k \in 1 .. n : x \in ToSet(f[k])
  <1> DEFINE U == UNION {ToSet(f[k]) : k \in 1 .. n}
             W == {s \in Seq(U) : PairedUp(s)}
  <1>1. IsList(f) /\ DOMAIN f = 1 .. n
    BY MapList
  <1>2. /\ IsList(FlattenSeq(f))
        /\ \A x : x \in ToSet(FlattenSeq(f)) <=> \E k \in 1 .. n : x \in ToSet(f[k])
    BY <1>1, FlattenList
  <1>3. \A k \in 1 .. n : f[k] \in W
    <2> SUFFICES ASSUME NEW k \in 1 .. n PROVE f[k] \in W
      OBVIOUS
    <2>1. f[k] \in Seq(ToSet(f[k])) /\ ToSet(f[k]) \in SUBSET U
      BY DEF IsList
    <2> HIDE DEF U
    <2>2. f[k] \in Seq(U)
      BY <2>1, SeqMonotonic
    <2> QED
      BY <2>2
  <1> HIDE DEF U
  <1>4. W \in SUBSET Seq(U) /\ <<>> \in W /\ \A v, x \in W : v \o x \in W
    <2>1. <<>> \in W
      BY EmptySeq DEF PairedUp
    <2>2. ASSUME NEW v \in W, NEW x \in W PROVE v \o x \in W
      <3>1. v \o x \in Seq(U) /\ IsList(v) /\ IsList(x)
        BY ConcatProperties, SeqIsList
      <3> QED
        BY <3>1, PairedConcat
    <2> QED
      BY <2>1, <2>2
  <1>5. \A s \in W : PairedUp(s)
    OBVIOUS
  <1> HIDE DEF W
  <1>6. f \in Seq(W)
    BY <1>1, <1>3, ListIn
  <1>7. FlattenSeq(f) \in W
    BY <1>4, <1>6, FlattenClosed
  <1> QED
    BY <1>2, <1>5, <1>7

Table(f, n) == f = [k \in 1 .. n |-> f[k]]

Marked(f, n, U, Q, R) ==
    \A k \in 1 .. n : f[k] \in Seq(U) /\ Len(Those(f[k], Q)) = (IF k \in R THEN 1 ELSE 0)

LEMMA CountJoined ==
    ASSUME NEW U, NEW Q, NEW n \in Nat, NEW f, Table(f, n),
           NEW R \in SUBSET (1 .. n), Marked(f, n, U, Q, R)
    PROVE  Len(Those(FlattenSeq(f), Q)) = Cardinality(R)
  <1> DEFINE W == AtMostOne(U, Q)
             O == JustOne(U, Q)
  <1>1. \A k \in 1 .. n : f[k] \in W /\ (f[k] \in O <=> k \in R)
    <2> SUFFICES ASSUME NEW k \in 1 .. n PROVE f[k] \in W /\ (f[k] \in O <=> k \in R)
      OBVIOUS
    <2>1. f[k] \in Seq(U) /\ Len(Those(f[k], Q)) = (IF k \in R THEN 1 ELSE 0)
      BY DEF Marked
    <2>2. CASE k \in R
      BY <2>1, <2>2 DEF AtMostOne, JustOne
    <2>3. CASE k \notin R
      <3>1. Len(Those(f[k], Q)) = 0
        BY <2>1, <2>3
      <3>2. f[k] \in W
        BY <2>1, <3>1 DEF AtMostOne
      <3>3. f[k] \notin O
        <4> SUFFICES ASSUME f[k] \in O PROVE FALSE
          OBVIOUS
        <4>1. Len(Those(f[k], Q)) = 1
          BY Zenon DEF JustOne
        <4> QED
          BY <3>1, <4>1
      <3> QED
        BY <2>3, <3>2, <3>3
    <2> QED
      BY <2>2, <2>3
  <1>2. IsList(f) /\ DOMAIN f = 1 .. n
    BY MapList DEF Table
  <1>3. f \in Seq(W)
    <2> HIDE DEF W
    <2> QED
      BY <1>1, <1>2, ListIn
  <1>4. Len(Those(FlattenSeq(f), Q)) = Len(Those(f, O))
    BY <1>3, FlattenCount
  <1>5. {k \in DOMAIN f : f[k] \in O} = R
    BY <1>1, <1>2
  <1> HIDE DEF W, O
  <1>6. Cardinality({k \in DOMAIN f : f[k] \in O}) = Len(Those(f, O))
    BY <1>3, PlacesLen
  <1> QED
    BY <1>4, <1>5, <1>6

\* What parts of the calls' kinds add up to.
LEMMA CountsJoined ==
    ASSUME NEW n \in Nat, NEW f, f = [k \in 1 .. n |-> f[k]], \A k \in 1 .. n : IsList(f[k]),
           NEW R \in SUBSET (1 .. n)
    PROVE  /\ (\A k \in 1 .. n : Servers(f[k]) = IF k \in R THEN 1 ELSE 0)
                => Servers(FlattenSeq(f)) = Cardinality(R)
           /\ \A c, i : (\A k \in 1 .. n : SameCalls(f[k], c, i) = IF k \in R THEN 1 ELSE 0)
                          => SameCalls(FlattenSeq(f), c, i) = Cardinality(R)
  <1> DEFINE U == UNION {ToSet(f[k]) : k \in 1 .. n}
  <1>1. \A k \in 1 .. n : f[k] \in Seq(U)
    <2> SUFFICES ASSUME NEW k \in 1 .. n PROVE f[k] \in Seq(U)
      OBVIOUS
    <2>1. f[k] \in Seq(ToSet(f[k])) /\ ToSet(f[k]) \in SUBSET U
      BY DEF IsList
    <2> HIDE DEF U
    <2> QED
      BY <2>1, SeqMonotonic
  <1> HIDE DEF U
  <1>2. FlattenSeq(f) \in Seq(U)
    <2> DEFINE V == Seq(U)
    <2>1. \A k \in 1 .. n : f[k] \in V
      BY <1>1
    <2> HIDE DEF V
    <2>2. IsList(f) /\ DOMAIN f = 1 .. n
      BY MapList
    <2>3. f \in Seq(V)
      BY <2>1, <2>2, ListIn
    <2>4. f \in Seq(Seq(U))
      BY <2>3 DEF V
    <2> QED
      BY <2>4, FlattenIs
  <1>3. ASSUME \A k \in 1 .. n : Servers(f[k]) = IF k \in R THEN 1 ELSE 0
        PROVE  Servers(FlattenSeq(f)) = Cardinality(R)
    <2> DEFINE Q == ServersIn(U)
    <2>1. \A k \in 1 .. n : Servers(f[k]) = Len(Those(f[k], Q))
      BY <1>1, CountsIn
    <2>2. Servers(FlattenSeq(f)) = Len(Those(FlattenSeq(f), Q))
      BY <1>2, CountsIn
    <2> HIDE DEF Q
    <2>3. Marked(f, n, U, Q, R) /\ Table(f, n)
      BY <1>1, <1>3, <2>1 DEF Marked, Table
    <2>4. Len(Those(FlattenSeq(f), Q)) = Cardinality(R)
      BY <2>3, CountJoined
    <2> QED
      BY <2>2, <2>4
  <1>4. ASSUME NEW c, NEW i, \A k \in 1 .. n : SameCalls(f[k], c, i) = IF k \in R THEN 1 ELSE 0
        PROVE  SameCalls(FlattenSeq(f), c, i) = Cardinality(R)
    <2> DEFINE Q == CallsIn(U, c, i)
    <2>1. \A k \in 1 .. n : SameCalls(f[k], c, i) = Len(Those(f[k], Q))
      BY <1>1, CountsIn
    <2>2. SameCalls(FlattenSeq(f), c, i) = Len(Those(FlattenSeq(f), Q))
      BY <1>2, CountsIn
    <2> HIDE DEF Q
    <2>3. Marked(f, n, U, Q, R) /\ Table(f, n)
      BY <1>1, <1>4, <2>1 DEF Marked, Table
    <2>4. Len(Those(FlattenSeq(f), Q)) = Cardinality(R)
      BY <2>3, CountJoined
    <2> QED
      BY <2>2, <2>4
  <1> QED
    BY <1>3, <1>4

LEMMA ShownCounts ==
    ASSUME NEW k
    PROVE  Servers(Shown(k)) = 1 /\ \A c, i : SameCalls(Shown(k), c, i) = 0
  <1> DEFINE a == ShownCall(k)
             b == ShownResult(k)
             U == {a, b}
  <1>1. /\ Shown(k) = <<a, b>> /\ a.type = "server_tool_use" /\ b.type = "web_search_tool_result"
        /\ IsList(Shown(k)) /\ ToSet(Shown(k)) = {a, b}
    BY ShownIs
  <1> HIDE DEF a, b
  <1>2. Shown(k) \in Seq(U) /\ a \in ServersIn(U) /\ b \notin ServersIn(U)
    BY <1>1 DEF ServersIn, IsList
  <1> HIDE DEF U
  <1>3. Servers(Shown(k)) = Len(Those(Shown(k), ServersIn(U)))
    BY <1>2, CountsIn
  <1>4. Len(Those(<<a, b>>, ServersIn(U))) = 1
    BY <1>2, ThoseTwo
  <1>5. \A c, i : SameCalls(Shown(k), c, i) = 0
    BY <1>1, CountsNone
  <1> QED
    BY <1>1, <1>3, <1>4, <1>5

LEMMA OneCounts ==
    ASSUME NEW x, x.type = "tool_use"
    PROVE  /\ IsList(<<x>>) /\ PairedUp(<<x>>) /\ Servers(<<x>>) = 0
           /\ \A c, i : SameCalls(<<x>>, c, i) = IF x.name = c /\ x.input = i THEN 1 ELSE 0
  <1> DEFINE U == {x}
  <1>1. IsList(<<x>>) /\ ToSet(<<x>>) = {x}
    BY ListOfEmpty
  <1>2. <<x>> \in Seq(U)
    OBVIOUS
  <1>3. Servers(<<x>>) = 0 /\ PairedUp(<<x>>)
    BY <1>1, CountsNone
  <1>4. ASSUME NEW c, NEW i
        PROVE  SameCalls(<<x>>, c, i) = IF x.name = c /\ x.input = i THEN 1 ELSE 0
    <2>1. x \in CallsIn(U, c, i) <=> x.name = c /\ x.input = i
      BY DEF CallsIn
    <2> HIDE DEF U
    <2>2. SameCalls(<<x>>, c, i) = Len(Those(<<x>>, CallsIn(U, c, i)))
      BY <1>2, CountsIn
    <2>3. Those(<<x>>, CallsIn(U, c, i)) = IF x \in CallsIn(U, c, i) THEN <<x>> ELSE <<>>
      BY ThoseOne
    <2>4. Len(<<x>>) = 1 /\ Len(<<>>) = 0
      OBVIOUS
    <2> QED
      BY <2>1, <2>2, <2>3, <2>4
  <1> QED
    BY <1>1, <1>3, <1>4

\* All searches of a round.
LEMMA AllShownIs ==
    ASSUME OutcomeOk
    PROVE  /\ IsList(AllShown) /\ PairedUp(AllShown) /\ Servers(AllShown) = Len(Searches)
           /\ \A x \in ToSet(AllShown) : x.type # "tool_use"
  <1> DEFINE n == Len(Searches)
             f == [i \in DOMAIN Searches |-> Shown(i)]
  <1>1. n \in Nat /\ DOMAIN Searches = 1 .. n
    BY SearchesIs, ListIsSeq
  <1>2. AllShown = FlattenSeq(f)
    BY DEF AllShown
  <1> HIDE DEF n
  <1>3. f = [k \in 1 .. n |-> f[k]] /\ \A k \in 1 .. n : f[k] = Shown(k)
    BY <1>1
  <1> HIDE DEF f
  <1>4. \A k \in 1 .. n : IsList(f[k]) /\ PairedUp(f[k])
    BY <1>3, ShownIs
  <1>5. /\ IsList(FlattenSeq(f)) /\ PairedUp(FlattenSeq(f))
        /\ \A x : x \in ToSet(FlattenSeq(f)) <=> \E k \in 1 .. n : x \in ToSet(f[k])
    BY <1>1, <1>3, <1>4, JoinedParts
  <1>6. \A k \in 1 .. n : \A x \in ToSet(f[k]) : x.type # "tool_use"
    BY <1>3, ShownIs
  <1>7. Servers(FlattenSeq(f)) = n
    <2> DEFINE R == 1 .. n
    <2>1. \A k \in 1 .. n : Servers(f[k]) = IF k \in R THEN 1 ELSE 0
      BY <1>3, ShownCounts
    <2>2. Servers(FlattenSeq(f)) = Cardinality(R)
      BY <1>1, <1>3, <1>4, <2>1, CountsJoined
    <2>3. Cardinality(R) = n
      BY <1>1, FS_Interval
    <2> QED
      BY <2>2, <2>3
  <1> QED
    BY <1>2, <1>5, <1>6, <1>7 DEF n

HandedOut ==
    FlattenSeq([i \in DOMAIN outcome.uses |->
          IF IsSearch(outcome.uses[i])
          THEN Shown(Cardinality({j \in 1..i : IsSearch(outcome.uses[j])}))
          ELSE <<outcome.uses[i]>>])

LEMMA HandedIs ==
    ASSUME OutcomeOk
    PROVE  /\ IsList(HandedOut) /\ PairedUp(HandedOut) /\ Servers(HandedOut) = Len(Searches)
           /\ \A x \in ToSet(HandedOut) : x.type = "tool_use" => x.name # "web_search" /\ IsInput(x.input)
           /\ \A k \in DOMAIN outcome.uses : ~ IsSearch(outcome.uses[k]) =>
                outcome.uses[k] \in ToSet(HandedOut)
           /\ \A c, i : c # "web_search" => SameCalls(HandedOut, c, i) = SameCalls(outcome.uses, c, i)
  <1> DEFINE uses == outcome.uses
             n == Len(uses)
             f == [i \in DOMAIN uses |->
                      IF IsSearch(uses[i])
                      THEN Shown(Cardinality({j \in 1..i : IsSearch(uses[j])}))
                      ELSE <<uses[i]>>]
  <1>1. /\ n \in Nat /\ DOMAIN uses = 1 .. n
        /\ \A k \in 1 .. n : uses[k].type = "tool_use" /\ IsInput(uses[k].input)
    BY ListIsSeq DEF OutcomeOk
  <1>2. HandedOut = FlattenSeq(f)
    BY DEF HandedOut
  <1> HIDE DEF n
  <1>3. /\ f = [k \in 1 .. n |-> f[k]]
        /\ \A k \in 1 .. n : IF IsSearch(uses[k]) THEN \E m : f[k] = Shown(m) ELSE f[k] = <<uses[k]>>
    BY <1>1
  <1> HIDE DEF f, uses
  <1>10. ASSUME NEW k \in 1 .. n
         PROVE  /\ IsList(f[k]) /\ PairedUp(f[k])
                /\ \A x \in ToSet(f[k]) :
                     x.type = "tool_use" => x.name # "web_search" /\ IsInput(x.input)
                /\ Servers(f[k]) = IF IsSearch(uses[k]) THEN 1 ELSE 0
                /\ \A c, i : c # "web_search" =>
                     SameCalls(f[k], c, i) = IF uses[k].name = c /\ uses[k].input = i THEN 1 ELSE 0
    <2>1. CASE IsSearch(uses[k])
      <3>1. PICK m : f[k] = Shown(m)
        BY <1>3, <2>1
      <3>2. /\ IsList(Shown(m)) /\ PairedUp(Shown(m))
            /\ \A x \in ToSet(Shown(m)) : x.type # "tool_use"
        BY ShownIs
      <3>3. Servers(Shown(m)) = 1 /\ \A c, i : SameCalls(Shown(m), c, i) = 0
        BY ShownCounts
      <3> QED
        BY <2>1, <3>1, <3>2, <3>3 DEF IsSearch
    <2>2. CASE ~ IsSearch(uses[k])
      <3> DEFINE x == uses[k]
      <3>1. f[k] = <<x>> /\ x.type = "tool_use" /\ x.name # "web_search" /\ IsInput(x.input)
        BY <1>1, <1>3, <2>2 DEF IsSearch
      <3> HIDE DEF x
      <3>2. /\ IsList(<<x>>) /\ PairedUp(<<x>>) /\ Servers(<<x>>) = 0
            /\ \A c, i : SameCalls(<<x>>, c, i) = IF x.name = c /\ x.input = i THEN 1 ELSE 0
        BY <3>1, OneCounts
      <3>3. \A y \in ToSet(<<x>>) : y.name # "web_search" /\ IsInput(y.input)
        BY <3>1, ListOfEmpty
      <3> QED
        BY <2>2, <3>1, <3>2, <3>3 DEF x
    <2> QED
      BY <2>1, <2>2
  <1>4. \A k \in 1 .. n : IsList(f[k]) /\ PairedUp(f[k])
    BY <1>10
  <1>5. /\ IsList(FlattenSeq(f)) /\ PairedUp(FlattenSeq(f))
        /\ \A x : x \in ToSet(FlattenSeq(f)) <=> \E k \in 1 .. n : x \in ToSet(f[k])
    BY <1>1, <1>3, <1>4, JoinedParts
  <1>6. \A k \in 1 .. n : \A x \in ToSet(f[k]) :
           x.type = "tool_use" => x.name # "web_search" /\ IsInput(x.input)
    BY <1>10
  <1>7. \A k \in 1 .. n : ~ IsSearch(uses[k]) => uses[k] \in ToSet(f[k])
    BY <1>3, ListOfEmpty
  <1>8. Servers(FlattenSeq(f)) = Len(Searches)
    <2> DEFINE R == {k \in 1 .. n : IsSearch(uses[k])}
    <2>1. \A k \in 1 .. n : Servers(f[k]) = IF k \in R THEN 1 ELSE 0
      BY <1>10
    <2>2. Len(Searches) = Cardinality(R)
      BY <1>1, SearchesIs DEF uses
    <2>3. R \in SUBSET (1 .. n)
      OBVIOUS
    <2> HIDE DEF R
    <2>4. Servers(FlattenSeq(f)) = Cardinality(R)
      BY <1>1, <1>3, <1>4, <2>1, <2>3, CountsJoined
    <2> QED
      BY <2>2, <2>4
  <1>9. ASSUME NEW c, NEW i, c # "web_search"
        PROVE  SameCalls(FlattenSeq(f), c, i) = SameCalls(uses, c, i)
    <2> DEFINE R == {k \in 1 .. n : uses[k].name = c /\ uses[k].input = i}
    <2>1. \A k \in 1 .. n : SameCalls(f[k], c, i) = IF k \in R THEN 1 ELSE 0
      BY <1>9, <1>10
    <2>2. SameCalls(uses, c, i) = Cardinality(R)
      <3>1. {k \in DOMAIN uses : uses[k].type = "tool_use" /\ uses[k].name = c /\ uses[k].input = i} = R
        BY <1>1
      <3> QED
        BY <3>1 DEF SameCalls
    <2>3. R \in SUBSET (1 .. n)
      OBVIOUS
    <2> HIDE DEF R
    <2>4. SameCalls(FlattenSeq(f), c, i) = Cardinality(R)
      BY <1>1, <1>3, <1>4, <2>1, <2>3, CountsJoined
    <2> QED
      BY <2>2, <2>4
  <1> QED
    BY <1>1, <1>2, <1>5, <1>6, <1>7, <1>8, <1>9 DEF uses

LEMMA ReclaimedIs ==
    ASSUME OutcomeOk
    PROVE  /\ IsList(Reclaimed)
           /\ \A x \in ToSet(Reclaimed) :
                /\ x.type \in {"text", "tool_use"}
                /\ x.type = "tool_use" =>
                     /\ x.name # "web_search" /\ IsInput(x.input)
                     /\ \A k \in DOMAIN outcome.uses : ~ IsSearch(outcome.uses[k]) =>
                          ~ (outcome.uses[k].name = x.name /\ outcome.uses[k].input = x.input)
  <1> DEFINE text == outcome.text
             n == Len(text)
             f == [i \in DOMAIN text |->
                     LET b == text[i]
                     IN  IF b.type # "invoke" THEN <<b>>
                         ELSE IF b.name = "web_search" \/ b.name \notin ToSet(known)
                         THEN <<TextPart(b.s)>>
                         ELSE IF SameCall(b) THEN <<>>
                         ELSE <<UsePart(IdOf(5 + i), b.name, b.input)>>]
             Good(x) ==
                /\ x.type \in {"text", "tool_use"}
                /\ x.type = "tool_use" =>
                     /\ x.name # "web_search" /\ IsInput(x.input)
                     /\ \A k \in DOMAIN outcome.uses : ~ IsSearch(outcome.uses[k]) =>
                          ~ (outcome.uses[k].name = x.name /\ outcome.uses[k].input = x.input)
  <1>1. /\ n \in Nat /\ DOMAIN text = 1 .. n
        /\ \A k \in 1 .. n :
             /\ text[k].type \in {"text", "invoke"}
             /\ text[k].type = "invoke" => IsInput(text[k].input)
    BY ListIsSeq DEF OutcomeOk
  <1>2. Reclaimed = FlattenSeq(f)
    BY DEF Reclaimed
  <1> HIDE DEF n
  <1>3. f = [k \in 1 .. n |-> f[k]]
    BY <1>1
  <1>4. ASSUME NEW k \in 1 .. n
        PROVE  IsList(f[k]) /\ \A x \in ToSet(f[k]) : Good(x)
    <2> DEFINE b == text[k]
    <2>7. /\ text[k].type \in {"text", "invoke"}
          /\ text[k].type = "invoke" => IsInput(text[k].input)
      BY <1>1
    <2>1. f[k] = IF b.type # "invoke" THEN <<b>>
                 ELSE IF b.name = "web_search" \/ b.name \notin ToSet(known)
                 THEN <<TextPart(b.s)>>
                 ELSE IF SameCall(b) THEN <<>>
                 ELSE <<UsePart(IdOf(5 + k), b.name, b.input)>>
      BY <1>1
    <2>2. b.type \in {"text", "invoke"} /\ (b.type = "invoke" => IsInput(b.input))
      BY <2>7
    <2> HIDE DEF b, f
    <2>3. CASE b.type # "invoke"
      <3>1. Good(b)
        BY <2>2, <2>3
      <3> HIDE DEF Good
      <3> QED
        BY <2>1, <2>3, <3>1, ListOfEmpty
    <2>4. CASE b.type = "invoke" /\ (b.name = "web_search" \/ b.name \notin ToSet(known))
      <3>1. Good(TextPart(b.s))
        BY DEF TextPart
      <3> HIDE DEF Good
      <3> QED
        BY <2>1, <2>4, <3>1, ListOfEmpty
    <2>5. CASE /\ b.type = "invoke" /\ ~ (b.name = "web_search" \/ b.name \notin ToSet(known))
               /\ SameCall(b)
      <3> HIDE DEF Good
      <3> QED
        BY <2>1, <2>5, ListOfEmpty
    <2>6. CASE /\ b.type = "invoke" /\ ~ (b.name = "web_search" \/ b.name \notin ToSet(known))
               /\ ~ SameCall(b)
      <3> DEFINE u == UsePart(IdOf(5 + k), b.name, b.input)
      <3>1. u.type = "tool_use" /\ u.name = b.name /\ u.input = b.input
        BY DEF UsePart
      <3> HIDE DEF u
      <3>2. Good(u)
        BY <2>2, <2>6, <3>1 DEF SameCall
      <3> HIDE DEF Good
      <3>3. f[k] = <<u>>
        BY <2>1, <2>6 DEF u
      <3> QED
        BY <3>2, <3>3, ListOfEmpty
    <2> QED
      BY <2>3, <2>4, <2>5, <2>6
  <1> HIDE DEF f, Good
  <1>5. IsList(f) /\ DOMAIN f = 1 .. n
    BY <1>1, <1>3, MapList
  <1>6. /\ IsList(FlattenSeq(f))
        /\ \A x : x \in ToSet(FlattenSeq(f)) <=> \E k \in DOMAIN f : x \in ToSet(f[k])
    BY <1>4, <1>5, FlattenList
  <1>7. \A x \in ToSet(Reclaimed) : Good(x)
    BY <1>2, <1>4, <1>5, <1>6
  <1> QED
    BY <1>2, <1>6, <1>7 DEF Good

LEMMA FlushedIs ==
    ASSUME OutcomeOk, IsList(presentation), PairedUp(presentation),
           \A x \in ToSet(presentation) : x.type # "tool_use"
    PROVE  /\ IsList(Flushed) /\ PairedUp(Flushed)
           /\ Servers(Flushed) = Servers(presentation) + Len(Searches)
           /\ \A x \in ToSet(Flushed) : x.type = "tool_use" => x.name # "web_search" /\ IsInput(x.input)
           /\ \A k \in DOMAIN outcome.uses : ~ IsSearch(outcome.uses[k]) =>
                /\ outcome.uses[k] \in ToSet(Flushed)
                /\ SameCalls(Flushed, outcome.uses[k].name, outcome.uses[k].input)
                     = SameCalls(outcome.uses, outcome.uses[k].name, outcome.uses[k].input)
  <1> DEFINE p == presentation
             r == Reclaimed
             h == HandedOut
  <1>1. Flushed = (p \o r) \o h
    BY DEF Flushed, HandedOut
  <1>2. /\ IsList(r)
        /\ \A x \in ToSet(r) :
             /\ x.type \in {"text", "tool_use"}
             /\ x.type = "tool_use" =>
                  /\ x.name # "web_search" /\ IsInput(x.input)
                  /\ \A k \in DOMAIN outcome.uses : ~ IsSearch(outcome.uses[k]) =>
                       ~ (outcome.uses[k].name = x.name /\ outcome.uses[k].input = x.input)
    BY ReclaimedIs
  <1>3. /\ IsList(h) /\ PairedUp(h) /\ Servers(h) = Len(Searches)
        /\ \A x \in ToSet(h) : x.type = "tool_use" => x.name # "web_search" /\ IsInput(x.input)
        /\ \A k \in DOMAIN outcome.uses : ~ IsSearch(outcome.uses[k]) => outcome.uses[k] \in ToSet(h)
        /\ \A c, i : c # "web_search" => SameCalls(h, c, i) = SameCalls(outcome.uses, c, i)
    BY HandedIs
  <1> HIDE DEF p, r, h
  <1>4. IsList(p) /\ PairedUp(p) /\ \A x \in ToSet(p) : x.type # "tool_use"
    BY DEF p
  <1>5. PairedUp(r) /\ Servers(r) = 0
    BY <1>2, CountsNone
  <1>6. IsList(p \o r) /\ ToSet(p \o r) = ToSet(p) \cup ToSet(r) /\ PairedUp(p \o r)
    BY <1>2, <1>4, <1>5, ListConcat, PairedConcat
  <1>7. /\ IsList((p \o r) \o h) /\ ToSet((p \o r) \o h) = ToSet(p \o r) \cup ToSet(h)
        /\ PairedUp((p \o r) \o h)
    BY <1>3, <1>6, ListConcat, PairedConcat
  <1>8. /\ Servers(p \o r) = Servers(p) + Servers(r)
        /\ \A c, i : SameCalls(p \o r, c, i) = SameCalls(p, c, i) + SameCalls(r, c, i)
    BY <1>2, <1>4, CountsConcat
  <1>9. /\ Servers((p \o r) \o h) = Servers(p \o r) + Servers(h)
        /\ \A c, i : SameCalls((p \o r) \o h, c, i) = SameCalls(p \o r, c, i) + SameCalls(h, c, i)
    BY <1>3, <1>6, CountsConcat
  <1>10. /\ Servers(p) \in Nat /\ Servers(h) \in Nat
         /\ \A c, i : SameCalls(h, c, i) \in Nat
    <2>1. p \in Seq(ToSet(p)) /\ h \in Seq(ToSet(h))
      BY <1>3, <1>4 DEF IsList
    <2> QED
      BY <2>1, CountsIn
  <1>11. Servers((p \o r) \o h) = Servers(p) + Len(Searches)
    BY <1>3, <1>5, <1>8, <1>9, <1>10
  <1>12. \A x \in ToSet((p \o r) \o h) : x.type = "tool_use" => x.name # "web_search" /\ IsInput(x.input)
    BY <1>2, <1>3, <1>4, <1>6, <1>7
  <1>13. ASSUME NEW k \in DOMAIN outcome.uses, ~ IsSearch(outcome.uses[k])
         PROVE  /\ outcome.uses[k] \in ToSet((p \o r) \o h)
                /\ SameCalls((p \o r) \o h, outcome.uses[k].name, outcome.uses[k].input)
                     = SameCalls(outcome.uses, outcome.uses[k].name, outcome.uses[k].input)
    <2> DEFINE c == outcome.uses[k].name
               i == outcome.uses[k].input
    <2>1. outcome.uses[k] \in ToSet((p \o r) \o h)
      BY <1>3, <1>7, <1>13
    <2>2. c # "web_search"
      BY <1>13 DEF IsSearch
    <2>3. \A x \in ToSet(r) : ~ (x.type = "tool_use" /\ x.name = c /\ x.input = i)
      BY <1>2, <1>13
    <2> HIDE DEF c, i
    <2>4. SameCalls(r, c, i) = 0
      BY <1>2, <2>3, CountsNone
    <2>5. SameCalls(p, c, i) = 0
      BY <1>4, CountsNone
    <2>6. SameCalls(h, c, i) = SameCalls(outcome.uses, c, i)
      BY <1>3, <2>2
    <2>7. SameCalls((p \o r) \o h, c, i) = SameCalls(outcome.uses, c, i)
      BY <1>8, <1>9, <1>10, <2>4, <2>5, <2>6
    <2> QED
      BY <2>1, <2>7 DEF c, i
  <1> QED
    BY <1>1, <1>7, <1>11, <1>12, <1>13 DEF p

-----------------------------------------------------------------------------
(* The invariant of a session.                                               *)

SearchIds(blocks) == {b.id : b \in {c \in ToSet(blocks) : c.type = "tool_use" /\ IsSearch(c)}}

\* Every search the upstream asked for has its result in the next message.
ResultsFollow(s) ==
    \A i \in DOMAIN s : SearchIds(s[i].blocks) # {} =>
        /\ i < Len(s) /\ s[i].role = "assistant"
        /\ SearchIds(s[i].blocks) = {b.id : b \in ToSet(s[i + 1].blocks)}

PayloadOk == IsList(payload) /\ ResultsFollow(payload)

Progress ==
    /\ stage \in {"idle", "round", "search", "answered"} /\ round \in Nat /\ round <= MaxRounds
    /\ found \in Nat /\ IsList(searched)
    /\ IsList(presentation) /\ PairedUp(presentation)
    /\ \A x \in ToSet(presentation) : x.type # "tool_use"
    /\ stage \in {"round", "search"} => records = <<>> /\ reply.ok = FALSE
    /\ stage = "round" => found = Servers(presentation)
    /\ stage = "search" => found = Servers(presentation) + Len(searched)

ReplyOk ==
    /\ reply.ok \in BOOLEAN /\ IsList(reply.content)
    /\ \A x \in ToSet(reply.content) : x.type = "tool_use" => x.name # "web_search" /\ IsInput(x.input)
    /\ PairedUp(reply.content)
    /\ reply.ok = TRUE => Servers(reply.content) = found

\* What is handed to the client when it is answered.
AnswerOk ==
    stage = "answered" =>
        /\ records = <<IF reply.ok = TRUE THEN "success" ELSE "error">>
        /\ reply.ok = TRUE =>
             /\ outcome.stop = "" =>
                  (reply.stop = "tool_use" <=> \E x \in ToSet(reply.content) : x.type = "tool_use")
             /\ \A k \in DOMAIN outcome.uses : ~ IsSearch(outcome.uses[k]) =>
                  SameCalls(reply.content, outcome.uses[k].name, outcome.uses[k].input)
                    = SameCalls(outcome.uses, outcome.uses[k].name, outcome.uses[k].input)

SessionInv == ItemsOk /\ OutcomeOk /\ PayloadOk /\ Progress /\ ReplyOk /\ AnswerOk

LEMMA ResultsFollowConcat ==
    ASSUME NEW s, IsList(s), ResultsFollow(s), NEW t, IsList(t), ResultsFollow(t)
    PROVE  IsList(s \o t) /\ ResultsFollow(s \o t)
  <1> DEFINE u == s \o t
  <1>1. Concats(s, t, u) /\ IsList(u)
    BY ListConcat
  <1>2. DOMAIN t = 1 .. Len(t)
    BY ListIsSeq
  <1> HIDE DEF u
  <1>3. ASSUME NEW k \in DOMAIN u, SearchIds(u[k].blocks) # {}
        PROVE  /\ k < Len(u) /\ u[k].role = "assistant"
               /\ SearchIds(u[k].blocks) = {b.id : b \in ToSet(u[k + 1].blocks)}
    <2>1. /\ Len(s) \in Nat /\ Len(t) \in Nat /\ Len(u) = Len(s) + Len(t)
          /\ DOMAIN s = 1 .. Len(s) /\ k \in 1 .. (Len(s) + Len(t))
      BY <1>1 DEF Concats
    <2>2. CASE k <= Len(s)
      <3>1. k \in 1 .. Len(s) /\ u[k] = s[k]
        BY <1>1, <2>1, <2>2 DEF Concats
      <3>2. /\ k < Len(s) /\ s[k].role = "assistant"
            /\ SearchIds(s[k].blocks) = {b.id : b \in ToSet(s[k + 1].blocks)}
        BY <1>3, <2>1, <3>1 DEF ResultsFollow
      <3>3. k + 1 \in 1 .. Len(s)
        BY <2>1, <3>1, <3>2
      <3>4. u[k + 1] = s[k + 1]
        BY <1>1, <3>3 DEF Concats
      <3> QED
        BY <2>1, <3>1, <3>2, <3>4
    <2>3. CASE ~ (k <= Len(s))
      <3> DEFINE j == k - Len(s)
      <3>1. j \in 1 .. Len(t) /\ k = Len(s) + j
        BY <2>1, <2>3
      <3> HIDE DEF j
      <3>2. u[k] = t[j]
        BY <1>1, <3>1 DEF Concats
      <3>3. /\ j < Len(t) /\ t[j].role = "assistant"
            /\ SearchIds(t[j].blocks) = {b.id : b \in ToSet(t[j + 1].blocks)}
        BY <1>2, <1>3, <3>1, <3>2 DEF ResultsFollow
      <3>4. j + 1 \in 1 .. Len(t) /\ Len(s) + (j + 1) = k + 1
        BY <2>1, <3>1, <3>3
      <3>5. u[k + 1] = t[j + 1]
        BY <1>1, <3>4 DEF Concats
      <3> QED
        BY <2>1, <3>1, <3>2, <3>3, <3>5
    <2> QED
      BY <2>2, <2>3
  <1> QED
    BY <1>1, <1>3 DEF ResultsFollow, u

\* The two messages of a round of searches.
LEMMA RoundFollows ==
    ASSUME OutcomeOk, \A k \in DOMAIN outcome.uses : IsSearch(outcome.uses[k])
    PROVE  LET t == <<[role |-> "assistant",
                       blocks |-> Texts(Joint(outcome.text)) \o outcome.uses],
                      [role |-> "user",
                       blocks |-> [i \in DOMAIN Searches |->
                                      ResultPart(Searches[i].id, <<searched[i]>>)]]>>
           IN  IsList(t) /\ ResultsFollow(t)
  <1> DEFINE uses == outcome.uses
             x == Texts(Joint(outcome.text))
             a == x \o uses
             b == [i \in DOMAIN Searches |-> ResultPart(Searches[i].id, <<searched[i]>>)]
             m == [role |-> "assistant", blocks |-> a]
             r == [role |-> "user", blocks |-> b]
             t == <<m, r>>
             n == Len(Searches)
  <1>1. IsList(x) /\ \A y \in ToSet(x) : y.type = "text"
    <2> DEFINE e == TextPart(Joint(outcome.text))
    <2>1. e.type = "text"
      BY DEF TextPart
    <2>2. x \in {<<>>, <<e>>}
      BY DEF Texts
    <2> HIDE DEF e, x
    <2> QED
      BY <2>1, <2>2, ListOfEmpty
  <1>2. IsList(uses) /\ ToSet(uses) = {uses[k] : k \in DOMAIN uses}
    BY DEF OutcomeOk, ToSet
  <1>3. \A y \in ToSet(uses) : y.type = "tool_use" /\ IsSearch(y)
    BY <1>2 DEF OutcomeOk
  <1> HIDE DEF x
  <1>4. IsList(a) /\ ToSet(a) = ToSet(x) \cup ToSet(uses)
    BY <1>1, <1>2, ListConcat
  <1>5. SearchIds(a) = {y.id : y \in ToSet(uses)}
    <2>1. {c \in ToSet(a) : c.type = "tool_use" /\ IsSearch(c)} = ToSet(uses)
      BY <1>1, <1>3, <1>4
    <2> HIDE DEF a, uses
    <2> QED
      BY <2>1 DEF SearchIds
  <1>6. n \in Nat /\ DOMAIN Searches = 1 .. n /\ ToSet(Searches) = ToSet(uses)
    <2>1. IsList(Searches) /\ ToSet(Searches) = {u \in ToSet(outcome.uses) : IsSearch(u)}
      BY SearchesIs
    <2>2. n \in Nat /\ DOMAIN Searches = 1 .. n
      BY <2>1, ListIsSeq
    <2> QED
      BY <1>3, <2>1, <2>2
  <1>7. {y.id : y \in ToSet(b)} = {y.id : y \in ToSet(Searches)}
    <2>1. ToSet(b) = {b[k] : k \in DOMAIN b} /\ ToSet(Searches) = {Searches[k] : k \in DOMAIN Searches}
      BY DEF ToSet
    <2>2. DOMAIN b = DOMAIN Searches /\ \A k \in DOMAIN Searches : b[k].id = Searches[k].id
      BY DEF ResultPart
    <2> HIDE DEF b
    <2> QED
      BY <2>1, <2>2
  <1>8. SearchIds(b) = {}
    <2>1. ToSet(b) = {b[k] : k \in DOMAIN b}
      BY DEF ToSet
    <2>2. \A k \in DOMAIN b : b[k].type = "tool_result"
      BY DEF ResultPart
    <2> HIDE DEF b
    <2>3. {c \in ToSet(b) : c.type = "tool_use" /\ IsSearch(c)} = {}
      BY <2>1, <2>2
    <2> QED
      BY <2>3 DEF SearchIds
  <1> HIDE DEF a, b, uses, n
  <1>9. /\ m.role = "assistant" /\ m.blocks = a /\ r.blocks = b
    OBVIOUS
  <1> HIDE DEF m, r
  <1>10. t \in Seq({m, r}) /\ DOMAIN t = 1 .. 2 /\ Len(t) = 2 /\ t[1] = m /\ t[2] = r
    OBVIOUS
  <1> HIDE DEF t
  <1>11. IsList(t)
    BY <1>10, SeqIsList
  <1>12. ASSUME NEW k \in DOMAIN t, SearchIds(t[k].blocks) # {}
         PROVE  /\ k < Len(t) /\ t[k].role = "assistant"
                /\ SearchIds(t[k].blocks) = {y.id : y \in ToSet(t[k + 1].blocks)}
    <2>1. k = 1
      BY <1>8, <1>9, <1>10, <1>12
    <2>2. t[k] = m /\ t[k + 1] = r
      BY <1>10, <2>1
    <2>3. SearchIds(t[k].blocks) = {y.id : y \in ToSet(uses)}
      BY <1>5, <1>9, <2>2
    <2>4. {y.id : y \in ToSet(t[k + 1].blocks)} = {y.id : y \in ToSet(uses)}
      BY <1>6, <1>7, <1>9, <2>2
    <2>5. k < Len(t) /\ t[k].role = "assistant"
      BY <1>9, <1>10, <2>1, <2>2
    <2> QED
      BY <2>3, <2>4, <2>5
  <1>13. ResultsFollow(t)
    BY <1>12 DEF ResultsFollow
  <1> QED
    BY <1>11, <1>13 DEF t, m, r, a, b, uses, x

LEMMA AssembledIs ==
    ASSUME NEW pieces, IsList(pieces), \A k \in DOMAIN pieces : IsInput(pieces[k].input),
           NEW i \in DOMAIN pieces
    PROVE  IsInput(Assembled(Those(pieces, {p \in ToSet(pieces) : p.k = pieces[i].k})))
  <1> DEFINE U == ToSet(pieces)
             T == {p \in U : p.k = pieces[i].k}
             own == Those(pieces, T)
             parts == SelectSeq([k \in DOMAIN own |-> own[k].part], LAMBDA p : p # "")
  <1>1. pieces \in Seq(U) /\ \A p \in U : IsInput(p.input)
    BY DEF IsList, ToSet
  <1>2. pieces[i] \in T /\ T \in SUBSET U
    BY DEF ToSet
  <1>8. Assembled(own) \in {own[1].input, Empty}
    BY DEF Assembled
  <1> HIDE DEF U, T, parts
  <1>3. own \in Seq(U)
    BY <1>1, ThoseIs
  <1>4. ToSet(own) = U \cap T
    BY <1>1, ThoseRange DEF U
  <1> HIDE DEF own
  <1>5. own # <<>>
    <2>1. ToSet(own) # {}
      BY <1>2, <1>4
    <2> QED
      BY <2>1, ListOfEmpty
  <1>6. own[1] \in U
    <2>1. 1 \in 1 .. Len(own)
      BY <1>3, <1>5, EmptySeq, LenProperties
    <2> QED
      BY <1>3, <2>1, ElementOfSeq
  <1>7. IsInput(own[1].input) /\ IsInput(Empty)
    BY <1>1, <1>6 DEF IsInput, Empty
  <1>9. IsInput(Assembled(own))
    BY <1>7, <1>8
  <1> QED
    BY <1>9 DEF own, T, U

\* The calls of a round.
LEMMA ToolUsesIs ==
    ASSUME NEW pieces, IsList(pieces), \A k \in DOMAIN pieces : IsInput(pieces[k].input)
    PROVE  /\ IsList(ToolUses(pieces))
           /\ \A k \in DOMAIN ToolUses(pieces) :
                ToolUses(pieces)[k].type = "tool_use" /\ IsInput(ToolUses(pieces)[k].input)
  <1> DEFINE n == Len(pieces)
             all == [i \in DOMAIN pieces |-> i]
             first == {i \in DOMAIN pieces : \A j \in 1..(i - 1) : pieces[j].k # pieces[i].k}
             order == Those(all, first)
             own(k) == Those(pieces, {p \in ToSet(pieces) : p.k = k})
             f == [i \in DOMAIN order |->
                      UsePart(IdOf(pieces[order[i]].k), pieces[order[i]].name,
                              Assembled(own(pieces[order[i]].k)))]
             m == Len(order)
  <1>1. ToolUses(pieces) = f
    BY DEF ToolUses
  <1>2. n \in Nat /\ DOMAIN pieces = 1 .. n
    BY ListIsSeq
  <1> HIDE DEF n
  <1>3. all \in Seq(1 .. n)
    <2>1. all = [k \in 1 .. n |-> all[k]] /\ DOMAIN all = 1 .. n /\ \A k \in 1 .. n : all[k] \in 1 .. n
      BY <1>2
    <2> HIDE DEF all
    <2> DEFINE U == 1 .. n
    <2>2. \A k \in 1 .. n : all[k] \in U
      BY <2>1
    <2> HIDE DEF U
    <2>3. all \in Seq(U)
      BY <1>2, <2>1, <2>2, PlacesIn
    <2> QED
      BY <2>3 DEF U
  <1> HIDE DEF all, first
  <1>4. order \in Seq(1 .. n)
    BY <1>3, ThoseIs
  <1>5. m \in Nat /\ DOMAIN order = 1 .. m
    BY <1>4, LenProperties
  <1> HIDE DEF order, m
  <1>8. \A i \in 1 .. m : order[i] \in 1 .. n
    <2> DEFINE U == 1 .. n
    <2>1. order \in Seq(U)
      BY <1>4
    <2> HIDE DEF U
    <2>2. \A i \in DOMAIN order : order[i] \in U
      BY <2>1, ElementOfSeq, LenProperties
    <2> QED
      BY <1>5, <2>2 DEF U
  <1>9. ASSUME NEW i \in 1 .. n
        PROVE  IsInput(Assembled(own(pieces[i].k)))
    BY <1>2, AssembledIs
  <1> HIDE DEF own
  <1>6. /\ f = [k \in 1 .. m |-> f[k]]
        /\ \A k \in 1 .. m : f[k].type = "tool_use" /\ IsInput(f[k].input)
    BY <1>5, <1>8, <1>9 DEF UsePart
  <1> HIDE DEF f
  <1>7. IsList(f) /\ DOMAIN f = 1 .. m
    BY <1>5, <1>6, MapList
  <1> QED
    BY <1>1, <1>6, <1>7

LEMMA AppendOne ==
    ASSUME NEW x
    PROVE  Append(<<>>, x) = <<x>>
  OBVIOUS

LEMMA EmptyFacts ==
    /\ IsList(<<>>) /\ PairedUp(<<>>) /\ Servers(<<>>) = 0 /\ ToSet(<<>>) = {}
    /\ ResultsFollow(<<>>)
  <1>1. IsList(<<>>) /\ ToSet(<<>>) = {}
    BY ListOfEmpty
  <1>2. Servers(<<>>) = 0 /\ PairedUp(<<>>)
    BY <1>1, CountsNone
  <1> QED
    BY <1>1, <1>2 DEF ResultsFollow

LEMMA SessionInit ==
    ASSUME CodexAssumption, MaxRounds \in Nat, CodexInit
    PROVE  SessionInv
  <1>1. ItemsOk
    BY InitItemsOk
  <1>2. LoopInit
    BY DEF CodexInit
  <1>3. OutcomeOk
    <2>1. outcome.text = <<>> /\ outcome.uses = <<>>
      BY <1>2 DEF LoopInit, NoOutcome
    <2> QED
      BY <2>1, EmptyFacts DEF OutcomeOk
  <1>4. PayloadOk
    BY <1>2, EmptyFacts DEF LoopInit, PayloadOk
  <1>5. Progress
    BY <1>2, EmptyFacts DEF LoopInit, Progress
  <1>6. ReplyOk
    <2>1. reply.ok = FALSE /\ reply.content = <<>>
      BY <1>2 DEF LoopInit, NoReply
    <2> QED
      BY <2>1, EmptyFacts DEF ReplyOk
  <1>7. AnswerOk
    BY <1>2 DEF LoopInit, AnswerOk
  <1> QED
    BY <1>1, <1>3, <1>4, <1>5, <1>6, <1>7 DEF SessionInv

LEMMA RequestKeeps ==
    ASSUME MaxRounds \in Nat, SessionInv, Request
    PROVE  SessionInv'
  <1> DEFINE ms == ItemsToAnthropic(items).messages
  <1>1. /\ payload' = ms /\ UNCHANGED <<items, declared>>
        /\ round' = 0 /\ outcome' = NoOutcome /\ searched' = <<>> /\ presentation' = <<>>
        /\ stage' = "round" /\ reply' = NoReply /\ records' = <<>> /\ found' = 0
    BY DEF Request, Enter
  <1>2. ItemsOk'
    BY <1>1 DEF SessionInv, ItemsOk, AllOk
  <1>3. OutcomeOk'
    <2>1. outcome'.text = <<>> /\ outcome'.uses = <<>>
      BY <1>1 DEF NoOutcome
    <2> QED
      BY <2>1, EmptyFacts DEF OutcomeOk
  <1>4. PayloadOk'
    <2>1. /\ IsList(ms)
          /\ \A k \in DOMAIN ms :
               \A b \in ToSet(ms[k].blocks) : ~ (b.type = "tool_use" /\ b.name = "web_search")
      BY NoSearchOfItems DEF SessionInv, ItemsOk
    <2> HIDE DEF ms
    <2>2. \A k \in DOMAIN ms : SearchIds(ms[k].blocks) = {}
      <3> SUFFICES ASSUME NEW k \in DOMAIN ms PROVE SearchIds(ms[k].blocks) = {}
        OBVIOUS
      <3>1. {c \in ToSet(ms[k].blocks) : c.type = "tool_use" /\ IsSearch(c)} = {}
        BY <2>1 DEF IsSearch
      <3> QED
        BY <3>1 DEF SearchIds
    <2>3. ResultsFollow(ms)
      BY <2>2 DEF ResultsFollow
    <2> QED
      BY <1>1, <2>1, <2>3 DEF PayloadOk
  <1> HIDE DEF ms
  <1>5. reply'.ok = FALSE /\ reply'.content = <<>>
    BY <1>1 DEF NoReply
  <1>6. Progress'
    BY <1>1, <1>5, EmptyFacts DEF Progress
  <1>7. ReplyOk'
    BY <1>5, EmptyFacts DEF ReplyOk
  <1>8. AnswerOk'
    BY <1>1 DEF AnswerOk
  <1> QED
    BY <1>2, <1>3, <1>4, <1>6, <1>7, <1>8 DEF SessionInv

LEMMA ReceiveKeeps ==
    ASSUME SessionInv, Receive
    PROVE  SessionInv'
  <1>1. /\ stage' = "idle"
        /\ UNCHANGED <<declared, payload, known, round, outcome, searched, presentation,
                       reply, records, turns, found>>
    BY DEF Receive
  <1>2. ItemsOk'
    BY ReceiveItemsOk DEF SessionInv, ReplyOk
  <1>3. OutcomeOk' /\ PayloadOk'
    BY <1>1 DEF SessionInv, OutcomeOk, PayloadOk
  <1>4. Progress' /\ ReplyOk' /\ AnswerOk'
    BY <1>1 DEF SessionInv, Progress, ReplyOk, AnswerOk
  <1> QED
    BY <1>2, <1>3, <1>4 DEF SessionInv

\* An answer that is an error.
LEMMA ErrorKeeps ==
    ASSUME SessionInv, stage \in {"round", "search"}, Answered(FALSE, <<>>, ""),
           UNCHANGED <<items, declared, payload, round, outcome, searched, presentation, found>>
    PROVE  SessionInv'
  <1>1. /\ stage' = "answered" /\ reply' = [ok |-> FALSE, content |-> <<>>, stop |-> ""]
        /\ records' = Append(records, "error")
    BY DEF Answered
  <1>2. reply'.ok = FALSE /\ reply'.content = <<>>
    BY <1>1
  <1>3. records' = <<"error">>
    <2>1. records = <<>>
      BY DEF SessionInv, Progress
    <2>2. Append(<<>>, "error") = <<"error">>
      BY AppendOne
    <2> QED
      BY <1>1, <2>1, <2>2
  <1>4. ItemsOk' /\ OutcomeOk' /\ PayloadOk'
    BY DEF SessionInv, ItemsOk, AllOk, OutcomeOk, PayloadOk
  <1>5. Progress'
    BY <1>1 DEF SessionInv, Progress
  <1>6. ReplyOk'
    BY <1>2, EmptyFacts DEF ReplyOk
  <1>7. AnswerOk'
    BY <1>2, <1>3 DEF AnswerOk
  <1> QED
    BY <1>4, <1>5, <1>6, <1>7 DEF SessionInv

LEMMA RunRoundKeeps ==
    ASSUME CodexAssumption, SessionInv, RunRound, UNCHANGED <<items, declared, said>>
    PROVE  SessionInv'
  <1>1. PICK a \in Answers :
           IF a.broken
           THEN Answered(FALSE, <<>>, "") /\ UNCHANGED <<outcome, searched>>
           ELSE /\ outcome' = [text |-> a.text, uses |-> ToolUses(a.pieces), stop |-> a.stop]
                /\ searched' = <<>> /\ stage' = "search"
                /\ UNCHANGED <<reply, records>>
    BY DEF RunRound
  <1>2. stage = "round" /\ UNCHANGED <<payload, known, round, presentation, turns, found>>
    BY DEF RunRound
  <1>3. CASE a.broken
    BY <1>1, <1>2, <1>3, ErrorKeeps
  <1>4. CASE ~ a.broken
    <2>1. /\ outcome' = [text |-> a.text, uses |-> ToolUses(a.pieces), stop |-> a.stop]
          /\ searched' = <<>> /\ stage' = "search" /\ UNCHANGED <<reply, records>>
      BY <1>1, <1>4
    <2>2. /\ IsList(a.text) /\ IsList(a.pieces)
          /\ \A k \in DOMAIN a.text :
               /\ a.text[k].type \in {"text", "invoke"}
               /\ a.text[k].type = "invoke" => IsInput(a.text[k].input)
          /\ \A k \in DOMAIN a.pieces : IsInput(a.pieces[k].input)
      BY DEF CodexAssumption
    <2>3. /\ IsList(ToolUses(a.pieces))
          /\ \A k \in DOMAIN ToolUses(a.pieces) :
               ToolUses(a.pieces)[k].type = "tool_use" /\ IsInput(ToolUses(a.pieces)[k].input)
      BY <2>2, ToolUsesIs
    <2>4. outcome'.text = a.text /\ outcome'.uses = ToolUses(a.pieces)
      BY <2>1
    <2>5. OutcomeOk'
      BY <2>2, <2>3, <2>4 DEF OutcomeOk
    <2>6. ItemsOk' /\ PayloadOk'
      BY <1>2 DEF SessionInv, ItemsOk, AllOk, PayloadOk
    <2>7. Progress'
      <3>1. Len(<<>>) = 0 /\ IsList(<<>>) /\ Servers(presentation) \in Nat
        BY <1>2, EmptyFacts DEF SessionInv, Progress
      <3> QED
        BY <1>2, <2>1, <3>1 DEF SessionInv, Progress
    <2>8. ReplyOk' /\ AnswerOk'
      BY <1>2, <2>1 DEF SessionInv, ReplyOk, AnswerOk
    <2> QED
      BY <2>5, <2>6, <2>7, <2>8 DEF SessionInv
  <1> QED
    BY <1>3, <1>4

LEMMA SearchKeeps ==
    ASSUME SessionInv, Search, UNCHANGED <<items, declared, said>>
    PROVE  SessionInv'
  <1>1. PICK result \in {"found", "none"} : searched' = Append(searched, result)
    BY DEF Search
  <1>2. /\ stage = "search" /\ found' = found + 1
        /\ UNCHANGED <<payload, known, round, outcome, presentation, stage, reply, records, turns>>
    BY DEF Search
  <1>3. IsList(searched') /\ Len(searched') = Len(searched) + 1 /\ Len(searched) \in Nat
    <2>1. IsList(searched)
      BY DEF SessionInv, Progress
    <2>2. IsSeq(searched)
      BY <2>1, ListIsSeq
    <2>3. Appended(searched, result, searched')
      BY <1>1, <2>2, AppendSeq
    <2>4. IsSeq(searched') /\ Len(searched') = Len(searched) + 1 /\ Len(searched) \in Nat
      BY <2>3 DEF Appended
    <2>5. searched' \in Seq({searched'[k] : k \in DOMAIN searched'})
      BY <2>4 DEF IsSeq
    <2> DEFINE U == {searched'[k] : k \in DOMAIN searched'}
    <2> HIDE DEF U
    <2>6. searched' \in Seq(U)
      BY <2>5 DEF U
    <2>7. IsList(searched')
      BY <2>6, SeqIsList
    <2> QED
      BY <2>4, <2>7
  <1>4. ItemsOk' /\ OutcomeOk' /\ PayloadOk'
    BY <1>2 DEF SessionInv, ItemsOk, AllOk, OutcomeOk, PayloadOk
  <1>5. Progress'
    <2>1. Servers(presentation) \in Nat
      <3>1. presentation \in Seq(ToSet(presentation))
        BY DEF SessionInv, Progress, IsList
      <3> QED
        BY <3>1, CountsIn
    <2>2. found' = Servers(presentation') + Len(searched') /\ found' \in Nat
      BY <1>2, <1>3, <2>1 DEF SessionInv, Progress
    <2> QED
      BY <1>2, <1>3, <2>2 DEF SessionInv, Progress
  <1>6. ReplyOk' /\ AnswerOk'
    BY <1>2 DEF SessionInv, ReplyOk, AnswerOk, Progress
  <1> QED
    BY <1>4, <1>5, <1>6 DEF SessionInv

LEMMA AppendRoundKeeps ==
    ASSUME MaxRounds \in Nat, SessionInv, AppendRound, UNCHANGED <<items, declared, said>>
    PROVE  SessionInv'
  <1> DEFINE t == <<[role |-> "assistant",
                     blocks |-> Texts(Joint(outcome.text)) \o outcome.uses],
                    [role |-> "user",
                     blocks |-> [i \in DOMAIN Searches |->
                                    ResultPart(Searches[i].id, <<searched[i]>>)]]>>
  <1>1. /\ stage = "search" /\ Len(searched) = Len(Searches) /\ SearchesOnly
        /\ payload' = payload \o t /\ presentation' = presentation \o AllShown
        /\ round' = round + 1 /\ stage' = "round"
        /\ UNCHANGED <<known, outcome, searched, reply, records, turns, found>>
    BY DEF AppendRound
  <1>2. IsList(t) /\ ResultsFollow(t)
    BY <1>1, RoundFollows DEF SearchesOnly, SessionInv
  <1> HIDE DEF t
  <1>3. PayloadOk'
    BY <1>1, <1>2, ResultsFollowConcat DEF SessionInv, PayloadOk
  <1>4. ItemsOk' /\ OutcomeOk'
    BY <1>1 DEF SessionInv, ItemsOk, AllOk, OutcomeOk
  <1>5. /\ IsList(AllShown) /\ PairedUp(AllShown) /\ Servers(AllShown) = Len(Searches)
        /\ \A x \in ToSet(AllShown) : x.type # "tool_use"
    BY AllShownIs DEF SessionInv
  <1>6. /\ IsList(presentation) /\ PairedUp(presentation)
        /\ \A x \in ToSet(presentation) : x.type # "tool_use"
    BY DEF SessionInv, Progress
  <1>7. /\ IsList(presentation \o AllShown) /\ PairedUp(presentation \o AllShown)
        /\ ToSet(presentation \o AllShown) = ToSet(presentation) \cup ToSet(AllShown)
        /\ Servers(presentation \o AllShown) = Servers(presentation) + Servers(AllShown)
    BY <1>5, <1>6, ListConcat, PairedConcat, CountsConcat
  <1>8. round \in Nat /\ round < MaxRounds
    BY <1>1 DEF SearchesOnly, SessionInv, Progress
  <1>9. Progress'
    <2>1. found' = Servers(presentation')
      BY <1>1, <1>5, <1>7 DEF SessionInv, Progress
    <2>2. \A x \in ToSet(presentation') : x.type # "tool_use"
      BY <1>1, <1>5, <1>6, <1>7
    <2>3. IsList(presentation') /\ PairedUp(presentation')
      BY <1>1, <1>7
    <2>4. round' \in Nat /\ round' <= MaxRounds
      BY <1>1, <1>8
    <2>5. records' = <<>> /\ reply'.ok = FALSE /\ found' \in Nat /\ IsList(searched')
      BY <1>1 DEF SessionInv, Progress
    <2> QED
      BY <1>1, <2>1, <2>2, <2>3, <2>4, <2>5 DEF Progress
  <1>10. ReplyOk' /\ AnswerOk'
    BY <1>1 DEF SessionInv, ReplyOk, AnswerOk, Progress
  <1> QED
    BY <1>3, <1>4, <1>9, <1>10 DEF SessionInv

LEMMA FlushKeeps ==
    ASSUME SessionInv, Flush, UNCHANGED <<items, declared, said>>
    PROVE  SessionInv'
  <1> DEFINE c == Flushed
  <1>1. /\ stage = "search" /\ Len(searched) = Len(Searches)
        /\ Answered(TRUE, c, StopReason(c))
        /\ UNCHANGED <<payload, known, round, outcome, searched, presentation, turns, found>>
    BY DEF Flush
  <1>2. /\ stage' = "answered" /\ reply'.ok = TRUE /\ reply'.content = c
        /\ reply'.stop = StopReason(c) /\ records' = Append(records, "success")
    BY <1>1 DEF Answered
  <1>3. records' = <<"success">>
    BY <1>1, <1>2 DEF SessionInv, Progress
  <1>4. /\ IsList(c) /\ PairedUp(c)
        /\ Servers(c) = Servers(presentation) + Len(Searches)
        /\ \A x \in ToSet(c) : x.type = "tool_use" => x.name # "web_search" /\ IsInput(x.input)
        /\ \A k \in DOMAIN outcome.uses : ~ IsSearch(outcome.uses[k]) =>
             /\ outcome.uses[k] \in ToSet(c)
             /\ SameCalls(c, outcome.uses[k].name, outcome.uses[k].input)
                  = SameCalls(outcome.uses, outcome.uses[k].name, outcome.uses[k].input)
    BY FlushedIs DEF SessionInv, Progress
  <1> HIDE DEF c
  <1>5. ItemsOk' /\ OutcomeOk' /\ PayloadOk'
    BY <1>1 DEF SessionInv, ItemsOk, AllOk, OutcomeOk, PayloadOk
  <1>6. Progress'
    BY <1>1, <1>2 DEF SessionInv, Progress
  <1>7. ReplyOk'
    <2>1. Servers(c) = found
      BY <1>1, <1>4 DEF SessionInv, Progress
    <2> QED
      BY <1>1, <1>2, <1>4, <2>1 DEF ReplyOk
  <1>8. AnswerOk'
    <2>1. ASSUME outcome.stop = ""
          PROVE  StopReason(c) = "tool_use" <=> \E x \in ToSet(c) : x.type = "tool_use"
      <3>1. (\E i \in DOMAIN c : c[i].type = "tool_use") <=> \E x \in ToSet(c) : x.type = "tool_use"
        BY DEF ToSet
      <3>2. (\E i \in DOMAIN outcome.uses : ~ IsSearch(outcome.uses[i]))
              => \E x \in ToSet(c) : x.type = "tool_use"
        BY <1>4 DEF SessionInv, OutcomeOk
      <3> QED
        BY <2>1, <3>1, <3>2 DEF StopReason
    <2>2. outcome' = outcome
      BY <1>1
    <2> QED
      BY <1>2, <1>3, <1>4, <2>1, <2>2 DEF AnswerOk
  <1> QED
    BY <1>5, <1>6, <1>7, <1>8 DEF SessionInv

LEMMA StutterKeeps ==
    ASSUME SessionInv, UNCHANGED codexVars
    PROVE  SessionInv'
  <1>1. UNCHANGED <<items, declared, payload, round, outcome, searched, presentation, stage,
                    reply, records, found>>
    BY DEF codexVars
  <1>2. ItemsOk' /\ OutcomeOk' /\ PayloadOk'
    BY <1>1 DEF SessionInv, ItemsOk, AllOk, OutcomeOk, PayloadOk
  <1>3. Progress' /\ ReplyOk' /\ AnswerOk'
    BY <1>1 DEF SessionInv, Progress, ReplyOk, AnswerOk
  <1> QED
    BY <1>2, <1>3 DEF SessionInv

LEMMA SessionNext ==
    ASSUME CodexAssumption, MaxRounds \in Nat, SessionInv, [CodexNext]_codexVars
    PROVE  SessionInv'
  <1>1. CASE Request
    BY <1>1, RequestKeeps
  <1>2. CASE Receive
    BY <1>2, ReceiveKeeps
  <1>3. CASE LoopNext /\ UNCHANGED <<items, declared, said>>
    <2>1. CASE RoundFails
      BY <1>3, <2>1, ErrorKeeps DEF RoundFails
    <2>2. CASE RunRound
      BY <1>3, <2>2, RunRoundKeeps
    <2>3. CASE Search
      BY <1>3, <2>3, SearchKeeps
    <2>4. CASE SearchFails
      BY <1>3, <2>4, ErrorKeeps DEF SearchFails
    <2>5. CASE AppendRound
      BY <1>3, <2>5, AppendRoundKeeps
    <2>6. CASE Flush
      BY <1>3, <2>6, FlushKeeps
    <2> QED
      BY <1>3, <2>1, <2>2, <2>3, <2>4, <2>5, <2>6 DEF LoopNext
  <1>4. CASE UNCHANGED codexVars
    BY <1>4, StutterKeeps
  <1> QED
    BY <1>1, <1>2, <1>3, <1>4 DEF CodexNext, Loop

LEMMA SessionTrue ==
    ASSUME SessionInv
    PROVE  LoopIsTrue
  <1>1. IsList(reply.content) /\ IsList(payload)
    BY DEF SessionInv, ReplyOk, PayloadOk
  <1>2. ToSet(reply.content) = {reply.content[k] : k \in DOMAIN reply.content}
    BY DEF ToSet
  <1>3. SearchStaysInside
    <2>1. ASSUME reply.ok
          PROVE  /\ \A i \in DOMAIN reply.content :
                      /\ reply.content[i].type = "tool_use" => reply.content[i].name # "web_search"
                      /\ reply.content[i].type = "server_tool_use" =>
                           /\ i < Len(reply.content)
                           /\ reply.content[i + 1].type = "web_search_tool_result"
                 /\ Len(OfType(reply.content, "server_tool_use")) = found
      <3>1. reply.ok = TRUE
        BY <2>1 DEF SessionInv, ReplyOk
      <3>2. Len(OfType(reply.content, "server_tool_use")) = Servers(reply.content)
        BY <1>1, OfTypeIs DEF Servers
      <3>3. Servers(reply.content) = found /\ PairedUp(reply.content)
        BY <3>1 DEF SessionInv, ReplyOk
      <3>4. \A i \in DOMAIN reply.content :
               reply.content[i].type = "tool_use" => reply.content[i].name # "web_search"
        BY <1>2 DEF SessionInv, ReplyOk
      <3> QED
        BY <3>2, <3>3, <3>4 DEF PairedUp
    <2>2. ResultsFollow(payload)
      BY DEF SessionInv, PayloadOk
    <2> QED
      BY <2>1, <2>2 DEF SearchStaysInside, ResultsFollow, SearchIds
  <1>4. AnswerAgrees
    <2>1. round <= MaxRounds /\ (stage \in {"round", "search"} => records = <<>>)
      BY DEF SessionInv, Progress
    <2>2. stage = "answered" => records = <<IF reply.ok THEN "success" ELSE "error">>
      BY DEF SessionInv, ReplyOk, AnswerOk
    <2> DEFINE uses == OfType(reply.content, "tool_use")
    <2>3. ASSUME stage = "answered", reply.ok
          PROVE  /\ outcome.stop = "" => (reply.stop = "tool_use" <=> uses # <<>>)
                 /\ \A i \in DOMAIN outcome.uses : ~IsSearch(outcome.uses[i]) =>
                      Cardinality({j \in DOMAIN uses : /\ uses[j].name = outcome.uses[i].name
                                                       /\ uses[j].input = outcome.uses[i].input})
                        = Cardinality({j \in DOMAIN outcome.uses :
                                         /\ outcome.uses[j].name = outcome.uses[i].name
                                         /\ outcome.uses[j].input = outcome.uses[i].input})
      <3>1. reply.ok = TRUE
        BY <2>3 DEF SessionInv, ReplyOk
      <3>2. /\ IsList(uses)
            /\ \A x : x \in ToSet(uses) <=> x \in ToSet(reply.content) /\ x.type = "tool_use"
        BY <1>1, OfTypeIs
      <3>3. uses # <<>> <=> \E x \in ToSet(reply.content) : x.type = "tool_use"
        <4> HIDE DEF uses
        <4>1. ToSet(uses) = {uses[k] : k \in DOMAIN uses} /\ Len(uses) \in Nat /\ DOMAIN uses = 1 .. Len(uses)
          BY <3>2, ListIsSeq DEF ToSet
        <4>2. uses = <<>> => ToSet(uses) = {}
          BY EmptyFacts
        <4>3. uses # <<>> => 1 \in DOMAIN uses
          <5>1. uses \in Seq(ToSet(uses))
            BY <3>2 DEF IsList
          <5> QED
            BY <4>1, <5>1, EmptySeq
        <4> QED
          BY <3>2, <4>1, <4>2, <4>3
      <3>4. ASSUME NEW n, NEW i
            PROVE  Cardinality({j \in DOMAIN uses : uses[j].name = n /\ uses[j].input = i})
                     = SameCalls(reply.content, n, i)
        <4> DEFINE s == reply.content
                   U == ToSet(s)
                   T == {b \in ToSet(s) : b.type = "tool_use"}
                   Q == CallsIn(U, n, i)
        <4>1. s \in Seq(U)
          BY <1>1 DEF IsList
        <4>2. uses = Those(s, T)
          BY DEF OfType
        <4>3. T \cap Q = Q
          BY DEF CallsIn
        <4> HIDE DEF U, T, uses, s
        <4>7. Those(s, T) \in Seq(U)
          BY <4>1, ThoseIs
        <4>8. Those(Those(s, T), Q) = Those(s, T \cap Q)
          BY <4>1, ThoseTwice
        <4>4. uses \in Seq(U) /\ Those(uses, Q) = Those(s, T \cap Q)
          BY <4>2, <4>7, <4>8
        <4>5. SameCalls(uses, n, i) = Len(Those(uses, Q)) /\ SameCalls(s, n, i) = Len(Those(s, Q))
          BY <4>1, <4>4, CountsIn
        <4>6. {j \in DOMAIN uses : uses[j].name = n /\ uses[j].input = i}
                = {j \in DOMAIN uses : uses[j].type = "tool_use" /\ uses[j].name = n /\ uses[j].input = i}
          <5>1. \A j \in DOMAIN uses : uses[j] \in ToSet(uses)
            BY DEF ToSet
          <5> QED
            BY <3>2, <5>1
        <4> QED
          BY <4>3, <4>4, <4>5, <4>6 DEF SameCalls, s
      <3>5. ASSUME NEW n, NEW i
            PROVE  Cardinality({j \in DOMAIN outcome.uses :
                                  outcome.uses[j].name = n /\ outcome.uses[j].input = i})
                     = SameCalls(outcome.uses, n, i)
        <4>1. {j \in DOMAIN outcome.uses : outcome.uses[j].name = n /\ outcome.uses[j].input = i}
                = {j \in DOMAIN outcome.uses : /\ outcome.uses[j].type = "tool_use"
                                               /\ outcome.uses[j].name = n /\ outcome.uses[j].input = i}
          BY DEF SessionInv, OutcomeOk
        <4> QED
          BY <4>1 DEF SameCalls
      <3> HIDE DEF uses
      <3>6. outcome.stop = "" => (reply.stop = "tool_use" <=> uses # <<>>)
        BY <2>3, <3>1, <3>3 DEF SessionInv, AnswerOk
      <3>7. ASSUME NEW i \in DOMAIN outcome.uses, ~ IsSearch(outcome.uses[i])
            PROVE  SameCalls(reply.content, outcome.uses[i].name, outcome.uses[i].input)
                     = SameCalls(outcome.uses, outcome.uses[i].name, outcome.uses[i].input)
        BY <2>3, <3>1, <3>7 DEF SessionInv, AnswerOk
      <3>8. ASSUME NEW i \in DOMAIN outcome.uses, ~ IsSearch(outcome.uses[i])
            PROVE  Cardinality({j \in DOMAIN uses : /\ uses[j].name = outcome.uses[i].name
                                                    /\ uses[j].input = outcome.uses[i].input})
                     = Cardinality({j \in DOMAIN outcome.uses :
                                      /\ outcome.uses[j].name = outcome.uses[i].name
                                      /\ outcome.uses[j].input = outcome.uses[i].input})
        BY <3>4, <3>5, <3>7, <3>8
      <3> QED
        BY <3>6, <3>8
    <2> QED
      BY <2>1, <2>2, <2>3 DEF AnswerAgrees
  <1> QED
    BY <1>3, <1>4 DEF LoopIsTrue

\* LoopIsTrue, for every client and every upstream: whatever answers come, leaks
\* and declared tools included, however often the loop searches and however many
\* turns the session has, no web_search is flushed to the client as a tool_use,
\* each is shown with its result, the upstream is sent the results of just the
\* searches it asked for, each call of the model's is handed on as often as it was
\* made, and stop reason and books agree with what was answered
\* (websearch_loop.rs: run_web_search_loop, partition_tool_uses, build_flush_content).
THEOREM LoopTellsTrue ==
    CodexSpec => []LoopIsTrue
  <1>1. CodexAssumption /\ MaxRounds \in Nat
    BY CodexAssumption, RoundsAssumption
  <1>2. CodexInit => SessionInv
    BY <1>1, SessionInit
  <1>3. SessionInv /\ [CodexNext]_codexVars => SessionInv'
    BY <1>1, SessionNext
  <1>4. SessionInv => LoopIsTrue
    BY SessionTrue
  <1> QED
    BY <1>2, <1>3, <1>4, PTL DEF CodexSpec

-----------------------------------------------------------------------------
(* What a client sends again.                                                *)

\* The calls among items.
Calls(s) == Those(s, {x \in ToSet(s) : IsCall(x)})

LEMMA CallsAmong ==
    ASSUME NEW U, NEW s \in Seq(U)
    PROVE  Calls(s) = Those(s, {x \in U : IsCall(x)}) /\ IsList(Calls(s))
  <1> DEFINE T == {x \in ToSet(s) : IsCall(x)}
             Q == {x \in U : IsCall(x)}
  <1>1. ToSet(s) \in SUBSET U
    BY SeqIsList
  <1>2. ToSet(s) \cap T = ToSet(s) \cap Q
    BY <1>1
  <1> HIDE DEF T, Q
  <1>3. Those(s, T) = Those(s, Q)
    BY <1>2, ThoseSame
  <1>4. Those(s, T) \in Seq(U)
    BY ThoseIs
  <1>5. IsList(Those(s, T))
    BY <1>4, SeqIsList
  <1> QED
    BY <1>3, <1>5 DEF Calls, T, Q

LEMMA CallsConcat ==
    ASSUME NEW s, IsList(s), NEW t, IsList(t)
    PROVE  Calls(s \o t) = Calls(s) \o Calls(t)
  <1> DEFINE U == ToSet(s) \cup ToSet(t)
             Q == {x \in U : IsCall(x)}
  <1>1. s \in Seq(ToSet(s)) /\ t \in Seq(ToSet(t))
    BY DEF IsList
  <1>2. s \in Seq(U) /\ t \in Seq(U)
    BY <1>1, SeqMonotonic
  <1> HIDE DEF U
  <1>3. s \o t \in Seq(U)
    BY <1>2, ConcatProperties
  <1>4. Calls(s) = Those(s, Q) /\ Calls(t) = Those(t, Q) /\ Calls(s \o t) = Those(s \o t, Q)
    BY <1>2, <1>3, CallsAmong
  <1> HIDE DEF Q
  <1>5. Those(s \o t, Q) = Those(s, Q) \o Those(t, Q)
    BY <1>2, ThoseConcat
  <1> QED
    BY <1>4, <1>5

LEMMA CallsOfKind ==
    ASSUME NEW s, IsList(s)
    PROVE  /\ Plain(s) => Calls(s) = <<>>
           /\ (\A x \in ToSet(s) : IsCall(x)) => Calls(s) = s
  <1> DEFINE U == ToSet(s)
             T == {x \in ToSet(s) : IsCall(x)}
  <1>1. s \in Seq(U)
    BY DEF IsList
  <1>2. Calls(s) = Those(s, T)
    BY DEF Calls
  <1>3. Plain(s) => T = {}
    BY DEF Plain
  <1>4. (\A x \in ToSet(s) : IsCall(x)) => T = U
    OBVIOUS
  <1> HIDE DEF U, T
  <1>5. Those(s, U) = s /\ Those(s, {}) = <<>>
    BY <1>1, ThoseAll
  <1> QED
    BY <1>2, <1>3, <1>4, <1>5

LEMMA ListEmptyConcat ==
    ASSUME NEW s, IsList(s)
    PROVE  s \o <<>> = s /\ <<>> \o s = s
  <1> DEFINE U == ToSet(s)
  <1>1. s \in Seq(U)
    BY DEF IsList
  <1> HIDE DEF U
  <1> QED
    BY <1>1, ConcatEmptySeq

\* Each call among items is the one the client was answered with at its place.
Pairs(calls, uses, kinds) ==
    /\ IsList(calls) /\ IsList(uses) /\ Len(calls) = Len(uses)
    /\ \A k \in 1 .. Len(uses) : ItemMatch(calls[k], uses[k], kinds)

LEMMA PairsConcat ==
    ASSUME NEW kinds, NEW c, NEW u, Pairs(c, u, kinds), NEW d, NEW w, Pairs(d, w, kinds)
    PROVE  Pairs(c \o d, u \o w, kinds)
  <1>1. IsList(c \o d) /\ Concats(c, d, c \o d)
    BY ListConcat DEF Pairs
  <1>2. IsList(u \o w) /\ Concats(u, w, u \o w)
    BY ListConcat DEF Pairs
  <1> DEFINE cd == c \o d
             uw == u \o w
             n == Len(u)
             m == Len(w)
  <1>3. /\ n \in Nat /\ m \in Nat /\ Len(c) = n /\ Len(d) = m /\ Len(cd) = n + m /\ Len(uw) = n + m
        /\ \A k \in 1 .. n : cd[k] = c[k] /\ uw[k] = u[k]
        /\ \A k \in 1 .. m : cd[n + k] = d[k] /\ uw[n + k] = w[k]
    BY <1>1, <1>2 DEF Pairs, Concats
  <1>4. /\ \A k \in 1 .. n : ItemMatch(c[k], u[k], kinds)
        /\ \A k \in 1 .. m : ItemMatch(d[k], w[k], kinds)
    BY DEF Pairs
  <1>5. IsList(cd) /\ IsList(uw)
    BY <1>1, <1>2
  <1> HIDE DEF cd, uw, n, m
  <1>6. ASSUME NEW k \in 1 .. n + m
        PROVE  ItemMatch(cd[k], uw[k], kinds)
    <2>1. CASE k <= n
      BY <1>3, <1>4, <2>1
    <2>2. CASE ~ k <= n
      <3> DEFINE j == k - n
      <3>1. j \in 1 .. m /\ k = n + j
        BY <1>3, <2>2
      <3> HIDE DEF j
      <3> QED
        BY <1>3, <1>4, <3>1
    <2> QED
      BY <2>1, <2>2
  <1>7. Pairs(cd, uw, kinds)
    BY <1>3, <1>5, <1>6 DEF Pairs
  <1> QED
    BY <1>7 DEF cd, uw

\* A list is a concatenation when its places say so.
Continues(s, t, u) ==
    /\ Len(u) = Len(s) + Len(t)
    /\ \A k \in 1 .. Len(s) : u[k] = s[k]
    /\ \A k \in 1 .. Len(t) : u[Len(s) + k] = t[k]

LEMMA ConcatUnique ==
    ASSUME NEW s, IsList(s), NEW t, IsList(t), NEW u, IsList(u), Continues(s, t, u)
    PROVE  u = s \o t
  <1> DEFINE st == s \o t
             n == Len(s)
             m == Len(t)
             U == ToSet(u) \cup ToSet(st)
  <1>1. IsList(st) /\ Concats(s, t, st)
    BY ListConcat
  <1> HIDE DEF st
  <1>2. /\ n \in Nat /\ m \in Nat /\ Len(st) = n + m
        /\ \A k \in 1 .. n : st[k] = s[k]
        /\ \A k \in 1 .. m : st[n + k] = t[k]
    BY <1>1 DEF Concats
  <1>8. /\ Len(u) = n + m
        /\ \A k \in 1 .. n : u[k] = s[k]
        /\ \A k \in 1 .. m : u[n + k] = t[k]
    BY DEF Continues
  <1>3. \A k \in 1 .. n + m : u[k] = st[k]
    <2> SUFFICES ASSUME NEW k \in 1 .. n + m PROVE u[k] = st[k]
      OBVIOUS
    <2>1. CASE k <= n
      BY <1>2, <1>8, <2>1
    <2>2. CASE ~ k <= n
      <3> DEFINE j == k - n
      <3>1. j \in 1 .. m /\ k = n + j
        BY <1>2, <2>2
      <3> HIDE DEF j
      <3> QED
        BY <1>2, <1>8, <3>1
    <2> QED
      BY <2>1, <2>2
  <1>4. u \in Seq(ToSet(u)) /\ st \in Seq(ToSet(st))
    BY <1>1 DEF IsList
  <1>5. u \in Seq(U) /\ st \in Seq(U)
    BY <1>4, SeqMonotonic
  <1>6. Len(u) = n + m
    BY <1>8
  <1> HIDE DEF U, n, m
  <1>7. u = st
    BY <1>2, <1>3, <1>5, <1>6, SeqEqual
  <1> QED
    BY <1>7 DEF st

-----------------------------------------------------------------------------
(* The tools that items declare.                                             *)

ToolLists(s) ==
    [i \in DOMAIN s |-> IF s[i].type = "additional_tools" THEN s[i].tools ELSE <<>>]

NoTools(t) == \A x \in ToSet(t) : x.type # "additional_tools"

LEMMA ToolListsConcat ==
    ASSUME NEW s, AllOk(s), NEW t, IsList(t), NoTools(t)
    PROVE  FlattenSeq(ToolLists(s \o t)) = FlattenSeq(ToolLists(s))
  <1> DEFINE n == Len(s)
             m == Len(t)
             ss == ToolLists(s)
             tt == ToolLists(t)
             U == UNION {ToSet(ss[k]) : k \in DOMAIN s}
             W == Seq(U)
             e == <<>>
  <1>1. n \in Nat /\ DOMAIN s = 1 .. n /\ m \in Nat /\ DOMAIN t = 1 .. m
    BY ListIsSeq DEF AllOk
  <1>2. /\ IsList(s \o t) /\ Concats(s, t, s \o t)
        /\ Len(s \o t) = n + m /\ DOMAIN (s \o t) = 1 .. (n + m)
    BY <1>1, ListConcat, ListIsSeq DEF AllOk, Concats
  <1>3. \A k \in 1 .. n : IsList(ss[k])
    <2> SUFFICES ASSUME NEW k \in 1 .. n PROVE IsList(ss[k])
      OBVIOUS
    <2>1. ss[k] = IF s[k].type = "additional_tools" THEN s[k].tools ELSE <<>>
      BY <1>1 DEF ToolLists
    <2>2. s[k].type = "additional_tools" => IsList(s[k].tools)
      BY <1>1 DEF AllOk, ItemOk, AreTools
    <2> QED
      BY <2>1, <2>2, ListOfEmpty
  <1>4. \A k \in 1 .. m : tt[k] = e
    <2>1. \A k \in 1 .. m : t[k] \in ToSet(t)
      BY <1>1 DEF ToSet
    <2> QED
      BY <1>1, <2>1 DEF ToolLists, NoTools
  <1>5. /\ ss = [k \in 1 .. n |-> ss[k]] /\ DOMAIN ss = 1 .. n
        /\ tt = [k \in 1 .. m |-> tt[k]] /\ DOMAIN tt = 1 .. m
    BY <1>1 DEF ToolLists
  <1>6. \A k \in 1 .. n : ss[k] \in W
    <2>1. \A k \in 1 .. n : ss[k] \in Seq(ToSet(ss[k])) /\ ToSet(ss[k]) \subseteq U
      BY <1>1, <1>3 DEF IsList
    <2> HIDE DEF U, ss
    <2> QED
      BY <2>1, SeqMonotonic
  <1> DEFINE st == ToolLists(s \o t)
  <1>7. st = ss \o tt
    <2>1. /\ DOMAIN st = 1 .. (n + m) /\ st = [k \in 1 .. (n + m) |-> st[k]]
          /\ \A k \in 1 .. n : st[k] = ss[k]
          /\ \A k \in 1 .. m : st[n + k] = tt[k]
      <3>1. DOMAIN st = 1 .. (n + m) /\ st = [k \in 1 .. (n + m) |-> st[k]]
        BY <1>2 DEF ToolLists
      <3>2. \A k \in 1 .. n : k \in 1 .. (n + m) /\ (s \o t)[k] = s[k]
        BY <1>1, <1>2 DEF Concats
      <3>3. \A k \in 1 .. m : n + k \in 1 .. (n + m) /\ (s \o t)[n + k] = t[k]
        BY <1>1, <1>2 DEF Concats
      <3>4. \A k \in 1 .. n : st[k] = ss[k]
        BY <1>1, <1>2, <3>2 DEF ToolLists
      <3>5. \A k \in 1 .. m : st[n + k] = tt[k]
        BY <1>1, <1>2, <3>3 DEF ToolLists
      <3> QED
        BY <3>1, <3>4, <3>5
    <2> HIDE DEF st, ss, tt, n, m, e
    <2>2. IsList(ss) /\ Len(ss) = n /\ IsList(tt) /\ Len(tt) = m /\ IsList(st) /\ Len(st) = n + m
      BY <1>1, <1>5, <2>1, MapList
    <2>3. Continues(ss, tt, st)
      BY <2>1, <2>2 DEF Continues
    <2> QED
      BY <2>2, <2>3, ConcatUnique
  <1>8. e \in W
    BY EmptySeq
  <1> HIDE DEF ss, tt, st, W, n, m, U
  <1>9. ss \in Seq(W) /\ tt \in Seq({e})
    <2> DEFINE E == {e}
    <2>1. \A k \in 1 .. m : tt[k] \in E
      BY <1>4
    <2> HIDE DEF E, e
    <2>2. ss \in Seq(W) /\ tt \in Seq(E)
      BY <1>1, <1>5, <1>6, <2>1, PlacesIn
    <2> QED
      BY <2>2 DEF E
  <1> HIDE DEF e
  <1> DEFINE E == {e}
             V == {q \in Seq(E) : ss \o q \in Seq(W) /\ FlattenSeq(ss \o q) = FlattenSeq(ss)}
  <1>10. e \in V
    <2>1. ss \o e = ss /\ e \in Seq(E)
      BY <1>9, ConcatEmptySeq, EmptySeq DEF e
    <2> HIDE DEF E
    <2> QED
      BY <1>9, <2>1
  <1>11. ASSUME NEW q \in Seq(E), NEW x \in E, q \in V
         PROVE  Append(q, x) \in V
    <2>1. x = e /\ ss \o q \in Seq(W) /\ FlattenSeq(ss \o q) = FlattenSeq(ss)
      BY <1>11
    <2>2. Append(q, x) \in Seq(E)
      BY AppendProperties
    <2>3. ss \o Append(q, x) = Append(ss \o q, x)
      <3>1. q \in Seq(W)
        <4>1. E \subseteq W
          BY <1>8
        <4> HIDE DEF E
        <4> QED
          BY <4>1, SeqMonotonic
      <3> QED
        BY <1>8, <1>9, <2>1, <3>1, ConcatAppend
    <2> DEFINE y == ss \o q
    <2>4. Append(y, e) \in Seq(W)
      BY <1>8, <2>1, AppendProperties
    <2>5. FlattenSeq(Append(y, e)) = FlattenSeq(y) \o e /\ FlattenSeq(y) \in Seq(U)
      <3> HIDE DEF y
      <3>1. y \in Seq(Seq(U)) /\ e \in Seq(U)
        BY <1>8, <2>1 DEF W, y
      <3> QED
        BY <3>1, FlattenIs
    <2>6. FlattenSeq(y) \o e = FlattenSeq(y)
      BY <2>5, ConcatEmptySeq DEF e
    <2> QED
      BY <2>1, <2>2, <2>3, <2>4, <2>5, <2>6
  <1> HIDE DEF E
  <1>12. \A q \in Seq(E) : q \in V
    <2> HIDE DEF V
    <2>1. <<>> \in V
      BY <1>10 DEF e
    <2>2. \A q \in Seq(E), x \in E : q \in V => Append(q, x) \in V
      BY <1>11
    <2> QED
      BY <2>1, <2>2, SeqInduct
  <1>13. tt \in V
    BY <1>9, <1>12 DEF E
  <1> QED
    BY <1>7, <1>13 DEF st, ss

-----------------------------------------------------------------------------
(* The blocks of messages, in order.                                         *)

BlocksOfAll(messages) == FlattenSeq([i \in DOMAIN messages |-> messages[i].blocks])

\* What a list ends in.
LEMMA LastOff ==
    ASSUME NEW B, NEW s \in Seq(B), s # <<>>
    PROVE  \E front \in Seq(B) : /\ s = Append(front, s[Len(s)]) /\ Len(s) = Len(front) + 1
                                 /\ s[Len(s)] \in B
                                 /\ \A k \in 1 .. Len(front) : front[k] = s[k]
  <1> DEFINE n == Len(s)
             front == [k \in 1 .. (n - 1) |-> s[k]]
  <1>1. n \in Nat \ {0} /\ DOMAIN s = 1 .. n /\ \A k \in 1 .. n : s[k] \in B
    BY EmptySeq, LenProperties, ElementOfSeq
  <1> HIDE DEF n
  <1>2. /\ DOMAIN front = 1 .. (n - 1) /\ front = [k \in 1 .. (n - 1) |-> front[k]]
        /\ \A k \in 1 .. (n - 1) : front[k] = s[k] /\ front[k] \in B
    BY <1>1
  <1> HIDE DEF front
  <1>3. n - 1 \in Nat
    BY <1>1
  <1> DEFINE m == n - 1
  <1> HIDE DEF m
  <1>4. front \in Seq(B) /\ Len(front) = m
    BY <1>2, <1>3, PlacesIn DEF m
  <1> DEFINE e == s[n]
             t == Append(front, e)
  <1>5. e \in B
    BY <1>1
  <1> HIDE DEF e
  <1>6. t \in Seq(B) /\ Len(t) = m + 1 /\ (\A k \in 1 .. m : t[k] = front[k]) /\ t[m + 1] = e
    BY <1>4, <1>5, AppendProperties
  <1> HIDE DEF t
  <1>7. \A k \in 1 .. n : s[k] = t[k]
    <2> SUFFICES ASSUME NEW k \in 1 .. n PROVE s[k] = t[k]
      OBVIOUS
    <2>1. CASE k = n
      BY <1>1, <1>6, <2>1 DEF m, e
    <2>2. CASE k # n
      <3>1. k \in 1 .. m
        BY <1>1, <2>2 DEF m
      <3> QED
        BY <1>2, <1>6, <3>1 DEF m
    <2> QED
      BY <2>1, <2>2
  <1>8. Len(t) = Len(s)
    BY <1>1, <1>6 DEF m, n
  <1>9. s = t
    BY <1>6, <1>7, <1>8, SeqEqual DEF n
  <1>10. Len(s) = Len(front) + 1
    BY <1>1, <1>4 DEF m, n
  <1>11. \A k \in 1 .. Len(front) : front[k] = s[k]
    BY <1>2, <1>4 DEF m
  <1> QED
    BY <1>4, <1>5, <1>9, <1>10, <1>11 DEF t, e, n

\* One more message adds its blocks.
Grows(M) == \A ms \in Seq(M), x \in M : BlocksOfAll(Append(ms, x)) = BlocksOfAll(ms) \o x.blocks

\* The blocks of the messages, one more of them included.
LEMMA BlocksIs ==
    ASSUME NEW B, NEW M, M = [role : Roles, blocks : Seq(B)]
    PROVE  /\ BlocksOfAll(<<>>) = <<>>
           /\ \A ms \in Seq(M) : BlocksOfAll(ms) \in Seq(B)
           /\ Grows(M)
  <1> DEFINE bs(ms) == [i \in DOMAIN ms |-> ms[i].blocks]
             S == Seq(B)
  <1>1. ASSUME NEW ms \in Seq(M)
        PROVE  bs(ms) \in Seq(S) /\ Len(bs(ms)) = Len(ms) /\ \A k \in 1 .. Len(ms) : bs(ms)[k] = ms[k].blocks
    <2> DEFINE n == Len(ms)
               f == bs(ms)
    <2>1. n \in Nat /\ DOMAIN ms = 1 .. n /\ \A k \in 1 .. n : ms[k] \in M
      BY LenProperties, ElementOfSeq
    <2> HIDE DEF n
    <2>2. /\ DOMAIN f = 1 .. n /\ f = [k \in 1 .. n |-> f[k]]
          /\ \A k \in 1 .. n : f[k] = ms[k].blocks
      BY <2>1
    <2>3. \A k \in 1 .. n : f[k] \in S
      <3> HIDE DEF f
      <3> QED
        BY <2>1, <2>2
    <2> HIDE DEF f, S
    <2>4. f \in Seq(S) /\ Len(f) = n
      BY <2>1, <2>2, <2>3, PlacesIn
    <2> QED
      BY <2>2, <2>4 DEF f, n
  <1>2. BlocksOfAll(<<>>) = <<>>
    <2>1. bs(<<>>) = <<>>
      OBVIOUS
    <2>2. FlattenSeq(<<>>) = <<>>
      BY FlattenIs
    <2> QED
      BY <2>1, <2>2 DEF BlocksOfAll
  <1>3. ASSUME NEW ms \in Seq(M)
        PROVE  BlocksOfAll(ms) \in Seq(B)
    <2> DEFINE f == bs(ms)
    <2>1. f \in Seq(Seq(B))
      BY <1>1
    <2>2. BlocksOfAll(ms) = FlattenSeq(f)
      BY DEF BlocksOfAll
    <2> HIDE DEF f
    <2> QED
      BY <2>1, <2>2, FlattenIs
  <1>4. ASSUME NEW ms \in Seq(M), NEW x \in M
        PROVE  BlocksOfAll(Append(ms, x)) = BlocksOfAll(ms) \o x.blocks
    <2> DEFINE q == Append(ms, x)
               f == bs(ms)
               g == bs(q)
               e == x.blocks
    <2>1. /\ q \in Seq(M) /\ Len(ms) \in Nat /\ Len(q) = Len(ms) + 1
          /\ (\A k \in 1 .. Len(ms) : q[k] = ms[k]) /\ q[Len(ms) + 1] = x
      BY AppendProperties, LenProperties
    <2>2. e \in S
      OBVIOUS
    <2> HIDE DEF q
    <2>3. f \in Seq(S) /\ Len(f) = Len(ms) /\ \A k \in 1 .. Len(ms) : f[k] = ms[k].blocks
      BY <1>1
    <2>4. g \in Seq(S) /\ Len(g) = Len(q) /\ \A k \in 1 .. Len(q) : g[k] = q[k].blocks
      BY <1>1, <2>1
    <2> HIDE DEF f, g, e, S
    <2> DEFINE h == Append(f, e)
    <2>5. /\ h \in Seq(S) /\ Len(h) = Len(ms) + 1
          /\ (\A k \in 1 .. Len(ms) : h[k] = f[k]) /\ h[Len(ms) + 1] = e
      BY <2>1, <2>2, <2>3, AppendProperties
    <2> HIDE DEF h
    <2>6. \A k \in 1 .. Len(g) : g[k] = h[k]
      <3> SUFFICES ASSUME NEW k \in 1 .. Len(g) PROVE g[k] = h[k]
        OBVIOUS
      <3>1. CASE k = Len(ms) + 1
        BY <2>1, <2>4, <2>5, <3>1 DEF e
      <3>2. CASE k # Len(ms) + 1
        <4>1. k \in 1 .. Len(ms) /\ k \in 1 .. Len(q)
          BY <2>1, <2>4, <3>2
        <4> QED
          BY <2>1, <2>3, <2>4, <2>5, <4>1
      <3> QED
        BY <3>1, <3>2
    <2>7. Len(g) = Len(h)
      BY <2>1, <2>4, <2>5
    <2>8. g = h
      BY <2>4, <2>5, <2>6, <2>7, SeqEqual
    <2>9. FlattenSeq(Append(f, e)) = FlattenSeq(f) \o e
      <3>1. f \in Seq(Seq(B)) /\ e \in Seq(B)
        BY <2>2, <2>3 DEF S
      <3> QED
        BY <3>1, FlattenIs
    <2>10. BlocksOfAll(q) = FlattenSeq(g) /\ BlocksOfAll(ms) = FlattenSeq(f)
      BY DEF BlocksOfAll, f, g
    <2> QED
      BY <2>8, <2>9, <2>10 DEF h, q, e
  <1> QED
    BY <1>2, <1>3, <1>4 DEF Grows

\* push_merged adds the blocks behind all others, whatever message they are in.
LEMMA PushBlocks ==
    ASSUME NEW B, NEW M, M = [role : Roles, blocks : Seq(B)],
           NEW merged \in Seq(M), NEW role \in Roles, NEW blocks \in Seq(B)
    PROVE  BlocksOfAll(PushMerged(merged, role, blocks)) = BlocksOfAll(merged) \o blocks
  <1>0. /\ BlocksOfAll(merged) \in Seq(B)
        /\ \A ms \in Seq(M), x \in M : BlocksOfAll(Append(ms, x)) = BlocksOfAll(ms) \o x.blocks
    <2>1. \A ms \in Seq(M) : BlocksOfAll(ms) \in Seq(B)
      BY BlocksIs
    <2>2. Grows(M)
      BY BlocksIs
    <2> QED
      BY <2>1, <2>2 DEF Grows
  <1>4. \A ms \in Seq(M) : BlocksOfAll(ms) \in Seq(B)
    BY BlocksIs
  <1>1. CASE blocks = <<>>
    BY <1>0, <1>1, ConcatEmptySeq DEF PushMerged
  <1>2. CASE blocks # <<>> /\ merged # <<>> /\ Last(merged).role = role
    <2> DEFINE n == Len(merged)
               x == merged[n]
               e == [x EXCEPT !.blocks = @ \o blocks]
               t == PushMerged(merged, role, blocks)
    <2>1. PICK front \in Seq(M) :
             /\ merged = Append(front, x) /\ n = Len(front) + 1 /\ x \in M
             /\ \A k \in 1 .. Len(front) : front[k] = merged[k]
      BY <1>2, LastOff
    <2>2. n \in 1 .. n /\ n \in Nat /\ Len(front) \in Nat
      BY <2>1, LenProperties
    <2>3. t = [merged EXCEPT ![n] = e]
      BY <1>2 DEF PushMerged
    <2>4. e \in M /\ e.blocks = x.blocks \o blocks /\ x.blocks \in Seq(B)
      <3> HIDE DEF x
      <3>1. x.blocks \in Seq(B)
        BY <2>1
      <3>2. x.blocks \o blocks \in Seq(B)
        BY <3>1, ConcatProperties
      <3> QED
        BY <2>1, <3>1, <3>2
    <2> HIDE DEF e, t, x, n
    <2>5. /\ t \in Seq(M) /\ Len(t) = n
          /\ \A j \in 1 .. n : t[j] = IF j = n THEN e ELSE merged[j]
      BY <2>2, <2>3, <2>4, ExceptSeq DEF n
    <2> DEFINE q == Append(front, e)
    <2>6. /\ q \in Seq(M) /\ Len(q) = n
          /\ (\A k \in 1 .. Len(front) : q[k] = front[k]) /\ q[n] = e
      BY <2>1, <2>4, AppendProperties
    <2> HIDE DEF q
    <2>7. \A k \in 1 .. Len(t) : t[k] = q[k]
      <3> SUFFICES ASSUME NEW k \in 1 .. n PROVE t[k] = q[k]
        BY <2>5
      <3>1. CASE k = n
        BY <2>5, <2>6, <3>1
      <3>2. CASE k # n
        <4>1. k \in 1 .. Len(front)
          BY <2>1, <2>2, <3>2
        <4> QED
          BY <2>1, <2>5, <2>6, <3>2, <4>1
      <3> QED
        BY <3>1, <3>2
    <2>8. t = q
      BY <2>5, <2>6, <2>7, SeqEqual
    <2> DEFINE a == BlocksOfAll(front)
               b == x.blocks
    <2>9. /\ BlocksOfAll(q) = a \o (b \o blocks) /\ BlocksOfAll(merged) = a \o b
          /\ a \in Seq(B) /\ b \in Seq(B)
      BY <1>0, <1>4, <2>1, <2>4 DEF q
    <2> HIDE DEF a, b
    <2>11. a \in Seq(B) /\ b \in Seq(B)
      BY <2>9
    <2>10. (a \o b) \o blocks = a \o (b \o blocks)
      BY <2>11, ConcatAssociative
    <2> QED
      BY <2>8, <2>9, <2>10 DEF t
  <1>3. CASE blocks # <<>> /\ ~ (merged # <<>> /\ Last(merged).role = role)
    <2> DEFINE x == [role |-> role, blocks |-> blocks]
    <2>1. x \in M /\ x.blocks = blocks
      OBVIOUS
    <2>2. PushMerged(merged, role, blocks) = Append(merged, x)
      BY <1>3 DEF PushMerged
    <2> HIDE DEF x
    <2> QED
      BY <1>0, <2>1, <2>2
  <1> QED
    BY <1>1, <1>2, <1>3

\* A call as the upstream gets it back.
CallBlock(item) ==
    UsePart(item.id, FlatName(item.namespace, item.name),
            IF item.type = "function_call" THEN Parsed(item.arguments) ELSE Raw(item.s))

\* An item adds its blocks: its call, or something that is no call.
Adds(U, acc, item, blocks) ==
    /\ blocks \in Seq(BlocksOf(U))
    /\ BlocksOfAll(InputItem(acc, item).messages) = BlocksOfAll(acc.messages) \o blocks
    /\ IsCall(item) => blocks = <<CallBlock(item)>> /\ CallBlock(item) \in BlocksOf(U)
    /\ ~ IsCall(item) => \A b \in ToSet(blocks) : b.type # "tool_use"

LEMMA InputBlocks ==
    ASSUME NEW U, NEW acc \in RequestsOf(U), NEW item \in U
    PROVE  \E blocks : Adds(U, acc, item, blocks)
  <1> DEFINE B == BlocksOf(U)
             M == MessagesOf(U)
  <1>1. /\ TextPart(item.s) \in B /\ ResultPart(item.id, item.s) \in B
        /\ IsCall(item) =>
             /\ UsePart(item.id, FlatName(item.namespace, item.name), Parsed(item.arguments)) \in B
             /\ UsePart(item.id, FlatName(item.namespace, item.name), Raw(item.s)) \in B
    BY DEF BlocksOf
  <1>2. Texts(item.s) \in Seq(B)
    BY <1>1, TextsIn
  <1>3. M = [role : Roles, blocks : Seq(B)] /\ acc \in [system : Seq(B), messages : Seq(M)]
    BY DEF RequestsOf, MessagesOf
  <1> HIDE DEF B, M
  <1>4. BlocksOfAll(acc.messages) \in Seq(B) /\ acc.messages \in Seq(M)
    <2>1. \A ms \in Seq(M) : BlocksOfAll(ms) \in Seq(B)
      BY <1>3, BlocksIs
    <2> QED
      BY <1>3, <2>1
  <1>5. ASSUME NEW role \in Roles, NEW blocks \in Seq(B),
               InputItem(acc, item) = [acc EXCEPT !.messages = PushMerged(@, role, blocks)]
        PROVE  BlocksOfAll(InputItem(acc, item).messages) = BlocksOfAll(acc.messages) \o blocks
    <2>1. BlocksOfAll(PushMerged(acc.messages, role, blocks)) = BlocksOfAll(acc.messages) \o blocks
      <3> DEFINE m == acc.messages
      <3>1. m \in Seq(M)
        BY <1>4
      <3>2. M = [role : Roles, blocks : Seq(B)]
        BY <1>3
      <3> HIDE DEF m
      <3>3. BlocksOfAll(PushMerged(m, role, blocks)) = BlocksOfAll(m) \o blocks
        BY <3>1, <3>2, PushBlocks
      <3> QED
        BY <3>3 DEF m
    <2>2. InputItem(acc, item).messages = PushMerged(acc.messages, role, blocks)
      BY <1>3, <1>5
    <2> QED
      BY <2>1, <2>2
  <1>6. ASSUME InputItem(acc, item).messages = acc.messages
        PROVE  BlocksOfAll(InputItem(acc, item).messages) = BlocksOfAll(acc.messages) \o <<>>
    BY <1>4, <1>6, ConcatEmptySeq
  <1>7. CASE IsCall(item)
    <2> DEFINE c == CallBlock(item)
               bl == <<c>>
    <2>1. c \in B
      BY <1>1, <1>7 DEF CallBlock
    <2>2. InputItem(acc, item) = [acc EXCEPT !.messages = PushMerged(@, "assistant", bl)]
      <3>1. CASE item.type = "function_call"
        BY <3>1 DEF InputItem, CallBlock
      <3>2. CASE item.type = "custom_tool_call"
        BY <3>2 DEF InputItem, CallBlock
      <3> QED
        BY <1>7, <3>1, <3>2 DEF IsCall
    <2> HIDE DEF c
    <2>3. bl \in Seq(B) /\ "assistant" \in Roles
      BY <2>1 DEF Roles
    <2> HIDE DEF bl
    <2>4. BlocksOfAll(InputItem(acc, item).messages) = BlocksOfAll(acc.messages) \o bl
      BY <1>5, <2>2, <2>3
    <2>5. Adds(U, acc, item, bl)
      BY <1>7, <2>1, <2>3, <2>4 DEF Adds, B, bl, c
    <2> QED
      BY <2>5
  <1>8. CASE ~ IsCall(item)
    <2>1. CASE item.type = "output"
      <3> DEFINE c == ResultPart(item.id, item.s)
                 bl == <<c>>
      <3>1. InputItem(acc, item) = [acc EXCEPT !.messages = PushMerged(@, "user", bl)]
        BY <2>1 DEF InputItem
      <3>2. c.type # "tool_use"
        BY DEF ResultPart
      <3>3. c \in B
        BY <1>1
      <3> HIDE DEF c
      <3>4. bl \in Seq(B) /\ "user" \in Roles /\ \A b \in ToSet(bl) : b.type # "tool_use"
        BY <3>2, <3>3, ListOfEmpty DEF Roles
      <3> HIDE DEF bl
      <3>5. BlocksOfAll(InputItem(acc, item).messages) = BlocksOfAll(acc.messages) \o bl
        BY <1>5, <3>1, <3>4
      <3>6. Adds(U, acc, item, bl)
        BY <1>8, <3>4, <3>5 DEF Adds, B
      <3> QED
        BY <3>6
    <2>2. CASE item.type = "message" /\ item.role \in {"user", "assistant"}
      <3> DEFINE bl == Texts(item.s)
                 r == item.role
      <3>1. InputItem(acc, item) = [acc EXCEPT !.messages = PushMerged(@, r, bl)]
        BY <2>2 DEF InputItem
      <3>2. \A b \in ToSet(bl) : b.type # "tool_use"
        <4>1. TextPart(item.s).type # "tool_use"
          BY DEF TextPart
        <4> DEFINE c == TextPart(item.s)
        <4> HIDE DEF c
        <4>2. bl = <<>> \/ bl = <<c>>
          BY DEF Texts, c
        <4> QED
          BY <4>1, <4>2, ListOfEmpty DEF c
      <3>3. bl \in Seq(B) /\ r \in Roles
        BY <1>2, <2>2 DEF Roles
      <3> HIDE DEF bl, r
      <3>5. BlocksOfAll(InputItem(acc, item).messages) = BlocksOfAll(acc.messages) \o bl
        BY <1>5, <3>1, <3>3
      <3>6. Adds(U, acc, item, bl)
        BY <1>8, <3>2, <3>3, <3>5 DEF Adds, B
      <3> QED
        BY <3>6
    <2>3. CASE /\ item.type # "output"
               /\ ~ (item.type = "message" /\ item.role \in {"user", "assistant"})
      <3>1. InputItem(acc, item).messages = acc.messages
        <4>1. CASE item.type = "message" /\ item.role \in {"system", "developer"}
          <5>1. InputItem(acc, item) = [acc EXCEPT !.system = @ \o Texts(item.s)]
            BY <4>1 DEF InputItem
          <5> QED
            BY <1>3, <5>1
        <4>2. CASE ~ (item.type = "message" /\ item.role \in {"system", "developer"})
          <5>1. InputItem(acc, item) = acc
            BY <1>8, <2>3, <4>2 DEF InputItem, IsCall
          <5> QED
            BY <5>1
        <4> QED
          BY <4>1, <4>2
      <3> DEFINE bl == <<>>
      <3>2. BlocksOfAll(InputItem(acc, item).messages) = BlocksOfAll(acc.messages) \o bl
        BY <1>6, <3>1
      <3>3. bl \in Seq(B) /\ \A b \in ToSet(bl) : b.type # "tool_use"
        BY EmptySeq, ListOfEmpty
      <3> HIDE DEF bl
      <3>4. Adds(U, acc, item, bl)
        BY <1>8, <3>2, <3>3 DEF Adds, B
      <3> QED
        BY <3>4
    <2> QED
      BY <2>1, <2>2, <2>3
  <1> QED
    BY <1>7, <1>8

\* The upstream gets back just the calls, in order.
GivenBack(calls, back) ==
    /\ Len(back) = Len(calls)
    /\ \A k \in 1 .. Len(calls) : back[k] = CallBlock(calls[k])

LEMMA CallsGivenBack ==
    ASSUME NEW U
    PROVE  \A s \in Seq(U) :
             GivenBack(Those(s, {x \in U : IsCall(x)}),
                       Those(BlocksOfAll(ItemsToAnthropic(s).messages),
                             {b \in BlocksOf(U) : b.type = "tool_use"}))
  <1> DEFINE B == BlocksOf(U)
             M == MessagesOf(U)
             C == {x \in U : IsCall(x)}
             Q == {b \in B : b.type = "tool_use"}
             all(s) == BlocksOfAll(ItemsToAnthropic(s).messages)
             V == {s \in Seq(U) : GivenBack(Those(s, C), Those(all(s), Q))}
  <1>1. /\ ItemsToAnthropic(<<>>) = NoRequest
        /\ \A s \in Seq(U) : ItemsToAnthropic(s) \in RequestsOf(U)
        /\ \A s \in Seq(U), x \in U :
              ItemsToAnthropic(Append(s, x)) = InputItem(ItemsToAnthropic(s), x)
    BY ItemsIs
  <1>2. M = [role : Roles, blocks : Seq(B)] /\ RequestsOf(U) = [system : Seq(B), messages : Seq(M)]
    BY DEF RequestsOf, MessagesOf
  <1>3. BlocksOfAll(<<>>) = <<>> /\ \A ms \in Seq(M) : BlocksOfAll(ms) \in Seq(B)
    <2> HIDE DEF B, M
    <2>1. BlocksOfAll(<<>>) = <<>>
      BY <1>2, BlocksIs
    <2>2. \A ms \in Seq(M) : BlocksOfAll(ms) \in Seq(B)
      BY <1>2, BlocksIs
    <2> QED
      BY <2>1, <2>2
  <1> HIDE DEF B, M
  <1>4. \A s \in Seq(U) : all(s) \in Seq(B)
    <2> SUFFICES ASSUME NEW s \in Seq(U) PROVE all(s) \in Seq(B)
      OBVIOUS
    <2> DEFINE r == ItemsToAnthropic(s)
    <2>1. r \in RequestsOf(U)
      BY <1>1
    <2> HIDE DEF r
    <2>2. r.messages \in Seq(M)
      BY <1>2, <2>1
    <2> QED
      BY <1>3, <2>2 DEF r
  <1>5. <<>> \in V
    <2>1. all(<<>>) = <<>>
      BY <1>1, <1>3 DEF NoRequest
    <2> HIDE DEF all, C, Q
    <2>2. Those(<<>>, C) = <<>> /\ Those(<<>>, Q) = <<>>
      BY ThoseIs
    <2>3. GivenBack(<<>>, <<>>)
      BY EmptySeq DEF GivenBack
    <2> QED
      BY <2>1, <2>2, <2>3, EmptySeq
  <1>6. ASSUME NEW s \in Seq(U), NEW x \in U, s \in V
        PROVE  Append(s, x) \in V
    <2> DEFINE acc == ItemsToAnthropic(s)
               t == Append(s, x)
               c == Those(s, C)
               a == all(s)
               d == Those(a, Q)
    <2>1. t \in Seq(U) /\ acc \in RequestsOf(U) /\ ItemsToAnthropic(t) = InputItem(acc, x)
      BY <1>1, AppendProperties
    <2>2. PICK bl : Adds(U, acc, x, bl)
      BY <2>1, InputBlocks
    <2>3. all(t) = a \o bl /\ a \in Seq(B) /\ bl \in Seq(B)
      BY <1>4, <2>1, <2>2 DEF Adds, B
    <2>4. GivenBack(c, d)
      BY <1>6
    <2> HIDE DEF all, a, acc, Q, C, d, c, t
    <2>5. Those(a \o bl, Q) = Those(a, Q) \o Those(bl, Q)
      BY <2>3, ThoseConcat
    <2>6. d \in Seq(B) /\ c \in Seq(U)
      BY <2>3, ThoseIs DEF c, d
    <2>7. CASE IsCall(x)
      <3> DEFINE b == CallBlock(x)
                 one == <<b>>
      <3>1. bl = one /\ b \in B
        BY <2>2, <2>7 DEF Adds, B
      <3>2. b \in Q
        BY <3>1 DEF Q, CallBlock, UsePart
      <3> HIDE DEF b
      <3>3. Those(one, Q) = one
        BY <3>2, ThoseOne
      <3>4. d \o one = Append(d, b)
        BY <2>6, <3>1
      <3> HIDE DEF one
      <3>5. Those(all(t), Q) = Append(d, b)
        BY <2>3, <2>5, <3>1, <3>3, <3>4 DEF d
      <3>6. Those(t, C) = Append(c, x)
        <4>1. x \in C
          BY <2>7 DEF C
        <4>2. \A r \in Seq(U), y \in U :
                 Those(Append(r, y), C) = IF y \in C THEN Append(Those(r, C), y) ELSE Those(r, C)
          BY ThoseIs
        <4> QED
          BY <4>1, <4>2 DEF t, c
      <3>7. GivenBack(Append(c, x), Append(d, b))
        <4>1. /\ Len(c) \in Nat /\ Len(d) = Len(c) /\ \A k \in 1 .. Len(c) : d[k] = CallBlock(c[k])
          BY <2>4, <2>6, LenProperties DEF GivenBack
        <4> DEFINE e == Append(c, x)
                   f == Append(d, b)
                   n == Len(c)
        <4>2. /\ Len(e) = n + 1 /\ (\A k \in 1 .. n : e[k] = c[k]) /\ e[n + 1] = x
          BY <2>6, AppendProperties
        <4>3. /\ Len(f) = n + 1 /\ (\A k \in 1 .. n : f[k] = d[k]) /\ f[n + 1] = b
          BY <2>6, <3>1, <4>1, AppendProperties
        <4> HIDE DEF e, f, n
        <4>4. \A k \in 1 .. n + 1 : f[k] = CallBlock(e[k])
          BY <4>1, <4>2, <4>3 DEF n, b
        <4> QED
          BY <4>2, <4>3, <4>4 DEF GivenBack, e, f
      <3> QED
        BY <2>1, <3>5, <3>6, <3>7 DEF t
    <2>8. CASE ~ IsCall(x)
      <3>1. \A b \in ToSet(bl) : b.type # "tool_use"
        BY <2>2, <2>8 DEF Adds
      <3>2. Those(bl, Q) = <<>>
        <4>1. ToSet(bl) \cap Q = ToSet(bl) \cap {}
          BY <3>1 DEF Q
        <4>2. Those(bl, Q) = Those(bl, {})
          BY <2>3, <4>1, ThoseSame
        <4> QED
          BY <2>3, <4>2, ThoseAll
      <3>3. Those(all(t), Q) = d
        BY <2>3, <2>5, <2>6, <3>2, ConcatEmptySeq DEF d
      <3>4. Those(t, C) = c
        <4>1. x \notin C
          BY <2>8 DEF C
        <4>2. \A r \in Seq(U), y \in U :
                 Those(Append(r, y), C) = IF y \in C THEN Append(Those(r, C), y) ELSE Those(r, C)
          BY ThoseIs
        <4> QED
          BY <4>1, <4>2 DEF t, c
      <3> QED
        BY <2>1, <2>4, <3>3, <3>4 DEF t
    <2> QED
      BY <2>7, <2>8
  <1> HIDE DEF V
  <1>7. \A s \in Seq(U), x \in U : s \in V => Append(s, x) \in V
    BY <1>6
  <1>8. \A s \in Seq(U) : s \in V
    BY <1>5, <1>7, SeqInduct
  <1> QED
    BY <1>8 DEF V, B

\* What the client has kept of its answers, and what a turn starts with.
ReplayOk ==
    /\ Pairs(Calls(items), said, Kinds)
    /\ stage = "round" /\ round = 0 => payload = ItemsToAnthropic(items).messages

ReplayInv == SessionInv /\ ReplayOk

\* Nothing the client receives declares a tool.
LEMMA KindsStay ==
    ASSUME ItemsOk, NEW v, NEW d, NEW w, AllOk(v), AllOk(d), AllOk(w),
           NoTools(v), NoTools(d), NoTools(w),
           items' = ((items \o v) \o d) \o w, declared' = declared
    PROVE  Kinds' = Kinds
  <1> DEFINE a == items \o v
             b == a \o d
             c == b \o w
  <1>1. AllOk(items) /\ IsList(v) /\ IsList(d) /\ IsList(w)
    BY DEF ItemsOk, AllOk
  <1>2. AllOk(a) /\ FlattenSeq(ToolLists(a)) = FlattenSeq(ToolLists(items))
    BY <1>1, AllOkConcat, ToolListsConcat
  <1> HIDE DEF a
  <1>3. AllOk(b) /\ FlattenSeq(ToolLists(b)) = FlattenSeq(ToolLists(a))
    BY <1>1, <1>2, AllOkConcat, ToolListsConcat
  <1> HIDE DEF b
  <1>4. FlattenSeq(ToolLists(c)) = FlattenSeq(ToolLists(b))
    BY <1>1, <1>3, ToolListsConcat
  <1>5. items' = c
    BY DEF a, b
  <1> HIDE DEF c
  <1>6. FlattenSeq(ToolLists(items')) = FlattenSeq(ToolLists(items))
    BY <1>2, <1>3, <1>4, <1>5
  <1>7. Kinds = ToolKinds(DeclaredTools(declared \o FlattenSeq(ToolLists(items))))
    BY DEF Kinds, Tools, Declarations, ToolLists
  <1>8. Kinds' = ToolKinds(DeclaredTools(declared' \o FlattenSeq(ToolLists(items'))))
    BY DEF Kinds, Tools, Declarations, ToolLists
  <1> QED
    BY <1>6, <1>7, <1>8

LEMMA ReplayReceive ==
    ASSUME SessionInv, Pairs(Calls(items), said, Kinds), Receive
    PROVE  Pairs(Calls(items)', said', Kinds')
  <1>1. /\ ItemsOk /\ IsList(reply.content) /\ IsList(items)
        /\ \A x \in ToSet(reply.content) : x.type = "tool_use" => x.name # "web_search" /\ IsInput(x.input)
    BY DEF SessionInv, ReplyOk, ItemsOk, AllOk
  <1>2. CASE ~ reply.ok
    <2>1. items' = items /\ said' = said /\ declared' = declared
      BY <1>2 DEF Receive
    <2>2. Kinds' = Kinds /\ Calls(items)' = Calls(items)
      BY <2>1 DEF Kinds, Tools, Calls
    <2> QED
      BY <2>1, <2>2
  <1>3. CASE reply.ok
    <2> DEFINE uses == OfType(reply.content, "tool_use")
    <2>1. PICK v, d, w : ReceivedItems(v, d, w)
      BY <1>1, <1>3, ReceiveParts
    <2>2. said' = said \o uses /\ declared' = declared
      BY <1>3 DEF Receive
    <2>10. /\ IsList(uses)
           /\ \A x : x \in ToSet(uses) <=> x \in ToSet(reply.content) /\ x.type = "tool_use"
      BY <1>1, OfTypeIs
    <2>3. IsList(uses) /\ \A u \in ToSet(uses) : IsInput(u.input) /\ u.name # "web_search"
      BY <1>1, <2>10
    <2>4. NamesKept(Kinds)
      BY <1>1, KindsOk DEF NamesKept
    <2>5. CallItems(d, uses, Kinds)
      BY <2>1 DEF ReceivedItems
    <2> HIDE DEF uses
    <2>6. /\ AllOk(d) /\ Len(d) = Len(uses) /\ \A x \in ToSet(d) : IsCall(x)
          /\ \A k \in 1 .. Len(uses) : ItemMatch(d[k], uses[k], Kinds)
      BY <2>3, <2>4, <2>5, CallItemsOk
    <2>7. /\ items' = ((items \o v) \o d) \o w /\ Plain(v) /\ Plain(w)
          /\ AllOk(v) /\ AllOk(w) /\ IsList(v) /\ IsList(w) /\ IsList(d)
      BY <2>1, <2>6, PlainOk DEF ReceivedItems, Plain, AllOk
    <2>8. Kinds' = Kinds
      <3>1. NoTools(v) /\ NoTools(w)
        BY <2>7 DEF Plain, NoTools
      <3>2. NoTools(d)
        BY <2>6 DEF IsCall, NoTools
      <3> QED
        BY <1>1, <2>2, <2>6, <2>7, <3>1, <3>2, KindsStay
    <2>9. Calls(items)' = Calls(items) \o d
      <3> DEFINE a == items \o v
                 b == a \o d
                 c == b \o w
      <3>1. IsList(a) /\ Calls(a) = Calls(items) \o Calls(v)
        BY <1>1, <2>7, ListConcat, CallsConcat
      <3> HIDE DEF a
      <3>2. IsList(b) /\ Calls(b) = Calls(a) \o Calls(d)
        BY <2>7, <3>1, ListConcat, CallsConcat
      <3> HIDE DEF b
      <3>3. Calls(c) = Calls(b) \o Calls(w)
        BY <2>7, <3>2, CallsConcat
      <3>4. Calls(v) = <<>> /\ Calls(w) = <<>> /\ Calls(d) = d
        BY <2>6, <2>7, CallsOfKind
      <3>5. items' = c
        BY <2>7 DEF a, b
      <3> HIDE DEF c
      <3>6. IsList(Calls(items)) /\ IsList(Calls(a)) /\ IsList(Calls(b))
        <4>1. \A s : IsList(s) => IsList(Calls(s))
          BY CallsAmong DEF IsList
        <4> QED
          BY <1>1, <3>1, <3>2, <4>1
      <3>7. Calls(a) = Calls(items)
        BY <3>1, <3>4, <3>6, ListEmptyConcat
      <3>8. Calls(c) = Calls(b)
        BY <3>3, <3>4, <3>6, ListEmptyConcat
      <3>9. Calls(c) = Calls(items) \o d
        BY <3>2, <3>4, <3>7, <3>8
      <3> QED
        BY <3>5, <3>9 DEF Calls
    <2>11. Pairs(d, uses, Kinds)
      BY <2>3, <2>6, <2>7 DEF Pairs
    <2>12. Pairs(Calls(items) \o d, said \o uses, Kinds)
      BY <2>11, PairsConcat
    <2> QED
      BY <2>2, <2>8, <2>9, <2>12
  <1> QED
    BY <1>2, <1>3

LEMMA ReplayInit ==
    ASSUME CodexAssumption, CodexInit
    PROVE  ReplayOk
  <1>1. said = <<>> /\ stage = "idle"
    BY DEF CodexInit, LoopInit
  <1>2. PICK tools \in Added :
           items = <<[type |-> "additional_tools", tools |-> tools],
                     Message("developer", <<"rules">>), Message("user", <<"go">>)>>
    BY DEF CodexInit
  <1> DEFINE a == [type |-> "additional_tools", tools |-> tools]
             b == Message("developer", <<"rules">>)
             c == Message("user", <<"go">>)
  <1>3. ~ IsCall(a) /\ ~ IsCall(b) /\ ~ IsCall(c)
    BY DEF IsCall, Message
  <1>4. items = <<a, b, c>>
    BY <1>2
  <1> HIDE DEF a, b, c
  <1>5. {x \in ToSet(items) : IsCall(x)} = {}
    <2>1. ToSet(items) = {items[k] : k \in DOMAIN items}
      BY DEF ToSet
    <2>2. ToSet(items) = {a, b, c}
      BY <1>4, <2>1
    <2> QED
      BY <1>3, <2>2
  <1>6. Calls(items) = <<>>
    <2>1. items \in Seq({a, b, c})
      BY <1>4
    <2> DEFINE U == {a, b, c}
    <2> HIDE DEF U
    <2>2. Those(items, {}) = <<>>
      BY <2>1, ThoseAll DEF U
    <2> QED
      BY <1>5, <2>2 DEF Calls
  <1>7. Pairs(<<>>, <<>>, Kinds)
    BY ListOfEmpty DEF Pairs
  <1> QED
    BY <1>1, <1>6, <1>7 DEF ReplayOk

LEMMA ReplayNext ==
    ASSUME SessionInv, ReplayOk, [CodexNext]_codexVars
    PROVE  ReplayOk'
  <1>1. CASE Receive
    <2>1. Pairs(Calls(items)', said', Kinds')
      BY <1>1, ReplayReceive DEF ReplayOk
    <2>2. stage' = "idle"
      BY <1>1 DEF Receive
    <2>3. Calls(items)' = Calls(items')
      BY DEF Calls
    <2> QED
      BY <2>1, <2>2, <2>3 DEF ReplayOk
  <1>2. ASSUME UNCHANGED <<items, declared, said>>,
               stage' = "round" /\ round' = 0 => payload' = ItemsToAnthropic(items).messages
        PROVE  ReplayOk'
    <2>1. Kinds' = Kinds /\ Calls(items') = Calls(items)
      BY <1>2 DEF Kinds, Tools
    <2> QED
      BY <1>2, <2>1 DEF ReplayOk
  <1>3. CASE Request
    <2>1. payload' = ItemsToAnthropic(items).messages /\ UNCHANGED <<items, declared, said>>
      BY <1>3 DEF Request, Enter
    <2> QED
      BY <1>2, <2>1
  <1>4. CASE LoopNext /\ UNCHANGED <<items, declared, said>>
    <2>1. CASE AppendRound
      <3>1. round' = round + 1 /\ round \in Nat
        BY <2>1 DEF AppendRound, SessionInv, Progress
      <3>2. round' # 0
        BY <3>1
      <3> QED
        BY <1>2, <1>4, <3>2
    <2>2. CASE RoundFails \/ RunRound \/ Search \/ SearchFails \/ Flush
      <3>1. UNCHANGED <<payload, round>> /\ (stage' = "round" => stage = "round")
        BY <2>2 DEF RoundFails, RunRound, Search, SearchFails, Flush, Answered
      <3> QED
        BY <1>2, <1>4, <3>1 DEF ReplayOk
    <2> QED
      BY <1>4, <2>1, <2>2 DEF LoopNext
  <1>5. CASE UNCHANGED codexVars
    <2>1. UNCHANGED <<items, declared, said, payload, round, stage>>
      BY <1>5 DEF codexVars
    <2> QED
      BY <1>2, <2>1 DEF ReplayOk
  <1> QED
    BY <1>1, <1>3, <1>4, <1>5 DEF CodexNext, Loop

LEMMA ReplayTrue ==
    ASSUME SessionInv, ReplayOk
    PROVE  ReplayIsVerbatim
  <1> SUFFICES ASSUME stage = "round", round = 0
               PROVE  LET back == OfType(FlattenSeq([i \in DOMAIN payload |-> payload[i].blocks]),
                                         "tool_use")
                      IN  /\ Len(back) = Len(said)
                          /\ \A i \in DOMAIN back :
                               /\ back[i].id = said[i].id /\ back[i].name = said[i].name
                               /\ \/ back[i].input = said[i].input
                                  \/ /\ said[i].name \in DOMAIN Kinds
                                     /\ Kinds[said[i].name].kind = "custom"
                                     /\ said[i].input.kind # "input"
    BY DEF ReplayIsVerbatim
  <1> DEFINE U == ToSet(items)
             B == BlocksOf(U)
             all == BlocksOfAll(payload)
             back == OfType(all, "tool_use")
             Q == {b \in B : b.type = "tool_use"}
             T == {b \in ToSet(all) : b.type = "tool_use"}
             calls == Calls(items)
  <1>1. items \in Seq(U)
    BY DEF SessionInv, ItemsOk, AllOk, IsList
  <1>2. payload = ItemsToAnthropic(items).messages
    BY DEF ReplayOk
  <1> HIDE DEF U
  <1>3. all \in Seq(B)
    <2> DEFINE M == MessagesOf(U)
    <2>1. M = [role : Roles, blocks : Seq(B)] /\ RequestsOf(U) = [system : Seq(B), messages : Seq(M)]
      BY DEF RequestsOf, MessagesOf
    <2>2. ItemsToAnthropic(items) \in RequestsOf(U)
      BY <1>1, ItemsIs
    <2> HIDE DEF B, M
    <2>3. payload \in Seq(M)
      BY <1>2, <2>1, <2>2
    <2>4. \A ms \in Seq(M) : BlocksOfAll(ms) \in Seq(B)
      BY <2>1, BlocksIs
    <2> QED
      BY <2>3, <2>4
  <1>4. back = Those(all, Q)
    <2>1. back = Those(all, T)
      BY DEF OfType
    <2>2. ToSet(all) \in SUBSET B
      BY <1>3, SeqIsList
    <2>3. ToSet(all) \cap T = ToSet(all) \cap Q
      BY <2>2
    <2> HIDE DEF B, all, T, Q, back
    <2> QED
      BY <1>3, <2>1, <2>3, ThoseSame
  <1>5. GivenBack(calls, back)
    <2>1. GivenBack(Those(items, {x \in U : IsCall(x)}),
                    Those(BlocksOfAll(ItemsToAnthropic(items).messages),
                          {b \in BlocksOf(U) : b.type = "tool_use"}))
      BY <1>1, CallsGivenBack
    <2>2. calls = Those(items, {x \in U : IsCall(x)})
      BY <1>1, CallsAmong
    <2> HIDE DEF calls, back
    <2> QED
      BY <1>2, <1>4, <2>1, <2>2
  <1>6. Pairs(calls, said, Kinds)
    BY DEF ReplayOk
  <1>7. back \in Seq(B)
    <2> HIDE DEF B, all, Q, back
    <2> QED
      BY <1>3, <1>4, ThoseIs
  <1>8. FlattenSeq([i \in DOMAIN payload |-> payload[i].blocks]) = all
    BY DEF BlocksOfAll
  <1> HIDE DEF calls, back, all, B
  <1>9. Len(back) = Len(said) /\ DOMAIN back = 1 .. Len(said)
    BY <1>5, <1>6, <1>7, LenProperties DEF GivenBack, Pairs
  <1>10. ASSUME NEW i \in DOMAIN back
         PROVE  /\ back[i].id = said[i].id /\ back[i].name = said[i].name
                /\ \/ back[i].input = said[i].input
                   \/ /\ said[i].name \in DOMAIN Kinds
                      /\ Kinds[said[i].name].kind = "custom"
                      /\ said[i].input.kind # "input"
    <2> DEFINE item == calls[i]
               use == said[i]
               b == back[i]
    <2>1. b = CallBlock(item) /\ ItemMatch(item, use, Kinds)
      BY <1>5, <1>6, <1>9 DEF GivenBack, Pairs
    <2> HIDE DEF item, use, b
    <2>2. /\ b.id = item.id /\ b.name = FlatName(item.namespace, item.name)
          /\ b.input = IF item.type = "function_call" THEN Parsed(item.arguments) ELSE Raw(item.s)
      BY <2>1 DEF CallBlock, UsePart
    <2>3. \/ b.input = use.input
          \/ use.name \in DOMAIN Kinds /\ Kinds[use.name].kind = "custom" /\ use.input.kind # "input"
      BY <2>1, <2>2 DEF ItemMatch, IsCall
    <2> QED
      BY <2>1, <2>2, <2>3 DEF ItemMatch, use, b
  <1> QED
    BY <1>8, <1>9, <1>10 DEF back

\* ReplayIsVerbatim, for every client: whatever it declared and was answered,
\* however many of its calls it ran, when it sends its items again the upstream
\* gets back every call it made, in order, under the name and id and with the
\* input it gave it, but for a custom tool's call that did not follow the schema
\* (responses.rs: translate_input_item, build_view).
THEOREM ReplaysAreVerbatim ==
    CodexSpec => []ReplayIsVerbatim
  <1>1. CodexAssumption /\ MaxRounds \in Nat
    BY CodexAssumption, RoundsAssumption
  <1>2. CodexInit => ReplayInv
    BY <1>1, SessionInit, ReplayInit DEF ReplayInv
  <1>3. ReplayInv /\ [CodexNext]_codexVars => ReplayInv'
    BY <1>1, SessionNext, ReplayNext DEF ReplayInv
  <1>4. ReplayInv => ReplayIsVerbatim
    BY ReplayTrue DEF ReplayInv
  <1> QED
    BY <1>2, <1>3, <1>4, PTL DEF CodexSpec

=============================================================================
