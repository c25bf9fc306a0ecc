---------------------------- MODULE WireTheorems ----------------------------
(***************************************************************************)
(* What the readers of a stream promise, for every value of the constants. *)
(*                                                                         *)
(* A reader of control messages reads of the pieces the transport hands it *)
(* what it would read of all of them at once, errors included              *)
(* (ControlInPieces).  A decoder of one item that has enough bytes ignores *)
(* those after it (NextRead); a parser then goes on where it stopped, by   *)
(* induction over the length of the buffer (ParseConcat).                  *)
(*                                                                         *)
(* A reader of frames (SETTINGS and GOAWAY, the CONNECT stream with its    *)
(* capsules) makes events of them, and loses those before a malformed frame *)
(* that came in the same chunk.  As long as nothing it met is malformed, it *)
(* has what all the events of the bytes give (NothingLost), by induction   *)
(* over the events (EventsOf, HandleEvents); after that, nothing is claimed *)
(* but that the results before the first error agree (FramedSoFar).        *)
(*                                                                         *)
(* A data stream has no buffer but the two decoders of its header.  They   *)
(* go byte by byte, so that what they are is a function of the number of   *)
(* bytes read (StreamAt), and the application has what follows (StreamOn). *)
(*                                                                         *)
(* Encoders are shown to give bytes, which is what the readers are handed. *)
(***************************************************************************)
EXTENDS Wire, CodecTheorems, SequenceTheorems, FiniteSetTheorems

---------------------------------------------------------------------------
(* Reading numbers and bytes.                                              *)

\* The four lengths of a varint, whatever the first byte.
LEMMA PrefixLengths ==
  ASSUME NEW first
  PROVE  PrefixLen(first) \in {1, 2, 4, 8}
BY DEF PrefixLen

\* What is left of a sequence after its first `pos' elements.
LEMMA RestOf ==
  ASSUME NEW S, NEW s \in Seq(S), NEW pos \in 0 .. Len(s)
  PROVE  /\ SubSeq(s, pos + 1, Len(s)) \in Seq(S)
         /\ Len(SubSeq(s, pos + 1, Len(s))) = Len(s) - pos
         /\ \A i \in 1 .. Len(s) - pos : SubSeq(s, pos + 1, Len(s))[i] = s[pos + i]
<1>1. Len(s) \in Nat /\ \A i \in pos + 1 .. Len(s) : s[i] \in S
  BY LenProperties
<1>2. pos + 1 \in Int /\ Len(s) \in Int
  BY <1>1
<1> DEFINE m == pos + 1
           n == Len(s)
<1>3. /\ SubSeq(s, m, n) \in Seq(S)
      /\ Len(SubSeq(s, m, n)) = IF m <= n THEN n - m + 1 ELSE 0
      /\ \A i \in 1 .. n - m + 1 : SubSeq(s, m, n)[i] = s[m + i - 1]
  <2> HIDE DEF m, n
  <2> QED BY <1>1, <1>2, SubSeqProperties DEF m, n
<1>4. \A i \in 1 .. Len(s) - pos : i \in 1 .. n - m + 1 /\ m + i - 1 = pos + i
  BY <1>1
<1>5. Len(SubSeq(s, m, n)) = Len(s) - pos
  BY <1>1, <1>3
<1> QED BY <1>3, <1>4, <1>5

\* What is added at the end of a sequence is at the end of what is left of it.
LEMMA RestOfConcat ==
  ASSUME NEW S, NEW s \in Seq(S), NEW more \in Seq(S), NEW pos \in 0 .. Len(s)
  PROVE  /\ SubSeq(s \o more, pos + 1, Len(s \o more)) = SubSeq(s, pos + 1, Len(s)) \o more
         /\ pos \in 0 .. Len(s \o more)
<1> DEFINE t == s \o more
           u == SubSeq(s, pos + 1, Len(s))
           w == SubSeq(t, pos + 1, Len(t))
           x == u \o more
<1>1. /\ t \in Seq(S) /\ Len(t) = Len(s) + Len(more)
      /\ \A i \in 1 .. Len(s) + Len(more) :
           t[i] = IF i <= Len(s) THEN s[i] ELSE more[i - Len(s)]
  BY ConcatProperties
<1>2. Len(s) \in Nat /\ Len(more) \in Nat /\ pos \in Nat /\ pos \in 0 .. Len(t)
  <2>1. Len(s) \in Nat /\ Len(more) \in Nat
    BY LenProperties
  <2> HIDE DEF t
  <2> QED BY <2>1, <1>1
<1>3. /\ u \in Seq(S) /\ Len(u) = Len(s) - pos
      /\ \A i \in 1 .. Len(s) - pos : u[i] = s[pos + i]
  BY RestOf
<1>4. /\ w \in Seq(S) /\ Len(w) = Len(t) - pos
      /\ \A i \in 1 .. Len(t) - pos : w[i] = t[pos + i]
  <2> HIDE DEF t
  <2> QED BY <1>1, <1>2, RestOf
<1>5. /\ x \in Seq(S) /\ Len(x) = Len(u) + Len(more)
      /\ \A i \in 1 .. Len(u) + Len(more) :
           x[i] = IF i <= Len(u) THEN u[i] ELSE more[i - Len(u)]
  <2> HIDE DEF u
  <2> QED BY <1>3, ConcatProperties
<1>6. w = x
  <2> HIDE DEF t, u, w, x
  <2>1. Len(w) = Len(x) /\ Len(x) = Len(s) + Len(more) - pos
    BY <1>1, <1>2, <1>3, <1>4, <1>5
  <2>2. ASSUME NEW i \in 1 .. Len(w) PROVE w[i] = x[i]
    <3>1. /\ i \in Nat /\ pos + i \in 1 .. Len(s) + Len(more) /\ i \in 1 .. Len(t) - pos
          /\ i \in 1 .. Len(u) + Len(more)
      BY <1>1, <1>2, <1>3, <2>1
    <3>2. w[i] = IF pos + i <= Len(s) THEN s[pos + i] ELSE more[pos + i - Len(s)]
      BY <3>1, <1>1, <1>4
    <3>3. x[i] = IF i <= Len(u) THEN u[i] ELSE more[i - Len(u)]
      BY <3>1, <1>5
    <3>4. CASE i <= Len(u)
      <4>1. i \in 1 .. Len(s) - pos /\ pos + i <= Len(s)
        BY <3>1, <3>4, <1>2, <1>3
      <4> QED BY <3>2, <3>3, <3>4, <4>1, <1>3
    <3>5. CASE ~(i <= Len(u))
      <4>1. ~(pos + i <= Len(s)) /\ pos + i - Len(s) = i - Len(u)
        BY <3>1, <3>5, <1>2, <1>3
      <4> QED BY <3>2, <3>3, <3>5, <4>1
    <3> QED BY <3>4, <3>5
  <2> QED BY <1>4, <1>5, <2>1, <2>2, SeqEqual
<1> QED BY <1>2, <1>6

\* A piece of a sequence.
LEMMA SliceOf ==
  ASSUME NEW S, NEW s \in Seq(S), NEW pos \in 0 .. Len(s), NEW n \in Nat, pos + n <= Len(s)
  PROVE  /\ SubSeq(s, pos + 1, pos + n) \in Seq(S)
         /\ Len(SubSeq(s, pos + 1, pos + n)) = n
         /\ \A i \in 1 .. n : SubSeq(s, pos + 1, pos + n)[i] = s[pos + i]
<1> DEFINE l == pos + 1
           h == pos + n
<1>1. Len(s) \in Nat /\ l \in Int /\ h \in Int /\ \A i \in l .. h : s[i] \in S
  BY LenProperties
<1>2. /\ SubSeq(s, l, h) \in Seq(S)
      /\ Len(SubSeq(s, l, h)) = IF l <= h THEN h - l + 1 ELSE 0
      /\ \A i \in 1 .. h - l + 1 : SubSeq(s, l, h)[i] = s[l + i - 1]
  <2> HIDE DEF l, h
  <2> QED BY <1>1, SubSeqProperties
<1>3. Len(SubSeq(s, l, h)) = n
  BY <1>1, <1>2
<1>4. \A i \in 1 .. n : i \in 1 .. h - l + 1 /\ l + i - 1 = pos + i
  BY <1>1
<1> QED BY <1>2, <1>3, <1>4

\* A piece of a sequence is the same when more follows.
LEMMA SliceOfConcat ==
  ASSUME NEW S, NEW s \in Seq(S), NEW more \in Seq(S), NEW pos \in 0 .. Len(s), NEW n \in Nat,
         pos + n <= Len(s)
  PROVE  SubSeq(s \o more, pos + 1, pos + n) = SubSeq(s, pos + 1, pos + n)
<1> DEFINE t == s \o more
           u == SubSeq(t, pos + 1, pos + n)
           w == SubSeq(s, pos + 1, pos + n)
<1>1. /\ t \in Seq(S) /\ Len(t) = Len(s) + Len(more) /\ Len(s) \in Nat /\ Len(more) \in Nat
      /\ \A i \in 1 .. Len(s) : t[i] = s[i]
  BY ConcatProperties, LenProperties
<1>2. /\ w \in Seq(S) /\ Len(w) = n /\ \A i \in 1 .. n : w[i] = s[pos + i]
  BY SliceOf
<1>3. /\ u \in Seq(S) /\ Len(u) = n /\ \A i \in 1 .. n : u[i] = t[pos + i]
  <2>1. pos \in 0 .. Len(t) /\ pos + n <= Len(t)
    <3> HIDE DEF t
    <3> QED BY <1>1
  <2> HIDE DEF t
  <2> QED BY <1>1, <2>1, SliceOf
<1> HIDE DEF t, u, w
<1>4. \A i \in 1 .. n : u[i] = w[i]
  <2>1. \A i \in 1 .. n : pos + i \in 1 .. Len(s)
    BY <1>1
  <2> QED BY <2>1, <1>1, <1>2, <1>3
<1>5. u = w
  BY <1>2, <1>3, <1>4, SeqEqual
<1> QED BY <1>5 DEF t, u, w

\* The next digit of a number.
LEMMA UpNat ==
  ASSUME NEW a \in Nat, NEW b \in Nat
  PROVE  Up(a, b) \in Nat
BY BaseAssumption DEF Up

\* decode_varint gives a number and its length, or asks for more bytes.
LEMMA VarintResult ==
  ASSUME NEW s \in Seq(Nat)
  PROVE  \/ DecodeVarint(s) = DecodeError("BufferTooShort", 0)
         \/ /\ s # <<>> /\ PrefixLen(s[1]) \in 1 .. Len(s)
            /\ DecodeVarint(s) = Value(VarintValue(s, PrefixLen(s[1])), PrefixLen(s[1]))
            /\ VarintValue(s, PrefixLen(s[1])) \in Nat
<1> DEFINE n == PrefixLen(s[1])
<1>1. CASE s = <<>> \/ Len(s) < n
  BY <1>1 DEF DecodeVarint
<1>2. CASE s # <<>> /\ Len(s) >= n
  <2>1. n \in {1, 2, 4, 8}
    BY PrefixLengths
  <2>2. \A i \in 1 .. Len(s) : s[i] \in Nat
    OBVIOUS
  <2>3. s[1] % Quarter \in Nat
    <3>1. Quarter \in Nat /\ Quarter > 0
      BY BaseAssumption DEF Quarter
    <3>2. s[1] \in Int
      BY <1>2
    <3> HIDE DEF n
    <3>3. s[1] % Quarter \in 0 .. Quarter - 1
      BY <3>1, <3>2, Division
    <3> QED BY <3>1, <3>3
  <2>4. \A a \in Nat, i \in 1 .. Len(s) : Up(a, s[i]) \in Nat
    BY <2>2, UpNat
  <2> HIDE DEF n
  <2>5. VarintValue(s, n) \in Nat
    <3>1. CASE n = 1
      BY <3>1, <2>3 DEF VarintValue
    <3>2. CASE n = 2
      <4>1. 2 \in 1 .. Len(s)
        BY <3>2, <1>2
      <4>2. VarintValue(s, n) = Up(s[1] % Quarter, s[2])
        BY <3>2 DEF VarintValue
      <4> QED BY <4>1, <4>2, <2>3, <2>4
    <3>3. CASE n = 4
      <4>1. 2 \in 1 .. Len(s) /\ 3 \in 1 .. Len(s) /\ 4 \in 1 .. Len(s)
        BY <3>3, <1>2
      <4>2. Up(s[1] % Quarter, s[2]) \in Nat
        BY <4>1, <2>3, <2>4
      <4>3. Up(Up(s[1] % Quarter, s[2]), s[3]) \in Nat
        BY <4>1, <4>2, <2>4
      <4>4. Up(Up(Up(s[1] % Quarter, s[2]), s[3]), s[4]) \in Nat
        BY <4>1, <4>3, <2>4
      <4> QED BY <3>3, <4>4 DEF VarintValue
    <3>4. CASE n = 8
      <4>1. /\ 2 \in 1 .. Len(s) /\ 3 \in 1 .. Len(s) /\ 4 \in 1 .. Len(s)
            /\ 5 \in 1 .. Len(s) /\ 6 \in 1 .. Len(s) /\ 7 \in 1 .. Len(s) /\ 8 \in 1 .. Len(s)
        BY <3>4, <1>2
      <4> DEFINE v2 == Up(s[1] % Quarter, s[2])
                 v3 == Up(v2, s[3])
                 v4 == Up(v3, s[4])
                 v5 == Up(v4, s[5])
                 v6 == Up(v5, s[6])
                 v7 == Up(v6, s[7])
      <4>2. v2 \in Nat
        BY <4>1, <2>3, <2>4
      <4>3. v3 \in Nat
        <5> HIDE DEF v2
        <5> QED BY <4>1, <4>2, <2>4
      <4>4. v4 \in Nat
        <5> HIDE DEF v3
        <5> QED BY <4>1, <4>3, <2>4
      <4>5. v5 \in Nat
        <5> HIDE DEF v4
        <5> QED BY <4>1, <4>4, <2>4
      <4>6. v6 \in Nat
        <5> HIDE DEF v5
        <5> QED BY <4>1, <4>5, <2>4
      <4>7. v7 \in Nat
        <5> HIDE DEF v6
        <5> QED BY <4>1, <4>6, <2>4
      <4>8. Up(v7, s[8]) \in Nat
        <5> HIDE DEF v7
        <5> QED BY <4>1, <4>7, <2>4
      <4>9. VarintValue(s, n) = Up(v7, s[8])
        BY <3>4 DEF VarintValue
      <4> QED BY <4>8, <4>9
    <3> QED BY <2>1, <3>1, <3>2, <3>3, <3>4
  <2>6. DecodeVarint(s) = Value(VarintValue(s, n), n)
    <3>1. ~(s = <<>> \/ Len(s) < PrefixLen(s[1]))
      <4>1. n \in Nat
        BY <2>1
      <4> QED BY <4>1, <1>2 DEF n
    <3> QED BY <3>1 DEF DecodeVarint, n
  <2> QED BY <1>2, <2>1, <2>5, <2>6 DEF n
<1> QED BY <1>1, <1>2, PrefixLengths

\* Bytes that arrive later do not change a number that is complete.
LEMMA VarintStable ==
  ASSUME NEW s \in Seq(Nat), NEW more \in Seq(Nat), ~Failed(DecodeVarint(s))
  PROVE  DecodeVarint(s \o more) = DecodeVarint(s)
<1> DEFINE n == PrefixLen(s[1])
           t == s \o more
<1>1. s # <<>> /\ n \in 1 .. Len(s) /\ DecodeVarint(s) = Value(VarintValue(s, n), n)
  BY VarintResult DEF Failed, DecodeError
<1>2. t \in Seq(Nat) /\ Len(t) = Len(s) + Len(more) /\ \A i \in 1 .. Len(s) : t[i] = s[i]
  BY ConcatProperties
<1>3. t # <<>> /\ t[1] = s[1] /\ ~(Len(t) < PrefixLen(t[1]))
  BY <1>1, <1>2
<1>4. VarintValue(t, n) = VarintValue(s, n)
  <2>1. n \in {1, 2, 4, 8}
    BY PrefixLengths
  <2> HIDE DEF n, t
  <2>2. CASE n = 1
    BY <2>2, <1>3 DEF VarintValue
  <2>3. CASE n = 2
    <3>1. t[2] = s[2]
      BY <2>3, <1>1, <1>2
    <3> QED BY <2>3, <1>3, <3>1 DEF VarintValue
  <2>4. CASE n = 4
    <3>1. t[2] = s[2] /\ t[3] = s[3] /\ t[4] = s[4]
      BY <2>4, <1>1, <1>2, SMTT(40)
    <3> QED BY <2>4, <1>3, <3>1 DEF VarintValue
  <2>5. CASE n = 8
    <3>1. 8 <= Len(s) /\ Len(s) \in Nat
      BY <2>5, <1>1
    <3>2. \A i \in 1 .. 8 : t[i] = s[i]
      BY <3>1, <1>2, SMTT(40)
    <3>3. /\ t[2] = s[2] /\ t[3] = s[3] /\ t[4] = s[4] /\ t[5] = s[5] /\ t[6] = s[6]
          /\ t[7] = s[7] /\ t[8] = s[8]
      BY <3>2
    <3> QED BY <2>5, <1>3, <3>3 DEF VarintValue
  <2> QED BY <2>1, <2>2, <2>3, <2>4, <2>5
<1>5. DecodeVarint(t) = Value(VarintValue(t, n), n)
  <2> HIDE DEF t
  <2> QED BY <1>3 DEF DecodeVarint
<1> QED BY <1>1, <1>4, <1>5

\* Why reading from a cursor fails, or what it read, at a later position.
TooShort(r) == r.err = "BufferTooShort"

Read1(r, buf, pos, S) == r.err = "None" /\ r.val \in S /\ r.pos \in pos .. Len(buf)

\* Cursor::read_varint reads a number, at least one byte of the buffer, or asks for more.
LEMMA ReadVarint ==
  ASSUME NEW buf \in Seq(Nat), NEW pos \in 0 .. Len(buf)
  PROVE  TooShort(read_varint(buf, pos)) \/ Read1(read_varint(buf, pos), buf, pos + 1, Nat)
<1> DEFINE s == SubSeq(buf, pos + 1, Len(buf))
           r == DecodeVarint(s)
<1>1. s \in Seq(Nat) /\ Len(s) = Len(buf) - pos
  BY RestOf
<1>2. read_varint(buf, pos) = [r EXCEPT !.pos = @ + pos]
  BY DEF read_varint
<1>3. Len(buf) \in Nat
  BY LenProperties
<1>4. CASE r = DecodeError("BufferTooShort", 0)
  <2>1. read_varint(buf, pos).err = "BufferTooShort"
    <3> HIDE DEF r
    <3> QED BY <1>2, <1>4 DEF DecodeError
  <2> QED BY <2>1 DEF TooShort
<1>5. ASSUME NEW v \in Nat, NEW n \in 1 .. Len(s), r = Value(v, n)
      PROVE  Read1(read_varint(buf, pos), buf, pos + 1, Nat)
  <2>1. /\ read_varint(buf, pos).err = "None" /\ read_varint(buf, pos).val = v
        /\ read_varint(buf, pos).pos = n + pos
    <3> HIDE DEF r
    <3> QED BY <1>2, <1>5 DEF Value
  <2>2. n + pos \in pos + 1 .. Len(buf)
    <3> HIDE DEF s
    <3> QED BY <1>1, <1>3
  <2> QED BY <2>1, <2>2 DEF Read1
<1> QED
  <2> HIDE DEF s
  <2> QED BY <1>1, <1>4, <1>5, VarintResult

\* A number that was read is read again when more bytes have arrived.
LEMMA ReadVarintStable ==
  ASSUME NEW buf \in Seq(Nat), NEW more \in Seq(Nat), NEW pos \in 0 .. Len(buf),
         ~Failed(read_varint(buf, pos))
  PROVE  read_varint(buf \o more, pos) = read_varint(buf, pos)
<1> DEFINE s == SubSeq(buf, pos + 1, Len(buf))
           t == SubSeq(buf \o more, pos + 1, Len(buf \o more))
<1>1. s \in Seq(Nat) /\ t = s \o more
  <2>1. s \in Seq(Nat)
    BY RestOf
  <2>2. \A S : \A b, m \in Seq(S) : \A p \in 0 .. Len(b) :
          SubSeq(b \o m, p + 1, Len(b \o m)) = SubSeq(b, p + 1, Len(b)) \o m
    BY RestOfConcat, ZenonT(60)
  <2>3. t = s \o more
    BY <2>2, Zenon
  <2> QED BY <2>1, <2>3
<1>2. /\ read_varint(buf, pos) = [DecodeVarint(s) EXCEPT !.pos = @ + pos]
      /\ read_varint(buf \o more, pos) = [DecodeVarint(t) EXCEPT !.pos = @ + pos]
  BY DEF read_varint
<1>3. ~Failed(DecodeVarint(s))
  <2> HIDE DEF s
  <2>1. CASE DecodeVarint(s) = DecodeError("BufferTooShort", 0)
    BY <2>1, <1>2 DEF Failed, DecodeError
  <2>2. CASE DecodeVarint(s) = Value(VarintValue(s, PrefixLen(s[1])), PrefixLen(s[1]))
    BY <2>2 DEF Failed, Value
  <2> QED BY <1>1, <2>1, <2>2, VarintResult
<1>4. DecodeVarint(t) = DecodeVarint(s)
  <2> HIDE DEF s, t
  <2> QED BY <1>1, <1>3, VarintStable
<1> QED BY <1>2, <1>4

\* Cursor::read_bytes takes what it was asked for or asks for more.
LEMMA ReadBytes ==
  ASSUME NEW buf \in Seq(Nat), NEW pos \in 0 .. Len(buf), NEW n \in Nat
  PROVE  /\ TooShort(read_bytes(buf, pos, n))
              \/ Read1(read_bytes(buf, pos, n), buf, pos + n, Seq(Nat))
         /\ ~Failed(read_bytes(buf, pos, n)) =>
              \A more \in Seq(Nat) : read_bytes(buf \o more, pos, n) = read_bytes(buf, pos, n)
<1>1. Len(buf) \in Nat
  BY LenProperties
<1>2. CASE Len(buf) - pos < n
  BY <1>2 DEF read_bytes, remaining, TooShort, DecodeError, Failed
<1>3. CASE ~(Len(buf) - pos < n)
  <2>1. read_bytes(buf, pos, n) = Value(SubSeq(buf, pos + 1, pos + n), pos + n)
    BY <1>3 DEF read_bytes, remaining
  <2>2. SubSeq(buf, pos + 1, pos + n) \in Seq(Nat)
    <3>1. pos + n <= Len(buf)
      BY <1>1, <1>3
    <3> QED BY <3>1, SliceOf
  <2>3. Read1(read_bytes(buf, pos, n), buf, pos + n, Seq(Nat))
    <3>1. pos + n \in pos + n .. Len(buf)
      BY <1>1, <1>3
    <3> QED BY <2>1, <2>2, <3>1 DEF Read1, Value
  <2>4. ASSUME NEW more \in Seq(Nat)
        PROVE  read_bytes(buf \o more, pos, n) = read_bytes(buf, pos, n)
    <3> DEFINE t == buf \o more
    <3>1. /\ t \in Seq(Nat) /\ Len(t) = Len(buf) + Len(more) /\ Len(more) \in Nat
          /\ \A i \in 1 .. Len(buf) : t[i] = buf[i]
      BY ConcatProperties, LenProperties, <1>1
    <3> HIDE DEF t
    <3>2. ~(Len(t) - pos < n)
      BY <3>1, <1>1, <1>3
    <3>3. read_bytes(t, pos, n) = Value(SubSeq(t, pos + 1, pos + n), pos + n)
      BY <3>2 DEF read_bytes, remaining
    <3>4. SubSeq(t, pos + 1, pos + n) = SubSeq(buf, pos + 1, pos + n)
      <4>1. pos + n <= Len(buf)
        BY <1>1, <1>3
      <4> QED BY <4>1, SliceOfConcat DEF t
    <3> QED BY <3>3, <3>4, <2>1 DEF t
  <2> QED BY <2>3, <2>4
<1> QED BY <1>2, <1>3

\* Cursor::read_u16 takes two bytes or asks for more.
LEMMA ReadU16 ==
  ASSUME NEW buf \in Seq(Nat), NEW pos \in 0 .. Len(buf)
  PROVE  /\ TooShort(read_u16(buf, pos)) \/ Read1(read_u16(buf, pos), buf, pos + 2, Nat)
         /\ ~Failed(read_u16(buf, pos)) =>
              \A more \in Seq(Nat) : read_u16(buf \o more, pos) = read_u16(buf, pos)
<1> DEFINE r == read_bytes(buf, pos, 2)
<1>1. /\ TooShort(r) \/ Read1(r, buf, pos + 2, Seq(Nat))
      /\ ~Failed(r) => \A more \in Seq(Nat) : read_bytes(buf \o more, pos, 2) = r
  BY ReadBytes
<1>2. CASE Failed(r)
  <2>1. TooShort(r)
    BY <1>1, <1>2 DEF Read1, Failed
  <2>2. read_u16(buf, pos) = r
    BY <1>2 DEF read_u16, Then
  <2> HIDE DEF r
  <2> QED BY <1>2, <2>1, <2>2
<1>3. CASE ~Failed(r)
  <2>1. Read1(r, buf, pos + 2, Seq(Nat))
    BY <1>1, <1>3 DEF TooShort, Failed
  <2>2. r = Value(SubSeq(buf, pos + 1, pos + 2), pos + 2)
    BY <1>3 DEF read_bytes, Failed, DecodeError
  <2>3. r.val \in Seq(Nat) /\ Len(r.val) = 2 /\ r.pos \in pos + 2 .. Len(buf)
    <3> HIDE DEF r
    <3>1. pos + 2 <= Len(buf)
      BY <2>1, <2>2, LenProperties DEF Read1, Value
    <3>2. Len(SubSeq(buf, pos + 1, pos + 2)) = 2
      BY <3>1, SliceOf
    <3> QED BY <2>1, <2>2, <3>2 DEF Read1, Value
  <2>4. r.val[1] \in Nat /\ r.val[2] \in Nat
    <3> HIDE DEF r
    <3> QED BY <2>3, SMTT(40)
  <2>5. Up(r.val[1], r.val[2]) \in Nat
    <3> HIDE DEF r
    <3> QED BY <2>4, UpNat
  <2>6. read_u16(buf, pos) = Value(Up(r.val[1], r.val[2]), r.pos)
    BY <1>3 DEF read_u16, Then
  <2>7. ASSUME NEW more \in Seq(Nat) PROVE read_u16(buf \o more, pos) = read_u16(buf, pos)
    <3>1. read_bytes(buf \o more, pos, 2) = r
      BY <1>1, <1>3
    <3> HIDE DEF r
    <3> QED BY <3>1, <2>6, <1>3 DEF read_u16, Then
  <2> HIDE DEF r
  <2> QED BY <2>3, <2>5, <2>6, <2>7 DEF Read1, Value
<1> QED BY <1>2, <1>3

---------------------------------------------------------------------------
(* One message, frame or capsule at the start of a buffer.                 *)

Kinds == {"message", "frame", "capsule"}

Frames == [frame_type : Nat, payload : Seq(Nat)]

\* H3Frame::decode reads a whole frame and asks for more until it is there; what
\* follows a frame is not looked at.
LEMMA FrameRead ==
  ASSUME NEW buf \in Seq(Nat)
  PROVE  /\ TooShort(DecodeTypeAndPayload(buf)) \/ Read1(DecodeTypeAndPayload(buf), buf, 1, Frames)
         /\ ~Failed(DecodeTypeAndPayload(buf)) =>
              \A more \in Seq(Nat) : DecodeTypeAndPayload(buf \o more) = DecodeTypeAndPayload(buf)
<1> DEFINE type == read_varint(buf, 0)
           len == read_varint(buf, type.pos)
           payload == read_bytes(buf, len.pos, len.val)
           r == DecodeTypeAndPayload(buf)
<1>1. Len(buf) \in Nat /\ 0 \in 0 .. Len(buf)
  BY LenProperties
<1>2. TooShort(type) \/ Read1(type, buf, 1, Nat)
  <2>1. TooShort(type) \/ Read1(type, buf, 0 + 1, Nat)
    BY <1>1, ReadVarint
  <2> QED BY <2>1
<1>3. CASE Failed(type)
  <2>1. r = type
    BY <1>3 DEF DecodeTypeAndPayload, Then
  <2>2. TooShort(r) /\ Failed(r)
    <3> HIDE DEF r, type
    <3> QED BY <2>1, <1>2, <1>3 DEF Read1, Failed
  <2> QED BY <2>2
<1>4. CASE ~Failed(type)
  <2>1. /\ Read1(type, buf, 1, Nat) /\ type.pos \in 0 .. Len(buf) /\ type.pos >= 1
        /\ \A more \in Seq(Nat) : read_varint(buf \o more, 0) = type
    <3>1. Read1(type, buf, 1, Nat)
      <4> HIDE DEF type
      <4> QED BY <1>2, <1>4 DEF TooShort, Failed
    <3>2. type.pos \in 0 .. Len(buf) /\ type.pos >= 1
      <4> HIDE DEF type
      <4> QED BY <3>1, <1>1 DEF Read1
    <3>3. \A more \in Seq(Nat) : read_varint(buf \o more, 0) = type
      BY <1>1, <1>4, ReadVarintStable
    <3> QED BY <3>1, <3>2, <3>3
  <2>2. TooShort(len) \/ Read1(len, buf, type.pos + 1, Nat)
    <3> HIDE DEF type
    <3> QED BY <2>1, ReadVarint
  <2>3. CASE Failed(len)
    <3>1. r = len
      <4> HIDE DEF len
      <4> QED BY <1>4, <2>3 DEF DecodeTypeAndPayload, Then, len
    <3>2. TooShort(r) /\ Failed(r)
      <4> HIDE DEF r, len
      <4> QED BY <3>1, <2>2, <2>3 DEF Read1, Failed
    <3> QED BY <3>2
  <2>4. CASE ~Failed(len)
    <3>1. Read1(len, buf, type.pos + 1, Nat) /\ len.pos \in 0 .. Len(buf) /\ len.pos >= 1
      <4> HIDE DEF type, len
      <4>1. Read1(len, buf, type.pos + 1, Nat)
        BY <2>2, <2>4 DEF TooShort, Failed
      <4> QED BY <4>1, <2>1, <1>1 DEF Read1
    <3>2. \A more \in Seq(Nat) : read_varint(buf \o more, type.pos) = len
      <4> HIDE DEF type
      <4> QED BY <2>1, <2>4, ReadVarintStable
    <3>3. /\ TooShort(payload) \/ Read1(payload, buf, len.pos + len.val, Seq(Nat))
          /\ ~Failed(payload) =>
               \A more \in Seq(Nat) : read_bytes(buf \o more, len.pos, len.val) = payload
      <4>1. len.val \in Nat
        BY <3>1 DEF Read1
      <4> HIDE DEF len
      <4> QED BY <3>1, <4>1, ReadBytes
    <3>4. r = Then(payload, LAMBDA p : Value([frame_type |-> type.val, payload |-> p.val], p.pos))
      <4> HIDE DEF payload
      <4> QED BY <1>4, <2>4 DEF DecodeTypeAndPayload, Then, payload
    <3>5. CASE Failed(payload)
      <4>1. r = payload
        <5> HIDE DEF payload, r
        <5> QED BY <3>4, <3>5 DEF Then
      <4>2. TooShort(r) /\ Failed(r)
        <5> HIDE DEF payload, r
        <5> QED BY <4>1, <3>3, <3>5 DEF Read1, Failed
      <4> QED BY <4>2
    <3>6. CASE ~Failed(payload)
      <4>1. r = Value([frame_type |-> type.val, payload |-> payload.val], payload.pos)
        <5> HIDE DEF payload, r
        <5> QED BY <3>4, <3>6 DEF Then
      <4>2. payload.val \in Seq(Nat) /\ payload.pos \in 1 .. Len(buf)
        <5>1. Read1(payload, buf, len.pos + len.val, Seq(Nat)) /\ len.val \in Nat
          <6> HIDE DEF payload, len
          <6> QED BY <3>1, <3>3, <3>6 DEF Read1, TooShort, Failed
        <5> HIDE DEF payload, len
        <5> QED BY <5>1, <3>1, <1>1 DEF Read1
      <4>3. type.val \in Nat
        BY <2>1 DEF Read1
      <4>4. Read1(r, buf, 1, Frames)
        <5> HIDE DEF payload, type, r
        <5> QED BY <4>1, <4>2, <4>3 DEF Read1, Value, Frames
      <4>5. ASSUME NEW more \in Seq(Nat) PROVE DecodeTypeAndPayload(buf \o more) = r
        <5>1. /\ read_varint(buf \o more, 0) = type
              /\ read_varint(buf \o more, type.pos) = len
              /\ read_bytes(buf \o more, len.pos, len.val) = payload
          BY <2>1, <3>2, <3>3, <3>6
        <5> HIDE DEF type, len, payload, r
        <5> QED BY <5>1, <1>4, <2>4, <3>6, <4>1 DEF DecodeTypeAndPayload, Then
      <4> QED BY <4>4, <4>5
    <3> QED BY <3>5, <3>6
  <2> QED BY <2>3, <2>4
<1> QED BY <1>3, <1>4

\* What one item at the start of a buffer may be: an item takes a byte at least and
\* no more than there are, and only a request for more bytes may turn out otherwise
\* when they come.
Settled(r, buf) == ~Failed(r) => r.pos \in 1 .. Len(buf)

\* Capsule::decode.
LEMMA CapsuleRead ==
  ASSUME NEW buf \in Seq(Nat)
  PROVE  /\ Settled(DecodeCapsule(buf), buf)
         /\ ~TooShort(DecodeCapsule(buf)) =>
              \A more \in Seq(Nat) : DecodeCapsule(buf \o more) = DecodeCapsule(buf)
<1> DEFINE f == DecodeTypeAndPayload(buf)
           names == {c \in CapsuleNames : CAPSULE_TYPE[c] = f.val.frame_type}
           name == CHOOSE c \in names : TRUE
           args == DecodeCapsuleArgs(name, f.val.payload)
<1>1. /\ TooShort(f) \/ Read1(f, buf, 1, Frames)
      /\ ~Failed(f) => \A more \in Seq(Nat) : DecodeTypeAndPayload(buf \o more) = f
  BY FrameRead
<1>2. CASE Failed(f)
  <2>1. DecodeCapsule(buf) = f
    BY <1>2 DEF DecodeCapsule, Then
  <2>2. TooShort(f)
    <3> HIDE DEF f
    <3> QED BY <1>1, <1>2 DEF Read1, Failed
  <2> HIDE DEF f
  <2> QED BY <1>2, <2>1, <2>2 DEF Settled
<1>3. CASE ~Failed(f)
  <2>1. \A more \in Seq(Nat) : DecodeCapsule(buf \o more) = DecodeCapsule(buf)
    <3> SUFFICES ASSUME NEW more \in Seq(Nat)
                 PROVE  DecodeCapsule(buf \o more) = DecodeCapsule(buf)
      OBVIOUS
    <3>1. DecodeTypeAndPayload(buf \o more) = f
      BY <1>1, <1>3
    <3> QED BY <3>1 DEF DecodeCapsule
  <2>2. f.pos \in 1 .. Len(buf)
    <3> HIDE DEF f
    <3> QED BY <1>1, <1>3 DEF Read1, TooShort, Failed
  <2>3. DecodeCapsule(buf) = IF names = {} THEN DecodeError("CapsuleError", 0)
                             ELSE Then(args, LAMBDA a :
                                    Value([type |-> name, args |-> a.val], f.pos))
    <3> HIDE DEF args
    <3> QED BY <1>3 DEF DecodeCapsule, Then, args
  <2>4. Settled(DecodeCapsule(buf), buf)
    <3> HIDE DEF f, names, name, args
    <3>1. CASE names = {}
      BY <2>3, <3>1 DEF Settled, DecodeError, Failed
    <3>2. CASE names # {} /\ Failed(args)
      BY <2>3, <3>2 DEF Settled, Then
    <3>3. CASE names # {} /\ ~Failed(args)
      BY <2>2, <2>3, <3>3 DEF Settled, Then, Value
    <3> QED BY <3>1, <3>2, <3>3
  <2> QED BY <2>1, <2>4
<1> QED BY <1>2, <1>3

\* A message is decoded from its payload; its frame says where it ends.
LEMMA MessageEnd ==
  ASSUME NEW code, NEW payload, NEW end, ~Failed(DecodeMessage(code, payload, end))
  PROVE  DecodeMessage(code, payload, end).pos = end
<1> DEFINE types == {t \in MessageTypes : TypeCode[t] = code}
           type == CHOOSE t \in types : TRUE
           p == DecodePayload(type, payload)
<1>1. DecodeMessage(code, payload, end) =
        IF types = {} THEN DecodeError("UnknownMessageType", end)
        ELSE IF Failed(p) THEN p
        ELSE IF ~HasTrailingExtensions(type) /\ remaining(payload, p.pos) > 0
             THEN DecodeError("ProtocolViolation", p.pos)
             ELSE Value([type |-> type, fields |-> p.val], end)
  BY DEF DecodeMessage, Then
<1> HIDE DEF types, type, p
<1> QED BY <1>1 DEF DecodeError, Value, Failed

\* decode_control_message.
LEMMA MessageRead ==
  ASSUME NEW buf \in Seq(Nat)
  PROVE  /\ Settled(decode_control_message(buf), buf)
         /\ ~TooShort(decode_control_message(buf)) =>
              \A more \in Seq(Nat) :
                decode_control_message(buf \o more) = decode_control_message(buf)
<1> DEFINE code == read_varint(buf, 0)
           len == read_u16(buf, code.pos)
           payload == read_bytes(buf, len.pos, len.val)
           r == decode_control_message(buf)
<1>1. Len(buf) \in Nat /\ 0 \in 0 .. Len(buf)
  BY LenProperties
<1>2. TooShort(code) \/ Read1(code, buf, 1, Nat)
  <2>1. TooShort(code) \/ Read1(code, buf, 0 + 1, Nat)
    BY <1>1, ReadVarint
  <2> QED BY <2>1
<1>3. CASE Failed(code)
  <2>1. r = code
    BY <1>3 DEF decode_control_message, Then
  <2>2. TooShort(r) /\ Failed(r)
    <3> HIDE DEF r, code
    <3> QED BY <2>1, <1>2, <1>3 DEF Read1, Failed
  <2> QED BY <2>2 DEF Settled
<1>4. CASE ~Failed(code)
  <2>1. /\ code.pos \in 0 .. Len(buf) /\ code.pos >= 1
        /\ \A more \in Seq(Nat) : read_varint(buf \o more, 0) = code
    <3>1. Read1(code, buf, 1, Nat)
      <4> HIDE DEF code
      <4> QED BY <1>2, <1>4 DEF TooShort, Failed
    <3>2. code.pos \in 0 .. Len(buf) /\ code.pos >= 1
      <4> HIDE DEF code
      <4> QED BY <3>1, <1>1 DEF Read1
    <3>3. \A more \in Seq(Nat) : read_varint(buf \o more, 0) = code
      BY <1>1, <1>4, ReadVarintStable
    <3> QED BY <3>2, <3>3
  <2>2. /\ TooShort(len) \/ Read1(len, buf, code.pos + 2, Nat)
        /\ ~Failed(len) => \A more \in Seq(Nat) : read_u16(buf \o more, code.pos) = len
    <3> HIDE DEF code
    <3> QED BY <2>1, ReadU16
  <2>3. CASE Failed(len)
    <3>1. r = len
      <4> HIDE DEF len
      <4> QED BY <1>4, <2>3 DEF decode_control_message, Then, len
    <3>2. TooShort(r) /\ Failed(r)
      <4> HIDE DEF r, len
      <4> QED BY <3>1, <2>2, <2>3 DEF Read1, Failed
    <3> QED BY <3>2 DEF Settled
  <2>4. CASE ~Failed(len)
    <3>1. len.pos \in 0 .. Len(buf) /\ len.pos >= 1 /\ len.val \in Nat
      <4> HIDE DEF code, len
      <4>1. Read1(len, buf, code.pos + 2, Nat)
        BY <2>2, <2>4 DEF TooShort, Failed
      <4> QED BY <4>1, <2>1, <1>1 DEF Read1
    <3>2. /\ TooShort(payload) \/ Read1(payload, buf, len.pos + len.val, Seq(Nat))
          /\ ~Failed(payload) =>
               \A more \in Seq(Nat) : read_bytes(buf \o more, len.pos, len.val) = payload
      <4> HIDE DEF len
      <4> QED BY <3>1, ReadBytes
    <3>3. r = Then(payload, LAMBDA p : DecodeMessage(code.val, p.val, p.pos))
      <4> HIDE DEF payload
      <4> QED BY <1>4, <2>4 DEF decode_control_message, Then, payload
    <3>4. CASE Failed(payload)
      <4>1. r = payload
        <5> HIDE DEF payload, r
        <5> QED BY <3>3, <3>4 DEF Then
      <4>2. TooShort(r) /\ Failed(r)
        <5> HIDE DEF payload, r
        <5> QED BY <4>1, <3>2, <3>4 DEF Read1, Failed
      <4> QED BY <4>2 DEF Settled
    <3>5. CASE ~Failed(payload)
      <4>1. payload.pos \in 1 .. Len(buf)
        <5>1. Read1(payload, buf, len.pos + len.val, Seq(Nat))
          <6> HIDE DEF payload, len
          <6> QED BY <3>2, <3>5 DEF TooShort, Failed
        <5> HIDE DEF payload, len
        <5> QED BY <5>1, <3>1, <1>1 DEF Read1
      <4>2. r = DecodeMessage(code.val, payload.val, payload.pos)
        <5> HIDE DEF payload, r
        <5> QED BY <3>3, <3>5 DEF Then
      <4>3. Settled(r, buf)
        <5> HIDE DEF payload, r
        <5> QED BY <4>1, <4>2, MessageEnd DEF Settled
      <4>4. ASSUME NEW more \in Seq(Nat) PROVE decode_control_message(buf \o more) = r
        <5>1. /\ read_varint(buf \o more, 0) = code
              /\ read_u16(buf \o more, code.pos) = len
              /\ read_bytes(buf \o more, len.pos, len.val) = payload
          BY <2>1, <2>2, <2>4, <3>2, <3>5
        <5>2. /\ read_varint(buf, 0) = code
              /\ read_u16(buf, code.pos) = len
              /\ read_bytes(buf, len.pos, len.val) = payload
          OBVIOUS
        <5>3. decode_control_message(buf \o more) = decode_control_message(buf)
          <6> HIDE DEF payload, len, code
          <6> QED BY <5>1, <5>2, <1>4, <2>4, <3>5 DEF decode_control_message, Then
        <5> QED BY <5>3
      <4> QED BY <4>3, <4>4
    <3> QED BY <3>4, <3>5
  <2> QED BY <2>3, <2>4
<1> QED BY <1>3, <1>4

\* The next item of a buffer of any kind.
LEMMA NextRead ==
  ASSUME NEW kind \in Kinds, NEW buf \in Seq(Nat)
  PROVE  /\ Settled(DecodeNext(kind, buf), buf)
         /\ ~TooShort(DecodeNext(kind, buf)) =>
              \A more \in Seq(Nat) : DecodeNext(kind, buf \o more) = DecodeNext(kind, buf)
<1>1. CASE kind = "message"
  <2>1. \A b : DecodeNext(kind, b) = decode_control_message(b)
    BY <1>1 DEF DecodeNext
  <2> QED BY <2>1, MessageRead
<1>2. CASE kind = "frame"
  <2>1. \A b : DecodeNext(kind, b) = DecodeTypeAndPayload(b)
    BY <1>2 DEF DecodeNext, DecodeH3Frame
  <2>2. Settled(DecodeTypeAndPayload(buf), buf)
    BY FrameRead DEF Settled, Read1, TooShort, Failed
  <2>3. ~TooShort(DecodeTypeAndPayload(buf)) => ~Failed(DecodeTypeAndPayload(buf))
    BY FrameRead DEF Read1, Failed
  <2> QED BY <2>1, <2>2, <2>3, FrameRead
<1>3. CASE kind = "capsule"
  <2>1. \A b : DecodeNext(kind, b) = DecodeCapsule(b)
    BY <1>3 DEF DecodeNext
  <2> QED BY <2>1, CapsuleRead
<1> QED BY <1>1, <1>2, <1>3 DEF Kinds

---------------------------------------------------------------------------
(* Everything that can be read of a buffer.                                *)

\* One round of Parse, where `f' is what it makes of the rest.
ParseBody(kind, f, buf) == Taken(DecodeNext(kind, buf), buf, f)

\* At most n items.
ParseNone(kind) == [buf \in Seq(Nat) |-> [buf |-> buf, results |-> <<>>]]
ParseMore(kind, f, n) == [buf \in Seq(Nat) |-> ParseBody(kind, f, buf)]

Rounds == INSTANCE Recursion WITH First <- ParseNone, Step <- ParseMore

\* The rest of a buffer after an item is a shorter buffer.
LEMMA RestShorter ==
  ASSUME NEW kind \in Kinds, NEW buf \in Seq(Nat), ~Failed(DecodeNext(kind, buf))
  PROVE  /\ SubSeq(buf, DecodeNext(kind, buf).pos + 1, Len(buf)) \in Seq(Nat)
         /\ Len(SubSeq(buf, DecodeNext(kind, buf).pos + 1, Len(buf))) \in 0 .. Len(buf) - 1
<1> DEFINE pos == DecodeNext(kind, buf).pos
<1>1. pos \in 1 .. Len(buf)
  BY NextRead DEF Settled
<1>2. Len(buf) \in Nat /\ pos \in 0 .. Len(buf)
  BY <1>1, LenProperties
<1> HIDE DEF pos
<1>3. SubSeq(buf, pos + 1, Len(buf)) \in Seq(Nat) /\ Len(SubSeq(buf, pos + 1, Len(buf))) = Len(buf) - pos
  BY <1>2, RestOf
<1>4. Len(buf) - pos \in 0 .. Len(buf) - 1
  BY <1>1, <1>2
<1>5. Len(SubSeq(buf, pos + 1, Len(buf))) \in 0 .. Len(buf) - 1
  BY <1>3, <1>4
<1> QED BY <1>3, <1>5 DEF pos

\* What is made of a buffer depends on the rest only.
LEMMA BodyOfRest ==
  ASSUME NEW kind \in Kinds, NEW f, NEW g, NEW buf \in Seq(Nat),
         \A b \in Seq(Nat) : Len(b) < Len(buf) => f[b] = g[b]
  PROVE  ParseBody(kind, f, buf) = ParseBody(kind, g, buf)
<1> DEFINE r == DecodeNext(kind, buf)
           rest == SubSeq(buf, r.pos + 1, Len(buf))
<1>1. CASE Failed(r)
  <2> HIDE DEF r
  <2>1. ParseBody(kind, f, buf) = IF r.err = "BufferTooShort" THEN [buf |-> buf, results |-> <<>>]
                                  ELSE [buf |-> buf, results |-> <<r>>]
    BY <1>1 DEF ParseBody, Taken, r
  <2>2. ParseBody(kind, g, buf) = IF r.err = "BufferTooShort" THEN [buf |-> buf, results |-> <<>>]
                                  ELSE [buf |-> buf, results |-> <<r>>]
    BY <1>1 DEF ParseBody, Taken, r
  <2> QED BY <2>1, <2>2
<1>2. CASE ~Failed(r)
  <2>1. f[rest] = g[rest]
    <3>1. rest \in Seq(Nat) /\ Len(rest) < Len(buf)
      <4>1. rest \in Seq(Nat) /\ Len(rest) \in 0 .. Len(buf) - 1
        BY <1>2, RestShorter
      <4> HIDE DEF rest
      <4> QED BY <4>1, LenProperties
    <3> HIDE DEF rest
    <3> QED BY <3>1
  <2> HIDE DEF r
  <2> QED BY <2>1 DEF ParseBody, Taken, r
<1> QED BY <1>1, <1>2

\* As many rounds as the buffer has bytes, and one to see that nothing is left, are enough.
LEMMA RoundsEnough ==
  ASSUME NEW kind \in Kinds, NEW n \in Nat, NEW buf \in Seq(Nat), Len(buf) < n
  PROVE  Rounds!Loop(kind, n)[buf] = Rounds!Loop(kind, Len(buf) + 1)[buf]
<1> DEFINE T == {k \in Nat : \A m \in 0 .. k : \A b \in Seq(Nat) :
                   Len(b) < m => Rounds!Loop(kind, m)[b] = Rounds!Loop(kind, Len(b) + 1)[b]}
<1>1. 0 \in T
  <2>1. ASSUME NEW m \in 0 .. 0, NEW b \in Seq(Nat), Len(b) < m PROVE FALSE
    BY <2>1, LenProperties
  <2> QED BY <2>1
<1>2. ASSUME NEW k \in Nat, k \in T PROVE k + 1 \in T
  <2>1. ASSUME NEW b \in Seq(Nat), Len(b) < k + 1
        PROVE  Rounds!Loop(kind, k + 1)[b] = Rounds!Loop(kind, Len(b) + 1)[b]
    <3>1. Len(b) \in Nat /\ Len(b) <= k
      BY <2>1, LenProperties
    <3>2. Rounds!Loop(kind, k + 1)[b] = ParseBody(kind, Rounds!Loop(kind, k), b)
      <4>1. k \in Nat
        OBVIOUS
      <4> HIDE DEF T
      <4>2. Rounds!Loop(kind, k + 1) = ParseMore(kind, Rounds!Loop(kind, k), k + 1)
        BY <4>1, Rounds!LoopNext
      <4> QED BY <4>2 DEF ParseMore
    <3>3. Rounds!Loop(kind, Len(b) + 1)[b] = ParseBody(kind, Rounds!Loop(kind, Len(b)), b)
      BY <3>1, Rounds!LoopNext, ZenonT(60) DEF ParseMore
    <3>4. ASSUME NEW c \in Seq(Nat), Len(c) < Len(b)
          PROVE  Rounds!Loop(kind, k)[c] = Rounds!Loop(kind, Len(b))[c]
      <4>1. Len(c) \in Nat /\ Len(c) < k /\ k \in 0 .. k /\ Len(b) \in 0 .. k
        BY <3>1, <3>4, LenProperties
      <4>2. Rounds!Loop(kind, k)[c] = Rounds!Loop(kind, Len(c) + 1)[c]
        BY <1>2, <4>1
      <4>3. Rounds!Loop(kind, Len(b))[c] = Rounds!Loop(kind, Len(c) + 1)[c]
        BY <1>2, <4>1, <3>4
      <4> QED BY <4>2, <4>3
    <3>5. ParseBody(kind, Rounds!Loop(kind, k), b) = ParseBody(kind, Rounds!Loop(kind, Len(b)), b)
      BY <3>4, BodyOfRest
    <3> QED BY <3>2, <3>3, <3>5
  <2>2. ASSUME NEW m \in 0 .. k + 1, NEW b \in Seq(Nat), Len(b) < m
        PROVE  Rounds!Loop(kind, m)[b] = Rounds!Loop(kind, Len(b) + 1)[b]
    <3>1. CASE m = k + 1
      BY <3>1, <2>1, <2>2
    <3>2. CASE m \in 0 .. k
      BY <3>2, <1>2, <2>2
    <3> QED BY <3>1, <3>2
  <2> QED BY <2>2
<1>3. \A k \in Nat : k \in T
  <2> HIDE DEF T
  <2> QED BY <1>1, <1>2, Rounds!Induction
<1>4. n \in T
  <2> HIDE DEF T
  <2> QED BY <1>3
<1>5. n \in 0 .. n
  OBVIOUS
<1> QED BY <1>4, <1>5

\* The function that Parse is written as exists.
LEMMA ParseExists ==
  ASSUME NEW kind \in Kinds
  PROVE  \E f : f = [buf \in Seq(Nat) |-> ParseBody(kind, f, buf)]
<1> DEFINE g == [buf \in Seq(Nat) |-> Rounds!Loop(kind, Len(buf) + 1)[buf]]
<1>1. ASSUME NEW buf \in Seq(Nat) PROVE g[buf] = ParseBody(kind, g, buf)
  <2>1. g[buf] = Rounds!Loop(kind, Len(buf) + 1)[buf]
    OBVIOUS
  <2>2. Len(buf) \in Nat
    BY LenProperties
  <2>3. Rounds!Loop(kind, Len(buf) + 1)[buf] = ParseBody(kind, Rounds!Loop(kind, Len(buf)), buf)
    BY <2>2, Rounds!LoopNext DEF ParseMore
  <2>4. ASSUME NEW b \in Seq(Nat), Len(b) < Len(buf)
        PROVE  Rounds!Loop(kind, Len(buf))[b] = g[b]
    BY <2>2, <2>4, RoundsEnough
  <2>5. ParseBody(kind, Rounds!Loop(kind, Len(buf)), buf) = ParseBody(kind, g, buf)
    <3> HIDE DEF g
    <3> QED BY <2>4, BodyOfRest
  <2> QED BY <2>1, <2>3, <2>5
<1>2. g = [buf \in Seq(Nat) |-> ParseBody(kind, g, buf)]
  <2>1. g = [buf \in Seq(Nat) |-> g[buf]]
    OBVIOUS
  <2> HIDE DEF g
  <2> QED BY <2>1, <1>1
<1> HIDE DEF g
<1> QED BY <1>2

\* Parse takes the next item and goes on with the rest.
LEMMA ParseStep ==
  ASSUME NEW kind \in Kinds, NEW buf \in Seq(Nat)
  PROVE  LET r == DecodeNext(kind, buf)
             rest == Parse(kind, SubSeq(buf, r.pos + 1, Len(buf)))
         IN Parse(kind, buf) = IF r.err = "BufferTooShort" THEN [buf |-> buf, results |-> <<>>]
                               ELSE IF ~Failed(r)
                               THEN [buf |-> rest.buf, results |-> <<r>> \o rest.results]
                               ELSE [buf |-> buf, results |-> <<r>>]
<1> DEFINE Is(f) == f = [b \in Seq(Nat) |-> ParseBody(kind, f, b)]
           parse == CHOOSE f : Is(f)
<1>1. Is(parse)
  <2>1. \E f : Is(f)
    BY ParseExists
  <2> HIDE DEF Is
  <2> QED BY <2>1
<1>2. \A b : Parse(kind, b) = parse[b]
  BY DEF Parse, ParseBody, Taken
<1>3. parse[buf] = ParseBody(kind, parse, buf)
  <2> HIDE DEF parse
  <2> QED BY <1>1
<1> HIDE DEF parse
<1> QED BY <1>2, <1>3 DEF ParseBody, Taken, Failed

\* Induction over buffers, by their length.
LEMMA BufferInduction ==
  ASSUME NEW T, \A b \in Seq(Nat) : (\A c \in Seq(Nat) : Len(c) < Len(b) => c \in T) => b \in T
  PROVE  \A b \in Seq(Nat) : b \in T
<1> DEFINE U == {n \in Nat : \A b \in Seq(Nat) : Len(b) < n => b \in T}
<1>1. 0 \in U
  <2>1. \A b \in Seq(Nat) : Len(b) \in Nat
    BY LenProperties
  <2> QED BY <2>1
<1>2. ASSUME NEW n \in Nat, n \in U PROVE n + 1 \in U
  <2>1. \A b \in Seq(Nat) : Len(b) < n => b \in T
    BY <1>2
  <2>2. ASSUME NEW b \in Seq(Nat), Len(b) < n + 1 PROVE b \in T
    <3>1. ASSUME NEW c \in Seq(Nat), Len(c) < Len(b) PROVE c \in T
      <4>1. Len(c) \in Nat /\ Len(b) \in Nat
        BY LenProperties
      <4> QED BY <4>1, <3>1, <2>1, <2>2
    <3> QED BY <3>1
  <2> QED BY <2>2
<1>3. \A n \in Nat : n \in U
  <2> HIDE DEF U
  <2> QED BY <1>1, <1>2, Rounds!Induction
<1> SUFFICES ASSUME NEW b \in Seq(Nat) PROVE b \in T
  OBVIOUS
<1>4. Len(b) + 1 \in Nat /\ Len(b) < Len(b) + 1
  BY LenProperties
<1>5. Len(b) + 1 \in U
  <2> HIDE DEF U
  <2> QED BY <1>3, <1>4
<1> QED BY <1>4, <1>5

\* What can be read of buffers.
Items(kind) == {DecodeNext(kind, b) : b \in Seq(Nat)}

\* Parse gives a list of items and the bytes that are left; an error is the last item.
WellParsed(kind, p) ==
  /\ p = [buf |-> p.buf, results |-> p.results]
  /\ p.buf \in Seq(Nat) /\ p.results \in Seq(Items(kind))
  /\ \A i \in DOMAIN p.results :
       ~TooShort(p.results[i]) /\ (Failed(p.results[i]) => i = Len(p.results))

\* What a parser reads is items of its kind; only the last can be an error.
LEMMA ParseType ==
  ASSUME NEW kind \in Kinds
  PROVE  \A b \in Seq(Nat) : WellParsed(kind, Parse(kind, b))
<1> DEFINE T == {b \in Seq(Nat) : WellParsed(kind, Parse(kind, b))}
<1>1. ASSUME NEW b \in Seq(Nat), \A c \in Seq(Nat) : Len(c) < Len(b) => c \in T
      PROVE  b \in T
  <2> DEFINE r == DecodeNext(kind, b)
             c == SubSeq(b, r.pos + 1, Len(b))
             rest == Parse(kind, c)
             p == Parse(kind, b)
  <2> SUFFICES WellParsed(kind, p)
    OBVIOUS
  <2>1. p = IF r.err = "BufferTooShort" THEN [buf |-> b, results |-> <<>>]
            ELSE IF ~Failed(r) THEN [buf |-> rest.buf, results |-> <<r>> \o rest.results]
            ELSE [buf |-> b, results |-> <<r>>]
    BY ParseStep
  <2>2. r \in Items(kind)
    BY DEF Items
  <2>3. CASE TooShort(r)
    <3>1. p = [buf |-> b, results |-> <<>>]
      <4> HIDE DEF r, rest, p
      <4> QED BY <2>1, <2>3 DEF TooShort
    <3> HIDE DEF p
    <3> QED BY <3>1 DEF WellParsed
  <2>4. CASE ~TooShort(r) /\ Failed(r)
    <3>1. p = [buf |-> b, results |-> <<r>>]
      <4> HIDE DEF r, rest, p
      <4> QED BY <2>1, <2>4 DEF TooShort
    <3> HIDE DEF p, r
    <3> QED BY <3>1, <2>2, <2>4 DEF WellParsed
  <2>5. CASE ~Failed(r)
    <3>1. p = [buf |-> rest.buf, results |-> <<r>> \o rest.results]
      <4> HIDE DEF r, rest, p
      <4> QED BY <2>1, <2>5 DEF Failed
    <3>2. c \in Seq(Nat) /\ Len(c) < Len(b)
      <4>1. c \in Seq(Nat) /\ Len(c) \in 0 .. Len(b) - 1
        BY <2>5, RestShorter
      <4> HIDE DEF c
      <4> QED BY <4>1, LenProperties
    <3>3. WellParsed(kind, rest)
      <4>1. c \in T
        <5> HIDE DEF c, T
        <5> QED BY <3>2, <1>1
      <4> HIDE DEF c
      <4> QED BY <4>1
    <3>4. ~TooShort(r)
      <4> HIDE DEF r
      <4> QED BY <2>5 DEF TooShort, Failed
    <3> DEFINE s == <<r>> \o rest.results
    <3>5. /\ s \in Seq(Items(kind)) /\ Len(s) = 1 + Len(rest.results) /\ Len(rest.results) \in Nat
          /\ \A i \in 1 .. Len(s) : s[i] = IF i = 1 THEN r ELSE rest.results[i - 1]
      <4>1. <<r>> \in Seq(Items(kind)) /\ Len(<<r>>) = 1 /\ <<r>>[1] = r
        <5> HIDE DEF r
        <5> QED BY <2>2
      <4>2. rest.results \in Seq(Items(kind)) /\ Len(rest.results) \in Nat
        <5>1. rest.results \in Seq(Items(kind))
          <6> HIDE DEF rest
          <6> QED BY <3>3 DEF WellParsed
        <5> QED BY <5>1, LenProperties
      <4>3. /\ s \in Seq(Items(kind)) /\ Len(s) = 1 + Len(rest.results)
            /\ \A i \in 1 .. 1 + Len(rest.results) :
                 s[i] = IF i <= 1 THEN <<r>>[i] ELSE rest.results[i - 1]
        <5> HIDE DEF rest, r
        <5> QED BY <4>1, <4>2, ConcatProperties
      <4> HIDE DEF rest, r, s
      <4> QED BY <4>1, <4>2, <4>3
    <3>6. ASSUME NEW i \in DOMAIN s
          PROVE  ~TooShort(s[i]) /\ (Failed(s[i]) => i = Len(s))
      <4>1. i \in 1 .. Len(s)
        <5> HIDE DEF s
        <5> QED BY <3>5, LenProperties
      <4>2. CASE i = 1
        <5> HIDE DEF s, r, rest
        <5> QED BY <4>1, <4>2, <3>4, <3>5, <2>5
      <4>3. CASE i # 1
        <5>1. i - 1 \in DOMAIN rest.results /\ s[i] = rest.results[i - 1]
          <6>1. i - 1 \in 1 .. Len(rest.results) /\ s[i] = rest.results[i - 1]
            <7> HIDE DEF s, r, rest
            <7> QED BY <4>1, <4>3, <3>5
          <6>2. DOMAIN rest.results = 1 .. Len(rest.results)
            <7> HIDE DEF rest
            <7> QED BY <3>3, LenProperties DEF WellParsed
          <6> QED BY <6>1, <6>2
        <5>2. ~TooShort(s[i]) /\ (Failed(s[i]) => i - 1 = Len(rest.results))
          <6> HIDE DEF s, r, rest
          <6> QED BY <5>1, <3>3 DEF WellParsed
        <5> HIDE DEF s, r, rest
        <5> QED BY <5>2, <3>5, <4>1
      <4> QED BY <4>2, <4>3
    <3>7. rest.buf \in Seq(Nat)
      <4> HIDE DEF rest
      <4> QED BY <3>3 DEF WellParsed
    <3>8. p = [buf |-> rest.buf, results |-> s]
      BY <3>1
    <3> HIDE DEF p, s, rest
    <3> QED BY <3>5, <3>6, <3>7, <3>8 DEF WellParsed
  <2> QED BY <2>3, <2>4, <2>5
<1>2. \A b \in Seq(Nat) : b \in T
  <2> HIDE DEF T
  <2> QED BY <1>1, BufferInduction
<1> QED BY <1>2

\* No item of these is an error.
NoError(results) == \A i \in DOMAIN results : ~Failed(results[i])

\* An item before two lists of items.
LEMMA OneAndMore ==
  ASSUME NEW S, NEW x \in S, NEW t \in Seq(S), NEW u \in Seq(S)
  PROVE  <<x>> \o (t \o u) = (<<x>> \o t) \o u
<1> DEFINE s == <<x>>
<1>1. s \in Seq(S)
  OBVIOUS
<1> HIDE DEF s
<1>2. (s \o t) \o u = s \o (t \o u)
  BY <1>1, ConcatAssociative
<1> QED BY <1>2 DEF s

\* What is read of a buffer that more bytes are added to is what is read of the
\* buffer, and then of what that leaves of it with the bytes added.
LEMMA ParseConcat ==
  ASSUME NEW kind \in Kinds, NEW more \in Seq(Nat), NEW a \in Seq(Nat),
         NoError(Parse(kind, a).results)
  PROVE  Parse(kind, a \o more) =
           [buf     |-> Parse(kind, Parse(kind, a).buf \o more).buf,
            results |-> Parse(kind, a).results
                          \o Parse(kind, Parse(kind, a).buf \o more).results]
<1> DEFINE Q(b) == Parse(kind, Parse(kind, b).buf \o more)
           Joined(b) == Parse(kind, b \o more) = [buf     |-> Q(b).buf,
                                                  results |-> Parse(kind, b).results \o Q(b).results]
           T == {b \in Seq(Nat) : NoError(Parse(kind, b).results) => Joined(b)}
<1>1. ASSUME NEW b \in Seq(Nat), \A c \in Seq(Nat) : Len(c) < Len(b) => c \in T
      PROVE  b \in T
  <2> DEFINE r == DecodeNext(kind, b)
             c == SubSeq(b, r.pos + 1, Len(b))
             rest == Parse(kind, c)
             p == Parse(kind, b)
  <2> SUFFICES ASSUME NoError(p.results) PROVE Joined(b)
    OBVIOUS
  <2>1. p = IF r.err = "BufferTooShort" THEN [buf |-> b, results |-> <<>>]
            ELSE IF ~Failed(r) THEN [buf |-> rest.buf, results |-> <<r>> \o rest.results]
            ELSE [buf |-> b, results |-> <<r>>]
    BY ParseStep
  <2>2. \A x \in Seq(Nat) : WellParsed(kind, Parse(kind, x)) /\ x \o more \in Seq(Nat)
    BY ParseType, ConcatProperties
  <2>3. CASE TooShort(r)
    <3>1. p.buf = b /\ p.results = <<>>
      <4> HIDE DEF r, rest, p
      <4> QED BY <2>1, <2>3 DEF TooShort
    <3>2. Q(b) = Parse(kind, b \o more)
      <4> HIDE DEF p
      <4>1. Q(b) = Parse(kind, p.buf \o more)
        BY DEF p
      <4> QED BY <4>1, <3>1
    <3>3. /\ Q(b) = [buf |-> Q(b).buf, results |-> Q(b).results]
          /\ Q(b).results \in Seq(Items(kind))
      <4>1. WellParsed(kind, Parse(kind, b \o more))
        BY <2>2
      <4> HIDE DEF Q
      <4> QED BY <3>2, <4>1 DEF WellParsed
    <3>4. p.results \o Q(b).results = Q(b).results
      <4> HIDE DEF Q, p
      <4> QED BY <3>1, <3>3, ConcatEmptySeq
    <3>5. Joined(b) <=> Parse(kind, b \o more) = [buf |-> Q(b).buf, results |-> p.results \o Q(b).results]
      OBVIOUS
    <3> HIDE DEF Joined, Q, p
    <3> QED BY <3>2, <3>3, <3>4, <3>5
  <2>4. CASE ~TooShort(r) /\ Failed(r)
    <3>1. p.results = <<r>>
      <4> HIDE DEF r, rest, p
      <4> QED BY <2>1, <2>4 DEF TooShort
    <3>2. 1 \in DOMAIN p.results /\ Failed(p.results[1])
      <4> HIDE DEF r, p
      <4> QED BY <2>4, <3>1
    <3> HIDE DEF p
    <3> QED BY <3>2 DEF NoError
  <2>5. CASE ~Failed(r)
    <3>1. p.buf = rest.buf /\ p.results = <<r>> \o rest.results
      <4> HIDE DEF r, rest, p
      <4> QED BY <2>1, <2>5 DEF Failed
    <3>2. c \in Seq(Nat) /\ Len(c) < Len(b)
      <4>1. c \in Seq(Nat) /\ Len(c) \in 0 .. Len(b) - 1
        BY <2>5, RestShorter
      <4> HIDE DEF c
      <4> QED BY <4>1, LenProperties
    <3>3. WellParsed(kind, rest)
      <4> HIDE DEF c
      <4> QED BY <3>2, <2>2
    <3>4. NoError(rest.results)
      <4>1. r \in Items(kind)
        BY DEF Items
      <4>2. rest.results \in Seq(Items(kind))
        <5> HIDE DEF rest
        <5> QED BY <3>3 DEF WellParsed
      <4> SUFFICES ASSUME NEW i \in DOMAIN rest.results PROVE ~Failed(rest.results[i])
        BY DEF NoError
      <4> HIDE DEF r, rest
      <4>3. i \in 1 .. Len(rest.results) /\ Len(rest.results) \in Nat
        BY <4>2, LenProperties
      <4>4. <<r>> \in Seq(Items(kind)) /\ Len(<<r>>) = 1
        BY <4>1
      <4>5. p.results \in Seq(Items(kind)) /\ Len(p.results) = 1 + Len(rest.results)
            /\ \A j \in 1 .. 1 + Len(rest.results) :
                 p.results[j] = IF j <= 1 THEN <<r>>[j] ELSE rest.results[j - 1]
        <5> HIDE DEF p
        <5> QED BY <4>2, <4>4, <3>1, ConcatProperties
      <4> HIDE DEF p
      <4>6. i + 1 \in 1 .. 1 + Len(rest.results) /\ ~(i + 1 <= 1) /\ (i + 1) - 1 = i
        BY <4>3
      <4>7. i + 1 \in DOMAIN p.results
        BY <4>5, <4>6, LenProperties
      <4>8. p.results[i + 1] = rest.results[i]
        BY <4>5, <4>6
      <4> QED BY <4>7, <4>8 DEF NoError
    <3>5. Joined(c)
      <4>1. c \in T
        <5> HIDE DEF c, T
        <5> QED BY <3>2, <1>1
      <4> HIDE DEF c, Joined
      <4> QED BY <4>1, <3>4 DEF T, rest
    <3>6. DecodeNext(kind, b \o more) = r
      <4>1. ~TooShort(r)
        <5> HIDE DEF r
        <5> QED BY <2>5 DEF TooShort, Failed
      <4> QED BY <4>1, NextRead
    <3>7. SubSeq(b \o more, r.pos + 1, Len(b \o more)) = c \o more
      <4>1. r.pos \in 1 .. Len(b)
        BY <2>5, NextRead DEF Settled
      <4>2. r.pos \in 0 .. Len(b)
        <5> HIDE DEF r
        <5> QED BY <4>1, LenProperties
      <4>3. \A S : \A x, m \in Seq(S) : \A pos \in 0 .. Len(x) :
              SubSeq(x \o m, pos + 1, Len(x \o m)) = SubSeq(x, pos + 1, Len(x)) \o m
        BY RestOfConcat, ZenonT(60)
      <4> HIDE DEF r
      <4> QED BY <4>2, <4>3, Zenon
    <3> DEFINE whole == Parse(kind, b \o more)
               longer == Parse(kind, c \o more)
    <3>8. whole.buf = longer.buf /\ whole.results = <<r>> \o longer.results
          /\ whole = [buf |-> whole.buf, results |-> whole.results]
      <4>1. b \o more \in Seq(Nat) /\ c \o more \in Seq(Nat)
        <5> HIDE DEF c
        <5> QED BY <3>2, <2>2
      <4>2. whole = IF r.err = "BufferTooShort" THEN [buf |-> b \o more, results |-> <<>>]
                    ELSE IF ~Failed(r)
                         THEN [buf |-> longer.buf, results |-> <<r>> \o longer.results]
                         ELSE [buf |-> b \o more, results |-> <<r>>]
        <5> HIDE DEF r, c
        <5> QED BY <4>1, <3>6, <3>7, ParseStep
      <4> HIDE DEF r, c, whole, longer
      <4> QED BY <4>2, <2>5 DEF Failed
    <3> DEFINE q == Q(b)
    <3>9. q = Q(c)
      <4> HIDE DEF r, c
      <4> QED BY <3>1
    <3>10. longer.buf = q.buf /\ longer.results = rest.results \o q.results
      <4>1. longer = [buf |-> Q(c).buf, results |-> rest.results \o Q(c).results]
        BY <3>5
      <4> HIDE DEF q, longer, c, Q
      <4> QED BY <4>1, <3>9
    <3>11. <<r>> \o (rest.results \o q.results) = p.results \o q.results
      <4>1. WellParsed(kind, q)
        <5>1. p.buf \in Seq(Nat)
          <6>1. WellParsed(kind, p)
            BY <2>2
          <6> HIDE DEF p
          <6> QED BY <6>1 DEF WellParsed
        <5>2. q = Parse(kind, p.buf \o more)
          OBVIOUS
        <5> HIDE DEF p, q
        <5> QED BY <5>1, <5>2, <2>2
      <4>2. r \in Items(kind)
        BY DEF Items
      <4>3. <<r>> \in Seq(Items(kind)) /\ q.results \in Seq(Items(kind)) /\ rest.results \in Seq(Items(kind))
        <5> HIDE DEF r, q, rest
        <5> QED BY <4>1, <4>2, <3>3 DEF WellParsed
      <4>4. <<r>> \o (rest.results \o q.results) = (<<r>> \o rest.results) \o q.results
        <5>1. \A x \in Items(kind) : \A t, u \in Seq(Items(kind)) :
                <<x>> \o (t \o u) = (<<x>> \o t) \o u
          BY OneAndMore, SMTT(40)
        <5> HIDE DEF r, q, rest
        <5> QED BY <4>2, <4>3, <5>1
      <4> HIDE DEF r, q, rest, p
      <4> QED BY <4>4, <3>1
    <3>12. whole = [buf |-> q.buf, results |-> p.results \o q.results]
      <4> HIDE DEF whole, longer, q, p, r, rest, c
      <4> QED BY <3>8, <3>10, <3>11
    <3> QED BY <3>12
  <2> QED BY <2>3, <2>4, <2>5
<1>2. \A b \in Seq(Nat) : b \in T
  <2> HIDE DEF T
  <2> QED BY <1>1, BufferInduction
<1>3. a \in T
  <2> HIDE DEF T
  <2> QED BY <1>2
<1> QED BY <1>3

---------------------------------------------------------------------------
(* Readers that keep a buffer.                                             *)

Framed == {"H3Control", "Session"}

\* The events of frames, and those that are told as they are.
Events == {FrameEvent(type, f) : type \in Framed, f \in Frames}
Told == {"settings", "goaway", "headers"}

\* What a reader of these reports.
Readings ==
  {Result("message", r) : r \in Items("message")}
    \cup {Result("frame", r) : r \in Items("frame")}
    \cup {Result("capsule", r) : r \in Items("capsule")}
    \cup {e \in Events : e.kind \in Told}
    \cup {Late}

\* Readings of which only the last may be an error.
Readable(g) == g \in Seq(Readings) /\ \A i \in DOMAIN g : Failed(g[i]) => i = Len(g)

Over(g) == g # <<>> /\ Failed(Last(g))

\* More readings after some that were not over.
LEMMA JoinReadable ==
  ASSUME NEW g, NEW h, Readable(g), Readable(h), ~Over(g)
  PROVE  Readable(g \o h) /\ (Over(g \o h) <=> Over(h)) /\ g \o h \in Seq(Readings)
<1> DEFINE s == g \o h
<1>1. g \in Seq(Readings) /\ h \in Seq(Readings) /\ Len(g) \in Nat /\ Len(h) \in Nat
  BY LenProperties DEF Readable
<1>2. /\ s \in Seq(Readings) /\ Len(s) = Len(g) + Len(h)
      /\ \A i \in 1 .. Len(g) + Len(h) : s[i] = IF i <= Len(g) THEN g[i] ELSE h[i - Len(g)]
  BY <1>1, ConcatProperties
<1>3. /\ \A i \in 1 .. Len(g) : ~Failed(g[i])
      /\ \A i \in 1 .. Len(h) : Failed(h[i]) => i = Len(h)
  <2>1. ASSUME NEW i \in 1 .. Len(g), Failed(g[i]) PROVE FALSE
    <3>1. i \in DOMAIN g
      BY <1>1, LenProperties
    <3>2. i = Len(g)
      BY <3>1, <2>1 DEF Readable
    <3>3. g # <<>>
      BY <3>1, <1>1
    <3> QED BY <3>2, <3>3, <2>1 DEF Over, Last
  <2>2. \A i \in 1 .. Len(h) : Failed(h[i]) => i = Len(h)
    BY <1>1, LenProperties DEF Readable
  <2> QED BY <2>1, <2>2
<1>4. ASSUME NEW i \in DOMAIN s, Failed(s[i]) PROVE i = Len(s)
  <2> HIDE DEF s
  <2>1. i \in 1 .. Len(s)
    BY <1>2, LenProperties
  <2>2. CASE i <= Len(g)
    BY <2>1, <2>2, <1>1, <1>2, <1>3, <1>4
  <2>3. CASE ~(i <= Len(g))
    <3>1. i - Len(g) \in 1 .. Len(h) /\ s[i] = h[i - Len(g)]
      BY <2>1, <2>3, <1>1, <1>2
    <3>2. i - Len(g) = Len(h)
      BY <3>1, <1>3, <1>4
    <3>3. i \in Int /\ Len(s) = Len(g) + Len(h)
      BY <2>1, <1>2
    <3> HIDE DEF s
    <3> QED BY <3>2, <3>3, <1>1
  <2> QED BY <2>2, <2>3
<1>5. Over(s) <=> Over(h)
  <2>1. CASE h = <<>>
    <3>1. s = g
      BY <2>1, <1>1, ConcatEmptySeq
    <3> QED BY <2>1, <3>1 DEF Over
  <2>2. CASE h # <<>>
    <3>1. Len(h) > 0
      BY <2>2, <1>1, EmptySeq
    <3>2. s # <<>> /\ Last(s) = Last(h)
      <4> HIDE DEF s
      <4>1. Len(s) \in 1 .. Len(g) + Len(h) /\ ~(Len(s) <= Len(g)) /\ Len(s) - Len(g) = Len(h)
        BY <3>1, <1>1, <1>2
      <4>2. s[Len(s)] = h[Len(h)]
        BY <4>1, <1>2
      <4>3. s # <<>>
        BY <4>1
      <4> QED BY <4>2, <4>3 DEF Last
    <3> QED BY <3>2, <2>2 DEF Over
  <2> QED BY <2>1, <2>2
<1> QED BY <1>2, <1>4, <1>5 DEF Readable

\* An item is read as something.
LEMMA ReadingOf ==
  ASSUME NEW kind \in Kinds, NEW r \in Items(kind)
  PROVE  Result(kind, r) \in Readings
<1>1. CASE kind = "message"
  BY <1>1, Zenon DEF Readings
<1>2. CASE kind = "frame"
  BY <1>2, Zenon DEF Readings
<1>3. CASE kind = "capsule"
  BY <1>3, Zenon DEF Readings
<1> QED BY <1>1, <1>2, <1>3 DEF Kinds

\* The readings of items.
Named(kind, results) == [i \in DOMAIN results |-> Result(kind, results[i])]

\* They end in an error if the items do.
LEMMA NamedItems ==
  ASSUME NEW kind \in Kinds, NEW p, WellParsed(kind, p)
  PROVE  Readable(Named(kind, p.results)) /\ (Over(Named(kind, p.results)) <=> ~NoError(p.results))
<1> DEFINE s == p.results
           g == Named(kind, s)
<1>1. s \in Seq(Items(kind)) /\ Len(s) \in Nat /\ DOMAIN s = 1 .. Len(s)
  BY LenProperties DEF WellParsed
<1>2. \A i \in 1 .. Len(s) : Failed(s[i]) => i = Len(s)
  BY <1>1 DEF WellParsed
<1> HIDE DEF s
<1>3. g \in Seq(Readings) /\ Len(g) = Len(s) /\ DOMAIN g = 1 .. Len(s)
      /\ \A i \in 1 .. Len(s) : g[i] = Result(kind, s[i])
  <2>1. g = [i \in 1 .. Len(s) |-> Result(kind, s[i])]
    BY <1>1 DEF Named
  <2>2. \A i \in 1 .. Len(s) : Result(kind, s[i]) \in Readings
    BY <1>1, ReadingOf
  <2> QED BY <2>1, <2>2, <1>1
<1>4. \A i \in 1 .. Len(s) : Failed(g[i]) <=> Failed(s[i])
  BY <1>3 DEF Failed, Result
<1> HIDE DEF g
<1>5. Readable(g)
  BY <1>2, <1>3, <1>4 DEF Readable
<1>6. Over(g) <=> ~NoError(s)
  <2>1. CASE Over(g)
    <3>1. g # <<>> /\ Failed(g[Len(s)])
      BY <2>1, <1>3 DEF Over, Last
    <3>2. Len(s) # 0
      BY <3>1, <1>3, EmptySeq
    <3>3. Len(s) \in 1 .. Len(s)
      BY <3>2, <1>1
    <3> QED BY <3>1, <3>3, <1>1, <1>4, <2>1 DEF NoError
  <2>2. CASE ~NoError(s)
    <3>1. PICK i \in 1 .. Len(s) : Failed(s[i])
      BY <2>2, <1>1 DEF NoError
    <3>2. i = Len(g) /\ Failed(g[i])
      BY <3>1, <1>1, <1>2, <1>3, <1>4
    <3>3. g # <<>>
      BY <3>1, <1>3
    <3> QED BY <3>2, <3>3, <2>2 DEF Over, Last
  <2> QED BY <2>1, <2>2
<1> QED BY <1>5, <1>6 DEF s, g

\* The readings of two lists of items.
LEMMA NamedConcat ==
  ASSUME NEW kind \in Kinds, NEW s \in Seq(Items(kind)), NEW t \in Seq(Items(kind))
  PROVE  Named(kind, s \o t) = Named(kind, s) \o Named(kind, t)
<1> DEFINE w == s \o t
<1>1. /\ w \in Seq(Items(kind)) /\ Len(w) = Len(s) + Len(t) /\ Len(s) \in Nat /\ Len(t) \in Nat
      /\ \A i \in 1 .. Len(s) + Len(t) : w[i] = IF i <= Len(s) THEN s[i] ELSE t[i - Len(s)]
  BY ConcatProperties, LenProperties
<1>2. ASSUME NEW u \in Seq(Items(kind))
      PROVE  /\ Named(kind, u) \in Seq(Readings) /\ Len(Named(kind, u)) = Len(u)
             /\ \A i \in 1 .. Len(u) : Named(kind, u)[i] = Result(kind, u[i])
  <2>1. Len(u) \in Nat /\ DOMAIN u = 1 .. Len(u)
    BY LenProperties
  <2>2. Named(kind, u) = [i \in 1 .. Len(u) |-> Result(kind, u[i])]
    BY <2>1 DEF Named
  <2>3. \A i \in 1 .. Len(u) : Result(kind, u[i]) \in Readings
    BY <2>1, ReadingOf
  <2> QED BY <2>1, <2>2, <2>3
<1> HIDE DEF w
<1> DEFINE a == Named(kind, s)
           b == Named(kind, t)
           x == a \o b
           y == Named(kind, w)
<1>3. /\ a \in Seq(Readings) /\ Len(a) = Len(s) /\ \A i \in 1 .. Len(s) : a[i] = Result(kind, s[i])
      /\ b \in Seq(Readings) /\ Len(b) = Len(t) /\ \A i \in 1 .. Len(t) : b[i] = Result(kind, t[i])
      /\ y \in Seq(Readings) /\ Len(y) = Len(w) /\ \A i \in 1 .. Len(w) : y[i] = Result(kind, w[i])
  BY <1>1, <1>2
<1>4. /\ x \in Seq(Readings) /\ Len(x) = Len(a) + Len(b)
      /\ \A i \in 1 .. Len(a) + Len(b) : x[i] = IF i <= Len(a) THEN a[i] ELSE b[i - Len(a)]
  <2>1. a \in Seq(Readings) /\ b \in Seq(Readings)
    BY <1>3
  <2> HIDE DEF a, b
  <2> QED BY <2>1, ConcatProperties
<1> HIDE DEF a, b, x, y
<1>5. ASSUME NEW i \in 1 .. Len(x) PROVE y[i] = x[i]
  <2>1. i \in 1 .. Len(s) + Len(t)
    BY <1>1, <1>3, <1>4
  <2>2. CASE i <= Len(s)
    <3>1. i \in 1 .. Len(s)
      BY <2>1, <2>2, <1>1
    <3> QED BY <2>1, <3>1, <1>1, <1>3, <1>4
  <2>3. CASE ~(i <= Len(s))
    <3>1. i - Len(s) \in 1 .. Len(t)
      BY <2>1, <2>3, <1>1
    <3> QED BY <2>1, <2>3, <3>1, <1>1, <1>3, <1>4
  <2> QED BY <2>2, <2>3
<1>6. y = x
  BY <1>1, <1>3, <1>4, <1>5, SeqEqual
<1> QED BY <1>6 DEF y, x, a, b, w

---------------------------------------------------------------------------
(* Events (Connection::process_h3_events).                                 *)

\* An event that is not told is no error; the data of one is bytes.
LEMMA EventShape ==
  ASSUME NEW e \in Events
  PROVE  /\ e.kind \in Told \cup {"data", "none"}
         /\ e.kind = "data" => e.val \in Seq(Nat)
         /\ Failed(e) => e.kind \in Told
<1>1. PICK type \in Framed, f \in Frames : e = FrameEvent(type, f)
  BY DEF Events
<1>2. f.payload \in Seq(Nat)
  BY DEF Frames
<1>3. \/ \E r : e = Result("settings", r) \/ e = Result("goaway", r) \/ e = Result("headers", r)
      \/ e = Result("data", Value(f.payload, 0))
      \/ e = Result("none", Value(<<>>, 0))
  BY <1>1 DEF FrameEvent
<1>4. CASE \E r : e = Result("settings", r) \/ e = Result("goaway", r) \/ e = Result("headers", r)
  BY <1>4 DEF Result, Told
<1>5. CASE e = Result("data", Value(f.payload, 0)) \/ e = Result("none", Value(<<>>, 0))
  BY <1>5, <1>2 DEF Result, Value, Failed
<1> QED BY <1>3, <1>4, <1>5

\* Data is reported as an error only, and a reset by none of them.
LEMMA ReadingKinds ==
  ASSUME NEW r \in Readings
  PROVE  r.kind # "reset" /\ (r.kind = "data" => Failed(r))
<1>1. \A kind, x : Result(kind, x).kind = kind
  BY DEF Result
<1>2. \/ \E kind \in {"message", "frame", "capsule"} : \E x : r = Result(kind, x)
      \/ r.kind \in Told
      \/ r = Late
  BY Zenon DEF Readings
<1>3. Late.kind = "data" /\ Failed(Late)
  BY DEF Late, Result, DecodeError, Failed
<1> QED BY <1>1, <1>2, <1>3 DEF Told

\* An event that is told is a reading, and so is one that is an error.
LEMMA EventRead ==
  ASSUME NEW e \in Events, e.kind \in Told \/ Failed(e)
  PROVE  e \in Readings
<1>1. e.kind \in Told
  BY EventShape
<1> QED BY <1>1, Zenon DEF Readings

\* A session, of which the limits are left open.
IsSession(s) ==
  /\ s = [state |-> s.state, capsules |-> s.capsules, limits |-> s.limits]
  /\ s.state \in {"none", "open", "closed"}
  /\ s.capsules \in Seq(Nat)

LEMMA NewSessions == IsSession(NoSession) /\ IsSession(NewSession)
<1>1. \A c, l : [[state |-> "none", capsules |-> c, limits |-> l] EXCEPT !.state = "open"]
                = [state |-> "open", capsules |-> c, limits |-> l]
  OBVIOUS
<1>2. NewSession = [state |-> "open", capsules |-> <<>>, limits |-> {}]
  BY <1>1, Zenon DEF NewSession, NoSession
<1> QED BY <1>2 DEF IsSession, NoSession

\* What is read of one event, and the session it leaves.
CapsulesOf(s, e) == Parse("capsule", s.capsules \o e.val)

EventGot(s, e) ==
  CASE e.kind = "data" /\ s.state = "closed" -> <<Late>>
    [] e.kind = "data" /\ s.state = "open"   -> Named("capsule", CapsulesOf(s, e).results)
    [] e.kind \in Told                       -> <<e>>
    [] OTHER                                 -> <<>>

EventRest(s, e) ==
  CASE e.kind = "data" /\ s.state = "open" ->
         [state    |-> IF Ended(s.limits, CapsulesOf(s, e).results) THEN "closed" ELSE "open",
          capsules |-> CapsulesOf(s, e).buf,
          limits   |-> s.limits \cup Limits(CapsulesOf(s, e).results)]
    [] e.kind = "headers" -> IF e.val = Opening THEN NewSession ELSE s
    [] OTHER -> s

\* The capsules of a session are parsed.
LEMMA CapsulesParsed ==
  ASSUME NEW s, IsSession(s), NEW e \in Events, e.kind = "data"
  PROVE  LET p == CapsulesOf(s, e)
         IN p.buf \in Seq(Nat) /\ Named("capsule", p.results) \in Seq(Readings)
<1> DEFINE p == CapsulesOf(s, e)
<1>1. "capsule" \in Kinds
  BY DEF Kinds
<1>2. s.capsules \o e.val \in Seq(Nat)
  BY EventShape, ConcatProperties DEF IsSession
<1>3. WellParsed("capsule", p)
  BY <1>1, <1>2, ParseType DEF CapsulesOf
<1> HIDE DEF p
<1>4. p.buf \in Seq(Nat) /\ Readable(Named("capsule", p.results))
  BY <1>1, <1>3, NamedItems DEF WellParsed
<1> QED BY <1>4 DEF Readable, p

\* What is read of an event is readings, and it leaves a session.
LEMMA EventType ==
  ASSUME NEW s, IsSession(s), NEW e \in Events
  PROVE  EventGot(s, e) \in Seq(Readings) /\ IsSession(EventRest(s, e))
<1>1. <<>> \in Seq(Readings) /\ \A x \in Readings : <<x>> \in Seq(Readings)
  OBVIOUS
<1>2. EventGot(s, e) \in Seq(Readings)
  <2>1. CASE e.kind = "data" /\ s.state = "closed"
    <3>1. EventGot(s, e) = <<Late>>
      BY <2>1 DEF EventGot, Told
    <3>2. Late \in Readings
      BY Zenon DEF Readings
    <3> QED BY <3>1, <3>2, <1>1
  <2>2. CASE e.kind = "data" /\ s.state = "open"
    <3>1. EventGot(s, e) = Named("capsule", CapsulesOf(s, e).results)
      BY <2>2 DEF EventGot, Told
    <3> QED BY <3>1, <2>2, CapsulesParsed
  <2>3. CASE e.kind \in Told
    <3>1. EventGot(s, e) = <<e>>
      BY <2>3 DEF EventGot, Told
    <3> QED BY <3>1, <2>3, <1>1, EventRead
  <2>4. CASE /\ ~(e.kind = "data" /\ s.state = "closed") /\ ~(e.kind = "data" /\ s.state = "open")
             /\ e.kind \notin Told
    <3>1. EventGot(s, e) = <<>>
      BY <2>4 DEF EventGot
    <3> QED BY <3>1, <1>1
  <2> QED BY <2>1, <2>2, <2>3, <2>4
<1>3. IsSession(EventRest(s, e))
  <2>1. CASE e.kind = "data" /\ s.state = "open"
    <3> DEFINE p == CapsulesOf(s, e)
               state == IF Ended(s.limits, p.results) THEN "closed" ELSE "open"
               limits == s.limits \cup Limits(p.results)
    <3>1. EventRest(s, e) = [state |-> state, capsules |-> p.buf, limits |-> limits]
      BY <2>1 DEF EventRest
    <3>2. p.buf \in Seq(Nat) /\ state \in {"closed", "open"}
      BY <2>1, CapsulesParsed
    <3> HIDE DEF p, state, limits
    <3> QED BY <3>1, <3>2 DEF IsSession
  <2>2. CASE e.kind = "headers"
    <3>1. EventRest(s, e) = NewSession \/ EventRest(s, e) = s
      BY <2>2 DEF EventRest
    <3> QED BY <3>1, NewSessions
  <2>3. CASE ~(e.kind = "data" /\ s.state = "open") /\ e.kind # "headers"
    BY <2>3 DEF EventRest
  <2> QED BY <2>1, <2>2, <2>3
<1> QED BY <1>2, <1>3

Acc(s, g) == [session |-> s, got |-> g]

\* After an error for late data, the events that came with it are dropped.
Dropped(g) == g # <<>> /\ Last(g).kind = "data"

\* An event adds what is read of it, unless it is dropped.
LEMMA HandleStep ==
  ASSUME NEW s, IsSession(s), NEW g \in Seq(Readings), NEW e \in Events
  PROVE  HandleNext(Acc(s, g), e) =
           IF Dropped(g) THEN Acc(s, g) ELSE Acc(EventRest(s, e), g \o EventGot(s, e))
<1> DEFINE acc == Acc(s, g)
<1>1. acc.got = g /\ acc.session = s /\ \A h : [acc EXCEPT !.got = h] = Acc(s, h)
  BY DEF Acc
<1>2. \A x \in Readings : Append(g, x) = g \o <<x>>
  BY AppendIsConcat
<1>3. g \o <<>> = g
  BY ConcatEmptySeq
<1>4. CASE Dropped(g)
  BY <1>1, <1>4 DEF HandleNext, Dropped
<1>5. CASE ~Dropped(g)
  <2>1. HandleNext(acc, e) = HandleEvent(acc, e)
    <3> HIDE DEF acc
    <3> QED BY <1>1, <1>5 DEF HandleNext, Dropped
  <2> SUFFICES HandleEvent(acc, e) = Acc(EventRest(s, e), g \o EventGot(s, e))
    <3> HIDE DEF acc
    <3> QED BY <2>1, <1>5 DEF acc
  <2>2. CASE e.kind = "data" /\ s.state = "closed"
    <3>1. EventGot(s, e) = <<Late>> /\ EventRest(s, e) = s
      BY <2>2 DEF EventGot, EventRest, Told
    <3>2. Late \in Readings
      BY Zenon DEF Readings
    <3>3. HandleEvent(acc, e) = [acc EXCEPT !.got = Append(g, Late)]
      <4> HIDE DEF acc
      <4> QED BY <1>1, <2>2 DEF HandleEvent
    <3> HIDE DEF acc
    <3> QED BY <3>1, <3>2, <3>3, <1>1, <1>2
  <2>3. CASE e.kind = "data" /\ s.state = "open"
    <3> DEFINE p == CapsulesOf(s, e)
    <3>1. HandleEvent(acc, e) = ReadCapsules(acc, p)
      <4>1. HandleEvent(acc, e) = ReadCapsules(acc, Feed("capsule", acc.session.capsules, e.val))
        <5> HIDE DEF acc
        <5> QED BY <1>1, <2>3 DEF HandleEvent
      <4>2. Feed("capsule", acc.session.capsules, e.val) = p
        BY <1>1 DEF Feed, CapsulesOf
      <4> HIDE DEF acc, p
      <4> QED BY <4>1, <4>2
    <3>2. ReadCapsules(acc, p) =
            Acc([state    |-> IF Ended(s.limits, p.results) THEN "closed" ELSE "open",
                 capsules |-> p.buf, limits |-> s.limits \cup Limits(p.results)],
                g \o Named("capsule", p.results))
      <4> HIDE DEF acc, p
      <4> QED BY <1>1 DEF ReadCapsules, Named, Acc
    <3>3. /\ EventGot(s, e) = Named("capsule", p.results)
          /\ EventRest(s, e) = [state    |-> IF Ended(s.limits, p.results) THEN "closed" ELSE "open",
                                capsules |-> p.buf, limits |-> s.limits \cup Limits(p.results)]
      BY <2>3 DEF EventGot, EventRest, Told
    <3> HIDE DEF acc, p
    <3> QED BY <3>1, <3>2, <3>3
  <2>4. CASE e.kind \in {"settings", "goaway"}
    <3>1. EventGot(s, e) = <<e>> /\ EventRest(s, e) = s /\ e \in Readings
      BY <2>4, EventRead DEF EventGot, EventRest, Told
    <3>2. HandleEvent(acc, e) = [acc EXCEPT !.got = Append(g, e)]
      <4> HIDE DEF acc
      <4> QED BY <1>1, <2>4 DEF HandleEvent
    <3> HIDE DEF acc
    <3> QED BY <3>1, <3>2, <1>1, <1>2
  <2>5. CASE e.kind = "headers"
    <3>1. /\ EventGot(s, e) = <<e>> /\ e \in Readings
          /\ EventRest(s, e) = IF e.val = Opening THEN NewSession ELSE s
      BY <2>5, EventRead DEF EventGot, EventRest, Told
    <3>2. HandleEvent(acc, e) = Acc(IF e.val = Opening THEN NewSession ELSE s, Append(g, e))
      <4> HIDE DEF acc
      <4> QED BY <1>1, <2>5 DEF HandleEvent, Acc
    <3> HIDE DEF acc
    <3> QED BY <3>1, <3>2, <1>2
  <2>6. CASE ~(e.kind = "data" /\ s.state \in {"open", "closed"}) /\ e.kind \notin Told
    <3>1. EventGot(s, e) = <<>> /\ EventRest(s, e) = s
      BY <2>6 DEF EventGot, EventRest, Told
    <3>2. HandleEvent(acc, e) = acc
      <4> HIDE DEF acc
      <4> QED BY <1>1, <2>6 DEF HandleEvent, Told
    <3> QED BY <3>1, <3>2, <1>3
  <2> QED BY <2>2, <2>3, <2>4, <2>5, <2>6 DEF Told
<1> QED BY <1>4, <1>5

\* The loop over the events.
EventFirst(c) == Acc(c.session, <<>>)
EventNext(c, acc, n) == HandleNext(acc, c.events[n])

EventLoop == INSTANCE Recursion WITH First <- EventFirst, Step <- EventNext

\* The loop has a value: that of its last event.
LEMMA HandleLoop ==
  ASSUME NEW s, NEW es, Len(es) \in Nat
  PROVE  \E handled : /\ handled[0] = Acc(s, <<>>)
                      /\ \A n \in 1 .. Len(es) : handled[n] = HandleNext(handled[n - 1], es[n])
                      /\ HandleEvents(s, es) = handled[Len(es)]
<1> DEFINE N == Len(es)
           Is(f) == f = [n \in 0 .. N |-> IF n = 0 THEN [session |-> s, got |-> <<>>]
                                          ELSE HandleNext(f[n - 1], es[n])]
           handled == CHOOSE f : Is(f)
           c == [session |-> s, events |-> es]
<1>1. \E f : Is(f)
  <2>1. N \in Nat
    OBVIOUS
  <2> HIDE DEF N, c
  <2>2. PICK f : f = [n \in 0 .. N |-> IF n = 0 THEN EventFirst(c) ELSE EventNext(c, f[n - 1], n)]
    BY <2>1, EventLoop!LoopExists
  <2>3. EventFirst(c) = [session |-> s, got |-> <<>>]
    BY DEF EventFirst, Acc, c
  <2>4. \A acc, n : EventNext(c, acc, n) = HandleNext(acc, es[n])
    BY DEF EventNext, c
  <2>5. Is(f)
    BY <2>2, <2>3, <2>4
  <2> QED BY <2>5
<1>2. Is(handled)
  <2> HIDE DEF Is
  <2> QED BY <1>1
<1>3. HandleEvents(s, es) = handled[N]
  BY DEF HandleEvents
<1> HIDE DEF handled
<1>4. handled[0] = Acc(s, <<>>)
  BY <1>2 DEF Acc
<1>5. ASSUME NEW n \in 1 .. N PROVE handled[n] = HandleNext(handled[n - 1], es[n])
  <2>1. n \in 0 .. N /\ n # 0
    OBVIOUS
  <2> HIDE DEF N
  <2> QED BY <1>2, <2>1
<1> QED BY <1>3, <1>4, <1>5

\* One event after the other: the session and the readings.
EventsRead(s, es, S, G) ==
  /\ S[0] = s /\ G[0] = <<>>
  /\ \A n \in 0 .. Len(es) : IsSession(S[n]) /\ G[n] \in Seq(Readings)
  /\ \A n \in 1 .. Len(es) :
       IF Dropped(G[n - 1]) THEN S[n] = S[n - 1] /\ G[n] = G[n - 1]
       ELSE S[n] = EventRest(S[n - 1], es[n]) /\ G[n] = G[n - 1] \o EventGot(S[n - 1], es[n])

EventsRan(s, es) ==
  \E S, G : EventsRead(s, es, S, G) /\ HandleEvents(s, es) = Acc(S[Len(es)], G[Len(es)])

\* The loop reads as EventsRead says, event by event.
LEMMA EventsRun ==
  ASSUME NEW s, IsSession(s), NEW es \in Seq(Events)
  PROVE  EventsRan(s, es)
<1> DEFINE N == Len(es)
<1>1. N \in Nat /\ \A n \in 1 .. N : es[n] \in Events
  BY LenProperties
<1>2. PICK handled : /\ handled[0] = Acc(s, <<>>)
                     /\ \A n \in 1 .. N : handled[n] = HandleNext(handled[n - 1], es[n])
                     /\ HandleEvents(s, es) = handled[N]
  BY <1>1, HandleLoop
<1> HIDE DEF N
<1> DEFINE S == [n \in 0 .. N |-> handled[n].session]
           G == [n \in 0 .. N |-> handled[n].got]
           T == {n \in Nat : n <= N =>
                   handled[n] = Acc(S[n], G[n]) /\ IsSession(S[n]) /\ G[n] \in Seq(Readings)}
<1>3. \A x, g : Acc(x, g).session = x /\ Acc(x, g).got = g
  BY DEF Acc
<1>4. S[0] = s /\ G[0] = <<>>
  BY <1>1, <1>2, <1>3
<1>5. ASSUME NEW n \in 1 .. N, n - 1 \in T
      PROVE  /\ IF Dropped(G[n - 1]) THEN S[n] = S[n - 1] /\ G[n] = G[n - 1]
                ELSE S[n] = EventRest(S[n - 1], es[n]) /\ G[n] = G[n - 1] \o EventGot(S[n - 1], es[n])
             /\ n \in T
  <2> DEFINE s1 == S[n - 1]
             g1 == G[n - 1]
             s2 == EventRest(s1, es[n])
             g2 == g1 \o EventGot(s1, es[n])
  <2>1. handled[n - 1] = Acc(s1, g1) /\ IsSession(s1) /\ g1 \in Seq(Readings)
    BY <1>1, <1>5
  <2>2. handled[n] = IF Dropped(g1) THEN Acc(s1, g1) ELSE Acc(s2, g2)
    <3>1. es[n] \in Events /\ handled[n] = HandleNext(handled[n - 1], es[n])
      BY <1>1, <1>2
    <3> HIDE DEF s1, g1, S, G
    <3> QED BY <3>1, <2>1, HandleStep
  <2>3. IsSession(s2) /\ g2 \in Seq(Readings)
    <3>1. es[n] \in Events
      BY <1>1
    <3> HIDE DEF s1, g1, S, G
    <3> QED BY <3>1, <2>1, EventType, ConcatProperties
  <2>4. S[n] = handled[n].session /\ G[n] = handled[n].got /\ n \in Nat
    OBVIOUS
  <2>5. /\ IF Dropped(g1) THEN S[n] = s1 /\ G[n] = g1 ELSE S[n] = s2 /\ G[n] = g2
        /\ handled[n] = Acc(S[n], G[n]) /\ IsSession(S[n]) /\ G[n] \in Seq(Readings)
    <3> HIDE DEF s1, g1, s2, g2, S, G
    <3> QED BY <2>1, <2>2, <2>3, <2>4, <1>3
  <2>6. n \in T
    <3> HIDE DEF s1, g1, s2, g2, S, G
    <3> QED BY <2>4, <2>5
  <2> HIDE DEF T, S, G
  <2> QED BY <2>5, <2>6 DEF s1, g1, s2, g2
<1>6. 0 \in T
  <2>1. <<>> \in Seq(Readings)
    OBVIOUS
  <2> QED BY <2>1, <1>2, <1>4
<1>7. ASSUME NEW n \in Nat, n \in T PROVE n + 1 \in T
  <2>1. CASE n + 1 \in 1 .. N
    <3>1. (n + 1) - 1 = n
      OBVIOUS
    <3> HIDE DEF T, S, G
    <3> QED BY <2>1, <3>1, <1>5, <1>7
  <2>2. CASE n + 1 \notin 1 .. N
    BY <2>2, <1>1
  <2> QED BY <2>1, <2>2
<1>8. \A n \in Nat : n \in T
  <2> HIDE DEF T
  <2> QED BY <1>6, <1>7, Rounds!Induction
<1>9. ASSUME NEW n \in 0 .. N
      PROVE  handled[n] = Acc(S[n], G[n]) /\ IsSession(S[n]) /\ G[n] \in Seq(Readings)
  <2>1. n \in Nat /\ n <= N
    BY <1>1
  <2>2. n \in T
    <3> HIDE DEF T
    <3> QED BY <2>1, <1>8
  <2> HIDE DEF S, G
  <2> QED BY <2>1, <2>2
<1>10. \A n \in 1 .. N : n - 1 \in T
  <2> HIDE DEF T
  <2> QED BY <1>8, <1>1
<1> HIDE DEF T, S, G
<1>11. EventsRead(s, es, S, G)
  BY <1>4, <1>5, <1>9, <1>10 DEF EventsRead, N
<1>12. HandleEvents(s, es) = Acc(S[Len(es)], G[Len(es)])
  <2>1. N \in 0 .. N
    BY <1>1
  <2> QED BY <2>1, <1>2, <1>9 DEF N
<1> QED BY <1>11, <1>12 DEF EventsRan

\* What comes of events is a session and readings.
LEMMA EventsHandled ==
  ASSUME NEW s, IsSession(s), NEW es \in Seq(Events)
  PROVE  LET h == HandleEvents(s, es)
         IN h = Acc(h.session, h.got) /\ IsSession(h.session) /\ h.got \in Seq(Readings)
<1> DEFINE h == HandleEvents(s, es)
<1>1. PICK S, G : EventsRead(s, es, S, G) /\ h = Acc(S[Len(es)], G[Len(es)])
  BY EventsRun DEF EventsRan
<1> HIDE DEF h
<1>2. Len(es) \in 0 .. Len(es)
  BY LenProperties
<1>3. IsSession(S[Len(es)]) /\ G[Len(es)] \in Seq(Readings)
  BY <1>1, <1>2 DEF EventsRead
<1>4. h.session = S[Len(es)] /\ h.got = G[Len(es)]
  BY <1>1 DEF Acc
<1> QED BY <1>1, <1>3, <1>4 DEF h

\* Later readings decide whether events are dropped, if the earlier ones do not.
LEMMA DroppedLater ==
  ASSUME NEW g \in Seq(Readings), NEW h \in Seq(Readings), ~Dropped(g)
  PROVE  Dropped(g \o h) <=> Dropped(h)
<1> DEFINE s == g \o h
<1>1. /\ s \in Seq(Readings) /\ Len(s) = Len(g) + Len(h) /\ Len(g) \in Nat /\ Len(h) \in Nat
      /\ \A i \in 1 .. Len(g) + Len(h) : s[i] = IF i <= Len(g) THEN g[i] ELSE h[i - Len(g)]
  BY ConcatProperties, LenProperties
<1>2. CASE h = <<>>
  <2>1. s = g
    BY <1>2, ConcatEmptySeq
  <2> QED BY <1>2, <2>1 DEF Dropped
<1>3. CASE h # <<>>
  <2>1. Len(h) > 0
    BY <1>3, EmptySeq
  <2> HIDE DEF s
  <2>2. Len(s) \in 1 .. Len(g) + Len(h) /\ ~(Len(s) <= Len(g)) /\ Len(s) - Len(g) = Len(h)
    BY <1>1, <2>1
  <2>3. s[Len(s)] = h[Len(h)]
    BY <1>1, <2>2
  <2>4. s # <<>>
    BY <2>2
  <2> QED BY <1>3, <2>3, <2>4 DEF Dropped, Last, s
<1> QED BY <1>2, <1>3

\* The rest of the events is handled where the first of them ended, or dropped.
EventsJoin(x, y, whole) ==
  IF Dropped(x.got) THEN whole = x ELSE whole = Acc(y.session, x.got \o y.got)

LEMMA HandleConcat ==
  ASSUME NEW s, IsSession(s), NEW es \in Seq(Events), NEW fs \in Seq(Events)
  PROVE  LET x == HandleEvents(s, es)
         IN EventsJoin(x, HandleEvents(x.session, fs), HandleEvents(s, es \o fs))
<1> DEFINE x == HandleEvents(s, es)
           y == HandleEvents(x.session, fs)
           all == es \o fs
           whole == HandleEvents(s, all)
           N == Len(es)
           M == Len(fs)
<1>1. /\ N \in Nat /\ M \in Nat /\ Len(all) = N + M /\ all \in Seq(Events)
      /\ \A i \in 1 .. N + M : all[i] = IF i <= N THEN es[i] ELSE fs[i - N]
  BY ConcatProperties, LenProperties
<1>2. /\ \A n \in 1 .. N : all[n] = es[n]
      /\ \A n \in 1 .. M : all[N + n] = fs[n]
  <2> HIDE DEF all, N, M
  <2>1. \A n \in 1 .. M : N + n \in 1 .. N + M /\ ~(N + n <= N) /\ (N + n) - N = n
    BY <1>1
  <2>2. \A n \in 1 .. N : n \in 1 .. N + M /\ n <= N
    BY <1>1
  <2>3. ASSUME NEW n \in 1 .. N PROVE all[n] = es[n]
    <3>1. n \in 1 .. N + M /\ n <= N
      BY <2>2
    <3> QED BY <3>1, <1>1
  <2>4. ASSUME NEW n \in 1 .. M PROVE all[N + n] = fs[n]
    <3> DEFINE i == N + n
    <3>1. i \in 1 .. N + M /\ ~(i <= N) /\ i - N = n
      BY <2>1
    <3> HIDE DEF i
    <3>2. all[i] = fs[i - N]
      BY <3>1, <1>1
    <3> QED BY <3>1, <3>2 DEF i
  <2> QED BY <2>3, <2>4
<1>3. PICK SP, GP : EventsRead(s, es, SP, GP) /\ x = Acc(SP[N], GP[N])
  BY EventsRun DEF EventsRan
<1>4. IsSession(x.session) /\ x.got \in Seq(Readings)
  BY EventsHandled
<1>5. PICK SQ, GQ : EventsRead(x.session, fs, SQ, GQ) /\ y = Acc(SQ[M], GQ[M])
  BY <1>4, EventsRun DEF EventsRan
<1>6. PICK S, G : EventsRead(s, all, S, G) /\ whole = Acc(S[N + M], G[N + M])
  <2>1. EventsRan(s, all) /\ Len(all) = N + M
    <3> HIDE DEF all, N, M
    <3> QED BY <1>1, EventsRun
  <2> HIDE DEF N, M
  <2> QED BY <2>1 DEF EventsRan
<1>7. \A a, g : Acc(a, g).session = a /\ Acc(a, g).got = g
  BY DEF Acc
<1>8. SP[N] = x.session /\ GP[N] = x.got /\ SQ[M] = y.session /\ GQ[M] = y.got
  <2> HIDE DEF x, y, N, M
  <2> QED BY <1>3, <1>5, <1>7
<1> HIDE DEF x, y, whole
<1>9. /\ S[0] = s /\ G[0] = <<>> /\ SP[0] = s /\ GP[0] = <<>>
      /\ SQ[0] = x.session /\ GQ[0] = <<>>
      /\ \A n \in 0 .. M : IsSession(SQ[n]) /\ GQ[n] \in Seq(Readings)
      /\ \A n \in 1 .. N :
           IF Dropped(GP[n - 1]) THEN SP[n] = SP[n - 1] /\ GP[n] = GP[n - 1]
           ELSE SP[n] = EventRest(SP[n - 1], es[n]) /\ GP[n] = GP[n - 1] \o EventGot(SP[n - 1], es[n])
      /\ \A n \in 1 .. M :
           IF Dropped(GQ[n - 1]) THEN SQ[n] = SQ[n - 1] /\ GQ[n] = GQ[n - 1]
           ELSE SQ[n] = EventRest(SQ[n - 1], fs[n]) /\ GQ[n] = GQ[n - 1] \o EventGot(SQ[n - 1], fs[n])
  BY <1>3, <1>5, <1>6 DEF EventsRead
<1>10. \A n \in 1 .. N + M :
         IF Dropped(G[n - 1]) THEN S[n] = S[n - 1] /\ G[n] = G[n - 1]
         ELSE S[n] = EventRest(S[n - 1], all[n]) /\ G[n] = G[n - 1] \o EventGot(S[n - 1], all[n])
  <2> HIDE DEF all, N, M
  <2> QED BY <1>1, <1>6 DEF EventsRead
<1> HIDE DEF all, N, M
<1> DEFINE P == {n \in Nat : n <= N => S[n] = SP[n] /\ G[n] = GP[n]}
           Stays(n) == S[N + n] = x.session /\ G[N + n] = x.got
           GoesOn(n) == S[N + n] = SQ[n] /\ G[N + n] = x.got \o GQ[n]
           D == {n \in Nat : n <= M => Stays(n)}
           Q == {n \in Nat : n <= M => GoesOn(n)}
<1>11. \A n \in Nat : n \in P
  <2>1. 0 \in P
    BY <1>9
  <2>2. ASSUME NEW n \in Nat, n \in P PROVE n + 1 \in P
    <3> SUFFICES ASSUME n + 1 <= N PROVE S[n + 1] = SP[n + 1] /\ G[n + 1] = GP[n + 1]
      OBVIOUS
    <3>1. n + 1 \in 1 .. N /\ n + 1 \in 1 .. N + M /\ (n + 1) - 1 = n
      BY <1>1
    <3>2. S[n] = SP[n] /\ G[n] = GP[n] /\ all[n + 1] = es[n + 1]
      BY <2>2, <3>1, <1>1, <1>2
    <3>3. IF Dropped(G[n]) THEN S[n + 1] = S[n] /\ G[n + 1] = G[n]
          ELSE S[n + 1] = EventRest(S[n], all[n + 1]) /\ G[n + 1] = G[n] \o EventGot(S[n], all[n + 1])
      BY <3>1, <1>10
    <3>4. IF Dropped(GP[n]) THEN SP[n + 1] = SP[n] /\ GP[n + 1] = GP[n]
          ELSE SP[n + 1] = EventRest(SP[n], es[n + 1]) /\ GP[n + 1] = GP[n] \o EventGot(SP[n], es[n + 1])
      BY <3>1, <1>9
    <3> HIDE DEF P
    <3> QED BY <3>2, <3>3, <3>4
  <2> HIDE DEF P
  <2> QED BY <2>1, <2>2, Rounds!Induction
<1>12. S[N] = x.session /\ G[N] = x.got
  <2>1. N \in P
    <3> HIDE DEF P
    <3> QED BY <1>1, <1>11
  <2> QED BY <2>1, <1>1, <1>8
<1>13. ASSUME NEW n \in Nat, n + 1 <= M
       PROVE  /\ N + (n + 1) = (N + n) + 1 /\ n \in 0 .. M /\ n <= M /\ n + 1 \in 1 .. M
              /\ fs[n + 1] \in Events
              /\ IF Dropped(G[N + n]) THEN S[(N + n) + 1] = S[N + n] /\ G[(N + n) + 1] = G[N + n]
                 ELSE /\ S[(N + n) + 1] = EventRest(S[N + n], fs[n + 1])
                      /\ G[(N + n) + 1] = G[N + n] \o EventGot(S[N + n], fs[n + 1])
  <2> DEFINE m == N + n
  <2>1. /\ m + 1 = N + (n + 1) /\ m + 1 \in 1 .. N + M /\ (m + 1) - 1 = m
        /\ n + 1 \in 1 .. M /\ n \in 0 .. M /\ n <= M
    BY <1>1, <1>13
  <2>2. all[m + 1] = fs[n + 1]
    BY <2>1, <1>2
  <2>3. fs[n + 1] \in Events
    BY <2>1, ElementOfSeq DEF M
  <2> HIDE DEF m
  <2>4. IF Dropped(G[m]) THEN S[m + 1] = S[m] /\ G[m + 1] = G[m]
        ELSE S[m + 1] = EventRest(S[m], fs[n + 1]) /\ G[m + 1] = G[m] \o EventGot(S[m], fs[n + 1])
    BY <2>1, <2>2, <1>10
  <2> QED BY <2>1, <2>3, <2>4 DEF m
<1>14. x = Acc(x.session, x.got)
  BY <1>3, <1>8
<1>15. CASE Dropped(x.got)
  <2>1. Stays(0)
    BY <1>1, <1>12
  <2>2. ASSUME NEW n \in Nat, n + 1 <= M, Stays(n) PROVE Stays(n + 1)
    <3> DEFINE m == N + n
    <3>1. N + (n + 1) = m + 1
      BY <1>1
    <3>2. IF Dropped(G[m]) THEN S[m + 1] = S[m] /\ G[m + 1] = G[m] ELSE TRUE
      BY <1>13, <2>2
    <3>3. S[m] = x.session /\ G[m] = x.got
      BY <2>2
    <3> HIDE DEF m
    <3>4. S[m + 1] = x.session /\ G[m + 1] = x.got
      BY <3>2, <3>3, <1>15
    <3> QED BY <3>1, <3>4
  <2>3. M \in D
    <3> HIDE DEF Stays
    <3>1. 0 \in D
      BY <2>1
    <3>2. ASSUME NEW n \in Nat, n \in D PROVE n + 1 \in D
      <4>1. M \in Nat
        BY <1>1
      <4>2. CASE n + 1 <= M
        <5>1. Stays(n)
          BY <3>2, <4>1, <4>2
        <5>2. Stays(n + 1)
          BY <5>1, <4>2, <2>2
        <5> QED BY <5>2
      <4>3. CASE ~(n + 1 <= M)
        BY <4>3
      <4> QED BY <4>2, <4>3
    <3> HIDE DEF D
    <3> QED BY <3>1, <3>2, <1>1, Rounds!Induction
  <2>4. Stays(M)
    <3> HIDE DEF Stays
    <3> QED BY <2>3, <1>1
  <2>5. S[N + M] = x.session /\ G[N + M] = x.got
    BY <2>4
  <2> HIDE DEF D, Stays
  <2> QED BY <2>5, <1>6, <1>14, <1>15 DEF EventsJoin, x, y, whole, all
<1>16. CASE ~Dropped(x.got)
  <2>1. GoesOn(0)
    <3>1. x.got \o <<>> = x.got /\ N + 0 = N
      BY <1>1, <1>4, ConcatEmptySeq
    <3> QED BY <3>1, <1>9, <1>12
  <2>2. ASSUME NEW n \in Nat, n + 1 <= M, GoesOn(n) PROVE GoesOn(n + 1)
    <3> DEFINE m == N + n
               u == EventGot(SQ[n], fs[n + 1])
    <3>1. N + (n + 1) = m + 1 /\ n \in 0 .. M /\ n + 1 \in 1 .. M /\ (n + 1) - 1 = n
      BY <1>1, <2>2
    <3>b. fs[n + 1] \in Events
      BY <1>13, <2>2
    <3>a. IF Dropped(G[m]) THEN S[m + 1] = S[m] /\ G[m + 1] = G[m]
          ELSE S[m + 1] = EventRest(S[m], fs[n + 1]) /\ G[m + 1] = G[m] \o EventGot(S[m], fs[n + 1])
      BY <1>13, <2>2
    <3>2. S[m] = SQ[n] /\ G[m] = x.got \o GQ[n]
      BY <2>2
    <3>3. IsSession(SQ[n]) /\ GQ[n] \in Seq(Readings)
      BY <3>1, <1>9
    <3>4. u \in Seq(Readings)
      BY <3>b, <3>3, EventType
    <3> HIDE DEF m, u
    <3>5. IF Dropped(GQ[n]) THEN SQ[n + 1] = SQ[n] /\ GQ[n + 1] = GQ[n]
          ELSE SQ[n + 1] = EventRest(SQ[n], fs[n + 1]) /\ GQ[n + 1] = GQ[n] \o u
      BY <3>1, <1>9 DEF u
    <3>6. Dropped(G[m]) <=> Dropped(GQ[n])
      BY <3>2, <3>3, <1>4, <1>16, DroppedLater
    <3>7. (x.got \o GQ[n]) \o u = x.got \o (GQ[n] \o u)
      <4>1. \A a, b, c \in Seq(Readings) : (a \o b) \o c = a \o (b \o c)
        BY ConcatAssociative, SMTT(40)
      <4> QED BY <4>1, <3>3, <3>4, <1>4
    <3> SUFFICES S[m + 1] = SQ[n + 1] /\ G[m + 1] = x.got \o GQ[n + 1]
      BY <3>1
    <3>8. CASE Dropped(GQ[n])
      BY <3>a, <3>2, <3>5, <3>6, <3>8
    <3>9. CASE ~Dropped(GQ[n])
      <4>1. EventRest(S[m], fs[n + 1]) = EventRest(SQ[n], fs[n + 1]) /\ EventGot(S[m], fs[n + 1]) = u
        BY <3>2 DEF u
      <4>2. G[m + 1] = G[m] \o u /\ S[m + 1] = EventRest(SQ[n], fs[n + 1])
        BY <3>a, <3>6, <3>9, <4>1
      <4>3. GQ[n + 1] = GQ[n] \o u /\ SQ[n + 1] = EventRest(SQ[n], fs[n + 1])
        BY <3>5, <3>9
      <4> QED BY <4>2, <4>3, <3>2, <3>7
    <3> QED BY <3>8, <3>9
  <2>3. M \in Q
    <3> HIDE DEF GoesOn
    <3>1. 0 \in Q
      BY <2>1
    <3>2. ASSUME NEW n \in Nat, n \in Q PROVE n + 1 \in Q
      <4>1. M \in Nat
        BY <1>1
      <4>2. CASE n + 1 <= M
        <5>1. GoesOn(n)
          BY <3>2, <4>1, <4>2
        <5>2. GoesOn(n + 1)
          BY <5>1, <4>2, <2>2
        <5> QED BY <5>2
      <4>3. CASE ~(n + 1 <= M)
        BY <4>3
      <4> QED BY <4>2, <4>3
    <3> HIDE DEF Q
    <3> QED BY <3>1, <3>2, <1>1, Rounds!Induction
  <2>4. GoesOn(M)
    <3> HIDE DEF GoesOn
    <3> QED BY <2>3, <1>1
  <2>5. S[N + M] = y.session /\ G[N + M] = x.got \o y.got
    BY <2>4, <1>8
  <2> HIDE DEF Q, GoesOn
  <2> QED BY <2>5, <1>6, <1>16 DEF EventsJoin, x, y, whole, all
<1> QED BY <1>15, <1>16


---------------------------------------------------------------------------
(* Calls of the reader.                                                    *)

\* Frames that were parsed are frames; there is no other error than a frame that is not all there.
LEMMA FrameItems ==
  ASSUME NEW p, WellParsed("frame", p)
  PROVE  /\ NoError(p.results) /\ Len(p.results) \in Nat
         /\ \A n \in 1 .. Len(p.results) : p.results[n].val \in Frames
<1>1. /\ Len(p.results) \in Nat /\ DOMAIN p.results = 1 .. Len(p.results)
      /\ \A n \in 1 .. Len(p.results) : p.results[n] \in Items("frame") /\ ~TooShort(p.results[n])
  BY LenProperties DEF WellParsed
<1>2. ASSUME NEW r \in Items("frame"), ~TooShort(r)
      PROVE  ~Failed(r) /\ r.val \in Frames
  <2>1. PICK b \in Seq(Nat) : r = DecodeTypeAndPayload(b)
    BY <1>2 DEF Items, DecodeNext, DecodeH3Frame
  <2>2. Read1(r, b, 1, Frames)
    BY <2>1, <1>2, FrameRead
  <2> QED BY <2>2 DEF Read1, Failed
<1> QED BY <1>1, <1>2 DEF NoError


\* The events of frames, and the place of those that are errors.
Ev(type, results) == [i \in DOMAIN results |-> FrameEvent(type, results[i].val)]
Bad(es) == {i \in DOMAIN es : Failed(es[i])}

LEMMA EvType ==
  ASSUME NEW type \in Framed, NEW p, WellParsed("frame", p)
  PROVE  /\ Ev(type, p.results) \in Seq(Events) /\ Len(Ev(type, p.results)) = Len(p.results)
         /\ Len(p.results) \in Nat
         /\ \A n \in 1 .. Len(p.results) :
              Ev(type, p.results)[n] = FrameEvent(type, p.results[n].val)
<1> DEFINE s == p.results
           g == Ev(type, s)
<1>1. Len(s) \in Nat /\ DOMAIN s = 1 .. Len(s) /\ \A n \in 1 .. Len(s) : s[n].val \in Frames
  BY FrameItems, LenProperties DEF WellParsed
<1> HIDE DEF s
<1>2. g = [i \in 1 .. Len(s) |-> FrameEvent(type, s[i].val)]
  BY <1>1 DEF Ev
<1>3. \A n \in 1 .. Len(s) : FrameEvent(type, s[n].val) \in Events
  BY <1>1 DEF Events
<1>4. g \in Seq(Events) /\ Len(g) = Len(s) /\ \A n \in 1 .. Len(s) : g[n] = FrameEvent(type, s[n].val)
  BY <1>1, <1>2, <1>3
<1> QED BY <1>1, <1>4 DEF s

\* The events of the frames of both pieces.
LEMMA EvConcat ==
  ASSUME NEW type \in Framed, NEW p, NEW q, NEW t, WellParsed("frame", p), WellParsed("frame", q),
         WellParsed("frame", t), t.results = p.results \o q.results
  PROVE  Ev(type, t.results) = Ev(type, p.results) \o Ev(type, q.results)
<1> DEFINE a == Ev(type, p.results)
           b == Ev(type, q.results)
           y == Ev(type, t.results)
           x == a \o b
           N == Len(p.results)
           M == Len(q.results)
<1>1. /\ N \in Nat /\ M \in Nat /\ Len(t.results) = N + M
      /\ \A i \in 1 .. N + M :
           t.results[i] = IF i <= N THEN p.results[i] ELSE q.results[i - N]
  <2> DEFINE u == p.results
             v == q.results
             w == t.results
  <2>1. u \in Seq(Items("frame")) /\ v \in Seq(Items("frame")) /\ w = u \o v
    BY DEF WellParsed
  <2> HIDE DEF u, v, w
  <2>2. /\ Len(u) \in Nat /\ Len(v) \in Nat /\ Len(w) = Len(u) + Len(v)
        /\ \A i \in 1 .. Len(u) + Len(v) : w[i] = IF i <= Len(u) THEN u[i] ELSE v[i - Len(u)]
    BY <2>1, ConcatProperties, LenProperties
  <2> QED BY <2>2 DEF u, v, w
<1>2. /\ a \in Seq(Events) /\ Len(a) = N
      /\ \A i \in 1 .. N : a[i] = FrameEvent(type, p.results[i].val)
  BY EvType
<1>3. /\ b \in Seq(Events) /\ Len(b) = M
      /\ \A i \in 1 .. M : b[i] = FrameEvent(type, q.results[i].val)
  BY EvType
<1>4. /\ y \in Seq(Events) /\ Len(y) = N + M
      /\ \A i \in 1 .. N + M : y[i] = FrameEvent(type, t.results[i].val)
  BY <1>1, EvType
<1> HIDE DEF a, b, y, N, M
<1>5. /\ x \in Seq(Events) /\ Len(x) = N + M
      /\ \A i \in 1 .. N + M : x[i] = IF i <= N THEN a[i] ELSE b[i - N]
  <2>1. x \in Seq(Events) /\ Len(x) = Len(a) + Len(b)
        /\ \A i \in 1 .. Len(a) + Len(b) : x[i] = IF i <= Len(a) THEN a[i] ELSE b[i - Len(a)]
    BY <1>2, <1>3, ConcatProperties
  <2> HIDE DEF x
  <2> QED BY <2>1, <1>2, <1>3
<1> HIDE DEF x
<1>6. ASSUME NEW i \in 1 .. Len(x) PROVE y[i] = x[i]
  <2>1. i \in 1 .. N + M
    BY <1>5
  <2>2. CASE i <= N
    <3>1. i \in 1 .. N
      BY <2>1, <2>2, <1>1
    <3> QED BY <2>1, <2>2, <3>1, <1>1, <1>2, <1>4, <1>5
  <2>3. CASE ~(i <= N)
    <3>1. i - N \in 1 .. M
      BY <2>1, <2>3, <1>1
    <3> QED BY <2>1, <2>3, <3>1, <1>1, <1>3, <1>4, <1>5
  <2> QED BY <2>2, <2>3
<1>7. y = x
  BY <1>4, <1>5, <1>6, SeqEqual
<1> QED BY <1>7 DEF y, x, a, b

\* An error is one of the first events or of the others.
LEMMA BadConcat ==
  ASSUME NEW es \in Seq(Events), NEW fs \in Seq(Events)
  PROVE  Bad(es \o fs) = {} <=> Bad(es) = {} /\ Bad(fs) = {}
<1> DEFINE x == es \o fs
           N == Len(es)
           M == Len(fs)
<1>1. /\ N \in Nat /\ M \in Nat /\ Len(x) = N + M /\ DOMAIN x = 1 .. N + M
      /\ DOMAIN es = 1 .. N /\ DOMAIN fs = 1 .. M
      /\ \A i \in 1 .. N + M : x[i] = IF i <= N THEN es[i] ELSE fs[i - N]
  BY ConcatProperties, LenProperties
<1>2. \A i \in 1 .. N : i \in 1 .. N + M /\ i <= N
  BY <1>1
<1>3. \A i \in 1 .. M : N + i \in 1 .. N + M /\ ~(N + i <= N) /\ (N + i) - N = i
  BY <1>1
<1>4. \A i \in 1 .. N + M : IF i <= N THEN i \in 1 .. N ELSE i - N \in 1 .. M
  BY <1>1
<1> HIDE DEF x, N, M
<1>5. (\E i \in 1 .. N + M : Failed(x[i]))
        <=> (\E i \in 1 .. N : Failed(es[i])) \/ (\E i \in 1 .. M : Failed(fs[i]))
  <2>1. \A i \in 1 .. N : x[i] = es[i]
    BY <1>1, <1>2
  <2>2. \A i \in 1 .. M : x[N + i] = fs[i]
    BY <1>1, <1>3
  <2> QED BY <2>1, <2>2, <1>1, <1>2, <1>3, <1>4
<1> QED BY <1>1, <1>5 DEF Bad, x

\* The first error is one, and what comes before it is events.
LEMMA FirstBad ==
  ASSUME NEW es \in Seq(Events), Bad(es) # {}
  PROVE  /\ Min(Bad(es)) \in DOMAIN es /\ Failed(es[Min(Bad(es))])
         /\ es[Min(Bad(es))] \in Readings
         /\ SubSeq(es, 1, Min(Bad(es)) - 1) \in Seq(Events)
<1> DEFINE I == Bad(es)
           m == Min(I)
<1>1. Len(es) \in Nat /\ DOMAIN es = 1 .. Len(es) /\ \A i \in 1 .. Len(es) : es[i] \in Events
  BY LenProperties
<1>2. m \in I
  <2>1. I \subseteq Nat /\ I # {}
    BY <1>1 DEF Bad
  <2> HIDE DEF I
  <2>2. \E x \in I : \A y \in I : x <= y
    BY <2>1, EventLoop!LeastElement
  <2> QED BY <2>2 DEF Min
<1> HIDE DEF m
<1>3. m \in 1 .. Len(es) /\ Failed(es[m])
  BY <1>1, <1>2 DEF Bad
<1>4. es[m] \in Readings
  BY <1>1, <1>3, EventRead
<1>5. SubSeq(es, 1, m - 1) \in Seq(Events)
  <2>1. m - 1 \in Int /\ 1 \in Int /\ \A i \in 1 .. m - 1 : i \in 1 .. Len(es)
    BY <1>1, <1>3
  <2>2. \A i \in 1 .. m - 1 : es[i] \in Events
    BY <2>1, <1>1
  <2> QED BY <2>1, <2>2, SubSeqProperties
<1> QED BY <1>1, <1>3, <1>4, <1>5 DEF m

\* A reader that keeps a buffer, "open" or "closed", and what it has read so far.
Rx(b, q, k, f) ==
  [buf |-> b, queue |-> q, session |-> k, stream |-> NewIncoming("Bidi"),
   classified |-> FALSE, app |-> <<>>, failed |-> f = "closed"]

State(b, q, k, f, g) == [rx |-> Rx(b, q, k, f), got |-> g]

\* A reader of which something is set.
WithBuf(r, c) == [r EXCEPT !.buf = c]
WithQueue(r, c) == [r EXCEPT !.queue = c]
WithSession(r, c) == [r EXCEPT !.queue = <<>>, !.session = c]
WithFailed(r, c) == [r EXCEPT !.failed = (c = "closed")]

\* Nothing else changes of it.
LEMMA RxExcept ==
  ASSUME NEW b, NEW q, NEW k, NEW f, NEW c
  PROVE  /\ WithBuf(Rx(b, q, k, f), c) = Rx(c, q, k, f)
         /\ WithQueue(Rx(b, q, k, f), c) = Rx(b, c, k, f)
         /\ WithSession(Rx(b, q, k, f), c) = Rx(b, <<>>, c, f)
         /\ WithFailed(Rx(b, q, k, f), c) = Rx(b, q, k, c)
<1> DEFINE s == NewIncoming("Bidi")
           no == FALSE
           x == f = "closed"
           y == c = "closed"
           none == <<>>
           r == [buf |-> b, queue |-> q, session |-> k, stream |-> s, classified |-> no,
                 app |-> none, failed |-> x]
<1> HIDE DEF s, no, x, y, none
<1>1. [r EXCEPT !.buf = c] = [buf |-> c, queue |-> q, session |-> k, stream |-> s,
                              classified |-> no, app |-> none, failed |-> x]
  OBVIOUS
<1>2. [r EXCEPT !.queue = c] = [buf |-> b, queue |-> c, session |-> k, stream |-> s,
                                classified |-> no, app |-> none, failed |-> x]
  OBVIOUS
<1>3. [r EXCEPT !.queue = none, !.session = c]
        = [buf |-> b, queue |-> none, session |-> c, stream |-> s, classified |-> no,
           app |-> none, failed |-> x]
  <2> DEFINE w == [r EXCEPT !.queue = none]
  <2>1. w = [buf |-> b, queue |-> none, session |-> k, stream |-> s, classified |-> no,
             app |-> none, failed |-> x]
    OBVIOUS
  <2>2. [r EXCEPT !.queue = none, !.session = c] = [w EXCEPT !.session = c]
    OBVIOUS
  <2> HIDE DEF w, r
  <2> QED BY <2>1, <2>2
<1>4. [r EXCEPT !.failed = y] = [buf |-> b, queue |-> q, session |-> k, stream |-> s,
                                 classified |-> no, app |-> none, failed |-> y]
  OBVIOUS
<1>5. WithBuf(Rx(b, q, k, f), c) = Rx(c, q, k, f)
  BY <1>1, Zenon DEF Rx, WithBuf, s, no, x, none
<1>6. WithQueue(Rx(b, q, k, f), c) = Rx(b, c, k, f)
  BY <1>2, Zenon DEF Rx, WithQueue, s, no, x, none
<1>7. WithSession(Rx(b, q, k, f), c) = Rx(b, <<>>, c, f)
  BY <1>3, Zenon DEF Rx, WithSession, s, no, x, none
<1>8. WithFailed(Rx(b, q, k, f), c) = Rx(b, q, k, c)
  BY <1>4, Zenon DEF Rx, WithFailed, s, no, x, y, none
<1> QED BY <1>5, <1>6, <1>7, <1>8

\* What was read ends the reader.
Ending(type, g) ==
  IF g # <<>> /\ Failed(Last(g)) /\ (type \in {"Control", "Uni", "Bidi"} \/ Last(g).err = "Panic")
  THEN "closed" ELSE "open"

LEMMA ClosedState ==
  ASSUME NEW type, NEW b, NEW q, NEW k, NEW f, NEW g
  PROVE  Closed(type, State(b, q, k, f, g)) = State(b, q, k, Ending(type, g), g)
<1> DEFINE r == Rx(b, q, k, f)
           new == State(b, q, k, f, g)
           failed == g # <<>> /\ Failed(Last(g))
                       /\ (type \in {"Control", "Uni", "Bidi"} \/ Last(g).err = "Panic")
           e == Ending(type, g)
<1>1. new = [rx |-> r, got |-> g]
  BY DEF State
<1>2. failed <=> (e = "closed")
  BY DEF Ending
<1>3. Closed(type, new) = [new EXCEPT !.rx = WithFailed(@, e)]
  <2>1. new.got = g /\ new.rx = r
    BY <1>1
  <2> HIDE DEF new, r
  <2>2. Closed(type, new) = [new EXCEPT !.rx = [@ EXCEPT !.failed = failed]]
    BY <2>1, Zenon DEF Closed
  <2> DEFINE y == e = "closed"
  <2>3. failed = y
    BY <1>2
  <2> HIDE DEF failed, e, y
  <2>4. Closed(type, new) = [new EXCEPT !.rx = [@ EXCEPT !.failed = y]]
    BY <2>2, <2>3
  <2> QED BY <2>4 DEF WithFailed, y
<1>4. WithFailed(r, e) = Rx(b, q, k, e)
  <2> HIDE DEF e
  <2> QED BY RxExcept DEF r
<1> HIDE DEF r, e
<1>5. [new EXCEPT !.rx = WithFailed(@, e)] = [rx |-> WithFailed(r, e), got |-> g]
  BY <1>1
<1> HIDE DEF new
<1>6. Closed(type, new) = [rx |-> Rx(b, q, k, e), got |-> g]
  BY <1>3, <1>4, <1>5
<1> QED BY <1>6 DEF new, e, State

\* What is read of bytes that arrive at once.
AtOnce(type, bytes) == Read(type, NewReader("Bidi"), bytes)

\* A reader that has read nothing.
LEMMA NewReaderRx == NewReader("Bidi") = Rx(<<>>, <<>>, NoSession, "open")
<1> DEFINE no == FALSE
           x == "open" = "closed"
<1>1. x = no
  OBVIOUS
<1> HIDE DEF no, x
<1> QED BY <1>1 DEF NewReader, Rx, no, x

ControlCalled(b, q, k, f, data) ==
  LET p == Parse("message", b \o data)
      g == Named("message", p.results)
  IN /\ WellParsed("message", p) /\ Readable(g) /\ (Over(g) <=> ~NoError(p.results))
     /\ Read("Control", Rx(b, q, k, f), data) = State(p.buf, q, k, Ending("Control", g), g)

\* One call of the reader of control messages.
LEMMA ControlCall ==
  ASSUME NEW b \in Seq(Nat), NEW q, NEW k, NEW f, NEW data \in Seq(Nat)
  PROVE  ControlCalled(b, q, k, f, data)
<1> DEFINE p == Parse("message", b \o data)
           g == Named("message", p.results)
           r == Rx(b, q, k, f)
<1>1. "message" \in Kinds
  BY DEF Kinds
<1>2. WellParsed("message", p)
  <2>1. b \o data \in Seq(Nat)
    BY ConcatProperties
  <2> QED BY <1>1, <2>1, ParseType
<1>3. Readable(g) /\ (Over(g) <=> ~NoError(p.results))
  <2> HIDE DEF p
  <2> QED BY <1>1, <1>2, NamedItems
<1>4. Read("Control", r, data) = Closed("Control", ReadControl(r, p))
  <2>1. Feed("message", r.buf, data) = p
    BY DEF Feed, Rx
  <2> HIDE DEF p, r
  <2> QED BY <2>1 DEF Read
<1>5. ReadControl(r, p) = State(p.buf, q, k, f, g)
  <2> HIDE DEF p
  <2>1. ReadControl(r, p) = [rx |-> WithBuf(r, p.buf), got |-> g]
    BY DEF ReadControl, Named, WithBuf
  <2>2. WithBuf(r, p.buf) = Rx(p.buf, q, k, f)
    BY RxExcept
  <2> QED BY <2>1, <2>2 DEF State
<1> HIDE DEF p, g
<1>6. Closed("Control", State(p.buf, q, k, f, g)) = State(p.buf, q, k, Ending("Control", g), g)
  BY ClosedState
<1> QED BY <1>2, <1>3, <1>4, <1>5, <1>6 DEF p, g, r, ControlCalled

\* What the events `es' make of a reader without an error, and with one.
Handled(type, b, q, k, es) ==
  LET h == HandleEvents(k, q \o es)
  IN State(b, <<>>, h.session, Ending(type, h.got), h.got)

Refused(type, b, q, k, es) ==
  LET g == <<es[Min(Bad(es))]>>
  IN State(b, q \o SubSeq(es, 1, Min(Bad(es)) - 1), k, Ending(type, g), g)

FramedCalled(type, b, q, k, f, data) ==
  LET p == Parse("frame", b \o data)
      es == Ev(type, p.results)
  IN /\ WellParsed("frame", p) /\ es \in Seq(Events)
     /\ Read(type, Rx(b, q, k, f), data) =
          IF Bad(es) = {} THEN Handled(type, p.buf, q, k, es) ELSE Refused(type, p.buf, q, k, es)

\* One call of a reader of frames.
LEMMA FramedCall ==
  ASSUME NEW type \in Framed, NEW b \in Seq(Nat), NEW q, NEW k, NEW f, NEW data \in Seq(Nat)
  PROVE  FramedCalled(type, b, q, k, f, data)
<1> DEFINE p == Parse("frame", b \o data)
           es == Ev(type, p.results)
           r == Rx(b, q, k, f)
           c == p.buf
<1>1. WellParsed("frame", p)
  <2>1. b \o data \in Seq(Nat) /\ "frame" \in Kinds
    BY ConcatProperties DEF Kinds
  <2> QED BY <2>1, ParseType
<1>2. Read(type, r, data) = Closed(type, ReadFrames(type, r, p))
  <2>1. Feed("frame", r.buf, data) = p
    BY DEF Feed, Rx
  <2>2. type # "Control" /\ type \in {"H3Control", "Session"} /\ type \notin {"Uni", "Bidi"}
    BY DEF Framed
  <2> HIDE DEF p, r
  <2> QED BY <2>1, <2>2 DEF Read
<1> HIDE DEF p
<1>3. es \in Seq(Events)
  BY <1>1, EvType
<1>4. ReadFrames(type, r, p) = TakeEvents(Rx(c, q, k, f), es)
  <2>1. ReadFrames(type, r, p) = TakeEvents(WithBuf(r, c), es)
    <3> HIDE DEF r
    <3> QED BY Zenon DEF ReadFrames, Ev, WithBuf
  <2>2. WithBuf(r, c) = Rx(c, q, k, f)
    <3> HIDE DEF c
    <3> QED BY RxExcept
  <2> HIDE DEF r, c, es
  <2> QED BY <2>1, <2>2
<1> HIDE DEF c, es, r
<1> DEFINE s == Rx(c, q, k, f)
<1>5. s.queue = q /\ s.session = k
  BY DEF Rx
<1>6. CASE Bad(es) = {}
  <2> DEFINE h == HandleEvents(k, q \o es)
             x == h.session
             g == h.got
  <2>1. TakeEvents(s, es) = Drained(s, h)
    <3> HIDE DEF s
    <3> QED BY <1>5, <1>6 DEF TakeEvents, Bad
  <2>2. Drained(s, h) = [rx |-> WithSession(s, x), got |-> g]
    <3> HIDE DEF s, h
    <3> QED BY DEF Drained, WithSession
  <2> HIDE DEF x, g
  <2>3. WithSession(s, x) = Rx(c, <<>>, x, f)
    BY RxExcept
  <2>4. Closed(type, State(c, <<>>, x, f, g)) = State(c, <<>>, x, Ending(type, g), g)
    BY ClosedState
  <2>5. Read(type, r, data) = State(c, <<>>, x, Ending(type, g), g)
    <3> HIDE DEF s, h
    <3> QED BY <1>2, <1>4, <2>1, <2>2, <2>3, <2>4 DEF State, s
  <2>6. Handled(type, c, q, k, es) = State(c, <<>>, x, Ending(type, g), g)
    BY DEF Handled, x, g
  <2> QED BY <2>5, <2>6, <1>1, <1>3, <1>6 DEF FramedCalled, p, es, r, c
<1>7. CASE Bad(es) # {}
  <2> DEFINE m == Min(Bad(es))
             y == q \o SubSeq(es, 1, m - 1)
             g == <<es[m]>>
  <2>1. TakeEvents(s, es) = [rx |-> WithQueue(s, y), got |-> g]
    <3>1. TakeEvents(s, es) = [rx |-> [s EXCEPT !.queue = @ \o SubSeq(es, 1, m - 1)], got |-> g]
      <4> HIDE DEF s
      <4> QED BY <1>7, Zenon DEF TakeEvents, Bad
    <3>2. [s EXCEPT !.queue = @ \o SubSeq(es, 1, m - 1)] = [s EXCEPT !.queue = y]
      <4> HIDE DEF s, m
      <4> QED BY <1>5
    <3> HIDE DEF s, m, y, g
    <3> QED BY <3>1, <3>2 DEF WithQueue
  <2> HIDE DEF y, g, m
  <2>3. WithQueue(s, y) = Rx(c, y, k, f)
    BY RxExcept
  <2>4. Closed(type, State(c, y, k, f, g)) = State(c, y, k, Ending(type, g), g)
    BY ClosedState
  <2>5. Read(type, r, data) = State(c, y, k, Ending(type, g), g)
    <3> HIDE DEF s
    <3> QED BY <1>2, <1>4, <2>1, <2>3, <2>4 DEF State, s
  <2>6. Refused(type, c, q, k, es) = State(c, y, k, Ending(type, g), g)
    BY DEF Refused, y, g, m
  <2> QED BY <2>5, <2>6, <1>1, <1>3, <1>7 DEF FramedCalled, p, es, r, c
<1> QED BY <1>6, <1>7

---------------------------------------------------------------------------
(* Control messages, in pieces.                                            *)

\* Reading `data' after `bytes' is reading both.
PiecesJoin(type, bytes, data) ==
  LET w == AtOnce(type, bytes)
      r == Read(type, w.rx, data)
  IN AtOnce(type, bytes \o data) = [rx |-> r.rx, got |-> w.got \o r.got]

\* The results of reading the pieces are those of reading all of it, if the first
\* piece did not close the reader.
LEMMA ControlInPieces ==
  ASSUME NEW bytes \in Seq(Nat), NEW data \in Seq(Nat), ~AtOnce("Control", bytes).rx.failed
  PROVE  PiecesJoin("Control", bytes, data)
<1> DEFINE all == bytes \o data
           none == <<>>
           k == NoSession
           p == Parse("message", bytes)
           g == Named("message", p.results)
           q == Parse("message", p.buf \o data)
           h == Named("message", q.results)
           t == Parse("message", all)
           a == Named("message", t.results)
           w == AtOnce("Control", bytes)
           r == Read("Control", w.rx, data)
<1> HIDE DEF k
<1>1. /\ none \in Seq(Nat) /\ all \in Seq(Nat)
      /\ none \o bytes = bytes /\ none \o all = all /\ "message" \in Kinds
  <2>1. all \in Seq(Nat) /\ "message" \in Kinds
    BY ConcatProperties DEF Kinds
  <2> HIDE DEF all
  <2> QED BY <2>1, ConcatEmptySeq
<1>0. NewReader("Bidi") = Rx(none, none, k, "open")
  BY NewReaderRx DEF k
<1> HIDE DEF none
<1>2. /\ WellParsed("message", p) /\ Readable(g) /\ (Over(g) <=> ~NoError(p.results))
      /\ w = State(p.buf, none, k, Ending("Control", g), g)
  <2>1. ControlCalled(none, none, k, "open", bytes)
    BY <1>1, ControlCall
  <2> QED BY <2>1, <1>0, <1>1 DEF ControlCalled, AtOnce
<1>3. /\ WellParsed("message", t)
      /\ AtOnce("Control", all) = State(t.buf, none, k, Ending("Control", a), a)
  <2>1. ControlCalled(none, none, k, "open", all)
    <3> HIDE DEF all
    <3> QED BY <1>1, ControlCall
  <2> QED BY <2>1, <1>0, <1>1 DEF ControlCalled, AtOnce
<1>4. ~Over(g) /\ NoError(p.results)
  <2>1. \A f : State(p.buf, none, k, f, g).rx.failed = (f = "closed")
    BY DEF State, Rx
  <2> HIDE DEF p, g, w
  <2>2. Ending("Control", g) # "closed"
    <3> DEFINE f == Ending("Control", g)
    <3> HIDE DEF f
    <3>1. w.rx.failed = (f = "closed")
      BY <1>2, <2>1 DEF f
    <3> QED BY <3>1 DEF w, f
  <2>3. ~Over(g)
    BY <2>2 DEF Ending, Over
  <2> QED BY <2>3, <1>2
<1> DEFINE e == Ending("Control", g)
<1>5. /\ WellParsed("message", q) /\ Readable(h)
      /\ r = State(q.buf, none, k, Ending("Control", h), h) /\ w.got = g
  <2> DEFINE b == p.buf
  <2>1. ControlCalled(b, none, k, e, data)
    <3>1. b \in Seq(Nat)
      BY <1>2 DEF WellParsed
    <3> HIDE DEF b, e
    <3> QED BY <3>1, ControlCall
  <2>2. w.rx = Rx(b, none, k, e) /\ w.got = g
    <3> HIDE DEF w, e, g, b
    <3>1. w = State(b, none, k, e, g)
      BY <1>2 DEF e, b
    <3> QED BY <3>1 DEF State
  <2> HIDE DEF w, e
  <2> QED BY <2>1, <2>2 DEF ControlCalled
<1>6. t = [buf |-> q.buf, results |-> p.results \o q.results]
  BY <1>1, <1>4, ParseConcat
<1> HIDE DEF p, q, t
<1>7. t.buf = q.buf /\ t.results = p.results \o q.results
  BY <1>6
<1>8. a = g \o h
  <2>1. p.results \in Seq(Items("message")) /\ q.results \in Seq(Items("message"))
    BY <1>2, <1>5 DEF WellParsed
  <2> QED BY <2>1, <1>1, <1>7, NamedConcat
<1> HIDE DEF g, h, a, w, r
<1>9. Ending("Control", a) = Ending("Control", h)
  <2>1. Over(a) <=> Over(h)
    BY <1>2, <1>4, <1>5, <1>8, JoinReadable
  <2> QED BY <2>1 DEF Ending, Over
<1> DEFINE f == Ending("Control", h)
<1> HIDE DEF f, e
<1>10. AtOnce("Control", all) = State(q.buf, none, k, f, g \o h)
  BY <1>3, <1>7, <1>8, <1>9 DEF f
<1>11. r.rx = Rx(q.buf, none, k, f) /\ r.got = h
  BY <1>5 DEF State, f
<1>12. AtOnce("Control", all) = [rx |-> r.rx, got |-> w.got \o r.got]
  <2> HIDE DEF all
  <2> QED BY <1>5, <1>10, <1>11 DEF State
<1> QED BY <1>12 DEF PiecesJoin, w, r

---------------------------------------------------------------------------
(* Frames, in pieces: the same up to the first error.                      *)

LEMMA SameItself == \A g : SameUntilError(g, g)
BY DEF SameUntilError

\* Nothing is said of what comes with an error that is the first result.
LEMMA ErrorFirst ==
  ASSUME NEW x, Failed(x), NEW g, ~Clean(g, Len(g))
  PROVE  SameUntilError(g, <<x>>)
<1> DEFINE w == <<x>>
<1>1. Len(w) = 1 /\ DOMAIN w = {1} /\ w[1] = x
  OBVIOUS
<1> HIDE DEF w
<1>2. ~Clean(w, 1)
  BY <1>1 DEF Clean
<1> QED BY <1>1, <1>2 DEF SameUntilError, w

\* An error stays where it is when more is read, and what came before it.
LEMMA CleanMore ==
  ASSUME NEW g \in Seq(Readings), NEW u \in Seq(Readings)
  PROVE  /\ Len(g) \in Nat /\ DOMAIN g = 1 .. Len(g)
         /\ \A i \in 1 .. Len(g) : (g \o u)[i] = g[i] /\ i \in 1 .. Len(g \o u) /\ i \in DOMAIN (g \o u)
         /\ \A i \in 1 .. Len(g) : Clean(g \o u, i) <=> Clean(g, i)
         /\ ~Clean(g, Len(g)) => ~Clean(g \o u, Len(g \o u))
         /\ DOMAIN (g \o u) = 1 .. Len(g \o u) /\ Len(g \o u) \in Nat
<1> DEFINE s == g \o u
           N == Len(g)
<1>1. /\ N \in Nat /\ Len(u) \in Nat /\ DOMAIN g = 1 .. N /\ Len(s) = N + Len(u)
      /\ DOMAIN s = 1 .. Len(s)
      /\ \A i \in 1 .. N + Len(u) : s[i] = IF i <= N THEN g[i] ELSE u[i - N]
  BY ConcatProperties, LenProperties
<1>2. \A i \in 1 .. N : i \in 1 .. N + Len(u) /\ i <= N
  BY <1>1
<1> HIDE DEF s, N
<1>3. \A i \in 1 .. N : s[i] = g[i] /\ i \in 1 .. Len(s) /\ i \in DOMAIN s
  BY <1>1, <1>2
<1>4. ASSUME NEW i \in 1 .. N PROVE Clean(s, i) <=> Clean(g, i)
  <2>1. \A j \in 1 .. i : j \in 1 .. N
    BY <1>1
  <2>2. \A j \in 1 .. i : s[j] = g[j]
    BY <2>1, <1>3
  <2> QED BY <2>2 DEF Clean
<1>5. ~Clean(g, N) => ~Clean(s, Len(s))
  <2>1. \A j \in 1 .. N : s[j] = g[j] /\ j \in 1 .. Len(s)
    BY <1>3
  <2> QED BY <2>1 DEF Clean
<1>6. Len(s) \in Nat
  BY <1>1
<1> QED BY <1>1, <1>3, <1>4, <1>5, <1>6 DEF s, N

\* An error that comes later is one, too.
LEMMA CleanLater ==
  ASSUME NEW g \in Seq(Readings), NEW u \in Seq(Readings), ~Clean(u, Len(u))
  PROVE  ~Clean(g \o u, Len(g \o u))
<1> DEFINE s == g \o u
           N == Len(g)
<1>1. /\ N \in Nat /\ Len(u) \in Nat /\ Len(s) = N + Len(u)
      /\ \A i \in 1 .. N + Len(u) : s[i] = IF i <= N THEN g[i] ELSE u[i - N]
  BY ConcatProperties, LenProperties
<1> HIDE DEF s, N
<1>2. \A i \in 1 .. Len(u) : N + i \in 1 .. N + Len(u) /\ ~(N + i <= N) /\ (N + i) - N = i
  BY <1>1
<1>3. \A i \in 1 .. Len(u) : N + i \in 1 .. Len(s) /\ s[N + i] = u[i]
  BY <1>1, <1>2
<1> QED BY <1>3 DEF Clean, s

\* Two readings that agree up to an error go on to do so.
LEMMA AgreeExtend ==
  ASSUME NEW g \in Seq(Readings), NEW w \in Seq(Readings), NEW u \in Seq(Readings),
         NEW t \in Seq(Readings), ~Clean(g, Len(g)), SameUntilError(g, w)
  PROVE  SameUntilError(g \o u, w \o t)
<1> DEFINE x == g \o u
           y == w \o t
<1>1. ~Clean(w, Len(w))
  BY DEF SameUntilError
<1>2. /\ Len(g) \in Nat /\ DOMAIN g = 1 .. Len(g) /\ ~Clean(x, Len(x))
      /\ DOMAIN x = 1 .. Len(x) /\ Len(x) \in Nat
      /\ \A i \in 1 .. Len(g) : x[i] = g[i] /\ (Clean(x, i) <=> Clean(g, i))
  BY CleanMore
<1>3. /\ Len(w) \in Nat /\ DOMAIN w = 1 .. Len(w) /\ ~Clean(y, Len(y))
      /\ DOMAIN y = 1 .. Len(y) /\ Len(y) \in Nat
      /\ \A i \in 1 .. Len(w) : y[i] = w[i] /\ (Clean(y, i) <=> Clean(w, i))
  BY <1>1, CleanMore
<1>4. ASSUME NEW v, NEW n \in Nat, NEW i \in Nat, n < i, Clean(v, i) PROVE Clean(v, n)
  <2>1. \A j \in 1 .. n : j \in 1 .. i
    BY <1>4
  <2> QED BY <2>1, <1>4 DEF Clean
<1> HIDE DEF x, y
<1>5. ASSUME NEW i \in DOMAIN x \cap DOMAIN y, Clean(x, i), Clean(y, i) PROVE x[i] = y[i]
  <2>1. i \in Nat /\ i >= 1
    BY <1>2
  <2>2. Len(g) # 0 /\ Len(w) # 0
    BY <1>1 DEF Clean
  <2>3. i <= Len(g)
    <3>1. CASE Len(g) < i
      <4>1. Len(g) \in 1 .. Len(g)
        BY <1>2, <2>2
      <4>2. Clean(x, Len(g))
        BY <3>1, <2>1, <1>2, <1>4, <1>5
      <4> QED BY <4>1, <4>2, <1>2
    <3> QED BY <3>1, <2>1, <1>2
  <2>4. i <= Len(w)
    <3>1. CASE Len(w) < i
      <4>1. Len(w) \in 1 .. Len(w)
        BY <1>3, <2>2
      <4>2. Clean(y, Len(w))
        BY <3>1, <2>1, <1>3, <1>4, <1>5
      <4> QED BY <4>1, <4>2, <1>1, <1>3
    <3> QED BY <3>1, <2>1, <1>3
  <2>5. i \in 1 .. Len(g) /\ i \in 1 .. Len(w)
    BY <2>1, <2>3, <2>4, <1>2, <1>3
  <2>6. g[i] = w[i]
    <3>1. i \in DOMAIN g \cap DOMAIN w /\ Clean(g, i) /\ Clean(w, i)
      BY <2>5, <1>2, <1>3, <1>5
    <3> QED BY <3>1 DEF SameUntilError
  <2> QED BY <2>5, <2>6, <1>2, <1>3
<1> QED BY <1>2, <1>3, <1>5 DEF SameUntilError, x, y

\* Without an error nothing was dropped.
LEMMA CleanKept ==
  ASSUME NEW g \in Seq(Readings), Clean(g, Len(g))
  PROVE  ~Dropped(g)
<1> SUFFICES ASSUME g # <<>> PROVE Last(g).kind # "data"
  BY DEF Dropped
<1>1. Len(g) \in 1 .. Len(g)
  BY LenProperties, EmptySeq
<1>2. g[Len(g)] \in Readings /\ ~Failed(g[Len(g)])
  BY <1>1, ElementOfSeq DEF Clean
<1> QED BY <1>2, ReadingKinds DEF Last

\* The events of all the bytes that arrived.
EventsOf(type, bytes) == Ev(type, Parse("frame", bytes).results)

\* What is read of the bytes at once.
LEMMA OnceFramed ==
  ASSUME NEW type \in Framed, NEW bytes \in Seq(Nat)
  PROVE  LET es == EventsOf(type, bytes)
             new == AtOnce(type, bytes)
         IN /\ WellParsed("frame", Parse("frame", bytes)) /\ es \in Seq(Events)
            /\ Bad(es) = {} => /\ new.got = HandleEvents(NoSession, es).got
                               /\ new.got \in Seq(Readings)
            /\ Bad(es) # {} => /\ new.got = <<es[Min(Bad(es))]>> /\ Failed(es[Min(Bad(es))])
                               /\ new.got \in Seq(Readings)
<1> DEFINE none == <<>>
           k == NoSession
           p == Parse("frame", bytes)
           es == Ev(type, p.results)
           new == AtOnce(type, bytes)
<1>1. none \in Seq(Nat) /\ none \o bytes = bytes
  BY ConcatEmptySeq
<1>2. NewReader("Bidi") = Rx(none, none, k, "open") /\ IsSession(k)
  BY NewReaderRx, NewSessions
<1> HIDE DEF none, k
<1>3. /\ WellParsed("frame", p) /\ es \in Seq(Events)
      /\ new = IF Bad(es) = {} THEN Handled(type, p.buf, none, k, es) ELSE Refused(type, p.buf, none, k, es)
  <2>1. FramedCalled(type, none, none, k, "open", bytes)
    BY <1>1, FramedCall
  <2> QED BY <2>1, <1>1, <1>2 DEF FramedCalled, AtOnce
<1> HIDE DEF p, es, new
<1>4. none \o es = es
  BY <1>3, ConcatEmptySeq DEF none
<1>5. CASE Bad(es) = {}
  <2>1. new.got = HandleEvents(k, es).got
    BY <1>3, <1>4, <1>5 DEF Handled, State
  <2>2. HandleEvents(k, es).got \in Seq(Readings)
    BY <1>2, <1>3, EventsHandled
  <2> QED BY <2>1, <2>2, <1>3, <1>5 DEF EventsOf, p, es, new, k
<1>6. CASE Bad(es) # {}
  <2> DEFINE m == Min(Bad(es))
  <2>1. Failed(es[m]) /\ es[m] \in Readings
    BY <1>3, <1>6, FirstBad
  <2>2. new.got = <<es[m]>>
    BY <1>3, <1>6 DEF Refused, State
  <2> HIDE DEF m
  <2>3. <<es[m]>> \in Seq(Readings)
    BY <2>1
  <2> QED BY <2>1, <2>2, <2>3, <1>3, <1>6 DEF EventsOf, p, es, new, m
<1> QED BY <1>5, <1>6

\* What a reader of frames has read of `bytes': without an error, all there is to be
\* read of them; with one, the same up to that.
NothingLost(es, k, g) ==
  Clean(g, Len(g)) /\ Bad(es) = {} /\ HandleEvents(NoSession, es) = Acc(k, g)

FramedSoFar(type, bytes, b, q, k, g) ==
  /\ b = Parse("frame", bytes).buf
  /\ q \in Seq(Events) /\ IsSession(k) /\ g \in Seq(Readings)
  /\ \/ q = <<>> /\ NothingLost(EventsOf(type, bytes), k, g)
     \/ ~Clean(g, Len(g)) /\ SameUntilError(g, AtOnce(type, bytes).got)

\* It is so at first,
LEMMA FramedFirst ==
  ASSUME NEW type \in Framed, Parse("frame", <<>>).buf = <<>>, Parse("frame", <<>>).results = <<>>
  PROVE  FramedSoFar(type, <<>>, <<>>, <<>>, NoSession, <<>>)
<1>1. <<>> \in Seq(Events) /\ <<>> \in Seq(Readings) /\ Len(<<>>) = 0
  OBVIOUS
<1>2. EventsOf(type, <<>>) = <<>>
  BY DEF EventsOf, Ev
<1>3. HandleEvents(NoSession, <<>>) = Acc(NoSession, <<>>)
  <2>1. Len(<<>>) \in Nat
    OBVIOUS
  <2>2. PICK handled : /\ handled[0] = Acc(NoSession, <<>>)
                       /\ HandleEvents(NoSession, <<>>) = handled[Len(<<>>)]
    BY <2>1, HandleLoop
  <2> QED BY <2>2, <1>1
<1>4. Bad(<<>>) = {} /\ Clean(<<>>, 0)
  BY DEF Bad, Clean
<1> QED BY <1>1, <1>2, <1>3, <1>4, NewSessions DEF FramedSoFar, NothingLost

\* after a call,
LEMMA FramedGoesOn ==
  ASSUME NEW type \in Framed, NEW bytes \in Seq(Nat), NEW data \in Seq(Nat), NEW b, NEW q,
         NEW k, NEW f, NEW g, FramedSoFar(type, bytes, b, q, k, g)
  PROVE  LET new == Read(type, Rx(b, q, k, f), data)
         IN \E c, r, l, e : /\ new = State(c, r, l, e, new.got)
                            /\ FramedSoFar(type, bytes \o data, c, r, l, g \o new.got)
<1> DEFINE all == bytes \o data
           p == Parse("frame", bytes)
           n == Parse("frame", b \o data)
           t == Parse("frame", all)
           es == EventsOf(type, bytes)
           fs == Ev(type, n.results)
           ts == EventsOf(type, all)
           c == n.buf
           new == Read(type, Rx(b, q, k, f), data)
           W == AtOnce(type, bytes).got
           V == AtOnce(type, all).got
<1>1. q \in Seq(Events) /\ IsSession(k) /\ g \in Seq(Readings) /\ b = p.buf
  BY DEF FramedSoFar
<1>2. all \in Seq(Nat)
  BY ConcatProperties
<1> HIDE DEF all
<1>3. /\ WellParsed("frame", p) /\ es \in Seq(Events) /\ W \in Seq(Readings)
      /\ Bad(es) = {} => W = HandleEvents(NoSession, es).got
      /\ Bad(es) # {} => W = <<es[Min(Bad(es))]>> /\ Failed(es[Min(Bad(es))])
  BY OnceFramed
<1>4. /\ WellParsed("frame", t) /\ ts \in Seq(Events) /\ V \in Seq(Readings)
      /\ Bad(ts) = {} => V = HandleEvents(NoSession, ts).got
      /\ Bad(ts) # {} => V = <<ts[Min(Bad(ts))]>> /\ Failed(ts[Min(Bad(ts))])
  BY <1>2, OnceFramed
<1>5. /\ WellParsed("frame", n) /\ fs \in Seq(Events)
      /\ new = IF Bad(fs) = {} THEN Handled(type, c, q, k, fs) ELSE Refused(type, c, q, k, fs)
  <2>1. b \in Seq(Nat)
    BY <1>1, <1>3 DEF WellParsed
  <2>2. FramedCalled(type, b, q, k, f, data)
    BY <2>1, FramedCall
  <2> QED BY <2>2 DEF FramedCalled
<1>6. t = [buf |-> n.buf, results |-> p.results \o n.results]
  <2>1. NoError(p.results) /\ "frame" \in Kinds
    BY <1>3, FrameItems DEF Kinds
  <2> QED BY <2>1, <1>1, ParseConcat DEF all
<1> HIDE DEF p, n, t
<1>7. ts = es \o fs /\ c = t.buf
  <2>1. t.results = p.results \o n.results /\ t.buf = n.buf
    BY <1>6
  <2>2. Ev(type, t.results) = Ev(type, p.results) \o Ev(type, n.results)
    BY <2>1, <1>3, <1>4, <1>5, EvConcat
  <2> QED BY <2>1, <2>2 DEF EventsOf, p, t
<1>8. Bad(ts) = {} <=> Bad(es) = {} /\ Bad(fs) = {}
  BY <1>3, <1>5, <1>7, BadConcat
<1> HIDE DEF es, fs, ts, c, new, W, V
<1>9. \E r, l, e : /\ new = State(c, r, l, e, new.got) /\ r \in Seq(Events) /\ IsSession(l)
                   /\ new.got \in Seq(Readings)
                   /\ Bad(fs) = {} => r = <<>> /\ HandleEvents(k, q \o fs) = Acc(l, new.got)
                   /\ Bad(fs) # {} => ~Clean(new.got, Len(new.got))
  <2>1. CASE Bad(fs) = {}
    <3> DEFINE h == HandleEvents(k, q \o fs)
               l == h.session
               u == h.got
               e == Ending(type, u)
    <3>1. q \o fs \in Seq(Events)
      BY <1>1, <1>5, ConcatProperties
    <3>2. h = Acc(l, u) /\ IsSession(l) /\ u \in Seq(Readings)
      BY <3>1, <1>1, EventsHandled
    <3>3. new = State(c, <<>>, l, e, u)
      BY <2>1, <1>5 DEF Handled
    <3> HIDE DEF l, u, e
    <3>4. new.got = u
      BY <3>3 DEF State
    <3>5. <<>> \in Seq(Events)
      OBVIOUS
    <3> HIDE DEF h
    <3> QED BY <2>1, <3>2, <3>3, <3>4, <3>5 DEF h
  <2>2. CASE Bad(fs) # {}
    <3> DEFINE m == Min(Bad(fs))
               u == <<fs[m]>>
               r == q \o SubSeq(fs, 1, m - 1)
               e == Ending(type, u)
    <3>1. Failed(fs[m]) /\ fs[m] \in Readings /\ SubSeq(fs, 1, m - 1) \in Seq(Events)
      BY <2>2, <1>5, FirstBad
    <3>2. new = State(c, r, k, e, u)
      BY <2>2, <1>5 DEF Refused
    <3>3. r \in Seq(Events)
      BY <3>1, <1>1, ConcatProperties
    <3> HIDE DEF m, r, e
    <3>4. u \in Seq(Readings) /\ ~Clean(u, Len(u))
      BY <3>1 DEF Clean
    <3> HIDE DEF u
    <3>5. new.got = u
      BY <3>2 DEF State
    <3> QED BY <2>2, <3>2, <3>3, <3>4, <3>5, <1>1
  <2> QED BY <2>1, <2>2
<1>10. PICK r, l, e : /\ new = State(c, r, l, e, new.got) /\ r \in Seq(Events) /\ IsSession(l)
                      /\ new.got \in Seq(Readings)
                      /\ Bad(fs) = {} => r = <<>> /\ HandleEvents(k, q \o fs) = Acc(l, new.got)
                      /\ Bad(fs) # {} => ~Clean(new.got, Len(new.got))
  BY <1>9
<1> DEFINE u == new.got
           x == g \o u
<1>11. x \in Seq(Readings)
  BY <1>1, <1>10, ConcatProperties
<1>12. \/ r = <<>> /\ NothingLost(ts, l, x)
       \/ ~Clean(x, Len(x)) /\ SameUntilError(x, V)
  <2>1. CASE ~Clean(g, Len(g))
    <3>1. SameUntilError(g, W)
      BY <2>1 DEF FramedSoFar, NothingLost, W
    <3>2. ~Clean(x, Len(x))
      <4> HIDE DEF u
      <4> QED BY <2>1, <1>1, <1>10, CleanMore DEF u
    <3>3. CASE Bad(ts) # {}
      BY <3>2, <3>3, <1>4, ErrorFirst
    <3>4. CASE Bad(ts) = {}
      <4> DEFINE a == HandleEvents(NoSession, es)
                 d == HandleEvents(a.session, fs)
                 v == HandleEvents(NoSession, ts)
      <4>1. W = a.got /\ V = v.got
        BY <3>4, <1>3, <1>4, <1>8
      <4>2. EventsJoin(a, d, v)
        BY <1>3, <1>5, <1>7, NewSessions, HandleConcat
      <4>3. d.got \in Seq(Readings)
        <5>1. IsSession(a.session)
          BY <1>3, NewSessions, EventsHandled
        <5> HIDE DEF a
        <5> QED BY <5>1, <1>5, EventsHandled
      <4> HIDE DEF a, d, v
      <4>4. V = W \/ V = W \o d.got
        <5>1. CASE Dropped(a.got)
          BY <4>1, <4>2, <5>1 DEF EventsJoin
        <5>2. CASE ~Dropped(a.got)
          <6>1. v = Acc(d.session, a.got \o d.got)
            BY <4>2, <5>2 DEF EventsJoin
          <6>2. v.got = a.got \o d.got
            BY <6>1 DEF Acc
          <6> QED BY <6>2, <4>1
        <5> QED BY <5>1, <5>2
      <4>5. W = W \o <<>> /\ <<>> \in Seq(Readings)
        BY <1>3, ConcatEmptySeq
      <4>6. PICK y \in Seq(Readings) : V = W \o y
        BY <4>3, <4>4, <4>5
      <4> HIDE DEF u
      <4>7. SameUntilError(x, V)
        BY <2>1, <3>1, <4>6, <1>1, <1>3, <1>10, AgreeExtend DEF u
      <4> QED BY <3>2, <4>7
    <3> QED BY <3>3, <3>4
  <2>2. CASE Clean(g, Len(g))
    <3>1. q = <<>> /\ Bad(es) = {} /\ HandleEvents(NoSession, es) = Acc(k, g)
      BY <2>2 DEF FramedSoFar, NothingLost, es
    <3>2. CASE Bad(fs) # {}
      <4>1. ~Clean(x, Len(x))
        <5> HIDE DEF u
        <5> QED BY <3>2, <1>1, <1>10, CleanLater DEF u
      <4> QED BY <4>1, <3>2, <1>4, <1>8, ErrorFirst
    <3>3. CASE Bad(fs) = {}
      <4> DEFINE a == HandleEvents(NoSession, es)
                 d == HandleEvents(a.session, fs)
                 v == HandleEvents(NoSession, ts)
      <4>1. V = v.got /\ Bad(ts) = {}
        BY <3>1, <3>3, <1>4, <1>8
      <4>2. EventsJoin(a, d, v)
        BY <1>3, <1>5, <1>7, NewSessions, HandleConcat
      <4>3. a.session = k /\ a.got = g
        BY <3>1 DEF Acc
      <4>4. r = <<>> /\ HandleEvents(k, fs) = Acc(l, u)
        <5>1. q \o fs = fs
          BY <3>1, <1>5, ConcatEmptySeq
        <5> QED BY <5>1, <3>3, <1>10
      <4> HIDE DEF v, a, u
      <4>5. d.session = l /\ d.got = u
        BY <4>3, <4>4 DEF Acc
      <4> HIDE DEF d
      <4>6. ~Dropped(g)
        BY <2>2, <1>1, CleanKept
      <4>7. v = Acc(l, x)
        BY <4>2, <4>3, <4>5, <4>6 DEF EventsJoin
      <4> HIDE DEF x
      <4>8. V = x
        BY <4>1, <4>7 DEF Acc
      <4> QED BY <4>1, <4>4, <4>7, <4>8, SameItself DEF NothingLost, v
    <3> QED BY <3>2, <3>3
  <2> QED BY <2>1, <2>2
<1>13. FramedSoFar(type, all, c, r, l, x)
  <2> HIDE DEF x
  <2> QED BY <1>7, <1>10, <1>11, <1>12 DEF FramedSoFar, ts, t, V
<1>14. new = State(c, r, l, e, new.got) /\ FramedSoFar(type, all, c, r, l, g \o new.got)
  BY <1>10, <1>13
<1> QED BY <1>14 DEF new, all

\* and whenever it is, the reader agrees with one that reads at once.
LEMMA FramedAgree ==
  ASSUME NEW type \in Framed, NEW bytes \in Seq(Nat), NEW b, NEW q, NEW k, NEW g,
         FramedSoFar(type, bytes, b, q, k, g)
  PROVE  SameUntilError(g, AtOnce(type, bytes).got)
<1> DEFINE es == EventsOf(type, bytes)
<1>1. CASE NothingLost(es, k, g)
  <2>1. Bad(es) = {} /\ HandleEvents(NoSession, es) = Acc(k, g)
    BY <1>1 DEF NothingLost
  <2>2. AtOnce(type, bytes).got = HandleEvents(NoSession, es).got
    BY <2>1, OnceFramed
  <2> HIDE DEF es
  <2>3. AtOnce(type, bytes).got = g
    BY <2>1, <2>2 DEF Acc
  <2> QED BY <2>3, SameItself
<1>2. CASE ~NothingLost(es, k, g)
  BY <1>2 DEF FramedSoFar
<1> QED BY <1>1, <1>2
---------------------------------------------------------------------------
(* Encoders give bytes.                                                    *)

\* What an encoder gives: bytes, or an error, which has none.
IsEncoding(r) == r.bytes \in Seq(Nat)

FlattenFirst(seqs) == seqs[1]
FlattenNext(seqs, acc, n) == acc \o seqs[n + 1]

Flattening == INSTANCE Recursion WITH First <- FlattenFirst, Step <- FlattenNext

\* Sequences of a set, one after the other, are a sequence of the set.
LEMMA FlattenType ==
  ASSUME NEW S, NEW s \in Seq(Seq(S))
  PROVE  FlattenSeq(s) \in Seq(S)
<1> DEFINE N == Len(s)
           Is(f) == f = [i \in 1 .. N |-> IF i = 1 THEN s[i] ELSE f[i - 1] \o s[i]]
<1>1. N \in Nat /\ DOMAIN s = 1 .. N /\ \A i \in 1 .. N : s[i] \in Seq(S)
  OBVIOUS
<1>2. CASE N = 0
  <2>1. FlattenSeq(s) = s /\ s = <<>>
    BY <1>2 DEF FlattenSeq
  <2> QED BY <2>1
<1>3. CASE N # 0
  <2>1. \E f : Is(f)
    <3> DEFINE M == N - 1
    <3>1. M \in Nat
      BY <1>1, <1>3
    <3>2. PICK g : g = [n \in 0 .. M |-> IF n = 0 THEN FlattenFirst(s) ELSE FlattenNext(s, g[n - 1], n)]
      <4> HIDE DEF M
      <4> QED BY <3>1, Flattening!LoopExists
    <3> DEFINE f == [i \in 1 .. N |-> g[i - 1]]
    <3>3. ASSUME NEW i \in 1 .. N
          PROVE  f[i] = IF i = 1 THEN s[i] ELSE f[i - 1] \o s[i]
      <4>1. CASE i = 1
        <5>1. 0 \in 0 .. M /\ f[i] = g[0]
          BY <4>1, <3>1
        <5>2. g[0] = FlattenFirst(s)
          <6> HIDE DEF M, f
          <6> QED BY <3>2, <5>1
        <5> QED BY <4>1, <5>1, <5>2 DEF FlattenFirst
      <4>2. CASE i # 1
        <5>1. i - 1 \in 0 .. M /\ i - 1 # 0 /\ i - 1 \in 1 .. N /\ f[i] = g[i - 1]
              /\ f[i - 1] = g[(i - 1) - 1] /\ (i - 1) + 1 = i
          BY <4>2, <1>1
        <5>2. g[i - 1] = FlattenNext(s, g[(i - 1) - 1], i - 1)
          <6> HIDE DEF M, f
          <6> QED BY <3>2, <5>1
        <5> HIDE DEF f
        <5> QED BY <4>2, <5>1, <5>2 DEF FlattenNext
      <4> QED BY <4>1, <4>2
    <3>4. Is(f)
      <4>1. f = [i \in 1 .. N |-> f[i]]
        OBVIOUS
      <4> HIDE DEF f
      <4> QED BY <4>1, <3>3
    <3> HIDE DEF f, Is
    <3> QED BY <3>4
  <2> DEFINE f == CHOOSE f : Is(f)
  <2>2. Is(f)
    BY <2>1
  <2>3. FlattenSeq(s) = f[N]
    BY <1>3 DEF FlattenSeq
  <2> HIDE DEF f
  <2> DEFINE T == {n \in Nat : n + 1 \in 1 .. N => f[n + 1] \in Seq(S)}
  <2>4. 0 \in T
    BY <2>2, <1>1
  <2>5. ASSUME NEW n \in Nat, n \in T PROVE n + 1 \in T
    <3> SUFFICES ASSUME (n + 1) + 1 \in 1 .. N PROVE f[(n + 1) + 1] \in Seq(S)
      OBVIOUS
    <3>1. n + 1 \in 1 .. N /\ ((n + 1) + 1) - 1 = n + 1 /\ (n + 1) + 1 # 1
      BY <1>1
    <3>2. f[n + 1] \in Seq(S) /\ s[(n + 1) + 1] \in Seq(S)
      BY <2>5, <3>1, <1>1
    <3>3. f[(n + 1) + 1] = f[n + 1] \o s[(n + 1) + 1]
      <4> HIDE DEF T
      <4> QED BY <2>2, <3>1
    <3> HIDE DEF T
    <3> QED BY <3>2, <3>3, ConcatProperties
  <2> HIDE DEF T
  <2>6. \A n \in Nat : n \in T
    BY <2>4, <2>5, Flattening!Induction
  <2>7. N - 1 \in Nat /\ (N - 1) + 1 = N /\ N \in 1 .. N
    BY <1>1, <1>3
  <2>8. N - 1 \in T
    BY <2>6, <2>7
  <2> HIDE DEF N
  <2> QED BY <2>3, <2>7, <2>8 DEF T
<1> QED BY <1>2, <1>3

\* Encoders one after the other.
LEMMA EncodeAllType ==
  ASSUME NEW n \in Nat, NEW results, DOMAIN results = 1 .. n, Len(results) = n,
         \A i \in 1 .. n : IsEncoding(results[i])
  PROVE  IsEncoding(EncodeAll(results))
<1>1. CASE \E i \in 1 .. n : Failed(results[i])
  <2> DEFINE I == {i \in 1 .. n : Failed(results[i])}
             first == CHOOSE x \in I : \A y \in I : x <= y
  <2>1. \E x \in I : \A y \in I : x <= y
    <3>1. I \subseteq Nat /\ I # {}
      BY <1>1
    <3> HIDE DEF I
    <3> QED BY <3>1, Flattening!LeastElement
  <2>2. first \in I
    <3> HIDE DEF I
    <3> QED BY <2>1
  <2>3. SelectInSeq(results, Failed) = first
    BY <1>1 DEF SelectInSeq, Min
  <2>4. EncodeAll(results) = results[first]
    <3> HIDE DEF first, I
    <3> QED BY <1>1, <2>3 DEF EncodeAll
  <2> QED BY <2>2, <2>4
<1>2. CASE ~\E i \in 1 .. n : Failed(results[i])
  <2> DEFINE s == [i \in 1 .. n |-> results[i].bytes]
  <2>1. s \in Seq(Seq(Nat))
    BY DEF IsEncoding
  <2>2. EncodeAll(results) = Bytes(FlattenSeq(s))
    BY <1>2 DEF EncodeAll
  <2>3. FlattenSeq(s) \in Seq(Nat)
    <3> HIDE DEF s
    <3> QED BY <2>1, FlattenType
  <2> HIDE DEF s
  <2> QED BY <2>2, <2>3 DEF Bytes, IsEncoding
<1> QED BY <1>1, <1>2

\* A varint has bytes.
LEMMA VarintBytesType ==
  ASSUME NEW v \in Nat
  PROVE  VarintBytes(v) \in Seq(Nat) /\ Len(VarintBytes(v)) = varint_len(v)
         /\ varint_len(v) \in {1, 2, 4, 8}
<1> DEFINE v2 == Down(v)
           v3 == Down(v2)
           v4 == Down(v3)
           v5 == Down(v4)
           v6 == Down(v5)
           v7 == Down(v6)
           v8 == Down(v7)
<1>1. \A x \in Nat : Down(x) \in Nat /\ Low(x) \in Nat
  <2> TAKE x \in Nat
  <2>1. Down(x) \in Nat /\ Low(x) \in 0 .. Base - 1
    BY DownUp
  <2> QED BY <2>1, BaseAssumption
<1>2. v2 \in Nat /\ v3 \in Nat /\ v4 \in Nat /\ v5 \in Nat /\ v6 \in Nat /\ v7 \in Nat /\ v8 \in Nat
  BY <1>1
<1>3. /\ Low(v) \in Nat /\ Low(v2) \in Nat /\ Low(v3) \in Nat /\ Low(v4) \in Nat
      /\ Low(v5) \in Nat /\ Low(v6) \in Nat /\ Low(v7) \in Nat
  <2> HIDE DEF v2, v3, v4, v5, v6, v7
  <2> QED BY <1>1, <1>2
<1>4. Quarter \in Nat
  BY LimitsGrow
<1>5. varint_len(v) \in {1, 2, 4, 8}
  BY DEF varint_len
<1>6. CASE varint_len(v) = 1
  BY <1>6 DEF VarintBytes
<1>7. CASE varint_len(v) = 2
  <2>1. VarintBytes(v) = <<Quarter + v2, Low(v)>>
    BY <1>7, VarintOfLength
  <2> HIDE DEF v2
  <2> QED BY <2>1, <1>2, <1>3, <1>4, <1>7
<1>8. CASE varint_len(v) = 4
  <2>1. VarintBytes(v) = <<2 * Quarter + v4, Low(v3), Low(v2), Low(v)>>
    BY <1>8, VarintOfLength
  <2> DEFINE a == 2 * Quarter + v4
  <2>2. a \in Nat
    BY <1>2, <1>4
  <2> HIDE DEF v2, v3, v4, a
  <2> QED BY <2>1, <2>2, <1>2, <1>3, <1>8 DEF a
<1>9. CASE varint_len(v) = 8
  <2>1. VarintBytes(v) = <<3 * Quarter + v8, Low(v7), Low(v6), Low(v5), Low(v4), Low(v3), Low(v2), Low(v)>>
    BY <1>9, VarintOfLength
  <2> DEFINE a == 3 * Quarter + v8
  <2>2. a \in Nat
    BY <1>2, <1>4
  <2> HIDE DEF v2, v3, v4, v5, v6, v7, v8, a
  <2>3. VarintBytes(v) = <<a, Low(v7), Low(v6), Low(v5), Low(v4), Low(v3), Low(v2), Low(v)>>
    BY <2>1 DEF a
  <2> QED BY <2>2, <2>3, <1>3, <1>9
<1> QED BY <1>5, <1>6, <1>7, <1>8, <1>9

\* A number.
LEMMA EncodeVarintType ==
  ASSUME NEW v \in Nat
  PROVE  IsEncoding(EncodeVarint(v)) /\ IsEncoding(write_varint(v))
BY VarintBytesType DEF IsEncoding, EncodeVarint, write_varint, Bytes, EncodeError

\* Bytes as they are.
LEMMA BytesType ==
  /\ \A s \in Seq(Nat) : IsEncoding(Bytes(s))
  /\ \A e : IsEncoding(EncodeError(e))
BY DEF IsEncoding, Bytes, EncodeError

\* Two encoders.
LEMMA EncodeTwoType ==
  ASSUME NEW r, NEW s, IsEncoding(r), IsEncoding(s)
  PROVE  IsEncoding(EncodeAll(<<r, s>>))
<1> DEFINE both == <<r, s>>
<1>1. DOMAIN both = 1 .. 2 /\ Len(both) = 2 /\ \A i \in 1 .. 2 : IsEncoding(both[i])
  <2>1. both[1] = r /\ both[2] = s
    OBVIOUS
  <2>2. \A i \in 1 .. 2 : i = 1 \/ i = 2
    OBVIOUS
  <2> HIDE DEF both
  <2>3. \A i \in 1 .. 2 : IsEncoding(both[i])
    BY <2>1, <2>2
  <2> QED BY <2>3 DEF both
<1> HIDE DEF both
<1>2. IsEncoding(EncodeAll(both))
  BY <1>1, EncodeAllType
<1> QED BY <1>2 DEF both

\* Three encoders.
LEMMA EncodeThreeType ==
  ASSUME NEW r, NEW s, NEW t, IsEncoding(r), IsEncoding(s), IsEncoding(t)
  PROVE  IsEncoding(EncodeAll(<<r, s, t>>))
<1> DEFINE all == <<r, s, t>>
<1>1. DOMAIN all = 1 .. 3 /\ Len(all) = 3 /\ \A i \in 1 .. 3 : IsEncoding(all[i])
  <2>1. all[1] = r /\ all[2] = s /\ all[3] = t
    OBVIOUS
  <2>2. \A i \in 1 .. 3 : i = 1 \/ i = 2 \/ i = 3
    OBVIOUS
  <2> HIDE DEF all
  <2>3. \A i \in 1 .. 3 : IsEncoding(all[i])
    BY <2>1, <2>2
  <2> QED BY <2>3 DEF all
<1> HIDE DEF all
<1>2. IsEncoding(EncodeAll(all))
  BY <1>1, EncodeAllType
<1> QED BY <1>2 DEF all

\* An encoder before a list of them.
LEMMA EncodeMoreType ==
  ASSUME NEW r, IsEncoding(r), NEW n \in Nat, NEW s, s = [i \in 1 .. n |-> s[i]],
         \A i \in 1 .. n : IsEncoding(s[i])
  PROVE  IsEncoding(EncodeAll(<<r>> \o s))
<1> DEFINE S == {r} \cup {s[i] : i \in 1 .. n}
           one == <<r>>
           all == one \o s
<1>1. s \in Seq(S) /\ Len(s) = n
  <2>1. \A i \in 1 .. n : s[i] \in S
    OBVIOUS
  <2> HIDE DEF S
  <2> QED BY <2>1
<1>2. one \in Seq(S) /\ Len(one) = 1 /\ one[1] = r
  <2>1. r \in S
    OBVIOUS
  <2> HIDE DEF S
  <2> QED BY <2>1
<1> HIDE DEF one
<1>3. /\ Len(all) = n + 1 /\ all \in Seq(S)
      /\ \A i \in 1 .. n + 1 : all[i] = IF i <= 1 THEN one[i] ELSE s[i - 1]
  <2> HIDE DEF S
  <2>1. /\ all \in Seq(S) /\ Len(all) = Len(one) + Len(s)
        /\ \A i \in 1 .. Len(one) + Len(s) : all[i] = IF i <= Len(one) THEN one[i] ELSE s[i - Len(one)]
    BY <1>1, <1>2, ConcatProperties
  <2>2. Len(one) = 1 /\ Len(s) = n /\ 1 + n = n + 1
    BY <1>1, <1>2
  <2> HIDE DEF all
  <2> QED BY <2>1, <2>2
<1>4. DOMAIN all = 1 .. n + 1
  BY <1>3, LenProperties
<1>5. ASSUME NEW i \in 1 .. n + 1 PROVE IsEncoding(all[i])
  <2> HIDE DEF all
  <2>1. CASE i <= 1
    <3>1. i = 1
      BY <2>1
    <3> QED BY <3>1, <1>2, <1>3
  <2>2. CASE ~(i <= 1)
    <3>1. i - 1 \in 1 .. n
      BY <2>2
    <3> QED BY <2>2, <3>1, <1>3
  <2> QED BY <2>1, <2>2
<1>6. n + 1 \in Nat
  OBVIOUS
<1> HIDE DEF all
<1>7. IsEncoding(EncodeAll(all))
  BY <1>3, <1>4, <1>5, <1>6, EncodeAllType
<1> QED BY <1>7 DEF all, one

\* Encoders in a row.
LEMMA EncodeEachType ==
  ASSUME NEW n \in Nat, NEW s, s = [i \in 1 .. n |-> s[i]], \A i \in 1 .. n : IsEncoding(s[i])
  PROVE  IsEncoding(EncodeAll(s))
<1>1. DOMAIN s = 1 .. n /\ Len(s) = n
  OBVIOUS
<1> QED BY <1>1, EncodeAllType

\* Bytes after their length (write_prefixed_bytes).
LEMMA PrefixedBytesType ==
  ASSUME NEW s \in Seq(Nat)
  PROVE  IsEncoding(write_prefixed_bytes(s))
BY LenProperties, EncodeVarintType, BytesType, EncodeTwoType DEF write_prefixed_bytes

\* Location.
LEMMA LocationType ==
  ASSUME NEW loc \in Locations
  PROVE  IsEncoding(EncodeLocation(loc))
BY EncodeVarintType, EncodeTwoType DEF EncodeLocation, Locations

\* TrackNamespace.
LEMMA NamespaceType ==
  ASSUME NEW fields \in Seq(Seq(Nat))
  PROVE  IsEncoding(EncodeNamespace(fields))
<1> DEFINE n == Len(fields)
           s == [i \in DOMAIN fields |-> write_prefixed_bytes(fields[i])]
<1>1. n \in Nat /\ DOMAIN fields = 1 .. n /\ \A i \in 1 .. n : fields[i] \in Seq(Nat)
  OBVIOUS
<1>2. \A i \in 1 .. n : IsEncoding(write_prefixed_bytes(fields[i]))
  BY <1>1, PrefixedBytesType
<1>3. s = [i \in 1 .. n |-> s[i]] /\ \A i \in 1 .. n : IsEncoding(s[i])
  BY <1>1, <1>2
<1>4. IsEncoding(write_varint(n))
  BY <1>1, EncodeVarintType
<1> HIDE DEF s, n
<1>5. IsEncoding(EncodeAll(<<write_varint(n)>> \o s))
  BY <1>1, <1>3, <1>4, EncodeMoreType
<1> QED BY <1>5 DEF EncodeNamespace, s, n

\* ReasonPhrase.
LEMMA ReasonType ==
  ASSUME NEW s \in Seq(Nat)
  PROVE  IsEncoding(EncodeReasonPhrase(s))
BY PrefixedBytesType, BytesType DEF EncodeReasonPhrase

\* SubscriptionFilter.
LEMMA FilterType ==
  ASSUME NEW filter \in Filters
  PROVE  IsEncoding(EncodeFilter(filter))
<1> DEFINE n == Len(filter.numbers)
           s == [i \in DOMAIN filter.numbers |-> write_varint(filter.numbers[i])]
<1>1. /\ n \in Nat /\ DOMAIN filter.numbers = 1 .. n /\ \A i \in 1 .. n : filter.numbers[i] \in Nat
      /\ filter.type \in Nat
  <2>1. filter.numbers \in Seq(Nat) /\ filter.type \in Nat
    BY DEF Filters
  <2> QED BY <2>1
<1>2. \A i \in 1 .. n : IsEncoding(write_varint(filter.numbers[i]))
  BY <1>1, EncodeVarintType
<1>3. s = [i \in 1 .. n |-> s[i]] /\ \A i \in 1 .. n : IsEncoding(s[i])
  BY <1>1, <1>2
<1>4. IsEncoding(write_varint(filter.type))
  BY <1>1, EncodeVarintType
<1> HIDE DEF s, n
<1>5. IsEncoding(EncodeAll(<<write_varint(filter.type)>> \o s))
  BY <1>1, <1>3, <1>4, EncodeMoreType
<1> QED BY <1>5 DEF EncodeFilter, s, n

\* KeyValuePair, its key as the difference to the previous one.
LEMMA PairType ==
  ASSUME NEW prev \in Nat, NEW pair \in Pairs
  PROVE  IsEncoding(EncodePair(prev, pair))
<1>1. pair.key \in Nat /\ pair.val \in Seq(Nat) /\ (pair.kind = "Varint" => pair.val[1] \in Nat)
  BY DEF Pairs
<1>2. CASE pair.key < prev
  BY <1>2, BytesType DEF EncodePair
<1>3. CASE ~(pair.key < prev)
  <2> DEFINE v == IF pair.kind = "Varint"
                  THEN IF pair.key % 2 # 0 THEN EncodeError("KeyValueFormattingError")
                       ELSE write_varint(pair.val[1])
                  ELSE IF pair.key % 2 # 1 \/ Len(pair.val) > MAX_KV_VALUE_BYTES
                       THEN EncodeError("KeyValueFormattingError")
                       ELSE write_prefixed_bytes(pair.val)
  <2>1. IsEncoding(v)
    BY <1>1, BytesType, EncodeVarintType, PrefixedBytesType
  <2>2. pair.key - prev \in Nat
    BY <1>1, <1>3
  <2>3. IsEncoding(write_varint(pair.key - prev))
    BY <2>2, EncodeVarintType
  <2>4. EncodePair(prev, pair) = EncodeAll(<<write_varint(pair.key - prev), v>>)
    BY <1>3 DEF EncodePair
  <2> HIDE DEF v
  <2> QED BY <2>1, <2>3, <2>4, EncodeTwoType
<1> QED BY <1>2, <1>3

\* The pairs one after the other (encode_key_value_pairs).
LEMMA PairsType ==
  ASSUME NEW pairs \in Seq(Pairs)
  PROVE  IsEncoding(EncodePairs(pairs))
<1> DEFINE n == Len(pairs)
           s == [i \in DOMAIN pairs |-> EncodePair(IF i = 1 THEN 0 ELSE pairs[i - 1].key, pairs[i])]
<1>1. n \in Nat /\ DOMAIN pairs = 1 .. n /\ \A i \in 1 .. n : pairs[i] \in Pairs
  OBVIOUS
<1>2. ASSUME NEW i \in 1 .. n
      PROVE  IsEncoding(EncodePair(IF i = 1 THEN 0 ELSE pairs[i - 1].key, pairs[i]))
  <2> DEFINE prev == IF i = 1 THEN 0 ELSE pairs[i - 1].key
  <2>1. prev \in Nat
    <3>1. CASE i = 1
      BY <3>1
    <3>2. CASE i # 1
      <4>1. i - 1 \in 1 .. n
        BY <3>2, <1>1
      <4>2. pairs[i - 1] \in Pairs
        BY <4>1, <1>1
      <4> QED BY <4>2, <3>2 DEF Pairs
    <3> QED BY <3>1, <3>2
  <2> HIDE DEF prev
  <2>2. IsEncoding(EncodePair(prev, pairs[i]))
    BY <2>1, <1>1, PairType
  <2> QED BY <2>2 DEF prev
<1>3. s = [i \in 1 .. n |-> s[i]] /\ \A i \in 1 .. n : IsEncoding(s[i])
  BY <1>1, <1>2
<1> HIDE DEF s, n
<1>4. IsEncoding(EncodeAll(s))
  BY <1>1, <1>3, EncodeEachType
<1> QED BY <1>4 DEF EncodePairs, s
---------------------------------------------------------------------------
(* Parameters.                                                             *)

SortFirst(pairs) == <<>>
SortNext(pairs, sorted, n) == InsertByKey(sorted, pairs[n])

Sorting == INSTANCE Recursion WITH First <- SortFirst, Step <- SortNext

\* A pair that is inserted.
LEMMA InsertType ==
  ASSUME NEW s \in Seq(Pairs), NEW pair \in Pairs
  PROVE  InsertByKey(s, pair) \in Seq(Pairs) /\ Len(InsertByKey(s, pair)) = Len(s) + 1
<1> DEFINE I == {i \in DOMAIN s : s[i].key <= pair.key}
           c == Cardinality(I)
           a == SubSeq(s, 1, c)
           b == SubSeq(s, c + 1, Len(s))
<1>1. Len(s) \in Nat /\ DOMAIN s = 1 .. Len(s) /\ \A i \in 1 .. Len(s) : s[i] \in Pairs
  OBVIOUS
<1>2. c \in 0 .. Len(s)
  <2> DEFINE n == Len(s)
             J == 1 .. n
  <2>1. IsFiniteSet(J) /\ Cardinality(J) = n
    <3>1. n \in Nat /\ n \in Int /\ 1 \in Int
      BY <1>1
    <3> HIDE DEF n
    <3>2. IsFiniteSet(1 .. n) /\ Cardinality(1 .. n) = IF 1 > n THEN 0 ELSE n - 1 + 1
      BY <3>1, FS_Interval
    <3> QED BY <3>1, <3>2
  <2>2. I \subseteq 1 .. Len(s)
    BY <1>1
  <2> HIDE DEF I
  <2>3. IsFiniteSet(I) /\ c <= Len(s)
    BY <2>1, <2>2, FS_Subset
  <2> QED BY <2>3, <1>1, FS_CardinalityType
<1> HIDE DEF c
<1>3. a \in Seq(Pairs) /\ b \in Seq(Pairs) /\ Len(a) = c /\ Len(b) = Len(s) - c
  <2>1. c \in Int /\ 1 \in Int /\ c + 1 \in Int /\ Len(s) \in Int /\ Len(s) \in Nat /\ c \in Nat
    BY <1>1, <1>2
  <2>2. (\A i \in 1 .. c : s[i] \in Pairs) /\ \A i \in c + 1 .. Len(s) : s[i] \in Pairs
    BY <1>1, <1>2
  <2>3. a \in Seq(Pairs) /\ Len(a) = IF 1 <= c THEN c - 1 + 1 ELSE 0
    BY <2>1, <2>2, SubSeqProperties
  <2>4. b \in Seq(Pairs) /\ Len(b) = IF c + 1 <= Len(s) THEN Len(s) - (c + 1) + 1 ELSE 0
    BY <2>1, <2>2, SubSeqProperties
  <2> DEFINE n == Len(s)
             x == Len(a)
             y == Len(b)
  <2>5. n \in Nat /\ c \in 0 .. n /\ x = (IF 1 <= c THEN c - 1 + 1 ELSE 0)
        /\ y = (IF c + 1 <= n THEN n - (c + 1) + 1 ELSE 0)
    BY <1>2, <2>1, <2>3, <2>4
  <2> HIDE DEF n, x, y, a, b
  <2>6. x = c /\ y = n - c
    BY <2>5
  <2> QED BY <2>3, <2>4, <2>6 DEF x, y, n
<1>4. InsertByKey(s, pair) = (a \o <<pair>>) \o b
  <2>1. (c + 1) - 1 = c
    BY <1>2
  <2>2. InsertAt(s, c + 1, pair) = SubSeq(s, 1, (c + 1) - 1) \o <<pair>> \o SubSeq(s, c + 1, Len(s))
    BY DEF InsertAt
  <2>3. InsertByKey(s, pair) = InsertAt(s, c + 1, pair)
    BY DEF InsertByKey, c
  <2> QED BY <2>1, <2>2, <2>3
<1>5. <<pair>> \in Seq(Pairs) /\ Len(<<pair>>) = 1
  OBVIOUS
<1> DEFINE m == <<pair>>
<1> HIDE DEF a, b, m
<1>6. a \o m \in Seq(Pairs) /\ Len(a \o m) = c + 1
  BY <1>3, <1>5, ConcatProperties DEF m
<1>7. (a \o m) \o b \in Seq(Pairs) /\ Len((a \o m) \o b) = (c + 1) + (Len(s) - c)
  BY <1>3, <1>6, ConcatProperties
<1> QED BY <1>1, <1>2, <1>4, <1>7 DEF m

\* The sort keeps the number of the pairs.
LEMMA SortedType ==
  ASSUME NEW pairs \in Seq(Pairs)
  PROVE  SortedByKey(pairs) \in Seq(Pairs) /\ Len(SortedByKey(pairs)) = Len(pairs)
<1> DEFINE N == Len(pairs)
           L(n) == Sorting!Loop(pairs, n)
           T == {n \in Nat : n <= N => L(n) \in Seq(Pairs) /\ Len(L(n)) = n}
<1>1. N \in Nat /\ \A i \in 1 .. N : pairs[i] \in Pairs
  OBVIOUS
<1>2. SortedByKey(pairs) = L(N)
  BY DEF SortedByKey, Sorting!Loop, SortFirst, SortNext
<1>3. 0 \in T
  <2>1. L(0) = <<>>
    BY Sorting!LoopZero DEF SortFirst
  <2> HIDE DEF L
  <2>2. <<>> \in Seq(Pairs) /\ Len(<<>>) = 0
    OBVIOUS
  <2>3. L(0) \in Seq(Pairs) /\ Len(L(0)) = 0
    BY <2>1, <2>2, Zenon
  <2> QED BY <2>3
<1>4. ASSUME NEW n \in Nat, n \in T PROVE n + 1 \in T
  <2> SUFFICES ASSUME n + 1 <= N PROVE L(n + 1) \in Seq(Pairs) /\ Len(L(n + 1)) = n + 1
    OBVIOUS
  <2>1. L(n) \in Seq(Pairs) /\ Len(L(n)) = n /\ n + 1 \in 1 .. N
    BY <1>1, <1>4
  <2>2. L(n + 1) = InsertByKey(L(n), pairs[n + 1])
    BY Sorting!LoopNext DEF SortNext
  <2> HIDE DEF L, T
  <2>3. pairs[n + 1] \in Pairs
    BY <2>1, <1>1
  <2> QED BY <2>1, <2>2, <2>3, InsertType
<1> HIDE DEF T
<1>5. \A n \in Nat : n \in T
  BY <1>3, <1>4, Sorting!Induction
<1>6. N \in T
  BY <1>1, <1>5
<1> QED BY <1>1, <1>2, <1>6 DEF T

\* Parameters, sorted before they are written.
LEMMA ParametersType ==
  ASSUME NEW params \in Seq(Pairs)
  PROVE  IsEncoding(EncodeParameters(params))
<1>1. Len(params) \in Nat
  OBVIOUS
<1>2. IsEncoding(EncodePairs(SortedByKey(params)))
  BY SortedType, PairsType
<1> QED BY <1>1, <1>2, EncodeVarintType, EncodeTwoType DEF EncodeParameters

SetFirst(c) == <<>>
SetNext(c, acc, n) == acc \o (IF c.params[n].key # c.pair.key THEN <<c.params[n]>> ELSE <<>>)

Retaining == INSTANCE Recursion WITH First <- SetFirst, Step <- SetNext

\* A setter gives parameters.
LEMMA SetPairType ==
  ASSUME NEW params \in Seq(Pairs), NEW pair \in Pairs
  PROVE  SetPair(params, pair) \in Seq(Pairs)
<1> DEFINE N == Len(params)
           c == [params |-> params, pair |-> pair]
           L(n) == Retaining!Loop(c, n)
           T == {n \in Nat : n <= N => L(n) \in Seq(Pairs)}
<1>1. N \in Nat /\ \A i \in 1 .. N : params[i] \in Pairs
  OBVIOUS
<1>2. SetPair(params, pair) = Append(L(N), pair)
  <2>1. c.params = params /\ c.pair = pair
    OBVIOUS
  <2> HIDE DEF c
  <2> QED BY <2>1 DEF SetPair, Retaining!Loop, SetFirst, SetNext
<1>3. 0 \in T
  <2>1. L(0) = <<>>
    BY Retaining!LoopZero DEF SetFirst
  <2> HIDE DEF L
  <2>2. <<>> \in Seq(Pairs)
    OBVIOUS
  <2>3. L(0) \in Seq(Pairs)
    BY <2>1, <2>2, Zenon
  <2> QED BY <2>3
<1>4. ASSUME NEW n \in Nat, n \in T PROVE n + 1 \in T
  <2> SUFFICES ASSUME n + 1 <= N PROVE L(n + 1) \in Seq(Pairs)
    OBVIOUS
  <2>1. L(n) \in Seq(Pairs) /\ n + 1 \in 1 .. N
    BY <1>1, <1>4
  <2> DEFINE more == IF params[n + 1].key # pair.key THEN <<params[n + 1]>> ELSE <<>>
  <2>2. L(n + 1) = L(n) \o more
    <3>1. L(n + 1) = SetNext(c, L(n), n + 1)
      BY Retaining!LoopNext
    <3>2. c.params = params /\ c.pair = pair
      OBVIOUS
    <3> HIDE DEF L, c, T
    <3> QED BY <3>1, <3>2 DEF SetNext
  <2>3. more \in Seq(Pairs)
    <3>1. params[n + 1] \in Pairs
      BY <2>1, <1>1
    <3> QED BY <3>1
  <2> HIDE DEF L, T, more, c
  <2> QED BY <2>1, <2>2, <2>3, ConcatProperties
<1> HIDE DEF T
<1>5. \A n \in Nat : n \in T
  BY <1>3, <1>4, Retaining!Induction
<1>6. L(N) \in Seq(Pairs)
  <2>1. N \in T
    BY <1>1, <1>5
  <2> QED BY <1>1, <2>1 DEF T
<1> HIDE DEF L
<1> QED BY <1>2, <1>6, AppendProperties

\* Every parameter a setter sets.
LEMMA SetterType ==
  ASSUME NEW params \in Seq(Pairs), NEW v
  PROVE  /\ set_forward(params, v) \in Seq(Pairs)
         /\ v \in Nat => /\ set_subscriber_priority(params, v) \in Seq(Pairs)
                         /\ set_delivery_timeout(params, v) \in Seq(Pairs)
                         /\ set_expires(params, v) \in Seq(Pairs)
         /\ v \in Filters => set_subscription_filter(params, v) \in Seq(Pairs)
         /\ v \in Locations => set_largest_object(params, v) \in Seq(Pairs)
<1>1. \A key, n \in Nat : Number(key, n) \in Pairs
  BY DEF Number, Pairs
<1>2. \A key \in Nat, s \in Seq(Nat) : String(key, s) \in Pairs
  BY DEF String, Pairs
<1>3. set_forward(params, v) \in Seq(Pairs)
  <2>1. (IF v THEN 1 ELSE 0) \in Nat /\ PARAM_FORWARD \in Nat
    BY DEF PARAM_FORWARD
  <2> QED BY <2>1, <1>1, SetPairType DEF set_forward
<1>4. ASSUME v \in Nat
      PROVE  /\ set_subscriber_priority(params, v) \in Seq(Pairs)
             /\ set_delivery_timeout(params, v) \in Seq(Pairs)
             /\ set_expires(params, v) \in Seq(Pairs)
  <2>1. PARAM_SUBSCRIBER_PRIORITY \in Nat /\ PARAM_DELIVERY_TIMEOUT \in Nat /\ PARAM_EXPIRES \in Nat
    BY DEF PARAM_SUBSCRIBER_PRIORITY, PARAM_DELIVERY_TIMEOUT, PARAM_EXPIRES
  <2> QED BY <2>1, <1>1, <1>4, SetPairType
          DEF set_subscriber_priority, set_delivery_timeout, set_expires
<1>5. ASSUME v \in Filters PROVE set_subscription_filter(params, v) \in Seq(Pairs)
  <2> DEFINE e == EncodeFilter(v)
  <2>1. PARAM_SUBSCRIPTION_FILTER \in Nat /\ e.bytes \in Seq(Nat)
    BY <1>5, FilterType DEF PARAM_SUBSCRIPTION_FILTER, IsEncoding
  <2>2. SetPair(params, String(PARAM_SUBSCRIPTION_FILTER, e.bytes)) \in Seq(Pairs)
    BY <2>1, <1>2, SetPairType
  <2> QED BY <2>2 DEF set_subscription_filter
<1>6. ASSUME v \in Locations PROVE set_largest_object(params, v) \in Seq(Pairs)
  <2> DEFINE e == EncodeLocation(v)
  <2>1. PARAM_LARGEST_OBJECT \in Nat /\ e.bytes \in Seq(Nat)
    BY <1>6, LocationType DEF PARAM_LARGEST_OBJECT, IsEncoding
  <2>2. SetPair(params, String(PARAM_LARGEST_OBJECT, e.bytes)) \in Seq(Pairs)
    BY <2>1, <1>2, SetPairType
  <2> QED BY <2>2 DEF set_largest_object
<1> QED BY <1>3, <1>4, <1>5, <1>6
---------------------------------------------------------------------------
(* Messages.                                                               *)

PlainKinds ==
  {"varint", "option", "flag", "bytes", "namespace", "prefix", "reason", "location", "params",
   "extensions"}

\* Every field of a message but those of a fetch.
LEMMA PlainType ==
  ASSUME NEW kind \in PlainKinds, NEW v \in FieldValues(kind)
  PROVE  IsEncoding(EncodePlain(kind, v))
<1>1. CASE kind \in {"varint", "option"}
  BY <1>1, EncodeVarintType DEF EncodePlain, FieldValues
<1>2. CASE kind = "flag"
  <2>1. <<IF v THEN 1 ELSE 0>> \in Seq(Nat)
    OBVIOUS
  <2>2. EncodePlain(kind, v) = Bytes(<<IF v THEN 1 ELSE 0>>)
    BY <1>2 DEF EncodePlain
  <2> QED BY <2>1, <2>2, BytesType
<1>3. CASE kind = "bytes"
  BY <1>3, PrefixedBytesType DEF EncodePlain, FieldValues
<1>4. CASE kind \in {"namespace", "prefix"}
  BY <1>4, NamespaceType DEF EncodePlain, FieldValues
<1>5. CASE kind = "reason"
  BY <1>5, ReasonType DEF EncodePlain, FieldValues
<1>6. CASE kind = "location"
  BY <1>6, LocationType DEF EncodePlain, FieldValues
<1>7. CASE kind = "params"
  BY <1>7, ParametersType DEF EncodePlain, FieldValues
<1>8. CASE kind = "extensions"
  BY <1>8, PairsType DEF EncodePlain, FieldValues
<1> QED BY <1>1, <1>2, <1>3, <1>4, <1>5, <1>6, <1>7, <1>8 DEF PlainKinds

\* The fields of a fetch.
LEMMA FetchType ==
  ASSUME NEW fetch, IsFetch(fetch)
  PROVE  IsEncoding(EncodeFetch(fetch))
<1> DEFINE kinds == FetchFields[fetch.type]
           n == Len(kinds)
           s == [i \in DOMAIN kinds |-> EncodePlain(kinds[i], fetch.fields[i])]
<1>1. fetch.type \in 1 .. 3 /\ FetchFields \in Seq(Seq(PlainKinds)) /\ Len(FetchFields) = 3
  <2>1. /\ <<"namespace", "bytes", "location", "location">> \in Seq(PlainKinds)
        /\ <<"varint", "varint">> \in Seq(PlainKinds)
    BY DEF PlainKinds
  <2>2. FetchFields \in Seq(Seq(PlainKinds)) /\ Len(FetchFields) = 3
    BY <2>1 DEF FetchFields
  <2>3. DOMAIN FetchFields = 1 .. 3
    BY <2>2, LenProperties
  <2> QED BY <2>2, <2>3 DEF IsFetch
<1>2. kinds \in Seq(PlainKinds) /\ fetch.type \in Nat
  <2>1. fetch.type \in 1 .. Len(FetchFields)
    BY <1>1
  <2>2. FetchFields[fetch.type] \in Seq(PlainKinds)
    BY <1>1, <2>1, ElementOfSeq
  <2> QED BY <1>1, <2>2
<1> HIDE DEF kinds
<1>3. n \in Nat /\ DOMAIN kinds = 1 .. n /\ \A i \in 1 .. n : kinds[i] \in PlainKinds
  BY <1>2
<1>4. \A i \in 1 .. n : fetch.fields[i] \in FieldValues(kinds[i])
  <2>1. \A i \in DOMAIN kinds : fetch.fields[i] \in FieldValues(kinds[i])
    BY DEF kinds, IsFetch
  <2> QED BY <2>1, <1>3
<1>5. \A i \in 1 .. n : IsEncoding(EncodePlain(kinds[i], fetch.fields[i]))
  BY <1>3, <1>4, PlainType
<1>6. s = [i \in 1 .. n |-> s[i]] /\ \A i \in 1 .. n : IsEncoding(s[i])
  BY <1>3, <1>5
<1>7. IsEncoding(write_varint(fetch.type))
  BY <1>2, EncodeVarintType
<1> HIDE DEF s, n
<1>8. IsEncoding(EncodeAll(<<write_varint(fetch.type)>> \o s))
  BY <1>3, <1>6, <1>7, EncodeMoreType
<1> QED BY <1>8 DEF EncodeFetch, s, kinds

AllKinds == PlainKinds \cup {"fetch"}

\* The lists of fields that messages have.
Written ==
  {<<"params">>, <<"bytes">>, <<"varint">>, <<"prefix">>, <<"varint", "params">>,
   <<"varint", "varint", "varint", "reason">>, <<"varint", "varint", "params">>,
   <<"varint", "namespace", "bytes", "params">>,
   <<"varint", "varint", "params", "extensions">>,
   <<"varint", "namespace", "bytes", "varint", "params", "extensions">>,
   <<"varint", "fetch", "params">>,
   <<"varint", "flag", "location", "params", "extensions">>,
   <<"varint", "namespace", "params">>, <<"varint", "varint", "reason">>,
   <<"varint", "prefix", "option", "params">>}

\* The fields of every message.
LEMMA WrittenType ==
  ASSUME NEW type \in MessageTypes
  PROVE  FieldsOf(type).written \in Seq(AllKinds)
<1>1. \A t \in DOMAIN SetupMessages : SetupMessages[t].written \in Written
  BY DEF SetupMessages, Fields, Written
<1>2. \A t \in DOMAIN SessionControlMessages : SessionControlMessages[t].written \in Written
  BY DEF SessionControlMessages, Fields, Written
<1>3. \A t \in DOMAIN RequestMessages : RequestMessages[t].written \in Written
  BY DEF RequestMessages, Fields, Written
<1>4. \A t \in DOMAIN SubscribeMessages : SubscribeMessages[t].written \in Written
  BY DEF SubscribeMessages, Fields, Written
<1>5. \A t \in DOMAIN PublishMessages : PublishMessages[t].written \in Written
  BY DEF PublishMessages, Fields, Written
<1>6. \A t \in DOMAIN FetchMessages : FetchMessages[t].written \in Written
  BY DEF FetchMessages, Fields, Written
<1>7. \A t \in DOMAIN NamespaceMessages : NamespaceMessages[t].written \in Written
  BY DEF NamespaceMessages, Fields, Written
<1>8. \/ type \in DOMAIN SetupMessages \/ type \in DOMAIN SessionControlMessages
      \/ type \in DOMAIN RequestMessages \/ type \in DOMAIN SubscribeMessages
      \/ type \in DOMAIN PublishMessages \/ type \in DOMAIN FetchMessages
      \/ type \in DOMAIN NamespaceMessages
  BY DEF MessageTypes, TypeCode, SetupMessages, SessionControlMessages, RequestMessages,
         SubscribeMessages, PublishMessages, FetchMessages, NamespaceMessages
<1>9. FieldsOf(type) \in {SetupMessages[t] : t \in DOMAIN SetupMessages}
        \cup {SessionControlMessages[t] : t \in DOMAIN SessionControlMessages}
        \cup {RequestMessages[t] : t \in DOMAIN RequestMessages}
        \cup {SubscribeMessages[t] : t \in DOMAIN SubscribeMessages}
        \cup {PublishMessages[t] : t \in DOMAIN PublishMessages}
        \cup {FetchMessages[t] : t \in DOMAIN FetchMessages}
        \cup {NamespaceMessages[t] : t \in DOMAIN NamespaceMessages}
  BY <1>8 DEF FieldsOf
<1>10. FieldsOf(type).written \in Written
  BY <1>1, <1>2, <1>3, <1>4, <1>5, <1>6, <1>7, <1>9
<1>11. Written \subseteq Seq(AllKinds)
  <2>1. /\ <<"params">> \in Seq(AllKinds) /\ <<"bytes">> \in Seq(AllKinds)
        /\ <<"varint">> \in Seq(AllKinds) /\ <<"prefix">> \in Seq(AllKinds)
        /\ <<"varint", "params">> \in Seq(AllKinds)
    BY DEF AllKinds, PlainKinds
  <2>2. /\ <<"varint", "varint", "varint", "reason">> \in Seq(AllKinds)
        /\ <<"varint", "varint", "params">> \in Seq(AllKinds)
    BY DEF AllKinds, PlainKinds
  <2>3. /\ <<"varint", "namespace", "bytes", "params">> \in Seq(AllKinds)
        /\ <<"varint", "varint", "params", "extensions">> \in Seq(AllKinds)
    BY DEF AllKinds, PlainKinds
  <2>4. <<"varint", "namespace", "bytes", "varint", "params", "extensions">> \in Seq(AllKinds)
    BY DEF AllKinds, PlainKinds
  <2>5. /\ <<"varint", "fetch", "params">> \in Seq(AllKinds)
        /\ <<"varint", "flag", "location", "params", "extensions">> \in Seq(AllKinds)
    BY DEF AllKinds, PlainKinds
  <2>6. /\ <<"varint", "namespace", "params">> \in Seq(AllKinds)
        /\ <<"varint", "varint", "reason">> \in Seq(AllKinds)
        /\ <<"varint", "prefix", "option", "params">> \in Seq(AllKinds)
    BY DEF AllKinds, PlainKinds
  <2> QED BY <2>1, <2>2, <2>3, <2>4, <2>5, <2>6, Zenon DEF Written
<1> QED BY <1>10, <1>11

\* The payload of a message.
LEMMA PayloadType ==
  ASSUME NEW msg, IsMessage(msg)
  PROVE  IsEncoding(EncodePayload(msg))
<1> DEFINE kinds == FieldsOf(msg.type).written
           n == Len(kinds)
           s == [i \in DOMAIN kinds |-> EncodeField(kinds[i], msg.fields[i])]
<1>1. kinds \in Seq(AllKinds)
  BY WrittenType DEF IsMessage
<1>2. \A i \in DOMAIN kinds : IF kinds[i] = "fetch" THEN IsFetch(msg.fields[i])
                              ELSE msg.fields[i] \in FieldValues(kinds[i])
  BY DEF IsMessage
<1>3. EncodePayload(msg) = EncodeAll(s)
  BY DEF EncodePayload, EncodeFields
<1> HIDE DEF kinds
<1>4. n \in Nat /\ DOMAIN kinds = 1 .. n /\ \A i \in 1 .. n : kinds[i] \in AllKinds
  BY <1>1
<1>5. ASSUME NEW i \in 1 .. n PROVE IsEncoding(EncodeField(kinds[i], msg.fields[i]))
  <2>1. CASE kinds[i] = "fetch"
    <3>1. IsFetch(msg.fields[i])
      BY <2>1, <1>2, <1>4
    <3> QED BY <2>1, <3>1, FetchType DEF EncodeField
  <2>2. CASE kinds[i] # "fetch"
    <3>1. msg.fields[i] \in FieldValues(kinds[i]) /\ kinds[i] \in PlainKinds
      BY <2>2, <1>2, <1>4 DEF AllKinds
    <3> QED BY <2>2, <3>1, PlainType DEF EncodeField
  <2> QED BY <2>1, <2>2
<1>6. s = [i \in 1 .. n |-> s[i]] /\ \A i \in 1 .. n : IsEncoding(s[i])
  BY <1>4, <1>5
<1> HIDE DEF s, n
<1> QED BY <1>3, <1>4, <1>6, EncodeEachType

\* A control message is written as bytes, or in part if it cannot be written.
LEMMA MessageType ==
  ASSUME NEW msg, IsMessage(msg)
  PROVE  IsEncoding(encode_control_message(msg, <<>>))
<1> DEFINE type == write_varint(TypeCode[msg.type]).bytes
           payload == EncodePayload(msg)
           error == IF Failed(payload) THEN payload.err
                    ELSE IF Len(payload.bytes) > U16_MAX THEN "MessageTooLong" ELSE "None"
           len == write_u16(Len(payload.bytes)).bytes
           no == <<>>
<1>1. type \in Seq(Nat)
  <2>1. TypeCode[msg.type] \in Nat
    BY DEF IsMessage, MessageTypes, TypeCode
  <2> QED BY <2>1, EncodeVarintType DEF IsEncoding
<1>2. payload.bytes \in Seq(Nat)
  BY PayloadType DEF IsEncoding
<1>3. len \in Seq(Nat)
  <2> DEFINE n == Len(payload.bytes)
  <2>1. n \in Nat
    BY <1>2
  <2>2. Down(n) \in Nat /\ Low(n) \in 0 .. Base - 1 /\ Base \in Nat
    <3> HIDE DEF n
    <3> QED BY <2>1, DownUp, BaseAssumption
  <2>3. write_u16(n).bytes = <<Down(n), Low(n)>>
    BY DEF write_u16, Bytes
  <2> HIDE DEF n
  <2>4. <<Down(n), Low(n)>> \in Seq(Nat)
    BY <2>2
  <2> QED BY <2>3, <2>4 DEF n
<1>4. encode_control_message(msg, no) =
        IF error # "None" THEN [err |-> error, bytes |-> no \o type]
        ELSE Bytes(no \o type \o len \o payload.bytes)
  BY DEF encode_control_message
<1>5. no \in Seq(Nat)
  OBVIOUS
<1> HIDE DEF type, payload, len, error, no
<1>6. no \o type \in Seq(Nat)
  BY <1>1, <1>5, ConcatProperties
<1>7. no \o type \o len \in Seq(Nat)
  BY <1>3, <1>6, ConcatProperties
<1>8. no \o type \o len \o payload.bytes \in Seq(Nat)
  BY <1>2, <1>7, ConcatProperties
<1>9. IsEncoding(encode_control_message(msg, no))
  BY <1>4, <1>6, <1>8 DEF IsEncoding, Bytes
<1> QED BY <1>9 DEF no
---------------------------------------------------------------------------
(* Frames, capsules and stream headers.                                    *)

\* A frame of the HTTP/3 layer.
LEMMA FrameType ==
  ASSUME NEW type \in Nat, NEW payload \in Seq(Nat)
  PROVE  IsEncoding(EncodeH3Frame([frame_type |-> type, payload |-> payload]))
<1>1. Len(payload) \in Nat
  OBVIOUS
<1>2. EncodeH3Frame([frame_type |-> type, payload |-> payload]) =
        EncodeAll(<<EncodeVarint(type), EncodeVarint(Len(payload)), Bytes(payload)>>)
  BY DEF EncodeH3Frame
<1> QED BY <1>1, <1>2, EncodeVarintType, BytesType, EncodeThreeType

\* The numbers frames, capsules, settings and streams are known by.
LEMMA CodePointsType ==
  /\ \A f \in DOMAIN FRAME_TYPE : FRAME_TYPE[f] \in Nat
  /\ FRAME_TYPE.DATA \in Nat /\ FRAME_TYPE.HEADERS \in Nat /\ FRAME_TYPE.SETTINGS \in Nat
  /\ FRAME_TYPE.GOAWAY \in Nat
  /\ \A c \in CapsuleNames : CAPSULE_TYPE[c] \in Nat
  /\ \A s \in {"WT_MAX_SESSIONS", "ENABLE_CONNECT_PROTOCOL", "QPACK_MAX_TABLE_CAPACITY",
               "QPACK_BLOCKED_STREAMS", "H3_DATAGRAM", "WT_INITIAL_MAX_STREAMS_UNI",
               "WT_INITIAL_MAX_STREAMS_BIDI", "WT_INITIAL_MAX_DATA"} : SETTING_ID[s] \in Nat
<1>1. 0 .. MAX_VARINT \subseteq Nat
  OBVIOUS
<1> QED BY <1>1, CodePoints DEF CapsuleNames

\* A capsule.
LEMMA CapsuleType ==
  ASSUME NEW capsule, IsCapsule(capsule)
  PROVE  IsEncoding(EncodeCapsule(capsule))
<1> DEFINE payload == EncodeCapsulePayload(capsule)
           n == capsule.args[1]
<1>1. IsEncoding(payload)
  <2>1. CASE capsule.type = "CLOSE_SESSION"
    <3>1. n \in Nat /\ capsule.args[2] \in Seq(Nat)
      BY <2>1 DEF IsCapsule
    <3> HIDE DEF n
    <3>2. \A x \in Nat : Down(x) \in Nat /\ Low(x) \in Nat
      <4> TAKE x \in Nat
      <4>1. Down(x) \in Nat /\ Low(x) \in 0 .. Base - 1
        BY DownUp
      <4> QED BY <4>1, BaseAssumption
    <3> DEFINE u2 == Down(n)
               u3 == Down(u2)
               u4 == Down(u3)
    <3>3. u2 \in Nat /\ u3 \in Nat /\ u4 \in Nat
      BY <3>1, <3>2
    <3> HIDE DEF u2, u3
    <3>4. Low(u3) \in Nat /\ Low(u2) \in Nat /\ Low(n) \in Nat
      BY <3>1, <3>2, <3>3
    <3> HIDE DEF u4
    <3>5. <<u4, Low(u3), Low(u2), Low(n)>> \in Seq(Nat)
      BY <3>3, <3>4
    <3>6. write_u32(n) \in Seq(Nat)
      BY <3>5 DEF write_u32, u4, u3, u2
    <3>7. write_u32(n) \o capsule.args[2] \in Seq(Nat)
      BY <3>1, <3>6, ConcatProperties
    <3> QED BY <2>1, <3>7, BytesType DEF EncodeCapsulePayload, n
  <2>2. CASE capsule.type = "DRAIN_SESSION"
    <3>1. payload = Bytes(<<>>)
      BY <2>2 DEF EncodeCapsulePayload
    <3>2. <<>> \in Seq(Nat)
      OBVIOUS
    <3> QED BY <3>1, <3>2, BytesType
  <2>3. CASE capsule.type # "CLOSE_SESSION" /\ capsule.type # "DRAIN_SESSION"
    <3>1. payload = EncodeVarint(n) /\ n \in Nat
      BY <2>3 DEF EncodeCapsulePayload, IsCapsule
    <3> QED BY <3>1, EncodeVarintType
  <2> QED BY <2>1, <2>2, <2>3
<1>2. CASE Failed(payload)
  <2>1. EncodeCapsule(capsule) = payload
    BY <1>2 DEF EncodeCapsule, Then
  <2> QED BY <2>1, <1>1
<1>3. CASE ~Failed(payload)
  <2>1. EncodeCapsule(capsule) =
          EncodeH3Frame([frame_type |-> CAPSULE_TYPE[capsule.type], payload |-> payload.bytes])
    BY <1>3 DEF EncodeCapsule, Then
  <2>2. CAPSULE_TYPE[capsule.type] \in Nat
    BY CodePointsType DEF IsCapsule
  <2>3. payload.bytes \in Seq(Nat)
    BY <1>1 DEF IsEncoding
  <2> HIDE DEF payload
  <2> QED BY <2>1, <2>2, <2>3, FrameType
<1> QED BY <1>2, <1>3

\* A list of settings.
LEMMA SettingsListType ==
  ASSUME NEW config \in ConfigValues
  PROVE  h3_settings(config) \in Seq(Nat \X Nat)
<1> DEFINE S == Nat \X Nat
           Optional(name, v) == IF v > 0 THEN <<<<SETTING_ID[name], v>>>> ELSE <<>>
           always == <<<<SETTING_ID.WT_MAX_SESSIONS, config.max_sessions>>,
                       <<SETTING_ID.ENABLE_CONNECT_PROTOCOL, 1>>,
                       <<SETTING_ID.QPACK_MAX_TABLE_CAPACITY, 0>>,
                       <<SETTING_ID.QPACK_BLOCKED_STREAMS, 0>>>>
           o1 == Optional("H3_DATAGRAM", IF config.enable_datagrams THEN 1 ELSE 0)
           o2 == Optional("WT_INITIAL_MAX_STREAMS_UNI", config.initial_max_streams_uni)
           o3 == Optional("WT_INITIAL_MAX_STREAMS_BIDI", config.initial_max_streams_bidi)
           o4 == Optional("WT_INITIAL_MAX_DATA", config.initial_max_data)
<1>1. /\ config.max_sessions \in Nat /\ config.initial_max_streams_uni \in Nat
      /\ config.initial_max_streams_bidi \in Nat /\ config.initial_max_data \in Nat
  BY DEF ConfigValues
<1>2. always \in Seq(S)
  <2>1. /\ <<SETTING_ID.WT_MAX_SESSIONS, config.max_sessions>> \in S
        /\ <<SETTING_ID.ENABLE_CONNECT_PROTOCOL, 1>> \in S
        /\ <<SETTING_ID.QPACK_MAX_TABLE_CAPACITY, 0>> \in S
        /\ <<SETTING_ID.QPACK_BLOCKED_STREAMS, 0>> \in S
    BY <1>1, CodePointsType
  <2> HIDE DEF S
  <2> QED BY <2>1
<1>3. ASSUME NEW name, SETTING_ID[name] \in Nat, NEW v \in Nat
      PROVE  Optional(name, v) \in Seq(S)
  <2>1. <<SETTING_ID[name], v>> \in S
    BY <1>3
  <2> HIDE DEF S
  <2>2. <<<<SETTING_ID[name], v>>>> \in Seq(S) /\ <<>> \in Seq(S)
    BY <2>1
  <2> QED BY <2>2
<1>4. o1 \in Seq(S) /\ o2 \in Seq(S) /\ o3 \in Seq(S) /\ o4 \in Seq(S)
  <2>1. (IF config.enable_datagrams THEN 1 ELSE 0) \in Nat
    OBVIOUS
  <2>2. /\ SETTING_ID["H3_DATAGRAM"] \in Nat /\ SETTING_ID["WT_INITIAL_MAX_STREAMS_UNI"] \in Nat
        /\ SETTING_ID["WT_INITIAL_MAX_STREAMS_BIDI"] \in Nat
        /\ SETTING_ID["WT_INITIAL_MAX_DATA"] \in Nat
    BY CodePointsType
  <2> HIDE DEF Optional, S
  <2> QED BY <2>1, <2>2, <1>1, <1>3
<1>5. h3_settings(config) = always \o o1 \o o2 \o o3 \o o4
  BY DEF h3_settings
<1> HIDE DEF S, Optional, always, o1, o2, o3, o4
<1>6. always \o o1 \in Seq(S)
  BY <1>2, <1>4, ConcatProperties
<1>7. always \o o1 \o o2 \in Seq(S)
  BY <1>4, <1>6, ConcatProperties
<1>8. always \o o1 \o o2 \o o3 \in Seq(S)
  BY <1>4, <1>7, ConcatProperties
<1>9. always \o o1 \o o2 \o o3 \o o4 \in Seq(S)
  BY <1>4, <1>8, ConcatProperties
<1> QED BY <1>5, <1>9 DEF S

\* SETTINGS.
LEMMA SettingsType ==
  ASSUME NEW settings \in Seq(Nat \X Nat)
  PROVE  IsEncoding(encode_settings(settings))
<1> DEFINE n == 2 * Len(settings)
           s == [i \in 1 .. n |-> EncodeVarint(settings[(i + 1) \div 2][IF i % 2 = 1 THEN 1 ELSE 2])]
           payload == EncodeAll(s)
<1>1. Len(settings) \in Nat /\ n \in Nat
  OBVIOUS
<1>2. ASSUME NEW i \in 1 .. n PROVE IsEncoding(s[i])
  <2>1. (i + 1) \div 2 \in 1 .. Len(settings)
    BY <1>1
  <2>2. settings[(i + 1) \div 2] \in Nat \X Nat
    BY <2>1
  <2> DEFINE e == settings[(i + 1) \div 2]
             v == e[IF i % 2 = 1 THEN 1 ELSE 2]
  <2>3. e[1] \in Nat /\ e[2] \in Nat
    <3> HIDE DEF n, s
    <3> QED BY <2>2
  <2>4. v \in Nat
    <3> HIDE DEF e
    <3> QED BY <2>3
  <2>5. s[i] = EncodeVarint(v)
    OBVIOUS
  <2> HIDE DEF v, s
  <2> QED BY <2>4, <2>5, EncodeVarintType
<1>3. s = [i \in 1 .. n |-> s[i]]
  OBVIOUS
<1> HIDE DEF n, s
<1>4. IsEncoding(payload)
  BY <1>1, <1>2, <1>3, EncodeEachType
<1>5. encode_settings(settings) =
        IF Failed(payload) THEN payload
        ELSE EncodeH3Frame([frame_type |-> FRAME_TYPE.SETTINGS, payload |-> payload.bytes])
  BY DEF encode_settings, n, s
<1>6. payload.bytes \in Seq(Nat)
  BY <1>4 DEF IsEncoding
<1> HIDE DEF payload
<1> QED BY <1>4, <1>5, <1>6, CodePointsType, FrameType

\* GOAWAY.
LEMMA GoawayType ==
  ASSUME NEW id \in Nat
  PROVE  IsEncoding(encode_goaway(id))
<1> DEFINE e == EncodeVarint(id)
<1>1. IsEncoding(e) /\ e.bytes \in Seq(Nat)
  BY EncodeVarintType DEF IsEncoding
<1>2. encode_goaway(id) = IF Failed(e) THEN e
        ELSE EncodeH3Frame([frame_type |-> FRAME_TYPE.GOAWAY, payload |-> e.bytes])
  BY DEF encode_goaway, Then
<1> HIDE DEF e
<1> QED BY <1>1, <1>2, CodePointsType, FrameType

\* The header of a data stream that can be written.
LEMMA StreamHeaderType ==
  ASSUME NEW id \in Nat, NEW type \in {"Uni", "Bidi"}
  PROVE  IsEncoding(encode_stream_header(id, type))
<1>1. SIGNAL[type] \in Nat
  BY CodePoints
<1> QED BY <1>1, EncodeVarintType, EncodeTwoType DEF encode_stream_header
---------------------------------------------------------------------------
(* What a reader with a buffer can say.                                    *)

\* There is nothing to be read of no bytes.
LEMMA ParseNothing ==
  ASSUME NEW kind \in Kinds
  PROVE  Parse(kind, <<>>).buf = <<>> /\ Parse(kind, <<>>).results = <<>>
<1> DEFINE none == <<>>
<1>1. none \in Seq(Nat)
  OBVIOUS
<1>2. read_varint(none, 0).err = "BufferTooShort"
  <2>1. SubSeq(none, 0 + 1, Len(none)) = <<>>
    OBVIOUS
  <2>2. DecodeVarint(<<>>) = DecodeError("BufferTooShort", 0)
    BY DEF DecodeVarint
  <2>3. read_varint(none, 0) = [DecodeError("BufferTooShort", 0) EXCEPT !.pos = @ + 0]
    <3>1. DecodeVarint(SubSeq(none, 0 + 1, Len(none))) = DecodeError("BufferTooShort", 0)
      BY <2>1, <2>2
    <3> HIDE DEF none
    <3> QED BY <3>1 DEF read_varint
  <2>4. [DecodeError("BufferTooShort", 0) EXCEPT !.pos = @ + 0].err = "BufferTooShort"
    BY DEF DecodeError
  <2> QED BY <2>3, <2>4
<1>3. DecodeNext(kind, none).err = "BufferTooShort"
  <2> HIDE DEF none
  <2>1. decode_control_message(none).err = "BufferTooShort"
    BY <1>2 DEF decode_control_message, Then, Failed
  <2>2. DecodeTypeAndPayload(none).err = "BufferTooShort"
    BY <1>2 DEF DecodeTypeAndPayload, Then, Failed
  <2>3. DecodeH3Frame(none).err = "BufferTooShort"
    BY <2>2 DEF DecodeH3Frame
  <2>4. DecodeCapsule(none).err = "BufferTooShort"
    BY <2>2 DEF DecodeCapsule, Then, Failed
  <2> QED BY <2>1, <2>3, <2>4 DEF DecodeNext, Kinds
<1> HIDE DEF none
<1>4. Parse(kind, none) = [buf |-> none, results |-> <<>>]
  BY <1>1, <1>3, ParseStep DEF ParseBody, Taken, TooShort
<1> QED BY <1>4 DEF none


\* Before anything is delivered, a reader of control messages is new and has said
\* nothing.
LEMMA NothingRead ==
  AtOnce("Control", <<>>).rx = NewReader("Bidi") /\ AtOnce("Control", <<>>).got = <<>>
<1> DEFINE none == <<>>
           k == NoSession
           r == Rx(none, none, k, "open")
           p == Parse("message", none \o none)
           g == Named("message", p.results)
<1>1. none \in Seq(Nat) /\ none \o none = none
  OBVIOUS
<1>2. NewReader("Bidi") = r /\ "message" \in Kinds
  BY NewReaderRx DEF Kinds
<1> HIDE DEF k
<1>3. p.buf = none /\ p.results = none
  <2>1. Parse("message", none).buf = none /\ Parse("message", none).results = none
    BY <1>2, ParseNothing
  <2> HIDE DEF none
  <2> QED BY <2>1, <1>1
<1>4. Read("Control", r, none) = State(p.buf, none, k, Ending("Control", g), g)
  <2> HIDE DEF none
  <2>1. ControlCalled(none, none, k, "open", none)
    BY <1>1, ControlCall
  <2> QED BY <2>1 DEF ControlCalled
<1> HIDE DEF p
<1>5. g = none
  <2>1. Named("message", none) = none
    BY DEF Named
  <2> HIDE DEF none
  <2> QED BY <1>3, <2>1
<1>6. Ending("Control", none) = "open"
  BY DEF Ending
<1> HIDE DEF none, g
<1>7. AtOnce("Control", none) = State(none, none, k, "open", none)
  BY <1>2, <1>3, <1>4, <1>5, <1>6 DEF AtOnce
<1>8. AtOnce("Control", none).rx = r /\ AtOnce("Control", none).got = none
  BY <1>7 DEF State
<1> QED BY <1>2, <1>8 DEF none

\* What a reader of control messages has read at once: a buffer and readings; without
\* an error it is not closed.
LEMMA OnceControl ==
  ASSUME NEW bytes \in Seq(Nat)
  PROVE  \E b \in Seq(Nat) : \E f, g :
           /\ AtOnce("Control", bytes) = State(b, <<>>, NoSession, f, g)
           /\ g \in Seq(Readings)
<1> DEFINE none == <<>>
           k == NoSession
           p == Parse("message", none \o bytes)
           g == Named("message", p.results)
           f == Ending("Control", g)
<1>1. none \in Seq(Nat) /\ NewReader("Bidi") = Rx(none, none, k, "open")
  BY NewReaderRx
<1> HIDE DEF none, k
<1>2. WellParsed("message", p) /\ Readable(g) /\ AtOnce("Control", bytes) = State(p.buf, none, k, f, g)
  <2>1. ControlCalled(none, none, k, "open", bytes)
    BY <1>1, ControlCall
  <2> QED BY <2>1, <1>1 DEF ControlCalled, AtOnce
<1> HIDE DEF p, g, f
<1>3. p.buf \in Seq(Nat) /\ g \in Seq(Readings)
  BY <1>2 DEF WellParsed, Readable
<1> QED BY <1>2, <1>3 DEF none, k
---------------------------------------------------------------------------
(* The inductive invariant: a reader of control messages has read what it  *)
(* would have read at once, and a reader of frames the same up to the      *)
(* first error.                                                            *)

Streams == {"Uni", "Bidi"}

Sequence(s) == s \in Seq({s[i] : i \in DOMAIN s})

\* Bytes are numbers, and the parameters that were set are pairs.
Typed ==
  /\ channel \in Channels
  /\ wire \in Seq(Nat) /\ body \in Seq(Nat) /\ delivered \in Seq(Nat)
  /\ draft.params \in Seq(Pairs)
  /\ Sequence(sent) /\ Len(sent) \in 0 .. MaxItems + 1

ControlRead ==
  channel = "Control" =>
    rx = AtOnce("Control", delivered).rx /\ got = AtOnce("Control", delivered).got

FramedRead ==
  channel \in Framed =>
    \E b, q, k, f : rx = Rx(b, q, k, f) /\ FramedSoFar(channel, delivered, b, q, k, got)

IsReader(r) ==
  r = [buf |-> r.buf, queue |-> r.queue, session |-> r.session, stream |-> r.stream,
       classified |-> r.classified, app |-> r.app, failed |-> r.failed]

\* A data stream reports nothing but what ended it: an error, or the last reset sent.
StreamGot ==
  channel \in Streams =>
    /\ IsReader(rx) /\ rx.failed \in BOOLEAN /\ rx.buf = <<>> /\ rx.session = NoSession
    /\ ~rx.failed => got = <<>>
    /\ rx.failed => \E x : /\ got = <<x>>
                           /\ x.kind = "reset" => sent # <<>> /\ x.val = {Last(sent).val}

\* Until then, what was sent on it is its header and data.
StreamSent ==
  (channel \in Streams /\ sent # <<>> /\ ~rx.failed) => Len(sent) = 1 /\ sent[1].kind = "stream"

ReadInv == Typed /\ ControlRead /\ FramedRead /\ StreamGot /\ StreamSent

\* One more item was sent.
LEMMA OneMoreSent ==
  ASSUME NEW s, Sequence(s), NEW x
  PROVE  LET t == Append(s, x)
         IN /\ Sequence(t) /\ Len(s) \in Nat /\ Len(t) = Len(s) + 1 /\ t # <<>> /\ Last(t) = x
            /\ \A i \in 1 .. Len(s) : t[i] = s[i]
<1> DEFINE t == Append(s, x)
           R == {s[i] : i \in DOMAIN s}
           Q == {t[i] : i \in DOMAIN t}
<1>1. s \in Seq(R)
  BY DEF Sequence
<1> HIDE DEF R
<1>2. /\ Len(s) \in Nat /\ DOMAIN t = 1 .. Len(s) + 1 /\ Len(t) = Len(s) + 1
      /\ t[Len(s) + 1] = x /\ \A i \in 1 .. Len(s) : t[i] = s[i]
  BY <1>1
<1>3. t \in Seq(R \cup {x})
  BY <1>1
<1>4. t \in [1 .. Len(s) + 1 -> Q]
  <2>1. t = [i \in 1 .. Len(s) + 1 |-> t[i]]
    <3> HIDE DEF t
    <3>1. t \in [1 .. Len(t) -> R \cup {x}]
      BY <1>3, LenProperties
    <3> QED BY <3>1, <1>2
  <2>2. \A i \in 1 .. Len(s) + 1 : t[i] \in Q
    BY <1>2
  <2> HIDE DEF t, Q
  <2> QED BY <2>1, <2>2
<1>5. t \in Seq(Q)
  <2>1. Len(s) + 1 \in Nat
    BY <1>2
  <2> HIDE DEF t, Q
  <2> QED BY <2>1, <1>4, SeqDef
<1>6. t # <<>> /\ Last(t) = x
  <2> HIDE DEF t
  <2> QED BY <1>2 DEF Last
<1> HIDE DEF t
<1>7. Sequence(t)
  BY <1>5 DEF Sequence
<1> QED BY <1>2, <1>6, <1>7 DEF t

\* A stream is of one kind.
LEMMA ChannelsApart ==
  /\ "Control" \notin Streams /\ "Control" \notin Framed
  /\ \A type \in Framed : type \notin Streams /\ type # "Control"
  /\ \A type \in Channels : type = "Control" \/ type \in Framed \/ type \in Streams
BY ChannelsAssumption DEF Framed, Streams

\* Nothing is read at first.
LEMMA ReadInit == Init => ReadInv
<1> SUFFICES ASSUME Init PROVE ReadInv
  OBVIOUS
<1>1. /\ channel \in Channels /\ sent = <<>> /\ draft.params = <<>> /\ body = <<>>
      /\ wire = <<>> /\ delivered = <<>> /\ got = <<>>
      /\ rx = NewReader(IF channel = "Uni" THEN "Uni" ELSE "Bidi")
  BY DEF Init, NoDraft
<1>2. Typed
  <2>1. <<>> \in Seq(Nat) /\ <<>> \in Seq(Pairs) /\ Len(<<>>) = 0
    OBVIOUS
  <2>2. Sequence(<<>>)
    BY DEF Sequence
  <2>3. 0 \in 0 .. MaxItems + 1
    BY BoundsAssumption
  <2> QED BY <2>1, <2>2, <2>3, <1>1 DEF Typed
<1>3. ControlRead
  <2> SUFFICES ASSUME channel = "Control"
               PROVE  rx = AtOnce("Control", <<>>).rx /\ got = AtOnce("Control", <<>>).got
    BY <1>1 DEF ControlRead
  <2>1. channel # "Uni"
    OBVIOUS
  <2> QED BY <2>1, <1>1, NothingRead
<1>4. FramedRead
  <2> SUFFICES ASSUME channel \in Framed
               PROVE  /\ rx = Rx(<<>>, <<>>, NoSession, "open")
                      /\ FramedSoFar(channel, <<>>, <<>>, <<>>, NoSession, <<>>)
    BY <1>1 DEF FramedRead
  <2>1. channel # "Uni" /\ "frame" \in Kinds
    BY DEF Framed, Kinds
  <2>2. Parse("frame", <<>>).buf = <<>> /\ Parse("frame", <<>>).results = <<>>
    BY <2>1, ParseNothing
  <2> QED BY <2>1, <2>2, <1>1, NewReaderRx, FramedFirst
<1>5. StreamGot
  <2>1. \A type : /\ IsReader(NewReader(type)) /\ NewReader(type).failed = FALSE
                  /\ NewReader(type).buf = <<>> /\ NewReader(type).session = NoSession
    BY DEF NewReader, IsReader
  <2>2. IsReader(rx) /\ rx.failed = FALSE /\ got = <<>> /\ rx.buf = <<>> /\ rx.session = NoSession
    BY <2>1, <1>1
  <2> QED BY <2>2 DEF StreamGot
<1> QED BY <1>1, <1>2, <1>3, <1>4, <1>5 DEF ReadInv, StreamSent

\* An item goes out.
LEMMA SendStep ==
  ASSUME ReadInv, NEW item, NEW encoded, IsEncoding(encoded), Send(item, encoded),
         channel \in Streams => sent = <<>> /\ item.kind = "stream"
  PROVE  ReadInv'
<1>1. /\ Len(sent) < MaxItems /\ sent' = Append(sent, item) /\ wire' = wire \o encoded.bytes
      /\ UNCHANGED <<channel, draft, body, delivered, rx, got>>
  BY DEF Send
<1>2. /\ Sequence(sent') /\ Len(sent) \in Nat /\ Len(sent') = Len(sent) + 1
  <2>1. Sequence(sent)
    BY DEF ReadInv, Typed
  <2> QED BY <2>1, <1>1, OneMoreSent
<1>3. wire' \in Seq(Nat)
  <2>1. wire \in Seq(Nat) /\ encoded.bytes \in Seq(Nat)
    BY DEF ReadInv, Typed, IsEncoding
  <2> QED BY <2>1, <1>1, ConcatProperties
<1>4. Typed'
  <2>1. Len(sent') \in 0 .. MaxItems + 1
    BY <1>1, <1>2, BoundsAssumption
  <2> QED BY <2>1, <1>1, <1>2, <1>3 DEF ReadInv, Typed
<1>5. ControlRead' /\ FramedRead'
  BY <1>1 DEF ReadInv, ControlRead, FramedRead
<1>6. StreamGot'
  BY <1>1 DEF ReadInv, StreamGot, Streams
<1>7. StreamSent'
  <2> SUFFICES ASSUME channel \in Streams PROVE Len(sent') = 1 /\ sent'[1].kind = "stream"
    BY <1>1 DEF StreamSent
  <2>1. sent' = Append(<<>>, item) /\ item.kind = "stream"
    BY <1>1
  <2> QED BY <2>1
<1> QED BY <1>4, <1>5, <1>6, <1>7 DEF ReadInv

\* Nothing but `failed' of a reader changes.
LEMMA ReaderClosed ==
  ASSUME NEW r, IsReader(r), NEW c
  PROVE  LET s == [r EXCEPT !.failed = c]
         IN /\ IsReader(s) /\ s.failed = c /\ s.stream = r.stream /\ s.app = r.app
            /\ s.classified = r.classified /\ s.buf = r.buf /\ s.session = r.session
<1> DEFINE w == [buf |-> r.buf, queue |-> r.queue, session |-> r.session, stream |-> r.stream,
                 classified |-> r.classified, app |-> r.app, failed |-> r.failed]
           e == [w EXCEPT !.failed = c]
<1>1. r = w
  BY DEF IsReader
<1>2. e = [buf |-> r.buf, queue |-> r.queue, session |-> r.session, stream |-> r.stream,
           classified |-> r.classified, app |-> r.app, failed |-> c]
  OBVIOUS
<1>3. /\ IsReader(e) /\ e.failed = c /\ e.stream = r.stream /\ e.app = r.app
      /\ e.classified = r.classified /\ e.buf = r.buf /\ e.session = r.session
  <2> HIDE DEF e, w
  <2> QED BY <1>2 DEF IsReader
<1> HIDE DEF w
<1> QED BY <1>1, <1>3

\* What ReadStream hands to the header parser.
StreamParse(r, data) ==
  LET signal == DecodeVarint(data)
  IN IF r.classified
     THEN IF r.stream.header_len > 0 /\ r.stream.stream_type = "Uni"
          THEN parse_session_id_only(r.stream, data) ELSE parse_header(r.stream, data)
     ELSE IF r.stream.stream_type = "Uni"
     THEN LET rest == parse_session_id_only([r.stream EXCEPT !.header_len = signal.pos],
                                            SubSeq(data, signal.pos + 1, Len(data)))
          IN [rest EXCEPT !.consumed = @ + signal.pos]
     ELSE parse_header(r.stream, data)

ReadOn(r, c, s, a) == [r EXCEPT !.classified = c, !.stream = s, !.app = a]

\* A stream that is read has no buffer: it goes on, or it ends in one error.
LEMMA StreamShape ==
  ASSUME NEW type \in Streams, NEW r, IsReader(r), NEW data
  PROVE  LET new == Read(type, r, data)
             old == ReadStream(r, data)
         IN /\ IsReader(new.rx) /\ new.rx.failed \in BOOLEAN
            /\ ~new.rx.failed => new.got = <<>>
            /\ new.rx.failed => \E x : new.got = <<x>> /\ x.kind = "stream"
            /\ new.rx.stream = old.rx.stream /\ new.rx.app = old.rx.app
            /\ new.rx.classified = old.rx.classified /\ new.got = old.got
            /\ new.rx.buf = r.buf /\ new.rx.session = r.session
<1> DEFINE new == ReadStream(r, data)
           end == new.got # <<>> /\ Failed(Last(new.got))
                    /\ (type \in {"Control", "Uni", "Bidi"} \/ Last(new.got).err = "Panic")
<1>1. IsReader(new.rx) /\ new.rx.buf = r.buf /\ new.rx.session = r.session
  <2>1. \A c, s, a : LET x == ReadOn(r, c, s, a)
                     IN IsReader(x) /\ x.buf = r.buf /\ x.session = r.session
    <3> TAKE c, s, a
    <3> DEFINE w == [buf |-> r.buf, queue |-> r.queue, session |-> r.session, stream |-> r.stream,
                     classified |-> r.classified, app |-> r.app, failed |-> r.failed]
               e1 == [w EXCEPT !.classified = c]
               e2 == [e1 EXCEPT !.stream = s]
               e3 == [e2 EXCEPT !.app = a]
    <3>1. r = w
      BY DEF IsReader
    <3>2. e1 = [buf |-> r.buf, queue |-> r.queue, session |-> r.session, stream |-> r.stream,
                classified |-> c, app |-> r.app, failed |-> r.failed]
      OBVIOUS
    <3>3. e2 = [buf |-> r.buf, queue |-> r.queue, session |-> r.session, stream |-> s, classified |-> c,
                app |-> r.app, failed |-> r.failed]
      <4> HIDE DEF e1
      <4> QED BY <3>2
    <3>4. e3 = [buf |-> r.buf, queue |-> r.queue, session |-> r.session, stream |-> s, classified |-> c,
                app |-> a, failed |-> r.failed]
      <4> HIDE DEF e2
      <4> QED BY <3>3
    <3>5. IsReader(e3) /\ e3.buf = r.buf /\ e3.session = r.session
      <4> HIDE DEF e3
      <4> QED BY <3>4 DEF IsReader
    <3> HIDE DEF w
    <3> QED BY <3>1, <3>5 DEF ReadOn
  <2>2. new.rx = r \/ \E c, s, a : new.rx = ReadOn(r, c, s, a)
    BY DEF ReadStream, ReadOn
  <2> HIDE DEF new
  <2> QED BY <2>1, <2>2, Zenon
<1>2. new.got = <<>> \/ \E x : new.got = <<x>> /\ x.kind = "stream" /\ Failed(x)
  <2>1. \A x, err : /\ Result("stream", x).kind = "stream" /\ (Failed(x) => Failed(Result("stream", x)))
                    /\ err # "None" => Failed(DecodeError(err, 0))
    BY DEF Result, Failed, DecodeError
  <2>2. \/ new.got = <<>>
        \/ \E x : new.got = <<Result("stream", x)>> /\ Failed(x)
        \/ \E err : new.got = <<Result("stream", DecodeError(err, 0))>> /\ err # "None"
    <3> DEFINE signal == DecodeVarint(data)
               parse == StreamParse(r, data)
               err == IF ~Failed(parse) /\ parse.stream.header_state = "Done"
                           /\ parse.stream.session_id % 4 # 0
                      THEN "InvalidSessionId" ELSE parse.err
    <3>1. CASE ~r.classified /\ Failed(signal)
      <4>1. new.got = <<Result("stream", signal)>>
        BY <3>1 DEF ReadStream
      <4> QED BY <4>1, <3>1
    <3>2. CASE ~(~r.classified /\ Failed(signal))
      <4>1. new.got = IF err # "None" THEN <<Result("stream", DecodeError(err, 0))>> ELSE <<>>
        BY <3>2, Zenon DEF ReadStream, StreamParse
      <4> HIDE DEF new, err
      <4> QED BY <4>1
    <3> QED BY <3>1, <3>2
  <2> HIDE DEF new
  <2> QED BY <2>1, <2>2
<1> HIDE DEF new
<1>3. end => \E x : new.got = <<x>> /\ x.kind = "stream"
  BY <1>2
<1>4. ~end => new.got = <<>>
  <2>1. ASSUME NEW x, new.got = <<x>>, Failed(x) PROVE end
    <3>1. new.got # <<>> /\ Last(new.got) = x
      BY <2>1 DEF Last
    <3> QED BY <2>1, <3>1, Zenon DEF Streams
  <2> QED BY <1>2, <2>1
<1>5. Read(type, r, data) = [rx |-> [new.rx EXCEPT !.failed = end], got |-> new.got]
  <2>1. Read(type, r, data) = Closed(type, new)
    BY DEF Read, Streams, new
  <2>2. new = [rx |-> new.rx, got |-> new.got]
    BY DEF new, ReadStream
  <2>3. Closed(type, [rx |-> new.rx, got |-> new.got]) =
          [rx |-> [new.rx EXCEPT !.failed = end], got |-> new.got]
    BY DEF Closed
  <2> QED BY <2>1, <2>2, <2>3
<1>6. /\ IsReader([new.rx EXCEPT !.failed = end]) /\ [new.rx EXCEPT !.failed = end].failed = end
      /\ [new.rx EXCEPT !.failed = end].stream = new.rx.stream
      /\ [new.rx EXCEPT !.failed = end].app = new.rx.app
      /\ [new.rx EXCEPT !.failed = end].classified = new.rx.classified
      /\ [new.rx EXCEPT !.failed = end].buf = new.rx.buf
      /\ [new.rx EXCEPT !.failed = end].session = new.rx.session
      /\ end \in BOOLEAN
  <2>1. end \in BOOLEAN
    OBVIOUS
  <2> HIDE DEF end
  <2> QED BY <2>1, <1>1, ReaderClosed
<1> HIDE DEF end
<1> DEFINE now == Read(type, r, data)
<1>7. now.rx = [new.rx EXCEPT !.failed = end] /\ now.got = new.got
  BY <1>5
<1> HIDE DEF now
<1>8. /\ IsReader(now.rx) /\ now.rx.failed = end /\ now.got = new.got /\ end \in BOOLEAN
      /\ now.rx.stream = new.rx.stream /\ now.rx.app = new.rx.app
      /\ now.rx.classified = new.rx.classified
      /\ now.rx.buf = new.rx.buf /\ now.rx.session = new.rx.session
  BY <1>6, <1>7
<1> QED BY <1>1, <1>3, <1>4, <1>8 DEF now, new

\* The next bytes arrive.
LEMMA DeliverStep ==
  ASSUME ReadInv, NEW n, Deliver(n)
  PROVE  ReadInv'
<1> DEFINE data == SubSeq(wire, 1, n)
           new == Read(channel, rx, data)
<1>1. /\ ~rx.failed /\ n \in 1 .. Len(wire) /\ rx' = new.rx /\ got' = got \o new.got
      /\ delivered' = delivered \o data /\ wire' = SubSeq(wire, n + 1, Len(wire))
      /\ UNCHANGED <<channel, sent, draft, body>>
  BY DEF Deliver
<1>2. wire \in Seq(Nat) /\ delivered \in Seq(Nat) /\ Len(wire) \in Nat
  BY DEF ReadInv, Typed
<1>3. data \in Seq(Nat)
  <2>1. 0 \in 0 .. Len(wire) /\ n \in Nat /\ 0 + n <= Len(wire) /\ 0 + 1 = 1 /\ 0 + n = n
    BY <1>1, <1>2
  <2>2. SubSeq(wire, 0 + 1, 0 + n) \in Seq(Nat)
    BY <1>2, <2>1, SliceOf
  <2> QED BY <2>1, <2>2
<1>4. wire' \in Seq(Nat)
  <2>1. n \in 0 .. Len(wire)
    BY <1>1, <1>2
  <2> QED BY <2>1, <1>1, <1>2, RestOf
<1> HIDE DEF data
<1>5. delivered' \in Seq(Nat)
  BY <1>1, <1>2, <1>3, ConcatProperties
<1>6. Typed'
  BY <1>1, <1>4, <1>5 DEF ReadInv, Typed
<1>7. ControlRead'
  <2> SUFFICES ASSUME channel = "Control"
               PROVE  rx' = AtOnce("Control", delivered \o data).rx
                      /\ got' = AtOnce("Control", delivered \o data).got
    BY <1>1 DEF ControlRead
  <2> DEFINE w == AtOnce("Control", delivered)
             r == Read("Control", w.rx, data)
             once == AtOnce("Control", delivered \o data)
  <2>1. rx = w.rx /\ got = w.got
    BY DEF ReadInv, ControlRead
  <2>2. PiecesJoin("Control", delivered, data)
    <3>1. ~AtOnce("Control", delivered).rx.failed
      BY <1>1, <2>1
    <3> QED BY <3>1, <1>2, <1>3, ControlInPieces
  <2>3. once = [rx |-> r.rx, got |-> w.got \o r.got]
    BY <2>2 DEF PiecesJoin
  <2>4. r = new
    BY <2>1
  <2>5. rx' = new.rx /\ got' = w.got \o new.got
    BY <1>1, <2>1
  <2>6. once.rx = r.rx /\ once.got = w.got \o r.got
    <3> HIDE DEF w, r, once
    <3> QED BY <2>3
  <2> HIDE DEF w, r, new, once
  <2>7. rx' = once.rx /\ got' = once.got
    BY <2>4, <2>5, <2>6
  <2> QED BY <2>7 DEF once
<1>10. FramedRead'
  <2> SUFFICES ASSUME channel \in Framed
               PROVE  \E b, q, k, f : /\ rx' = Rx(b, q, k, f)
                                      /\ FramedSoFar(channel, delivered \o data, b, q, k, got \o new.got)
    BY <1>1 DEF FramedRead
  <2>1. PICK b, q, k, f : rx = Rx(b, q, k, f) /\ FramedSoFar(channel, delivered, b, q, k, got)
    BY DEF ReadInv, FramedRead
  <2>2. PICK c, r, l, e : /\ new = State(c, r, l, e, new.got)
                          /\ FramedSoFar(channel, delivered \o data, c, r, l, got \o new.got)
    BY <2>1, <1>2, <1>3, FramedGoesOn
  <2> HIDE DEF new
  <2>3. new.rx = Rx(c, r, l, e)
    BY <2>2 DEF State
  <2> QED BY <2>2, <2>3, <1>1
<1>8. StreamGot'
  <2> SUFFICES ASSUME channel \in Streams
               PROVE  /\ IsReader(rx') /\ rx'.failed \in BOOLEAN
                      /\ rx'.buf = <<>> /\ rx'.session = NoSession
                      /\ ~rx'.failed => got' = <<>>
                      /\ rx'.failed => \E x : /\ got' = <<x>>
                                              /\ x.kind = "reset" => sent # <<>> /\ x.val = {Last(sent).val}
    BY <1>1 DEF StreamGot
  <2>1. IsReader(rx) /\ got = <<>> /\ rx.buf = <<>> /\ rx.session = NoSession
    BY <1>1 DEF ReadInv, StreamGot
  <2>2. /\ IsReader(new.rx) /\ new.rx.failed \in BOOLEAN
        /\ new.rx.buf = <<>> /\ new.rx.session = NoSession
        /\ ~new.rx.failed => new.got = <<>>
        /\ new.rx.failed => \E x : new.got = <<x>> /\ x.kind = "stream"
    BY <2>1, StreamShape
  <2> HIDE DEF new
  <2>3. CASE ~new.rx.failed
    <3>1. got' = <<>>
      BY <2>3, <2>1, <2>2, <1>1
    <3> QED BY <3>1, <2>2, <2>3, <1>1
  <2>4. CASE new.rx.failed
    <3>1. PICK x : new.got = <<x>> /\ x.kind = "stream"
      BY <2>2, <2>4
    <3>2. <<>> \o <<x>> = <<x>>
      OBVIOUS
    <3>3. got' = <<x>>
      BY <3>1, <3>2, <2>1, <1>1
    <3> QED BY <3>1, <3>3, <2>2, <2>4, <1>1
  <2> QED BY <2>3, <2>4
<1>9. StreamSent'
  BY <1>1 DEF ReadInv, StreamSent
<1> QED BY <1>6, <1>7, <1>8, <1>9, <1>10 DEF ReadInv

\* A reset drops what is on the way, all of it: the record of the stream has no
\* header_len, so that nothing of it is delivered reliably.
LEMMA ResetStep ==
  ASSUME ReadInv, NEW code \in AppErrors, Reset(code)
  PROVE  ReadInv'
<1> DEFINE reliable == SubSeq(wire, 1, NewOutgoing(channel).header_len - Len(delivered))
           app_code == http3_to_webtransport_error(webtransport_to_http3_error(code))
           none == [rx |-> rx, got |-> <<>>]
           x == [kind |-> "reset", err |-> "None", val |-> app_code]
<1>1. PICK new \in {IF reliable = <<>> THEN none ELSE Closed(channel, ReadStream(rx, reliable))} :
        /\ delivered' = delivered \o reliable
        /\ rx' = [new.rx EXCEPT !.failed = TRUE]
        /\ got' = got \o new.got \o <<x>>
  BY DEF Reset
<1>2. /\ channel \in Streams /\ sent # <<>> /\ ~rx.failed /\ sent' = Append(sent, Item("reset", code))
      /\ wire' = <<>> /\ UNCHANGED <<channel, draft, body>>
  BY DEF Reset, Streams
<1>3. /\ Sequence(sent) /\ Len(sent) = 1 /\ got = <<>> /\ IsReader(rx)
      /\ rx.buf = <<>> /\ rx.session = NoSession
      /\ delivered \in Seq(Nat) /\ Len(delivered) \in Nat
  BY <1>2 DEF ReadInv, Typed, StreamSent, StreamGot
<1>4. reliable = <<>>
  <2>1. NewOutgoing(channel).header_len = 0
    BY DEF NewOutgoing, NewIncoming
  <2> DEFINE n == 0 - Len(delivered)
  <2>2. 1 \in Int /\ n \in Int /\ n < 1
    BY <1>3
  <2> HIDE DEF n
  <2>3. SubSeq(wire, 1, n) = <<>>
    BY <2>2, SubSeqEmpty
  <2> QED BY <2>1, <2>3 DEF n
<1> HIDE DEF reliable
<1>5. new.rx = rx /\ new.got = <<>> /\ delivered' = delivered
  <2>1. new = none
    BY <1>4
  <2>2. delivered \o <<>> = delivered
    BY <1>3, ConcatEmptySeq
  <2> QED BY <2>1, <2>2, <1>1, <1>4
<1>6. got' = <<x>>
  <2> HIDE DEF x
  <2>1. <<>> \o <<>> \o <<x>> = <<x>>
    OBVIOUS
  <2> QED BY <2>1, <1>1, <1>3, <1>5
<1>7. IsReader(rx') /\ rx'.failed = TRUE /\ rx'.buf = <<>> /\ rx'.session = NoSession
  <2>1. rx' = [rx EXCEPT !.failed = TRUE]
    BY <1>1, <1>5
  <2>2. /\ IsReader([rx EXCEPT !.failed = TRUE]) /\ [rx EXCEPT !.failed = TRUE].failed = TRUE
        /\ [rx EXCEPT !.failed = TRUE].buf = rx.buf
        /\ [rx EXCEPT !.failed = TRUE].session = rx.session
    BY <1>3, ReaderClosed
  <2> QED BY <2>1, <2>2, <1>3
<1>8. /\ Sequence(sent') /\ Len(sent') = 2 /\ sent' # <<>> /\ Last(sent') = Item("reset", code)
  <2> DEFINE t == Append(sent, Item("reset", code))
  <2>1. Sequence(t) /\ Len(t) = Len(sent) + 1 /\ t # <<>> /\ Last(t) = Item("reset", code)
    BY <1>3, OneMoreSent
  <2> HIDE DEF t
  <2>2. sent' = t
    BY <1>2 DEF t
  <2> QED BY <2>1, <2>2, <1>3
<1>9. x.kind = "reset" /\ x.val = {Last(sent').val}
  <2>1. app_code = {code}
    BY SentAssumption, ErrorCodesReturn
  <2> QED BY <2>1, <1>8 DEF Item
<1> HIDE DEF x
<1>10. Typed'
  <2>1. 2 \in 0 .. MaxItems + 1
    BY BoundsAssumption
  <2>2. <<>> \in Seq(Nat)
    OBVIOUS
  <2> QED BY <2>1, <2>2, <1>2, <1>5, <1>8 DEF ReadInv, Typed
<1>11. ControlRead' /\ FramedRead'
  BY <1>2, ChannelsApart DEF ControlRead, FramedRead
<1>12. StreamGot'
  BY <1>2, <1>6, <1>7, <1>8, <1>9 DEF StreamGot
<1>13. StreamSent'
  BY <1>7 DEF StreamSent
<1> QED BY <1>10, <1>11, <1>12, <1>13 DEF ReadInv

\* A setter is called.
LEMMA SetterStep ==
  ASSUME ReadInv, NEW name \in DOMAIN ParamValues, NEW v \in ParamValues[name],
         SetParameter(name, v)
  PROVE  ReadInv'
<1>1. UNCHANGED <<channel, sent, body, wire, delivered, rx, got>>
  BY DEF SetParameter
<1>2. draft.params \in Seq(Pairs)
  BY DEF ReadInv, Typed
<1>3. draft'.params = CASE name = "forward"  -> set_forward(draft.params, v)
                        [] name = "priority" -> set_subscriber_priority(draft.params, v)
                        [] name = "timeout"  -> set_delivery_timeout(draft.params, v)
                        [] name = "expires"  -> set_expires(draft.params, v)
                        [] name = "filter"   -> set_subscription_filter(draft.params, v)
                        [] name = "largest"  -> set_largest_object(draft.params, v)
  BY DEF SetParameter
<1>4. /\ name \in {"forward", "priority", "timeout", "expires", "filter", "largest"}
      /\ name \in {"priority", "timeout", "expires"} => v \in Nat
      /\ name = "filter" => v \in Filters
      /\ name = "largest" => v \in Locations
  BY ParamValuesAssumption
<1>5. draft'.params \in Seq(Pairs)
  BY <1>2, <1>3, <1>4, SetterType
<1>6. Typed'
  BY <1>1, <1>5 DEF ReadInv, Typed
<1>7. ControlRead' /\ FramedRead' /\ StreamGot' /\ StreamSent'
  BY <1>1 DEF ReadInv, ControlRead, FramedRead, StreamGot, StreamSent
<1> QED BY <1>6, <1>7 DEF ReadInv

\* A capsule is written.
LEMMA CapsuleStep ==
  ASSUME ReadInv, NEW item, NEW encoded, IsEncoding(encoded), WriteCapsule(item, encoded)
  PROVE  ReadInv'
<1>1. /\ channel = "Session" /\ Len(sent) \in 1 .. MaxItems /\ sent' = Append(sent, item)
      /\ body' = body \o encoded.bytes /\ UNCHANGED <<channel, draft, wire, delivered, rx, got>>
  BY DEF WriteCapsule
<1>2. /\ Sequence(sent') /\ Len(sent) \in Nat /\ Len(sent') = Len(sent) + 1
  <2>1. Sequence(sent)
    BY DEF ReadInv, Typed
  <2> QED BY <2>1, <1>1, OneMoreSent
<1>3. body' \in Seq(Nat)
  <2>1. body \in Seq(Nat) /\ encoded.bytes \in Seq(Nat)
    BY DEF ReadInv, Typed, IsEncoding
  <2> QED BY <2>1, <1>1, ConcatProperties
<1>4. Typed'
  <2>1. Len(sent') \in 0 .. MaxItems + 1
    BY <1>1, <1>2, BoundsAssumption
  <2> QED BY <2>1, <1>1, <1>2, <1>3 DEF ReadInv, Typed
<1>5. ControlRead' /\ FramedRead'
  BY <1>1 DEF ReadInv, ControlRead, FramedRead
<1>6. StreamGot' /\ StreamSent'
  BY <1>1 DEF StreamGot, StreamSent, Streams
<1> QED BY <1>4, <1>5, <1>6 DEF ReadInv

\* What was written goes out in a DATA frame.
LEMMA BodyStep ==
  ASSUME ReadInv, NEW n, SendBody(n)
  PROVE  ReadInv'
<1> DEFINE data == SubSeq(body, 1, n)
<1>1. /\ n \in 1 .. Len(body) /\ wire' = wire \o DataFrame(data).bytes
      /\ body' = SubSeq(body, n + 1, Len(body)) /\ UNCHANGED <<channel, sent, draft, delivered, rx, got>>
  BY DEF SendBody
<1>2. wire \in Seq(Nat) /\ body \in Seq(Nat) /\ Len(body) \in Nat
  BY DEF ReadInv, Typed
<1>3. data \in Seq(Nat)
  <2>1. 0 \in 0 .. Len(body) /\ n \in Nat /\ 0 + n <= Len(body) /\ 0 + 1 = 1 /\ 0 + n = n
    BY <1>1, <1>2
  <2>2. SubSeq(body, 0 + 1, 0 + n) \in Seq(Nat)
    BY <1>2, <2>1, SliceOf
  <2> QED BY <2>1, <2>2
<1> HIDE DEF data
<1>4. body' \in Seq(Nat)
  <2>1. n \in 0 .. Len(body)
    BY <1>1, <1>2
  <2> QED BY <2>1, <1>1, <1>2, RestOf
<1>5. wire' \in Seq(Nat)
  <2>1. DataFrame(data).bytes \in Seq(Nat)
    BY <1>3, CodePointsType, FrameType DEF DataFrame, IsEncoding
  <2> QED BY <2>1, <1>1, <1>2, ConcatProperties
<1>6. Typed'
  BY <1>1, <1>4, <1>5 DEF ReadInv, Typed
<1>7. ControlRead' /\ FramedRead' /\ StreamGot' /\ StreamSent'
  BY <1>1 DEF ReadInv, ControlRead, FramedRead, StreamGot, StreamSent
<1> QED BY <1>6, <1>7 DEF ReadInv

\* A message goes out.
LEMMA MessageStep ==
  ASSUME ReadInv, NEW msg, IsMessage(msg), SendMessage(msg)
  PROVE  ReadInv'
<1>1. Send(Item("message", msg), encode_control_message(msg, <<>>)) /\ channel = "Control"
  BY DEF SendMessage
<1>2. channel \notin Streams
  BY <1>1 DEF Streams
<1> QED BY <1>1, <1>2, MessageType, SendStep

\* The draft is a message.
LEMMA DraftType ==
  ASSUME draft.params \in Seq(Pairs)
  PROVE  IsMessage(DraftMessage)
<1> DEFINE msg == DraftMessage
           fields == <<1, draft.params>>
<1>1. msg.type = "REQUEST_OK" /\ msg.fields = fields
  BY DEF DraftMessage
<1>2. FieldsOf("REQUEST_OK").written = <<"varint", "params">>
  <2>1. "REQUEST_OK" \notin DOMAIN SetupMessages
    BY DEF SetupMessages
  <2>2. "REQUEST_OK" \notin DOMAIN SessionControlMessages
    BY DEF SessionControlMessages
  <2>3. "REQUEST_OK" \in DOMAIN RequestMessages
        /\ RequestMessages["REQUEST_OK"].written = <<"varint", "params">>
    BY DEF RequestMessages, Fields
  <2>4. "REQUEST_OK" \notin DOMAIN SubscribeMessages
    BY DEF SubscribeMessages
  <2>5. "REQUEST_OK" \notin DOMAIN PublishMessages
    BY DEF PublishMessages
  <2>6. "REQUEST_OK" \notin DOMAIN FetchMessages
    BY DEF FetchMessages
  <2>7. "REQUEST_OK" \notin DOMAIN NamespaceMessages
    BY DEF NamespaceMessages
  <2>8. FieldsOf("REQUEST_OK") = RequestMessages["REQUEST_OK"]
    BY <2>1, <2>2, <2>3, <2>4, <2>5, <2>6, <2>7 DEF FieldsOf
  <2> QED BY <2>3, <2>8
<1>3. msg.type \in MessageTypes
  BY <1>1 DEF MessageTypes, TypeCode
<1>4. fields[1] \in FieldValues("varint") /\ fields[2] \in FieldValues("params")
  BY DEF FieldValues
<1> DEFINE kinds == <<"varint", "params">>
<1>5. \A i \in DOMAIN kinds : fields[i] \in FieldValues(kinds[i]) /\ kinds[i] # "fetch"
  <2>1. \A i \in DOMAIN kinds : i = 1 \/ i = 2
    OBVIOUS
  <2>2. kinds[1] = "varint" /\ kinds[2] = "params"
    OBVIOUS
  <2> HIDE DEF kinds, fields
  <2> QED BY <2>1, <2>2, <1>4
<1> HIDE DEF msg, kinds, fields
<1>6. FieldsOf(msg.type).written = kinds
  BY <1>1, <1>2 DEF kinds
<1>7. IsMessage(msg)
  BY <1>1, <1>3, <1>5, <1>6 DEF IsMessage
<1> QED BY <1>7 DEF msg

\* Whatever the peer sends and wherever it is cut, the invariant holds.
LEMMA ReadStep == ReadInv /\ [Next]_vars => ReadInv'
<1> SUFFICES ASSUME ReadInv, [Next]_vars PROVE ReadInv'
  OBVIOUS
<1>0. draft.params \in Seq(Pairs) /\ ("Control" \notin Streams) /\ ("Session" \notin Streams)
      /\ "H3Control" \notin Streams
  BY DEF ReadInv, Typed, Streams
<1>1. CASE \E m \in IF sent = <<>> THEN Messages ELSE Later : SendMessage(m)
  BY <1>1, SentAssumption, MessageStep
<1>2. ASSUME NEW p \in DOMAIN ParamValues, NEW v \in ParamValues[p], SetParameter(p, v)
      PROVE  ReadInv'
  BY <1>2, SetterStep
<1>3. CASE SendDraft
  BY <1>3, <1>0, DraftType, MessageStep DEF SendDraft
<1>4. ASSUME NEW headers, NEW block \in Seq(Nat), SendHeaders(headers, block)
      PROVE  ReadInv'
  <2>1. /\ channel = "Session"
        /\ Send(Item("headers", headers),
                EncodeH3Frame([frame_type |-> FRAME_TYPE.HEADERS, payload |-> block]))
    BY <1>4 DEF SendHeaders
  <2>2. IsEncoding(EncodeH3Frame([frame_type |-> FRAME_TYPE.HEADERS, payload |-> block]))
    BY CodePointsType, FrameType
  <2> QED BY <2>1, <2>2, <1>0, SendStep
<1>5. CASE \E h \in Headers : SendHeaders(h, encode_header_block(h))
  BY <1>5, <1>4, SentAssumption
<1>6. CASE \E b \in ForeignBlocks : SendHeaders(b.headers, b.block)
  BY <1>6, <1>4, SentAssumption
<1>7. CASE \E c \in IF Len(sent) = 1 THEN Capsules ELSE LaterCapsules : SendCapsule(c)
  <2>1. PICK c \in Capsules \cup LaterCapsules : SendCapsule(c)
    BY <1>7
  <2>2. IsEncoding(EncodeCapsule(c))
    BY SentAssumption, CapsuleType
  <2> QED BY <2>1, <2>2, CapsuleStep DEF SendCapsule
<1>8. CASE \E n \in {1, Len(body)} : SendBody(n)
  BY <1>8, BodyStep
<1>9. CASE SendRawMessage
  <2>1. PICK bytes \in RawMessages : channel = "Control" /\ Send(Item("raw", bytes), Bytes(bytes))
    BY <1>9 DEF SendRawMessage
  <2>2. IsEncoding(Bytes(bytes))
    BY SentAssumption, BytesType
  <2> QED BY <2>1, <2>2, <1>0, SendStep
<1>10. CASE SendRawCapsule
  <2>1. PICK bytes \in RawCapsules : WriteCapsule(Item("raw", bytes), Bytes(bytes))
    BY <1>10 DEF SendRawCapsule
  <2>2. IsEncoding(Bytes(bytes))
    BY SentAssumption, BytesType
  <2> QED BY <2>1, <2>2, CapsuleStep
<1>11. ASSUME NEW c \in Configs, SendSettings(c) PROVE ReadInv'
  <2>1. channel = "H3Control" /\ Send(Item("settings", c), encode_settings(h3_settings(c)))
    BY <1>11 DEF SendSettings
  <2>2. c \in ConfigValues
    BY SentAssumption
  <2>3. IsEncoding(encode_settings(h3_settings(c)))
    BY <2>2, SettingsListType, SettingsType
  <2> QED BY <2>1, <2>3, <1>0, SendStep
<1>12. ASSUME NEW id \in StreamIds, SendGoaway(id) PROVE ReadInv'
  <2>1. channel = "H3Control" /\ Send(Item("goaway", id), encode_goaway(id))
    BY <1>12 DEF SendGoaway
  <2>2. IsEncoding(encode_goaway(id))
    BY SentAssumption, GoawayType
  <2> QED BY <2>1, <2>2, <1>0, SendStep
<1>13. ASSUME NEW id \in StreamIds, NEW d \in AppData, SendStream(id, d) PROVE ReadInv'
  <2> DEFINE item == Item("stream", [session_id |-> id, data |-> d])
             encoded == EncodeAll(<<encode_stream_header(id, channel), Bytes(d)>>)
  <2>1. channel \in Streams /\ sent = <<>> /\ Send(item, encoded)
    BY <1>13 DEF SendStream, Streams
  <2>2. IsEncoding(encode_stream_header(id, channel)) /\ IsEncoding(Bytes(d))
    BY <2>1, SentAssumption, StreamHeaderType, BytesType DEF Streams
  <2>3. IsEncoding(encoded)
    BY <2>2, EncodeTwoType
  <2>4. item.kind = "stream"
    BY DEF Item
  <2> HIDE DEF item, encoded
  <2> QED BY <2>1, <2>3, <2>4, SendStep
<1>14. CASE \E e \in AppErrors : Reset(e)
  BY <1>14, ResetStep
<1>15. CASE \E n \in Chunks \cup {Len(wire)} : Deliver(n)
  BY <1>15, DeliverStep
<1>17. CASE SendRawFrame
  <2>1. PICK bytes \in RawFrames : channel \notin Streams /\ Send(Item("frame", bytes), Bytes(bytes))
    BY <1>17 DEF SendRawFrame, Streams
  <2>2. IsEncoding(Bytes(bytes))
    BY SentAssumption, BytesType
  <2> QED BY <2>1, <2>2, SendStep
<1>16. CASE UNCHANGED vars
  BY <1>16 DEF vars, ReadInv, Typed, ControlRead, FramedRead, StreamGot, StreamSent
<1> QED BY <1>1, <1>2, <1>3, <1>5, <1>6, <1>7, <1>8, <1>9, <1>10, <1>11, <1>12, <1>13, <1>14,
           <1>15, <1>16, <1>17 DEF Next

---------------------------------------------------------------------------
(* Theorems.                                                               *)

\* The invariant says it of a reader of control messages, and of one of frames.
LEMMA InvPieces == ReadInv => SameInPieces
<1> SUFFICES ASSUME ReadInv, channel \notin {"Uni", "Bidi"}
             PROVE  SameReading(channel, got, AtOnce(channel, delivered).got)
  BY DEF SameInPieces, AtOnce
<1>1. channel = "Control" \/ channel \in Framed
  BY ChannelsApart DEF ReadInv, Typed, Streams
<1>2. CASE channel = "Control"
  BY <1>2 DEF ReadInv, ControlRead, SameReading
<1>3. CASE channel \in Framed
  <2>1. PICK b, q, k, f : FramedSoFar(channel, delivered, b, q, k, got)
    BY <1>3 DEF ReadInv, FramedRead
  <2>2. SameUntilError(got, AtOnce(channel, delivered).got)
    BY <2>1, <1>3, FramedAgree DEF ReadInv, Typed
  <2>3. channel # "Control"
    BY <1>3, ChannelsApart
  <2> QED BY <2>2, <2>3 DEF SameReading
<1> QED BY <1>1, <1>2, <1>3

\* A data stream reports the code of the reset that was sent on it last.
LEMMA InvResets == ReadInv => ResetCodesArrive
<1> SUFFICES ASSUME ReadInv, NEW i \in DOMAIN got, got[i].kind = "reset"
             PROVE  got[i].val = {Last(sent).val}
  BY DEF ResetCodesArrive
<1>1. CASE channel = "Control" \/ channel \in Framed
  <2>1. got \in Seq(Readings)
    <3>1. CASE channel = "Control"
      <4>1. got = AtOnce("Control", delivered).got /\ delivered \in Seq(Nat)
        BY <3>1 DEF ReadInv, ControlRead, Typed
      <4>2. PICK b, f, g : /\ AtOnce("Control", delivered) = State(b, <<>>, NoSession, f, g)
                           /\ g \in Seq(Readings)
        BY <4>1, OnceControl
      <4> QED BY <4>1, <4>2 DEF State
    <3>2. CASE channel \in Framed
      BY <3>2 DEF ReadInv, FramedRead, FramedSoFar
    <3> QED BY <1>1, <3>1, <3>2
  <2>2. got[i] \in Readings
    BY <2>1
  <2> QED BY <2>2, ReadingKinds
<1>2. CASE channel \in Streams
  <2>1. PICK x : got = <<x>> /\ (x.kind = "reset" => x.val = {Last(sent).val})
    <3>1. got # <<>>
      OBVIOUS
    <3> QED BY <1>2, <3>1 DEF ReadInv, StreamGot
  <2>2. i = 1 /\ got[i] = x
    BY <2>1
  <2> QED BY <2>1, <2>2
<1> QED BY <1>1, <1>2, ChannelsApart DEF ReadInv, Typed

\* Where the transport cuts the bytes makes no difference to what is read of them up to
\* the first error, whatever they are, of the program or of another implementation; on
\* the control stream the error is the same, too.
THEOREM PiecesCorrect == Spec => []SameInPieces
BY ReadInit, ReadStep, InvPieces, PTL DEF Spec

\* The application hears the code the peer reset the stream with.
THEOREM ResetCodesCorrect == Spec => []ResetCodesArrive
BY ReadInit, ReadStep, InvResets, PTL DEF Spec
---------------------------------------------------------------------------
(* A number that arrives byte by byte (VarintDecoder).                     *)

\* v without its last n bytes.
Shift(v, n) ==
  CASE n = 0 -> v
    [] n = 1 -> Down(v)
    [] n = 2 -> Down(Down(v))
    [] n = 3 -> Down(Down(Down(v)))
    [] n = 4 -> Down(Down(Down(Down(v))))
    [] n = 5 -> Down(Down(Down(Down(Down(v)))))
    [] n = 6 -> Down(Down(Down(Down(Down(Down(v))))))
    [] n = 7 -> Down(Down(Down(Down(Down(Down(Down(v)))))))

\* A decoder that was fed the first n bytes of v.
Fed(v, n) ==
  IF n = 0 THEN FreshDecoder
  ELSE [value |-> Shift(v, varint_len(v) - n), expected_len |-> varint_len(v), consumed |-> n]

\* The next byte of a number is what Down takes off it.
LEMMA ShiftNext ==
  ASSUME NEW v \in Nat, NEW k \in 0 .. 6
  PROVE  /\ Shift(v, k) \in Nat /\ Shift(v, k + 1) \in Nat /\ Shift(v, k + 1) = Down(Shift(v, k))
         /\ Up(Shift(v, k + 1), Low(Shift(v, k))) = Shift(v, k)
<1>1. Shift(v, k + 1) = Down(Shift(v, k))
  <2>1. k = 0 \/ k = 1 \/ k = 2 \/ k = 3 \/ k = 4 \/ k = 5 \/ k = 6
    OBVIOUS
  <2> QED BY <2>1 DEF Shift
<1>2. \A x \in Nat : Down(x) \in Nat
  BY DownUp
<1>3. Shift(v, k) \in Nat
  <2>1. k = 0 \/ k = 1 \/ k = 2 \/ k = 3 \/ k = 4 \/ k = 5 \/ k = 6
    OBVIOUS
  <2>2. /\ Shift(v, 0) = v /\ Shift(v, 1) = Down(Shift(v, 0)) /\ Shift(v, 2) = Down(Shift(v, 1))
        /\ Shift(v, 3) = Down(Shift(v, 2)) /\ Shift(v, 4) = Down(Shift(v, 3))
        /\ Shift(v, 5) = Down(Shift(v, 4)) /\ Shift(v, 6) = Down(Shift(v, 5))
    BY DEF Shift
  <2> QED BY <2>1, <2>2, <1>2
<1> QED BY <1>1, <1>3, DownUp

\* A number of n + 1 bytes is less than a quarter of what n + 1 bytes hold.
LEMMA ShiftBelow ==
  ASSUME NEW v \in 0 .. MAX_VARINT
  PROVE  v \in Nat /\ Shift(v, varint_len(v) - 1) < Quarter
<1>1. v \in Nat /\ v < Limit8
  BY LimitsGrow DEF MAX_VARINT
<1> DEFINE s(k) == Shift(v, k)
<1>2. \A k \in 0 .. 6 : s(k) \in Nat /\ s(k + 1) = Down(s(k))
  BY <1>1, ShiftNext
<1>3. s(0) = v
  BY DEF Shift
<1> HIDE DEF s
<1>4. /\ s(0) \in Nat /\ s(1) = Down(s(0)) /\ s(1) \in Nat /\ s(2) = Down(s(1)) /\ s(2) \in Nat
      /\ s(3) = Down(s(2)) /\ s(3) \in Nat /\ s(4) = Down(s(3)) /\ s(4) \in Nat
      /\ s(5) = Down(s(4)) /\ s(5) \in Nat /\ s(6) = Down(s(5)) /\ s(6) \in Nat /\ s(7) = Down(s(6))
  <2>1. 0 + 1 = 1 /\ 1 + 1 = 2 /\ 2 + 1 = 3 /\ 3 + 1 = 4 /\ 4 + 1 = 5 /\ 5 + 1 = 6 /\ 6 + 1 = 7
        /\ 0 \in 0 .. 6 /\ 1 \in 0 .. 6 /\ 2 \in 0 .. 6 /\ 3 \in 0 .. 6 /\ 4 \in 0 .. 6
        /\ 5 \in 0 .. 6 /\ 6 \in 0 .. 6
    OBVIOUS
  <2> QED BY <1>2, <2>1
<1>d. \A w, limit \in Nat : w < limit * Base => Down(w) < limit
  BY DownBelow
<1>p. \A n \in Nat : n * Base \in Nat
  BY BaseAssumption
<1>5. CASE v < Limit1
  BY <1>5, <1>3, LimitsGrow DEF varint_len, s
<1>6. CASE ~(v < Limit1) /\ v < Limit2
  <2>1. s(1) < Quarter
    BY <1>3, <1>4, <1>6, <1>d, LimitsGrow
  <2> QED BY <2>1, <1>6 DEF varint_len, s
<1>7. CASE ~(v < Limit1) /\ ~(v < Limit2) /\ v < Limit4
  <2>1. s(1) < Quarter * Base * Base
    BY <1>3, <1>4, <1>7, <1>d, <1>p, LimitsGrow
  <2>2. s(2) < Quarter * Base
    BY <1>4, <1>d, <1>p, <2>1, LimitsGrow
  <2>3. s(3) < Quarter
    BY <1>4, <1>d, <1>p, <2>2, LimitsGrow
  <2> QED BY <2>3, <1>7 DEF varint_len, s
<1>8. CASE ~(v < Limit1) /\ ~(v < Limit2) /\ ~(v < Limit4)
  <2>1. s(1) < Limit4 * Base * Base * Base
    BY <1>1, <1>3, <1>4, <1>d, <1>p, LimitsGrow
  <2>2. s(2) < Limit4 * Base * Base
    BY <1>4, <1>d, <1>p, <2>1, LimitsGrow
  <2>3. s(3) < Limit4 * Base
    BY <1>4, <1>d, <1>p, <2>2, LimitsGrow
  <2>4. s(4) < Limit4
    BY <1>4, <1>d, <1>p, <2>3, LimitsGrow
  <2>5. s(5) < Quarter * Base * Base
    BY <1>4, <1>d, <1>p, <2>4, LimitsGrow
  <2>6. s(6) < Quarter * Base
    BY <1>4, <1>d, <1>p, <2>5, LimitsGrow
  <2>7. s(7) < Quarter
    BY <1>4, <1>d, <1>p, <2>6, LimitsGrow
  <2> QED BY <2>7, <1>8 DEF varint_len, s
<1> QED BY <1>1, <1>5, <1>6, <1>7, <1>8

\* The bytes of a varint.
LEMMA ByteOf ==
  ASSUME NEW v \in 0 .. MAX_VARINT
  PROVE  LET l == varint_len(v)
             b == VarintBytes(v)
         IN /\ b[1] % Quarter = Shift(v, l - 1) /\ PrefixLen(b[1]) = l
            /\ \A n \in 1 .. l - 1 : b[n + 1] = Low(Shift(v, l - (n + 1)))
<1> DEFINE b == VarintBytes(v)
           x == Shift(v, varint_len(v) - 1)
<1>1. v \in Nat /\ varint_len(v) \in {1, 2, 4, 8} /\ x < Quarter
  BY ShiftBelow, VarintBytesType
<1>2. x \in Nat
  <2>1. \A k \in 0 .. 6 : Shift(v, k) \in Nat /\ Shift(v, k + 1) \in Nat
    BY <1>1, ShiftNext
  <2>2. Shift(v, 0) \in Nat /\ Shift(v, 1) \in Nat /\ Shift(v, 3) \in Nat /\ Shift(v, 7) \in Nat
    <3>1. 0 \in 0 .. 6 /\ 1 \in 0 .. 6 /\ 3 \in 0 .. 6 /\ 6 \in 0 .. 6 /\ 6 + 1 = 7
      OBVIOUS
    <3> QED BY <2>1, <3>1
  <2>3. 1 - 1 = 0 /\ 2 - 1 = 1 /\ 4 - 1 = 3 /\ 8 - 1 = 7
    OBVIOUS
  <2> QED BY <1>1, <2>2, <2>3
<1>3. /\ PrefixLen(x) = 1               /\ x % Quarter = x
      /\ PrefixLen(Quarter + x) = 2     /\ (Quarter + x) % Quarter = x
      /\ PrefixLen(2 * Quarter + x) = 4 /\ (2 * Quarter + x) % Quarter = x
      /\ PrefixLen(3 * Quarter + x) = 8 /\ (3 * Quarter + x) % Quarter = x
  <2> HIDE DEF x
  <2> QED BY <1>1, <1>2, FirstByte
<1>4. CASE varint_len(v) = 1
  <2>1. x = v /\ b = <<v>>
    BY <1>4 DEF Shift, VarintBytes
  <2>2. b[1] = x
    BY <2>1
  <2>3. \A n \in 1 .. 0 : FALSE
    OBVIOUS
  <2> HIDE DEF b, x
  <2> QED BY <2>2, <2>3, <1>3, <1>4 DEF b, x
<1>5. CASE varint_len(v) = 2
  <2>1. x = Down(v) /\ b = <<Quarter + Down(v), Low(v)>>
    BY <1>5, VarintOfLength DEF Shift
  <2> HIDE DEF b, x
  <2>2. b[1] = Quarter + x /\ b[2] = Low(Shift(v, 0))
    BY <2>1 DEF Shift
  <2>3. \A n \in 1 .. 2 - 1 : n = 1 /\ n + 1 = 2 /\ 2 - (n + 1) = 0
    OBVIOUS
  <2>4. \A n \in 1 .. 2 - 1 : b[n + 1] = Low(Shift(v, 2 - (n + 1)))
    BY <2>2, <2>3
  <2> QED BY <2>2, <2>4, <1>3, <1>5 DEF b, x
<1>6. CASE varint_len(v) = 4
  <2>1. x = Down(Down(Down(v)))
        /\ b = <<2 * Quarter + Down(Down(Down(v))), Low(Down(Down(v))), Low(Down(v)), Low(v)>>
    BY <1>6, VarintOfLength DEF Shift
  <2>2. b[1] = 2 * Quarter + x /\ b[2] = Low(Shift(v, 2)) /\ b[3] = Low(Shift(v, 1))
        /\ b[4] = Low(Shift(v, 0))
    <3> HIDE DEF b, x
    <3> QED BY <2>1 DEF Shift
  <2> HIDE DEF b, x
  <2>3. \A n \in 1 .. 4 - 1 : \/ n = 1 /\ n + 1 = 2 /\ 4 - (n + 1) = 2
                              \/ n = 2 /\ n + 1 = 3 /\ 4 - (n + 1) = 1
                              \/ n = 3 /\ n + 1 = 4 /\ 4 - (n + 1) = 0
    OBVIOUS
  <2>4. \A n \in 1 .. 4 - 1 : b[n + 1] = Low(Shift(v, 4 - (n + 1)))
    BY <2>2, <2>3
  <2> QED BY <2>2, <2>4, <1>3, <1>6 DEF b, x
<1>7. CASE varint_len(v) = 8
  <2>1. /\ x = Down(Down(Down(Down(Down(Down(Down(v)))))))
        /\ b = <<3 * Quarter + Down(Down(Down(Down(Down(Down(Down(v))))))),
                 Low(Down(Down(Down(Down(Down(Down(v))))))),
                 Low(Down(Down(Down(Down(Down(v)))))),
                 Low(Down(Down(Down(Down(v))))), Low(Down(Down(Down(v)))),
                 Low(Down(Down(v))), Low(Down(v)), Low(v)>>
    BY <1>7, VarintOfLength DEF Shift
  <2>2. /\ b[1] = 3 * Quarter + x /\ b[2] = Low(Shift(v, 6)) /\ b[3] = Low(Shift(v, 5))
        /\ b[4] = Low(Shift(v, 4)) /\ b[5] = Low(Shift(v, 3)) /\ b[6] = Low(Shift(v, 2))
        /\ b[7] = Low(Shift(v, 1)) /\ b[8] = Low(Shift(v, 0))
    <3> HIDE DEF b, x
    <3> QED BY <2>1 DEF Shift
  <2> HIDE DEF b, x
  <2>3. \A n \in 1 .. 8 - 1 : \/ n = 1 /\ n + 1 = 2 /\ 8 - (n + 1) = 6
                              \/ n = 2 /\ n + 1 = 3 /\ 8 - (n + 1) = 5
                              \/ n = 3 /\ n + 1 = 4 /\ 8 - (n + 1) = 4
                              \/ n = 4 /\ n + 1 = 5 /\ 8 - (n + 1) = 3
                              \/ n = 5 /\ n + 1 = 6 /\ 8 - (n + 1) = 2
                              \/ n = 6 /\ n + 1 = 7 /\ 8 - (n + 1) = 1
                              \/ n = 7 /\ n + 1 = 8 /\ 8 - (n + 1) = 0
    OBVIOUS
  <2>4. \A n \in 1 .. 8 - 1 : b[n + 1] = Low(Shift(v, 8 - (n + 1)))
    BY <2>2, <2>3
  <2> QED BY <2>2, <2>4, <1>3, <1>7 DEF b, x
<1> QED BY <1>1, <1>4, <1>5, <1>6, <1>7

\* The next byte of a number is fed to its decoder.
LEMMA FedNext ==
  ASSUME NEW v \in 0 .. MAX_VARINT, NEW n \in 0 .. varint_len(v) - 1
  PROVE  /\ FeedByte(Fed(v, n), VarintBytes(v)[n + 1]) = Fed(v, n + 1)
         /\ IsComplete(Fed(v, n + 1)) <=> n + 1 = varint_len(v)
<1> DEFINE l == varint_len(v)
           b == VarintBytes(v)
<1>1. l \in {1, 2, 4, 8} /\ v \in Nat
  BY VarintBytesType, ShiftBelow
<1>2. /\ b[1] % Quarter = Shift(v, l - 1) /\ PrefixLen(b[1]) = l
      /\ \A m \in 1 .. l - 1 : b[m + 1] = Low(Shift(v, l - (m + 1)))
  BY ByteOf
<1> HIDE DEF b
<1>3. n \in Nat /\ n + 1 # 0 /\ n < l
  BY <1>1
<1>4. Fed(v, n + 1) = [value |-> Shift(v, l - (n + 1)), expected_len |-> l, consumed |-> n + 1]
  BY <1>3 DEF Fed
<1> HIDE DEF l
<1>5. IsComplete(Fed(v, n + 1)) <=> n + 1 = l
  BY <1>4 DEF IsComplete
<1>6. FeedByte(Fed(v, n), b[n + 1]) = Fed(v, n + 1)
  <2>1. CASE n = 0
    <3>1. Fed(v, n).consumed = 0
      BY <2>1 DEF Fed, FreshDecoder
    <3>2. FeedByte(Fed(v, n), b[1]) = [value |-> b[1] % Quarter, expected_len |-> PrefixLen(b[1]), consumed |-> 1]
      BY <3>1 DEF FeedByte
    <3>3. n + 1 = 1
      BY <2>1
    <3> QED BY <3>2, <3>3, <1>2, <1>4
  <2>2. CASE n # 0
    <3> DEFINE k == l - (n + 1)
               d == [value |-> Shift(v, l - n), expected_len |-> l, consumed |-> n]
    <3>1. Fed(v, n) = d
      BY <2>2 DEF Fed, l
    <3>2. k \in 0 .. 6 /\ k + 1 = l - n /\ n \in 1 .. l - 1
      BY <2>2, <1>1, <1>3
    <3> HIDE DEF k
    <3>3. Up(Shift(v, k + 1), Low(Shift(v, k))) = Shift(v, k)
      BY <1>1, <3>2, ShiftNext
    <3>4. b[n + 1] = Low(Shift(v, k))
      BY <1>2, <3>2 DEF k
    <3> DEFINE a == Shift(v, l - n)
               c == b[n + 1]
    <3>5. Up(a, c) = Shift(v, k)
      BY <3>2, <3>3, <3>4
    <3> HIDE DEF a, c
    <3>6. FeedByte(d, c) = [value |-> Up(a, c), expected_len |-> l, consumed |-> n + 1]
      <4>1. d = [value |-> a, expected_len |-> l, consumed |-> n]
        BY DEF a
      <4> HIDE DEF d
      <4>2. d.consumed # 0
        BY <4>1, <2>2
      <4>3. FeedByte(d, c) = [d EXCEPT !.value = Up(@, c), !.consumed = @ + 1]
        BY <4>2 DEF FeedByte
      <4>4. [d EXCEPT !.value = Up(@, c)] = [value |-> Up(a, c), expected_len |-> l, consumed |-> n]
        BY <4>1
      <4> DEFINE e == [d EXCEPT !.value = Up(@, c)]
      <4>5. [e EXCEPT !.consumed = @ + 1] = [value |-> Up(a, c), expected_len |-> l, consumed |-> n + 1]
        <5> HIDE DEF e
        <5>1. e = [value |-> Up(a, c), expected_len |-> l, consumed |-> n]
          BY <4>4 DEF e
        <5> QED BY <5>1
      <4>6. [d EXCEPT !.value = Up(@, c), !.consumed = @ + 1] = [e EXCEPT !.consumed = @ + 1]
        BY <4>1
      <4> QED BY <4>3, <4>5, <4>6
    <3> HIDE DEF d
    <3> QED BY <3>1, <3>5, <3>6, <1>4 DEF k, c
  <2> QED BY <2>1, <2>2
<1> QED BY <1>5, <1>6 DEF l, b

\* A decoder that was fed all of it has the number.
LEMMA FedAll ==
  ASSUME NEW v \in Nat
  PROVE  Fed(v, varint_len(v)).value = v /\ Fed(v, varint_len(v)).consumed = varint_len(v)
<1>1. varint_len(v) \in {1, 2, 4, 8}
  BY VarintBytesType
<1> DEFINE l == varint_len(v)
<1>2. l - l = 0 /\ l # 0
  BY <1>1
<1>3. Fed(v, l) = [value |-> Shift(v, l - l), expected_len |-> l, consumed |-> l]
  BY <1>2 DEF Fed
<1>4. Shift(v, l - l) = v
  BY <1>2 DEF Shift
<1> HIDE DEF l
<1> QED BY <1>3, <1>4 DEF l
---------------------------------------------------------------------------
(* The header of a data stream that arrives byte by byte (parse_header).   *)

StreamRec(type, session_id, header_len, header_state, signal, id) ==
  [stream_type |-> type, session_id |-> session_id, header_len |-> header_len,
   header_state |-> header_state, signal |-> signal, id |-> id]

SignalLen(type) == varint_len(SIGNAL[type])
HeaderLen(type, id) == SignalLen(type) + varint_len(id)

\* The stream after the first n bytes of a header with session id `id'; `signal' is what
\* its decoder of signals is when the session id is read.
StreamAt(type, id, signal, n) ==
  IF n < SignalLen(type)
  THEN StreamRec(type, 0, 0, "AwaitingSignal", Fed(SIGNAL[type], n), FreshDecoder)
  ELSE IF n < HeaderLen(type, id)
  THEN StreamRec(type, 0, SignalLen(type), "AwaitingSessionId", signal, Fed(id, n - SignalLen(type)))
  ELSE StreamRec(type, id, HeaderLen(type, id), "Done", signal, Fed(id, varint_len(id)))

SignalFed(s, d) == [s EXCEPT !.signal = d]
Signalled(s, d) == [s EXCEPT !.header_len = d.consumed, !.header_state = "AwaitingSessionId"]
IdFed(s, d) == [s EXCEPT !.id = d]
Opened(s, d) ==
  [s EXCEPT !.session_id = d.value, !.header_len = @ + d.consumed, !.header_state = "Done"]

\* The fields a byte changes.
LEMMA StreamFed ==
  ASSUME NEW t, NEW s, NEW l, NEW h, NEW g, NEW i, NEW d
  PROVE  /\ SignalFed(StreamRec(t, s, l, h, g, i), d) = StreamRec(t, s, l, h, d, i)
         /\ Signalled(StreamRec(t, s, l, h, g, i), d) =
              StreamRec(t, s, d.consumed, "AwaitingSessionId", g, i)
         /\ IdFed(StreamRec(t, s, l, h, g, i), d) = StreamRec(t, s, l, h, g, d)
         /\ Opened(StreamRec(t, s, l, h, g, i), d) =
              StreamRec(t, d.value, l + d.consumed, "Done", g, i)
<1> DEFINE r == StreamRec(t, s, l, h, g, i)
           c == d.consumed
           v == d.value
<1>1. r = [stream_type |-> t, session_id |-> s, header_len |-> l, header_state |-> h,
           signal |-> g, id |-> i]
  BY DEF StreamRec
<1> HIDE DEF r, c, v
<1>2. [r EXCEPT !.signal = d] = StreamRec(t, s, l, h, d, i)
  BY <1>1 DEF StreamRec
<1>3. [r EXCEPT !.id = d] = StreamRec(t, s, l, h, g, d)
  BY <1>1 DEF StreamRec
<1>4. [r EXCEPT !.header_len = c, !.header_state = "AwaitingSessionId"]
        = StreamRec(t, s, c, "AwaitingSessionId", g, i)
  <2> DEFINE e == [r EXCEPT !.header_len = c]
  <2>1. e = [stream_type |-> t, session_id |-> s, header_len |-> c, header_state |-> h,
             signal |-> g, id |-> i]
    BY <1>1
  <2>2. [r EXCEPT !.header_len = c, !.header_state = "AwaitingSessionId"]
          = [e EXCEPT !.header_state = "AwaitingSessionId"]
    BY <1>1
  <2> HIDE DEF e
  <2> QED BY <2>1, <2>2 DEF StreamRec
<1>5. [r EXCEPT !.session_id = v, !.header_len = @ + c, !.header_state = "Done"]
        = StreamRec(t, v, l + c, "Done", g, i)
  <2> DEFINE e == [r EXCEPT !.session_id = v]
             f == [e EXCEPT !.header_len = @ + c]
  <2>1. e = [stream_type |-> t, session_id |-> v, header_len |-> l, header_state |-> h,
             signal |-> g, id |-> i]
    BY <1>1
  <2>2. f = [stream_type |-> t, session_id |-> v, header_len |-> l + c, header_state |-> h,
             signal |-> g, id |-> i]
    <3> HIDE DEF e
    <3> QED BY <2>1
  <2>3. [r EXCEPT !.session_id = v, !.header_len = @ + c, !.header_state = "Done"]
          = [f EXCEPT !.header_state = "Done"]
    BY <1>1
  <2> HIDE DEF e, f
  <2> QED BY <2>2, <2>3 DEF StreamRec
<1> QED BY <1>2, <1>3, <1>4, <1>5 DEF SignalFed, Signalled, IdFed, Opened, r, c, v

\* The next byte of a header; what follows the header is not read.
NextByteRead(type, id, signal, n, c, byte) ==
  HeaderByte(Parsed(StreamAt(type, id, signal, n), c, "None"), byte) =
    Parsed(StreamAt(type, id, signal, n + 1), IF n < HeaderLen(type, id) THEN c + 1 ELSE c, "None")

\* The parts of a header are not empty.
LEMMA SignalLens ==
  ASSUME NEW type \in Streams, NEW id \in 0 .. MAX_VARINT
  PROVE  /\ SIGNAL[type] \in 0 .. MAX_VARINT /\ id \in Nat
         /\ SignalLen(type) \in Nat \ {0} /\ varint_len(id) \in Nat \ {0}
         /\ HeaderLen(type, id) \in Nat
<1>1. SIGNAL[type] \in 0 .. MAX_VARINT
  BY CodePoints DEF Streams
<1>2. SIGNAL[type] \in Nat /\ id \in Nat
  BY <1>1, LimitsGrow DEF MAX_VARINT
<1>3. varint_len(SIGNAL[type]) \in {1, 2, 4, 8} /\ varint_len(id) \in {1, 2, 4, 8}
  BY <1>2, VarintBytesType
<1> QED BY <1>1, <1>2, <1>3 DEF SignalLen, HeaderLen

\* A byte of the signal.
LEMMA SignalByteRead ==
  ASSUME NEW type \in Streams, NEW id \in 0 .. MAX_VARINT, NEW n \in 0 .. SignalLen(type) - 1,
         NEW c
  PROVE  NextByteRead(type, id, Fed(SIGNAL[type], SignalLen(type)), n, c,
                      VarintBytes(SIGNAL[type])[n + 1])
<1> DEFINE v == SIGNAL[type]
           l == SignalLen(type)
           g == Fed(v, l)
           byte == VarintBytes(v)[n + 1]
           a == Fed(v, n)
           d == FeedByte(a, byte)
           s == StreamRec(type, 0, 0, "AwaitingSignal", a, FreshDecoder)
           t == StreamRec(type, 0, 0, "AwaitingSignal", d, FreshDecoder)
           p == Parsed(s, c, "None")
<1>1. v \in 0 .. MAX_VARINT /\ v \in Nat /\ l \in Nat \ {0} /\ varint_len(id) \in Nat \ {0} /\ id \in Nat
  <2>1. v \in 0 .. MAX_VARINT
    BY SignalLens
  <2> QED BY <2>1, SignalLens, LimitsGrow DEF MAX_VARINT
<1>2. d = Fed(v, n + 1) /\ (IsComplete(d) <=> n + 1 = l)
  <2>1. n \in 0 .. varint_len(v) - 1
    BY DEF SignalLen
  <2> QED BY <2>1, <1>1, FedNext DEF SignalLen
<1>3. n \in Nat /\ n < l /\ n + 1 \in Nat /\ HeaderLen(type, id) = l + varint_len(id) /\ n < HeaderLen(type, id)
  BY <1>1 DEF HeaderLen
<1>4. StreamAt(type, id, g, n) = s
  BY <1>3 DEF StreamAt
<1> HIDE DEF v, l, g, byte, a, d
<1>5. p.stream = s /\ p.consumed = c /\ p.err = "None"
  BY DEF Parsed
<1>6. s.header_state = "AwaitingSignal" /\ s.signal = a /\ t.stream_type = type
  BY DEF StreamRec
<1>7. SignalFed(s, d) = t
  BY StreamFed
<1> HIDE DEF p
<1>8. HeaderByte(p, byte) = SignalByte(p, byte)
  BY <1>5, <1>6 DEF HeaderByte, Failed
<1> HIDE DEF s
<1>9. SignalByte(p, byte) =
        IF ~IsComplete(d) THEN Parsed(t, c + 1, "None")
        ELSE IF d.value # SIGNAL[type] THEN Parsed(t, c, "ProtocolViolation")
        ELSE Parsed(Signalled(t, d), c + 1, "None")
  <2>1. [s EXCEPT !.signal = d] = t
    BY <1>7 DEF SignalFed
  <2> HIDE DEF t
  <2> QED BY <1>5, <1>6, <2>1 DEF SignalByte, Signalled, d
<1>10. CASE n + 1 < l
  <2>1. ~IsComplete(d)
    BY <1>1, <1>2, <1>3, <1>10
  <2>2. StreamAt(type, id, g, n + 1) = t
    BY <1>2, <1>10 DEF StreamAt, l, v
  <2> HIDE DEF t
  <2> QED BY <2>1, <2>2, <1>3, <1>4, <1>8, <1>9 DEF NextByteRead, p, v, l, g, byte
<1>11. CASE n + 1 = l
  <2>1. IsComplete(d) /\ d = g /\ d.value = v /\ d.consumed = l
    <3>1. g.value = v /\ g.consumed = l
      BY <1>1, FedAll DEF g, l, SignalLen, v
    <3> QED BY <3>1, <1>2, <1>11 DEF g
  <2>2. Signalled(t, d) = StreamRec(type, 0, l, "AwaitingSessionId", d, FreshDecoder)
    BY <2>1, StreamFed
  <2>3. n + 1 < HeaderLen(type, id) /\ ~(n + 1 < l) /\ (n + 1) - l = 0
    BY <1>1, <1>3, <1>11
  <2>4. Fed(id, 0) = FreshDecoder
    BY DEF Fed
  <2>5. StreamAt(type, id, g, n + 1) = StreamRec(type, 0, l, "AwaitingSessionId", g, Fed(id, (n + 1) - l))
    BY <2>3 DEF StreamAt, l
  <2>6. StreamAt(type, id, g, n + 1) = Signalled(t, d)
    BY <2>1, <2>2, <2>3, <2>4, <2>5
  <2> HIDE DEF t
  <2> QED BY <2>1, <2>6, <1>3, <1>4, <1>8, <1>9 DEF NextByteRead, p, v, l, g, byte
<1> QED BY <1>1, <1>3, <1>10, <1>11

\* A byte of the session id.
LEMMA SessionIdByteRead ==
  ASSUME NEW type \in Streams, NEW id \in 0 .. MAX_VARINT, NEW signal,
         NEW n \in SignalLen(type) .. HeaderLen(type, id) - 1, NEW c
  PROVE  NextByteRead(type, id, signal, n, c, VarintBytes(id)[(n - SignalLen(type)) + 1])
<1> DEFINE l == SignalLen(type)
           m == n - l
           byte == VarintBytes(id)[m + 1]
           a == Fed(id, m)
           d == FeedByte(a, byte)
           s == StreamRec(type, 0, l, "AwaitingSessionId", signal, a)
           t == StreamRec(type, 0, l, "AwaitingSessionId", signal, d)
           p == Parsed(s, c, "None")
<1>1. /\ id \in Nat /\ l \in Nat \ {0} /\ varint_len(id) \in Nat \ {0} /\ n \in Nat
      /\ HeaderLen(type, id) = l + varint_len(id)
  BY SignalLens DEF HeaderLen
<1>2. /\ m \in 0 .. varint_len(id) - 1 /\ ~(n < l) /\ n < HeaderLen(type, id)
      /\ ~(n + 1 < l) /\ (n + 1) - l = m + 1 /\ (n + 1 < HeaderLen(type, id) <=> m + 1 < varint_len(id))
      /\ (m + 1 = varint_len(id) \/ m + 1 < varint_len(id))
      /\ (m + 1 = varint_len(id) => ~(m + 1 < varint_len(id)))
  BY <1>1
<1>3. d = Fed(id, m + 1) /\ (IsComplete(d) <=> m + 1 = varint_len(id))
  BY <1>2, FedNext
<1>4. StreamAt(type, id, signal, n) = s
  BY <1>2 DEF StreamAt
<1> HIDE DEF l, m, byte, a, d
<1>5. p.stream = s /\ p.consumed = c /\ p.err = "None"
  BY DEF Parsed
<1>6. s.header_state = "AwaitingSessionId" /\ s.id = a
  BY DEF StreamRec
<1>7. IdFed(s, d) = t
  BY StreamFed
<1> HIDE DEF p
<1>8. HeaderByte(p, byte) = SessionIdByte(p, byte)
  BY <1>5, <1>6 DEF HeaderByte, Failed
<1> HIDE DEF s
<1>9. SessionIdByte(p, byte) = Parsed(IF ~IsComplete(d) THEN t ELSE Opened(t, d), c + 1, "None")
  <2>1. [s EXCEPT !.id = d] = t
    BY <1>7 DEF IdFed
  <2> HIDE DEF t
  <2> QED BY <1>5, <1>6, <2>1 DEF SessionIdByte, Opened, d
<1>10. CASE m + 1 < varint_len(id)
  <2>1. ~IsComplete(d)
    BY <1>2, <1>3, <1>10
  <2>2. StreamAt(type, id, signal, n + 1) = t
    BY <1>2, <1>3, <1>10 DEF StreamAt, l
  <2> HIDE DEF t
  <2> QED BY <2>1, <2>2, <1>2, <1>4, <1>8, <1>9 DEF NextByteRead, p, l, m, byte
<1>11. CASE m + 1 = varint_len(id)
  <2>1. IsComplete(d) /\ d = Fed(id, varint_len(id))
    BY <1>3, <1>11
  <2>2. d.value = id /\ d.consumed = varint_len(id)
    BY <2>1, <1>1, FedAll
  <2>3. Opened(t, d) = StreamRec(type, id, HeaderLen(type, id), "Done", signal, d)
    BY <2>2, <1>1, StreamFed
  <2>4. StreamAt(type, id, signal, n + 1) = StreamRec(type, id, HeaderLen(type, id), "Done", signal, d)
    BY <2>1, <1>2, <1>11 DEF StreamAt, l
  <2>5. StreamAt(type, id, signal, n + 1) = Opened(t, d)
    BY <2>3, <2>4
  <2> HIDE DEF t
  <2> QED BY <2>1, <2>5, <1>2, <1>4, <1>8, <1>9 DEF NextByteRead, p, l, m, byte
<1> QED BY <1>2, <1>10, <1>11

\* A byte after the header.
LEMMA DataByteRead ==
  ASSUME NEW type \in Streams, NEW id \in 0 .. MAX_VARINT, NEW signal, NEW n \in Nat,
         n >= HeaderLen(type, id), NEW c, NEW byte
  PROVE  NextByteRead(type, id, signal, n, c, byte)
<1> DEFINE s == StreamAt(type, id, signal, n)
           p == Parsed(s, c, "None")
<1>1. /\ SignalLen(type) \in Nat \ {0} /\ varint_len(id) \in Nat \ {0}
      /\ HeaderLen(type, id) = SignalLen(type) + varint_len(id)
  BY SignalLens DEF HeaderLen
<1>2. /\ ~(n < SignalLen(type)) /\ ~(n < HeaderLen(type, id))
      /\ ~(n + 1 < SignalLen(type)) /\ ~(n + 1 < HeaderLen(type, id))
  BY <1>1
<1>3. s = StreamRec(type, id, HeaderLen(type, id), "Done", signal, Fed(id, varint_len(id)))
      /\ StreamAt(type, id, signal, n + 1) = s
  BY <1>2 DEF StreamAt
<1> HIDE DEF s
<1>4. p.stream = s /\ p.err = "None" /\ s.header_state = "Done"
  BY <1>3 DEF Parsed, StreamRec
<1> HIDE DEF p
<1>5. HeaderByte(p, byte) = p
  BY <1>4 DEF HeaderByte
<1> QED BY <1>2, <1>3, <1>5 DEF NextByteRead, s, p

\* The bytes of the header `id' is the session id of, and then anything.
IsHeader(type, id, bytes) ==
  \A i \in 1 .. Len(bytes) :
    /\ i <= SignalLen(type) => bytes[i] = VarintBytes(SIGNAL[type])[i]
    /\ i > SignalLen(type) /\ i <= HeaderLen(type, id) =>
         bytes[i] = VarintBytes(id)[i - SignalLen(type)]

\* The decoder of signals once the signal is read; that of a unidirectional stream is
\* not used.
SignalOf(type) == IF type = "Uni" THEN FreshDecoder ELSE Fed(SIGNAL[type], SignalLen(type))

HeaderFirst(c) == Parsed(c.stream, 0, "None")
HeaderNext(c, acc, n) == HeaderByte(acc, c.data[n])

HeaderLoop == INSTANCE Recursion WITH First <- HeaderFirst, Step <- HeaderNext

\* parse_header goes on from the first n bytes with the next bytes.  A stream whose
\* signal is not read yet is a bidirectional one.
LEMMA HeaderRead ==
  ASSUME NEW type \in Streams, NEW id \in 0 .. MAX_VARINT, NEW all \in Seq(Nat),
         IsHeader(type, id, all), NEW n \in 0 .. Len(all), NEW data \in Seq(Nat),
         n + Len(data) <= Len(all), \A i \in 1 .. Len(data) : data[i] = all[n + i],
         n < SignalLen(type) => type = "Bidi"
  PROVE  LET h == HeaderLen(type, id)
             m == n + Len(data)
         IN parse_header(StreamAt(type, id, SignalOf(type), n), data) =
              Parsed(StreamAt(type, id, SignalOf(type), m),
                     IF m <= h THEN Len(data) ELSE IF n <= h THEN h - n ELSE 0, "None")
<1> DEFINE h == HeaderLen(type, id)
           g == SignalOf(type)
           s == StreamAt(type, id, g, n)
           c == [stream |-> s, data |-> data]
           N == Len(data)
           M == Len(all)
           l == SignalLen(type)
           L(k) == HeaderLoop!Loop(c, k)
           used(k) == IF n + k <= h THEN k ELSE IF n <= h THEN h - n ELSE 0
           T == {k \in Nat : k <= Len(data) =>
                   L(k) = Parsed(StreamAt(type, id, g, n + k), used(k), "None")}
<1>1. /\ SignalLen(type) \in Nat \ {0} /\ varint_len(id) \in Nat \ {0} /\ h \in Nat
      /\ h = SignalLen(type) + varint_len(id) /\ n \in Nat /\ Len(data) \in Nat /\ Len(all) \in Nat
  <2>1. Len(all) \in Nat /\ Len(data) \in Nat
    BY LenProperties
  <2> QED BY <2>1, SignalLens DEF HeaderLen
<1>n. N \in Nat /\ M \in Nat /\ n \in Nat /\ n + N <= M /\ h \in Nat /\ l \in Nat
  BY <1>1
<1> HIDE DEF g, h, N, M, l
<1>2. parse_header(s, data) = L(Len(data))
  <2>1. c.stream = s /\ c.data = data
    OBVIOUS
  <2> HIDE DEF s, c
  <2> QED BY <2>1 DEF parse_header, HeaderLoop!Loop, HeaderFirst, HeaderNext
<1>3. L(0) = Parsed(s, 0, "None")
  <2>1. HeaderFirst(c) = Parsed(s, 0, "None")
    BY DEF HeaderFirst
  <2> HIDE DEF c, s
  <2> QED BY <2>1, HeaderLoop!LoopZero
<1>4. \A k \in Nat : L(k + 1) = HeaderByte(L(k), data[k + 1])
  <2>1. c.data = data
    OBVIOUS
  <2> HIDE DEF c
  <2> QED BY <2>1, HeaderLoop!LoopNext DEF HeaderNext
<1> HIDE DEF L
<1>5. 0 \in T
  <2>1. n + 0 = n /\ used(0) = 0
    BY <1>1
  <2> HIDE DEF used
  <2> QED BY <2>1, <1>3
<1>6. ASSUME NEW k \in Nat, k \in T PROVE k + 1 \in T
  <2> SUFFICES ASSUME k + 1 <= Len(data)
               PROVE  L(k + 1) = Parsed(StreamAt(type, id, g, n + (k + 1)), used(k + 1), "None")
    OBVIOUS
  <2>1. L(k) = Parsed(StreamAt(type, id, g, n + k), used(k), "None")
    BY <1>1, <1>6
  <2> HIDE DEF T
  <2> DEFINE byte == data[k + 1]
             j == n + k
  <2>2. /\ k + 1 \in 1 .. Len(data) /\ j \in Nat /\ j + 1 \in 1 .. Len(all) /\ n + (k + 1) = j + 1
    <3>1. k + 1 <= N
      BY DEF N
    <3>2. k + 1 \in 1 .. N /\ j \in Nat /\ j + 1 \in 1 .. M /\ n + (k + 1) = j + 1
      BY <1>n, <3>1
    <3> QED BY <3>2 DEF N, M
  <2>3. byte = all[j + 1]
    <3>1. data[k + 1] = all[n + (k + 1)]
      BY <2>2
    <3> QED BY <2>2, <3>1
  <2>4. NextByteRead(type, id, g, j, used(k), byte)
    <3> HIDE DEF used, byte
    <3>1. CASE j < SignalLen(type)
      <4>1. j \in 0 .. SignalLen(type) - 1 /\ j + 1 <= SignalLen(type) /\ n < SignalLen(type)
        <5>1. j < l
          BY <3>1 DEF l
        <5>2. j \in 0 .. l - 1 /\ j + 1 <= l /\ n < l
          BY <5>1, <1>n
        <5> QED BY <5>2 DEF l
      <4> HIDE DEF j
      <4>2. byte = VarintBytes(SIGNAL[type])[j + 1]
        BY <4>1, <2>2, <2>3 DEF IsHeader
      <4>3. g = Fed(SIGNAL[type], SignalLen(type))
        BY <4>1 DEF g, SignalOf
      <4> QED BY <4>1, <4>2, <4>3, SignalByteRead
    <3>2. CASE ~(j < SignalLen(type)) /\ j < h
      <4>1. j \in SignalLen(type) .. HeaderLen(type, id) - 1 /\ j + 1 > SignalLen(type)
            /\ j + 1 <= HeaderLen(type, id) /\ (j + 1) - SignalLen(type) = (j - SignalLen(type)) + 1
        <5>1. ~(j < l) /\ j < h
          BY <3>2 DEF l
        <5>2. j \in l .. h - 1 /\ j + 1 > l /\ j + 1 <= h /\ (j + 1) - l = (j - l) + 1
          BY <5>1, <1>n
        <5> QED BY <5>2 DEF l, h
      <4> HIDE DEF j
      <4>2. byte = VarintBytes(id)[(j - SignalLen(type)) + 1]
        <5>1. all[j + 1] = VarintBytes(id)[(j + 1) - SignalLen(type)]
          BY <4>1, <2>2, Zenon DEF IsHeader
        <5>2. (j + 1) - SignalLen(type) = (j - SignalLen(type)) + 1
          BY <4>1
        <5> QED BY <5>1, <5>2, <2>3, Zenon
      <4> QED BY <4>1, <4>2, SessionIdByteRead
    <3>3. CASE j >= h
      <4>1. j \in Nat /\ j >= HeaderLen(type, id)
        <5> HIDE DEF j
        <5> QED BY <3>3, <2>2 DEF h
      <4> HIDE DEF j, g, h
      <4>2. \A m \in Nat : m >= HeaderLen(type, id) =>
              \A signal, count, b : NextByteRead(type, id, signal, m, count, b)
        BY DataByteRead
      <4> QED BY <4>1, <4>2, Zenon
    <3> QED BY <3>1, <3>2, <3>3, <2>2, <1>1
  <2>5. used(k + 1) = IF j < h THEN used(k) + 1 ELSE used(k)
    <3>1. k \in Nat /\ n \in Nat /\ h \in Nat
      BY <1>n
    <3>2. CASE n + k < h
      BY <3>1, <3>2, SMTT(40)
    <3>3. CASE n + k = h
      BY <3>1, <3>3, SMTT(40)
    <3>4. CASE n + k > h
      BY <3>1, <3>4, SMTT(40)
    <3> QED BY <3>1, <3>2, <3>3, <3>4
  <2> HIDE DEF used, j, byte
  <2>6. L(k + 1) = HeaderByte(Parsed(StreamAt(type, id, g, j), used(k), "None"), byte)
    BY <1>4, <2>1 DEF j, byte
  <2> QED BY <2>2, <2>4, <2>5, <2>6 DEF NextByteRead, h
<1> HIDE DEF T
<1>7. \A k \in Nat : k \in T
  BY <1>5, <1>6, HeaderLoop!Induction
<1>8. L(Len(data)) = Parsed(StreamAt(type, id, g, n + Len(data)), used(Len(data)), "None")
  <2>1. Len(data) \in T /\ Len(data) <= Len(data)
    BY <1>1, <1>7
  <2> HIDE DEF used
  <2> QED BY <2>1 DEF T
<1> QED BY <1>2, <1>8 DEF g, h
---------------------------------------------------------------------------
(* What a data stream has read.                                            *)

\* `data' is what follows the first n bytes of `all'.
Follows(data, all, n) ==
  n + Len(data) <= Len(all) /\ \A i \in 1 .. Len(data) : data[i] = all[n + i]

\* The application has what follows the first h of the first n bytes.
AppHas(app, all, h, n) ==
  /\ app \in Seq(Nat) /\ Len(app) = IF n <= h THEN 0 ELSE n - h
  /\ \A i \in 1 .. Len(app) : app[i] = all[h + i]

\* The reader after the first n bytes, which have the signal and more.
HasRead(r, type, id, all, n) ==
  /\ r.classified = TRUE /\ n >= SignalLen(type)
  /\ r.stream = StreamAt(type, id, SignalOf(type), n)
  /\ AppHas(r.app, all, HeaderLen(type, id), n)

\* The bytes of `data' that belong to the header of h bytes, n of which came before.
Used(n, data, h) == IF n + Len(data) <= h THEN Len(data) ELSE IF n <= h THEN h - n ELSE 0

\* What is not of the header is for the application.
LEMMA AppRead ==
  ASSUME NEW all \in Seq(Nat), NEW n \in Nat, NEW h \in Nat, NEW data \in Seq(Nat),
         Follows(data, all, n), NEW app, AppHas(app, all, h, n)
  PROVE  AppHas(IF n + Len(data) >= h THEN app \o SubSeq(data, Used(n, data, h) + 1, Len(data))
                ELSE app, all, h, n + Len(data))
<1> DEFINE N == Len(data)
           u == Used(n, data, h)
           rest == SubSeq(data, u + 1, N)
           A == Len(app)
           b == app \o rest
<1>1. /\ N \in Nat /\ app \in Seq(Nat) /\ A \in Nat /\ A = IF n <= h THEN 0 ELSE n - h
      /\ \A i \in 1 .. A : app[i] = all[h + i]
  BY LenProperties DEF AppHas
<1>2. u \in 0 .. N /\ (n + N >= h => u + n >= h /\ A + (N - u) = (n + N) - h /\ n + u = h + A)
  <2>1. N \in Nat /\ n \in Nat /\ h \in Nat
    BY <1>1
  <2>2. u = IF n + N <= h THEN N ELSE IF n <= h THEN h - n ELSE 0
    BY DEF Used
  <2>3. A = IF n <= h THEN 0 ELSE n - h
    BY <1>1
  <2> HIDE DEF N, u, A
  <2>4. CASE n + N <= h
    BY <2>1, <2>2, <2>3, <2>4
  <2>5. CASE n + N > h /\ n <= h
    BY <2>1, <2>2, <2>3, <2>5
  <2>6. CASE n > h
    BY <2>1, <2>2, <2>3, <2>6
  <2> QED BY <2>1, <2>4, <2>5, <2>6
<1>3. \A i \in 1 .. N : data[i] = all[n + i]
  BY DEF Follows
<1> HIDE DEF N, u, A
<1>4. rest \in Seq(Nat) /\ Len(rest) = N - u /\ \A i \in 1 .. N - u : rest[i] = data[u + i]
  BY <1>2, RestOf DEF N
<1> HIDE DEF rest
<1>5. CASE n + N >= h
  <2>1. /\ b \in Seq(Nat) /\ Len(b) = A + (N - u)
        /\ \A i \in 1 .. A + (N - u) : b[i] = IF i <= A THEN app[i] ELSE rest[i - A]
    <3>1. /\ b \in Seq(Nat) /\ Len(b) = Len(app) + Len(rest)
          /\ \A i \in 1 .. Len(app) + Len(rest) : b[i] = IF i <= Len(app) THEN app[i] ELSE rest[i - Len(app)]
      BY <1>1, <1>4, ConcatProperties
    <3> QED BY <3>1, <1>4 DEF A
  <2> HIDE DEF b
  <2>2. Len(b) = (n + N) - h
    BY <2>1, <1>2, <1>5
  <2>3. ASSUME NEW i \in 1 .. A + (N - u) PROVE b[i] = all[h + i]
    <3>1. CASE i <= A
      <4>1. i \in 1 .. A
        BY <3>1, <1>1
      <4> QED BY <3>1, <4>1, <2>1, <1>1
    <3>2. CASE ~(i <= A)
      <4>1. i - A \in 1 .. N - u /\ u + (i - A) \in 1 .. N /\ n + (u + (i - A)) = h + i
        BY <3>2, <1>1, <1>2, <1>5
      <4>2. b[i] = rest[i - A]
        BY <3>2, <2>1
      <4>3. rest[i - A] = data[u + (i - A)]
        BY <4>1, <1>4
      <4>4. data[u + (i - A)] = all[n + (u + (i - A))]
        BY <4>1, <1>3
      <4> QED BY <4>1, <4>2, <4>3, <4>4
    <3> QED BY <3>1, <3>2
  <2>4. Len(b) = IF n + N <= h THEN 0 ELSE (n + N) - h
    BY <2>2, <1>1, <1>5
  <2>5. AppHas(b, all, h, n + N)
    <3>1. \A i \in 1 .. Len(b) : b[i] = all[h + i]
      BY <2>1, <2>3
    <3>2. b \in Seq(Nat)
      BY <2>1
    <3> QED BY <2>4, <3>1, <3>2 DEF AppHas
  <2> QED BY <2>5, <1>5 DEF b, rest, u, N
<1>6. CASE ~(n + N >= h)
  <2>1. A = 0 /\ n + N <= h
    BY <1>1, <1>6
  <2>2. AppHas(app, all, h, n + N)
    BY <2>1, <1>1 DEF AppHas, A
  <2> QED BY <2>2, <1>6 DEF N
<1> QED BY <1>5, <1>6

\* How the header parser leaves the stream and the data (ReadStream, below).
LEMMA StreamDone ==
  ASSUME NEW type \in Streams, NEW id \in 0 .. MAX_VARINT, NEW signal, NEW n \in Nat
  PROVE  /\ StreamAt(type, id, signal, n).header_state = "Done" <=> n >= HeaderLen(type, id)
         /\ StreamAt(type, id, signal, n).stream_type = type
         /\ n >= HeaderLen(type, id) =>
              /\ StreamAt(type, id, signal, n).session_id = id
              /\ StreamAt(type, id, signal, n).header_len = HeaderLen(type, id)
         /\ n >= SignalLen(type) =>
              /\ StreamAt(type, id, signal, n).header_state # "AwaitingSignal"
              /\ StreamAt(type, id, signal, n).header_len > 0
<1>1. /\ SignalLen(type) \in Nat \ {0} /\ varint_len(id) \in Nat \ {0}
      /\ HeaderLen(type, id) = SignalLen(type) + varint_len(id)
  BY SignalLens DEF HeaderLen
<1>2. CASE n < SignalLen(type)
  BY <1>1, <1>2 DEF StreamAt, StreamRec
<1>3. CASE ~(n < SignalLen(type)) /\ n < HeaderLen(type, id)
  BY <1>1, <1>3 DEF StreamAt, StreamRec
<1>4. CASE ~(n < SignalLen(type)) /\ ~(n < HeaderLen(type, id))
  BY <1>1, <1>4 DEF StreamAt, StreamRec
<1> QED BY <1>1, <1>2, <1>3, <1>4

\* What a reader that goes on is.
LEMMA ReadOnShape ==
  ASSUME NEW r, IsReader(r), NEW c, NEW s, NEW a
  PROVE  /\ ReadOn(r, c, s, a).classified = c /\ ReadOn(r, c, s, a).stream = s
         /\ ReadOn(r, c, s, a).app = a
<1> DEFINE w == [buf |-> r.buf, queue |-> r.queue, session |-> r.session, stream |-> r.stream,
                 classified |-> r.classified, app |-> r.app, failed |-> r.failed]
           e1 == [w EXCEPT !.classified = c]
           e2 == [e1 EXCEPT !.stream = s]
           e3 == [e2 EXCEPT !.app = a]
<1>1. r = w
  BY DEF IsReader
<1>2. e1 = [buf |-> r.buf, queue |-> r.queue, session |-> r.session, stream |-> r.stream,
            classified |-> c, app |-> r.app, failed |-> r.failed]
  OBVIOUS
<1>3. e2 = [buf |-> r.buf, queue |-> r.queue, session |-> r.session, stream |-> s,
            classified |-> c, app |-> r.app, failed |-> r.failed]
  <2> HIDE DEF e1
  <2> QED BY <1>2
<1>4. e3 = [buf |-> r.buf, queue |-> r.queue, session |-> r.session, stream |-> s,
            classified |-> c, app |-> a, failed |-> r.failed]
  <2> HIDE DEF e2
  <2> QED BY <1>3
<1>5. e3.classified = c /\ e3.stream = s /\ e3.app = a
  <2> HIDE DEF e3
  <2> QED BY <1>4
<1> HIDE DEF w
<1> QED BY <1>1, <1>5 DEF ReadOn

\* A stream that can be classified and reports no error goes on as its parser says.
LEMMA StreamGoesOn ==
  ASSUME NEW r, IsReader(r), NEW data, r.classified = TRUE \/ ~Failed(DecodeVarint(data)),
         ReadStream(r, data).got = <<>>
  PROVE  LET parse == StreamParse(r, data)
             new == ReadStream(r, data).rx
         IN /\ new.classified = TRUE /\ new.stream = parse.stream
            /\ new.app = IF parse.stream.header_state = "Done"
                         THEN r.app \o SubSeq(data, parse.consumed + 1, Len(data)) ELSE r.app
<1> DEFINE parse == StreamParse(r, data)
           err == IF ~Failed(parse) /\ parse.stream.header_state = "Done" /\ parse.stream.session_id % 4 # 0
                  THEN "InvalidSessionId" ELSE parse.err
           a == IF parse.stream.header_state = "Done"
                THEN r.app \o SubSeq(data, parse.consumed + 1, Len(data)) ELSE r.app
           s == parse.stream
           new == ReadStream(r, data)
<1>1. new = [rx |-> [r EXCEPT !.classified = TRUE, !.stream = parse.stream,
                              !.app = IF err = "None" /\ parse.stream.header_state = "Done"
                                  THEN @ \o SubSeq(data, parse.consumed + 1, Len(data)) ELSE @],
             got |-> IF err # "None" THEN <<Result("stream", DecodeError(err, 0))>> ELSE <<>>]
  BY Zenon DEF ReadStream, StreamParse
<1>2. new.rx = [r EXCEPT !.classified = TRUE, !.stream = parse.stream,
                         !.app = IF err = "None" /\ parse.stream.header_state = "Done"
                             THEN @ \o SubSeq(data, parse.consumed + 1, Len(data)) ELSE @]
      /\ new.got = IF err # "None" THEN <<Result("stream", DecodeError(err, 0))>> ELSE <<>>
  <2> HIDE DEF new, parse, err
  <2> QED BY <1>1
<1>3. err = "None"
  <2>1. \A x : <<x>> # <<>>
    OBVIOUS
  <2>2. new.got = <<>>
    OBVIOUS
  <2> HIDE DEF new, err, parse
  <2> QED BY <1>2, <2>1, <2>2
<1>4. new.rx = ReadOn(r, TRUE, s, a)
  <2> HIDE DEF parse, new, err
  <2> QED BY <1>2, <1>3, Zenon DEF ReadOn
<1> DEFINE c == TRUE
<1> HIDE DEF a, s, new, c
<1>5. ReadOn(r, c, s, a).classified = c /\ ReadOn(r, c, s, a).stream = s
      /\ ReadOn(r, c, s, a).app = a
  BY ReadOnShape
<1> QED BY <1>4, <1>5 DEF a, s, new, c

\* A parser of session ids reads what is left of a header with the signal.
LEMMA IdOnly ==
  ASSUME NEW type \in Streams, NEW id \in 0 .. MAX_VARINT, NEW signal, NEW n \in Nat,
         n >= SignalLen(type), NEW data
  PROVE  parse_session_id_only(StreamAt(type, id, signal, n), data) =
           parse_header(StreamAt(type, id, signal, n), data)
<1> DEFINE s == StreamAt(type, id, signal, n)
           e == [s EXCEPT !.header_state = IF @ = "AwaitingSignal" THEN "AwaitingSessionId" ELSE @]
<1>1. /\ s.header_state # "AwaitingSignal"
      /\ \E a, l, h, g, i : s = StreamRec(type, a, l, h, g, i)
  <2>1. s.header_state # "AwaitingSignal"
    BY StreamDone
  <2>2. \E a, l, h, g, i : s = StreamRec(type, a, l, h, g, i)
    BY DEF StreamAt
  <2> QED BY <2>1, <2>2
<1> HIDE DEF s
<1>2. e = s
  <2>1. PICK a, l, h, g, i : s = StreamRec(type, a, l, h, g, i)
    BY <1>1
  <2> QED BY <2>1, <1>1 DEF StreamRec
<1> HIDE DEF e
<1> QED BY <1>2 DEF parse_session_id_only, e, s

\* The bytes of a new stream: its signal is that of its kind.
LEMMA SignalRead ==
  ASSUME NEW type \in Streams, NEW id \in 0 .. MAX_VARINT, NEW all \in Seq(Nat),
         IsHeader(type, id, all), NEW data \in Seq(Nat), Follows(data, all, 0),
         ~Failed(DecodeVarint(data))
  PROVE  SignalLen(type) <= Len(data) /\ DecodeVarint(data).pos = SignalLen(type)
<1> DEFINE v == SIGNAL[type]
           l == SignalLen(type)
<1>1. v \in 0 .. MAX_VARINT /\ l \in Nat \ {0} /\ Len(data) \in Nat /\ Len(all) \in Nat
  <2>1. Len(data) \in Nat /\ Len(all) \in Nat
    BY LenProperties
  <2> QED BY <2>1, SignalLens
<1>2. /\ data # <<>> /\ ~(Len(data) < PrefixLen(data[1])) /\ DecodeVarint(data).pos = PrefixLen(data[1])
  BY DEF DecodeVarint, Failed, DecodeError, Value
<1>3. PrefixLen(VarintBytes(v)[1]) = l
  BY <1>1, ByteOf DEF SignalLen
<1> HIDE DEF l, v
<1>4. 1 \in 1 .. Len(data) /\ 1 \in 1 .. Len(all) /\ 1 <= l
  <2>1. 1 <= Len(data)
    <3>1. Len(data) # 0
      BY <1>2, EmptySeq
    <3> QED BY <3>1, <1>1
  <2>2. 0 + Len(data) <= Len(all)
    BY DEF Follows
  <2> QED BY <2>1, <2>2, <1>1
<1>5. data[1] = VarintBytes(v)[1]
  <2>1. data[1] = all[0 + 1]
    BY <1>4 DEF Follows
  <2>2. all[1] = VarintBytes(SIGNAL[type])[1]
    BY <1>4 DEF IsHeader, l
  <2> QED BY <2>1, <2>2 DEF v
<1> QED BY <1>1, <1>2, <1>3, <1>5 DEF l

\* The reader of a data stream after the first n bytes of `all'.
StreamReader(r, type, id, all, n) ==
  IF n = 0 THEN r = NewReader(type) ELSE HasRead(r, type, id, all, n)

\* What the header parser makes of a first chunk with the signal.
LEMMA FirstParsed ==
  ASSUME NEW type \in Streams, NEW id \in 0 .. MAX_VARINT, NEW all \in Seq(Nat),
         IsHeader(type, id, all), NEW data \in Seq(Nat), Follows(data, all, 0),
         ~Failed(DecodeVarint(data))
  PROVE  LET parse == StreamParse(NewReader(type), data)
         IN /\ parse.stream = StreamAt(type, id, SignalOf(type), Len(data))
            /\ parse.consumed = Used(0, data, HeaderLen(type, id))
<1> DEFINE l == SignalLen(type)
           h == HeaderLen(type, id)
           g == SignalOf(type)
           N == Len(data)
           M == Len(all)
           r == NewReader(type)
           parse == StreamParse(r, data)
           pos == DecodeVarint(data).pos
<1>1. l \in Nat \ {0} /\ h \in Nat /\ l <= h /\ N \in Nat /\ M \in Nat /\ N <= M /\ l <= N /\ pos = l
  <2>1. N \in Nat /\ M \in Nat
    BY LenProperties
  <2>2. l \in Nat \ {0} /\ varint_len(id) \in Nat /\ h = l + varint_len(id)
    BY SignalLens DEF HeaderLen
  <2>3. l <= N /\ pos = l
    BY SignalRead
  <2>4. 0 + N <= M
    BY DEF Follows
  <2> HIDE DEF l, h, N, M, pos
  <2> QED BY <2>1, <2>2, <2>3, <2>4
<1>2. \A i \in 1 .. Len(data) : data[i] = all[i]
  <2>1. \A i \in 1 .. Len(data) : 0 + i = i
    BY <1>1
  <2> QED BY <2>1 DEF Follows
<1>3. r.classified = FALSE /\ r.stream = NewIncoming(type) /\ r.stream.stream_type = type
  BY DEF NewReader, NewIncoming
<1>4. CASE type = "Bidi"
  <2>1. parse = parse_header(NewIncoming(type), data)
    <3> HIDE DEF r
    <3> QED BY <1>3, <1>4 DEF StreamParse
  <2>2. NewIncoming(type) = StreamAt(type, id, g, 0)
    <3>1. 0 < l
      BY <1>1
    <3> QED BY <3>1 DEF StreamAt, StreamRec, Fed, NewIncoming
  <2>3. parse_header(StreamAt(type, id, g, 0), data) =
          Parsed(StreamAt(type, id, g, 0 + N),
                 IF 0 + N <= h THEN N ELSE IF 0 <= h THEN h - 0 ELSE 0, "None")
    <3>1. 0 \in 0 .. Len(all) /\ 0 + Len(data) <= Len(all)
          /\ \A i \in 1 .. Len(data) : data[i] = all[0 + i]
      BY <1>1 DEF Follows
    <3> QED BY <3>1, <1>4, HeaderRead
  <2>4. Used(0, data, h) = IF 0 + N <= h THEN N ELSE IF 0 <= h THEN h - 0 ELSE 0
    BY DEF Used
  <2>5. 0 + N = N
    BY <1>1
  <2> HIDE DEF parse, N, h, g
  <2> QED BY <2>1, <2>2, <2>3, <2>4, <2>5 DEF Parsed, parse, N, h, g
<1>5. CASE type = "Uni"
  <2> DEFINE D == SubSeq(data, l + 1, Len(data))
             s == StreamAt(type, id, g, l)
             rest == parse_session_id_only(s, D)
  <2>1. g = FreshDecoder
    BY <1>5 DEF SignalOf
  <2>2. [r.stream EXCEPT !.header_len = l].header_state = "AwaitingSignal"
        /\ [[r.stream EXCEPT !.header_len = l] EXCEPT !.header_state = "AwaitingSessionId"] = s
    <3>1. r.stream = StreamRec(type, 0, 0, "AwaitingSignal", FreshDecoder, FreshDecoder)
      BY <1>3 DEF StreamRec, NewIncoming
    <3>2. s = StreamRec(type, 0, l, "AwaitingSessionId", FreshDecoder, FreshDecoder)
      <4>1. ~(l < l) /\ l < h /\ l - l = 0
        <5>1. varint_len(id) \in Nat \ {0} /\ h = l + varint_len(id)
          BY SignalLens DEF HeaderLen
        <5> HIDE DEF l, h
        <5> QED BY <5>1, <1>1, SMTT(40)
      <4> QED BY <4>1, <2>1 DEF StreamAt, Fed
    <3> DEFINE e == [r.stream EXCEPT !.header_len = l]
    <3>3. e = StreamRec(type, 0, l, "AwaitingSignal", FreshDecoder, FreshDecoder)
      <4> HIDE DEF r, l
      <4> QED BY <3>1 DEF StreamRec
    <3>4. e.header_state = "AwaitingSignal" /\ [e EXCEPT !.header_state = "AwaitingSessionId"] = s
      <4> HIDE DEF e, l, s
      <4> QED BY <3>2, <3>3 DEF StreamRec
    <3> QED BY <3>4
  <2> HIDE DEF l, h, N, M, pos, g, s
  <2>3. parse_session_id_only([r.stream EXCEPT !.header_len = l], D) = parse_header(s, D)
    <3> DEFINE e == [r.stream EXCEPT !.header_len = l]
    <3>1. e.header_state = "AwaitingSignal" /\ [e EXCEPT !.header_state = "AwaitingSessionId"] = s
      BY <2>2
    <3> HIDE DEF e, D
    <3>2. [e EXCEPT !.header_state = IF @ = "AwaitingSignal" THEN "AwaitingSessionId" ELSE @] = s
      BY <3>1
    <3> QED BY <3>2 DEF parse_session_id_only, e
  <2>4. D \in Seq(Nat) /\ Len(D) = N - l /\ \A i \in 1 .. N - l : D[i] = data[l + i]
    <3>1. l \in 0 .. Len(data)
      BY <1>1 DEF N
    <3> QED BY <3>1, RestOf DEF N
  <2>5. l \in 0 .. Len(all) /\ l + Len(D) <= Len(all) /\ l + Len(D) = N
        /\ \A i \in 1 .. Len(D) : D[i] = all[l + i]
    <3> HIDE DEF D
    <3>1. l \in 0 .. M /\ l + (N - l) <= M /\ l + (N - l) = N
      BY <1>1
    <3>2. ASSUME NEW i \in 1 .. N - l PROVE D[i] = all[l + i]
      <4>1. l + i \in 1 .. N
        BY <1>1
      <4> QED BY <4>1, <2>4, <1>2 DEF N
    <3> QED BY <3>1, <3>2, <2>4 DEF M
  <2>6. parse_header(s, D) =
          Parsed(StreamAt(type, id, g, N),
                 IF N <= h THEN Len(D) ELSE IF l <= h THEN h - l ELSE 0, "None")
    <3>1. ~(l < SignalLen(type))
      BY <1>1 DEF l
    <3> HIDE DEF D
    <3>2. D \in Seq(Nat)
      BY <2>4
    <3>3. parse_header(StreamAt(type, id, SignalOf(type), l), D) =
          Parsed(StreamAt(type, id, SignalOf(type), l + Len(D)),
                 IF l + Len(D) <= HeaderLen(type, id) THEN Len(D)
                 ELSE IF l <= HeaderLen(type, id) THEN HeaderLen(type, id) - l ELSE 0, "None")
      BY <3>1, <3>2, <2>5, HeaderRead
    <3> QED BY <3>3, <2>5 DEF s, g, h
  <2> DEFINE u == IF N <= h THEN Len(D) ELSE IF l <= h THEN h - l ELSE 0
             t == StreamAt(type, id, g, N)
             p == parse_header(s, D)
  <2>7. parse = [p EXCEPT !.consumed = @ + l]
    <3>1. parse = [parse_session_id_only([r.stream EXCEPT !.header_len = pos],
                                         SubSeq(data, pos + 1, Len(data))) EXCEPT !.consumed = @ + pos]
      <4> HIDE DEF r
      <4> QED BY <1>3, <1>5 DEF StreamParse, pos
    <3> HIDE DEF parse
    <3> QED BY <3>1, <1>1, <2>3
  <2> HIDE DEF p, D, u, t
  <2>8. p = Parsed(t, u, "None")
    BY <2>6 DEF p, u, t
  <2>9. parse.stream = t /\ parse.consumed = u + l
    <3> HIDE DEF parse
    <3> QED BY <2>7, <2>8 DEF Parsed
  <2>10. u + l = Used(0, data, h)
    <3>1. Used(0, data, h) = IF 0 + N <= h THEN N ELSE IF 0 <= h THEN h - 0 ELSE 0
      BY DEF Used, N
    <3>2. u = IF N <= h THEN N - l ELSE IF l <= h THEN h - l ELSE 0
      BY <2>4 DEF u
    <3> QED BY <3>1, <3>2, <1>1
  <2> HIDE DEF parse
  <2> QED BY <2>9, <2>10 DEF t, N, g, h, parse, r
<1> QED BY <1>4, <1>5 DEF Streams

\* What it makes of a later one.
LEMMA LaterParsed ==
  ASSUME NEW type \in Streams, NEW id \in 0 .. MAX_VARINT, NEW all \in Seq(Nat),
         IsHeader(type, id, all), NEW n \in 0 .. Len(all), NEW data \in Seq(Nat),
         Follows(data, all, n), NEW r, HasRead(r, type, id, all, n)
  PROVE  LET parse == StreamParse(r, data)
         IN /\ parse.stream = StreamAt(type, id, SignalOf(type), n + Len(data))
            /\ parse.consumed = Used(n, data, HeaderLen(type, id))
<1> DEFINE l == SignalLen(type)
           h == HeaderLen(type, id)
           s == StreamAt(type, id, SignalOf(type), n)
           parse == StreamParse(r, data)
<1>1. /\ r.classified = TRUE /\ r.stream = s /\ n >= l /\ n \in Nat /\ l \in Nat
  <2>1. n \in Nat
    <3>1. Len(all) \in Nat
      BY LenProperties
    <3> QED BY <3>1
  <2> QED BY <2>1, SignalLens DEF HasRead
<1>2. parse = parse_header(s, data)
  <2>1. parse_session_id_only(s, data) = parse_header(s, data)
    BY <1>1, IdOnly
  <2> HIDE DEF s
  <2>2. parse = parse_session_id_only(s, data) \/ parse = parse_header(s, data)
    BY <1>1 DEF StreamParse
  <2> QED BY <2>1, <2>2
<1>3. parse_header(s, data) =
        Parsed(StreamAt(type, id, SignalOf(type), n + Len(data)), Used(n, data, h), "None")
  <2>1. ~(n < SignalLen(type))
    BY <1>1
  <2>2. n + Len(data) <= Len(all) /\ \A i \in 1 .. Len(data) : data[i] = all[n + i]
    BY DEF Follows
  <2> QED BY <2>1, <2>2, HeaderRead DEF Used
<1> HIDE DEF s, h, parse
<1>4. parse.stream = StreamAt(type, id, SignalOf(type), n + Len(data)) /\ parse.consumed = Used(n, data, h)
  BY <1>2, <1>3 DEF Parsed
<1> QED BY <1>4 DEF parse, h

\* A data stream goes on with the next bytes.
LEMMA StreamReads ==
  ASSUME NEW type \in Streams, NEW id \in 0 .. MAX_VARINT, NEW all \in Seq(Nat),
         IsHeader(type, id, all), NEW r, IsReader(r), NEW n \in 0 .. Len(all),
         NEW data \in Seq(Nat), data # <<>>, Follows(data, all, n),
         StreamReader(r, type, id, all, n), ~Read(type, r, data).rx.failed
  PROVE  StreamReader(Read(type, r, data).rx, type, id, all, n + Len(data))
<1> DEFINE l == SignalLen(type)
           h == HeaderLen(type, id)
           g == SignalOf(type)
           N == Len(data)
           parse == StreamParse(r, data)
           old == ReadStream(r, data)
           new == Read(type, r, data).rx
           s == StreamAt(type, id, g, n + N)
           app == IF n + N >= h THEN r.app \o SubSeq(data, Used(n, data, h) + 1, N) ELSE r.app
<1>1. n \in Nat /\ N \in Nat /\ N # 0 /\ n + N # 0 /\ n + N \in Nat /\ l \in Nat \ {0} /\ h \in Nat
  <2>1. Len(all) \in Nat /\ N \in Nat /\ N # 0
    BY LenProperties, EmptySeq
  <2>2. l \in Nat \ {0} /\ h \in Nat
    BY SignalLens
  <2> HIDE DEF N, l, h
  <2> QED BY <2>1, <2>2
<1>2. /\ old.got = <<>> /\ new.stream = old.rx.stream /\ new.app = old.rx.app
      /\ new.classified = old.rx.classified
  BY StreamShape
<1>3. r.classified = TRUE \/ ~Failed(DecodeVarint(data))
  <2>1. ~r.classified /\ Failed(DecodeVarint(data)) =>
          old.got = <<Result("stream", DecodeVarint(data))>>
    BY DEF ReadStream
  <2>2. \A x : <<x>> # <<>>
    OBVIOUS
  <2>3. r.classified = TRUE \/ r.classified = FALSE
    <3>1. CASE n = 0
      BY <3>1 DEF StreamReader, NewReader
    <3>2. CASE n # 0
      BY <3>2 DEF StreamReader, HasRead
    <3> QED BY <3>1, <3>2
  <2> HIDE DEF old
  <2> QED BY <2>1, <2>2, <2>3, <1>2
<1>4. /\ parse.stream = s /\ parse.consumed = Used(n, data, h) /\ AppHas(r.app, all, h, n)
      /\ n + N >= l
  <2>1. CASE n = 0
    <3>1. r = NewReader(type)
      BY <2>1 DEF StreamReader
    <3>2. ~Failed(DecodeVarint(data))
      <4>1. r.classified = FALSE
        BY <3>1 DEF NewReader
      <4> QED BY <4>1, <1>3
    <3>3. Follows(data, all, 0) /\ 0 + N = N
      BY <2>1, <1>1
    <3>4. parse.stream = StreamAt(type, id, g, Len(data)) /\ parse.consumed = Used(0, data, h)
      BY <3>1, <3>2, <3>3, FirstParsed
    <3>5. AppHas(<<>>, all, h, 0)
      <4>1. <<>> \in Seq(Nat) /\ Len(<<>>) = 0 /\ \A i \in 1 .. 0 : FALSE
        OBVIOUS
      <4> QED BY <4>1, <1>1 DEF AppHas
    <3>6. r.app = <<>>
      BY <3>1 DEF NewReader
    <3>7. N >= l
      BY <3>2, <3>3, SignalRead
    <3> HIDE DEF parse, N, h, g, l
    <3> QED BY <2>1, <3>3, <3>4, <3>5, <3>6, <3>7 DEF s, N
  <2>2. CASE n # 0
    <3>1. HasRead(r, type, id, all, n)
      BY <2>2 DEF StreamReader
    <3>2. parse.stream = s /\ parse.consumed = Used(n, data, h)
      BY <3>1, LaterParsed
    <3>3. AppHas(r.app, all, h, n) /\ n >= l
      BY <3>1 DEF HasRead
    <3> HIDE DEF parse, N, h, g, l
    <3> QED BY <3>2, <3>3, <1>1
  <2> QED BY <2>1, <2>2
<1>5. /\ old.rx.classified = TRUE /\ old.rx.stream = parse.stream
      /\ old.rx.app = IF parse.stream.header_state = "Done"
                      THEN r.app \o SubSeq(data, parse.consumed + 1, Len(data)) ELSE r.app
  BY <1>2, <1>3, StreamGoesOn
<1>6. s.header_state = "Done" <=> n + N >= h
  BY <1>1, StreamDone
<1>7. AppHas(app, all, h, n + N)
  BY <1>1, <1>4, AppRead
<1> HIDE DEF parse, old, new, s
<1>8. old.rx.app = app
  BY <1>4, <1>5, <1>6
<1> HIDE DEF app, h, N, g, l
<1>9. new.classified = TRUE /\ new.stream = s /\ new.app = app /\ n + N >= l
  BY <1>2, <1>4, <1>5, <1>8
<1>10. HasRead(new, type, id, all, n + N)
  BY <1>7, <1>9 DEF HasRead, s, g, h, l
<1> QED BY <1>1, <1>10 DEF StreamReader, new, N
---------------------------------------------------------------------------
(* What is sent on a data stream.                                          *)

\* Two sequences, one after the other.
LEMMA FlattenTwo ==
  ASSUME NEW a, NEW b
  PROVE  FlattenSeq(<<a, b>>) = a \o b
<1> DEFINE s == <<a, b>>
           c == a \o b
           Is(f) == f = [i \in 1 .. 2 |-> IF i = 1 THEN s[i] ELSE f[i - 1] \o s[i]]
           g == [i \in 1 .. 2 |-> IF i = 1 THEN a ELSE c]
           f0 == CHOOSE f : Is(f)
<1>1. s[1] = a /\ s[2] = b /\ Len(s) = 2
  OBVIOUS
<1>2. FlattenSeq(s) = f0[2]
  <2>1. Len(s) # 0
    BY <1>1
  <2>2. FlattenSeq(s) = (CHOOSE f : f = [i \in 1 .. Len(s) |->
                                          IF i = 1 THEN s[i] ELSE f[i - 1] \o s[i]])[Len(s)]
    <3> HIDE DEF s
    <3> QED BY <2>1 DEF FlattenSeq
  <2> HIDE DEF s
  <2> QED BY <2>2, <1>1
<1>3. Is(g)
  <2>1. g[1] = a /\ g[2] = c /\ 2 - 1 = 1
    OBVIOUS
  <2>2. \A i \in 1 .. 2 : i = 1 \/ i = 2
    OBVIOUS
  <2>3. ASSUME NEW i \in 1 .. 2 PROVE g[i] = IF i = 1 THEN s[i] ELSE g[i - 1] \o s[i]
    <3>1. CASE i = 1
      BY <3>1, <2>1, <1>1
    <3>2. CASE i = 2
      <4> HIDE DEF g, s
      <4> QED BY <3>2, <2>1, <1>1
    <3> QED BY <3>1, <3>2, <2>2
  <2>4. g = [i \in 1 .. 2 |-> g[i]]
    OBVIOUS
  <2> HIDE DEF g, s
  <2> QED BY <2>3, <2>4
<1> HIDE DEF g
<1>4. Is(f0)
  <2> HIDE DEF Is
  <2> QED BY <1>3
<1> HIDE DEF f0, s
<1>5. f0[1] = s[1] /\ f0[2] = f0[1] \o s[2]
  <2>1. \A i \in 1 .. 2 : f0[i] = IF i = 1 THEN s[i] ELSE f0[i - 1] \o s[i]
    BY <1>4, Zenon
  <2>2. 1 \in 1 .. 2 /\ 2 \in 1 .. 2 /\ 2 # 1 /\ 2 - 1 = 1
    OBVIOUS
  <2>3. f0[2] = f0[2 - 1] \o s[2]
    BY <2>1, <2>2, Zenon
  <2> QED BY <2>1, <2>2, <2>3
<1> QED BY <1>1, <1>2, <1>5 DEF s

\* Two encoders one after the other, without an error.
LEMMA EncodeTwo ==
  ASSUME NEW r, NEW s, ~Failed(EncodeAll(<<r, s>>))
  PROVE  ~Failed(r) /\ ~Failed(s) /\ EncodeAll(<<r, s>>).bytes = r.bytes \o s.bytes
<1> DEFINE both == <<r, s>>
           I == {i \in 1 .. 2 : Failed(both[i])}
           first == CHOOSE x \in I : \A y \in I : x <= y
           e == EncodeAll(both)
<1>1. DOMAIN both = 1 .. 2 /\ both[1] = r /\ both[2] = s
  OBVIOUS
<1> HIDE DEF both
<1>2. I = {}
  <2> SUFFICES ASSUME I # {} PROVE FALSE
    OBVIOUS
  <2>1. \E x \in I : \A y \in I : x <= y
    <3>1. I \subseteq Nat
      OBVIOUS
    <3> HIDE DEF I
    <3> QED BY <3>1, Flattening!LeastElement
  <2>2. first \in I
    <3> HIDE DEF I
    <3> QED BY <2>1
  <2>3. SelectInSeq(both, Failed) = first
    <3>1. \E i \in 1 .. 2 : Failed(both[i])
      OBVIOUS
    <3> QED BY <1>1, <3>1, SMTT(40) DEF SelectInSeq, Min
  <2>4. e = both[first]
    <3>1. \E i \in 1 .. 2 : Failed(both[i])
      OBVIOUS
    <3> HIDE DEF first, I
    <3> QED BY <1>1, <2>3, <3>1 DEF EncodeAll
  <2>5. Failed(both[first])
    <3> HIDE DEF first
    <3> QED BY <2>2
  <2> HIDE DEF first, e, I
  <2> QED BY <2>4, <2>5 DEF e, both
<1>3. ~Failed(r) /\ ~Failed(s)
  BY <1>1, <1>2
<1>4. e = Bytes(FlattenSeq(<<r.bytes, s.bytes>>))
  <2>1. \A i \in 1 .. 2 : ~Failed(both[i])
    BY <1>2
  <2>2. [i \in 1 .. 2 |-> both[i].bytes] = <<r.bytes, s.bytes>>
    <3> DEFINE x == r.bytes
               y == s.bytes
               f == [i \in 1 .. 2 |-> both[i].bytes]
    <3>1. f[1] = x /\ f[2] = y
      BY <1>1
    <3>2. \A i \in 1 .. 2 : <<x, y>>[i] = IF i = 1 THEN x ELSE y
      OBVIOUS
    <3>3. f = [i \in 1 .. 2 |-> f[i]]
      OBVIOUS
    <3> HIDE DEF x, y, f
    <3>4. f = <<x, y>>
      BY <3>1, <3>2, <3>3
    <3> QED BY <3>4 DEF f, x, y
  <2>3. ~\E i \in DOMAIN both : Failed(both[i])
    BY <1>1, <2>1
  <2>4. e = Bytes(FlattenSeq([i \in DOMAIN both |-> both[i].bytes]))
    BY <2>3 DEF EncodeAll
  <2> HIDE DEF e
  <2> QED BY <2>4, <2>2, <1>1
<1>5. e.bytes = r.bytes \o s.bytes
  <2> DEFINE x == r.bytes
             y == s.bytes
  <2>1. FlattenSeq(<<x, y>>) = x \o y
    BY FlattenTwo
  <2> HIDE DEF e
  <2> QED BY <1>4, <2>1 DEF Bytes
<1> QED BY <1>3, <1>5 DEF e, both
Header(type, id) == VarintBytes(SIGNAL[type]) \o VarintBytes(id)

\* A header and data are a header; the data follows it.
LEMMA SentBytes ==
  ASSUME NEW type \in Streams, NEW id \in 0 .. MAX_VARINT, NEW d \in Seq(Nat)
  PROVE  LET all == Header(type, id) \o d
             h == HeaderLen(type, id)
         IN /\ all \in Seq(Nat) /\ Len(all) = h + Len(d) /\ IsHeader(type, id, all)
            /\ \A i \in 1 .. Len(d) : all[h + i] = d[i]
<1> DEFINE a == VarintBytes(SIGNAL[type])
           b == VarintBytes(id)
           c == a \o b
           all == c \o d
           l == SignalLen(type)
           m == varint_len(id)
           N == Len(d)
<1>1. l \in Nat \ {0} /\ m \in Nat \ {0} /\ N \in Nat /\ HeaderLen(type, id) = l + m
  <2>1. N \in Nat
    BY LenProperties
  <2> QED BY <2>1, SignalLens DEF HeaderLen
<1>2. a \in Seq(Nat) /\ Len(a) = l /\ b \in Seq(Nat) /\ Len(b) = m
  <2>1. SIGNAL[type] \in Nat /\ id \in Nat
    BY SignalLens, LimitsGrow DEF MAX_VARINT
  <2> QED BY <2>1, VarintBytesType DEF SignalLen
<1> HIDE DEF a, b, l, m, N
<1>3. /\ c \in Seq(Nat) /\ Len(c) = l + m
      /\ \A i \in 1 .. l + m : c[i] = IF i <= l THEN a[i] ELSE b[i - l]
  BY <1>2, ConcatProperties
<1> HIDE DEF c
<1>4. /\ all \in Seq(Nat) /\ Len(all) = (l + m) + N
      /\ \A i \in 1 .. (l + m) + N : all[i] = IF i <= l + m THEN c[i] ELSE d[i - (l + m)]
  <2>1. /\ all \in Seq(Nat) /\ Len(all) = Len(c) + Len(d)
        /\ \A i \in 1 .. Len(c) + Len(d) : all[i] = IF i <= Len(c) THEN c[i] ELSE d[i - Len(c)]
    BY <1>3, ConcatProperties
  <2> HIDE DEF all
  <2> QED BY <2>1, <1>3 DEF N
<1> HIDE DEF all
<1>5. IsHeader(type, id, all)
  <2> SUFFICES ASSUME NEW i \in 1 .. Len(all)
               PROVE  /\ i <= l => all[i] = a[i]
                      /\ i > l /\ i <= l + m => all[i] = b[i - l]
    BY <1>1 DEF IsHeader, a, b, l
  <2>1. i \in 1 .. (l + m) + N
    BY <1>4
  <2>2. i <= l => i \in 1 .. l + m /\ i <= l + m
    BY <2>1, <1>1
  <2>3. i > l /\ i <= l + m => i \in 1 .. l + m /\ ~(i <= l)
    BY <2>1, <1>1
  <2> QED BY <2>1, <2>2, <2>3, <1>3, <1>4
<1>6. ASSUME NEW i \in 1 .. N PROVE all[(l + m) + i] = d[i]
  <2> DEFINE j == (l + m) + i
  <2>1. j \in 1 .. (l + m) + N /\ ~(j <= l + m) /\ j - (l + m) = i
    BY <1>1
  <2> HIDE DEF j
  <2>2. all[j] = d[j - (l + m)]
    BY <2>1, <1>4
  <2> QED BY <2>1, <2>2 DEF j
<1> QED BY <1>1, <1>4, <1>5, <1>6 DEF Header, all, c, a, b, N

\* What is delivered and what is on the way are the header and the data, and the reader
\* is as far as what is delivered.
OnStream(type, id, d) ==
  LET all == Header(type, id) \o d
  IN /\ id \in 0 .. MAX_VARINT /\ d \in Seq(Nat)
     /\ Follows(wire, all, Len(delivered)) /\ Len(delivered) + Len(wire) = Len(all)
     /\ StreamReader(rx, type, id, all, Len(delivered))

NotSent(type) == sent = <<>> /\ delivered = <<>> /\ wire = <<>> /\ rx = NewReader(type)

StreamOn ==
  (channel \in Streams /\ ~rx.failed) =>
    /\ body = <<>>
    /\ \/ NotSent(channel)
       \/ sent # <<>> /\ OnStream(channel, sent[1].val.session_id, sent[1].val.data)

\* Nothing is sent at first.
LEMMA StreamInit == Init => StreamOn
<1> SUFFICES ASSUME Init, channel \in Streams PROVE body = <<>> /\ NotSent(channel)
  BY DEF StreamOn
<1>1. /\ sent = <<>> /\ wire = <<>> /\ delivered = <<>> /\ body = <<>>
      /\ rx = NewReader(IF channel = "Uni" THEN "Uni" ELSE "Bidi")
  BY DEF Init
<1>2. channel = IF channel = "Uni" THEN "Uni" ELSE "Bidi"
  BY DEF Streams
<1> QED BY <1>1, <1>2 DEF NotSent

\* The header and the data go out.
LEMMA StreamSendStep ==
  ASSUME StreamOn, NEW id \in StreamIds, NEW d \in AppData, SendStream(id, d)
  PROVE  StreamOn'
<1> DEFINE x == [session_id |-> id, data |-> d]
           item == Item("stream", x)
           header == encode_stream_header(id, channel)
           encoded == EncodeAll(<<header, Bytes(d)>>)
           all == Header(channel, id) \o d
<1>1. /\ channel \in Streams /\ sent = <<>> /\ ~Failed(encoded) /\ sent' = Append(sent, item)
      /\ wire' = wire \o encoded.bytes /\ UNCHANGED <<channel, body, delivered, rx>>
  BY DEF SendStream, Send, Streams
<1>2. ~Failed(header) /\ encoded.bytes = header.bytes \o d
  <2>1. ~Failed(header) /\ encoded.bytes = header.bytes \o Bytes(d).bytes
    <3> HIDE DEF header
    <3> QED BY <1>1, EncodeTwo
  <2> QED BY <2>1 DEF Bytes
<1>3. id \in 0 .. MAX_VARINT /\ header.bytes = Header(channel, id)
  <2> DEFINE s == EncodeVarint(SIGNAL[channel])
             i == EncodeVarint(id)
  <2>1. header = EncodeAll(<<s, i>>)
    BY DEF encode_stream_header
  <2> HIDE DEF s, i, header
  <2>2. ~Failed(s) /\ ~Failed(i) /\ header.bytes = s.bytes \o i.bytes
    BY <1>2, <2>1, EncodeTwo
  <2>3. \A v \in Nat : ~Failed(EncodeVarint(v)) =>
          v \in 0 .. MAX_VARINT /\ EncodeVarint(v).bytes = VarintBytes(v)
    <3> TAKE v \in Nat
    <3>1. MAX_VARINT \in Int
      BY LimitsGrow DEF MAX_VARINT
    <3> HAVE ~Failed(EncodeVarint(v))
    <3>2. ~(v > MAX_VARINT)
      BY DEF EncodeVarint, Failed, EncodeError
    <3>3. EncodeVarint(v) = Bytes(VarintBytes(v))
      BY <3>2 DEF EncodeVarint
    <3> QED BY <3>1, <3>2, <3>3 DEF Bytes
  <2>4. SIGNAL[channel] \in Nat /\ id \in Nat
    <3>1. SIGNAL["Uni"] \in Nat /\ SIGNAL["Bidi"] \in Nat
      BY CodePoints
    <3>2. channel = "Uni" \/ channel = "Bidi"
      BY <1>1 DEF Streams
    <3> QED BY <3>1, <3>2, SentAssumption
  <2> QED BY <2>2, <2>3, <2>4 DEF Header, s, i
<1>4. d \in Seq(Nat)
  BY SentAssumption
<1> HIDE DEF header, encoded
<1>5. all \in Seq(Nat) /\ Len(all) \in Nat
  <2>1. all \in Seq(Nat)
    BY <1>1, <1>3, <1>4, SentBytes
  <2> HIDE DEF all
  <2> QED BY <2>1, LenProperties
<1> SUFFICES ASSUME ~rx.failed, body = <<>>
             PROVE  sent' # <<>> /\ OnStream(channel, sent[1].val.session_id, sent[1].val.data)'
  BY <1>1 DEF StreamOn
<1>6. NotSent(channel)
  BY <1>1 DEF StreamOn
<1>7. wire' = all /\ delivered' = <<>> /\ rx' = NewReader(channel)
  <2>1. wire = <<>> /\ delivered = <<>> /\ rx = NewReader(channel)
    BY <1>6 DEF NotSent
  <2>2. encoded.bytes = all
    BY <1>2, <1>3
  <2>3. <<>> \o all = all
    <3> HIDE DEF all
    <3> QED BY <1>5, ConcatEmptySeq
  <2> QED BY <1>1, <2>1, <2>2, <2>3
<1>8. sent' # <<>> /\ sent'[1].val = x
  <2> HIDE DEF x
  <2>1. Append(<<>>, item) # <<>> /\ Append(<<>>, item)[1] = item
    OBVIOUS
  <2>2. item.val = x
    BY DEF Item
  <2> QED BY <1>1, <2>1, <2>2
<1>9. sent'[1].val.session_id = id /\ sent'[1].val.data = d
  BY <1>8
<1> HIDE DEF item, x
<1>10. /\ Follows(wire', all, Len(delivered')) /\ Len(delivered') + Len(wire') = Len(all)
       /\ StreamReader(rx', channel, id, all, Len(delivered'))
  <2> HIDE DEF all
  <2>1. Len(delivered') = 0
    BY <1>7
  <2>2. 0 + Len(all) = Len(all) /\ 0 + Len(all) <= Len(all) /\ \A i \in 1 .. Len(all) : 0 + i = i
    BY <1>5
  <2>3. Follows(all, all, 0) /\ StreamReader(rx', channel, id, all, 0)
    BY <1>7, <2>2 DEF Follows, StreamReader
  <2> QED BY <1>7, <2>1, <2>2, <2>3
<1> QED BY <1>1, <1>3, <1>4, <1>8, <1>9, <1>10 DEF OnStream

\* The next bytes arrive.
LEMMA StreamDeliverStep ==
  ASSUME ReadInv, StreamOn, NEW n, Deliver(n)
  PROVE  StreamOn'
<1> DEFINE data == SubSeq(wire, 1, n)
           id == sent[1].val.session_id
           d == sent[1].val.data
           all == Header(channel, id) \o d
           new == Read(channel, rx, data)
           at == Len(delivered)
           W == Len(wire)
           N == Len(all)
<1>1. /\ ~rx.failed /\ n \in 1 .. Len(wire) /\ rx' = new.rx
      /\ delivered' = delivered \o data /\ wire' = SubSeq(wire, n + 1, Len(wire))
      /\ UNCHANGED <<channel, sent, body>>
  BY DEF Deliver
<1> SUFFICES ASSUME channel \in Streams, ~new.rx.failed
             PROVE  sent # <<>> /\ OnStream(channel, id, d)'
  BY <1>1 DEF StreamOn
<1>2. sent # <<>> /\ OnStream(channel, id, d)
  <2>1. ~NotSent(channel)
    <3>1. Len(<<>>) = 0 /\ 1 .. 0 = {}
      OBVIOUS
    <3> QED BY <1>1, <3>1 DEF NotSent
  <2> QED BY <1>1, <2>1 DEF StreamOn
<1>3. /\ id \in 0 .. MAX_VARINT /\ d \in Seq(Nat) /\ Follows(wire, all, at) /\ at + W = N
      /\ StreamReader(rx, channel, id, all, at)
  BY <1>2 DEF OnStream
<1> HIDE DEF id, d
<1>4. all \in Seq(Nat) /\ IsHeader(channel, id, all)
  BY <1>3, SentBytes
<1> HIDE DEF all
<1>5. /\ wire \in Seq(Nat) /\ delivered \in Seq(Nat) /\ W \in Nat /\ at \in Nat /\ N \in Nat
      /\ n \in 1 .. W /\ n \in Nat
  <2>1. wire \in Seq(Nat) /\ delivered \in Seq(Nat)
    BY DEF ReadInv, Typed
  <2>2. W \in Nat /\ at \in Nat /\ N \in Nat
    BY <2>1, <1>4, LenProperties
  <2> QED BY <2>1, <2>2, <1>1
<1>6. data \in Seq(Nat) /\ Len(data) = n /\ \A i \in 1 .. n : data[i] = wire[i]
  <2>1. 0 \in 0 .. Len(wire) /\ 0 + n <= Len(wire) /\ 0 + 1 = 1 /\ 0 + n = n
        /\ \A i \in 1 .. n : 0 + i = i
    BY <1>5
  <2>2. SubSeq(wire, 0 + 1, 0 + n) \in Seq(Nat) /\ Len(SubSeq(wire, 0 + 1, 0 + n)) = n
        /\ \A i \in 1 .. n : SubSeq(wire, 0 + 1, 0 + n)[i] = wire[0 + i]
    BY <1>5, <2>1, SliceOf
  <2> QED BY <2>1, <2>2
<1>7. /\ wire' \in Seq(Nat) /\ Len(wire') = W - n /\ \A i \in 1 .. W - n : wire'[i] = wire[n + i]
  <2>1. n \in 0 .. Len(wire)
    BY <1>5
  <2> QED BY <2>1, <1>1, <1>5, RestOf
<1> HIDE DEF data
<1>8. Len(delivered') = at + n
  BY <1>1, <1>5, <1>6, ConcatProperties
<1>9. \A i \in 1 .. W : wire[i] = all[at + i]
  BY <1>3 DEF Follows
<1> HIDE DEF W, at, N
<1>10. Follows(data, all, at)
  <2>1. at + n <= N /\ \A i \in 1 .. n : i \in 1 .. W
    BY <1>3, <1>5
  <2>2. \A i \in 1 .. n : data[i] = all[at + i]
    BY <2>1, <1>6, <1>9
  <2> QED BY <2>1, <2>2, <1>6 DEF Follows, N
<1>11. Follows(wire', all, at + n) /\ (at + n) + Len(wire') = N
  <2>1. (at + n) + (W - n) = N /\ (at + n) + (W - n) <= N
        /\ \A i \in 1 .. W - n : n + i \in 1 .. W /\ at + (n + i) = (at + n) + i
    BY <1>3, <1>5
  <2>2. \A i \in 1 .. W - n : wire'[i] = all[(at + n) + i]
    BY <2>1, <1>7, <1>9
  <2> QED BY <2>1, <2>2, <1>7 DEF Follows, N
<1>12. StreamReader(new.rx, channel, id, all, at + n)
  <2>1. at \in 0 .. Len(all) /\ data # <<>>
    <3>1. at \in 0 .. N
      BY <1>3, <1>5
    <3>2. n # 0 /\ Len(<<>>) = 0
      BY <1>5
    <3> QED BY <3>1, <3>2, <1>6 DEF N
  <2>2. IsReader(rx)
    BY DEF ReadInv, StreamGot
  <2>3. StreamReader(Read(channel, rx, data).rx, channel, id, all, at + Len(data))
    BY <2>1, <2>2, <1>3, <1>4, <1>6, <1>10, StreamReads
  <2> QED BY <2>3, <1>6
<1> HIDE DEF new
<1>13. id' = id /\ d' = d
  BY <1>1 DEF id, d
<1>14. channel' = channel /\ rx' = new.rx
  BY <1>1
<1>15. OnStream(channel, id, d)'
  BY <1>3, <1>8, <1>11, <1>12, <1>13, <1>14 DEF OnStream, all, N
<1> QED BY <1>2, <1>15

\* Every step leaves a data stream in order: nothing else is written on it, and a reset
\* ends it.
LEMMA StreamStep ==
  ASSUME ReadInv, ReadInv', StreamOn, [Next]_vars
  PROVE  StreamOn'
<1>1. CASE UNCHANGED vars
  BY <1>1 DEF vars, StreamOn, NotSent, OnStream
<1>2. CASE channel' \notin Streams
  BY <1>2 DEF StreamOn
<1>3. ASSUME channel' \in Streams, Next PROVE StreamOn'
  <2>1. ASSUME channel \in {"Control", "Session", "H3Control"}, channel' = channel PROVE FALSE
    BY <2>1, <1>3 DEF Streams
  <2>2. ASSUME NEW m, SendMessage(m) PROVE FALSE
    BY <2>1, <2>2 DEF SendMessage, Send
  <2>3. ASSUME NEW p, NEW v, SetParameter(p, v) PROVE FALSE
    BY <2>1, <2>3 DEF SetParameter
  <2>4. ASSUME SendDraft PROVE FALSE
    BY <2>2, <2>4 DEF SendDraft
  <2>5. ASSUME NEW h, NEW b, SendHeaders(h, b) PROVE FALSE
    BY <2>1, <2>5 DEF SendHeaders, Send
  <2>6. ASSUME NEW item, NEW encoded, WriteCapsule(item, encoded) PROVE FALSE
    BY <2>1, <2>6 DEF WriteCapsule
  <2>7. ASSUME NEW c, SendCapsule(c) PROVE FALSE
    BY <2>6, <2>7 DEF SendCapsule
  <2>8. ASSUME NEW n, SendBody(n) PROVE StreamOn'
    <3>1. channel' = channel /\ rx' = rx /\ n \in 1 .. Len(body)
      BY <2>8 DEF SendBody
    <3>2. body # <<>>
      <4>1. 1 .. Len(<<>>) = {}
        OBVIOUS
      <4> QED BY <3>1, <4>1
    <3> QED BY <3>1, <3>2, <1>3 DEF StreamOn
  <2>9. ASSUME SendRawMessage PROVE FALSE
    BY <2>1, <2>9 DEF SendRawMessage, Send
  <2>10. ASSUME SendRawCapsule PROVE FALSE
    BY <2>6, <2>10 DEF SendRawCapsule
  <2>14. ASSUME SendRawFrame PROVE FALSE
    BY <2>1, <2>14 DEF SendRawFrame, Send
  <2>11. ASSUME NEW c, SendSettings(c) PROVE FALSE
    BY <2>1, <2>11 DEF SendSettings, Send
  <2>12. ASSUME NEW id, SendGoaway(id) PROVE FALSE
    BY <2>1, <2>12 DEF SendGoaway, Send
  <2>13. ASSUME NEW code, Reset(code) PROVE StreamOn'
    <3>1. Len(sent') # 1 /\ sent' # <<>>
      <4>1. sent # <<>> /\ ~rx.failed /\ channel \in Streams /\ sent' = Append(sent, Item("reset", code))
        BY <2>13 DEF Reset, Streams
      <4>2. Len(sent) = 1 /\ Sequence(sent)
        BY <4>1 DEF ReadInv, Typed, StreamSent
      <4> DEFINE t == Append(sent, Item("reset", code))
      <4>3. Len(t) = Len(sent) + 1 /\ t # <<>>
        BY <4>2, OneMoreSent
      <4> HIDE DEF t
      <4>4. sent' = t
        BY <4>1 DEF t
      <4> QED BY <4>2, <4>3, <4>4
    <3>2. rx'.failed
      BY <3>1, <1>3 DEF ReadInv, StreamSent
    <3> QED BY <3>2 DEF StreamOn
  <2> QED BY <1>3, <2>2, <2>3, <2>4, <2>5, <2>7, <2>8, <2>9, <2>10, <2>11, <2>12, <2>13, <2>14,
             StreamSendStep, StreamDeliverStep DEF Next
<1> QED BY <1>1, <1>2, <1>3

\* What the application has of a stream is of what the peer wrote.
LEMMA InvStreams == ReadInv /\ StreamOn => StreamExact
<1> SUFFICES ASSUME ReadInv, StreamOn, channel \in Streams, delivered # <<>>, ~rx.failed
             PROVE  LET stream == sent[1].val
                    IN /\ rx.stream.header_state = "Done" =>
                            rx.stream.session_id = stream.session_id /\ IsPrefix(rx.app, stream.data)
                       /\ wire = <<>> => rx.stream.header_state = "Done" /\ rx.app = stream.data
                       /\ Len(delivered) = rx.stream.header_len + Len(rx.app)
                            \/ rx.stream.header_state # "Done"
  BY DEF StreamExact, Streams
<1> DEFINE id == sent[1].val.session_id
           d == sent[1].val.data
           all == Header(channel, id) \o d
           h == HeaderLen(channel, id)
           n == Len(delivered)
           N == Len(d)
           app == rx.app
           A == Len(app)
           s == rx.stream
<1>1. OnStream(channel, id, d)
  BY DEF StreamOn, NotSent
<1>2. /\ id \in 0 .. MAX_VARINT /\ d \in Seq(Nat) /\ n + Len(wire) = Len(all)
      /\ StreamReader(rx, channel, id, all, n)
  BY <1>1 DEF OnStream
<1> HIDE DEF id, d
<1>3. /\ all \in Seq(Nat) /\ Len(all) = h + N /\ \A i \in 1 .. N : all[h + i] = d[i]
  BY <1>2, SentBytes
<1>4. n \in Nat /\ n # 0 /\ N \in Nat /\ h \in Nat /\ Len(wire) \in Nat
  <2>1. delivered \in Seq(Nat) /\ wire \in Seq(Nat)
    BY DEF ReadInv, Typed
  <2>2. n \in Nat /\ n # 0 /\ N \in Nat /\ Len(wire) \in Nat
    BY <2>1, <1>2, LenProperties, EmptySeq
  <2>3. h \in Nat
    BY <1>2, SignalLens
  <2> QED BY <2>2, <2>3
<1>5. s = StreamAt(channel, id, SignalOf(channel), n) /\ AppHas(app, all, h, n)
  BY <1>2, <1>4 DEF StreamReader, HasRead
<1>6. /\ s.header_state = "Done" <=> n >= h
      /\ n >= h => s.session_id = id /\ s.header_len = h
  BY <1>2, <1>4, <1>5, StreamDone
<1>7. /\ app \in Seq(Nat) /\ A = (IF n <= h THEN 0 ELSE n - h) /\ \A i \in 1 .. A : app[i] = all[h + i]
  BY <1>5 DEF AppHas
<1> HIDE DEF all, h, n, N, app, A, s
<1>8. n <= h + N /\ A \in Nat /\ A <= N /\ (n >= h => n = h + A)
  BY <1>2, <1>3, <1>4, <1>7, SMTT(40)
<1>9. \A i \in 1 .. A : app[i] = d[i]
  <2>1. \A i \in 1 .. A : i \in 1 .. N
    BY <1>4, <1>8
  <2> QED BY <2>1, <1>3, <1>7
<1>10. IsPrefix(app, d)
  <2>1. A \in 0 .. Len(d) /\ A \in 0 .. Len(app) /\ 0 \in 0 .. Len(app) /\ 0 \in 0 .. Len(d)
        /\ 0 + A <= Len(app) /\ 0 + A <= Len(d) /\ 0 + 1 = 1 /\ 0 + A = A
        /\ \A i \in 1 .. A : 0 + i = i
    BY <1>4, <1>8 DEF A, N
  <2> DEFINE u == SubSeq(app, 0 + 1, 0 + A)
             v == SubSeq(d, 0 + 1, 0 + A)
  <2>2. u \in Seq(Nat) /\ Len(u) = A /\ \A i \in 1 .. A : u[i] = app[0 + i]
    BY <2>1, <1>7, <1>8, SliceOf
  <2>3. v \in Seq(Nat) /\ Len(v) = A /\ \A i \in 1 .. A : v[i] = d[0 + i]
    BY <2>1, <1>2, <1>8, SliceOf
  <2>4. u = v
    <3> HIDE DEF u, v
    <3>1. \A i \in 1 .. Len(u) : u[i] = v[i]
      BY <2>1, <2>2, <2>3, <1>9
    <3> QED BY <2>2, <2>3, <3>1, SeqEqual
  <2>5. SubSeq(app, 1, A) = SubSeq(d, 1, A)
    BY <2>1, <2>4
  <2> QED BY <2>5, <1>8 DEF IsPrefix, A, N
<1>11. ASSUME wire = <<>> PROVE n >= h /\ app = d
  <2>1. Len(wire) = 0
    BY <1>11
  <2>2. n = h + N /\ n >= h
    BY <2>1, <1>2, <1>3, <1>4
  <2>3. A = N
    BY <2>2, <1>4, <1>8
  <2>4. app = d
    BY <2>3, <1>2, <1>7, <1>9, SeqEqual DEF A, N
  <2> QED BY <2>2, <2>4
<1>12. n = s.header_len + A \/ s.header_state # "Done"
  BY <1>6, <1>8
<1> QED BY <1>6, <1>10, <1>11, <1>12 DEF id, d, n, app, A, s

\* The application reads its data from the first byte, in the session the peer named,
\* wherever the transport cuts the header.
THEOREM StreamExactCorrect == Spec => []StreamExact
<1>1. Init => ReadInv /\ StreamOn
  BY ReadInit, StreamInit
<1>2. ReadInv /\ StreamOn /\ [Next]_vars => (ReadInv /\ StreamOn)'
  BY ReadStep, StreamStep
<1>3. ReadInv /\ StreamOn => StreamExact
  BY InvStreams
<1> QED BY <1>1, <1>2, <1>3, PTL DEF Spec

\* A reader with a buffer keeps bytes, and no stream.
LEMMA RxType ==
  ASSUME NEW b \in Seq(Nat), NEW q, NEW k, IsSession(k), NEW f
  PROVE  LET r == Rx(b, q, k, f)
         IN /\ r.buf \in Seq(Nat) /\ r.session.capsules \in Seq(Nat)
            /\ r.session.state \in {"none", "open", "closed"} /\ r.failed \in BOOLEAN
            /\ r.stream = NewIncoming("Bidi") /\ r.app = <<>>
<1>1. /\ Rx(b, q, k, f).buf = b /\ Rx(b, q, k, f).session = k /\ Rx(b, q, k, f).app = <<>>
      /\ Rx(b, q, k, f).stream = NewIncoming("Bidi")
  BY DEF Rx
<1>2. Rx(b, q, k, f).failed \in BOOLEAN
  BY Zenon DEF Rx
<1> QED BY <1>1, <1>2 DEF IsSession

\* A stream of which nothing came awaits its signal.
LEMMA NewStreamType ==
  ASSUME NEW type
  PROVE  LET s == NewIncoming(type)
         IN /\ s.header_state \in {"AwaitingSignal", "AwaitingSessionId", "Done"}
            /\ s.session_id \in 0 .. MAX_VARINT
<1>1. NewIncoming(type).header_state = "AwaitingSignal" /\ NewIncoming(type).session_id = 0
  BY DEF NewIncoming
<1>2. 0 \in 0 .. MAX_VARINT
  <2>1. \A m \in Int : \A x \in 0 .. m : 0 \in 0 .. m
    OBVIOUS
  <2>2. MAX_VARINT \in Int /\ SIGNAL["Uni"] \in 0 .. MAX_VARINT
    BY LimitsGrow, CodePoints DEF MAX_VARINT
  <2> QED BY <2>1, <2>2
<1> QED BY <1>1, <1>2

\* One of which n bytes came has read its id or not.
LEMMA StreamAtType ==
  ASSUME NEW type, NEW id \in 0 .. MAX_VARINT, NEW signal, NEW n
  PROVE  LET s == StreamAt(type, id, signal, n)
         IN /\ s.header_state \in {"AwaitingSignal", "AwaitingSessionId", "Done"}
            /\ s.session_id \in 0 .. MAX_VARINT
<1>1. 0 \in 0 .. MAX_VARINT
  <2>1. MAX_VARINT \in Int
    BY LimitsGrow DEF MAX_VARINT
  <2> QED BY <2>1
<1>2. CASE n < SignalLen(type)
  BY <1>1, <1>2 DEF StreamAt, StreamRec
<1>3. CASE ~(n < SignalLen(type)) /\ n < HeaderLen(type, id)
  BY <1>1, <1>3 DEF StreamAt, StreamRec
<1>4. CASE ~(n < SignalLen(type)) /\ ~(n < HeaderLen(type, id))
  BY <1>4 DEF StreamAt, StreamRec
<1> QED BY <1>2, <1>3, <1>4

\* What is kept of what was read is bytes, a session in one of its states, and a session
\* id that can be one.
LEMMA InvType == ReadInv /\ StreamOn => TypeOK
<1> SUFFICES ASSUME ReadInv, StreamOn PROVE TypeOK
  OBVIOUS
<1>1. /\ channel \in Channels /\ Len(sent) \in 0 .. MaxItems + 1
      /\ wire \in Seq(Nat) /\ body \in Seq(Nat) /\ delivered \in Seq(Nat)
  BY DEF ReadInv, Typed
<1> DEFINE Stream == /\ rx.stream.header_state \in {"AwaitingSignal", "AwaitingSessionId", "Done"}
                     /\ rx.stream.session_id \in 0 .. MAX_VARINT
                     /\ rx.app \in Seq(Nat)
           Kept == /\ rx.buf \in Seq(Nat) /\ rx.session.capsules \in Seq(Nat)
                   /\ rx.session.state \in {"none", "open", "closed"}
                   /\ rx.failed \in BOOLEAN
                   /\ ~rx.failed => Stream
<1> SUFFICES Kept
  BY <1>1 DEF TypeOK
<1>2. <<>> \in Seq(Nat)
  OBVIOUS
<1>3. ASSUME NEW b \in Seq(Nat), NEW q, NEW k, IsSession(k), NEW f, rx = Rx(b, q, k, f) PROVE Kept
  <2>1. /\ rx.buf \in Seq(Nat) /\ rx.session.capsules \in Seq(Nat)
        /\ rx.session.state \in {"none", "open", "closed"} /\ rx.failed \in BOOLEAN
        /\ rx.stream = NewIncoming("Bidi") /\ rx.app = <<>>
    BY <1>3, RxType
  <2> QED BY <2>1, <1>2, NewStreamType
<1>4. IsSession(NoSession)
  BY NewSessions
<1>5. CASE channel = "Control"
  <2>1. PICK b \in Seq(Nat) : \E f, g : AtOnce("Control", delivered) = State(b, <<>>, NoSession, f, g)
    BY <1>1, OnceControl
  <2>2. PICK f, g : AtOnce("Control", delivered) = State(b, <<>>, NoSession, f, g)
    BY <2>1
  <2>3. rx = Rx(b, <<>>, NoSession, f)
    BY <2>2, <1>5 DEF ReadInv, ControlRead, State
  <2> HIDE DEF Kept
  <2> QED BY <2>3, <1>3, <1>4
<1>6. CASE channel \in Framed
  <2>1. PICK b, q, k, f : rx = Rx(b, q, k, f) /\ FramedSoFar(channel, delivered, b, q, k, got)
    BY <1>6 DEF ReadInv, FramedRead
  <2>2. b \in Seq(Nat) /\ IsSession(k)
    <3>1. WellParsed("frame", Parse("frame", delivered))
      BY <1>1, ParseType DEF Kinds
    <3> QED BY <2>1, <3>1 DEF FramedSoFar, WellParsed
  <2> HIDE DEF Kept
  <2> QED BY <2>1, <2>2, <1>3
<1>7. CASE channel \in Streams
  <2>1. rx.buf = <<>> /\ rx.session = NoSession /\ rx.failed \in BOOLEAN
    BY <1>7 DEF ReadInv, StreamGot
  <2>2. ASSUME ~rx.failed PROVE Stream
    <3>1. CASE rx = NewReader(channel)
      <4>1. rx.stream = NewIncoming(channel) /\ rx.app = <<>>
        BY <3>1 DEF NewReader
      <4> QED BY <4>1, <1>2, NewStreamType
    <3>2. ASSUME NEW id \in 0 .. MAX_VARINT, NEW all, NEW n, HasRead(rx, channel, id, all, n)
          PROVE  Stream
      <4>1. rx.stream = StreamAt(channel, id, SignalOf(channel), n) /\ rx.app \in Seq(Nat)
        BY <3>2 DEF HasRead, AppHas
      <4> QED BY <4>1, StreamAtType
    <3> HIDE DEF Stream
    <3> QED BY <1>7, <2>2, <3>1, <3>2 DEF StreamOn, NotSent, OnStream, StreamReader
  <2> HIDE DEF Stream
  <2> QED BY <2>1, <2>2, <1>2, <1>4 DEF IsSession
<1> HIDE DEF Kept
<1> QED BY <1>1, <1>5, <1>6, <1>7, ChannelsApart

\* Whatever is sent, and wherever it is cut, the readers keep what TypeOK says.
THEOREM WireTypeCorrect == Spec => []TypeOK
<1>1. Init => ReadInv /\ StreamOn
  BY ReadInit, StreamInit
<1>2. ReadInv /\ StreamOn /\ [Next]_vars => (ReadInv /\ StreamOn)'
  BY ReadStep, StreamStep
<1>3. ReadInv /\ StreamOn => TypeOK
  BY InvType
<1> QED BY <1>1, <1>2, <1>3, PTL DEF Spec

=============================================================================
