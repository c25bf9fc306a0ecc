--------------------------- MODULE CodecTheorems ---------------------------
(***************************************************************************)
(* What the two number encodings of webtransport return, for every value:  *)
(* the varints of varint.rs (and of moq-protocol's codec, which has the    *)
(* same form) and the error code mapping of error.rs.  Wire checks both on *)
(* a small base and a small range; here the base of a digit and the range  *)
(* are constants, so the byte and the 32 bit code are among the instances. *)
(***************************************************************************)
EXTENDS Varint, WtErrors, TLAPS

(* webtransport_to_http3_error adds n / 30 to the code and the way back    *)
(* takes off a 31st: the two corrections are the same number, and the      *)
(* offset never ends on the last value of a group of 31.                   *)
LEMMA ErrorOffset ==
  ASSUME NEW n \in Nat
  PROVE  /\ (n + n \div 30) \div 31 = n \div 30
         /\ n \div 30 \in Nat
         /\ n + n \div 30 - (n + n \div 30) \div 31 = n
         /\ \E r \in 0 .. 29 : n + n \div 30 = 31 * (n \div 30) + r
  <1> DEFINE q == n \div 30
             r == n % 30
  <1>1. q \in Nat /\ r \in 0 .. 29 /\ n = 30 * q + r
    OBVIOUS
  <1> HIDE DEF q, r
  <1>2. n + q = 31 * q + r
    BY <1>1
  <1>3. (n + q) \div 31 = q
    BY <1>1, <1>2
  <1> QED
    BY <1>1, <1>2, <1>3 DEF q

(* An application error code that went out as an HTTP/3 code comes back as *)
(* itself: webtransport_to_http3_error never hits a reserved code point,   *)
(* so http3_to_webtransport_error (error.rs) refuses none of its results.  *)
THEOREM ErrorCodesReturn ==
  \A n \in 0 .. U32_MAX : http3_to_webtransport_error(webtransport_to_http3_error(n)) = {n}
  <1> SUFFICES ASSUME NEW n \in 0 .. U32_MAX
               PROVE  http3_to_webtransport_error(webtransport_to_http3_error(n)) = {n}
    OBVIOUS
  <1> DEFINE q == n \div 30
             h == WT_APP_ERROR_FIRST + n + q
  <1>1. n \in Nat /\ n <= U32_MAX /\ U32_MAX \in Nat /\ WT_APP_ERROR_FIRST \in Nat
    BY ErrorRangeAssumption
  <1>2. q \in Nat /\ q <= U32_MAX \div 30 /\ U32_MAX \div 30 \in Nat
    BY <1>1
  <1>3. PICK r \in 0 .. 29 : n + q = 31 * q + r
    BY <1>1, ErrorOffset
  <1>4. n + q - (n + q) \div 31 = n
    BY <1>1, ErrorOffset
  <1>5. h \in WT_APP_ERROR_FIRST .. WT_APP_ERROR_LAST
    BY <1>1, <1>2 DEF WT_APP_ERROR_LAST
  <1>6. ~Reserved(h)
    <2>1. PICK k \in Nat : WT_APP_ERROR_FIRST = 31 * k + 3
      BY <1>1, ErrorRangeAssumption
    <2>2. h - 33 = 31 * (k + q - 1) + (r + 1)
      BY <1>1, <1>2, <1>3, <2>1
    <2>3. (h - 33) % 31 = r + 1
      BY <1>1, <1>2, <2>1, <2>2
    <2> QED
      BY <2>3 DEF Reserved
  <1>7. h - WT_APP_ERROR_FIRST = n + q
    BY <1>1, <1>2
  <1> QED
    BY <1>1, <1>4, <1>5, <1>6, <1>7 DEF webtransport_to_http3_error, http3_to_webtransport_error

(* Division with remainder, the fact on integers under every digit that    *)
(* the varint encoders cut off.                                            *)
LEMMA Division ==
  ASSUME NEW b \in Int, b > 0, NEW v \in Int
  PROVE  /\ v \div b \in Int
         /\ v % b \in 0 .. b - 1
         /\ v = b * (v \div b) + (v % b)
  <1>1. v = b * (v \div b) + (v % b)
    BY SMTT(60)
  <1>2. v \div b \in Int
    OBVIOUS
  <1>3. v % b \in 0 .. b - 1
    OBVIOUS
  <1> QED
    BY <1>1, <1>2, <1>3

(* A number written as quotient and remainder divides into these two: what *)
(* the decoders of varint.rs rely on when they mask a prefix out.          *)
LEMMA DivisionUnique ==
  ASSUME NEW b \in Int, b > 0, NEW q \in Int, NEW r \in 0 .. b - 1
  PROVE  (b * q + r) \div b = q /\ (b * q + r) % b = r
  <1> DEFINE v == b * q + r
  <1>1. v \in Int /\ v = b * q + r
    OBVIOUS
  <1> HIDE DEF v
  <1>2. v \div b = q
    BY <1>1
  <1>3. v = b * (v \div b) + (v % b) /\ v % b \in 0 .. b - 1
    BY <1>1, Division
  <1>4. v % b = r
    BY <1>1, <1>2, <1>3
  <1> QED
    BY <1>2, <1>4 DEF v

(* Cutting the last digit off a value and shifting it back in, as encode   *)
(* and decode of varint.rs do byte by byte, is the identity.               *)
LEMMA DownUp ==
  ASSUME NEW v \in Nat
  PROVE  /\ Down(v) \in Nat
         /\ Low(v) \in 0 .. Base - 1
         /\ Up(Down(v), Low(v)) = v
  <1>1. Base \in Int /\ Base > 0
    BY BaseAssumption
  <1>2. Down(v) \in Int /\ Low(v) \in 0 .. Base - 1 /\ v = Base * Down(v) + Low(v)
    BY <1>1, Division DEF Down, Low
  <1>3. Down(v) >= 0
    <2> SUFFICES ASSUME Down(v) < 0 PROVE FALSE
      BY <1>2
    <2>1. Base * Down(v) <= -Base
      BY <1>1, <1>2
    <2> QED
      BY <1>1, <1>2, <2>1
  <1> QED
    BY <1>1, <1>2, <1>3 DEF Up

(* A value without its last digit is below the limit without its last      *)
(* digit: how the range of a varint length bounds its first byte.          *)
LEMMA DownBelow ==
  ASSUME NEW v \in Nat, NEW limit \in Nat, v < limit * Base
  PROVE  Down(v) < limit
  <1>1. Base \in Nat /\ Base >= 8
    BY BaseAssumption
  <1>2. Down(v) \in Nat /\ Low(v) \in 0 .. Base - 1 /\ v = Down(v) * Base + Low(v)
    BY DownUp DEF Up
  <1>3. ASSUME Down(v) >= limit PROVE FALSE
    <2>1. Down(v) * Base >= limit * Base
      BY <1>1, <1>2, <1>3
    <2> QED
      BY <1>1, <1>2, <2>1
  <1> QED
    BY <1>2, <1>3

(* The length prefix and the value bits of a first byte do not overlap:    *)
(* the prefix in the top quarter, the value below it.                      *)
LEMMA PrefixParts ==
  ASSUME NEW n \in 0 .. 3, NEW v \in Nat, v < Quarter
  PROVE  (n * Quarter + v) \div Quarter = n /\ (n * Quarter + v) % Quarter = v
  <1>1. Quarter \in Nat /\ Quarter > 0
    BY BaseAssumption DEF Quarter
  <1>2. n * Quarter + v = Quarter * n + v /\ v \in 0 .. Quarter - 1
    BY <1>1
  <1> QED
    BY <1>1, <1>2, DivisionUnique

(* The limits of the four varint lengths in terms of one another, as       *)
(* varint_len (varint.rs) compares with them one after the other.          *)
LEMMA LimitsGrow ==
  /\ Quarter \in Nat /\ Limit1 = Quarter /\ Quarter < Base
  /\ Limit2 = Quarter * Base /\ Limit2 \in Nat
  /\ Limit4 = Limit2 * Base * Base /\ Limit4 \in Nat
  /\ Limit8 = Limit4 * Base * Base * Base * Base /\ Limit8 \in Nat
  <1>1. Base \in Nat /\ Quarter \in Nat /\ Quarter < Base
    BY BaseAssumption DEF Quarter
  <1>2. Limit2 = Quarter * Base /\ Limit2 \in Nat
    BY <1>1 DEF Limit1, Limit2
  <1>3. \A n \in Nat : n * Base \in Nat
    BY <1>1
  <1>4. Limit4 = Limit2 * Base * Base /\ Limit4 \in Nat
    BY <1>2, <1>3 DEF Limit4
  <1>5. Limit8 = Limit4 * Base * Base * Base * Base /\ Limit8 \in Nat
    BY <1>3, <1>4 DEF Limit8
  <1> QED
    BY <1>1, <1>2, <1>4, <1>5 DEF Limit1

(* The decoder reads length and value bits off a first byte as the encoder *)
(* wrote them, for each of the four prefixes.                              *)
LEMMA FirstByte ==
  ASSUME NEW x \in Nat, x < Quarter
  PROVE  /\ PrefixLen(x) = 1               /\ x % Quarter = x
         /\ PrefixLen(Quarter + x) = 2     /\ (Quarter + x) % Quarter = x
         /\ PrefixLen(2 * Quarter + x) = 4 /\ (2 * Quarter + x) % Quarter = x
         /\ PrefixLen(3 * Quarter + x) = 8 /\ (3 * Quarter + x) % Quarter = x
  <1>0. Quarter \in Nat
    BY LimitsGrow
  <1>1. 0 * Quarter + x = x /\ 1 * Quarter + x = Quarter + x
    BY <1>0
  <1>2. x \div Quarter = 0 /\ x % Quarter = x
    BY <1>1, PrefixParts, 0 \in 0 .. 3
  <1>3. (Quarter + x) \div Quarter = 1 /\ (Quarter + x) % Quarter = x
    BY <1>1, PrefixParts, 1 \in 0 .. 3
  <1>4. (2 * Quarter + x) \div Quarter = 2 /\ (2 * Quarter + x) % Quarter = x
    BY PrefixParts, 2 \in 0 .. 3
  <1>5. (3 * Quarter + x) \div Quarter = 3 /\ (3 * Quarter + x) % Quarter = x
    BY PrefixParts, 3 \in 0 .. 3
  <1> QED
    BY <1>2, <1>3, <1>4, <1>5 DEF PrefixLen

(* The bytes the encoder of varint.rs writes for each length above one.    *)
LEMMA VarintOfLength ==
  ASSUME NEW v
  PROVE  /\ varint_len(v) = 2 => VarintBytes(v) = <<Quarter + Down(v), Low(v)>>
         /\ varint_len(v) = 4 =>
              VarintBytes(v) = <<2 * Quarter + Down(Down(Down(v))), Low(Down(Down(v))),
                                 Low(Down(v)), Low(v)>>
         /\ varint_len(v) = 8 =>
              VarintBytes(v) = <<3 * Quarter + Down(Down(Down(Down(Down(Down(Down(v))))))),
                                 Low(Down(Down(Down(Down(Down(Down(v))))))),
                                 Low(Down(Down(Down(Down(Down(v)))))),
                                 Low(Down(Down(Down(Down(v))))), Low(Down(Down(Down(v)))),
                                 Low(Down(Down(v))), Low(Down(v)), Low(v)>>
BY DEF VarintBytes

(* Bytes that follow in the buffer do not disturb those in front of them.  *)
LEMMA Appended ==
  ASSUME NEW bytes \in Seq(Int), NEW rest \in Seq(Int), bytes # <<>>
  PROVE  /\ bytes \o rest # <<>>
         /\ Len(bytes \o rest) >= Len(bytes)
         /\ \A i \in 1 .. Len(bytes) : (bytes \o rest)[i] = bytes[i]
OBVIOUS

(* Decoding after encoding (varint.rs): a varint of any value the format   *)
(* can carry, followed by whatever else is in the buffer, decodes to that  *)
(* value and consumes exactly the bytes that varint_len announced.         *)
THEOREM VarintRoundTrip ==
  \A v \in 0 .. MAX_VARINT, rest \in Seq(Int) :
    DecodeVarint(VarintBytes(v) \o rest) = Value(v, varint_len(v))
  <1> SUFFICES ASSUME NEW v \in 0 .. MAX_VARINT, NEW rest \in Seq(Int)
               PROVE  DecodeVarint(VarintBytes(v) \o rest) = Value(v, varint_len(v))
    OBVIOUS
  <1> DEFINE v2 == Down(v)
             v3 == Down(v2)
             v4 == Down(v3)
             v5 == Down(v4)
             v6 == Down(v5)
             v7 == Down(v6)
             v8 == Down(v7)
             s == VarintBytes(v) \o rest
  <1>0. Base \in Nat /\ Quarter \in Nat /\ Limit1 = Quarter /\ Quarter < Base
    BY BaseAssumption, LimitsGrow
  <1>v. v \in Nat /\ v < Limit8
    BY LimitsGrow DEF MAX_VARINT
  <1>2. v2 \in Nat /\ Low(v) \in Nat /\ Up(v2, Low(v)) = v
    BY <1>0, <1>v, DownUp
  <1>3. v3 \in Nat /\ Low(v2) \in Nat /\ Up(v3, Low(v2)) = v2
    BY <1>0, <1>2, DownUp
  <1>4. v4 \in Nat /\ Low(v3) \in Nat /\ Up(v4, Low(v3)) = v3
    BY <1>0, <1>3, DownUp
  <1>5. v5 \in Nat /\ Low(v4) \in Nat /\ Up(v5, Low(v4)) = v4
    BY <1>0, <1>4, DownUp
  <1>6. v6 \in Nat /\ Low(v5) \in Nat /\ Up(v6, Low(v5)) = v5
    BY <1>0, <1>5, DownUp
  <1>7. v7 \in Nat /\ Low(v6) \in Nat /\ Up(v7, Low(v6)) = v6
    BY <1>0, <1>6, DownUp
  <1>8. v8 \in Nat /\ Low(v7) \in Nat /\ Up(v8, Low(v7)) = v7
    BY <1>0, <1>7, DownUp
  <1>d. \A w, limit \in Nat : w < limit * Base => Down(w) < limit
    BY DownBelow
  <1>p. \A n \in Nat : n * Base \in Nat
    BY <1>0
  <1>a. CASE v < Limit1
    <2>1. VarintBytes(v) = <<v>> /\ varint_len(v) = 1
      BY <1>a DEF VarintBytes, varint_len
    <2>2. s # <<>> /\ Len(s) >= 1 /\ s[1] = v
      BY <2>1, <1>v, Appended
    <2>3. PrefixLen(v) = 1 /\ v % Quarter = v
      BY <1>0, <1>v, <1>a, FirstByte
    <2>4. VarintValue(s, 1) = v
      BY <2>2, <2>3 DEF VarintValue
    <2> QED
      BY <2>1, <2>2, <2>3, <2>4 DEF DecodeVarint
  <1>b. CASE v >= Limit1 /\ v < Limit2
    <2> DEFINE b == <<Quarter + v2, Low(v)>>
    <2>1. VarintBytes(v) = b /\ varint_len(v) = 2
      <3>1. varint_len(v) = 2
        BY <1>b, <1>0, <1>v, LimitsGrow DEF varint_len
      <3> QED
        BY <3>1, VarintOfLength
    <2>2. /\ s # <<>> /\ Len(s) >= 2
          /\ s[1] = Quarter + v2
          /\ s[2] = Low(v)
      <3>1. b \in Seq(Int) /\ b # <<>> /\ Len(b) = 2
        BY <1>0, <1>2
      <3>2. b[1] = Quarter + v2 /\ b[2] = Low(v)
        OBVIOUS
      <3> HIDE DEF b
      <3>3. b \o rest # <<>> /\ Len(b \o rest) >= 2 /\ \A i \in 1 .. 2 : (b \o rest)[i] = b[i]
        BY <3>1, Appended
      <3> DEFINE w == b \o rest
      <3>4. ASSUME NEW i \in 1 .. 2 PROVE w[i] = b[i]
        BY <3>3
      <3> HIDE DEF w
      <3>w1. w[1] = b[1]
        BY <3>4
      <3>w2. w[2] = b[2]
        BY <3>4
      <3>5. s = w
        BY <2>1 DEF w
      <3>6. w # <<>> /\ Len(w) >= 2
        BY <3>3 DEF w
      <3> HIDE DEF s, v2, v3, v4, v5, v6, v7, v8
      <3> QED
        BY <3>2, <3>5, <3>6, <3>w1, <3>w2
    <2>3. v2 < Quarter
      BY <1>0, <1>v, <1>b, <1>d, LimitsGrow
    <2>4. PrefixLen(Quarter + v2) = 2 /\ (Quarter + v2) % Quarter = v2
      BY <1>2, <2>3, FirstByte
    <2>5. VarintValue(s, 2) = v
      BY <1>2, <2>2, <2>4 DEF VarintValue
    <2> QED
      BY <2>1, <2>2, <2>4, <2>5 DEF DecodeVarint
  <1>c. CASE v >= Limit2 /\ v < Limit4
    <2> DEFINE b == <<2 * Quarter + v4, Low(v3), Low(v2), Low(v)>>
    <2>1. VarintBytes(v) = b /\ varint_len(v) = 4
      <3>1. varint_len(v) = 4
        BY <1>c, <1>0, <1>v, LimitsGrow DEF varint_len
      <3> QED
        BY <3>1, VarintOfLength
    <2>2. /\ s # <<>> /\ Len(s) >= 4
          /\ s[1] = 2 * Quarter + v4
          /\ s[2] = Low(v3)
          /\ s[3] = Low(v2)
          /\ s[4] = Low(v)
      <3>1. b \in Seq(Int) /\ b # <<>> /\ Len(b) = 4
        BY <1>0, <1>2, <1>3, <1>4
      <3>2. b[1] = 2 * Quarter + v4 /\ b[2] = Low(v3) /\ b[3] = Low(v2) /\ b[4] = Low(v)
        OBVIOUS
      <3> HIDE DEF b
      <3>3. b \o rest # <<>> /\ Len(b \o rest) >= 4 /\ \A i \in 1 .. 4 : (b \o rest)[i] = b[i]
        BY <3>1, Appended
      <3> DEFINE w == b \o rest
      <3>4. ASSUME NEW i \in 1 .. 4 PROVE w[i] = b[i]
        BY <3>3
      <3> HIDE DEF w
      <3>w1. w[1] = b[1]
        BY <3>4
      <3>w2. w[2] = b[2]
        BY <3>4
      <3>w3. w[3] = b[3]
        BY <3>4
      <3>w4. w[4] = b[4]
        BY <3>4
      <3>5. s = w
        BY <2>1 DEF w
      <3>6. w # <<>> /\ Len(w) >= 4
        BY <3>3 DEF w
      <3> HIDE DEF s, v2, v3, v4, v5, v6, v7, v8
      <3> QED
        BY <3>2, <3>5, <3>6, <3>w1, <3>w2, <3>w3, <3>w4
    <2>3. v4 < Quarter
      <3>1. v2 < Quarter * Base * Base
        BY <1>0, <1>v, <1>c, <1>d, <1>p, LimitsGrow
      <3>2. v3 < Quarter * Base
        BY <1>0, <1>2, <1>d, <1>p, <3>1
      <3> QED
        BY <1>0, <1>3, <1>d, <3>2
    <2>4. PrefixLen(2 * Quarter + v4) = 4 /\ (2 * Quarter + v4) % Quarter = v4
      BY <1>4, <2>3, FirstByte
    <2>5. VarintValue(s, 4) = v
      BY <1>2, <1>3, <1>4, <2>2, <2>4 DEF VarintValue
    <2> QED
      BY <2>1, <2>2, <2>4, <2>5 DEF DecodeVarint
  <1>e. CASE v >= Limit4
    <2> DEFINE b == <<3 * Quarter + v8, Low(v7), Low(v6), Low(v5), Low(v4), Low(v3), Low(v2), Low(v)>>
    <2>1. VarintBytes(v) = b /\ varint_len(v) = 8
      <3>1. varint_len(v) = 8
        BY <1>e, <1>0, <1>v, LimitsGrow DEF varint_len
      <3> QED
        BY <3>1, VarintOfLength
    <2>2. /\ s # <<>> /\ Len(s) >= 8
          /\ s[1] = 3 * Quarter + v8
          /\ s[2] = Low(v7)
          /\ s[3] = Low(v6)
          /\ s[4] = Low(v5)
          /\ s[5] = Low(v4)
          /\ s[6] = Low(v3)
          /\ s[7] = Low(v2)
          /\ s[8] = Low(v)
      <3>1. b \in Seq(Int) /\ b # <<>> /\ Len(b) = 8
        BY <1>0, <1>2, <1>3, <1>4, <1>5, <1>6, <1>7, <1>8
      <3>2. b[1] = 3 * Quarter + v8 /\ b[2] = Low(v7) /\ b[3] = Low(v6) /\ b[4] = Low(v5) /\ b[5] = Low(v4) /\ b[6] = Low(v3) /\ b[7] = Low(v2) /\ b[8] = Low(v)
        OBVIOUS
      <3> HIDE DEF b
      <3>3. b \o rest # <<>> /\ Len(b \o rest) >= 8 /\ \A i \in 1 .. 8 : (b \o rest)[i] = b[i]
        BY <3>1, Appended
      <3> DEFINE w == b \o rest
      <3>4. ASSUME NEW i \in 1 .. 8 PROVE w[i] = b[i]
        BY <3>3
      <3> HIDE DEF w
      <3>w1. w[1] = b[1]
        BY <3>4
      <3>w2. w[2] = b[2]
        BY <3>4
      <3>w3. w[3] = b[3]
        BY <3>4
      <3>w4. w[4] = b[4]
        BY <3>4
      <3>w5. w[5] = b[5]
        BY <3>4
      <3>w6. w[6] = b[6]
        BY <3>4
      <3>w7. w[7] = b[7]
        BY <3>4
      <3>w8. w[8] = b[8]
        BY <3>4
      <3>5. s = w
        BY <2>1 DEF w
      <3>6. w # <<>> /\ Len(w) >= 8
        BY <3>3 DEF w
      <3> HIDE DEF s, v2, v3, v4, v5, v6, v7, v8
      <3> QED
        BY <3>2, <3>5, <3>6, <3>w1, <3>w2, <3>w3, <3>w4, <3>w5, <3>w6, <3>w7, <3>w8
    <2>3. v8 < Quarter
      <3>1. v2 < Limit4 * Base * Base * Base
        BY <1>0, <1>v, <1>d, <1>p, LimitsGrow
      <3>2. v3 < Limit4 * Base * Base
        BY <1>0, <1>2, <1>d, <1>p, <3>1, LimitsGrow
      <3>3. v4 < Limit4 * Base
        BY <1>0, <1>3, <1>d, <1>p, <3>2, LimitsGrow
      <3>4. v5 < Limit4
        BY <1>0, <1>4, <1>d, <1>p, <3>3, LimitsGrow
      <3>5. v6 < Quarter * Base * Base
        BY <1>0, <1>5, <1>d, <1>p, <3>4, LimitsGrow
      <3>6. v7 < Quarter * Base
        BY <1>0, <1>6, <1>d, <1>p, <3>5
      <3> QED
        BY <1>0, <1>7, <1>d, <3>6
    <2>4. PrefixLen(3 * Quarter + v8) = 8 /\ (3 * Quarter + v8) % Quarter = v8
      BY <1>8, <2>3, FirstByte
    <2>5. VarintValue(s, 8) = v
      BY <1>2, <1>3, <1>4, <1>5, <1>6, <1>7, <1>8, <2>2, <2>4 DEF VarintValue
    <2> QED
      BY <2>1, <2>2, <2>4, <2>5 DEF DecodeVarint
  <1> QED
    BY <1>0, <1>v, <1>a, <1>b, <1>c, <1>e, LimitsGrow

=============================================================================
