-------------------------- MODULE JsonEncodingProofs --------------------------
(* What the decoders of encodings.h make of what the encoders write, for every
   character, and what a transcoder makes of a whole text, for every text. *)
EXTENDS JsonEncoding, WellFoundedInduction, TLAPS

\* The code points that are characters: no surrogate, nothing beyond 0x10FFFF.
Characters == (0..MaxCodepoint) \ Surrogates

\* The values the code units of UTF-8, UTF-16 and UTF-32 have.
Bytes == 0..255
Words == {n \in Nat : n <= 65535}
Units(enc) == CASE Family(enc) = "UTF8" -> Bytes
                [] Family(enc) = "UTF16" -> Words
                [] OTHER -> Nat

Continuation == 128..191

\* The second bytes GetRange and the masks of UTF8::Decode allow behind a lead
\* byte: what keeps out overlong forms, surrogates and code points too large.
SecondBytes(c) == CASE c = 224 -> 160..191 [] c = 237 -> 128..159
                    [] c = 240 -> 144..191 [] c = 244 -> 128..143
                    [] OTHER -> Continuation

\* The code points of two, three and four bytes.
Code2(c, x) == 64 * (c - 192) + (x % 64)
Code3(c, x, y) == 4096 * (c - 224) + 64 * (x % 64) + (y % 64)
Code4(c, x, y, z) == 262144 * (c - 240) + 4096 * (x % 64) + 64 * (y % 64) + (z % 64)

-------------------------------------------------------------------------------
LEMMA SecondByteForms ==
    ASSUME NEW c
    PROVE  /\ c = 224 => SecondBytes(c) = 160..191
           /\ c = 237 => SecondBytes(c) = 128..159
           /\ c = 240 => SecondBytes(c) = 144..191
           /\ c = 244 => SecondBytes(c) = 128..143
           /\ c \notin {224, 237, 240, 244} => SecondBytes(c) = Continuation
           /\ SecondBytes(c) \subseteq Continuation
<1>1. /\ c = 224 => SecondBytes(c) = 160..191
      /\ c = 237 => SecondBytes(c) = 128..159
      /\ c = 240 => SecondBytes(c) = 144..191
      /\ c = 244 => SecondBytes(c) = 128..143
  BY DEF SecondBytes
<1>2. c \notin {224, 237, 240, 244} => SecondBytes(c) = Continuation
  BY DEF SecondBytes
<1> QED BY <1>1, <1>2 DEF Continuation

LEMMA AtUnits ==
    ASSUME NEW S, 0 \in S, NEW t \in Seq(S), NEW p \in Int
    PROVE  At(t, p) \in S
  BY DEF At

LEMMA AtBytes ==
    ASSUME NEW t \in Seq(Bytes), NEW p \in Int
    PROVE  At(t, p) \in 0..255
<1>1. 0 \in Bytes
  BY DEF Bytes
<1>2. At(t, p) \in Bytes
  BY <1>1, AtUnits
<1> QED BY <1>2 DEF Bytes

LEMMA Classes ==
    ASSUME NEW c \in 0..255
    PROVE  /\ c \in 194..223 => GetRange(c) = 2
           /\ c \in (225..236) \union (238..239) => GetRange(c) = 3
           /\ c = 237 => GetRange(c) = 4
           /\ c = 244 => GetRange(c) = 5
           /\ c \in 241..243 => GetRange(c) = 6
           /\ c = 224 => GetRange(c) = 10
           /\ c = 240 => GetRange(c) = 11
           /\ c \in (192..193) \union (245..255) => GetRange(c) = 8
           /\ c \in 128..191 => GetRange(c) \in {16, 32, 64}
<1>1. c \in 194..223 => GetRange(c) = 2
  BY DEF GetRange
<1>2. c \in 225..236 => GetRange(c) = 3
  BY DEF GetRange
<1>3. c \in 238..239 => GetRange(c) = 3
  BY DEF GetRange
<1>4. (c = 237 => GetRange(c) = 4) /\ (c = 224 => GetRange(c) = 10)
  BY DEF GetRange
<1>5. (c = 244 => GetRange(c) = 5) /\ (c = 240 => GetRange(c) = 11)
  <2>1. c = 244 => GetRange(c) = 5
    BY DEF GetRange
  <2>2. c = 240 => GetRange(c) = 11
    BY DEF GetRange
  <2> QED BY <2>1, <2>2
<1>6. c \in 241..243 => GetRange(c) = 6
  BY DEF GetRange
<1>7. c \in 192..193 => GetRange(c) = 8
  BY DEF GetRange
<1>8. c \in 245..255 => GetRange(c) = 8
  BY DEF GetRange
<1>9. c \in 128..191 => GetRange(c) \in {16, 32, 64}
  BY DEF GetRange
<1> QED BY <1>1, <1>2, <1>3, <1>4, <1>5, <1>6, <1>7, <1>8, <1>9

LEMMA ContinuationRange ==
    ASSUME NEW b \in 0..255
    PROVE  /\ GetRange(b) \in {16, 32, 64} <=> b \in Continuation
           /\ GetRange(b) \in {16, 64} <=> b \in 128..159
           /\ GetRange(b) \in {32, 64} <=> b \in 144..191
           /\ GetRange(b) = 16 <=> b \in 128..143
           /\ GetRange(b) = 32 <=> b \in 160..191
           /\ b \in Continuation => b % 64 = b - 128
  BY DEF GetRange, Continuation

\* Behind for a lead byte with one, two and three bytes behind it.
LEMMA BehindOne ==
    ASSUME NEW t, NEW p \in Int, NEW type, NEW R, Trail(type) = <<R>>
    PROVE  Behind(t, p, type) =
               [ok |-> GetRange(At(t, p + 1)) \in R,
                cp |-> 64 * (At(t, p) % LeadMod(type)) + (At(t, p + 1) % 64),
                next |-> p + 2]
<1>1. Fits(t, p, <<R>>) <=> GetRange(At(t, p + 1)) \in R
  BY DEF Fits
<1>2. Len(<<R>>) = 1 /\ <<R>> # <<>>
  OBVIOUS
<1>3. \A lead : JoinedBits(lead, t, p, 1) = 64 * lead + (At(t, p + 1) % 64)
  BY DEF JoinedBits
<1> QED BY <1>1, <1>2, <1>3 DEF Behind

LEMMA BehindTwo ==
    ASSUME NEW t, NEW p \in Int, NEW type, NEW R, NEW S, Trail(type) = <<R, S>>
    PROVE  Behind(t, p, type) =
               [ok |-> GetRange(At(t, p + 1)) \in R /\ GetRange(At(t, p + 2)) \in S,
                cp |-> 4096 * (At(t, p) % LeadMod(type)) + 64 * (At(t, p + 1) % 64)
                       + (At(t, p + 2) % 64),
                next |-> p + 3]
<1>1. Fits(t, p, <<R, S>>) <=> GetRange(At(t, p + 1)) \in R /\ GetRange(At(t, p + 2)) \in S
  BY DEF Fits
<1>2. Len(<<R, S>>) = 2 /\ <<R, S>> # <<>>
  OBVIOUS
<1>3. \A lead : JoinedBits(lead, t, p, 2) =
                    4096 * lead + 64 * (At(t, p + 1) % 64) + (At(t, p + 2) % 64)
  BY DEF JoinedBits
<1> QED BY <1>1, <1>2, <1>3 DEF Behind

LEMMA BehindThree ==
    ASSUME NEW t, NEW p \in Int, NEW type, NEW R, NEW S, NEW T, Trail(type) = <<R, S, T>>
    PROVE  Behind(t, p, type) =
               [ok |-> /\ GetRange(At(t, p + 1)) \in R
                       /\ GetRange(At(t, p + 2)) \in S
                       /\ GetRange(At(t, p + 3)) \in T,
                cp |-> 262144 * (At(t, p) % LeadMod(type)) + 4096 * (At(t, p + 1) % 64)
                       + 64 * (At(t, p + 2) % 64) + (At(t, p + 3) % 64),
                next |-> p + 4]
<1> DEFINE tail == <<R, S, T>>
           lead == At(t, p) % LeadMod(type)
           code == 262144 * lead + 4096 * (At(t, p + 1) % 64)
                   + 64 * (At(t, p + 2) % 64) + (At(t, p + 3) % 64)
<1>1. Fits(t, p, tail) <=> /\ GetRange(At(t, p + 1)) \in R
                           /\ GetRange(At(t, p + 2)) \in S
                           /\ GetRange(At(t, p + 3)) \in T
  BY DEF Fits
<1>2. Len(tail) = 3 /\ tail # <<>>
  OBVIOUS
<1>3. JoinedBits(lead, t, p, 3) = code
  BY DEF JoinedBits
<1>4. p + 1 + 3 = p + 4
  OBVIOUS
<1> HIDE DEF tail, lead, code
<1>5. Behind(t, p, type) = [ok |-> tail # <<>> /\ Fits(t, p, tail),
                            cp |-> JoinedBits(lead, t, p, Len(tail)), next |-> p + 1 + Len(tail)]
  BY DEF Behind, tail, lead
<1>6. /\ tail # <<>> /\ Fits(t, p, tail)
          <=> /\ GetRange(At(t, p + 1)) \in R
              /\ GetRange(At(t, p + 2)) \in S
              /\ GetRange(At(t, p + 3)) \in T
      /\ JoinedBits(lead, t, p, Len(tail)) = code
      /\ p + 1 + Len(tail) = p + 4
  BY <1>1, <1>2, <1>3, <1>4
<1>7. Behind(t, p, type) = [ok |-> /\ GetRange(At(t, p + 1)) \in R
                                   /\ GetRange(At(t, p + 2)) \in S
                                   /\ GetRange(At(t, p + 3)) \in T,
                            cp |-> code, next |-> p + 4]
  BY <1>5, <1>6
<1> QED BY <1>7 DEF code, lead

\* UTF8::Decode on a lead byte of each class.
LEMMA DecodeOne ==
    ASSUME NEW t, NEW p \in Int, At(t, p) \in 0..127
    PROVE  DecodeUTF8(t, p) = [ok |-> TRUE, cp |-> At(t, p), next |-> p + 1]
  BY DEF DecodeUTF8

LEMMA DecodeTwo ==
    ASSUME NEW t, NEW p \in Int, At(t, p) \in 194..223, At(t, p + 1) \in 0..255
    PROVE  DecodeUTF8(t, p) = [ok |-> At(t, p + 1) \in Continuation,
                               cp |-> Code2(At(t, p), At(t, p + 1)),
                               next |-> p + 2]
<1>1. GetRange(At(t, p)) = 2
  BY Classes
<1>2. DecodeUTF8(t, p) = Behind(t, p, 2)
  BY <1>1 DEF DecodeUTF8
<1>3. Trail(2) = <<{16, 32, 64}>> /\ LeadMod(2) = 64
  BY DEF Trail, LeadMod
<1>4. At(t, p) % 64 = At(t, p) - 192
  OBVIOUS
<1> QED BY <1>2, <1>3, <1>4, BehindOne, ContinuationRange DEF Code2

LEMMA DecodeThree ==
    ASSUME NEW t, NEW p \in Int, At(t, p) \in 224..239,
           At(t, p + 1) \in 0..255, At(t, p + 2) \in 0..255
    PROVE  DecodeUTF8(t, p) =
               [ok |-> At(t, p + 1) \in SecondBytes(At(t, p)) /\ At(t, p + 2) \in Continuation,
                cp |-> Code3(At(t, p), At(t, p + 1), At(t, p + 2)),
                next |-> p + 3]
<1> DEFINE c == At(t, p)  type == GetRange(c)
<1>1. /\ c = 224 => type = 10
      /\ c = 237 => type = 4
      /\ c \notin {224, 237} => type = 3
  BY Classes
<1>2. DecodeUTF8(t, p) = Behind(t, p, type)
  BY DEF DecodeUTF8
<1>3. CASE c = 224
  <2>1. Trail(type) = <<{32}, {16, 32, 64}>> /\ LeadMod(type) = 1
    BY <1>1, <1>3 DEF Trail, LeadMod
  <2>2. c % 1 = c - 224 /\ SecondBytes(c) = 160..191
    BY <1>3 DEF SecondBytes
  <2> QED BY <1>2, <2>1, <2>2, BehindTwo, ContinuationRange DEF Code3
<1>4. CASE c = 237
  <2>1. Trail(type) = <<{16, 64}, {16, 32, 64}>> /\ LeadMod(type) = 16
    BY <1>1, <1>4 DEF Trail, LeadMod
  <2>2. c % 16 = c - 224 /\ SecondBytes(c) = 128..159
    BY <1>4 DEF SecondBytes
  <2> QED BY <1>2, <2>1, <2>2, BehindTwo, ContinuationRange DEF Code3
<1>5. CASE c \notin {224, 237}
  <2>1. Trail(type) = <<{16, 32, 64}, {16, 32, 64}>> /\ LeadMod(type) = 32
    BY <1>1, <1>5 DEF Trail, LeadMod
  <2>2. c % 32 = c - 224 /\ SecondBytes(c) = Continuation
    BY <1>5, SMT DEF SecondBytes, Continuation
  <2> QED BY <1>2, <2>1, <2>2, BehindTwo, ContinuationRange DEF Code3
<1> QED BY <1>3, <1>4, <1>5

LEMMA DecodeFour ==
    ASSUME NEW t, NEW p \in Int, At(t, p) \in 240..244,
           At(t, p + 1) \in 0..255, At(t, p + 2) \in 0..255, At(t, p + 3) \in 0..255
    PROVE  DecodeUTF8(t, p) =
               [ok |-> /\ At(t, p + 1) \in SecondBytes(At(t, p))
                       /\ At(t, p + 2) \in Continuation /\ At(t, p + 3) \in Continuation,
                cp |-> Code4(At(t, p), At(t, p + 1), At(t, p + 2), At(t, p + 3)),
                next |-> p + 4]
<1> DEFINE c == At(t, p)  type == GetRange(c)
<1>1. /\ c = 240 => type = 11
      /\ c = 244 => type = 5
      /\ c \in 241..243 => type = 6
  BY Classes
<1>2. DecodeUTF8(t, p) = Behind(t, p, type)
  BY DEF DecodeUTF8
<1>3. CASE c = 240
  <2>1. Trail(type) = <<{32, 64}, {16, 32, 64}, {16, 32, 64}>> /\ LeadMod(type) = 1
    BY <1>1, <1>3 DEF Trail, LeadMod
  <2>2. c % 1 = c - 240 /\ SecondBytes(c) = 144..191
    BY <1>3 DEF SecondBytes
  <2> QED BY <1>2, <2>1, <2>2, BehindThree, ContinuationRange DEF Code4
<1>4. CASE c = 244
  <2>1. Trail(type) = <<{16}, {16, 32, 64}, {16, 32, 64}>> /\ LeadMod(type) = 8
    BY <1>1, <1>4 DEF Trail, LeadMod
  <2>2. c % 8 = c - 240 /\ SecondBytes(c) = 128..143
    BY <1>4 DEF SecondBytes
  <2> QED BY <1>2, <2>1, <2>2, BehindThree, ContinuationRange DEF Code4
<1>5. CASE c \in 241..243
  <2>1. Trail(type) = <<{16, 32, 64}, {16, 32, 64}, {16, 32, 64}>> /\ LeadMod(type) = 4
    BY <1>1, <1>5 DEF Trail, LeadMod
  <2>2. c % 4 = c - 240 /\ SecondBytes(c) = Continuation
    BY <1>5, SMT DEF SecondBytes, Continuation
  <2> QED BY <1>2, <2>1, <2>2, BehindThree, ContinuationRange DEF Code4
<1> QED BY <1>3, <1>4, <1>5

LEMMA DecodeNone ==
    ASSUME NEW t, NEW p \in Int, At(t, p) \in (128..193) \union (245..255)
    PROVE  DecodeUTF8(t, p) = [ok |-> FALSE, cp |-> 0, next |-> p + 1]
<1>1. GetRange(At(t, p)) \in {8, 16, 32, 64}
  BY Classes
<1>2. /\ DecodeUTF8(t, p) = Behind(t, p, GetRange(At(t, p)))
      /\ Trail(GetRange(At(t, p))) = <<>> /\ LeadMod(GetRange(At(t, p))) = 1
  BY <1>1 DEF DecodeUTF8, Trail, LeadMod
<1>3. At(t, p) % 1 = 0
  OBVIOUS
<1>4. Len(<<>>) = 0 /\ JoinedBits(0, t, p, 0) = 0
  BY DEF JoinedBits
<1>5. Behind(t, p, GetRange(At(t, p))) =
          [ok |-> <<>> # <<>> /\ Fits(t, p, <<>>), cp |-> JoinedBits(0, t, p, 0), next |-> p + 1 + 0]
  BY <1>2, <1>3, <1>4, Zenon DEF Behind
<1>6. ~(<<>> # <<>> /\ Fits(t, p, <<>>)) /\ p + 1 + 0 = p + 1
  OBVIOUS
<1>7. Behind(t, p, GetRange(At(t, p))) = [ok |-> FALSE, cp |-> 0, next |-> p + 1]
  BY <1>4, <1>5, <1>6, Zenon
<1> QED BY <1>2, <1>7, Zenon

-------------------------------------------------------------------------------
\* The digits of a number to the base 64.
LEMMA Digits64 ==
    ASSUME NEW n \in Nat
    PROVE  /\ n = 64 * (n \div 64) + (n % 64)
           /\ n % 64 \in 0..63 /\ n \div 64 \in Nat
           /\ (128 + (n % 64)) % 64 = n % 64
           /\ 128 + (n % 64) \in Continuation
           /\ (n \div 64) \div 64 = n \div 4096
           /\ (n \div 4096) \div 64 = n \div 262144
<1>1. n = 64 * (n \div 64) + (n % 64) /\ n % 64 \in 0..63 /\ n \div 64 \in Nat
  OBVIOUS
<1>2. (128 + (n % 64)) % 64 = n % 64
  OBVIOUS
<1>3. (n \div 64) \div 64 = n \div 4096
  OBVIOUS
<1>4. (n \div 4096) \div 64 = n \div 262144
  OBVIOUS
<1> QED BY <1>1, <1>2, <1>3, <1>4 DEF Continuation

LEMMA ReadsTwo ==
    ASSUME NEW t, NEW p \in Int, NEW a, NEW b
    PROVE  Reads(t, p, <<a, b>>) <=> At(t, p) = a /\ At(t, p + 1) = b
  BY DEF Reads

LEMMA ReadsThree ==
    ASSUME NEW t, NEW p \in Int, NEW a, NEW b, NEW c
    PROVE  Reads(t, p, <<a, b, c>>) <=>
               At(t, p) = a /\ At(t, p + 1) = b /\ At(t, p + 2) = c
  BY DEF Reads

LEMMA ReadsFour ==
    ASSUME NEW t, NEW p \in Int, NEW a, NEW b, NEW c, NEW d
    PROVE  Reads(t, p, <<a, b, c, d>>) <=>
               /\ At(t, p) = a /\ At(t, p + 1) = b
               /\ At(t, p + 2) = c /\ At(t, p + 3) = d
  BY DEF Reads

LEMMA ReadsOne ==
    ASSUME NEW t, NEW p \in Int, NEW a
    PROVE  Reads(t, p, <<a>>) <=> At(t, p) = a
  BY DEF Reads

LEMMA LastDigit ==
    ASSUME NEW a \in Nat, NEW b \in 0..63
    PROVE  (64 * a + b) % 64 = b
  OBVIOUS

LEMMA CharacterBounds ==
    ASSUME NEW cp
    PROVE  cp \in Characters <=>
               cp \in Nat /\ cp <= MaxCodepoint /\ (cp <= 55295 \/ 57344 <= cp)
<1>1. MaxCodepoint \in Nat
  BY DEF MaxCodepoint
<1>2. ASSUME cp \in Nat PROVE cp \in Surrogates <=> 55296 <= cp /\ cp <= 57343
  BY <1>2 DEF Surrogates, HighSurrogates, LowSurrogates
<1>3. cp \in 0..MaxCodepoint <=> cp \in Nat /\ cp <= MaxCodepoint
  BY <1>1
<1>4. cp \in Characters <=> cp \in 0..MaxCodepoint /\ cp \notin Surrogates
  BY Zenon DEF Characters
<1>5. ASSUME cp \in Nat PROVE ~(55296 <= cp /\ cp <= 57343) <=> cp <= 55295 \/ 57344 <= cp
  BY <1>5
<1> QED BY <1>2, <1>3, <1>4, <1>5

LEMMA BasicCharacters ==
    ASSUME NEW n \in Nat, n <= 55295 \/ 57344 <= n, n <= 65535
    PROVE  n \in Characters
<1>1. n <= MaxCodepoint
  BY DEF MaxCodepoint
<1> QED BY <1>1, CharacterBounds

LEMMA EncodeForms ==
    ASSUME NEW n \in Nat
    PROVE  /\ n <= 127 => EncodeUTF8(n) = <<n>>
           /\ 128 <= n /\ n <= 2047 =>
                  EncodeUTF8(n) = <<192 + (n \div 64), Continued(n)>>
           /\ 2048 <= n /\ n <= 65535 =>
                  EncodeUTF8(n) = <<224 + (n \div 4096), Continued(n \div 64), Continued(n)>>
           /\ 65536 <= n =>
                  EncodeUTF8(n) = <<240 + (n \div 262144), Continued(n \div 4096),
                                    Continued(n \div 64), Continued(n)>>
<1>1. n <= 127 => EncodeUTF8(n) = <<n>>
  BY DEF EncodeUTF8
<1>2. 128 <= n /\ n <= 2047 => EncodeUTF8(n) = <<192 + (n \div 64), Continued(n)>>
  BY DEF EncodeUTF8
<1>3. 2048 <= n /\ n <= 65535 =>
          EncodeUTF8(n) = <<224 + (n \div 4096), Continued(n \div 64), Continued(n)>>
  BY DEF EncodeUTF8
<1>4. 65536 <= n => EncodeUTF8(n) = <<240 + (n \div 262144), Continued(n \div 4096),
                                      Continued(n \div 64), Continued(n)>>
  BY DEF EncodeUTF8
<1> QED BY <1>1, <1>2, <1>3, <1>4

\* Characters with two, three and four bytes, and those bytes.
LEMMA TwoBytes ==
    ASSUME NEW n \in Nat, 128 <= n, n <= 2047,
           NEW c, c = 192 + (n \div 64), NEW x, x = Continued(n)
    PROVE  /\ c \in 194..223 /\ x \in Continuation
           /\ Code2(c, x) = n
<1>1. n \div 64 \in 2..31
  OBVIOUS
<1>2. n = 64 * (n \div 64) + (n % 64) /\ x % 64 = n % 64 /\ x \in Continuation
  BY Digits64 DEF Continued
<1> QED BY <1>1, <1>2 DEF Code2

LEMMA ThreeBytes ==
    ASSUME NEW n \in Nat, 2048 <= n, n <= 65535, n <= 55295 \/ 57344 <= n,
           NEW c, c = 224 + (n \div 4096),
           NEW x, x = Continued(n \div 64), NEW y, y = Continued(n)
    PROVE  /\ c \in 224..239 /\ x \in SecondBytes(c) /\ x \in Continuation /\ y \in Continuation
           /\ Code3(c, x, y) = n
<1> DEFINE k == n \div 4096  l == (n \div 64) % 64  m == n % 64
<1>1. k \in 0..15 /\ n \div 64 \in Nat
  OBVIOUS
<1>2. n = 64 * (n \div 64) + m /\ m \in 0..63 /\ y % 64 = m /\ y \in Continuation
  BY Digits64 DEF Continued
<1>3. n \div 64 = 64 * k + l /\ l \in 0..63 /\ x % 64 = l /\ x \in Continuation /\ x = 128 + l
  BY <1>1, Digits64 DEF Continued
<1> HIDE DEF k, l, m
<1>4. n = 4096 * k + 64 * l + m
  BY <1>1, <1>2, <1>3
<1>5. c = 224 + k
  BY DEF k
<1>6. c \in 224..239 /\ 4096 * (c - 224) + 64 * (x % 64) + (y % 64) = n
  BY <1>1, <1>2, <1>3, <1>4, <1>5
<1>7. (k = 0 => 32 <= l) /\ (k = 13 => l <= 31)
  BY <1>1, <1>2, <1>3, <1>4
<1>8. x \in SecondBytes(c)
  <2>1. CASE k = 0
    BY <1>3, <1>5, <1>7, <2>1 DEF SecondBytes
  <2>2. CASE k = 13
    BY <1>3, <1>5, <1>7, <2>2 DEF SecondBytes
  <2>3. CASE k \notin {0, 13}
    <3>1. c \notin {224, 237, 240, 244}
      BY <1>1, <1>5, <2>3
    <3>2. SecondBytes(c) = Continuation
      BY <3>1 DEF SecondBytes
    <3> QED BY <1>3, <3>2
  <2> QED BY <2>1, <2>2, <2>3
<1> QED BY <1>2, <1>3, <1>6, <1>8 DEF Code3

LEMMA FourBytes ==
    ASSUME NEW n \in Nat, 65536 <= n, n <= MaxCodepoint,
           NEW c, c = 240 + (n \div 262144), NEW x, x = Continued(n \div 4096),
           NEW y, y = Continued(n \div 64), NEW z, z = Continued(n)
    PROVE  /\ c \in 240..244 /\ x \in SecondBytes(c)
           /\ x \in Continuation /\ y \in Continuation /\ z \in Continuation
           /\ Code4(c, x, y, z) = n
<1> DEFINE h == n \div 262144  k == (n \div 4096) % 64  l == (n \div 64) % 64  m == n % 64
<1>1. h \in 0..4 /\ n \div 64 \in Nat /\ n \div 4096 \in Nat /\ n <= 1114111
  BY DEF MaxCodepoint
<1>2. n = 64 * (n \div 64) + m /\ m \in 0..63 /\ z % 64 = m /\ z \in Continuation
  BY Digits64 DEF Continued
<1>3. n \div 64 = 64 * (n \div 4096) + l /\ l \in 0..63 /\ y % 64 = l /\ y \in Continuation
  BY <1>1, Digits64 DEF Continued
<1>4. /\ n \div 4096 = 64 * h + k /\ k \in 0..63
      /\ x % 64 = k /\ x \in Continuation /\ x = 128 + k
  BY <1>1, Digits64 DEF Continued
<1> HIDE DEF h, k, l, m
<1>5. n = 262144 * h + 4096 * k + 64 * l + m
  BY <1>1, <1>2, <1>3, <1>4
<1>6. c = 240 + h
  BY DEF h
<1>7. c \in 240..244 /\ 262144 * (c - 240) + 4096 * (x % 64) + 64 * (y % 64) + (z % 64) = n
  BY <1>1, <1>2, <1>3, <1>4, <1>5, <1>6
<1>8. (h = 0 => 16 <= k) /\ (h = 4 => k <= 15)
  BY <1>1, <1>2, <1>3, <1>4, <1>5
<1>9. x \in SecondBytes(c)
  <2>1. CASE h = 0
    BY <1>4, <1>6, <1>8, <2>1 DEF SecondBytes
  <2>2. CASE h = 4
    BY <1>4, <1>6, <1>8, <2>2 DEF SecondBytes
  <2>3. CASE h \notin {0, 4}
    <3>1. c \notin {224, 237, 240, 244}
      BY <1>1, <1>6, <2>3
    <3>2. SecondBytes(c) = Continuation
      BY <3>1 DEF SecondBytes
    <3> QED BY <1>4, <3>2
  <2> QED BY <2>1, <2>2, <2>3
<1> QED BY <1>2, <1>3, <1>4, <1>7, <1>9 DEF Code4

\* The same bytes, read at a position of a text.
LEMMA ReadTwo ==
    ASSUME NEW t, NEW p \in Int, NEW c \in 194..223, NEW x \in Continuation,
           Reads(t, p, <<c, x>>)
    PROVE  DecodeUTF8(t, p) = [ok |-> TRUE, cp |-> Code2(c, x), next |-> p + 2]
<1>1. At(t, p) = c /\ At(t, p + 1) = x
  BY ReadsTwo
<1>2. At(t, p) \in 194..223 /\ At(t, p + 1) \in 0..255
  BY <1>1 DEF Continuation
<1>3. DecodeUTF8(t, p) = [ok |-> At(t, p + 1) \in Continuation,
                          cp |-> Code2(At(t, p), At(t, p + 1)), next |-> p + 2]
  BY <1>2, DecodeTwo
<1> QED BY <1>1, <1>3

LEMMA ReadThree ==
    ASSUME NEW t, NEW p \in Int, NEW c \in 224..239,
           NEW x \in Continuation, x \in SecondBytes(c), NEW y \in Continuation,
           Reads(t, p, <<c, x, y>>)
    PROVE  DecodeUTF8(t, p) = [ok |-> TRUE, cp |-> Code3(c, x, y), next |-> p + 3]
<1>1. At(t, p) = c /\ At(t, p + 1) = x /\ At(t, p + 2) = y
  BY ReadsThree
<1>2. At(t, p) \in 224..239 /\ At(t, p + 1) \in 0..255 /\ At(t, p + 2) \in 0..255
  BY <1>1 DEF Continuation
<1>3. DecodeUTF8(t, p) =
          [ok |-> At(t, p + 1) \in SecondBytes(At(t, p)) /\ At(t, p + 2) \in Continuation,
           cp |-> Code3(At(t, p), At(t, p + 1), At(t, p + 2)), next |-> p + 3]
  BY <1>2, DecodeThree
<1> QED BY <1>1, <1>3

LEMMA ReadFour ==
    ASSUME NEW t, NEW p \in Int, NEW c \in 240..244,
           NEW x \in Continuation, x \in SecondBytes(c),
           NEW y \in Continuation, NEW z \in Continuation,
           Reads(t, p, <<c, x, y, z>>)
    PROVE  DecodeUTF8(t, p) = [ok |-> TRUE, cp |-> Code4(c, x, y, z), next |-> p + 4]
<1>1. /\ At(t, p) = c /\ At(t, p + 1) = x
      /\ At(t, p + 2) = y /\ At(t, p + 3) = z
  BY ReadsFour
<1>2. /\ At(t, p) \in 240..244 /\ At(t, p + 1) \in 0..255
      /\ At(t, p + 2) \in 0..255 /\ At(t, p + 3) \in 0..255
  BY <1>1 DEF Continuation
<1>3. DecodeUTF8(t, p) =
          [ok |-> /\ At(t, p + 1) \in SecondBytes(At(t, p))
                  /\ At(t, p + 2) \in Continuation /\ At(t, p + 3) \in Continuation,
           cp |-> Code4(At(t, p), At(t, p + 1), At(t, p + 2), At(t, p + 3)), next |-> p + 4]
  BY <1>2, DecodeFour
<1> QED BY <1>1, <1>3

\* What UTF8::Encode writes is a sequence UTF8::Decode reads.
LEMMA UTF8Encoded ==
    ASSUME NEW n \in Nat, n <= MaxCodepoint, n <= 55295 \/ 57344 <= n,
           NEW t, NEW p \in Int, Reads(t, p, EncodeUTF8(n))
    PROVE  DecodeUTF8(t, p) = [ok |-> TRUE, cp |-> n, next |-> p + Len(EncodeUTF8(n))]
<1> DEFINE Read == DecodeUTF8(t, p) = [ok |-> TRUE, cp |-> n, next |-> p + Len(EncodeUTF8(n))]
<1> SUFFICES Read
  OBVIOUS
<1>1. CASE n <= 127
  <2>1. EncodeUTF8(n) = <<n>> /\ Len(<<n>>) = 1
    BY <1>1, EncodeForms
  <2>2. At(t, p) = n /\ At(t, p) \in 0..127
    BY <1>1, <2>1, ReadsOne
  <2> QED BY <2>1, <2>2, DecodeOne
<1>2. CASE 128 <= n /\ n <= 2047
  <2> DEFINE c == 192 + (n \div 64)  x == Continued(n)
  <2>1. EncodeUTF8(n) = <<c, x>>
    BY <1>2, EncodeForms
  <2>2. c \in 194..223 /\ x \in Continuation /\ Code2(c, x) = n
    BY <1>2, TwoBytes
  <2> HIDE DEF c, x
  <2>3. Len(<<c, x>>) = 2 /\ Reads(t, p, <<c, x>>)
    BY <2>1
  <2>4. DecodeUTF8(t, p) = [ok |-> TRUE, cp |-> n, next |-> p + 2]
    BY <2>2, <2>3, ReadTwo
  <2> QED BY <2>1, <2>3, <2>4
<1>3. CASE 2048 <= n /\ n <= 65535
  <2> DEFINE c == 224 + (n \div 4096)  x == Continued(n \div 64)  y == Continued(n)
  <2>1. EncodeUTF8(n) = <<c, x, y>>
    BY <1>3, EncodeForms
  <2>2. /\ c \in 224..239 /\ x \in SecondBytes(c) /\ x \in Continuation /\ y \in Continuation
        /\ Code3(c, x, y) = n
    BY <1>3, ThreeBytes
  <2> HIDE DEF c, x, y
  <2>3. Len(<<c, x, y>>) = 3 /\ Reads(t, p, <<c, x, y>>)
    BY <2>1
  <2>4. DecodeUTF8(t, p) = [ok |-> TRUE, cp |-> n, next |-> p + 3]
    BY <2>2, <2>3, ReadThree
  <2> QED BY <2>1, <2>3, <2>4
<1>4. CASE 65536 <= n
  <2> DEFINE c == 240 + (n \div 262144)  x == Continued(n \div 4096)
             y == Continued(n \div 64)  z == Continued(n)
  <2>1. EncodeUTF8(n) = <<c, x, y, z>>
    BY <1>4, EncodeForms
  <2>2. /\ c \in 240..244 /\ x \in SecondBytes(c)
        /\ x \in Continuation /\ y \in Continuation /\ z \in Continuation
        /\ Code4(c, x, y, z) = n
    BY <1>4, FourBytes
  <2> HIDE DEF c, x, y, z
  <2>3. Len(<<c, x, y, z>>) = 4 /\ Reads(t, p, <<c, x, y, z>>)
    BY <2>1
  <2>4. DecodeUTF8(t, p) = [ok |-> TRUE, cp |-> n, next |-> p + 4]
    BY <2>2, <2>3, ReadFour
  <2> QED BY <2>1, <2>3, <2>4
<1>5. \/ n <= 127
      \/ 128 <= n /\ n <= 2047
      \/ 2048 <= n /\ n <= 65535
      \/ 65536 <= n
  OBVIOUS
<1> HIDE DEF Read
<1> QED BY <1>1, <1>2, <1>3, <1>4, <1>5

\* What two, three and four bytes the decoder accepts encode.
LEMMA CodeOfTwo ==
    ASSUME NEW c \in 194..223, NEW x \in Continuation,
           NEW n, Code2(c, x) = n
    PROVE  n \in Characters /\ EncodeUTF8(n) = <<c, x>>
<1>1. x \in 128..191 /\ x % 64 = x - 128
  BY DEF Continuation
<1>2. n = 64 * (c - 192) + (x - 128) /\ n \in Nat /\ 128 <= n /\ n <= 2047
  BY <1>1 DEF Code2
<1>3. n \div 64 = c - 192 /\ n % 64 = x - 128
  BY <1>1, <1>2
<1>4. n \in Characters
  BY <1>2, BasicCharacters
<1>5. EncodeUTF8(n) = <<192 + (n \div 64), Continued(n)>>
  BY <1>2, EncodeForms
<1>6. 192 + (n \div 64) = c /\ Continued(n) = x
  BY <1>1, <1>3 DEF Continued
<1> QED BY <1>4, <1>5, <1>6

LEMMA CodeOfThree ==
    ASSUME NEW c \in 224..239, NEW x \in Continuation, x \in SecondBytes(c),
           NEW y \in Continuation, NEW n, Code3(c, x, y) = n
    PROVE  n \in Characters /\ EncodeUTF8(n) = <<c, x, y>>
<1>1. /\ x \in 128..191 /\ x % 64 = x - 128
      /\ y \in 128..191 /\ y % 64 = y - 128
  BY DEF Continuation
<1>2. (c = 224 => 160 <= x) /\ (c = 237 => x <= 159)
  BY SecondByteForms
<1>3. n = 4096 * (c - 224) + 64 * (x - 128) + (y - 128)
  BY <1>1 DEF Code3
<1>4. n \in Nat /\ 2048 <= n /\ n <= 65535
  BY <1>1, <1>2, <1>3
<1>5. n <= 55295 \/ 57344 <= n
  BY <1>1, <1>2, <1>3
<1>6. /\ n \div 4096 = c - 224 /\ n % 64 = y - 128
      /\ n \div 64 = 64 * (c - 224) + (x - 128)
  BY <1>1, <1>3
<1>7. (n \div 64) % 64 = x - 128
  <2>1. c - 224 \in Nat /\ x - 128 \in 0..63
    BY <1>1
  <2> QED BY <1>6, <2>1, LastDigit
<1>8. n \in Characters
  BY <1>4, <1>5, BasicCharacters
<1>9. EncodeUTF8(n) = <<224 + (n \div 4096), Continued(n \div 64), Continued(n)>>
  BY <1>4, EncodeForms
<1>10. /\ 224 + (n \div 4096) = c
       /\ Continued(n \div 64) = x /\ Continued(n) = y
  BY <1>1, <1>6, <1>7 DEF Continued
<1> QED BY <1>8, <1>9, <1>10

LEMMA CodeOfFour ==
    ASSUME NEW c \in 240..244, NEW x \in Continuation, x \in SecondBytes(c),
           NEW y \in Continuation, NEW z \in Continuation,
           NEW n, Code4(c, x, y, z) = n
    PROVE  n \in Characters /\ EncodeUTF8(n) = <<c, x, y, z>>
<1>1. /\ x \in 128..191 /\ x % 64 = x - 128
      /\ y \in 128..191 /\ y % 64 = y - 128
      /\ z \in 128..191 /\ z % 64 = z - 128
  BY DEF Continuation
<1>2. (c = 240 => 144 <= x) /\ (c = 244 => x <= 143)
  BY SecondByteForms
<1>3. n = 262144 * (c - 240) + 4096 * (x - 128) + 64 * (y - 128) + (z - 128)
  BY <1>1 DEF Code4
<1>4. n \in Nat /\ 65536 <= n /\ n <= MaxCodepoint
  BY <1>1, <1>2, <1>3 DEF MaxCodepoint
<1>5. /\ n \div 262144 = c - 240 /\ n % 64 = z - 128
      /\ n \div 4096 = 64 * (c - 240) + (x - 128)
      /\ n \div 64 = 4096 * (c - 240) + 64 * (x - 128) + (y - 128)
  <2>1. n \div 262144 = c - 240
    BY <1>1, <1>3
  <2>2. n \div 4096 = 64 * (c - 240) + (x - 128)
    BY <1>1, <1>3
  <2>3. n \div 64 = 4096 * (c - 240) + 64 * (x - 128) + (y - 128) /\ n % 64 = z - 128
    BY <1>1, <1>3
  <2> QED BY <2>1, <2>2, <2>3
<1>6. (n \div 4096) % 64 = x - 128 /\ (n \div 64) % 64 = y - 128
  <2>1. /\ c - 240 \in Nat /\ x - 128 \in 0..63 /\ y - 128 \in 0..63
        /\ 64 * (c - 240) + (x - 128) \in Nat
    BY <1>1
  <2>2. n \div 64 = 64 * (64 * (c - 240) + (x - 128)) + (y - 128)
    BY <1>1, <1>5
  <2>3. (n \div 4096) % 64 = x - 128
    BY <1>5, <2>1, LastDigit
  <2>4. (n \div 64) % 64 = y - 128
    <3> DEFINE a == 64 * (c - 240) + (x - 128)  b == y - 128
    <3>1. a \in Nat /\ b \in 0..63 /\ n \div 64 = 64 * a + b
      BY <2>1, <2>2
    <3> HIDE DEF a, b
    <3>2. (n \div 64) % 64 = b
      BY <3>1, LastDigit
    <3> QED BY <3>2 DEF b
  <2> QED BY <2>3, <2>4
<1>7. n \in Characters
  BY <1>4, CharacterBounds
<1>8. EncodeUTF8(n) = <<240 + (n \div 262144), Continued(n \div 4096),
                        Continued(n \div 64), Continued(n)>>
  BY <1>4, EncodeForms
<1>9. /\ 240 + (n \div 262144) = c /\ Continued(n \div 4096) = x
      /\ Continued(n \div 64) = y /\ Continued(n) = z
  BY <1>1, <1>5, <1>6 DEF Continued
<1> QED BY <1>7, <1>8, <1>9

\* What the decoder says of a sequence it accepts.
LEMMA AcceptTwo ==
    ASSUME NEW t, NEW p \in Int, At(t, p) \in 194..223, At(t, p + 1) \in 0..255,
           DecodeUTF8(t, p).ok
    PROVE  /\ At(t, p + 1) \in Continuation
           /\ DecodeUTF8(t, p).cp = Code2(At(t, p), At(t, p + 1))
           /\ DecodeUTF8(t, p).next = p + 2
<1>1. DecodeUTF8(t, p) = [ok |-> At(t, p + 1) \in Continuation,
                          cp |-> Code2(At(t, p), At(t, p + 1)), next |-> p + 2]
  BY DecodeTwo
<1> DEFINE d == DecodeUTF8(t, p)  v == Code2(At(t, p), At(t, p + 1))  q == p + 2
           fits == At(t, p + 1) \in Continuation
<1>2. fits \in BOOLEAN /\ d.ok /\ d = [ok |-> fits, cp |-> v, next |-> q]
  BY <1>1
<1> HIDE DEF d, v, q, fits
<1>3. fits /\ d.cp = v /\ d.next = q
  BY <1>2
<1> QED BY <1>3 DEF d, v, q, fits

LEMMA AcceptThree ==
    ASSUME NEW t, NEW p \in Int, At(t, p) \in 224..239,
           At(t, p + 1) \in 0..255, At(t, p + 2) \in 0..255, DecodeUTF8(t, p).ok
    PROVE  /\ At(t, p + 1) \in SecondBytes(At(t, p)) /\ At(t, p + 1) \in Continuation
           /\ At(t, p + 2) \in Continuation
           /\ DecodeUTF8(t, p).cp = Code3(At(t, p), At(t, p + 1), At(t, p + 2))
           /\ DecodeUTF8(t, p).next = p + 3
<1>1. DecodeUTF8(t, p) =
          [ok |-> At(t, p + 1) \in SecondBytes(At(t, p)) /\ At(t, p + 2) \in Continuation,
           cp |-> Code3(At(t, p), At(t, p + 1), At(t, p + 2)), next |-> p + 3]
  BY DecodeThree
<1>2. SecondBytes(At(t, p)) \subseteq Continuation
  BY SecondByteForms
<1> DEFINE d == DecodeUTF8(t, p)  v == Code3(At(t, p), At(t, p + 1), At(t, p + 2))  q == p + 3
           fits == At(t, p + 1) \in SecondBytes(At(t, p)) /\ At(t, p + 2) \in Continuation
<1>3. fits \in BOOLEAN /\ d.ok /\ d = [ok |-> fits, cp |-> v, next |-> q]
  BY <1>1
<1> HIDE DEF d, v, q, fits
<1>4. fits /\ d.cp = v /\ d.next = q
  BY <1>3
<1> QED BY <1>2, <1>4 DEF d, v, q, fits

LEMMA AcceptFour ==
    ASSUME NEW t, NEW p \in Int, At(t, p) \in 240..244,
           At(t, p + 1) \in 0..255, At(t, p + 2) \in 0..255, At(t, p + 3) \in 0..255,
           DecodeUTF8(t, p).ok
    PROVE  /\ At(t, p + 1) \in SecondBytes(At(t, p)) /\ At(t, p + 1) \in Continuation
           /\ At(t, p + 2) \in Continuation /\ At(t, p + 3) \in Continuation
           /\ DecodeUTF8(t, p).cp = Code4(At(t, p), At(t, p + 1), At(t, p + 2), At(t, p + 3))
           /\ DecodeUTF8(t, p).next = p + 4
<1>1. DecodeUTF8(t, p) =
          [ok |-> /\ At(t, p + 1) \in SecondBytes(At(t, p))
                  /\ At(t, p + 2) \in Continuation /\ At(t, p + 3) \in Continuation,
           cp |-> Code4(At(t, p), At(t, p + 1), At(t, p + 2), At(t, p + 3)), next |-> p + 4]
  BY DecodeFour
<1>2. SecondBytes(At(t, p)) \subseteq Continuation
  BY SecondByteForms
<1> QED BY <1>1, <1>2

\* What UTF8::Decode accepts is what UTF8::Encode writes for a character: the
\* shortest form, of no surrogate and nothing beyond 0x10FFFF.
LEMMA UTF8Decoded ==
    ASSUME NEW t \in Seq(Bytes), NEW p \in Int, DecodeUTF8(t, p).ok
    PROVE  /\ DecodeUTF8(t, p).cp \in Characters
           /\ Reads(t, p, EncodeUTF8(DecodeUTF8(t, p).cp))
           /\ DecodeUTF8(t, p).next = p + Len(EncodeUTF8(DecodeUTF8(t, p).cp))
<1> DEFINE c == At(t, p)  x == At(t, p + 1)  y == At(t, p + 2)  z == At(t, p + 3)
           n == DecodeUTF8(t, p).cp
           next == DecodeUTF8(t, p).next
           Written == /\ n \in Characters /\ Reads(t, p, EncodeUTF8(n))
                      /\ next = p + Len(EncodeUTF8(n))
<1> SUFFICES Written
  OBVIOUS
<1>1. c \in 0..255 /\ x \in 0..255 /\ y \in 0..255 /\ z \in 0..255
  <2>1. p + 1 \in Int /\ p + 2 \in Int /\ p + 3 \in Int
    OBVIOUS
  <2>2. c \in 0..255
    BY AtBytes
  <2>3. x \in 0..255
    BY <2>1, AtBytes
  <2>4. y \in 0..255
    BY <2>1, AtBytes
  <2>5. z \in 0..255
    BY <2>1, AtBytes
  <2> QED BY <2>2, <2>3, <2>4, <2>5
<1>2. /\ Reads(t, p, <<c>>) /\ Reads(t, p, <<c, x>>)
      /\ Reads(t, p, <<c, x, y>>) /\ Reads(t, p, <<c, x, y, z>>)
  BY ReadsOne, ReadsTwo, ReadsThree, ReadsFour
<1>3. /\ Len(<<c>>) = 1 /\ Len(<<c, x>>) = 2
      /\ Len(<<c, x, y>>) = 3 /\ Len(<<c, x, y, z>>) = 4
  OBVIOUS
<1>4. CASE c \in 0..127
  <2>1. n = c /\ next = p + 1
    BY <1>4, DecodeOne
  <2> HIDE DEF c, n, next
  <2>2. EncodeUTF8(c) = <<c>>
    BY <1>4, EncodeForms
  <2>3. c \in Characters
    BY <1>4, BasicCharacters
  <2> QED BY <1>2, <1>3, <2>1, <2>2, <2>3
<1>5. CASE c \in 194..223
  <2>1. x \in Continuation /\ n = Code2(c, x) /\ next = p + 2
    BY <1>1, <1>5, AcceptTwo
  <2> HIDE DEF c, x, y, z, n, next
  <2>2. n \in Characters /\ EncodeUTF8(n) = <<c, x>>
    BY <1>5, <2>1, CodeOfTwo
  <2> QED BY <1>2, <1>3, <2>1, <2>2
<1>6. CASE c \in 224..239
  <2>1. /\ x \in SecondBytes(c) /\ x \in Continuation /\ y \in Continuation
        /\ n = Code3(c, x, y) /\ next = p + 3
    BY <1>1, <1>6, AcceptThree
  <2> HIDE DEF c, x, y, z, n, next
  <2>2. n \in Characters /\ EncodeUTF8(n) = <<c, x, y>>
    BY <1>6, <2>1, CodeOfThree
  <2> QED BY <1>2, <1>3, <2>1, <2>2
<1>7. CASE c \in 240..244
  <2>1. /\ x \in SecondBytes(c) /\ x \in Continuation /\ y \in Continuation /\ z \in Continuation
        /\ n = Code4(c, x, y, z) /\ next = p + 4
    BY <1>1, <1>7, AcceptFour
  <2> HIDE DEF c, x, y, z, n, next
  <2>2. n \in Characters /\ EncodeUTF8(n) = <<c, x, y, z>>
    BY <1>7, <2>1, CodeOfFour
  <2> QED BY <1>2, <1>3, <2>1, <2>2
<1>8. CASE c \in (128..193) \union (245..255)
  BY <1>8, DecodeNone
<1>9. \/ c \in 0..127 \/ c \in 194..223 \/ c \in 224..239
      \/ c \in 240..244 \/ c \in (128..193) \union (245..255)
  BY <1>1
<1> HIDE DEF Written, c
<1> QED BY <1>4, <1>5, <1>6, <1>7, <1>8, <1>9

-------------------------------------------------------------------------------
\* The same for UTF-16 and its surrogate pairs.
CodePair(c, d) == (c % 1024) * 1024 + (d % 1024) + 65536

LEMMA SurrogateHalves ==
    ASSUME NEW c
    PROVE  /\ c \in Surrogates <=> c \in HighSurrogates \/ c \in LowSurrogates
           /\ ~(c \in HighSurrogates /\ c \in LowSurrogates)
           /\ c \in HighSurrogates <=> c \in 55296..56319
           /\ c \in LowSurrogates <=> c \in 56320..57343
<1>1. c \in Surrogates <=> c \in HighSurrogates \/ c \in LowSurrogates
  BY Zenon DEF Surrogates
<1>2. c \in HighSurrogates <=> c \in 55296..56319
  BY DEF HighSurrogates
<1>3. c \in LowSurrogates <=> c \in 56320..57343
  BY DEF LowSurrogates
<1>4. ~(c \in HighSurrogates /\ c \in LowSurrogates)
  <2>1. c \in HighSurrogates => c \in Int /\ c <= 56319
    BY <1>2
  <2>2. c \in LowSurrogates => 56320 <= c
    BY <1>3
  <2> QED BY <2>1, <2>2
<1> QED BY <1>1, <1>2, <1>3, <1>4

LEMMA SurrogateBounds ==
    ASSUME NEW c \in Nat
    PROVE  c \notin Surrogates <=> c <= 55295 \/ 57344 <= c
<1>1. c \in Surrogates <=> 55296 <= c /\ c <= 57343
  BY DEF Surrogates, HighSurrogates, LowSurrogates
<1> QED BY <1>1

LEMMA DecodeUnit ==
    ASSUME NEW t, NEW p \in Int, At(t, p) \notin Surrogates
    PROVE  DecodeUTF16(t, p) = [ok |-> TRUE, cp |-> At(t, p), next |-> p + 1]
  BY DEF DecodeUTF16, Surrogates

LEMMA DecodePair ==
    ASSUME NEW t, NEW p \in Int, At(t, p) \in HighSurrogates
    PROVE  DecodeUTF16(t, p) = [ok |-> At(t, p + 1) \in LowSurrogates,
                                cp |-> CodePair(At(t, p), At(t, p + 1)), next |-> p + 2]
  BY DEF DecodeUTF16, Surrogates, CodePair

LEMMA DecodeLow ==
    ASSUME NEW t, NEW p \in Int, At(t, p) \in LowSurrogates
    PROVE  DecodeUTF16(t, p).ok = FALSE
<1>1. At(t, p) \in Surrogates /\ At(t, p) \notin HighSurrogates
  BY SurrogateHalves
<1> QED BY <1>1 DEF DecodeUTF16

LEMMA PairOf ==
    ASSUME NEW n \in Nat, 65536 <= n, n <= MaxCodepoint,
           NEW c, c = 55296 + ((n - 65536) \div 1024), NEW d, d = 56320 + ((n - 65536) % 1024)
    PROVE  /\ c \in HighSurrogates /\ d \in LowSurrogates
           /\ CodePair(c, d) = n
<1> DEFINE v == n - 65536  k == v \div 1024  m == v % 1024
<1>1. v \in Nat /\ v <= 1048575 /\ n = v + 65536
  BY DEF MaxCodepoint
<1>2. c = 55296 + k /\ d = 56320 + m
  OBVIOUS
<1> HIDE DEF v
<1>3. k \in 0..1023 /\ m \in 0..1023 /\ v = 1024 * k + m
  BY <1>1
<1> HIDE DEF k, m
<1>4. c % 1024 = k
  BY <1>2, <1>3
<1>5. d % 1024 = m
  BY <1>2, <1>3
<1>6. c \in 55296..56319 /\ d \in 56320..57343
  BY <1>2, <1>3
<1>7. CodePair(c, d) = n
  BY <1>1, <1>3, <1>4, <1>5 DEF CodePair
<1> QED BY <1>6, <1>7, SurrogateHalves

LEMMA CodeOfPair ==
    ASSUME NEW c \in HighSurrogates, NEW d \in LowSurrogates, NEW n, CodePair(c, d) = n
    PROVE  n \in Characters /\ EncodeUTF16(n) = <<c, d>>
<1>1. c \in 55296..56319 /\ d \in 56320..57343
  BY SurrogateHalves
<1>2. c % 1024 = c - 55296 /\ d % 1024 = d - 56320
  BY <1>1
<1> DEFINE v == 1024 * (c - 55296) + (d - 56320)
<1>3. n = v + 65536
  BY <1>1, <1>2 DEF CodePair
<1>4. v \in Nat /\ v <= 1048575 /\ v \div 1024 = c - 55296 /\ v % 1024 = d - 56320
  BY <1>1
<1> HIDE DEF v
<1>5. n \in Nat /\ 65536 <= n /\ n <= MaxCodepoint /\ n - 65536 = v /\ ~(n <= 65535)
  BY <1>3, <1>4 DEF MaxCodepoint
<1>6. n \in Characters
  BY <1>5, CharacterBounds
<1>7. EncodeUTF16(n) = <<55296 + (v \div 1024), 56320 + (v % 1024)>>
  BY <1>5 DEF EncodeUTF16
<1>8. 55296 + (v \div 1024) = c /\ 56320 + (v % 1024) = d
  BY <1>1, <1>4
<1> QED BY <1>6, <1>7, <1>8

LEMMA EncodeUnit ==
    ASSUME NEW n \in Nat, n <= 65535
    PROVE  EncodeUTF16(n) = <<n>>
  BY DEF EncodeUTF16

LEMMA UTF16Encoded ==
    ASSUME NEW n \in Nat, n <= MaxCodepoint, n <= 55295 \/ 57344 <= n,
           NEW t, NEW p \in Int, Reads(t, p, EncodeUTF16(n))
    PROVE  DecodeUTF16(t, p) = [ok |-> TRUE, cp |-> n, next |-> p + Len(EncodeUTF16(n))]
<1>1. CASE n <= 65535
  <2>1. EncodeUTF16(n) = <<n>> /\ Len(<<n>>) = 1
    BY <1>1, EncodeUnit
  <2>2. At(t, p) = n
    BY <2>1, ReadsOne
  <2>3. n \notin Surrogates
    BY SurrogateBounds
  <2> QED BY <2>1, <2>2, <2>3, DecodeUnit
<1>2. CASE ~(n <= 65535)
  <2> DEFINE c == 55296 + ((n - 65536) \div 1024)  d == 56320 + ((n - 65536) % 1024)
  <2>1. EncodeUTF16(n) = <<c, d>>
    BY <1>2 DEF EncodeUTF16
  <2>2. 65536 <= n
    BY <1>2
  <2>3. c \in HighSurrogates /\ d \in LowSurrogates /\ CodePair(c, d) = n
    BY <2>2, PairOf
  <2> HIDE DEF c, d
  <2>4. Len(<<c, d>>) = 2 /\ At(t, p) = c /\ At(t, p + 1) = d
    BY <2>1, ReadsTwo
  <2>5. DecodeUTF16(t, p) = [ok |-> At(t, p + 1) \in LowSurrogates,
                             cp |-> CodePair(At(t, p), At(t, p + 1)), next |-> p + 2]
    BY <2>3, <2>4, DecodePair
  <2> DEFINE fits == At(t, p + 1) \in LowSurrogates  v == CodePair(At(t, p), At(t, p + 1))
             q == p + 2
  <2>6. fits = TRUE /\ v = n /\ DecodeUTF16(t, p) = [ok |-> fits, cp |-> v, next |-> q]
    BY <2>3, <2>4, <2>5
  <2> HIDE DEF fits, v
  <2>7. DecodeUTF16(t, p) = [ok |-> TRUE, cp |-> n, next |-> q]
    BY <2>6
  <2> QED BY <2>1, <2>4, <2>7
<1> QED BY <1>1, <1>2

LEMMA UTF16Decoded ==
    ASSUME NEW t \in Seq(Words), NEW p \in Int, DecodeUTF16(t, p).ok
    PROVE  /\ DecodeUTF16(t, p).cp \in Characters
           /\ Reads(t, p, EncodeUTF16(DecodeUTF16(t, p).cp))
           /\ DecodeUTF16(t, p).next = p + Len(EncodeUTF16(DecodeUTF16(t, p).cp))
<1> DEFINE c == At(t, p)  d == At(t, p + 1)
           n == DecodeUTF16(t, p).cp
           next == DecodeUTF16(t, p).next
           Written == /\ n \in Characters /\ Reads(t, p, EncodeUTF16(n))
                      /\ next = p + Len(EncodeUTF16(n))
<1> SUFFICES Written
  OBVIOUS
<1>1. c \in Nat /\ c <= 65535
  <2>1. 0 \in Words
    BY DEF Words
  <2>2. c \in Words
    BY <2>1, AtUnits
  <2> QED BY <2>2 DEF Words
<1>2. Reads(t, p, <<c>>) /\ Reads(t, p, <<c, d>>)
  BY ReadsOne, ReadsTwo
<1>3. Len(<<c>>) = 1 /\ Len(<<c, d>>) = 2
  OBVIOUS
<1>4. CASE c \notin Surrogates
  <2>1. n = c /\ next = p + 1
    BY <1>4, DecodeUnit
  <2> HIDE DEF c, d, n, next
  <2>2. EncodeUTF16(c) = <<c>>
    BY <1>1, EncodeUnit
  <2>3. c \in Nat /\ c <= 65535 /\ (c <= 55295 \/ 57344 <= c)
    BY <1>1, <1>4, SurrogateBounds
  <2>4. c \in Characters
    BY <2>3, BasicCharacters
  <2> QED BY <1>2, <1>3, <2>1, <2>2, <2>4
<1>5. CASE c \in HighSurrogates
  <2>1. DecodeUTF16(t, p) = [ok |-> At(t, p + 1) \in LowSurrogates,
                             cp |-> CodePair(At(t, p), At(t, p + 1)), next |-> p + 2]
    BY <1>5, DecodePair
  <2> DEFINE r == DecodeUTF16(t, p)  v == CodePair(c, d)  q == p + 2  fits == d \in LowSurrogates
  <2>2. fits \in BOOLEAN /\ r.ok /\ r = [ok |-> fits, cp |-> v, next |-> q]
    BY <2>1
  <2> HIDE DEF r, v, q, fits
  <2>3. fits /\ r.cp = v /\ r.next = q
    BY <2>2
  <2>4. d \in LowSurrogates /\ n = CodePair(c, d) /\ next = p + 2
    BY <2>3 DEF r, v, q, fits
  <2> HIDE DEF c, d, n, next
  <2>5. n \in Characters /\ EncodeUTF16(n) = <<c, d>>
    BY <1>5, <2>4, CodeOfPair
  <2> QED BY <1>2, <1>3, <2>4, <2>5
<1>6. CASE c \in LowSurrogates
  BY <1>6, DecodeLow
<1>7. c \notin Surrogates \/ c \in HighSurrogates \/ c \in LowSurrogates
  BY SurrogateHalves
<1> HIDE DEF Written, c, d, n, next
<1> QED BY <1>4, <1>5, <1>6, <1>7

-------------------------------------------------------------------------------
\* The encodings together.  UTF32::Decode asks only for the bound 0x10FFFF, so
\* the strict encodings are the other ones.
StrictEncodings == {"UTF8", "UTF16LE", "UTF16BE"}

LEMMA EncodingForms ==
    ASSUME NEW enc \in Encodings
    PROVE  \/ /\ Units(enc) = Bytes
              /\ \A cp : Encode(enc, cp) = EncodeUTF8(cp)
              /\ \A t, p : Decode(enc, t, p) = DecodeUTF8(t, p)
           \/ /\ Units(enc) = Words
              /\ \A cp : Encode(enc, cp) = EncodeUTF16(cp)
              /\ \A t, p : Decode(enc, t, p) = DecodeUTF16(t, p)
           \/ /\ enc \notin StrictEncodings
              /\ \A cp : Encode(enc, cp) = <<cp>>
              /\ \A t, p : Decode(enc, t, p) = DecodeUTF32(t, p)
<1>1. CASE enc = "UTF8"
  BY <1>1 DEF Family, Units, Encode, Decode
<1>2. CASE enc \in {"UTF16LE", "UTF16BE"}
  <2>1. Family(enc) = "UTF16"
    BY <1>2 DEF Family
  <2> QED BY <2>1 DEF Units, Encode, Decode
<1>3. CASE enc \in {"UTF32LE", "UTF32BE"}
  <2>1. Family(enc) = "UTF32"
    BY <1>3 DEF Family
  <2> QED BY <1>3, <2>1 DEF Encode, Decode, StrictEncodings
<1> QED BY <1>1, <1>2, <1>3 DEF Encodings

\* Whatever encoding a character is written in, it is read back, and the stream
\* stands behind it (UTF8, UTF16 and UTF32::Encode and Decode, encodings.h).
THEOREM DecodesWhatIsEncoded ==
    ASSUME NEW enc \in Encodings, NEW cp \in Characters, NEW t, NEW p \in Int,
           Reads(t, p, Encode(enc, cp))
    PROVE  Decode(enc, t, p) =
               [ok |-> TRUE, cp |-> cp, next |-> p + Len(Encode(enc, cp))]
<1>1. cp \in Nat /\ cp <= MaxCodepoint /\ (cp <= 55295 \/ 57344 <= cp)
  BY CharacterBounds
<1>2. CASE Encode(enc, cp) = EncodeUTF8(cp) /\ Decode(enc, t, p) = DecodeUTF8(t, p)
  BY <1>1, <1>2, UTF8Encoded
<1>3. CASE Encode(enc, cp) = EncodeUTF16(cp) /\ Decode(enc, t, p) = DecodeUTF16(t, p)
  BY <1>1, <1>3, UTF16Encoded
<1>4. CASE Encode(enc, cp) = <<cp>> /\ Decode(enc, t, p) = DecodeUTF32(t, p)
  <2>1. At(t, p) = cp /\ Len(<<cp>>) = 1
    BY <1>4, ReadsOne
  <2>2. DecodeUTF32(t, p) = [ok |-> cp <= MaxCodepoint, cp |-> cp, next |-> p + 1]
    BY <2>1 DEF DecodeUTF32
  <2>3. (cp <= MaxCodepoint) = TRUE
    BY <1>1
  <2>4. DecodeUTF32(t, p) = [ok |-> TRUE, cp |-> cp, next |-> p + 1]
    BY <2>2, <2>3
  <2> QED BY <1>4, <2>1, <2>4
<1> QED BY <1>2, <1>3, <1>4, EncodingForms

\* The UTF-8 and UTF-16 decoders accept nothing but what the encoder writes for a
\* character: no overlong form, no lone or encoded surrogate, nothing beyond
\* 0x10FFFF (UTF8::Decode, encodings.h:145; UTF16::Decode, encodings.h:306).
THEOREM AcceptsOnlyCharacters ==
    ASSUME NEW enc \in StrictEncodings, NEW t \in Seq(Units(enc)), NEW p \in Int,
           Decode(enc, t, p).ok
    PROVE  /\ Decode(enc, t, p).cp \in Characters
           /\ Reads(t, p, Encode(enc, Decode(enc, t, p).cp))
           /\ Decode(enc, t, p).next = p + Len(Encode(enc, Decode(enc, t, p).cp))
<1>1. enc \in Encodings
  BY DEF StrictEncodings, Encodings
<1>2. CASE /\ Units(enc) = Bytes
           /\ \A cp : Encode(enc, cp) = EncodeUTF8(cp)
           /\ Decode(enc, t, p) = DecodeUTF8(t, p)
  BY <1>2, UTF8Decoded
<1>3. CASE /\ Units(enc) = Words
           /\ \A cp : Encode(enc, cp) = EncodeUTF16(cp)
           /\ Decode(enc, t, p) = DecodeUTF16(t, p)
  BY <1>3, UTF16Decoded
<1> QED BY <1>1, <1>2, <1>3, EncodingForms

-------------------------------------------------------------------------------
\* The units of a character: at least one, at most four, and only the first zero.
LEMMA EncodedUnits ==
    ASSUME NEW enc \in Encodings, NEW cp \in Characters
    PROVE  /\ Encode(enc, cp) \in Seq(Nat)
           /\ Len(Encode(enc, cp)) \in 1..4
           /\ \A k \in 2..Len(Encode(enc, cp)) : Encode(enc, cp)[k] # 0
<1> DEFINE Proper(e) == /\ e \in Seq(Nat) /\ Len(e) \in 1..4
                        /\ \A k \in 2..Len(e) : e[k] # 0
<1>1. cp \in Nat /\ cp <= MaxCodepoint /\ (cp <= 55295 \/ 57344 <= cp)
  BY CharacterBounds
<1>2. \A a \in Nat : Proper(<<a>>)
  OBVIOUS
<1>3. \A a \in Nat, b \in Nat \ {0} : Proper(<<a, b>>)
  OBVIOUS
<1>4. \A a \in Nat, b, c \in Nat \ {0} : Proper(<<a, b, c>>)
  OBVIOUS
<1>5. \A a \in Nat, b, c, d \in Nat \ {0} : Proper(<<a, b, c, d>>)
  OBVIOUS
<1>6. \A n \in Nat : Continued(n) \in Nat \ {0}
  BY DEF Continued
<1>7. /\ cp \div 64 \in Nat /\ cp \div 4096 \in Nat /\ cp \div 262144 \in Nat
      /\ 192 + (cp \div 64) \in Nat /\ 224 + (cp \div 4096) \in Nat
      /\ 240 + (cp \div 262144) \in Nat
  BY <1>1
<1> HIDE DEF Proper
<1>8. Proper(EncodeUTF8(cp))
  <2>1. CASE cp <= 127
    BY <1>1, <1>2, <2>1, EncodeForms
  <2>2. CASE 128 <= cp /\ cp <= 2047
    <3>1. EncodeUTF8(cp) = <<192 + (cp \div 64), Continued(cp)>>
      BY <1>1, <2>2, EncodeForms
    <3> QED BY <1>1, <1>3, <1>6, <1>7, <3>1
  <2>3. CASE 2048 <= cp /\ cp <= 65535
    <3> DEFINE a == 224 + (cp \div 4096)  b == Continued(cp \div 64)  c == Continued(cp)
    <3>1. EncodeUTF8(cp) = <<a, b, c>>
      BY <1>1, <2>3, EncodeForms
    <3>2. a \in Nat /\ b \in Nat \ {0} /\ c \in Nat \ {0}
      BY <1>1, <1>6, <1>7
    <3> HIDE DEF a, b, c
    <3> QED BY <1>4, <3>1, <3>2
  <2>4. CASE 65536 <= cp
    <3> DEFINE a == 240 + (cp \div 262144)  b == Continued(cp \div 4096)
               c == Continued(cp \div 64)  d == Continued(cp)
    <3>1. EncodeUTF8(cp) = <<a, b, c, d>>
      BY <1>1, <2>4, EncodeForms
    <3>2. /\ a \in Nat /\ b \in Nat \ {0}
          /\ c \in Nat \ {0} /\ d \in Nat \ {0}
      BY <1>1, <1>6, <1>7
    <3> HIDE DEF a, b, c, d
    <3> QED BY <1>5, <3>1, <3>2
  <2>5. \/ cp <= 127
        \/ 128 <= cp /\ cp <= 2047
        \/ 2048 <= cp /\ cp <= 65535
        \/ 65536 <= cp
    BY <1>1
  <2> QED BY <2>1, <2>2, <2>3, <2>4, <2>5
<1>9. Proper(EncodeUTF16(cp))
  <2>1. CASE cp <= 65535
    BY <1>1, <1>2, <2>1, EncodeUnit
  <2>2. CASE ~(cp <= 65535)
    <3> DEFINE a == 55296 + ((cp - 65536) \div 1024)  b == 56320 + ((cp - 65536) % 1024)
    <3>1. EncodeUTF16(cp) = <<a, b>>
      BY <2>2 DEF EncodeUTF16
    <3>2. cp - 65536 \in Nat
      BY <1>1, <2>2
    <3>3. a \in Nat /\ b \in Nat \ {0}
      BY <3>2
    <3> HIDE DEF a, b
    <3> QED BY <1>3, <3>1, <3>3
  <2> QED BY <2>1, <2>2
<1>10. Proper(Encode(enc, cp))
  BY <1>1, <1>2, <1>8, <1>9, EncodingForms
<1> QED BY <1>10 DEF Proper
-------------------------------------------------------------------------------
\* The positions of a text of n units, from the last one down to the first.
LEMMA Backwards ==
    ASSUME NEW n \in Nat, NEW S,
           \A q \in n + 1..n + 4 : q \in S,
           \A q \in 1..n : (\A r \in q + 1..n + 4 : r \in S) => q \in S
    PROVE  \A q \in 1..n + 4 : q \in S
<1> DEFINE R == {ss \in Nat \X Nat : ss[1] < ss[2]}
           Bad == {k \in Nat : k <= n + 3 /\ n + 4 - k \notin S}
<1>1. IsWellFoundedOn(R, Nat)
  BY NatLessThanWellFounded DEF OpToRel
<1>2. ASSUME Bad # {} PROVE FALSE
  <2> HIDE DEF R
  <2>1. PICK k \in Bad : \A j \in Bad : ~(<<j, k>> \in R)
    <3>1. Bad \in SUBSET Nat
      OBVIOUS
    <3> HIDE DEF Bad
    <3> QED BY <1>1, <1>2, <3>1, WFMin
  <2>2. \A j \in Bad : ~(j < k)
    BY <2>1 DEF R
  <2> DEFINE q == n + 4 - k
  <2>3. q \in 1..n + 4 /\ q \notin S
    OBVIOUS
  <2>4. ASSUME NEW r \in q + 1..n + 4 PROVE r \in S
    <3>1. n + 4 - r \in Nat /\ n + 4 - r < k /\ n + 4 - r <= n + 3 /\ n + 4 - (n + 4 - r) = r
      OBVIOUS
    <3> QED BY <2>2, <3>1
  <2>5. q \in 1..n \/ q \in n + 1..n + 4
    BY <2>3
  <2> QED BY <2>3, <2>4, <2>5
<1>3. ASSUME NEW q \in 1..n + 4 PROVE q \in S
  <2>1. n + 4 - q \in Nat /\ n + 4 - q <= n + 3 /\ n + 4 - (n + 4 - q) = q
    OBVIOUS
  <2> QED BY <1>2, <2>1
<1> QED BY <1>3

\* Decode takes at least one unit, and never more than four.
LEMMA NextAhead ==
    ASSUME NEW enc \in Encodings, NEW t, NEW p \in Int
    PROVE  Decode(enc, t, p).next \in p + 1..p + 4
<1>1. \A type : Len(Trail(type)) \in 0..3
  BY DEF Trail
<1>2. ASSUME NEW type PROVE Behind(t, p, type).next \in p + 1..p + 4
  <2>1. Behind(t, p, type).next = p + 1 + Len(Trail(type))
    BY Zenon DEF Behind
  <2> DEFINE k == Len(Trail(type))
  <2>2. k \in 0..3
    BY <1>1
  <2> HIDE DEF k
  <2>3. p + 1 + k \in p + 1..p + 4
    BY <2>2
  <2> QED BY <2>1, <2>3 DEF k
<1>3. DecodeUTF8(t, p).next \in p + 1..p + 4
  BY <1>2 DEF DecodeUTF8
<1>4. DecodeUTF16(t, p).next \in {p + 1, p + 2}
  BY DEF DecodeUTF16
<1>5. DecodeUTF32(t, p).next = p + 1
  BY DEF DecodeUTF32
<1> QED BY <1>3, <1>4, <1>5, EncodingForms

-------------------------------------------------------------------------------
\* A step of TranscodeAll.
Step(s, tg, t, p) == Transcode(s, tg, TRUE, t, p)

\* Transcode stands where Decode does, and refuses what Decode refuses.
LEMMA TranscodeForms ==
    ASSUME NEW s, NEW tg, NEW t, NEW p
    PROVE  /\ Step(s, tg, t, p).ok = Decode(s, t, p).ok
           /\ Step(s, tg, t, p).next = Decode(s, t, p).next
  BY DEF Step, Transcode, Encoded, Validate, Copied

\* A character that is read in one encoding is written in the other.
LEMMA TranscodeStep ==
    ASSUME NEW s \in Encodings, NEW tg \in Encodings, NEW cp \in Characters,
           NEW t, NEW p \in Int, Reads(t, p, Encode(s, cp))
    PROVE  Step(s, tg, t, p) =
               [ok |-> TRUE, next |-> p + Len(Encode(s, cp)), units |-> Encode(tg, cp)]
<1> DEFINE e == Encode(s, cp)  f == Encode(tg, cp)  q == p + Len(e)  d == Decode(s, t, p)
<1>1. d = [ok |-> TRUE, cp |-> cp, next |-> q]
  BY DecodesWhatIsEncoded
<1>2. CASE s # tg
  <2>1. Step(s, tg, t, p) = Encoded(tg, d)
    BY <1>2 DEF Step, Transcode
  <2> HIDE DEF d, q, e, f
  <2>2. Encoded(tg, d) = [ok |-> TRUE, next |-> q, units |-> f]
    BY <1>1 DEF Encoded, f
  <2> QED BY <2>1, <2>2 DEF q, e, f
<1>3. CASE s = tg
  <2>1. Step(s, tg, t, p) = Copied(t, p, d)
    BY <1>3 DEF Step, Transcode, Validate
  <2>2. e \in Seq(Nat) /\ Len(e) \in Nat
    BY EncodedUnits
  <2>3. \A k \in 1..Len(e) : At(t, p + k - 1) = e[k]
    BY <2>2 DEF Reads
  <2> HIDE DEF e
  <2>4. [k \in 1..q - p |-> At(t, p + k - 1)] = e
    BY <2>2, <2>3
  <2> HIDE DEF d, q
  <2>5. Copied(t, p, d) = [ok |-> TRUE, next |-> q, units |-> e]
    BY <1>1, <2>4 DEF Copied
  <2> QED BY <1>3, <2>1, <2>5 DEF e, q
<1> QED BY <1>2, <1>3

\* The units of a character that starts inside a text lie inside it.
LEMMA Inside ==
    ASSUME NEW enc \in Encodings, NEW cp \in Characters, NEW t \in Seq(Nat),
           NEW p \in 1..Len(t), Reads(t, p, Encode(enc, cp))
    PROVE  /\ p + Len(Encode(enc, cp)) <= Len(t) + 1
           /\ Encode(enc, cp) = SubSeq(t, p, p + Len(Encode(enc, cp)) - 1)
<1> DEFINE e == Encode(enc, cp)
<1>1. /\ e \in Seq(Nat) /\ Len(e) \in 1..4
      /\ \A k \in 2..Len(e) : e[k] # 0
  BY EncodedUnits
<1>2. \A k \in 1..Len(e) : At(t, p + k - 1) = e[k]
  BY <1>1 DEF Reads
<1> HIDE DEF e
<1>3. ASSUME p + Len(e) > Len(t) + 1 PROVE FALSE
  <2>1. Len(e) \in 2..Len(e) /\ p + Len(e) - 1 \notin DOMAIN t
    BY <1>1, <1>3
  <2>2. At(t, p + Len(e) - 1) = 0
    BY <2>1 DEF At
  <2> QED BY <1>1, <1>2, <2>1, <2>2
<1>4. p + Len(e) <= Len(t) + 1
  BY <1>1, <1>3
<1>5. \A k \in 1..Len(e) : t[p + k - 1] = e[k]
  <2>1. \A k \in 1..Len(e) : p + k - 1 \in DOMAIN t
    BY <1>1, <1>4
  <2> QED BY <1>2, <2>1 DEF At
<1>6. e = SubSeq(t, p, p + Len(e) - 1)
  BY <1>1, <1>4, <1>5
<1> QED BY <1>4, <1>6 DEF e

\* What a decoder of a strict encoding accepts lies inside the text.
LEMMA AcceptedUnits ==
    ASSUME NEW s \in StrictEncodings, NEW t \in Seq(Units(s)), NEW p \in 1..Len(t),
           Decode(s, t, p).ok
    PROVE  \E cp \in Characters :
               /\ Reads(t, p, Encode(s, cp))
               /\ p + Len(Encode(s, cp)) <= Len(t) + 1
               /\ Encode(s, cp) = SubSeq(t, p, p + Len(Encode(s, cp)) - 1)
<1>1. s \in Encodings /\ Units(s) \subseteq Nat
  <2>1. s \in Encodings
    BY DEF StrictEncodings, Encodings
  <2>2. Bytes \subseteq Nat /\ Words \subseteq Nat
    BY DEF Bytes, Words
  <2> QED BY <2>1, <2>2 DEF Units
<1>2. t \in Seq(Nat) /\ p \in Int
  BY <1>1
<1> QED BY <1>1, <1>2, AcceptsOnlyCharacters, Inside

-------------------------------------------------------------------------------
\* TranscodeAll is what its definition says: a function of that form exists.
Done == [ok |-> TRUE, units |-> <<>>]

LEMMA Recursion ==
    ASSUME NEW n \in Nat, NEW U, \A q \in 1..n : U[q].next \in q + 1..n + 4
    PROVE  \E all : all = [q \in 1..n + 4 |->
                              IF q > n THEN Done ELSE Followed(U[q], all[U[q].next])]
<1> DEFINE Here(f, q) == f[q] = IF q > n THEN Done ELSE Followed(U[q], f[U[q].next])
           S == {m \in 1..n + 4 :
                     \E f : f = [q \in 1..n + 4 |-> f[q]] /\ \A q \in m..n + 4 : Here(f, q)}
<1>1. ASSUME NEW m \in n + 1..n + 4 PROVE m \in S
  <2> DEFINE f == [q \in 1..n + 4 |-> Done]
  <2>1. f = [q \in 1..n + 4 |-> f[q]] /\ \A q \in m..n + 4 : Here(f, q)
    OBVIOUS
  <2> QED BY <2>1
<1>2. ASSUME NEW m \in 1..n, \A r \in m + 1..n + 4 : r \in S PROVE m \in S
  <2>1. m + 1 \in S
    BY <1>2
  <2>2. PICK f : f = [q \in 1..n + 4 |-> f[q]] /\ \A q \in m + 1..n + 4 : Here(f, q)
    BY <2>1
  <2> DEFINE g == [q \in 1..n + 4 |-> IF q = m THEN Followed(U[m], f[U[m].next]) ELSE f[q]]
  <2>3. \A q \in m + 1..n + 4 : g[q] = f[q]
    OBVIOUS
  <2>4. \A q \in m..n : U[q].next \in m + 1..n + 4
    OBVIOUS
  <2>5. g[m] = Followed(U[m], f[U[m].next])
    OBVIOUS
  <2>6. g = [q \in 1..n + 4 |-> g[q]]
    OBVIOUS
  <2> HIDE DEF g
  <2>7. Here(g, m)
    BY <2>3, <2>4, <2>5
  <2>8. ASSUME NEW q \in m + 1..n + 4 PROVE Here(g, q)
    <3>1. Here(f, q) /\ g[q] = f[q]
      BY <2>2, <2>3
    <3>2. ASSUME ~(q > n) PROVE g[U[q].next] = f[U[q].next]
      BY <2>3, <2>4, <3>2
    <3> QED BY <3>1, <3>2
  <2>9. \A q \in m..n + 4 : Here(g, q)
    BY <2>7, <2>8
  <2>10. \E h : h = [q \in 1..n + 4 |-> h[q]] /\ \A q \in m..n + 4 : Here(h, q)
    BY <2>6, <2>9
  <2> HIDE DEF Here
  <2> QED BY <2>10
<1>3. 1 \in S
  <2> HIDE DEF S
  <2>1. \A q \in 1..n + 4 : q \in S
    BY <1>1, <1>2, Backwards
  <2> QED BY <2>1
<1>4. PICK f : f = [q \in 1..n + 4 |-> f[q]] /\ \A q \in 1..n + 4 : Here(f, q)
  BY <1>3
<1> QED BY <1>4

LEMMA Unfolded ==
    ASSUME NEW s \in Encodings, NEW tg, NEW t, Len(t) \in Nat, NEW p \in 1..Len(t) + 4
    PROVE  /\ p > Len(t) => TranscodeAll(s, tg, t, p) = Done
           /\ p <= Len(t) =>
                  TranscodeAll(s, tg, t, p) =
                      Followed(Step(s, tg, t, p),
                               TranscodeAll(s, tg, t, Step(s, tg, t, p).next))
<1> DEFINE n == Len(t)
           T(q) == Step(s, tg, t, q)
           U == [q \in 1..n + 4 |-> T(q)]
           Is(f) == f = [q \in 1..n + 4 |->
                            IF q > n THEN Done ELSE Followed(U[q], f[U[q].next])]
           all == CHOOSE f : Is(f)
<1>1. \A q \in 1..n : U[q].next \in q + 1..n + 4
  <2>1. ASSUME NEW q \in 1..n PROVE U[q].next \in q + 1..n + 4
    <3> DEFINE u == T(q)  next == Decode(s, t, q).next
    <3> HIDE DEF T
    <3>1. U[q] = u
      OBVIOUS
    <3> HIDE DEF U
    <3> USE DEF T
    <3>2. u.next = next
      BY DEF Step, Transcode, Encoded, Validate, Copied
    <3>3. next \in q + 1..q + 4
      BY NextAhead
    <3> HIDE DEF u, next
    <3>4. q + 4 <= n + 4
      OBVIOUS
    <3> QED BY <3>1, <3>2, <3>3, <3>4
  <2> QED BY <2>1
<1>2. Is(all)
  <2> HIDE DEF U
  <2>1. \E f : Is(f)
    BY <1>1, Recursion
  <2> QED BY <2>1
<1>3. \A q \in 1..n + 4 : TranscodeAll(s, tg, t, q) = all[q]
  BY DEF TranscodeAll, Done, Step
<1> HIDE DEF all
<1>4. \A q \in 1..n + 4 : all[q] = IF q > n THEN Done ELSE Followed(U[q], all[U[q].next])
  BY <1>2
<1>5. p > n => TranscodeAll(s, tg, t, p) = Done
  BY <1>3, <1>4
<1>6. ASSUME p <= n
      PROVE  TranscodeAll(s, tg, t, p) =
                 Followed(Step(s, tg, t, p),
                          TranscodeAll(s, tg, t, Step(s, tg, t, p).next))
  <2> HIDE DEF T
  <2>1. U[p] = T(p)
    OBVIOUS
  <2> HIDE DEF U
  <2>2. p \in 1..n /\ U[p].next \in 1..n + 4
    BY <1>1, <1>6
  <2>3. all[p] = Followed(U[p], all[U[p].next])
    BY <1>4, <1>6, <2>2
  <2>4. all[p] = TranscodeAll(s, tg, t, p)
    BY <1>3
  <2>5. all[U[p].next] = TranscodeAll(s, tg, t, U[p].next)
    BY <1>3, <2>2
  <2> QED BY <2>1, <2>3, <2>4, <2>5, Zenon DEF T
<1> QED BY <1>5, <1>6
-------------------------------------------------------------------------------
\* What a text gives whose first character gives those units.
Prefixed(units, rest) == [ok |-> rest.ok, units |-> units \o rest.units]

LEMMA PrefixedForms ==
    ASSUME NEW a, NEW r
    PROVE  /\ Prefixed(a, r).ok => r.ok
           /\ r.ok => Prefixed(a, r).ok
           /\ Prefixed(a, r).units = a \o r.units
<1> DEFINE ok == r.ok  units == a \o r.units
<1>1. Prefixed(a, r) = [ok |-> ok, units |-> units]
  BY DEF Prefixed
<1> HIDE DEF ok, units
<1>2. Prefixed(a, r).ok = ok /\ Prefixed(a, r).units = units
  BY <1>1
<1> QED BY <1>2, Zenon DEF ok, units

\* A position where a character is written: it is written in the target, and the
\* rest of the text follows.
LEMMA WrittenCharacter ==
    ASSUME NEW s \in Encodings, NEW tg \in Encodings, NEW cp \in Characters,
           NEW t, Len(t) \in Nat, NEW p \in 1..Len(t), Reads(t, p, Encode(s, cp)),
           NEW q, q = p + Len(Encode(s, cp))
    PROVE  TranscodeAll(s, tg, t, p) = Prefixed(Encode(tg, cp), TranscodeAll(s, tg, t, q))
<1> DEFINE u == Step(s, tg, t, p)
           rest(r) == TranscodeAll(s, tg, t, r)
<1>1. rest(p) = Followed(u, rest(u.next))
  BY Unfolded
<1>2. u = [ok |-> TRUE, next |-> q, units |-> Encode(tg, cp)]
  BY TranscodeStep
<1> HIDE DEF u, rest
<1>3. u.ok = TRUE /\ u.next = q /\ u.units = Encode(tg, cp)
  BY <1>2
<1>4. rest(p) = Prefixed(Encode(tg, cp), rest(q))
  BY <1>1, <1>3 DEF Followed, Prefixed
<1> QED BY <1>4 DEF rest

\* A position where a strict encoding has a character: whatever the target, the
\* character is written in it and the rest of the text follows.
LEMMA FirstCharacter ==
    ASSUME NEW s \in StrictEncodings, NEW t \in Seq(Units(s)), NEW p \in 1..Len(t),
           Decode(s, t, p).ok
    PROVE  \E cp \in Characters, q \in p + 1..Len(t) + 1 :
               /\ Encode(s, cp) = SubSeq(t, p, q - 1)
               /\ \A tg \in Encodings :
                     TranscodeAll(s, tg, t, p) = Prefixed(Encode(tg, cp), TranscodeAll(s, tg, t, q))
<1>1. s \in Encodings /\ Len(t) \in Nat /\ p \in Int
  BY DEF StrictEncodings, Encodings
<1>2. PICK cp \in Characters :
          /\ Reads(t, p, Encode(s, cp))
          /\ p + Len(Encode(s, cp)) <= Len(t) + 1
          /\ Encode(s, cp) = SubSeq(t, p, p + Len(Encode(s, cp)) - 1)
  BY AcceptedUnits
<1> DEFINE e == Encode(s, cp)  q == p + Len(e)
<1>3. Len(e) \in 1..4
  BY <1>1, EncodedUnits
<1> HIDE DEF e
<1>4. q \in p + 1..Len(t) + 1
  BY <1>1, <1>2, <1>3 DEF e
<1>5. e = SubSeq(t, p, q - 1)
  BY <1>2 DEF e
<1>6. q = p + Len(Encode(s, cp)) /\ p \in 1..Len(t)
  BY DEF e
<1> HIDE DEF q
<1>7. ASSUME NEW tg \in Encodings
      PROVE  TranscodeAll(s, tg, t, p) = Prefixed(Encode(tg, cp), TranscodeAll(s, tg, t, q))
  BY <1>1, <1>2, <1>6, WrittenCharacter
<1> QED BY <1>4, <1>5, <1>7 DEF e

\* A position where it has none: refused, whatever the target.
LEMMA NoCharacter ==
    ASSUME NEW s \in Encodings, NEW tg, NEW t, Len(t) \in Nat, NEW p \in 1..Len(t),
           ~Decode(s, t, p).ok
    PROVE  ~TranscodeAll(s, tg, t, p).ok
<1> DEFINE u == Step(s, tg, t, p)
           rest(r) == TranscodeAll(s, tg, t, r)
<1>1. ~u.ok
  BY DEF Step, Transcode, Encoded, Validate, Copied
<1>2. rest(p) = Followed(u, rest(u.next))
  BY Unfolded
<1> HIDE DEF u, rest
<1>3. rest(p).ok = FALSE
  BY <1>1, <1>2 DEF Followed
<1> QED BY <1>3 DEF rest

\* A text of a strict encoding that is copied unit by unit under validation is
\* copied whole (GenericReader's kParseValidateEncodingFlag, Validate of
\* encodings.h).
THEOREM ValidatedIsCopied ==
    ASSUME NEW s \in StrictEncodings, NEW t \in Seq(Units(s)), TranscodeAll(s, s, t, 1).ok
    PROVE  TranscodeAll(s, s, t, 1).units = t
<1> DEFINE n == Len(t)
           rest(q) == TranscodeAll(s, s, t, q)
           S == {q \in 1..n + 4 : rest(q).ok => rest(q).units = SubSeq(t, q, n)}
<1>1. s \in Encodings /\ n \in Nat
  BY DEF StrictEncodings, Encodings
<1>2. ASSUME NEW q \in n + 1..n + 4 PROVE q \in S
  <2>1. rest(q) = Done
    BY <1>1, Unfolded
  <2>2. SubSeq(t, q, n) = <<>> /\ Done.units = <<>>
    BY <1>1 DEF Done
  <2>3. q \in 1..n + 4
    BY <1>1
  <2> HIDE DEF rest
  <2> QED BY <2>1, <2>2, <2>3
<1>3. ASSUME NEW q \in 1..n, \A r \in q + 1..n + 4 : r \in S PROVE q \in S
  <2>1. ASSUME rest(q).ok PROVE rest(q).units = SubSeq(t, q, n)
    <3>1. Decode(s, t, q).ok
      BY <1>1, <2>1, NoCharacter
    <3>2. PICK cp \in Characters, r \in q + 1..n + 1 :
              /\ Encode(s, cp) = SubSeq(t, q, r - 1)
              /\ \A tg \in Encodings :
                    TranscodeAll(s, tg, t, q) = Prefixed(Encode(tg, cp), TranscodeAll(s, tg, t, r))
      BY <3>1, FirstCharacter
    <3>3. rest(q) = Prefixed(SubSeq(t, q, r - 1), rest(r))
      BY <1>1, <3>2
    <3> HIDE DEF rest
    <3>4. rest(r).ok /\ rest(q).units = SubSeq(t, q, r - 1) \o rest(r).units
      BY <2>1, <3>3, PrefixedForms
    <3>5. rest(r).units = SubSeq(t, r, n)
      BY <1>1, <1>3, <3>4
    <3>6. SubSeq(t, q, r - 1) \o SubSeq(t, r, n) = SubSeq(t, q, n)
      BY <1>1
    <3> QED BY <3>4, <3>5, <3>6
  <2> QED BY <2>1
<1>4. 1 \in S
  <2> HIDE DEF S
  <2>1. \A q \in 1..n + 4 : q \in S
    BY <1>1, <1>2, <1>3, Backwards
  <2> QED BY <1>1, <2>1
<1>5. SubSeq(t, 1, n) = t
  BY <1>1
<1> QED BY <1>4, <1>5

\* Whether a text of a strict encoding is refused does not depend on the encoding
\* it is transcoded to, its own included.
THEOREM VerdictOfTheSource ==
    ASSUME NEW s \in StrictEncodings, NEW a \in Encodings, NEW b \in Encodings,
           NEW t \in Seq(Units(s)), TranscodeAll(s, a, t, 1).ok
    PROVE  TranscodeAll(s, b, t, 1).ok
<1> DEFINE n == Len(t)
           S == {q \in 1..n + 4 : TranscodeAll(s, a, t, q).ok => TranscodeAll(s, b, t, q).ok}
<1>1. s \in Encodings /\ n \in Nat
  BY DEF StrictEncodings, Encodings
<1>2. ASSUME NEW q \in n + 1..n + 4 PROVE q \in S
  <2>1. TranscodeAll(s, b, t, q) = Done
    BY <1>1, Unfolded
  <2>2. q \in 1..n + 4 /\ Done.ok
    BY <1>1 DEF Done
  <2> QED BY <2>1, <2>2
<1>3. ASSUME NEW q \in 1..n, \A r \in q + 1..n + 4 : r \in S PROVE q \in S
  <2>1. ASSUME TranscodeAll(s, a, t, q).ok PROVE TranscodeAll(s, b, t, q).ok
    <3>1. Decode(s, t, q).ok
      BY <1>1, <2>1, NoCharacter
    <3>2. PICK cp \in Characters, r \in q + 1..n + 1 :
              /\ Encode(s, cp) = SubSeq(t, q, r - 1)
              /\ \A tg \in Encodings :
                    TranscodeAll(s, tg, t, q) = Prefixed(Encode(tg, cp), TranscodeAll(s, tg, t, r))
      BY <3>1, FirstCharacter
    <3>3. TranscodeAll(s, a, t, r).ok
      BY <2>1, <3>2, PrefixedForms
    <3>4. TranscodeAll(s, b, t, r).ok
      BY <1>1, <1>3, <3>3
    <3> QED BY <3>2, <3>4, PrefixedForms
  <2> QED BY <2>1
<1>4. 1 \in S
  <2> HIDE DEF S
  <2>1. \A q \in 1..n + 4 : q \in S
    BY <1>1, <1>2, <1>3, Backwards
  <2> QED BY <1>1, <2>1
<1> QED BY <1>4

-------------------------------------------------------------------------------
\* The units of one text inside another.
LEMMA Middle ==
    ASSUME NEW pre \in Seq(Nat), NEW e \in Seq(Nat), Len(e) \in 1..4, NEW post \in Seq(Nat)
    PROVE  /\ Reads(pre \o (e \o post), Len(pre) + 1, e)
           /\ pre \o (e \o post) = (pre \o e) \o post
           /\ pre \o e \in Seq(Nat) /\ Len(pre \o e) = Len(pre) + Len(e)
           /\ Len(pre \o (e \o post)) \in Nat
           /\ Len(pre) + 1 \in 1..Len(pre \o (e \o post))
<1> DEFINE w == pre \o (e \o post)
<1>1. /\ w \in Seq(Nat) /\ Len(w) = Len(pre) + Len(e) + Len(post)
      /\ w = (pre \o e) \o post
      /\ pre \o e \in Seq(Nat) /\ Len(pre \o e) = Len(pre) + Len(e)
  OBVIOUS
<1>2. \A k \in 1..Len(e) : w[Len(pre) + k] = e[k] /\ Len(pre) + k \in 1..Len(w)
  OBVIOUS
<1> HIDE DEF w
<1>3. \A k \in 1..Len(e) : At(w, Len(pre) + 1 + k - 1) = e[k]
  <2>1. ASSUME NEW k \in 1..Len(e) PROVE At(w, Len(pre) + 1 + k - 1) = e[k]
    <3>1. Len(pre) + 1 + k - 1 = Len(pre) + k /\ Len(pre) + k \in DOMAIN w
      BY <1>1, <1>2
    <3> QED BY <1>2, <3>1 DEF At
  <2> QED BY <2>1
<1>4. Reads(w, Len(pre) + 1, e)
  <2>1. DOMAIN e = 1..Len(e)
    OBVIOUS
  <2> QED BY <1>3, <2>1, Zenon DEF Reads
<1>5. Len(w) \in Nat /\ Len(pre) + 1 \in 1..Len(w)
  <2>1. \A i \in Nat, j \in 1..4, k \in Nat : i + j + k \in Nat /\ i + 1 \in 1..i + j + k
    OBVIOUS
  <2>2. Len(pre) \in Nat /\ Len(post) \in Nat
    OBVIOUS
  <2> QED BY <1>1, <2>1, <2>2, Zenon
<1> QED BY <1>1, <1>4, <1>5 DEF w

\* Going through another encoding makes no difference: what a text of a strict
\* encoding became in b, transcoded to c, is what it becomes in c directly, and
\* nothing of it is refused on the way (Transcoder, encodings.h:660).
THEOREM ThroughAnother ==
    ASSUME NEW s \in StrictEncodings, NEW b \in Encodings, NEW c \in Encodings,
           NEW t \in Seq(Units(s)), TranscodeAll(s, b, t, 1).ok
    PROVE  /\ TranscodeAll(b, c, TranscodeAll(s, b, t, 1).units, 1).ok
           /\ TranscodeAll(b, c, TranscodeAll(s, b, t, 1).units, 1).units =
                  TranscodeAll(s, c, t, 1).units
<1> DEFINE n == Len(t)
           way(q) == TranscodeAll(s, b, t, q)
           direct(q) == TranscodeAll(s, c, t, q)
           second(w, q) == TranscodeAll(b, c, w, q)
           Agree(q, pre) == /\ second(pre \o way(q).units, Len(pre) + 1).ok
                            /\ second(pre \o way(q).units, Len(pre) + 1).units =
                                   direct(q).units
           S == {q \in 1..n + 4 :
                   way(q).ok => way(q).units \in Seq(Nat) /\ \A pre \in Seq(Nat) : Agree(q, pre)}
<1>1. s \in Encodings /\ n \in Nat
  BY DEF StrictEncodings, Encodings
<1>2. ASSUME NEW q \in n + 1..n + 4 PROVE q \in S
  <2>1. q \in 1..n + 4
    BY <1>1
  <2>2. way(q) = Done /\ direct(q) = Done
    BY <1>1, Unfolded
  <2>3. Done.ok /\ Done.units = <<>>
    BY DEF Done
  <2>4. ASSUME NEW pre \in Seq(Nat) PROVE Agree(q, pre)
    <3>1. pre \o way(q).units = pre
      BY <2>2, <2>3
    <3>2. Len(pre) \in Nat /\ Len(pre) + 1 \in 1..Len(pre) + 4 /\ Len(pre) + 1 > Len(pre)
      OBVIOUS
    <3>3. second(pre, Len(pre) + 1) = Done
      BY <3>2, Unfolded
    <3> HIDE DEF way, direct, second
    <3> QED BY <2>2, <2>3, <3>1, <3>3
  <2>5. way(q).units \in Seq(Nat)
    BY <2>2, <2>3
  <2> HIDE DEF way, Agree
  <2> QED BY <2>1, <2>4, <2>5
<1>3. ASSUME NEW q \in 1..n, \A r \in q + 1..n + 4 : r \in S PROVE q \in S
  <2>1. ASSUME way(q).ok
        PROVE  way(q).units \in Seq(Nat) /\ \A pre \in Seq(Nat) : Agree(q, pre)
    <3>1. Decode(s, t, q).ok
      BY <1>1, <2>1, NoCharacter
    <3>2. PICK cp \in Characters, r \in q + 1..n + 1 :
              /\ Encode(s, cp) = SubSeq(t, q, r - 1)
              /\ \A tg \in Encodings :
                    TranscodeAll(s, tg, t, q) = Prefixed(Encode(tg, cp), TranscodeAll(s, tg, t, r))
      BY <3>1, FirstCharacter
    <3> DEFINE e == Encode(b, cp)
    <3>3. way(r).ok /\ way(q).units = e \o way(r).units
      BY <2>1, <3>2, PrefixedForms
    <3>4. direct(q).units = Encode(c, cp) \o direct(r).units
      BY <3>2, PrefixedForms
    <3>5. /\ way(r).units \in Seq(Nat)
          /\ \A pre \in Seq(Nat) : Agree(r, pre)
      <4>1. r \in S
        BY <1>1, <1>3
      <4> HIDE DEF way, Agree
      <4> QED BY <3>3, <4>1
    <3>6. e \in Seq(Nat) /\ Len(e) \in 1..4
      BY EncodedUnits
    <3>7. ASSUME NEW pre \in Seq(Nat) PROVE Agree(q, pre)
      <4> DEFINE w == pre \o (e \o way(r).units)
                 p == Len(pre) + 1
                 k == Len(pre \o e) + 1
      <4>1. /\ Reads(w, p, e) /\ w = (pre \o e) \o way(r).units
            /\ pre \o e \in Seq(Nat) /\ k = p + Len(e)
            /\ Len(w) \in Nat /\ p \in 1..Len(w)
        <5> HIDE DEF e, way
        <5>1. /\ Reads(w, p, e) /\ w = (pre \o e) \o way(r).units
              /\ pre \o e \in Seq(Nat) /\ Len(pre \o e) = Len(pre) + Len(e)
              /\ Len(w) \in Nat /\ p \in 1..Len(w)
          BY <3>5, <3>6, Middle
        <5>2. Len(pre) \in Nat /\ Len(e) \in 1..4
          BY <3>6
        <5> HIDE DEF w
        <5>3. k = p + Len(e)
          BY <5>1, <5>2
        <5> QED BY <5>1, <5>3
      <4>2. Agree(r, pre \o e)
        BY <3>5, <4>1
      <4> HIDE DEF w, k, p
      <4>3. second(w, p) = Prefixed(Encode(c, cp), second(w, k))
        <5>1. /\ Reads(w, p, Encode(b, cp)) /\ k = p + Len(Encode(b, cp))
              /\ Len(w) \in Nat /\ p \in 1..Len(w)
          BY <4>1
        <5>2. TranscodeAll(b, c, w, p) = Prefixed(Encode(c, cp), TranscodeAll(b, c, w, k))
          BY <5>1, WrittenCharacter
        <5> QED BY <5>2
      <4> HIDE DEF e, way, direct, second
      <4>4. second(w, k).ok /\ second(w, k).units = direct(r).units
        BY <4>1, <4>2 DEF k
      <4>5. second(w, p).ok /\ second(w, p).units = Encode(c, cp) \o second(w, k).units
        <5> DEFINE x == second(w, p)  y == second(w, k)  a == Encode(c, cp)
        <5>1. x = Prefixed(a, y) /\ y.ok
          BY <4>3, <4>4
        <5> HIDE DEF x, y, a
        <5>2. x.ok /\ x.units = a \o y.units
          BY <5>1, PrefixedForms
        <5> QED BY <5>2 DEF x, y, a
      <4>6. second(w, p).ok /\ second(w, p).units = direct(q).units
        BY <3>4, <4>4, <4>5, Zenon
      <4>7. w = pre \o way(q).units
        BY <3>3 DEF w
      <4> QED BY <4>6, <4>7 DEF p
    <3>8. way(q).units \in Seq(Nat)
      <4> HIDE DEF e, way
      <4> QED BY <3>3, <3>5, <3>6
    <3> QED BY <3>7, <3>8
  <2>2. q \in 1..n + 4
    BY <1>1
  <2> HIDE DEF way, Agree
  <2> QED BY <2>1, <2>2
<1>4. 1 \in S
  <2> HIDE DEF S
  <2>1. \A q \in 1..n + 4 : q \in S
    BY <1>1, <1>2, <1>3, Backwards
  <2> QED BY <1>1, <2>1
<1>5. way(1).units \in Seq(Nat) /\ Agree(1, <<>>)
  <2>1. <<>> \in Seq(Nat) /\ way(1).ok
    OBVIOUS
  <2> HIDE DEF way, Agree
  <2> QED BY <1>4, <2>1
<1>6. <<>> \o way(1).units = way(1).units /\ Len(<<>>) + 1 = 1
  <2> HIDE DEF way
  <2> QED BY <1>5
<1> QED BY <1>5, <1>6

\* A text of a strict encoding comes back unchanged from any encoding it was
\* transcoded to, and is accepted there.
THEOREM TextsComeBack ==
    ASSUME NEW s \in StrictEncodings, NEW b \in Encodings,
           NEW t \in Seq(Units(s)), TranscodeAll(s, b, t, 1).ok
    PROVE  /\ TranscodeAll(b, s, TranscodeAll(s, b, t, 1).units, 1).ok
           /\ TranscodeAll(b, s, TranscodeAll(s, b, t, 1).units, 1).units = t
<1>1. s \in Encodings
  BY DEF StrictEncodings, Encodings
<1>2. TranscodeAll(s, s, t, 1).ok
  BY <1>1, VerdictOfTheSource
<1>3. TranscodeAll(s, s, t, 1).units = t
  BY <1>2, ValidatedIsCopied
<1> QED BY <1>1, <1>3, ThroughAnother
===============================================================================
