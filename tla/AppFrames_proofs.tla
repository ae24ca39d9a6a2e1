-------------------------- MODULE AppFrames_proofs --------------------------
(* What AppFrames says of a stream, for any bytes: the payloads behind a   *)
(* place of it are what its definition says, they stay when more bytes     *)
(* come, and reading the stream frame by frame collects them.              *)
EXTENDS AppFrames, WellFoundedInduction, TLAPS

-----------------------------------------------------------------------------
(* Sequences.                                                              *)

LEMMA FunctionIsSeq ==
  ASSUME NEW S, NEW n \in Nat, NEW t \in [1 .. n -> S]
  PROVE  t \in Seq(S) /\ Len(t) = n
  OBVIOUS

LEMMA FirstIs ==
  ASSUME NEW S, NEW s \in Seq(S), NEW n \in 0 .. Len(s)
  PROVE  First(s, n) \in Seq(S) /\ Len(First(s, n)) = n
<1> DEFINE t == First(s, n)
<1>1. t = [i \in 1 .. n |-> s[i]]
  BY DEF First
<1>2. \A i \in 1 .. n : s[i] \in S
  OBVIOUS
<1> HIDE DEF t
<1>3. t \in Seq(S) /\ Len(t) = n
  BY <1>1, <1>2, FunctionIsSeq, n \in Nat
<1>4. QED BY <1>3 DEF t

LEMMA RestIs ==
  ASSUME NEW S, NEW s \in Seq(S), NEW n \in 0 .. Len(s)
  PROVE  Rest(s, n) \in Seq(S) /\ Len(Rest(s, n)) = Len(s) - n
<1> DEFINE t == Rest(s, n)
           m == Len(s) - n
<1>1. m \in Nat
  OBVIOUS
<1>2. t = [i \in 1 .. m |-> s[i + n]]
  BY DEF Rest
<1>3. \A i \in 1 .. m : s[i + n] \in S
  OBVIOUS
<1> HIDE DEF t, m
<1>4. t \in Seq(S) /\ Len(t) = m
  BY <1>1, <1>2, <1>3, FunctionIsSeq
<1>5. QED BY <1>4 DEF t, m

LEMMA SliceIs ==
  ASSUME NEW S, NEW s \in Seq(S), NEW p \in Nat, NEW n \in Nat, p + n <= Len(s)
  PROVE  SubSeq(s, p + 1, p + n) = [k \in 1 .. n |-> s[p + k]]
<1> DEFINE t == SubSeq(s, p + 1, p + n)
<1>1. Len(t) = n /\ t \in Seq(S)
  OBVIOUS
<1>2. \A k \in 1 .. n : t[k] = s[p + k]
  OBVIOUS
<1>3. t = [k \in 1 .. n |-> t[k]]
  BY <1>1
<1>4. QED BY <1>2, <1>3

LEMMA OneMore ==
  ASSUME NEW S, NEW s \in Seq(S), NEW e \in S
  PROVE  /\ s \o <<e>> \in Seq(S) /\ Len(s \o <<e>>) = Len(s) + 1
         /\ \A k \in 1 .. Len(s) : (s \o <<e>>)[k] = s[k]
         /\ (s \o <<e>>)[Len(s) + 1] = e
  OBVIOUS

LEMMA Continues ==
  ASSUME NEW S, NEW s \in Seq(S), NEW t \in Seq(S), NEW u, u = s \o t
  PROVE  /\ Len(s) <= Len(u) /\ (t = <<>> => Len(s) = Len(u))
         /\ \A k \in 1 .. Len(s) : u[k] = s[k]
  OBVIOUS

LEMMA ConcatAssociative ==
  ASSUME NEW S, NEW s \in Seq(S), NEW t \in Seq(S), NEW u \in Seq(S)
  PROVE  s \o (t \o u) = (s \o t) \o u
  OBVIOUS

LEMMA ConcatIs ==
  ASSUME NEW S, NEW s \in Seq(S), NEW t \in Seq(S)
  PROVE  /\ s \o t \in Seq(S) /\ Len(s \o t) = Len(s) + Len(t)
         /\ \A k \in 1 .. Len(s) : (s \o t)[k] = s[k]
  OBVIOUS

-----------------------------------------------------------------------------
(* Induction on the natural numbers, for a set.                            *)

Smaller == {ss \in Nat \X Nat : ss[1] < ss[2]}

LEMMA SmallerIsWellFounded == IsWellFoundedOn(Smaller, Nat)
  BY NatLessThanWellFounded DEF OpToRel, Smaller

LEMMA SetInduction ==
  ASSUME NEW S, 0 \in S, \A n \in Nat : n \in S => n + 1 \in S
  PROVE  Nat \subseteq S
<1> DEFINE T == Nat \ S
<1> SUFFICES ASSUME T # {} PROVE FALSE
  OBVIOUS
<1>1. \E n \in T : \A m \in T : ~ (<<m, n>> \in Smaller)
  BY T \subseteq Nat, SmallerIsWellFounded, WFMin, Zenon
<1>2. PICK n \in T : \A m \in T : ~ (m < n)
  BY <1>1 DEF Smaller
<1>3. n - 1 \in Nat /\ n - 1 < n /\ (n - 1) + 1 = n
  BY <1>2
<1>4. n - 1 \in S
  BY <1>2, <1>3
<1>5. QED BY <1>2, <1>3, <1>4

-----------------------------------------------------------------------------
(* The payloads behind a place.                                            *)

\* One step of the definition, with f for what is behind.
Behind(s, f, p) ==
  IF ~Whole(s, p) THEN <<>>
  ELSE IF Size(s, p) = 0 THEN f[p + 2]
  ELSE IF BsonSize(PayloadAt(s, p)) # Size(s, p) THEN <<>>
  ELSE <<PayloadAt(s, p)>> \o f[p + 2 + Size(s, p)]

LEMMA PayloadsFromMeans ==
  ASSUME NEW s
  PROVE  PayloadsFrom(s) = CHOOSE f : f = [p \in 0 .. Len(s) |-> Behind(s, f, p)]
  BY Zenon DEF PayloadsFrom, Behind

LEMMA FrameIs ==
  ASSUME NEW s \in Seq(Byte), NEW p \in Nat, Whole(s, p)
  PROVE  /\ Size(s, p) \in Nat
         /\ p + 2 \in 0 .. Len(s) /\ p + 2 + Size(s, p) \in 0 .. Len(s)
         /\ PayloadAt(s, p) \in Seq(Byte) /\ Len(PayloadAt(s, p)) = Size(s, p)
         /\ PayloadAt(s, p) = [k \in 1 .. Size(s, p) |-> s[p + 2 + k]]
<1>1. p + 2 <= Len(s) /\ p + 2 + Size(s, p) <= Len(s)
  BY DEF Whole
<1>2. s[p + 1] \in Nat /\ s[p + 2] \in Nat
  BY <1>1 DEF Byte
<1>3. Size(s, p) \in Nat
  BY <1>2 DEF Size
<1> DEFINE n == Size(s, p)
           t == [k \in 1 .. n |-> s[p + 2 + k]]
<1> HIDE DEF n
<1>4. n \in Nat /\ p + 2 + n <= Len(s)
  BY <1>1, <1>3 DEF n
<1>5. t \in [1 .. n -> Byte]
  BY <1>4
<1>6. t \in Seq(Byte) /\ Len(t) = n
  BY <1>4, <1>5
<1>7. SubSeq(s, p + 3, p + 2 + n) = t
  <2> DEFINE q == p + 2
  <2>1. q \in Nat /\ q + n <= Len(s) /\ p + 3 = q + 1 /\ p + 2 + n = q + n
    BY <1>4
  <2>2. SubSeq(s, q + 1, q + n) = [k \in 1 .. n |-> s[q + k]]
    BY <1>4, <2>1, SliceIs
  <2>3. [k \in 1 .. n |-> s[q + k]] = t
    OBVIOUS
  <2>4. SubSeq(s, p + 3, p + 2 + n) = SubSeq(s, q + 1, q + n)
    BY <2>1, Zenon
  <2>5. QED BY <2>2, <2>3, <2>4, Zenon
<1>8. QED BY <1>1, <1>3, <1>4, <1>6, <1>7 DEF n, PayloadAt

LEMMA BehindIs ==
  ASSUME NEW s \in Seq(Byte), NEW f \in [0 .. Len(s) -> Seq(Seq(Byte))], NEW p \in 0 .. Len(s)
  PROVE  /\ Behind(s, f, p) \in Seq(Seq(Byte))
         /\ \A g : (\A q \in p + 1 .. Len(s) : g[q] = f[q]) => Behind(s, g, p) = Behind(s, f, p)
<1>1. CASE ~Whole(s, p)
  BY <1>1 DEF Behind
<1>2. CASE Whole(s, p)
  <2> DEFINE n == Size(s, p)
             a == PayloadAt(s, p)
  <2>1. /\ n \in Nat /\ p + 2 \in 0 .. Len(s) /\ p + 2 + n \in 0 .. Len(s)
        /\ p + 2 \in p + 1 .. Len(s) /\ p + 2 + n \in p + 1 .. Len(s)
        /\ a \in Seq(Byte)
    BY <1>2, FrameIs
  <2> HIDE DEF n, a
  <2>2. f[p + 2] \in Seq(Seq(Byte)) /\ f[p + 2 + n] \in Seq(Seq(Byte))
    BY <2>1
  <2>3. <<a>> \o f[p + 2 + n] \in Seq(Seq(Byte))
    BY <2>1, <2>2
  <2>4. \A g : Behind(s, g, p) = IF n = 0 THEN g[p + 2]
                                ELSE IF BsonSize(a) # n THEN <<>>
                                ELSE <<a>> \o g[p + 2 + n]
    BY <1>2 DEF Behind, n, a
  <2>5. Behind(s, f, p) \in Seq(Seq(Byte))
    <3>1. Behind(s, f, p) = IF n = 0 THEN f[p + 2]
                            ELSE IF BsonSize(a) # n THEN <<>>
                            ELSE <<a>> \o f[p + 2 + n]
      BY <2>4
    <3>2. <<>> \in Seq(Seq(Byte))
      OBVIOUS
    <3>3. QED BY <2>2, <2>3, <3>1, <3>2, Zenon
  <2>6. ASSUME NEW g, \A q \in p + 1 .. Len(s) : g[q] = f[q]
        PROVE  Behind(s, g, p) = Behind(s, f, p)
    <3>1. g[p + 2] = f[p + 2] /\ g[p + 2 + n] = f[p + 2 + n]
      BY <2>1, <2>6
    <3>2. QED BY <2>4, <3>1
  <2>7. QED BY <2>5, <2>6
<1>3. QED BY <1>1, <1>2

LEMMA PayloadsExist ==
  ASSUME NEW s \in Seq(Byte)
  PROVE  \E f \in [0 .. Len(s) -> Seq(Seq(Byte))] : f = [p \in 0 .. Len(s) |-> Behind(s, f, p)]
<1> DEFINE L == Len(s)
           Fs == [0 .. L -> Seq(Seq(Byte))]
           Right(f, n) == \A p \in 0 .. L : L - p < n => f[p] = Behind(s, f, p)
           S == {n \in Nat : \E f \in Fs : Right(f, n)}
<1>1. L \in Nat
  OBVIOUS
<1>2. 0 \in S
  <2>1. [p \in 0 .. L |-> <<>>] \in Fs
    OBVIOUS
  <2>2. \A p \in 0 .. L : ~ (L - p < 0)
    BY <1>1
  <2>3. QED BY <2>1, <2>2
<1>3. ASSUME NEW n \in Nat, n \in S PROVE n + 1 \in S
  <2>1. PICK f \in Fs : Right(f, n)
    BY <1>3
  <2>2. CASE n > L
    <3>1. \A p \in 0 .. L : L - p < n
      BY <1>1, <2>2
    <3>2. Right(f, n + 1)
      BY <2>1, <3>1
    <3>3. QED BY <3>2
  <2>3. CASE ~ (n > L)
    <3> DEFINE q == L - n
               g == [f EXCEPT ![q] = Behind(s, f, q)]
    <3>1. q \in 0 .. L
      BY <1>1, <2>3
    <3>2. Behind(s, f, q) \in Seq(Seq(Byte))
      BY <3>1, BehindIs
    <3>3. g \in Fs
      BY <3>2
    <3>4. g[q] = Behind(s, f, q) /\ \A p \in 0 .. L : p # q => g[p] = f[p]
      BY <3>1
    <3> HIDE DEF g
    <3>5. ASSUME NEW p \in 0 .. L, L - p < n + 1 PROVE g[p] = Behind(s, g, p)
      <4>1. \A r \in p + 1 .. L : r \in 0 .. L /\ r # q
        BY <1>1, <3>5
      <4>2. \A r \in p + 1 .. L : g[r] = f[r]
        BY <3>4, <4>1
      <4>3. Behind(s, g, p) = Behind(s, f, p)
        BY <4>2, BehindIs
      <4>4. CASE p = q
        BY <3>4, <4>3, <4>4
      <4>5. CASE p # q
        <5>1. L - p < n
          BY <1>1, <3>5, <4>5
        <5>2. QED BY <2>1, <3>4, <4>3, <4>5, <5>1
      <4>6. QED BY <4>4, <4>5
    <3>6. Right(g, n + 1)
      BY <3>5
    <3>7. QED BY <3>3, <3>6
  <2>4. QED BY <2>2, <2>3
<1>4. L + 1 \in S
  <2> HIDE DEF S
  <2>1. Nat \subseteq S
    BY <1>2, <1>3, SetInduction
  <2>2. QED BY <1>1, <2>1
<1>5. PICK f \in Fs : Right(f, L + 1)
  BY <1>4
<1>6. \A p \in 0 .. L : f[p] = Behind(s, f, p)
  BY <1>1, <1>5
<1>7. f = [p \in 0 .. L |-> f[p]]
  OBVIOUS
<1>8. f = [p \in 0 .. L |-> Behind(s, f, p)]
  BY <1>6, <1>7
<1>9. QED BY <1>8

\* The recursive definition has what it says.
LEMMA PayloadsFromIs ==
  ASSUME NEW s \in Seq(Byte)
  PROVE  /\ PayloadsFrom(s) = [p \in 0 .. Len(s) |-> Behind(s, PayloadsFrom(s), p)]
         /\ PayloadsFrom(s) \in [0 .. Len(s) -> Seq(Seq(Byte))]
<1> DEFINE P(f) == f = [p \in 0 .. Len(s) |-> Behind(s, f, p)]
           F == CHOOSE f : P(f)
<1>1. P(F)
  <2>1. \E f : P(f)
    BY PayloadsExist
  <2>2. QED BY <2>1, Zenon
<1>2. F = PayloadsFrom(s)
  BY PayloadsFromMeans
<1>3. PayloadsFrom(s) = [p \in 0 .. Len(s) |-> Behind(s, PayloadsFrom(s), p)]
  BY <1>1, <1>2
<1>4. PICK f \in [0 .. Len(s) -> Seq(Seq(Byte))] : P(f)
  BY PayloadsExist
<1> HIDE DEF F
<1> DEFINE L == Len(s)
           S == {n \in Nat : \A p \in 0 .. L : L - p < n => F[p] = f[p]}
<1>5. L \in Nat
  OBVIOUS
<1>6. 0 \in S
  BY <1>5
<1>7. ASSUME NEW n \in Nat, n \in S PROVE n + 1 \in S
  <2>1. ASSUME NEW p \in 0 .. L, L - p < n + 1 PROVE F[p] = f[p]
    <3>1. \A q \in p + 1 .. L : q \in 0 .. L /\ L - q < n
      BY <1>5, <2>1
    <3>2. \A q \in p + 1 .. L : F[q] = f[q]
      BY <1>7, <3>1
    <3>3. Behind(s, F, p) = Behind(s, f, p)
      BY <3>2, BehindIs
    <3>4. F[p] = Behind(s, F, p) /\ f[p] = Behind(s, f, p)
      BY <1>1, <1>4
    <3>5. QED BY <3>3, <3>4
  <2>2. QED BY <2>1
<1>8. L + 1 \in S
  <2> HIDE DEF S
  <2>1. Nat \subseteq S
    BY <1>6, <1>7, SetInduction
  <2>2. QED BY <1>5, <2>1
<1>9. \A p \in 0 .. L : F[p] = f[p]
  BY <1>5, <1>8
<1>10. F = [p \in 0 .. L |-> F[p]]
  BY <1>1
<1>11. F = f
  BY <1>9, <1>10
<1>12. QED BY <1>2, <1>3, <1>4, <1>11

\* What stands at a place of the stream, and what that makes of the place.
LEMMA BehindNothing ==
  ASSUME NEW s \in Seq(Byte), NEW p \in 0 .. Len(s),
         ~Whole(s, p) \/ (Size(s, p) # 0 /\ BsonSize(PayloadAt(s, p)) # Size(s, p))
  PROVE  PayloadsFrom(s)[p] = <<>>
<1>1. PayloadsFrom(s)[p] = Behind(s, PayloadsFrom(s), p)
  BY PayloadsFromIs, Zenon
<1>2. QED BY <1>1 DEF Behind

LEMMA BehindEmpty ==
  ASSUME NEW s \in Seq(Byte), NEW p \in 0 .. Len(s), Whole(s, p), Size(s, p) = 0
  PROVE  PayloadsFrom(s)[p] = PayloadsFrom(s)[p + 2]
<1>1. PayloadsFrom(s)[p] = Behind(s, PayloadsFrom(s), p)
  BY PayloadsFromIs, Zenon
<1>2. QED BY <1>1 DEF Behind

LEMMA BehindFrame ==
  ASSUME NEW s \in Seq(Byte), NEW p \in 0 .. Len(s), Whole(s, p), Size(s, p) # 0,
         BsonSize(PayloadAt(s, p)) = Size(s, p)
  PROVE  PayloadsFrom(s)[p] = <<PayloadAt(s, p)>> \o PayloadsFrom(s)[p + 2 + Size(s, p)]
<1>1. PayloadsFrom(s)[p] = Behind(s, PayloadsFrom(s), p)
  BY PayloadsFromIs, Zenon
<1>2. QED BY <1>1 DEF Behind

-----------------------------------------------------------------------------
(* More bytes.                                                             *)

\* t is s and what has come since.
Extends(t, s) ==
  /\ t \in Seq(Byte)
  /\ Len(s) <= Len(t)
  /\ \A k \in 1 .. Len(s) : t[k] = s[k]

LEMMA SliceStays ==
  ASSUME NEW s \in Seq(Byte), NEW t, Extends(t, s),
         NEW p \in Nat, NEW n \in Nat, p + n <= Len(s)
  PROVE  SubSeq(t, p + 1, p + n) = SubSeq(s, p + 1, p + n)
<1>1. SubSeq(s, p + 1, p + n) = [k \in 1 .. n |-> s[p + k]]
  BY SliceIs
<1>2. SubSeq(t, p + 1, p + n) = [k \in 1 .. n |-> t[p + k]]
  BY SliceIs DEF Extends
<1>3. \A k \in 1 .. n : p + k \in 1 .. Len(s)
  OBVIOUS
<1>4. \A k \in 1 .. n : t[p + k] = s[p + k]
  BY <1>3 DEF Extends
<1>5. QED BY <1>1, <1>2, <1>4

LEMMA FrameStays ==
  ASSUME NEW s \in Seq(Byte), NEW t, Extends(t, s), NEW p \in Nat, Whole(s, p)
  PROVE  Whole(t, p) /\ Size(t, p) = Size(s, p) /\ PayloadAt(t, p) = PayloadAt(s, p)
<1>1. p + 2 <= Len(s) /\ p + 2 + Size(s, p) <= Len(s) /\ Size(s, p) \in Nat
  BY FrameIs DEF Whole
<1>2. t[p + 1] = s[p + 1] /\ t[p + 2] = s[p + 2] /\ Len(s) <= Len(t) /\ t \in Seq(Byte)
  BY <1>1 DEF Extends
<1>3. Size(t, p) = Size(s, p)
  BY <1>2 DEF Size
<1>4. Whole(t, p)
  BY <1>1, <1>2, <1>3 DEF Whole
<1>5. PayloadAt(t, p) = PayloadAt(s, p)
  <2>1. PayloadAt(s, p) = [k \in 1 .. Size(s, p) |-> s[p + 2 + k]]
    BY FrameIs
  <2>2. PayloadAt(t, p) = [k \in 1 .. Size(s, p) |-> t[p + 2 + k]]
    BY <1>2, <1>3, <1>4, FrameIs
  <2>3. \A k \in 1 .. Size(s, p) : p + 2 + k \in 1 .. Len(s)
    BY <1>1
  <2>4. \A k \in 1 .. Size(s, p) : t[p + 2 + k] = s[p + 2 + k]
    BY <2>3 DEF Extends
  <2>5. QED BY <2>1, <2>2, <2>4
<1>6. QED BY <1>3, <1>4, <1>5

LEMMA TripleStays ==
  ASSUME NEW s \in Seq(Byte), NEW t, Extends(t, s), NEW j \in Nat, 3 * j + 3 <= Len(s)
  PROVE  Triple(t, j) = Triple(s, j)
<1>1. 3 * j \in Nat /\ 3 \in Nat
  OBVIOUS
<1>2. QED BY <1>1, SliceStays DEF Triple

-----------------------------------------------------------------------------
(* The preamble.                                                           *)

\* Where the first j triples are no preamble, the next one decides.
LEMMA GreetingFound ==
  ASSUME NEW s \in Seq(Byte), NEW j \in Nat, 3 * j + 3 <= Len(s),
         \A i \in 0 .. j - 1 : Triple(s, i) \notin {Plain, Secure}, Triple(s, j) = Plain
  PROVE  PayloadsOf(s) = PayloadsFrom(s)[3 * j + 3]
<1>1. j \in 0 .. Len(s) /\ Greets(s, j)
  BY DEF Greets
<1>2. ASSUME NEW i \in 0 .. Len(s), Greets(s, i) PROVE i = j
  <2>1. CASE i < j
    <3>1. i \in 0 .. j - 1
      BY <2>1
    <3>2. QED BY <1>2, <3>1 DEF Greets
  <2>2. CASE j < i
    <3>1. j \in 0 .. i - 1
      BY <2>2
    <3>2. QED BY <1>2, <3>1 DEF Greets
  <2>3. QED BY <2>1, <2>2
<1>3. (CHOOSE i \in 0 .. Len(s) : Greets(s, i)) = j
  BY <1>1, <1>2
<1>4. QED BY <1>1, <1>3 DEF PayloadsOf

LEMMA GreetingRefused ==
  ASSUME NEW s \in Seq(Byte), NEW j \in Nat, 3 * j + 3 <= Len(s),
         \A i \in 0 .. j - 1 : Triple(s, i) \notin {Plain, Secure}, Triple(s, j) = Secure
  PROVE  PayloadsOf(s) = <<>>
<1>1. ASSUME NEW i \in 0 .. Len(s), Greets(s, i) PROVE FALSE
  <2>1. CASE i < j
    <3>1. i \in 0 .. j - 1
      BY <2>1
    <3>2. QED BY <1>1, <3>1 DEF Greets
  <2>2. CASE j < i
    <3>1. j \in 0 .. i - 1
      BY <2>2
    <3>2. QED BY <1>1, <3>1 DEF Greets
  <2>3. CASE i = j
    BY <1>1, <2>3 DEF Greets, Plain, Secure
  <2>4. QED BY <2>1, <2>2, <2>3
<1>2. QED BY <1>1 DEF PayloadsOf

-----------------------------------------------------------------------------
(* Reading a stream from its beginning.                                    *)

Texts(frames) == [k \in 1 .. Len(frames) |-> frames[k].payload]

\* Only whole triples have been read, and none of them is a preamble.
Searched(s, p) ==
  \E j \in Nat : /\ p = 3 * j
               /\ \A i \in 0 .. j - 1 : Triple(s, i) \notin {Plain, Secure}

\* p bytes of s have been read, and frames found in them: whatever comes behind s,
\* its payloads are these and what stands behind the p bytes.
Reading(s, p, phase, who, frames) ==
  LET texts == Texts(frames) IN
  /\ phase = "greeting" => frames = <<>> /\ who = Nobody /\ Searched(s, p)
  /\ phase = "frames" =>
       /\ \A t : Extends(t, s) => PayloadsOf(t) = texts \o PayloadsFrom(t)[p]
       /\ IsLogin(texts, Len(frames), who)
  /\ phase = "refused" => \A t : Extends(t, s) => PayloadsOf(t) = texts
  /\ \A k \in 1 .. Len(frames) : IsUnder(texts, k, frames[k].wsid)

LEMMA TextsIs ==
  ASSUME NEW frames \in Seq(Frame)
  PROVE  /\ Texts(frames) \in Seq(Seq(Byte)) /\ Len(Texts(frames)) = Len(frames)
         /\ \A k \in 1 .. Len(frames) : Texts(frames)[k] = frames[k].payload
<1> DEFINE t == Texts(frames)
<1>1. t \in [1 .. Len(frames) -> Seq(Byte)]
  <2>1. \A k \in 1 .. Len(frames) : frames[k] \in Frame
    OBVIOUS
  <2>2. \A k \in 1 .. Len(frames) : frames[k].payload \in Seq(Byte)
    BY <2>1 DEF Frame
  <2>3. QED BY <2>2 DEF Texts
<1>2. Len(frames) \in Nat
  OBVIOUS
<1>3. \A k \in 1 .. Len(frames) : t[k] = frames[k].payload
  BY DEF Texts
<1> HIDE DEF t
<1>4. t \in Seq(Seq(Byte)) /\ Len(t) = Len(frames)
  BY <1>1, <1>2, FunctionIsSeq
<1>5. QED BY <1>3, <1>4 DEF t

Took(frames, w, payload) == Append(frames, [wsid |-> w, payload |-> payload])

LEMMA TextsGrow ==
  ASSUME NEW frames \in Seq(Frame), NEW w \in Byte, NEW payload \in Seq(Byte)
  PROVE  LET more == Took(frames, w, payload) IN
         /\ more \in Seq(Frame) /\ Len(more) = Len(frames) + 1
         /\ \A k \in 1 .. Len(frames) : more[k] = frames[k]
         /\ more[Len(frames) + 1].wsid = w
         /\ Texts(more) = Texts(frames) \o <<payload>>
<1> DEFINE more == Took(frames, w, payload)
           n == Len(frames)
<1>1. /\ more \in Seq(Frame) /\ Len(more) = n + 1 /\ n \in Nat
      /\ \A k \in 1 .. n : more[k] = frames[k]
      /\ more[n + 1] = [wsid |-> w, payload |-> payload]
  <2>1. [wsid |-> w, payload |-> payload] \in Frame
    BY DEF Frame
  <2>2. QED BY <2>1 DEF Took
<1>2. Texts(more) = Texts(frames) \o <<payload>>
  <2> DEFINE a == Texts(more)
             b == Texts(frames)
             c == b \o <<payload>>
  <2>1. /\ a \in Seq(Seq(Byte)) /\ Len(a) = n + 1
        /\ \A k \in 1 .. n + 1 : a[k] = more[k].payload
    BY <1>1, TextsIs
  <2>2. /\ b \in Seq(Seq(Byte)) /\ Len(b) = n
        /\ \A k \in 1 .. n : b[k] = frames[k].payload
    BY TextsIs
  <2> HIDE DEF a, b, more
  <2>3. /\ c \in Seq(Seq(Byte)) /\ Len(c) = n + 1
        /\ \A k \in 1 .. n : c[k] = b[k]
        /\ c[n + 1] = payload
    <3>1. payload \in Seq(Byte) /\ Len(b) = n
      BY <2>2
    <3>2. /\ b \o <<payload>> \in Seq(Seq(Byte)) /\ Len(b \o <<payload>>) = Len(b) + 1
          /\ \A k \in 1 .. Len(b) : (b \o <<payload>>)[k] = b[k]
          /\ (b \o <<payload>>)[Len(b) + 1] = payload
      BY <2>2, <3>1, OneMore, SMTT(30)
    <3>3. QED BY <3>1, <3>2, Zenon
  <2> HIDE DEF c
  <2>4. \A k \in 1 .. n + 1 : a[k] = c[k]
    <3>1. \A k \in 1 .. n : a[k] = c[k]
      <4>1. n \in Nat /\ \A k \in 1 .. n : k \in 1 .. n + 1
        BY <1>1
      <4>2. \A k \in 1 .. n : a[k] = frames[k].payload
        BY <1>1, <2>1, <4>1
      <4>3. QED BY <2>2, <2>3, <4>2
    <3>2. a[n + 1] = c[n + 1]
      <4>1. n + 1 \in 1 .. n + 1
        BY <1>1
      <4>2. a[n + 1] = more[n + 1].payload
        BY <2>1, <4>1
      <4>3. QED BY <1>1, <2>3, <4>2
    <3>3. QED BY <1>1, <3>1, <3>2
  <2>5. a = [k \in 1 .. n + 1 |-> a[k]] /\ c = [k \in 1 .. n + 1 |-> c[k]]
    BY <1>1, <2>1, <2>3
  <2>6. a = c
    BY <2>4, <2>5
  <2>7. QED BY <2>6 DEF a, b, c
<1>3. QED BY <1>1, <1>2

\* The login at a payload depends on the payloads up to it only.
LEMMA LoginStays ==
  ASSUME NEW a, NEW b, NEW k \in Nat, \A i \in 1 .. k : b[i] = a[i], NEW w, IsLogin(a, k, w)
  PROVE  IsLogin(b, k, w)
<1>1. CASE w = Nobody /\ \A i \in 1 .. k : Offer(a[i]) = Nobody
  BY <1>1 DEF IsLogin
<1>2. CASE w # Nobody /\ \E j \in 1 .. k : /\ Offer(a[j]) = w
                                          /\ \A i \in 1 .. j - 1 : Offer(a[i]) = Nobody
  <2>1. PICK j \in 1 .. k : Offer(a[j]) = w /\ \A i \in 1 .. j - 1 : Offer(a[i]) = Nobody
    BY <1>2
  <2>2. \A i \in 1 .. j - 1 : i \in 1 .. k
    OBVIOUS
  <2>3. Offer(b[j]) = w /\ \A i \in 1 .. j - 1 : Offer(b[i]) = Nobody
    BY <2>1, <2>2
  <2>4. QED BY <1>2, <2>3 DEF IsLogin
<1>3. QED BY <1>1, <1>2 DEF IsLogin

\* One more payload: the login is still the first one offered.
LEMMA LoginGrows ==
  ASSUME NEW a, NEW n \in Nat, NEW w, IsLogin(a, n, w), NEW v,
         v = IF w = Nobody THEN Offer(a[n + 1]) ELSE w
  PROVE  IsLogin(a, n + 1, v)
<1>1. CASE w = Nobody
  <2>1. \A i \in 1 .. n : Offer(a[i]) = Nobody
    BY <1>1 DEF IsLogin
  <2>2. v = Offer(a[n + 1])
    BY <1>1
  <2>3. CASE v = Nobody
    <3>1. \A i \in 1 .. n + 1 : i \in 1 .. n \/ i = n + 1
      OBVIOUS
    <3>2. QED BY <2>1, <2>2, <2>3, <3>1 DEF IsLogin
  <2>4. CASE v # Nobody
    <3>1. n + 1 \in 1 .. n + 1 /\ (n + 1) - 1 = n
      OBVIOUS
    <3>2. QED BY <2>1, <2>2, <2>4, <3>1 DEF IsLogin
  <2>5. QED BY <2>3, <2>4
<1>2. CASE w # Nobody
  <2>1. PICK j \in 1 .. n : Offer(a[j]) = w /\ \A i \in 1 .. j - 1 : Offer(a[i]) = Nobody
    BY <1>2 DEF IsLogin
  <2>2. j \in 1 .. n + 1 /\ v = w
    BY <1>2
  <2>3. QED BY <1>2, <2>1, <2>2 DEF IsLogin
<1>3. QED BY <1>1, <1>2

LEMMA UnderStays ==
  ASSUME NEW a, NEW b, NEW k \in Nat, \A i \in 1 .. k : b[i] = a[i], NEW w, IsUnder(a, k, w)
  PROVE  IsUnder(b, k, w)
<1>1. CASE IsLogin(a, k, w)
  BY <1>1, LoginStays DEF IsUnder
<1>2. CASE w = NoWsid /\ IsLogin(a, k, Nobody)
  BY <1>2, LoginStays DEF IsUnder
<1>3. QED BY <1>1, <1>2 DEF IsUnder

LEMMA ReadingStarts == Reading(<<>>, 0, "greeting", Nobody, <<>>)
<1>1. Searched(<<>>, 0)
  <2>1. 0 \in Nat /\ 0 = 3 * 0 /\ 0 .. 0 - 1 = {}
    OBVIOUS
  <2>2. QED BY <2>1 DEF Searched
<1>2. Len(<<>>) = 0 /\ 1 .. 0 = {}
  OBVIOUS
<1>3. QED BY <1>1, <1>2 DEF Reading

LEMMA ReadingGrows ==
  ASSUME NEW s \in Seq(Byte), NEW t, Extends(t, s), NEW p \in 0 .. Len(s), NEW phase, NEW who,
         NEW frames \in Seq(Frame), Reading(s, p, phase, who, frames)
  PROVE  Reading(t, p, phase, who, frames)
<1>1. ASSUME NEW u, Extends(u, t) PROVE Extends(u, s)
  <2>1. Len(s) \in Nat /\ Len(t) \in Nat /\ Len(u) \in Nat
    BY <1>1 DEF Extends
  <2>2. Len(s) <= Len(u) /\ \A k \in 1 .. Len(s) : k \in 1 .. Len(t)
    BY <1>1, <2>1 DEF Extends
  <2>3. \A k \in 1 .. Len(s) : u[k] = s[k]
    BY <1>1, <2>2 DEF Extends
  <2>4. QED BY <1>1, <2>2, <2>3 DEF Extends
<1>2. ASSUME Searched(s, p) PROVE Searched(t, p)
  <2>1. PICK j \in Nat : p = 3 * j /\ \A i \in 0 .. j - 1 : Triple(s, i) \notin {Plain, Secure}
    BY <1>2 DEF Searched
  <2>2. \A i \in 0 .. j - 1 : i \in Nat /\ 3 * i + 3 <= Len(s)
    BY <2>1
  <2>3. \A i \in 0 .. j - 1 : Triple(t, i) = Triple(s, i)
    BY <2>2, TripleStays
  <2>4. QED BY <2>1, <2>3 DEF Searched
<1>3. QED BY <1>1, <1>2 DEF Reading

\* Three bytes of the preamble.
LEMMA ReadingGreets ==
  ASSUME NEW s \in Seq(Byte), NEW p \in Nat, p + 3 <= Len(s), NEW who, NEW frames,
         Reading(s, p, "greeting", who, frames),
         NEW a, a = SubSeq(s, p + 1, p + 3), NEW phase,
         phase = CASE a = Plain -> "frames" [] a = Secure -> "refused" [] OTHER -> "greeting"
  PROVE  Reading(s, p + 3, phase, who, frames)
<1>1. frames = <<>> /\ who = Nobody /\ Texts(frames) = <<>> /\ Len(frames) = 0
  BY DEF Reading, Texts
<1>2. PICK j \in Nat : p = 3 * j /\ \A i \in 0 .. j - 1 : Triple(s, i) \notin {Plain, Secure}
  BY DEF Reading, Searched
<1>3. 3 * j + 3 <= Len(s) /\ a = Triple(s, j)
  BY <1>2 DEF Triple
<1>4. ASSUME NEW t, Extends(t, s)
      PROVE  /\ t \in Seq(Byte) /\ 3 * j + 3 <= Len(t)
             /\ Triple(t, j) = a
             /\ \A i \in 0 .. j - 1 : Triple(t, i) \notin {Plain, Secure}
  <2>1. t \in Seq(Byte) /\ 3 * j + 3 <= Len(t)
    BY <1>3, <1>4 DEF Extends
  <2>2. Triple(t, j) = a
    BY <1>3, <1>4, TripleStays
  <2>3. \A i \in 0 .. j - 1 : i \in Nat /\ 3 * i + 3 <= Len(s)
    BY <1>3
  <2>4. \A i \in 0 .. j - 1 : Triple(t, i) = Triple(s, i)
    BY <1>4, <2>3, TripleStays
  <2>5. QED BY <1>2, <2>1, <2>2, <2>4
<1>5. Plain # Secure
  BY DEF Plain, Secure
<1>6. CASE a = Plain
  <2>1. ASSUME NEW t, Extends(t, s) PROVE PayloadsOf(t) = <<>> \o PayloadsFrom(t)[p + 3]
    <3>1. PayloadsOf(t) = PayloadsFrom(t)[3 * j + 3]
      BY <1>4, <1>6, <2>1, GreetingFound
    <3>2. p + 3 \in 0 .. Len(t) /\ t \in Seq(Byte)
      BY <2>1, SMTT(30) DEF Extends
    <3>3. PayloadsFrom(t)[p + 3] \in Seq(Seq(Byte))
      BY <3>2, PayloadsFromIs
    <3>4. QED BY <1>2, <3>1, <3>3
  <2>2. IsLogin(<<>>, 0, who)
    BY <1>1 DEF IsLogin
  <2>3. Reading(s, p + 3, "frames", who, frames)
    BY <1>1, <2>1, <2>2 DEF Reading
  <2>4. phase = "frames"
    BY <1>5, <1>6
  <2>5. QED BY <2>3, <2>4
<1>7. CASE a = Secure
  <2>1. ASSUME NEW t, Extends(t, s) PROVE PayloadsOf(t) = <<>>
    BY <1>4, <1>7, <2>1, GreetingRefused
  <2>2. Reading(s, p + 3, "refused", who, frames)
    BY <1>1, <2>1 DEF Reading
  <2>3. QED BY <1>5, <1>7, <2>2
<1>8. CASE a \notin {Plain, Secure}
  <2>1. Searched(s, p + 3)
    <3>1. 3 * (j + 1) = 3 * j + 3 /\ j + 1 \in Nat
      BY SMTT(30)
    <3>2. \A i \in 0 .. (j + 1) - 1 : i \in 0 .. j - 1 \/ i = j
      OBVIOUS
    <3>3. \A i \in 0 .. (j + 1) - 1 : Triple(s, i) \notin {Plain, Secure}
      BY <1>2, <1>3, <1>8, <3>2
    <3>4. QED BY <1>2, <3>1, <3>3 DEF Searched
  <2>2. Reading(s, p + 3, "greeting", who, frames)
    BY <1>1, <2>1 DEF Reading
  <2>3. QED BY <1>8, <2>2
<1>9. QED BY <1>6, <1>7, <1>8

\* An empty frame.
LEMMA ReadingSkips ==
  ASSUME NEW s \in Seq(Byte), NEW p \in Nat, Whole(s, p), Size(s, p) = 0, NEW who, NEW frames,
         Reading(s, p, "frames", who, frames)
  PROVE  Reading(s, p + 2, "frames", who, frames)
<1>1. ASSUME NEW t, Extends(t, s) PROVE PayloadsFrom(t)[p] = PayloadsFrom(t)[p + 2]
  <2>1. Whole(t, p) /\ Size(t, p) = 0 /\ t \in Seq(Byte)
    BY <1>1, FrameStays DEF Extends
  <2>2. p \in 0 .. Len(t)
    BY <2>1 DEF Whole
  <2>3. QED BY <2>1, <2>2, BehindEmpty
<1>2. QED BY <1>1 DEF Reading

\* A frame: it may carry the login.
LEMMA ReadingTakes ==
  ASSUME NEW s \in Seq(Byte), NEW p \in Nat, Whole(s, p), Size(s, p) # 0,
         BsonSize(PayloadAt(s, p)) = Size(s, p),
         NEW who, NEW w \in Byte \cup {Nobody}, NEW frames \in Seq(Frame),
         IF who = Nobody THEN w \in OfferedWsids(PayloadAt(s, p)) ELSE w = who,
         Reading(s, p, "frames", who, frames)
  PROVE  Reading(s, p + (2 + Size(s, p)), "frames", w,
                 Took(frames, WsidOf(w), PayloadAt(s, p)))
<1> DEFINE more == Took(frames, WsidOf(w), PayloadAt(s, p))
           n == Size(s, p)
           a == PayloadAt(s, p)
           texts == Texts(frames)
           m == Len(frames)
<1>1. n \in Nat /\ a \in Seq(Byte) /\ Len(a) = n /\ p + (2 + n) = p + 2 + n
  BY FrameIs
<1>2. w = IF who = Nobody THEN Offer(a) ELSE who
  <2>1. CASE who = Nobody
    <3>1. w \in OfferedWsids(a) /\ BsonSize(a) = n /\ ~ (n > n)
      BY <1>1, <2>1
    <3>2. w = Offer(a)
      BY <1>1, <3>1 DEF OfferedWsids, Offer
    <3>3. QED BY <2>1, <3>2
  <2>2. CASE who # Nobody
    BY <2>2
  <2>3. QED BY <2>1, <2>2
<1>3. /\ more \in Seq(Frame) /\ Len(more) = m + 1
      /\ \A k \in 1 .. m : more[k] = frames[k]
      /\ more[m + 1].wsid = WsidOf(w)
      /\ Texts(more) = texts \o <<a>>
  <2>1. WsidOf(w) \in Byte
    BY DEF WsidOf, NoWsid, Byte
  <2>2. QED BY <1>1, <2>1, TextsGrow
<1>4. /\ texts \in Seq(Seq(Byte)) /\ Len(texts) = m /\ m \in Nat
  BY TextsIs
<1>5. /\ \A t : Extends(t, s) => PayloadsOf(t) = texts \o PayloadsFrom(t)[p]
      /\ IsLogin(texts, m, who)
      /\ \A k \in 1 .. m : IsUnder(texts, k, frames[k].wsid)
  BY DEF Reading
<1>6. n # 0 /\ BsonSize(a) = n /\ Whole(s, p)
  OBVIOUS
<1>7. ASSUME NEW t, Extends(t, s)
      PROVE  PayloadsOf(t) = Texts(more) \o PayloadsFrom(t)[p + (2 + n)]
  <2>1. Whole(t, p) /\ Size(t, p) = n /\ PayloadAt(t, p) = a /\ t \in Seq(Byte)
    BY <1>7, FrameStays DEF Extends
  <2>2. p \in 0 .. Len(t) /\ p + 2 + n \in 0 .. Len(t)
    BY <2>1, FrameIs DEF Whole
  <2>3. PayloadsFrom(t)[p] = <<a>> \o PayloadsFrom(t)[p + 2 + n]
    BY <1>6, <2>1, <2>2, BehindFrame
  <2>4. PayloadsFrom(t)[p + 2 + n] \in Seq(Seq(Byte))
    BY <2>1, <2>2, PayloadsFromIs
  <2>5. texts \o (<<a>> \o PayloadsFrom(t)[p + 2 + n]) = (texts \o <<a>>) \o PayloadsFrom(t)[p + 2 + n]
    <3> DEFINE b == <<a>>
               c == PayloadsFrom(t)[p + 2 + n]
    <3>1. a \in Seq(Byte)
      BY <1>1
    <3> HIDE DEF a, texts, c
    <3>2. b \in Seq(Seq(Byte))
      BY <3>1
    <3> HIDE DEF b
    <3>3. texts \o (b \o c) = (texts \o b) \o c
      <4> DEFINE T == Seq(Byte)
      <4>1. texts \in Seq(T) /\ b \in Seq(T) /\ c \in Seq(T)
        BY <1>4, <2>4, <3>2 DEF c
      <4> HIDE DEF T
      <4>2. QED BY <4>1, ConcatAssociative, SMTT(60)
    <3>4. QED BY <3>3 DEF b, c
  <2>6. QED BY <1>1, <1>3, <1>5, <1>7, <2>3, <2>5
<1>8. /\ \A k \in 1 .. m : Texts(more)[k] = texts[k]
      /\ Texts(more)[m + 1] = a
  <2>1. /\ \A k \in 1 .. Len(texts) : (texts \o <<a>>)[k] = texts[k]
        /\ (texts \o <<a>>)[Len(texts) + 1] = a
    <3>1. a \in Seq(Byte)
      BY <1>1
    <3> DEFINE T == Seq(Byte)
    <3>2. texts \in Seq(T) /\ a \in T
      BY <1>4, <3>1
    <3> HIDE DEF T, texts, a
    <3>3. QED BY <3>2, OneMore
  <2>2. QED BY <1>3, <1>4, <2>1, Zenon
<1> HIDE DEF n, a, texts, m, more
<1>9. IsLogin(Texts(more), m + 1, w)
  <2>1. IsLogin(Texts(more), m, who)
    BY <1>4, <1>5, <1>8, LoginStays
  <2>2. QED BY <1>2, <1>4, <1>8, <2>1, LoginGrows
<1>10. ASSUME NEW k \in 1 .. Len(more) PROVE IsUnder(Texts(more), k, more[k].wsid)
  <2>1. CASE k \in 1 .. m
    <3>1. k \in Nat /\ \A i \in 1 .. k : i \in 1 .. m
      BY <1>4, <2>1
    <3>2. IsUnder(texts, k, frames[k].wsid) /\ more[k] = frames[k]
      BY <1>3, <1>5, <2>1
    <3>3. QED BY <1>8, <2>1, <3>1, <3>2, UnderStays
  <2>2. CASE k = m + 1
    <3>1. IsUnder(Texts(more), m + 1, WsidOf(w))
      BY <1>9 DEF IsUnder, WsidOf
    <3>2. QED BY <1>3, <2>2, <3>1
  <2>3. QED BY <1>3, <1>4, <2>1, <2>2
<1>11. Reading(s, p + (2 + n), "frames", w, more)
  BY <1>3, <1>7, <1>9, <1>10 DEF Reading
<1>12. QED BY <1>11 DEF n, more

\* A frame that is not the document it says it is: the core gets no more.
LEMMA ReadingRefuses ==
  ASSUME NEW s \in Seq(Byte), NEW p \in Nat, Whole(s, p), Size(s, p) # 0,
         BsonSize(PayloadAt(s, p)) # Size(s, p),
         NEW who, NEW w, NEW frames \in Seq(Frame), NEW q,
         Reading(s, p, "frames", who, frames)
  PROVE  Reading(s, q, "refused", w, frames)
<1>1. ASSUME NEW t, Extends(t, s) PROVE PayloadsOf(t) = Texts(frames)
  <2>1. /\ Whole(t, p) /\ Size(t, p) = Size(s, p) /\ PayloadAt(t, p) = PayloadAt(s, p)
        /\ t \in Seq(Byte)
    BY <1>1, FrameStays DEF Extends
  <2>2. p \in 0 .. Len(t)
    BY <2>1 DEF Whole
  <2>3. PayloadsFrom(t)[p] = <<>>
    BY <2>1, <2>2, BehindNothing
  <2>4. Texts(frames) \o <<>> = Texts(frames)
    BY TextsIs
  <2>5. QED BY <1>1, <2>3, <2>4 DEF Reading
<1>2. QED BY <1>1 DEF Reading

LEMMA CollectedMeans ==
  ASSUME NEW frames \in Seq(Frame), NEW rest \in Seq(Seq(Byte)), NEW payloads,
         payloads = Texts(frames) \o rest,
         \A k \in 1 .. Len(frames) : IsUnder(Texts(frames), k, frames[k].wsid)
  PROVE  LET n == Len(frames) IN
         /\ n <= Len(payloads) /\ (rest = <<>> => n = Len(payloads))
         /\ \A k \in 1 .. n : /\ frames[k].payload = payloads[k]
                              /\ IsUnder(payloads, k, frames[k].wsid)
<1> DEFINE n == Len(frames)
           texts == Texts(frames)
           T == Seq(Byte)
<1>1. /\ texts \in Seq(T) /\ Len(texts) = n /\ n \in Nat /\ rest \in Seq(T)
      /\ \A k \in 1 .. n : texts[k] = frames[k].payload
  BY TextsIs
<1> HIDE DEF T, texts
<1>2. payloads = texts \o rest
  BY DEF texts
<1>3. /\ Len(texts) <= Len(payloads) /\ (rest = <<>> => Len(texts) = Len(payloads))
      /\ \A k \in 1 .. Len(texts) : payloads[k] = texts[k]
  BY <1>1, <1>2, Continues
<1>4. ASSUME NEW k \in 1 .. n
      PROVE  frames[k].payload = payloads[k] /\ IsUnder(payloads, k, frames[k].wsid)
  <2>1. k \in Nat /\ \A i \in 1 .. k : i \in 1 .. n
    BY <1>1
  <2>2. \A i \in 1 .. k : payloads[i] = texts[i]
    BY <1>1, <1>3, <2>1
  <2>3. IsUnder(texts, k, frames[k].wsid)
    BY DEF texts
  <2>4. IsUnder(payloads, k, frames[k].wsid)
    BY <2>1, <2>2, <2>3, UnderStays
  <2>5. QED BY <1>1, <1>3, <2>4
<1>5. QED BY <1>1, <1>3, <1>4

\* What has been read is what the stream means, and all of it once no whole frame
\* is left.
LEMMA ReadingMeans ==
  ASSUME NEW s \in Seq(Byte), NEW p \in 0 .. Len(s), NEW phase \in {"greeting", "frames", "refused"},
         NEW who, NEW frames \in Seq(Frame), Reading(s, p, phase, who, frames)
  PROVE  LET payloads == PayloadsOf(s)
             n == Len(frames)
         IN /\ n <= Len(payloads)
            /\ \A k \in 1 .. n : /\ frames[k].payload = payloads[k]
                                 /\ IsUnder(payloads, k, frames[k].wsid)
            /\ phase = "frames" /\ ~Whole(s, p) => n = Len(payloads)
<1> DEFINE payloads == PayloadsOf(s)
           n == Len(frames)
<1>1. Extends(s, s)
  BY DEF Extends
<1>3. \A k \in 1 .. n : IsUnder(Texts(frames), k, frames[k].wsid)
  BY DEF Reading
<1>4. CASE phase = "greeting"
  <2>1. n = 0
    BY <1>4 DEF Reading
  <2>2. payloads \in Seq(Seq(Byte))
    <3>1. CASE \E j \in 0 .. Len(s) : Greets(s, j)
      <4> DEFINE j == CHOOSE j \in 0 .. Len(s) : Greets(s, j)
      <4>1. j \in 0 .. Len(s) /\ Greets(s, j)
        BY <3>1
      <4> HIDE DEF j
      <4>2. 3 * j + 3 \in 0 .. Len(s)
        BY <4>1 DEF Greets
      <4>3. PayloadsFrom(s)[3 * j + 3] \in Seq(Seq(Byte))
        BY <4>2, PayloadsFromIs
      <4>4. QED BY <3>1, <4>3 DEF PayloadsOf, j
    <3>2. CASE ~ \E j \in 0 .. Len(s) : Greets(s, j)
      BY <3>2 DEF PayloadsOf
    <3>3. QED BY <3>1, <3>2
  <2>3. Len(payloads) \in Nat
    BY <2>2
  <2> HIDE DEF payloads, n
  <2>4. QED BY <1>4, <2>1, <2>3 DEF payloads, n
<1>5. CASE phase = "frames"
  <2>1. payloads = Texts(frames) \o PayloadsFrom(s)[p]
    BY <1>1, <1>5 DEF Reading
  <2>2. PayloadsFrom(s)[p] \in Seq(Seq(Byte))
    BY PayloadsFromIs
  <2>3. ~Whole(s, p) => PayloadsFrom(s)[p] = <<>>
    BY BehindNothing
  <2> HIDE DEF payloads
  <2>4. /\ n <= Len(payloads) /\ (PayloadsFrom(s)[p] = <<>> => n = Len(payloads))
        /\ \A k \in 1 .. n : frames[k].payload = payloads[k] /\ IsUnder(payloads, k, frames[k].wsid)
    BY <1>3, <2>1, <2>2, CollectedMeans, ZenonT(60)
  <2>5. QED BY <2>3, <2>4 DEF payloads
<1>6. CASE phase = "refused"
  <2>1. payloads = Texts(frames) \o <<>>
    <3>1. payloads = Texts(frames)
      BY <1>1, <1>6 DEF Reading
    <3>2. QED BY <3>1, TextsIs
  <2>2. <<>> \in Seq(Seq(Byte))
    OBVIOUS
  <2> HIDE DEF payloads
  <2>3. /\ n <= Len(payloads)
        /\ \A k \in 1 .. n : frames[k].payload = payloads[k] /\ IsUnder(payloads, k, frames[k].wsid)
    BY <1>3, <2>1, <2>2, CollectedMeans, ZenonT(60)
  <2>4. QED BY <1>6, <2>3 DEF payloads
<1>7. QED BY <1>4, <1>5, <1>6
=============================================================================
