---------------------------- MODULE RS485Proofs ----------------------------
(***************************************************************************)
(* Proofs about RS485, for all frames, sizes of buffers and numbers of     *)
(* disturbed bytes: types; that a whole frame is announced; that what is   *)
(* taken from an undisturbed line was sent; that what is announced on any  *)
(* line has a checksum that matches; what overruns the buffer.             *)
(***************************************************************************)
EXTENDS RS485, SequenceTheorems, Induction

-----------------------------------------------------------------------------
(* The checksum: what each byte adds to it, by induction over the bytes.   *)
Sums(cs, s, m) == \A k \in 0 .. m : cs[k] = IF k = 0 THEN 0 ELSE (cs[k - 1] + s[k]) % 256

LEMMA InByte == (\A x \in Byte : x \in Nat) /\ (\A x \in Nat : x % 256 \in Byte)
BY DEF Byte

LEMMA SumsExist ==
  ASSUME NEW s, NEW n \in Nat, Len(s) = n
  PROVE  \E cs : Sums(cs, s, n) /\ Sum(s) = cs[n]
<1> DEFINE Turn(h, k) == IF k = 0 THEN 0 ELSE (h[k - 1] + s[k]) % 256
           cs == CHOOSE h : h = [k \in 0 .. n |-> Turn(h, k)]
           E == {m \in 0 .. n : \E h : Sums(h, s, m)}
<1>1. Sum(s) = cs[n]
  BY DEF Sum
<1>2. 0 \in E
  <2> DEFINE h == [k \in {0} |-> 0]
  <2>1. \A k \in 0 .. 0 : h[k] = 0 /\ k = 0
    OBVIOUS
  <2> HIDE DEF h
  <2>2. Sums(h, s, 0)
    BY <2>1 DEF Sums
  <2> QED
    BY <2>2
<1>3. ASSUME NEW m \in 0 .. n - 1, m \in E PROVE m + 1 \in E
  <2>1. PICK g : Sums(g, s, m)
    BY <1>3
  <2> DEFINE h == [k \in 0 .. m + 1 |-> IF k = m + 1 THEN (g[m] + s[k]) % 256 ELSE g[k]]
  <2>2. \A k \in 0 .. m : h[k] = g[k]
    OBVIOUS
  <2>3. h[m + 1] = (g[m] + s[m + 1]) % 256
    OBVIOUS
  <2> HIDE DEF h
  <2>4. Sums(h, s, m + 1)
    <3> SUFFICES ASSUME NEW k \in 0 .. m + 1
                 PROVE  h[k] = IF k = 0 THEN 0 ELSE (h[k - 1] + s[k]) % 256
      BY DEF Sums
    <3>1. CASE k = m + 1
      <4>1. k # 0 /\ k - 1 = m /\ m \in 0 .. m
        BY <3>1
      <4> QED
        BY <2>2, <2>3, <3>1, <4>1
    <3>2. CASE k # m + 1
      <4>1. k \in 0 .. m /\ (k # 0 => k - 1 \in 0 .. m)
        BY <3>2
      <4> QED
        BY <2>1, <2>2, <4>1 DEF Sums
    <3> QED
      BY <3>1, <3>2
  <2>5. m + 1 \in 0 .. n
    OBVIOUS
  <2> QED
    BY <2>4, <2>5
<1> HIDE DEF E
<1>4. n \in E
  <2>1. 0 .. n \subseteq E
    BY <1>2, <1>3, BoundedInduction
  <2> QED
    BY <2>1
<1>5. PICK g : Sums(g, s, n)
  BY <1>4 DEF E
<1> DEFINE f == [k \in 0 .. n |-> g[k]]
<1>6. \A k \in 0 .. n : f[k] = Turn(f, k)
  <2>1. \A k \in 0 .. n : f[k] = g[k] /\ (k # 0 => f[k - 1] = g[k - 1])
    OBVIOUS
  <2> HIDE DEF f
  <2> QED
    BY <1>5, <2>1 DEF Sums
<1> HIDE DEF Turn
<1>7. f = [k \in 0 .. n |-> Turn(f, k)]
  BY <1>6
<1> HIDE DEF f
<1>8. cs = [k \in 0 .. n |-> Turn(cs, k)]
  BY <1>7
<1> HIDE DEF cs
<1>9. Sums(cs, s, n)
  <2>1. \A k \in 0 .. n : cs[k] = Turn(cs, k)
    BY <1>8
  <2> QED
    BY <2>1 DEF Sums, Turn
<1> QED
  BY <1>1, <1>9

LEMMA SumOfMore ==
  ASSUME NEW s, Len(s) \in Nat, \A k \in 1 .. Len(s) : s[k] \in Nat,
         NEW t, Len(t) = Len(s) + 1, \A k \in 1 .. Len(s) : t[k] = s[k], t[Len(t)] \in Nat
  PROVE  Sum(s) \in Byte /\ Sum(t) = (Sum(s) + t[Len(t)]) % 256 /\ Sum(t) \in Byte
<1> DEFINE n == Len(s)
<1>1. /\ n \in Nat /\ Len(s) = n /\ Len(t) = n + 1 /\ t[n + 1] \in Nat
      /\ \A k \in 1 .. n : s[k] \in Nat /\ t[k] = s[k]
  OBVIOUS
<1> HIDE DEF n
<1>2. PICK c : Sums(c, s, n) /\ Sum(s) = c[n]
  BY <1>1, SumsExist
<1>3. PICK d : Sums(d, t, n + 1) /\ Sum(t) = d[n + 1]
  BY <1>1, SumsExist
<1> DEFINE E == {k \in 0 .. n : c[k] = d[k] /\ c[k] \in Byte}
<1>4. 0 \in E
  BY <1>1, <1>2, <1>3 DEF Sums, Byte
<1>5. ASSUME NEW k \in 0 .. n - 1, k \in E PROVE k + 1 \in E
  <2>1. k + 1 \in 0 .. n /\ k + 1 \in 0 .. n + 1 /\ k + 1 \in 1 .. n /\ k + 1 # 0 /\ (k + 1) - 1 = k
    BY <1>1
  <2>2. c[k + 1] = (c[k] + s[k + 1]) % 256 /\ d[k + 1] = (d[k] + t[k + 1]) % 256
    BY <1>2, <1>3, <2>1 DEF Sums
  <2>3. t[k + 1] = s[k + 1] /\ s[k + 1] \in Nat /\ c[k] = d[k] /\ c[k] \in Byte
    BY <1>1, <1>5, <2>1
  <2>4. c[k] + s[k + 1] \in Nat
    BY <2>3, InByte
  <2>5. c[k + 1] = d[k + 1] /\ c[k + 1] \in Byte
    BY <2>2, <2>3, <2>4, InByte
  <2> QED
    BY <2>1, <2>5
<1> HIDE DEF E
<1>6. n \in E
  <2>1. 0 .. n \subseteq E
    BY <1>1, <1>4, <1>5, BoundedInduction
  <2> QED
    BY <1>1, <2>1
<1>7. c[n] = d[n] /\ c[n] \in Byte
  BY <1>6 DEF E
<1>8. d[n + 1] = (d[n] + t[n + 1]) % 256
  <2>1. n + 1 \in 0 .. n + 1 /\ n + 1 # 0 /\ (n + 1) - 1 = n
    BY <1>1
  <2> QED
    BY <1>3, <2>1 DEF Sums
<1>9. d[n + 1] \in Byte
  <2>1. d[n] + t[n + 1] \in Nat
    BY <1>1, <1>7, InByte
  <2> QED
    BY <1>8, <2>1, InByte
<1> QED
  BY <1>1, <1>2, <1>3, <1>7, <1>8, <1>9

(* Every byte is added, modulo 256: first those of the header.             *)
LEMMA SumOfHeader ==
  ASSUME NEW a \in Byte, NEW b \in Byte, NEW c \in Byte, NEW d \in Byte
  PROVE  Sum(<<a, b, c, d>>) = (a + b + c + d) % 256
<1>1. Sum(<<>>) = 0
  <2>1. PICK cs : Sums(cs, <<>>, 0) /\ Sum(<<>>) = cs[0]
    BY SumsExist
  <2> QED
    BY <2>1 DEF Sums
<1>2. Sum(<<a>>) = (Sum(<<>>) + a) % 256
  <2> DEFINE s == <<>>
             t == <<a>>
  <2>1. /\ Len(s) = 0 /\ Len(t) = 1 /\ t[1] = a
        /\ \A k \in 1 .. 0 : s[k] \in Nat /\ t[k] = s[k]
    BY InByte
  <2>2. a \in Nat
    BY InByte
  <2> HIDE DEF s, t
  <2>3. /\ Len(s) \in Nat /\ Len(t) = Len(s) + 1 /\ t[Len(t)] = a /\ t[Len(t)] \in Nat
        /\ \A k \in 1 .. Len(s) : s[k] \in Nat
        /\ \A k \in 1 .. Len(s) : t[k] = s[k]
    BY <2>1, <2>2
  <2>4. Sum(t) = (Sum(s) + t[Len(t)]) % 256
    BY <2>3, SumOfMore
  <2> QED
    BY <2>3, <2>4 DEF s, t
<1>3. Sum(<<a, b>>) = (Sum(<<a>>) + b) % 256
  <2> DEFINE s == <<a>>
             t == <<a, b>>
  <2>1. /\ Len(s) = 1 /\ Len(t) = 2 /\ t[2] = b
        /\ \A k \in 1 .. 1 : s[k] \in Nat /\ t[k] = s[k]
    BY InByte
  <2>2. b \in Nat
    BY InByte
  <2> HIDE DEF s, t
  <2>3. /\ Len(s) \in Nat /\ Len(t) = Len(s) + 1 /\ t[Len(t)] = b /\ t[Len(t)] \in Nat
        /\ \A k \in 1 .. Len(s) : s[k] \in Nat
        /\ \A k \in 1 .. Len(s) : t[k] = s[k]
    BY <2>1, <2>2
  <2>4. Sum(t) = (Sum(s) + t[Len(t)]) % 256
    BY <2>3, SumOfMore
  <2> QED
    BY <2>3, <2>4 DEF s, t
<1>4. Sum(<<a, b, c>>) = (Sum(<<a, b>>) + c) % 256
  <2> DEFINE s == <<a, b>>
             t == <<a, b, c>>
  <2>1. /\ Len(s) = 2 /\ Len(t) = 3 /\ t[3] = c
        /\ \A k \in 1 .. 2 : s[k] \in Nat /\ t[k] = s[k]
    BY InByte
  <2>2. c \in Nat
    BY InByte
  <2> HIDE DEF s, t
  <2>3. /\ Len(s) \in Nat /\ Len(t) = Len(s) + 1 /\ t[Len(t)] = c /\ t[Len(t)] \in Nat
        /\ \A k \in 1 .. Len(s) : s[k] \in Nat
        /\ \A k \in 1 .. Len(s) : t[k] = s[k]
    BY <2>1, <2>2
  <2>4. Sum(t) = (Sum(s) + t[Len(t)]) % 256
    BY <2>3, SumOfMore
  <2> QED
    BY <2>3, <2>4 DEF s, t
<1>5. Sum(<<a, b, c, d>>) = (Sum(<<a, b, c>>) + d) % 256
  <2> DEFINE s == <<a, b, c>>
             t == <<a, b, c, d>>
  <2>1. /\ Len(s) = 3 /\ Len(t) = 4 /\ t[4] = d
        /\ \A k \in 1 .. 3 : s[k] \in Nat /\ t[k] = s[k]
    BY InByte
  <2>2. d \in Nat
    BY InByte
  <2> HIDE DEF s, t
  <2>3. /\ Len(s) \in Nat /\ Len(t) = Len(s) + 1 /\ t[Len(t)] = d /\ t[Len(t)] \in Nat
        /\ \A k \in 1 .. Len(s) : s[k] \in Nat
        /\ \A k \in 1 .. Len(s) : t[k] = s[k]
    BY <2>1, <2>2
  <2>4. Sum(t) = (Sum(s) + t[Len(t)]) % 256
    BY <2>3, SumOfMore
  <2> QED
    BY <2>3, <2>4 DEF s, t
<1>6. (((((((0 + a) % 256) + b) % 256) + c) % 256) + d) % 256 = (a + b + c + d) % 256
  BY DEF Byte
<1> QED
  BY <1>1, <1>2, <1>3, <1>4, <1>5, <1>6

LEMMA CalcStep ==
  ASSUME NEW f \in Frames
  PROVE  /\ Calc(f, 0) = (f.to + f.from + ICSC_SYS_PACK + Len(f.data)) % 256
         /\ \A i \in 1 .. Len(f.data) : Calc(f, i) = (Calc(f, i - 1) + f.data[i]) % 256
         /\ \A i \in 0 .. Len(f.data) : Calc(f, i) \in Byte
<1> DEFINE n == Len(f.data)
           h == Inner(f)
           s(i) == h \o SubSeq(f.data, 1, i)
<1>1. /\ f.to \in Byte /\ f.from \in Byte /\ f.data \in Seq(Byte) /\ n \in Nat /\ n \in Byte
      /\ ICSC_SYS_PACK \in Byte
  <2>1. f \in FrameType /\ Len(f.data) <= MaxLen /\ MaxLen \in Byte
    BY FramesAssumption, BoundsAssumption
  <2>2. n \in Nat
    BY <2>1, LenProperties DEF FrameType
  <2>3. n \in Byte
    <3>1. n <= MaxLen
      BY <2>1
    <3> HIDE DEF n
    <3> QED
      BY <2>1, <2>2, <3>1 DEF Byte
  <2>4. ICSC_SYS_PACK \in Byte
    BY DEF Byte, ICSC_SYS_PACK
  <2> QED
    BY <2>1, <2>2, <2>3, <2>4 DEF FrameType
<1>2. h \in Seq(Byte) /\ Len(h) = 4
  BY <1>1 DEF Inner
<1>3. ASSUME NEW i \in 0 .. n
      PROVE  /\ s(i) \in Seq(Byte) /\ Len(s(i)) = 4 + i
             /\ \A k \in 1 .. 4 : s(i)[k] = h[k]
             /\ \A k \in 1 .. i : s(i)[4 + k] = f.data[k]
  <2> DEFINE t == SubSeq(f.data, 1, i)
  <2>1. /\ t \in Seq(Byte) /\ Len(t) = i /\ \A k \in 1 .. i : t[k] = f.data[k]
    <3>1. 1 \in 1 .. n + 1 /\ i \in 0 .. n
      BY <1>1
    <3>2. \A k \in 1 .. i : f.data[k] \in Byte
      <4>1. \A k \in 1 .. i : k \in 1 .. n
        BY <1>1
      <4> QED
        BY <1>1, <4>1, ElementOfSeq
    <3>3. /\ t \in Seq(Byte) /\ Len(t) = IF 1 <= i THEN i - 1 + 1 ELSE 0
          /\ \A k \in 1 .. i - 1 + 1 : t[k] = f.data[1 + k - 1]
      BY <1>1, <3>1, <3>2, SubSeqProperties
    <3>4. i - 1 + 1 = i /\ \A k \in 1 .. i : 1 + k - 1 = k
      BY <1>1
    <3> QED
      BY <1>1, <3>3, <3>4
  <2> HIDE DEF t, h
  <2>2. /\ h \o t \in Seq(Byte) /\ Len(h \o t) = 4 + i
        /\ \A k \in 1 .. 4 + i : (h \o t)[k] = IF k <= 4 THEN h[k] ELSE t[k - 4]
    <3>1. /\ h \o t \in Seq(Byte) /\ Len(h \o t) = Len(h) + Len(t)
          /\ \A k \in 1 .. Len(h) + Len(t) :
               (h \o t)[k] = IF k <= Len(h) THEN h[k] ELSE t[k - Len(h)]
      BY <1>2, <2>1, ConcatProperties, Zenon
    <3> QED
      BY <1>2, <2>1, <3>1
  <2>3. \A k \in 1 .. 4 : (h \o t)[k] = h[k]
    BY <2>2
  <2>4. \A k \in 1 .. i : (h \o t)[4 + k] = t[k]
    <3>1. \A k \in 1 .. i : 4 + k \in 1 .. 4 + i /\ ~(4 + k <= 4) /\ (4 + k) - 4 = k
      OBVIOUS
    <3> QED
      BY <2>2, <3>1
  <2> QED
    BY <2>1, <2>2, <2>3, <2>4 DEF t
<1>4. \A i : Calc(f, i) = Sum(s(i))
  BY DEF Calc
<1>5. h = <<f.to, f.from, ICSC_SYS_PACK, n>>
  BY DEF Inner
<1> HIDE DEF s, h, n
<1>6. s(0) = h
  <2>1. 0 \in 0 .. n
    BY <1>1
  <2>2. s(0) \in Seq(Byte) /\ Len(s(0)) = 4 /\ \A k \in 1 .. 4 : s(0)[k] = h[k]
    <3>1. s(0) \in Seq(Byte) /\ Len(s(0)) = 4 + 0 /\ \A k \in 1 .. 4 : s(0)[k] = h[k]
      BY <1>3, <2>1, Zenon
    <3> QED
      BY <3>1
  <2>3. \A k \in 1 .. Len(s(0)) : s(0)[k] = h[k]
    BY <2>2
  <2> QED
    <3> DEFINE u == s(0)
    <3>1. u \in Seq(Byte) /\ h \in Seq(Byte) /\ Len(u) = Len(h) /\ \A k \in 1 .. Len(u) : u[k] = h[k]
      BY <1>2, <2>2, <2>3
    <3> HIDE DEF u
    <3>2. u = h
      BY <3>1, SeqEqual
    <3> QED
      BY <3>2 DEF u
<1>7. Calc(f, 0) = (f.to + f.from + ICSC_SYS_PACK + n) % 256
  <2>1. Calc(f, 0) = Sum(h)
    BY <1>4, <1>6
  <2>2. Sum(<<f.to, f.from, ICSC_SYS_PACK, n>>) = (f.to + f.from + ICSC_SYS_PACK + n) % 256
    <3>1. PICK a \in Byte, b \in Byte, c \in Byte, d \in Byte :
            a = f.to /\ b = f.from /\ c = ICSC_SYS_PACK /\ d = n
      BY <1>1
    <3>2. Sum(<<a, b, c, d>>) = (a + b + c + d) % 256
      BY SumOfHeader
    <3> QED
      BY <3>1, <3>2
  <2> QED
    BY <1>5, <2>1, <2>2, Zenon
<1>8. ASSUME NEW i \in 1 .. n
      PROVE  Calc(f, i) = (Calc(f, i - 1) + f.data[i]) % 256 /\ Calc(f, i) \in Byte
  <2>1. i - 1 \in 0 .. n /\ i \in 0 .. n /\ 4 + i = (4 + (i - 1)) + 1 /\ i \in 1 .. i
        /\ \A k \in 1 .. 4 + (i - 1) : k \in 1 .. 4 \/ (k - 4 \in 1 .. i - 1 /\ k - 4 \in 1 .. i /\ 4 + (k - 4) = k)
    BY <1>1
  <2> DEFINE u == s(i - 1)
             t == s(i)
             m == 4 + (i - 1)
  <2>2. /\ u \in Seq(Byte) /\ Len(u) = m /\ t \in Seq(Byte) /\ Len(t) = m + 1 /\ m \in Nat
        /\ t[m + 1] = f.data[i]
        /\ \A k \in 1 .. 4 : u[k] = t[k]
        /\ \A k \in 1 .. i - 1 : u[4 + k] = t[4 + k]
    <3>1. /\ u \in Seq(Byte) /\ Len(u) = 4 + (i - 1)
          /\ \A k \in 1 .. 4 : u[k] = h[k]
          /\ \A k \in 1 .. i - 1 : u[4 + k] = f.data[k]
      BY <1>3, <2>1
    <3>2. /\ t \in Seq(Byte) /\ Len(t) = 4 + i
          /\ \A k \in 1 .. 4 : t[k] = h[k]
          /\ \A k \in 1 .. i : t[4 + k] = f.data[k]
      BY <1>3, <2>1
    <3> HIDE DEF u, t
    <3>3. t[m + 1] = f.data[i]
      BY <2>1, <3>2
    <3>4. \A k \in 1 .. i - 1 : k \in 1 .. i
      OBVIOUS
    <3>5. \A k \in 1 .. i - 1 : u[4 + k] = t[4 + k]
      <4> SUFFICES ASSUME NEW k \in 1 .. i - 1 PROVE u[4 + k] = t[4 + k]
        OBVIOUS
      <4>1. u[4 + k] = f.data[k] /\ t[4 + k] = f.data[k]
        BY <3>1, <3>2, <3>4
      <4> QED
        BY <4>1
    <3>6. m \in Nat /\ Len(t) = m + 1
      BY <2>1, <3>2
    <3> QED
      BY <3>1, <3>2, <3>3, <3>5, <3>6
  <2> HIDE DEF u, t
  <2>3. \A k \in 1 .. m : t[k] = u[k]
    BY <2>1, <2>2
  <2> HIDE DEF m
  <2>4. /\ \A k \in 1 .. m : u[k] \in Nat
        /\ t[m + 1] \in Nat
    <3>1. m + 1 \in 1 .. Len(t)
      BY <2>2
    <3>2. t[m + 1] \in Byte /\ \A k \in 1 .. m : u[k] \in Byte
      BY <2>2, <3>1, ElementOfSeq
    <3> QED
      BY <3>2, InByte
  <2>5. Sum(t) = (Sum(u) + t[m + 1]) % 256 /\ Sum(t) \in Byte
    <3>1. Len(u) \in Nat /\ Len(t) = Len(u) + 1 /\ t[Len(t)] = t[m + 1]
      BY <2>2
    <3>2. \A k \in 1 .. Len(u) : u[k] \in Nat /\ t[k] = u[k]
      BY <2>2, <2>3, <2>4
    <3>3. t[Len(t)] \in Nat
      BY <2>4, <3>1
    <3>4. Sum(t) = (Sum(u) + t[Len(t)]) % 256 /\ Sum(t) \in Byte
      BY <3>1, <3>2, <3>3, SumOfMore
    <3> QED
      BY <3>1, <3>4
  <2> QED
    BY <1>4, <2>2, <2>5 DEF u, t
<1>9. Calc(f, 0) \in Byte
  <2>1. f.to + f.from + ICSC_SYS_PACK + n \in Nat
    <3>1. f.to \in Nat /\ f.from \in Nat /\ ICSC_SYS_PACK \in Nat /\ n \in Nat
      BY <1>1, InByte
    <3> QED
      BY <3>1
  <2> QED
    BY <1>7, <2>1, InByte
<1>10. \A i \in 0 .. n : i = 0 \/ i \in 1 .. n
  BY <1>1
<1> QED
  BY <1>7, <1>8, <1>9, <1>10 DEF n

-----------------------------------------------------------------------------
(* The bytes of a frame on the line.                                       *)
LEMMA EncodeBytes ==
  ASSUME NEW f, NEW cs, f.data \in Seq(Byte), cs = Sum(Inner(f) \o f.data)
  PROVE  LET n == Len(f.data)
             e == Encode(f)
         IN  /\ n \in Nat /\ Len(e) = n + 9 /\ DOMAIN e = 1 .. n + 9
             /\ e[1] = SOH /\ e[2] = f.to /\ e[3] = f.from /\ e[4] = ICSC_SYS_PACK /\ e[5] = n
             /\ e[6] = STX /\ e[n + 7] = ETX /\ e[n + 8] = cs /\ e[n + 9] = EOT
             /\ \A i \in 1 .. n : e[i + 6] = f.data[i]
             /\ \A S : Byte \cup {f.to, f.from, n, cs} \subseteq S => e \in Seq(S)
<1> DEFINE n == Len(f.data)
           S0 == Byte \cup {f.to, f.from, n, cs}
           a == <<SOH>> \o Inner(f)
           t == <<STX>>
           b == a \o t
           c == b \o f.data
           u == <<ETX, cs, EOT>>
           d == c \o u
<1>1. n \in Nat /\ f.data \in Seq(S0)
  BY LenProperties, SeqMonotonic
<1>2. <<SOH>> \in Seq(S0) /\ Inner(f) \in Seq(S0) /\ t \in Seq(S0) /\ u \in Seq(S0)
  BY DEF Inner, SOH, STX, ETX, EOT, ICSC_SYS_PACK, Byte
<1> HIDE DEF S0
<1>3. /\ a \in Seq(S0) /\ Len(a) = 5
      /\ a[1] = SOH /\ a[2] = f.to /\ a[3] = f.from /\ a[4] = ICSC_SYS_PACK /\ a[5] = n
  BY <1>2 DEF Inner
<1> HIDE DEF a
<1>4. /\ b \in Seq(S0) /\ Len(b) = 6 /\ \A i \in 1 .. 5 : b[i] = a[i]
      /\ b[6] = STX
  <2>1. Len(t) = 1 /\ t[1] = STX
    OBVIOUS
  <2> HIDE DEF t
  <2>2. /\ b \in Seq(S0) /\ Len(b) = 5 + 1
        /\ \A i \in 1 .. 5 + 1 : b[i] = IF i <= 5 THEN a[i] ELSE t[i - 5]
    <3>1. /\ b \in Seq(S0) /\ Len(b) = Len(a) + Len(t)
          /\ \A i \in 1 .. Len(a) + Len(t) : b[i] = IF i <= Len(a) THEN a[i] ELSE t[i - Len(a)]
      <4>1. a \in Seq(S0) /\ t \in Seq(S0)
        BY <1>2, <1>3
      <4> HIDE DEF b
      <4>2. b = a \o t
        BY DEF b
      <4> QED
        BY <4>1, <4>2, ConcatProperties, Zenon
    <3> QED
      BY <1>3, <2>1, <3>1, Zenon
  <2> QED
    BY <2>1, <2>2
<1> HIDE DEF b, t
<1>5. /\ c \in Seq(S0) /\ Len(c) = n + 6
      /\ \A i \in 1 .. n + 6 : c[i] = IF i <= 6 THEN b[i] ELSE f.data[i - 6]
  <2>1. /\ c \in Seq(S0) /\ Len(c) = 6 + n
        /\ \A i \in 1 .. 6 + n : c[i] = IF i <= 6 THEN b[i] ELSE f.data[i - 6]
    <3>1. /\ c \in Seq(S0) /\ Len(c) = Len(b) + Len(f.data)
          /\ \A i \in 1 .. Len(b) + Len(f.data) : c[i] = IF i <= Len(b) THEN b[i] ELSE f.data[i - Len(b)]
      BY <1>1, <1>4, ConcatProperties, Zenon DEF c
    <3> QED
      BY <1>4, <3>1, Zenon DEF n
  <2>2. 6 + n = n + 6
    BY <1>1
  <2> QED
    BY <2>1, <2>2
<1> HIDE DEF c
<1>6. /\ d \in Seq(S0) /\ Len(d) = n + 9
      /\ \A i \in 1 .. n + 9 : d[i] = IF i <= n + 6 THEN c[i] ELSE u[i - (n + 6)]
  <2>1. Len(u) = 3 /\ u \in Seq(S0)
    BY <1>2
  <2> HIDE DEF u
  <2>2. /\ d \in Seq(S0) /\ Len(d) = Len(c) + Len(u)
        /\ \A i \in 1 .. Len(c) + Len(u) : d[i] = IF i <= Len(c) THEN c[i] ELSE u[i - Len(c)]
    BY <1>5, <2>1, ConcatProperties, Zenon DEF d
  <2>3. (n + 6) + 3 = n + 9
    BY <1>1
  <2> QED
    BY <1>5, <2>1, <2>2, <2>3, Zenon
<1> HIDE DEF d, n
<1>7. Encode(f) = d
  <2>1. d = <<SOH>> \o Inner(f) \o <<STX>> \o f.data \o <<ETX, cs, EOT>>
    BY DEF a, b, c, d, t, u
  <2>2. Encode(f) = <<SOH>> \o Inner(f) \o <<STX>> \o f.data \o <<ETX, Sum(Inner(f) \o f.data), EOT>>
    BY DEF Encode
  <2> QED
    BY <2>1, <2>2
<1>8. /\ \A i \in 1 .. 5 : d[i] = a[i]
      /\ d[6] = STX /\ \A i \in 1 .. n : d[i + 6] = f.data[i]
      /\ d[n + 7] = ETX /\ d[n + 8] = cs /\ d[n + 9] = EOT
  <2>1. \A i \in 1 .. n + 6 : d[i] = c[i]
    BY <1>1, <1>6
  <2>2. \A i \in 1 .. 6 : d[i] = b[i]
    BY <1>1, <1>5, <2>1
  <2>3. ASSUME NEW i \in 1 .. n PROVE d[i + 6] = f.data[i]
    BY <1>1, <1>5, <2>1
  <2>4. ASSUME NEW i \in 1 .. 3 PROVE d[n + 6 + i] = u[i]
    <3>1. n + 6 + i \in 1 .. n + 9 /\ ~(n + 6 + i <= n + 6) /\ (n + 6 + i) - (n + 6) = i
      BY <1>1
    <3> QED
      BY <1>6, <3>1
  <2>5. n + 7 = n + 6 + 1 /\ n + 8 = n + 6 + 2 /\ n + 9 = n + 6 + 3
    BY <1>1
  <2>6. d[n + 7] = ETX /\ d[n + 8] = cs /\ d[n + 9] = EOT
    BY <2>4, <2>5
  <2> QED
    BY <1>4, <2>2, <2>3, <2>6
<1>9. ASSUME NEW S, S0 \subseteq S PROVE d \in Seq(S)
  BY <1>6, <1>9, SeqMonotonic
<1>10. DOMAIN d = 1 .. n + 9
  BY <1>6, LenProperties
<1> QED
  BY <1>1, <1>3, <1>6, <1>7, <1>8, <1>9, <1>10 DEF n, S0

LEMMA FrameBytes ==
  ASSUME NEW f \in Frames
  PROVE  LET n == Len(f.data)
             e == Encode(f)
         IN  /\ n \in 0 .. MaxLen /\ Len(e) = n + 9 /\ DOMAIN e = 1 .. n + 9
             /\ e[1] = SOH /\ e[2] = f.to /\ e[3] = f.from /\ e[4] = ICSC_SYS_PACK /\ e[5] = n
             /\ e[6] = STX /\ e[n + 7] = ETX /\ e[n + 8] = Calc(f, n) /\ e[n + 9] = EOT
             /\ \A i \in 1 .. n : e[i + 6] = f.data[i]
             /\ e \in Seq(Byte)
<1>1. /\ f.data \in Seq(Byte) /\ f.to \in Byte /\ f.from \in Byte /\ Len(f.data) <= MaxLen
  BY FramesAssumption DEF FrameType
<1>2. Len(f.data) \in 0 .. MaxLen /\ Len(f.data) \in Byte
  <2>1. Len(f.data) \in Nat
    BY <1>1, LenProperties
  <2> QED
    <3>1. ASSUME NEW k \in Nat, k <= MaxLen PROVE k \in 0 .. MaxLen /\ k \in Byte
      BY <3>1, BoundsAssumption DEF Byte
    <3> QED
      BY <1>1, <2>1, <3>1, Zenon
<1>3. Calc(f, Len(f.data)) = Sum(Inner(f) \o f.data)
  BY <1>1, SubSeqFull DEF Calc
<1>4. Calc(f, Len(f.data)) \in Byte
  BY <1>2, CalcStep
<1>5. Byte \cup {f.to, f.from, Len(f.data), Calc(f, Len(f.data))} \subseteq Byte
  BY <1>1, <1>2, <1>4
<1> QED
  BY <1>1, <1>2, <1>3, <1>5, EncodeBytes

LEMMA FrameLength ==
  ASSUME NEW f \in Frames
  PROVE  /\ Len(f.data) \in Nat /\ Len(Encode(f)) = Len(f.data) + 9
         /\ \A k \in 1 .. Len(Encode(f)) : Encode(f)[k] \in Byte
         /\ Encode(f)[1] = SOH /\ Encode(f)[2] = f.to /\ Encode(f)[3] = f.from
         /\ Encode(f)[4] = ICSC_SYS_PACK /\ Encode(f)[5] = Len(f.data) /\ Encode(f)[6] = STX
         /\ Encode(f)[Len(f.data) + 9] = EOT
<1>1. MaxLen \in Nat
  BY BoundsAssumption DEF Byte
<1>2. Len(f.data) \in Nat /\ Len(Encode(f)) = Len(f.data) + 9 /\ Encode(f) \in Seq(Byte)
  BY <1>1, FrameBytes
<1>3. \A k \in 1 .. Len(Encode(f)) : Encode(f)[k] \in Byte
  BY <1>2, ElementOfSeq
<1> QED
  BY <1>2, <1>3, FrameBytes

-----------------------------------------------------------------------------
(* The receiver's state machine: types, and that its counters stay within  *)
(* the length announced.                                                   *)
Reception == [header : [1 .. 6 -> Byte], phase : 0 .. 4, pos : Byte, len : Byte,
              sender : Byte, command : Byte, cs : Byte, calc : Byte]
Counted(r) == r.phase = 1 => r.pos < r.len

LEMMA Appended ==
  ASSUME NEW S, NEW s \in Seq(S), NEW x \in S
  PROVE  /\ Append(s, x) \in Seq(S) /\ Len(Append(s, x)) = Len(s) + 1
         /\ \A i \in 1 .. Len(s) : Append(s, x)[i] = s[i]
         /\ Append(s, x)[Len(s) + 1] = x
BY AppendProperties

LEMMA Shift ==
  ASSUME NEW h \in [1 .. 6 -> Byte], NEW b \in Byte
  PROVE  LET g == Append(Tail(h), b)
         IN  g \in [1 .. 6 -> Byte] /\ g[6] = b /\ \A i \in 1 .. 5 : g[i] = h[i + 1]
<1>1. h \in Seq(Byte) /\ Len(h) = 6
  <2>1. h \in Seq(Byte)
    BY SeqDef
  <2>2. DOMAIN h = 1 .. 6 /\ DOMAIN h = 1 .. Len(h) /\ Len(h) \in Nat
    BY <2>1, LenProperties
  <2> QED
    BY <2>1, <2>2
<1>2. Tail(h) \in Seq(Byte) /\ Len(Tail(h)) = 5 /\ \A i \in 1 .. 5 : Tail(h)[i] = h[i + 1]
  <2>1. h # <<>>
    BY <1>1, EmptySeq
  <2>2. Tail(h) \in Seq(Byte) /\ Len(Tail(h)) = 5
    BY <1>1, <2>1, HeadTailProperties
  <2>3. \A i \in 1 .. Len(Tail(h)) : Tail(h)[i] = h[i + 1]
    BY <1>1, <2>1, HeadTailProperties, Zenon
  <2> QED
    BY <2>2, <2>3
<1>3. /\ Append(Tail(h), b) \in Seq(Byte) /\ Len(Append(Tail(h), b)) = 6
      /\ \A i \in 1 .. 5 : Append(Tail(h), b)[i] = Tail(h)[i]
      /\ Append(Tail(h), b)[6] = b
  <2> DEFINE t == Tail(h)
  <2> HIDE DEF t
  <2>1. t \in Seq(Byte) /\ Len(t) = 5
    BY <1>2 DEF t
  <2>2. /\ Append(t, b) \in Seq(Byte) /\ Len(Append(t, b)) = Len(t) + 1
        /\ \A i \in 1 .. Len(t) : Append(t, b)[i] = t[i]
        /\ Append(t, b)[Len(t) + 1] = b
    BY <2>1, Appended, Zenon
  <2>3. /\ Append(t, b) \in Seq(Byte) /\ Len(Append(t, b)) = 6
        /\ \A i \in 1 .. 5 : Append(t, b)[i] = t[i]
        /\ Append(t, b)[6] = b
    BY <2>1, <2>2
  <2> QED
    BY <2>3, Zenon DEF t
<1>4. Append(Tail(h), b) \in [1 .. 6 -> Byte]
  BY <1>3, LenProperties, Zenon
<1> QED
  BY <1>2, <1>3, <1>4

LEMMA HeaderShift ==
  ASSUME NEW r \in Reception, NEW b \in Byte
  PROVE  LET h == Append(Tail(r.header), b)
         IN  h \in [1 .. 6 -> Byte] /\ h[6] = b /\ \A i \in 1 .. 5 : h[i] = r.header[i + 1]
<1>1. r.header \in [1 .. 6 -> Byte]
  BY DEF Reception
<1> HIDE DEF Reception
<1> QED
  BY <1>1, Shift, Zenon

LEMMA Modulo == ASSUME NEW x \in Int PROVE x % 256 \in Byte
BY DEF Byte

LEMMA NextPlace ==
  ASSUME NEW x \in Byte, NEW n \in Byte, x < n
  PROVE  /\ x + 1 \in Byte
         /\ LET p == IF x + 1 = n THEN 2 ELSE 1 IN p \in 0 .. 4 /\ (p = 1 => x + 1 < n)
BY DEF Byte

LEMMA FedType ==
  ASSUME NEW r \in Reception, NEW b \in Byte, Counted(r)
  PROVE  Fed(r, b) \in Reception /\ Counted(Fed(r, b))
<1>1. ASSUME NEW s \in Reception PROVE Reset(s) \in Reception /\ Counted(Reset(s))
  BY DEF Reset, Reception, Counted, Byte
<1>2. CASE r.phase = 0
  <2> DEFINE h == Append(Tail(r.header), b)
             s == [r EXCEPT !.header = h]
  <2>1. h \in [1 .. 6 -> Byte]
    BY Shift DEF Reception
  <2>2. Fed(r, b) = IF ~HeaderComplete(h) THEN s
                    ELSE IF ~ForMe(h[2], h[3]) THEN [Reset(s) EXCEPT !.sender = h[3]]
                    ELSE [header |-> h, phase |-> IF h[5] = 0 THEN 2 ELSE 1, pos |-> 0, len |-> h[5],
                          sender |-> h[3], command |-> h[4], cs |-> r.cs,
                          calc |-> (h[2] + h[3] + h[4] + h[5]) % 256]
    <3>1. Fed(r, b) = FindHeader(r, b)
      BY <1>2 DEF Fed
    <3> QED
      BY <3>1, Zenon DEF FindHeader
  <2> HIDE DEF h
  <2>3. /\ s \in Reception /\ s.phase = 0
        /\ \A i \in 1 .. 6 : h[i] \in Byte
    BY <1>2, <2>1 DEF Reception
  <2>4. (h[2] + h[3] + h[4] + h[5]) % 256 \in Byte
    <3>1. h[2] \in Int /\ h[3] \in Int /\ h[4] \in Int /\ h[5] \in Int
      BY <2>3 DEF Byte
    <3> QED
      BY <3>1, Modulo
  <2>5. CASE ~HeaderComplete(h)
    BY <2>3, <2>5, <2>2 DEF Counted
  <2>6. CASE HeaderComplete(h) /\ ~ForMe(h[2], h[3])
    <3>1. Fed(r, b) = [Reset(s) EXCEPT !.sender = h[3]]
      BY <2>6, <2>2
    <3>2. Reset(s) \in Reception /\ Reset(s).phase = 0
      BY <1>1, <2>3 DEF Reset, Reception
    <3> HIDE DEF s
    <3> QED
      BY <2>3, <3>1, <3>2 DEF Reception, Counted
  <2>7. CASE HeaderComplete(h) /\ ForMe(h[2], h[3])
    <3>1. Fed(r, b) = [header |-> h, phase |-> IF h[5] = 0 THEN 2 ELSE 1, pos |-> 0, len |-> h[5],
                       sender |-> h[3], command |-> h[4], cs |-> r.cs,
                       calc |-> (h[2] + h[3] + h[4] + h[5]) % 256]
      BY <2>7, <2>2
    <3> HIDE DEF s
    <3> DEFINE p == IF h[5] = 0 THEN 2 ELSE 1
               x == (h[2] + h[3] + h[4] + h[5]) % 256
    <3>2. /\ 0 \in Byte /\ p \in 0 .. 4 /\ (p = 1 => 0 < h[5])
          /\ h[3] \in Byte /\ h[4] \in Byte /\ h[5] \in Byte
      BY <2>3 DEF Byte
    <3>3. x \in Byte /\ r.cs \in Byte
      BY <2>4 DEF Reception
    <3> HIDE DEF p, x
    <3>4. Fed(r, b) = [header |-> h, phase |-> p, pos |-> 0, len |-> h[5],
                       sender |-> h[3], command |-> h[4], cs |-> r.cs, calc |-> x]
      BY <3>1 DEF p, x
    <3> QED
      BY <2>1, <3>2, <3>3, <3>4 DEF Reception, Counted
  <2> QED
    BY <2>5, <2>6, <2>7
<1>3. CASE r.phase = 1
  <2> DEFINE p == IF r.pos + 1 = r.len THEN 2 ELSE 1
             c == (r.calc + b) % 256
             s1 == [r EXCEPT !.pos = @ + 1]
             s2 == [s1 EXCEPT !.calc = c]
             s3 == [s2 EXCEPT !.phase = p]
  <2>1. Fed(r, b) = s3
    BY <1>3 DEF Fed, StoreData
  <2>2. r.pos \in Byte /\ r.len \in Byte /\ r.calc \in Byte /\ r.pos < r.len
    BY <1>3 DEF Reception, Counted
  <2>3. r.pos + 1 \in Byte /\ c \in Byte /\ p \in 0 .. 4 /\ (p = 1 => r.pos + 1 < r.len)
    <3>1. r.calc + b \in Int
      BY <2>2 DEF Byte
    <3>2. c \in Byte
      BY <3>1, Modulo
    <3> QED
      BY <2>2, <3>2, NextPlace
  <2> HIDE DEF c, p
  <2>4. s1 \in Reception /\ s1.pos = r.pos + 1 /\ s1.len = r.len
    BY <2>3 DEF Reception
  <2> HIDE DEF s1
  <2>5. s2 \in Reception /\ s2.pos = s1.pos /\ s2.len = s1.len
    BY <2>3, <2>4 DEF Reception
  <2> HIDE DEF s2
  <2>6. s3 \in Reception /\ s3.pos = s2.pos /\ s3.len = s2.len /\ s3.phase = p
    BY <2>3, <2>5 DEF Reception
  <2> HIDE DEF s3
  <2> QED
    BY <2>1, <2>3, <2>4, <2>5, <2>6 DEF Counted
<1>4. CASE r.phase = 2
  BY <1>1, <1>4 DEF Fed, ExpectEtx, Reception, Counted
<1>5. CASE r.phase = 3
  <2> DEFINE s1 == [r EXCEPT !.cs = b]
             s2 == [s1 EXCEPT !.phase = 4]
  <2>1. Fed(r, b) = s2
    BY <1>5 DEF Fed, KeepChecksum
  <2>2. s1 \in Reception
    BY DEF Reception
  <2> HIDE DEF s1
  <2>3. s2 \in Reception /\ s2.phase = 4
    BY <2>2 DEF Reception
  <2> QED
    BY <2>1, <2>3 DEF Counted
<1>6. CASE r.phase = 4
  BY <1>1, <1>6 DEF Fed
<1> QED
  BY <1>2, <1>3, <1>4, <1>5, <1>6 DEF Reception

-----------------------------------------------------------------------------
(* What the receiver knows when it has read k bytes of frame f, the first  *)
(* one while it looked for a header.                                       *)
InHeader(r, f, k) ==
  k <= 5 => r.phase = 0 /\ \A i \in 1 .. k : r.header[6 - k + i] = Encode(f)[i]
InFrame(r, d, f, k) ==
  LET n == Len(f.data) IN
  k \in 6 .. n + 8 => /\ r.sender = f.from /\ r.command = ICSC_SYS_PACK /\ r.len = n
                      /\ \A i \in 1 .. n : i <= k - 6 => d[i - 1] = f.data[i]
InData(r, f, k) == k \in 6 .. Len(f.data) + 5 => r.phase = 1 /\ r.pos = k - 6 /\ r.calc = Calc(f, k - 6)
InTrailer(r, f, k) ==
  LET n == Len(f.data) IN
  /\ k \in n + 6 .. n + 8 => r.phase = k - n - 4 /\ r.calc = Calc(f, n)
  /\ k = n + 8 => r.cs = Calc(f, n)
At(r, d, f, k) == InHeader(r, f, k) /\ InFrame(r, d, f, k) /\ InData(r, f, k) /\ InTrailer(r, f, k)

Data == [0 .. MaxLen - 1 -> Byte]
Stored(r, d, b) == IF r.phase = 1 /\ r.pos < MaxLen THEN [d EXCEPT ![r.pos] = b] ELSE d

(* The sixth byte of a frame for the node completes its header; none       *)
(* before it does in a plain frame.                                        *)
LEMMA SixthByte ==
  ASSUME NEW r \in Reception, NEW d \in Data, NEW f \in Frames, ToMe(f), r.phase = 0,
         \A i \in 1 .. 6 : Append(Tail(r.header), STX)[i] = Encode(f)[i]
  PROVE  /\ At(Fed(r, STX), d, f, 6)
         /\ Fed(r, STX).header = Append(Tail(r.header), STX)
<1> DEFINE n == Len(f.data)
           e == Encode(f)
           h == Append(Tail(r.header), STX)
<1>1. /\ n \in Nat /\ e[1] = SOH /\ e[2] = f.to /\ e[3] = f.from /\ e[4] = ICSC_SYS_PACK /\ e[5] = n
      /\ e[6] = STX
  BY FrameLength
<1>2. f.to # f.from /\ f.from # NodeId /\ f.to \in {NodeId, Broadcast}
  BY FramesAssumption DEF FrameType, ToMe
<1>3. \A i \in 1 .. 6 : h[i] = e[i]
  OBVIOUS
<1>4. Fed(r, STX) = FindHeader(r, STX)
  BY DEF Fed
<1> HIDE DEF e, n, h
<1>5. h[1] = SOH /\ h[2] = f.to /\ h[3] = f.from /\ h[4] = ICSC_SYS_PACK /\ h[5] = n /\ h[6] = STX
  BY <1>1, <1>3
<1>6. HeaderComplete(h) /\ ForMe(h[2], h[3])
  BY <1>2, <1>5 DEF HeaderComplete, ForMe
<1> DEFINE t == [header |-> h, phase |-> IF n = 0 THEN 2 ELSE 1, pos |-> 0, len |-> n,
                 sender |-> f.from, command |-> ICSC_SYS_PACK, cs |-> r.cs,
                 calc |-> (f.to + f.from + ICSC_SYS_PACK + n) % 256]
<1>7. Fed(r, STX) = t
  <2>1. Fed(r, STX) = [header |-> h, phase |-> IF h[5] = 0 THEN 2 ELSE 1, pos |-> 0, len |-> h[5],
                       sender |-> h[3], command |-> h[4], cs |-> r.cs,
                       calc |-> (h[2] + h[3] + h[4] + h[5]) % 256]
    BY <1>4, <1>6, Zenon DEF FindHeader, h
  <2> QED
    BY <1>5, <2>1, Zenon
<1>8. (f.to + f.from + ICSC_SYS_PACK + n) % 256 = Calc(f, 0)
  BY CalcStep DEF n
<1>9. /\ t.phase = (IF n = 0 THEN 2 ELSE 1) /\ t.header = h
      /\ t.pos = 0 /\ t.len = n /\ t.sender = f.from /\ t.command = ICSC_SYS_PACK /\ t.calc = Calc(f, 0)
  BY <1>8
<1> HIDE DEF t
<1>10. InHeader(t, f, 6) /\ InFrame(t, d, f, 6)
  BY <1>1, <1>9 DEF InHeader, InFrame, n
<1>11. InData(t, f, 6) /\ InTrailer(t, f, 6)
  <2>1. CASE n = 0
    <3>1. /\ ~(6 \in 6 .. n + 5) /\ 6 # n + 8
          /\ t.phase = 6 - n - 4 /\ t.calc = Calc(f, n)
      BY <1>9, <2>1
    <3> QED
      BY <3>1, Zenon DEF InData, InTrailer, n
  <2>2. CASE n # 0
    <3>1. /\ ~(6 \in n + 6 .. n + 8) /\ 6 # n + 8
          /\ t.phase = 1 /\ t.pos = 6 - 6 /\ t.calc = Calc(f, 6 - 6)
      BY <1>1, <1>9, <2>2
    <3> QED
      BY <3>1, Zenon DEF InData, InTrailer, n
  <2> QED
    BY <2>1, <2>2
<1> QED
  BY <1>7, <1>9, <1>10, <1>11 DEF At, h

LEMMA HeaderByte ==
  ASSUME NEW r \in Reception, NEW d \in Data, NEW f \in Frames, ToMe(f), Plain(f), r.phase = 0,
         NEW k \in 0 .. 5, k > 0 => At(r, d, f, k)
  PROVE  At(Fed(r, Encode(f)[k + 1]), d, f, k + 1)
<1> DEFINE n == Len(f.data)
           e == Encode(f)
           b == e[k + 1]
           h == Append(Tail(r.header), b)
           s == [r EXCEPT !.header = h]
<1>1. /\ n \in 0 .. MaxLen /\ n \in Nat /\ Len(e) = n + 9 /\ DOMAIN e = 1 .. n + 9 /\ e \in Seq(Byte)
      /\ e[1] = SOH /\ e[2] = f.to /\ e[3] = f.from /\ e[4] = ICSC_SYS_PACK /\ e[5] = n /\ e[6] = STX
  <2>1. MaxLen \in Nat
    BY BoundsAssumption DEF Byte
  <2> QED
    BY <2>1, FrameBytes
<1>2. /\ f.to # f.from /\ f.from # NodeId /\ f.to \in {NodeId, Broadcast}
      /\ f.to # STX /\ f.from # STX /\ n # STX
  BY FramesAssumption DEF FrameType, ToMe, Plain
<1> HIDE DEF e, n
<1>3. k + 1 \in 1 .. n + 9 /\ b \in Byte
  <2>1. k + 1 \in 1 .. Len(e)
    BY <1>1
  <2> QED
    BY <1>1, <2>1, ElementOfSeq
<1> HIDE DEF b
<1>4. h \in [1 .. 6 -> Byte] /\ h[6] = b /\ \A i \in 1 .. 5 : h[i] = r.header[i + 1]
  BY <1>3, HeaderShift, Zenon
<1> HIDE DEF h
<1>5. \A i \in 1 .. k + 1 : h[6 - (k + 1) + i] = e[i]
  <2>1. ASSUME NEW i \in 1 .. k PROVE h[6 - (k + 1) + i] = e[i]
    <3>1. r.header[6 - k + i] = e[i]
      BY DEF At, InHeader, e
    <3>2. 6 - (k + 1) + i \in 1 .. 5 /\ 6 - (k + 1) + i + 1 = 6 - k + i
      OBVIOUS
    <3> QED
      BY <1>4, <3>1, <3>2
  <2>2. h[6 - (k + 1) + (k + 1)] = e[k + 1]
    BY <1>4 DEF b
  <2> QED
    BY <2>1, <2>2
<1>6. Fed(r, b) = FindHeader(r, b)
  BY DEF Fed
<1>7. CASE k < 5
  <2>1. ~HeaderComplete(h)
    <3>1. h[6] = e[k + 1] /\ k + 1 \in 1 .. 5
      BY <1>4, <1>7 DEF b
    <3>2. e[1] # STX /\ e[4] # STX
      BY <1>1 DEF SOH, STX, ICSC_SYS_PACK
    <3> QED
      BY <1>1, <1>2, <3>1, <3>2 DEF HeaderComplete
  <2>2. Fed(r, b) = s
    BY <1>6, <2>1, Zenon DEF FindHeader, h
  <2>3. s.phase = 0 /\ s.header = h
    BY DEF Reception
  <2> HIDE DEF s
  <2>4. InHeader(s, f, k + 1)
    BY <1>5, <2>3 DEF InHeader, e
  <2>5. InFrame(s, d, f, k + 1) /\ InData(s, f, k + 1) /\ InTrailer(s, f, k + 1)
    <3>1. ~(k + 1 \in 6 .. n + 8) /\ ~(k + 1 \in 6 .. n + 5) /\ ~(k + 1 \in n + 6 .. n + 8) /\ k + 1 # n + 8
      BY <1>1, <1>7
    <3> QED
      BY <3>1, Zenon DEF InFrame, InData, InTrailer, n
  <2> QED
    BY <2>2, <2>4, <2>5 DEF At, b, e
<1>8. CASE k = 5
  <2>1. b = STX
    BY <1>1, <1>8 DEF b
  <2>2. h = Append(Tail(r.header), STX)
    BY <2>1, Zenon DEF h
  <2>3. \A i \in 1 .. 6 : h[i] = e[i]
    BY <1>5, <1>8
  <2>4. \A i \in 1 .. 6 : Append(Tail(r.header), STX)[i] = Encode(f)[i]
    BY <2>2, <2>3, Zenon DEF e
  <2>5. At(Fed(r, STX), d, f, 6)
    BY <2>4, SixthByte, Zenon
  <2>6. k + 1 = 6 /\ Encode(f)[k + 1] = STX
    BY <1>8, <2>1 DEF b, e
  <2> QED
    BY <2>5, <2>6, Zenon
<1> QED
  BY <1>7, <1>8

LEMMA DataByte ==
  ASSUME NEW r \in Reception, NEW d \in Data, NEW f \in Frames,
         NEW k \in 6 .. Len(f.data) + 5, At(r, d, f, k)
  PROVE  LET b == Encode(f)[k + 1]
         IN  At(Fed(r, b), Stored(r, d, b), f, k + 1)
<1> DEFINE n == Len(f.data)
           b == Encode(f)[k + 1]
           c == (r.calc + b) % 256
           p == IF r.pos + 1 = r.len THEN 2 ELSE 1
           s1 == [r EXCEPT !.pos = @ + 1]
           s2 == [s1 EXCEPT !.calc = c]
           s3 == [s2 EXCEPT !.phase = p]
           d2 == [d EXCEPT ![r.pos] = b]
<1>1. /\ n \in Nat /\ n <= MaxLen /\ MaxLen \in Nat
      /\ \A i \in 1 .. n : Encode(f)[i + 6] = f.data[i]
  <2>1. MaxLen \in Nat
    BY BoundsAssumption DEF Byte
  <2>2. n \in 0 .. MaxLen /\ \A i \in 1 .. n : Encode(f)[i + 6] = f.data[i]
    BY FrameBytes, Zenon
  <2> QED
    BY <2>1, <2>2
<1> HIDE DEF n
<1>2. k \in 6 .. n + 5 /\ k - 5 \in 1 .. n /\ k - 6 \in 0 .. MaxLen - 1 /\ k \in 6 .. n + 8
  BY <1>1 DEF n
<1>3. b = f.data[k - 5]
  <2>1. k + 1 = (k - 5) + 6
    BY <1>2
  <2> QED
    BY <1>1, <1>2, <2>1
<1> HIDE DEF b
<1>4. /\ r.phase = 1 /\ r.pos = k - 6 /\ r.calc = Calc(f, k - 6)
      /\ r.sender = f.from /\ r.command = ICSC_SYS_PACK /\ r.len = n
      /\ \A i \in 1 .. n : i <= k - 6 => d[i - 1] = f.data[i]
  BY <1>2 DEF At, InData, InFrame, n
<1>5. c = Calc(f, k - 5)
  <2>1. \A i \in 1 .. n : Calc(f, i) = (Calc(f, i - 1) + f.data[i]) % 256
    BY CalcStep DEF n
  <2>2. (k - 5) - 1 = k - 6
    BY <1>2
  <2> QED
    BY <1>2, <1>3, <1>4, <2>1, <2>2
<1> HIDE DEF c
<1>6. r.pos + 1 = k - 5 /\ p = IF k - 5 = n THEN 2 ELSE 1
  BY <1>2, <1>4
<1> HIDE DEF p
<1>7. Fed(r, b) = s3
  BY <1>4 DEF Fed, StoreData, c, p
<1>8. /\ s3.phase = p /\ s3.pos = k - 5 /\ s3.calc = Calc(f, k - 5)
      /\ s3.sender = f.from /\ s3.command = ICSC_SYS_PACK /\ s3.len = n
  <2>1. /\ s1.pos = k - 5 /\ s1.sender = f.from /\ s1.command = ICSC_SYS_PACK /\ s1.len = n
        /\ DOMAIN s1 = DOMAIN r /\ "calc" \in DOMAIN r /\ "phase" \in DOMAIN r
    BY <1>4, <1>6 DEF Reception
  <2> HIDE DEF s1
  <2>2. /\ s2.pos = k - 5 /\ s2.sender = f.from /\ s2.command = ICSC_SYS_PACK /\ s2.len = n
        /\ s2.calc = Calc(f, k - 5) /\ DOMAIN s2 = DOMAIN r
    BY <1>5, <2>1
  <2> HIDE DEF s2
  <2> QED
    BY <2>1, <2>2
<1> HIDE DEF s3
<1>9. Stored(r, d, b) = d2
  <2>1. r.pos < MaxLen
    BY <1>1, <1>2, <1>4
  <2> QED
    BY <1>4, <2>1 DEF Stored
<1>10. \A i \in 1 .. n : i <= k - 5 => d2[i - 1] = f.data[i]
  <2>1. \A i \in 1 .. n : i - 1 = k - 6 <=> i = k - 5
    BY <1>2
  <2>2. ASSUME NEW i \in 1 .. n, i <= k - 5 PROVE i - 1 \in 0 .. MaxLen - 1
    BY <1>1
  <2>3. ASSUME NEW i \in 1 .. n, i <= k - 5 PROVE d2[i - 1] = IF i = k - 5 THEN b ELSE d[i - 1]
    BY <1>4, <2>1, <2>2, <2>3 DEF Data
  <2>4. \A i \in 1 .. n : i <= k - 5 => i = k - 5 \/ i <= k - 6
    BY <1>2
  <2> QED
    BY <1>3, <1>4, <2>3, <2>4
<1> HIDE DEF d2
<1>11. InHeader(s3, f, k + 1) /\ InFrame(s3, d2, f, k + 1)
  <2>1. ~(k + 1 <= 5) /\ (k + 1) - 6 = k - 5
    BY <1>2
  <2> QED
    BY <1>8, <1>10, <2>1, Zenon DEF InHeader, InFrame, n
<1>12. InData(s3, f, k + 1)
  <2>1. k + 1 \in 6 .. n + 5 => p = 1
    BY <1>1, <1>2, <1>6
  <2>2. (k + 1) - 6 = k - 5
    BY <1>2
  <2> QED
    BY <1>8, <2>1, <2>2, Zenon DEF InData, n
<1>13. InTrailer(s3, f, k + 1)
  <2>1. k + 1 \in n + 6 .. n + 8 => k - 5 = n /\ p = (k + 1) - n - 4
    BY <1>1, <1>2, <1>6
  <2>2. k + 1 # n + 8
    BY <1>1, <1>2
  <2> QED
    BY <1>8, <2>1, <2>2, Zenon DEF InTrailer, n
<1> QED
  BY <1>7, <1>9, <1>11, <1>12, <1>13 DEF At, b

LEMMA TrailerByte ==
  ASSUME NEW r \in Reception, NEW d \in Data, NEW f \in Frames,
         NEW k \in Len(f.data) + 6 .. Len(f.data) + 7, At(r, d, f, k)
  PROVE  LET b == Encode(f)[k + 1]
         IN  At(Fed(r, b), Stored(r, d, b), f, k + 1)
<1> DEFINE n == Len(f.data)
           b == Encode(f)[k + 1]
<1>1. n \in Nat /\ Encode(f)[n + 7] = ETX /\ Encode(f)[n + 8] = Calc(f, n)
  <2>1. MaxLen \in Nat
    BY BoundsAssumption DEF Byte
  <2> QED
    BY <2>1, FrameBytes
<1>2. k \in n + 6 .. n + 7
  OBVIOUS
<1> HIDE DEF n
<1>3. /\ r.phase = k - n - 4 /\ r.calc = Calc(f, n)
      /\ r.sender = f.from /\ r.command = ICSC_SYS_PACK /\ r.len = n
      /\ \A i \in 1 .. n : d[i - 1] = f.data[i]
  <2>1. k \in n + 6 .. n + 8 /\ k \in 6 .. n + 8 /\ \A i \in 1 .. n : i <= k - 6
    BY <1>1, <1>2
  <2> QED
    BY <2>1, Zenon DEF At, InTrailer, InFrame, n
<1>4. ASSUME NEW s, s.phase = (k + 1) - n - 4, s.calc = Calc(f, n), k + 1 = n + 8 => s.cs = Calc(f, n),
             s.sender = f.from, s.command = ICSC_SYS_PACK, s.len = n
      PROVE  At(s, d, f, k + 1)
  <2>1. ~(k + 1 <= 5) /\ ~(k + 1 \in 6 .. n + 5)
    BY <1>1, <1>2
  <2> QED
    BY <1>3, <1>4, <2>1, Zenon DEF At, InHeader, InFrame, InData, InTrailer, n
<1>5. Stored(r, d, b) = d
  BY <1>1, <1>2, <1>3 DEF Stored
<1>6. CASE k = n + 6
  <2> DEFINE s == [r EXCEPT !.phase = 3]
  <2>1. b = ETX /\ r.phase = 2
    BY <1>1, <1>3, <1>6
  <2>2. Fed(r, b) = s
    BY <2>1 DEF Fed, ExpectEtx
  <2>3. /\ s.phase = (k + 1) - n - 4 /\ s.calc = Calc(f, n)
        /\ s.sender = f.from /\ s.command = ICSC_SYS_PACK /\ s.len = n
    BY <1>1, <1>3, <1>6 DEF Reception
  <2>4. k + 1 # n + 8
    BY <1>1, <1>6
  <2> HIDE DEF s
  <2> QED
    BY <1>4, <1>5, <2>2, <2>3, <2>4
<1>7. CASE k = n + 7
  <2> DEFINE s == [r EXCEPT !.cs = b, !.phase = 4]
  <2>1. b = Calc(f, n) /\ r.phase = 3
    BY <1>1, <1>3, <1>7
  <2> HIDE DEF b
  <2>2. Fed(r, b) = s
    BY <2>1 DEF Fed, KeepChecksum
  <2>3. /\ s.phase = (k + 1) - n - 4 /\ s.calc = Calc(f, n) /\ s.cs = Calc(f, n)
        /\ s.sender = f.from /\ s.command = ICSC_SYS_PACK /\ s.len = n
    BY <1>1, <1>3, <1>7, <2>1 DEF Reception
  <2> HIDE DEF s
  <2> QED
    BY <1>4, <1>5, <2>2, <2>3 DEF b
<1> QED
  BY <1>2, <1>6, <1>7, <1>1

(* The last byte: the packet is announced.                                 *)
LEMMA LastByte ==
  ASSUME NEW r \in Reception, NEW d \in Data, NEW f \in Frames,
         At(r, d, f, Len(f.data) + 8)
  PROVE  /\ Announces(r, Encode(f)[Len(f.data) + 9]) /\ Stored(r, d, EOT) = d
         /\ r.sender = f.from /\ r.len = Len(f.data)
         /\ \A i \in 1 .. Len(f.data) : d[i - 1] = f.data[i]
<1> DEFINE n == Len(f.data)
<1>1. n \in Nat /\ Encode(f)[n + 9] = EOT
  <2>1. MaxLen \in Nat
    BY BoundsAssumption DEF Byte
  <2> QED
    BY <2>1, FrameBytes
<1> HIDE DEF n
<1>2. /\ n + 8 \in n + 6 .. n + 8 /\ n + 8 \in 6 .. n + 8 /\ (n + 8) - n - 4 = 4
      /\ \A i \in 1 .. n : i <= (n + 8) - 6
  BY <1>1
<1>3. /\ r.phase = 4 /\ r.calc = Calc(f, n) /\ r.cs = Calc(f, n)
      /\ r.sender = f.from /\ r.command = ICSC_SYS_PACK /\ r.len = n
      /\ \A i \in 1 .. n : d[i - 1] = f.data[i]
  BY <1>2, Zenon DEF At, InTrailer, InFrame, n
<1> QED
  BY <1>1, <1>3 DEF Announces, Stored, n

(* What is announced is what was sent.                                     *)
LEMMA AnnouncedMessage ==
  ASSUME NEW f \in Frames, rec \in Reception, data \in Data, At(rec, data, f, Len(f.data) + 8),
         packet' = [from |-> rec.sender, len |-> rec.len, received |-> TRUE], data' = data
  PROVE  packet'.received /\ Message' = MessageOf(f)
<1> DEFINE n == Len(f.data)
<1>1. f.data \in Seq(Byte) /\ n \in Nat
  BY FramesAssumption, LenProperties DEF FrameType
<1>2. rec.sender = f.from /\ rec.len = n /\ \A i \in 1 .. n : data[i - 1] = f.data[i]
  BY LastByte
<1>3. f.data = [i \in 1 .. n |-> f.data[i]]
  BY <1>1, LenProperties
<1>4. packet'.from = f.from /\ packet'.len = n /\ packet'.received
  BY <1>2
<1>5. Taken' = [i \in 1 .. n |-> data[i - 1]]
  BY <1>4 DEF Taken
<1>6. [i \in 1 .. n |-> data[i - 1]] = f.data
  BY <1>2, <1>3
<1>7. Message' = [from |-> f.from, data |-> f.data]
  BY <1>4, <1>5, <1>6 DEF Message
<1> QED
  BY <1>4, <1>7 DEF MessageOf

-----------------------------------------------------------------------------
(* The inductive invariant.  The bytes on the line and in the UART are     *)
(* those of frames, and the receiver is where the frame it follows has     *)
(* brought it.                                                             *)
OnWire == [byte : Byte, of : Frames \cup {NoFrame}, at : Nat]
Real(x) == x.at > 0 => x.of \in Frames /\ x.at <= Len(Encode(x.of)) /\ x.byte = Encode(x.of)[x.at]
LineOK(s) == s \in Seq(OnWire) /\ \A i \in 1 .. Len(s) : Real(s[i])

FollowInv ==
  LET f == follows.of
      k == follows.at
  IN  k > 0 => /\ f \in Frames /\ k <= Len(Encode(f))
               /\ ToMe(f) /\ Plain(f) => At(rec, data, f, k)

ReceiverOK ==
  /\ rec \in Reception /\ Counted(rec) /\ data \in Data
  /\ packet \in [from : Byte, len : Byte, received : BOOLEAN]
  /\ follows \in [of : Frames \cup {NoFrame}, at : Nat] /\ torn \in BOOLEAN
  /\ FollowInv
ProgramOK == /\ pc \in {"idle", "available", "take", "try", "look", "delay", "linger", "write"}
             /\ timeout \in 0 .. Tries
             /\ Reading => rx # <<>>
             /\ pc \in {"try", "look", "delay", "linger"} => timeout > 0
WireOK == LineOK(rx) /\ LineOK(line) /\ Len(rx) <= RxSize /\ spoilt \in 0 .. MaxSpoilt

IInv == ReceiverOK /\ ProgramOK /\ WireOK

LEMMA InvType == IInv => TypeOK
<1> SUFFICES ASSUME IInv PROVE TypeOK
  OBVIOUS
<1>1. \A s \in {rx, line} : s \in Seq([byte : Byte, of : Frames \cup {NoFrame}, at : Nat])
  BY DEF IInv, WireOK, LineOK, OnWire
<1> QED
  BY <1>1 DEF IInv, ReceiverOK, ProgramOK, WireOK, TypeOK, Reception, Data

(* The line: a frame on it, a byte more, a byte less, some bytes less.     *)
LEMMA FrameOnLine == ASSUME NEW f \in Frames PROVE LineOK(Bytes(f))
<1> DEFINE e == Encode(f)
<1>1. e \in Seq(Byte) /\ DOMAIN e = 1 .. Len(e) /\ Len(e) \in Nat
  BY FrameBytes, LenProperties, Zenon
<1> HIDE DEF e
<1>2. Bytes(f) = [i \in 1 .. Len(e) |-> OnLine(e[i], f, i)]
  BY <1>1 DEF Bytes, e
<1>3. ASSUME NEW i \in 1 .. Len(e)
      PROVE  OnLine(e[i], f, i) \in OnWire /\ Real(OnLine(e[i], f, i))
  <2>1. e[i] \in Byte /\ i \in Nat /\ i <= Len(e)
    BY <1>1, ElementOfSeq
  <2> QED
    BY <2>1 DEF OnLine, OnWire, Real, e
<1>4. Bytes(f) \in [1 .. Len(e) -> OnWire]
  BY <1>2, <1>3
<1>5. Bytes(f) \in Seq(OnWire)
  BY <1>1, <1>4, SeqDef
<1>6. Len(Bytes(f)) = Len(e)
  <2>1. DOMAIN Bytes(f) = 1 .. Len(e) /\ DOMAIN Bytes(f) = 1 .. Len(Bytes(f)) /\ Len(Bytes(f)) \in Nat
    BY <1>4, <1>5, LenProperties
  <2> QED
    BY <1>1, <2>1
<1> QED
  BY <1>2, <1>3, <1>5, <1>6 DEF LineOK

LEMMA OneMore ==
  ASSUME NEW s, LineOK(s), NEW x \in OnWire, Real(x)
  PROVE  LineOK(Append(s, x)) /\ Len(Append(s, x)) = Len(s) + 1
<1>1. s \in Seq(OnWire) /\ Len(s) \in Nat
  BY LenProperties DEF LineOK
<1>2. /\ Append(s, x) \in Seq(OnWire) /\ Len(Append(s, x)) = Len(s) + 1
      /\ \A i \in 1 .. Len(s) : Append(s, x)[i] = s[i]
      /\ Append(s, x)[Len(s) + 1] = x
  BY <1>1, Appended, Zenon
<1>3. \A i \in 1 .. Len(s) + 1 : i \in 1 .. Len(s) \/ i = Len(s) + 1
  BY <1>1
<1> QED
  BY <1>2, <1>3 DEF LineOK

LEMMA OneLess ==
  ASSUME NEW s, LineOK(s), s # <<>>
  PROVE  /\ LineOK(Tail(s)) /\ Len(Tail(s)) = Len(s) - 1 /\ Len(s) \in Nat
         /\ Head(s) \in OnWire /\ Real(Head(s))
<1>1. s \in Seq(OnWire) /\ Len(s) \in Nat \ {0}
  BY EmptySeq DEF LineOK
<1>2. Tail(s) \in Seq(OnWire) /\ Len(Tail(s)) = Len(s) - 1 /\ Head(s) \in OnWire
  BY <1>1, HeadTailProperties
<1>3. \A i \in 1 .. Len(Tail(s)) : Tail(s)[i] = s[i + 1]
  BY <1>1, HeadTailProperties, Zenon
<1>4. Head(s) = s[1]
  BY <1>1
<1>5. \A i \in 1 .. Len(s) - 1 : i + 1 \in 1 .. Len(s)
  BY <1>1
<1>6. 1 \in 1 .. Len(s)
  BY <1>1
<1> QED
  BY <1>1, <1>2, <1>3, <1>4, <1>5, <1>6 DEF LineOK

LEMMA SomeLess ==
  ASSUME NEW s, LineOK(s), NEW i \in DOMAIN s
  PROVE  LineOK(SubSeq(s, i + 1, Len(s)))
<1>1. s \in Seq(OnWire) /\ Len(s) \in Nat /\ i \in 1 .. Len(s)
  BY LenProperties DEF LineOK
<1>2. \A j \in i + 1 .. Len(s) : j \in 1 .. Len(s) /\ s[j] \in OnWire
  BY <1>1, ElementOfSeq
<1>3. /\ SubSeq(s, i + 1, Len(s)) \in Seq(OnWire)
      /\ Len(SubSeq(s, i + 1, Len(s))) = IF i + 1 <= Len(s) THEN Len(s) - (i + 1) + 1 ELSE 0
      /\ \A j \in 1 .. Len(s) - (i + 1) + 1 : SubSeq(s, i + 1, Len(s))[j] = s[(i + 1) + j - 1]
  BY <1>1, <1>2, SubSeqProperties
<1>4. ASSUME NEW j \in 1 .. Len(SubSeq(s, i + 1, Len(s)))
      PROVE  Real(SubSeq(s, i + 1, Len(s))[j])
  <2>1. j \in 1 .. Len(s) - (i + 1) + 1 /\ (i + 1) + j - 1 \in 1 .. Len(s)
    BY <1>1, <1>3
  <2> QED
    BY <1>3, <2>1 DEF LineOK
<1> QED
  BY <1>3, <1>4 DEF LineOK

-----------------------------------------------------------------------------
LEMMA InitInv == Init => IInv
<1> SUFFICES ASSUME Init PROVE IInv
  OBVIOUS
<1>1. 0 \in Byte /\ 0 \in 0 .. 4
  BY DEF Byte
<1>2. ReceiverOK
  <2>1. rec \in Reception /\ rec.phase = 0 /\ data \in Data
    BY <1>1 DEF Init, Reception, Data
  <2>2. follows.at = 0 /\ follows \in [of : Frames \cup {NoFrame}, at : Nat]
    BY DEF Init
  <2>3. packet \in [from : Byte, len : Byte, received : BOOLEAN] /\ torn \in BOOLEAN
    BY <1>1 DEF Init
  <2> QED
    BY <2>1, <2>2, <2>3 DEF ReceiverOK, Counted, FollowInv
<1>3. LineOK(<<>>) /\ Len(<<>>) = 0
  <2>1. <<>> \in Seq(OnWire) /\ Len(<<>>) = 0
    BY EmptySeq
  <2> QED
    BY <2>1 DEF LineOK
<1>4. ProgramOK
  BY BoundsAssumption DEF Init, ProgramOK, Reading
<1>5. WireOK
  BY <1>3, BoundsAssumption DEF Init, WireOK
<1> QED
  BY <1>2, <1>4, <1>5 DEF IInv

(* What is no frame does not end.                                          *)
LEMMA NoFrameEnds ==
  ASSUME FollowInv', follows' \in [of : Frames \cup {NoFrame}, at : Nat], Ends
  PROVE  follows'.of \in Frames
<1>1. Len(Encode(NoFrame)) = 9
  <2>1. NoFrame.data = <<>> /\ <<>> \in Seq(Byte) /\ Len(<<>>) = 0
    BY EmptySeq DEF NoFrame
  <2>2. Len(Encode(NoFrame)) = Len(NoFrame.data) + 9
    BY <2>1, EncodeBytes
  <2> QED
    BY <2>1, <2>2
<1>2. CASE follows'.of = NoFrame
  BY <1>1, <1>2 DEF Ends, FollowInv
<1>3. CASE follows'.of \in Frames
  BY <1>3
<1> QED
  BY <1>2, <1>3

(* What a byte read does to the receiver: the frame followed goes on, and  *)
(* its last byte announces it.                                             *)
LEMMA FollowStep ==
  ASSUME NEW x \in OnWire, Real(x), ReceiverOK, follows' = Followed(x),
         rec' = Fed(rec, x.byte), data' = Stored(rec, data, x.byte)
  PROVE  /\ FollowInv' /\ follows' \in [of : Frames \cup {NoFrame}, at : Nat]
         /\ Ends /\ ToMe(follows'.of) /\ Plain(follows'.of) =>
              At(rec, data, follows'.of, Len(follows'.of.data) + 8) /\ x.byte = EOT
<1> DEFINE f == x.of
           n == Len(f.data)
           k == x.at - 1
<1>1. x.at \in Nat /\ x.of \in Frames \cup {NoFrame}
  BY DEF OnWire
<1>2. ASSUME NEW g \in Frames
      PROVE  Len(g.data) \in Nat /\ Len(Encode(g)) = Len(g.data) + 9 /\ Encode(g)[Len(g.data) + 9] = EOT
  <2>1. MaxLen \in Nat
    BY BoundsAssumption DEF Byte
  <2> QED
    BY <2>1, FrameBytes
<1>3. CASE follows' = [of |-> NoFrame, at |-> 0]
  <2>1. follows'.at = 0 /\ follows'.of = NoFrame /\ follows' \in [of : Frames \cup {NoFrame}, at : Nat]
    BY <1>3
  <2>2. FollowInv'
    BY <2>1 DEF FollowInv
  <2>3. ~Ends
    <3>1. ASSUME Ends PROVE FALSE
      <4>1. NoFrame \in Frames
        BY <2>1, <2>2, <3>1, NoFrameEnds
      <4>2. Len(Encode(NoFrame)) # 0
        BY <1>2, <4>1
      <4> QED
        BY <2>1, <3>1, <4>2 DEF Ends
    <3> QED
      BY <3>1
  <2> QED
    BY <2>1, <2>2, <2>3
<1>4. CASE follows' = [of |-> f, at |-> k + 1] /\ x.at > 0 /\ k = (IF x.at = 1 THEN 0 ELSE follows.at)
           /\ (x.at = 1 => rec.phase = 0) /\ (x.at > 1 => follows.of = f)
  <2>1. /\ f \in Frames /\ n \in Nat /\ Len(Encode(f)) = n + 9 /\ k \in 0 .. n + 8
        /\ x.byte = Encode(f)[k + 1] /\ Encode(f)[n + 9] = EOT
    <3>1. f \in Frames /\ x.at <= Len(Encode(f)) /\ x.byte = Encode(f)[x.at]
      BY <1>4 DEF Real
    <3>2. n \in Nat /\ Len(Encode(f)) = n + 9 /\ Encode(f)[n + 9] = EOT
      BY <1>2, <3>1
    <3> HIDE DEF f, n
    <3> QED
      BY <1>1, <1>4, <3>1, <3>2
  <2> HIDE DEF n
  <2>2. follows'.of = f /\ follows'.at = k + 1 /\ follows' \in [of : Frames \cup {NoFrame}, at : Nat]
    BY <1>4, <2>1
  <2>3. ToMe(f) /\ Plain(f) /\ k > 0 => At(rec, data, f, k)
    BY <1>1, <1>4, <2>1 DEF ReceiverOK, FollowInv
  <2>4. ASSUME ToMe(f), Plain(f) PROVE At(rec', data', f, k + 1)
    <3>1. CASE k \in 0 .. 5
      <4>1. rec.phase = 0
        BY <1>1, <1>4, <2>3, <2>4, <3>1 DEF At, InHeader
      <4>2. At(Fed(rec, Encode(f)[k + 1]), data, f, k + 1)
        BY <2>1, <2>3, <2>4, <3>1, <4>1, HeaderByte DEF ReceiverOK
      <4> QED
        BY <2>1, <4>1, <4>2 DEF Stored
    <3>2. CASE k \in 6 .. n + 5
      BY <2>1, <2>3, <2>4, <3>2, DataByte DEF ReceiverOK, n
    <3>3. CASE k \in n + 6 .. n + 7
      BY <2>1, <2>3, <2>4, <3>3, TrailerByte DEF ReceiverOK, n
    <3>4. CASE k = n + 8
      <4>1. ~(k + 1 <= 5) /\ ~(k + 1 \in 6 .. n + 8) /\ ~(k + 1 \in 6 .. n + 5)
            /\ ~(k + 1 \in n + 6 .. n + 8) /\ k + 1 # n + 8
        BY <2>1, <3>4
      <4> QED
        BY <4>1, Zenon DEF At, InHeader, InFrame, InData, InTrailer, n
    <3>5. k \in 0 .. 5 \/ k \in 6 .. n + 5 \/ k \in n + 6 .. n + 7 \/ k = n + 8
      <4> HIDE DEF k
      <4> QED
        BY <2>1
    <3> QED
      BY <3>1, <3>2, <3>3, <3>4, <3>5
  <2>5. FollowInv'
    <3>1. k + 1 <= Len(Encode(f))
      BY <2>1
    <3> QED
      BY <2>1, <2>2, <2>4, <3>1 DEF FollowInv
  <2>6. ASSUME Ends, ToMe(f), Plain(f) PROVE At(rec, data, f, n + 8) /\ x.byte = EOT
    <3>1. k = n + 8 /\ k > 0 /\ k + 1 = n + 9
      BY <2>1, <2>2, <2>6 DEF Ends
    <3> QED
      BY <2>1, <2>3, <2>6, <3>1
  <2> QED
    BY <2>2, <2>5, <2>6 DEF n
<1>5. \/ follows' = [of |-> NoFrame, at |-> 0]
      \/ /\ follows' = [of |-> f, at |-> k + 1] /\ x.at > 0 /\ k = (IF x.at = 1 THEN 0 ELSE follows.at)
         /\ (x.at = 1 => rec.phase = 0) /\ (x.at > 1 => follows.of = f)
  <2>1. x.at = k + 1 /\ follows.at \in Nat
    BY <1>1 DEF ReceiverOK
  <2>2. CASE x.at = 1 /\ rec.phase = 0
    BY <2>1, <2>2 DEF Followed
  <2>3. CASE x.at > 1 /\ x.at = follows.at + 1 /\ x.of = follows.of
    BY <1>1, <2>1, <2>3 DEF Followed
  <2> QED
    BY <2>2, <2>3 DEF Followed
<1> QED
  BY <1>3, <1>4, <1>5

(* What is announced is the message of the frame that ends.                *)
Announced == Ends /\ ToMe(follows'.of) /\ Plain(follows'.of) =>
               packet'.received /\ Message' = MessageOf(follows'.of)

Kept == ReceiverOK' /\ ProgramOK' /\ WireOK' /\ Announced

LEMMA StoredIs ==
  ASSUME rec \in Reception, NEW b
  PROVE  Stored(rec, data, b) = IF rec.phase = 1 /\ ~Overruns THEN [data EXCEPT ![rec.pos] = b] ELSE data
<1>1. rec.phase = 1 => (rec.pos < MaxLen <=> ~Overruns)
  BY BoundsAssumption DEF Overruns, Reception, Byte
<1> QED
  BY <1>1 DEF Stored

LEMMA ReadStep == ASSUME IInv, Read PROVE Kept
<1> DEFINE x == Head(rx)
           b == x.byte
<1>1. /\ rec \in Reception /\ Counted(rec) /\ data \in Data
      /\ packet \in [from : Byte, len : Byte, received : BOOLEAN] /\ torn \in BOOLEAN
      /\ ReceiverOK /\ rx # <<>> /\ LineOK(rx) /\ LineOK(line) /\ Len(rx) <= RxSize
      /\ spoilt \in 0 .. MaxSpoilt
  BY DEF IInv, ReceiverOK, ProgramOK, WireOK, Read
<1>2. /\ x \in OnWire /\ Real(x) /\ b \in Byte
      /\ LineOK(Tail(rx)) /\ Len(Tail(rx)) = Len(rx) - 1 /\ Len(rx) \in Nat
  <2>1. /\ x \in OnWire /\ Real(x)
        /\ LineOK(Tail(rx)) /\ Len(Tail(rx)) = Len(rx) - 1 /\ Len(rx) \in Nat
    BY <1>1, OneLess
  <2> QED
    BY <2>1 DEF OnWire
<1>3. /\ rec' = Fed(rec, b) /\ data' = Stored(rec, data, b) /\ follows' = Followed(x)
      /\ packet' \in IF Announces(rec, b) THEN {[from |-> rec.sender, len |-> rec.len, received |-> TRUE]}
                     ELSE IF Overruns THEN Behind(b) ELSE {packet}
      /\ torn' \in BOOLEAN
      /\ rx' = Tail(rx) /\ line' = line /\ spoilt' = spoilt /\ timeout' = timeout
  <2>1. data' = Stored(rec, data, b)
    BY <1>1, StoredIs DEF Read
  <2> QED
    BY <1>1, <2>1 DEF Read
<1>4. /\ pc \in {"available", "look", "linger"}
      /\ \/ pc' = pc /\ rx' # <<>>
         \/ pc = "available" /\ pc' \in {"take", "idle"}
         \/ pc # "available" /\ pc' = "delay"
  BY DEF Read, Reading, Polled
<1> HIDE DEF x, b
<1>5. /\ FollowInv' /\ follows' \in [of : Frames \cup {NoFrame}, at : Nat]
      /\ Ends /\ ToMe(follows'.of) /\ Plain(follows'.of) =>
           At(rec, data, follows'.of, Len(follows'.of.data) + 8) /\ b = EOT
  BY <1>1, <1>2, <1>3, FollowStep DEF b
<1>6. ReceiverOK'
  <2>1. rec' \in Reception /\ Counted(rec')
    BY <1>1, <1>2, <1>3, FedType
  <2>2. data' \in Data
    BY <1>1, <1>2, <1>3 DEF Stored, Data
  <2>3. packet' \in [from : Byte, len : Byte, received : BOOLEAN]
    <3>1. Behind(b) \subseteq [from : Byte, len : Byte, received : BOOLEAN]
      BY <1>1, <1>2 DEF Behind
    <3>2. [from |-> rec.sender, len |-> rec.len, received |-> TRUE]
            \in [from : Byte, len : Byte, received : BOOLEAN]
      BY <1>1 DEF Reception
    <3> QED
      BY <1>1, <1>3, <3>1, <3>2
  <2> QED
    BY <1>3, <1>5, <2>1, <2>2, <2>3 DEF ReceiverOK, Counted
<1>7. ProgramOK'
  BY <1>3, <1>4 DEF ProgramOK, Reading, IInv
<1>8. WireOK'
  BY <1>1, <1>2, <1>3, BoundsAssumption DEF WireOK
<1>9. ASSUME Ends, ToMe(follows'.of), Plain(follows'.of)
      PROVE  packet'.received /\ Message' = MessageOf(follows'.of)
  <2> DEFINE f == follows'.of
             n == Len(f.data)
  <2>1. f \in Frames
    BY <1>5, <1>6, <1>9, NoFrameEnds
  <2>2. f.data \in Seq(Byte) /\ n \in Nat
    BY <2>1, FramesAssumption, LenProperties DEF FrameType
  <2>3. At(rec, data, f, n + 8) /\ b = EOT
    BY <1>5, <1>9
  <2>4. Announces(rec, EOT) /\ Stored(rec, data, EOT) = data
    <3>1. Encode(f)[n + 9] = EOT
      BY <2>1, FrameLength
    <3> HIDE DEF f
    <3> QED
      BY <1>1, <2>1, <2>3, <3>1, LastByte
  <2>5. packet' = [from |-> rec.sender, len |-> rec.len, received |-> TRUE] /\ data' = data
    BY <1>3, <2>3, <2>4
  <2> HIDE DEF f
  <2> QED
    BY <1>1, <2>1, <2>3, <2>5, AnnouncedMessage DEF f
<1> QED
  BY <1>6, <1>7, <1>8, <1>9 DEF Kept, Announced

(* Steps that leave the receiver alone.                                    *)
LEMMA ReceiverSame ==
  ASSUME ReceiverOK, UNCHANGED <<rec, data, follows, torn>>,
         packet' \in [from : Byte, len : Byte, received : BOOLEAN]
  PROVE  ReceiverOK' /\ Announced
<1>1. ~Ends
  BY DEF Ends
<1>2. ReceiverOK'
  BY DEF ReceiverOK, FollowInv
<1> QED
  BY <1>1, <1>2 DEF Announced

(* transportAvailable, transportReceive and transportSend outside the loop *)
(* that reads.                                                             *)
LEMMA ProgramStep ==
  ASSUME IInv, Poll \/ Send \/ Receive \/ transportSend
  PROVE  Kept
<1>1. ReceiverOK' /\ Announced
  <2>1. /\ UNCHANGED <<rec, data, follows, torn>>
        /\ packet' = packet \/ packet' = [packet EXCEPT !.received = FALSE]
    BY DEF Poll, Send, Receive, transportSend, Look, Linger, Waited, Write, Written, Goto, receiver
  <2>2. packet' \in [from : Byte, len : Byte, received : BOOLEAN]
    BY <2>1 DEF IInv, ReceiverOK
  <2> QED
    BY <2>1, <2>2, ReceiverSame DEF IInv
<1>2. UNCHANGED <<rx, line, spoilt>>
  BY DEF Poll, Send, Receive, transportSend, Look, Linger, Waited, Write, Written, Goto
<1>3. WireOK'
  BY <1>2 DEF IInv, WireOK
<1>4. Tries \in Nat \ {0} /\ ProgramOK
  BY BoundsAssumption DEF IInv
<1>5. ProgramOK'
  <2>1. CASE Poll
    BY <1>2, <1>4, <2>1 DEF Poll, Goto, Polled, ProgramOK, Reading
  <2>2. CASE Send
    BY <1>2, <1>4, <2>2 DEF Send, Goto, ProgramOK, Reading
  <2>3. CASE Receive
    BY <1>2, <1>4, <2>3 DEF Receive, ProgramOK, Reading
  <2>4. CASE Look
    BY <1>2, <1>4, <2>4 DEF Look, Goto, ProgramOK, Reading
  <2>5. CASE Linger
    BY <1>2, <1>4, <2>5 DEF Linger, Goto, ProgramOK, Reading
  <2>6. CASE Waited
    <3>1. pc = "delay" /\ timeout \in 1 .. Tries /\ timeout' = timeout - 1
      BY <1>4, <2>6 DEF Waited, ProgramOK
    <3>2. timeout' \in 0 .. Tries /\ (timeout' # 0 => timeout' > 0)
      BY <1>4, <3>1
    <3>3. pc' = IF timeout' = 0 THEN "idle" ELSE "try"
      BY <2>6 DEF Waited, Goto
    <3> QED
      BY <3>2, <3>3 DEF ProgramOK, Reading
  <2>7. CASE Write
    BY <1>2, <1>4, <2>7 DEF Write, Goto, ProgramOK, Reading
  <2>8. CASE Written
    BY <1>2, <1>4, <2>8 DEF Written, Goto, ProgramOK, Reading
  <2> QED
    BY <2>1, <2>2, <2>3, <2>4, <2>5, <2>6, <2>7, <2>8 DEF transportSend
<1> QED
  BY <1>1, <1>3, <1>5 DEF Kept

(* A frame begins on the line; a byte comes, or passes.                    *)
LEMMA LineStep ==
  ASSUME IInv, Line
  PROVE  Kept
<1>1. ReceiverOK' /\ Announced
  <2>1. UNCHANGED receiver
    BY DEF Line, Begin, Heard, Dropped, Unheard
  <2> QED
    BY <2>1, ReceiverSame DEF IInv, receiver, ReceiverOK
<1>2. ProgramOK'
  <2>1. UNCHANGED <<pc, timeout>> /\ (rx' = rx \/ ~Reading)
    BY DEF Line, Begin, Heard, Dropped, Unheard
  <2> QED
    BY <2>1 DEF IInv, ProgramOK, Reading
<1>3. /\ LineOK(rx) /\ LineOK(line) /\ Len(rx) \in Nat /\ Len(rx) <= RxSize
      /\ RxSize \in Nat /\ MaxSpoilt \in Nat /\ spoilt \in 0 .. MaxSpoilt
  <2>1. LineOK(rx) /\ Len(rx) \in Nat
    BY LenProperties DEF IInv, WireOK, LineOK
  <2> QED
    BY <2>1, BoundsAssumption DEF IInv, WireOK
<1>4. Spoil => spoilt' \in 0 .. MaxSpoilt
  BY <1>3 DEF Spoil
<1>5. WireOK'
  <2>1. CASE Begin
    <3>1. PICK f \in Frames : line' = Bytes(f)
      BY <2>1 DEF Begin
    <3>2. LineOK(line')
      BY <3>1, FrameOnLine
    <3> QED
      BY <1>3, <2>1, <3>2 DEF Begin, WireOK
  <2>2. CASE Heard
    <3>1. line # <<>> /\ line' = Tail(line) /\ Len(rx) < RxSize
      BY <2>2 DEF Heard
    <3>2. LineOK(line') /\ Head(line) \in OnWire /\ Real(Head(line))
      BY <1>3, <3>1, OneLess
    <3>3. \A noise \in Noise : OnLine(noise, NoFrame, 0) \in OnWire /\ Real(OnLine(noise, NoFrame, 0))
      BY FramesAssumption DEF OnLine, OnWire, Real
    <3>4. PICK x \in OnWire : Real(x) /\ rx' = Append(rx, x)
      <4>1. rx' = Append(rx, Head(line)) \/ \E noise \in Noise : rx' = Append(rx, OnLine(noise, NoFrame, 0))
        BY <2>2 DEF Heard
      <4> QED
        BY <3>2, <3>3, <4>1
    <3>5. LineOK(rx') /\ Len(rx') = Len(rx) + 1
      BY <1>3, <3>4, OneMore
    <3>6. spoilt' \in 0 .. MaxSpoilt
      BY <1>3, <1>4, <2>2 DEF Heard
    <3>7. Len(rx) + 1 <= RxSize
      BY <1>3, <3>1
    <3> QED
      BY <3>2, <3>5, <3>6, <3>7 DEF WireOK
  <2>3. CASE Dropped
    <3>1. line # <<>> /\ line' = Tail(line) /\ rx' = rx /\ Spoil
      BY <2>3 DEF Dropped
    <3>2. LineOK(line')
      BY <1>3, <3>1, OneLess
    <3> QED
      BY <1>3, <1>4, <3>1, <3>2 DEF WireOK
  <2>4. CASE Unheard
    <3>1. PICK i \in DOMAIN line : line' = SubSeq(line, i + 1, Len(line))
      BY <2>4 DEF Unheard
    <3>2. LineOK(line') /\ rx' = rx /\ Spoil
      BY <1>3, <2>4, <3>1, SomeLess DEF Unheard
    <3> QED
      BY <1>3, <1>4, <3>2 DEF WireOK
  <2> QED
    BY <2>1, <2>2, <2>3, <2>4 DEF Line
<1> QED
  BY <1>1, <1>2, <1>5 DEF Kept

LEMMA NextInv == ASSUME IInv, [Next]_vars PROVE IInv' /\ Announced
<1>1. CASE Next
  <2>1. Kept
    BY <1>1, ReadStep, ProgramStep, LineStep DEF Next, Program
  <2> QED
    BY <2>1 DEF Kept, IInv
<1>2. CASE UNCHANGED vars
  <2>1. ReceiverOK' /\ Announced
    BY <1>2, ReceiverSame DEF vars, IInv, ReceiverOK
  <2>2. ProgramOK' /\ WireOK'
    BY <1>2 DEF vars, IInv, ProgramOK, Reading, WireOK
  <2> QED
    BY <2>1, <2>2 DEF IInv
<1> QED
  BY <1>1, <1>2

(* IInv is inductive.                                                      *)
LEMMA Invariance == Spec => []IInv
<1>1. IInv /\ [Next]_vars => IInv'
  BY NextInv
<1> QED
  BY <1>1, InitInv, PTL DEF Spec

(* TypeOK: every variable keeps its range; the counters of the state       *)
(* machine stay bytes because no more is stored than the header announced  *)
(* (MyTransportRS485.cpp:180-187).                                         *)
THEOREM TypeCorrect == Spec => []TypeOK
<1> QED
  BY InvType, Invariance, PTL

(* WholeFrameAnnounced: a frame for the node that arrives whole while it   *)
(* looks for a header is announced with its last byte, as it was sent,     *)
(* whatever was on the line before (MyTransportRS485.cpp:136-231), for any *)
(* frames, numbers of disturbed bytes and sizes of buffers.                *)
THEOREM FramesCorrect == Spec => WholeFrameAnnounced
<1>1. IInv /\ [Next]_vars =>
        [Ends /\ ToMe(follows'.of) /\ Plain(follows'.of) =>
           packet'.received /\ Message' = MessageOf(follows'.of)]_vars
  BY NextInv DEF Announced
<1> QED
  BY <1>1, Invariance, PTL DEF Spec, WholeFrameAnnounced

-----------------------------------------------------------------------------
(* A line that nothing disturbs.  The bytes read, those in the UART and    *)
(* those on the line follow one another, frame after frame.                *)
Over(p) == p.at = 0 \/ p.at = Len(Encode(p.of))
Succeeds(x, p) == IF Over(p) THEN x.at = 1 ELSE x.of = p.of /\ x.at = p.at + 1
Stream(p, s) == \A i \in 1 .. Len(s) : Succeeds(s[i], IF i = 1 THEN p ELSE s[i - 1])
EndOf(p, s) == IF s = <<>> THEN p ELSE s[Len(s)]
Wire == /\ Stream(follows, rx) /\ Stream(EndOf(follows, rx), line)
        /\ Over(EndOf(EndOf(follows, rx), line))

LEMMA StreamAppend ==
  ASSUME NEW p, NEW s \in Seq(OnWire), NEW x \in OnWire, Stream(p, s), Succeeds(x, EndOf(p, s))
  PROVE  Stream(p, Append(s, x)) /\ EndOf(p, Append(s, x)) = x
<1> DEFINE t == Append(s, x)
<1>1. /\ Len(s) \in Nat /\ Len(t) = Len(s) + 1 /\ t # <<>>
      /\ \A i \in 1 .. Len(s) : t[i] = s[i]
      /\ t[Len(s) + 1] = x
  BY Appended, LenProperties, EmptySeq
<1> HIDE DEF t
<1>2. ASSUME NEW i \in 1 .. Len(t) PROVE Succeeds(t[i], IF i = 1 THEN p ELSE t[i - 1])
  <2>1. CASE i = Len(s) + 1
    <3>1. EndOf(p, s) = IF i = 1 THEN p ELSE t[i - 1]
      <4>1. s = <<>> <=> Len(s) = 0
        BY EmptySeq
      <4>2. i # 1 => i - 1 \in 1 .. Len(s) /\ i - 1 = Len(s)
        BY <1>1, <2>1
      <4> QED
        BY <1>1, <2>1, <4>1, <4>2 DEF EndOf
    <3> QED
      BY <1>1, <2>1, <3>1
  <2>2. CASE i # Len(s) + 1
    <3>1. i \in 1 .. Len(s) /\ (i # 1 => i - 1 \in 1 .. Len(s))
      BY <1>1, <2>2
    <3> QED
      BY <1>1, <3>1 DEF Stream
  <2> QED
    BY <2>1, <2>2
<1> QED
  BY <1>1, <1>2 DEF Stream, EndOf, t

LEMMA StreamTail ==
  ASSUME NEW p, NEW s \in Seq(OnWire), s # <<>>, Stream(p, s)
  PROVE  Succeeds(Head(s), p) /\ Stream(Head(s), Tail(s)) /\ EndOf(Head(s), Tail(s)) = EndOf(p, s)
<1> DEFINE t == Tail(s)
<1>1. /\ Len(s) \in Nat \ {0} /\ Len(t) = Len(s) - 1 /\ Head(s) = s[1]
      /\ \A i \in 1 .. Len(t) : t[i] = s[i + 1]
      /\ t \in Seq(OnWire)
  <2>1. Len(s) \in Nat \ {0} /\ Len(t) = Len(s) - 1 /\ Head(s) = s[1] /\ t \in Seq(OnWire)
    BY HeadTailProperties, LenProperties, EmptySeq
  <2>2. \A i \in 1 .. Len(t) : t[i] = s[i + 1]
    BY HeadTailProperties, Zenon
  <2> QED
    BY <2>1, <2>2
<1> HIDE DEF t
<1>2. t = <<>> <=> Len(s) = 1
  <2>1. t = <<>> <=> Len(t) = 0
    BY <1>1, EmptySeq
  <2> QED
    BY <1>1, <2>1
<1>3. Succeeds(s[1], p)
  BY <1>1 DEF Stream
<1>4. ASSUME NEW i \in 1 .. Len(t) PROVE Succeeds(t[i], IF i = 1 THEN s[1] ELSE t[i - 1])
  <2>1. i + 1 \in 1 .. Len(s) /\ i + 1 # 1 /\ (i + 1) - 1 = i /\ (i # 1 => i - 1 \in 1 .. Len(t) /\ (i - 1) + 1 = i)
    BY <1>1
  <2>2. Succeeds(s[i + 1], s[i])
    BY <2>1 DEF Stream
  <2> QED
    BY <1>1, <2>1, <2>2
<1>5. EndOf(s[1], t) = EndOf(p, s)
  <2>1. t # <<>> => t[Len(t)] = s[Len(s)]
    BY <1>1, <1>2
  <2> QED
    BY <1>1, <1>2, <2>1 DEF EndOf
<1> QED
  BY <1>1, <1>3, <1>4, <1>5 DEF Stream, t

LEMMA StreamOfFrame ==
  ASSUME NEW p, Over(p), NEW f \in Frames
  PROVE  Stream(p, Bytes(f)) /\ Over(EndOf(p, Bytes(f)))
<1> DEFINE e == Encode(f)
           s == Bytes(f)
<1>1. Len(e) \in Nat \ {0} /\ DOMAIN e = 1 .. Len(e)
  <2>1. MaxLen \in Nat
    BY BoundsAssumption DEF Byte
  <2> QED
    BY <2>1, FrameBytes
<1>2. s = [i \in 1 .. Len(e) |-> OnLine(e[i], f, i)]
  BY <1>1 DEF Bytes
<1>3. s \in Seq(OnWire) /\ Len(s) \in Nat /\ DOMAIN s = 1 .. Len(s)
  BY FrameOnLine, LenProperties DEF LineOK
<1>4. Len(s) = Len(e)
  <2>1. DOMAIN s = 1 .. Len(e) /\ DOMAIN s = 1 .. Len(s) /\ Len(s) \in Nat
    BY <1>2, <1>3
  <2> HIDE DEF e, s
  <2> QED
    BY <1>1, <2>1
<1>5. \A i \in 1 .. Len(e) : s[i].of = f /\ s[i].at = i
  BY <1>2 DEF OnLine
<1> HIDE DEF s
<1>6. s # <<>> /\ EndOf(p, s) = s[Len(e)]
  BY <1>1, <1>3, <1>4, EmptySeq DEF EndOf
<1>7. Over(s[Len(e)])
  BY <1>1, <1>5 DEF Over, e
<1>8. ASSUME NEW i \in 1 .. Len(e) PROVE Succeeds(s[i], IF i = 1 THEN p ELSE s[i - 1])
  <2>1. CASE i = 1
    BY <1>5, <2>1 DEF Succeeds
  <2>2. CASE i # 1
    <3>1. i - 1 \in 1 .. Len(e) /\ i - 1 # 0 /\ i - 1 # Len(e)
      BY <1>1, <2>2
    <3>2. s[i - 1].of = f /\ s[i - 1].at = i - 1 /\ s[i].of = f /\ s[i].at = i
      BY <1>5, <3>1
    <3>3. ~Over(s[i - 1])
      BY <3>1, <3>2 DEF Over, e
    <3> QED
      BY <2>2, <3>2, <3>3 DEF Succeeds
  <2> QED
    BY <2>1, <2>2
<1> QED
  BY <1>4, <1>6, <1>7, <1>8 DEF Stream, s

(* The header the receiver holds after each frame, and after k bytes of    *)
(* frame f that it reads while it looks for one; whether it takes what it  *)
(* holds for the header of a frame for the node.                           *)
Header == [1 .. 6 -> Byte]
Zero == [i \in 1 .. 6 |-> 0]
After(f) == [i \in 1 .. 6 |-> Encode(f)[IF ToMe(f) THEN i ELSE Len(Encode(f)) - 6 + i]]
Starts == {Zero} \cup {After(f) : f \in Frames}
Window(h, f, k) == [i \in 1 .. 6 |-> IF k - 6 + i > 0 THEN Encode(f)[k - 6 + i] ELSE h[k + i]]
ForNode(h) == HeaderComplete(h) /\ ForMe(h[2], h[3])
OwnHeader(f, k) == ToMe(f) /\ k >= 6

(* What the frames must be like: nothing but the header of a frame for the *)
(* node looks like one, neither in the data of a frame for another station *)
(* nor across the end of a frame and the beginning of the next.            *)
Clear == \A h \in Starts, f \in Frames : \A k \in 1 .. Len(Encode(f)) :
           ~OwnHeader(f, k) => ~ForNode(Window(h, f, k))

LEMMA StartsAreHeaders == Starts \subseteq Header
<1>1. Zero \in Header
  BY DEF Zero, Header, Byte
<1>2. ASSUME NEW f \in Frames PROVE After(f) \in Header
  <2> DEFINE e == Encode(f)
             n == Len(f.data)
  <2>1. n \in Nat /\ Len(e) = n + 9 /\ \A k \in 1 .. Len(e) : e[k] \in Byte
    BY FrameLength
  <2> HIDE DEF n
  <2>2. ASSUME NEW i \in 1 .. 6 PROVE e[IF ToMe(f) THEN i ELSE Len(e) - 6 + i] \in Byte
    <3>1. i \in 1 .. Len(e) /\ Len(e) - 6 + i \in 1 .. Len(e)
      BY <2>1
    <3> QED
      BY <2>1, <3>1
  <2> QED
    BY <2>2 DEF After, Header
<1> QED
  BY <1>1, <1>2 DEF Starts

LEMMA WindowShift ==
  ASSUME NEW h \in Header, NEW f \in Frames, NEW k \in 0 .. Len(Encode(f)) - 1
  PROVE  /\ Window(h, f, k) \in Header
         /\ Append(Tail(Window(h, f, k)), Encode(f)[k + 1]) = Window(h, f, k + 1)
<1> DEFINE e == Encode(f)
           n == Len(f.data)
           w == Window(h, f, k)
           v == Window(h, f, k + 1)
           b == e[k + 1]
<1>1. n \in Nat /\ Len(e) = n + 9 /\ k \in Nat /\ \A j \in 1 .. Len(e) : e[j] \in Byte
  BY FrameLength
<1> HIDE DEF n
<1>2. b \in Byte
  <2>1. k + 1 \in 1 .. Len(e)
    BY <1>1
  <2> QED
    BY <1>1, <2>1
<1>3. w \in Header
  <2>1. ASSUME NEW i \in 1 .. 6 PROVE (IF k - 6 + i > 0 THEN e[k - 6 + i] ELSE h[k + i]) \in Byte
    <3>1. CASE k - 6 + i > 0
      <4>1. k - 6 + i \in 1 .. Len(e)
        BY <1>1, <3>1
      <4> QED
        BY <1>1, <3>1, <4>1
    <3>2. CASE ~(k - 6 + i > 0)
      <4>1. k + i \in 1 .. 6
        BY <1>1, <3>2
      <4> QED
        BY <3>2, <4>1 DEF Header
    <3> QED
      BY <3>1, <3>2
  <2> QED
    BY <2>1 DEF Window, Header
<1>4. \A i \in 1 .. 6 : w[i] = IF k - 6 + i > 0 THEN e[k - 6 + i] ELSE h[k + i]
  BY DEF Window
<1>5. \A i \in 1 .. 6 : v[i] = IF (k + 1) - 6 + i > 0 THEN e[(k + 1) - 6 + i] ELSE h[(k + 1) + i]
  BY DEF Window
<1>6. v = [i \in 1 .. 6 |-> v[i]]
  BY DEF Window
<1> HIDE DEF w, v, e
<1> DEFINE g == Append(Tail(w), b)
<1>7. g \in Header /\ g[6] = b /\ \A i \in 1 .. 5 : g[i] = w[i + 1]
  <2> HIDE DEF b
  <2> QED
    BY <1>2, <1>3, Shift DEF Header
<1> HIDE DEF g
<1>8. ASSUME NEW i \in 1 .. 6 PROVE g[i] = v[i]
  <2>1. CASE i = 6
    <3>1. (k + 1) - 6 + 6 = k + 1 /\ k + 1 > 0
      BY <1>1
    <3> QED
      BY <1>5, <1>7, <2>1, <3>1
  <2>2. CASE i # 6
    <3>1. i \in 1 .. 5 /\ i + 1 \in 1 .. 6 /\ k - 6 + (i + 1) = (k + 1) - 6 + i /\ k + (i + 1) = (k + 1) + i
      BY <1>1, <2>2
    <3> QED
      BY <1>4, <1>5, <1>7, <3>1
  <2> QED
    BY <2>1, <2>2
<1>9. g = v
  BY <1>6, <1>7, <1>8 DEF Header
<1> QED
  BY <1>3, <1>9 DEF g, w, v, b, e

LEMMA WindowStart == ASSUME NEW h \in Header, NEW f PROVE Window(h, f, 0) = h
BY DEF Window, Header

LEMMA WindowEnds ==
  ASSUME NEW h \in Header, NEW f \in Frames
  PROVE  /\ ToMe(f) => Window(h, f, 6) = After(f)
         /\ ~ToMe(f) => Window(h, f, Len(Encode(f))) = After(f)
         /\ ~ToMe(f) => ~ForNode(Window(h, f, 6))
<1> DEFINE e == Encode(f)
           n == Len(f.data)
<1>1. n \in Nat /\ Len(e) = n + 9 /\ e[2] = f.to /\ e[3] = f.from
  BY FrameLength
<1> HIDE DEF n
<1>3. \A i \in 1 .. 6 : 6 - 6 + i > 0 /\ 6 - 6 + i = i /\ Len(e) - 6 + i > 0
  BY <1>1
<1>4. ASSUME ToMe(f) PROVE Window(h, f, 6) = After(f)
  BY <1>3, <1>4 DEF Window, After
<1>5. ASSUME ~ToMe(f) PROVE Window(h, f, Len(e)) = After(f)
  <2> HIDE DEF e
  <2> QED
    BY <1>3, <1>5 DEF Window, After, e
<1>6. ASSUME ~ToMe(f) PROVE ~ForNode(Window(h, f, 6))
  <2>1. Window(h, f, 6)[2] = e[2]
    BY DEF Window
  <2> QED
    BY <1>1, <1>6, <2>1 DEF ForNode, ForMe, ToMe
<1> QED
  BY <1>4, <1>5, <1>6

(* A byte that completes no header for the node is only remembered; the    *)
(* header found stays.                                                     *)
LEMMA Remembers ==
  ASSUME NEW r \in Reception, NEW b \in Byte, r.phase = 0, ~ForNode(Append(Tail(r.header), b))
  PROVE  Fed(r, b).phase = 0 /\ Fed(r, b).header = Append(Tail(r.header), b)
<1> DEFINE h == Append(Tail(r.header), b)
           s == [r EXCEPT !.header = h]
<1>1. Fed(r, b) = FindHeader(r, b)
  BY DEF Fed
<1>2. Fed(r, b) = s \/ Fed(r, b) = [Reset(s) EXCEPT !.sender = h[3]]
  BY <1>1, Zenon DEF FindHeader, ForNode
<1> HIDE DEF h
<1>3. s.phase = 0 /\ s.header = h
  BY DEF Reception
<1> HIDE DEF s
<1>4. [Reset(s) EXCEPT !.sender = h[3]].phase = 0 /\ [Reset(s) EXCEPT !.sender = h[3]].header = h
  BY <1>3 DEF Reset
<1> QED
  BY <1>2, <1>3, <1>4 DEF h

LEMMA KeepsHeader ==
  ASSUME NEW r \in Reception, NEW b \in Byte, r.phase # 0
  PROVE  Fed(r, b).header = r.header /\ (r.phase = 4 => Fed(r, b).phase = 0)
<1>1. CASE r.phase = 1
  <2> DEFINE s1 == [r EXCEPT !.pos = @ + 1]
             s2 == [s1 EXCEPT !.calc = (@ + b) % 256]
             s3 == [s2 EXCEPT !.phase = IF r.pos + 1 = r.len THEN 2 ELSE 1]
  <2>1. Fed(r, b) = s3
    BY <1>1 DEF Fed, StoreData
  <2>2. s1.header = r.header
    BY DEF Reception
  <2> HIDE DEF s1
  <2>3. s2.header = s1.header
    OBVIOUS
  <2> HIDE DEF s2
  <2>4. s3.header = s2.header
    OBVIOUS
  <2> HIDE DEF s3
  <2> QED
    BY <1>1, <2>1, <2>2, <2>3, <2>4
<1>2. CASE r.phase = 2
  BY <1>2 DEF Fed, ExpectEtx, Reset, Reception
<1>3. CASE r.phase = 3
  <2> DEFINE s1 == [r EXCEPT !.cs = b]
             s2 == [s1 EXCEPT !.phase = 4]
  <2>1. Fed(r, b) = s2
    BY <1>3 DEF Fed, KeepChecksum
  <2>2. s1.header = r.header
    BY DEF Reception
  <2> HIDE DEF s1
  <2>3. s2.header = s1.header
    OBVIOUS
  <2> HIDE DEF s2
  <2> QED
    BY <1>3, <2>1, <2>2, <2>3
<1>4. CASE r.phase = 4
  BY <1>4 DEF Fed, Reset, Reception
<1> QED
  BY <1>1, <1>2, <1>3, <1>4 DEF Reception

(* Plain frames are clear if those for other stations hold no SOH where a  *)
(* header could begin: as their sender or in their data.                   *)
Silent(f) == ToMe(f) \/ (f.from # SOH /\ \A i \in 1 .. Len(f.data) : f.data[i] # SOH)

LEMMA PlainIsClear == ASSUME \A f \in Frames : Plain(f) /\ Silent(f) PROVE Clear
<1> SUFFICES ASSUME NEW h \in Starts, NEW f \in Frames, NEW k \in 1 .. Len(Encode(f)),
                    ~OwnHeader(f, k), ForNode(Window(h, f, k))
             PROVE  FALSE
  BY DEF Clear
<1> DEFINE n == Len(f.data)
           e == Encode(f)
           w == Window(h, f, k)
<1>1. /\ n \in Nat /\ Len(e) = n + 9 /\ k \in 1 .. n + 9
      /\ e[1] = SOH /\ e[2] = f.to /\ e[3] = f.from /\ e[4] = ICSC_SYS_PACK /\ e[5] = n
      /\ e[6] = STX /\ e[n + 7] = ETX /\ e[n + 9] = EOT
      /\ \A i \in 1 .. n : e[i + 6] = f.data[i]
  <2>1. n \in Nat /\ Len(e) = n + 9
    BY FrameLength
  <2> QED
    BY <2>1, FrameBytes
<1>2. \A i \in 1 .. 6 : k - 6 + i > 0 => w[i] = e[k - 6 + i]
  BY DEF Window
<1>3. w[1] = SOH /\ w[6] = STX /\ w[2] \in {NodeId, Broadcast}
  BY DEF ForNode, HeaderComplete, ForMe
<1>4. f.to # STX /\ f.from # STX /\ n # STX /\ f.from \notin {NodeId, Broadcast}
  BY FramesAssumption DEF Plain, FrameType
<1> HIDE DEF w, e, n
<1>5. e[k] = STX
  BY <1>1, <1>2, <1>3
<1>6. CASE k <= 5
  <2>1. k \in {1, 2, 3, 4, 5}
    BY <1>1, <1>6
  <2> QED
    BY <1>1, <1>4, <1>5, <2>1 DEF SOH, STX, ICSC_SYS_PACK
<1>7. CASE k = 6
  <2>1. ~ToMe(f)
    BY <1>7 DEF OwnHeader
  <2> QED
    BY <1>7, <2>1, StartsAreHeaders, WindowEnds
<1>8. CASE k >= 7
  <2>1. ~ToMe(f)
    BY <1>1, <1>8 DEF OwnHeader
  <2>2. f.from # SOH /\ \A i \in 1 .. n : f.data[i] # SOH
    BY <2>1 DEF Silent, n
  <2> DEFINE j == k - 5
  <2>3. e[j] = SOH /\ e[j + 1] \in {NodeId, Broadcast} /\ j \in 2 .. n + 4 /\ k = j + 5
    <3>1. k - 6 + 1 > 0 /\ k - 6 + 2 > 0 /\ k - 6 + 1 = j /\ k - 6 + 2 = j + 1 /\ k = j + 5 /\ j \in 2 .. n + 4
      BY <1>1, <1>8
    <3>2. 1 \in 1 .. 6 /\ 2 \in 1 .. 6
      OBVIOUS
    <3> QED
      BY <1>2, <1>3, <3>1, <3>2
  <2> HIDE DEF j
  <2>4. j # 2 /\ j # 3 /\ j # 4 /\ j # 6
    BY <1>1, <1>4, <2>2, <2>3 DEF SOH, STX, ICSC_SYS_PACK
  <2>5. j # 5
    <3>1. ASSUME j = 5 PROVE FALSE
      <4>1. n = 1 /\ k = n + 9
        BY <1>1, <2>3, <3>1 DEF SOH
      <4> QED
        BY <1>1, <1>5, <4>1 DEF STX, EOT
    <3> QED
      BY <3>1
  <2>6. CASE j - 6 \in 1 .. n
    <3>1. (j - 6) + 6 = j
      BY <2>3
    <3> QED
      BY <1>1, <2>2, <2>3, <2>6, <3>1
  <2> QED
    BY <1>1, <2>3, <2>4, <2>5, <2>6
<1> QED
  BY <1>1, <1>6, <1>7, <1>8

(* Where the receiver is when it has read k bytes of frame f of a line     *)
(* that nothing disturbs.                                                  *)
Looking(r, f, k) == r.phase = 0 /\ \E h \in Starts : r.header = Window(h, f, k)
Placed(r, d, f, k) ==
  IF OwnHeader(f, k)
  THEN r.header = After(f) /\ IF k = Len(Encode(f)) THEN r.phase = 0 ELSE At(r, d, f, k)
  ELSE Looking(r, f, k)

LEMMA PlacedOver ==
  ASSUME NEW r, NEW d, NEW f, NEW k, k # 0 => f \in Frames /\ k = Len(Encode(f)), Placed(r, d, f, k)
  PROVE  r.phase = 0 /\ r.header \in Starts
<1>1. CASE k = 0
  <2>1. Looking(r, f, 0)
    BY <1>1 DEF Placed, OwnHeader
  <2> QED
    BY <2>1, StartsAreHeaders, WindowStart DEF Looking
<1>2. CASE k # 0
  <2>1. f \in Frames /\ k = Len(Encode(f)) /\ k >= 6 /\ After(f) \in Starts
    BY <1>2, FrameLength DEF Starts
  <2>2. CASE ToMe(f)
    BY <2>1, <2>2 DEF Placed, OwnHeader
  <2>3. CASE ~ToMe(f)
    <3>1. PICK h \in Starts : r.phase = 0 /\ r.header = Window(h, f, k)
      BY <2>3 DEF Placed, OwnHeader, Looking
    <3> QED
      BY <2>1, <2>3, <3>1, StartsAreHeaders, WindowEnds
  <2> QED
    BY <2>2, <2>3
<1> QED
  BY <1>1, <1>2

LEMMA LookingStep ==
  ASSUME Clear, NEW r \in Reception, NEW d \in Data, NEW f \in Frames, NEW k \in 0 .. Len(Encode(f)) - 1,
         ~OwnHeader(f, k), Looking(r, f, k)
  PROVE  LET b == Encode(f)[k + 1]
         IN  Placed(Fed(r, b), Stored(r, d, b), f, k + 1) /\ ~Announces(r, b)
<1> DEFINE e == Encode(f)
           b == e[k + 1]
<1>1. PICK h \in Starts : r.phase = 0 /\ r.header = Window(h, f, k)
  BY DEF Looking
<1>2. /\ h \in Header /\ k + 1 \in 1 .. Len(e) /\ b \in Byte /\ e[6] = STX /\ Len(e) # 6
      /\ k \in Nat
  <2>1. /\ Len(f.data) \in Nat /\ Len(e) = Len(f.data) + 9 /\ e[6] = STX
        /\ \A j \in 1 .. Len(e) : e[j] \in Byte
    BY FrameLength
  <2>2. k + 1 \in 1 .. Len(e)
    BY <2>1
  <2> HIDE DEF e
  <2> QED
    BY <2>1, <2>2, StartsAreHeaders
<1>3. Append(Tail(r.header), b) = Window(h, f, k + 1)
  BY <1>1, <1>2, WindowShift
<1>4. ~Announces(r, b) /\ Stored(r, d, b) = d
  BY <1>1 DEF Announces, Stored
<1>5. CASE ~OwnHeader(f, k + 1)
  <2>1. ~ForNode(Window(h, f, k + 1))
    BY <1>2, <1>5 DEF Clear
  <2>2. Fed(r, b).phase = 0 /\ Fed(r, b).header = Window(h, f, k + 1)
    <3> HIDE DEF b
    <3> QED
      BY <1>1, <1>2, <1>3, <2>1, Remembers
  <2> HIDE DEF b
  <2>3. Looking(Fed(r, b), f, k + 1)
    BY <2>2 DEF Looking
  <2> QED
    BY <1>4, <1>5, <2>3 DEF Placed, b
<1>6. CASE OwnHeader(f, k + 1)
  <2>1. k = 5 /\ ToMe(f)
    BY <1>2, <1>6 DEF OwnHeader
  <2>2. b = STX /\ Window(h, f, 6) = After(f)
    BY <1>2, <2>1, WindowEnds
  <2>3. Append(Tail(r.header), STX) = After(f)
    BY <1>3, <2>1, <2>2
  <2>4. \A i \in 1 .. 6 : After(f)[i] = e[i]
    BY <2>1 DEF After
  <2>5. At(Fed(r, STX), d, f, 6) /\ Fed(r, STX).header = After(f)
    BY <1>1, <2>1, <2>3, <2>4, SixthByte
  <2>6. Placed(Fed(r, STX), d, f, 6)
    <3>1. 6 # Len(Encode(f)) /\ OwnHeader(f, 6)
      <4>1. 6 >= 6
        OBVIOUS
      <4> QED
        BY <1>2, <2>1, <4>1, Zenon DEF OwnHeader
    <3> QED
      BY <2>5, <3>1, Zenon DEF Placed
  <2> HIDE DEF b
  <2> QED
    BY <1>4, <2>1, <2>2, <2>6 DEF b
<1> QED
  BY <1>5, <1>6

LEMMA FollowingStep ==
  ASSUME NEW r \in Reception, NEW d \in Data, NEW f \in Frames, NEW k \in 0 .. Len(Encode(f)) - 1,
         OwnHeader(f, k), Placed(r, d, f, k)
  PROVE  LET b == Encode(f)[k + 1]
         IN  /\ Placed(Fed(r, b), Stored(r, d, b), f, k + 1)
             /\ Announces(r, b) => k + 1 = Len(Encode(f)) /\ At(r, d, f, k)
<1> DEFINE n == Len(f.data)
           b == Encode(f)[k + 1]
<1>1. /\ n \in Nat /\ Len(Encode(f)) = n + 9 /\ k \in 6 .. n + 8 /\ b \in Byte /\ b = Encode(f)[k + 1]
  <2>1. /\ n \in Nat /\ Len(Encode(f)) = n + 9 /\ \A j \in 1 .. Len(Encode(f)) : Encode(f)[j] \in Byte
    BY FrameLength
  <2>2. k \in 6 .. n + 8 /\ k + 1 \in 1 .. Len(Encode(f))
    <3> HIDE DEF n
    <3> QED
      BY <2>1 DEF OwnHeader
  <2> QED
    BY <2>1, <2>2
<1>2. r.header = After(f) /\ At(r, d, f, k) /\ OwnHeader(f, k + 1)
  <2>1. k # Len(Encode(f)) /\ k + 1 >= 6
    BY <1>1
  <2> QED
    BY <2>1 DEF Placed, OwnHeader
<1> HIDE DEF b
<1>3. CASE k \in 6 .. n + 7
  <2>1. At(Fed(r, b), Stored(r, d, b), f, k + 1)
    <3>1. CASE k \in 6 .. n + 5
      BY <1>1, <1>2, <3>1, DataByte
    <3>2. CASE k \in n + 6 .. n + 7
      BY <1>1, <1>2, <3>2, TrailerByte
    <3>3. k \in 6 .. n + 5 \/ k \in n + 6 .. n + 7
      <4> HIDE DEF n
      <4> QED
        BY <1>1, <1>3
    <3> QED
      BY <3>1, <3>2, <3>3
  <2>2. r.phase # 0 /\ r.phase # 4
    <3> HIDE DEF n
    <3>1. CASE k \in 6 .. n + 5
      BY <1>2, <3>1 DEF At, InData, n
    <3>2. CASE k \in n + 6 .. n + 7
      <4>1. k \in n + 6 .. n + 8 /\ k - n - 4 # 0 /\ k - n - 4 # 4
        BY <1>1, <3>2
      <4>2. r.phase = k - n - 4
        BY <1>2, <4>1, Zenon DEF At, InTrailer, n
      <4> QED
        BY <4>1, <4>2
    <3> QED
      BY <1>1, <1>3, <3>1, <3>2
  <2>3. Fed(r, b).header = After(f) /\ ~Announces(r, b)
    BY <1>1, <1>2, <2>2, KeepsHeader DEF Announces
  <2>4. k + 1 # Len(Encode(f))
    <3> HIDE DEF n
    <3> QED
      BY <1>1, <1>3
  <2> QED
    BY <1>1, <1>2, <2>1, <2>3, <2>4 DEF Placed
<1>4. CASE k = n + 8
  <2>1. k + 1 = Len(Encode(f)) /\ k \in n + 6 .. n + 8 /\ k - n - 4 = 4
    <3> HIDE DEF n
    <3> QED
      BY <1>1, <1>4
  <2>2. r.phase = 4
    <3>1. r.phase = k - n - 4
      BY <1>2, <2>1, Zenon DEF At, InTrailer, n
    <3> QED
      BY <2>1, <3>1
  <2>3. Fed(r, b).header = After(f) /\ Fed(r, b).phase = 0
    BY <1>1, <1>2, <2>2, KeepsHeader
  <2> QED
    BY <1>1, <1>2, <2>1, <2>3 DEF Placed
<1> QED
  <2> HIDE DEF n
  <2> QED
    BY <1>1, <1>3, <1>4

(* The receiver keeps its place on such a line, and what it announces is   *)
(* what was sent.                                                          *)
InStep == Wire /\ Placed(rec, data, follows.of, follows.at)
Honest == packet.received /\ ~torn => Genuine

LEMMA SamePlace ==
  ASSUME NEW p, NEW q, p.of = q.of, p.at = q.at, NEW s, Stream(p, s), NEW t, Stream(EndOf(p, s), t),
         Over(EndOf(EndOf(p, s), t))
  PROVE  Stream(q, s) /\ Stream(EndOf(q, s), t) /\ Over(EndOf(EndOf(q, s), t))
<1>1. ASSUME NEW u, Stream(p, u) PROVE Stream(q, u)
  <2>1. Over(p) <=> Over(q)
    BY DEF Over
  <2>2. \A x : Succeeds(x, p) <=> Succeeds(x, q)
    BY <2>1 DEF Succeeds
  <2> QED
    BY <1>1, <2>2 DEF Stream
<1>2. CASE s = <<>>
  <2>1. EndOf(p, s) = p /\ EndOf(q, s) = q
    BY <1>2 DEF EndOf
  <2>2. Over(EndOf(q, t))
    BY <2>1 DEF EndOf, Over
  <2> QED
    BY <1>1, <2>1, <2>2
<1>3. CASE s # <<>>
  BY <1>1, <1>3 DEF EndOf
<1> QED
  BY <1>2, <1>3

LEMMA ReadInStep ==
  ASSUME Clear, IInv, Read, InStep, Honest
  PROVE  InStep' /\ Honest'
<1> DEFINE x == Head(rx)
           f == x.of
           k == x.at - 1
           b == x.byte
<1>1. /\ rec \in Reception /\ data \in Data /\ torn \in BOOLEAN /\ rx # <<>> /\ LineOK(rx)
      /\ rx \in Seq(OnWire) /\ follows.at \in Nat /\ (follows.at # 0 => follows.of \in Frames)
  BY DEF IInv, ReceiverOK, FollowInv, ProgramOK, WireOK, LineOK, Read
<1>2. x \in OnWire /\ Real(x)
  BY <1>1, OneLess
<1>3. /\ Succeeds(x, follows) /\ Stream(x, Tail(rx)) /\ EndOf(x, Tail(rx)) = EndOf(follows, rx)
  BY <1>1, StreamTail DEF InStep, Wire
<1>4. /\ rec' = Fed(rec, b) /\ data' = Stored(rec, data, b) /\ follows' = Followed(x)
      /\ packet' \in IF Announces(rec, b) THEN {[from |-> rec.sender, len |-> rec.len, received |-> TRUE]}
                     ELSE IF Overruns THEN Behind(b) ELSE {packet}
      /\ torn' = (~Announces(rec, b) /\ (torn \/ rec.phase = 1))
      /\ rx' = Tail(rx) /\ line' = line
  <2>1. data' = Stored(rec, data, b)
    BY <1>1, StoredIs DEF Read
  <2> QED
    BY <2>1 DEF Read
<1> HIDE DEF x
<1>5. x.at \in Nat /\ x.at > 0
  BY <1>1, <1>2, <1>3 DEF Succeeds, OnWire
<1>6. f \in Frames /\ k \in 0 .. Len(Encode(f)) - 1 /\ b = Encode(f)[k + 1] /\ k + 1 = x.at
  <2>1. f \in Frames /\ x.at <= Len(Encode(f)) /\ b = Encode(f)[x.at]
    BY <1>2, <1>5 DEF Real
  <2>2. Len(Encode(f)) \in Nat /\ k + 1 = x.at
    <3>1. Len(f.data) \in Nat /\ Len(Encode(f)) = Len(f.data) + 9
      BY <2>1, FrameLength
    <3> HIDE DEF f
    <3> QED
      BY <1>5, <3>1
  <2> HIDE DEF f
  <2> QED
    BY <1>5, <2>1, <2>2
<1>7. Placed(rec, data, f, k) /\ follows' = [of |-> f, at |-> x.at]
  <2>1. CASE Over(follows)
    <3>1. x.at = 1 /\ k = 0
      BY <2>1, <1>3 DEF Succeeds
    <3>2. rec.phase = 0 /\ rec.header \in Starts
      BY <1>1, <2>1, PlacedOver DEF InStep, Over
    <3>3. Window(rec.header, f, 0) = rec.header
      BY <3>2, StartsAreHeaders, WindowStart
    <3>4. Looking(rec, f, 0) /\ ~OwnHeader(f, 0)
      BY <3>2, <3>3 DEF Looking, OwnHeader
    <3>5. Placed(rec, data, f, 0)
      BY <3>4, Zenon DEF Placed
    <3> QED
      BY <1>4, <3>1, <3>2, <3>5 DEF Followed
  <2>2. CASE ~Over(follows)
    <3>1. f = follows.of /\ x.at = follows.at + 1 /\ follows.at # 0 /\ x.at > 1
      BY <1>1, <1>3, <2>2 DEF Succeeds, Over
    <3>2. k = follows.at
      BY <1>1, <3>1
    <3> HIDE DEF k
    <3> QED
      BY <1>4, <3>1, <3>2 DEF InStep, Followed
  <2> QED
    BY <2>1, <2>2
<1> HIDE DEF f, k, b
<1>8. /\ Placed(rec', data', f, k + 1)
      /\ Announces(rec, b) => k + 1 = Len(Encode(f)) /\ At(rec, data, f, k) /\ ToMe(f)
  <2>1. CASE OwnHeader(f, k)
    BY <1>1, <1>4, <1>6, <1>7, <2>1, FollowingStep DEF OwnHeader
  <2>2. CASE ~OwnHeader(f, k)
    <3>1. Looking(rec, f, k)
      BY <1>7, <2>2, Zenon DEF Placed
    <3> QED
      BY <1>1, <1>4, <1>6, <2>2, <3>1, LookingStep
  <2> QED
    BY <2>1, <2>2
<1>9. Wire'
  <2>1. follows'.of = x.of /\ follows'.at = x.at
    BY <1>7 DEF f
  <2>2. Stream(EndOf(x, Tail(rx)), line) /\ Over(EndOf(EndOf(x, Tail(rx)), line))
    BY <1>3 DEF InStep, Wire
  <2> QED
    BY <1>3, <1>4, <2>1, <2>2, SamePlace DEF Wire
<1>10. InStep'
  BY <1>6, <1>7, <1>8, <1>9 DEF InStep
<1>11. Honest'
  <2>1. CASE Announces(rec, b)
    <3>1. k = Len(f.data) + 8
      <4>1. Len(f.data) \in Nat /\ Len(Encode(f)) = Len(f.data) + 9 /\ k \in Int
        BY <1>6, FrameLength
      <4> QED
        BY <1>8, <2>1, <4>1
    <3>2. data' = data
      BY <1>4, <2>1 DEF Announces, Stored
    <3>3. packet' = [from |-> rec.sender, len |-> rec.len, received |-> TRUE]
      BY <1>4, <2>1
    <3>4. Message' = MessageOf(f)
      BY <1>1, <1>6, <1>8, <2>1, <3>1, <3>2, <3>3, AnnouncedMessage
    <3>5. packet'.len <= MaxLen
      <4>1. Len(f.data) \in Nat /\ Len(f.data) <= MaxLen
        BY <1>6, FrameBytes, BoundsAssumption DEF Byte
      <4>2. rec.len = Len(f.data)
        BY <1>8, <2>1, <3>1, <4>1 DEF At, InFrame
      <4> QED
        BY <3>3, <4>1, <4>2
    <3> QED
      BY <1>6, <1>8, <2>1, <3>4, <3>5 DEF Honest, Genuine
  <2>2. CASE ~Announces(rec, b)
    <3>1. SUFFICES ASSUME packet'.received, ~torn' PROVE Genuine'
      BY DEF Honest
    <3>2. packet' = packet /\ data' = data /\ ~torn
      BY <1>4, <2>2, <3>1 DEF Stored, Overruns
    <3> QED
      BY <3>1, <3>2 DEF Honest, Genuine, Message, Taken
  <2> QED
    BY <2>1, <2>2
<1> QED
  BY <1>10, <1>11

LEMMA LineInStep ==
  ASSUME IInv, Line, Wire, spoilt' = spoilt
  PROVE  Wire'
<1>1. rx \in Seq(OnWire) /\ line \in Seq(OnWire) /\ spoilt \in Nat
  BY BoundsAssumption DEF IInv, WireOK, LineOK
<1>2. ~Spoil
  BY <1>1 DEF Spoil
<1>3. UNCHANGED follows
  BY DEF Line, Begin, Heard, Dropped, Unheard, receiver
<1> DEFINE p == EndOf(follows, rx)
<1>4. CASE Begin
  <2>1. PICK f \in Frames : line = <<>> /\ line' = Bytes(f) /\ rx' = rx
    BY <1>4 DEF Begin
  <2>2. Over(p)
    BY <2>1 DEF Wire, EndOf
  <2>3. Stream(p, Bytes(f)) /\ Over(EndOf(p, Bytes(f)))
    BY <2>2, StreamOfFrame
  <2> QED
    BY <1>3, <2>1, <2>3 DEF Wire
<1>5. CASE Heard
  <2> DEFINE x == Head(line)
  <2>1. line # <<>> /\ rx' = Append(rx, x) /\ line' = Tail(line)
    BY <1>2, <1>5 DEF Heard
  <2>2. x \in OnWire
    BY <1>1, <2>1, HeadTailProperties
  <2>3. Succeeds(x, p) /\ Stream(x, Tail(line)) /\ EndOf(x, Tail(line)) = EndOf(p, line)
    BY <1>1, <2>1, StreamTail DEF Wire
  <2> HIDE DEF x
  <2>4. Stream(follows, Append(rx, x)) /\ EndOf(follows, Append(rx, x)) = x
    BY <1>1, <2>2, <2>3, StreamAppend DEF Wire
  <2> QED
    BY <1>3, <2>1, <2>3, <2>4 DEF Wire
<1> QED
  BY <1>2, <1>4, <1>5 DEF Line, Dropped, Unheard

(* Once the receiver is in step, it stays so until something is garbled or *)
(* passes unheard.                                                         *)
Undisturbed == /\ pc = "take" => packet.received
               /\ spoilt = 0 => InStep /\ Honest

LEMMA StaysInStep ==
  ASSUME Clear, IInv, [Next]_vars, InStep, Honest, spoilt' = spoilt
  PROVE  InStep' /\ Honest'
<1>1. CASE Read
  BY <1>1, ReadInStep
<1>2. CASE Line
  <2>1. UNCHANGED receiver
    BY <1>2 DEF Line, Begin, Heard, Dropped, Unheard
  <2>2. Wire'
    BY <1>2, LineInStep DEF InStep
  <2> QED
    BY <2>1, <2>2 DEF receiver, InStep, Honest, Genuine, Message, Taken
<1>3. CASE Poll \/ Send \/ Receive \/ transportSend \/ UNCHANGED vars
  <2>1. /\ UNCHANGED <<rec, data, follows, torn, rx, line>>
        /\ packet' = packet \/ (packet' = [packet EXCEPT !.received = FALSE])
    BY <1>3 DEF Poll, Send, Receive, transportSend, Look, Linger, Waited, Write, Written, Goto, receiver, vars
  <2>2. InStep'
    BY <2>1 DEF InStep, Wire
  <2>3. packet \in [from : Byte, len : Byte, received : BOOLEAN]
    BY DEF IInv, ReceiverOK
  <2>4. Honest'
    BY <2>1, <2>3 DEF Honest, Genuine, Message, Taken
  <2> QED
    BY <2>2, <2>4
<1> QED
  BY <1>1, <1>2, <1>3 DEF Next, Program

LEMMA UndisturbedStep ==
  ASSUME Clear, IInv, [Next]_vars, Undisturbed
  PROVE  Undisturbed'
<1>1. pc' = "take" => packet'.received
  <2>1. CASE Read
    BY <2>1 DEF Read, Polled, Reading
  <2>2. CASE Line
    BY <2>2 DEF Line, Begin, Heard, Dropped, Unheard, receiver, Undisturbed
  <2>3. CASE Poll
    BY <2>3 DEF Poll, Goto, Polled, receiver
  <2>4. CASE Send \/ Receive \/ transportSend
    BY <2>4 DEF Send, Receive, transportSend, Look, Linger, Waited, Write, Written, Goto
  <2>5. CASE UNCHANGED vars
    BY <2>5 DEF vars, Undisturbed
  <2> QED
    BY <2>1, <2>2, <2>3, <2>4, <2>5 DEF Next, Program
<1>2. ASSUME spoilt' = 0 PROVE spoilt = 0 /\ spoilt' = spoilt
  <2>1. spoilt \in Nat /\ spoilt' \in {spoilt, spoilt + 1}
    <3>1. spoilt \in Nat
      BY BoundsAssumption DEF IInv, WireOK
    <3>2. spoilt' = spoilt \/ Spoil
      BY DEF Next, Program, Read, Poll, Send, Receive, transportSend, Look, Linger, Waited, Write, Written,
             Goto, Line, Begin, Heard, Dropped, Unheard, vars
    <3> QED
      BY <3>1, <3>2 DEF Spoil
  <2> QED
    BY <1>2, <2>1
<1> QED
  BY <1>1, <1>2, StaysInStep DEF Undisturbed

LEMMA InitUndisturbed == Init => Undisturbed
<1> SUFFICES ASSUME Init PROVE Undisturbed
  OBVIOUS
<1>1. rx = <<>> /\ line = <<>> /\ follows.at = 0 /\ rec.phase = 0 /\ rec.header = Zero
      /\ pc = "idle" /\ ~packet.received
  BY DEF Init, Zero
<1>2. Wire
  BY <1>1, EmptySeq DEF Wire, Stream, EndOf, Over
<1>3. Placed(rec, data, follows.of, follows.at)
  <2>1. Zero \in Starts /\ ~OwnHeader(follows.of, follows.at)
    BY <1>1 DEF Starts, OwnHeader
  <2>2. Window(Zero, follows.of, 0) = Zero
    BY <2>1, StartsAreHeaders, WindowStart
  <2>3. Looking(rec, follows.of, follows.at)
    BY <1>1, <2>1, <2>2 DEF Looking
  <2> QED
    BY <2>1, <2>3 DEF Placed
<1> QED
  BY <1>1, <1>2, <1>3 DEF Undisturbed, InStep, Honest

(* UntornIsGenuine, until something disturbs the line, for all frames in   *)
(* which nothing looks like the header of a frame for the node: the data   *)
(* of a frame for another station are searched for headers too             *)
(* (MyTransportRS485.cpp:136-178).                                         *)
THEOREM UndisturbedCorrect == Clear => (Spec => [](spoilt = 0 => UntornIsGenuine))
<1> SUFFICES ASSUME Clear PROVE Spec => [](spoilt = 0 => UntornIsGenuine)
  OBVIOUS
<1>1. Init => Undisturbed
  BY InitUndisturbed
<1>2. Undisturbed /\ IInv /\ [Next]_vars => Undisturbed'
  BY UndisturbedStep
<1>3. Undisturbed => (spoilt = 0 => UntornIsGenuine)
  BY DEF Undisturbed, Honest, UntornIsGenuine
<1> QED
  BY <1>1, <1>2, <1>3, Invariance, PTL DEF Spec

-----------------------------------------------------------------------------
(* The checksum of what was stored, on any line.                           *)
Stretch(d, m) == [i \in 1 .. m |-> d[i - 1]]
HeaderSum(h) == <<h[2], h[3], h[4], h[5]>>

LEMMA SumOfStretch ==
  ASSUME NEW h \in Header, NEW d \in Data
  PROVE  /\ Sum(HeaderSum(h) \o Stretch(d, 0)) = (h[2] + h[3] + h[4] + h[5]) % 256
         /\ \A m \in 0 .. MaxLen - 1, x \in Byte :
              Sum(HeaderSum(h) \o Stretch([d EXCEPT ![m] = x], m + 1)) =
                (Sum(HeaderSum(h) \o Stretch(d, m)) + x) % 256
<1> DEFINE a == HeaderSum(h)
<1>1. a \in Seq(Byte) /\ Len(a) = 4 /\ h[2] \in Byte /\ h[3] \in Byte /\ h[4] \in Byte /\ h[5] \in Byte
  BY DEF HeaderSum, Header
<1>2. Sum(a) = (h[2] + h[3] + h[4] + h[5]) % 256
  BY <1>1, SumOfHeader DEF HeaderSum
<1> HIDE DEF a
<1>3. ASSUME NEW c \in Data, NEW m \in 0 .. MaxLen
      PROVE  /\ a \o Stretch(c, m) \in Seq(Byte) /\ Len(a \o Stretch(c, m)) = 4 + m
             /\ \A k \in 1 .. 4 + m : (a \o Stretch(c, m))[k] = IF k <= 4 THEN a[k] ELSE c[k - 5]
  <2> DEFINE t == Stretch(c, m)
  <2>1. m \in Nat /\ MaxLen \in Nat
    BY BoundsAssumption DEF Byte
  <2>2. \A k \in 1 .. m : k - 1 \in 0 .. MaxLen - 1
    BY <2>1
  <2>3. t \in [1 .. m -> Byte] /\ \A k \in 1 .. m : t[k] = c[k - 1]
    BY <2>2 DEF Stretch, Data
  <2>4. t \in Seq(Byte) /\ Len(t) = m
    <3>1. t \in Seq(Byte)
      BY <2>1, <2>3, SeqDef
    <3>2. DOMAIN t = 1 .. m /\ DOMAIN t = 1 .. Len(t) /\ Len(t) \in Nat
      BY <2>3, <3>1, LenProperties
    <3> QED
      BY <2>1, <3>1, <3>2
  <2> HIDE DEF t
  <2>5. /\ a \o t \in Seq(Byte) /\ Len(a \o t) = Len(a) + Len(t)
        /\ \A k \in 1 .. Len(a) + Len(t) : (a \o t)[k] = IF k <= Len(a) THEN a[k] ELSE t[k - Len(a)]
    BY <1>1, <2>4, ConcatProperties, Zenon
  <2>6. \A k \in 1 .. 4 + m : ~(k <= 4) => k - 4 \in 1 .. m /\ (k - 4) - 1 = k - 5
    BY <2>1
  <2>7. \A k \in 1 .. 4 + m : (a \o t)[k] = IF k <= 4 THEN a[k] ELSE c[k - 5]
    BY <1>1, <2>3, <2>4, <2>5, <2>6
  <2> QED
    BY <1>1, <2>4, <2>5, <2>7 DEF t
<1>4. a \o Stretch(d, 0) = a
  <2> DEFINE u == a \o Stretch(d, 0)
  <2>1. 0 \in 0 .. MaxLen
    BY BoundsAssumption DEF Byte
  <2>2. u \in Seq(Byte) /\ Len(u) = 4 + 0 /\ \A k \in 1 .. 4 + 0 : u[k] = IF k <= 4 THEN a[k] ELSE d[k - 5]
    BY <1>3, <2>1
  <2> HIDE DEF u
  <2>3. Len(u) = Len(a) /\ \A k \in 1 .. Len(u) : u[k] = a[k]
    BY <1>1, <2>2
  <2>4. u = a
    BY <1>1, <2>2, <2>3, SeqEqual
  <2> QED
    BY <2>4 DEF u
<1>5. ASSUME NEW m \in 0 .. MaxLen - 1, NEW x \in Byte
      PROVE  Sum(a \o Stretch([d EXCEPT ![m] = x], m + 1)) = (Sum(a \o Stretch(d, m)) + x) % 256
  <2> DEFINE c == [d EXCEPT ![m] = x]
             s == a \o Stretch(d, m)
             t == a \o Stretch(c, m + 1)
  <2>1. MaxLen \in Nat /\ m \in Nat /\ m \in 0 .. MaxLen /\ m + 1 \in 0 .. MaxLen
    BY BoundsAssumption DEF Byte
  <2>2. c \in Data /\ c[m] = x /\ \A j \in 0 .. MaxLen - 1 : j # m => c[j] = d[j]
    BY DEF Data
  <2> HIDE DEF c
  <2>3. /\ s \in Seq(Byte) /\ Len(s) = 4 + m
        /\ \A k \in 1 .. 4 + m : s[k] = IF k <= 4 THEN a[k] ELSE d[k - 5]
    BY <1>3, <2>1
  <2>4. /\ t \in Seq(Byte) /\ Len(t) = 4 + (m + 1)
        /\ \A k \in 1 .. 4 + (m + 1) : t[k] = IF k <= 4 THEN a[k] ELSE c[k - 5]
    BY <1>3, <2>1, <2>2
  <2> HIDE DEF s, t
  <2>5. Len(s) \in Nat /\ Len(t) = Len(s) + 1
    BY <2>1, <2>3, <2>4
  <2>6. t[Len(t)] = x
    <3>1. 4 + (m + 1) \in 1 .. 4 + (m + 1) /\ ~(4 + (m + 1) <= 4) /\ 4 + (m + 1) - 5 = m
      BY <2>1
    <3> QED
      BY <2>2, <2>4, <3>1
  <2>7. \A k \in 1 .. Len(s) : t[k] = s[k]
    <3> SUFFICES ASSUME NEW k \in 1 .. 4 + m PROVE t[k] = s[k]
      BY <2>3
    <3>1. k \in 1 .. 4 + (m + 1) /\ (~(k <= 4) => k - 5 \in 0 .. MaxLen - 1 /\ k - 5 # m)
      BY <2>1
    <3> QED
      BY <2>2, <2>3, <2>4, <3>1
  <2>8. (\A k \in 1 .. Len(s) : s[k] \in Nat) /\ t[Len(t)] \in Nat
    <3>1. \A k \in 1 .. Len(s) : s[k] \in Byte
      BY <2>3, ElementOfSeq
    <3> QED
      BY <2>6, <3>1, InByte
  <2>9. Sum(t) = (Sum(s) + t[Len(t)]) % 256
    BY <2>5, <2>7, <2>8, SumOfMore
  <2> QED
    BY <2>6, <2>9 DEF s, t, c
<1> QED
  BY <1>2, <1>4, <1>5 DEF a

(* Away from the search for a header, the header held is that of a frame   *)
(* for the node, and the checksum is that of it and of the data stored.    *)
SummedUp(r, d) ==
  LET h == r.header IN
  r.phase # 0 =>
    /\ ForNode(h) /\ r.sender = h[3] /\ r.command = h[4] /\ r.len = h[5]
    /\ IF r.phase = 1 THEN r.pos < r.len ELSE r.pos = r.len
    /\ r.len <= MaxLen => r.calc = Sum(HeaderSum(h) \o Stretch(d, r.pos))

LEMMA FoundHeaderSums ==
  ASSUME NEW r \in Reception, NEW d \in Data, NEW b \in Byte, r.phase = 0
  PROVE  SummedUp(Fed(r, b), d)
<1> DEFINE h == Append(Tail(r.header), b)
           s == [r EXCEPT !.header = h]
           x == (h[2] + h[3] + h[4] + h[5]) % 256
           p == IF h[5] = 0 THEN 2 ELSE 1
           t == [header |-> h, phase |-> p, pos |-> 0, len |-> h[5],
                 sender |-> h[3], command |-> h[4], cs |-> r.cs, calc |-> x]
<1>1. h \in Header
  BY Shift DEF Reception, Header
<1>2. CASE ~ForNode(h)
  BY <1>2, Remembers DEF SummedUp
<1>3. CASE ForNode(h)
  <2>1. Fed(r, b) = FindHeader(r, b)
    BY DEF Fed
  <2>2. Fed(r, b) = t
    BY <1>3, <2>1, Zenon DEF FindHeader, ForNode
  <2> HIDE DEF h
  <2>3. h[5] \in Byte
    BY <1>1 DEF Header
  <2>4. Sum(HeaderSum(h) \o Stretch(d, 0)) = x
    BY <1>1, SumOfStretch
  <2> HIDE DEF x
  <2>5. IF p = 1 THEN 0 < h[5] ELSE 0 = h[5]
    BY <2>3 DEF Byte
  <2> HIDE DEF p
  <2>6. /\ t.header = h /\ t.phase = p /\ t.pos = 0 /\ t.len = h[5] /\ t.sender = h[3]
        /\ t.command = h[4] /\ t.calc = x
    OBVIOUS
  <2> HIDE DEF t
  <2>7. SummedUp(t, d)
    BY <1>3, <2>4, <2>5, <2>6 DEF SummedUp
  <2> QED
    BY <2>2, <2>7 DEF h, x, p, t
<1> QED
  BY <1>2, <1>3

LEMMA NextStored ==
  ASSUME NEW x \in Byte, NEW n \in Byte, x < n
  PROVE  /\ LET p == IF x + 1 = n THEN 2 ELSE 1 IN IF p = 1 THEN x + 1 < n ELSE x + 1 = n
         /\ n <= MaxLen => x \in 0 .. MaxLen - 1
BY BoundsAssumption DEF Byte

LEMMA StoredSums ==
  ASSUME NEW r \in Reception, NEW d \in Data, NEW b \in Byte, SummedUp(r, d), r.phase = 1
  PROVE  SummedUp(Fed(r, b), Stored(r, d, b))
<1> DEFINE h == r.header
           c == (r.calc + b) % 256
           p == IF r.pos + 1 = r.len THEN 2 ELSE 1
           s1 == [r EXCEPT !.pos = @ + 1]
           s2 == [s1 EXCEPT !.calc = c]
           s3 == [s2 EXCEPT !.phase = p]
<1>1. /\ h \in Header /\ ForNode(h) /\ r.sender = h[3] /\ r.command = h[4] /\ r.len = h[5]
      /\ r.pos < r.len /\ r.pos \in Byte /\ r.len \in Byte
      /\ r.len <= MaxLen => r.calc = Sum(HeaderSum(h) \o Stretch(d, r.pos))
  BY DEF SummedUp, Reception, Header
<1>2. r.len <= MaxLen => c = Sum(HeaderSum(h) \o Stretch(Stored(r, d, b), r.pos + 1))
  <2>1. ASSUME r.len <= MaxLen PROVE r.pos \in 0 .. MaxLen - 1
    BY <1>1, <2>1, NextStored
  <2>2. ASSUME r.len <= MaxLen PROVE Stored(r, d, b) = [d EXCEPT ![r.pos] = b]
    <3>1. r.pos < MaxLen
      BY <2>1, <2>2, BoundsAssumption DEF Byte
    <3> QED
      BY <3>1 DEF Stored
  <2> HIDE DEF h
  <2> QED
    BY <1>1, <2>1, <2>2, SumOfStretch
<1>3. IF p = 1 THEN r.pos + 1 < r.len ELSE r.pos + 1 = r.len
  BY <1>1, NextStored
<1>4. Fed(r, b) = s3
  BY DEF Fed, StoreData
<1> HIDE DEF c, p
<1>5. /\ s1.pos = r.pos + 1 /\ s1.header = h /\ s1.len = r.len /\ s1.sender = r.sender
      /\ s1.command = r.command /\ DOMAIN s1 = DOMAIN r /\ "calc" \in DOMAIN r /\ "phase" \in DOMAIN r
  BY DEF Reception
<1> HIDE DEF s1
<1>6. /\ s2.pos = s1.pos /\ s2.header = s1.header /\ s2.len = s1.len /\ s2.sender = s1.sender
      /\ s2.command = s1.command /\ s2.calc = c /\ DOMAIN s2 = DOMAIN r
  BY <1>5
<1> HIDE DEF s2
<1>7. /\ s3.pos = s2.pos /\ s3.header = s2.header /\ s3.len = s2.len /\ s3.sender = s2.sender
      /\ s3.command = s2.command /\ s3.calc = s2.calc /\ s3.phase = p
  BY <1>5, <1>6
<1> HIDE DEF s3
<1>8. p = 1 \/ p = 2
  BY DEF p
<1>9. /\ s3.header = h /\ s3.phase = p /\ s3.pos = r.pos + 1 /\ s3.len = r.len
      /\ s3.sender = h[3] /\ s3.command = h[4] /\ s3.len = h[5] /\ s3.calc = c
  BY <1>1, <1>5, <1>6, <1>7
<1>10. SummedUp(s3, Stored(r, d, b))
  <2> HIDE DEF h
  <2> QED
    BY <1>1, <1>2, <1>3, <1>9 DEF SummedUp
<1> QED
  BY <1>4, <1>10

LEMMA FedSums ==
  ASSUME NEW r \in Reception, NEW d \in Data, NEW b \in Byte, SummedUp(r, d)
  PROVE  SummedUp(Fed(r, b), Stored(r, d, b))
<1>1. CASE r.phase = 0
  BY <1>1, FoundHeaderSums DEF Stored
<1>2. CASE r.phase = 1
  BY <1>2, StoredSums
<1>3. ASSUME NEW s, s = Reset(r) PROVE SummedUp(s, d)
  BY <1>3 DEF Reset, SummedUp
<1>4. CASE r.phase = 2
  <2>1. Stored(r, d, b) = d
    BY <1>4 DEF Stored
  <2>2. CASE b = ETX
    <3> DEFINE s == [r EXCEPT !.phase = 3]
    <3>1. Fed(r, b) = s
      BY <1>4, <2>2 DEF Fed, ExpectEtx
    <3>2. /\ s.phase = 3 /\ s.header = r.header /\ s.sender = r.sender /\ s.command = r.command
          /\ s.len = r.len /\ s.pos = r.pos /\ s.calc = r.calc
      BY DEF Reception
    <3> HIDE DEF s
    <3>3. SummedUp(s, d)
      BY <1>4, <3>2 DEF SummedUp
    <3> QED
      BY <2>1, <3>1, <3>3
  <2>3. CASE b # ETX
    <3>1. Fed(r, b) = Reset(r)
      BY <1>4, <2>3 DEF Fed, ExpectEtx
    <3> QED
      BY <1>3, <2>1, <3>1
  <2> QED
    BY <2>2, <2>3
<1>5. CASE r.phase = 3
  <2> DEFINE s1 == [r EXCEPT !.cs = b]
             s == [s1 EXCEPT !.phase = 4]
  <2>1. Fed(r, b) = s /\ Stored(r, d, b) = d
    BY <1>5 DEF Fed, KeepChecksum, Stored
  <2>2. /\ s1.header = r.header /\ s1.sender = r.sender /\ s1.command = r.command
        /\ s1.len = r.len /\ s1.pos = r.pos /\ s1.calc = r.calc /\ "phase" \in DOMAIN s1
    BY DEF Reception
  <2> HIDE DEF s1
  <2>3. /\ s.phase = 4 /\ s.header = r.header /\ s.sender = r.sender /\ s.command = r.command
        /\ s.len = r.len /\ s.pos = r.pos /\ s.calc = r.calc
    BY <2>2
  <2> HIDE DEF s
  <2>4. SummedUp(s, d)
    BY <1>5, <2>3 DEF SummedUp
  <2> QED
    BY <2>1, <2>4
<1>6. CASE r.phase = 4
  <2>1. Fed(r, b) = Reset(r) /\ Stored(r, d, b) = d
    BY <1>6 DEF Fed, Stored
  <2> QED
    BY <1>3, <2>1
<1> QED
  BY <1>1, <1>2, <1>4, <1>5, <1>6 DEF Reception

(* What is announced on any line has the header of a frame for the node    *)
(* and data that the checksum heard matches (line 123).                    *)
AnnouncedIsSummed ==
  [][Found /\ packet'.len <= MaxLen =>
       /\ packet'.received /\ packet'.from # NodeId
       /\ \E to \in {NodeId, Broadcast} :
            rec.cs = Sum(<<to, packet'.from, ICSC_SYS_PACK, packet'.len>> \o Taken')]_vars

LEMMA SummedStep ==
  ASSUME IInv, [Next]_vars, SummedUp(rec, data)
  PROVE  SummedUp(rec', data')
<1>1. CASE Read
  <2>1. Head(rx) \in OnWire
    BY <1>1, OneLess DEF IInv, ProgramOK, WireOK, Read
  <2>2. Head(rx).byte \in Byte /\ rec \in Reception /\ data \in Data
    BY <2>1 DEF OnWire, IInv, ReceiverOK
  <2>3. rec' = Fed(rec, Head(rx).byte) /\ data' = Stored(rec, data, Head(rx).byte)
    BY <1>1, <2>2, StoredIs DEF Read
  <2> QED
    BY <2>2, <2>3, FedSums
<1>2. CASE ~Read
  <2>1. UNCHANGED <<rec, data>>
    BY <1>2 DEF Next, Program, Poll, Send, Receive, transportSend, Look, Linger, Waited, Write, Written,
                Goto, Line, Begin, Heard, Dropped, Unheard, receiver, vars
  <2> QED
    BY <2>1
<1> QED
  BY <1>1, <1>2

LEMMA FoundIsSummed ==
  ASSUME IInv, SummedUp(rec, data), Found, packet'.len <= MaxLen
  PROVE  /\ packet'.received /\ packet'.from # NodeId
         /\ \E to \in {NodeId, Broadcast} :
              rec.cs = Sum(<<to, packet'.from, ICSC_SYS_PACK, packet'.len>> \o Taken')
<1> DEFINE h == rec.header
<1>1. rec.phase = 4 /\ rec.cs = rec.calc /\ rec.command = ICSC_SYS_PACK
  BY DEF Found, Announces
<1>2. /\ packet' = [from |-> rec.sender, len |-> rec.len, received |-> TRUE] /\ data' = data
  BY <1>1 DEF Found, Read
<1>3. packet'.from = rec.sender /\ packet'.len = rec.len /\ packet'.received
  BY <1>2
<1>4. /\ ForNode(h) /\ rec.sender = h[3] /\ rec.command = h[4] /\ rec.len = h[5] /\ rec.pos = rec.len
      /\ rec.calc = Sum(HeaderSum(h) \o Stretch(data, rec.pos))
  BY <1>1, <1>3 DEF SummedUp
<1>5. Taken' = Stretch(data, rec.len)
  BY <1>2, <1>3 DEF Taken, Stretch
<1>6. HeaderSum(h) = <<h[2], packet'.from, ICSC_SYS_PACK, packet'.len>>
  BY <1>1, <1>3, <1>4 DEF HeaderSum
<1>7. h[2] \in {NodeId, Broadcast} /\ h[3] # NodeId
  BY <1>4 DEF ForNode, ForMe
<1>8. rec.cs = Sum(<<h[2], packet'.from, ICSC_SYS_PACK, packet'.len>> \o Taken')
  BY <1>1, <1>4, <1>5, <1>6
<1> QED
  BY <1>3, <1>4, <1>7, <1>8

(* StoredInBuffer, while the length heard fits: only a length that no      *)
(* station sends writes behind _data (MyTransportRS485.cpp:149, 178-186).  *)
THEOREM FittingStored == Spec => [](rec.len <= MaxLen => StoredInBuffer)
<1>1. IInv => (rec.len <= MaxLen => StoredInBuffer)
  <2>1. SUFFICES ASSUME rec \in Reception, Counted(rec), rec.len <= MaxLen, rec.phase = 1
                 PROVE  ~(rec.pos >= MaxLen)
    BY DEF IInv, ReceiverOK, StoredInBuffer, Overruns
  <2>2. rec.pos \in Nat /\ rec.len \in Nat /\ MaxLen \in Nat /\ rec.pos < rec.len
    BY <2>1, BoundsAssumption DEF Reception, Counted, Byte
  <2> QED
    BY <2>1, <2>2
<1> QED
  BY <1>1, Invariance, PTL

(* AnnouncedIsSummed: no garbling, loss or order of calls makes the node   *)
(* announce a message that is not addressed to it or, if its length fits   *)
(* the buffer, which nothing in the code requires, one whose checksum does *)
(* not match the data stored (MyTransportRS485.cpp:123, 136-231).          *)
THEOREM ChecksumCorrect == Spec => AnnouncedIsSummed
<1>1. Init => SummedUp(rec, data)
  BY DEF Init, SummedUp
<1>2. IInv /\ SummedUp(rec, data) /\ [Next]_vars => SummedUp(rec, data)'
  BY SummedStep
<1>3. IInv /\ SummedUp(rec, data) /\ [Next]_vars =>
        [Found /\ packet'.len <= MaxLen =>
           /\ packet'.received /\ packet'.from # NodeId
           /\ \E to \in {NodeId, Broadcast} :
                rec.cs = Sum(<<to, packet'.from, ICSC_SYS_PACK, packet'.len>> \o Taken')]_vars
  BY FoundIsSummed
<1> QED
  BY <1>1, <1>2, <1>3, Invariance, PTL DEF Spec, AnnouncedIsSummed
=============================================================================
