-------------------------- MODULE BitstreamProofs --------------------------
(***************************************************************************)
(* What module Bitstream promises, for all access units that H.264 allows: *)
(* first where the units are in what Write writes, then what protocol.cpp  *)
(* finds there, then what the encoder makes of it.                         *)
(***************************************************************************)
EXTENDS Bitstream, SequenceTheorems, WellFoundedInduction, TLAPS

Octet == 0 .. 255
Delimited == {"long", "short", "mixed"}
Nals(ns) == ns \in Seq(Seq(Octet)) /\ \A k \in 1 .. Len(ns) : IsNal(ns[k])

-----------------------------------------------------------------------------
(* Lemmas about numbers and sequences.                                     *)

\* What holds of 0, and of n + 1 when it holds of n, holds of every number.
LEMMA NatSets ==
    ASSUME NEW S, 0 \in S, \A n \in Nat : n \in S => n + 1 \in S
    PROVE  Nat \subseteq S
<1> DEFINE R == {p \in Nat \X Nat : p[1] < p[2]}
           T == Nat \ S
<1> SUFFICES ASSUME T # {} PROVE FALSE
    OBVIOUS
<1>1. IsWellFoundedOn(R, Nat)
    BY NatLessThanWellFounded DEF OpToRel
<1>2. \E x \in T : \A y \in T : ~ (<<y, x>> \in R)
    <2>1. T \subseteq Nat
        OBVIOUS
    <2> HIDE DEF R, T
    <2> QED
        BY <1>1, <2>1, WFMin
<1>3. PICK x \in T : \A y \in T : ~ (<<y, x>> \in R)
    BY <1>2
<1>4. x - 1 \in T
    OBVIOUS
<1>5. <<x - 1, x>> \in R
    BY <1>4
<1> QED
    BY <1>3, <1>4, <1>5

\* Two sequences in a row, and three.
LEMMA Two ==
    ASSUME NEW T, NEW a \in Seq(T), NEW b \in Seq(T)
    PROVE  /\ a \o b \in Seq(T) /\ Len(a \o b) = Len(a) + Len(b)
           /\ \A i \in 1 .. Len(a) : (a \o b)[i] = a[i]
           /\ \A i \in 1 .. Len(b) : (a \o b)[Len(a) + i] = b[i]
OBVIOUS

LEMMA Three ==
    ASSUME NEW T, NEW a \in Seq(T), NEW b \in Seq(T), NEW c \in Seq(T)
    PROVE  /\ a \o b \o c \in Seq(T) /\ Len(a \o b \o c) = Len(a) + Len(b) + Len(c)
           /\ \A i \in 1 .. Len(a) : (a \o b \o c)[i] = a[i]
           /\ \A i \in 1 .. Len(b) : (a \o b \o c)[Len(a) + i] = b[i]
           /\ \A i \in 1 .. Len(c) : (a \o b \o c)[Len(a) + Len(b) + i] = c[i]
<1>0. a \o b \in Seq(T)
    OBVIOUS
<1>1. PICK d \in Seq(T) : d = a \o b
    BY <1>0
<1>2. /\ Len(d) = Len(a) + Len(b)
      /\ \A i \in 1 .. Len(a) : d[i] = a[i]
      /\ \A i \in 1 .. Len(b) : d[Len(a) + i] = b[i]
    BY <1>1, Two
<1>3. /\ d \o c \in Seq(T) /\ Len(d \o c) = Len(d) + Len(c)
      /\ \A i \in 1 .. Len(d) : (d \o c)[i] = d[i]
      /\ \A i \in 1 .. Len(c) : (d \o c)[Len(d) + i] = c[i]
    OBVIOUS
<1>4. Len(a) \in Nat /\ Len(b) \in Nat /\ Len(c) \in Nat
    OBVIOUS
<1>5. \A i \in 1 .. Len(a) : i \in 1 .. Len(d)
    BY <1>2, <1>4
<1>6. \A i \in 1 .. Len(b) : Len(a) + i \in 1 .. Len(d)
    BY <1>2, <1>4
<1> QED
    BY <1>1, <1>2, <1>3, <1>5, <1>6

\* Four in a row, whichever is joined first.
LEMMA Regrouped ==
    ASSUME NEW T, NEW a \in Seq(T), NEW b \in Seq(T), NEW c \in Seq(T), NEW d \in Seq(T)
    PROVE  a \o (b \o c \o d) = (a \o b \o c) \o d
OBVIOUS

\* The largest and the smallest of a set that has one.
LEMMA LargestIs ==
    ASSUME NEW S \in SUBSET Int, NEW x \in S, \A y \in S : y <= x PROVE Largest(S) = x
<1>1. Largest(S) \in S /\ \A y \in S : y <= Largest(S)
    BY DEF Largest
<1>2. x <= Largest(S) /\ Largest(S) <= x /\ x \in Int /\ Largest(S) \in Int
    BY <1>1
<1> QED
    BY <1>2

LEMMA SmallestIs ==
    ASSUME NEW S \in SUBSET Int, NEW x \in S, \A y \in S : x <= y PROVE Smallest(S) = x
<1>1. Smallest(S) \in S /\ \A y \in S : Smallest(S) <= y
    BY DEF Smallest
<1>2. x <= Smallest(S) /\ Smallest(S) <= x /\ x \in Int /\ Smallest(S) \in Int
    BY <1>1
<1> QED
    BY <1>2

\* A length in four bytes, read back.
LEMMA FourBytes ==
    ASSUME NEW n \in Nat, n \div (256 * 256 * 256) < 128
    PROVE  /\ n \div (256 * 256 * 256) \in Octet /\ (n \div (256 * 256)) % 256 \in Octet
           /\ (n \div 256) % 256 \in Octet /\ n % 256 \in Octet
           /\ (((n \div (256 * 256 * 256)) * 256 + ((n \div (256 * 256)) % 256)) * 256
                 + ((n \div 256) % 256)) * 256 + (n % 256) = n
<1>1. n \div (256 * 256 * 256) \in Octet /\ (n \div (256 * 256)) % 256 \in Octet
      /\ (n \div 256) % 256 \in Octet /\ n % 256 \in Octet
    BY DEF Octet
<1>2. (n \div 256) * 256 + (n % 256) = n
    OBVIOUS
<1>3. (n \div (256 * 256)) * 256 + ((n \div 256) % 256) = n \div 256
    OBVIOUS
<1>4. (n \div (256 * 256 * 256)) * 256 + ((n \div (256 * 256)) % 256) = n \div (256 * 256)
    OBVIOUS
<1> QED
    BY <1>1, <1>2, <1>3, <1>4

\* A unit has a byte.
LEMMA NalIs ==
    ASSUME NEW nal, IsNal(nal)
    PROVE  nal \in Seq(Octet) /\ Len(nal) \in Nat /\ Len(nal) >= 1
BY DEF IsNal, Octet

-----------------------------------------------------------------------------
(* What Write writes.                                                      *)

Size(f, k) == IF f = "short" \/ (f = "mixed" /\ k # 1) THEN 3 ELSE 4

LEMMA PrefixIs ==
    ASSUME NEW f \in Delimited \cup {"avcc"}, NEW k \in Nat, NEW nal, IsNal(nal)
    PROVE  /\ Prefix(f, k, nal) \in Seq(Octet) /\ Len(Prefix(f, k, nal)) = Size(f, k)
           /\ f # "avcc" /\ Size(f, k) = 4 => Prefix(f, k, nal) = <<0, 0, 0, 1>>
           /\ Size(f, k) = 3 => Prefix(f, k, nal) = <<0, 0, 1>>
<1>1. CASE f = "avcc"
    <2>1. Len(nal) \in Nat /\ Len(nal) \div (256 * 256 * 256) < 128
        BY DEF IsNal
    <2>2. Prefix(f, k, nal) = <<Len(nal) \div (256 * 256 * 256), (Len(nal) \div (256 * 256)) % 256,
                                (Len(nal) \div 256) % 256, Len(nal) % 256>>
        BY <1>1 DEF Prefix
    <2>3. Size(f, k) = 4
        BY <1>1 DEF Size
    <2>4. PICK u, v, w, x : /\ u = Len(nal) \div (256 * 256 * 256)
                            /\ v = (Len(nal) \div (256 * 256)) % 256
                            /\ w = (Len(nal) \div 256) % 256 /\ x = Len(nal) % 256
        OBVIOUS
    <2>5. u \in Octet /\ v \in Octet /\ w \in Octet /\ x \in Octet
        <3>1. PICK n \in Nat : n = Len(nal)
            BY <2>1
        <3>2. n \div (256 * 256 * 256) < 128
            BY <2>1, <3>1
        <3>3. /\ n \div (256 * 256 * 256) \in Octet /\ (n \div (256 * 256)) % 256 \in Octet
              /\ (n \div 256) % 256 \in Octet /\ n % 256 \in Octet
            BY <3>2, FourBytes
        <3> QED
            BY <2>4, <3>1, <3>3
    <2>6. Prefix(f, k, nal) = <<u, v, w, x>>
        BY <2>2, <2>4
    <2>7. <<u, v, w, x>> \in Seq(Octet) /\ Len(<<u, v, w, x>>) = 4
        BY <2>5
    <2>8. Prefix(f, k, nal) \in Seq(Octet) /\ Len(Prefix(f, k, nal)) = 4
        BY <2>6, <2>7
    <2>9. Size(f, k) # 3 /\ ~ (f # "avcc")
        BY <1>1, <2>3
    <2>10. Len(Prefix(f, k, nal)) = Size(f, k)
        BY <2>3, <2>8
    <2> QED
        BY <2>8, <2>9, <2>10
<1>2. CASE f = "long" \/ (f = "mixed" /\ k = 1)
    <2>1. Prefix(f, k, nal) = <<0, 0, 0, 1>> /\ Size(f, k) = 4
        BY <1>2 DEF Prefix, Zero4, Size
    <2> QED
        BY <2>1 DEF Octet
<1>3. CASE f = "short" \/ (f = "mixed" /\ k # 1)
    <2>1. Prefix(f, k, nal) = <<0, 0, 1>> /\ Size(f, k) = 3
        BY <1>3 DEF Prefix, Size
    <2> QED
        BY <2>1 DEF Octet
<1> QED
    BY <1>1, <1>2, <1>3 DEF Delimited

\* g[k] is what has been written after k units.
Grows(f, ns, g, m) ==
    /\ g \in [0 .. m -> Seq(Octet)] /\ g[0] = <<>>
    /\ \A k \in 1 .. m : g[k] = g[k - 1] \o Prefix(f, k, ns[k]) \o ns[k]

LEMMA Writes ==
    ASSUME NEW f \in Delimited \cup {"avcc"}, NEW ns, Nals(ns)
    PROVE  \E g : Grows(f, ns, g, Len(ns)) /\ Write(f, ns) = g[Len(ns)]
<1> DEFINE S == {m \in Nat : m <= Len(ns) => \E g : Grows(f, ns, g, m)}
<1>0. Len(ns) \in Nat
    BY DEF Nals
<1>1. 0 \in S
    <2> DEFINE g == [k \in 0 .. 0 |-> <<>>]
    <2>1. Grows(f, ns, g, 0)
        BY DEF Grows
    <2> QED
        BY <2>1
<1>2. ASSUME NEW m \in Nat, m \in S PROVE m + 1 \in S
    <2> SUFFICES ASSUME m + 1 <= Len(ns) PROVE \E g : Grows(f, ns, g, m + 1)
        OBVIOUS
    <2>1. PICK g : Grows(f, ns, g, m)
        BY <1>0, <1>2
    <2> DEFINE new == g[m] \o Prefix(f, m + 1, ns[m + 1]) \o ns[m + 1]
               h == [k \in 0 .. m + 1 |-> IF k <= m THEN g[k] ELSE new]
    <2>2. new \in Seq(Octet)
        <3>1. m + 1 \in 1 .. Len(ns) /\ m + 1 \in Nat
            BY <1>0
        <3>2. g[m] \in Seq(Octet) /\ ns[m + 1] \in Seq(Octet) /\ IsNal(ns[m + 1])
            BY <2>1, <3>1 DEF Grows, Nals
        <3>3. Prefix(f, m + 1, ns[m + 1]) \in Seq(Octet)
            BY <3>1, <3>2, PrefixIs
        <3> QED
            BY <3>2, <3>3, Three
    <2>3. h \in [0 .. m + 1 -> Seq(Octet)]
        BY <2>1, <2>2 DEF Grows
    <2>4. h[0] = <<>>
        BY <2>1 DEF Grows
    <2>5. ASSUME NEW k \in 1 .. m + 1
          PROVE  h[k] = h[k - 1] \o Prefix(f, k, ns[k]) \o ns[k]
        <3>1. k - 1 \in 0 .. m + 1 /\ k - 1 <= m /\ k \in 0 .. m + 1
            OBVIOUS
        <3>2. h[k - 1] = g[k - 1]
            BY <3>1
        <3>3. CASE k <= m
            <4>1. h[k] = g[k] /\ k \in 1 .. m
                BY <3>1, <3>3
            <4> QED
                BY <2>1, <3>2, <4>1 DEF Grows
        <3>4. CASE k = m + 1
            <4>1. ~ (k <= m) /\ k - 1 = m
                BY <3>4
            <4>2. h[k] = new
                BY <3>1, <4>1
            <4>3. new = g[k - 1] \o Prefix(f, k, ns[k]) \o ns[k]
                BY <3>4, <4>1
            <4> QED
                BY <3>2, <4>2, <4>3
        <3>5. k <= m \/ k = m + 1
            OBVIOUS
        <3> QED
            BY <3>3, <3>4, <3>5
    <2>6. Grows(f, ns, h, m + 1)
        BY <2>3, <2>4, <2>5 DEF Grows
    <2> QED
        BY <2>6
<1>3. Nat \subseteq S
    <2> HIDE DEF S
    <2> QED
        BY <1>1, <1>2, NatSets
<1>4. PICK g : Grows(f, ns, g, Len(ns))
    BY <1>0, <1>3
<1> DEFINE D(b) == [k \in 0 .. Len(ns) |->
                       IF k = 0 THEN <<>> ELSE b[k - 1] \o Prefix(f, k, ns[k]) \o ns[k]]
<1>5. ASSUME NEW b
      PROVE  /\ D(b) = [k \in 0 .. Len(ns) |-> D(b)[k]]
             /\ D(b)[0] = <<>>
             /\ \A k \in 1 .. Len(ns) : D(b)[k] = b[k - 1] \o Prefix(f, k, ns[k]) \o ns[k]
    <2>1. 0 \in 0 .. Len(ns)
        BY <1>0
    <2>2. \A k \in 1 .. Len(ns) : k \in 0 .. Len(ns) /\ k # 0
        BY <1>0
    <2> QED
        BY <2>1, <2>2
<1>6. PICK c : c = (CHOOSE b : b = D(b)) /\ Write(f, ns) = c[Len(ns)]
    BY DEF Write
<1> HIDE DEF D
<1>7. \A k \in 1 .. Len(ns) : k \in 0 .. Len(ns) /\ k - 1 \in 0 .. Len(ns)
    BY <1>0
<1>8. g = D(g)
    <2>1. g = [k \in 0 .. Len(ns) |-> g[k]]
        BY <1>4 DEF Grows
    <2>2. ASSUME NEW k \in 0 .. Len(ns) PROVE g[k] = D(g)[k]
        <3>1. k = 0 \/ k \in 1 .. Len(ns)
            BY <1>0
        <3> QED
            BY <1>4, <1>5, <3>1 DEF Grows
    <2> QED
        BY <1>5, <2>1, <2>2
<1>9. c = D(c)
    BY <1>6, <1>8
<1>10. \A k \in 0 .. Len(ns) : c[k] = g[k]
    <2> DEFINE E == {m \in Nat : m <= Len(ns) => c[m] = g[m]}
    <2>1. 0 \in E
        BY <1>0, <1>5, <1>8, <1>9
    <2>2. ASSUME NEW m \in Nat, m \in E PROVE m + 1 \in E
        <3> SUFFICES ASSUME m + 1 <= Len(ns) PROVE c[m + 1] = g[m + 1]
            OBVIOUS
        <3>1. m + 1 \in 1 .. Len(ns) /\ (m + 1) - 1 = m /\ m <= Len(ns)
            BY <1>0
        <3>2. /\ D(c)[m + 1] = c[m] \o Prefix(f, m + 1, ns[m + 1]) \o ns[m + 1]
              /\ D(g)[m + 1] = g[m] \o Prefix(f, m + 1, ns[m + 1]) \o ns[m + 1]
            BY <1>5, <3>1
        <3>3. c[m] = g[m]
            BY <2>2, <3>1
        <3> QED
            BY <1>8, <1>9, <3>2, <3>3
    <2>3. Nat \subseteq E
        <3> HIDE DEF E
        <3> QED
            BY <2>1, <2>2, NatSets
    <2> QED
        BY <1>0, <2>3
<1>11. c = g
    BY <1>5, <1>8, <1>9, <1>10, ZenonT(40)
<1> QED
    BY <1>4, <1>6, <1>11

\* One unit further: what was there, the delimiter, the unit.
LEMMA OneFurther ==
    ASSUME NEW f \in Delimited \cup {"avcc"}, NEW ns, Nals(ns), NEW g,
           Grows(f, ns, g, Len(ns)), NEW k \in 1 .. Len(ns)
    PROVE  /\ g[k] \in Seq(Octet) /\ g[k - 1] \in Seq(Octet) /\ ns[k] \in Seq(Octet)
           /\ Size(f, k) \in 3 .. 4 /\ Len(ns[k]) >= 1
           /\ Len(g[k]) = Len(g[k - 1]) + Size(f, k) + Len(ns[k])
           /\ \A i \in 1 .. Len(g[k - 1]) : g[k][i] = g[k - 1][i]
           /\ \A i \in 1 .. Size(f, k) : g[k][Len(g[k - 1]) + i] = Prefix(f, k, ns[k])[i]
           /\ \A i \in 1 .. Len(ns[k]) : g[k][Len(g[k - 1]) + Size(f, k) + i] = ns[k][i]
<1>1. k \in Nat /\ k \in 0 .. Len(ns) /\ k - 1 \in 0 .. Len(ns)
    BY DEF Nals
<1>2. ns[k] \in Seq(Octet) /\ IsNal(ns[k]) /\ Len(ns[k]) >= 1
    <2>1. IsNal(ns[k])
        BY DEF Nals
    <2> QED
        BY <2>1, NalIs
<1>3. g[k] \in Seq(Octet) /\ g[k - 1] \in Seq(Octet)
    BY <1>1 DEF Grows
<1>4. Prefix(f, k, ns[k]) \in Seq(Octet) /\ Len(Prefix(f, k, ns[k])) = Size(f, k)
    BY <1>1, <1>2, PrefixIs
<1>5. g[k] = g[k - 1] \o Prefix(f, k, ns[k]) \o ns[k]
    BY DEF Grows
<1>6. Size(f, k) \in 3 .. 4
    BY DEF Size
<1>7. PICK a \in Seq(Octet), b \in Seq(Octet), c \in Seq(Octet) :
           a = g[k - 1] /\ b = Prefix(f, k, ns[k]) /\ c = ns[k]
    BY <1>2, <1>3, <1>4
<1>8. /\ Len(a \o b \o c) = Len(a) + Len(b) + Len(c)
      /\ \A i \in 1 .. Len(a) : (a \o b \o c)[i] = a[i]
      /\ \A i \in 1 .. Len(b) : (a \o b \o c)[Len(a) + i] = b[i]
      /\ \A i \in 1 .. Len(c) : (a \o b \o c)[Len(a) + Len(b) + i] = c[i]
    BY Three
<1>9. g[k] = a \o b \o c /\ Len(b) = Size(f, k)
    BY <1>4, <1>5, <1>7
<1> QED
    BY <1>2, <1>3, <1>6, <1>7, <1>8, <1>9

\* e[k] bytes have been written after k units of ns; w holds them all.
Laid(f, ns, w, e) ==
    /\ w \in Seq(Octet) /\ e \in [0 .. Len(ns) -> Nat] /\ e[0] = 0 /\ e[Len(ns)] = Len(w)
    /\ \A k \in 1 .. Len(ns) :
          /\ e[k] = e[k - 1] + Size(f, k) + Len(ns[k]) /\ e[k] <= Len(w)
          /\ \A i \in 1 .. Size(f, k) : w[e[k - 1] + i] = Prefix(f, k, ns[k])[i]
          /\ \A i \in 1 .. Len(ns[k]) : w[e[k - 1] + Size(f, k) + i] = ns[k][i]

\* Writing on leaves what has been written.
LEMMA Stays ==
    ASSUME NEW f \in Delimited \cup {"avcc"}, NEW ns, Nals(ns), NEW g,
           Grows(f, ns, g, Len(ns)), NEW k \in 0 .. Len(ns)
    PROVE  /\ g[k] \in Seq(Octet) /\ g[Len(ns)] \in Seq(Octet) /\ Len(g[k]) <= Len(g[Len(ns)])
           /\ \A i \in 1 .. Len(g[k]) : g[Len(ns)][i] = g[k][i]
<1> DEFINE S == {d \in Nat : k + d <= Len(ns) =>
                     /\ Len(g[k]) <= Len(g[k + d])
                     /\ \A i \in 1 .. Len(g[k]) : g[k + d][i] = g[k][i]}
<1>0. Len(ns) \in Nat /\ k \in Nat
    BY DEF Nals
<1>1. \A j \in 0 .. Len(ns) : g[j] \in Seq(Octet) /\ Len(g[j]) \in Nat
    BY DEF Grows
<1>2. 0 \in S
    <2>1. k + 0 = k
        BY <1>0
    <2> QED
        BY <1>1, <2>1
<1>3. ASSUME NEW d \in Nat, d \in S PROVE d + 1 \in S
    <2> SUFFICES ASSUME k + (d + 1) <= Len(ns)
                 PROVE  /\ Len(g[k]) <= Len(g[k + (d + 1)])
                        /\ \A i \in 1 .. Len(g[k]) : g[k + (d + 1)][i] = g[k][i]
        OBVIOUS
    <2>1. k + d <= Len(ns) /\ k + d \in 0 .. Len(ns)
        BY <1>0
    <2>2. /\ Len(g[k]) <= Len(g[k + d])
          /\ \A i \in 1 .. Len(g[k]) : g[k + d][i] = g[k][i]
        BY <1>3, <2>1
    <2>3. PICK j \in 1 .. Len(ns) : j = k + (d + 1) /\ j - 1 = k + d
        BY <1>0
    <2> HIDE DEF S
    <2>4. /\ Len(g[j]) = Len(g[j - 1]) + Size(f, j) + Len(ns[j])
          /\ Size(f, j) \in 3 .. 4 /\ Len(ns[j]) >= 1 /\ Len(ns[j]) \in Nat
          /\ \A i \in 1 .. Len(g[j - 1]) : g[j][i] = g[j - 1][i]
        <3>1. Len(ns[j]) \in Nat
            BY NalIs DEF Nals
        <3>2. /\ Len(g[j]) = Len(g[j - 1]) + Size(f, j) + Len(ns[j])
              /\ Size(f, j) \in 3 .. 4 /\ Len(ns[j]) >= 1
              /\ \A i \in 1 .. Len(g[j - 1]) : g[j][i] = g[j - 1][i]
            BY OneFurther
        <3> QED
            BY <3>1, <3>2
    <2>5. Len(g[k]) <= Len(g[j - 1]) /\ Len(g[k]) \in Nat /\ Len(g[j - 1]) \in Nat
        BY <1>1, <2>1, <2>2, <2>3
    <2>6. Len(g[k]) <= Len(g[j])
        BY <2>4, <2>5, SMTT(20)
    <2>7. ASSUME NEW i \in 1 .. Len(g[k]) PROVE g[j][i] = g[k][i]
        <3>1. i \in 1 .. Len(g[j - 1])
            BY <2>5
        <3>2. g[k + d][i] = g[k][i]
            BY <2>2
        <3> QED
            BY <2>3, <2>4, <3>1, <3>2
    <2> QED
        BY <2>3, <2>6, <2>7
<1>4. Nat \subseteq S
    <2> HIDE DEF S
    <2> QED
        BY <1>2, <1>3, NatSets
<1>5. PICK d \in Nat : k + d = Len(ns)
    BY <1>0
<1>6. d \in S /\ k + d <= Len(ns)
    BY <1>0, <1>4, <1>5
<1>7. Len(ns) \in 0 .. Len(ns)
    BY <1>0
<1> QED
    BY <1>1, <1>5, <1>6, <1>7

LEMMA Layout ==
    ASSUME NEW f \in Delimited \cup {"avcc"}, NEW ns, Nals(ns)
    PROVE  \E e : Laid(f, ns, Write(f, ns), e)
<1>1. PICK g : Grows(f, ns, g, Len(ns)) /\ Write(f, ns) = g[Len(ns)]
    BY Writes
<1>2. PICK n \in Nat : n = Len(ns)
    BY DEF Nals
<1>3. \A k \in 0 .. n : /\ g[k] \in Seq(Octet) /\ Len(g[k]) \in Nat
                        /\ Len(g[k]) <= Len(g[n]) /\ \A i \in 1 .. Len(g[k]) : g[n][i] = g[k][i]
    <2>1. \A k \in 0 .. n : /\ g[k] \in Seq(Octet)
                            /\ Len(g[k]) <= Len(g[n]) /\ \A i \in 1 .. Len(g[k]) : g[n][i] = g[k][i]
        BY <1>1, <1>2, Stays
    <2> QED
        BY <2>1
<1> DEFINE e == [k \in 0 .. n |-> Len(g[k])]
<1>4. \A k \in 0 .. n : e[k] = Len(g[k])
    OBVIOUS
<1>5. e \in [0 .. n -> Nat]
    BY <1>3
<1> HIDE DEF e
<1>6. 0 \in 0 .. n /\ n \in 0 .. n
    OBVIOUS
<1>7. g[0] = <<>>
    BY <1>1 DEF Grows
<1>8. e[0] = 0 /\ e[n] = Len(g[n]) /\ g[n] \in Seq(Octet)
    BY <1>3, <1>4, <1>6, <1>7
<1>9. ASSUME NEW k \in 1 .. n
      PROVE  /\ e[k] = e[k - 1] + Size(f, k) + Len(ns[k]) /\ e[k] <= Len(g[n])
             /\ \A i \in 1 .. Size(f, k) : g[n][e[k - 1] + i] = Prefix(f, k, ns[k])[i]
             /\ \A i \in 1 .. Len(ns[k]) : g[n][e[k - 1] + Size(f, k) + i] = ns[k][i]
    <2>1. k \in 0 .. n /\ k - 1 \in 0 .. n
        OBVIOUS
    <2>2. /\ ns[k] \in Seq(Octet) /\ Size(f, k) \in 3 .. 4
          /\ Len(g[k]) = Len(g[k - 1]) + Size(f, k) + Len(ns[k])
          /\ \A i \in 1 .. Size(f, k) : g[k][Len(g[k - 1]) + i] = Prefix(f, k, ns[k])[i]
          /\ \A i \in 1 .. Len(ns[k]) : g[k][Len(g[k - 1]) + Size(f, k) + i] = ns[k][i]
        <3>1. k \in 1 .. Len(ns)
            BY <1>2
        <3> QED
            <4>1. f \in Delimited \cup {"avcc"} /\ Nals(ns) /\ Grows(f, ns, g, Len(ns))
                BY <1>1
            <4>2. ns[k] \in Seq(Octet) /\ Size(f, k) \in 3 .. 4
                BY <3>1, <4>1, OneFurther
            <4>3. Len(g[k]) = Len(g[k - 1]) + Size(f, k) + Len(ns[k])
                BY <3>1, <4>1, OneFurther
            <4>4. \A i \in 1 .. Size(f, k) : g[k][Len(g[k - 1]) + i] = Prefix(f, k, ns[k])[i]
                BY <3>1, <4>1, OneFurther
            <4>5. \A i \in 1 .. Len(ns[k]) : g[k][Len(g[k - 1]) + Size(f, k) + i] = ns[k][i]
                BY <3>1, <4>1, OneFurther
            <4> QED
                BY <4>2, <4>3, <4>4, <4>5
    <2>3. e[k] = Len(g[k]) /\ e[k - 1] = Len(g[k - 1]) /\ Len(g[k]) \in Nat
          /\ Len(g[k - 1]) \in Nat /\ Len(ns[k]) \in Nat /\ Len(g[k]) <= Len(g[n])
        BY <1>3, <1>4, <2>1, <2>2
    <2>4. \A i \in 1 .. Len(g[k]) : g[n][i] = g[k][i]
        BY <1>3, <2>1
    <2>5. ASSUME NEW i \in 1 .. Size(f, k)
          PROVE  g[n][e[k - 1] + i] = Prefix(f, k, ns[k])[i]
        <3>1. e[k - 1] + i \in 1 .. Len(g[k])
            BY <2>2, <2>3, SMTT(20)
        <3> QED
            BY <2>2, <2>3, <2>4, <3>1
    <2>6. ASSUME NEW i \in 1 .. Len(ns[k])
          PROVE  g[n][e[k - 1] + Size(f, k) + i] = ns[k][i]
        <3>1. e[k - 1] + Size(f, k) + i \in 1 .. Len(g[k])
            <4>1. PICK a \in Nat, s \in Nat, l \in Nat :
                       a = e[k - 1] /\ s = Size(f, k) /\ l = Len(ns[k])
                BY <2>2, <2>3
            <4>2. a + s + i \in 1 .. a + s + l
                BY <4>1
            <4>3. Len(g[k]) = a + s + l
                BY <2>2, <2>3, <4>1
            <4> QED
                BY <4>1, <4>2, <4>3
        <3> QED
            BY <2>2, <2>3, <2>4, <3>1
    <2> QED
        BY <2>2, <2>3, <2>5, <2>6
<1>10. Laid(f, ns, g[n], e)
    BY <1>2, <1>5, <1>8, <1>9 DEF Laid
<1> QED
    BY <1>1, <1>2, <1>10

\* Block k: a delimiter of zeros and a one, then the unit.
LEMMA Block ==
    ASSUME NEW f \in Delimited \cup {"avcc"}, NEW ns, Nals(ns), NEW w, NEW e,
           Laid(f, ns, w, e), NEW k \in 1 .. Len(ns)
    PROVE  /\ Len(ns) \in Nat /\ Len(w) \in Nat /\ Len(ns[k]) \in Nat /\ Len(ns[k]) >= 1
           /\ e[k - 1] \in Nat /\ e[k] \in Nat /\ Size(f, k) \in {3, 4}
           /\ e[k] = e[k - 1] + Size(f, k) + Len(ns[k]) /\ e[k] <= Len(w)
           /\ \A i \in 1 .. Len(ns[k]) : w[e[k - 1] + Size(f, k) + i] = ns[k][i]
           /\ f # "avcc" => /\ \A i \in 1 .. Size(f, k) - 1 : w[e[k - 1] + i] = 0
                            /\ w[e[k - 1] + Size(f, k)] = 1
<1>1. Len(ns) \in Nat /\ k \in Nat /\ k \in 0 .. Len(ns) /\ k - 1 \in 0 .. Len(ns)
    BY DEF Nals
<1>2. IsNal(ns[k])
    BY DEF Nals
<1>3. Len(ns[k]) \in Nat /\ Len(ns[k]) >= 1
    BY <1>2, NalIs
<1>4. e[k - 1] \in Nat /\ e[k] \in Nat /\ Len(w) \in Nat
    BY <1>1 DEF Laid
<1>5. /\ e[k] = e[k - 1] + Size(f, k) + Len(ns[k]) /\ e[k] <= Len(w)
      /\ \A i \in 1 .. Size(f, k) : w[e[k - 1] + i] = Prefix(f, k, ns[k])[i]
      /\ \A i \in 1 .. Len(ns[k]) : w[e[k - 1] + Size(f, k) + i] = ns[k][i]
    BY DEF Laid
<1>6. Size(f, k) \in {3, 4}
    BY DEF Size
<1>7. ASSUME f # "avcc"
      PROVE  /\ \A i \in 1 .. Size(f, k) - 1 : w[e[k - 1] + i] = 0
             /\ w[e[k - 1] + Size(f, k)] = 1
    <2>1. CASE Size(f, k) = 3
        <3>1. Prefix(f, k, ns[k]) = <<0, 0, 1>>
            BY <1>1, <1>2, <2>1, PrefixIs
        <3> QED
            BY <1>5, <2>1, <3>1
    <2>2. CASE Size(f, k) = 4
        <3>1. Prefix(f, k, ns[k]) = <<0, 0, 0, 1>>
            BY <1>1, <1>2, <1>7, <2>2, PrefixIs
        <3> QED
            BY <1>5, <2>2, <3>1
    <2> QED
        BY <1>6, <2>1, <2>2
<1> QED
    BY <1>1, <1>3, <1>4, <1>5, <1>6, <1>7

\* Later blocks lie behind earlier ones.
LEMMA Ordered ==
    ASSUME NEW f \in Delimited \cup {"avcc"}, NEW ns, Nals(ns), NEW w, NEW e,
           Laid(f, ns, w, e), NEW j \in 0 .. Len(ns), NEW k \in 0 .. Len(ns), j <= k
    PROVE  e[j] <= e[k] /\ e[j] \in Nat /\ e[k] \in Nat
<1> DEFINE S == {d \in Nat : j + d <= Len(ns) => e[j] <= e[j + d]}
<1>0. Len(ns) \in Nat /\ j \in Nat /\ k \in Nat
    BY DEF Nals
<1>1. e[j] \in Nat /\ e[k] \in Nat
    BY DEF Laid
<1>2. 0 \in S
    <2>1. j + 0 = j
        BY <1>0
    <2> QED
        BY <1>1, <2>1
<1>3. ASSUME NEW d \in Nat, d \in S PROVE d + 1 \in S
    <2> SUFFICES ASSUME j + (d + 1) <= Len(ns) PROVE e[j] <= e[j + (d + 1)]
        OBVIOUS
    <2>1. PICK m \in 1 .. Len(ns) : m = j + (d + 1) /\ m - 1 = j + d
        BY <1>0
    <2>2. e[j] <= e[m - 1]
        BY <1>0, <1>3, <2>1
    <2> HIDE DEF S
    <2>3. /\ e[m - 1] \in Nat /\ e[m] \in Nat /\ Size(f, m) \in {3, 4} /\ Len(ns[m]) \in Nat
          /\ e[m] = e[m - 1] + Size(f, m) + Len(ns[m])
        BY Block
    <2>4. e[j] <= e[m]
        BY <1>1, <2>2, <2>3, SMTT(20)
    <2> QED
        BY <2>1, <2>4
<1>4. Nat \subseteq S
    <2> HIDE DEF S
    <2> QED
        BY <1>2, <1>3, NatSets
<1>5. PICK d \in Nat : k = j + d
    BY <1>0
<1> QED
    BY <1>1, <1>4, <1>5

\* Every byte lies in a block.
LEMMA Located ==
    ASSUME NEW f \in Delimited \cup {"avcc"}, NEW ns, Nals(ns), NEW w, NEW e,
           Laid(f, ns, w, e), NEW p \in 1 .. Len(w)
    PROVE  \E k \in 1 .. Len(ns) : e[k - 1] < p /\ p <= e[k]
<1> DEFINE S == {m \in Nat : m <= Len(ns) /\ p <= e[m] =>
                     \E k \in 1 .. Len(ns) : e[k - 1] < p /\ p <= e[k]}
<1>0. Len(ns) \in Nat /\ p \in Nat /\ p > 0 /\ e[Len(ns)] = Len(w) /\ Len(w) \in Nat /\ e[0] = 0
    BY DEF Nals, Laid
<1>1. \A m \in 0 .. Len(ns) : e[m] \in Nat
    BY DEF Laid
<1>2. 0 \in S
    BY <1>0
<1>3. ASSUME NEW m \in Nat, m \in S PROVE m + 1 \in S
    <2> SUFFICES ASSUME m + 1 <= Len(ns), p <= e[m + 1]
                 PROVE  \E k \in 1 .. Len(ns) : e[k - 1] < p /\ p <= e[k]
        OBVIOUS
    <2>1. m + 1 \in 1 .. Len(ns) /\ (m + 1) - 1 = m /\ m \in 0 .. Len(ns) /\ m <= Len(ns)
        BY <1>0
    <2>2. e[m] \in Nat
        BY <1>1, <2>1
    <2>3. CASE p <= e[m]
        BY <1>3, <2>1, <2>3
    <2>4. CASE e[m] < p
        BY <2>1, <2>4
    <2> QED
        BY <1>0, <2>2, <2>3, <2>4
<1>4. Nat \subseteq S
    <2> HIDE DEF S
    <2> QED
        BY <1>2, <1>3, NatSets
<1>5. Len(ns) \in S /\ Len(ns) <= Len(ns) /\ p <= e[Len(ns)]
    BY <1>0, <1>4
<1> QED
    BY <1>5

-----------------------------------------------------------------------------
(* What is found there: protocol.cpp on units with start codes.            *)

\* Where FindStartCode finds the start code of unit k.
At(f, e, k) == e[k - 1] + Size(f, k) - 2

\* Where byte i + 2 is: in front of byte t of a block, at it, or behind it.
LEMMA FiveCases ==
    ASSUME NEW i \in Nat, NEW t \in Nat, NEW n \in Nat, i + 2 <= t + n
    PROVE  \/ i + 2 < t \/ i + 2 = t \/ i + 2 = t + 1 \/ i + 2 = t + 2
           \/ \E j \in 1 .. n - 2 : i = t + j /\ i + 1 = t + (j + 1) /\ i + 2 = t + (j + 2)
<1>1. CASE i + 2 > t + 2
    <2>1. i - t \in 1 .. n - 2
        BY <1>1
    <2>2. i = t + (i - t) /\ i + 1 = t + ((i - t) + 1) /\ i + 2 = t + ((i - t) + 2)
        OBVIOUS
    <2> QED
        BY <2>1, <2>2
<1>2. i + 2 < t \/ i + 2 = t \/ i + 2 = t + 1 \/ i + 2 = t + 2 \/ i + 2 > t + 2
    OBVIOUS
<1> QED
    BY <1>1, <1>2

\* A start code and a unit that end within l bytes.
LEMMA StartFits ==
    ASSUME NEW p \in Nat, NEW s \in 3 .. 4, NEW n \in Nat, NEW l \in Nat, n >= 1, p + s + n <= l
    PROVE  p + s - 2 \in 1 .. l - 2
OBVIOUS

LEMMA StartCodesAre ==
    ASSUME NEW f \in Delimited, NEW ns, Nals(ns), NEW w, NEW e, Laid(f, ns, w, e)
    PROVE  StartCodes(w) = {At(f, e, k) : k \in 1 .. Len(ns)}
<1>0. f \in Delimited \cup {"avcc"} /\ f # "avcc"
    BY DEF Delimited
<1>1. ASSUME NEW k \in 1 .. Len(ns) PROVE At(f, e, k) \in StartCodes(w)
    <2>1. /\ Len(w) \in Nat /\ Len(ns[k]) \in Nat /\ Len(ns[k]) >= 1
          /\ e[k - 1] \in Nat /\ e[k] \in Nat /\ Size(f, k) \in {3, 4}
          /\ e[k] = e[k - 1] + Size(f, k) + Len(ns[k]) /\ e[k] <= Len(w)
          /\ \A i \in 1 .. Size(f, k) - 1 : w[e[k - 1] + i] = 0
          /\ w[e[k - 1] + Size(f, k)] = 1
        BY <1>0, Block
    <2>2. PICK p \in Nat, s \in 3 .. 4 : p = e[k - 1] /\ s = Size(f, k)
        BY <2>1
    <2>3. p + s - 2 \in 1 .. Len(w) - 2
        <3>1. PICK l \in Nat, n \in Nat : l = Len(w) /\ n = Len(ns[k])
            BY <2>1
        <3>2. n >= 1 /\ p + s + n <= l
            BY <2>1, <2>2, <3>1
        <3>3. p + s - 2 \in 1 .. l - 2
            BY <3>2, StartFits
        <3> QED
            BY <3>1, <3>3
    <2>4. w[p + (s - 2)] = 0 /\ w[p + (s - 1)] = 0 /\ w[p + s] = 1
        <3>1. s - 2 \in 1 .. s - 1 /\ s - 1 \in 1 .. s - 1
            BY <2>2
        <3>2. (\A j \in 1 .. s - 1 : w[p + j] = 0) /\ w[p + s] = 1
            BY <2>1, <2>2
        <3> QED
            BY <3>1, <3>2
    <2>5. p + (s - 2) = p + s - 2 /\ p + (s - 1) = (p + s - 2) + 1 /\ p + s = (p + s - 2) + 2
        BY <2>2
    <2> QED
        BY <2>2, <2>3, <2>4, <2>5 DEF StartCodes, At
<1>2. ASSUME NEW i \in StartCodes(w) PROVE \E k \in 1 .. Len(ns) : i = At(f, e, k)
    <2>1. /\ Len(w) \in Nat /\ i \in Nat /\ i >= 1 /\ i + 2 \in 1 .. Len(w)
          /\ w[i] = 0 /\ w[i + 1] = 0 /\ w[i + 2] = 1
        BY DEF StartCodes, Laid
    <2>2. PICK k \in 1 .. Len(ns) : e[k - 1] < i + 2 /\ i + 2 <= e[k]
        BY <1>0, <2>1, Located
    <2>3. /\ Len(ns[k]) \in Nat /\ Len(ns[k]) >= 1
          /\ e[k - 1] \in Nat /\ e[k] \in Nat /\ Size(f, k) \in {3, 4}
          /\ e[k] = e[k - 1] + Size(f, k) + Len(ns[k])
          /\ \A j \in 1 .. Len(ns[k]) : w[e[k - 1] + Size(f, k) + j] = ns[k][j]
          /\ \A j \in 1 .. Size(f, k) - 1 : w[e[k - 1] + j] = 0
          /\ w[e[k - 1] + Size(f, k)] = 1
        BY <1>0, Block
    <2>4. PICK p \in Nat, s \in 3 .. 4, n \in Nat :
               p = e[k - 1] /\ s = Size(f, k) /\ n = Len(ns[k])
        BY <2>3
    <2>5. p < i + 2 /\ i + 2 <= p + s + n
        BY <2>2, <2>3, <2>4
    <2>6. i \in Nat
        BY <2>1
    <2>7. CASE i + 2 < p + s
        <3>1. (i + 2) - p \in 1 .. s - 1 /\ p + ((i + 2) - p) = i + 2
            <4>1. PICK x \in Nat : x = i + 2
                BY <2>6
            <4>2. p < x /\ x < p + s
                BY <2>5, <2>7, <4>1
            <4>3. x - p \in 1 .. s - 1 /\ p + (x - p) = x
                BY <4>2
            <4> QED
                BY <4>1, <4>3
        <3>2. PICK j \in 1 .. s - 1 : j = (i + 2) - p
            BY <3>1
        <3>3. w[p + j] = 0
            BY <2>3, <2>4
        <3> QED
            BY <2>1, <3>1, <3>2, <3>3
    <2>8. CASE i + 2 = p + s
        <3>1. i = p + s - 2
            <4>1. PICK x \in Nat : x = i
                BY <2>6
            <4>2. x + 2 = p + s
                BY <2>8, <4>1
            <4>3. x = p + s - 2
                BY <4>2
            <4> QED
                BY <4>1, <4>3
        <3> QED
            BY <2>4, <3>1 DEF At
    <2>9. CASE i + 2 = p + s + 1
        <3>1. i + 1 = p + s
            BY <2>6, <2>9
        <3> QED
            BY <2>1, <2>3, <2>4, <3>1
    <2>10. CASE i + 2 = p + s + 2
        <3>1. i = p + s
            BY <2>1, <2>4, <2>10, SMTT(20)
        <3> QED
            BY <2>1, <2>3, <2>4, <3>1, SMTT(20)
    <2>11. ASSUME \E j \in 1 .. n - 2 : /\ i = p + s + j /\ i + 1 = p + s + (j + 1)
                                       /\ i + 2 = p + s + (j + 2)
           PROVE  FALSE
        <3>1. PICK j \in 1 .. n - 2 : i = p + s + j /\ i + 1 = p + s + (j + 1)
                                      /\ i + 2 = p + s + (j + 2)
            BY <2>11
        <3>2. j \in 1 .. n /\ j + 1 \in 1 .. n /\ j + 2 \in 1 .. n
            BY <2>4
        <3>3. \A m \in 1 .. n : w[p + s + m] = ns[k][m]
            BY <2>3, <2>4
        <3>4. /\ w[p + s + j] = ns[k][j] /\ w[p + s + (j + 1)] = ns[k][j + 1]
              /\ w[p + s + (j + 2)] = ns[k][j + 2]
            BY <3>2, <3>3
        <3>5. ns[k][j] = 0 /\ ns[k][j + 1] = 0 /\ ns[k][j + 2] = 1
            BY <2>1, <3>1, <3>4
        <3> QED
            BY <2>4, <3>5, ZenonT(40) DEF Nals, IsNal
    <2>12. PICK t \in Nat : t = p + s
        BY <2>4
    <2>13. \/ i + 2 < t \/ i + 2 = t \/ i + 2 = t + 1 \/ i + 2 = t + 2
           \/ \E j \in 1 .. n - 2 : i = t + j /\ i + 1 = t + (j + 1) /\ i + 2 = t + (j + 2)
        BY <2>5, <2>6, <2>12, FiveCases
    <2> QED
        BY <2>7, <2>8, <2>9, <2>10, <2>11, <2>12, <2>13
<1> QED
    BY <1>1, <1>2

\* Start codes come in the order of the units.
LEMMA AtOrdered ==
    ASSUME NEW f \in Delimited, NEW ns, Nals(ns), NEW w, NEW e, Laid(f, ns, w, e),
           NEW j \in 1 .. Len(ns), NEW k \in 1 .. Len(ns), j < k
    PROVE  At(f, e, j) + 3 <= At(f, e, k)
<1>1. f \in Delimited \cup {"avcc"}
    BY DEF Delimited
<1>2. /\ e[j - 1] \in Nat /\ e[j] \in Nat /\ Size(f, j) \in {3, 4} /\ Len(ns[j]) \in Nat
      /\ Len(ns[j]) >= 1 /\ e[j] = e[j - 1] + Size(f, j) + Len(ns[j])
    BY <1>1, Block
<1>3. e[k - 1] \in Nat /\ Size(f, k) \in {3, 4}
    BY <1>1, Block
<1>4. j \in 0 .. Len(ns) /\ k - 1 \in 0 .. Len(ns) /\ j <= k - 1
    BY DEF Nals
<1>5. e[j] <= e[k - 1]
    BY <1>1, <1>4, Ordered
<1>6. PICK a \in Nat, s \in 3 .. 4, n \in Nat, b \in Nat, t \in 3 .. 4 :
          /\ a = e[j - 1] /\ s = Size(f, j) /\ n = Len(ns[j])
          /\ b = e[k - 1] /\ t = Size(f, k)
    BY <1>2, <1>3, SMTT(20)
<1>7. a + s + n <= b /\ n >= 1
    BY <1>2, <1>5, <1>6
<1>8. (a + s - 2) + 3 <= b + t - 2
    <2>1. PICK x \in Nat : x = a + s
        BY <1>6
    <2>2. x + n <= b /\ n >= 1 /\ t >= 3
        BY <1>6, <1>7, <2>1, SMTT(20)
    <2>3. (x - 2) + 3 <= b + t - 2
        BY <2>2
    <2> QED
        BY <2>1, <2>3
<1> QED
    BY <1>6, <1>8 DEF At

\* A set of numbers with a bound has a largest one.
LEMMA HasLargest ==
    ASSUME NEW n \in Nat, NEW S \in SUBSET (0 .. n), S # {}
    PROVE  \E x \in S : \A y \in S : y <= x
<1> DEFINE U == {m \in Nat : \A V \in SUBSET (0 .. m) :
                                V # {} => \E x \in V : \A y \in V : y <= x}
<1>1. 0 \in U
    <2> SUFFICES ASSUME NEW V \in SUBSET (0 .. 0), V # {} PROVE \E x \in V : \A y \in V : y <= x
        OBVIOUS
    <2>1. \A y \in V : y = 0
        OBVIOUS
    <2>2. 0 \in V
        BY <2>1
    <2> QED
        BY <2>1, <2>2
<1>2. ASSUME NEW m \in Nat, m \in U PROVE m + 1 \in U
    <2> SUFFICES ASSUME NEW V \in SUBSET (0 .. m + 1), V # {}
                 PROVE  \E x \in V : \A y \in V : y <= x
        OBVIOUS
    <2>1. CASE m + 1 \in V
        <3>1. \A y \in V : y <= m + 1
            OBVIOUS
        <3> QED
            BY <2>1, <3>1
    <2>2. CASE m + 1 \notin V
        <3>1. V \in SUBSET (0 .. m)
            <4>1. \A y \in 0 .. m + 1 : y # m + 1 => y \in 0 .. m
                OBVIOUS
            <4> QED
                BY <2>2, <4>1
        <3> QED
            BY <1>2, <3>1
    <2> QED
        BY <2>1, <2>2
<1>3. Nat \subseteq U
    <2> HIDE DEF U
    <2> QED
        BY <1>1, <1>2, NatSets
<1> QED
    BY <1>3

\* A sequence found inside another is what SubSeq cuts out there.
LEMMA CutOut ==
    ASSUME NEW T, NEW w \in Seq(T), NEW b \in Seq(T), NEW c \in Nat, c + Len(b) <= Len(w),
           \A i \in 1 .. Len(b) : w[c + i] = b[i]
    PROVE  SubSeq(w, c + 1, c + Len(b)) = b
<1>1. Len(b) \in Nat
    OBVIOUS
<1>2. PICK d : d = SubSeq(w, c + 1, c + Len(b))
    OBVIOUS
<1>3. d \in Seq(T) /\ Len(d) = Len(b) /\ \A i \in 1 .. Len(b) : d[i] = w[c + i]
    BY <1>1, <1>2
<1>4. \A i \in 1 .. Len(b) : d[i] = b[i]
    BY <1>3
<1> QED
    BY <1>2, <1>3, <1>4, SeqEqual

LEMMA NalAt ==
    ASSUME NEW f \in Delimited, NEW ns, Nals(ns), NEW w, NEW e, Laid(f, ns, w, e),
           NEW k \in 1 .. Len(ns)
    PROVE  /\ Nal(w, At(f, e, k)) = ns[k] /\ At(f, e, k) + 3 <= Len(w)
           /\ w[At(f, e, k) + 3] = ns[k][1] /\ At(f, e, k) \in Nat
<1>0. f \in Delimited \cup {"avcc"} /\ f # "avcc"
    BY DEF Delimited
<1>1. /\ Len(ns) \in Nat /\ Len(w) \in Nat /\ Len(ns[k]) \in Nat /\ Len(ns[k]) >= 1
      /\ e[k - 1] \in Nat /\ e[k] \in Nat /\ Size(f, k) \in {3, 4}
      /\ e[k] = e[k - 1] + Size(f, k) + Len(ns[k]) /\ e[k] <= Len(w)
      /\ \A i \in 1 .. Len(ns[k]) : w[e[k - 1] + Size(f, k) + i] = ns[k][i]
    BY <1>0, Block
<1>2. PICK t \in Nat, n \in Nat, l \in Nat :
          t = e[k - 1] + Size(f, k) /\ n = Len(ns[k]) /\ l = Len(w)
    BY <1>1
<1>3. t >= 2 /\ n >= 1 /\ e[k] = t + n /\ t + n <= l
    BY <1>1, <1>2
<1>4. PICK i \in Nat : i = At(f, e, k) /\ i + 2 = t /\ i + 3 = t + 1 /\ t = i + 2
    <2>1. t - 2 \in Nat /\ (t - 2) + 2 = t /\ (t - 2) + 3 = t + 1
        BY <1>3
    <2>2. t - 2 = At(f, e, k)
        BY <1>1, <1>2 DEF At
    <2> QED
        BY <2>1, <2>2
<1>5. \A j \in 1 .. n : w[t + j] = ns[k][j]
    BY <1>1, <1>2
<1>6. w[t + 1] = ns[k][1] /\ w[t + n] # 0
    <2>1. 1 \in 1 .. n /\ n \in 1 .. n
        BY <1>3
    <2>2. ns[k][n] # 0
        BY <1>2 DEF Nals, IsNal
    <2> QED
        BY <1>5, <2>1, <2>2
<1> DEFINE next == FindStartCode(w, i + 3)
           limit == IF next = 0 THEN Len(w) ELSE next - 1
           Q == {i + 2} \cup {j \in i + 3 .. limit : w[j] # 0}
           S == {j \in StartCodes(w) : i + 3 <= j}
<1>7. S = {At(f, e, j) : j \in {j \in 1 .. Len(ns) : i + 3 <= At(f, e, j)}}
    BY StartCodesAre
<1>8. limit \in Nat /\ t + n <= limit /\ limit <= t + n + 1
      /\ (limit = t + n + 1 => w[t + n + 1] = 0)
    <2>1. CASE k = Len(ns)
        <3>1. S = {}
            <4> SUFFICES ASSUME NEW j \in 1 .. Len(ns), i + 3 <= At(f, e, j) PROVE FALSE
                BY <1>7
            <4>1. j = k \/ j < k
                BY <1>1, <2>1
            <4>2. j # k
                BY <1>4
            <4>3. At(f, e, j) + 3 <= At(f, e, k)
                BY <4>1, <4>2, AtOrdered
            <4>4. e[j - 1] \in Nat /\ Size(f, j) \in {3, 4}
                BY <1>0, Block
            <4>5. At(f, e, j) \in Nat
                BY <4>4 DEF At
            <4> QED
                BY <1>4, <4>3, <4>5
        <3>2. next = 0
            BY <3>1 DEF FindStartCode
        <3>3. e[k] = Len(w)
            BY <2>1 DEF Laid
        <3> QED
            BY <1>2, <1>3, <3>2, <3>3
    <2>2. CASE k < Len(ns)
        <3>1. k + 1 \in 1 .. Len(ns) /\ k < k + 1 /\ (k + 1) - 1 = k
            BY <1>1, <2>2
        <3>2. PICK m \in 1 .. Len(ns) : m = k + 1 /\ k < m /\ m - 1 = k
            BY <3>1
        <3>3. /\ Size(f, m) \in {3, 4} /\ \A j \in 1 .. Size(f, m) - 1 : w[e[m - 1] + j] = 0
            BY <1>0, Block
        <3>4. PICK s \in 3 .. 4 : s = Size(f, m)
            BY <3>3
        <3>5. At(f, e, m) = t + n + s - 2
            BY <1>3, <3>2, <3>4 DEF At
        <3>6. PICK x \in Nat : x = At(f, e, m) /\ x = t + n + s - 2
            <4>1. t + n + s - 2 \in Nat
                BY <3>4
            <4> QED
                BY <3>5, <4>1
        <3>7. i + 3 <= x /\ x # 0
            <4>1. s >= 3 /\ n >= 1 /\ i + 3 = t + 1
                BY <1>3, <1>4, <3>4, SMTT(20)
            <4>2. t + 1 <= t + n + s - 2
                BY <4>1
            <4> QED
                BY <3>6, <4>1, <4>2
        <3>8. x \in S
            BY <1>7, <3>6, <3>7
        <3>9. ASSUME NEW y \in S PROVE x <= y
            <4>1. PICK j \in 1 .. Len(ns) : y = At(f, e, j) /\ i + 3 <= y
                BY <1>7
            <4>2. e[j - 1] \in Nat /\ Size(f, j) \in {3, 4}
                BY <1>0, Block
            <4>3. y \in Nat
                BY <4>1, <4>2 DEF At
            <4>4. j # k
                BY <1>4, <4>1
            <4>5. ~ (j < k)
                <5> SUFFICES ASSUME j < k PROVE FALSE
                    OBVIOUS
                <5>1. At(f, e, j) + 3 <= At(f, e, k)
                    BY AtOrdered
                <5> QED
                    BY <1>4, <4>1, <4>3, <5>1
            <4>6. j = m \/ m < j
                BY <1>1, <3>2, <4>4, <4>5
            <4>7. ASSUME m < j PROVE x + 3 <= y
                BY <3>6, <4>1, <4>7, AtOrdered
            <4>8. CASE j = m
                <5>1. y = x
                    BY <3>6, <4>1, <4>8
                <5> QED
                    BY <5>1
            <4>9. CASE m < j
                BY <4>3, <4>7, <4>9
            <4> QED
                BY <4>6, <4>8, <4>9
        <3>10. next = x
            <4>1. S \in SUBSET Int
                BY DEF StartCodes, Laid
            <4> HIDE DEF S
            <4>2. Smallest(S) = x
                BY <3>8, <3>9, <4>1, SmallestIs
            <4>3. next = IF S = {} THEN 0 ELSE Smallest(S)
                BY DEF FindStartCode, S
            <4> QED
                BY <3>8, <4>2, <4>3
        <3>11. limit = t + n + s - 3
            BY <3>6, <3>7, <3>10
        <3>12. s = 4 => w[t + n + 1] = 0
            <4>1. 1 \in 1 .. s - 1
                OBVIOUS
            <4> QED
                BY <1>3, <3>2, <3>3, <3>4, <4>1
        <3> HIDE DEF limit
        <3> QED
            BY <3>4, <3>11, <3>12
    <2> QED
        BY <1>1, <2>1, <2>2
<1> HIDE DEF next, limit
<1>9. Largest(Q) = t + n
    <2>1. Q \in SUBSET Int
        BY <1>8
    <2>2. t + n \in Q
        <3>1. t + n \in i + 3 .. limit
            BY <1>3, <1>4, <1>8, SMTT(20)
        <3> QED
            BY <1>6, <3>1
    <2>3. ASSUME NEW y \in Q PROVE y <= t + n
        <3>1. CASE y = i + 2
            BY <1>4, <3>1
        <3>2. CASE y \in i + 3 .. limit /\ w[y] # 0
            <4>1. y \in Int /\ y <= limit
                BY <1>4, <1>8, <3>2
            <4> QED
                BY <1>8, <3>2, <4>1
        <3> QED
            BY <3>1, <3>2
    <2> HIDE DEF Q
    <2> QED
        BY <2>1, <2>2, <2>3, LargestIs
<1>10. Nal(w, i) = SubSeq(w, i + 3, Largest(Q))
    BY DEF Nal, next, limit
<1>11. Nal(w, i) = SubSeq(w, t + 1, t + n)
    <2> HIDE DEF Q
    <2> QED
        BY <1>4, <1>9, <1>10
<1>12. SubSeq(w, t + 1, t + n) = ns[k]
    <2>1. w \in Seq(Octet) /\ ns[k] \in Seq(Octet)
        BY DEF Laid, Nals
    <2> QED
        BY <1>2, <1>3, <1>5, <2>1, CutOut
<1>13. i + 3 <= Len(w)
    BY <1>2, <1>3, <1>4
<1> QED
    BY <1>4, <1>6, <1>11, <1>12, <1>13

\* The units of type t are found, each at its start code.
LEMMA NalsOfAre ==
    ASSUME NEW f \in Delimited, NEW ns, Nals(ns), NEW w, NEW e, Laid(f, ns, w, e), NEW t
    PROVE  NalsOf(w, t) = {At(f, e, k) : k \in {k \in 1 .. Len(ns) : TypeOf(ns[k]) = t}}
<1>1. \A k \in 1 .. Len(ns) : At(f, e, k) + 3 <= Len(w) /\ w[At(f, e, k) + 3] = ns[k][1]
    BY NalAt
<1>2. \A k \in 1 .. Len(ns) : TypeOf(ns[k]) = ns[k][1] % 32
    BY DEF TypeOf
<1>3. StartCodes(w) = {At(f, e, k) : k \in 1 .. Len(ns)}
    BY StartCodesAre
<1>4. ASSUME NEW i \in NalsOf(w, t)
      PROVE  i \in {At(f, e, k) : k \in {k \in 1 .. Len(ns) : TypeOf(ns[k]) = t}}
    <2>1. i \in StartCodes(w) /\ w[i + 3] % 32 = t
        BY DEF NalsOf
    <2>2. PICK k \in 1 .. Len(ns) : i = At(f, e, k)
        BY <1>3, <2>1
    <2>3. TypeOf(ns[k]) = t
        BY <1>1, <1>2, <2>1, <2>2
    <2> QED
        BY <2>2, <2>3
<1>5. ASSUME NEW k \in 1 .. Len(ns), TypeOf(ns[k]) = t PROVE At(f, e, k) \in NalsOf(w, t)
    <2>1. At(f, e, k) \in StartCodes(w)
        BY <1>3
    <2>2. At(f, e, k) + 3 <= Len(w) /\ w[At(f, e, k) + 3] % 32 = t
        BY <1>1, <1>2, <1>5
    <2> QED
        BY <2>1, <2>2 DEF NalsOf
<1> QED
    BY <1>4, <1>5

\* A type occurs exactly when it is found.
LEMMA FoundIffThere ==
    ASSUME NEW f \in Delimited, NEW ns, Nals(ns), NEW w, NEW e, Laid(f, ns, w, e), NEW t
    PROVE  NalsOf(w, t) # {} <=> Has(ns, t)
<1>1. NalsOf(w, t) = {At(f, e, k) : k \in {k \in 1 .. Len(ns) : TypeOf(ns[k]) = t}}
    BY NalsOfAre
<1>2. DOMAIN ns = 1 .. Len(ns)
    BY DEF Nals
<1>3. Has(ns, t) <=> \E k \in 1 .. Len(ns) : TypeOf(ns[k]) = t
    BY <1>2 DEF Has
<1> QED
    BY <1>1, <1>3

\* The newest unit of a type is the last one.
LEMMA NewerIs ==
    ASSUME NEW ns, Nals(ns), NEW t, Has(ns, t)
    PROVE  \E k \in 1 .. Len(ns) :
               /\ TypeOf(ns[k]) = t /\ \A before : Newer(ns, t, before) = ns[k]
               /\ \A j \in 1 .. Len(ns) : TypeOf(ns[j]) = t => j <= k
<1>1. DOMAIN ns = 1 .. Len(ns) /\ Len(ns) \in Nat
    BY DEF Nals
<1>2. PICK V \in SUBSET (0 .. Len(ns)) : V = {k \in DOMAIN ns : TypeOf(ns[k]) = t}
    <2>1. {k \in DOMAIN ns : TypeOf(ns[k]) = t} \in SUBSET (0 .. Len(ns))
        BY <1>1
    <2> QED
        BY <2>1
<1>3. V # {}
    BY <1>2 DEF Has
<1>4. PICK k \in V : \A j \in V : j <= k
    BY <1>1, <1>3, HasLargest
<1>5. Largest(V) = k
    <2>1. V \in SUBSET Int
        OBVIOUS
    <2> QED
        BY <1>4, <2>1, LargestIs
<1>6. \A before : Newer(ns, t, before) = ns[k]
    BY <1>2, <1>5 DEF Newer
<1> QED
    BY <1>1, <1>2, <1>4, <1>6

\* What the encoder caches is the newest unit of the type.
LEMMA CachedIs ==
    ASSUME NEW f \in Delimited, NEW ns, Nals(ns), NEW t, NEW before
    PROVE  /\ ~ Has(ns, t) => Cached(Write(f, ns), t, before) = before
           /\ Has(ns, t) => \A known : Cached(Write(f, ns), t, before)
                                           = Zero4 \o Newer(ns, t, known)
<1>0. f \in Delimited \cup {"avcc"}
    BY DEF Delimited
<1>1. PICK w, e : w = Write(f, ns) /\ Laid(f, ns, w, e)
    BY <1>0, Layout
<1>2. NalsOf(w, t) # {} <=> Has(ns, t)
    BY <1>1, FoundIffThere
<1>3. CASE ~ Has(ns, t)
    BY <1>1, <1>2, <1>3 DEF Cached
<1>4. CASE Has(ns, t)
    <2>1. PICK k \in 1 .. Len(ns) :
               /\ TypeOf(ns[k]) = t /\ \A b : Newer(ns, t, b) = ns[k]
               /\ \A j \in 1 .. Len(ns) : TypeOf(ns[j]) = t => j <= k
        BY <1>4, NewerIs
    <2>2. \A j \in 1 .. Len(ns) : At(f, e, j) \in Nat
        BY <1>1, NalAt
    <2>3. ASSUME NEW j \in 1 .. Len(ns), TypeOf(ns[j]) = t PROVE At(f, e, j) <= At(f, e, k)
        <3>1. j <= k /\ j \in Nat /\ k \in Nat
            BY <2>1, <2>3
        <3>2. CASE j = k
            <4>1. At(f, e, j) = At(f, e, k) /\ At(f, e, k) \in Nat
                BY <2>2, <3>2
            <4> QED
                BY <4>1
        <3>3. CASE j < k
            <4>1. At(f, e, j) + 3 <= At(f, e, k)
                BY <1>1, <3>3, AtOrdered
            <4>2. At(f, e, j) \in Nat /\ At(f, e, k) \in Nat
                BY <2>2
            <4> QED
                BY <4>1, <4>2
        <3> QED
            BY <3>1, <3>2, <3>3
    <2>4. NalsOf(w, t) = {At(f, e, j) : j \in {j \in 1 .. Len(ns) : TypeOf(ns[j]) = t}}
        BY <1>1, NalsOfAre
    <2>5. Largest(NalsOf(w, t)) = At(f, e, k)
        <3>1. PICK V \in SUBSET Int : V = NalsOf(w, t)
            <4>1. NalsOf(w, t) \in SUBSET Int
                BY <2>2, <2>4
            <4> QED
                BY <4>1
        <3>2. At(f, e, k) \in V /\ \A y \in V : y <= At(f, e, k)
            BY <2>1, <2>3, <2>4, <3>1
        <3>3. Largest(V) = At(f, e, k)
            BY <3>2, LargestIs
        <3> QED
            BY <3>1, <3>3
    <2>6. Nal(w, At(f, e, k)) = ns[k]
        BY <1>1, NalAt
    <2>7. Cached(w, t, before) = Zero4 \o ns[k]
        BY <1>2, <1>4, <2>5, <2>6 DEF Cached
    <2> QED
        BY <1>1, <1>4, <2>1, <2>7
<1> QED
    BY <1>3, <1>4

\* What has a unit is seen to be Annex-B, and to hold one.
LEMMA LooksRight ==
    ASSUME NEW f \in Delimited, NEW ns, Nals(ns), ns # <<>>
    PROVE  LooksLikeAnnexB(Write(f, ns)) /\ Valid(Write(f, ns))
<1>0. f \in Delimited \cup {"avcc"} /\ f # "avcc"
    BY DEF Delimited
<1>1. PICK w, e : w = Write(f, ns) /\ Laid(f, ns, w, e)
    BY <1>0, Layout
<1>2. 1 \in 1 .. Len(ns)
    BY DEF Nals
<1>3. Valid(w)
    BY <1>1, <1>2, NalAt, StartCodesAre DEF Valid
<1>4. /\ Len(w) \in Nat /\ Len(ns[1]) \in Nat /\ Size(f, 1) \in {3, 4}
      /\ e[1] = e[0] + Size(f, 1) + Len(ns[1]) /\ e[1] <= Len(w)
      /\ \A i \in 1 .. Size(f, 1) - 1 : w[e[0] + i] = 0
      /\ w[e[0] + Size(f, 1)] = 1
    <2>1. 1 - 1 = 0
        OBVIOUS
    <2> QED
        BY <1>0, <1>1, <1>2, <2>1, Block
<1>5. e[0] = 0 /\ w \in Seq(Octet)
    BY <1>1 DEF Laid
<1>6. CASE Size(f, 1) = 3
    <2>1. Len(w) >= 3 /\ w[1] = 0 /\ w[2] = 0 /\ w[3] = 1
        BY <1>4, <1>5, <1>6
    <2>2. PICK c \in Seq(Octet) : c = <<0, 0, 1>>
        <3>1. <<0, 0, 1>> \in Seq(Octet)
            BY DEF Octet
        <3> QED
            BY <3>1
    <2>3. Len(c) = 3 /\ c[1] = 0 /\ c[2] = 0 /\ c[3] = 1
        BY <2>2
    <2>4. \A i \in 1 .. Len(c) : w[0 + i] = c[i]
        BY <2>1, <2>3
    <2>5. 0 + Len(c) <= Len(w)
        BY <2>1, <2>3
    <2>6. SubSeq(w, 0 + 1, 0 + Len(c)) = c
        BY <1>5, <2>4, <2>5, CutOut
    <2>7. SubSeq(w, 1, 3) = <<0, 0, 1>>
        BY <2>2, <2>3, <2>6
    <2> QED
        BY <1>1, <1>3, <2>7 DEF LooksLikeAnnexB
<1>7. CASE Size(f, 1) = 4
    <2>1. Len(w) >= 4 /\ w[1] = 0 /\ w[2] = 0 /\ w[3] = 0 /\ w[4] = 1
        BY <1>4, <1>5, <1>7
    <2>2. PICK c \in Seq(Octet) : c = <<0, 0, 0, 1>>
        <3>1. <<0, 0, 0, 1>> \in Seq(Octet)
            BY DEF Octet
        <3> QED
            BY <3>1
    <2>3. Len(c) = 4 /\ c[1] = 0 /\ c[2] = 0 /\ c[3] = 0 /\ c[4] = 1
        BY <2>2
    <2>4. \A i \in 1 .. Len(c) : w[0 + i] = c[i]
        BY <2>1, <2>3
    <2>5. 0 + Len(c) <= Len(w)
        BY <2>1, <2>3
    <2>6. SubSeq(w, 0 + 1, 0 + Len(c)) = c
        BY <1>5, <2>4, <2>5, CutOut
    <2>7. SubSeq(w, 1, 4) = <<0, 0, 0, 1>>
        BY <2>2, <2>3, <2>6
    <2> QED
        BY <1>1, <1>3, <2>7 DEF LooksLikeAnnexB, Zero4
<1> QED
    BY <1>4, <1>6, <1>7

\* Units with lengths are seen to be Annex-B only for what their first
\* length is.
LEMMA LooksWrong ==
    ASSUME NEW ns, Nals(ns), ns # <<>>, LooksLikeAnnexB(Write("avcc", ns))
    PROVE  LikeStartCode(ns)
<1>1. PICK w, e : w = Write("avcc", ns) /\ Laid("avcc", ns, w, e)
    BY Layout
<1>2. 1 \in 1 .. Len(ns) /\ IsNal(ns[1])
    BY DEF Nals
<1>3. PICK n \in Nat : n = Len(ns[1]) /\ n \div (256 * 256 * 256) < 128
    <2>1. Len(ns[1]) \in Nat /\ Len(ns[1]) \div (256 * 256 * 256) < 128
        BY <1>2, NalIs DEF IsNal
    <2> QED
        BY <2>1
<1>4. Size("avcc", 1) = 4
    BY DEF Size
<1>5. w \in Seq(Octet) /\ Len(w) \in Nat /\ Len(w) >= 4
    <2>1. /\ w \in Seq(Octet) /\ e \in [0 .. Len(ns) -> Nat] /\ e[0] = 0
          /\ e[1] = e[1 - 1] + Size("avcc", 1) + Len(ns[1]) /\ e[1] <= Len(w)
        BY <1>1, <1>2 DEF Laid
    <2> QED
        BY <1>3, <1>4, <2>1
<1>6. \A i \in 1 .. 4 : w[i] = Prefix("avcc", 1, ns[1])[i]
    <2>1. \A i \in 1 .. 4 : w[e[1 - 1] + i] = Prefix("avcc", 1, ns[1])[i]
        BY <1>1, <1>2, <1>4 DEF Laid
    <2>2. e[1 - 1] = 0
        BY <1>1 DEF Laid
    <2> QED
        BY <2>1, <2>2
<1>7. Prefix("avcc", 1, ns[1]) = <<n \div (256 * 256 * 256), (n \div (256 * 256)) % 256,
                                   (n \div 256) % 256, n % 256>>
    BY <1>3, ZenonT(40) DEF Prefix
<1>8. /\ w[1] = n \div (256 * 256 * 256) /\ w[2] = (n \div (256 * 256)) % 256
      /\ w[3] = (n \div 256) % 256 /\ w[4] = n % 256
    BY <1>6, <1>7
<1>9. ((w[1] * 256 + w[2]) * 256 + w[3]) * 256 + w[4] = n /\ w[4] \in Octet
    <2>1. /\ n % 256 \in Octet
          /\ (((n \div (256 * 256 * 256)) * 256 + ((n \div (256 * 256)) % 256)) * 256
                + ((n \div 256) % 256)) * 256 + (n % 256) = n
        <3>1. n \in Nat /\ n \div (256 * 256 * 256) < 128
            BY <1>3
        <3> QED
            BY <3>1, FourBytes, ZenonT(40)
    <2> QED
        BY <1>8, <2>1
<1>10. SubSeq(w, 1, 4) = Zero4 \/ SubSeq(w, 1, 3) = <<0, 0, 1>>
    BY <1>1 DEF LooksLikeAnnexB
<1>11. CASE SubSeq(w, 1, 4) = Zero4
    <2>1. \A i \in 1 .. 4 : SubSeq(w, 1, 4)[i] = w[i]
        BY <1>5
    <2>2. /\ SubSeq(w, 1, 4)[1] = 0 /\ SubSeq(w, 1, 4)[2] = 0
          /\ SubSeq(w, 1, 4)[3] = 0 /\ SubSeq(w, 1, 4)[4] = 1
        <3>1. /\ <<0, 0, 0, 1>>[1] = 0 /\ <<0, 0, 0, 1>>[2] = 0
              /\ <<0, 0, 0, 1>>[3] = 0 /\ <<0, 0, 0, 1>>[4] = 1
            OBVIOUS
        <3> QED
            BY <1>11, <3>1 DEF Zero4
    <2>3. w[1] = 0 /\ w[2] = 0 /\ w[3] = 0 /\ w[4] = 1
        BY <2>1, <2>2
    <2>4. n = 1
        BY <1>9, <2>3
    <2> QED
        BY <1>3, <2>4 DEF LikeStartCode
<1>12. CASE SubSeq(w, 1, 3) = <<0, 0, 1>>
    <2>1. \A i \in 1 .. 3 : SubSeq(w, 1, 3)[i] = w[i]
        BY <1>5
    <2>2. SubSeq(w, 1, 3)[1] = 0 /\ SubSeq(w, 1, 3)[2] = 0 /\ SubSeq(w, 1, 3)[3] = 1
        <3>1. <<0, 0, 1>>[1] = 0 /\ <<0, 0, 1>>[2] = 0 /\ <<0, 0, 1>>[3] = 1
            OBVIOUS
        <3> QED
            BY <1>12, <3>1
    <2>3. w[1] = 0 /\ w[2] = 0 /\ w[3] = 1
        BY <2>1, <2>2
    <2>4. PICK x \in 0 .. 255 : n = 256 + x
        <3>1. PICK x : x = w[4]
            OBVIOUS
        <3>2. ((0 * 256 + 0) * 256 + 1) * 256 + x = n /\ x \in 0 .. 255
            BY <1>9, <2>3, <3>1 DEF Octet
        <3>3. n = 256 + x
            BY <3>2
        <3> QED
            BY <3>2, <3>3
    <2>5. n \in 256 .. 511
        BY <2>4
    <2>6. LikeStartCode(ns) <=> n \in {1} \cup 256 .. 511
        BY <1>3 DEF LikeStartCode
    <2> QED
        BY <2>5, <2>6, Zenon
<1> QED
    BY <1>10, <1>11, <1>12

-----------------------------------------------------------------------------
(* What is found there: protocol.cpp on units with lengths.                *)

\* What AvccToAnnexB makes of b from offset p on when u is what it makes
\* of the rest.
Piece(b, u, p) ==
    IF p + 3 > Len(b) THEN [ok |-> p = Len(b) + 1, out |-> <<>>]
    ELSE IF AvccLength(b, p) = 0 \/ p + 3 + AvccLength(b, p) > Len(b)
         THEN [ok |-> FALSE, out |-> <<>>]
         ELSE [ok |-> u[p + 4 + AvccLength(b, p)].ok,
               out |-> Zero4 \o SubSeq(b, p + 4, p + 3 + AvccLength(b, p))
                         \o u[p + 4 + AvccLength(b, p)].out]

\* It only looks ahead.
LEMMA LooksAhead ==
    ASSUME NEW b \in Seq(Octet), NEW p \in 1 .. Len(b) + 1, NEW u, NEW v,
           \A q \in p + 1 .. Len(b) + 1 : u[q] = v[q]
    PROVE  Piece(b, u, p) = Piece(b, v, p)
<1>1. CASE p + 3 > Len(b)
    BY <1>1 DEF Piece
<1>2. CASE ~ (p + 3 > Len(b)) /\ (AvccLength(b, p) = 0 \/ p + 3 + AvccLength(b, p) > Len(b))
    BY <1>2 DEF Piece
<1>3. CASE ~ (p + 3 > Len(b)) /\ ~ (AvccLength(b, p) = 0 \/ p + 3 + AvccLength(b, p) > Len(b))
    <2>1. AvccLength(b, p) \in Nat
        <3>1. p \in 1 .. Len(b) /\ p + 1 \in 1 .. Len(b) /\ p + 2 \in 1 .. Len(b)
              /\ p + 3 \in 1 .. Len(b)
            BY <1>3
        <3>2. \A i \in 1 .. Len(b) : b[i] \in Nat
            <4>1. \A i \in 1 .. Len(b) : b[i] \in Octet
                OBVIOUS
            <4>2. \A x \in Octet : x \in Nat
                BY DEF Octet
            <4> QED
                BY <4>1, <4>2
        <3>3. PICK i \in Nat, j \in Nat, k \in Nat, m \in Nat :
                  i = b[p] /\ j = b[p + 1] /\ k = b[p + 2] /\ m = b[p + 3]
            BY <3>1, <3>2
        <3>4. ((i * 256 + j) * 256 + k) * 256 + m \in Nat
            OBVIOUS
        <3> QED
            BY <3>3, <3>4 DEF AvccLength
    <2>2. p + 4 + AvccLength(b, p) \in p + 1 .. Len(b) + 1
        <3>1. PICK n \in Nat, l \in Nat : n = AvccLength(b, p) /\ l = Len(b)
            BY <2>1
        <3>2. p + 3 + n <= l
            BY <1>3, <3>1
        <3>3. p + 4 + n \in p + 1 .. l + 1
            BY <3>2
        <3> QED
            BY <3>1, <3>3
    <2>3. u[p + 4 + AvccLength(b, p)] = v[p + 4 + AvccLength(b, p)]
        BY <2>2
    <2> QED
        BY <1>3, <2>3 DEF Piece
<1> QED
    BY <1>1, <1>2, <1>3

\* So what it makes of all the rests is well defined.
LEMMA HasPieces ==
    ASSUME NEW b \in Seq(Octet)
    PROVE  \E u : u = [p \in 1 .. Len(b) + 1 |-> Piece(b, u, p)]
<1>0. PICK l \in Nat : l = Len(b)
    OBVIOUS
<1> DEFINE S == {m \in Nat : m <= l + 1 =>
                    \E u : \A p \in (l + 2) - m .. l + 1 : u[p] = Piece(b, u, p)}
<1>1. 0 \in S
    OBVIOUS
<1>2. ASSUME NEW m \in Nat, m \in S PROVE m + 1 \in S
    <2> SUFFICES ASSUME m + 1 <= l + 1
                 PROVE  \E u : \A p \in (l + 2) - (m + 1) .. l + 1 : u[p] = Piece(b, u, p)
        OBVIOUS
    <2>1. PICK u : \A p \in (l + 2) - m .. l + 1 : u[p] = Piece(b, u, p)
        BY <1>2
    <2>2. PICK z \in 1 .. l + 1 : z = (l + 2) - (m + 1) /\ (l + 2) - m = z + 1
        <3>1. (l + 2) - (m + 1) \in 1 .. l + 1
            OBVIOUS
        <3>2. (l + 2) - m = (l + 2) - (m + 1) + 1
            OBVIOUS
        <3> QED
            BY <3>1, <3>2
    <2> HIDE DEF S
    <2> DEFINE v == [p \in 1 .. l + 1 |-> IF p = z THEN Piece(b, u, z) ELSE u[p]]
    <2>3. \A q \in z + 1 .. l + 1 : v[q] = u[q]
        OBVIOUS
    <2>4. v[z] = Piece(b, u, z)
        OBVIOUS
    <2> HIDE DEF v
    <2>5. ASSUME NEW p \in z .. l + 1 PROVE v[p] = Piece(b, v, p)
        <3>1. Piece(b, u, p) = Piece(b, v, p)
            <4>1. \A q \in p + 1 .. l + 1 : q \in z + 1 .. l + 1
                OBVIOUS
            <4>2. p \in 1 .. Len(b) + 1 /\ \A q \in p + 1 .. Len(b) + 1 : u[q] = v[q]
                BY <1>0, <2>3, <4>1
            <4> QED
                BY <4>2, LooksAhead
        <3>2. CASE p = z
            BY <2>4, <3>1, <3>2
        <3>3. CASE p \in z + 1 .. l + 1
            BY <2>1, <2>2, <2>3, <3>1, <3>3
        <3>4. p = z \/ p \in z + 1 .. l + 1
            OBVIOUS
        <3> QED
            BY <3>2, <3>3, <3>4
    <2> QED
        BY <2>2, <2>5
<1>3. Nat \subseteq S
    <2> HIDE DEF S
    <2> QED
        BY <1>1, <1>2, NatSets
<1>4. PICK u : \A p \in 1 .. l + 1 : u[p] = Piece(b, u, p)
    <2>1. l + 1 \in S /\ (l + 2) - (l + 1) = 1
        BY <1>3
    <2> QED
        BY <2>1
<1> DEFINE v == [p \in 1 .. l + 1 |-> u[p]]
<1>5. ASSUME NEW p \in 1 .. l + 1 PROVE v[p] = Piece(b, v, p)
    <2>1. \A q \in p + 1 .. l + 1 : u[q] = v[q]
        OBVIOUS
    <2>2. v[p] = u[p]
        OBVIOUS
    <2> HIDE DEF v
    <2>3. Piece(b, u, p) = Piece(b, v, p)
        BY <1>0, <2>1, LooksAhead
    <2> QED
        BY <1>4, <2>2, <2>3
<1>6. v = [p \in 1 .. l + 1 |-> v[p]]
    OBVIOUS
<1> HIDE DEF v
<1>7. v = [p \in 1 .. l + 1 |-> Piece(b, v, p)]
    BY <1>5, <1>6
<1> QED
    BY <1>0, <1>7

LEMMA AvccIs ==
    ASSUME NEW b \in Seq(Octet)
    PROVE  \E u : /\ AvccToAnnexB(b) = u[1]
                  /\ \A p \in 1 .. Len(b) + 1 : u[p] = Piece(b, u, p)
<1> DEFINE D(u) == [p \in 1 .. Len(b) + 1 |-> Piece(b, u, p)]
<1>1. PICK c : c = (CHOOSE u : u = D(u)) /\ AvccToAnnexB(b) = c[1]
    BY DEF AvccToAnnexB, Piece
<1>2. \E u : u = D(u)
    BY HasPieces
<1>3. ASSUME NEW u PROVE \A p \in 1 .. Len(b) + 1 : D(u)[p] = Piece(b, u, p)
    OBVIOUS
<1> HIDE DEF D
<1>4. PICK d : d = D(c) /\ d = c
    BY <1>1, <1>2
<1>5. \A p \in 1 .. Len(b) + 1 : c[p] = Piece(b, c, p)
    <2>1. \A p \in 1 .. Len(b) + 1 : d[p] = Piece(b, c, p)
        BY <1>3, <1>4
    <2> QED
        BY <1>4, <2>1
<1> QED
    BY <1>1, <1>5

\* What is written with lengths comes out as it is written with start codes.
LEMMA AvccBecomesAnnexB ==
    ASSUME NEW ns, Nals(ns)
    PROVE  AvccToAnnexB(Write("avcc", ns)) = [ok |-> TRUE, out |-> Write("long", ns)]
<1>0. "avcc" \in Delimited \cup {"avcc"} /\ "long" \in Delimited \cup {"avcc"}
    BY DEF Delimited
<1>1. PICK w, e : w = Write("avcc", ns) /\ Laid("avcc", ns, w, e)
    BY <1>0, Layout
<1>2. PICK g : Grows("long", ns, g, Len(ns)) /\ Write("long", ns) = g[Len(ns)]
    BY <1>0, Writes
<1>3. PICK n \in Nat : n = Len(ns)
    BY DEF Nals
<1>4. w \in Seq(Octet) /\ e[0] = 0 /\ e[n] = Len(w)
    BY <1>1, <1>3 DEF Laid
<1>5. PICK u : /\ AvccToAnnexB(w) = u[1]
               /\ \A p \in 1 .. Len(w) + 1 : u[p] = Piece(w, u, p)
    BY <1>4, AvccIs
<1>6. g[0] = <<>> /\ \A k \in 0 .. n : g[k] \in Seq(Octet)
    BY <1>2, <1>3 DEF Grows
<1> DEFINE Rest(k) == /\ u[e[k] + 1] = [ok |-> TRUE, out |-> u[e[k] + 1].out]
                      /\ u[e[k] + 1].out \in Seq(Octet)
                      /\ g[k] \o u[e[k] + 1].out = g[n]
           S == {m \in Nat : m <= n => Rest(n - m)}
<1>7. Rest(n)
    <2>1. e[n] + 1 \in 1 .. Len(w) + 1 /\ e[n] + 1 + 3 > Len(w) /\ e[n] + 1 = Len(w) + 1
        BY <1>4
    <2>2. u[e[n] + 1] = [ok |-> TRUE, out |-> <<>>]
        BY <1>5, <2>1 DEF Piece
    <2>3. g[n] \o <<>> = g[n] /\ <<>> \in Seq(Octet)
        BY <1>6
    <2> QED
        BY <2>2, <2>3
<1> HIDE DEF Rest
<1>8. ASSUME NEW k \in 1 .. n, Rest(k) PROVE Rest(k - 1)
    <2>1. /\ k \in 1 .. Len(ns) /\ k \in Nat /\ k - 1 \in 0 .. n
          /\ ns[k] \in Seq(Octet) /\ IsNal(ns[k])
        BY <1>3 DEF Nals
    <2>2. /\ Len(ns[k]) \in Nat /\ Len(ns[k]) >= 1 /\ e[k - 1] \in Nat /\ e[k] \in Nat
          /\ e[k] = e[k - 1] + Size("avcc", k) + Len(ns[k]) /\ e[k] <= Len(w)
          /\ \A i \in 1 .. Len(ns[k]) : w[e[k - 1] + Size("avcc", k) + i] = ns[k][i]
        <3>1. PICK f : f = "avcc" /\ f \in Delimited \cup {"avcc"}
            BY <1>0
        <3>2. Nals(ns) /\ Laid(f, ns, w, e)
            BY <1>1, <3>1
        <3>3. /\ Len(ns[k]) \in Nat /\ Len(ns[k]) >= 1 /\ e[k - 1] \in Nat /\ e[k] \in Nat
              /\ e[k] = e[k - 1] + Size(f, k) + Len(ns[k]) /\ e[k] <= Len(w)
              /\ \A i \in 1 .. Len(ns[k]) : w[e[k - 1] + Size(f, k) + i] = ns[k][i]
            BY <2>1, <3>1, <3>2, Block
        <3> QED
            BY <3>1, <3>3
    <2>3. Size("avcc", k) = 4
        BY DEF Size
    <2>4. PICK p \in Nat, l \in Nat, q \in Nat :
               p = e[k - 1] + 1 /\ l = Len(ns[k]) /\ q = e[k] + 1
        BY <2>2
    <2>5. l >= 1 /\ q = p + 4 + l /\ p + 3 + l <= Len(w) /\ p + 3 <= Len(w) /\ p >= 1
          /\ p \in 1 .. Len(w) + 1 /\ Len(w) \in Nat
        <3>1. PICK a \in Nat, m \in Nat : a = e[k - 1] /\ m = Len(w)
            BY <1>4, <2>2
        <3>2. l >= 1 /\ e[k] = a + 4 + l /\ e[k] <= m /\ p = a + 1 /\ q = e[k] + 1
            BY <2>2, <2>3, <2>4, <3>1
        <3>3. q = p + 4 + l /\ p + 3 + l <= m /\ p + 3 <= m /\ p >= 1
            BY <3>2
        <3>4. p \in 1 .. m + 1
            BY <3>3
        <3> QED
            BY <3>1, <3>2, <3>3, <3>4
    <2>6. AvccLength(w, p) = l
        <3>1. \A i \in 1 .. 4 : w[e[k - 1] + i] = Prefix("avcc", k, ns[k])[i]
            BY <1>1, <2>1, <2>3 DEF Laid
        <3>2. Prefix("avcc", k, ns[k]) =
                  <<l \div (256 * 256 * 256), (l \div (256 * 256)) % 256,
                    (l \div 256) % 256, l % 256>>
            BY <2>4, ZenonT(40) DEF Prefix
        <3>3. e[k - 1] + 1 = p /\ e[k - 1] + 2 = p + 1 /\ e[k - 1] + 3 = p + 2
              /\ e[k - 1] + 4 = p + 3
            BY <2>2, <2>4, SMTT(20)
        <3>4. /\ w[p] = l \div (256 * 256 * 256) /\ w[p + 1] = (l \div (256 * 256)) % 256
              /\ w[p + 2] = (l \div 256) % 256 /\ w[p + 3] = l % 256
            <4>1. PICK c : c = Prefix("avcc", k, ns[k])
                OBVIOUS
            <4>2. /\ c[1] = l \div (256 * 256 * 256) /\ c[2] = (l \div (256 * 256)) % 256
                  /\ c[3] = (l \div 256) % 256 /\ c[4] = l % 256
                BY <3>2, <4>1
            <4>3. w[p] = c[1] /\ w[p + 1] = c[2] /\ w[p + 2] = c[3] /\ w[p + 3] = c[4]
                BY <3>1, <3>3, <4>1
            <4> QED
                BY <4>2, <4>3
        <3>5. l \div (256 * 256 * 256) < 128
            BY <2>1, <2>4 DEF IsNal
        <3>6. (((l \div (256 * 256 * 256)) * 256 + ((l \div (256 * 256)) % 256)) * 256
                 + ((l \div 256) % 256)) * 256 + (l % 256) = l
            BY <3>5, FourBytes
        <3> QED
            BY <3>4, <3>6 DEF AvccLength
    <2>7. SubSeq(w, p + 4, p + 3 + l) = ns[k]
        <3>1. PICK c \in Nat : c = p + 3 /\ c + 1 = p + 4 /\ c = e[k - 1] + 4
            BY <2>2, <2>4, SMTT(20)
        <3>2. c + Len(ns[k]) <= Len(w)
            BY <2>4, <2>5, <3>1
        <3>3. \A i \in 1 .. Len(ns[k]) : w[c + i] = ns[k][i]
            BY <2>2, <2>3, <3>1
        <3>4. SubSeq(w, c + 1, c + Len(ns[k])) = ns[k]
            BY <1>4, <2>1, <3>2, <3>3, CutOut
        <3> QED
            BY <2>4, <3>1, <3>4
    <2>8. PICK r \in Seq(Octet) : u[q] = [ok |-> TRUE, out |-> r] /\ g[k] \o r = g[n]
        BY <1>8, <2>4 DEF Rest
    <2>9. u[p] = [ok |-> TRUE, out |-> Zero4 \o ns[k] \o r]
        <3>1. u[p] = Piece(w, u, p)
            BY <1>5, <2>5
        <3>2. ~ (p + 3 > Len(w)) /\ ~ (l = 0 \/ p + 3 + l > Len(w))
            BY <2>5
        <3>3. Piece(w, u, p) = [ok |-> u[p + 4 + l].ok,
                                out |-> Zero4 \o SubSeq(w, p + 4, p + 3 + l) \o u[p + 4 + l].out]
            BY <2>6, <3>2 DEF Piece
        <3>4. u[p + 4 + l] = [ok |-> TRUE, out |-> r]
            BY <2>5, <2>8
        <3>5. u[p + 4 + l].ok = TRUE /\ u[p + 4 + l].out = r
            BY <3>4
        <3>6. Piece(w, u, p) = [ok |-> TRUE, out |-> Zero4 \o ns[k] \o r]
            BY <2>7, <3>3, <3>5
        <3> QED
            BY <3>1, <3>6
    <2>10. g[k - 1] \o (Zero4 \o ns[k] \o r) = g[n]
        <3>1. Prefix("long", k, ns[k]) = Zero4
            BY DEF Prefix
        <3>2. g[k] = g[k - 1] \o Zero4 \o ns[k]
            BY <1>2, <2>1, <3>1 DEF Grows
        <3>3. g[k - 1] \in Seq(Octet)
            BY <1>6, <2>1
        <3>4. Zero4 \in Seq(Octet)
            BY DEF Zero4, Octet
        <3>5. PICK x \in Seq(Octet), y \in Seq(Octet), z \in Seq(Octet) :
                  x = g[k - 1] /\ y = Zero4 /\ z = ns[k]
            BY <2>1, <3>3, <3>4
        <3>6. x \o (y \o z \o r) = (x \o y \o z) \o r
            BY Regrouped, SMTT(20)
        <3> QED
            BY <2>8, <3>2, <3>5, <3>6
    <2>11. Zero4 \o ns[k] \o r \in Seq(Octet)
        <3>1. Zero4 \in Seq(Octet)
            BY DEF Zero4, Octet
        <3> QED
            BY <2>1, <3>1, Three
    <2> QED
        <3>1. PICK x \in Seq(Octet) : x = Zero4 \o ns[k] \o r
            BY <2>11
        <3>2. u[e[k - 1] + 1] = [ok |-> TRUE, out |-> x] /\ g[k - 1] \o x = g[n]
            BY <2>4, <2>9, <2>10, <3>1
        <3>3. u[e[k - 1] + 1].out = x
            BY <3>2
        <3> QED
            BY <3>2, <3>3 DEF Rest
<1>9. Rest(0)
    <2>1. 0 \in S
        <3>1. n - 0 = n
            OBVIOUS
        <3> QED
            BY <1>7, <3>1
    <2>2. ASSUME NEW m \in Nat, m \in S PROVE m + 1 \in S
        <3> SUFFICES ASSUME m + 1 <= n PROVE Rest(n - (m + 1))
            OBVIOUS
        <3>1. PICK k \in 1 .. n : k = n - m /\ k - 1 = n - (m + 1)
            OBVIOUS
        <3>2. m <= n
            OBVIOUS
        <3>3. Rest(k)
            BY <2>2, <3>1, <3>2
        <3>4. Rest(k - 1)
            BY <1>8, <3>3
        <3> QED
            BY <3>1, <3>4
    <2>3. Nat \subseteq S
        <3> HIDE DEF S
        <3> QED
            BY <2>1, <2>2, NatSets
    <2>4. n \in S /\ n - n = 0
        BY <2>3
    <2> QED
        BY <2>4
<1>10. u[1] = [ok |-> TRUE, out |-> g[n]]
    <2>1. e[0] + 1 = 1
        BY <1>4
    <2>2. PICK r \in Seq(Octet) : u[1] = [ok |-> TRUE, out |-> r] /\ <<>> \o r = g[n]
        BY <1>6, <1>9, <2>1 DEF Rest
    <2>3. <<>> \o r = r
        OBVIOUS
    <2> QED
        BY <2>2, <2>3
<1> QED
    BY <1>1, <1>2, <1>3, <1>5, <1>10

-----------------------------------------------------------------------------
(* What the encoder makes of it.                                           *)

LEMMA WriteNone ==
    ASSUME NEW f \in Delimited \cup {"avcc"} PROVE Write(f, <<>>) = <<>>
<1>1. PICK ns : ns = <<>> /\ ns \in Seq(Seq(Octet)) /\ Len(ns) = 0
    <2>1. \A T : <<>> \in Seq(T) /\ Len(<<>>) = 0
        OBVIOUS
    <2> QED
        BY <2>1
<1>2. Nals(ns)
    BY <1>1 DEF Nals
<1>3. PICK g : Grows(f, ns, g, Len(ns)) /\ Write(f, ns) = g[Len(ns)]
    BY <1>2, Writes
<1> QED
    BY <1>1, <1>3 DEF Grows

LEMMA WriteTwo ==
    ASSUME NEW a, NEW b, IsNal(a), IsNal(b)
    PROVE  /\ Write("long", <<a, b>>) = (Zero4 \o a) \o (Zero4 \o b)
           /\ Zero4 \o a \in Seq(Octet) /\ Zero4 \o b \in Seq(Octet)
           /\ Len(Zero4 \o a) >= 4
<1>1. a \in Seq(Octet) /\ b \in Seq(Octet) /\ Zero4 \in Seq(Octet) /\ Len(Zero4) = 4
      /\ Len(a) \in Nat
    <2>1. Zero4 \in Seq(Octet) /\ Len(Zero4) = 4
        BY DEF Zero4, Octet
    <2> QED
        BY <2>1, NalIs
<1>2. PICK ns : ns = <<a, b>> /\ Len(ns) = 2 /\ ns[1] = a /\ ns[2] = b /\ ns \in Seq(Seq(Octet))
    <2>1. ASSUME NEW T, NEW c \in T, NEW d \in T
          PROVE  /\ <<c, d>> \in Seq(T) /\ Len(<<c, d>>) = 2
                 /\ <<c, d>>[1] = c /\ <<c, d>>[2] = d
        OBVIOUS
    <2>2. <<a, b>> \in Seq(Seq(Octet)) /\ Len(<<a, b>>) = 2 /\ <<a, b>>[1] = a /\ <<a, b>>[2] = b
        BY <1>1, <2>1
    <2> QED
        BY <2>2
<1>3. Nals(ns)
    <2>1. \A k \in 1 .. 2 : k = 1 \/ k = 2
        OBVIOUS
    <2> QED
        BY <1>2, <2>1 DEF Nals
<1>4. "long" \in Delimited \cup {"avcc"}
    BY DEF Delimited
<1>5. PICK g : Grows("long", ns, g, 2) /\ Write("long", ns) = g[2]
    BY <1>2, <1>3, <1>4, Writes
<1>6. \A k : Prefix("long", k, ns[k]) = Zero4
    BY DEF Prefix
<1>7. g[0] = <<>> /\ g[1] = g[0] \o Zero4 \o a /\ g[2] = g[1] \o Zero4 \o b
    <2>1. \A k \in 1 .. 2 : g[k] = g[k - 1] \o Zero4 \o ns[k]
        BY <1>5, <1>6 DEF Grows
    <2>2. 1 \in 1 .. 2 /\ 2 \in 1 .. 2 /\ 1 - 1 = 0 /\ 2 - 1 = 1
        OBVIOUS
    <2>3. g[1] = g[0] \o Zero4 \o ns[1] /\ g[2] = g[1] \o Zero4 \o ns[2]
        BY <2>1, <2>2
    <2> QED
        BY <1>2, <1>5, <2>3 DEF Grows
<1>8. PICK x \in Seq(Octet), y \in Seq(Octet), z \in Seq(Octet) : x = Zero4 /\ y = a /\ z = b
    BY <1>1
<1>9. <<>> \o x \o y = x \o y
    <2>1. <<>> \o x = x
        OBVIOUS
    <2> QED
        BY <2>1
<1>10. x \o y \o x \o z = (x \o y) \o (x \o z)
    OBVIOUS
<1>11. x \o y \in Seq(Octet) /\ x \o z \in Seq(Octet) /\ Len(x \o y) = Len(x) + Len(y)
    BY Two
<1>12. g[2] = (Zero4 \o a) \o (Zero4 \o b)
    BY <1>7, <1>8, <1>9, <1>10
<1>13. Len(x \o y) >= 4
    BY <1>1, <1>8, <1>11
<1> QED
    BY <1>2, <1>5, <1>8, <1>11, <1>12, <1>13

\* A unit as it is cached: behind a start code, unless there is none.
Marked(nal) == IF nal = <<>> THEN <<>> ELSE Zero4 \o nal

\* One cache, one step: it holds the newest unit when it held the newest.
LEMMA CacheStep ==
    ASSUME NEW f \in Delimited, NEW ns, Nals(ns), NEW t, NEW known
    PROVE  Cached(Write(f, ns), t, Marked(known)) = Marked(Newer(ns, t, known))
<1>1. CASE ~ Has(ns, t)
    <2>1. Newer(ns, t, known) = known
        BY <1>1 DEF Newer
    <2>2. Cached(Write(f, ns), t, Marked(known)) = Marked(known)
        BY <1>1, CachedIs
    <2> QED
        BY <1>1, <2>1, <2>2
<1>2. CASE Has(ns, t)
    <2>1. PICK k \in 1 .. Len(ns) : Newer(ns, t, known) = ns[k]
        BY <1>2, NewerIs
    <2>2. ns[k] # <<>>
        BY DEF Nals, IsNal
    <2>3. Cached(Write(f, ns), t, Marked(known)) = Zero4 \o Newer(ns, t, known)
        BY <1>2, CachedIs
    <2> QED
        BY <2>1, <2>2, <2>3 DEF Marked
<1> QED
    BY <1>1, <1>2

LEMMA NewerIsNal ==
    ASSUME NEW ns, Nals(ns), NEW t, NEW known, known = <<>> \/ IsNal(known)
    PROVE  /\ Newer(ns, t, known) = <<>> \/ IsNal(Newer(ns, t, known))
           /\ Has(ns, t) => Newer(ns, t, known) # <<>>
<1>1. CASE ~ Has(ns, t)
    BY <1>1 DEF Newer
<1>2. CASE Has(ns, t)
    <2>1. PICK k \in 1 .. Len(ns) : Newer(ns, t, known) = ns[k]
        BY <1>2, NewerIs
    <2>2. IsNal(ns[k]) /\ ns[k] # <<>>
        BY ZenonT(40) DEF Nals, IsNal
    <2> QED
        BY <2>1, <2>2
<1> QED
    BY <1>1, <1>2

\* What the constants stand for.
LEMMA Given ==
    /\ \A ns \in Units : Nals(ns) /\ ns # <<>> /\ SetsFirst(ns)
    /\ \A ns \in SeqHeaders : Nals(ns)
<1>1. \A ns \in Units \cup SeqHeaders : Nals(ns)
    <2> SUFFICES ASSUME NEW ns \in Units \cup SeqHeaders PROVE Nals(ns)
        OBVIOUS
    <2>1. ns \in Seq(Seq(Octet)) /\ \A k \in DOMAIN ns : IsNal(ns[k])
        BY BitstreamAssumption DEF Octet
    <2>2. DOMAIN ns = 1 .. Len(ns)
        BY <2>1
    <2> QED
        BY <2>1, <2>2 DEF Nals
<1> QED
    BY <1>1, BitstreamAssumption

\* How the bytes that are handed on are delimited.
Handed == IF format = "avcc" THEN "long" ELSE format

\* Unless it is misread, an access unit becomes Annex-B.
LEMMA BecomesAnnexB ==
    ASSUME NEW ns \in Units, format \in Formats,
           ~ (format = "avcc" /\ LikeStartCode(ns))
    PROVE  /\ Handed \in Delimited
           /\ AsAnnexB(Write(format, ns)) = Write(Handed, ns)
<1>1. Nals(ns) /\ ns # <<>>
    BY Given
<1>2. format \in Delimited \/ format = "avcc"
    BY BitstreamAssumption DEF Delimited
<1>3. CASE format = "avcc"
    <2>1. Handed = "long" /\ "long" \in Delimited
        BY <1>3 DEF Handed, Delimited
    <2>2. ~ LooksLikeAnnexB(Write("avcc", ns))
        BY <1>1, <1>3, LooksWrong
    <2>3. AvccToAnnexB(Write("avcc", ns)) = [ok |-> TRUE, out |-> Write("long", ns)]
        BY <1>1, AvccBecomesAnnexB
    <2>4. AsAnnexB(Write("avcc", ns)) = Write("long", ns)
        BY <2>2, <2>3 DEF AsAnnexB
    <2> QED
        BY <1>3, <2>1, <2>4
<1>4. CASE format \in Delimited
    <2>1. Handed = format
        BY <1>4 DEF Handed, Delimited
    <2>2. LooksLikeAnnexB(Write(format, ns))
        BY <1>1, <1>4, LooksRight
    <2>3. AsAnnexB(Write(format, ns)) = Write(format, ns)
        BY <2>2 DEF AsAnnexB
    <2> QED
        BY <1>4, <2>1, <2>3
<1> QED
    BY <1>2, <1>3, <1>4

\* A unit that holds both parameter sets has them in front of its slices.
LEMMA NotHeadless ==
    ASSUME NEW ns \in Units, Has(ns, Sps), Has(ns, Pps) PROVE ~ Headless(ns)
<1>1. Nals(ns) /\ SetsFirst(ns) /\ Len(ns) \in Nat /\ DOMAIN ns = 1 .. Len(ns)
    BY Given DEF Nals
<1>2. ASSUME NEW k \in DOMAIN ns, TypeOf(ns[k]) \in {Idr, NonIdr}, NEW t \in {Sps, Pps}
      PROVE  Has(SubSeq(ns, 1, k - 1), t)
    <2>1. PICK j \in DOMAIN ns : TypeOf(ns[j]) = t
        BY DEF Has
    <2>2. j < k
        BY <1>1, <1>2, <2>1 DEF SetsFirst
    <2>3. j \in 1 .. k - 1 /\ k - 1 <= Len(ns) /\ k - 1 \in Nat
        BY <1>1, <2>2
    <2>4. PICK T : ns \in Seq(T)
        BY <1>1 DEF Nals
    <2>5. PICK m \in Nat : m = k - 1
        BY <2>3
    <2>6. Len(SubSeq(ns, 1, m)) = m /\ \A i \in 1 .. m : SubSeq(ns, 1, m)[i] = ns[i]
        BY <2>3, <2>4, <2>5
    <2>7. DOMAIN SubSeq(ns, 1, m) = 1 .. m
        BY <2>3, <2>4, <2>5
    <2> QED
        BY <2>1, <2>3, <2>5, <2>6, <2>7 DEF Has
<1> QED
    BY <1>2 DEF Headless

IsKnown(known) == known = <<>> \/ IsNal(known)

\* The types of what is remembered, and the three promises.
IInv ==
    /\ format \in Formats
    /\ IsKnown(newest.sps) /\ IsKnown(newest.pps)
    /\ CacheNewest /\ Faithful /\ SelfContained

\* Both caches after a step that looks at the bytes of ns.
LEMMA CachesStep ==
    ASSUME IInv, NEW f \in Delimited, NEW ns, Nals(ns), Observe(ns), ~ misread,
           sps' = Cached(Write(f, ns), Sps, sps), pps' = Cached(Write(f, ns), Pps, pps)
    PROVE  sps' = Marked(newest.sps') /\ pps' = Marked(newest.pps')
<1>1. newest.sps' = Newer(ns, Sps, newest.sps) /\ newest.pps' = Newer(ns, Pps, newest.pps)
    BY DEF Observe
<1>2. sps = Marked(newest.sps) /\ pps = Marked(newest.pps)
    BY DEF IInv, CacheNewest, Marked
<1>3. Cached(Write(f, ns), Sps, Marked(newest.sps)) = Marked(Newer(ns, Sps, newest.sps))
    BY CacheStep
<1>4. Cached(Write(f, ns), Pps, Marked(newest.pps)) = Marked(Newer(ns, Pps, newest.pps))
    BY CacheStep
<1> QED
    BY <1>1, <1>2, <1>3, <1>4

LEMMA KnownStep ==
    ASSUME IInv, NEW ns, Nals(ns), Observe(ns)
    PROVE  /\ IsKnown(newest.sps') /\ IsKnown(newest.pps')
           /\ Has(ns, Sps) => newest.sps' # <<>>
           /\ Has(ns, Pps) => newest.pps' # <<>>
<1>1. newest.sps' = Newer(ns, Sps, newest.sps) /\ newest.pps' = Newer(ns, Pps, newest.pps)
    BY DEF Observe
<1>2. /\ IsKnown(Newer(ns, Sps, newest.sps))
      /\ Has(ns, Sps) => Newer(ns, Sps, newest.sps) # <<>>
    BY NewerIsNal DEF IInv, IsKnown
<1>3. /\ IsKnown(Newer(ns, Pps, newest.pps))
      /\ Has(ns, Pps) => Newer(ns, Pps, newest.pps) # <<>>
    BY NewerIsNal DEF IInv, IsKnown
<1> QED
    BY <1>1, <1>2, <1>3

LEMMA AfterInit == Init => IInv
<1> SUFFICES ASSUME Init PROVE IInv
    OBVIOUS
<1>1. format \in Formats /\ newest.sps = <<>> /\ newest.pps = <<>>
    BY DEF Init
<1>2. CacheNewest /\ Faithful /\ SelfContained
    BY <1>1 DEF Init, CacheNewest, Faithful, SelfContained
<1> QED
    BY <1>1, <1>2 DEF IInv, IsKnown

LEMMA AfterCacheSequenceHeader ==
    ASSUME IInv, NEW ns \in SeqHeaders, CacheSequenceHeader(ns) PROVE IInv'
<1>1. /\ Nals(ns) /\ Observe(ns) /\ unit' = <<>> /\ format' = format /\ misread' = misread
      /\ "long" \in Delimited
    BY Given DEF CacheSequenceHeader, Delimited
<1>2. /\ sps' = Cached(Write("long", ns), Sps, sps)
      /\ pps' = Cached(Write("long", ns), Pps, pps)
    BY DEF CacheSequenceHeader
<1>3. IsKnown(newest.sps') /\ IsKnown(newest.pps')
    BY <1>1, KnownStep
<1>4. CacheNewest'
    BY <1>1, <1>2, CachesStep DEF CacheNewest, Marked
<1>5. Faithful' /\ SelfContained'
    BY <1>1 DEF Faithful, SelfContained
<1> QED
    BY <1>1, <1>3, <1>4, <1>5 DEF IInv, IsKnown

\* Whether the cached sets s and p go in front of the unit ns.
Ahead(ns, s, p) == Has(ns, Idr) /\ ~ (Has(ns, Sps) /\ Has(ns, Pps)) /\ s # <<>> /\ p # <<>>

\* The frame of a unit that is not misread: b is its bytes, s and p are the caches.
LEMMA FrameIs ==
    ASSUME NEW ns, Nals(ns), NEW f \in Delimited, NEW b, b = Write(f, ns), NEW s, NEW p
    PROVE  /\ FrameOf(b, s, p).idr = Has(ns, Idr)
           /\ FrameOf(b, s, p).spspps =
                 (Ahead(ns, s, p) \/ (Has(ns, Idr) /\ Has(ns, Sps) /\ Has(ns, Pps)))
           /\ Ahead(ns, s, p) => FrameOf(b, s, p).payload = s \o p \o b
           /\ ~ Ahead(ns, s, p) => FrameOf(b, s, p).payload = b
<1>1. PICK e : Laid(f, ns, b, e)
    BY Layout DEF Delimited
<1>2. \A t : NalsOf(b, t) # {} <=> Has(ns, t)
    BY <1>1, FoundIffThere
<1>3. /\ (NalsOf(b, Idr) # {}) = Has(ns, Idr) /\ (NalsOf(b, Sps) # {}) = Has(ns, Sps)
      /\ (NalsOf(b, Pps) # {}) = Has(ns, Pps)
    BY <1>2, Zenon DEF Has
<1>4. PICK i, v, w : /\ i = Has(ns, Idr) /\ v = Has(ns, Sps) /\ w = Has(ns, Pps)
                     /\ i \in BOOLEAN /\ v \in BOOLEAN /\ w \in BOOLEAN
    BY Zenon DEF Has
<1>5. FrameOf(b, s, p) =
          [idr |-> i,
           spspps |-> (i /\ ~ (v /\ w) /\ s # <<>> /\ p # <<>>) \/ (i /\ (v /\ w)),
           payload |-> IF i /\ ~ (v /\ w) /\ s # <<>> /\ p # <<>> THEN s \o p \o b ELSE b]
    BY <1>3, <1>4, Zenon DEF FrameOf
<1>6. PICK a : a = (i /\ ~ (v /\ w) /\ s # <<>> /\ p # <<>>) /\ a \in BOOLEAN
    BY Zenon
<1>7. a = Ahead(ns, s, p)
    BY <1>4, <1>6, Zenon DEF Ahead
<1>8. FrameOf(b, s, p) = [idr |-> i, spspps |-> a \/ (i /\ (v /\ w)),
                          payload |-> IF a THEN s \o p \o b ELSE b]
    BY <1>5, <1>6, Zenon
<1>9. /\ FrameOf(b, s, p).idr = i /\ FrameOf(b, s, p).spspps = (a \/ (i /\ (v /\ w)))
      /\ FrameOf(b, s, p).payload = IF a THEN s \o p \o b ELSE b
    BY <1>8
<1>10. (a \/ (i /\ (v /\ w))) = (Ahead(ns, s, p) \/ (Has(ns, Idr) /\ Has(ns, Sps) /\ Has(ns, Pps)))
    BY <1>4, <1>7, Zenon
<1>11. /\ Ahead(ns, s, p) => FrameOf(b, s, p).payload = s \o p \o b
       /\ ~ Ahead(ns, s, p) => FrameOf(b, s, p).payload = b
    BY <1>6, <1>7, <1>9, Zenon
<1> QED
    BY <1>4, <1>9, <1>10, <1>11, Zenon

LEMMA AfterDeliverBitstream ==
    ASSUME IInv, NEW ns \in Units, DeliverBitstream(ns) PROVE IInv'
<1>1. Nals(ns) /\ ns # <<>>
    BY Given
<1>2. /\ Observe(ns) /\ unit' = ns /\ format' = format
      /\ misread' = (misread \/ (format = "avcc" /\ LikeStartCode(ns)))
    BY DEF DeliverBitstream
<1>3. PICK b : b = AsAnnexB(Write(format, ns))
    OBVIOUS
<1>4. /\ sps' = Cached(b, Sps, sps) /\ pps' = Cached(b, Pps, pps)
      /\ frame' = IF Valid(b) /\ Len(FrameOf(b, sps', pps').payload) <= MaxPayload
                  THEN <<FrameOf(b, sps', pps')>> ELSE <<>>
    BY <1>3 DEF DeliverBitstream
<1>5. format' \in Formats /\ IsKnown(newest.sps') /\ IsKnown(newest.pps')
    BY <1>1, <1>2, KnownStep DEF IInv
<1>6. CASE misread'
    BY <1>5, <1>6 DEF IInv, IsKnown, CacheNewest, Faithful, SelfContained
<1>7. CASE ~ misread'
    <2>1. ~ misread /\ ~ (format = "avcc" /\ LikeStartCode(ns))
        BY <1>2, <1>7
    <2>2. PICK f \in Delimited : f = Handed /\ b = Write(f, ns)
        BY <1>3, <2>1, BecomesAnnexB DEF IInv
    <2>3. sps' = Marked(newest.sps') /\ pps' = Marked(newest.pps')
        BY <1>1, <1>2, <1>4, <2>1, <2>2, CachesStep
    <2>4. CacheNewest'
        BY <2>3 DEF CacheNewest, Marked
    <2>5. Valid(b) /\ Wanted' = b
        BY <1>1, <1>2, <2>2, LooksRight DEF Wanted, Handed
    <2>6. PICK e : Laid(f, ns, b, e)
        BY <1>1, <2>2, Layout DEF Delimited
    <2>7. b \in Seq(Octet) /\ Len(b) \in Nat
        BY <2>6 DEF Laid
    <2>8. PICK s, p, c, d : /\ s = sps' /\ p = pps' /\ c = newest.sps' /\ d = newest.pps'
                            /\ s = Marked(c) /\ p = Marked(d)
                            /\ IsKnown(c) /\ IsKnown(d)
                            /\ (Has(ns, Sps) => c # <<>>) /\ (Has(ns, Pps) => d # <<>>)
        BY <1>1, <1>2, <2>3, KnownStep
    <2>9. (s # <<>> <=> c # <<>>) /\ (p # <<>> <=> d # <<>>)
        <3>1. ASSUME NEW x, IsNal(x) PROVE Zero4 \o x # <<>>
            <4>1. Len(Zero4 \o x) >= 4 /\ Zero4 \o x \in Seq(Octet)
                BY <3>1, WriteTwo
            <4>2. Len(<<>>) = 0
                OBVIOUS
            <4> QED
                BY <4>1, <4>2
        <3> QED
            BY <2>8, <3>1 DEF IsKnown, Marked
    <2>10. PICK r : r = FrameOf(b, s, p)
        OBVIOUS
    <2>11. /\ r.idr = Has(ns, Idr)
           /\ r.spspps = (Ahead(ns, s, p) \/ (Has(ns, Idr) /\ Has(ns, Sps) /\ Has(ns, Pps)))
           /\ Ahead(ns, s, p) => r.payload = s \o p \o b
           /\ ~ Ahead(ns, s, p) => r.payload = b
        BY <1>1, <2>2, <2>10, FrameIs
    <2>12. /\ frame' = IF Len(r.payload) <= MaxPayload THEN <<r>> ELSE <<>>
        BY <1>4, <2>5, <2>8, <2>10
    <2>13. CASE Ahead(ns, s, p)
        <3>1. IsNal(c) /\ IsNal(d) /\ s = Zero4 \o c /\ p = Zero4 \o d
            BY <2>8, <2>9, <2>13 DEF IsKnown, Marked, Ahead
        <3>2. /\ Write("long", <<c, d>>) = s \o p /\ s \in Seq(Octet) /\ p \in Seq(Octet)
              /\ Len(s) >= 4
            BY <3>1, WriteTwo
        <3>3. r.payload = Write("long", <<c, d>>) \o b
            BY <2>11, <2>13, <3>2
        <3>4. Len(r.payload) > Len(b) /\ Len(r.payload) \in Nat
            <4>1. Len(s \o p \o b) = Len(s) + Len(p) + Len(b) /\ Len(p) \in Nat
                BY <2>7, <3>2, Three
            <4> QED
                BY <2>7, <2>11, <2>13, <3>2, <4>1
        <3>5. Faithful'
            <4>1. IF Len(r.payload) > MaxPayload THEN frame' = <<>>
                  ELSE frame' # <<>> /\ frame'[1].payload = r.payload
                BY <2>12, <3>4, BitstreamAssumption
            <4>2. \E sets \in {<<>>, <<c, d>>} :
                      LET whole == Write("long", sets) \o b
                      IN IF Len(whole) > MaxPayload THEN frame' = <<>>
                         ELSE frame' # <<>> /\ frame'[1].payload = whole
                BY <3>3, <4>1
            <4> QED
                BY <2>5, <2>8, <4>2 DEF Faithful
        <3>6. SelfContained'
            <4>1. ASSUME frame' # <<>>
                  PROVE  /\ frame'[1].idr = Has(ns, Idr) /\ Len(frame'[1].payload) > Len(b)
                         /\ frame'[1].spspps = (frame'[1].idr /\ (c # <<>> /\ d # <<>>))
                <5>1. frame'[1] = r
                    BY <2>12, <4>1
                <5>2. r.spspps = (r.idr /\ (c # <<>> /\ d # <<>>))
                    <6>1. r.spspps = TRUE
                        BY <2>11, <2>13
                    <6>2. r.idr = TRUE /\ c # <<>> /\ d # <<>>
                        BY <2>9, <2>11, <2>13 DEF Ahead
                    <6> QED
                        BY <6>1, <6>2
                <5> QED
                    BY <2>11, <3>4, <5>1, <5>2
            <4> QED
                BY <1>2, <2>5, <2>8, <4>1 DEF SelfContained
        <3> QED
            BY <1>5, <2>4, <3>5, <3>6 DEF IInv, IsKnown
    <2>14. CASE ~ Ahead(ns, s, p)
        <3>1. r.payload = b
            BY <2>11, <2>14
        <3>2. Write("long", <<>>) \o b = b
            <4>1. Write("long", <<>>) = <<>>
                BY WriteNone DEF Delimited
            <4>2. <<>> \o b = b
                BY <2>7
            <4> QED
                BY <4>1, <4>2
        <3>3. Faithful'
            <4>1. IF Len(b) > MaxPayload THEN frame' = <<>>
                  ELSE frame' # <<>> /\ frame'[1].payload = b
                BY <2>7, <2>12, <3>1, BitstreamAssumption
            <4>2. \E sets \in {<<>>, <<c, d>>} :
                      LET whole == Write("long", sets) \o b
                      IN IF Len(whole) > MaxPayload THEN frame' = <<>>
                         ELSE frame' # <<>> /\ frame'[1].payload = whole
                BY <3>2, <4>1
            <4> QED
                BY <2>5, <2>8, <4>2 DEF Faithful
        <3>4. SelfContained'
            <4>1. ASSUME frame' # <<>>
                  PROVE  /\ frame'[1].idr = Has(ns, Idr)
                         /\ frame'[1].spspps = (frame'[1].idr /\ (c # <<>> /\ d # <<>>))
                         /\ frame'[1].spspps => ~ Headless(ns)
                <5>1. frame'[1] = r
                    BY <2>12, <4>1
                <5>2. r.spspps = (r.idr /\ (c # <<>> /\ d # <<>>))
                    BY <2>8, <2>9, <2>11, <2>14 DEF Ahead
                <5>3. r.spspps => Has(ns, Sps) /\ Has(ns, Pps)
                    BY <2>11, <2>14
                <5>4. r.spspps => ~ Headless(ns)
                    BY <5>3, NotHeadless
                <5> QED
                    BY <2>11, <5>1, <5>2, <5>4
            <4> QED
                BY <1>2, <2>5, <2>8, <4>1 DEF SelfContained
        <3> QED
            BY <1>5, <2>4, <3>3, <3>4 DEF IInv, IsKnown
    <2> QED
        BY <2>13, <2>14
<1> QED
    BY <1>6, <1>7

LEMMA AfterStep == IInv /\ [Next]_vars => IInv'
<1> SUFFICES ASSUME IInv, [Next]_vars PROVE IInv'
    OBVIOUS
<1>1. CASE UNCHANGED vars
    BY <1>1 DEF vars, IInv, IsKnown, CacheNewest, Faithful, SelfContained, Wanted
<1>2. ASSUME NEW ns \in SeqHeaders, CacheSequenceHeader(ns) PROVE IInv'
    BY <1>2, AfterCacheSequenceHeader
<1>3. ASSUME NEW ns \in Units, DeliverBitstream(ns) PROVE IInv'
    BY <1>3, AfterDeliverBitstream
<1> QED
    BY <1>1, <1>2, <1>3 DEF Next

THEOREM Invariance == Spec => []IInv
BY AfterInit, AfterStep, PTL DEF Spec

\* The parameter sets that CacheSequenceHeader and DeliverBitstream keep are
\* the newest the transform has put out, byte for byte, until a transform that
\* writes lengths puts out a unit whose first length is 1 or 256 .. 511.
THEOREM SetsNewest == Spec => []CacheNewest
<1>1. IInv => CacheNewest
    BY DEF IInv
<1> QED
    BY <1>1, Invariance, PTL

\* DeliverBitstream hands on every byte of an access unit, behind nothing or
\* the newest parameter sets, lengths turned into start codes; until the same
\* happens.  Start codes of three bytes stay what they are.
THEOREM UnitsWhole == Spec => []Faithful
<1>1. IInv => Faithful
    BY DEF IInv
<1> QED
    BY <1>1, Invariance, PTL

\* A frame is marked as an IDR exactly when it is one, and an IDR is marked
\* as carrying parameter sets exactly from when the encoder has shown both,
\* and then it does carry them; until the same happens.
THEOREM StartsAtIdr == Spec => []SelfContained
<1>1. IInv => SelfContained
    BY DEF IInv
<1> QED
    BY <1>1, Invariance, PTL
=============================================================================
