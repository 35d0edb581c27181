---------------------------- MODULE BodiesProofs ----------------------------
(***************************************************************************)
(* Proofs about the parsers of bodies: MultipartStreamParser, for bodies   *)
(* of any number of parts with any contents, cut anywhere; and the parsers *)
(* of whole texts, for texts of bytes of any length.                       *)
(***************************************************************************)
EXTENDS StreamParser, Parsers, SequenceTheorems, FiniteSetTheorems, WellFoundedInduction, TLAPS

-----------------------------------------------------------------------------
(* Induction over the naturals, for sets. *)

LEMMA Induction ==
  ASSUME NEW P, 0 \in P, \A n \in Nat : n \in P => n + 1 \in P
  PROVE  \A n \in Nat : n \in P
<1> DEFINE Less == {ss \in Nat \X Nat : ss[1] < ss[2]}
           Bad == Nat \ P
<1>1. SUFFICES ASSUME Bad # {} PROVE FALSE
  OBVIOUS
<1>2. IsWellFoundedOn(Less, Nat)
  BY NatLessThanWellFounded, Zenon DEF OpToRel
<1>3. PICK x \in Bad : \A y \in Bad : <<y, x>> \notin Less
  BY <1>1, <1>2, WFMin, Zenon
<1>4. x \in Nat /\ x # 0 /\ x \notin P
  OBVIOUS
<1>5. x - 1 \in Nat /\ x - 1 < x /\ (x - 1) + 1 = x
  BY <1>4
<1>6. x - 1 \in Bad
  BY <1>4, <1>5
<1>7. <<x - 1, x>> \in Less
  BY <1>4, <1>5
<1>8. QED
  BY <1>3, <1>6, <1>7, Zenon

LEMMA HasFirst ==
  ASSUME NEW T, T \subseteq Nat, T # {}
  PROVE  \E x \in T : \A y \in T : x <= y
<1> DEFINE P == {n \in Nat : \A y \in T : n <= y}
<1>1. SUFFICES ASSUME \A x \in T : x \notin P PROVE FALSE
  OBVIOUS
<1>2. 0 \in P
  OBVIOUS
<1>3. ASSUME NEW n \in Nat, n \in P PROVE n + 1 \in P
  <2>1. n \notin T
    BY <1>1, <1>3
  <2>2. QED
    BY <1>3, <2>1
<1>4. PICK x \in T : TRUE
  OBVIOUS
<1> HIDE DEF P
<1>5. \A n \in Nat : n \in P
  BY <1>2, <1>3, Induction, Zenon
<1>6. QED
  BY <1>1, <1>4, <1>5

-----------------------------------------------------------------------------
(* The text of a body. *)

Sym == FieldName \cup {"x", "-", "r", "n", "b", ":", "q"}
Crlf == <<"r", "n">>

\* u is s and then t, both texts.
IsCat(u, s, t) ==
  /\ u \in Seq(Sym) /\ Len(s) \in Nat /\ Len(t) \in Nat /\ Len(u) = Len(s) + Len(t)
  /\ \A i \in 1 .. Len(s) : u[i] = s[i]
  /\ \A i \in 1 .. Len(t) : u[Len(s) + i] = t[i]

LEMMA Cat ==
  ASSUME NEW s \in Seq(Sym), NEW t \in Seq(Sym)
  PROVE  IsCat(s \o t, s, t)
<1>1. /\ s \o t \in Seq(Sym) /\ Len(s \o t) = Len(s) + Len(t)
      /\ \A i \in 1 .. Len(s) + Len(t) : (s \o t)[i] = IF i <= Len(s) THEN s[i] ELSE t[i - Len(s)]
  BY ConcatProperties, Zenon
<1>2. Len(s) \in Nat /\ Len(t) \in Nat
  OBVIOUS
<1>3. ASSUME NEW i \in 1 .. Len(s) PROVE (s \o t)[i] = s[i]
  BY <1>1, <1>2
<1>4. ASSUME NEW i \in 1 .. Len(t) PROVE (s \o t)[Len(s) + i] = t[i]
  <2>1. Len(s) + i \in 1 .. Len(s) + Len(t) /\ ~(Len(s) + i <= Len(s)) /\ (Len(s) + i) - Len(s) = i
    BY <1>2
  <2>2. QED
    BY <1>1, <2>1
<1>5. QED
  BY <1>1, <1>2, <1>3, <1>4 DEF IsCat

\* The twelve symbols a part begins with.
HeadAt(text, o, name) ==
  /\ text[o + 1] = "-" /\ text[o + 2] = "-" /\ text[o + 3] = "b" /\ text[o + 4] = "r" /\ text[o + 5] = "n"
  /\ text[o + 6] = ":" /\ text[o + 7] = name /\ text[o + 8] = "q"
  /\ text[o + 9] = "r" /\ text[o + 10] = "n" /\ text[o + 11] = "r" /\ text[o + 12] = "n"

\* The seven symbols a body ends with.
EndAt(text, o) ==
  /\ text[o + 1] = "-" /\ text[o + 2] = "-" /\ text[o + 3] = "b" /\ text[o + 4] = "-" /\ text[o + 5] = "-"
  /\ text[o + 6] = "r" /\ text[o + 7] = "n"

\* Symbols o + 1 .. o + 14 + Len(p.content) of a text are a part.
PartAt(text, o, p) ==
  /\ HeadAt(text, o, p.name)
  /\ \A i \in 1 .. Len(p.content) : text[o + 12 + i] = p.content[i]
  /\ text[o + 13 + Len(p.content)] = "r" /\ text[o + 14 + Len(p.content)] = "n"

\* What a part is made of.
LEMMA PartIs ==
  ASSUME NEW p \in Part
  PROVE  /\ p.name \in FieldName /\ p.name \in Sym /\ p.content \in Seq({"x", "-", "r", "n"})
         /\ p.content \in Seq(Sym) /\ Len(p.content) \in Nat
         /\ p.name \notin {"x", "-", "r", "n", "b", ":", "q", NoField}
<1>1. p.name \in FieldName /\ p.content \in Seq({"x", "-", "r", "n"})
  BY StreamAssumption DEF Part
<1>2. p.name \in Sym /\ p.name \notin {"x", "-", "r", "n", "b", ":", "q", NoField}
  BY <1>1, StreamAssumption DEF Sym, NoField
<1>3. {"x", "-", "r", "n"} \subseteq Sym
  BY DEF Sym
<1>4. p.content \in Seq(Sym) /\ Len(p.content) \in Nat
  BY <1>1, <1>3, SeqMonotonic
<1>5. QED
  BY <1>1, <1>2, <1>4

LEMMA PartTextIs ==
  ASSUME NEW p \in Part
  PROVE  /\ PartText(p, Crlf) \in Seq(Sym) /\ Len(PartText(p, Crlf)) = 14 + Len(p.content)
         /\ PartAt(PartText(p, Crlf), 0, p)
<1> DEFINE c == p.content
           d == <<":", p.name, "q">>
           s1 == FullBoundary \o Crlf
           s2 == s1 \o d
           s3 == s2 \o Crlf
           s4 == s3 \o Crlf
           s5 == s4 \o c
           s6 == s5 \o Crlf
<1>1. p.name \in Sym /\ c \in Seq(Sym) /\ Len(c) \in Nat
  BY PartIs
<1>2. /\ FullBoundary \in Seq(Sym) /\ Len(FullBoundary) = 3
      /\ FullBoundary[1] = "-" /\ FullBoundary[2] = "-" /\ FullBoundary[3] = "b"
      /\ d \in Seq(Sym) /\ Len(d) = 3 /\ d[1] = ":" /\ d[2] = p.name /\ d[3] = "q"
      /\ Crlf \in Seq(Sym) /\ Len(Crlf) = 2 /\ Crlf[1] = "r" /\ Crlf[2] = "n"
  BY <1>1 DEF Sym, FullBoundary, Crlf
<1>3. PartText(p, Crlf) = s6
  BY DEF PartText
<1> HIDE DEF d, c
<1>4. IsCat(s1, FullBoundary, Crlf)
  BY <1>2, Cat, Zenon
<1> HIDE DEF s1
<1>5. IsCat(s2, s1, d)
  BY <1>2, <1>4, Cat, Zenon DEF IsCat
<1> HIDE DEF s2
<1>6. IsCat(s3, s2, Crlf)
  BY <1>2, <1>5, Cat, Zenon DEF IsCat
<1> HIDE DEF s3
<1>7. IsCat(s4, s3, Crlf)
  BY <1>2, <1>6, Cat, Zenon DEF IsCat
<1> HIDE DEF s4
<1>8. IsCat(s5, s4, c)
  BY <1>1, <1>7, Cat, Zenon DEF IsCat
<1> HIDE DEF s5
<1>9. IsCat(s6, s5, Crlf)
  BY <1>2, <1>8, Cat, Zenon DEF IsCat
<1> HIDE DEF s6
<1>10. Len(s1) = 5 /\ Len(s2) = 8 /\ Len(s3) = 10 /\ Len(s4) = 12 /\ Len(s5) = 12 + Len(c) /\ Len(s6) = 14 + Len(c)
  BY <1>1, <1>2, <1>4, <1>5, <1>6, <1>7, <1>8, <1>9 DEF IsCat
<1>11. \A i \in 1 .. 12 : s6[i] = s4[i]
  BY <1>1, <1>8, <1>9, <1>10, SMTT(30) DEF IsCat
<1>12. HeadAt(s4, 0, p.name)
  <2>1. s1[1] = "-" /\ s1[2] = "-" /\ s1[3] = "b" /\ s1[4] = "r" /\ s1[5] = "n"
    BY <1>2, <1>4 DEF IsCat
  <2>2. /\ \A i \in 1 .. 5 : s2[i] = s1[i]
        /\ s2[6] = ":" /\ s2[7] = p.name /\ s2[8] = "q"
    BY <1>2, <1>5, <1>10 DEF IsCat
  <2>3. /\ \A i \in 1 .. 8 : s3[i] = s2[i]
        /\ s3[9] = "r" /\ s3[10] = "n"
    BY <1>2, <1>6, <1>10 DEF IsCat
  <2>4. /\ \A i \in 1 .. 10 : s4[i] = s3[i]
        /\ s4[11] = "r" /\ s4[12] = "n"
    BY <1>2, <1>7, <1>10 DEF IsCat
  <2>5. QED
    BY <2>1, <2>2, <2>3, <2>4 DEF HeadAt
<1>13. HeadAt(s6, 0, p.name)
  BY <1>11, <1>12 DEF HeadAt
<1>14. \A i \in 1 .. Len(c) : s6[12 + i] = c[i]
  BY <1>1, <1>8, <1>9, <1>10, SMTT(30) DEF IsCat
<1>15. s6[13 + Len(c)] = "r" /\ s6[14 + Len(c)] = "n"
  <2>1. 13 + Len(c) = Len(s5) + 1 /\ 14 + Len(c) = Len(s5) + 2
    BY <1>1, <1>10
  <2>2. QED
    BY <1>2, <1>9, <2>1 DEF IsCat
<1>16. PartAt(s6, 0, p)
  BY <1>1, <1>13, <1>14, <1>15 DEF PartAt, c
<1>17. QED
  BY <1>3, <1>9, <1>10, <1>16 DEF c, IsCat

\* A part of a text is where it was when something is added behind the text.
LEMMA PartStays ==
  ASSUME NEW u, NEW s, NEW t, IsCat(u, s, t), NEW p \in Part, NEW o \in Nat,
         PartAt(s, o, p), o + 14 + Len(p.content) <= Len(s)
  PROVE  PartAt(u, o, p)
<1> DEFINE l == Len(p.content)
           m == Len(s)
<1>1. m \in Nat /\ l \in Nat /\ o + 14 + l <= m /\ \A i \in 1 .. m : u[i] = s[i]
  BY PartIs DEF IsCat
<1> HIDE DEF l, m
<1>2. /\ o + 1 \in 1 .. m /\ o + 2 \in 1 .. m /\ o + 3 \in 1 .. m /\ o + 4 \in 1 .. m
      /\ o + 5 \in 1 .. m /\ o + 6 \in 1 .. m /\ o + 7 \in 1 .. m /\ o + 8 \in 1 .. m
      /\ o + 9 \in 1 .. m /\ o + 10 \in 1 .. m /\ o + 11 \in 1 .. m /\ o + 12 \in 1 .. m
      /\ o + 13 + l \in 1 .. m /\ o + 14 + l \in 1 .. m
      /\ \A i \in 1 .. l : o + 12 + i \in 1 .. m
  BY <1>1
<1>3. /\ HeadAt(s, o, p.name) /\ \A i \in 1 .. l : s[o + 12 + i] = p.content[i]
      /\ s[o + 13 + l] = "r" /\ s[o + 14 + l] = "n"
  BY DEF PartAt, l
<1>4. HeadAt(u, o, p.name)
  BY <1>1, <1>2, <1>3, Zenon DEF HeadAt
<1>5. /\ \A i \in 1 .. l : u[o + 12 + i] = p.content[i]
      /\ u[o + 13 + l] = "r" /\ u[o + 14 + l] = "n"
  BY <1>1, <1>2, <1>3, Zenon
<1>6. QED
  BY <1>4, <1>5 DEF PartAt, l

\* A part that is added behind a text.
LEMMA PartBehind ==
  ASSUME NEW u, NEW s, NEW t, IsCat(u, s, t), NEW p \in Part,
         PartAt(t, 0, p), Len(t) = 14 + Len(p.content)
  PROVE  PartAt(u, Len(s), p)
<1> DEFINE o == Len(s)
           l == Len(p.content)
           m == Len(t)
<1>1. m \in Nat /\ o \in Nat /\ l \in Nat /\ m = 14 + l /\ \A i \in 1 .. m : u[o + i] = t[i]
  BY PartIs DEF IsCat
<1> HIDE DEF o, l, m
<1>2. /\ 1 \in 1 .. m /\ 2 \in 1 .. m /\ 3 \in 1 .. m /\ 4 \in 1 .. m
      /\ 5 \in 1 .. m /\ 6 \in 1 .. m /\ 7 \in 1 .. m /\ 8 \in 1 .. m
      /\ 9 \in 1 .. m /\ 10 \in 1 .. m /\ 11 \in 1 .. m /\ 12 \in 1 .. m
      /\ 13 + l \in 1 .. m /\ 14 + l \in 1 .. m
      /\ \A i \in 1 .. l : 12 + i \in 1 .. m
  BY <1>1
<1>3. /\ \A i \in 1 .. l : o + (12 + i) = o + 12 + i
      /\ o + (13 + l) = o + 13 + l /\ o + (14 + l) = o + 14 + l
  BY <1>1
<1>4. /\ HeadAt(t, 0, p.name) /\ \A i \in 1 .. l : t[0 + 12 + i] = p.content[i]
      /\ t[0 + 13 + l] = "r" /\ t[0 + 14 + l] = "n"
  BY DEF PartAt, l
<1>5. /\ t[1] = "-" /\ t[2] = "-" /\ t[3] = "b" /\ t[4] = "r" /\ t[5] = "n"
      /\ t[6] = ":" /\ t[7] = p.name /\ t[8] = "q"
      /\ t[9] = "r" /\ t[10] = "n" /\ t[11] = "r" /\ t[12] = "n"
      /\ \A i \in 1 .. l : t[12 + i] = p.content[i]
      /\ t[13 + l] = "r" /\ t[14 + l] = "n"
  BY <1>1, <1>4 DEF HeadAt
<1>6. HeadAt(u, o, p.name)
  BY <1>1, <1>2, <1>5, Zenon DEF HeadAt
<1>7. /\ \A i \in 1 .. l : u[o + 12 + i] = p.content[i]
      /\ u[o + 13 + l] = "r" /\ u[o + 14 + l] = "n"
  BY <1>1, <1>2, <1>3, <1>5, ZenonT(60)
<1>8. QED
  BY <1>6, <1>7 DEF PartAt, l, o

\* The recursion of FlattenSeq has a solution.
LEMMA FlatExists ==
  ASSUME NEW seqs, NEW n \in Nat
  PROVE  \E g : g = [i \in 1 .. n |-> IF i = 1 THEN seqs[i] ELSE g[i - 1] \o seqs[i]]
<1> DEFINE Solved(m, g) == g = [i \in 1 .. m |-> IF i = 1 THEN seqs[i] ELSE g[i - 1] \o seqs[i]]
           P == {m \in Nat : \E g : Solved(m, g)}
<1>1. 0 \in P
  <2> DEFINE g == [i \in 1 .. 0 |-> <<>>]
  <2>1. Solved(0, g)
    OBVIOUS
  <2>2. QED
    BY <2>1
<1>2. ASSUME NEW m \in Nat, m \in P PROVE m + 1 \in P
  <2>1. PICK g : Solved(m, g)
    BY <1>2
  <2> DEFINE h == [i \in 1 .. m + 1 |-> IF i <= m THEN g[i] ELSE IF i = 1 THEN seqs[i] ELSE g[m] \o seqs[m + 1]]
  <2>2. Solved(m + 1, h)
    <3> SUFFICES ASSUME NEW i \in 1 .. m + 1
                 PROVE  h[i] = IF i = 1 THEN seqs[i] ELSE h[i - 1] \o seqs[i]
      BY Zenon
    <3>1. CASE i <= m
      <4>1. i \in 1 .. m /\ h[i] = g[i] /\ (i # 1 => h[i - 1] = g[i - 1])
        BY <3>1
      <4>2. g[i] = IF i = 1 THEN seqs[i] ELSE g[i - 1] \o seqs[i]
        BY <2>1, <4>1
      <4>3. QED
        BY <4>1, <4>2, Zenon
    <3>2. CASE i = m + 1
      BY <3>2
    <3>3. QED
      BY <3>1, <3>2
  <2> HIDE DEF h
  <2>3. m + 1 \in Nat
    OBVIOUS
  <2>4. QED
    BY <2>2, <2>3, Zenon
<1> HIDE DEF P
<1>3. n \in P
  BY <1>1, <1>2, Induction, Zenon
<1>4. QED
  BY <1>3 DEF P

\* Where the parts of a body are, and that the end boundary is behind them.
Layout(ps, n, text, off) ==
  /\ off \in [1 .. n + 1 -> Nat] /\ off[1] = 0
  /\ text \in Seq(Sym) /\ Len(text) = off[n + 1] + 7 /\ EndAt(text, off[n + 1])
  /\ \A k \in 1 .. n : off[k + 1] = off[k] + 14 + Len(ps[k].content) /\ PartAt(text, off[k], ps[k])
  /\ \A k \in 1 .. n + 1 : off[k] <= off[n + 1]

\* The texts of the first parts, one behind the other.
FlatIs(ps, n, g, off, k) ==
  /\ g[k] \in Seq(Sym) /\ Len(g[k]) = off[k + 1] /\ off[k + 1] = off[k] + 14 + Len(ps[k].content)
  /\ \A j \in 1 .. k : /\ off[j] \in Nat /\ PartAt(g[k], off[j], ps[j])
                        /\ off[j] + 14 + Len(ps[j].content) <= off[k + 1]

\* The texts of the parts, what FlattenSeq makes of them, and where each begins.
FlatOf(ps, n, seqs, g, off) ==
  /\ seqs = [i \in 1 .. n |-> PartText(ps[i], Crlf)]
  /\ g = [i \in 1 .. n |-> IF i = 1 THEN seqs[i] ELSE g[i - 1] \o seqs[i]]
  /\ off = [k \in 1 .. n + 1 |-> IF k = 1 THEN 0 ELSE Len(g[k - 1])]

LEMMA FlatLayout ==
  ASSUME NEW n \in Nat, NEW ps \in [1 .. n -> Part], NEW seqs, NEW g, NEW off, FlatOf(ps, n, seqs, g, off)
  PROVE  \A k \in 1 .. n : FlatIs(ps, n, g, off, k)
<1> DEFINE P == {m \in Nat : m + 1 \in 1 .. n => FlatIs(ps, n, g, off, m + 1)}
<1>1. ASSUME NEW k \in 1 .. n
      PROVE  /\ ps[k] \in Part /\ seqs[k] \in Seq(Sym) /\ Len(seqs[k]) = 14 + Len(ps[k].content)
             /\ PartAt(seqs[k], 0, ps[k]) /\ Len(ps[k].content) \in Nat
  <2>1. ps[k] \in Part /\ seqs[k] = PartText(ps[k], Crlf)
    BY DEF FlatOf
  <2>2. QED
    BY <2>1, PartTextIs, PartIs, Zenon
<1>2. 0 \in P
  <2> SUFFICES ASSUME 1 \in 1 .. n PROVE FlatIs(ps, n, g, off, 1)
    OBVIOUS
  <2>1. n >= 1 /\ g[1] = seqs[1] /\ off[1] = 0 /\ off[2] = Len(g[1])
    BY DEF FlatOf
  <2>2. off[1 + 1] = off[1] + 14 + Len(ps[1].content)
    BY <1>1, <2>1
  <2>3. QED
    BY <1>1, <2>1, <2>2 DEF FlatIs
<1>3. ASSUME NEW m \in Nat, m \in P PROVE m + 1 \in P
  <2> DEFINE k == m + 2
  <2> SUFFICES ASSUME k \in 1 .. n PROVE FlatIs(ps, n, g, off, k)
    <3>1. m + 1 \in Nat /\ (m + 1) + 1 = k
      OBVIOUS
    <3>2. QED
      BY <3>1
  <2>1. k \in 2 .. n /\ k - 1 \in 1 .. n /\ k - 1 = m + 1 /\ k \in Nat
    OBVIOUS
  <2>2. FlatIs(ps, n, g, off, k - 1)
    BY <1>3, <2>1
  <2> HIDE DEF k
  <2>3. g[k] = g[k - 1] \o seqs[k] /\ off[k + 1] = Len(g[k]) /\ off[k] = Len(g[k - 1]) /\ (k - 1) + 1 = k
    <3>1. k \in 1 .. n /\ k # 1 /\ k \in 1 .. n + 1 /\ k + 1 \in 1 .. n + 1 /\ k + 1 # 1
          /\ (k + 1) - 1 = k /\ (k - 1) + 1 = k
      BY <2>1
    <3>2. g[k] = g[k - 1] \o seqs[k]
      BY <3>1 DEF FlatOf
    <3>3. \A i \in 1 .. n + 1 : i # 1 => off[i] = Len(g[i - 1])
      BY Zenon DEF FlatOf
    <3>4. QED
      BY <3>1, <3>2, <3>3, Zenon
  <2>4. IsCat(g[k], g[k - 1], seqs[k])
    BY <1>1, <2>1, <2>2, <2>3, Cat, Zenon DEF FlatIs
  <2> DEFINE l == Len(ps[k].content)
             o == Len(g[k - 1])
  <2>5. /\ g[k] \in Seq(Sym) /\ o \in Nat /\ l \in Nat
        /\ off[k] = o /\ off[k + 1] = o + 14 + l /\ Len(g[k]) = off[k + 1]
    <3>1. Len(g[k]) = o + Len(seqs[k]) /\ o \in Nat /\ Len(seqs[k]) = 14 + l /\ l \in Nat /\ g[k] \in Seq(Sym)
      BY <1>1, <2>1, <2>4, Zenon DEF IsCat
    <3> HIDE DEF l, o
    <3>2. o + (14 + l) = o + 14 + l
      BY <3>1
    <3>3. QED
      BY <2>3, <3>1, <3>2, Zenon DEF o
  <2>6. PartAt(g[k], off[k], ps[k])
    <3>1. k \in 1 .. n
      BY <2>1
    <3>2. ps[k] \in Part /\ PartAt(seqs[k], 0, ps[k]) /\ Len(seqs[k]) = 14 + Len(ps[k].content)
      BY <1>1, <3>1, Zenon
    <3>3. PartAt(g[k], Len(g[k - 1]), ps[k])
      BY <2>4, <3>2, PartBehind, Zenon
    <3>4. QED
      BY <2>3, <3>3, Zenon
  <2>7. ASSUME NEW j \in 1 .. k - 1
        PROVE  off[j] \in Nat /\ PartAt(g[k], off[j], ps[j]) /\ off[j] + 14 + Len(ps[j].content) <= off[k + 1]
    <3> DEFINE c == Len(ps[j].content)
    <3>1. off[j] \in Nat /\ PartAt(g[k - 1], off[j], ps[j]) /\ off[j] + 14 + c <= o
      BY <2>2, <2>3, Zenon DEF FlatIs
    <3>2. j \in 1 .. n
      BY <2>1
    <3>3. PartAt(g[k], off[j], ps[j])
      BY <1>1, <2>4, <3>1, <3>2, PartStays, Zenon
    <3>4. c \in Nat
      BY <1>1, <3>2
    <3> HIDE DEF l, o, c
    <3>5. off[j] + 14 + c <= off[k + 1]
      BY <2>5, <3>1, <3>4
    <3>6. QED
      BY <3>1, <3>3, <3>5 DEF c
  <2>8. off[k] \in Nat /\ off[k] + 14 + l <= off[k + 1]
    <3> HIDE DEF l, o
    <3>1. QED
      BY <2>5
  <2>9. \A j \in 1 .. k : j \in 1 .. k - 1 \/ j = k
    BY <2>1
  <2>10. QED
    BY <2>5, <2>6, <2>7, <2>8, <2>9 DEF FlatIs
<1> HIDE DEF P
<1>4. \A m \in Nat : m \in P
  BY <1>2, <1>3, Induction, Zenon
<1>5. ASSUME NEW k \in 1 .. n PROVE FlatIs(ps, n, g, off, k)
  <2>1. k - 1 \in Nat /\ (k - 1) + 1 = k
    OBVIOUS
  <2>2. QED
    BY <1>4, <2>1 DEF P
<1>6. QED
  BY <1>5

\* Every body has such a layout.
LEMMA BodyLayout ==
  ASSUME NEW n \in Nat, NEW ps \in [1 .. n -> Part]
  PROVE  \E off : Layout(ps, n, BodyText(ps, Crlf), off)
<1> DEFINE seqs == [i \in 1 .. n |-> PartText(ps[i], Crlf)]
           dashes == <<"-", "-">>
           flat == FlattenSeq([i \in DOMAIN ps |-> PartText(ps[i], Crlf)])
           s1 == flat \o FullBoundary
           s2 == s1 \o dashes
           s3 == s2 \o Crlf
<1>0. Len(seqs) = n
  OBVIOUS
<1>1. PICK g : /\ g = [i \in 1 .. n |-> IF i = 1 THEN seqs[i] ELSE g[i - 1] \o seqs[i]]
               /\ n # 0 => FlattenSeq(seqs) = g[n]
  <2> HIDE DEF seqs
  <2>1. CASE n = 0
    <3>1. \E g : g = [i \in 1 .. n |-> IF i = 1 THEN seqs[i] ELSE g[i - 1] \o seqs[i]]
      BY FlatExists, Zenon
    <3>2. QED
      BY <2>1, <3>1
  <2>2. CASE n # 0
    <3>1. FlattenSeq(seqs) = (CHOOSE g : g = [i \in 1 .. n |-> IF i = 1 THEN seqs[i] ELSE g[i - 1] \o seqs[i]])[n]
      BY <1>0, <2>2, Zenon DEF FlattenSeq
    <3>2. QED
      BY <3>1, FlatExists, Zenon
  <2>3. QED
    BY <2>1, <2>2
<1> DEFINE off == [k \in 1 .. n + 1 |-> IF k = 1 THEN 0 ELSE Len(g[k - 1])]
<1>2. FlatOf(ps, n, seqs, g, off)
  BY <1>1, Zenon DEF FlatOf
<1>3. /\ BodyText(ps, Crlf) = s3
      /\ FlattenSeq([i \in DOMAIN ps |-> PartText(ps[i], Crlf)]) = FlattenSeq(seqs)
  <2>1. DOMAIN ps = 1 .. n
    OBVIOUS
  <2>2. QED
    BY <2>1, Zenon DEF BodyText
<1>4. \A k \in 1 .. n : FlatIs(ps, n, g, off, k)
  BY <1>2, FlatLayout, Zenon
<1>5. off[1] = 0 /\ off = [k \in 1 .. n + 1 |-> off[k]]
  OBVIOUS
<1>6. flat \in Seq(Sym) /\ Len(flat) = off[n + 1] /\ (n # 0 => flat = g[n])
  <2>1. CASE n = 0
    <3>1. seqs = <<>> /\ flat = seqs
      BY <1>0, <1>3, <2>1 DEF FlattenSeq
    <3>2. <<>> \in Seq(Sym) /\ Len(<<>>) = 0 /\ n + 1 = 1
      BY <2>1
    <3> HIDE DEF seqs, off, flat
    <3>3. QED
      BY <1>5, <2>1, <3>1, <3>2, Zenon
  <2>2. CASE n # 0
    <3>1. flat = g[n] /\ n \in 1 .. n
      BY <1>1, <1>3, <2>2
    <3> HIDE DEF seqs, off, flat
    <3>2. QED
      BY <1>4, <3>1 DEF FlatIs
  <2>3. QED
    BY <2>1, <2>2
<1> DEFINE o == off[n + 1]
<1> HIDE DEF seqs, off, flat
<1>7. IsCat(s1, flat, FullBoundary) /\ IsCat(s2, s1, dashes) /\ IsCat(s3, s2, Crlf)
  <2>1. FullBoundary \in Seq(Sym) /\ dashes \in Seq(Sym) /\ Crlf \in Seq(Sym)
    BY DEF FullBoundary, Crlf, Sym
  <2> HIDE DEF dashes
  <2>2. IsCat(s1, flat, FullBoundary)
    BY <1>6, <2>1, Cat, Zenon
  <2> HIDE DEF s1
  <2>3. IsCat(s2, s1, dashes)
    BY <2>1, <2>2, Cat, Zenon DEF IsCat
  <2> HIDE DEF s2
  <2>4. IsCat(s3, s2, Crlf)
    BY <2>1, <2>3, Cat, Zenon DEF IsCat
  <2>5. QED
    BY <2>2, <2>3, <2>4
<1> HIDE DEF s1, s2, s3
<1>8. Len(FullBoundary) = 3 /\ Len(dashes) = 2 /\ Len(Crlf) = 2
  BY DEF FullBoundary, Crlf
<1>9. Len(flat) = o /\ o \in Nat /\ Len(s1) = o + 3 /\ Len(s2) = o + 5 /\ Len(s3) = o + 7 /\ s3 \in Seq(Sym)
  <2> HIDE DEF o, dashes
  <2>1. /\ Len(flat) = o /\ Len(flat) \in Nat /\ s3 \in Seq(Sym) /\ Len(s1) = Len(flat) + 3
        /\ Len(s2) = Len(s1) + 2 /\ Len(s3) = Len(s2) + 2
    BY <1>6, <1>7, <1>8, Zenon DEF IsCat, o
  <2>2. QED
    BY <2>1
<1>10. EndAt(s3, o)
  <2>1. dashes[1] = "-" /\ dashes[2] = "-" /\ Crlf[1] = "r" /\ Crlf[2] = "n"
        /\ FullBoundary[1] = "-" /\ FullBoundary[2] = "-" /\ FullBoundary[3] = "b"
    BY DEF FullBoundary, Crlf
  <2> HIDE DEF dashes, o
  <2>2. s1[o + 1] = "-" /\ s1[o + 2] = "-" /\ s1[o + 3] = "b"
    BY <1>7, <1>8, <1>9, <2>1 DEF IsCat
  <2>3. s2[(o + 3) + 1] = "-" /\ s2[(o + 3) + 2] = "-" /\ \A i \in 1 .. o + 3 : s2[i] = s1[i]
    BY <1>7, <1>8, <1>9, <2>1 DEF IsCat
  <2>4. s3[(o + 5) + 1] = "r" /\ s3[(o + 5) + 2] = "n" /\ \A i \in 1 .. o + 5 : s3[i] = s2[i]
    BY <1>7, <1>8, <1>9, <2>1 DEF IsCat
  <2>5. /\ (o + 3) + 1 = o + 4 /\ (o + 3) + 2 = o + 5 /\ (o + 5) + 1 = o + 6 /\ (o + 5) + 2 = o + 7
        /\ o + 1 \in 1 .. o + 3 /\ o + 2 \in 1 .. o + 3 /\ o + 3 \in 1 .. o + 3
        /\ o + 1 \in 1 .. o + 5 /\ o + 2 \in 1 .. o + 5 /\ o + 3 \in 1 .. o + 5
        /\ o + 4 \in 1 .. o + 5 /\ o + 5 \in 1 .. o + 5
    BY <1>9
  <2>6. QED
    BY <2>2, <2>3, <2>4, <2>5, Zenon DEF EndAt
<1>11. ASSUME NEW k \in 1 .. n
       PROVE  /\ off[k] \in Nat /\ off[k + 1] = off[k] + 14 + Len(ps[k].content) /\ PartAt(s3, off[k], ps[k])
              /\ off[k] <= o
  <2> DEFINE l == Len(ps[k].content)
  <2>1. n # 0 /\ n \in 1 .. n /\ ps[k] \in Part
    OBVIOUS
  <2>2. l \in Nat
    BY <2>1, PartIs
  <2>3. off[k] \in Nat /\ PartAt(flat, off[k], ps[k]) /\ off[k] + 14 + l <= Len(flat)
        /\ off[k + 1] = off[k] + 14 + l
    BY <1>4, <1>6, <2>1, Zenon DEF FlatIs
  <2>4. off[k] + 14 + l <= Len(s1) /\ off[k] + 14 + l <= Len(s2) /\ off[k] <= o
    <3> HIDE DEF l, o
    <3>1. QED
      BY <1>9, <2>2, <2>3
  <2>5. PartAt(s1, off[k], ps[k])
    BY <1>7, <2>1, <2>3, PartStays, Zenon
  <2>6. PartAt(s2, off[k], ps[k])
    BY <1>7, <2>1, <2>3, <2>4, <2>5, PartStays, Zenon
  <2>7. PartAt(s3, off[k], ps[k])
    BY <1>7, <2>1, <2>3, <2>4, <2>6, PartStays, Zenon
  <2>8. QED
    BY <2>3, <2>4, <2>7
<1>12. ASSUME NEW k \in 1 .. n + 1 PROVE off[k] \in Nat /\ off[k] <= o
  <2>1. k \in 1 .. n \/ k = n + 1
    OBVIOUS
  <2>2. off[n + 1] \in Nat /\ off[n + 1] <= o
    BY <1>9
  <2>3. QED
    BY <1>11, <2>1, <2>2, Zenon
<1>13. Layout(ps, n, s3, off)
  BY <1>5, <1>9, <1>10, <1>11, <1>12 DEF Layout
<1>14. QED
  BY <1>3, <1>13

-----------------------------------------------------------------------------
(* The operators on texts. *)

\* The first place of a pattern of m symbols.
FirstAt(text, pattern, m, k) ==
  /\ m \in Nat /\ Len(text) \in Nat /\ Len(pattern) = m
  /\ k \in 1 .. Len(text) + 1 - m /\ SubSeq(text, k, k + m - 1) = pattern
  /\ \A i \in 1 .. k - 1 : SubSeq(text, i, i + m - 1) # pattern

LEMMA FindFirst ==
  ASSUME NEW text, NEW pattern, NEW m, NEW k, FirstAt(text, pattern, m, k)
  PROVE  Find(text, pattern) = k
<1> DEFINE at == {i \in 1 .. Len(text) + 1 - m : SubSeq(text, i, i + m - 1) = pattern}
<1>1. k \in at /\ at # {}
  BY Zenon DEF FirstAt
<1>2. at \subseteq Int /\ \A i \in at : k <= i
  <2>1. ASSUME NEW i \in at PROVE i \in Int /\ k <= i
    <3>1. i \in 1 .. Len(text) + 1 - m /\ SubSeq(text, i, i + m - 1) = pattern
      BY Zenon
    <3>2. i \notin 1 .. k - 1
      BY <3>1, Zenon DEF FirstAt
    <3>3. QED
      BY <3>1, <3>2 DEF FirstAt
  <2>2. QED
    BY <2>1
<1>3. Find(text, pattern) = CHOOSE i \in at : \A j \in at : i <= j
  BY <1>1 DEF Find, FirstAt
<1> HIDE DEF at
<1>4. \A i \in at : (\A j \in at : i <= j) => i = k
  BY <1>1, <1>2
<1>5. QED
  BY <1>1, <1>2, <1>3, <1>4, Zenon

LEMMA FindIsNat ==
  ASSUME NEW text, NEW pattern, Len(text) \in Nat, Len(pattern) \in Nat
  PROVE  Find(text, pattern) \in Nat
<1> DEFINE at == {i \in 1 .. Len(text) + 1 - Len(pattern) : SubSeq(text, i, i + Len(pattern) - 1) = pattern}
<1>1. at \subseteq Nat
  OBVIOUS
<1>2. Find(text, pattern) = IF at = {} THEN 0 ELSE CHOOSE i \in at : \A j \in at : i <= j
  BY Zenon DEF Find
<1> HIDE DEF at
<1>3. ASSUME at # {} PROVE \E i \in at : \A j \in at : i <= j
  BY <1>1, <1>3, HasFirst, Zenon
<1> DEFINE first == CHOOSE i \in at : \A j \in at : i <= j
<1>4. at # {} => first \in at
  BY <1>3, Zenon
<1> HIDE DEF first
<1>5. 0 \in Nat
  OBVIOUS
<1>6. Find(text, pattern) = IF at = {} THEN 0 ELSE first
  BY <1>2, Zenon DEF first
<1>7. QED
  BY <1>1, <1>4, <1>5, <1>6, Zenon

LEMMA FindNone ==
  ASSUME NEW text, NEW pattern,
         \A i \in 1 .. Len(text) + 1 - Len(pattern) : SubSeq(text, i, i + Len(pattern) - 1) # pattern
  PROVE  Find(text, pattern) = 0
BY DEF Find

\* What a piece of a text is.
LEMMA Piece ==
  ASSUME NEW text \in Seq(Sym), NEW i \in 1 .. Len(text), NEW m \in Nat, i + m - 1 <= Len(text)
  PROVE  /\ SubSeq(text, i, i + m - 1) \in Seq(Sym) /\ Len(SubSeq(text, i, i + m - 1)) = m
         /\ \A j \in 1 .. m : SubSeq(text, i, i + m - 1)[j] = text[i + j - 1]
<1> DEFINE e == i + m - 1
           u == SubSeq(text, i, e)
<1>1. i \in Int /\ e \in Int /\ e - i + 1 = m /\ (IF i <= e THEN e - i + 1 ELSE 0) = m
  OBVIOUS
<1>2. \A j \in i .. e : text[j] \in Sym
  OBVIOUS
<1> HIDE DEF e
<1>3. u \in Seq(Sym)
  BY <1>1, <1>2, SubSeqProperties, Zenon
<1>4. Len(u) = IF i <= e THEN e - i + 1 ELSE 0
  BY <1>1, SMT
<1>5. \A j \in 1 .. e - i + 1 : u[j] = text[i + j - 1]
  BY <1>1, SMT
<1>6. QED
  BY <1>1, <1>3, <1>4, <1>5 DEF e

\* A piece of two, three or four symbols.
LEMMA Match2 ==
  ASSUME NEW text \in Seq(Sym), NEW i \in 1 .. Len(text), i + 1 <= Len(text),
         NEW w \in Sym, NEW x \in Sym
  PROVE  SubSeq(text, i, i + 2 - 1) = <<w, x>>
           <=> text[i] = w /\ text[i + 1] = x
<1> DEFINE u == SubSeq(text, i, i + 2 - 1)
<1>1. u \in Seq(Sym) /\ Len(u) = 2 /\ \A j \in 1 .. 2 : u[j] = text[i + j - 1]
  <2>1. 2 \in Nat /\ i + 2 - 1 <= Len(text)
    OBVIOUS
  <2>2. QED
    BY <2>1, Piece
<1> HIDE DEF u
<1>2. u[1] = text[i] /\ u[2] = text[i + 1]
  BY <1>1
<1>3. u = <<w, x>> <=> u[1] = w /\ u[2] = x
  BY <1>1
<1>4. QED
  BY <1>2, <1>3 DEF u

LEMMA Match3 ==
  ASSUME NEW text \in Seq(Sym), NEW i \in 1 .. Len(text), i + 2 <= Len(text),
         NEW w \in Sym, NEW x \in Sym, NEW y \in Sym
  PROVE  SubSeq(text, i, i + 3 - 1) = <<w, x, y>>
           <=> text[i] = w /\ text[i + 1] = x /\ text[i + 2] = y
<1> DEFINE u == SubSeq(text, i, i + 3 - 1)
<1>1. u \in Seq(Sym) /\ Len(u) = 3 /\ \A j \in 1 .. 3 : u[j] = text[i + j - 1]
  <2>1. 3 \in Nat /\ i + 3 - 1 <= Len(text)
    OBVIOUS
  <2>2. QED
    BY <2>1, Piece
<1> HIDE DEF u
<1>2. u[1] = text[i] /\ u[2] = text[i + 1] /\ u[3] = text[i + 2]
  BY <1>1
<1>3. u = <<w, x, y>> <=> u[1] = w /\ u[2] = x /\ u[3] = y
  BY <1>1
<1>4. QED
  BY <1>2, <1>3 DEF u

LEMMA Match4 ==
  ASSUME NEW text \in Seq(Sym), NEW i \in 1 .. Len(text), i + 3 <= Len(text),
         NEW w \in Sym, NEW x \in Sym, NEW y \in Sym, NEW z \in Sym
  PROVE  SubSeq(text, i, i + 4 - 1) = <<w, x, y, z>>
           <=> text[i] = w /\ text[i + 1] = x /\ text[i + 2] = y /\ text[i + 3] = z
<1> DEFINE u == SubSeq(text, i, i + 4 - 1)
<1>1. u \in Seq(Sym) /\ Len(u) = 4 /\ \A j \in 1 .. 4 : u[j] = text[i + j - 1]
  <2>1. 4 \in Nat /\ i + 4 - 1 <= Len(text)
    OBVIOUS
  <2>2. QED
    BY <2>1, Piece
<1> HIDE DEF u
<1>2. u[1] = text[i] /\ u[2] = text[i + 1] /\ u[3] = text[i + 2] /\ u[4] = text[i + 3]
  BY <1>1
<1>3. u = <<w, x, y, z>> <=> u[1] = w /\ u[2] = x /\ u[3] = y /\ u[4] = z
  BY <1>1
<1>4. QED
  BY <1>2, <1>3 DEF u

\* What is left of a text is a text.
LEMMA FromIs ==
  ASSUME NEW text \in Seq(Sym), NEW i \in Nat, i >= 1
  PROVE  From(text, i) \in Seq(Sym)
<1> DEFINE n == Len(text)
<1>1. n \in Int /\ i \in Int /\ \A j \in i .. n : text[j] \in Sym
  OBVIOUS
<1> HIDE DEF n
<1>2. SubSeq(text, i, n) \in Seq(Sym)
  BY <1>1, SubSeqProperties, Zenon
<1>3. QED
  BY <1>2 DEF From, n

LEMMA SymIs == "r" \in Sym /\ "n" \in Sym /\ "-" \in Sym /\ "b" \in Sym /\ ":" \in Sym /\ "q" \in Sym
BY DEF Sym

LEMMA FindBoundary ==
  ASSUME NEW text \in Seq(Sym), NEW k \in 1 .. Len(text), k + 2 <= Len(text),
         text[k] = "-", text[k + 1] = "-", text[k + 2] = "b", \A i \in 1 .. k - 1 : text[i + 2] # "b"
  PROVE  Find(text, FullBoundary) = k
<1>1. Len(text) \in Nat /\ Len(FullBoundary) = 3
  BY DEF FullBoundary
<1>2. SubSeq(text, k, k + 3 - 1) = FullBoundary
  BY Match3, SymIs DEF FullBoundary
<1>3. ASSUME NEW i \in 1 .. k - 1 PROVE SubSeq(text, i, i + 3 - 1) # FullBoundary
  <2>1. i \in 1 .. Len(text) /\ i + 2 <= Len(text) /\ text[i + 2] # "b"
    BY <1>1
  <2>2. QED
    BY <2>1, Match3, SymIs DEF FullBoundary
<1>4. k \in 1 .. Len(text) + 1 - 3 /\ 3 \in Nat
  BY <1>1
<1>5. FirstAt(text, FullBoundary, 3, k)
  BY <1>1, <1>2, <1>3, <1>4 DEF FirstAt
<1>6. QED
  BY <1>5, FindFirst, Zenon

LEMMA NoBoundary ==
  ASSUME NEW text \in Seq(Sym), \A i \in 1 .. Len(text) : i > 2 => text[i] # "b"
  PROVE  Find(text, FullBoundary) = 0
<1>1. Len(text) \in Nat /\ Len(FullBoundary) = 3
  BY DEF FullBoundary
<1>2. ASSUME NEW i \in 1 .. Len(text) + 1 - 3 PROVE SubSeq(text, i, i + 3 - 1) # FullBoundary
  <2>1. i \in 1 .. Len(text) /\ i + 2 <= Len(text) /\ i + 2 \in 1 .. Len(text) /\ i + 2 > 2
    BY <1>1
  <2>2. text[i + 2] # "b"
    BY <2>1
  <2>3. QED
    BY <2>1, <2>2, Match3, SymIs DEF FullBoundary
<1>3. QED
  BY <1>1, <1>2, FindNone, Zenon

LEMMA FindBreaks ==
  ASSUME NEW text \in Seq(Sym), NEW k \in 1 .. Len(text), k + 3 <= Len(text),
         text[k] = "r", text[k + 1] = "n", text[k + 2] = "r", text[k + 3] = "n",
         \A i \in 1 .. k - 1 : ~(text[i] = "r" /\ text[i + 2] = "r")
  PROVE  Find(text, <<"r", "n", "r", "n">>) = k
<1> DEFINE breaks == <<"r", "n", "r", "n">>
<1>1. Len(text) \in Nat /\ Len(breaks) = 4
  OBVIOUS
<1>2. SubSeq(text, k, k + 4 - 1) = breaks
  BY Match4, SymIs, SMTT(30)
<1>3. ASSUME NEW i \in 1 .. k - 1 PROVE SubSeq(text, i, i + 4 - 1) # breaks
  <2>1. i \in 1 .. Len(text) /\ i + 3 <= Len(text)
    BY <1>1
  <2>2. QED
    BY <2>1, Match4, SymIs
<1>4. k \in 1 .. Len(text) + 1 - 4 /\ 4 \in Nat
  BY <1>1
<1> HIDE DEF breaks
<1>5. FirstAt(text, breaks, 4, k)
  BY <1>1, <1>2, <1>3, <1>4 DEF FirstAt
<1>6. QED
  BY <1>5, FindFirst, Zenon DEF breaks

LEMMA NoBreaks ==
  ASSUME NEW text \in Seq(Sym), \A i \in 1 .. Len(text) : i + 3 <= Len(text) => ~(text[i] = "r" /\ text[i + 2] = "r")
  PROVE  Find(text, <<"r", "n", "r", "n">>) = 0
<1> DEFINE breaks == <<"r", "n", "r", "n">>
<1>1. Len(text) \in Nat /\ Len(breaks) = 4
  OBVIOUS
<1>2. ASSUME NEW i \in 1 .. Len(text) + 1 - 4 PROVE SubSeq(text, i, i + 4 - 1) # breaks
  <2>1. i \in 1 .. Len(text) /\ i + 3 <= Len(text)
    BY <1>1
  <2>2. QED
    BY <2>1, Match4, SymIs
<1> HIDE DEF breaks
<1>3. Find(text, breaks) = 0
  BY <1>1, <1>2, FindNone, Zenon
<1>4. QED
  BY <1>3 DEF breaks

LEMMA NoFeeds ==
  ASSUME NEW text \in Seq(Sym), \A i \in 1 .. Len(text) : i + 1 <= Len(text) => ~(text[i] = "n" /\ text[i + 1] = "n")
  PROVE  Find(text, <<"n", "n">>) = 0
<1> DEFINE feeds == <<"n", "n">>
<1>1. Len(text) \in Nat /\ Len(feeds) = 2
  OBVIOUS
<1>2. ASSUME NEW i \in 1 .. Len(text) + 1 - 2 PROVE SubSeq(text, i, i + 2 - 1) # feeds
  <2>1. i \in 1 .. Len(text) /\ i + 1 <= Len(text)
    BY <1>1
  <2>2. QED
    BY <2>1, Match2, SymIs
<1> HIDE DEF feeds
<1>3. Find(text, feeds) = 0
  BY <1>1, <1>2, FindNone, Zenon
<1>4. QED
  BY <1>3 DEF feeds

LEMMA PrefixIs ==
  ASSUME NEW text \in Seq(Sym), NEW x \in Sym, NEW y \in Sym
  PROVE  /\ IsPrefix(<<x, y>>, text) <=> Len(text) >= 2 /\ text[1] = x /\ text[2] = y
         /\ IsPrefix(<<x>>, text) <=> Len(text) >= 1 /\ text[1] = x
<1>1. Len(<<x, y>>) = 2 /\ Len(<<x>>) = 1 /\ <<x, y>> \in Seq(Sym) /\ <<x>> \in Seq(Sym)
  OBVIOUS
<1>2. Len(text) \in Nat /\ SubSeq(<<x, y>>, 1, 2) = <<x, y>> /\ SubSeq(<<x>>, 1, 1) = <<x>>
  <2>1. Len(text) \in Nat
    OBVIOUS
  <2>2. SubSeq(<<x, y>>, 1, Len(<<x, y>>)) = <<x, y>> /\ SubSeq(<<x>>, 1, Len(<<x>>)) = <<x>>
    BY <1>1, SubSeqFull, Zenon
  <2>3. QED
    BY <1>1, <2>1, <2>2, Zenon
<1>3. ASSUME Len(text) >= 2 PROVE SubSeq(text, 1, 2) = <<x, y>> <=> text[1] = x /\ text[2] = y
  <2>1. 1 \in 1 .. Len(text) /\ 1 + 1 <= Len(text) /\ 1 + 2 - 1 = 2 /\ 1 + 1 = 2
    BY <1>2, <1>3
  <2>2. SubSeq(text, 1, 1 + 2 - 1) = <<x, y>> <=> text[1] = x /\ text[1 + 1] = y
    BY <2>1, Match2
  <2>3. QED
    BY <2>1, <2>2
<1>4. ASSUME Len(text) >= 1 PROVE SubSeq(text, 1, 1) = <<x>> <=> text[1] = x
  <2>1. 1 \in 1 .. Len(text) /\ 1 + 1 - 1 = 1 /\ 1 \in Nat
    BY <1>2, <1>4
  <2> DEFINE u == SubSeq(text, 1, 1)
  <2>2. u \in Seq(Sym) /\ Len(u) = 1 /\ u[1] = text[1]
    BY <1>2, <2>1, Piece
  <2> HIDE DEF u
  <2>3. u = <<x>> <=> u[1] = x
    BY <2>2
  <2>4. QED
    BY <2>2, <2>3 DEF u
<1>5. QED
  BY <1>2, <1>1, <1>3, <1>4 DEF IsPrefix

\* A buffer that holds the symbols a + 1 .. f of a text.
Window(buf, text, a, f) ==
  /\ buf \in Seq(Sym) /\ a \in Nat /\ f \in Nat /\ a <= f /\ f <= Len(text) /\ Len(buf) = f - a
  /\ \A i \in 1 .. f - a : buf[i] = text[a + i]

LEMMA WindowFrom ==
  ASSUME NEW text \in Seq(Sym), NEW buf, NEW a, NEW f, Window(buf, text, a, f), NEW d \in 0 .. f - a
  PROVE  Window(From(buf, d + 1), text, a + d, f)
<1> DEFINE u == SubSeq(buf, d + 1, f - a)
<1>1. /\ buf \in Seq(Sym) /\ a \in Nat /\ f \in Nat /\ a <= f /\ f <= Len(text) /\ Len(buf) = f - a
      /\ \A i \in 1 .. f - a : buf[i] = text[a + i]
  BY DEF Window
<1>2. u = From(buf, d + 1) /\ d \in Nat
  <2>1. d \in Nat
    BY <1>1
  <2>2. QED
    BY <1>1, <2>1, Zenon DEF From
<1>3. CASE d = f - a
  <2>1. u = <<>> /\ a + d = f
    BY <1>1, <1>3
  <2>2. <<>> \in Seq(Sym) /\ Len(<<>>) = 0 /\ f - f = 0 /\ 1 .. 0 = {}
    BY <1>1
  <2> HIDE DEF u
  <2>3. Window(u, text, f, f)
    BY <1>1, <2>1, <2>2 DEF Window
  <2>4. QED
    BY <1>2, <2>1, <2>3, Zenon
<1>4. CASE d # f - a
  <2> DEFINE m == (f - a) - d
  <2>1. /\ d + 1 \in 1 .. Len(buf) /\ m \in Nat /\ (d + 1) + m - 1 = f - a /\ f - (a + d) = m
        /\ a + d \in Nat /\ a + d <= f
    BY <1>1, <1>2, <1>4
  <2> HIDE DEF m
  <2>2. /\ u \in Seq(Sym) /\ Len(u) = m /\ \A j \in 1 .. m : u[j] = buf[d + 1 + j - 1]
    <3> DEFINE e == d + 1
    <3>1. e \in 1 .. Len(buf) /\ e + m - 1 <= Len(buf) /\ e + m - 1 = f - a
      BY <1>1, <1>2, <2>1
    <3> HIDE DEF e
    <3>2. /\ SubSeq(buf, e, e + m - 1) \in Seq(Sym) /\ Len(SubSeq(buf, e, e + m - 1)) = m
          /\ \A j \in 1 .. m : SubSeq(buf, e, e + m - 1)[j] = buf[e + j - 1]
      BY <1>1, <2>1, <3>1, Piece
    <3>3. QED
      BY <3>1, <3>2, Zenon DEF e
  <2> HIDE DEF u
  <2>3. ASSUME NEW j \in 1 .. m PROVE u[j] = text[a + d + j]
    <3>1. d + 1 + j - 1 \in 1 .. f - a /\ a + (d + 1 + j - 1) = a + d + j
      BY <1>1, <1>2, <2>1 DEF m
    <3>2. QED
      BY <1>1, <2>2, <3>1
  <2>4. QED
    BY <1>1, <1>2, <2>1, <2>2, <2>3 DEF Window
<1>5. QED
  BY <1>3, <1>4

\* A chunk is taken from what is left and put behind the buffer.
LEMMA WindowFeed ==
  ASSUME NEW text \in Seq(Sym), NEW buf, NEW left, NEW a, NEW f, NEW n \in 1 .. Len(left),
         Window(buf, text, a, f), Window(left, text, f, Len(text))
  PROVE  /\ f + n <= Len(text)
         /\ Window(buf \o SubSeq(left, 1, n), text, a, f + n)
         /\ Window(From(left, n + 1), text, f + n, Len(text))
<1> DEFINE c == SubSeq(left, 1, n)
           b == buf \o c
<1>1. /\ buf \in Seq(Sym) /\ a \in Nat /\ f \in Nat /\ a <= f /\ f <= Len(text) /\ Len(buf) = f - a
      /\ \A i \in 1 .. f - a : buf[i] = text[a + i]
  BY DEF Window
<1>2. /\ left \in Seq(Sym) /\ Len(text) \in Nat /\ Len(left) = Len(text) - f
      /\ \A i \in 1 .. Len(left) : left[i] = text[f + i]
  BY DEF Window
<1>3. n \in Nat /\ n >= 1 /\ n <= Len(left) /\ f + n <= Len(text) /\ f + n \in Nat /\ n \in 0 .. Len(text) - f
  BY <1>1, <1>2
<1>4. Window(From(left, n + 1), text, f + n, Len(text))
  BY <1>3, WindowFrom
<1>5. c \in Seq(Sym) /\ Len(c) = n /\ \A j \in 1 .. n : c[j] = left[j]
  <2>1. 1 \in 1 .. Len(left) /\ 1 + n - 1 = n
    BY <1>2, <1>3
  <2>2. c \in Seq(Sym) /\ Len(c) = n /\ \A j \in 1 .. n : c[j] = left[1 + j - 1]
    BY <1>2, <1>3, <2>1, Piece
  <2>3. \A j \in 1 .. n : 1 + j - 1 = j
    OBVIOUS
  <2>4. QED
    BY <2>2, <2>3
<1> HIDE DEF c
<1>6. IsCat(b, buf, c)
  BY <1>1, <1>5, Cat, Zenon
<1> HIDE DEF b
<1>7. /\ b \in Seq(Sym) /\ Len(b) = (f - a) + n /\ \A i \in 1 .. f - a : b[i] = buf[i]
      /\ \A j \in 1 .. n : b[(f - a) + j] = c[j]
  BY <1>1, <1>5, <1>6 DEF IsCat
<1>8. ASSUME NEW i \in 1 .. (f + n) - a PROVE b[i] = text[a + i]
  <2>1. CASE i <= f - a
    <3>1. i \in 1 .. f - a
      BY <1>1, <2>1
    <3>2. QED
      BY <1>1, <1>7, <3>1
  <2>2. CASE ~(i <= f - a)
    <3> DEFINE j == i - (f - a)
    <3>1. j \in 1 .. n /\ j \in 1 .. Len(left) /\ (f - a) + j = i /\ f + j = a + i
      BY <1>1, <1>2, <1>3, <2>2
    <3> HIDE DEF j
    <3>2. b[i] = left[j] /\ left[j] = text[f + j]
      BY <1>2, <1>5, <1>7, <3>1, Zenon
    <3>3. QED
      BY <3>1, <3>2
  <2>3. QED
    BY <2>1, <2>2
<1>9. Len(b) = (f + n) - a /\ a <= f + n
  BY <1>1, <1>3, <1>7
<1>10. Window(b, text, a, f + n)
  BY <1>1, <1>3, <1>7, <1>8, <1>9 DEF Window
<1>11. QED
  BY <1>3, <1>4, <1>10 DEF b, c

-----------------------------------------------------------------------------
(* A parser, and what every round keeps. *)

ParserState == {"Boundary", "Headers", "Content", "Complete", "Error"}

Shape(q) ==
  /\ DOMAIN q = {"state", "buffer", "field", "size", "result", "reported", "flushed"}
  /\ q.state \in ParserState /\ q.buffer \in Seq(Sym)

\* A buffer that was thrown away stays thrown away.
Succeeds(q, p) == Shape(q) /\ (p.flushed => q.flushed)

LEMMA WriteSucceeds ==
  ASSUME NEW p, Shape(p), NEW n
  PROVE  Succeeds(WriteContentData(p, n), p)
<1> DEFINE q == [p EXCEPT !.size = @ + n]
<1>1. Succeeds(q, p)
  BY DEF Succeeds, Shape
<1>2. Succeeds(Failed(q), p)
  <2>1. Shape(q) /\ (p.flushed => q.flushed)
    BY <1>1 DEF Succeeds
  <2> HIDE DEF q
  <2>2. QED
    BY <2>1 DEF Succeeds, Shape, Failed, ParserState
<1>3. Succeeds(p, p)
  BY DEF Succeeds
<1>4. WriteContentData(p, n) \in {p, q, Failed(q)}
  BY DEF WriteContentData
<1>5. QED
  BY <1>1, <1>2, <1>3, <1>4, Zenon

LEMMA ProcessSucceeds ==
  ASSUME NEW p, Shape(p), p.state \in {"Boundary", "Headers", "Content"}
  PROVE  \E q : Succeeds(q, p) /\ Process(p) \in {<<q, TRUE>>, <<q, FALSE>>}
<1>0. /\ p.buffer \in Seq(Sym) /\ Len(p.buffer) \in Nat /\ Len(FullBoundary) = 3
      /\ Len(<<"r", "n", "r", "n">>) = 4 /\ Len(<<"n", "n">>) = 2
  BY DEF Shape, FullBoundary
<1>1. CASE p.state = "Boundary"
  <2> DEFINE at == Find(p.buffer, FullBoundary)
             text == From(p.buffer, at + Len(FullBoundary))
             x == IF TooLong(p) THEN Failed(p) ELSE p
             y == [p EXCEPT !.buffer = text, !.state = "Complete"]
             z == [p EXCEPT !.buffer = AfterBoundary(text), !.state = "Headers"]
  <2>1. Process(p) = ProcessBoundary(p)
    BY <1>1 DEF Process
  <2>2. ProcessBoundary(p) \in {<<x, FALSE>>, <<y, TRUE>>, <<z, TRUE>>}
    BY DEF ProcessBoundary
  <2>5. text \in Seq(Sym)
    <3>1. at \in Nat /\ 3 \in Nat
      BY <1>0, FindIsNat
    <3> HIDE DEF at
    <3>2. at + Len(FullBoundary) \in Nat /\ at + Len(FullBoundary) >= 1
      BY <1>0, <3>1
    <3>3. QED
      BY <1>0, <3>2, FromIs
  <2> HIDE DEF at, text
  <2>6. AfterBoundary(text) \in Seq(Sym)
    <3>1. From(text, 3) \in Seq(Sym) /\ From(text, 2) \in Seq(Sym)
      BY <2>5, FromIs
    <3>2. QED
      BY <2>5, <3>1 DEF AfterBoundary
  <2>3. Succeeds(x, p) /\ Succeeds(y, p) /\ Succeeds(z, p)
    BY <2>5, <2>6 DEF Succeeds, Shape, Failed, ParserState
  <2> HIDE DEF x, y, z
  <2>4. QED
    BY <2>1, <2>2, <2>3, Zenon
<1>2. CASE p.state = "Headers"
  <2> DEFINE crlf == Find(p.buffer, <<"r", "n", "r", "n">>)
             lf   == Find(p.buffer, <<"n", "n">>)
             end  == IF crlf # 0 THEN crlf + 3 ELSE lf + 1
             y == [p EXCEPT !.field = NameIn(HeaderData(p.buffer, end)), !.buffer = From(p.buffer, end + 1),
                            !.size = 0, !.state = "Content"]
  <2>1. Process(p) = ProcessHeaders(p)
    BY <1>2 DEF Process
  <2>2. ProcessHeaders(p) \in {<<p, FALSE>>, <<y, TRUE>>}
    BY DEF ProcessHeaders
  <2>5. From(p.buffer, end + 1) \in Seq(Sym)
    <3>1. crlf \in Nat /\ lf \in Nat
      BY <1>0, FindIsNat
    <3> HIDE DEF crlf, lf
    <3>2. end + 1 \in Nat /\ end + 1 >= 1
      BY <3>1
    <3> HIDE DEF end
    <3>3. QED
      BY <1>0, <3>2, FromIs
  <2> HIDE DEF end
  <2>3. Succeeds(p, p) /\ Succeeds(y, p)
    BY <2>5 DEF Succeeds, Shape, ParserState
  <2> HIDE DEF y
  <2>4. QED
    BY <2>1, <2>2, <2>3, Zenon
<1>3. CASE p.state = "Content"
  <2> DEFINE at == Find(p.buffer, FullBoundary)
             end == ContentEnd(p.buffer, at)
             written == IF end > 0 THEN WriteContentData(p, end) ELSE p
             w == WriteContentData(p, Len(p.buffer) - Len(FullBoundary) - Margin)
             x == [w EXCEPT !.buffer = <<>>, !.flushed = TRUE]
             v == FinalizeCurrentField(written)
             y == [v EXCEPT !.buffer = From(p.buffer, at), !.state = "Boundary"]
  <2>1. Process(p) = ProcessContent(p)
    BY <1>3 DEF Process
  <2>2. ProcessContent(p) \in {<<x, FALSE>>, <<p, FALSE>>} \/ (at # 0 /\ ProcessContent(p) = <<y, TRUE>>)
    BY DEF ProcessContent
  <2>3. Succeeds(p, p)
    BY DEF Succeeds
  <2>4. Succeeds(w, p) /\ Succeeds(written, p)
    BY <2>3, WriteSucceeds
  <2> HIDE DEF w, written, at, end
  <2>5. Succeeds(x, p)
    BY <2>4, EmptySeq DEF Succeeds, Shape
  <2>6. Succeeds(v, p)
    BY <2>4 DEF Succeeds, Shape, FinalizeCurrentField
  <2> HIDE DEF v
  <2>7. at # 0 => Succeeds(y, p)
    <3>1. at \in Nat
      BY <1>0, FindIsNat DEF at
    <3>2. SUFFICES ASSUME at # 0 PROVE Succeeds(y, p)
      OBVIOUS
    <3>3. From(p.buffer, at) \in Seq(Sym)
      BY <1>0, <3>1, <3>2, FromIs
    <3>4. QED
      BY <2>6, <3>3 DEF Succeeds, Shape, ParserState
  <2> HIDE DEF x, y
  <2>8. QED
    BY <2>1, <2>2, <2>3, <2>5, <2>7, Zenon
<1>4. QED
  BY <1>1, <1>2, <1>3

-----------------------------------------------------------------------------
(* What is counted of a content. *)

LEMMA HasLast ==
  ASSUME NEW m \in Nat, NEW S \in SUBSET (1 .. m), S # {}
  PROVE  \E x \in S : \A y \in S : y <= x
<1> DEFINE P == {k \in Nat : \A T \in SUBSET (1 .. k) : T # {} => \E x \in T : \A y \in T : y <= x}
<1>1. 0 \in P
  <2>1. 1 .. 0 = {}
    OBVIOUS
  <2>2. QED
    BY <2>1
<1>2. ASSUME NEW k \in Nat, k \in P PROVE k + 1 \in P
  <2> SUFFICES ASSUME NEW T \in SUBSET (1 .. k + 1), T # {} PROVE \E x \in T : \A y \in T : y <= x
    OBVIOUS
  <2>1. CASE k + 1 \in T
    BY <2>1
  <2>2. CASE k + 1 \notin T
    <3>1. T \in SUBSET (1 .. k)
      BY <2>2
    <3>2. QED
      BY <1>2, <3>1
  <2>3. QED
    BY <2>1, <2>2
<1> HIDE DEF P
<1>3. m \in P
  BY <1>1, <1>2, Induction, Zenon
<1>4. QED
  BY <1>3 DEF P

LEMMA CountedIs ==
  ASSUME NEW p \in Part
  PROVE  Counted(p) \in Nat
<1> DEFINE l == Len(p.content)
           kept == {i \in 1 .. (l + 1) - 1 : p.content[i] \notin {"r", "n"}}
           last == CHOOSE i \in kept : \A j \in kept : j <= i
<1>1. l \in Nat /\ (l + 1) - 1 = l
  BY PartIs
<1>2. Counted(p) = IF kept = {} THEN 0 ELSE last
  BY Zenon DEF Counted, ContentEnd
<1>3. kept \in SUBSET (1 .. l)
  BY <1>1
<1> HIDE DEF kept
<1>4. ASSUME kept # {} PROVE last \in kept
  BY <1>1, <1>3, <1>4, HasLast, Zenon
<1> HIDE DEF last, l
<1>5. \A i \in kept : i \in Nat
  BY <1>1, <1>3
<1>6. QED
  BY <1>2, <1>4, <1>5

LEMMA CountedInBuffer ==
  ASSUME NEW p \in Part, NEW buf, \A i \in 1 .. Len(p.content) : buf[i] = p.content[i],
         buf[Len(p.content) + 1] = "r", buf[Len(p.content) + 2] = "n"
  PROVE  ContentEnd(buf, Len(p.content) + 3) = Counted(p)
<1> DEFINE l == Len(p.content)
           A == {i \in 1 .. (l + 3) - 1 : buf[i] \notin {"r", "n"}}
           B == {i \in 1 .. (l + 1) - 1 : p.content[i] \notin {"r", "n"}}
<1>1. l \in Nat /\ (l + 1) - 1 = l /\ (l + 3) - 1 = l + 2
  BY PartIs
<1>2. A = B
  <2> HIDE DEF l
  <2>1. \A i \in 1 .. l + 2 : i \in 1 .. l \/ i = l + 1 \/ i = l + 2
    BY <1>1
  <2>2. \A i \in 1 .. l : i \in 1 .. l + 2
    BY <1>1
  <2>3. (\A i \in 1 .. l : buf[i] = p.content[i]) /\ buf[l + 1] = "r" /\ buf[l + 2] = "n"
    BY Zenon DEF l
  <2>4. A \subseteq B
    BY <1>1, <2>1, <2>3, Zenon
  <2>5. B \subseteq A
    BY <1>1, <2>2, <2>3, Zenon
  <2>6. QED
    BY <2>4, <2>5
<1>3. ContentEnd(buf, l + 3) = IF A = {} THEN 0 ELSE CHOOSE i \in A : \A j \in A : j <= i
  BY Zenon DEF ContentEnd
<1>4. Counted(p) = IF B = {} THEN 0 ELSE CHOOSE i \in B : \A j \in B : j <= i
  BY Zenon DEF Counted, ContentEnd
<1> HIDE DEF A, B
<1>5. QED
  BY <1>2, <1>3, <1>4, Zenon

-----------------------------------------------------------------------------
(* The rounds of feed_data over a body that is sent with CRLF. *)

\* The parser has read k parts and holds the symbols a + 1 .. f of the text.
Good(ps, n, text, off, q, k, a, f) ==
  /\ Shape(q) /\ k \in 0 .. n /\ Window(q.buffer, text, a, f)
  /\ q.result = [i \in 1 .. k |-> ps[i].name]
  /\ q.reported = (\E i \in 1 .. k : Oversized(ps[i]))
  /\ \/ q.state = "Boundary" /\ a = off[k + 1]
     \/ q.state = "Headers" /\ k < n /\ a \in {off[k + 1] + 3, off[k + 1] + 5}
     \/ q.state = "Content" /\ k < n /\ a = off[k + 1] + 12 /\ q.field = ps[k + 1].name /\ q.size = 0
     \/ q.state = "Complete" /\ k = n

\* It waits for more of the text, or has it all.
Waits(ps, n, text, off, q, k, a, f) ==
  \/ q.state = "Boundary" /\ f < off[k + 1] + 3
  \/ q.state = "Headers" /\ f < off[k + 1] + 12
  \/ q.state = "Content" /\ f < off[k + 2] + 3
  \/ q.state = "Complete"

\* No chunk ends inside the "--" of the end boundary.
Spared(n, off, f) == f # off[n + 1] + 3 /\ f # off[n + 1] + 4

\* Where a boundary is.
BoundaryAt(text, o) ==
  /\ o \in Nat /\ text \in Seq(Sym) /\ Len(text) \in Nat /\ o + 7 <= Len(text)
  /\ text[o + 1] = "-" /\ text[o + 2] = "-" /\ text[o + 3] = "b"

LEMMA BoundaryThere ==
  ASSUME NEW n \in Nat, NEW ps \in [1 .. n -> Part], NEW text, NEW off, Layout(ps, n, text, off),
         NEW k \in 1 .. n + 1
  PROVE  BoundaryAt(text, off[k])
<1>1. /\ off[k] \in Nat /\ text \in Seq(Sym) /\ Len(text) \in Nat /\ off[n + 1] \in Nat
      /\ Len(text) = off[n + 1] + 7 /\ off[k] <= off[n + 1]
  BY DEF Layout
<1>2. off[k] + 7 <= Len(text)
  BY <1>1
<1>3. CASE k \in 1 .. n
  BY <1>1, <1>2, <1>3 DEF Layout, PartAt, HeadAt, BoundaryAt
<1>4. CASE k = n + 1
  BY <1>1, <1>2, <1>4 DEF Layout, EndAt, BoundaryAt
<1>5. QED
  BY <1>3, <1>4

\* The parser looks for a boundary: it is where the buffer begins.
LEMMA BoundaryRound ==
  ASSUME NEW n \in Nat, NEW ps \in [1 .. n -> Part], NEW text, NEW off, Layout(ps, n, text, off),
         NEW p, NEW k, NEW a, NEW f, Good(ps, n, text, off, p, k, a, f), Spared(n, off, f),
         p.state = "Boundary"
  PROVE  \/ Process(p) = <<p, FALSE>> /\ Waits(ps, n, text, off, p, k, a, f)
         \/ \E q, b : /\ Process(p) = <<q, TRUE>> /\ Good(ps, n, text, off, q, k, b, f)
                      /\ Len(q.buffer) < Len(p.buffer)
<1> DEFINE o == off[k + 1]
           buf == p.buffer
<1>1. /\ Shape(p) /\ k \in 0 .. n /\ Window(buf, text, a, f) /\ p.result = [i \in 1 .. k |-> ps[i].name]
      /\ p.reported = (\E i \in 1 .. k : Oversized(ps[i])) /\ a = o
  BY DEF Good
<1>2. k + 1 \in 1 .. n + 1
  BY <1>1
<1>3. /\ o \in Nat /\ text \in Seq(Sym) /\ Len(text) \in Nat /\ o + 7 <= Len(text)
      /\ text[o + 1] = "-" /\ text[o + 2] = "-" /\ text[o + 3] = "b"
  <2>1. BoundaryAt(text, o)
    BY <1>2, BoundaryThere, Zenon
  <2>2. QED
    BY <2>1 DEF BoundaryAt
<1>4. /\ buf \in Seq(Sym) /\ f \in Nat /\ o <= f /\ f <= Len(text) /\ Len(buf) = f - o
      /\ \A i \in 1 .. f - o : buf[i] = text[o + i]
  BY <1>1 DEF Window
<1>5. Process(p) = ProcessBoundary(p)
  BY DEF Process
<1>6. Len(FullBoundary) = 3
  BY DEF FullBoundary
<1> HIDE DEF o, buf
<1>7. CASE f < o + 3
  <2>1. Len(buf) < 3 /\ Len(buf) \in Nat
    BY <1>3, <1>4, <1>7
  <2>2. Find(buf, FullBoundary) = 0
    <3>1. \A i \in 1 .. Len(buf) : i > 2 => buf[i] # "b"
      BY <2>1
    <3>2. QED
      BY <1>4, <3>1, NoBoundary, Zenon
  <2>3. ~TooLong(p)
    BY <1>6, <2>1, StreamAssumption DEF TooLong, buf
  <2>4. ProcessBoundary(p) = <<p, FALSE>>
    BY <2>2, <2>3 DEF ProcessBoundary, buf
  <2>5. QED
    BY <1>5, <1>7, <2>4 DEF Waits, o
<1>8. CASE ~(f < o + 3)
  <2> DEFINE rem == From(buf, 4)
  <2>1. f >= o + 3 /\ Len(buf) >= 3 /\ 1 \in 1 .. Len(buf) /\ 1 + 2 <= Len(buf) /\ 3 \in 0 .. f - o
        /\ buf[1] = "-" /\ buf[1 + 1] = "-" /\ buf[1 + 2] = "b" /\ 1 .. 1 - 1 = {}
    BY <1>3, <1>4, <1>8
  <2>2. Find(buf, FullBoundary) = 1
    BY <1>4, <2>1, FindBoundary
  <2>3. Window(rem, text, o + 3, f)
    <3>1. Window(From(buf, 3 + 1), text, o + 3, f)
      BY <1>1, <1>3, <2>1, WindowFrom, Zenon
    <3>2. QED
      BY <3>1
  <2>10. From(p.buffer, Find(p.buffer, FullBoundary) + Len(FullBoundary)) = rem /\ Find(p.buffer, FullBoundary) # 0
    BY <1>6, <2>2 DEF buf
  <2> HIDE DEF rem
  <2>4. rem \in Seq(Sym) /\ Len(rem) = f - (o + 3) /\ \A i \in 1 .. f - (o + 3) : rem[i] = text[(o + 3) + i]
    BY <2>3 DEF Window
  <2>5. /\ f >= o + 4 => rem[1] = text[o + 4]
        /\ f >= o + 5 => rem[2] = text[o + 5]
        /\ (Len(rem) >= 1 <=> f >= o + 4) /\ (Len(rem) >= 2 <=> f >= o + 5)
    <3>1. (o + 3) + 1 = o + 4 /\ (o + 3) + 2 = o + 5
      BY <1>3
    <3>2. /\ f >= o + 4 => 1 \in 1 .. f - (o + 3)
          /\ f >= o + 5 => 2 \in 1 .. f - (o + 3)
          /\ (f - (o + 3) >= 1 <=> f >= o + 4) /\ (f - (o + 3) >= 2 <=> f >= o + 5)
      BY <1>3, <1>4
    <3>3. QED
      BY <2>4, <3>1, <3>2, Zenon
  <2>6. /\ IsPrefix(<<"-", "-">>, rem) <=> Len(rem) >= 2 /\ rem[1] = "-" /\ rem[2] = "-"
        /\ IsPrefix(<<"r", "n">>, rem) <=> Len(rem) >= 2 /\ rem[1] = "r" /\ rem[2] = "n"
        /\ IsPrefix(<<"n">>, rem) <=> Len(rem) >= 1 /\ rem[1] = "n"
    BY <2>4, PrefixIs, SymIs
  <2>7. CASE k = n
    <3>1. f >= o + 5 /\ text[o + 4] = "-" /\ text[o + 5] = "-"
      <4>1. f # o + 3 /\ f # o + 4
        BY <2>7 DEF Spared, o
      <4>2. EndAt(text, o)
        BY <2>7 DEF Layout, o
      <4>3. QED
        BY <1>3, <1>4, <2>1, <4>1, <4>2 DEF EndAt
    <3>2. IsPrefix(<<"-", "-">>, rem)
      BY <1>3, <1>4, <2>5, <2>6, <3>1
    <3> DEFINE q == [p EXCEPT !.buffer = rem, !.state = "Complete"]
    <3>3. Process(p) = <<q, TRUE>>
      BY <1>5, <2>10, <3>2, Zenon DEF ProcessBoundary
    <3>4. /\ Shape(q) /\ q.buffer = rem /\ q.state = "Complete" /\ q.result = p.result /\ q.reported = p.reported
      BY <1>1, <2>4 DEF Shape, ParserState
    <3> HIDE DEF q
    <3>5. Good(ps, n, text, off, q, k, o + 3, f)
      BY <1>1, <2>3, <2>7, <3>4 DEF Good
    <3>6. Len(q.buffer) < Len(p.buffer)
      BY <1>3, <1>4, <2>4, <3>4 DEF buf
    <3>7. QED
      BY <3>3, <3>5, <3>6
  <2>8. CASE k # n
    <3>1. k + 1 \in 1 .. n /\ k < n
      BY <1>1, <2>8
    <3>2. text[o + 4] = "r" /\ text[o + 5] = "n"
      BY <3>1 DEF Layout, PartAt, HeadAt, o
    <3>3. ~IsPrefix(<<"-", "-">>, rem)
      BY <1>3, <1>4, <2>5, <2>6, <3>2
    <3> DEFINE q == [p EXCEPT !.buffer = AfterBoundary(rem), !.state = "Headers"]
    <3>4. Process(p) = <<q, TRUE>>
      BY <1>5, <2>10, <3>3, Zenon DEF ProcessBoundary
    <3>5. /\ Shape(q) /\ q.buffer = AfterBoundary(rem) /\ q.state = "Headers"
          /\ q.result = p.result /\ q.reported = p.reported
      <4>1. AfterBoundary(rem) \in Seq(Sym)
        <5>1. From(rem, 3) \in Seq(Sym) /\ From(rem, 2) \in Seq(Sym)
          <6>1. 3 \in Nat /\ 3 >= 1 /\ 2 \in Nat /\ 2 >= 1
            OBVIOUS
          <6>2. QED
            BY <2>4, <6>1, FromIs, Zenon
        <5>2. QED
          BY <2>4, <5>1 DEF AfterBoundary
      <4>2. QED
        BY <1>1, <4>1 DEF Shape, ParserState
    <3> HIDE DEF q
    <3>6. CASE f >= o + 5
      <4>1. AfterBoundary(rem) = From(rem, 3)
        BY <1>3, <1>4, <2>5, <2>6, <3>2, <3>6, SMTT(30) DEF AfterBoundary
      <4>2. Window(From(rem, 2 + 1), text, (o + 3) + 2, f) /\ 2 + 1 = 3 /\ (o + 3) + 2 = o + 5
        <5>1. 2 \in 0 .. f - (o + 3) /\ (o + 3) + 2 = o + 5
          BY <1>3, <1>4, <3>6
        <5>2. QED
          BY <1>3, <2>3, <5>1, WindowFrom
      <4>3. Window(q.buffer, text, o + 5, f)
        BY <3>5, <4>1, <4>2, Zenon
      <4>4. Good(ps, n, text, off, q, k, o + 5, f)
        BY <1>1, <3>1, <3>5, <4>3 DEF Good, o
      <4>5. Len(q.buffer) < Len(p.buffer)
        BY <1>3, <1>4, <4>3 DEF buf, Window
      <4>6. QED
        BY <3>4, <4>4, <4>5
    <3>7. CASE ~(f >= o + 5)
      <4>1. AfterBoundary(rem) = rem
        BY <1>3, <1>4, <2>5, <2>6, <3>2, <3>7 DEF AfterBoundary
      <4>2. Good(ps, n, text, off, q, k, o + 3, f)
        BY <1>1, <2>3, <3>1, <3>5, <4>1 DEF Good, o
      <4>3. Len(q.buffer) < Len(p.buffer)
        BY <1>3, <1>4, <2>4, <3>5, <4>1 DEF buf
      <4>4. QED
        BY <3>4, <4>2, <4>3
    <3>8. QED
      BY <3>6, <3>7
  <2>9. QED
    BY <2>7, <2>8
<1>9. QED
  BY <1>7, <1>8

\* The name behind the only ":" of a header block.
LEMMA NameFound ==
  ASSUME NEW data, NEW m \in Nat, m >= 3, Len(data) = m, data[m - 2] = ":", data[m] = "q",
         \A i \in 1 .. m : i # m - 2 => data[i] # ":"
  PROVE  NameIn(data) = data[m - 1]
<1> DEFINE at == {i \in 2 .. Len(data) - 1 : data[i - 1] = ":" /\ data[i + 1] = "q"}
<1>1. m - 1 \in 2 .. Len(data) - 1 /\ (m - 1) - 1 = m - 2 /\ (m - 1) + 1 = m
  OBVIOUS
<1>2. m - 1 \in at
  BY <1>1
<1>3. ASSUME NEW i \in at PROVE i = m - 1
  <2>1. i \in 2 .. m - 1 /\ data[i - 1] = ":"
    OBVIOUS
  <2>2. i - 1 \in 1 .. m /\ (i - 1 = m - 2 => i = m - 1)
    BY <2>1
  <2>3. QED
    BY <2>1, <2>2
<1>4. m - 1 <= m - 1
  OBVIOUS
<1>5. NameIn(data) = IF at = {} THEN Unnamed ELSE data[CHOOSE i \in at : \A j \in at : j <= i]
  BY Zenon DEF NameIn
<1> HIDE DEF at
<1>6. (CHOOSE i \in at : \A j \in at : j <= i) = m - 1
  BY <1>2, <1>3, <1>4, Zenon
<1>7. QED
  BY <1>2, <1>5, <1>6

\* The parser looks for the end of the header block.
LEMMA HeadersRound ==
  ASSUME NEW n \in Nat, NEW ps \in [1 .. n -> Part], NEW text, NEW off, Layout(ps, n, text, off),
         NEW p, NEW k, NEW a, NEW f, Good(ps, n, text, off, p, k, a, f), p.state = "Headers"
  PROVE  \/ Process(p) = <<p, FALSE>> /\ Waits(ps, n, text, off, p, k, a, f)
         \/ \E q, b : /\ Process(p) = <<q, TRUE>> /\ Good(ps, n, text, off, q, k, b, f)
                      /\ Len(q.buffer) < Len(p.buffer)
<1> DEFINE o == off[k + 1]
           buf == p.buffer
           name == ps[k + 1].name
           breaks == <<"r", "n", "r", "n">>
<1>1. /\ Shape(p) /\ k \in 0 .. n /\ Window(buf, text, a, f) /\ p.result = [i \in 1 .. k |-> ps[i].name]
      /\ p.reported = (\E i \in 1 .. k : Oversized(ps[i])) /\ k < n /\ a \in {o + 3, o + 5}
  BY DEF Good
<1>2. k + 1 \in 1 .. n + 1 /\ k + 1 \in 1 .. n
  BY <1>1
<1>3. o \in Nat /\ text \in Seq(Sym) /\ Len(text) \in Nat
  <2>1. BoundaryAt(text, o)
    BY <1>2, BoundaryThere, Zenon
  <2>2. QED
    BY <2>1 DEF BoundaryAt
<1>4. /\ buf \in Seq(Sym) /\ f \in Nat /\ a \in Nat /\ a <= f /\ f <= Len(text) /\ Len(buf) = f - a
      /\ \A i \in 1 .. f - a : buf[i] = text[a + i]
  BY <1>1 DEF Window
<1>5. Process(p) = ProcessHeaders(p)
  BY DEF Process
<1>6. /\ text[o + 4] = "r" /\ text[o + 5] = "n" /\ text[o + 6] = ":" /\ text[o + 7] = name
      /\ text[o + 8] = "q" /\ text[o + 9] = "r" /\ text[o + 10] = "n" /\ text[o + 11] = "r" /\ text[o + 12] = "n"
  BY <1>2 DEF Layout, PartAt, HeadAt
<1>7. name \notin {"r", "n", ":"}
  BY <1>2, PartIs
<1> HIDE DEF o, buf, name
<1>8. ASSUME NEW j \in 4 .. 8 PROVE ~(text[o + j] = "r" /\ text[o + j + 2] = "r")
  <2>1. j = 4 \/ j = 5 \/ j = 6 \/ j = 7 \/ j = 8
    OBVIOUS
  <2>2. o + 4 + 2 = o + 6
    BY <1>3
  <2>3. QED
    BY <1>6, <1>7, <2>1, <2>2
<1>9. ASSUME NEW j \in 4 .. 10 PROVE ~(text[o + j] = "n" /\ text[o + j + 1] = "n")
  <2>1. j = 4 \/ j = 5 \/ j = 6 \/ j = 7 \/ j = 8 \/ j = 9 \/ j = 10
    OBVIOUS
  <2>2. o + 5 + 1 = o + 6 /\ o + 10 + 1 = o + 11
    BY <1>3
  <2>3. QED
    BY <1>6, <1>7, <2>1, <2>2
<1>10. ASSUME NEW i \in Nat, i >= 1, i + 2 <= f - a, a + i <= o + 8
       PROVE  ~(buf[i] = "r" /\ buf[i + 2] = "r")
  <2> DEFINE j == (a + i) - o
  <2>1. j \in 4 .. 8 /\ o + j = a + i /\ o + j + 2 = a + (i + 2) /\ i \in 1 .. f - a /\ i + 2 \in 1 .. f - a
    BY <1>1, <1>3, <1>4, <1>10
  <2> HIDE DEF j
  <2>2. QED
    BY <1>4, <1>8, <2>1
<1>11. CASE f < o + 12
  <2>1. Find(buf, breaks) = 0
    <3>1. ASSUME NEW i \in 1 .. Len(buf), i + 3 <= Len(buf) PROVE ~(buf[i] = "r" /\ buf[i + 2] = "r")
      <4>1. i \in Nat /\ i >= 1 /\ i + 2 <= f - a /\ a + i <= o + 8
        BY <1>3, <1>4, <1>11, <3>1
      <4>2. QED
        BY <1>10, <4>1
    <3>2. QED
      BY <1>4, <3>1, NoBreaks
  <2>2. Find(buf, <<"n", "n">>) = 0
    <3>1. ASSUME NEW i \in 1 .. Len(buf), i + 1 <= Len(buf) PROVE ~(buf[i] = "n" /\ buf[i + 1] = "n")
      <4> DEFINE j == (a + i) - o
      <4>1. j \in 4 .. 10 /\ o + j = a + i /\ o + j + 1 = a + (i + 1) /\ i \in 1 .. f - a /\ i + 1 \in 1 .. f - a
        BY <1>1, <1>3, <1>4, <1>11, <3>1
      <4> HIDE DEF j
      <4>2. QED
        BY <1>4, <1>9, <4>1
    <3>2. QED
      BY <1>4, <3>1, NoFeeds
  <2>3. ProcessHeaders(p) = <<p, FALSE>>
    BY <2>1, <2>2, Zenon DEF ProcessHeaders, buf
  <2>4. QED
    BY <1>5, <1>11, <2>3 DEF Waits, o
<1>12. CASE ~(f < o + 12)
  <2> DEFINE w == (o + 9) - a
             m == (o + 8) - a
             end == (o + 12) - a
             data == SubSeq(buf, 1, m)
             rem == From(buf, end + 1)
             q == [p EXCEPT !.field = NameIn(HeaderData(buf, end)), !.buffer = rem, !.size = 0, !.state = "Content"]
  <2>1. /\ f >= o + 12 /\ w \in Nat /\ m \in Nat /\ end \in Nat /\ w >= 1 /\ w + 3 <= f - a /\ m >= 3
        /\ w = m + 1 /\ end = m + 4 /\ w + 3 = end /\ end <= f - a /\ a + w = o + 9 /\ a + end = o + 12 /\ a + m = o + 8
    BY <1>1, <1>3, <1>4, <1>12
  <2> HIDE DEF w, m, end
  <2>2. Find(buf, breaks) = w
    <3>1. w \in 1 .. Len(buf) /\ w + 3 <= Len(buf)
      BY <1>4, <2>1, SMTT(30)
    <3>2. buf[w] = "r" /\ buf[w + 1] = "n" /\ buf[w + 2] = "r" /\ buf[w + 3] = "n"
      <4>1. /\ w \in 1 .. f - a /\ w + 1 \in 1 .. f - a /\ w + 2 \in 1 .. f - a /\ w + 3 \in 1 .. f - a
            /\ a + w = o + 9 /\ a + (w + 1) = o + 10 /\ a + (w + 2) = o + 11 /\ a + (w + 3) = o + 12
        BY <1>3, <1>4, <2>1
      <4>2. QED
        BY <1>4, <1>6, <4>1, Zenon
    <3>3. ASSUME NEW i \in 1 .. w - 1 PROVE ~(buf[i] = "r" /\ buf[i + 2] = "r")
      <4>1. i \in Nat /\ i >= 1 /\ i + 2 <= f - a /\ a + i <= o + 8
        BY <1>3, <1>4, <2>1, SMTT(30)
      <4>2. QED
        BY <1>10, <4>1
    <3>4. QED
      BY <1>4, <3>1, <3>2, <3>3, FindBreaks
  <2>3. HeaderData(buf, end) = data
    BY <2>1 DEF HeaderData
  <2>4. /\ Len(data) = m /\ \A i \in 1 .. m : data[i] = text[a + i]
    <3>1. 1 \in 1 .. Len(buf) /\ 1 + m - 1 <= Len(buf) /\ 1 + m - 1 = m
      BY <1>4, <2>1
    <3>2. Len(data) = m /\ \A i \in 1 .. m : data[i] = buf[1 + i - 1]
      BY <1>4, <2>1, <3>1, Piece
    <3>3. \A i \in 1 .. m : 1 + i - 1 = i /\ i \in 1 .. f - a
      BY <1>4, <2>1
    <3>4. QED
      BY <1>4, <3>2, <3>3, Zenon
  <2> HIDE DEF data
  <2>5. NameIn(data) = name
    <3>1. m - 2 \in 1 .. m /\ m - 1 \in 1 .. m /\ m \in 1 .. m
          /\ a + (m - 2) = o + 6 /\ a + (m - 1) = o + 7 /\ a + m = o + 8
      BY <1>3, <1>4, <2>1
    <3>2. data[m - 2] = ":" /\ data[m - 1] = name /\ data[m] = "q"
      BY <1>6, <2>4, <3>1, Zenon
    <3>3. ASSUME NEW i \in 1 .. m, i # m - 2 PROVE data[i] # ":"
      <4> DEFINE j == (a + i) - o
      <4>1. j \in {4, 5, 7, 8} /\ o + j = a + i
        BY <1>1, <1>3, <1>4, <2>1, <3>3
      <4> HIDE DEF j
      <4>2. text[o + j] # ":"
        BY <1>6, <1>7, <4>1
      <4>3. QED
        BY <2>4, <4>1, <4>2
    <3>4. NameIn(data) = data[m - 1]
      BY <2>1, <2>4, <3>2, <3>3, NameFound
    <3>5. QED
      BY <3>2, <3>4
  <2>6. Window(rem, text, o + 12, f)
    <3>1. end \in 0 .. f - a
      BY <1>4, <2>1
    <3>2. Window(rem, text, a + end, f)
      BY <1>1, <1>3, <3>1, WindowFrom, Zenon
    <3>3. QED
      BY <2>1, <3>2
  <2> HIDE DEF rem
  <2>7. Process(p) = <<q, TRUE>>
    <3>1. w # 0 /\ w + 3 = end
      BY <2>1
    <3>2. QED
      BY <1>5, <2>2, <3>1, Zenon DEF ProcessHeaders, rem, buf
  <2>8. /\ Shape(q) /\ q.buffer = rem /\ q.state = "Content" /\ q.field = NameIn(HeaderData(buf, end)) /\ q.size = 0
        /\ q.result = p.result /\ q.reported = p.reported
    <3>1. rem \in Seq(Sym)
      BY <2>6 DEF Window
    <3>2. QED
      BY <1>1, <3>1 DEF Shape, ParserState
  <2> HIDE DEF q
  <2>9. Good(ps, n, text, off, q, k, o + 12, f)
    BY <1>1, <2>3, <2>5, <2>6, <2>8 DEF Good, o, name
  <2>10. Len(q.buffer) < Len(p.buffer)
    BY <1>1, <1>3, <1>4, <2>6, <2>8, SMTT(30) DEF buf, Window
  <2>11. QED
    BY <2>7, <2>9, <2>10
<1>13. QED
  BY <1>11, <1>12

\* w is the parser p when the whole content of the part c has been written.
IsWritten(w, p, c) ==
  /\ Shape(w) /\ w.field = p.field /\ w.result = p.result
  /\ w.reported = IF Oversized(c) THEN TRUE ELSE p.reported

LEMMA WrittenIs ==
  ASSUME NEW c \in Part, NEW p, Shape(p), p.field = c.name, p.size = 0
  PROVE  IsWritten(IF Counted(c) > 0 THEN WriteContentData(p, Counted(c)) ELSE p, p, c)
<1> DEFINE z == Counted(c)
           q == [p EXCEPT !.size = @ + z]
           limit == IF p.field \in FileName THEN MaxFile ELSE MaxField
           written == IF z > 0 THEN WriteContentData(p, z) ELSE p
<1>1. z \in Nat /\ limit \in Nat /\ (Oversized(c) <=> z > limit) /\ p.field # NoField
  <2>1. z \in Nat
    BY CountedIs
  <2>2. limit \in Nat
    BY StreamAssumption
  <2>3. Oversized(c) <=> z > limit
    BY DEF Oversized
  <2>4. p.field # NoField
    BY PartIs
  <2>5. QED
    BY <2>1, <2>2, <2>3, <2>4
<1>2. /\ DOMAIN q = DOMAIN p /\ q.size = z /\ q.field = p.field /\ q.result = p.result /\ q.reported = p.reported
      /\ q.state = p.state /\ q.buffer = p.buffer
  BY <1>1 DEF Shape
<1> HIDE DEF z, q, limit
<1>3. ASSUME z = 0 PROVE IsWritten(written, p, c)
  <2>1. written = p /\ ~Oversized(c)
    BY <1>1, <1>3
  <2> HIDE DEF written
  <2>2. QED
    BY <2>1 DEF IsWritten
<1>4. ASSUME z # 0 PROVE IsWritten(written, p, c)
  <2>1. written = WriteContentData(p, z)
    BY <1>1, <1>4
  <2> HIDE DEF written
  <2>2. WriteContentData(p, z) = IF z > limit THEN Failed(q) ELSE q
    BY <1>1, <1>2 DEF WriteContentData, q, limit
  <2>3. /\ Shape(Failed(q)) /\ Failed(q).field = q.field /\ Failed(q).result = q.result /\ Failed(q).reported = TRUE
    BY <1>2 DEF Shape, Failed, ParserState
  <2>4. Shape(q)
    BY <1>2 DEF Shape
  <2>5. CASE z > limit
    BY <1>1, <1>2, <2>1, <2>2, <2>3, <2>5 DEF IsWritten
  <2>6. CASE ~(z > limit)
    BY <1>1, <1>2, <2>1, <2>2, <2>4, <2>6 DEF IsWritten
  <2>7. QED
    BY <2>5, <2>6
<1>5. QED
  BY <1>3, <1>4 DEF z

\* The parser looks for the boundary behind a content.
LEMMA ContentRound ==
  ASSUME NEW n \in Nat, NEW ps \in [1 .. n -> Part], NEW text, NEW off, Layout(ps, n, text, off),
         NEW p, NEW k, NEW a, NEW f, Good(ps, n, text, off, p, k, a, f), p.state = "Content"
  PROVE  \/ Process(p) = <<p, FALSE>> /\ Waits(ps, n, text, off, p, k, a, f)
         \/ \E q : Process(p) = <<q, FALSE>> /\ Shape(q) /\ q.flushed
         \/ \E q, j, b : /\ Process(p) = <<q, TRUE>> /\ Good(ps, n, text, off, q, j, b, f)
                         /\ Len(q.buffer) < Len(p.buffer)
<1> DEFINE o == off[k + 1]
           e == off[k + 2]
           buf == p.buffer
           c == ps[k + 1]
           l == Len(c.content)
<1>1. /\ Shape(p) /\ k \in 0 .. n /\ Window(buf, text, a, f) /\ p.result = [i \in 1 .. k |-> ps[i].name]
      /\ p.reported = (\E i \in 1 .. k : Oversized(ps[i])) /\ k < n /\ a = o + 12
      /\ p.field = c.name /\ p.size = 0
  BY DEF Good
<1>2. k + 1 \in 1 .. n + 1 /\ k + 1 \in 1 .. n /\ k + 2 \in 1 .. n + 1 /\ (k + 1) + 1 = k + 2
  BY <1>1
<1>3. o \in Nat /\ text \in Seq(Sym) /\ Len(text) \in Nat
  <2>1. BoundaryAt(text, o)
    BY <1>2, BoundaryThere, Zenon
  <2>2. QED
    BY <2>1 DEF BoundaryAt
<1>4. e \in Nat /\ text[e + 1] = "-" /\ text[e + 2] = "-" /\ text[e + 3] = "b"
  <2>1. BoundaryAt(text, e)
    BY <1>2, BoundaryThere, Zenon
  <2>2. QED
    BY <2>1 DEF BoundaryAt
<1>5. /\ buf \in Seq(Sym) /\ f \in Nat /\ a \in Nat /\ a <= f /\ f <= Len(text) /\ Len(buf) = f - a
      /\ \A i \in 1 .. f - a : buf[i] = text[a + i]
  BY <1>1 DEF Window
<1>6. Process(p) = ProcessContent(p)
  BY DEF Process
<1>7. /\ c \in Part /\ l \in Nat /\ \A i \in 1 .. l : c.content[i] # "b"
  <2>1. c \in Part
    BY <1>2
  <2>2. c.content \in Seq({"x", "-", "r", "n"}) /\ l \in Nat
    BY <2>1, PartIs
  <2>3. \A i \in 1 .. l : c.content[i] \in {"x", "-", "r", "n"}
    BY <2>2, ElementOfSeq, Zenon
  <2>4. QED
    BY <2>1, <2>2, <2>3
<1>8. /\ e = o + 14 + l /\ \A i \in 1 .. l : text[o + 12 + i] = c.content[i]
      /\ text[o + 13 + l] = "r" /\ text[o + 14 + l] = "n"
  <2>1. off[(k + 1) + 1] = o + 14 + l /\ PartAt(text, o, c)
    BY <1>2, Zenon DEF Layout
  <2>2. QED
    BY <1>2, <2>1 DEF PartAt
<1>9. Len(FullBoundary) = 3
  BY DEF FullBoundary
<1> HIDE DEF o, e, buf, c, l
<1>10. e = a + l + 2 /\ o + 13 + l = a + (l + 1) /\ o + 14 + l = a + (l + 2)
  BY <1>1, <1>3, <1>5, <1>7, <1>8
<1>11. /\ \A i \in 1 .. l : text[a + i] = c.content[i]
       /\ text[a + (l + 1)] = "r" /\ text[a + (l + 2)] = "n"
       /\ text[a + (l + 3)] = "-" /\ text[a + (l + 4)] = "-" /\ text[a + (l + 5)] = "b"
  <2>1. a + (l + 3) = e + 1 /\ a + (l + 4) = e + 2 /\ a + (l + 5) = e + 3
    BY <1>5, <1>7, <1>10
  <2>2. \A i \in 1 .. l : text[a + i] = c.content[i]
    BY <1>1, <1>8
  <2>3. QED
    BY <1>4, <1>8, <1>10, <2>1, <2>2
<1>12. ASSUME NEW i \in 1 .. f - a, i < l + 5 PROVE buf[i] # "b"
  <2>1. i \in 1 .. l \/ i = l + 1 \/ i = l + 2 \/ i = l + 3 \/ i = l + 4
    BY <1>5, <1>7, <1>12
  <2>2. text[a + i] # "b"
    BY <1>7, <1>11, <2>1
  <2>3. QED
    BY <1>5, <2>2
<1>13. CASE f < e + 3
  <2>1. Find(buf, FullBoundary) = 0
    <3>1. ASSUME NEW i \in 1 .. Len(buf), i > 2 PROVE buf[i] # "b"
      <4>1. i \in 1 .. f - a /\ i < l + 5
        BY <1>5, <1>7, <1>10, <1>13
      <4>2. QED
        BY <1>12, <4>1
    <3>2. QED
      BY <1>5, <3>1, NoBoundary
  <2>2. CASE TooLong(p)
    <3> DEFINE w == WriteContentData(p, Len(buf) - Len(FullBoundary) - Margin)
               q == [w EXCEPT !.buffer = <<>>, !.flushed = TRUE]
    <3>1. Process(p) = <<q, FALSE>>
      BY <1>6, <2>1, <2>2, Zenon DEF ProcessContent, buf
    <3>2. Shape(w)
      BY <1>1, WriteSucceeds DEF Succeeds
    <3> HIDE DEF w
    <3>3. Shape(q) /\ q.flushed
      BY <3>2, EmptySeq DEF Shape
    <3> HIDE DEF q
    <3>4. QED
      BY <3>1, <3>3
  <2>3. CASE ~TooLong(p)
    <3>1. Process(p) = <<p, FALSE>>
      BY <1>6, <2>1, <2>3, Zenon DEF ProcessContent, buf
    <3>2. QED
      BY <1>13, <3>1 DEF Waits, e
  <2>4. QED
    BY <2>2, <2>3
<1>14. CASE ~(f < e + 3)
  <2> DEFINE at == l + 3
             written == IF Counted(c) > 0 THEN WriteContentData(p, Counted(c)) ELSE p
             v == FinalizeCurrentField(written)
             rem == From(buf, at)
             q == [v EXCEPT !.buffer = rem, !.state = "Boundary"]
  <2>1. f - a >= l + 5 /\ at \in 1 .. Len(buf) /\ at + 2 <= Len(buf) /\ at # 0 /\ at = (l + 2) + 1
        /\ l + 2 \in 0 .. f - a /\ a + (l + 2) = e /\ at + 1 = l + 4 /\ at + 2 = l + 5
        /\ l + 1 \in 1 .. f - a /\ l + 2 \in 1 .. f - a /\ l + 3 \in 1 .. f - a
        /\ l + 4 \in 1 .. f - a /\ l + 5 \in 1 .. f - a
    BY <1>5, <1>7, <1>10, <1>14
  <2>2. \A i \in 1 .. l : i \in 1 .. f - a
    <3>1. f - a \in Nat /\ l <= f - a
      BY <1>5, <1>7, <2>1, SMTT(30)
    <3>2. QED
      BY <1>7, <3>1
  <2>3. /\ \A i \in 1 .. l : buf[i] = c.content[i]
        /\ buf[l + 1] = "r" /\ buf[l + 2] = "n" /\ buf[l + 3] = "-" /\ buf[l + 4] = "-" /\ buf[l + 5] = "b"
    BY <1>5, <1>11, <2>1, <2>2, Zenon
  <2>4. Find(buf, FullBoundary) = at
    <3>1. ASSUME NEW i \in 1 .. at - 1 PROVE buf[i + 2] # "b"
      <4>1. i + 2 \in 1 .. f - a /\ i + 2 < l + 5
        BY <1>5, <1>7, <2>1
      <4>2. QED
        BY <1>12, <4>1
    <3> HIDE DEF at
    <3>2. buf[at] = "-" /\ buf[at + 1] = "-" /\ buf[at + 2] = "b"
      BY <2>1, <2>3, Zenon DEF at
    <3>3. QED
      BY <1>5, <2>1, <3>1, <3>2, FindBoundary
  <2>5. ContentEnd(buf, at) = Counted(c)
    BY <1>7, <2>3, CountedInBuffer, Zenon DEF l
  <2>6. /\ Shape(written) /\ written.field = p.field /\ written.result = p.result
        /\ written.reported = IF Oversized(c) THEN TRUE ELSE p.reported
    <3>1. IsWritten(written, p, c)
      BY <1>1, <1>7, WrittenIs, Zenon
    <3> HIDE DEF written
    <3>2. QED
      BY <3>1 DEF IsWritten
  <2>7. Window(rem, text, e, f)
    <3>1. Window(From(buf, (l + 2) + 1), text, a + (l + 2), f)
      BY <1>1, <1>3, <2>1, WindowFrom, Zenon
    <3>2. QED
      BY <2>1, <3>1, Zenon
  <2> HIDE DEF at
  <2>8. Process(p) = <<q, TRUE>>
    BY <1>6, <2>1, <2>4, <2>5, Zenon DEF ProcessContent, buf
  <2> HIDE DEF written, rem
  <2>9. Shape(v) /\ v.result = Append(p.result, c.name) /\ v.reported = written.reported
    <3>1. written.field # NoField
      BY <1>1, <1>7, <2>6, PartIs
    <3>2. v = [written EXCEPT !.result = Append(@, written.field), !.field = NoField]
      BY <3>1, Zenon DEF FinalizeCurrentField
    <3>3. Shape(written) /\ written.result = p.result /\ written.field = c.name
      BY <1>1, <2>6, Zenon
    <3> HIDE DEF v
    <3>4. QED
      BY <3>2, <3>3 DEF Shape
  <2> HIDE DEF v
  <2>10. /\ Shape(q) /\ q.buffer = rem /\ q.state = "Boundary" /\ q.result = Append(p.result, c.name)
         /\ q.reported = written.reported
    <3>1. rem \in Seq(Sym)
      BY <2>7 DEF Window
    <3>2. QED
      BY <2>9, <3>1 DEF Shape, ParserState
  <2> HIDE DEF q
  <2>11. q.result = [i \in 1 .. k + 1 |-> ps[i].name]
    <3>1. \A i \in 1 .. k : ps[i].name \in FieldName
      <4>1. \A i \in 1 .. k : ps[i] \in Part
        BY <1>1
      <4>2. QED
        BY <4>1, PartIs
    <3>2. c.name \in FieldName
      BY <1>7, PartIs
    <3>3. p.result \in Seq(FieldName) /\ Len(p.result) = k
      BY <1>1, <3>1
    <3>4. QED
      BY <1>1, <2>10, <3>2, <3>3 DEF c
  <2>12. q.reported = (\E i \in 1 .. k + 1 : Oversized(ps[i]))
    <3>1. \A i \in 1 .. k + 1 : i \in 1 .. k \/ i = k + 1
      BY <1>1
    <3>2. k + 1 \in 1 .. k + 1 /\ \A i \in 1 .. k : i \in 1 .. k + 1
      BY <1>1
    <3>3. CASE Oversized(c)
      <4>1. q.reported = TRUE
        BY <2>6, <2>10, <3>3
      <4>2. \E i \in 1 .. k + 1 : Oversized(ps[i])
        BY <3>2, <3>3 DEF c
      <4>3. QED
        BY <4>1, <4>2
    <3>4. CASE ~Oversized(c)
      <4>1. q.reported = (\E i \in 1 .. k : Oversized(ps[i]))
        BY <1>1, <2>6, <2>10, <3>4
      <4>2. (\E i \in 1 .. k : Oversized(ps[i])) <=> (\E i \in 1 .. k + 1 : Oversized(ps[i]))
        BY <3>1, <3>2, <3>4, Zenon DEF c
      <4>3. QED
        BY <4>1, <4>2
    <3>5. QED
      BY <3>3, <3>4
  <2>13. Good(ps, n, text, off, q, k + 1, e, f)
    <3>1. k + 1 \in 0 .. n /\ e = off[(k + 1) + 1]
      BY <1>1, <1>2 DEF e
    <3>2. QED
      BY <2>7, <2>10, <2>11, <2>12, <3>1 DEF Good
  <2>14. Len(q.buffer) < Len(p.buffer)
    BY <1>4, <1>5, <1>7, <1>10, <2>7, <2>10 DEF buf, Window
  <2>15. QED
    BY <2>8, <2>13, <2>14
<1>15. QED
  BY <1>13, <1>14

\* A round of the loop, i rounds after it began with a buffer of m symbols: the
\* parser is where it should be, unless a buffer was thrown away, and every round
\* that goes on has taken something.
OnTrack(ps, n, text, off, f, m, step, i) ==
  \E q : /\ step \in {<<q, TRUE>>, <<q, FALSE>>} /\ Shape(q)
         /\ \/ q.flushed
            \/ \E k, a : /\ Good(ps, n, text, off, q, k, a, f)
                         /\ \/ step = <<q, TRUE>> /\ i + Len(q.buffer) <= m
                            \/ step = <<q, FALSE>> /\ Waits(ps, n, text, off, q, k, a, f)

\* One round of a parser that is where it should be.
LEMMA GoodRound ==
  ASSUME NEW n \in Nat, NEW ps \in [1 .. n -> Part], NEW text, NEW off, Layout(ps, n, text, off),
         NEW p, NEW k, NEW a, NEW f, Good(ps, n, text, off, p, k, a, f), Spared(n, off, f),
         p.state \in {"Boundary", "Headers", "Content"}, NEW m, NEW i \in Nat, i + Len(p.buffer) <= m, m \in Nat
  PROVE  OnTrack(ps, n, text, off, f, m, Process(p), i + 1)
<1>1. Shape(p) /\ Len(p.buffer) \in Nat
  BY DEF Good, Shape
<1>2. \/ Process(p) = <<p, FALSE>> /\ Waits(ps, n, text, off, p, k, a, f)
      \/ \E q : Process(p) = <<q, FALSE>> /\ Shape(q) /\ q.flushed
      \/ \E q, j, b : /\ Process(p) = <<q, TRUE>> /\ Good(ps, n, text, off, q, j, b, f)
                      /\ Len(q.buffer) < Len(p.buffer)
  <2>1. CASE p.state = "Boundary"
    BY <2>1, BoundaryRound, Zenon
  <2>2. CASE p.state = "Headers"
    BY <2>2, HeadersRound, Zenon
  <2>3. CASE p.state = "Content"
    BY <2>3, ContentRound, Zenon
  <2>4. QED
    BY <2>1, <2>2, <2>3
<1>3. CASE Process(p) = <<p, FALSE>> /\ Waits(ps, n, text, off, p, k, a, f)
  BY <1>1, <1>3, Zenon DEF OnTrack
<1>4. CASE \E q : Process(p) = <<q, FALSE>> /\ Shape(q) /\ q.flushed
  BY <1>4, Zenon DEF OnTrack
<1>5. ASSUME NEW q, NEW j, NEW b, Process(p) = <<q, TRUE>>, Good(ps, n, text, off, q, j, b, f),
             Len(q.buffer) < Len(p.buffer)
      PROVE  OnTrack(ps, n, text, off, f, m, Process(p), i + 1)
  <2>1. Shape(q) /\ Len(q.buffer) \in Nat
    BY <1>5 DEF Good, Shape
  <2>2. (i + 1) + Len(q.buffer) <= m
    <3> DEFINE x == Len(q.buffer)
               y == Len(p.buffer)
    <3>1. x \in Nat /\ y \in Nat /\ x < y /\ i + y <= m
      BY <1>1, <1>5, <2>1
    <3> HIDE DEF x, y
    <3>2. (i + 1) + x <= m
      BY <3>1
    <3>3. QED
      BY <3>2 DEF x
  <2>3. QED
    BY <1>5, <2>1, <2>2, Zenon DEF OnTrack
<1>6. QED
  BY <1>2, <1>3, <1>4, <1>5, Zenon

LEMMA RoundOnTrack ==
  ASSUME NEW n \in Nat, NEW ps \in [1 .. n -> Part], NEW text, NEW off, Layout(ps, n, text, off),
         NEW f, Spared(n, off, f), NEW m \in Nat, NEW step, NEW i \in Nat,
         OnTrack(ps, n, text, off, f, m, step, i)
  PROVE  OnTrack(ps, n, text, off, f, m, Round(step), i + 1)
<1> DEFINE Placed(q, k, a) ==
             /\ Good(ps, n, text, off, q, k, a, f)
             /\ \/ step = <<q, TRUE>> /\ i + Len(q.buffer) <= m
                \/ step = <<q, FALSE>> /\ Waits(ps, n, text, off, q, k, a, f)
<1>1. PICK q : step \in {<<q, TRUE>>, <<q, FALSE>>} /\ Shape(q) /\ (q.flushed \/ \E k, a : Placed(q, k, a))
  BY Zenon DEF OnTrack
<1>2. step[1] = q /\ (step = <<q, TRUE>> => step[2]) /\ (step = <<q, FALSE>> => ~step[2])
  <2>1. <<q, TRUE>>[1] = q /\ <<q, TRUE>>[2] /\ <<q, FALSE>>[1] = q /\ ~(<<q, FALSE>>[2])
    OBVIOUS
  <2>2. QED
    BY <1>1, <2>1, Zenon
<1>3. CASE step[2] /\ q.buffer # <<>> /\ q.state \notin {"Complete", "Error"}
  <2>1. Round(step) = Process(q) /\ step = <<q, TRUE>> /\ q.state \in {"Boundary", "Headers", "Content"}
    BY <1>1, <1>2, <1>3 DEF Round, Shape, ParserState
  <2>2. CASE q.flushed
    <3>1. PICK r : Succeeds(r, q) /\ Process(q) \in {<<r, TRUE>>, <<r, FALSE>>}
      BY <1>1, <2>1, ProcessSucceeds, Zenon
    <3>2. QED
      BY <2>1, <2>2, <3>1, Zenon DEF OnTrack, Succeeds
  <2>3. ASSUME NEW k, NEW a, Placed(q, k, a) PROVE OnTrack(ps, n, text, off, f, m, Round(step), i + 1)
    <3>1. i + Len(q.buffer) <= m
      BY <1>2, <1>3, <2>3
    <3>2. QED
      BY <2>1, <2>3, <3>1, GoodRound, Zenon
  <2>4. QED
    BY <1>1, <2>2, <2>3, Zenon
<1>4. CASE ~(step[2] /\ q.buffer # <<>> /\ q.state \notin {"Complete", "Error"})
  <2>1. Round(step) = <<q, FALSE>>
    BY <1>2, <1>4, Zenon DEF Round
  <2>2. CASE q.flushed
    BY <1>1, <2>1, <2>2, Zenon DEF OnTrack
  <2>3. ASSUME NEW k, NEW a, Placed(q, k, a) PROVE Waits(ps, n, text, off, q, k, a, f)
    <3>1. CASE ~step[2]
      BY <1>2, <2>3, <3>1
    <3>2. CASE q.state \in {"Complete", "Error"}
      BY <2>3, <3>2 DEF Good, Waits
    <3>3. CASE q.buffer = <<>>
      <4>1. a = f /\ f \in Nat /\ k \in 0 .. n
        <5>1. Window(q.buffer, text, a, f) /\ k \in 0 .. n
          BY <2>3 DEF Good
        <5>2. Len(q.buffer) = 0
          BY <3>3
        <5>3. QED
          BY <5>1, <5>2 DEF Window
      <4>2. k + 1 \in 1 .. n + 1 /\ (k < n => k + 1 \in 1 .. n /\ k + 2 \in 1 .. n + 1 /\ (k + 1) + 1 = k + 2)
        BY <4>1
      <4>3. off[k + 1] \in Nat
        BY <4>2 DEF Layout
      <4>4. k < n => off[k + 2] \in Nat /\ off[k + 2] >= off[k + 1] + 14
        <5>1. SUFFICES ASSUME k < n PROVE off[k + 2] \in Nat /\ off[k + 2] >= off[k + 1] + 14
          OBVIOUS
        <5> DEFINE l == Len(ps[k + 1].content)
        <5>2. l \in Nat
          BY <4>2, <5>1, PartIs
        <5>3. off[k + 2] = off[k + 1] + 14 + l
          BY <4>2, <5>1, Zenon DEF Layout
        <5> HIDE DEF l
        <5>4. QED
          BY <4>3, <5>2, <5>3
      <4>5. CASE q.state = "Boundary"
        <5>1. f = off[k + 1]
          BY <2>3, <4>1, <4>5 DEF Good
        <5>2. QED
          BY <4>3, <4>5, <5>1 DEF Waits
      <4>6. CASE q.state = "Headers"
        <5>1. f \in {off[k + 1] + 3, off[k + 1] + 5}
          BY <2>3, <4>1, <4>6 DEF Good
        <5>2. QED
          BY <4>3, <4>6, <5>1 DEF Waits
      <4>7. CASE q.state = "Content"
        <5>1. f = off[k + 1] + 12 /\ k < n
          BY <2>3, <4>1, <4>7 DEF Good
        <5>2. f < off[k + 2] + 3
          BY <4>3, <4>4, <5>1
        <5>3. QED
          BY <4>7, <5>2 DEF Waits
      <4>8. q.state \in {"Boundary", "Headers", "Content", "Complete"}
        BY <2>3 DEF Good
      <4>9. QED
        BY <4>5, <4>6, <4>7, <4>8 DEF Waits
    <3>4. QED
      BY <1>4, <3>1, <3>2, <3>3
  <2>4. QED
    BY <1>1, <2>1, <2>2, <2>3, Zenon DEF OnTrack
<1>5. QED
  BY <1>3, <1>4

\* The recursion of Consume has a solution.
LEMMA RoundsExist ==
  ASSUME NEW p, NEW n \in Nat
  PROVE  \E g : g = [i \in 0 .. n |-> IF i = 0 THEN <<p, TRUE>> ELSE Round(g[i - 1])]
<1> DEFINE Solved(m, g) == g = [i \in 0 .. m |-> IF i = 0 THEN <<p, TRUE>> ELSE Round(g[i - 1])]
           P == {m \in Nat : \E g : Solved(m, g)}
<1>1. 0 \in P
  <2> DEFINE g == [i \in 0 .. 0 |-> <<p, TRUE>>]
  <2>1. Solved(0, g)
    OBVIOUS
  <2>2. QED
    BY <2>1
<1>2. ASSUME NEW m \in Nat, m \in P PROVE m + 1 \in P
  <2>1. PICK g : Solved(m, g)
    BY <1>2
  <2> DEFINE h == [i \in 0 .. m + 1 |-> IF i <= m THEN g[i] ELSE Round(g[m])]
  <2>2. Solved(m + 1, h)
    <3> SUFFICES ASSUME NEW i \in 0 .. m + 1
                 PROVE  h[i] = IF i = 0 THEN <<p, TRUE>> ELSE Round(h[i - 1])
      BY Zenon
    <3>1. CASE i <= m
      <4>1. i \in 0 .. m /\ h[i] = g[i] /\ (i # 0 => h[i - 1] = g[i - 1])
        BY <3>1
      <4>2. g[i] = IF i = 0 THEN <<p, TRUE>> ELSE Round(g[i - 1])
        BY <2>1, <4>1
      <4>3. QED
        BY <4>1, <4>2, Zenon
    <3>2. CASE i = m + 1
      BY <3>2
    <3>3. QED
      BY <3>1, <3>2
  <2> HIDE DEF h
  <2>3. m + 1 \in Nat
    OBVIOUS
  <2>4. QED
    BY <2>2, <2>3, Zenon
<1> HIDE DEF P
<1>3. n \in P
  BY <1>1, <1>2, Induction, Zenon
<1>4. QED
  BY <1>3 DEF P

\* The loop leaves the parser waiting where it should be, if it began there.
LEMMA ConsumeKeeps ==
  ASSUME NEW n \in Nat, NEW ps \in [1 .. n -> Part], NEW text, NEW off, Layout(ps, n, text, off),
         NEW f, Spared(n, off, f), NEW p, Shape(p),
         p.flushed \/ \E k, a : Good(ps, n, text, off, p, k, a, f)
  PROVE  /\ Shape(Consume(p))
         /\ \/ Consume(p).flushed
            \/ \E k, a : /\ Good(ps, n, text, off, Consume(p), k, a, f)
                         /\ Waits(ps, n, text, off, Consume(p), k, a, f)
<1> DEFINE m == Len(p.buffer)
           rounds == 2 * Len(p.buffer) + 2
<1>1. m \in Nat /\ rounds \in Nat /\ rounds > m
  BY DEF Shape
<1>2. PICK g : /\ g = [i \in 0 .. rounds |-> IF i = 0 THEN <<p, TRUE>> ELSE Round(g[i - 1])]
               /\ Consume(p) = g[rounds][1]
  <2>1. Consume(p) = (CHOOSE g : g = [i \in 0 .. rounds |-> IF i = 0 THEN <<p, TRUE>> ELSE Round(g[i - 1])])[rounds][1]
    BY Zenon DEF Consume
  <2> HIDE DEF rounds, m
  <2>2. QED
    BY <1>1, <2>1, RoundsExist, Zenon
<1> HIDE DEF rounds
<1> DEFINE P == {i \in Nat : i \in 0 .. rounds => OnTrack(ps, n, text, off, f, m, g[i], i)}
<1>3. 0 \in P
  <2>1. g[0] = <<p, TRUE>>
    BY <1>1, <1>2, SMTT(30)
  <2>2. 0 + Len(p.buffer) <= m
    BY <1>1
  <2>3. OnTrack(ps, n, text, off, f, m, g[0], 0)
    BY <2>1, <2>2, Zenon DEF OnTrack
  <2>4. QED
    BY <2>3
<1>4. ASSUME NEW i \in Nat, i \in P PROVE i + 1 \in P
  <2> SUFFICES ASSUME i + 1 \in 0 .. rounds PROVE OnTrack(ps, n, text, off, f, m, g[i + 1], i + 1)
    OBVIOUS
  <2>1. i \in 0 .. rounds /\ i + 1 # 0 /\ (i + 1) - 1 = i
    BY <1>1
  <2>2. g[i + 1] = Round(g[i])
    BY <1>2, <2>1
  <2>3. OnTrack(ps, n, text, off, f, m, g[i], i)
    BY <1>4, <2>1
  <2> HIDE DEF m
  <2>4. OnTrack(ps, n, text, off, f, m, Round(g[i]), i + 1)
    BY <1>1, <2>3, RoundOnTrack, Zenon
  <2>5. QED
    BY <2>2, <2>4
<1> HIDE DEF P
<1>5. rounds \in P
  BY <1>1, <1>3, <1>4, Induction, Zenon
<1>6. OnTrack(ps, n, text, off, f, m, g[rounds], rounds)
  BY <1>1, <1>5 DEF P
<1> HIDE DEF m
<1>7. PICK q : /\ g[rounds] \in {<<q, TRUE>>, <<q, FALSE>>} /\ Shape(q)
               /\ \/ q.flushed
                  \/ \E k, a : /\ Good(ps, n, text, off, q, k, a, f)
                               /\ \/ g[rounds] = <<q, TRUE>> /\ rounds + Len(q.buffer) <= m
                                  \/ g[rounds] = <<q, FALSE>> /\ Waits(ps, n, text, off, q, k, a, f)
  BY <1>6, Zenon DEF OnTrack
<1>8. Consume(p) = q
  <2>1. <<q, TRUE>>[1] = q /\ <<q, FALSE>>[1] = q
    OBVIOUS
  <2>2. QED
    BY <1>2, <1>7, <2>1, Zenon
<1>9. ~(rounds + Len(q.buffer) <= m)
  <2>1. Len(q.buffer) \in Nat
    BY <1>7 DEF Shape
  <2>2. QED
    BY <1>1, <2>1
<1>10. QED
  BY <1>7, <1>8, <1>9, Zenon

-----------------------------------------------------------------------------
(* The specification. *)

\* The body that is being sent, and where its parts are.
Body == BodyText(parts, eol)
Offs == CHOOSE off : Layout(parts, Len(parts), Body, off)

\* What has been fed of it.
Fed == Len(Body) - Len(rest)

StreamInv ==
  /\ parts \in UNION {[1 .. n -> Part] : n \in 0 .. MaxParts} /\ eol \in {<<"r", "n">>, <<"n">>}
  /\ eol = Crlf /\ ~spoiled =>
       /\ Shape(parser) /\ Fed \in Nat /\ Window(rest, Body, Fed, Len(Body))
       /\ \/ parser.flushed
          \/ \E k, a : /\ Good(parts, Len(parts), Body, Offs, parser, k, a, Fed)
                       /\ Waits(parts, Len(parts), Body, Offs, parser, k, a, Fed)

\* A body that is sent with CRLF has a layout.
LEMMA BodyHasLayout ==
  ASSUME parts \in UNION {[1 .. n -> Part] : n \in 0 .. MaxParts}, eol = Crlf
  PROVE  /\ Len(parts) \in Nat /\ parts \in [1 .. Len(parts) -> Part]
         /\ Layout(parts, Len(parts), Body, Offs) /\ Body \in Seq(Sym) /\ Len(Body) \in Nat
<1>1. PICK n \in 0 .. MaxParts : parts \in [1 .. n -> Part]
  OBVIOUS
<1>2. n \in Nat
  BY StreamAssumption
<1>3. Len(parts) = n
  BY <1>1, <1>2
<1>4. \E off : Layout(parts, n, Body, off)
  BY <1>1, <1>2, BodyLayout, Zenon DEF Body
<1>5. Layout(parts, Len(parts), Body, Offs)
  BY <1>3, <1>4, Zenon DEF Offs
<1>6. Body \in Seq(Sym)
  BY <1>5, Zenon DEF Layout
<1>7. Len(Body) \in Nat
  BY <1>6
<1>8. QED
  BY <1>1, <1>2, <1>3, <1>5, <1>6, <1>7

\* A parser that has just been made or reset.
LEMMA StartsGood ==
  ASSUME parts \in UNION {[1 .. n -> Part] : n \in 0 .. MaxParts}, eol = Crlf, NEW q,
         DOMAIN q = DOMAIN NewParser, q.state = "Boundary", q.buffer = <<>>, q.result = <<>>, q.reported = FALSE
  PROVE  /\ Shape(q) /\ Window(Body, Body, 0, Len(Body)) /\ Len(Body) - Len(Body) = 0
         /\ Good(parts, Len(parts), Body, Offs, q, 0, 0, 0) /\ Waits(parts, Len(parts), Body, Offs, q, 0, 0, 0)
<1>1. /\ Len(parts) \in Nat /\ Layout(parts, Len(parts), Body, Offs) /\ Body \in Seq(Sym) /\ Len(Body) \in Nat
  BY BodyHasLayout
<1>2. Shape(q)
  BY EmptySeq DEF Shape, NewParser, ParserState
<1>3. Window(Body, Body, 0, Len(Body))
  BY <1>1 DEF Window
<1>4. Window(<<>>, Body, 0, 0)
  <2>1. <<>> \in Seq(Sym) /\ Len(<<>>) = 0 /\ 0 - 0 = 0 /\ 1 .. 0 = {} /\ 0 <= 0 /\ 0 <= Len(Body) /\ 0 \in Nat
    BY <1>1
  <2>2. QED
    BY <2>1 DEF Window
<1>5. Offs[0 + 1] = 0 /\ 0 \in 0 .. Len(parts)
  BY <1>1 DEF Layout
<1>6. q.result = [i \in 1 .. 0 |-> parts[i].name] /\ q.reported = (\E i \in 1 .. 0 : Oversized(parts[i]))
  <2>1. 1 .. 0 = {}
    OBVIOUS
  <2>2. ~\E i \in 1 .. 0 : Oversized(parts[i])
    BY <2>1, Zenon
  <2>3. [i \in 1 .. 0 |-> parts[i].name] = <<>>
    BY <2>1
  <2>4. QED
    BY <2>2, <2>3
<1>7. Good(parts, Len(parts), Body, Offs, q, 0, 0, 0)
  BY <1>2, <1>4, <1>5, <1>6 DEF Good
<1>8. Waits(parts, Len(parts), Body, Offs, q, 0, 0, 0)
  BY <1>5 DEF Waits
<1>9. QED
  BY <1>1, <1>2, <1>3, <1>7, <1>8

LEMMA StreamInitInv == StreamInit => StreamInv
<1> SUFFICES ASSUME StreamInit PROVE StreamInv
  OBVIOUS
<1>1. /\ parts \in UNION {[1 .. n -> Part] : n \in 0 .. MaxParts} /\ eol \in {<<"r", "n">>, <<"n">>}
      /\ rest = Body /\ parser = NewParser
  BY DEF StreamInit, Body
<1>2. ASSUME eol = Crlf PROVE /\ Shape(parser) /\ Fed \in Nat /\ Window(rest, Body, Fed, Len(Body))
                              /\ \E k, a : /\ Good(parts, Len(parts), Body, Offs, parser, k, a, Fed)
                                           /\ Waits(parts, Len(parts), Body, Offs, parser, k, a, Fed)
  <2>1. /\ NewParser.state = "Boundary" /\ NewParser.buffer = <<>> /\ NewParser.result = <<>>
        /\ NewParser.reported = FALSE
    BY DEF NewParser
  <2>2. /\ Shape(parser) /\ Window(Body, Body, 0, Len(Body)) /\ Len(Body) - Len(Body) = 0
        /\ Good(parts, Len(parts), Body, Offs, parser, 0, 0, 0) /\ Waits(parts, Len(parts), Body, Offs, parser, 0, 0, 0)
    BY <1>1, <1>2, <2>1, StartsGood
  <2>3. Fed = 0 /\ 0 \in Nat
    BY <1>1, <2>2 DEF Fed
  <2>4. QED
    BY <1>1, <2>2, <2>3, Zenon
<1>3. QED
  BY <1>1, <1>2, Zenon DEF StreamInv

\* A chunk put into the buffer of a parser that is where it should be.
LEMMA GoodFeed ==
  ASSUME NEW ps, NEW n, NEW text, NEW off, NEW p, NEW k, NEW a, NEW f, NEW g, NEW b,
         Good(ps, n, text, off, p, k, a, f), Window(b, text, a, g)
  PROVE  Good(ps, n, text, off, [p EXCEPT !.buffer = b], k, a, g)
<1> DEFINE q == [p EXCEPT !.buffer = b]
<1>1. b \in Seq(Sym) /\ Shape(p)
  BY DEF Good, Window
<1>2. /\ Shape(q) /\ q.buffer = b /\ q.state = p.state /\ q.field = p.field /\ q.size = p.size
      /\ q.result = p.result /\ q.reported = p.reported
  BY <1>1 DEF Shape
<1> HIDE DEF q
<1>3. Good(ps, n, text, off, q, k, a, g)
  BY <1>2 DEF Good
<1>4. QED
  BY <1>3 DEF q

LEMMA FeedKeeps ==
  ASSUME StreamInv, NEW n \in 1 .. Len(rest), FeedData(n)
  PROVE  StreamInv'
<1> DEFINE f == Fed
           g == Fed + n
           b == parser.buffer \o SubSeq(rest, 1, n)
           q == [parser EXCEPT !.buffer = b]
           ps == parts
           m == Len(parts)
           text == Body
           off == Offs
<1>1. /\ parts' = parts /\ eol' = eol /\ Body' = Body /\ Offs' = Offs
      /\ parser' = Consume(q) /\ rest' = From(rest, n + 1)
      /\ spoiled' = (spoiled \/ Len(rest') - Len(eol) \in {1, 2})
  BY DEF FeedData, Body, Offs
<1>2. /\ parts \in UNION {[1 .. i -> Part] : i \in 0 .. MaxParts} /\ eol \in {<<"r", "n">>, <<"n">>}
  BY DEF StreamInv
<1>3. ASSUME eol = Crlf, ~spoiled'
      PROVE  /\ Shape(parser') /\ Fed' \in Nat /\ Window(rest', Body, Fed', Len(Body))
             /\ \/ parser'.flushed
                \/ \E k, a : /\ Good(parts, Len(parts), Body, Offs, parser', k, a, Fed')
                             /\ Waits(parts, Len(parts), Body, Offs, parser', k, a, Fed')
  <2>1. /\ m \in Nat /\ ps \in [1 .. m -> Part] /\ Layout(ps, m, text, off) /\ text \in Seq(Sym) /\ Len(text) \in Nat
    BY <1>2, <1>3, BodyHasLayout
  <2>2. ~spoiled
    BY <1>1, <1>3
  <2>3. /\ Shape(parser) /\ f \in Nat /\ Window(rest, text, f, Len(text))
        /\ \/ parser.flushed
           \/ \E k, a : Good(ps, m, text, off, parser, k, a, f)
    BY <1>3, <2>2, Zenon DEF StreamInv
  <2>4. Fed' = Len(text) - Len(rest') /\ Len(rest) = Len(text) - f
    BY <1>1, <2>3 DEF Fed, Window
  <2> HIDE DEF f, ps, m, text, off
  <2>5. Window(From(rest, n + 1), text, f + n, Len(text)) /\ f + n <= Len(text)
    <3>1. Window(<<>>, text, f, f)
      <4>1. <<>> \in Seq(Sym) /\ Len(<<>>) = 0 /\ f - f = 0 /\ 1 .. 0 = {} /\ f <= f /\ f <= Len(text) /\ f \in Nat
        BY <2>1, <2>3 DEF Window
      <4>2. QED
        BY <4>1 DEF Window
    <3>2. QED
      BY <2>1, <2>3, <3>1, WindowFeed, Zenon
  <2>6. n \in Nat /\ f + n \in Nat /\ Len(rest') = Len(text) - (f + n) /\ Fed' = f + n
    <3>1. n \in Nat /\ f + n \in Nat
      BY <2>3
    <3>2. Len(rest') = Len(text) - (f + n)
      BY <1>1, <2>5 DEF Window
    <3>3. QED
      BY <2>1, <2>4, <3>1, <3>2
  <2>7. Spared(m, off, f + n)
    <3>1. Len(text) = off[m + 1] + 7 /\ off[m + 1] \in Nat
      BY <2>1 DEF Layout
    <3>2. Len(eol) = 2
      BY <1>3 DEF Crlf
    <3>3. Len(rest') - 2 \notin {1, 2}
      BY <1>1, <1>3, <3>2
    <3> DEFINE x == off[m + 1]
               y == Len(rest')
               z == Len(text)
               w == f + n
    <3>4. x \in Nat /\ z = x + 7 /\ w \in Nat /\ y = z - w /\ y - 2 \notin {1, 2}
      BY <2>6, <3>1, <3>3, Zenon
    <3> HIDE DEF x, y, z, w
    <3>5. w # x + 3 /\ w # x + 4
      BY <3>4
    <3>6. QED
      BY <3>5 DEF Spared, w, x
  <2>8. b \in Seq(Sym)
    <3>1. parser.buffer \in Seq(Sym) /\ rest \in Seq(Sym)
      BY <2>3 DEF Shape, Window
    <3>2. 1 \in 1 .. Len(rest) /\ 1 + n - 1 <= Len(rest) /\ 1 + n - 1 = n
      BY <3>1
    <3>3. SubSeq(rest, 1, n) \in Seq(Sym)
      BY <2>6, <3>1, <3>2, Piece
    <3>4. QED
      BY <3>1, <3>3
  <2> HIDE DEF b
  <2>9. Shape(q) /\ q.flushed = parser.flushed
    BY <2>3, <2>8 DEF Shape
  <2>10. q.flushed \/ \E k, a : Good(ps, m, text, off, q, k, a, f + n)
    <3>1. ASSUME NEW k, NEW a, Good(ps, m, text, off, parser, k, a, f) PROVE Good(ps, m, text, off, q, k, a, f + n)
      <4>1. Window(parser.buffer, text, a, f)
        BY <3>1, Zenon DEF Good
      <4>2. Window(b, text, a, f + n)
        BY <2>1, <2>3, <4>1, WindowFeed, Zenon DEF b
      <4>3. QED
        BY <3>1, <4>2, GoodFeed, Zenon
    <3>2. QED
      BY <2>3, <2>9, <3>1, Zenon
  <2> HIDE DEF q
  <2>11. /\ Shape(Consume(q))
         /\ \/ Consume(q).flushed
            \/ \E k, a : /\ Good(ps, m, text, off, Consume(q), k, a, f + n)
                         /\ Waits(ps, m, text, off, Consume(q), k, a, f + n)
    BY <2>1, <2>7, <2>9, <2>10, ConsumeKeeps
  <2>12. QED
    BY <1>1, <2>5, <2>6, <2>11, Zenon DEF ps, m, text, off
<1>4. QED
  BY <1>1, <1>2, <1>3, Zenon DEF StreamInv

LEMMA ResetKeepsInv ==
  ASSUME StreamInv, Reset
  PROVE  StreamInv'
<1>1. /\ parts' = parts /\ eol' = eol /\ Body' = Body /\ Offs' = Offs /\ rest' = Body
      /\ parser' = [NewParser EXCEPT !.field = parser.field]
  BY DEF Reset, Body, Offs
<1>2. /\ parts \in UNION {[1 .. i -> Part] : i \in 0 .. MaxParts} /\ eol \in {<<"r", "n">>, <<"n">>}
  BY DEF StreamInv
<1>3. ASSUME eol = Crlf
      PROVE  /\ Shape(parser') /\ Fed' \in Nat /\ Window(rest', Body, Fed', Len(Body))
             /\ \E k, a : /\ Good(parts, Len(parts), Body, Offs, parser', k, a, Fed')
                          /\ Waits(parts, Len(parts), Body, Offs, parser', k, a, Fed')
  <2> DEFINE q == [NewParser EXCEPT !.field = parser.field]
  <2>1. /\ DOMAIN q = DOMAIN NewParser /\ q.state = "Boundary" /\ q.buffer = <<>> /\ q.result = <<>>
        /\ q.reported = FALSE
    BY DEF NewParser
  <2> HIDE DEF q
  <2>2. /\ Shape(q) /\ Window(Body, Body, 0, Len(Body)) /\ Len(Body) - Len(Body) = 0
        /\ Good(parts, Len(parts), Body, Offs, q, 0, 0, 0) /\ Waits(parts, Len(parts), Body, Offs, q, 0, 0, 0)
    BY <1>2, <1>3, <2>1, StartsGood
  <2>3. Fed' = 0 /\ 0 \in Nat
    BY <1>1, <2>2 DEF Fed
  <2>4. QED
    BY <1>1, <2>2, <2>3, Zenon DEF q
<1>4. QED
  BY <1>1, <1>2, <1>3, Zenon DEF StreamInv

LEMMA StreamNextInv == StreamInv /\ [StreamNext]_streamVars => StreamInv'
<1> SUFFICES ASSUME StreamInv, [StreamNext]_streamVars PROVE StreamInv'
  OBVIOUS
<1>1. ASSUME NEW n \in 1 .. Len(rest), FeedData(n) PROVE StreamInv'
  BY <1>1, FeedKeeps
<1>2. CASE Reset
  BY <1>2, ResetKeepsInv
<1>3. CASE Abort
  BY <1>3 DEF Abort, StreamInv
<1>4. CASE UNCHANGED streamVars
  BY <1>4 DEF streamVars, StreamInv, Fed, Body, Offs
<1>5. QED
  BY <1>1, <1>2, <1>3, <1>4 DEF StreamNext

LEMMA StreamInvFinds == StreamInv => FindsEveryField
<1> SUFFICES ASSUME StreamInv, rest = <<>>, Len(eol) = 2, ~spoiled, ~parser.flushed
             PROVE  /\ parser.state = "Complete"
                    /\ parser.result = [i \in DOMAIN parts |-> parts[i].name]
                    /\ parser.reported = (\E i \in DOMAIN parts : Oversized(parts[i]))
  BY DEF FindsEveryField
<1> DEFINE n == Len(parts)
<1>1. eol = Crlf /\ parts \in UNION {[1 .. i -> Part] : i \in 0 .. MaxParts}
  BY DEF StreamInv, Crlf
<1>2. /\ n \in Nat /\ parts \in [1 .. n -> Part] /\ Layout(parts, n, Body, Offs) /\ Len(Body) \in Nat
  BY <1>1, BodyHasLayout
<1>3. PICK k, a : Good(parts, n, Body, Offs, parser, k, a, Fed) /\ Waits(parts, n, Body, Offs, parser, k, a, Fed)
  BY <1>1, Zenon DEF StreamInv
<1>4. Fed = Len(Body)
  BY <1>2 DEF Fed
<1> HIDE DEF n
<1>5. k \in 0 .. n /\ (parser.state \in {"Headers", "Content"} => k < n)
  BY <1>3 DEF Good
<1>6. \A j \in 1 .. n + 1 : Offs[j] \in Nat /\ Offs[j] + 7 <= Len(Body)
  <2>1. ASSUME NEW j \in 1 .. n + 1 PROVE Offs[j] \in Nat /\ Offs[j] + 7 <= Len(Body)
    <3>1. BoundaryAt(Body, Offs[j])
      BY <1>2, BoundaryThere, Zenon
    <3>2. QED
      BY <3>1 DEF BoundaryAt
  <2>2. QED
    BY <2>1
<1>7. parser.state # "Boundary"
  <2>1. k + 1 \in 1 .. n + 1
    BY <1>2, <1>5
  <2>2. ~(Fed < Offs[k + 1] + 3)
    BY <1>2, <1>4, <1>6, <2>1
  <2>3. QED
    BY <1>3, <2>2 DEF Waits
<1>8. k < n => Offs[k + 1] + 21 <= Len(Body) /\ Offs[k + 2] + 7 <= Len(Body) /\ Offs[k + 1] \in Nat /\ Offs[k + 2] \in Nat
  <2> SUFFICES ASSUME k < n
               PROVE  /\ Offs[k + 1] + 21 <= Len(Body) /\ Offs[k + 2] + 7 <= Len(Body)
                      /\ Offs[k + 1] \in Nat /\ Offs[k + 2] \in Nat
    OBVIOUS
  <2> DEFINE l == Len(parts[k + 1].content)
  <2>1. k + 1 \in 1 .. n + 1 /\ k + 2 \in 1 .. n + 1 /\ k + 1 \in 1 .. n /\ (k + 1) + 1 = k + 2
    BY <1>2, <1>5
  <2>2. l \in Nat
    BY <1>2, <2>1, PartIs
  <2>3. Offs[k + 2] = Offs[k + 1] + 14 + l
    BY <1>2, <2>1, Zenon DEF Layout
  <2> DEFINE x == Offs[k + 1]
             y == Offs[k + 2]
             z == Len(Body)
  <2>4. x \in Nat /\ y \in Nat /\ z \in Nat /\ y + 7 <= z /\ y = x + 14 + l
    BY <1>2, <1>6, <2>1, <2>3, Zenon
  <2> HIDE DEF l, x, y, z
  <2>5. x + 21 <= z
    BY <2>2, <2>4
  <2>6. QED
    BY <2>4, <2>5 DEF x, y, z
<1>9. parser.state # "Headers"
  BY <1>2, <1>3, <1>4, <1>5, <1>8, SMTT(30) DEF Waits
<1>10. parser.state # "Content"
  BY <1>2, <1>3, <1>4, <1>5, <1>8, SMTT(30) DEF Waits
<1>11. parser.state = "Complete" /\ k = n
  BY <1>3, <1>7, <1>9, <1>10 DEF Good, Waits
<1>12. DOMAIN parts = 1 .. n
  BY <1>2
<1>13. QED
  BY <1>3, <1>11, <1>12, Zenon DEF Good

\* However a body with CRLF line ends is cut into chunks, whatever its parts and
\* the limits are and after a reset() at any moment, feed_data finds every field,
\* once and in order, and reports a content over the limit.
THEOREM EveryFieldFound == StreamSpec => []FindsEveryField
<1>1. StreamInit => StreamInv
  BY StreamInitInv
<1>2. StreamInv /\ [StreamNext]_streamVars => StreamInv'
  BY StreamNextInv
<1>3. StreamInv => FindsEveryField
  BY StreamInvFinds
<1>4. QED
  BY <1>1, <1>2, <1>3, PTL DEF StreamSpec

-----------------------------------------------------------------------------
(* The parsers of whole texts: what is concatenated, and where it is. *)

\* The first k sequences, one behind the other, and where each of them begins.
FlatUpTo(S, seqs, g, off, k) ==
  /\ g[k] \in Seq(S) /\ Len(g[k]) = off[k + 1] /\ off[k] \in Nat /\ off[k + 1] = off[k] + Len(seqs[k])
  /\ \A j \in 1 .. k : /\ off[j] \in Nat /\ off[j] + Len(seqs[j]) <= off[k + 1]
                       /\ \A i \in 1 .. Len(seqs[j]) : g[k][off[j] + i] = seqs[j][i]

\* Where FlattenSeq puts each of its sequences.
FlatAt(S, n, seqs, flat, off) ==
  /\ off \in [1 .. n + 1 -> Nat] /\ off[1] = 0 /\ flat \in Seq(S) /\ Len(flat) = off[n + 1]
  /\ \A k \in 1 .. n : /\ off[k + 1] = off[k] + Len(seqs[k]) /\ off[k + 1] <= off[n + 1]
                       /\ \A i \in 1 .. Len(seqs[k]) : flat[off[k] + i] = seqs[k][i]

LEMMA CatIs ==
  ASSUME NEW S, NEW s \in Seq(S), NEW t \in Seq(S)
  PROVE  /\ s \o t \in Seq(S) /\ Len(s \o t) = Len(s) + Len(t) /\ Len(s) \in Nat /\ Len(t) \in Nat
         /\ \A i \in 1 .. Len(s) : (s \o t)[i] = s[i]
         /\ \A i \in 1 .. Len(t) : (s \o t)[Len(s) + i] = t[i]
<1>1. /\ s \o t \in Seq(S) /\ Len(s \o t) = Len(s) + Len(t)
      /\ \A i \in 1 .. Len(s) + Len(t) : (s \o t)[i] = IF i <= Len(s) THEN s[i] ELSE t[i - Len(s)]
  BY ConcatProperties, Zenon
<1>2. Len(s) \in Nat /\ Len(t) \in Nat
  OBVIOUS
<1>3. ASSUME NEW i \in 1 .. Len(s) PROVE (s \o t)[i] = s[i]
  BY <1>1, <1>2
<1>4. ASSUME NEW i \in 1 .. Len(t) PROVE (s \o t)[Len(s) + i] = t[i]
  <2>1. Len(s) + i \in 1 .. Len(s) + Len(t) /\ ~(Len(s) + i <= Len(s)) /\ (Len(s) + i) - Len(s) = i
    BY <1>2
  <2>2. QED
    BY <1>1, <2>1
<1>5. QED
  BY <1>1, <1>2, <1>3, <1>4, Zenon

LEMMA FlatParts ==
  ASSUME NEW S, NEW n \in Nat, NEW seqs \in [1 .. n -> Seq(S)]
  PROVE  \E off : FlatAt(S, n, seqs, FlattenSeq(seqs), off)
<1>0. Len(seqs) = n /\ DOMAIN seqs = 1 .. n
  OBVIOUS
<1>1. CASE n = 0
  <2> DEFINE off == [k \in 1 .. n + 1 |-> 0]
  <2>1. seqs = <<>> /\ FlattenSeq(seqs) = seqs
    BY <1>0, <1>1 DEF FlattenSeq
  <2>2. off \in [1 .. n + 1 -> Nat] /\ off[1] = 0 /\ off[n + 1] = 0
    OBVIOUS
  <2>3. <<>> \in Seq(S) /\ Len(<<>>) = 0
    OBVIOUS
  <2>4. ASSUME NEW k \in 1 .. n PROVE FALSE
    BY <1>1
  <2> HIDE DEF off
  <2>5. FlatAt(S, n, seqs, FlattenSeq(seqs), off)
    BY <2>1, <2>2, <2>3, <2>4, Zenon DEF FlatAt
  <2>6. QED
    BY <2>5, Zenon
<1>2. CASE n # 0
  <2>1. FlattenSeq(seqs) = (CHOOSE g : g = [i \in 1 .. n |-> IF i = 1 THEN seqs[i] ELSE g[i - 1] \o seqs[i]])[n]
    BY <1>0, <1>2, Zenon DEF FlattenSeq
  <2>2. PICK g : /\ g = [i \in 1 .. n |-> IF i = 1 THEN seqs[i] ELSE g[i - 1] \o seqs[i]]
                 /\ FlattenSeq(seqs) = g[n]
    BY <2>1, FlatExists, Zenon
  <2> DEFINE off == [k \in 1 .. n + 1 |-> IF k = 1 THEN 0 ELSE Len(g[k - 1])]
             P == {m \in Nat : m + 1 \in 1 .. n => FlatUpTo(S, seqs, g, off, m + 1)}
  <2>3. ASSUME NEW k \in 1 .. n PROVE seqs[k] \in Seq(S) /\ Len(seqs[k]) \in Nat
    OBVIOUS
  <2>4. 0 \in P
    <3>1. g[1] = seqs[1] /\ off[1] = 0 /\ off[2] = Len(g[1]) /\ 1 \in 1 .. n
      BY <1>2, <2>2
    <3> HIDE DEF off
    <3>2. seqs[1] \in Seq(S) /\ Len(seqs[1]) \in Nat
      BY <2>3, <3>1
    <3>3. FlatUpTo(S, seqs, g, off, 0 + 1)
      BY <3>1, <3>2 DEF FlatUpTo
    <3>4. QED
      BY <3>3
  <2>5. ASSUME NEW m \in Nat, m \in P PROVE m + 1 \in P
    <3> SUFFICES ASSUME (m + 1) + 1 \in 1 .. n PROVE FlatUpTo(S, seqs, g, off, (m + 1) + 1)
      OBVIOUS
    <3> DEFINE k == m + 1
    <3>1. /\ k \in 1 .. n /\ k + 1 \in 1 .. n /\ k \in Nat
          /\ off[k + 1] = Len(g[k]) /\ off[(k + 1) + 1] = Len(g[k + 1])
      OBVIOUS
    <3>2. g[k + 1] = g[k] \o seqs[k + 1]
      <4>1. k + 1 \in 1 .. n /\ k + 1 # 1 /\ (k + 1) - 1 = k
        BY <3>1
      <4> HIDE DEF k
      <4>2. QED
        BY <2>2, <4>1
    <3>3. FlatUpTo(S, seqs, g, off, k)
      BY <2>5, <3>1
    <3> HIDE DEF k, off, P
    <3>4. g[k] \in Seq(S) /\ seqs[k + 1] \in Seq(S)
      BY <2>3, <3>1, <3>3 DEF FlatUpTo
    <3>5. /\ g[k + 1] \in Seq(S) /\ Len(g[k + 1]) = Len(g[k]) + Len(seqs[k + 1])
          /\ Len(g[k]) \in Nat /\ Len(seqs[k + 1]) \in Nat
          /\ \A i \in 1 .. Len(g[k]) : g[k + 1][i] = g[k][i]
          /\ \A i \in 1 .. Len(seqs[k + 1]) : g[k + 1][Len(g[k]) + i] = seqs[k + 1][i]
      <4> DEFINE u == g[k]
                 v == seqs[k + 1]
      <4>1. u \in Seq(S) /\ v \in Seq(S)
        BY <3>4
      <4>2. g[k + 1] = u \o v
        BY <3>2
      <4> HIDE DEF u, v
      <4>3. /\ u \o v \in Seq(S) /\ Len(u \o v) = Len(u) + Len(v) /\ Len(u) \in Nat /\ Len(v) \in Nat
            /\ \A i \in 1 .. Len(u) : (u \o v)[i] = u[i]
            /\ \A i \in 1 .. Len(v) : (u \o v)[Len(u) + i] = v[i]
        BY <4>1, CatIs
      <4>4. QED
        BY <4>2, <4>3, Zenon DEF u, v
    <3>6. ASSUME NEW j \in 1 .. k + 1
          PROVE  /\ off[j] \in Nat /\ off[j] + Len(seqs[j]) <= off[(k + 1) + 1]
                 /\ \A i \in 1 .. Len(seqs[j]) : g[k + 1][off[j] + i] = seqs[j][i]
      <4>1. CASE j = k + 1
        <5>1. off[j] = Len(g[k]) /\ off[(k + 1) + 1] = Len(g[k]) + Len(seqs[j])
          BY <3>1, <3>5, <4>1
        <5>2. QED
          BY <3>5, <4>1, <5>1
      <4>2. CASE j \in 1 .. k
        <5>1. /\ off[j] \in Nat /\ off[j] + Len(seqs[j]) <= off[k + 1]
              /\ \A i \in 1 .. Len(seqs[j]) : g[k][off[j] + i] = seqs[j][i]
          BY <3>3, <4>2 DEF FlatUpTo
        <5>2. j \in 1 .. n
          BY <3>1, <4>2
        <5>3. Len(seqs[j]) \in Nat
          BY <2>3, <5>2
        <5>4. off[j] + Len(seqs[j]) <= off[(k + 1) + 1]
          <6>1. off[k + 1] = Len(g[k]) /\ off[(k + 1) + 1] = Len(g[k]) + Len(seqs[k + 1])
            BY <3>1, <3>5, Zenon
          <6> DEFINE a == off[(k + 1) + 1]
                     b == off[k + 1]
          <6>2. a = b + Len(seqs[k + 1]) /\ b \in Nat /\ Len(seqs[k + 1]) \in Nat
            BY <3>5, <6>1, Zenon
          <6>3. off[j] + Len(seqs[j]) <= b
            BY <5>1
          <6> HIDE DEF a, b
          <6>4. off[j] + Len(seqs[j]) <= a
            BY <5>1, <5>3, <6>2, <6>3
          <6>5. QED
            BY <6>4 DEF a
        <5>5. ASSUME NEW i \in 1 .. Len(seqs[j]) PROVE g[k + 1][off[j] + i] = seqs[j][i]
          <6>1. off[j] + i \in 1 .. Len(g[k])
            <7>1. off[k + 1] = Len(g[k]) /\ Len(g[k]) \in Nat
              BY <3>1, <3>5, Zenon
            <7>2. QED
              BY <5>1, <5>3, <7>1
          <6>2. g[k][off[j] + i] = seqs[j][i]
            BY <5>1
          <6>3. QED
            BY <3>5, <6>1, <6>2
        <5>6. QED
          BY <5>1, <5>4, <5>5
      <4>3. QED
        BY <3>1, <4>1, <4>2
    <3>7. off[k + 1] \in Nat
      BY <3>1, <3>5
    <3>8. FlatUpTo(S, seqs, g, off, k + 1)
      BY <3>1, <3>5, <3>6, <3>7 DEF FlatUpTo
    <3>9. QED
      BY <3>8 DEF k
  <2>6. ASSUME NEW k \in 1 .. n PROVE FlatUpTo(S, seqs, g, off, k)
    <3> HIDE DEF off
    <3> SUFFICES k - 1 \in P
      OBVIOUS
    <3> HIDE DEF P
    <3>1. k - 1 \in Nat
      OBVIOUS
    <3>2. QED
      BY <2>4, <2>5, <3>1, Induction, Zenon
  <2>7. off[1] = 0 /\ off = [k \in 1 .. n + 1 |-> off[k]]
    OBVIOUS
  <2> HIDE DEF off, P
  <2>8. n \in 1 .. n /\ (n + 1) - 1 = n
    BY <1>2
  <2>9. g[n] \in Seq(S) /\ Len(g[n]) = off[n + 1] /\ off[n + 1] \in Nat
    BY <2>6, <2>8 DEF FlatUpTo
  <2>10. off \in [1 .. n + 1 -> Nat]
    <3> SUFFICES ASSUME NEW k \in 1 .. n + 1 PROVE off[k] \in Nat
      BY <2>7
    <3>1. CASE k \in 1 .. n
      BY <2>6, <3>1 DEF FlatUpTo
    <3>2. CASE k = n + 1
      BY <2>9, <3>2
    <3>3. QED
      BY <3>1, <3>2
  <2>11. ASSUME NEW k \in 1 .. n
         PROVE  /\ off[k + 1] = off[k] + Len(seqs[k]) /\ off[k + 1] <= off[n + 1]
                /\ \A i \in 1 .. Len(seqs[k]) : g[n][off[k] + i] = seqs[k][i]
    <3>1. FlatUpTo(S, seqs, g, off, k) /\ FlatUpTo(S, seqs, g, off, n)
      BY <2>6, <2>8
    <3>2. QED
      BY <3>1 DEF FlatUpTo
  <2>12. FlatAt(S, n, seqs, g[n], off)
    BY <2>7, <2>9, <2>10, <2>11, Zenon DEF FlatAt
  <2>13. QED
    BY <2>2, <2>12, Zenon
<1>3. QED
  BY <1>1, <1>2

-----------------------------------------------------------------------------
(* The walk over a text: at each place something is put out and some bytes  *)
(* are passed.                                                              *)

Steps(n, step) == \A i \in 1 .. n : step[i] \in Nat /\ step[i] >= 1 /\ i + step[i] <= n + 1

\* What is put out, and what follows.
Then(s, behind) == IF s = <<>> THEN behind ELSE s \o behind

Walk(n, out, step, g) == g = [i \in 1 .. n + 1 |-> IF i > n THEN <<>> ELSE Then(out[i], g[i + step[i]])]

LEMMA WalkExists ==
  ASSUME NEW n \in Nat, NEW out, NEW step, Steps(n, step)
  PROVE  \E g : Walk(n, out, step, g)
<1> DEFINE Solved(b, g) == g = [i \in b .. n + 1 |-> IF i > n THEN <<>> ELSE Then(out[i], g[i + step[i]])]
           P == {m \in Nat : m <= n => \E g : Solved(n + 1 - m, g)}
<1>0. \A m : m \in P <=> m \in Nat /\ (m <= n => \E g : Solved(n + 1 - m, g))
  BY Zenon
<1>1. 0 \in P
  <2> DEFINE g == [i \in n + 1 .. n + 1 |-> <<>>]
  <2>1. Solved(n + 1, g)
    <3> SUFFICES ASSUME NEW i \in n + 1 .. n + 1
                 PROVE  g[i] = IF i > n THEN <<>> ELSE Then(out[i], g[i + step[i]])
      BY Zenon
    <3>1. i > n
      OBVIOUS
    <3>2. QED
      BY <3>1, Zenon
  <2>2. n + 1 - 0 = n + 1 /\ 0 \in Nat
    OBVIOUS
  <2> HIDE DEF g
  <2>3. \E f : Solved(n + 1 - 0, f)
    BY <2>1, <2>2, Zenon
  <2>4. QED
    BY <1>0, <2>2, <2>3, Zenon
<1>2. ASSUME NEW m \in Nat, m \in P PROVE m + 1 \in P
  <2>0. m + 1 \in Nat
    OBVIOUS
  <2> SUFFICES ASSUME m + 1 <= n PROVE \E g : Solved(n + 1 - (m + 1), g)
    BY <1>0, <2>0, Zenon
  <2> DEFINE b == n + 1 - (m + 1)
  <2>1. b \in 1 .. n /\ n + 1 - m = b + 1 /\ m <= n
    OBVIOUS
  <2> HIDE DEF b
  <2>2. PICK g : Solved(b + 1, g)
    BY <1>0, <1>2, <2>1, Zenon
  <2> DEFINE h == [i \in b .. n + 1 |-> IF i = b THEN Then(out[b], g[b + step[b]]) ELSE g[i]]
  <2>3. Solved(b, h)
    <3> SUFFICES ASSUME NEW i \in b .. n + 1
                 PROVE  h[i] = IF i > n THEN <<>> ELSE Then(out[i], h[i + step[i]])
      BY Zenon
    <3>1. i \in 1 .. n => i + step[i] \in b + 1 .. n + 1 /\ i + step[i] # b
      BY <2>1 DEF Steps
    <3>2. CASE i = b
      <4>1. i \in 1 .. n /\ ~(i > n)
        BY <2>1, <3>2
      <4>2. i + step[i] \in b .. n + 1 /\ i + step[i] # b
        BY <2>1, <3>1, <4>1
      <4>3. h[i] = Then(out[i], g[i + step[i]]) /\ h[i + step[i]] = g[i + step[i]]
        BY <3>2, <4>2, Zenon
      <4>4. QED
        BY <4>1, <4>3, Zenon
    <3>3. CASE i # b
      <4>1. i \in b + 1 .. n + 1
        BY <2>1, <3>3
      <4>2. h[i] = g[i] /\ g[i] = IF i > n THEN <<>> ELSE Then(out[i], g[i + step[i]])
        BY <2>2, <3>3, <4>1
      <4>3. CASE i > n
        BY <4>2, <4>3
      <4>4. CASE ~(i > n)
        <5>1. i \in 1 .. n
          BY <2>1, <4>4
        <5>2. i + step[i] \in b .. n + 1 /\ i + step[i] # b
          BY <2>1, <3>1, <5>1
        <5>3. h[i + step[i]] = g[i + step[i]]
          BY <5>2, Zenon
        <5>4. QED
          BY <4>2, <4>4, <5>3, Zenon
      <4>5. QED
        BY <4>3, <4>4
    <3>4. QED
      BY <3>2, <3>3
  <2> HIDE DEF h
  <2>4. QED
    BY <2>3, Zenon DEF b
<1> HIDE DEF P
<1>3. n \in P
  BY <1>1, <1>2, Induction, Zenon
<1>4. PICK g : Solved(n + 1 - n, g)
  <2>1. n <= n
    OBVIOUS
  <2>2. QED
    BY <1>0, <1>3, <2>1, Zenon
<1>5. n + 1 - n = 1
  OBVIOUS
<1>6. Walk(n, out, step, g)
  BY <1>4, <1>5 DEF Walk
<1>7. QED
  BY <1>6, Zenon

\* Its equations.
WalkIs(n, out, step, g) == g[n + 1] = <<>> /\ \A i \in 1 .. n : g[i] = Then(out[i], g[i + step[i]])

LEMMA WalkAt ==
  ASSUME NEW n \in Nat, NEW out, NEW step, NEW g, Walk(n, out, step, g)
  PROVE  WalkIs(n, out, step, g)
<1>1. ASSUME NEW i \in 1 .. n + 1 PROVE g[i] = IF i > n THEN <<>> ELSE Then(out[i], g[i + step[i]])
  BY Zenon DEF Walk
<1>2. n + 1 \in 1 .. n + 1 /\ n + 1 > n
  OBVIOUS
<1>3. g[n + 1] = <<>>
  BY <1>1, <1>2
<1>4. ASSUME NEW i \in 1 .. n PROVE g[i] = Then(out[i], g[i + step[i]])
  <2>1. i \in 1 .. n + 1 /\ ~(i > n)
    OBVIOUS
  <2>2. QED
    BY <1>1, <2>1, Zenon
<1>5. QED
  BY <1>3, <1>4 DEF WalkIs

LEMMA WalkUnique ==
  ASSUME NEW n \in Nat, NEW out, NEW step, Steps(n, step),
         NEW g, Walk(n, out, step, g), NEW h, Walk(n, out, step, h)
  PROVE  g[1] = h[1]
<1> DEFINE P == {m \in Nat : \A i \in 1 .. n + 1 : i >= n + 1 - m => g[i] = h[i]}
<1>0. /\ g[n + 1] = <<>> /\ \A i \in 1 .. n : g[i] = Then(out[i], g[i + step[i]])
      /\ h[n + 1] = <<>> /\ \A i \in 1 .. n : h[i] = Then(out[i], h[i + step[i]])
  <2>1. WalkIs(n, out, step, g) /\ WalkIs(n, out, step, h)
    BY WalkAt, Zenon
  <2>2. QED
    BY <2>1, Zenon DEF WalkIs
<1>1. 0 \in P
  <2>1. g[n + 1] = h[n + 1]
    BY <1>0
  <2>2. QED
    BY <2>1
<1>2. ASSUME NEW m \in Nat, m \in P PROVE m + 1 \in P
  <2> SUFFICES ASSUME NEW i \in 1 .. n + 1, i >= n + 1 - (m + 1) PROVE g[i] = h[i]
    OBVIOUS
  <2>1. CASE i >= n + 1 - m
    BY <1>2, <2>1
  <2>2. CASE ~(i >= n + 1 - m)
    <3>1. i \in 1 .. n /\ i = n - m
      BY <2>2
    <3>2. i + step[i] \in 1 .. n + 1 /\ i + step[i] >= n + 1 - m
      BY <3>1 DEF Steps
    <3>3. g[i + step[i]] = h[i + step[i]]
      BY <1>2, <3>2
    <3>4. g[i] = Then(out[i], g[i + step[i]]) /\ h[i] = Then(out[i], h[i + step[i]])
      BY <1>0, <3>1, Zenon
    <3>5. QED
      BY <3>3, <3>4, Zenon
  <2>3. QED
    BY <2>1, <2>2
<1> HIDE DEF P
<1>3. n \in P
  BY <1>1, <1>2, Induction, Zenon
<1>4. 1 \in 1 .. n + 1 /\ 1 >= n + 1 - n
  OBVIOUS
<1>5. QED
  BY <1>3, <1>4 DEF P

-----------------------------------------------------------------------------
(* The decoders. *)

\* The form parser's.
Encoded(text, i) == text[i] = Percent /\ i + 2 <= Len(text) /\ StreamHex(text[i + 1], text[i + 2]) < 256

DecodedAt(text) ==
  [i \in 1 .. Len(text) |-> IF Encoded(text, i) THEN <<StreamHex(text[i + 1], text[i + 2])>>
                            ELSE <<IF text[i] = Plus THEN Space ELSE text[i]>>]

DecodedBy(text) == [i \in 1 .. Len(text) |-> IF Encoded(text, i) THEN 3 ELSE 1]

LEMMA DecodeSteps ==
  ASSUME NEW text, Len(text) \in Nat
  PROVE  Steps(Len(text), DecodedBy(text))
<1> SUFFICES ASSUME NEW i \in 1 .. Len(text)
             PROVE  /\ DecodedBy(text)[i] \in Nat /\ DecodedBy(text)[i] >= 1
                    /\ i + DecodedBy(text)[i] <= Len(text) + 1
  BY Zenon DEF Steps
<1>1. CASE Encoded(text, i)
  <2>1. DecodedBy(text)[i] = 3 /\ i + 2 <= Len(text)
    BY <1>1 DEF DecodedBy, Encoded
  <2>2. QED
    BY <2>1
<1>2. CASE ~Encoded(text, i)
  <2>1. DecodedBy(text)[i] = 1
    BY <1>2 DEF DecodedBy
  <2>2. QED
    BY <2>1
<1>3. QED
  BY <1>1, <1>2

LEMMA NotEmpty == \A x : <<x>> # <<>>
OBVIOUS

LEMMA UrlDecodeWalks ==
  ASSUME NEW text, Len(text) \in Nat
  PROVE  \E g : Walk(Len(text), DecodedAt(text), DecodedBy(text), g) /\ UrlDecode(text) = g[1]
<1> DEFINE n == Len(text)
           body(g) == [i \in 1 .. n + 1 |->
             IF i > n THEN <<>>
             ELSE IF text[i] = Percent /\ i + 2 <= n /\ StreamHex(text[i + 1], text[i + 2]) < 256
                  THEN <<StreamHex(text[i + 1], text[i + 2])>> \o g[i + 3]
                  ELSE <<IF text[i] = Plus THEN Space ELSE text[i]>> \o g[i + 1]]
           walk(g) == [i \in 1 .. n + 1 |-> IF i > n THEN <<>> ELSE Then(DecodedAt(text)[i], g[i + DecodedBy(text)[i]])]
<1>1. UrlDecode(text) = (CHOOSE g : g = body(g))[1]
  BY Zenon DEF UrlDecode
<1>2. ASSUME NEW g PROVE body(g) = walk(g)
  <2> SUFFICES ASSUME NEW i \in 1 .. n + 1 PROVE body(g)[i] = walk(g)[i]
    BY Zenon
  <2>1. CASE i > n
    BY <2>1
  <2>2. CASE ~(i > n)
    <3>1. i \in 1 .. n
      BY <2>2
    <3>2. CASE Encoded(text, i)
      <4>1. DecodedAt(text)[i] = <<StreamHex(text[i + 1], text[i + 2])>> /\ DecodedBy(text)[i] = 3
        BY <3>1, <3>2 DEF DecodedAt, DecodedBy
      <4>a. Then(DecodedAt(text)[i], g[i + 3]) = <<StreamHex(text[i + 1], text[i + 2])>> \o g[i + 3]
        BY <4>1, NotEmpty, Zenon DEF Then
      <4>2. QED
        BY <2>2, <3>2, <4>1, <4>a, Zenon DEF Encoded
    <3>3. CASE ~Encoded(text, i)
      <4>1. DecodedAt(text)[i] = <<IF text[i] = Plus THEN Space ELSE text[i]>> /\ DecodedBy(text)[i] = 1
        BY <3>1, <3>3 DEF DecodedAt, DecodedBy
      <4>a. Then(DecodedAt(text)[i], g[i + 1]) = <<IF text[i] = Plus THEN Space ELSE text[i]>> \o g[i + 1]
        BY <4>1, NotEmpty, Zenon DEF Then
      <4>2. QED
        BY <2>2, <3>3, <4>1, <4>a, Zenon DEF Encoded
    <3>4. QED
      BY <3>2, <3>3
  <2>3. QED
    BY <2>1, <2>2
<1>3. PICK g : Walk(n, DecodedAt(text), DecodedBy(text), g)
  BY DecodeSteps, WalkExists, Zenon
<1>4. ASSUME NEW f PROVE f = body(f) <=> Walk(n, DecodedAt(text), DecodedBy(text), f)
  BY <1>2, Zenon DEF Walk
<1> HIDE DEF body, walk, n
<1>5. g = body(g)
  BY <1>3, <1>4, Zenon
<1> DEFINE h == CHOOSE f : f = body(f)
<1>6. h = body(h)
  BY <1>5, Zenon
<1>7. UrlDecode(text) = h[1]
  BY <1>1, Zenon
<1> HIDE DEF h
<1>8. Walk(n, DecodedAt(text), DecodedBy(text), h)
  BY <1>4, <1>6, Zenon
<1>9. QED
  BY <1>7, <1>8, Zenon DEF n

\* The query's.
QueryEncoded(text, i) == text[i] = Percent /\ i + 2 <= Len(text) /\ StoiHex(text[i + 1], text[i + 2]) < 256

QueryDecodedAt(text) ==
  [i \in 1 .. Len(text) |-> IF QueryEncoded(text, i) THEN <<StoiHex(text[i + 1], text[i + 2])>>
                            ELSE <<IF text[i] = Plus THEN Space ELSE text[i]>>]

QueryDecodedBy(text) == [i \in 1 .. Len(text) |-> IF QueryEncoded(text, i) THEN 3 ELSE 1]

LEMMA QueryDecodeSteps ==
  ASSUME NEW text, Len(text) \in Nat
  PROVE  Steps(Len(text), QueryDecodedBy(text))
<1> SUFFICES ASSUME NEW i \in 1 .. Len(text)
             PROVE  /\ QueryDecodedBy(text)[i] \in Nat /\ QueryDecodedBy(text)[i] >= 1
                    /\ i + QueryDecodedBy(text)[i] <= Len(text) + 1
  BY Zenon DEF Steps
<1>1. CASE QueryEncoded(text, i)
  <2>1. QueryDecodedBy(text)[i] = 3 /\ i + 2 <= Len(text)
    BY <1>1 DEF QueryDecodedBy, QueryEncoded
  <2>2. QED
    BY <2>1
<1>2. CASE ~QueryEncoded(text, i)
  <2>1. QueryDecodedBy(text)[i] = 1
    BY <1>2 DEF QueryDecodedBy
  <2>2. QED
    BY <2>1
<1>3. QED
  BY <1>1, <1>2

LEMMA DigitIs == ASSUME NEW c \in 0 .. 255 PROVE Digit(c) \in 0 .. 16
BY DEF Digit

LEMMA StoiHexIs ==
  ASSUME NEW a \in 0 .. 255, NEW b \in 0 .. 255
  PROVE  StoiHex(a, b) \in 0 .. 256
<1>1. Digit(a) \in 0 .. 16 /\ Digit(b) \in 0 .. 16
  BY DigitIs
<1>2. QED
  BY <1>1, SMTT(30) DEF StoiHex, IsHex, IsSpace, Zero, Hyphen, Plus, Space

LEMMA QueryDecodeWalks ==
  ASSUME NEW text \in Seq(0 .. 255)
  PROVE  \E g : Walk(Len(text), QueryDecodedAt(text), QueryDecodedBy(text), g) /\ QueryDecode(text) = g[1]
<1> DEFINE n == Len(text)
           encoded(i) == text[i] = Percent /\ i + 2 <= n /\ StoiHex(text[i + 1], text[i + 2]) # 256
           put(g, i) ==
             IF i > n THEN <<>>
             ELSE CASE encoded(i) -> <<StoiHex(text[i + 1], text[i + 2])>> \o g[i + 3]
                    [] text[i] = Plus -> <<Space>> \o g[i + 1]
                    [] OTHER -> <<text[i]>> \o g[i + 1]
           body(g) == [i \in 1 .. n + 1 |-> put(g, i)]
           walk(g) == [i \in 1 .. n + 1 |-> IF i > n THEN <<>> ELSE Then(QueryDecodedAt(text)[i], g[i + QueryDecodedBy(text)[i]])]
<1>1. QueryDecode(text) = (CHOOSE g : g = body(g))[1]
  BY Zenon DEF QueryDecode
<1>a. Len(text) \in Nat /\ \A i \in 1 .. Len(text) : text[i] \in 0 .. 255
  BY ElementOfSeq, LenProperties, Zenon
<1>b. ASSUME NEW i \in 1 .. n PROVE encoded(i) <=> QueryEncoded(text, i)
  <2>1. CASE text[i] = Percent /\ i + 2 <= n
    <3>1. i + 1 \in 1 .. n /\ i + 2 \in 1 .. n
      BY <1>a, <2>1
    <3>2. text[i + 1] \in 0 .. 255 /\ text[i + 2] \in 0 .. 255
      BY <1>a, <3>1
    <3>3. StoiHex(text[i + 1], text[i + 2]) \in 0 .. 256
      BY <3>2, StoiHexIs, Zenon
    <3>4. StoiHex(text[i + 1], text[i + 2]) # 256 <=> StoiHex(text[i + 1], text[i + 2]) < 256
      <4>1. \A x \in 0 .. 256 : x # 256 <=> x < 256
        OBVIOUS
      <4>2. QED
        BY <3>3, <4>1, Zenon
    <3>5. QED
      BY <2>1, <3>4, Zenon DEF QueryEncoded
  <2>2. CASE ~(text[i] = Percent /\ i + 2 <= n)
    BY <2>2, Zenon DEF QueryEncoded
  <2>3. QED
    BY <2>1, <2>2, Zenon
<1>2. ASSUME NEW g PROVE body(g) = walk(g)
  <2> SUFFICES ASSUME NEW i \in 1 .. n + 1
               PROVE  put(g, i) = IF i > n THEN <<>> ELSE Then(QueryDecodedAt(text)[i], g[i + QueryDecodedBy(text)[i]])
    <3> HIDE DEF put
    <3>1. QED
      BY Zenon
  <2>1. CASE i > n
    BY <2>1
  <2>2. CASE ~(i > n)
    <3>1. i \in 1 .. n
      BY <1>a, <2>2
    <3>2. CASE QueryEncoded(text, i)
      <4>1. QueryDecodedAt(text)[i] = <<StoiHex(text[i + 1], text[i + 2])>> /\ QueryDecodedBy(text)[i] = 3
        BY <3>1, <3>2 DEF QueryDecodedAt, QueryDecodedBy
      <4>a. Then(QueryDecodedAt(text)[i], g[i + 3]) = <<StoiHex(text[i + 1], text[i + 2])>> \o g[i + 3]
        BY <4>1, NotEmpty, Zenon DEF Then
      <4>2. encoded(i)
        BY <1>b, <3>1, <3>2, Zenon
      <4>3. text[i] # Plus
        BY <4>2 DEF Percent, Plus
      <4>4. QED
        BY <2>2, <4>1, <4>2, <4>3, <4>a, Zenon
    <3>3. CASE ~QueryEncoded(text, i)
      <4>1. QueryDecodedAt(text)[i] = <<IF text[i] = Plus THEN Space ELSE text[i]>> /\ QueryDecodedBy(text)[i] = 1
        BY <3>1, <3>3 DEF QueryDecodedAt, QueryDecodedBy
      <4>a. Then(QueryDecodedAt(text)[i], g[i + 1]) = <<IF text[i] = Plus THEN Space ELSE text[i]>> \o g[i + 1]
        BY <4>1, NotEmpty, Zenon DEF Then
      <4>2. ~encoded(i)
        BY <1>b, <3>1, <3>3, Zenon
      <4> HIDE DEF encoded
      <4>3. CASE text[i] = Plus
        BY <2>2, <4>1, <4>2, <4>3, <4>a, Zenon
      <4>4. CASE text[i] # Plus
        BY <2>2, <4>1, <4>2, <4>4, <4>a, Zenon
      <4>5. QED
        BY <4>3, <4>4
    <3>4. QED
      BY <3>2, <3>3
  <2>3. QED
    BY <2>1, <2>2
<1>3. PICK g : Walk(n, QueryDecodedAt(text), QueryDecodedBy(text), g)
  BY <1>a, QueryDecodeSteps, WalkExists, Zenon
<1>4. ASSUME NEW f PROVE f = body(f) <=> Walk(n, QueryDecodedAt(text), QueryDecodedBy(text), f)
  <2> HIDE DEF body
  <2>1. Walk(n, QueryDecodedAt(text), QueryDecodedBy(text), f) <=> f = walk(f)
    BY Zenon DEF Walk
  <2> HIDE DEF walk
  <2>2. QED
    BY <1>2, <2>1, Zenon
<1> HIDE DEF body, walk, n
<1>5. g = body(g)
  BY <1>3, <1>4, Zenon
<1> DEFINE h == CHOOSE f : f = body(f)
<1>6. h = body(h)
  BY <1>5, Zenon
<1>7. QueryDecode(text) = h[1]
  BY <1>1, Zenon
<1> HIDE DEF h
<1>8. Walk(n, QueryDecodedAt(text), QueryDecodedBy(text), h)
  BY <1>4, <1>6, Zenon
<1>9. QED
  BY <1>7, <1>8, Zenon DEF n

\* Where no escape is "0x", the two libraries read the same number.
LEMMA HexAgrees ==
  ASSUME NEW a \in 0 .. 255, NEW b \in 0 .. 255, ~HexPrefix(a, b)
  PROVE  StreamHex(a, b) = StoiHex(a, b)
<1>1. Digit(a) \in 0 .. 16 /\ Digit(b) \in 0 .. 16
  BY DigitIs
<1>2. IsHex(a) => a # Hyphen /\ a # Plus /\ a \notin (9 .. 13) \cup {Space}
  BY DEF IsHex, Digit, Hyphen, Plus, Space
<1>3. Digit(b) = 0 <=> b = Zero
  BY DEF Digit, Zero
<1>4. QED
  BY <1>1, <1>2, <1>3, SMTT(60) DEF StreamHex, StoiHex, IsHex, IsSpace, Hyphen, Plus, Space

\* The two decoders agree.
LEMMA DecodersAgree ==
  ASSUME NEW text \in Seq(0 .. 255), ~HasHexPrefix(text)
  PROVE  UrlDecode(text) = QueryDecode(text)
<1> DEFINE n == Len(text)
<1>1. n \in Nat /\ \A i \in 1 .. n : text[i] \in 0 .. 255
  BY ElementOfSeq, LenProperties, Zenon
<1>2. PICK g : Walk(n, DecodedAt(text), DecodedBy(text), g) /\ UrlDecode(text) = g[1]
  BY <1>1, UrlDecodeWalks, Zenon
<1>3. PICK h : Walk(n, QueryDecodedAt(text), QueryDecodedBy(text), h) /\ QueryDecode(text) = h[1]
  BY QueryDecodeWalks, Zenon
<1>4. ASSUME NEW i \in 1 .. n, text[i] = Percent, i + 2 <= n
      PROVE  StreamHex(text[i + 1], text[i + 2]) = StoiHex(text[i + 1], text[i + 2])
  <2>1. i + 1 \in 1 .. n /\ i + 2 \in 1 .. n /\ i \in 1 .. n - 2
    BY <1>1, <1>4
  <2>2. text[i + 1] \in 0 .. 255 /\ text[i + 2] \in 0 .. 255 /\ ~HexPrefix(text[i + 1], text[i + 2])
    BY <1>1, <1>4, <2>1, Zenon DEF HasHexPrefix
  <2>3. QED
    BY <2>2, HexAgrees, Zenon
<1>5. DecodedAt(text) = QueryDecodedAt(text) /\ DecodedBy(text) = QueryDecodedBy(text)
  <2>1. ASSUME NEW i \in 1 .. n
        PROVE  /\ Encoded(text, i) <=> QueryEncoded(text, i)
               /\ Encoded(text, i) => StreamHex(text[i + 1], text[i + 2]) = StoiHex(text[i + 1], text[i + 2])
    BY <1>4, <2>1, Zenon DEF Encoded, QueryEncoded
  <2>2. QED
    BY <2>1 DEF DecodedAt, QueryDecodedAt, DecodedBy, QueryDecodedBy
<1>6. g[1] = h[1]
  BY <1>1, <1>2, <1>3, <1>5, DecodeSteps, WalkUnique, Zenon
<1>7. QED
  BY <1>2, <1>3, <1>6

\* A byte and the bytes it is encoded as.
EncodedAs(c) == IF Unreserved(c) THEN <<c>> ELSE <<Percent, Hex(c \div 16), Hex(c % 16)>>

LEMMA HexIs ==
  ASSUME NEW c \in 0 .. 255
  PROVE  /\ Hex(c \div 16) \in 0 .. 255 /\ Hex(c % 16) \in 0 .. 255
         /\ StreamHex(Hex(c \div 16), Hex(c % 16)) = c
         /\ StoiHex(Hex(c \div 16), Hex(c % 16)) = c
<1>1. c \div 16 \in 0 .. 15 /\ c % 16 \in 0 .. 15 /\ c = 16 * (c \div 16) + (c % 16)
  OBVIOUS
<1>2. ASSUME NEW d \in 0 .. 15
      PROVE  Hex(d) \in 0 .. 255 /\ Digit(Hex(d)) = d /\ Hex(d) \notin (9 .. 13) \cup {Space, Plus} /\ Hex(d) # Hyphen
             /\ Hex(d) \notin {88, 120}
  BY DEF Hex, Digit, Space, Plus, Hyphen
<1> DEFINE a == c \div 16
           b == c % 16
<1>3. /\ Hex(a) \in 0 .. 255 /\ Digit(Hex(a)) = a /\ Hex(a) \notin (9 .. 13) \cup {Space, Plus} /\ Hex(a) # Hyphen
      /\ Hex(b) \in 0 .. 255 /\ Digit(Hex(b)) = b /\ Hex(b) \notin {88, 120} /\ a < 16 /\ b < 16
  BY <1>1, <1>2
<1> HIDE DEF a, b
<1>4. IsHex(Hex(a)) /\ IsHex(Hex(b))
  BY <1>3 DEF IsHex
<1>5. StreamHex(Hex(a), Hex(b)) = 16 * Digit(Hex(a)) + Digit(Hex(b))
  BY <1>3, <1>4, Zenon DEF StreamHex
<1>6. StreamHex(Hex(a), Hex(b)) = 16 * a + b
  BY <1>3, <1>5
<1>7. StreamHex(Hex(a), Hex(b)) = StoiHex(Hex(a), Hex(b))
  <2>1. ~HexPrefix(Hex(a), Hex(b))
    BY <1>3, Zenon DEF HexPrefix
  <2>2. QED
    BY <1>3, <2>1, HexAgrees, Zenon
<1>8. QED
  BY <1>1, <1>3, <1>6, <1>7 DEF a, b

LEMMA EncodedAsIs ==
  ASSUME NEW c \in 0 .. 255
  PROVE  /\ EncodedAs(c) \in Seq(0 .. 255)
         /\ \/ /\ EncodedAs(c) = <<c>> /\ Len(EncodedAs(c)) = 1 /\ EncodedAs(c)[1] = c /\ c # Percent /\ c # Plus
            \/ /\ Len(EncodedAs(c)) = 3 /\ EncodedAs(c)[1] = Percent
               /\ EncodedAs(c)[2] = Hex(c \div 16) /\ EncodedAs(c)[3] = Hex(c % 16)
<1>1. CASE Unreserved(c)
  <2>1. EncodedAs(c) = <<c>>
    BY <1>1, Zenon DEF EncodedAs
  <2>2. c # Percent /\ c # Plus
    BY <1>1 DEF Unreserved, Percent, Plus
  <2>3. QED
    BY <2>1, <2>2
<1>2. CASE ~Unreserved(c)
  <2> DEFINE a == Hex(c \div 16)
             b == Hex(c % 16)
  <2>1. EncodedAs(c) = <<Percent, a, b>>
    BY <1>2, Zenon DEF EncodedAs
  <2>2. a \in 0 .. 255 /\ b \in 0 .. 255
    BY HexIs, Zenon
  <2> HIDE DEF a, b
  <2>3. <<Percent, a, b>> \in Seq(0 .. 255)
    BY <2>2 DEF Percent
  <2>4. QED
    BY <2>1, <2>2, <2>3 DEF a, b
<1>3. QED
  BY <1>1, <1>2

\* A scan that reads an encoded byte as the byte, wherever it stands.
ReadsAt(enc, out, step, e, c) ==
  /\ enc[e] = c /\ c # Percent /\ c # Plus => out[e] = <<c>> /\ step[e] = 1
  /\ enc[e] = Percent /\ e + 2 <= Len(enc) /\ enc[e + 1] = Hex(c \div 16) /\ enc[e + 2] = Hex(c % 16) =>
       out[e] = <<c>> /\ step[e] = 3

Reads(enc, out, step) == \A e \in 1 .. Len(enc), c \in 0 .. 255 : ReadsAt(enc, out, step, e, c)

LEMMA FormReads == \A enc : Reads(enc, DecodedAt(enc), DecodedBy(enc))
<1> SUFFICES ASSUME NEW enc, NEW e \in 1 .. Len(enc), NEW c \in 0 .. 255
             PROVE  ReadsAt(enc, DecodedAt(enc), DecodedBy(enc), e, c)
  BY Zenon DEF Reads
<1>1. ASSUME enc[e] = c, c # Percent, c # Plus PROVE DecodedAt(enc)[e] = <<c>> /\ DecodedBy(enc)[e] = 1
  BY <1>1 DEF DecodedAt, DecodedBy, Encoded
<1>2. ASSUME enc[e] = Percent, e + 2 <= Len(enc), enc[e + 1] = Hex(c \div 16), enc[e + 2] = Hex(c % 16)
      PROVE  DecodedAt(enc)[e] = <<c>> /\ DecodedBy(enc)[e] = 3
  <2>1. StreamHex(enc[e + 1], enc[e + 2]) = c /\ c < 256
    <3>1. StreamHex(enc[e + 1], enc[e + 2]) = c
      BY <1>2, HexIs, Zenon
    <3>2. c < 256
      OBVIOUS
    <3>3. QED
      BY <3>1, <3>2, Zenon
  <2>2. Encoded(enc, e)
    <3>1. StreamHex(enc[e + 1], enc[e + 2]) < 256
      BY <2>1, Zenon
    <3>2. QED
      BY <1>2, <3>1, Zenon DEF Encoded
  <2>3. QED
    BY <2>1, <2>2, Zenon DEF DecodedAt, DecodedBy
<1>3. QED
  BY <1>1, <1>2, Zenon DEF ReadsAt

LEMMA QueryReads == \A enc : Reads(enc, QueryDecodedAt(enc), QueryDecodedBy(enc))
<1> SUFFICES ASSUME NEW enc, NEW e \in 1 .. Len(enc), NEW c \in 0 .. 255
             PROVE  ReadsAt(enc, QueryDecodedAt(enc), QueryDecodedBy(enc), e, c)
  BY Zenon DEF Reads
<1>1. ASSUME enc[e] = c, c # Percent, c # Plus PROVE QueryDecodedAt(enc)[e] = <<c>> /\ QueryDecodedBy(enc)[e] = 1
  BY <1>1 DEF QueryDecodedAt, QueryDecodedBy, QueryEncoded
<1>2. ASSUME enc[e] = Percent, e + 2 <= Len(enc), enc[e + 1] = Hex(c \div 16), enc[e + 2] = Hex(c % 16)
      PROVE  QueryDecodedAt(enc)[e] = <<c>> /\ QueryDecodedBy(enc)[e] = 3
  <2>1. StoiHex(enc[e + 1], enc[e + 2]) = c /\ c < 256
    <3>1. StoiHex(enc[e + 1], enc[e + 2]) = c
      BY <1>2, HexIs, Zenon
    <3>2. c < 256
      OBVIOUS
    <3>3. QED
      BY <3>1, <3>2, Zenon
  <2>2. QueryEncoded(enc, e)
    <3>1. StoiHex(enc[e + 1], enc[e + 2]) < 256
      BY <2>1, Zenon
    <3>2. QED
      BY <1>2, <3>1, Zenon DEF QueryEncoded
  <2>3. QED
    BY <2>1, <2>2, Zenon DEF QueryDecodedAt, QueryDecodedBy
<1>3. QED
  BY <1>1, <1>2, Zenon DEF ReadsAt

\* Where the bytes of a text are in the encoded one.
LEMMA EncodedFlat ==
  ASSUME NEW text \in Seq(0 .. 255)
  PROVE  /\ UrlEncode(text) \in Seq(0 .. 255)
         /\ \E off : FlatAt(0 .. 255, Len(text), [i \in 1 .. Len(text) |-> EncodedAs(text[i])], UrlEncode(text), off)
<1> DEFINE n == Len(text)
           seqs == [i \in 1 .. n |-> EncodedAs(text[i])]
<1>1. n \in Nat /\ DOMAIN text = 1 .. n /\ \A i \in 1 .. n : text[i] \in 0 .. 255
  BY ElementOfSeq, LenProperties, Zenon
<1>2. UrlEncode(text) = FlattenSeq(seqs)
  BY <1>1, Zenon DEF UrlEncode, EncodedAs
<1>3. \A i \in 1 .. n : seqs[i] = EncodedAs(text[i]) /\ EncodedAs(text[i]) \in Seq(0 .. 255)
  BY <1>1, EncodedAsIs, Zenon
<1>4. seqs \in [1 .. n -> Seq(0 .. 255)]
  BY <1>3, Zenon
<1> HIDE DEF seqs, n
<1>5. \E off : FlatAt(0 .. 255, n, seqs, UrlEncode(text), off)
  <2>1. n \in Nat
    BY <1>1, Zenon
  <2>2. \E off : FlatAt(0 .. 255, n, seqs, FlattenSeq(seqs), off)
    BY <2>1, <1>4, FlatParts, Zenon
  <2>3. QED
    BY <2>2, <1>2, Zenon
<1>6. UrlEncode(text) \in Seq(0 .. 255)
  BY <1>5, Zenon DEF FlatAt
<1>7. QED
  BY <1>5, <1>6, Zenon DEF seqs, n

\* A decoder that reads encoded bytes reads an encoded text: it stands at the
\* beginning of an encoded byte after each step.
LEMMA DecoderUndoesEncoder ==
  ASSUME NEW text \in Seq(0 .. 255), NEW out, NEW step, NEW g,
         Reads(UrlEncode(text), out, step), Walk(Len(UrlEncode(text)), out, step, g),
         Steps(Len(UrlEncode(text)), step)
  PROVE  g[1] = text
<1> DEFINE n == Len(text)
           seqs == [i \in 1 .. n |-> EncodedAs(text[i])]
           enc == UrlEncode(text)
<1>1. n \in Nat /\ DOMAIN text = 1 .. n /\ \A i \in 1 .. n : text[i] \in 0 .. 255
  BY ElementOfSeq, LenProperties, Zenon
<1>3. \A i \in 1 .. n : seqs[i] = EncodedAs(text[i]) /\ EncodedAs(text[i]) \in Seq(0 .. 255)
  BY <1>1, EncodedAsIs, Zenon
<1>5. PICK off : FlatAt(0 .. 255, n, seqs, enc, off)
  BY EncodedFlat, Zenon
<1> HIDE DEF seqs
<1>6. Len(enc) \in Nat /\ Len(enc) = off[n + 1] /\ off \in [1 .. n + 1 -> Nat]
  BY <1>5 DEF FlatAt
<1> HIDE DEF n, enc
<1>8. WalkIs(Len(enc), out, step, g)
  BY <1>6, WalkAt, Zenon DEF enc
<1>7. Reads(enc, out, step)
  BY Zenon DEF enc
<1>9. ASSUME NEW k \in 1 .. n
      PROVE  g[off[k] + 1] = <<text[k]>> \o g[off[k + 1] + 1]
  <2> DEFINE c == text[k]
             e == off[k] + 1
             q == EncodedAs(c)
  <2>1. c \in 0 .. 255 /\ seqs[k] = q
    BY <1>1, <1>3
  <2>2. /\ off[k] \in Nat /\ off[k + 1] = off[k] + Len(q) /\ off[k + 1] <= Len(enc)
        /\ \A i \in 1 .. Len(q) : enc[off[k] + i] = q[i]
    <3>1. /\ off[k + 1] = off[k] + Len(seqs[k]) /\ off[k + 1] <= off[n + 1]
          /\ \A i \in 1 .. Len(seqs[k]) : enc[off[k] + i] = seqs[k][i]
      BY <1>5, Zenon DEF FlatAt
    <3>2. off[k] \in Nat
      BY <1>1, <1>6
    <3>3. QED
      BY <1>6, <2>1, <3>1, <3>2, Zenon
  <2>3. \/ Len(q) = 1 /\ q[1] = c /\ c # Percent /\ c # Plus
        \/ Len(q) = 3 /\ q[1] = Percent /\ q[2] = Hex(c \div 16) /\ q[3] = Hex(c % 16)
    BY <2>1, EncodedAsIs, Zenon
  <2> HIDE DEF c, q
  <2>4. CASE Len(q) = 1 /\ q[1] = c /\ c # Percent /\ c # Plus
    <3>1. e \in 1 .. Len(enc) /\ enc[e] = c /\ off[k + 1] + 1 = e + 1
      BY <1>6, <2>2, <2>4
    <3> HIDE DEF e
    <3>3. out[e] = <<c>> /\ step[e] = 1
      BY <1>7, <2>1, <2>4, <3>1, Zenon DEF Reads, ReadsAt
    <3>4. g[e] = <<c>> \o g[e + 1]
      BY <1>8, <3>1, <3>3, NotEmpty, Zenon DEF WalkIs, Then
    <3>5. QED
      BY <3>1, <3>4, Zenon DEF c, e
  <2>5. CASE Len(q) = 3 /\ q[1] = Percent /\ q[2] = Hex(c \div 16) /\ q[3] = Hex(c % 16)
    <3>1. /\ e \in 1 .. Len(enc) /\ e + 2 <= Len(enc) /\ off[k + 1] + 1 = e + 3
          /\ e = off[k] + 1 /\ e + 1 = off[k] + 2 /\ e + 2 = off[k] + 3
      <4>1. off[k] \in Nat /\ off[k + 1] = off[k] + 3 /\ off[k + 1] <= Len(enc)
        BY <2>2, <2>5, Zenon
      <4>2. QED
        BY <1>6, <4>1
    <3>2. enc[e] = Percent /\ enc[e + 1] = q[2] /\ enc[e + 2] = q[3]
      BY <2>2, <2>5, <3>1, SMTT(30)
    <3> HIDE DEF e
    <3>5. out[e] = <<c>> /\ step[e] = 3
      BY <1>7, <2>1, <2>5, <3>1, <3>2, Zenon DEF Reads, ReadsAt
    <3>6. g[e] = <<c>> \o g[e + 3]
      BY <1>8, <3>1, <3>5, NotEmpty, Zenon DEF WalkIs, Then
    <3>7. QED
      BY <3>1, <3>6, Zenon DEF c, e
  <2>6. QED
    BY <2>3, <2>4, <2>5
<1> DEFINE P == {m \in Nat : m <= n => g[off[n + 1 - m] + 1] = SubSeq(text, n + 1 - m, n)}
<1>10. 0 \in P
  <2>1. g[off[n + 1] + 1] = <<>>
    BY <1>6, <1>8 DEF WalkIs
  <2>2. SubSeq(text, n + 1, n) = <<>>
    BY <1>1
  <2>3. n + 1 - 0 = n + 1
    BY <1>1
  <2>4. QED
    BY <2>1, <2>2, <2>3
<1>11. ASSUME NEW m \in Nat, m \in P PROVE m + 1 \in P
  <2> SUFFICES ASSUME m + 1 <= n
               PROVE  g[off[n + 1 - (m + 1)] + 1] = SubSeq(text, n + 1 - (m + 1), n)
    OBVIOUS
  <2> DEFINE k == n - m
  <2>1. k \in 1 .. n /\ n + 1 - (m + 1) = k /\ n + 1 - m = k + 1 /\ m <= n
    BY <1>1
  <2> HIDE DEF k
  <2>2. g[off[k + 1] + 1] = SubSeq(text, k + 1, n)
    BY <1>11, <2>1
  <2>3. g[off[k] + 1] = <<text[k]>> \o g[off[k + 1] + 1]
    BY <1>9, <2>1, Zenon
  <2>4. SubSeq(text, k, n) = <<text[k]>> \o SubSeq(text, k + 1, n)
    <3>1. n \in k .. n
      BY <1>1, <2>1
    <3>2. QED
      BY <2>1, <3>1, SubSeqRecursiveFirst, Zenon DEF n
  <2>5. QED
    BY <2>1, <2>2, <2>3, <2>4, Zenon
<1> HIDE DEF P
<1>12. n \in P
  BY <1>1, <1>10, <1>11, Induction, Zenon
<1>13. n + 1 - n = 1 /\ n <= n
  BY <1>1
<1>14. g[off[1] + 1] = SubSeq(text, 1, n)
  BY <1>12, <1>13 DEF P
<1>15. off[1] = 0 /\ 0 + 1 = 1
  BY <1>5 DEF FlatAt
<1>16. SubSeq(text, 1, n) = text
  BY <1>1 DEF n
<1>17. QED
  BY <1>14, <1>15, <1>16

\* What FormParser's encoder writes either decoder reads, and the two agree on
\* every text of bytes, well encoded or not, in which no escape is "0x".
THEOREM DecodingIsExact == \A text \in Seq(0 .. 255) : DecodingIsRight(text)
<1> SUFFICES ASSUME NEW text \in Seq(0 .. 255) PROVE DecodingIsRight(text)
  OBVIOUS
<1> DEFINE enc == UrlEncode(text)
<1>1. enc \in Seq(0 .. 255)
  BY EncodedFlat, Zenon
<1> HIDE DEF enc
<1>2. Len(enc) \in Nat
  BY <1>1
<1>3. UrlDecode(enc) = text
  <2>1. PICK g : Walk(Len(enc), DecodedAt(enc), DecodedBy(enc), g) /\ UrlDecode(enc) = g[1]
    BY <1>2, UrlDecodeWalks, Zenon
  <2>2. Reads(enc, DecodedAt(enc), DecodedBy(enc))
    BY FormReads, Zenon
  <2>3. g[1] = text
    BY <1>2, <2>1, <2>2, DecodeSteps, DecoderUndoesEncoder, Zenon DEF enc
  <2>4. QED
    BY <2>1, <2>3
<1>4. QueryDecode(enc) = text
  <2>1. PICK g : Walk(Len(enc), QueryDecodedAt(enc), QueryDecodedBy(enc), g) /\ QueryDecode(enc) = g[1]
    BY <1>1, QueryDecodeWalks, Zenon
  <2>2. Reads(enc, QueryDecodedAt(enc), QueryDecodedBy(enc))
    BY QueryReads, Zenon
  <2>3. g[1] = text
    BY <1>2, <2>1, <2>2, QueryDecodeSteps, DecoderUndoesEncoder, Zenon DEF enc
  <2>4. QED
    BY <2>1, <2>3
<1>5. QED
  BY <1>3, <1>4, DecodersAgree, Zenon DEF DecodingIsRight, enc

-----------------------------------------------------------------------------
(* UTF-8. *)

\* The character that begins at a place is whole.
CharAt(text, i) ==
  LET next == i + Lead(text[i])
  IN  next # i /\ next <= Len(text) + 1 /\ \A j \in i + 1 .. next - 1 : Follows(text[j])

\* From a place on, leading bytes have their followers and followers a leading byte.
Utf8From(text, i) ==
  /\ \A k \in i .. Len(text) : ~Follows(text[k]) =>
       Lead(text[k]) # 0 /\ \A j \in k + 1 .. k + Lead(text[k]) - 1 : j <= Len(text) /\ Follows(text[j])
  /\ \A j \in i .. Len(text) : Follows(text[j]) =>
       \E k \in i .. j - 1 : ~Follows(text[k]) /\ j < k + Lead(text[k])

\* The scan of IsValidUtf8 from every place.
Scan(text, b, g) ==
  g = [i \in b .. Len(text) + 1 |-> i <= Len(text) => CharAt(text, i) /\ g[i + Lead(text[i])]]

LEMMA LeadIs ==
  ASSUME NEW c \in 0 .. 255
  PROVE  Lead(c) \in 0 .. 4 /\ (Lead(c) # 0 => ~Follows(c))
BY DEF Lead, Follows

LEMMA ScanExists ==
  ASSUME NEW text \in Seq(0 .. 255)
  PROVE  \E g : Scan(text, 1, g)
<1> DEFINE n == Len(text)
           P == {m \in Nat : m <= n => \E g : Scan(text, n + 1 - m, g)}
<1>a. n \in Nat /\ \A i \in 1 .. n : text[i] \in 0 .. 255
  BY ElementOfSeq, LenProperties, Zenon
<1>0. \A m : m \in P <=> m \in Nat /\ (m <= n => \E g : Scan(text, n + 1 - m, g))
  BY Zenon
<1>1. 0 \in P
  <2> DEFINE g == [i \in n + 1 .. n + 1 |-> TRUE]
  <2>1. Scan(text, n + 1, g)
    <3> SUFFICES ASSUME NEW i \in n + 1 .. n + 1
                 PROVE  g[i] = (i <= n => CharAt(text, i) /\ g[i + Lead(text[i])])
      BY Zenon DEF Scan
    <3>1. ~(i <= n)
      BY <1>a
    <3>2. QED
      BY <3>1, Zenon
  <2>2. n + 1 - 0 = n + 1 /\ 0 \in Nat
    BY <1>a
  <2> HIDE DEF g
  <2>3. \E f : Scan(text, n + 1 - 0, f)
    BY <2>1, <2>2, Zenon
  <2>4. QED
    BY <1>0, <2>2, <2>3, Zenon
<1>2. ASSUME NEW m \in Nat, m \in P PROVE m + 1 \in P
  <2>0. m + 1 \in Nat
    OBVIOUS
  <2> SUFFICES ASSUME m + 1 <= n PROVE \E g : Scan(text, n + 1 - (m + 1), g)
    BY <1>0, <2>0, Zenon
  <2> DEFINE b == n + 1 - (m + 1)
  <2>1. b \in 1 .. n /\ n + 1 - m = b + 1 /\ m <= n
    BY <1>a
  <2> HIDE DEF b, n
  <2>2. PICK g : Scan(text, b + 1, g)
    BY <1>0, <1>2, <2>1, Zenon
  <2> DEFINE h == [i \in b .. n + 1 |-> IF i = b THEN CharAt(text, b) /\ g[b + Lead(text[b])] ELSE g[i]]
  <2>3. Scan(text, b, h)
    <3> SUFFICES h = [i \in b .. n + 1 |-> i <= n => CharAt(text, i) /\ h[i + Lead(text[i])]]
      <4> HIDE DEF h
      <4>1. QED
        BY Zenon DEF Scan, n
    <3> SUFFICES ASSUME NEW i \in b .. n + 1
                 PROVE  h[i] = (i <= n => CharAt(text, i) /\ h[i + Lead(text[i])])
      <4>1. h = [i \in b .. n + 1 |-> h[i]]
        OBVIOUS
      <4> HIDE DEF h
      <4> DEFINE f == [i \in b .. n + 1 |-> i <= n => CharAt(text, i) /\ h[i + Lead(text[i])]]
      <4> SUFFICES ASSUME NEW i \in b .. n + 1 PROVE h[i] = f[i]
        BY <4>1, Zenon
      <4>2. QED
        BY Zenon
    <3>1. i \in 1 .. n /\ CharAt(text, i) => i + Lead(text[i]) \in b + 1 .. n + 1 /\ i + Lead(text[i]) # b
      <4> SUFFICES ASSUME i \in 1 .. n, CharAt(text, i)
                   PROVE  i + Lead(text[i]) \in b + 1 .. n + 1 /\ i + Lead(text[i]) # b
        OBVIOUS
      <4>1. Lead(text[i]) \in 0 .. 4
        BY <1>a, LeadIs, Zenon
      <4>2. i + Lead(text[i]) # i /\ i + Lead(text[i]) <= n + 1
        BY Zenon DEF CharAt, n
      <4>3. QED
        BY <1>a, <2>1, <4>1, <4>2
    <3>2. i \in 1 .. n /\ CharAt(text, i) => h[i + Lead(text[i])] = g[i + Lead(text[i])]
      <4> SUFFICES ASSUME i \in 1 .. n, CharAt(text, i) PROVE h[i + Lead(text[i])] = g[i + Lead(text[i])]
        OBVIOUS
      <4> DEFINE d == i + Lead(text[i])
      <4>1. d \in b .. n + 1 /\ d # b
        BY <1>a, <2>1, <3>1
      <4> HIDE DEF d
      <4>2. h[d] = g[d]
        BY <4>1, Zenon
      <4>3. QED
        BY <4>2, Zenon DEF d
    <3>3. CASE i = b
      <4>1. i \in 1 .. n /\ i <= n
        BY <1>a, <2>1, <3>3
      <4>2. h[i] = (CharAt(text, i) /\ g[i + Lead(text[i])])
        BY <3>3, Zenon
      <4> HIDE DEF h
      <4>3. QED
        BY <3>2, <4>1, <4>2, Zenon
    <3>4. CASE i # b
      <4>1. i \in b + 1 .. n + 1 /\ (i <= n => i \in 1 .. n)
        BY <1>a, <2>1, <3>4
      <4>2. h[i] = g[i]
        BY <3>4, Zenon
      <4>3. g[i] = (i <= n => CharAt(text, i) /\ g[i + Lead(text[i])])
        BY <2>2, <4>1, Zenon DEF Scan, n
      <4> HIDE DEF h
      <4>4. QED
        BY <3>2, <4>1, <4>2, <4>3, Zenon
    <3>5. QED
      BY <3>3, <3>4
  <2> HIDE DEF h
  <2>4. QED
    BY <2>3, Zenon DEF b
<1> HIDE DEF P
<1>3. n \in P
  BY <1>a, <1>1, <1>2, Induction, Zenon
<1>4. n <= n /\ n + 1 - n = 1
  BY <1>a
<1>5. \E g : Scan(text, n + 1 - n, g)
  BY <1>0, <1>3, <1>4, Zenon
<1>6. QED
  BY <1>4, <1>5, Zenon

\* One step of the scan does what the definition says.
LEMMA CharStep ==
  ASSUME NEW text \in Seq(0 .. 255), NEW i \in 1 .. Len(text)
  PROVE  Utf8From(text, i) <=> CharAt(text, i) /\ Utf8From(text, i + Lead(text[i]))
<1> DEFINE n == Len(text)
           next == i + Lead(text[i])
<1>a. n \in Nat /\ \A k \in 1 .. n : text[k] \in 0 .. 255
  BY ElementOfSeq, LenProperties, Zenon
<1>b. \A k \in 1 .. n : Lead(text[k]) \in 0 .. 4 /\ (Lead(text[k]) # 0 => ~Follows(text[k]))
  BY <1>a, LeadIs, Zenon
<1>1. ASSUME CharAt(text, i), Utf8From(text, next) PROVE Utf8From(text, i)
  <2>1. /\ Lead(text[i]) \in 1 .. 4 /\ ~Follows(text[i]) /\ next \in i + 1 .. n + 1
        /\ \A j \in i + 1 .. next - 1 : Follows(text[j])
    <3>1. next # i /\ next <= n + 1 /\ \A j \in i + 1 .. next - 1 : Follows(text[j])
      BY <1>1, Zenon DEF CharAt
    <3>2. QED
      BY <1>a, <1>b, <3>1
  <2>2. ASSUME NEW k \in i .. n, ~Follows(text[k])
        PROVE  Lead(text[k]) # 0 /\ \A j \in k + 1 .. k + Lead(text[k]) - 1 : j <= n /\ Follows(text[j])
    <3>1. CASE k = i
      BY <1>a, <2>1, <3>1
    <3>2. CASE k \in i + 1 .. next - 1
      BY <2>1, <2>2, <3>2
    <3>3. CASE k \in next .. n
      BY <1>1, <2>2, <3>3 DEF Utf8From
    <3>4. QED
      BY <1>a, <2>1, <3>1, <3>2, <3>3
  <2>3. ASSUME NEW j \in i .. n, Follows(text[j])
        PROVE  \E k \in i .. j - 1 : ~Follows(text[k]) /\ j < k + Lead(text[k])
    <3>1. j # i
      BY <2>1, <2>3
    <3>2. CASE j \in i + 1 .. next - 1
      <4>1. i \in i .. j - 1 /\ j < i + Lead(text[i])
        BY <1>a, <2>1, <3>2
      <4>2. QED
        BY <2>1, <4>1
    <3>3. CASE j \in next .. n
      <4>1. PICK k \in next .. j - 1 : ~Follows(text[k]) /\ j < k + Lead(text[k])
        BY <1>1, <2>3, <3>3 DEF Utf8From
      <4>2. k \in i .. j - 1
        BY <1>a, <2>1
      <4>3. QED
        BY <4>1, <4>2
    <3>4. QED
      BY <1>a, <2>1, <3>1, <3>2, <3>3
  <2>4. QED
    BY <2>2, <2>3, Zenon DEF Utf8From
<1>2. ASSUME Utf8From(text, i) PROVE CharAt(text, i) /\ Utf8From(text, next)
  <2>1. i \in i .. n /\ i .. i - 1 = {}
    BY <1>a
  <2>2. ~Follows(text[i])
    BY <1>2, <2>1, Zenon DEF Utf8From
  <2>3. Lead(text[i]) # 0 /\ \A j \in i + 1 .. i + Lead(text[i]) - 1 : j <= n /\ Follows(text[j])
    BY <1>2, <2>1, <2>2, Zenon DEF Utf8From
  <2>4. Lead(text[i]) \in 1 .. 4
    BY <1>b, <2>3
  <2>5. next <= n + 1
    <3>1. CASE Lead(text[i]) = 1
      BY <1>a, <3>1
    <3>2. CASE Lead(text[i]) # 1
      <4>1. next - 1 \in i + 1 .. i + Lead(text[i]) - 1
        BY <1>a, <2>4, <3>2
      <4>2. next - 1 <= n
        BY <2>3, <4>1
      <4>3. QED
        BY <1>a, <2>4, <4>2
    <3>3. QED
      BY <3>1, <3>2
  <2>6. next \in i + 1 .. n + 1
    BY <1>a, <2>4, <2>5
  <2>7. CharAt(text, i)
    <3>1. next # i
      BY <2>6
    <3>2. \A j \in i + 1 .. next - 1 : Follows(text[j])
      BY <1>a, <2>3, <2>4
    <3>3. QED
      BY <2>5, <3>1, <3>2, Zenon DEF CharAt
  <2>8. ASSUME NEW k \in next .. n, ~Follows(text[k])
        PROVE  Lead(text[k]) # 0 /\ \A j \in k + 1 .. k + Lead(text[k]) - 1 : j <= n /\ Follows(text[j])
    <3>1. k \in i .. n
      BY <1>a, <2>6
    <3>2. QED
      BY <1>2, <2>8, <3>1, Zenon DEF Utf8From
  <2>9. ASSUME NEW j \in next .. n, Follows(text[j])
        PROVE  \E k \in next .. j - 1 : ~Follows(text[k]) /\ j < k + Lead(text[k])
    <3>1. j \in i .. n
      BY <1>a, <2>6
    <3>2. PICK k \in i .. j - 1 : ~Follows(text[k]) /\ j < k + Lead(text[k])
      BY <1>2, <2>9, <3>1, Zenon DEF Utf8From
    <3>3. k # i
      BY <1>a, <2>4, <3>1, <3>2
    <3>4. k \notin i + 1 .. next - 1
      <4>1. i + (Lead(text[i]) - 1) = next - 1
        BY <1>a, <2>4
      <4>2. QED
        BY <2>3, <3>2, <4>1
    <3>5. k \in next .. j - 1
      BY <1>a, <2>6, <3>1, <3>3, <3>4
    <3>6. QED
      BY <3>2, <3>5
  <2>10. QED
    BY <2>7, <2>8, <2>9, Zenon DEF Utf8From
<1>3. QED
  BY <1>1, <1>2

\* PlainTextParser accepts exactly the texts whose leading bytes have their
\* followers and whose followers have a leading byte.
THEOREM Utf8IsExact == \A text \in Seq(0 .. 255) : Utf8IsRight(text)
<1> SUFFICES ASSUME NEW text \in Seq(0 .. 255) PROVE Utf8IsRight(text)
  OBVIOUS
<1> DEFINE n == Len(text)
           body(g) == [i \in 1 .. n + 1 |->
             i <= n =>
               LET next == i + Lead(text[i])
               IN  next # i /\ next <= n + 1 /\ (\A j \in i + 1 .. next - 1 : Follows(text[j])) /\ g[next]]
<1>a. n \in Nat /\ \A k \in 1 .. n : text[k] \in 0 .. 255
  BY ElementOfSeq, LenProperties, Zenon
<1>1. IsValidUtf8(text) = (CHOOSE g : g = body(g))[1]
  BY Zenon DEF IsValidUtf8
<1>2. ASSUME NEW g PROVE g = body(g) <=> Scan(text, 1, g)
  <2> DEFINE scan == [i \in 1 .. n + 1 |-> i <= n => CharAt(text, i) /\ g[i + Lead(text[i])]]
  <2>1. body(g) = scan
    <3> SUFFICES ASSUME NEW i \in 1 .. n + 1 PROVE body(g)[i] = scan[i]
      BY Zenon
    <3>1. QED
      BY Zenon DEF CharAt
  <2>2. Scan(text, 1, g) <=> g = scan
    BY Zenon DEF Scan
  <2> HIDE DEF scan, body
  <2>3. QED
    BY <2>1, <2>2, Zenon
<1>3. PICK f : Scan(text, 1, f)
  BY ScanExists, Zenon
<1> HIDE DEF body
<1> DEFINE g == CHOOSE h : h = body(h)
<1>4. g = body(g)
  BY <1>2, <1>3, Zenon
<1>5. IsValidUtf8(text) = g[1]
  BY <1>1, Zenon
<1> HIDE DEF g
<1>6. Scan(text, 1, g)
  BY <1>2, <1>4, Zenon
<1>7. ASSUME NEW i \in 1 .. n + 1
      PROVE  g[i] = (i <= n => CharAt(text, i) /\ g[i + Lead(text[i])])
  BY <1>6, Zenon DEF Scan
<1> DEFINE P == {m \in Nat : \A i \in 1 .. n + 1 : i >= n + 1 - m => (g[i] = Utf8From(text, i))}
<1>8. 0 \in P
  <2>1. g[n + 1] = TRUE
    <3>1. n + 1 \in 1 .. n + 1 /\ ~(n + 1 <= n)
      BY <1>a
    <3>2. QED
      BY <1>7, <3>1, Zenon
  <2>2. n + 1 .. n = {}
    BY <1>a
  <2>3. Utf8From(text, n + 1) = TRUE
    BY <2>2, Zenon DEF Utf8From
  <2>4. ASSUME NEW i \in 1 .. n + 1, i >= n + 1 - 0 PROVE i = n + 1
    BY <1>a, <2>4
  <2>5. 0 \in Nat
    OBVIOUS
  <2>6. QED
    BY <2>1, <2>3, <2>4, <2>5, Zenon
<1>9. ASSUME NEW m \in Nat, m \in P PROVE m + 1 \in P
  <2>0. m + 1 \in Nat
    OBVIOUS
  <2> SUFFICES ASSUME NEW i \in 1 .. n + 1, i >= n + 1 - (m + 1) PROVE g[i] = Utf8From(text, i)
    BY <2>0, Zenon
  <2>1. CASE i >= n + 1 - m
    BY <1>9, <2>1, Zenon
  <2>2. CASE ~(i >= n + 1 - m)
    <3>1. i \in 1 .. n /\ i <= n /\ i = n - m
      BY <1>a, <2>2
    <3>2. g[i] = (CharAt(text, i) /\ g[i + Lead(text[i])])
      BY <1>7, <3>1, Zenon
    <3>3. Utf8From(text, i) = (CharAt(text, i) /\ Utf8From(text, i + Lead(text[i])))
      <4>1. Utf8From(text, i) <=> CharAt(text, i) /\ Utf8From(text, i + Lead(text[i]))
        BY <3>1, CharStep, Zenon
      <4>2. QED
        BY <4>1, Zenon DEF Utf8From
    <3>4. ASSUME CharAt(text, i) PROVE g[i + Lead(text[i])] = Utf8From(text, i + Lead(text[i]))
      <4> DEFINE next == i + Lead(text[i])
      <4>1. next # i /\ next <= n + 1
        BY <3>4, Zenon DEF CharAt
      <4>2. Lead(text[i]) \in 0 .. 4
        BY <1>a, <3>1, LeadIs, Zenon
      <4>3. next \in 1 .. n + 1 /\ next >= n + 1 - m
        BY <1>a, <3>1, <4>1, <4>2, SMTT(30)
      <4> HIDE DEF next
      <4>4. g[next] = Utf8From(text, next)
        BY <1>9, <4>3, Zenon
      <4>5. QED
        BY <4>4, Zenon DEF next
    <3>5. QED
      BY <3>2, <3>3, <3>4, Zenon
  <2>3. QED
    BY <2>1, <2>2
<1> HIDE DEF P
<1>10. n \in P
  BY <1>a, <1>8, <1>9, Induction, Zenon
<1>11. 1 \in 1 .. n + 1 /\ 1 >= n + 1 - n
  BY <1>a
<1>12. g[1] = Utf8From(text, 1)
  BY <1>10, <1>11, Zenon DEF P
<1>13. DOMAIN text = 1 .. n
  BY LenProperties, Zenon
<1>14. QED
  BY <1>5, <1>12, <1>13, Zenon DEF Utf8IsRight, Utf8From

-----------------------------------------------------------------------------
(* Searches. *)

\* v is the piece from a to b of a text.
IsSlice(S, v, text, a, b) ==
  /\ v \in Seq(S) /\ Len(v) = b + 1 - a /\ DOMAIN v = 1 .. b + 1 - a
  /\ \A i \in 1 .. b + 1 - a : v[i] = text[a + i - 1]

LEMMA Slice ==
  ASSUME NEW S, NEW text \in Seq(S), NEW a \in Nat, NEW b \in Nat, a >= 1, a <= b + 1, b <= Len(text)
  PROVE  IsSlice(S, SubSeq(text, a, b), text, a, b)
<1>1. a \in Int /\ b \in Int /\ Len(text) \in Nat
  OBVIOUS
<1> DEFINE v == SubSeq(text, a, b)
<1>2. v \in Seq(S)
  OBVIOUS
<1>3. Len(v) = b + 1 - a
  OBVIOUS
<1>4. \A i \in 1 .. b + 1 - a : v[i] = text[a + i - 1]
  OBVIOUS
<1> HIDE DEF v
<1>5. DOMAIN v = 1 .. b + 1 - a
  BY <1>2, <1>3
<1>6. QED
  BY <1>2, <1>3, <1>4, <1>5, Zenon DEF v, IsSlice

\* Of the places of a byte the first, or behind the text if there is none.
FirstByte(text, byte, f) ==
  /\ Len(text) \in Nat /\ f \in 1 .. Len(text) + 1
  /\ \A i \in 1 .. f - 1 : text[i] # byte
  /\ f <= Len(text) => text[f] = byte
  /\ byte \in Range(text) <=> f <= Len(text)

LEMMA FirstIs ==
  ASSUME NEW S, NEW text \in Seq(S), NEW byte
  PROVE  FirstByte(text, byte, First(text, byte))
<1> DEFINE n == Len(text)
           at == {i \in DOMAIN text : text[i] = byte}
           f == First(text, byte)
<1>1. n \in Nat /\ DOMAIN text = 1 .. n
  BY LenProperties, Zenon
<1>2. byte \in Range(text) <=> at # {}
  BY Zenon DEF Range
<1>3. CASE at = {}
  <2>1. f = n + 1
    BY <1>3, Zenon DEF First
  <2>2. \A i \in 1 .. n : text[i] # byte
    BY <1>1, <1>3, Zenon
  <2> HIDE DEF f, at
  <2>3. f \in 1 .. n + 1 /\ ~(f <= n) /\ \A i \in 1 .. f - 1 : text[i] # byte
    BY <1>1, <2>1, <2>2
  <2>4. QED
    BY <1>1, <1>2, <1>3, <2>3, Zenon DEF f, FirstByte
<1>4. CASE at # {}
  <2>1. f = CHOOSE i \in at : \A j \in at : i <= j
    BY <1>4, Zenon DEF First
  <2>2. at \subseteq 1 .. n /\ at \subseteq Nat
    BY <1>1
  <2> HIDE DEF f
  <2>3. f \in at /\ \A j \in at : f <= j
    <3> HIDE DEF at
    <3>1. \E i \in at : \A j \in at : i <= j
      BY <1>4, <2>2, HasFirst, Zenon
    <3>2. QED
      BY <2>1, <3>1, Zenon
  <2>4. f \in 1 .. n /\ text[f] = byte /\ f <= n
    BY <1>1, <2>2, <2>3
  <2>5. ASSUME NEW i \in 1 .. f - 1, text[i] = byte PROVE FALSE
    <3>1. i \in at /\ ~(f <= i)
      BY <1>1, <2>4, <2>5
    <3>2. QED
      BY <2>3, <3>1, Zenon
  <2>6. QED
    <3>1. f \in 1 .. n + 1
      BY <1>1, <2>4
    <3>2. QED
      BY <1>1, <1>2, <1>4, <2>4, <2>5, <3>1, Zenon DEF f, FirstByte
<1>5. QED
  BY <1>3, <1>4

\* The path and the query of a request's target are the target without its first
\* "?", and the path has none: RequestContext loses no byte of it.
THEOREM TargetIsWhole == \A text \in Seq(0 .. 255) : TargetIsRight(text)
<1> SUFFICES ASSUME NEW text \in Seq(0 .. 255) PROVE TargetIsRight(text)
  OBVIOUS
<1> DEFINE n == Len(text)
           f == First(text, Question)
<1>1. /\ n \in Nat /\ f \in 1 .. n + 1 /\ \A i \in 1 .. f - 1 : text[i] # Question
      /\ f <= n => text[f] = Question
      /\ Question \in Range(text) <=> f <= n
  <2>1. FirstByte(text, Question, f)
    BY FirstIs, Zenon
  <2>2. QED
    BY <2>1, Zenon DEF FirstByte
<1>2. PathOf(text) = SubSeq(text, 1, f - 1) /\ Query(text) = SubSeq(text, f + 1, n)
  BY Zenon DEF PathOf, Query, Suffix
<1>3. SubSeq(text, 1, n) = text
  BY SubSeqFull, Zenon
<1> HIDE DEF f
<1>4. text = PathOf(text) \o (IF Question \in Range(text) THEN <<Question>> ELSE <<>>) \o Query(text)
  <2>1. CASE f <= n
    <3>1. 1 \in 1 .. n /\ f \in 1 .. n
      BY <1>1, <2>1
    <3>2. SubSeq(text, 1, f) = SubSeq(text, 1, f - 1) \o <<text[f]>>
      BY <3>1, SubSeqRecursiveSecond, Zenon
    <3>3. 1 \in 1 .. n + 1 /\ f \in 1 - 1 .. n /\ n \in f .. n
      BY <1>1, <2>1
    <3>4. SubSeq(text, 1, f) \o SubSeq(text, f + 1, n) = SubSeq(text, 1, n)
      BY <3>3, ConcatAdjacentSubSeq, Zenon
    <3>5. QED
      BY <1>1, <1>2, <1>3, <2>1, <3>2, <3>4, Zenon
  <2>2. CASE ~(f <= n)
    <3>1. f - 1 = n /\ n < f + 1 /\ f + 1 \in Int /\ n \in Int
      BY <1>1, <2>2
    <3>2. PathOf(text) = text /\ Query(text) = <<>>
      BY <1>2, <1>3, <3>1, SubSeqEmpty, Zenon
    <3>3. text \o <<>> = text
      BY ConcatEmptySeq, Zenon
    <3>4. QED
      BY <1>1, <2>2, <3>2, <3>3, Zenon
  <2>3. QED
    BY <2>1, <2>2
<1>5. Question \notin Range(PathOf(text))
  <2> DEFINE p == SubSeq(text, 1, f - 1)
  <2>1. DOMAIN p = 1 .. f - 1 /\ \A i \in 1 .. f - 1 : p[i] = text[i]
    <3>1. 1 \in Nat /\ f - 1 \in Nat /\ 1 >= 1 /\ 1 <= (f - 1) + 1 /\ f - 1 <= n
      BY <1>1
    <3>2. IsSlice(0 .. 255, p, text, 1, f - 1)
      BY <3>1, Slice, Zenon
    <3> HIDE DEF p
    <3>3. QED
      BY <1>1, <3>2 DEF IsSlice
  <2> HIDE DEF p
  <2>2. \A i \in DOMAIN p : p[i] # Question
    BY <1>1, <2>1
  <2>3. QED
    BY <1>2, <2>2, Zenon DEF Range, p
<1>6. QED
  BY <1>4, <1>5, Zenon DEF TargetIsRight

-----------------------------------------------------------------------------
(* The boundary of a multipart body. *)

Ends(text) == {i \in DOMAIN text : text[i] \in {Semicolon, Space, Tab, CR, LF}} \cup {Len(text) + 1}

\* What is before the first end.
LEMMA BoundaryUpTo ==
  ASSUME NEW text, NEW e \in Ends(text), \A j \in Ends(text) : e <= j, Ends(text) \subseteq Nat
  PROVE  ExtractBoundary(text) =
           LET value == SubSeq(text, 1, e - 1)
           IN  IF Len(value) >= 2 /\ Head(value) = Quote /\ Last(value) = Quote
               THEN SubSeq(value, 2, Len(value) - 1) ELSE value
<1> DEFINE m == CHOOSE i \in Ends(text) : \A j \in Ends(text) : i <= j
<1>1. m \in Ends(text) /\ \A j \in Ends(text) : m <= j
  BY Zenon
<1> HIDE DEF m
<1>2. m <= e /\ e <= m /\ m \in Nat /\ e \in Nat
  BY <1>1, Zenon
<1>3. m = e
  BY <1>2
<1>4. QED
  BY <1>3, Zenon DEF ExtractBoundary, Ends, m

\* A boundary is read from the Content-Type as it was written, with and without
\* the quotes around it.
THEOREM BoundaryIsExact == \A text \in Seq(0 .. 255) : BoundaryIsRight(text)
<1> SUFFICES ASSUME NEW text \in Seq(0 .. 255),
                    Range(text) \cap {Quote, Semicolon, Space, Tab, CR, LF} = {}
             PROVE  /\ ExtractBoundary(text \o <<Semicolon>>) = text
                    /\ ExtractBoundary(<<Quote>> \o text \o <<Quote>>) = text
  BY Zenon DEF BoundaryIsRight
<1> DEFINE n == Len(text)
<1>1. n \in Nat /\ DOMAIN text = 1 .. n
  BY LenProperties, Zenon
<1>2. \A i \in 1 .. n : text[i] \notin {Quote, Semicolon, Space, Tab, CR, LF}
  BY <1>1, Zenon DEF Range
<1>a. <<Semicolon>> \in Seq(0 .. 255) /\ Len(<<Semicolon>>) = 1 /\ <<Semicolon>>[1] = Semicolon
  BY DEF Semicolon
<1>b. <<Quote>> \in Seq(0 .. 255) /\ Len(<<Quote>>) = 1 /\ <<Quote>>[1] = Quote
  BY DEF Quote
<1>3. ExtractBoundary(text \o <<Semicolon>>) = text
  <2> DEFINE t == text \o <<Semicolon>>
  <2>1. /\ t \in Seq(0 .. 255) /\ Len(t) = n + Len(<<Semicolon>>)
        /\ \A i \in 1 .. n : t[i] = text[i]
        /\ \A i \in 1 .. Len(<<Semicolon>>) : t[n + i] = <<Semicolon>>[i]
    BY <1>a, CatIs
  <2> HIDE DEF t
  <2>2. Len(t) = n + 1 /\ DOMAIN t = 1 .. n + 1 /\ t[n + 1] = Semicolon
    BY <1>1, <1>a, <2>1
  <2>3. n + 1 \in Ends(t) /\ Ends(t) \subseteq Nat
    BY <1>1, <2>2 DEF Ends
  <2>4. ASSUME NEW j \in Ends(t) PROVE n + 1 <= j
    <3>1. CASE j = Len(t) + 1
      BY <1>1, <2>2, <3>1
    <3>2. CASE j \in 1 .. n + 1 /\ t[j] \in {Semicolon, Space, Tab, CR, LF}
      <4>1. j \notin 1 .. n
        BY <1>2, <2>1, <3>2
      <4>2. QED
        BY <1>1, <3>2, <4>1
    <3>3. QED
      BY <2>2, <3>1, <3>2 DEF Ends
  <2>5. SubSeq(t, 1, (n + 1) - 1) = text
    <3> DEFINE v == SubSeq(t, 1, (n + 1) - 1)
    <3>1. v \in Seq(0 .. 255) /\ Len(v) = n /\ \A i \in 1 .. n : v[i] = t[i]
      BY <1>1, <2>1, <2>2
    <3> HIDE DEF v
    <3>2. \A i \in 1 .. Len(v) : v[i] = text[i]
      BY <2>1, <3>1
    <3>3. v = text
      BY <3>1, <3>2, SeqEqual, Zenon
    <3>4. QED
      BY <3>3 DEF v
  <2>6. ~(Len(text) >= 2 /\ Head(text) = Quote /\ Last(text) = Quote)
    <3> SUFFICES ASSUME n >= 2 PROVE Last(text) # Quote
      OBVIOUS
    <3>1. n \in 1 .. n
      BY <1>1
    <3>2. QED
      BY <1>2, <3>1 DEF Last
  <2>7. QED
    BY <2>3, <2>4, <2>5, <2>6, BoundaryUpTo, Zenon DEF t
<1>4. ExtractBoundary(<<Quote>> \o text \o <<Quote>>) = text
  <2> DEFINE s == <<Quote>> \o text
             t == s \o <<Quote>>
  <2>1. /\ s \in Seq(0 .. 255) /\ Len(s) = Len(<<Quote>>) + n
        /\ \A i \in 1 .. Len(<<Quote>>) : s[i] = <<Quote>>[i]
        /\ \A i \in 1 .. n : s[Len(<<Quote>>) + i] = text[i]
    BY <1>b, CatIs
  <2> HIDE DEF s
  <2>2. Len(s) = n + 1 /\ s[1] = Quote /\ \A i \in 1 .. n : s[i + 1] = text[i]
    BY <1>1, <1>b, <2>1
  <2>3. /\ t \in Seq(0 .. 255) /\ Len(t) = Len(s) + Len(<<Quote>>)
        /\ \A i \in 1 .. Len(s) : t[i] = s[i]
        /\ \A i \in 1 .. Len(<<Quote>>) : t[Len(s) + i] = <<Quote>>[i]
    BY <1>b, <2>1, CatIs
  <2> HIDE DEF t
  <2>4. /\ Len(t) = n + 2 /\ DOMAIN t = 1 .. n + 2 /\ t[1] = Quote /\ t[n + 2] = Quote
        /\ \A i \in 1 .. n : t[i + 1] = text[i]
    <3>1. Len(t) = n + 2 /\ DOMAIN t = 1 .. n + 2
      BY <1>1, <1>b, <2>2, <2>3
    <3>2. t[1] = Quote /\ t[n + 2] = Quote
      BY <1>1, <1>b, <2>2, <2>3
    <3>3. \A i \in 1 .. n : t[i + 1] = text[i]
      BY <1>1, <2>2, <2>3
    <3>4. QED
      BY <3>1, <3>2, <3>3
  <2>5. n + 3 \in Ends(t) /\ Ends(t) \subseteq Nat
    BY <1>1, <2>4 DEF Ends
  <2>6. ASSUME NEW j \in Ends(t) PROVE n + 3 <= j
    <3>1. CASE j = Len(t) + 1
      BY <1>1, <2>4, <3>1
    <3>2. CASE j \in 1 .. n + 2 /\ t[j] \in {Semicolon, Space, Tab, CR, LF}
      <4>1. j # 1 /\ j # n + 2
        BY <2>4, <3>2 DEF Quote, Semicolon, Space, Tab, CR, LF
      <4>2. j - 1 \in 1 .. n /\ (j - 1) + 1 = j
        BY <1>1, <3>2, <4>1
      <4>3. t[j] = text[j - 1]
        BY <2>4, <4>2
      <4>4. QED
        BY <1>2, <3>2, <4>2, <4>3
    <3>3. QED
      BY <2>4, <3>1, <3>2 DEF Ends
  <2>7. SubSeq(t, 1, (n + 3) - 1) = t
    <3>1. (n + 3) - 1 = Len(t)
      BY <1>1, <2>4
    <3>2. QED
      BY <2>3, <3>1, SubSeqFull, Zenon
  <2>8. Len(t) >= 2 /\ Head(t) = Quote /\ Last(t) = Quote
    BY <1>1, <2>3, <2>4 DEF Last
  <2>9. SubSeq(t, 2, Len(t) - 1) = text
    <3> DEFINE v == SubSeq(t, 2, Len(t) - 1)
    <3>1. v \in Seq(0 .. 255) /\ Len(v) = n /\ \A i \in 1 .. n : v[i] = t[i + 1]
      <4> DEFINE b == Len(t) - 1
      <4>1. 2 \in Nat /\ b \in Nat /\ 2 >= 1 /\ 2 <= b + 1 /\ b <= Len(t) /\ b + 1 - 2 = n
        BY <1>1, <2>4
      <4> HIDE DEF b
      <4>2. IsSlice(0 .. 255, SubSeq(t, 2, b), t, 2, b)
        BY <2>3, <4>1, Slice, Zenon
      <4>3. IsSlice(0 .. 255, v, t, 2, b)
        BY <4>2 DEF b
      <4> HIDE DEF v
      <4>4. QED
        BY <1>1, <4>1, <4>3 DEF IsSlice
    <3> HIDE DEF v
    <3>2. \A i \in 1 .. Len(v) : v[i] = text[i]
      BY <2>4, <3>1
    <3>3. v = text
      BY <3>1, <3>2, SeqEqual, Zenon
    <3>4. QED
      BY <3>3 DEF v
  <2>10. QED
    BY <2>5, <2>6, <2>7, <2>8, <2>9, BoundaryUpTo, ZenonT(60) DEF t, s
<1>5. QED
  BY <1>3, <1>4

-----------------------------------------------------------------------------
(* The client's URLs. *)

Authority(text) == SubSeq(text, 1, First(text, Slash) - 1)
Colons(a) == {i \in DOMAIN a : a[i] = Colon}
LastColon(a) == CHOOSE i \in Colons(a) : \A j \in Colons(a) : i >= j
HostOf(a) == IF Colons(a) = {} THEN a ELSE SubSeq(a, 1, LastColon(a) - 1)
PortOf(a, https) == IF Colons(a) = {} THEN DefaultPort(https) ELSE Suffix(a, LastColon(a) + 1)
HostField(a, https) ==
  IF ~https /\ PortOf(a, https) = DefaultPort(FALSE) THEN HostOf(a) ELSE a

LEMMA UrlIs ==
  ASSUME NEW text, NEW https
  PROVE  LET a == Authority(text) url == ParseAbsoluteUrl(text, https)
         IN  /\ url.host = HostOf(a) /\ url.port = PortOf(a, https) /\ url.ok = (HostOf(a) # <<>>)
             /\ url.hostField = HostField(a, https)
             /\ url.target = IF Slash \in Range(text) THEN Suffix(text, First(text, Slash)) ELSE <<Slash>>
<1> DEFINE a == Authority(text)
           target == IF Slash \in Range(text) THEN Suffix(text, First(text, Slash)) ELSE <<Slash>>
<1>1. ParseAbsoluteUrl(text, https) =
        [ok |-> HostOf(a) # <<>>, host |-> HostOf(a), port |-> PortOf(a, https), target |-> target,
         hostField |-> HostField(a, https)]
  BY Zenon DEF ParseAbsoluteUrl, Authority, Colons, LastColon, HostOf, PortOf, HostField
<1> HIDE DEF a, target
<1>2. QED
  BY <1>1 DEF a, target

\* An authority without a slash is read whole.
LEMMA NoSlash ==
  ASSUME NEW S, NEW a \in Seq(S), \A i \in 1 .. Len(a) : a[i] # Slash
  PROVE  Authority(a) = a
<1> DEFINE f == First(a, Slash)
<1>1. FirstByte(a, Slash, f)
  BY FirstIs, Zenon
<1> HIDE DEF f
<1>2. f - 1 = Len(a)
  <2>1. ~(f <= Len(a))
    BY <1>1 DEF FirstByte
  <2>2. QED
    BY <1>1, <2>1 DEF FirstByte
<1>3. QED
  BY <1>2, SubSeqFull, Zenon DEF Authority, f

LEMMA AtMostOne ==
  ASSUME NEW n \in Nat, NEW C, C \subseteq 1 .. n, Cardinality(C) < 2, NEW x \in C, NEW y \in C
  PROVE  x = y
<1>1. SUFFICES ASSUME x # y PROVE FALSE
  OBVIOUS
<1>2. 1 \in Int /\ n \in Int
  OBVIOUS
<1>3. IsFiniteSet(C)
  BY <1>2, FS_Interval, FS_Subset
<1>4. IsFiniteSet({x}) /\ Cardinality({x}) = 1
  BY FS_Singleton, Zenon
<1>5. IsFiniteSet({x} \cup {y}) /\ Cardinality({x} \cup {y}) = Cardinality({x}) + 1
  <2>1. y \notin {x}
    BY <1>1
  <2>2. QED
    BY <1>4, <2>1, FS_AddElement, Zenon
<1>6. Cardinality({x} \cup {y}) <= Cardinality(C)
  <2>1. {x} \cup {y} \in SUBSET C
    OBVIOUS
  <2>2. QED
    BY <1>3, <2>1, FS_Subset, Zenon
<1>7. Cardinality(C) \in Nat
  BY <1>3, FS_CardinalityType
<1>8. QED
  BY <1>4, <1>5, <1>6, <1>7

\* The host before the only colon has neither a colon nor a slash.
LEMMA HostIs ==
  ASSUME NEW S, NEW a \in Seq(S), \A i \in 1 .. Len(a) : a[i] # Slash,
         \A x, y \in Colons(a) : x = y
  PROVE  /\ HostOf(a) \in Seq(S) /\ \A i \in 1 .. Len(HostOf(a)) : HostOf(a)[i] # Slash
         /\ Colons(HostOf(a)) = {}
<1>1. Len(a) \in Nat /\ DOMAIN a = 1 .. Len(a)
  BY LenProperties, Zenon
<1>2. CASE Colons(a) = {}
  <2>1. HostOf(a) = a
    BY <1>2, Zenon DEF HostOf
  <2>2. QED
    BY <1>2, <2>1
<1>3. CASE Colons(a) # {}
  <2> DEFINE c == LastColon(a)
             h == SubSeq(a, 1, c - 1)
  <2>1. Colons(a) \subseteq 1 .. Len(a) /\ Colons(a) \subseteq Nat
    BY <1>1 DEF Colons
  <2>2. \E i \in Colons(a) : \A j \in Colons(a) : i >= j
    <3>1. PICK i \in Colons(a) : TRUE
      BY <1>3
    <3>2. i \in Nat /\ i >= i
      BY <2>1, <3>1
    <3>3. \A j \in Colons(a) : j = i
      BY <3>1, Zenon
    <3>4. QED
      BY <3>1, <3>2, <3>3, Zenon
  <2>3. c \in Colons(a)
    BY <2>2, Zenon DEF LastColon
  <2> HIDE DEF c
  <2>4. c \in 1 .. Len(a)
    BY <2>1, <2>3
  <2>5. 1 \in Nat /\ c - 1 \in Nat /\ 1 >= 1 /\ 1 <= (c - 1) + 1 /\ c - 1 <= Len(a)
    BY <1>1, <2>4
  <2>6. IsSlice(S, h, a, 1, c - 1)
    BY <2>5, Slice, Zenon
  <2> HIDE DEF h
  <2>7. h \in Seq(S) /\ Len(h) = c - 1 /\ DOMAIN h = 1 .. c - 1 /\ \A i \in 1 .. c - 1 : h[i] = a[i]
    BY <1>1, <2>4, <2>6 DEF IsSlice
  <2>8. \A i \in 1 .. Len(h) : h[i] # Slash
    BY <1>1, <2>4, <2>7
  <2>9. Colons(h) = {}
    <3> SUFFICES ASSUME NEW i \in 1 .. c - 1, h[i] = Colon PROVE FALSE
      BY <2>7, Zenon DEF Colons
    <3>1. i \in 1 .. Len(a) /\ a[i] = Colon /\ i # c
      BY <1>1, <2>4, <2>7
    <3>2. i \in Colons(a)
      BY <1>1, <3>1, Zenon DEF Colons
    <3>3. QED
      BY <2>3, <3>1, <3>2, Zenon
  <2>10. HostOf(a) = h
    BY <1>3, Zenon DEF HostOf, h, c
  <2>11. QED
    BY <2>7, <2>8, <2>9, <2>10
<1>4. QED
  BY <1>2, <1>3

\* A request's target begins with "/", and its Host header names the host and the
\* port that HttpClient connects to, unless the authority has two colons.
THEOREM UrlIsExact == \A text \in Seq(0 .. 255) : UrlIsRight(text)
<1> SUFFICES ASSUME NEW text \in Seq(0 .. 255), NEW https \in BOOLEAN, ParseAbsoluteUrl(text, https).ok
             PROVE  LET url == ParseAbsoluteUrl(text, https)
                        again == ParseAbsoluteUrl(url.hostField, https)
                    IN  /\ Head(url.target) = Slash
                        /\ Cardinality({i \in 1 .. First(text, Slash) - 1 : text[i] = Colon}) < 2 =>
                             again.host = url.host /\ again.port = url.port
  BY Zenon DEF UrlIsRight
<1> DEFINE url == ParseAbsoluteUrl(text, https)
           again == ParseAbsoluteUrl(url.hostField, https)
           n == Len(text)
           f == First(text, Slash)
           a == Authority(text)
<1>1. FirstByte(text, Slash, f)
  BY FirstIs, Zenon
<1>2. /\ url.host = HostOf(a) /\ url.port = PortOf(a, https)
      /\ url.hostField = HostField(a, https)
      /\ url.target = IF Slash \in Range(text) THEN Suffix(text, f) ELSE <<Slash>>
  BY UrlIs, Zenon
<1>3. /\ again.host = HostOf(Authority(url.hostField)) /\ again.port = PortOf(Authority(url.hostField), https)
  BY UrlIs, Zenon
<1>4. a = SubSeq(text, 1, f - 1)
  BY Zenon DEF Authority
<1> HIDE DEF url, again, f, a, n
<1>5. Head(url.target) = Slash
  <2>1. CASE Slash \in Range(text)
    <3>1. f \in 1 .. Len(text) /\ text[f] = Slash /\ Len(text) \in f .. Len(text)
      BY <1>1, <2>1 DEF FirstByte
    <3>2. Head(SubSeq(text, f, Len(text))) = text[f]
      BY <3>1, HeadTailOfSubSeq, Zenon
    <3>3. QED
      BY <1>2, <2>1, <3>1, <3>2, Zenon DEF Suffix
  <2>2. CASE Slash \notin Range(text)
    <3>1. url.target = <<Slash>>
      BY <1>2, <2>2, Zenon
    <3>2. QED
      BY <3>1
  <2>3. QED
    BY <2>1, <2>2
<1>6. ASSUME Cardinality({i \in 1 .. f - 1 : text[i] = Colon}) < 2
      PROVE  again.host = url.host /\ again.port = url.port
  <2>1. f - 1 \in Nat /\ Len(text) \in Nat /\ f - 1 <= Len(text) /\ 1 <= (f - 1) + 1 /\ 1 \in Nat /\ 1 >= 1
    BY <1>1 DEF FirstByte
  <2>2. IsSlice(0 .. 255, a, text, 1, f - 1)
    BY <1>4, <2>1, Slice, Zenon
  <2>3. a \in Seq(0 .. 255) /\ Len(a) = f - 1 /\ DOMAIN a = 1 .. f - 1 /\ \A i \in 1 .. f - 1 : a[i] = text[i]
    <3>1. 1 .. (f - 1) + 1 - 1 = 1 .. f - 1 /\ (f - 1) + 1 - 1 = f - 1 /\ \A i \in 1 .. f - 1 : 1 + i - 1 = i
      BY <2>1
    <3>2. QED
      BY <2>2, <3>1 DEF IsSlice
  <2>4. \A i \in 1 .. Len(a) : a[i] # Slash
    BY <1>1, <2>3 DEF FirstByte
  <2>5. Colons(a) = {i \in 1 .. f - 1 : text[i] = Colon}
    BY <2>3 DEF Colons
  <2>6. Colons(a) \subseteq 1 .. f - 1 /\ Cardinality(Colons(a)) < 2
    BY <1>6, <2>5
  <2>7. \A x, y \in Colons(a) : x = y
    BY <2>1, <2>6, AtMostOne, Zenon
  <2>8. CASE HostField(a, https) = a
    <3>1. Authority(a) = a
      BY <2>3, <2>4, NoSlash, ZenonT(60)
    <3>2. QED
      BY <1>2, <1>3, <2>8, <3>1, Zenon
  <2>9. CASE HostField(a, https) # a
    <3> DEFINE h == HostOf(a)
    <3>1. ~https /\ PortOf(a, https) = DefaultPort(FALSE) /\ HostField(a, https) = h
      BY <2>9, Zenon DEF HostField
    <3>2. h \in Seq(0 .. 255) /\ (\A i \in 1 .. Len(h) : h[i] # Slash) /\ Colons(h) = {}
      BY <2>3, <2>4, <2>7, HostIs, Zenon
    <3> HIDE DEF h
    <3>3. Authority(h) = h
      BY <3>2, NoSlash, Zenon
    <3>4. HostOf(h) = h /\ PortOf(h, https) = DefaultPort(https)
      BY <3>2, Zenon DEF HostOf, PortOf
    <3>5. https = FALSE
      BY <3>1
    <3>6. QED
      BY <1>2, <1>3, <3>1, <3>3, <3>4, <3>5, ZenonT(60) DEF h
  <2>10. QED
    BY <2>8, <2>9
<1>7. QED
  BY <1>5, <1>6, Zenon DEF url, again, f

-----------------------------------------------------------------------------
(* Bytes that are taken out of a text. *)

\* The bytes of a text at the places of K, in order; off[k] of them are before k.
Kept(text, K) == [i \in 1 .. Len(text) |-> IF i \in K THEN <<text[i]>> ELSE <<>>]

KeptAt(text, K, flat, off) ==
  /\ off \in [1 .. Len(text) + 1 -> Nat] /\ off[1] = 0
  /\ flat \in Seq(0 .. 255) /\ Len(flat) = off[Len(text) + 1]
  /\ \A k \in 1 .. Len(text) :
       IF k \in K THEN off[k + 1] = off[k] + 1 /\ off[k + 1] <= Len(flat) /\ flat[off[k] + 1] = text[k]
       ELSE off[k + 1] = off[k]

LEMMA KeptIs ==
  ASSUME NEW text \in Seq(0 .. 255), NEW K
  PROVE  \E off : KeptAt(text, K, FlattenSeq(Kept(text, K)), off)
<1> DEFINE n == Len(text)
           seqs == Kept(text, K)
           flat == FlattenSeq(seqs)
<1>1. n \in Nat /\ \A i \in 1 .. n : text[i] \in 0 .. 255
  BY ElementOfSeq, LenProperties, Zenon
<1>2. ASSUME NEW i \in 1 .. n
      PROVE  /\ i \in K => seqs[i] = <<text[i]>>
             /\ i \notin K => seqs[i] = <<>>
  BY Zenon DEF Kept
<1>3. ASSUME NEW i \in 1 .. n PROVE seqs[i] \in Seq(0 .. 255)
  <2>1. text[i] \in 0 .. 255
    BY <1>1
  <2>2. <<text[i]>> \in Seq(0 .. 255) /\ <<>> \in Seq(0 .. 255)
    BY <2>1
  <2>3. QED
    BY <1>2, <2>2, Zenon
<1>4. seqs = [i \in 1 .. n |-> seqs[i]]
  BY Zenon DEF Kept
<1> HIDE DEF seqs
<1>5. seqs \in [1 .. n -> Seq(0 .. 255)]
  BY <1>3, <1>4, Zenon
<1> HIDE DEF n
<1>6. PICK off : FlatAt(0 .. 255, n, seqs, flat, off)
  BY <1>1, <1>5, FlatParts, Zenon
<1> HIDE DEF flat
<1>7. /\ off \in [1 .. n + 1 -> Nat] /\ off[1] = 0 /\ flat \in Seq(0 .. 255) /\ Len(flat) = off[n + 1]
  BY <1>6, Zenon DEF FlatAt
<1>8. ASSUME NEW k \in 1 .. n, k \in K
      PROVE  off[k + 1] = off[k] + 1 /\ off[k + 1] <= Len(flat) /\ flat[off[k] + 1] = text[k]
  <2>1. seqs[k] = <<text[k]>>
    BY <1>2, <1>8
  <2>2. Len(seqs[k]) = 1 /\ seqs[k][1] = text[k] /\ 1 \in 1 .. 1
    BY <2>1
  <2>3. /\ off[k + 1] = off[k] + Len(seqs[k]) /\ off[k + 1] <= off[n + 1]
        /\ \A i \in 1 .. Len(seqs[k]) : flat[off[k] + i] = seqs[k][i]
    BY <1>6, Zenon DEF FlatAt
  <2>4. QED
    BY <1>7, <2>2, <2>3, Zenon
<1>9. ASSUME NEW k \in 1 .. n, k \notin K PROVE off[k + 1] = off[k]
  <2>1. seqs[k] = <<>> /\ Len(<<>>) = 0
    BY <1>2, <1>9
  <2>2. off[k + 1] = off[k] + Len(seqs[k]) /\ off[k] \in Nat
    BY <1>1, <1>6, <1>7 DEF FlatAt
  <2>3. off[k + 1] = off[k] + 0
    BY <2>1, <2>2, Zenon
  <2>4. QED
    BY <2>2, <2>3
<1>10. KeptAt(text, K, flat, off)
  BY <1>7, <1>8, <1>9, Zenon DEF KeptAt, n
<1>11. QED
  BY <1>10, Zenon DEF flat, seqs

\* Between two places of which nothing in between is kept, nothing is counted.
LEMMA KeptSame ==
  ASSUME NEW text \in Seq(0 .. 255), NEW K, NEW flat, NEW off, KeptAt(text, K, flat, off),
         NEW a \in 1 .. Len(text) + 1, NEW b \in a .. Len(text) + 1, \A k \in a .. b - 1 : k \notin K
  PROVE  off[a] = off[b]
<1> DEFINE n == Len(text)
           P == {m \in Nat : a + m <= b => off[a + m] = off[a]}
<1>1. n \in Nat
  OBVIOUS
<1> HIDE DEF n
<1>2. 0 \in P
  BY <1>1
<1>3. ASSUME NEW m \in Nat, m \in P PROVE m + 1 \in P
  <2> SUFFICES ASSUME a + (m + 1) <= b PROVE off[a + (m + 1)] = off[a]
    OBVIOUS
  <2> DEFINE k == a + m
  <2>1. k \in 1 .. n /\ k \in a .. b - 1 /\ a + (m + 1) = k + 1 /\ k <= b
    BY <1>1 DEF n
  <2>2. off[k] = off[a]
    BY <1>3, <2>1
  <2> HIDE DEF k
  <2>3. off[k + 1] = off[k]
    BY <2>1, Zenon DEF KeptAt, n
  <2>4. QED
    BY <2>1, <2>2, <2>3
<1> HIDE DEF P
<1>4. b - a \in P
  <2>1. b - a \in Nat
    BY <1>1
  <2>2. QED
    BY <1>2, <1>3, <2>1, Induction, Zenon
<1>5. a + (b - a) = b /\ b <= b
  BY <1>1
<1>6. QED
  BY <1>4, <1>5 DEF P

\* What is counted does not shrink.
LEMMA KeptMono ==
  ASSUME NEW text \in Seq(0 .. 255), NEW K, NEW flat, NEW off, KeptAt(text, K, flat, off),
         NEW a \in 1 .. Len(text) + 1, NEW b \in a .. Len(text) + 1
  PROVE  off[a] <= off[b]
<1> DEFINE n == Len(text)
           P == {m \in Nat : a + m <= b => off[a] <= off[a + m]}
<1>1. n \in Nat /\ off \in [1 .. n + 1 -> Nat]
  BY DEF KeptAt
<1> HIDE DEF n
<1>2. a \in 1 .. n + 1 /\ b \in a .. n + 1
  BY DEF n
<1>3. 0 \in P
  BY <1>1, <1>2
<1>4. ASSUME NEW m \in Nat, m \in P PROVE m + 1 \in P
  <2> SUFFICES ASSUME a + (m + 1) <= b PROVE off[a] <= off[a + (m + 1)]
    OBVIOUS
  <2> DEFINE k == a + m
  <2>1. k \in 1 .. n /\ a + (m + 1) = k + 1 /\ k <= b
    BY <1>1, <1>2
  <2>2. off[a] <= off[k]
    BY <1>4, <2>1
  <2> HIDE DEF k
  <2>3. off[k + 1] \in {off[k], off[k] + 1}
    BY <2>1, Zenon DEF KeptAt, n
  <2>4. off[a] \in Nat /\ off[k] \in Nat
    BY <1>1, <1>2, <2>1
  <2>5. off[a] <= off[k + 1]
    BY <2>2, <2>3, <2>4
  <2>6. QED
    BY <2>1, <2>5
<1> HIDE DEF P
<1>5. b - a \in P
  <2>1. b - a \in Nat
    BY <1>1, <1>2
  <2>2. QED
    BY <1>3, <1>4, <2>1, Induction, Zenon
<1>6. a + (b - a) = b /\ b <= b
  BY <1>1, <1>2
<1>7. QED
  BY <1>5, <1>6 DEF P

\* Every byte that is left comes from a place that is kept.
ComesFrom(text, K, flat, off, p) ==
  \E k \in 1 .. Len(text) : k \in K /\ p = off[k] + 1 /\ flat[p] = text[k]

LEMMA KeptFrom ==
  ASSUME NEW text \in Seq(0 .. 255), NEW K, NEW flat, NEW off, KeptAt(text, K, flat, off),
         NEW p \in 1 .. Len(flat)
  PROVE  ComesFrom(text, K, flat, off, p)
<1> DEFINE n == Len(text)
           T == {k \in 1 .. n : off[k + 1] >= p}
<1>1. n \in Nat /\ Len(flat) \in Nat /\ off \in [1 .. n + 1 -> Nat] /\ off[1] = 0 /\ off[n + 1] = Len(flat)
  BY DEF KeptAt
<1>2. n # 0
  BY <1>1
<1>3. n \in T /\ T \subseteq Nat
  BY <1>1, <1>2
<1>4. PICK k \in T : \A j \in T : k <= j
  <2> HIDE DEF T
  <2>1. QED
    BY <1>3, HasFirst, Zenon
<1>5. k \in 1 .. n /\ off[k + 1] >= p /\ off[k] \in Nat
  BY <1>1, <1>4
<1>6. off[k] < p
  <2>1. CASE k = 1
    BY <1>1, <2>1
  <2>2. CASE k # 1
    <3>1. k - 1 \in 1 .. n /\ (k - 1) + 1 = k /\ ~(k <= k - 1)
      BY <1>5, <2>2
    <3>2. k - 1 \notin T
      BY <1>4, <3>1, Zenon
    <3>3. ~(off[k] >= p)
      BY <3>1, <3>2
    <3>4. QED
      BY <1>5, <3>3
  <2>3. QED
    BY <2>1, <2>2
<1>7. k \in K /\ off[k + 1] = off[k] + 1 /\ flat[off[k] + 1] = text[k]
  <2>1. k \in K
    <3> SUFFICES ASSUME k \notin K PROVE FALSE
      OBVIOUS
    <3>1. off[k + 1] = off[k]
      BY <1>5, Zenon DEF KeptAt
    <3>2. QED
      BY <1>5, <1>6, <3>1
  <2>2. QED
    BY <1>5, <2>1, Zenon DEF KeptAt
<1>8. p = off[k] + 1
  BY <1>5, <1>6, <1>7
<1>9. QED
  BY <1>5, <1>7, <1>8, Zenon DEF ComesFrom

\* Bytes kept of bytes kept are bytes kept.
KeptOf(text, C, off, J, K) ==
  \A i \in 1 .. Len(text) : /\ i \in C => (off[i] + 1 \in J <=> i \in K)
                            /\ i \notin C => i \notin K

SameKept(json, J, text, K) == FlattenSeq(Kept(json, J)) = FlattenSeq(Kept(text, K))

LEMMA KeptTwice ==
  ASSUME NEW text \in Seq(0 .. 255), NEW C, NEW json, NEW off1, KeptAt(text, C, json, off1), NEW J, NEW K,
         KeptOf(text, C, off1, J, K)
  PROVE  SameKept(json, J, text, K)
<1> DEFINE n == Len(text)
           res == FlattenSeq(Kept(json, J))
           ref == FlattenSeq(Kept(text, K))
<1>1. n \in Nat /\ DOMAIN text = 1 .. n
  BY LenProperties, Zenon
<1>2. json \in Seq(0 .. 255) /\ Len(json) \in Nat
  <2>1. json \in Seq(0 .. 255)
    BY Zenon DEF KeptAt
  <2>2. QED
    BY <2>1, LenProperties, Zenon
<1>3. PICK off2 : KeptAt(json, J, res, off2)
  BY <1>2, KeptIs, Zenon
<1>4. PICK off : KeptAt(text, K, ref, off)
  BY KeptIs, Zenon
<1> HIDE DEF res, ref
<1> DEFINE m == Len(json)
<1>5. off1 \in [1 .. n + 1 -> Nat] /\ off1[1] = 0 /\ m = off1[n + 1] /\ m \in Nat
  BY <1>2 DEF KeptAt
<1>6. off2 \in [1 .. m + 1 -> Nat] /\ off2[1] = 0 /\ res \in Seq(0 .. 255) /\ Len(res) = off2[m + 1]
  BY <1>3, Zenon DEF KeptAt
<1>7. off \in [1 .. n + 1 -> Nat] /\ off[1] = 0 /\ ref \in Seq(0 .. 255) /\ Len(ref) = off[n + 1]
  BY <1>4, Zenon DEF KeptAt
<1>8. ASSUME NEW i \in 1 .. n, i \in C
       PROVE  /\ off1[i + 1] = off1[i] + 1 /\ off1[i] + 1 \in 1 .. m /\ json[off1[i] + 1] = text[i]
              /\ off1[i] + 1 \in J <=> i \in K
  <2>1. off1[i + 1] = off1[i] + 1 /\ off1[i + 1] <= m /\ json[off1[i] + 1] = text[i]
    BY <1>8, Zenon DEF KeptAt
  <2>2. off1[i] \in Nat
    BY <1>1, <1>5
  <2>3. off1[i] + 1 \in 1 .. m
    BY <1>5, <2>1, <2>2
  <2>4. QED
    BY <1>8, <2>1, <2>3, Zenon DEF KeptOf
<1>9. ASSUME NEW i \in 1 .. n, i \notin C PROVE off1[i + 1] = off1[i] /\ i \notin K
  BY <1>9, Zenon DEF KeptAt, KeptOf
<1> HIDE DEF m, n
<1> DEFINE P == {d \in Nat : d + 1 \in 1 .. n + 1 => off[d + 1] = off2[off1[d + 1] + 1]}
<1>10. 0 \in P
  <2>1. off[0 + 1] = off2[off1[0 + 1] + 1]
    BY <1>5, <1>6, <1>7
  <2>2. QED
    BY <2>1
<1>11. ASSUME NEW d \in Nat, d \in P PROVE d + 1 \in P
  <2> DEFINE i == d + 1
  <2> SUFFICES ASSUME i + 1 \in 1 .. n + 1 PROVE off[i + 1] = off2[off1[i + 1] + 1]
    OBVIOUS
  <2>1. i \in 1 .. n /\ i \in 1 .. n + 1
    BY <1>1
  <2>2. off[i] = off2[off1[i] + 1]
    BY <1>11, <2>1
  <2> HIDE DEF i
  <2>3. CASE i \in C
    <3> DEFINE q == off1[i] + 1
    <3>1. off1[i + 1] = q /\ q \in 1 .. m /\ (q \in J <=> i \in K)
      BY <1>8, <2>1, <2>3, Zenon
    <3>2. off[i] = off2[q]
      BY <2>2
    <3> HIDE DEF q
    <3>3. CASE i \in K
      <4>1. off[i + 1] = off[i] + 1
        BY <1>4, <2>1, <3>3, Zenon DEF KeptAt, n
      <4>2. off2[q + 1] = off2[q] + 1
        BY <1>3, <3>1, <3>3, Zenon DEF KeptAt, m
      <4>3. QED
        BY <3>1, <3>2, <4>1, <4>2, Zenon
    <3>4. CASE i \notin K
      <4>1. off[i + 1] = off[i]
        BY <1>4, <2>1, <3>4, Zenon DEF KeptAt, n
      <4>2. off2[q + 1] = off2[q]
        BY <1>3, <3>1, <3>4, Zenon DEF KeptAt, m
      <4>3. QED
        BY <3>1, <3>2, <4>1, <4>2, Zenon
    <3>5. QED
      BY <3>3, <3>4
  <2>4. CASE i \notin C
    <3>1. off1[i + 1] = off1[i] /\ i \notin K
      BY <1>9, <2>1, <2>4, Zenon
    <3>2. off[i + 1] = off[i]
      BY <1>4, <2>1, <3>1, Zenon DEF KeptAt, n
    <3>3. QED
      BY <2>2, <3>1, <3>2, Zenon
  <2>5. QED
    BY <2>3, <2>4
<1>12. ASSUME NEW i \in 1 .. n + 1 PROVE off[i] = off2[off1[i] + 1]
  <2> SUFFICES i - 1 \in P
    BY <1>1
  <2> HIDE DEF P
  <2>1. i - 1 \in Nat
    BY <1>1
  <2>2. QED
    BY <1>10, <1>11, <2>1, Induction, Zenon
<1> HIDE DEF P
<1>13. Len(res) = Len(ref)
  <2>1. n + 1 \in 1 .. n + 1
    BY <1>1
  <2>2. QED
    BY <1>5, <1>6, <1>7, <1>12, <2>1, Zenon
<1>14. ASSUME NEW p \in 1 .. Len(ref) PROVE res[p] = ref[p]
  <2>1. PICK i \in 1 .. n : i \in K /\ p = off[i] + 1 /\ ref[p] = text[i]
    <3>1. ComesFrom(text, K, ref, off, p)
      BY <1>4, KeptFrom, Zenon
    <3>2. QED
      BY <3>1, Zenon DEF ComesFrom, n
  <2>2. i \in C
    BY <1>9, <2>1, Zenon
  <2> DEFINE q == off1[i] + 1
  <2>3. q \in 1 .. m /\ q \in J /\ json[q] = text[i]
    BY <1>8, <2>1, <2>2, Zenon
  <2>4. off[i] = off2[q]
    <3>1. i \in 1 .. n + 1
      BY <1>1
    <3>2. QED
      BY <1>12, <3>1, Zenon
  <2> HIDE DEF q
  <2>5. res[off2[q] + 1] = json[q]
    BY <1>3, <2>3, Zenon DEF KeptAt, m
  <2>6. QED
    BY <2>1, <2>3, <2>4, <2>5, Zenon
<1>15. res = ref
  <2>1. \A p \in 1 .. Len(res) : res[p] = ref[p]
    BY <1>13, <1>14, Zenon
  <2>2. res \in Seq(0 .. 255) /\ ref \in Seq(0 .. 255)
    BY <1>6, <1>7, Zenon
  <2>3. QED
    BY <1>13, <2>1, <2>2, SeqEqual, Zenon
<1>16. QED
  BY <1>15, Zenon DEF res, ref, SameKept

-----------------------------------------------------------------------------
(* JSON with comments. *)

SlashesAt(text, j) == j < Len(text) /\ text[j] = Slash /\ text[j + 1] = Slash

Commented(text, i) == \E j \in 1 .. i : SlashesAt(text, j) /\ \A k \in j .. i : text[k] # LF

\* A place that no comment reaches which began before it.
Outside(text, i) ==
  i = Len(text) + 1 \/ ~\E j \in 1 .. i - 1 : SlashesAt(text, j) /\ \A k \in j .. i : text[k] # LF

LineEnd(text, i) == i - 1 + First(Suffix(text, i), LF)

LEMMA LineEndIs ==
  ASSUME NEW text \in Seq(0 .. 255), NEW i \in 1 .. Len(text), text[i] # LF
  PROVE  /\ LineEnd(text, i) \in i + 1 .. Len(text) + 1
         /\ \A k \in i .. LineEnd(text, i) - 1 : text[k] # LF
         /\ LineEnd(text, i) <= Len(text) => text[LineEnd(text, i)] = LF
<1> DEFINE n == Len(text)
           s == Suffix(text, i)
           f == First(s, LF)
           e == LineEnd(text, i)
<1>1. n \in Nat /\ i \in Nat /\ i >= 1 /\ i <= n + 1 /\ n <= n
  OBVIOUS
<1>2. IsSlice(0 .. 255, s, text, i, n)
  BY <1>1, Slice, Zenon DEF Suffix
<1> HIDE DEF s
<1>3. s \in Seq(0 .. 255) /\ Len(s) = n + 1 - i /\ \A k \in 1 .. n + 1 - i : s[k] = text[i + k - 1]
  BY <1>2, Zenon DEF IsSlice
<1>4. FirstByte(s, LF, f)
  BY <1>3, FirstIs, Zenon
<1>5. e = i - 1 + f
  BY Zenon DEF LineEnd, s
<1> HIDE DEF f, e
<1>6. /\ f \in 1 .. (n + 1 - i) + 1 /\ \A k \in 1 .. f - 1 : s[k] # LF
      /\ f <= n + 1 - i => s[f] = LF
  BY <1>3, <1>4, Zenon DEF FirstByte
<1>7. f # 1
  <2>1. 1 \in 1 .. n + 1 - i /\ i + 1 - 1 = i /\ 1 <= n + 1 - i
    BY <1>1
  <2>2. s[1] = text[i]
    BY <1>3, <2>1
  <2>3. QED
    BY <1>6, <2>1, <2>2
<1>8. e \in i + 1 .. n + 1
  BY <1>1, <1>5, <1>6, <1>7
<1>9. ASSUME NEW k \in i .. e - 1 PROVE text[k] # LF
  <2> DEFINE d == k + 1 - i
  <2>1. d \in 1 .. f - 1 /\ d \in 1 .. n + 1 - i /\ i + d - 1 = k
    BY <1>1, <1>5, <1>6, <1>8
  <2> HIDE DEF d
  <2>2. s[d] # LF /\ s[d] = text[i + d - 1]
    BY <1>3, <1>6, <2>1, Zenon
  <2>3. QED
    BY <2>1, <2>2
<1>10. ASSUME e <= n PROVE text[e] = LF
  <2>1. f <= n + 1 - i /\ f \in 1 .. n + 1 - i /\ i + f - 1 = e
    BY <1>1, <1>5, <1>6, <1>10
  <2>2. s[f] = LF /\ s[f] = text[i + f - 1]
    BY <1>3, <1>6, <2>1, Zenon
  <2>3. QED
    BY <2>1, <2>2
<1>11. QED
  BY <1>8, <1>9, <1>10 DEF e

StrippedAt(text) == [i \in 1 .. Len(text) |-> IF SlashesAt(text, i) THEN <<>> ELSE <<text[i]>>]
StrippedBy(text) == [i \in 1 .. Len(text) |-> IF SlashesAt(text, i) THEN LineEnd(text, i) - i ELSE 1]

LEMMA SlashesGo ==
  ASSUME NEW text \in Seq(0 .. 255), NEW i \in 1 .. Len(text), SlashesAt(text, i)
  PROVE  /\ LineEnd(text, i) \in i + 1 .. Len(text) + 1
         /\ \A k \in i .. LineEnd(text, i) - 1 : text[k] # LF
         /\ LineEnd(text, i) <= Len(text) => text[LineEnd(text, i)] = LF
<1>1. text[i] # LF
  BY DEF SlashesAt, Slash, LF
<1>2. QED
  BY <1>1, LineEndIs

LEMMA StripSteps ==
  ASSUME NEW text \in Seq(0 .. 255)
  PROVE  Steps(Len(text), StrippedBy(text))
<1> SUFFICES ASSUME NEW i \in 1 .. Len(text)
             PROVE  /\ StrippedBy(text)[i] \in Nat /\ StrippedBy(text)[i] >= 1
                    /\ i + StrippedBy(text)[i] <= Len(text) + 1
  BY Zenon DEF Steps
<1>1. Len(text) \in Nat
  OBVIOUS
<1>2. CASE SlashesAt(text, i)
  <2>1. StrippedBy(text)[i] = LineEnd(text, i) - i
    BY <1>2 DEF StrippedBy
  <2>2. LineEnd(text, i) \in i + 1 .. Len(text) + 1
    BY <1>2, SlashesGo
  <2>3. QED
    BY <1>1, <2>1, <2>2
<1>3. CASE ~SlashesAt(text, i)
  <2>1. StrippedBy(text)[i] = 1
    BY <1>3 DEF StrippedBy
  <2>2. QED
    BY <1>1, <2>1
<1>4. QED
  BY <1>2, <1>3

LEMMA RemoveCommentsWalks ==
  ASSUME NEW text \in Seq(0 .. 255)
  PROVE  \E g : Walk(Len(text), StrippedAt(text), StrippedBy(text), g) /\ RemoveComments(text) = g[1]
<1> DEFINE n == Len(text)
           put(g, i) ==
             IF i > n THEN <<>>
             ELSE IF i < n /\ text[i] = Slash /\ text[i + 1] = Slash
                  THEN g[i - 1 + First(Suffix(text, i), LF)]
                  ELSE <<text[i]>> \o g[i + 1]
           body(g) == [i \in 1 .. n + 1 |-> put(g, i)]
           walk(g) == [i \in 1 .. n + 1 |-> IF i > n THEN <<>> ELSE Then(StrippedAt(text)[i], g[i + StrippedBy(text)[i]])]
<1>1. RemoveComments(text) = (CHOOSE g : g = body(g))[1]
  BY Zenon DEF RemoveComments
<1>2. n \in Nat
  OBVIOUS
<1>3. ASSUME NEW g PROVE body(g) = walk(g)
  <2> SUFFICES ASSUME NEW i \in 1 .. n + 1
               PROVE  put(g, i) = IF i > n THEN <<>> ELSE Then(StrippedAt(text)[i], g[i + StrippedBy(text)[i]])
    <3> HIDE DEF put
    <3>1. QED
      BY Zenon
  <2>1. CASE i > n
    BY <2>1
  <2>2. CASE ~(i > n)
    <3>1. i \in 1 .. n
      BY <1>2, <2>2
    <3>2. CASE SlashesAt(text, i)
      <4>1. StrippedAt(text)[i] = <<>> /\ StrippedBy(text)[i] = LineEnd(text, i) - i
        BY <3>1, <3>2, Zenon DEF StrippedAt, StrippedBy
      <4>2. LineEnd(text, i) \in i + 1 .. n + 1
        BY <3>1, <3>2, SlashesGo
      <4>3. i + (LineEnd(text, i) - i) = LineEnd(text, i)
        BY <1>2, <3>1, <4>2
      <4>4. Then(StrippedAt(text)[i], g[i + StrippedBy(text)[i]]) = g[LineEnd(text, i)]
        BY <4>1, <4>3, Zenon DEF Then
      <4>5. put(g, i) = g[LineEnd(text, i)]
        BY <2>2, <3>2, Zenon DEF SlashesAt, LineEnd
      <4>6. QED
        BY <2>2, <4>4, <4>5, Zenon
    <3>3. CASE ~SlashesAt(text, i)
      <4>1. StrippedAt(text)[i] = <<text[i]>> /\ StrippedBy(text)[i] = 1
        BY <3>1, <3>3, Zenon DEF StrippedAt, StrippedBy
      <4>2. Then(StrippedAt(text)[i], g[i + 1]) = <<text[i]>> \o g[i + 1]
        BY <4>1, NotEmpty, Zenon DEF Then
      <4>3. QED
        BY <2>2, <3>3, <4>1, <4>2, Zenon DEF SlashesAt
    <3>4. QED
      BY <3>2, <3>3
  <2>3. QED
    BY <2>1, <2>2
<1>4. PICK g : Walk(n, StrippedAt(text), StrippedBy(text), g)
  BY <1>2, StripSteps, WalkExists, Zenon
<1>5. ASSUME NEW f PROVE f = body(f) <=> Walk(n, StrippedAt(text), StrippedBy(text), f)
  <2> HIDE DEF body
  <2>1. Walk(n, StrippedAt(text), StrippedBy(text), f) <=> f = walk(f)
    BY Zenon DEF Walk
  <2> HIDE DEF walk
  <2>2. QED
    BY <1>3, <2>1, Zenon
<1> HIDE DEF body, walk, n
<1>6. g = body(g)
  BY <1>4, <1>5, Zenon
<1> DEFINE h == CHOOSE f : f = body(f)
<1>7. h = body(h)
  BY <1>6, Zenon
<1>8. RemoveComments(text) = h[1]
  BY <1>1, Zenon
<1> HIDE DEF h
<1>9. Walk(n, StrippedAt(text), StrippedBy(text), h)
  BY <1>5, <1>7, Zenon
<1>10. QED
  BY <1>8, <1>9, Zenon DEF n

\* The bytes in no comment.
Code(text) == {i \in 1 .. Len(text) : ~Commented(text, i)}

LEMMA OutsideStep ==
  ASSUME NEW text \in Seq(0 .. 255), NEW i \in 1 .. Len(text), Outside(text, i)
  PROVE  /\ SlashesAt(text, i) => /\ Outside(text, LineEnd(text, i))
                                  /\ \A k \in i .. LineEnd(text, i) - 1 : k \notin Code(text)
         /\ ~SlashesAt(text, i) => i \in Code(text) /\ Outside(text, i + 1)
<1> DEFINE n == Len(text)
<1>1. n \in Nat /\ i # n + 1
  OBVIOUS
<1>2. ~\E j \in 1 .. i - 1 : SlashesAt(text, j) /\ \A k \in j .. i : text[k] # LF
  BY <1>1, Zenon DEF Outside
<1>3. ASSUME SlashesAt(text, i)
      PROVE  /\ Outside(text, LineEnd(text, i))
             /\ \A k \in i .. LineEnd(text, i) - 1 : k \notin Code(text)
  <2> DEFINE e == LineEnd(text, i)
  <2>1. e \in i + 1 .. n + 1 /\ (\A k \in i .. e - 1 : text[k] # LF) /\ (e <= n => text[e] = LF)
    BY <1>3, SlashesGo
  <2> HIDE DEF e
  <2>2. Outside(text, e)
    <3>1. CASE e = n + 1
      BY <3>1 DEF Outside
    <3>2. CASE e # n + 1
      <4>1. text[e] = LF
        BY <1>1, <2>1, <3>2
      <4>2. ASSUME NEW j \in 1 .. e - 1 PROVE e \in j .. e
        BY <1>1, <2>1
      <4>3. QED
        BY <4>1, <4>2, Zenon DEF Outside
    <3>3. QED
      BY <3>1, <3>2
  <2>3. ASSUME NEW k \in i .. e - 1 PROVE Commented(text, k)
    <3>1. i \in 1 .. k /\ \A d \in i .. k : text[d] # LF
      BY <1>1, <2>1
    <3>2. QED
      BY <1>3, <3>1, Zenon DEF Commented
  <2>4. QED
    BY <2>2, <2>3, Zenon DEF Code, e
<1>4. ASSUME ~SlashesAt(text, i) PROVE i \in Code(text) /\ Outside(text, i + 1)
  <2>1. ~Commented(text, i)
    <3> SUFFICES ASSUME NEW j \in 1 .. i, SlashesAt(text, j), \A k \in j .. i : text[k] # LF PROVE FALSE
      BY Zenon DEF Commented
    <3>1. j # i
      BY <1>4
    <3>2. j \in 1 .. i - 1
      BY <3>1
    <3>3. QED
      BY <1>2, <3>2, Zenon
  <2>2. Outside(text, i + 1)
    <3> SUFFICES ASSUME NEW j \in 1 .. (i + 1) - 1, SlashesAt(text, j), \A k \in j .. i + 1 : text[k] # LF
                 PROVE  FALSE
      BY Zenon DEF Outside
    <3>1. j # i
      BY <1>4
    <3>2. j \in 1 .. i - 1 /\ \A k \in j .. i : text[k] # LF
      BY <3>1
    <3>3. QED
      BY <1>2, <3>2, Zenon
  <2>3. QED
    BY <2>1, <2>2, Zenon DEF Code
<1>5. QED
  BY <1>3, <1>4, Zenon

\* What RemoveComments leaves are the bytes in no comment.
LEMMA CommentsAreRemoved ==
  ASSUME NEW text \in Seq(0 .. 255)
  PROVE  RemoveComments(text) = FlattenSeq(Kept(text, Code(text)))
<1> DEFINE n == Len(text)
           flat == FlattenSeq(Kept(text, Code(text)))
           L == Len(flat)
<1>1. n \in Nat
  OBVIOUS
<1>2. PICK off : KeptAt(text, Code(text), flat, off)
  BY KeptIs, Zenon
<1> HIDE DEF flat
<1>3. off \in [1 .. n + 1 -> Nat] /\ off[1] = 0 /\ flat \in Seq(0 .. 255) /\ L = off[n + 1] /\ L \in Nat
  BY <1>2 DEF KeptAt
<1>4. PICK g : Walk(n, StrippedAt(text), StrippedBy(text), g) /\ RemoveComments(text) = g[1]
  BY RemoveCommentsWalks, Zenon
<1>5. WalkIs(n, StrippedAt(text), StrippedBy(text), g)
  BY <1>1, <1>4, WalkAt, Zenon
<1> DEFINE P == {m \in Nat : \A i \in 1 .. n + 1 : i >= n + 1 - m /\ Outside(text, i) =>
                               g[i] = SubSeq(flat, off[i] + 1, L)}
<1> HIDE DEF L
<1>6. 0 \in P
  <2>1. g[n + 1] = <<>>
    BY <1>5, Zenon DEF WalkIs
  <2>2. L + 1 \in Int /\ L \in Int /\ L < L + 1
    BY <1>3
  <2>3. SubSeq(flat, off[n + 1] + 1, L) = <<>>
    BY <1>3, <2>2, SubSeqEmpty, Zenon
  <2>4. ASSUME NEW i \in 1 .. n + 1, i >= n + 1 - 0 PROVE i = n + 1
    BY <1>1, <2>4
  <2>5. 0 \in Nat
    OBVIOUS
  <2>6. QED
    BY <2>1, <2>3, <2>4, <2>5, Zenon
<1>7. ASSUME NEW m \in Nat, m \in P PROVE m + 1 \in P
  <2>0. m + 1 \in Nat
    OBVIOUS
  <2> SUFFICES ASSUME NEW i \in 1 .. n + 1, i >= n + 1 - (m + 1), Outside(text, i)
               PROVE  g[i] = SubSeq(flat, off[i] + 1, L)
    BY <2>0, Zenon
  <2>1. CASE i >= n + 1 - m
    BY <1>7, <2>1, Zenon
  <2>2. CASE ~(i >= n + 1 - m)
    <3>1. i \in 1 .. n /\ i = n - m
      BY <1>1, <2>2
    <3>2. g[i] = Then(StrippedAt(text)[i], g[i + StrippedBy(text)[i]])
      BY <1>5, <3>1, Zenon DEF WalkIs
    <3>3. CASE SlashesAt(text, i)
      <4> DEFINE e == LineEnd(text, i)
      <4>1. e \in i + 1 .. n + 1
        BY <3>1, <3>3, SlashesGo
      <4>2. Outside(text, e) /\ \A k \in i .. e - 1 : k \notin Code(text)
        BY <3>1, <3>3, OutsideStep, Zenon
      <4>3. StrippedAt(text)[i] = <<>> /\ StrippedBy(text)[i] = e - i
        BY <3>1, <3>3, Zenon DEF StrippedAt, StrippedBy
      <4> HIDE DEF e
      <4>4. i + (e - i) = e /\ e \in 1 .. n + 1 /\ e >= n + 1 - m /\ e \in i .. n + 1
        BY <1>1, <3>1, <4>1
      <4>5. g[i] = g[e]
        BY <3>2, <4>3, <4>4, Zenon DEF Then
      <4>6. off[i] = off[e]
        BY <1>2, <4>2, <4>4, KeptSame
      <4>7. g[e] = SubSeq(flat, off[e] + 1, L)
        BY <1>7, <4>2, <4>4, Zenon
      <4>8. QED
        BY <4>5, <4>6, <4>7, Zenon
    <3>4. CASE ~SlashesAt(text, i)
      <4>1. i \in Code(text) /\ Outside(text, i + 1)
        BY <3>1, <3>4, OutsideStep, Zenon
      <4>2. StrippedAt(text)[i] = <<text[i]>> /\ StrippedBy(text)[i] = 1
        BY <3>1, <3>4, Zenon DEF StrippedAt, StrippedBy
      <4>3. g[i] = <<text[i]>> \o g[i + 1]
        BY <3>2, <4>2, NotEmpty, Zenon DEF Then
      <4>4. i + 1 \in 1 .. n + 1 /\ i + 1 >= n + 1 - m
        BY <1>1, <3>1
      <4>5. g[i + 1] = SubSeq(flat, off[i + 1] + 1, L)
        BY <1>7, <4>1, <4>4, Zenon
      <4>6. off[i + 1] = off[i] + 1 /\ off[i + 1] <= Len(flat) /\ flat[off[i] + 1] = text[i]
        BY <1>2, <3>1, <4>1, Zenon DEF KeptAt
      <4>7. off[i] + 1 \in 1 .. Len(flat) /\ Len(flat) \in off[i] + 1 .. Len(flat)
        <5>1. off[i] \in Nat /\ Len(flat) \in Nat
          BY <1>1, <1>3, <3>1 DEF L
        <5>2. QED
          BY <4>6, <5>1
      <4>8. SubSeq(flat, off[i] + 1, Len(flat)) = <<flat[off[i] + 1]>> \o SubSeq(flat, (off[i] + 1) + 1, Len(flat))
        BY <1>3, <4>7, SubSeqRecursiveFirst, Zenon
      <4>9. QED
        BY <4>3, <4>5, <4>6, <4>8, Zenon DEF L
    <3>5. QED
      BY <3>3, <3>4
  <2>3. QED
    BY <2>1, <2>2
<1> HIDE DEF P
<1>8. n \in P
  BY <1>1, <1>6, <1>7, Induction, Zenon
<1>9. 1 \in 1 .. n + 1 /\ 1 >= n + 1 - n /\ 1 .. 1 - 1 = {}
  BY <1>1
<1>10. Outside(text, 1)
  BY <1>9, Zenon DEF Outside
<1>11. g[1] = SubSeq(flat, off[1] + 1, L)
  BY <1>8, <1>9, <1>10, Zenon DEF P
<1>12. off[1] + 1 = 1
  BY <1>3
<1>13. SubSeq(flat, 1, L) = flat
  BY <1>3, SubSeqFull, Zenon DEF L
<1>14. QED
  BY <1>4, <1>11, <1>12, <1>13, Zenon DEF flat

Trailing(text, i) == text[i] = Comma /\ i < Len(text) /\ text[i + 1] = Brace

\* The same commas are before a "}" with the comments and without them.
LEMMA TrailingStays ==
  ASSUME NEW text \in Seq(0 .. 255), NEW json, NEW off, KeptAt(text, Code(text), json, off),
         NEW i \in 1 .. Len(text), i \in Code(text)
  PROVE  Trailing(text, i) <=> Trailing(json, off[i] + 1)
<1> DEFINE n == Len(text)
           j == off[i] + 1
<1>1. n \in Nat /\ off \in [1 .. n + 1 -> Nat] /\ Len(json) \in Nat
  BY DEF KeptAt
<1>2. off[i] \in Nat /\ off[i + 1] = j /\ j <= Len(json) /\ json[j] = text[i]
  <2>1. off[i] \in Nat
    BY <1>1
  <2>2. QED
    BY <2>1, Zenon DEF KeptAt
<1> HIDE DEF j
<1>3. ASSUME NEW k \in 1 .. n, k \in Code(text), off[k] = j PROVE j < Len(json) /\ json[j + 1] = text[k]
  <2>1. off[k + 1] = off[k] + 1 /\ off[k + 1] <= Len(json) /\ json[off[k] + 1] = text[k]
    BY <1>3, Zenon DEF KeptAt
  <2>2. j \in Nat
    BY <1>2 DEF j
  <2>3. QED
    BY <1>1, <1>3, <2>1, <2>2
<1>4. ASSUME Trailing(text, i) PROVE Trailing(json, j)
  <2>1. text[i] = Comma /\ i < n /\ text[i + 1] = Brace
    BY <1>4, Zenon DEF Trailing
  <2>2. i + 1 \in 1 .. n
    BY <1>1, <2>1
  <2>3. i + 1 \in Code(text)
    <3> SUFFICES ASSUME NEW b \in 1 .. i + 1, SlashesAt(text, b), \A k \in b .. i + 1 : text[k] # LF PROVE FALSE
      BY <2>2, Zenon DEF Code, Commented
    <3>1. b # i + 1
      BY <2>1 DEF SlashesAt, Brace, Slash
    <3>2. b \in 1 .. i /\ \A k \in b .. i : text[k] # LF
      BY <3>1
    <3>3. Commented(text, i)
      BY <3>2, Zenon DEF Commented
    <3>4. QED
      BY <3>3, Zenon DEF Code
  <2>4. j < Len(json) /\ json[j + 1] = text[i + 1]
    BY <1>2, <1>3, <2>2, <2>3, Zenon
  <2>5. QED
    BY <1>2, <2>1, <2>4, Zenon DEF Trailing
<1>5. ASSUME Trailing(json, j) PROVE Trailing(text, i)
  <2>1. json[j] = Comma /\ j < Len(json) /\ json[j + 1] = Brace
    BY <1>5, Zenon DEF Trailing
  <2>2. j \in Nat /\ j + 1 \in 1 .. Len(json)
    BY <1>1, <1>2, <2>1 DEF j
  <2>3. PICK k \in 1 .. n : k \in Code(text) /\ j + 1 = off[k] + 1 /\ json[j + 1] = text[k]
    <3>1. ComesFrom(text, Code(text), json, off, j + 1)
      BY <2>2, KeptFrom, Zenon
    <3>2. QED
      BY <3>1, Zenon DEF ComesFrom
  <2>4. off[k] = j /\ text[k] = Brace
    <3>1. off[k] \in Nat
      BY <1>1
    <3>2. QED
      BY <2>1, <2>2, <2>3, <3>1
  <2>5. k > i
    <3> SUFFICES ASSUME k <= i PROVE FALSE
      BY <1>1
    <3>1. k \in 1 .. n + 1 /\ i \in k .. n + 1
      BY <1>1
    <3>2. off[k] <= off[i]
      BY <3>1, KeptMono
    <3>3. QED
      BY <1>2, <2>4, <3>2 DEF j
  <2>6. i < n /\ i + 1 \in 1 .. n
    BY <1>1, <2>5
  <2>7. CASE k = i + 1
    BY <1>2, <2>1, <2>4, <2>6, <2>7, Zenon DEF Trailing
  <2>8. CASE k # i + 1
    <3> DEFINE q == k - 1
    <3>1. q \in 1 .. n /\ i + 1 \in 1 .. n + 1 /\ q \in i + 1 .. n + 1 /\ q + 1 = k
      BY <1>1, <2>5, <2>8
    <3> HIDE DEF q
    <3>2. off[i + 1] <= off[q]
      BY <3>1, KeptMono
    <3>3. q \notin Code(text)
      <4> SUFFICES ASSUME q \in Code(text) PROVE FALSE
        OBVIOUS
      <4>1. off[q + 1] = off[q] + 1
        BY <3>1, Zenon DEF KeptAt
      <4>2. off[q] \in Nat
        BY <1>1, <3>1
      <4>3. QED
        <5>1. off[i + 1] = j /\ off[q + 1] = j
          BY <1>2, <2>4, <3>1, Zenon
        <5>2. j <= off[q] /\ off[q] + 1 = j
          BY <3>2, <4>1, <5>1, Zenon
        <5>3. QED
          BY <2>2, <4>2, <5>2
    <3>4. PICK b \in 1 .. q : SlashesAt(text, b) /\ \A d \in b .. q : text[d] # LF
      BY <3>1, <3>3, Zenon DEF Code, Commented
    <3>5. text[k] # LF
      BY <2>4 DEF Brace, LF
    <3>6. b \in 1 .. k /\ \A d \in b .. k : text[d] # LF
      <4>1. b \in 1 .. k
        BY <1>1, <3>1
      <4>2. ASSUME NEW d \in b .. k PROVE text[d] # LF
        <5>1. CASE d = k
          BY <3>5, <5>1
        <5>2. CASE d # k
          <6>1. d \in b .. q
            BY <1>1, <3>1, <5>2
          <6>2. QED
            BY <3>4, <6>1, Zenon
        <5>3. QED
          BY <5>1, <5>2
      <4>3. QED
        BY <4>1, <4>2
    <3>7. Commented(text, k)
      BY <3>4, <3>6, Zenon DEF Commented
    <3>8. QED
      BY <2>3, <3>7, Zenon DEF Code
  <2>9. QED
    BY <2>7, <2>8
<1>6. QED
  BY <1>4, <1>5 DEF j

\* No comma stands before a "]", and a comma that JsonParser means to take out.
CommasFit(text) == \A i \in 1 .. Len(text) - 1 : text[i] = Comma => text[i + 1] # Close
Dangling(text, i) == text[i] = Comma /\ i < Len(text) /\ text[i + 1] \in {Brace, Close}

\* Of a text with no comma before a "]" (those commas stay, against the code's own
\* comment), JsonParser takes out a byte exactly if "//" stands before it in its
\* line or it is a comma before "}": the second pass sees the commas the text has,
\* though the first has taken the comments out.
THEOREM JsonIsExact == \A text \in Seq(0 .. 255) : JsonIsRight(text)
<1> SUFFICES ASSUME NEW text \in Seq(0 .. 255) PROVE JsonIsRight(text)
  OBVIOUS
<1> DEFINE n == Len(text)
           json == RemoveComments(text)
           J == {i \in 1 .. Len(json) : ~Trailing(json, i)}
           K == {i \in 1 .. n : ~Commented(text, i) /\ ~Trailing(text, i)}
           res == FlattenSeq(Kept(json, J))
           ref == FlattenSeq(Kept(text, K))
<1>1. n \in Nat /\ DOMAIN text = 1 .. n
  BY LenProperties, Zenon
<1>2. PICK off1 : KeptAt(text, Code(text), json, off1)
  BY CommentsAreRemoved, KeptIs, Zenon
<1>3. json \in Seq(0 .. 255) /\ Len(json) \in Nat /\ DOMAIN json = 1 .. Len(json)
  <2>1. json \in Seq(0 .. 255)
    BY <1>2, Zenon DEF KeptAt
  <2> HIDE DEF json
  <2>2. QED
    BY <2>1, LenProperties, Zenon
<1>4. PreprocessJson(text) = res
  <2>1. PreprocessJson(text) = FlattenSeq([i \in DOMAIN json |-> IF Trailing(json, i) THEN <<>> ELSE <<json[i]>>])
    BY Zenon DEF PreprocessJson, Trailing
  <2> HIDE DEF json
  <2>2. [i \in DOMAIN json |-> IF Trailing(json, i) THEN <<>> ELSE <<json[i]>>] = Kept(json, J)
    <3> SUFFICES ASSUME NEW i \in 1 .. Len(json)
                 PROVE  (IF Trailing(json, i) THEN <<>> ELSE <<json[i]>>) = IF i \in J THEN <<json[i]>> ELSE <<>>
      BY <1>3, Zenon DEF Kept
    <3>1. i \in J <=> ~Trailing(json, i)
      BY Zenon
    <3> HIDE DEF J
    <3>2. QED
      BY <3>1, Zenon
  <2>3. QED
    BY <2>1, <2>2, Zenon
<1>5. CommasFit(text) => WithoutCommentsAndCommas(text) = ref
  <2> SUFFICES ASSUME CommasFit(text) PROVE WithoutCommentsAndCommas(text) = ref
    OBVIOUS
  <2>1. WithoutCommentsAndCommas(text) =
          FlattenSeq([i \in DOMAIN text |-> IF Commented(text, i) \/ Dangling(text, i) THEN <<>> ELSE <<text[i]>>])
    BY DEF WithoutCommentsAndCommas, Commented, Dangling, SlashesAt
  <2>2. [i \in DOMAIN text |-> IF Commented(text, i) \/ Dangling(text, i) THEN <<>> ELSE <<text[i]>>] = Kept(text, K)
    <3> SUFFICES ASSUME NEW i \in 1 .. n
                 PROVE  (IF Commented(text, i) \/ Dangling(text, i) THEN <<>> ELSE <<text[i]>>)
                          = IF i \in K THEN <<text[i]>> ELSE <<>>
      BY <1>1, Zenon DEF Kept
    <3>1. i < n => i \in 1 .. n - 1
      BY <1>1
    <3>2. Dangling(text, i) <=> Trailing(text, i)
      BY <3>1, Zenon DEF CommasFit, Dangling, Trailing
    <3>3. i \in K <=> ~Commented(text, i) /\ ~Dangling(text, i)
      BY <3>2, Zenon
    <3> HIDE DEF K
    <3>4. QED
      BY <3>3, Zenon
  <2>3. QED
    BY <2>1, <2>2, Zenon
<1> HIDE DEF json
<1>6. ASSUME NEW i \in 1 .. n, i \in Code(text) PROVE off1[i] + 1 \in J <=> i \in K
  <2>1. off1[i + 1] = off1[i] + 1 /\ off1[i + 1] <= Len(json)
    BY <1>2, <1>6, Zenon DEF KeptAt
  <2>2. off1[i] + 1 \in 1 .. Len(json)
    <3>1. off1 \in [1 .. n + 1 -> Nat]
      BY <1>2, Zenon DEF KeptAt
    <3>2. off1[i] \in Nat
      BY <1>1, <3>1
    <3>3. QED
      BY <1>3, <2>1, <3>2
  <2>3. Trailing(text, i) <=> Trailing(json, off1[i] + 1)
    BY <1>2, <1>6, TrailingStays, Zenon
  <2>4. ~Commented(text, i)
    BY <1>6, Zenon DEF Code
  <2>5. QED
    BY <2>2, <2>3, <2>4, Zenon
<1>7. ASSUME NEW i \in 1 .. n, i \notin Code(text) PROVE i \notin K
  BY <1>7, Zenon DEF Code
<1> HIDE DEF J, K
<1>8. res = ref
  <2>1. KeptOf(text, Code(text), off1, J, K)
    BY <1>6, <1>7, Zenon DEF KeptOf
  <2> HIDE DEF n
  <2>2. SameKept(json, J, text, K)
    BY <1>2, <2>1, KeptTwice, Zenon
  <2>3. QED
    BY <2>2, Zenon DEF SameKept
<1>9. JsonIsRight(text) <=> (CommasFit(text) => PreprocessJson(text) = WithoutCommentsAndCommas(text))
  BY DEF JsonIsRight, CommasFit
<1>10. QED
  BY <1>4, <1>5, <1>8, <1>9, Zenon

-----------------------------------------------------------------------------
(* Plain texts. *)

\* The places of a text that hold no white space.
Solid(text) == {i \in 1 .. Len(text) : ~IsSpace(text[i])}

\* Two texts have the same bytes but for white space, and white space between the
\* same of them.
Match(t, u, R) ==
  /\ \A i \in Solid(t) : \E j \in Solid(u) : <<i, j>> \in R
  /\ \A j \in Solid(u) : \E i \in Solid(t) : <<i, j>> \in R
  /\ \A i, k \in Solid(t), j, l \in Solid(u) : <<i, j>> \in R /\ <<k, l>> \in R => (i = k <=> j = l)
  /\ \A i \in Solid(t), j \in Solid(u) : <<i, j>> \in R =>
       /\ t[i] = u[j] /\ (i + 1 \in Solid(t) <=> j + 1 \in Solid(u))
       /\ i + 1 \in Solid(t) => <<i + 1, j + 1>> \in R

LEMMA MatchRun ==
  ASSUME NEW t \in Seq(0 .. 255), NEW u \in Seq(0 .. 255), NEW R, Match(t, u, R),
         NEW i \in Solid(t), NEW j \in Solid(u), <<i, j>> \in R,
         NEW d \in Nat, \A k \in 1 .. d : i + k \in Solid(t)
  PROVE  i + d \in Solid(t) /\ j + d \in Solid(u) /\ <<i + d, j + d>> \in R
<1> DEFINE P == {e \in Nat : e <= d => i + e \in Solid(t) /\ j + e \in Solid(u) /\ <<i + e, j + e>> \in R}
<1>1. i \in Nat /\ j \in Nat
  BY DEF Solid
<1>2. 0 \in P
  <2>1. i + 0 = i /\ j + 0 = j /\ 0 \in Nat
    BY <1>1
  <2>2. QED
    BY <2>1, Zenon
<1>3. ASSUME NEW e \in Nat, e \in P PROVE e + 1 \in P
  <2>0. e + 1 \in Nat
    OBVIOUS
  <2> SUFFICES ASSUME e + 1 <= d
               PROVE  i + (e + 1) \in Solid(t) /\ j + (e + 1) \in Solid(u) /\ <<i + (e + 1), j + (e + 1)>> \in R
    BY <2>0, Zenon
  <2>1. e <= d /\ e + 1 \in 1 .. d
    OBVIOUS
  <2>2. i + (e + 1) = (i + e) + 1 /\ j + (e + 1) = (j + e) + 1
    BY <1>1
  <2>3. i + e \in Solid(t) /\ j + e \in Solid(u) /\ <<i + e, j + e>> \in R
    BY <1>3, <2>1, Zenon
  <2>4. (i + e) + 1 \in Solid(t)
    BY <2>1, <2>2, Zenon
  <2>5. (j + e) + 1 \in Solid(u) /\ <<(i + e) + 1, (j + e) + 1>> \in R
    BY <2>3, <2>4, Zenon DEF Match
  <2>6. QED
    BY <2>2, <2>4, <2>5, Zenon
<1> HIDE DEF P
<1>4. d \in P
  BY <1>2, <1>3, Induction, Zenon
<1>5. d <= d
  OBVIOUS
<1>6. QED
  BY <1>4, <1>5, Zenon DEF P

LEMMA MatchBack ==
  ASSUME NEW t, NEW u, NEW R, Match(t, u, R)
  PROVE  \E Q : Match(u, t, Q)
<1> DEFINE Q == {p \in Solid(u) \X Solid(t) : <<p[2], p[1]>> \in R}
<1>1. ASSUME NEW j \in Solid(u), NEW i \in Solid(t) PROVE <<j, i>> \in Q <=> <<i, j>> \in R
  OBVIOUS
<1> HIDE DEF Q
<1>2. \A j \in Solid(u) : \E i \in Solid(t) : <<j, i>> \in Q
  BY <1>1, Zenon DEF Match
<1>3. \A i \in Solid(t) : \E j \in Solid(u) : <<j, i>> \in Q
  BY <1>1, Zenon DEF Match
<1>4. ASSUME NEW i \in Solid(u), NEW k \in Solid(u), NEW j \in Solid(t), NEW l \in Solid(t),
             <<i, j>> \in Q, <<k, l>> \in Q
      PROVE  i = k <=> j = l
  <2>1. <<j, i>> \in R /\ <<l, k>> \in R
    BY <1>1, <1>4, Zenon
  <2>2. j = l <=> i = k
    BY <2>1, Zenon DEF Match
  <2>3. QED
    BY <2>2
<1>5. ASSUME NEW j \in Solid(u), NEW i \in Solid(t), <<j, i>> \in Q
      PROVE  /\ u[j] = t[i] /\ (j + 1 \in Solid(u) <=> i + 1 \in Solid(t))
             /\ j + 1 \in Solid(u) => <<j + 1, i + 1>> \in Q
  <2>1. <<i, j>> \in R
    BY <1>1, <1>5
  <2>2. /\ t[i] = u[j] /\ (i + 1 \in Solid(t) <=> j + 1 \in Solid(u))
        /\ i + 1 \in Solid(t) => <<i + 1, j + 1>> \in R
    BY <2>1, Zenon DEF Match
  <2>3. QED
    BY <1>1, <2>2, Zenon
<1>6. Match(u, t, Q)
  BY <1>2, <1>3, <1>4, <1>5, ZenonT(60) DEF Match
<1>7. QED
  BY <1>6, Zenon

\* White space is a character of its own, and what follows a leading byte is none.
LEMMA SpaceIs ==
  ASSUME NEW c \in 0 .. 255
  PROVE  /\ IsSpace(c) => ~Follows(c) /\ Lead(c) = 1
         /\ Follows(c) => ~IsSpace(c)
BY DEF IsSpace, Follows, Lead, Space

LEMMA MatchForth ==
  ASSUME NEW t \in Seq(0 .. 255), NEW u \in Seq(0 .. 255), NEW R, Match(t, u, R), Utf8From(t, 1)
  PROVE  Utf8From(u, 1)
<1>1. /\ Len(t) \in Nat /\ \A i \in 1 .. Len(t) : t[i] \in 0 .. 255
      /\ Len(u) \in Nat /\ \A i \in 1 .. Len(u) : u[i] \in 0 .. 255
  BY ElementOfSeq, LenProperties, ZenonT(60)
<1>2. ASSUME NEW i \in Solid(t), NEW j \in Solid(u), <<i, j>> \in R, ~Follows(t[i])
      PROVE  /\ Lead(t[i]) \in 1 .. 4
             /\ \A d \in Nat : d < Lead(t[i]) =>
                  i + d \in Solid(t) /\ j + d \in Solid(u) /\ <<i + d, j + d>> \in R /\ t[i + d] = u[j + d]
             /\ \A d \in Nat : d < Lead(t[i]) /\ d # 0 => Follows(t[i + d])
  <2>1. i \in 1 .. Len(t) /\ j \in 1 .. Len(u) /\ t[i] \in 0 .. 255
    BY <1>1 DEF Solid
  <2>2. Lead(t[i]) # 0 /\ \A k \in i + 1 .. i + Lead(t[i]) - 1 : k <= Len(t) /\ Follows(t[k])
    BY <1>2, <2>1, Zenon DEF Utf8From
  <2>3. Lead(t[i]) \in 0 .. 4
    BY <2>1, LeadIs, Zenon
  <2>4. ASSUME NEW k \in Nat, k # 0, k < Lead(t[i]) PROVE i + k \in Solid(t) /\ Follows(t[i + k])
    <3>1. i + k \in i + 1 .. i + Lead(t[i]) - 1 /\ i + k >= 1
      BY <2>1, <2>3, <2>4
    <3>2. i + k <= Len(t) /\ Follows(t[i + k])
      BY <2>2, <3>1, Zenon
    <3>3. i + k \in 1 .. Len(t)
      BY <1>1, <2>1, <3>1, <3>2
    <3>4. ~IsSpace(t[i + k])
      BY <1>1, <3>2, <3>3, SpaceIs, Zenon
    <3>5. QED
      BY <3>2, <3>3, <3>4, Zenon DEF Solid
  <2>5. ASSUME NEW d \in Nat, d < Lead(t[i])
        PROVE  i + d \in Solid(t) /\ j + d \in Solid(u) /\ <<i + d, j + d>> \in R /\ t[i + d] = u[j + d]
    <3>1. ASSUME NEW k \in 1 .. d PROVE i + k \in Solid(t)
      <4>1. k \in Nat /\ k # 0 /\ k < Lead(t[i])
        BY <2>3, <2>5
      <4>2. QED
        BY <2>4, <4>1, Zenon
    <3>2. i + d \in Solid(t) /\ j + d \in Solid(u) /\ <<i + d, j + d>> \in R
      BY <1>2, <3>1, MatchRun, Zenon
    <3>3. QED
      BY <3>2, Zenon DEF Match
  <2>6. Lead(t[i]) \in 1 .. 4
    BY <2>2, <2>3
  <2>7. QED
    BY <2>4, <2>5, <2>6, Zenon
<1>3. ASSUME NEW k \in 1 .. Len(u), ~Follows(u[k])
      PROVE  Lead(u[k]) # 0 /\ \A l \in k + 1 .. k + Lead(u[k]) - 1 : l <= Len(u) /\ Follows(u[l])
  <2>1. CASE IsSpace(u[k])
    <3>1. Lead(u[k]) = 1
      BY <1>1, <2>1, SpaceIs, Zenon
    <3>2. QED
      BY <3>1
  <2>2. CASE ~IsSpace(u[k])
    <3>1. k \in Solid(u)
      BY <2>2, Zenon DEF Solid
    <3>2. PICK i \in Solid(t) : <<i, k>> \in R
      BY <3>1, Zenon DEF Match
    <3>3. t[i] = u[k]
      BY <3>1, <3>2, Zenon DEF Match
    <3>4. /\ Lead(t[i]) \in 1 .. 4
          /\ \A d \in Nat : d < Lead(t[i]) => k + d \in Solid(u) /\ t[i + d] = u[k + d]
          /\ \A d \in Nat : d < Lead(t[i]) /\ d # 0 => Follows(t[i + d])
      BY <1>2, <1>3, <3>1, <3>2, <3>3, Zenon
    <3>5. ASSUME NEW l \in k + 1 .. k + Lead(u[k]) - 1 PROVE l <= Len(u) /\ Follows(u[l])
      <4> DEFINE d == l - k
      <4>1. d \in Nat /\ d < Lead(t[i]) /\ d # 0 /\ k + d = l
        BY <3>3, <3>4
      <4> HIDE DEF d
      <4>2. l \in Solid(u) /\ t[i + d] = u[l] /\ Follows(t[i + d])
        BY <3>4, <4>1, Zenon
      <4>3. l <= Len(u)
        BY <1>1, <4>2 DEF Solid
      <4>4. QED
        BY <4>2, <4>3, Zenon
    <3>6. Lead(u[k]) # 0
      BY <3>3, <3>4
    <3>7. QED
      BY <3>5, <3>6, Zenon
  <2>3. QED
    BY <2>1, <2>2
<1>4. ASSUME NEW l \in 1 .. Len(u), Follows(u[l])
      PROVE  \E k \in 1 .. l - 1 : ~Follows(u[k]) /\ l < k + Lead(u[k])
  <2>1. l \in Solid(u)
    BY <1>1, <1>4, SpaceIs, Zenon DEF Solid
  <2>2. PICK i \in Solid(t) : <<i, l>> \in R
    BY <2>1, Zenon DEF Match
  <2>3. t[i] = u[l] /\ i \in 1 .. Len(t)
    BY <2>1, <2>2, Zenon DEF Match, Solid
  <2>4. PICK h \in 1 .. i - 1 : ~Follows(t[h]) /\ i < h + Lead(t[h])
    BY <1>4, <2>3, Zenon DEF Utf8From
  <2>5. h \in 1 .. Len(t) /\ t[h] \in 0 .. 255
    BY <1>1, <2>3
  <2>6. ~IsSpace(t[h])
    <3> SUFFICES ASSUME IsSpace(t[h]) PROVE FALSE
      OBVIOUS
    <3>1. Lead(t[h]) = 1
      BY <2>5, SpaceIs, Zenon
    <3>2. QED
      BY <2>3, <2>4, <3>1
  <2>7. h \in Solid(t)
    BY <2>5, <2>6, Zenon DEF Solid
  <2>8. PICK k \in Solid(u) : <<h, k>> \in R
    BY <2>7, Zenon DEF Match
  <2> DEFINE d == i - h
  <2>9. Lead(t[h]) \in 1 .. 4
    BY <1>2, <2>4, <2>7, <2>8, Zenon
  <2>10. d \in Nat /\ d < Lead(t[h]) /\ d # 0 /\ h + d = i
    BY <2>3, <2>4, <2>5, <2>9
  <2> HIDE DEF d
  <2>11. k + d \in Solid(u) /\ <<i, k + d>> \in R
    BY <1>2, <2>4, <2>7, <2>8, <2>10, Zenon
  <2>12. k + d = l
    BY <2>1, <2>2, <2>11, Zenon DEF Match
  <2>13. u[k] = t[h] /\ k \in 1 .. Len(u)
    BY <2>7, <2>8, Zenon DEF Match, Solid
  <2>14. k \in 1 .. l - 1 /\ l < k + Lead(u[k])
    BY <1>1, <2>9, <2>10, <2>12, <2>13
  <2>15. QED
    BY <2>4, <2>13, <2>14, Zenon
<1>5. QED
  BY <1>3, <1>4, Zenon DEF Utf8From

\* Whether a text is UTF-8 does not depend on its white space.
LEMMA MatchSame ==
  ASSUME NEW t \in Seq(0 .. 255), NEW u \in Seq(0 .. 255), NEW R, Match(t, u, R)
  PROVE  IsValidUtf8(t) = IsValidUtf8(u)
<1>1. Utf8From(t, 1) <=> Utf8From(u, 1)
  BY MatchForth, MatchBack, Zenon
<1>2. ASSUME NEW v \in Seq(0 .. 255) PROVE IsValidUtf8(v) = Utf8From(v, 1)
  <2>1. Utf8IsRight(v) /\ DOMAIN v = 1 .. Len(v)
    BY Utf8IsExact, LenProperties, Zenon
  <2>2. QED
    BY <2>1, Zenon DEF Utf8IsRight, Utf8From
<1>3. Utf8From(t, 1) = Utf8From(u, 1)
  BY <1>1, Zenon DEF Utf8From
<1>4. QED
  BY <1>2, <1>3, Zenon

\* A CR with its LF, which CrlfToLf makes an LF; the other bytes stay.
CrlfAt(text, i) == i < Len(text) /\ text[i] = CR /\ text[i + 1] = LF
Lines(text) == {i \in 1 .. Len(text) : ~CrlfAt(text, i)}

LinesAt(text) == [i \in 1 .. Len(text) |-> IF CrlfAt(text, i) THEN <<LF>> ELSE <<text[i]>>]
LinesBy(text) == [i \in 1 .. Len(text) |-> IF CrlfAt(text, i) THEN 2 ELSE 1]

LEMMA LineSteps ==
  ASSUME NEW text \in Seq(0 .. 255)
  PROVE  Steps(Len(text), LinesBy(text))
<1> SUFFICES ASSUME NEW i \in 1 .. Len(text)
             PROVE  /\ LinesBy(text)[i] \in Nat /\ LinesBy(text)[i] >= 1
                    /\ i + LinesBy(text)[i] <= Len(text) + 1
  BY Zenon DEF Steps
<1>1. Len(text) \in Nat
  OBVIOUS
<1>2. LinesBy(text)[i] = IF CrlfAt(text, i) THEN 2 ELSE 1
  BY Zenon DEF LinesBy
<1>3. CrlfAt(text, i) => i < Len(text)
  BY DEF CrlfAt
<1>4. QED
  BY <1>1, <1>2, <1>3

LEMMA CrlfToLfWalks ==
  ASSUME NEW text \in Seq(0 .. 255)
  PROVE  \E g : Walk(Len(text), LinesAt(text), LinesBy(text), g) /\ CrlfToLf(text) = g[1]
<1> DEFINE n == Len(text)
           put(g, i) ==
             IF i > n THEN <<>>
             ELSE IF i < n /\ text[i] = CR /\ text[i + 1] = LF THEN <<LF>> \o g[i + 2]
             ELSE <<text[i]>> \o g[i + 1]
           body(g) == [i \in 1 .. n + 1 |-> put(g, i)]
           walk(g) == [i \in 1 .. n + 1 |-> IF i > n THEN <<>> ELSE Then(LinesAt(text)[i], g[i + LinesBy(text)[i]])]
<1>1. CrlfToLf(text) = (CHOOSE g : g = body(g))[1]
  BY Zenon DEF CrlfToLf
<1>2. n \in Nat
  OBVIOUS
<1>3. ASSUME NEW g PROVE body(g) = walk(g)
  <2> SUFFICES ASSUME NEW i \in 1 .. n + 1
               PROVE  put(g, i) = IF i > n THEN <<>> ELSE Then(LinesAt(text)[i], g[i + LinesBy(text)[i]])
    <3> HIDE DEF put
    <3>1. QED
      BY Zenon
  <2>1. CASE i > n
    BY <2>1
  <2>2. CASE ~(i > n)
    <3>1. i \in 1 .. n
      BY <1>2, <2>2
    <3>2. CASE CrlfAt(text, i)
      <4>1. LinesAt(text)[i] = <<LF>> /\ LinesBy(text)[i] = 2
        BY <3>1, <3>2, Zenon DEF LinesAt, LinesBy
      <4>2. Then(LinesAt(text)[i], g[i + 2]) = <<LF>> \o g[i + 2]
        BY <4>1, NotEmpty, Zenon DEF Then
      <4>3. QED
        BY <2>2, <3>2, <4>1, <4>2, Zenon DEF CrlfAt
    <3>3. CASE ~CrlfAt(text, i)
      <4>1. LinesAt(text)[i] = <<text[i]>> /\ LinesBy(text)[i] = 1
        BY <3>1, <3>3, Zenon DEF LinesAt, LinesBy
      <4>2. Then(LinesAt(text)[i], g[i + 1]) = <<text[i]>> \o g[i + 1]
        BY <4>1, NotEmpty, Zenon DEF Then
      <4>3. QED
        BY <2>2, <3>3, <4>1, <4>2, Zenon DEF CrlfAt
    <3>4. QED
      BY <3>2, <3>3
  <2>3. QED
    BY <2>1, <2>2
<1>4. PICK g : Walk(n, LinesAt(text), LinesBy(text), g)
  BY <1>2, LineSteps, WalkExists, Zenon
<1>5. ASSUME NEW f PROVE f = body(f) <=> Walk(n, LinesAt(text), LinesBy(text), f)
  <2> HIDE DEF body
  <2>1. Walk(n, LinesAt(text), LinesBy(text), f) <=> f = walk(f)
    BY Zenon DEF Walk
  <2> HIDE DEF walk
  <2>2. QED
    BY <1>3, <2>1, Zenon
<1> HIDE DEF body, walk, n
<1>6. g = body(g)
  BY <1>4, <1>5, Zenon
<1> DEFINE h == CHOOSE f : f = body(f)
<1>7. h = body(h)
  BY <1>6, Zenon
<1>8. CrlfToLf(text) = h[1]
  BY <1>1, Zenon
<1> HIDE DEF h
<1>9. Walk(n, LinesAt(text), LinesBy(text), h)
  BY <1>5, <1>7, Zenon
<1>10. QED
  BY <1>8, <1>9, Zenon DEF n

\* What follows a place from which a byte is kept.
NextIs(text, flat, off, k) ==
  SubSeq(flat, off[k] + 1, Len(flat)) = <<text[k]>> \o SubSeq(flat, off[k + 1] + 1, Len(flat))

LEMMA KeptNext ==
  ASSUME NEW text \in Seq(0 .. 255), NEW K, NEW flat, NEW off, KeptAt(text, K, flat, off),
         NEW k \in 1 .. Len(text), k \in K
  PROVE  NextIs(text, flat, off, k)
<1>1. Len(text) \in Nat /\ off \in [1 .. Len(text) + 1 -> Nat] /\ flat \in Seq(0 .. 255)
  BY DEF KeptAt
<1>2. off[k + 1] = off[k] + 1 /\ off[k + 1] <= Len(flat) /\ flat[off[k] + 1] = text[k]
  BY Zenon DEF KeptAt
<1>3. off[k] \in Nat /\ Len(flat) \in Nat
  BY <1>1
<1>4. off[k] + 1 \in 1 .. Len(flat) /\ Len(flat) \in off[k] + 1 .. Len(flat)
  BY <1>2, <1>3
<1>5. SubSeq(flat, off[k] + 1, Len(flat)) = <<flat[off[k] + 1]>> \o SubSeq(flat, (off[k] + 1) + 1, Len(flat))
  BY <1>1, <1>4, SubSeqRecursiveFirst, Zenon
<1>6. QED
  BY <1>2, <1>5, Zenon DEF NextIs

\* What CrlfToLf leaves are the bytes that are no CR before an LF.
LEMMA LinesAreKept ==
  ASSUME NEW text \in Seq(0 .. 255)
  PROVE  CrlfToLf(text) = FlattenSeq(Kept(text, Lines(text)))
<1> DEFINE n == Len(text)
           flat == FlattenSeq(Kept(text, Lines(text)))
           L == Len(flat)
<1>1. n \in Nat
  OBVIOUS
<1>2. PICK off : KeptAt(text, Lines(text), flat, off)
  BY KeptIs, Zenon
<1> HIDE DEF flat
<1>3. off \in [1 .. n + 1 -> Nat] /\ off[1] = 0 /\ flat \in Seq(0 .. 255) /\ L = off[n + 1] /\ L \in Nat
  BY <1>2 DEF KeptAt
<1>4. PICK g : Walk(n, LinesAt(text), LinesBy(text), g) /\ CrlfToLf(text) = g[1]
  BY CrlfToLfWalks, Zenon
<1>5. WalkIs(n, LinesAt(text), LinesBy(text), g)
  BY <1>1, <1>4, WalkAt, Zenon
<1> DEFINE P == {m \in Nat : \A i \in 1 .. n + 1 : i >= n + 1 - m => g[i] = SubSeq(flat, off[i] + 1, L)}
<1> HIDE DEF L
<1>6. 0 \in P
  <2>1. g[n + 1] = <<>>
    BY <1>5, Zenon DEF WalkIs
  <2>2. L + 1 \in Int /\ L \in Int /\ L < L + 1
    BY <1>3
  <2>3. SubSeq(flat, off[n + 1] + 1, L) = <<>>
    BY <1>3, <2>2, SubSeqEmpty, Zenon
  <2>4. ASSUME NEW i \in 1 .. n + 1, i >= n + 1 - 0 PROVE i = n + 1
    BY <1>1, <2>4
  <2>5. 0 \in Nat
    OBVIOUS
  <2>6. QED
    BY <2>1, <2>3, <2>4, <2>5, Zenon
<1>7. ASSUME NEW m \in Nat, m \in P PROVE m + 1 \in P
  <2>0. m + 1 \in Nat
    OBVIOUS
  <2> SUFFICES ASSUME NEW i \in 1 .. n + 1, i >= n + 1 - (m + 1)
               PROVE  g[i] = SubSeq(flat, off[i] + 1, L)
    BY <2>0, Zenon
  <2>1. CASE i >= n + 1 - m
    BY <1>7, <2>1, Zenon
  <2>2. CASE ~(i >= n + 1 - m)
    <3>1. i \in 1 .. n /\ i = n - m
      BY <1>1, <2>2
    <3>2. g[i] = Then(LinesAt(text)[i], g[i + LinesBy(text)[i]])
      BY <1>5, <3>1, Zenon DEF WalkIs
    <3>3. CASE CrlfAt(text, i)
      <4> DEFINE e == i + 1
      <4>1. e \in 1 .. n /\ e + 1 \in 1 .. n + 1 /\ e + 1 >= n + 1 - m /\ i + 2 = e + 1
        BY <1>1, <3>1, <3>3 DEF CrlfAt
      <4>2. text[e] = LF /\ i \notin Lines(text) /\ e \in Lines(text)
        BY <3>3, <4>1 DEF CrlfAt, Lines, LF, CR
      <4>3. LinesAt(text)[i] = <<LF>> /\ LinesBy(text)[i] = 2
        BY <3>1, <3>3, Zenon DEF LinesAt, LinesBy
      <4>4. off[e] = off[i]
        BY <1>2, <3>1, <4>2, Zenon DEF KeptAt
      <4> HIDE DEF e
      <4>5. g[i] = <<LF>> \o g[e + 1]
        BY <3>2, <4>1, <4>3, NotEmpty, Zenon DEF Then
      <4>6. g[e + 1] = SubSeq(flat, off[e + 1] + 1, L)
        BY <1>7, <4>1, Zenon
      <4>7. SubSeq(flat, off[e] + 1, L) = <<text[e]>> \o SubSeq(flat, off[e + 1] + 1, L)
        <5>1. NextIs(text, flat, off, e)
          BY <1>2, <4>1, <4>2, KeptNext, Zenon
        <5>2. QED
          BY <5>1, Zenon DEF L, NextIs
      <4>8. QED
        BY <4>2, <4>4, <4>5, <4>6, <4>7, Zenon
    <3>4. CASE ~CrlfAt(text, i)
      <4>1. i \in Lines(text)
        BY <3>1, <3>4, Zenon DEF Lines
      <4>2. LinesAt(text)[i] = <<text[i]>> /\ LinesBy(text)[i] = 1
        BY <3>1, <3>4, Zenon DEF LinesAt, LinesBy
      <4>3. g[i] = <<text[i]>> \o g[i + 1]
        BY <3>2, <4>2, NotEmpty, Zenon DEF Then
      <4>4. i + 1 \in 1 .. n + 1 /\ i + 1 >= n + 1 - m
        BY <1>1, <3>1
      <4>5. g[i + 1] = SubSeq(flat, off[i + 1] + 1, L)
        BY <1>7, <4>4, Zenon
      <4>6. SubSeq(flat, off[i] + 1, L) = <<text[i]>> \o SubSeq(flat, off[i + 1] + 1, L)
        <5>1. NextIs(text, flat, off, i)
          BY <1>2, <3>1, <4>1, KeptNext, Zenon
        <5>2. QED
          BY <5>1, Zenon DEF L, NextIs
      <4>7. QED
        BY <4>3, <4>5, <4>6, Zenon
    <3>5. QED
      BY <3>3, <3>4
  <2>3. QED
    BY <2>1, <2>2
<1> HIDE DEF P
<1>8. n \in P
  BY <1>1, <1>6, <1>7, Induction, Zenon
<1>9. 1 \in 1 .. n + 1 /\ 1 >= n + 1 - n
  BY <1>1
<1>10. g[1] = SubSeq(flat, off[1] + 1, L)
  BY <1>8, <1>9, Zenon DEF P
<1>11. off[1] + 1 = 1
  BY <1>3
<1>12. SubSeq(flat, 1, L) = flat
  BY <1>3, SubSeqFull, Zenon DEF L
<1>13. QED
  BY <1>4, <1>10, <1>11, <1>12, Zenon DEF flat

\* A text without a CR stays as it is.
LEMMA LinesStay ==
  ASSUME NEW text \in Seq(0 .. 255), \A i \in 1 .. Len(text) : text[i] # CR
  PROVE  NormalizeLineEndings(text) = text
<1> DEFINE n == Len(text)
           flat == CrlfToLf(text)
<1>1. n \in Nat /\ DOMAIN text = 1 .. n
  BY LenProperties, Zenon
<1>2. PICK off : KeptAt(text, Lines(text), flat, off)
  BY LinesAreKept, KeptIs, Zenon
<1> HIDE DEF flat
<1>3. off \in [1 .. n + 1 -> Nat] /\ off[1] = 0 /\ flat \in Seq(0 .. 255) /\ Len(flat) = off[n + 1]
  BY <1>2, Zenon DEF KeptAt
<1>4. ASSUME NEW k \in 1 .. n PROVE off[k + 1] = off[k] + 1 /\ flat[off[k] + 1] = text[k]
  <2>1. k \in Lines(text)
    BY Zenon DEF Lines, CrlfAt
  <2>2. QED
    BY <1>2, <2>1, Zenon DEF KeptAt
<1> DEFINE P == {d \in Nat : d <= n => off[d + 1] = d}
<1> HIDE DEF n
<1>5. 0 \in P
  BY <1>3
<1>6. ASSUME NEW d \in Nat, d \in P PROVE d + 1 \in P
  <2> SUFFICES ASSUME d + 1 <= n PROVE off[(d + 1) + 1] = d + 1
    OBVIOUS
  <2>1. d <= n /\ d + 1 \in 1 .. n
    BY <1>1
  <2>2. off[d + 1] = d
    BY <1>6, <2>1
  <2>3. off[(d + 1) + 1] = off[d + 1] + 1
    BY <1>4, <2>1, Zenon
  <2>4. QED
    BY <2>2, <2>3
<1> HIDE DEF P
<1>7. ASSUME NEW d \in Nat, d <= n PROVE off[d + 1] = d
  <2>1. d \in P
    BY <1>5, <1>6, Induction, Zenon
  <2>2. QED
    BY <1>7, <2>1 DEF P
<1>8. Len(flat) = n
  BY <1>1, <1>3, <1>7
<1>9. ASSUME NEW k \in 1 .. n PROVE flat[k] = text[k]
  <2>1. k - 1 \in Nat /\ k - 1 <= n /\ (k - 1) + 1 = k
    BY <1>1
  <2>2. off[k] = k - 1
    BY <1>7, <2>1
  <2>3. QED
    BY <1>4, <2>1, <2>2
<1>10. flat = text
  <2>1. Len(flat) = Len(text) /\ \A k \in 1 .. Len(flat) : flat[k] = text[k]
    BY <1>8, <1>9, Zenon DEF n
  <2>2. flat \in Seq(0 .. 255)
    BY <1>3, Zenon
  <2>3. QED
    BY <2>1, <2>2, SeqEqual, Zenon
<1>11. NormalizeLineEndings(text) = [i \in 1 .. n |-> IF text[i] = CR THEN LF ELSE text[i]]
  BY <1>1, <1>10, Zenon DEF NormalizeLineEndings, flat
<1>12. text = [i \in 1 .. n |-> text[i]]
  BY <1>1
<1>13. \A i \in 1 .. n : (IF text[i] = CR THEN LF ELSE text[i]) = text[i]
  BY Zenon DEF n
<1>14. QED
  BY <1>11, <1>12, <1>13, Zenon

\* A map that takes the bytes of a text to the ones of another.
MatchMap(t, u, m) ==
  /\ m \in [Solid(t) -> Solid(u)]
  /\ \A j \in Solid(u) : \E i \in Solid(t) : m[i] = j
  /\ \A i, k \in Solid(t) : m[i] = m[k] => i = k
  /\ \A i \in Solid(t) : /\ t[i] = u[m[i]] /\ (i + 1 \in Solid(t) <=> m[i] + 1 \in Solid(u))
                         /\ i + 1 \in Solid(t) => m[i + 1] = m[i] + 1

LEMMA MatchedBy ==
  ASSUME NEW t \in Seq(0 .. 255), NEW u \in Seq(0 .. 255), NEW m, MatchMap(t, u, m)
  PROVE  IsValidUtf8(t) = IsValidUtf8(u)
<1> DEFINE R == {p \in Solid(t) \X Solid(u) : p[2] = m[p[1]]}
<1>1. ASSUME NEW i \in Solid(t), NEW j \in Solid(u) PROVE <<i, j>> \in R <=> j = m[i]
  OBVIOUS
<1> HIDE DEF R
<1>2. \A i \in Solid(t) : m[i] \in Solid(u)
  BY Zenon DEF MatchMap
<1>3. \A i \in Solid(t) : \E j \in Solid(u) : <<i, j>> \in R
  BY <1>1, <1>2, Zenon
<1>4. \A j \in Solid(u) : \E i \in Solid(t) : <<i, j>> \in R
  BY <1>1, Zenon DEF MatchMap
<1>5. ASSUME NEW i \in Solid(t), NEW k \in Solid(t), NEW j \in Solid(u), NEW l \in Solid(u),
             <<i, j>> \in R, <<k, l>> \in R
      PROVE  i = k <=> j = l
  <2>1. j = m[i] /\ l = m[k]
    BY <1>1, <1>5, Zenon
  <2>2. QED
    BY <2>1, Zenon DEF MatchMap
<1>6. ASSUME NEW i \in Solid(t), NEW j \in Solid(u), <<i, j>> \in R
      PROVE  /\ t[i] = u[j] /\ (i + 1 \in Solid(t) <=> j + 1 \in Solid(u))
             /\ i + 1 \in Solid(t) => <<i + 1, j + 1>> \in R
  <2>1. j = m[i]
    BY <1>1, <1>6, Zenon
  <2>2. /\ t[i] = u[j] /\ (i + 1 \in Solid(t) <=> j + 1 \in Solid(u))
        /\ i + 1 \in Solid(t) => m[i + 1] = j + 1
    BY <2>1, Zenon DEF MatchMap
  <2>3. ASSUME i + 1 \in Solid(t) PROVE <<i + 1, j + 1>> \in R
    BY <1>1, <2>2, <2>3, Zenon
  <2>4. QED
    BY <2>2, <2>3, Zenon
<1>7. Match(t, u, R)
  BY <1>3, <1>4, <1>5, <1>6, Zenon DEF Match
<1>8. QED
  BY <1>7, MatchSame, Zenon

LEMMA CrlfKeepsUtf8 ==
  ASSUME NEW t \in Seq(0 .. 255)
  PROVE  CrlfToLf(t) \in Seq(0 .. 255) /\ IsValidUtf8(t) = IsValidUtf8(CrlfToLf(t))
<1> DEFINE n == Len(t)
           u == CrlfToLf(t)
           K == Lines(t)
<1>1. n \in Nat /\ \A i \in 1 .. n : t[i] \in 0 .. 255
  BY ElementOfSeq, LenProperties, Zenon
<1>2. PICK off : KeptAt(t, K, u, off)
  BY LinesAreKept, KeptIs, Zenon
<1> HIDE DEF u
<1>3. off \in [1 .. n + 1 -> Nat] /\ off[1] = 0 /\ u \in Seq(0 .. 255) /\ Len(u) = off[n + 1]
  BY <1>2, Zenon DEF KeptAt
<1>4. Len(u) \in Nat
  BY <1>3
<1>5. ASSUME NEW k \in 1 .. n, k \in K
      PROVE  off[k] \in Nat /\ off[k + 1] = off[k] + 1 /\ off[k] + 1 \in 1 .. Len(u) /\ u[off[k] + 1] = t[k]
  <2>1. off[k + 1] = off[k] + 1 /\ off[k + 1] <= Len(u) /\ u[off[k] + 1] = t[k]
    BY <1>2, <1>5, Zenon DEF KeptAt
  <2>2. off[k] \in Nat
    BY <1>1, <1>3
  <2>3. QED
    BY <1>4, <2>1, <2>2
<1>6. ASSUME NEW k \in 1 .. n, k \notin K
      PROVE  off[k + 1] = off[k] /\ IsSpace(t[k]) /\ k + 1 \in 1 .. n /\ k + 1 \in K /\ IsSpace(t[k + 1])
  <2>1. off[k + 1] = off[k]
    BY <1>2, <1>6, Zenon DEF KeptAt
  <2>2. k < n /\ t[k] = CR /\ t[k + 1] = LF
    BY <1>6, Zenon DEF Lines, CrlfAt
  <2>3. k + 1 \in 1 .. n
    BY <1>1, <2>2
  <2>4. k + 1 \in K
    BY <2>2, <2>3 DEF Lines, CrlfAt, LF, CR
  <2>5. IsSpace(CR) /\ IsSpace(LF)
    BY DEF IsSpace, CR, LF
  <2>6. QED
    BY <2>1, <2>2, <2>3, <2>4, <2>5, Zenon
<1> DEFINE m == [i \in Solid(t) |-> off[i] + 1]
<1>7. ASSUME NEW i \in Solid(t)
      PROVE  i \in 1 .. n /\ i \in K /\ ~IsSpace(t[i])
  <2>1. i \in 1 .. n /\ ~IsSpace(t[i])
    BY Zenon DEF Solid
  <2>2. QED
    BY <1>6, <2>1, Zenon
<1> HIDE DEF K, n
<1>8. ASSUME NEW i \in Solid(t)
      PROVE  m[i] = off[i] + 1 /\ m[i] \in Solid(u) /\ u[m[i]] = t[i]
  <2>1. m[i] = off[i] + 1
    BY Zenon
  <2> HIDE DEF m
  <2>2. m[i] \in 1 .. Len(u) /\ u[m[i]] = t[i] /\ ~IsSpace(t[i])
    BY <1>5, <1>7, <2>1, Zenon
  <2>3. QED
    BY <2>1, <2>2, Zenon DEF Solid
<1>9. m \in [Solid(t) -> Solid(u)]
  <2>1. \A i \in Solid(t) : off[i] + 1 \in Solid(u)
    BY <1>8, Zenon
  <2>2. QED
    BY <2>1, Zenon
<1> HIDE DEF m
<1>10. ASSUME NEW j \in Solid(u) PROVE \E i \in Solid(t) : m[i] = j
  <2>1. j \in 1 .. Len(u) /\ ~IsSpace(u[j])
    BY Zenon DEF Solid
  <2>2. ComesFrom(t, K, u, off, j)
    BY <1>2, <2>1, KeptFrom, Zenon
  <2>3. PICK k \in 1 .. n : k \in K /\ j = off[k] + 1 /\ u[j] = t[k]
    BY <2>2, Zenon DEF ComesFrom, n
  <2>4. k \in Solid(t)
    BY <2>1, <2>3, Zenon DEF Solid, n
  <2>5. QED
    BY <1>8, <2>3, <2>4, Zenon
<1>11. ASSUME NEW i \in Solid(t), NEW k \in Solid(t), i < k PROVE m[i] # m[k]
  <2>1. i \in 1 .. n /\ k \in 1 .. n /\ i \in K
    BY <1>7, Zenon
  <2>2. i + 1 \in 1 .. n + 1 /\ k \in i + 1 .. n + 1
    BY <1>1, <1>11, <2>1
  <2>3. off[i + 1] <= off[k]
    BY <1>2, <2>2, KeptMono, Zenon DEF n
  <2>4. off[i] \in Nat /\ off[k] \in Nat /\ off[i + 1] = off[i] + 1
    BY <1>5, <1>7, Zenon
  <2>5. m[i] = off[i] + 1 /\ m[k] = off[k] + 1
    BY <1>8, Zenon
  <2>6. QED
    BY <2>3, <2>4, <2>5
<1>12. ASSUME NEW i \in Solid(t), NEW k \in Solid(t), m[i] = m[k] PROVE i = k
  <2>1. i \in Nat /\ k \in Nat
    BY <1>1, <1>7
  <2>2. ~(i < k) /\ ~(k < i)
    BY <1>11, <1>12, Zenon
  <2>3. QED
    BY <2>1, <2>2
<1>13. ASSUME NEW i \in Solid(t), i + 1 \in Solid(t) PROVE m[i + 1] = m[i] + 1 /\ m[i] + 1 \in Solid(u)
  <2>1. m[i] = off[i] + 1 /\ m[i + 1] = off[i + 1] + 1 /\ m[i + 1] \in Solid(u)
    BY <1>8, <1>13, Zenon
  <2>2. off[i + 1] = off[i] + 1
    BY <1>5, <1>7, Zenon
  <2>3. QED
    BY <2>1, <2>2, Zenon
<1>14. ASSUME NEW i \in Solid(t), i + 1 \notin Solid(t) PROVE m[i] + 1 \notin Solid(u)
  <2> DEFINE e == i + 1
  <2>1. m[i] + 1 = off[e] + 1 /\ off[e] \in Nat /\ i \in 1 .. n
    <3>1. m[i] = off[i] + 1 /\ i \in 1 .. n
      BY <1>7, <1>8, Zenon
    <3>2. off[e] = off[i] + 1 /\ off[i] \in Nat
      BY <1>5, <1>7, Zenon
    <3>3. QED
      BY <3>1, <3>2
  <2>2. CASE e > n
    <3>1. e = n + 1
      BY <1>1, <2>1, <2>2
    <3>2. ~(off[e] + 1 <= Len(u))
      BY <1>3, <1>4, <3>1
    <3>3. off[e] + 1 \notin 1 .. Len(u)
      BY <1>4, <3>2
    <3>4. QED
      BY <2>1, <3>3, Zenon DEF Solid
  <2>3. CASE ~(e > n)
    <3>1. e \in 1 .. n
      BY <1>1, <2>1, <2>3
    <3>2. IsSpace(t[e])
      BY <1>14, <3>1, Zenon DEF Solid, n
    <3> HIDE DEF e
    <3>3. CASE e \in K
      <4>1. u[off[e] + 1] = t[e]
        BY <1>5, <3>1, <3>3, Zenon
      <4>2. QED
        BY <2>1, <3>2, <4>1, Zenon DEF Solid
    <3>4. CASE e \notin K
      <4>1. off[e + 1] = off[e] /\ e + 1 \in 1 .. n /\ e + 1 \in K /\ IsSpace(t[e + 1])
        BY <1>6, <3>1, <3>4, Zenon
      <4>2. u[off[e + 1] + 1] = t[e + 1]
        BY <1>5, <4>1, Zenon
      <4>3. QED
        BY <2>1, <4>1, <4>2, Zenon DEF Solid
    <3>5. QED
      BY <3>3, <3>4
  <2>4. QED
    BY <2>2, <2>3
<1>15. MatchMap(t, u, m)
  BY <1>8, <1>9, <1>10, <1>12, <1>13, <1>14, Zenon DEF MatchMap
<1>16. QED
  BY <1>3, <1>15, MatchedBy, Zenon DEF u

LEMMA FunctionIsSeq ==
  ASSUME NEW S, NEW n \in Nat, NEW f \in [1 .. n -> S]
  PROVE  f \in Seq(S) /\ Len(f) = n
<1>1. f \in Seq(S)
  BY SeqDef
<1>2. Len(f) \in Nat /\ DOMAIN f = 1 .. Len(f)
  BY <1>1, LenProperties
<1>3. 1 .. n = 1 .. Len(f)
  BY <1>2
<1>4. QED
  BY <1>1, <1>2, <1>3

\* The CRs that are left become LFs.
Normal(t, u) ==
  /\ u \in Seq(0 .. 255) /\ Len(u) = Len(t)
  /\ \A i \in 1 .. Len(t) :
       /\ u[i] = (IF t[i] = CR THEN LF ELSE t[i]) /\ u[i] # CR
       /\ (IsSpace(u[i]) <=> IsSpace(t[i])) /\ (~IsSpace(t[i]) => u[i] = t[i])

LEMMA NormalIs ==
  ASSUME NEW text \in Seq(0 .. 255), CrlfToLf(text) \in Seq(0 .. 255)
  PROVE  Normal(CrlfToLf(text), NormalizeLineEndings(text))
<1> DEFINE t == CrlfToLf(text)
           u == NormalizeLineEndings(text)
           l == Len(t)
           B == 0 .. 255
<1>1. u = [i \in DOMAIN t |-> IF t[i] = CR THEN LF ELSE t[i]]
  BY Zenon DEF NormalizeLineEndings
<1> HIDE DEF u
<1>2. l \in Nat /\ DOMAIN t = 1 .. l /\ \A i \in 1 .. l : t[i] \in B
  BY ElementOfSeq, LenProperties, Zenon
<1> HIDE DEF t
<1>3. ASSUME NEW i \in 1 .. l
      PROVE  /\ u[i] = (IF t[i] = CR THEN LF ELSE t[i]) /\ u[i] # CR /\ u[i] \in B
             /\ (IsSpace(u[i]) <=> IsSpace(t[i])) /\ (~IsSpace(t[i]) => u[i] = t[i])
  <2>1. u[i] = IF t[i] = CR THEN LF ELSE t[i]
    BY <1>1, <1>2, Zenon
  <2>2. t[i] \in B
    BY <1>2
  <2>3. QED
    BY <2>1, <2>2 DEF IsSpace, CR, LF
<1>4. u \in [1 .. l -> B]
  <2>1. u = [i \in 1 .. l |-> u[i]]
    BY <1>1, <1>2, Zenon
  <2>2. QED
    BY <1>3, <2>1, Zenon
<1> HIDE DEF l, B
<1>5. u \in Seq(B) /\ Len(u) = l
  BY <1>2, <1>4, FunctionIsSeq, Zenon
<1>6. Normal(t, u)
  BY <1>3, <1>5, Zenon DEF Normal, l, B
<1>7. QED
  BY <1>6, Zenon DEF t, u

\* Normalizing the line ends keeps the characters and leaves no CR.
LEMMA NormalizeKeepsUtf8 ==
  ASSUME NEW text \in Seq(0 .. 255)
  PROVE  LET u == NormalizeLineEndings(text)
         IN  /\ u \in Seq(0 .. 255) /\ IsValidUtf8(text) = IsValidUtf8(u)
             /\ \A i \in 1 .. Len(u) : u[i] # CR
<1> DEFINE t == CrlfToLf(text)
           u == NormalizeLineEndings(text)
<1>1. t \in Seq(0 .. 255) /\ IsValidUtf8(text) = IsValidUtf8(t)
  BY CrlfKeepsUtf8, Zenon
<1>2. Normal(t, u)
  BY <1>1, NormalIs, Zenon
<1> HIDE DEF t, u
<1>3. Solid(u) = Solid(t)
  BY <1>2, Zenon DEF Solid, Normal
<1> DEFINE m == [i \in Solid(t) |-> i]
<1>4. \A i \in Solid(t) : m[i] = i /\ t[i] = u[i]
  BY <1>2, Zenon DEF Solid, Normal
<1>5. m \in [Solid(t) -> Solid(u)]
  BY <1>3, Zenon
<1> HIDE DEF m
<1>6. MatchMap(t, u, m)
  BY <1>3, <1>4, <1>5, Zenon DEF MatchMap
<1>7. u \in Seq(0 .. 255) /\ \A i \in 1 .. Len(u) : u[i] # CR
  BY <1>2, Zenon DEF Normal
<1>8. IsValidUtf8(t) = IsValidUtf8(u)
  BY <1>1, <1>6, <1>7, MatchedBy, Zenon
<1>9. QED
  BY <1>1, <1>7, <1>8, Zenon DEF u

\* What is trimmed is everything, or up to the first and from the last byte that is
\* no white space.
Trimmed(text, u) ==
  \/ Solid(text) = {} /\ u = <<>>
  \/ \E a, b \in Solid(text) : /\ \A i \in Solid(text) : a <= i /\ i <= b
                               /\ u = SubSeq(text, a, b)

LEMMA TrimIs ==
  ASSUME NEW text \in Seq(0 .. 255)
  PROVE  Trimmed(text, TrimWhitespace(text))
<1> DEFINE n == Len(text)
           blanks == {c \in 9 .. Space : IsSpace(c)}
           kept == {i \in DOMAIN text : text[i] \notin blanks}
           a == CHOOSE i \in kept : \A j \in kept : i <= j
           b == CHOOSE i \in kept : \A j \in kept : i >= j
<1>1. n \in Nat /\ DOMAIN text = 1 .. n /\ \A i \in 1 .. n : text[i] \in 0 .. 255
  BY ElementOfSeq, LenProperties, Zenon
<1>2. ASSUME NEW c \in 0 .. 255 PROVE c \in blanks <=> IsSpace(c)
  BY DEF IsSpace, Space
<1>3. TrimWhitespace(text) = IF kept = {} THEN <<>> ELSE SubSeq(text, a, b)
  BY Zenon DEF TrimWhitespace, Trim
<1> HIDE DEF blanks
<1>4. kept = Solid(text)
  BY <1>1, <1>2, Zenon DEF Solid
<1> HIDE DEF kept
<1>5. CASE kept = {}
  BY <1>3, <1>4, <1>5, Zenon DEF Trimmed
<1>6. CASE kept # {}
  <2>1. kept \subseteq 1 .. n
    BY <1>4, Zenon DEF Solid
  <2>2. PICK x \in kept : TRUE
    BY <1>6, Zenon
  <2>3. \E i \in kept : \A j \in kept : i <= j
    <3>1. kept \subseteq Nat
      BY <1>1, <2>1
    <3>2. QED
      BY <2>2, <3>1, HasFirst, Zenon
  <2>4. a \in kept /\ \A j \in kept : a <= j
    BY <2>3, Zenon
  <2>5. \E i \in kept : \A j \in kept : i >= j
    <3> DEFINE back == {k \in 0 .. n : n - k \in kept}
    <3>1. back \subseteq Nat
      BY <1>1
    <3>2. n - x \in back
      <4>1. x \in 1 .. n
        BY <2>1
      <4>2. n - x \in 0 .. n /\ n - (n - x) = x
        BY <1>1, <4>1
      <4>3. QED
        BY <2>2, <4>2
    <3>3. PICK k \in back : \A l \in back : k <= l
      <4> HIDE DEF back
      <4>1. QED
        BY <3>1, <3>2, HasFirst, Zenon
    <3>4. n - k \in kept /\ k \in 0 .. n
      BY <3>3
    <3>5. ASSUME NEW j \in kept PROVE n - k >= j
      <4>1. j \in 1 .. n
        BY <2>1
      <4>2. n - j \in 0 .. n /\ n - (n - j) = j
        BY <1>1, <4>1
      <4>3. n - j \in back
        BY <4>2
      <4>4. k <= n - j
        BY <3>3, <4>3, Zenon
      <4>5. QED
        BY <1>1, <3>4, <4>1, <4>4
    <3>6. QED
      BY <3>4, <3>5, Zenon
  <2>6. b \in kept /\ \A j \in kept : b >= j
    BY <2>5, Zenon
  <2> HIDE DEF a, b
  <2>7. ASSUME NEW i \in kept PROVE a <= i /\ i <= b
    <3>1. i \in Nat /\ b \in Nat
      BY <1>1, <2>1, <2>6
    <3>2. QED
      BY <2>4, <2>6, <3>1
  <2>8. TrimWhitespace(text) = SubSeq(text, a, b)
    BY <1>3, <1>6, Zenon
  <2>9. QED
    BY <1>4, <2>4, <2>6, <2>7, <2>8, Zenon DEF Trimmed
<1>7. QED
  BY <1>5, <1>6

\* Trimming keeps the characters, takes no byte in, and leaves nothing to trim.
TrimKeeps(text, u) ==
  /\ u \in Seq(0 .. 255) /\ IsValidUtf8(text) = IsValidUtf8(u) /\ TrimWhitespace(u) = u
  /\ \A i \in 1 .. Len(u) : \E k \in 1 .. Len(text) : u[i] = text[k]

LEMMA TrimKeepsUtf8 ==
  ASSUME NEW text \in Seq(0 .. 255)
  PROVE  TrimKeeps(text, TrimWhitespace(text))
<1> DEFINE n == Len(text)
           u == TrimWhitespace(text)
<1>1. n \in Nat
  OBVIOUS
<1>2. Trimmed(text, u)
  BY TrimIs, Zenon
<1> HIDE DEF u
<1>3. CASE Solid(text) = {} /\ u = <<>>
  <2>1. u \in Seq(0 .. 255) /\ Len(u) = 0 /\ 1 .. 0 = {}
    BY <1>3
  <2>2. Solid(u) = {}
    BY <2>1, Zenon DEF Solid
  <2> DEFINE m == [i \in Solid(text) |-> i]
  <2>3. m \in [Solid(text) -> Solid(u)]
    BY <1>3, Zenon
  <2> HIDE DEF m
  <2>4. MatchMap(text, u, m)
    BY <1>3, <2>2, <2>3, Zenon DEF MatchMap
  <2>5. IsValidUtf8(text) = IsValidUtf8(u)
    BY <2>1, <2>4, MatchedBy, ZenonT(60)
  <2>6. Trimmed(u, TrimWhitespace(u))
    BY <2>1, TrimIs, Zenon
  <2>7. TrimWhitespace(u) = u
    BY <1>3, <2>2, <2>6, Zenon DEF Trimmed
  <2>8. QED
    BY <2>1, <2>5, <2>7, Zenon DEF TrimKeeps, u
<1>4. ASSUME NEW a \in Solid(text), NEW b \in Solid(text), \A i \in Solid(text) : a <= i /\ i <= b,
             u = SubSeq(text, a, b)
      PROVE  TrimKeeps(text, u)
  <2>1. a \in 1 .. n /\ b \in 1 .. n /\ a <= b /\ ~IsSpace(text[a]) /\ ~IsSpace(text[b])
    BY <1>4, Zenon DEF Solid
  <2>2. a \in Nat /\ b \in Nat /\ a >= 1 /\ a <= b + 1 /\ b <= n
    BY <1>1, <2>1
  <2> DEFINE l == b + 1 - a
  <2>3. /\ u \in Seq(0 .. 255) /\ Len(u) = l
        /\ \A i \in 1 .. l : u[i] = text[a + i - 1]
    <3>1. IsSlice(0 .. 255, u, text, a, b)
      BY <1>4, <2>2, Slice, Zenon
    <3>2. QED
      BY <3>1, Zenon DEF IsSlice
  <2>4. l \in Nat /\ l >= 1
    BY <2>1, <2>2
  <2>5. ASSUME NEW i \in 1 .. l PROVE a + i - 1 \in 1 .. n /\ a + i - 1 \in a .. b
    BY <1>1, <2>1, <2>2
  <2>6. ASSUME NEW i \in Solid(text)
        PROVE  i - a + 1 \in 1 .. l /\ a + (i - a + 1) - 1 = i /\ i \in Nat /\ ~IsSpace(text[i])
    <3>1. i \in 1 .. n /\ a <= i /\ i <= b /\ ~IsSpace(text[i])
      BY <1>4, Zenon DEF Solid
    <3>2. QED
      BY <1>1, <2>1, <3>1
  <2>7. ASSUME NEW j \in 1 .. l PROVE j \in Solid(u) <=> a + j - 1 \in Solid(text)
    <3>1. u[j] = text[a + j - 1] /\ a + j - 1 \in 1 .. n
      BY <2>3, <2>5, Zenon
    <3>2. QED
      BY <2>3, <3>1, Zenon DEF Solid
  <2>8. ASSUME NEW j \in Solid(u) PROVE j \in 1 .. l
    BY <2>3, Zenon DEF Solid
  <2> DEFINE m == [i \in Solid(text) |-> i - a + 1]
  <2> HIDE DEF l, n
  <2>9. ASSUME NEW i \in Solid(text)
        PROVE  m[i] = i - a + 1 /\ m[i] \in Solid(u) /\ u[m[i]] = text[i]
    <3> DEFINE j == i - a + 1
    <3>1. j \in 1 .. l /\ a + j - 1 = i
      BY <2>6, Zenon
    <3>2. m[i] = j
      BY Zenon
    <3> HIDE DEF j, m
    <3>3. j \in Solid(u) /\ u[j] = text[i]
      BY <2>3, <2>7, <3>1, Zenon
    <3>4. QED
      BY <3>2, <3>3, Zenon DEF j
  <2>10. m \in [Solid(text) -> Solid(u)]
    <3>1. \A i \in Solid(text) : i - a + 1 \in Solid(u)
      BY <2>9, Zenon
    <3>2. QED
      BY <3>1, Zenon
  <2> HIDE DEF m
  <2>11. ASSUME NEW j \in Solid(u) PROVE \E i \in Solid(text) : m[i] = j
    <3> DEFINE i == a + j - 1
    <3>1. j \in 1 .. l /\ i \in Solid(text)
      BY <2>7, <2>8, Zenon
    <3>2. m[i] = i - a + 1
      BY <2>9, <3>1, Zenon
    <3>3. i - a + 1 = j
      BY <2>2, <2>4, <3>1
    <3>4. QED
      BY <3>1, <3>2, <3>3, Zenon
  <2>12. ASSUME NEW i \in Solid(text), NEW k \in Solid(text), m[i] = m[k] PROVE i = k
    <3>1. m[i] = i - a + 1 /\ m[k] = k - a + 1
      BY <2>9, Zenon
    <3>2. i \in Nat /\ k \in Nat
      BY <2>6, Zenon
    <3>3. i - a + 1 = k - a + 1
      BY <2>12, <3>1, Zenon
    <3>4. QED
      BY <2>2, <3>2, <3>3
  <2>13. ASSUME NEW i \in Solid(text)
         PROVE  /\ i + 1 \in Solid(text) <=> m[i] + 1 \in Solid(u)
                /\ i + 1 \in Solid(text) => m[i + 1] = m[i] + 1
    <3> DEFINE j == m[i] + 1
    <3>1. j = i - a + 2 /\ i \in Nat /\ a + j - 1 = i + 1 /\ (i + 1) - a + 1 = j
      <4>1. m[i] = i - a + 1 /\ i \in Nat
        BY <2>6, <2>9, Zenon
      <4>2. QED
        BY <2>2, <4>1
    <3> HIDE DEF j
    <3>2. ASSUME i + 1 \in Solid(text) PROVE j \in Solid(u) /\ m[i + 1] = j
      BY <2>9, <3>1, <3>2, Zenon
    <3>3. ASSUME j \in Solid(u) PROVE i + 1 \in Solid(text)
      <4>1. j \in 1 .. l
        BY <2>8, <3>3, Zenon
      <4>2. QED
        BY <2>7, <3>1, <3>3, <4>1, Zenon
    <3>4. QED
      BY <3>2, <3>3, Zenon DEF j
  <2>14. MatchMap(text, u, m)
    BY <2>9, <2>10, <2>11, <2>12, <2>13, Zenon DEF MatchMap
  <2>15. IsValidUtf8(text) = IsValidUtf8(u)
    BY <2>3, <2>14, MatchedBy, Zenon
  <2>16. TrimWhitespace(u) = u
    <3>1. 1 \in Solid(u) /\ l \in Solid(u)
      <4>1. 1 \in 1 .. l /\ l \in 1 .. l /\ a + 1 - 1 = a /\ a + l - 1 = b
        BY <2>2, <2>4 DEF l
      <4>2. QED
        BY <1>4, <2>7, <4>1, Zenon
    <3>2. Trimmed(u, TrimWhitespace(u))
      BY <2>3, TrimIs, Zenon
    <3>3. PICK x, y \in Solid(u) : /\ \A i \in Solid(u) : x <= i /\ i <= y
                                   /\ TrimWhitespace(u) = SubSeq(u, x, y)
      BY <3>1, <3>2, Zenon DEF Trimmed
    <3>4. x <= 1 /\ l <= y /\ x \in 1 .. l /\ y \in 1 .. l
      BY <2>8, <3>1, <3>3, Zenon
    <3>5. x = 1 /\ y = l
      BY <2>4, <3>4
    <3>6. SubSeq(u, 1, l) = u
      BY <2>3, SubSeqFull, Zenon
    <3>7. QED
      BY <3>3, <3>5, <3>6, Zenon
  <2>17. ASSUME NEW i \in 1 .. Len(u) PROVE \E k \in 1 .. Len(text) : u[i] = text[k]
    BY <2>3, <2>5, Zenon DEF n
  <2>18. QED
    BY <2>3, <2>15, <2>16, <2>17, Zenon DEF TrimKeeps
<1>5. QED
  BY <1>2, <1>3, <1>4, Zenon DEF Trimmed, u

\* Neither the line ends nor the blanks of a text decide whether PlainTextParser
\* accepts it as UTF-8, and a text that process_text has processed is not changed by
\* being processed again.
THEOREM ProcessingIsExact == \A text \in Seq(0 .. 255) : ProcessingIsRight(text)
<1> SUFFICES ASSUME NEW text \in Seq(0 .. 255) PROVE ProcessingIsRight(text)
  OBVIOUS
<1> DEFINE all == {"normalize_line_endings", "trim_whitespace", "validate_encoding"}
           lines(t) == NormalizeLineEndings(t)
           done(t) == TrimWhitespace(lines(t))
           w == done(text)
<1>1. ASSUME NEW t, NEW v, done(t) = v, IsValidUtf8(v) \in BOOLEAN
      PROVE  ProcessText(t, all) = [ok |-> IsValidUtf8(v), text |-> v]
  <2>1. ProcessText(t, all) = [ok |-> (TRUE => IsValidUtf8(v)), text |-> v]
    BY <1>1, Zenon DEF ProcessText
  <2>2. (TRUE => IsValidUtf8(v)) = IsValidUtf8(v)
    BY <1>1, Zenon
  <2>3. QED
    BY <2>1, <2>2, Zenon
<1>0. ASSUME NEW t \in Seq(0 .. 255) PROVE IsValidUtf8(t) \in BOOLEAN
  <2>1. Utf8IsRight(t)
    BY Utf8IsExact, Zenon
  <2>2. QED
    BY <2>1, Zenon DEF Utf8IsRight
<1>2. ProcessText(text, {"validate_encoding"}).ok = IsValidUtf8(text)
  <2>1. ProcessText(text, {"validate_encoding"}) = [ok |-> (TRUE => IsValidUtf8(text)), text |-> text]
    BY Zenon DEF ProcessText
  <2>2. (TRUE => IsValidUtf8(text)) = IsValidUtf8(text)
    BY <1>0, Zenon
  <2>3. QED
    BY <2>1, <2>2
<1>3. /\ lines(text) \in Seq(0 .. 255) /\ IsValidUtf8(text) = IsValidUtf8(lines(text))
      /\ \A i \in 1 .. Len(lines(text)) : lines(text)[i] # CR
  BY NormalizeKeepsUtf8, Zenon
<1>4. TrimKeeps(lines(text), w)
  BY <1>3, TrimKeepsUtf8, Zenon
<1>5. w \in Seq(0 .. 255) /\ IsValidUtf8(text) = IsValidUtf8(w) /\ TrimWhitespace(w) = w
  BY <1>3, <1>4, Zenon DEF TrimKeeps
<1>6. \A i \in 1 .. Len(w) : w[i] # CR
  BY <1>3, <1>4, Zenon DEF TrimKeeps
<1> HIDE DEF w
<1>7. lines(w) = w
  BY <1>5, <1>6, LinesStay, Zenon
<1>8. done(w) = w
  BY <1>5, <1>7, Zenon
<1> HIDE DEF all
<1>9. ProcessText(text, all) = [ok |-> IsValidUtf8(w), text |-> w]
  <2>1. done(text) = w /\ IsValidUtf8(w) \in BOOLEAN
    BY <1>0, <1>5, Zenon DEF w
  <2> HIDE DEF done
  <2>2. QED
    BY <1>1, <2>1, Zenon
<1>10. ProcessText(w, all) = [ok |-> IsValidUtf8(w), text |-> w]
  <2>1. done(w) = w /\ IsValidUtf8(w) \in BOOLEAN
    BY <1>0, <1>5, <1>8, Zenon
  <2> HIDE DEF done
  <2>2. QED
    BY <1>1, <2>1, Zenon
<1>11. ProcessText(text, all).ok = IsValidUtf8(w) /\ ProcessText(text, all).text = w
  BY <1>9
<1>12. QED
  BY <1>2, <1>5, <1>9, <1>10, <1>11, Zenon DEF ProcessingIsRight, all

-----------------------------------------------------------------------------
(* The lines of a plain text. *)

LEMMA WithoutSpaceIs ==
  ASSUME NEW text \in Seq(0 .. 255)
  PROVE  WithoutSpace(text) = FlattenSeq(Kept(text, Solid(text)))
<1>1. DOMAIN text = 1 .. Len(text)
  BY LenProperties, Zenon
<1>2. \A i \in 1 .. Len(text) : i \in Solid(text) <=> ~IsSpace(text[i])
  BY Zenon DEF Solid
<1>3. [i \in DOMAIN text |-> IF IsSpace(text[i]) THEN <<>> ELSE <<text[i]>>] = Kept(text, Solid(text))
  BY <1>1, <1>2, Zenon DEF Kept
<1>4. QED
  BY <1>3, Zenon DEF WithoutSpace

\* A piece of a text is what is kept of it.
SliceOff(text, a, b, u, off) == KeptAt(text, a .. b, u, off) /\ \A i \in a .. b : off[i] = i - a

LEMMA SliceKept ==
  ASSUME NEW text \in Seq(0 .. 255), NEW a \in Nat, NEW b \in Nat, a >= 1, a <= b + 1, b <= Len(text)
  PROVE  \E off : SliceOff(text, a, b, SubSeq(text, a, b), off)
<1> DEFINE n == Len(text)
           u == SubSeq(text, a, b)
           off == [k \in 1 .. n + 1 |-> IF k <= a THEN 0 ELSE IF k <= b + 1 THEN k - a ELSE b + 1 - a]
<1>1. n \in Nat
  OBVIOUS
<1>2. /\ u \in Seq(0 .. 255) /\ Len(u) = b + 1 - a
      /\ \A i \in 1 .. b + 1 - a : u[i] = text[a + i - 1]
  <2>1. IsSlice(0 .. 255, u, text, a, b)
    BY Slice, Zenon
  <2> HIDE DEF u
  <2>2. QED
    BY <2>1, Zenon DEF IsSlice
<1> HIDE DEF u
<1>3. ASSUME NEW k \in 1 .. n + 1 PROVE off[k] = IF k <= a THEN 0 ELSE IF k <= b + 1 THEN k - a ELSE b + 1 - a
  BY Zenon
<1>4. off \in [1 .. n + 1 -> Nat]
  BY <1>1
<1> HIDE DEF off, n
<1>5. off[1] = 0 /\ Len(u) = off[n + 1]
  <2>1. 1 \in 1 .. n + 1 /\ n + 1 \in 1 .. n + 1 /\ b <= n
    BY <1>1 DEF n
  <2>2. off[1] = 0
    BY <1>3, <2>1
  <2>3. off[n + 1] = b + 1 - a
    BY <1>1, <1>3, <2>1
  <2>4. QED
    BY <1>2, <2>2, <2>3
<1>6. ASSUME NEW k \in 1 .. n, k \in a .. b
      PROVE  off[k] = k - a /\ off[k + 1] = off[k] + 1 /\ off[k + 1] <= Len(u) /\ u[off[k] + 1] = text[k]
  <2>1. k \in 1 .. n + 1 /\ k + 1 \in 1 .. n + 1
    BY <1>1
  <2>2. off[k] = k - a
    BY <1>3, <1>6, <2>1
  <2>3. off[k + 1] = k + 1 - a
    BY <1>3, <1>6, <2>1
  <2> DEFINE i == k - a + 1
  <2>4. i \in 1 .. b + 1 - a /\ a + i - 1 = k /\ off[k] + 1 = i
    BY <1>6, <2>2
  <2> HIDE DEF i
  <2>5. u[off[k] + 1] = text[k]
    BY <1>2, <2>4, Zenon
  <2>6. off[k + 1] = off[k] + 1 /\ off[k + 1] <= Len(u)
    BY <1>2, <1>6, <2>2, <2>3
  <2>7. QED
    BY <2>2, <2>5, <2>6
<1>7. ASSUME NEW k \in 1 .. n, k \notin a .. b PROVE off[k + 1] = off[k]
  <2>1. k \in 1 .. n + 1 /\ k + 1 \in 1 .. n + 1
    BY <1>1
  <2>2. off[k] = (IF k <= a THEN 0 ELSE IF k <= b + 1 THEN k - a ELSE b + 1 - a)
    BY <1>3, <2>1, Zenon
  <2>3. off[k + 1] = (IF k + 1 <= a THEN 0 ELSE IF k + 1 <= b + 1 THEN k + 1 - a ELSE b + 1 - a)
    BY <1>3, <2>1
  <2>4. QED
    BY <1>7, <2>2, <2>3
<1>8. KeptAt(text, a .. b, u, off)
  BY <1>2, <1>4, <1>5, <1>6, <1>7, Zenon DEF KeptAt, n
<1>9. ASSUME NEW i \in a .. b PROVE off[i] = i - a
  <2>1. i \in 1 .. n
    BY <1>1 DEF n
  <2>2. QED
    BY <1>6, <2>1
<1>10. QED
  BY <1>8, <1>9, Zenon DEF u, SliceOff

\* The same bytes that are no white space.
SameSolid(t, u) == FlattenSeq(Kept(u, Solid(u))) = FlattenSeq(Kept(t, Solid(t)))

LEMMA TrimSolid ==
  ASSUME NEW text \in Seq(0 .. 255)
  PROVE  SameSolid(text, TrimWhitespace(text))
<1> DEFINE n == Len(text)
           w == TrimWhitespace(text)
<1>1. n \in Nat
  OBVIOUS
<1>2. Trimmed(text, w)
  BY TrimIs, Zenon
<1> HIDE DEF w
<1>3. \E a, b \in Nat : /\ a >= 1 /\ a <= b + 1 /\ b <= n /\ w = SubSeq(text, a, b)
                        /\ \A i \in Solid(text) : i \in a .. b
  <2>1. CASE Solid(text) = {} /\ w = <<>>
    <3>1. 1 \in Nat /\ 0 \in Nat /\ 1 >= 1 /\ 1 <= 0 + 1 /\ 0 <= n
      BY <1>1
    <3>2. SubSeq(text, 1, 0) = <<>>
      <4>1. 1 \in Int /\ 0 \in Int /\ 0 < 1
        OBVIOUS
      <4>2. QED
        BY <4>1, SubSeqEmpty, Zenon
    <3>3. QED
      BY <2>1, <3>1, <3>2, Zenon
  <2>2. ASSUME NEW a \in Solid(text), NEW b \in Solid(text), \A i \in Solid(text) : a <= i /\ i <= b,
               w = SubSeq(text, a, b)
        PROVE  \E c, d \in Nat : /\ c >= 1 /\ c <= d + 1 /\ d <= n /\ w = SubSeq(text, c, d)
                                 /\ \A i \in Solid(text) : i \in c .. d
    <3>1. a \in 1 .. n /\ b \in 1 .. n /\ a <= b
      BY <2>2, Zenon DEF Solid
    <3>2. a \in Nat /\ b \in Nat /\ a >= 1 /\ a <= b + 1 /\ b <= n
      BY <1>1, <3>1
    <3>3. ASSUME NEW i \in Solid(text) PROVE i \in a .. b
      <4>1. i \in 1 .. n /\ a <= i /\ i <= b
        BY <2>2, Zenon DEF Solid
      <4>2. QED
        BY <1>1, <3>2, <4>1
    <3>4. QED
      BY <2>2, <3>2, <3>3, Zenon
  <2>3. QED
    BY <1>2, <2>1, <2>2, Zenon DEF Trimmed
<1>4. PICK a \in Nat, b \in Nat : /\ a >= 1 /\ a <= b + 1 /\ b <= n /\ w = SubSeq(text, a, b)
                                  /\ \A i \in Solid(text) : i \in a .. b
  BY <1>3, Zenon
<1>5. PICK off : KeptAt(text, a .. b, w, off) /\ \A i \in a .. b : off[i] = i - a
  <2>1. \E off : SliceOff(text, a, b, SubSeq(text, a, b), off)
    BY <1>4, SliceKept, Zenon
  <2>2. QED
    BY <1>4, <2>1, Zenon DEF SliceOff
<1>6. ASSUME NEW i \in 1 .. n, i \in a .. b PROVE off[i] + 1 \in Solid(w) <=> i \in Solid(text)
  <2>1. off[i + 1] = off[i] + 1 /\ off[i + 1] <= Len(w) /\ w[off[i] + 1] = text[i]
    BY <1>5, <1>6, Zenon DEF KeptAt
  <2>2. off[i] \in Nat /\ Len(w) \in Nat
    BY <1>1, <1>5 DEF KeptAt
  <2>3. off[i] + 1 \in 1 .. Len(w)
    BY <2>1, <2>2
  <2>4. QED
    BY <2>1, <2>3, Zenon DEF Solid
<1>7. KeptOf(text, a .. b, off, Solid(w), Solid(text))
  BY <1>4, <1>6, Zenon DEF KeptOf
<1>8. SameKept(w, Solid(w), text, Solid(text))
  BY <1>5, <1>7, KeptTwice, Zenon
<1>9. QED
  BY <1>8, Zenon DEF SameKept, SameSolid, w

LEMMA NormalSolid ==
  ASSUME NEW text \in Seq(0 .. 255)
  PROVE  SameSolid(text, NormalizeLineEndings(text))
<1> DEFINE n == Len(text)
           t == CrlfToLf(text)
           u == NormalizeLineEndings(text)
<1>1. n \in Nat
  OBVIOUS
<1>2. PICK off : KeptAt(text, Lines(text), t, off)
  BY LinesAreKept, KeptIs, Zenon
<1>3. t \in Seq(0 .. 255)
  BY CrlfKeepsUtf8, Zenon
<1>4. Normal(t, u)
  BY <1>3, NormalIs, Zenon
<1> HIDE DEF t, u
<1>5. ASSUME NEW i \in 1 .. n, i \in Lines(text) PROVE off[i] + 1 \in Solid(t) <=> i \in Solid(text)
  <2>1. off[i + 1] = off[i] + 1 /\ off[i + 1] <= Len(t) /\ t[off[i] + 1] = text[i]
    BY <1>2, <1>5, Zenon DEF KeptAt
  <2>2. off[i] \in Nat /\ Len(t) \in Nat
    <3>1. off \in [1 .. n + 1 -> Nat]
      BY <1>2, Zenon DEF KeptAt
    <3>2. QED
      BY <1>1, <1>3, <3>1
  <2>3. off[i] + 1 \in 1 .. Len(t)
    BY <2>1, <2>2
  <2>4. QED
    BY <2>1, <2>3, Zenon DEF Solid
<1>6. ASSUME NEW i \in 1 .. n, i \notin Lines(text) PROVE i \notin Solid(text)
  <2>1. text[i] = CR
    BY <1>6, Zenon DEF Lines, CrlfAt
  <2>2. IsSpace(CR)
    BY DEF IsSpace, CR
  <2>3. QED
    BY <2>1, <2>2, Zenon DEF Solid
<1>7. KeptOf(text, Lines(text), off, Solid(t), Solid(text))
  BY <1>5, <1>6, Zenon DEF KeptOf
<1>8. SameKept(t, Solid(t), text, Solid(text))
  BY <1>2, <1>7, KeptTwice, Zenon
<1>9. Solid(u) = Solid(t)
  BY <1>4, Zenon DEF Solid, Normal
<1>10. Kept(u, Solid(u)) = Kept(t, Solid(t))
  <2>1. Len(u) = Len(t) /\ \A i \in Solid(t) : u[i] = t[i]
    BY <1>4, Zenon DEF Normal, Solid
  <2>2. QED
    BY <1>9, <2>1, Zenon DEF Kept
<1>11. QED
  BY <1>8, <1>10, Zenon DEF SameKept, SameSolid, u

\* A line end is an LF, a CR, or both; it is found where it begins.
Breaks(text) ==
  {i \in DOMAIN text : text[i] = LF /\ ~(i > 1 /\ text[i - 1] = CR)} \cup {i \in DOMAIN text : text[i] = CR}

BreakAt(text, i) == \/ text[i] = CR
                    \/ text[i] = LF /\ ~(i > 1 /\ text[i - 1] = CR)

LEMMA LinesStayAsMany ==
  ASSUME NEW text \in Seq(0 .. 255)
  PROVE  LET u == NormalizeLineEndings(text)
         IN  Cardinality({p \in DOMAIN u : u[p] = LF}) = Cardinality(Breaks(text))
<1> DEFINE n == Len(text)
           K == Lines(text)
           t == CrlfToLf(text)
           u == NormalizeLineEndings(text)
           feeds == {p \in DOMAIN u : u[p] = LF}
<1>1. n \in Nat /\ DOMAIN text = 1 .. n /\ LF # CR
  <2>1. n \in Nat /\ DOMAIN text = 1 .. n
    BY LenProperties, Zenon
  <2>2. LF # CR
    BY DEF LF, CR
  <2>3. QED
    BY <2>1, <2>2
<1>2. PICK off : KeptAt(text, K, t, off)
  BY LinesAreKept, KeptIs, Zenon
<1>3. t \in Seq(0 .. 255)
  BY CrlfKeepsUtf8, Zenon
<1>4. Normal(t, u)
  BY <1>3, NormalIs, Zenon
<1> HIDE DEF t, u
<1>5. off \in [1 .. n + 1 -> Nat] /\ Len(t) \in Nat
  <2>1. off \in [1 .. n + 1 -> Nat]
    BY <1>2, Zenon DEF KeptAt
  <2>2. QED
    BY <1>3, <2>1
<1>6. DOMAIN u = 1 .. Len(t) /\ \A p \in 1 .. Len(t) : u[p] = (IF t[p] = CR THEN LF ELSE t[p])
  <2>1. u \in Seq(0 .. 255) /\ Len(u) = Len(t)
    BY <1>4, Zenon DEF Normal
  <2>2. DOMAIN u = 1 .. Len(u)
    BY <2>1, LenProperties, Zenon
  <2>3. QED
    BY <1>4, <2>1, <2>2, Zenon DEF Normal
<1>7. ASSUME NEW k \in 1 .. n, k \in K
      PROVE  off[k] \in Nat /\ off[k + 1] = off[k] + 1 /\ off[k] + 1 \in 1 .. Len(t) /\ t[off[k] + 1] = text[k]
  <2>1. off[k + 1] = off[k] + 1 /\ off[k + 1] <= Len(t) /\ t[off[k] + 1] = text[k]
    BY <1>2, <1>7, Zenon DEF KeptAt
  <2>2. off[k] \in Nat
    BY <1>1, <1>5
  <2>3. QED
    BY <1>5, <2>1, <2>2
<1>8. ASSUME NEW k \in 1 .. n, k \notin K
      PROVE  off[k + 1] = off[k] /\ text[k] = CR /\ k + 1 \in 1 .. n /\ k + 1 \in K /\ text[k + 1] = LF
  <2>1. off[k + 1] = off[k]
    BY <1>2, <1>8, Zenon DEF KeptAt
  <2>2. k < n /\ text[k] = CR /\ text[k + 1] = LF
    BY <1>8, Zenon DEF Lines, CrlfAt
  <2>3. k + 1 \in 1 .. n
    BY <1>1, <2>2
  <2>4. k + 1 \in K
    BY <1>1, <2>2, <2>3, Zenon DEF Lines, CrlfAt
  <2>5. QED
    BY <2>1, <2>2, <2>3, <2>4, Zenon
<1>9. ASSUME NEW i \in Breaks(text) PROVE i \in 1 .. n /\ BreakAt(text, i)
  <2>1. i \in 1 .. n
    BY <1>1, Zenon DEF Breaks
  <2>2. BreakAt(text, i)
    BY Zenon DEF Breaks, BreakAt
  <2>3. QED
    BY <2>1, <2>2
<1>10. ASSUME NEW i \in 1 .. n, BreakAt(text, i) PROVE i \in Breaks(text)
  BY <1>1, <1>10, Zenon DEF Breaks, BreakAt
<1>11. Breaks(text) \subseteq 1 .. n
  BY <1>9, Zenon
<1> DEFINE f == [i \in Breaks(text) |-> off[i] + 1]
<1>12. ASSUME NEW i \in Breaks(text) PROVE off[i] + 1 \in feeds
  <2>1. CASE i \in K
    <3>1. off[i] + 1 \in 1 .. Len(t) /\ t[off[i] + 1] = text[i] /\ text[i] \in {CR, LF}
      BY <1>7, <1>9, <2>1, Zenon DEF BreakAt
    <3>2. u[off[i] + 1] = LF
      BY <1>6, <3>1, Zenon
    <3>3. QED
      BY <1>6, <3>1, <3>2, Zenon
  <2>2. CASE i \notin K
    <3>1. off[i + 1] = off[i] /\ i + 1 \in 1 .. n /\ i + 1 \in K /\ text[i + 1] = LF
      BY <1>8, <1>9, <2>2, Zenon
    <3>2. off[i] + 1 \in 1 .. Len(t) /\ t[off[i] + 1] = LF
      <4>1. off[i + 1] + 1 \in 1 .. Len(t) /\ t[off[i + 1] + 1] = text[i + 1]
        BY <1>7, <3>1, Zenon
      <4>2. QED
        BY <3>1, <4>1, Zenon
    <3>3. u[off[i] + 1] = LF
      BY <1>1, <1>6, <3>2, Zenon
    <3>4. QED
      BY <1>6, <3>2, <3>3, Zenon
  <2>3. QED
    BY <2>1, <2>2
<1>13. f \in [Breaks(text) -> feeds] /\ \A i \in Breaks(text) : f[i] = off[i] + 1
  BY <1>12, Zenon
<1> HIDE DEF f, K, n
<1>14. ASSUME NEW i \in Breaks(text), NEW k \in Breaks(text), i < k PROVE f[i] # f[k]
  <2> SUFFICES ASSUME off[i] + 1 = off[k] + 1 PROVE FALSE
    BY <1>13, Zenon
  <2>1. i \in 1 .. n /\ k \in 1 .. n
    BY <1>9, Zenon
  <2>2. off[i] \in Nat /\ off[k] \in Nat /\ off[i + 1] \in Nat /\ off[i] = off[k]
    BY <1>1, <1>5, <2>1
  <2>3. CASE i \in K
    <3>1. off[i + 1] = off[i] + 1
      BY <1>7, <2>1, <2>3, Zenon
    <3>2. i + 1 \in 1 .. n + 1 /\ k \in i + 1 .. n + 1
      BY <1>1, <1>14, <2>1
    <3>3. off[i + 1] <= off[k]
      BY <1>2, <3>2, KeptMono, Zenon DEF n
    <3>4. QED
      BY <2>2, <3>1, <3>3
  <2>4. CASE i \notin K
    <3> DEFINE e == i + 1
    <3>1. off[e] = off[i] /\ text[i] = CR /\ e \in 1 .. n /\ e \in K /\ text[e] = LF
      BY <1>8, <2>1, <2>4, Zenon
    <3>2. CASE k = e
      <4>1. e > 1 /\ e - 1 = i
        BY <2>1
      <4>2. QED
        BY <1>1, <1>9, <3>1, <3>2, <4>1, Zenon DEF BreakAt
    <3>3. CASE k # e
      <4>1. e + 1 \in 1 .. n + 1 /\ k \in e + 1 .. n + 1
        BY <1>1, <1>14, <2>1, <3>3
      <4> HIDE DEF e
      <4>2. off[e + 1] = off[e] + 1
        BY <1>7, <3>1, Zenon
      <4>3. off[e + 1] <= off[k]
        BY <1>2, <4>1, KeptMono, Zenon DEF n
      <4>4. QED
        BY <2>2, <3>1, <4>2, <4>3
    <3>4. QED
      BY <3>2, <3>3
  <2>5. QED
    BY <2>3, <2>4
<1>15. ASSUME NEW i \in Breaks(text), NEW k \in Breaks(text), f[i] = f[k] PROVE i = k
  <2>1. i \in Nat /\ k \in Nat
    BY <1>1, <1>11
  <2>2. ~(i < k) /\ ~(k < i)
    BY <1>14, <1>15, Zenon
  <2>3. QED
    BY <2>1, <2>2
<1>16. ASSUME NEW p \in feeds PROVE \E i \in Breaks(text) : f[i] = p
  <2>1. p \in 1 .. Len(t) /\ u[p] = LF
    BY <1>6, Zenon
  <2>2. t[p] = CR \/ t[p] = LF
    BY <1>6, <2>1, Zenon
  <2>3. ComesFrom(text, K, t, off, p)
    BY <1>2, <2>1, KeptFrom, Zenon
  <2>4. PICK k \in 1 .. n : k \in K /\ p = off[k] + 1 /\ t[p] = text[k]
    BY <2>3, Zenon DEF ComesFrom, n
  <2>5. CASE k \in Breaks(text)
    BY <1>13, <2>4, <2>5, Zenon
  <2>6. CASE k \notin Breaks(text)
    <3>1. text[k] = LF /\ k > 1 /\ text[k - 1] = CR
      <4>1. ~BreakAt(text, k)
        BY <1>10, <2>6, Zenon
      <4>2. text[k] = CR \/ text[k] = LF
        BY <2>2, <2>4, Zenon
      <4>3. QED
        BY <4>1, <4>2, Zenon DEF BreakAt
    <3> DEFINE i == k - 1
    <3>2. i \in 1 .. n /\ i + 1 = k /\ i < n
      BY <1>1, <3>1
    <3> HIDE DEF i
    <3>3. text[i] = CR
      BY <3>1, Zenon DEF i
    <3>4. i \in Breaks(text)
      BY <1>10, <3>2, <3>3, Zenon DEF BreakAt
    <3>5. i \notin K
      BY <3>1, <3>2, <3>3, Zenon DEF K, Lines, CrlfAt, n
    <3>6. off[k] = off[i]
      BY <1>8, <3>2, <3>5, Zenon
    <3>7. QED
      BY <1>13, <2>4, <3>4, <3>6, Zenon
  <2>7. QED
    BY <2>5, <2>6
<1> HIDE DEF feeds
<1>17. f \in Bijection(Breaks(text), feeds)
  BY <1>13, <1>15, <1>16, Zenon DEF Bijection, Injection, Surjection, IsInjective
<1>18. IsFiniteSet(Breaks(text))
  <2>1. IsFiniteSet(1 .. n)
    BY <1>1, FS_Interval
  <2>2. QED
    BY <1>11, <2>1, FS_Subset, Zenon
<1>19. ExistsBijection(Breaks(text), feeds)
  BY <1>17, Zenon DEF ExistsBijection
<1>20. Cardinality(feeds) = Cardinality(Breaks(text))
  BY <1>18, <1>19, FS_Bijection, Zenon
<1>21. QED
  BY <1>20, Zenon DEF feeds, u

\* process_text makes the line ends of a text, whichever they are, as many line
\* feeds, leaves no CR, and takes out nothing but white space.
THEOREM LinesAreExact == \A text \in Seq(0 .. 255) : LinesAreRight(text)
<1> SUFFICES ASSUME NEW text \in Seq(0 .. 255) PROVE LinesAreRight(text)
  OBVIOUS
<1> DEFINE u == NormalizeLineEndings(text)
           w == TrimWhitespace(u)
<1>1. u \in Seq(0 .. 255) /\ \A i \in 1 .. Len(u) : u[i] # CR
  BY NormalizeKeepsUtf8, Zenon
<1>2. Cardinality({i \in DOMAIN u : u[i] = LF}) = Cardinality(Breaks(text))
  BY LinesStayAsMany, Zenon
<1>3. SameSolid(text, u)
  BY NormalSolid, Zenon
<1> HIDE DEF u
<1>4. CR \notin Range(u)
  <2>1. DOMAIN u = 1 .. Len(u)
    BY <1>1, LenProperties, Zenon
  <2>2. QED
    BY <1>1, <2>1, Zenon DEF Range
<1>5. SameSolid(u, w) /\ w \in Seq(0 .. 255)
  BY <1>1, TrimSolid, TrimKeepsUtf8, Zenon DEF TrimKeeps
<1> HIDE DEF w
<1>6. WithoutSpace(w) = WithoutSpace(text)
  <2>1. /\ WithoutSpace(w) = FlattenSeq(Kept(w, Solid(w)))
        /\ WithoutSpace(text) = FlattenSeq(Kept(text, Solid(text)))
    BY <1>5, WithoutSpaceIs, Zenon
  <2>2. QED
    BY <1>3, <1>5, <2>1, Zenon DEF SameSolid
<1>7. QED
  BY <1>2, <1>4, <1>6, Zenon DEF LinesAreRight, Breaks, u, w
=============================================================================
