-------------------------- MODULE BlockCacheProofs --------------------------
(***************************************************************************)
(* Theorems about BlockCache.                                              *)
(***************************************************************************)
EXTENDS BlockCache, FiniteSetTheorems, SequenceTheorems, WellFoundedInduction, TLAPS

-----------------------------------------------------------------------------
(***************************************************************************)
(* Numbers: a set of them has a least one, and has all of them if it has 0 *)
(* and with each the next.                                                 *)
(***************************************************************************)
LEMMA LeastOf ==
  ASSUME NEW T, T \subseteq Nat, T # {}
  PROVE  \E x \in T : \A y \in T : x <= y
<1> DEFINE R == OpToRel(<, Nat)
<1>1. IsWellFoundedOn(R, Nat)
  BY NatLessThanWellFounded
<1>2. \A x, y \in Nat : x < y => <<x, y>> \in R
  BY DEF OpToRel
<1> HIDE DEF R
<1>3. PICK x \in T : \A y \in T : ~(<<y, x>> \in R)
  BY <1>1, WFMin
<1>4. ASSUME NEW y \in T PROVE x <= y
  <2>1. x \in Nat /\ y \in Nat /\ ~(y < x)
    BY <1>2, <1>3
  <2>2. QED
    BY <2>1
<1>5. QED
  BY <1>4

LEMMA Induction ==
  ASSUME NEW T, 0 \in T, \A n \in Nat : n \in T => n + 1 \in T
  PROVE  Nat \subseteq T
<1> SUFFICES ASSUME Nat \ T # {} PROVE FALSE
  OBVIOUS
<1>1. PICK x \in Nat \ T : \A y \in Nat \ T : x <= y
  <2>1. Nat \ T \subseteq Nat
    OBVIOUS
  <2>2. QED
    BY <2>1, LeastOf
<1>2. x \in Nat /\ x # 0
  OBVIOUS
<1>3. x - 1 \in Nat /\ x - 1 < x /\ (x - 1) + 1 = x
  BY <1>2
<1>4. x - 1 \in T
  BY <1>1, <1>3
<1>5. QED
  BY <1>1, <1>3, <1>4

-----------------------------------------------------------------------------
(***************************************************************************)
(* The LRU.  No block is in it twice, so that an entry is found by its     *)
(* block wherever it is, and its order says only which one goes next.      *)
(***************************************************************************)
Data == [1..BlockSize -> Byte]
Contents(c) == {c[i] : i \in DOMAIN c}
Distinct(c) == \A i, j \in DOMAIN c : c[i].block = c[j].block => i = j
Caches == {c \in Seq(Entries) : Len(c) <= CacheSize /\ Distinct(c)}

\* c with e at the front instead of what is at place p.
Fronted(c, p, e) == <<e>> \o (SubSeq(c, 1, p - 1) \o SubSeq(c, p + 1, Len(c)))

\* Where the entry of a block is, for reading it and for moving it to the front.
PlaceOf(c, b, p) ==
  /\ p \in 1..Len(c) /\ c[p].block = b /\ Lookup(c, b) = c[p]
  /\ \A e : e.block = b => Touch(c, e) = Fronted(c, p, e)

LEMMA PlaceIs ==
  ASSUME NEW c \in Seq(Entries), NEW b, Cached(c, b)
  PROVE  \E p : PlaceOf(c, b, p)
<1> DEFINE I == {i \in 1..Len(c) : c[i].block = b}
           p == Min(I)
<1>1. Len(c) \in Nat /\ DOMAIN c = 1..Len(c)
  OBVIOUS
<1>2. I \subseteq Nat /\ I # {}
  BY <1>1 DEF Cached
<1>3. p \in I
  <2>1. \E x \in I : \A y \in I : x <= y
    BY <1>2, LeastOf
  <2>2. QED
    BY <2>1 DEF Min
<1>4. Lookup(c, b) = c[p]
  BY <1>2 DEF Lookup, SelectInSeq
<1>5. ASSUME NEW e, e.block = b
      PROVE  Touch(c, e) = Fronted(c, p, e)
  <2>1. \E i \in 1..Len(c) : c[i].block = e.block
    BY <1>2, <1>5
  <2>2. I = {i \in 1..Len(c) : c[i].block = e.block}
    BY <1>5
  <2>3. QED
    BY <1>2, <2>1, <2>2 DEF Fronted, Touch, RemoveFirstMatch, RemoveAt, SelectInSeq
<1> HIDE DEF p
<1>6. QED
  BY <1>3, <1>4, <1>5 DEF PlaceOf

LEMMA LookupIs ==
  ASSUME NEW c \in Seq(Entries), NEW b, Cached(c, b)
  PROVE  Lookup(c, b) \in Contents(c) /\ Lookup(c, b) \in Entries /\ Lookup(c, b).block = b
<1>1. PICK p : PlaceOf(c, b, p)
  BY PlaceIs
<1>2. p \in DOMAIN c /\ c[p] \in Entries
  BY <1>1 DEF PlaceOf
<1>3. QED
  BY <1>1, <1>2 DEF PlaceOf, Contents

LEMMA LookupOnly ==
  ASSUME NEW c \in Seq(Entries), Distinct(c), NEW x \in Contents(c)
  PROVE  Cached(c, x.block) /\ Lookup(c, x.block) = x
<1>1. PICK i \in DOMAIN c : c[i] = x
  BY DEF Contents
<1>2. Cached(c, x.block)
  BY <1>1 DEF Cached
<1>3. PICK p : PlaceOf(c, x.block, p)
  BY <1>2, PlaceIs
<1>4. p = i
  BY <1>1, <1>3 DEF PlaceOf, Distinct
<1>5. QED
  BY <1>1, <1>2, <1>3, <1>4 DEF PlaceOf

LEMMA CachedIs ==
  ASSUME NEW c \in Seq(Entries), NEW b
  PROVE  Cached(c, b) <=> \E x \in Contents(c) : x.block = b
  BY DEF Cached, Contents

LEMMA ContentsType == \A c \in Seq(Entries) : Contents(c) \subseteq Entries
  BY DEF Contents

\* What lies where after an entry went to the front: the ones before its place moved back.
LEMMA Prefixed ==
  ASSUME NEW S, NEW s \in Seq(S), NEW e \in S
  PROVE  /\ <<e>> \o s \in Seq(S) /\ Len(<<e>> \o s) = Len(s) + 1
         /\ \A i \in 1..(Len(s) + 1) : (<<e>> \o s)[i] = IF i = 1 THEN e ELSE s[i - 1]
<1>1. <<e>> \in Seq(S) /\ Len(<<e>>) = 1 /\ <<e>>[1] = e
  OBVIOUS
<1> DEFINE h == <<e>>
<1> HIDE DEF h
<1>2. h \in Seq(S) /\ Len(h) = 1 /\ h[1] = e
  BY <1>1 DEF h
<1>3. /\ h \o s \in Seq(S) /\ Len(h \o s) = Len(h) + Len(s)
      /\ \A i \in 1..(Len(h) + Len(s)) : (h \o s)[i] = IF i <= Len(h) THEN h[i] ELSE s[i - Len(h)]
  BY <1>2, ConcatProperties
<1> DEFINE hs == h \o s
<1> HIDE DEF hs
<1>4. /\ hs \in Seq(S) /\ Len(hs) = Len(h) + Len(s)
      /\ \A i \in 1..(Len(h) + Len(s)) : hs[i] = IF i <= Len(h) THEN h[i] ELSE s[i - Len(h)]
  BY <1>3 DEF hs
<1>5. PICK n \in Nat : n = Len(s)
  OBVIOUS
<1>6. Len(hs) = n + 1 /\ \A i \in 1..(n + 1) : hs[i] = IF i = 1 THEN e ELSE s[i - 1]
  BY <1>2, <1>4, <1>5
<1>7. QED
  BY <1>4, <1>5, <1>6 DEF hs, h

InFront(c, p, e, t) ==
  /\ t \in Seq(Entries) /\ Len(t) = Len(c)
  /\ \A i \in 1..Len(c) : t[i] = IF i = 1 THEN e ELSE IF i <= p THEN c[i - 1] ELSE c[i]

LEMMA Moved ==
  ASSUME NEW c \in Seq(Entries), NEW p \in 1..Len(c), NEW e \in Entries,
         NEW t, t = Fronted(c, p, e)
  PROVE  InFront(c, p, e, t)
<1> DEFINE a == SubSeq(c, 1, p - 1)
           b == SubSeq(c, p + 1, Len(c))
<1>1. Len(c) \in Nat /\ p \in Nat /\ 1 <= p /\ p <= Len(c) /\ \A i \in 1..Len(c) : c[i] \in Entries
  OBVIOUS
<1>2. /\ a \in Seq(Entries) /\ Len(a) = p - 1 /\ \A i \in 1..(p - 1) : a[i] = c[i]
  <2>1. \A i \in 1..(p - 1) : c[i] \in Entries
    BY <1>1
  <2>2. /\ a \in Seq(Entries) /\ Len(a) = IF 1 <= p - 1 THEN (p - 1) - 1 + 1 ELSE 0
        /\ \A i \in 1..((p - 1) - 1 + 1) : a[i] = c[1 + i - 1]
    BY <1>1, <2>1, SubSeqProperties
  <2> HIDE DEF a
  <2>3. QED
    BY <1>1, <2>2
<1>3. /\ b \in Seq(Entries) /\ Len(b) = Len(c) - p /\ \A i \in 1..(Len(c) - p) : b[i] = c[p + i]
  <2>1. \A i \in (p + 1)..Len(c) : c[i] \in Entries
    BY <1>1
  <2>2. /\ b \in Seq(Entries) /\ Len(b) = IF p + 1 <= Len(c) THEN Len(c) - (p + 1) + 1 ELSE 0
        /\ \A i \in 1..(Len(c) - (p + 1) + 1) : b[i] = c[(p + 1) + i - 1]
    BY <1>1, <2>1, SubSeqProperties
  <2> HIDE DEF b
  <2>3. \A i \in 1..(Len(c) - p) : i \in 1..(Len(c) - (p + 1) + 1) /\ (p + 1) + i - 1 = p + i
    BY <1>1
  <2>4. Len(b) = Len(c) - p
    BY <1>1, <2>2
  <2>5. QED
    BY <2>2, <2>3, <2>4
<1> DEFINE ab == a \o b
<1>4. /\ ab \in Seq(Entries) /\ Len(ab) = Len(c) - 1
      /\ \A i \in 1..(Len(c) - 1) : ab[i] = IF i <= p - 1 THEN a[i] ELSE b[i - (p - 1)]
  <2>1. /\ ab \in Seq(Entries) /\ Len(ab) = Len(a) + Len(b)
        /\ \A i \in 1..(Len(a) + Len(b)) : ab[i] = IF i <= Len(a) THEN a[i] ELSE b[i - Len(a)]
    BY <1>2, <1>3, ConcatProperties
  <2> HIDE DEF ab, a, b
  <2>2. Len(a) + Len(b) = Len(c) - 1
    BY <1>1, <1>2, <1>3
  <2>3. QED
    BY <1>2, <2>1, <2>2
<1>5. \A i \in 1..(Len(c) - 1) : ab[i] = IF i <= p - 1 THEN c[i] ELSE c[i + 1]
  <2> HIDE DEF ab, a, b
  <2> TAKE i \in 1..(Len(c) - 1)
  <2>1. CASE i <= p - 1
    BY <1>1, <1>2, <1>4, <2>1
  <2>2. CASE ~(i <= p - 1)
    <3>1. i - (p - 1) \in 1..(Len(c) - p) /\ p + (i - (p - 1)) = i + 1
      BY <1>1, <2>2
    <3>2. ab[i] = b[i - (p - 1)] /\ b[i - (p - 1)] = c[p + (i - (p - 1))]
      BY <1>3, <1>4, <2>2, <3>1
    <3>3. QED
      BY <2>2, <3>1, <3>2
  <2>3. QED
    BY <2>1, <2>2
<1> HIDE DEF ab
<1>6. PICK n \in Nat : n = Len(c)
  BY <1>1
<1>7. t \in Seq(Entries) /\ Len(t) = Len(ab) + 1
      /\ \A i \in 1..(Len(ab) + 1) : t[i] = IF i = 1 THEN e ELSE ab[i - 1]
  <2>1. t = <<e>> \o ab
    BY DEF ab, Fronted
  <2>2. ab \in Seq(Entries)
    BY <1>4
  <2>3. /\ <<e>> \o ab \in Seq(Entries) /\ Len(<<e>> \o ab) = Len(ab) + 1
        /\ \A i \in 1..(Len(ab) + 1) : (<<e>> \o ab)[i] = IF i = 1 THEN e ELSE ab[i - 1]
    BY ONLY <2>2, e \in Entries, Prefixed
  <2>4. QED
    BY <2>1, <2>3
<1>8. Len(t) = Len(c) /\ \A i \in 1..Len(c) : t[i] = IF i = 1 THEN e ELSE ab[i - 1]
  <2>1. Len(ab) + 1 = n
    BY <1>4, <1>6
  <2>2. QED
    BY <1>6, <1>7, <2>1
<1>9. ASSUME NEW i \in 1..Len(c), i # 1 PROVE ab[i - 1] = IF i <= p THEN c[i - 1] ELSE c[i]
  <2>1. i - 1 \in 1..(Len(c) - 1) /\ (i - 1) + 1 = i /\ (i - 1 <= p - 1 <=> i <= p)
    BY <1>1, <1>9
  <2>2. QED
    BY <1>5, <2>1
<1>10. QED
  BY <1>7, <1>8, <1>9 DEF InFront

\* An entry found and moved to the front, changed or not.
LEMMA TouchIs ==
  ASSUME NEW c \in Seq(Entries), Distinct(c), NEW e \in Entries, Cached(c, e.block)
  PROVE  /\ Touch(c, e) \in Seq(Entries) /\ Len(Touch(c, e)) = Len(c) /\ Distinct(Touch(c, e))
         /\ Contents(Touch(c, e)) = {x \in Contents(c) : x.block # e.block} \cup {e}
<1>2. DOMAIN c = 1..Len(c)
  OBVIOUS
<1>1. PICK n \in Nat : n = Len(c)
  OBVIOUS
<1>3. PICK p : PlaceOf(c, e.block, p)
  BY <1>2, PlaceIs
<1> DEFINE t == Touch(c, e)
<1>4. p \in 1..Len(c) /\ c[p].block = e.block
      /\ t = Fronted(c, p, e)
  BY <1>3 DEF PlaceOf
<1> HIDE DEF t
<1>5. /\ t \in Seq(Entries) /\ Len(t) = Len(c)
      /\ \A i \in 1..Len(c) : t[i] = IF i = 1 THEN e ELSE IF i <= p THEN c[i - 1] ELSE c[i]
  <2>1. InFront(c, p, e, t)
    BY <1>4, Moved
  <2>2. QED
    BY <2>1 DEF InFront
<1>6. p \in Nat /\ 1 \in 1..Len(c) /\ DOMAIN t = 1..Len(c)
  <2>1. p \in Nat /\ 1 \in 1..Len(c)
    BY <1>1, <1>4
  <2>2. QED
    BY <1>5, <2>1
<1>7. ASSUME NEW i \in 1..Len(c), i # 1
      PROVE  \E j \in 1..Len(c) : t[i] = c[j] /\ j # p /\ j = IF i <= p THEN i - 1 ELSE i
  BY <1>1, <1>5, <1>6, <1>7
<1>8. ASSUME NEW j \in 1..Len(c), j # p
      PROVE  \E i \in 1..Len(c) : i # 1 /\ t[i] = c[j]
  <2>1. CASE j < p
    <3>1. j + 1 \in 1..Len(c) /\ j + 1 # 1 /\ j + 1 <= p /\ (j + 1) - 1 = j
      BY <1>1, <1>4, <1>6, <2>1
    <3>2. QED
      BY <1>5, <3>1
  <2>2. CASE ~(j < p)
    <3>1. j # 1 /\ ~(j <= p)
      BY <1>1, <1>4, <1>6, <1>8, <2>2
    <3>2. QED
      BY <1>5, <3>1
  <2>3. QED
    BY <2>1, <2>2
<1>9. t[1] = e
  BY <1>5, <1>6
<1>10. \A j \in 1..Len(c) : c[j].block = e.block <=> j = p
  BY <1>2, <1>4 DEF Distinct
<1>11. Distinct(t)
  <2> SUFFICES ASSUME NEW i \in 1..Len(c), NEW k \in 1..Len(c), t[i].block = t[k].block PROVE i = k
    BY <1>6 DEF Distinct
  <2>1. CASE i = 1
    BY <1>7, <1>9, <1>10, <2>1
  <2>2. CASE k = 1
    BY <1>7, <1>9, <1>10, <2>2
  <2>3. CASE i # 1 /\ k # 1
    <3>1. PICK j \in 1..Len(c) : t[i] = c[j] /\ j = IF i <= p THEN i - 1 ELSE i
      BY <1>7, <2>3
    <3>2. PICK l \in 1..Len(c) : t[k] = c[l] /\ l # p /\ l = IF k <= p THEN k - 1 ELSE k
      BY <1>7, <2>3
    <3>3. j = l
      BY <1>2, <3>1, <3>2 DEF Distinct
    <3>4. i \in Nat /\ k \in Nat
      BY <1>1
    <3>5. QED
      BY <1>6, <3>1, <3>2, <3>3, <3>4
  <2>4. QED
    BY <2>1, <2>2, <2>3
<1>12. Contents(t) = {x \in Contents(c) : x.block # e.block} \cup {e}
  <2>1. ASSUME NEW x \in Contents(t) PROVE x = e \/ (x \in Contents(c) /\ x.block # e.block)
    BY <1>2, <1>6, <1>7, <1>9, <1>10 DEF Contents
  <2>2. e \in Contents(t)
    BY <1>6, <1>9 DEF Contents
  <2>3. ASSUME NEW x \in Contents(c), x.block # e.block PROVE x \in Contents(t)
    <3>1. PICK j \in 1..Len(c) : c[j] = x
      BY <1>2 DEF Contents
    <3>2. PICK i \in 1..Len(c) : t[i] = x
      BY <1>8, <1>10, <2>3, <3>1
    <3>3. QED
      BY <1>6, <3>2 DEF Contents
  <2>4. QED
    BY <2>1, <2>2, <2>3
<1>13. QED
  BY <1>5, <1>11, <1>12 DEF t

\* An entry put in front of a cache, one that is full without its oldest.
Grown(c, e) == <<e>> \o (IF Len(c) = CacheSize THEN Front(c) ELSE c)

LEMMA GrownIs ==
  ASSUME NEW c \in Caches, NEW e \in Entries, ~Cached(c, e.block)
  PROVE  /\ Grown(c, e) \in Caches
         /\ Contents(Grown(c, e)) \subseteq Contents(c) \cup {e}
         /\ Len(c) < CacheSize => Contents(Grown(c, e)) = Contents(c) \cup {e}
         /\ e \in Contents(Grown(c, e)) /\ Contents(c) \ {Last(c)} \subseteq Contents(Grown(c, e))
<1>1. c \in Seq(Entries) /\ Len(c) <= CacheSize /\ Distinct(c)
  BY DEF Caches
<1>2. PICK n \in Nat : n = Len(c) /\ DOMAIN c = 1..n /\ \A i \in 1..n : c[i] \in Entries
  BY <1>1
<1>3. CacheSize \in Nat \ {0}
  BY SizesAssumption
<1> DEFINE h == IF Len(c) = CacheSize THEN Front(c) ELSE c
           t == Grown(c, e)
<1>4. \E l \in Nat : /\ h \in Seq(Entries) /\ Len(h) = l /\ l <= n /\ l + 1 <= CacheSize
                     /\ (n < CacheSize => l = n) /\ n <= l + 1
                     /\ \A i \in 1..l : h[i] = c[i]
  <2>1. CASE Len(c) = CacheSize
    <3>1. h = SubSeq(c, 1, n - 1)
      BY <1>2, <2>1 DEF Front
    <3>2. /\ SubSeq(c, 1, n - 1) \in Seq(Entries) /\ Len(SubSeq(c, 1, n - 1)) = n - 1
          /\ \A i \in 1..(n - 1) : SubSeq(c, 1, n - 1)[i] = c[i]
      <4>1. \A i \in 1..(n - 1) : c[i] \in Entries
        BY <1>2
      <4>2. /\ SubSeq(c, 1, n - 1) \in Seq(Entries)
            /\ Len(SubSeq(c, 1, n - 1)) = IF 1 <= n - 1 THEN (n - 1) - 1 + 1 ELSE 0
            /\ \A i \in 1..((n - 1) - 1 + 1) : SubSeq(c, 1, n - 1)[i] = c[1 + i - 1]
        BY <1>1, <1>2, <4>1, SubSeqProperties
      <4> DEFINE f == SubSeq(c, 1, n - 1)
      <4> HIDE DEF f
      <4>3. /\ f \in Seq(Entries)
            /\ Len(f) = IF 1 <= n - 1 THEN (n - 1) - 1 + 1 ELSE 0
            /\ \A i \in 1..((n - 1) - 1 + 1) : f[i] = c[1 + i - 1]
        BY <4>2 DEF f
      <4>4. n # 0
        BY <1>2, <1>3, <2>1
      <4>5. f \in Seq(Entries) /\ Len(f) = n - 1 /\ \A i \in 1..(n - 1) : f[i] = c[i]
        BY <1>2, <4>3, <4>4
      <4>6. QED
        BY <4>5 DEF f
    <3>3. n - 1 \in Nat /\ n = CacheSize
      BY <1>2, <1>3, <2>1
    <3> HIDE DEF h
    <3>4. QED
      BY <3>1, <3>2, <3>3
  <2>2. CASE ~(Len(c) = CacheSize)
    <3>1. h = c
      BY <2>2
    <3> HIDE DEF h
    <3>2. QED
      BY <1>1, <1>2, <1>3, <2>2, <3>1
  <2>3. QED
    BY <2>1, <2>2
<1> HIDE DEF h
<1>5. PICK l \in Nat : /\ h \in Seq(Entries) /\ Len(h) = l /\ l <= n /\ l + 1 <= CacheSize
                       /\ (n < CacheSize => l = n) /\ n <= l + 1
                       /\ \A i \in 1..l : h[i] = c[i]
  BY <1>4
<1>6. t \in Seq(Entries) /\ Len(t) = l + 1 /\ \A i \in 1..(l + 1) : t[i] = IF i = 1 THEN e ELSE h[i - 1]
  <2>1. t = <<e>> \o h
    BY DEF h, Grown
  <2>2. h \in Seq(Entries)
    BY <1>5
  <2>3. /\ <<e>> \o h \in Seq(Entries) /\ Len(<<e>> \o h) = Len(h) + 1
        /\ \A i \in 1..(Len(h) + 1) : (<<e>> \o h)[i] = IF i = 1 THEN e ELSE h[i - 1]
    BY ONLY <2>2, e \in Entries, Prefixed
  <2>4. QED
    BY <1>5, <2>1, <2>3
<1> HIDE DEF t
<1>7. t[1] = e /\ 1 \in 1..(l + 1)
  BY <1>6
<1>8. ASSUME NEW i \in 1..(l + 1), i # 1
      PROVE  i - 1 \in 1..n /\ t[i] = c[i - 1]
  BY <1>5, <1>6, <1>8
<1>9. ASSUME NEW i \in 1..n PROVE c[i].block # e.block
  BY <1>2 DEF Cached
<1>10. Distinct(t)
  <2> SUFFICES ASSUME NEW i \in 1..(l + 1), NEW k \in 1..(l + 1), t[i].block = t[k].block PROVE i = k
    BY <1>6 DEF Distinct
  <2>1. CASE i = 1 \/ k = 1
    BY <1>7, <1>8, <1>9, <2>1
  <2>2. CASE i # 1 /\ k # 1
    <3>1. i - 1 \in 1..n /\ k - 1 \in 1..n /\ t[i] = c[i - 1] /\ t[k] = c[k - 1]
      BY <1>8, <2>2
    <3>2. i - 1 = k - 1
      BY <1>1, <1>2, <3>1 DEF Distinct
    <3>3. i \in Nat /\ k \in Nat
      OBVIOUS
    <3>4. QED
      BY <3>2, <3>3
  <2>3. QED
    BY <2>1, <2>2
<1>11. Contents(t) \subseteq Contents(c) \cup {e}
  <2> SUFFICES ASSUME NEW x \in Contents(t), x # e PROVE x \in Contents(c)
    OBVIOUS
  <2>1. PICK i \in 1..(l + 1) : t[i] = x
    BY <1>6 DEF Contents
  <2>2. i - 1 \in 1..n /\ x = c[i - 1]
    BY <1>7, <1>8, <2>1
  <2>3. QED
    BY <1>2, <2>2 DEF Contents
<1>12. e \in Contents(t)
  BY <1>6, <1>7 DEF Contents
<1>13. ASSUME n < CacheSize, NEW x \in Contents(c) PROVE x \in Contents(t)
  <2>1. PICK i \in 1..n : c[i] = x
    BY <1>2 DEF Contents
  <2>2. i + 1 \in 1..(l + 1) /\ i + 1 # 1 /\ (i + 1) - 1 = i
    BY <1>5, <1>13
  <2>3. t[i + 1] = x
    BY <1>8, <2>1, <2>2
  <2>4. QED
    BY <1>6, <2>2, <2>3 DEF Contents
<1>14. ASSUME NEW x \in Contents(c), x # Last(c) PROVE x \in Contents(t)
  <2>1. PICK i \in 1..n : c[i] = x
    BY <1>2 DEF Contents
  <2>2. i # n
    BY <1>2, <1>14, <2>1 DEF Last
  <2>3. i + 1 \in 1..(l + 1) /\ i + 1 # 1 /\ (i + 1) - 1 = i
    BY <1>5, <2>2
  <2>4. t[i + 1] = x
    BY <1>8, <2>1, <2>3
  <2>5. QED
    BY <1>6, <2>3, <2>4 DEF Contents
<1>15. t \in Caches
  BY <1>5, <1>6, <1>10 DEF Caches
<1>16. QED
  BY <1>2, <1>11, <1>12, <1>13, <1>14, <1>15 DEF t

\* InsertEntry leaves such a cache, and writes to the disk only over the block that comes in.
LEMMA InsertIs ==
  \A m, e : InsertEntry(m, e) =
    [m EXCEPT !.cache = Grown(m.cache, e),
              !.disk = IF Len(m.cache) = CacheSize /\ Last(m.cache).dirty
                       THEN [m.disk EXCEPT ![e.block] = Last(m.cache).data] ELSE m.disk,
              !.spoiled = IF Len(m.cache) = CacheSize /\ Last(m.cache).dirty
                          THEN m.spoiled \cup {Last(m.cache).block, e.block} ELSE m.spoiled]
  BY DEF InsertEntry, Grown

LEMMA LastIs ==
  ASSUME NEW c \in Caches, Len(c) = CacheSize
  PROVE  Last(c) \in Contents(c)
<1>1. c \in Seq(Entries) /\ CacheSize \in Nat \ {0}
  BY SizesAssumption DEF Caches
<1>2. Len(c) \in DOMAIN c
  BY <1>1
<1>3. QED
  BY <1>2 DEF Last, Contents

-----------------------------------------------------------------------------
(***************************************************************************)
(* Bytes and blocks: byte a is byte a % BlockSize of block a \div          *)
(* BlockSize.                                                              *)
(***************************************************************************)
LEMMA SplitIs ==
  ASSUME NEW a \in Nat
  PROVE  /\ a \div BlockSize \in Nat /\ a % BlockSize \in 0..(BlockSize - 1)
         /\ a = ((a \div BlockSize) * BlockSize) + (a % BlockSize)
  BY SizesAssumption

LEMMA Products ==
  /\ \A q \in Int : q * BlockSize \in Int /\ (q + 1) * BlockSize = q * BlockSize + BlockSize
  /\ \A p, q \in Int : p <= q => p * BlockSize <= q * BlockSize
  /\ \A p, q \in Int : p < q => p * BlockSize + BlockSize <= q * BlockSize
  BY SizesAssumption

LEMMA SplitOnly ==
  ASSUME NEW q \in Nat, NEW r \in 0..(BlockSize - 1)
  PROVE  (q * BlockSize + r) \div BlockSize = q /\ (q * BlockSize + r) % BlockSize = r
  BY SizesAssumption

\* The blocks of k bytes from the start address on: off is where they start in the first one, tail
\* where they end in the last one.
SpanOf(s, k) ==
  /\ s.from \in Nat /\ s.to \in Nat /\ s.from <= s.to /\ s.to < LastBlock
  /\ s.off \in 0..(BlockSize - 1) /\ s.tail \in 1..BlockSize
  /\ s.blocks = s.to - s.from + 1
  /\ StartAddress = s.from * BlockSize + s.off
  /\ StartAddress + k = s.to * BlockSize + s.tail

LEMMA SpanIs ==
  ASSUME StartAddress \in Nat, NEW k \in Nat \ {0}, StartAddress + k <= Capacity
  PROVE  SpanOf(Span(k), k)
<1> DEFINE s == Span(k)
           last == StartAddress + k - 1
<1>1. /\ s.from = StartAddress \div BlockSize /\ s.off = StartAddress % BlockSize
      /\ s.to = last \div BlockSize /\ s.tail = (last % BlockSize) + 1
      /\ s.blocks = (last \div BlockSize) - (StartAddress \div BlockSize) + 1
  BY DEF Span
<1>2. last \in Nat /\ StartAddress <= last /\ StartAddress + k = last + 1
  OBVIOUS
<1> HIDE DEF last, s
<1>3. /\ s.from \in Nat /\ s.off \in 0..(BlockSize - 1)
      /\ StartAddress = s.from * BlockSize + s.off
  BY <1>1, SplitIs
<1>4. PICK r \in 0..(BlockSize - 1) : r = last % BlockSize
  BY <1>2, SplitIs
<1>5. s.to \in Nat /\ last = s.to * BlockSize + r
  BY <1>1, <1>2, <1>4, SplitIs
<1>6. BlockSize \in Nat \ {0} /\ LastBlock \in Nat
  BY SizesAssumption
<1>7. PICK f \in Nat, t \in Nat : f = s.from /\ t = s.to
  BY <1>3, <1>5
<1>8. PICK o \in 0..(BlockSize - 1) : o = s.off
  BY <1>3
<1>9. StartAddress = f * BlockSize + o /\ last = t * BlockSize + r
  BY <1>3, <1>5, <1>7, <1>8
<1>10. f <= t
  <2> SUFFICES ASSUME t < f PROVE FALSE
    BY <1>7
  <2>1. t * BlockSize + BlockSize <= f * BlockSize
    BY Products
  <2>2. f * BlockSize \in Int /\ t * BlockSize \in Int
    BY <1>6
  <2>3. QED
    BY <1>2, <1>6, <1>9, <2>1, <2>2
<1>11. t < LastBlock
  <2> SUFFICES ASSUME LastBlock <= t PROVE FALSE
    BY <1>6, <1>7
  <2>1. LastBlock * BlockSize <= t * BlockSize
    BY <1>6, Products
  <2>2. LastBlock * BlockSize \in Int /\ t * BlockSize \in Int
    BY <1>6, Products
  <2>3. last < LastBlock * BlockSize
    BY <1>2, <2>2 DEF Capacity
  <2>4. QED
    BY <1>2, <1>6, <1>9, <2>1, <2>2, <2>3
<1>12. s.tail = r + 1 /\ s.tail \in 1..BlockSize
  BY <1>1, <1>4, <1>6
<1>13. s.blocks = s.to - s.from + 1
  BY <1>1
<1>14. StartAddress + k = t * BlockSize + (r + 1)
  <2>1. t * BlockSize \in Int
    BY Products
  <2>2. QED
    BY <1>2, <1>9, <2>1
<1>15. QED
  BY <1>3, <1>5, <1>7, <1>10, <1>11, <1>12, <1>13, <1>14 DEF SpanOf, s

\* Wherever the cursor is, an access stays below the capacity; where usize reaches it,
\* the access starts at it and is no longer than asked for.
LEMMA ClippedIs ==
  ASSUME cursor \in 0..(Word - 1), NEW n \in 0..(Usize - 1)
  PROVE  /\ StartAddress \in Nat /\ Clipped(n) \in Nat /\ Capacity \in Nat
         /\ Clipped(n) > 0 => StartAddress + Clipped(n) <= Capacity
         /\ ~Astray => StartAddress = cursor /\ Clipped(n) <= n
         /\ ~Astray /\ Clipped(n) > 0 => StartAddress + Clipped(n) = Least(cursor + n, Capacity)
<1>1. PICK c \in Nat, u \in Nat \ {0}, w \in Nat : c = Capacity /\ u = Usize /\ w = Word /\ 2 * u <= w /\ c < w
  BY SizesAssumption DEF Capacity
<1>2. n \in Nat /\ n < u /\ cursor \in Nat /\ cursor < w
  BY <1>1
<1>3. PICK a \in Nat : a = StartAddress /\ a < u /\ (cursor < u => a = cursor)
  BY <1>1, <1>2 DEF StartAddress
<1>4. PICK x \in Nat : x = Least((cursor + n) % w, c) /\ x <= c
  <2>1. (cursor + n) % w \in Nat
    BY <1>1, <1>2
  <2>2. QED
    BY <1>1, <2>1 DEF Least
<1>5. PICK e \in Nat : e = EndAddress(n) /\ e = x % u /\ e <= x /\ (x < u => e = x)
  <2>1. EndAddress(n) = x % u
    BY <1>1, <1>4 DEF EndAddress
  <2>2. x % u \in Nat /\ x % u <= x /\ (x < u => x % u = x)
    BY <1>1
  <2>3. QED
    BY <2>1, <2>2
<1>6. Clipped(n) = IF a < e THEN e - a ELSE 0
  BY <1>3, <1>5 DEF Clipped
<1>7. ~Astray => /\ StartAddress = cursor /\ Clipped(n) <= n
                 /\ Clipped(n) > 0 => StartAddress + Clipped(n) = Least(cursor + n, Capacity)
  <2> SUFFICES ASSUME ~Astray
      PROVE  /\ StartAddress = cursor /\ Clipped(n) <= n
             /\ Clipped(n) > 0 => StartAddress + Clipped(n) = Least(cursor + n, Capacity)
    OBVIOUS
  <2>1. cursor < u
    BY <1>1, <1>2 DEF Astray
  <2>2. (cursor + n) % w = cursor + n
    BY <1>1, <1>2, <2>1
  <2>3. x = Least(cursor + n, c) /\ x <= cursor + n
    BY <1>1, <1>2, <1>4, <2>2 DEF Least
  <2>4. e <= cursor + n
    BY <1>2, <1>5, <2>3
  <2>5. a < e => e = x
    <3> SUFFICES ASSUME a < e, ~(x < u) PROVE FALSE
      BY <1>5
    <3>1. x - u \in Nat /\ x - u < u
      BY <1>1, <1>2, <2>1, <2>3
    <3>2. x % u = x - u
      BY <1>1, <3>1
    <3>3. QED
      BY <1>1, <1>2, <1>3, <1>5, <2>1, <2>3, <3>1, <3>2
  <2>6. a = cursor
    BY <1>3, <2>1
  <2>7. Clipped(n) <= n
    BY <1>2, <1>6, <2>4, <2>6
  <2>8. Clipped(n) > 0 => a + Clipped(n) = x
    BY <1>3, <1>5, <1>6, <2>5
  <2>9. QED
    BY <1>1, <1>3, <2>3, <2>6, <2>7, <2>8
<1>8. Clipped(n) \in Nat /\ (Clipped(n) > 0 => a + Clipped(n) <= c)
  BY <1>1, <1>3, <1>4, <1>5, <1>6
<1>9. QED
  BY <1>1, <1>3, <1>7, <1>8

-----------------------------------------------------------------------------
(***************************************************************************)
(* Loops.  A loop over n indices, from the state m on, where F[i] is what  *)
(* index i does to a state of S[i - 1], is the function of its states, and *)
(* that function exists.                                                   *)
(***************************************************************************)
Steps(n, S, F) == \A i \in 1..n : \A x \in S[i - 1] : F[i][x] \in S[i]
Loop(n, S, m, F, f) ==
  /\ f = [i \in 0..n |-> IF i = 0 THEN m ELSE F[i][f[i - 1]]]
  /\ \A i \in 0..n : f[i] \in S[i]

LEMMA Unrolls ==
  ASSUME NEW n \in Nat, NEW S, NEW m, NEW F, m \in S[0], Steps(n, S, F)
  PROVE  \E f : Loop(n, S, m, F, f)
<1> DEFINE Upto(f, j) ==
             /\ f = [i \in 0..j |-> f[i]]
             /\ f[0] = m
             /\ \A i \in 1..j : f[i] = F[i][f[i - 1]]
             /\ \A i \in 0..j : f[i] \in S[i]
           T == {j \in Nat : j <= n => \E f : Upto(f, j)}
<1>1. 0 \in T
  <2> DEFINE f == [i \in 0..0 |-> m]
  <2>1. Upto(f, 0)
    OBVIOUS
  <2> HIDE DEF f, Upto
  <2>2. QED
    BY <2>1
<1>2. ASSUME NEW j \in Nat, j \in T PROVE j + 1 \in T
  <2> SUFFICES ASSUME j + 1 <= n PROVE \E f : Upto(f, j + 1)
    OBVIOUS
  <2>1. PICK f : Upto(f, j)
    BY <1>2
  <2> DEFINE g == [i \in 0..(j + 1) |-> IF i = j + 1 THEN F[j + 1][f[j]] ELSE f[i]]
  <2>2. \A i \in 0..j : g[i] = f[i]
    OBVIOUS
  <2>3. g[j + 1] = F[j + 1][f[j]]
    OBVIOUS
  <2>4. g = [i \in 0..(j + 1) |-> g[i]]
    OBVIOUS
  <2> HIDE DEF g
  <2>5. g[0] = m
    BY <2>1, <2>2
  <2>6. ASSUME NEW i \in 1..(j + 1) PROVE g[i] = F[i][g[i - 1]]
    <3>1. CASE i = j + 1
      <4>1. i - 1 = j /\ j \in 0..j
        BY <3>1
      <4>2. QED
        BY <2>2, <2>3, <3>1, <4>1
    <3>2. CASE i # j + 1
      <4>1. i \in 1..j /\ i \in 0..j /\ i - 1 \in 0..j
        BY <3>2
      <4>2. QED
        BY <2>1, <2>2, <4>1
    <3>3. QED
      BY <3>1, <3>2
  <2>7. ASSUME NEW i \in 0..(j + 1) PROVE g[i] \in S[i]
    <3>1. CASE i = j + 1
      <4>1. i \in 1..n /\ i - 1 = j /\ j \in 0..j
        BY <3>1
      <4>2. f[j] \in S[j]
        BY <2>1, <4>1
      <4>3. QED
        BY <2>3, <3>1, <4>1, <4>2 DEF Steps
    <3>2. CASE i # j + 1
      <4>1. i \in 0..j
        BY <3>2
      <4>2. QED
        BY <2>1, <2>2, <4>1
    <3>3. QED
      BY <3>1, <3>2
  <2>8. Upto(g, j + 1)
    BY <2>4, <2>5, <2>6, <2>7
  <2> HIDE DEF Upto
  <2>9. QED
    BY <2>8
<1> HIDE DEF Upto
<1>3. Nat \subseteq T
  <2> HIDE DEF T
  <2>1. QED
    BY <1>1, <1>2, Induction
<1>4. n \in T
  BY <1>3
<1>5. PICK f : Upto(f, n)
  BY <1>4
<1>6. f = [i \in 0..n |-> IF i = 0 THEN m ELSE F[i][f[i - 1]]]
  <2>1. f = [i \in 0..n |-> f[i]]
    BY <1>5 DEF Upto
  <2>2. \A i \in 0..n : f[i] = IF i = 0 THEN m ELSE F[i][f[i - 1]]
    <3> SUFFICES ASSUME NEW i \in 0..n, i # 0 PROVE f[i] = F[i][f[i - 1]]
      BY <1>5 DEF Upto
    <3>1. i \in 1..n
      OBVIOUS
    <3>2. QED
      BY <1>5, <3>1 DEF Upto
  <2> DEFINE g == [i \in 0..n |-> IF i = 0 THEN m ELSE F[i][f[i - 1]]]
  <2>3. \A i \in 0..n : g[i] = f[i]
    BY <2>2
  <2>4. g = [i \in 0..n |-> g[i]]
    OBVIOUS
  <2> HIDE DEF g
  <2>5. f = g
    BY <2>1, <2>3, <2>4
  <2>6. QED
    BY <2>5 DEF g
<1>7. QED
  BY <1>5, <1>6 DEF Upto, Loop

\* Every state of a loop is in its set.
LEMMA StaysIn ==
  ASSUME NEW n \in Nat, NEW S, NEW f, f[0] \in S[0],
         \A i \in 1..n : f[i - 1] \in S[i - 1] => f[i] \in S[i]
  PROVE  \A i \in 0..n : f[i] \in S[i]
<1> DEFINE T == {j \in Nat : j <= n => f[j] \in S[j]}
<1>1. 0 \in T
  OBVIOUS
<1>2. ASSUME NEW j \in Nat, j \in T PROVE j + 1 \in T
  <2> SUFFICES ASSUME j + 1 <= n PROVE f[j + 1] \in S[j + 1]
    OBVIOUS
  <2>1. j + 1 \in 1..n /\ (j + 1) - 1 = j /\ f[j] \in S[j]
    BY <1>2
  <2>2. QED
    BY <2>1
<1>3. Nat \subseteq T
  <2> HIDE DEF T
  <2>1. QED
    BY <1>1, <1>2, Induction
<1>4. QED
  BY <1>3

\* The four loops of the code.
ScanSteps(m, s) ==
  CHOOSE f : f = [i \in 0..s.blocks |-> IF i = 0 THEN m ELSE Scan(f[i - 1], s, s.from + i - 1)]

LEMMA ScannedStays ==
  ASSUME NEW m, NEW s, s.blocks \in Nat, NEW S, m \in S[0],
         \A i \in 1..s.blocks : \A x \in S[i - 1] : Scan(x, s, s.from + i - 1) \in S[i]
  PROVE  Scanned(m, s) \in S[s.blocks]
<1> DEFINE n == s.blocks
           F == [i \in 1..n |-> [x \in S[i - 1] |-> Scan(x, s, s.from + i - 1)]]
           f == ScanSteps(m, s)
<1>1. \A i \in 1..n : \A x \in S[i - 1] : F[i][x] = Scan(x, s, s.from + i - 1)
  OBVIOUS
<1>2. Scanned(m, s) = f[n]
  BY DEF Scanned, ScanSteps
<1> HIDE DEF F, n
<1>3. PICK g : Loop(n, S, m, F, g)
  <2>1. n \in Nat
    BY DEF n
  <2>2. Steps(n, S, F)
    BY <1>1 DEF n, Steps
  <2>3. QED
    BY ONLY <2>1, <2>2, m \in S[0], Unrolls
<1>4. g = [i \in 0..n |-> IF i = 0 THEN m ELSE Scan(g[i - 1], s, s.from + i - 1)]
  <2>1. ASSUME NEW i \in 0..n, i # 0 PROVE F[i][g[i - 1]] = Scan(g[i - 1], s, s.from + i - 1)
    <3>1. n \in Nat
      BY DEF n
    <3>2. i \in 1..n /\ i - 1 \in 0..n
      BY <2>1, <3>1
    <3>3. QED
      BY <1>1, <1>3, <3>2 DEF Loop
  <2>2. g = [i \in 0..n |-> IF i = 0 THEN m ELSE F[i][g[i - 1]]]
    BY <1>3 DEF Loop
  <2>3. QED
    BY <2>1, <2>2
<1>5. f = [i \in 0..n |-> IF i = 0 THEN m ELSE Scan(f[i - 1], s, s.from + i - 1)]
  BY <1>4 DEF ScanSteps, n
<1> HIDE DEF f
<1>6. f[0] = m /\ \A i \in 1..n : f[i] = Scan(f[i - 1], s, s.from + i - 1)
  <2>1. n \in Nat
    BY DEF n
  <2>2. \A i \in 0..n : f[i] = IF i = 0 THEN m ELSE Scan(f[i - 1], s, s.from + i - 1)
    BY <1>5
  <2>3. QED
    BY <2>1, <2>2
<1>7. f[n] \in S[n]
  <2>1. n \in Nat /\ n \in 0..n
    BY DEF n
  <2>2. \A i \in 1..n : f[i - 1] \in S[i - 1] => f[i] \in S[i]
    BY <1>6 DEF n
  <2>3. \A i \in 0..n : f[i] \in S[i]
    BY <1>6, <2>1, <2>2, StaysIn
  <2>4. QED
    BY <2>1, <2>3
<1>8. QED
  BY <1>2, <1>7 DEF n

\* How many of n blocks of a range are cached.
Kept(n) == Least(n, CacheSize)

CacheSteps(m, first, data, n) ==
  CHOOSE f : f = [i \in 0..Kept(n) |-> IF i = 0 THEN m ELSE CacheRead(f[i - 1], first + i - 1, BlockOf(data, n - Kept(n) + i))]

LEMMA CacheRangeStays ==
  ASSUME NEW m, NEW first, NEW data, NEW n, Kept(n) \in Nat, NEW S, m \in S[0],
         \A i \in 1..Kept(n) : \A x \in S[i - 1] : CacheRead(x, first + i - 1, BlockOf(data, n - Kept(n) + i)) \in S[i]
  PROVE  CacheRange(m, first, data, n) \in S[Kept(n)]
<1> DEFINE k == Kept(n)
           F == [i \in 1..k |-> [x \in S[i - 1] |-> CacheRead(x, first + i - 1, BlockOf(data, n - Kept(n) + i))]]
           f == CacheSteps(m, first, data, n)
<1>1. \A i \in 1..k : \A x \in S[i - 1] : F[i][x] = CacheRead(x, first + i - 1, BlockOf(data, n - Kept(n) + i))
  OBVIOUS
<1>2. CacheRange(m, first, data, n) = f[k]
  BY DEF CacheRange, CacheSteps, Kept
<1> HIDE DEF F, k
<1>3. PICK g : Loop(k, S, m, F, g)
  <2>1. k \in Nat
    BY DEF k
  <2>2. Steps(k, S, F)
    BY <1>1 DEF k, Steps
  <2>3. QED
    BY ONLY <2>1, <2>2, m \in S[0], Unrolls
<1>4. g = [i \in 0..k |-> IF i = 0 THEN m ELSE CacheRead(g[i - 1], first + i - 1, BlockOf(data, n - Kept(n) + i))]
  <2>1. ASSUME NEW i \in 0..k, i # 0 PROVE F[i][g[i - 1]] = CacheRead(g[i - 1], first + i - 1, BlockOf(data, n - Kept(n) + i))
    <3>1. k \in Nat
      BY DEF k
    <3>2. i \in 1..k /\ i - 1 \in 0..k
      BY <2>1, <3>1
    <3>3. QED
      BY <1>1, <1>3, <3>2 DEF Loop
  <2>2. g = [i \in 0..k |-> IF i = 0 THEN m ELSE F[i][g[i - 1]]]
    BY <1>3 DEF Loop
  <2>3. QED
    BY <2>1, <2>2
<1>5. f = [i \in 0..k |-> IF i = 0 THEN m ELSE CacheRead(f[i - 1], first + i - 1, BlockOf(data, n - Kept(n) + i))]
  BY <1>4 DEF CacheSteps, k
<1> HIDE DEF f
<1>6. f[0] = m /\ \A i \in 1..k : f[i] = CacheRead(f[i - 1], first + i - 1, BlockOf(data, n - Kept(n) + i))
  <2>1. k \in Nat
    BY DEF k
  <2>2. \A i \in 0..k : f[i] = IF i = 0 THEN m ELSE CacheRead(f[i - 1], first + i - 1, BlockOf(data, n - Kept(n) + i))
    BY <1>5
  <2>3. QED
    BY <2>1, <2>2
<1>7. f[k] \in S[k]
  <2>1. k \in Nat /\ k \in 0..k
    BY DEF k
  <2>2. \A i \in 1..k : f[i - 1] \in S[i - 1] => f[i] \in S[i]
    BY <1>6 DEF k
  <2>3. \A i \in 0..k : f[i] \in S[i]
    BY <1>6, <2>1, <2>2, StaysIn
  <2>4. QED
    BY <2>1, <2>3
<1>8. QED
  BY <1>2, <1>7 DEF k

FetchSteps(m, s, ranges) ==
  CHOOSE f : f = [i \in 0..Len(ranges) |-> IF i = 0 THEN m ELSE FetchRange(f[i - 1], s, ranges[i])]

LEMMA FetchedStays ==
  ASSUME NEW m, NEW s, NEW ranges, Len(ranges) \in Nat, NEW S, m \in S[0],
         \A i \in 1..Len(ranges) : \A x \in S[i - 1] : FetchRange(x, s, ranges[i]) \in S[i]
  PROVE  FetchedRanges(m, s, ranges) \in S[Len(ranges)]
<1> DEFINE n == Len(ranges)
           F == [i \in 1..n |-> [x \in S[i - 1] |-> FetchRange(x, s, ranges[i])]]
           f == FetchSteps(m, s, ranges)
<1>1. \A i \in 1..n : \A x \in S[i - 1] : F[i][x] = FetchRange(x, s, ranges[i])
  OBVIOUS
<1>2. FetchedRanges(m, s, ranges) = f[n]
  BY DEF FetchedRanges, FetchSteps
<1> HIDE DEF F, n
<1>3. PICK g : Loop(n, S, m, F, g)
  <2>1. n \in Nat
    BY DEF n
  <2>2. Steps(n, S, F)
    BY <1>1 DEF n, Steps
  <2>3. QED
    BY ONLY <2>1, <2>2, m \in S[0], Unrolls
<1>4. g = [i \in 0..n |-> IF i = 0 THEN m ELSE FetchRange(g[i - 1], s, ranges[i])]
  <2>1. ASSUME NEW i \in 0..n, i # 0 PROVE F[i][g[i - 1]] = FetchRange(g[i - 1], s, ranges[i])
    <3>1. n \in Nat
      BY DEF n
    <3>2. i \in 1..n /\ i - 1 \in 0..n
      BY <2>1, <3>1
    <3>3. QED
      BY <1>1, <1>3, <3>2 DEF Loop
  <2>2. g = [i \in 0..n |-> IF i = 0 THEN m ELSE F[i][g[i - 1]]]
    BY <1>3 DEF Loop
  <2>3. QED
    BY <2>1, <2>2
<1>5. f = [i \in 0..n |-> IF i = 0 THEN m ELSE FetchRange(f[i - 1], s, ranges[i])]
  BY <1>4 DEF FetchSteps, n
<1> HIDE DEF f
<1>6. f[0] = m /\ \A i \in 1..n : f[i] = FetchRange(f[i - 1], s, ranges[i])
  <2>1. n \in Nat
    BY DEF n
  <2>2. \A i \in 0..n : f[i] = IF i = 0 THEN m ELSE FetchRange(f[i - 1], s, ranges[i])
    BY <1>5
  <2>3. QED
    BY <2>1, <2>2
<1>7. f[n] \in S[n]
  <2>1. n \in Nat /\ n \in 0..n
    BY DEF n
  <2>2. \A i \in 1..n : f[i - 1] \in S[i - 1] => f[i] \in S[i]
    BY <1>6 DEF n
  <2>3. \A i \in 0..n : f[i] \in S[i]
    BY <1>6, <2>1, <2>2, StaysIn
  <2>4. QED
    BY <2>1, <2>3
<1>8. QED
  BY <1>2, <1>7 DEF n

WriteSteps(m, s) ==
  CHOOSE f : f = [i \in 0..s.blocks |-> IF i = 0 THEN m ELSE CacheWritten(f[i - 1], s, s.from + i - 1)]

LEMMA AllWrittenStays ==
  ASSUME NEW m, NEW s, s.blocks \in Nat, NEW S, m \in S[0],
         \A i \in 1..s.blocks : \A x \in S[i - 1] : CacheWritten(x, s, s.from + i - 1) \in S[i]
  PROVE  CacheAllWritten(m, s) \in S[s.blocks]
<1> DEFINE n == s.blocks
           F == [i \in 1..n |-> [x \in S[i - 1] |-> CacheWritten(x, s, s.from + i - 1)]]
           f == WriteSteps(m, s)
<1>1. \A i \in 1..n : \A x \in S[i - 1] : F[i][x] = CacheWritten(x, s, s.from + i - 1)
  OBVIOUS
<1>2. CacheAllWritten(m, s) = f[n]
  BY DEF CacheAllWritten, WriteSteps
<1> HIDE DEF F, n
<1>3. PICK g : Loop(n, S, m, F, g)
  <2>1. n \in Nat
    BY DEF n
  <2>2. Steps(n, S, F)
    BY <1>1 DEF n, Steps
  <2>3. QED
    BY ONLY <2>1, <2>2, m \in S[0], Unrolls
<1>4. g = [i \in 0..n |-> IF i = 0 THEN m ELSE CacheWritten(g[i - 1], s, s.from + i - 1)]
  <2>1. ASSUME NEW i \in 0..n, i # 0 PROVE F[i][g[i - 1]] = CacheWritten(g[i - 1], s, s.from + i - 1)
    <3>1. n \in Nat
      BY DEF n
    <3>2. i \in 1..n /\ i - 1 \in 0..n
      BY <2>1, <3>1
    <3>3. QED
      BY <1>1, <1>3, <3>2 DEF Loop
  <2>2. g = [i \in 0..n |-> IF i = 0 THEN m ELSE F[i][g[i - 1]]]
    BY <1>3 DEF Loop
  <2>3. QED
    BY <2>1, <2>2
<1>5. f = [i \in 0..n |-> IF i = 0 THEN m ELSE CacheWritten(f[i - 1], s, s.from + i - 1)]
  BY <1>4 DEF WriteSteps, n
<1> HIDE DEF f
<1>6. f[0] = m /\ \A i \in 1..n : f[i] = CacheWritten(f[i - 1], s, s.from + i - 1)
  <2>1. n \in Nat
    BY DEF n
  <2>2. \A i \in 0..n : f[i] = IF i = 0 THEN m ELSE CacheWritten(f[i - 1], s, s.from + i - 1)
    BY <1>5
  <2>3. QED
    BY <2>1, <2>2
<1>7. f[n] \in S[n]
  <2>1. n \in Nat /\ n \in 0..n
    BY DEF n
  <2>2. \A i \in 1..n : f[i - 1] \in S[i - 1] => f[i] \in S[i]
    BY <1>6 DEF n
  <2>3. \A i \in 0..n : f[i] \in S[i]
    BY <1>6, <2>1, <2>2, StaysIn
  <2>4. QED
    BY <2>1, <2>3
<1>8. QED
  BY <1>2, <1>7 DEF n

-----------------------------------------------------------------------------
(***************************************************************************)
(* Types.                                                                  *)
(***************************************************************************)
Disks == [Block -> Data]
Buffers(n) == [1..n -> Byte]

\* The ranges of blocks to read, and the states of a read of n bytes.
Ranges(s) == {r \in Nat \X Nat : s.from <= r[1] /\ r[1] < r[2] /\ r[2] <= s.to + 1}
Reading(s, n) ==
  [cache : Caches, disk : Disks, spoiled : SUBSET Block, buf : Buffers(n), ok : BOOLEAN,
   open : BOOLEAN, start : Nat, ranges : Seq(Ranges(s))]

\* The states of a write.
Writing(n) == [cache : Caches, disk : Disks, spoiled : SUBSET Block, buf : Buffers(n), ok : BOOLEAN]

LEMMA BufferIs ==
  ASSUME NEW n \in Nat, NEW x \in Buffers(n)
  PROVE  x \in Seq(Byte) /\ Len(x) = n /\ DOMAIN x = 1..n
<1>1. x \in Seq(Byte)
  BY DEF Buffers
<1>2. DOMAIN x = 1..n
  BY DEF Buffers
<1>3. Len(x) \in Nat /\ DOMAIN x = 1..Len(x)
  BY <1>1
<1>4. Len(x) = n
  BY <1>2, <1>3
<1>5. QED
  BY <1>1, <1>2, <1>4

LEMMA DataIs == Data = Buffers(BlockSize) /\ BlockSize \in Nat
  BY SizesAssumption DEF Data, Buffers

LEMMA EntryIs ==
  /\ \A e \in Entries : e.block \in Block /\ e.data \in Data /\ e.dirty \in BOOLEAN
  /\ \A b \in Block, x \in Data, d \in BOOLEAN :
       /\ Entry(b, x, d) \in Entries /\ Entry(b, x, d).block = b
       /\ Entry(b, x, d).data = x /\ Entry(b, x, d).dirty = d
  BY DEF Entries, Entry, Data

\* The copy itself, when the slices fit.
Copied(x, a, b, src, c) == [i \in DOMAIN x |-> IF a < i /\ i <= b THEN src[i - a + c] ELSE x[i]]
Fits(x, a, b, src, c, d) == 0 <= a /\ a <= b /\ b <= Len(x) /\ 0 <= c /\ d <= Len(src) /\ b - a = d - c

LEMMA CopyIs ==
  \A m, a, b, src, c, d :
    /\ Fits(m.buf, a, b, src, c, d) => Copy(m, a, b, src, c, d) = [m EXCEPT !.buf = Copied(m.buf, a, b, src, c)]
    /\ ~Fits(m.buf, a, b, src, c, d) => Copy(m, a, b, src, c, d) = [m EXCEPT !.ok = FALSE]
  BY DEF Copy, Copied, Fits

LEMMA CopiedType ==
  ASSUME NEW n \in Nat, NEW x \in Buffers(n), NEW src \in Seq(Byte),
         NEW a \in Int, NEW b \in Int, NEW c \in Int, NEW d \in Int, Fits(x, a, b, src, c, d)
  PROVE  Copied(x, a, b, src, c) \in Buffers(n)
<1>1. DOMAIN x = 1..n /\ \A i \in 1..n : x[i] \in Byte
  BY DEF Buffers
<1>2. PICK l \in Nat : l = Len(src) /\ \A i \in 1..l : src[i] \in Byte
  OBVIOUS
<1>3. ASSUME NEW i \in 1..n, a < i, i <= b PROVE src[i - a + c] \in Byte
  <2>1. i - a + c \in 1..l
    BY <1>2, <1>3 DEF Fits
  <2>2. QED
    BY <1>2, <2>1
<1>4. QED
  BY <1>1, <1>3 DEF Copied, Buffers

LEMMA CopyReads ==
  ASSUME NEW s, NEW n \in Nat, NEW m \in Reading(s, n), NEW src \in Seq(Byte),
         NEW a \in Int, NEW b \in Int, NEW c \in Int, NEW d \in Int,
         NEW r, r = Copy(m, a, b, src, c, d)
  PROVE  /\ r \in Reading(s, n) /\ r.open = m.open /\ r.start = m.start /\ r.ranges = m.ranges
         /\ r.cache = m.cache /\ r.disk = m.disk /\ r.spoiled = m.spoiled
<1>1. m.buf \in Buffers(n)
  BY DEF Reading
<1>2. CASE Fits(m.buf, a, b, src, c, d)
  <2>1. PICK x \in Buffers(n) : r = [m EXCEPT !.buf = x]
    BY <1>1, <1>2, CopyIs, CopiedType
  <2>2. QED
    BY <2>1 DEF Reading
<1>3. CASE ~Fits(m.buf, a, b, src, c, d)
  <2>1. r = [m EXCEPT !.ok = FALSE]
    BY <1>3, CopyIs
  <2>2. QED
    BY <2>1 DEF Reading
<1>4. QED
  BY <1>2, <1>3

LEMMA CopyWrites ==
  ASSUME NEW n \in Nat, NEW m \in Writing(n), NEW src \in Seq(Byte),
         NEW a \in Int, NEW b \in Int, NEW c \in Int, NEW d \in Int,
         NEW r, r = Copy(m, a, b, src, c, d)
  PROVE  r \in Writing(n) /\ r.cache = m.cache /\ r.disk = m.disk /\ r.spoiled = m.spoiled
<1>1. m.buf \in Buffers(n)
  BY DEF Writing
<1>2. CASE Fits(m.buf, a, b, src, c, d)
  <2>1. PICK x \in Buffers(n) : r = [m EXCEPT !.buf = x]
    BY <1>1, <1>2, CopyIs, CopiedType
  <2>2. QED
    BY <2>1 DEF Writing
<1>3. CASE ~Fits(m.buf, a, b, src, c, d)
  <2>1. r = [m EXCEPT !.ok = FALSE]
    BY <1>3, CopyIs
  <2>2. QED
    BY <2>1 DEF Writing
<1>4. QED
  BY <1>2, <1>3

LEMMA TouchCaches ==
  ASSUME NEW c \in Caches, NEW e \in Entries, Cached(c, e.block)
  PROVE  Touch(c, e) \in Caches /\ Contents(Touch(c, e)) = {x \in Contents(c) : x.block # e.block} \cup {e}
<1>1. c \in Seq(Entries) /\ Len(c) <= CacheSize /\ Distinct(c)
  BY DEF Caches
<1>2. /\ Touch(c, e) \in Seq(Entries) /\ Len(Touch(c, e)) = Len(c) /\ Distinct(Touch(c, e))
      /\ Contents(Touch(c, e)) = {x \in Contents(c) : x.block # e.block} \cup {e}
  BY <1>1, TouchIs
<1>3. QED
  BY <1>1, <1>2 DEF Caches

LEMMA LookupCaches ==
  ASSUME NEW c \in Caches, NEW b, Cached(c, b)
  PROVE  Lookup(c, b) \in Contents(c) /\ Lookup(c, b) \in Entries /\ Lookup(c, b).block = b
  BY LookupIs DEF Caches

\* What inserting an entry does to the cache and to the disk.
Evicted(c, d, e) == IF Len(c) = CacheSize /\ Last(c).dirty THEN [d EXCEPT ![e.block] = Last(c).data] ELSE d

\* And the blocks it spoils.
Displaced(c, e) == IF Len(c) = CacheSize /\ Last(c).dirty THEN {Last(c).block, e.block} ELSE {}

LEMMA EvictedType ==
  ASSUME NEW c \in Caches, NEW d \in Disks, NEW e \in Entries
  PROVE  Evicted(c, d, e) \in Disks /\ Displaced(c, e) \subseteq Block
<1>1. CASE Len(c) = CacheSize /\ Last(c).dirty
  <2>1. Last(c) \in Entries
    BY <1>1, LastIs, ContentsType DEF Caches
  <2>2. Last(c).data \in Data
    BY <2>1, EntryIs
  <2>3. Evicted(c, d, e) \in Disks
    BY <1>1, <2>2 DEF Evicted, Disks
  <2>4. Last(c).block \in Block /\ e.block \in Block
    BY <2>1, EntryIs
  <2>5. QED
    BY <2>3, <2>4 DEF Displaced
<1>2. CASE ~(Len(c) = CacheSize /\ Last(c).dirty)
  BY <1>2 DEF Evicted, Displaced
<1>3. QED
  BY <1>1, <1>2

LEMMA InsertReads ==
  ASSUME NEW s, NEW n \in Nat, NEW m \in Reading(s, n), NEW e \in Entries, ~Cached(m.cache, e.block),
         NEW r, r = InsertEntry(m, e)
  PROVE  /\ r \in Reading(s, n) /\ r.open = m.open /\ r.start = m.start /\ r.ranges = m.ranges
         /\ r.ok = m.ok /\ r.buf = m.buf
         /\ r.cache = Grown(m.cache, e) /\ r.disk = Evicted(m.cache, m.disk, e)
         /\ r.spoiled = m.spoiled \cup Displaced(m.cache, e)
<1>1. m.cache \in Caches /\ m.disk \in Disks /\ m.spoiled \subseteq Block
  BY DEF Reading
<1>2. PICK c \in Caches : c = Grown(m.cache, e)
  BY <1>1, GrownIs
<1>3. PICK d \in Disks : d = Evicted(m.cache, m.disk, e)
  BY <1>1, EvictedType
<1>4. PICK p \in SUBSET Block :
        /\ p = m.spoiled \cup Displaced(m.cache, e)
        /\ p = IF Len(m.cache) = CacheSize /\ Last(m.cache).dirty
               THEN m.spoiled \cup {Last(m.cache).block, e.block} ELSE m.spoiled
  <2>1. m.spoiled \cup Displaced(m.cache, e) \subseteq Block
    BY <1>1, EvictedType
  <2>2. QED
    BY <2>1 DEF Displaced
<1>5. r = [m EXCEPT !.cache = c, !.disk = d, !.spoiled = p]
  BY <1>2, <1>3, <1>4, InsertIs DEF Evicted
<1>6. QED
  BY <1>2, <1>3, <1>4, <1>5 DEF Reading

LEMMA InsertWrites ==
  ASSUME NEW n \in Nat, NEW m \in Writing(n), NEW e \in Entries, ~Cached(m.cache, e.block),
         NEW r, r = InsertEntry(m, e)
  PROVE  /\ r \in Writing(n) /\ r.ok = m.ok /\ r.buf = m.buf
         /\ r.cache = Grown(m.cache, e) /\ r.disk = Evicted(m.cache, m.disk, e)
         /\ r.spoiled = m.spoiled \cup Displaced(m.cache, e)
<1>1. m.cache \in Caches /\ m.disk \in Disks /\ m.spoiled \subseteq Block
  BY DEF Writing
<1>2. PICK c \in Caches : c = Grown(m.cache, e)
  BY <1>1, GrownIs
<1>3. PICK d \in Disks : d = Evicted(m.cache, m.disk, e)
  BY <1>1, EvictedType
<1>4. PICK p \in SUBSET Block :
        /\ p = m.spoiled \cup Displaced(m.cache, e)
        /\ p = IF Len(m.cache) = CacheSize /\ Last(m.cache).dirty
               THEN m.spoiled \cup {Last(m.cache).block, e.block} ELSE m.spoiled
  <2>1. m.spoiled \cup Displaced(m.cache, e) \subseteq Block
    BY <1>1, EvictedType
  <2>2. QED
    BY <2>1 DEF Displaced
<1>5. r = [m EXCEPT !.cache = c, !.disk = d, !.spoiled = p]
  BY <1>2, <1>3, <1>4, InsertIs DEF Evicted
<1>6. QED
  BY <1>2, <1>3, <1>4, <1>5 DEF Writing

LEMMA TouchReads ==
  ASSUME NEW s, NEW n \in Nat, NEW m \in Reading(s, n), NEW e \in Entries, Cached(m.cache, e.block),
         NEW r, r = [m EXCEPT !.cache = Touch(m.cache, e)]
  PROVE  /\ r \in Reading(s, n) /\ r.open = m.open /\ r.start = m.start /\ r.ranges = m.ranges
         /\ r.ok = m.ok /\ r.buf = m.buf /\ r.disk = m.disk /\ r.cache = Touch(m.cache, e)
         /\ r.spoiled = m.spoiled
<1>1. m.cache \in Caches
  BY DEF Reading
<1>2. PICK c \in Caches : c = Touch(m.cache, e)
  BY <1>1, TouchCaches
<1>3. r = [m EXCEPT !.cache = c]
  BY <1>2
<1>4. QED
  BY <1>2, <1>3 DEF Reading

-----------------------------------------------------------------------------
(***************************************************************************)
(* Reading whole blocks.                                                   *)
(***************************************************************************)
\* Byte a of the disk d.
ByteAt(d, a) == d[a \div BlockSize][(a % BlockSize) + 1]

LEMMA ByteAtIs ==
  ASSUME NEW d, NEW b \in Nat, NEW i \in 1..BlockSize
  PROVE  ByteAt(d, b * BlockSize + i - 1) = d[b][i]
<1>1. BlockSize \in Nat
  BY SizesAssumption
<1>2. PICK x \in Int : x = b * BlockSize
  BY Products
<1>3. i - 1 \in 0..(BlockSize - 1) /\ (i - 1) + 1 = i /\ x + i - 1 = x + (i - 1)
  BY <1>1
<1>4. (x + (i - 1)) \div BlockSize = b /\ (x + (i - 1)) % BlockSize = i - 1
  BY <1>2, <1>3, SplitOnly
<1>5. QED
  BY <1>2, <1>3, <1>4 DEF ByteAt

\* The i-th byte read is the byte i of the disk from the first block on.
LEMMA ReadBlocksIs ==
  ASSUME NEW d, NEW first \in Nat, NEW n \in Nat
  PROVE  /\ DOMAIN ReadBlocks(d, first, n) = 1..(n * BlockSize)
         /\ \A i \in 1..(n * BlockSize) :
              /\ ReadBlocks(d, first, n)[i] = ByteAt(d, first * BlockSize + i - 1)
              /\ (first * BlockSize + i - 1) \div BlockSize \in first..(first + n - 1)
<1> DEFINE f == ReadBlocks(d, first, n)
<1>1. f = [i \in 1..(n * BlockSize) |->
             d[first + (i - 1) \div BlockSize][((i - 1) % BlockSize) + 1]]
  BY DEF ReadBlocks
<1> HIDE DEF f
<1>2. DOMAIN f = 1..(n * BlockSize)
  BY <1>1
<1>3. BlockSize \in Nat /\ n * BlockSize \in Nat /\ first * BlockSize \in Nat
  BY SizesAssumption
<1>4. PICK x \in Nat : x = first * BlockSize
  BY <1>3
<1>5. ASSUME NEW i \in 1..(n * BlockSize)
      PROVE  /\ f[i] = ByteAt(d, first * BlockSize + i - 1)
             /\ (first * BlockSize + i - 1) \div BlockSize \in first..(first + n - 1)
  <2>1. i - 1 \in Nat
    BY <1>3
  <2>2. PICK q \in Nat, r \in 0..(BlockSize - 1) :
          /\ q = (i - 1) \div BlockSize /\ r = (i - 1) % BlockSize
          /\ i - 1 = q * BlockSize + r
    BY <2>1, SplitIs
  <2>3. first + q \in Nat /\ (first + q) * BlockSize = x + q * BlockSize
    BY <1>3, <1>4
  <2>4. PICK y \in Int : y = q * BlockSize
    BY Products
  <2>5. first * BlockSize + i - 1 = (first + q) * BlockSize + r
    BY <1>3, <1>4, <2>2, <2>3, <2>4
  <2>6. /\ (first * BlockSize + i - 1) \div BlockSize = first + q
        /\ (first * BlockSize + i - 1) % BlockSize = r
    BY <2>3, <2>5, SplitOnly
  <2>7. f[i] = d[first + q][r + 1]
    BY <1>1, <2>2
  <2>8. q < n
    <3> SUFFICES ASSUME n <= q PROVE FALSE
      OBVIOUS
    <3>1. n * BlockSize <= y
      BY <2>4, Products
    <3>2. QED
      BY <1>3, <2>2, <2>4, <3>1
  <2>9. QED
    BY <2>6, <2>7, <2>8 DEF ByteAt
<1>6. QED
  BY <1>2, <1>5 DEF f

LEMMA ReadBlocksType ==
  ASSUME NEW d \in Disks, NEW first \in Nat, NEW n \in Nat, first + n <= LastBlock + 1
  PROVE  /\ n * BlockSize \in Nat /\ ReadBlocks(d, first, n) \in Buffers(n * BlockSize)
         /\ ReadBlocks(d, first, n) \in Seq(Byte) /\ Len(ReadBlocks(d, first, n)) = n * BlockSize
<1> DEFINE f == ReadBlocks(d, first, n)
<1>1. n * BlockSize \in Nat /\ BlockSize \in Nat \ {0} /\ first * BlockSize \in Nat /\ LastBlock \in Nat
  BY SizesAssumption
<1>2. ASSUME NEW i \in 1..(n * BlockSize) PROVE f[i] \in Byte
  <2> DEFINE a == first * BlockSize + i - 1
  <2>1. a \in Nat
    BY <1>1
  <2>2. f[i] = ByteAt(d, a) /\ a \div BlockSize \in first..(first + n - 1)
    BY ReadBlocksIs
  <2> HIDE DEF a, f
  <2>3. a \div BlockSize \in Block
    BY <1>1, <2>2 DEF Block
  <2>4. d[a \div BlockSize] \in Data
    BY <2>3 DEF Disks
  <2>5. (a % BlockSize) + 1 \in 1..BlockSize
    BY <2>1, <1>1, SplitIs
  <2>6. QED
    BY <2>2, <2>4, <2>5 DEF ByteAt, Data
<1>3. f = [i \in 1..(n * BlockSize) |-> f[i]]
  BY DEF ReadBlocks
<1> HIDE DEF f
<1>4. f \in Buffers(n * BlockSize)
  BY <1>2, <1>3 DEF Buffers
<1>5. QED
  BY <1>1, <1>4, BufferIs DEF f

\* The k-th block of n lies in the data.
LEMMA BlockOfIs ==
  ASSUME NEW n \in Nat, NEW data, NEW k \in 1..n
  PROVE  /\ \A i \in 1..BlockSize : /\ (k - 1) * BlockSize + i \in 1..(n * BlockSize)
                                    /\ BlockOf(data, k)[i] = data[(k - 1) * BlockSize + i]
         /\ data \in Buffers(n * BlockSize) => BlockOf(data, k) \in Data
<1>1. BlockSize \in Nat \ {0} /\ n * BlockSize \in Nat /\ (k - 1) * BlockSize \in Nat
  BY SizesAssumption
<1>2. (k - 1) * BlockSize + BlockSize <= n * BlockSize
  <2>1. k - 1 \in Int /\ n \in Int /\ k - 1 < n
    OBVIOUS
  <2>2. QED
    BY <2>1, Products
<1>3. PICK x \in Nat, y \in Nat : x = (k - 1) * BlockSize /\ y = n * BlockSize /\ x + BlockSize <= y
  BY <1>1, <1>2
<1>4. ASSUME NEW i \in 1..BlockSize
      PROVE  /\ (k - 1) * BlockSize + i \in 1..(n * BlockSize)
             /\ BlockOf(data, k)[i] = data[(k - 1) * BlockSize + i]
  <2>1. x + i \in 1..y
    BY <1>1, <1>3
  <2>2. QED
    BY <1>3, <2>1 DEF BlockOf
<1>5. ASSUME data \in Buffers(n * BlockSize) PROVE BlockOf(data, k) \in Data
  <2>1. \A i \in 1..BlockSize : data[(k - 1) * BlockSize + i] \in Byte
    BY <1>4, <1>5 DEF Buffers
  <2>2. QED
    BY <2>1 DEF BlockOf, Data
<1>6. QED
  BY <1>4, <1>5

-----------------------------------------------------------------------------
(***************************************************************************)
(* The steps of a read keep its type.                                      *)
(***************************************************************************)
\* An access within the disk.
Access(s) ==
  /\ s.from \in Nat /\ s.to \in Nat /\ s.from <= s.to /\ s.to < LastBlock
  /\ s.off \in 0..(BlockSize - 1) /\ s.tail \in 1..BlockSize
  /\ s.blocks \in Nat /\ s.blocks <= s.to - s.from + 1

LEMMA AccessIs == \A s, k : SpanOf(s, k) => Access(s)
  BY DEF SpanOf, Access

LEMMA CopyCachedReads ==
  ASSUME NEW s, Access(s), NEW n \in Nat, NEW m \in Reading(s, n), NEW b \in s.from..s.to, Cached(m.cache, b),
         NEW r, r = CopyCached(m, s, b)
  PROVE  /\ r \in Reading(s, n) /\ r.open = m.open /\ r.start = m.start /\ r.ranges = m.ranges
         /\ r.cache = Touch(m.cache, Lookup(m.cache, b)) /\ r.disk = m.disk /\ r.spoiled = m.spoiled
<1>1. m.cache \in Caches
  BY DEF Reading
<1>2. PICK e \in Entries : e = Lookup(m.cache, b) /\ e.block = b
  BY <1>1, LookupCaches
<1>3. PICK hit : hit = [m EXCEPT !.cache = Touch(m.cache, e)]
  OBVIOUS
<1>4. /\ hit \in Reading(s, n) /\ hit.open = m.open /\ hit.start = m.start /\ hit.ranges = m.ranges
      /\ hit.buf = m.buf /\ hit.cache = Touch(m.cache, e) /\ hit.disk = m.disk /\ hit.spoiled = m.spoiled
  BY <1>2, <1>3, TouchReads
<1>5. e.data \in Seq(Byte)
  BY EntryIs, DataIs, BufferIs
<1>6. PICK l \in Nat : l = Len(m.buf)
  BY BufferIs DEF Reading
<1>7. \E a, c, d, o \in Int : r = Copy(hit, a, c, e.data, d, o)
  <2> DEFINE rest == BlockSize - s.off
             middle == rest + (s.from - b) * BlockSize
             late == rest + (s.blocks - 2) * BlockSize
  <2>1. r = IF b = s.from /\ b = s.to THEN Copy(hit, 0, l, e.data, s.off, s.tail)
            ELSE IF b = s.from THEN Copy(hit, 0, rest, e.data, s.off, BlockSize)
            ELSE IF b = s.to THEN Copy(hit, late, l, e.data, 0, s.tail)
            ELSE Copy(hit, middle, middle + BlockSize, e.data, 0, BlockSize)
    BY <1>2, <1>3, <1>4, <1>6 DEF CopyCached
  <2>2. s.from \in Nat /\ b \in Nat /\ s.blocks \in Int /\ s.off \in Int /\ s.tail \in Int /\ BlockSize \in Int
    BY SizesAssumption DEF Access
  <2>3. rest \in Int /\ middle \in Int /\ late \in Int /\ middle + BlockSize \in Int
    BY <2>2
  <2> HIDE DEF rest, middle, late
  <2>4. QED
    BY <1>6, <2>1, <2>2, <2>3
<1>8. PICK a \in Int, c \in Int, d \in Int, o \in Int : r = Copy(hit, a, c, e.data, d, o)
  BY <1>7
<1>9. /\ r \in Reading(s, n) /\ r.open = hit.open /\ r.start = hit.start /\ r.ranges = hit.ranges
      /\ r.cache = hit.cache /\ r.disk = hit.disk /\ r.spoiled = hit.spoiled
  BY <1>4, <1>5, <1>8, CopyReads
<1>10. QED
  BY <1>2, <1>4, <1>9

\* After k blocks of the first loop, an open range starts at one of them.
Scanning(s, n, k) == {m \in Reading(s, n) : m.open => m.start \in s.from..(s.from + k - 1)}

LEMMA ScanReads ==
  ASSUME NEW s, Access(s), NEW n \in Nat, NEW i \in 1..s.blocks, NEW m \in Scanning(s, n, i - 1)
  PROVE  Scan(m, s, s.from + i - 1) \in Scanning(s, n, i)
<1>1. s.from \in Nat /\ s.to \in Nat /\ s.blocks \in Nat /\ s.blocks <= s.to - s.from + 1
  BY DEF Access
<1>2. PICK b \in s.from..s.to : b = s.from + i - 1
  BY <1>1
<1>3. b \in Nat /\ i \in Nat /\ s.from + i - 1 = b /\ s.from + (i - 1) - 1 = b - 1
  BY <1>1, <1>2
<1>4. m \in Reading(s, n) /\ (m.open => m.start \in s.from..(b - 1))
  BY <1>3 DEF Scanning
<1>5. m.open \in BOOLEAN /\ m.start \in Nat /\ m.ranges \in Seq(Ranges(s))
  BY <1>4 DEF Reading
<1> DEFINE r == Scan(m, s, b)
<1>6. r \in Reading(s, n) /\ (r.open => r.start \in s.from..b)
  <2>1. CASE ~m.ok
    <3>1. r = m
      BY <2>1 DEF Scan
    <3>2. QED
      BY <1>1, <1>3, <1>4, <3>1
  <2>2. CASE m.ok /\ ~Cached(m.cache, b) /\ m.open
    <3>1. r = m
      BY <2>2 DEF Scan
    <3>2. QED
      BY <1>1, <1>3, <1>4, <3>1
  <2>3. CASE m.ok /\ ~Cached(m.cache, b) /\ ~m.open
    <3>1. r = [m EXCEPT !.open = TRUE, !.start = b]
      BY <2>3 DEF Scan
    <3> HIDE DEF r
    <3>2. r \in Reading(s, n)
      BY <1>3, <1>4, <3>1 DEF Reading
    <3>3. r.start = b
      BY <1>4, <3>1 DEF Reading
    <3>4. QED
      BY <1>2, <1>3, <3>2, <3>3
  <2>4. CASE m.ok /\ Cached(m.cache, b)
    <3>1. PICK hit : hit = CopyCached(m, s, b)
      OBVIOUS
    <3>2. hit \in Reading(s, n) /\ hit.open = m.open /\ hit.start = m.start /\ hit.ranges = m.ranges
      BY <1>2, <1>4, <2>4, <3>1, CopyCachedReads
    <3>3. r = IF m.open THEN [hit EXCEPT !.ranges = Append(hit.ranges, <<m.start, b>>)] ELSE hit
      BY <2>4, <3>1 DEF Scan
    <3> HIDE DEF r
    <3>4. CASE m.open
      <4>1. <<m.start, b>> \in Ranges(s)
        <5>1. PICK f \in Nat, e \in Nat, a \in Nat : f = s.from /\ e = s.to /\ a = m.start /\ b \in f..e /\ a \in f..(b - 1)
          BY <1>1, <1>2, <1>4, <1>5, <3>4
        <5>2. b \in Nat /\ f <= a /\ a < b /\ b <= e + 1
          BY <1>3, <5>1
        <5>3. <<a, b>> \in Ranges(s)
          BY <5>1, <5>2 DEF Ranges
        <5>4. QED
          BY <5>1, <5>3
      <4>2. PICK q \in Seq(Ranges(s)) : q = Append(hit.ranges, <<m.start, b>>)
        <5>1. PICK pair \in Ranges(s) : pair = <<m.start, b>>
          BY <4>1
        <5>2. Append(hit.ranges, pair) \in Seq(Ranges(s))
          BY <1>5, <3>2
        <5>3. QED
          BY <5>1, <5>2
      <4>3. r = [hit EXCEPT !.ranges = q]
        BY <3>3, <3>4, <4>2
      <4>4. r \in Reading(s, n) /\ r.open = hit.open /\ r.start = hit.start
        BY <3>2, <4>3 DEF Reading
      <4>5. m.start \in s.from..b
        BY <1>1, <1>3, <1>4, <3>4
      <4>6. QED
        BY <3>2, <4>4, <4>5
    <3>5. CASE ~m.open
      BY <3>2, <3>3, <3>5
    <3>6. QED
      BY <3>4, <3>5
  <2>5. QED
    BY <2>1, <2>2, <2>3, <2>4
<1> HIDE DEF r
<1>7. s.from + i - 1 = b
  BY <1>3
<1>8. QED
  BY <1>6, <1>7 DEF Scanning, r

LEMMA ScannedReads ==
  ASSUME NEW s, Access(s), NEW n \in Nat, NEW m \in Scanning(s, n, 0)
  PROVE  Scanned(m, s) \in Scanning(s, n, s.blocks)
<1> DEFINE S == [k \in 0..s.blocks |-> Scanning(s, n, k)]
<1>1. s.blocks \in Nat
  BY DEF Access
<1>2. m \in S[0] /\ S[s.blocks] = Scanning(s, n, s.blocks)
  BY <1>1
<1>3. ASSUME NEW i \in 1..s.blocks, NEW x \in S[i - 1] PROVE Scan(x, s, s.from + i - 1) \in S[i]
  <2>1. i \in 0..s.blocks /\ i - 1 \in 0..s.blocks
    BY <1>1
  <2>2. x \in Scanning(s, n, i - 1)
    BY <1>3, <2>1
  <2>3. QED
    BY <2>1, <2>2, ScanReads
<1> HIDE DEF S
<1>4. QED
  BY <1>1, <1>2, <1>3, ScannedStays

\* The second loop.
LEMMA CacheReadReads ==
  ASSUME NEW s, NEW n \in Nat, NEW m \in Reading(s, n), NEW b \in Block, NEW data \in Data
  PROVE  CacheRead(m, b, data) \in Reading(s, n)
<1>1. m.cache \in Caches
  BY DEF Reading
<1>2. CASE Cached(m.cache, b)
  <2>1. PICK l \in Entries : l = Lookup(m.cache, b) /\ l.block = b
    BY <1>1, <1>2, LookupCaches
  <2>2. PICK e \in Entries : e = [l EXCEPT !.data = data] /\ e.block = b
    <3>1. [l EXCEPT !.data = data] \in Entries /\ [l EXCEPT !.data = data].block = b
      BY <2>1 DEF Entries, Data
    <3>2. QED
      BY <3>1
  <2>3. CacheRead(m, b, data) = [m EXCEPT !.cache = Touch(m.cache, e)]
    BY <1>2, <2>1, <2>2 DEF CacheRead
  <2>4. QED
    BY <1>2, <2>2, <2>3, TouchReads
<1>3. CASE ~Cached(m.cache, b)
  <2>1. PICK e \in Entries : e = Entry(b, data, FALSE) /\ e.block = b
    <3>1. FALSE \in BOOLEAN
      OBVIOUS
    <3>2. Entry(b, data, FALSE) \in Entries /\ Entry(b, data, FALSE).block = b
      BY <3>1, EntryIs
    <3>3. QED
      BY <3>2
  <2>2. CacheRead(m, b, data) = InsertEntry(m, e)
    BY <1>3, <2>1 DEF CacheRead
  <2>3. QED
    BY <1>3, <2>1, <2>2, InsertReads
<1>4. QED
  BY <1>2, <1>3

LEMMA CacheRangeReads ==
  ASSUME NEW s, NEW n \in Nat, NEW m \in Reading(s, n), NEW first \in Nat, NEW l \in Nat,
         first + l <= LastBlock + 1, NEW data \in Buffers(l * BlockSize)
  PROVE  CacheRange(m, first, data, l) \in Reading(s, n)
<1> DEFINE S == [k \in 0..Kept(l) |-> Reading(s, n)]
<1>1. Kept(l) \in Nat /\ Kept(l) <= l
  BY SizesAssumption DEF Kept, Least
<1>2. m \in S[0] /\ S[Kept(l)] = Reading(s, n)
  BY <1>1
<1>3. ASSUME NEW i \in 1..Kept(l), NEW x \in S[i - 1]
      PROVE  CacheRead(x, first + i - 1, BlockOf(data, l - Kept(l) + i)) \in S[i]
  <2>1. i \in 0..Kept(l) /\ i - 1 \in 0..Kept(l)
    BY <1>1
  <2>2. l - Kept(l) + i \in 1..l
    BY <1>1
  <2>3. first + i - 1 \in Block
    BY <1>1, SizesAssumption DEF Block
  <2>4. BlockOf(data, l - Kept(l) + i) \in Data
    BY <2>2, BlockOfIs
  <2>5. x \in Reading(s, n)
    BY <1>3, <2>1
  <2>6. QED
    BY <2>1, <2>3, <2>4, <2>5, CacheReadReads
<1> HIDE DEF S
<1>4. QED
  BY <1>1, <1>2, <1>3, CacheRangeStays

\* What reading l blocks for a range that starts at f spoils.
Relabelled(s, f, l) == IF s.from + l - Least(l, CacheSize) = f THEN {} ELSE f..(f + Least(l, CacheSize) - 1)
Marked(m, s, f, l) == [m EXCEPT !.spoiled = m.spoiled \cup Overwritten(m, s, l) \cup Relabelled(s, f, l)]

LEMMA MarkedReads ==
  ASSUME NEW s, Access(s), NEW n \in Nat, NEW m \in Reading(s, n), NEW f \in Nat, NEW l \in Nat,
         s.from + l <= s.to + 1, f + l <= s.to + 1
  PROVE  /\ Marked(m, s, f, l) \in Reading(s, n)
         /\ Marked(m, s, f, l).spoiled = m.spoiled \cup Overwritten(m, s, l) \cup Relabelled(s, f, l)
         /\ Marked(m, s, f, l).cache = m.cache /\ Marked(m, s, f, l).disk = m.disk
         /\ Marked(m, s, f, l).ok = m.ok /\ Marked(m, s, f, l).buf = m.buf
<1>1. s.from \in Nat /\ s.to \in Nat /\ s.to < LastBlock /\ LastBlock \in Nat
  BY SizesAssumption DEF Access
<1>2. Overwritten(m, s, l) \subseteq Block
  <2>1. \A b \in s.from..(s.from + l - 1) : b \in Block
    BY <1>1 DEF Block
  <2>2. QED
    BY <2>1 DEF Overwritten
<1>3. Relabelled(s, f, l) \subseteq Block
  <2>1. Least(l, CacheSize) \in Nat /\ Least(l, CacheSize) <= l
    BY SizesAssumption DEF Least
  <2>2. \A b \in f..(f + Least(l, CacheSize) - 1) : b \in Block
    BY <1>1, <2>1 DEF Block
  <2>3. QED
    BY <2>2 DEF Relabelled
<1>4. PICK p \in SUBSET Block : p = m.spoiled \cup Overwritten(m, s, l) \cup Relabelled(s, f, l)
  BY <1>2, <1>3 DEF Reading
<1>5. Marked(m, s, f, l) = [m EXCEPT !.spoiled = p]
  BY <1>4 DEF Marked
<1>6. QED
  BY <1>4, <1>5 DEF Reading

\* The blocks read for the range r, and the cache once they are in it.
Length(r) == (r[2] - r[1]) % TransferUnit
Refilled(m, s, r) ==
  CacheRange(Marked(m, s, r[1], Length(r)), r[1], ReadBlocks(m.disk, s.from, Length(r)), Length(r))

LEMMA FetchReads ==
  ASSUME NEW s, Access(s), NEW n \in Nat, NEW m \in Reading(s, n), NEW r \in Ranges(s)
  PROVE  /\ FetchRange(m, s, r) \in Reading(s, n)
         /\ ~m.ok => FetchRange(m, s, r) = m
         /\ m.ok => /\ FetchRange(m, s, r).cache = Refilled(m, s, r).cache
                    /\ FetchRange(m, s, r).disk = Refilled(m, s, r).disk
                    /\ FetchRange(m, s, r).spoiled = Refilled(m, s, r).spoiled
<1> DEFINE t == FetchRange(m, s, r)
<1>1. CASE ~m.ok
  <2>1. t = m
    BY <1>1 DEF FetchRange
  <2>2. QED
    BY <1>1, <2>1
<1>2. CASE m.ok
  <2>1. PICK f \in Nat, g \in Nat : r[1] = f /\ r[2] = g /\ s.from <= f /\ f < g /\ g <= s.to + 1
    BY DEF Ranges
  <2>2. /\ s.from \in Nat /\ s.to \in Nat /\ s.to < LastBlock /\ LastBlock \in Nat /\ BlockSize \in Nat
        /\ s.blocks \in Int /\ s.off \in Int /\ s.tail \in Int
    BY SizesAssumption DEF Access
  <2>3. PICK l \in Nat : l = (g - f) % TransferUnit /\ s.from + l <= s.to + 1 /\ f + l <= s.to + 1
    <3>1. PICK x \in Nat : x = g - f
      BY <2>1
    <3>2. x % TransferUnit \in Nat /\ x % TransferUnit <= x
      BY SizesAssumption
    <3>3. (g - f) % TransferUnit \in Nat /\ (g - f) % TransferUnit <= g - f
      BY <3>1, <3>2
    <3>4. QED
      BY <2>1, <2>2, <3>3
  <2>4. PICK data : /\ data = ReadBlocks(m.disk, s.from, l) /\ data \in Buffers(l * BlockSize)
                    /\ data \in Seq(Byte)
    <3>1. m.disk \in Disks
      BY DEF Reading
    <3>2. s.from + l <= LastBlock + 1
      BY <2>2, <2>3
    <3>3. QED
      BY <2>2, <3>1, <3>2, ReadBlocksType
  <2>5. PICK cached \in Reading(s, n) : cached = CacheRange(Marked(m, s, f, l), f, data, l)
    <3>1. Marked(m, s, f, l) \in Reading(s, n)
      BY <2>1, <2>2, <2>3, MarkedReads
    <3>2. f + l <= LastBlock + 1
      BY <2>1, <2>2, <2>3
    <3>3. QED
      BY <2>1, <2>4, <3>1, <3>2, CacheRangeReads
  <2>6. PICK z \in Nat, y \in Nat : z = Len(cached.buf) /\ y = Len(data)
    BY <2>4, BufferIs DEF Reading
  <2>7. PICK start \in Int : start = BlockSize - s.off + (f - s.from - 1) * BlockSize
    BY <2>1, <2>2
  <2>8. PICK end \in Int : end = BlockSize - s.off + (g - s.from - 1) * BlockSize
    BY <2>1, <2>2
  <2>9. PICK before \in Int, lastByte \in Int :
          before = (s.blocks - 1) * BlockSize /\ lastByte = before + s.tail
    <3>1. (s.blocks - 1) * BlockSize \in Int
      BY <2>2
    <3>2. QED
      BY <2>2, <3>1
  <2>10. z = Len(m.buf)
    <3>1. Len(m.buf) = n /\ Len(cached.buf) = n
      BY BufferIs DEF Reading
    <3>2. QED
      BY <2>6, <3>1
  <2>11. t = IF f = s.from /\ g = s.to + 1 THEN Copy(cached, 0, z, data, s.off, lastByte)
             ELSE IF f = s.from THEN Copy(cached, 0, end, data, s.off, before)
             ELSE IF g = s.to + 1 THEN Copy(cached, start, z, data, 0, lastByte)
             ELSE Copy(cached, start, end, data, 0, y)
    BY <1>2, <2>1, <2>3, <2>4, <2>5, <2>6, <2>7, <2>8, <2>9, <2>10 DEF FetchRange, Marked, Mislabelled, Relabelled
  <2> HIDE DEF t
  <2>12. PICK a \in Int, c \in Int, d \in Int, o \in Int : t = Copy(cached, a, c, data, d, o)
    BY <2>2, <2>6, <2>11
  <2>13. t \in Reading(s, n) /\ t.cache = cached.cache /\ t.disk = cached.disk /\ t.spoiled = cached.spoiled
    BY <2>4, <2>5, <2>12, CopyReads
  <2>14. cached = Refilled(m, s, r)
    BY <2>1, <2>3, <2>4, <2>5 DEF Refilled, Length
  <2>15. QED
    BY <1>2, <2>13, <2>14 DEF t
<1>3. m.ok \in BOOLEAN
  BY DEF Reading
<1>4. QED
  BY <1>1, <1>2, <1>3

LEMMA FetchedRangesReads ==
  ASSUME NEW s, Access(s), NEW n \in Nat, NEW m \in Reading(s, n), NEW ranges \in Seq(Ranges(s))
  PROVE  FetchedRanges(m, s, ranges) \in Reading(s, n)
<1> DEFINE l == Len(ranges)
           S == [k \in 0..l |-> Reading(s, n)]
<1>1. l \in Nat /\ \A i \in 1..l : ranges[i] \in Ranges(s)
  OBVIOUS
<1>2. m \in S[0] /\ S[l] = Reading(s, n)
  BY <1>1
<1>3. ASSUME NEW i \in 1..l, NEW x \in S[i - 1] PROVE FetchRange(x, s, ranges[i]) \in S[i]
  <2>1. i \in 0..l /\ i - 1 \in 0..l
    BY <1>1
  <2>2. x \in Reading(s, n)
    BY <1>3, <2>1
  <2>3. QED
    BY <1>1, <2>1, <2>2, FetchReads
<1> HIDE DEF S
<1>4. QED
  BY <1>1, <1>2, <1>3, FetchedStays

\* A read of n bytes whose access is s leaves a machine of its type.
LEMMA FetchedReads ==
  ASSUME NEW s, Access(s), NEW n \in Nat, cache \in Caches, disk \in Disks, spoiled \subseteq Block
  PROVE  Fetched(s, n) \in Reading(s, n)
<1> DEFINE m == [cache |-> cache, disk |-> disk, spoiled |-> spoiled,
                 buf |-> [i \in 1..n |-> 0], ok |-> TRUE, open |-> FALSE, start |-> 0, ranges |-> <<>>]
<1>1. m \in Scanning(s, n, 0)
  <2>1. 0 \in Byte
    BY SizesAssumption DEF Byte
  <2>2. [i \in 1..n |-> 0] \in Buffers(n)
    BY <2>1 DEF Buffers
  <2>3. <<>> \in Seq(Ranges(s))
    OBVIOUS
  <2>4. m \in Reading(s, n)
    BY <2>2, <2>3 DEF Reading
  <2>5. QED
    BY <2>4 DEF Scanning
<1> DEFINE scanned == Scanned(m, s)
           last == IF scanned.open THEN << <<scanned.start, s.to + 1>> >> ELSE <<>>
<1>2. Fetched(s, n) = FetchedRanges(scanned, s, scanned.ranges \o last)
  BY DEF Fetched
<1> HIDE DEF m
<1>3. scanned \in Scanning(s, n, s.blocks)
  BY <1>1, ScannedReads
<1>4. scanned \in Reading(s, n) /\ (scanned.open => scanned.start \in s.from..(s.from + s.blocks - 1))
  BY <1>3 DEF Scanning
<1> HIDE DEF scanned
<1>5. last \in Seq(Ranges(s))
  <2>1. CASE scanned.open
    <3>1. <<scanned.start, s.to + 1>> \in Ranges(s)
      BY <1>4, <2>1 DEF Access, Ranges
    <3>2. QED
      BY <2>1, <3>1
  <2>2. CASE ~scanned.open
    BY <2>2
  <2>3. QED
    BY <2>1, <2>2
<1> HIDE DEF last
<1>6. scanned.ranges \o last \in Seq(Ranges(s))
  BY <1>4, <1>5 DEF Reading
<1>7. QED
  BY <1>2, <1>4, <1>6, FetchedRangesReads

-----------------------------------------------------------------------------
(***************************************************************************)
(* The steps of a write keep its type.                                     *)
(***************************************************************************)
LEMMA FoundIs ==
  ASSUME NEW c \in Caches, NEW b
  PROVE  Found(c, b) \in Caches /\ Contents(Found(c, b)) = Contents(c)
<1>1. CASE Cached(c, b)
  <2>1. PICK e \in Entries : e = Lookup(c, b) /\ e.block = b /\ e \in Contents(c)
    BY <1>1, LookupCaches
  <2>2. Found(c, b) = Touch(c, e)
    BY <1>1, <2>1 DEF Found
  <2>3. /\ Touch(c, e) \in Caches
        /\ Contents(Touch(c, e)) = {x \in Contents(c) : x.block # e.block} \cup {e}
    BY <1>1, <2>1, TouchCaches
  <2>4. \A x \in Contents(c) : x.block = e.block => x = e
    <3>1. c \in Seq(Entries) /\ Distinct(c)
      BY DEF Caches
    <3>2. \A x \in Contents(c) : Lookup(c, x.block) = x
      BY <3>1, LookupOnly
    <3>3. QED
      BY <2>1, <3>2
  <2>5. QED
    BY <2>1, <2>2, <2>3, <2>4
<1>2. CASE ~Cached(c, b)
  BY <1>2 DEF Found
<1>3. QED
  BY <1>1, <1>2

LEMMA CurrentIs ==
  ASSUME cache \in Caches, disk \in Disks, NEW b \in Block
  PROVE  Current(b) \in Data
<1>1. CASE Cached(cache, b)
  BY <1>1, LookupCaches, EntryIs DEF Current
<1>2. CASE ~Cached(cache, b)
  BY <1>2 DEF Current, Disks
<1>3. QED
  BY <1>1, <1>2

LEMMA UpdatedWrites ==
  ASSUME NEW n \in Nat, NEW m \in Writing(n), NEW b \in Block, NEW data \in Data
  PROVE  UpdatedEntry(m, b, data) \in Writing(n)
<1>1. m.cache \in Caches
  BY DEF Writing
<1>2. CASE Cached(m.cache, b)
  <2>1. PICK e \in Entries : e = Entry(b, data, TRUE) /\ e.block = b
    <3>1. TRUE \in BOOLEAN
      OBVIOUS
    <3>2. Entry(b, data, TRUE) \in Entries /\ Entry(b, data, TRUE).block = b
      BY <3>1, EntryIs
    <3>3. QED
      BY <3>2
  <2>2. PICK c \in Caches : c = Touch(m.cache, e)
    BY <1>1, <1>2, <2>1, TouchCaches
  <2>3. UpdatedEntry(m, b, data) = [m EXCEPT !.cache = c]
    BY <1>2, <2>1, <2>2 DEF UpdatedEntry
  <2>4. QED
    BY <2>3 DEF Writing
<1>3. CASE ~Cached(m.cache, b)
  <2>1. PICK e \in Entries : e = Entry(b, data, FALSE) /\ e.block = b
    <3>1. FALSE \in BOOLEAN
      OBVIOUS
    <3>2. Entry(b, data, FALSE) \in Entries /\ Entry(b, data, FALSE).block = b
      BY <3>1, EntryIs
    <3>3. QED
      BY <3>2
  <2>2. UpdatedEntry(m, b, data) = InsertEntry(m, e)
    BY <1>3, <2>1 DEF UpdatedEntry
  <2>3. ~Cached(m.cache, e.block)
    BY <1>3, <2>1
  <2>4. QED
    BY <2>2, <2>3, InsertWrites
<1>4. QED
  BY <1>2, <1>3

\* What the patch makes of the block.
Patched(s, patch) ==
  Copy([cache |-> Found(cache, s.from), disk |-> disk, spoiled |-> spoiled, buf |-> Current(s.from),
        ok |-> TRUE],
       s.off, s.off + Len(patch), patch, 0, Len(patch))

LEMMA PatchedWrites ==
  ASSUME NEW s, Access(s), NEW patch \in Seq(Byte), cache \in Caches, disk \in Disks, spoiled \subseteq Block
  PROVE  /\ s.from \in Block /\ Patched(s, patch) \in Writing(BlockSize)
         /\ Patched(s, patch).cache = Found(cache, s.from) /\ Patched(s, patch).disk = disk
         /\ Patched(s, patch).spoiled = spoiled
<1>1. s.from \in Block /\ s.off \in Int
  BY SizesAssumption DEF Access, Block
<1>2. PICK m : m = [cache |-> Found(cache, s.from), disk |-> disk, spoiled |-> spoiled, buf |-> Current(s.from), ok |-> TRUE]
  OBVIOUS
<1>3. m \in Writing(BlockSize) /\ m.cache = Found(cache, s.from) /\ m.disk = disk /\ m.spoiled = spoiled
  <2>1. Found(cache, s.from) \in Caches
    BY FoundIs
  <2>2. Current(s.from) \in Buffers(BlockSize)
    BY <1>1, CurrentIs, DataIs
  <2>3. QED
    BY <1>2, <2>1, <2>2 DEF Writing
<1>4. PICK l \in Nat : l = Len(patch)
  OBVIOUS
<1>5. s.off + l \in Int
  BY <1>1
<1>6. Patched(s, patch) = Copy(m, s.off, s.off + l, patch, 0, l)
  BY <1>2, <1>4 DEF Patched
<1>7. BlockSize \in Nat /\ 0 \in Int /\ l \in Int
  BY SizesAssumption
<1>8. PICK r : r = Patched(s, patch)
  OBVIOUS
<1>9. r \in Writing(BlockSize) /\ r.cache = m.cache /\ r.disk = m.disk /\ r.spoiled = m.spoiled
  <2>1. PICK w \in Nat, x \in Int, y \in Int, z \in Int :
          w = BlockSize /\ x = s.off /\ y = s.off + l /\ z = 0
    BY <1>1, <1>5, <1>7
  <2>2. r = Copy(m, x, y, patch, z, l)
    BY <1>6, <1>8, <2>1
  <2>3. m \in Writing(w) /\ l \in Int
    BY <1>3, <2>1
  <2>4. r \in Writing(w) /\ r.cache = m.cache /\ r.disk = m.disk /\ r.spoiled = m.spoiled
    BY <2>2, <2>3, CopyWrites
  <2>5. QED
    BY <2>1, <2>4
<1>10. QED
  BY <1>1, <1>3, <1>8, <1>9

LEMMA WriteOneWrites ==
  ASSUME NEW s, Access(s), NEW patch \in Seq(Byte), cache \in Caches, disk \in Disks, spoiled \subseteq Block
  PROVE  WriteOne(s, patch) \in Writing(BlockSize)
<1>1. PICK m : m = Patched(s, patch)
  OBVIOUS
<1>2. s.from \in Block /\ m \in Writing(BlockSize)
  BY <1>1, PatchedWrites
<1>3. WriteOne(s, patch) = IF m.ok THEN UpdatedEntry(m, s.from, m.buf) ELSE m
  BY <1>1 DEF WriteOne, Patched
<1>4. m.buf \in Data /\ BlockSize \in Nat
  BY <1>2, DataIs DEF Writing
<1>5. UpdatedEntry(m, s.from, m.buf) \in Writing(BlockSize)
  BY <1>2, <1>4, UpdatedWrites
<1>6. QED
  BY <1>2, <1>3, <1>5

LEMMA CacheWrittenWrites ==
  ASSUME NEW s, Access(s), NEW i \in 1..s.blocks, NEW m \in Writing(s.blocks * BlockSize)
  PROVE  CacheWritten(m, s, s.from + i - 1) \in Writing(s.blocks * BlockSize)
<1>1. PICK b \in Block : b = s.from + i - 1 /\ b - s.from + 1 = i
  BY SizesAssumption DEF Access, Block
<1>2. s.blocks \in Nat /\ s.blocks * BlockSize \in Nat
  BY SizesAssumption DEF Access
<1>3. PICK n \in Nat : n = s.blocks * BlockSize
  BY <1>2
<1>4. PICK r : r = CacheWritten(m, s, b)
  OBVIOUS
<1>5. m \in Writing(n) /\ m.ok \in BOOLEAN
  BY <1>3 DEF Writing
<1>6. r \in Writing(n)
  <2>1. CASE ~m.ok
    BY <1>4, <1>5, <2>1 DEF CacheWritten
  <2>2. CASE m.ok /\ Cached(m.cache, b)
    <3>1. s.from..s.to \subseteq Block
      BY SizesAssumption DEF Access, Block
    <3>2. PICK p \in SUBSET Block : p = m.spoiled \cup (s.from..s.to)
      BY <1>5, <3>1 DEF Writing
    <3>3. r = [m EXCEPT !.ok = FALSE, !.spoiled = p]
      BY <1>4, <2>2, <3>2 DEF CacheWritten
    <3>4. QED
      BY <1>5, <3>3 DEF Writing
  <2>3. CASE m.ok /\ ~Cached(m.cache, b)
    <3>1. BlockOf(m.buf, i) \in Data
      <4>1. m.buf \in Buffers(s.blocks * BlockSize)
        BY DEF Writing
      <4>2. QED
        BY <1>2, <4>1, BlockOfIs
    <3>2. PICK e \in Entries : e = Entry(b, BlockOf(m.buf, i), FALSE) /\ e.block = b
      <4>1. FALSE \in BOOLEAN
        OBVIOUS
      <4>2. Entry(b, BlockOf(m.buf, i), FALSE) \in Entries /\ Entry(b, BlockOf(m.buf, i), FALSE).block = b
        BY <3>1, <4>1, EntryIs
      <4>3. QED
        BY <4>2
    <3>3. r = InsertEntry(m, e)
      BY <1>1, <1>4, <2>3, <3>2 DEF CacheWritten
    <3>4. ~Cached(m.cache, e.block)
      BY <2>3, <3>2
    <3>5. QED
      BY <1>5, <3>3, <3>4, InsertWrites
  <2>4. QED
    BY <2>1, <2>2, <2>3
<1>7. QED
  BY <1>1, <1>3, <1>4, <1>6

LEMMA CacheAllWrites ==
  ASSUME NEW s, Access(s), NEW m \in Writing(s.blocks * BlockSize)
  PROVE  CacheAllWritten(m, s) \in Writing(s.blocks * BlockSize)
<1> DEFINE S == [k \in 0..s.blocks |-> Writing(s.blocks * BlockSize)]
<1>1. s.blocks \in Nat
  BY DEF Access
<1>2. m \in S[0] /\ S[s.blocks] = Writing(s.blocks * BlockSize)
  BY <1>1
<1>3. ASSUME NEW i \in 1..s.blocks, NEW x \in S[i - 1] PROVE CacheWritten(x, s, s.from + i - 1) \in S[i]
  <2>1. i \in 0..s.blocks /\ i - 1 \in 0..s.blocks
    BY <1>1
  <2>2. x \in Writing(s.blocks * BlockSize)
    BY <1>3, <2>1
  <2>3. CacheWritten(x, s, s.from + i - 1) \in Writing(s.blocks * BlockSize)
    BY <2>2, CacheWrittenWrites
  <2>4. QED
    BY <2>1, <2>3
<1> HIDE DEF S
<1>4. QED
  BY <1>1, <1>2, <1>3, AllWrittenStays

\* The blocks around a write of several, with the first and the last as they are, and
\* what the patch makes of them.
Around(s) ==
  [i \in 1..(s.blocks * BlockSize) |->
     IF i <= BlockSize THEN Current(s.from)[i]
     ELSE IF i > (s.blocks - 1) * BlockSize THEN Current(s.to)[i - (s.blocks - 1) * BlockSize]
     ELSE 0]
PatchedMany(s, patch) ==
  Copy([cache |-> Found(Found(cache, s.from), s.to), disk |-> disk, spoiled |-> spoiled,
        buf |-> Around(s), ok |-> s.blocks > 0],
       s.off, s.off + Len(patch), patch, 0, Len(patch))

\* It goes to the disk.
Through(s, m) ==
  [m EXCEPT !.disk = [b \in Block |-> IF b \in s.from..(s.from + s.blocks - 1) THEN BlockOf(m.buf, b - s.from + 1) ELSE disk[b]]]

LEMMA AroundType ==
  ASSUME NEW s, Access(s), cache \in Caches, disk \in Disks
  PROVE  Around(s) \in Buffers(s.blocks * BlockSize)
<1>0. CASE s.blocks = 0
  <2>1. s.blocks * BlockSize = 0
    BY <1>0, SizesAssumption
  <2>2. \A i \in 1..(s.blocks * BlockSize) : FALSE
    BY <2>1
  <2>3. QED
    BY <2>2 DEF Around, Buffers
<1> SUFFICES ASSUME s.blocks # 0 PROVE Around(s) \in Buffers(s.blocks * BlockSize)
  BY <1>0
<1>1. s.from \in Block /\ s.to \in Block /\ s.blocks \in Nat /\ BlockSize \in Nat
  BY SizesAssumption DEF Access, Block
<1>2. PICK x : x = Current(s.from) /\ \A i \in 1..BlockSize : x[i] \in Byte
  BY <1>1, CurrentIs DEF Data
<1>3. PICK y : y = Current(s.to) /\ \A i \in 1..BlockSize : y[i] \in Byte
  BY <1>1, CurrentIs DEF Data
<1>4. PICK n \in Nat, l \in Nat : n = s.blocks * BlockSize /\ l = (s.blocks - 1) * BlockSize /\ n = l + BlockSize
  <2>1. PICK q \in Nat : q = s.blocks - 1 /\ s.blocks = q + 1
    BY <1>1
  <2>2. q * BlockSize \in Nat /\ (q + 1) * BlockSize \in Nat
    BY <1>1
  <2>3. (q + 1) * BlockSize = q * BlockSize + BlockSize
    BY <2>1, Products
  <2>4. QED
    BY <2>1, <2>2, <2>3
<1>5. 0 \in Byte
  BY SizesAssumption DEF Byte
<1>6. Around(s) = [i \in 1..n |-> IF i <= BlockSize THEN x[i] ELSE IF i > l THEN y[i - l] ELSE 0]
  BY <1>2, <1>3, <1>4 DEF Around
<1>7. ASSUME NEW i \in 1..n PROVE (IF i <= BlockSize THEN x[i] ELSE IF i > l THEN y[i - l] ELSE 0) \in Byte
  <2>1. i <= BlockSize => i \in 1..BlockSize
    BY <1>1, <1>4
  <2>2. i > l => i - l \in 1..BlockSize
    BY <1>1, <1>4
  <2>3. QED
    BY <1>2, <1>3, <1>5, <2>1, <2>2
<1>8. QED
  BY <1>4, <1>6, <1>7 DEF Buffers

LEMMA PatchedManyWrites ==
  ASSUME NEW s, Access(s), NEW patch \in Seq(Byte), cache \in Caches, disk \in Disks, spoiled \subseteq Block
  PROVE  /\ PatchedMany(s, patch) \in Writing(s.blocks * BlockSize)
         /\ Contents(PatchedMany(s, patch).cache) = Contents(cache) /\ PatchedMany(s, patch).disk = disk
         /\ PatchedMany(s, patch).spoiled = spoiled
<1>1. s.blocks * BlockSize \in Nat /\ s.off \in Int
  BY SizesAssumption DEF Access
<1>2. PICK n \in Nat : n = s.blocks * BlockSize
  BY <1>1
<1>3. PICK c \in Caches : c = Found(Found(cache, s.from), s.to) /\ Contents(c) = Contents(cache)
  BY FoundIs
<1>4. PICK m : m = [cache |-> c, disk |-> disk, spoiled |-> spoiled, buf |-> Around(s), ok |-> s.blocks > 0]
  OBVIOUS
<1>5. m \in Writing(n) /\ m.cache = c /\ m.disk = disk /\ m.spoiled = spoiled
  BY <1>2, <1>4, AroundType DEF Writing
<1>6. PICK l \in Nat : l = Len(patch)
  OBVIOUS
<1>7. s.off + l \in Int /\ 0 \in Int /\ l \in Int
  BY <1>1
<1>8. PatchedMany(s, patch) = Copy(m, s.off, s.off + l, patch, 0, l)
  BY <1>3, <1>4, <1>6 DEF PatchedMany
<1>9. QED
  BY <1>1, <1>2, <1>3, <1>5, <1>7, <1>8, CopyWrites

LEMMA ThroughWrites ==
  ASSUME NEW s, Access(s), disk \in Disks, NEW m \in Writing(s.blocks * BlockSize)
  PROVE  /\ Through(s, m) \in Writing(s.blocks * BlockSize)
         /\ Through(s, m).cache = m.cache /\ Through(s, m).buf = m.buf /\ Through(s, m).ok = m.ok
         /\ Through(s, m).spoiled = m.spoiled
         /\ Through(s, m).disk =
              [b \in Block |-> IF b \in s.from..(s.from + s.blocks - 1) THEN BlockOf(m.buf, b - s.from + 1) ELSE disk[b]]
<1> DEFINE d == [b \in Block |-> IF b \in s.from..(s.from + s.blocks - 1) THEN BlockOf(m.buf, b - s.from + 1) ELSE disk[b]]
<1>1. d \in Disks
  <2>1. ASSUME NEW b \in Block, b \in s.from..(s.from + s.blocks - 1) PROVE BlockOf(m.buf, b - s.from + 1) \in Data
    <3>1. s.blocks \in Nat /\ b - s.from + 1 \in 1..s.blocks
      BY <2>1 DEF Access, Block
    <3>2. m.buf \in Buffers(s.blocks * BlockSize)
      BY DEF Writing
    <3>3. QED
      BY <3>1, <3>2, BlockOfIs
  <2>2. \A b \in Block : disk[b] \in Data
    BY DEF Disks
  <2>3. QED
    BY <2>1, <2>2 DEF Disks
<1>2. Through(s, m) = [m EXCEPT !.disk = d]
  BY DEF Through
<1> HIDE DEF d
<1>3. /\ Through(s, m) \in Writing(s.blocks * BlockSize)
      /\ Through(s, m).cache = m.cache /\ Through(s, m).buf = m.buf /\ Through(s, m).ok = m.ok
      /\ Through(s, m).disk = d
      /\ Through(s, m).spoiled = m.spoiled
  BY <1>1, <1>2 DEF Writing
<1>4. QED
  BY <1>3 DEF d

LEMMA WriteManyIs ==
  \A s, patch : WriteMany(s, patch) =
    LET m == PatchedMany(s, patch) IN IF m.ok THEN CacheAllWritten(Through(s, m), s) ELSE m
  BY DEF WriteMany, PatchedMany, Around, Through

LEMMA WriteManyWrites ==
  ASSUME NEW s, Access(s), NEW patch \in Seq(Byte), cache \in Caches, disk \in Disks, spoiled \subseteq Block
  PROVE  WriteMany(s, patch) \in Writing(s.blocks * BlockSize)
<1>1. PICK m \in Writing(s.blocks * BlockSize) : m = PatchedMany(s, patch)
  BY PatchedManyWrites
<1>2. WriteMany(s, patch) = IF m.ok THEN CacheAllWritten(Through(s, m), s) ELSE m
  BY <1>1, WriteManyIs
<1>3. CacheAllWritten(Through(s, m), s) \in Writing(s.blocks * BlockSize)
  BY ThroughWrites, CacheAllWrites
<1>4. QED
  BY <1>2, <1>3

-----------------------------------------------------------------------------
(***************************************************************************)
(* The type invariant, with what the lookups rely on: no block is in the   *)
(* cache twice.                                                            *)
(***************************************************************************)
Typed == TypeInv /\ Distinct(cache)

\* What a read answered.
AnswerTyped(r) == r.at \in -1..(Word - 1) /\ r.data \in Seq(Byte) /\ r.flawed \in BOOLEAN

LEMMA TypedIs ==
  Typed <=> /\ disk \in Disks /\ image \in Disks /\ cache \in Caches
            /\ cursor \in 0..(Word - 1) /\ panic \in BOOLEAN /\ usage \in Usages
            /\ missed \subseteq Block /\ spoiled \subseteq Block
            /\ AnswerTyped(reply)
  BY DEF Typed, TypeInv, Disks, Data, Caches, AnswerTyped

LEMMA TypedNext ==
  ASSUME disk' \in Disks, image' \in Disks, cache' \in Caches,
         cursor' \in 0..(Word - 1), panic' \in BOOLEAN, usage' \in Usages,
         missed' \subseteq Block, spoiled' \subseteq Block,
         AnswerTyped(reply')
  PROVE  Typed'
  BY DEF Typed, TypeInv, Disks, Data, Caches, AnswerTyped

LEMMA NoCache == <<>> \in Caches
<1>1. <<>> \in Seq(Entries) /\ Len(<<>>) = 0 /\ DOMAIN <<>> = {}
  OBVIOUS
<1>2. Len(<<>>) <= CacheSize
  BY <1>1, SizesAssumption
<1>3. Distinct(<<>>)
  BY <1>1 DEF Distinct
<1>4. QED
  BY <1>1, <1>2, <1>3 DEF Caches

\* A position is a u64.
LEMMA Positions == 0 \in 0..(Word - 1) /\ \A x \in Int : x % Word \in 0..(Word - 1)
<1>1. Word \in Nat /\ Word > 0
  BY SizesAssumption
<1>2. QED
  BY <1>1

LEMMA NoReadType == AnswerTyped(NoRead)
<1>1. -1 \in -1..(Word - 1)
  <2>1. PICK w \in Nat : w = Word /\ w > 0
    BY SizesAssumption
  <2>2. -1 \in -1..(w - 1)
    BY <2>1
  <2>3. QED
    BY <2>1, <2>2
<1>2. <<>> \in Seq(Byte) /\ FALSE \in BOOLEAN
  OBVIOUS
<1>3. NoRead.at = -1 /\ NoRead.data = <<>> /\ NoRead.flawed = FALSE
  BY DEF NoRead
<1>4. QED
  BY <1>1, <1>2, <1>3 DEF AnswerTyped

LEMMA AnswerType ==
  ASSUME cursor \in 0..(Word - 1), NEW x \in Seq(Byte), NEW f \in BOOLEAN
  PROVE  AnswerTyped(Answer(x, f))
<1>1. Answer(x, f).at = cursor /\ Answer(x, f).data = x /\ Answer(x, f).flawed = f
  BY DEF Answer
<1>2. cursor \in -1..(Word - 1)
  BY SizesAssumption
<1>3. QED
  BY <1>1, <1>2 DEF AnswerTyped

LEMMA InitTyped == Init => Typed
<1> SUFFICES ASSUME Init PROVE Typed
  OBVIOUS
<1>1. BlockSize \in Nat \ {0} /\ LastBlock \in Nat \ {0}
  BY SizesAssumption
<1>2. ASSUME NEW b \in Block PROVE BytesOf(b) \in Data
  <2>1. b \in Nat /\ b <= LastBlock
    BY <1>1, <1>2 DEF Block
  <2>2. b * BlockSize <= LastBlock * BlockSize
    BY <1>1, <2>1, Products
  <2>3. PICK x \in Nat, y \in Nat : x = b * BlockSize /\ y = LastBlock * BlockSize /\ x <= y
    BY <1>1, <2>1, <2>2
  <2>4. (LastBlock + 1) * BlockSize = y + BlockSize
    BY <1>1, <2>3, Products
  <2>5. \A i \in 1..BlockSize : x + i \in 0..(y + BlockSize)
    BY <1>1, <2>3
  <2>6. \A i \in 1..BlockSize : b * BlockSize + i \in Byte
    BY <2>3, <2>4, <2>5 DEF Byte
  <2>7. QED
    BY <2>6 DEF BytesOf, Data
<1>3. disk \in Disks /\ image \in Disks
  BY <1>2 DEF Init, Disks
<1>4. /\ cache \in Caches /\ cursor \in 0..(Word - 1) /\ panic \in BOOLEAN /\ usage \in Usages
      /\ missed \subseteq Block /\ spoiled \subseteq Block
  <2>1. FALSE \in BOOLEAN /\ {} \subseteq Block
    OBVIOUS
  <2>2. QED
    BY <2>1, NoCache, Positions DEF Init
<1>5. AnswerTyped(reply)
  BY NoReadType DEF Init
<1>6. QED
  BY <1>3, <1>4, <1>5, TypedIs

\* What Settle makes of the state a read or a write ended in.
LEMMA SettleTyped ==
  ASSUME NEW m, m.cache \in Caches, m.disk \in Disks, m.ok \in BOOLEAN, m.spoiled \subseteq Block, Settle(m)
  PROVE  disk' \in Disks /\ cache' \in Caches /\ panic' \in BOOLEAN /\ spoiled' \subseteq Block
<1>1. Lost(m) \subseteq Block
  BY DEF Lost
<1>2. QED
  BY <1>1, NoCache DEF Settle

LEMMA ReadTyped ==
  ASSUME Typed, NEW n \in 0..(Usize - 1), Read(n)
  PROVE  Typed'
<1>1. n \in Nat
  OBVIOUS
<1>2. cursor \in 0..(Word - 1)
  BY TypedIs
<1>3. PICK k \in Nat : k = Clipped(n) /\ StartAddress \in Nat /\ (k > 0 => StartAddress + k <= Capacity)
  BY <1>2, ClippedIs
<1>4. /\ disk \in Disks /\ image \in Disks /\ cache \in Caches /\ panic \in BOOLEAN /\ usage \in Usages
      /\ missed \subseteq Block /\ spoiled \subseteq Block
  BY TypedIs
<1>5. usage' = usage /\ image' = image /\ missed' = missed
  BY DEF Read
<1>6. CASE k = 0
  <2>1. /\ disk' = disk /\ cache' = cache /\ panic' = panic /\ cursor' = cursor /\ spoiled' = spoiled
        /\ reply' = Answer(<<>>, FALSE)
    BY <1>3, <1>6 DEF Read, store
  <2>2. <<>> \in Seq(Byte) /\ FALSE \in BOOLEAN
    OBVIOUS
  <2>3. AnswerTyped(reply')
    BY <1>2, <2>1, <2>2, AnswerType
  <2>4. QED
    BY <1>2, <1>4, <1>5, <2>1, <2>3, TypedNext
<1>7. CASE k # 0
  <2>1. PICK s, m : s = Span(k) /\ m = Fetched(s, n)
    OBVIOUS
  <2>2. Access(s)
    BY <1>3, <1>7, <2>1, SpanIs, AccessIs
  <2>3. m \in Reading(s, n)
    BY <1>1, <1>4, <2>1, <2>2, FetchedReads
  <2>4. m.cache \in Caches /\ m.disk \in Disks /\ m.ok \in BOOLEAN /\ m.spoiled \subseteq Block /\ m.buf \in Buffers(n)
    BY <2>3 DEF Reading
  <2>5. /\ Settle(m)
        /\ IF m.ok THEN /\ cursor' = (cursor + k) % Word
                        /\ reply' = Answer(SubSeq(m.buf, 1, Least(k, n)), Astray \/ MixedUp(s))
           ELSE cursor' = cursor /\ reply' = NoRead
    BY <1>3, <1>7, <2>1 DEF Read
  <2>6. disk' \in Disks /\ cache' \in Caches /\ panic' \in BOOLEAN /\ spoiled' \subseteq Block
    BY <2>4, <2>5, SettleTyped
  <2>7. PICK x \in Seq(Byte) : x = SubSeq(m.buf, 1, Least(k, n))
    <3>1. m.buf \in Seq(Byte) /\ Len(m.buf) = n
      BY <1>1, <2>4, BufferIs
    <3>2. PICK l \in 0..n : l = Least(k, n)
      BY <1>1, <1>3 DEF Least
    <3>3. \A i \in 1..l : m.buf[i] \in Byte
      BY <1>1, <2>4 DEF Buffers
    <3>4. SubSeq(m.buf, 1, l) \in Seq(Byte)
      BY <1>1, <3>1, <3>2, <3>3, SubSeqProperties
    <3>5. QED
      BY <3>2, <3>4
  <2>8. PICK f \in BOOLEAN : f = (Astray \/ MixedUp(s))
    BY DEF Astray
  <2>9. cursor' \in 0..(Word - 1) /\ AnswerTyped(reply')
    <3>1. CASE m.ok
      <4>1. cursor' = (cursor + k) % Word /\ reply' = Answer(x, f)
        BY <2>5, <2>7, <2>8, <3>1
      <4>2. cursor + k \in Int
        BY <1>2, <1>3
      <4>3. AnswerTyped(reply')
        BY <1>2, <4>1, AnswerType
      <4>4. QED
        BY <4>1, <4>2, <4>3, Positions
    <3>2. CASE ~m.ok
      BY <1>2, <2>5, <3>2, NoReadType
    <3>3. QED
      BY <3>1, <3>2
  <2>10. QED
    BY <1>4, <1>5, <2>6, <2>9, TypedNext
<1>8. QED
  BY <1>6, <1>7

LEMMA WrittenType ==
  ASSUME image \in Disks, NEW k, NEW v \in Marks
  PROVE  Written(k, v) \in Disks
<1>1. v \in Byte
  BY DEF Byte
<1>2. ASSUME NEW b \in Block, NEW i \in 1..BlockSize PROVE image[b][i] \in Byte
  BY DEF Disks, Data
<1>3. QED
  BY <1>1, <1>2 DEF Written, Disks, Data

LEMMA PatchType ==
  ASSUME NEW n \in Nat, NEW v \in Marks
  PROVE  [i \in 1..n |-> v] \in Seq(Byte) /\ Len([i \in 1..n |-> v]) = n
<1>1. [i \in 1..n |-> v] \in Buffers(n)
  BY DEF Buffers, Byte
<1>2. QED
  BY <1>1, BufferIs

\* The span of a write: its number of blocks is a u16.
Counted(s) == [s EXCEPT !.blocks = s.blocks % TransferUnit]

LEMMA CountedIs ==
  ASSUME NEW k \in Nat \ {0}, StartAddress \in Nat, StartAddress + k <= Capacity,
         NEW s, s = Counted(Span(k))
  PROVE  /\ Access(s) /\ s.from = Span(k).from /\ s.to = Span(k).to /\ s.off = Span(k).off /\ s.tail = Span(k).tail
         /\ s.blocks = (s.to - s.from + 1) % TransferUnit
<1>1. PICK q : q = Span(k)
  OBVIOUS
<1>2. SpanOf(q, k)
  BY <1>1, SpanIs
<1>3. /\ s.from = q.from /\ s.to = q.to /\ s.off = q.off /\ s.tail = q.tail
      /\ s.blocks = q.blocks % TransferUnit
  BY <1>1 DEF Counted, Span
<1>4. PICK c \in Nat, f \in Nat, t \in Nat : c = q.blocks /\ f = q.from /\ t = q.to /\ c = t - f + 1
  BY <1>2 DEF SpanOf
<1>5. c % TransferUnit \in Nat /\ c % TransferUnit <= c
  BY SizesAssumption
<1>6. s.blocks \in Nat /\ s.blocks <= s.to - s.from + 1
  BY <1>3, <1>4, <1>5
<1>7. Access(s)
  BY <1>2, <1>3, <1>6 DEF Access, SpanOf
<1>8. QED
  BY <1>1, <1>3, <1>4, <1>7

LEMMA WriteTyped ==
  ASSUME Typed, NEW n \in 0..(Usize - 1), NEW v \in Marks, Write(n, v)
  PROVE  Typed'
<1>1. n \in Nat /\ cursor \in 0..(Word - 1)
  BY TypedIs
<1>2. PICK k \in Nat : k = Clipped(n) /\ StartAddress \in Nat /\ (k > 0 => StartAddress + k <= Capacity)
  BY <1>1, ClippedIs
<1>3. /\ disk \in Disks /\ image \in Disks /\ cache \in Caches /\ panic \in BOOLEAN /\ usage \in Usages
      /\ missed \subseteq Block /\ spoiled \subseteq Block
  BY TypedIs
<1>4. PICK s, patch : s = Counted(Span(k)) /\ patch = [i \in 1..n |-> v]
  OBVIOUS
<1>5. PICK m : m = IF s.blocks = 1 THEN WriteOne(s, patch) ELSE WriteMany(s, patch)
  OBVIOUS
<1>6. PICK strayed : strayed = Strayed(k, s)
  OBVIOUS
<1>7. PICK q : q = [m EXCEPT !.spoiled = m.spoiled \cup strayed]
  OBVIOUS
<1>8. /\ k > 0 /\ Settle(q)
      /\ IF m.ok THEN cursor' = (cursor + k) % Word /\ image' = Written(k, v) ELSE cursor' = cursor /\ image' = image
      /\ missed' = (IF m.ok /\ s.blocks = 1 /\ ~Cached(cache, s.from) THEN missed \cup {s.from} ELSE missed)
      /\ reply' = NoRead /\ usage' = usage
  BY <1>2, <1>4, <1>5, <1>6, <1>7 DEF Write, Counted
<1>9. Access(s)
  BY <1>2, <1>4, <1>8, CountedIs
<1>10. patch \in Seq(Byte)
  BY <1>1, <1>4, PatchType
<1>11. strayed \subseteq Block
  BY <1>6 DEF Strayed
<1>12. q.cache \in Caches /\ q.disk \in Disks /\ q.ok \in BOOLEAN /\ q.spoiled \subseteq Block
  <2>1. CASE s.blocks = 1
    <3>1. m \in Writing(BlockSize)
      BY <1>3, <1>5, <1>9, <1>10, <2>1, WriteOneWrites
    <3>2. QED
      BY <1>7, <1>11, <3>1 DEF Writing
  <2>2. CASE s.blocks # 1
    <3>1. m \in Writing(s.blocks * BlockSize)
      BY <1>3, <1>5, <1>9, <1>10, <2>2, WriteManyWrites
    <3>2. QED
      BY <1>7, <1>11, <3>1 DEF Writing
  <2>3. QED
    BY <2>1, <2>2
<1>13. disk' \in Disks /\ cache' \in Caches /\ panic' \in BOOLEAN /\ spoiled' \subseteq Block
  BY <1>8, <1>12, SettleTyped
<1>14. cursor' \in 0..(Word - 1) /\ image' \in Disks
  <2>1. (cursor + k) % Word \in 0..(Word - 1)
    BY <1>1, Positions
  <2>2. Written(k, v) \in Disks
    BY <1>3, WrittenType
  <2>3. QED
    BY <1>1, <1>3, <1>8, <2>1, <2>2
<1>15. missed' \subseteq Block
  <2>1. s.from \in Block
    BY <1>9, SizesAssumption DEF Access, Block
  <2>2. QED
    BY <1>3, <1>8, <2>1
<1>16. QED
  BY <1>3, <1>8, <1>13, <1>14, <1>15, NoReadType, TypedNext

LEMMA SeekTyped ==
  ASSUME Typed, Seek
  PROVE  Typed'
<1>1. usage \in Usages /\ cursor \in 0..(Word - 1)
  BY TypedIs
<1>2. usage.seeks \subseteq 0..(Word - 1) /\ usage.offsets \subseteq Int
  BY <1>1, SizesAssumption
<1>3. Capacity \in Int
  BY SizesAssumption DEF Capacity
<1>4. cursor' \in 0..(Word - 1)
  <2>1. CASE \E p \in usage.seeks : cursor' = p
    BY <1>2, <2>1
  <2>2. ASSUME NEW o \in usage.offsets, cursor' = (Capacity + o) % Word PROVE cursor' \in 0..(Word - 1)
    <3>1. Capacity + o \in Int
      BY <1>2, <1>3
    <3>2. QED
      BY <2>2, <3>1, Positions
  <2>3. ASSUME NEW o \in usage.offsets, cursor' = (cursor + o) % Word PROVE cursor' \in 0..(Word - 1)
    <3>1. cursor + o \in Int
      BY <1>1, <1>2
    <3>2. QED
      BY <2>3, <3>1, Positions
  <2>4. QED
    BY <2>1, <2>2, <2>3 DEF Seek
<1>5. QED
  BY <1>4, TypedIs, NoReadType, TypedNext DEF Seek, store, history

LEMMA FlushTyped ==
  ASSUME Typed, Flush
  PROVE  Typed'
<1>1. disk \in Disks /\ image \in Disks /\ cache \in Caches
  BY TypedIs
<1>2. ASSUME NEW b \in Block, Cached(cache, b) PROVE Lookup(cache, b).data \in Data
  BY <1>1, <1>2, LookupCaches, EntryIs
<1>3. FlushedDisk \in Disks
  BY <1>1, <1>2 DEF FlushedDisk, Disks
<1>4. /\ disk' = FlushedDisk /\ cache' = <<>> /\ reply' = NoRead /\ panic' = panic /\ cursor' = cursor
      /\ usage' = usage /\ image' = image /\ missed' = missed /\ spoiled' = spoiled
  BY DEF Flush, history
<1>5. QED
  BY <1>1, <1>3, <1>4, TypedIs, NoCache, NoReadType, TypedNext

\* The length of a buffer is a usize.
LEMMA Lengths ==
  ASSUME Typed
  PROVE  usage.reads \subseteq 0..(Usize - 1) /\ usage.writes \subseteq 0..(Usize - 1)
  BY TypedIs, SizesAssumption

LEMMA NextTyped ==
  ASSUME Typed, [Next]_vars
  PROVE  Typed'
<1>1. ASSUME NEW n \in usage.reads, Read(n) PROVE Typed'
  BY <1>1, Lengths, ReadTyped
<1>2. ASSUME NEW n \in usage.writes, NEW v \in Marks, Write(n, v) PROVE Typed'
  BY <1>2, Lengths, WriteTyped
<1>3. ASSUME NEW n, WriteNothing(n) PROVE Typed'
  BY <1>3, TypedIs, NoReadType, TypedNext DEF WriteNothing, store, history
<1>4. ASSUME Seek PROVE Typed'
  BY <1>4, SeekTyped
<1>5. ASSUME Flush PROVE Typed'
  BY <1>5, FlushTyped
<1>6. CASE UNCHANGED vars
  BY <1>6, TypedIs, TypedNext DEF vars, store, history
<1>7. QED
  BY <1>1, <1>2, <1>3, <1>4, <1>5, <1>6 DEF Next

\* The cache never holds more than CACHE_SIZE blocks, each a block of the disk with a
\* block's bytes, and no access writes outside the disk, or gives the guest or the disk
\* anything but bytes: whatever the guest reads and writes and wherever it seeks, past
\* the end and beyond what usize addresses included.
THEOREM TypeCorrect == Spec => []TypeInv
<1>1. Init => Typed
  BY InitTyped
<1>2. Typed /\ [Next]_vars => Typed'
  BY NextTyped
<1>3. Typed => TypeInv
  BY DEF Typed
<1>4. QED
  BY <1>1, <1>2, <1>3, PTL DEF Spec

-----------------------------------------------------------------------------
(***************************************************************************)
(* The cache over the disk.  D is what it should hold, and the blocks of M *)
(* are exempt: every other entry has its block of D, a clean one is on the *)
(* disk too, and what is not in the cache is on the disk.                  *)
(***************************************************************************)
Holds(c, d, D, M) ==
  /\ \A e \in Contents(c) : e.block \notin M => e.data = D[e.block] /\ (~e.dirty => d[e.block] = D[e.block])
  /\ \A b \in Block \ M : ~Cached(c, b) => d[b] = D[b]

LEMMA HoldsMore ==
  ASSUME NEW c, NEW d, NEW D, NEW M, NEW N, Holds(c, d, D, M), M \subseteq N
  PROVE  Holds(c, d, D, N)
  BY DEF Holds

\* What D is in the exempt blocks does not matter.
LEMMA HoldsAgree ==
  ASSUME NEW c \in Caches, NEW d, NEW D, NEW E, NEW M, Holds(c, d, D, M), \A b \in Block \ M : D[b] = E[b]
  PROVE  Holds(c, d, E, M)
<1>1. \A e \in Contents(c) : e.block \in Block
  BY ContentsType, EntryIs DEF Caches
<1>2. QED
  BY <1>1 DEF Holds

\* With the same entries over the same disk the cache holds the same.
LEMMA SameHolds ==
  ASSUME NEW c \in Caches, NEW x \in Caches, Contents(x) = Contents(c), NEW d, NEW D, NEW M, Holds(c, d, D, M)
  PROVE  Holds(x, d, D, M)
<1>1. \A b : Cached(c, b) <=> Cached(x, b)
  BY CachedIs DEF Caches
<1>2. QED
  BY <1>1 DEF Holds

\* Any block that is not exempt is on the disk, unless its entry is dirty.
LEMMA OnDisk ==
  ASSUME NEW c \in Caches, NEW d, NEW D, NEW M, Holds(c, d, D, M), NEW b \in Block \ M,
         ~(Cached(c, b) /\ Lookup(c, b).dirty)
  PROVE  d[b] = D[b]
<1>1. CASE Cached(c, b)
  <2>1. Lookup(c, b) \in Contents(c) /\ Lookup(c, b).block = b
    BY <1>1, LookupCaches
  <2>2. QED
    BY <1>1, <2>1 DEF Holds
<1>2. CASE ~Cached(c, b)
  BY <1>2 DEF Holds
<1>3. QED
  BY <1>1, <1>2

\* A clean entry comes in, for a block that is on the disk as it is in the entry: what is
\* evicted for it is on the disk, or else spoils two blocks.
LEMMA InsertHolds ==
  ASSUME NEW c \in Caches, NEW d \in Disks, NEW D, NEW M, NEW e \in Entries, ~Cached(c, e.block), ~e.dirty,
         Holds(c, d, D, M \cup {e.block}),
         e.block \notin M => e.data = D[e.block] /\ d[e.block] = D[e.block]
  PROVE  Holds(Grown(c, e), Evicted(c, d, e), D, M \cup Displaced(c, e))
<1> DEFINE g == Grown(c, e)
           f == Evicted(c, d, e)
           N == M \cup Displaced(c, e)
<1>1. /\ g \in Caches /\ Contents(g) \subseteq Contents(c) \cup {e} /\ e \in Contents(g)
      /\ Len(c) < CacheSize => Contents(g) = Contents(c) \cup {e}
      /\ Contents(c) \ {Last(c)} \subseteq Contents(g)
  BY GrownIs
<1>2. \A b \in Block : b \notin N => f[b] = d[b]
  BY DEF Evicted, Displaced, Disks
<1>3. \A x \in Contents(c) : x.block \in Block /\ x.block # e.block
  BY ContentsType, EntryIs, CachedIs DEF Caches
<1>4. e.block \in Block
  BY EntryIs
<1>5. ASSUME NEW x \in Contents(g), x.block \notin N
      PROVE  x.data = D[x.block] /\ (~x.dirty => f[x.block] = D[x.block])
  <2>1. CASE x = e
    BY <1>2, <1>4, <1>5, <2>1
  <2>2. CASE x \in Contents(c)
    BY <1>2, <1>3, <1>5, <2>2 DEF Holds
  <2>3. QED
    BY <1>1, <2>1, <2>2
<1>6. ASSUME NEW b \in Block \ N, ~Cached(g, b) PROVE f[b] = D[b]
  <2>1. \A x \in Contents(g) : x.block # b
    BY <1>1, <1>6, CachedIs DEF Caches
  <2>2. b # e.block
    BY <1>1, <2>1
  <2>3. b \in Block \ (M \cup {e.block})
    BY <1>6, <2>2
  <2>4. ASSUME Cached(c, b), Lookup(c, b).dirty PROVE FALSE
    <3>1. PICK x \in Contents(c) : x = Lookup(c, b) /\ x.block = b
      BY <2>4, LookupCaches
    <3>2. x \notin Contents(g)
      BY <2>1, <3>1
    <3>3. x = Last(c) /\ ~(Len(c) < CacheSize)
      BY <1>1, <3>1, <3>2
    <3>4. Len(c) = CacheSize
      BY <3>3, SizesAssumption DEF Caches
    <3>5. b \in Displaced(c, e)
      BY <2>4, <3>1, <3>3, <3>4 DEF Displaced
    <3>6. QED
      BY <1>6, <3>5
  <2>5. d[b] = D[b]
    BY <2>3, <2>4, OnDisk
  <2>6. QED
    BY <1>2, <1>6, <2>5
<1> HIDE DEF g, f, N
<1>7. Holds(g, f, D, N)
  BY <1>5, <1>6 DEF Holds
<1>8. QED
  BY <1>7 DEF g, f, N

\* An entry is changed where it is.
LEMMA StoreHolds ==
  ASSUME NEW c \in Caches, NEW d, NEW D, NEW M, NEW e \in Entries, Cached(c, e.block),
         Holds(c, d, D, M \cup {e.block}),
         e.block \notin M => e.data = D[e.block] /\ (~e.dirty => d[e.block] = D[e.block])
  PROVE  Holds(Touch(c, e), d, D, M)
<1> DEFINE t == Touch(c, e)
<1>1. t \in Caches /\ Contents(t) = {x \in Contents(c) : x.block # e.block} \cup {e}
  BY TouchCaches
<1> HIDE DEF t
<1>2. ASSUME NEW x \in Contents(t), x.block \notin M
      PROVE  x.data = D[x.block] /\ (~x.dirty => d[x.block] = D[x.block])
  BY <1>1, <1>2 DEF Holds
<1>3. ASSUME NEW b \in Block \ M, ~Cached(t, b) PROVE d[b] = D[b]
  <2>1. \A x \in Contents(t) : x.block # b
    BY <1>1, <1>3, CachedIs DEF Caches
  <2>2. b # e.block /\ \A x \in Contents(c) : x.block # b
    BY <1>1, <2>1
  <2>3. ~Cached(c, b)
    BY <2>2, CachedIs DEF Caches
  <2>4. QED
    BY <1>3, <2>2, <2>3 DEF Holds
<1>4. QED
  BY <1>2, <1>3 DEF Holds, t

-----------------------------------------------------------------------------
(***************************************************************************)
(* What a read leaves.                                                     *)
(***************************************************************************)
\* A state in which the cache over the disk holds D, but for M and for what is spoiled.
Held(m, D, M) == Holds(m.cache, m.disk, D, M \cup m.spoiled)

\* The first loop only moves entries.
Unmoved(x, m) == Contents(x.cache) = Contents(m.cache) /\ x.disk = m.disk /\ x.spoiled = m.spoiled

LEMMA ScanMoves ==
  ASSUME NEW s, Access(s), NEW n \in Nat, NEW m \in Reading(s, n), NEW b \in s.from..s.to
  PROVE  Unmoved(Scan(m, s, b), m)
<1>1. m.cache \in Caches /\ m.ok \in BOOLEAN /\ m.open \in BOOLEAN
  BY DEF Reading
<1>2. CASE ~m.ok \/ ~Cached(m.cache, b)
  <2>1. Scan(m, s, b) = m \/ Scan(m, s, b) = [m EXCEPT !.open = TRUE, !.start = b]
    BY <1>2 DEF Scan
  <2>2. QED
    BY <2>1 DEF Unmoved, Reading
<1>3. CASE m.ok /\ Cached(m.cache, b)
  <2>1. PICK hit : hit = CopyCached(m, s, b)
    OBVIOUS
  <2>2. hit \in Reading(s, n) /\ hit.cache = Touch(m.cache, Lookup(m.cache, b)) /\ hit.disk = m.disk /\ hit.spoiled = m.spoiled
    BY <1>3, <2>1, CopyCachedReads
  <2>3. Contents(hit.cache) = Contents(m.cache)
    BY <1>1, <1>3, <2>2, FoundIs DEF Found
  <2>4. Scan(m, s, b) = IF m.open THEN [hit EXCEPT !.ranges = Append(@, <<m.start, b>>)] ELSE hit
    BY <1>3, <2>1 DEF Scan
  <2>5. QED
    BY <2>2, <2>3, <2>4 DEF Unmoved, Reading
<1>4. QED
  BY <1>1, <1>2, <1>3

LEMMA ScannedMoves ==
  ASSUME NEW s, Access(s), NEW n \in Nat, NEW m \in Scanning(s, n, 0)
  PROVE  Unmoved(Scanned(m, s), m)
<1> DEFINE S == [k \in 0..s.blocks |-> {x \in Scanning(s, n, k) : Unmoved(x, m)}]
<1>1. s.blocks \in Nat /\ s.from \in Nat /\ s.to \in Nat /\ s.blocks <= s.to - s.from + 1
  BY DEF Access
<1>2. m \in S[0] /\ S[s.blocks] = {x \in Scanning(s, n, s.blocks) : Unmoved(x, m)}
  BY <1>1 DEF Unmoved
<1>3. ASSUME NEW i \in 1..s.blocks, NEW x \in S[i - 1] PROVE Scan(x, s, s.from + i - 1) \in S[i]
  <2>1. i \in 0..s.blocks /\ i - 1 \in 0..s.blocks
    BY <1>1
  <2>2. x \in Scanning(s, n, i - 1) /\ x \in Reading(s, n) /\ Unmoved(x, m)
    BY <1>3, <2>1 DEF Scanning
  <2>3. PICK b \in s.from..s.to : b = s.from + i - 1
    <3>1. PICK f \in Nat, t \in Nat, l \in Nat : f = s.from /\ t = s.to /\ l = s.blocks /\ l <= t - f + 1
      BY <1>1
    <3>2. f + i - 1 \in f..t
      BY <3>1
    <3>3. QED
      BY <3>1, <3>2
  <2>4. Scan(x, s, b) \in Scanning(s, n, i)
    BY <2>2, <2>3, ScanReads
  <2>5. Unmoved(Scan(x, s, b), x)
    BY <2>2, ScanMoves
  <2>6. Unmoved(Scan(x, s, b), m)
    BY <2>2, <2>5 DEF Unmoved
  <2>7. QED
    BY <2>1, <2>3, <2>4, <2>6
<1> HIDE DEF S
<1>4. Scanned(m, s) \in S[s.blocks]
  BY <1>1, <1>2, <1>3, ScannedStays
<1>5. QED
  BY <1>2, <1>4

\* A block that was read goes into the cache: it is what the disk has, or else exempt.
LEMMA CacheReadHolds ==
  ASSUME NEW s, NEW n \in Nat, NEW m \in Reading(s, n), NEW b \in Block, NEW data \in Data, NEW D, NEW M,
         Held(m, D, M), b \notin M \cup m.spoiled => data = D[b], NEW r, r = CacheRead(m, b, data)
  PROVE  r \in Reading(s, n) /\ Held(r, D, M) /\ m.spoiled \subseteq r.spoiled
<1>1. m.cache \in Caches /\ m.disk \in Disks
  BY DEF Reading
<1>2. PICK N : N = M \cup m.spoiled
  OBVIOUS
<1>3. Holds(m.cache, m.disk, D, N) /\ Holds(m.cache, m.disk, D, N \cup {b})
  BY <1>2, HoldsMore DEF Held
<1>4. r \in Reading(s, n)
  BY CacheReadReads
<1>5. CASE Cached(m.cache, b)
  <2>1. PICK l \in Entries : l = Lookup(m.cache, b) /\ l.block = b /\ l \in Contents(m.cache)
    BY <1>1, <1>5, LookupCaches
  <2>2. PICK e : e = [l EXCEPT !.data = data]
    OBVIOUS
  <2>3. e \in Entries /\ e.block = b /\ e.data = data /\ e.dirty = l.dirty
    BY <2>1, <2>2 DEF Entries, Data
  <2>4. r = [m EXCEPT !.cache = Touch(m.cache, e)]
    BY <1>5, <2>1, <2>2 DEF CacheRead
  <2>5. r.cache = Touch(m.cache, e) /\ r.disk = m.disk /\ r.spoiled = m.spoiled
    BY <1>5, <2>3, <2>4, TouchReads
  <2>6. e.block \notin N => e.data = D[e.block] /\ (~e.dirty => m.disk[e.block] = D[e.block])
    BY <1>2, <1>3, <2>1, <2>3 DEF Holds
  <2>7. Holds(Touch(m.cache, e), m.disk, D, N)
    <3>1. Cached(m.cache, e.block) /\ Holds(m.cache, m.disk, D, N \cup {e.block})
      BY <1>3, <1>5, <2>3
    <3>2. QED
      BY <1>1, <2>3, <2>6, <3>1, StoreHolds
  <2>8. QED
    BY <1>2, <1>4, <2>5, <2>7 DEF Held
<1>6. CASE ~Cached(m.cache, b)
  <2>1. PICK e : e = Entry(b, data, FALSE)
    OBVIOUS
  <2>2. e \in Entries /\ e.block = b /\ e.data = data /\ e.dirty = FALSE
    <3>1. FALSE \in BOOLEAN
      OBVIOUS
    <3>2. e \in Entries
      BY <2>1, <3>1, EntryIs
    <3>3. e.block = b /\ e.data = data /\ e.dirty = FALSE
      BY <2>1 DEF Entry
    <3>4. QED
      BY <3>2, <3>3
  <2>3. r = InsertEntry(m, e)
    BY <1>6, <2>1 DEF CacheRead
  <2>4. ~Cached(m.cache, e.block)
    BY <1>6, <2>2
  <2>5. /\ r.cache = Grown(m.cache, e) /\ r.disk = Evicted(m.cache, m.disk, e)
        /\ r.spoiled = m.spoiled \cup Displaced(m.cache, e)
    BY <2>2, <2>3, <2>4, InsertReads
  <2>6. e.block \notin N => e.data = D[e.block] /\ m.disk[e.block] = D[e.block]
    BY <1>2, <1>3, <1>6, <2>2 DEF Holds
  <2>7. Holds(Grown(m.cache, e), Evicted(m.cache, m.disk, e), D, N \cup Displaced(m.cache, e))
    <3>1. Holds(m.cache, m.disk, D, N \cup {e.block}) /\ ~e.dirty
      BY <1>3, <2>2
    <3>2. QED
      BY <1>1, <2>2, <2>4, <2>6, <3>1, InsertHolds
  <2>8. N \cup Displaced(m.cache, e) = M \cup r.spoiled
    BY <1>2, <2>5
  <2>9. QED
    BY <1>4, <2>5, <2>7, <2>8 DEF Held
<1>7. QED
  BY <1>5, <1>6

LEMMA CacheRangeHolds ==
  ASSUME NEW s, NEW n \in Nat, NEW m \in Reading(s, n), NEW first \in Nat, NEW l \in Nat,
         first + l <= LastBlock + 1, NEW data \in Buffers(l * BlockSize), NEW D, NEW M, Held(m, D, M),
         \A i \in 1..Kept(l) :
           first + i - 1 \notin M \cup m.spoiled => BlockOf(data, l - Kept(l) + i) = D[first + i - 1]
  PROVE  Held(CacheRange(m, first, data, l), D, M)
<1> DEFINE T == {x \in Reading(s, n) : Held(x, D, M) /\ m.spoiled \subseteq x.spoiled}
           S == [k \in 0..Kept(l) |-> T]
<1>1. Kept(l) \in Nat /\ Kept(l) <= l
  BY SizesAssumption DEF Kept, Least
<1>2. m \in S[0] /\ S[Kept(l)] = T
  BY <1>1
<1>3. ASSUME NEW i \in 1..Kept(l), NEW x \in S[i - 1]
      PROVE  CacheRead(x, first + i - 1, BlockOf(data, l - Kept(l) + i)) \in S[i]
  <2>1. i \in 0..Kept(l) /\ i - 1 \in 0..Kept(l)
    BY <1>1
  <2>2. l - Kept(l) + i \in 1..l
    BY <1>1
  <2>3. PICK b \in Block : b = first + i - 1
    BY <1>1, SizesAssumption DEF Block
  <2>4. PICK v \in Data : v = BlockOf(data, l - Kept(l) + i)
    BY <2>2, BlockOfIs
  <2>5. x \in Reading(s, n) /\ Held(x, D, M) /\ m.spoiled \subseteq x.spoiled
    BY <1>3, <2>1
  <2>6. b \notin M \cup x.spoiled => v = D[b]
    BY <2>3, <2>4, <2>5
  <2>7. PICK r : r = CacheRead(x, b, v)
    OBVIOUS
  <2>8. r \in Reading(s, n) /\ Held(r, D, M) /\ x.spoiled \subseteq r.spoiled
    BY <2>5, <2>6, <2>7, CacheReadHolds
  <2>9. r \in T
    BY <2>5, <2>8
  <2>10. QED
    BY <2>1, <2>3, <2>4, <2>7, <2>9
<1>4. CacheRange(m, first, data, l) \in S[Kept(l)]
  <2> HIDE DEF S, T
  <2>1. QED
    BY <1>1, <1>2, <1>3, CacheRangeStays
<1>5. QED
  BY <1>2, <1>4

\* The k-th block of what is read from the first one on.
LEMMA BlockReadIs ==
  ASSUME NEW d \in Disks, NEW first \in Nat, NEW l \in Nat, first + l <= LastBlock + 1, NEW k \in 1..l
  PROVE  BlockOf(ReadBlocks(d, first, l), k) = d[first + k - 1]
<1> DEFINE data == ReadBlocks(d, first, l)
<1>1. PICK b \in Nat : b = first + k - 1 /\ b = first + (k - 1) /\ b \in Block
  BY SizesAssumption DEF Block
<1>2. ASSUME NEW i \in 1..BlockSize PROVE BlockOf(data, k)[i] = d[b][i]
  <2>1. PICK x \in Int, y \in Int, z \in Int : x = (k - 1) * BlockSize /\ y = first * BlockSize /\ z = b * BlockSize
    <3>1. k - 1 \in Int /\ first \in Int /\ b \in Int
      OBVIOUS
    <3>2. QED
      BY <3>1, Products
  <2>2. z = y + x
    <3>1. (first + (k - 1)) * BlockSize = first * BlockSize + (k - 1) * BlockSize
      BY SizesAssumption
    <3>2. QED
      BY <1>1, <2>1, <3>1
  <2>3. x + i \in 1..(l * BlockSize) /\ BlockOf(data, k)[i] = data[x + i]
    BY <2>1, BlockOfIs
  <2>4. data[x + i] = ByteAt(d, y + (x + i) - 1)
    BY <2>1, <2>3, ReadBlocksIs
  <2>5. y + (x + i) - 1 = z + i - 1
    BY <2>1, <2>2, SizesAssumption
  <2>6. ByteAt(d, z + i - 1) = d[b][i]
    BY <1>1, <2>1, ByteAtIs
  <2>7. QED
    BY <2>3, <2>4, <2>5, <2>6
<1>3. BlockOf(data, k) = [i \in 1..BlockSize |-> BlockOf(data, k)[i]]
  BY DEF BlockOf
<1>4. d[b] = [i \in 1..BlockSize |-> d[b][i]]
  BY <1>1 DEF Disks, Data
<1> HIDE DEF data
<1>5. BlockOf(data, k) = d[b]
  BY <1>2, <1>3, <1>4
<1>6. QED
  BY <1>1, <1>5 DEF data

\* A range of blocks: what it is mistaken for is exempt, and dirty entries it overwrites.
LEMMA FetchHolds ==
  ASSUME NEW s, Access(s), NEW n \in Nat, NEW m \in Reading(s, n), NEW r \in Ranges(s),
         NEW D, NEW M, Held(m, D, M)
  PROVE  Held(FetchRange(m, s, r), D, M)
<1> DEFINE t == FetchRange(m, s, r)
           c == Refilled(m, s, r)
<1>1. CASE ~m.ok
  BY <1>1, FetchReads
<1>2. CASE m.ok
  <2>1. t.cache = c.cache /\ t.disk = c.disk /\ t.spoiled = c.spoiled
    BY <1>2, FetchReads
  <2>2. PICK f \in Nat, g \in Nat : r[1] = f /\ r[2] = g /\ s.from <= f /\ f < g /\ g <= s.to + 1
    BY DEF Ranges
  <2>3. PICK h \in Nat, e \in Nat, y \in Nat : h = s.from /\ e = s.to /\ y = LastBlock /\ e < y
    BY SizesAssumption DEF Access
  <2>4. PICK l \in Nat : l = Length(r) /\ h + l <= e + 1 /\ f + l <= e + 1
    <3>1. PICK x \in Nat : x = g - f
      BY <2>2
    <3>2. x % TransferUnit \in Nat /\ x % TransferUnit <= x
      BY SizesAssumption
    <3>3. PICK l \in Nat : l = Length(r) /\ l <= x
      BY <2>2, <3>1, <3>2 DEF Length
    <3>4. QED
      BY <2>2, <2>3, <3>1, <3>3
  <2>5. m.disk \in Disks /\ m.cache \in Caches /\ m.spoiled \subseteq Block
    BY DEF Reading
  <2>6. PICK data \in Buffers(l * BlockSize) : data = ReadBlocks(m.disk, h, l)
    <3>1. h + l <= LastBlock + 1
      BY <2>3, <2>4
    <3>2. ReadBlocks(m.disk, h, l) \in Buffers(l * BlockSize)
      BY <2>5, <3>1, ReadBlocksType
    <3>3. QED
      BY <3>2
  <2>7. PICK p \in Reading(s, n) :
          /\ p = Marked(m, s, f, l) /\ p.cache = m.cache /\ p.disk = m.disk
          /\ p.spoiled = m.spoiled \cup Overwritten(m, s, l) \cup Relabelled(s, f, l)
    BY <2>3, <2>4, MarkedReads
  <2>8. c = CacheRange(p, f, data, l)
    BY <2>2, <2>3, <2>4, <2>6, <2>7 DEF Refilled
  <2>9. Held(p, D, M)
    <3>1. M \cup m.spoiled \subseteq M \cup p.spoiled
      BY <2>7
    <3>2. QED
      BY <2>7, <3>1, HoldsMore DEF Held
  <2>10. PICK k \in Nat : k = Kept(l) /\ k = Least(l, CacheSize) /\ k <= l
    BY SizesAssumption DEF Kept, Least
  <2>11. ASSUME NEW i \in 1..k, f + i - 1 \notin M \cup p.spoiled
         PROVE  BlockOf(data, l - k + i) = D[f + i - 1]
    <3>1. PICK b \in Nat : b = f + i - 1 /\ b \in f..(f + k - 1)
      OBVIOUS
    <3>2. h + l - k = f
      <4>1. b \notin Relabelled(s, f, l)
        BY <2>7, <2>11, <3>1
      <4>2. QED
        BY <2>3, <2>10, <3>1, <4>1 DEF Relabelled
    <3>3. l - k + i \in 1..l /\ h + (l - k + i) - 1 = b /\ h \in Nat /\ h + l <= LastBlock + 1
      BY <2>3, <2>4, <2>10, <3>1, <3>2
    <3>4. BlockOf(data, l - k + i) = m.disk[b]
      BY <2>5, <2>6, <3>3, BlockReadIs
    <3>5. b \in Block /\ b \in s.from..(s.from + l - 1)
      <4>1. b \in h..(h + l - 1) /\ b <= y
        BY <2>3, <2>4, <2>10, <3>1, <3>2
      <4>2. QED
        BY <2>3, <3>1, <4>1 DEF Block
    <3>6. ~(Cached(m.cache, b) /\ Lookup(m.cache, b).dirty)
      BY <2>7, <2>11, <3>1, <3>5 DEF Overwritten
    <3>7. b \in Block \ (M \cup m.spoiled)
      BY <2>7, <2>11, <3>1, <3>5
    <3>8. m.disk[b] = D[b]
      BY <2>5, <3>6, <3>7, OnDisk DEF Held
    <3>9. QED
      BY <3>1, <3>4, <3>8
  <2>12. Held(c, D, M)
    <3>1. f + l <= LastBlock + 1
      BY <2>3, <2>4
    <3>2. \A i \in 1..Kept(l) : f + i - 1 \notin M \cup p.spoiled => BlockOf(data, l - Kept(l) + i) = D[f + i - 1]
      BY <2>10, <2>11
    <3>3. Held(CacheRange(p, f, data, l), D, M)
      BY <2>9, <3>1, <3>2, CacheRangeHolds
    <3>4. QED
      BY <2>8, <3>3
  <2> HIDE DEF c, t
  <2>13. Held(t, D, M)
    BY <2>1, <2>12 DEF Held
  <2>14. QED
    BY <2>13 DEF t
<1>3. m.ok \in BOOLEAN
  BY DEF Reading
<1>4. QED
  BY <1>1, <1>2, <1>3

LEMMA FetchedRangesHolds ==
  ASSUME NEW s, Access(s), NEW n \in Nat, NEW m \in Reading(s, n), NEW ranges \in Seq(Ranges(s)),
         NEW D, NEW M, Held(m, D, M)
  PROVE  Held(FetchedRanges(m, s, ranges), D, M)
<1> DEFINE l == Len(ranges)
           T == {x \in Reading(s, n) : Held(x, D, M)}
           S == [k \in 0..l |-> T]
<1>1. l \in Nat /\ \A i \in 1..l : ranges[i] \in Ranges(s)
  OBVIOUS
<1>2. m \in S[0] /\ S[l] = T
  BY <1>1
<1>3. ASSUME NEW i \in 1..l, NEW x \in S[i - 1] PROVE FetchRange(x, s, ranges[i]) \in S[i]
  <2>1. i \in 0..l /\ i - 1 \in 0..l
    BY <1>1
  <2>2. x \in Reading(s, n) /\ Held(x, D, M)
    BY <1>3, <2>1
  <2>3. FetchRange(x, s, ranges[i]) \in Reading(s, n)
    BY <1>1, <2>2, FetchReads
  <2>4. Held(FetchRange(x, s, ranges[i]), D, M)
    BY <1>1, <2>2, FetchHolds
  <2>5. QED
    BY <2>1, <2>3, <2>4
<1>4. FetchedRanges(m, s, ranges) \in S[l]
  <2> HIDE DEF S, T
  <2>1. QED
    BY <1>1, <1>2, <1>3, FetchedStays
<1>5. QED
  BY <1>2, <1>4

\* Where a read starts, and what its first loop leaves to its second one.
Start(n) ==
  [cache |-> cache, disk |-> disk, spoiled |-> spoiled, buf |-> [i \in 1..n |-> 0], ok |-> TRUE,
   open |-> FALSE, start |-> 0, ranges |-> <<>>]
ToRead(m, s) == m.ranges \o (IF m.open THEN << <<m.start, s.to + 1>> >> ELSE <<>>)

LEMMA FetchedHolds ==
  ASSUME NEW s, Access(s), NEW n \in Nat, cache \in Caches, disk \in Disks, spoiled \subseteq Block,
         NEW D, NEW M, Holds(cache, disk, D, M \cup spoiled)
  PROVE  Held(Fetched(s, n), D, M)
<1>1. Start(n) \in Scanning(s, n, 0)
  <2>1. 0 \in Byte
    BY SizesAssumption DEF Byte
  <2>2. [i \in 1..n |-> 0] \in Buffers(n)
    BY <2>1 DEF Buffers
  <2>3. <<>> \in Seq(Ranges(s))
    OBVIOUS
  <2>4. Start(n) \in Reading(s, n)
    BY <2>2, <2>3 DEF Reading, Start
  <2>5. QED
    BY <2>4 DEF Scanning, Start
<1>2. PICK m : m = Scanned(Start(n), s)
  OBVIOUS
<1>3. Fetched(s, n) = FetchedRanges(m, s, ToRead(m, s))
  BY <1>2 DEF Fetched, Start, ToRead
<1>4. m \in Scanning(s, n, s.blocks) /\ Unmoved(m, Start(n))
  BY <1>1, <1>2, ScannedReads, ScannedMoves
<1>5. m \in Reading(s, n) /\ m.cache \in Caches /\ (m.open => m.start \in s.from..(s.from + s.blocks - 1))
  BY <1>4 DEF Scanning, Reading
<1>6. Contents(m.cache) = Contents(cache) /\ m.disk = disk /\ m.spoiled = spoiled
  BY <1>4 DEF Unmoved, Start
<1>7. Held(m, D, M)
  BY <1>5, <1>6, SameHolds DEF Held
<1>8. ToRead(m, s) \in Seq(Ranges(s))
  <2> DEFINE last == IF m.open THEN << <<m.start, s.to + 1>> >> ELSE <<>>
  <2>1. last \in Seq(Ranges(s))
    <3>1. CASE m.open
      <4>1. <<m.start, s.to + 1>> \in Ranges(s)
        BY <1>5, <3>1 DEF Access, Ranges
      <4>2. QED
        BY <3>1, <4>1
    <3>2. CASE ~m.open
      BY <3>2
    <3>3. QED
      BY <3>1, <3>2
  <2> HIDE DEF last
  <2>2. m.ranges \o last \in Seq(Ranges(s))
    BY <1>5, <2>1 DEF Reading
  <2>3. QED
    BY <2>2 DEF ToRead, last
<1>9. QED
  BY <1>3, <1>5, <1>7, <1>8, FetchedRangesHolds

-----------------------------------------------------------------------------
(***************************************************************************)
(* What an access settles: after a panic, the disk alone is left.          *)
(***************************************************************************)
LEMMA NoEntries ==
  Contents(<<>>) = {} /\ \A b : ~Cached(<<>>, b)
  BY DEF Contents, Cached

LEMMA EmptyHolds ==
  ASSUME NEW d, NEW D, NEW M, \A b \in Block \ M : d[b] = D[b]
  PROVE  Holds(<<>>, d, D, M)
  BY NoEntries DEF Holds

LEMMA SettleHolds ==
  ASSUME NEW m, m.cache \in Caches, m.ok \in BOOLEAN, Settle(m), NEW D, NEW M, Held(m, D, M)
  PROVE  Holds(cache', disk', D, M \cup spoiled')
<1>1. CASE m.ok
  BY <1>1 DEF Settle, Held
<1>2. CASE ~m.ok
  <2>1. disk' = m.disk /\ cache' = <<>> /\ spoiled' = m.spoiled \cup Lost(m)
    BY <1>2 DEF Settle
  <2>2. ASSUME NEW b \in Block \ (M \cup spoiled') PROVE m.disk[b] = D[b]
    <3>1. b \in Block \ (M \cup m.spoiled) /\ ~(Cached(m.cache, b) /\ Lookup(m.cache, b).dirty)
      BY <2>1, <2>2 DEF Lost
    <3>2. QED
      BY <3>1, OnDisk DEF Held
  <2>3. QED
    BY <2>1, <2>2, EmptyHolds
<1>3. QED
  BY <1>1, <1>2

-----------------------------------------------------------------------------
(***************************************************************************)
(* The bytes of a write.                                                   *)
(***************************************************************************)
\* Where the written bytes are, counted from the first block of the span.
LEMMA WrittenIs ==
  ASSUME cursor \in Nat, StartAddress = cursor, NEW s, NEW k \in Nat, SpanOf(s, k), image \in Disks, NEW v,
         NEW D, D = Written(k, v)
  PROVE  /\ \A b \in Block : b \notin s.from..s.to => D[b] = image[b]
         /\ \A b \in Block, i \in 1..BlockSize :
              b \in s.from..s.to =>
                D[b][i] = IF s.off < (b - s.from) * BlockSize + i /\ (b - s.from) * BlockSize + i <= s.off + k
                          THEN v ELSE image[b][i]
<1>1. /\ BlockSize \in Nat /\ LastBlock \in Nat /\ s.to \in Nat /\ s.from \in Nat
      /\ s.off \in Nat /\ s.off < BlockSize /\ s.tail \in Nat /\ s.tail <= BlockSize
      /\ cursor = s.from * BlockSize + s.off /\ cursor + k = s.to * BlockSize + s.tail
  BY SizesAssumption DEF SpanOf
<1>2. PICK f \in Int, t \in Int : f = s.from * BlockSize /\ t = s.to * BlockSize
  BY <1>1
<1>3. \A b \in Block : D[b] = [i \in 1..BlockSize |->
        IF b * BlockSize + i - 1 \in cursor..(cursor + k - 1) THEN v ELSE image[b][i]]
  BY DEF Written
<1>4. ASSUME NEW b \in Block, b \notin s.from..s.to PROVE D[b] = image[b]
  <2>1. PICK x \in Int : x = b * BlockSize
    BY <1>1 DEF Block
  <2>2. b \in Nat /\ (b < s.from \/ s.to < b)
    BY <1>1, <1>4 DEF Block
  <2>3. x + BlockSize <= f \/ t + BlockSize <= x
    BY <1>1, <1>2, <2>1, <2>2, Products
  <2>4. ASSUME NEW i \in 1..BlockSize PROVE b * BlockSize + i - 1 \notin cursor..(cursor + k - 1)
    BY <1>1, <1>2, <2>1, <2>3
  <2>5. D[b] = [i \in 1..BlockSize |-> image[b][i]]
    BY <1>3, <2>4
  <2>6. image[b] = [i \in 1..BlockSize |-> image[b][i]]
    BY DEF Disks, Data
  <2>7. QED
    BY <2>5, <2>6
<1>5. ASSUME NEW b \in Block, NEW i \in 1..BlockSize
      PROVE  D[b][i] = IF s.off < (b - s.from) * BlockSize + i /\ (b - s.from) * BlockSize + i <= s.off + k
                       THEN v ELSE image[b][i]
  <2>1. PICK q \in Int : q = b - s.from /\ b = s.from + q
    BY <1>1 DEF Block
  <2>2. PICK x \in Int : x = q * BlockSize
    BY <1>1
  <2>3. b * BlockSize = f + x
    <3>1. (s.from + q) * BlockSize = s.from * BlockSize + q * BlockSize
      BY <1>1
    <3>2. QED
      BY <1>2, <2>1, <2>2, <3>1
  <2>4. f + x + i - 1 \in cursor..(cursor + k - 1) <=> s.off < x + i /\ x + i <= s.off + k
    BY <1>1, <1>2
  <2>5. D[b][i] = IF b * BlockSize + i - 1 \in cursor..(cursor + k - 1) THEN v ELSE image[b][i]
    BY <1>3
  <2>6. QED
    BY <2>1, <2>2, <2>3, <2>4, <2>5
<1>6. QED
  BY <1>4, <1>5

\* Other blocks than the ones an access spans keep what they have, unless it goes astray.
LEMMA WrittenElsewhere ==
  ASSUME cursor \in 0..(Word - 1), NEW n \in 0..(Usize - 1), NEW k, k = Clipped(n), k > 0,
         NEW s, s.from = Span(k).from, s.to = Span(k).to, image \in Disks, NEW v,
         NEW b \in Block, b \notin s.from..s.to, b \notin Strayed(k, s)
  PROVE  Written(k, v)[b] = image[b]
<1>1. /\ StartAddress \in Nat /\ k \in Nat /\ k > 0 /\ StartAddress + k <= Capacity /\ cursor \in Nat
      /\ ~Astray => StartAddress = cursor
  BY ClippedIs, SizesAssumption
<1>2. CASE ~Astray
  <2>1. PICK q : q = Span(k) /\ SpanOf(q, k)
    BY <1>1, SpanIs
  <2>2. PICK D : D = Written(k, v)
    OBVIOUS
  <2>3. StartAddress = cursor /\ b \notin q.from..q.to
    BY <1>1, <1>2, <2>1
  <2>4. D[b] = image[b]
    BY <1>1, <2>1, <2>2, <2>3, WrittenIs
  <2>5. QED
    BY <2>2, <2>4
<1>3. CASE Astray
  <2>1. \A a \in cursor..(cursor + k - 1) : a \div BlockSize # b
    BY <1>3 DEF Strayed
  <2>2. BlockSize \in Nat /\ b \in Nat
    BY SizesAssumption DEF Block
  <2>3. PICK x \in Int : x = b * BlockSize
    BY <2>2, Products
  <2>4. ASSUME NEW i \in 1..BlockSize PROVE x + i - 1 \notin cursor..(cursor + k - 1)
    <3>1. i - 1 \in 0..(BlockSize - 1) /\ x + i - 1 = x + (i - 1)
      BY <2>2
    <3>2. (x + (i - 1)) \div BlockSize = b
      BY <2>2, <2>3, <3>1, SplitOnly
    <3>3. QED
      BY <2>1, <3>1, <3>2
  <2>5. Written(k, v)[b] = [i \in 1..BlockSize |-> image[b][i]]
    BY <2>3, <2>4 DEF Written
  <2>6. image[b] = [i \in 1..BlockSize |-> image[b][i]]
    BY DEF Disks, Data
  <2>7. QED
    BY <2>5, <2>6
<1>4. QED
  BY <1>2, <1>3

\* In numbers: n bytes of which k count, from o into a row of c blocks of a span of more.
LEMMA CutShort ==
  ASSUME NEW a \in Nat, NEW y \in Int, NEW k \in Nat, NEW n \in Nat, NEW f \in Nat, NEW t \in Nat, NEW o \in Nat,
         NEW z \in Nat, NEW size \in Nat, NEW c \in Nat, NEW x \in Int, NEW d \in Int, NEW w \in Int, NEW e \in Int,
         k <= n, n = k \/ a + k = y, a = x + o, a + k = w + z, w = x + d, w + size <= y,
         0 < z, z <= size, o + n <= e, c <= t - f + 1, c <= t - f => e <= d, c = t - f + 1 => e = d + size
  PROVE  n = k /\ c = t - f + 1
<1>1. c = t - f + 1
  <2> SUFFICES ASSUME c <= t - f PROVE FALSE
    OBVIOUS
  <2>1. e <= d
    OBVIOUS
  <2>2. o + k <= d /\ o + k = d + z
    BY <2>1
  <2>3. QED
    BY <2>2
<1>2. e = d + size
  BY <1>1
<1>3. n = k
  <2> SUFFICES ASSUME n # k PROVE FALSE
    OBVIOUS
  <2>1. a + k = y
    OBVIOUS
  <2>2. z = size
    BY <2>1
  <2>3. QED
    BY <1>2, <2>2
<1>4. QED
  BY <1>1, <1>3

\* A write whose bytes fit into the blocks it counts has counted them all, and writes all
\* of its bytes: one cut short at the capacity copies more of them than its last block takes.
LEMMA WholePatch ==
  ASSUME cursor \in 0..(Word - 1), ~Astray, NEW n \in 0..(Usize - 1), NEW k, k = Clipped(n), k > 0,
         NEW q, SpanOf(q, k), NEW c \in Nat, c <= q.blocks, q.off + n <= c * BlockSize
  PROVE  n = k /\ c = q.blocks
<1>1. PICK a \in Nat, y \in Nat : /\ a = StartAddress /\ a = cursor /\ y = Capacity /\ k \in Nat /\ n \in Nat /\ k <= n
                                   /\ a + k = Least(a + n, y)
  BY ClippedIs, SizesAssumption
<1>2. PICK f \in Nat, t \in Nat, o \in Nat, z \in Nat, size \in Nat :
        /\ f = q.from /\ t = q.to /\ o = q.off /\ z = q.tail /\ size = BlockSize
        /\ f <= t /\ t < LastBlock /\ z <= size /\ 0 < z
        /\ q.blocks = t - f + 1
  BY SizesAssumption DEF SpanOf
<1>3. PICK x \in Int, d \in Int, w \in Int :
        x = f * BlockSize /\ d = (t - f) * BlockSize /\ w = t * BlockSize /\ w = x + d
  <2>1. f * BlockSize \in Int /\ (t - f) * BlockSize \in Int /\ t * BlockSize = f * BlockSize + (t - f) * BlockSize
    BY SizesAssumption
  <2>2. QED
    BY <2>1
<1>4. a = x + o /\ a + k = w + z
  <2>1. StartAddress = q.from * BlockSize + q.off /\ StartAddress + k = q.to * BlockSize + q.tail
    BY DEF SpanOf
  <2>2. QED
    BY <1>1, <1>2, <1>3, <2>1
<1>5. PICK e \in Int : e = c * BlockSize /\ o + n <= e
  BY <1>2, Products
<1>6. c <= t - f => e <= d
  <2>1. c \in Int /\ t - f \in Int
    OBVIOUS
  <2>2. c <= t - f => c * BlockSize <= (t - f) * BlockSize
    BY <2>1, Products
  <2>3. QED
    BY <1>3, <1>5, <2>2
<1>7. c = t - f + 1 => e = d + size
  <2>1. t - f \in Int
    OBVIOUS
  <2>2. (t - f + 1) * BlockSize = (t - f) * BlockSize + BlockSize
    BY <2>1, Products
  <2>3. QED
    BY <1>2, <1>3, <1>5, <2>2
<1>8. w + size <= y
  <2>1. t \in Int /\ LastBlock \in Int /\ t < LastBlock
    BY <1>2, SizesAssumption
  <2>2. t * BlockSize + BlockSize <= LastBlock * BlockSize
    BY <2>1, Products
  <2>3. QED
    BY <1>1, <1>2, <1>3, <2>2 DEF Capacity
<1>9. n = k \/ a + k = y
  BY <1>1 DEF Least
<1>10. c <= t - f + 1
  BY <1>2
<1>11. n = k /\ c = t - f + 1
  <2>1. k \in Nat /\ n \in Nat /\ k <= n /\ z <= size /\ 0 < z
    BY <1>1, <1>2
  <2> HIDE DEF Astray
  <2>2. QED
    BY ONLY a \in Nat, y \in Nat, f \in Nat, t \in Nat, o \in Nat, z \in Nat, size \in Nat, c \in Nat,
            x \in Int, d \in Int, w \in Int, e \in Int, <1>3, <1>4, <1>5, <1>6, <1>7, <1>8, <1>9, <1>10, <2>1, CutShort
<1>12. QED
  BY <1>2, <1>11

\* What the guest writes: the same byte n times over.
PatchOf(patch, n, v) == patch \in Seq(Byte) /\ Len(patch) = n /\ \A i \in 1..n : patch[i] = v

LEMMA PatchedBuf ==
  ASSUME NEW l \in Nat, NEW m \in Writing(l), NEW n \in Nat, NEW v, NEW patch, PatchOf(patch, n, v),
         NEW o \in Nat, NEW r, r = Copy(m, o, o + n, patch, 0, n), r.ok
  PROVE  /\ o + n <= l
         /\ \A i \in 1..l : r.buf[i] = IF o < i /\ i <= o + n THEN v ELSE m.buf[i]
<1>1. m.buf \in Buffers(l) /\ m.ok \in BOOLEAN
  BY DEF Writing
<1>2. Len(m.buf) = l /\ DOMAIN m.buf = 1..l
  BY <1>1, BufferIs
<1>3. Fits(m.buf, o, o + n, patch, 0, n)
  <2> SUFFICES ASSUME ~Fits(m.buf, o, o + n, patch, 0, n) PROVE FALSE
    OBVIOUS
  <2>1. r = [m EXCEPT !.ok = FALSE]
    BY CopyIs
  <2>2. QED
    BY <2>1 DEF Writing
<1>4. r = [m EXCEPT !.buf = Copied(m.buf, o, o + n, patch, 0)]
  BY <1>3, CopyIs
<1>5. r.buf = Copied(m.buf, o, o + n, patch, 0)
  BY <1>4 DEF Writing
<1>6. o + n <= l
  BY <1>2, <1>3 DEF Fits
<1>7. ASSUME NEW i \in 1..l PROVE r.buf[i] = IF o < i /\ i <= o + n THEN v ELSE m.buf[i]
  <2>1. r.buf[i] = IF o < i /\ i <= o + n THEN patch[i - o + 0] ELSE m.buf[i]
    BY <1>2, <1>5 DEF Copied
  <2>2. o < i /\ i <= o + n => i - o + 0 \in 1..n
    OBVIOUS
  <2>3. QED
    BY <2>1, <2>2 DEF PatchOf
<1>8. QED
  BY <1>6, <1>7

LEMMA CurrentHolds ==
  ASSUME cache \in Caches, NEW D, NEW M, Holds(cache, disk, D, M), NEW b \in Block, b \notin M
  PROVE  Current(b) = D[b]
<1>1. CASE Cached(cache, b)
  BY <1>1, LookupCaches DEF Current, Holds
<1>2. CASE ~Cached(cache, b)
  BY <1>2 DEF Current, Holds
<1>3. QED
  BY <1>1, <1>2

-----------------------------------------------------------------------------
(***************************************************************************)
(* What a write leaves.                                                    *)
(***************************************************************************)
\* A write of n bytes v, k of them counted, over the span s.
Writes(n, v, k, s) ==
  /\ cache \in Caches /\ disk \in Disks /\ image \in Disks /\ spoiled \subseteq Block
  /\ cursor \in 0..(Word - 1) /\ n \in 0..(Usize - 1) /\ v \in Marks
  /\ k = Clipped(n) /\ k > 0 /\ s = Counted(Span(k))

LEMMA WritesIs ==
  ASSUME NEW n, NEW v, NEW k, NEW s, Writes(n, v, k, s)
  PROVE  /\ n \in Nat /\ k \in Nat /\ SpanOf(Span(k), k) /\ Access(s)
         /\ s.from = Span(k).from /\ s.to = Span(k).to /\ s.off = Span(k).off
         /\ s.blocks <= Span(k).blocks /\ Span(k).blocks = s.to - s.from + 1
         /\ ~Astray => StartAddress = cursor
<1>1. /\ cursor \in 0..(Word - 1) /\ n \in 0..(Usize - 1) /\ k = Clipped(n) /\ k > 0 /\ s = Counted(Span(k)) /\ v \in Marks
  BY DEF Writes
<1>2. n \in Nat /\ k \in Nat \ {0} /\ StartAddress \in Nat /\ StartAddress + k <= Capacity
  BY <1>1, ClippedIs
<1>3. ~Astray => StartAddress = cursor
  BY <1>1, ClippedIs
<1>4. SpanOf(Span(k), k)
  BY <1>2, SpanIs
<1>5. Access(s) /\ s.from = Span(k).from /\ s.to = Span(k).to /\ s.off = Span(k).off
  BY <1>1, <1>2, CountedIs
<1>6. Span(k).blocks = s.to - s.from + 1 /\ s.blocks <= Span(k).blocks
  BY <1>4, <1>5 DEF SpanOf, Access
<1>7. QED
  BY <1>2, <1>3, <1>4, <1>5, <1>6

LEMMA WritesPatch ==
  ASSUME NEW n, NEW v, NEW k, NEW s, Writes(n, v, k, s), NEW patch, patch = [i \in 1..n |-> v]
  PROVE  PatchOf(patch, n, v)
<1>1. n \in Nat /\ v \in Marks
  <2>1. n \in Nat
    BY WritesIs
  <2>2. QED
    BY <2>1 DEF Writes
<1>2. patch \in Seq(Byte) /\ Len(patch) = n
  BY <1>1, PatchType
<1>3. \A j \in 1..n : patch[j] = v
  OBVIOUS
<1>4. QED
  BY <1>2, <1>3 DEF PatchOf

\* What was changed elsewhere than in the blocks written.
LEMMA WritesElsewhere ==
  ASSUME NEW n, NEW v, NEW k, NEW s, Writes(n, v, k, s), NEW b \in Block, b \notin s.from..s.to, b \notin Strayed(k, s)
  PROVE  Written(k, v)[b] = image[b]
<1>1. cursor \in 0..(Word - 1) /\ n \in 0..(Usize - 1) /\ k = Clipped(n) /\ k > 0 /\ image \in Disks
  BY DEF Writes
<1>2. s.from = Span(k).from /\ s.to = Span(k).to
  BY WritesIs
<1>3. QED
  BY <1>1, <1>2, WrittenElsewhere

\* A write that is not astray and does not panic in the copy: it has counted all of its
\* blocks, and its row of them has its bytes.
LEMMA RowWritten ==
  ASSUME NEW n, NEW v, NEW k, NEW s, Writes(n, v, k, s), ~Astray, NEW l \in Nat, l = s.blocks * BlockSize,
         NEW m \in Writing(l), NEW patch, PatchOf(patch, n, v),
         NEW r, r = Copy(m, s.off, s.off + n, patch, 0, n), r.ok
  PROVE  /\ s.blocks = s.to - s.from + 1 /\ n = k
         /\ \A i \in 1..l : r.buf[i] = IF s.off < i /\ i <= s.off + k THEN v ELSE m.buf[i]
<1>1. PICK q : q = Span(k)
  OBVIOUS
<1>2. /\ n \in Nat /\ k \in Nat /\ SpanOf(q, k) /\ Access(s) /\ s.off = q.off
      /\ s.blocks <= q.blocks /\ q.blocks = s.to - s.from + 1
  BY <1>1, WritesIs
<1>3. PICK o \in Nat : o = s.off
  BY <1>2 DEF Access
<1>4. r = Copy(m, o, o + n, patch, 0, n)
  BY <1>3
<1>5. o + n <= l /\ \A i \in 1..l : r.buf[i] = IF o < i /\ i <= o + n THEN v ELSE m.buf[i]
  BY <1>2, <1>4, PatchedBuf
<1>6. PICK c \in Nat : c = s.blocks
  BY <1>2 DEF Access
<1>7. cursor \in 0..(Word - 1) /\ n \in 0..(Usize - 1) /\ k = Clipped(n) /\ k > 0
  BY DEF Writes
<1>8. c <= q.blocks /\ q.off + n <= c * BlockSize
  BY <1>2, <1>3, <1>5, <1>6
<1>9. n = k /\ c = q.blocks
  BY <1>2, <1>7, <1>8, WholePatch
<1>10. QED
  BY <1>2, <1>3, <1>5, <1>6, <1>9

\* The guest's data, up to what is exempt, when a write begins: outside of the blocks
\* it writes the cache holds what there will be.
LEMMA HoldsBefore ==
  ASSUME NEW n, NEW v, NEW k, NEW s, Writes(n, v, k, s), NEW M, Strayed(k, s) \subseteq M,
         NEW c \in Caches, Contents(c) = Contents(cache), Holds(cache, disk, image, M)
  PROVE  Holds(c, disk, Written(k, v), M \cup (s.from..s.to)) /\ Holds(c, disk, image, M)
<1>1. cache \in Caches
  BY DEF Writes
<1>2. Holds(c, disk, image, M)
  BY <1>1, SameHolds
<1>3. PICK N : N = M \cup (s.from..s.to)
  OBVIOUS
<1>4. Holds(c, disk, image, N)
  BY <1>2, <1>3, HoldsMore
<1>5. \A b \in Block \ N : image[b] = Written(k, v)[b]
  BY <1>3, WritesElsewhere
<1>6. Holds(c, disk, Written(k, v), N)
  BY <1>4, <1>5, HoldsAgree
<1>7. QED
  BY <1>2, <1>3, <1>6

Uncached(b) == IF Cached(cache, b) THEN {} ELSE {b}

\* One block, written in the cache: with what is written, but for a block that was not
\* in the cache.
LEMMA WriteOneHolds ==
  ASSUME NEW n, NEW v, NEW k, NEW s, Writes(n, v, k, s), s.blocks = 1,
         NEW M, Strayed(k, s) \subseteq M, Holds(cache, disk, image, M), spoiled \subseteq M,
         NEW m, m = WriteOne(s, [i \in 1..n |-> v])
  PROVE  /\ m.ok => Holds(m.cache, m.disk, Written(k, v), M \cup m.spoiled \cup Uncached(s.from))
         /\ ~m.ok => Holds(m.cache, m.disk, image, M \cup m.spoiled)
         /\ spoiled \subseteq m.spoiled
<1> DEFINE D == Written(k, v)
<1>1. PICK patch : patch = [i \in 1..n |-> v]
  OBVIOUS
<1>2. PICK p : p = Patched(s, patch)
  OBVIOUS
<1>3. cache \in Caches /\ disk \in Disks /\ image \in Disks /\ spoiled \subseteq Block
  BY DEF Writes
<1>4. /\ n \in Nat /\ k \in Nat /\ Access(s) /\ SpanOf(Span(k), k)
      /\ s.from = Span(k).from /\ s.to = Span(k).to /\ s.off = Span(k).off /\ (~Astray => StartAddress = cursor)
  BY WritesIs
<1>5. patch \in Seq(Byte) /\ Len(patch) = n /\ PatchOf(patch, n, v)
  BY <1>1, WritesPatch DEF PatchOf
<1>6. PICK b \in Block : b = s.from
  BY <1>3, <1>4, <1>5, PatchedWrites
<1>7. p \in Writing(BlockSize) /\ p.cache = Found(cache, b) /\ p.disk = disk /\ p.spoiled = spoiled
  BY <1>2, <1>3, <1>4, <1>5, <1>6, PatchedWrites
<1>8. p.cache \in Caches /\ Contents(p.cache) = Contents(cache)
  BY <1>3, <1>7, FoundIs
<1>9. Cached(p.cache, b) <=> Cached(cache, b)
  BY <1>3, <1>8, CachedIs DEF Caches
<1>10. Holds(p.cache, disk, D, M \cup (s.from..s.to)) /\ Holds(p.cache, disk, image, M)
  BY <1>8, HoldsBefore
<1>11. CASE ~p.ok
  <2>1. m = p
    BY <1>1, <1>2, <1>11 DEF WriteOne, Patched
  <2>2. Holds(m.cache, m.disk, image, M \cup m.spoiled)
    <3>1. M \subseteq M \cup m.spoiled
      OBVIOUS
    <3>2. QED
      BY <1>7, <1>10, <2>1, <3>1, HoldsMore
  <2>3. QED
    BY <1>7, <1>11, <2>1, <2>2
<1>12. CASE p.ok
  <2>1. m = UpdatedEntry(p, b, p.buf)
    BY <1>1, <1>2, <1>6, <1>12 DEF WriteOne, Patched
  <2>2. p.buf \in Data /\ BlockSize \in Nat
    BY <1>7, DataIs DEF Writing
  <2>3. ASSUME ~Astray PROVE s.from = s.to /\ (b \notin M => p.buf = D[b])
    <3>1. PICK w \in Writing(BlockSize) :
            /\ w = [cache |-> Found(cache, s.from), disk |-> disk, spoiled |-> spoiled, buf |-> Current(s.from), ok |-> TRUE]
            /\ w.buf = Current(b)
      <4>1. Found(cache, s.from) \in Caches
        BY <1>3, FoundIs
      <4>2. Current(s.from) \in Buffers(BlockSize)
        BY <1>3, <1>6, CurrentIs, DataIs
      <4>3. PICK w : w = [cache |-> Found(cache, s.from), disk |-> disk, spoiled |-> spoiled, buf |-> Current(s.from), ok |-> TRUE]
        OBVIOUS
      <4>4. w \in Writing(BlockSize) /\ w.buf = Current(b)
        BY <1>3, <1>6, <4>1, <4>2, <4>3 DEF Writing
      <4>5. QED
        BY <4>3, <4>4
    <3>2. p = Copy(w, s.off, s.off + n, patch, 0, n)
      BY <1>2, <1>5, <3>1 DEF Patched
    <3>3. PICK l \in Nat : l = BlockSize /\ l = s.blocks * BlockSize
      BY <2>2
    <3>4. w \in Writing(l) /\ p = Copy(w, s.off, s.off + n, patch, 0, n)
      BY <3>1, <3>2, <3>3
    <3>5. /\ s.blocks = s.to - s.from + 1 /\ n = k
          /\ \A i \in 1..l : p.buf[i] = IF s.off < i /\ i <= s.off + k THEN v ELSE w.buf[i]
      BY <1>5, <1>12, <2>3, <3>3, <3>4, RowWritten
    <3>6. s.from = s.to
      BY <1>4, <3>5 DEF Access
    <3>7. ASSUME b \notin M PROVE p.buf = D[b]
      <4>1. Current(b) = image[b]
        BY <1>3, <3>7, CurrentHolds
      <4>2. \A i \in 1..BlockSize : D[b][i] = IF s.off < i /\ i <= s.off + k THEN v ELSE image[b][i]
        <5>1. PICK q : q = Span(k) /\ SpanOf(q, k)
          BY <1>4
        <5>2. cursor \in Nat
          BY SizesAssumption DEF Writes
        <5>3. /\ StartAddress = cursor /\ b \in q.from..q.to /\ b - q.from = 0 /\ q.off = s.off
          <6>1. b \in Nat /\ q.from = b /\ q.to = b /\ q.off = s.off
            BY <1>4, <1>6, <3>6, <5>1 DEF Access
          <6>2. b \in b..b /\ b - b = 0
            BY <6>1
          <6>3. QED
            BY <1>4, <2>3, <6>1, <6>2
        <5>4. ASSUME NEW i \in 1..BlockSize
              PROVE  D[b][i] = IF q.off < (b - q.from) * BlockSize + i /\ (b - q.from) * BlockSize + i <= q.off + k
                               THEN v ELSE image[b][i]
          BY <1>3, <1>4, <5>1, <5>2, <5>3, WrittenIs
        <5>5. 0 * BlockSize = 0
          BY <2>2
        <5>6. QED
          BY <5>3, <5>4, <5>5
      <4>3. D[b] = [i \in 1..BlockSize |-> D[b][i]]
        BY DEF Written
      <4>4. p.buf = [i \in 1..BlockSize |-> p.buf[i]]
        BY <2>2 DEF Data
      <4> HIDE DEF D
      <4>5. \A i \in 1..BlockSize : p.buf[i] = D[b][i]
        BY <3>1, <3>3, <3>5, <4>1, <4>2
      <4>6. QED
        BY <4>3, <4>4, <4>5
    <3>8. QED
      BY <3>6, <3>7
  <2>4. b \notin M => p.buf = D[b]
    <3>1. ASSUME Astray PROVE b \in Strayed(k, s)
      BY <1>4, <1>6, <3>1 DEF Access, Strayed
    <3>2. QED
      BY <2>3, <3>1
  <2>5. Holds(p.cache, disk, D, M \cup {b})
    <3>1. CASE Astray
      <4>1. s.from..s.to \subseteq Strayed(k, s)
        BY <1>4, <3>1, SizesAssumption DEF Access, Strayed, Block
      <4>2. M \cup (s.from..s.to) \subseteq M \cup {b}
        BY <4>1
      <4>3. QED
        BY <1>10, <4>2, HoldsMore
    <3>2. CASE ~Astray
      <4>1. s.from..s.to = {b}
        BY <1>4, <1>6, <2>3, <3>2 DEF Access
      <4>2. QED
        BY <1>10, <4>1
    <3>3. QED
      BY <3>1, <3>2
  <2> HIDE DEF D
  <2>6. CASE Cached(cache, b)
    <3>1. PICK e \in Entries : e = Entry(b, p.buf, TRUE) /\ e.block = b /\ e.data = p.buf /\ e.dirty
      <4>1. TRUE \in BOOLEAN
        OBVIOUS
      <4>2. PICK e : e = Entry(b, p.buf, TRUE)
        OBVIOUS
      <4>3. e \in Entries /\ e.block = b
        BY <2>2, <4>1, <4>2, EntryIs
      <4>4. e.data = p.buf /\ e.dirty
        BY <4>2 DEF Entry
      <4>5. QED
        BY <4>2, <4>3, <4>4
    <3>2. m = [p EXCEPT !.cache = Touch(p.cache, e)]
      BY <1>9, <2>1, <2>6, <3>1 DEF UpdatedEntry
    <3>3. Holds(Touch(p.cache, e), disk, D, M)
      <4>1. Cached(p.cache, e.block) /\ Holds(p.cache, disk, D, M \cup {e.block})
        BY <1>9, <2>5, <2>6, <3>1
      <4>2. e.block \notin M => e.data = D[e.block] /\ (~e.dirty => disk[e.block] = D[e.block])
        BY <2>4, <3>1
      <4>3. QED
        BY <1>8, <4>1, <4>2, StoreHolds
    <3>4. m.cache = Touch(p.cache, e) /\ m.disk = disk /\ m.spoiled = spoiled /\ m.ok = p.ok
      BY <1>7, <3>2 DEF Writing
    <3>5. M \subseteq M \cup m.spoiled \cup Uncached(s.from)
      OBVIOUS
    <3>6. Holds(m.cache, m.disk, D, M \cup m.spoiled \cup Uncached(s.from))
      BY <3>3, <3>4, <3>5, HoldsMore
    <3>7. QED
      BY <1>12, <3>4, <3>6 DEF D
  <2>7. CASE ~Cached(cache, b)
    <3>1. PICK e \in Entries : e = Entry(b, p.buf, FALSE) /\ e.block = b /\ ~e.dirty
      <4>1. FALSE \in BOOLEAN
        OBVIOUS
      <4>2. PICK e : e = Entry(b, p.buf, FALSE)
        OBVIOUS
      <4>3. e \in Entries /\ e.block = b
        BY <2>2, <4>1, <4>2, EntryIs
      <4>4. ~e.dirty
        BY <4>2 DEF Entry
      <4>5. QED
        BY <4>2, <4>3, <4>4
    <3>2. m = InsertEntry(p, e)
      BY <1>9, <2>1, <2>7, <3>1 DEF UpdatedEntry
    <3>3. ~Cached(p.cache, e.block) /\ Holds(p.cache, disk, D, (M \cup {b}) \cup {e.block}) /\ e.block \in M \cup {b}
      BY <1>9, <2>5, <2>7, <3>1
    <3>4. Holds(Grown(p.cache, e), Evicted(p.cache, disk, e), D, (M \cup {b}) \cup Displaced(p.cache, e))
      BY <1>3, <1>8, <3>1, <3>3, InsertHolds
    <3>5. /\ m.cache = Grown(p.cache, e) /\ m.disk = Evicted(p.cache, disk, e)
          /\ m.spoiled = spoiled \cup Displaced(p.cache, e) /\ m.ok = p.ok
      <4>1. m = [p EXCEPT !.cache = Grown(p.cache, e), !.disk = Evicted(p.cache, p.disk, e),
                          !.spoiled = p.spoiled \cup Displaced(p.cache, e)]
        BY <3>2, InsertIs DEF Evicted, Displaced
      <4>2. QED
        BY <1>7, <4>1 DEF Writing
    <3>6. (M \cup {b}) \cup Displaced(p.cache, e)
            \subseteq M \cup m.spoiled \cup Uncached(s.from)
      BY <1>6, <2>7, <3>5 DEF Uncached
    <3>7. PICK N, X : N = M \cup m.spoiled \cup Uncached(s.from) /\ X = (M \cup {b}) \cup Displaced(p.cache, e)
      OBVIOUS
    <3>8. Holds(m.cache, m.disk, D, X) /\ X \subseteq N
      BY <3>4, <3>5, <3>6, <3>7
    <3>9. Holds(m.cache, m.disk, D, N)
      BY <3>8, HoldsMore
    <3>10. QED
      BY <1>12, <3>5, <3>7, <3>9 DEF D
  <2>8. QED
    BY <2>6, <2>7
<1>13. p.ok \in BOOLEAN
  BY <1>7 DEF Writing
<1>14. QED
  BY <1>11, <1>12, <1>13

\* A write of several blocks has, for each block of its span, what the guest wrote there:
\* the parts of the first and the last that it does not write it has read.
LEMMA PatchedManyIs ==
  ASSUME NEW n, NEW v, NEW k, NEW s, Writes(n, v, k, s), ~Astray, s.blocks # 1,
         NEW M, Holds(cache, disk, image, M), NEW patch, PatchOf(patch, n, v),
         NEW p, p = PatchedMany(s, patch), p.ok, NEW D, D = Written(k, v)
  PROVE  /\ s.blocks = s.to - s.from + 1
         /\ \A b \in s.from..s.to : b \notin M => BlockOf(p.buf, b - s.from + 1) = D[b]
<1>0. /\ Access(s) /\ n \in Nat /\ k \in Nat /\ StartAddress = cursor /\ SpanOf(Span(k), k)
      /\ s.from = Span(k).from /\ s.to = Span(k).to /\ s.off = Span(k).off
  BY WritesIs
<1>1. cache \in Caches /\ disk \in Disks /\ image \in Disks /\ spoiled \subseteq Block /\ cursor \in Nat
  BY SizesAssumption DEF Writes
<1>2. PICK l \in Nat : l = s.blocks * BlockSize
  BY <1>0, SizesAssumption DEF Access
<1>3. PICK around \in Buffers(l) : around = Around(s)
  BY <1>0, <1>1, <1>2, AroundType
<1>4. PICK w : w = [cache |-> Found(Found(cache, s.from), s.to), disk |-> disk, spoiled |-> spoiled, buf |-> around, ok |-> s.blocks > 0]
  OBVIOUS
<1>5. w \in Writing(l) /\ w.buf = around
  <2>1. Found(Found(cache, s.from), s.to) \in Caches
    BY <1>1, FoundIs
  <2>2. QED
    BY <1>1, <1>4, <2>1 DEF Writing
<1>6. p = Copy(w, s.off, s.off + n, patch, 0, n)
  <2>1. Len(patch) = n
    BY DEF PatchOf
  <2>2. QED
    BY <1>3, <1>4, <2>1 DEF PatchedMany
<1>7. /\ s.blocks = s.to - s.from + 1
      /\ \A g \in 1..l : p.buf[g] = IF s.off < g /\ g <= s.off + k THEN v ELSE around[g]
  <2>1. /\ s.blocks = s.to - s.from + 1
        /\ \A g \in 1..l : p.buf[g] = IF s.off < g /\ g <= s.off + k THEN v ELSE w.buf[g]
    BY <1>2, <1>5, <1>6, RowWritten
  <2>2. QED
    BY <1>5, <2>1
<1>8. PICK f \in Nat, t \in Nat, o \in Nat, tail \in Nat, size \in Nat, last \in Nat :
        /\ f = s.from /\ t = s.to /\ o = s.off /\ tail = Span(k).tail /\ size = BlockSize
        /\ last = t - f /\ last = s.blocks - 1 /\ s.blocks = last + 1 /\ 1 <= last
        /\ o < size /\ 0 < tail /\ f..t \subseteq Block
  <2>1. PICK f \in Nat, t \in Nat : f = s.from /\ t = s.to /\ f <= t /\ t < LastBlock
    BY <1>0 DEF Access
  <2>2. PICK last \in Nat : last = t - f /\ last # 0
    BY <1>7, <2>1
  <2>3. f..t \subseteq Block
    BY <2>1, SizesAssumption DEF Block
  <2>4. PICK o \in Nat, tail \in Nat, size \in Nat : o = s.off /\ tail = Span(k).tail /\ size = BlockSize /\ o < size /\ 0 < tail
    BY <1>0, SizesAssumption DEF SpanOf
  <2>5. last = s.blocks - 1 /\ s.blocks = last + 1 /\ 1 <= last
    BY <1>7, <2>1, <2>2
  <2>6. QED
    BY <2>1, <2>2, <2>3, <2>4, <2>5
<1>9. PICK y \in Nat : y = last * BlockSize /\ l = y + BlockSize /\ y = t * BlockSize - f * BlockSize
  <2>1. last \in Int /\ f \in Int /\ t \in Int /\ last * BlockSize \in Nat
    BY SizesAssumption
  <2>2. (last + 1) * BlockSize = last * BlockSize + BlockSize
    BY <2>1, Products
  <2>3. (t - f) * BlockSize = t * BlockSize - f * BlockSize
    BY SizesAssumption
  <2>4. QED
    BY <1>2, <1>8, <2>1, <2>2, <2>3
<1>10. o + k = y + tail
  <2>1. PICK x \in Int, z \in Int : x = f * BlockSize /\ z = t * BlockSize
    <3>1. f \in Int /\ t \in Int
      OBVIOUS
    <3>2. QED
      BY <3>1, Products
  <2>2. cursor = x + o /\ cursor + k = z + tail
    BY <1>0, <1>8, <2>1 DEF SpanOf
  <2>3. y = z - x
    BY <1>9, <2>1
  <2>4. QED
    BY <1>0, <1>1, <2>2, <2>3
<1>11. \A b \in Block, i \in 1..BlockSize :
         b \in s.from..s.to =>
           D[b][i] = IF s.off < (b - s.from) * BlockSize + i /\ (b - s.from) * BlockSize + i <= s.off + k
                     THEN v ELSE image[b][i]
  <2>1. PICK q : q = Span(k) /\ SpanOf(q, k)
    BY <1>0
  <2>2. \A b \in Block, i \in 1..BlockSize :
          b \in q.from..q.to =>
            D[b][i] = IF q.off < (b - q.from) * BlockSize + i /\ (b - q.from) * BlockSize + i <= q.off + k
                      THEN v ELSE image[b][i]
    BY <1>0, <1>1, <2>1, WrittenIs
  <2>3. QED
    BY <1>0, <2>1, <2>2
<1>12. ASSUME NEW b \in s.from..s.to, b \notin M, NEW i \in 1..BlockSize
       PROVE  BlockOf(p.buf, b - s.from + 1)[i] = D[b][i]
  <2>1. PICK q \in Nat : q = b - f /\ q <= last /\ (q = 0 => b = f) /\ (q = last => b = t) /\ b \in Block
    <3>1. b \in f..t /\ b \in Block
      BY <1>8
    <3>2. PICK q \in Nat : q = b - f
      BY <3>1
    <3>3. q <= last /\ (q = 0 => b = f) /\ (q = last => b = t)
      BY <1>8, <3>1, <3>2
    <3>4. QED
      BY <3>1, <3>2, <3>3
  <2>2. PICK x \in Nat : x = q * BlockSize /\ (q = 0 => x = 0) /\ (q = last => x = y)
          /\ (q # 0 => size <= x) /\ (q # last => x + size <= y)
    <3>1. q * BlockSize \in Nat
      BY SizesAssumption
    <3>2. 0 * BlockSize = 0 /\ 1 * BlockSize = BlockSize
      BY SizesAssumption
    <3>3. q # 0 => 1 * BlockSize <= q * BlockSize
      BY Products
    <3>4. q # last => q * BlockSize + BlockSize <= last * BlockSize
      <4>1. q # last => q < last
        BY <2>1
      <4>2. q \in Int /\ last \in Int
        OBVIOUS
      <4>3. QED
        BY ONLY <4>1, <4>2, Products
    <3>5. QED
      BY <1>8, <1>9, <3>1, <3>2, <3>3, <3>4
  <2>3. PICK g \in 1..l : g = x + i
    <3>1. x + size <= y \/ x = y
      BY <2>2
    <3>2. x + i \in 1..l
      BY <1>8, <1>9, <3>1
    <3>3. QED
      BY <3>2
  <2>4. BlockOf(p.buf, b - s.from + 1)[i] = p.buf[g]
    <3>1. b - s.from + 1 = q + 1 /\ (q + 1) - 1 = q
      BY <1>8, <2>1
    <3>2. BlockOf(p.buf, q + 1)[i] = p.buf[((q + 1) - 1) * BlockSize + i]
      BY DEF BlockOf
    <3>3. QED
      BY <2>2, <2>3, <3>1, <3>2
  <2>5. D[b][i] = IF s.off < g /\ g <= s.off + k THEN v ELSE image[b][i]
    <3>1. D[b][i] = IF s.off < (b - s.from) * BlockSize + i /\ (b - s.from) * BlockSize + i <= s.off + k
                    THEN v ELSE image[b][i]
      BY <1>11, <2>1
    <3>2. (b - s.from) * BlockSize + i = g
      BY <1>8, <2>1, <2>2, <2>3
    <3>3. QED
      BY <3>1, <3>2
  <2>6. Current(b) = image[b]
    BY <1>1, <1>12, <2>1, CurrentHolds
  <2>7. around[g] = IF g <= size THEN Current(f)[g] ELSE IF g > y THEN Current(t)[g - y] ELSE 0
    <3>1. g \in 1..(s.blocks * BlockSize) /\ y = (s.blocks - 1) * BlockSize
      BY <1>2, <1>8, <1>9
    <3>2. QED
      BY <1>3, <1>8, <3>1 DEF Around
  <2>8. ASSUME ~(s.off < g /\ g <= s.off + k) PROVE around[g] = image[b][i]
    <3>1. CASE q = 0
      <4>1. g = i /\ g <= size
        BY <1>8, <2>2, <2>3, <3>1
      <4>2. QED
        BY <2>1, <2>6, <2>7, <3>1, <4>1
    <3>2. CASE q # 0 /\ q = last
      <4>1. ~(g <= size) /\ g > y /\ g - y = i
        <5>1. x = y /\ size <= x /\ g = x + i
          BY <2>2, <2>3, <3>2
        <5>2. i \in Int /\ 0 < i
          OBVIOUS
        <5>3. QED
          BY ONLY <5>1, <5>2, x \in Nat, y \in Nat, size \in Nat
      <4>2. QED
        BY <2>1, <2>6, <2>7, <3>2, <4>1
    <3>3. CASE q # 0 /\ q # last
      <4>1. /\ size <= x /\ x + size <= y /\ g = x + i /\ i \in 1..size
        BY <1>8, <2>2, <2>3, <3>3
      <4>2. o < g /\ g <= o + k
        BY <1>0, <1>8, <1>10, <4>1
      <4>3. QED
        BY <1>8, <2>8, <4>2
    <3>4. QED
      BY <3>1, <3>2, <3>3
  <2>9. QED
    BY <1>7, <2>4, <2>5, <2>8
<1>13. ASSUME NEW b \in s.from..s.to, b \notin M PROVE BlockOf(p.buf, b - s.from + 1) = D[b]
  <2>1. PICK x : x = BlockOf(p.buf, b - s.from + 1)
    OBVIOUS
  <2>2. x = [i \in 1..BlockSize |-> x[i]]
    BY <2>1 DEF BlockOf
  <2>3. PICK z : z = D[b]
    OBVIOUS
  <2>4. z = [i \in 1..BlockSize |-> z[i]]
    <3>1. b \in Block
      BY <1>8
    <3>2. QED
      BY <2>3, <3>1 DEF Written
  <2>5. \A i \in 1..BlockSize : x[i] = z[i]
    BY <1>12, <1>13, <2>1, <2>3
  <2>6. x = z
    BY ONLY <2>2, <2>4, <2>5
  <2>7. QED
    BY <2>1, <2>3, <2>6
<1>14. QED
  BY <1>7, <1>13

\* The states of the last loop of a write, with the first i blocks of its span in the cache:
\* D is what the guest wrote, S what was spoiled before, row the blocks written.
Filling(s, row, D, M, S, i) ==
  {x \in Writing(s.blocks * BlockSize) :
     /\ S \subseteq x.spoiled
     /\ IF x.ok
          THEN /\ x.buf = row
               /\ Holds(x.cache, x.disk, D, M \cup x.spoiled \cup ((s.from + i)..s.to))
               /\ \A b \in s.from..s.to : b \notin M \cup x.spoiled => x.disk[b] = D[b]
          ELSE Holds(x.cache, x.disk, D, M \cup x.spoiled) /\ s.from..s.to \subseteq x.spoiled}

LEMMA CacheWrittenHolds ==
  ASSUME NEW s, Access(s), NEW i \in 1..s.blocks, NEW row, NEW D, NEW M, NEW S,
         \A b \in s.from..s.to : b \notin M => BlockOf(row, b - s.from + 1) = D[b],
         NEW m \in Filling(s, row, D, M, S, i - 1), NEW r, r = CacheWritten(m, s, s.from + i - 1)
  PROVE  r \in Filling(s, row, D, M, S, i)
<1>1. PICK f \in Nat, t \in Nat, b \in s.from..s.to : /\ f = s.from /\ t = s.to /\ b = f + i - 1 /\ b - s.from + 1 = i /\ b \in Block
                                               /\ s.from..s.to \subseteq Block /\ (f + (i - 1))..t = ((f + i)..t) \cup {b}
  <2>1. s.from \in Nat /\ s.to \in Nat /\ s.blocks \in Nat /\ s.blocks <= s.to - s.from + 1 /\ s.to < LastBlock /\ LastBlock \in Nat
    BY SizesAssumption DEF Access
  <2>2. PICK f \in Nat, t \in Nat : f = s.from /\ t = s.to
    BY <2>1
  <2>3. PICK b \in f..t : b = f + i - 1
    BY <2>1, <2>2
  <2>4. b \in Block /\ f..t \subseteq Block
    BY <2>1, <2>2, <2>3 DEF Block
  <2>5. b - f + 1 = i /\ (f + (i - 1))..t = ((f + i)..t) \cup {b}
    BY <2>1, <2>2, <2>3
  <2>6. QED
    BY <2>2, <2>3, <2>4, <2>5
<1>2. m \in Writing(s.blocks * BlockSize) /\ m.ok \in BOOLEAN /\ S \subseteq m.spoiled /\ m.cache \in Caches /\ m.disk \in Disks
  BY DEF Filling, Writing
<1>3. r \in Writing(s.blocks * BlockSize)
  BY <1>2, CacheWrittenWrites
<1>4. r = CacheWritten(m, s, b)
  BY <1>1
<1>5. CASE ~m.ok
  <2>1. r = m
    BY <1>4, <1>5 DEF CacheWritten
  <2>2. QED
    BY <1>5, <2>1 DEF Filling
<1>6. CASE m.ok
  <2>1. /\ m.buf = row
        /\ Holds(m.cache, m.disk, D, M \cup m.spoiled \cup ((s.from + (i - 1))..s.to))
        /\ \A c \in s.from..s.to : c \notin M \cup m.spoiled => m.disk[c] = D[c]
    BY <1>6 DEF Filling
  <2>2. PICK N : N = M \cup m.spoiled \cup ((s.from + i)..s.to)
    OBVIOUS
  <2>3. Holds(m.cache, m.disk, D, N \cup {b})
    <3>1. M \cup m.spoiled \cup ((s.from + (i - 1))..s.to) = N \cup {b}
      BY <1>1, <2>2
    <3>2. QED
      BY <2>1, <3>1
  <2>4. CASE Cached(m.cache, b)
    <3>1. r = [m EXCEPT !.ok = FALSE, !.spoiled = m.spoiled \cup (s.from..s.to)]
      BY <1>4, <1>6, <2>4 DEF CacheWritten
    <3>2. r.cache = m.cache /\ r.disk = m.disk /\ r.ok = FALSE /\ r.spoiled = m.spoiled \cup (s.from..s.to)
      BY <1>2, <3>1 DEF Writing
    <3>3. Holds(r.cache, r.disk, D, M \cup r.spoiled)
      <4>1. N \cup {b} \subseteq M \cup r.spoiled
        <5>1. (s.from + i)..s.to \subseteq s.from..s.to /\ b \in s.from..s.to
          BY <1>1
        <5>2. QED
          BY <2>2, <3>2, <5>1
      <4>2. QED
        BY <2>3, <3>2, <4>1, HoldsMore
    <3>4. QED
      BY <1>2, <1>3, <3>2, <3>3 DEF Filling
  <2>5. CASE ~Cached(m.cache, b)
    <3>1. BlockOf(row, i) \in Data
      <4>1. m.buf \in Buffers(s.blocks * BlockSize) /\ s.blocks \in Nat
        BY <1>2 DEF Writing, Access
      <4>2. QED
        BY <2>1, <4>1, BlockOfIs
    <3>2. PICK e \in Entries : e = Entry(b, BlockOf(row, i), FALSE) /\ e.block = b /\ e.data = BlockOf(row, i) /\ ~e.dirty
      <4>1. FALSE \in BOOLEAN
        OBVIOUS
      <4>2. PICK e : e = Entry(b, BlockOf(row, i), FALSE)
        OBVIOUS
      <4>3. e \in Entries
        BY <1>1, <3>1, <4>1, <4>2, EntryIs
      <4>4. e.block = b /\ e.data = BlockOf(row, i) /\ ~e.dirty
        BY <4>2 DEF Entry
      <4>5. QED
        BY <4>2, <4>3, <4>4
    <3>3. r = InsertEntry(m, e)
      BY <1>1, <1>4, <1>6, <2>1, <2>5, <3>2 DEF CacheWritten
    <3>4. PICK g, h, w : /\ g = Grown(m.cache, e) /\ h = Evicted(m.cache, m.disk, e) /\ w = Displaced(m.cache, e)
                         /\ g \in Caches
      <4>1. ~Cached(m.cache, e.block)
        BY <2>5, <3>2
      <4>2. Grown(m.cache, e) \in Caches
        BY <1>2, <4>1, GrownIs
      <4>3. QED
        BY <4>2
    <3>5. r.ok = m.ok /\ r.buf = m.buf /\ r.cache = g /\ r.disk = h /\ r.spoiled = m.spoiled \cup w
      <4>1. PICK l \in Nat : l = s.blocks * BlockSize
        BY SizesAssumption DEF Access
      <4>2. m \in Writing(l) /\ ~Cached(m.cache, e.block)
        BY <1>2, <2>5, <3>2, <4>1
      <4>3. /\ r.ok = m.ok /\ r.buf = m.buf
            /\ r.cache = Grown(m.cache, e) /\ r.disk = Evicted(m.cache, m.disk, e)
            /\ r.spoiled = m.spoiled \cup Displaced(m.cache, e)
        BY <3>3, <4>2, InsertWrites
      <4>4. QED
        BY <3>4, <4>3
    <3>6. e.block \notin N => e.data = D[e.block] /\ m.disk[e.block] = D[e.block]
      BY <1>1, <2>1, <2>2, <3>2
    <3>7. Holds(g, h, D, N \cup w)
      <4>1. ~Cached(m.cache, e.block) /\ Holds(m.cache, m.disk, D, N \cup {e.block})
        BY <2>3, <2>5, <3>2
      <4>2. QED
        BY <1>2, <3>2, <3>4, <3>6, <4>1, InsertHolds
    <3>8. Holds(r.cache, r.disk, D, M \cup r.spoiled \cup ((s.from + i)..s.to))
      <4>1. N \cup w = M \cup r.spoiled \cup ((s.from + i)..s.to)
        BY <2>2, <3>5
      <4>2. QED
        BY <3>5, <3>7, <4>1
    <3>9. ASSUME NEW c \in s.from..s.to, c \notin M \cup r.spoiled PROVE r.disk[c] = D[c]
      <4>1. c \in Block /\ c \notin w /\ c \notin M \cup m.spoiled
        BY <1>1, <3>5, <3>9
      <4>2. h[c] = m.disk[c]
        BY <1>2, <3>4, <4>1 DEF Evicted, Displaced, Disks
      <4>3. QED
        BY <2>1, <3>5, <4>1, <4>2
    <3>10. S \subseteq r.spoiled
      BY <1>2, <3>5
    <3>11. QED
      BY <1>3, <1>6, <2>1, <3>5, <3>8, <3>9, <3>10 DEF Filling
  <2>6. QED
    BY <2>4, <2>5
<1>7. QED
  BY <1>2, <1>5, <1>6

LEMMA CacheAllHolds ==
  ASSUME NEW s, Access(s), NEW row, NEW D, NEW M, NEW S,
         \A b \in s.from..s.to : b \notin M => BlockOf(row, b - s.from + 1) = D[b],
         NEW m \in Filling(s, row, D, M, S, 0)
  PROVE  CacheAllWritten(m, s) \in Filling(s, row, D, M, S, s.blocks)
<1> DEFINE T == [k \in 0..s.blocks |-> Filling(s, row, D, M, S, k)]
<1>1. s.blocks \in Nat
  BY DEF Access
<1>2. m \in T[0] /\ T[s.blocks] = Filling(s, row, D, M, S, s.blocks)
  BY <1>1
<1>3. ASSUME NEW i \in 1..s.blocks, NEW x \in T[i - 1] PROVE CacheWritten(x, s, s.from + i - 1) \in T[i]
  <2>1. i \in 0..s.blocks /\ i - 1 \in 0..s.blocks
    BY <1>1
  <2>2. x \in Filling(s, row, D, M, S, i - 1)
    BY <1>3, <2>1
  <2>3. CacheWritten(x, s, s.from + i - 1) \in Filling(s, row, D, M, S, i)
    BY <2>2, CacheWrittenHolds
  <2>4. QED
    BY <2>1, <2>3
<1>4. CacheAllWritten(m, s) \in T[s.blocks]
  <2> HIDE DEF T
  <2>1. QED
    BY <1>1, <1>2, <1>3, AllWrittenStays
<1>5. QED
  BY <1>2, <1>4

\* What is on the disk elsewhere than in M is all that matters of it.
LEMMA HoldsDisk ==
  ASSUME NEW c \in Caches, NEW d, NEW f, NEW D, NEW M, Holds(c, d, D, M), \A b \in Block \ M : f[b] = d[b]
  PROVE  Holds(c, f, D, M)
<1>1. \A e \in Contents(c) : e.block \in Block
  BY ContentsType, EntryIs DEF Caches
<1>2. QED
  BY <1>1 DEF Holds

\* Several blocks: they are on the disk as they are in the cache, or there was a panic.
LEMMA WriteManyHolds ==
  ASSUME NEW n, NEW v, NEW k, NEW s, Writes(n, v, k, s), s.blocks # 1,
         NEW M, Strayed(k, s) \subseteq M, Holds(cache, disk, image, M), spoiled \subseteq M,
         NEW m, m = WriteMany(s, [i \in 1..n |-> v])
  PROVE  /\ m.ok => Holds(m.cache, m.disk, Written(k, v), M \cup m.spoiled)
         /\ ~m.ok => Holds(m.cache, m.disk, image, M \cup m.spoiled)
         /\ spoiled \subseteq m.spoiled
<1>1. PICK patch, D : patch = [i \in 1..n |-> v] /\ D = Written(k, v)
  OBVIOUS
<1>2. Access(s) /\ PatchOf(patch, n, v) /\ patch \in Seq(Byte)
  <2>1. Access(s)
    BY WritesIs
  <2>2. PatchOf(patch, n, v)
    BY <1>1, WritesPatch
  <2>3. QED
    BY <2>1, <2>2 DEF PatchOf
<1>3. cache \in Caches /\ disk \in Disks /\ image \in Disks /\ spoiled \subseteq Block
  BY DEF Writes
<1>4. PICK p : /\ p = PatchedMany(s, patch) /\ p \in Writing(s.blocks * BlockSize)
               /\ Contents(p.cache) = Contents(cache) /\ p.disk = disk /\ p.spoiled = spoiled
  BY <1>2, <1>3, PatchedManyWrites
<1>5. p.cache \in Caches /\ p.ok \in BOOLEAN
  BY <1>4 DEF Writing
<1>6. Holds(p.cache, disk, D, M \cup (s.from..s.to)) /\ Holds(p.cache, disk, image, M)
  BY <1>1, <1>4, <1>5, HoldsBefore
<1>7. m = IF p.ok THEN CacheAllWritten(Through(s, p), s) ELSE p
  BY <1>1, <1>4, WriteManyIs
<1>8. s.from..s.to \subseteq Block
  BY <1>2, SizesAssumption DEF Access, Block
<1>9. CASE ~p.ok
  <2>1. m = p /\ M \subseteq M \cup m.spoiled
    BY <1>7, <1>9
  <2>2. Holds(m.cache, m.disk, image, M \cup m.spoiled)
    BY <1>4, <1>6, <2>1, HoldsMore
  <2>3. QED
    BY <1>4, <1>9, <2>1, <2>2
<1>10. CASE p.ok
  <2>1. PICK row : row = p.buf
    OBVIOUS
  <2>2. /\ s.blocks = s.to - s.from + 1 \/ s.from..s.to \subseteq M
        /\ \A b \in s.from..s.to : b \notin M => BlockOf(row, b - s.from + 1) = D[b]
    <3>1. CASE Astray
      <4>1. s.from..s.to \subseteq Strayed(k, s)
        BY <1>8, <3>1 DEF Strayed
      <4>2. QED
        BY <4>1
    <3>2. CASE ~Astray
      BY <1>1, <1>2, <1>4, <1>10, <2>1, <3>2, PatchedManyIs
    <3>3. QED
      BY <3>1, <3>2
  <2>3. PICK w : /\ w = Through(s, p) /\ w \in Writing(s.blocks * BlockSize)
                 /\ w.cache = p.cache /\ w.buf = row /\ w.ok /\ w.spoiled = spoiled
                 /\ \A b \in Block : w.disk[b] = IF b \in s.from..(s.from + s.blocks - 1) THEN BlockOf(row, b - s.from + 1)
                                                  ELSE disk[b]
    <3>1. PICK w : w = Through(s, p)
      OBVIOUS
    <3>2. /\ w \in Writing(s.blocks * BlockSize) /\ w.cache = p.cache /\ w.buf = p.buf /\ w.ok = p.ok /\ w.spoiled = p.spoiled
          /\ w.disk = [b \in Block |-> IF b \in s.from..(s.from + s.blocks - 1) THEN BlockOf(p.buf, b - s.from + 1) ELSE disk[b]]
      BY <1>2, <1>3, <1>4, <3>1, ThroughWrites
    <3>3. \A b \in Block : w.disk[b] = IF b \in s.from..(s.from + s.blocks - 1) THEN BlockOf(row, b - s.from + 1)
                                       ELSE disk[b]
      BY <2>1, <3>2
    <3>4. w.cache = p.cache /\ w.buf = row /\ w.ok /\ w.spoiled = spoiled
      BY <1>4, <1>10, <2>1, <3>2
    <3>5. w \in Writing(s.blocks * BlockSize)
      BY <3>2
    <3>6. QED
      BY ONLY <3>1, <3>3, <3>4, <3>5, Zenon
  <2>4. ASSUME NEW b \in Block \ (M \cup (s.from..s.to)) PROVE w.disk[b] = disk[b]
    <3>1. b \notin s.from..(s.from + s.blocks - 1)
      <4>1. PICK f \in Nat, t \in Nat, c \in Nat : f = s.from /\ t = s.to /\ c = s.blocks /\ c <= t - f + 1
        BY <1>2 DEF Access
      <4>2. f..(f + c - 1) \subseteq f..t
        BY <4>1
      <4>3. QED
        BY <2>4, <4>1, <4>2
    <3>2. QED
      BY <2>3, <3>1
  <2>5. ASSUME NEW b \in s.from..s.to, b \notin M PROVE w.disk[b] = D[b]
    <3>1. b \in s.from..(s.from + s.blocks - 1)
      <4>1. PICK f \in Nat, t \in Nat : f = s.from /\ t = s.to /\ s.blocks = t - f + 1
        BY <1>2, <2>2, <2>5 DEF Access
      <4>2. f + s.blocks - 1 = t
        BY <4>1
      <4>3. QED
        BY <4>1, <4>2
    <3>2. b \in Block
      BY <1>8
    <3>3. QED
      BY <2>2, <2>3, <2>5, <3>1, <3>2
  <2>6. Holds(w.cache, w.disk, D, M \cup (s.from..s.to))
    BY <1>5, <1>6, <2>3, <2>4, HoldsDisk
  <2>7. w \in Filling(s, row, D, M, spoiled, 0)
    <3>1. Holds(w.cache, w.disk, D, M \cup w.spoiled \cup ((s.from + 0)..s.to))
      <4>1. s.from + 0 = s.from
        BY <1>2 DEF Access
      <4>2. M \cup w.spoiled \cup ((s.from + 0)..s.to) = M \cup (s.from..s.to)
        BY <2>3, <4>1
      <4>3. QED
        BY <2>6, <4>2
    <3>2. QED
      BY <2>3, <2>5, <3>1 DEF Filling
  <2>8. m \in Filling(s, row, D, M, spoiled, s.blocks)
    <3>1. CacheAllWritten(w, s) \in Filling(s, row, D, M, spoiled, s.blocks)
      BY <1>2, <2>2, <2>7, CacheAllHolds
    <3>2. QED
      BY <1>7, <1>10, <2>3, <3>1
  <2>9. spoiled \subseteq m.spoiled /\ m.ok \in BOOLEAN /\ m.cache \in Caches
    BY <2>8 DEF Filling, Writing
  <2>10. ASSUME m.ok PROVE Holds(m.cache, m.disk, D, M \cup m.spoiled)
    <3>1. Holds(m.cache, m.disk, D, M \cup m.spoiled \cup ((s.from + s.blocks)..s.to))
      BY <2>8, <2>10 DEF Filling
    <3>2. (s.from + s.blocks)..s.to \subseteq M
      <4>1. PICK f \in Nat, t \in Nat, c \in Nat : f = s.from /\ t = s.to /\ c = s.blocks
        BY <1>2 DEF Access
      <4>2. (f + c)..t \subseteq f..t
        BY <4>1
      <4>3. c = t - f + 1 => (f + c)..t = {}
        BY <4>1
      <4>4. QED
        BY <2>2, <4>1, <4>2, <4>3
    <3>3. M \cup m.spoiled \cup ((s.from + s.blocks)..s.to) = M \cup m.spoiled
      BY <3>2
    <3>4. QED
      BY <3>1, <3>3
  <2>11. ASSUME ~m.ok PROVE Holds(m.cache, m.disk, image, M \cup m.spoiled)
    <3>1. Holds(m.cache, m.disk, D, M \cup m.spoiled) /\ s.from..s.to \subseteq m.spoiled
      BY <2>8, <2>11 DEF Filling
    <3>2. \A b \in Block \ (M \cup m.spoiled) : D[b] = image[b]
      <4> TAKE b \in Block \ (M \cup m.spoiled)
      <4>1. b \in Block /\ b \notin s.from..s.to /\ b \notin Strayed(k, s)
        BY <3>1
      <4>2. Written(k, v)[b] = image[b]
        BY <4>1, WritesElsewhere
      <4>3. QED
        BY <1>1, <4>2
    <3>3. QED
      BY <2>9, <3>1, <3>2, HoldsAgree
  <2>12. QED
    BY <1>1, <2>9, <2>10, <2>11
<1>11. QED
  BY <1>5, <1>9, <1>10

-----------------------------------------------------------------------------
(***************************************************************************)
(* The cache over the disk holds the image, but for what is exempt: after  *)
(* a panic too, when the cache is gone.  It is what KeepsWrites says, with *)
(* what makes it inductive: a clean entry is on the disk.                  *)
(***************************************************************************)
InPlace == Holds(cache, disk, image, Exempt)
IInv == Typed /\ InPlace

LEMMA InitInv == Init => IInv
<1> SUFFICES ASSUME Init PROVE IInv
  OBVIOUS
<1>1. Typed
  BY InitTyped
<1>2. cache = <<>> /\ image = disk
  BY DEF Init
<1>3. Holds(<<>>, disk, disk, Exempt)
  BY EmptyHolds
<1>4. QED
  BY <1>1, <1>2, <1>3 DEF IInv, InPlace

LEMMA ReadInv ==
  ASSUME IInv, NEW n \in 0..(Usize - 1), Read(n)
  PROVE  IInv'
<1>1. Typed /\ Typed' /\ Holds(cache, disk, image, missed \cup spoiled)
  BY ReadTyped DEF IInv, InPlace, Exempt
<1>2. cursor \in 0..(Word - 1) /\ cache \in Caches /\ disk \in Disks /\ spoiled \subseteq Block /\ n \in Nat
  BY <1>1, TypedIs
<1>3. PICK k \in Nat : k = Clipped(n) /\ StartAddress \in Nat /\ (k > 0 => StartAddress + k <= Capacity)
  BY <1>2, ClippedIs
<1>4. image' = image /\ missed' = missed
  BY DEF Read
<1>5. CASE k = 0
  <2>1. cache' = cache /\ disk' = disk /\ spoiled' = spoiled
    BY <1>3, <1>5 DEF Read, store
  <2>2. QED
    BY <1>1, <1>4, <2>1 DEF IInv, InPlace, Exempt
<1>6. CASE k # 0
  <2>1. PICK s, m : s = Span(k) /\ m = Fetched(s, n)
    OBVIOUS
  <2>2. Access(s)
    BY <1>3, <1>6, <2>1, SpanIs, AccessIs
  <2>3. m.cache \in Caches /\ m.ok \in BOOLEAN
    <3>1. m \in Reading(s, n)
      BY <1>2, <2>1, <2>2, FetchedReads
    <3>2. QED
      BY <3>1 DEF Reading
  <2>4. Held(m, image, missed)
    BY <1>1, <1>2, <2>1, <2>2, FetchedHolds
  <2>5. Settle(m)
    BY <1>3, <1>6, <2>1 DEF Read
  <2>6. Holds(cache', disk', image, missed \cup spoiled')
    BY <2>3, <2>4, <2>5, SettleHolds
  <2>7. QED
    BY <1>1, <1>4, <2>6 DEF IInv, InPlace, Exempt
<1>7. QED
  BY <1>5, <1>6

LEMMA WriteInv ==
  ASSUME IInv, NEW n \in 0..(Usize - 1), NEW v \in Marks, Write(n, v)
  PROVE  IInv'
<1>1. Typed /\ Typed' /\ Holds(cache, disk, image, missed \cup spoiled)
  BY WriteTyped DEF IInv, InPlace, Exempt
<1>2. /\ cursor \in 0..(Word - 1) /\ cache \in Caches /\ disk \in Disks /\ image \in Disks
      /\ spoiled \subseteq Block /\ missed \subseteq Block
  BY <1>1, TypedIs
<1>3. PICK k, s, patch : k = Clipped(n) /\ s = Counted(Span(k)) /\ patch = [i \in 1..n |-> v]
  OBVIOUS
<1>4. PICK m : m = IF s.blocks = 1 THEN WriteOne(s, patch) ELSE WriteMany(s, patch)
  OBVIOUS
<1>5. PICK strayed : strayed = Strayed(k, s)
  OBVIOUS
<1>6. PICK q : q = [m EXCEPT !.spoiled = m.spoiled \cup strayed]
  OBVIOUS
<1>7. /\ k > 0 /\ Settle(q)
      /\ IF m.ok THEN image' = Written(k, v) ELSE image' = image
      /\ missed' = (IF m.ok /\ s.blocks = 1 /\ ~Cached(cache, s.from) THEN missed \cup {s.from} ELSE missed)
  BY <1>3, <1>4, <1>5, <1>6 DEF Write, Counted
<1>8. Writes(n, v, k, s)
  BY <1>2, <1>3, <1>7 DEF Writes
<1>9. Access(s) /\ n \in Nat
  BY <1>8, WritesIs
<1>10. patch \in Seq(Byte)
  <2>1. PatchOf(patch, n, v)
    BY <1>3, <1>8, WritesPatch
  <2>2. QED
    BY <2>1 DEF PatchOf
<1>11. /\ m.cache \in Caches /\ m.ok \in BOOLEAN
       /\ q.cache = m.cache /\ q.disk = m.disk /\ q.ok = m.ok /\ q.spoiled = m.spoiled \cup strayed
  <2>1. CASE s.blocks = 1
    <3>1. m \in Writing(BlockSize)
      BY <1>2, <1>4, <1>9, <1>10, <2>1, WriteOneWrites
    <3>2. QED
      BY <1>6, <3>1 DEF Writing
  <2>2. CASE s.blocks # 1
    <3>1. m \in Writing(s.blocks * BlockSize)
      BY <1>2, <1>4, <1>9, <1>10, <2>2, WriteManyWrites
    <3>2. QED
      BY <1>6, <3>1 DEF Writing
  <2>3. QED
    BY <2>1, <2>2
<1>12. PICK M : M = missed \cup spoiled \cup strayed
  OBVIOUS
<1>13. Strayed(k, s) \subseteq M /\ Holds(cache, disk, image, M) /\ spoiled \subseteq M
  <2>1. missed \cup spoiled \subseteq M
    BY <1>12
  <2>2. QED
    BY <1>1, <1>5, <1>12, <2>1, HoldsMore
<1>14. /\ spoiled \subseteq m.spoiled
       /\ Holds(m.cache, m.disk, image', M \cup m.spoiled \cup missed')
  <2>1. CASE s.blocks = 1
    <3>1. m = WriteOne(s, [i \in 1..n |-> v])
      BY <1>3, <1>4, <2>1
    <3>2. /\ m.ok => Holds(m.cache, m.disk, Written(k, v), M \cup m.spoiled \cup Uncached(s.from))
          /\ ~m.ok => Holds(m.cache, m.disk, image, M \cup m.spoiled)
          /\ spoiled \subseteq m.spoiled
      BY <1>8, <1>13, <2>1, <3>1, WriteOneHolds
    <3>3. PICK N, X, Y : N = M \cup m.spoiled \cup missed' /\ X = M \cup m.spoiled \cup Uncached(s.from) /\ Y = M \cup m.spoiled
      OBVIOUS
    <3>4. (m.ok => X \subseteq N) /\ Y \subseteq N
      BY <1>7, <2>1, <3>3 DEF Uncached
    <3>5. Holds(m.cache, m.disk, image', N)
      <4>1. CASE m.ok
        <5>1. Holds(m.cache, m.disk, image', X)
          BY <1>7, <3>2, <3>3, <4>1
        <5>2. QED
          BY <3>4, <4>1, <5>1, HoldsMore
      <4>2. CASE ~m.ok
        <5>1. Holds(m.cache, m.disk, image', Y)
          BY <1>7, <3>2, <3>3, <4>2
        <5>2. QED
          BY <3>4, <5>1, HoldsMore
      <4>3. QED
        BY <4>1, <4>2
    <3>6. QED
      BY <3>2, <3>3, <3>5
  <2>2. CASE s.blocks # 1
    <3>1. m = WriteMany(s, [i \in 1..n |-> v])
      BY <1>3, <1>4, <2>2
    <3>2. /\ m.ok => Holds(m.cache, m.disk, Written(k, v), M \cup m.spoiled)
          /\ ~m.ok => Holds(m.cache, m.disk, image, M \cup m.spoiled)
          /\ spoiled \subseteq m.spoiled
      BY <1>8, <1>13, <2>2, <3>1, WriteManyHolds
    <3>3. PICK N, Y : N = M \cup m.spoiled \cup missed' /\ Y = M \cup m.spoiled
      OBVIOUS
    <3>4. Holds(m.cache, m.disk, image', Y) /\ Y \subseteq N
      BY <1>7, <3>2, <3>3
    <3>5. Holds(m.cache, m.disk, image', N)
      BY <3>4, HoldsMore
    <3>6. QED
      BY <3>2, <3>3, <3>5
  <2>3. QED
    BY <2>1, <2>2
<1>15. Held(q, image', missed')
  <2>1. M \cup m.spoiled \cup missed' = missed' \cup q.spoiled
    <3>1. missed \subseteq missed'
      BY <1>7
    <3>2. QED
      BY <1>11, <1>12, <1>14, <3>1
  <2>2. QED
    BY <1>11, <1>14, <2>1 DEF Held
<1>16. Holds(cache', disk', image', missed' \cup spoiled')
  <2>1. q.cache \in Caches /\ q.ok \in BOOLEAN
    BY <1>11
  <2>2. QED
    BY <1>7, <1>15, <2>1, SettleHolds
<1>17. QED
  BY <1>1, <1>16 DEF IInv, InPlace, Exempt

\* A flush leaves the image on the disk, but for what is exempt.
LEMMA FlushedIs ==
  ASSUME IInv, NEW b \in Block \ Exempt
  PROVE  FlushedDisk[b] = image[b]
<1>1. cache \in Caches /\ Holds(cache, disk, image, Exempt)
  BY TypedIs DEF IInv, InPlace
<1>2. CASE Cached(cache, b) /\ Lookup(cache, b).dirty
  <2>1. Lookup(cache, b) \in Contents(cache) /\ Lookup(cache, b).block = b
    BY <1>1, <1>2, LookupCaches
  <2>2. FlushedDisk[b] = Lookup(cache, b).data
    BY <1>2 DEF FlushedDisk
  <2>3. QED
    BY <1>1, <2>1, <2>2 DEF Holds
<1>3. CASE ~(Cached(cache, b) /\ Lookup(cache, b).dirty)
  <2>1. disk[b] = image[b]
    BY <1>1, <1>3, OnDisk
  <2>2. FlushedDisk[b] = disk[b]
    BY <1>3 DEF FlushedDisk
  <2>3. QED
    BY <2>1, <2>2
<1>4. QED
  BY <1>2, <1>3

LEMMA FlushInv ==
  ASSUME IInv, Flush
  PROVE  IInv'
<1>1. Typed'
  BY FlushTyped DEF IInv
<1>2. cache' = <<>> /\ disk' = FlushedDisk /\ image' = image /\ missed' = missed /\ spoiled' = spoiled
  BY DEF Flush, history
<1>3. \A b \in Block \ Exempt : FlushedDisk[b] = image[b]
  BY FlushedIs
<1>4. Holds(<<>>, FlushedDisk, image, Exempt)
  BY <1>3, EmptyHolds
<1>5. InPlace'
  BY <1>2, <1>4 DEF InPlace, Exempt
<1>6. QED
  BY <1>1, <1>5 DEF IInv

LEMMA NextInv ==
  ASSUME IInv, [Next]_vars
  PROVE  IInv'
<1>1. Typed /\ Typed'
  BY NextTyped DEF IInv
<1>2. ASSUME NEW n \in usage.reads, Read(n) PROVE IInv'
  BY <1>1, <1>2, Lengths, ReadInv
<1>3. ASSUME NEW n \in usage.writes, NEW v \in Marks, Write(n, v) PROVE IInv'
  BY <1>1, <1>3, Lengths, WriteInv
<1>4. ASSUME UNCHANGED <<store, history>> PROVE IInv'
  BY <1>1, <1>4 DEF IInv, InPlace, Exempt, store, history
<1>5. ASSUME NEW n, WriteNothing(n) PROVE IInv'
  BY <1>4, <1>5 DEF WriteNothing, store, history
<1>6. ASSUME Seek PROVE IInv'
  BY <1>4, <1>6 DEF Seek, store, history
<1>7. ASSUME Flush PROVE IInv'
  BY <1>7, FlushInv
<1>8. CASE UNCHANGED vars
  BY <1>4, <1>8 DEF vars, store, history
<1>9. QED
  BY <1>2, <1>3, <1>5, <1>6, <1>7, <1>8 DEF Next

LEMMA Invariant == Spec => []IInv
<1>1. Init => IInv
  BY InitInv
<1>2. IInv /\ [Next]_vars => IInv'
  BY NextInv
<1>3. QED
  BY <1>1, <1>2, PTL DEF Spec

\* For every guest, wherever it seeks and whatever it reads and writes: the cache over the
\* disk has each block as the guest left it, evicted or not and after a panic too, except
\* those the code is known to have lost or confused; no mistake spreads to another block.
THEOREM WritesKept == Spec => []KeepsWrites
<1>1. IInv => KeepsWrites
  BY CurrentHolds, TypedIs DEF IInv, InPlace, KeepsWrites
<1>2. QED
  BY <1>1, Invariant, PTL

\* A flush of any guest leaves on the disk all that it wrote to other blocks than those.
THEOREM FlushDurable == Spec => FlushIsDurable
<1>1. IInv /\ [Next]_vars => [Flush => \A b \in Block \ Exempt : disk'[b] = image[b]]_vars
  <2> SUFFICES ASSUME IInv, Flush, NEW b \in Block \ Exempt PROVE disk'[b] = image[b]
    OBVIOUS
  <2>1. QED
    BY FlushedIs DEF Flush
<1>2. QED
  BY <1>1, Invariant, PTL DEF Spec, FlushIsDurable
=============================================================================
