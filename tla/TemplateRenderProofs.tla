------------------------ MODULE TemplateRenderProofs ------------------------
(***************************************************************************)
(* Render of an unambiguous text is one substitution of all variables at   *)
(* once, whatever the order of the map: for every text, any keys and any   *)
(* values.                                                                 *)
(*                                                                         *)
(* A scan is a recursive function of the place in the text, the turns of   *)
(* Render one of the set of places in the order; that there are such       *)
(* functions (ScansExist, TurnsExist), and what they return, is shown by   *)
(* induction on sets of numbers (Upward, Downward).  The heart is OneMore: *)
(* to replace one more key in what a scan of other keys has made is to     *)
(* scan for all of them.  A placeholder of the text passes the scan whole, *)
(* and none arises: one that the scan put together would begin with a "{{" *)
(* of the text and stretch to the next with no "}}" between them.          *)
(***************************************************************************)
EXTENDS TemplateRender, FiniteSetTheorems, SequenceTheorems, WellFoundedInduction, TLAPS

-----------------------------------------------------------------------------
(* Induction, on sets of numbers *)

LEMMA LeastNumber ==
    ASSUME NEW S \in SUBSET Nat, S # {}
    PROVE  \E x \in S : \A y \in S : x <= y
<1>1. PICK x \in S : \A y \in S : <<y, x>> \notin OpToRel(<, Nat)
  BY NatLessThanWellFounded, WFMin, Zenon
<1>2. ASSUME NEW y \in S PROVE ~(y < x)
  BY <1>1, <1>2, Zenon DEF OpToRel
<1> QED
  BY <1>2

LEMMA Upward ==
    ASSUME NEW S, 0 \in S, \A n \in Nat : n \in S => n + 1 \in S
    PROVE  \A n \in Nat : n \in S
<1> DEFINE Bad == {n \in Nat : n \notin S}
<1> SUFFICES ASSUME Bad # {} PROVE FALSE
  OBVIOUS
<1>1. PICK x \in Bad : \A y \in Bad : x <= y
  <2>1. Bad \in SUBSET Nat
    OBVIOUS
  <2> HIDE DEF Bad
  <2> QED
    BY <2>1, LeastNumber
<1>2. x \in Nat /\ x # 0
  OBVIOUS
<1>3. x - 1 \in Nat /\ x - 1 \notin Bad
  BY <1>1, <1>2
<1>4. x - 1 \in S
  BY <1>3
<1> QED
  BY <1>2, <1>3, <1>4

LEMMA Downward ==
    ASSUME NEW m \in Nat, NEW S,
           \A i \in 1 .. m : (\A j \in i + 1 .. m : j \in S) => i \in S
    PROVE  \A i \in 1 .. m : i \in S
<1> DEFINE T == {n \in Nat : \A j \in m + 1 - n .. m : j >= 1 => j \in S}
<1>1. 0 \in T
  OBVIOUS
<1>2. ASSUME NEW n \in Nat, n \in T PROVE n + 1 \in T
  <2>1. ASSUME NEW j \in m + 1 - (n + 1) .. m, j >= 1 PROVE j \in S
    <3>1. \A i \in j + 1 .. m : i \in m + 1 - n .. m /\ i >= 1
      BY <2>1
    <3>2. \A i \in j + 1 .. m : i \in S
      BY <1>2, <3>1
    <3>3. j \in 1 .. m
      BY <2>1
    <3> QED
      BY <3>2, <3>3
  <2> QED
    BY <2>1
<1>3. m \in T
  <2> HIDE DEF T
  <2> QED
    BY <1>1, <1>2, Upward
<1> QED
  BY <1>3

-----------------------------------------------------------------------------
(* Placeholders *)

LEMMA Joined ==
    ASSUME NEW v \in Seq(Symbol), NEW w \in Seq(Symbol)
    PROVE  /\ v \o w \in Seq(Symbol) /\ Len(v \o w) = Len(v) + Len(w)
           /\ Len(v) \in Nat /\ Len(w) \in Nat
           /\ \A i \in 1 .. Len(v) : (v \o w)[i] = v[i]
           /\ \A i \in 1 .. Len(w) : (v \o w)[i + Len(v)] = w[i]
<1> DEFINE u == v \o w
           m == Len(v)
           n == Len(w)
<1>1. m \in Nat /\ n \in Nat
  BY LenProperties
<1>2. /\ u \in Seq(Symbol) /\ Len(u) = m + n
      /\ \A i \in 1 .. m + n : u[i] = IF i <= m THEN v[i] ELSE w[i - m]
  BY ConcatProperties
<1> HIDE DEF u, m, n
<1>3. ASSUME NEW i \in 1 .. m PROVE u[i] = v[i]
  BY <1>1, <1>2
<1>4. ASSUME NEW i \in 1 .. n PROVE u[i + m] = w[i]
  <2> DEFINE j == i + m
  <2>1. j \in 1 .. m + n /\ ~(j <= m) /\ j - m = i
    BY <1>1
  <2> HIDE DEF j
  <2>2. u[j] = w[j - m]
    BY <1>2, <2>1
  <2> QED
    BY <2>1, <2>2 DEF j
<1> QED
  BY <1>1, <1>2, <1>3, <1>4 DEF u, m, n

LEMMA PlaceholderIs ==
    ASSUME NEW key \in Seq(Symbol)
    PROVE  /\ Placeholder(key) \in Seq(Symbol) /\ Len(Placeholder(key)) = Len(key) + 4
           /\ Placeholder(key)[1] = Open /\ Placeholder(key)[2] = Open
           /\ \A n \in 1 .. Len(key) : Placeholder(key)[n + 2] = key[n]
           /\ Placeholder(key)[Len(key) + 3] = Close /\ Placeholder(key)[Len(key) + 4] = Close
<1> DEFINE a == <<Open, Open>>
           z == <<Close, Close>>
           b == a \o key
           p == b \o z
           L == Len(key)
<1>1. /\ a \in Seq(Symbol) /\ Len(a) = 2 /\ a[1] = Open /\ a[2] = Open
      /\ z \in Seq(Symbol) /\ Len(z) = 2 /\ z[1] = Close /\ z[2] = Close
      /\ L \in Nat
  BY BraceAssumption, LenProperties
<1>2. p = Placeholder(key)
  BY DEF Placeholder
<1> HIDE DEF a, z, L
<1>3. /\ b \in Seq(Symbol) /\ Len(b) = 2 + L
      /\ \A i \in 1 .. 2 : b[i] = a[i]
      /\ \A i \in 1 .. L : b[i + 2] = key[i]
  <2>1. /\ b \in Seq(Symbol) /\ Len(b) = Len(a) + Len(key)
        /\ \A i \in 1 .. Len(a) : b[i] = a[i]
        /\ \A i \in 1 .. Len(key) : b[i + Len(a)] = key[i]
    BY <1>1, Joined
  <2> HIDE DEF b
  <2> QED
    BY <1>1, <2>1 DEF L
<1> HIDE DEF b
<1>4. /\ p \in Seq(Symbol) /\ Len(p) = 2 + L + 2
      /\ \A i \in 1 .. 2 + L : p[i] = b[i]
      /\ \A i \in 1 .. 2 : p[i + (2 + L)] = z[i]
  <2>1. /\ p \in Seq(Symbol) /\ Len(p) = Len(b) + Len(z)
        /\ \A i \in 1 .. Len(b) : p[i] = b[i]
        /\ \A i \in 1 .. Len(z) : p[i + Len(b)] = z[i]
    BY <1>1, <1>3, Joined
  <2> HIDE DEF p
  <2> QED
    BY <1>1, <1>3, <2>1
<1> HIDE DEF p
<1>5. p[1] = Open /\ p[2] = Open
  <2>1. 1 \in 1 .. 2 /\ 2 \in 1 .. 2 /\ 1 \in 1 .. 2 + L /\ 2 \in 1 .. 2 + L
    BY <1>1
  <2> QED
    BY <1>1, <1>3, <1>4, <2>1
<1>6. p[L + 3] = Close /\ p[L + 4] = Close
  <2>1. 1 \in 1 .. 2 /\ 2 \in 1 .. 2 /\ 1 + (2 + L) = L + 3 /\ 2 + (2 + L) = L + 4
    BY <1>1
  <2> QED
    BY <1>1, <1>4, <2>1
<1>7. ASSUME NEW n \in 1 .. L PROVE p[n + 2] = key[n]
  <2>1. n + 2 \in 1 .. 2 + L
    BY <1>1
  <2> QED
    BY <1>3, <1>4, <2>1
<1>8. Len(p) = L + 4
  BY <1>1, <1>4
<1> QED
  BY <1>2, <1>4, <1>5, <1>6, <1>7, <1>8 DEF L

\* A placeholder stands in a text, symbol by symbol.
Spelt(text, i, key) ==
    /\ i + Len(key) + 3 <= Len(text)
    /\ \A n \in 1 .. Len(key) + 4 : text[i + n - 1] = Placeholder(key)[n]

LEMMA OccursIs ==
    ASSUME NEW text \in Seq(Symbol), NEW i \in Nat \ {0}, NEW key \in Seq(Symbol)
    PROVE  Occurs(text, i, key) <=> Spelt(text, i, key)
<1> DEFINE p == Placeholder(key)
           L == Len(key)
           s == SubSeq(text, i, i + L + 3)
<1>1. p \in Seq(Symbol) /\ Len(p) = L + 4 /\ L \in Nat /\ Len(text) \in Nat
  BY PlaceholderIs, LenProperties
<1> HIDE DEF p, L
<1>2. ASSUME i + L + 3 <= Len(text)
      PROVE  /\ s \in Seq(Symbol) /\ Len(s) = L + 4
             /\ \A n \in 1 .. L + 4 : s[n] = text[i + n - 1]
  <2>1. \A m \in i .. i + L + 3 : text[m] \in Symbol
    BY <1>1, <1>2, ElementOfSeq
  <2>2. i \in Int /\ i + L + 3 \in Int /\ i <= i + L + 3 /\ i + L + 3 - i + 1 = L + 4
    BY <1>1
  <2> DEFINE j == i + L + 3
  <2> HIDE DEF j
  <2>3. /\ SubSeq(text, i, j) \in Seq(Symbol)
        /\ Len(SubSeq(text, i, j)) = j - i + 1
        /\ \A n \in 1 .. j - i + 1 : SubSeq(text, i, j)[n] = text[i + n - 1]
    <3>1. i \in Int /\ j \in Int /\ i <= j /\ \A m \in i .. j : text[m] \in Symbol
      BY <2>1, <2>2 DEF j
    <3> QED
      BY <3>1, SubSeqProperties
  <2>4. j - i + 1 = L + 4
    BY <1>1, <2>2 DEF j
  <2> QED
    BY <2>3, <2>4 DEF j
<1>3. Occurs(text, i, key) <=> i + L + 3 <= Len(text) /\ s = p
  BY DEF Occurs, p, L
<1>4. Spelt(text, i, key) <=> /\ i + L + 3 <= Len(text)
                              /\ \A n \in 1 .. L + 4 : text[i + n - 1] = p[n]
  BY DEF Spelt, p, L
<1> HIDE DEF s
<1>5. ASSUME i + L + 3 <= Len(text), \A n \in 1 .. L + 4 : text[i + n - 1] = p[n]
      PROVE  s = p
  BY <1>1, <1>2, <1>5, SeqEqual
<1> QED
  BY <1>2, <1>3, <1>4, <1>5

\* What it takes to spell the placeholder of a key at i.
LEMMA SpeltFacts ==
    ASSUME NEW text \in Seq(Symbol), NEW i \in Nat \ {0}, NEW key \in Seq(Symbol),
           Occurs(text, i, key)
    PROVE  /\ i + Len(key) + 3 <= Len(text) /\ Len(key) \in Nat /\ Len(text) \in Nat
           /\ text[i] = Open /\ text[i + 1] = Open
           /\ \A n \in 1 .. Len(key) : text[i + n + 1] = key[n]
           /\ text[i + Len(key) + 2] = Close /\ text[i + Len(key) + 3] = Close
<1> DEFINE p == Placeholder(key)
           L == Len(key)
<1>1. /\ i + L + 3 <= Len(text) /\ L \in Nat /\ Len(text) \in Nat
      /\ \A n \in 1 .. L + 4 : text[i + n - 1] = p[n]
  BY OccursIs, LenProperties DEF Spelt
<1>2. /\ p[1] = Open /\ p[2] = Open /\ p[L + 3] = Close /\ p[L + 4] = Close
      /\ \A n \in 1 .. L : p[n + 2] = key[n]
  BY PlaceholderIs
<1> HIDE DEF p, L
<1>3. /\ 1 \in 1 .. L + 4 /\ 2 \in 1 .. L + 4 /\ L + 3 \in 1 .. L + 4 /\ L + 4 \in 1 .. L + 4
      /\ i + 1 - 1 = i /\ i + 2 - 1 = i + 1
      /\ i + (L + 3) - 1 = i + L + 2 /\ i + (L + 4) - 1 = i + L + 3
  BY <1>1
<1>4. ASSUME NEW n \in 1 .. L PROVE text[i + n + 1] = key[n]
  <2>1. n + 2 \in 1 .. L + 4 /\ i + (n + 2) - 1 = i + n + 1
    BY <1>1
  <2> QED
    BY <1>1, <1>2, <2>1
<1>5. /\ text[i] = Open /\ text[i + 1] = Open
      /\ text[i + L + 2] = Close /\ text[i + L + 3] = Close
  <2>1. text[i + 1 - 1] = p[1] /\ text[i + 2 - 1] = p[2]
    BY <1>1, <1>3
  <2>2. text[i + (L + 3) - 1] = p[L + 3] /\ text[i + (L + 4) - 1] = p[L + 4]
    BY <1>1, <1>3
  <2> QED
    BY <1>2, <1>3, <2>1, <2>2
<1> QED
  BY <1>1, <1>4, <1>5 DEF L

\* What is before a text does not matter.
LEMMA OccursBehind ==
    ASSUME NEW u \in Seq(Symbol), NEW p \in Seq(Symbol), NEW i \in Nat \ {0}, NEW key \in Seq(Symbol)
    PROVE  Occurs(p \o u, i + Len(p), key) <=> Occurs(u, i, key)
<1> DEFINE w == p \o u
           d == Len(p)
           L == Len(key)
<1>1. /\ w \in Seq(Symbol) /\ Len(w) = d + Len(u) /\ d \in Nat /\ Len(u) \in Nat /\ L \in Nat
      /\ \A m \in 1 .. d + Len(u) : w[m] = IF m <= d THEN p[m] ELSE u[m - d]
  BY ConcatProperties, LenProperties
<1> HIDE DEF w, d, L
<1>2. i + d \in Nat \ {0}
  BY <1>1
<1>3. i + d + L + 3 <= Len(w) <=> i + L + 3 <= Len(u)
  BY <1>1
<1>4. ASSUME i + L + 3 <= Len(u), NEW n \in 1 .. L + 4
      PROVE  w[i + d + n - 1] = u[i + n - 1]
  <2>1. i + d + n - 1 \in 1 .. d + Len(u) /\ ~(i + d + n - 1 <= d)
        /\ i + d + n - 1 - d = i + n - 1
    BY <1>1, <1>4
  <2> QED
    BY <1>1, <2>1
<1>5. Spelt(w, i + d, key) <=> Spelt(u, i, key)
  <2>1. Spelt(u, i, key) <=> /\ i + L + 3 <= Len(u)
                             /\ \A n \in 1 .. L + 4 : u[i + n - 1] = Placeholder(key)[n]
    BY DEF Spelt, L
  <2>2. Spelt(w, i + d, key) <=> /\ i + d + L + 3 <= Len(w)
                                 /\ \A n \in 1 .. L + 4 : w[i + d + n - 1] = Placeholder(key)[n]
    BY DEF Spelt, L
  <2> QED
    BY <1>3, <1>4, <2>1, <2>2
<1>6. Occurs(w, i + d, key) <=> Occurs(u, i, key)
  BY <1>1, <1>2, <1>5, OccursIs
<1> QED
  BY <1>6 DEF w, d

\* Texts without braces.
NoBraces(w) == \A n \in 1 .. Len(w) : w[n] \notin Brace

\* Only one placeholder begins at a place.
LEMMA OneKey ==
    ASSUME NEW text \in Seq(Symbol), NEW i \in Nat \ {0},
           NEW k \in Seq(Symbol), NEW l \in Seq(Symbol), NoBraces(k), NoBraces(l),
           Occurs(text, i, k), Occurs(text, i, l)
    PROVE  k = l
<1>1. /\ Len(k) \in Nat /\ Len(l) \in Nat
      /\ \A n \in 1 .. Len(k) : text[i + n + 1] = k[n] /\ text[i + n + 1] # Close
      /\ \A n \in 1 .. Len(l) : text[i + n + 1] = l[n] /\ text[i + n + 1] # Close
      /\ text[i + Len(k) + 2] = Close /\ text[i + Len(l) + 2] = Close
  BY SpeltFacts, BraceAssumption DEF NoBraces, Brace
<1>2. ~(Len(k) < Len(l))
  <2> SUFFICES ASSUME Len(k) < Len(l) PROVE FALSE
    OBVIOUS
  <2>1. Len(k) + 1 \in 1 .. Len(l) /\ i + (Len(k) + 1) + 1 = i + Len(k) + 2
    BY <1>1
  <2> QED
    BY <1>1, <2>1
<1>3. ~(Len(l) < Len(k))
  <2> SUFFICES ASSUME Len(l) < Len(k) PROVE FALSE
    OBVIOUS
  <2>1. Len(l) + 1 \in 1 .. Len(k) /\ i + (Len(l) + 1) + 1 = i + Len(l) + 2
    BY <1>1
  <2> QED
    BY <1>1, <2>1
<1>4. Len(k) = Len(l)
  BY <1>1, <1>2, <1>3
<1>5. \A n \in 1 .. Len(k) : k[n] = l[n]
  BY <1>1, <1>4
<1> QED
  BY <1>4, <1>5, SeqEqual

\* Within a placeholder begins no other.
LEMMA NoneInside ==
    ASSUME NEW text \in Seq(Symbol), NEW i \in Nat \ {0},
           NEW k \in Seq(Symbol), NEW l \in Seq(Symbol), NoBraces(k), Occurs(text, i, k),
           NEW p \in i + 1 .. i + Len(k) + 3
    PROVE  ~Occurs(text, p, l)
<1> SUFFICES ASSUME Occurs(text, p, l) PROVE FALSE
  OBVIOUS
<1>0. /\ Len(k) \in Nat
      /\ \A n \in 1 .. Len(k) : text[i + n + 1] = k[n]
      /\ text[i + Len(k) + 2] = Close /\ text[i + Len(k) + 3] = Close
  BY SpeltFacts
<1>1. /\ Len(k) \in Nat
      /\ \A n \in 1 .. Len(k) : text[i + n + 1] # Open
      /\ text[i + Len(k) + 2] # Open /\ text[i + Len(k) + 3] # Open
  BY <1>0, BraceAssumption DEF NoBraces, Brace
<1>2. p \in Nat \ {0} /\ p >= i + 1 /\ p <= i + Len(k) + 3
  BY <1>1
<1>3. text[p] = Open /\ text[p + 1] = Open
  BY <1>2, SpeltFacts
<1>4. \A m \in i + 2 .. i + Len(k) + 3 : text[m] # Open
  <2> TAKE m \in i + 2 .. i + Len(k) + 3
  <2>1. CASE m <= i + Len(k) + 1
    <3> DEFINE n == m - i - 1
    <3>1. n \in 1 .. Len(k) /\ i + n + 1 = m
      BY <1>1, <2>1
    <3> HIDE DEF n
    <3>2. text[i + n + 1] # Open
      BY <1>1, <3>1
    <3> QED
      BY <3>1, <3>2, Zenon
  <2>2. CASE m = i + Len(k) + 2
    BY <1>1, <2>2
  <2>3. CASE m = i + Len(k) + 3
    BY <1>1, <2>3
  <2>4. m <= i + Len(k) + 1 \/ m = i + Len(k) + 2 \/ m = i + Len(k) + 3
    <3> DEFINE L == Len(k)
    <3>1. L \in Nat /\ m \in i + 2 .. i + L + 3
      BY <1>1
    <3> HIDE DEF L
    <3>2. m <= i + L + 1 \/ m = i + L + 2 \/ m = i + L + 3
      BY <3>1
    <3> QED
      BY <3>2 DEF L
  <2> QED
    BY <2>1, <2>2, <2>3, <2>4, Zenon
<1>5. p \in i + 2 .. i + Len(k) + 3 \/ p + 1 \in i + 2 .. i + Len(k) + 3
  BY <1>1, <1>2
<1> QED
  BY <1>3, <1>4, <1>5

-----------------------------------------------------------------------------
(* One scan *)

\* Keys and values are texts.
Assignment(variables) ==
    \A key \in DOMAIN variables : key \in Seq(Symbol) /\ variables[key] \in Seq(Symbol)

\* The scan meets a placeholder at i, of this key, and goes on behind it.
Meets(text, variables, i) == KeysAt(text, i, DOMAIN variables) # {}

KeyAt(text, variables, i) == CHOOSE k \in KeysAt(text, i, DOMAIN variables) : TRUE

Behind(text, variables, i) == i + Len(KeyAt(text, variables, i)) + 4

\* What the scan makes of the text from each place on.
From(text, variables) ==
    LET from[i \in 1 .. Len(text) + 1] ==
            LET met == KeysAt(text, i, DOMAIN variables)
                key == CHOOSE k \in met : TRUE
            IN  IF i > Len(text) THEN <<>>
                ELSE IF met # {}
                THEN variables[key] \o from[i + Len(key) + 4]
                ELSE <<text[i]>> \o from[i + 1]
    IN  from

LEMMA TextsJoin ==
    ASSUME NEW u \in Seq(Symbol), NEW v \in Seq(Symbol), NEW w \in Seq(Symbol)
    PROVE  (u \o v) \o w = u \o (v \o w)
BY ConcatAssociative

LEMMA SubstitutedIs ==
    ASSUME NEW text, NEW variables
    PROVE  Substituted(text, variables) = From(text, variables)[1]
BY DEF Substituted, From

\* The equation of From.
Scan(text, variables, from, i) ==
    IF i > Len(text) THEN <<>>
    ELSE IF Meets(text, variables, i)
    THEN variables[KeyAt(text, variables, i)] \o from[Behind(text, variables, i)]
    ELSE <<text[i]>> \o from[i + 1]

LEMMA KeyAtIs ==
    ASSUME NEW text \in Seq(Symbol), NEW variables, Assignment(variables),
           NEW i \in Nat \ {0}, Meets(text, variables, i)
    PROVE  /\ KeyAt(text, variables, i) \in DOMAIN variables
           /\ KeyAt(text, variables, i) \in Seq(Symbol)
           /\ variables[KeyAt(text, variables, i)] \in Seq(Symbol)
           /\ Occurs(text, i, KeyAt(text, variables, i))
           /\ Behind(text, variables, i) \in i + 1 .. Len(text) + 1
           /\ Len(text) \in Nat /\ i \in 1 .. Len(text)
<1> DEFINE k == KeyAt(text, variables, i)
<1>1. k \in KeysAt(text, i, DOMAIN variables)
  BY Zenon DEF Meets, KeyAt
<1> HIDE DEF k
<1>2. k \in DOMAIN variables /\ Occurs(text, i, k)
  BY <1>1, Zenon DEF KeysAt
<1>3. k \in Seq(Symbol) /\ variables[k] \in Seq(Symbol)
  BY <1>2 DEF Assignment
<1>4. i + Len(k) + 3 <= Len(text) /\ Len(k) \in Nat /\ Len(text) \in Nat
  BY <1>2, <1>3, SpeltFacts
<1>5. i + Len(k) + 4 \in i + 1 .. Len(text) + 1 /\ i \in 1 .. Len(text)
  BY <1>4
<1>6. Behind(text, variables, i) = i + Len(k) + 4
  BY Zenon DEF Behind, k
<1> QED
  BY <1>2, <1>3, <1>4, <1>5, <1>6 DEF k

LEMMA ScanEnd ==
    ASSUME NEW text \in Seq(Symbol), NEW variables, NEW from, NEW i \in Nat, i > Len(text)
    PROVE  Scan(text, variables, from, i) = <<>>
BY Zenon DEF Scan

LEMMA ScanKey ==
    ASSUME NEW text \in Seq(Symbol), NEW variables, Assignment(variables), NEW from,
           NEW i \in Nat \ {0}, Meets(text, variables, i)
    PROVE  Scan(text, variables, from, i)
              = variables[KeyAt(text, variables, i)] \o from[Behind(text, variables, i)]
<1>1. Len(text) \in Nat /\ i \in 1 .. Len(text)
  BY KeyAtIs
<1>2. ~(i > Len(text))
  BY <1>1
<1> QED
  BY <1>2, Zenon DEF Scan

LEMMA ScanSymbol ==
    ASSUME NEW text \in Seq(Symbol), NEW variables, NEW from, NEW i \in Nat,
           i <= Len(text), ~Meets(text, variables, i)
    PROVE  Scan(text, variables, from, i) = <<text[i]>> \o from[i + 1]
<1>1. Len(text) \in Nat
  BY LenProperties
<1>2. ~(i > Len(text))
  BY <1>1
<1> QED
  BY <1>2, Zenon DEF Scan

\* Scans of the last n symbols.
Scans(text, variables, n) ==
    {from \in [Len(text) + 1 - n .. Len(text) + 1 -> Seq(Symbol)] :
        \A i \in Len(text) + 1 - n .. Len(text) + 1 :
            from[i] = Scan(text, variables, from, i)}

LEMMA ScansExist ==
    ASSUME NEW text \in Seq(Symbol), NEW variables, Assignment(variables)
    PROVE  \A n \in Nat :
              n \in {m \in Nat : m <= Len(text) => Scans(text, variables, m) # {}}
<1> DEFINE L == Len(text)
           S == {m \in Nat : m <= L => Scans(text, variables, m) # {}}
<1>l. L \in Nat /\ \A i \in 1 .. L : text[i] \in Symbol
  BY LenProperties, ElementOfSeq
<1>1. 0 \in S
  <2> DEFINE f == [i \in L + 1 - 0 .. L + 1 |-> <<>>]
  <2>1. f \in [L + 1 - 0 .. L + 1 -> Seq(Symbol)]
    BY EmptySeq
  <2>2. ASSUME NEW i \in L + 1 - 0 .. L + 1 PROVE f[i] = Scan(text, variables, f, i)
    <3>1. i \in Nat /\ i > Len(text)
      BY <1>l
    <3>2. Scan(text, variables, f, i) = <<>>
      BY <3>1, ScanEnd
    <3> QED
      BY <3>2
  <2>3. f \in Scans(text, variables, 0)
    BY <2>1, <2>2 DEF Scans
  <2> QED
    BY <2>3
<1>2. ASSUME NEW n \in Nat, n \in S PROVE n + 1 \in S
  <2> SUFFICES ASSUME n + 1 <= L PROVE Scans(text, variables, n + 1) # {}
    OBVIOUS
  <2> DEFINE a == L - n
             D == L + 1 - n .. L + 1
             E == L + 1 - (n + 1) .. L + 1
  <2>1. PICK f : f \in Scans(text, variables, n)
    BY <1>l, <1>2
  <2>2. f \in [D -> Seq(Symbol)] /\ \A i \in D : f[i] = Scan(text, variables, f, i)
    BY <2>1 DEF Scans
  <2>3. /\ a \in 1 .. L /\ a \in E /\ a \notin D /\ a + 1 \in D
        /\ \A i \in E : i # a => i \in D
        /\ \A i \in D : i \in E /\ i # a /\ i > a
        /\ \A i \in a + 1 .. L + 1 : i \in D
    BY <1>l
  <2> DEFINE g == [i \in E |-> IF i = a THEN Scan(text, variables, f, a) ELSE f[i]]
  <2>4. Scan(text, variables, f, a) \in Seq(Symbol)
    <3>0. a \in Nat \ {0} /\ a <= Len(text)
      BY <1>l, <2>3
    <3>1. CASE Meets(text, variables, a)
      <4>1. /\ Behind(text, variables, a) \in D
            /\ variables[KeyAt(text, variables, a)] \in Seq(Symbol)
        BY <2>3, <3>0, <3>1, KeyAtIs
      <4>2. f[Behind(text, variables, a)] \in Seq(Symbol)
        BY <2>2, <4>1
      <4>3. variables[KeyAt(text, variables, a)] \o f[Behind(text, variables, a)] \in Seq(Symbol)
        BY <4>1, <4>2, ConcatProperties
      <4> QED
        BY <3>0, <3>1, <4>3, ScanKey
    <3>2. CASE ~Meets(text, variables, a)
      <4>1. <<text[a]>> \in Seq(Symbol) /\ f[a + 1] \in Seq(Symbol)
        BY <1>l, <2>2, <2>3
      <4>2. <<text[a]>> \o f[a + 1] \in Seq(Symbol)
        BY <4>1, ConcatProperties
      <4>3. Scan(text, variables, f, a) = <<text[a]>> \o f[a + 1]
        BY <3>0, <3>2, ScanSymbol
      <4> QED
        BY <4>2, <4>3
    <3> QED
      BY <3>1, <3>2
  <2>5. g \in [E -> Seq(Symbol)]
    BY <2>2, <2>3, <2>4
  <2>6. ASSUME NEW i \in E PROVE g[i] = Scan(text, variables, g, i)
    <3>1. \A j \in D : g[j] = f[j]
      BY <2>3
    <3>2. i >= a /\ i \in Nat \ {0} /\ a \in Nat
      BY <1>l, <2>3
    <3> HIDE DEF g
    <3>3. Scan(text, variables, g, i) = Scan(text, variables, f, i)
      <4>1. CASE i > L
        BY <3>2, <4>1, ScanEnd
      <4>2. CASE Meets(text, variables, i)
        <5>1. Behind(text, variables, i) \in i + 1 .. L + 1
          BY <3>2, <4>2, KeyAtIs
        <5>2. Behind(text, variables, i) \in D
          BY <1>l, <2>3, <3>2, <5>1
        <5>3. g[Behind(text, variables, i)] = f[Behind(text, variables, i)]
          BY <3>1, <5>2
        <5> QED
          BY <3>2, <4>2, <5>3, ScanKey
      <4>3. CASE i <= L /\ ~Meets(text, variables, i)
        <5>1. i + 1 \in D
          BY <1>l, <2>3, <3>2, <4>3
        <5>2. g[i + 1] = f[i + 1]
          BY <3>1, <5>1
        <5>3. i \in Nat /\ i <= Len(text) /\ ~Meets(text, variables, i)
          BY <3>2, <4>3
        <5>4. /\ Scan(text, variables, g, i) = <<text[i]>> \o g[i + 1]
              /\ Scan(text, variables, f, i) = <<text[i]>> \o f[i + 1]
          BY <5>3, ScanSymbol
        <5> QED
          BY <5>2, <5>4
      <4>4. i > L \/ i <= L
        BY <1>l, <3>2
      <4> DEFINE Same == Scan(text, variables, g, i) = Scan(text, variables, f, i)
                 Met == Meets(text, variables, i)
                 Past == i > L
                 Here == i <= L
      <4>5. /\ Past => Same
            /\ Met => Same
            /\ Here /\ ~Met => Same
        BY <4>1, <4>2, <4>3, Zenon
      <4>6. Past \/ Here
        BY <4>4, Zenon
      <4> HIDE DEF Same, Met, Past, Here
      <4>7. Same
        BY <4>5, <4>6
      <4> QED
        BY <4>7 DEF Same
    <3>4. g[i] = Scan(text, variables, f, i)
      BY <2>2, <2>3, <3>1 DEF g
    <3> QED
      BY <3>3, <3>4
  <2>7. g \in Scans(text, variables, n + 1)
    BY <2>5, <2>6 DEF Scans
  <2> QED
    BY <2>7
<1> HIDE DEF S
<1>3. \A n \in Nat : n \in S
  BY <1>1, <1>2, Upward
<1> QED
  BY <1>3 DEF S

LEMMA FromIs ==
    ASSUME NEW text \in Seq(Symbol), NEW variables, Assignment(variables),
           NEW i \in 1 .. Len(text) + 1
    PROVE  From(text, variables)[i] = Scan(text, variables, From(text, variables), i)
<1> DEFINE L == Len(text)
<1>l. L \in Nat
  BY LenProperties
<1>1. PICK f : f \in Scans(text, variables, L)
  BY <1>l, ScansExist
<1>2. f = [j \in 1 .. L + 1 |-> Scan(text, variables, f, j)]
  <2>1. L + 1 - L = 1
    BY <1>l
  <2>2. f \in [1 .. L + 1 -> Seq(Symbol)] /\ \A j \in 1 .. L + 1 : f[j] = Scan(text, variables, f, j)
    BY <1>1, <2>1 DEF Scans
  <2> QED
    BY <2>2
<1> DEFINE from == From(text, variables)
<1>3. from = CHOOSE g : g = [j \in 1 .. L + 1 |-> Scan(text, variables, g, j)]
  BY DEF From, Scan, Meets, KeyAt, Behind
<1> HIDE DEF from, L
<1>4. from = [j \in 1 .. L + 1 |-> Scan(text, variables, from, j)]
  BY <1>2, <1>3
<1>5. i \in 1 .. L + 1
  BY DEF L
<1>6. from[i] = Scan(text, variables, from, i)
  BY <1>4, <1>5
<1> QED
  BY <1>6 DEF from

\* What a scan makes of the text from its i-th symbol on.
LEMMA FromFacts ==
    ASSUME NEW text \in Seq(Symbol), NEW variables, Assignment(variables)
    PROVE  /\ From(text, variables)[Len(text) + 1] = <<>>
           /\ \A i \in 1 .. Len(text) :
                 /\ Meets(text, variables, i) =>
                       From(text, variables)[i]
                          = variables[KeyAt(text, variables, i)]
                               \o From(text, variables)[Behind(text, variables, i)]
                 /\ ~Meets(text, variables, i) =>
                       From(text, variables)[i] = <<text[i]>> \o From(text, variables)[i + 1]
           /\ \A i \in 1 .. Len(text) + 1 : From(text, variables)[i] \in Seq(Symbol)
<1> DEFINE L == Len(text)
           F == From(text, variables)
<1>l. L \in Nat /\ \A i \in 1 .. L : text[i] \in Symbol
  BY LenProperties, ElementOfSeq
<1>1. \A i \in 1 .. L + 1 : F[i] = Scan(text, variables, F, i)
  BY FromIs
<1>2. F[L + 1] = <<>>
  <2>1. F[L + 1] = Scan(text, variables, F, L + 1)
    BY <1>1, <1>l
  <2>2. L + 1 \in Nat /\ L + 1 > Len(text)
    BY <1>l
  <2> QED
    BY <2>1, <2>2, ScanEnd
<1>3. ASSUME NEW i \in 1 .. L, Meets(text, variables, i)
      PROVE  F[i] = variables[KeyAt(text, variables, i)] \o F[Behind(text, variables, i)]
  <2>1. i \in Nat \ {0} /\ i \in 1 .. L + 1
    BY <1>l
  <2>2. F[i] = Scan(text, variables, F, i)
    BY <1>1, <2>1
  <2> QED
    BY <1>3, <2>1, <2>2, ScanKey
<1>4. ASSUME NEW i \in 1 .. L, ~Meets(text, variables, i)
      PROVE  F[i] = <<text[i]>> \o F[i + 1]
  <2>1. i \in Nat /\ i \in 1 .. L + 1 /\ i <= Len(text)
    BY <1>l
  <2>2. Scan(text, variables, F, i) = <<text[i]>> \o F[i + 1]
    BY <1>4, <2>1, ScanSymbol
  <2> QED
    BY <1>1, <2>1, <2>2
<1> HIDE DEF F
<1> DEFINE S == {i \in 1 .. L + 1 : F[i] \in Seq(Symbol)}
<1>5. ASSUME NEW i \in 1 .. L + 1, \A j \in i + 1 .. L + 1 : j \in S PROVE i \in S
  <2>1. CASE i = L + 1
    BY <1>2, <2>1, EmptySeq
  <2>2. CASE i # L + 1 /\ Meets(text, variables, i)
    <3>1. i \in 1 .. L /\ i \in Nat \ {0}
      BY <1>l, <2>2
    <3>2. /\ Behind(text, variables, i) \in i + 1 .. L + 1
          /\ variables[KeyAt(text, variables, i)] \in Seq(Symbol)
          /\ F[i] = variables[KeyAt(text, variables, i)] \o F[Behind(text, variables, i)]
      BY <1>3, <2>2, <3>1, KeyAtIs
    <3>3. F[Behind(text, variables, i)] \in Seq(Symbol)
      BY <1>5, <3>2
    <3> QED
      BY <3>2, <3>3, ConcatProperties
  <2>3. CASE i # L + 1 /\ ~Meets(text, variables, i)
    <3>1. i \in 1 .. L /\ i + 1 \in i + 1 .. L + 1
      BY <1>l, <2>3
    <3>2. F[i + 1] \in Seq(Symbol) /\ <<text[i]>> \in Seq(Symbol)
      BY <1>5, <1>l, <3>1
    <3>3. F[i] = <<text[i]>> \o F[i + 1]
      BY <1>4, <2>3, <3>1
    <3> QED
      BY <3>2, <3>3, ConcatProperties
  <2> QED
    BY <2>1, <2>2, <2>3
<1>6. L + 1 \in Nat
  BY <1>l
<1> HIDE DEF S
<1>7. \A i \in 1 .. L + 1 : i \in S
  BY <1>5, <1>6, Downward
<1>8. \A i \in 1 .. L + 1 : F[i] \in Seq(Symbol)
  BY <1>7 DEF S
<1> QED
  BY <1>2, <1>3, <1>4, <1>8 DEF F

LEMMA FromType ==
    ASSUME NEW text \in Seq(Symbol), NEW variables, Assignment(variables)
    PROVE  Substituted(text, variables) \in Seq(Symbol)
<1>1. Len(text) \in Nat
  BY LenProperties
<1>2. 1 \in 1 .. Len(text) + 1
  BY <1>1
<1> QED
  BY <1>2, FromFacts, SubstitutedIs

\* What a scan makes of the end of a text does not depend on what is before.
LEMMA FromSuffix ==
    ASSUME NEW u \in Seq(Symbol), NEW p \in Seq(Symbol), NEW variables,
           Assignment(variables)
    PROVE  From(p \o u, variables)[Len(p) + 1] = Substituted(u, variables)
<1> DEFINE w == p \o u
           d == Len(p)
           L == Len(u)
           F == From(w, variables)
           G == From(u, variables)
           S == {i \in 1 .. L + 1 : F[i + d] = G[i]}
<1>l. /\ w \in Seq(Symbol) /\ d \in Nat /\ L \in Nat /\ Len(w) = d + L
      /\ \A i \in 1 .. L : w[i + d] = u[i]
  BY Joined
<1>b. ASSUME NEW i \in Nat \ {0}
      PROVE  KeysAt(w, i + d, DOMAIN variables) = KeysAt(u, i, DOMAIN variables)
  <2>1. ASSUME NEW k \in DOMAIN variables PROVE Occurs(w, i + d, k) <=> Occurs(u, i, k)
    BY OccursBehind DEF Assignment
  <2> HIDE DEF w, d
  <2> QED
    BY <2>1, Zenon DEF KeysAt
<1>f. /\ F[Len(w) + 1] = <<>>
      /\ \A i \in 1 .. Len(w) :
            /\ Meets(w, variables, i) =>
                  F[i] = variables[KeyAt(w, variables, i)] \o F[Behind(w, variables, i)]
            /\ ~Meets(w, variables, i) => F[i] = <<w[i]>> \o F[i + 1]
  BY <1>l, FromFacts
<1>g. /\ G[L + 1] = <<>>
      /\ \A i \in 1 .. L :
            /\ Meets(u, variables, i) =>
                  G[i] = variables[KeyAt(u, variables, i)] \o G[Behind(u, variables, i)]
            /\ ~Meets(u, variables, i) => G[i] = <<u[i]>> \o G[i + 1]
  BY FromFacts
<1> HIDE DEF w, d, F, G
<1>1. ASSUME NEW i \in 1 .. L + 1, \A j \in i + 1 .. L + 1 : j \in S PROVE i \in S
  <2>1. CASE i = L + 1
    <3>1. i + d = Len(w) + 1
      BY <1>l, <2>1
    <3> QED
      BY <1>f, <1>g, <2>1, <3>1
  <2>2. CASE i # L + 1
    <3>1. i \in 1 .. L /\ i \in Nat \ {0} /\ i + d \in 1 .. Len(w) /\ i + 1 \in i + 1 .. L + 1
          /\ i + d + 1 = (i + 1) + d
      BY <1>l, <2>2
    <3>k. /\ Meets(w, variables, i + d) <=> Meets(u, variables, i)
          /\ KeyAt(w, variables, i + d) = KeyAt(u, variables, i)
      BY <1>b, <3>1, Zenon DEF Meets, KeyAt
    <3>2. CASE Meets(u, variables, i)
      <4> DEFINE k == KeyAt(u, variables, i)
                 b == Behind(u, variables, i)
      <4>1. b \in i + 1 .. L + 1 /\ b = i + Len(k) + 4 /\ Len(k) \in Nat
        BY <3>1, <3>2, KeyAtIs, LenProperties DEF Behind
      <4>2. Behind(w, variables, i + d) = i + d + Len(k) + 4
        BY <3>k, Zenon DEF Behind
      <4>3. F[i + d] = variables[k] \o F[Behind(w, variables, i + d)]
        BY <1>f, <3>1, <3>2, <3>k
      <4>4. G[i] = variables[k] \o G[b]
        BY <1>g, <3>1, <3>2
      <4> HIDE DEF k, b
      <4>5. Behind(w, variables, i + d) = b + d
        BY <1>l, <3>1, <4>1, <4>2
      <4>6. F[b + d] = G[b]
        BY <1>1, <4>1
      <4> QED
        BY <4>3, <4>4, <4>5, <4>6
    <3>3. CASE ~Meets(u, variables, i)
      <4>1. F[i + d] = <<w[i + d]>> \o F[i + d + 1]
        BY <1>f, <3>1, <3>3, <3>k
      <4>2. F[i + d + 1] = G[i + 1]
        BY <1>1, <3>1
      <4>3. G[i] = <<u[i]>> \o G[i + 1]
        BY <1>g, <3>1, <3>3
      <4>4. w[i + d] = u[i]
        BY <1>l, <3>1
      <4> QED
        BY <4>1, <4>2, <4>3, <4>4
    <3> QED
      BY <3>2, <3>3
  <2> QED
    BY <2>1, <2>2
<1>2. L + 1 \in Nat /\ 1 \in 1 .. L + 1 /\ d + 1 = 1 + d
  BY <1>l
<1> HIDE DEF S
<1>3. 1 \in S
  <2>1. \A i \in 1 .. L + 1 : i \in S
    BY <1>1, <1>2, Downward
  <2> QED
    BY <1>2, <2>1
<1>4. F[1 + d] = G[1]
  BY <1>3 DEF S
<1> QED
  BY <1>2, <1>4, SubstitutedIs DEF F, G, w, d

LEMMA SubEmpty ==
    ASSUME NEW variables, Assignment(variables)
    PROVE  Substituted(<<>>, variables) = <<>>
<1>1. <<>> \in Seq(Symbol) /\ Len(<<>>) = 0
  BY EmptySeq
<1>2. From(<<>>, variables)[Len(<<>>) + 1] = <<>>
  BY <1>1, FromFacts
<1>3. Len(<<>>) + 1 = 1
  BY <1>1
<1> QED
  BY <1>2, <1>3, SubstitutedIs

LEMMA SymbolFirst ==
    ASSUME NEW x \in Symbol, NEW u \in Seq(Symbol)
    PROVE  /\ <<x>> \o u \in Seq(Symbol) /\ Len(<<x>> \o u) = 1 + Len(u) /\ Len(u) \in Nat
           /\ (<<x>> \o u)[1] = x
           /\ \A i \in 1 .. Len(u) : (<<x>> \o u)[i + 1] = u[i]
<1> DEFINE a == <<x>>
           w == a \o u
<1>1. a \in Seq(Symbol) /\ Len(a) = 1 /\ a[1] = x
  OBVIOUS
<1> HIDE DEF a
<1>2. /\ w \in Seq(Symbol) /\ Len(w) = Len(a) + Len(u) /\ Len(u) \in Nat
      /\ \A i \in 1 .. Len(a) : w[i] = a[i]
      /\ \A i \in 1 .. Len(u) : w[i + Len(a)] = u[i]
  BY <1>1, Joined
<1> HIDE DEF w
<1>3. w[1] = a[1]
  BY <1>1, <1>2
<1> QED
  BY <1>1, <1>2, <1>3 DEF w, a

\* A scan leaves a symbol alone that does not begin a placeholder.
LEMMA SubSymbol ==
    ASSUME NEW x \in Symbol, NEW u \in Seq(Symbol), NEW variables, Assignment(variables),
           ~Meets(<<x>> \o u, variables, 1)
    PROVE  Substituted(<<x>> \o u, variables) = <<x>> \o Substituted(u, variables)
<1> DEFINE w == <<x>> \o u
<1>1. <<x>> \in Seq(Symbol) /\ Len(<<x>>) = 1
  OBVIOUS
<1>2. w \in Seq(Symbol) /\ 1 \in 1 .. Len(w) /\ w[1] = x
  BY SymbolFirst
<1>3. From(w, variables)[1] = <<w[1]>> \o From(w, variables)[1 + 1]
  BY <1>2, FromFacts
<1>4. From(w, variables)[1 + 1] = Substituted(u, variables)
  BY <1>1, FromSuffix
<1> QED
  BY <1>2, <1>3, <1>4, SubstitutedIs

\* A placeholder becomes the value of its key.
LEMMA SubKey ==
    ASSUME NEW u \in Seq(Symbol), NEW variables, Assignment(variables), NEW key,
           DOMAIN variables = {key}
    PROVE  Substituted(Placeholder(key) \o u, variables)
              = variables[key] \o Substituted(u, variables)
<1> DEFINE p == Placeholder(key)
           w == p \o u
<1>0. key \in Seq(Symbol) /\ variables[key] \in Seq(Symbol)
  BY DEF Assignment
<1>1. p \in Seq(Symbol) /\ Len(p) = Len(key) + 4 /\ Len(key) \in Nat
  BY <1>0, PlaceholderIs, LenProperties
<1>2. Occurs(w, 1, key)
  <2> HIDE DEF p
  <2>1. /\ w \in Seq(Symbol) /\ Len(w) = Len(p) + Len(u) /\ Len(u) \in Nat
        /\ \A i \in 1 .. Len(p) : w[i] = p[i]
    BY <1>1, Joined
  <2> HIDE DEF w
  <2>2. 1 + Len(key) + 3 <= Len(w)
    BY <1>1, <2>1
  <2>3. \A n \in 1 .. Len(key) + 4 : w[1 + n - 1] = p[n]
    <3> TAKE n \in 1 .. Len(key) + 4
    <3>1. n \in 1 .. Len(p) /\ 1 + n - 1 = n
      BY <1>1
    <3> QED
      BY <2>1, <3>1
  <2>4. Spelt(w, 1, key)
    BY <2>2, <2>3, Zenon DEF Spelt, p
  <2> QED
    BY <1>0, <2>1, <2>4, OccursIs
<1>3. KeysAt(w, 1, DOMAIN variables) = {key}
  <2> HIDE DEF w
  <2> QED
    BY <1>2, Zenon DEF KeysAt
<1>4. Meets(w, variables, 1) /\ KeyAt(w, variables, 1) = key
  <2> HIDE DEF w
  <2>1. KeyAt(w, variables, 1) \in {key}
    BY <1>3, Zenon DEF KeyAt
  <2> QED
    BY <1>3, <2>1, Zenon DEF Meets
<1>5. w \in Seq(Symbol)
  BY <1>1, ConcatProperties
<1>6. Len(w) \in Nat /\ 1 \in 1 .. Len(w)
  <2> HIDE DEF w
  <2> QED
    BY <1>4, <1>5, KeyAtIs
<1>7. Behind(w, variables, 1) = Len(p) + 1
  <2> HIDE DEF w, p
  <2>1. Behind(w, variables, 1) = 1 + Len(key) + 4
    BY <1>4, Zenon DEF Behind
  <2> QED
    BY <1>1, <2>1
<1>8. From(w, variables)[Len(p) + 1] = Substituted(u, variables)
  BY <1>1, FromSuffix
<1> HIDE DEF w, p
<1>9. From(w, variables)[1] = variables[key] \o From(w, variables)[Len(p) + 1]
  <2>1. From(w, variables)[1]
           = variables[KeyAt(w, variables, 1)] \o From(w, variables)[Behind(w, variables, 1)]
    BY <1>4, <1>5, <1>6, FromFacts
  <2> QED
    BY <1>4, <1>7, <2>1, Zenon
<1>10. Substituted(w, variables) = variables[key] \o Substituted(u, variables)
  BY <1>8, <1>9, SubstitutedIs
<1> QED
  BY <1>10 DEF w, p

\* Symbols that open no brace stay, and the scan goes on behind them.
LEMMA SubKept ==
    ASSUME NEW u \in Seq(Symbol), NEW variables, Assignment(variables)
    PROVE  \A w \in Seq(Symbol) :
              (\A i \in 1 .. Len(w) : w[i] # Open \/ DOMAIN variables = {})
                 => Substituted(w \o u, variables) = w \o Substituted(u, variables)
<1> DEFINE Kept(w) == \A i \in 1 .. Len(w) : w[i] # Open \/ DOMAIN variables = {}
           Stays(w) == Substituted(w \o u, variables) = w \o Substituted(u, variables)
           S == {n \in Nat : \A w \in Seq(Symbol) : Len(w) = n /\ Kept(w) => Stays(w)}
<1>1. 0 \in S
  <2>1. ASSUME NEW w \in Seq(Symbol), Len(w) = 0 PROVE Stays(w)
    <3>1. w = <<>>
      BY <2>1, EmptySeq
    <3>2. Substituted(u, variables) \in Seq(Symbol)
      BY FromType
    <3> QED
      BY <3>1, <3>2, ConcatEmptySeq
  <2> QED
    BY <2>1
<1>2. ASSUME NEW n \in Nat, n \in S PROVE n + 1 \in S
  <2>1. ASSUME NEW w \in Seq(Symbol), Len(w) = n + 1, Kept(w) PROVE Stays(w)
    <3> DEFINE x == w[1]
               v == Tail(w)
    <3>0. Len(w) = n + 1 /\ 1 \in 1 .. Len(w)
      <4>1. Len(w) = n + 1
        BY <2>1, Zenon
      <4> HIDE DEF Kept, Stays
      <4> QED
        BY <4>1
    <3>1. w # <<>>
      BY <3>0, EmptySeq
    <3>2. x \in Symbol /\ v \in Seq(Symbol) /\ Len(v) = n /\ \A i \in 1 .. n : v[i] = w[i + 1]
      <4>1. x \in Symbol
        BY <3>0, ElementOfSeq
      <4> QED
        BY <3>0, <3>1, <4>1, HeadTailProperties
    <3>3. w = <<x>> \o v
      <4>1. 1 \in 1 .. Len(w) /\ Len(w) \in 1 .. Len(w)
        BY <3>0
      <4>2. w = SubSeq(w, 1, Len(w)) /\ SubSeq(w, 1 + 1, Len(w)) = v
        <5>1. SubSeq(w, 1, Len(w)) = w
          BY SubSeqFull
        <5>2. v = SubSeq(w, 2, Len(w))
          BY <3>1, TailIsSubSeq
        <5> QED
          BY <5>1, <5>2
      <4> QED
        BY <4>1, <4>2, SubSeqRecursiveFirst
    <3>4. w \o u = <<x>> \o (v \o u) /\ v \o u \in Seq(Symbol)
      <4>1. <<x>> \in Seq(Symbol)
        BY <3>2
      <4>2. (<<x>> \o v) \o u = <<x>> \o (v \o u)
        BY <3>2, <4>1, ConcatAssociative
      <4> HIDE DEF x, v
      <4> QED
        BY <3>2, <3>3, <4>2, ConcatProperties
    <3>5. Kept(v)
      <4>1. \A i \in 1 .. n : i + 1 \in 1 .. n + 1
        OBVIOUS
      <4> HIDE DEF v
      <4> QED
        BY <2>1, <3>2, <4>1
    <3>6. Stays(v)
      BY <1>2, <3>2, <3>5
    <3>7. ~Meets(<<x>> \o (v \o u), variables, 1)
      <4> DEFINE y == <<x>> \o (v \o u)
      <4>1. y[1] = x /\ y \in Seq(Symbol)
        BY <3>2, <3>4, SymbolFirst
      <4>2. x # Open \/ DOMAIN variables = {}
        BY <2>1, <3>0
      <4> HIDE DEF x, v, y
      <4>3. ASSUME NEW k \in DOMAIN variables, Occurs(y, 1, k) PROVE FALSE
        <5>1. k \in Seq(Symbol) /\ 1 \in Nat \ {0}
          BY DEF Assignment
        <5>2. y[1] = Open
          BY <4>1, <4>3, <5>1, SpeltFacts
        <5> QED
          BY <4>1, <4>2, <5>2
      <4>4. ~Meets(y, variables, 1)
        BY <4>3, Zenon DEF Meets, KeysAt
      <4> QED
        BY <4>4 DEF y
    <3>8. Substituted(w \o u, variables) = <<x>> \o (v \o Substituted(u, variables))
      <4>1. Substituted(<<x>> \o (v \o u), variables) = <<x>> \o Substituted(v \o u, variables)
        <5> HIDE DEF x, v
        <5> QED
          BY <3>2, <3>4, <3>7, SubSymbol
      <4> HIDE DEF x, v
      <4> QED
        BY <3>4, <3>6, <4>1
    <3>9. <<x>> \o (v \o Substituted(u, variables)) = w \o Substituted(u, variables)
      <4>1. <<x>> \in Seq(Symbol) /\ Substituted(u, variables) \in Seq(Symbol)
        BY <3>2, FromType
      <4>2. (<<x>> \o v) \o Substituted(u, variables) = <<x>> \o (v \o Substituted(u, variables))
        BY <3>2, <4>1, ConcatAssociative
      <4> HIDE DEF x, v
      <4> QED
        BY <3>3, <4>2
    <3> QED
      BY <3>8, <3>9
  <2> HIDE DEF Kept, Stays
  <2> QED
    BY <2>1
<1> HIDE DEF S
<1>3. \A n \in Nat : n \in S
  BY <1>1, <1>2, Upward
<1>4. ASSUME NEW w \in Seq(Symbol), Kept(w) PROVE Stays(w)
  <2>1. Len(w) \in Nat
    BY LenProperties
  <2> HIDE DEF Kept, Stays
  <2> QED
    BY <1>3, <1>4, <2>1 DEF S
<1> QED
  BY <1>4

\* Where the scan meets no placeholder, from i up to j, it keeps the text.
LEMMA Verbatim ==
    ASSUME NEW text \in Seq(Symbol), NEW variables, Assignment(variables),
           NEW j \in 1 .. Len(text) + 1, NEW a \in 1 .. j,
           \A p \in a .. j - 1 : ~Meets(text, variables, p)
    PROVE  From(text, variables)[a] = SubSeq(text, a, j - 1) \o From(text, variables)[j]
<1> DEFINE L == Len(text)
           F == From(text, variables)
           S == {i \in 1 .. j : i >= a => F[i] = SubSeq(text, i, j - 1) \o F[j]}
<1>l. L \in Nat /\ j \in Nat \ {0} /\ j <= L + 1 /\ \A i \in 1 .. L : text[i] \in Symbol
  BY LenProperties, ElementOfSeq
<1>f. /\ \A i \in 1 .. L : ~Meets(text, variables, i) => F[i] = <<text[i]>> \o F[i + 1]
      /\ \A i \in 1 .. L + 1 : F[i] \in Seq(Symbol)
  BY FromFacts
<1> HIDE DEF F
<1>1. ASSUME NEW i \in 1 .. j, \A n \in i + 1 .. j : n \in S PROVE i \in S
  <2> SUFFICES ASSUME i >= a PROVE F[i] = SubSeq(text, i, j - 1) \o F[j]
    OBVIOUS
  <2>1. CASE i = j
    <3>1. SubSeq(text, i, j - 1) = <<>>
      <4>1. i \in Int /\ j - 1 \in Int /\ j - 1 < i
        BY <1>l, <2>1
      <4> QED
        BY <4>1, SubSeqEmpty
    <3>2. F[j] \in Seq(Symbol)
      BY <1>f, <1>l
    <3> QED
      BY <2>1, <3>1, <3>2, ConcatEmptySeq
  <2>2. CASE i # j
    <3>1. i \in 1 .. L /\ i + 1 \in i + 1 .. j /\ i \in a .. j - 1 /\ i + 1 >= a
          /\ j - 1 \in i .. L
      BY <1>l, <2>2
    <3>2. F[i] = <<text[i]>> \o F[i + 1]
      BY <1>f, <3>1
    <3>3. F[i + 1] = SubSeq(text, i + 1, j - 1) \o F[j]
      BY <1>1, <3>1
    <3>4. SubSeq(text, i, j - 1) = <<text[i]>> \o SubSeq(text, i + 1, j - 1)
      BY <3>1, SubSeqRecursiveFirst
    <3>5. /\ <<text[i]>> \in Seq(Symbol) /\ F[j] \in Seq(Symbol)
          /\ SubSeq(text, i + 1, j - 1) \in Seq(Symbol)
      <4>1. \A n \in i + 1 .. j - 1 : text[n] \in Symbol
        BY <1>l
      <4>2. i + 1 \in Int /\ j - 1 \in Int
        BY <1>l
      <4>3. SubSeq(text, i + 1, j - 1) \in Seq(Symbol)
        BY <4>1, <4>2, SubSeqProperties
      <4>4. <<text[i]>> \in Seq(Symbol) /\ F[j] \in Seq(Symbol)
        BY <1>f, <1>l, <3>1
      <4> QED
        BY <4>3, <4>4
    <3> DEFINE s == SubSeq(text, i + 1, j - 1)
               x == <<text[i]>>
    <3>6. x \in Seq(Symbol) /\ s \in Seq(Symbol) /\ F[j] \in Seq(Symbol)
      BY <3>5
    <3>7. F[i] = x \o (s \o F[j]) /\ SubSeq(text, i, j - 1) = x \o s
      BY <3>2, <3>3, <3>4
    <3> HIDE DEF s, x
    <3>8. (x \o s) \o F[j] = x \o (s \o F[j])
      BY <3>6, TextsJoin, Zenon
    <3> QED
      BY <3>7, <3>8
  <2> QED
    BY <2>1, <2>2
<1>2. j \in Nat
  BY <1>l
<1> HIDE DEF S
<1>3. \A i \in 1 .. j : i \in S
  BY <1>1, <1>2, Downward
<1>4. F[a] = SubSeq(text, a, j - 1) \o F[j]
  <2>1. a \in S /\ a >= a
    BY <1>3
  <2> QED
    BY <2>1 DEF S
<1> QED
  BY <1>4 DEF F

-----------------------------------------------------------------------------
(* One more key *)

\* Between two "{{" of the text there is a "}}".
Parted(text) ==
    \A i, p \in 1 .. Len(text) :
        i < p /\ Twice(text, i, Open) /\ Twice(text, p, Open) =>
            \E j \in i + 2 .. p - 2 : Twice(text, j, Close)

\* No key and no value has a brace.
Bare(variables) ==
    \A key \in DOMAIN variables : NoBraces(key) /\ NoBraces(variables[key])

LEMMA UnambiguousIs ==
    ASSUME NEW text, NEW variables, Assignment(variables), Unambiguous(text, variables)
    PROVE  Parted(text) /\ Bare(variables)
<1>1. ASSUME NEW w \in Seq(Symbol), ToSet(w) \cap Brace = {} PROVE NoBraces(w)
  <2> SUFFICES ASSUME NEW n \in 1 .. Len(w) PROVE w[n] \notin Brace
    BY DEF NoBraces
  <2>1. DOMAIN w = 1 .. Len(w)
    BY LenProperties
  <2>2. w[n] \in ToSet(w)
    BY <2>1, Zenon DEF ToSet
  <2> QED
    BY <1>1, <2>2
<1>2. ASSUME NEW key \in DOMAIN variables PROVE NoBraces(key) /\ NoBraces(variables[key])
  <2>1. (ToSet(key) \cup ToSet(variables[key])) \cap Brace = {}
    BY Zenon DEF Unambiguous
  <2>2. ToSet(key) \cap Brace = {} /\ ToSet(variables[key]) \cap Brace = {}
    BY <2>1
  <2>3. key \in Seq(Symbol) /\ variables[key] \in Seq(Symbol)
    BY DEF Assignment
  <2> QED
    BY <1>1, <2>2, <2>3
<1>3. Parted(text)
  BY Zenon DEF Unambiguous, Parted
<1> QED
  BY <1>2, <1>3 DEF Bare

\* Where the text has no placeholder of a key, the scan of others makes none.
LEMMA NoneArises ==
    ASSUME NEW text \in Seq(Symbol), Parted(text), NEW variables, Assignment(variables),
           NEW key \in Seq(Symbol), NoBraces(key),
           NEW i \in 1 .. Len(text), ~Meets(text, variables, i), ~Occurs(text, i, key)
    PROVE  ~Occurs(From(text, variables)[i], 1, key)
<1> SUFFICES ASSUME Occurs(From(text, variables)[i], 1, key) PROVE FALSE
  OBVIOUS
<1> DEFINE L == Len(text)
           K == Len(key)
           P == Placeholder(key)
           F == From(text, variables)
           D == {p \in i .. i + K + 4 :
                    p = i + K + 4 \/ p = L + 1 \/ Meets(text, variables, p)}
<1>l. L \in Nat /\ K \in Nat /\ i \in 1 .. L
  BY LenProperties
<1>f. F[L + 1] = <<>> /\ \A n \in 1 .. L + 1 : F[n] \in Seq(Symbol)
  BY FromFacts
<1>p. /\ P[1] = Open /\ P[2] = Open
      /\ \A n \in 1 .. K : P[n + 2] = key[n] /\ P[n + 2] # Close
  BY PlaceholderIs DEF NoBraces, Brace
<1>s. 1 + K + 3 <= Len(F[i]) /\ \A n \in 1 .. K + 4 : F[i][1 + n - 1] = P[n]
  <2>1. F[i] \in Seq(Symbol) /\ 1 \in Nat \ {0}
    BY <1>f, <1>l
  <2>2. Spelt(F[i], 1, key)
    BY <2>1, OccursIs
  <2> QED
    BY <2>2 DEF Spelt
<1>t. Occurs(text, i, key) <=> /\ i + K + 3 <= L
                               /\ \A n \in 1 .. K + 4 : text[i + n - 1] = P[n]
  <2>1. i \in Nat \ {0}
    BY <1>l
  <2> QED
    BY <2>1, OccursIs DEF Spelt
<1> HIDE DEF K, P, F
<1>1. PICK j \in D : \A p \in D : j <= p
  <2>1. D \in SUBSET Nat /\ i + K + 4 \in D
    BY <1>l
  <2> HIDE DEF D
  <2> QED
    BY <2>1, LeastNumber
<1>2. /\ j \in i + 1 .. i + K + 4 /\ j <= L + 1
      /\ \A p \in i .. j - 1 : ~Meets(text, variables, p)
      /\ j = i + K + 4 \/ j = L + 1 \/ Meets(text, variables, j)
  <2>1. i \notin D
    BY <1>l
  <2>2. j <= L + 1
    <3>1. CASE i + K + 4 <= L + 1
      BY <1>l, <1>1, <3>1
    <3>2. CASE ~(i + K + 4 <= L + 1)
      <4>1. L + 1 \in D
        BY <1>l, <3>2
      <4> QED
        BY <1>1, <4>1
    <3> QED
      BY <3>1, <3>2
  <2>3. \A p \in i .. j - 1 : p \notin D /\ p \in i .. i + K + 4
    BY <1>l, <1>1
  <2>4. \A p \in i .. j - 1 : ~Meets(text, variables, p)
    BY <2>3
  <2> QED
    BY <1>l, <1>1, <2>1, <2>2, <2>4
<1> HIDE DEF D
<1> DEFINE s == SubSeq(text, i, j - 1)
<1>3. /\ s \in Seq(Symbol) /\ Len(s) = j - i
      /\ \A n \in 1 .. j - i : s[n] = text[i + n - 1]
  <2> DEFINE k == j - 1
  <2>1. i \in Int /\ k \in Int /\ i <= k /\ k - i + 1 = j - i
    BY <1>l, <1>2
  <2>2. \A n \in i .. k : text[n] \in Symbol
    <3>1. \A n \in i .. k : n \in 1 .. Len(text)
      BY <1>l, <1>2
    <3> QED
      BY <3>1, ElementOfSeq
  <2> HIDE DEF k
  <2>3. /\ SubSeq(text, i, k) \in Seq(Symbol) /\ Len(SubSeq(text, i, k)) = k - i + 1
        /\ \A n \in 1 .. k - i + 1 : SubSeq(text, i, k)[n] = text[i + n - 1]
    BY <2>1, <2>2, SubSeqProperties
  <2> QED
    BY <2>1, <2>3 DEF k
<1>4. F[i] = s \o F[j]
  <2>1. j \in 1 .. Len(text) + 1 /\ i \in 1 .. j
    BY <1>l, <1>2
  <2> QED
    BY <1>2, <2>1, Verbatim DEF F
<1> HIDE DEF s
<1>5. /\ Len(F[i]) = j - i + Len(F[j])
      /\ \A n \in 1 .. j - i : F[i][n] = text[i + n - 1]
  <2>1. F[j] \in Seq(Symbol)
    BY <1>f, <1>l, <1>2
  <2>2. Len(s \o F[j]) = Len(s) + Len(F[j]) /\ \A n \in 1 .. Len(s) : (s \o F[j])[n] = s[n]
    BY <1>3, <2>1, Joined
  <2> QED
    BY <1>3, <1>4, <2>2
<1>6. \A n \in 1 .. j - i : text[i + n - 1] = P[n]
  <2> TAKE n \in 1 .. j - i
  <2>1. n \in 1 .. K + 4 /\ 1 + n - 1 = n
    BY <1>l, <1>2
  <2>2. F[i][n] = P[n]
    <3>1. F[i][1 + n - 1] = P[n]
      BY <1>s, <2>1
    <3> QED
      BY <2>1, <3>1
  <2> QED
    BY <1>5, <2>2
<1>7. CASE j = i + K + 4
  <2>1. j - i = K + 4 /\ i + K + 3 <= L
    BY <1>l, <1>2, <1>7
  <2> QED
    BY <1>t, <1>6, <2>1
<1>8. CASE j = L + 1 /\ j # i + K + 4
  <2>1. Len(F[j]) = 0
    BY <1>f, <1>8, EmptySeq
  <2>2. Len(F[i]) = j - i /\ 1 + K + 3 <= Len(F[i])
    BY <1>l, <1>s, <1>2, <1>5, <2>1
  <2> QED
    BY <1>l, <1>2, <1>8, <2>2
<1>9. CASE Meets(text, variables, j) /\ j # L + 1 /\ j # i + K + 4
  <2>1. j \in 1 .. L /\ j \in Nat \ {0} /\ i \in Nat \ {0} /\ j < i + K + 4
    BY <1>l, <1>2, <1>9
  <2>2. text[j] = Open /\ text[j + 1] = Open /\ j \in 1 .. L - 1
    <3> DEFINE k == KeyAt(text, variables, j)
    <3>1. k \in Seq(Symbol) /\ Occurs(text, j, k)
      BY <1>9, <2>1, KeyAtIs
    <3> HIDE DEF k
    <3>2. /\ j + Len(k) + 3 <= L /\ Len(k) \in Nat
          /\ text[j] = Open /\ text[j + 1] = Open
      BY <2>1, <3>1, SpeltFacts
    <3> QED
      BY <1>l, <2>1, <3>2
  <2>3. text[i] = Open
    <3>1. 1 \in 1 .. j - i /\ i + 1 - 1 = i
      BY <1>l, <1>2
    <3>2. text[i + 1 - 1] = P[1]
      BY <1>6, <3>1
    <3> QED
      BY <1>p, <3>1, <3>2
  <2>4. text[i + 1] = Open
    <3>1. CASE j = i + 1
      BY <2>2, <3>1
    <3>2. CASE j # i + 1
      <4>1. 2 \in 1 .. j - i /\ i + 2 - 1 = i + 1
        BY <1>l, <1>2, <3>2
      <4>2. text[i + 2 - 1] = P[2]
        BY <1>6, <4>1
      <4> QED
        BY <1>p, <4>1, <4>2
    <3> QED
      BY <3>1, <3>2
  <2>5. PICK c \in i + 2 .. j - 2 : Twice(text, c, Close)
    <3>1. i \in 1 .. L - 1 /\ i < j
      BY <1>l, <1>2, <2>2
    <3>2. Twice(text, i, Open) /\ Twice(text, j, Open)
      BY <2>2, <2>3, <2>4, <3>1 DEF Twice
    <3> QED
      BY <1>l, <2>1, <3>1, <3>2 DEF Parted
  <2> DEFINE q == c - i - 1
  <2>6. /\ c \in 1 .. j /\ q \in 1 .. K /\ q + 2 \in 1 .. j - i /\ i + (q + 2) - 1 = c
    BY <1>l, <1>2, <2>1, <2>5
  <2> HIDE DEF q
  <2>7. text[c] = P[q + 2]
    BY <1>6, <2>6
  <2>8. text[c] = Close
    BY <2>5 DEF Twice
  <2> QED
    BY <1>p, <2>6, <2>7, <2>8
<1> QED
  BY <1>2, <1>7, <1>8, <1>9

\* Some of the variables.
Only(variables, keys) == [key \in keys |-> variables[key]]

LEMMA OnlyIs ==
    ASSUME NEW variables, Assignment(variables), Bare(variables),
           NEW keys \in SUBSET DOMAIN variables
    PROVE  /\ DOMAIN Only(variables, keys) = keys
           /\ \A key \in keys : Only(variables, keys)[key] = variables[key]
           /\ Assignment(Only(variables, keys)) /\ Bare(Only(variables, keys))
<1>1. /\ DOMAIN Only(variables, keys) = keys
      /\ \A key \in keys : Only(variables, keys)[key] = variables[key]
  BY DEF Only
<1> QED
  BY <1>1 DEF Assignment, Bare

LEMMA OneIs ==
    ASSUME NEW key \in Seq(Symbol), NEW value \in Seq(Symbol)
    PROVE  /\ DOMAIN [k \in {key} |-> value] = {key}
           /\ [k \in {key} |-> value][key] = value
           /\ Assignment([k \in {key} |-> value])
BY DEF Assignment

\* The scan of one key meets that key, and nothing else.
LEMMA MeetsOne ==
    ASSUME NEW text, NEW variables, NEW i, NEW key, DOMAIN variables = {key}
    PROVE  Meets(text, variables, i) <=> Occurs(text, i, key)
<1>1. KeysAt(text, i, {key}) # {} <=> Occurs(text, i, key)
  BY Zenon DEF KeysAt
<1> QED
  BY <1>1, Zenon DEF Meets

\* Replacing one more key in what the scan of other keys made is a scan of all.
LEMMA OneMore ==
    ASSUME NEW text \in Seq(Symbol), Parted(text),
           NEW variables, Assignment(variables), Bare(variables),
           NEW keys \in SUBSET DOMAIN variables, NEW key \in DOMAIN variables \ keys
    PROVE  Replaced(Substituted(text, Only(variables, keys)), key, variables[key])
              = Substituted(text, Only(variables, keys \cup {key}))
<1> DEFINE L == Len(text)
           V == Only(variables, keys)
           W == Only(variables, keys \cup {key})
           E == [k \in {key} |-> variables[key]]
           F == From(text, V)
           G == From(text, W)
           H(u) == Substituted(u, E)
           S == {i \in 1 .. L + 1 : H(F[i]) = G[i]}
<1>l. L \in Nat /\ \A i \in 1 .. L : text[i] \in Symbol
  BY LenProperties, ElementOfSeq
<1>k. /\ key \in Seq(Symbol) /\ variables[key] \in Seq(Symbol) /\ NoBraces(key)
      /\ keys \cup {key} \in SUBSET DOMAIN variables /\ key \notin keys
  BY DEF Assignment, Bare
<1>v. /\ DOMAIN V = keys /\ Assignment(V) /\ Bare(V)
      /\ \A k \in keys : V[k] = variables[k]
  BY OnlyIs
<1>w. /\ DOMAIN W = keys \cup {key} /\ Assignment(W) /\ Bare(W)
      /\ \A k \in keys \cup {key} : W[k] = variables[k]
  BY <1>k, OnlyIs
<1>e. DOMAIN E = {key} /\ Assignment(E) /\ E[key] = variables[key]
  BY <1>k, OneIs
<1> HIDE DEF V, W, E
<1>f. /\ F[L + 1] = <<>>
      /\ \A i \in 1 .. L :
            /\ Meets(text, V, i) => F[i] = V[KeyAt(text, V, i)] \o F[Behind(text, V, i)]
            /\ ~Meets(text, V, i) => F[i] = <<text[i]>> \o F[i + 1]
      /\ \A i \in 1 .. L + 1 : F[i] \in Seq(Symbol)
  BY <1>v, FromFacts
<1>g. /\ G[L + 1] = <<>>
      /\ \A i \in 1 .. L :
            /\ Meets(text, W, i) => G[i] = W[KeyAt(text, W, i)] \o G[Behind(text, W, i)]
            /\ ~Meets(text, W, i) => G[i] = <<text[i]>> \o G[i + 1]
  BY <1>w, FromFacts
\* Both scans meet the same, but for the placeholders of the key.
<1>m. ASSUME NEW i \in Nat \ {0}
      PROVE  Meets(text, W, i) <=> Meets(text, V, i) \/ Occurs(text, i, key)
  <2>1. KeysAt(text, i, keys \cup {key}) # {} <=>
           KeysAt(text, i, keys) # {} \/ Occurs(text, i, key)
    BY Zenon DEF KeysAt
  <2> QED
    BY <1>v, <1>w, <2>1, Zenon DEF Meets
<1>u. ASSUME NEW i \in Nat \ {0}, NEW k \in keys \cup {key}, Occurs(text, i, k)
      PROVE  Meets(text, W, i) /\ KeyAt(text, W, i) = k /\ Behind(text, W, i) = i + Len(k) + 4
  <2>1. Meets(text, W, i)
    BY <1>w, <1>u, Zenon DEF Meets, KeysAt
  <2>2. /\ KeyAt(text, W, i) \in keys \cup {key}
        /\ KeyAt(text, W, i) \in Seq(Symbol) /\ Occurs(text, i, KeyAt(text, W, i))
    BY <1>w, <2>1, KeyAtIs
  <2>3. \A l \in keys \cup {key} : l \in Seq(Symbol) /\ NoBraces(l)
    BY <1>w DEF Assignment, Bare
  <2>4. KeyAt(text, W, i) = k
    BY <1>u, <2>2, <2>3, OneKey
  <2> QED
    BY <2>1, <2>4, Zenon DEF Behind
<1> HIDE DEF F, G
<1>1. ASSUME NEW i \in 1 .. L + 1, \A j \in i + 1 .. L + 1 : j \in S PROVE i \in S
  <2>1. CASE i = L + 1
    BY <1>e, <1>f, <1>g, <2>1, SubEmpty
  <2>2. CASE i # L + 1
    <3>1. i \in 1 .. L /\ i \in Nat \ {0} /\ i + 1 \in 1 .. L + 1 /\ i + 1 \in i + 1 .. L + 1
      BY <1>l, <2>2
    <3>2. CASE Meets(text, V, i)
      <4> DEFINE k == KeyAt(text, V, i)
                 b == Behind(text, V, i)
                 v == variables[k]
      <4>1. /\ k \in keys /\ k \in Seq(Symbol) /\ V[k] \in Seq(Symbol) /\ Occurs(text, i, k)
            /\ b \in i + 1 .. L + 1 /\ b = i + Len(k) + 4
        BY <1>v, <3>1, <3>2, KeyAtIs DEF Behind
      <4>2. F[i] = V[k] \o F[b]
        BY <1>f, <3>1, <3>2
      <4> HIDE DEF k, b
      <4>3. v \in Seq(Symbol) /\ V[k] = v /\ W[k] = v
        BY <1>v, <1>w, <4>1
      <4>4. \A n \in 1 .. Len(v) : v[n] # Open
        BY <4>1 DEF Bare, NoBraces, Brace
      <4>5. b \in 1 .. L + 1 /\ F[b] \in Seq(Symbol)
        BY <1>f, <1>l, <3>1, <4>1
      <4>6. H(F[i]) = v \o H(F[b])
        <5> HIDE DEF v
        <5>1. \A n \in 1 .. Len(v) : v[n] # Open \/ DOMAIN E = {}
          BY <4>4
        <5>2. Substituted(v \o F[b], E) = v \o Substituted(F[b], E)
          BY <1>e, <4>3, <4>5, <5>1, SubKept, Zenon
        <5> QED
          BY <4>2, <4>3, <5>2
      <4>7. H(F[b]) = G[b]
        BY <1>1, <4>1
      <4>8. G[i] = v \o G[b]
        <5>1. Meets(text, W, i) /\ KeyAt(text, W, i) = k /\ Behind(text, W, i) = b
          BY <1>u, <3>1, <4>1
        <5> QED
          BY <1>g, <3>1, <4>3, <5>1
      <4> QED
        BY <4>6, <4>7, <4>8
    <3>3. CASE Occurs(text, i, key) /\ ~Meets(text, V, i)
      <4> DEFINE b == i + Len(key) + 4
                 p == Placeholder(key)
      <4>1. Len(key) \in Nat /\ b \in i + 1 .. L + 1 /\ b \in 1 .. L + 1
        <5>1. i + Len(key) + 3 <= L /\ Len(key) \in Nat
          BY <1>k, <3>1, <3>3, SpeltFacts
        <5> QED
          BY <1>l, <3>1, <5>1
      <4>2. ASSUME NEW n \in i .. b - 1 PROVE ~Meets(text, V, n)
        <5>1. CASE n = i
          BY <3>3, <5>1
        <5>2. CASE n # i
          <6>1. n \in i + 1 .. i + Len(key) + 3 /\ n \in Nat \ {0}
            BY <3>1, <4>1, <5>2
          <6>2. ASSUME NEW l \in keys PROVE ~Occurs(text, n, l)
            <7>1. l \in Seq(Symbol)
              BY <1>v DEF Assignment
            <7> QED
              BY <1>k, <3>1, <3>3, <6>1, <7>1, NoneInside
          <6> QED
            BY <1>v, <6>2, Zenon DEF Meets, KeysAt
        <5> QED
          BY <5>1, <5>2
      <4>3. F[i] = SubSeq(text, i, b - 1) \o F[b]
        <5> HIDE DEF b
        <5>1. i \in 1 .. b
          BY <3>1, <4>1
        <5> QED
          BY <1>v, <4>1, <4>2, <5>1, Verbatim DEF F
      <4>4. SubSeq(text, i, b - 1) = p
        <5>1. b - 1 = i + Len(key) + 3
          BY <3>1, <4>1
        <5> QED
          BY <3>3, <5>1 DEF Occurs
      <4> HIDE DEF b, p
      <4>5. F[b] \in Seq(Symbol)
        BY <1>f, <4>1
      <4>6. H(F[i]) = variables[key] \o H(F[b])
        <5>1. Substituted(p \o F[b], E) = E[key] \o Substituted(F[b], E)
          BY <1>e, <4>5, SubKey DEF p
        <5> QED
          BY <1>e, <4>3, <4>4, <5>1
      <4>7. H(F[b]) = G[b]
        BY <1>1, <4>1
      <4>8. G[i] = variables[key] \o G[b]
        <5>1. Meets(text, W, i) /\ KeyAt(text, W, i) = key /\ Behind(text, W, i) = b
          BY <1>u, <3>1, <3>3 DEF b
        <5> QED
          BY <1>g, <1>w, <3>1, <5>1
      <4> QED
        BY <4>6, <4>7, <4>8
    <3>4. CASE ~Meets(text, V, i) /\ ~Occurs(text, i, key)
      <4>1. F[i] = <<text[i]>> \o F[i + 1] /\ F[i + 1] \in Seq(Symbol) /\ text[i] \in Symbol
        BY <1>f, <1>l, <3>1, <3>4
      <4>2. ~Meets(F[i], E, 1)
        <5>1. ~Occurs(F[i], 1, key)
          BY <1>k, <1>v, <3>1, <3>4, NoneArises DEF F
        <5> QED
          BY <1>e, <5>1, MeetsOne
      <4>3. H(F[i]) = <<text[i]>> \o H(F[i + 1])
        BY <1>e, <4>1, <4>2, SubSymbol
      <4>4. H(F[i + 1]) = G[i + 1]
        BY <1>1, <3>1
      <4>5. G[i] = <<text[i]>> \o G[i + 1]
        BY <1>g, <1>m, <3>1, <3>4
      <4> QED
        BY <4>3, <4>4, <4>5
    <3> QED
      BY <3>2, <3>3, <3>4
  <2> QED
    BY <2>1, <2>2
<1>2. L + 1 \in Nat /\ 1 \in 1 .. L + 1
  BY <1>l
<1> HIDE DEF S
<1>3. 1 \in S
  <2>1. \A i \in 1 .. L + 1 : i \in S
    BY <1>1, <1>2, Downward
  <2> QED
    BY <1>2, <2>1
<1>4. Substituted(F[1], E) = G[1]
  BY <1>3 DEF S
<1> QED
  BY <1>4, SubstitutedIs DEF F, G, V, W, E, Replaced

-----------------------------------------------------------------------------
(* One scan per variable *)

LEMMA MaxIs ==
    ASSUME NEW n \in Nat, NEW s \in SUBSET (1 .. n), s # {}
    PROVE  Max(s) \in s /\ \A y \in s : Max(s) >= y
<1> DEFINE D == {n - x : x \in s}
<1>1. D \in SUBSET Nat /\ D # {}
  <2>1. \A x \in s : n - x \in Nat
    OBVIOUS
  <2>2. PICK x \in s : TRUE
    OBVIOUS
  <2>3. n - x \in D
    OBVIOUS
  <2> QED
    BY <2>1, <2>3
<1>2. PICK d \in D : \A y \in D : d <= y
  <2> HIDE DEF D
  <2> QED
    BY <1>1, LeastNumber
<1>3. PICK x \in s : d = n - x
  OBVIOUS
<1>4. \A y \in s : x >= y
  <2> TAKE y \in s
  <2>1. n - x <= n - y
    BY <1>2, <1>3
  <2>2. x \in Nat /\ y \in Nat
    OBVIOUS
  <2> HIDE DEF D
  <2> QED
    BY <2>1, <2>2
<1> HIDE DEF D
<1> QED
  BY <1>4 DEF Max

LEMMA MaxOf ==
    ASSUME NEW n \in Nat, NEW s \in SUBSET (1 .. n), n \in s
    PROVE  Max(s) = n
<1> DEFINE x == Max(s)
<1>1. x \in s /\ x >= n
  BY MaxIs
<1> HIDE DEF x
<1>2. x \in 1 .. n
  BY <1>1
<1>3. x = n
  BY <1>1, <1>2
<1> QED
  BY <1>3 DEF x

\* The turns of the places in s, the last of them outermost.
Turn(text, variables, order, from, s) ==
    IF s = {} THEN text
    ELSE Replaced(from[s \ {Max(s)}], order[Max(s)], variables[order[Max(s)]])

Turns(text, variables, order) ==
    LET iter[s \in SUBSET DOMAIN order] ==
            IF s = {} THEN text
            ELSE Replaced(iter[s \ {Max(s)}], order[Max(s)], variables[order[Max(s)]])
    IN  iter

LEMMA RenderingsAre ==
    ASSUME NEW text, NEW variables
    PROVE  Renderings(text, variables) =
              {Turns(text, variables, order)[DOMAIN order] : order \in SetToSeqs(DOMAIN variables)}
BY DEF Renderings, FoldLeft, MapThenFoldSet, Turns

AreTurns(text, variables, order, n, f) ==
    f = [s \in SUBSET (1 .. n) |-> Turn(text, variables, order, f, s)]

LEMMA TurnsExist ==
    ASSUME NEW text, NEW variables, NEW order
    PROVE  \A n \in Nat : \E f : AreTurns(text, variables, order, n, f)
<1> DEFINE S == {n \in Nat : \E f : AreTurns(text, variables, order, n, f)}
<1>1. 0 \in S
  <2> DEFINE f == [s \in SUBSET (1 .. 0) |-> text]
  <2>1. \A s \in SUBSET (1 .. 0) : Turn(text, variables, order, f, s) = text
    BY DEF Turn
  <2>2. f = [s \in SUBSET (1 .. 0) |-> Turn(text, variables, order, f, s)]
    BY <2>1
  <2>3. AreTurns(text, variables, order, 0, f)
    BY <2>2 DEF AreTurns
  <2> QED
    BY <2>3
<1>2. ASSUME NEW n \in Nat, n \in S PROVE n + 1 \in S
  <2>1. PICK f : AreTurns(text, variables, order, n, f)
    BY <1>2
  <2>2. \A s \in SUBSET (1 .. n) : f[s] = Turn(text, variables, order, f, s)
    BY <2>1 DEF AreTurns
  <2> DEFINE m == n + 1
             g == [s \in SUBSET (1 .. m) |->
                      IF m \in s
                      THEN Replaced(f[s \ {m}], order[m], variables[order[m]])
                      ELSE f[s]]
  <2>3. \A s \in SUBSET (1 .. m) : m \notin s => s \in SUBSET (1 .. n) /\ g[s] = f[s]
    OBVIOUS
  <2>4. ASSUME NEW s \in SUBSET (1 .. m) PROVE g[s] = Turn(text, variables, order, g, s)
    <3>1. CASE m \in s
      <4>1. Max(s) = m
        <5> HIDE DEF g
        <5>1. m \in Nat
          OBVIOUS
        <5> HIDE DEF m
        <5> QED
          BY <3>1, <5>1, MaxOf
      <4>2. s \ {m} \in SUBSET (1 .. m) /\ m \notin s \ {m}
        OBVIOUS
      <4>3. g[s \ {m}] = f[s \ {m}]
        BY <2>3, <4>2
      <4>4. g[s] = Replaced(f[s \ {m}], order[m], variables[order[m]])
        BY <3>1
      <4> HIDE DEF g, m
      <4> QED
        BY <3>1, <4>1, <4>3, <4>4 DEF Turn
    <3>2. CASE m \notin s
      <4>1. s \in SUBSET (1 .. n) /\ g[s] = f[s]
        BY <2>3, <3>2
      <4>2. s \ {Max(s)} \in SUBSET (1 .. m) /\ m \notin s \ {Max(s)}
        BY <3>2
      <4>3. g[s \ {Max(s)}] = f[s \ {Max(s)}]
        BY <2>3, <4>2
      <4> HIDE DEF g, m
      <4> QED
        BY <2>2, <4>1, <4>3 DEF Turn
    <3> QED
      BY <3>1, <3>2
  <2>5. g = [s \in SUBSET (1 .. m) |-> Turn(text, variables, order, g, s)]
    BY <2>4
  <2>6. AreTurns(text, variables, order, m, g)
    BY <2>5 DEF AreTurns
  <2> HIDE DEF g
  <2> QED
    BY <2>6
<1> HIDE DEF S
<1>3. \A n \in Nat : n \in S
  BY <1>1, <1>2, Upward
<1> QED
  BY <1>3 DEF S

LEMMA TurnsFacts ==
    ASSUME NEW text, NEW variables, NEW order, NEW n \in Nat, DOMAIN order = 1 .. n
    PROVE  LET iter == Turns(text, variables, order)
           IN  /\ iter[1 .. 0] = text
               /\ \A m \in 0 .. n - 1 :
                     iter[1 .. m + 1]
                        = Replaced(iter[1 .. m], order[m + 1], variables[order[m + 1]])
<1> DEFINE iter == Turns(text, variables, order)
<1>1. \E f : AreTurns(text, variables, order, n, f)
  BY TurnsExist
<1>2. iter = CHOOSE f : AreTurns(text, variables, order, n, f)
  BY DEF Turns, Turn, AreTurns
<1> HIDE DEF iter
<1>3. AreTurns(text, variables, order, n, iter)
  BY <1>1, <1>2
<1>4. \A s \in SUBSET (1 .. n) : iter[s] = Turn(text, variables, order, iter, s)
  BY <1>3 DEF AreTurns
<1>5. iter[1 .. 0] = text
  <2>1. 1 .. 0 = {} /\ 1 .. 0 \in SUBSET (1 .. n)
    OBVIOUS
  <2> QED
    BY <1>4, <2>1, Zenon DEF Turn
<1>6. ASSUME NEW m \in 0 .. n - 1
      PROVE  iter[1 .. m + 1] = Replaced(iter[1 .. m], order[m + 1], variables[order[m + 1]])
  <2> DEFINE s == 1 .. m + 1
  <2>1. m + 1 \in s /\ s \in SUBSET (1 .. n) /\ s # {} /\ \A y \in s : y <= m + 1 /\ y \in Nat
    <3>1. m + 1 \in s
      OBVIOUS
    <3>2. \A y \in s : y <= m + 1 /\ y \in Nat /\ y \in 1 .. n
      OBVIOUS
    <3> HIDE DEF s
    <3> QED
      BY <3>1, <3>2
  <2>2. Max(s) = m + 1
    <3> HIDE DEF s
    <3> DEFINE k == m + 1
    <3>1. k \in Nat /\ k \in s /\ s \in SUBSET (1 .. k)
      BY <2>1 DEF s
    <3> HIDE DEF k
    <3>2. Max(s) = k
      BY <3>1, MaxOf
    <3> QED
      BY <3>2 DEF k
  <2>3. s \ {m + 1} = 1 .. m
    OBVIOUS
  <2> HIDE DEF s
  <2>4. iter[s] = Replaced(iter[s \ {m + 1}], order[m + 1], variables[order[m + 1]])
    BY <1>4, <2>1, <2>2, Zenon DEF Turn
  <2> QED
    BY <2>3, <2>4 DEF s
<1> QED
  BY <1>5, <1>6 DEF iter

LEMMA OrderIs ==
    ASSUME NEW K, IsFiniteSet(K), NEW order \in SetToSeqs(K)
    PROVE  \E n \in Nat :
              /\ DOMAIN order = 1 .. n
              /\ \A m \in 1 .. n : order[m] \in K
              /\ \A m \in 1 .. n : order[m] \notin {order[j] : j \in 1 .. m - 1}
              /\ {order[j] : j \in 1 .. n} = K
<1> DEFINE n == Cardinality(K)
           D == 1 .. n
<1>1. n \in Nat
  BY FS_CardinalityType
<1>2. order \in [D -> K] /\ \A i, j \in D : i # j => order[i] # order[j]
  BY Zenon DEF SetToSeqs
<1>3. IsFiniteSet(D) /\ Cardinality(D) = n
  BY <1>1, FS_Interval
<1>4. order \in Injection(D, K)
  BY <1>2 DEF Injection, IsInjective
<1>5. order \in Surjection(D, K)
  BY <1>3, <1>4, FS_Injection
<1>6. \A k \in K : \E j \in D : order[j] = k
  BY <1>5 DEF Surjection
<1>7. ASSUME NEW m \in D PROVE order[m] \notin {order[j] : j \in 1 .. m - 1}
  BY <1>1, <1>2
<1>8. {order[j] : j \in D} = K
  BY <1>2, <1>6
<1> QED
  BY <1>1, <1>2, <1>7, <1>8

LEMMA SubNothing ==
    ASSUME NEW text \in Seq(Symbol), NEW variables, Assignment(variables), DOMAIN variables = {}
    PROVE  Substituted(text, variables) = text
<1>1. <<>> \in Seq(Symbol)
  BY EmptySeq
<1>2. Substituted(text \o <<>>, variables) = text \o Substituted(<<>>, variables)
  BY <1>1, SubKept, Zenon
<1> QED
  BY <1>2, SubEmpty, ConcatEmptySeq

LEMMA RenderingType ==
    ASSUME NEW text \in Seq(Symbol), NEW K \in SUBSET Seq(Symbol), IsFiniteSet(K),
           NEW variables \in [K -> Seq(Symbol)],
           NEW done \in Renderings(text, variables)
    PROVE  done \in Seq(Symbol)
<1>1. DOMAIN variables = K
  OBVIOUS
<1>2. PICK order \in SetToSeqs(K) : done = Turns(text, variables, order)[DOMAIN order]
  BY <1>1, RenderingsAre
<1>3. PICK n \in Nat : DOMAIN order = 1 .. n /\ \A m \in 1 .. n : order[m] \in K
  BY OrderIs
<1> DEFINE iter == Turns(text, variables, order)
           S == {m \in Nat : m <= n => iter[1 .. m] \in Seq(Symbol)}
<1>4. /\ iter[1 .. 0] = text
      /\ \A m \in 0 .. n - 1 :
            iter[1 .. m + 1] = Replaced(iter[1 .. m], order[m + 1], variables[order[m + 1]])
  <2>1. DOMAIN order = 1 .. n
    BY <1>3
  <2> HIDE DEF S
  <2> QED
    BY <2>1, TurnsFacts
<1> HIDE DEF iter
<1>5. 0 \in S
  BY <1>4
<1>6. ASSUME NEW m \in Nat, m \in S PROVE m + 1 \in S
  <2> SUFFICES ASSUME m + 1 <= n PROVE iter[1 .. m + 1] \in Seq(Symbol)
    OBVIOUS
  <2>1. m \in 0 .. n - 1 /\ m + 1 \in 1 .. n /\ m <= n
    OBVIOUS
  <2> DEFINE key == order[m + 1]
  <2>2. /\ iter[1 .. m] \in Seq(Symbol)
        /\ key \in Seq(Symbol) /\ variables[key] \in Seq(Symbol)
    BY <1>3, <1>6, <2>1
  <2>3. iter[1 .. m + 1] = Replaced(iter[1 .. m], key, variables[key])
    BY <1>4, <2>1
  <2> HIDE DEF key
  <2>4. Replaced(iter[1 .. m], key, variables[key]) \in Seq(Symbol)
    BY <2>2, FromType, OneIs DEF Replaced
  <2> QED
    BY <2>3, <2>4
<1> HIDE DEF S
<1>7. n \in S
  <2>1. \A m \in Nat : m \in S
    BY <1>5, <1>6, Upward
  <2> QED
    BY <2>1
<1> QED
  BY <1>2, <1>3, <1>7 DEF iter, S

LEMMA RenderingIsSubstitution ==
    ASSUME NEW text \in Seq(Symbol), NEW K \in SUBSET Seq(Symbol), IsFiniteSet(K),
           NEW variables \in [K -> Seq(Symbol)],
           Unambiguous(text, variables), NEW done \in Renderings(text, variables)
    PROVE  done = Substituted(text, variables)
<1>1. DOMAIN variables = K /\ Assignment(variables) /\ Bare(variables) /\ Parted(text)
  <2>1. DOMAIN variables = K /\ Assignment(variables)
    BY DEF Assignment
  <2> QED
    BY <2>1, UnambiguousIs
<1>2. PICK order \in SetToSeqs(K) : done = Turns(text, variables, order)[DOMAIN order]
  BY <1>1, RenderingsAre
<1>3. PICK n \in Nat :
         /\ DOMAIN order = 1 .. n
         /\ \A m \in 1 .. n : order[m] \in K
         /\ \A m \in 1 .. n : order[m] \notin {order[j] : j \in 1 .. m - 1}
         /\ {order[j] : j \in 1 .. n} = K
  BY OrderIs
<1> DEFINE iter == Turns(text, variables, order)
           First(m) == {order[j] : j \in 1 .. m}
           S == {m \in Nat : m <= n => iter[1 .. m] = Substituted(text, Only(variables, First(m)))}
<1>4. /\ iter[1 .. 0] = text
      /\ \A m \in 0 .. n - 1 :
            iter[1 .. m + 1] = Replaced(iter[1 .. m], order[m + 1], variables[order[m + 1]])
  <2>1. DOMAIN order = 1 .. n
    BY <1>3
  <2> HIDE DEF First
  <2> QED
    BY <2>1, TurnsFacts
<1> HIDE DEF iter
<1>5. 0 \in S
  <2>1. First(0) = {}
    OBVIOUS
  <2>2. DOMAIN Only(variables, {}) = {} /\ Assignment(Only(variables, {}))
    BY <1>1, OnlyIs
  <2>3. Substituted(text, Only(variables, {})) = text
    BY <2>2, SubNothing
  <2> QED
    BY <1>4, <2>1, <2>3
<1>6. ASSUME NEW m \in Nat, m \in S PROVE m + 1 \in S
  <2> SUFFICES ASSUME m + 1 <= n
               PROVE  iter[1 .. m + 1] = Substituted(text, Only(variables, First(m + 1)))
    OBVIOUS
  <2>1. m \in 0 .. n - 1 /\ m + 1 \in 1 .. n /\ m + 1 - 1 = m /\ m <= n
    OBVIOUS
  <2>2. iter[1 .. m] = Substituted(text, Only(variables, First(m)))
    BY <1>6, <2>1
  <2>3. order[m + 1] \in K /\ order[m + 1] \notin First(m)
    BY <1>3, <2>1
  <2>4. First(m) \in SUBSET K
    BY <1>3, <2>1
  <2>5. First(m + 1) = First(m) \cup {order[m + 1]}
    <3>1. \A j \in 1 .. m + 1 : j \in 1 .. m \/ j = m + 1
      OBVIOUS
    <3>2. \A j \in 1 .. m : j \in 1 .. m + 1
      OBVIOUS
    <3>3. m + 1 \in 1 .. m + 1
      OBVIOUS
    <3> QED
      BY <3>1, <3>2, <3>3
  <2>6. iter[1 .. m + 1] = Replaced(iter[1 .. m], order[m + 1], variables[order[m + 1]])
    BY <1>4, <2>1
  <2> DEFINE key == order[m + 1]
             keys == First(m)
  <2> HIDE DEF First, key, keys
  <2>7. Replaced(Substituted(text, Only(variables, keys)), key, variables[key])
           = Substituted(text, Only(variables, keys \cup {key}))
    <3>1. keys \in SUBSET DOMAIN variables /\ key \in DOMAIN variables \ keys
      BY <1>1, <2>3, <2>4 DEF key, keys
    <3> QED
      BY <1>1, <3>1, OneMore
  <2> QED
    BY <2>2, <2>5, <2>6, <2>7, Zenon DEF key, keys
<1> HIDE DEF S
<1>7. n \in S
  <2>1. \A m \in Nat : m \in S
    BY <1>5, <1>6, Upward
  <2> QED
    BY <2>1
<1>8. iter[1 .. n] = Substituted(text, Only(variables, K))
  <2>1. First(n) = K
    BY <1>3
  <2>2. iter[1 .. n] = Substituted(text, Only(variables, First(n)))
    BY <1>7 DEF S
  <2> QED
    BY <2>1, <2>2, Zenon
<1>9. Only(variables, K) = variables
  BY DEF Only
<1> QED
  BY <1>2, <1>3, <1>8, <1>9 DEF iter

LEMMA OrderExists ==
    ASSUME NEW K, IsFiniteSet(K)
    PROVE  SetToSeqs(K) # {}
<1>1. ExistsBijection(1 .. Cardinality(K), K)
  BY FS_CardinalityType
<1>2. PICK order : order \in Bijection(1 .. Cardinality(K), K)
  BY <1>1, Zenon DEF ExistsBijection
<1>3. /\ order \in [1 .. Cardinality(K) -> K]
      /\ \A i, j \in 1 .. Cardinality(K) : order[i] = order[j] => i = j
  BY <1>2, Zenon DEF Bijection, Injection, IsInjective
<1>4. order \in SetToSeqs(K)
  BY <1>3, Zenon DEF SetToSeqs
<1> QED
  BY <1>4

\* Whatever the order in which Render of the template service (service.go of
\* notificationtemplate) walks the map of the variables, it returns what one
\* substitution of all of them returns, if keys and values have no braces and
\* a "}}" stands between any two "{{" of the text: for every such text,
\* single braces in it or not, and any such variables.
THEOREM RenderIsSubstitution ==
    ASSUME NEW text \in Seq(Symbol), NEW K \in SUBSET Seq(Symbol), IsFiniteSet(K),
           NEW variables \in [K -> Seq(Symbol)], Unambiguous(text, variables)
    PROVE  Renderings(text, variables) = {Substituted(text, variables)}
<1>1. \A done \in Renderings(text, variables) : done = Substituted(text, variables)
  BY RenderingIsSubstitution
<1>2. Renderings(text, variables) # {}
  <2>1. DOMAIN variables = K
    OBVIOUS
  <2> QED
    BY <2>1, OrderExists, RenderingsAre
<1> QED
  BY <1>1, <1>2

=============================================================================
