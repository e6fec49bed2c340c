---------------------------- MODULE LimitsProofs ----------------------------
(***************************************************************************)
(* Both limiters decide as a sliding window, for every number of addresses *)
(* and registrations and every limit and window.  What the pruning loop    *)
(* keeps of a list is a recursive function; the facts about it are proved  *)
(* by induction on the list, one stamp at its end at a time.               *)
(***************************************************************************)
EXTENDS Limits, SequenceTheorems, SumsProofs

(* A set of lists that has the empty one, and with every list each of its  *)
(* extensions by one element, has them all.                                *)
LEMMA SeqInduction ==
    ASSUME NEW S, NEW W, <<>> \in W,
           \A s \in Seq(S), x \in S : s \in W => Append(s, x) \in W
    PROVE  Seq(S) \subseteq W
<1> DEFINE N == {n \in Nat : \A s \in Seq(S) : Len(s) = n => s \in W}
<1>1. 0 \in N
  BY EmptySeq
<1>2. ASSUME NEW n \in Nat, n \in N  PROVE n + 1 \in N
  <2> SUFFICES ASSUME NEW s \in Seq(S), Len(s) = n + 1  PROVE s \in W
    OBVIOUS
  <2>1. s # <<>>
    BY EmptySeq
  <2>2. PICK t \in Seq(S), x \in S : s = Append(t, x)
    BY <2>1, SequenceEmptyOrAppend
  <2>3. Len(t) = n
    BY <2>2, AppendProperties, LenProperties
  <2>4. t \in W
    BY <1>2, <2>3
  <2> QED  BY <2>2, <2>4
<1>3. Nat \subseteq N
  <2> HIDE DEF N
  <2> QED  BY <1>1, <1>2, NatSetInduction
<1> QED  BY <1>3, LenProperties

-----------------------------------------------------------------------------
(* The loop that prunes, unfolded: the function it is defined by exists    *)
(* and is the only one.                                                    *)

KeepStep(s, w, g, i) ==
    IF i = 0 THEN <<>> ELSE IF s[i] < w THEN Append(g[i - 1], s[i]) ELSE g[i - 1]
IsKept(s, w, n, g) == g = [i \in 0..n |-> KeepStep(s, w, g, i)]
Kept(s, w)         == CHOOSE g : IsKept(s, w, Len(s), g)

(* Valid is the last value of the loop over the stamps.                    *)
LEMMA ValidUnfolded ==
    ASSUME NEW s, NEW w
    PROVE  Valid(s, w) = Kept(s, w)[Len(s)]
BY DEF Valid, Kept, IsKept, KeepStep

(* There is a function that satisfies the equations of the loop up to any  *)
(* index, by induction on it.                                              *)
LEMMA KeptExists ==
    ASSUME NEW s, NEW w, NEW n \in Nat
    PROVE  \E g : IsKept(s, w, n, g)
<1> DEFINE W == {k \in Nat : \E g : IsKept(s, w, k, g)}
<1>1. 0 \in W
  <2> DEFINE g == [i \in 0..0 |-> <<>>]
  <2>1. IsKept(s, w, 0, g)
    BY DEF IsKept, KeepStep
  <2> HIDE DEF g
  <2> QED  BY <2>1
<1>2. ASSUME NEW k \in Nat, k \in W  PROVE k + 1 \in W
  <2>1. PICK g : IsKept(s, w, k, g)
    BY <1>2
  <2> DEFINE h == [i \in 0..(k + 1) |-> IF i = k + 1 THEN KeepStep(s, w, g, k + 1) ELSE g[i]]
  <2>2. ASSUME NEW i \in 0..(k + 1)  PROVE h[i] = KeepStep(s, w, h, i)
    <3>1. CASE i = k + 1
      <4>1. h[k] = g[k]
        OBVIOUS
      <4>2. (k + 1) - 1 = k
        OBVIOUS
      <4> QED  BY <3>1, <4>1, <4>2 DEF KeepStep
    <3>2. CASE i # k + 1
      <4>1. i \in 0..k
        BY <3>2
      <4>2. g[i] = KeepStep(s, w, g, i)
        BY <2>1, <4>1 DEF IsKept
      <4>3. i # 0 => h[i - 1] = g[i - 1]
        BY <4>1
      <4>4. h[i] = g[i]
        BY <3>2
      <4> HIDE DEF h
      <4> QED  BY <4>2, <4>3, <4>4 DEF KeepStep
    <3> QED  BY <3>1, <3>2
  <2>3. h = [i \in 0..(k + 1) |-> h[i]]
    OBVIOUS
  <2> HIDE DEF h
  <2>4. IsKept(s, w, k + 1, h)
    BY <2>2, <2>3 DEF IsKept
  <2> QED  BY <2>4
<1>3. Nat \subseteq W
  <2> HIDE DEF W
  <2> QED  BY <1>1, <1>2, NatSetInduction
<1> QED  BY <1>3

(* Such a function satisfies the equation at every index.                  *)
LEMMA KeptAt ==
    ASSUME NEW s, NEW w, NEW n, NEW g, IsKept(s, w, n, g), NEW i \in 0..n
    PROVE  g[i] = KeepStep(s, w, g, i)
<1>1. PICK f : f = [j \in 0..n |-> KeepStep(s, w, g, j)]
  OBVIOUS
<1>2. g = f
  BY <1>1 DEF IsKept
<1>3. f[i] = KeepStep(s, w, g, i)
  BY <1>1
<1> QED  BY <1>2, <1>3

(* The function the definition chooses is such a function.                 *)
LEMMA KeptIsKept ==
    ASSUME NEW s, NEW w, Len(s) \in Nat
    PROVE  IsKept(s, w, Len(s), Kept(s, w))
<1>1. \E g : IsKept(s, w, Len(s), g)
  BY KeptExists
<1> QED  BY <1>1 DEF Kept

(* The loop gives the same result for lists that agree so far.             *)
LEMMA KeptAgree ==
    ASSUME NEW s, NEW t, NEW w, NEW n \in Nat, NEW m \in Nat, n <= m, NEW g, NEW h,
           IsKept(s, w, n, g), IsKept(t, w, m, h), \A i \in 1..n : s[i] = t[i]
    PROVE  g[n] = h[n]
<1> DEFINE W == {k \in Nat : k <= n => g[k] = h[k]}
<1>0. /\ \A i \in 0..n : g[i] = KeepStep(s, w, g, i)
      /\ \A i \in 0..n : h[i] = KeepStep(t, w, h, i)
  <2>1. \A i \in 0..n : i \in 0..m
    OBVIOUS
  <2> QED  BY <2>1, KeptAt
<1>1. 0 \in W
  BY <1>0 DEF KeepStep
<1>2. ASSUME NEW k \in Nat, k \in W  PROVE k + 1 \in W
  <2> SUFFICES ASSUME k + 1 <= n  PROVE g[k + 1] = h[k + 1]
    OBVIOUS
  <2>1. g[k] = h[k] /\ s[k + 1] = t[k + 1]
    BY <1>2
  <2>2. k + 1 \in 0..n /\ k + 1 # 0 /\ (k + 1) - 1 = k
    OBVIOUS
  <2>3. /\ g[k + 1] = IF s[k + 1] < w THEN Append(g[k], s[k + 1]) ELSE g[k]
        /\ h[k + 1] = IF t[k + 1] < w THEN Append(h[k], t[k + 1]) ELSE h[k]
    BY <1>0, <2>2 DEF KeepStep
  <2> QED  BY <2>1, <2>3
<1>3. Nat \subseteq W
  <2> HIDE DEF W
  <2> QED  BY <1>1, <1>2, NatSetInduction
<1> QED  BY <1>3

-----------------------------------------------------------------------------
(* What is kept of a list. *)

(* Nothing is kept of an empty list.                                       *)
LEMMA ValidEmpty ==
    ASSUME NEW w
    PROVE  Valid(<<>>, w) = <<>>
<1>1. Len(<<>>) = 0
  OBVIOUS
<1>2. IsKept(<<>>, w, 0, Kept(<<>>, w))
  BY <1>1, KeptIsKept
<1>3. Kept(<<>>, w)[0] = <<>>
  BY <1>2 DEF IsKept, KeepStep
<1> QED  BY <1>1, <1>3, ValidUnfolded

(* A stamp at the end of the list is kept when it is young enough.         *)
LEMMA ValidAppend ==
    ASSUME NEW S, NEW s \in Seq(S), NEW x \in S, NEW w
    PROVE  Valid(Append(s, x), w)
             = IF x < w THEN Append(Valid(s, w), x) ELSE Valid(s, w)
<1> DEFINE t == Append(s, x)
           n == Len(s)
           g == Kept(s, w)
           h == Kept(t, w)
<1>1. n \in Nat /\ Len(t) = n + 1 /\ t[n + 1] = x /\ \A i \in 1..n : s[i] = t[i]
  BY LenProperties, AppendProperties
<1>2. IsKept(s, w, n, g) /\ IsKept(t, w, n + 1, h)
  <2>1. Len(s) \in Nat /\ Len(t) \in Nat
    BY <1>1
  <2> HIDE DEF t
  <2>2. IsKept(s, w, Len(s), Kept(s, w)) /\ IsKept(t, w, Len(t), Kept(t, w))
    BY <2>1, KeptIsKept
  <2> QED  BY <1>1, <2>2
<1>3. Valid(s, w) = g[n] /\ Valid(t, w) = h[n + 1]
  BY <1>1, ValidUnfolded
<1> HIDE DEF t, n, g, h
<1>4. g[n] = h[n]
  BY <1>1, <1>2, KeptAgree
<1>5. h[n + 1] = KeepStep(t, w, h, n + 1)
  BY <1>1, <1>2, KeptAt
<1>6. n + 1 # 0 /\ (n + 1) - 1 = n
  BY <1>1
<1>7. h[n + 1] = IF x < w THEN Append(h[n], x) ELSE h[n]
  BY <1>1, <1>5, <1>6 DEF KeepStep
<1> QED  BY <1>3, <1>4, <1>7 DEF t

(* Only stamps after the cutoff are kept, and no more than there were.     *)
LEMMA ValidType ==
    ASSUME NEW S, NEW s \in Seq(S), NEW w
    PROVE  Valid(s, w) \in Seq({x \in S : x < w}) /\ Len(Valid(s, w)) <= Len(s)
<1> DEFINE R == {x \in S : x < w}
           W == {v \in Seq(S) : Valid(v, w) \in Seq(R) /\ Len(Valid(v, w)) <= Len(v)}
<1>1. <<>> \in W
  <2>1. <<>> \in Seq(S) /\ <<>> \in Seq(R) /\ Len(<<>>) = 0
    <3> HIDE DEF R
    <3> QED  BY EmptySeq
  <2>2. Valid(<<>>, w) = <<>>
    BY ValidEmpty
  <2>3. PICK e : e = <<>>
    OBVIOUS
  <2>4. e \in Seq(S) /\ Valid(e, w) \in Seq(R) /\ Len(Valid(e, w)) <= Len(e)
    <3>1. Len(e) = 0 /\ e \in Seq(S) /\ e \in Seq(R) /\ Valid(e, w) = e
      BY <2>1, <2>2, <2>3
    <3> HIDE DEF R
    <3> QED  BY <3>1
  <2>5. e \in W
    BY <2>4
  <2> QED  BY <2>3, <2>5
<1>2. ASSUME NEW v \in Seq(S), NEW x \in S, v \in W  PROVE Append(v, x) \in W
  <2>1. Valid(v, w) \in Seq(R) /\ Len(Valid(v, w)) <= Len(v)
    BY <1>2
  <2>2. Append(v, x) \in Seq(S) /\ Len(Append(v, x)) = Len(v) + 1 /\ Len(v) \in Nat
    BY AppendProperties, LenProperties
  <2>3. CASE x < w
    <3>1. x \in R
      BY <2>3
    <3>2. Valid(Append(v, x), w) = Append(Valid(v, w), x)
      BY <2>3, ValidAppend
    <3> HIDE DEF R
    <3>3. /\ Append(Valid(v, w), x) \in Seq(R)
          /\ Len(Append(Valid(v, w), x)) = Len(Valid(v, w)) + 1
          /\ Len(Valid(v, w)) \in Nat
      BY <2>1, <3>1, AppendProperties, LenProperties
    <3> QED  BY <2>1, <2>2, <3>2, <3>3
  <2>4. CASE ~(x < w)
    <3>1. Valid(Append(v, x), w) = Valid(v, w)
      BY <2>4, ValidAppend
    <3> HIDE DEF R
    <3>2. Len(Valid(v, w)) \in Nat
      BY <2>1, LenProperties
    <3> QED  BY <2>1, <2>2, <3>1, <3>2
  <2> QED  BY <2>3, <2>4
<1>3. Seq(S) \subseteq W
  <2> HIDE DEF W
  <2> QED  BY <1>1, <1>2, SeqInduction
<1> QED  BY <1>3

(* What is kept of a list of ages is a list of ages.                       *)
LEMMA ValidNat ==
    ASSUME NEW s \in Seq(Nat), NEW w
    PROVE  Valid(s, w) \in Seq(Nat)
<1> DEFINE R == {x \in Nat : x < w}
<1>1. Valid(s, w) \in Seq(R)
  BY ValidType
<1>2. R \subseteq Nat
  OBVIOUS
<1> HIDE DEF R
<1> QED  BY <1>1, <1>2, SeqMonotonic

(* Pruning with an older cutoff first makes no difference.                 *)
LEMMA ValidTwice ==
    ASSUME NEW s \in Seq(Nat), NEW v \in Nat, NEW w \in Nat, w <= v
    PROVE  Valid(Valid(s, v), w) = Valid(s, w)
<1> DEFINE W == {t \in Seq(Nat) : Valid(Valid(t, v), w) = Valid(t, w)}
<1>1. <<>> \in W
  BY ValidEmpty, EmptySeq
<1>2. ASSUME NEW t \in Seq(Nat), NEW x \in Nat, t \in W  PROVE Append(t, x) \in W
  <2>1. Append(t, x) \in Seq(Nat)
    BY AppendProperties
  <2>2. Valid(t, v) \in Seq(Nat)
    BY ValidNat
  <2>3. Valid(Valid(t, v), w) = Valid(t, w)
    BY <1>2
  <2>4. Valid(Append(t, x), w) = IF x < w THEN Append(Valid(t, w), x) ELSE Valid(t, w)
    BY ValidAppend
  <2>5. CASE x < v
    <3>1. Valid(Append(t, x), v) = Append(Valid(t, v), x)
      BY <2>5, ValidAppend
    <3>2. Valid(Append(Valid(t, v), x), w)
            = IF x < w THEN Append(Valid(Valid(t, v), w), x) ELSE Valid(Valid(t, v), w)
      BY <2>2, ValidAppend
    <3> QED  BY <2>1, <2>3, <2>4, <3>1, <3>2
  <2>6. CASE ~(x < v)
    <3>1. Valid(Append(t, x), v) = Valid(t, v)
      BY <2>6, ValidAppend
    <3>2. ~(x < w)
      BY <2>6
    <3> QED  BY <2>1, <2>3, <2>4, <3>1, <3>2
  <2> QED  BY <2>5, <2>6
<1>3. Seq(Nat) \subseteq W
  <2> HIDE DEF W
  <2> QED  BY <1>1, <1>2, SeqInduction
<1> QED  BY <1>3

-----------------------------------------------------------------------------
(* A list that gets older. *)

OneOlder(x, m) == IF x < m THEN x + 1 ELSE m

(* Growing older keeps the range of ages and the length of a list.         *)
LEMMA OlderType ==
    ASSUME NEW m \in Nat, NEW s \in Seq(0..m)
    PROVE  Older(s, m) \in Seq(0..m) /\ Len(Older(s, m)) = Len(s)
<1>1. Len(s) \in Nat /\ DOMAIN s = 1..Len(s) /\ \A i \in 1..Len(s) : s[i] \in 0..m
  BY LenProperties
<1>2. Older(s, m) \in [1..Len(s) -> 0..m]
  BY <1>1 DEF Older
<1>3. Older(s, m) \in Seq(0..m)
  BY <1>1, <1>2, SeqDef
<1> QED  BY <1>1, <1>2, <1>3, LenProperties

(* Growing older works stamp by stamp.                                     *)
LEMMA OlderAppend ==
    ASSUME NEW s \in Seq(Nat), NEW x \in Nat, NEW m \in Nat
    PROVE  /\ Older(s, m) \in Seq(Nat)
           /\ Older(Append(s, x), m) = Append(Older(s, m), OneOlder(x, m))
<1> DEFINE t == Append(s, x)
           n == Len(s)
           a == Older(s, m)
           b == Older(t, m)
<1>1. n \in Nat /\ DOMAIN s = 1..n /\ \A i \in 1..n : s[i] \in Nat
  BY LenProperties
<1>2. t \in Seq(Nat) /\ Len(t) = n + 1 /\ DOMAIN t = 1..(n + 1)
      /\ t[n + 1] = x /\ \A i \in 1..n : t[i] = s[i]
  BY AppendProperties, LenProperties
<1>3. a \in [1..n -> Nat] /\ b \in [1..(n + 1) -> Nat]
  <2>1. \A i \in 1..(n + 1) : t[i] \in Nat
    BY <1>2, LenProperties
  <2> HIDE DEF t, n
  <2> QED  BY <1>1, <1>2, <2>1 DEF Older
<1>4. a \in Seq(Nat) /\ b \in Seq(Nat)
  <2>1. n + 1 \in Nat
    BY <1>1
  <2> HIDE DEF a, b, n
  <2>2. a \in UNION {[1..k -> Nat] : k \in Nat} /\ b \in UNION {[1..k -> Nat] : k \in Nat}
    BY <1>1, <1>3, <2>1
  <2> QED  BY <2>2, SeqDef
<1>5. Len(a) = n /\ Len(b) = n + 1
  BY <1>1, <1>3, <1>4, LenProperties
<1>6. OneOlder(x, m) \in Nat
  BY DEF OneOlder
<1>7. /\ Append(a, OneOlder(x, m)) \in Seq(Nat)
      /\ Len(Append(a, OneOlder(x, m))) = n + 1
      /\ Append(a, OneOlder(x, m))[n + 1] = OneOlder(x, m)
      /\ \A i \in 1..n : Append(a, OneOlder(x, m))[i] = a[i]
  <2> HIDE DEF a, n
  <2> QED  BY <1>4, <1>5, <1>6, AppendProperties
<1>8. ASSUME NEW i \in 1..(n + 1)  PROVE b[i] = Append(a, OneOlder(x, m))[i]
  <2>1. CASE i = n + 1
    BY <1>1, <1>2, <1>7, <2>1 DEF Older, OneOlder
  <2>2. CASE i # n + 1
    <3>1. i \in 1..n
      BY <1>1, <2>2
    <3>2. a[i] = OneOlder(s[i], m) /\ b[i] = OneOlder(t[i], m)
      BY <1>1, <1>2, <3>1 DEF Older, OneOlder
    <3> QED  BY <1>2, <1>7, <3>1, <3>2
  <2> QED  BY <2>1, <2>2
<1> HIDE DEF a, b, n
<1>9. b = Append(a, OneOlder(x, m))
  BY <1>4, <1>5, <1>7, <1>8, SeqEqual
<1> QED  BY <1>4, <1>9 DEF a, b, t

(* A stamp that is out of the window stays out of it: of a list that gets  *)
(* older the same is kept whether or not it was pruned before, and         *)
(* wherever ages stop growing.                                             *)
LEMMA ValidOlder ==
    ASSUME NEW s \in Seq(Nat), NEW m \in Nat, NEW w \in Nat, w <= m
    PROVE  Valid(Older(s, m), w) = Valid(Older(Valid(s, w), w), w)
<1> DEFINE W == {t \in Seq(Nat) : Valid(Older(t, m), w) = Valid(Older(Valid(t, w), w), w)}
<1>1. <<>> \in W
  <2>1. Older(<<>>, m) = <<>> /\ Older(<<>>, w) = <<>>
    BY DEF Older
  <2> QED  BY <2>1, ValidEmpty, EmptySeq
<1>2. ASSUME NEW t \in Seq(Nat), NEW x \in Nat, t \in W  PROVE Append(t, x) \in W
  <2> DEFINE u == Valid(t, w)
  <2>1. Append(t, x) \in Seq(Nat)
    BY AppendProperties
  <2>2. u \in Seq(Nat)
    BY ValidNat
  <2>3. Valid(Older(t, m), w) = Valid(Older(u, w), w)
    BY <1>2
  <2>4. OneOlder(x, m) \in Nat /\ OneOlder(x, w) \in Nat
    BY DEF OneOlder
  <2>5. Valid(Append(t, x), w) = IF x < w THEN Append(u, x) ELSE u
    BY ValidAppend
  <2> HIDE DEF u
  <2>6. Valid(Older(Append(t, x), m), w)
          = IF OneOlder(x, m) < w THEN Append(Valid(Older(t, m), w), OneOlder(x, m))
            ELSE Valid(Older(t, m), w)
    <3>1. /\ Older(t, m) \in Seq(Nat)
          /\ Older(Append(t, x), m) = Append(Older(t, m), OneOlder(x, m))
      BY OlderAppend
    <3> DEFINE o == Older(t, m)
               y == OneOlder(x, m)
    <3> HIDE DEF o, y
    <3>2. o \in Seq(Nat) /\ y \in Nat
      BY <2>4, <3>1 DEF o, y
    <3>3. Valid(Append(o, y), w) = IF y < w THEN Append(Valid(o, w), y) ELSE Valid(o, w)
      BY <3>2, ValidAppend
    <3> QED  BY <3>1, <3>3 DEF o, y
  <2>7. CASE x < w
    <3>1. OneOlder(x, m) = OneOlder(x, w)
      BY <2>7 DEF OneOlder
    <3>2. /\ Older(u, w) \in Seq(Nat)
          /\ Older(Append(u, x), w) = Append(Older(u, w), OneOlder(x, w))
      BY <2>2, OlderAppend
    <3>3. Valid(Older(Append(u, x), w), w)
            = IF OneOlder(x, w) < w THEN Append(Valid(Older(u, w), w), OneOlder(x, w))
              ELSE Valid(Older(u, w), w)
      <4> DEFINE o == Older(u, w)
                 y == OneOlder(x, w)
      <4> HIDE DEF o, y
      <4>1. o \in Seq(Nat) /\ y \in Nat
        BY <2>4, <3>2 DEF o, y
      <4>2. Valid(Append(o, y), w) = IF y < w THEN Append(Valid(o, w), y) ELSE Valid(o, w)
        BY <4>1, ValidAppend
      <4> QED  BY <3>2, <4>2 DEF o, y
    <3>4. Valid(Append(t, x), w) = Append(u, x)
      BY <2>5, <2>7
    <3>5. Valid(Older(Append(t, x), m), w) = Valid(Older(Valid(Append(t, x), w), w), w)
      BY <2>3, <2>6, <3>1, <3>3, <3>4
    <3> QED  BY <2>1, <3>5
  <2>8. CASE ~(x < w)
    <3>1. ~(OneOlder(x, m) < w)
      BY <2>8 DEF OneOlder
    <3>2. Valid(Older(Append(t, x), m), w) = Valid(Older(Valid(Append(t, x), w), w), w)
      BY <2>3, <2>5, <2>6, <2>8, <3>1
    <3> QED  BY <2>1, <3>2
  <2> QED  BY <2>7, <2>8
<1>3. Seq(Nat) \subseteq W
  <2> HIDE DEF W
  <2> QED  BY <1>1, <1>2, SeqInduction
<1> QED  BY <1>3

-----------------------------------------------------------------------------
(* One address. *)

(* What a limiter stores when the address asks, and what the history adds: *)
(* the list stays what it would be if it were pruned at every instant.     *)
LEMMA StampedKeepsWindow ==
    ASSUME NEW s \in Seq(Nat), NEW w \in Nat \ {0}, NEW limit \in Nat,
           Len(Valid(s, w)) <= limit
    PROVE  /\ Valid(Stamped(s, w, limit), w)
                = IF HasRoom(s, w, limit) THEN Append(Valid(s, w), 0) ELSE Valid(s, w)
           /\ Len(Valid(Stamped(s, w, limit), w)) <= limit
<1> DEFINE v == Valid(s, w)
<1>1. v \in Seq(Nat) /\ Valid(v, w) = v /\ Len(v) \in Nat /\ Len(v) <= limit
  BY ValidNat, ValidTwice, LenProperties
<1>2. HasRoom(s, w, limit) <=> Len(v) < limit
  BY DEF HasRoom
<1>3. Stamped(s, w, limit) = IF HasRoom(s, w, limit) THEN Append(v, 0) ELSE v
  BY DEF Stamped
<1> HIDE DEF v
<1>4. Valid(Append(v, 0), w) = Append(v, 0)
  <2>1. 0 < w
    OBVIOUS
  <2>2. Valid(Append(v, 0), w) = IF 0 < w THEN Append(Valid(v, w), 0) ELSE Valid(v, w)
    BY <1>1, ValidAppend
  <2> QED  BY <1>1, <2>1, <2>2
<1>5. Len(Append(v, 0)) = Len(v) + 1
  BY <1>1, AppendProperties
<1>6. CASE HasRoom(s, w, limit)
  BY <1>1, <1>2, <1>3, <1>4, <1>5, <1>6 DEF v
<1>7. CASE ~HasRoom(s, w, limit)
  BY <1>1, <1>3, <1>7 DEF v
<1> QED  BY <1>6, <1>7

(* A list with room gets a stamp of age 0, within the range of its ages.   *)
LEMMA StampedType ==
    ASSUME NEW m \in Nat, NEW s \in Seq(0..m), NEW w, NEW limit
    PROVE  Stamped(s, w, limit) \in Seq(0..m)
<1> DEFINE S == 0..m
           R == {x \in S : x < w}
<1>1. Valid(s, w) \in Seq(R)
  BY ValidType
<1>2. R \subseteq S /\ 0 \in S
  OBVIOUS
<1> HIDE DEF S, R
<1>3. Valid(s, w) \in Seq(S)
  BY <1>1, <1>2, SeqMonotonic
<1>4. Append(Valid(s, w), 0) \in Seq(S)
  BY <1>2, <1>3, AppendProperties
<1> QED  BY <1>3, <1>4 DEF Stamped, S

(* What is kept of a list stays within the range of its ages.              *)
LEMMA PrunedType ==
    ASSUME NEW m \in Nat, NEW s \in Seq(0..m), NEW w
    PROVE  Valid(s, w) \in Seq(0..m)
<1> DEFINE S == 0..m
           R == {x \in S : x < w}
<1>1. Valid(s, w) \in Seq(R)
  BY ValidType
<1>2. R \subseteq S
  OBVIOUS
<1> HIDE DEF S, R
<1>3. Valid(s, w) \in Seq(S)
  BY <1>1, <1>2, SeqMonotonic
<1> QED  BY <1>3 DEF S

(* Ages up to a bound are naturals.                                        *)
LEMMA AgesAreNat ==
    ASSUME NEW m \in Nat, NEW s \in Seq(0..m)
    PROVE  s \in Seq(Nat)
<1> DEFINE S == 0..m
<1>1. S \subseteq Nat /\ s \in Seq(S)
  OBVIOUS
<1> HIDE DEF S
<1> QED  BY <1>1, SeqMonotonic

(* A tick, for the list and for the history of one address.                *)
LEMMA TickKeepsWindow ==
    ASSUME NEW m \in Nat, NEW s \in Seq(0..m), NEW w \in Nat, w <= m, NEW limit \in Nat,
           NEW h, h = Valid(s, w), Len(h) <= limit
    PROVE  /\ Valid(Older(h, w), w) = Valid(Older(s, m), w)
           /\ Len(Valid(Older(h, w), w)) <= limit
<1>1. s \in Seq(Nat)
  BY AgesAreNat
<1>2. Valid(Older(s, m), w) = Valid(Older(h, w), w)
  BY <1>1, ValidOlder
<1>3. h \in Seq(0..w)
  <2> DEFINE S == 0..m
             R == {x \in S : x < w}
             T == 0..w
  <2>1. h \in Seq(R)
    BY ValidType
  <2>2. R \subseteq T
    OBVIOUS
  <2> HIDE DEF R, T
  <2>3. h \in Seq(T)
    BY <2>1, <2>2, SeqMonotonic
  <2> QED  BY <2>3 DEF T
<1>4. Older(h, w) \in Seq(0..w) /\ Len(Older(h, w)) = Len(h)
  BY <1>3, OlderType
<1>5. Len(Valid(Older(h, w), w)) <= Len(Older(h, w))
  BY <1>4, ValidType
<1>6. Len(Valid(Older(h, w), w)) \in Nat /\ Len(h) \in Nat
  <2>1. Older(h, w) \in Seq(Nat)
    BY <1>4, AgesAreNat
  <2>2. Valid(Older(h, w), w) \in Seq(Nat)
    BY <2>1, ValidNat
  <2> QED  BY <1>3, <2>2, LenProperties
<1> QED  BY <1>2, <1>4, <1>5, <1>6

-----------------------------------------------------------------------------
(* The invariant. *)

(* The parts of LimitsInv about one address.                               *)
WindowOf(a)    == recent[a] = Valid(requests[a], Window) /\ Len(recent[a]) <= Limit
RegWindowOf(a) == regRecent[a] = Valid(regLimit[a], RegWindow) /\ Len(regRecent[a]) <= RegLimit

(* The invariant, address by address.                                      *)
LEMMA InvParts == LimitsInv <=> TypeOK /\ \A a \in Addresses : WindowOf(a) /\ RegWindowOf(a)
BY DEF LimitsInv, WindowOf, RegWindowOf

(* The history of an address is a list of ages inside the window.          *)
LEMMA HistoryType ==
    ASSUME NEW m \in Nat, NEW w \in Nat, NEW s \in Seq(0..m)
    PROVE  Valid(s, w) \in Seq(0..(w - 1))
<1> DEFINE S == 0..m
           R == {x \in S : x < w}
           T == 0..(w - 1)
<1>1. Valid(s, w) \in Seq(R)
  BY ValidType
<1>2. R \subseteq T
  OBVIOUS
<1> HIDE DEF R, T
<1>3. Valid(s, w) \in Seq(T)
  BY <1>1, <1>2, SeqMonotonic
<1> QED  BY <1>3 DEF T

(* The types of the four maps, from the windows: what else a step changes  *)
(* is a matter of the step.                                                *)
MapsOK ==
    /\ requests \in [Addresses -> Seq(0..Window)]
    /\ regLimit \in [Addresses -> Seq(0..(RegWindow + MaxLag))]
    /\ recent \in [Addresses -> Seq(0..(Window - 1))]
    /\ regRecent \in [Addresses -> Seq(0..(RegWindow - 1))]
    /\ \A a \in Addresses : WindowOf(a) /\ RegWindowOf(a)

RestOK ==
    /\ lag \in -1..MaxLag
    /\ reg \in [Registrations -> RegStates]
    /\ \A r \in apiKeys : r \in Registrations /\ reg[r] = "returned"
    /\ restarts \in 0..MaxRestarts

(* The invariant in two parts: the lists of stamps, and the rest.          *)
LEMMA InvSplit == LimitsInv <=> MapsOK /\ RestOK
BY InvParts DEF TypeOK, MapsOK, RestOK

(* The constants are naturals, the windows positive.                       *)
LEMMA Bounds ==
    /\ Window \in Nat \ {0} /\ RegWindow \in Nat \ {0} /\ MaxLag \in Nat
    /\ RegWindow + MaxLag \in Nat /\ Limit \in Nat /\ RegLimit \in Nat
BY LimitsAssumption

(* Allow: RateLimiter.requests and its history.                            *)
LEMMA AllowKeepsMaps ==
    ASSUME MapsOK, NEW a \in Addresses, Allow(a), UNCHANGED regVars
    PROVE  MapsOK'
<1> DEFINE s == requests[a]
           h == recent[a]
           t == Stamped(s, Window, Limit)
           g == IF HasRoom(s, Window, Limit) THEN Append(h, 0) ELSE h
<1>1. s \in Seq(0..Window) /\ h = Valid(s, Window) /\ Len(h) <= Limit
      /\ h \in Seq(0..(Window - 1))
  BY DEF MapsOK, WindowOf
<1>2. requests' = [requests EXCEPT ![a] = t]
  BY DEF Allow
<1>3. recent' = [recent EXCEPT ![a] = g]
  BY DEF Allow, MapsOK
<1>4. t \in Seq(0..Window)
  <2> HIDE DEF s
  <2> QED  BY <1>1, Bounds, StampedType
<1>5. g = Valid(t, Window) /\ Len(g) <= Limit
  <2> HIDE DEF s, h
  <2>1. s \in Seq(Nat)
    BY <1>1, Bounds, AgesAreNat
  <2> QED  BY <1>1, <2>1, Bounds, StampedKeepsWindow
<1>6. g \in Seq(0..(Window - 1))
  <2> HIDE DEF t, g
  <2> QED  BY <1>4, <1>5, Bounds, HistoryType
<1> HIDE DEF s, h, t, g
<1>7. /\ requests' \in [Addresses -> Seq(0..Window)]
      /\ recent' \in [Addresses -> Seq(0..(Window - 1))]
      /\ requests'[a] = t /\ recent'[a] = g
      /\ \A b \in Addresses \ {a} : requests'[b] = requests[b] /\ recent'[b] = recent[b]
  <2> DEFINE A == Seq(0..Window)
             B == Seq(0..(Window - 1))
  <2>1. requests \in [Addresses -> A] /\ recent \in [Addresses -> B] /\ t \in A /\ g \in B
    BY <1>4, <1>6 DEF MapsOK
  <2> HIDE DEF A, B
  <2>2. /\ requests' \in [Addresses -> A]
        /\ recent' \in [Addresses -> B]
        /\ requests'[a] = t /\ recent'[a] = g
        /\ \A b \in Addresses \ {a} : requests'[b] = requests[b] /\ recent'[b] = recent[b]
    BY <1>2, <1>3, <2>1
  <2> QED  BY <2>2 DEF A, B
<1>8. \A b \in Addresses : WindowOf(b)'
  BY <1>5, <1>7 DEF MapsOK, WindowOf
<1>9. UNCHANGED <<regLimit, regRecent>>
  BY DEF regVars
<1> QED  BY <1>7, <1>8, <1>9 DEF MapsOK, RegWindowOf

(* The same for API.regLimit.                                              *)
LEMMA CountedKeepsMaps ==
    ASSUME MapsOK, NEW r \in Registrations, RegisterCounted(r)
    PROVE  MapsOK'
<1> DEFINE a == AddressOf[r]
           s == regLimit[a]
           h == regRecent[a]
           t == Stamped(s, RegWindow, RegLimit)
           g == IF HasRoom(s, RegWindow, RegLimit) THEN Append(h, 0) ELSE h
           m == RegWindow + MaxLag
<1>0. a \in Addresses
  BY LimitsAssumption
<1>1. s \in Seq(0..m) /\ h = Valid(s, RegWindow) /\ Len(h) <= RegLimit
      /\ h \in Seq(0..(RegWindow - 1))
  BY <1>0 DEF MapsOK, RegWindowOf
<1>2. regLimit' = [regLimit EXCEPT ![a] = t]
  BY DEF RegisterCounted
<1>3. regRecent' = [regRecent EXCEPT ![a] = g]
  BY DEF RegisterCounted, MapsOK
<1>b. m \in Nat
  BY Bounds
<1>4. t \in Seq(0..m)
  <2> HIDE DEF s, m
  <2> QED  BY <1>1, <1>b, StampedType
<1>5. g = Valid(t, RegWindow) /\ Len(g) <= RegLimit
  <2> HIDE DEF s, h, m
  <2>1. s \in Seq(Nat)
    BY <1>1, <1>b, AgesAreNat
  <2> QED  BY <1>1, <2>1, Bounds, StampedKeepsWindow
<1>6. g \in Seq(0..(RegWindow - 1))
  <2> HIDE DEF t, g, m
  <2> QED  BY <1>4, <1>5, <1>b, Bounds, HistoryType
<1> HIDE DEF a, s, h, t, g
<1>7. /\ regLimit' \in [Addresses -> Seq(0..m)]
      /\ regRecent' \in [Addresses -> Seq(0..(RegWindow - 1))]
      /\ regLimit'[a] = t /\ regRecent'[a] = g
      /\ \A b \in Addresses \ {a} : regLimit'[b] = regLimit[b] /\ regRecent'[b] = regRecent[b]
  <2> DEFINE A == Seq(0..m)
             B == Seq(0..(RegWindow - 1))
  <2>1. regLimit \in [Addresses -> A] /\ regRecent \in [Addresses -> B] /\ t \in A /\ g \in B
    BY <1>4, <1>6 DEF MapsOK
  <2> HIDE DEF A, B
  <2>2. /\ regLimit' \in [Addresses -> A]
        /\ regRecent' \in [Addresses -> B]
        /\ regLimit'[a] = t /\ regRecent'[a] = g
        /\ \A b \in Addresses \ {a} : regLimit'[b] = regLimit[b] /\ regRecent'[b] = regRecent[b]
    BY <1>0, <1>2, <1>3, <2>1
  <2> QED  BY <2>2 DEF A, B
<1>8. \A b \in Addresses : RegWindowOf(b)'
  BY <1>5, <1>7 DEF MapsOK, RegWindowOf
<1>9. UNCHANGED <<requests, recent>>
  BY DEF RegisterCounted, limiterVars
<1> QED  BY <1>7, <1>8, <1>9 DEF MapsOK, WindowOf, m

(* RateLimiter.cleanup.                                                    *)
LEMMA CleanupKeepsMaps ==
    ASSUME MapsOK, RunCleanup
    PROVE  MapsOK'
<1>1. ASSUME NEW a \in Addresses
      PROVE  /\ requests'[a] = Valid(requests[a], Window)
             /\ requests'[a] \in Seq(0..Window)
             /\ Valid(requests'[a], Window) = Valid(requests[a], Window)
  <2> DEFINE s == requests[a]
  <2>1. requests'[a] = Valid(s, Window)
    BY DEF RunCleanup, Cleanup
  <2>2. s \in Seq(0..Window)
    BY DEF MapsOK
  <2> HIDE DEF s
  <2>3. s \in Seq(Nat)
    BY <2>2, Bounds, AgesAreNat
  <2>4. Valid(s, Window) \in Seq(0..Window)
    BY <2>2, Bounds, PrunedType
  <2>5. Valid(Valid(s, Window), Window) = Valid(s, Window)
    BY <2>3, Bounds, ValidTwice
  <2> QED  BY <2>1, <2>4, <2>5 DEF s
<1>2. requests' = [a \in Addresses |-> requests'[a]]
  BY DEF RunCleanup, Cleanup
<1>3. requests' \in [Addresses -> Seq(0..Window)]
  BY <1>1, <1>2
<1>4. UNCHANGED <<recent, regLimit, regRecent>>
  BY DEF RunCleanup, regVars
<1> QED  BY <1>1, <1>3, <1>4 DEF MapsOK, WindowOf, RegWindowOf

(* cleanupRegLimit: its cutoff may be older than the window, never newer.  *)
LEMMA SweepKeepsMaps ==
    ASSUME MapsOK, RestOK, RunRegSweep
    PROVE  MapsOK'
<1> DEFINE m == RegWindow + MaxLag
           w == RegWindow + lag
<1>0. m \in Nat /\ w \in Nat /\ RegWindow <= w
  BY LimitsAssumption DEF RestOK, RunRegSweep
<1>1. ASSUME NEW a \in Addresses
      PROVE  /\ regLimit'[a] \in Seq(0..m)
             /\ Valid(regLimit'[a], RegWindow) = Valid(regLimit[a], RegWindow)
  <2> DEFINE s == regLimit[a]
  <2>1. regLimit'[a] = Valid(s, w)
    BY DEF RunRegSweep, RegSweep
  <2>2. s \in Seq(0..m)
    BY DEF MapsOK
  <2> HIDE DEF s, m, w
  <2>3. s \in Seq(Nat)
    BY <1>0, <2>2, AgesAreNat
  <2>4. Valid(s, w) \in Seq(0..m)
    BY <1>0, <2>2, PrunedType
  <2>5. Valid(Valid(s, w), RegWindow) = Valid(s, RegWindow)
    BY <1>0, <2>3, Bounds, ValidTwice
  <2> QED  BY <2>1, <2>4, <2>5 DEF s
<1>2. regLimit' = [a \in Addresses |-> regLimit'[a]]
  BY DEF RunRegSweep, RegSweep
<1>3. regLimit' \in [Addresses -> Seq(0..m)]
  BY <1>1, <1>2
<1>4. UNCHANGED <<requests, recent, regRecent>>
  BY DEF RunRegSweep, limiterVars
<1> QED  BY <1>1, <1>3, <1>4 DEF MapsOK, WindowOf, RegWindowOf

(* When time passes, lists and history grow older together.                *)
LEMMA TickKeepsMaps ==
    ASSUME MapsOK, Tick
    PROVE  MapsOK'
<1> DEFINE m == RegWindow + MaxLag
<1>0. m \in Nat /\ RegWindow <= m
  BY LimitsAssumption
<1>1. ASSUME NEW a \in Addresses
      PROVE  /\ requests'[a] \in Seq(0..Window)
             /\ recent'[a] \in Seq(0..(Window - 1))
             /\ WindowOf(a)'
  <2> DEFINE s == requests[a]
             h == recent[a]
  <2>1. requests'[a] = Older(s, Window) /\ recent'[a] = Valid(Older(h, Window), Window)
    BY DEF Tick
  <2>2. s \in Seq(0..Window) /\ h = Valid(s, Window) /\ Len(h) <= Limit
    BY DEF MapsOK, WindowOf
  <2> HIDE DEF s, h
  <2>3. Older(s, Window) \in Seq(0..Window)
    BY <2>2, Bounds, OlderType
  <2>4. /\ Valid(Older(h, Window), Window) = Valid(Older(s, Window), Window)
        /\ Len(Valid(Older(h, Window), Window)) <= Limit
    BY <2>2, Bounds, TickKeepsWindow
  <2>5. Valid(Older(s, Window), Window) \in Seq(0..(Window - 1))
    BY <2>3, Bounds, HistoryType
  <2> QED  BY <2>1, <2>3, <2>4, <2>5 DEF WindowOf
<1>2. ASSUME NEW a \in Addresses
      PROVE  /\ regLimit'[a] \in Seq(0..m)
             /\ regRecent'[a] \in Seq(0..(RegWindow - 1))
             /\ RegWindowOf(a)'
  <2> DEFINE s == regLimit[a]
             h == regRecent[a]
  <2>1. regLimit'[a] = Older(s, m) /\ regRecent'[a] = Valid(Older(h, RegWindow), RegWindow)
    BY DEF Tick
  <2>2. s \in Seq(0..m) /\ h = Valid(s, RegWindow) /\ Len(h) <= RegLimit
    BY DEF MapsOK, RegWindowOf
  <2> HIDE DEF s, h, m
  <2>3. Older(s, m) \in Seq(0..m)
    BY <1>0, <2>2, OlderType
  <2>4. /\ Valid(Older(h, RegWindow), RegWindow) = Valid(Older(s, m), RegWindow)
        /\ Len(Valid(Older(h, RegWindow), RegWindow)) <= RegLimit
    BY <1>0, <2>2, Bounds, TickKeepsWindow
  <2>5. Valid(Older(s, m), RegWindow) \in Seq(0..(RegWindow - 1))
    BY <1>0, <2>3, Bounds, HistoryType
  <2> QED  BY <2>1, <2>3, <2>4, <2>5 DEF RegWindowOf
<1>3. /\ requests' = [a \in Addresses |-> requests'[a]]
      /\ recent' = [a \in Addresses |-> recent'[a]]
      /\ regLimit' = [a \in Addresses |-> regLimit'[a]]
      /\ regRecent' = [a \in Addresses |-> regRecent'[a]]
  BY DEF Tick
<1>4. /\ requests' \in [Addresses -> Seq(0..Window)]
      /\ recent' \in [Addresses -> Seq(0..(Window - 1))]
  BY <1>1, <1>3
<1>5. /\ regLimit' \in [Addresses -> Seq(0..m)]
      /\ regRecent' \in [Addresses -> Seq(0..(RegWindow - 1))]
  BY <1>2, <1>3
<1> QED  BY <1>1, <1>2, <1>4, <1>5 DEF MapsOK

(* Without stamps there is nothing to disagree on.                         *)
LEMMA EmptyMaps ==
    ASSUME NEW e, e = <<>>, requests = [a \in Addresses |-> e],
           recent = [a \in Addresses |-> e], regLimit = [a \in Addresses |-> e],
           regRecent = [a \in Addresses |-> e]
    PROVE  MapsOK
<1>1. \A S : e \in Seq(S)
  BY EmptySeq
<1>2. Len(e) = 0 /\ Valid(e, Window) = e /\ Valid(e, RegWindow) = e
  BY ValidEmpty
<1>3. /\ requests \in [Addresses -> Seq(0..Window)]
      /\ regLimit \in [Addresses -> Seq(0..(RegWindow + MaxLag))]
      /\ recent \in [Addresses -> Seq(0..(Window - 1))]
      /\ regRecent \in [Addresses -> Seq(0..(RegWindow - 1))]
  BY <1>1
<1>4. ASSUME NEW a \in Addresses  PROVE WindowOf(a) /\ RegWindowOf(a)
  <2>1. requests[a] = e /\ recent[a] = e /\ regLimit[a] = e /\ regRecent[a] = e
    OBVIOUS
  <2>2. 0 <= Limit /\ 0 <= RegLimit
    BY Bounds
  <2>3. Len(recent[a]) <= Limit /\ Len(regRecent[a]) <= RegLimit
    BY <1>2, <2>1, <2>2
  <2>4. recent[a] = Valid(requests[a], Window)
    BY <1>2, <2>1, Zenon
  <2>5. regRecent[a] = Valid(regLimit[a], RegWindow)
    BY <1>2, <2>1, Zenon
  <2> QED  BY <2>3, <2>4, <2>5 DEF WindowOf, RegWindowOf
<1> QED  BY <1>3, <1>4 DEF MapsOK

(* LimitsInv: whatever has been pruned of RateLimiter.requests and of      *)
(* API.regLimit, the stamps that still count are those of the last window. *)
THEOREM LimitsInvariant == Spec => []LimitsInv
<1>1. Init => LimitsInv
  <2> SUFFICES ASSUME Init  PROVE LimitsInv
    OBVIOUS
  <2>1. MapsOK
    BY EmptyMaps DEF Init
  <2>2. RestOK
    BY LimitsAssumption DEF Init, RestOK, RegStates
  <2> QED  BY <2>1, <2>2, InvSplit
<1>2. ASSUME LimitsInv, [Next]_vars  PROVE LimitsInv'
  <2>0. MapsOK /\ RestOK
    BY <1>2, InvSplit
  <2>same. ASSUME UNCHANGED <<limiterVars, regVars>>  PROVE MapsOK'
    BY <2>0, <2>same DEF limiterVars, regVars, MapsOK, WindowOf, RegWindowOf
  <2>1. MapsOK'
    <3>1. ASSUME NEW a \in Addresses, Request(a)  PROVE MapsOK'
      BY <2>0, <3>1, AllowKeepsMaps DEF Request
    <3>2. ASSUME NEW r \in Registrations, RegisterArrives(r)  PROVE MapsOK'
      BY <2>0, <3>2, AllowKeepsMaps, LimitsAssumption DEF RegisterArrives
    <3>3. ASSUME NEW r \in Registrations, RegisterCounted(r)  PROVE MapsOK'
      BY <2>0, <3>3, CountedKeepsMaps
    <3>4. ASSUME NEW r \in Registrations, RegisterReturns(r)  PROVE MapsOK'
      BY <3>4, <2>same DEF RegisterReturns
    <3>5. ASSUME RunCleanup  PROVE MapsOK'
      BY <2>0, <3>5, CleanupKeepsMaps
    <3>6. ASSUME RegCutoff  PROVE MapsOK'
      BY <3>6, <2>same DEF RegCutoff
    <3>7. ASSUME RunRegSweep  PROVE MapsOK'
      BY <2>0, <3>7, SweepKeepsMaps
    <3>8. ASSUME Tick  PROVE MapsOK'
      BY <2>0, <3>8, TickKeepsMaps
    <3>9. ASSUME Restart  PROVE MapsOK'
      <4>1. /\ requests' = [a \in Addresses |-> <<>>] /\ recent' = requests'
            /\ regLimit' = [a \in Addresses |-> <<>>] /\ regRecent' = regLimit'
        BY <3>9 DEF Restart
      <4>2. \A S : <<>> \in Seq(S)
        BY EmptySeq
      <4>3. Len(<<>>) = 0
        OBVIOUS
      <4>4. /\ requests' \in [Addresses -> Seq(0..Window)]
            /\ regLimit' \in [Addresses -> Seq(0..(RegWindow + MaxLag))]
            /\ recent' \in [Addresses -> Seq(0..(Window - 1))]
            /\ regRecent' \in [Addresses -> Seq(0..(RegWindow - 1))]
        BY <4>1, <4>2
      <4>5. \A a \in Addresses : WindowOf(a)' /\ RegWindowOf(a)'
        BY <4>1, <4>3, ValidEmpty, Bounds DEF WindowOf, RegWindowOf
      <4> QED  BY <4>4, <4>5 DEF MapsOK
    <3>10. ASSUME UNCHANGED vars  PROVE MapsOK'
      BY <3>10, <2>same DEF vars
    <3> QED
      BY <1>2, <3>1, <3>2, <3>3, <3>4, <3>5, <3>6, <3>7, <3>8, <3>9, <3>10 DEF Next, Register
  <2>2. RestOK'
    <3>1. ASSUME NEW a \in Addresses, Request(a)  PROVE RestOK'
      BY <2>0, <3>1 DEF Request, RestOK
    <3>2. ASSUME NEW r \in Registrations, RegisterArrives(r)  PROVE RestOK'
      BY <2>0, <3>2 DEF RegisterArrives, RestOK, RegStates
    <3>3. ASSUME NEW r \in Registrations, RegisterCounted(r)  PROVE RestOK'
      BY <2>0, <3>3 DEF RegisterCounted, RestOK, RegStates
    <3>4. ASSUME NEW r \in Registrations, RegisterReturns(r)  PROVE RestOK'
      BY <2>0, <3>4 DEF RegisterReturns, RestOK, RegStates
    <3>5. ASSUME RunCleanup  PROVE RestOK'
      BY <2>0, <3>5 DEF RunCleanup, RestOK
    <3>6. ASSUME RegCutoff  PROVE RestOK'
      BY <2>0, <3>6, LimitsAssumption DEF RegCutoff, RestOK
    <3>7. ASSUME RunRegSweep  PROVE RestOK'
      BY <2>0, <3>7, LimitsAssumption DEF RunRegSweep, RestOK
    <3>8. ASSUME Tick  PROVE RestOK'
      BY <2>0, <3>8, LimitsAssumption DEF Tick, RestOK
    <3>9. ASSUME Restart  PROVE RestOK'
      BY <2>0, <3>9, LimitsAssumption DEF Restart, RestOK, RegStates
    <3>10. ASSUME UNCHANGED vars  PROVE RestOK'
      BY <2>0, <3>10 DEF vars, RestOK
    <3> QED
      BY <1>2, <3>1, <3>2, <3>3, <3>4, <3>5, <3>6, <3>7, <3>8, <3>9, <3>10 DEF Next, Register
  <2>3. (MapsOK /\ RestOK => LimitsInv)'
    BY DEF MapsOK, RestOK, LimitsInv, TypeOK, WindowOf, RegWindowOf
  <2> QED  BY <2>1, <2>2, <2>3
<1> QED  BY <1>1, <1>2, PTL DEF Spec

(* RateLimiter.Allow and the limit of HandleRegisterUser let an address    *)
(* through exactly when fewer than the limit were let through in the last  *)
(* window, whatever the pruning goroutines did, with whatever stale        *)
(* cutoff; so never more than the limit within one window.                 *)
THEOREM LimitersAreSlidingWindows == Spec => []DecidesAsWindow
<1>1. LimitsInv => DecidesAsWindow
  BY DEF LimitsInv, DecidesAsWindow, HasRoom
<1> QED  BY <1>1, LimitsInvariant, PTL

=============================================================================
