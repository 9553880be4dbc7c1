--------------------------- MODULE LogRotateProofs ---------------------------
(***************************************************************************)
(* What the daemon's log rotation keeps, for any cap, number of            *)
(* generations and lines: lemmas about the operators of LogRotate, which   *)
(* DaemonProofs puts together.  The library's induction theorems take an   *)
(* operator as a parameter; here induction is over a set of numbers, from  *)
(* the fact that finite sets are well-founded under inclusion.             *)
(***************************************************************************)
EXTENDS LogRotate, FiniteSetTheorems, SequenceTheorems, TLAPS

-----------------------------------------------------------------------------
(* Induction over a set of numbers *)

LEMMA NatLeast ==
    ASSUME NEW T \in SUBSET Nat, T # {}
    PROVE  \E n \in T : \A m \in T : n <= m
<1> DEFINE U == {1 .. n : n \in T}
<1>1. U \subseteq FiniteSubsetsOf(Nat) /\ U # {}
  <2>1. ASSUME NEW n \in T PROVE 1 .. n \in FiniteSubsetsOf(Nat)
    <3>1. 1 .. n \in SUBSET Nat /\ 1 \in Int /\ n \in Int
      OBVIOUS
    <3>2. IsFiniteSet(1 .. n)
      BY <3>1, FS_Interval
    <3> QED
      BY <3>1, <3>2 DEF FiniteSubsetsOf
  <2> QED
    BY <2>1
<1>2. \E u \in U : \A v \in U : <<v, u>> \notin StrictSubsetOrdering(Nat)
  <2> HIDE DEF U
  <2> QED
    BY <1>1, FS_StrictSubsetOrderingWellFounded, WFMin
<1>3. PICK n \in T : \A m \in T : <<1 .. m, 1 .. n>> \notin StrictSubsetOrdering(Nat)
  BY <1>2
<1>4. ASSUME NEW m \in T, m < n PROVE FALSE
  <2>1. /\ 1 .. m \in SUBSET Nat /\ 1 .. n \in SUBSET Nat
        /\ 1 .. m \subseteq 1 .. n /\ n \in 1 .. n /\ n \notin 1 .. m
    BY <1>4
  <2> QED
    BY <1>3, <2>1 DEF StrictSubsetOrdering
<1> QED
  BY <1>3, <1>4

LEMMA SetInduction ==
    ASSUME NEW S, 0 \in S, \A n \in Nat : n \in S => n + 1 \in S
    PROVE  Nat \subseteq S
<1> SUFFICES ASSUME Nat \ S # {} PROVE FALSE
  OBVIOUS
<1>1. PICK n \in Nat \ S : \A m \in Nat \ S : n <= m
  BY NatLeast
<1>2. n # 0 /\ n - 1 \in Nat /\ n - 1 \notin Nat \ S
  BY <1>1
<1> QED
  BY <1>1, <1>2

-----------------------------------------------------------------------------
(* The bytes of a file *)

\* Bytes is a recursive definition that defines something.
LEMMA BytesSum ==
    ASSUME NEW file \in Seq(Line)
    PROVE  \E sum : /\ sum = [i \in 0 .. Len(file) |-> IF i = 0 THEN 0 ELSE sum[i - 1] + file[i].len]
                    /\ Bytes(file) = sum[Len(file)]
<1> DEFINE Sums(g, n) == g = [i \in 0 .. n |-> IF i = 0 THEN 0 ELSE g[i - 1] + file[i].len]
           S == {n \in Nat : \E g : Sums(g, n)}
<1>1. 0 \in S
  <2>1. Sums([i \in 0 .. 0 |-> 0], 0)
    OBVIOUS
  <2> QED
    BY <2>1
<1>2. ASSUME NEW n \in Nat, n \in S PROVE n + 1 \in S
  <2>1. PICK g : Sums(g, n)
    BY <1>2
  <2> DEFINE h == [i \in 0 .. n + 1 |-> IF i = n + 1 THEN g[n] + file[n + 1].len ELSE g[i]]
  <2>2. ASSUME NEW i \in 0 .. n + 1
        PROVE  h[i] = IF i = 0 THEN 0 ELSE h[i - 1] + file[i].len
    <3>1. CASE i = n + 1
      BY <3>1
    <3>2. CASE i \in 0 .. n
      BY <2>1, <3>2
    <3> QED
      BY <3>1, <3>2
  <2>3. Sums(h, n + 1)
    BY <2>2
  <2>4. \E g2 : Sums(g2, n + 1)
    BY <2>3
  <2> QED
    BY <2>4
<1>3. Nat \subseteq S
  <2> HIDE DEF S
  <2> QED
    BY <1>1, <1>2, SetInduction
<1>4. \E g : Sums(g, Len(file))
  BY <1>3
<1> QED
  BY <1>4 DEF Bytes

LEMMA BytesType == ASSUME NEW file \in Seq(Line) PROVE Bytes(file) \in Nat
<1>1. PICK sum : /\ sum = [i \in 0 .. Len(file) |-> IF i = 0 THEN 0 ELSE sum[i - 1] + file[i].len]
                 /\ Bytes(file) = sum[Len(file)]
  BY BytesSum
<1> DEFINE S == {i \in Nat : i <= Len(file) => sum[i] \in Nat}
<1>2. 0 \in S
  BY <1>1
<1>3. ASSUME NEW i \in Nat, i \in S PROVE i + 1 \in S
  <2>1. CASE i + 1 <= Len(file)
    <3>1. sum[i + 1] = sum[i] + file[i + 1].len /\ sum[i] \in Nat
      BY <1>1, <1>3, <2>1
    <3>2. file[i + 1] \in Line
      BY <2>1
    <3>3. file[i + 1].len \in Nat
      BY <3>2 DEF Line
    <3> QED
      BY <3>1, <3>3
  <2> QED
    BY <2>1
<1>4. Nat \subseteq S
  <2> HIDE DEF S
  <2> QED
    BY <1>2, <1>3, SetInduction
<1> QED
  BY <1>1, <1>4

LEMMA BytesEmpty == Bytes(<<>>) = 0
<1>1. <<>> \in Seq(Line) /\ Len(<<>>) = 0
  OBVIOUS
<1>2. PICK sum : /\ sum = [i \in 0 .. 0 |-> IF i = 0 THEN 0 ELSE sum[i - 1] + <<>>[i].len]
                 /\ Bytes(<<>>) = sum[0]
  BY <1>1, BytesSum
<1> QED
  BY <1>2

LEMMA BytesAppend ==
    ASSUME NEW file \in Seq(Line), NEW line \in Line
    PROVE  Bytes(Append(file, line)) = Bytes(file) + line.len
<1> DEFINE long == Append(file, line)
<1>1. PICK sum : /\ sum = [i \in 0 .. Len(file) |-> IF i = 0 THEN 0 ELSE sum[i - 1] + file[i].len]
                 /\ Bytes(file) = sum[Len(file)]
  BY BytesSum
<1>2. /\ long \in Seq(Line) /\ Len(long) = Len(file) + 1 /\ Len(file) \in Nat
      /\ \A i \in 1 .. Len(file) : long[i] = file[i] /\ file[i] \in Line
      /\ long[Len(file) + 1] = line
  OBVIOUS
<1> HIDE DEF long
<1>3. PICK sum2 : /\ sum2 = [i \in 0 .. Len(long) |-> IF i = 0 THEN 0 ELSE sum2[i - 1] + long[i].len]
                  /\ Bytes(long) = sum2[Len(long)]
  BY <1>2, BytesSum
<1> DEFINE S == {i \in Nat : i <= Len(file) => sum2[i] = sum[i]}
<1>4. 0 \in S
  BY <1>1, <1>2, <1>3
<1>5. ASSUME NEW i \in Nat, i \in S PROVE i + 1 \in S
  <2>1. CASE i + 1 <= Len(file)
    BY <1>1, <1>2, <1>3, <1>5, <2>1
  <2> QED
    BY <2>1
<1>6. Nat \subseteq S
  <2> HIDE DEF S
  <2> QED
    BY <1>4, <1>5, SetInduction
<1>7. sum2[Len(file)] = sum[Len(file)]
  BY <1>2, <1>6
<1>8. sum2[Len(long)] = sum2[Len(file)] + line.len
  BY <1>2, <1>3
<1> QED
  BY <1>1, <1>3, <1>7, <1>8 DEF long

\* A file whose lines are not empty has a byte for every line.
LEMMA BytesPositive ==
    ASSUME NEW file \in Seq(Line), Bytes(file) = 0, \A i \in DOMAIN file : file[i].len > 0
    PROVE  file = <<>>
<1> SUFFICES ASSUME file # <<>> PROVE FALSE
  OBVIOUS
<1>1. /\ file = Append(Front(file), Last(file)) /\ Front(file) \in Seq(Line)
      /\ Last(file) = file[Len(file)] /\ Len(file) \in DOMAIN file /\ Last(file) \in Line
  BY DEF Front, Last
<1>2. Bytes(file) = Bytes(Front(file)) + Last(file).len
  BY <1>1, BytesAppend
<1>3. Bytes(Front(file)) \in Nat /\ Last(file).len > 0 /\ Last(file).len \in Nat
  BY <1>1, BytesType DEF Line
<1> QED
  BY <1>2, <1>3

-----------------------------------------------------------------------------
(* Concatenation of the files of a sequence *)

LEMMA FlattenRecursion ==
    ASSUME NEW s, Len(s) \in Nat \ {0}
    PROVE  \E f : /\ f[1] = s[1]
                  /\ \A i \in 2 .. Len(s) : f[i] = f[i - 1] \o s[i]
                  /\ FlattenSeq(s) = f[Len(s)]
<1> DEFINE Flattens(g, n) == g = [i \in 1 .. n |-> IF i = 1 THEN s[i] ELSE g[i - 1] \o s[i]]
           S == {n \in Nat : \E g : Flattens(g, n)}
<1>1. 0 \in S
  <2>1. Flattens([i \in 1 .. 0 |-> 0], 0)
    OBVIOUS
  <2> QED
    BY <2>1
<1>2. ASSUME NEW n \in Nat, n \in S PROVE n + 1 \in S
  <2>1. PICK g : Flattens(g, n)
    BY <1>2
  <2> DEFINE last == IF n = 0 THEN s[n + 1] ELSE g[n] \o s[n + 1]
             h == [i \in 1 .. n + 1 |-> IF i = n + 1 THEN last ELSE g[i]]
  <2>2. ASSUME NEW i \in 1 .. n + 1
        PROVE  h[i] = IF i = 1 THEN s[i] ELSE h[i - 1] \o s[i]
    <3>1. CASE i = n + 1
      BY <3>1
    <3>2. CASE i \in 1 .. n
      <4>1. h[i] = g[i] /\ (i # 1 => h[i - 1] = g[i - 1])
        BY <3>2
      <4>2. g[i] = IF i = 1 THEN s[i] ELSE g[i - 1] \o s[i]
        BY <2>1, <3>2
      <4> HIDE DEF h
      <4> QED
        BY <4>1, <4>2
    <3> QED
      BY <3>1, <3>2
  <2>3. Flattens(h, n + 1)
    BY <2>2
  <2>4. \E g2 : Flattens(g2, n + 1)
    <3> HIDE DEF h
    <3> QED
      BY <2>3
  <2> HIDE DEF Flattens
  <2> QED
    BY <2>4
<1>3. Nat \subseteq S
  <2> HIDE DEF S
  <2> QED
    BY <1>1, <1>2, SetInduction
<1>4. \E g : Flattens(g, Len(s))
  BY <1>3
<1>5. PICK f : Flattens(f, Len(s)) /\ FlattenSeq(s) = f[Len(s)]
  BY <1>4 DEF FlattenSeq
<1>6. 1 \in 1 .. Len(s) /\ \A i \in 2 .. Len(s) : i \in 1 .. Len(s) /\ i # 1
  OBVIOUS
<1>7. f[1] = s[1] /\ \A i \in 2 .. Len(s) : f[i] = f[i - 1] \o s[i]
  BY <1>5, <1>6
<1> QED
  BY <1>5, <1>7

LEMMA FlattenType ==
    ASSUME NEW T, NEW s \in Seq(Seq(T))
    PROVE  FlattenSeq(s) \in Seq(T)
<1>1. CASE Len(s) = 0
  BY <1>1 DEF FlattenSeq
<1>2. CASE Len(s) # 0
  <2>1. Len(s) \in Nat \ {0} /\ \A i \in 1 .. Len(s) : s[i] \in Seq(T)
    BY <1>2
  <2>2. PICK f : /\ f[1] = s[1]
                 /\ \A i \in 2 .. Len(s) : f[i] = f[i - 1] \o s[i]
                 /\ FlattenSeq(s) = f[Len(s)]
    BY <2>1, FlattenRecursion
  <2> DEFINE S == {n \in Nat : n \in 1 .. Len(s) => f[n] \in Seq(T)}
  <2>3. 0 \in S
    OBVIOUS
  <2>4. ASSUME NEW n \in Nat, n \in S PROVE n + 1 \in S
    <3>1. CASE n + 1 \in 2 .. Len(s)
      <4>1. f[n + 1] = f[n] \o s[n + 1]
        <5>1. (n + 1) - 1 = n
          OBVIOUS
        <5> QED
          BY <2>2, <3>1, <5>1
      <4>2. s[n + 1] \in Seq(T) /\ f[n] \in Seq(T)
        BY <2>1, <2>4, <3>1
      <4>3. f[n + 1] \in Seq(T)
        BY <4>1, <4>2
      <4> QED
        BY <4>3
    <3>2. CASE n + 1 \notin 2 .. Len(s)
      BY <2>1, <2>2, <3>2
    <3> QED
      BY <3>1, <3>2
  <2>5. Nat \subseteq S
    <3> HIDE DEF S
    <3> QED
      BY <2>3, <2>4, SetInduction
  <2>6. Len(s) \in S
    <3> HIDE DEF S
    <3> QED
      BY <2>1, <2>5
  <2>7. f[Len(s)] \in Seq(T)
    BY <2>1, <2>6
  <2> QED
    BY <2>2, <2>7
<1> QED
  BY <1>1, <1>2

\* File a holds the lines numbered from m + 1 to n.
Holds(a, m, n) == a \in Seq(Line) /\ Len(a) = n - m /\ \A k \in 1 .. Len(a) : a[k].n = m + k

LEMMA HoldsConcat ==
    ASSUME NEW l \in Nat, NEW m \in Nat, NEW n \in Nat, NEW a, NEW b, Holds(a, l, m), Holds(b, m, n)
    PROVE  Holds(a \o b, l, n)
<1> USE DEF Holds
<1>1. a \o b \in Seq(Line) /\ Len(a \o b) = Len(a) + Len(b)
  OBVIOUS
<1>2. ASSUME NEW k \in 1 .. Len(a) + Len(b) PROVE (a \o b)[k].n = l + k
  <2>1. CASE k <= Len(a)
    <3>1. (a \o b)[k] = a[k]
      BY <2>1
    <3> QED
      BY <2>1, <3>1
  <2>2. CASE k > Len(a)
    <3>1. (a \o b)[k] = b[k - Len(a)] /\ k - Len(a) \in 1 .. Len(b)
      BY <2>2
    <3>2. b[k - Len(a)].n = m + (k - Len(a))
      BY <3>1
    <3> QED
      BY <3>1, <3>2
  <2> QED
    BY <2>1, <2>2
<1> QED
  BY <1>1, <1>2

\* Files whose lines carry on from each other's numbers make one such file.
LEMMA FlattenHolds ==
    ASSUME NEW s \in Seq(Seq(Line)), s # <<>>, NEW e \in [0 .. Len(s) -> Nat],
           \A i \in 1 .. Len(s) : Holds(s[i], e[i - 1], e[i])
    PROVE  Holds(FlattenSeq(s), e[0], e[Len(s)])
<1>1. Len(s) \in Nat \ {0}
  OBVIOUS
<1>2. PICK f : /\ f[1] = s[1]
               /\ \A i \in 2 .. Len(s) : f[i] = f[i - 1] \o s[i]
               /\ FlattenSeq(s) = f[Len(s)]
  BY <1>1, FlattenRecursion
<1> DEFINE S == {n \in Nat : n \in 1 .. Len(s) => Holds(f[n], e[0], e[n])}
<1>3. 0 \in S
  OBVIOUS
<1>4. ASSUME NEW n \in Nat, n \in S PROVE n + 1 \in S
  <2>1. CASE n + 1 \in 2 .. Len(s)
    <3>0. /\ (n + 1) - 1 = n /\ n + 1 \in 1 .. Len(s) /\ n \in 1 .. Len(s)
          /\ {0, n, n + 1} \subseteq 0 .. Len(s)
      BY <1>1, <2>1
    <3>1. /\ (n + 1) - 1 = n /\ n + 1 \in 1 .. Len(s) /\ n \in 1 .. Len(s)
          /\ e[0] \in Nat /\ e[n] \in Nat /\ e[n + 1] \in Nat
      BY <3>0
    <3>2. f[n + 1] = f[n] \o s[n + 1]
      BY <1>2, <2>1, <3>1
    <3>3. Holds(s[n + 1], e[n], e[n + 1]) /\ Holds(f[n], e[0], e[n])
      BY <1>4, <3>1
    <3>4. Holds(f[n + 1], e[0], e[n + 1])
      BY <3>1, <3>2, <3>3, HoldsConcat
    <3> QED
      BY <3>4
  <2>2. CASE n + 1 \notin 2 .. Len(s)
    <3>1. n + 1 \in 1 .. Len(s) => n = 0
      BY <2>2
    <3>2. Holds(s[1], e[0], e[1])
      BY <1>1
    <3> QED
      BY <1>2, <3>1, <3>2
  <2> QED
    BY <2>1, <2>2
<1>5. Nat \subseteq S
  <2> HIDE DEF S
  <2> QED
    BY <1>3, <1>4, SetInduction
<1>6. Holds(f[Len(s)], e[0], e[Len(s)])
  BY <1>1, <1>5
<1> QED
  BY <1>2, <1>6

-----------------------------------------------------------------------------
(* The renames of a rotation *)

\* Shifted is a recursive definition that defines something.
LEMMA ShiftedRecursion ==
    ASSUME NEW gens, NEW failed, NEW k \in 0 .. Keep
    PROVE  \E after : /\ after[Keep] = gens
                      /\ \A i \in 0 .. Keep - 1 :
                            after[i] = IF i \in failed THEN after[i + 1] ELSE Rename(after[i + 1], i)
                      /\ Shifted(gens, k, failed) = after[k]
<1> DEFINE Down(g, m) == g = [i \in m .. Keep |->
                                 IF i = Keep THEN gens
                                 ELSE IF i \in failed THEN g[i + 1] ELSE Rename(g[i + 1], i)]
           S == {n \in Nat : n <= Keep => \E g : Down(g, Keep - n)}
<1>0. Keep \in Nat \ {0}
  BY LogAssumption
<1>1. 0 \in S
  <2>1. Down([i \in Keep .. Keep |-> gens], Keep) /\ Keep - 0 = Keep
    BY <1>0
  <2> QED
    BY <2>1
<1>2. ASSUME NEW n \in Nat, n \in S PROVE n + 1 \in S
  <2> SUFFICES ASSUME n + 1 <= Keep PROVE \E g : Down(g, Keep - (n + 1))
    OBVIOUS
  <2> DEFINE m == Keep - (n + 1)
  <2>1. m \in 0 .. Keep - 1 /\ m + 1 = Keep - n /\ n <= Keep
    BY <1>0
  <2>2. PICK g : Down(g, m + 1)
    <3> HIDE DEF m
    <3> QED
      BY <1>2, <2>1
  <2> HIDE DEF m
  <2> DEFINE next == IF m \in failed THEN g[m + 1] ELSE Rename(g[m + 1], m)
             h == [i \in m .. Keep |-> IF i = m THEN next ELSE g[i]]
  <2>3. ASSUME NEW i \in m .. Keep
        PROVE  h[i] = IF i = Keep THEN gens ELSE IF i \in failed THEN h[i + 1] ELSE Rename(h[i + 1], i)
    <3>1. CASE i = m
      <4>1. i # Keep /\ m + 1 \in m .. Keep /\ m + 1 # m /\ h[m + 1] = g[m + 1] /\ h[i] = next
        BY <1>0, <2>1, <3>1
      <4> HIDE DEF h
      <4> QED
        BY <3>1, <4>1
    <3>2. CASE i # m
      <4>1. i \in m + 1 .. Keep /\ h[i] = g[i] /\ (i # Keep => h[i + 1] = g[i + 1])
        BY <1>0, <2>1, <3>2
      <4>2. g[i] = IF i = Keep THEN gens ELSE IF i \in failed THEN g[i + 1] ELSE Rename(g[i + 1], i)
        BY <2>2, <4>1
      <4> HIDE DEF h
      <4> QED
        BY <4>1, <4>2
    <3> QED
      BY <3>1, <3>2
  <2>4. h = [i \in m .. Keep |-> h[i]]
    OBVIOUS
  <2>5. Down(h, m)
    <3> HIDE DEF h
    <3> QED
      BY <2>3, <2>4
  <2>6. \E g2 : Down(g2, m)
    <3> HIDE DEF h
    <3> QED
      BY <2>5
  <2> QED
    BY <2>6 DEF m
<1>3. Nat \subseteq S
  <2> HIDE DEF S
  <2> QED
    BY <1>1, <1>2, SetInduction
<1>4. \E g : Down(g, 0)
  <2>1. Keep \in S
    <3> HIDE DEF S
    <3> QED
      BY <1>0, <1>3
  <2>2. Keep - Keep = 0 /\ Keep <= Keep
    BY <1>0
  <2>3. \E g : Down(g, Keep - Keep)
    <3> HIDE DEF Down
    <3> QED
      BY <2>1, <2>2
  <2> HIDE DEF Down
  <2> QED
    BY <2>2, <2>3
<1>5. PICK after : Down(after, 0) /\ Shifted(gens, k, failed) = after[k]
  BY <1>4 DEF Shifted
<1>6. after[Keep] = gens
  BY <1>0, <1>5
<1>7. ASSUME NEW i \in 0 .. Keep - 1
      PROVE  after[i] = IF i \in failed THEN after[i + 1] ELSE Rename(after[i + 1], i)
  <2>1. i \in 0 .. Keep /\ i # Keep
    BY <1>0
  <2> QED
    BY <1>5, <2>1
<1> QED
  BY <1>5, <1>6, <1>7

LEMMA RenameFields ==
    ASSUME NEW gens \in [0 .. Keep -> Seq(Line)], NEW i \in 0 .. Keep - 1
    PROVE  /\ Rename(gens, i) \in [0 .. Keep -> Seq(Line)]
           /\ Rename(gens, i)[i] = <<>>
           /\ Rename(gens, i)[i + 1] = IF gens[i] = <<>> THEN gens[i + 1] ELSE gens[i]
           /\ \A j \in 0 .. Keep : j # i /\ j # i + 1 => Rename(gens, i)[j] = gens[j]
<1>0. i \in 0 .. Keep /\ i + 1 \in 0 .. Keep /\ i # i + 1 /\ <<>> \in Seq(Line)
  BY LogAssumption
<1>1. CASE gens[i] = <<>>
  BY <1>0, <1>1 DEF Rename
<1>2. CASE gens[i] # <<>>
  <2> DEFINE h == [gens EXCEPT ![i + 1] = gens[i], ![i] = <<>>]
  <2>1. h \in [0 .. Keep -> Seq(Line)]
    BY <1>0
  <2>2. h[i] = <<>> /\ h[i + 1] = gens[i] /\ \A j \in 0 .. Keep : j # i /\ j # i + 1 => h[j] = gens[j]
    BY <1>0
  <2>3. Rename(gens, i) = h
    BY <1>2 DEF Rename
  <2> HIDE DEF h
  <2> QED
    BY <1>2, <2>1, <2>2, <2>3
<1> QED
  BY <1>1, <1>2

-----------------------------------------------------------------------------
(* The log's invariant *)

\* The generations hold the last of all lines written, and lines are missing
\* only if the oldest generation is full of newer ones: generation i holds
\* those from e[i + 1] + 1 to e[i].
Numbered(gens, lines) ==
    \E e \in [0 .. Keep + 1 -> Nat] :
        /\ e[0] = lines
        /\ e[Keep + 1] > 0 => gens[Keep] # <<>>
        /\ \A i \in 0 .. Keep : Holds(gens[i], e[i + 1], e[i])

Fits(file) == Bytes(file) <= MaxBytes \/ Len(file) = 1

Solid(file) == \A k \in DOMAIN file : file[k].len > 0

\* InOrder, and no line is newer than the newest.
Sorted(gens, lines) ==
    /\ \A i \in 0 .. Keep : \A a \in DOMAIN gens[i] : gens[i][a].n <= lines
    /\ \A i \in 0 .. Keep : Ordered(gens[i])
    /\ \A i, j \in 0 .. Keep : i < j => Older(gens[j], gens[i])
    /\ lines > 0 => \E i \in 0 .. Keep : \E a \in DOMAIN gens[i] : gens[i][a].n = lines

LogInv(l) ==
    /\ l \in Log
    /\ ~l.holed => Numbered(l.gens, l.lines)
    /\ Sorted(l.gens, l.lines)
    /\ \A i \in 0 .. Keep : Solid(l.gens[i])
    /\ ~l.degraded => \A i \in 0 .. Keep : Fits(l.gens[i])

\* The Writer knows the size of the file it appends to.
SizeKnown(l) == ~l.degraded => l.size = Bytes(l.gens[0])

LEMMA EmptyFile == Holds(<<>>, 0, 0) /\ Fits(<<>>) /\ Solid(<<>>)
BY BytesEmpty, LogAssumption DEF Holds, Fits, Solid

LEMMA NewLogKeeps == LogInv(NewLog)
<1>1. NewLog \in Log /\ NewLog.lines = 0 /\ \A i \in 0 .. Keep : NewLog.gens[i] = <<>>
  BY DEF NewLog, Log
<1>2. Numbered(NewLog.gens, NewLog.lines)
  <2> DEFINE e == [i \in 0 .. Keep + 1 |-> 0]
  <2>1. e \in [0 .. Keep + 1 -> Nat] /\ \A i \in 0 .. Keep + 1 : e[i] = 0
    OBVIOUS
  <2>2. /\ 0 \in 0 .. Keep + 1 /\ Keep + 1 \in 0 .. Keep + 1
        /\ \A i \in 0 .. Keep : i \in 0 .. Keep + 1 /\ i + 1 \in 0 .. Keep + 1
    BY LogAssumption
  <2> HIDE DEF e
  <2>3. \A i \in 0 .. Keep : Holds(NewLog.gens[i], e[i + 1], e[i])
    BY <1>1, <2>1, <2>2, EmptyFile
  <2>4. e[0] = NewLog.lines /\ ~(e[Keep + 1] > 0)
    BY <1>1, <2>1, <2>2
  <2> QED
    BY <2>1, <2>3, <2>4 DEF Numbered
<1>3. Sorted(NewLog.gens, NewLog.lines)
  <2>1. DOMAIN <<>> = {}
    OBVIOUS
  <2> QED
    BY <1>1, <2>1 DEF Sorted, Ordered, Older
<1> QED
  BY <1>1, <1>2, <1>3, EmptyFile DEF LogInv

\* The same files under a Writer that has another idea of their size.
LEMMA SizeKeeps ==
    ASSUME NEW l, LogInv(l), NEW n \in Nat
    PROVE  LogInv([l EXCEPT !.size = n])
<1>1. /\ [l EXCEPT !.size = n] \in Log
      /\ [l EXCEPT !.size = n].gens = l.gens /\ [l EXCEPT !.size = n].lines = l.lines
      /\ [l EXCEPT !.size = n].degraded = l.degraded /\ [l EXCEPT !.size = n].holed = l.holed
  BY DEF LogInv, Log
<1> QED
  BY <1>1 DEF LogInv

LEMMA LogFields ==
    ASSUME NEW l \in Log
    PROVE  /\ l.gens \in [0 .. Keep -> Seq(Line)] /\ l.size \in Nat /\ l.lines \in Nat
           /\ l.degraded \in BOOLEAN /\ l.holed \in BOOLEAN
           /\ 0 \in 0 .. Keep /\ l.gens[0] \in Seq(Line)
           /\ l = [gens |-> l.gens, size |-> l.size, lines |-> l.lines, degraded |-> l.degraded,
                   holed |-> l.holed]
BY LogAssumption DEF Log

LEMMA OpenedKeeps ==
    ASSUME NEW l, LogInv(l)
    PROVE  LogInv(Opened(l)) /\ SizeKnown(Opened(l))
<1>1. Bytes(l.gens[0]) \in Nat
  BY LogFields, BytesType DEF LogInv
<1>2. LogInv(Opened(l))
  BY <1>1, SizeKeeps DEF Opened
<1>3. l \in Log
  BY DEF LogInv
<1>4. Opened(l).gens = l.gens /\ Opened(l).size = Bytes(l.gens[0])
  BY <1>3 DEF Opened, Log
<1> QED
  BY <1>2, <1>4 DEF SizeKnown

LEMMA LeftKeeps == ASSUME NEW l, LogInv(l) PROVE LogInv(Left(l))
BY SizeKeeps DEF Left

\* One rename: the numbers move with the file, unless it replaces another
\* than the oldest.
LEMMA RenameNumbered ==
    ASSUME NEW gens \in [0 .. Keep -> Seq(Line)], NEW lines \in Nat, Numbered(gens, lines),
           NEW i \in 0 .. Keep - 1, gens[i] = <<>> \/ gens[i + 1] = <<>> \/ i + 1 = Keep
    PROVE  Numbered(Rename(gens, i), lines)
<1>0. Keep \in Nat /\ Keep >= 1 /\ i \in 0 .. Keep /\ i + 1 \in 0 .. Keep
  BY LogAssumption
<1>1. CASE gens[i] = <<>>
  BY <1>1 DEF Rename
<1>2. CASE gens[i] # <<>>
  <2>1. PICK e \in [0 .. Keep + 1 -> Nat] :
               /\ e[0] = lines
               /\ e[Keep + 1] > 0 => gens[Keep] # <<>>
               /\ \A j \in 0 .. Keep : Holds(gens[j], e[j + 1], e[j])
    BY DEF Numbered
  <2> DEFINE m == Rename(gens, i)
             d == [e EXCEPT ![i + 1] = e[i], ![i + 2] = e[i + 1]]
  <2>2. /\ e[i] \in Nat /\ e[i + 1] \in Nat /\ e[i + 2] \in Nat
        /\ d \in [0 .. Keep + 1 -> Nat] /\ d[i + 1] = e[i] /\ d[i + 2] = e[i + 1]
        /\ \A j \in 0 .. Keep + 1 : j # i + 1 /\ j # i + 2 => d[j] = e[j]
    <3>1. {i, i + 1, i + 2} \subseteq 0 .. Keep + 1 /\ i + 1 # i + 2
      BY <1>0
    <3>2. e[i] \in Nat /\ e[i + 1] \in Nat /\ e[i + 2] \in Nat
      BY <3>1
    <3> QED
      BY <3>1, <3>2
  <2>3. /\ m[i] = <<>> /\ m[i + 1] = gens[i]
        /\ \A j \in 0 .. Keep : j # i /\ j # i + 1 => m[j] = gens[j]
    BY <1>2, RenameFields
  <2>4. (i + 1) + 1 = i + 2
    OBVIOUS
  <2>5. Holds(gens[i], e[i + 1], e[i]) /\ Holds(gens[i + 1], e[i + 2], e[i + 1])
    BY <1>0, <2>1, <2>4
  <2>6. i + 1 # Keep => e[i + 2] = e[i + 1]
    <3>1. gens[i + 1] = <<>> => Len(gens[i + 1]) = 0
      OBVIOUS
    <3> QED
      BY <1>2, <2>2, <2>5, <3>1 DEF Holds
  <2> HIDE DEF d, m
  <2>7. ASSUME NEW j \in 0 .. Keep PROVE Holds(m[j], d[j + 1], d[j])
    <3>1. CASE j = i
      <4>1. d[j] = e[i] /\ d[j + 1] = e[i]
        BY <1>0, <2>2, <3>1
      <4>2. Holds(<<>>, e[i], e[i])
        BY <2>2 DEF Holds
      <4> QED
        BY <2>3, <3>1, <4>1, <4>2
    <3>2. CASE j = i + 1
      BY <2>2, <2>3, <2>4, <2>5, <3>2
    <3>3. CASE j # i /\ j # i + 1
      <4>1. m[j] = gens[j] /\ Holds(gens[j], e[j + 1], e[j])
        BY <2>1, <2>3, <3>3
      <4>2. d[j + 1] = e[j + 1]
        <5>1. j + 1 \in 0 .. Keep + 1 /\ j + 1 # i + 1 /\ j + 1 # i + 2
          BY <1>0, <3>3
        <5> QED
          BY <2>2, <5>1
      <4>3. d[j] = e[j]
        <5>1. CASE j = i + 2
          <6>1. i + 1 # Keep
            BY <1>0, <5>1
          <6> QED
            BY <2>2, <2>6, <5>1, <6>1
        <5>2. CASE j # i + 2
          <6>1. j \in 0 .. Keep + 1
            BY <1>0
          <6> QED
            BY <2>2, <3>3, <5>2, <6>1
        <5> QED
          BY <5>1, <5>2
      <4> QED
        BY <4>1, <4>2, <4>3
    <3> QED
      BY <3>1, <3>2, <3>3
  <2>8. d[0] = lines
    <3>1. CASE i = 0
      <4>1. 0 # i + 1 /\ 0 # i + 2 /\ 0 \in 0 .. Keep + 1
        BY <1>0
      <4> QED
        BY <2>1, <2>2, <4>1
    <3>2. CASE i # 0
      <4>1. 0 # i + 1 /\ 0 # i + 2 /\ 0 \in 0 .. Keep + 1
        BY <1>0
      <4> QED
        BY <2>1, <2>2, <4>1
    <3> QED
      BY <3>1, <3>2
  <2>9. d[Keep + 1] > 0 => m[Keep] # <<>>
    <3>1. CASE i + 1 = Keep
      BY <1>2, <2>3, <3>1
    <3>2. CASE i + 1 # Keep
      <4>1. Keep \in 0 .. Keep /\ Keep # i /\ Keep # i + 1
        BY <1>0, <3>2
      <4>2. Keep + 1 \in 0 .. Keep + 1 /\ Keep + 1 # i + 1 /\ Keep + 1 # i + 2
        BY <1>0, <3>2
      <4>3. m[Keep] = gens[Keep] /\ d[Keep + 1] = e[Keep + 1]
        BY <2>2, <2>3, <4>1, <4>2
      <4> QED
        BY <2>1, <4>3
    <3> QED
      BY <3>1, <3>2
  <2>10. Numbered(m, lines)
    BY <2>2, <2>7, <2>8, <2>9 DEF Numbered
  <2> QED
    BY <2>10 DEF m
<1> QED
  BY <1>1, <1>2

\* The order stays whatever file is replaced, since it is replaced by the
\* next younger one.
LEMMA RenameSorted ==
    ASSUME NEW gens \in [0 .. Keep -> Seq(Line)], NEW lines \in Nat, Sorted(gens, lines),
           NEW i \in 0 .. Keep - 1
    PROVE  Sorted(Rename(gens, i), lines)
<1>0. Keep \in Nat /\ i \in 0 .. Keep /\ i + 1 \in 0 .. Keep /\ i < i + 1
  BY LogAssumption
<1>1. CASE gens[i] = <<>>
  BY <1>1 DEF Rename
<1>2. CASE gens[i] # <<>>
  <2> DEFINE m == Rename(gens, i)
  <2>1. /\ m[i] = <<>> /\ m[i + 1] = gens[i]
        /\ \A j \in 0 .. Keep : j # i /\ j # i + 1 => m[j] = gens[j]
    BY <1>2, RenameFields
  <2>2. /\ \A j \in 0 .. Keep : \A a \in DOMAIN gens[j] : gens[j][a].n <= lines
        /\ \A j \in 0 .. Keep : Ordered(gens[j])
        /\ \A x, y \in 0 .. Keep : x < y => Older(gens[y], gens[x])
    BY DEF Sorted
  <2>3. DOMAIN <<>> = {}
    OBVIOUS
  <2> HIDE DEF m
  <2>4. \A j \in 0 .. Keep : j = i \/ j = i + 1 \/ m[j] = gens[j]
    BY <2>1
  <2>5. \A j \in 0 .. Keep : \A a \in DOMAIN m[j] : m[j][a].n <= lines
    BY <1>0, <2>1, <2>2, <2>3, <2>4
  <2>6. \A j \in 0 .. Keep : Ordered(m[j])
    <3>1. Ordered(<<>>)
      BY <2>3 DEF Ordered
    <3> QED
      BY <1>0, <2>1, <2>2, <2>4, <3>1
  <2>7. ASSUME NEW x \in 0 .. Keep, NEW y \in 0 .. Keep, x < y PROVE Older(m[y], m[x])
    <3>1. CASE x = i \/ y = i
      BY <2>1, <2>3, <3>1 DEF Older
    <3>2. CASE x = i + 1
      <4>1. m[y] = gens[y] /\ i < y
        BY <1>0, <2>1, <2>7, <3>2
      <4> QED
        BY <1>0, <2>1, <2>2, <3>2, <4>1
    <3>3. CASE y = i + 1 /\ x # i
      <4>1. m[x] = gens[x] /\ x < i
        BY <1>0, <2>1, <2>7, <3>3
      <4> QED
        BY <1>0, <2>1, <2>2, <3>3, <4>1
    <3>4. CASE x # i /\ x # i + 1 /\ y # i /\ y # i + 1
      BY <2>1, <2>2, <2>7, <3>4
    <3> QED
      BY <3>1, <3>2, <3>3, <3>4
  <2>8. lines > 0 => \E j \in 0 .. Keep : \E a \in DOMAIN m[j] : m[j][a].n = lines
    <3> SUFFICES ASSUME lines > 0 PROVE \E j \in 0 .. Keep : \E a \in DOMAIN m[j] : m[j][a].n = lines
      OBVIOUS
    <3>1. PICK j \in 0 .. Keep : \E a \in DOMAIN gens[j] : gens[j][a].n = lines
      BY DEF Sorted
    <3>2. PICK a \in DOMAIN gens[j] : gens[j][a].n = lines
      BY <3>1
    <3>3. j # i + 1
      <4> SUFFICES ASSUME j = i + 1 PROVE FALSE
        OBVIOUS
      <4>1. gens[i] \in Seq(Line)
        BY <1>0
      <4>2. 1 \in DOMAIN gens[i] /\ gens[i][1] \in Line
        BY <1>2, <4>1
      <4>3. gens[i][1].n \in Nat /\ gens[i][1].n <= lines
        BY <1>0, <2>2, <4>2 DEF Line
      <4>4. Older(gens[j], gens[i])
        BY <1>0, <2>2
      <4>5. lines < gens[i][1].n
        BY <3>2, <4>2, <4>4 DEF Older
      <4> QED
        BY <4>3, <4>5
    <3>4. CASE j = i
      BY <1>0, <2>1, <3>2, <3>4
    <3>5. CASE j # i
      BY <2>1, <3>2, <3>3, <3>5
    <3> QED
      BY <3>4, <3>5
  <2>9. Sorted(m, lines)
    BY <2>5, <2>6, <2>7, <2>8 DEF Sorted
  <2> QED
    BY <2>9 DEF m
<1> QED
  BY <1>1, <1>2

\* What renaming generations Keep - 1 down to i has made of the files.
Stage(gens, lines, failed, g, i) ==
    /\ g \in [0 .. Keep -> Seq(Line)]
    /\ Sorted(g, lines)
    /\ Numbered(gens, lines) /\ ~Holes(gens, i, failed) => Numbered(g, lines)
    /\ \A j \in 0 .. i - 1 : g[j] = gens[j]
    /\ i # Keep => IF i \in failed THEN g[i] = gens[i] ELSE g[i] = <<>>
    /\ \A j \in 0 .. Keep : g[j] = <<>> \/ \E x \in 0 .. Keep : g[j] = gens[x]

LEMMA StageStep ==
    ASSUME NEW gens \in [0 .. Keep -> Seq(Line)], NEW lines \in Nat, NEW failed \in Failures, NEW g,
           NEW i \in 0 .. Keep - 1, Stage(gens, lines, failed, g, i + 1)
    PROVE  Stage(gens, lines, failed, IF i \in failed THEN g ELSE Rename(g, i), i)
<1>0. Keep \in Nat /\ i \in 0 .. Keep /\ i + 1 \in 0 .. Keep /\ i # Keep /\ i \in 0 .. (i + 1) - 1
  BY LogAssumption
<1>1. /\ g \in [0 .. Keep -> Seq(Line)] /\ Sorted(g, lines)
      /\ \A j \in 0 .. i : g[j] = gens[j]
      /\ \A j \in 0 .. Keep : g[j] = <<>> \/ \E x \in 0 .. Keep : g[j] = gens[x]
  BY <1>0 DEF Stage
<1>2. ~Holes(gens, i, failed) => ~Holes(gens, i + 1, failed)
  <2> SUFFICES ASSUME Holes(gens, i + 1, failed) PROVE Holes(gens, i, failed)
    OBVIOUS
  <2>1. PICK x \in failed : x > i + 1 /\ x - 1 \notin failed /\ gens[x] # <<>> /\ gens[x - 1] # <<>>
    BY DEF Holes
  <2>2. x \in 0 .. Keep - 1 /\ x > i
    BY <1>0, <2>1 DEF Failures
  <2> QED
    BY <2>1, <2>2 DEF Holes
<1>3. CASE i \in failed
  <2>1. \A j \in 0 .. i - 1 : g[j] = gens[j]
    BY <1>0, <1>1
  <2>2. g[i] = gens[i]
    BY <1>0, <1>1
  <2>3. Numbered(gens, lines) /\ ~Holes(gens, i, failed) => Numbered(g, lines)
    BY <1>2 DEF Stage
  <2> QED
    BY <1>1, <1>3, <2>1, <2>2, <2>3 DEF Stage
<1>4. CASE i \notin failed
  <2> DEFINE r == Rename(g, i)
  <2>1. /\ r \in [0 .. Keep -> Seq(Line)] /\ r[i] = <<>>
        /\ r[i + 1] = IF g[i] = <<>> THEN g[i + 1] ELSE g[i]
        /\ \A j \in 0 .. Keep : j # i /\ j # i + 1 => r[j] = g[j]
    BY <1>1, RenameFields
  <2>2. Sorted(r, lines)
    BY <1>1, RenameSorted
  <2>3. ASSUME Numbered(gens, lines), ~Holes(gens, i, failed) PROVE Numbered(r, lines)
    <3>1. Numbered(g, lines)
      BY <1>2, <2>3 DEF Stage
    <3>2. g[i] = <<>> \/ g[i + 1] = <<>> \/ i + 1 = Keep
      <4>1. CASE i + 1 \in failed
        <5>1. i + 1 > i /\ (i + 1) - 1 = i
          BY <1>0
        <5>2. gens[i + 1] = <<>> \/ gens[i] = <<>>
          BY <1>4, <2>3, <4>1, <5>1 DEF Holes
        <5>3. g[i] = gens[i] /\ (i + 1 # Keep => g[i + 1] = gens[i + 1])
          BY <1>0, <1>1, <4>1 DEF Stage
        <5> QED
          BY <5>2, <5>3
      <4>2. CASE i + 1 \notin failed
        BY <4>2 DEF Stage
      <4> QED
        BY <4>1, <4>2
    <3> QED
      BY <1>1, <3>1, <3>2, RenameNumbered
  <2> HIDE DEF r
  <2>4. \A j \in 0 .. i - 1 : r[j] = gens[j]
    BY <1>0, <1>1, <2>1
  <2>5. \A j \in 0 .. Keep : r[j] = <<>> \/ \E x \in 0 .. Keep : r[j] = gens[x]
    BY <1>0, <1>1, <2>1
  <2>6. Stage(gens, lines, failed, r, i)
    BY <1>4, <2>1, <2>2, <2>3, <2>4, <2>5 DEF Stage
  <2> QED
    BY <1>4, <2>6 DEF r
<1> QED
  BY <1>3, <1>4

LEMMA ShiftedStage ==
    ASSUME NEW gens \in [0 .. Keep -> Seq(Line)], NEW lines \in Nat, Sorted(gens, lines), NEW failed \in Failures,
           NEW k \in 0 .. Keep
    PROVE  Stage(gens, lines, failed, Shifted(gens, k, failed), k)
<1>0. Keep \in Nat
  BY LogAssumption
<1>1. PICK after : /\ after[Keep] = gens
                   /\ \A i \in 0 .. Keep - 1 :
                         after[i] = IF i \in failed THEN after[i + 1] ELSE Rename(after[i + 1], i)
                   /\ Shifted(gens, k, failed) = after[k]
  BY ONLY ShiftedRecursion, k \in 0 .. Keep
<1> DEFINE At(i) == Stage(gens, lines, failed, after[i], i)
           S == {n \in Nat : n <= Keep => At(Keep - n)}
<1>2. 0 \in S
  <2>1. Keep - 0 = Keep /\ \A j \in 0 .. Keep - 1 : j \in 0 .. Keep
    BY <1>0
  <2>2. Stage(gens, lines, failed, gens, Keep)
    BY <2>1 DEF Stage
  <2> QED
    BY <1>1, <2>1, <2>2
<1>3. ASSUME NEW n \in Nat, n \in S PROVE n + 1 \in S
  <2> SUFFICES ASSUME n + 1 <= Keep PROVE At(Keep - (n + 1))
    OBVIOUS
  <2> DEFINE i == Keep - (n + 1)
  <2>1. i \in 0 .. Keep - 1 /\ i + 1 = Keep - n /\ n <= Keep
    BY <1>0
  <2>2. At(Keep - n)
    BY <1>3, <2>1
  <2> HIDE DEF i
  <2>3. Stage(gens, lines, failed, after[i + 1], i + 1)
    BY <2>1, <2>2
  <2>4. after[i] = IF i \in failed THEN after[i + 1] ELSE Rename(after[i + 1], i)
    BY <1>1, <2>1
  <2>5. Stage(gens, lines, failed, IF i \in failed THEN after[i + 1] ELSE Rename(after[i + 1], i), i)
    BY <2>1, <2>3, StageStep
  <2>6. At(i)
    BY <2>4, <2>5
  <2> QED
    BY <2>6 DEF i
<1>4. Nat \subseteq S
  <2> HIDE DEF S
  <2> QED
    BY <1>2, <1>3, SetInduction
<1>5. Keep - k \in S /\ Keep - k <= Keep /\ Keep - (Keep - k) = k
  <2>1. Keep - k \in Nat /\ Keep - k <= Keep /\ Keep - (Keep - k) = k
    BY <1>0
  <2> HIDE DEF S
  <2> QED
    BY <1>4, <2>1
<1>6. At(k)
  <2> HIDE DEF At
  <2> QED
    BY <1>5
<1> QED
  BY <1>1, <1>6

LEMMA ShiftedKeeps ==
    ASSUME NEW l, LogInv(l), NEW k \in 0 .. Keep, NEW failed \in Failures
    PROVE  LogInv(Renamed(l, k, failed))
<1> DEFINE g == Shifted(l.gens, k, failed)
           hole == l.holed \/ Holes(l.gens, k, failed)
           r == Renamed(l, k, failed)
<1>1. /\ l \in Log /\ l.gens \in [0 .. Keep -> Seq(Line)] /\ l.lines \in Nat
      /\ l.degraded \in BOOLEAN /\ l.size \in Nat /\ l.holed \in BOOLEAN
  BY LogFields DEF LogInv
<1>2. Stage(l.gens, l.lines, failed, g, k)
  BY <1>1, ShiftedStage DEF LogInv
<1>3. r = [gens |-> g, size |-> l.size, lines |-> l.lines, degraded |-> l.degraded, holed |-> hole]
  <2>1. r = [l EXCEPT !.gens = g, !.holed = hole]
    BY DEF Renamed
  <2> HIDE DEF g, hole, r
  <2> QED
    BY <1>1, <2>1 DEF Log
<1>4. hole \in BOOLEAN
  BY <1>1 DEF Holes
<1> HIDE DEF g, hole, r
<1>5. r \in Log /\ r.gens = g /\ r.lines = l.lines /\ r.degraded = l.degraded /\ r.holed = hole
  BY <1>1, <1>2, <1>3, <1>4 DEF Log, Stage
<1>6. ~r.holed => Numbered(r.gens, r.lines)
  BY <1>2, <1>5 DEF LogInv, Stage, hole
<1>7. Sorted(r.gens, r.lines)
  BY <1>2, <1>5 DEF Stage
<1>8. \A i \in 0 .. Keep : Solid(r.gens[i])
  BY <1>2, <1>5, EmptyFile DEF LogInv, Stage
<1>9. ~r.degraded => \A i \in 0 .. Keep : Fits(r.gens[i])
  BY <1>2, <1>5, EmptyFile DEF LogInv, Stage
<1>10. LogInv(r)
  BY <1>5, <1>6, <1>7, <1>8, <1>9 DEF LogInv
<1> QED
  BY <1>10 DEF r

LEMMA CutShortKeeps ==
    ASSUME NEW l, LogInv(l), NEW len, NEW r \in CutShort(l, len)
    PROVE  LogInv(r)
<1>1. CASE r = l
  BY <1>1
<1>2. CASE r # l
  <2>1. PICK k \in 0 .. Keep : r \in {Renamed(l, k, failed) : failed \in Failures}
    BY <1>2 DEF CutShort
  <2> QED
    BY <2>1, ShiftedKeeps
<1> QED
  BY <1>1, <1>2

LEMMA RotatedKeeps ==
    ASSUME NEW l, LogInv(l), NEW r \in Rotated(l)
    PROVE  LogInv(r) /\ SizeKnown(r) /\ r.size = 0
<1>0. l \in Log /\ 0 \in 0 .. Keep /\ 0 # Keep
  BY LogAssumption DEF LogInv
<1>1. PICK failed \in Failures :
             r = [Renamed(l, 0, failed) EXCEPT !.size = 0, !.degraded = @ \/ 0 \in failed]
  BY DEF Rotated
<1> DEFINE m == Renamed(l, 0, failed)
           fail == l.degraded \/ 0 \in failed
<1>2. LogInv(m)
  BY <1>0, ShiftedKeeps
<1>3. m.gens = Shifted(l.gens, 0, failed) /\ m.degraded = l.degraded
  BY <1>0 DEF Renamed, Log
<1>4. r = [m EXCEPT !.size = 0, !.degraded = fail]
  BY <1>1, <1>3
<1>5. fail \in BOOLEAN
  BY <1>0 DEF Log
<1>6. ~fail => m.gens[0] = <<>>
  <2>1. Stage(l.gens, l.lines, failed, m.gens, 0)
    BY <1>0, <1>3, LogFields, ShiftedStage DEF LogInv
  <2> QED
    BY <1>0, <2>1 DEF Stage
<1>7. fail = FALSE => m.degraded = FALSE
  BY <1>0, <1>3 DEF Log
<1> HIDE DEF m, fail
<1>8. /\ r \in Log /\ r.gens = m.gens /\ r.lines = m.lines /\ r.size = 0 /\ r.degraded = fail
      /\ r.holed = m.holed
  BY <1>2, <1>4, <1>5 DEF LogInv, Log
<1>9. LogInv(r)
  BY <1>2, <1>5, <1>7, <1>8 DEF LogInv
<1> QED
  BY <1>6, <1>8, <1>9, BytesEmpty DEF SizeKnown

\* A line more, within the cap or in a file of its own.
LEMMA AppendedKeeps ==
    ASSUME NEW l, LogInv(l), SizeKnown(l), NEW len \in Nat \ {0},
           l.size + len <= MaxBytes \/ l.size = 0
    PROVE  LogInv(Appended(l, len)) /\ SizeKnown(Appended(l, len))
<1> DEFINE r    == Appended(l, len)
           line == [n |-> l.lines + 1, len |-> len]
           new  == Append(l.gens[0], line)
<1>0. Keep \in Nat /\ Keep >= 1 /\ MaxBytes \in Nat
  BY LogAssumption
<1>1. l \in Log
  BY DEF LogInv
<1>2. /\ l.gens \in [0 .. Keep -> Seq(Line)] /\ l.size \in Nat /\ l.lines \in Nat
      /\ 0 \in 0 .. Keep /\ l.gens[0] \in Seq(Line)
  BY <1>1, LogFields
<1>3. line \in Line /\ line.len = len /\ line.n = l.lines + 1
  BY <1>2 DEF Line
<1>4. /\ new \in Seq(Line) /\ Len(new) = Len(l.gens[0]) + 1
      /\ \A k \in 1 .. Len(l.gens[0]) : new[k] = l.gens[0][k]
      /\ new[Len(l.gens[0]) + 1] = line /\ Len(l.gens[0]) \in Nat
      /\ DOMAIN new = 1 .. Len(new) /\ DOMAIN l.gens[0] = 1 .. Len(l.gens[0])
  <2> HIDE DEF line
  <2> QED
    BY <1>2, <1>3
<1>5. Bytes(new) = Bytes(l.gens[0]) + len
  <2> HIDE DEF line
  <2> QED
    BY <1>2, <1>3, BytesAppend
<1>6. /\ r.gens = [l.gens EXCEPT ![0] = new] /\ r.size = l.size + len /\ r.lines = l.lines + 1
      /\ r.degraded = l.degraded /\ r.holed = l.holed /\ r \in Log
  <2>1. r = [l EXCEPT !.gens = [l.gens EXCEPT ![0] = new], !.size = l.size + len, !.lines = l.lines + 1]
    BY <1>1 DEF Appended, Log
  <2>2. [l.gens EXCEPT ![0] = new] \in [0 .. Keep -> Seq(Line)]
    <3> HIDE DEF new
    <3> QED
      BY <1>2, <1>4
  <2>3. r = [gens |-> [l.gens EXCEPT ![0] = new], size |-> l.size + len, lines |-> l.lines + 1,
             degraded |-> l.degraded, holed |-> l.holed]
    <3> DEFINE G == [l.gens EXCEPT ![0] = new]
    <3>1. r = [l EXCEPT !.gens = G, !.size = l.size + len, !.lines = l.lines + 1]
      BY <2>1
    <3> HIDE DEF new, r, G
    <3>2. r = [gens |-> G, size |-> l.size + len, lines |-> l.lines + 1, degraded |-> l.degraded,
                holed |-> l.holed]
      BY <1>1, <3>1 DEF Log
    <3> QED
      BY <3>2 DEF G
  <2>4. l.size + len \in Nat /\ l.lines + 1 \in Nat /\ l.degraded \in BOOLEAN /\ l.holed \in BOOLEAN
    BY <1>1, <1>2, LogFields
  <2> HIDE DEF new, r
  <2> QED
    BY <2>2, <2>3, <2>4 DEF Log
<1> HIDE DEF r, new, line
<1>7. r.gens[0] = new /\ \A i \in 0 .. Keep : i # 0 => r.gens[i] = l.gens[i]
  BY <1>2, <1>6
<1>8. ~r.holed => Numbered(r.gens, r.lines)
  <2> SUFFICES ASSUME ~l.holed PROVE Numbered(r.gens, r.lines)
    BY <1>6
  <2>1. PICK e \in [0 .. Keep + 1 -> Nat] :
               /\ e[0] = l.lines
               /\ e[Keep + 1] > 0 => l.gens[Keep] # <<>>
               /\ \A i \in 0 .. Keep : Holds(l.gens[i], e[i + 1], e[i])
    BY DEF LogInv, Numbered
  <2> DEFINE d == [e EXCEPT ![0] = l.lines + 1]
  <2>2. /\ d \in [0 .. Keep + 1 -> Nat] /\ d[0] = l.lines + 1
        /\ \A i \in 1 .. Keep + 1 : d[i] = e[i]
    BY <1>0, <1>2
  <2> HIDE DEF d
  <2>3. Keep + 1 \in 1 .. Keep + 1 /\ Keep # 0 /\ Keep \in 0 .. Keep /\ 1 \in 1 .. Keep + 1 /\ 0 + 1 = 1
    BY <1>0
  <2>4. e[1] \in Nat /\ Holds(l.gens[0], e[1], l.lines)
    <3>1. 1 \in 0 .. Keep + 1
      BY <1>0
    <3> QED
      BY <1>2, <2>1, <2>3, <3>1
  <2>5. Holds(new, e[1], l.lines + 1)
    <3>1. Len(l.gens[0]) = l.lines - e[1] /\ \A k \in 1 .. Len(l.gens[0]) : l.gens[0][k].n = e[1] + k
      BY <2>4 DEF Holds
    <3>2. Len(new) = (l.lines + 1) - e[1]
      BY <1>2, <1>4, <2>4, <3>1
    <3>3. ASSUME NEW k \in 1 .. Len(new) PROVE new[k].n = e[1] + k
      <4>1. CASE k = Len(l.gens[0]) + 1
        BY <1>2, <1>3, <1>4, <2>4, <3>1, <4>1
      <4>2. CASE k \in 1 .. Len(l.gens[0])
        BY <1>4, <3>1, <4>2
      <4> QED
        BY <1>4, <4>1, <4>2
    <3> QED
      BY <1>4, <3>2, <3>3 DEF Holds
  <2>6. ASSUME NEW i \in 0 .. Keep PROVE Holds(r.gens[i], d[i + 1], d[i])
    <3>1. CASE i = 0
      BY <1>7, <2>2, <2>3, <2>5, <3>1
    <3>2. CASE i # 0
      <4>1. i \in 1 .. Keep + 1 /\ i + 1 \in 1 .. Keep + 1
        BY <1>0, <3>2
      <4> QED
        BY <1>7, <2>1, <2>2, <3>2, <4>1
    <3> QED
      BY <3>1, <3>2
  <2>7. d[0] = r.lines /\ (d[Keep + 1] > 0 => r.gens[Keep] # <<>>)
    BY <1>6, <1>7, <2>1, <2>2, <2>3
  <2> QED
    BY <2>2, <2>6, <2>7 DEF Numbered
<1>9. \A i \in 0 .. Keep : Solid(r.gens[i])
  <2>1. Solid(l.gens[0])
    BY <1>2 DEF LogInv
  <2>2. ASSUME NEW k \in DOMAIN new PROVE new[k].len > 0
    <3>1. CASE k = Len(l.gens[0]) + 1
      BY <1>3, <1>4, <3>1
    <3>2. CASE k \in 1 .. Len(l.gens[0])
      BY <1>4, <2>1, <3>2 DEF Solid
    <3> QED
      BY <1>4, <3>1, <3>2
  <2> QED
    BY <1>7, <2>2 DEF Solid, LogInv
<1>10. ~r.degraded => r.size = Bytes(r.gens[0])
  BY <1>5, <1>6, <1>7 DEF SizeKnown
<1>11. ~r.degraded => \A i \in 0 .. Keep : Fits(r.gens[i])
  <2> SUFFICES ASSUME ~r.degraded PROVE Fits(new)
    BY <1>6, <1>7 DEF LogInv
  <2>1. l.size = Bytes(l.gens[0]) /\ Solid(l.gens[0])
    BY <1>2, <1>6 DEF SizeKnown, LogInv
  <2>2. CASE l.size + len <= MaxBytes
    BY <1>5, <2>1, <2>2 DEF Fits
  <2>3. CASE l.size = 0
    <3>1. l.gens[0] = <<>>
      BY <1>2, <2>1, <2>3, BytesPositive DEF Solid
    <3>2. Len(l.gens[0]) = 0
      BY <3>1
    <3> QED
      BY <1>4, <3>2 DEF Fits
  <2> QED
    BY <2>2, <2>3
<1>12. Sorted(r.gens, r.lines)
  <2>1. Sorted(l.gens, l.lines)
    BY DEF LogInv
  <2>2. \A i \in 0 .. Keep : \A a \in DOMAIN l.gens[i] : l.gens[i][a].n \in Nat /\ l.gens[i][a].n <= l.lines
    <3>1. ASSUME NEW i \in 0 .. Keep, NEW a \in DOMAIN l.gens[i] PROVE l.gens[i][a] \in Line
      <4>1. l.gens[i] \in Seq(Line)
        BY <1>2
      <4> QED
        BY <4>1
    <3> QED
      BY <2>1, <3>1 DEF Sorted, Line
  <2>3. /\ Len(new) \in DOMAIN new /\ new[Len(new)].n = l.lines + 1
        /\ \A a \in DOMAIN new : a = Len(new) \/ (a \in DOMAIN l.gens[0] /\ new[a] = l.gens[0][a])
        /\ \A a \in DOMAIN l.gens[0] : a < Len(new)
    BY <1>2, <1>3, <1>4
  <2>4. ASSUME NEW a \in DOMAIN new PROVE new[a].n <= l.lines + 1
    BY <1>2, <2>2, <2>3
  <2>5. Ordered(new)
    <3> SUFFICES ASSUME NEW a \in DOMAIN new, NEW b \in DOMAIN new, a < b PROVE new[a].n < new[b].n
      BY DEF Ordered
    <3>1. a \in DOMAIN l.gens[0] /\ new[a] = l.gens[0][a]
      BY <1>4, <2>3
    <3>2. CASE b = Len(new)
      BY <1>2, <2>2, <2>3, <3>1, <3>2
    <3>3. CASE b # Len(new)
      BY <1>2, <2>1, <2>3, <3>1, <3>3 DEF Sorted, Ordered
    <3> QED
      BY <3>2, <3>3
  <2>6. ASSUME NEW j \in 0 .. Keep, 0 < j PROVE Older(l.gens[j], new)
    <3> SUFFICES ASSUME NEW a \in DOMAIN l.gens[j], NEW b \in DOMAIN new
                 PROVE  l.gens[j][a].n < new[b].n
      BY DEF Older
    <3>1. CASE b = Len(new)
      BY <1>2, <2>2, <2>3, <3>1
    <3>2. CASE b # Len(new)
      <4>1. b \in DOMAIN l.gens[0] /\ new[b] = l.gens[0][b]
        BY <2>3, <3>2
      <4>2. Older(l.gens[j], l.gens[0])
        BY <1>2, <2>1, <2>6 DEF Sorted
      <4> QED
        BY <4>1, <4>2 DEF Older
    <3> QED
      BY <3>1, <3>2
  <2>7. \A i \in 0 .. Keep : \A a \in DOMAIN r.gens[i] : r.gens[i][a].n <= r.lines
    BY <1>2, <1>6, <1>7, <2>2, <2>4
  <2>8. \A i \in 0 .. Keep : Ordered(r.gens[i])
    BY <1>7, <2>1, <2>5 DEF Sorted
  <2>9. \A i, j \in 0 .. Keep : i < j => Older(r.gens[j], r.gens[i])
    <3> SUFFICES ASSUME NEW i \in 0 .. Keep, NEW j \in 0 .. Keep, i < j
                 PROVE  Older(r.gens[j], r.gens[i])
      OBVIOUS
    <3>1. j # 0 /\ 0 < j /\ r.gens[j] = l.gens[j]
      BY <1>0, <1>7
    <3>2. CASE i = 0
      BY <1>7, <2>6, <3>1, <3>2
    <3>3. CASE i # 0
      BY <1>7, <2>1, <3>1, <3>3 DEF Sorted
    <3> QED
      BY <3>2, <3>3
  <2>10. \E i \in 0 .. Keep : \E a \in DOMAIN r.gens[i] : r.gens[i][a].n = r.lines
    BY <1>2, <1>6, <1>7, <2>3
  <2> QED
    BY <2>7, <2>8, <2>9, <2>10 DEF Sorted
<1>13. LogInv(r) /\ SizeKnown(r)
  BY <1>6, <1>8, <1>9, <1>10, <1>11, <1>12 DEF LogInv, SizeKnown
<1> QED
  BY <1>13 DEF r

LEMMA WrittenKeeps ==
    ASSUME NEW l, LogInv(l), SizeKnown(l), NEW len \in Nat \ {0}, NEW r \in Written(l, len)
    PROVE  LogInv(r) /\ SizeKnown(r)
<1>1. l.size \in Nat /\ MaxBytes \in Nat
  BY LogFields, LogAssumption DEF LogInv
<1>2. CASE Overflows(l, len)
  <2>1. PICK m \in Rotated(l) : r = Appended(m, len)
    BY <1>2 DEF Written
  <2> QED
    BY <2>1, RotatedKeeps, AppendedKeeps
<1>3. CASE ~Overflows(l, len)
  <2>1. r = Appended(l, len) /\ (l.size + len <= MaxBytes \/ l.size = 0)
    BY <1>1, <1>3 DEF Written, Overflows
  <2> QED
    BY <2>1, AppendedKeeps
<1> QED
  BY <1>2, <1>3

\* The generations, one after the other, are the last lines in order.
LEMMA LogInvLast ==
    ASSUME NEW l, LogInv(l), ~l.holed
    PROVE  LastLinesKept(l)
<1> DEFINE s == [i \in 1 .. Keep + 1 |-> l.gens[Keep + 1 - i]]
<1>0. Keep \in Nat /\ Keep >= 1
  BY LogAssumption
<1>1. l.gens \in [0 .. Keep -> Seq(Line)] /\ l.lines \in Nat
  BY LogFields DEF LogInv
<1>2. PICK e \in [0 .. Keep + 1 -> Nat] :
             /\ e[0] = l.lines
             /\ e[Keep + 1] > 0 => l.gens[Keep] # <<>>
             /\ \A i \in 0 .. Keep : Holds(l.gens[i], e[i + 1], e[i])
  BY DEF LogInv, Numbered
<1> DEFINE d == [i \in 0 .. Keep + 1 |-> e[Keep + 1 - i]]
<1>3. s \in Seq(Seq(Line)) /\ Len(s) = Keep + 1 /\ s # <<>>
  <2>1. \A i \in 1 .. Keep + 1 : Keep + 1 - i \in 0 .. Keep
    BY <1>0
  <2>2. s \in [1 .. Keep + 1 -> Seq(Line)] /\ Keep + 1 \in Nat
    BY <1>0, <1>1, <2>1
  <2> HIDE DEF s
  <2>3. s \in Seq(Seq(Line)) /\ Len(s) = Keep + 1
    BY <2>2
  <2> QED
    BY <1>0, <2>3
<1>4. d \in [0 .. Len(s) -> Nat] /\ d[0] = e[Keep + 1] /\ d[Len(s)] = e[0]
  <2>1. \A i \in 0 .. Keep + 1 : Keep + 1 - i \in 0 .. Keep + 1
    BY <1>0
  <2>2. (Keep + 1) - (Keep + 1) = 0 /\ (Keep + 1) - 0 = Keep + 1 /\ {0, Keep + 1} \subseteq 0 .. Keep + 1
    BY <1>0
  <2>3. d \in [0 .. Keep + 1 -> Nat] /\ \A i \in 0 .. Keep + 1 : d[i] = e[Keep + 1 - i]
    BY <2>1
  <2>4. Len(s) = Keep + 1
    BY <1>3
  <2>5. d[0] = e[Keep + 1] /\ d[Keep + 1] = e[0]
    <3>1. ASSUME NEW i \in 0 .. Keep + 1, NEW j, j = Keep + 1 - i PROVE d[i] = e[j]
      BY <3>1
    <3>2. 0 \in 0 .. Keep + 1 /\ Keep + 1 \in 0 .. Keep + 1
      BY <1>0
    <3>3. Keep + 1 = Keep + 1 - 0 /\ 0 = Keep + 1 - (Keep + 1)
      BY <1>0
    <3> HIDE DEF d
    <3>4. d[0] = e[Keep + 1]
      BY ONLY <3>1, <3>2, <3>3
    <3>5. d[Keep + 1] = e[0]
      BY ONLY <3>1, <3>2, <3>3
    <3> QED
      BY <3>4, <3>5
  <2> HIDE DEF s, d
  <2> QED
    BY <2>2, <2>3, <2>4, <2>5
<1>5. \A i \in 1 .. Len(s) : Holds(s[i], d[i - 1], d[i])
  <2> SUFFICES ASSUME NEW i \in 1 .. Keep + 1 PROVE Holds(s[i], d[i - 1], d[i])
    BY <1>3
  <2>1. /\ Keep + 1 - i \in 0 .. Keep /\ (Keep + 1 - i) + 1 = Keep + 1 - (i - 1)
        /\ i \in 0 .. Keep + 1 /\ i - 1 \in 0 .. Keep + 1
    BY <1>0
  <2>2. s[i] = l.gens[Keep + 1 - i] /\ d[i] = e[Keep + 1 - i] /\ d[i - 1] = e[Keep + 1 - (i - 1)]
    BY <2>1
  <2> HIDE DEF s, d
  <2> QED
    BY <1>2, <2>1, <2>2
<1> DEFINE all == AllLines(l)
<1>6. Holds(all, e[Keep + 1], l.lines)
  <2>1. all = FlattenSeq(s)
    BY DEF AllLines
  <2> HIDE DEF s, d, all
  <2>2. Holds(FlattenSeq(s), d[0], d[Len(s)])
    BY <1>3, <1>4, <1>5, FlattenHolds
  <2> QED
    BY <1>2, <1>4, <2>1, <2>2
<1> HIDE DEF s, d, all
<1>7. LastLinesKept(l)
  <2>1. e[Keep + 1] \in Nat
    BY <1>0
  <2>2. Len(all) = l.lines - e[Keep + 1] /\ DOMAIN all = 1 .. Len(all)
    BY <1>6 DEF Holds
  <2>3. ASSUME NEW i \in DOMAIN all PROVE all[i].n = l.lines - Len(all) + i
    <3>1. all[i].n = e[Keep + 1] + i /\ i \in Nat
      BY <1>6, <2>2 DEF Holds
    <3> QED
      BY <1>1, <2>1, <2>2, <3>1
  <2>4. Len(all) < l.lines => l.gens[Keep] # <<>>
    BY <1>1, <1>2, <2>1, <2>2
  <2> QED
    BY <2>3, <2>4 DEF LastLinesKept, all
<1> QED
  BY <1>7

LEMMA LogInvWhole ==
    ASSUME NEW l, LogInv(l)
    PROVE  (~l.holed => LastLinesKept(l)) /\ InOrder(l) /\ Capped(l)
<1>1. InOrder(l)
  BY DEF LogInv, Sorted, InOrder
<1>2. Capped(l)
  BY DEF LogInv, Capped, Fits
<1> QED
  BY <1>1, <1>2, LogInvLast
=============================================================================
