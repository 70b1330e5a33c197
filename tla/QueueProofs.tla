---------------------------- MODULE QueueProofs ----------------------------
(***************************************************************************)
(* The FIFO queue of an asyncio.Lock as a sequence in which every waiter   *)
(* occurs once: a waiter comes at the end, the first one goes, and one     *)
(* that is cancelled leaves from wherever it is.  Each time the others     *)
(* stay, once each.                                                        *)
(***************************************************************************)
EXTENDS SequencesExt, SequenceTheorems, TLAPS

(* Who is in a queue.                                                      *)
LEMMA Members ==
    ASSUME NEW S, NEW s \in Seq(S)
    PROVE  /\ Len(s) \in Nat /\ DOMAIN s = 1 .. Len(s)
           /\ \A x : x \in ToSet(s) <=> \E i \in 1 .. Len(s) : s[i] = x
           /\ IsInjective(s) <=> \A i, j \in 1 .. Len(s) : s[i] = s[j] => i = j
BY LenProperties DEF ToSet, IsInjective

(* Nobody is in an empty queue.                                            *)
LEMMA NobodyWaits == ToSet(<< >>) = {} /\ IsInjective(<< >>)
BY DEF ToSet, IsInjective

(* A new waiter comes at the end.                                          *)
LEMMA Joins ==
    ASSUME NEW S, NEW s \in Seq(S), IsInjective(s), NEW x \in S, x \notin ToSet(s)
    PROVE  /\ Append(s, x) \in Seq(S) /\ IsInjective(Append(s, x))
           /\ ToSet(Append(s, x)) = ToSet(s) \cup {x}
<1> DEFINE t == Append(s, x)
           n == Len(s)
<1>1. /\ t \in Seq(S) /\ Len(t) = n + 1 /\ t[n + 1] = x
      /\ \A i \in 1 .. n : t[i] = s[i]
    BY AppendProperties
<1>2. n \in Nat
    BY Members
<1> HIDE DEF t, n
<1>3. \A y : y \in ToSet(t) <=> y \in ToSet(s) \/ y = x
    BY <1>1, <1>2, Members DEF n
<1>4. IsInjective(t)
    BY <1>1, <1>2, Members DEF n
<1> QED
    BY <1>1, <1>3, <1>4 DEF t

(* The first one goes.                                                     *)
LEMMA Served ==
    ASSUME NEW S, NEW s \in Seq(S), IsInjective(s), s # << >>
    PROVE  /\ Tail(s) \in Seq(S) /\ IsInjective(Tail(s))
           /\ Head(s) \in ToSet(s)
           /\ ToSet(Tail(s)) = ToSet(s) \ {Head(s)}
<1> DEFINE t == Tail(s)
           n == Len(s)
<1>1. /\ t \in Seq(S) /\ Len(t) = n - 1 /\ Head(s) = s[1]
      /\ \A i \in 1 .. n - 1 : t[i] = s[i + 1]
    BY HeadTailProperties
<1>2. n \in Nat /\ n # 0
    BY Members, EmptySeq
<1> HIDE DEF t, n
<1>o. \A j, k \in 1 .. n : s[j] = s[k] => j = k
    BY Members DEF n
<1>n. \A i \in 1 .. n - 1 : i + 1 \in 1 .. n /\ i + 1 # 1
    BY <1>2
<1>3. \A y : y \in ToSet(t) <=> y \in ToSet(s) /\ y # s[1]
  <2>1. ASSUME NEW y \in ToSet(t) PROVE y \in ToSet(s) /\ y # s[1]
    <3>1. PICK i \in 1 .. n - 1 : t[i] = y
        BY <2>1, <1>1, Members
    <3>2. s[i + 1] = y /\ i + 1 \in 1 .. n /\ i + 1 # 1
        BY <1>1, <1>n, <3>1
    <3>3. 1 \in 1 .. n
        BY <1>2
    <3> QED
        BY <1>o, <3>2, <3>3, Members DEF n
  <2>2. ASSUME NEW y \in ToSet(s), y # s[1] PROVE y \in ToSet(t)
    <3>1. PICK i \in 1 .. n : s[i] = y
        BY Members DEF n
    <3>2. i - 1 \in 1 .. n - 1 /\ t[i - 1] = y
        BY <1>1, <1>2, <2>2, <3>1
    <3> QED
        BY <1>1, <3>2, Members
  <2> QED
      BY <2>1, <2>2
<1>4. IsInjective(t)
  <2>1. ASSUME NEW j \in 1 .. n - 1, NEW k \in 1 .. n - 1, t[j] = t[k] PROVE j = k
    <3>1. s[j + 1] = s[k + 1]
        BY <1>1, <2>1
    <3>2. j + 1 = k + 1
        BY <1>o, <1>n, <3>1
    <3> QED
        BY <1>2, <3>2
  <2> QED
      BY <1>1, <2>1, Members
<1>5. s[1] \in ToSet(s)
    BY <1>2, Members DEF n
<1> QED
    BY <1>1, <1>3, <1>4, <1>5 DEF t

(* What is left when the waiter at place i goes.                           *)
LEMMA Without ==
    ASSUME NEW S, NEW s \in Seq(S), NEW i \in 1 .. Len(s)
    PROVE  LET t == RemoveAt(s, i)
           IN  /\ t \in Seq(S) /\ Len(t) = Len(s) - 1
               /\ \A j \in 1 .. i - 1 : t[j] = s[j]
               /\ \A j \in i .. Len(s) - 1 : t[j] = s[j + 1]
<1> DEFINE front == SubSeq(s, 1, i - 1)
           back  == SubSeq(s, i + 1, Len(s))
<1>1. Len(s) \in Nat
    BY LenProperties
<1>2. /\ front \in Seq(S) /\ Len(front) = i - 1
      /\ \A j \in 1 .. i - 1 : front[j] = s[j]
    BY <1>1, SubSeqProperties
<1>3. /\ back \in Seq(S) /\ Len(back) = Len(s) - i
      /\ \A j \in 1 .. Len(s) - i : back[j] = s[j + i]
    BY <1>1, SubSeqProperties
<1> HIDE DEF front, back
<1>4. /\ front \o back \in Seq(S) /\ Len(front \o back) = Len(s) - 1
      /\ \A j \in 1 .. Len(s) - 1 :
            (front \o back)[j] = IF j <= i - 1 THEN s[j] ELSE s[j + 1]
  <2>0. /\ front \o back \in Seq(S) /\ Len(front \o back) = Len(front) + Len(back)
        /\ \A j \in 1 .. Len(front) + Len(back) :
              (front \o back)[j] = IF j <= Len(front) THEN front[j] ELSE back[j - Len(front)]
      BY <1>2, <1>3, ConcatProperties
  <2>1. /\ front \o back \in Seq(S) /\ Len(front \o back) = Len(s) - 1
        /\ \A j \in 1 .. Len(s) - 1 :
              (front \o back)[j] = IF j <= i - 1 THEN front[j] ELSE back[j - (i - 1)]
    <3>1. Len(front) + Len(back) = Len(s) - 1
        BY <1>1, <1>2, <1>3
    <3> QED
        BY <1>2, <2>0, <3>1
  <2>2. ASSUME NEW j \in 1 .. Len(s) - 1, ~ (j <= i - 1)
        PROVE  back[j - (i - 1)] = s[j + 1]
    <3>1. j - (i - 1) \in 1 .. Len(s) - i /\ (j - (i - 1)) + i = j + 1
        BY <1>1, <2>2
    <3> QED
        BY <1>3, <3>1
  <2> QED
      BY <1>1, <1>2, <2>1, <2>2
<1>5. RemoveAt(s, i) = front \o back
    BY DEF RemoveAt, front, back
<1>6. ASSUME NEW j \in 1 .. i - 1 PROVE (front \o back)[j] = s[j]
  <2>1. j \in 1 .. Len(s) - 1 /\ j <= i - 1
      BY <1>1
  <2> QED
      BY <1>4, <2>1
<1>7. ASSUME NEW j \in i .. Len(s) - 1 PROVE (front \o back)[j] = s[j + 1]
  <2>1. j \in 1 .. Len(s) - 1 /\ ~ (j <= i - 1)
      BY <1>1
  <2> QED
      BY <1>4, <2>1
<1> QED
    BY <1>4, <1>5, <1>6, <1>7

(* A waiter that is cancelled leaves from wherever it is.                  *)
LEMMA Leaves ==
    ASSUME NEW S, NEW s \in Seq(S), IsInjective(s), NEW i \in DOMAIN s
    PROVE  /\ RemoveAt(s, i) \in Seq(S) /\ IsInjective(RemoveAt(s, i))
           /\ ToSet(RemoveAt(s, i)) = ToSet(s) \ {s[i]}
<1> DEFINE t == RemoveAt(s, i)
           n == Len(s)
<1>1. i \in 1 .. n /\ n \in Nat
    BY Members
<1>2. /\ t \in Seq(S) /\ Len(t) = n - 1
      /\ \A j \in 1 .. i - 1 : t[j] = s[j]
      /\ \A j \in i .. n - 1 : t[j] = s[j + 1]
    BY <1>1, Without
<1> HIDE DEF t, n
<1>o. \A j, k \in 1 .. n : s[j] = s[k] => j = k
    BY Members DEF n
<1>3. ASSUME NEW y \in ToSet(t) PROVE y \in ToSet(s) /\ y # s[i]
  <2>1. PICK j \in 1 .. n - 1 : t[j] = y
      BY <1>2, Members
  <2>2. CASE j < i
    <3>1. j \in 1 .. i - 1 /\ j \in 1 .. n /\ j # i
        BY <1>1, <2>2
    <3>2. s[j] = y
        BY <1>2, <2>1, <3>1
    <3> QED
        BY <1>1, <1>o, <3>1, <3>2, Members DEF n
  <2>3. CASE ~ (j < i)
    <3>1. j \in i .. n - 1 /\ j + 1 \in 1 .. n /\ j + 1 # i
        BY <1>1, <2>3
    <3>2. s[j + 1] = y
        BY <1>2, <2>1, <3>1
    <3> QED
        BY <1>1, <1>o, <3>1, <3>2, Members DEF n
  <2> QED
      BY <2>2, <2>3
<1>4. ASSUME NEW y \in ToSet(s), y # s[i] PROVE y \in ToSet(t)
  <2>1. PICK j \in 1 .. n : s[j] = y
      BY Members DEF n
  <2>2. CASE j < i
    <3>1. j \in 1 .. i - 1 /\ j \in 1 .. n - 1
        BY <1>1, <2>2
    <3>2. t[j] = y
        BY <1>2, <2>1, <3>1
    <3> QED
        BY <1>2, <3>1, <3>2, Members
  <2>3. CASE ~ (j < i)
    <3>1. j # i
        BY <1>4, <2>1
    <3>2. j - 1 \in i .. n - 1 /\ j - 1 \in 1 .. n - 1 /\ (j - 1) + 1 = j
        BY <1>1, <2>3, <3>1
    <3>3. t[j - 1] = y
        BY <1>2, <2>1, <3>2
    <3> QED
        BY <1>2, <3>2, <3>3, Members
  <2> QED
      BY <2>2, <2>3
<1>5. IsInjective(t)
  <2> DEFINE Was(j) == IF j < i THEN j ELSE j + 1
  <2>1. ASSUME NEW j \in 1 .. n - 1 PROVE t[j] = s[Was(j)] /\ Was(j) \in 1 .. n
    <3>1. CASE j < i
      <4>1. j \in 1 .. i - 1 /\ j \in 1 .. n
          BY <1>1, <3>1
      <4> QED
          BY <1>2, <3>1, <4>1
    <3>2. CASE ~ (j < i)
      <4>1. j \in i .. n - 1 /\ j + 1 \in 1 .. n
          BY <1>1, <3>2
      <4> QED
          BY <1>2, <3>2, <4>1
    <3> QED
        BY <3>1, <3>2
  <2>2. ASSUME NEW j \in 1 .. n - 1, NEW k \in 1 .. n - 1, t[j] = t[k] PROVE j = k
    <3>1. Was(j) = Was(k)
        BY <1>o, <2>1, <2>2
    <3> QED
        BY <1>1, <3>1
  <2> QED
      BY <1>2, <2>2, Members
<1> QED
    BY <1>2, <1>3, <1>4, <1>5 DEF t
=============================================================================
