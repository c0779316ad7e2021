------------------------ MODULE WriteSequenceProofs ------------------------
(***************************************************************************)
(* What Allowed and Keys compute, and steps of WriteImpl and sequence      *)
(* numbers: each action keeps SequenceInv of module WriteSequence.  From   *)
(* it and from DataInv follow OkMeansWritten, ReplayAgrees and             *)
(* PublishedApplied.                                                       *)
(***************************************************************************)
EXTENDS WriteSequence, TLAPS

\* A function may be defined by recursion along 0..n.
Recursive(n, f, b, G) == f[0] = b /\ \A i \in 1..n : f[i] = G[i][f[i - 1]]

\* Such a function exists; Allowed and Keys are defined by one.
LEMMA Recursion ==
  ASSUME Induction, NEW T, NEW b \in T, NEW G \in [Nat -> [T -> T]]
  PROVE  \A n \in Nat : \E f \in [0..n -> T] : Recursive(n, f, b, G)
<1> USE DEF Recursive
<1> DEFINE Def(n, f) == Recursive(n, f, b, G)
           S == {n \in Nat : \E f \in [0..n -> T] : Def(n, f)}
<1>1. 0 \in S
  <2>1. [i \in 0..0 |-> b] \in [0..0 -> T] /\ Def(0, [i \in 0..0 |-> b])
    OBVIOUS
  <2> QED BY <2>1, Zenon
<1>2. ASSUME NEW n \in Nat, n \in S PROVE n + 1 \in S
  <2>1. PICK f \in [0..n -> T] : Def(n, f)
    BY <1>2, Zenon
  <2> DEFINE e == [i \in 0..(n + 1) |-> IF i <= n THEN f[i] ELSE G[n + 1][f[n]]]
  <2>2. e \in [0..(n + 1) -> T]
    OBVIOUS
  <2>3. Def(n + 1, e)
    <3>1. e[0] = b
      BY <2>1
    <3>2. ASSUME NEW i \in 1..(n + 1) PROVE e[i] = G[i][e[i - 1]]
      <4>1. CASE i <= n
        BY <2>1, <4>1
      <4>2. CASE i = n + 1
        BY <4>2
      <4> QED BY <4>1, <4>2
    <3> HIDE DEF e
    <3> QED BY <3>1, <3>2, Zenon
  <2>4. n + 1 \in Nat
    OBVIOUS
  <2> HIDE DEF e, Def
  <2> QED BY <2>2, <2>3, <2>4, Zenon
<1>3. Nat \subseteq S
  <2> HIDE DEF S
  <2> QED BY <1>1, <1>2, Zenon DEF Induction
<1> QED BY <1>3, Zenon

\* Functions with the same recursion along 0..n are equal there.
Agree(n, f, h) ==
  f[0] = h[0] /\ \A i \in 1..n : f[i - 1] = h[i - 1] => f[i] = h[i]

\* By induction: a longer prefix of a group does not change what Allowed and
\* Keys computed for a shorter one.
LEMMA SameRecursion ==
  ASSUME Induction, NEW n \in Nat, NEW f, NEW h, Agree(n, f, h)
  PROVE  \A i \in 0..n : f[i] = h[i]
<1> DEFINE S == {i \in Nat : i <= n => f[i] = h[i]}
<1>1. 0 \in S
  BY Zenon DEF Agree
<1>2. ASSUME NEW i \in Nat, i \in S PROVE i + 1 \in S
  <2>1. CASE i + 1 <= n
    <3>1. i + 1 \in 1..n /\ (i + 1) - 1 = i /\ f[i] = h[i]
      BY <1>2, <2>1
    <3> QED BY <3>1 DEF Agree
  <2> QED BY <2>1
<1>3. Nat \subseteq S
  <2> HIDE DEF S
  <2> QED BY <1>1, <1>2, Zenon DEF Induction
<1> QED BY <1>3

\* Allowed, one writer at a time.
LEMMA AllowedStep ==
  ASSUME Induction, NEW g \in Seq(Writer), NEW x \in Writer
  PROVE  /\ Allowed(g) \in Seq(Writer)
         /\ Allowed(Append(g, x)) =
              IF Refuses(x) THEN Allowed(g) ELSE Append(Allowed(g), x)
<1> DEFINE Body(q, f) ==
      [i \in 0..Len(q) |-> IF i = 0 THEN <<>>
         ELSE IF request[q[i]].callback = "refuses" THEN f[i - 1]
         ELSE Append(f[i - 1], q[i])]
<1>1. ASSUME NEW q \in Seq(Writer)
      PROVE  \E f \in [0..Len(q) -> Seq(Writer)] : f = Body(q, f) /\ Allowed(q) = f[Len(q)]
  <2> DEFINE G == [i \in Nat |-> [a \in Seq(Writer) |->
                 IF i \in 1..Len(q) /\ request[q[i]].callback # "refuses"
                 THEN Append(a, q[i]) ELSE a]]
             c == CHOOSE f : f = Body(q, f)
  <2>1. G \in [Nat -> [Seq(Writer) -> Seq(Writer)]]
    <3>1. ASSUME NEW i \in Nat, NEW a \in Seq(Writer)
          PROVE  (IF i \in 1..Len(q) /\ request[q[i]].callback # "refuses"
                  THEN Append(a, q[i]) ELSE a) \in Seq(Writer)
      OBVIOUS
    <3> QED BY <3>1, Zenon
  <2>2. <<>> \in Seq(Writer) /\ Len(q) \in Nat
    OBVIOUS
  <2>3. PICK f \in [0..Len(q) -> Seq(Writer)] :
           f[0] = <<>> /\ \A i \in 1..Len(q) : f[i] = G[i][f[i - 1]]
    <3> HIDE DEF G
    <3>1. \A n \in Nat : \E f \in [0..n -> Seq(Writer)] : Recursive(n, f, <<>>, G)
      BY <2>1, <2>2, Recursion, Zenon
    <3> QED BY <2>2, <3>1, Zenon DEF Recursive
  <2>4. ASSUME NEW i \in 0..Len(q) PROVE f[i] = Body(q, f)[i]
    <3>1. CASE i = 0
      BY <2>3, <3>1, Zenon
    <3>2. CASE i \in 1..Len(q)
      <4>1. f[i - 1] \in Seq(Writer) /\ i \in Nat /\ f[i] = G[i][f[i - 1]]
        <5> HIDE DEF G, Body
        <5>1. i - 1 \in 0..Len(q) /\ i \in Nat
          BY <3>2
        <5> QED BY <2>3, <3>2, <5>1, Zenon
      <4>2. G[i][f[i - 1]] = IF i \in 1..Len(q) /\ request[q[i]].callback # "refuses"
                 THEN Append(f[i - 1], q[i]) ELSE f[i - 1]
        BY <4>1, Zenon
      <4> HIDE DEF G
      <4> QED BY <3>2, <4>1, <4>2
    <3> QED BY <3>1, <3>2
  <2>5. f = Body(q, f)
    BY <2>4, Zenon
  <2>6. c = Body(q, c)
    BY <2>5, Zenon
  <2>7. Allowed(q) = c[Len(q)]
    BY Zenon DEF Allowed
  <2>8. \A i \in 0..Len(q) : c[i] = f[i]
    <3> HIDE DEF c
    <3>1. c[0] = f[0]
      BY <2>5, <2>6
    <3>2. ASSUME NEW i \in 1..Len(q), c[i - 1] = f[i - 1] PROVE c[i] = f[i]
      <4>1. i \in 0..Len(q) /\ i # 0
        OBVIOUS
      <4>2. c[i] = Body(q, c)[i] /\ f[i] = Body(q, f)[i]
        BY <2>5, <2>6, Zenon
      <4> QED BY <3>2, <4>1, <4>2, Zenon
    <3> HIDE DEF Body
    <3>3. \A i \in 1..Len(q) : c[i - 1] = f[i - 1] => c[i] = f[i]
      BY <3>2, Zenon
    <3>4. Agree(Len(q), c, f)
      BY <3>1, <3>3, Zenon DEF Agree
    <3> QED BY <2>2, <3>4, SameRecursion
  <2>9. Allowed(q) = f[Len(q)]
    <3> HIDE DEF c
    <3> QED BY <2>2, <2>7, <2>8
  <2> QED BY <2>5, <2>9, Zenon
<1> DEFINE p == Append(g, x)
<1>2. p \in Seq(Writer) /\ Len(p) = Len(g) + 1 /\ p[Len(p)] = x
      /\ \A i \in 1..Len(g) : p[i] = g[i]
  OBVIOUS
<1> HIDE DEF p
<1>3. PICK f \in [0..Len(g) -> Seq(Writer)] : f = Body(g, f) /\ Allowed(g) = f[Len(g)]
  BY <1>1, Zenon
<1>4. PICK h \in [0..Len(p) -> Seq(Writer)] : h = Body(p, h) /\ Allowed(p) = h[Len(p)]
  BY <1>1, <1>2, Zenon
<1>5. Len(g) \in Nat /\ Len(p) \in 0..Len(p) /\ Len(p) # 0 /\ Len(p) - 1 = Len(g)
  BY <1>2
<1>6. \A i \in 0..Len(g) : h[i] = f[i]
  <2>1. h[0] = f[0]
    BY <1>2, <1>3, <1>4, <1>5
  <2>2. ASSUME NEW i \in 1..Len(g), h[i - 1] = f[i - 1] PROVE h[i] = f[i]
    <3>1. i \in 0..Len(g) /\ i \in 0..Len(p) /\ i # 0 /\ p[i] = g[i]
      BY <1>2
    <3>2. h[i] = Body(p, h)[i] /\ f[i] = Body(g, f)[i]
      BY <1>3, <1>4, Zenon
    <3> QED BY <2>2, <3>1, <3>2, Zenon
  <2> HIDE DEF Body
  <2>3. \A i \in 1..Len(g) : h[i - 1] = f[i - 1] => h[i] = f[i]
    BY <2>2, Zenon
  <2>4. Agree(Len(g), h, f)
    BY <2>1, <2>3, Zenon DEF Agree
  <2> QED BY <1>5, <2>4, SameRecursion
<1>7. h[Len(p)] = IF request[x].callback = "refuses" THEN h[Len(g)] ELSE Append(h[Len(g)], x)
  <2>1. h[Len(p)] = Body(p, h)[Len(p)]
    BY <1>4, Zenon
  <2> QED BY <1>2, <1>5, <2>1, Zenon
<1>8. h[Len(g)] = f[Len(g)] /\ f[Len(g)] \in Seq(Writer)
  <2> HIDE DEF Body
  <2>1. Len(g) \in 0..Len(g)
    BY <1>5
  <2> QED BY <1>3, <1>6, <2>1, Zenon
<1> HIDE DEF Body
<1> QED BY <1>3, <1>4, <1>7, <1>8, Zenon DEF p, Refuses

\* Keys, one writer at a time.
LEMMA KeysStep ==
  ASSUME Induction, \A y \in Writer : request[y].count \in Nat,
         NEW g \in Seq(Writer), NEW x \in Writer
  PROVE  /\ Keys(g) \in Nat
         /\ Keys(Append(g, x)) = Keys(g) + request[x].count
<1> DEFINE Body(q, f) ==
      [i \in 0..Len(q) |-> IF i = 0 THEN 0 ELSE f[i - 1] + request[q[i]].count]
<1>1. ASSUME NEW q \in Seq(Writer)
      PROVE  \E f \in [0..Len(q) -> Nat] : f = Body(q, f) /\ Keys(q) = f[Len(q)]
  <2> DEFINE G == [i \in Nat |-> [a \in Nat |->
                 IF i \in 1..Len(q) THEN a + request[q[i]].count ELSE a]]
             c == CHOOSE f : f = Body(q, f)
  <2>1. G \in [Nat -> [Nat -> Nat]]
    <3>1. ASSUME NEW i \in Nat, NEW a \in Nat
          PROVE  (IF i \in 1..Len(q) THEN a + request[q[i]].count ELSE a) \in Nat
      OBVIOUS
    <3> QED BY <3>1, Zenon
  <2>2. 0 \in Nat /\ Len(q) \in Nat
    OBVIOUS
  <2>3. PICK f \in [0..Len(q) -> Nat] :
           f[0] = 0 /\ \A i \in 1..Len(q) : f[i] = G[i][f[i - 1]]
    <3> HIDE DEF G
    <3>1. \A n \in Nat : \E f \in [0..n -> Nat] : Recursive(n, f, 0, G)
      BY <2>1, <2>2, Recursion, Zenon
    <3> QED BY <2>2, <3>1, Zenon DEF Recursive
  <2>4. ASSUME NEW i \in 0..Len(q) PROVE f[i] = Body(q, f)[i]
    <3>1. CASE i = 0
      BY <2>3, <3>1, Zenon
    <3>2. CASE i \in 1..Len(q)
      <4>1. f[i - 1] \in Nat /\ i \in Nat /\ f[i] = G[i][f[i - 1]]
        <5> HIDE DEF G, Body
        <5>1. i - 1 \in 0..Len(q) /\ i \in Nat
          BY <3>2
        <5> QED BY <2>3, <3>2, <5>1, Zenon
      <4>2. G[i][f[i - 1]] = IF i \in 1..Len(q) THEN f[i - 1] + request[q[i]].count
                         ELSE f[i - 1]
        BY <4>1, Zenon
      <4> HIDE DEF G
      <4> QED BY <3>2, <4>1, <4>2
    <3> QED BY <3>1, <3>2
  <2>5. f = Body(q, f)
    BY <2>4, Zenon
  <2>6. c = Body(q, c)
    BY <2>5, Zenon
  <2>7. Keys(q) = c[Len(q)]
    BY Zenon DEF Keys
  <2>8. \A i \in 0..Len(q) : c[i] = f[i]
    <3> HIDE DEF c
    <3>1. c[0] = f[0]
      BY <2>5, <2>6
    <3>2. ASSUME NEW i \in 1..Len(q), c[i - 1] = f[i - 1] PROVE c[i] = f[i]
      <4>1. i \in 0..Len(q) /\ i # 0
        OBVIOUS
      <4>2. c[i] = Body(q, c)[i] /\ f[i] = Body(q, f)[i]
        BY <2>5, <2>6, Zenon
      <4> QED BY <3>2, <4>1, <4>2, Zenon
    <3> HIDE DEF Body
    <3>3. \A i \in 1..Len(q) : c[i - 1] = f[i - 1] => c[i] = f[i]
      BY <3>2, Zenon
    <3>4. Agree(Len(q), c, f)
      BY <3>1, <3>3, Zenon DEF Agree
    <3> QED BY <2>2, <3>4, SameRecursion
  <2>9. Keys(q) = f[Len(q)]
    <3> HIDE DEF c
    <3> QED BY <2>2, <2>7, <2>8
  <2> QED BY <2>5, <2>9, Zenon
<1> DEFINE p == Append(g, x)
<1>2. p \in Seq(Writer) /\ Len(p) = Len(g) + 1 /\ p[Len(p)] = x
      /\ \A i \in 1..Len(g) : p[i] = g[i]
  OBVIOUS
<1> HIDE DEF p
<1>3. PICK f \in [0..Len(g) -> Nat] : f = Body(g, f) /\ Keys(g) = f[Len(g)]
  BY <1>1, Zenon
<1>4. PICK h \in [0..Len(p) -> Nat] : h = Body(p, h) /\ Keys(p) = h[Len(p)]
  BY <1>1, <1>2, Zenon
<1>5. Len(g) \in Nat /\ Len(p) \in 0..Len(p) /\ Len(p) # 0 /\ Len(p) - 1 = Len(g)
  BY <1>2
<1>6. \A i \in 0..Len(g) : h[i] = f[i]
  <2>1. h[0] = f[0]
    BY <1>2, <1>3, <1>4, <1>5
  <2>2. ASSUME NEW i \in 1..Len(g), h[i - 1] = f[i - 1] PROVE h[i] = f[i]
    <3>1. i \in 0..Len(g) /\ i \in 0..Len(p) /\ i # 0 /\ p[i] = g[i]
      BY <1>2
    <3>2. h[i] = Body(p, h)[i] /\ f[i] = Body(g, f)[i]
      BY <1>3, <1>4, Zenon
    <3> QED BY <2>2, <3>1, <3>2, Zenon
  <2> HIDE DEF Body
  <2>3. \A i \in 1..Len(g) : h[i - 1] = f[i - 1] => h[i] = f[i]
    BY <2>2, Zenon
  <2>4. Agree(Len(g), h, f)
    BY <2>1, <2>3, Zenon DEF Agree
  <2> QED BY <1>5, <2>4, SameRecursion
<1>7. h[Len(p)] = h[Len(g)] + request[x].count
  <2>1. h[Len(p)] = Body(p, h)[Len(p)]
    BY <1>4, Zenon
  <2> QED BY <1>2, <1>5, <2>1, Zenon
<1>8. h[Len(g)] = f[Len(g)] /\ f[Len(g)] \in Nat
  <2> HIDE DEF Body
  <2>1. Len(g) \in 0..Len(g)
    BY <1>5
  <2> QED BY <1>3, <1>6, <2>1, Zenon
<1> HIDE DEF Body
<1> QED BY <1>3, <1>4, <1>7, <1>8, Zenon DEF p

\* Induction over the sequences of writers.
LEMMA SequenceInduction ==
  ASSUME Induction, NEW S, <<>> \in S,
         \A g \in Seq(Writer) : \A x \in Writer : g \in S => Append(g, x) \in S
  PROVE  Seq(Writer) \subseteq S
<1> DEFINE N == {n \in Nat : \A g \in Seq(Writer) : Len(g) = n => g \in S}
<1>1. 0 \in N
  <2>1. \A g \in Seq(Writer) : Len(g) = 0 => g = <<>>
    OBVIOUS
  <2> QED BY <2>1, Zenon
<1>2. ASSUME NEW n \in Nat, n \in N PROVE n + 1 \in N
  <2>1. SUFFICES ASSUME NEW g \in Seq(Writer), Len(g) = n + 1 PROVE g \in S
    OBVIOUS
  <2> DEFINE f == SubSeq(g, 1, n)
  <2>2. f \in Seq(Writer) /\ Len(f) = n /\ g[n + 1] \in Writer
    BY <2>1
  <2>3. g = Append(f, g[n + 1])
    BY <2>1, <2>2
  <2>4. f \in S
    BY <1>2, <2>2, Zenon
  <2> HIDE DEF f
  <2> QED BY <2>2, <2>3, <2>4, Zenon
<1>3. Nat \subseteq N
  <2> HIDE DEF N
  <2> QED BY <1>1, <1>2, Zenon DEF Induction
<1>4. ASSUME NEW g \in Seq(Writer) PROVE g \in S
  <2>1. Len(g) \in N
    BY <1>3
  <2> QED BY <2>1, Zenon
<1> QED BY <1>4, Zenon

\* No writer is allowed of none.
LEMMA AllowedEmpty == Allowed(<<>>) = <<>>
<1> DEFINE Body(f) ==
      [i \in 0..Len(<<>>) |-> IF i = 0 THEN <<>>
         ELSE IF request[<<>>[i]].callback = "refuses" THEN f[i - 1]
         ELSE Append(f[i - 1], <<>>[i])]
    c == CHOOSE f : f = Body(f)
<1>1. Allowed(<<>>) = c[Len(<<>>)]
  BY Zenon DEF Allowed
<1> DEFINE e == [i \in 0..Len(<<>>) |-> <<>>]
<1>2. e = Body(e)
  OBVIOUS
<1>3. c = Body(c)
  BY <1>2, Zenon
<1>4. c[0] = Body(c)[0]
  BY <1>3, Zenon
<1>5. Body(c)[0] = <<>>
  OBVIOUS
<1>6. Len(<<>>) = 0
  BY Zenon
<1> HIDE DEF c, Body
<1> QED BY <1>1, <1>4, <1>5, <1>6, Zenon

\* Their writers have no keys.
LEMMA KeysEmpty == Keys(<<>>) = 0
<1> DEFINE Body(f) ==
      [i \in 0..Len(<<>>) |-> IF i = 0 THEN 0 ELSE f[i - 1] + request[<<>>[i]].count]
    c == CHOOSE f : f = Body(f)
<1>1. Keys(<<>>) = c[Len(<<>>)]
  BY Zenon DEF Keys
<1> DEFINE e == [i \in 0..Len(<<>>) |-> 0]
<1>2. e = Body(e)
  OBVIOUS
<1>3. c = Body(c)
  BY <1>2, Zenon
<1>4. c[0] = Body(c)[0]
  BY <1>3, Zenon
<1>5. Body(c)[0] = 0
  OBVIOUS
<1>6. Len(<<>>) = 0
  BY Zenon
<1> HIDE DEF c, Body
<1> QED BY <1>1, <1>4, <1>5, <1>6, Zenon

\* Allowed keeps the writers that do not refuse.
LEMMA AllowedMembers ==
  ASSUME Induction, NEW g \in Seq(Writer)
  PROVE  /\ Allowed(g) \in Seq(Writer)
         /\ Members(Allowed(g)) = {x \in Members(g) : ~Refuses(x)}
<1> DEFINE S == {q \in Seq(Writer) : Members(Allowed(q)) = {x \in Members(q) : ~Refuses(x)}}
<1>1. <<>> \in S
  BY AllowedEmpty DEF Members
<1>2. ASSUME NEW q \in Seq(Writer), NEW x \in Writer, q \in S PROVE Append(q, x) \in S
  <2>1. \A f \in Seq(Writer) : Members(Append(f, x)) = Members(f) \cup {x}
    <3>1. SUFFICES ASSUME NEW f \in Seq(Writer)
                   PROVE  Members(Append(f, x)) = Members(f) \cup {x}
      BY Zenon
    <3> DEFINE e == Append(f, x)
    <3>2. /\ DOMAIN f = 1..Len(f) /\ DOMAIN e = 1..(Len(f) + 1) /\ Len(f) \in Nat
          /\ e[Len(f) + 1] = x /\ \A i \in 1..Len(f) : e[i] = f[i]
      OBVIOUS
    <3> HIDE DEF e
    <3>3. Members(e) = Members(f) \cup {x}
      BY <3>2 DEF Members
    <3> QED BY <3>3, Zenon DEF e
  <2>2. Append(q, x) \in Seq(Writer) /\ Allowed(q) \in Seq(Writer)
    BY AllowedStep
  <2>3. CASE Refuses(x)
    <3>1. Allowed(Append(q, x)) = Allowed(q)
      BY <2>3, AllowedStep, Zenon
    <3> QED BY <1>2, <2>1, <2>2, <2>3, <3>1, Zenon
  <2>4. CASE ~Refuses(x)
    <3>1. Allowed(Append(q, x)) = Append(Allowed(q), x)
      BY <2>4, AllowedStep, Zenon
    <3> QED BY <1>2, <2>1, <2>2, <2>4, <3>1, Zenon
  <2> QED BY <2>3, <2>4, Zenon
<1>3. Seq(Writer) \subseteq S
  <2> HIDE DEF S
  <2> QED BY <1>1, <1>2, SequenceInduction, Zenon
<1>4. Allowed(g) \in Seq(Writer)
  <2>1. CASE Writer = {}
    <3>1. g = <<>>
      BY <2>1
    <3> QED BY <3>1, AllowedEmpty, Zenon
  <2>2. CASE Writer # {}
    BY <2>2, AllowedStep, Zenon
  <2> QED BY <2>1, <2>2, Zenon
<1> QED BY <1>3, <1>4, Zenon

\* A prefix of what is allowed is what is allowed of a prefix.
LEMMA AllowedPrefix ==
  ASSUME Induction, NEW g \in Seq(Writer), NEW j \in 1..Len(Allowed(g))
  PROVE  \E k \in 1..Len(g) : /\ Allowed(g)[j] = g[k]
                              /\ SubSeq(Allowed(g), 1, j - 1) = Allowed(SubSeq(g, 1, k - 1))
<1> DEFINE Found(q, i) ==
      \E k \in 1..Len(q) : /\ Allowed(q)[i] = q[k]
                           /\ SubSeq(Allowed(q), 1, i - 1) = Allowed(SubSeq(q, 1, k - 1))
    S == {q \in Seq(Writer) : \A i \in 1..Len(Allowed(q)) : Found(q, i)}
<1>1. <<>> \in S
  BY AllowedEmpty
<1>2. ASSUME NEW q \in Seq(Writer), NEW x \in Writer, q \in S PROVE Append(q, x) \in S
  <2> DEFINE p == Append(q, x)
             a == Allowed(q)
  <2>1. /\ p \in Seq(Writer) /\ Len(p) = Len(q) + 1 /\ Len(q) \in Nat /\ p[Len(p)] = x
        /\ \A k \in 1..Len(q) : p[k] = q[k]
        /\ \A k \in 1..Len(q) : SubSeq(p, 1, k - 1) = SubSeq(q, 1, k - 1)
        /\ SubSeq(p, 1, Len(p) - 1) = q
    <3>1. p \in Seq(Writer) /\ Len(p) = Len(q) + 1 /\ Len(q) \in Nat /\ p[Len(p)] = x
          /\ \A k \in 1..Len(q) : p[k] = q[k]
      OBVIOUS
    <3> HIDE DEF p
    <3>2. ASSUME NEW k \in 1..Len(q) PROVE SubSeq(p, 1, k - 1) = SubSeq(q, 1, k - 1)
      BY <3>1
    <3>3. SubSeq(p, 1, Len(p) - 1) = q
      BY <3>1
    <3> QED BY <3>1, <3>2, <3>3, Zenon
  <2>2. a \in Seq(Writer) /\ Len(a) \in Nat
    BY AllowedStep
  <2>3. ASSUME NEW i \in 1..Len(a), NEW k \in 1..Len(q), a[i] = q[k],
               SubSeq(a, 1, i - 1) = Allowed(SubSeq(q, 1, k - 1))
        PROVE  k \in 1..Len(p) /\ a[i] = p[k] /\ SubSeq(a, 1, i - 1) = Allowed(SubSeq(p, 1, k - 1))
    <3>1. k \in 1..Len(p) /\ p[k] = q[k] /\ SubSeq(p, 1, k - 1) = SubSeq(q, 1, k - 1)
      BY <2>1
    <3> HIDE DEF p, a
    <3> QED BY <2>3, <3>1, Zenon
  <2>4. CASE Refuses(x)
    <3>1. Allowed(p) = a
      BY <2>4, AllowedStep, Zenon
    <3> HIDE DEF p, a
    <3>2. ASSUME NEW i \in 1..Len(Allowed(p)) PROVE Found(p, i)
      <4>1. i \in 1..Len(a)
        BY <3>1, Zenon
      <4>2. PICK k \in 1..Len(q) : a[i] = q[k] /\ SubSeq(a, 1, i - 1) = Allowed(SubSeq(q, 1, k - 1))
        BY <1>2, <4>1, Zenon DEF a
      <4> QED BY <2>3, <3>1, <4>1, <4>2, Zenon
    <3> QED BY <2>1, <3>2, Zenon DEF p
  <2>5. CASE ~Refuses(x)
    <3>1. Allowed(p) = Append(a, x)
      BY <2>5, AllowedStep, Zenon
    <3> HIDE DEF p, a
    <3>2. ASSUME NEW i \in 1..Len(Allowed(p)) PROVE Found(p, i)
      <4>1. CASE i \in 1..Len(a)
        <5>1. PICK k \in 1..Len(q) : a[i] = q[k] /\ SubSeq(a, 1, i - 1) = Allowed(SubSeq(q, 1, k - 1))
          BY <1>2, <4>1, Zenon DEF a
        <5>2. Allowed(p)[i] = a[i] /\ SubSeq(Allowed(p), 1, i - 1) = SubSeq(a, 1, i - 1)
          BY <2>2, <3>1, <4>1
        <5> QED BY <2>3, <4>1, <5>1, <5>2, Zenon
      <4>2. CASE i = Len(a) + 1
        <5>1. Allowed(p)[i] = x /\ SubSeq(Allowed(p), 1, i - 1) = a
          BY <2>2, <3>1, <4>2
        <5>2. Len(p) \in 1..Len(p)
          BY <2>1
        <5> QED BY <2>1, <5>1, <5>2, Zenon DEF a
      <4>3. Len(Allowed(p)) = Len(a) + 1
        BY <2>2, <3>1
      <4> QED BY <2>2, <4>1, <4>2, <4>3
    <3> QED BY <2>1, <3>2, Zenon DEF p
  <2> QED BY <2>4, <2>5, Zenon
<1>3. Seq(Writer) \subseteq S
  <2> HIDE DEF S
  <2> QED BY <1>1, <1>2, SequenceInduction, Zenon
<1> QED BY <1>3, Zenon

\* Batches have a number of keys.
LEMMA KeysAreNat ==
  ASSUME Induction, Numbers, NEW g \in Seq(Writer)
  PROVE  Keys(Allowed(g)) \in Nat
<1>1. CASE Writer = {}
  <2>1. g = <<>>
    BY <1>1
  <2> QED BY <2>1, AllowedEmpty, KeysEmpty
<1>2. CASE Writer # {}
  <2>1. PICK x : x \in Writer
    BY <1>2, Zenon
  <2>2. Allowed(g) \in Seq(Writer)
    BY <2>1, AllowedStep, Zenon
  <2> QED BY <2>1, <2>2, KeysStep, Zenon DEF Numbers
<1> QED BY <1>1, <1>2, Zenon

\* The keys before each writer of a group, one writer at a time.
Width(x) == IF Refuses(x) THEN 0 ELSE request[x].count

\* A writer whose callback refused takes no sequence numbers, another takes as
\* many as its batch has keys.
LEMMA OffsetStep ==
  ASSUME Induction, Numbers, NEW g \in Seq(Writer)
  PROVE  /\ Offset(g, 1) = 0 /\ Offset(g, Len(g) + 1) = Keys(Allowed(g))
         /\ \A k \in 1..(Len(g) + 1) : Offset(g, k) \in Nat
         /\ \A k \in 1..Len(g) : Offset(g, k + 1) = Offset(g, k) + Width(g[k])
<1>1. Offset(g, 1) = 0
  <2>1. SubSeq(g, 1, 1 - 1) = <<>>
    OBVIOUS
  <2> QED BY <2>1, AllowedEmpty, KeysEmpty, Zenon DEF Offset
<1>2. Offset(g, Len(g) + 1) = Keys(Allowed(g))
  <2>1. SubSeq(g, 1, (Len(g) + 1) - 1) = g
    OBVIOUS
  <2> QED BY <2>1, Zenon DEF Offset
<1>3. ASSUME NEW k \in 1..(Len(g) + 1) PROVE Offset(g, k) \in Nat
  <2>1. k - 1 \in 0..Len(g)
    OBVIOUS
  <2>2. SubSeq(g, 1, k - 1) \in Seq(Writer)
    BY <2>1
  <2> QED BY <2>2, KeysAreNat, Zenon DEF Offset
<1>4. ASSUME NEW k \in 1..Len(g) PROVE Offset(g, k + 1) = Offset(g, k) + Width(g[k])
  <2>1. PICK f, x : f = SubSeq(g, 1, k - 1) /\ x = g[k]
    BY Zenon
  <2>2. f \in Seq(Writer) /\ x \in Writer /\ SubSeq(g, 1, (k + 1) - 1) = Append(f, x)
    <3>1. f \in Seq(Writer) /\ x \in Writer /\ Len(f) = k - 1
      BY <2>1
    <3>2. SubSeq(g, 1, (k + 1) - 1) \in Seq(Writer) /\ Len(SubSeq(g, 1, (k + 1) - 1)) = k
      OBVIOUS
    <3>3. Append(f, x) \in Seq(Writer) /\ Len(Append(f, x)) = k
      BY <3>1
    <3>4. ASSUME NEW i \in 1..k PROVE SubSeq(g, 1, (k + 1) - 1)[i] = Append(f, x)[i]
      BY <2>1, <3>1
    <3> QED BY <3>1, <3>2, <3>3, <3>4
  <2>3. Allowed(f) \in Seq(Writer)
    BY <2>2, AllowedStep, Zenon
  <2>4. Keys(Allowed(f)) \in Nat
    BY <2>2, KeysAreNat, Zenon
  <2>5. CASE Refuses(x)
    <3>1. Allowed(Append(f, x)) = Allowed(f)
      BY <2>2, <2>5, AllowedStep, Zenon
    <3>2. Offset(g, k + 1) = Keys(Allowed(f)) /\ Offset(g, k) = Keys(Allowed(f))
      BY <2>1, <2>2, <3>1, Zenon DEF Offset
    <3>3. Width(g[k]) = 0
      BY <2>1, <2>5, Zenon DEF Width
    <3> QED BY <2>4, <3>2, <3>3
  <2>6. CASE ~Refuses(x)
    <3>1. Allowed(Append(f, x)) = Append(Allowed(f), x)
      BY <2>2, <2>6, AllowedStep, Zenon
    <3>2. Keys(Append(Allowed(f), x)) = Keys(Allowed(f)) + request[x].count
      BY <2>2, <2>3, KeysStep, Zenon DEF Numbers
    <3> QED BY <2>1, <2>2, <2>6, <3>1, <3>2, Zenon DEF Offset, Width
  <2> QED BY <2>5, <2>6, Zenon
<1> QED BY <1>1, <1>2, <1>3, <1>4, Zenon

\* Later writers have later keys.
LEMMA OffsetGrows ==
  ASSUME Induction, Numbers, NEW g \in Seq(Writer), NEW k \in 1..(Len(g) + 1),
         NEW m \in 1..(Len(g) + 1), k <= m
  PROVE  Offset(g, k) <= Offset(g, m)
<1> DEFINE S == {i \in Nat : k <= i /\ i <= Len(g) + 1 => Offset(g, k) <= Offset(g, i)}
<1>1. 0 \in S
  OBVIOUS
<1>2. ASSUME NEW i \in Nat, i \in S PROVE i + 1 \in S
  <2>1. SUFFICES ASSUME k <= i + 1, i + 1 <= Len(g) + 1 PROVE Offset(g, k) <= Offset(g, i + 1)
    OBVIOUS
  <2>2. Offset(g, k) \in Nat
    BY OffsetStep, Zenon
  <2>3. CASE k = i + 1
    BY <2>2, <2>3
  <2>4. CASE k <= i
    <3>1. i \in 1..Len(g) /\ i \in 1..(Len(g) + 1)
      BY <2>1, <2>4
    <3>2. /\ Offset(g, i + 1) = Offset(g, i) + Width(g[i])
          /\ Offset(g, i) \in Nat /\ Width(g[i]) \in Nat
      <4>1. Width(g[i]) \in Nat
        BY <3>1 DEF Width, Numbers
      <4> QED BY <3>1, <4>1, OffsetStep, Zenon
    <3>3. Offset(g, k) <= Offset(g, i)
      BY <1>2, <2>4, <3>1
    <3> QED BY <2>2, <3>2, <3>3
  <2> QED BY <2>1, <2>3, <2>4
<1>3. Nat \subseteq S
  <2> HIDE DEF S
  <2> QED BY <1>1, <1>2, Zenon DEF Induction
<1> QED BY <1>3

\* Every key of a group is one of some writer's.
LEMMA OffsetCovers ==
  ASSUME Induction, Numbers, NEW g \in Seq(Writer), NEW d \in Nat, d < Keys(Allowed(g))
  PROVE  \E k \in 1..Len(g) : Offset(g, k) <= d /\ d < Offset(g, k + 1)
<1> DEFINE Found == \E k \in 1..Len(g) : Offset(g, k) <= d /\ d < Offset(g, k + 1)
           S == {i \in Nat : i <= Len(g) /\ d < Offset(g, i + 1) => Found}
<1>1. 0 \in S
  BY OffsetStep
<1>2. ASSUME NEW i \in Nat, i \in S PROVE i + 1 \in S
  <2>1. SUFFICES ASSUME i + 1 <= Len(g), d < Offset(g, (i + 1) + 1) PROVE Found
    OBVIOUS
  <2>2. Offset(g, i + 1) \in Nat /\ i + 1 \in 1..Len(g)
    BY <2>1, OffsetStep
  <2>3. CASE d < Offset(g, i + 1)
    BY <1>2, <2>1, <2>3
  <2>4. CASE Offset(g, i + 1) <= d
    <3> HIDE DEF S
    <3> QED BY <2>1, <2>2, <2>4, Zenon
  <2> QED BY <2>2, <2>3, <2>4
<1>3. Nat \subseteq S
  <2> HIDE DEF S
  <2> QED BY <1>1, <1>2, Zenon DEF Induction
<1>4. Len(g) \in S /\ Len(g) \in Nat
  BY <1>3
<1> QED BY <1>4, OffsetStep

\* Keys and allowed writers depend on the requests only.
LEMMA SameKeys ==
  ASSUME request' = request, NEW g
  PROVE  Keys(g)' = Keys(g) /\ Allowed(g)' = Allowed(g)
BY Zenon DEF Keys, Allowed

\* The same for the keys before a writer of its group.
LEMMA SameOffset ==
  ASSUME request' = request, NEW g, NEW k
  PROVE  Offset(g, k)' = Offset(g, k)
BY SameKeys, Zenon DEF Offset

\* Groups once made stay, and are not logged again.
Keeps ==
  /\ request' = request
  /\ \A l \in Writer : group[l] # <<>> =>
       group'[l] = group[l] /\ (pc'[l] = "log" => pc[l] = "log")

\* The end of a group's range of sequence numbers stays.
LEMMA SameUpper ==
  ASSUME request' = request, NEW base, NEW l \in Writer, group'[l] = group[l]
  PROVE  Upper(base, l)' = Upper(base, l)
<1>1. PICK g : g = group[l]
  BY Zenon
<1>2. Keys(Allowed(g))' = Keys(Allowed(g))
  BY SameKeys, Zenon
<1>3. Upper(base, l) = base[l] + Keys(Allowed(g))
  BY <1>1, Zenon DEF Upper
<1>4. Upper(base, l)' = base[l] + Keys(Allowed(g))'
  BY <1>1, Zenon DEF Upper
<1> QED BY <1>2, <1>3, <1>4, Zenon

\* A step that logs nothing keeps what the log says of the groups.
LEMMA RecordedStays ==
  ASSUME Keeps, log' = log, NEW base, Recorded(base)
  PROVE  Recorded(base)'
<1>1. SUFFICES ASSUME NEW i \in DOMAIN log
               PROVE  \E l \in Writer :
                        /\ group'[l] # <<>> /\ pc'[l] # "log"
                        /\ log[i].batches = Allowed(group[l])' /\ log[i].seq = base[l] + 1
  BY Zenon DEF Recorded
<1>2. PICK l \in Writer : /\ group[l] # <<>> /\ pc[l] # "log"
                          /\ log[i].batches = Allowed(group[l]) /\ log[i].seq = base[l] + 1
  BY Zenon DEF Recorded
<1>3. group'[l] = group[l] /\ pc'[l] # "log" /\ request' = request
  BY <1>2, Zenon DEF Keeps
<1>4. Allowed(group[l])' = Allowed(group[l])
  BY <1>3, SameKeys, Zenon
<1> QED BY <1>2, <1>3, <1>4, Zenon

\* The group of a writer with a number is not a new one.
LEMMA OldGroup ==
  ASSUME Keeps, Grouping, GroupPlaces, GroupPlaces', NEW x \in Writer, Numbered(x),
         NEW l \in Writer, x \in Members(group'[l])
  PROVE  group[l] # <<>> /\ group'[l] = group[l] /\ (pc'[l] = "log" => pc[l] = "log")
<1>1. PICK m \in Writer : x \in Members(group[m])
  BY Zenon DEF Grouping
<1>2. group[m] # <<>>
  BY <1>1 DEF Members
<1>3. group'[m] = group[m] /\ (pc'[m] = "log" => pc[m] = "log")
  BY <1>2, Zenon DEF Keeps
<1>4. l = m
  BY <1>1, <1>3, Zenon DEF GroupPlaces
<1> QED BY <1>2, <1>3, <1>4, Zenon

\* A step that gives no sequence number keeps those that are given.
LEMMA AllottedStays ==
  ASSUME Keeps, Grouping, GroupPlaces, GroupPlaces', Types', NEW base, Allotted(base),
         \A x \in Writer : Numbered(x)' => Numbered(x) /\ sequence'[x] = sequence[x]
  PROVE  Allotted(base)'
<1>1. SUFFICES ASSUME NEW l \in Writer, NEW k \in 1..Len(group'[l]), Numbered(group[l][k])'
               PROVE  /\ pc'[l] # "log"
                      /\ sequence'[group'[l][k]] = base[l] + 1 + Offset(group[l], k)'
  BY Zenon DEF Allotted
<1>2. PICK x : x = group'[l][k]
  BY Zenon
<1>3. x \in Writer /\ x \in Members(group'[l])
  <2>1. group'[l] \in Seq(Writer)
    BY Zenon DEF Types
  <2> QED BY <1>2, <2>1 DEF Members
<1>4. Numbered(x)'
  BY <1>1, <1>2, Zenon DEF Numbered
<1>5. Numbered(x) /\ sequence'[x] = sequence[x]
  BY <1>3, <1>4, Zenon
<1>6. group[l] # <<>> /\ group'[l] = group[l] /\ (pc'[l] = "log" => pc[l] = "log")
  BY <1>3, <1>5, OldGroup, Zenon
<1>7. pc[l] # "log" /\ sequence[x] = base[l] + 1 + Offset(group[l], k)
  BY <1>1, <1>2, <1>5, <1>6, Zenon DEF Allotted
<1>8. Offset(group[l], k)' = Offset(group[l], k)
  BY <1>6, SameOffset, Zenon DEF Keeps
<1> QED BY <1>2, <1>5, <1>6, <1>7, <1>8, Zenon

\* Writers with a number, and those in the memtable, stay members of a group.
LEMMA GroupingStays ==
  ASSUME Keeps, Grouping, memtable' \subseteq Writer,
         \A x \in memtable' : x \in memtable \/ ~Refuses(x),
         \A x \in Writer : Numbered(x)' => Numbered(x) \/ \E l \in Writer : x \in Members(group'[l])
  PROVE  Grouping'
<1>1. ASSUME NEW x \in Writer, NEW l \in Writer, x \in Members(group[l])
      PROVE  x \in Members(group'[l])
  <2>1. group[l] # <<>>
    BY <1>1 DEF Members
  <2> QED BY <1>1, <2>1, Zenon DEF Keeps
<1>2. ASSUME NEW x \in Writer, Numbered(x)' PROVE \E l \in Writer : x \in Members(group'[l])
  BY <1>1, <1>2, Zenon DEF Grouping
<1>3. \A x : Refuses(x)' <=> Refuses(x)
  BY Zenon DEF Refuses, Keeps
<1>4. \A x \in memtable' : ~Refuses(x)
  BY Zenon DEF Grouping
<1>5. \A l : Members(group[l])' = Members(group'[l])
  BY Zenon DEF Members
<1> QED BY <1>2, <1>3, <1>4, <1>5, Zenon DEF Grouping

\* Whether a leader publishes depends on its group.
LEMMA PublishingStays ==
  ASSUME NEW l \in Writer, request' = request, group'[l] = group[l], pc'[l] = pc[l],
         state'[l] = "COMPLETED" <=> state[l] = "COMPLETED",
         \A x \in Members(group[l]) : Busy(x)' <=> Busy(x)
  PROVE  Publishing(l)' <=> Publishing(l)
<1>1. Members(group[l])' = Members(group[l])
  BY Zenon DEF Members
<1>2. NeedLogSync(l)' <=> NeedLogSync(l)
  BY Zenon DEF NeedLogSync
<1> QED BY <1>1, <1>2, Zenon DEF Publishing

\* What a step that adds nothing to the memtable leaves of the groups in it.
LEMMA EnteredStays ==
  ASSUME Keeps, Grouping, GroupPlaces, GroupPlaces', memtable' = memtable,
         NEW base, NEW l \in Writer, Entered(l)'
  PROVE  Entered(l) /\ group'[l] = group[l] /\ Upper(base, l)' = Upper(base, l)
<1>1. PICK x \in Members(group'[l]) : x \in memtable
  BY Zenon DEF Entered, Members
<1>2. x \in Writer /\ Numbered(x)
  BY <1>1, Zenon DEF Grouping, Numbered
<1>3. group'[l] = group[l]
  BY <1>1, <1>2, OldGroup, Zenon
<1>4. Entered(l)
  BY <1>1, <1>3, Zenon DEF Entered
<1>5. Upper(base, l)' = Upper(base, l)
  BY <1>3, SameUpper, Zenon DEF Keeps
<1> QED BY <1>3, <1>4, <1>5, Zenon

\* A group that holds a number goes on to hold it.
LEMMA HoldsStays ==
  ASSUME Keeps, memtable \subseteq memtable', NEW base, NEW l \in Writer, NEW s,
         Holds(base, l, s)
  PROVE  Holds(base, l, s)'
<1>1. group[l] # <<>> /\ pc[l] # "log"
  BY Zenon DEF Holds
<1>2. group'[l] = group[l] /\ pc'[l] # "log" /\ request' = request
  BY <1>1, Zenon DEF Keeps
<1>3. Upper(base, l)' = Upper(base, l)
  BY <1>2, SameUpper, Zenon
<1>4. \A x : Applied(x) => Applied(x)'
  BY <1>2, Zenon DEF Applied, Refuses
<1>5. Members(group[l])' = Members(group[l])
  BY <1>2, Zenon DEF Members
<1> QED BY <1>1, <1>2, <1>3, <1>4, <1>5, Zenon DEF Holds

\* Writers that counted down have inserted their batches.
InsertedBy == \A x \in Writer :
  parallel_group'[x] # Null /\ pc'[x] \in {"count", "wait"} =>
    (parallel_group[x] # Null /\ pc[x] \in {"count", "wait"}) \/ Applied(x)'

\* A step after which the memtable holds what it held, and more, keeps them.
LEMMA InsertedStays ==
  ASSUME Keeps, memtable \subseteq memtable', Inserted, InsertedBy
  PROVE  Inserted'
<1>1. \A x : Applied(x) => Applied(x)'
  BY Zenon DEF Applied, Refuses, Keeps
<1> QED BY <1>1, Zenon DEF Inserted, InsertedBy

\* A step that neither inserts nor publishes keeps the order of publication.
LEMMA InOrderStays ==
  ASSUME Keeps, Grouping, GroupPlaces, GroupPlaces', NEW base, InOrder(base),
         memtable' = memtable, lastSequence' = lastSequence,
         \A l \in Writer : Publishing(l) => Publishing(l)',
         InsertedBy
  PROVE  InOrder(base)'
<1>1. memtable \subseteq memtable'
  BY Zenon
<1>2. Inserted'
  BY <1>1, InsertedStays, Zenon DEF InOrder
<1>3. \A l \in Writer : Entered(l)' => Entered(l) /\ Upper(base, l)' = Upper(base, l)
  BY EnteredStays, Zenon
<1>4. Behind(base)'
  BY <1>3, Zenon DEF InOrder, Behind
<1>5. Apart(base)'
  BY <1>3, Zenon DEF InOrder, Apart
<1>6. \A l \in Writer : \A s : Holds(base, l, s) => Holds(base, l, s)'
  BY <1>1, HoldsStays, Zenon
<1>7. Covered(base)'
  BY <1>6, Zenon DEF InOrder, Covered
<1> QED BY <1>2, <1>4, <1>5, <1>7, Zenon DEF InOrder

\* A step that writes nothing and publishes nothing.
Quiet ==
  /\ Keeps
  /\ UNCHANGED <<parallel_group, sequence, log, memtable, lastSequence>>
  /\ "insert" \in failed => "insert" \in failed'
  /\ \A l \in Writer : Publishing(l)' => Publishing(l)
  /\ "insert" \notin failed' =>
       /\ \A l \in Writer : Publishing(l) => Publishing(l)'
       /\ InsertedBy

\* Such a step keeps SequenceInv.
LEMMA QuietStep ==
  ASSUME Places, Places', Grouping, NEW base, Sequenced(base), Quiet
  PROVE  Grouping' /\ Sequenced(base)'
<1>1. GroupPlaces /\ GroupPlaces' /\ Types'
  BY Zenon DEF Places
<1>2. /\ Keeps /\ parallel_group' = parallel_group /\ sequence' = sequence /\ log' = log
      /\ memtable' = memtable /\ lastSequence' = lastSequence
  BY Zenon DEF Quiet
<1>3. \A x : Numbered(x)' <=> Numbered(x)
  BY <1>2, Zenon DEF Numbered
<1>4. Grouping'
  <2>1. memtable' \subseteq Writer
    BY <1>2, Zenon DEF Grouping
  <2> QED BY <1>2, <1>3, <2>1, GroupingStays, Zenon
<1>5. Recorded(base)'
  BY <1>2, RecordedStays, Zenon DEF Sequenced
<1>6. Allotted(base)'
  BY <1>1, <1>2, <1>3, AllottedStays, Zenon DEF Sequenced
<1>7. Based(base)'
  BY <1>2, Zenon DEF Quiet, Sequenced, Based
<1>8. ASSUME "insert" \notin failed' PROVE InOrder(base)'
  BY <1>1, <1>2, <1>8, InOrderStays, Zenon DEF Quiet, Sequenced
<1> QED BY <1>4, <1>5, <1>6, <1>7, <1>8, Zenon DEF Sequenced

\* Groups in the memtable are behind the one that is to be published.
LEMMA BehindPublished ==
  ASSUME Induction, Numbers, Types, PublishPlaces, NEW base \in [Writer -> Nat], Based(base),
         Behind(base), NEW l \in Writer, Publishing(l)
  PROVE  /\ base[l] = lastSequence /\ GroupSequence(l) = Upper(base, l)
         /\ GroupSequence(l) \in Nat /\ lastSequence <= GroupSequence(l)
         /\ \A k \in Writer : Entered(k) /\ k # l =>
              Upper(base, k) <= lastSequence /\ Upper(base, k) \in Nat
<1>1. base[l] = lastSequence /\ lastSequence \in Nat
  BY Zenon DEF Based, Numbers
<1>2. \A k \in Writer : Keys(Allowed(group[k])) \in Nat
  BY KeysAreNat, Zenon DEF Types
<1>3. \A k \in Writer : Upper(base, k) \in Nat
  BY <1>2 DEF Upper
<1>4. GroupSequence(l) = Upper(base, l)
  BY <1>1, Zenon DEF GroupSequence, Upper
<1>5. lastSequence <= GroupSequence(l)
  BY <1>1, <1>2 DEF GroupSequence
<1>6. \A k \in Writer : Entered(k) /\ k # l => Upper(base, k) <= lastSequence
  BY Zenon DEF Behind, PublishPlaces
<1> QED BY <1>1, <1>3, <1>4, <1>5, <1>6, Zenon

\* Batches of one leader's group are inserted; the step may publish it.
GrowsBy(l) ==
  /\ Keeps /\ group' = group
  /\ Publishing(l)
  /\ memtable \subseteq memtable'
  /\ \A x \in memtable' : x \in memtable \/ x \in Members(group[l])
  /\ InsertedBy

Unpublished ==
  /\ lastSequence' = lastSequence
  /\ \A k \in Writer : Publishing(k) => Publishing(k)'

Published(l) ==
  /\ lastSequence' = GroupSequence(l)
  /\ \A x \in Members(group[l]) : Applied(x)'

\* Inserting batches of the group that publishes next, or publishing it, keeps
\* the order.
LEMMA InOrderGrows ==
  ASSUME Induction, Places, PublishPlaces, Numbers, NEW base \in [Writer -> Nat],
         Based(base), InOrder(base), NEW l \in Writer, GrowsBy(l),
         Unpublished \/ Published(l)
  PROVE  InOrder(base)'
<1>1. Keeps /\ memtable \subseteq memtable' /\ Publishing(l) /\ group' = group /\ request' = request
  BY Zenon DEF GrowsBy, Keeps
<1>2. Inserted /\ Behind(base) /\ Apart(base) /\ Covered(base)
  BY Zenon DEF InOrder
<1>3. Types /\ GroupPlaces
  BY Zenon DEF Places
<1>4. /\ base[l] = lastSequence /\ GroupSequence(l) = Upper(base, l)
      /\ GroupSequence(l) \in Nat /\ lastSequence <= GroupSequence(l)
      /\ \A k \in Writer : Entered(k) /\ k # l =>
           Upper(base, k) <= lastSequence /\ Upper(base, k) \in Nat
  BY <1>1, <1>2, <1>3, BehindPublished, Zenon
<1>5. Inserted'
  BY <1>1, <1>2, InsertedStays, Zenon DEF GrowsBy
<1>6. ASSUME NEW k \in Writer, Entered(k)', k # l PROVE Entered(k)
  <2>1. PICK x \in Members(group[k]) : x \in memtable'
    BY <1>1, <1>6, Zenon DEF Entered, Members
  <2>2. x \in Writer
    BY <1>3, <2>1, Zenon DEF GroupPlaces
  <2>3. x \notin Members(group[l])
    BY <1>3, <1>6, <2>1, <2>2, Zenon DEF GroupPlaces
  <2> QED BY <2>1, <2>3, Zenon DEF GrowsBy, Entered
<1>7. \A k \in Writer : Upper(base, k)' = Upper(base, k)
  BY <1>1, SameUpper, Zenon
<1>8. lastSequence \in Nat
  BY Zenon DEF Numbers
<1>9. Behind(base)'
  <2>1. SUFFICES ASSUME NEW k \in Writer, Entered(k)'
                 PROVE  Publishing(k)' \/ Upper(base, k) <= lastSequence'
    BY <1>7, Zenon DEF Behind
  <2>2. CASE Unpublished
    <3>1. CASE k = l
      BY <1>1, <2>2, <3>1, Zenon DEF Unpublished
    <3>2. CASE k # l
      BY <1>4, <1>6, <2>1, <2>2, <3>2, Zenon DEF Unpublished
    <3> QED BY <3>1, <3>2, Zenon
  <2>3. CASE Published(l)
    <3>1. lastSequence' = GroupSequence(l)
      BY <2>3, Zenon DEF Published
    <3>2. CASE k = l
      BY <1>4, <3>1, <3>2
    <3>3. CASE k # l
      <4>1. Upper(base, k) <= lastSequence /\ Upper(base, k) \in Nat
        BY <1>4, <1>6, <2>1, <3>3, Zenon
      <4> QED BY <1>4, <1>8, <3>1, <4>1
    <3> QED BY <3>2, <3>3, Zenon
  <2> QED BY <2>2, <2>3, Zenon
<1>10. Apart(base)'
  <2>1. SUFFICES ASSUME NEW i \in Writer, NEW k \in Writer, i # k, Entered(i)', Entered(k)'
                 PROVE  Upper(base, i) <= base[k] \/ Upper(base, k) <= base[i]
    BY <1>7, Zenon DEF Apart
  <2>2. CASE i = l
    BY <1>4, <1>6, <2>1, <2>2, Zenon
  <2>3. CASE k = l
    BY <1>4, <1>6, <2>1, <2>3, Zenon
  <2>4. CASE i # l /\ k # l
    BY <1>2, <1>6, <2>1, <2>4, Zenon DEF Apart
  <2> QED BY <2>2, <2>3, <2>4, Zenon
<1>11. Covered(base)'
  <2>1. SUFFICES ASSUME NEW s \in 1..lastSequence' PROVE \E k \in Writer : Holds(base, k, s)'
    BY Zenon DEF Covered
  <2>2. CASE s \in 1..lastSequence
    <3>1. PICK k \in Writer : Holds(base, k, s)
      BY <1>2, <2>2, Zenon DEF Covered
    <3>2. Holds(base, k, s)'
      BY <1>1, <3>1, HoldsStays, Zenon
    <3> QED BY <3>2, Zenon
  <2>3. CASE s \notin 1..lastSequence
    <3>1. Published(l)
      BY <2>1, <2>3, Zenon DEF Unpublished
    <3>2. lastSequence' = Upper(base, l)
      BY <1>4, <3>1, Zenon DEF Published
    <3>3. base[l] < s /\ s <= Upper(base, l)
      BY <1>4, <1>8, <2>1, <2>3, <3>2
    <3>4. group[l] # <<>> /\ pc[l] # "log"
      BY <1>1, Zenon DEF Publishing
    <3>5. group'[l] # <<>> /\ pc'[l] # "log"
      BY <1>1, <3>4, Zenon DEF Keeps
    <3>6. \A x \in Members(group[l])' : Applied(x)'
      BY <1>1, <3>1, Zenon DEF Published, Members
    <3>7. base[l] < s /\ s <= Upper(base, l)'
      BY <1>7, <3>3, Zenon
    <3>8. Holds(base, l, s)'
      BY <3>5, <3>6, <3>7, Zenon DEF Holds
    <3> QED BY <3>8, Zenon
  <2> QED BY <2>2, <2>3, Zenon
<1> QED BY <1>5, <1>9, <1>10, <1>11, Zenon DEF InOrder

\* The group is published, and nobody else has one to publish.
LEMMA PublishStep ==
  ASSUME Induction, Places, Places', PublishPlaces, Numbers, Grouping,
         NEW base \in [Writer -> Nat], Sequenced(base), NEW l \in Writer,
         Keeps, group' = group, UNCHANGED <<parallel_group, sequence, log, memtable, failed>>,
         Publishing(l), lastSequence' = GroupSequence(l),
         \A k \in Writer : ~Publishing(k)',
         InsertedBy,
         "insert" \notin failed => \A x \in Members(group[l]) : Applied(x)
  PROVE  Grouping' /\ Sequenced(base)'
<1>1. GroupPlaces /\ GroupPlaces' /\ Types'
  BY Zenon DEF Places
<1>2. /\ parallel_group' = parallel_group /\ sequence' = sequence /\ log' = log
      /\ memtable' = memtable /\ failed' = failed
  BY Zenon
<1>3. \A x : Numbered(x)' <=> Numbered(x)
  BY <1>2, Zenon DEF Numbered
<1>4. Grouping'
  <2>1. memtable' \subseteq Writer
    BY <1>2, Zenon DEF Grouping
  <2> QED BY <1>2, <1>3, <2>1, GroupingStays, Zenon
<1>5. Recorded(base)'
  BY <1>2, RecordedStays, Zenon DEF Sequenced
<1>6. Allotted(base)'
  BY <1>1, <1>2, <1>3, AllottedStays, Zenon DEF Sequenced
<1>7. Based(base)'
  BY Zenon DEF Based
<1>8. ASSUME "insert" \notin failed' PROVE InOrder(base)'
  <2>1. Based(base) /\ InOrder(base)
    BY <1>2, <1>8, Zenon DEF Sequenced
  <2>2. GrowsBy(l)
    BY <1>2, Zenon DEF GrowsBy
  <2>3. \A x : Applied(x) => Applied(x)'
    BY <1>2, Zenon DEF Applied, Refuses, Keeps
  <2>4. Published(l)
    BY <1>2, <1>8, <2>3, Zenon DEF Published
  <2> QED BY <2>1, <2>2, <2>4, InOrderGrows, Zenon
<1> QED BY <1>4, <1>5, <1>6, <1>7, <1>8, Zenon DEF Sequenced

\* What the steps assume and keep.
Ready(base) ==
  /\ Places /\ Places' /\ MorePlaces /\ DataInv /\ Numbers /\ Grouping
  /\ base \in [Writer -> Nat] /\ Sequenced(base)

Numbering(base) == Grouping' /\ Sequenced(base)'

\* A thread that is not about to publish moves, and no group is touched.
PlainMove(w, label) ==
  /\ Keeps /\ pc' = [pc EXCEPT ![w] = label] /\ label \notin {"count", "wait"}
  /\ UNCHANGED <<parallel_group, sequence, log, memtable, lastSequence>>
  /\ failed \subseteq failed'
  /\ \A x \in Writer : Busy(x)' <=> Busy(x)
  /\ \A l \in Writer : l # w =>
       group'[l] = group[l] /\ (state'[l] = "COMPLETED" <=> state[l] = "COMPLETED")
  /\ ~Publishing(w) /\ ~Publishing(w)'

\* Such a move keeps SequenceInv.
LEMMA PlainStep ==
  ASSUME NEW base, Ready(base), NEW w \in Writer, NEW label, PlainMove(w, label)
  PROVE  Numbering(base)
<1>1. /\ Places /\ Places' /\ Grouping /\ Sequenced(base)
      /\ Types /\ GroupPlaces
  BY Zenon DEF Ready, Places
<1>2. Keeps /\ request' = request
  BY Zenon DEF PlainMove, Keeps
<1>3. \A x \in Writer : x # w => pc'[x] = pc[x]
  BY <1>1, Zenon DEF PlainMove, Types
<1>4. pc'[w] \notin {"count", "wait"}
  BY <1>1, Zenon DEF PlainMove, Types
<1>5. ASSUME NEW l \in Writer, l # w PROVE Publishing(l)' <=> Publishing(l)
  <2>1. \A x \in Members(group[l]) : Busy(x)' <=> Busy(x)
    BY <1>1, Zenon DEF PlainMove, GroupPlaces
  <2>2. group'[l] = group[l] /\ (state'[l] = "COMPLETED" <=> state[l] = "COMPLETED")
    BY <1>5, Zenon DEF PlainMove
  <2> QED BY <1>2, <1>3, <1>5, <2>1, <2>2, PublishingStays, Zenon
<1>6. \A l \in Writer : Publishing(l)' <=> Publishing(l)
  BY <1>5, Zenon DEF PlainMove
<1>7. InsertedBy
  <2>1. parallel_group' = parallel_group
    BY Zenon DEF PlainMove
  <2> QED BY <1>3, <1>4, <2>1, Zenon DEF InsertedBy
<1>8. Quiet
  BY <1>2, <1>6, <1>7, Zenon DEF Quiet, PlainMove
<1> QED BY <1>1, <1>8, QuietStep, Zenon DEF Numbering

\* WriteThread::JoinBatchGroup takes no sequence numbers.
LEMMA JoinBatchGroupNumbers ==
  ASSUME NEW base, Ready(base), NEW w \in Writer, JoinBatchGroup(w)
  PROVE  Numbering(base)
<1>1. Types /\ Fresh(w) /\ pc[w] = "start"
  BY Zenon DEF Ready, Places, StartPlaces, JoinBatchGroup
<1>2. /\ pc' = [pc EXCEPT ![w] = "joined"] /\ request' = request /\ group' = group
      /\ UNCHANGED <<parallel_group, sequence, log, memtable, lastSequence, failed>>
  BY Zenon DEF JoinBatchGroup, Goto, shared, db
<1>3. \A x \in Writer : pc'[x] = IF x = w THEN "joined" ELSE pc[x]
  BY <1>1, <1>2, Zenon DEF Types
<1>4. /\ \A x \in Writer : x # w => state'[x] = state[x]
      /\ state'[w] \in {"INIT", "GROUP_LEADER"}
  BY <1>1, Zenon DEF JoinBatchGroup, LinkOne, Types, Fresh
<1>5. Keeps
  BY <1>2, <1>3 DEF Keeps
<1>6. \A x \in Writer : Busy(x)' <=> Busy(x)
  BY <1>1, <1>3, <1>4, Zenon DEF Busy, Inserting
<1>7. ~Publishing(w) /\ ~Publishing(w)'
  BY <1>1, <1>2, Zenon DEF Publishing, Fresh
<1>8. PlainMove(w, "joined")
  BY <1>2, <1>4, <1>5, <1>6, <1>7, Zenon DEF PlainMove
<1> QED BY <1>8, PlainStep, Zenon

\* WriteThread::EnterUnbatched takes no sequence numbers.
LEMMA UnbatchedNumbers ==
  ASSUME NEW base, Ready(base), NEW w \in Writer, Unbatched(w)
  PROVE  Numbering(base)
<1>1. Types /\ pc[w] = "joined" /\ state[w] = "GROUP_LEADER" /\ group[w] = <<>>
  BY Zenon DEF Ready, Places, DataInv, DataAt, Leads, Unbatched
<1>2. /\ pc' = [pc EXCEPT ![w] = "unlink"] /\ request' = request /\ state' = state
      /\ group' = [group EXCEPT ![w] = <<w>>]
      /\ UNCHANGED <<parallel_group, sequence, log, memtable, lastSequence, failed>>
  BY Zenon DEF Unbatched, Goto, shared, db
<1>3. \A x \in Writer : pc'[x] = IF x = w THEN "unlink" ELSE pc[x]
  BY <1>1, <1>2, Zenon DEF Types
<1>4. \A l \in Writer : l # w => group'[l] = group[l]
  BY <1>1, <1>2, Zenon DEF Types
<1>5. Keeps
  BY <1>1, <1>2, <1>3, <1>4, Zenon DEF Keeps
<1>6. \A x \in Writer : Busy(x)' <=> Busy(x)
  BY <1>1, <1>2, <1>3 DEF Busy, Inserting
<1>7. ~Publishing(w) /\ ~Publishing(w)'
  BY <1>1, <1>3, Zenon DEF Publishing
<1>8. PlainMove(w, "unlink")
  BY <1>2, <1>4, <1>5, <1>6, <1>7, Zenon DEF PlainMove
<1> QED BY <1>8, PlainStep, Zenon

\* Preparing a write takes no sequence numbers.
LEMMA PrepareNumbers ==
  ASSUME NEW base, Ready(base), NEW w \in Writer, Prepare(w)
  PROVE  Numbering(base)
<1>1. Types /\ pc[w] = "joined" /\ state[w] = "GROUP_LEADER" /\ group[w] = <<>>
  BY Zenon DEF Ready, Places, DataInv, DataAt, Leads, Prepare
<1>2. /\ pc' = [pc EXCEPT ![w] = "enter"] /\ request' = request /\ state' = state
      /\ group' = group
      /\ UNCHANGED <<parallel_group, sequence, log, memtable, lastSequence>>
      /\ failed \subseteq failed'
  BY Zenon DEF Prepare, Goto, shared
<1>3. \A x \in Writer : pc'[x] = IF x = w THEN "enter" ELSE pc[x]
  BY <1>1, <1>2, Zenon DEF Types
<1>4. Keeps
  BY <1>1, <1>2, <1>3, Zenon DEF Keeps
<1>5. \A x \in Writer : Busy(x)' <=> Busy(x)
  BY <1>1, <1>2, <1>3 DEF Busy, Inserting
<1>6. ~Publishing(w) /\ ~Publishing(w)'
  BY <1>1, <1>2, Zenon DEF Publishing
<1>7. PlainMove(w, "enter")
  BY <1>2, <1>4, <1>5, <1>6, Zenon DEF PlainMove
<1> QED BY <1>7, PlainStep, Zenon

\* WriteThread::EnterAsBatchGroupLeader makes a group and gives no numbers yet.
LEMMA EnterGroupNumbers ==
  ASSUME NEW base, Ready(base), NEW w \in Writer, EnterGroup(w)
  PROVE  Numbering(base)
<1>1. Types /\ pc[w] = "enter" /\ group[w] = <<>>
  BY Zenon DEF Ready, Places, DataInv, DataAt, Leads, EnterGroup
<1>2. PICK label \in {"log", "report"} : pc' = [pc EXCEPT ![w] = label]
  BY Zenon DEF EnterGroup, Goto
<1>3. /\ request' = request /\ state' = state
      /\ UNCHANGED <<parallel_group, sequence, log, memtable, lastSequence, failed>>
  BY Zenon DEF EnterGroup, shared, db
<1>4. \A x \in Writer : pc'[x] = IF x = w THEN label ELSE pc[x]
  BY <1>1, <1>2, Zenon DEF Types
<1>5. \A l \in Writer : l # w => group'[l] = group[l]
  BY <1>1, Zenon DEF EnterGroup, Types
<1>6. Keeps
  BY <1>1, <1>3, <1>4, <1>5, Zenon DEF Keeps
<1>7. \A x \in Writer : Busy(x)' <=> Busy(x)
  BY <1>1, <1>3, <1>4, Zenon DEF Busy, Inserting
<1>8. ~Publishing(w) /\ ~Publishing(w)'
  <2>1. pc'[w] \in {"log", "report"}
    BY <1>4, Zenon
  <2> QED BY <1>1, <2>1, Zenon DEF Publishing
<1>9. PlainMove(w, label)
  BY <1>2, <1>3, <1>5, <1>6, <1>7, <1>8, Zenon DEF PlainMove
<1> QED BY <1>9, PlainStep, Zenon

\* The leader's last steps leave the numbers alone.
LEMMA ReportNumbers ==
  ASSUME NEW base, Ready(base), NEW w \in Writer, Report(w)
  PROVE  Numbering(base)
<1>1. Types /\ pc[w] = "report"
  BY Zenon DEF Ready, Places, Report
<1>2. PICK label \in {"done", "unlink"} : pc' = [pc EXCEPT ![w] = label]
  BY Zenon DEF Report, Goto
<1>3. /\ request' = request /\ state' = state /\ group' = group
      /\ UNCHANGED <<parallel_group, sequence, log, memtable, lastSequence, failed>>
  BY Zenon DEF Report, shared
<1>4. \A x \in Writer : pc'[x] = IF x = w THEN label ELSE pc[x]
  BY <1>1, <1>2, Zenon DEF Types
<1>5. Keeps
  BY <1>3, <1>4, Zenon DEF Keeps
<1>6. \A x \in Writer : Busy(x)' <=> Busy(x)
  BY <1>1, <1>3, <1>4, Zenon DEF Busy, Inserting
<1>7. ~Publishing(w) /\ ~Publishing(w)'
  BY <1>1, <1>4, Zenon DEF Publishing
<1>8. PlainMove(w, label)
  BY <1>2, <1>3, <1>5, <1>6, <1>7, Zenon DEF PlainMove
<1> QED BY <1>8, PlainStep, Zenon

\* A follower that was completed returns.
LEMMA FollowerReturnsNumbers ==
  ASSUME NEW base, Ready(base), NEW w \in Writer, FollowerReturns(w)
  PROVE  Numbering(base)
<1>1. /\ Types /\ Leads(w) /\ state[w] = "COMPLETED"
      /\ pc[w] = "joined" \/ (pc[w] = "wait" /\ w # parallel_group[w])
  BY Zenon DEF Ready, Places, DataInv, DataAt, FollowerReturns, Leader
<1>2. /\ pc' = [pc EXCEPT ![w] = "done"] /\ request' = request /\ state' = state
      /\ group' = group
      /\ UNCHANGED <<parallel_group, sequence, log, memtable, lastSequence, failed>>
  BY Zenon DEF FollowerReturns, Goto, shared, db
<1>3. \A x \in Writer : pc'[x] = IF x = w THEN "done" ELSE pc[x]
  BY <1>1, <1>2, Zenon DEF Types
<1>4. Keeps
  BY <1>2, <1>3 DEF Keeps
<1>5. \A x \in Writer : Busy(x)' <=> Busy(x)
  BY <1>1, <1>2, <1>3 DEF Busy, Inserting
<1>6. group[w] = <<>>
  BY <1>1, Zenon DEF Leads
<1>7. ~Publishing(w) /\ ~Publishing(w)'
  BY <1>2, <1>6, Zenon DEF Publishing
<1>8. PlainMove(w, "done")
  BY <1>2, <1>4, <1>5, <1>7, Zenon DEF PlainMove
<1> QED BY <1>8, PlainStep, Zenon

\* ExitAsBatchGroupLeader: the leader has completed its last follower.
LEMMA LeaderExitNumbers ==
  ASSUME NEW base, Ready(base), NEW t \in Writer, ExitDone(t), t = Led(t)
  PROVE  Numbering(base)
<1>1. Types /\ pc[t] = "complete"
  BY Zenon DEF Ready, Places, ExitDone
<1>2. state' = state
  BY Zenon DEF ExitDone
<1>3. PICK label \in {"report", "done"} : pc' = [pc EXCEPT ![t] = label]
  BY Zenon DEF ExitDone, Goto
<1>4. /\ request' = request /\ group' = group
      /\ UNCHANGED <<parallel_group, sequence, log, memtable, lastSequence, failed>>
  BY Zenon DEF ExitDone, shared, db
<1>5. \A x \in Writer : pc'[x] = IF x = t THEN label ELSE pc[x]
  BY <1>1, <1>3, Zenon DEF Types
<1>6. Keeps
  BY <1>4, <1>5, Zenon DEF Keeps
<1>7. \A x \in Writer : Busy(x)' <=> Busy(x)
  BY <1>1, <1>2, <1>5, Zenon DEF Busy, Inserting
<1>8. ~Publishing(t) /\ ~Publishing(t)'
  BY <1>1, <1>5, Zenon DEF Publishing
<1>9. PlainMove(t, label)
  BY <1>2, <1>3, <1>4, <1>6, <1>7, <1>8, Zenon DEF PlainMove
<1> QED BY <1>9, PlainStep, Zenon

\* A follower exits for its leader, who has no log to sync.
LEMMA FollowerExitNumbers ==
  ASSUME NEW base, Ready(base), NEW t \in Writer, ExitDone(t), t # Led(t)
  PROVE  Numbering(base)
<1>1. /\ Types /\ GroupPlaces /\ pc[t] = "complete" /\ ~NeedLogSync(Led(t))
      /\ Led(t) \in Writer /\ pc[Led(t)] = "wait" /\ group[t] = <<>>
  BY Zenon DEF Ready, Places, MorePlaces, PublishPlaces, ExitPlaces, ExitDone
<1>2. PICK l : l = Led(t)
  BY Zenon
<1>3. l \in Writer /\ l # t /\ pc[l] = "wait" /\ ~NeedLogSync(l)
  BY <1>1, <1>2, Zenon
<1>4. pc' = [pc EXCEPT ![t] = "done"] /\ state' = [state EXCEPT ![l] = "COMPLETED"]
  BY <1>2, Zenon DEF ExitDone, Goto
<1>5. /\ request' = request /\ group' = group
      /\ UNCHANGED <<parallel_group, sequence, log, memtable, lastSequence, failed>>
  BY Zenon DEF ExitDone, shared, db
<1>6. /\ \A x \in Writer : pc'[x] = IF x = t THEN "done" ELSE pc[x]
      /\ \A x \in Writer : state'[x] = IF x = l THEN "COMPLETED" ELSE state[x]
  BY <1>1, <1>4, Zenon DEF Types
<1>7. Keeps
  BY <1>5, <1>6, Zenon DEF Keeps
<1>8. \A x \in Writer : Busy(x)' <=> Busy(x)
  BY <1>1, <1>3, <1>6, Zenon DEF Busy, Inserting
<1>9. \A x \in Writer : \A y \in Members(group[x]) : Busy(y)' <=> Busy(y)
  BY <1>1, <1>8, Zenon DEF GroupPlaces
<1>10. ASSUME NEW x \in Writer PROVE Publishing(x)' <=> Publishing(x)
  <2>1. CASE x = t
    BY <1>1, <1>5, <2>1, Zenon DEF Publishing
  <2>2. CASE x = l
    <3>1. Members(group[l])' = Members(group[l])
      BY <1>5, Zenon DEF Members
    <3>2. ~NeedLogSync(l)'
      BY <1>3, <1>5, Zenon DEF NeedLogSync
    <3>3. pc'[l] = pc[l] /\ group'[l] = group[l]
      BY <1>3, <1>5, <1>6, Zenon
    <3> QED BY <1>3, <1>9, <2>2, <3>1, <3>2, <3>3, Zenon DEF Publishing
  <2>3. CASE x # t /\ x # l
    <3>1. pc'[x] = pc[x] /\ state'[x] = state[x] /\ group'[x] = group[x]
      BY <1>5, <1>6, <2>3, Zenon
    <3> QED BY <1>5, <1>9, <3>1, PublishingStays, Zenon
  <2> QED BY <2>1, <2>2, <2>3, Zenon
<1>11. InsertedBy
  <2>1. \A x \in Writer : pc'[x] \in {"count", "wait"} => pc[x] \in {"count", "wait"}
    BY <1>6, Zenon
  <2> QED BY <1>5, <2>1, Zenon DEF InsertedBy
<1>12. Quiet
  BY <1>5, <1>7, <1>10, <1>11, Zenon DEF Quiet
<1> QED BY <1>12, QuietStep, Zenon DEF Ready, Numbering

\* The group leaves the list: it is published, and the next leader has none yet.
LEMMA UnlinkNumbers ==
  ASSUME NEW base, Ready(base), NEW t \in Writer, Unlink(t)
  PROVE  Numbering(base)
<1>1. /\ Types /\ GroupPlaces /\ pc[t] = "unlink"
      /\ \A l \in Writer : ~Publishing(l)
  BY Zenon DEF Ready, Places, MorePlaces, PublishPlaces, Unlink
<1>2. /\ pc' = [pc EXCEPT ![t] = "complete"] /\ request' = request /\ group' = group
      /\ UNCHANGED <<parallel_group, sequence, log, memtable, lastSequence, failed>>
  BY Zenon DEF Unlink, Goto, shared, db
<1>3. \A x \in Writer : pc'[x] = IF x = t THEN "complete" ELSE pc[x]
  BY <1>1, <1>2, Zenon DEF Types
<1>4. \A x \in Writer : state'[x] = state[x] \/ state'[x] = "GROUP_LEADER"
  BY <1>1, Zenon DEF Unlink, UnlinkGroup, Types
<1>5. Keeps
  BY <1>2, <1>3 DEF Keeps
<1>6. \A x \in Writer : Busy(x)' => Busy(x)
  BY <1>1, <1>3, <1>4, Zenon DEF Busy, Inserting
<1>7. ASSUME NEW l \in Writer, Publishing(l)' PROVE FALSE
  <2>1. l # t
    BY <1>3, <1>7, Zenon DEF Publishing
  <2>2. pc'[l] = pc[l] /\ group'[l] = group[l] /\ (state'[l] = "COMPLETED" => state[l] = "COMPLETED")
    BY <1>2, <1>3, <1>4, <2>1, Zenon
  <2>3. Members(group[l])' = Members(group[l])
    BY <1>2, Zenon DEF Members
  <2>4. \A x \in Members(group[l]) : Busy(x)' => Busy(x)
    BY <1>1, <1>6, Zenon DEF GroupPlaces
  <2>5. NeedLogSync(l)' <=> NeedLogSync(l)
    BY <1>2, Zenon DEF NeedLogSync
  <2>6. Publishing(l)
    BY <1>7, <2>2, <2>3, <2>4, <2>5, Zenon DEF Publishing
  <2> QED BY <1>1, <2>6, Zenon
<1>8. InsertedBy
  <2>1. \A x \in Writer : pc'[x] \in {"count", "wait"} => pc[x] \in {"count", "wait"}
    BY <1>3
  <2> QED BY <1>2, <2>1, Zenon DEF InsertedBy
<1>9. Quiet
  BY <1>1, <1>2, <1>5, <1>7, <1>8, Zenon DEF Quiet
<1> QED BY <1>9, QuietStep, Zenon DEF Ready, Numbering

\* A writer of a group that has left the list is completed.
LEMMA CompleteNextNumbers ==
  ASSUME NEW base, Ready(base), NEW t \in Writer, CompleteNext(t)
  PROVE  Numbering(base)
<1>1. /\ Types /\ GroupPlaces /\ pc[t] = "complete" /\ cursor[t] # Led(t)
      /\ Led(t) \in Writer /\ ~Publishing(Led(t)) /\ cursor[t] \in Members(group[Led(t)])
  BY Zenon DEF Ready, Places, MorePlaces, PublishPlaces, ExitPlaces, CompleteNext
<1>2. PICK w, m : w = cursor[t] /\ m = Led(t)
  BY Zenon
<1>3. /\ w \in Writer /\ m \in Writer /\ w # m /\ ~Publishing(m) /\ w \in Members(group[m])
      /\ group[w] = <<>>
  BY <1>1, <1>2, Zenon DEF GroupPlaces
<1>4. /\ pc' = pc /\ request' = request /\ group' = group
      /\ state' = [state EXCEPT ![w] = "COMPLETED"]
      /\ UNCHANGED <<parallel_group, sequence, log, memtable, lastSequence, failed>>
  BY <1>2, Zenon DEF CompleteNext, db
<1>5. \A x \in Writer : state'[x] = IF x = w THEN "COMPLETED" ELSE state[x]
  BY <1>1, <1>4, Zenon DEF Types
<1>6. Keeps
  BY <1>4, Zenon DEF Keeps
<1>7. \A x \in Writer : (Busy(x)' => Busy(x)) /\ (x # w => (Busy(x)' <=> Busy(x)))
  BY <1>4, <1>5 DEF Busy, Inserting
<1>8. ASSUME NEW l \in Writer PROVE Publishing(l)' <=> Publishing(l)
  <2>1. CASE l = w
    BY <1>3, <1>4, <2>1, Zenon DEF Publishing
  <2>2. CASE l = m
    <3>1. pc'[l] = pc[l] /\ group'[l] = group[l] /\ state'[l] = state[l]
      BY <1>3, <1>4, <1>5, <2>2, Zenon
    <3>2. Members(group[l])' = Members(group[l])
      BY <1>4, Zenon DEF Members
    <3>3. \A x \in Members(group[l]) : Busy(x)' => Busy(x)
      BY <1>1, <1>7, Zenon DEF GroupPlaces
    <3>4. NeedLogSync(l)' <=> NeedLogSync(l)
      BY <1>4, Zenon DEF NeedLogSync
    <3>5. Publishing(l)' => Publishing(l)
      BY <3>1, <3>2, <3>3, <3>4, Zenon DEF Publishing
    <3> QED BY <1>3, <2>2, <3>5, Zenon
  <2>3. CASE l # w /\ l # m
    <3>1. pc'[l] = pc[l] /\ group'[l] = group[l] /\ state'[l] = state[l]
      BY <1>4, <1>5, <2>3, Zenon
    <3>2. w \notin Members(group[l])
      BY <1>1, <1>3, <2>3, Zenon DEF GroupPlaces
    <3>3. \A x \in Members(group[l]) : Busy(x)' <=> Busy(x)
      BY <1>1, <1>7, <3>2, Zenon DEF GroupPlaces
    <3> QED BY <1>4, <3>1, <3>3, PublishingStays, Zenon
  <2> QED BY <2>1, <2>2, <2>3, Zenon
<1>9. InsertedBy
  BY <1>4, Zenon DEF InsertedBy
<1>10. Quiet
  BY <1>4, <1>6, <1>8, <1>9, Zenon DEF Quiet
<1> QED BY <1>10, QuietStep, Zenon DEF Ready, Numbering

\* A writer of a parallel group moves: the group of its leader is the only one
\* that is touched.
WorkerMove(w, m, label) ==
  /\ Busy(w) /\ m = parallel_group[w]
  /\ pc' = [pc EXCEPT ![w] = label] /\ request' = request /\ group' = group
  /\ \A x \in Writer : x # m => state'[x] = state[x]

\* Its group is its leader's, and no other group starts or stops publishing.
LEMMA WorkerMoves ==
  ASSUME Places, NEW w \in Writer, NEW m, NEW label, WorkerMove(w, m, label)
  PROVE  /\ m \in Writer /\ w \in Members(group[m])
         /\ \A x \in Writer : pc'[x] = IF x = w THEN label ELSE pc[x]
         /\ \A l \in Writer : l # m => (Publishing(l)' <=> Publishing(l))
<1>1. Types /\ GroupPlaces
  BY Zenon DEF Places
<1>2. /\ Busy(w) /\ m = parallel_group[w]
      /\ pc' = [pc EXCEPT ![w] = label] /\ request' = request /\ group' = group
      /\ \A x \in Writer : x # m => state'[x] = state[x]
  BY Zenon DEF WorkerMove
<1>3. m \in Writer /\ w \in Members(group[m])
  BY <1>2, Zenon DEF Places, ParallelPlaces, Busy
<1>4. \A x \in Writer : pc'[x] = IF x = w THEN label ELSE pc[x]
  BY <1>1, <1>2, Zenon DEF Types
<1>5. ASSUME NEW l \in Writer, l # m PROVE Publishing(l)' <=> Publishing(l)
  <2>1. w \notin Members(group[l]) /\ m \notin Members(group[l])
    <3>1. m \in Members(group[m])
      BY <1>1, <1>3 DEF GroupPlaces, Members
    <3> QED BY <1>1, <1>3, <1>5, <3>1, Zenon DEF GroupPlaces
  <2>2. \A x \in Members(group[l]) : pc'[x] = pc[x] /\ state'[x] = state[x]
    BY <1>1, <1>2, <1>4, <2>1, Zenon DEF GroupPlaces
  <2>3. \A x \in Members(group[l]) : Busy(x)' <=> Busy(x)
    BY <2>2, Zenon DEF Busy, Inserting
  <2>4. CASE group[l] = <<>>
    BY <1>2, <2>4, Zenon DEF Publishing
  <2>5. CASE group[l] # <<>>
    <3>1. l \in Members(group[l])
      BY <1>1, <2>5, Zenon DEF GroupPlaces
    <3>2. pc'[l] = pc[l] /\ state'[l] = state[l] /\ group'[l] = group[l]
      BY <1>2, <2>2, <3>1, Zenon
    <3> QED BY <1>2, <2>3, <3>2, PublishingStays, Zenon
  <2> QED BY <2>4, <2>5, Zenon
<1> QED BY <1>2, <1>3, <1>4, <1>5, Zenon

\* One writer of the group counts down, and others have yet to.
LEMMA CountDownNumbers ==
  ASSUME NEW base, Ready(base), NEW w \in Writer, CountDown(w)
  PROVE  Numbering(base)
<1>1. /\ Places /\ Types /\ GroupPlaces /\ pc[w] = "count" /\ Busy(w) /\ running[Leader(w)] > 1
  BY Zenon DEF Ready, Places, CountDown, Busy
<1>2. /\ pc' = [pc EXCEPT ![w] = "wait"] /\ request' = request /\ group' = group
      /\ state' = state
      /\ UNCHANGED <<parallel_group, sequence, log, memtable, lastSequence, failed>>
  BY Zenon DEF CountDown, Goto, db
<1>3. PICK m : m = Leader(w)
  BY Zenon
<1>4. /\ m \in Writer /\ w \in Members(group[m])
      /\ \A x \in Writer : pc'[x] = IF x = w THEN "wait" ELSE pc[x]
      /\ \A l \in Writer : l # m => (Publishing(l)' <=> Publishing(l))
  <2>1. WorkerMove(w, m, "wait")
    BY <1>1, <1>2, <1>3, Zenon DEF WorkerMove, Leader
  <2> QED BY <1>1, <2>1, WorkerMoves, Zenon
<1>5. Keeps
  BY <1>2, <1>4 DEF Keeps
<1>6. group[m] # <<>> /\ pc[m] \in {"launch", "insert", "count", "wait"}
  <2>1. pc[m] \in {"launch", "insert", "count", "wait"}
    BY <1>1, <1>3, Zenon DEF Ready, MorePlaces, WakePlaces, Leader
  <2> QED BY <1>4, <2>1 DEF Members
<1>7. Publishing(m)
  BY <1>1, <1>4, <1>6, Zenon DEF Publishing
<1>8. Publishing(m)'
  <2>1. PICK y \in Members(group[m]) \ {w} : Busy(y) \/ (y = m /\ pc[y] = "launch")
    BY <1>1, <1>3, Zenon DEF Ready, MorePlaces, CountPlaces
  <2>2. y \in Writer /\ y # w
    BY <1>1, <1>4, <2>1, Zenon DEF GroupPlaces
  <2>3. y \in Members(group[m])' /\ (Busy(y) => Busy(y)') /\ pc'[y] = pc[y]
    BY <1>2, <1>4, <2>1, <2>2, Zenon DEF Members, Busy, Inserting
  <2>4. CASE m = w
    <3>1. Busy(y)' /\ pc'[m] = "wait" /\ group'[m] # <<>>
      BY <1>2, <1>4, <1>6, <2>1, <2>2, <2>3, <2>4, Zenon
    <3> QED BY <2>3, <3>1, Zenon DEF Publishing
  <2>5. CASE m # w
    <3>1. pc'[m] = pc[m] /\ group'[m] # <<>>
      BY <1>2, <1>4, <1>6, <2>5, Zenon
    <3> QED BY <1>6, <2>1, <2>3, <3>1, Zenon DEF Publishing
  <2> QED BY <2>4, <2>5, Zenon
<1>9. InsertedBy
  <2>1. \A x \in Writer : pc'[x] \in {"count", "wait"} => pc[x] \in {"count", "wait"}
    BY <1>1, <1>4, Zenon
  <2> QED BY <1>2, <2>1, Zenon DEF InsertedBy
<1>10. \A l \in Writer : Publishing(l)' <=> Publishing(l)
  BY <1>4, <1>7, <1>8, Zenon
<1>11. Quiet
  BY <1>2, <1>5, <1>9, <1>10, Zenon DEF Quiet
<1> QED BY <1>11, QuietStep, Zenon DEF Ready, Numbering

\* When the last writer of a parallel group counts down, all have inserted.
LEMMA LastOfGroupApplied ==
  ASSUME Places, NEW w \in Writer, pc[w] = "count", running[Leader(w)] = 1
  PROVE  /\ \A y \in Members(group[Leader(w)]) : y # w => pc[y] = "wait"
         /\ Inserted => \A y \in Members(group[Leader(w)]) : Applied(y)
<1>1. PICK m : m = Leader(w)
  BY Zenon
<1>2. m \in Writer /\ Members(group[m]) \subseteq Writer
  BY <1>1, Zenon DEF Places, ParallelPlaces, GroupPlaces, Leader
<1>3. \A y \in Members(group[m]) : parallel_group[y] = m /\ (y # w => pc[y] = "wait")
  BY <1>1, Zenon DEF Places, LastPlaces
<1>4. m # Null
  BY <1>2, WriterAssumption, Zenon
<1>5. \A y \in Members(group[m]) :
         y \in Writer /\ parallel_group[y] # Null /\ pc[y] \in {"count", "wait"}
  BY <1>2, <1>3, <1>4, Zenon
<1>6. Inserted => \A y \in Members(group[m]) : Applied(y)
  BY <1>5, Zenon DEF Inserted
<1> QED BY <1>1, <1>3, <1>6, Zenon

\* Only the leader whose group it is publishes, and a thread that leaves does not.
LEMMA NonePublishing ==
  ASSUME PublishPlaces, NEW m \in Writer, Publishing(m), ~Publishing(m)',
         \A l \in Writer : l # m => (Publishing(l)' <=> Publishing(l))
  PROVE  \A l \in Writer : ~Publishing(l)'
BY Zenon DEF PublishPlaces

\* The leader counts down last in CompleteParallelWorker and publishes its group,
\* unless an insertion failed.
LEMMA LastLeaderNumbers ==
  ASSUME Induction, NEW base, Ready(base), NEW w \in Writer, LastLeader(w)
  PROVE  Numbering(base)
<1>1. /\ Places /\ Places' /\ PublishPlaces /\ Types /\ Numbers /\ Grouping
      /\ base \in [Writer -> Nat] /\ Sequenced(base)
      /\ pc[w] = "count" /\ Busy(w) /\ running[Leader(w)] = 1 /\ parallel_group[w] = w
  BY Zenon DEF Ready, Places, MorePlaces, LastLeader, Busy, Leader
<1>2. /\ request' = request /\ group' = group /\ state' = state
      /\ UNCHANGED <<parallel_group, sequence, log, memtable, failed>>
      /\ status' = [status EXCEPT ![w] = pgStatus[w]]
  BY Zenon DEF LastLeader
<1>3. PICK label \in {"report", "unlink"} : pc' = [pc EXCEPT ![w] = label]
  BY Zenon DEF LastLeader, AfterApply, Goto
<1>4. /\ w \in Members(group[w])
      /\ \A x \in Writer : pc'[x] = IF x = w THEN label ELSE pc[x]
      /\ \A l \in Writer : l # w => (Publishing(l)' <=> Publishing(l))
  <2>1. WorkerMove(w, w, label)
    BY <1>1, <1>2, <1>3, Zenon DEF WorkerMove
  <2> QED BY <1>1, <2>1, WorkerMoves, Zenon
<1>5. Keeps
  BY <1>2, <1>4, Zenon DEF Keeps
<1>6. Publishing(w) /\ ~Publishing(w)'
  <2>1. group[w] # <<>> /\ pc'[w] \in {"report", "unlink"}
    BY <1>4 DEF Members
  <2> QED BY <1>1, <2>1, Zenon DEF Publishing
<1>7. \A l \in Writer : ~Publishing(l)'
  BY <1>1, <1>4, <1>6, NonePublishing, Zenon
<1>8. InsertedBy
  <2>1. \A x \in Writer : pc'[x] \in {"count", "wait"} => pc[x] \in {"count", "wait"}
    BY <1>4, Zenon
  <2> QED BY <1>2, <2>1, Zenon DEF InsertedBy
<1>9. "insert" \notin failed => \A x \in Members(group[w]) : Applied(x)
  BY <1>1, LastOfGroupApplied, Zenon DEF Sequenced, InOrder, Leader
<1>10. CASE lastSequence' = GroupSequence(w)
  BY <1>1, <1>2, <1>5, <1>6, <1>7, <1>8, <1>9, <1>10, PublishStep, Zenon DEF Numbering
<1>11. CASE status'[w] = "fail" /\ lastSequence' = lastSequence
  <2>1. pgStatus[w] = "fail"
    BY <1>1, <1>2, <1>11, Zenon DEF Types
  <2>2. "insert" \in failed
    BY <2>1, Zenon DEF Ready, MorePlaces, StatusPlaces
  <2>3. Quiet
    BY <1>2, <1>5, <1>7, <1>11, <2>2, Zenon DEF Quiet
  <2> QED BY <1>1, <2>3, QuietStep, Zenon DEF Numbering
<1> QED BY <1>10, <1>11, Zenon DEF LastLeader, AfterApply

\* A follower counts down last and publishes the group for its leader.
LEMMA LastFollowerExitsNumbers ==
  ASSUME Induction, NEW base, Ready(base), NEW w \in Writer, LastFollowerExits(w)
  PROVE  Numbering(base)
<1>1. /\ Places /\ Places' /\ PublishPlaces /\ Types /\ GroupPlaces /\ Numbers /\ Grouping
      /\ base \in [Writer -> Nat] /\ Sequenced(base)
      /\ pc[w] = "count" /\ Busy(w) /\ running[Leader(w)] = 1 /\ w # Leader(w)
  BY Zenon DEF Ready, Places, MorePlaces, LastFollowerExits, Busy
<1>2. /\ request' = request /\ group' = group /\ state' = state
      /\ UNCHANGED <<parallel_group, sequence, log, memtable, failed>>
      /\ pc' = [pc EXCEPT ![w] = "unlink"]
  BY Zenon DEF LastFollowerExits, Goto, shared
<1>3. PICK m : m = Leader(w)
  BY Zenon
<1>4. /\ m \in Writer /\ w \in Members(group[m])
      /\ \A x \in Writer : pc'[x] = IF x = w THEN "unlink" ELSE pc[x]
      /\ \A l \in Writer : l # m => (Publishing(l)' <=> Publishing(l))
  <2>1. WorkerMove(w, m, "unlink")
    BY <1>1, <1>2, <1>3, Zenon DEF WorkerMove, Leader
  <2> QED BY <1>1, <2>1, WorkerMoves, Zenon
<1>5. Keeps
  BY <1>2, <1>4 DEF Keeps
<1>6. \A y \in Members(group[m]) : y # w => pc[y] = "wait"
  BY <1>1, <1>3, LastOfGroupApplied, Zenon
<1>7. group[m] # <<>> /\ pc[m] = "wait" /\ pc'[m] = "wait" /\ state[m] # "COMPLETED"
  <2>1. group[m] # <<>>
    BY <1>4 DEF Members
  <2>2. m \in Members(group[m])
    BY <1>1, <1>4, <2>1, Zenon DEF GroupPlaces
  <2>3. state[m] # "COMPLETED"
    BY <1>1, <1>3, Zenon DEF Ready, MorePlaces, WakePlaces, Leader
  <2> QED BY <1>1, <1>3, <1>4, <1>6, <2>1, <2>2, <2>3, Zenon
<1>8. Publishing(m)
  BY <1>1, <1>4, <1>7, Zenon DEF Publishing
<1>9. ~Publishing(m)'
  <2>1. \A y \in Members(group[m]) : y \in Writer /\ pc'[y] \in {"wait", "unlink"}
    BY <1>1, <1>4, <1>6, Zenon DEF GroupPlaces
  <2>2. \A y \in Members(group[m]) : ~Busy(y)'
    BY <2>1, Zenon DEF Busy, Inserting
  <2>3. Members(group[m])' = Members(group[m]) /\ state'[m] = state[m]
    BY <1>2, Zenon DEF Members
  <2> QED BY <1>7, <2>2, <2>3, Zenon DEF Publishing
<1>10. \A l \in Writer : ~Publishing(l)'
  BY <1>1, <1>4, <1>8, <1>9, NonePublishing, Zenon
<1>11. InsertedBy
  <2>1. \A x \in Writer : pc'[x] \in {"count", "wait"} => pc[x] \in {"count", "wait"}
    BY <1>4, Zenon
  <2> QED BY <1>2, <2>1, Zenon DEF InsertedBy
<1>12. "insert" \notin failed => \A x \in Members(group[m]) : Applied(x)
  BY <1>1, <1>3, LastOfGroupApplied, Zenon DEF Sequenced, InOrder
<1>13. lastSequence' = GroupSequence(m)
  BY <1>3, Zenon DEF LastFollowerExits
<1> QED BY <1>1, <1>2, <1>4, <1>5, <1>8, <1>10, <1>11, <1>12, <1>13, PublishStep, Zenon
        DEF Numbering

\* A follower counts down last and leaves the rest to its leader.
LEMMA LastFollowerWakesNumbers ==
  ASSUME NEW base, Ready(base), NEW w \in Writer, LastFollowerWakes(w)
  PROVE  Numbering(base)
<1>1. /\ Places /\ Types /\ GroupPlaces
      /\ pc[w] = "count" /\ Busy(w) /\ running[Leader(w)] = 1 /\ w # Leader(w)
  BY Zenon DEF Ready, Places, LastFollowerWakes, Busy
<1>2. PICK m : m = Leader(w)
  BY Zenon
<1>3. /\ request' = request /\ group' = group
      /\ UNCHANGED <<parallel_group, sequence, log, memtable, lastSequence, failed>>
      /\ pc' = [pc EXCEPT ![w] = "wait"] /\ state' = [state EXCEPT ![m] = "COMPLETED"]
  BY <1>2, Zenon DEF LastFollowerWakes, Goto, shared, db
<1>4. \A x \in Writer : x # m => state'[x] = state[x]
  BY <1>1, <1>3, Zenon DEF Types
<1>5. /\ m \in Writer /\ w \in Members(group[m])
      /\ \A x \in Writer : pc'[x] = IF x = w THEN "wait" ELSE pc[x]
      /\ \A l \in Writer : l # m => (Publishing(l)' <=> Publishing(l))
  <2>1. WorkerMove(w, m, "wait")
    BY <1>1, <1>2, <1>3, <1>4, Zenon DEF WorkerMove, Leader
  <2> QED BY <1>1, <2>1, WorkerMoves, Zenon
<1>6. Keeps
  BY <1>3, <1>5 DEF Keeps
<1>7. group[m] # <<>> /\ pc[m] = "wait" /\ pc'[m] = "wait" /\ state'[m] = "COMPLETED"
  <2>1. group[m] # <<>>
    BY <1>5 DEF Members
  <2>2. m \in Members(group[m])
    BY <1>1, <1>5, <2>1, Zenon DEF GroupPlaces
  <2>3. pc[m] = "wait"
    BY <1>1, <1>2, <2>2, LastOfGroupApplied, Zenon
  <2>4. state'[m] = "COMPLETED"
    BY <1>1, <1>3, <1>5, Zenon DEF Types
  <2> QED BY <1>1, <1>2, <1>5, <2>1, <2>3, <2>4, Zenon
<1>8. Publishing(m)
  BY <1>1, <1>5, <1>7, Zenon DEF Publishing
<1>9. \A l \in Writer : Publishing(l)' => Publishing(l)
  BY <1>5, <1>8, Zenon
<1>10. ASSUME "insert" \notin failed PROVE \A l \in Writer : Publishing(l) => Publishing(l)'
  <2>1. pgStatus[m] # "fail"
    BY <1>5, <1>10, Zenon DEF Ready, MorePlaces, StatusPlaces
  <2>2. pgStatus[m] = "ok"
    BY <1>1, <1>5, <2>1, Zenon DEF Types, Status
  <2>3. NeedLogSync(m)
    BY <1>2, <2>2, Zenon DEF LastFollowerWakes, EarlyExitAllowed
  <2>4. NeedLogSync(m)'
    BY <1>3, <2>3, Zenon DEF NeedLogSync
  <2>5. group'[m] # <<>>
    BY <1>3, <1>7, Zenon
  <2>6. Publishing(m)'
    BY <1>7, <2>4, <2>5, Zenon DEF Publishing
  <2> QED BY <1>5, <2>6, Zenon
<1>11. InsertedBy
  <2>1. \A x \in Writer : pc'[x] \in {"count", "wait"} => pc[x] \in {"count", "wait"}
    BY <1>1, <1>5, Zenon
  <2> QED BY <1>3, <2>1, Zenon DEF InsertedBy
<1>12. Quiet
  BY <1>3, <1>6, <1>9, <1>10, <1>11, Zenon DEF Quiet
<1> QED BY <1>12, QuietStep, Zenon DEF Ready, Numbering

\* The leader of a parallel group is woken: it publishes, or a follower did.
LEMMA LeaderWakesNumbers ==
  ASSUME Induction, NEW base, Ready(base), NEW w \in Writer, LeaderWakes(w)
  PROVE  Numbering(base)
<1>1. /\ Places /\ Places' /\ PublishPlaces /\ Types /\ GroupPlaces /\ Numbers /\ Grouping
      /\ base \in [Writer -> Nat] /\ Sequenced(base)
      /\ pc[w] = "wait" /\ w = parallel_group[w] /\ state[w] = "COMPLETED"
  BY Zenon DEF Ready, Places, MorePlaces, LeaderWakes, Leader
<1>2. /\ request' = request /\ group' = group /\ state' = state /\ status' = status
      /\ UNCHANGED <<parallel_group, sequence, log, memtable, failed>>
  BY Zenon DEF LeaderWakes
<1>3. PICK label \in {"report", "unlink"} : pc' = [pc EXCEPT ![w] = label]
  BY Zenon DEF LeaderWakes, AfterApply, Goto
<1>4. \A x \in Writer : pc'[x] = IF x = w THEN label ELSE pc[x]
  BY <1>1, <1>3, Zenon DEF Types
<1>5. Keeps
  BY <1>2, <1>4, Zenon DEF Keeps
<1>6. \A x \in Writer : Busy(x)' <=> Busy(x)
  BY <1>1, <1>2, <1>4, Zenon DEF Busy, Inserting
<1>7. ~Publishing(w)'
  <2>1. pc'[w] \in {"report", "unlink"}
    BY <1>4, Zenon
  <2> QED BY <2>1, Zenon DEF Publishing
<1>8. ASSUME NEW l \in Writer, l # w PROVE Publishing(l)' <=> Publishing(l)
  <2>1. \A x \in Members(group[l]) : Busy(x)' <=> Busy(x)
    BY <1>1, <1>6, Zenon DEF GroupPlaces
  <2>2. pc'[l] = pc[l] /\ group'[l] = group[l] /\ state'[l] = state[l]
    BY <1>2, <1>4, <1>8, Zenon
  <2> QED BY <1>2, <2>1, <2>2, PublishingStays, Zenon
<1>9. InsertedBy
  <2>1. \A x \in Writer : pc'[x] \in {"count", "wait"} => pc[x] \in {"count", "wait"}
    BY <1>4, Zenon
  <2> QED BY <1>2, <2>1, Zenon DEF InsertedBy
<1>10. group[w] # <<>>
  BY <1>1, WriterAssumption, Zenon DEF Ready, DataInv, DataAt, Leads
<1>11. CASE status[w] = "ok" /\ NeedLogSync(w)
  <2>1. Publishing(w)
    BY <1>1, <1>10, <1>11, Zenon DEF Publishing
  <2>2. \A l \in Writer : ~Publishing(l)'
    BY <1>1, <1>7, <1>8, <2>1, NonePublishing, Zenon
  <2>3. \A y \in Members(group[w]) : parallel_group[y] = w /\ pc[y] = "wait"
    BY <1>1, <1>11, Zenon DEF Ready, MorePlaces, WakePlaces
  <2>4. \A y \in Members(group[w]) : y \in Writer /\ parallel_group[y] # Null
    BY <1>1, <2>3, WriterAssumption, Zenon DEF GroupPlaces
  <2>5. "insert" \notin failed => \A x \in Members(group[w]) : Applied(x)
    BY <1>1, <2>3, <2>4, Zenon DEF Sequenced, InOrder, Inserted
  <2>6. lastSequence' = GroupSequence(w)
    BY <1>1, <1>2, <1>11, Zenon DEF LeaderWakes, AfterApply, EarlyExitAllowed, Leader
  <2> QED BY <1>1, <1>2, <1>5, <1>9, <2>1, <2>2, <2>5, <2>6, PublishStep, Zenon
          DEF Numbering
<1>12. CASE ~(status[w] = "ok" /\ NeedLogSync(w))
  <2>1. lastSequence' = lastSequence
    BY <1>1, <1>2, <1>12, Zenon DEF LeaderWakes, AfterApply, EarlyExitAllowed, Leader
  <2>2. ASSUME "insert" \notin failed PROVE ~Publishing(w)
    <3>1. pgStatus[w] # "fail"
      BY <2>2, Zenon DEF Ready, MorePlaces, StatusPlaces
    <3>2. pgStatus[w] = "ok"
      BY <1>1, <3>1, Zenon DEF Types, Status
    <3>3. status[w] = "ok"
      BY <1>1, <3>2, Zenon DEF Ready, MorePlaces, StatusPlaces
    <3>4. ASSUME NEW x \in Members(group[w]), Busy(x) PROVE FALSE
      <4>1. x \in Writer
        BY <1>1, Zenon DEF GroupPlaces
      <4>2. parallel_group[x] \in Writer /\ x \in Members(group[parallel_group[x]])
        BY <1>1, <3>4, <4>1, Zenon DEF Places, ParallelPlaces, Busy
      <4>3. parallel_group[x] = w
        BY <1>1, <4>1, <4>2, Zenon DEF GroupPlaces
      <4> QED BY <1>1, <3>4, <4>1, <4>3, Zenon DEF Ready, MorePlaces, WakePlaces
    <3> QED BY <1>1, <1>12, <3>3, <3>4, Zenon DEF Publishing
  <2>3. Quiet
    BY <1>2, <1>5, <1>7, <1>8, <1>9, <2>1, <2>2, Zenon DEF Quiet
  <2> QED BY <1>1, <2>3, QuietStep, Zenon DEF Numbering
<1> QED BY <1>11, <1>12, Zenon

\* A writer of a parallel group inserts its batch.
LEMMA InsertBatchNumbers ==
  ASSUME Induction, NEW base, Ready(base), NEW w \in Writer, InsertBatch(w)
  PROVE  Numbering(base)
<1>1. /\ Places /\ Places' /\ PublishPlaces /\ Types /\ GroupPlaces /\ Numbers /\ Grouping
      /\ base \in [Writer -> Nat] /\ Sequenced(base) /\ Busy(w) /\ Inserting(w)
  BY Zenon DEF Ready, Places, MorePlaces, InsertBatch, Busy
<1>2. /\ request' = request /\ group' = group /\ state' = state
      /\ UNCHANGED <<parallel_group, sequence, log, lastSequence>>
      /\ pc' = [pc EXCEPT ![w] = "count"] /\ failed \subseteq failed'
      /\ callbackFailed' = callbackFailed
  BY Zenon DEF InsertBatch, Goto
<1>3. PICK m : m = parallel_group[w]
  BY Zenon
<1>4. /\ m \in Writer /\ w \in Members(group[m])
      /\ \A x \in Writer : pc'[x] = IF x = w THEN "count" ELSE pc[x]
      /\ \A l \in Writer : l # m => (Publishing(l)' <=> Publishing(l))
  <2>1. WorkerMove(w, m, "count")
    BY <1>1, <1>2, <1>3, Zenon DEF WorkerMove
  <2> QED BY <1>1, <2>1, WorkerMoves, Zenon
<1>5. Keeps
  BY <1>2, <1>4 DEF Keeps
<1>6. group[m] # <<>> /\ pc[m] \in {"launch", "insert", "count", "wait"}
  <2>1. pc[m] \in {"launch", "insert", "count", "wait"}
    BY <1>1, <1>3, Zenon DEF Ready, MorePlaces, WakePlaces
  <2> QED BY <1>4, <2>1 DEF Members
<1>7. Publishing(m) /\ Publishing(m)'
  <2>1. Publishing(m)
    BY <1>1, <1>4, <1>6, Zenon DEF Publishing
  <2>2. w \in Members(group[m])' /\ Busy(w)' /\ group'[m] # <<>>
    BY <1>2, <1>4, <1>6, Zenon DEF Members, Busy
  <2>3. pc'[m] \in {"launch", "insert", "count", "wait"}
    BY <1>4, <1>6, Zenon
  <2> QED BY <2>1, <2>2, <2>3, Zenon DEF Publishing
<1>8. \A l \in Writer : Publishing(l)' <=> Publishing(l)
  BY <1>4, <1>7, Zenon
<1>9. m # Null
  BY <1>4, WriterAssumption, Zenon
<1>10. /\ \A x \in Members(group[m]) : Asked(x)
       /\ \A x \in Writer : x \in callbackFailed => Refuses(x)
  BY <1>4, <1>6, Zenon DEF Ready, DataInv, DataTypes, DataAt, GroupLogged
<1>11. CASE memtable' = memtable /\ ("insert" \in failed' \/ w \in callbackFailed)
  <2>1. "insert" \notin failed' => Applied(w)'
    BY <1>2, <1>10, <1>11, Zenon DEF Applied, Refuses
  <2>2. "insert" \notin failed' => InsertedBy
    BY <1>2, <1>4, <2>1, Zenon DEF InsertedBy
  <2>3. Quiet
    BY <1>2, <1>5, <1>8, <1>11, <2>2, Zenon DEF Quiet
  <2> QED BY <1>1, <2>3, QuietStep, Zenon DEF Numbering
<1>12. CASE memtable' = memtable \cup {w} /\ w \notin callbackFailed /\ failed' = failed
  <2>1. ~Refuses(w)
    BY <1>4, <1>10, <1>12, Zenon DEF Asked
  <2>2. \A x \in Writer : Numbered(x)' <=> Numbered(x)
    BY <1>2, <1>3, <1>9, <1>12, Zenon DEF Numbered
  <2>3. Grouping'
    <3>1. memtable' \subseteq Writer /\ \A x \in memtable' : x \in memtable \/ ~Refuses(x)
      BY <1>1, <1>12, <2>1, Zenon DEF Grouping
    <3> QED BY <1>1, <1>5, <2>2, <3>1, GroupingStays, Zenon
  <2>4. Recorded(base)'
    BY <1>1, <1>2, <1>5, RecordedStays, Zenon DEF Sequenced
  <2>5. Allotted(base)'
    <3>1. \A x \in Writer : Numbered(x)' => Numbered(x) /\ sequence'[x] = sequence[x]
      BY <1>2, <2>2, Zenon
    <3> QED BY <1>1, <1>5, <3>1, AllottedStays, Zenon DEF Sequenced, Places
  <2>6. Based(base)'
    BY <1>1, <1>2, <1>8, Zenon DEF Sequenced, Based
  <2>7. ASSUME "insert" \notin failed' PROVE InOrder(base)'
    <3>1. Based(base) /\ InOrder(base)
      BY <1>1, <1>12, <2>7, Zenon DEF Sequenced
    <3>2. Applied(w)'
      BY <1>12, Zenon DEF Applied
    <3>3. InsertedBy
      BY <1>2, <1>4, <3>2, Zenon DEF InsertedBy
    <3>4. memtable \subseteq memtable' /\ \A x \in memtable' : x \in memtable \/ x \in Members(group[m])
      BY <1>4, <1>12, Zenon
    <3>5. GrowsBy(m)
      BY <1>2, <1>5, <1>7, <3>3, <3>4, Zenon DEF GrowsBy
    <3>6. Unpublished
      BY <1>2, <1>8, Zenon DEF Unpublished
    <3> QED BY <1>1, <1>4, <3>1, <3>5, <3>6, InOrderGrows, Zenon
  <2> QED BY <2>3, <2>4, <2>5, <2>6, <2>7, Zenon DEF Numbering, Sequenced
<1> QED BY <1>11, <1>12, Zenon DEF InsertBatch

\* What a leader allots to the writers of its group.
LEMMA AllotmentIs ==
  ASSUME Places, DistinctPlaces, NEW l \in Writer, NEW k \in 1..Len(group[l])
  PROVE  Allotment(l)[group[l][k]] = lastSequence + 1 + Offset(group[l], k)
<1>1. PICK g, x : g = group[l] /\ x = g[k]
  BY Zenon
<1>2. g \in Seq(Writer)
  BY <1>1, Zenon DEF Places, Types
<1>3. k \in DOMAIN g /\ DOMAIN g = 1..Len(g) /\ x \in Members(g)
  BY <1>1, <1>2 DEF Members
<1>4. \A i \in DOMAIN g : g[i] = x => i = k
  BY <1>1, <1>3, Zenon DEF DistinctPlaces
<1>5. (CHOOSE i \in DOMAIN g : g[i] = x) = k
  BY <1>1, <1>3, <1>4, Zenon
<1>6. Allotment(l)[x] = lastSequence + 1
          + Keys(Allowed(SubSeq(g, 1, (CHOOSE i \in DOMAIN g : g[i] = x) - 1)))
  BY <1>1, <1>3, Zenon DEF Allotment
<1> QED BY <1>1, <1>5, <1>6, Zenon DEF Offset

\* Writers of one leader's group get their numbers.
NumbersBy(base, m) ==
  \A x \in Writer : Numbered(x)' =>
    \/ Numbered(x) /\ sequence'[x] = sequence[x]
    \/ \E j \in 1..Len(group[m]) :
         x = group[m][j] /\ sequence'[x] = base[m] + 1 + Offset(group[m], j)

\* Numbers given from a group's range, each writer at its place, are allotted.
LEMMA AllottedGrows ==
  ASSUME Places, DistinctPlaces, Keeps, group' = group, NEW base, Allotted(base),
         NEW m \in Writer, pc'[m] # "log", NumbersBy(base, m)
  PROVE  Allotted(base)'
<1>1. SUFFICES ASSUME NEW l \in Writer, NEW k \in 1..Len(group'[l]), Numbered(group[l][k])'
               PROVE  /\ pc'[l] # "log"
                      /\ sequence'[group'[l][k]] = base[l] + 1 + Offset(group[l], k)'
  BY Zenon DEF Allotted
<1>2. PICK x : x = group[l][k]
  BY Zenon
<1>3. x \in Writer /\ x \in Members(group[l]) /\ group[l] # <<>> /\ k \in 1..Len(group[l])
  <2>1. group[l] \in Seq(Writer)
    BY Zenon DEF Places, Types
  <2> QED BY <1>2, <2>1 DEF Members
<1>4. Numbered(x)' /\ Offset(group[l], k)' = Offset(group[l], k)
  BY <1>1, <1>2, SameOffset, Zenon DEF Numbered, Keeps
<1>5. CASE Numbered(x) /\ sequence'[x] = sequence[x]
  BY <1>2, <1>3, <1>4, <1>5, Zenon DEF Allotted, Keeps
<1>6. CASE \E j \in 1..Len(group[m]) :
             x = group[m][j] /\ sequence'[x] = base[m] + 1 + Offset(group[m], j)
  <2>1. PICK j \in 1..Len(group[m]) :
               x = group[m][j] /\ sequence'[x] = base[m] + 1 + Offset(group[m], j)
    BY <1>6, Zenon
  <2>2. x \in Members(group[m])
    BY <2>1, Zenon DEF Members, Places, Types
  <2>3. l = m
    BY <1>3, <2>2, Zenon DEF Places, GroupPlaces
  <2>4. j = k
    BY <1>2, <1>3, <2>1, <2>3, Zenon DEF DistinctPlaces
  <2> QED BY <1>2, <1>4, <2>1, <2>3, <2>4, Zenon
<1> QED BY <1>3, <1>4, <1>5, <1>6, Zenon DEF NumbersBy

\* A group's followers are launched, the leader first.
LEMMA LaunchFollowersNumbers ==
  ASSUME NEW base, Ready(base), NEW w \in Writer, LaunchFollowers(w)
  PROVE  Numbering(base)
<1>1. /\ Places /\ Places' /\ DistinctPlaces /\ Types /\ GroupPlaces /\ GroupPlaces'
      /\ Grouping /\ Numbers /\ Sequenced(base) /\ pc[w] = "launch" /\ Leads(w)
  BY Zenon DEF Ready, Places, MorePlaces, DataInv, DataAt, LaunchFollowers
<1>2. /\ pc' = pc /\ request' = request /\ group' = group /\ state' = state
      /\ UNCHANGED <<log, memtable, lastSequence, failed>>
      /\ parallel_group' = [parallel_group EXCEPT ![w] = w]
      /\ sequence' = [sequence EXCEPT ![w] = Allotment(w)[w]]
  BY Zenon DEF LaunchFollowers, db
<1>3. group[w] # <<>> /\ group[w][1] = w /\ w \in Members(group[w]) /\ 1 \in 1..Len(group[w])
  <2>1. group[w] # <<>>
    BY <1>1, Zenon DEF Leads
  <2>2. group[w][1] = w /\ w \in Members(group[w])
    BY <1>1, <2>1, Zenon DEF GroupPlaces
  <2>3. 1 \in 1..Len(group[w])
    BY <1>1, <2>1 DEF Types
  <2> QED BY <2>1, <2>2, <2>3, Zenon
<1>4. Keeps
  BY <1>2, Zenon DEF Keeps
<1>5. \A l \in Writer : Publishing(l)' <=> Publishing(l)
  <2>1. \A x : Busy(x)' <=> Busy(x)
    BY <1>2, Zenon DEF Busy, Inserting
  <2> QED BY <1>2, <2>1, PublishingStays, Zenon
<1>6. Publishing(w)
  BY <1>1, <1>3, Zenon DEF Publishing
<1>7. \A x \in Writer : x # w => parallel_group'[x] = parallel_group[x] /\ sequence'[x] = sequence[x]
  BY <1>1, <1>2, Zenon DEF Types, Numbers
<1>8. \A x \in Writer : x # w => (Numbered(x)' <=> Numbered(x))
  BY <1>2, <1>7, Zenon DEF Numbered
<1>9. sequence'[w] = base[w] + 1 + Offset(group[w], 1)
  <2>1. Allotment(w)[w] = lastSequence + 1 + Offset(group[w], 1)
    BY <1>1, <1>3, AllotmentIs, Zenon
  <2>2. base[w] = lastSequence
    BY <1>1, <1>6, Zenon DEF Sequenced, Based
  <2>3. sequence'[w] = Allotment(w)[w]
    BY <1>1, <1>2, Zenon DEF Numbers
  <2> QED BY <2>1, <2>2, <2>3, Zenon
<1>10. NumbersBy(base, w)
  BY <1>3, <1>7, <1>8, <1>9, Zenon DEF NumbersBy
<1>11. Allotted(base)'
  BY <1>1, <1>2, <1>4, <1>10, AllottedGrows, Zenon DEF Sequenced
<1>12. Grouping'
  <2>1. memtable' \subseteq Writer
    BY <1>1, <1>2, Zenon DEF Grouping
  <2>2. \A x \in Writer : Numbered(x)' => Numbered(x) \/ \E l \in Writer : x \in Members(group'[l])
    BY <1>2, <1>3, <1>8, Zenon
  <2> QED BY <1>1, <1>2, <1>4, <2>1, <2>2, GroupingStays, Zenon
<1>13. Recorded(base)'
  BY <1>1, <1>2, <1>4, RecordedStays, Zenon DEF Sequenced
<1>14. Based(base)'
  BY <1>1, <1>2, <1>5, Zenon DEF Sequenced, Based
<1>15. ASSUME "insert" \notin failed' PROVE InOrder(base)'
  <2>1. InOrder(base)
    BY <1>1, <1>2, <1>15, Zenon DEF Sequenced
  <2>2. InsertedBy
    BY <1>1, <1>2, <1>7, Zenon DEF InsertedBy
  <2> QED BY <1>1, <1>2, <1>4, <1>5, <2>1, <2>2, InOrderStays, Zenon
<1> QED BY <1>11, <1>12, <1>13, <1>14, <1>15, Zenon DEF Numbering, Sequenced

\* LaunchParallelFollowers: the next follower gets the numbers after those of the
\* writers before it.
LEMMA LaunchNextNumbers ==
  ASSUME Induction, NEW base, Ready(base), NEW w \in Writer, LaunchNext(w)
  PROVE  Numbering(base)
<1>1. /\ Places /\ Places' /\ DistinctPlaces /\ Types /\ GroupPlaces /\ GroupPlaces'
      /\ Grouping /\ Numbers /\ Sequenced(base) /\ pc[w] = "launch" /\ cursor[w] # Null
      /\ Leads(w) /\ GroupLogged(w)
  BY Zenon DEF Ready, Places, MorePlaces, DataInv, DataAt, LaunchNext
<1>2. PICK c \in 1..(Len(group[w]) - 1) :
         /\ cursor[w] = group[w][c] /\ link_newer[cursor[w]] = group[w][c + 1]
         /\ parallel_group[cursor[w]] = w
  BY <1>1, Zenon DEF Ready, MorePlaces, CursorPlaces
<1>3. PICK at, next : at = group[w][c] /\ next = group[w][c + 1]
  BY Zenon
<1>4. /\ group[w] \in Seq(Writer) /\ group[w] # <<>> /\ c \in 1..Len(group[w])
      /\ c + 1 \in 1..Len(group[w]) /\ at \in Writer /\ next \in Writer
      /\ at \in Members(group[w]) /\ next \in Members(group[w])
  <2>1. group[w] \in Seq(Writer)
    BY <1>1, Zenon DEF Types
  <2> QED BY <1>2, <1>3, <2>1 DEF Members
<1>5. /\ request' = request /\ group' = group
      /\ UNCHANGED <<log, memtable, lastSequence, failed>>
      /\ parallel_group' = [parallel_group EXCEPT ![next] = w]
      /\ state' = [state EXCEPT ![next] = "PARALLEL_FOLLOWER"]
      /\ sequence' = [sequence EXCEPT ![next] = sequence[at] +
                         (IF at \in callbackFailed THEN 0 ELSE request[at].count)]
  BY <1>2, <1>3, Zenon DEF LaunchNext, db
<1>6. PICK label \in {"insert", "launch"} : pc' = [pc EXCEPT ![w] = label]
  BY Zenon DEF LaunchNext, Goto
<1>7. /\ \A x \in Writer : pc'[x] = IF x = w THEN label ELSE pc[x]
      /\ \A x \in Writer : x # next =>
           /\ parallel_group'[x] = parallel_group[x] /\ sequence'[x] = sequence[x]
           /\ state'[x] = state[x]
  BY <1>1, <1>5, <1>6, Zenon DEF Types, Numbers
<1>8. Keeps
  BY <1>5, <1>7, Zenon DEF Keeps
<1>9. Publishing(w) /\ Publishing(w)'
  <2>1. pc'[w] \in {"insert", "launch"} /\ group'[w] # <<>>
    BY <1>4, <1>5, <1>7, Zenon
  <2> QED BY <1>1, <1>4, <2>1, Zenon DEF Publishing
<1>10. ASSUME NEW l \in Writer, l # w PROVE Publishing(l)' <=> Publishing(l)
  <2>1. CASE group[l] = <<>>
    BY <1>5, <2>1, Zenon DEF Publishing
  <2>2. CASE group[l] # <<>>
    <3>1. /\ l \in Members(group[l]) /\ w \in Members(group[w])
          /\ w \notin Members(group[l]) /\ next \notin Members(group[l])
      BY <1>1, <1>4, <1>10, <2>2, Zenon DEF GroupPlaces
    <3>2. \A x \in Members(group[l]) : x \in Writer /\ x # w /\ x # next
      BY <1>1, <3>1, Zenon DEF GroupPlaces
    <3>3. \A x \in Members(group[l]) : pc'[x] = pc[x] /\ state'[x] = state[x]
      BY <1>7, <3>2, Zenon
    <3>4. \A x \in Members(group[l]) : Busy(x)' <=> Busy(x)
      BY <3>3, Zenon DEF Busy, Inserting
    <3>5. pc'[l] = pc[l] /\ state'[l] = state[l] /\ group'[l] = group[l]
      BY <1>5, <3>1, <3>3, Zenon
    <3> QED BY <1>5, <3>4, <3>5, PublishingStays, Zenon
  <2> QED BY <2>1, <2>2, Zenon
<1>11. \A l \in Writer : Publishing(l)' <=> Publishing(l)
  BY <1>9, <1>10, Zenon
<1>12. \A x \in Writer : x # next => (Numbered(x)' <=> Numbered(x))
  BY <1>5, <1>7, Zenon DEF Numbered
<1>13. sequence'[next] = base[w] + 1 + Offset(group[w], c + 1)
  <2>1. Numbered(at)
    BY <1>2, <1>3, WriterAssumption, Zenon DEF Numbered
  <2>2. sequence[at] = base[w] + 1 + Offset(group[w], c)
    BY <1>1, <1>3, <1>4, <2>1, Zenon DEF Sequenced, Allotted
  <2>3. at \in callbackFailed <=> Refuses(at)
    <3>1. Asked(at)
      BY <1>1, <1>4, Zenon DEF GroupLogged
    <3> QED BY <1>4, <3>1, Zenon DEF Asked, Ready, DataInv, DataTypes
  <2>4. Offset(group[w], c + 1) = Offset(group[w], c) + Width(at) /\ Offset(group[w], c) \in Nat
    BY <1>1, <1>3, <1>4, OffsetStep
  <2>5. sequence'[next] = sequence[at] + Width(at)
    <3>1. sequence'[next] = sequence[at] + (IF at \in callbackFailed THEN 0 ELSE request[at].count)
      BY <1>1, <1>4, <1>5, Zenon DEF Numbers
    <3> QED BY <2>3, <3>1, Zenon DEF Width
  <2>6. Width(at) \in Nat /\ base[w] \in Nat
    BY <1>1, <1>4, Zenon DEF Width, Numbers, Ready
  <2> QED BY <2>2, <2>4, <2>5, <2>6
<1>14. NumbersBy(base, w)
  BY <1>3, <1>4, <1>7, <1>12, <1>13, Zenon DEF NumbersBy
<1>15. pc'[w] # "log"
  BY <1>7, Zenon
<1>16. Allotted(base)'
  BY <1>1, <1>5, <1>8, <1>14, <1>15, AllottedGrows, Zenon DEF Sequenced
<1>17. Grouping'
  <2>1. memtable' \subseteq Writer
    BY <1>1, <1>5, Zenon DEF Grouping
  <2>2. \A x \in Writer : Numbered(x)' => Numbered(x) \/ \E l \in Writer : x \in Members(group'[l])
    BY <1>4, <1>5, <1>12, Zenon
  <2> QED BY <1>1, <1>5, <1>8, <2>1, <2>2, GroupingStays, Zenon
<1>18. Recorded(base)'
  BY <1>1, <1>5, <1>8, RecordedStays, Zenon DEF Sequenced
<1>19. Based(base)'
  BY <1>1, <1>5, <1>11, Zenon DEF Sequenced, Based
<1>20. ASSUME "insert" \notin failed' PROVE InOrder(base)'
  <2>1. InOrder(base)
    BY <1>1, <1>5, <1>20, Zenon DEF Sequenced
  <2>2. pc[next] = "joined" /\ next # w
    <3>1. next = link_newer[cursor[w]]
      BY <1>2, <1>3, Zenon
    <3> QED BY <1>1, <3>1, Zenon DEF Places, LaunchPlaces
  <2>3. \A x \in Writer : pc'[x] \in {"count", "wait"} => x # next /\ pc[x] \in {"count", "wait"}
    BY <1>7, <2>2, Zenon
  <2>4. InsertedBy
    BY <1>7, <2>3, Zenon DEF InsertedBy
  <2> QED BY <1>1, <1>5, <1>8, <1>11, <2>1, <2>4, InOrderStays, Zenon
<1> QED BY <1>16, <1>17, <1>18, <1>19, <1>20, Zenon DEF Numbering, Sequenced

\* The leader inserts the batches of its group.
LEMMA InsertGroupNumbers ==
  ASSUME Induction, NEW base, Ready(base), NEW w \in Writer, InsertGroup(w)
  PROVE  Numbering(base)
<1>1. /\ Places /\ Places' /\ PublishPlaces /\ DistinctPlaces /\ Types /\ GroupPlaces
      /\ GroupPlaces' /\ Grouping /\ Numbers /\ base \in [Writer -> Nat] /\ Sequenced(base)
      /\ pc[w] = "apply" /\ Leads(w) /\ GroupLogged(w) /\ status[w] = "ok"
  BY Zenon DEF Ready, Places, MorePlaces, StatusPlaces, DataInv, DataAt, InsertGroup
<1>2. group[w] \in Seq(Writer) /\ group[w] # <<>> /\ w \in Members(group[w])
  <2>1. group[w] # <<>>
    BY <1>1, Zenon DEF Leads
  <2> QED BY <1>1, <2>1, Zenon DEF Types, GroupPlaces
<1>3. \A n : n \in (IF MayFail("insert") THEN 0..Len(group[w]) ELSE {Len(group[w])}) =>
              n \in 0..Len(group[w])
  BY <1>2
<1>4. PICK n \in 0..Len(group[w]) :
        LET done  == {group[w][i] : i \in 1..n} \ callbackFailed
            short == n < Len(group[w])
        IN  /\ memtable' = memtable \cup done
            /\ sequence' = [x \in Writer |-> IF x \in done THEN Allotment(w)[x]
                                             ELSE sequence[x]]
            /\ status' = IF short THEN [status EXCEPT ![group[w][n + 1]] = "fail"]
                         ELSE status
            /\ failed' = IF short THEN failed \cup {"insert"} ELSE failed
  BY <1>3, Zenon DEF InsertGroup
<1>5. PICK done : done = {group[w][i] : i \in 1..n} \ callbackFailed
  BY Zenon
<1>6. /\ memtable' = memtable \cup done
      /\ sequence' = [x \in Writer |-> IF x \in done THEN Allotment(w)[x] ELSE sequence[x]]
      /\ n < Len(group[w]) => failed' = failed \cup {"insert"}
      /\ n = Len(group[w]) => status' = status /\ failed' = failed
  BY <1>2, <1>4, <1>5
<1>7. /\ request' = request /\ group' = group /\ state' = state /\ log' = log
      /\ parallel_group' = parallel_group /\ callbackFailed' = callbackFailed
  BY Zenon DEF InsertGroup
<1>8. PICK label \in {"report", "unlink"} : pc' = [pc EXCEPT ![w] = label]
  BY Zenon DEF InsertGroup, AfterApply, Goto
<1>9. \A x \in Writer : pc'[x] = IF x = w THEN label ELSE pc[x]
  BY <1>1, <1>8, Zenon DEF Types
<1>10. Keeps /\ pc'[w] # "log"
  BY <1>7, <1>9, Zenon DEF Keeps
<1>11. Publishing(w) /\ base[w] = lastSequence
  BY <1>1, <1>2, Zenon DEF Publishing, Sequenced, Based
<1>12. \A l \in Writer : ~Publishing(l)'
  <2>1. ~Publishing(w)'
    <3>1. pc'[w] \in {"report", "unlink"}
      BY <1>9, Zenon
    <3> QED BY <3>1, Zenon DEF Publishing
  <2>2. \A x \in Writer : Busy(x)' <=> Busy(x)
    BY <1>1, <1>7, <1>9, Zenon DEF Busy, Inserting
  <2>3. ASSUME NEW l \in Writer, l # w PROVE Publishing(l)' <=> Publishing(l)
    <3>1. \A x \in Members(group[l]) : Busy(x)' <=> Busy(x)
      BY <1>1, <2>2, Zenon DEF GroupPlaces
    <3>2. pc'[l] = pc[l] /\ group'[l] = group[l] /\ state'[l] = state[l]
      BY <1>7, <1>9, <2>3, Zenon
    <3> QED BY <1>7, <3>1, <3>2, PublishingStays, Zenon
  <2> QED BY <1>1, <1>11, <2>1, <2>3, NonePublishing, Zenon
<1>13. \A x \in done : /\ x \in Writer /\ x \in Members(group[w]) /\ x \notin callbackFailed
                       /\ \E j \in 1..Len(group[w]) : x = group[w][j]
  BY <1>2, <1>5 DEF Members
<1>14. \A x \in done : ~Refuses(x)
  BY <1>1, <1>2, <1>13, Zenon DEF GroupLogged, Asked
<1>15. NumbersBy(base, w)
  <2>1. ASSUME NEW x \in done
        PROVE  \E j \in 1..Len(group[w]) :
                 x = group[w][j] /\ sequence'[x] = base[w] + 1 + Offset(group[w], j)
    <3>1. PICK j \in 1..Len(group[w]) : x = group[w][j]
      BY <1>13, Zenon
    <3>2. Allotment(w)[x] = lastSequence + 1 + Offset(group[w], j)
      BY <1>1, <3>1, AllotmentIs, Zenon
    <3>3. sequence'[x] = Allotment(w)[x]
      BY <1>6, <1>13, Zenon
    <3> QED BY <1>11, <3>1, <3>2, <3>3, Zenon
  <2>2. ASSUME NEW x \in Writer, x \notin done, Numbered(x)'
        PROVE  Numbered(x) /\ sequence'[x] = sequence[x]
    <3>1. sequence'[x] = sequence[x]
      BY <1>6, <2>2, Zenon
    <3> QED BY <1>6, <1>7, <2>2, <3>1, Zenon DEF Numbered
  <2> QED BY <2>1, <2>2, Zenon DEF NumbersBy
<1>16. Allotted(base)'
  BY <1>1, <1>7, <1>10, <1>15, AllottedGrows, Zenon DEF Sequenced
<1>17. Grouping'
  <2>1. memtable' \subseteq Writer /\ \A x \in memtable' : x \in memtable \/ ~Refuses(x)
    BY <1>1, <1>6, <1>13, <1>14, Zenon DEF Grouping
  <2>2. \A x \in Writer : Numbered(x)' => Numbered(x) \/ \E l \in Writer : x \in Members(group'[l])
    BY <1>6, <1>7, <1>13, Zenon DEF Numbered
  <2> QED BY <1>1, <1>10, <2>1, <2>2, GroupingStays, Zenon
<1>18. Recorded(base)'
  BY <1>1, <1>7, <1>10, RecordedStays, Zenon DEF Sequenced
<1>19. Based(base)'
  BY <1>12, Zenon DEF Based
<1>20. ASSUME "insert" \notin failed' PROVE InOrder(base)'
  <2>1. n = Len(group[w]) /\ status' = status /\ failed' = failed
    BY <1>2, <1>6, <1>20
  <2>2. Based(base) /\ InOrder(base)
    BY <1>1, <1>20, <2>1, Zenon DEF Sequenced
  <2>3. InsertedBy
    <3>1. \A x \in Writer : pc'[x] \in {"count", "wait"} => pc[x] \in {"count", "wait"}
      BY <1>9, Zenon
    <3> QED BY <1>7, <3>1, Zenon DEF InsertedBy
  <2>4. memtable \subseteq memtable' /\ \A x \in memtable' : x \in memtable \/ x \in Members(group[w])
    BY <1>6, <1>13, Zenon
  <2>5. GrowsBy(w)
    BY <1>7, <1>10, <1>11, <2>3, <2>4, Zenon DEF GrowsBy
  <2>6. Published(w)
    <3>1. lastSequence' = GroupSequence(w)
      BY <1>1, <2>1, Zenon DEF InsertGroup, AfterApply
    <3>2. ASSUME NEW x \in Members(group[w]) PROVE Applied(x)'
      <4>1. x \in Writer /\ \E i \in 1..n : x = group[w][i]
        BY <1>2, <2>1 DEF Members
      <4>2. CASE x \in callbackFailed
        <5>1. Refuses(x)
          BY <4>1, <4>2, Zenon DEF Ready, DataInv, DataTypes
        <5> QED BY <1>7, <5>1, Zenon DEF Applied, Refuses
      <4>3. CASE x \notin callbackFailed
        <5>1. x \in done
          BY <1>5, <4>1, <4>3, Zenon
        <5> QED BY <1>6, <5>1, Zenon DEF Applied
      <4> QED BY <4>2, <4>3, Zenon
    <3> QED BY <3>1, <3>2, Zenon DEF Published
  <2> QED BY <1>1, <2>2, <2>5, <2>6, InOrderGrows, Zenon
<1> QED BY <1>16, <1>17, <1>18, <1>19, <1>20, Zenon DEF Numbering, Sequenced

\* A leader logs its group: its batches will have the next sequence numbers.
LEMMA LogGroupNumbers ==
  ASSUME Induction, NEW base, Ready(base), NEW w \in Writer, LogGroup(w)
  PROVE  \E b \in [Writer -> Nat] : Numbering(b)
<1>1. /\ Places /\ Places' /\ Types /\ GroupPlaces /\ Grouping /\ Numbers
      /\ base \in [Writer -> Nat] /\ Sequenced(base)
      /\ pc[w] = "log" /\ Leads(w) /\ DataTypes
  BY Zenon DEF Ready, Places, DataInv, DataAt, LogGroup
<1>2. group[w] \in Seq(Writer) /\ group[w] # <<>>
  BY <1>1, Zenon DEF Types, Leads
<1>3. /\ request' = request /\ group' = group /\ state' = state
      /\ UNCHANGED <<parallel_group, sequence, memtable, lastSequence>>
      /\ failed \subseteq failed' /\ ("insert" \in failed' => "insert" \in failed)
  BY Zenon DEF LogGroup
<1>4. PICK label \in {"report", "launch", "apply"} : pc' = [pc EXCEPT ![w] = label]
  BY Zenon DEF LogGroup, Goto
<1>5. \A x \in Writer : pc'[x] = IF x = w THEN label ELSE pc[x]
  BY <1>1, <1>4, Zenon DEF Types
<1>6. PICK b : b = [base EXCEPT ![w] = lastSequence]
  BY Zenon
<1>7. /\ b \in [Writer -> Nat] /\ b[w] = lastSequence
      /\ \A l \in Writer : l # w => b[l] = base[l]
  BY <1>1, <1>6, Zenon DEF Numbers
<1>8. Keeps /\ pc'[w] # "log"
  BY <1>3, <1>5, Zenon DEF Keeps
<1>9. ASSUME NEW l \in Writer, l # w PROVE Publishing(l)' <=> Publishing(l)
  <2>1. \A x \in Writer : Busy(x)' <=> Busy(x)
    BY <1>1, <1>3, <1>5, Zenon DEF Busy, Inserting
  <2>2. \A x \in Members(group[l]) : Busy(x)' <=> Busy(x)
    BY <1>1, <2>1, Zenon DEF GroupPlaces
  <2>3. pc'[l] = pc[l] /\ group'[l] = group[l] /\ state'[l] = state[l]
    BY <1>3, <1>5, <1>9, Zenon
  <2> QED BY <1>3, <2>2, <2>3, PublishingStays, Zenon
<1>10. \A x : Numbered(x)' <=> Numbered(x)
  BY <1>3, Zenon DEF Numbered
<1>11. \A x \in Members(group[w]) : ~Numbered(x)
  <2>1. \A k \in 1..Len(group[w]) : ~Numbered(group[w][k])
    BY <1>1, Zenon DEF Sequenced, Allotted
  <2> QED BY <1>2, <2>1, Zenon DEF Members
<1>12. Grouping'
  <2>1. memtable' \subseteq Writer
    BY <1>1, <1>3, Zenon DEF Grouping
  <2> QED BY <1>1, <1>3, <1>8, <1>10, <2>1, GroupingStays, Zenon
<1>13. Recorded(b)'
  <2>1. ASSUME NEW r \in Record, r.seq = lastSequence + 1, r.batches = Allowed(group[w]),
               NEW i, NEW q, i \in DOMAIN q, q = Append(log, r)
        PROVE  (i \in DOMAIN log /\ q[i] = log[i]) \/ q[i] = r
    BY <1>1, <2>1, SMTT(30) DEF DataTypes
  <2>2. ASSUME NEW i \in DOMAIN log'
        PROVE  \/ i \in DOMAIN log /\ log'[i] = log[i]
               \/ log'[i].seq = lastSequence + 1 /\ log'[i].batches = Allowed(group[w])
    <3>1. Allowed(group[w]) \in Seq(Writer) /\ lastSequence + 1 \in Nat
      BY <1>1, <1>2, AllowedMembers DEF Numbers
    <3> DEFINE rec == [seq |-> lastSequence + 1, batches |-> Allowed(group[w]),
                       synced |-> NeedLogSync(w)]
    <3>2. /\ rec \in Record /\ [rec EXCEPT !.synced = FALSE] \in Record
          /\ [rec EXCEPT !.synced = FALSE].seq = lastSequence + 1
          /\ [rec EXCEPT !.synced = FALSE].batches = Allowed(group[w])
      <4>1. NeedLogSync(w) \in BOOLEAN
        BY Zenon DEF NeedLogSync
      <4> QED BY <3>1, <4>1, Zenon DEF Record
    <3>3. \/ log' = log \/ log' = Append(log, rec)
          \/ log' = Append(log, [rec EXCEPT !.synced = FALSE])
      BY Zenon DEF LogGroup
    <3> QED BY <2>1, <3>2, <3>3
  <2>3. SUFFICES ASSUME NEW i \in DOMAIN log'
                 PROVE  \E l \in Writer :
                          /\ group'[l] # <<>> /\ pc'[l] # "log"
                          /\ log'[i].batches = Allowed(group[l])' /\ log'[i].seq = b[l] + 1
    BY Zenon DEF Recorded
  <2>4. \A l \in Writer : Allowed(group[l])' = Allowed(group[l])
    BY <1>3, SameKeys, Zenon
  <2>5. CASE i \in DOMAIN log /\ log'[i] = log[i]
    <3>1. PICK l \in Writer : /\ group[l] # <<>> /\ pc[l] # "log"
                              /\ log[i].batches = Allowed(group[l]) /\ log[i].seq = base[l] + 1
      BY <1>1, <2>5, Zenon DEF Sequenced, Recorded
    <3>2. l # w
      BY <1>1, <3>1, Zenon
    <3>3. pc'[l] # "log" /\ group'[l] # <<>> /\ b[l] = base[l]
      BY <1>3, <1>5, <1>7, <3>1, <3>2, Zenon
    <3> QED BY <2>4, <2>5, <3>1, <3>3, Zenon
  <2>6. CASE log'[i].seq = lastSequence + 1 /\ log'[i].batches = Allowed(group[w])
    BY <1>2, <1>3, <1>7, <1>8, <2>4, <2>6, Zenon
  <2> QED BY <2>2, <2>5, <2>6, Zenon
<1>14. Allotted(b)'
  <2>1. Allotted(b)
    <3>1. SUFFICES ASSUME NEW l \in Writer, NEW k \in 1..Len(group[l]), Numbered(group[l][k])
                   PROVE  pc[l] # "log" /\ sequence[group[l][k]] = b[l] + 1 + Offset(group[l], k)
      BY Zenon DEF Allotted
    <3>2. pc[l] # "log" /\ sequence[group[l][k]] = base[l] + 1 + Offset(group[l], k)
      BY <1>1, <3>1, Zenon DEF Sequenced, Allotted
    <3>3. b[l] = base[l]
      BY <1>1, <1>7, <3>2, Zenon
    <3> QED BY <3>2, <3>3, Zenon
  <2>2. \A x \in Writer : Numbered(x)' => Numbered(x) /\ sequence'[x] = sequence[x]
    BY <1>3, <1>10, Zenon
  <2> QED BY <1>1, <1>8, <2>1, <2>2, AllottedStays, Zenon DEF Places
<1>15. Based(b)'
  <2>1. SUFFICES ASSUME NEW l \in Writer, Publishing(l)' PROVE b[l] = lastSequence
    BY <1>3, Zenon DEF Based
  <2>2. CASE l # w
    BY <1>1, <1>7, <1>9, <2>1, <2>2, Zenon DEF Sequenced, Based
  <2> QED BY <1>7, <2>2, Zenon
<1>16. ASSUME "insert" \notin failed' PROVE InOrder(b)'
  <2>1. InOrder(base)
    BY <1>1, <1>3, <1>16, Zenon DEF Sequenced
  <2>2. ~Entered(w)
    BY <1>11, Zenon DEF Entered, Numbered
  <2>3. \A l \in Writer : l # w => Upper(b, l) = Upper(base, l)
    BY <1>7, Zenon DEF Upper
  <2>4. \A l \in Writer : \A s : Holds(base, l, s) => Holds(b, l, s)
    <3>1. \A l \in Writer : \A s : Holds(base, l, s) => l # w
      BY <1>1, Zenon DEF Holds
    <3> QED BY <1>7, <2>3, <3>1, Zenon DEF Holds
  <2>5. InOrder(b)
    <3>1. Behind(b)
      BY <2>1, <2>2, <2>3, Zenon DEF InOrder, Behind
    <3>2. Apart(b)
      BY <1>7, <2>1, <2>2, <2>3, Zenon DEF InOrder, Apart
    <3>3. Covered(b)
      BY <2>1, <2>4, Zenon DEF InOrder, Covered
    <3> QED BY <2>1, <3>1, <3>2, <3>3, Zenon DEF InOrder
  <2>6. ~Publishing(w)
    BY <1>1, Zenon DEF Publishing
  <2>7. \A l \in Writer : Publishing(l) => Publishing(l)'
    BY <1>9, <2>6, Zenon
  <2>8. InsertedBy
    <3>1. \A x \in Writer : pc'[x] \in {"count", "wait"} => pc[x] \in {"count", "wait"}
      BY <1>5, Zenon
    <3> QED BY <1>3, <3>1, Zenon DEF InsertedBy
  <2> QED BY <1>1, <1>3, <1>8, <2>5, <2>7, <2>8, InOrderStays, Zenon DEF Places
<1> QED BY <1>7, <1>12, <1>13, <1>14, <1>15, <1>16, Zenon DEF Numbering, Sequenced

\* A step that leaves the numbers, or publishes those of a group.
Publishes ==
  /\ request' = request /\ sequence' = sequence
  /\ \/ lastSequence' = lastSequence
     \/ \E l \in Writer : lastSequence' = GroupSequence(l)

\* Sequence numbers and lastSequence stay natural numbers.
LEMMA NumbersPublish ==
  ASSUME Induction, Places, Numbers, Publishes
  PROVE  Numbers'
<1>1. \A l \in Writer : group[l] \in Seq(Writer)
  BY Zenon DEF Places, Types
<1>2. \A l \in Writer : Keys(Allowed(group[l])) \in Nat
  BY <1>1, KeysAreNat, Zenon
<1>3. \A l \in Writer : GroupSequence(l) \in Nat
  BY <1>2 DEF GroupSequence, Numbers
<1>4. lastSequence' \in Nat
  BY <1>3, Zenon DEF Publishes, Numbers
<1> QED BY <1>4, Zenon DEF Publishes, Numbers

\* The numbers that a leader allots.
LEMMA AllotmentIsNat ==
  ASSUME Induction, Places, DistinctPlaces, Numbers, NEW l \in Writer, NEW x \in Members(group[l])
  PROVE  Allotment(l)[x] \in Nat
<1>1. PICK k \in 1..Len(group[l]) : x = group[l][k]
  BY Zenon DEF Members
<1>2. group[l] \in Seq(Writer) /\ lastSequence \in Nat
  BY Zenon DEF Places, Types, Numbers
<1>3. k \in 1..(Len(group[l]) + 1)
  BY <1>2
<1>4. Offset(group[l], k) \in Nat
  BY <1>2, <1>3, OffsetStep, Zenon
<1>5. Allotment(l)[x] = lastSequence + 1 + Offset(group[l], k)
  BY <1>1, AllotmentIs, Zenon
<1> QED BY <1>2, <1>4, <1>5

\* The numbers of a group that its leader inserts.
LEMMA InsertedNumbers ==
  ASSUME Induction, Places, MorePlaces, Numbers, NEW w \in Writer, InsertGroup(w)
  PROVE  Numbers'
<1>1. \A x \in Members(group[w]) : Allotment(w)[x] \in Nat
  BY AllotmentIsNat, Zenon DEF MorePlaces
<1>2. group[w] \in Seq(Writer)
  BY Zenon DEF Places, Types
<1>3. PICK n \in (IF MayFail("insert") THEN 0..Len(group[w]) ELSE {Len(group[w])}) :
        LET done == {group[w][i] : i \in 1..n} \ callbackFailed
        IN  sequence' = [x \in Writer |-> IF x \in done THEN Allotment(w)[x] ELSE sequence[x]]
  BY Zenon DEF InsertGroup
<1>4. n \in 0..Len(group[w])
  BY <1>2, <1>3
<1>5. \A i \in 1..n : group[w][i] \in Members(group[w])
  BY <1>2, <1>4 DEF Members
<1>6. \A x \in {group[w][i] : i \in 1..n} \ callbackFailed : Allotment(w)[x] \in Nat
  BY <1>1, <1>5, Zenon
<1>7. sequence' \in [Writer -> Nat]
  BY <1>3, <1>6, Zenon DEF Numbers
<1>8. lastSequence' \in Nat
  <2>1. Keys(Allowed(group[w])) \in Nat
    BY <1>2, KeysAreNat, Zenon
  <2>2. GroupSequence(w) \in Nat
    BY <2>1 DEF GroupSequence, Numbers
  <2> QED BY <2>2, Zenon DEF InsertGroup, AfterApply, Numbers
<1>9. request' = request
  BY Zenon DEF InsertGroup
<1> QED BY <1>7, <1>8, <1>9, Zenon DEF Numbers

\* The numbers of a group whose followers are launched.
LEMMA LaunchedNumbers ==
  ASSUME Induction, Places, MorePlaces, DataInv, Numbers, NEW w \in Writer,
         LaunchFollowers(w) \/ LaunchNext(w)
  PROVE  Numbers'
<1>1. request' = request /\ lastSequence' = lastSequence
  BY Zenon DEF LaunchFollowers, LaunchNext, db
<1>2. sequence \in [Writer -> Nat] /\ \A x \in Writer : request[x].count \in Nat
  BY Zenon DEF Numbers
<1>3. CASE LaunchFollowers(w)
  <2>1. group[w] # <<>>
    BY <1>3, Zenon DEF LaunchFollowers, DataInv, DataAt, Leads
  <2>2. w \in Members(group[w])
    BY <2>1, Zenon DEF Places, GroupPlaces
  <2>3. Allotment(w)[w] \in Nat
    BY <2>2, AllotmentIsNat, Zenon DEF MorePlaces
  <2>4. sequence' = [sequence EXCEPT ![w] = Allotment(w)[w]]
    BY <1>3, Zenon DEF LaunchFollowers
  <2>5. sequence' \in [Writer -> Nat]
    BY <1>2, <2>3, <2>4, Zenon
  <2> QED BY <1>1, <2>5, Zenon DEF Numbers
<1>4. CASE LaunchNext(w)
  <2>1. cursor[w] \in Writer
    BY <1>4, Zenon DEF LaunchNext, Places, Types
  <2>2. PICK add \in {0, request[cursor[w]].count} :
           sequence' = [sequence EXCEPT ![link_newer[cursor[w]]] = sequence[cursor[w]] + add]
    BY <1>4, Zenon DEF LaunchNext
  <2>3. sequence[cursor[w]] + add \in Nat
    BY <1>2, <2>1, <2>2
  <2>4. sequence' \in [Writer -> Nat]
    <3>1. PICK y, n : y = link_newer[cursor[w]] /\ n = sequence[cursor[w]] + add
      BY Zenon
    <3>2. n \in Nat /\ sequence' = [sequence EXCEPT ![y] = n]
      BY <2>2, <2>3, <3>1, Zenon
    <3> QED BY <1>2, <3>2, Zenon
  <2> QED BY <1>1, <2>4, Zenon DEF Numbers
<1> QED BY <1>3, <1>4, Zenon

\* Sequence numbers stay numbers.
LEMMA NumbersStep ==
  ASSUME Induction, Places, MorePlaces, DataInv, Numbers, NEW w \in Writer, Step(w)
  PROVE  Numbers'
<1>1. CASE InsertGroup(w)
  BY <1>1, InsertedNumbers, Zenon
<1>2. CASE LaunchFollowers(w) \/ LaunchNext(w)
  BY <1>2, LaunchedNumbers, Zenon
<1>3. CASE JoinBatchGroup(w) \/ Unbatched(w) \/ Prepare(w) \/ EnterGroup(w) \/ LogGroup(w)
  <2>1. request' = request /\ sequence' = sequence /\ lastSequence' = lastSequence
    BY <1>3, Zenon DEF JoinBatchGroup, Unbatched, Prepare, EnterGroup, LogGroup, shared, db
  <2> QED BY <2>1, NumbersPublish, Zenon DEF Publishes
<1>4. CASE InsertBatch(w) \/ CountDown(w) \/ LastFollowerWakes(w) \/ Unlink(w)
  <2>1. request' = request /\ sequence' = sequence /\ lastSequence' = lastSequence
    BY <1>4, Zenon DEF InsertBatch, CountDown, LastFollowerWakes, Unlink, shared, db
  <2> QED BY <2>1, NumbersPublish, Zenon DEF Publishes
<1>5. CASE CompleteNext(w) \/ ExitDone(w) \/ Report(w) \/ FollowerReturns(w)
  <2>1. request' = request /\ sequence' = sequence /\ lastSequence' = lastSequence
    BY <1>5, Zenon DEF CompleteNext, ExitDone, Report, FollowerReturns, shared, db
  <2> QED BY <2>1, NumbersPublish, Zenon DEF Publishes
<1>6. CASE LastLeader(w) \/ LeaderWakes(w)
  <2>1. request' = request /\ sequence' = sequence
    BY <1>6, Zenon DEF LastLeader, LeaderWakes
  <2>2. lastSequence' \in {lastSequence, GroupSequence(w)}
    BY <1>6, Zenon DEF LastLeader, LeaderWakes, AfterApply
  <2> QED BY <2>1, <2>2, NumbersPublish, Zenon DEF Publishes
<1>7. CASE LastFollowerExits(w)
  <2>1. request' = request /\ sequence' = sequence
        /\ lastSequence' = GroupSequence(parallel_group[w])
    BY <1>7, Zenon DEF LastFollowerExits, Leader, shared
  <2>2. parallel_group[w] \in Writer
    BY <1>7, Zenon DEF LastFollowerExits, Places, ParallelPlaces
  <2> QED BY <2>1, <2>2, NumbersPublish, Zenon DEF Publishes
<1> QED BY <1>1, <1>2, <1>3, <1>4, <1>5, <1>6, <1>7, Zenon DEF Step

\* A step of nobody.
LEMMA StutterNumbers ==
  ASSUME NEW base, Ready(base), UNCHANGED vars
  PROVE  Numbers' /\ Numbering(base)
<1>1. UNCHANGED <<pc, state, group, parallel_group, request, log, memtable, failed, lastSequence,
                  sequence>>
  BY Zenon DEF vars, locals, shared, db
<1>2. Numbers'
  BY <1>1, Zenon DEF Ready, Numbers
<1>3. Keeps
  BY <1>1, Zenon DEF Keeps
<1>4. \A x \in Writer : Busy(x)' <=> Busy(x)
  BY <1>1, Zenon DEF Busy, Inserting
<1>5. Places /\ Places' /\ GroupPlaces /\ Grouping /\ Sequenced(base)
  BY Zenon DEF Ready, Places
<1>6. \A l \in Writer : Publishing(l)' <=> Publishing(l)
  <2>1. ASSUME NEW l \in Writer PROVE Publishing(l)' <=> Publishing(l)
    <3>1. \A x \in Members(group[l]) : Busy(x)' <=> Busy(x)
      BY <1>4, <1>5, Zenon DEF GroupPlaces
    <3>2. pc'[l] = pc[l] /\ group'[l] = group[l] /\ state'[l] = state[l] /\ request' = request
      BY <1>1, Zenon
    <3> QED BY <3>1, <3>2, PublishingStays, Zenon
  <2> QED BY <2>1, Zenon
<1>7. InsertedBy
  BY <1>1, Zenon DEF InsertedBy
<1>8. Quiet
  BY <1>1, <1>3, <1>6, <1>7, Zenon DEF Quiet
<1> QED BY <1>2, <1>5, <1>8, QuietStep, Zenon DEF Numbering

\* Nothing has a number at first.
LEMMA InitNumbers ==
  ASSUME Init
  PROVE  SequenceInv
<1>1. /\ pc = [w \in Writer |-> "start"] /\ group = [w \in Writer |-> <<>>]
      /\ parallel_group = [w \in Writer |-> Null] /\ sequence = [w \in Writer |-> 0]
      /\ log = <<>> /\ memtable = {} /\ lastSequence = 0 /\ request \in Requests
  BY Zenon DEF Init
<1>2. Numbers
  BY <1>1, RequestAssumption, Zenon DEF Numbers
<1>3. Grouping
  BY <1>1, Zenon DEF Grouping, Numbered
<1>4. PICK base : base = [w \in Writer |-> 0]
  BY Zenon
<1>5. base \in [Writer -> Nat]
  BY <1>4, Zenon
<1>6. Recorded(base)
  BY <1>1 DEF Recorded
<1>7. Allotted(base)
  BY <1>1 DEF Allotted, Numbered
<1>8. Based(base)
  BY <1>1, Zenon DEF Based, Publishing
<1>9. Inserted
  BY <1>1, Zenon DEF Inserted
<1>10. \A l \in Writer : ~Entered(l)
  BY <1>1, Zenon DEF Entered
<1>11. Covered(base)
  BY <1>1 DEF Covered
<1>12. InOrder(base)
  BY <1>9, <1>10, <1>11, Zenon DEF InOrder, Behind, Apart
<1> QED BY <1>2, <1>3, <1>5, <1>6, <1>7, <1>8, <1>12, Zenon DEF SequenceInv, Sequenced

\* A step of a thread keeps the numbers in order.
LEMMA NumberingStep ==
  ASSUME Induction, NEW base, Ready(base), NEW w \in Writer, Step(w)
  PROVE  \E b \in [Writer -> Nat] : Numbering(b)
<1>1. base \in [Writer -> Nat]
  BY Zenon DEF Ready
<1>2. CASE JoinBatchGroup(w) \/ Unbatched(w) \/ Prepare(w) \/ EnterGroup(w)
  BY <1>1, <1>2, JoinBatchGroupNumbers, UnbatchedNumbers, PrepareNumbers, EnterGroupNumbers, Zenon
<1>3. CASE LogGroup(w)
  BY <1>3, LogGroupNumbers, Zenon
<1>4. CASE InsertGroup(w) \/ LaunchFollowers(w) \/ LaunchNext(w)
  BY <1>1, <1>4, InsertGroupNumbers, LaunchFollowersNumbers, LaunchNextNumbers, Zenon
<1>5. CASE InsertBatch(w) \/ CountDown(w) \/ LastLeader(w) \/ LastFollowerExits(w)
  BY <1>1, <1>5, InsertBatchNumbers, CountDownNumbers, LastLeaderNumbers,
     LastFollowerExitsNumbers, Zenon
<1>6. CASE LastFollowerWakes(w) \/ LeaderWakes(w) \/ Unlink(w) \/ CompleteNext(w)
  BY <1>1, <1>6, LastFollowerWakesNumbers, LeaderWakesNumbers, UnlinkNumbers,
     CompleteNextNumbers, Zenon
<1>7. CASE ExitDone(w) \/ Report(w) \/ FollowerReturns(w)
  BY <1>1, <1>7, LeaderExitNumbers, FollowerExitNumbers, ReportNumbers,
     FollowerReturnsNumbers, Zenon
<1> QED BY <1>2, <1>3, <1>4, <1>5, <1>6, <1>7, Zenon DEF Step

\* A step of the system, or of nobody, keeps SequenceInv.
LEMMA SequenceStep ==
  ASSUME Induction, Places, Places', MorePlaces, DataInv, SequenceInv, [Next]_vars
  PROVE  SequenceInv'
<1>1. Numbers /\ Grouping
  BY Zenon DEF SequenceInv
<1>2. PICK base \in [Writer -> Nat] : Sequenced(base)
  BY Zenon DEF SequenceInv
<1>3. Ready(base)
  BY <1>1, <1>2, Zenon DEF Ready
<1>4. CASE UNCHANGED vars
  <2>1. Numbers' /\ Numbering(base)
    BY <1>3, <1>4, StutterNumbers, Zenon
  <2> QED BY <1>2, <2>1, Zenon DEF Numbering, SequenceInv
<1>5. ASSUME NEW w \in Writer, Step(w) PROVE SequenceInv'
  <2>1. Numbers'
    BY <1>1, <1>5, NumbersStep, Zenon
  <2>2. PICK b \in [Writer -> Nat] : Numbering(b)
    BY <1>3, <1>5, NumberingStep, Zenon
  <2> QED BY <2>1, <2>2, Zenon DEF Numbering, SequenceInv
<1> QED BY <1>4, <1>5, Zenon DEF Next, Terminated

\* OkMeansWritten follows from what is written where.
LEMMA OkFollows == DataInv => OkMeansWritten
<1>1. SUFFICES ASSUME DataInv, NEW w \in Writer,
                      pc[w] = "done", request[w].batch, result[w] = "ok",
                      group[w] # <<>> \/ failed = {}
               PROVE  w \in memtable /\ (request[w].disableWAL \/ WrittenToLog(w))
  BY Zenon DEF OkMeansWritten
<1>2. DataAt(w) /\ (failed = {} => HealthyAt(w))
  BY <1>1, Zenon DEF DataInv
<1>3. Written(w) /\ ~Refuses(w)
  BY <1>1, <1>2, Zenon DEF DataAt, LeaderWritten, HealthyAt, FollowerWritten
<1> QED BY <1>3, Zenon DEF Written, Applied, Logged

\* ReplayAgrees follows from what the leaders allot.
LEMMA ReplayFollows ==
  ASSUME Induction
  PROVE  Types /\ SequenceInv => ReplayAgrees
<1>1. SUFFICES ASSUME Types, SequenceInv, NEW i \in DOMAIN log, NEW j \in DOMAIN log[i].batches,
                      log[i].batches[j] \in memtable
               PROVE  sequence[log[i].batches[j]]
                        = log[i].seq + Keys(SubSeq(log[i].batches, 1, j - 1))
  BY Zenon DEF ReplayAgrees
<1>2. PICK base \in [Writer -> Nat] : Sequenced(base)
  BY <1>1, Zenon DEF SequenceInv
<1>3. PICK l \in Writer : log[i].batches = Allowed(group[l]) /\ log[i].seq = base[l] + 1
  BY <1>1, <1>2, Zenon DEF Sequenced, Recorded
<1>4. PICK g : g = group[l]
  BY Zenon
<1>5. g \in Seq(Writer)
  BY <1>1, <1>4, Zenon DEF Types
<1>6. Allowed(g) \in Seq(Writer)
  BY <1>5, AllowedMembers, Zenon
<1>7. j \in 1..Len(Allowed(g))
  BY <1>1, <1>3, <1>4, <1>6
<1>8. PICK k \in 1..Len(g) : /\ g[k] = Allowed(g)[j]
                             /\ SubSeq(Allowed(g), 1, j - 1) = Allowed(SubSeq(g, 1, k - 1))
  BY <1>5, <1>7, AllowedPrefix, Zenon
<1>9. Numbered(group[l][k])
  BY <1>1, <1>3, <1>4, <1>8, Zenon DEF Numbered
<1>10. sequence[group[l][k]] = base[l] + 1 + Offset(group[l], k)
  BY <1>2, <1>4, <1>8, <1>9, Zenon DEF Sequenced, Allotted
<1> QED BY <1>3, <1>4, <1>8, <1>10, Zenon DEF Offset

\* The numbers that a batch in the memtable takes.
LEMMA Spans ==
  ASSUME Induction, Types, Numbers, Grouping, NEW base \in [Writer -> Nat], Allotted(base),
         NEW l \in Writer, NEW k \in 1..Len(group[l]), group[l][k] \in memtable
  PROVE  /\ sequence[group[l][k]] = base[l] + 1 + Offset(group[l], k)
         /\ sequence[group[l][k]] + request[group[l][k]].count
              = base[l] + 1 + Offset(group[l], k + 1)
         /\ base[l] \in Nat /\ Offset(group[l], k) \in Nat /\ Offset(group[l], k + 1) \in Nat
         /\ Offset(group[l], k + 1) <= Keys(Allowed(group[l]))
<1>1. PICK g, x : g = group[l] /\ x = g[k]
  BY Zenon
<1>2. g \in Seq(Writer) /\ k \in 1..Len(g)
  BY <1>1, Zenon DEF Types
<1>3. /\ k \in 1..(Len(g) + 1) /\ k + 1 \in 1..(Len(g) + 1) /\ Len(g) + 1 \in 1..(Len(g) + 1)
      /\ k + 1 <= Len(g) + 1 /\ x \in Writer
  BY <1>1, <1>2
<1>4. sequence[x] = base[l] + 1 + Offset(g, k)
  BY <1>1, Zenon DEF Allotted, Numbered
<1>5. /\ Offset(g, k) \in Nat /\ Offset(g, k + 1) \in Nat
      /\ Offset(g, Len(g) + 1) = Keys(Allowed(g))
      /\ Offset(g, k + 1) = Offset(g, k) + Width(x)
  BY <1>1, <1>2, <1>3, OffsetStep, Zenon
<1>6. Offset(g, k + 1) <= Keys(Allowed(g))
  <2>1. Offset(g, k + 1) <= Offset(g, Len(g) + 1)
    BY <1>2, <1>3, OffsetGrows, Zenon
  <2> QED BY <1>5, <2>1, Zenon
<1>7. Width(x) = request[x].count /\ request[x].count \in Nat
  BY <1>1, <1>3, Zenon DEF Grouping, Width, Refuses, Numbers
<1>8. base[l] \in Nat
  BY Zenon
<1>9. sequence[x] + request[x].count = base[l] + 1 + Offset(g, k + 1)
  <2>1. PICK n, o, c : n = base[l] /\ o = Offset(g, k) /\ c = request[x].count
    BY Zenon
  <2>2. sequence[x] = n + 1 + o /\ Offset(g, k + 1) = o + c
    BY <1>4, <1>5, <1>7, <2>1, Zenon
  <2>3. n \in Nat /\ o \in Nat /\ c \in Nat
    BY <1>5, <1>7, <1>8, <2>1, Zenon
  <2>4. (n + 1 + o) + c = n + 1 + (o + c)
    BY <2>3
  <2> QED BY <2>1, <2>2, <2>4, Zenon
<1> QED BY <1>1, <1>4, <1>5, <1>6, <1>8, <1>9, Zenon

\* A number below a bound is not above another that starts there.
LEMMA BoundsApart ==
  ASSUME NEW n \in Nat, NEW y \in Nat, NEW p \in Nat, n + y <= p,
         NEW b \in Nat, b <= y, NEW c \in Nat, NEW s \in Nat, s < n + 1 + b
  PROVE  ~(p + 1 + c <= s)
OBVIOUS

\* A batch that takes a number takes it alone.
LEMMA TakenOnce ==
  ASSUME Induction, Types, Numbers, Grouping, NEW base \in [Writer -> Nat], Allotted(base), Apart(base),
         NEW l \in Writer, NEW k \in 1..Len(group[l]), group[l][k] \in memtable,
         NEW m \in Writer, NEW j \in 1..Len(group[m]), group[m][j] \in memtable,
         group[m][j] # group[l][k],
         NEW s \in sequence[group[l][k]]..(sequence[group[l][k]] + request[group[l][k]].count - 1)
  PROVE  s \notin sequence[group[m][j]]..(sequence[group[m][j]] + request[group[m][j]].count - 1)
<1>1. PICK a, b, c, d : /\ a = Offset(group[l], k) /\ b = Offset(group[l], k + 1)
                        /\ c = Offset(group[m], j) /\ d = Offset(group[m], j + 1)
  BY Zenon
<1>2. /\ sequence[group[l][k]] = base[l] + 1 + a
      /\ sequence[group[l][k]] + request[group[l][k]].count = base[l] + 1 + b
      /\ base[l] \in Nat /\ a \in Nat /\ b \in Nat /\ b <= Keys(Allowed(group[l]))
  BY <1>1, Spans, Zenon
<1>3. /\ sequence[group[m][j]] = base[m] + 1 + c
      /\ sequence[group[m][j]] + request[group[m][j]].count = base[m] + 1 + d
      /\ base[m] \in Nat /\ c \in Nat /\ d \in Nat /\ d <= Keys(Allowed(group[m]))
  BY <1>1, Spans, Zenon
<1>4. group[l] \in Seq(Writer) /\ group[m] \in Seq(Writer)
  BY Zenon DEF Types
<1>5. Keys(Allowed(group[l])) \in Nat /\ Keys(Allowed(group[m])) \in Nat
  BY <1>4, KeysAreNat, Zenon
<1>6. request[group[l][k]].count \in Nat /\ request[group[m][j]].count \in Nat
  <2>1. group[l][k] \in Writer /\ group[m][j] \in Writer
    BY <1>4
  <2> QED BY <2>1, Zenon DEF Numbers
<1>7. s \in Nat /\ base[l] + 1 + a <= s /\ s < base[l] + 1 + b
  <2>1. PICK u, v : u = sequence[group[l][k]] /\ v = request[group[l][k]].count
    BY Zenon
  <2>2. s \in u..(u + v - 1)
    BY <2>1, Zenon
  <2>3. u = base[l] + 1 + a /\ u + v = base[l] + 1 + b /\ v \in Nat
    BY <1>2, <1>6, <2>1, Zenon
  <2> QED BY <1>2, <2>2, <2>3, SMTT(30)
<1>8. SUFFICES ASSUME base[m] + 1 + c <= s, s < base[m] + 1 + d PROVE FALSE
  <2>1. PICK u, v : u = sequence[group[m][j]] /\ v = request[group[m][j]].count
    BY Zenon
  <2>2. SUFFICES ASSUME s \in u..(u + v - 1) PROVE FALSE
    BY <2>1, Zenon
  <2>3. u = base[m] + 1 + c /\ u + v = base[m] + 1 + d /\ v \in Nat
    BY <1>3, <1>6, <2>1, Zenon
  <2> QED BY <1>3, <1>7, <2>2, <2>3
<1>9. CASE l = m
  <2>1. /\ k \in 1..(Len(group[l]) + 1) /\ k + 1 \in 1..(Len(group[l]) + 1)
        /\ j \in 1..(Len(group[l]) + 1) /\ j + 1 \in 1..(Len(group[l]) + 1)
        /\ k + 1 <= j \/ j + 1 <= k
    <3>1. PICK n : n = Len(group[l])
      BY Zenon
    <3>2. n \in Nat /\ k \in 1..n /\ j \in 1..n
      BY <1>4, <1>9, <3>1, SMTT(30)
    <3>3. k # j
      BY <1>9, Zenon
    <3>4. /\ k \in 1..(n + 1) /\ k + 1 \in 1..(n + 1)
          /\ j \in 1..(n + 1) /\ j + 1 \in 1..(n + 1)
          /\ k + 1 <= j \/ j + 1 <= k
      BY <3>2, <3>3
    <3> QED BY <3>1, <3>4, Zenon
  <2>2. k + 1 <= j => b <= c
    BY <1>1, <1>4, <1>9, <2>1, OffsetGrows, Zenon
  <2>3. j + 1 <= k => d <= a
    BY <1>1, <1>4, <1>9, <2>1, OffsetGrows, Zenon
  <2> QED BY <1>2, <1>3, <1>7, <1>8, <1>9, <2>1, <2>2, <2>3, SMTT(30)
<1>10. CASE l # m
  <2>1. group[l][k] \in Members(group[l]) /\ group[m][j] \in Members(group[m])
    BY Zenon DEF Members
  <2>2. Entered(l) /\ Entered(m)
    BY <2>1, Zenon DEF Entered
  <2>3. Upper(base, l) <= base[m] \/ Upper(base, m) <= base[l]
    BY <1>10, <2>2, Zenon DEF Apart
  <2>4. /\ Upper(base, l) = base[l] + Keys(Allowed(group[l]))
        /\ Upper(base, m) = base[m] + Keys(Allowed(group[m]))
    BY Zenon DEF Upper
  <2>5. PICK n, p, y, z : /\ n = base[l] /\ p = base[m]
                          /\ y = Keys(Allowed(group[l])) /\ z = Keys(Allowed(group[m]))
    BY Zenon
  <2>6. /\ n \in Nat /\ p \in Nat /\ y \in Nat /\ z \in Nat /\ b <= y /\ d <= z
        /\ n + y <= p \/ p + z <= n
    BY <1>2, <1>3, <1>5, <2>3, <2>4, <2>5, Zenon
  <2>7. n + 1 + a <= s /\ s < n + 1 + b /\ p + 1 + c <= s /\ s < p + 1 + d
    BY <1>7, <1>8, <2>5, Zenon
  <2>8. a \in Nat /\ b \in Nat /\ c \in Nat /\ d \in Nat /\ s \in Nat
    BY <1>2, <1>3, <1>7, Zenon
  <2>9. CASE n + y <= p
    BY <2>6, <2>7, <2>8, <2>9, BoundsApart, Zenon
  <2>10. CASE p + z <= n
    BY <2>6, <2>7, <2>8, <2>10, BoundsApart, Zenon
  <2> QED BY <2>6, <2>9, <2>10, Zenon
<1> QED BY <1>9, <1>10, Zenon

\* PublishedApplied follows: a number that is covered is taken by one batch.
LEMMA PublishedFollows ==
  ASSUME Induction
  PROVE  Types /\ SequenceInv => PublishedApplied
<1>1. SUFFICES ASSUME Types, SequenceInv, "insert" \notin failed, NEW s \in 1..lastSequence
               PROVE  \E w \in memtable :
                        /\ s \in sequence[w]..(sequence[w] + request[w].count - 1)
                        /\ \A x \in memtable \ {w} :
                             s \notin sequence[x]..(sequence[x] + request[x].count - 1)
  BY Zenon DEF PublishedApplied
<1>2. Numbers /\ Grouping
  BY <1>1, Zenon DEF SequenceInv
<1>3. PICK base \in [Writer -> Nat] : Sequenced(base)
  BY <1>1, Zenon DEF SequenceInv
<1>4. Allotted(base) /\ Apart(base) /\ Covered(base)
  BY <1>1, <1>3, Zenon DEF Sequenced, InOrder
<1>5. PICK l \in Writer : Holds(base, l, s)
  BY <1>1, <1>4, Zenon DEF Covered
<1>6. PICK g : g = group[l]
  BY Zenon
<1>7. g \in Seq(Writer) /\ base[l] \in Nat /\ s \in Nat
  BY <1>1, <1>2, <1>6 DEF Types, Numbers
<1>8. Keys(Allowed(g)) \in Nat
  BY <1>2, <1>7, KeysAreNat, Zenon
<1>9. base[l] < s /\ s <= base[l] + Keys(Allowed(g))
  BY <1>5, <1>6, Zenon DEF Holds, Upper
<1>10. PICK d : d = s - base[l] - 1
  BY Zenon
<1>11. d \in Nat /\ d < Keys(Allowed(g)) /\ s = base[l] + 1 + d
  BY <1>7, <1>8, <1>9, <1>10
<1>12. PICK k \in 1..Len(g) : Offset(g, k) <= d /\ d < Offset(g, k + 1)
  BY <1>2, <1>7, <1>11, OffsetCovers, Zenon
<1>13. g[k] \in memtable
  <2>1. /\ Offset(g, k) \in Nat /\ Offset(g, k + 1) = Offset(g, k) + Width(g[k])
    <3>1. k \in 1..(Len(g) + 1)
      BY <1>7, <1>12
    <3> QED BY <1>2, <1>7, <1>12, <3>1, OffsetStep, Zenon
  <2>2. Width(g[k]) # 0
    BY <1>11, <1>12, <2>1
  <2>3. ~Refuses(g[k])
    BY <2>2, Zenon DEF Width, Refuses
  <2>4. g[k] \in Members(group[l])
    BY <1>6, Zenon DEF Members
  <2> QED BY <1>5, <2>3, <2>4, Zenon DEF Holds, Applied
<1>14. s \in sequence[g[k]]..(sequence[g[k]] + request[g[k]].count - 1)
  <2>1. /\ sequence[g[k]] = base[l] + 1 + Offset(g, k)
        /\ sequence[g[k]] + request[g[k]].count = base[l] + 1 + Offset(g, k + 1)
        /\ Offset(g, k) \in Nat /\ Offset(g, k + 1) \in Nat
    BY <1>1, <1>2, <1>4, <1>6, <1>13, Spans, Zenon
  <2>2. PICK o, p : o = Offset(g, k) /\ p = Offset(g, k + 1)
    BY Zenon
  <2>3. /\ o \in Nat /\ p \in Nat /\ o <= d /\ d < p /\ d \in Nat
        /\ base[l] \in Nat /\ s = base[l] + 1 + d
    BY <1>7, <1>11, <1>12, <2>1, <2>2, Zenon
  <2>4. PICK u, v : u = sequence[g[k]] /\ v = request[g[k]].count
    BY Zenon
  <2>5. u = base[l] + 1 + o /\ u + v = base[l] + 1 + p /\ v \in Nat
    <3>1. g[k] \in Writer
      BY <1>7
    <3> QED BY <1>2, <2>1, <2>2, <2>4, <3>1, Zenon DEF Numbers
  <2>6. s \in u..(u + v - 1)
    BY <2>3, <2>5
  <2> QED BY <2>4, <2>6, Zenon
<1>15. ASSUME NEW x \in memtable \ {g[k]}
       PROVE  s \notin sequence[x]..(sequence[x] + request[x].count - 1)
  <2>1. x \in Writer /\ Numbered(x)
    BY <1>2, <1>15, Zenon DEF Grouping, Numbered
  <2>2. PICK m \in Writer : x \in Members(group[m])
    BY <1>2, <2>1, Zenon DEF Grouping
  <2>3. PICK j \in 1..Len(group[m]) : x = group[m][j]
    BY <2>2, Zenon DEF Members
  <2> QED BY <1>1, <1>2, <1>4, <1>6, <1>13, <1>14, <1>15, <2>3, TakenOnce, Zenon
<1> QED BY <1>13, <1>14, <1>15, Zenon
=============================================================================
