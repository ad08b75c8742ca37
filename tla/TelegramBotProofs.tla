--------------------------- MODULE TelegramBotProofs ---------------------------
(***************************************************************************)
(* Proofs about TelegramBot and the turns of AgentRun, for any number of   *)
(* bots, sessions, prompts, tool calls, updates and faults, any buffer of  *)
(* Run's channel, and answers of any length over any limit of a message.   *)
(***************************************************************************)
EXTENDS TelegramBot, WellFoundedInduction, SequenceTheorems, FiniteSetTheorems, TLAPS

(* Splitting a text *)

\* A set of naturals has a least element.
LEMMA LeastElement ==
    ASSUME NEW S, S \subseteq Nat, S # {}
    PROVE  \E m \in S : \A n \in S : m <= n
<1> DEFINE R == {x \in Nat \X Nat : x[1] < x[2]}
<1>1. IsWellFoundedOn(R, Nat)
  BY NatLessThanWellFounded DEF OpToRel
<1>2. PICK m \in S : \A n \in S : ~(<<n, m>> \in R)
  <2> HIDE DEF R
  <2> QED
    BY <1>1, WFMin
<1>3. ASSUME NEW n \in S PROVE m <= n
  <2>1. n \in Nat /\ m \in Nat /\ ~(<<n, m>> \in R)
    BY <1>2
  <2> QED
    BY <2>1
<1> QED
  BY <1>3

\* A set of places of a text has a last one.
LEMMA LastPlace ==
    ASSUME NEW k \in Nat, NEW I, I \subseteq 1..k, I # {}
    PROVE  Max(I) \in I
<1> DEFINE S == {n \in Nat : k - n \in I}
<1>1. S \subseteq Nat
  OBVIOUS
<1>2. S # {}
  <2>1. PICK i \in I : TRUE
    OBVIOUS
  <2>2. i \in 1..k /\ k - (k - i) = i /\ k - i \in Nat
    BY <2>1
  <2>3. k - i \in S
    BY <2>1, <2>2
  <2> QED
    BY <2>3
<1>3. PICK m \in S : \A n \in S : m <= n
  <2> HIDE DEF S
  <2> QED
    BY <1>1, <1>2, LeastElement
<1>4. k - m \in I
  BY <1>3
<1>5. ASSUME NEW y \in I PROVE k - m >= y
  <2>1. y \in 1..k /\ k - y \in Nat /\ k - (k - y) = y
    BY <1>5
  <2>2. k - y \in S
    BY <2>1
  <2>3. m <= k - y /\ m \in Nat
    BY <1>3, <2>2
  <2> QED
    BY <2>1, <2>3
<1> QED
  BY <1>4, <1>5 DEF Max

\* lastIndexRune is the place of such a rune, or none.
LEMMA LastIndexRune ==
    ASSUME NEW w \in Seq(Runes), NEW r
    PROVE  /\ lastIndexRune(w, r) \in 0..Len(w)
           /\ lastIndexRune(w, r) > 0 => w[lastIndexRune(w, r)] = r
<1> DEFINE I == {i \in 1..Len(w) : w[i] = r}
<1>1. lastIndexRune(w, r) = IF I # {} THEN Max(I) ELSE 0
  BY DEF lastIndexRune, SelectLastInSeq
<1>2. Len(w) \in Nat
  OBVIOUS
<1>3. CASE I # {}
  <2>1. Max(I) \in I
    BY <1>2, <1>3, LastPlace
  <2>2. Max(I) \in 1..Len(w) /\ w[Max(I)] = r
    BY <2>1
  <2> HIDE DEF I
  <2> QED
    BY <1>1, <1>2, <1>3, <2>2
<1>4. CASE I = {}
  BY <1>1, <1>2, <1>4
<1> QED
  BY <1>3, <1>4

\* breakPoint emits something of a window of two runes or more, and goes past what it
\* emits, or past one separator more, and not past the window.
LEMMA BreakPoint ==
    ASSUME NEW w \in Seq(Runes), Len(w) > 1
    PROVE  /\ breakPoint(w)[1] \in 1..Len(w) /\ breakPoint(w)[2] \in 1..Len(w)
           /\ \/ breakPoint(w)[2] = breakPoint(w)[1]
              \/ /\ breakPoint(w)[2] = breakPoint(w)[1] + 1
                 /\ w[breakPoint(w)[2]] \in Separators
<1>1. Len(w) \in Nat /\ Len(w) \div 2 \in Nat /\ Len(w) \div 2 >= 1
  OBVIOUS
<1>2. PICK half \in Nat : half = Len(w) \div 2 /\ half >= 1
  BY <1>1
<1>3. PICK i \in 0..Len(w) : i = lastIndexRune(w, "n") /\ (i > 0 => w[i] = "n")
  BY LastIndexRune
<1>4. PICK j \in 0..Len(w) : j = lastIndexRune(w, " ") /\ (j > 0 => w[j] = " ")
  BY LastIndexRune
<1>5. breakPoint(w) = CASE i > half -> <<i - 1, i>>
                        [] i <= half /\ j > half -> <<j - 1, j>>
                        [] OTHER -> <<Len(w), Len(w)>>
  BY <1>2, <1>3, <1>4 DEF breakPoint
<1>6. i \in Nat /\ j \in Nat /\ (i > half \/ i <= half) /\ ~(i > half /\ i <= half)
  BY <1>1
<1>7. CASE i > half
  <2>1. breakPoint(w) = <<i - 1, i>>
    BY <1>5, <1>6, <1>7
  <2>2. breakPoint(w)[1] = i - 1 /\ breakPoint(w)[2] = i
    BY <2>1
  <2>3. i - 1 \in 1..Len(w) /\ i \in 1..Len(w) /\ i = i - 1 + 1 /\ i > 0
    BY <1>1, <1>2, <1>3, <1>7
  <2>4. w[i] \in Separators
    BY <1>3, <2>3, Zenon DEF Separators
  <2> QED
    BY <2>2, <2>3, <2>4
<1>8. CASE i <= half /\ j > half
  <2>1. breakPoint(w) = <<j - 1, j>>
    BY <1>5, <1>6, <1>8
  <2>2. breakPoint(w)[1] = j - 1 /\ breakPoint(w)[2] = j
    BY <2>1
  <2>3. j - 1 \in 1..Len(w) /\ j \in 1..Len(w) /\ j = j - 1 + 1 /\ j > 0
    BY <1>1, <1>2, <1>8
  <2>4. w[j] \in Separators
    BY <1>4, <2>3, Zenon DEF Separators
  <2> QED
    BY <2>2, <2>3, <2>4
<1>9. CASE i <= half /\ ~(j > half)
  <2>1. breakPoint(w) = <<Len(w), Len(w)>>
    BY <1>5, <1>6, <1>9
  <2>2. breakPoint(w)[1] = Len(w) /\ breakPoint(w)[2] = Len(w) /\ Len(w) \in 1..Len(w)
    BY <1>1, <2>1
  <2> QED
    BY <2>2
<1> QED
  BY <1>6, <1>7, <1>8, <1>9

\* A short text is said by itself.
LEMMA SaidWhole ==
    ASSUME NEW s \in Seq(Runes), Len(s) \in 1..TextMax
    PROVE  Says(<<s>>, s)
<1> DEFINE at == [i \in 1..1 |-> 1]
<1>1. Len(s) \in Nat /\ s = SubSeq(s, 1, Len(s)) /\ DOMAIN <<s>> = 1..1 /\ Len(<<s>>) = 1
  OBVIOUS
<1>2. at \in [DOMAIN <<s>> -> 1..Len(s)] /\ at[1] = 1
  BY <1>1
<1>3. at[1] + Len(<<s>>[1]) - 1 = Len(s)
  BY <1>1, <1>2
<1> HIDE DEF at
<1> QED
  BY <1>1, <1>2, <1>3 DEF Says

\* What a text has after a place, and what that has between two places.
LEMMA Suffix ==
    ASSUME NEW s \in Seq(Runes), NEW k \in 0..Len(s)
    PROVE  /\ SubSeq(s, k + 1, Len(s)) \in Seq(Runes)
           /\ Len(SubSeq(s, k + 1, Len(s))) = Len(s) - k
           /\ \A i \in 1..(Len(s) - k) : SubSeq(s, k + 1, Len(s))[i] = s[i + k]
           /\ \A a, b \in 1..(Len(s) - k) :
                 SubSeq(SubSeq(s, k + 1, Len(s)), a, b) = SubSeq(s, a + k, b + k)
<1> DEFINE r == SubSeq(s, k + 1, Len(s))
<1>1. r \in Seq(Runes) /\ Len(r) = Len(s) - k
  OBVIOUS
<1>2. \A i \in 1..(Len(s) - k) : r[i] = s[i + k]
  OBVIOUS
<1>3. ASSUME NEW a \in 1..(Len(s) - k), NEW b \in 1..(Len(s) - k)
      PROVE  SubSeq(r, a, b) = SubSeq(s, a + k, b + k)
  <2> HIDE DEF r
  <2>1. SubSeq(SubSeq(s, k + 1, Len(s)), a, b) = SubSeq(s, k + 1 + a - 1, k + 1 + b - 1)
    BY SubSeqOfSubSeq
  <2>2. k + 1 + a - 1 = a + k /\ k + 1 + b - 1 = b + k
    OBVIOUS
  <2> QED
    BY <2>1, <2>2 DEF r
<1> QED
  BY <1>1, <1>2, <1>3

\* A text is said by its first runes and what says the others, past a separator or not.
LEMMA SaidInTurn ==
    ASSUME NEW s \in Seq(Runes), NEW c \in 1..TextMax, NEW k \in Nat, k < Len(s),
           k = c \/ (k = c + 1 /\ s[k] \in Separators),
           NEW cs \in Seq(Seq(Runes)), Says(cs, SubSeq(s, k + 1, Len(s)))
    PROVE  Says(<<SubSeq(s, 1, c)>> \o cs, s)
<1> DEFINE r == SubSeq(s, k + 1, Len(s))
           first == SubSeq(s, 1, c)
           all == <<first>> \o cs
<1>1. TextMax \in Nat /\ Len(s) \in Nat /\ k \in 0..Len(s) /\ c \in Nat /\ c <= k
  BY BotAssumption
<1>2. /\ r \in Seq(Runes) /\ Len(r) = Len(s) - k
      /\ \A i \in 1..(Len(s) - k) : r[i] = s[i + k]
      /\ \A a, b \in 1..(Len(s) - k) : SubSeq(r, a, b) = SubSeq(s, a + k, b + k)
  BY <1>1, Suffix
<1>13. Len(r) \in Nat /\ Len(r) = Len(s) - k
  BY <1>1, <1>2
<1>3. PICK at \in [DOMAIN cs -> 1..Len(r)] :
        /\ Len(cs) > 0 /\ at[1] = 1 /\ at[Len(cs)] + Len(cs[Len(cs)]) - 1 = Len(r)
        /\ \A i \in 1..Len(cs) :
              /\ Len(cs[i]) \in 1..TextMax
              /\ cs[i] = SubSeq(r, at[i], at[i] + Len(cs[i]) - 1)
        /\ \A i \in 1..(Len(cs) - 1) :
              \/ at[i + 1] = at[i] + Len(cs[i]) - 1 + 1
              \/ /\ at[i + 1] = at[i] + Len(cs[i]) - 1 + 2
                 /\ r[at[i] + Len(cs[i]) - 1 + 1] \in Separators
  BY DEF Says
<1>4. first \in Seq(Runes) /\ Len(first) = c
  BY <1>1
<1> DEFINE to == [i \in 1..(Len(cs) + 1) |-> IF i = 1 THEN 1 ELSE at[i - 1] + k]
<1>5. /\ Len(cs) \in Nat /\ DOMAIN cs = 1..Len(cs)
      /\ all \in Seq(Seq(Runes)) /\ Len(all) = Len(cs) + 1 /\ DOMAIN all = 1..(Len(cs) + 1)
      /\ all[1] = first /\ \A i \in 1..Len(cs) : all[i + 1] = cs[i]
  <2> HIDE DEF first
  <2> QED
    BY <1>4
<1>12. Len(cs) \in Nat /\ Len(all) = Len(cs) + 1
  BY <1>5
<1>6. to[1] = 1 /\ \A i \in 1..Len(cs) : to[i + 1] = at[i] + k
  BY <1>5
<1>7. to \in [DOMAIN all -> 1..Len(s)]
  <2>1. ASSUME NEW i \in 1..(Len(cs) + 1), i # 1 PROVE at[i - 1] + k \in 1..Len(s)
    <3>1. i - 1 \in 1..Len(cs)
      BY <1>12, <2>1
    <3>2. at[i - 1] \in 1..Len(r)
      BY <1>3, <1>5, <3>1
    <3>3. \A x, j, m \in Nat : x \in 1..(m - j) => x + j \in 1..m
      OBVIOUS
    <3>4. \A x, m : x \in 1..m => x \in Nat
      OBVIOUS
    <3>5. at[i - 1] \in 1..(Len(s) - k) /\ at[i - 1] \in Nat
      BY <1>13, <3>2, <3>4
    <3> QED
      BY <1>1, <3>3, <3>5
  <2>2. 1 \in 1..Len(s)
    BY <1>1
  <2> QED
    BY <1>5, <2>1, <2>2
<1> HIDE DEF r, first, all, to
\* Where a later chunk ends, in the rest and in the text.
<1>8. ASSUME NEW i \in 1..Len(cs)
      PROVE  /\ at[i] \in 1..Len(r) /\ Len(cs[i]) \in 1..TextMax
             /\ at[i] + Len(cs[i]) - 1 \in 1..Len(r)
             /\ to[i + 1] + Len(all[i + 1]) - 1 = at[i] + Len(cs[i]) - 1 + k
  <2>1. at[i] \in 1..Len(r) /\ Len(cs[i]) \in 1..TextMax
    BY <1>3, <1>5
  <2>2. at[i] + Len(cs[i]) - 1 <= Len(r)
    <3>1. CASE i = Len(cs)
      BY <1>3, <3>1
    <3>2. CASE i # Len(cs)
      <4>1. i \in 1..(Len(cs) - 1) /\ i + 1 \in 1..Len(cs)
        BY <1>12, <3>2
      <4>2. at[i + 1] \in 1..Len(r)
        BY <1>3, <1>5, <4>1
      <4>3. at[i + 1] = at[i] + Len(cs[i]) - 1 + 1 \/ at[i + 1] = at[i] + Len(cs[i]) - 1 + 2
        BY <1>3, <4>1
      <4>4. at[i] \in Nat /\ Len(cs[i]) \in Nat /\ at[i + 1] \in Nat /\ Len(r) \in Nat
        <5>1. \A x, m : x \in 1..m => x \in Nat
          OBVIOUS
        <5> QED
          BY <1>13, <2>1, <4>2, <5>1
      <4>5. \A a, l, b, m \in Nat : (b = a + l - 1 + 1 \/ b = a + l - 1 + 2) /\ b <= m => a + l - 1 <= m
        OBVIOUS
      <4>6. at[i + 1] <= Len(r)
        BY <4>2, <4>4
      <4> QED
        BY <4>3, <4>4, <4>5, <4>6
    <3> QED
      BY <3>1, <3>2
  <2>3. at[i] \in Nat /\ Len(cs[i]) \in Nat /\ at[i] >= 1 /\ Len(cs[i]) >= 1 /\ Len(r) \in Nat
    BY <1>1, <1>2, <2>1
  <2>4. \A a, l, m \in Nat : a >= 1 /\ l >= 1 /\ a + l - 1 <= m
           => a + l - 1 \in 1..m /\ a + k + l - 1 = a + l - 1 + k
    OBVIOUS
  <2>5. to[i + 1] = at[i] + k /\ all[i + 1] = cs[i]
    BY <1>5, <1>6
  <2> QED
    BY <2>1, <2>2, <2>3, <2>4, <2>5
<1>9. Len(all) > 0 /\ to[1] = 1 /\ to[Len(all)] + Len(all[Len(all)]) - 1 = Len(s)
  <2>1. Len(cs) \in 1..Len(cs)
    BY <1>3, <1>5
  <2>2. to[Len(cs) + 1] + Len(all[Len(cs) + 1]) - 1 = Len(r) + k
    BY <1>3, <1>8, <2>1
  <2> QED
    BY <1>1, <1>2, <1>5, <1>6, <2>2
<1>10. ASSUME NEW i \in 1..Len(all)
       PROVE  /\ Len(all[i]) \in 1..TextMax
              /\ all[i] = SubSeq(s, to[i], to[i] + Len(all[i]) - 1)
  <2>1. CASE i = 1
    <3>1. all[1] = first /\ Len(all[1]) = c /\ to[1] = 1 /\ 1 + c - 1 = c
      BY <1>1, <1>4, <1>5, <1>6
    <3>2. first = SubSeq(s, 1, c)
      BY DEF first
    <3> QED
      BY <2>1, <3>1, <3>2
  <2>2. CASE i # 1
    <3>1. PICK j \in 1..Len(cs) : i = j + 1
      <4>1. i - 1 \in 1..Len(cs) /\ i = i - 1 + 1
        BY <1>5, <2>2
      <4> QED
        BY <4>1
    <3>2. all[i] = cs[j] /\ Len(cs[j]) \in 1..TextMax /\ to[i] = at[j] + k
      BY <1>5, <1>6, <1>8, <3>1
    <3>3. cs[j] = SubSeq(r, at[j], at[j] + Len(cs[j]) - 1)
      BY <1>3
    <3>4. SubSeq(r, at[j], at[j] + Len(cs[j]) - 1) = SubSeq(s, at[j] + k, at[j] + Len(cs[j]) - 1 + k)
      BY <1>2, <1>8
    <3>5. to[i] + Len(all[i]) - 1 = at[j] + Len(cs[j]) - 1 + k
      BY <1>8, <3>1
    <3> QED
      BY <3>2, <3>3, <3>4, <3>5
  <2> QED
    BY <2>1, <2>2
<1>11. ASSUME NEW i \in 1..(Len(all) - 1)
       PROVE  \/ to[i + 1] = to[i] + Len(all[i]) - 1 + 1
              \/ /\ to[i + 1] = to[i] + Len(all[i]) - 1 + 2
                 /\ s[to[i] + Len(all[i]) - 1 + 1] \in Separators
  <2>1. CASE i = 1
    <3>1. 1 \in 1..Len(cs)
      BY <1>3, <1>5
    <3>2. to[2] = 1 + k /\ to[1] + Len(all[1]) - 1 = c
      BY <1>1, <1>3, <1>4, <1>5, <1>6, <3>1
    <3>3. CASE k = c
      BY <1>1, <2>1, <3>2, <3>3
    <3>4. CASE k = c + 1 /\ s[k] \in Separators
      BY <1>1, <2>1, <3>2, <3>4
    <3> QED
      BY <3>3, <3>4
  <2>2. CASE i # 1
    <3>1. PICK j \in 1..(Len(cs) - 1) : i = j + 1
      <4>1. i - 1 \in 1..(Len(cs) - 1) /\ i = i - 1 + 1
        BY <1>12, <2>2
      <4> QED
        BY <4>1
    <3>2. j \in 1..Len(cs) /\ j + 1 \in 1..Len(cs)
      BY <1>5, <3>1
    <3>3. to[i + 1] = at[j + 1] + k
      BY <1>6, <3>1, <3>2
    <3>4. to[i] + Len(all[i]) - 1 = at[j] + Len(cs[j]) - 1 + k
      BY <1>8, <3>1, <3>2
    <3>8. /\ at[j] \in 1..Len(r) /\ Len(cs[j]) \in 1..TextMax /\ at[j + 1] \in 1..Len(r)
          /\ at[j] + Len(cs[j]) - 1 \in 1..Len(r)
      BY <1>8, <3>2
    <3>9. Len(r) \in Nat /\ Len(r) = Len(s) - k
      BY <1>1, <1>2
    <3> DEFINE e == at[j] + Len(cs[j]) - 1
    <3>5. e \in Nat /\ at[j + 1] \in 1..Len(r) /\ e \in 1..Len(r)
      <4>1. \A m \in Nat : 1..m \subseteq Nat
        OBVIOUS
      <4>2. e \in 1..Len(r)
        BY <3>8
      <4> QED
        BY <3>8, <3>9, <4>1, <4>2
    <3>10. at[j + 1] = e + 1 \/ (at[j + 1] = e + 2 /\ r[e + 1] \in Separators)
      BY <1>3, <3>1
    <3>11. to[i] + Len(all[i]) - 1 = e + k
      BY <3>4
    <3> HIDE DEF e
    <3>6. CASE at[j + 1] = e + 1
      <4>1. at[j + 1] + k = e + k + 1
        BY <3>5, <3>6
      <4> QED
        BY <3>3, <3>11, <4>1
    <3>7. CASE at[j + 1] = e + 2 /\ r[e + 1] \in Separators
      <4>1. e + 1 \in 1..(Len(s) - k) /\ e + 1 + k = e + k + 1 /\ e + 2 + k = e + k + 2
        BY <1>1, <3>5, <3>7, <3>9
      <4>3. r[e + 1] = s[(e + 1) + k]
        BY <1>2, <4>1
      <4>2. r[e + 1] = s[e + k + 1]
        BY <4>1, <4>3
      <4> QED
        BY <3>3, <3>7, <3>11, <4>1, <4>2
    <3> QED
      BY <3>6, <3>7, <3>10
  <2> QED
    BY <2>1, <2>2
<1> QED
  BY <1>7, <1>9, <1>10, <1>11 DEF Says, all, first

\* Where a round cuts what is left of a text, and what the next one has.
LEMMA Cut ==
    ASSUME NEW text \in Seq(Runes), NEW n \in 0..Len(text), n > TextMax,
           NEW s, s = remaining(text, n), NEW cut, cut = breakPoint(SubSeq(s, 1, TextMax))
    PROVE  /\ s \in Seq(Runes) /\ Len(s) = n
           /\ cut[1] \in 1..TextMax /\ cut[2] \in Nat /\ cut[2] < n
           /\ cut[2] = cut[1] \/ (cut[2] = cut[1] + 1 /\ s[cut[2]] \in Separators)
           /\ n - cut[2] \in 1..(n - 1)
           /\ remaining(text, n - cut[2]) = SubSeq(s, cut[2] + 1, Len(s))
<1> DEFINE w == SubSeq(s, 1, TextMax)
<1>1. TextMax \in Nat /\ TextMax > 1 /\ Len(text) \in Nat /\ n \in Nat
  BY BotAssumption
<1>2. Len(text) - n \in 0..Len(text) /\ Len(text) - (Len(text) - n) = n
  BY <1>1
<1>3. s = SubSeq(text, Len(text) - n + 1, Len(text))
  BY DEF remaining
<1>4. /\ s \in Seq(Runes) /\ Len(s) = n
      /\ \A a, b \in 1..n : SubSeq(s, a, b) = SubSeq(text, a + (Len(text) - n), b + (Len(text) - n))
  BY <1>2, <1>3, Suffix
<1>5. w \in Seq(Runes) /\ Len(w) = TextMax /\ \A i \in 1..TextMax : w[i] = s[i]
  BY <1>1, <1>4
<1>6. /\ cut[1] \in 1..TextMax /\ cut[2] \in 1..TextMax
      /\ cut[2] = cut[1] \/ (cut[2] = cut[1] + 1 /\ w[cut[2]] \in Separators)
  <2>1. cut = breakPoint(w) /\ Len(w) > 1
    BY <1>1, <1>5
  <2> HIDE DEF w
  <2> QED
    BY <1>5, <2>1, BreakPoint
<1>7. cut[2] \in Nat /\ cut[2] < n /\ n - cut[2] \in 1..(n - 1)
  BY <1>1, <1>6
<1>8. remaining(text, n - cut[2]) = SubSeq(s, cut[2] + 1, Len(s))
  <2>1. /\ cut[2] + 1 \in 1..n /\ n \in 1..n
        /\ cut[2] + 1 + (Len(text) - n) = Len(text) - (n - cut[2]) + 1
        /\ n + (Len(text) - n) = Len(text)
    <3>1. \A l, m, k \in Nat : k < m => /\ k + 1 \in 1..m /\ m \in 1..m
                                         /\ k + 1 + (l - m) = l - (m - k) + 1
                                         /\ m + (l - m) = l
      OBVIOUS
    <3> QED
      BY <1>1, <1>7, <3>1
  <2>2. SubSeq(s, cut[2] + 1, n) = SubSeq(text, Len(text) - (n - cut[2]) + 1, Len(text))
    BY <1>4, <2>1
  <2> QED
    BY <1>4, <2>2 DEF remaining
<1> QED
  BY <1>4, <1>5, <1>6, <1>7, <1>8

\* A round looks only at the chunks of fewer runes.
LEMMA RoundLocal ==
    ASSUME NEW text \in Seq(Runes), NEW n \in 0..Len(text), NEW f, NEW g,
           \A i \in 0..(n - 1) : f[i] = g[i]
    PROVE  splitRound(text, n, f) = splitRound(text, n, g)
<1> DEFINE s == remaining(text, n) cut == breakPoint(SubSeq(s, 1, TextMax))
<1>1. TextMax \in Nat /\ n \in Nat
  BY BotAssumption
<1>2. CASE n > TextMax
  <2>1. n - cut[2] \in 1..(n - 1)
    BY <1>2, Cut
  <2>2. n - cut[2] \in 0..(n - 1)
    <3> HIDE DEF cut
    <3> QED
      BY <1>1, <2>1
  <2>3. f[n - cut[2]] = g[n - cut[2]]
    BY <2>2
  <2> QED
    BY <2>3 DEF splitRound
<1>3. CASE ~(n > TextMax)
  <2>1. n <= TextMax
    BY <1>1, <1>3
  <2> QED
    BY <2>1 DEF splitRound
<1> QED
  BY <1>2, <1>3

\* The chunks of all the runes that may be left.
Splits(text, f, k) == f = [n \in 0..k |-> splitRound(text, n, f)]

\* There are such chunks, of one rune more given those of fewer.
LEMMA SplitsNext ==
    ASSUME NEW text \in Seq(Runes), NEW k \in Nat, k < Len(text), NEW f, Splits(text, f, k)
    PROVE  \E g : Splits(text, g, k + 1)
<1> DEFINE g == [n \in 0..(k + 1) |-> IF n = k + 1 THEN splitRound(text, n, f) ELSE f[n]]
<1>1. Len(text) \in Nat
  OBVIOUS
<1>2. \A n \in 0..k : g[n] = f[n]
  <2>1. \A n \in 0..k : n \in 0..(k + 1) /\ n # k + 1
    OBVIOUS
  <2> QED
    BY <2>1
<1>3. ASSUME NEW n \in 0..(k + 1) PROVE g[n] = splitRound(text, n, g)
  <2>1. n \in 0..Len(text) /\ 0..(n - 1) \subseteq 0..k
    BY <1>1
  <2>2. splitRound(text, n, f) = splitRound(text, n, g)
    <3>1. \A i \in 0..(n - 1) : f[i] = g[i]
      BY <1>2, <2>1
    <3> HIDE DEF g
    <3> QED
      BY <2>1, <3>1, RoundLocal
  <2>3. g[n] = splitRound(text, n, f)
    <3>1. CASE n = k + 1
      BY <3>1
    <3>2. CASE n # k + 1
      <4>1. n \in 0..k
        BY <3>2
      <4>2. f[n] = splitRound(text, n, f)
        BY <4>1 DEF Splits
      <4> QED
        BY <1>2, <4>1, <4>2
    <3> QED
      BY <3>1, <3>2
  <2> QED
    BY <2>2, <2>3
<1>4. g = [n \in 0..(k + 1) |-> g[n]]
  OBVIOUS
<1>5. g = [n \in 0..(k + 1) |-> splitRound(text, n, g)]
  <2> HIDE DEF g
  <2> QED
    BY <1>3, <1>4
<1> QED
  BY <1>5 DEF Splits

\* The recursion of splitMessage is well founded: there are such chunks of the whole
\* text, the least number of runes without any being out of reach.
LEMMA SplitsExist ==
    ASSUME NEW text \in Seq(Runes)
    PROVE  \E f : Splits(text, f, Len(text))
<1> DEFINE S == {k \in Nat : k <= Len(text) /\ ~ \E f : Splits(text, f, k)}
<1>1. Len(text) \in Nat /\ S \subseteq Nat
  OBVIOUS
<1>2. SUFFICES ASSUME S # {} PROVE FALSE
  BY <1>1
<1>3. PICK m \in S : \A k \in S : m <= k
  <2> HIDE DEF S
  <2> QED
    BY <1>1, <1>2, LeastElement
<1>4. m \in Nat /\ m <= Len(text) /\ ~ \E f : Splits(text, f, m)
  BY <1>3
<1>5. CASE m = 0
  <2> DEFINE f == [n \in 0..0 |-> <<>>]
  <2>1. ASSUME NEW n \in 0..0 PROVE splitRound(text, n, f) = <<>>
    <3>1. n = 0
      OBVIOUS
    <3> QED
      BY <3>1 DEF splitRound
  <2>2. f = [n \in 0..0 |-> splitRound(text, n, f)]
    <3>1. f = [n \in 0..0 |-> <<>>]
      OBVIOUS
    <3> HIDE DEF f
    <3> QED
      BY <2>1, <3>1, Zenon
  <2> HIDE DEF f
  <2> QED
    BY <1>4, <1>5, <2>2 DEF Splits
<1>6. CASE m # 0
  <2>1. m - 1 \in Nat /\ m - 1 < Len(text) /\ ~(m <= m - 1) /\ m - 1 + 1 = m
    BY <1>1, <1>4, <1>6
  <2>2. m - 1 \notin S
    <3> HIDE DEF S
    <3> QED
      BY <1>3, <2>1
  <2>3. PICK f : Splits(text, f, m - 1)
    BY <1>1, <2>1, <2>2
  <2>4. \E g : Splits(text, g, m - 1 + 1)
    BY <2>1, <2>3, SplitsNext
  <2> QED
    BY <1>4, <2>1, <2>4
<1> QED
  BY <1>5, <1>6

\* splitMessage is the chunks of all of it.
LEMMA SplitMessage ==
    ASSUME NEW text \in Seq(Runes)
    PROVE  \E f : Splits(text, f, Len(text)) /\ splitMessage(text) = f[Len(text)]
<1> DEFINE f == CHOOSE g : g = [n \in 0..Len(text) |-> splitRound(text, n, g)]
<1>1. f = [n \in 0..Len(text) |-> splitRound(text, n, f)]
  BY SplitsExist DEF Splits
<1>2. splitMessage(text) = f[Len(text)]
  BY DEF splitMessage
<1> QED
  BY <1>1, <1>2 DEF Splits

\* Whatever the answer says, its chunks say it: splitMessage loses nothing but the
\* separators it breaks at, and sends nothing that Telegram would refuse.
THEOREM SplitMessageSays ==
    ASSUME NEW text \in Seq(Runes), text # <<>>
    PROVE  splitMessage(text) \in Seq(Seq(Runes)) /\ Says(splitMessage(text), text)
<1>1. PICK f : Splits(text, f, Len(text)) /\ splitMessage(text) = f[Len(text)]
  BY SplitMessage
<1>2. Len(text) \in Nat /\ Len(text) > 0 /\ TextMax \in Nat
  BY BotAssumption
<1>3. \A n \in 0..Len(text) : f[n] = splitRound(text, n, f)
  BY <1>1 DEF Splits
<1> DEFINE Good(n) == f[n] \in Seq(Seq(Runes)) /\ Says(f[n], remaining(text, n))
           S == {n \in Nat : n > 0 /\ n <= Len(text) /\ ~Good(n)}
<1>4. ASSUME S # {} PROVE FALSE
  <2>1. PICK m \in S : \A k \in S : m <= k
    <3>1. S \subseteq Nat
      OBVIOUS
    <3> HIDE DEF S
    <3> QED
      BY <1>4, <3>1, LeastElement
  <2>2. m \in Nat /\ m > 0 /\ m <= Len(text) /\ m \in 0..Len(text) /\ ~Good(m)
    BY <1>2, <2>1
  <2>3. \A k \in Nat : k > 0 /\ k < m => Good(k)
    <3>1. ASSUME NEW k \in Nat, k > 0, k < m, ~Good(k) PROVE FALSE
      <4>1. k <= Len(text) /\ ~(m <= k)
        BY <1>2, <2>2, <3>1
      <4>2. k \in S
        BY <3>1, <4>1
      <4> QED
        BY <2>1, <4>1, <4>2
    <3> QED
      BY <3>1
  <2> HIDE DEF S
  <2> DEFINE s == remaining(text, m) cut == breakPoint(SubSeq(s, 1, TextMax))
  <2>4. CASE m <= TextMax
    <3>1. Len(text) - m \in 0..Len(text) /\ Len(text) - (Len(text) - m) = m
      BY <1>2, <2>2
    <3>2. s \in Seq(Runes) /\ Len(s) = m
      BY <3>1, Suffix DEF remaining
    <3>3. f[m] = <<s>>
      <4>1. f[m] = splitRound(text, m, f) /\ m # 0
        BY <1>3, <2>2
      <4> QED
        BY <2>4, <4>1 DEF splitRound
    <3> HIDE DEF s
    <3>4. Says(<<s>>, s) /\ <<s>> \in Seq(Seq(Runes))
      <4>1. Len(s) \in 1..TextMax
        BY <1>2, <2>2, <2>4, <3>2
      <4> QED
        BY <3>2, <4>1, SaidWhole
    <3> QED
      BY <2>2, <3>3, <3>4 DEF s
  <2>5. CASE ~(m <= TextMax)
    <3>1. m > TextMax
      BY <1>2, <2>2, <2>5
    <3>2. /\ s \in Seq(Runes) /\ Len(s) = m
          /\ cut[1] \in 1..TextMax /\ cut[2] \in Nat /\ cut[2] < m
          /\ cut[2] = cut[1] \/ (cut[2] = cut[1] + 1 /\ s[cut[2]] \in Separators)
          /\ m - cut[2] \in 1..(m - 1)
          /\ remaining(text, m - cut[2]) = SubSeq(s, cut[2] + 1, Len(s))
      BY <2>2, <3>1, Cut
    <3>3. f[m] = <<SubSeq(s, 1, cut[1])>> \o f[m - cut[2]]
      <4>1. f[m] = splitRound(text, m, f) /\ m # 0
        BY <1>3, <2>2
      <4> QED
        BY <2>5, <4>1 DEF splitRound
    <3> DEFINE c == cut[1] k == cut[2]
    <3>4. /\ s \in Seq(Runes) /\ Len(s) = m /\ c \in 1..TextMax /\ k \in Nat /\ k < m
          /\ k = c \/ (k = c + 1 /\ s[k] \in Separators)
          /\ m - k \in 1..(m - 1) /\ remaining(text, m - k) = SubSeq(s, k + 1, Len(s))
          /\ f[m] = <<SubSeq(s, 1, c)>> \o f[m - k]
      BY <3>2, <3>3
    <3> HIDE DEF c, k, cut
    <3>5. m - k \in Nat /\ m - k > 0 /\ m - k < m
      BY <2>2, <3>4
    <3>6. f[m - k] \in Seq(Seq(Runes)) /\ Says(f[m - k], SubSeq(s, k + 1, Len(s)))
      BY <2>3, <3>4, <3>5
    <3>7. Says(<<SubSeq(s, 1, c)>> \o f[m - k], s)
      <4> HIDE DEF s
      <4> QED
        BY <3>4, <3>6, SaidInTurn
    <3>8. SubSeq(s, 1, c) \in Seq(Runes)
      <4> HIDE DEF s
      <4> QED
        BY <1>2, <3>4
    <3>9. <<SubSeq(s, 1, c)>> \o f[m - k] \in Seq(Seq(Runes))
      <4> DEFINE h == SubSeq(s, 1, c)
      <4>1. h \in Seq(Runes)
        BY <3>8
      <4> HIDE DEF h
      <4>2. <<h>> \o f[m - k] \in Seq(Seq(Runes))
        BY <3>6, <4>1
      <4> QED
        BY <4>2 DEF h
    <3> QED
      BY <2>2, <3>4, <3>7, <3>9
  <2> QED
    BY <2>4, <2>5
<1>5. Good(Len(text))
  BY <1>2, <1>4
<1>6. remaining(text, Len(text)) = text
  <2>1. Len(text) - Len(text) + 1 = 1
    BY <1>2
  <2> QED
    BY <2>1, SubSeqFull DEF remaining
<1> QED
  BY <1>1, <1>5, <1>6

\* An answer is its text whole, in one message at least.
LEMMA AnswersWhole ==
    ASSUME NEW r \in Answers
    PROVE  r \in Replies /\ r.kind = "answer" /\ r.of >= 1
<1>1. PICK text \in Texts : r = Reply(text)
  BY DEF Answers
<1>2. CASE text = <<>>
  <2>1. r = [kind |-> "answer", of |-> 1]
    BY <1>1, <1>2 DEF Reply
  <2> QED
    BY <2>1 DEF Replies
<1>3. CASE text # <<>>
  <2>1. text \in Seq(Runes)
    BY BotAssumption
  <2> DEFINE chunks == splitMessage(text)
  <2>2. chunks \in Seq(Seq(Runes)) /\ Says(chunks, text)
    BY <1>3, <2>1, SplitMessageSays
  <2> HIDE DEF chunks
  <2>3. Len(chunks) \in Nat /\ Len(chunks) > 0
    BY <2>2 DEF Says
  <2>4. r = [kind |-> "answer", of |-> Len(chunks)]
    BY <1>1, <1>3, <2>2 DEF Reply, chunks
  <2> QED
    BY <2>3, <2>4 DEF Replies
<1> QED
  BY <1>2, <1>3

\* What may be in hand, and the words of a turn that failed.
LEMMA InHandFields ==
    /\ NoPrompt \in InHand /\ Sorry \in Replies /\ Sorry.kind = "sorry" /\ Sorry.of = 1
    /\ \A p \in Prompts : /\ [NoPrompt EXCEPT !.prompt = p] \in InHand
                           /\ [NoPrompt EXCEPT !.prompt = p].prompt = p
    /\ \A p \in Prompts, failed \in BOOLEAN, r \in Replies, n \in Nat :
          [prompt |-> p, failed |-> failed, reply |-> r, part |-> n] \in InHand
<1>1. 1 \in Prompts
  BY RunAssumption DEF Prompts
<1> QED
  BY <1>1 DEF NoPrompt, NoReply, Sorry, InHand, Replies

-----------------------------------------------------------------------------
(* The inductive invariant.  Its first part is about every bot by itself, and holds
   for any number of them. *)

\* A goroutine runs while its bot reads its events, on a session whose last message
\* is about the prompt in hand; it has a call to run in "tools", and it is over when it
\* comes to its last event.
Running(b) ==
    /\ bot[b] # "turn" => run[b] = Idle
    /\ bot[b] = "turn" =>
          /\ run[b].pc # "idle" /\ sess[b].messages # <<>>
          /\ Last(sess[b].messages).by = turn[b].prompt
    /\ bot[b] = "down" <=> ~sess[b].box
    /\ run[b].pc = "tools" => run[b].left > 0
    /\ run[b].pc \in {"last", "closed"} => run[b].then # "loop"

\* A turn is marked completed on its way out only.
Completing(b) ==
    bot[b] = "turn" /\ sess[b].status = "completed" =>
        run[b].then = "done" /\ run[b].pc \in {"count", "commit", "last", "closed"}

\* The messages of a trail are the one it edits and those it took for failed, and no
\* line is left to show when the reply is said.
Whole(t) == t \in Trail /\ t.posted = t.id + t.unsure
Showing(b) == Whole(trail[b]) /\ (bot[b] = "sending" => ~trail[b].behind)

\* Nothing is said to a prompt before its turn is over, and then the parts of its reply
\* up to the one that is next.
Replying(b) ==
    /\ bot[b] = "turn" => chat[turn[b].prompt] = <<>>
    /\ bot[b] = "sending" =>
          /\ turn[b].reply.kind # "garbled" /\ turn[b].part \in 1..turn[b].reply.of
          /\ Len(chat[turn[b].prompt]) + 1 = turn[b].part
          /\ \A i \in DOMAIN chat[turn[b].prompt] : chat[turn[b].prompt][i].reply = turn[b].reply

\* A channel that is closed ends in an error that the bot has read or will read, unless
\* the turn is done.
Reporting(b) ==
    run[b].pc = "closed" =>
        \/ run[b].then = "done" \/ turn[b].failed
        \/ out[b] # <<>> /\ Last(out[b]) = "error"

\* What is stored is of sessions that were started, and what a bot holds is one.
Starting ==
    /\ \A id \in Ids : id > started => messages[id] = <<>> /\ statuses[id] = "none"
    /\ \A b \in Holders : sess[b].box => sess[b].id <= started

\* Prompt p waits at place i of the queue of b, or is in its hand.
Waits(b, i, p) == updates[b][i] = [kind |-> "prompt", arg |-> p]
Busy(b) == bot[b] \in {"turn", "sending"}
Has(b, p) == Busy(b) /\ turn[b].prompt = p

\* A prompt is in one place at most, and nothing is said to it while it waits.
Asking ==
    /\ \A p \in Prompts : p > asked => chat[p] = <<>>
    /\ \A b \in Holders, p \in Prompts : \A i \in DOMAIN updates[b] :
          Waits(b, i, p) =>
             /\ p <= asked /\ chat[p] = <<>>
             /\ \A c \in Holders : /\ ~Has(c, p)
                                   /\ \A j \in DOMAIN updates[c] : Waits(c, j, p) => b = c /\ i = j
    /\ \A b \in Holders, p \in Prompts :
          Has(b, p) => p <= asked /\ \A c \in Holders : Has(c, p) => b = c

\* The messages sent to a prompt are the parts of one reply, in order, and it is said.
InOrder(p) ==
    \A i \in DOMAIN chat[p] : /\ chat[p][i].part = i /\ i <= chat[p][i].reply.of
                              /\ chat[p][i].reply = chat[p][1].reply
                              /\ chat[p][i].reply.kind # "garbled"

Cuts == {p \in Prompts : CutShort(p)}

Local(b) == Running(b) /\ Completing(b) /\ Showing(b) /\ Reporting(b) /\ Replying(b)

IInv ==
    /\ TypeOK /\ Starting /\ Asking /\ AnsweredOnce
    /\ \A b \in Holders : Local(b)

\* The second part is about the store, and holds as long as no two bots hold one
\* session.
Apart == \A g, h \in Holders : g # h /\ sess[g].box /\ sess[h].box => sess[g].id # sess[h].id

stored(b) == messages[sess[b].id]

\* What is stored of the session of b is a prefix of it, its length the one that the
\* Save in progress has counted; it is all of it when an answer was saved.
Saving(b) ==
    sess[b].box =>
        /\ IsPrefix(stored(b), sess[b].messages)
        /\ run[b].pc = "commit" => run[b].stored = Len(stored(b))
        /\ run[b].pc = "top" /\ isAnswer(Last(sess[b].messages)) => stored(b) = sess[b].messages
        /\ bot[b] = "turn" /\ run[b].then = "done" =>
              stored(b) = sess[b].messages /\ isAnswer(Last(sess[b].messages))

\* The answer to prompt p is stored; the bot that is saying it knows that it is.
Answered(p) == \E id \in Ids : \E i \in DOMAIN messages[id] : messages[id][i] = assistant(0, p)
Promising(b) == bot[b] = "sending" /\ turn[b].reply.kind = "answer" => Answered(turn[b].prompt)

Completed == \A id \in Ids : statuses[id] = "completed" =>
                 messages[id] # <<>> /\ isAnswer(Last(messages[id]))

SInv == Completed /\ AnswersAreStored /\ \A b \in Holders : Saving(b) /\ Promising(b)

-----------------------------------------------------------------------------
(* Messages, sessions and goroutines *)

\* The messages there are.
LEMMA Messages ==
    ASSUME NEW p \in Prompts
    PROVE  /\ user(p) \in Message /\ user(p).by = p /\ user(p).role = "user" /\ user(p).calls = 0
           /\ toolResultMsg(p) \in Message /\ toolResultMsg(p).by = p
           /\ toolResultMsg(p).role = "tool"
           /\ \A n \in 0..MaxCalls : /\ assistant(n, p) \in Message /\ assistant(n, p).by = p
                                     /\ assistant(n, p).role = "assistant"
                                     /\ assistant(n, p).calls = n
<1>1. MaxCalls \in Nat
  BY RunAssumption
<1> QED
  BY <1>1 DEF Message, user, toolResultMsg, assistant

\* What a message has, and that an answer is what the model said of its prompt.
LEMMA MessageFields ==
    ASSUME NEW m \in Message
    PROVE  /\ m.role \in {"user", "assistant", "tool"} /\ m.calls \in 0..MaxCalls /\ m.by \in Prompts
           /\ isAnswer(m) => m = assistant(0, m.by)
  BY DEF Message, isAnswer, assistant

\* The last message of a transcript, and of one that grows.
LEMMA Transcript ==
    ASSUME NEW q \in Seq(Message), NEW m \in Message
    PROVE  /\ q # <<>> => Last(q) \in Message
           /\ Append(q, m) \in Seq(Message) /\ Append(q, m) # <<>> /\ Last(Append(q, m)) = m
<1>1. q # <<>> => Len(q) \in 1..Len(q) /\ q[Len(q)] \in Message
  OBVIOUS
<1>2. Append(q, m) \in Seq(Message) /\ Len(Append(q, m)) = Len(q) + 1 /\ Append(q, m)[Len(q) + 1] = m
  OBVIOUS
<1>3. q # <<>> => Last(q) \in Message
  BY <1>1 DEF Last
<1>4. Append(q, m) # <<>>
  <2>1. Len(Append(q, m)) # 0
    BY <1>2
  <2>2. Len(<<>>) = 0
    OBVIOUS
  <2> QED
    BY <2>1, <2>2, Zenon
<1>5. Last(Append(q, m)) = Append(q, m)[Len(Append(q, m))]
  BY DEF Last
<1> QED
  BY <1>2, <1>3, <1>4, <1>5

\* A session whose transcript grows, or whose status is set.
LEMMA SessionGrows ==
    ASSUME NEW s \in Session, NEW q \in Seq(Message), NEW v \in Status
    PROVE  /\ s.id \in Ids /\ s.messages \in Seq(Message) /\ s.status \in Status /\ s.box \in BOOLEAN
           /\ [s EXCEPT !.messages = q] \in Session
           /\ [s EXCEPT !.messages = q].messages = q /\ [s EXCEPT !.messages = q].id = s.id
           /\ [s EXCEPT !.messages = q].status = s.status /\ [s EXCEPT !.messages = q].box = s.box
           /\ [s EXCEPT !.status = v] \in Session
           /\ [s EXCEPT !.status = v].messages = s.messages /\ [s EXCEPT !.status = v].id = s.id
           /\ [s EXCEPT !.status = v].status = v /\ [s EXCEPT !.status = v].box = s.box
  BY DEF Session

Pcs == {"idle", "top", "model", "tools", "count", "commit", "last", "closed"}
Thens == {"loop", "done", "failed"}

\* A goroutine that goes on.
LEMMA GoroutineGoes ==
    ASSUME NEW r \in Goroutine, NEW k \in Pcs, NEW t \in Thens, NEW n \in 0..MaxCalls, NEW l \in Nat
    PROVE  /\ r.pc \in Pcs /\ r.then \in Thens /\ r.left \in 0..MaxCalls /\ r.stored \in Nat
           /\ [r EXCEPT !.pc = k] \in Goroutine
           /\ [r EXCEPT !.pc = k].pc = k /\ [r EXCEPT !.pc = k].then = r.then
           /\ [r EXCEPT !.pc = k, !.then = t] \in Goroutine
           /\ [r EXCEPT !.pc = k, !.then = t].pc = k /\ [r EXCEPT !.pc = k, !.then = t].then = t
           /\ [r EXCEPT !.pc = k, !.left = n] \in Goroutine
           /\ [r EXCEPT !.pc = k, !.left = n].pc = k /\ [r EXCEPT !.pc = k, !.left = n].left = n
           /\ [r EXCEPT !.pc = k, !.left = n].then = r.then
           /\ [r EXCEPT !.left = n, !.pc = k, !.then = t] \in Goroutine
           /\ [r EXCEPT !.left = n, !.pc = k, !.then = t].pc = k
           /\ [r EXCEPT !.left = n, !.pc = k, !.then = t].left = n
           /\ [r EXCEPT !.left = n, !.pc = k, !.then = t].then = t
           /\ [r EXCEPT !.pc = k, !.stored = l] \in Goroutine
           /\ [r EXCEPT !.pc = k, !.stored = l].pc = k /\ [r EXCEPT !.pc = k, !.stored = l].stored = l
           /\ [r EXCEPT !.pc = k, !.stored = l].then = r.then
  BY DEF Goroutine, Pcs, Thens

\* Between turns nothing runs.
LEMMA IdleFields ==
    /\ Idle \in Goroutine /\ Idle.pc = "idle" /\ Idle.then = "loop"
    /\ [Idle EXCEPT !.pc = "top"] \in Goroutine /\ [Idle EXCEPT !.pc = "top"].pc = "top"
    /\ [Idle EXCEPT !.pc = "top"].then = "loop"
<1>1. MaxCalls \in Nat
  BY RunAssumption
<1> QED
  BY <1>1 DEF Idle, Goroutine

-----------------------------------------------------------------------------
(* A step of a turn *)

\* A goroutine that is somewhere is its bot's turn, on a session that has messages.
LEMMA TurnRuns ==
    ASSUME IInv, NEW b \in Holders, run[b].pc # "idle"
    PROVE  /\ bot[b] = "turn" /\ sess[b].box /\ sess[b].messages # <<>>
           /\ sess[b] \in Session /\ run[b] \in Goroutine /\ out[b] \in Seq(Events)
           /\ sess[b].messages \in Seq(Message) /\ Last(sess[b].messages) \in Message
           /\ Last(sess[b].messages).by \in Prompts
           /\ sess[b].id \in Ids /\ sess[b].id <= started
<1>1. Local(b) /\ TypeOK /\ Starting
  BY DEF IInv
<1>2. sess[b] \in Session /\ run[b] \in Goroutine /\ out[b] \in Seq(Events)
  BY <1>1 DEF TypeOK, RunTypeOK
<1>3. bot[b] = "turn"
  BY <1>1, IdleFields DEF Local, Running
<1>4. sess[b].messages # <<>> /\ sess[b].box
  <2>1. sess[b].box \in BOOLEAN
    BY <1>2 DEF Session
  <2> QED
    BY <1>1, <1>3, <2>1 DEF Local, Running
<1>5. sess[b].messages \in Seq(Message) /\ sess[b].id \in Ids
  BY <1>2 DEF Session
<1>6. sess[b].id <= started
  BY <1>1, <1>4 DEF Starting
<1>7. Last(sess[b].messages) \in Message
  BY <1>4, <1>5 DEF Last
<1> QED
  BY <1>2, <1>3, <1>4, <1>5, <1>6, <1>7, MessageFields

\* A fault that happens is one more.
LEMMA Faults ==
    ASSUME IInv, fault \/ UNCHANGED faults
    PROVE  /\ faults \in Nat /\ faults' \in Nat /\ faults' \in 0..MaxFaults
           /\ faults <= faults' /\ (fault => faults' = faults + 1)
<1>1. faults \in 0..MaxFaults /\ MaxFaults \in Nat
  BY RunAssumption DEF IInv, TypeOK, RunTypeOK
<1> QED
  BY <1>1 DEF fault

\* What AnsweredOnce says of every prompt, and of those cut short, who are finitely many.
LEMMA Answering ==
    /\ AnsweredOnce <=> (\A p \in Prompts : InOrder(p)) /\ Cardinality(Cuts) <= faults
    /\ AnsweredOnce' <=> (\A p \in Prompts : InOrder(p)') /\ Cardinality(Cuts') <= faults'
    /\ IsFiniteSet(Cuts)
<1>1. IsFiniteSet(Prompts)
  <2>1. 1 \in Int /\ MaxPrompts \in Int
    BY RunAssumption
  <2> QED
    BY <2>1, FS_Interval DEF Prompts
<1>2. Cuts \in SUBSET Prompts
  BY DEF Cuts
<1>3. IsFiniteSet(Cuts)
  BY <1>1, <1>2, FS_Subset
<1>4. AnsweredOnce <=> (\A p \in Prompts : InOrder(p)) /\ Cardinality(Cuts) <= faults
  BY DEF AnsweredOnce, InOrder, Cuts
<1>5. AnsweredOnce' <=> (\A p \in Prompts : InOrder(p)') /\ Cardinality(Cuts') <= faults'
  BY DEF AnsweredOnce, InOrder, Cuts
<1> QED
  BY <1>3, <1>4, <1>5

\* No prompt but p is cut short, and p for a fault.
LEMMA CutsKept ==
    ASSUME IInv, fault \/ UNCHANGED faults, NEW p,
           \A q \in Prompts : CutShort(q)' => CutShort(q) \/ (q = p /\ faults' = faults + 1)
    PROVE  Cardinality(Cuts') <= faults'
<1>1. faults \in Nat /\ faults' \in Nat /\ faults <= faults'
  BY Faults
<1>2. IsFiniteSet(Cuts) /\ Cardinality(Cuts) <= faults
  BY Answering DEF IInv
<1>3. Cardinality(Cuts) \in Nat
  BY <1>2, FS_CardinalityType
<1>4. CASE faults' = faults + 1
  <2>1. IsFiniteSet(Cuts \cup {p}) /\ Cardinality(Cuts \cup {p}) <= Cardinality(Cuts) + 1
        /\ Cardinality(Cuts \cup {p}) \in Nat
    BY <1>2, <1>3, FS_AddElement
  <2>2. Cuts' \in SUBSET (Cuts \cup {p})
    BY DEF Cuts
  <2>3. Cardinality(Cuts') <= Cardinality(Cuts \cup {p}) /\ Cardinality(Cuts') \in Nat
    BY <2>1, <2>2, FS_Subset, FS_CardinalityType
  <2> QED
    BY <1>1, <1>2, <1>3, <1>4, <2>1, <2>3
<1>5. CASE faults' # faults + 1
  <2>1. Cuts' \in SUBSET Cuts
    BY <1>5 DEF Cuts
  <2>2. Cardinality(Cuts') <= Cardinality(Cuts) /\ Cardinality(Cuts') \in Nat
    BY <1>2, <2>1, FS_Subset, FS_CardinalityType
  <2> QED
    BY <1>1, <1>2, <1>3, <2>2
<1> QED
  BY <1>4, <1>5

\* Nothing is sent, and every bot goes on with the reply it says, but one at most for a
\* fault.
LEMMA AnswersKept ==
    ASSUME IInv, chat' = chat, fault \/ UNCHANGED faults, NEW b \in Holders,
           \A c \in Holders : bot[c] = "sending" =>
               \/ bot'[c] = "sending" /\ turn'[c].prompt = turn[c].prompt
               \/ c = b /\ faults' = faults + 1
    PROVE  AnsweredOnce'
<1>1. \A p \in Prompts : InOrder(p)'
  <2>1. \A p \in Prompts : InOrder(p)
    BY Answering DEF IInv
  <2> QED
    BY <2>1 DEF InOrder
<1>2. \A q \in Prompts : CutShort(q)' => CutShort(q) \/ (q = turn[b].prompt /\ faults' = faults + 1)
  BY DEF CutShort
<1> QED
  BY <1>1, <1>2, CutsKept, Answering

\* The step of a turn keeps the invariant when it leaves the session on its prompt
\* and writes to that session alone.
LEMMA TurnStep ==
    ASSUME IInv, NEW b \in Holders, run[b].pc # "idle",
           NEW s \in Session, NEW r \in Goroutine, NEW o \in Seq(Events),
           sess' = [sess EXCEPT ![b] = s], run' = [run EXCEPT ![b] = r],
           out' = [out EXCEPT ![b] = o], UNCHANGED <<ctx, botVars>>, fault \/ UNCHANGED faults,
           messages' \in [Ids -> Seq(Message)], statuses' \in [Ids -> Status \cup {"none"}],
           \A id \in Ids : id # sess[b].id =>
               messages'[id] = messages[id] /\ statuses'[id] = statuses[id],
           s.id = sess[b].id, s.box = sess[b].box, s.messages # <<>>,
           Last(s.messages).by = Last(sess[b].messages).by,
           r.pc # "idle", r.pc = "tools" => r.left > 0,
           r.pc \in {"last", "closed"} => r.then # "loop",
           s.status = "completed" =>
               r.then = "done" /\ r.pc \in {"count", "commit", "last", "closed"},
           r.pc = "closed" =>
               r.then = "done" \/ turn[b].failed \/ (o # <<>> /\ Last(o) = "error")
    PROVE  IInv'
<1>1. TypeOK /\ Starting /\ Asking /\ AnsweredOnce /\ Local(b)
  BY DEF IInv
<1>2. /\ bot[b] = "turn" /\ sess[b].box /\ sess[b].id <= started
      /\ Last(sess[b].messages).by = turn[b].prompt
  BY <1>1, TurnRuns DEF Local, Running
<1>3. /\ bot' = bot /\ updates' = updates /\ sent' = sent /\ asked' = asked
      /\ started' = started /\ trail' = trail /\ turn' = turn /\ chat' = chat
  BY DEF botVars
<1>4. sess'[b] = s /\ run'[b] = r /\ out'[b] = o
  BY <1>1 DEF TypeOK, RunTypeOK
<1>5. \A c \in Holders : c # b => sess'[c] = sess[c] /\ run'[c] = run[c] /\ out'[c] = out[c]
  BY <1>1 DEF TypeOK, RunTypeOK
<1>10. faults' \in 0..MaxFaults /\ (fault \/ UNCHANGED faults)
  BY Faults
<1>6. TypeOK'
  BY <1>1, <1>3, <1>10 DEF TypeOK, RunTypeOK
<1>7. Starting'
  <2>1. ASSUME NEW id \in Ids, id > started PROVE messages'[id] = <<>> /\ statuses'[id] = "none"
    <3>1. started \in Nat /\ id \in Nat /\ sess[b].id \in Nat
      <4>1. started \in 0..MaxSessions /\ sess[b].id \in 1..MaxSessions /\ MaxSessions \in Nat
        BY <1>1, TurnRuns, RunAssumption DEF TypeOK, Ids
      <4> QED
        BY <4>1 DEF Ids
    <3>2. id # sess[b].id
      BY <1>2, <2>1, <3>1
    <3> QED
      BY <1>1, <2>1, <3>2 DEF Starting
  <2>2. ASSUME NEW c \in Holders, sess'[c].box PROVE sess'[c].id <= started
    <3>1. CASE c = b
      BY <1>2, <1>4, <3>1
    <3>2. CASE c # b
      BY <1>1, <1>5, <2>2, <3>2 DEF Starting
    <3> QED
      BY <3>1, <3>2
  <2> QED
    BY <1>3, <2>1, <2>2 DEF Starting
<1>8. Asking' /\ AnsweredOnce'
  <2>1. Asking'
    BY <1>1, <1>3 DEF Asking, Waits, Has, Busy
  <2>2. AnsweredOnce'
    BY <1>3, AnswersKept
  <2> QED
    BY <2>1, <2>2
<1>9. ASSUME NEW c \in Holders PROVE Local(c)'
  <2>1. CASE c # b
    <3>1. Local(c)
      BY DEF IInv
    <3> QED
      BY <1>3, <1>5, <2>1, <3>1 DEF Local, Running, Completing, Showing, Reporting, Replying
  <2>2. CASE c = b
    <3>1. Running(b)'
      BY <1>2, <1>3, <1>4 DEF Running
    <3>2. Completing(b)' /\ Reporting(b)'
      BY <1>3, <1>4 DEF Completing, Reporting
    <3>3. Showing(b)' /\ Replying(b)'
      BY <1>1, <1>3 DEF Local, Showing, Replying
    <3> QED
      BY <2>2, <3>1, <3>2, <3>3 DEF Local
  <2> QED
    BY <2>1, <2>2
<1> QED
  BY <1>6, <1>7, <1>8, <1>9 DEF IInv

\* The turn fails: its status says so, and it saves.
LEMMA FailStep ==
    ASSUME IInv, NEW b \in Holders, run[b].pc # "idle", fail(b),
           UNCHANGED <<store, out, ctx, botVars>>, fault \/ UNCHANGED faults
    PROVE  IInv'
<1> DEFINE s == [sess[b] EXCEPT !.status = "failed"]
           r == [run[b] EXCEPT !.pc = "count", !.then = "failed"]
<1>1. sess[b] \in Session /\ run[b] \in Goroutine /\ sess[b].messages # <<>>
  BY TurnRuns
<1>2. sess' = [sess EXCEPT ![b] = s] /\ run' = [run EXCEPT ![b] = r]
  BY DEF fail, saves
<1>3. /\ s \in Session /\ s.messages = sess[b].messages /\ s.id = sess[b].id /\ s.box = sess[b].box
      /\ s.status = "failed"
  BY <1>1 DEF Session, Status
<1>4. r \in Goroutine /\ r.pc = "count" /\ r.then = "failed"
  BY <1>1 DEF Goroutine
<1> HIDE DEF s, r
<1>5. out' = [out EXCEPT ![b] = out[b]] /\ out[b] \in Seq(Events)
  BY DEF IInv, TypeOK, RunTypeOK
<1>6. messages' = messages /\ statuses' = statuses
  BY DEF store
<1>7. messages \in [Ids -> Seq(Message)] /\ statuses \in [Ids -> Status \cup {"none"}]
  BY DEF IInv, TypeOK, RunTypeOK
<1> QED
  BY <1>1, <1>2, <1>3, <1>4, <1>5, <1>6, <1>7, TurnStep

\* A goroutine that goes on, its session as it was.
LEMMA GoStep ==
    ASSUME IInv, NEW b \in Holders, run[b].pc # "idle", NEW r \in Goroutine,
           run' = [run EXCEPT ![b] = r], r.pc \in {"tools", "model", "commit", "last"},
           r.pc = "tools" => r.left > 0, r.pc = "last" => r.then # "loop",
           sess[b].status = "completed" => r.then = "done" /\ r.pc \in {"commit", "last"},
           UNCHANGED <<store, sess, out, ctx, botVars>>, fault \/ UNCHANGED faults
    PROVE  IInv'
<1>1. sess[b] \in Session /\ run[b] \in Goroutine /\ sess[b].messages # <<>> /\ out[b] \in Seq(Events)
  BY TurnRuns
<1>2. sess' = [sess EXCEPT ![b] = sess[b]] /\ out' = [out EXCEPT ![b] = out[b]]
  BY DEF IInv, TypeOK, RunTypeOK
<1>3. messages' = messages /\ statuses' = statuses
  BY DEF store
<1>4. messages \in [Ids -> Seq(Message)] /\ statuses \in [Ids -> Status \cup {"none"}]
  BY DEF IInv, TypeOK, RunTypeOK
<1>5. r.pc # "idle" /\ r.pc # "closed"
  OBVIOUS
<1> QED
  BY <1>1, <1>2, <1>3, <1>4, <1>5, TurnStep

\* A turn that is not on its way out is not marked completed.
LEMMA NotCompleted ==
    ASSUME IInv, NEW b \in Holders, run[b].pc # "idle",
           run[b].pc \notin {"count", "commit", "last", "closed"} \/ run[b].then # "done"
    PROVE  sess[b].status # "completed"
<1>1. bot[b] = "turn" /\ Completing(b)
  BY TurnRuns DEF IInv, Local
<1> QED
  BY <1>1 DEF Completing

\* The head of the loop.
LEMMA TopStep ==
    ASSUME IInv, NEW b \in Holders, top(b), UNCHANGED botVars
    PROVE  IInv'
<1> DEFINE last == Last(sess[b].messages)
<1>1. run[b].pc = "top" /\ UNCHANGED <<store, out, ctx, faults, botVars>>
  BY DEF top
<1>2. run[b].pc # "idle" /\ run[b] \in Goroutine /\ sess[b] \in Session /\ last \in Message
  BY <1>1, TurnRuns
<1>3. sess[b].status # "completed"
  BY <1>1, <1>2, NotCompleted
<1>4. CASE fail(b)
  BY <1>1, <1>2, <1>4, FailStep
<1>5. CASE /\ last.calls > 0 /\ UNCHANGED sess
           /\ run' = [run EXCEPT ![b].pc = "tools", ![b].left = last.calls]
  <2> DEFINE r == [run[b] EXCEPT !.pc = "tools", !.left = last.calls]
  <2>1. run' = [run EXCEPT ![b] = r]
    BY <1>5
  <2>2. last.calls \in 0..MaxCalls
    BY <1>2, MessageFields
  <2>3. r \in Goroutine /\ r.pc = "tools" /\ r.left = last.calls
    BY <1>2, <2>2 DEF Goroutine
  <2> HIDE DEF r, last
  <2> QED
    BY <1>1, <1>2, <1>3, <1>5, <2>1, <2>3, GoStep
<1>6. CASE sess' = [sess EXCEPT ![b].status = "completed"] /\ saves(b, "done")
  <2> DEFINE s == [sess[b] EXCEPT !.status = "completed"]
             r == [run[b] EXCEPT !.pc = "count", !.then = "done"]
  <2>1. sess' = [sess EXCEPT ![b] = s] /\ run' = [run EXCEPT ![b] = r]
    BY <1>6 DEF saves
  <2>2. /\ s \in Session /\ s.messages = sess[b].messages /\ s.id = sess[b].id
        /\ s.box = sess[b].box /\ s.status = "completed"
    BY <1>2 DEF Session, Status
  <2>3. r \in Goroutine /\ r.pc = "count" /\ r.then = "done"
    BY <1>2 DEF Goroutine
  <2> HIDE DEF s, r, last
  <2>4. out' = [out EXCEPT ![b] = out[b]] /\ out[b] \in Seq(Events)
    BY <1>1 DEF IInv, TypeOK, RunTypeOK
  <2>5. messages' = messages /\ statuses' = statuses
    BY <1>1 DEF store
  <2>6. messages \in [Ids -> Seq(Message)] /\ statuses \in [Ids -> Status \cup {"none"}]
    BY DEF IInv, TypeOK, RunTypeOK
  <2>7. sess[b].messages # <<>>
    BY <1>2, TurnRuns
  <2> QED
    BY <1>1, <1>2, <2>1, <2>2, <2>3, <2>4, <2>5, <2>6, <2>7, TurnStep
<1>7. CASE goto(b, "model") /\ UNCHANGED sess
  <2> DEFINE r == [run[b] EXCEPT !.pc = "model"]
  <2>1. run' = [run EXCEPT ![b] = r]
    BY <1>7 DEF goto
  <2>2. r \in Goroutine /\ r.pc = "model"
    BY <1>2 DEF Goroutine
  <2> HIDE DEF r, last
  <2> QED
    BY <1>1, <1>2, <1>3, <1>7, <2>1, <2>2, GoStep
<1> QED
  BY <1>4, <1>5, <1>6, <1>7 DEF top

\* What is sent on the channel joins what is there.
LEMMA Emits ==
    ASSUME IInv, NEW b \in Holders, NEW e \in Events, emit(b, e)
    PROVE  /\ out' = [out EXCEPT ![b] = Append(out[b], e)] /\ Append(out[b], e) \in Seq(Events)
           /\ Append(out[b], e) # <<>> /\ Last(Append(out[b], e)) = e
<1>1. out[b] \in Seq(Events)
  BY DEF IInv, TypeOK, RunTypeOK
<1>2. /\ Append(out[b], e) \in Seq(Events) /\ Len(Append(out[b], e)) = Len(out[b]) + 1
      /\ Append(out[b], e)[Len(out[b]) + 1] = e
  BY <1>1
<1>3. Len(Append(out[b], e)) # 0 /\ Len(<<>>) = 0
  BY <1>1, <1>2
<1>4. Append(out[b], e) # <<>>
  BY <1>3, Zenon
<1>5. Last(Append(out[b], e)) = Append(out[b], e)[Len(Append(out[b], e))]
  BY DEF Last
<1> QED
  BY <1>2, <1>4, <1>5 DEF emit

\* A message joins the session and is reported, and the turn goes on.
LEMMA AppendStep ==
    ASSUME IInv, NEW b \in Holders, run[b].pc # "idle", NEW m \in Message,
           m.by = Last(sess[b].messages).by, sess[b].status # "completed",
           sess' = [sess EXCEPT ![b].messages = Append(@, m)],
           NEW e \in Events, emit(b, e),
           NEW r \in Goroutine, run' = [run EXCEPT ![b] = r], r.pc \in {"tools", "count"},
           r.pc = "tools" => r.left > 0,
           UNCHANGED <<store, ctx, faults, botVars>>
    PROVE  IInv'
<1> DEFINE q == Append(sess[b].messages, m) s == [sess[b] EXCEPT !.messages = q]
           o == Append(out[b], e)
<1>1. sess[b] \in Session /\ sess[b].messages \in Seq(Message)
  BY TurnRuns
<1>2. q \in Seq(Message) /\ q # <<>> /\ Last(q) = m
  BY <1>1, Transcript
<1>3. sess' = [sess EXCEPT ![b] = s]
  OBVIOUS
<1> HIDE DEF q
<1>4. /\ s \in Session /\ s.messages = q /\ s.id = sess[b].id /\ s.box = sess[b].box
      /\ s.status = sess[b].status
  BY <1>1, <1>2 DEF Session
<1> HIDE DEF s
<1>5. out' = [out EXCEPT ![b] = o] /\ o \in Seq(Events)
  BY Emits
<1> HIDE DEF o
<1>6. messages' = messages /\ statuses' = statuses
  BY DEF store
<1>7. messages \in [Ids -> Seq(Message)] /\ statuses \in [Ids -> Status \cup {"none"}]
  BY DEF IInv, TypeOK, RunTypeOK
<1>8. r.pc # "idle" /\ r.pc # "closed" /\ r.pc # "last"
  OBVIOUS
<1> QED
  BY <1>1, <1>2, <1>3, <1>4, <1>5, <1>6, <1>7, <1>8, TurnStep

\* The model answers.
LEMMA AnswersStep ==
    ASSUME IInv, NEW b \in Holders, answers(b), UNCHANGED botVars
    PROVE  IInv'
<1>1. run[b].pc = "model" /\ run[b].pc # "idle" /\ saves(b, "loop") /\ UNCHANGED <<store, ctx, faults>>
  BY DEF answers
<1>2. PICK n \in 0..MaxCalls :
        /\ sess' = [sess EXCEPT ![b].messages = Append(@, assistant(n, Last(@).by))]
        /\ emit(b, IF n > 0 THEN "calls" ELSE "text")
  BY DEF answers
<1> DEFINE m == assistant(n, Last(sess[b].messages).by)
           r == [run[b] EXCEPT !.pc = "count", !.then = "loop"]
<1>3. m \in Message /\ m.by = Last(sess[b].messages).by /\ run[b] \in Goroutine
  BY <1>1, Messages, TurnRuns
<1>4. run' = [run EXCEPT ![b] = r]
  BY <1>1 DEF saves
<1>5. r \in Goroutine /\ r.pc = "count"
  BY <1>3 DEF Goroutine
<1>6. sess' = [sess EXCEPT ![b].messages = Append(@, m)]
  BY <1>2
<1>7. PICK e \in Events : emit(b, e)
  BY <1>2 DEF Events
<1>8. sess[b].status # "completed"
  BY <1>1, NotCompleted
<1> HIDE DEF m, r
<1> QED
  BY <1>1, <1>3, <1>4, <1>5, <1>6, <1>7, <1>8, AppendStep

\* A tool has run.
LEMMA DispatchStep ==
    ASSUME IInv, NEW b \in Holders, dispatch(b), UNCHANGED botVars
    PROVE  IInv'
<1>1. /\ run[b].pc = "tools" /\ run[b].pc # "idle" /\ UNCHANGED <<store, ctx, faults>>
      /\ sess' = [sess EXCEPT ![b].messages = Append(@, toolResultMsg(Last(@).by))]
      /\ emit(b, "result")
  BY DEF dispatch
<1> DEFINE m == toolResultMsg(Last(sess[b].messages).by)
           l == run[b].left - 1
           k == IF run[b].left = 1 THEN "count" ELSE "tools"
           r == [run[b] EXCEPT !.left = l, !.pc = k, !.then = "loop"]
<1>2. m \in Message /\ m.by = Last(sess[b].messages).by /\ run[b] \in Goroutine
  BY <1>1, Messages, TurnRuns
<1>3. run' = [run EXCEPT ![b] = r]
  BY <1>1 DEF dispatch
<1>4. l \in 0..MaxCalls /\ k \in {"tools", "count"} /\ (k = "tools" => l > 0)
  <2>1. run[b].left \in 0..MaxCalls /\ run[b].left > 0 /\ MaxCalls \in Nat
    BY <1>1, <1>2, RunAssumption DEF Goroutine, IInv, Local, Running
  <2> QED
    BY <2>1
<1> HIDE DEF l, k
<1>5. r \in Goroutine /\ r.pc = k /\ r.left = l
  BY <1>2, <1>4 DEF Goroutine
<1>6. sess' = [sess EXCEPT ![b].messages = Append(@, m)]
  BY <1>1
<1>7. sess[b].status # "completed" /\ "result" \in Events
  BY <1>1, NotCompleted DEF Events
<1> HIDE DEF m, r
<1> QED
  BY <1>1, <1>2, <1>3, <1>4, <1>5, <1>6, <1>7, AppendStep

\* The turn is over, and its channel closed.
LEMMA LastEventStep ==
    ASSUME IInv, NEW b \in Holders, lastEvent(b), UNCHANGED botVars
    PROVE  IInv'
<1> DEFINE e == IF run[b].then = "done" THEN "done" ELSE "error"
           r == [run[b] EXCEPT !.pc = "closed"] o == Append(out[b], e)
<1>1. /\ run[b].pc = "last" /\ run[b].pc # "idle" /\ UNCHANGED <<store, sess, ctx, faults>>
      /\ emit(b, e) /\ run' = [run EXCEPT ![b] = r]
  BY DEF lastEvent, goto
<1>2. run[b] \in Goroutine /\ sess[b] \in Session /\ sess[b].messages # <<>>
  BY <1>1, TurnRuns
<1>3. r \in Goroutine /\ r.pc = "closed" /\ r.then = run[b].then
  BY <1>2 DEF Goroutine
<1>4. e \in Events /\ (e = "error" \/ run[b].then = "done")
  BY DEF Events
<1> HIDE DEF e, r
<1>5. out' = [out EXCEPT ![b] = o] /\ o \in Seq(Events) /\ o # <<>> /\ Last(o) = e
  BY <1>1, <1>4, Emits
<1> HIDE DEF o
<1>6. run[b].then # "loop" /\ (sess[b].status = "completed" => run[b].then = "done")
  BY <1>1, NotCompleted DEF IInv, Local, Running
<1>7. sess' = [sess EXCEPT ![b] = sess[b]] /\ messages' = messages /\ statuses' = statuses
  BY <1>1 DEF store, IInv, TypeOK, RunTypeOK
<1>8. messages \in [Ids -> Seq(Message)] /\ statuses \in [Ids -> Status \cup {"none"}]
  BY DEF IInv, TypeOK, RunTypeOK
<1> QED
  BY <1>1, <1>2, <1>3, <1>4, <1>5, <1>6, <1>7, <1>8, TurnStep

\* A Save that did not work.
LEMMA SaveErrorStep ==
    ASSUME IInv, NEW b \in Holders, run[b].pc \in {"count", "commit"}, saveError(b),
           UNCHANGED <<store, out, ctx, botVars>>, fault \/ UNCHANGED faults
    PROVE  IInv'
<1>1. run[b].pc # "idle" /\ run[b] \in Goroutine
  BY TurnRuns
<1>2. CASE fail(b)
  BY <1>1, <1>2, FailStep
<1>3. CASE run[b].then # "loop" /\ goto(b, "last") /\ UNCHANGED sess
  <2> DEFINE r == [run[b] EXCEPT !.pc = "last"]
  <2>1. run' = [run EXCEPT ![b] = r]
    BY <1>3 DEF goto
  <2>2. r \in Goroutine /\ r.pc = "last" /\ r.then = run[b].then
    BY <1>1 DEF Goroutine
  <2>3. sess[b].status = "completed" => run[b].then = "done"
    BY <1>1, NotCompleted
  <2> HIDE DEF r
  <2> QED
    BY <1>1, <1>3, <2>1, <2>2, <2>3, GoStep
<1> QED
  BY <1>2, <1>3 DEF saveError

\* The messages of the session are counted.
LEMMA StoredCountStep ==
    ASSUME IInv, NEW b \in Holders, storedCount(b), UNCHANGED botVars
    PROVE  IInv'
<1> DEFINE l == Len(messages[sess[b].id]) r == [run[b] EXCEPT !.pc = "commit", !.stored = l]
<1>1. /\ run[b].pc = "count" /\ run[b].pc # "idle" /\ UNCHANGED <<store, sess, out, ctx, faults>>
      /\ run' = [run EXCEPT ![b] = r]
  BY DEF storedCount
<1>2. run[b] \in Goroutine /\ l \in Nat
  <2>1. messages[sess[b].id] \in Seq(Message)
    BY <1>1, TurnRuns DEF IInv, TypeOK, RunTypeOK
  <2> QED
    BY <1>1, <2>1, TurnRuns
<1> HIDE DEF l
<1>3. r \in Goroutine /\ r.pc = "commit" /\ r.then = run[b].then
  BY <1>2 DEF Goroutine
<1>4. sess[b].status = "completed" => run[b].then = "done"
  BY <1>1, NotCompleted
<1> HIDE DEF r
<1> QED
  BY <1>1, <1>3, <1>4, GoStep

\* What a Save writes is messages of the session.
LEMMA AppendedType ==
    ASSUME IInv, NEW b \in Holders, run[b].pc # "idle"
    PROVE  appended(b) \in Seq(Message)
<1>1. sess[b].messages \in Seq(Message) /\ run[b].stored \in Nat
  BY TurnRuns DEF Goroutine
<1> QED
  BY <1>1 DEF appended

\* The transaction of a Save.
LEMMA CommitStep ==
    ASSUME IInv, NEW b \in Holders, commit(b), UNCHANGED botVars
    PROVE  IInv'
<1> DEFINE id == sess[b].id k == IF run[b].then = "loop" THEN "top" ELSE "last"
           r == [run[b] EXCEPT !.pc = k, !.stored = 0]
<1>1. /\ run[b].pc = "commit" /\ run[b].pc # "idle" /\ UNCHANGED <<sess, out, ctx, faults>>
      /\ messages' = [messages EXCEPT ![id] = messages[id] \o appended(b)]
      /\ statuses' = [statuses EXCEPT ![id] = sess[b].status]
      /\ run' = [run EXCEPT ![b] = r]
  BY DEF commit
<1>2. run[b] \in Goroutine /\ sess[b] \in Session /\ sess[b].messages # <<>> /\ id \in Ids
  BY <1>1, TurnRuns
<1>3. sess[b].status \in Status
  BY <1>2 DEF Session
<1>4. k \in {"top", "last"} /\ (k = "last" <=> run[b].then # "loop")
  OBVIOUS
<1> HIDE DEF k, id
<1>5. r \in Goroutine /\ r.pc = k /\ r.then = run[b].then
  BY <1>2, <1>4 DEF Goroutine
<1>6. messages \in [Ids -> Seq(Message)] /\ statuses \in [Ids -> Status \cup {"none"}]
  BY DEF IInv, TypeOK, RunTypeOK
<1>7. /\ messages' \in [Ids -> Seq(Message)] /\ statuses' \in [Ids -> Status \cup {"none"}]
      /\ \A i \in Ids : i # id => messages'[i] = messages[i] /\ statuses'[i] = statuses[i]
  <2>1. appended(b) \in Seq(Message) /\ messages[id] \in Seq(Message)
    BY <1>1, <1>2, <1>6, AppendedType
  <2>2. messages[id] \o appended(b) \in Seq(Message)
    BY <2>1
  <2> QED
    BY <1>1, <1>2, <1>3, <1>6, <2>2
<1>8. sess' = [sess EXCEPT ![b] = sess[b]] /\ out' = [out EXCEPT ![b] = out[b]] /\ out[b] \in Seq(Events)
  BY <1>1 DEF IInv, TypeOK, RunTypeOK
<1>9. sess[b].status = "completed" => run[b].then = "done"
  BY <1>1, NotCompleted
<1>10. /\ r.pc # "idle" /\ r.pc # "tools" /\ r.pc # "closed"
       /\ r.pc \in {"last", "closed"} => r.then # "loop"
       /\ sess[b].status = "completed" => r.then = "done" /\ r.pc \in {"count", "commit", "last", "closed"}
  BY <1>4, <1>5, <1>9
<1>11. \A i \in Ids : i # sess[b].id => messages'[i] = messages[i] /\ statuses'[i] = statuses[i]
  BY <1>7 DEF id
<1>12. /\ run[b].pc # "idle" /\ UNCHANGED <<ctx, botVars>> /\ run' = [run EXCEPT ![b] = r]
       /\ sess[b] \in Session /\ sess[b].messages # <<>> /\ UNCHANGED faults
       /\ messages' \in [Ids -> Seq(Message)] /\ statuses' \in [Ids -> Status \cup {"none"}]
       /\ r \in Goroutine
  BY <1>1, <1>2, <1>5, <1>7, <1>9
<1> HIDE DEF r
<1> QED
  BY <1>8, <1>10, <1>11, <1>12, TurnStep

\* The steps of a turn.
LEMMA TurnKeeps ==
    ASSUME IInv, NEW b \in Holders, Turn(b), UNCHANGED botVars
    PROVE  IInv'
<1>1. CASE answerFails(b)
  <2>1. run[b].pc # "idle" /\ fail(b) /\ UNCHANGED <<store, out, ctx, faults>>
    BY <1>1 DEF answerFails
  <2> QED
    BY <2>1, FailStep
<1>2. CASE saveRefused(b)
  BY <1>2, SaveErrorStep DEF saveRefused
<1>3. CASE rollback(b)
  BY <1>3, SaveErrorStep DEF rollback
<1> QED
  BY <1>1, <1>2, <1>3, TopStep, AnswersStep, DispatchStep, LastEventStep, StoredCountStep,
     CommitStep DEF Turn

-----------------------------------------------------------------------------
(* Prompts *)

\* An update that is a prompt.
LEMMA PromptUpdate ==
    ASSUME NEW u \in Updates, u.kind = "prompt"
    PROVE  u.arg \in Prompts /\ u = [kind |-> "prompt", arg |-> u.arg]
  BY DEF Updates

\* The first update of a queue, and what is left when it is taken.
LEMMA Taken ==
    ASSUME NEW q \in Seq(Updates), q # <<>>
    PROVE  /\ Head(q) \in Updates /\ Head(q) = q[1] /\ 1 \in DOMAIN q /\ Tail(q) \in Seq(Updates)
           /\ \A i \in DOMAIN Tail(q) : i \in Nat \ {0} /\ i + 1 \in DOMAIN q /\ Tail(q)[i] = q[i + 1]
  OBVIOUS

\* Queues that lose what is in front, by some number of updates each, keep their
\* prompts apart, if a bot takes in hand what it had or one that its queue lost.
LEMMA AskingKept ==
    ASSUME IInv, NEW d \in [Holders -> Nat], asked' = asked,
           \A c \in Holders, p \in Prompts : \A i \in DOMAIN updates'[c] :
               Waits(c, i, p)' => /\ i \in Nat \ {0} /\ i + d[c] \in DOMAIN updates[c]
                                  /\ Waits(c, i + d[c], p) /\ chat'[p] = chat[p],
           \A c \in Holders, p \in Prompts :
               Has(c, p)' => \/ Has(c, p)
                             \/ \E i \in DOMAIN updates[c] : i \in 1..d[c] /\ Waits(c, i, p),
           \A p \in Prompts : p > asked => chat'[p] = <<>>
    PROVE  Asking'
<1>1. Asking
  BY DEF IInv
<1>2. ASSUME NEW c \in Holders, NEW p \in Prompts, NEW i \in DOMAIN updates'[c], Waits(c, i, p)'
      PROVE  /\ p <= asked /\ chat'[p] = <<>>
             /\ \A h \in Holders : /\ ~Has(h, p)'
                                   /\ \A j \in DOMAIN updates'[h] : Waits(h, j, p)' => c = h /\ i = j
  <2>1. /\ i \in Nat \ {0} /\ i + d[c] \in DOMAIN updates[c] /\ Waits(c, i + d[c], p)
        /\ chat'[p] = chat[p] /\ d[c] \in Nat
    BY <1>2
  <2>2. /\ p <= asked /\ chat[p] = <<>>
        /\ \A h \in Holders :
             /\ ~Has(h, p)
             /\ \A j \in DOMAIN updates[h] : Waits(h, j, p) => c = h /\ i + d[c] = j
    BY <1>1, <2>1 DEF Asking
  <2>3. ASSUME NEW h \in Holders, Has(h, p)' PROVE FALSE
    <3>1. PICK j \in DOMAIN updates[h] : j \in 1..d[h] /\ Waits(h, j, p)
      BY <2>2, <2>3
    <3>2. c = h /\ i + d[c] = j
      BY <2>2, <3>1
    <3> QED
      BY <2>1, <3>1, <3>2
  <2>4. ASSUME NEW h \in Holders, NEW j \in DOMAIN updates'[h], Waits(h, j, p)'
        PROVE  c = h /\ i = j
    <3>1. j \in Nat \ {0} /\ j + d[h] \in DOMAIN updates[h] /\ Waits(h, j + d[h], p)
      BY <2>4
    <3>2. c = h /\ i + d[c] = j + d[h]
      BY <2>2, <3>1
    <3> QED
      BY <2>1, <3>1, <3>2
  <2> QED
    BY <2>1, <2>2, <2>3, <2>4
<1>3. ASSUME NEW c \in Holders, NEW p \in Prompts, Has(c, p)'
      PROVE  p <= asked /\ \A h \in Holders : Has(h, p)' => c = h
  <2>1. Has(c, p) \/ \E i \in DOMAIN updates[c] : Waits(c, i, p)
    BY <1>3
  <2>2. p <= asked
    BY <1>1, <2>1 DEF Asking
  <2>3. ASSUME NEW h \in Holders, Has(h, p)' PROVE c = h
    <3>1. Has(h, p) \/ \E i \in DOMAIN updates[h] : Waits(h, i, p)
      BY <2>3
    <3> QED
      BY <1>1, <2>1, <3>1 DEF Asking
  <2> QED
    BY <2>1, <2>2, <2>3
<1> QED
  BY <1>2, <1>3 DEF Asking

\* The numbers in the state.
LEMMA Numbers ==
    ASSUME IInv
    PROVE  /\ MaxSessions \in Nat /\ MaxPrompts \in Nat \ {0} /\ MaxFaults \in Nat /\ MaxUpdates \in Nat
           /\ started \in 0..MaxSessions /\ asked \in 0..MaxPrompts /\ sent \in 0..MaxUpdates
           /\ \A id \in Ids : id \in Nat /\ 1 <= id /\ id <= MaxSessions
           /\ \A p \in Prompts : p \in Nat /\ 1 <= p /\ p <= MaxPrompts
  BY RunAssumption, BotAssumption DEF IInv, TypeOK, Ids, Prompts

\* What one bot does without the store leaves the others as they were.
LEMMA BotStep ==
    ASSUME IInv, NEW b \in Holders, TypeOK', Asking', AnsweredOnce', Local(b)',
           messages' = messages, statuses' = statuses, started <= started',
           sess'[b].box => sess'[b].id <= started',
           \A c \in Holders : c # b =>
               /\ bot'[c] = bot[c] /\ sess'[c] = sess[c] /\ run'[c] = run[c] /\ out'[c] = out[c]
               /\ trail'[c] = trail[c] /\ turn'[c] = turn[c]
               /\ Busy(c) => chat'[turn[c].prompt] = chat[turn[c].prompt]
    PROVE  IInv'
<1>1. started \in Nat /\ started' \in Nat /\ Starting
  <2>1. started \in 0..MaxSessions /\ started' \in 0..MaxSessions /\ MaxSessions \in Nat
    BY RunAssumption DEF IInv, TypeOK
  <2> QED
    BY <2>1 DEF IInv
<1>2. Starting'
  <2>1. ASSUME NEW id \in Ids, id > started' PROVE messages[id] = <<>> /\ statuses[id] = "none"
    <3>1. id > started
      BY <1>1, <2>1, Numbers
    <3> QED
      BY <1>1, <3>1 DEF Starting
  <2>2. ASSUME NEW c \in Holders, sess'[c].box PROVE sess'[c].id <= started'
    <3>1. CASE c = b
      BY <2>2, <3>1
    <3>2. CASE c # b
      <4>1. sess'[c] = sess[c] /\ sess[c].id <= started
        BY <1>1, <2>2, <3>2 DEF Starting
      <4>2. sess[c].id \in Nat
        <5>1. sess[c] \in Session
          BY DEF IInv, TypeOK, RunTypeOK
        <5>2. sess[c].id \in Ids
          BY <5>1 DEF Session
        <5> QED
          BY <5>2, Numbers
      <4> QED
        BY <1>1, <4>1, <4>2
    <3> QED
      BY <3>1, <3>2
  <2> QED
    BY <2>1, <2>2 DEF Starting
<1>3. ASSUME NEW c \in Holders PROVE Local(c)'
  <2>1. CASE c # b
    <3>1. Local(c)
      BY DEF IInv
    <3> QED
      BY <2>1, <3>1 DEF Local, Running, Completing, Showing, Reporting, Replying, Busy
  <2> QED
    BY <2>1
<1> QED
  BY <1>2, <1>3 DEF IInv

\* The prompts when a bot takes its first update, or none, and what its queue keeps of the rest.
LEMMA UpdatesTaken ==
    ASSUME IInv, NEW b \in Holders, updates[b] # <<>>,
           updates' = [updates EXCEPT ![b] = Tail(updates[b])]
    PROVE  /\ updates' \in [Holders -> Seq(Updates)]
           /\ Head(updates[b]) \in Updates /\ Head(updates[b]) = updates[b][1] /\ 1 \in DOMAIN updates[b]
           /\ \A p \in Prompts : Head(updates[b]) = [kind |-> "prompt", arg |-> p] => Waits(b, 1, p)
           /\ \A c \in Holders, p \in Prompts : \A i \in DOMAIN updates'[c] : Waits(c, i, p)' =>
                 LET d == IF c = b THEN 1 ELSE 0
                 IN /\ i \in Nat \ {0} /\ i + d \in DOMAIN updates[c] /\ Waits(c, i + d, p)
<1>1. updates \in [Holders -> Seq(Updates)] /\ updates[b] \in Seq(Updates)
  BY DEF IInv, TypeOK
<1>2. /\ Head(updates[b]) \in Updates /\ Head(updates[b]) = updates[b][1] /\ 1 \in DOMAIN updates[b]
      /\ Tail(updates[b]) \in Seq(Updates)
      /\ \A i \in DOMAIN Tail(updates[b]) : /\ i \in Nat \ {0} /\ i + 1 \in DOMAIN updates[b]
                                            /\ Tail(updates[b])[i] = updates[b][i + 1]
  BY <1>1, Taken
<1>3. updates'[b] = Tail(updates[b]) /\ \A c \in Holders : c # b => updates'[c] = updates[c]
  BY <1>1
<1>4. ASSUME NEW c \in Holders, NEW p \in Prompts, NEW i \in DOMAIN updates'[c], Waits(c, i, p)',
             NEW d, d = IF c = b THEN 1 ELSE 0
      PROVE  i \in Nat \ {0} /\ i + d \in DOMAIN updates[c] /\ Waits(c, i + d, p)
  <2>1. CASE c = b
    <3>1. i \in DOMAIN Tail(updates[b]) /\ d = 1
      BY <1>3, <1>4, <2>1
    <3>2. /\ i \in Nat \ {0} /\ i + 1 \in DOMAIN updates[b]
          /\ Tail(updates[b])[i] = updates[b][i + 1]
      BY <1>2, <3>1
    <3>3. Tail(updates[b])[i] = [kind |-> "prompt", arg |-> p]
      BY <1>3, <1>4, <2>1 DEF Waits
    <3> QED
      BY <2>1, <3>1, <3>2, <3>3 DEF Waits
  <2>2. CASE c # b
    <3>1. i \in DOMAIN updates[c] /\ Waits(c, i, p) /\ d = 0
      BY <1>3, <1>4, <2>2 DEF Waits
    <3>2. updates[c] \in Seq(Updates)
      BY <1>1
    <3>3. i \in Nat \ {0} /\ i + 0 = i
      BY <3>1, <3>2
    <3> QED
      BY <3>1, <3>3
  <2> QED
    BY <2>1, <2>2
<1>5. updates' \in [Holders -> Seq(Updates)]
  BY <1>1, <1>2
<1> QED
  BY <1>2, <1>4, <1>5 DEF Waits

\* A bot takes an update and nothing is said, nor is a prompt in another hand.
LEMMA AskingTaken ==
    ASSUME IInv, NEW b \in Holders, updates[b] # <<>>,
           updates' = [updates EXCEPT ![b] = Tail(updates[b])],
           UNCHANGED <<bot, asked, turn, chat>>
    PROVE  Asking'
<1> DEFINE d == [c \in Holders |-> IF c = b THEN 1 ELSE 0]
<1>1. d \in [Holders -> Nat]
  OBVIOUS
<1>2. \A c \in Holders, p \in Prompts : \A i \in DOMAIN updates'[c] : Waits(c, i, p)' =>
         /\ i \in Nat \ {0} /\ i + d[c] \in DOMAIN updates[c] /\ Waits(c, i + d[c], p)
         /\ chat'[p] = chat[p]
  BY UpdatesTaken
<1>3. \A c \in Holders, p \in Prompts : Has(c, p)' => Has(c, p)
  BY DEF Has, Busy
<1>4. \A p \in Prompts : p > asked => chat'[p] = <<>>
  BY DEF IInv, Asking
<1> HIDE DEF d
<1> QED
  BY <1>1, <1>2, <1>3, <1>4, AskingKept

\* An update that is left changes nothing else.
LEMMA LeavesStep ==
    ASSUME IInv, NEW b \in Holders, leaves(b)
    PROVE  IInv'
<1>1. /\ updates[b] # <<>> /\ updates' = [updates EXCEPT ![b] = Tail(updates[b])]
      /\ UNCHANGED <<messages, statuses, sess, run, out, ctx, faults>>
      /\ UNCHANGED <<bot, sent, asked, started, trail, turn, chat>>
  BY DEF leaves, takes, runVars
<1>2. TypeOK'
  BY <1>1, UpdatesTaken DEF IInv, TypeOK, RunTypeOK
<1>3. Asking'
  BY <1>1, AskingTaken
<1>4. AnsweredOnce' /\ Local(b)'
  BY <1>1, AnswersKept DEF IInv, Local, Running, Completing, Showing, Reporting, Replying
<1>5. started <= started' /\ (sess'[b].box => sess'[b].id <= started')
  BY <1>1, Numbers DEF IInv, Starting
<1> QED
  BY <1>1, <1>2, <1>3, <1>4, <1>5, BotStep

\* A session that is new, one that is resumed, and one that is closed.
LEMMA Sessions ==
    ASSUME IInv, NEW id \in Ids
    PROVE  /\ NewSession(id) \in Session /\ NewSession(id).id = id /\ NewSession(id).messages = <<>>
           /\ NewSession(id).box = TRUE
           /\ NoSession \in Session /\ NoSession.box = FALSE
           /\ statuses[id] # "none" => /\ Resumed(id) \in Session /\ Resumed(id).id = id
                                       /\ Resumed(id).messages = messages[id] /\ Resumed(id).box = TRUE
<1>1. messages[id] \in Seq(Message) /\ statuses[id] \in Status \cup {"none"}
  BY DEF IInv, TypeOK, RunTypeOK
<1>2. 1 \in Ids
  BY RunAssumption DEF Ids
<1>3. NoSession \in Session /\ NoSession.box = FALSE /\ NoSession.messages = <<>>
  BY <1>2 DEF NoSession, Session, Status
<1>4. /\ NewSession(id) \in Session /\ NewSession(id).id = id /\ NewSession(id).messages = <<>>
      /\ NewSession(id).box = TRUE
  <2> DEFINE s == [NoSession EXCEPT !.id = id]
  <2>1. s \in Session /\ s.id = id /\ s.messages = <<>>
    BY <1>3 DEF Session
  <2>2. NewSession(id) = [s EXCEPT !.box = TRUE]
    BY DEF NewSession, Bind
  <2> HIDE DEF s
  <2> QED
    BY <2>1, <2>2 DEF Session
<1>5. ASSUME statuses[id] # "none"
      PROVE  /\ Resumed(id) \in Session /\ Resumed(id).id = id
             /\ Resumed(id).messages = messages[id] /\ Resumed(id).box = TRUE
  BY <1>1, <1>5 DEF Resumed, Bind, Load, Session
<1> QED
  BY <1>3, <1>4, <1>5

\* A session that is prompted.
LEMMA Prompted ==
    ASSUME NEW s \in Session, NEW p \in Prompts
    PROVE  /\ prompted(s, p) \in Session /\ prompted(s, p).id = s.id /\ prompted(s, p).box = s.box
           /\ prompted(s, p).messages = Append(s.messages, user(p)) /\ prompted(s, p).status = "active"
           /\ prompted(s, p).messages # <<>> /\ Last(prompted(s, p).messages) = user(p)
<1> DEFINE q == Append(s.messages, user(p))
<1>1. q \in Seq(Message) /\ q # <<>> /\ Last(q) = user(p)
  <2>1. s.messages \in Seq(Message) /\ user(p) \in Message
    BY Messages DEF Session
  <2> QED
    BY <2>1, Transcript
<1>2. prompted(s, p) = [s EXCEPT !.messages = q, !.status = "active"]
  BY DEF prompted
<1> HIDE DEF q
<1>3. /\ prompted(s, p) \in Session /\ prompted(s, p).id = s.id /\ prompted(s, p).box = s.box
      /\ prompted(s, p).messages = q /\ prompted(s, p).status = "active"
  BY <1>1, <1>2 DEF Session, Status
<1> QED
  BY <1>1, <1>3 DEF q

\* A bot that starts or resumes a session holds one that was started.
LEMMA Holding ==
    ASSUME IInv, NEW b \in Holders,
           startSession(b) \/ \E id \in Ids : resumeSession(b, id)
    PROVE  \E s \in Session :
              /\ sess' = [sess EXCEPT ![b] = s] /\ s.box = TRUE /\ s.id <= started'
              /\ started' \in 0..MaxSessions /\ started <= started'
<1>1. CASE startSession(b)
  <2>1. started + 1 \in Ids /\ started' = started + 1 /\ sess' = [sess EXCEPT ![b] = NewSession(started + 1)]
    BY <1>1, Numbers DEF startSession, holds, Ids
  <2>2. started' \in 0..MaxSessions /\ started <= started' /\ started + 1 <= started'
    BY <1>1, <2>1, Numbers DEF startSession
  <2> QED
    BY <2>1, <2>2, Sessions
<1>2. ASSUME NEW id \in Ids, resumeSession(b, id)
      PROVE  \E s \in Session :
                /\ sess' = [sess EXCEPT ![b] = s] /\ s.box = TRUE /\ s.id <= started'
                /\ started' \in 0..MaxSessions /\ started <= started'
  <2>1. statuses[id] # "none" /\ started' = started /\ sess' = [sess EXCEPT ![b] = Resumed(id)]
    BY <1>2 DEF resumeSession, holds
  <2>2. ~(id > started)
    BY <2>1 DEF IInv, Starting
  <2>3. id <= started /\ started <= started
    BY <2>2, Numbers
  <2>4. Resumed(id) \in Session /\ Resumed(id).id = id /\ Resumed(id).box = TRUE
    BY <2>1, Sessions
  <2>5. started' \in 0..MaxSessions
    BY <2>1, Numbers
  <2> QED
    BY <2>1, <2>3, <2>4, <2>5
<1> QED
  BY <1>1, <1>2

\* A command that another session comes of.
LEMMA HandleCommandStep ==
    ASSUME IInv, NEW b \in Holders, handleCommand(b)
    PROVE  IInv'
<1>1. /\ updates[b] # <<>> /\ updates' = [updates EXCEPT ![b] = Tail(updates[b])]
      /\ bot[b] = "idle" /\ Head(updates[b]).kind \in {"new", "resume"}
      /\ UNCHANGED <<messages, statuses, run, out, ctx, faults>>
      /\ UNCHANGED <<bot, sent, asked, trail, turn, chat>>
  BY DEF handleCommand, takes, store
<1>2. startSession(b) \/ \E id \in Ids : resumeSession(b, id)
  <2>1. Head(updates[b]) \in Updates
    BY <1>1, UpdatesTaken
  <2>2. Head(updates[b]).kind # "new" => Head(updates[b]).arg \in Ids
    BY <1>1, <2>1 DEF Updates
  <2> QED
    BY <2>2 DEF handleCommand
<1>3. PICK s \in Session :
         /\ sess' = [sess EXCEPT ![b] = s] /\ s.box = TRUE /\ s.id <= started'
         /\ started' \in 0..MaxSessions /\ started <= started'
  BY <1>2, Holding
<1>4. TypeOK'
  BY <1>1, <1>3, UpdatesTaken DEF IInv, TypeOK, RunTypeOK
<1>5. Asking'
  BY <1>1, AskingTaken
<1>6. sess'[b] = s /\ \A c \in Holders : c # b => sess'[c] = sess[c]
  BY <1>3 DEF IInv, TypeOK, RunTypeOK
<1>7. Local(b)'
  BY <1>1, <1>3, <1>6 DEF IInv, Local, Running, Completing, Showing, Reporting, Replying
<1>8. AnsweredOnce'
  BY <1>1, AnswersKept
<1> QED
  BY <1>1, <1>3, <1>4, <1>5, <1>6, <1>7, <1>8, BotStep

-----------------------------------------------------------------------------
(* The trail *)

\* What may come of a send.
How == {"ok", "failed", "unanswered"}
LEMMA Outcomes ==
    ASSUME NEW b, NEW t
    PROVE  outcomes(b, t) \subseteq How
  BY DEF outcomes, How

\* A message is posted on its own when none is known.
LEMMA Posted ==
    ASSUME NEW t, Whole(t), t.id = 0, NEW how \in How
    PROVE  Whole(post(t, how)) /\ post(t, how).behind = t.behind
<1> DEFINE i == IF how = "ok" THEN 1 ELSE t.id
           n == IF how = "failed" THEN t.posted ELSE t.posted + 1
           u == IF how = "unanswered" THEN t.unsure + 1 ELSE t.unsure
<1>1. t \in Trail /\ t.posted = t.unsure /\ t.posted \in Nat /\ t.unsure \in Nat
  BY DEF Whole, Trail
<1>2. post(t, how) = [t EXCEPT !.id = i, !.posted = n, !.unsure = u]
  BY DEF post
<1>3. CASE how = "failed"
  <2>1. post(t, how) = t
    BY <1>1, <1>3 DEF post, Trail
  <2> QED
    BY <2>1
<1>4. CASE how = "ok"
  <2>1. i \in 0..1 /\ n \in Nat /\ u \in Nat /\ n = i + u
    BY <1>1, <1>4
  <2> HIDE DEF i, n, u
  <2> QED
    BY <1>1, <1>2, <2>1 DEF Whole, Trail
<1>5. CASE how = "unanswered"
  <2>1. i = 0 /\ i \in 0..1 /\ n \in Nat /\ u \in Nat /\ n = u
    BY <1>1, <1>5
  <2>2. n = i + u
    BY <2>1
  <2> HIDE DEF i, n, u
  <2> QED
    BY <1>1, <1>2, <2>1, <2>2 DEF Whole, Trail
<1> QED
  BY <1>3, <1>4, <1>5 DEF How

\* A trail that is started, gets a line, or is shown.
LEMMA TrailFields ==
    /\ Whole(NoTrail) /\ NoTrail.id = 0
    /\ \A how \in How : Whole(Start(NoTrail, how))
    /\ \A t : Whole(t) => /\ Whole(line(t))
                         /\ \A gap : \A how \in How : /\ Whole(flush(t, FALSE, gap, how))
                                                     /\ Whole(flush(t, TRUE, gap, how))
                                                     /\ ~flush(t, TRUE, gap, how).behind
<1>1. Whole(NoTrail) /\ NoTrail.id = 0
  BY DEF Whole, NoTrail, Trail
<1>2. ASSUME NEW how \in How PROVE Whole(Start(NoTrail, how))
  BY <1>1, Posted DEF Start
<1>3. ASSUME NEW t, Whole(t) PROVE Whole(line(t))
  BY <1>3 DEF Whole, line, Trail
<1>4. ASSUME NEW t, Whole(t), NEW gap, NEW how \in How
      PROVE  /\ Whole(flush(t, FALSE, gap, how)) /\ Whole(flush(t, TRUE, gap, how))
             /\ ~flush(t, TRUE, gap, how).behind
  <2> DEFINE shown == IF t.id = 0 THEN post(t, how) ELSE t
  <2>1. Whole(shown)
    BY <1>4, Posted
  <2>2. shows(t, how) = [shown EXCEPT !.behind = FALSE]
    BY DEF shows
  <2> HIDE DEF shown
  <2>3. Whole(shows(t, how)) /\ ~shows(t, how).behind
    BY <2>1, <2>2 DEF Whole, Trail
  <2> QED
    BY <1>4, <2>3 DEF flush
<1> QED
  BY <1>1, <1>2, <1>3, <1>4

-----------------------------------------------------------------------------
(* Turns *)

\* A message joins those that were sent to its prompt.
LEMMA Sends ==
    ASSUME IInv, NEW b \in Holders, NEW p \in Prompts, NEW r \in Replies, NEW n \in Nat,
           send(b, p, r, n)
    PROVE  /\ \E m \in Sent : m.reply = r /\ m.part = n /\ chat'[p] = Append(chat[p], m)
           /\ \A q \in Prompts : q # p => chat'[q] = chat[q]
           /\ chat' \in [Prompts -> Seq(Sent)] /\ (fault \/ UNCHANGED faults)
<1>1. PICK came \in BOOLEAN :
         chat' = [chat EXCEPT ![p] = Append(@, [reply |-> r, part |-> n, came |-> came])]
  BY DEF send
<1> DEFINE m == [reply |-> r, part |-> n, came |-> came]
<1>2. m \in Sent /\ m.reply = r /\ m.part = n
  BY DEF Sent
<1>3. chat' = [chat EXCEPT ![p] = Append(chat[p], m)]
  BY <1>1
<1> HIDE DEF m
<1>4. chat \in [Prompts -> Seq(Sent)] /\ chat[p] \in Seq(Sent)
  BY DEF IInv, TypeOK
<1>5. Append(chat[p], m) \in Seq(Sent)
  BY <1>2, <1>4
<1>6. fault \/ UNCHANGED faults
  BY DEF send
<1> QED
  BY <1>2, <1>3, <1>4, <1>5, <1>6

\* The prompt that a bot takes from its queue.
LEMMA PromptTaken ==
    ASSUME IInv, NEW b \in Holders, takes(b, {"prompt"})
    PROVE  LET p == Head(updates[b]).arg
           IN /\ updates[b] # <<>> /\ updates' = [updates EXCEPT ![b] = Tail(updates[b])]
              /\ bot[b] = "idle" /\ p \in Prompts /\ 1 \in DOMAIN updates[b] /\ Waits(b, 1, p)
              /\ chat[p] = <<>> /\ p <= asked
<1>1. /\ updates[b] # <<>> /\ updates' = [updates EXCEPT ![b] = Tail(updates[b])]
      /\ bot[b] = "idle" /\ Head(updates[b]).kind = "prompt"
  BY DEF takes
<1>2. Head(updates[b]) \in Updates /\ 1 \in DOMAIN updates[b]
  BY <1>1, UpdatesTaken
<1>3. PICK p \in Prompts : p = Head(updates[b]).arg /\ Head(updates[b]) = [kind |-> "prompt", arg |-> p]
  BY <1>1, <1>2, PromptUpdate
<1>4. Waits(b, 1, p)
  BY <1>1, <1>3, UpdatesTaken
<1>5. chat[p] = <<>> /\ p <= asked
  BY <1>2, <1>4 DEF IInv, Asking
<1> QED
  BY <1>1, <1>2, <1>3, <1>4, <1>5

\* A prompt that begins a turn.
LEMMA HandlePromptStep ==
    ASSUME IInv, NEW b \in Holders, handlePrompt(b)
    PROVE  IInv'
<1> DEFINE p == Head(updates[b]).arg s == prompted(sess[b], p)
           r == [Idle EXCEPT !.pc = "top"] h == [NoPrompt EXCEPT !.prompt = p]
<1>1. /\ takes(b, {"prompt"}) /\ sess' = [sess EXCEPT ![b] = s] /\ turn' = [turn EXCEPT ![b] = h]
      /\ bot' = [bot EXCEPT ![b] = "turn"] /\ run' = [run EXCEPT ![b] = r]
      /\ out' = [out EXCEPT ![b] = <<>>]
      /\ UNCHANGED <<messages, statuses, ctx, faults, sent, asked, started, chat>>
  BY DEF handlePrompt, Run, store
<1>2. PICK how \in outcomes(b, NoTrail) : trail' = [trail EXCEPT ![b] = Start(NoTrail, how)]
  BY DEF handlePrompt
<1>3. /\ updates[b] # <<>> /\ updates' = [updates EXCEPT ![b] = Tail(updates[b])]
      /\ bot[b] = "idle" /\ p \in Prompts /\ 1 \in DOMAIN updates[b] /\ Waits(b, 1, p)
      /\ chat[p] = <<>> /\ p <= asked
  BY <1>1, PromptTaken
<1> HIDE DEF p
<1>4. sess[b] \in Session
  BY DEF IInv, TypeOK, RunTypeOK
<1>5. /\ s \in Session /\ s.id = sess[b].id /\ s.box = sess[b].box /\ s.status = "active"
      /\ s.messages # <<>> /\ Last(s.messages) = user(p) /\ Last(s.messages).by = p
  BY <1>3, <1>4, Prompted, Messages
<1> HIDE DEF s
<1>6. r \in Goroutine /\ r.pc = "top" /\ r.then = "loop"
  BY IdleFields
<1> HIDE DEF r
<1>7. h \in InHand /\ h.prompt = p
  BY <1>3, InHandFields
<1> HIDE DEF h
<1> DEFINE t == Start(NoTrail, how)
<1>8. t \in Trail /\ Whole(t)
  BY <1>2, Outcomes, TrailFields DEF Whole
<1> HIDE DEF t
<1>9. trail' = [trail EXCEPT ![b] = t]
  BY <1>2 DEF t
<1>10. TypeOK'
  BY <1>1, <1>3, <1>5, <1>6, <1>7, <1>8, <1>9, UpdatesTaken DEF IInv, TypeOK, RunTypeOK
<1>11. /\ sess'[b] = s /\ run'[b] = r /\ out'[b] = <<>> /\ bot'[b] = "turn" /\ turn'[b] = h /\ trail'[b] = t
       /\ \A c \in Holders : c # b =>
            /\ bot'[c] = bot[c] /\ sess'[c] = sess[c] /\ run'[c] = run[c] /\ out'[c] = out[c]
            /\ trail'[c] = trail[c] /\ turn'[c] = turn[c]
  BY <1>1, <1>9 DEF IInv, TypeOK, RunTypeOK
<1>12. Local(b)'
  <2>1. s.box = TRUE
    <3>1. sess[b].box \in BOOLEAN
      BY <1>4 DEF Session
    <3> QED
      BY <1>3, <1>5, <3>1 DEF IInv, Local, Running
  <2> QED
    BY <1>1, <1>3, <1>5, <1>6, <1>7, <1>8, <1>11, <2>1 DEF Local, Running, Completing, Showing, Reporting, Replying
<1>13. Asking'
  <2> DEFINE d == [c \in Holders |-> IF c = b THEN 1 ELSE 0]
  <2>1. d \in [Holders -> Nat]
    OBVIOUS
  <2>2. \A c \in Holders, q \in Prompts : \A i \in DOMAIN updates'[c] : Waits(c, i, q)' =>
           /\ i \in Nat \ {0} /\ i + d[c] \in DOMAIN updates[c] /\ Waits(c, i + d[c], q)
           /\ chat'[q] = chat[q]
    BY <1>1, <1>3, UpdatesTaken
  <2>3. ASSUME NEW c \in Holders, NEW q \in Prompts, Has(c, q)'
        PROVE  Has(c, q) \/ \E i \in DOMAIN updates[c] : i \in 1..d[c] /\ Waits(c, i, q)
    <3>1. CASE c = b
      BY <1>1, <1>3, <1>7, <1>11, <2>3, <3>1 DEF Has, Busy
    <3>2. CASE c # b
      BY <1>1, <1>11, <2>3, <3>2 DEF Has, Busy
    <3> QED
      BY <3>1, <3>2
  <2>4. \A q \in Prompts : q > asked => chat'[q] = <<>>
    BY <1>1 DEF IInv, Asking
  <2> HIDE DEF d
  <2> QED
    BY <1>1, <2>1, <2>2, <2>3, <2>4, AskingKept
<1>14. AnsweredOnce'
  BY <1>1, <1>3, <1>11, AnswersKept
<1>15. started <= started' /\ (sess'[b].box => sess'[b].id <= started')
  BY <1>1, <1>5, <1>11, Numbers DEF IInv, Starting
<1> QED
  BY <1>1, <1>10, <1>11, <1>12, <1>13, <1>14, <1>15, BotStep

\* A prompt whose turn does not begin.
LEMMA HandlePromptFailsStep ==
    ASSUME IInv, NEW b \in Holders, handlePromptFails(b)
    PROVE  IInv'
<1> DEFINE p == Head(updates[b]).arg s == prompted(sess[b], p)
           h == [prompt |-> p, failed |-> TRUE, reply |-> Sorry, part |-> 1]
<1>1. /\ takes(b, {"prompt"}) /\ sess' = [sess EXCEPT ![b] = s]
      /\ bot' = [bot EXCEPT ![b] = "sending"] /\ turn' = [turn EXCEPT ![b] = h]
      /\ UNCHANGED <<messages, statuses, run, out, ctx, faults, sent, asked, started, chat>>
  BY DEF handlePromptFails, replies, store
<1>2. PICK how \in How, then \in How :
         trail' = [trail EXCEPT ![b] = flush(line(Start(NoTrail, how)), TRUE, TRUE, then)]
  BY Outcomes DEF handlePromptFails
<1>3. /\ updates[b] # <<>> /\ updates' = [updates EXCEPT ![b] = Tail(updates[b])]
      /\ bot[b] = "idle" /\ p \in Prompts /\ 1 \in DOMAIN updates[b] /\ Waits(b, 1, p)
      /\ chat[p] = <<>> /\ p <= asked
  BY <1>1, PromptTaken
<1> HIDE DEF p
<1>4. sess[b] \in Session
  BY DEF IInv, TypeOK, RunTypeOK
<1>5. s \in Session /\ s.id = sess[b].id /\ s.box = sess[b].box
  BY <1>3, <1>4, Prompted
<1> HIDE DEF s
<1> DEFINE t == flush(line(Start(NoTrail, how)), TRUE, TRUE, then)
<1>6. t \in Trail /\ Whole(t) /\ ~t.behind
  <2>1. Whole(line(Start(NoTrail, how)))
    BY <1>2, TrailFields
  <2> QED
    BY <1>2, <2>1, TrailFields DEF Whole
<1>7. trail' = [trail EXCEPT ![b] = t]
  BY <1>2
<1> HIDE DEF t
<1>8. /\ h \in InHand /\ h.prompt = p /\ h.part = 1 /\ h.reply.kind # "garbled" /\ h.reply.of = 1
  BY <1>3, InHandFields
<1> HIDE DEF h
<1>9. TypeOK'
  BY <1>1, <1>3, <1>5, <1>6, <1>7, <1>8, UpdatesTaken DEF IInv, TypeOK, RunTypeOK
<1>10. /\ sess'[b] = s /\ trail'[b] = t /\ bot'[b] = "sending" /\ turn'[b] = h
       /\ \A c \in Holders : c # b => /\ sess'[c] = sess[c] /\ trail'[c] = trail[c]
                                      /\ bot'[c] = bot[c] /\ turn'[c] = turn[c]
  BY <1>1, <1>7 DEF IInv, TypeOK, RunTypeOK
<1>11. Local(b)'
  <2>1. Replying(b)'
    <3>1. 1 \in 1..1 /\ Len(<<>>) + 1 = 1 /\ DOMAIN <<>> = {}
      OBVIOUS
    <3> QED
      BY <1>1, <1>3, <1>8, <1>10, <3>1 DEF Replying
  <2> QED
    BY <1>1, <1>3, <1>5, <1>6, <1>10, <2>1, IdleFields
       DEF IInv, Local, Running, Completing, Showing, Reporting
<1>12. Asking'
  <2> DEFINE d == [c \in Holders |-> IF c = b THEN 1 ELSE 0]
  <2>1. d \in [Holders -> Nat]
    OBVIOUS
  <2>2. \A c \in Holders, q \in Prompts : \A i \in DOMAIN updates'[c] : Waits(c, i, q)' =>
           /\ i \in Nat \ {0} /\ i + d[c] \in DOMAIN updates[c] /\ Waits(c, i + d[c], q)
           /\ chat'[q] = chat[q]
    BY <1>1, <1>3, UpdatesTaken
  <2>3. ASSUME NEW c \in Holders, NEW q \in Prompts, Has(c, q)'
        PROVE  Has(c, q) \/ \E i \in DOMAIN updates[c] : i \in 1..d[c] /\ Waits(c, i, q)
    <3>1. CASE c = b
      BY <1>1, <1>3, <1>8, <1>10, <2>3, <3>1 DEF Has, Busy
    <3>2. CASE c # b
      BY <1>1, <1>10, <2>3, <3>2 DEF Has, Busy
    <3> QED
      BY <3>1, <3>2
  <2>4. \A q \in Prompts : q > asked => chat'[q] = <<>>
    BY <1>1 DEF IInv, Asking
  <2> HIDE DEF d
  <2> QED
    BY <1>1, <2>1, <2>2, <2>3, <2>4, AskingKept
<1>13. started <= started' /\ (sess'[b].box => sess'[b].id <= started')
  BY <1>1, <1>5, <1>10, Numbers DEF IInv, Starting
<1>14. AnsweredOnce'
  BY <1>1, <1>3, <1>10, AnswersKept
<1> QED
  BY <1>1, <1>9, <1>10, <1>11, <1>12, <1>13, <1>14, BotStep

\* Nothing joins a queue, leaves one, or is said, and a bot has in hand what it had or
\* nothing.
LEMMA AskingSame ==
    ASSUME IInv, UNCHANGED <<updates, asked, chat>>,
           \A c \in Holders, p \in Prompts : Has(c, p)' => Has(c, p)
    PROVE  Asking'
<1> DEFINE d == [c \in Holders |-> 0]
<1>1. d \in [Holders -> Nat]
  OBVIOUS
<1>2. ASSUME NEW c \in Holders, NEW p \in Prompts, NEW i \in DOMAIN updates'[c], Waits(c, i, p)'
      PROVE  /\ i \in Nat \ {0} /\ i + d[c] \in DOMAIN updates[c] /\ Waits(c, i + d[c], p)
             /\ chat'[p] = chat[p]
  <2>1. i \in DOMAIN updates[c] /\ Waits(c, i, p) /\ chat'[p] = chat[p] /\ updates[c] \in Seq(Updates)
    BY <1>2 DEF Waits, IInv, TypeOK
  <2>2. i \in Nat \ {0} /\ i + 0 = i /\ d[c] = 0
    BY <2>1
  <2> QED
    BY <2>1, <2>2
<1>3. \A p \in Prompts : p > asked => chat'[p] = <<>>
  BY DEF IInv, Asking
<1> HIDE DEF d
<1> QED
  BY <1>1, <1>2, <1>3, AskingKept

\* The last event of a channel is the next one, or is still the last when that is read.
LEMMA TailLast ==
    ASSUME NEW q \in Seq(Events), q # <<>>
    PROVE  Last(q) = Head(q) \/ (Tail(q) # <<>> /\ Last(Tail(q)) = Last(q))
<1>1. /\ Len(q) \in Nat /\ Len(q) > 0 /\ Head(q) = q[1] /\ Tail(q) \in Seq(Events)
      /\ Len(Tail(q)) = Len(q) - 1 /\ \A i \in 1..(Len(q) - 1) : Tail(q)[i] = q[i + 1]
  OBVIOUS
<1>2. CASE Len(q) = 1
  BY <1>1, <1>2 DEF Last
<1>3. CASE Len(q) # 1
  <2>1. Len(q) - 1 \in 1..(Len(q) - 1) /\ Len(q) - 1 + 1 = Len(q) /\ Len(Tail(q)) # 0 /\ Len(<<>>) = 0
    BY <1>1, <1>3
  <2>2. Tail(q) # <<>>
    BY <2>1, Zenon
  <2>3. Tail(q)[Len(q) - 1] = q[Len(q)]
    BY <1>1, <2>1
  <2> QED
    BY <1>1, <2>2, <2>3 DEF Last
<1> QED
  BY <1>2, <1>3

\* An event is read, and the trail may get a line.
LEMMA EventStep ==
    ASSUME IInv, NEW b \in Holders, event(b)
    PROVE  IInv'
<1> DEFINE o == Tail(out[b]) h == [turn[b] EXCEPT !.failed = @ \/ Head(out[b]) = "error"]
<1>1. /\ bot[b] = "turn" /\ out[b] # <<>> /\ out' = [out EXCEPT ![b] = o]
      /\ turn' = [turn EXCEPT ![b] = h]
      /\ UNCHANGED <<messages, statuses, sess, run, ctx, faults, bot, updates, sent, asked, started, chat>>
  BY DEF event, store
<1>2. turn[b] \in InHand /\ out[b] \in Seq(Events) /\ Whole(trail[b])
  BY DEF IInv, TypeOK, RunTypeOK, Local, Showing
<1>3. h \in InHand /\ h.prompt = turn[b].prompt /\ (turn[b].failed \/ Head(out[b]) = "error" => h.failed)
  BY <1>2 DEF InHand
<1>4. PICK t \in Trail : Whole(t) /\ trail' = [trail EXCEPT ![b] = t]
  <2>1. PICK isLine \in stepLine(Head(out[b])), gap \in BOOLEAN, how \in outcomes(b, trail[b]) :
           trail' = IF isLine THEN [trail EXCEPT ![b] = flush(line(@), FALSE, gap, how)] ELSE trail
    BY DEF event
  <2>2. CASE isLine
    <3>1. trail' = [trail EXCEPT ![b] = flush(line(trail[b]), FALSE, gap, how)]
      BY <2>1, <2>2
    <3>2. Whole(flush(line(trail[b]), FALSE, gap, how))
      BY <1>2, <2>1, Outcomes, TrailFields
    <3> QED
      BY <3>1, <3>2 DEF Whole
  <2>3. CASE ~isLine
    <3>1. trail' = trail
      BY <2>1, <2>3
    <3>2. trail' = [trail EXCEPT ![b] = trail[b]]
      BY <3>1 DEF IInv, TypeOK
    <3> QED
      BY <1>2, <3>2 DEF Whole
  <2> QED
    BY <2>2, <2>3
<1>5. o \in Seq(Events)
  BY <1>1, <1>2
<1>6. Last(out[b]) = "error" => Head(out[b]) = "error" \/ (o # <<>> /\ Last(o) = "error")
  BY <1>1, <1>2, TailLast
<1> HIDE DEF o, h
<1>7. TypeOK'
  BY <1>1, <1>3, <1>4, <1>5 DEF IInv, TypeOK, RunTypeOK
<1>8. /\ out'[b] = o /\ turn'[b] = h /\ trail'[b] = t
      /\ \A c \in Holders : c # b => out'[c] = out[c] /\ trail'[c] = trail[c] /\ turn'[c] = turn[c]
  BY <1>1, <1>4 DEF IInv, TypeOK, RunTypeOK
<1>9. Running(b)' /\ Completing(b)' /\ Showing(b)'
  BY <1>1, <1>3, <1>4, <1>8 DEF IInv, Local, Running, Completing, Showing
<1>14. Replying(b)'
  BY <1>1, <1>3, <1>8 DEF IInv, Local, Replying
<1>10. Reporting(b)'
  BY <1>1, <1>3, <1>6, <1>8 DEF IInv, Local, Reporting
<1>11. Asking'
  <2>1. \A c \in Holders, p \in Prompts : Has(c, p)' => Has(c, p)
    BY <1>1, <1>3, <1>8 DEF Has, Busy
  <2> QED
    BY <1>1, <2>1, AskingSame
<1>12. AnsweredOnce'
  BY <1>1, <1>3, <1>8, AnswersKept
<1>13. started <= started' /\ (sess'[b].box => sess'[b].id <= started')
  BY <1>1, Numbers DEF IInv, Starting
<1> QED
  BY <1>1, <1>7, <1>8, <1>9, <1>10, <1>11, <1>12, <1>13, <1>14, BotStep DEF Local

\* What the bot is to say when the channel is closed.
LEMMA Closing ==
    ASSUME IInv, NEW b \in Holders, answer(b)
    PROVE  /\ bot[b] = "turn" /\ run[b].pc = "closed" /\ out[b] = <<>>
           /\ turn[b] \in InHand /\ turn[b].prompt \in Prompts
           /\ \E r \in Replies :
                 /\ replies(b, turn[b].prompt, turn[b].failed, r)
                 /\ r.kind # "garbled" /\ r.of >= 1 /\ (r.kind = "answer" => ~turn[b].failed)
<1>1. bot[b] = "turn" /\ run[b].pc = "closed" /\ out[b] = <<>>
  BY DEF answer, Drained
<1>2. turn[b] \in InHand
  BY DEF IInv, TypeOK
<1>3. turn[b].prompt \in Prompts /\ turn[b].failed \in BOOLEAN
  BY <1>2 DEF InHand
<1>4. PICK r \in (IF turn[b].failed THEN {Sorry} ELSE Answers) :
         replies(b, turn[b].prompt, turn[b].failed, r)
  BY DEF answer
<1>5. CASE turn[b].failed
  <2>1. r = Sorry
    BY <1>4, <1>5
  <2>2. r \in Replies /\ r.kind # "garbled" /\ r.kind # "answer" /\ r.of >= 1
    BY <2>1, InHandFields
  <2> QED
    BY <1>1, <1>2, <1>3, <1>4, <2>2
<1>6. CASE ~turn[b].failed
  BY <1>1, <1>2, <1>3, <1>4, <1>6, AnswersWhole
<1> QED
  BY <1>5, <1>6

\* The turn is over, and its reply is to be said.
LEMMA AnswerStep ==
    ASSUME IInv, NEW b \in Holders, answer(b)
    PROVE  IInv'
<1>1. /\ run' = [run EXCEPT ![b] = Idle]
      /\ UNCHANGED <<messages, statuses, sess, out, ctx, faults, updates, sent, asked, started, chat>>
  BY DEF answer, store
<1>2. bot[b] = "turn" /\ turn[b] \in InHand /\ turn[b].prompt \in Prompts /\ turn[b].failed \in BOOLEAN
  BY Closing DEF InHand
<1>3. PICK r \in Replies : /\ replies(b, turn[b].prompt, turn[b].failed, r)
                           /\ r.kind # "garbled" /\ r.of >= 1
  BY Closing
<1> DEFINE h == [prompt |-> turn[b].prompt, failed |-> turn[b].failed, reply |-> r, part |-> 1]
<1>4. PICK t \in Trail : Whole(t) /\ ~t.behind /\ trail' = [trail EXCEPT ![b] = t]
  <2>1. PICK gap \in BOOLEAN, how \in outcomes(b, trail[b]) :
           trail' = [trail EXCEPT ![b] = flush(trail[b], TRUE, gap, how)]
    BY DEF answer
  <2>2. Whole(trail[b]) /\ how \in How
    BY <2>1, Outcomes DEF IInv, Local, Showing
  <2> DEFINE t == flush(trail[b], TRUE, gap, how)
  <2>3. Whole(t) /\ ~t.behind
    BY <2>2, TrailFields
  <2>4. trail' = [trail EXCEPT ![b] = t]
    BY <2>1
  <2> HIDE DEF t
  <2>5. t \in Trail
    BY <2>3 DEF Whole
  <2> QED
    BY <2>3, <2>4, <2>5
<1>5. /\ h \in InHand /\ h.prompt = turn[b].prompt /\ h.reply = r /\ h.part = 1
      /\ bot' = [bot EXCEPT ![b] = "sending"] /\ turn' = [turn EXCEPT ![b] = h]
  BY <1>2, <1>3, InHandFields DEF replies
<1> HIDE DEF h
<1>6. TypeOK'
  BY <1>1, <1>4, <1>5, IdleFields DEF IInv, TypeOK, RunTypeOK
<1>7. /\ bot'[b] = "sending" /\ run'[b] = Idle /\ trail'[b] = t /\ turn'[b] = h
      /\ \A c \in Holders : c # b => /\ bot'[c] = bot[c] /\ run'[c] = run[c]
                                     /\ trail'[c] = trail[c] /\ turn'[c] = turn[c]
  BY <1>1, <1>4, <1>5 DEF IInv, TypeOK, RunTypeOK
<1>8. Local(b)'
  <2>1. Replying(b)'
    <3>1. chat[turn[b].prompt] = <<>>
      BY <1>2 DEF IInv, Local, Replying
    <3>2. r.of \in Nat /\ 1 \in 1..r.of /\ Len(<<>>) + 1 = 1 /\ DOMAIN <<>> = {}
      BY <1>3 DEF Replies
    <3> QED
      BY <1>1, <1>3, <1>5, <1>7, <3>1, <3>2 DEF Replying
  <2> QED
    BY <1>1, <1>2, <1>4, <1>7, <2>1, IdleFields
       DEF IInv, Local, Running, Completing, Showing, Reporting
<1>9. Asking'
  <2>1. \A c \in Holders, p \in Prompts : Has(c, p)' => Has(c, p)
    BY <1>2, <1>5, <1>7 DEF Has, Busy
  <2> QED
    BY <1>1, <2>1, AskingSame
<1>10. started <= started' /\ (sess'[b].box => sess'[b].id <= started')
  BY <1>1, Numbers DEF IInv, Starting
<1>11. AnsweredOnce'
  BY <1>1, <1>2, <1>7, AnswersKept
<1> QED
  BY <1>1, <1>6, <1>7, <1>8, <1>9, <1>10, <1>11, BotStep

\* What the bot sends next, and what was sent of the reply.
LEMMA Sending ==
    ASSUME IInv, NEW b \in Holders, sendChunk(b)
    PROVE  LET p == turn[b].prompt  r == turn[b].reply  n == turn[b].part
           IN /\ bot[b] = "sending" /\ turn[b] \in InHand /\ p \in Prompts /\ r \in Replies
              /\ r.of \in Nat /\ n \in Nat /\ 1 <= n /\ n <= r.of /\ r.kind # "garbled" /\ p <= asked
              /\ chat'[p] \in Seq(Sent) /\ Len(chat'[p]) = n /\ DOMAIN chat'[p] = 1..n
              /\ \A i \in 1..n : chat'[p][i].part = i /\ chat'[p][i].reply = r
              /\ \A i \in 1..n : i = n \/ (i \in DOMAIN chat[p] /\ chat'[p][i] = chat[p][i])
              /\ \A q \in Prompts : q # p => chat'[q] = chat[q]
              /\ chat' \in [Prompts -> Seq(Sent)] /\ (fault \/ UNCHANGED faults)
<1> DEFINE p == turn[b].prompt  r == turn[b].reply  n == turn[b].part
<1>1. bot[b] = "sending" /\ send(b, p, r, n)
  BY DEF sendChunk
<1>2. turn[b] \in InHand /\ Replying(b) /\ chat \in [Prompts -> Seq(Sent)] /\ \A q \in Prompts : InOrder(q)
  BY Answering DEF IInv, TypeOK, Local
<1>3. p \in Prompts /\ r \in Replies /\ n \in Nat /\ r.of \in Nat
  BY <1>2 DEF InHand, Replies
<1>4. /\ r.kind # "garbled" /\ n \in 1..r.of /\ Len(chat[p]) + 1 = n
      /\ \A i \in DOMAIN chat[p] : chat[p][i].reply = r
  BY <1>1, <1>2 DEF Replying
<1>5. Has(b, p)
  BY <1>1 DEF Has, Busy
<1> HIDE DEF p, r, n
<1>6. chat[p] \in Seq(Sent) /\ DOMAIN chat[p] = 1..Len(chat[p]) /\ Len(chat[p]) \in Nat
  BY <1>2, <1>3
<1>7. PICK m \in Sent : m.reply = r /\ m.part = n /\ chat'[p] = Append(chat[p], m)
  BY <1>1, <1>3, Sends
<1>8. /\ chat'[p] \in Seq(Sent) /\ Len(chat'[p]) = n /\ DOMAIN chat'[p] = 1..n /\ chat'[p][n] = m
      /\ \A i \in 1..n : i = n \/ (i \in DOMAIN chat[p] /\ chat'[p][i] = chat[p][i])
  BY <1>3, <1>4, <1>6, <1>7
<1>9. ASSUME NEW i \in 1..n PROVE chat'[p][i].part = i /\ chat'[p][i].reply = r
  <2>1. CASE i = n
    BY <1>7, <1>8, <2>1
  <2>2. CASE i # n
    <3>1. i \in DOMAIN chat[p] /\ chat'[p][i] = chat[p][i]
      BY <1>8, <2>2
    <3> QED
      BY <1>2, <1>3, <1>4, <3>1 DEF InOrder
  <2> QED
    BY <2>1, <2>2
<1>10. p <= asked
  BY <1>3, <1>5 DEF IInv, Asking
<1>11. /\ \A q \in Prompts : q # p => chat'[q] = chat[q]
       /\ chat' \in [Prompts -> Seq(Sent)] /\ (fault \/ UNCHANGED faults)
  BY <1>1, <1>3, Sends
<1>12. 1 <= n /\ n <= r.of
  BY <1>3, <1>4
<1> QED
  BY <1>1, <1>2, <1>3, <1>4, <1>8, <1>9, <1>10, <1>11, <1>12 DEF p, r, n

\* What the worker has in hand when a message was sent: the next one, or nothing.
LEMMA SentOn ==
    ASSUME IInv, NEW b \in Holders, sendChunk(b)
    PROVE  \E h \in InHand, k \in {"idle", "sending"}, t \in Trail :
              /\ turn' = [turn EXCEPT ![b] = h] /\ bot' = [bot EXCEPT ![b] = k]
              /\ trail' = [trail EXCEPT ![b] = t] /\ Whole(t) /\ (k = "sending" => ~t.behind)
              /\ k = "sending" <=> turn[b].part < turn[b].reply.of
              /\ k = "sending" => /\ h.prompt = turn[b].prompt /\ h.reply = turn[b].reply
                                 /\ h.part = turn[b].part + 1
<1>1. turn[b] \in InHand /\ bot[b] = "sending" /\ turn[b].part \in Nat
  BY Sending
<1>2. CASE turn[b].part < turn[b].reply.of
  <2> DEFINE h == [turn[b] EXCEPT !.part = turn[b].part + 1]
  <2>1. turn' = [turn EXCEPT ![b] = h] /\ bot' = bot /\ trail' = trail
    BY <1>2 DEF sendChunk
  <2>2. h \in InHand /\ h.prompt = turn[b].prompt /\ h.reply = turn[b].reply /\ h.part = turn[b].part + 1
    BY <1>1 DEF InHand
  <2> HIDE DEF h
  <2>3. Whole(trail[b]) /\ ~trail[b].behind /\ trail[b] \in Trail
    BY <1>1 DEF IInv, Local, Showing, Whole
  <2>4. bot' = [bot EXCEPT ![b] = "sending"] /\ trail' = [trail EXCEPT ![b] = trail[b]]
    BY <1>1, <2>1 DEF IInv, TypeOK
  <2> QED
    BY <1>2, <2>1, <2>2, <2>3, <2>4
<1>3. CASE ~(turn[b].part < turn[b].reply.of)
  <2>1. /\ turn' = [turn EXCEPT ![b] = NoPrompt] /\ trail' = [trail EXCEPT ![b] = NoTrail]
        /\ bot' = [bot EXCEPT ![b] = "idle"]
    BY <1>3 DEF sendChunk
  <2>2. NoPrompt \in InHand /\ Whole(NoTrail) /\ NoTrail \in Trail
    BY InHandFields, TrailFields DEF Whole
  <2> QED
    BY <1>3, <2>1, <2>2
<1> QED
  BY <1>2, <1>3

\* A message of a reply is sent.
LEMMA SendChunkStep ==
    ASSUME IInv, NEW b \in Holders, sendChunk(b)
    PROVE  IInv'
<1> DEFINE p == turn[b].prompt  r == turn[b].reply  n == turn[b].part
<1>1. /\ bot[b] = "sending" /\ turn[b] \in InHand /\ p \in Prompts /\ r \in Replies
      /\ r.of \in Nat /\ n \in Nat /\ 1 <= n /\ n <= r.of /\ r.kind # "garbled" /\ p <= asked
      /\ Len(chat'[p]) = n /\ DOMAIN chat'[p] = 1..n
      /\ \A i \in 1..n : chat'[p][i].part = i /\ chat'[p][i].reply = r
      /\ \A q \in Prompts : q # p => chat'[q] = chat[q]
      /\ chat' \in [Prompts -> Seq(Sent)] /\ (fault \/ UNCHANGED faults)
  BY Sending
<1>2. PICK h \in InHand, k \in {"idle", "sending"}, t \in Trail :
         /\ turn' = [turn EXCEPT ![b] = h] /\ bot' = [bot EXCEPT ![b] = k]
         /\ trail' = [trail EXCEPT ![b] = t] /\ Whole(t) /\ (k = "sending" => ~t.behind)
         /\ k = "sending" <=> n < r.of
         /\ k = "sending" => h.prompt = p /\ h.reply = r /\ h.part = n + 1
  BY SentOn
<1>3. Has(b, p)
  BY <1>1 DEF Has, Busy
<1> HIDE DEF p, r, n
<1>4. UNCHANGED <<messages, statuses, sess, run, out, ctx, updates, sent, asked, started>>
  BY DEF sendChunk, store
<1>5. faults' \in 0..MaxFaults
  BY <1>1, Faults
<1>6. TypeOK'
  BY <1>1, <1>2, <1>4, <1>5 DEF IInv, TypeOK, RunTypeOK
<1>7. /\ bot'[b] = k /\ trail'[b] = t /\ turn'[b] = h
      /\ \A c \in Holders : c # b => bot'[c] = bot[c] /\ trail'[c] = trail[c] /\ turn'[c] = turn[c]
  BY <1>2 DEF IInv, TypeOK
\* What the others have in hand is another prompt.
<1>8. \A c \in Holders : c # b => \A q \in Prompts : Has(c, q) => q # p
  BY <1>1, <1>3 DEF IInv, Asking
<1>9. Local(b)'
  <2>1. Replying(b)'
    <3>1. CASE k = "idle"
      BY <1>7, <3>1 DEF Replying
    <3>2. CASE k = "sending"
      <4>1. n + 1 \in 1..r.of
        BY <1>1, <1>2, <3>2
      <4>2. turn'[b].prompt = p /\ turn'[b].reply = r /\ turn'[b].part = n + 1
        BY <1>2, <1>7, <3>2
      <4>3. /\ Len(chat'[p]) + 1 = n + 1
            /\ \A i \in DOMAIN chat'[p] : chat'[p][i].reply = r
        BY <1>1
      <4> QED
        BY <1>1, <1>7, <3>2, <4>1, <4>2, <4>3 DEF Replying
    <3> QED
      BY <3>1, <3>2
  <2>2. Running(b) /\ Completing(b) /\ Reporting(b) /\ run[b] = Idle /\ sess[b].box
    BY <1>1 DEF IInv, Local, Running, TypeOK, RunTypeOK, Session
  <2>3. Running(b)' /\ Completing(b)' /\ Reporting(b)'
    BY <1>4, <1>7, <2>2, IdleFields DEF Running, Completing, Reporting
  <2>4. Showing(b)'
    BY <1>2, <1>7 DEF Showing
  <2> QED
    BY <2>1, <2>3, <2>4 DEF Local
<1>10. Asking'
  <2> DEFINE d == [c \in Holders |-> 0]
  <2>1. d \in [Holders -> Nat]
    OBVIOUS
  <2>2. ASSUME NEW c \in Holders, NEW q \in Prompts, NEW i \in DOMAIN updates'[c], Waits(c, i, q)'
        PROVE  /\ i \in Nat \ {0} /\ i + d[c] \in DOMAIN updates[c] /\ Waits(c, i + d[c], q)
               /\ chat'[q] = chat[q]
    <3>1. i \in DOMAIN updates[c] /\ Waits(c, i, q) /\ updates[c] \in Seq(Updates)
      BY <1>4, <2>2 DEF Waits, IInv, TypeOK
    <3>2. i \in Nat \ {0} /\ i + 0 = i /\ d[c] = 0
      BY <3>1
    <3>3. q # p
      BY <1>1, <1>3, <3>1 DEF IInv, Asking
    <3> QED
      BY <1>1, <3>1, <3>2, <3>3
  <2>3. ASSUME NEW c \in Holders, NEW q \in Prompts, Has(c, q)' PROVE Has(c, q)
    <3>1. CASE c = b
      BY <1>2, <1>3, <1>7, <2>3, <3>1 DEF Has, Busy
    <3>2. CASE c # b
      BY <1>7, <2>3, <3>2 DEF Has, Busy
    <3> QED
      BY <3>1, <3>2
  <2>4. ASSUME NEW q \in Prompts, q > asked PROVE chat'[q] = <<>>
    <3>1. q # p
      BY <1>1, <2>4, Numbers
    <3> QED
      BY <1>1, <2>4, <3>1 DEF IInv, Asking
  <2> HIDE DEF d
  <2> QED
    BY <1>4, <2>1, <2>2, <2>3, <2>4, AskingKept
<1>11. AnsweredOnce'
  <2>1. ASSUME NEW q \in Prompts PROVE InOrder(q)'
    <3>1. CASE q = p
      <4>1. 1 \in 1..n /\ \A i \in 1..n : i <= r.of
        BY <1>1
      <4> QED
        BY <1>1, <3>1, <4>1 DEF InOrder
    <3>2. CASE q # p
      <4>1. InOrder(q)
        BY Answering DEF IInv
      <4> QED
        BY <1>1, <3>2, <4>1 DEF InOrder
    <3> QED
      BY <3>1, <3>2
  <2>2. ASSUME NEW q \in Prompts, CutShort(q)' PROVE CutShort(q)
    <3>1. CASE q = p
      <4>1. k = "sending" => FALSE
        BY <1>2, <1>7, <2>2, <3>1 DEF CutShort
      <4>2. ~(n < r.of)
        BY <1>2, <4>1
      <4>3. Len(chat'[p]) < chat'[p][1].reply.of
        BY <2>2, <3>1 DEF CutShort
      <4>4. 1 \in 1..n
        BY <1>1
      <4> QED
        BY <1>1, <4>2, <4>3, <4>4
    <3>2. CASE q # p
      <4>1. chat'[q] = chat[q]
        BY <1>1, <3>2
      <4>2. ASSUME NEW c \in Holders, bot[c] = "sending", turn[c].prompt = q PROVE FALSE
        <5>1. c # b
          BY <3>2, <4>2 DEF p
        <5>2. bot'[c] = "sending" /\ turn'[c].prompt = q
          BY <1>7, <4>2, <5>1
        <5> QED
          BY <2>2, <5>2 DEF CutShort
      <4> QED
        BY <2>2, <4>1, <4>2 DEF CutShort
    <3> QED
      BY <3>1, <3>2
  <2>3. Cardinality(Cuts') <= faults'
    BY <1>1, <2>2, CutsKept
  <2> QED
    BY <2>1, <2>3, Answering
<1>12. started <= started' /\ (sess'[b].box => sess'[b].id <= started')
  BY <1>4, Numbers DEF IInv, Starting
<1>13. \A c \in Holders : c # b =>
          /\ bot'[c] = bot[c] /\ sess'[c] = sess[c] /\ run'[c] = run[c] /\ out'[c] = out[c]
          /\ trail'[c] = trail[c] /\ turn'[c] = turn[c]
          /\ Busy(c) => chat'[turn[c].prompt] = chat[turn[c].prompt]
  <2>1. ASSUME NEW c \in Holders, c # b, Busy(c) PROVE chat'[turn[c].prompt] = chat[turn[c].prompt]
    <3>1. turn[c].prompt \in Prompts
      BY DEF IInv, TypeOK, InHand
    <3>2. turn[c].prompt # p
      BY <1>8, <2>1, <3>1 DEF Has
    <3> QED
      BY <1>1, <3>1, <3>2
  <2> QED
    BY <1>4, <1>7, <2>1
<1>14. messages' = messages /\ statuses' = statuses
  BY <1>4
<1> QED
  BY <1>6, <1>9, <1>10, <1>11, <1>12, <1>13, <1>14, BotStep

-----------------------------------------------------------------------------
(* The process and the people *)

\* A bot starts.
LEMMA BeginStep ==
    ASSUME IInv, NEW b \in Holders, begin(b)
    PROVE  IInv'
<1>1. /\ bot[b] = "down" /\ bot' = [bot EXCEPT ![b] = "idle"] /\ ctx' = [ctx EXCEPT ![b] = "live"]
      /\ startSession(b)
      /\ UNCHANGED <<messages, statuses, run, out, faults, sent, asked, trail, turn, chat>>
  BY DEF begin, store
<1>2. PICK kept \in {<<>>, updates[b]} : updates' = [updates EXCEPT ![b] = kept]
  BY DEF begin
<1>3. PICK s \in Session :
         /\ sess' = [sess EXCEPT ![b] = s] /\ s.box = TRUE /\ s.id <= started'
         /\ started' \in 0..MaxSessions /\ started <= started'
  BY <1>1, Holding
<1>4. updates[b] \in Seq(Updates) /\ kept \in Seq(Updates)
  <2>1. updates[b] \in Seq(Updates)
    BY DEF IInv, TypeOK
  <2>2. <<>> \in Seq(Updates)
    OBVIOUS
  <2> QED
    BY <1>2, <2>1, <2>2
<1>6. TypeOK'
  BY <1>1, <1>2, <1>3, <1>4 DEF IInv, TypeOK, RunTypeOK
<1>7. /\ bot'[b] = "idle" /\ sess'[b] = s /\ updates'[b] = kept
      /\ \A c \in Holders : c # b => /\ bot'[c] = bot[c] /\ sess'[c] = sess[c]
                                     /\ updates'[c] = updates[c]
  BY <1>1, <1>2, <1>3 DEF IInv, TypeOK, RunTypeOK
<1>8. Local(b)'
  BY <1>1, <1>3, <1>7, IdleFields DEF IInv, Local, Running, Completing, Showing, Reporting, Replying
<1>9. Asking'
  <2> DEFINE d == [c \in Holders |-> 0]
  <2>1. d \in [Holders -> Nat]
    OBVIOUS
  <2>2. ASSUME NEW c \in Holders, NEW p \in Prompts, NEW i \in DOMAIN updates'[c], Waits(c, i, p)'
        PROVE  /\ i \in Nat \ {0} /\ i + d[c] \in DOMAIN updates[c] /\ Waits(c, i + d[c], p)
               /\ chat'[p] = chat[p]
    <3>1. updates'[c] # <<>>
      BY <2>2
    <3>2. updates'[c] = updates[c] /\ updates[c] \in Seq(Updates)
      BY <1>2, <1>7, <3>1 DEF IInv, TypeOK
    <3>3. i \in Nat \ {0} /\ i + 0 = i /\ d[c] = 0
      BY <2>2, <3>2
    <3> QED
      BY <1>1, <2>2, <3>2, <3>3 DEF Waits
  <2>3. \A c \in Holders, p \in Prompts : Has(c, p)' => Has(c, p)
    BY <1>1, <1>7 DEF Has, Busy
  <2>4. \A p \in Prompts : p > asked => chat'[p] = <<>>
    BY <1>1 DEF IInv, Asking
  <2> HIDE DEF d
  <2> QED
    BY <1>1, <2>1, <2>2, <2>3, <2>4, AskingKept
<1>10. AnsweredOnce'
  BY <1>1, <1>7, AnswersKept
<1> QED
  BY <1>1, <1>3, <1>6, <1>7, <1>8, <1>9, <1>10, BotStep

\* A context is cancelled.
LEMMA CancelStep ==
    ASSUME IInv, NEW b \in Holders, cancel(b)
    PROVE  IInv'
<1>1. /\ ctx' = [ctx EXCEPT ![b] = "done"] /\ fault
      /\ UNCHANGED <<messages, statuses, sess, run, out>>
      /\ UNCHANGED <<bot, updates, sent, asked, started, trail, turn, chat>>
  BY DEF cancel, store, botVars
<1>2. TypeOK'
  BY <1>1, Faults DEF IInv, TypeOK, RunTypeOK
<1>3. Asking'
  BY <1>1, AskingSame DEF Has, Busy
<1>4. AnsweredOnce' /\ Local(b)'
  BY <1>1, AnswersKept DEF IInv, Local, Running, Completing, Showing, Reporting, Replying
<1>5. started <= started' /\ (sess'[b].box => sess'[b].id <= started')
  BY <1>1, Numbers DEF IInv, Starting
<1> QED
  BY <1>1, <1>2, <1>3, <1>4, <1>5, BotStep

\* A bot ends, or dies.
LEMMA DownStep ==
    ASSUME IInv, NEW b \in Holders, ends(b) \/ crash(b)
    PROVE  IInv'
<1>1. /\ bot' = [bot EXCEPT ![b] = "down"] /\ sess' = [sess EXCEPT ![b] = NoSession]
      /\ UNCHANGED <<messages, statuses, updates, sent, asked, started, chat>>
      /\ fault \/ UNCHANGED faults
  BY DEF ends, crash, store
<1>2. PICK t \in Trail : Whole(t) /\ trail' = [trail EXCEPT ![b] = t]
  <2>1. trail \in [Holders -> Trail] /\ Whole(trail[b])
    BY DEF IInv, TypeOK, Local, Showing
  <2>2. NoTrail \in Trail /\ Whole(NoTrail)
    BY TrailFields DEF Whole
  <2>3. trail' = [trail EXCEPT ![b] = trail[b]] \/ trail' = [trail EXCEPT ![b] = NoTrail]
    BY <2>1 DEF ends, crash
  <2> QED
    BY <2>1, <2>2, <2>3
<1>3. run' = [run EXCEPT ![b] = Idle]
  <2>1. CASE ends(b)
    <3>1. run[b] = Idle /\ run' = run
      BY <2>1 DEF ends, IInv, Local, Running
    <3> QED
      BY <3>1 DEF IInv, TypeOK, RunTypeOK
  <2>2. CASE crash(b)
    BY <2>2 DEF crash
  <2> QED
    BY <2>1, <2>2
<1>4. PICK o \in Seq(Events) : out' = [out EXCEPT ![b] = o]
  <2>1. out \in [Holders -> Seq(Events)]
    BY DEF IInv, TypeOK, RunTypeOK
  <2>2. <<>> \in Seq(Events)
    OBVIOUS
  <2>3. out' = [out EXCEPT ![b] = out[b]] \/ out' = [out EXCEPT ![b] = <<>>]
    BY <2>1 DEF ends, crash
  <2> QED
    BY <2>1, <2>2, <2>3
<1>5. PICK h \in InHand : turn' = [turn EXCEPT ![b] = h]
  <2>1. NoPrompt \in InHand
    BY InHandFields
  <2>2. turn \in [Holders -> InHand]
    BY DEF IInv, TypeOK
  <2>3. turn' = [turn EXCEPT ![b] = turn[b]] \/ turn' = [turn EXCEPT ![b] = NoPrompt]
    BY <2>2 DEF ends, crash
  <2> QED
    BY <2>1, <2>2, <2>3
<1>6. ctx' \in [Holders -> {"live", "done"}]
  BY DEF ends, crash, IInv, TypeOK, RunTypeOK
<1>7. NoSession \in Session /\ NoSession.box = FALSE
  <2>1. 1 \in Ids
    BY RunAssumption DEF Ids
  <2> QED
    BY <2>1, Sessions
<1>8. TypeOK'
  BY <1>1, <1>2, <1>3, <1>4, <1>5, <1>6, <1>7, Faults, IdleFields DEF IInv, TypeOK, RunTypeOK
<1>9. /\ bot'[b] = "down" /\ sess'[b] = NoSession /\ run'[b] = Idle /\ trail'[b] = t
      /\ \A c \in Holders : c # b =>
           /\ bot'[c] = bot[c] /\ sess'[c] = sess[c] /\ run'[c] = run[c] /\ out'[c] = out[c]
           /\ trail'[c] = trail[c] /\ turn'[c] = turn[c]
  BY <1>1, <1>2, <1>3, <1>4, <1>5 DEF IInv, TypeOK, RunTypeOK
<1>10. Local(b)'
  BY <1>2, <1>7, <1>9, IdleFields DEF Local, Running, Completing, Showing, Reporting, Replying
<1>11. Asking'
  <2>1. ASSUME NEW c \in Holders, NEW p \in Prompts, Has(c, p)' PROVE Has(c, p)
    <3>1. c # b
      BY <1>9, <2>1 DEF Has, Busy
    <3> QED
      BY <1>9, <2>1, <3>1 DEF Has, Busy
  <2> QED
    BY <1>1, <2>1, AskingSame
<1>12. AnsweredOnce'
  <2>1. bot[b] = "sending" => faults' = faults + 1
    BY Faults DEF ends, crash
  <2> QED
    BY <1>1, <1>9, <2>1, AnswersKept
<1>13. started <= started'
  BY <1>1, Numbers
<1> QED
  BY <1>1, <1>7, <1>8, <1>9, <1>10, <1>11, <1>12, <1>13, BotStep

\* Somebody writes: a prompt is the next there is.
LEMMA WriteStep ==
    ASSUME IInv, NEW b \in Holders, write(b)
    PROVE  IInv'
<1>1. /\ sent < MaxUpdates /\ sent' = sent + 1
      /\ UNCHANGED <<messages, statuses, sess, run, out, ctx, faults>>
      /\ UNCHANGED <<bot, started, trail, turn, chat>>
  BY DEF write, runVars
<1>2. PICK u \in Updates :
         /\ u.kind = "prompt" => u.arg = asked + 1
         /\ asked' = asked + (IF u.kind = "prompt" THEN 1 ELSE 0)
         /\ updates' = [updates EXCEPT ![b] = Append(updates[b], u)]
  BY DEF write
<1>3. u.kind = "prompt" => u.arg \in Prompts /\ u = [kind |-> "prompt", arg |-> u.arg]
  BY PromptUpdate
<1>4. asked' \in 0..MaxPrompts /\ asked' \in Nat /\ asked \in Nat /\ asked <= asked'
  <2>1. u.kind = "prompt" => asked + 1 <= MaxPrompts
    BY <1>2, <1>3, Numbers
  <2> QED
    BY <1>2, <2>1, Numbers
<1>5. updates \in [Holders -> Seq(Updates)] /\ updates[b] \in Seq(Updates)
  BY DEF IInv, TypeOK
<1> DEFINE n == Len(updates[b]) + 1
<1>6. /\ updates'[b] = Append(updates[b], u) /\ \A c \in Holders : c # b => updates'[c] = updates[c]
      /\ updates' \in [Holders -> Seq(Updates)]
  BY <1>2, <1>5
<1>7. TypeOK'
  <2>1. sent' \in 0..MaxUpdates
    BY <1>1, Numbers
  <2> QED
    BY <1>1, <1>4, <1>6, <2>1 DEF IInv, TypeOK, RunTypeOK
\* What waits now waited before, or is the new prompt.
<1>8. ASSUME NEW c \in Holders, NEW p \in Prompts, NEW i \in DOMAIN updates'[c], Waits(c, i, p)'
      PROVE  \/ i \in DOMAIN updates[c] /\ Waits(c, i, p)
             \/ c = b /\ i = n /\ p = asked + 1 /\ asked' = asked + 1
  <2>1. CASE c = b /\ i = n
    <3>1. u = [kind |-> "prompt", arg |-> p]
      BY <1>5, <1>6, <1>8, <2>1 DEF Waits
    <3>2. u.kind = "prompt" /\ u.arg = p
      BY <3>1
    <3> QED
      BY <1>2, <2>1, <3>2
  <2>2. CASE c = b /\ i # n
    <3>1. i \in DOMAIN updates[b] /\ Append(updates[b], u)[i] = updates[b][i]
      BY <1>5, <1>6, <2>2
    <3> QED
      BY <1>6, <1>8, <2>2, <3>1 DEF Waits
  <2>3. CASE c # b
    BY <1>6, <1>8, <2>3 DEF Waits
  <2> QED
    BY <2>1, <2>2, <2>3
<1> HIDE DEF n
<1>9. \A c \in Holders, p \in Prompts : Has(c, p)' <=> Has(c, p)
  BY <1>1 DEF Has, Busy
<1>10. Asking
  BY DEF IInv
<1>11. \A c \in Holders, p \in Prompts : p = asked + 1 =>
          ~Has(c, p) /\ chat[p] = <<>> /\ \A i \in DOMAIN updates[c] : ~Waits(c, i, p)
  <2>1. \A p \in Prompts : p = asked + 1 => ~(p <= asked) /\ p > asked
    BY <1>4
  <2> QED
    BY <1>10, <2>1 DEF Asking
<1>12. Asking'
  <2>1. ASSUME NEW c \in Holders, NEW p \in Prompts, NEW i \in DOMAIN updates'[c], Waits(c, i, p)'
        PROVE  /\ p <= asked' /\ chat[p] = <<>>
               /\ \A h \in Holders : /\ ~Has(h, p)
                                     /\ \A j \in DOMAIN updates'[h] : Waits(h, j, p)' => c = h /\ i = j
    <3>1. CASE i \in DOMAIN updates[c] /\ Waits(c, i, p)
      <4>1. /\ p <= asked /\ chat[p] = <<>>
            /\ \A h \in Holders : /\ ~Has(h, p)
                                  /\ \A j \in DOMAIN updates[h] : Waits(h, j, p) => c = h /\ i = j
        BY <1>10, <3>1 DEF Asking
      <4>2. p # asked + 1 /\ p <= asked'
        BY <1>4, <4>1, Numbers
      <4>3. ASSUME NEW h \in Holders, NEW j \in DOMAIN updates'[h], Waits(h, j, p)'
            PROVE  c = h /\ i = j
        BY <1>8, <4>1, <4>2, <4>3
      <4> QED
        BY <4>1, <4>2, <4>3
    <3>2. CASE c = b /\ i = n /\ p = asked + 1 /\ asked' = asked + 1
      <4>1. chat[p] = <<>> /\ p <= asked' /\ \A h \in Holders : ~Has(h, p)
        BY <1>4, <1>11, <3>2
      <4>2. ASSUME NEW h \in Holders, NEW j \in DOMAIN updates'[h], Waits(h, j, p)'
            PROVE  c = h /\ i = j
        BY <1>8, <1>11, <3>2, <4>2
      <4> QED
        BY <4>1, <4>2
    <3> QED
      BY <1>8, <2>1, <3>1, <3>2
  <2>2. ASSUME NEW c \in Holders, NEW p \in Prompts, Has(c, p)
        PROVE  p <= asked' /\ \A h \in Holders : Has(h, p) => c = h
    <3>1. p <= asked /\ \A h \in Holders : Has(h, p) => c = h
      BY <1>10, <2>2 DEF Asking
    <3> QED
      BY <1>4, <3>1, Numbers
  <2>3. ASSUME NEW p \in Prompts, p > asked' PROVE chat[p] = <<>>
    <3>1. p > asked
      BY <1>4, <2>3, Numbers
    <3> QED
      BY <1>10, <3>1 DEF Asking
  <2> QED
    BY <1>1, <1>9, <2>1, <2>2, <2>3 DEF Asking
<1>13. AnsweredOnce' /\ Local(b)'
  BY <1>1, AnswersKept DEF IInv, Local, Running, Completing, Showing, Reporting, Replying
<1>14. started <= started' /\ (sess'[b].box => sess'[b].id <= started')
  BY <1>1, Numbers DEF IInv, Starting
<1> QED
  BY <1>1, <1>7, <1>12, <1>13, <1>14, BotStep

-----------------------------------------------------------------------------
(* What every bot keeps *)

\* The invariant holds at first.
LEMMA InitIInv == Init => IInv
<1> SUFFICES ASSUME Init PROVE IInv
  OBVIOUS
<1>1. 1 \in Ids /\ 1 \in Prompts /\ MaxSessions \in Nat /\ MaxPrompts \in Nat /\ MaxFaults \in Nat
      /\ MaxUpdates \in Nat /\ MaxCalls \in Nat
  BY RunAssumption, BotAssumption DEF Ids, Prompts
<1>2. NoSession \in Session /\ NoSession.box = FALSE
  BY <1>1 DEF NoSession, Session, Status
<1>3. NoTrail \in Trail /\ Whole(NoTrail)
  BY TrailFields DEF Whole
<1>4. NoPrompt \in InHand
  BY InHandFields
<1>5. TypeOK
  BY <1>1, <1>2, <1>3, <1>4, IdleFields DEF Init, TypeOK, RunTypeOK
<1>6. Starting
  BY <1>2 DEF Init, Starting
<1>7. Asking
  <2>1. \A b \in Holders : updates[b] = <<>> /\ bot[b] = "down" /\ DOMAIN updates[b] = {}
    BY DEF Init
  <2> QED
    BY <2>1 DEF Init, Asking, Has, Busy
<1>9. AnsweredOnce
  <2>1. \A p \in Prompts : chat[p] = <<>> /\ DOMAIN chat[p] = {}
    BY DEF Init
  <2>2. Cuts = {} /\ \A p \in Prompts : InOrder(p)
    BY <2>1 DEF Cuts, CutShort, InOrder
  <2>3. Cardinality(Cuts) <= faults
    BY <2>2, FS_EmptySet DEF Init
  <2> QED
    BY <2>2, <2>3, Answering
<1>8. \A b \in Holders : Local(b)
  BY <1>2, <1>3, IdleFields DEF Init, Local, Running, Completing, Showing, Reporting, Replying
<1> QED
  BY <1>5, <1>6, <1>7, <1>8, <1>9 DEF IInv

\* A step in which nothing happens keeps it.
LEMMA UnchangedIInv == IInv /\ UNCHANGED vars => IInv'
<1> SUFFICES ASSUME IInv, UNCHANGED vars PROVE IInv'
  OBVIOUS
<1>1. UNCHANGED <<messages, statuses, sess, run, out, ctx, faults>>
      /\ UNCHANGED <<bot, updates, sent, asked, started, trail, turn, chat>>
  BY DEF vars, runVars, botVars
<1>2. TypeOK' /\ Starting' /\ Asking'
  BY <1>1 DEF IInv, TypeOK, RunTypeOK, Starting, Asking, Waits, Has, Busy
<1>3. AnsweredOnce'
  <2>1. PICK b \in Holders : TRUE
    BY RunAssumption
  <2> QED
    BY <1>1, <2>1, AnswersKept
<1>4. \A b \in Holders : Local(b)'
  BY <1>1 DEF IInv, Local, Running, Completing, Showing, Reporting, Replying
<1> QED
  BY <1>2, <1>3, <1>4 DEF IInv

\* Every step keeps it.
LEMMA NextIInv == IInv /\ [Next]_vars => IInv'
<1> SUFFICES ASSUME IInv, [Next]_vars PROVE IInv'
  OBVIOUS
<1>1. CASE Turns
  BY <1>1, TurnKeeps DEF Turns
<1>2. ASSUME NEW b \in Holders, worker(b) PROVE IInv'
  BY <1>2, LeavesStep, HandleCommandStep, HandlePromptStep, HandlePromptFailsStep, EventStep,
     AnswerStep, SendChunkStep DEF worker
<1>3. ASSUME NEW b \in Holders, process(b) PROVE IInv'
  BY <1>3, BeginStep, CancelStep, DownStep DEF process
<1>4. CASE UNCHANGED vars
  BY <1>4, UnchangedIInv
<1> QED
  BY <1>1, <1>2, <1>3, <1>4, WriteStep DEF Next

\* The invariant of every bot holds always, whatever the people write and whichever
\* process ends, dies or is started again.
THEOREM Invariance == Spec => []IInv
  BY InitIInv, NextIInv, PTL DEF Spec

\* Every variable keeps its type.
THEOREM TypeCorrect == Spec => []TypeOK
<1>1. IInv => TypeOK
  BY DEF IInv
<1> QED
  BY <1>1, Invariance, PTL

\* A prompt gets one reply at most, the text whole in its chunks or a word that the turn
\* failed: its messages are sent once each, in order, whichever of them fail, and to the
\* last one but for one reply at each death of a process (handlePrompt, splitMessage,
\* send), however many bots, and whatever the texts.
THEOREM PromptsAreAnsweredOnce == Spec => []AnsweredOnce
<1>1. IInv => AnsweredOnce
  BY DEF IInv
<1> QED
  BY <1>1, Invariance, PTL

\* The progress of a turn is one message and those of which Telegram's word was lost, and
\* all of it was to be shown before the reply is said (statusMessage).
THEOREM TrailsAreShown == Spec => []TrailIsShown
<1>1. ASSUME IInv, NEW b \in Holders
      PROVE  trail[b].posted <= 1 + trail[b].unsure /\ (bot[b] = "sending" => ~trail[b].behind)
  <2>1. Whole(trail[b]) /\ Showing(b)
    BY <1>1 DEF IInv, Local, Showing
  <2>2. trail[b].id \in 0..1 /\ trail[b].unsure \in Nat /\ trail[b].posted = trail[b].id + trail[b].unsure
    BY <2>1 DEF Whole, Trail
  <2> QED
    BY <2>1, <2>2 DEF Showing
<1>2. IInv => TrailIsShown
  BY <1>1 DEF TrailIsShown
<1> QED
  BY <1>2, Invariance, PTL

-----------------------------------------------------------------------------
(* What the store keeps *)

\* A transcript is a prefix of another that has what it has, where it has it.
LEMMA Prefix ==
    ASSUME NEW p \in Seq(Message), NEW q \in Seq(Message)
    PROVE  IsPrefix(p, q) <=> Len(p) <= Len(q) /\ \A i \in 1..Len(p) : p[i] = q[i]
<1>1. Len(p) \in Nat /\ Len(q) \in Nat
  OBVIOUS
<1>2. ASSUME Len(p) <= Len(q)
      PROVE  (SubSeq(p, 1, Len(p)) = SubSeq(q, 1, Len(p))) <=> \A i \in 1..Len(p) : p[i] = q[i]
  <2> DEFINE a == SubSeq(q, 1, Len(p))
  <2>1. SubSeq(p, 1, Len(p)) = p
    BY SubSeqFull
  <2>2. a \in Seq(Message) /\ Len(a) = Len(p) /\ \A i \in 1..Len(p) : a[i] = q[i]
    BY <1>1, <1>2
  <2> HIDE DEF a
  <2>3. ASSUME \A i \in 1..Len(p) : p[i] = q[i] PROVE p = a
    <3>1. \A i \in 1..Len(p) : p[i] = a[i]
      BY <2>2, <2>3
    <3> QED
      BY <2>2, <3>1, SeqEqual
  <2>4. SubSeq(q, 1, Len(p)) = a
    BY DEF a
  <2> QED
    BY <2>1, <2>2, <2>3, <2>4
<1> QED
  BY <1>2 DEF IsPrefix

\* A transcript is a prefix of itself, and of one that grows from what it is a prefix of.
LEMMA PrefixGrows ==
    ASSUME NEW p \in Seq(Message), NEW q \in Seq(Message), NEW m \in Message
    PROVE  /\ IsPrefix(p, p) /\ IsPrefix(<<>>, q)
           /\ IsPrefix(p, q) => IsPrefix(p, Append(q, m))
<1>1. Len(p) \in Nat /\ Len(q) \in Nat /\ <<>> \in Seq(Message) /\ Len(<<>>) = 0
  OBVIOUS
<1>2. IsPrefix(p, p)
  BY <1>1, Prefix
<1>3. IsPrefix(<<>>, q)
  <2>1. Len(<<>>) <= Len(q) /\ 1..Len(<<>>) = {}
    BY <1>1
  <2> QED
    BY <1>1, <2>1, Prefix
<1>4. ASSUME IsPrefix(p, q) PROVE IsPrefix(p, Append(q, m))
  <2>1. Len(p) <= Len(q) /\ \A i \in 1..Len(p) : p[i] = q[i]
    BY <1>4, Prefix
  <2>2. /\ Append(q, m) \in Seq(Message) /\ Len(Append(q, m)) = Len(q) + 1
        /\ \A i \in 1..Len(q) : Append(q, m)[i] = q[i]
    OBVIOUS
  <2>3. Len(p) <= Len(Append(q, m)) /\ \A i \in 1..Len(p) : i \in 1..Len(q)
    BY <1>1, <2>1, <2>2
  <2>4. \A i \in 1..Len(p) : p[i] = Append(q, m)[i]
    BY <2>1, <2>2, <2>3
  <2> QED
    BY <2>2, <2>3, <2>4, Prefix
<1> QED
  BY <1>2, <1>3, <1>4

\* A prefix and what comes after it are the whole.
LEMMA PrefixCompletes ==
    ASSUME NEW p \in Seq(Message), NEW q \in Seq(Message), IsPrefix(p, q)
    PROVE  p \o SubSeq(q, Len(p) + 1, Len(q)) = q
<1> DEFINE r == SubSeq(q, Len(p) + 1, Len(q))
<1>1. Len(p) \in Nat /\ Len(q) \in Nat /\ Len(p) <= Len(q) /\ \A i \in 1..Len(p) : p[i] = q[i]
  BY Prefix
<1>2. r \in Seq(Message) /\ Len(r) = Len(q) - Len(p) /\ \A i \in 1..(Len(q) - Len(p)) : r[i] = q[i + Len(p)]
  BY <1>1
<1> HIDE DEF r
<1>3. p \o r \in Seq(Message) /\ Len(p \o r) = Len(q)
  BY <1>1, <1>2
<1>4. ASSUME NEW i \in 1..Len(q) PROVE (p \o r)[i] = q[i]
  <2>1. CASE i <= Len(p)
    <3>1. i \in 1..Len(p)
      BY <1>1, <2>1
    <3>2. (p \o r)[i] = p[i]
      BY <1>2, <3>1
    <3> QED
      BY <1>1, <3>1, <3>2
  <2>2. CASE ~(i <= Len(p))
    <3>1. i - Len(p) \in 1..(Len(q) - Len(p)) /\ i - Len(p) + Len(p) = i
      BY <1>1, <2>2
    <3>2. (p \o r)[i] = r[i - Len(p)]
      BY <1>1, <1>2, <2>2
    <3> QED
      BY <1>2, <3>1, <3>2
  <2> QED
    BY <2>1, <2>2
<1>5. p \o r = q
  BY <1>3, <1>4, SeqEqual
<1> QED
  BY <1>5 DEF r

\* What is stored of the session a bot has, and the session, are transcripts.
LEMMA StoredType ==
    ASSUME IInv, NEW b \in Holders
    PROVE  /\ stored(b) \in Seq(Message) /\ sess[b] \in Session /\ sess[b].messages \in Seq(Message)
           /\ sess[b].id \in Ids
<1>1. sess[b] \in Session /\ messages \in [Ids -> Seq(Message)]
  BY DEF IInv, TypeOK, RunTypeOK
<1>2. sess[b].messages \in Seq(Message) /\ sess[b].id \in Ids
  BY <1>1 DEF Session
<1> QED
  BY <1>1, <1>2 DEF stored

\* A step of one bot that does not write to the store leaves what is stored of the
\* other sessions.
LEMMA BotSaves ==
    ASSUME SInv, NEW b \in Holders, messages' = messages, statuses' = statuses,
           AnswersAreStored', Saving(b)', Promising(b)',
           \A c \in Holders : c # b => /\ sess'[c] = sess[c] /\ run'[c] = run[c] /\ bot'[c] = bot[c]
                                      /\ turn'[c] = turn[c]
    PROVE  SInv'
<1>1. Completed'
  BY DEF SInv, Completed
<1>2. ASSUME NEW c \in Holders PROVE Saving(c)' /\ Promising(c)'
  <2>1. CASE c # b
    <3>1. Saving(c) /\ Promising(c)
      BY DEF SInv
    <3> QED
      BY <2>1, <3>1 DEF Saving, stored, Promising, Answered
  <2> QED
    BY <2>1
<1> QED
  BY <1>1, <1>2 DEF SInv

\* What is stored stays, and nothing is sent that is an answer.
LEMMA StaysStored ==
    ASSUME SInv, messages' = messages, chat' = chat
    PROVE  /\ AnswersAreStored' /\ \A p : Answered(p) => Answered(p)'
  BY DEF SInv, AnswersAreStored, Answered

\* A step of a turn that does not write: the session is as it was or has one message
\* more.
LEMMA TurnSaves ==
    ASSUME IInv, SInv, NEW b \in Holders, run[b].pc # "idle", NEW s \in Session, NEW r \in Goroutine,
           sess' = [sess EXCEPT ![b] = s], run' = [run EXCEPT ![b] = r],
           messages' = messages, statuses' = statuses, UNCHANGED botVars,
           s.id = sess[b].id,
           \/ s.messages = sess[b].messages
           \/ \E m \in Message : s.messages = Append(sess[b].messages, m),
           r.pc # "top", r.pc = "commit" => r.stored = Len(stored(b)),
           r.then = "done" => stored(b) = s.messages /\ isAnswer(Last(s.messages))
    PROVE  SInv'
<1>1. /\ sess'[b] = s /\ run'[b] = r /\ bot' = bot /\ chat' = chat /\ turn' = turn
      /\ \A c \in Holders : c # b => sess'[c] = sess[c] /\ run'[c] = run[c]
  BY DEF IInv, TypeOK, RunTypeOK, botVars
<1>2. AnswersAreStored' /\ Promising(b)'
  BY <1>1, StaysStored DEF SInv, Promising
<1>3. stored(b)' = stored(b)
  BY <1>1 DEF stored
<1>4. IsPrefix(stored(b), s.messages)
  <2>1. IsPrefix(stored(b), sess[b].messages)
    BY TurnRuns DEF SInv, Saving
  <2> QED
    BY <2>1, StoredType, PrefixGrows
<1>5. Saving(b)'
  BY <1>1, <1>3, <1>4 DEF Saving
<1> QED
  BY <1>1, <1>2, <1>5, BotSaves

\* The turn fails, and nothing is written yet.
LEMMA FailSaves ==
    ASSUME IInv, SInv, NEW b \in Holders, run[b].pc # "idle", fail(b), UNCHANGED <<store, botVars>>
    PROVE  SInv'
<1> DEFINE s == [sess[b] EXCEPT !.status = "failed"]
           r == [run[b] EXCEPT !.pc = "count", !.then = "failed"]
<1>1. sess[b] \in Session /\ run[b] \in Goroutine
  BY TurnRuns
<1>2. sess' = [sess EXCEPT ![b] = s] /\ run' = [run EXCEPT ![b] = r]
  BY DEF fail, saves
<1>3. s \in Session /\ s.messages = sess[b].messages /\ s.id = sess[b].id
  BY <1>1 DEF Session, Status
<1>4. r \in Goroutine /\ r.pc = "count" /\ r.then = "failed"
  BY <1>1 DEF Goroutine
<1> HIDE DEF s, r
<1>5. messages' = messages /\ statuses' = statuses
  BY DEF store
<1> QED
  BY <1>2, <1>3, <1>4, <1>5, TurnSaves

\* The goroutine goes on, its session as it was and what comes after as it was.
LEMMA GoSaves ==
    ASSUME IInv, SInv, NEW b \in Holders, run[b].pc # "idle", NEW r \in Goroutine,
           run' = [run EXCEPT ![b] = r], r.pc # "top", r.pc = "commit" => r.stored = Len(stored(b)),
           r.then = run[b].then, UNCHANGED <<store, sess, botVars>>
    PROVE  SInv'
<1>1. sess[b] \in Session /\ sess[b].box /\ bot[b] = "turn"
  BY TurnRuns
<1>2. sess' = [sess EXCEPT ![b] = sess[b]]
  BY DEF IInv, TypeOK, RunTypeOK
<1>3. messages' = messages /\ statuses' = statuses
  BY DEF store
<1>4. r.then = "done" => stored(b) = sess[b].messages /\ isAnswer(Last(sess[b].messages))
  BY <1>1 DEF SInv, Saving
<1> QED
  BY <1>1, <1>2, <1>3, <1>4, TurnSaves

\* The head of the loop: an answer that it finds was saved.
LEMMA TopSaves ==
    ASSUME IInv, SInv, NEW b \in Holders, top(b), UNCHANGED botVars
    PROVE  SInv'
<1> DEFINE last == Last(sess[b].messages)
<1>1. run[b].pc = "top" /\ run[b].pc # "idle" /\ UNCHANGED <<store, botVars>>
  BY DEF top
<1>2. run[b] \in Goroutine /\ sess[b] \in Session /\ last \in Message /\ sess[b].box
  BY <1>1, TurnRuns
<1>3. CASE fail(b)
  BY <1>1, <1>3, FailSaves
<1>4. CASE UNCHANGED sess /\ run' = [run EXCEPT ![b].pc = "tools", ![b].left = last.calls]
  <2> DEFINE r == [run[b] EXCEPT !.pc = "tools", !.left = last.calls]
  <2>1. run' = [run EXCEPT ![b] = r]
    BY <1>4
  <2>2. last.calls \in 0..MaxCalls
    BY <1>2, MessageFields
  <2>3. r \in Goroutine /\ r.pc = "tools" /\ r.then = run[b].then
    BY <1>2, <2>2 DEF Goroutine
  <2> HIDE DEF r, last
  <2> QED
    BY <1>1, <1>4, <2>1, <2>3, GoSaves
<1>5. CASE isAnswer(last) /\ sess' = [sess EXCEPT ![b].status = "completed"] /\ saves(b, "done")
  <2> DEFINE s == [sess[b] EXCEPT !.status = "completed"]
             r == [run[b] EXCEPT !.pc = "count", !.then = "done"]
  <2>1. sess' = [sess EXCEPT ![b] = s] /\ run' = [run EXCEPT ![b] = r]
    BY <1>5 DEF saves
  <2>2. s \in Session /\ s.messages = sess[b].messages /\ s.id = sess[b].id
    BY <1>2 DEF Session, Status
  <2>3. r \in Goroutine /\ r.pc = "count" /\ r.then = "done"
    BY <1>2 DEF Goroutine
  <2>4. stored(b) = sess[b].messages /\ isAnswer(Last(sess[b].messages))
    BY <1>1, <1>2, <1>5 DEF SInv, Saving
  <2> HIDE DEF s, r, last
  <2>5. messages' = messages /\ statuses' = statuses
    BY <1>1 DEF store
  <2> QED
    BY <1>1, <2>1, <2>2, <2>3, <2>4, <2>5, TurnSaves
<1>6. CASE goto(b, "model") /\ UNCHANGED sess
  <2> DEFINE r == [run[b] EXCEPT !.pc = "model"]
  <2>1. run' = [run EXCEPT ![b] = r]
    BY <1>6 DEF goto
  <2>2. r \in Goroutine /\ r.pc = "model" /\ r.then = run[b].then
    BY <1>2 DEF Goroutine
  <2> HIDE DEF r, last
  <2> QED
    BY <1>1, <1>6, <2>1, <2>2, GoSaves
<1> QED
  BY <1>3, <1>4, <1>5, <1>6 DEF top

\* A message joins the session, and is yet to be saved.
LEMMA AppendSaves ==
    ASSUME IInv, SInv, NEW b \in Holders, run[b].pc # "idle", NEW m \in Message,
           sess' = [sess EXCEPT ![b].messages = Append(@, m)],
           NEW r \in Goroutine, run' = [run EXCEPT ![b] = r], r.pc \in {"tools", "count"},
           r.then = "loop", UNCHANGED <<store, botVars>>
    PROVE  SInv'
<1> DEFINE q == Append(sess[b].messages, m) s == [sess[b] EXCEPT !.messages = q]
<1>1. sess[b] \in Session /\ sess[b].messages \in Seq(Message)
  BY TurnRuns
<1>2. q \in Seq(Message)
  BY <1>1, Transcript
<1>3. sess' = [sess EXCEPT ![b] = s]
  OBVIOUS
<1> HIDE DEF q
<1>4. s \in Session /\ s.messages = q /\ s.id = sess[b].id
  BY <1>1, <1>2 DEF Session
<1> HIDE DEF s
<1>5. messages' = messages /\ statuses' = statuses
  BY DEF store
<1>6. \E n \in Message : s.messages = Append(sess[b].messages, n)
  BY <1>4 DEF q
<1> QED
  BY <1>1, <1>3, <1>4, <1>5, <1>6, TurnSaves

\* The model answers, or a tool.
LEMMA AnswersSaves ==
    ASSUME IInv, SInv, NEW b \in Holders, answers(b) \/ dispatch(b), UNCHANGED botVars
    PROVE  SInv'
<1>1. run[b].pc \in {"model", "tools"} /\ run[b].pc # "idle" /\ UNCHANGED store
  BY DEF answers, dispatch
<1>2. run[b] \in Goroutine /\ Last(sess[b].messages).by \in Prompts
  BY <1>1, TurnRuns
<1>3. CASE answers(b)
  <2>1. PICK n \in 0..MaxCalls :
           sess' = [sess EXCEPT ![b].messages = Append(@, assistant(n, Last(@).by))]
    BY <1>3 DEF answers
  <2> DEFINE m == assistant(n, Last(sess[b].messages).by)
             r == [run[b] EXCEPT !.pc = "count", !.then = "loop"]
  <2>2. m \in Message
    BY <1>2, Messages
  <2>3. run' = [run EXCEPT ![b] = r] /\ r \in Goroutine /\ r.pc = "count" /\ r.then = "loop"
    BY <1>2, <1>3 DEF answers, saves, Goroutine
  <2>4. sess' = [sess EXCEPT ![b].messages = Append(@, m)]
    BY <2>1
  <2> HIDE DEF m, r
  <2> QED
    BY <1>1, <2>2, <2>3, <2>4, AppendSaves
<1>4. CASE dispatch(b)
  <2> DEFINE m == toolResultMsg(Last(sess[b].messages).by)
             l == run[b].left - 1
             k == IF run[b].left = 1 THEN "count" ELSE "tools"
             r == [run[b] EXCEPT !.left = l, !.pc = k, !.then = "loop"]
  <2>1. run[b].pc = "tools" /\ m \in Message
    BY <1>2, <1>4, Messages DEF dispatch
  <2>2. run' = [run EXCEPT ![b] = r] /\ sess' = [sess EXCEPT ![b].messages = Append(@, m)]
    BY <1>4, <2>1 DEF dispatch
  <2>3. l \in 0..MaxCalls /\ k \in {"tools", "count"}
    <3>1. run[b].left \in 0..MaxCalls /\ run[b].left > 0 /\ MaxCalls \in Nat
      BY <1>2, <2>1, RunAssumption DEF Goroutine, IInv, Local, Running
    <3> QED
      BY <3>1
  <2> HIDE DEF l, k, m
  <2>4. r \in Goroutine /\ r.pc = k /\ r.then = "loop"
    BY <1>2, <2>3 DEF Goroutine
  <2> HIDE DEF r
  <2> QED
    BY <1>1, <2>1, <2>2, <2>3, <2>4, AppendSaves
<1> QED
  BY <1>3, <1>4

\* The last event, the count of a Save, or a Save that did not work.
LEMMA OtherSaves ==
    ASSUME IInv, SInv, NEW b \in Holders, UNCHANGED botVars,
           lastEvent(b) \/ storedCount(b) \/ saveRefused(b) \/ rollback(b)
    PROVE  SInv'
<1>1. run[b].pc \in {"last", "count", "commit"} /\ run[b].pc # "idle" /\ UNCHANGED store
  BY DEF lastEvent, storedCount, saveRefused, rollback
<1>2. run[b] \in Goroutine
  BY <1>1, TurnRuns
<1>3. ASSUME NEW k \in {"last", "closed"}, goto(b, k), UNCHANGED sess PROVE SInv'
  <2> DEFINE r == [run[b] EXCEPT !.pc = k]
  <2>1. run' = [run EXCEPT ![b] = r] /\ r \in Goroutine /\ r.pc = k /\ r.then = run[b].then
    BY <1>2, <1>3 DEF goto, Goroutine
  <2> HIDE DEF r
  <2> QED
    BY <1>1, <1>3, <2>1, GoSaves
<1>4. CASE storedCount(b)
  <2> DEFINE l == Len(messages[sess[b].id]) r == [run[b] EXCEPT !.pc = "commit", !.stored = l]
  <2>1. run' = [run EXCEPT ![b] = r] /\ UNCHANGED sess
    BY <1>4 DEF storedCount
  <2>2. l \in Nat /\ l = Len(stored(b))
    BY StoredType DEF stored
  <2> HIDE DEF l
  <2>3. r \in Goroutine /\ r.pc = "commit" /\ r.then = run[b].then /\ r.stored = l
    BY <1>2, <2>2 DEF Goroutine
  <2> HIDE DEF r
  <2> QED
    BY <1>1, <2>1, <2>2, <2>3, GoSaves
<1>5. CASE saveError(b)
  BY <1>1, <1>3, <1>5, FailSaves DEF saveError
<1> QED
  BY <1>3, <1>4, <1>5 DEF lastEvent, saveRefused, rollback

\* The transaction stores the session as it is, and no session that another bot has.
LEMMA CommitSaves ==
    ASSUME IInv, SInv, Apart, NEW b \in Holders, commit(b), UNCHANGED botVars
    PROVE  SInv'
<1> DEFINE k == IF run[b].then = "loop" THEN "top" ELSE "last"
           r == [run[b] EXCEPT !.pc = k, !.stored = 0]
<1>1. /\ run[b].pc = "commit" /\ run[b].pc # "idle" /\ UNCHANGED sess
      /\ messages' = [messages EXCEPT ![sess[b].id] = stored(b) \o appended(b)]
      /\ statuses' = [statuses EXCEPT ![sess[b].id] = sess[b].status]
      /\ run' = [run EXCEPT ![b] = r]
  BY DEF commit, stored
<1>2. /\ run[b] \in Goroutine /\ sess[b] \in Session /\ sess[b].box /\ bot[b] = "turn"
      /\ sess[b].messages # <<>> /\ sess[b].id \in Ids
  BY <1>1, TurnRuns
<1>3. /\ stored(b) \in Seq(Message) /\ sess[b].messages \in Seq(Message) /\ Saving(b)
      /\ IsPrefix(stored(b), sess[b].messages) /\ run[b].stored = Len(stored(b))
  BY <1>1, <1>2, StoredType DEF SInv, Saving
<1>4. stored(b) \o appended(b) = sess[b].messages
  BY <1>3, PrefixCompletes DEF appended
<1>5. /\ messages'[sess[b].id] = sess[b].messages /\ statuses'[sess[b].id] = sess[b].status
      /\ \A id \in Ids : id # sess[b].id => messages'[id] = messages[id] /\ statuses'[id] = statuses[id]
  BY <1>1, <1>2, <1>4 DEF IInv, TypeOK, RunTypeOK
<1>6. k \in {"top", "last"}
  OBVIOUS
<1> HIDE DEF k
<1>7. r.pc = k /\ r.then = run[b].then
  BY <1>2, <1>6 DEF Goroutine
<1> HIDE DEF r
<1>8. /\ run'[b] = r /\ bot' = bot /\ chat' = chat /\ turn' = turn
      /\ \A c \in Holders : c # b => run'[c] = run[c]
  BY <1>1 DEF IInv, TypeOK, RunTypeOK, botVars
<1>9. Completed'
  <2>1. ASSUME NEW id \in Ids, statuses'[id] = "completed"
        PROVE  messages'[id] # <<>> /\ isAnswer(Last(messages'[id]))
    <3>1. CASE id = sess[b].id
      <4>1. run[b].then = "done"
        BY <1>2, <1>5, <2>1, <3>1 DEF IInv, Local, Completing
      <4>2. isAnswer(Last(sess[b].messages))
        BY <1>2, <1>3, <4>1 DEF Saving
      <4> QED
        BY <1>2, <1>5, <3>1, <4>2
    <3>2. CASE id # sess[b].id
      BY <1>5, <2>1, <3>2 DEF SInv, Completed
    <3> QED
      BY <3>1, <3>2
  <2> QED
    BY <2>1 DEF Completed
<1>10. AnswersAreStored' /\ \A p : Answered(p) => Answered(p)'
  <2>1. ASSUME NEW id \in Ids, NEW i \in DOMAIN messages[id]
        PROVE  i \in DOMAIN messages'[id] /\ messages'[id][i] = messages[id][i]
    <3>1. CASE id = sess[b].id
      <4>1. Len(stored(b)) <= Len(sess[b].messages) /\ \A j \in 1..Len(stored(b)) : stored(b)[j] = sess[b].messages[j]
        BY <1>3, Prefix
      <4>2. stored(b) = messages[id] /\ i \in 1..Len(stored(b))
        BY <1>3, <2>1, <3>1 DEF stored
      <4>3. i \in 1..Len(sess[b].messages)
        BY <1>3, <4>1, <4>2
      <4> QED
        BY <1>3, <1>5, <3>1, <4>1, <4>2, <4>3
    <3>2. CASE id # sess[b].id
      BY <1>5, <3>2
    <3> QED
      BY <3>1, <3>2
  <2> QED
    BY <1>8, <2>1 DEF SInv, AnswersAreStored, Answered
<1>12. \A c \in Holders : Promising(c)'
  BY <1>8, <1>10 DEF SInv, Promising
<1>11. ASSUME NEW c \in Holders PROVE Saving(c)'
  <2>1. CASE c = b
    <3>1. stored(b)' = sess[b].messages /\ sess'[b] = sess[b]
      BY <1>1, <1>5 DEF stored
    <3>2. IsPrefix(sess[b].messages, sess[b].messages)
      <4>1. Last(sess[b].messages) \in Message
        BY <1>1, TurnRuns
      <4> QED
        BY <1>3, <4>1, PrefixGrows
    <3>3. run'[b].pc # "commit" /\ run'[b].then = run[b].then /\ bot'[b] = bot[b]
      BY <1>6, <1>7, <1>8
    <3> QED
      BY <1>2, <1>3, <2>1, <3>1, <3>2, <3>3 DEF Saving
  <2>2. CASE c # b
    <3>1. Saving(c) /\ sess'[c] = sess[c] /\ run'[c] = run[c] /\ bot'[c] = bot[c]
      BY <1>1, <1>8, <2>2 DEF SInv
    <3>2. sess[c].box => stored(c)' = stored(c)
      <4>1. sess[c].box => sess[c].id # sess[b].id
        BY <1>2, <2>2 DEF Apart
      <4> QED
        BY <1>5, <3>1, <4>1, StoredType DEF stored
    <3> QED
      BY <3>1, <3>2 DEF Saving
  <2> QED
    BY <2>1, <2>2
<1> QED
  BY <1>9, <1>10, <1>11, <1>12 DEF SInv

\* A bot that takes another session has what is stored of it.
LEMMA HoldingSaves ==
    ASSUME IInv, SInv, NEW b \in Holders, run[b] = Idle, run' = run, messages' = messages,
           startSession(b) \/ \E id \in Ids : resumeSession(b, id), bot'[b] = "idle"
    PROVE  Saving(b)' /\ \A c \in Holders : c # b => sess'[c] = sess[c]
<1>1. PICK id \in Ids, s \in Session :
         /\ sess' = [sess EXCEPT ![b] = s] /\ s.id = id /\ s.messages = messages[id]
  <2>1. CASE startSession(b)
    <3>1. started + 1 \in Ids /\ sess' = [sess EXCEPT ![b] = NewSession(started + 1)]
      BY <2>1, Numbers DEF startSession, holds, Ids
    <3>2. messages[started + 1] = <<>>
      <4>1. started + 1 > started
        BY Numbers
      <4> QED
        BY <3>1, <4>1 DEF IInv, Starting
    <3>3. /\ NewSession(started + 1) \in Session /\ NewSession(started + 1).id = started + 1
          /\ NewSession(started + 1).messages = messages[started + 1]
      BY <3>1, <3>2, Sessions
    <3> QED
      BY <3>1, <3>3
  <2>2. CASE \E id \in Ids : resumeSession(b, id)
    <3>1. PICK id \in Ids : statuses[id] # "none" /\ sess' = [sess EXCEPT ![b] = Resumed(id)]
      BY <2>2 DEF resumeSession, holds
    <3>2. Resumed(id) \in Session /\ Resumed(id).id = id /\ Resumed(id).messages = messages[id]
      BY <3>1, Sessions
    <3> QED
      BY <3>1, <3>2
  <2> QED
    BY <2>1, <2>2
<1>2. sess'[b] = s /\ \A c \in Holders : c # b => sess'[c] = sess[c]
  BY <1>1 DEF IInv, TypeOK, RunTypeOK
<1>3. messages[id] \in Seq(Message) /\ \A m \in Message : IsPrefix(messages[id], messages[id])
  BY <1>1, PrefixGrows DEF IInv, TypeOK, RunTypeOK
<1>4. IsPrefix(messages[id], messages[id])
  <2>1. 1 \in Prompts
    BY RunAssumption DEF Prompts
  <2> QED
    BY <1>3, <2>1, Messages
<1>5. Saving(b)'
  BY <1>1, <1>2, <1>4, IdleFields DEF Saving, stored
<1> QED
  BY <1>2, <1>5

\* A bot that is prompted: what is stored is still a prefix, and the last message is
\* not an answer.
LEMMA PromptedSaves ==
    ASSUME IInv, SInv, NEW b \in Holders, takes(b, {"prompt"}), messages' = messages,
           sess' = [sess EXCEPT ![b] = prompted(@, Head(updates[b]).arg)],
           run'[b].pc \in {"idle", "top"}, run'[b].then = "loop"
    PROVE  Saving(b)' /\ \A c \in Holders : c # b => sess'[c] = sess[c]
<1> DEFINE p == Head(updates[b]).arg s == prompted(sess[b], p)
<1>1. p \in Prompts /\ stored(b) \in Seq(Message) /\ sess[b] \in Session /\ sess[b].messages \in Seq(Message)
  BY PromptTaken, StoredType
<1> HIDE DEF p
<1>2. /\ s.id = sess[b].id /\ s.box = sess[b].box /\ s.messages = Append(sess[b].messages, user(p))
      /\ Last(s.messages) = user(p)
  BY <1>1, Prompted
<1>3. ~isAnswer(Last(s.messages)) /\ user(p) \in Message
  BY <1>1, <1>2, Messages DEF isAnswer
<1> HIDE DEF s
<1>4. sess'[b] = s /\ \A c \in Holders : c # b => sess'[c] = sess[c]
  BY DEF IInv, TypeOK, RunTypeOK, s, p
<1>5. stored(b)' = stored(b)
  BY <1>2, <1>4 DEF stored
<1>6. s.box => IsPrefix(stored(b), s.messages)
  BY <1>1, <1>2, <1>3, PrefixGrows DEF SInv, Saving
<1>7. Saving(b)'
  BY <1>3, <1>4, <1>5, <1>6 DEF Saving
<1> QED
  BY <1>4, <1>7

\* An answer that is to be said was stored.
LEMMA AnswerStored ==
    ASSUME IInv, SInv, NEW b \in Holders, answer(b), ~turn[b].failed
    PROVE  Answered(turn[b].prompt)
<1> DEFINE p == turn[b].prompt
<1>1. bot[b] = "turn" /\ run[b].pc = "closed" /\ out[b] = <<>> /\ p \in Prompts
  BY Closing
<1>2. run[b].then = "done"
  BY <1>1 DEF IInv, Local, Reporting
<1>3. /\ sess[b].box /\ sess[b].messages # <<>> /\ sess[b].id \in Ids
      /\ sess[b].messages \in Seq(Message) /\ Last(sess[b].messages) \in Message
  BY <1>1, TurnRuns
<1>4. stored(b) = sess[b].messages /\ isAnswer(Last(sess[b].messages))
  BY <1>1, <1>2, <1>3 DEF SInv, Saving
<1>5. Last(sess[b].messages) = assistant(0, p)
  <2>1. Last(sess[b].messages).by = p
    BY <1>1 DEF IInv, Local, Running
  <2> QED
    BY <1>3, <1>4, <2>1, MessageFields
<1>6. Len(sess[b].messages) \in DOMAIN sess[b].messages
  BY <1>3
<1>7. messages[sess[b].id] = sess[b].messages
  BY <1>4 DEF stored
<1>8. sess[b].messages[Len(sess[b].messages)] = assistant(0, p)
  BY <1>5 DEF Last
<1> QED
  BY <1>3, <1>6, <1>7, <1>8 DEF Answered

\* A message of a reply is sent, and if it is of an answer that is stored.
LEMMA SendChunkSaves ==
    ASSUME IInv, SInv, NEW b \in Holders, sendChunk(b)
    PROVE  SInv'
<1> DEFINE p == turn[b].prompt  r == turn[b].reply  n == turn[b].part
<1>1. /\ bot[b] = "sending" /\ p \in Prompts /\ DOMAIN chat'[p] = 1..n
      /\ \A i \in 1..n : chat'[p][i].reply = r
      /\ \A q \in Prompts : q # p => chat'[q] = chat[q]
  BY Sending
<1>2. PICK h \in InHand, k \in {"idle", "sending"}, t \in Trail :
         /\ turn' = [turn EXCEPT ![b] = h] /\ bot' = [bot EXCEPT ![b] = k]
         /\ k = "sending" => h.prompt = p /\ h.reply = r
  BY SentOn
<1>3. Promising(b) /\ AnswersAreStored /\ Saving(b)
  BY DEF SInv
<1>4. r.kind = "answer" => Answered(p)
  BY <1>1, <1>3 DEF Promising
<1> HIDE DEF p, r, n
<1>5. UNCHANGED <<messages, statuses, sess, run>>
  BY DEF sendChunk, store
<1>6. /\ bot'[b] = k /\ turn'[b] = h
      /\ \A c \in Holders : c # b => bot'[c] = bot[c] /\ turn'[c] = turn[c]
  BY <1>2 DEF IInv, TypeOK
<1>7. \A q : Answered(q) => Answered(q)'
  BY <1>5 DEF Answered
<1>8. AnswersAreStored'
  <2>1. ASSUME NEW q \in Prompts, NEW i \in DOMAIN chat'[q],
               chat'[q][i].reply.kind = "answer", chat'[q][i].came
        PROVE  Answered(q)
    <3>1. CASE q = p
      BY <1>1, <1>4, <2>1, <3>1
    <3>2. CASE q # p
      BY <1>1, <1>3, <2>1, <3>2 DEF AnswersAreStored, Answered
    <3> QED
      BY <3>1, <3>2
  <2> QED
    BY <1>5, <2>1 DEF AnswersAreStored, Answered
<1>9. Promising(b)'
  BY <1>2, <1>4, <1>6, <1>7 DEF Promising
<1>10. Saving(b)'
  BY <1>1, <1>2, <1>3, <1>5, <1>6 DEF Saving, stored
<1>11. messages' = messages /\ statuses' = statuses /\ sess' = sess /\ run' = run
  BY <1>5
<1> QED
  BY <1>6, <1>8, <1>9, <1>10, <1>11, BotSaves

\* The steps of the worker.
LEMMA WorkerSaves ==
    ASSUME IInv, SInv, NEW b \in Holders, worker(b)
    PROVE  SInv'
<1>1. CASE leaves(b) \/ event(b)
  <2>1. /\ UNCHANGED <<messages, statuses, sess, run, bot, chat>>
        /\ bot[b] # "sending" /\ \A c \in Holders : c # b => turn'[c] = turn[c]
    BY <1>1 DEF leaves, takes, event, runVars, store, IInv, TypeOK
  <2>2. Saving(b)' /\ Promising(b)'
    BY <2>1 DEF SInv, Saving, stored, Promising
  <2> QED
    BY <2>1, <2>2, StaysStored, BotSaves
<1>2. CASE handleCommand(b)
  <2>1. /\ updates[b] # <<>> /\ updates' = [updates EXCEPT ![b] = Tail(updates[b])] /\ bot[b] = "idle"
        /\ Head(updates[b]).kind \in {"new", "resume"}
        /\ UNCHANGED <<messages, statuses, run, bot, turn, chat>>
    BY <1>2 DEF handleCommand, takes, store
  <2>2. startSession(b) \/ \E id \in Ids : resumeSession(b, id)
    <3>1. Head(updates[b]) \in Updates
      BY <2>1, UpdatesTaken
    <3>2. Head(updates[b]).kind # "new" => Head(updates[b]).arg \in Ids
      BY <2>1, <3>1 DEF Updates
    <3> QED
      BY <1>2, <3>2 DEF handleCommand
  <2>3. run[b] = Idle
    BY <2>1 DEF IInv, Local, Running
  <2>4. Saving(b)' /\ \A c \in Holders : c # b => sess'[c] = sess[c]
    BY <2>1, <2>2, <2>3, HoldingSaves
  <2>5. AnswersAreStored' /\ Promising(b)'
    BY <2>1, StaysStored DEF Promising
  <2> QED
    BY <2>1, <2>4, <2>5, BotSaves
<1>3. CASE handlePrompt(b)
  <2>1. /\ takes(b, {"prompt"}) /\ sess' = [sess EXCEPT ![b] = prompted(@, Head(updates[b]).arg)]
        /\ bot' = [bot EXCEPT ![b] = "turn"] /\ run' = [run EXCEPT ![b] = [Idle EXCEPT !.pc = "top"]]
        /\ UNCHANGED <<messages, statuses, chat>> /\ \A c \in Holders : c # b => turn'[c] = turn[c]
    BY <1>3 DEF handlePrompt, Run, store, IInv, TypeOK
  <2>2. /\ run'[b] = [Idle EXCEPT !.pc = "top"] /\ bot'[b] = "turn"
        /\ \A c \in Holders : c # b => run'[c] = run[c] /\ bot'[c] = bot[c]
    BY <2>1 DEF IInv, TypeOK, RunTypeOK
  <2>3. Saving(b)' /\ \A c \in Holders : c # b => sess'[c] = sess[c]
    <3>1. run'[b].pc = "top" /\ run'[b].then = "loop"
      BY <2>2, IdleFields
    <3> QED
      BY <2>1, <3>1, PromptedSaves
  <2>4. AnswersAreStored' /\ Promising(b)'
    BY <2>1, <2>2, StaysStored DEF Promising
  <2> QED
    BY <2>1, <2>2, <2>3, <2>4, BotSaves
<1>4. CASE handlePromptFails(b)
  <2> DEFINE p == Head(updates[b]).arg
             h == [prompt |-> p, failed |-> TRUE, reply |-> Sorry, part |-> 1]
  <2>1. /\ takes(b, {"prompt"}) /\ sess' = [sess EXCEPT ![b] = prompted(@, p)]
        /\ bot' = [bot EXCEPT ![b] = "sending"] /\ turn' = [turn EXCEPT ![b] = h]
        /\ UNCHANGED <<messages, statuses, run, chat>>
    BY <1>4 DEF handlePromptFails, replies, store
  <2>2. p \in Prompts /\ bot[b] = "idle"
    BY <2>1, PromptTaken
  <2>3. Saving(b)' /\ \A c \in Holders : c # b => sess'[c] = sess[c]
    <3>1. run'[b] = Idle
      BY <2>1, <2>2 DEF IInv, Local, Running
    <3>2. run'[b].pc = "idle" /\ run'[b].then = "loop"
      BY <3>1, IdleFields
    <3> QED
      BY <2>1, <3>2, PromptedSaves
  <2>4. h.reply.kind = "sorry"
    BY InHandFields
  <2> HIDE DEF h
  <2>5. turn'[b] = h /\ \A c \in Holders : c # b => bot'[c] = bot[c] /\ turn'[c] = turn[c]
    BY <2>1 DEF IInv, TypeOK
  <2>6. AnswersAreStored' /\ Promising(b)'
    BY <2>1, <2>4, <2>5, StaysStored DEF Promising
  <2> QED
    BY <2>1, <2>3, <2>5, <2>6, BotSaves
<1>5. CASE answer(b)
  <2>1. /\ run' = [run EXCEPT ![b] = Idle] /\ UNCHANGED <<messages, statuses, sess, chat>>
    BY <1>5 DEF answer, store
  <2>2. PICK r \in Replies : /\ replies(b, turn[b].prompt, turn[b].failed, r)
                             /\ r.kind = "answer" => ~turn[b].failed
    BY <1>5, Closing
  <2> DEFINE h == [prompt |-> turn[b].prompt, failed |-> turn[b].failed, reply |-> r, part |-> 1]
  <2>7. bot' = [bot EXCEPT ![b] = "sending"] /\ turn' = [turn EXCEPT ![b] = h]
    BY <2>2 DEF replies
  <2>8. h.reply = r /\ h.prompt = turn[b].prompt
    OBVIOUS
  <2>3. /\ bot' = [bot EXCEPT ![b] = "sending"] /\ turn' = [turn EXCEPT ![b] = h]
        /\ h.reply = r /\ h.prompt = turn[b].prompt
    BY <2>7, <2>8
  <2> HIDE DEF h
  <2>4. /\ run'[b] = Idle /\ bot'[b] = "sending" /\ turn'[b] = h
        /\ \A c \in Holders : c # b => run'[c] = run[c] /\ bot'[c] = bot[c] /\ turn'[c] = turn[c]
    BY <2>1, <2>3 DEF IInv, TypeOK, RunTypeOK
  <2>5. Saving(b)'
    <3>1. Saving(b) /\ sess'[b] = sess[b] /\ stored(b)' = stored(b)
      BY <2>1 DEF SInv, stored
    <3> QED
      BY <2>4, <3>1, IdleFields DEF Saving
  <2>6. AnswersAreStored' /\ Promising(b)'
    <3>1. r.kind = "answer" => Answered(turn[b].prompt)
      BY <1>5, <2>2, AnswerStored
    <3> QED
      BY <2>1, <2>3, <2>4, <3>1, StaysStored DEF Promising
  <2> QED
    BY <2>1, <2>4, <2>5, <2>6, BotSaves
<1> QED
  BY <1>1, <1>2, <1>3, <1>4, <1>5, SendChunkSaves DEF worker

\* The process and the people.
LEMMA ProcessSaves ==
    ASSUME IInv, SInv, NEW b \in Holders, process(b) \/ write(b)
    PROVE  SInv'
<1>1. CASE begin(b)
  <2>1. /\ bot[b] = "down" /\ bot' = [bot EXCEPT ![b] = "idle"] /\ startSession(b)
        /\ UNCHANGED <<messages, statuses, run, turn, chat>>
    BY <1>1 DEF begin, store
  <2>2. bot'[b] = "idle" /\ \A c \in Holders : c # b => bot'[c] = bot[c]
    BY <2>1 DEF IInv, TypeOK
  <2>3. run[b] = Idle
    BY <2>1 DEF IInv, Local, Running
  <2>4. Saving(b)' /\ \A c \in Holders : c # b => sess'[c] = sess[c]
    BY <2>1, <2>2, <2>3, HoldingSaves
  <2>5. AnswersAreStored' /\ Promising(b)'
    BY <2>1, <2>2, StaysStored DEF Promising
  <2> QED
    BY <2>1, <2>2, <2>4, <2>5, BotSaves
<1>2. CASE cancel(b) \/ write(b)
  <2>1. UNCHANGED <<messages, statuses, sess, run, bot, turn, chat>>
    BY <1>2 DEF cancel, write, runVars, store, botVars
  <2> QED
    BY <2>1 DEF SInv, Completed, AnswersAreStored, Saving, stored, Promising, Answered
<1>3. CASE ends(b) \/ crash(b)
  <2>1. /\ UNCHANGED <<messages, statuses, chat>> /\ sess' = [sess EXCEPT ![b] = NoSession]
        /\ bot' = [bot EXCEPT ![b] = "down"]
        /\ run' = run \/ run' = [run EXCEPT ![b] = Idle]
        /\ turn' = turn \/ turn' = [turn EXCEPT ![b] = NoPrompt]
    BY <1>3 DEF ends, crash, store
  <2>2. /\ sess'[b] = NoSession /\ bot'[b] = "down"
        /\ \A c \in Holders : c # b => /\ sess'[c] = sess[c] /\ run'[c] = run[c] /\ bot'[c] = bot[c]
                                       /\ turn'[c] = turn[c]
    BY <2>1 DEF IInv, TypeOK, RunTypeOK
  <2>3. Saving(b)'
    BY <2>2 DEF Saving, NoSession
  <2>4. AnswersAreStored' /\ Promising(b)'
    BY <2>1, <2>2, StaysStored DEF Promising
  <2> QED
    BY <2>1, <2>2, <2>3, <2>4, BotSaves
<1> QED
  BY <1>1, <1>2, <1>3 DEF process

\* What is stored agrees at first.
LEMMA InitSInv == Init => SInv
<1> SUFFICES ASSUME Init PROVE SInv
  OBVIOUS
<1>1. \A b \in Holders : ~sess[b].box
  BY DEF Init, NoSession
<1>2. AnswersAreStored
  <2>1. \A p \in Prompts : DOMAIN chat[p] = {}
    BY DEF Init
  <2> QED
    BY <2>1 DEF AnswersAreStored
<1>4. \A b \in Holders : bot[b] # "sending"
  BY DEF Init
<1>3. Completed
  BY DEF Init, Completed
<1> QED
  BY <1>1, <1>2, <1>3, <1>4 DEF SInv, Saving, Promising

\* Every step keeps it, from a state in which no two bots hold one session.
LEMMA NextSInv == IInv /\ SInv /\ Apart /\ [Next]_vars => SInv'
<1> SUFFICES ASSUME IInv, SInv, Apart, [Next]_vars PROVE SInv'
  OBVIOUS
<1>1. ASSUME NEW b \in Holders, Turn(b), UNCHANGED botVars PROVE SInv'
  <2>1. CASE answerFails(b)
    BY <1>1, <2>1, FailSaves DEF answerFails
  <2> QED
    BY <1>1, <2>1, TopSaves, AnswersSaves, OtherSaves, CommitSaves DEF Turn
<1>2. CASE UNCHANGED vars
  BY <1>2 DEF vars, runVars, botVars, SInv, Completed, AnswersAreStored, Saving, stored,
     Promising, Answered
<1> QED
  BY <1>1, <1>2, WorkerSaves, ProcessSaves DEF Next, Turns

\* As long as no two bots hold one session, the store agrees with the turns.
THEOREM StoreInvariance == Spec /\ []Apart => []SInv
  BY InitSInv, NextSInv, Invariance, PTL DEF Spec

\* What the database has of a session is a prefix of what its bot goes on with, and a
\* row says completed only if the transcript ends in an answer (Save, storedCount),
\* whichever Saves fail and whichever bot dies, if no two bots hold one session.
THEOREM TheStoreAgrees == Spec /\ []Apart => []StoredAgrees
<1>1. SInv => StoredAgrees
  BY DEF SInv, Completed, Saving, stored, StoredAgrees
<1> QED
  BY <1>1, StoreInvariance, PTL

\* An answer that somebody read is in the database (Run, whose last Save may fail), if
\* no two bots hold one session.
THEOREM AnswersReadAreStored == Spec /\ []Apart => []AnswersAreStored
<1>1. SInv => AnswersAreStored
  BY DEF SInv
<1> QED
  BY <1>1, StoreInvariance, PTL

\* One bot over its database, which is how it is run: both hold as they stand.
THEOREM OneBotStores ==
    ASSUME \A g, h \in Holders : g = h
    PROVE  Spec => []StoredAgrees /\ []AnswersAreStored
<1>1. Apart
  BY DEF Apart
<1> QED
  BY <1>1, TheStoreAgrees, AnswersReadAreStored, PTL

================================================================================
