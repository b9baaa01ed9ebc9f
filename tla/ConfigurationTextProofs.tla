------------------------ MODULE ConfigurationTextProofs ------------------------
(***************************************************************************)
(* Theorems about what the boxes of the forms do to stop ids, for any      *)
(* texts and lists of ids: what is stored is what it should be, and a form *)
(* submitted as it stands changes nothing.                                 *)
(*                                                                         *)
(* The operators fold over a text or a list.  A fold is first turned into  *)
(* two equations, its value on the empty sequence and on a sequence with   *)
(* one element more; what follows is induction on lengths, over sets of    *)
(* natural numbers.                                                        *)
(***************************************************************************)
EXTENDS ConfigurationProofs, SequenceTheorems

(* A set with zero and every successor holds every number.                 *)
LEMMA Induction ==
  ASSUME NEW S \in SUBSET Nat, 0 \in S, \A n \in S : n + 1 \in S
  PROVE  S = Nat
<1> SUFFICES ASSUME Nat \ S # {} PROVE FALSE
  OBVIOUS
<1>1. PICK m \in Nat \ S : \A k \in Nat \ S : m <= k
  <2> DEFINE T == Nat \ S
  <2>1. T \in SUBSET Nat /\ T # {}
    OBVIOUS
  <2> HIDE DEF T
  <2>2. \E m \in T : \A k \in T : m <= k
    BY <2>1, LeastNatural
  <2> QED BY <2>2 DEF T
<1>2. m # 0 /\ m - 1 \in Nat
  OBVIOUS
<1>3. m - 1 \in S
  BY <1>1, <1>2
<1> QED BY <1>2, <1>3

-----------------------------------------------------------------------------
(* Folds                                                                   *)

(* A step takes what has been made and the next element.                   *)
Steps(A, C) == [A \X C -> A]

(* What a fold with the step G has made of the first n elements of s.      *)
Runs(A, G, b, s) ==
  {run \in [0 .. Len(s) -> A] :
     run[0] = b /\ \A n \in 1 .. Len(s) : run[n] = G[<<run[n - 1], s[n]>>]}

(* Two folds agree for as long as their sequences do.                      *)
LEMMA RunsAgree ==
  ASSUME NEW A, NEW G, NEW b, NEW C, NEW s \in Seq(C), NEW t \in Seq(C), Len(s) <= Len(t),
         \A n \in 1 .. Len(s) : s[n] = t[n],
         NEW r \in Runs(A, G, b, s), NEW q \in Runs(A, G, b, t)
  PROVE  \A n \in 0 .. Len(s) : r[n] = q[n]
<1> DEFINE S == {n \in Nat : n <= Len(s) => r[n] = q[n]}
<1>1. 0 \in S
  BY DEF Runs
<1>2. \A n \in S : n + 1 \in S
  <2> SUFFICES ASSUME NEW n \in S, n + 1 <= Len(s) PROVE r[n + 1] = q[n + 1]
    OBVIOUS
  <2>1. n \in Nat /\ r[n] = q[n] /\ n + 1 \in 1 .. Len(s) /\ n + 1 \in 1 .. Len(t) /\ (n + 1) - 1 = n
    OBVIOUS
  <2>2. s[n + 1] = t[n + 1]
    BY <2>1
  <2>3. r[n + 1] = G[<<r[n], s[n + 1]>>]
    BY <2>1 DEF Runs
  <2>4. q[n + 1] = G[<<q[n], t[n + 1]>>]
    BY <2>1 DEF Runs
  <2> QED BY <2>1, <2>2, <2>3, <2>4
<1> HIDE DEF S
<1>3. S = Nat
  BY <1>1, <1>2, Induction DEF S
<1> QED BY <1>3 DEF S

(* h is the function by which FoldLeft goes over s: from subsets of its    *)
(* domain, each without its greatest element, to what has been made.       *)
Folds(A, G, b, s, h) ==
  /\ h[{}] = b
  /\ \A t \in SUBSET DOMAIN s :
       t # {} /\ h[t \ {Max(t)}] \in A => h[t] = G[<<h[t \ {Max(t)}], s[Max(t)]>>]

LEMMA MaxInDomain ==
  ASSUME NEW C, NEW s \in Seq(C), NEW t \in SUBSET DOMAIN s, t # {}
  PROVE  Max(t) \in DOMAIN s /\ s[Max(t)] \in C
<1>1. Len(s) \in Nat /\ DOMAIN s = 1 .. Len(s) /\ \A k \in 1 .. Len(s) : s[k] \in C
  OBVIOUS
<1>2. Max(t) \in t
  BY <1>1, MinMaxFacts
<1> QED BY <1>1, <1>2

(* There is such a function.                                               *)
LEMMA FoldExists ==
  ASSUME NEW A, NEW C, NEW b \in A, NEW G \in Steps(A, C), NEW s \in Seq(C)
  PROVE  \E h \in [SUBSET DOMAIN s -> A] : Folds(A, G, b, s, h)
<1> DEFINE Upto(m, h) ==
             \A t \in SUBSET (1 .. m) :
               h[t] = IF t = {} THEN b ELSE G[<<h[t \ {Max(t)}], s[Max(t)]>>]
           Starts(m) == m <= Len(s) => \E f \in [SUBSET (1 .. m) -> A] : Upto(m, f)
           S == {m \in Nat : Starts(m)}
<1>1. 0 \in S
  <2>1. 1 .. 0 = {} /\ SUBSET (1 .. 0) = {{}}
    OBVIOUS
  <2> DEFINE start == [t \in SUBSET (1 .. 0) |-> b]
  <2>2. start \in [SUBSET (1 .. 0) -> A] /\ \A t \in SUBSET (1 .. 0) : start[t] = b /\ t = {}
    BY <2>1
  <2> HIDE DEF start
  <2>3. Upto(0, start)
    BY <2>2
  <2> QED BY <2>2, <2>3
<1>2. \A m \in S : m + 1 \in S
  <2> HIDE DEF Starts
  <2> SUFFICES ASSUME NEW m \in Nat, Starts(m) PROVE Starts(m + 1)
    OBVIOUS
  <2> USE DEF Starts
  <2> SUFFICES ASSUME m + 1 <= Len(s)
               PROVE  \E f \in [SUBSET (1 .. m + 1) -> A] : Upto(m + 1, f)
    OBVIOUS
  <2> PICK h \in [SUBSET (1 .. m) -> A] : Upto(m, h)
    <3>1. m <= Len(s)
      OBVIOUS
    <3> HIDE DEF Upto
    <3> QED BY <3>1
  <2> DEFINE g == [t \in SUBSET (1 .. m + 1) |->
                     IF m + 1 \in t THEN G[<<h[t \ {m + 1}], s[m + 1]>>] ELSE h[t]]
  <2>1. \A t \in SUBSET (1 .. m + 1) :
          IF m + 1 \in t THEN t \ {m + 1} \in SUBSET (1 .. m) ELSE t \in SUBSET (1 .. m)
    OBVIOUS
  <2>2. s[m + 1] \in C
    OBVIOUS
  <2>3. g \in [SUBSET (1 .. m + 1) -> A]
    BY <2>1, <2>2 DEF Steps
  <2>4. \A t \in SUBSET (1 .. m) : g[t] = h[t]
    OBVIOUS
  <2>5. ASSUME NEW t \in SUBSET (1 .. m + 1)
        PROVE  g[t] = IF t = {} THEN b ELSE G[<<g[t \ {Max(t)}], s[Max(t)]>>]
    <3>1. CASE m + 1 \in t
      <4> HIDE DEF g, Upto, S
      <4>1. Max(t) \in t /\ (\A k \in t : k <= Max(t)) /\ t # {}
        <5>1. m + 1 \in Nat /\ t \in SUBSET (1 .. m + 1) /\ t # {}
          BY <3>1
        <5> QED BY <5>1, MinMaxFacts
      <4>2. Max(t) = m + 1
        <5>1. Max(t) \in 1 .. m + 1 /\ m + 1 <= Max(t)
          BY <3>1, <4>1
        <5> QED BY <5>1
      <4>3. g[t] = G[<<h[t \ {m + 1}], s[m + 1]>>] /\ g[t \ {m + 1}] = h[t \ {m + 1}]
        BY <2>1, <2>4, <3>1 DEF g
      <4> QED BY <4>1, <4>2, <4>3
    <3>2. CASE m + 1 \notin t /\ t # {}
      <4>1. t \in SUBSET (1 .. m) /\ t \ {Max(t)} \in SUBSET (1 .. m)
        BY <2>1, <3>2
      <4>2. h[t] = G[<<h[t \ {Max(t)}], s[Max(t)]>>]
        BY <3>2, <4>1
      <4>3. g[t] = h[t] /\ g[t \ {Max(t)}] = h[t \ {Max(t)}]
        BY <2>4, <4>1
      <4> HIDE DEF g
      <4> QED BY <3>2, <4>2, <4>3
    <3>3. CASE t = {}
      <4>0. {} \in SUBSET (1 .. m)
        OBVIOUS
      <4>1. h[t] = b
        BY <3>3, <4>0
      <4>2. g[t] = h[t]
        BY <2>4, <3>3, <4>0
      <4> HIDE DEF g
      <4> QED BY <3>3, <4>1, <4>2
    <3> QED BY <3>1, <3>2, <3>3
  <2> HIDE DEF g
  <2> QED BY <2>3, <2>5
<1>s. S \in SUBSET Nat
  OBVIOUS
<1> HIDE DEF S
<1>3. Len(s) \in S
  <2>1. S = Nat
    BY <1>1, <1>2, <1>s, Induction
  <2> QED BY <2>1
<1>4. DOMAIN s = 1 .. Len(s)
  OBVIOUS
<1>5. Len(s) <= Len(s)
  OBVIOUS
<1> HIDE DEF Upto
<1>6. PICK h \in [SUBSET (1 .. Len(s)) -> A] : Upto(Len(s), h)
  BY <1>3, <1>5 DEF S
<1>7. h[{}] = b
  BY <1>6 DEF Upto
<1> QED BY <1>4, <1>6, <1>7 DEF Folds, Upto

LEMMA FoldRuns ==
  ASSUME NEW A, NEW C, NEW b \in A, NEW G \in Steps(A, C), NEW s \in Seq(C),
         NEW h, Folds(A, G, b, s, h)
  PROVE  [n \in 0 .. Len(s) |-> h[1 .. n]] \in Runs(A, G, b, s)
<1> DEFINE S == {n \in Nat : n <= Len(s) => h[1 .. n] \in A}
<1>1. ASSUME NEW n \in 1 .. Len(s), h[1 .. n - 1] \in A
      PROVE  h[1 .. n] = G[<<h[1 .. n - 1], s[n]>>] /\ h[1 .. n] \in A
  <2>1. n \in Nat /\ 1 .. n \in SUBSET (1 .. n) /\ n \in 1 .. n /\ 1 .. n \in SUBSET DOMAIN s /\ s[n] \in C
    OBVIOUS
  <2>2. Max(1 .. n) \in 1 .. n /\ n <= Max(1 .. n)
    BY <2>1, MinMaxFacts
  <2>3. Max(1 .. n) = n /\ (1 .. n) \ {n} = 1 .. n - 1 /\ 1 .. n # {}
    BY <2>1, <2>2
  <2>4. G[<<h[1 .. n - 1], s[n]>>] \in A
    BY <1>1, <2>1 DEF Steps
  <2> QED BY <1>1, <2>1, <2>3, <2>4 DEF Folds
<1>2. 0 \in S
  <2>1. 1 .. 0 = {}
    OBVIOUS
  <2> QED BY <2>1 DEF Folds
<1>3. \A n \in S : n + 1 \in S
  <2> SUFFICES ASSUME NEW n \in Nat, n + 1 <= Len(s), h[1 .. n] \in A PROVE h[1 .. n + 1] \in A
    OBVIOUS
  <2>1. n + 1 \in 1 .. Len(s) /\ (n + 1) - 1 = n
    OBVIOUS
  <2> QED BY <1>1, <2>1
<1>4. S \in SUBSET Nat
  OBVIOUS
<1> HIDE DEF S
<1>5. S = Nat
  BY <1>2, <1>3, <1>4, Induction
<1>6. \A n \in 0 .. Len(s) : h[1 .. n] \in A
  BY <1>5 DEF S
<1>7. \A n \in 1 .. Len(s) : n \in 0 .. Len(s) /\ n - 1 \in 0 .. Len(s)
  OBVIOUS
<1>8. \A n \in 1 .. Len(s) : h[1 .. n] = G[<<h[1 .. n - 1], s[n]>>]
  BY <1>1, <1>6, <1>7
<1>9. 0 \in 0 .. Len(s) /\ h[1 .. 0] = b
  <2>1. 1 .. 0 = {}
    OBVIOUS
  <2> QED BY <2>1 DEF Folds
<1> QED BY <1>6, <1>7, <1>8, <1>9 DEF Runs

LEMMA FoldValue ==
  ASSUME NEW A, NEW C, NEW b \in A, NEW G \in Steps(A, C), NEW s \in Seq(C),
         NEW h, Folds(A, G, b, s, h)
  PROVE  h[DOMAIN s] \in A
<1> DEFINE r == [n \in 0 .. Len(s) |-> h[1 .. n]]
<1>1. r \in Runs(A, G, b, s)
  BY FoldRuns
<1>2. Len(s) \in 0 .. Len(s) /\ DOMAIN s = 1 .. Len(s) /\ r[Len(s)] = h[1 .. Len(s)]
  OBVIOUS
<1> HIDE DEF r
<1>3. r[Len(s)] \in A
  BY <1>1, <1>2 DEF Runs
<1> QED BY <1>2, <1>3

(* The two equations of a fold: on the empty sequence it is b, and one     *)
(* element more is one step more.                                          *)
Longer(t, s) == Len(t) = Len(s) + 1 /\ \A n \in 1 .. Len(s) : s[n] = t[n]

LEMMA FoldAppend ==
  ASSUME NEW A, NEW C, NEW b \in A, NEW G \in Steps(A, C), NEW s \in Seq(C), NEW t \in Seq(C),
         Longer(t, s), NEW h, Folds(A, G, b, s, h), NEW g, Folds(A, G, b, t, g)
  PROVE  h[DOMAIN s] \in A /\ g[DOMAIN t] = G[<<h[DOMAIN s], t[Len(t)]>>]
<1> DEFINE r == [n \in 0 .. Len(s) |-> h[1 .. n]]
           q == [n \in 0 .. Len(t) |-> g[1 .. n]]
<1>1. /\ Len(t) = Len(s) + 1 /\ Len(s) \in Nat
      /\ DOMAIN s = 1 .. Len(s) /\ DOMAIN t = 1 .. Len(s) + 1
      /\ \A n \in 1 .. Len(s) : s[n] = t[n]
  BY DEF Longer
<1>2. r \in Runs(A, G, b, s) /\ q \in Runs(A, G, b, t)
  BY <1>1, FoldRuns
<1>3. r[Len(s)] = h[1 .. Len(s)] /\ q[Len(s)] = g[1 .. Len(s)] /\ q[Len(s) + 1] = g[1 .. Len(s) + 1]
  BY <1>1
<1> HIDE DEF r, q
<1>4. r[Len(s)] = q[Len(s)]
  <2>1. Len(s) <= Len(t) /\ Len(s) \in 0 .. Len(s)
    BY <1>1
  <2> QED BY <1>1, <1>2, <2>1, RunsAgree
<1>5. r[Len(s)] \in A
  BY <1>1, <1>2 DEF Runs
<1>6. q[Len(s) + 1] = G[<<q[Len(s)], t[Len(s) + 1]>>]
  <2>1. Len(s) + 1 \in 1 .. Len(t) /\ (Len(s) + 1) - 1 = Len(s)
    BY <1>1
  <2> QED BY <1>2, <2>1 DEF Runs
<1> QED BY <1>1, <1>3, <1>4, <1>5, <1>6

-----------------------------------------------------------------------------
(* The folds of the text boxes                                             *)

(* The provers reason better about characters they know nothing of.        *)
Chars == STRING

LEMMA CharFacts ==
  /\ Comma \in Chars /\ Space \in Chars /\ Comma # Space
  /\ Texts \subseteq Seq(Chars) /\ Urls \subseteq Seq(Chars)
  BY ConfigurationAssumption DEF Chars

(* A piece between commas; a list of pieces, of which there is always one. *)
Clean   == {p \in Seq(Chars) : ~Contains(p, Comma)}
Pieces  == Seq(Clean) \ {<<>>}
StopIds == {id \in Seq(Chars) : StopId(id)}

PartsStep ==
  [x \in Pieces \X Chars |->
     IF x[2] = Comma THEN Append(x[1], <<>>)
     ELSE [x[1] EXCEPT ![Len(x[1])] = Append(x[1][Len(x[1])], x[2])]]

LEMMA PartsStepType == PartsStep \in Steps(Pieces, Chars) /\ << <<>> >> \in Pieces
<1>1. <<>> \in Clean
  BY DEF Clean, Contains
<1>2. ASSUME NEW x \in Pieces, NEW c \in Chars, c # Comma
      PROVE  [x EXCEPT ![Len(x)] = Append(x[Len(x)], c)] \in Pieces
  <2>1. x \in Seq(Clean) /\ Len(x) \in 1 .. Len(x) /\ x[Len(x)] \in Clean
    BY DEF Pieces
  <2>2. Append(x[Len(x)], c) \in Clean
    <3> DEFINE p == x[Len(x)]
    <3>1. p \in Seq(Chars) /\ \A i \in 1 .. Len(p) : p[i] # Comma
      BY <2>1 DEF Clean, Contains
    <3> HIDE DEF p
    <3>2. Append(p, c) \in Seq(Chars) /\ \A i \in 1 .. Len(Append(p, c)) : Append(p, c)[i] # Comma
      <4>1. Append(p, c) \in Seq(Chars) /\ Len(Append(p, c)) = Len(p) + 1 /\ Len(p) \in Nat
        BY <3>1
      <4>2. ASSUME NEW i \in 1 .. Len(p) + 1 PROVE Append(p, c)[i] # Comma
        <5>1. CASE i \in 1 .. Len(p)
          BY <3>1, <5>1
        <5>2. CASE i = Len(p) + 1
          BY <1>2, <3>1, <5>2
        <5> QED BY <4>1, <5>1, <5>2
      <4> QED BY <4>1, <4>2
    <3> QED BY <3>2 DEF Clean, Contains, p
  <2> HIDE DEF Clean
  <2>3. [x EXCEPT ![Len(x)] = Append(x[Len(x)], c)] \in Seq(Clean)
    BY <2>1, <2>2, ExceptSeq
  <2>4. Len([x EXCEPT ![Len(x)] = Append(x[Len(x)], c)]) = Len(x) /\ Len(x) # 0
    BY <2>1, <2>2, ExceptSeq
  <2> QED BY <2>3, <2>4 DEF Pieces
<1>3. \A x \in Pieces : Append(x, <<>>) \in Pieces
  BY <1>1 DEF Pieces
<1>4. << <<>> >> \in Pieces
  BY <1>1 DEF Pieces
<1>5. \A x \in Pieces \X Chars : x[1] \in Pieces /\ x[2] \in Chars
  OBVIOUS
<1> HIDE DEF Pieces
<1> QED BY <1>2, <1>3, <1>4, <1>5 DEF PartsStep, Steps

LEMMA PartsFold ==
  ASSUME NEW text \in Seq(Chars)
  PROVE  \E h : /\ Folds(Pieces, PartsStep, << <<>> >>, text, h)
              /\ Parts(text) = h[DOMAIN text] /\ Parts(text) \in Pieces
<1> DEFINE IsFold(h) ==
      h = [t \in SUBSET DOMAIN text |->
             IF t = {} THEN << <<>> >>
             ELSE IF text[Max(t)] = Comma THEN Append(h[t \ {Max(t)}], <<>>) ELSE [h[t \ {Max(t)}] EXCEPT ![Len(h[t \ {Max(t)}])] = Append(@, text[Max(t)])]]
           fold == CHOOSE h : IsFold(h)
<1>1. Parts(text) = fold[DOMAIN text]
  BY DEF Parts, FoldLeft, MapThenFoldSet
<1>2. \A t \in SUBSET DOMAIN text : t # {} => text[Max(t)] \in Chars
  BY MaxInDomain
<1>3. \A x \in Pieces, e \in Chars : PartsStep[<<x, e>>] = IF e = Comma THEN Append(x, <<>>) ELSE [x EXCEPT ![Len(x)] = Append(@, e)]
  BY DEF PartsStep
<1>4. PICK h \in [SUBSET DOMAIN text -> Pieces] : Folds(Pieces, PartsStep, << <<>> >>, text, h)
  BY FoldExists, PartsStepType
<1>5. IsFold(h)
  <2> DEFINE g == [t \in SUBSET DOMAIN text |->
             IF t = {} THEN << <<>> >>
             ELSE IF text[Max(t)] = Comma THEN Append(h[t \ {Max(t)}], <<>>) ELSE [h[t \ {Max(t)}] EXCEPT ![Len(h[t \ {Max(t)}])] = Append(@, text[Max(t)])]]
  <2>1. ASSUME NEW t \in SUBSET DOMAIN text PROVE h[t] = g[t]
    <3>1. CASE t = {}
      BY <1>4, <3>1 DEF Folds
    <3>2. CASE t # {}
      <4>1. h[t \ {Max(t)}] \in Pieces
        OBVIOUS
      <4>2. h[t] = PartsStep[<<h[t \ {Max(t)}], text[Max(t)]>>]
        BY <1>4, <3>2, <4>1 DEF Folds
      <4> QED BY <1>2, <1>3, <3>2, <4>1, <4>2
    <3> QED BY <3>1, <3>2
  <2> HIDE DEF g
  <2>2. h = [t \in SUBSET DOMAIN text |-> h[t]] /\ g = [t \in SUBSET DOMAIN text |-> g[t]]
    BY DEF g
  <2>3. h = g
    BY <2>1, <2>2
  <2> QED BY <2>3 DEF g
<1>6. IsFold(fold)
  <2> HIDE DEF IsFold
  <2> QED BY <1>5
<1> HIDE DEF fold
<1>7. Folds(Pieces, PartsStep, << <<>> >>, text, fold)
  <2>1. fold[{}] = << <<>> >>
    BY <1>6
  <2>2. ASSUME NEW t \in SUBSET DOMAIN text, t # {}, fold[t \ {Max(t)}] \in Pieces
        PROVE  fold[t] = PartsStep[<<fold[t \ {Max(t)}], text[Max(t)]>>]
    <3>1. fold[t] = IF text[Max(t)] = Comma THEN Append(fold[t \ {Max(t)}], <<>>) ELSE [fold[t \ {Max(t)}] EXCEPT ![Len(fold[t \ {Max(t)}])] = Append(@, text[Max(t)])]
      BY <1>6, <2>2
    <3> QED BY <1>2, <1>3, <2>2, <3>1
  <2> QED BY <2>1, <2>2 DEF Folds
<1>8. fold[DOMAIN text] \in Pieces
  BY <1>7, FoldValue, PartsStepType
<1> HIDE DEF IsFold
<1> QED BY <1>1, <1>7, <1>8

LEMMA PartsEquations ==
  /\ Parts(<<>>) = << <<>> >>
  /\ \A text \in Seq(Chars) : Parts(text) \in Pieces
  /\ \A text \in Seq(Chars), e \in Chars :
       Parts(Append(text, e)) = IF e = Comma THEN Append(Parts(text), <<>>) ELSE [Parts(text) EXCEPT ![Len(Parts(text))] = Append(@, e)]
<1>1. Parts(<<>>) = << <<>> >>
  <2>1. <<>> \in Seq(Chars) /\ DOMAIN <<>> = {}
    OBVIOUS
  <2>2. PICK h : Folds(Pieces, PartsStep, << <<>> >>, <<>>, h) /\ Parts(<<>>) = h[DOMAIN <<>>]
    BY <2>1, PartsFold
  <2> QED BY <2>1, <2>2 DEF Folds
<1>2. ASSUME NEW text \in Seq(Chars), NEW e \in Chars
      PROVE  Parts(Append(text, e)) = PartsStep[<<Parts(text), e>>]
  <2>1. PICK h : Folds(Pieces, PartsStep, << <<>> >>, text, h) /\ Parts(text) = h[DOMAIN text]
    BY PartsFold
  <2> DEFINE start == << <<>> >>
             longer == Append(text, e)
  <2>2. longer \in Seq(Chars) /\ Longer(longer, text) /\ longer[Len(longer)] = e
    BY DEF Longer
  <2>3. PICK g : Folds(Pieces, PartsStep, << <<>> >>, longer, g) /\ Parts(longer) = g[DOMAIN longer]
    BY <2>2, PartsFold
  <2>4. /\ start \in Pieces /\ PartsStep \in Steps(Pieces, Chars)
        /\ Folds(Pieces, PartsStep, start, text, h) /\ Folds(Pieces, PartsStep, start, longer, g)
    BY <2>1, <2>3, PartsStepType
  <2>5. longer = Append(text, e)
    OBVIOUS
  <2> HIDE DEF start, longer
  <2>6. h[DOMAIN text] \in Pieces /\ g[DOMAIN longer] = PartsStep[<<h[DOMAIN text], e>>]
    BY <2>2, <2>4, FoldAppend
  <2> QED BY <2>1, <2>3, <2>5, <2>6
<1>3. \A x \in Pieces, e \in Chars : PartsStep[<<x, e>>] = IF e = Comma THEN Append(x, <<>>) ELSE [x EXCEPT ![Len(x)] = Append(@, e)]
  BY DEF PartsStep
<1> QED BY <1>1, <1>2, <1>3, PartsFold

(* Trimming a piece leaves nothing or a stop id; a stop id stays as it is, *)
(* also with a space ahead.                                                *)
LEMMA StripClean ==
  ASSUME NEW p \in Clean, Strip(p) # <<>>
  PROVE  Strip(p) \in StopIds
<1> DEFINE Solid == {k \in DOMAIN p : p[k] # Space}
           first == Min(Solid)
           last == Max(Solid)
           s == SubSeq(p, first, last)
<1>1. Solid # {} /\ Strip(p) = s
  BY DEF Strip
<1>2. p \in Seq(Chars) /\ Len(p) \in Nat /\ \A k \in 1 .. Len(p) : p[k] # Comma
  BY DEF Clean, Contains
<1>3. Solid \in SUBSET (1 .. Len(p)) /\ \A k \in Solid : p[k] # Space
  BY <1>2
<1> HIDE DEF Solid
<1>4. first \in Solid /\ last \in Solid /\ \A k \in Solid : first <= k /\ k <= last
  BY <1>1, <1>2, <1>3, MinMaxFacts
<1>5. first \in 1 .. Len(p) /\ last \in 1 .. Len(p) /\ first <= last
  BY <1>3, <1>4
<1>6. p[first] # Space /\ p[last] # Space
  BY <1>3, <1>4
<1> HIDE DEF first, last
<1>7. /\ s \in Seq(Chars) /\ Len(s) = last - first + 1
      /\ \A k \in 1 .. last - first + 1 : s[k] = p[first + k - 1]
  BY <1>2, <1>5
<1> HIDE DEF s
<1>8. s[1] = p[first] /\ s[Len(s)] = p[last] /\ Len(s) >= 1
  <2>1. /\ 1 \in 1 .. last - first + 1 /\ last - first + 1 \in 1 .. last - first + 1
        /\ first + 1 - 1 = first /\ first + (last - first + 1) - 1 = last /\ last - first + 1 >= 1
    BY <1>5
  <2>2. s[1] = p[first + 1 - 1] /\ s[last - first + 1] = p[first + (last - first + 1) - 1]
    BY <1>7, <2>1
  <2> QED BY <1>7, <2>1, <2>2
<1>9. \A k \in 1 .. Len(s) : s[k] # Comma
  <2> SUFFICES ASSUME NEW k \in 1 .. Len(s) PROVE s[k] # Comma
    OBVIOUS
  <2>1. first + k - 1 \in 1 .. Len(p) /\ s[k] = p[first + k - 1]
    BY <1>5, <1>7
  <2> QED BY <1>2, <2>1
<1>10. s # <<>> /\ Head(s) = s[1]
  BY <1>7, <1>8
<1> QED BY <1>1, <1>6, <1>7, <1>8, <1>9, <1>10 DEF StopIds, StopId, Last, Contains

LEMMA StripId ==
  ASSUME NEW id \in StopIds
  PROVE  Strip(id) = id /\ Strip(<<Space>> \o id) = id
<1>1. /\ id \in Seq(Chars) /\ id # <<>> /\ id[1] # Space /\ id[Len(id)] # Space
      /\ Len(id) \in Nat /\ Len(id) >= 1
  BY DEF StopIds, StopId, Last
<1>2. ASSUME NEW t \in Seq(Chars), NEW first \in 1 .. Len(t), t[first] # Space, t[Len(t)] # Space,
             \A k \in 1 .. first - 1 : t[k] = Space
      PROVE  Strip(t) = SubSeq(t, first, Len(t))
  <2> DEFINE Solid == {k \in DOMAIN t : t[k] # Space}
  <2>1. first \in Solid /\ Len(t) \in Solid /\ Solid \in SUBSET (1 .. Len(t)) /\ Len(t) \in Nat
        /\ \A k \in Solid : first <= k
    BY <1>2
  <2>2. Strip(t) = SubSeq(t, Min(Solid), Max(Solid))
    BY <2>1 DEF Strip
  <2> HIDE DEF Solid
  <2>3. /\ Min(Solid) \in Solid /\ \A k \in Solid : Min(Solid) <= k
        /\ Max(Solid) \in Solid /\ \A k \in Solid : k <= Max(Solid)
    BY <2>1, MinMaxFacts
  <2>4. Min(Solid) \in 1 .. Len(t) /\ Max(Solid) \in 1 .. Len(t)
    BY <2>1, <2>3
  <2>5. Min(Solid) <= first /\ first <= Min(Solid) /\ Len(t) <= Max(Solid)
    BY <2>1, <2>3
  <2>6. Min(Solid) = first /\ Max(Solid) = Len(t)
    BY <2>1, <2>4, <2>5
  <2> QED BY <2>2, <2>6
<1>3. Strip(id) = SubSeq(id, 1, Len(id))
  BY <1>1, <1>2
<1>4. SubSeq(id, 1, Len(id)) = id
  BY <1>1
<1> DEFINE t == <<Space>> \o id
<1>5. /\ t \in Seq(Chars) /\ Len(t) = Len(id) + 1 /\ t[1] = Space
      /\ \A k \in 1 .. Len(id) : t[k + 1] = id[k]
  <2>1. <<Space>> \in Seq(Chars) /\ Len(<<Space>>) = 1 /\ <<Space>>[1] = Space
    BY CharFacts
  <2> QED BY <1>1, <2>1
<1> HIDE DEF t
<1>6. t[2] # Space /\ t[Len(t)] # Space /\ 2 \in 1 .. Len(t)
  BY <1>1, <1>5
<1>7. Strip(t) = SubSeq(t, 2, Len(t))
  <2>1. \A k \in 1 .. 2 - 1 : t[k] = Space
    BY <1>5
  <2> QED BY <1>2, <1>5, <1>6, <2>1
<1>8. SubSeq(t, 2, Len(t)) = id
  <2>1. /\ SubSeq(t, 2, Len(t)) \in Seq(Chars) /\ Len(SubSeq(t, 2, Len(t))) = Len(id)
        /\ \A k \in 1 .. Len(id) : SubSeq(t, 2, Len(t))[k] = id[k]
    BY <1>1, <1>5
  <2> QED BY <1>1, <2>1, SeqEqual
<1> QED BY <1>3, <1>4, <1>7, <1>8 DEF t

TrimmedStep ==
  [x \in Seq(StopIds) \X Clean |-> IF Strip(x[2]) = <<>> THEN x[1] ELSE Append(x[1], Strip(x[2]))]

LEMMA TrimmedStepType == TrimmedStep \in Steps(Seq(StopIds), Clean) /\ <<>> \in Seq(StopIds)
<1>1. ASSUME NEW x \in Seq(StopIds), NEW p \in Clean
      PROVE  (IF Strip(p) = <<>> THEN x ELSE Append(x, Strip(p))) \in Seq(StopIds)
  BY StripClean
<1>2. \A x \in Seq(StopIds) \X Clean : x[1] \in Seq(StopIds) /\ x[2] \in Clean
  OBVIOUS
<1> QED BY <1>1, <1>2 DEF TrimmedStep, Steps

LEMMA TrimmedFold ==
  ASSUME NEW parts \in Seq(Clean)
  PROVE  \E h : /\ Folds(Seq(StopIds), TrimmedStep, <<>>, parts, h)
              /\ Trimmed(parts) = h[DOMAIN parts] /\ Trimmed(parts) \in Seq(StopIds)
<1> DEFINE IsFold(h) ==
      h = [t \in SUBSET DOMAIN parts |->
             IF t = {} THEN <<>>
             ELSE IF Strip(parts[Max(t)]) = <<>> THEN h[t \ {Max(t)}] ELSE Append(h[t \ {Max(t)}], Strip(parts[Max(t)]))]
           fold == CHOOSE h : IsFold(h)
<1>1. Trimmed(parts) = fold[DOMAIN parts]
  BY DEF Trimmed, FoldLeft, MapThenFoldSet
<1>2. \A t \in SUBSET DOMAIN parts : t # {} => parts[Max(t)] \in Clean
  BY MaxInDomain
<1>3. \A x \in Seq(StopIds), e \in Clean : TrimmedStep[<<x, e>>] = IF Strip(e) = <<>> THEN x ELSE Append(x, Strip(e))
  BY DEF TrimmedStep
<1>4. PICK h \in [SUBSET DOMAIN parts -> Seq(StopIds)] : Folds(Seq(StopIds), TrimmedStep, <<>>, parts, h)
  BY FoldExists, TrimmedStepType
<1>5. IsFold(h)
  <2> DEFINE g == [t \in SUBSET DOMAIN parts |->
             IF t = {} THEN <<>>
             ELSE IF Strip(parts[Max(t)]) = <<>> THEN h[t \ {Max(t)}] ELSE Append(h[t \ {Max(t)}], Strip(parts[Max(t)]))]
  <2>1. ASSUME NEW t \in SUBSET DOMAIN parts PROVE h[t] = g[t]
    <3>1. CASE t = {}
      BY <1>4, <3>1 DEF Folds
    <3>2. CASE t # {}
      <4>1. h[t \ {Max(t)}] \in Seq(StopIds)
        OBVIOUS
      <4>2. h[t] = TrimmedStep[<<h[t \ {Max(t)}], parts[Max(t)]>>]
        BY <1>4, <3>2, <4>1 DEF Folds
      <4> QED BY <1>2, <1>3, <3>2, <4>1, <4>2
    <3> QED BY <3>1, <3>2
  <2> HIDE DEF g
  <2>2. h = [t \in SUBSET DOMAIN parts |-> h[t]] /\ g = [t \in SUBSET DOMAIN parts |-> g[t]]
    BY DEF g
  <2>3. h = g
    BY <2>1, <2>2
  <2> QED BY <2>3 DEF g
<1>6. IsFold(fold)
  <2> HIDE DEF IsFold
  <2> QED BY <1>5
<1> HIDE DEF fold
<1>7. Folds(Seq(StopIds), TrimmedStep, <<>>, parts, fold)
  <2>1. fold[{}] = <<>>
    BY <1>6
  <2>2. ASSUME NEW t \in SUBSET DOMAIN parts, t # {}, fold[t \ {Max(t)}] \in Seq(StopIds)
        PROVE  fold[t] = TrimmedStep[<<fold[t \ {Max(t)}], parts[Max(t)]>>]
    <3>1. fold[t] = IF Strip(parts[Max(t)]) = <<>> THEN fold[t \ {Max(t)}] ELSE Append(fold[t \ {Max(t)}], Strip(parts[Max(t)]))
      BY <1>6, <2>2
    <3> QED BY <1>2, <1>3, <2>2, <3>1
  <2> QED BY <2>1, <2>2 DEF Folds
<1>8. fold[DOMAIN parts] \in Seq(StopIds)
  BY <1>7, FoldValue, TrimmedStepType
<1> HIDE DEF IsFold
<1> QED BY <1>1, <1>7, <1>8

LEMMA TrimmedEquations ==
  /\ Trimmed(<<>>) = <<>>
  /\ \A parts \in Seq(Clean) : Trimmed(parts) \in Seq(StopIds)
  /\ \A parts \in Seq(Clean), e \in Clean :
       Trimmed(Append(parts, e)) = IF Strip(e) = <<>> THEN Trimmed(parts) ELSE Append(Trimmed(parts), Strip(e))
<1>1. Trimmed(<<>>) = <<>>
  <2>1. <<>> \in Seq(Clean) /\ DOMAIN <<>> = {}
    OBVIOUS
  <2>2. PICK h : Folds(Seq(StopIds), TrimmedStep, <<>>, <<>>, h) /\ Trimmed(<<>>) = h[DOMAIN <<>>]
    BY <2>1, TrimmedFold
  <2> QED BY <2>1, <2>2 DEF Folds
<1>2. ASSUME NEW parts \in Seq(Clean), NEW e \in Clean
      PROVE  Trimmed(Append(parts, e)) = TrimmedStep[<<Trimmed(parts), e>>]
  <2>1. PICK h : Folds(Seq(StopIds), TrimmedStep, <<>>, parts, h) /\ Trimmed(parts) = h[DOMAIN parts]
    BY TrimmedFold
  <2> DEFINE start == <<>>
             longer == Append(parts, e)
  <2>2. longer \in Seq(Clean) /\ Longer(longer, parts) /\ longer[Len(longer)] = e
    BY DEF Longer
  <2>3. PICK g : Folds(Seq(StopIds), TrimmedStep, <<>>, longer, g) /\ Trimmed(longer) = g[DOMAIN longer]
    BY <2>2, TrimmedFold
  <2>4. /\ start \in Seq(StopIds) /\ TrimmedStep \in Steps(Seq(StopIds), Clean)
        /\ Folds(Seq(StopIds), TrimmedStep, start, parts, h) /\ Folds(Seq(StopIds), TrimmedStep, start, longer, g)
    BY <2>1, <2>3, TrimmedStepType
  <2>5. longer = Append(parts, e)
    OBVIOUS
  <2> HIDE DEF start, longer
  <2>6. h[DOMAIN parts] \in Seq(StopIds) /\ g[DOMAIN longer] = TrimmedStep[<<h[DOMAIN parts], e>>]
    BY <2>2, <2>4, FoldAppend
  <2> QED BY <2>1, <2>3, <2>5, <2>6
<1>3. \A x \in Seq(StopIds), e \in Clean : TrimmedStep[<<x, e>>] = IF Strip(e) = <<>> THEN x ELSE Append(x, Strip(e))
  BY DEF TrimmedStep
<1> QED BY <1>1, <1>2, <1>3, TrimmedFold

JoinedStep ==
  [x \in Seq(Chars) \X Seq(Chars) |->
     IF x[1] = <<>> THEN x[2] ELSE x[1] \o <<Comma, Space>> \o x[2]]

LEMMA JoinedStepType == JoinedStep \in Steps(Seq(Chars), Seq(Chars)) /\ <<>> \in Seq(Chars)
<1>1. <<Comma, Space>> \in Seq(Chars)
  BY CharFacts
<1>2. \A x \in Seq(Chars) \X Seq(Chars) : x[1] \in Seq(Chars) /\ x[2] \in Seq(Chars)
  OBVIOUS
<1> QED BY <1>1, <1>2 DEF JoinedStep, Steps

LEMMA JoinedFold ==
  ASSUME NEW ids \in Seq(Seq(Chars))
  PROVE  \E h : /\ Folds(Seq(Chars), JoinedStep, <<>>, ids, h)
              /\ Joined(ids) = h[DOMAIN ids] /\ Joined(ids) \in Seq(Chars)
<1> DEFINE IsFold(h) ==
      h = [t \in SUBSET DOMAIN ids |->
             IF t = {} THEN <<>>
             ELSE IF h[t \ {Max(t)}] = <<>> THEN ids[Max(t)] ELSE h[t \ {Max(t)}] \o <<Comma, Space>> \o ids[Max(t)]]
           fold == CHOOSE h : IsFold(h)
<1>1. Joined(ids) = fold[DOMAIN ids]
  BY DEF Joined, FoldLeft, MapThenFoldSet
<1>2. \A t \in SUBSET DOMAIN ids : t # {} => ids[Max(t)] \in Seq(Chars)
  BY MaxInDomain
<1>3. \A x \in Seq(Chars), e \in Seq(Chars) : JoinedStep[<<x, e>>] = IF x = <<>> THEN e ELSE x \o <<Comma, Space>> \o e
  BY DEF JoinedStep
<1>4. PICK h \in [SUBSET DOMAIN ids -> Seq(Chars)] : Folds(Seq(Chars), JoinedStep, <<>>, ids, h)
  BY FoldExists, JoinedStepType
<1>5. IsFold(h)
  <2> DEFINE g == [t \in SUBSET DOMAIN ids |->
             IF t = {} THEN <<>>
             ELSE IF h[t \ {Max(t)}] = <<>> THEN ids[Max(t)] ELSE h[t \ {Max(t)}] \o <<Comma, Space>> \o ids[Max(t)]]
  <2>1. ASSUME NEW t \in SUBSET DOMAIN ids PROVE h[t] = g[t]
    <3>1. CASE t = {}
      BY <1>4, <3>1 DEF Folds
    <3>2. CASE t # {}
      <4>1. h[t \ {Max(t)}] \in Seq(Chars)
        OBVIOUS
      <4>2. h[t] = JoinedStep[<<h[t \ {Max(t)}], ids[Max(t)]>>]
        BY <1>4, <3>2, <4>1 DEF Folds
      <4> QED BY <1>2, <1>3, <3>2, <4>1, <4>2
    <3> QED BY <3>1, <3>2
  <2> HIDE DEF g
  <2>2. h = [t \in SUBSET DOMAIN ids |-> h[t]] /\ g = [t \in SUBSET DOMAIN ids |-> g[t]]
    BY DEF g
  <2>3. h = g
    BY <2>1, <2>2
  <2> QED BY <2>3 DEF g
<1>6. IsFold(fold)
  <2> HIDE DEF IsFold
  <2> QED BY <1>5
<1> HIDE DEF fold
<1>7. Folds(Seq(Chars), JoinedStep, <<>>, ids, fold)
  <2>1. fold[{}] = <<>>
    BY <1>6
  <2>2. ASSUME NEW t \in SUBSET DOMAIN ids, t # {}, fold[t \ {Max(t)}] \in Seq(Chars)
        PROVE  fold[t] = JoinedStep[<<fold[t \ {Max(t)}], ids[Max(t)]>>]
    <3>1. fold[t] = IF fold[t \ {Max(t)}] = <<>> THEN ids[Max(t)] ELSE fold[t \ {Max(t)}] \o <<Comma, Space>> \o ids[Max(t)]
      BY <1>6, <2>2
    <3> QED BY <1>2, <1>3, <2>2, <3>1
  <2> QED BY <2>1, <2>2 DEF Folds
<1>8. fold[DOMAIN ids] \in Seq(Chars)
  BY <1>7, FoldValue, JoinedStepType
<1> HIDE DEF IsFold
<1> QED BY <1>1, <1>7, <1>8

LEMMA JoinedEquations ==
  /\ Joined(<<>>) = <<>>
  /\ \A ids \in Seq(Seq(Chars)) : Joined(ids) \in Seq(Chars)
  /\ \A ids \in Seq(Seq(Chars)), e \in Seq(Chars) :
       Joined(Append(ids, e)) = IF Joined(ids) = <<>> THEN e ELSE Joined(ids) \o <<Comma, Space>> \o e
<1>1. Joined(<<>>) = <<>>
  <2>1. <<>> \in Seq(Seq(Chars)) /\ DOMAIN <<>> = {}
    OBVIOUS
  <2>2. PICK h : Folds(Seq(Chars), JoinedStep, <<>>, <<>>, h) /\ Joined(<<>>) = h[DOMAIN <<>>]
    BY <2>1, JoinedFold
  <2> QED BY <2>1, <2>2 DEF Folds
<1>2. ASSUME NEW ids \in Seq(Seq(Chars)), NEW e \in Seq(Chars)
      PROVE  Joined(Append(ids, e)) = JoinedStep[<<Joined(ids), e>>]
  <2>1. PICK h : Folds(Seq(Chars), JoinedStep, <<>>, ids, h) /\ Joined(ids) = h[DOMAIN ids]
    BY JoinedFold
  <2> DEFINE start == <<>>
             longer == Append(ids, e)
  <2>2. longer \in Seq(Seq(Chars)) /\ Longer(longer, ids) /\ longer[Len(longer)] = e
    BY DEF Longer
  <2>3. PICK g : Folds(Seq(Chars), JoinedStep, <<>>, longer, g) /\ Joined(longer) = g[DOMAIN longer]
    BY <2>2, JoinedFold
  <2>4. /\ start \in Seq(Chars) /\ JoinedStep \in Steps(Seq(Chars), Seq(Chars))
        /\ Folds(Seq(Chars), JoinedStep, start, ids, h) /\ Folds(Seq(Chars), JoinedStep, start, longer, g)
    BY <2>1, <2>3, JoinedStepType
  <2>5. longer = Append(ids, e)
    OBVIOUS
  <2> HIDE DEF start, longer
  <2>6. h[DOMAIN ids] \in Seq(Chars) /\ g[DOMAIN longer] = JoinedStep[<<h[DOMAIN ids], e>>]
    BY <2>2, <2>4, FoldAppend
  <2> QED BY <2>1, <2>3, <2>5, <2>6
<1>3. \A x \in Seq(Chars), e \in Seq(Chars) : JoinedStep[<<x, e>>] = IF x = <<>> THEN e ELSE x \o <<Comma, Space>> \o e
  BY DEF JoinedStep
<1> QED BY <1>1, <1>2, <1>3, JoinedFold

-----------------------------------------------------------------------------
(* From the boxes to the ids and back                                      *)

LEMMA ConcatAppend ==
  ASSUME NEW S, NEW s \in Seq(S), NEW t \in Seq(S), NEW c \in S
  PROVE  s \o Append(t, c) = Append(s \o t, c)
<1>1. <<c>> \in Seq(S) /\ s \o t \in Seq(S)
  OBVIOUS
<1>2. Append(t, c) = t \o <<c>> /\ Append(s \o t, c) = (s \o t) \o <<c>>
  BY <1>1, AppendIsConcat
<1>3. (s \o t) \o <<c>> = s \o (t \o <<c>>)
  BY <1>1, ConcatAssociative
<1> QED BY <1>2, <1>3

(* Text without a comma lengthens the last piece.                          *)
LEMMA PartsConcat ==
  ASSUME NEW text \in Seq(Chars), NEW u \in Clean
  PROVE  Parts(text \o u) = [Parts(text) EXCEPT ![Len(Parts(text))] = @ \o u]
<1> DEFINE parts == Parts(text)
           last == Len(parts)
           Upto(n) == SubSeq(u, 1, n)
           Grows(n) == n <= Len(u) =>
                         Parts(text \o Upto(n)) = [parts EXCEPT ![last] = parts[last] \o Upto(n)]
           S == {n \in Nat : Grows(n)}
<1>1. u \in Seq(Chars) /\ Len(u) \in Nat /\ \A k \in 1 .. Len(u) : u[k] \in Chars /\ u[k] # Comma
  BY DEF Clean, Contains
<1>2. parts \in Seq(Seq(Chars)) /\ last \in 1 .. last /\ parts[last] \in Seq(Chars)
  <2>1. parts \in Pieces
    BY PartsEquations
  <2>2. parts \in Seq(Seq(Chars))
    BY <2>1 DEF Pieces, Clean
  <2>3. parts # <<>>
    BY <2>1 DEF Pieces
  <2> HIDE DEF parts
  <2> QED BY <2>2, <2>3
<1> HIDE DEF parts
<1>3. Grows(0)
  <2>1. Upto(0) = <<>>
    BY <1>1
  <2>2. text \o <<>> = text /\ parts[last] \o <<>> = parts[last]
    BY <1>2
  <2>3. [parts EXCEPT ![last] = parts[last]] = parts
    BY <1>2
  <2> QED BY <2>1, <2>2, <2>3 DEF parts
<1>4. ASSUME NEW n \in Nat, Grows(n) PROVE Grows(n + 1)
  <2> SUFFICES ASSUME n + 1 <= Len(u)
               PROVE  Parts(text \o Upto(n + 1)) = [parts EXCEPT ![last] = parts[last] \o Upto(n + 1)]
    OBVIOUS
  <2> DEFINE c == u[n + 1]
             so == Upto(n)
             piece == parts[last]
  <2>1. n + 1 \in 1 .. Len(u) /\ n <= Len(u) /\ c \in Chars /\ c # Comma
    BY <1>1
  <2>2. so \in Seq(Chars) /\ Upto(n + 1) = Append(so, c)
    <3>1. so \in Seq(Chars)
      BY <1>1, <2>1
    <3>2. \A k \in 1 .. n + 1 : u[k] \in Chars
      BY <1>1, <2>1
    <3>3. SubSeq(u, 1, n + 1) = Append(SubSeq(u, 1, n), u[n + 1])
      BY <3>2, SubSeqRecursiveSecond
    <3> QED BY <3>1, <3>3
  <2>3. Parts(text \o so) = [parts EXCEPT ![last] = piece \o so]
    BY <1>4, <2>1
  <2> HIDE DEF so, c, piece, Upto
  <2>4. text \o so \in Seq(Chars) /\ text \o Append(so, c) = Append(text \o so, c)
    BY <2>1, <2>2, ConcatAppend
  <2>5. piece \o so \in Seq(Chars) /\ piece \o Append(so, c) = Append(piece \o so, c)
    <3>1. piece \in Seq(Chars)
      BY <1>2 DEF piece
    <3> QED BY <2>1, <2>2, <3>1, ConcatAppend
  <2> DEFINE grown == Parts(text \o so)
  <2>6. Parts(Append(text \o so, c)) = [grown EXCEPT ![Len(grown)] = Append(@, c)]
    BY <2>1, <2>4, PartsEquations
  <2>7. Len(grown) = last /\ grown[last] = piece \o so
    BY <1>2, <2>3, <2>5
  <2>8. [grown EXCEPT ![last] = Append(piece \o so, c)] = [parts EXCEPT ![last] = Append(piece \o so, c)]
    BY <1>2, <2>3
  <2> HIDE DEF grown
  <2> QED BY <2>2, <2>4, <2>5, <2>6, <2>7, <2>8 DEF piece
<1> HIDE DEF Grows
<1>5. 0 \in S /\ S \in SUBSET Nat /\ \A n \in S : n + 1 \in S
  BY <1>3, <1>4
<1> HIDE DEF S
<1>6. S = Nat
  BY <1>5, Induction
<1>7. Grows(Len(u))
  BY <1>1, <1>6 DEF S
<1>8. Upto(Len(u)) = u /\ Len(u) <= Len(u)
  BY <1>1
<1> QED BY <1>7, <1>8 DEF Grows, parts

LEMMA SpaceAhead ==
  ASSUME NEW id \in StopIds
  PROVE  id \in Clean /\ id # <<>> /\ <<Space>> \o id \in Clean
<1> DEFINE u == <<Space>> \o id
<1>1. id \in Seq(Chars) /\ id # <<>> /\ Len(id) \in Nat /\ \A k \in 1 .. Len(id) : id[k] # Comma
  BY DEF StopIds, StopId, Contains
<1>2. u \in Seq(Chars) /\ Len(u) = Len(id) + 1
  BY <1>1, CharFacts
<1>3. ASSUME NEW k \in 1 .. Len(id) + 1 PROVE u[k] # Comma
  <2>1. CASE k = 1
    BY <1>1, <2>1, CharFacts
  <2>2. CASE k # 1
    <3>1. k - 1 \in 1 .. Len(id) /\ u[k] = id[k - 1]
      BY <1>1, <2>2, CharFacts
    <3> QED BY <1>1, <3>1
  <2> QED BY <2>1, <2>2
<1> HIDE DEF u
<1> QED BY <1>1, <1>2, <1>3 DEF Clean, Contains, u

(* An id that is joined to others is a piece with a space ahead.           *)
LEMMA PartsOfNext ==
  ASSUME NEW text \in Seq(Chars), NEW id \in StopIds
  PROVE  Parts(text \o <<Comma, Space>> \o id) = Append(Parts(text), <<Space>> \o id)
<1> DEFINE begun == Append(text, Comma)
           u == <<Space>> \o id
           parts == Parts(text)
<1>1. id \in Seq(Chars)
  BY DEF StopIds
<1>2. begun \in Seq(Chars) /\ <<Space>> \in Seq(Chars) /\ <<Comma, Space>> \in Seq(Chars)
  BY CharFacts
<1>3. u \in Clean
  BY SpaceAhead
<1>4. text \o <<Comma, Space>> \o id = begun \o u
  BY <1>1, <1>2, CharFacts
<1>5. Parts(begun) = Append(parts, <<>>)
  BY CharFacts, PartsEquations
<1>6. parts \in Seq(Seq(Chars))
  <2>1. parts \in Pieces
    BY PartsEquations
  <2> QED BY <2>1 DEF Pieces, Clean
<1> HIDE DEF begun, u, parts
<1>7. Parts(begun \o u) = [Parts(begun) EXCEPT ![Len(Parts(begun))] = @ \o u]
  BY <1>2, <1>3, PartsConcat
<1>8. <<>> \o u = u /\ u \in Seq(Chars)
  BY <1>3 DEF Clean
<1>9. [Append(parts, <<>>) EXCEPT ![Len(Append(parts, <<>>))] = @ \o u] = Append(parts, u)
  <2> DEFINE more == Append(parts, <<>>)
  <2>1. /\ more \in Seq(Seq(Chars)) /\ Len(more) = Len(parts) + 1 /\ more[Len(more)] = <<>>
        /\ Len(parts) \in Nat /\ \A k \in 1 .. Len(parts) : more[k] = parts[k]
    <3>1. <<>> \in Seq(Chars)
      OBVIOUS
    <3> QED BY <1>6, <3>1, AppendProperties
  <2>2. /\ Append(parts, u) \in Seq(Seq(Chars)) /\ Len(Append(parts, u)) = Len(parts) + 1
        /\ Append(parts, u)[Len(parts) + 1] = u
        /\ \A k \in 1 .. Len(parts) : Append(parts, u)[k] = parts[k]
    BY <1>6, <1>8, AppendProperties
  <2> HIDE DEF more
  <2> DEFINE ext == [more EXCEPT ![Len(more)] = u]
  <2>3. /\ ext \in Seq(Seq(Chars)) /\ Len(ext) = Len(parts) + 1
        /\ ext[Len(parts) + 1] = u /\ \A k \in 1 .. Len(parts) : ext[k] = parts[k]
    BY <1>8, <2>1
  <2>4. ext = [more EXCEPT ![Len(more)] = @ \o u]
    BY <1>8, <2>1
  <2> HIDE DEF ext
  <2>5. ASSUME NEW k \in 1 .. Len(parts) + 1 PROVE ext[k] = Append(parts, u)[k]
    <3>1. CASE k \in 1 .. Len(parts)
      BY <2>2, <2>3, <3>1
    <3>2. CASE k = Len(parts) + 1
      BY <2>2, <2>3, <3>2
    <3> QED BY <2>1, <3>1, <3>2
  <2>6. ext = Append(parts, u)
    BY <2>2, <2>3, <2>5, SeqEqual
  <2> QED BY <2>4, <2>6 DEF more
<1> QED BY <1>4, <1>5, <1>7, <1>9 DEF begun, u, parts

(* The ids of a watch come back from the box they are shown in.            *)
LEMMA IdsReturn ==
  ASSUME NEW ids \in Seq(StopIds)
  PROVE  SplitIds(Joined(ids)) = ids
<1> DEFINE Returns(x) == SplitIds(Joined(x)) = x /\ (x # <<>> => Joined(x) # <<>>)
           S == {n \in Nat : \A x \in Seq(StopIds) : Len(x) = n => Returns(x)}
<1>1. Returns(<<>>)
  <2>1. <<>> \in Clean
    BY DEF Clean, Contains
  <2>2. Strip(<<>>) = <<>>
    BY DEF Strip
  <2>3. Trimmed(Append(<<>>, <<>>)) = <<>>
    <3> DEFINE blank == <<>>
    <3>1. blank \in Seq(Clean) /\ Trimmed(blank) = <<>> /\ blank \in Clean /\ Strip(blank) = <<>>
      BY <2>1, <2>2, TrimmedEquations
    <3> HIDE DEF blank
    <3>2. Trimmed(Append(blank, blank)) = <<>>
      BY <3>1, TrimmedEquations
    <3> QED BY <3>2 DEF blank
  <2>4. Append(<<>>, <<>>) = << <<>> >>
    OBVIOUS
  <2>5. Joined(<<>>) = <<>> /\ Parts(<<>>) = << <<>> >>
    BY JoinedEquations, PartsEquations
  <2> QED BY <2>3, <2>4, <2>5 DEF SplitIds
<1>2. ASSUME NEW x \in Seq(StopIds), NEW id \in StopIds, Returns(x)
      PROVE  Returns(Append(x, id))
  <2>1. x \in Seq(Seq(Chars)) /\ id \in Seq(Chars) /\ id # <<>> /\ id \in Clean
    <3>1. Seq(StopIds) \subseteq Seq(Seq(Chars))
      BY DEF StopIds
    <3>2. id \in Seq(Chars)
      BY DEF StopIds
    <3> QED BY <3>1, <3>2, SpaceAhead
  <2>2. Joined(x) \in Seq(Chars) /\ Parts(Joined(x)) \in Seq(Clean)
    BY <2>1, JoinedEquations, PartsEquations DEF Pieces
  <2>3. Joined(Append(x, id)) = IF Joined(x) = <<>> THEN id ELSE Joined(x) \o <<Comma, Space>> \o id
    BY <2>1, JoinedEquations
  <2>4. Strip(id) = id /\ Strip(<<Space>> \o id) = id
    BY StripId
  <2>5. CASE x = <<>>
    <3>1. Joined(x) = <<>> /\ Parts(<<>>) = << <<>> >> /\ <<>> \in Seq(Chars)
      BY <2>5, JoinedEquations, PartsEquations
    <3>2. Parts(<<>> \o id) = [<< <<>> >> EXCEPT ![Len(<< <<>> >>)] = @ \o id]
      BY <2>1, <3>1, PartsConcat
    <3>3. <<>> \o id = id /\ [<< <<>> >> EXCEPT ![Len(<< <<>> >>)] = @ \o id] = Append(<<>>, id)
      BY <2>1
    <3>4. Trimmed(Append(<<>>, id)) = Append(<<>>, id)
      <4>1. <<>> \in Seq(Clean) /\ Trimmed(<<>>) = <<>>
        BY TrimmedEquations
      <4> QED BY <2>1, <2>4, <4>1, TrimmedEquations
    <3>5. SplitIds(id) = Append(x, id)
      BY <2>5, <3>2, <3>3, <3>4 DEF SplitIds
    <3> QED BY <2>1, <2>3, <3>1, <3>5
  <2>6. CASE x # <<>>
    <3> DEFINE text == Joined(x) \o <<Comma, Space>> \o id
               u == <<Space>> \o id
    <3>1. Joined(Append(x, id)) = text
      BY <1>2, <2>3, <2>6
    <3>2. Parts(text) = Append(Parts(Joined(x)), u)
      BY <2>2, PartsOfNext
    <3>3. u \in Clean
      BY SpaceAhead
    <3>4. Trimmed(Append(Parts(Joined(x)), u)) = Append(Trimmed(Parts(Joined(x))), id)
      <4>1. Strip(u) = id
        BY <2>4
      <4> HIDE DEF u
      <4> QED BY <2>1, <2>2, <3>3, <4>1, TrimmedEquations
    <3>5. Trimmed(Parts(Joined(x))) = x
      BY <1>2 DEF SplitIds
    <3>6. text # <<>>
      <4>1. <<Comma, Space>> \in Seq(Chars) /\ Len(<<Comma, Space>>) = 2
        BY CharFacts
      <4>2. Len(text) = Len(Joined(x)) + 2 + Len(id) /\ Len(Joined(x)) \in Nat /\ Len(id) \in Nat
        BY <2>1, <2>2, <4>1
      <4> HIDE DEF text
      <4> QED BY <4>2
    <3> HIDE DEF text
    <3> QED BY <3>1, <3>2, <3>4, <3>5, <3>6 DEF SplitIds
  <2> QED BY <2>5, <2>6
<1> HIDE DEF Returns
<1>3. 0 \in S
  BY <1>1
<1>4. ASSUME NEW n \in S PROVE n + 1 \in S
  <2> SUFFICES ASSUME NEW x \in Seq(StopIds), Len(x) = n + 1 PROVE Returns(x)
    OBVIOUS
  <2>1. n \in Nat /\ x # <<>>
    OBVIOUS
  <2>2. PICK y \in Seq(StopIds), id \in StopIds : x = Append(y, id)
    BY <2>1, SequenceEmptyOrAppend
  <2>3. Len(y) = n
    <3>1. Len(Append(y, id)) = Len(y) + 1 /\ Len(y) \in Nat
      OBVIOUS
    <3> QED BY <2>1, <2>2, <3>1
  <2>4. Returns(y)
    BY <2>3
  <2> QED BY <1>2, <2>2, <2>4
<1>5. S \in SUBSET Nat
  OBVIOUS
<1> HIDE DEF S
<1>6. S = Nat
  BY <1>3, <1>4, <1>5, Induction
<1>7. Returns(ids)
  <2>1. Len(ids) \in Nat
    OBVIOUS
  <2> QED BY <1>6, <2>1 DEF S
<1> QED BY <1>7 DEF Returns

LEMMA SplitIdsType ==
  ASSUME NEW text \in Seq(Chars)
  PROVE  SplitIds(text) \in Seq(StopIds)
<1>1. Parts(text) \in Pieces
  BY PartsEquations
<1>2. Parts(text) \in Seq(Clean)
  BY <1>1 DEF Pieces
<1> QED BY <1>2, TrimmedEquations DEF SplitIds

-----------------------------------------------------------------------------
(* What is stored, shown and running                                       *)

RouteData(data) ==
  /\ data = Route(data.origins, data.destinations)
  /\ data.origins \in Seq(StopIds) /\ data.origins # <<>> /\ data.destinations \in Seq(StopIds)

Data(data) ==
  data = None \/ data \in [kind : {"vicinity"}, tracker : Trackers] \/ RouteData(data)

StoredInv == \A s \in Sub : Data(subs[s])

Forms == [kind : {"route"}, sub : Sub \cup {NoSub}, origins : Seq(Chars), destinations : Seq(Chars)]

FormText == form = None \/ form \in Forms

(* Before the platform is set up there are no entities.                    *)
EntryInv ==
  /\ \A source \in sources : IsWeb(source)
  /\ phase \in {"none", "unloaded", "opening", "forwarded", "loaded", "unloading", "failed"}
  /\ coordinators \subseteq Sub /\ entities \subseteq coordinators /\ missed \subseteq Sub
  /\ phase \in {"none", "unloaded", "opening"} => entities = {}

TextInv == Shape /\ StoredInv /\ FormText /\ EntryInv

LEMMA DataFacts ==
  /\ Data(None)
  /\ \A t \in Trackers : Data(Vicinity(t))
  /\ \A o, d : o \in Seq(StopIds) /\ o # <<>> /\ d \in Seq(StopIds) => Data(Route(o, d))
<1>1. \A t \in Trackers : Data(Vicinity(t))
  BY DEF Data, Vicinity
<1>2. \A o, d : Route(o, d).origins = o /\ Route(o, d).destinations = d
  BY DEF Route
<1> QED BY <1>1, <1>2 DEF Data, RouteData

(* A route that is stored has its ids as they were typed.                  *)
LEMMA RouteFacts ==
  ASSUME StoredInv, NEW s \in Routes
  PROVE  s \in Sub /\ RouteData(subs[s])
<1>1. s \in Sub /\ subs[s] # None /\ subs[s].kind = "route"
  BY DEF Routes, Present
<1>2. \A data \in [kind : {"vicinity"}, tracker : Trackers] : data.kind = "vicinity"
  OBVIOUS
<1> QED BY <1>1, <1>2 DEF StoredInv, Data

LEMMA TextInvTypes == TextInv => TypeOK /\ RoundTrip
<1> SUFFICES ASSUME TextInv PROVE TypeOK /\ RoundTrip
  OBVIOUS
<1>1. RoundTrip
  BY RouteFacts, IdsReturn DEF RoundTrip, RouteData, TextInv
<1>2. ASSUME NEW s \in Sub
      PROVE  \/ subs[s] = None
             \/ subs[s] \in [kind : {"vicinity"}, tracker : Trackers]
             \/ /\ subs[s] = Route(subs[s].origins, subs[s].destinations)
                /\ subs[s].origins # <<>>
                /\ \A id \in ToSet(subs[s].origins \o subs[s].destinations) : StopId(id)
  <2>1. CASE RouteData(subs[s])
    <3> DEFINE o == subs[s].origins
               d == subs[s].destinations
    <3>1. o \in Seq(StopIds) /\ d \in Seq(StopIds)
      BY <2>1 DEF RouteData
    <3> HIDE DEF o, d
    <3>2. o \o d \in Seq(StopIds)
      BY <3>1
    <3>3. \A id \in ToSet(o \o d) : id \in StopIds
      BY <3>2 DEF ToSet
    <3>4. \A id \in ToSet(o \o d) : StopId(id)
      BY <3>3 DEF StopIds
    <3> QED BY <2>1, <3>4 DEF RouteData, o, d
  <2> QED BY <2>1 DEF TextInv, StoredInv, Data
<1>3. form = None \/ form.sub \in Sub \cup {NoSub}
  BY DEF TextInv, FormText, Forms
<1> QED BY <1>1, <1>2, <1>3 DEF TypeOK, TextInv, EntryInv, Shape

(* Saving leaves nothing but what was saved or was there.                  *)
LEMMA SaveStores ==
  ASSUME Shape, StoredInv, NEW sub \in Sub \cup {NoSub}, NEW data, Data(data), Save(sub, data),
         missed \subseteq Sub
  PROVE  StoredInv' /\ missed' \subseteq Sub
<1>1. ASSUME NEW s \in Sub, subs' = [subs EXCEPT ![s] = data] PROVE StoredInv'
  <2>1. \A r \in Sub : subs'[r] = data \/ subs'[r] = subs[r]
    BY <1>1 DEF Shape
  <2> QED BY <2>1 DEF StoredInv
<1>2. CASE sub = NoSub
  <2>1. /\ created < MaxSub /\ subs' = [subs EXCEPT ![created + 1] = data]
        /\ missed' = missed \/ missed' = missed \cup {created + 1}
    BY <1>2 DEF Save, Create, Notify
  <2>2. created + 1 \in Sub
    BY <2>1, ConfigurationAssumption DEF Shape, Sub
  <2> QED BY <1>1, <2>1, <2>2
<1>3. CASE sub # NoSub
  <2>1. subs' = [subs EXCEPT ![sub] = data] /\ (missed' = missed \/ missed' = missed \cup {})
    BY <1>3 DEF Save, Update, Notify
  <2> QED BY <1>1, <1>3, <2>1
<1> QED BY <1>2, <1>3

LEMMA TextInvKept == TextInv /\ [Next]_vars => TextInv'
<1> SUFFICES ASSUME TextInv, [Next]_vars PROVE TextInv'
  OBVIOUS
<1>0. Shape /\ StoredInv /\ FormText /\ EntryInv /\ Shape'
  BY ShapeKept DEF TextInv
<1>1. ASSUME subs' = subs PROVE StoredInv'
  BY <1>0, <1>1 DEF StoredInv
<1>2. CASE \E url \in Urls : AddSource(url)
  <2>1. PICK url \in Urls : AddSource(url)
    BY <1>2
  <2>2. UNCHANGED <<subs, form, coordinators, entities, missed>> /\ (phase' = phase \/ phase' = "unloaded")
        /\ (phase = "none" \/ phase' = phase) /\ sources' = sources \cup {Strip(url)} /\ IsWeb(Strip(url))
    BY <2>1 DEF AddSource, UniqueId, registry
  <2>3. FormText' /\ EntryInv'
    BY <1>0, <2>2 DEF FormText, EntryInv
  <2> QED BY <1>0, <1>1, <2>2, <2>3 DEF TextInv
<1>3. CASE OpenNew \/ Abandon \/ \E s \in Sub : OpenReconfigure(s)
  <2>1. UNCHANGED <<sources, subs, phase, coordinators, entities, missed>>
    BY <1>3 DEF OpenNew, Abandon, OpenReconfigure, registry, running
  <2>2. EntryInv'
    BY <1>0, <2>1 DEF EntryInv
  <2>3. FormText'
    <3>1. CASE OpenNew
      BY <3>1 DEF OpenNew, Blank, FormText, Forms
    <3>2. CASE Abandon
      BY <3>2 DEF Abandon, FormText
    <3>3. CASE \E s \in Sub : OpenReconfigure(s)
      <4>1. PICK s \in Routes : s \in Sub /\ form' = AsFormValues(s)
        BY <3>3 DEF OpenReconfigure
      <4>2. subs[s].origins \in Seq(StopIds) /\ subs[s].destinations \in Seq(StopIds)
        BY <1>0, RouteFacts DEF RouteData
      <4>3. Seq(StopIds) \subseteq Seq(Seq(Chars))
        BY DEF StopIds
      <4>4. Joined(subs[s].origins) \in Seq(Chars) /\ Joined(subs[s].destinations) \in Seq(Chars)
        BY <4>2, <4>3, JoinedEquations
      <4> QED BY <4>1, <4>4 DEF AsFormValues, FormText, Forms
    <3> QED BY <1>3, <3>1, <3>2, <3>3
  <2> QED BY <1>0, <1>1, <2>1, <2>2, <2>3 DEF TextInv
<1>4. CASE \E s \in Sub : RemoveSub(s)
  <2>1. PICK s \in Sub : RemoveSub(s)
    BY <1>4
  <2>2. /\ subs' = [subs EXCEPT ![s] = None] /\ entities' = entities \ {s}
        /\ UNCHANGED <<sources, form, phase, coordinators>>
        /\ missed' = missed \/ missed' = missed \cup {s}
    BY <2>1 DEF RemoveSub, Notify
  <2>3. \A r \in Sub : subs'[r] = None \/ subs'[r] = subs[r]
    BY <1>0, <2>2 DEF Shape
  <2>4. StoredInv'
    BY <1>0, <2>3, DataFacts DEF StoredInv
  <2>5. FormText' /\ EntryInv'
    BY <1>0, <2>2 DEF FormText, EntryInv
  <2> QED BY <1>0, <2>4, <2>5 DEF TextInv
<1>5. ASSUME NEW o \in Texts \cup Shown("origins"), NEW d \in Texts \cup Shown("destinations"), Submit(o, d)
      PROVE  TextInv'
  <2>1. form \in Forms /\ UNCHANGED <<sources, phase, coordinators, entities>>
    BY <1>0, <1>5 DEF Submit, FormText
  <2>2. o \in Seq(Chars) /\ d \in Seq(Chars)
    BY <1>5, <2>1, CharFacts DEF Shown, Forms
  <2>3. CASE SplitIds(o) = <<>>
    <3>1. /\ form' = [form EXCEPT !.origins = o, !.destinations = d] /\ subs' = subs /\ missed' = missed
      BY <1>5, <2>3 DEF Submit, registry
    <3>2. FormText'
      BY <2>1, <2>2, <3>1 DEF FormText, Forms
    <3>3. EntryInv'
      BY <1>0, <2>1, <3>1 DEF EntryInv
    <3> QED BY <1>0, <1>1, <3>1, <3>2, <3>3 DEF TextInv
  <2>4. CASE SplitIds(o) # <<>>
    <3> DEFINE data == Route(SplitIds(o), SplitIds(d))
    <3>1. Save(form.sub, data) /\ form' = None
      BY <1>5, <2>4 DEF Submit
    <3>2. Data(data) /\ form.sub \in Sub \cup {NoSub}
      BY <2>1, <2>2, <2>4, SplitIdsType, DataFacts DEF Forms
    <3> HIDE DEF data
    <3>3. StoredInv' /\ missed' \subseteq Sub
      BY <1>0, <3>1, <3>2, SaveStores DEF EntryInv
    <3>4. FormText' /\ EntryInv'
      BY <1>0, <2>1, <3>1, <3>3 DEF FormText, EntryInv
    <3> QED BY <1>0, <3>3, <3>4 DEF TextInv
  <2> QED BY <2>3, <2>4
<1>6. ASSUME NEW s \in Present \cup {NoSub}, NEW t \in Trackers, SubmitVicinity(s, t) PROVE TextInv'
  <2>1. /\ form = None /\ UNCHANGED <<sources, form, phase, coordinators, entities>> /\ Save(s, Vicinity(t))
    BY <1>6 DEF SubmitVicinity
  <2>2. Data(Vicinity(t)) /\ s \in Sub \cup {NoSub}
    BY DataFacts DEF Present
  <2>3. StoredInv' /\ missed' \subseteq Sub
    BY <1>0, <2>1, <2>2, SaveStores DEF EntryInv
  <2>4. FormText' /\ EntryInv'
    BY <1>0, <2>1, <2>3 DEF FormText, EntryInv
  <2> QED BY <1>0, <2>3, <2>4 DEF TextInv
<1>7. CASE Entry
  <2>1. UNCHANGED <<sources, subs, form>> /\ Routes \subseteq Sub
    BY <1>7 DEF Entry, SetupBegins, SetupForwards, SetupEnds, ReloadBegins, Unloads, UnloadRefused,
                registry, Routes, Present
  <2>2. EntryInv'
    <3>1. CASE SetupBegins
      BY <1>0, <2>1, <3>1 DEF SetupBegins, EntryInv
    <3>2. CASE SetupForwards
      BY <1>0, <2>1, <3>2 DEF SetupForwards, EntryInv
    <3>3. CASE SetupEnds
      BY <1>0, <2>1, <3>3 DEF SetupEnds, EntryInv
    <3>4. CASE ReloadBegins
      BY <1>0, <2>1, <3>4 DEF ReloadBegins, EntryInv
    <3>5. CASE Unloads
      BY <1>0, <2>1, <3>5 DEF Unloads, EntryInv
    <3>6. CASE UnloadRefused
      BY <1>0, <2>1, <3>6 DEF UnloadRefused, EntryInv
    <3> QED BY <1>7, <3>1, <3>2, <3>3, <3>4, <3>5, <3>6 DEF Entry
  <2>3. FormText'
    BY <1>0, <2>1 DEF FormText
  <2> QED BY <1>0, <1>1, <2>1, <2>2, <2>3 DEF TextInv
<1>8. CASE UNCHANGED vars
  <2>1. FormText' /\ EntryInv' /\ subs' = subs
    BY <1>0, <1>8 DEF vars, FormText, EntryInv
  <2> QED BY <1>0, <1>1, <2>1 DEF TextInv
<1> QED
  BY <1>2, <1>3, <1>4, <1>5, <1>6, <1>7, <1>8 DEF Next, User

LEMMA TextInvInit == Init => TextInv
<1> SUFFICES ASSUME Init PROVE TextInv
  OBVIOUS
<1>1. Shape
  BY ConfigurationAssumption DEF Init, Shape, FormInv, Follows
<1>2. StoredInv
  BY DataFacts DEF Init, StoredInv
<1>3. FormText /\ EntryInv
  BY DEF Init, FormText, EntryInv
<1> QED BY <1>1, <1>2, <1>3 DEF TextInv

(* What is stored is made of whole stop ids, whatever is typed and in      *)
(* whatever order watches are added, changed and removed; entities belong  *)
(* to coordinators (config_flow.py 65-76, sensor.py async_setup_entry).    *)
THEOREM ConfigurationTypes == Spec => []TypeOK
BY TextInvInit, TextInvKept, TextInvTypes, PTL DEF Spec

(* A form submitted as it was shown stores what was stored, for any number *)
(* of ids of any length (config_flow.py 65-76 and 232-244).                *)
THEOREM FormsRoundTrip == Spec => []RoundTrip
BY TextInvInit, TextInvKept, TextInvTypes, PTL DEF Spec
=============================================================================
