----------------------------- MODULE NamesProofs -----------------------------
(***************************************************************************)
(* Proofs about names and host names of any length, over any alphabet: a   *)
(* public host name is parsed back to the slot it was made for, or, when   *)
(* that slot ends in a hyphen, not at all.                                 *)
(***************************************************************************)
EXTENDS Names, SequenceTheorems, WellFoundedInduction, TLAPS

-----------------------------------------------------------------------------
(* The first position.                                                     *)

Less == {p \in Nat \X Nat : p[1] < p[2]}

\* The natural numbers are well ordered.
LEMMA LessWellFounded == IsWellFoundedOn(Less, Nat)
  BY NatLessThanWellFounded, Zenon DEF OpToRel, Less

\* A set of positions has a least one.
LEMMA LeastIn ==
  ASSUME NEW S, S \subseteq Nat, S # {}
  PROVE  Least(S) \in S /\ \A j \in S : Least(S) <= j
<1>1. \E x \in S : \A y \in S : ~ (<<y, x>> \in Less)
  BY LessWellFounded, WFMin
<1>2. \A x, y \in Nat : y < x => <<y, x>> \in Less
  BY DEF Less
<1>3. \A x, y \in Nat : y < x \/ x <= y
  OBVIOUS
<1>4. \E x \in S : \A y \in S : x <= y
  BY <1>1, <1>2, <1>3
<1> QED
  BY <1>4, Zenon DEF Least

\* There is only one.
LEMMA LeastIs ==
  ASSUME NEW S, S \subseteq Nat, NEW m \in S, \A j \in S : m <= j
  PROVE  Least(S) = m
<1>1. Least(S) \in S /\ Least(S) <= m /\ m <= Least(S)
  BY LeastIn
<1>2. \A i, j \in Nat : i <= j /\ j <= i => i = j
  OBVIOUS
<1> QED
  BY <1>1, <1>2

-----------------------------------------------------------------------------
(* Sequences of characters.                                                *)

\* What is in a name that can be registered.
LEMMA NameFacts ==
  ASSUME NEW n \in Seq(Char), ValidateName(n)
  PROVE  /\ Len(n) \in Nat \ {0}
         /\ n[1] # "-"
         /\ \A i \in 1 .. Len(n) : n[i] \notin {".", ":"} \cup Upper
         /\ \A i \in 1 .. Len(n) - 1 : n[i] # "-" \/ n[i + 1] # "-"
<1>1. Len(n) \in Nat \ {0}
  BY DEF ValidateName
<1>2. n[1] # "-"
  BY AlphabetAssumption DEF ValidateName
<1>3. \A i \in 1 .. Len(n) : n[i] \in Alnum \cup {"-"}
  BY DEF ValidateName
<1>4. \A c \in Alnum \cup {"-"} : c \notin {".", ":"} \cup Upper
  BY AlphabetAssumption
<1>5. \A i \in 1 .. Len(n) - 1 : n[i] # "-" \/ n[i + 1] # "-"
  BY DEF ValidateName, Seps, SepAt
<1> QED
  BY <1>1, <1>2, <1>3, <1>4, <1>5

\* What is in two sequences put together.
Joined(q, s, t) ==
  /\ q \in Seq(Char) /\ Len(q) = Len(s) + Len(t)
  /\ \A i \in 1 .. Len(s) : q[i] = s[i]
  /\ \A i \in 1 .. Len(t) : q[Len(s) + i] = t[i]

LEMMA ConcatFacts ==
  ASSUME NEW s \in Seq(Char), NEW t \in Seq(Char)
  PROVE  Joined(s \o t, s, t)
<1>1. Len(s) \in Nat /\ Len(t) \in Nat
  OBVIOUS
<1>2. s \o t \in Seq(Char) /\ Len(s \o t) = Len(s) + Len(t)
  OBVIOUS
<1>3. \A i \in 1 .. Len(s) : (s \o t)[i] = s[i]
  BY <1>1
<1>4. \A i \in 1 .. Len(t) : (s \o t)[Len(s) + i] = t[i]
  BY <1>1
<1> QED
  BY <1>2, <1>3, <1>4 DEF Joined

\* What is in the subdomain of two names.
Subdomain(q, s, t) ==
  /\ q \in Seq(Char)
  /\ Len(q) = Len(s) + 2 + Len(t)
  /\ \A i \in 1 .. Len(s) : q[i] = s[i]
  /\ q[Len(s) + 1] = "-" /\ q[Len(s) + 2] = "-"
  /\ \A i \in 1 .. Len(t) : q[Len(s) + 2 + i] = t[i]

LEMMA SubdomainFacts ==
  ASSUME NEW s \in Seq(Char), NEW t \in Seq(Char)
  PROVE  Subdomain(SubdomainFor(s, t), s, t)
<1> DEFINE dashes == <<"-", "-">>
           u == s \o dashes
           q == SubdomainFor(s, t)
<1>1. dashes \in Seq(Char) /\ Len(dashes) = 2 /\ dashes[1] = "-" /\ dashes[2] = "-"
  BY DEF Char
<1>2. Len(s) \in Nat /\ Len(t) \in Nat
  OBVIOUS
<1>3. q = u \o t
  BY DEF SubdomainFor
<1> HIDE DEF dashes
<1>4. Joined(u, s, dashes)
  BY <1>1, ConcatFacts
<1> HIDE DEF u
<1>5. u \in Seq(Char) /\ Len(u) = Len(s) + 2
  BY <1>1, <1>4 DEF Joined
<1>6. Joined(q, u, t)
  BY <1>3, <1>5, ConcatFacts
<1> HIDE DEF q
<1>7. u[Len(s) + 1] = "-" /\ u[Len(s) + 2] = "-"
  BY <1>1, <1>4 DEF Joined
<1>8. \A i \in 1 .. Len(s) + 2 : q[i] = u[i]
  BY <1>5, <1>6 DEF Joined
<1>9. q[Len(s) + 1] = u[Len(s) + 1] /\ q[Len(s) + 2] = u[Len(s) + 2]
  BY <1>2, <1>8
<1>10. \A i \in 1 .. Len(s) : q[i] = s[i]
  <2>1. \A i \in 1 .. Len(s) : u[i] = s[i] /\ i \in 1 .. Len(s) + 2
    BY <1>2, <1>4 DEF Joined
  <2> QED
    BY <1>8, <2>1
<1>11. \A i \in 1 .. Len(t) : q[Len(s) + 2 + i] = t[i]
  BY <1>5, <1>6 DEF Joined
<1> QED
  BY <1>5, <1>6, <1>7, <1>9, <1>10, <1>11 DEF Joined, Subdomain, q

\* What is in the beginning of a sequence.
LEMMA UpToFacts ==
  ASSUME NEW h \in Seq(Char), NEW n \in Nat, n <= Len(h)
  PROVE  /\ UpTo(h, n) \in Seq(Char) /\ Len(UpTo(h, n)) = n
         /\ \A i \in 1 .. n : UpTo(h, n)[i] = h[i]
<1>1. \A i \in 1 .. n : h[i] \in Char
  OBVIOUS
<1> QED
  BY <1>1, SubSeqProperties DEF UpTo

\* What is in the rest of it.
LEMMA AfterFacts ==
  ASSUME NEW h \in Seq(Char), NEW n \in Nat, n <= Len(h)
  PROVE  /\ After(h, n) \in Seq(Char) /\ Len(After(h, n)) = Len(h) - n
         /\ \A i \in 1 .. Len(h) - n : After(h, n)[i] = h[n + i]
<1>1. \A i \in n + 1 .. Len(h) : h[i] \in Char
  OBVIOUS
<1> QED
  BY <1>1, SubSeqProperties DEF After

\* Sequences are equal when their characters are.
LEMMA SameChars ==
  ASSUME NEW s \in Seq(Char), NEW t \in Seq(Char), Len(s) = Len(t),
         \A i \in 1 .. Len(s) : s[i] = t[i]
  PROVE  s = t
  BY SeqEqual

-----------------------------------------------------------------------------
(* The subdomain of two names that can be registered.                      *)

\* Its first separator is where the slot ends, or one character earlier when
\* that is a hyphen.
LEMMA FirstSeparator ==
  ASSUME NEW s \in Seq(Char), NEW t \in Seq(Char), ValidateName(s), ValidateName(t),
         NEW q, Subdomain(q, s, t)
  PROVE  /\ Seps(q) # {}
         /\ Least(Seps(q)) = IF EndsInHyphen(s) THEN Len(s) ELSE Len(s) + 1
<1> DEFINE L == Len(s)
<1>1. L \in Nat \ {0} /\ Len(t) \in Nat \ {0}
  BY NameFacts
<1>2. /\ q \in Seq(Char) /\ Len(q) = L + 2 + Len(t)
      /\ \A i \in 1 .. L : q[i] = s[i]
      /\ q[L + 1] = "-" /\ q[L + 2] = "-"
  BY DEF Subdomain
<1>3. \A i \in 1 .. L - 1 : ~ (s[i] = "-" /\ s[i + 1] = "-")
  BY NameFacts
<1>4. EndsInHyphen(s) <=> s[L] = "-"
  BY <1>1 DEF EndsInHyphen
<1>5. Seps(q) = {i \in 1 .. L + 1 + Len(t) : q[i] = "-" /\ q[i + 1] = "-"}
  BY <1>1, <1>2 DEF Seps, SepAt
<1> HIDE DEF L
<1>6. \A i \in 1 .. L - 1 : ~ (q[i] = "-" /\ q[i + 1] = "-")
  <2>1. \A i \in 1 .. L - 1 : i \in 1 .. L /\ i + 1 \in 1 .. L
    BY <1>1
  <2> QED
    BY <1>2, <1>3, <2>1
<1>7. L + 1 \in Seps(q) /\ \A i \in Seps(q) : i \in Nat /\ L <= i
  <2>1. L + 1 \in 1 .. L + 1 + Len(t) /\ (L + 1) + 1 = L + 2
    BY <1>1
  <2>2. L + 1 \in Seps(q)
    BY <1>2, <1>5, <2>1
  <2>3. \A i \in 1 .. L + 1 + Len(t) : i \in Nat /\ (L <= i \/ i \in 1 .. L - 1)
    BY <1>1
  <2> QED
    BY <1>5, <1>6, <2>2, <2>3
<1>8. L \in Seps(q) <=> EndsInHyphen(s)
  <2>1. L \in 1 .. L + 1 + Len(t) /\ L \in 1 .. L
    BY <1>1
  <2> QED
    BY <1>2, <1>4, <1>5, <2>1 DEF L
<1>9. ASSUME NEW m \in Seps(q), \A i \in Seps(q) : m <= i PROVE Least(Seps(q)) = m
  <2>1. Seps(q) \subseteq Nat
    BY <1>7
  <2> QED
    BY <1>9, <2>1, LeastIs
<1>10. CASE EndsInHyphen(s)
  BY <1>7, <1>8, <1>9, <1>10 DEF L
<1>11. CASE ~ EndsInHyphen(s)
  <2>1. \A i \in Seps(q) : L + 1 <= i
    BY <1>1, <1>7, <1>8, <1>11
  <2> QED
    BY <1>7, <1>9, <1>11, <2>1 DEF L
<1> QED
  BY <1>7, <1>10, <1>11

\* So it is split into the two names, or else not at all: the rest would begin
\* with a hyphen.
LEMMA SplitSubdomain ==
  ASSUME NEW s \in Seq(Char), NEW t \in Seq(Char), ValidateName(s), ValidateName(t)
  PROVE  Split(SubdomainFor(s, t)) =
           IF EndsInHyphen(s) THEN NoMatch ELSE [slot |-> s, tunnel |-> t]
<1> DEFINE q == SubdomainFor(s, t)
           L == Len(s)
<1>1. L \in Nat \ {0} /\ Len(t) \in Nat
  BY NameFacts
<1>0. Subdomain(q, s, t)
  BY SubdomainFacts
<1>2. /\ q \in Seq(Char) /\ Len(q) = L + 2 + Len(t)
      /\ \A i \in 1 .. L : q[i] = s[i]
      /\ q[L + 2] = "-"
      /\ \A i \in 1 .. Len(t) : q[L + 2 + i] = t[i]
  BY <1>0 DEF Subdomain
<1>3. Seps(q) # {} /\ Least(Seps(q)) = IF EndsInHyphen(s) THEN L ELSE L + 1
  BY <1>0, FirstSeparator
<1>4. Split(q) =
        IF Seps(q) # {} /\ ValidateName(UpTo(q, Least(Seps(q)) - 1))
                        /\ ValidateName(After(q, Least(Seps(q)) + 1))
        THEN [slot   |-> UpTo(q, Least(Seps(q)) - 1),
              tunnel |-> After(q, Least(Seps(q)) + 1)]
        ELSE NoMatch
  BY DEF Split
<1> HIDE DEF q, L
<1>5. CASE EndsInHyphen(s)
  <2>1. L + 1 \in Nat /\ L + 1 <= Len(q) /\ 1 \in 1 .. Len(q) - (L + 1)
    BY <1>1, <1>2
  <2>2. After(q, L + 1)[1] = q[(L + 1) + 1]
    BY <1>2, <2>1, AfterFacts
  <2>3. After(q, L + 1)[1] = "-"
    BY <1>1, <1>2, <2>2
  <2>4. ~ ValidateName(After(q, L + 1))
    BY <2>3, AlphabetAssumption DEF ValidateName
  <2> QED
    BY <1>3, <1>4, <1>5, <2>4 DEF q
<1>6. CASE ~ EndsInHyphen(s)
  <2>1. Least(Seps(q)) - 1 = L /\ Least(Seps(q)) + 1 = L + 2
    BY <1>1, <1>3, <1>6
  <2>2. UpTo(q, L) = s
    <3>1. L <= Len(q)
      BY <1>1, <1>2
    <3>2. /\ UpTo(q, L) \in Seq(Char) /\ Len(UpTo(q, L)) = Len(s)
          /\ \A i \in 1 .. L : UpTo(q, L)[i] = q[i]
      BY <1>1, <1>2, <3>1, UpToFacts DEF L
    <3> QED
      BY <1>2, <3>2, SameChars DEF L
  <2>3. After(q, L + 2) = t
    <3>1. L + 2 \in Nat /\ L + 2 <= Len(q) /\ Len(q) - (L + 2) = Len(t)
      BY <1>1, <1>2
    <3>2. /\ After(q, L + 2) \in Seq(Char)
          /\ Len(After(q, L + 2)) = Len(q) - (L + 2)
          /\ \A i \in 1 .. Len(q) - (L + 2) : After(q, L + 2)[i] = q[(L + 2) + i]
      BY <1>2, <3>1, AfterFacts
    <3>3. Len(After(q, L + 2)) = Len(t) /\ \A i \in 1 .. Len(t) : After(q, L + 2)[i] = t[i]
      BY <1>2, <3>1, <3>2
    <3> QED
      BY <3>2, <3>3, SameChars
  <2> QED
    BY <1>3, <1>4, <1>6, <2>1, <2>2, <2>3 DEF q
<1> QED
  BY <1>5, <1>6

\* One subdomain cuts into names that can be registered in one way only, when
\* the slots are of one length.
LEMMA SameCut ==
  ASSUME NEW s \in Seq(Char), NEW t \in Seq(Char), NEW a \in Seq(Char), NEW b \in Seq(Char),
         NEW q, Subdomain(q, s, t), Subdomain(q, a, b), Len(s) = Len(a)
  PROVE  s = a /\ t = b
<1>1. Len(s) \in Nat /\ Len(t) \in Nat /\ Len(b) \in Nat
  OBVIOUS
<1>2. \A i \in 1 .. Len(s) : s[i] = a[i]
  BY DEF Subdomain
<1>3. Len(t) = Len(b)
  BY <1>1 DEF Subdomain
<1>4. \A i \in 1 .. Len(t) : t[i] = b[i]
  BY <1>3 DEF Subdomain
<1> QED
  BY <1>2, <1>3, <1>4, SameChars

\* The slots of one subdomain are of one length: if one of them ended where
\* the other still has a hyphen, the first one's tunnel would begin with it.
LEMMA SameSlotLength ==
  ASSUME NEW s \in Seq(Char), NEW t \in Seq(Char), NEW a \in Seq(Char), NEW b \in Seq(Char),
         ValidateName(s), ValidateName(t), ValidateName(a), ValidateName(b),
         NEW q, Subdomain(q, s, t), Subdomain(q, a, b), EndsInHyphen(s)
  PROVE  Len(s) = Len(a)
<1>1. Len(s) \in Nat \ {0} /\ Len(a) \in Nat \ {0} /\ Len(b) \in Nat \ {0} /\ b[1] # "-"
  BY NameFacts
<1>2. Least(Seps(q)) = Len(s)
      /\ Least(Seps(q)) = IF EndsInHyphen(a) THEN Len(a) ELSE Len(a) + 1
  BY FirstSeparator
<1>3. ASSUME ~ EndsInHyphen(a) PROVE FALSE
  <2>1. Len(s) + 2 = Len(a) + 2 + 1 /\ 1 \in 1 .. Len(b)
    BY <1>1, <1>2, <1>3
  <2>2. q[Len(s) + 2] = "-" /\ q[Len(a) + 2 + 1] = b[1]
    BY <2>1 DEF Subdomain
  <2> QED
    BY <1>1, <2>1, <2>2
<1> QED
  BY <1>2, <1>3

\* No two pairs of names that can be registered share a host name, those that
\* the parse refuses included: the URLs that handleControl hands out for two
\* keys of the registry are two URLs, though it joins the names by characters
\* that a name may contain.
THEOREM HostNamesAreDistinct ==
  ASSUME NEW s \in Seq(Char), NEW t \in Seq(Char), NEW a \in Seq(Char), NEW b \in Seq(Char),
         ValidateName(s), ValidateName(t), ValidateName(a), ValidateName(b),
         SubdomainFor(s, t) = SubdomainFor(a, b)
  PROVE  s = a /\ t = b
<1> DEFINE q == SubdomainFor(s, t)
<1>1. Subdomain(q, s, t) /\ Subdomain(q, a, b)
  BY SubdomainFacts
<1> HIDE DEF q
<1>2. CASE EndsInHyphen(s) \/ EndsInHyphen(a)
  <2>1. Len(s) = Len(a)
    BY <1>1, <1>2, SameSlotLength
  <2> QED
    BY <1>1, <2>1, SameCut
<1>3. CASE ~ EndsInHyphen(s) /\ ~ EndsInHyphen(a)
  <2>1. Len(s) + 1 = Len(a) + 1
    BY <1>1, <1>3, FirstSeparator
  <2>2. Len(s) = Len(a)
    BY <2>1
  <2> QED
    BY <1>1, <2>2, SameCut
<1> QED
  BY <1>2, <1>3

-----------------------------------------------------------------------------
(* Host names.                                                             *)

\* A subdomain has no dot, port or upper-case letter in it.
LEMMA SubdomainPlain ==
  ASSUME NEW s \in Seq(Char), NEW t \in Seq(Char), ValidateName(s), ValidateName(t),
         NEW q, Subdomain(q, s, t)
  PROVE  \A i \in 1 .. Len(q) : q[i] \notin {".", ":"} \cup Upper
<1>1. /\ \A i \in 1 .. Len(s) : s[i] \notin {".", ":"} \cup Upper
      /\ \A i \in 1 .. Len(t) : t[i] \notin {".", ":"} \cup Upper
  BY NameFacts
<1>2. "-" \notin {".", ":"} \cup Upper
  BY AlphabetAssumption
<1> SUFFICES ASSUME NEW i \in 1 .. Len(q) PROVE q[i] \notin {".", ":"} \cup Upper
  OBVIOUS
<1>3. Len(s) \in Nat /\ Len(t) \in Nat /\ Len(q) = Len(s) + 2 + Len(t)
  BY DEF Subdomain
<1>4. CASE i \in 1 .. Len(s)
  BY <1>1, <1>4 DEF Subdomain
<1>5. CASE i \in {Len(s) + 1, Len(s) + 2}
  BY <1>2, <1>5 DEF Subdomain
<1>6. CASE i - (Len(s) + 2) \in 1 .. Len(t)
  <2>1. i = Len(s) + 2 + (i - (Len(s) + 2))
    BY <1>3
  <2>2. q[i] = t[i - (Len(s) + 2)]
    BY <1>6, <2>1 DEF Subdomain
  <2> QED
    BY <1>1, <1>6, <2>2
<1> QED
  BY <1>3, <1>4, <1>5, <1>6

\* What a client is given, before the domain.
HostOf(s, t) == SubdomainFor(s, t) \o <<".">>

LEMMA HostFacts ==
  ASSUME NEW s \in Seq(Char), NEW t \in Seq(Char)
  PROVE  LET q == SubdomainFor(s, t) IN
         /\ q \in Seq(Char) /\ HostOf(s, t) \in Seq(Char)
         /\ Len(HostOf(s, t)) = Len(q) + 1
         /\ \A i \in 1 .. Len(q) : HostOf(s, t)[i] = q[i]
         /\ HostOf(s, t)[Len(q) + 1] = "."
<1> DEFINE q == SubdomainFor(s, t)
           dot == <<".">>
<1>1. dot \in Seq(Char) /\ Len(dot) = 1 /\ dot[1] = "."
  BY DEF Char
<1>2. q \in Seq(Char)
  BY SubdomainFacts DEF Subdomain
<1> HIDE DEF dot, q
<1>3. Joined(q \o dot, q, dot)
  BY <1>1, <1>2, ConcatFacts
<1> QED
  BY <1>1, <1>2, <1>3 DEF Joined, HostOf, dot, q

\* A host name that begins with that of two names has its first dot after their
\* subdomain.
LEMMA FirstDot ==
  ASSUME NEW s \in Seq(Char), NEW t \in Seq(Char), ValidateName(s), ValidateName(t),
         NEW h \in Seq(Char), Len(HostOf(s, t)) <= Len(h),
         UpTo(h, Len(HostOf(s, t))) = HostOf(s, t)
  PROVE  /\ Occurs(h, ".") # {}
         /\ UpTo(h, Least(Occurs(h, ".")) - 1) = SubdomainFor(s, t)
<1> DEFINE q == SubdomainFor(s, t)
           d == HostOf(s, t)
<1>1. /\ q \in Seq(Char) /\ d \in Seq(Char) /\ Len(d) = Len(q) + 1
      /\ \A i \in 1 .. Len(q) : d[i] = q[i]
      /\ d[Len(q) + 1] = "."
  BY HostFacts
<1>2. \A i \in 1 .. Len(q) : q[i] # "."
  BY SubdomainFacts, SubdomainPlain
<1>3. Len(d) <= Len(h) /\ UpTo(h, Len(d)) = d
  OBVIOUS
<1> HIDE DEF q, d
<1>4. Len(q) \in Nat /\ Len(h) \in Nat
  BY <1>1
<1>5. \A i \in 1 .. Len(q) + 1 : h[i] = d[i]
  <2>1. \A i \in 1 .. Len(d) : UpTo(h, Len(d))[i] = h[i]
    <3>1. Len(d) \in Nat
      BY <1>1
    <3> QED
      BY <1>3, <3>1, UpToFacts
  <2> QED
    BY <1>1, <1>3, <2>1
<1>6. Len(q) + 1 \in Occurs(h, ".")
  BY <1>1, <1>3, <1>4, <1>5 DEF Occurs
<1>7. Occurs(h, ".") \subseteq Nat
  BY DEF Occurs
<1>8. \A i \in Occurs(h, ".") : Len(q) + 1 <= i
  <2>1. \A i \in 1 .. Len(q) : h[i] # "."
    BY <1>1, <1>2, <1>4, <1>5
  <2> QED
    BY <1>4, <2>1 DEF Occurs
<1>9. Least(Occurs(h, ".")) = Len(q) + 1
  BY <1>6, <1>7, <1>8, LeastIs
<1>10. UpTo(h, Len(q)) = q
  <2>1. Len(q) <= Len(h)
    BY <1>1, <1>3, <1>4
  <2>2. /\ UpTo(h, Len(q)) \in Seq(Char) /\ Len(UpTo(h, Len(q))) = Len(q)
        /\ \A i \in 1 .. Len(q) : UpTo(h, Len(q))[i] = h[i]
    BY <1>4, <2>1, UpToFacts
  <2>3. \A i \in 1 .. Len(q) : UpTo(h, Len(q))[i] = q[i]
    BY <1>1, <1>4, <1>5, <2>2
  <2> QED
    BY <1>1, <2>2, <2>3, SameChars
<1> QED
  BY <1>4, <1>6, <1>9, <1>10 DEF q

\* Such a host name has nothing to strip and no case to fold.
LEMMA HostPlain ==
  ASSUME NEW s \in Seq(Char), NEW t \in Seq(Char), ValidateName(s), ValidateName(t)
  PROVE  ToLower(StripPort(HostOf(s, t))) = HostOf(s, t)
<1> DEFINE q == SubdomainFor(s, t)
           d == HostOf(s, t)
<1>1. /\ q \in Seq(Char) /\ d \in Seq(Char) /\ Len(d) = Len(q) + 1
      /\ \A i \in 1 .. Len(q) : d[i] = q[i]
      /\ d[Len(q) + 1] = "."
  BY HostFacts
<1>2. \A i \in 1 .. Len(q) : q[i] \notin {":"} \cup Upper
  BY SubdomainFacts, SubdomainPlain
<1> HIDE DEF q, d
<1>3. \A i \in 1 .. Len(d) : d[i] # ":" /\ d[i] \notin Upper
  BY <1>1, <1>2, AlphabetAssumption
<1>4. StripPort(d) = d
  BY <1>3 DEF StripPort, Occurs
<1>5. d = [i \in 1 .. Len(d) |-> d[i]]
  BY <1>1, LenProperties
<1>6. ToLower(d) = d
  BY <1>3, <1>5 DEF ToLower
<1> QED
  BY <1>4, <1>6 DEF d

\* What the server makes of a host name it has handed out.
LEMMA ParsePublicHost ==
  ASSUME NEW s \in Seq(Char), NEW t \in Seq(Char), ValidateName(s), ValidateName(t)
  PROVE  ParseSubdomain(HostOf(s, t)) =
           IF EndsInHyphen(s) THEN NoMatch ELSE [slot |-> s, tunnel |-> t]
<1> DEFINE d == HostOf(s, t)
<1>1. d \in Seq(Char) /\ UpTo(d, Len(d)) = d
  BY HostFacts, SubSeqFull DEF UpTo
<1>2. Occurs(d, ".") # {} /\ UpTo(d, Least(Occurs(d, ".")) - 1) = SubdomainFor(s, t)
  BY <1>1, FirstDot
<1>3. ParseSubdomain(d) = Split(SubdomainFor(s, t))
  BY <1>2, HostPlain DEF ParseSubdomain
<1> QED
  BY <1>3, SplitSubdomain

-----------------------------------------------------------------------------
(* Any host name.                                                          *)

\* A label that is split is the subdomain of the two names it is split into.
LEMMA SplitExact ==
  ASSUME NEW q \in Seq(Char), Split(q) # NoMatch
  PROVE  /\ Split(q).slot \in Seq(Char) /\ Split(q).tunnel \in Seq(Char)
         /\ ValidateName(Split(q).slot) /\ ValidateName(Split(q).tunnel)
         /\ SubdomainFor(Split(q).slot, Split(q).tunnel) = q
<1> DEFINE sep == Least(Seps(q))
           a == UpTo(q, sep - 1)
           b == After(q, sep + 1)
<1>1. /\ Seps(q) # {} /\ ValidateName(a) /\ ValidateName(b)
      /\ Split(q) = [slot |-> a, tunnel |-> b]
  BY DEF Split
<1>2. sep \in Seps(q)
  <2>1. Seps(q) \subseteq Nat
    BY DEF Seps
  <2> QED
    BY <1>1, <2>1, LeastIn
<1>3. sep \in 1 .. Len(q) - 1 /\ q[sep] = "-" /\ q[sep + 1] = "-"
  BY <1>2 DEF Seps, SepAt
<1> HIDE DEF sep
<1>4. Len(q) \in Nat
  OBVIOUS
<1>5. /\ a \in Seq(Char) /\ Len(a) = sep - 1
      /\ \A i \in 1 .. sep - 1 : a[i] = q[i]
  <2>1. sep - 1 \in Nat /\ sep - 1 <= Len(q)
    BY <1>3, <1>4
  <2> QED
    BY <2>1, UpToFacts
<1>6. /\ b \in Seq(Char) /\ Len(b) = Len(q) - (sep + 1)
      /\ \A i \in 1 .. Len(q) - (sep + 1) : b[i] = q[(sep + 1) + i]
  <2>1. sep + 1 \in Nat /\ sep + 1 <= Len(q)
    BY <1>3, <1>4
  <2> QED
    BY <2>1, AfterFacts
<1> HIDE DEF a, b
<1> DEFINE r == SubdomainFor(a, b)
<1>7. Subdomain(r, a, b)
  BY <1>5, <1>6, SubdomainFacts
<1> HIDE DEF r
<1>8. r \in Seq(Char) /\ Len(r) = Len(q)
  BY <1>3, <1>4, <1>5, <1>6, <1>7 DEF Subdomain
<1>9. ASSUME NEW i \in 1 .. Len(r) PROVE r[i] = q[i]
  <2>1. CASE i \in 1 .. sep - 1
    BY <1>5, <1>7, <2>1 DEF Subdomain
  <2>2. CASE i = sep
    <3>1. i = Len(a) + 1
      BY <1>3, <1>5, <2>2
    <3> QED
      BY <1>3, <1>7, <2>2, <3>1 DEF Subdomain
  <2>3. CASE i = sep + 1
    <3>1. i = Len(a) + 2
      BY <1>3, <1>5, <2>3
    <3> QED
      BY <1>3, <1>7, <2>3, <3>1 DEF Subdomain
  <2>4. CASE i - (sep + 1) \in 1 .. Len(b)
    <3> DEFINE j == i - (sep + 1)
    <3>1. j \in 1 .. Len(b) /\ Len(a) + 2 + j = i /\ (sep + 1) + j = i
      BY <1>3, <1>5, <2>4
    <3> HIDE DEF j
    <3>2. r[Len(a) + 2 + j] = b[j]
      BY <1>7, <3>1 DEF Subdomain
    <3>3. b[j] = q[(sep + 1) + j]
      BY <1>6, <3>1
    <3> QED
      BY <3>1, <3>2, <3>3
  <2> QED
    BY <1>3, <1>4, <1>6, <1>8, <2>1, <2>2, <2>3, <2>4
<1>10. r = q
  BY <1>8, <1>9, SameChars
<1> QED
  BY <1>1, <1>5, <1>6, <1>10 DEF a, b, r

\* What is left of a host name is a sequence of characters.
LEMMA FoldedHost ==
  ASSUME NEW g \in Seq(Char)
  PROVE  ToLower(StripPort(g)) \in Seq(Char)
<1>1. StripPort(g) \in Seq(Char)
  <2>1. CASE Occurs(g, ":") = {}
    BY <2>1 DEF StripPort
  <2>2. CASE Occurs(g, ":") # {}
    <3>1. Occurs(g, ":") \subseteq 1 .. Len(g) /\ Occurs(g, ":") \subseteq Nat
      BY DEF Occurs
    <3>2. Least(Occurs(g, ":")) \in 1 .. Len(g)
      BY <2>2, <3>1, LeastIn
    <3>3. /\ Least(Occurs(g, ":")) - 1 \in Nat
          /\ Least(Occurs(g, ":")) - 1 <= Len(g)
      BY <3>2
    <3> QED
      BY <2>2, <3>3, UpToFacts DEF StripPort
  <2> QED
    BY <2>1, <2>2
<1> DEFINE h == StripPort(g)
<1>2. \A i \in 1 .. Len(h) : (IF h[i] \in Upper THEN Lower[h[i]] ELSE h[i]) \in Char
  BY <1>1, AlphabetAssumption DEF Char
<1>3. Len(h) \in Nat
  BY <1>1
<1> QED
  BY <1>2, <1>3 DEF ToLower

\* A host name that is parsed begins with that of the names it is parsed to.
LEMMA ParsedHost ==
  ASSUME NEW h \in Seq(Char), Occurs(h, ".") # {},
         NEW p, p = Split(UpTo(h, Least(Occurs(h, ".")) - 1)), p # NoMatch
  PROVE  /\ ValidateName(p.slot) /\ ValidateName(p.tunnel)
         /\ Len(HostOf(p.slot, p.tunnel)) <= Len(h)
         /\ UpTo(h, Len(HostOf(p.slot, p.tunnel))) = HostOf(p.slot, p.tunnel)
<1> DEFINE dot == Least(Occurs(h, "."))
           q == UpTo(h, dot - 1)
           d == HostOf(p.slot, p.tunnel)
<1>1. dot \in 1 .. Len(h) /\ h[dot] = "."
  <2>1. Occurs(h, ".") \subseteq Nat
    BY DEF Occurs
  <2>2. dot \in Occurs(h, ".")
    BY <2>1, LeastIn
  <2> QED
    BY <2>2 DEF Occurs
<1> HIDE DEF dot
<1>2. Len(h) \in Nat /\ dot - 1 \in Nat /\ dot - 1 <= Len(h)
  BY <1>1
<1>3. /\ q \in Seq(Char) /\ Len(q) = dot - 1
      /\ \A i \in 1 .. dot - 1 : q[i] = h[i]
  BY <1>2, UpToFacts
<1>4. p = Split(q)
  BY DEF dot
<1> HIDE DEF q
<1>5. /\ p.slot \in Seq(Char) /\ p.tunnel \in Seq(Char)
      /\ ValidateName(p.slot) /\ ValidateName(p.tunnel)
      /\ SubdomainFor(p.slot, p.tunnel) = q
  BY <1>3, <1>4, SplitExact
<1>6. /\ d \in Seq(Char) /\ Len(d) = Len(q) + 1
      /\ \A i \in 1 .. Len(q) : d[i] = q[i]
      /\ d[Len(q) + 1] = "."
  BY <1>5, HostFacts
<1> HIDE DEF d
<1>7. Len(d) = dot
  BY <1>1, <1>3, <1>6
<1>8. /\ UpTo(h, dot) \in Seq(Char) /\ Len(UpTo(h, dot)) = dot
      /\ \A i \in 1 .. dot : UpTo(h, dot)[i] = h[i]
  BY <1>1, <1>2, UpToFacts
<1>9. \A i \in 1 .. dot : d[i] = h[i]
  <2>1. \A i \in 1 .. dot - 1 : d[i] = h[i]
    BY <1>3, <1>6
  <2>2. d[dot] = h[dot]
    BY <1>1, <1>6, <1>7
  <2> QED
    BY <1>1, <2>1, <2>2
<1>10. UpTo(h, dot) = d
  BY <1>6, <1>7, <1>8, <1>9, SameChars
<1> QED
  BY <1>1, <1>2, <1>5, <1>7, <1>10 DEF d

-----------------------------------------------------------------------------
(* The theorems.                                                           *)

\* What is spelled are sequences of characters.
NamesTypeOK == slot \in Seq(Char) /\ tunnel \in Seq(Char) /\ host \in Seq(Char)

LEMMA Spelled == Spec => []NamesTypeOK
<1>1. Init => NamesTypeOK
  BY DEF Init, NamesTypeOK
<1>2. NamesTypeOK /\ [Next]_vars => NamesTypeOK'
  <2> SUFFICES ASSUME NamesTypeOK, [Next]_vars PROVE NamesTypeOK'
    OBVIOUS
  <2>1. \A n \in Seq(Char), c \in Char : Append(n, c) \in Seq(Char)
    OBVIOUS
  <2>2. CASE SpellSlot
    BY <2>1, <2>2 DEF NamesTypeOK, SpellSlot
  <2>3. CASE SpellTunnel
    BY <2>1, <2>3 DEF NamesTypeOK, SpellTunnel
  <2>4. CASE SpellHost
    BY <2>1, <2>4 DEF NamesTypeOK, SpellHost
  <2> QED
    BY <2>2, <2>3, <2>4 DEF NamesTypeOK, Next, vars
<1> QED
  BY <1>1, <1>2, PTL DEF Spec

\* A request for the host name a slot was given never reaches another slot, for
\* names of any length.
THEOREM HostIsOfItsSlot == Spec => []NeverAnotherSlot
<1>1. NamesTypeOK => NeverAnotherSlot
  BY ParsePublicHost DEF NamesTypeOK, NeverAnotherSlot, Registrable, PublicHost, HostOf, Pair
<1> QED
  BY <1>1, Spelled, PTL

\* A slot that does not end in a hyphen is found under the name it was given.
THEOREM HostComesBack == Spec => []ParsesBack
<1>1. NamesTypeOK => ParsesBack
  BY ParsePublicHost DEF NamesTypeOK, ParsesBack, Registrable, PublicHost, HostOf, Pair
<1> QED
  BY <1>1, Spelled, PTL

\* The parse accepts the host names of registrable pairs, up to case, port and
\* domain, and nothing else; it refuses just those whose slot ends in a hyphen.
THEOREM ParseAcceptsHosts == Spec => []ParseIsExact
<1>1. ASSUME NamesTypeOK PROVE ParseIsExact
  <2> DEFINE h == ToLower(StripPort(host))
             p == ParseSubdomain(host)
  <2>1. h \in Seq(Char)
    BY <1>1, FoldedHost DEF NamesTypeOK
  <2>2. p = IF Occurs(h, ".") = {} THEN NoMatch
            ELSE Split(UpTo(h, Least(Occurs(h, ".")) - 1))
    BY DEF ParseSubdomain
  <2> HIDE DEF h, p
  <2>3. p # NoMatch =>
          /\ ValidateName(p.slot) /\ ValidateName(p.tunnel)
          /\ Len(HostOf(p.slot, p.tunnel)) <= Len(h)
          /\ UpTo(h, Len(HostOf(p.slot, p.tunnel))) = HostOf(p.slot, p.tunnel)
    BY <2>1, <2>2, ParsedHost
  <2>4. ASSUME NEW i \in Seps(h), NEW j \in Occurs(h, "."), NEW s, NEW t,
               s = UpTo(h, i - 1), t = SubSeq(h, i + 2, j - 1),
               ValidateName(s), ValidateName(t),
               Len(HostOf(s, t)) <= Len(h), UpTo(h, Len(HostOf(s, t))) = HostOf(s, t),
               p = NoMatch
        PROVE  EndsInHyphen(s)
    <3>1. i \in 1 .. Len(h) - 1 /\ j \in 1 .. Len(h) /\ Len(h) \in Nat
      BY <2>1 DEF Seps, Occurs
    <3>2. s \in Seq(Char)
      <4>1. i - 1 \in Nat /\ i - 1 <= Len(h)
        BY <3>1
      <4> QED
        BY <2>1, <2>4, <4>1, UpToFacts
    <3>3. t \in Seq(Char)
      <4>1. \A k \in i + 2 .. j - 1 : h[k] \in Char
        BY <2>1, <3>1
      <4>2. i + 2 \in Int /\ j - 1 \in Int
        BY <3>1
      <4>3. ASSUME NEW a \in Int, NEW b \in Int, \A k \in a .. b : h[k] \in Char
            PROVE  SubSeq(h, a, b) \in Seq(Char)
        BY <4>3, SubSeqProperties
      <4> QED
        <5>1. SubSeq(h, i + 2, j - 1) \in Seq(Char)
          BY <4>1, <4>2, <4>3
        <5> QED
          BY <2>4, <5>1, Zenon
    <3>4. /\ Occurs(h, ".") # {}
          /\ UpTo(h, Least(Occurs(h, ".")) - 1) = SubdomainFor(s, t)
      BY <2>1, <2>4, <3>2, <3>3, FirstDot
    <3>5. Split(SubdomainFor(s, t)) = NoMatch
      BY <2>2, <2>4, <3>4
    <3>6. [slot |-> s, tunnel |-> t] # NoMatch
      <4>1. s # <<>>
        BY <2>4 DEF ValidateName
      <4>2. [slot |-> s, tunnel |-> t].slot = s /\ NoMatch.slot = <<>>
        BY DEF NoMatch
      <4>3. ASSUME [slot |-> s, tunnel |-> t] = NoMatch PROVE FALSE
        BY <4>1, <4>2, <4>3
      <4> QED
        BY <4>3
    <3>7. Split(SubdomainFor(s, t)) =
            IF EndsInHyphen(s) THEN NoMatch ELSE [slot |-> s, tunnel |-> t]
      BY <2>4, <3>2, <3>3, SplitSubdomain
    <3>8. ~ EndsInHyphen(s) => FALSE
      BY <3>5, <3>6, <3>7
    <3> QED
      BY <3>8
  <2> QED
    BY <2>3, <2>4 DEF ParseIsExact, HostOf, h, p
<1> QED
  BY <1>1, Spelled, PTL
=============================================================================
