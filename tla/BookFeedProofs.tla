---------------------------- MODULE BookFeedProofs ----------------------------
(***************************************************************************)
(* The order books of BookFeed, for any clients, prices, sizes, exchanges,  *)
(* books at the start and any number of updates and requests: the           *)
(* BrokerageCenter gets the books of the market, and a client that missed   *)
(* nothing gets those of the BrokerageCenter.                               *)
(*                                                                          *)
(* What is at a place of a book in the end depends on the last message that *)
(* says something of it. So messages that follow others are told on top of  *)
(* them, and both properties follow from one inductive invariant, FeedInv:  *)
(*                                                                          *)
(*   MirrorInv  what is on its way from the market, told on top of the      *)
(*              books of the BrokerageCenter, gives those of the market;     *)
(*   SavedInv   the entry that was saved and is still to be sent, and stays  *)
(*              in the buffer, says nothing new to the books;                *)
(*   ClientInv  what is on its way to a client, and then that entry, told    *)
(*              on top of its book, gives the book of the BrokerageCenter.   *)
(***************************************************************************)
EXTENDS BookFeed, DataLemmas

--------------------------------------------------------------------------------
(* What is said last. *)

Sayings == [says: BOOLEAN, size: Nat]

(***************************************************************************)
(* The last of the sayings that say something decides, and the first state  *)
(* if none does.                                                            *)
(***************************************************************************)
LEMMA LastSays ==
    ASSUME NEW s \in Seq(Sayings), NEW was
    PROVE  /\ (\A i \in 1..Len(s) : ~s[i].says) => InTheEnd(s, was) = was
           /\ \A i \in 1..Len(s) : s[i].says /\ (\A j \in 1..Len(s) : j > i => ~s[j].says)
                                      => InTheEnd(s, was) = s[i].size
           /\ \/ \A i \in 1..Len(s) : ~s[i].says
              \/ \E i \in 1..Len(s) : s[i].says /\ \A j \in 1..Len(s) : j > i => ~s[j].says
<1>n. PICK n : n = Len(s)
  OBVIOUS
<1>1. n \in Nat /\ DOMAIN s = 1..n
  BY <1>n, LenProperties
<1>S. PICK S : S = {i \in 1..n : s[i].says}
  OBVIOUS
<1>2. InTheEnd(s, was) = IF S = {} THEN was ELSE s[Max(S)].size
  BY <1>1, <1>S DEF InTheEnd
<1>3. S # {} => \E i \in S : \A j \in S : j <= i
  <2> SUFFICES ASSUME S # {} PROVE \E i \in S : \A j \in S : j <= i
    OBVIOUS
  <2>R. PICK R : R = {n - i : i \in S}
    OBVIOUS
  <2>1. \A i \in S : i \in 1..n
    BY <1>S
  <2>2. R \in SUBSET Nat /\ R # {}
    BY <1>1, <2>1, <2>R
  <2>3. PICK m \in R : \A y \in R : m <= y
    BY <2>2, MinNat
  <2>4. PICK i \in S : m = n - i
    BY <2>3, <2>R
  <2>5. \A j \in S : j <= i
    BY <1>1, <2>1, <2>3, <2>4, <2>R
  <2> QED BY <2>4, <2>5
<1>4. \A i \in S : (\A j \in S : j <= i) => Max(S) = i
  <2> SUFFICES ASSUME NEW i \in S, \A j \in S : j <= i PROVE Max(S) = i
    OBVIOUS
  <2>1. \A j \in S : j \in Nat
    BY <1>1, <1>S
  <2>2. Max(S) \in S /\ \A j \in S : Max(S) >= j
    BY <2>1 DEF Max
  <2> QED BY <2>1, <2>2
<1>5. \A i \in 1..n : s[i].says /\ (\A j \in 1..n : j > i => ~s[j].says)
                        => i \in S /\ \A j \in S : j <= i
  BY <1>1, <1>S
<1>6. \A i \in 1..n : s[i].says /\ (\A j \in 1..n : j > i => ~s[j].says)
                        => InTheEnd(s, was) = s[i].size
  BY <1>2, <1>4, <1>5
<1>7. (\A i \in 1..n : ~s[i].says) => S = {}
  BY <1>S
<1>8. \/ \A i \in 1..n : ~s[i].says
      \/ \E i \in 1..n : s[i].says /\ \A j \in 1..n : j > i => ~s[j].says
  <2>1. CASE S = {}
    BY <2>1, <1>S
  <2>2. CASE S # {}
    <3>1. PICK i \in S : \A j \in S : j <= i
      BY <2>2, <1>3
    <3>2. i \in 1..n /\ s[i].says
      BY <1>S
    <3>3. ASSUME NEW j \in 1..n, j > i PROVE ~s[j].says
      <4>1. j \notin S
        BY <1>1, <3>1, <3>2, <3>3
      <4> QED BY <1>S, <4>1
    <3> QED BY <3>2, <3>3
  <2> QED BY <2>1, <2>2
<1> QED BY <1>2, <1>6, <1>7, <1>8, <1>n

(***************************************************************************)
(* What comes later is said on top of what came before.                     *)
(***************************************************************************)
LEMMA EndConcat ==
    ASSUME NEW s \in Seq(Sayings), NEW t \in Seq(Sayings), NEW was
    PROVE  InTheEnd(s \o t, was) = InTheEnd(t, InTheEnd(s, was))
<1>m. PICK m : m = Len(s)
  OBVIOUS
<1>n. PICK n : n = Len(t)
  OBVIOUS
<1>c. PICK c : c = s \o t
  OBVIOUS
<1>b. PICK b : b = InTheEnd(s, was)
  OBVIOUS
<1>1. m \in Nat /\ n \in Nat
  BY <1>m, <1>n, LenProperties
<1>2. /\ c \in Seq(Sayings) /\ Len(c) = m + n
      /\ \A i \in 1..(m + n) : c[i] = IF i <= m THEN s[i] ELSE t[i - m]
  BY <1>c, <1>m, <1>n, ConcatProperties
<1>3. \A i \in 1..m : i \in 1..(m + n) /\ c[i] = s[i]
  BY <1>1, <1>2
<1>4. \A i \in 1..n : m + i \in 1..(m + n) /\ c[m + i] = t[i]
  BY <1>1, <1>2
<1>5. CASE \A i \in 1..n : ~t[i].says
  <2>1. InTheEnd(t, b) = b
    BY <1>5, <1>n, LastSays
  <2>2. ASSUME NEW j \in 1..(m + n), j > m PROVE ~c[j].says
    <3>1. j - m \in 1..n /\ m + (j - m) = j
      BY <1>1, <2>2
    <3> QED BY <1>4, <1>5, <3>1
  <2>3. CASE \A i \in 1..m : ~s[i].says
    <3>1. b = was
      BY <1>b, <1>m, <2>3, LastSays
    <3>2. \A j \in 1..(m + n) : ~c[j].says
      BY <1>1, <1>3, <2>2, <2>3
    <3>3. InTheEnd(c, was) = was
      BY <1>2, <3>2, LastSays
    <3> QED BY <1>b, <1>c, <2>1, <3>1, <3>3
  <2>4. ASSUME NEW i \in 1..m, s[i].says, \A j \in 1..m : j > i => ~s[j].says
        PROVE  InTheEnd(c, was) = InTheEnd(t, b)
    <3>1. b = s[i].size
      BY <1>b, <1>m, <2>4, LastSays
    <3>2. c[i] = s[i] /\ i \in 1..(m + n)
      BY <1>3
    <3>3. ASSUME NEW j \in 1..(m + n), j > i PROVE ~c[j].says
      <4>1. CASE j > m
        BY <2>2, <4>1
      <4>2. CASE ~(j > m)
        <5>1. j \in 1..m
          BY <1>1, <4>2
        <5> QED BY <1>3, <2>4, <3>3, <5>1
      <4> QED BY <4>1, <4>2
    <3>4. InTheEnd(c, was) = c[i].size
      BY <1>2, <2>4, <3>2, <3>3, LastSays
    <3> QED BY <2>1, <3>1, <3>2, <3>4
  <2>5. \/ \A i \in 1..m : ~s[i].says
        \/ \E i \in 1..m : s[i].says /\ \A j \in 1..m : j > i => ~s[j].says
    BY <1>m, LastSays
  <2> QED BY <1>b, <1>c, <2>3, <2>4, <2>5
<1>6. ASSUME NEW i \in 1..n, t[i].says, \A j \in 1..n : j > i => ~t[j].says
      PROVE  InTheEnd(c, was) = InTheEnd(t, b)
  <2>1. InTheEnd(t, b) = t[i].size
    BY <1>6, <1>n, LastSays
  <2>2. m + i \in 1..(m + n) /\ c[m + i] = t[i]
    BY <1>4
  <2>3. ASSUME NEW j \in 1..(m + n), j > m + i PROVE ~c[j].says
    <3>1. j - m \in 1..n /\ m + (j - m) = j /\ j - m > i
      BY <1>1, <2>3
    <3> QED BY <1>4, <1>6, <3>1
  <2>4. InTheEnd(c, was) = c[m + i].size
    BY SMTT(60), <1>2, <1>6, <2>2, <2>3, LastSays
  <2> QED BY <2>1, <2>2, <2>4
<1>7. \/ \A i \in 1..n : ~t[i].says
      \/ \E i \in 1..n : t[i].says /\ \A j \in 1..n : j > i => ~t[j].says
  BY <1>n, LastSays
<1> QED BY <1>b, <1>c, <1>5, <1>6, <1>7

(***************************************************************************)
(* The same of a sequence of messages, each of which says what F has it say.*)
(***************************************************************************)
Told(F, f, was) == InTheEnd([i \in DOMAIN f |-> F[f[i]]], was)

Said(F, m, was) == IF F[m].says THEN F[m].size ELSE was

\* A message is told as it says.
LEMMA ToldOne ==
    ASSUME NEW M, NEW F \in [M -> Sayings], NEW m \in M, NEW was
    PROVE  Told(F, <<m>>, was) = Said(F, m, was)
<1>f. PICK f : f = <<m>>
  OBVIOUS
<1>1. f \in Seq(M) /\ Len(f) = 1 /\ DOMAIN f = 1..1 /\ f[1] = m
  BY <1>f
<1>s. PICK s : s = [i \in DOMAIN f |-> F[f[i]]]
  OBVIOUS
<1>n. PICK n : n = 1
  OBVIOUS
<1>2. s \in [1..n -> Sayings] /\ s[1] = F[m] /\ n \in Nat
  BY <1>1, <1>n, <1>s
<1>6. s \in Seq(Sayings) /\ Len(s) = n
  BY <1>2
<1>3. s \in Seq(Sayings) /\ Len(s) = 1
  BY <1>6, <1>n
<1>4. CASE F[m].says
  <2>1. s[1].says /\ 1 \in 1..Len(s) /\ \A j \in 1..Len(s) : j > 1 => ~s[j].says
    BY <1>2, <1>3, <1>4
  <2>2. InTheEnd(s, was) = s[1].size
    BY <1>3, <2>1, LastSays
  <2> QED BY <1>2, <1>4, <1>f, <1>s, <2>2 DEF Told, Said
<1>5. CASE ~F[m].says
  <2>1. \A j \in 1..Len(s) : ~s[j].says
    BY <1>2, <1>3, <1>5
  <2>2. InTheEnd(s, was) = was
    BY <1>3, <2>1, LastSays
  <2> QED BY <1>5, <1>f, <1>s, <2>2 DEF Told, Said
<1> QED BY <1>4, <1>5

\* Messages that follow others are told on top of them.
LEMMA ToldConcat ==
    ASSUME NEW M, NEW F \in [M -> Sayings], NEW f \in Seq(M), NEW g \in Seq(M), NEW was
    PROVE  Told(F, f \o g, was) = Told(F, g, Told(F, f, was))
<1>m. PICK m : m = Len(f)
  OBVIOUS
<1>n. PICK n : n = Len(g)
  OBVIOUS
<1>c. PICK c : c = f \o g
  OBVIOUS
<1>1. /\ m \in Nat /\ n \in Nat /\ DOMAIN f = 1..m /\ DOMAIN g = 1..n
      /\ (\A i \in 1..m : f[i] \in M) /\ (\A i \in 1..n : g[i] \in M)
  BY <1>m, <1>n, LenProperties, ElementOfSeq
<1>2. /\ c \in Seq(M) /\ Len(c) = m + n /\ DOMAIN c = 1..(m + n)
      /\ \A i \in 1..(m + n) : c[i] = IF i <= m THEN f[i] ELSE g[i - m]
  BY <1>c, <1>m, <1>n, ConcatProperties, LenProperties
<1>s. PICK s : s = [i \in DOMAIN f |-> F[f[i]]]
  OBVIOUS
<1>t. PICK t : t = [i \in DOMAIN g |-> F[g[i]]]
  OBVIOUS
<1>u. PICK u : u = [i \in DOMAIN c |-> F[c[i]]]
  OBVIOUS
<1>3. /\ s \in [1..m -> Sayings] /\ t \in [1..n -> Sayings]
      /\ (\A i \in 1..m : s[i] = F[f[i]]) /\ (\A i \in 1..n : t[i] = F[g[i]])
  BY <1>1, <1>s, <1>t
<1>4. s \in Seq(Sayings) /\ Len(s) = m /\ t \in Seq(Sayings) /\ Len(t) = n
  BY <1>1, <1>3
<1>v. PICK v : v = s \o t
  OBVIOUS
<1>5. /\ v \in Seq(Sayings) /\ Len(v) = m + n
      /\ \A i \in 1..(m + n) : v[i] = IF i <= m THEN s[i] ELSE t[i - m]
  BY <1>4, <1>v, ConcatProperties
<1>6. u = [i \in 1..(m + n) |-> F[c[i]]]
  BY <1>2, <1>u
<1>7. ASSUME NEW i \in 1..(m + n) PROVE F[c[i]] = v[i]
  <2>1. CASE i <= m
    <3>1. i \in 1..m
      BY <1>1, <2>1
    <3> QED BY <1>2, <1>3, <1>5, <2>1, <3>1
  <2>2. CASE ~(i <= m)
    <3>1. i - m \in 1..n
      BY <1>1, <2>2
    <3> QED BY <1>2, <1>3, <1>5, <2>2, <3>1
  <2> QED BY <2>1, <2>2
<1>8. v = [i \in 1..(m + n) |-> v[i]]
  BY <1>5
<1>9. u = v
  BY <1>6, <1>7, <1>8
<1>10. InTheEnd(v, was) = InTheEnd(t, InTheEnd(s, was))
  BY <1>4, <1>v, EndConcat
<1> QED BY <1>9, <1>10, <1>c, <1>s, <1>t, <1>u DEF Told

\* A message that is added is told last.
LEMMA ToldAppend ==
    ASSUME NEW M, NEW F \in [M -> Sayings], NEW f \in Seq(M), NEW m \in M, NEW was
    PROVE  Told(F, Append(f, m), was) = Said(F, m, Told(F, f, was))
<1>1. Append(f, m) = f \o <<m>> /\ <<m>> \in Seq(M)
  BY AppendIsConcat
<1>h. PICK h : h = <<m>>
  OBVIOUS
<1>2. h \in Seq(M)
  BY <1>1, <1>h
<1>3. Told(F, f \o h, was) = Told(F, h, Told(F, f, was))
  BY <1>2, ToldConcat
<1>b. PICK b : b = Told(F, f, was)
  OBVIOUS
<1>4. Told(F, <<m>>, b) = Said(F, m, b)
  BY ToldOne
<1> QED BY <1>1, <1>3, <1>4, <1>b, <1>h

\* The first message is told before the others.
LEMMA ToldHead ==
    ASSUME NEW M, NEW F \in [M -> Sayings], NEW f \in Seq(M), f # <<>>, NEW was
    PROVE  /\ Head(f) \in M /\ Tail(f) \in Seq(M)
           /\ Told(F, f, was) = Told(F, Tail(f), Said(F, Head(f), was))
<1>1. /\ Head(f) \in M /\ Tail(f) \in Seq(M) /\ Len(Tail(f)) = Len(f) - 1 /\ Len(f) \in Nat \ {0}
      /\ \A i \in 1..Len(Tail(f)) : Tail(f)[i] = f[i + 1]
  BY HeadTailProperties, EmptySeq
<1>m. PICK m : m = Head(f)
  OBVIOUS
<1>t. PICK t : t = Tail(f)
  OBVIOUS
<1>h. PICK h : h = <<m>>
  OBVIOUS
<1>5. m \in M /\ t \in Seq(M) /\ h \in Seq(M) /\ Len(h) = 1 /\ h[1] = m
  BY <1>1, <1>h, <1>m, <1>t
<1>10. /\ h \o t \in Seq(M) /\ Len(h \o t) = Len(h) + Len(t)
       /\ \A i \in 1..(Len(h) + Len(t)) : (h \o t)[i] = IF i <= Len(h) THEN h[i] ELSE t[i - Len(h)]
  BY <1>5, ConcatProperties
<1>6. /\ h \o t \in Seq(M) /\ Len(h \o t) = 1 + Len(t)
      /\ \A i \in 1..(1 + Len(t)) : (h \o t)[i] = IF i <= 1 THEN h[i] ELSE t[i - 1]
  BY <1>5, <1>10
<1>7. f[1] = m /\ Len(f) = 1 + Len(t)
  BY <1>1, <1>m, <1>t
<1>8. ASSUME NEW i \in 1..Len(f) PROVE f[i] = (h \o t)[i]
  <2>1. CASE i = 1
    BY <1>1, <1>5, <1>6, <1>7, <2>1
  <2>2. CASE i # 1
    <3>1. i - 1 \in 1..Len(t) /\ (i - 1) + 1 = i /\ ~(i <= 1) /\ i \in 1..(1 + Len(t))
      BY <1>1, <1>7, <2>2
    <3> QED BY <1>1, <1>6, <1>t, <3>1
  <2> QED BY <2>1, <2>2
<1>9. f = h \o t
  BY <1>6, <1>7, <1>8, SeqEqual
<1>2. m \in M /\ t \in Seq(M)
  BY <1>5
<1>11. Told(F, h \o t, was) = Told(F, t, Told(F, h, was))
  BY <1>5, ToldConcat
<1>3. Told(F, f, was) = Told(F, t, Told(F, <<m>>, was))
  BY <1>9, <1>11, <1>h
<1>4. Told(F, <<m>>, was) = Said(F, m, was)
  BY <1>2, ToldOne
<1> QED BY <1>1, <1>2, <1>3, <1>4, <1>m, <1>t

\* What says nothing changes nothing.
LEMMA ToldNothing ==
    ASSUME NEW M, NEW F \in [M -> Sayings], NEW f \in Seq(M), NEW was,
           \A i \in 1..Len(f) : ~F[f[i]].says
    PROVE  Told(F, f, was) = was
<1>1. Len(f) \in Nat /\ DOMAIN f = 1..Len(f) /\ \A i \in 1..Len(f) : f[i] \in M
  BY LenProperties, ElementOfSeq
<1>s. PICK s : s = [i \in DOMAIN f |-> F[f[i]]]
  OBVIOUS
<1>2. s \in [1..Len(f) -> Sayings] /\ \A i \in 1..Len(f) : s[i] = F[f[i]]
  BY <1>1, <1>s
<1>3. s \in Seq(Sayings) /\ Len(s) = Len(f)
  BY <1>1, <1>2
<1>5. \A j \in 1..Len(s) : ~s[j].says
  BY <1>2, <1>3
<1>4. InTheEnd(s, was) = was
  BY <1>3, <1>5, LastSays
<1> QED BY <1>4, <1>s DEF Told

\* The last that says something is told.
LEMMA ToldLast ==
    ASSUME NEW M, NEW F \in [M -> Sayings], NEW f \in Seq(M), NEW was,
           NEW i \in 1..Len(f), F[f[i]].says, \A j \in 1..Len(f) : j > i => ~F[f[j]].says
    PROVE  Told(F, f, was) = F[f[i]].size
<1>1. Len(f) \in Nat /\ DOMAIN f = 1..Len(f) /\ \A j \in 1..Len(f) : f[j] \in M
  BY LenProperties, ElementOfSeq
<1>s. PICK s : s = [j \in DOMAIN f |-> F[f[j]]]
  OBVIOUS
<1>2. s \in [1..Len(f) -> Sayings] /\ \A j \in 1..Len(f) : s[j] = F[f[j]]
  BY <1>1, <1>s
<1>3. s \in Seq(Sayings) /\ Len(s) = Len(f)
  BY <1>1, <1>2
<1>5. i \in 1..Len(s) /\ s[i].says /\ \A j \in 1..Len(s) : j > i => ~s[j].says
  BY <1>2, <1>3
<1>4. InTheEnd(s, was) = s[i].size
  BY <1>3, <1>5, LastSays
<1> QED BY <1>2, <1>4, <1>s DEF Told

\* If nothing but zero is said, nothing comes of it.
LEMMA ToldZero ==
    ASSUME NEW M, NEW F \in [M -> Sayings], NEW f \in Seq(M),
           \A i \in 1..Len(f) : F[f[i]].size = 0
    PROVE  Told(F, f, 0) = 0
<1>1. Len(f) \in Nat /\ DOMAIN f = 1..Len(f) /\ \A j \in 1..Len(f) : f[j] \in M
  BY LenProperties, ElementOfSeq
<1>s. PICK s : s = [j \in DOMAIN f |-> F[f[j]]]
  OBVIOUS
<1>2. s \in [1..Len(f) -> Sayings] /\ \A j \in 1..Len(f) : s[j] = F[f[j]]
  BY <1>1, <1>s
<1>3. s \in Seq(Sayings) /\ Len(s) = Len(f)
  BY <1>1, <1>2
<1>4. InTheEnd(s, 0) = 0 \/ \E i \in 1..Len(s) : InTheEnd(s, 0) = s[i].size
  BY <1>3, LastSays
<1>5. InTheEnd(s, 0) = 0
  BY <1>2, <1>3, <1>4
<1> QED BY <1>5, <1>s DEF Told

--------------------------------------------------------------------------------
(* Books and their updates. *)

\* A book is a function from places to sizes.
LEMMA BookFacts ==
    ASSUME NEW b \in Books
    PROVE  /\ DOMAIN b \subseteq Places /\ b = [p \in DOMAIN b |-> b[p]]
           /\ \A p \in DOMAIN b : b[p] \in Sizes \cup {0}
           /\ \A p : SizeAt(b, p) \in Nat
<1>1. PICK D \in SUBSET Places : b \in [D -> Sizes \cup {0}]
  BY DEF Books
<1>2. Sizes \subseteq Nat
  BY FeedAssumption
<1>3. DOMAIN b = D /\ b = [p \in D |-> b[p]] /\ \A p \in D : b[p] \in Sizes \cup {0}
  BY <1>1
<1>4. \A p : SizeAt(b, p) \in Nat
  BY <1>2, <1>3 DEF SizeAt
<1> QED BY <1>3, <1>4

\* A function from places to sizes is a book.
LEMMA IsABook ==
    ASSUME NEW D \in SUBSET Places, NEW b \in [D -> Sizes \cup {0}] PROVE b \in Books
BY DEF Books

\* Places and the place of an entry that clears a book.
LEMMA PlaceFacts ==
    /\ \A p \in Places : p[1] \in Nat \ {0} /\ p[1] \in Prices
    /\ Places \in SUBSET (Nat \X (Dests \cup {Shift}))
    /\ \A e \in Entries : /\ e.kind \in Kinds /\ e.size \in Sizes \cup {0} /\ e.size \in Nat
                          /\ e.place \in Places \/ e.place = <<0, Shift>>
                          /\ Clears(e) <=> e.place \notin Places
<1>1. Prices \subseteq Nat \ {0} /\ Sizes \subseteq Nat
  BY FeedAssumption
<1>2. \A p \in Places : p[1] \in Nat \ {0} /\ p[1] \in Prices
  BY <1>1 DEF Places
<1>3. Places \in SUBSET (Nat \X (Dests \cup {Shift}))
  BY <1>1 DEF Places
<1>4. ASSUME NEW e \in Entries
      PROVE  /\ e.kind \in Kinds
             /\ e.size \in Sizes \cup {0}
             /\ e.size \in Nat
             /\ (e.place \in Places \/ e.place = <<0, Shift>>)
  <2>P. PICK P : P = Places \cup {<<0, Shift>>}
    OBVIOUS
  <2>1. e \in [kind: Kinds, place: P, size: Sizes \cup {0}]
    BY <2>P DEF Entries
  <2>2. e.kind \in Kinds /\ e.place \in P /\ e.size \in Sizes \cup {0}
    BY <2>1
  <2>5. e.kind \in Kinds /\ e.size \in Sizes \cup {0}
    BY <2>2
  <2>n. PICK n : n = e.size
    OBVIOUS
  <2>6. n \in Sizes \cup {0}
    BY <2>5, <2>n
  <2>7. n \in Nat
    BY <1>1, <2>6
  <2>3. e.size \in Nat
    BY <2>7, <2>n
  <2>4. e.place \in Places \/ e.place = <<0, Shift>>
    BY <2>2, <2>P
  <2> QED BY <2>3, <2>4, <2>5
<1>5. ASSUME NEW e \in Entries PROVE Clears(e) <=> e.place \notin Places
  <2>1. CASE e.place \in Places
    BY <1>2, <2>1 DEF Clears
  <2>2. CASE e.place = <<0, Shift>>
    <3>1. e.place[1] = 0
      BY <2>2
    <3> QED BY <1>2, <3>1 DEF Clears
  <2> QED BY <1>4, <2>1, <2>2
<1> QED BY <1>2, <1>3, <1>4, <1>5

(***************************************************************************)
(* A quote leaves what is not better than itself, and itself.               *)
(***************************************************************************)
LEMMA SaveGlobalAt ==
    ASSUME NEW b \in Books, NEW e \in Entries, e.place \in Places
    PROVE  /\ SaveGlobal(b, e) \in Books
           /\ \A p \in Places : SizeAt(SaveGlobal(b, e), p)
                                  = IF p = e.place THEN e.size
                                    ELSE IF p[1] < e.place[1] THEN 0 ELSE SizeAt(b, p)
<1>D. PICK D : D = {p \in DOMAIN b : p[1] >= e.place[1]} \cup {e.place}
  OBVIOUS
<1>1. /\ DOMAIN b \subseteq Places /\ (\A p \in DOMAIN b : b[p] \in Sizes \cup {0})
      /\ e.size \in Sizes \cup {0} /\ \A p \in Places : p[1] \in Nat
  BY BookFacts, PlaceFacts
<1>n. PICK new : new = SaveGlobal(b, e)
  OBVIOUS
<1>2. new = [p \in D |-> IF p = e.place THEN e.size ELSE b[p]]
  BY <1>D, <1>n DEF SaveGlobal
<1>3. D \in SUBSET Places /\ new \in [D -> Sizes \cup {0}]
  BY <1>1, <1>2, <1>D
<1>4. ASSUME NEW p \in Places
      PROVE  SizeAt(new, p) = IF p = e.place THEN e.size
                              ELSE IF p[1] < e.place[1] THEN 0 ELSE SizeAt(b, p)
  BY <1>1, <1>2, <1>3, <1>D DEF SizeAt
<1> QED BY <1>3, <1>4, <1>n, IsABook

(***************************************************************************)
(* Setting or removing one place leaves the others.                         *)
(***************************************************************************)
LEMMA SetAt ==
    ASSUME NEW b \in Books, NEW at \in Places, NEW n \in Sizes \cup {0}
    PROVE  /\ With(b, at, n) \in Books
           /\ \A p \in Places : SizeAt(With(b, at, n), p) = IF p = at THEN n ELSE SizeAt(b, p)
<1>1. /\ DOMAIN b \subseteq Places /\ (\A p \in DOMAIN b : b[p] \in Sizes \cup {0})
  BY BookFacts
<1>D. PICK D : D = DOMAIN b \cup {at}
  OBVIOUS
<1>n. PICK new : new = With(b, at, n)
  OBVIOUS
<1>2. new = [p \in D |-> IF p = at THEN n ELSE b[p]]
  BY <1>D, <1>n DEF With
<1>3. D \in SUBSET Places /\ new \in [D -> Sizes \cup {0}]
  BY <1>1, <1>2, <1>D
<1>4. ASSUME NEW p \in Places
      PROVE  SizeAt(new, p) = IF p = at THEN n ELSE SizeAt(b, p)
  BY <1>1, <1>2, <1>3, <1>D DEF SizeAt
<1> QED BY <1>3, <1>4, <1>n, IsABook

\* Removing a place leaves the others.
LEMMA WithoutAt ==
    ASSUME NEW b \in Books, NEW at \in Places
    PROVE  /\ Without(b, at) \in Books
           /\ \A p \in Places : SizeAt(Without(b, at), p) = IF p = at THEN 0 ELSE SizeAt(b, p)
<1>1. /\ DOMAIN b \subseteq Places /\ (\A p \in DOMAIN b : b[p] \in Sizes \cup {0})
  BY BookFacts
<1>D. PICK D : D = DOMAIN b \ {at}
  OBVIOUS
<1>n. PICK new : new = Without(b, at)
  OBVIOUS
<1>2. new = [p \in D |-> b[p]]
  BY <1>D, <1>n DEF Without, Restrict
<1>3. D \in SUBSET Places /\ new \in [D -> Sizes \cup {0}]
  BY <1>1, <1>2, <1>D
<1>4. ASSUME NEW p \in Places
      PROVE  SizeAt(new, p) = IF p = at THEN 0 ELSE SizeAt(b, p)
  BY <1>1, <1>2, <1>3, <1>D DEF SizeAt
<1> QED BY <1>3, <1>4, <1>n, IsABook

\* Nothing is anywhere in the empty book.
LEMMA NoBookAt == NoBook \in Books /\ \A p : SizeAt(NoBook, p) = 0
<1>1. NoBook \in [{} -> Sizes \cup {0}] /\ DOMAIN NoBook = {}
  BY DEF NoBook
<1> QED BY <1>1, IsABook DEF SizeAt

\* What the entries of the feed and the messages to the clients say of place p of book k.
EntrySays(k, p) == [e \in Entries |-> Saying(e, k, p)]
MessageSays(k, p) == [m \in Messages |-> Telling(m, k, p)]

\* What is said is a saying.
LEMMA SayingsType ==
    ASSUME NEW k \in Kinds, NEW p \in Places
    PROVE  EntrySays(k, p) \in [Entries -> Sayings] /\ MessageSays(k, p) \in [Messages -> Sayings]
<1>1. ASSUME NEW e \in Entries PROVE Saying(e, k, p) \in Sayings
  <2>1. e.size \in Nat
    BY PlaceFacts
  <2>2. (e.kind = k /\ (Clears(e) \/ e.place = p \/ (k = "GLB" /\ p[1] < e.place[1]))) \in BOOLEAN
    OBVIOUS
  <2>3. (IF e.place = p THEN e.size ELSE 0) \in Nat
    BY <2>1
  <2> QED BY <2>2, <2>3 DEF Saying, Sayings
<1>2. ASSUME NEW m \in Messages PROVE Telling(m, k, p) \in Sayings
  <2>1. CASE m \in [whole: {TRUE}, kind: Kinds, book: Books]
    <3>1. m.whole /\ m.book \in Books
      BY <2>1
    <3>2. SizeAt(m.book, p) \in Nat
      BY <3>1, BookFacts
    <3>3. (m.kind = k) \in BOOLEAN
      OBVIOUS
    <3> QED BY <3>1, <3>2, <3>3 DEF Telling, Sayings
  <2>2. CASE m \in [whole: {FALSE}, entry: Entries]
    <3>1. ~m.whole /\ m.entry \in Entries
      BY <2>2
    <3> QED BY <1>1, <3>1 DEF Telling
  <2> QED BY <2>1, <2>2 DEF Messages
<1> QED BY <1>1, <1>2 DEF EntrySays, MessageSays

(***************************************************************************)
(* An entry that is saved leaves in each place what it says of it, in the    *)
(* BrokerageCenter and in the client.                                       *)
(***************************************************************************)
Leaves(b, e, k, after) ==
    /\ after \in Books
    /\ \A p \in Places : SizeAt(after, p) = Said(EntrySays(k, p), e, SizeAt(b, p))

\* Saving an entry does, in each place, what the entry says.
LEMMA SaveLeaves ==
    ASSUME NEW b \in Books, NEW e \in Entries
    PROVE  Leaves(b, e, e.kind, Save(b, e)) /\ Leaves(b, e, e.kind, ClientUpdate(b, e))
<1>k. PICK k : k = e.kind
  OBVIOUS
<1>0. k \in Kinds /\ e.size \in Sizes \cup {0} /\ e.size \in Nat
  BY <1>k, PlaceFacts
<1>1. \A p \in Places : p[1] \in Nat
  BY PlaceFacts
<1>2. ASSUME NEW p \in Places, NEW was
      PROVE  Said(EntrySays(k, p), e, was) =
                IF Clears(e) \/ e.place = p \/ (k = "GLB" /\ p[1] < e.place[1])
                THEN (IF e.place = p THEN e.size ELSE 0) ELSE was
  BY <1>k DEF Said, EntrySays, Saying
<1>3. CASE Clears(e)
  <2>1. e.place \notin Places
    BY <1>3, PlaceFacts
  <2>2. Save(b, e) = NoBook /\ ClientUpdate(b, e) = NoBook
    BY <1>3 DEF Save, ClientUpdate
  <2>3. Leaves(b, e, k, NoBook)
    BY <1>2, <1>3, <2>1, NoBookAt DEF Leaves
  <2> QED BY <1>k, <2>2, <2>3
<1>4. CASE ~Clears(e) /\ k = "GLB"
  <2>1. e.place \in Places
    BY <1>4, PlaceFacts
  <2>2. Save(b, e) = SaveGlobal(b, e) /\ ClientUpdate(b, e) = SaveGlobal(b, e)
    BY <1>4, <1>k DEF Save, ClientUpdate
  <2>3. Leaves(b, e, k, SaveGlobal(b, e))
    <3>1. SaveGlobal(b, e) \in Books
      BY <2>1, SaveGlobalAt
    <3>2. ASSUME NEW p \in Places
          PROVE  SizeAt(SaveGlobal(b, e), p) = Said(EntrySays(k, p), e, SizeAt(b, p))
      <4>1. SizeAt(SaveGlobal(b, e), p)
                                  = IF p = e.place THEN e.size
                                    ELSE IF p[1] < e.place[1] THEN 0 ELSE SizeAt(b, p)
        BY <2>1, SaveGlobalAt
      <4> QED BY <1>2, <1>4, <4>1
    <3> QED BY <3>1, <3>2 DEF Leaves
  <2> QED BY <1>k, <2>2, <2>3
<1>5. CASE ~Clears(e) /\ k # "GLB"
  <2>1. e.place \in Places
    BY <1>5, PlaceFacts
  <2>2. /\ Save(b, e) = IF e.size > 0 THEN With(b, e.place, e.size) ELSE Without(b, e.place)
        /\ ClientUpdate(b, e) = IF e.size > 0 \/ e.place \notin DOMAIN b
                                THEN With(b, e.place, e.size) ELSE Without(b, e.place)
    BY <1>5, <1>k DEF Save, SaveLocal, ClientUpdate
  <2>3. Leaves(b, e, k, With(b, e.place, e.size))
    <3>1. With(b, e.place, e.size) \in Books
      BY <1>0, <2>1, SetAt
    <3>2. ASSUME NEW p \in Places
          PROVE  SizeAt(With(b, e.place, e.size), p) = Said(EntrySays(k, p), e, SizeAt(b, p))
      <4>1. SizeAt(With(b, e.place, e.size), p) = IF p = e.place THEN e.size ELSE SizeAt(b, p)
        BY <1>0, <2>1, SetAt
      <4> QED BY <1>2, <1>5, <4>1
    <3> QED BY <3>1, <3>2 DEF Leaves
  <2>4. e.size = 0 => Leaves(b, e, k, Without(b, e.place))
    <3>1. Without(b, e.place) \in Books
      BY <2>1, WithoutAt
    <3>2. ASSUME NEW p \in Places, e.size = 0
          PROVE  SizeAt(Without(b, e.place), p) = Said(EntrySays(k, p), e, SizeAt(b, p))
      <4>1. SizeAt(Without(b, e.place), p) = IF p = e.place THEN 0 ELSE SizeAt(b, p)
        BY <2>1, WithoutAt
      <4> QED BY <1>2, <1>5, <3>2, <4>1
    <3> QED BY <3>1, <3>2 DEF Leaves
  <2>5. e.size > 0 \/ e.size = 0
    BY <1>0
  <2> QED BY <1>0, <1>k, <2>2, <2>3, <2>4, <2>5
<1> QED BY <1>3, <1>4, <1>5

--------------------------------------------------------------------------------
(* What the market sends. *)

\* A book has finitely many entries, since prices and exchanges are finite.
LEMMA FiniteBook ==
    ASSUME NEW b \in Books
    PROVE  Cardinality(DOMAIN b) \in Nat
<1>1. IsFiniteSet(Prices \X Dests)
  BY FeedAssumption, FS_Product
<1>S. PICK S : S = {Shift}
  OBVIOUS
<1>2. IsFiniteSet(S)
  BY <1>S, FS_Singleton
<1>3. IsFiniteSet(Prices \X S)
  BY <1>2, FeedAssumption, FS_Product
<1>4. IsFiniteSet(Places)
  BY <1>1, <1>3, <1>S, FS_Union DEF Places
<1>5. IsFiniteSet(DOMAIN b)
  BY <1>4, BookFacts, FS_Subset
<1> QED BY <1>5, FS_CardinalityType

(***************************************************************************)
(* The entries of a book, the worst price first, say on top of nothing what *)
(* is in the book, and nothing of the other book.                           *)
(***************************************************************************)
SaysBook(b, kind, s) ==
    /\ s \in Seq(Entries)
    /\ \A k \in Kinds, p \in Places :
          /\ k # kind => \A was : Told(EntrySays(k, p), s, was) = was
          /\ k = kind => Told(EntrySays(k, p), s, 0) = SizeAt(b, p)

\* No entry of the list, the worst first, removes one in front of it that is in the book.
LEMMA WorstFirstSays ==
    ASSUME NEW b \in Books, NEW kind \in Kinds, NEW s \in WorstFirst(kind, b)
    PROVE  SaysBook(b, kind, s)
<1>D. PICK D : D = DOMAIN b
  OBVIOUS
<1>n. PICK n : n = Cardinality(D)
  OBVIOUS
<1>1. n \in Nat /\ D \subseteq Places /\ \A p \in D : b[p] \in Sizes \cup {0}
  BY <1>D, <1>n, FiniteBook, BookFacts
<1>2. PICK at \in Bijection(1..n, D) :
            /\ \A i, j \in DOMAIN at : i < j => at[i][1] >= at[j][1]
            /\ s = [i \in DOMAIN at |-> Entry(kind, at[i], b[at[i]])]
  BY <1>D, <1>n DEF WorstFirst
<1>3. /\ at \in [1..n -> D]
      /\ \A i, j \in 1..n : at[i] = at[j] => i = j
      /\ \A p \in D : \E i \in 1..n : at[i] = p
  BY <1>2 DEF Bijection, Injection, Surjection, IsInjective
<1>4. /\ \A i, j \in 1..n : i < j => at[i][1] >= at[j][1]
      /\ s = [i \in 1..n |-> Entry(kind, at[i], b[at[i]])]
  BY <1>2, <1>3
<1>5. ASSUME NEW i \in 1..n PROVE at[i] \in D /\ at[i] \in Places /\ Entry(kind, at[i], b[at[i]]) \in Entries
  BY <1>1, <1>3 DEF Entry, Entries
<1>6. s \in [1..n -> Entries]
  BY <1>4, <1>5
<1>7. s \in Seq(Entries) /\ Len(s) = n
  BY <1>1, <1>6
<1>8. \A i \in 1..n : s[i] = Entry(kind, at[i], b[at[i]])
  BY <1>4
<1>9. ASSUME NEW k \in Kinds, NEW p \in Places, k # kind, NEW was
      PROVE  Told(EntrySays(k, p), s, was) = was
  <2>F. PICK F : F = EntrySays(k, p)
    OBVIOUS
  <2>1. F \in [Entries -> Sayings]
    BY <2>F, SayingsType
  <2>2. ASSUME NEW i \in 1..Len(s) PROVE ~F[s[i]].says
    <3>1. s[i].kind = kind /\ s[i] \in Entries
      BY <1>5, <1>7, <1>8 DEF Entry
    <3> QED BY <1>9, <2>F, <3>1 DEF EntrySays, Saying
  <2>3. Told(F, s, was) = was
    BY <1>7, <2>1, <2>2, ToldNothing
  <2> QED BY <2>3, <2>F
<1>10. ASSUME NEW p \in Places
       PROVE  Told(EntrySays(kind, p), s, 0) = SizeAt(b, p)
  <2>F. PICK F : F = EntrySays(kind, p)
    OBVIOUS
  <2>1. F \in [Entries -> Sayings]
    BY <2>F, SayingsType
  <2>2. ASSUME NEW i \in 1..n
        PROVE  /\ s[i] \in Entries
               /\ F[s[i]].says <=> at[i] = p \/ (kind = "GLB" /\ p[1] < at[i][1])
               /\ F[s[i]].size = IF at[i] = p THEN b[p] ELSE 0
    <3>e. PICK e : e = s[i]
      OBVIOUS
    <3>q. PICK q : q = at[i]
      OBVIOUS
    <3>v. PICK v : v = b[q]
      OBVIOUS
    <3>0. e = Entry(kind, q, v) /\ e \in Entries /\ q \in Places
      BY <1>5, <1>8, <3>e, <3>q, <3>v
    <3>1. e.kind = kind /\ e.place = q /\ e.size = v
      BY <3>0 DEF Entry
    <3>2. ~Clears(e)
      BY <3>0, <3>1, PlaceFacts
    <3>3. F[e] = Saying(e, kind, p)
      BY <2>F, <3>0 DEF EntrySays
    <3>4. F[e].says = (e.kind = kind /\ (Clears(e) \/ e.place = p \/ (kind = "GLB" /\ p[1] < e.place[1])))
      BY <3>3 DEF Saying
    <3>5. F[e].size = IF e.place = p THEN e.size ELSE 0
      BY <3>3 DEF Saying
    <3>6. F[e].says <=> (q = p \/ (kind = "GLB" /\ p[1] < q[1]))
      BY <3>1, <3>2, <3>4
    <3>7. F[e].size = IF q = p THEN b[p] ELSE 0
      BY <3>1, <3>5, <3>v
    <3> QED BY <3>0, <3>6, <3>7, <3>e, <3>q
  <2>3. CASE p \in D
    <3>1. PICK i \in 1..n : at[i] = p
      BY <1>3, <2>3
    <3>2. F[s[i]].says /\ F[s[i]].size = b[p]
      BY <2>2, <3>1
    <3>3. ASSUME NEW j \in 1..Len(s), j > i PROVE ~F[s[j]].says
      <4>1. j \in 1..n /\ at[i][1] >= at[j][1] /\ at[j] # p /\ at[j] \in Places
        BY <1>1, <1>3, <1>4, <1>5, <1>7, <3>1, <3>3
      <4>2. ~(p[1] < at[j][1])
        <5>1. p[1] \in Nat /\ at[j][1] \in Nat
          BY <4>1, PlaceFacts
        <5> QED BY <3>1, <4>1, <5>1
      <4> QED BY <2>2, <4>1, <4>2
    <3>4. i \in 1..Len(s)
      BY <1>7
    <3>5. Told(F, s, 0) = F[s[i]].size
      BY <1>7, <2>1, <3>2, <3>3, <3>4, ToldLast
    <3> QED BY <1>D, <2>3, <2>F, <3>2, <3>5 DEF SizeAt
  <2>4. CASE p \notin D
    <3>1. SizeAt(b, p) = 0
      BY <1>D, <2>4 DEF SizeAt
    <3>2. \A i \in 1..n : F[s[i]].size = 0
      BY <1>3, <2>2, <2>4
    <3>3. Told(F, s, 0) = 0
      BY <1>7, <2>1, <3>2, ToldZero
    <3> QED BY <2>F, <3>1, <3>3
  <2> QED BY <2>3, <2>4
<1> QED BY <1>7, <1>9, <1>10 DEF SaysBook

\* Clearing a book says that nothing is in it.
LEMMA ClearSays ==
    ASSUME NEW kind \in Kinds
    PROVE  /\ Clear(kind) \in Entries
           /\ \A k \in Kinds, p \in Places : \A was :
                 Said(EntrySays(k, p), Clear(kind), was) = IF k = kind THEN 0 ELSE was
<1>e. PICK e : e = Clear(kind)
  OBVIOUS
<1>1. e = [kind |-> kind, place |-> <<0, Shift>>, size |-> 0]
  BY <1>e DEF Clear, Entry
<1>2. e \in Entries /\ e.kind = kind /\ e.size = 0 /\ e.place[1] = 0
  BY <1>1 DEF Entries
<1>3. Clears(e) /\ e.place \notin Places
  BY <1>2, PlaceFacts DEF Clears
<1>4. ASSUME NEW k \in Kinds, NEW p \in Places, NEW was
      PROVE  Said(EntrySays(k, p), e, was) = IF k = kind THEN 0 ELSE was
  <2>1. EntrySays(k, p)[e] = Saying(e, k, p)
    BY <1>2 DEF EntrySays
  <2>2. Saying(e, k, p).says = (e.kind = k /\ (Clears(e) \/ e.place = p \/ (k = "GLB" /\ p[1] < e.place[1])))
    BY DEF Saying
  <2>3. Saying(e, k, p).size = 0
    BY <1>2 DEF Saying
  <2> QED BY <1>2, <1>3, <2>1, <2>2, <2>3 DEF Said
<1> QED BY <1>2, <1>4, <1>e

(***************************************************************************)
(* What is sent at logon says what is in the books of the market, whatever  *)
(* came before.                                                             *)
(***************************************************************************)
SaysMarket(s) ==
    /\ s \in Seq(Entries)
    /\ \A k \in Kinds, p \in Places : \A was : Told(EntrySays(k, p), s, was) = SizeAt(market[k], p)

\* The books are cleared and sent, one after the other.
LEMMA OrderBookDataSays ==
    ASSUME market \in [Kinds -> Books],
           NEW q \in WorstFirst("GLB", market["GLB"]), NEW l \in WorstFirst("LOC", market["LOC"])
    PROVE  SaysMarket(OrderBookData(q, l))
<1>0. "GLB" \in Kinds /\ "LOC" \in Kinds /\ \A k \in Kinds : k = "GLB" \/ k = "LOC"
  BY DEF Kinds
<1>1. SaysBook(market["GLB"], "GLB", q) /\ SaysBook(market["LOC"], "LOC", l)
  BY <1>0, WorstFirstSays
<1>g. PICK g : g = <<Clear("GLB")>>
  OBVIOUS
<1>c. PICK c : c = <<Clear("LOC")>>
  OBVIOUS
<1>2. g \in Seq(Entries) /\ c \in Seq(Entries)
  BY <1>0, <1>c, <1>g, ClearSays
<1>3. q \in Seq(Entries) /\ l \in Seq(Entries)
  BY <1>1 DEF SaysBook
<1>a. PICK a : a = g \o q
  OBVIOUS
<1>b. PICK b : b = a \o c
  OBVIOUS
<1>4. a \in Seq(Entries)
  BY <1>2, <1>3, <1>a, ConcatProperties
<1>5. b \in Seq(Entries)
  BY <1>2, <1>4, <1>b, ConcatProperties
<1>6. b \o l \in Seq(Entries)
  BY <1>3, <1>5, ConcatProperties
<1>7. OrderBookData(q, l) = b \o l
  BY <1>a, <1>b, <1>c, <1>g DEF OrderBookData
<1>8. ASSUME NEW k \in Kinds, NEW p \in Places, NEW was
      PROVE  Told(EntrySays(k, p), b \o l, was) = SizeAt(market[k], p)
  <2>F. PICK F : F = EntrySays(k, p)
    OBVIOUS
  <2>1. F \in [Entries -> Sayings]
    BY <2>F, SayingsType
  <2>2. Told(F, g, was) = IF k = "GLB" THEN 0 ELSE was
    <3>x. PICK x : x = Clear("GLB")
      OBVIOUS
    <3>1. x \in Entries
      BY <1>0, <3>x, ClearSays
    <3>2. Told(F, <<x>>, was) = Said(F, x, was)
      BY <2>1, <3>1, ToldOne
    <3>3. Said(F, x, was) = IF k = "GLB" THEN 0 ELSE was
      BY <1>0, <2>F, <3>x, ClearSays
    <3> QED BY <1>g, <3>2, <3>3, <3>x
  <2>3. Told(F, a, was) = Told(F, q, Told(F, g, was))
    <3>1. Told(F, g \o q, was) = Told(F, q, Told(F, g, was))
      BY <1>2, <1>3, <2>1, ToldConcat
    <3> QED BY <1>a, <3>1
  <2>w. PICK w : w = Told(F, a, was)
    OBVIOUS
  <2>4. Told(F, c, w) = IF k = "LOC" THEN 0 ELSE w
    <3>x. PICK x : x = Clear("LOC")
      OBVIOUS
    <3>1. x \in Entries
      BY <1>0, <3>x, ClearSays
    <3>2. Told(F, <<x>>, w) = Said(F, x, w)
      BY <2>1, <3>1, ToldOne
    <3>3. Said(F, x, w) = IF k = "LOC" THEN 0 ELSE w
      BY <1>0, <2>F, <3>x, ClearSays
    <3> QED BY <1>c, <3>2, <3>3, <3>x
  <2>5. Told(F, b, was) = Told(F, c, w)
    <3>1. Told(F, a \o c, was) = Told(F, c, Told(F, a, was))
      BY <1>2, <1>4, <2>1, ToldConcat
    <3> QED BY <1>b, <2>w, <3>1
  <2>6. Told(F, b \o l, was) = Told(F, l, Told(F, b, was))
    BY <1>3, <1>5, <2>1, ToldConcat
  <2>7. CASE k = "GLB"
    <3>1. w = SizeAt(market[k], p)
      BY <1>1, <2>2, <2>3, <2>7, <2>F, <2>w DEF SaysBook
    <3>2. Told(F, b, was) = w
      BY <2>4, <2>5, <2>7
    <3>3. Told(F, l, w) = w
      BY <1>1, <2>7, <2>F DEF SaysBook
    <3> QED BY <2>6, <2>F, <3>1, <3>2, <3>3
  <2>8. CASE k = "LOC"
    <3>1. Told(F, b, was) = 0
      BY <2>4, <2>5, <2>8
    <3>2. Told(F, l, 0) = SizeAt(market[k], p)
      BY <1>1, <2>8, <2>F DEF SaysBook
    <3> QED BY <2>6, <2>F, <3>1, <3>2
  <2> QED BY <1>0, <2>7, <2>8
<1> QED BY <1>6, <1>7, <1>8 DEF SaysMarket

(***************************************************************************)
(* An update that the market sends says what becomes of its book.           *)
(***************************************************************************)
Tidings(b, e) ==
    /\ e \in Entries /\ e.place \in Places
    /\ Leaves(market[e.kind], e, e.kind, b)
    /\ MarketChanges(b, e)

\* What an entry of a place says.
LEMMA EntryLeaves ==
    ASSUME NEW kind \in Kinds, NEW place \in Places, NEW size \in Sizes \cup {0},
           NEW e, e = Entry(kind, place, size)
    PROVE  /\ e \in Entries /\ e.kind = kind /\ e.place = place /\ e.size = size /\ ~Clears(e)
           /\ \A p \in Places : \A was : Said(EntrySays(kind, p), e, was)
                = IF p = place THEN size ELSE IF kind = "GLB" /\ p[1] < place[1] THEN 0 ELSE was
<1>1. e \in Entries /\ e.kind = kind /\ e.place = place /\ e.size = size
  BY DEF Entry, Entries
<1>2. ~Clears(e)
  BY <1>1, PlaceFacts
<1>3. ASSUME NEW p \in Places, NEW was
      PROVE  Said(EntrySays(kind, p), e, was)
                = IF p = place THEN size ELSE IF kind = "GLB" /\ p[1] < place[1] THEN 0 ELSE was
  <2>1. EntrySays(kind, p)[e] = Saying(e, kind, p)
    BY <1>1 DEF EntrySays
  <2>2. Saying(e, kind, p).says = (e.kind = kind /\ (Clears(e) \/ e.place = p \/ (kind = "GLB" /\ p[1] < e.place[1])))
    BY DEF Saying
  <2>3. Saying(e, kind, p).size = IF e.place = p THEN e.size ELSE 0
    BY DEF Saying
  <2>4. CASE p = place
    BY <1>1, <2>1, <2>2, <2>3, <2>4 DEF Said
  <2>5. CASE p # place /\ kind = "GLB" /\ p[1] < place[1]
    BY <1>1, <2>1, <2>2, <2>3, <2>5 DEF Said
  <2>6. CASE p # place /\ ~(kind = "GLB" /\ p[1] < place[1])
    BY <1>1, <1>2, <2>1, <2>2, <2>3, <2>6 DEF Said
  <2> QED BY <2>4, <2>5, <2>6
<1> QED BY <1>1, <1>2, <1>3

\* An order, a quote or an execution changes a book as the update that is sent says.
LEMMA MarketTells ==
    ASSUME TypeOK, Market PROVE \E b \in Books, e \in Entries : Tidings(b, e)
<1>0. /\ market \in [Kinds -> Books] /\ "GLB" \in Kinds /\ "LOC" \in Kinds
      /\ 0 \notin Sizes /\ \A n \in Sizes \cup {0} : n \in Nat /\ (n > 0 => n \in Sizes)
  BY FeedAssumption DEF TypeOK, Kinds
<1>1. ASSUME NEW price \in Prices, NEW size \in Sizes \cup {0}, LocalLevel(price, size)
      PROVE  \E b \in Books, e \in Entries : Tidings(b, e)
  <2>p. PICK place : place = <<price, Shift>>
    OBVIOUS
  <2>1. place \in Places
    BY <2>p DEF Places
  <2>e. PICK e : e = Entry("LOC", place, size)
    OBVIOUS
  <2>2. e \in Entries /\ e.kind = "LOC" /\ e.place = place /\ e.size = size /\ ~Clears(e)
    BY <1>0, <2>1, <2>e, EntryLeaves
  <2>m. PICK m : m = market["LOC"]
    OBVIOUS
  <2>3. m \in Books
    BY <1>0, <2>m
  <2>4. Save(m, e) = SaveLocal(m, e)
    BY <2>2 DEF Save
  <2>5. Leaves(m, e, "LOC", SaveLocal(m, e))
    BY <2>2, <2>3, <2>4, SaveLeaves
  <2>6. MarketChanges(SaveLocal(m, e), e)
    BY <1>1, <2>e, <2>m, <2>p DEF LocalLevel
  <2>b. PICK b : b = SaveLocal(m, e)
    OBVIOUS
  <2>7. b \in Books
    BY <2>5, <2>b DEF Leaves
  <2>8. Tidings(b, e)
    BY <2>1, <2>2, <2>5, <2>6, <2>b, <2>m DEF Tidings
  <2> QED BY <2>2, <2>7, <2>8
<1>2. ASSUME NEW price \in Prices, NEW dest \in Dests, NEW size \in Sizes, Quote(price, dest, size)
      PROVE  \E b \in Books, e \in Entries : Tidings(b, e)
  <2>p. PICK place : place = <<price, dest>>
    OBVIOUS
  <2>1. place \in Places
    BY <2>p DEF Places
  <2>e. PICK e : e = Entry("GLB", place, size)
    OBVIOUS
  <2>2. e \in Entries /\ e.kind = "GLB" /\ e.place = place /\ e.size = size /\ ~Clears(e)
    BY <1>0, <2>1, <2>e, EntryLeaves
  <2>m. PICK m : m = market["GLB"]
    OBVIOUS
  <2>3. m \in Books
    BY <1>0, <2>m
  <2>4. Save(m, e) = SaveGlobal(m, e)
    BY <2>2 DEF Save
  <2>5. Leaves(m, e, "GLB", SaveGlobal(m, e))
    BY <2>2, <2>3, <2>4, SaveLeaves
  <2>6. MarketChanges(SaveGlobal(m, e), e)
    BY <1>2, <2>e, <2>m, <2>p DEF Quote
  <2>b. PICK b : b = SaveGlobal(m, e)
    OBVIOUS
  <2>7. b \in Books
    BY <2>5, <2>b DEF Leaves
  <2>8. Tidings(b, e)
    BY <2>1, <2>2, <2>5, <2>6, <2>b, <2>m DEF Tidings
  <2> QED BY <2>2, <2>7, <2>8
<1>3. ASSUME NEW price \in Prices, NEW dest \in Dests, NEW left \in Sizes \cup {0},
             TakeQuote(<<price, dest>>, left)
      PROVE  \E b \in Books, e \in Entries : Tidings(b, e)
  <2>p. PICK place : place = <<price, dest>>
    OBVIOUS
  <2>1. place \in Places
    BY <2>p DEF Places
  <2>m. PICK m : m = market["GLB"]
    OBVIOUS
  <2>3. m \in Books /\ DOMAIN m \subseteq Places
    BY <1>0, <2>m, BookFacts
  <2>b. PICK b : b = IF left > 0 THEN With(m, place, left) ELSE Without(m, place)
    OBVIOUS
  <2>e. PICK e : e = Entry("GLB", place, left)
    OBVIOUS
  <2>4. \A p \in DOMAIN m : place[1] <= p[1]
    BY <1>3, <2>m, <2>p DEF TakeQuote
  <2>5. MarketChanges(b, e)
    BY <1>3, <2>b, <2>e, <2>m, <2>p DEF TakeQuote
  <2>2. e \in Entries /\ e.kind = "GLB" /\ e.place = place /\ e.size = left
    BY <1>0, <2>1, <2>e, EntryLeaves
  <2>6. b \in Books /\ \A p \in Places : SizeAt(b, p) = IF p = place THEN left ELSE SizeAt(m, p)
    <3>1. CASE left > 0
      <4>1. left \in Sizes /\ b = With(m, place, left)
        BY <1>0, <2>b, <3>1
      <4> QED BY <2>1, <2>3, <4>1, SetAt
    <3>2. CASE ~(left > 0)
      <4>1. left = 0 /\ b = Without(m, place)
        BY <1>0, <2>b, <3>2
      <4> QED BY <2>1, <2>3, <4>1, WithoutAt
    <3> QED BY <3>1, <3>2
  <2>7. ASSUME NEW p \in Places
        PROVE  SizeAt(b, p) = Said(EntrySays("GLB", p), e, SizeAt(m, p))
    <3>w. PICK was : was = SizeAt(m, p)
      OBVIOUS
    <3>1. Said(EntrySays("GLB", p), e, was) = IF p = place THEN left ELSE IF p[1] < place[1] THEN 0 ELSE was
      BY <1>0, <2>1, <2>e, EntryLeaves
    <3>2. p[1] < place[1] => was = 0
      <4>1. p[1] \in Nat /\ place[1] \in Nat
        BY <2>1, PlaceFacts
      <4>2. p[1] < place[1] => p \notin DOMAIN m
        BY <2>4, <4>1
      <4> QED BY <3>w, <4>2 DEF SizeAt
    <3> QED BY <2>6, <3>1, <3>2, <3>w
  <2>8. Tidings(b, e)
    BY <2>1, <2>2, <2>5, <2>6, <2>7, <2>m DEF Tidings, Leaves
  <2> QED BY <2>2, <2>6, <2>8
<1> QED BY <1>1, <1>2, <1>3 DEF Market

--------------------------------------------------------------------------------
(* The inductive invariant. *)

(***************************************************************************)
(* The sayings of the properties are those of the proofs.                   *)
(***************************************************************************)
LEMMA SayingsAreTold ==
    ASSUME NEW k \in Kinds, NEW p \in Places, NEW was
    PROVE  /\ \A f \in Seq(Entries) :
                 InTheEnd([i \in DOMAIN f |-> Saying(f[i], k, p)], was) = Told(EntrySays(k, p), f, was)
           /\ \A w \in Seq(Messages) :
                 InTheEnd([i \in DOMAIN w |-> Telling(w[i], k, p)], was) = Told(MessageSays(k, p), w, was)
<1>1. ASSUME NEW f \in Seq(Entries)
      PROVE  InTheEnd([i \in DOMAIN f |-> Saying(f[i], k, p)], was) = Told(EntrySays(k, p), f, was)
  <2>1. \A i \in DOMAIN f : f[i] \in Entries
    BY LenProperties, ElementOfSeq
  <2>2. \A i \in DOMAIN f : EntrySays(k, p)[f[i]] = Saying(f[i], k, p)
    BY <2>1 DEF EntrySays
  <2>3. [i \in DOMAIN f |-> Saying(f[i], k, p)] = [i \in DOMAIN f |-> EntrySays(k, p)[f[i]]]
    BY <2>2
  <2> QED BY <2>3 DEF Told
<1>2. ASSUME NEW w \in Seq(Messages)
      PROVE  InTheEnd([i \in DOMAIN w |-> Telling(w[i], k, p)], was) = Told(MessageSays(k, p), w, was)
  <2>1. \A i \in DOMAIN w : w[i] \in Messages
    BY LenProperties, ElementOfSeq
  <2>2. \A i \in DOMAIN w : MessageSays(k, p)[w[i]] = Telling(w[i], k, p)
    BY <2>1 DEF MessageSays
  <2>3. [i \in DOMAIN w |-> Telling(w[i], k, p)] = [i \in DOMAIN w |-> MessageSays(k, p)[w[i]]]
    BY <2>2
  <2> QED BY <2>3 DEF Told
<1> QED BY <1>1, <1>2

\* What the books become when what is on its way, and what process has in hand, arrives.
InHand(k, p, was)  == IF process = "wait" THEN was ELSE Said(EntrySays(k, p), Head(feed), was)
AtCenter(k, p)     == Told(EntrySays(k, p), feed, SizeAt(books[k], p))
AtClient(c, k, p)  == InHand(k, p, Told(MessageSays(k, p), wire[c], SizeAt(clientBooks[c][k], p)))

MirrorInv ==
    logon # "none" =>
        \A k \in Kinds \ unseen : \A p \in Places : AtCenter(k, p) = SizeAt(market[k], p)

\* What process has saved says nothing new to the books.
SavedInv ==
    \A k \in Kinds, p \in Places : InHand(k, p, SizeAt(books[k], p)) = SizeAt(books[k], p)

ClientInv ==
    \A c \in Clients : \A k \in Kinds \ gaps[c] : \A p \in Places :
        AtClient(c, k, p) = SizeAt(books[k], p)

FeedInv == TypeOK /\ MirrorInv /\ SavedInv /\ ClientInv

\* An entry says nothing of the other book, and nothing new when it is told again.
LEMMA SaidFacts ==
    ASSUME NEW k \in Kinds, NEW p \in Places, NEW e \in Entries, NEW was
    PROVE  /\ Said(EntrySays(k, p), e, Said(EntrySays(k, p), e, was)) = Said(EntrySays(k, p), e, was)
           /\ e.kind # k => Said(EntrySays(k, p), e, was) = was
<1>1. EntrySays(k, p)[e].says = (e.kind = k /\ (Clears(e) \/ e.place = p \/ (k = "GLB" /\ p[1] < e.place[1])))
  BY DEF EntrySays, Saying
<1>2. e.kind # k => ~EntrySays(k, p)[e].says
  BY <1>1
<1> QED BY <1>2 DEF Said

\* The first entry is the one that process has saved.
LEMMA InHandFacts ==
    ASSUME TypeOK PROVE process # "wait" => process = "saved" /\ feed # <<>> /\ Head(feed) \in Entries
<1>1. process # "wait" => process = "saved" /\ feed # <<>> /\ feed \in Seq(Entries)
  BY DEF TypeOK
<1> QED BY <1>1, HeadTailProperties, EmptySeq

(***************************************************************************)
(* The invariant implies the properties.                                    *)
(***************************************************************************)
LEMMA FeedInvShows == FeedInv => TypeOK /\ MirrorExact /\ ClientCurrent
<1> SUFFICES ASSUME FeedInv PROVE MirrorExact /\ ClientCurrent
  BY DEF FeedInv
<1>0. TypeOK /\ MirrorInv /\ ClientInv
  BY DEF FeedInv
<1>1. feed \in Seq(Entries) /\ wire \in [Clients -> Seq(Messages)]
  BY <1>0 DEF TypeOK
<1>2. MirrorExact
  <2> SUFFICES ASSUME logon # "none", NEW k \in Kinds \ unseen, NEW p \in Places
               PROVE  InTheEnd([i \in DOMAIN feed |-> Saying(feed[i], k, p)], SizeAt(books[k], p))
                        = SizeAt(market[k], p)
    BY DEF MirrorExact
  <2>1. Told(EntrySays(k, p), feed, SizeAt(books[k], p)) = SizeAt(market[k], p)
    BY <1>0 DEF MirrorInv, AtCenter
  <2>w. PICK was : was = SizeAt(books[k], p)
    OBVIOUS
  <2>2. InTheEnd([i \in DOMAIN feed |-> Saying(feed[i], k, p)], was) = Told(EntrySays(k, p), feed, was)
    BY <1>1, SayingsAreTold
  <2> QED BY <2>1, <2>2, <2>w
<1>3. ClientCurrent
  <2> SUFFICES ASSUME NEW c \in Clients, NEW k \in Kinds \ gaps[c], NEW p \in Places,
                      process # "wait" => Head(feed).kind # k
               PROVE  InTheEnd([i \in DOMAIN wire[c] |-> Telling(wire[c][i], k, p)],
                               SizeAt(clientBooks[c][k], p))
                        = SizeAt(books[k], p)
    BY DEF ClientCurrent
  <2>w. PICK was : was = SizeAt(clientBooks[c][k], p)
    OBVIOUS
  <2>m. PICK m : m = wire[c]
    OBVIOUS
  <2>t. PICK told : told = Told(MessageSays(k, p), m, was)
    OBVIOUS
  <2>1. InHand(k, p, told) = SizeAt(books[k], p)
    BY <1>0, <2>m, <2>t, <2>w DEF ClientInv, AtClient
  <2>2. InHand(k, p, told) = told
    <3>1. CASE process = "wait"
      BY <3>1 DEF InHand
    <3>2. CASE process # "wait"
      <4>e. PICK e : e = Head(feed)
        OBVIOUS
      <4>1. e \in Entries /\ e.kind # k
        BY <1>0, <3>2, <4>e, InHandFacts
      <4>2. Said(EntrySays(k, p), e, told) = told
        BY <4>1, SaidFacts
      <4> QED BY <3>2, <4>2, <4>e DEF InHand
    <3> QED BY <3>1, <3>2
  <2>3. m \in Seq(Messages)
    BY <1>1, <2>m
  <2>4. InTheEnd([i \in DOMAIN m |-> Telling(m[i], k, p)], was) = told
    BY <2>3, <2>t, SayingsAreTold
  <2> QED BY <2>1, <2>2, <2>4, <2>m, <2>w
<1> QED BY <1>2, <1>3

\* Nothing is on its way at the start.
LEMMA InitFeedInv == Init => FeedInv
<1> SUFFICES ASSUME Init PROVE FeedInv
  OBVIOUS
<1>1. TypeOK
  <2>1. market \in [Kinds -> Books]
    BY FeedAssumption DEF Init
  <2>2. Empty \in [Kinds -> Books]
    BY NoBookAt DEF Empty
  <2>3. books \in [Kinds -> Books] /\ clientBooks \in [Clients -> [Kinds -> Books]]
    BY <2>2 DEF Init
  <2>4. feed \in Seq(Entries) /\ wire \in [Clients -> Seq(Messages)]
        /\ requests \in [Clients -> Seq({"subscribe", "unsubscribe", "logout"})]
    BY EmptySeq DEF Init
  <2>5. gaps \in [Clients -> SUBSET Kinds] /\ counts \in [updates: Nat, requests: Nat]
    BY DEF Init
  <2> QED BY <2>1, <2>3, <2>4, <2>5 DEF Init, TypeOK
<1>2. MirrorInv
  BY DEF Init, MirrorInv
<1>3. SavedInv
  BY DEF Init, SavedInv, InHand
<1>4. ClientInv
  <2> SUFFICES ASSUME NEW c \in Clients, NEW k \in Kinds, NEW p \in Places
               PROVE  AtClient(c, k, p) = SizeAt(books[k], p)
    BY DEF ClientInv
  <2>1. wire[c] = <<>> /\ clientBooks[c][k] = NoBook /\ books[k] = NoBook /\ process = "wait"
    BY DEF Init, Empty
  <2>F. PICK F : F = MessageSays(k, p)
    OBVIOUS
  <2>f. PICK f : f = wire[c]
    OBVIOUS
  <2>w. PICK was : was = SizeAt(books[k], p)
    OBVIOUS
  <2>2. F \in [Messages -> Sayings]
    BY <2>F, SayingsType
  <2>3. f \in Seq(Messages) /\ Len(f) = 0
    BY <2>1, <2>f, EmptySeq
  <2>4. \A i \in 1..Len(f) : ~F[f[i]].says
    BY <2>3
  <2>5. Told(F, f, was) = was
    BY <2>2, <2>3, <2>4, ToldNothing
  <2> QED BY <2>1, <2>5, <2>F, <2>f, <2>w DEF AtClient, InHand
<1> QED BY <1>1, <1>2, <1>3, <1>4 DEF FeedInv

--------------------------------------------------------------------------------
(* The thread of OrderBook::process. *)

\* The first entry is saved and stays in the buffer.
LEMMA SaveUpdateKeeps == FeedInv /\ SaveUpdate => FeedInv'
<1> SUFFICES ASSUME FeedInv, SaveUpdate PROVE FeedInv'
  OBVIOUS
<1>0. TypeOK /\ MirrorInv /\ SavedInv /\ ClientInv
  BY DEF FeedInv
<1>e. PICK e : e = Head(feed)
  OBVIOUS
<1>b. PICK b : b = Save(books[e.kind], e)
  OBVIOUS
<1>1. /\ process = "wait" /\ feed # <<>> /\ process' = "saved"
      /\ books' = [books EXCEPT ![e.kind] = b]
      /\ UNCHANGED <<market, logon, unseen, feed, targets, recorded, acceptor, subscribed, requests,
                     clientBooks, wire, gaps, counts>>
  BY <1>b, <1>e DEF SaveUpdate, source, client
<1>2. feed \in Seq(Entries) /\ books \in [Kinds -> Books]
  BY <1>0 DEF TypeOK
<1>3. e \in Entries /\ e.kind \in Kinds
  BY <1>1, <1>2, <1>e, ToldHead, HeadTailProperties, EmptySeq, PlaceFacts
<1>k. PICK kind : kind = e.kind
  OBVIOUS
<1>o. PICK old : old = books[kind]
  OBVIOUS
<1>4. kind \in Kinds /\ old \in Books
  BY <1>2, <1>3, <1>k, <1>o
<1>5. Leaves(old, e, kind, b)
  BY <1>3, <1>4, <1>b, <1>k, <1>o, SaveLeaves
<1>6. b \in Books /\ books' \in [Kinds -> Books]
  BY <1>1, <1>2, <1>4, <1>5, <1>k DEF Leaves
<1>7. ASSUME NEW k \in Kinds, NEW p \in Places
      PROVE  SizeAt(books'[k], p) = Said(EntrySays(k, p), e, SizeAt(books[k], p))
  <2>1. CASE k = kind
    <3>1. books'[k] = b
      BY <1>1, <1>2, <1>4, <1>k, <2>1
    <3> QED BY <1>5, <1>o, <2>1, <3>1 DEF Leaves
  <2>2. CASE k # kind
    <3>1. books'[k] = books[k]
      BY <1>1, <1>2, <1>k, <2>2
    <3>w. PICK was : was = SizeAt(books[k], p)
      OBVIOUS
    <3>2. Said(EntrySays(k, p), e, was) = was
      BY <1>3, <1>k, <2>2, SaidFacts
    <3> QED BY <3>1, <3>2, <3>w
  <2> QED BY <2>1, <2>2
<1>8. ASSUME NEW k \in Kinds, NEW p \in Places
      PROVE  Said(EntrySays(k, p), e, SizeAt(books'[k], p)) = SizeAt(books'[k], p)
  <2>w. PICK was : was = SizeAt(books[k], p)
    OBVIOUS
  <2>1. Said(EntrySays(k, p), e, Said(EntrySays(k, p), e, was)) = Said(EntrySays(k, p), e, was)
    BY <1>3, SaidFacts
  <2> QED BY <1>7, <2>1, <2>w
<1>9. TypeOK'
  BY <1>0, <1>1, <1>6 DEF TypeOK
<1>10. MirrorInv'
  <2> SUFFICES ASSUME logon' # "none", NEW k \in Kinds \ unseen', NEW p \in Places
               PROVE  Told(EntrySays(k, p), feed', SizeAt(books'[k], p)) = SizeAt(market'[k], p)
    BY DEF MirrorInv, AtCenter
  <2>F. PICK F : F = EntrySays(k, p)
    OBVIOUS
  <2>1. Told(F, feed, SizeAt(books[k], p)) = SizeAt(market[k], p)
    BY <1>0, <1>1, <2>F DEF MirrorInv, AtCenter
  <2>w. PICK was : was = SizeAt(books[k], p)
    OBVIOUS
  <2>v. PICK now : now = SizeAt(books'[k], p)
    OBVIOUS
  <2>2. F \in [Entries -> Sayings]
    BY <2>F, SayingsType
  <2>3. Told(F, feed, was) = Told(F, Tail(feed), Said(F, Head(feed), was))
    BY <1>1, <1>2, <2>2, ToldHead
  <2>4. Told(F, feed, now) = Told(F, Tail(feed), Said(F, Head(feed), now))
    BY <1>1, <1>2, <2>2, ToldHead
  <2>5. Said(F, e, was) = now /\ Said(F, e, now) = now
    BY <1>7, <1>8, <2>F, <2>v, <2>w
  <2> QED BY <1>1, <1>e, <2>1, <2>3, <2>4, <2>5, <2>F, <2>v, <2>w
<1>11. SavedInv'
  <2> SUFFICES ASSUME NEW k \in Kinds, NEW p \in Places
               PROVE  (IF process' = "wait" THEN SizeAt(books'[k], p)
                       ELSE Said(EntrySays(k, p), Head(feed'), SizeAt(books'[k], p))) = SizeAt(books'[k], p)
    BY DEF SavedInv, InHand
  <2> QED BY <1>1, <1>8, <1>e
<1>12. ClientInv'
  <2> SUFFICES ASSUME NEW c \in Clients, NEW k \in Kinds \ gaps'[c], NEW p \in Places
               PROVE  (IF process' = "wait" THEN Told(MessageSays(k, p), wire'[c], SizeAt(clientBooks'[c][k], p))
                       ELSE Said(EntrySays(k, p), Head(feed'),
                                 Told(MessageSays(k, p), wire'[c], SizeAt(clientBooks'[c][k], p))))
                         = SizeAt(books'[k], p)
    BY DEF ClientInv, AtClient, InHand
  <2>1. Told(MessageSays(k, p), wire[c], SizeAt(clientBooks[c][k], p)) = SizeAt(books[k], p)
    BY <1>0, <1>1 DEF ClientInv, AtClient, InHand
  <2> QED BY <1>1, <1>7, <1>e, <2>1
<1> QED BY <1>9, <1>10, <1>11, <1>12 DEF FeedInv

\* What an update says to a client is what its entry says.
LEMMA UpdateSays ==
    ASSUME NEW e \in Entries
    PROVE  /\ Update(e) \in Messages
           /\ \A k \in Kinds, p \in Places : \A was :
                 Said(MessageSays(k, p), Update(e), was) = Said(EntrySays(k, p), e, was)
<1>m. PICK m : m = Update(e)
  OBVIOUS
<1>1. m \in Messages /\ ~m.whole /\ m.entry = e
  BY <1>m DEF Update, Messages
<1>2. ASSUME NEW k \in Kinds, NEW p \in Places, NEW was
      PROVE  Said(MessageSays(k, p), m, was) = Said(EntrySays(k, p), e, was)
  <2>1. MessageSays(k, p)[m] = EntrySays(k, p)[e]
    BY <1>1 DEF MessageSays, EntrySays, Telling
  <2> QED BY <2>1 DEF Said
<1> QED BY <1>1, <1>2, <1>m

\* The entry that was saved is sent to the targets; the others miss it.
LEMMA SendUpdateKeeps == FeedInv /\ SendUpdate => FeedInv'
<1> SUFFICES ASSUME FeedInv, SendUpdate PROVE FeedInv'
  OBVIOUS
<1>0. TypeOK /\ MirrorInv /\ SavedInv /\ ClientInv
  BY DEF FeedInv
<1>e. PICK e : e = Head(feed)
  OBVIOUS
<1>m. PICK m : m = Update(e)
  OBVIOUS
<1>1. /\ process = "saved" /\ process' = "wait" /\ feed' = Tail(feed)
      /\ wire' = [c \in Clients |-> IF c \in targets THEN Append(wire[c], m) ELSE wire[c]]
      /\ gaps' = [c \in Clients |-> IF c \in targets THEN gaps[c] ELSE gaps[c] \cup {e.kind}]
      /\ UNCHANGED <<market, logon, unseen, books, targets, recorded, acceptor, subscribed, requests,
                     clientBooks, counts>>
  BY <1>e, <1>m DEF SendUpdate, source, client
<1>2. feed \in Seq(Entries) /\ feed # <<>> /\ wire \in [Clients -> Seq(Messages)]
  BY <1>0, <1>1 DEF TypeOK
<1>3. e \in Entries /\ feed' \in Seq(Entries)
  BY <1>1, <1>2, <1>e, HeadTailProperties, EmptySeq
<1>4. m \in Messages /\ e.kind \in Kinds
  BY <1>3, <1>m, UpdateSays, PlaceFacts
<1>5. ASSUME NEW k \in Kinds, NEW p \in Places
      PROVE  Said(EntrySays(k, p), e, SizeAt(books[k], p)) = SizeAt(books[k], p)
  BY <1>0, <1>1, <1>e DEF SavedInv, InHand
<1>6. TypeOK'
  <2>1. \A c \in Clients : wire[c] \in Seq(Messages) /\ Append(wire[c], m) \in Seq(Messages)
    BY <1>2, <1>4, AppendProperties
  <2>2. wire' \in [Clients -> Seq(Messages)]
    BY <1>1, <2>1
  <2>3. gaps' \in [Clients -> SUBSET Kinds]
    BY <1>0, <1>1, <1>4 DEF TypeOK
  <2> QED BY <1>0, <1>1, <1>3, <2>2, <2>3 DEF TypeOK
<1>7. MirrorInv'
  <2> SUFFICES ASSUME logon' # "none", NEW k \in Kinds \ unseen', NEW p \in Places
               PROVE  Told(EntrySays(k, p), feed', SizeAt(books'[k], p)) = SizeAt(market'[k], p)
    BY DEF MirrorInv, AtCenter
  <2>F. PICK F : F = EntrySays(k, p)
    OBVIOUS
  <2>w. PICK was : was = SizeAt(books[k], p)
    OBVIOUS
  <2>1. Told(F, feed, was) = SizeAt(market[k], p)
    BY <1>0, <1>1, <2>F, <2>w DEF MirrorInv, AtCenter
  <2>2. F \in [Entries -> Sayings]
    BY <2>F, SayingsType
  <2>3. Told(F, feed, was) = Told(F, Tail(feed), Said(F, Head(feed), was))
    BY <1>2, <2>2, ToldHead
  <2>4. Said(F, e, was) = was
    BY <1>5, <2>F, <2>w
  <2> QED BY <1>1, <1>e, <2>1, <2>3, <2>4, <2>F, <2>w
<1>8. SavedInv'
  <2> SUFFICES ASSUME NEW k \in Kinds, NEW p \in Places
               PROVE  (IF process' = "wait" THEN SizeAt(books'[k], p)
                       ELSE Said(EntrySays(k, p), Head(feed'), SizeAt(books'[k], p))) = SizeAt(books'[k], p)
    BY DEF SavedInv, InHand
  <2> QED BY <1>1
<1>9. ClientInv'
  <2> SUFFICES ASSUME NEW c \in Clients, NEW k \in Kinds \ gaps'[c], NEW p \in Places
               PROVE  Told(MessageSays(k, p), wire'[c], SizeAt(clientBooks'[c][k], p)) = SizeAt(books'[k], p)
    BY <1>1 DEF ClientInv, AtClient, InHand
  <2>F. PICK F : F = MessageSays(k, p)
    OBVIOUS
  <2>w. PICK was : was = SizeAt(clientBooks[c][k], p)
    OBVIOUS
  <2>f. PICK f : f = wire[c]
    OBVIOUS
  <2>t. PICK told : told = Told(F, f, was)
    OBVIOUS
  <2>0. k \notin gaps[c] /\ (c \notin targets => k # e.kind)
    BY <1>1
  <2>1. Said(EntrySays(k, p), e, told) = SizeAt(books[k], p)
    BY <1>0, <1>1, <1>e, <2>0, <2>F, <2>f, <2>t, <2>w DEF ClientInv, AtClient, InHand
  <2>2. CASE c \in targets
    <3>1. f \in Seq(Messages) /\ F \in [Messages -> Sayings]
      BY <1>2, <2>F, <2>f, SayingsType
    <3>2. Told(F, Append(f, m), was) = Said(F, m, told)
      BY <1>4, <2>t, <3>1, ToldAppend
    <3>3. Said(F, m, told) = Said(EntrySays(k, p), e, told)
      BY <1>3, <1>m, <2>F, UpdateSays
    <3>4. wire'[c] = Append(f, m)
      BY <1>1, <2>2, <2>f
    <3> QED BY <1>1, <2>1, <2>F, <2>w, <3>2, <3>3, <3>4
  <2>3. CASE c \notin targets
    <3>1. Said(EntrySays(k, p), e, told) = told
      BY <1>3, <2>0, <2>3, SaidFacts
    <3>2. wire'[c] = f
      BY <1>1, <2>3, <2>f
    <3> QED BY <1>1, <2>1, <2>F, <2>t, <2>w, <3>1, <3>2
  <2> QED BY <2>2, <2>3
<1> QED BY <1>6, <1>7, <1>8, <1>9 DEF FeedInv

--------------------------------------------------------------------------------
(* Whole books. *)

\* A whole book says what is in it.
LEMMA SnapshotSays ==
    ASSUME NEW kind \in Kinds, NEW book \in Books
    PROVE  /\ Snapshot(kind, book) \in Messages
           /\ \A k \in Kinds, p \in Places : \A was :
                 Said(MessageSays(k, p), Snapshot(kind, book), was) = IF k = kind THEN SizeAt(book, p) ELSE was
<1>m. PICK m : m = Snapshot(kind, book)
  OBVIOUS
<1>1. m \in Messages /\ m.whole /\ m.kind = kind /\ m.book = book
  BY <1>m DEF Snapshot, Messages
<1>2. ASSUME NEW k \in Kinds, NEW p \in Places, NEW was
      PROVE  Said(MessageSays(k, p), m, was) = IF k = kind THEN SizeAt(book, p) ELSE was
  <2>1. MessageSays(k, p)[m] = Telling(m, k, p)
    BY <1>1 DEF MessageSays
  <2>2. Telling(m, k, p).says = (kind = k) /\ Telling(m, k, p).size = SizeAt(book, p)
    BY <1>1 DEF Telling
  <2> QED BY <2>1, <2>2 DEF Said
<1> QED BY <1>1, <1>2, <1>m

\* A book is sent if it is not empty.
SaysKind(kind, f) ==
    /\ f \in Seq(Messages)
    /\ \A k \in Kinds, p \in Places : \A was :
          Told(MessageSays(k, p), f, was)
            = IF k = kind /\ books[k] # NoBook THEN SizeAt(books[k], p) ELSE was

\* One book of the two.
LEMMA IfAnySays ==
    ASSUME books \in [Kinds -> Books], NEW kind \in Kinds
    PROVE  SaysKind(kind, IfAny(kind))
<1>b. PICK b : b = books[kind]
  OBVIOUS
<1>0. b \in Books
  BY <1>b
<1>1. CASE b = NoBook
  <2>f. PICK f : f = IfAny(kind)
    OBVIOUS
  <2>1. f = <<>>
    BY <1>1, <1>b, <2>f DEF IfAny
  <2>2. f \in Seq(Messages) /\ Len(f) = 0
    BY <2>1, EmptySeq
  <2>3. ASSUME NEW k \in Kinds, NEW p \in Places, NEW was
        PROVE  Told(MessageSays(k, p), f, was) = was
    <3>F. PICK F : F = MessageSays(k, p)
      OBVIOUS
    <3>1. F \in [Messages -> Sayings]
      BY <3>F, SayingsType
    <3>2. \A i \in 1..Len(f) : ~F[f[i]].says
      BY <2>2
    <3>3. Told(F, f, was) = was
      BY <2>2, <3>1, <3>2, ToldNothing
    <3> QED BY <3>3, <3>F
  <2> QED BY <1>1, <1>b, <2>2, <2>3, <2>f DEF SaysKind
<1>2. CASE b # NoBook
  <2>m. PICK m : m = Snapshot(kind, b)
    OBVIOUS
  <2>1. IfAny(kind) = <<m>>
    BY <1>2, <1>b, <2>m DEF IfAny
  <2>2. m \in Messages
    BY <1>0, <2>m, SnapshotSays
  <2>3. <<m>> \in Seq(Messages)
    BY <2>2, AppendIsConcat, EmptySeq
  <2>4. ASSUME NEW k \in Kinds, NEW p \in Places, NEW was
        PROVE  Told(MessageSays(k, p), <<m>>, was) = IF k = kind THEN SizeAt(b, p) ELSE was
    <3>F. PICK F : F = MessageSays(k, p)
      OBVIOUS
    <3>1. F \in [Messages -> Sayings]
      BY <3>F, SayingsType
    <3>2. Told(F, <<m>>, was) = Said(F, m, was)
      BY <2>2, <3>1, ToldOne
    <3>3. Said(F, m, was) = IF k = kind THEN SizeAt(b, p) ELSE was
      BY <1>0, <2>m, <3>F, SnapshotSays
    <3> QED BY <3>2, <3>3, <3>F
  <2> QED BY <1>2, <1>b, <2>1, <2>3, <2>4 DEF SaysKind
<1> QED BY <1>1, <1>2

(***************************************************************************)
(* The whole books that are sent say what the BrokerageCenter has, of every *)
(* book that is not empty.                                                  *)
(***************************************************************************)
LEMMA WholeBooksSay ==
    ASSUME books \in [Kinds -> Books]
    PROVE  /\ WholeBooks \in Seq(Messages)
           /\ \A k \in Kinds, p \in Places : \A was :
                 Told(MessageSays(k, p), WholeBooks, was)
                   = IF books[k] # NoBook THEN SizeAt(books[k], p) ELSE was
<1>0. "GLB" \in Kinds /\ "LOC" \in Kinds /\ \A k \in Kinds : k = "GLB" \/ k = "LOC"
  BY DEF Kinds
<1>f. PICK f : f = IfAny("GLB")
  OBVIOUS
<1>g. PICK g : g = IfAny("LOC")
  OBVIOUS
<1>1. SaysKind("GLB", f) /\ SaysKind("LOC", g)
  BY <1>0, <1>f, <1>g, IfAnySays
<1>2. f \in Seq(Messages) /\ g \in Seq(Messages)
  BY <1>1 DEF SaysKind
<1>3. WholeBooks = f \o g /\ f \o g \in Seq(Messages)
  BY <1>2, <1>f, <1>g, ConcatProperties DEF WholeBooks
<1>4. ASSUME NEW k \in Kinds, NEW p \in Places, NEW was
      PROVE  Told(MessageSays(k, p), f \o g, was)
                = IF books[k] # NoBook THEN SizeAt(books[k], p) ELSE was
  <2>F. PICK F : F = MessageSays(k, p)
    OBVIOUS
  <2>1. F \in [Messages -> Sayings]
    BY <2>F, SayingsType
  <2>2. Told(F, f \o g, was) = Told(F, g, Told(F, f, was))
    BY <1>2, <2>1, ToldConcat
  <2>w. PICK w : w = Told(F, f, was)
    OBVIOUS
  <2>3. w = IF k = "GLB" /\ books[k] # NoBook THEN SizeAt(books[k], p) ELSE was
    BY <1>1, <2>F, <2>w DEF SaysKind
  <2>4. Told(F, g, w) = IF k = "LOC" /\ books[k] # NoBook THEN SizeAt(books[k], p) ELSE w
    BY <1>1, <2>F DEF SaysKind
  <2> QED BY <1>0, <2>2, <2>3, <2>4, <2>F, <2>w
<1> QED BY <1>3, <1>4

\* The books and what is on its way to them stay.
LEMMA CenterStays ==
    ASSUME MirrorInv, SavedInv, UNCHANGED <<market, logon, unseen, feed, books, process>>
    PROVE  MirrorInv' /\ SavedInv'
<1>1. MirrorInv'
  BY DEF MirrorInv, AtCenter
<1>2. SavedInv'
  BY DEF SavedInv, InHand
<1> QED BY <1>1, <1>2

\* Nothing happens to the books at all.
LEMMA ClientsStay ==
    ASSUME ClientInv, UNCHANGED <<feed, books, process, clientBooks, wire, gaps>>
    PROVE  ClientInv'
BY DEF ClientInv, AtClient, InHand

(***************************************************************************)
(* Whole books that are sent to some clients bring those up to date, after  *)
(* what is still on its way to them.                                        *)
(***************************************************************************)
LEMMA SendWholeKeeps ==
    ASSUME FeedInv, NEW to \in SUBSET Clients, SendWhole(to),
           UNCHANGED <<feed, books, process, clientBooks>>
    PROVE  /\ wire' \in [Clients -> Seq(Messages)] /\ gaps' \in [Clients -> SUBSET Kinds]
           /\ ClientInv'
<1>0. TypeOK /\ SavedInv /\ ClientInv
  BY DEF FeedInv
<1>1. /\ books \in [Kinds -> Books] /\ wire \in [Clients -> Seq(Messages)]
      /\ gaps \in [Clients -> SUBSET Kinds]
  BY <1>0 DEF TypeOK
<1>g. PICK g : g = WholeBooks
  OBVIOUS
<1>2. /\ g \in Seq(Messages)
      /\ \A k \in Kinds, p \in Places : \A was :
            Told(MessageSays(k, p), g, was) = IF books[k] # NoBook THEN SizeAt(books[k], p) ELSE was
  BY <1>1, <1>g, WholeBooksSay
<1>3. /\ wire' = [c \in Clients |-> IF c \in to THEN wire[c] \o g ELSE wire[c]]
      /\ gaps' = [c \in Clients |-> IF c \in to THEN {k \in gaps[c] : books[k] = NoBook} ELSE gaps[c]]
  BY <1>g DEF SendWhole
<1>4. wire' \in [Clients -> Seq(Messages)]
  <2>1. \A c \in Clients : wire[c] \in Seq(Messages) /\ wire[c] \o g \in Seq(Messages)
    BY <1>1, <1>2, ConcatProperties
  <2> QED BY <1>3, <2>1
<1>5. gaps' \in [Clients -> SUBSET Kinds]
  BY <1>1, <1>3
<1>6. ASSUME NEW c \in Clients, NEW k \in Kinds \ gaps'[c], NEW p \in Places
      PROVE  InHand(k, p, Told(MessageSays(k, p), wire'[c], SizeAt(clientBooks[c][k], p)))
                = SizeAt(books[k], p)
  <2>F. PICK F : F = MessageSays(k, p)
    OBVIOUS
  <2>w. PICK was : was = SizeAt(clientBooks[c][k], p)
    OBVIOUS
  <2>f. PICK f : f = wire[c]
    OBVIOUS
  <2>t. PICK told : told = Told(F, f, was)
    OBVIOUS
  <2>1. k \notin gaps[c] => InHand(k, p, told) = SizeAt(books[k], p)
    BY <1>0, <2>F, <2>f, <2>t, <2>w DEF ClientInv, AtClient
  <2>2. CASE c \notin to
    <3>1. k \notin gaps[c] /\ wire'[c] = f
      BY <1>3, <2>2, <2>f
    <3> QED BY <2>1, <2>F, <2>t, <2>w, <3>1
  <2>3. CASE c \in to
    <3>1. wire'[c] = f \o g /\ (books[k] = NoBook => k \notin gaps[c])
      BY <1>3, <2>3, <2>f
    <3>2. f \in Seq(Messages) /\ F \in [Messages -> Sayings]
      BY <1>1, <2>F, <2>f, SayingsType
    <3>3. Told(F, f \o g, was) = Told(F, g, told)
      BY <1>2, <2>t, <3>2, ToldConcat
    <3>4. Told(F, g, told) = IF books[k] # NoBook THEN SizeAt(books[k], p) ELSE told
      BY <1>2, <2>F
    <3>5. CASE books[k] = NoBook
      BY <2>1, <2>F, <2>w, <3>1, <3>3, <3>4, <3>5
    <3>6. CASE books[k] # NoBook
      <4>1. InHand(k, p, SizeAt(books[k], p)) = SizeAt(books[k], p)
        BY <1>0 DEF SavedInv
      <4>2. Told(F, wire'[c], was) = SizeAt(books[k], p)
        BY <3>1, <3>3, <3>4, <3>6
      <4> QED BY <2>F, <2>w, <4>1, <4>2
    <3> QED BY <3>5, <3>6
  <2> QED BY <2>2, <2>3
<1>7. ClientInv'
  BY <1>6 DEF ClientInv, AtClient, InHand
<1> QED BY <1>4, <1>5, <1>7

\* The first half of a subscription sends the whole books.
LEMMA SubscribeSendsKeeps == ASSUME NEW c \in Clients PROVE FeedInv /\ SubscribeSends(c) => FeedInv'
<1> SUFFICES ASSUME FeedInv, SubscribeSends(c) PROVE FeedInv'
  OBVIOUS
<1>0. TypeOK /\ MirrorInv /\ SavedInv /\ ClientInv
  BY DEF FeedInv
<1>t. PICK to : to = {c}
  OBVIOUS
<1>1. /\ acceptor' = {c} /\ SendWhole(to) /\ to \in SUBSET Clients
      /\ requests[c] # <<>> /\ requests' = [requests EXCEPT ![c] = Tail(@)]
      /\ UNCHANGED <<market, logon, unseen, feed, books, process, targets, recorded, subscribed,
                     clientBooks, counts>>
  BY <1>t DEF SubscribeSends, Serves, Served, source
<1>2. wire' \in [Clients -> Seq(Messages)] /\ gaps' \in [Clients -> SUBSET Kinds] /\ ClientInv'
  BY <1>1, SendWholeKeeps
<1>3. MirrorInv' /\ SavedInv'
  BY <1>0, <1>1, CenterStays
<1>R. PICK R : R = {"subscribe", "unsubscribe", "logout"}
  OBVIOUS
<1>4. requests' \in [Clients -> Seq(R)]
  <2>1. requests \in [Clients -> Seq(R)]
    BY <1>0, <1>R DEF TypeOK
  <2>2. Tail(requests[c]) \in Seq(R)
    BY <1>1, <2>1, HeadTailProperties, EmptySeq
  <2> QED BY <1>1, <2>1, <2>2
<1>5. TypeOK'
  BY <1>0, <1>1, <1>2, <1>4, <1>R DEF TypeOK
<1> QED BY <1>2, <1>3, <1>5 DEF FeedInv

\* The broadcaster sends the whole books to all targets.
LEMMA BroadcastKeeps == FeedInv /\ BroadcastOrderBooks => FeedInv'
<1> SUFFICES ASSUME FeedInv, BroadcastOrderBooks PROVE FeedInv'
  OBVIOUS
<1>0. TypeOK /\ MirrorInv /\ SavedInv /\ ClientInv
  BY DEF FeedInv
<1>1. /\ SendWhole(targets) /\ targets \in SUBSET Clients
      /\ UNCHANGED <<market, logon, unseen, feed, books, process, targets, recorded, acceptor, subscribed,
                     requests, clientBooks, counts>>
  BY <1>0 DEF BroadcastOrderBooks, source, center, client, TypeOK
<1>t. PICK to : to = targets
  OBVIOUS
<1>2. wire' \in [Clients -> Seq(Messages)] /\ gaps' \in [Clients -> SUBSET Kinds] /\ ClientInv'
  <2>1. SendWhole(to) /\ to \in SUBSET Clients
    BY <1>1, <1>t
  <2> QED BY <1>1, <2>1, SendWholeKeeps
<1>3. MirrorInv' /\ SavedInv'
  BY <1>0, <1>1, CenterStays
<1>4. TypeOK'
  BY <1>0, <1>1, <1>2 DEF TypeOK
<1> QED BY <1>2, <1>3, <1>4 DEF FeedInv

--------------------------------------------------------------------------------
(* Requests, and the clients. *)

(***************************************************************************)
(* Steps that leave the books and what is on its way to them.               *)
(***************************************************************************)
LEMMA RegistrationKeeps ==
    ASSUME FeedInv,
           NEW c \in Clients, NEW r \in {"subscribe", "unsubscribe", "logout"},
           SubscribeRegisters(c) \/ OnUnsubscribe(c) \/ OnLogout(c) \/ Request(c, r)
    PROVE  FeedInv'
<1>0. TypeOK /\ MirrorInv /\ SavedInv /\ ClientInv
  BY DEF FeedInv
<1>1. UNCHANGED <<market, logon, unseen, feed, books, process, clientBooks, wire, gaps>>
  BY DEF SubscribeRegisters, OnUnsubscribe, OnLogout, Request, source, client, center
<1>2. MirrorInv' /\ SavedInv' /\ ClientInv'
  BY <1>0, <1>1, CenterStays, ClientsStay
<1>R. PICK R : R = {"subscribe", "unsubscribe", "logout"}
  OBVIOUS
<1>3. requests \in [Clients -> Seq(R)] /\ r \in R
  BY <1>0, <1>R DEF TypeOK
<1>4. CASE SubscribeRegisters(c)
  <2>1. /\ acceptor' = {} /\ targets' = targets \cup {c} /\ recorded' = recorded \cup {c}
        /\ UNCHANGED <<subscribed, requests, counts>>
    BY <1>4 DEF SubscribeRegisters, client
  <2>2. TypeOK'
    BY <1>0, <1>1, <2>1 DEF TypeOK
  <2> QED BY <1>2, <2>2 DEF FeedInv
<1>5. CASE OnUnsubscribe(c) \/ OnLogout(c)
  <2>1. /\ requests[c] # <<>> /\ requests' = [requests EXCEPT ![c] = Tail(@)]
        /\ targets' \subseteq targets /\ recorded' \subseteq recorded
        /\ UNCHANGED <<acceptor, subscribed, counts>>
    BY <1>5 DEF OnUnsubscribe, OnLogout, Serves, Served
  <2>2. Tail(requests[c]) \in Seq(R)
    BY <1>3, <2>1, HeadTailProperties, EmptySeq
  <2>3. requests' \in [Clients -> Seq(R)]
    BY <1>3, <2>1, <2>2
  <2>4. TypeOK'
    BY <1>0, <1>1, <1>R, <2>1, <2>3 DEF TypeOK
  <2> QED BY <1>2, <2>4 DEF FeedInv
<1>6. CASE Request(c, r)
  <2>1. /\ requests' = [requests EXCEPT ![c] = Append(@, r)]
        /\ subscribed' = (IF r = "subscribe" THEN subscribed \cup {c} ELSE subscribed \ {c})
        /\ counts' = [counts EXCEPT !.requests = @ + 1]
        /\ UNCHANGED <<targets, recorded, acceptor>>
    BY <1>6 DEF Request, center
  <2>2. Append(requests[c], r) \in Seq(R)
    BY <1>3, AppendProperties
  <2>3. requests' \in [Clients -> Seq(R)]
    BY <1>3, <2>1, <2>2
  <2>4. counts' \in [updates: Nat, requests: Nat]
    <3>1. counts \in [updates: Nat, requests: Nat]
      BY <1>0 DEF TypeOK
    <3>2. counts.requests + 1 \in Nat
      BY <3>1
    <3> QED BY <2>1, <3>1, <3>2
  <2>5. subscribed' \subseteq Clients
    BY <1>0, <2>1 DEF TypeOK
  <2>6. TypeOK'
    BY <1>0, <1>1, <1>R, <2>1, <2>3, <2>4, <2>5 DEF TypeOK
  <2> QED BY <1>2, <2>6 DEF FeedInv
<1> QED BY <1>4, <1>5, <1>6

(***************************************************************************)
(* What a client makes of a message is what the message says.               *)
(***************************************************************************)
Received(m) == IF m.whole THEN m.kind ELSE m.entry.kind
Made(m, b)  == IF m.whole THEN SetOrderBook(b, m.book) ELSE ClientUpdate(b, m.entry)

\* A whole book replaces the one of the client, an update changes it.
LEMMA MadeSays ==
    ASSUME NEW m \in Messages, NEW b \in Books
    PROVE  /\ Received(m) \in Kinds /\ Made(m, b) \in Books
           /\ \A p \in Places : SizeAt(Made(m, b), p) = Said(MessageSays(Received(m), p), m, SizeAt(b, p))
           /\ \A k \in Kinds, p \in Places : \A was :
                 k # Received(m) => Said(MessageSays(k, p), m, was) = was
<1>1. CASE m \in [whole: {TRUE}, kind: Kinds, book: Books]
  <2>1. m.whole /\ m.kind \in Kinds /\ m.book \in Books
    BY <1>1
  <2>k. PICK kind : kind = m.kind
    OBVIOUS
  <2>w. PICK book : book = m.book
    OBVIOUS
  <2>2. m = Snapshot(kind, book)
    BY <1>1, <2>k, <2>w DEF Snapshot
  <2>3. kind \in Kinds /\ book \in Books /\ Received(m) = kind /\ Made(m, b) = book
    BY <2>1, <2>k, <2>w DEF Received, Made, SetOrderBook
  <2>4. \A k \in Kinds, p \in Places : \A was :
           Said(MessageSays(k, p), Snapshot(kind, book), was) = IF k = kind THEN SizeAt(book, p) ELSE was
    BY <2>3, SnapshotSays
  <2> QED BY <2>2, <2>3, <2>4
<1>2. CASE m \in [whole: {FALSE}, entry: Entries]
  <2>e. PICK e : e = m.entry
    OBVIOUS
  <2>1. ~m.whole /\ e \in Entries /\ m = Update(e)
    BY <1>2, <2>e DEF Update
  <2>2. Received(m) = e.kind /\ Made(m, b) = ClientUpdate(b, e) /\ e.kind \in Kinds
    BY <2>1, <2>e, PlaceFacts DEF Received, Made
  <2>3. Leaves(b, e, e.kind, ClientUpdate(b, e))
    BY <2>1, SaveLeaves
  <2>4. \A k \in Kinds, p \in Places : \A was :
           Said(MessageSays(k, p), m, was) = Said(EntrySays(k, p), e, was)
    BY <2>1, UpdateSays
  <2>5. ASSUME NEW p \in Places
        PROVE  SizeAt(ClientUpdate(b, e), p) = Said(MessageSays(e.kind, p), m, SizeAt(b, p))
    <3>k. PICK k : k = e.kind
      OBVIOUS
    <3>w. PICK was : was = SizeAt(b, p)
      OBVIOUS
    <3>1. Said(MessageSays(k, p), m, was) = Said(EntrySays(k, p), e, was)
      BY <2>2, <2>4, <3>k
    <3>2. SizeAt(ClientUpdate(b, e), p) = Said(EntrySays(k, p), e, was)
      BY <2>3, <3>k, <3>w DEF Leaves
    <3> QED BY <3>1, <3>2, <3>k, <3>w
  <2>6. ASSUME NEW k \in Kinds, NEW p \in Places, NEW was, k # e.kind
        PROVE  Said(MessageSays(k, p), m, was) = was
    BY <2>1, <2>4, <2>6, SaidFacts
  <2>7. Made(m, b) \in Books
    BY <2>2, <2>3 DEF Leaves
  <2> QED BY <2>2, <2>5, <2>6, <2>7
<1> QED BY <1>1, <1>2 DEF Messages

\* A client takes its first message in.
LEMMA ReceiveKeeps == ASSUME NEW c \in Clients PROVE FeedInv /\ Receive(c) => FeedInv'
<1> SUFFICES ASSUME FeedInv, Receive(c) PROVE FeedInv'
  OBVIOUS
<1>0. TypeOK /\ MirrorInv /\ SavedInv /\ ClientInv
  BY DEF FeedInv
<1>f. PICK f : f = wire[c]
  OBVIOUS
<1>m. PICK m : m = Head(f)
  OBVIOUS
<1>1. /\ f # <<>> /\ wire' = [wire EXCEPT ![c] = Tail(f)]
      /\ clientBooks' = IF m.whole
                        THEN [clientBooks EXCEPT ![c][m.kind] = SetOrderBook(@, m.book)]
                        ELSE [clientBooks EXCEPT ![c][m.entry.kind] = ClientUpdate(@, m.entry)]
      /\ UNCHANGED <<market, logon, unseen, feed, books, process, targets, recorded, acceptor,
                     subscribed, requests, gaps, counts>>
  BY <1>f, <1>m DEF Receive, source, center
<1>2. wire \in [Clients -> Seq(Messages)] /\ clientBooks \in [Clients -> [Kinds -> Books]]
  BY <1>0 DEF TypeOK
<1>3. f \in Seq(Messages) /\ m \in Messages /\ Tail(f) \in Seq(Messages)
  BY <1>1, <1>2, <1>f, <1>m, HeadTailProperties, EmptySeq
<1>k. PICK kind : kind = Received(m)
  OBVIOUS
<1>o. PICK old : old = clientBooks[c][kind]
  OBVIOUS
<1>b. PICK b : b = Made(m, old)
  OBVIOUS
<1>4. kind \in Kinds
  BY <1>2, <1>3, <1>k, MadeSays, NoBookAt
<1>5. old \in Books
  BY <1>2, <1>4, <1>o
<1>6. /\ b \in Books
      /\ \A p \in Places : SizeAt(b, p) = Said(MessageSays(kind, p), m, SizeAt(old, p))
      /\ \A k \in Kinds, p \in Places : \A was : k # kind => Said(MessageSays(k, p), m, was) = was
  BY <1>3, <1>5, <1>b, <1>k, MadeSays
<1>7. clientBooks' = [clientBooks EXCEPT ![c][kind] = b]
  <2>1. CASE m.whole
    <3>1. kind = m.kind /\ b = SetOrderBook(old, m.book)
      BY <1>b, <1>k, <2>1 DEF Received, Made
    <3> QED BY <1>1, <1>o, <2>1, <3>1
  <2>2. CASE ~m.whole
    <3>1. kind = m.entry.kind /\ b = ClientUpdate(old, m.entry)
      BY <1>b, <1>k, <2>2 DEF Received, Made
    <3> QED BY <1>1, <1>o, <2>2, <3>1
  <2> QED BY <2>1, <2>2
<1>8. wire' \in [Clients -> Seq(Messages)] /\ clientBooks' \in [Clients -> [Kinds -> Books]]
  <2>1. wire' \in [Clients -> Seq(Messages)]
    BY <1>1, <1>2, <1>3
  <2>r. PICK row : row = [clientBooks[c] EXCEPT ![kind] = b]
    OBVIOUS
  <2>2. clientBooks' = [clientBooks EXCEPT ![c] = row]
    BY <1>7, <2>r
  <2>3. row \in [Kinds -> Books]
    BY <1>2, <1>4, <1>6, <2>r
  <2>4. clientBooks' \in [Clients -> [Kinds -> Books]]
    BY <1>2, <2>2, <2>3
  <2> QED BY <2>1, <2>4
<1>9. ASSUME NEW k \in Kinds, NEW p \in Places
      PROVE  SizeAt(clientBooks'[c][k], p) = Said(MessageSays(k, p), m, SizeAt(clientBooks[c][k], p))
  <2>1. CASE k = kind
    <3>1. clientBooks'[c][k] = b
      BY <1>2, <1>4, <1>7, <2>1
    <3> QED BY <1>6, <1>o, <2>1, <3>1
  <2>2. CASE k # kind
    <3>1. clientBooks'[c][k] = clientBooks[c][k]
      BY <1>2, <1>4, <1>7, <2>2
    <3>w. PICK was : was = SizeAt(clientBooks[c][k], p)
      OBVIOUS
    <3>2. Said(MessageSays(k, p), m, was) = was
      BY <1>6, <2>2
    <3> QED BY <3>1, <3>2, <3>w
  <2> QED BY <2>1, <2>2
<1>10. TypeOK'
  BY <1>0, <1>1, <1>8 DEF TypeOK
<1>11. MirrorInv' /\ SavedInv'
  BY <1>0, <1>1, CenterStays
<1>12. ASSUME NEW d \in Clients, NEW k \in Kinds \ gaps'[d], NEW p \in Places
       PROVE  InHand(k, p, Told(MessageSays(k, p), wire'[d], SizeAt(clientBooks'[d][k], p)))
                = SizeAt(books[k], p)
  <2>1. InHand(k, p, Told(MessageSays(k, p), wire[d], SizeAt(clientBooks[d][k], p))) = SizeAt(books[k], p)
    BY <1>0, <1>1 DEF ClientInv, AtClient
  <2>2. CASE d # c
    <3>1. wire'[d] = wire[d] /\ clientBooks'[d] = clientBooks[d]
      BY <1>1, <1>2, <1>7, <2>2
    <3> QED BY <2>1, <3>1
  <2>3. CASE d = c
    <3>F. PICK F : F = MessageSays(k, p)
      OBVIOUS
    <3>w. PICK was : was = SizeAt(clientBooks[c][k], p)
      OBVIOUS
    <3>1. F \in [Messages -> Sayings]
      BY <3>F, SayingsType
    <3>2. Told(F, f, was) = Told(F, Tail(f), Said(F, Head(f), was))
      BY <1>1, <1>3, <3>1, ToldHead
    <3>3. wire'[c] = Tail(f) /\ SizeAt(clientBooks'[c][k], p) = Said(F, m, was)
      BY <1>1, <1>2, <1>9, <3>F, <3>w
    <3> QED BY <1>f, <1>m, <2>1, <2>3, <3>2, <3>3, <3>F, <3>w
  <2> QED BY <2>2, <2>3
<1>13. ClientInv'
  BY <1>1, <1>12 DEF ClientInv, AtClient, InHand
<1> QED BY <1>10, <1>11, <1>13 DEF FeedInv

--------------------------------------------------------------------------------
(* The MatchingEngine. *)

(***************************************************************************)
(* Entries that join the feed leave the one that process has in hand.       *)
(***************************************************************************)
LEMMA FeedGrows ==
    ASSUME FeedInv, NEW more \in Seq(Entries), feed' = feed \o more,
           UNCHANGED <<books, process, clientBooks, wire, gaps>>
    PROVE  /\ feed' \in Seq(Entries) /\ (process = "saved" => feed' # <<>>)
           /\ SavedInv' /\ ClientInv'
<1>0. TypeOK /\ SavedInv /\ ClientInv
  BY DEF FeedInv
<1>f. PICK f : f = feed
  OBVIOUS
<1>g. PICK g : g = f \o more
  OBVIOUS
<1>1. f \in Seq(Entries) /\ feed' = g /\ (process = "saved" => f # <<>>)
  BY <1>0, <1>f, <1>g DEF TypeOK
<1>2. /\ g \in Seq(Entries) /\ Len(g) = Len(f) + Len(more)
      /\ \A i \in 1..(Len(f) + Len(more)) : g[i] = IF i <= Len(f) THEN f[i] ELSE more[i - Len(f)]
  BY <1>1, <1>g, ConcatProperties
<1>3. f # <<>> => g # <<>> /\ Head(g) = Head(f)
  <2> SUFFICES ASSUME f # <<>> PROVE g # <<>> /\ Head(g) = Head(f)
    OBVIOUS
  <2>1. Len(f) \in Nat /\ Len(f) # 0 /\ Len(more) \in Nat
    BY <1>1, LenProperties, EmptySeq
  <2>2. 1 \in 1..(Len(f) + Len(more)) /\ 1 <= Len(f) /\ Len(g) # 0
    BY <1>2, <2>1
  <2>3. g[1] = f[1] /\ g # <<>>
    BY <1>2, <2>2, EmptySeq
  <2> QED BY <1>1, <1>2, <2>3
<1>4. process # "wait" => Head(feed') = Head(feed)
  BY <1>0, <1>1, <1>3, <1>f DEF TypeOK
<1>5. SavedInv'
  BY <1>0, <1>4 DEF SavedInv, InHand
<1>6. ClientInv'
  <2> SUFFICES ASSUME NEW c \in Clients, NEW k \in Kinds \ gaps'[c], NEW p \in Places
               PROVE  (IF process' = "wait" THEN Told(MessageSays(k, p), wire'[c], SizeAt(clientBooks'[c][k], p))
                       ELSE Said(EntrySays(k, p), Head(feed'),
                                 Told(MessageSays(k, p), wire'[c], SizeAt(clientBooks'[c][k], p))))
                         = SizeAt(books'[k], p)
    BY DEF ClientInv, AtClient, InHand
  <2>1. (IF process = "wait" THEN Told(MessageSays(k, p), wire[c], SizeAt(clientBooks[c][k], p))
         ELSE Said(EntrySays(k, p), Head(feed),
                   Told(MessageSays(k, p), wire[c], SizeAt(clientBooks[c][k], p))))
            = SizeAt(books[k], p)
    BY <1>0 DEF ClientInv, AtClient, InHand
  <2> QED BY <1>4, <2>1
<1> QED BY <1>1, <1>2, <1>3, <1>5, <1>6

\* A book of the market changes, before, in and after the logon.
LEMMA MarketKeeps == FeedInv /\ Market => FeedInv'
<1> SUFFICES ASSUME FeedInv, Market PROVE FeedInv'
  OBVIOUS
<1>0. TypeOK /\ MirrorInv /\ SavedInv /\ ClientInv
  BY DEF FeedInv
<1>1. PICK b \in Books, e \in Entries : Tidings(b, e)
  BY <1>0, MarketTells
<1>k. PICK kind : kind = e.kind
  OBVIOUS
<1>2. kind \in Kinds /\ Leaves(market[kind], e, kind, b)
  BY <1>1, <1>k, PlaceFacts DEF Tidings
<1>3. /\ counts' = [counts EXCEPT !.updates = @ + 1]
      /\ market' = [market EXCEPT ![kind] = b]
      /\ feed' = (IF logon = "registered" THEN Append(feed, e) ELSE feed)
      /\ unseen' = (IF logon = "sent" THEN unseen \cup {kind} ELSE unseen)
      /\ UNCHANGED <<logon, books, process, targets, recorded, acceptor, subscribed, requests,
                     clientBooks, wire, gaps>>
  BY <1>1, <1>k DEF Tidings, MarketChanges, center, client
<1>4. market \in [Kinds -> Books] /\ feed \in Seq(Entries)
  BY <1>0 DEF TypeOK
<1>5. ASSUME NEW k \in Kinds, NEW p \in Places
      PROVE  SizeAt(market'[k], p) = Said(EntrySays(k, p), e, SizeAt(market[k], p))
  <2>1. CASE k = kind
    <3>1. market'[k] = b
      BY <1>2, <1>3, <1>4, <2>1
    <3> QED BY <1>2, <2>1, <3>1 DEF Leaves
  <2>2. CASE k # kind
    <3>1. market'[k] = market[k]
      BY <1>2, <1>3, <1>4, <2>2
    <3>w. PICK was : was = SizeAt(market[k], p)
      OBVIOUS
    <3>2. Said(EntrySays(k, p), e, was) = was
      BY <1>k, <2>2, SaidFacts
    <3> QED BY <3>1, <3>2, <3>w
  <2> QED BY <2>1, <2>2
<1>6. feed' \in Seq(Entries) /\ (process = "saved" => feed' # <<>>) /\ SavedInv' /\ ClientInv'
  <2>1. CASE logon = "registered"
    <3>m. PICK more : more = <<e>>
      OBVIOUS
    <3>1. more \in Seq(Entries) /\ feed' = feed \o more
      BY <1>3, <1>4, <2>1, <3>m, AppendIsConcat
    <3> QED BY <1>3, <3>1, FeedGrows
  <2>2. CASE logon # "registered"
    <3>m. PICK more : more = <<>>
      OBVIOUS
    <3>1. more \in Seq(Entries) /\ feed' = feed \o more
      BY <1>3, <1>4, <2>2, <3>m, EmptySeq, ConcatEmptySeq
    <3> QED BY <1>3, <3>1, FeedGrows
  <2> QED BY <2>1, <2>2
<1>7. TypeOK'
  <2>1. market' \in [Kinds -> Books] /\ unseen' \subseteq Kinds
    BY <1>0, <1>2, <1>3, <1>4 DEF TypeOK
  <2>2. counts' \in [updates: Nat, requests: Nat]
    <3>1. counts \in [updates: Nat, requests: Nat]
      BY <1>0 DEF TypeOK
    <3>2. counts.updates + 1 \in Nat
      BY <3>1
    <3> QED BY <1>3, <3>1, <3>2
  <2> QED BY <1>0, <1>3, <1>6, <2>1, <2>2 DEF TypeOK
<1>8. MirrorInv'
  <2> SUFFICES ASSUME logon # "none", NEW k \in Kinds \ unseen', NEW p \in Places
               PROVE  Told(EntrySays(k, p), feed', SizeAt(books[k], p)) = SizeAt(market'[k], p)
    BY <1>3 DEF MirrorInv, AtCenter
  <2>F. PICK F : F = EntrySays(k, p)
    OBVIOUS
  <2>w. PICK was : was = SizeAt(books[k], p)
    OBVIOUS
  <2>1. Told(F, feed, was) = SizeAt(market[k], p)
    BY <1>0, <1>3, <2>F, <2>w DEF MirrorInv, AtCenter
  <2>2. CASE logon = "registered"
    <3>1. F \in [Entries -> Sayings]
      BY <2>F, SayingsType
    <3>2. Told(F, Append(feed, e), was) = Said(F, e, Told(F, feed, was))
      BY <1>4, <3>1, ToldAppend
    <3> QED BY <1>3, <1>5, <2>1, <2>2, <2>F, <2>w, <3>2
  <2>3. CASE logon # "registered"
    <3>1. logon = "sent"
      BY <1>0, <2>3 DEF TypeOK
    <3>2. feed' = feed /\ market'[k] = market[k]
      BY <1>2, <1>3, <1>4, <3>1
    <3> QED BY <2>1, <2>F, <2>w, <3>2
  <2> QED BY <2>2, <2>3
<1> QED BY <1>6, <1>7, <1>8 DEF FeedInv

\* The first half of the logon sends the books of the market.
LEMMA LogonSendsKeeps == FeedInv /\ LogonSends => FeedInv'
<1> SUFFICES ASSUME FeedInv, LogonSends PROVE FeedInv'
  OBVIOUS
<1>0. TypeOK /\ MirrorInv /\ SavedInv /\ ClientInv
  BY DEF FeedInv
<1>1. PICK quotes \in WorstFirst("GLB", market["GLB"]), levels \in WorstFirst("LOC", market["LOC"]) :
          feed' = feed \o OrderBookData(quotes, levels)
  BY DEF LogonSends
<1>d. PICK data : data = OrderBookData(quotes, levels)
  OBVIOUS
<1>2. /\ logon' = "sent"
      /\ UNCHANGED <<market, unseen, books, process, targets, recorded, acceptor, subscribed, requests,
                     clientBooks, wire, gaps, counts>>
  BY DEF LogonSends, center, client
<1>3. market \in [Kinds -> Books] /\ feed \in Seq(Entries)
  BY <1>0 DEF TypeOK
<1>4. SaysMarket(data)
  BY <1>3, <1>d, OrderBookDataSays
<1>5. data \in Seq(Entries) /\ feed' = feed \o data
  BY <1>1, <1>4, <1>d DEF SaysMarket
<1>6. feed' \in Seq(Entries) /\ (process = "saved" => feed' # <<>>) /\ SavedInv' /\ ClientInv'
  BY <1>2, <1>5, FeedGrows
<1>7. TypeOK'
  BY <1>0, <1>2, <1>6 DEF TypeOK
<1>8. MirrorInv'
  <2> SUFFICES ASSUME NEW k \in Kinds, NEW p \in Places
               PROVE  Told(EntrySays(k, p), feed', SizeAt(books[k], p)) = SizeAt(market[k], p)
    BY <1>2 DEF MirrorInv, AtCenter
  <2>F. PICK F : F = EntrySays(k, p)
    OBVIOUS
  <2>w. PICK was : was = SizeAt(books[k], p)
    OBVIOUS
  <2>1. F \in [Entries -> Sayings]
    BY <2>F, SayingsType
  <2>2. Told(F, feed \o data, was) = Told(F, data, Told(F, feed, was))
    BY <1>3, <1>5, <2>1, ToldConcat
  <2>3. Told(F, data, Told(F, feed, was)) = SizeAt(market[k], p)
    BY <1>4, <2>F DEF SaysMarket
  <2> QED BY <1>5, <2>2, <2>3, <2>F, <2>w
<1> QED BY <1>6, <1>7, <1>8 DEF FeedInv

\* The second half of the logon registers the BrokerageCenter.
LEMMA LogonRegistersKeeps == FeedInv /\ LogonRegisters => FeedInv'
<1> SUFFICES ASSUME FeedInv, LogonRegisters PROVE FeedInv'
  OBVIOUS
<1>0. TypeOK /\ MirrorInv /\ SavedInv /\ ClientInv
  BY DEF FeedInv
<1>1. /\ logon = "sent" /\ logon' = "registered"
      /\ UNCHANGED <<market, unseen, feed, books, process, targets, recorded, acceptor, subscribed, requests,
                     clientBooks, wire, gaps, counts>>
  BY DEF LogonRegisters, center, client
<1>2. TypeOK'
  BY <1>0, <1>1 DEF TypeOK
<1>3. MirrorInv'
  BY <1>0, <1>1 DEF MirrorInv, AtCenter
<1>4. SavedInv'
  BY <1>0, <1>1 DEF SavedInv, InHand
<1>5. ClientInv'
  BY <1>0, <1>1, ClientsStay
<1> QED BY <1>2, <1>3, <1>4, <1>5 DEF FeedInv

--------------------------------------------------------------------------------
(* The theorems. *)

(***************************************************************************)
(* Every step keeps the invariant.                                          *)
(***************************************************************************)
THEOREM FeedInvariant == Spec => []FeedInv
<1>1. Init => FeedInv
  BY InitFeedInv
<1>2. FeedInv /\ [Next]_vars => FeedInv'
  <2> SUFFICES ASSUME FeedInv, [Next]_vars PROVE FeedInv'
    OBVIOUS
  <2>1. CASE Market
    BY <2>1, MarketKeeps
  <2>2. CASE LogonSends \/ LogonRegisters
    BY <2>2, LogonSendsKeeps, LogonRegistersKeeps
  <2>3. CASE Process
    BY <2>3, SaveUpdateKeeps, SendUpdateKeeps DEF Process
  <2>4. CASE BroadcastOrderBooks
    BY <2>4, BroadcastKeeps
  <2>5. CASE Acceptor
    <3>1. PICK c \in Clients : \/ SubscribeSends(c) \/ SubscribeRegisters(c)
                               \/ OnUnsubscribe(c) \/ OnLogout(c)
      BY <2>5 DEF Acceptor
    <3>2. CASE SubscribeSends(c)
      BY <3>2, SubscribeSendsKeeps
    <3>3. CASE SubscribeRegisters(c) \/ OnUnsubscribe(c) \/ OnLogout(c)
      BY <3>3, RegistrationKeeps
    <3> QED BY <3>1, <3>2, <3>3
  <2>6. CASE \E c \in Clients, r \in {"subscribe", "unsubscribe", "logout"} : Request(c, r)
    BY <2>6, RegistrationKeeps
  <2>7. CASE \E c \in Clients : Receive(c)
    BY <2>7, ReceiveKeeps
  <2>8. CASE UNCHANGED vars
    <3>0. TypeOK /\ MirrorInv /\ SavedInv /\ ClientInv
      BY DEF FeedInv
    <3>1. UNCHANGED <<market, logon, unseen, feed, books, process, targets, recorded, acceptor, subscribed,
                      requests, clientBooks, wire, gaps, counts>>
      BY <2>8 DEF vars
    <3>2. TypeOK'
      BY <3>0, <3>1 DEF TypeOK
    <3>3. MirrorInv' /\ SavedInv' /\ ClientInv'
      BY <3>0, <3>1, CenterStays, ClientsStay
    <3> QED BY <3>2, <3>3 DEF FeedInv
  <2> QED BY <2>1, <2>2, <2>3, <2>4, <2>5, <2>6, <2>7, <2>8 DEF Next
<1> QED BY <1>1, <1>2, PTL DEF Spec

\* Every variable keeps its type.
THEOREM FeedTypesKept == Spec => []TypeOK
BY FeedInvariant, FeedInvShows, PTL

(***************************************************************************)
(* The BrokerageCenter gets the books of the market.                        *)
(***************************************************************************)
THEOREM CenterMirrorsMarket == Spec => []MirrorExact
BY FeedInvariant, FeedInvShows, PTL

(***************************************************************************)
(* A client that missed nothing gets the books of the BrokerageCenter.      *)
(***************************************************************************)
THEOREM ClientsStayCurrent == Spec => []ClientCurrent
BY FeedInvariant, FeedInvShows, PTL

================================================================================
