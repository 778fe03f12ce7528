---------------------------- MODULE OrderLedgerProofs ----------------------------
(***************************************************************************)
(* Proofs about OrderLedger: its guards are what the promise needs.        *)
(***************************************************************************)
EXTENDS OrderLedger, SequenceTheorems, TLAPS

LedgerInv == TypeOK /\ NoOverfill

(***************************************************************************)
(* An entry with q more shares executed or cancelled, q at most what was    *)
(* open, is an entry that is not overfilled.                               *)
(***************************************************************************)
LEMMA EntryStep ==
    ASSUME Sizes \subseteq Nat, NEW e \in Entry, NEW q \in Nat,
           q <= e.submitted - e.filled - e.cancelled
    PROVE  \A f \in {[e EXCEPT !.filled = @ + q], [e EXCEPT !.cancelled = @ + q]} :
              f \in Entry /\ f.trader = e.trader /\ f.submitted - f.filled - f.cancelled >= 0
<1>1. /\ e.submitted \in Nat /\ e.filled \in Nat /\ e.cancelled \in Nat
      /\ e.filled + q \in Nat /\ e.cancelled + q \in Nat
  <2>1. e.submitted \in Sizes /\ e.filled \in Nat /\ e.cancelled \in Nat
    BY DEF Entry
  <2>2. e.submitted \in Nat
    BY <2>1
  <2>3. e.filled + q \in Nat /\ e.cancelled + q \in Nat
    BY <2>1
  <2> QED BY <2>1, <2>2, <2>3
<1>2. [e EXCEPT !.filled = @ + q] \in Entry /\ [e EXCEPT !.cancelled = @ + q] \in Entry
  BY <1>1 DEF Entry
<1> QED BY <1>1, <1>2 DEF Entry

(***************************************************************************)
(* Replacing one entry by such an entry keeps the ledger in order.         *)
(***************************************************************************)
LEMMA ReplaceEntry ==
    ASSUME LedgerInv, NEW i \in DOMAIN ledger, NEW f \in Entry,
           f.submitted - f.filled - f.cancelled >= 0, ledger' = [ledger EXCEPT ![i] = f]
    PROVE  LedgerInv'
<1>1. ledger \in Seq(Entry) /\ DOMAIN ledger = 1..Len(ledger)
  BY LenProperties DEF LedgerInv, TypeOK
<1>2. ledger' \in Seq(Entry)
  BY <1>1, ExceptSeq
<1>3. DOMAIN ledger' = DOMAIN ledger /\ \A k \in DOMAIN ledger : ledger'[k] = IF k = i THEN f ELSE ledger[k]
  BY <1>1
<1>4. \A k \in DOMAIN ledger : ledger[k].submitted - ledger[k].filled - ledger[k].cancelled >= 0
  BY DEF LedgerInv, NoOverfill, Open
<1> QED BY <1>2, <1>3, <1>4 DEF LedgerInv, TypeOK, NoOverfill, Open

(***************************************************************************)
(* No order is ever executed and cancelled for more shares than submitted, *)
(* provided that sizes are numbers.                                        *)
(***************************************************************************)
THEOREM NeverOverfilled ==
    ASSUME Sizes \subseteq Nat
    PROVE  Spec => []NoOverfill
<1>1. Init => LedgerInv
  BY DEF Init, LedgerInv, TypeOK, NoOverfill
<1>2. LedgerInv /\ [Next]_ledger => LedgerInv'
  <2> SUFFICES ASSUME LedgerInv, Next PROVE LedgerInv'
    BY DEF LedgerInv, TypeOK, NoOverfill, Open
  <2>1. /\ ledger \in Seq(Entry) /\ DOMAIN ledger = 1..Len(ledger) /\ Len(ledger) \in Nat
        /\ \A k \in DOMAIN ledger : ledger[k] \in Entry
    BY LenProperties, ElementOfSeq DEF LedgerInv, TypeOK
  <2>2. ASSUME NEW t \in Traders, NEW q \in Sizes, Submit(t, q)
        PROVE  LedgerInv'
    <3> DEFINE e == [trader |-> t, submitted |-> q, filled |-> 0, cancelled |-> 0]
    <3>1. e \in Entry /\ e.submitted - e.filled - e.cancelled >= 0
      BY DEF Entry
    <3>2. ledger' = Append(ledger, e)
      BY <2>2 DEF Submit
    <3> HIDE DEF e
    <3>3. /\ ledger' \in Seq(Entry) /\ Len(ledger') = Len(ledger) + 1
          /\ ledger'[Len(ledger) + 1] = e
          /\ \A k \in 1..Len(ledger) : ledger'[k] = ledger[k]
      BY <2>1, <3>1, <3>2, AppendProperties
    <3>4. DOMAIN ledger' = 1..Len(ledger) + 1
      BY <3>3, LenProperties
    <3>5. \A k \in 1..Len(ledger) + 1 : k \in 1..Len(ledger) \/ k = Len(ledger) + 1
      BY <2>1
    <3>6. \A k \in DOMAIN ledger : ledger[k].submitted - ledger[k].filled - ledger[k].cancelled >= 0
      BY DEF LedgerInv, NoOverfill, Open
    <3> QED BY <2>1, <3>1, <3>3, <3>4, <3>5, <3>6 DEF LedgerInv, TypeOK, NoOverfill, Open
  <2>3. ASSUME NEW i \in DOMAIN ledger, NEW q \in 1..Open(i),
               TradeExternal(i, q) \/ Cancel(i, q)
        PROVE  LedgerInv'
    <3>1. q \in Nat /\ q <= ledger[i].submitted - ledger[i].filled - ledger[i].cancelled
      <4>1. ledger[i] \in Entry
        BY <2>1
      <4> QED BY <4>1 DEF Open, Entry
    <3>2. PICK f \in {[ledger[i] EXCEPT !.filled = @ + q], [ledger[i] EXCEPT !.cancelled = @ + q]} :
             ledger' = [ledger EXCEPT ![i] = f]
      BY <2>3 DEF TradeExternal, Cancel
    <3> QED BY <2>1, <3>1, <3>2, EntryStep, ReplaceEntry
  <2>4. ASSUME NEW i \in DOMAIN ledger, NEW q \in 1..Open(i), NEW j \in DOMAIN ledger,
               TradePair(i, j, q)
        PROVE  LedgerInv'
    <3> DEFINE f == [ledger[i] EXCEPT !.filled = @ + q]
               g == [ledger[j] EXCEPT !.filled = @ + q]
    <3>1. /\ ledger[i] \in Entry /\ ledger[j] \in Entry /\ i # j
          /\ q \in Nat /\ q <= ledger[i].submitted - ledger[i].filled - ledger[i].cancelled
          /\ q <= ledger[j].submitted - ledger[j].filled - ledger[j].cancelled
      <4>1. ledger[i] \in Entry /\ ledger[j] \in Entry
        BY <2>1
      <4> QED BY <2>4, <4>1 DEF Open, Entry, TradePair
    <3>2. /\ f \in Entry /\ f.submitted - f.filled - f.cancelled >= 0
          /\ g \in Entry /\ g.submitted - g.filled - g.cancelled >= 0
      BY <3>1, EntryStep
    <3>3. ledger' = [ledger EXCEPT ![i] = f, ![j] = g]
      BY <2>4, <3>1 DEF TradePair
    <3> HIDE DEF f, g
    <3> DEFINE middle == [ledger EXCEPT ![i] = f]
    <3>4. middle \in Seq(Entry) /\ Len(middle) = Len(ledger)
      BY <2>1, <3>2, ExceptSeq
    <3>5. ledger' = [middle EXCEPT ![j] = g]
      BY <3>3
    <3>6. ledger' \in Seq(Entry)
      <4> HIDE DEF middle
      <4> QED BY <2>1, <3>2, <3>4, <3>5, ExceptSeq
    <3>7. DOMAIN ledger' = DOMAIN ledger
          /\ \A k \in DOMAIN ledger : ledger'[k] = IF k = j THEN g ELSE IF k = i THEN f ELSE ledger[k]
      BY <2>1, <3>3
    <3>8. \A k \in DOMAIN ledger : ledger[k].submitted - ledger[k].filled - ledger[k].cancelled >= 0
      BY DEF LedgerInv, NoOverfill, Open
    <3> QED BY <3>2, <3>6, <3>7, <3>8 DEF LedgerInv, TypeOK, NoOverfill, Open
  <2> QED BY <2>2, <2>3, <2>4 DEF Next
<1>3. LedgerInv => NoOverfill
  BY DEF LedgerInv
<1> QED BY <1>1, <1>2, <1>3, PTL DEF Spec

================================================================================
