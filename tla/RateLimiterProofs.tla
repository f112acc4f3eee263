------------------------- MODULE RateLimiterProofs -------------------------
(***************************************************************************)
(* That no Window ticks in a row let more than 2 * Limit requests through,  *)
(* and that who asks no more than Limit times in them is not refused.       *)
(***************************************************************************)
EXTENDS RateLimiter, TLAPS

\* Ticks the key has lived.
Lived == Window - ttl

\* What the current life of the key has let through.
Spent == IF count <= Limit THEN count ELSE Limit

\* A key has an expiry, and without a key nothing was let through in this tick.  A
\* sum that reaches no further back than the key's creation counts this life only;
\* one that does reaches into one earlier life at most, since a life is as long as
\* the sum.
Inv ==
  /\ TypeOK
  /\ count = 0 <=> ttl = 0
  /\ ttl = 0 => lately[0] = 0 /\ \A i \in Ages : lately[i] <= Limit
  /\ ttl # 0 => \A i \in Ages :
       lately[i] <= Spent + (IF i <= Lived THEN 0 ELSE Limit)

\* All that the key has counted was asked since its creation, which is less than Window
\* ticks ago.
CauseInv == ttl # 0 => \A i \in Ages : i >= Lived => asked[i] >= count

LEMMA InitInv == Init => Inv
BY LimitAssumption, WindowAssumption DEF Init, Inv, TypeOK, Ages, Lived, Spent

\* Counting a request, let through or not.
LEMMA CountStep ==
  ASSUME Inv, Script,
         UNCHANGED lately \/ (Current <= Limit /\ lately' = [i \in Ages |-> lately[i] + 1])
  PROVE  Inv'
<1> USE LimitAssumption, WindowAssumption
<1>1. TypeOK'
  <2>1. \A n \in 0 .. Limit + 1 : Counted(n) \in 0 .. Limit + 1
    BY DEF Counted
  <2>2. count' \in 0 .. Limit + 1 /\ ttl' \in 0 .. Window
    BY <2>1 DEF Inv, TypeOK, Script, Current
  <2>3. lately' \in [Ages -> Nat]
    BY DEF Inv, TypeOK
  <2>4. asked' \in [Ages -> 0 .. Limit + 1]
    BY <2>1 DEF Inv, TypeOK, Script, Asked
  <2> QED BY <2>2, <2>3, <2>4 DEF TypeOK
<1>2. count' # 0 /\ ttl' # 0
  BY DEF Inv, TypeOK, Script, Current, Counted
<1>3. ASSUME NEW i \in Ages
      PROVE  lately'[i] <= Spent' + (IF i <= Lived' THEN 0 ELSE Limit)
  <2>1. lately[i] \in Nat /\ lately'[i] \in Nat /\ lately'[i] <= lately[i] + 1
    BY DEF Inv, TypeOK
  <2>2. CASE ttl = 0
    <3>1. count = 0 /\ count' = 1 /\ ttl' = Window /\ Lived' = 0 /\ Spent' = 1
      BY <2>2 DEF Inv, TypeOK, Script, Current, Counted, Lived, Spent
    <3>2. lately[i] <= Limit /\ (i = 0 => lately[i] = 0)
      BY <2>2 DEF Inv
    <3> QED BY <2>1, <3>1, <3>2 DEF Ages
  <2>3. CASE ttl # 0
    <3>1. count # 0 /\ ttl' = ttl /\ Lived' = Lived
      BY <2>3 DEF Inv, TypeOK, Script, Current, Counted, Lived
    <3>2. lately[i] <= Spent + (IF i <= Lived THEN 0 ELSE Limit)
      BY <2>3 DEF Inv
    <3>3. Spent' >= Spent /\ (Current <= Limit => Spent' = Spent + 1)
      BY DEF Inv, TypeOK, Script, Current, Counted, Spent
    <3>4. Spent \in Nat /\ Spent' \in Nat /\ Lived \in Nat
      BY <1>1, <3>1 DEF Inv, TypeOK, Spent, Lived
    <3>5. lately'[i] = lately[i] \/ (Current <= Limit /\ lately'[i] = lately[i] + 1)
      OBVIOUS
    <3> QED BY <2>1, <3>1, <3>2, <3>3, <3>4, <3>5 DEF Ages
  <2> QED BY <2>2, <2>3
<1> QED BY <1>1, <1>2, <1>3 DEF Inv

LEMMA TickStep == Inv /\ Tick => Inv'
<1> SUFFICES ASSUME Inv, Tick PROVE Inv' OBVIOUS
<1> USE LimitAssumption, WindowAssumption
<1>1. TypeOK'
  BY DEF Inv, TypeOK, Tick, Ages
<1>2. (count = 0 <=> ttl = 0)'
  BY DEF Inv, TypeOK, Tick
<1>3. ASSUME NEW i \in Ages, i # 0
      PROVE  i - 1 \in Ages /\ lately'[i] = lately[i - 1] /\ lately[i - 1] \in Nat
  BY <1>3 DEF Inv, TypeOK, Tick, Ages
<1>4. 0 \in Ages /\ lately'[0] = 0
  BY DEF Tick, Ages
<1>5. Spent \in Nat /\ Spent <= Limit /\ (ttl' # 0 => Spent' = Spent)
  BY DEF Inv, TypeOK, Tick, Spent
<1>6. ASSUME ttl' = 0, NEW i \in Ages PROVE lately'[i] <= Limit
  <2>1. CASE i = 0 BY <1>4, <2>1
  <2>2. CASE i # 0 /\ ttl = 0 BY <1>3, <2>2 DEF Inv
  <2>3. CASE i # 0 /\ ttl # 0
    <3>1. Lived = Window - 1
      BY <1>6, <2>3 DEF Inv, TypeOK, Tick, Lived
    <3>2. lately[i - 1] <= Spent
      BY <1>3, <2>3, <3>1, <1>5 DEF Inv, Ages
    <3> QED BY <1>3, <1>5, <2>3, <3>2
  <2> QED BY <2>1, <2>2, <2>3
<1>7. ASSUME ttl' # 0, NEW i \in Ages
      PROVE  lately'[i] <= Spent' + (IF i <= Lived' THEN 0 ELSE Limit)
  <2>1. ttl # 0 /\ Lived \in Nat /\ Lived' = Lived + 1
    BY <1>7 DEF Inv, TypeOK, Tick, Lived
  <2>2. CASE i = 0 BY <1>4, <1>5, <1>7, <2>1, <2>2
  <2>3. CASE i # 0
    <3>1. lately[i - 1] <= Spent + (IF i - 1 <= Lived THEN 0 ELSE Limit)
      BY <1>3, <2>1, <2>3 DEF Inv
    <3> QED BY <1>3, <1>5, <1>7, <2>1, <2>3, <3>1 DEF Ages
  <2> QED BY <2>2, <2>3
<1> QED BY <1>1, <1>2, <1>4, <1>6, <1>7 DEF Inv

LEMMA NextInv == Inv /\ [Next]_vars => Inv'
<1> SUFFICES ASSUME Inv, [Next]_vars PROVE Inv' OBVIOUS
<1>1. CASE Pass BY <1>1, CountStep DEF Pass
<1>2. CASE Refuse BY <1>2, CountStep DEF Refuse
<1>3. CASE Unavailable BY <1>3, CountStep DEF Unavailable
<1>4. CASE Tick BY <1>4, TickStep
<1>5. CASE UNCHANGED vars
  BY <1>5 DEF vars, Inv, TypeOK, Lived, Spent
<1> QED BY <1>1, <1>2, <1>3, <1>4, <1>5 DEF Next

LEMMA InvHolds == Spec => []Inv
BY InitInv, NextInv, PTL DEF Spec

\* What a request adds to the count it adds to every sum of requests; a tick makes the key
\* older by as much as it moves the sums.
LEMMA CauseStep == Inv /\ CauseInv /\ [Next]_vars => CauseInv'
<1> SUFFICES ASSUME Inv, CauseInv, [Next]_vars PROVE CauseInv' OBVIOUS
<1> USE LimitAssumption, WindowAssumption
<1>1. ASSUME Script PROVE CauseInv'
  <2> SUFFICES ASSUME NEW i \in Ages, i >= Lived' PROVE asked'[i] >= count'
    BY DEF CauseInv
  <2>1. /\ count' = Counted(count) /\ asked'[i] = Counted(asked[i])
        /\ ttl' = IF Current = 1 THEN Window ELSE ttl
    BY <1>1 DEF Script, Current, Asked
  <2>2. /\ count \in 0 .. Limit + 1 /\ asked[i] \in 0 .. Limit + 1 /\ ttl \in 0 .. Window
        /\ count = 0 <=> ttl = 0
    BY DEF Inv, TypeOK
  <2>3. CASE ttl = 0
    BY <2>1, <2>2, <2>3 DEF Counted
  <2>4. CASE ttl # 0
    <3>1. Lived' = Lived
      BY <2>1, <2>2, <2>4 DEF Lived, Current, Counted
    <3>2. asked[i] >= count
      BY <2>4, <3>1 DEF CauseInv
    <3> QED BY <2>1, <2>2, <3>2 DEF Counted
  <2> QED BY <2>3, <2>4
<1>2. CASE Tick
  <2> SUFFICES ASSUME ttl' # 0, NEW i \in Ages, i >= Lived' PROVE asked'[i] >= count'
    BY DEF CauseInv
  <2>1. ttl # 0 /\ count' = count /\ Lived' = Lived + 1 /\ Lived \in Nat
    BY <1>2 DEF Inv, TypeOK, Tick, Lived
  <2>2. i # 0 /\ i - 1 \in Ages /\ i - 1 >= Lived
    BY <2>1 DEF Ages
  <2>3. asked'[i] = asked[i - 1]
    BY <1>2, <2>2 DEF Tick
  <2> QED BY <2>1, <2>2, <2>3 DEF CauseInv
<1>3. CASE UNCHANGED vars
  BY <1>3 DEF vars, CauseInv, Lived
<1> QED BY <1>1, <1>2, <1>3 DEF Next, Pass, Refuse, Unavailable

\* The key's value and expiry keep their ranges.
THEOREM LimiterTypeCorrect == Spec => []TypeOK
<1>1. Inv => TypeOK BY DEF Inv
<1> QED BY <1>1, InvHolds, PTL

\* For every limit and window, any Window ticks let at most 2 * Limit requests through.
THEOREM AtMostTwicePasses == Spec => []AtMostTwice
<1>1. Inv => AtMostTwice
  <2> SUFFICES ASSUME Inv PROVE AtMostTwice OBVIOUS
  <2> USE LimitAssumption, WindowAssumption
  <2>1. Window - 1 \in Ages BY DEF Ages
  <2>2. Spent \in Nat /\ Spent <= Limit BY DEF Inv, TypeOK, Spent
  <2>3. lately[Window - 1] \in Nat BY <2>1 DEF Inv, TypeOK
  <2>4. CASE ttl = 0 BY <2>1, <2>3, <2>4 DEF Inv, AtMostTwice
  <2>5. CASE ttl # 0
    <3>1. lately[Window - 1] <= Spent + (IF Window - 1 <= Lived THEN 0 ELSE Limit)
      BY <2>1, <2>5 DEF Inv
    <3> QED BY <2>2, <2>3, <3>1 DEF AtMostTwice
  <2> QED BY <2>4, <2>5
<1> QED BY <1>1, InvHolds, PTL

\* api/middleware.go:106-112: for every limit and window, an address is refused only for what
\* it asked in the last Window ticks.  What is left of LetInAgain is that time passes.
THEOREM RefusalsHaveCause == Spec => []RefusedForCause
<1>1. Init => CauseInv
  BY DEF Init, CauseInv
<1>2. Inv /\ CauseInv => RefusedForCause
  <2> SUFFICES ASSUME Inv, CauseInv, count > Limit PROVE asked[Window - 1] > Limit
    BY DEF RefusedForCause
  <2> USE LimitAssumption, WindowAssumption
  <2>1. count \in 0 .. Limit + 1 /\ ttl \in 1 .. Window
    BY DEF Inv, TypeOK
  <2>2. Window - 1 \in Ages /\ Window - 1 >= Lived
    BY <2>1 DEF Ages, Lived
  <2>3. asked[Window - 1] \in 0 .. Limit + 1 /\ asked[Window - 1] >= count
    BY <2>1, <2>2 DEF Inv, TypeOK, CauseInv
  <2> QED BY <2>1, <2>3
<1> QED BY <1>1, <1>2, CauseStep, InvHolds, PTL DEF Spec
=============================================================================
